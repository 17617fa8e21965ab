----------------------------- MODULE MCDialogue -----------------------------
(***************************************************************************)
(* Dialogue for TLC: numbers on both sides of every length of a varint,    *)
(* and strings that fit and do not.                                        *)
(***************************************************************************)
EXTENDS Dialogue

MCNumber ==
  (0 .. Ints + 1) \union {Longs - 1}
  \union UNION {Base^k - 1 .. Base^k + 1 : k \in 1 .. MaxBytes - 1}

(* No string has a byte 0.                                                 *)
MCString == {[i \in 1 .. n |-> 1 + ((3 * i + n) % (2 * Base - 1))] : n \in 0 .. 6}

MCProtocol == {0, 1, 3, 4, 63, 64, 255, -1, -256}
MCPort == {0, 1, 10, 63}
=============================================================================
