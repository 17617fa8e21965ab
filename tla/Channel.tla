------------------------------- MODULE Channel -------------------------------
(***************************************************************************)
(* What sending.c promises to the two loops that use it: a bounded FIFO    *)
(* pipe into a socket.  Chunks 1, 2, 3, ... are put in; each is delivered  *)
(* in turn while the socket is up and has room, and dropped once it is not *)
(* up.  After the writer has closed the pipe it drains, and then it ends.  *)
(* Nobody promises that the peer makes room.                               *)
(***************************************************************************)
EXTENDS Naturals, Sequences

CONSTANTS MaxChunks,  \* bound: how many chunks are ever put in
          MaxData     \* the writer waits while more than this many are inside

VARIABLES put,    \* how many chunks were put in
          taken,  \* how many of them were delivered or dropped
          wire,   \* the chunks delivered, in order
          up,     \* the socket still takes data
          room,   \* it takes the next chunk without waiting for its peer
          phase   \* "open", "closed" by the writer, or "ended"

vars == <<put, taken, wire, up, room, phase>>

Init == /\ put = 0 /\ taken = 0 /\ wire = <<>>
        /\ up = TRUE /\ room = TRUE /\ phase = "open"

Put == /\ phase = "open" /\ put < MaxChunks /\ put <= taken + MaxData
       /\ put' = put + 1
       /\ UNCHANGED <<taken, wire, up, room, phase>>

Deliver == /\ up /\ room /\ taken < put
           /\ taken' = taken + 1 /\ wire' = Append(wire, taken + 1)
           /\ room' \in BOOLEAN
           /\ UNCHANGED <<put, up, phase>>

Drop == /\ ~up /\ taken < put
        /\ taken' = taken + 1
        /\ UNCHANGED <<put, wire, up, room, phase>>

Break == up' = FALSE /\ UNCHANGED <<put, taken, wire, room, phase>>

Read == ~room /\ room' = TRUE /\ UNCHANGED <<put, taken, wire, up, phase>>

Close == /\ phase = "open" /\ phase' = "closed"
         /\ UNCHANGED <<put, taken, wire, up, room>>

End == /\ phase = "closed" /\ taken = put
       /\ phase' = "ended" /\ up' = FALSE
       /\ UNCHANGED <<put, taken, wire, room>>

Next == Put \/ Deliver \/ Drop \/ Break \/ Read \/ Close \/ End

Fairness == WF_vars(Deliver \/ Drop) /\ WF_vars(End)

Spec == Init /\ [][Next]_vars /\ Fairness
=============================================================================
