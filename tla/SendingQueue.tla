---------------------------- MODULE SendingQueue ----------------------------
(***************************************************************************)
(* One direction of a proxied connection: a relay thread receives chunks   *)
(* from its source socket and hands them to a sender thread, which writes  *)
(* them to the target socket.  The relay is the receive loop of DealRemote *)
(* (remote.c) and, in the other direction, of DealClient (client.c); the   *)
(* hand-over is sending.c: a linked list in which every node has a lock of *)
(* its own.  The relay always holds the lock of the empty node at the end  *)
(* of the list, and releases it only when the node is filled or when it    *)
(* has nothing more to say: an empty node tells the sender to stop.        *)
(*                                                                         *)
(* A step ends where another thread could notice: before a lock is taken,  *)
(* after one is released, around recv and send, and around the read and    *)
(* the writes of datanum.  A critical section that touches only what its   *)
(* lock protects is one step.                                              *)
(*                                                                         *)
(* Nodes are numbered in the order they are allocated, chunks in the order *)
(* they are received; a node or chunk that was freed is never numbered     *)
(* again, so that a use after free is visible.                             *)
(***************************************************************************)
EXTENDS Naturals, Sequences

CONSTANTS MaxChunks,  \* bound: how many chunks the source ever delivers
          MaxData     \* pack.maxdatanum; InitSending is called with 2000

ASSUME BoundsAssumption == MaxChunks \in Nat /\ MaxData \in Nat

Chunk == 1 .. MaxChunks
Node  == 1 .. (MaxChunks + 1)
Null  == 0                  \* a NULL pointer
Junk  == MaxChunks + 2      \* what malloc left in a field not yet assigned

Relay  == "relay"
Sender == "sender"
Free   == "free"
Gone   == "deleted"         \* a critical section after DeleteCriticalSection

VARIABLES
  rpc,      \* the relay's control point
  link,     \* the relay's end of the list: temp in remote.c, link in sending.c
  got,      \* how many chunks recv has returned to the relay
  spc,      \* the sender's control point
  temp,     \* the node the sender is at
  live,     \* the nodes allocated and not freed
  lock,     \* owner of each node's lock
  data,     \* chunk each node carries, or Null
  next,     \* successor of each node, or Null
  frees,    \* how often each chunk's buffer has been freed
  spin,     \* owner of pack.spinlock
  close,    \* pack.close
  datanum,  \* pack.datanum
  source,   \* the socket the relay reads: "open", or "ended"
  target,   \* the socket the sender writes: "open", or "broken"
  room,     \* send on the target returns: its peer has read enough
  wire      \* what send has accepted, in order

listVars == <<live, lock, data, next>>
packVars == <<spin, close, datanum>>
netVars  == <<source, target, room, wire>>
vars == <<rpc, link, got, spc, temp, frees, listVars, packVars, netVars>>

RelayPoints  == {"recv", "test", "wait", "count", "publish", "shut", "join",
                 "done"}
SenderPoints == {"enter", "held", "close", "count", "next", "ended"}

(* InitSending: the first node exists, empty, and its lock is held by the  *)
(* thread that called it.                                                  *)
Init ==
  /\ rpc = "recv" /\ link = 1 /\ got = 0
  /\ spc = "enter" /\ temp = 1
  /\ live = {1}
  /\ lock = [n \in Node |-> IF n = 1 THEN Relay ELSE Free]
  /\ data = [n \in Node |-> IF n = 1 THEN Null ELSE Junk]
  /\ next = [n \in Node |-> IF n = 1 THEN Null ELSE Junk]
  /\ frees = [c \in Chunk |-> 0]
  /\ spin = Free /\ close = FALSE /\ datanum = 0
  /\ source = "open" /\ target = "open" /\ room = TRUE
  /\ wire = <<>>

RelayTo(from, to)  == rpc = from /\ rpc' = to /\ UNCHANGED <<spc, temp>>
SenderTo(from, to) == spc = from /\ spc' = to /\ UNCHANGED <<rpc, link, got>>

-----------------------------------------------------------------------------
(* Mistakes.  Each is an action below with something left out or wrong;    *)
(* TLC finds the property named violated if it takes the action's place.   *)

CountNothing ==              \* TypeOK
  /\ RelayTo("count", "publish") /\ spin = Free /\ spin' = Relay
  /\ UNCHANGED <<link, got, close, datanum, frees, listVars, netVars>>

JoinNobody ==                \* NoUseAfterFree
  /\ RelayTo("join", "done") /\ spin' = Gone
  /\ UNCHANGED <<link, got, close, datanum, frees, listVars, netVars>>

FillIf(go, nextdata) ==
  /\ RelayTo("wait", "count") /\ go
  /\ data' = [data EXCEPT ![link] = got, ![link + 1] = nextdata]
  /\ next' = [next EXCEPT ![link] = link + 1]
  /\ live' = live \union {link + 1}
  /\ lock' = [lock EXCEPT ![link + 1] = Relay]
  /\ UNCHANGED <<link, got, frees, packVars, netVars>>

FillOffByOne == FillIf(datanum <= MaxData + 1, Null)      \* Backlog
FillAtOnce   == FillIf(TRUE, Null)                        \* ChannelSpec
FillUnset    == FillIf(datanum <= MaxData, Junk)          \* InOrder

RefuseKeepsChunk ==          \* ReleasedOnce
  /\ RelayTo("test", "shut") /\ spin = Free /\ close
  /\ lock' = [lock EXCEPT ![link] = Free]
  /\ UNCHANGED <<link, got, live, data, next, frees, packVars, netVars>>

SendOkCloses ==              \* RefusedMeansBroken
  /\ SenderTo("held", "close") /\ data[temp] # Null /\ target = "open"
  /\ room /\ room' \in BOOLEAN
  /\ wire' = Append(wire, data[temp])
  /\ UNCHANGED <<temp, frees, source, target, listVars, packVars>>

SendFailsRetries ==          \* EndsOnceSourceEnded
  spc = "held" /\ data[temp] # Null /\ target = "broken" /\ UNCHANGED vars

EndThreadEarly ==            \* EndsDrained
  /\ SenderTo("held", "ended") /\ (data[temp] = Null \/ source = "ended")
  /\ lock' = [lock EXCEPT ![temp] = Free] /\ live' = live \ {temp}
  /\ target' = "broken"
  /\ UNCHANGED <<temp, data, next, frees, source, room, wire, packVars>>

-----------------------------------------------------------------------------
(* The relay.                                                              *)

(* recv returns a chunk; the buffer it was read into goes to UpSendingData. *)
RecvChunk ==
  /\ RelayTo("recv", "test")
  /\ source = "open" /\ got < MaxChunks
  /\ got' = got + 1
  /\ UNCHANGED <<link, frees, listVars, packVars, netVars>>

(* recv returns 0 or an error: the relay gives up the lock of the empty    *)
(* node, which is how the sender learns of the end.                        *)
RecvEnd ==
  /\ RelayTo("recv", "shut")
  /\ source = "ended"
  /\ lock' = [lock EXCEPT ![link] = Free]
  /\ UNCHANGED <<link, got, live, data, next, frees, packVars, netVars>>

TestOpen ==
  /\ RelayTo("test", "wait")
  /\ spin = Free /\ ~close
  /\ UNCHANGED <<link, got, frees, listVars, packVars, netVars>>

(* pack->close is set: UpSendingData gives up the empty node and returns   *)
(* NULL, and its caller frees the chunk.                                   *)
Refuse ==
  /\ RelayTo("test", "shut")
  /\ spin = Free /\ close
  /\ lock' = [lock EXCEPT ![link] = Free]
  /\ frees' = [frees EXCEPT ![got] = @ + 1]
  /\ UNCHANGED <<link, got, live, data, next, packVars, netVars>>

(* The loop that sleeps while the backlog is over the limit.  It reads     *)
(* datanum without a lock; the sender can only lower it meanwhile.         *)
SleepForRoom ==
  rpc = "wait" /\ datanum > MaxData /\ UNCHANGED vars

(* Once there is room the node is filled and a new empty node, locked by   *)
(* the relay, is linked behind it.                                         *)
Fill ==
  /\ RelayTo("wait", "count")
  /\ datanum <= MaxData
  /\ data' = [data EXCEPT ![link] = got, ![link + 1] = Null]
  /\ next' = [next EXCEPT ![link] = link + 1]
  /\ live' = live \union {link + 1}
  /\ lock' = [lock EXCEPT ![link + 1] = Relay]
  /\ UNCHANGED <<link, got, frees, packVars, netVars>>

Count ==
  /\ RelayTo("count", "publish")
  /\ spin = Free /\ spin' = Relay
  /\ datanum' = datanum + 1
  /\ UNCHANGED <<link, got, close, frees, listVars, netVars>>

(* The successor is read, then the filled node is released to the sender.  *)
Publish ==
  /\ RelayTo("publish", "recv")
  /\ link' = next[link]
  /\ lock' = [lock EXCEPT ![link] = Free]
  /\ spin' = Free
  /\ UNCHANGED <<got, live, data, next, frees, close, datanum, netVars>>

(* After its loop the relay shuts both sockets down ...                    *)
Shut ==
  /\ RelayTo("shut", "join")
  /\ target' = "broken" /\ source' = "ended"
  /\ UNCHANGED <<link, got, frees, room, wire, listVars, packVars>>

(* ... waits for the sender, and deletes the pack's critical section.      *)
Join ==
  /\ RelayTo("join", "done")
  /\ spc = "ended"
  /\ spin' = Gone
  /\ UNCHANGED <<link, got, close, datanum, frees, listVars, netVars>>

-----------------------------------------------------------------------------
(* The sender: SendingThread.                                              *)

EnterNode ==
  /\ SenderTo("enter", "held")
  /\ lock[temp] = Free
  /\ lock' = [lock EXCEPT ![temp] = Sender]
  /\ UNCHANGED <<temp, live, data, next, frees, packVars, netVars>>

(* send returns once the target takes the chunk; while the target's peer   *)
(* does not read, it blocks, holding the lock of the node.                 *)
SendOk ==
  /\ SenderTo("held", "count")
  /\ data[temp] # Null /\ target = "open"
  /\ room /\ room' \in BOOLEAN
  /\ wire' = Append(wire, data[temp])
  /\ UNCHANGED <<temp, frees, source, target, listVars, packVars>>

SendFails ==
  /\ SenderTo("held", "close")
  /\ data[temp] # Null /\ target = "broken"
  /\ UNCHANGED <<temp, frees, listVars, packVars, netVars>>

SetClose ==
  /\ SenderTo("close", "count")
  /\ spin = Free /\ close' = TRUE
  /\ UNCHANGED <<temp, spin, datanum, frees, listVars, netVars>>

Uncount ==
  /\ SenderTo("count", "next")
  /\ spin = Free /\ datanum' = datanum - 1
  /\ UNCHANGED <<temp, spin, close, frees, listVars, netVars>>

(* The chunk and the node are freed and the sender moves on.               *)
NextNode ==
  /\ SenderTo("next", "enter")
  /\ frees' = [frees EXCEPT ![data[temp]] = @ + 1]
  /\ temp' = next[temp]
  /\ lock' = [lock EXCEPT ![temp] = Free]
  /\ live' = live \ {temp}
  /\ UNCHANGED <<data, next, packVars, netVars>>

(* An empty node: the sender frees it, shuts the target down and ends.     *)
EndThread ==
  /\ SenderTo("held", "ended")
  /\ data[temp] = Null
  /\ lock' = [lock EXCEPT ![temp] = Free]
  /\ live' = live \ {temp}
  /\ target' = "broken"
  /\ UNCHANGED <<temp, data, next, frees, source, room, wire, packVars>>

-----------------------------------------------------------------------------
(* The rest of the system: the peers, a kick, the other direction.         *)

(* The source's peer closes, or somebody shuts the source socket down.     *)
SourceEnds ==
  /\ source = "open" /\ source' = "ended"
  /\ UNCHANGED <<rpc, link, got, spc, temp, frees, target, room, wire,
                 listVars, packVars>>

(* The target's peer resets, or somebody shuts the target socket down.     *)
TargetBreaks ==
  /\ target = "open" /\ target' = "broken"
  /\ UNCHANGED <<rpc, link, got, spc, temp, frees, source, room, wire,
                 listVars, packVars>>

(* The target's peer reads, so that a send that blocks can go on.          *)
PeerReads ==
  /\ ~room /\ room' = TRUE
  /\ UNCHANGED <<rpc, link, got, spc, temp, frees, source, target, wire,
                 listVars, packVars>>

RelayAfterRecv == \/ RecvEnd \/ TestOpen \/ Refuse \/ SleepForRoom \/ Fill
                  \/ Count \/ Publish \/ Shut \/ Join
SenderStep == \/ EnterNode \/ SendOk \/ SendFails \/ SetClose \/ Uncount
              \/ NextNode \/ EndThread

Finished == rpc = "done" /\ spc = "ended" /\ UNCHANGED vars

Next == \/ RecvChunk \/ RelayAfterRecv \/ SenderStep
        \/ SourceEnds \/ TargetBreaks \/ PeerReads \/ Finished

(* Threads that can run do run.  The source may stay silent for ever, but  *)
(* its end is noticed; the target's peer may stop reading for ever, and    *)
(* then a send never returns.                                              *)
Fairness == WF_vars(RelayAfterRecv) /\ WF_vars(SenderStep)

Spec == Init /\ [][Next]_vars /\ Fairness

-----------------------------------------------------------------------------
(* Types.  datanum is an int that must never go below zero: sending.c      *)
(* counts a node before it releases it and uncounts it after it took it.   *)
TypeOK ==
  /\ rpc \in RelayPoints /\ link \in Node /\ got \in 0 .. MaxChunks
  /\ spc \in SenderPoints /\ temp \in Node
  /\ live \in SUBSET Node
  /\ lock \in [Node -> {Free, Relay, Sender}]
  /\ data \in [Node -> Chunk \union {Null, Junk}]
  /\ next \in [Node -> Node \union {Null, Junk}]
  /\ frees \in [Chunk -> Nat]
  /\ spin \in {Free, Relay, Gone}
  /\ close \in BOOLEAN /\ datanum \in Nat
  /\ source \in {"open", "ended"} /\ target \in {"open", "broken"}
  /\ room \in BOOLEAN
  /\ wire \in Seq(Chunk \union {Junk})

RelayUsesLink == rpc \in {"recv", "test", "wait", "count", "publish"}

(* No use after free: the relay writes, and the sender reads and unlocks,  *)
(* only nodes that are still allocated, and the pack's critical section,   *)
(* which lives on the relay's stack, outlasts the sender's last use of it. *)
NoUseAfterFree ==
  /\ RelayUsesLink => link \in live
  /\ spc # "ended" => temp \in live
  /\ spin = Gone => spc = "ended"

(* Flow control: datanum is exactly the number of nodes counted in and not *)
(* yet counted out, whatever the two threads are doing, so the backlog the *)
(* relay polls without a lock never exceeds the limit by more than one.    *)
Backlog ==
  LET counted   == IF rpc = "publish" THEN link ELSE link - 1
      uncounted == IF spc = "next" THEN temp ELSE temp - 1
  IN  datanum + uncounted = counted /\ datanum <= MaxData + 1

(* Order: what the target's peer receives is a prefix of what the source's *)
(* peer sent; nothing is skipped, repeated, reordered or made up, also not *)
(* after a failed send.                                                    *)
InOrder == /\ Len(wire) <= got
           /\ \A i \in 1 .. Len(wire) : wire[i] = i

(* Every chunk buffer is freed at most once, by the sender or, when        *)
(* UpSendingData refuses it, by the relay, and not before it was sent; and *)
(* when both threads are through, no buffer and no node is left.           *)
ReleasedOnce ==
  /\ \A c \in Chunk : frees[c] <= 1
  /\ spc = "held" /\ data[temp] \in Chunk => frees[data[temp]] = 0
  /\ rpc = "done" => /\ \A c \in 1 .. got : frees[c] = 1
                     /\ live = {}

(* "The connection on the other side is broken" (client.c:205, remote.c:50 *)
(* say so where UpSendingData returned NULL): the pipe refuses a chunk     *)
(* only when a send to the target has failed.                              *)
RefusedMeansBroken == close => target = "broken"

(* A sender that ends on a target that is still up has delivered every     *)
(* chunk the relay received: data is lost only to a broken target.         *)
EndsDrained ==
  [][spc # "ended" /\ spc' = "ended" /\ target = "open"
       => Len(wire) = got]_vars

(* Once the source has ended both threads finish, however full the backlog *)
(* is, on a target that breaks or whose peer keeps reading.  On one that   *)
(* stays up and is not read they need not: the sender is in send           *)
(* (sending.c:71), and the relay may sleep for ever at sending.c:33, where *)
(* it does not notice the end of its source.                               *)
TargetTakes == []<>(room \/ target = "broken")

EndsOnceSourceEnded ==
  TargetTakes => (source = "ended" ~> rpc = "done" /\ spc = "ended")

(* The pipe is an implementation of Channel: a chunk is put in when its    *)
(* node is released, and is taken when send has returned.                  *)
Pipe == INSTANCE Channel WITH
          put   <- link - 1,
          taken <- IF spc \in {"close", "count", "next"} THEN temp ELSE temp - 1,
          up    <- target = "open",
          room  <- room,
          phase <- IF spc = "ended" THEN "ended"
                   ELSE IF rpc \in {"shut", "join", "done"} THEN "closed"
                   ELSE "open"
ChannelSpec == Pipe!Spec
=============================================================================
