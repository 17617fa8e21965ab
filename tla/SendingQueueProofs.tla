------------------------- MODULE SendingQueueProofs -------------------------
(***************************************************************************)
(* Proofs about SendingQueue, for every MaxChunks and MaxData.             *)
(*                                                                         *)
(* None of the safety properties is inductive by itself.  They follow from *)
(* IInv, which says where the two threads are on the list relative to each *)
(* other and who holds which lock: the relay owns every node from link to  *)
(* the end of the list, so the sender is behind it until it closes.        *)
(***************************************************************************)
EXTENDS SendingQueue, TLAPS

Closed   == rpc \in {"shut", "join", "done"}
Extended == rpc \in {"count", "publish"}
Tail_    == IF Extended THEN link + 1 ELSE link
Holding  == spc \in {"held", "close", "count", "next"}
Filled   == spc \in {"close", "count", "next"}
Taken    == IF Filled THEN temp ELSE temp - 1
Refused  == link = got /\ Closed

(* Where the relay is: on the chunk it received last, or past it.          *)
RelayPos ==
  /\ rpc \in {"test", "wait", "count", "publish"} => link = got
  /\ rpc = "recv" => link = got + 1
  /\ Closed => link \in {got, got + 1}

(* Where the sender is: never past the relay, and behind it on a full node. *)
SenderPos ==
  /\ temp <= link
  /\ Filled => temp < link
  /\ spc = "ended" => temp = link /\ Closed

(* What the list looks like.                                               *)
ListShape ==
  /\ \A n \in Node : n < link => data[n] = n /\ next[n] = n + 1
  /\ Extended => data[link] = link /\ next[link] = link + 1
  /\ data[Tail_] = Null
  /\ \A n \in Node :
       n \in live <=> /\ n <= Tail_
                      /\ IF spc = "ended" THEN n > temp ELSE n >= temp

(* Who holds which lock.                                                   *)
LockOwners ==
  /\ ~Closed => lock[link] = Relay
  /\ Extended => lock[link + 1] = Relay
  /\ Holding => lock[temp] = Sender
  /\ spin = Relay <=> rpc = "publish"
  /\ spin = Gone <=> rpc = "done"
  /\ rpc = "done" => spc = "ended"

RoomFound == rpc = "count" => datanum <= MaxData

FreedSoFar ==
  \A c \in Chunk : frees[c] = IF c < temp \/ (c = got /\ Refused) THEN 1 ELSE 0

(* The wire holds the chunks taken so far, all of them while it is up.     *)
WireSoFar ==
  /\ Len(wire) <= Taken
  /\ target = "open" => Len(wire) = Taken
  /\ \A i \in 1 .. Len(wire) : wire[i] = i

BrokenWhen ==
  /\ close \/ spc \in {"close", "ended"} => target = "broken"
  /\ rpc \in {"join", "done"} => target = "broken"
  /\ rpc = "shut" /\ link = got => target = "broken"

IInv == /\ TypeOK /\ RelayPos /\ SenderPos /\ ListShape /\ LockOwners
        /\ Backlog /\ RoomFound /\ FreedSoFar /\ WireSoFar /\ BrokenWhen

-----------------------------------------------------------------------------
LEMMA InitIInv == Init => IInv
<1> SUFFICES ASSUME Init PROVE IInv
  OBVIOUS
<1> USE BoundsAssumption
    DEF Init, Closed, Extended, Tail_, Holding, Filled, Taken, Refused, Node,
        Chunk, Null, Junk, Free, Relay, Sender, Gone
<1>1. TypeOK
  <2>1. wire \in Seq(Chunk \union {Junk})
    BY SMTT(20)
  <2>2. /\ rpc \in RelayPoints /\ spc \in SenderPoints
        /\ link \in Node /\ temp \in Node /\ got \in 0 .. MaxChunks
        /\ live \in SUBSET Node
    BY SMTT(20) DEF RelayPoints, SenderPoints
  <2>3. /\ lock \in [Node -> {Free, Relay, Sender}]
        /\ data \in [Node -> Chunk \union {Null, Junk}]
        /\ next \in [Node -> Node \union {Null, Junk}]
    BY SMTT(20)
  <2>4. frees \in [Chunk -> Nat]
    OBVIOUS
  <2>5. close \in BOOLEAN /\ room \in BOOLEAN
    OBVIOUS
  <2>6. /\ spin \in {Free, Relay, Gone}
        /\ datanum \in Nat
        /\ source \in {"open", "ended"} /\ target \in {"open", "broken"}
    BY SMTT(20)
  <2> QED
    BY <2>1, <2>2, <2>3, <2>4, <2>5, <2>6 DEF TypeOK
<1>2. RelayPos /\ SenderPos /\ LockOwners
  BY SMTT(20) DEF RelayPos, SenderPos, LockOwners
<1>3. ListShape
  BY SMTT(20) DEF ListShape
<1>4. Backlog /\ RoomFound /\ BrokenWhen
  BY SMTT(20) DEF Backlog, RoomFound, BrokenWhen
<1>5. FreedSoFar
  BY SMTT(20) DEF FreedSoFar
<1>6. WireSoFar
  BY SMTT(20) DEF WireSoFar
<1> QED
  BY <1>1, <1>2, <1>3, <1>4, <1>5, <1>6 DEF IInv

(* The inductive step, one case per action.  Fill, Publish and NextNode    *)
(* move a thread along the list and are proved part by part.               *)
LEMMA NextIInv == IInv /\ [Next]_vars => IInv'
<1>0. SUFFICES ASSUME IInv, [Next]_vars PROVE IInv'
  OBVIOUS
<1> USE BoundsAssumption
    DEF IInv, TypeOK, RelayPos, SenderPos, ListShape, LockOwners, Backlog,
        RoomFound, FreedSoFar, WireSoFar, BrokenWhen, Closed, Extended, Tail_,
        Holding, Filled, Taken, Refused, RelayPoints, SenderPoints, Node,
        Chunk, Null, Junk, Free, Relay, Sender, Gone, RelayTo, SenderTo,
        listVars, packVars, netVars, vars
<1>1. CASE RecvChunk
  BY <1>0, <1>1, SMTT(20) DEF RecvChunk
<1>2. CASE RecvEnd
  BY <1>0, <1>2, SMTT(20) DEF RecvEnd
<1>3. CASE TestOpen
  BY <1>0, <1>3, SMTT(20) DEF TestOpen
<1>4. CASE Refuse
  BY <1>0, <1>4, SMTT(20) DEF Refuse
<1>5. CASE SleepForRoom
  BY <1>0, <1>5, SMTT(20) DEF SleepForRoom
<1>6. CASE Count
  BY <1>0, <1>6, SMTT(20) DEF Count
<1>7. CASE Shut
  BY <1>0, <1>7, SMTT(20) DEF Shut
<1>8. CASE Join
  BY <1>0, <1>8, SMTT(20) DEF Join
<1>9. CASE EnterNode
  BY <1>0, <1>9, SMTT(40) DEF EnterNode
<1>10. CASE SendOk
  <2>0. /\ temp < link /\ temp \in Chunk /\ data[temp] = temp
        /\ Len(wire) = temp - 1 /\ wire' = Append(wire, temp)
    BY <1>0, <1>10, SMTT(30) DEF SendOk
  <2>1. Len(wire') = temp /\ \A i \in 1 .. Len(wire') : wire'[i] = i
    BY <1>0, <2>0, SMTT(30)
  <2>2. TypeOK'
    <3>1. wire' \in Seq(Chunk \union {Junk})
      BY <1>0, <2>0, SMTT(30)
    <3> QED
      BY <1>0, <1>10, <3>1, SMTT(30) DEF SendOk
  <2>3. WireSoFar'
    BY <1>0, <1>10, <2>0, <2>1, SMTT(30) DEF SendOk
  <2>4. RelayPos' /\ SenderPos' /\ ListShape' /\ LockOwners'
    BY <1>0, <1>10, SMTT(30) DEF SendOk
  <2>5. Backlog' /\ RoomFound' /\ FreedSoFar' /\ BrokenWhen'
    BY <1>0, <1>10, SMTT(30) DEF SendOk
  <2> QED
    BY <2>2, <2>3, <2>4, <2>5
<1>11. CASE SendFails
  BY <1>0, <1>11, SMTT(60) DEF SendFails
<1>12. CASE SetClose
  BY <1>0, <1>12, SMTT(20) DEF SetClose
<1>13. CASE Uncount
  BY <1>0, <1>13, SMTT(20) DEF Uncount
<1>14. CASE EndThread
  BY <1>0, <1>14, SMTT(20) DEF EndThread
<1>15. CASE SourceEnds
  BY <1>0, <1>15, SMTT(20) DEF SourceEnds
<1>16. CASE TargetBreaks
  BY <1>0, <1>16, SMTT(20) DEF TargetBreaks
<1>reads. CASE PeerReads
  BY <1>0, <1>reads, SMTT(20) DEF PeerReads
<1>17. CASE Finished
  BY <1>0, <1>17, SMTT(20) DEF Finished
<1>fill. CASE Fill
  <2>0. link = got /\ got \in Chunk /\ link + 1 \in Node
    BY <1>0, <1>fill, SMTT(20) DEF Fill
  <2>1. TypeOK' /\ RelayPos' /\ SenderPos'
    <3>1. data' \in [Node -> Chunk \union {Null, Junk}]
      BY <1>0, <1>fill, <2>0, SMTT(20) DEF Fill
    <3>2. next' \in [Node -> Node \union {Null, Junk}]
      BY <1>0, <1>fill, <2>0, SMTT(20) DEF Fill
    <3>3. lock' \in [Node -> {Free, Relay, Sender}] /\ live' \in SUBSET Node
      BY <1>0, <1>fill, <2>0, SMTT(20) DEF Fill
    <3>4. /\ rpc' \in RelayPoints /\ spc' \in SenderPoints
          /\ UNCHANGED <<link, got, temp, frees, spin, close, datanum, source,
                        target, room, wire, spc>>
      BY <1>0, <1>fill, SMTT(20) DEF Fill
    <3>5. TypeOK'
      BY <1>0, <3>1, <3>2, <3>3, <3>4
    <3>6. RelayPos' /\ SenderPos'
      BY <1>0, <1>fill, <3>4, SMTT(20) DEF Fill
    <3> QED
      BY <3>5, <3>6
  <2>2. ListShape'
    BY <1>0, <1>fill, <2>0, SMTT(20) DEF Fill
  <2>3. LockOwners'
    BY <1>0, <1>fill, <2>0, SMTT(20) DEF Fill
  <2>4. Backlog' /\ RoomFound'
    BY <1>0, <1>fill, <2>0, SMTT(20) DEF Fill
  <2>5. FreedSoFar'
    BY <1>0, <1>fill, <2>0, SMTT(20) DEF Fill
  <2>6. WireSoFar' /\ BrokenWhen'
    BY <1>0, <1>fill, <2>0, SMTT(20) DEF Fill
  <2> QED
    BY <2>1, <2>2, <2>3, <2>4, <2>5, <2>6
<1>publish. CASE Publish
  <2>0. link' = link + 1 /\ ~Closed
    BY <1>0, <1>publish, SMTT(20) DEF Publish
  <2>1. SenderPos'
    BY <1>0, <1>publish, <2>0, SMTT(20) DEF Publish
  <2>2. ListShape'
    <3>1. /\ Tail_' = Tail_ /\ ~Extended'
          /\ data' = data /\ next' = next /\ live' = live /\ spc' = spc
          /\ temp' = temp
      BY <1>0, <1>publish, <2>0, SMTT(20) DEF Publish
    <3>2. \A n \in Node : n < link' => data[n] = n /\ next[n] = n + 1
      <4>1. data[link] = link /\ next[link] = link + 1 /\ link \in Node
        BY <1>0, <1>publish, SMTT(20) DEF Publish
      <4>2. \A n \in Node : n < link' => n < link \/ n = link
        BY <2>0, <4>1, SMTT(20)
      <4>3. \A n \in Node : n < link => data[n] = n /\ next[n] = n + 1
        BY <1>0
      <4> QED
        BY <4>1, <4>2, <4>3
    <3> QED
      BY <1>0, <3>1, <3>2, SMTT(20)
  <2>3. LockOwners'
    BY <1>0, <1>publish, <2>0, SMTT(20) DEF Publish
  <2>4. TypeOK' /\ RelayPos' /\ Backlog' /\ RoomFound'
    BY <1>0, <1>publish, <2>0, SMTT(20) DEF Publish
  <2>5. FreedSoFar' /\ WireSoFar' /\ BrokenWhen'
    BY <1>0, <1>publish, <2>0, SMTT(20) DEF Publish
  <2> QED
    BY <2>1, <2>2, <2>3, <2>4, <2>5
<1>next. CASE NextNode
  <2>0. data[temp] = temp /\ next[temp] = temp + 1 /\ temp \in Chunk
    BY <1>0, <1>next, SMTT(20) DEF NextNode
  <2>1. TypeOK' /\ RelayPos' /\ SenderPos'
    BY <1>0, <1>next, <2>0, SMTT(40) DEF NextNode
  <2>2. ListShape'
    BY <1>0, <1>next, <2>0, SMTT(20) DEF NextNode
  <2>3. LockOwners'
    BY <1>0, <1>next, <2>0, SMTT(20) DEF NextNode
  <2>4. Backlog' /\ RoomFound'
    BY <1>0, <1>next, <2>0, SMTT(20) DEF NextNode
  <2>5. FreedSoFar'
    BY <1>0, <1>next, <2>0, SMTT(20) DEF NextNode
  <2>6. WireSoFar' /\ BrokenWhen'
    BY <1>0, <1>next, <2>0, SMTT(20) DEF NextNode
  <2> QED
    BY <2>1, <2>2, <2>3, <2>4, <2>5, <2>6
<1>stutter. CASE UNCHANGED vars
  BY <1>0, <1>stutter
<1> QED
  BY <1>0, <1>1, <1>2, <1>3, <1>4, <1>5, <1>6, <1>7, <1>8, <1>9, <1>10, <1>11,
     <1>12, <1>13, <1>14, <1>15, <1>16, <1>17, <1>reads, <1>fill, <1>publish,
     <1>next, <1>stutter
     DEF Next, RelayAfterRecv, SenderStep

LEMMA Invariance == Spec => []IInv
  BY InitIInv, NextIInv, PTL DEF Spec

-----------------------------------------------------------------------------
(* Every variable keeps its type; in particular datanum never drops below  *)
(* zero (sending.c:48, 78).                                                *)
THEOREM TypeCorrect == Spec => []TypeOK
<1>1. IInv => TypeOK
  BY DEF IInv
<1> QED
  BY <1>1, Invariance, PTL

(* Neither thread touches a node, or the pack's critical section, after it *)
(* was freed (sending.c:66-68, 83-84; remote.c:57-58).                     *)
THEOREM MemorySafe == Spec => []NoUseAfterFree
<1>1. IInv => NoUseAfterFree
  BY BoundsAssumption, SMTT(20)
     DEF IInv, TypeOK, SenderPos, ListShape, LockOwners, NoUseAfterFree,
         RelayUsesLink, Closed, Extended, Tail_, Filled, Node, RelayPoints,
         SenderPoints, Relay, Sender, Free, Gone
<1> QED
  BY <1>1, Invariance, PTL

(* datanum counts the nodes in flight exactly and stays within one of the  *)
(* limit, although the relay polls it without a lock (sending.c:33-36).    *)
THEOREM FlowControlled == Spec => []Backlog
<1>1. IInv => Backlog
  BY DEF IInv
<1> QED
  BY <1>1, Invariance, PTL

(* The peer of the target receives a prefix of what the source sent.       *)
THEOREM FIFO == Spec => []InOrder
<1>1. IInv => InOrder
  BY BoundsAssumption, SMTT(20)
     DEF IInv, TypeOK, RelayPos, SenderPos, WireSoFar, InOrder, Taken, Filled,
         Node, Chunk, RelayPoints, SenderPoints, Junk, Closed
<1> QED
  BY <1>1, Invariance, PTL

(* No buffer is freed twice or before it was sent, and nothing is left     *)
(* when both threads are through (sending.c:80-84, remote.c:51).           *)
THEOREM NothingLeaks == Spec => []ReleasedOnce
<1>1. IInv => ReleasedOnce
  <2> USE BoundsAssumption
      DEF IInv, TypeOK, RelayPos, SenderPos, ListShape, LockOwners, FreedSoFar,
          Closed, Extended, Tail_, Filled, Refused, Node, Chunk, RelayPoints,
          SenderPoints, Null, Junk, Relay, Sender, Free, Gone
  <2>1. IInv => \A c \in Chunk : frees[c] <= 1
    BY SMTT(20)
  <2>2. IInv /\ spc = "held" /\ data[temp] \in Chunk => frees[data[temp]] = 0
    <3> SUFFICES ASSUME IInv, spc = "held", data[temp] \in Chunk
                 PROVE  frees[data[temp]] = 0
      OBVIOUS
    <3>1. temp < link
      BY SMTT(20) DEF Holding
    <3>2. data[temp] = temp /\ temp \in Chunk
      BY <3>1, SMTT(20)
    <3> QED
      BY <3>1, <3>2, SMTT(20)
  <2>3. IInv /\ rpc = "done" => /\ \A c \in 1 .. got : frees[c] = 1
                                /\ live = {}
    <3> SUFFICES ASSUME IInv, rpc = "done"
                 PROVE  (\A c \in 1 .. got : frees[c] = 1) /\ live = {}
      OBVIOUS
    <3>1. spc = "ended" /\ temp = link /\ link \in {got, got + 1}
      BY SMTT(20)
    <3>2. \A c \in 1 .. got : frees[c] = 1
      BY <3>1, SMTT(20)
    <3>3. live = {}
      <4>1. \A n \in Node : n \notin live
        BY <3>1, SMTT(20)
      <4> QED
        BY <4>1, SMTT(20)
    <3> QED
      BY <3>2, <3>3
  <2> QED
    BY <2>1, <2>2, <2>3 DEF ReleasedOnce
<1> QED
  BY <1>1, Invariance, PTL

(* UpSendingData refuses a chunk only after a send to the target failed    *)
(* (sending.c:26-31, client.c:203-206).                                    *)
THEOREM RefusalJustified == Spec => []RefusedMeansBroken
<1>1. IInv => RefusedMeansBroken
  BY DEF IInv, BrokenWhen, RefusedMeansBroken
<1> QED
  BY <1>1, Invariance, PTL

(* A sender that ends while its target is up has delivered everything.     *)
THEOREM DrainsBeforeEnd == Spec => EndsDrained
<1> DEFINE Drained == spc # "ended" /\ spc' = "ended" /\ target = "open"
                        => Len(wire) = got
<1>1. IInv /\ [Next]_vars => [Drained]_vars
  <2> SUFFICES ASSUME IInv, [Next]_vars,
                      spc # "ended", spc' = "ended", target = "open"
               PROVE  Len(wire) = got
    BY DEF vars
  <2>1. EndThread
    BY SMTT(20) DEF Next, RelayAfterRecv, SenderStep, RecvChunk, RecvEnd,
          TestOpen, Refuse, SleepForRoom, Fill, Count, Publish, Shut, Join,
          EnterNode, SendOk, SendFails, SetClose, Uncount, NextNode, SourceEnds,
          TargetBreaks, PeerReads, Finished, RelayTo, SenderTo, vars
  <2>2. temp = link /\ Closed
    BY <2>1, BoundsAssumption, SMTT(20)
       DEF EndThread, SenderTo, IInv, TypeOK, SenderPos, ListShape, LockOwners,
           Closed, Holding, Node, Null, Relay, Sender
  <2>3. link = got + 1
    BY <2>2, SMTT(20)
       DEF IInv, TypeOK, RelayPos, BrokenWhen, Closed
  <2>4. Len(wire) = temp - 1
    BY <2>1, SMTT(20) DEF EndThread, SenderTo, IInv, WireSoFar, Taken, Filled
  <2> QED
    BY <2>2, <2>3, <2>4, BoundsAssumption, SMTT(20) DEF IInv, TypeOK, Node
<1> QED
  BY <1>1, Invariance, PTL DEF Spec, EndsDrained

-----------------------------------------------------------------------------
(* The pipe implements Channel without its fairness: its initial states    *)
(* are Channel's, and each of its steps is a step of Channel or leaves     *)
(* put, taken, wire, up, room and phase alone (what users of sending.c     *)
(* can observe of lines 22-87).                                            *)
THEOREM ImplementsChannel ==
  Spec => Pipe!Init /\ [][Pipe!Next]_Pipe!vars
<1>1. Init => Pipe!Init
  BY SMTT(20) DEF Init, Pipe!Init
<1>2. IInv /\ [Next]_vars => [Pipe!Next]_Pipe!vars
  <2> SUFFICES ASSUME IInv, [Next]_vars PROVE [Pipe!Next]_Pipe!vars
    OBVIOUS
  <2> USE BoundsAssumption
      DEF IInv, TypeOK, RelayPos, SenderPos, Backlog, RoomFound, RelayTo,
          SenderTo, RelayPoints, SenderPoints, Node, Chunk, Closed,
          listVars, packVars, netVars, vars, Pipe!vars
  <2>0. CASE \/ RecvChunk \/ TestOpen \/ SleepForRoom \/ Fill \/ Count \/ Join
    BY <2>0, SMTT(40)
       DEF RecvChunk, TestOpen, SleepForRoom, Fill, Count, Join
  <2>1. CASE \/ EnterNode \/ SetClose \/ Uncount \/ SourceEnds \/ Finished
             \/ UNCHANGED vars
    BY <2>1, SMTT(40) DEF EnterNode, SetClose, Uncount, SourceEnds, Finished
  <2>2. CASE RecvEnd \/ Refuse
    <3>1. Pipe!Close
      BY <2>2, SMTT(20) DEF RecvEnd, Refuse, Pipe!Close
    <3> QED
      BY <3>1 DEF Pipe!Next
  <2>3. CASE Publish
    <3>1. link' = link + 1
      BY <2>3, SMTT(20) DEF Publish, ListShape, Extended
    <3>2. link - 1 <= MaxData + Taken
      BY <2>3, SMTT(20) DEF Publish, Taken, Filled
    <3>3. Pipe!Put
      BY <2>3, <3>1, <3>2, SMTT(20) DEF Publish, Pipe!Put, Taken, Filled
    <3> QED
      BY <3>3 DEF Pipe!Next
  <2>4. CASE SendOk
    <3>1. temp < link /\ data[temp] = temp
      BY <2>4, SMTT(20) DEF SendOk, ListShape, LockOwners, Null, Tail_, Extended, Holding, Relay, Sender
    <3>2. Pipe!Deliver
      BY <2>4, <3>1, SMTT(20) DEF SendOk, Pipe!Deliver
    <3> QED
      BY <3>2 DEF Pipe!Next
  <2>5. CASE SendFails
    <3>1. temp < link
      BY <2>5, SMTT(20) DEF SendFails, ListShape, LockOwners, Null, Tail_, Extended, Holding, Relay, Sender
    <3>2. Pipe!Drop
      BY <2>5, <3>1, SMTT(20) DEF SendFails, Pipe!Drop
    <3> QED
      BY <3>2 DEF Pipe!Next
  <2>6. CASE NextNode
    <3>1. next[temp] = temp + 1 /\ spc' = "enter"
      BY <2>6, SMTT(20) DEF NextNode, ListShape, Filled
    <3>2. UNCHANGED Pipe!vars
      BY <2>6, <3>1, SMTT(20) DEF NextNode
    <3> QED
      BY <3>2
  <2>7. CASE EndThread
    <3>1. temp = link /\ Closed
      BY <2>7, SMTT(20) DEF EndThread, ListShape, LockOwners, Null, Tail_, Extended, Holding, Relay, Sender
    <3>2. Pipe!End
      BY <2>7, <3>1, SMTT(20) DEF EndThread, Pipe!End
    <3> QED
      BY <3>2 DEF Pipe!Next
  <2>8. CASE Shut \/ TargetBreaks
    <3>1. Pipe!Break
      BY <2>8, SMTT(20) DEF Shut, TargetBreaks, Pipe!Break
    <3> QED
      BY <3>1 DEF Pipe!Next
  <2>9. CASE PeerReads
    <3>1. Pipe!Read
      BY <2>9, SMTT(20) DEF PeerReads, Pipe!Read
    <3> QED
      BY <3>1 DEF Pipe!Next
  <2> QED
    BY <2>0, <2>1, <2>2, <2>3, <2>4, <2>5, <2>6, <2>7, <2>8, <2>9
       DEF Next, RelayAfterRecv, SenderStep
<1> QED
  BY <1>1, <1>2, Invariance, PTL DEF Spec
=============================================================================
