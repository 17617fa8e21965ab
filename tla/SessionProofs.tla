--------------------------- MODULE SessionProofs ---------------------------
(***************************************************************************)
(* Proofs about Session, for every number of chunks, every limit of the    *)
(* queues and every size of the sockets' buffers.                          *)
(*                                                                         *)
(* That nothing is used after its release follows from how far DealClient  *)
(* and DealRemote have come, each relative to its own sender and to the    *)
(* other: IInv says what each of them has done at each point.  It does not *)
(* mention stranger, because a join that waits for the wrong thread only   *)
(* waits longer.                                                           *)
(***************************************************************************)
EXTENDS Session, TLAPS

(* A relay that has not begun its sender, and one that has joined it.      *)
Early(d) == pc[d] \in {"none", "spawn", "greet", "adduser", "copy", "start"}
Past(d)  == pc[d] \in {"joinRemote", "closeRemote", "closeClient", "delete", "done"}

Threads ==
  /\ pc \in [Dir -> DealClientPoints \union DealRemotePoints]
  /\ pc["down"] = "none" <=> pc["up"] = "spawn"
  /\ pc["up"] \in {"closeRemote", "closeClient", "done"} => pc["down"] = "done"
  /\ \A d \in Dir : /\ sender[d] = "none" <=> Early(d)
                    /\ Past(d) => sender[d] = "ended"

Pipes ==
  \A d \in Dir :
    /\ phase[d] = "open" <=> Early(d) \/ pc[d] \in {"recv", "put"}
    /\ phase[d] = "ended" <=> sender[d] = "ended"
    /\ pc[d] = "put" => put[d] < MaxChunks
    /\ taken[d] <= put[d]
    /\ sender[d] = "ended" => taken[d] = put[d]

Resources ==
  /\ open = CASE pc["up"] = "closeClient" -> {"client"}
              [] pc["up"] = "done"        -> {}
              [] OTHER                    -> Side
  /\ "pack" \in memory <=> pc["up"] # "done"
  /\ "up" \in memory <=> ~Early("up") /\ pc["up"] \notin {"closeClient", "done"}
  /\ "down" \in memory <=> ~Early("down") /\ pc["down"] # "done"
  /\ listed <=> pc["up"] \notin {"spawn", "greet", "adduser", "done"}

IInv == TypeOK /\ Threads /\ Pipes /\ Resources

-----------------------------------------------------------------------------
LEMMA InitIInv == Init => IInv
<1> SUFFICES ASSUME Init PROVE IInv
  OBVIOUS
<1> USE SessionAssumption DEF Init, Dir, Side, Early, Past
<1>1. TypeOK
  <2>1. /\ pc["up"] \in DealClientPoints /\ pc["down"] \in DealRemotePoints
        /\ put \in [Dir -> 0 .. MaxChunks] /\ taken \in [Dir -> 0 .. MaxChunks]
        /\ unread \in [Side -> 0 .. Buffer] /\ open \in SUBSET Side
    BY SMTT(20) DEF DealClientPoints, DealRemotePoints
  <2>2. /\ sender \in [Dir -> {"none", "run", "fail", "ended"}]
        /\ phase \in [Dir -> {"open", "closed", "ended"}]
        /\ memory \in SUBSET {"pack", "up", "down"}
        /\ stranger \in SUBSET (Dir \union {"remote"})
    BY SMTT(20)
  <2>3. wire \in [Dir -> Seq(1 .. MaxChunks)]
    BY SMTT(20)
  <2>4. /\ refuse \in [Dir -> BOOLEAN] /\ listed \in BOOLEAN
        /\ eof \in [Side -> BOOLEAN] /\ broken \in [Side -> BOOLEAN]
    OBVIOUS
  <2> QED
    BY <2>1, <2>2, <2>3, <2>4 DEF TypeOK
<1>2. Threads /\ Pipes
  <2>1. pc \in [Dir -> DealClientPoints \union DealRemotePoints]
    BY SMTT(20) DEF DealClientPoints, DealRemotePoints
  <2> QED
    BY <2>1, SMTT(20) DEF Threads, Pipes
<1>3. Resources
  BY SMTT(20) DEF Resources
<1> QED
  BY <1>1, <1>2, <1>3 DEF IInv

LEMMA NextIInv == IInv /\ [Next]_vars => IInv'
<1>0. SUFFICES ASSUME IInv, [Next]_vars PROVE IInv'
  OBVIOUS
<1> USE SessionAssumption
    DEF IInv, TypeOK, Threads, Pipes, Resources, Early, Past, Dir, Side, Source,
        Target, DealClientPoints, DealRemotePoints, Goto, Joined, chanVars,
        sockVars
<1>1. CASE BeginDealRemote
  BY <1>0, <1>1, SMTT(30) DEF BeginDealRemote
<1>2. CASE Greet \/ CopyPack
  BY <1>0, <1>2, SMTT(30) DEF Greet, CopyPack
<1>3. CASE AddUser
  <2>1. TypeOK' /\ Threads' /\ Pipes'
    BY <1>0, <1>3, SMTT(30) DEF AddUser
  <2>2. Resources'
    BY <1>0, <1>3, SMTT(30) DEF AddUser
  <2> QED
    BY <2>1, <2>2
<1>4. CASE JoinRemote
  BY <1>0, <1>4, SMTT(30) DEF JoinRemote
<1>5. CASE CloseRemote
  BY <1>0, <1>5, SMTT(30) DEF CloseRemote
<1>6. CASE CloseClient
  <2>1. TypeOK'
    <3>1. pc'["up"] \in DealClientPoints /\ pc'["down"] \in DealRemotePoints
      BY <1>0, <1>6, SMTT(30) DEF CloseClient
    <3>2. open' \in SUBSET Side /\ memory' \in SUBSET {"pack", "up", "down"}
      BY <1>0, <1>6, SMTT(30) DEF CloseClient
    <3>3. listed' \in BOOLEAN /\ UNCHANGED <<sender, stranger, chanVars, eof, broken, unread>>
      BY <1>6 DEF CloseClient
    <3> QED
      BY <1>0, <3>1, <3>2, <3>3
  <2>2. Threads' /\ Pipes'
    BY <1>0, <1>6, SMTT(30) DEF CloseClient
  <2>3. Resources'
    BY <1>0, <1>6, SMTT(30) DEF CloseClient
  <2> QED
    BY <2>1, <2>2, <2>3
<1>7. CASE Delete
  BY <1>0, <1>7, SMTT(30) DEF Delete
<1>8. ASSUME NEW d \in Dir, StartSender(d) PROVE IInv'
  BY <1>0, <1>8, SMTT(30) DEF StartSender
<1>9. ASSUME NEW d \in Dir, RecvChunk(d) PROVE IInv'
  BY <1>0, <1>9, SMTT(30) DEF RecvChunk
<1>10. ASSUME NEW d \in Dir, RecvEnd(d) PROVE IInv'
  BY <1>0, <1>10, SMTT(30) DEF RecvEnd
<1>11. ASSUME NEW d \in Dir, Put(d) PROVE IInv'
  BY <1>0, <1>11, SMTT(30) DEF Put
<1>12. ASSUME NEW d \in Dir, Refused(d) PROVE IInv'
  BY <1>0, <1>12, SMTT(30) DEF Refused
<1>13. ASSUME NEW d \in Dir, Shut(d) PROVE IInv'
  BY <1>0, <1>13, SMTT(30) DEF Shut
<1>14. ASSUME NEW d \in Dir, JoinSender(d) PROVE IInv'
  BY <1>0, <1>14, SMTT(30) DEF JoinSender
<1>15. ASSUME NEW d \in Dir, Deliver(d) PROVE IInv'
  BY <1>0, <1>15, SMTT(30) DEF Deliver
<1>16. ASSUME NEW d \in Dir, Drop(d) PROVE IInv'
  BY <1>0, <1>16, SMTT(30) DEF Drop
<1>17. ASSUME NEW d \in Dir, SetClose(d) PROVE IInv'
  BY <1>0, <1>17, SMTT(30) DEF SetClose
<1>18. ASSUME NEW d \in Dir, EndSender(d) PROVE IInv'
  BY <1>0, <1>18, SMTT(30) DEF EndSender
<1>19. ASSUME NEW x \in Side, PeerCloses(x) PROVE IInv'
  BY <1>0, <1>19, SMTT(30) DEF PeerCloses
<1>20. ASSUME NEW x \in Side, PeerResets(x) PROVE IInv'
  BY <1>0, <1>20, SMTT(30) DEF PeerResets
<1>21. ASSUME NEW x \in Side, PeerReads(x) PROVE IInv'
  BY <1>0, <1>21, SMTT(30) DEF PeerReads
<1>22. CASE Kick
  BY <1>0, <1>22, SMTT(30) DEF Kick
<1>23. ASSUME NEW t \in Dir \union {"remote"}, HandleReused(t) \/ StrangerEnds(t)
       PROVE IInv'
  BY <1>0, <1>23, SMTT(30) DEF HandleReused, StrangerEnds
<1>24. CASE Finished \/ UNCHANGED vars
  BY <1>0, <1>24, SMTT(30) DEF Finished, vars
<1> QED
  BY <1>0, <1>1, <1>2, <1>3, <1>4, <1>5, <1>6, <1>7, <1>8, <1>9, <1>10,
     <1>11, <1>12, <1>13, <1>14, <1>15, <1>16, <1>17, <1>18, <1>19, <1>20,
     <1>21, <1>22, <1>23, <1>24
     DEF Next, DealClient, DealRemote, RelayStep, SenderStep, World

LEMMA Invariance == Spec => []IInv
  BY InitIInv, NextIInv, PTL DEF Spec
-----------------------------------------------------------------------------
(* Every variable keeps its type; in particular no more is taken out of a  *)
(* queue than was put in, and a socket never holds more than it takes.     *)
THEOREM TypeCorrect == Spec => []TypeOK
<1>1. IInv => TypeOK
  BY DEF IInv
<1> QED
  BY <1>1, Invariance, PTL

(* DealClient's clean-up (client.c:212-222) and the end of DealRemote      *)
(* (remote.c:57-60) release nothing that one of the four threads still     *)
(* uses, whichever threads their joins have really waited for.             *)
THEOREM ReleasedAfterUse == Spec => []NothingUsedAfterRelease
<1>1. IInv => NothingUsedAfterRelease
  <2> SUFFICES ASSUME IInv PROVE NothingUsedAfterRelease
    OBVIOUS
  <2> USE DEF IInv, TypeOK, Threads, Pipes, Resources, Early, Past, Dir, Side,
              DealClientPoints, DealRemotePoints
  <2>1. ASSUME NEW d \in Dir, pc[d] \in {"recv", "shut"} PROVE open = Side
    BY <2>1, SMTT(20)
  <2>2. ASSUME NEW d \in Dir, sender[d] \in {"run", "fail"}
        PROVE  Target[d] \in open /\ d \in memory
    BY <2>2, SMTT(20) DEF Target
  <2>3. pc["down"] = "copy" => "pack" \in memory
    BY SMTT(20)
  <2>4. pc["down"] = "start" => open = Side
    BY SMTT(20)
  <2> QED
    BY <2>1, <2>2, <2>3, <2>4 DEF NothingUsedAfterRelease
<1> QED
  BY <1>1, Invariance, PTL

(* When DealClient ends (client.c:222-226) the other threads have ended,   *)
(* the queues are empty, and sockets, memory and the list entry are gone.  *)
THEOREM CleanEnd == Spec => []NothingLeftBehind
<1>1. IInv => NothingLeftBehind
  <2> SUFFICES ASSUME IInv, pc["up"] = "done"
               PROVE  /\ pc["down"] = "done" /\ \A d \in Dir : sender[d] = "ended"
                      /\ open = {} /\ memory = {} /\ ~listed
                      /\ put = taken
    BY DEF NothingLeftBehind
  <2> USE DEF IInv, TypeOK, Threads, Pipes, Resources, Early, Past, Dir
  <2>1. pc["down"] = "done" /\ \A d \in Dir : sender[d] = "ended"
    BY SMTT(20)
  <2>2. open = {} /\ ~listed
    BY SMTT(20)
  <2>3. memory = {}
    <3>1. "pack" \notin memory /\ "up" \notin memory /\ "down" \notin memory
      BY <2>1, SMTT(20)
    <3> QED
      BY <3>1
  <2>4. put = taken
    BY <2>1, SMTT(20)
  <2> QED
    BY <2>1, <2>2, <2>3, <2>4
<1> QED
  BY <1>1, Invariance, PTL

-----------------------------------------------------------------------------
(* Each direction of the session behaves as a Channel, which is what       *)
(* SendingQueueProofs shows sending.c to be: the relays and senders of     *)
(* client.c:184-206 and remote.c:34-56, with all that the world does to    *)
(* the sockets, take only Channel's steps.                                 *)
LEMMA StepIsChannelStep ==
  ASSUME NEW e \in Dir
  PROVE  IInv /\ [Next]_vars => [Pipe(e)!Next]_(Pipe(e)!vars)
<1> SUFFICES ASSUME IInv, [Next]_vars PROVE [Pipe(e)!Next]_(Pipe(e)!vars)
  OBVIOUS
<1> USE SessionAssumption
    DEF IInv, TypeOK, Pipes, Dir, Side, Source, Target, Goto, chanVars, sockVars,
        Pipe!vars
<1>1. CASE \/ BeginDealRemote \/ Greet \/ AddUser \/ JoinRemote \/ CloseRemote
           \/ CloseClient \/ CopyPack \/ Delete
  BY <1>1, SMTT(20) DEF BeginDealRemote, Greet, AddUser, JoinRemote, CloseRemote,
     CloseClient, CopyPack, Delete
<1>2. ASSUME NEW d \in Dir,
             StartSender(d) \/ RecvChunk(d) \/ JoinSender(d) \/ SetClose(d)
      PROVE  UNCHANGED Pipe(e)!vars
  BY <1>2, SMTT(20) DEF StartSender, RecvChunk, JoinSender, SetClose
<1>3. ASSUME NEW x \in Side, NEW t \in Dir \union {"remote"},
             PeerCloses(x) \/ HandleReused(t) \/ StrangerEnds(t)
      PROVE  UNCHANGED Pipe(e)!vars
  BY <1>3, SMTT(20) DEF PeerCloses, HandleReused, StrangerEnds
<1>4. ASSUME NEW d \in Dir, RecvEnd(d) \/ Refused(d)
      PROVE  [Pipe(e)!Close]_(Pipe(e)!vars)
  BY <1>4, SMTT(20) DEF RecvEnd, Refused, Early, Pipe!Close
<1>5. ASSUME NEW d \in Dir, Put(d) PROVE [Pipe(e)!Put]_(Pipe(e)!vars)
  BY <1>5, SMTT(20) DEF Put, Pipe!Put
<1>6. ASSUME NEW d \in Dir, Deliver(d) PROVE [Pipe(e)!Deliver]_(Pipe(e)!vars)
  BY <1>6, SMTT(20) DEF Deliver, Pipe!Deliver
<1>7. ASSUME NEW d \in Dir, Drop(d) PROVE [Pipe(e)!Drop]_(Pipe(e)!vars)
  BY <1>7, SMTT(20) DEF Drop, Pipe!Drop
<1>8. ASSUME NEW d \in Dir, EndSender(d) PROVE [Pipe(e)!End]_(Pipe(e)!vars)
  BY <1>8, SMTT(20) DEF EndSender, Pipe!End
<1>9. ASSUME NEW d \in Dir, Shut(d) PROVE Pipe(e)!Break
  BY <1>9, SMTT(20) DEF Shut, Pipe!Break
<1>10. ASSUME NEW x \in Side, PeerResets(x) \/ Kick
       PROVE  [Pipe(e)!Break]_(Pipe(e)!vars)
  BY <1>10, SMTT(20) DEF PeerResets, Kick, Pipe!Break
<1>12. ASSUME NEW x \in Side, PeerReads(x)
       PROVE  [Pipe(e)!Read]_(Pipe(e)!vars)
  BY <1>12, SMTT(20) DEF PeerReads, Pipe!Read
<1>11. CASE Finished \/ UNCHANGED vars
  BY <1>11 DEF Finished, vars
<1> QED
  BY <1>1, <1>2, <1>3, <1>4, <1>5, <1>6, <1>7, <1>8, <1>9, <1>10, <1>11,
     <1>12
     DEF Next, DealClient, DealRemote, RelayStep, SenderStep, World, Pipe!Next

(* Every behaviour of the session is one of a Channel in each direction,   *)
(* that is: Session may use two Channels where client.c:185 and            *)
(* remote.c:28 have two linked lists.                                      *)
THEOREM ImplementsChannels == Spec => QueuesAreChannels
<1>1. ASSUME NEW e \in Dir PROVE Init => Pipe(e)!Init
  BY SessionAssumption, SMTT(20) DEF Init, Dir, Side, Target, Pipe!Init
<1>2. Init => Pipe("up")!Init /\ Pipe("down")!Init
  BY <1>1 DEF Dir
<1>3. IInv /\ [Next]_vars => [Pipe("up")!Next]_(Pipe("up")!vars)
  BY StepIsChannelStep DEF Dir
<1>4. IInv /\ [Next]_vars => [Pipe("down")!Next]_(Pipe("down")!vars)
  BY StepIsChannelStep DEF Dir
<1> QED
  BY <1>2, <1>3, <1>4, Invariance, PTL DEF Spec, QueuesAreChannels
=============================================================================
