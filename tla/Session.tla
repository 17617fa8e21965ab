------------------------------ MODULE Session ------------------------------
(***************************************************************************)
(* One session of a logged-in player, from the moment DealClient           *)
(* (client.c) has connected to the remote server until it has released     *)
(* everything.  Four threads take part: DealClient, which becomes the      *)
(* relay from the client to the server; DealRemote (remote.c), the relay   *)
(* of the other direction; and one SendingThread per direction.  The       *)
(* queue between a relay and its sender is a Channel, which is what        *)
(* SendingQueue shows sending.c to be.                                     *)
(*                                                                         *)
(* DealClient joins the threads through handles that _endthread closes, so *)
(* the number of a handle may belong to a stranger when it is waited for.  *)
(***************************************************************************)
EXTENDS Naturals, Sequences

CONSTANTS MaxChunks,  \* bound: chunks received in each direction
          MaxData,    \* pack.maxdatanum, 2000 in the code
          Buffer      \* how many chunks a socket takes that its peer did not read

ASSUME SessionAssumption == /\ MaxChunks \in Nat /\ MaxData \in Nat
                            /\ Buffer \in Nat \ {0}

Dir  == {"up", "down"}             \* client to server, server to client
Side == {"client", "server"}       \* the two sockets of the session

Source == [up |-> "client", down |-> "server"]
Target == [up |-> "server", down |-> "client"]

VARIABLES
  pc,       \* control point of the relay of each direction
  sender,   \* control point of the sender of each direction
  put, taken, wire, phase,   \* the Channel of each direction
  refuse,   \* pack.close of each direction
  eof,      \* recv on the socket returns 0 or an error
  broken,   \* send on the socket fails
  unread,   \* chunks a socket has taken and its peer has not read
  open,     \* the sockets not yet given to closesocket
  memory,   \* what is allocated: the Rcpack and the two SendingPacks
  listed,   \* adduser has put the player's name on the online list
  stranger  \* ended threads whose handle now names a thread of somebody else

chanVars == <<put, taken, wire, phase, refuse>>
sockVars == <<eof, broken, unread, open>>
vars == <<pc, sender, memory, listed, stranger, chanVars, sockVars>>

DealClientPoints == {"spawn", "greet", "adduser", "start", "recv", "put",
                     "shut", "joinSender", "joinRemote", "closeRemote",
                     "closeClient", "done"}
DealRemotePoints == {"none", "copy", "start", "recv", "put", "shut",
                     "joinSender", "delete", "done"}

(* WS_ConnectServer succeeded and the Rcpack is filled in.                 *)
Init ==
  /\ pc = [up |-> "spawn", down |-> "none"]
  /\ sender = [d \in Dir |-> "none"]
  /\ put = [d \in Dir |-> 0] /\ taken = [d \in Dir |-> 0]
  /\ wire = [d \in Dir |-> <<>>] /\ phase = [d \in Dir |-> "open"]
  /\ refuse = [d \in Dir |-> FALSE]
  /\ eof = [x \in Side |-> FALSE] /\ broken = [x \in Side |-> FALSE]
  /\ unread = [x \in Side |-> 0] /\ open = Side
  /\ memory = {"pack"} /\ listed = FALSE /\ stranger = {}

Goto(d, from, to) == pc[d] = from /\ pc' = [pc EXCEPT ![d] = to]

-----------------------------------------------------------------------------
(* Mistakes.  Each is an action below with something left out or wrong;    *)
(* TLC finds the property named violated if it takes the action's place.   *)

JoinNobody ==                \* NothingUsedAfterRelease
  /\ Goto("up", "joinRemote", "closeRemote")
  /\ UNCHANGED <<sender, memory, listed, stranger, chanVars, sockVars>>

CloseRemoteKeepsSocket ==    \* NothingLeftBehind
  /\ Goto("up", "closeRemote", "closeClient")
  /\ memory' = memory \ {"up"}
  /\ UNCHANGED <<sender, listed, stranger, chanVars, sockVars>>

RecvEndKeepsLock(d) ==       \* ClientGoneEnds
  /\ Goto(d, "recv", "shut") /\ eof[Source[d]]
  /\ UNCHANGED <<sender, memory, listed, stranger, chanVars, sockVars>>

PutAtOnce(d) ==              \* QueuesAreChannels
  /\ Goto(d, "put", "recv") /\ put' = [put EXCEPT ![d] = @ + 1]
  /\ UNCHANGED <<sender, memory, listed, stranger, taken, wire, phase, refuse,
                 sockVars>>

DropEmpty(d) ==              \* TypeOK
  /\ sender[d] = "run" /\ broken[Target[d]]
  /\ sender' = [sender EXCEPT ![d] = "fail"]
  /\ taken' = [taken EXCEPT ![d] = @ + 1]
  /\ UNCHANGED <<pc, memory, listed, stranger, put, wire, phase, refuse,
                 sockVars>>

-----------------------------------------------------------------------------
(* DealClient on its own.                                                  *)

BeginDealRemote ==
  /\ pc["up"] = "spawn"
  /\ pc' = [up |-> "greet", down |-> "copy"]
  /\ UNCHANGED <<sender, memory, listed, stranger, chanVars, sockVars>>

(* The rewritten handshake and the login packet go out; the results of the *)
(* two sends are ignored.                                                  *)
Greet ==
  /\ Goto("up", "greet", "adduser")
  /\ UNCHANGED <<sender, memory, listed, stranger, chanVars, sockVars>>

AddUser ==
  /\ Goto("up", "adduser", "start")
  /\ listed' = TRUE
  /\ UNCHANGED <<sender, memory, stranger, chanVars, sockVars>>

(* WaitForSingleObject on a thread of this session: it returns when the    *)
(* thread has ended, unless the handle was closed and now means another.   *)
Joined(d, t) == t \notin stranger
                /\ IF t = "remote" THEN pc["down"] = "done"
                                   ELSE sender[d] = "ended"

JoinRemote ==
  /\ Goto("up", "joinRemote", "closeRemote")
  /\ Joined("up", "remote")
  /\ UNCHANGED <<sender, memory, listed, stranger, chanVars, sockVars>>

CloseRemote ==
  /\ Goto("up", "closeRemote", "closeClient")
  /\ open' = open \ {"server"} /\ memory' = memory \ {"up"}
  /\ UNCHANGED <<sender, listed, stranger, chanVars, eof, broken, unread>>

CloseClient ==
  /\ Goto("up", "closeClient", "done")
  /\ open' = open \ {"client"} /\ memory' = memory \ {"pack"}
  /\ listed' = FALSE
  /\ UNCHANGED <<sender, stranger, chanVars, eof, broken, unread>>

(* DealRemote on its own.                                                  *)

CopyPack ==
  /\ Goto("down", "copy", "start")
  /\ UNCHANGED <<sender, memory, listed, stranger, chanVars, sockVars>>

Delete ==
  /\ Goto("down", "delete", "done")
  /\ memory' = memory \ {"down"}
  /\ UNCHANGED <<sender, listed, stranger, chanVars, sockVars>>

-----------------------------------------------------------------------------
(* The two relays.                                                         *)

StartSender(d) ==
  /\ Goto(d, "start", "recv")
  /\ sender' = [sender EXCEPT ![d] = "run"]
  /\ memory' = memory \union {d}
  /\ UNCHANGED <<listed, stranger, chanVars, sockVars>>

RecvChunk(d) ==
  /\ Goto(d, "recv", "put")
  /\ ~broken[Source[d]] /\ put[d] < MaxChunks
  /\ UNCHANGED <<sender, memory, listed, stranger, chanVars, sockVars>>

RecvEnd(d) ==
  /\ Goto(d, "recv", "shut")
  /\ eof[Source[d]]
  /\ phase' = [phase EXCEPT ![d] = "closed"]
  /\ UNCHANGED <<sender, memory, listed, stranger, put, taken, wire, refuse,
                 sockVars>>

(* UpSendingData, once there is room ...                                   *)
Put(d) ==
  /\ Goto(d, "put", "recv")
  /\ put[d] <= taken[d] + MaxData
  /\ put' = [put EXCEPT ![d] = @ + 1]
  /\ UNCHANGED <<sender, memory, listed, stranger, taken, wire, phase, refuse,
                 sockVars>>

(* ... or when the sender has reported a failed send.                      *)
Refused(d) ==
  /\ Goto(d, "put", "shut")
  /\ refuse[d]
  /\ phase' = [phase EXCEPT ![d] = "closed"]
  /\ UNCHANGED <<sender, memory, listed, stranger, put, taken, wire, refuse,
                 sockVars>>

(* shutdown(SD_BOTH) on both sockets.                                      *)
Shut(d) ==
  /\ Goto(d, "shut", "joinSender")
  /\ eof' = [x \in Side |-> TRUE] /\ broken' = [x \in Side |-> TRUE]
  /\ UNCHANGED <<sender, memory, listed, stranger, chanVars, unread, open>>

JoinSender(d) ==
  /\ Goto(d, "joinSender", IF d = "up" THEN "joinRemote" ELSE "delete")
  /\ Joined(d, d)
  /\ UNCHANGED <<sender, memory, listed, stranger, chanVars, sockVars>>

-----------------------------------------------------------------------------
(* The two senders.                                                        *)

(* send succeeds; while the socket's buffer is full it blocks.             *)
Deliver(d) ==
  /\ sender[d] = "run" /\ taken[d] < put[d]
  /\ ~broken[Target[d]] /\ unread[Target[d]] < Buffer
  /\ taken' = [taken EXCEPT ![d] = @ + 1]
  /\ wire' = [wire EXCEPT ![d] = Append(@, taken[d] + 1)]
  /\ unread' = [unread EXCEPT ![Target[d]] = @ + 1]
  /\ UNCHANGED <<pc, sender, memory, listed, stranger, put, phase, refuse, eof,
                 broken, open>>

Drop(d) ==
  /\ sender[d] = "run" /\ taken[d] < put[d]
  /\ broken[Target[d]]
  /\ sender' = [sender EXCEPT ![d] = "fail"]
  /\ taken' = [taken EXCEPT ![d] = @ + 1]
  /\ UNCHANGED <<pc, memory, listed, stranger, put, wire, phase, refuse,
                 sockVars>>

SetClose(d) ==
  /\ sender[d] = "fail" /\ sender' = [sender EXCEPT ![d] = "run"]
  /\ refuse' = [refuse EXCEPT ![d] = TRUE]
  /\ UNCHANGED <<pc, memory, listed, stranger, put, taken, wire, phase,
                 sockVars>>

(* The empty last node: shutdown(SD_BOTH) on the target, and the end.      *)
EndSender(d) ==
  /\ sender[d] = "run" /\ phase[d] = "closed" /\ taken[d] = put[d]
  /\ sender' = [sender EXCEPT ![d] = "ended"]
  /\ phase' = [phase EXCEPT ![d] = "ended"]
  /\ eof' = [eof EXCEPT ![Target[d]] = TRUE]
  /\ broken' = [broken EXCEPT ![Target[d]] = TRUE]
  /\ UNCHANGED <<pc, memory, listed, stranger, put, taken, wire, refuse, unread,
                 open>>

-----------------------------------------------------------------------------
(* The rest of the world.                                                  *)

PeerCloses(x) ==
  /\ ~eof[x] /\ eof' = [eof EXCEPT ![x] = TRUE]
  /\ UNCHANGED <<pc, sender, memory, listed, stranger, chanVars, broken, unread,
                 open>>

PeerResets(x) ==
  /\ ~broken[x] /\ broken' = [broken EXCEPT ![x] = TRUE]
  /\ eof' = [eof EXCEPT ![x] = TRUE]
  /\ UNCHANGED <<pc, sender, memory, listed, stranger, chanVars, unread, open>>

PeerReads(x) ==
  /\ unread[x] > 0 /\ unread' = [unread EXCEPT ![x] = @ - 1]
  /\ UNCHANGED <<pc, sender, memory, listed, stranger, chanVars, eof, broken,
                 open>>

(* kickplayer finds the player on the list and shuts its socket down.      *)
Kick ==
  /\ listed /\ ~broken["client"] /\ "client" \in open
  /\ eof' = [eof EXCEPT !["client"] = TRUE]
  /\ broken' = [broken EXCEPT !["client"] = TRUE]
  /\ UNCHANGED <<pc, sender, memory, listed, stranger, chanVars, unread, open>>

(* A thread handle of this session, closed by _endthread, is given out     *)
(* again for a thread of somebody else; that thread may end.               *)
HandleReused(t) ==
  /\ IF t = "remote" THEN pc["down"] = "done" ELSE sender[t] = "ended"
  /\ t \notin stranger /\ stranger' = stranger \union {t}
  /\ UNCHANGED <<pc, sender, memory, listed, chanVars, sockVars>>

StrangerEnds(t) ==
  /\ t \in stranger /\ stranger' = stranger \ {t}
  /\ UNCHANGED <<pc, sender, memory, listed, chanVars, sockVars>>

-----------------------------------------------------------------------------
Done == pc = [up |-> "done", down |-> "done"]
Finished == Done /\ UNCHANGED vars

DealClient == \/ BeginDealRemote \/ Greet \/ AddUser
              \/ JoinRemote \/ CloseRemote \/ CloseClient
DealRemote == CopyPack \/ Delete
RelayStep(d) == \/ StartSender(d) \/ RecvEnd(d) \/ Put(d) \/ Refused(d)
                \/ Shut(d) \/ JoinSender(d)
SenderStep(d) == Deliver(d) \/ Drop(d) \/ SetClose(d) \/ EndSender(d)

World == \/ \E x \in Side : PeerCloses(x) \/ PeerResets(x) \/ PeerReads(x)
         \/ Kick
         \/ \E t \in Dir \union {"remote"} : HandleReused(t) \/ StrangerEnds(t)

Next == \/ DealClient \/ DealRemote
        \/ \E d \in Dir : RecvChunk(d) \/ RelayStep(d) \/ SenderStep(d)
        \/ World \/ Finished

(* Threads run; the remote server keeps reading what it is sent.  The      *)
(* client may stop reading without closing, and peers may stay silent.     *)
Fairness == /\ WF_vars(DealClient) /\ WF_vars(DealRemote)
            /\ \A d \in Dir : WF_vars(RelayStep(d)) /\ WF_vars(SenderStep(d))
            /\ WF_vars(PeerReads("server"))

Spec == Init /\ [][Next]_vars /\ Fairness

-----------------------------------------------------------------------------
TypeOK ==
  /\ pc["up"] \in DealClientPoints /\ pc["down"] \in DealRemotePoints
  /\ sender \in [Dir -> {"none", "run", "fail", "ended"}]
  /\ put \in [Dir -> 0 .. MaxChunks] /\ taken \in [Dir -> 0 .. MaxChunks]
  /\ wire \in [Dir -> Seq(1 .. MaxChunks)]
  /\ phase \in [Dir -> {"open", "closed", "ended"}]
  /\ refuse \in [Dir -> BOOLEAN]
  /\ eof \in [Side -> BOOLEAN] /\ broken \in [Side -> BOOLEAN]
  /\ unread \in [Side -> 0 .. Buffer] /\ open \in SUBSET Side
  /\ memory \in SUBSET {"pack", "up", "down"} /\ listed \in BOOLEAN
  /\ stranger \in SUBSET (Dir \union {"remote"})

(* Whatever thread the joins of DealClient and DealRemote really waited    *)
(* for, nobody uses a socket after closesocket (a number that may by then  *)
(* be another session's), the Rcpack after free, or a SendingPack after    *)
(* the thread on whose stack it lies has gone past it.                     *)
NothingUsedAfterRelease ==
  /\ \A d \in Dir :
       /\ pc[d] \in {"recv", "shut"} => open = Side
       /\ sender[d] \in {"run", "fail"} => Target[d] \in open /\ d \in memory
  /\ pc["down"] = "copy" => "pack" \in memory
  /\ pc["down"] = "start" => open = Side

(* A session that has ended leaves nothing behind: no thread, no socket,   *)
(* no memory, no chunk in a queue, no name on the list.                    *)
NothingLeftBehind ==
  pc["up"] = "done" =>
    /\ pc["down"] = "done" /\ \A d \in Dir : sender[d] = "ended"
    /\ open = {} /\ memory = {} /\ ~listed
    /\ put = taken

(* A session whose client has gone or was kicked ends, also when the       *)
(* client no longer reads and the queues are full, unless DealClient or    *)
(* DealRemote waits for a thread that is not theirs.  It is said of a      *)
(* remote server that keeps reading (Fairness), and of the time DealClient *)
(* spends outside the list of players: adduser and removeip (client.c:157, *)
(* 222) wait for O_lock, which ShowPlayerInfo keeps while its box is open  *)
(* (online.c:38-56); an open box delays the end for as long as it is open. *)
WaitsForStranger ==
  \/ pc["up"] = "joinSender" /\ "up" \in stranger
  \/ pc["up"] = "joinRemote" /\ "remote" \in stranger
  \/ pc["down"] = "joinSender" /\ "down" \in stranger

ClientGoneEnds == eof["client"] ~> (Done \/ WaitsForStranger)

(* Each direction of the session behaves as a Channel.                     *)
Pipe(d) == INSTANCE Channel WITH put <- put[d], taken <- taken[d],
             wire <- wire[d], up <- ~broken[Target[d]],
             room <- unread[Target[d]] < Buffer, phase <- phase[d]

QueuesAreChannels ==
  /\ Pipe("up")!Init /\ [][Pipe("up")!Next]_(Pipe("up")!vars)
  /\ Pipe("down")!Init /\ [][Pipe("down")!Next]_(Pipe("down")!vars)
=============================================================================
