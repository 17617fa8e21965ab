------------------------ MODULE ServerControlProofs ------------------------
(***************************************************************************)
(* Proofs about ServerControl, for any number of starts, handles and       *)
(* ports.  The types are correct whoever calls; the rest needs a patient   *)
(* caller, and is false without one.                                       *)
(*                                                                         *)
(* Run alone does not say whether a service thread lives: it is 0 before   *)
(* the new thread has set it and while the old one is on its way out, and  *)
(* 1 after a failed bind.  The invariant says what it means together with  *)
(* where the caller is.                                                    *)
(***************************************************************************)
EXTENDS ServerControl, TLAPS

Typed == TypeOK /\ \A t \in Thread : at[t] # "none" => LocalPort \in Port

(* The only thread that can be alive is the one begun last.                *)
OnlyTheLast == \A t \in Thread : Alive(t) => t = Main_Pid

(* What Run means.                                                         *)
RunMeans ==
  /\ gui # "idle" => Run = 0
  /\ \A t \in Thread :
       /\ at[t] \in Starting => gui = "idle"
       /\ at[t] \in {"test", "set"} => Run = 0
       /\ gui = "idle" /\ Run = 0 /\ Alive(t) => at[t] \in {"test", "set"}

(* A socket listens only while a thread serves it, or is about to be       *)
(* closed; and server is closed only while it is the socket that listens.  *)
ServerMeans ==
  /\ \A h \in Handle : Listening(h) =>
       /\ h = server
       /\ \/ gui = "close"
          \/ gui = "idle" /\ Run = 1 /\ Main_Pid # NoThread /\ at[Main_Pid] \in Serving
  /\ (\/ gui = "close"
      \/ gui = "idle" /\ Run = 1 /\ \A t \in Thread : at[t] \notin Starting)
       => server = NoSocket \/ Listening(server)

IInv == Typed /\ OnlyTheLast /\ RunMeans /\ ServerMeans

-----------------------------------------------------------------------------
LEMMA InitTyped == Init => Typed
<1> SUFFICES ASSUME Init PROVE Typed
  OBVIOUS
<1> USE DEF Init
<1>1. /\ gui \in {"idle", "close", "join"} /\ Run \in {0, 1}
      /\ server \in Handle \union {NoSocket} /\ LocalPort \in Port \union {0}
      /\ Main_Pid \in Thread \union {NoThread}
  OBVIOUS
<1>2. stranger \in BOOLEAN /\ Motd_Loaded \in BOOLEAN
  OBVIOUS
<1>3. /\ at \in [Thread -> {"none", "ended"} \union Starting \union Serving]
      /\ on \in [Thread -> Handle \union {NoSocket}]
  OBVIOUS
<1>4. /\ socket \in [Handle -> {Free, Client, Lost} \union
                   {Listener(p) : p \in Port} \union {Bound(p) : p \in Port}]
      /\ O_lock \in {"free", "box"}
  OBVIOUS
<1>5. \A t \in Thread : at[t] = "none"
  OBVIOUS
<1> QED
  BY <1>1, <1>2, <1>3, <1>4, <1>5 DEF Typed, TypeOK

LEMMA NextTyped == Typed /\ [Next]_vars => Typed'
<1>0. SUFFICES ASSUME Typed, [Next]_vars PROVE Typed'
  OBVIOUS
<1> USE ControlAssumption
    DEF Typed, TypeOK, Starting, Serving, Goto, globals, pid
<1>1. ASSUME NEW t \in Thread, NEW p \in Port, StartServer(t, p) PROVE Typed'
  <2>1. at' \in [Thread -> {"none", "ended"} \union Starting \union Serving]
    BY <1>0, <1>1, SMTT(20) DEF StartServer
  <2>2. LocalPort' = p /\ Main_Pid' = t /\ stranger' = FALSE
    BY <1>1 DEF StartServer
  <2>3. UNCHANGED <<gui, Run, server, Motd_Loaded, on, socket, O_lock>>
    BY <1>1 DEF StartServer
  <2> QED
    BY <1>0, <2>1, <2>2, <2>3
<1>2. CASE StopServer
  BY <1>0, <1>2, SMTT(20) DEF StopServer
<1>3. CASE CloseServer
  BY <1>0, <1>3, SMTT(20) DEF CloseServer
<1>4. CASE WaitMainPid
  BY <1>0, <1>4, SMTT(20) DEF WaitMainPid
<1>5. ASSUME NEW t \in Thread, Test(t) PROVE Typed'
  BY <1>0, <1>5, SMTT(20) DEF Test
<1>6. ASSUME NEW t \in Thread, SetRun(t) PROVE Typed'
  BY <1>0, <1>6, SMTT(20) DEF SetRun
<1>7. ASSUME NEW t \in Thread, TestMotd(t) PROVE Typed'
  BY <1>0, <1>7, SMTT(20) DEF TestMotd
<1>8. ASSUME NEW t \in Thread, LoadMotd(t) PROVE Typed'
  BY <1>0, <1>8, SMTT(20) DEF LoadMotd
<1>9. ASSUME NEW t \in Thread, NEW h \in Handle, Listen(t, h) PROVE Typed'
  BY <1>0, <1>9, SMTT(20) DEF Listen
<1>10. ASSUME NEW t \in Thread, BindFails(t) PROVE Typed'
  BY <1>0, <1>10, SMTT(20) DEF BindFails
<1>listen. ASSUME NEW t \in Thread, ListenFails(t) PROVE Typed'
  BY <1>0, <1>listen, SMTT(20) DEF ListenFails
<1>11. ASSUME NEW t \in Thread, Loop(t) PROVE Typed'
  BY <1>0, <1>11, SMTT(20) DEF Loop
<1>12. ASSUME NEW t \in Thread, NEW h \in Handle, WaitClient(t, h) PROVE Typed'
  BY <1>0, <1>12, SMTT(20) DEF WaitClient
<1>addip. ASSUME NEW t \in Thread, AddIp(t) PROVE Typed'
  BY <1>0, <1>addip, SMTT(20) DEF AddIp
<1>box. CASE ShowPlayerInfo \/ BoxClosed
  BY <1>0, <1>box, SMTT(20) DEF ShowPlayerInfo, BoxClosed
<1>13. ASSUME NEW t \in Thread, WaitFails(t) PROVE Typed'
  BY <1>0, <1>13, SMTT(20) DEF WaitFails
<1>14. ASSUME NEW h \in Handle, ConnectServer(h) \/ ClientCloses(h) PROVE Typed'
  BY <1>0, <1>14, SMTT(20) DEF ConnectServer, ClientCloses
<1>15. CASE HandleReused \/ StrangerEnds
  <2>1. stranger' \in BOOLEAN
    BY <1>15 DEF HandleReused, StrangerEnds
  <2>2. UNCHANGED <<gui, Run, server, LocalPort, Main_Pid, Motd_Loaded, at, on,
                    socket, O_lock>>
    BY <1>15 DEF HandleReused, StrangerEnds
  <2> QED
    BY <1>0, <2>1, <2>2
<1>16. CASE Rest \/ UNCHANGED vars
  BY <1>0, <1>16, SMTT(20) DEF Rest, vars
<1> QED
  BY <1>0, <1>1, <1>2, <1>3, <1>4, <1>5, <1>6, <1>7, <1>8, <1>9, <1>10, <1>11,
     <1>12, <1>13, <1>14, <1>15, <1>16, <1>listen, <1>addip, <1>box
     DEF Next, Caller, Server

(* Every global keeps its type, also when nobody waits for a start.        *)
THEOREM TypeCorrect == Spec => []TypeOK
<1>1. Typed => TypeOK
  BY DEF Typed
<1> QED
  BY <1>1, InitTyped, NextTyped, PTL DEF Spec
-----------------------------------------------------------------------------
LEMMA InitIInv == Init => IInv
<1> SUFFICES ASSUME Init PROVE IInv
  OBVIOUS
<1>1. Typed
  BY InitTyped
<1>2. OnlyTheLast /\ RunMeans
  BY SMTT(20) DEF Init, OnlyTheLast, RunMeans, Alive, Starting, Serving
<1>3. ServerMeans
  BY SMTT(20) DEF Init, ServerMeans, Listening, Free, Listener
<1> QED
  BY <1>1, <1>2, <1>3 DEF IInv

(* The inductive step, part by part.  A start and a stop find no thread on *)
(* its way between Run = 0 and the call of listen: the caller is patient.  *)
LEMMA NextOnlyTheLast ==
  ASSUME Patient, IInv, [Next]_vars PROVE OnlyTheLast'
<1>0. Patient /\ IInv /\ [Next]_vars
  OBVIOUS
<1> USE ControlAssumption
    DEF IInv, OnlyTheLast, RunMeans, Typed, TypeOK, Thread, Alive, Starting, Serving,
        NoThread, NoSocket, MayCall, Goto, globals, pid
<1>1. ASSUME NEW t \in Thread, NEW p \in Port, StartServer(t, p) PROVE OnlyTheLast'
  BY <1>0, <1>1, SMTT(20) DEF StartServer
<1>2. CASE StopServer
  BY <1>0, <1>2, SMTT(20) DEF StopServer
<1>3. CASE CloseServer
  BY <1>0, <1>3, SMTT(20) DEF CloseServer
<1>4. CASE WaitMainPid
  BY <1>0, <1>4, SMTT(20) DEF WaitMainPid
<1>5. ASSUME NEW t \in Thread, Test(t) PROVE OnlyTheLast'
  BY <1>0, <1>5, SMTT(20) DEF Test
<1>6. ASSUME NEW t \in Thread, SetRun(t) PROVE OnlyTheLast'
  BY <1>0, <1>6, SMTT(20) DEF SetRun
<1>7. ASSUME NEW t \in Thread, TestMotd(t) PROVE OnlyTheLast'
  BY <1>0, <1>7, SMTT(20) DEF TestMotd
<1>8. ASSUME NEW t \in Thread, LoadMotd(t) PROVE OnlyTheLast'
  BY <1>0, <1>8, SMTT(20) DEF LoadMotd
<1>9. ASSUME NEW t \in Thread, NEW h \in Handle, Listen(t, h) PROVE OnlyTheLast'
  BY <1>0, <1>9, SMTT(20) DEF Listen
<1>10. ASSUME NEW t \in Thread, BindFails(t) PROVE OnlyTheLast'
  BY <1>0, <1>10, SMTT(20) DEF BindFails
<1>listen. ASSUME NEW t \in Thread, ListenFails(t) PROVE OnlyTheLast'
  BY <1>0, <1>listen, SMTT(20) DEF ListenFails
<1>11. ASSUME NEW t \in Thread, Loop(t) PROVE OnlyTheLast'
  BY <1>0, <1>11, SMTT(20) DEF Loop
<1>12. ASSUME NEW t \in Thread, NEW h \in Handle, WaitClient(t, h) PROVE OnlyTheLast'
  BY <1>0, <1>12, SMTT(20) DEF WaitClient
<1>addip. ASSUME NEW t \in Thread, AddIp(t) PROVE OnlyTheLast'
  BY <1>0, <1>addip, SMTT(20) DEF AddIp
<1>box. CASE ShowPlayerInfo \/ BoxClosed
  BY <1>0, <1>box, SMTT(20) DEF ShowPlayerInfo, BoxClosed
<1>13. ASSUME NEW t \in Thread, WaitFails(t) PROVE OnlyTheLast'
  BY <1>0, <1>13, SMTT(20) DEF WaitFails
<1>14. ASSUME NEW h \in Handle, ConnectServer(h) PROVE OnlyTheLast'
  BY <1>0, <1>14, SMTT(20) DEF ConnectServer
<1>15. ASSUME NEW h \in Handle, ClientCloses(h) PROVE OnlyTheLast'
  BY <1>0, <1>15, SMTT(20) DEF ClientCloses
<1>16. CASE HandleReused
  BY <1>0, <1>16, SMTT(20) DEF HandleReused
<1>17. CASE StrangerEnds
  BY <1>0, <1>17, SMTT(20) DEF StrangerEnds
<1>18. CASE Rest \/ UNCHANGED vars
  BY <1>0, <1>18, SMTT(20) DEF Rest, vars
<1> QED
  BY <1>0, <1>1, <1>2, <1>3, <1>4, <1>5, <1>6, <1>7, <1>8, <1>9, <1>10, <1>11,
     <1>12, <1>13, <1>14, <1>15, <1>16, <1>17, <1>18, <1>listen, <1>addip,
     <1>box
     DEF Next, Caller, Server

LEMMA NextRunMeans ==
  ASSUME Patient, IInv, [Next]_vars PROVE RunMeans'
<1>0. Patient /\ IInv /\ [Next]_vars
  OBVIOUS
<1> USE ControlAssumption
    DEF IInv, OnlyTheLast, RunMeans, Typed, TypeOK, Thread, Alive, Starting, Serving,
        NoThread, NoSocket, MayCall, Goto, globals, pid
<1>1. ASSUME NEW t \in Thread, NEW p \in Port, StartServer(t, p) PROVE RunMeans'
  BY <1>0, <1>1, SMTT(20) DEF StartServer
<1>2. CASE StopServer
  BY <1>0, <1>2, SMTT(20) DEF StopServer
<1>3. CASE CloseServer
  BY <1>0, <1>3, SMTT(20) DEF CloseServer
<1>4. CASE WaitMainPid
  BY <1>0, <1>4, SMTT(20) DEF WaitMainPid
<1>5. ASSUME NEW t \in Thread, Test(t) PROVE RunMeans'
  BY <1>0, <1>5, SMTT(20) DEF Test
<1>6. ASSUME NEW t \in Thread, SetRun(t) PROVE RunMeans'
  BY <1>0, <1>6, SMTT(20) DEF SetRun
<1>7. ASSUME NEW t \in Thread, TestMotd(t) PROVE RunMeans'
  BY <1>0, <1>7, SMTT(20) DEF TestMotd
<1>8. ASSUME NEW t \in Thread, LoadMotd(t) PROVE RunMeans'
  BY <1>0, <1>8, SMTT(20) DEF LoadMotd
<1>9. ASSUME NEW t \in Thread, NEW h \in Handle, Listen(t, h) PROVE RunMeans'
  BY <1>0, <1>9, SMTT(20) DEF Listen
<1>10. ASSUME NEW t \in Thread, BindFails(t) PROVE RunMeans'
  BY <1>0, <1>10, SMTT(20) DEF BindFails
<1>listen. ASSUME NEW t \in Thread, ListenFails(t) PROVE RunMeans'
  BY <1>0, <1>listen, SMTT(20) DEF ListenFails
<1>11. ASSUME NEW t \in Thread, Loop(t) PROVE RunMeans'
  BY <1>0, <1>11, SMTT(20) DEF Loop
<1>12. ASSUME NEW t \in Thread, NEW h \in Handle, WaitClient(t, h) PROVE RunMeans'
  BY <1>0, <1>12, SMTT(20) DEF WaitClient
<1>addip. ASSUME NEW t \in Thread, AddIp(t) PROVE RunMeans'
  BY <1>0, <1>addip, SMTT(20) DEF AddIp
<1>box. CASE ShowPlayerInfo \/ BoxClosed
  BY <1>0, <1>box, SMTT(20) DEF ShowPlayerInfo, BoxClosed
<1>13. ASSUME NEW t \in Thread, WaitFails(t) PROVE RunMeans'
  BY <1>0, <1>13, SMTT(20) DEF WaitFails
<1>14. ASSUME NEW h \in Handle, ConnectServer(h) PROVE RunMeans'
  BY <1>0, <1>14, SMTT(20) DEF ConnectServer
<1>15. ASSUME NEW h \in Handle, ClientCloses(h) PROVE RunMeans'
  BY <1>0, <1>15, SMTT(20) DEF ClientCloses
<1>16. CASE HandleReused
  BY <1>0, <1>16, SMTT(20) DEF HandleReused
<1>17. CASE StrangerEnds
  BY <1>0, <1>17, SMTT(20) DEF StrangerEnds
<1>18. CASE Rest \/ UNCHANGED vars
  BY <1>0, <1>18, SMTT(20) DEF Rest, vars
<1> QED
  BY <1>0, <1>1, <1>2, <1>3, <1>4, <1>5, <1>6, <1>7, <1>8, <1>9, <1>10, <1>11,
     <1>12, <1>13, <1>14, <1>15, <1>16, <1>17, <1>18, <1>listen, <1>addip,
     <1>box
     DEF Next, Caller, Server

LEMMA NextServerMeans ==
  ASSUME Patient, IInv, [Next]_vars PROVE ServerMeans'
<1>0. Patient /\ IInv /\ [Next]_vars
  OBVIOUS
<1> USE ControlAssumption
    DEF IInv, OnlyTheLast, RunMeans, ServerMeans, Listening, Taken, Listener,
        Bound, Free, Client, Lost, Typed, TypeOK, Thread, Alive, Starting, Serving,
        NoThread, NoSocket, MayCall, Goto, globals, pid
<1>1. ASSUME NEW t \in Thread, NEW p \in Port, StartServer(t, p) PROVE ServerMeans'
  BY <1>0, <1>1, SMTT(20) DEF StartServer
<1>2. CASE StopServer
  BY <1>0, <1>2, SMTT(20) DEF StopServer
<1>3. CASE CloseServer
  BY <1>0, <1>3, SMTT(20) DEF CloseServer
<1>4. CASE WaitMainPid
  BY <1>0, <1>4, SMTT(20) DEF WaitMainPid
<1>5. ASSUME NEW t \in Thread, Test(t) PROVE ServerMeans'
  BY <1>0, <1>5, SMTT(20) DEF Test
<1>6. ASSUME NEW t \in Thread, SetRun(t) PROVE ServerMeans'
  BY <1>0, <1>6, SMTT(20) DEF SetRun
<1>7. ASSUME NEW t \in Thread, TestMotd(t) PROVE ServerMeans'
  BY <1>0, <1>7, SMTT(20) DEF TestMotd
<1>8. ASSUME NEW t \in Thread, LoadMotd(t) PROVE ServerMeans'
  <2>1. /\ UNCHANGED <<gui, Run, server, Main_Pid, socket>>
        /\ \A u \in Thread : (at'[u] \in Starting <=> at[u] \in Starting)
        /\ \A u \in Thread : (at'[u] \in Serving <=> at[u] \in Serving)
    BY <1>0, <1>8, SMTT(20) DEF LoadMotd
  <2>2. Main_Pid \in Thread \union {NoThread}
    BY <1>0
  <2> QED
    BY <1>0, <2>1, <2>2, SMTT(30)
<1>9. ASSUME NEW t \in Thread, NEW h \in Handle, Listen(t, h) PROVE ServerMeans'
  BY <1>0, <1>9, SMTT(20) DEF Listen
<1>10. ASSUME NEW t \in Thread, BindFails(t) PROVE ServerMeans'
  BY <1>0, <1>10, SMTT(20) DEF BindFails
<1>listen. ASSUME NEW t \in Thread, ListenFails(t) PROVE ServerMeans'
  BY <1>0, <1>listen, SMTT(20) DEF ListenFails
<1>11. ASSUME NEW t \in Thread, Loop(t) PROVE ServerMeans'
  BY <1>0, <1>11, SMTT(20) DEF Loop
<1>12. ASSUME NEW t \in Thread, NEW h \in Handle, WaitClient(t, h) PROVE ServerMeans'
  BY <1>0, <1>12, SMTT(20) DEF WaitClient
<1>addip. ASSUME NEW t \in Thread, AddIp(t) PROVE ServerMeans'
  BY <1>0, <1>addip, SMTT(20) DEF AddIp
<1>box. CASE ShowPlayerInfo \/ BoxClosed
  BY <1>0, <1>box, SMTT(20) DEF ShowPlayerInfo, BoxClosed
<1>13. ASSUME NEW t \in Thread, WaitFails(t) PROVE ServerMeans'
  BY <1>0, <1>13, SMTT(20) DEF WaitFails
<1>14. ASSUME NEW h \in Handle, ConnectServer(h) PROVE ServerMeans'
  BY <1>0, <1>14, SMTT(20) DEF ConnectServer
<1>15. ASSUME NEW h \in Handle, ClientCloses(h) PROVE ServerMeans'
  BY <1>0, <1>15, SMTT(20) DEF ClientCloses
<1>16. CASE HandleReused
  BY <1>0, <1>16, SMTT(20) DEF HandleReused
<1>17. CASE StrangerEnds
  BY <1>0, <1>17, SMTT(20) DEF StrangerEnds
<1>18. CASE Rest \/ UNCHANGED vars
  BY <1>0, <1>18, SMTT(20) DEF Rest, vars
<1> QED
  BY <1>0, <1>1, <1>2, <1>3, <1>4, <1>5, <1>6, <1>7, <1>8, <1>9, <1>10, <1>11,
     <1>12, <1>13, <1>14, <1>15, <1>16, <1>17, <1>18, <1>listen, <1>addip,
     <1>box
     DEF Next, Caller, Server

LEMMA Invariance == Patient => (Spec => []IInv)
<1> SUFFICES ASSUME Patient PROVE Spec => []IInv
  OBVIOUS
<1>1. IInv /\ [Next]_vars => IInv'
  BY NextTyped, NextOnlyTheLast, NextRunMeans, NextServerMeans DEF IInv
<1> QED
  BY <1>1, InitIInv, PTL DEF Spec

-----------------------------------------------------------------------------
(* With a patient caller no socket listens any more once no service thread *)
(* is alive: what keeps a port is a socket that was bound and on which     *)
(* listen failed, and nothing else (main.c:37-46, 124-158; websocket.c:    *)
(* 69-77).                                                                 *)
THEOREM PortIsReleased == Patient => (Spec => []PortReleased)
<1>1. IInv => PortReleased
  <2> SUFFICES ASSUME IInv, \A t \in Thread : ~Alive(t), gui = "idle",
                      NEW p \in Port, NEW h \in Handle,
                      socket[h] \in {Listener(p), Bound(p)}
               PROVE  socket[h] = Bound(p)
    BY DEF PortReleased, Taken
  <2>1. ~Listening(h)
    BY ControlAssumption, SMTT(20)
       DEF IInv, Typed, TypeOK, ServerMeans, Alive, Thread, Starting, Serving,
           NoThread
  <2> QED
    BY <2>1 DEF Listening
<1> QED
  BY <1>1, Invariance, PTL

(* StopServer (main.c:37-46) returns when the service thread has ended: no *)
(* other can be alive, and it waits for the right one.                     *)
THEOREM StopWaits == Patient => (Spec => StopWaitsForExit)
<1> DEFINE Exit == gui = "join" /\ gui' = "idle" => \A t \in Thread : ~Alive(t)
<1>1. IInv /\ [Next]_vars => [Exit]_vars
  <2> SUFFICES ASSUME IInv, [Next]_vars, gui = "join", gui' = "idle"
               PROVE  \A t \in Thread : ~Alive(t)
    OBVIOUS
  <2>1. WaitMainPid
    BY SMTT(20)
       DEF Next, Caller, Server, StartServer, MayCall, StopServer, CloseServer,
           Test, SetRun, TestMotd, LoadMotd, Listen, BindFails, ListenFails, Loop,
           WaitClient, AddIp, WaitFails, ShowPlayerInfo, BoxClosed, ConnectServer,
           ClientCloses, HandleReused, StrangerEnds, Rest, vars
  <2> QED
    BY <2>1 DEF WaitMainPid, IInv, OnlyTheLast
<1> QED
  BY <1>1, Invariance, PTL DEF Spec, StopWaitsForExit

(* The handle that StopServer closes (main.c:43) is never that of a        *)
(* player's connection, although server keeps its value after a stop.      *)
THEOREM ClientsStay == Patient => (Spec => StopKeepsClients)
<1> DEFINE Keeps == gui = "close" /\ gui' = "join" =>
                      \A h \in Handle : socket[h] = Client => socket'[h] = Client
<1>1. IInv /\ [Next]_vars => [Keeps]_vars
  <2> SUFFICES ASSUME IInv, [Next]_vars, gui = "close", gui' = "join",
                      NEW h \in Handle, socket[h] = Client
               PROVE  socket'[h] = Client
    OBVIOUS
  <2>1. CloseServer
    BY SMTT(20)
       DEF Next, Caller, Server, StartServer, MayCall, StopServer, WaitMainPid,
           Test, SetRun, TestMotd, LoadMotd, Listen, BindFails, ListenFails, Loop,
           WaitClient, AddIp, WaitFails, ShowPlayerInfo, BoxClosed, ConnectServer,
           ClientCloses, HandleReused, StrangerEnds, Rest, vars
  <2>2. h # server
    BY ControlAssumption, SMTT(20)
       DEF IInv, ServerMeans, Listening, Listener, Client, NoSocket
  <2> QED
    BY <2>1, <2>2, SMTT(20) DEF CloseServer, IInv, Typed, TypeOK
<1> QED
  BY <1>1, Invariance, PTL DEF Spec, StopKeepsClients
=============================================================================
