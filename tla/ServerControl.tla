--------------------------- MODULE ServerControl ---------------------------
(***************************************************************************)
(* Starting and stopping the proxy (main.c): the exported StartServer and  *)
(* StopServer, called one after the other by the user interface, and the   *)
(* service threads (Server) that StartServer begins.  They share globals   *)
(* without a lock: Run, server, LocalPort, Main_Pid and Motd_Loaded.       *)
(*                                                                         *)
(* A patient caller waits for the log line that ends a start ("waiting for *)
(* connections", or "could not bind") before it calls again; the code does *)
(* not make it wait.                                                       *)
(***************************************************************************)
EXTENDS Naturals

CONSTANTS MaxStarts,  \* bound: how many service threads are ever begun
          Handle,     \* values of sockets
          Port,       \* values of localport
          Patient     \* the caller waits for each start to be over

ASSUME ControlAssumption == /\ MaxStarts \in Nat /\ Patient \in BOOLEAN
                            /\ Handle \subseteq Nat \ {0}

Thread == 1 .. MaxStarts    \* in the order in which they are begun
NoSocket == 0               \* what WS_CreateServerPort returns when it fails
NoThread == 0               \* a NULL handle: waiting for it returns at once

VARIABLES
  gui,       \* the caller: "idle", or in StopServer at "close" or "join"
  Run, server, LocalPort, Main_Pid, Motd_Loaded,
  stranger,  \* the handle in Main_Pid was closed and is another thread's now
  at,        \* control point of each service thread
  on,        \* the socket each service thread has called accept on
  socket,    \* operating system: what each handle is
  O_lock     \* the lock of the list of players, if ShowPlayerInfo keeps it

pid  == <<Main_Pid, stranger>>
globals == <<Run, server, LocalPort, pid, Motd_Loaded>>
vars == <<gui, globals, at, on, socket, O_lock>>

Starting == {"test", "set", "motd", "load", "listen"}
Serving  == {"loop", "accept", "addip"}
Alive(t) == t # NoThread /\ at[t] \in Starting \union Serving

Free == <<"free">>
Listener(p) == <<"listen", p>>
Bound(p) == <<"bound", p>>  \* listen failed on it; never closed
Client == <<"client">>      \* a player's connection, or one to the server
Lost == <<"lost">>          \* bind or connect failed on it; never closed

Init ==
  /\ gui = "idle" /\ Run = 0 /\ server = NoSocket /\ LocalPort = 0
  /\ Main_Pid = NoThread /\ stranger = FALSE
  /\ Motd_Loaded = FALSE
  /\ at = [t \in Thread |-> "none"] /\ on = [t \in Thread |-> NoSocket]
  /\ socket = [h \in Handle |-> Free] /\ O_lock = "free"

Goto(t, from, to) == at[t] = from /\ at' = [at EXCEPT ![t] = to]

MayCall == gui = "idle" /\ (Patient => \A t \in Thread : at[t] \notin Starting)

-----------------------------------------------------------------------------
(* Mistakes.  Each is an action below with something left out or wrong;    *)
(* TLC finds the property named violated if it takes the action's place.   *)

StopUnchecked ==             \* StopKeepsClients
  /\ MayCall /\ Run' = 0 /\ gui' = "close"
  /\ UNCHANGED <<server, LocalPort, pid, Motd_Loaded, at, on, socket, O_lock>>

StopButRun ==                \* StopReturns
  /\ MayCall /\ Run = 1 /\ gui' = "close"
  /\ UNCHANGED <<globals, at, on, socket, O_lock>>

CloseNothing ==              \* PortReleased
  /\ gui = "close" /\ gui' = "join"
  /\ UNCHANGED <<globals, at, on, socket, O_lock>>

WaitForNobody ==             \* StopWaitsForExit
  /\ gui = "join" /\ gui' = "idle"
  /\ UNCHANGED <<globals, at, on, socket, O_lock>>

BindFailsWithError(t) ==     \* TypeOK
  /\ Goto(t, "listen", "ended") /\ server' = NoSocket - 1
  /\ UNCHANGED <<gui, Run, LocalPort, pid, Motd_Loaded, on, socket, O_lock>>

-----------------------------------------------------------------------------
(* The caller.                                                             *)

(* StartServer returns 1 at once if Run is set, and otherwise begins a     *)
(* thread; it is the thread that will set Run.                             *)
StartServer(t, p) ==
  /\ MayCall /\ Run # 1
  /\ at[t] = "none" /\ \A u \in 1 .. (t - 1) : at[u] # "none"
  /\ at' = [at EXCEPT ![t] = "test"]
  /\ LocalPort' = p /\ Main_Pid' = t /\ stranger' = FALSE
  /\ UNCHANGED <<gui, Run, server, Motd_Loaded, on, socket, O_lock>>

StopServer ==
  /\ MayCall /\ Run = 1
  /\ Run' = 0 /\ gui' = "close"
  /\ UNCHANGED <<server, LocalPort, pid, Motd_Loaded, at, on, socket, O_lock>>

(* closesocket frees whatever the handle is, if it is anything, and ends   *)
(* the accept of a thread that is blocked on it.                           *)
CloseServer ==
  /\ gui = "close" /\ gui' = "join"
  /\ socket' = [h \in Handle |-> IF h = server THEN Free ELSE socket[h]]
  /\ on' = [t \in Thread |-> IF on[t] = server THEN NoSocket ELSE on[t]]
  /\ UNCHANGED <<globals, at, O_lock>>

(* WaitForSingleObject returns when the thread has ended, unless its       *)
(* handle, which _endthread closes, means another thread by now.           *)
WaitMainPid ==
  /\ gui = "join" /\ gui' = "idle"
  /\ ~Alive(Main_Pid) /\ ~stranger
  /\ UNCHANGED <<globals, at, on, socket, O_lock>>

-----------------------------------------------------------------------------
(* A service thread.                                                       *)

Test(t) ==
  /\ Goto(t, "test", IF Run = 1 THEN "ended" ELSE "set")
  /\ UNCHANGED <<gui, globals, on, socket, O_lock>>

SetRun(t) ==
  /\ Goto(t, "set", "motd")
  /\ Run' = 1
  /\ UNCHANGED <<gui, server, LocalPort, pid, Motd_Loaded, on, socket, O_lock>>

TestMotd(t) ==
  /\ Goto(t, "motd", IF Motd_Loaded THEN "listen" ELSE "load")
  /\ UNCHANGED <<gui, globals, on, socket, O_lock>>

LoadMotd(t) ==
  /\ Goto(t, "load", "listen")
  /\ Motd_Loaded' = TRUE
  /\ UNCHANGED <<gui, Run, server, LocalPort, pid, on, socket, O_lock>>

Taken(p) == \E h \in Handle : socket[h] \in {Listener(p), Bound(p)}

(* WS_CreateServerPort succeeds ...                                        *)
Listen(t, h) ==
  /\ Goto(t, "listen", "loop")
  /\ socket[h] = Free /\ ~Taken(LocalPort)
  /\ socket' = [socket EXCEPT ![h] = Listener(LocalPort)]
  /\ server' = h
  /\ UNCHANGED <<gui, Run, LocalPort, pid, Motd_Loaded, on, O_lock>>

(* ... or cannot bind, because the port is taken, by this process or by    *)
(* another one, or there is no socket to bind; Run stays set ...           *)
BindFails(t) ==
  /\ Goto(t, "listen", "ended")
  /\ \/ \E h \in Handle :
          socket[h] = Free /\ socket' = [socket EXCEPT ![h] = Lost]
     \/ UNCHANGED socket
  /\ server' = NoSocket
  /\ UNCHANGED <<gui, Run, LocalPort, pid, Motd_Loaded, on, O_lock>>

(* ... or has bound the socket and cannot listen: nobody closes the socket *)
(* that now has the port.                                                  *)
ListenFails(t) ==
  /\ Goto(t, "listen", "ended")
  /\ ~Taken(LocalPort)
  /\ \E h \in Handle :
       socket[h] = Free /\ socket' = [socket EXCEPT ![h] = Bound(LocalPort)]
  /\ server' = NoSocket
  /\ UNCHANGED <<gui, Run, LocalPort, pid, Motd_Loaded, on, O_lock>>

(* while (Run), and the call of accept.                                    *)
Loop(t) ==
  /\ Goto(t, "loop", IF Run = 1 THEN "accept" ELSE "ended")
  /\ on' = [on EXCEPT ![t] = IF Run = 1 THEN server ELSE NoSocket]
  /\ UNCHANGED <<gui, globals, socket, O_lock>>

Listening(h) == h \in Handle /\ socket[h] \in {Listener(p) : p \in Port}

WaitClient(t, h) ==
  /\ Goto(t, "accept", "addip")
  /\ Listening(on[t])
  /\ socket[h] = Free /\ socket' = [socket EXCEPT ![h] = Client]
  /\ on' = [on EXCEPT ![t] = NoSocket]
  /\ UNCHANGED <<gui, globals, O_lock>>

(* accept fails: the thread ends if it is to stop, and tries again if not. *)
WaitFails(t) ==
  /\ Goto(t, "accept", IF Run = 0 THEN "ended" ELSE "loop")
  /\ ~Listening(on[t])
  /\ on' = [on EXCEPT ![t] = NoSocket]
  /\ UNCHANGED <<gui, globals, socket, O_lock>>

(* addip puts the client on the list, once it has O_lock, and a thread is  *)
(* begun for it.                                                           *)
AddIp(t) ==
  /\ Goto(t, "addip", "loop")
  /\ O_lock = "free"
  /\ UNCHANGED <<gui, globals, on, socket, O_lock>>

-----------------------------------------------------------------------------
(* The threads of a connection, which no stop waits for: they connect to   *)
(* the remote server, which may fail and then leaves the socket behind,    *)
(* and close what they have; see Proxy.                                    *)
ConnectServer(h) ==
  /\ \E k \in Handle : socket[k] = Client
  /\ socket[h] = Free
  /\ \E s \in {Client, Lost} : socket' = [socket EXCEPT ![h] = s]
  /\ UNCHANGED <<gui, globals, at, on, O_lock>>

ClientCloses(h) ==
  /\ socket[h] = Client /\ socket' = [socket EXCEPT ![h] = Free]
  /\ UNCHANGED <<gui, globals, at, on, O_lock>>

(* A thread that a connection begins (DealClient, DealRemote, a sender) is *)
(* given the handle of the service thread that has ended, and ends itself. *)
HandleReused ==
  /\ Main_Pid # NoThread /\ at[Main_Pid] = "ended"
  /\ \E h \in Handle : socket[h] = Client
  /\ ~stranger /\ stranger' = TRUE
  /\ UNCHANGED <<gui, Run, server, LocalPort, Main_Pid, Motd_Loaded, at, on,
                 socket, O_lock>>

StrangerEnds ==
  /\ stranger /\ stranger' = FALSE
  /\ UNCHANGED <<gui, Run, server, LocalPort, Main_Pid, Motd_Loaded, at, on,
                 socket, O_lock>>

(* ShowPlayerInfo keeps O_lock for as long as its box is open, and that is *)
(* up to the user; the other holders of O_lock wait for nothing.           *)
ShowPlayerInfo ==
  /\ O_lock = "free" /\ O_lock' = "box"
  /\ UNCHANGED <<gui, globals, at, on, socket>>

BoxClosed ==
  /\ O_lock = "box" /\ O_lock' = "free"
  /\ UNCHANGED <<gui, globals, at, on, socket>>

Caller == CloseServer \/ WaitMainPid
Server(t) == \/ Test(t) \/ SetRun(t) \/ TestMotd(t) \/ LoadMotd(t) \/ Loop(t)
             \/ BindFails(t) \/ ListenFails(t) \/ WaitFails(t) \/ AddIp(t)
             \/ \E h \in Handle : Listen(t, h)

(* The user interface may leave the proxy as it is.                        *)
Rest == gui = "idle" /\ (\A t \in Thread : at[t] \notin Starting)
        /\ UNCHANGED vars

Next ==
  \/ \E t \in Thread, p \in Port : StartServer(t, p)
  \/ StopServer \/ Caller
  \/ \E t \in Thread : Server(t) \/ \E h \in Handle : WaitClient(t, h)
  \/ \E h \in Handle : ConnectServer(h) \/ ClientCloses(h)
  \/ HandleReused \/ StrangerEnds \/ ShowPlayerInfo \/ BoxClosed
  \/ Rest

(* Threads run.  One that waits for O_lock gets it if it is free again and *)
(* again, and a stop that waits for a stranger goes on when that one has   *)
(* ended.  Nobody has to close a box.  A thread that serves a connection   *)
(* ends some time after the connection has; how long a player stays is up  *)
(* to him.                                                                 *)
Fairness == /\ SF_vars(Caller)
            /\ \A t \in Thread : WF_vars(Server(t)) /\ SF_vars(AddIp(t))
            /\ WF_vars(StrangerEnds /\ \A h \in Handle : socket[h] # Client)

Spec == Init /\ [][Next]_vars /\ Fairness

-----------------------------------------------------------------------------
TypeOK ==
  /\ gui \in {"idle", "close", "join"}
  /\ Run \in {0, 1} /\ server \in Handle \union {NoSocket}
  /\ LocalPort \in Port \union {0} /\ Main_Pid \in Thread \union {NoThread}
  /\ stranger \in BOOLEAN
  /\ Motd_Loaded \in BOOLEAN
  /\ at \in [Thread -> {"none", "ended"} \union Starting \union Serving]
  /\ on \in [Thread -> Handle \union {NoSocket}]
  /\ socket \in [Handle -> {Free, Client, Lost} \union
                  {Listener(p) : p \in Port} \union {Bound(p) : p \in Port}]
  /\ O_lock \in {"free", "box"}

(* readme.txt:6: "calling this function again before the server has exited *)
(* returns 1", that is, never begins a second service thread beside one    *)
(* that has not ended.  The code lets an impatient caller do it: Run is    *)
(* tested at main.c:50 and set by the new thread at main.c:76.             *)
OneServiceThread ==
  [][\A t \in Thread : at[t] = "none" /\ at'[t] # "none"
       => \A u \in Thread : ~Alive(u)]_vars

(* readme.txt:13: StopServer "blocks until the service thread has exited": *)
(* all of them have, if its caller was patient.                            *)
StopWaitsForExit ==
  [][gui = "join" /\ gui' = "idle" => \A t \in Thread : ~Alive(t)]_vars

(* readme.txt:12: StopServer "does not disconnect existing clients": the   *)
(* handle it closes (main.c:43) is nobody's connection.  True for a        *)
(* patient caller; after a stop server keeps its value, and an impatient   *)
(* one can make the next stop close that handle before the new thread has  *)
(* stored its own.                                                         *)
StopKeepsClients ==
  [][gui = "close" /\ gui' = "join" =>
       \A h \in Handle : socket[h] = Client => socket'[h] = Client]_vars

(* readme.txt:9: StopServer "stops listening on the port".  Whenever no    *)
(* service thread is alive and no call is under way, a port is in the way  *)
(* of the next start only if listen failed on it after bind                *)
(* (websocket.c:74-77).  True for a patient caller; a stop between         *)
(* main.c:76 and 124 leaves the socket that is created after it listening. *)
PortReleased ==
  (\A t \in Thread : ~Alive(t)) /\ gui = "idle" =>
    \A p \in Port : Taken(p) => \E h \in Handle : socket[h] = Bound(p)

(* StopServer returns once the service thread has: it waits for no client  *)
(* to connect, and for no failed start.  It may wait for a stranger, and,  *)
(* through addip (main.c:154), for a box that is never closed.             *)
BoxesAreClosed == []<>(O_lock = "free")

StopReturns == BoxesAreClosed => (gui = "join" ~> gui = "idle" \/ stranger)

(* readme.txt:13: StopServer waits "for the service thread, not the        *)
(* threads that forward for clients, and generally not for long", also     *)
(* when every box is closed.                                               *)
StopIsQuick == BoxesAreClosed => (gui = "join" ~> gui = "idle")
=============================================================================
