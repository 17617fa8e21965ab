------------------------------- MODULE Proxy -------------------------------
(***************************************************************************)
(* The proxy while it listens: the accept loop of Server (main.c), one     *)
(* DealClient thread per connection (client.c), the online list they share *)
(* (online.c), and the user interface, which kicks players and shows who   *)
(* they are.  Socket handles are a finite pool of the operating system:    *)
(* closesocket returns a handle, and accept or connect may hand the same   *)
(* one out again at once, while the list still names its former owner.     *)
(*                                                                         *)
(* The functions of the list hold O_lock from their first line to their    *)
(* last, so each is one step that needs O_lock to be free.  ShowPlayerInfo *)
(* alone is two: it keeps O_lock while its message boxes are open.         *)
(*                                                                         *)
(* What a session does between its login and its end is in Session; here   *)
(* it is the phases "relay" and "join".  DealClient joins its threads      *)
(* through handles that _endthread has closed, and may so wait for a       *)
(* thread of somebody else.                                                *)
(***************************************************************************)
EXTENDS OnlineList, FiniteSets

CONSTANTS MaxConns, \* bound: the connections that are ever made
          None      \* no connection, no handle, no name

ASSUME ProxyAssumption == /\ MaxConns \in Nat /\ None \notin Handle
                          /\ NotLogin \notin Player

Conn == 1 .. MaxConns     \* in the order in which they are accepted

VARIABLES
  server,    \* control point of Server: "accept", "addip" or "begin"
  pending,   \* the connection Server is setting up, or None
  pc,        \* control point of each connection's DealClient
  csock,     \* client.sock of each connection
  rsock,     \* remoteserver.sock of each connection
  name,      \* username of each connection
  stranger,  \* the connections that wait for a thread that is not theirs
  owner,     \* operating system: what each handle is open for
  cut,       \* operating system: the socket is shut down, or its peer is gone
  kicked,    \* the socket was shut down by kickplayer
  online,    \* the list: head and what follows it
  OnlineNumber,
  O_lock     \* "free", or held by the "box" of ShowPlayerInfo

osVars == <<owner, cut, kicked>>
listVars == <<online, OnlineNumber, O_lock>>
connVars == <<pc, csock, rsock, name, stranger>>
vars == <<server, pending, connVars, osVars, listVars>>

Free == <<"free">>
Phases == {"new", "accepted", "login", "connect", "adduser", "relay",
           "join", "closeRemote", "closeClient", "removeip", "done"}

Init ==
  /\ server = "accept" /\ pending = None
  /\ pc = [c \in Conn |-> "new"]
  /\ csock = [c \in Conn |-> None] /\ rsock = [c \in Conn |-> None]
  /\ name = [c \in Conn |-> None] /\ stranger = {}
  /\ owner = [h \in Handle |-> Free]
  /\ cut = [h \in Handle |-> FALSE] /\ kicked = [h \in Handle |-> FALSE]
  /\ online = <<>> /\ OnlineNumber = 0 /\ O_lock = "free"

(* The operating system gives out a free handle, and takes one back.       *)
Open(h, who) ==
  /\ owner[h] = Free
  /\ owner' = [owner EXCEPT ![h] = who]
  /\ UNCHANGED <<cut, kicked>>

closesocket(h) ==
  /\ owner' = [owner EXCEPT ![h] = Free]
  /\ cut' = [cut EXCEPT ![h] = FALSE] /\ kicked' = [kicked EXCEPT ![h] = FALSE]

(* shutdown fails on any other.                                            *)
Connected(h) == owner[h] # Free /\ owner[h][1] # "lost"

(* The call holds the mutex and has released it when the step is over.     *)
Locked == O_lock = "free" /\ UNCHANGED O_lock

Goto(c, from, to) == pc[c] = from /\ pc' = [pc EXCEPT ![c] = to]

-----------------------------------------------------------------------------
(* Mistakes.  Each is an action below with something left out or wrong;    *)
(* TLC finds the property named violated if it takes the action's place.   *)

WaitClientUnfilled(c, h) ==  \* TypeOK
  /\ server = "accept" /\ Goto(c, "new", "accepted")
  /\ Open(h, <<"client", c>>)
  /\ server' = "addip" /\ pending' = c
  /\ UNCHANGED <<csock, rsock, name, stranger, listVars>>

NoServerEnds(c) ==           \* EveryEntryWillGo
  /\ Goto(c, "connect", "done")
  /\ UNCHANGED <<server, pending, csock, rsock, name, stranger, osVars, listVars>>

NoServerClosesTwice(c) ==    \* OwnsItsHandles
  /\ Goto(c, "connect", "closeClient") /\ closesocket(csock[c])
  /\ UNCHANGED <<server, pending, csock, rsock, name, stranger, listVars>>

RelayIgnoresClient(c) ==     \* KickDisconnects
  /\ Goto(c, "relay", "join") /\ cut[rsock[c]]
  /\ UNCHANGED <<server, pending, csock, rsock, name, stranger, osVars, listVars>>

-----------------------------------------------------------------------------
(* Server: accept, addip, _beginthread.                                    *)

WaitClient(c, h) ==
  /\ server = "accept" /\ Goto(c, "new", "accepted")
  /\ \A d \in 1 .. (c - 1) : pc[d] # "new"
  /\ Open(h, <<"client", c>>)
  /\ csock' = [csock EXCEPT ![c] = h]
  /\ server' = "addip" /\ pending' = c
  /\ UNCHANGED <<rsock, name, stranger, listVars>>

addip ==
  /\ server = "addip" /\ server' = "begin" /\ Locked
  /\ online' = AddIp(online, csock[pending])
  /\ UNCHANGED <<pending, OnlineNumber, connVars, osVars>>

BeginDealClient ==
  /\ server = "begin" /\ server' = "accept"
  /\ Goto(pending, "accepted", "login") /\ pending' = None
  /\ UNCHANGED <<csock, rsock, name, stranger, osVars, listVars>>

-----------------------------------------------------------------------------
(* DealClient.                                                             *)

(* The connection ends before a login is accepted: a bad or missing        *)
(* handshake, a status query, or CL_Check turns the player away.           *)
Reject(c) ==
  /\ Goto(c, "login", "closeClient")
  /\ UNCHANGED <<server, pending, csock, rsock, name, stranger, osVars, listVars>>

Accept(c, p) ==
  /\ Goto(c, "login", "connect")
  /\ name' = [name EXCEPT ![c] = p]
  /\ UNCHANGED <<server, pending, csock, rsock, stranger, osVars, listVars>>

ConnectServer(c, h) ==
  /\ Goto(c, "connect", "adduser")
  /\ Open(h, <<"remote", c>>)
  /\ rsock' = [rsock EXCEPT ![c] = h]
  /\ UNCHANGED <<server, pending, csock, name, stranger, listVars>>

(* The remote server is unknown, or there are no more sockets.             *)
NoServer(c) ==
  /\ Goto(c, "connect", "closeClient")
  /\ UNCHANGED <<server, pending, csock, rsock, name, stranger, osVars, listVars>>

(* connect fails; nobody closes the socket it was called on.               *)
ConnectFails(c, h) ==
  /\ Goto(c, "connect", "closeClient")
  /\ Open(h, <<"lost", c>>)
  /\ UNCHANGED <<server, pending, csock, rsock, name, stranger, listVars>>

adduser(c) ==
  /\ Goto(c, "adduser", "relay") /\ Locked
  /\ online' = AddUser(online, csock[c], name[c])
  /\ OnlineNumber' = OnlineNumber + AddUserCounts(online, csock[c])
  /\ UNCHANGED <<server, pending, csock, rsock, name, stranger, osVars>>

(* One of the two relays has noticed the end of a socket, and both sockets *)
(* are shut down.                                                          *)
RelayEnds(c) ==
  /\ Goto(c, "relay", "join")
  /\ cut[csock[c]] \/ cut[rsock[c]]
  /\ cut' = [cut EXCEPT ![csock[c]] = TRUE, ![rsock[c]] = TRUE]
  /\ UNCHANGED <<server, pending, csock, rsock, name, stranger, owner, kicked,
                 listVars>>

(* The waits for the sender and for DealRemote, which have ended or will;  *)
(* a handle that was closed and given out again means another thread.      *)
Join(c) ==
  /\ Goto(c, "join", "closeRemote")
  /\ c \notin stranger
  /\ UNCHANGED <<server, pending, csock, rsock, name, stranger, osVars, listVars>>

CloseRemote(c) ==
  /\ Goto(c, "closeRemote", "closeClient")
  /\ closesocket(rsock[c])
  /\ rsock' = [rsock EXCEPT ![c] = None]
  /\ UNCHANGED <<server, pending, csock, name, stranger, listVars>>

(* The client's socket is closed first and taken off the list afterwards.  *)
CloseClient(c) ==
  /\ Goto(c, "closeClient", "removeip")
  /\ closesocket(csock[c])
  /\ name' = [name EXCEPT ![c] = None]
  /\ UNCHANGED <<server, pending, csock, rsock, stranger, listVars>>

removeip(c) ==
  /\ Goto(c, "removeip", "done") /\ Locked
  /\ online' = RemoveIp(online, csock[c])
  /\ OnlineNumber' = OnlineNumber - RemoveIpCounts(online, csock[c])
  /\ UNCHANGED <<server, pending, csock, rsock, name, stranger, osVars>>

-----------------------------------------------------------------------------
(* A peer goes away; the user kicks a player, or has one shown.            *)
PeerGone(h) ==
  /\ Connected(h) /\ ~cut[h]
  /\ cut' = [cut EXCEPT ![h] = TRUE]
  /\ UNCHANGED <<server, pending, owner, kicked, connVars, listVars>>

kickplayer(p) ==
  LET hit == {h \in Sought(online, p) : Connected(h)}
  IN  /\ O_lock = "free" /\ hit # {}
      /\ cut'    = [h \in Handle |-> cut[h] \/ h \in hit]
      /\ kicked' = [h \in Handle |-> kicked[h] \/ h \in hit]
      /\ UNCHANGED <<server, pending, owner, connVars, listVars>>

(* It opens a box for every entry of the name, or one that says that there *)
(* is none.                                                                *)
ShowPlayerInfo ==
  /\ O_lock = "free" /\ O_lock' = "box"
  /\ UNCHANGED <<server, pending, connVars, osVars, online, OnlineNumber>>

BoxClosed ==
  /\ O_lock = "box" /\ O_lock' = "free"
  /\ UNCHANGED <<server, pending, connVars, osVars, online, OnlineNumber>>

(* The handle that DealClient waits for is given out again; the thread     *)
(* that has it by then may end.                                            *)
HandleReused(c) ==
  /\ pc[c] = "join" /\ c \notin stranger
  /\ stranger' = stranger \union {c}
  /\ UNCHANGED <<server, pending, pc, csock, rsock, name, osVars, listVars>>

StrangerEnds(c) ==
  /\ c \in stranger /\ stranger' = stranger \ {c}
  /\ UNCHANGED <<server, pending, pc, csock, rsock, name, osVars, listVars>>

DealClient(c) ==
  \/ Reject(c) \/ NoServer(c) \/ adduser(c) \/ RelayEnds(c) \/ Join(c)
  \/ CloseRemote(c) \/ CloseClient(c) \/ removeip(c)
  \/ \E p \in Player : Accept(c, p)
  \/ \E h \in Handle : ConnectServer(c, h) \/ ConnectFails(c, h)

(* Nobody connects any more: the accept loop waits.                        *)
Waiting == server = "accept" /\ (\A c \in Conn : pc[c] \in {"new", "done"})
           /\ UNCHANGED vars

Next ==
  \/ \E c \in Conn, h \in Handle : WaitClient(c, h)
  \/ addip \/ BeginDealClient
  \/ \E c \in Conn : DealClient(c) \/ HandleReused(c) \/ StrangerEnds(c)
  \/ \E h \in Handle : PeerGone(h)
  \/ \E p \in Player : kickplayer(p)
  \/ ShowPlayerInfo \/ BoxClosed \/ Waiting

(* Threads run once they have something to do, and the system serves those *)
(* who wait for a mutex in turn.  What a client sends while it logs in,    *)
(* when it leaves, when the user closes a box, and how long a stranger     *)
(* lives, is up to them.  A relay ends once its client has gone, if the    *)
(* remote server reads what it is sent (ClientGoneEnds of Session); when   *)
(* only the server has gone it may go on for ever (sending.c:33).          *)
Fairness ==
  /\ SF_vars(addip) /\ WF_vars(BeginDealClient)
  /\ \A c \in Conn :
       SF_vars(DealClient(c) /\ (pc[c] \in {"login", "relay"} => cut[csock[c]]))

Spec == Init /\ [][Next]_vars /\ Fairness

-----------------------------------------------------------------------------
TypeOK ==
  /\ server \in {"accept", "addip", "begin"} /\ pending \in Conn \union {None}
  /\ pc \in [Conn -> Phases]
  /\ csock \in [Conn -> Handle \union {None}]
  /\ rsock \in [Conn -> Handle \union {None}]
  /\ name \in [Conn -> Player \union {None}] /\ stranger \in SUBSET Conn
  /\ owner \in [Handle -> {Free} \union ({"client", "remote", "lost"} \X Conn)]
  /\ cut \in [Handle -> BOOLEAN] /\ kicked \in [Handle -> BOOLEAN]
  /\ online \in Seq(Entry) /\ OnlineNumber \in Int /\ O_lock \in {"free", "box"}

Listed == {"login", "connect", "adduser", "relay", "join", "closeRemote",
           "closeClient", "removeip"}

(* The list has at most one entry per socket, so that removeip, which      *)
(* stops at the first, leaves none behind.                                 *)
OneEntryPerSocket ==
  \A i, j \in DOMAIN online : online[i].sock = online[j].sock => i = j

(* No ghosts: every entry has a connection that will still call removeip   *)
(* for its socket, however handles were reused in between.                 *)
EveryEntryWillGo ==
  \A i \in DOMAIN online : \E c \in Conn :
    /\ csock[c] = online[i].sock
    /\ pc[c] \in Listed \/ (c = pending /\ server = "begin")

(* A connection whose handle was never anybody else's is on the list, from *)
(* addip to removeip, under its player's name once adduser was called.     *)
(* Adding, naming and removing others never loses or renames it.           *)
OnlineUnlessHandleShared ==
  \A c \in Conn :
    (pc[c] \in Listed /\ \A d \in Conn \ {c} : csock[d] # csock[c])
      => \E i \in DOMAIN online :
           online[i] = [sock |-> csock[c],
                        username |-> IF pc[c] \in {"relay", "join", "closeRemote"}
                                       THEN name[c] ELSE online[i].username]

(* A thread sends on, receives from and closes only handles that are open  *)
(* for its own connection: nothing is closed twice.                        *)
OwnsItsHandles ==
  \A c \in Conn :
    /\ pc[c] \in (Listed \ {"removeip"}) \union {"accepted"}
         => owner[csock[c]] = <<"client", c>>
    /\ pc[c] \in {"adduser", "relay", "join", "closeRemote"}
         => owner[rsock[c]] = <<"remote", c>>

(* Whoever's socket is shut down by a kick is disconnected and taken off   *)
(* the list, and whoever has been accepted gets a thread, if only the user *)
(* closes each message box, for which all of them wait (online.c:48); and  *)
(* the kicked, if DealClient does not wait for ever for a thread that is   *)
(* not its own (client.c:212-213).  Besides, the remote server must read   *)
(* (Fairness), and a connection that is still logging in must get the      *)
(* mutex of the login lists, which is in CheckLogin and not here.          *)
Kicked(c) == \E h \in Handle : kicked[h] /\ owner[h] = <<"client", c>>

KickDisconnects ==
  \A c \in Conn :
    []<>(O_lock = "free") =>
      /\ []<>(c \notin stranger) => (Kicked(c) ~> pc[c] = "done")
      /\ pc[c] = "accepted" ~> pc[c] # "accepted"

(* What online.c:150 and online.c:226 say of an empty list: "no player is  *)
(* online at the moment".                                                  *)
EmptyMeansNobody == online = <<>> => OnlineNumber = 0

(* What the log line of online.c:110 says: the connection closed by a kick *)
(* is that of the player the entry names.                                  *)
KickHitsThePlayer ==
  [][\A h \in Handle : kicked'[h] /\ ~kicked[h] =>
       \E c \in Conn : /\ owner[h] = <<"client", c>>
                       /\ online[Find(online, h)].username = name[c]]_vars
=============================================================================
