---------------------------- MODULE ProxyProofs ----------------------------
(***************************************************************************)
(* Proofs about Proxy, for any number of connections, handles and players. *)
(*                                                                         *)
(* The five invariants need each other: the search of removeip finds the   *)
(* right entry because there is one per socket, an entry keeps the         *)
(* connection it waits for because csock never changes once it is set, and *)
(* a handle that is given out again cannot be one that somebody still      *)
(* owns.  OnList is OnlineUnlessHandleShared from the step in which addip  *)
(* has run, before there is a thread.                                      *)
(***************************************************************************)
EXTENDS Proxy, ListProofs

-----------------------------------------------------------------------------
(* What the operators of OnlineList do to a list of any length that has    *)
(* one entry per socket: which entries the result has, and that it has one *)
(* entry per socket again.                                                 *)
OnePerSocket(list) ==
  \A i, j \in DOMAIN list : list[i].sock = list[j].sock => i = j

OnlineLists == {list \in Seq(Entry) : OnePerSocket(list)}

-----------------------------------------------------------------------------
(* The search finds the entry if there is one; it does not matter that it  *)
(* stops at the first, because there is no other.                          *)
LEMMA FindFinds ==
  ASSUME NEW list \in OnlineLists, NEW i \in DOMAIN list
  PROVE  Find(list, list[i].sock) = i
<1> DEFINE I == {j \in 1 .. Len(list) : list[j].sock = list[i].sock}
<1>1. DOMAIN list = 1 .. Len(list)
  BY LenProperties DEF OnlineLists
<1>2. I = {i}
  BY <1>1, SMT DEF OnlineLists, OnePerSocket
<1>3. Min(I) = i
  BY <1>2, <1>1, SMT DEF Min
<1> QED
  BY <1>2, <1>3, Zenon DEF Find, SelectInSeq

(* addip leaves every entry and adds one for the socket if it has none.    *)
LEMMA AddIpAdds ==
  ASSUME NEW list \in OnlineLists, NEW h \in Handle
  PROVE  /\ AddIp(list, h) \in OnlineLists
         /\ Range(AddIp(list, h)) =
              Range(list) \union
                IF h \in Socks(list) THEN {}
                ELSE {[sock |-> h, username |-> NotLogin]}
<1>1. CASE h \in Socks(list)
  BY <1>1, SMT DEF AddIp
<1>2. CASE h \notin Socks(list)
  <2> DEFINE e == [sock |-> h, username |-> NotLogin]
             new == Cons(e, list)
  <2>1. e \in Entry /\ list \in Seq(Entry) /\ e.sock = h
    BY DEF Entry, OnlineLists
  <2>2. Len(list) \in Nat /\ DOMAIN list = 1 .. Len(list)
    BY <2>1, LenProperties
  <2>3. /\ new \in Seq(Entry) /\ DOMAIN new = 1 .. Len(list) + 1
        /\ \A i \in 1 .. Len(list) + 1 : new[i] = IF i = 1 THEN e ELSE list[i - 1]
    BY <2>1, ConsAdds
  <2>4. Range(new) = {e} \union Range(list)
    BY <2>1, ConsElements
  <2> HIDE DEF new, e
  <2>5. \A i, j \in DOMAIN new : new[i].sock = new[j].sock => i = j
    <3>1. \A k \in 1 .. Len(list) : list[k].sock # h
      BY <1>2, <2>2 DEF Socks
    <3>2. \A i, j \in 1 .. Len(list) : list[i].sock = list[j].sock => i = j
      BY <2>2 DEF OnlineLists, OnePerSocket
    <3> QED
      BY <2>1, <2>2, <2>3, <3>1, <3>2, SMTT(20)
  <2> QED
    BY <1>2, <2>3, <2>4, <2>5, Zenon DEF AddIp, OnlineLists, OnePerSocket, new, e
<1> QED
  BY <1>1, <1>2

(* adduser names the entry of the socket and leaves all others.            *)
LEMMA AddUserNames ==
  ASSUME NEW list \in OnlineLists, NEW h \in Handle, NEW p \in Player
  PROVE  /\ AddUser(list, h, p) \in OnlineLists
         /\ DOMAIN AddUser(list, h, p) = DOMAIN list
         /\ \A i \in DOMAIN list :
              AddUser(list, h, p)[i] =
                IF list[i].sock = h THEN [sock |-> h, username |-> p] ELSE list[i]
<1>0. list \in Seq(Entry) /\ DOMAIN list = 1 .. Len(list)
  BY LenProperties DEF OnlineLists
<1>1. CASE h \notin Socks(list)
  BY <1>0, <1>1 DEF AddUser, Socks
<1>2. CASE h \in Socks(list)
  <2>1. PICK k \in DOMAIN list : list[k].sock = h
    BY <1>2 DEF Socks
  <2>2. list[k] \in Entry
    BY <1>0, ElementOfSeq
  <2> DEFINE e == [list[k] EXCEPT !.username = p]
  <2>3. e \in Entry /\ e = [sock |-> h, username |-> p]
    BY <2>1, <2>2 DEF Entry
  <2>4. AddUser(list, h, p) = [list EXCEPT ![k] = e]
    BY <1>2, <2>1, FindFinds DEF AddUser
  <2> HIDE DEF e
  <2>5. /\ [list EXCEPT ![k] = e] \in Seq(Entry)
        /\ DOMAIN [list EXCEPT ![k] = e] = DOMAIN list
        /\ \A i \in DOMAIN list :
             [list EXCEPT ![k] = e][i] = IF i = k THEN e ELSE list[i]
    BY <1>0, <2>3, ExceptSeq
  <2>6. \A i \in DOMAIN list : i = k <=> list[i].sock = h
    BY <2>1 DEF OnlineLists, OnePerSocket
  <2>7. e.sock = h
    BY <2>3
  <2> QED
    BY <2>3, <2>4, <2>5, <2>6, <2>7, SMTT(20) DEF OnlineLists, OnePerSocket
<1> QED
  BY <1>1, <1>2

(* removeip takes the entry of the socket away and leaves all others.      *)
LEMMA RemoveIpRemoves ==
  ASSUME NEW list \in OnlineLists, NEW h \in Handle
  PROVE  /\ RemoveIp(list, h) \in OnlineLists
         /\ Range(RemoveIp(list, h)) = {e \in Range(list) : e.sock # h}
<1>0. /\ list \in Seq(Entry) /\ DOMAIN list = 1 .. Len(list) /\ Len(list) \in Nat
      /\ \A i, j \in DOMAIN list : list[i].sock = list[j].sock => i = j
  BY LenProperties DEF OnlineLists, OnePerSocket
<1>1. CASE h \notin Socks(list)
  BY <1>1 DEF RemoveIp, Socks, Range
<1>2. CASE h \in Socks(list)
  <2>1. PICK k \in DOMAIN list : list[k].sock = h
    BY <1>2 DEF Socks
  <2> DEFINE new == RemoveAt(list, k)
  <2>2. RemoveIp(list, h) = new
    BY <1>2, <2>1, FindFinds DEF RemoveIp
  <2>3. /\ new \in Seq(Entry) /\ DOMAIN new = 1 .. Len(list) - 1
        /\ \A i \in 1 .. Len(list) - 1 :
             new[i] = IF i < k THEN list[i] ELSE list[i + 1]
    BY <1>0, RemoveAtRemoves
  <2>4. Range(new) = {list[i] : i \in DOMAIN list \ {k}}
    BY <1>0, RemoveAtElements
  <2> HIDE DEF new
  <2>5. \A i, j \in DOMAIN new : new[i].sock = new[j].sock => i = j
    BY <1>0, <2>3, SMTT(20)
  <2>6. {list[i] : i \in DOMAIN list \ {k}} = {e \in Range(list) : e.sock # h}
    BY <1>0, <2>1 DEF Range
  <2> QED
    BY <2>2, <2>3, <2>4, <2>5, <2>6, Zenon DEF OnlineLists, OnePerSocket
<1> QED
  BY <1>1, <1>2

-----------------------------------------------------------------------------
(* The invariant.                                                          *)

(* Server is at work on the one connection that is accepted and has no     *)
(* thread.                                                                 *)
SettingUp ==
  /\ server # "accept" => pending \in Conn /\ pc[pending] = "accepted"
  /\ \A c \in Conn : pc[c] = "accepted" => server # "accept" /\ c = pending

(* What a connection has at each point.                                    *)
Equipped ==
  \A c \in Conn :
    /\ csock[c] = None <=> pc[c] = "new"
    /\ pc[c] \in {"adduser", "relay", "join", "closeRemote"} => rsock[c] \in Handle
    /\ pc[c] \in {"connect", "adduser", "relay", "join", "closeRemote"} => name[c] \in Player

(* addip has put the connection on the list; removeip has not run for it.  *)
Present(c) == pc[c] \in Listed \/ (c = pending /\ server = "begin")

Alone(c) == \A d \in Conn \ {c} : csock[d] # csock[c]

NoGhosts ==
  \A e \in Range(online) : \E c \in Conn : csock[c] = e.sock /\ Present(c)

OnList ==
  \A c \in Conn : Present(c) /\ Alone(c) =>
    \E e \in Range(online) :
      /\ e.sock = csock[c]
      /\ pc[c] \in {"relay", "join", "closeRemote"} => e.username = name[c]

IInv == /\ TypeOK /\ OneEntryPerSocket /\ SettingUp /\ Equipped
        /\ OwnsItsHandles /\ NoGhosts /\ OnList

-----------------------------------------------------------------------------
LEMMA InitIInv == Init => IInv
<1> SUFFICES ASSUME Init PROVE IInv
  OBVIOUS
<1> USE ProxyAssumption DEF Init
<1>1. online = <<>> /\ <<>> \in Seq(Entry) /\ DOMAIN online = {}
  OBVIOUS
<1>2. TypeOK
  BY <1>1, SMTT(20) DEF TypeOK, Phases
<1>3. OneEntryPerSocket /\ NoGhosts
  BY <1>1 DEF OneEntryPerSocket, NoGhosts, Range
<1>4. SettingUp /\ Equipped /\ OwnsItsHandles /\ OnList
  BY SMTT(20) DEF SettingUp, Equipped, OwnsItsHandles, OnList, Present, Listed
<1> QED
  BY <1>2, <1>3, <1>4 DEF IInv

(* The control points and what belongs to them.                            *)
LEMMA NextControl == IInv /\ [Next]_vars => SettingUp' /\ Equipped'
<1>0. SUFFICES ASSUME IInv, [Next]_vars PROVE SettingUp' /\ Equipped'
  OBVIOUS
<1> USE ProxyAssumption
    DEF IInv, TypeOK, SettingUp, Equipped, Goto, osVars, connVars, listVars
<1>1. ASSUME NEW c \in Conn, NEW h \in Handle, WaitClient(c, h) PROVE SettingUp' /\ Equipped'
  BY <1>0, <1>1, SMTT(20) DEF WaitClient, Open
<1>2. CASE addip
  BY <1>0, <1>2, SMTT(20) DEF addip, Locked
<1>3. CASE BeginDealClient
  BY <1>0, <1>3, SMTT(20) DEF BeginDealClient
<1>4. ASSUME NEW c \in Conn, Reject(c) \/ NoServer(c) PROVE SettingUp' /\ Equipped'
  BY <1>0, <1>4, SMTT(20) DEF Reject, NoServer
<1>5. ASSUME NEW c \in Conn, NEW p \in Player, Accept(c, p) PROVE SettingUp' /\ Equipped'
  BY <1>0, <1>5, SMTT(20) DEF Accept
<1>6. ASSUME NEW c \in Conn, NEW h \in Handle, ConnectServer(c, h) PROVE SettingUp' /\ Equipped'
  BY <1>0, <1>6, SMTT(20) DEF ConnectServer, Open
<1>7. ASSUME NEW c \in Conn, NEW h \in Handle, ConnectFails(c, h) PROVE SettingUp' /\ Equipped'
  BY <1>0, <1>7, SMTT(20) DEF ConnectFails, Open
<1>8. ASSUME NEW c \in Conn, adduser(c) PROVE SettingUp' /\ Equipped'
  BY <1>0, <1>8, SMTT(20) DEF adduser, Locked
<1>9. ASSUME NEW c \in Conn, RelayEnds(c) PROVE SettingUp' /\ Equipped'
  BY <1>0, <1>9, SMTT(20) DEF RelayEnds
<1>join. ASSUME NEW c \in Conn, Join(c) PROVE SettingUp' /\ Equipped'
  BY <1>0, <1>join, SMTT(20) DEF Join
<1>handle. ASSUME NEW c \in Conn, HandleReused(c) \/ StrangerEnds(c)
      PROVE  SettingUp' /\ Equipped'
  BY <1>0, <1>handle, SMTT(20) DEF HandleReused, StrangerEnds
<1>10. ASSUME NEW c \in Conn, CloseRemote(c) PROVE SettingUp' /\ Equipped'
  BY <1>0, <1>10, SMTT(20) DEF CloseRemote, closesocket
<1>11. ASSUME NEW c \in Conn, CloseClient(c) PROVE SettingUp' /\ Equipped'
  BY <1>0, <1>11, SMTT(20) DEF CloseClient, closesocket
<1>12. ASSUME NEW c \in Conn, removeip(c) PROVE SettingUp' /\ Equipped'
  BY <1>0, <1>12, SMTT(20) DEF removeip, Locked
<1>13. ASSUME NEW h \in Handle, PeerGone(h) PROVE SettingUp' /\ Equipped'
  BY <1>0, <1>13, SMTT(20) DEF PeerGone
<1>14. ASSUME NEW p \in Player, kickplayer(p) PROVE SettingUp' /\ Equipped'
  BY <1>0, <1>14, SMTT(20) DEF kickplayer
<1>15. CASE ShowPlayerInfo \/ BoxClosed
  BY <1>0, <1>15, SMTT(20) DEF ShowPlayerInfo, BoxClosed
<1>16. CASE Waiting \/ UNCHANGED vars
  BY <1>0, <1>16, SMTT(20) DEF Waiting, vars
<1> QED
  BY <1>0, <1>1, <1>2, <1>3, <1>4, <1>5, <1>6, <1>7, <1>8, <1>9, <1>10, <1>11,
     <1>12, <1>13, <1>14, <1>15, <1>16, <1>join, <1>handle DEF Next, DealClient

(* A handle that is given out is nobody's, one that is closed is one's own. *)
LEMMA NextOwns == IInv /\ [Next]_vars => OwnsItsHandles'
<1>0. SUFFICES ASSUME IInv, [Next]_vars PROVE OwnsItsHandles'
  OBVIOUS
<1> USE ProxyAssumption
    DEF IInv, TypeOK, SettingUp, Equipped, OwnsItsHandles, Listed, Free, Goto,
        osVars, connVars, listVars
<1>1. ASSUME NEW c \in Conn, NEW h \in Handle, WaitClient(c, h) PROVE OwnsItsHandles'
  BY <1>0, <1>1, SMTT(20) DEF WaitClient, Open
<1>2. CASE addip
  BY <1>0, <1>2, SMTT(20) DEF addip, Locked
<1>3. CASE BeginDealClient
  BY <1>0, <1>3, SMTT(20) DEF BeginDealClient
<1>4. ASSUME NEW c \in Conn, Reject(c) \/ NoServer(c) PROVE OwnsItsHandles'
  BY <1>0, <1>4, SMTT(20) DEF Reject, NoServer
<1>5. ASSUME NEW c \in Conn, NEW p \in Player, Accept(c, p) PROVE OwnsItsHandles'
  BY <1>0, <1>5, SMTT(20) DEF Accept
<1>6. ASSUME NEW c \in Conn, NEW h \in Handle, ConnectServer(c, h) PROVE OwnsItsHandles'
  BY <1>0, <1>6, SMTT(20) DEF ConnectServer, Open
<1>7. ASSUME NEW c \in Conn, NEW h \in Handle, ConnectFails(c, h) PROVE OwnsItsHandles'
  BY <1>0, <1>7, SMTT(20) DEF ConnectFails, Open
<1>8. ASSUME NEW c \in Conn, adduser(c) PROVE OwnsItsHandles'
  BY <1>0, <1>8, SMTT(20) DEF adduser, Locked
<1>9. ASSUME NEW c \in Conn, RelayEnds(c) PROVE OwnsItsHandles'
  BY <1>0, <1>9, SMTT(20) DEF RelayEnds
<1>join. ASSUME NEW c \in Conn, Join(c) PROVE OwnsItsHandles'
  BY <1>0, <1>join, SMTT(20) DEF Join
<1>handle. ASSUME NEW c \in Conn, HandleReused(c) \/ StrangerEnds(c)
      PROVE  OwnsItsHandles'
  BY <1>0, <1>handle, SMTT(20) DEF HandleReused, StrangerEnds
<1>10. ASSUME NEW c \in Conn, CloseRemote(c) PROVE OwnsItsHandles'
  BY <1>0, <1>10, SMTT(20) DEF CloseRemote, closesocket
<1>11. ASSUME NEW c \in Conn, CloseClient(c) PROVE OwnsItsHandles'
  BY <1>0, <1>11, SMTT(20) DEF CloseClient, closesocket
<1>12. ASSUME NEW c \in Conn, removeip(c) PROVE OwnsItsHandles'
  BY <1>0, <1>12, SMTT(20) DEF removeip, Locked
<1>13. ASSUME NEW h \in Handle, PeerGone(h) PROVE OwnsItsHandles'
  BY <1>0, <1>13, SMTT(20) DEF PeerGone
<1>14. ASSUME NEW p \in Player, kickplayer(p) PROVE OwnsItsHandles'
  BY <1>0, <1>14, SMTT(20) DEF kickplayer
<1>15. CASE ShowPlayerInfo \/ BoxClosed
  BY <1>0, <1>15, SMTT(20) DEF ShowPlayerInfo, BoxClosed
<1>16. CASE Waiting \/ UNCHANGED vars
  BY <1>0, <1>16, SMTT(20) DEF Waiting, vars
<1> QED
  BY <1>0, <1>1, <1>2, <1>3, <1>4, <1>5, <1>6, <1>7, <1>8, <1>9, <1>10, <1>11,
     <1>12, <1>13, <1>14, <1>15, <1>16, <1>join, <1>handle DEF Next, DealClient

(* The list stays a list of entries with one per socket.                   *)
LEMMA OnlineIsAList == IInv => online \in OnlineLists
BY DEF IInv, TypeOK, OneEntryPerSocket, OnlineLists, OnePerSocket

LEMMA NextTypes == IInv /\ [Next]_vars => TypeOK' /\ OneEntryPerSocket'
<1>0. SUFFICES ASSUME IInv, [Next]_vars PROVE TypeOK' /\ OneEntryPerSocket'
  OBVIOUS
<1> DEFINE Rest == /\ server' \in {"accept", "addip", "begin"}
                   /\ pending' \in Conn \union {None}
                   /\ pc' \in [Conn -> Phases]
                   /\ csock' \in [Conn -> Handle \union {None}]
                   /\ rsock' \in [Conn -> Handle \union {None}]
                   /\ name' \in [Conn -> Player \union {None}]
                   /\ stranger' \in SUBSET Conn
                   /\ owner' \in [Handle -> {Free} \union
                                  ({"client", "remote", "lost"} \X Conn)]
                   /\ cut' \in [Handle -> BOOLEAN]
                   /\ kicked' \in [Handle -> BOOLEAN]
                   /\ O_lock' \in {"free", "box"}
           List == online' \in OnlineLists /\ OnlineNumber' \in Int
<1>a. Rest /\ List => TypeOK' /\ OneEntryPerSocket'
  BY DEF TypeOK, OneEntryPerSocket, OnlineLists, OnePerSocket
<1>b. UNCHANGED <<online, OnlineNumber>> => List
  BY <1>0, OnlineIsAList DEF IInv, TypeOK
<1> USE ProxyAssumption
    DEF IInv, TypeOK, SettingUp, Equipped, Goto, Phases, osVars, connVars, listVars
<1>1. ASSUME NEW c \in Conn, NEW h \in Handle, WaitClient(c, h) PROVE TypeOK' /\ OneEntryPerSocket'
  <2>1. Rest
    BY <1>0, <1>1, SMTT(20) DEF WaitClient, Open
  <2>2. List
    BY <1>b, <1>1 DEF WaitClient, Open
  <2> QED
    BY <1>a, <2>1, <2>2
<1>2. CASE addip
  <2>1. Rest
    BY <1>0, <1>2, SMTT(20) DEF addip, Locked
  <2>2. online' = AddIp(online, csock[pending]) /\ csock[pending] \in Handle
    BY <1>0, <1>2, SMT DEF addip
  <2>3. List
    BY <1>0, <1>2, <2>2, OnlineIsAList, AddIpAdds DEF addip
  <2> QED
    BY <1>a, <2>1, <2>3
<1>3. CASE BeginDealClient
  <2>1. Rest
    BY <1>0, <1>3, SMTT(20) DEF BeginDealClient
  <2>2. List
    BY <1>b, <1>3 DEF BeginDealClient
  <2> QED
    BY <1>a, <2>1, <2>2
<1>4. ASSUME NEW c \in Conn, Reject(c) \/ NoServer(c) PROVE TypeOK' /\ OneEntryPerSocket'
  <2>1. Rest
    BY <1>0, <1>4, SMTT(20) DEF Reject, NoServer
  <2>2. List
    BY <1>b, <1>4 DEF Reject, NoServer
  <2> QED
    BY <1>a, <2>1, <2>2
<1>5. ASSUME NEW c \in Conn, NEW p \in Player, Accept(c, p) PROVE TypeOK' /\ OneEntryPerSocket'
  <2>1. Rest
    BY <1>0, <1>5, SMTT(20) DEF Accept
  <2>2. List
    BY <1>b, <1>5 DEF Accept
  <2> QED
    BY <1>a, <2>1, <2>2
<1>6. ASSUME NEW c \in Conn, NEW h \in Handle, ConnectServer(c, h) PROVE TypeOK' /\ OneEntryPerSocket'
  <2>1. Rest
    BY <1>0, <1>6, SMTT(20) DEF ConnectServer, Open
  <2>2. List
    BY <1>b, <1>6 DEF ConnectServer, Open
  <2> QED
    BY <1>a, <2>1, <2>2
<1>7. ASSUME NEW c \in Conn, NEW h \in Handle, ConnectFails(c, h) PROVE TypeOK' /\ OneEntryPerSocket'
  <2>1. Rest
    BY <1>0, <1>7, SMTT(20) DEF ConnectFails, Open
  <2>2. List
    BY <1>b, <1>7 DEF ConnectFails, Open
  <2> QED
    BY <1>a, <2>1, <2>2
<1>8. ASSUME NEW c \in Conn, adduser(c) PROVE TypeOK' /\ OneEntryPerSocket'
  <2>1. Rest
    BY <1>0, <1>8, SMTT(20) DEF adduser, Locked
  <2>2. online' = AddUser(online, csock[c], name[c])
    BY <1>8 DEF adduser
  <2>3. csock[c] \in Handle /\ name[c] \in Player
    BY <1>0, <1>8, SMT DEF adduser
  <2>4. OnlineNumber' \in Int
    BY <1>0, <1>8, SMT DEF adduser, AddUserCounts
  <2>5. List
    BY <1>0, <2>2, <2>3, <2>4, OnlineIsAList, AddUserNames
  <2> QED
    BY <1>a, <2>1, <2>5
<1>9. ASSUME NEW c \in Conn, RelayEnds(c) PROVE TypeOK' /\ OneEntryPerSocket'
  <2>1. Rest
    <3>1. cut' \in [Handle -> BOOLEAN]
      BY <1>0, <1>9 DEF RelayEnds
    <3>2. /\ pc' \in [Conn -> Phases]
          /\ UNCHANGED <<server, pending, csock, rsock, name, stranger, owner,
                        kicked, O_lock>>
      BY <1>0, <1>9, SMTT(20) DEF RelayEnds
    <3> QED
      BY <1>0, <3>1, <3>2
  <2>2. List
    BY <1>b, <1>9 DEF RelayEnds
  <2> QED
    BY <1>a, <2>1, <2>2
<1>join. ASSUME NEW c \in Conn, Join(c) PROVE TypeOK' /\ OneEntryPerSocket'
  <2>1. Rest
    BY <1>0, <1>join, SMTT(20) DEF Join
  <2>2. List
    BY <1>b, <1>join DEF Join
  <2> QED
    BY <1>a, <2>1, <2>2
<1>handle. ASSUME NEW c \in Conn, HandleReused(c) \/ StrangerEnds(c)
      PROVE  TypeOK' /\ OneEntryPerSocket'
  <2>1. Rest
    BY <1>0, <1>handle, SMTT(20) DEF HandleReused, StrangerEnds
  <2>2. List
    BY <1>b, <1>handle DEF HandleReused, StrangerEnds
  <2> QED
    BY <1>a, <2>1, <2>2
<1>10. ASSUME NEW c \in Conn, CloseRemote(c) PROVE TypeOK' /\ OneEntryPerSocket'
  <2>1. Rest
    BY <1>0, <1>10, SMTT(20) DEF CloseRemote, closesocket
  <2>2. List
    BY <1>b, <1>10 DEF CloseRemote, closesocket
  <2> QED
    BY <1>a, <2>1, <2>2
<1>11. ASSUME NEW c \in Conn, CloseClient(c) PROVE TypeOK' /\ OneEntryPerSocket'
  <2>1. Rest
    BY <1>0, <1>11, SMTT(20) DEF CloseClient, closesocket
  <2>2. List
    BY <1>b, <1>11 DEF CloseClient, closesocket
  <2> QED
    BY <1>a, <2>1, <2>2
<1>12. ASSUME NEW c \in Conn, removeip(c) PROVE TypeOK' /\ OneEntryPerSocket'
  <2>1. Rest
    BY <1>0, <1>12, SMTT(20) DEF removeip, Locked
  <2>2. online' = RemoveIp(online, csock[c])
    BY <1>12 DEF removeip
  <2>3. csock[c] \in Handle
    BY <1>0, <1>12, SMT DEF removeip
  <2>4. OnlineNumber' \in Int
    <3> DEFINE n == RemoveIpCounts(online, csock[c])
    <3>1. n \in {0, 1}
      BY DEF RemoveIpCounts
    <3>2. OnlineNumber' = OnlineNumber - n /\ OnlineNumber \in Int
      BY <1>0, <1>12 DEF removeip
    <3> QED
      BY <3>1, <3>2, SMT
  <2>5. List
    BY <1>0, <2>2, <2>3, <2>4, OnlineIsAList, RemoveIpRemoves
  <2> QED
    BY <1>a, <2>1, <2>5
<1>13. ASSUME NEW h \in Handle, PeerGone(h) PROVE TypeOK' /\ OneEntryPerSocket'
  <2>1. Rest
    BY <1>0, <1>13, SMTT(20) DEF PeerGone
  <2>2. List
    BY <1>b, <1>13 DEF PeerGone
  <2> QED
    BY <1>a, <2>1, <2>2
<1>14. ASSUME NEW p \in Player, kickplayer(p) PROVE TypeOK' /\ OneEntryPerSocket'
  <2>1. Rest
    BY <1>0, <1>14, SMTT(20) DEF kickplayer
  <2>2. List
    BY <1>b, <1>14 DEF kickplayer
  <2> QED
    BY <1>a, <2>1, <2>2
<1>15. CASE ShowPlayerInfo \/ BoxClosed
  <2>1. Rest
    BY <1>0, <1>15, SMTT(20) DEF ShowPlayerInfo, BoxClosed
  <2>2. List
    BY <1>b, <1>15 DEF ShowPlayerInfo, BoxClosed
  <2> QED
    BY <1>a, <2>1, <2>2
<1>16. CASE Waiting \/ UNCHANGED vars
  <2>1. Rest
    BY <1>0, <1>16, SMTT(20) DEF Waiting, vars
  <2>2. List
    BY <1>b, <1>16 DEF Waiting, vars
  <2> QED
    BY <1>a, <2>1, <2>2
<1> QED
  BY <1>0, <1>1, <1>2, <1>3, <1>4, <1>5, <1>6, <1>7, <1>8, <1>9, <1>10, <1>11,
     <1>12, <1>13, <1>14, <1>15, <1>16, <1>join, <1>handle DEF Next, DealClient

(* No step but removeip takes a connection away from the entry that waits  *)
(* for it, and removeip takes the entry as well.                           *)
LEMMA NextNoGhosts == IInv /\ [Next]_vars => NoGhosts'
<1>0. SUFFICES ASSUME IInv, [Next]_vars, NEW e \in Range(online)'
               PROVE  (\E c \in Conn : csock[c] = e.sock /\ Present(c))'
  BY DEF NoGhosts
<1> DEFINE Goal == (\E c \in Conn : csock[c] = e.sock /\ Present(c))'
<1>a. ASSUME online' = online,
             \A c \in Conn : Present(c) => csock'[c] = csock[c] /\ Present(c)'
      PROVE  Goal
  BY <1>0, <1>a DEF IInv, NoGhosts, Range
<1> USE ProxyAssumption
    DEF IInv, TypeOK, SettingUp, Equipped, Present, Listed, Goto, osVars,
        connVars, listVars
<1>1. ASSUME NEW c \in Conn, NEW h \in Handle, WaitClient(c, h) PROVE Goal
  BY <1>0, <1>a, <1>1, SMTT(20) DEF WaitClient, Open
<1>2. CASE addip
  <2>1. /\ online' = AddIp(online, csock[pending])
        /\ pending \in Conn /\ csock[pending] \in Handle
        /\ server' = "begin" /\ UNCHANGED <<pending, pc, csock>>
    BY <1>0, <1>2, SMT DEF addip
  <2>2. e \in Range(online) \/ e.sock = csock[pending]
    <3>1. Range(online') \subseteq
            Range(online) \union {[sock |-> csock[pending], username |-> NotLogin]}
      BY <1>0, <2>1, OnlineIsAList, AddIpAdds
    <3> QED
      BY <1>0, <3>1
  <2>3. CASE e.sock = csock[pending]
    BY <2>1, <2>3
  <2>4. CASE e \in Range(online)
    BY <1>0, <1>2, <2>1, <2>4 DEF NoGhosts, addip
  <2> QED
    BY <2>2, <2>3, <2>4
<1>3. CASE BeginDealClient
  BY <1>0, <1>a, <1>3, SMTT(20) DEF BeginDealClient
<1>4. ASSUME NEW c \in Conn, Reject(c) \/ NoServer(c) PROVE Goal
  BY <1>0, <1>a, <1>4, SMTT(20) DEF Reject, NoServer
<1>5. ASSUME NEW c \in Conn, NEW p \in Player, Accept(c, p) PROVE Goal
  BY <1>0, <1>a, <1>5, SMTT(20) DEF Accept
<1>6. ASSUME NEW c \in Conn, NEW h \in Handle, ConnectServer(c, h) PROVE Goal
  BY <1>0, <1>a, <1>6, SMTT(20) DEF ConnectServer, Open
<1>7. ASSUME NEW c \in Conn, NEW h \in Handle, ConnectFails(c, h) PROVE Goal
  BY <1>0, <1>a, <1>7, SMTT(20) DEF ConnectFails, Open
<1>8. ASSUME NEW c \in Conn, adduser(c) PROVE Goal
  <2>1. csock[c] \in Handle /\ name[c] \in Player
    BY <1>0, <1>8, SMT DEF adduser
  <2>0. online \in OnlineLists
    BY <1>0, OnlineIsAList
  <2>2. \E i \in DOMAIN online : online[i].sock = e.sock
    <3>1. /\ DOMAIN AddUser(online, csock[c], name[c]) = DOMAIN online
          /\ \A i \in DOMAIN online :
               AddUser(online, csock[c], name[c])[i] =
                 IF online[i].sock = csock[c]
                   THEN [sock |-> csock[c], username |-> name[c]] ELSE online[i]
      BY <2>0, <2>1, AddUserNames
    <3>2. online' = AddUser(online, csock[c], name[c])
      BY <1>8 DEF adduser
    <3>3. PICK i \in DOMAIN online : online'[i] = e
      BY <1>0, <3>1, <3>2 DEF Range
    <3>4. e.sock = online[i].sock
      BY <3>1, <3>2, <3>3
    <3> QED
      BY <3>4
  <2>3. PICK d \in Conn : csock[d] = e.sock /\ Present(d)
    BY <1>0, <2>2 DEF NoGhosts, Range
  <2>4. csock'[d] = e.sock /\ Present(d)'
    BY <1>0, <1>8, <2>3, SMT DEF adduser
  <2> QED
    BY <2>4
<1>9. ASSUME NEW c \in Conn, RelayEnds(c) PROVE Goal
  BY <1>0, <1>a, <1>9, SMTT(20) DEF RelayEnds
<1>join. ASSUME NEW c \in Conn, Join(c) PROVE Goal
  BY <1>0, <1>a, <1>join, SMTT(20) DEF Join
<1>handle. ASSUME NEW c \in Conn, HandleReused(c) \/ StrangerEnds(c) PROVE Goal
  BY <1>0, <1>a, <1>handle, SMTT(20) DEF HandleReused, StrangerEnds
<1>10. ASSUME NEW c \in Conn, CloseRemote(c) PROVE Goal
  BY <1>0, <1>a, <1>10, SMTT(20) DEF CloseRemote, closesocket
<1>11. ASSUME NEW c \in Conn, CloseClient(c) PROVE Goal
  BY <1>0, <1>a, <1>11, SMTT(20) DEF CloseClient, closesocket
<1>12. ASSUME NEW c \in Conn, removeip(c) PROVE Goal
  <2>1. csock[c] \in Handle
    BY <1>0, <1>12, SMT DEF removeip
  <2>2. e \in Range(online) /\ e.sock # csock[c]
    BY <1>0, <1>12, <2>1, OnlineIsAList, RemoveIpRemoves DEF removeip
  <2>3. PICK d \in Conn : csock[d] = e.sock /\ Present(d)
    BY <2>2, <1>0 DEF NoGhosts
  <2>4. csock'[d] = e.sock /\ Present(d)'
    BY <1>0, <1>12, <2>2, <2>3, SMT DEF removeip
  <2> QED
    BY <2>4
<1>13. ASSUME NEW h \in Handle, PeerGone(h) PROVE Goal
  BY <1>0, <1>a, <1>13, SMTT(20) DEF PeerGone
<1>14. ASSUME NEW p \in Player, kickplayer(p) PROVE Goal
  BY <1>0, <1>a, <1>14, SMTT(20) DEF kickplayer
<1>15. CASE ShowPlayerInfo \/ BoxClosed
  BY <1>0, <1>a, <1>15, SMTT(20) DEF ShowPlayerInfo, BoxClosed
<1>16. CASE Waiting \/ UNCHANGED vars
  BY <1>0, <1>a, <1>16, SMTT(20) DEF Waiting, vars
<1> QED
  BY <1>0, <1>1, <1>2, <1>3, <1>4, <1>5, <1>6, <1>7, <1>8, <1>9, <1>10, <1>11,
     <1>12, <1>13, <1>14, <1>15, <1>16, <1>join, <1>handle DEF Next, DealClient

(* A connection that shares its handle with no other has the entry of that *)
(* handle to itself: no other can name it or take it away.                 *)
LEMMA NextOnList == IInv /\ [Next]_vars => OnList'
<1>0. SUFFICES ASSUME IInv, [Next]_vars, NEW d \in Conn, Present(d)', Alone(d)'
               PROVE  (\E e \in Range(online) :
                         /\ e.sock = csock[d]
                         /\ pc[d] \in {"relay", "join", "closeRemote"} =>
                              e.username = name[d])'
  BY DEF OnList
<1> DEFINE Goal == (\E e \in Range(online) :
                      /\ e.sock = csock[d]
                      /\ pc[d] \in {"relay", "join", "closeRemote"} =>
                           e.username = name[d])'
           Stays == /\ Present(d) /\ Alone(d) /\ csock'[d] = csock[d]
                    /\ pc'[d] \in {"relay", "join", "closeRemote"} =>
                         pc[d] \in {"relay", "join", "closeRemote"} /\ name'[d] = name[d]
<1>a. Stays => \E e \in Range(online) :
                 /\ e.sock = csock'[d]
                 /\ pc'[d] \in {"relay", "join", "closeRemote"} => e.username = name'[d]
  BY <1>0 DEF IInv, OnList
<1>b. Stays /\ online' = online => Goal
  BY <1>a DEF Range
<1>c. online \in OnlineLists
  BY <1>0, OnlineIsAList
<1> USE ProxyAssumption
    DEF IInv, TypeOK, SettingUp, Equipped, Present, Alone, Listed, Goto, osVars,
        connVars, listVars
<1>1. ASSUME NEW c \in Conn, NEW h \in Handle, WaitClient(c, h) PROVE Goal
  <2>1. Stays /\ online' = online
    BY <1>0, <1>1, SMTT(20) DEF WaitClient, Open
  <2> QED
    BY <1>b, <2>1
<1>2. CASE addip
  <2>1. /\ online' = AddIp(online, csock[pending])
        /\ pending \in Conn /\ csock[pending] \in Handle
    BY <1>0, <1>2, SMT DEF addip
  <2>2. /\ Range(online) \subseteq Range(online')
        /\ csock[pending] \in Socks(online')
    <3>1. Range(online') = Range(online) \union
                             IF csock[pending] \in Socks(online) THEN {}
                             ELSE {[sock |-> csock[pending], username |-> NotLogin]}
      BY <1>c, <2>1, AddIpAdds
    <3>2. \E e \in Range(online') : e.sock = csock[pending]
      <4>1. CASE csock[pending] \in Socks(online)
        BY <3>1, <4>1 DEF Socks, Range
      <4>2. CASE csock[pending] \notin Socks(online)
        <5> DEFINE r == [sock |-> csock[pending], username |-> NotLogin]
        <5>1. r \in Range(online') /\ r.sock = csock[pending]
          BY <3>1, <4>2
        <5> QED
          BY <5>1, Zenon
      <4> QED
        BY <4>1, <4>2
    <3> QED
      BY <3>1, <3>2 DEF Socks, Range
  <2>3. CASE d = pending
    <3>1. pc'[d] = "accepted" /\ csock'[d] = csock[pending]
      BY <1>0, <1>2, <2>3, SMT DEF addip
    <3> QED
      BY <2>2, <3>1 DEF Socks, Range
  <2>4. CASE d # pending
    <3>1. Stays
      BY <1>0, <1>2, <2>4, SMT DEF addip
    <3> QED
      BY <1>a, <2>2, <3>1
  <2> QED
    BY <2>3, <2>4
<1>3. CASE BeginDealClient
  <2>1. Stays /\ online' = online
    BY <1>0, <1>3, SMTT(20) DEF BeginDealClient
  <2> QED
    BY <1>b, <2>1
<1>4. ASSUME NEW c \in Conn, Reject(c) \/ NoServer(c) PROVE Goal
  <2>1. Stays /\ online' = online
    BY <1>0, <1>4, SMTT(20) DEF Reject, NoServer
  <2> QED
    BY <1>b, <2>1
<1>5. ASSUME NEW c \in Conn, NEW p \in Player, Accept(c, p) PROVE Goal
  <2>1. Stays /\ online' = online
    BY <1>0, <1>5, SMTT(20) DEF Accept
  <2> QED
    BY <1>b, <2>1
<1>6. ASSUME NEW c \in Conn, NEW h \in Handle, ConnectServer(c, h) PROVE Goal
  <2>1. Stays /\ online' = online
    BY <1>0, <1>6, SMTT(20) DEF ConnectServer, Open
  <2> QED
    BY <1>b, <2>1
<1>7. ASSUME NEW c \in Conn, NEW h \in Handle, ConnectFails(c, h) PROVE Goal
  <2>1. Stays /\ online' = online
    BY <1>0, <1>7, SMTT(20) DEF ConnectFails, Open
  <2> QED
    BY <1>b, <2>1
<1>8. ASSUME NEW c \in Conn, adduser(c) PROVE Goal
  <2>1. csock[c] \in Handle /\ name[c] \in Player
    BY <1>0, <1>8, SMT DEF adduser
  <2>2. /\ DOMAIN AddUser(online, csock[c], name[c]) = DOMAIN online
        /\ \A i \in DOMAIN online :
             AddUser(online, csock[c], name[c])[i] =
               IF online[i].sock = csock[c]
                 THEN [sock |-> csock[c], username |-> name[c]] ELSE online[i]
    BY <1>c, <2>1, AddUserNames
  <2>3. online' = AddUser(online, csock[c], name[c])
    BY <1>8 DEF adduser
  <2>4. /\ Present(d) /\ Alone(d) /\ csock'[d] = csock[d] /\ name'[d] = name[d]
        /\ d # c => pc'[d] = pc[d] /\ csock[d] # csock[c]
    BY <1>0, <1>8, SMT DEF adduser
  <2>5. PICK i \in DOMAIN online :
          /\ online[i].sock = csock[d]
          /\ pc[d] \in {"relay", "join", "closeRemote"} => online[i].username = name[d]
    BY <1>0, <2>4 DEF OnList, Range
  <2>6. online'[i] \in Range(online')
    BY <2>2, <2>3, <2>5 DEF Range
  <2>7. CASE d = c
    <3>1. online'[i] = [sock |-> csock[c], username |-> name[c]]
      BY <2>2, <2>3, <2>5, <2>7
    <3> QED
      BY <2>4, <2>6, <2>7, <3>1
  <2>8. CASE d # c
    <3>1. online'[i] = online[i]
      BY <2>2, <2>3, <2>4, <2>5, <2>8
    <3> QED
      BY <2>4, <2>5, <2>6, <2>8, <3>1
  <2> QED
    BY <2>7, <2>8
<1>9. ASSUME NEW c \in Conn, RelayEnds(c) PROVE Goal
  <2>1. Stays /\ online' = online
    BY <1>0, <1>9, SMTT(20) DEF RelayEnds
  <2> QED
    BY <1>b, <2>1
<1>join. ASSUME NEW c \in Conn, Join(c) PROVE Goal
  <2>1. Stays /\ online' = online
    BY <1>0, <1>join, SMTT(20) DEF Join
  <2> QED
    BY <1>b, <2>1
<1>handle. ASSUME NEW c \in Conn, HandleReused(c) \/ StrangerEnds(c) PROVE Goal
  <2>1. Stays /\ online' = online
    BY <1>0, <1>handle, SMTT(20) DEF HandleReused, StrangerEnds
  <2> QED
    BY <1>b, <2>1
<1>10. ASSUME NEW c \in Conn, CloseRemote(c) PROVE Goal
  <2>1. Stays /\ online' = online
    BY <1>0, <1>10, SMTT(20) DEF CloseRemote, closesocket
  <2> QED
    BY <1>b, <2>1
<1>11. ASSUME NEW c \in Conn, CloseClient(c) PROVE Goal
  <2>1. Stays /\ online' = online
    BY <1>0, <1>11, SMTT(20) DEF CloseClient, closesocket
  <2> QED
    BY <1>b, <2>1
<1>12. ASSUME NEW c \in Conn, removeip(c) PROVE Goal
  <2>1. csock[c] \in Handle /\ online' = RemoveIp(online, csock[c])
    BY <1>0, <1>12, SMT DEF removeip
  <2>2. Range(online') = {e \in Range(online) : e.sock # csock[c]}
    BY <1>c, <2>1, RemoveIpRemoves
  <2>3. Stays /\ csock'[d] # csock[c]
    BY <1>0, <1>12, SMT DEF removeip
  <2> QED
    BY <1>a, <2>2, <2>3
<1>13. ASSUME NEW h \in Handle, PeerGone(h) PROVE Goal
  <2>1. Stays /\ online' = online
    BY <1>0, <1>13, SMTT(20) DEF PeerGone
  <2> QED
    BY <1>b, <2>1
<1>14. ASSUME NEW p \in Player, kickplayer(p) PROVE Goal
  <2>1. Stays /\ online' = online
    BY <1>0, <1>14, SMTT(20) DEF kickplayer
  <2> QED
    BY <1>b, <2>1
<1>15. CASE ShowPlayerInfo \/ BoxClosed
  <2>1. Stays /\ online' = online
    BY <1>0, <1>15, SMTT(20) DEF ShowPlayerInfo, BoxClosed
  <2> QED
    BY <1>b, <2>1
<1>16. CASE Waiting \/ UNCHANGED vars
  <2>1. Stays /\ online' = online
    BY <1>0, <1>16, SMTT(20) DEF Waiting, vars
  <2> QED
    BY <1>b, <2>1
<1> QED
  BY <1>0, <1>1, <1>2, <1>3, <1>4, <1>5, <1>6, <1>7, <1>8, <1>9, <1>10, <1>11,
     <1>12, <1>13, <1>14, <1>15, <1>16, <1>join, <1>handle DEF Next, DealClient

LEMMA Invariance == Spec => []IInv
<1>1. IInv /\ [Next]_vars => IInv'
  BY NextTypes, NextControl, NextOwns, NextNoGhosts, NextOnList DEF IInv
<1> QED
  BY <1>1, InitIInv, PTL DEF Spec

-----------------------------------------------------------------------------
(* Every variable keeps its type; in particular the accept loop and the    *)
(* threads are where they can be, and the list is a list of entries        *)
(* (online.c:13).                                                          *)
THEOREM TypeCorrect == Spec => []TypeOK
<1>1. IInv => TypeOK
  BY DEF IInv
<1> QED
  BY <1>1, Invariance, PTL

(* The list never has two entries for a socket, however handles are reused *)
(* (addip, online.c:221).                                                  *)
THEOREM EntriesAreUnique == Spec => []OneEntryPerSocket
<1>1. IInv => OneEntryPerSocket
  BY DEF IInv
<1> QED
  BY <1>1, Invariance, PTL

(* Every entry has a connection that will still call removeip for it: the  *)
(* order of closesocket and removeip at the end of DealClient leaves no    *)
(* ghost, also when the handle is given to another connection in between.  *)
THEOREM NoGhostsStay == Spec => []EveryEntryWillGo
<1>1. IInv => EveryEntryWillGo
  BY Zenon DEF IInv, NoGhosts, Present, EveryEntryWillGo, Range
<1> QED
  BY <1>1, Invariance, PTL

(* A connection whose handle was never shared is on the list from addip to *)
(* removeip, under the name of its player once adduser has run.            *)
THEOREM NobodyIsLost == Spec => []OnlineUnlessHandleShared
<1>1. IInv => OnlineUnlessHandleShared
  <2> SUFFICES ASSUME IInv, NEW c \in Conn, pc[c] \in Listed, Alone(c)
               PROVE  \E i \in DOMAIN online :
                        online[i] = [sock |-> csock[c],
                                     username |->
                                       IF pc[c] \in {"relay", "join", "closeRemote"}
                                         THEN name[c] ELSE online[i].username]
    BY DEF OnlineUnlessHandleShared, Alone
  <2>1. PICK i \in DOMAIN online :
          /\ online[i].sock = csock[c]
          /\ pc[c] \in {"relay", "join", "closeRemote"} => online[i].username = name[c]
    BY DEF IInv, OnList, Present, Range
  <2>2. online[i] \in Entry
    BY LenProperties, ElementOfSeq DEF IInv, TypeOK
  <2>3. online[i] = [sock |-> online[i].sock, username |-> online[i].username]
    BY <2>2 DEF Entry
  <2> QED
    BY <2>1, <2>3
<1> QED
  BY <1>1, Invariance, PTL

(* A thread only ever uses handles that the operating system has open for  *)
(* its own connection: closing one twice would close a stranger's          *)
(* (client.c:214 and 219).                                                 *)
THEOREM HandlesAreOnesOwn == Spec => []OwnsItsHandles
<1>1. IInv => OwnsItsHandles
  BY DEF IInv
<1> QED
  BY <1>1, Invariance, PTL
=============================================================================
