---------------------------- MODULE OnlineList ----------------------------
(***************************************************************************)
(* The online list of online.c: a linked list of connections, newest       *)
(* first, each with its socket and the name of its player, and the number  *)
(* of players that is kept beside it.  The functions run entirely under    *)
(* the mutex O_lock, so each is an operator on the value of the list; the  *)
(* variables are declared by the modules that use them.                    *)
(***************************************************************************)
EXTENDS Integers, SequencesExt

CONSTANTS Handle,   \* the values a socket can have
          Player    \* the names players log in with

NotLogin == "Not-Login"   \* the name of a connection before adduser

Entry == [sock : Handle, username : Player \union {NotLogin}]

Socks(list) == {list[i].sock : i \in DOMAIN list}

(* The position of the first entry with this socket, or 0.                 *)
Find(list, sock) == SelectInSeq(list, LAMBDA e : e.sock = sock)

(* Mistakes: AddIp without the search for the socket (OneEntryPerSocket),  *)
(* RemoveIp unlinking the entry in front (OnlineUnlessHandleShared).       *)
AddIpAnyway(list, sock) == Cons([sock |-> sock, username |-> NotLogin], list)

RemoveIpInFront(list, sock) ==
  IF sock \notin Socks(list) THEN list
  ELSE RemoveAt(list, IF Find(list, sock) = 1 THEN 1 ELSE Find(list, sock) - 1)

(* addip: a socket that is on the list already is not added again.         *)
AddIp(list, sock) ==
  IF sock \in Socks(list) THEN list
  ELSE Cons([sock |-> sock, username |-> NotLogin], list)

(* adduser: names the entry; a socket that is not on the list is ignored.  *)
AddUser(list, sock, name) ==
  IF sock \notin Socks(list) THEN list
  ELSE [list EXCEPT ![Find(list, sock)].username = name]

AddUserCounts(list, sock) == IF sock \in Socks(list) THEN 1 ELSE 0

(* removeip: unlinks the entry.                                            *)
RemoveIp(list, sock) ==
  IF sock \notin Socks(list) THEN list ELSE RemoveAt(list, Find(list, sock))

(* removeip lowers the number if the head it removes is logged in; further *)
(* down the list it looks at the name of the entry in front.               *)
RemoveIpCounts(list, sock) ==
  LET at == Find(list, sock)
      named == IF at = 1 THEN 1 ELSE at - 1
  IN  IF at # 0 /\ list[named].username # NotLogin THEN 1 ELSE 0

(* kickplayer: the sockets of the entries with this name.                  *)
Sought(list, name) ==
  {list[i].sock : i \in {j \in DOMAIN list : list[j].username = name}}
=============================================================================
