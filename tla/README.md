# Verification of MinecraftSpeedProxy (Windows GUI): TLA+ models, checks and proofs

The program is `core.dll`, a TCP proxy for Minecraft written in C for Windows,
and a user interface (`src/e/MinecraftSpeedProxy.e`, a binary project) that
calls its exported functions. It accepts players on a local port, speaks enough
of the protocol to answer status queries and to read the player's name, checks
the name against a ban list and a white list, connects to the remote server and
from then on relays bytes in both directions. Everything below is about
`core.dll`; paths are relative to `src/`.

One line of the commit cannot be compiled: `CheckLogin.c:259` reads `log()`,
without a semicolon, between two statements. It has no effect that a model
could show and is taken as absent.

## 1. Inventory

| Component | Source | State | Operations | Hard because |
|---|---|---|---|---|
| Sending queue | `sending.c`, `RemoteClient.h`, loop of `remote.c` | linked list of nodes, a lock per node, `close`, `datanum`, `spinlock` | `InitSending`, `UpSendingData`, `SendingThread` | two threads; ownership handed over lock by lock; nodes and chunks freed by hand; an unlocked poll of `datanum` |
| Session relay | `client.c:125-226`, `remote.c` | four threads, two sockets, `Rcpack`, two `SendingPack_t` on the stacks of two of the threads | begin, relay, end of either side, joins, clean-up | every thread can cause the end; joins through handles that `_endthread` has closed |
| Online list | `online.c` | `head`, `OnlineNumber`, mutex `O_lock` | `addip`, `adduser`, `removeip`, `kickplayer`, `kicksock`, `ShowPlayerInfo`, `printonline` | entries are found by socket handle, and handles are reused; hooks are called under the mutex |
| Accept loop and life of a connection | `main.c:132-158`, `client.c`, `websocket.c` | control points, open handles | accept, register, begin a thread, log in, connect, relay, close, unregister | many connections at once; the handle is closed before the entry goes |
| Server control | `main.c:37-131` | `Run`, `server`, `Main_Pid`, `LocalPort`, `Motd_Loaded`, all without a lock | `StartServer`, `StopServer`, `Server` | tests and sets in different threads |
| Login check | `CheckLogin.c` | two linked lists, a switch, a mutex, two files | `CL_Check`, list, add, remove, enable, disable, reload, load, `Save` | state read outside the mutex; files replaced through a temporary one |
| Packet framing | `unpack.c` | none (the stream's position is the state) | `RecvFullPack`, `GetPackID`, `ParseHandlePack`, `ReadString`, `BuildString`, `BuildHandPack` | packets split and joined by TCP; limits at the end of buffers |
| Login and status dialogue | `client.c:60-183, 228-307` | `handshaked`, `statusmode` | handshake, status, ping, login, kick message | unexpected order of packets |
| Varints | `varint.c` | none | encode, decode | boundaries of length |
| Sockets | `websocket.c` | `inited` | thin wrappers | a failed `connect` leaks its socket |
| cJSON | `cJSON.c`, called by `client.c:233-256` | items in memory, linked by `next`, `prev`, `child` | parse, print, create, add, insert, detach, replace, delete, copy, compare | ownership by hand; a doubly linked list with a twist; half-built trees when memory runs out; sizes calculated in advance |
| Log, user interface | `log.c`, `e/` | | | not modelled |

How they interact. `StartServer` begins the service thread `Server`. For each
connection the service thread calls `addip` and begins a `DealClient`. After the
login `DealClient` connects to the remote server, begins `DealRemote`, calls
`adduser` and becomes the relay from client to server, as `DealRemote` is the
relay from server to client. Each relay begins a `SendingThread`, which writes
what the relay received. The relays share the two sockets: whoever sees the end
of one shuts both down, which is how the other three learn of it. `DealClient`
waits for the others, closes the sockets and calls `removeip`. The user
interface calls `kickplayer`, which looks the player up in the online list and
shuts his socket down, and `ShowPlayerInfo`, which opens message boxes while it
holds the list's mutex. A status request makes `DealClient` call `SendResponse`,
which parses `motd.json`, replaces the protocol number in it by the client's,
and prints it again, with cJSON.

What makes each part correct:

* Sending queue: no node or buffer is used after it was freed, or freed twice,
  or never; the target gets a prefix of what the source sent; the backlog is
  bounded; both threads end once the source has, if the target is read or breaks.
* Session: nothing is used after it was released; nothing is left behind; it
  ends when the client has gone or was kicked.
* Online list: one entry per open connection, under the right name; the count
  matches; a kick reaches the player it is meant for.
* Server control: at most one service thread; a stop waits for it, frees the
  port, and leaves the players' connections alone.
* Login check: a name is on a list once; a change is on disk when the call
  returns, or was reported; the files are whole whenever the process ends; the
  mutex is released, but for one return of `CL_List`.
* cJSON: the lists stay linked as every function expects; each item is freed
  once; a failed operation leaves nothing behind; a text means what the grammar
  of JSON says; what is printed fits in the buffer and is parsed to the same
  tree again.
* Framing and dialogue: the stream is cut where the packets end, whatever TCP
  does, and whoever asks is answered.

## 2. Modules

| Module | What it is | Code |
|---|---|---|
| `Channel` | abstract specification: a bounded FIFO pipe into a socket | what `sending.c` promises its callers |
| `SendingQueue` | the linked list of locked nodes, one direction | `sending.c`, receive loop of `remote.c` |
| `SendingQueueProofs` | theorems about it | |
| `Session` | the four threads of one session; each queue is a `Channel` | `client.c:125-226`, `remote.c`, `sending.c` |
| `SessionProofs` | theorems about it | |
| `OnlineList` | the functions of the online list as operators on its value | `online.c` |
| `ListProofs` | lemmas about sequences as lists, and about functions that are defined by recursion | |
| `Proxy` | accept loop, connections, handles, list and kicks | `main.c`, `client.c`, `online.c`, `websocket.c` |
| `ProxyProofs` | theorems about it | |
| `ServerControl` | start and stop | `main.c`, `websocket.c` |
| `ServerControlProofs` | theorems about it | |
| `CheckLogin` | the ban list, the white list, their files, and logins | `CheckLogin.c` |
| `CheckLoginProofs` | theorems about it | |
| `Packets` | what is read from packets and written to them, and what the protocol says of it | `varint.c`, `unpack.c`, `client.c:127-131, 285-306` |
| `Dialogue`, `MCDialogue` | a connection up to its login, or its status queries | `client.c:60-182, 233-284`, `unpack.c:130-175` |
| `DialogueProofs` | theorems about both | |
| `JsonString` | literals: escapes, UTF-16 to UTF-8, lengths | `cJSON.c:133-154, 615-1021` |
| `JsonHeap` | items in memory and the functions that link them | `cJSON.c:188-274, 400-425, 1849-2701` |
| `JsonCopy` | the functions that go down a tree: copying and comparing | `cJSON.c:2704-2785, 2986-3109` |
| `JsonText` | the parser and the printer, and the grammar they are compared with | `cJSON.c:439-612, 1079-1823` |
| `JsonForest` | abstract specification: a forest of trees | what the functions of `cJSON.h` promise |
| `JsonCaller` | a caller that keeps the contract, with the operations that need no recursion | `cJSON.h` |
| `JsonProofs` | theorems about `JsonHeap` and `JsonCaller` | |
| `Json`, `MCJson` | the same caller, who parses and copies too, and `SendResponse` | `cJSON.c:1175, 2704`, `client.c:233-256` |

The levels fit together as follows. `SendingQueue` is shown to implement
`Channel`. `Session` uses two pipes that are shown to be `Channel`s too, in
place of two linked lists. `Proxy` has a session as two phases. "relay" ends
after one of its sockets has been shut down or its peer has gone, and must end
when it is the client's, as `ClientGoneEnds` of `Session` says; "join" ends
unless `DealClient` waits for a thread of somebody else, as it says too. `Dialogue` has the
answer to a status request as one step, which `Json` looks into; what is on the
heap of `JsonHeap` is shown to be the forest of `JsonForest`.

### State and steps

**SendingQueue.** Nodes and chunks are numbered in the order in which they are
allocated or received and never numbered again, so a pointer to freed memory is
a number outside `live`. `link` is the relay's `temp` (its last, empty node),
`temp` the sender's. `lock[n]` is the critical section of node `n`, `spin` that
of the pack. A step ends wherever another thread could notice: at a lock, at an
unlock, around `recv` and `send`, around the accesses to `datanum`. `send` takes
a chunk only if `room` says so, and the target's peer makes room when it likes
(`PeerReads`): until then the sender holds the lock of its node. A critical
section that touches only what its lock protects is one step: the test of
`close` (`TestOpen`, `Refuse`), the setting of it (`SetClose`), the decrement
(`Uncount`). The increment holds the lock over two steps (`Count`, `Publish`),
because the node's own lock is released inside it. A new node's fields are
`Junk` until assigned. The relay's loop is that of `DealRemote`; the loop of
`DealClient` is the same up to the size of the buffer.

**Session.** `pc["up"]` is `DealClient`, `pc["down"]` is `DealRemote`, `sender`
the two sending threads. `eof` and `broken` are what `recv` and `send` on a
socket would answer; `unread` counts the chunks a socket has taken and its peer
has not read, and `send` blocks at `Buffer`. `memory` is what is allocated,
`open` the sockets not yet closed. `stranger` says which of the thread handles
of the session have been closed by `_endthread` and given to another thread.
A chunk that `UpSendingData` accepted counts as put at once; whether it checked
`close` before or after is the choice between `Put` and `Refused`.

**Proxy.** Handles are a pool of the operating system. `owner` says what each
is open for; `csock` and `rsock` are what the code believes. `closesocket` and
`removeip` are two steps, as in `client.c:219-222`, and the handle can be given
out in between. The entry whose name `removeip` tests is the one in front
(`RemoveIpCounts`). The socket of a failed `connect` stays "lost". The login
dialogue is one choice: turned away, or accepted under some name. The functions
of the list are a step each, which `O_lock` must be free for: they take it in
the first line and release it in the last. `ShowPlayerInfo` and `BoxClosed` are
the two ends of the one that keeps it. `stranger` has the connections whose
`DealClient` waits, in `client.c:212` or `213`, on a handle that is another
thread's by now (`HandleReused`, `StrangerEnds`).

**ServerControl.** A service thread stops at every access to a shared global:
the test of `Run`, the setting of it, the motd test, the load, the listen, the
loop test, accept, and `addip`, which waits for `O_lock` and so for a box of
`ShowPlayerInfo`. `on` is the socket a thread blocks in accept on. A failed
`bind` leaves a socket that is good for nothing (`Lost`), a failed `listen` one
that has the port (`Bound`). The connections made so far go on after a stop,
open and close sockets, and begin threads, one of which may get the handle that
the service thread has given up (`stranger`). `Patient` chooses between two
callers: one that waits for the log line that ends a start before it calls
again, and one that does not.

**CheckLogin.** `mem` is what the two heads lead to, `file` what the two files
hold, `temp` what Save has written so far. The critical section that changes a
list is one step; `Save` is one step per call of the file system (`pc` is the
call that comes next), since the process can end (`Killed`, `RemoveCrashes`)
between any two and, where `MayFail` says so, each can fail. `lost` is no state
of the code: it collects what the log has reported, to compare the log with the
disk. The user interface is one thread, as its project has one, and loads the
ban list when it starts; names have no white space, and nobody edits the files
by hand. `RemoveCrashes` is the access through NULL in the two functions that
remove (`CheckLogin.c:347`, `418`, `437`). `kept` says that `CL_List` was asked
for a list there is not and has returned with the mutex (`CL_ListUnknown`).
`Opened` is what a load finds: a file that is there but cannot be read is
emptied by the `fopen` for writing that follows.

**Packets.** The functions that read and write packets as operators on sequences
of bytes. All widths are constants, so that the boundaries are within reach: the
run has two bits to a byte of a varint where the code has seven, `int` of 9 bits
for 32 and `unsigned long long` of 19 for 64, which gives five and ten bytes as in
the code. An `int` that becomes an `unsigned long long` keeps its sign, as in C
(`unpack.c:18`), and behind the data of a packet are zeros. `IsVarint`, `IsPacket` and
`IsHandshake` are what the protocol of Minecraft asks for, said without the code's
loops: the sum of what the bytes carry, each times its power. A packet to the
remote server comes with `inside`, which says whether it was written inside the
three buffers it goes through: `data` (`DataSize`), `message` (`MessageSize`) and
`Address`; `HasRoom` says it of the protocol's own account of a handshake's size.

**Dialogue.** Bytes are counted and not kept. `pos` is how many the proxy has
received, `from` where the packet it is dealing with began; `needread` and
`needreadnext` are those of `RecvFullPack`. `recv` returns any number of the
bytes that were sent, up to what was asked for. What lies at a position where no
packet begins, and a byte that is read without having been received, can be
anything: every length, every packet ID, a failed assertion. The client sends
what a Minecraft client sends: a handshake and at once a login or a request, and
a ping after the response. `spoilt` is no state of the code: it says that a
first `recv` got one byte of a two-byte length, or some of the next packet.

**JsonHeap, JsonCopy, JsonText, JsonCaller, Json.** Memory is a value: `node`, a
function on the addresses that are allocated, `strs`, how many strings are, and
`left`, how many calls of `malloc` will still succeed. Every function of the code
is an operator from memory to memory and a result, with its assignments in the
order of the code; a single-threaded library needs no smaller steps. A pass over
a list follows `next`, so that a wrong link is followed too. A text is a sequence
of tokens, and a string literal a sequence of units (a byte, a backslash with a
letter, `\uXXXX`, or `\u` cut short by the closing mark); `strdup` and `strcmp`
see the bytes up to the first zero. The printer is modelled by its pieces: what
each call of `ensure` asks for, what is written after it, and by how much the
offset then moves. `JsonCaller` applies the operations in any order to what there
is, with any number of successful allocations, as long as the caller keeps the
contract of `cJSON.h`: an item is added in one place only and not below itself,
and what is held is deleted once. `leaked` says that a status answer left
something in memory. `CallerSpec` is the part of the specification whose
operations follow lists only (`Below` and `Children` are recursive functions);
`Json` adds those that go down a tree, which are RECURSIVE operators and keep out
of the modules that are proved about.

Each module has a block of "mistakes": an action with a guard dropped, a reset
forgotten or a step misplaced, as a plausible slip in that code would have it,
named for the property that finds it.

## 3. Runs

| Run | Question | Bounds |
|---|---|---|
| `queue` | is the hand-over of chunks safe, ordered, bounded and live, and is it a `Channel`? | 4 chunks, limit 1 (backlog 2) |
| `session` | do four threads and two sockets come to an end without touching anything released? | 3 chunks each way, limit 0, socket buffer 1 |
| `proxy` | do the list and the handles stay right under every reuse of handles, and is whoever was kicked disconnected? | 2 connections, 4 handles, 1 name |
| `control` | start and stop by a patient caller | 3 starts, 3 handles, 2 ports |
| `impatient_start` | (violated) is a second start refused while a service thread lives? | as `control`, impatient |
| `count` | (violated) does an empty list mean that nobody is counted? | 2 connections, 3 handles |
| `stale_kick` | (violated) does a kick hit the player it names? | 2 connections, 3 handles |
| `login` | are lists and files right wherever the process ends, and logins answered? | 2 names, no silent failures |
| `unreported` | (violated) is every change that is not on disk reported? | 2 names, each call of Save may fail |
| `dialogue` | does the stream fall into packets wherever TCP cuts it, is every client answered, and are the packets read and written right? | 3 bytes first (code: 10), limit 7 (4096), two-byte lengths from 4 (128), address of 4 (128), name of 3 (20), packet of 13 (128), data of 20 (1024), strings up to 6 |
| `json` | do items stay linked, owned and freed, are texts read and printed right, and is the status answer right? | 3 items (more in a parsed text or a copy), nesting limit 2 (1000), 0, 1, 2 or enough allocations |
| `stop_forwarding` | (violated) does a stop never wait for a forwarding thread? | as `control` |

Why these bounds are enough to be interesting. In `queue` the limit is passed
with two chunks in the list, so the relay sleeps while there are still chunks to
come, and every node position (first, middle, last) occurs. In `session` three
chunks are needed to fill everything there is: one in the socket, one or two in
the queue and one in the relay's hands, waiting for room; with two the wait never
bites. `proxy` lets one connection's handle go to the other as its client socket
or as its remote socket while the first is between `closesocket` and `removeip`,
and has a handle to spare for one that is lost; two connections keep its liveness
within reach, and what it checks of safety is proved for any number of them.
Handles are not taken as symmetric, since liveness is checked too. In `control`
three starts give a start after a failed bind after a stop. The name is one in
`proxy`: a second one adds nothing there, since the properties compare an entry
with its own connection's name only. In `login` two names give a first, a last
and an only entry, which are the cases the removal tells apart; calls, failures
to load or to open, kills and restarts are not bounded, because a list has each
name at most once. In `dialogue` the numbers keep the order that 10, 128 and 4096
have; there are packets shorter than the first `recv`, of just its length, with a
length of one byte and of two, and handshakes whose address does not fit. The
numbers are all those an `int` can be and those around each power of 4 up to the
last of the ten bytes; strings are shorter than, equal to and longer than the two
buffers and than a length of one byte, and some, with some protocol numbers, make
a handshake of just 13 bytes and of 14. `data` never overflows before `message`
does, as in the code. In `json` three items give an array or object with a first,
a last and an only child, a child with children, and a loose item to add, insert
or put in another's place; two files with more items (up to five, and their
copies) are parsed and worked on too. The texts are every sequence of at most
four tokens, every way to leave out, replace or insert one token in a motd and in
six small files, and every literal of at most two units, and some of three, out
of twelve: bytes, escapes that are and are not, digits that are none, control
characters, the limits of the lengths of UTF-8, both halves of a pair. The
nesting limit is passed by `[[[`.

### What the properties say

* `NoUseAfterFree`, `ReleasedOnce` (queue): every access is to live memory;
  every buffer is freed exactly once and not before it was sent.
* `Backlog`: `datanum` is at every moment the number of nodes counted in less
  those counted out, so the unlocked poll can never overrun by more than one.
* `InOrder`, `EndsDrained`: a prefix arrives; on a target that is still up, all
  of it. `RefusedMeansBroken`: "the other side has disconnected"
  (`remote.c:50`, `client.c:205`) is said only when it is so.
* `ChannelSpec`: the queue implements `Channel`, liveness included.
* `EndsOnceSourceEnded`: both threads end once the source has, also from a wait
  for room, and when every send fails, on a target that breaks or whose peer goes
  on reading. On one that is up and not read they stay: the sender in `send`
  (`sending.c:71`), and the relay, if the queue is full, at `sending.c:33`.
* `NothingUsedAfterRelease`, `NothingLeftBehind` (session): hold whatever
  thread the joins really waited for, because a stale handle can only make a
  join longer, never shorter.
* `ClientGoneEnds`: a session whose client has gone ends, also with full queues
  and a client that no longer reads. `adduser` and `removeip` are steps of it that
  do not wait; a box that keeps `O_lock` (`online.c:48`) delays the end as long as
  it is open.
* `OneEntryPerSocket`, `EveryEntryWillGo`, `OnlineUnlessHandleShared`: no
  duplicates, no ghosts, and nobody whose handle was never shared is lost from
  the list or renamed.
* `OwnsItsHandles`: no thread uses or closes a handle of somebody else.
* `KickDisconnects`: a kicked connection goes, and leaves the list, and whoever
  was accepted gets a thread, if the user closes every box of `ShowPlayerInfo` -
  and the kicked, if `DealClient` does not wait for ever for a thread of another
  session. The mutex of the login lists is not in it: a kicked connection that is
  logging in also needs `LoginAnswered`.
* `OneServiceThread` (violated), `StopWaitsForExit`, `StopKeepsClients`: what
  `readme.txt` says of `StartServer` and `StopServer`, for a patient caller; the
  last two and `PortReleased` need one.
* `PortReleased`: after a stop, or a failed start, no socket of the process is in
  the way of the next start, but one on which `listen` failed after `bind`.
* `StopReturns`: `StopServer` returns, if the boxes are closed, or a stranger has
  the handle it waits for.
* `OneEntryPerName`: no sequence of enabling, disabling, reloading, adding and
  removing, with the loads failing or not, lists a name twice.
* `AFileIsWhole`: the list's file is never half written, and when it is missing
  the temporary one is whole.
* `OnlyReportedLost`: memory and disk differ only in what was reported.
* `FullPack`, `AssertionHolds`: the packet dealt with is the next one, all of it
  and nothing else, and the process survives, if the session is not spoilt.
* `PacketsReadBack`: each number is written as the varint it has, within its
  buffer, and read back; a handshake is read as it was meant, or refused when its
  address is too long; the one to the remote server stays inside its memory for
  just the addresses of which `HasRoom` says so, and then says what it should;
  names and messages arrive. It excepts a negative protocol number in what is sent:
  `BuildHandPack` sends it in ten bytes, where a client sends five.
* `Answered`: a status client gets its response and its pong, a player a login
  or a refusal. `motd.json` has to be good, since a failed response is ignored
  (`client.c:122`). Waiting for the mutex in `CL_Check` is not part of it.
* `LoginAnswered`: no login waits for ever for the mutex, but while the boxes of the
  white list are shown, and after `CL_List` was asked for a list that there is not
  (`CheckLogin.c:87-90`).
* `HeapOK`: after any calls in any order, with any failures, the lists are linked
  (`prev` of the first is the last), every item is in one place, everything is
  reached from what the caller holds, and no string is lost.
* `ForestSpec`: each call is one step of `JsonForest`, or none.
* `ParseAccepts`: a text is accepted if and only if it begins with a JSON value,
  where `\u` and four characters that are no number count as `\u0000`, and becomes
  that; a parse that fails, or runs out of memory, leaves nothing.
  Literals become the UTF-8 of their characters, inside what was allocated.
* `PrintsReadBack`: printing never writes past the buffer, at whatever size it
  began, and what it prints is parsed to the same tree; five bytes more than the
  text are enough for `PrintPreallocated`, as `cJSON.h:163` says.
* `CopyIsEqual`: a copy is the same tree, apart from it in memory, and one that
  fails leaves memory as it was; `Compare` says equal of what is the same but for
  the order of members.
* `ResponseIsMotd`: the status answer is `motd.json` with the client's protocol
  number and nothing is left in memory, except the new number if `version` has
  no protocol (`client.c:254`).

### Findings

1. `online.c:181`: `removeip` tests the name of the entry in front of the one it
   removes, so `OnlineNumber` drifts and an empty list may come with a count of
   one (run `count`), and the hook that takes the name out of the user
   interface is then not called either.
2. `online.c:108`: a kick between `closesocket` and `removeip` of the player
   shuts down whatever has his handle by then (run `stale_kick`).
3. `main.c:44`: `StopServer` waits through a handle that `_endthread` may have
   closed and the system given to a thread of a connection; it then waits until
   that player leaves (run `stop_forwarding`, with a patient caller).
4. `CheckLogin.c:303`: `Save` reports a failure only if the temporary file
   cannot be opened; if writing, removing or renaming fails the change is lost
   unreported (run `unreported`).
5. `main.c:50`: `StartServer` tests `Run`, which only the new thread sets
   (`main.c:76`), so two quick starts begin two service threads, where
   `readme.txt:6` has the second one refused (run `impatient_start`).

Four more are known and have no run of their own. The first two are exceptions
that a passing property states, and without which it fails; the other two show
when `control` is run with `Patient = FALSE`.

* `unpack.c:35`: `BuildHandPack` never looks at its `maxsize`. With a host name of
  the remote server of more than 121 bytes, or 120 or 117 with a protocol number
  of two bytes or five, it writes behind the 128 bytes of `client.c:152`; one of
  128 bytes or more does not fit `Address` either (`client.c:149`). `HasRoom` in
  `PacketsReadBack` is the exact condition.
* `cJSON.c:637`: `\uZZZZ` is accepted and taken for `\u0000`, although the comments
  (`cJSON.c:614`, `635`) speak of hexadecimal digits and call anything else
  invalid. `ForgivenText` in `ParseAccepts` and `ResponseIsMotd`.
* `main.c:124`: a stop that comes after `Run` was set and before `server` was
  (an impatient caller's) closes another handle; the socket is created after it
  and goes on listening, where `readme.txt:9` says that a stop ends the listening
  (`PortReleased`).
* `main.c:43`: `server` is never cleared, so a stop that comes before the new
  thread has stored its own socket (again an impatient caller's) may close the
  handle of a connection, where `readme.txt:12` says that clients stay connected
  (`StopKeepsClients`).

## 4. Fairness

* Threads that can take a step take it (`WF` per thread). Windows schedules
  threads preemptively and boosts starved ones, critical sections here are
  short, and each lock of a node has one thread that can want it.
* `send` blocks while the peer has not read. In `SendingQueue` nobody has to read
  (`PeerReads` has no fairness): `EndsOnceSourceEnded` has the premise
  `TargetTakes`. In `Session` the remote server is assumed to read on
  (`WF(PeerReads("server"))`): a server that never reads again and never closes
  would block `send` for ever, and so the session, whatever the client does.
  In `Channel` and `ChannelSpec`, too, a chunk is delivered only if there is room.
* Nothing is assumed of the client: it may stop reading, stay silent, or never
  close. No fairness is given to `recv` returning a chunk, to peers closing, to
  kicks or to the reuse of handles.
* In `Proxy` a connection in the login dialogue moves on only when its socket is
  cut: what a client sends there is its own choice. Threads have strong fairness,
  because they wait for `O_lock`, which Windows gives to those who wait in turn.
  The user need not close a box: `KickDisconnects` is about the behaviours in
  which `O_lock` is free again and again. A relay must end only when its client's
  socket is cut; when only the server's is, it may go on (`sending.c:33`). That a
  stranger ends is not assumed.
* In `ServerControl` the steps of the service thread are fair but accepting a
  client is not: `StopReturns` does not rest on anybody connecting. The wait for
  `O_lock` in `addip` has strong fairness, and nobody has to close a box. A thread of
  a connection ends some time after the last connection has gone, no sooner.
* In `CheckLogin` the file system answers, and a listing of the ban list ends;
  the message boxes of the white list need never be closed. `CL_Check` has
  strong fairness: Windows serves those who wait for a mutex in the order in
  which they came, so a busy user interface does not keep a login out.
* In `Dialogue` the thread goes on as soon as it has bytes; the client sends when
  it likes, or never.

`ClientGoneEnds` has an escape, and needs it: `_endthread` closes the thread's
handle, and a thread that ends before it is waited for leaves `DealClient` with
a stale one. If the number has been given to another session's thread in the
meantime, the session ends when that thread does, for which there is no bound.

The mirror image, that a session ends when the *server* has gone, does not hold:
the relay to a client that is connected and reads nothing sleeps in
`UpSendingData` and never sees the end of the server's socket. Nothing in the
repository promises it, so it is listed as a hazard and not as a finding, and
`TargetTakes` and the fairness of `RelayEnds` leave room for it.

## 5. Proofs

TLAPS proves the following for every value of the constants that the named
`ASSUME` of the module admits; a theorem that needs more has it in its statement.
In every module the property is not inductive, and follows without temporal
reasoning from a stronger invariant `IInv`, which TLC has checked on the bounds
of the run before it was proved. `NextIInv` (or one lemma per part of `IInv`)
has one step per action.

| Module | Theorem | States | Needs |
|---|---|---|---|
| `SendingQueueProofs` | `TypeCorrect`, `MemorySafe`, `FlowControlled`, `FIFO`, `NothingLeaks`, `RefusalJustified` | `TypeOK`, `NoUseAfterFree`, `Backlog`, `InOrder`, `ReleasedOnce`, `RefusedMeansBroken` | |
| | `DrainsBeforeEnd` | the action property `EndsDrained` | |
| | `ImplementsChannel` | the safety part of `ChannelSpec` | |
| `SessionProofs` | `TypeCorrect`, `ReleasedAfterUse`, `CleanEnd` | `TypeOK`, `NothingUsedAfterRelease`, `NothingLeftBehind` | |
| | `ImplementsChannels` | `QueuesAreChannels` | |
| `ProxyProofs` | `TypeCorrect`, `EntriesAreUnique`, `NoGhostsStay`, `NobodyIsLost`, `HandlesAreOnesOwn` | `TypeOK`, `OneEntryPerSocket`, `EveryEntryWillGo`, `OnlineUnlessHandleShared`, `OwnsItsHandles` | |
| `ServerControlProofs` | `TypeCorrect` | `TypeOK` | |
| | `PortIsReleased`, `StopWaits`, `ClientsStay` | `PortReleased`, and the action properties `StopWaitsForExit`, `StopKeepsClients` | `Patient` |
| `CheckLoginProofs` | `NamesAreUnique` | `OneEntryPerName` | |
| | `FilesAreWhole` | `AFileIsWhole` | `"write" \notin MayFail` |
| | `LossesAreReported` | `OnlyReportedLost` | `MayFail = {}` |
| `DialogueProofs` | `PacketsAreFull`, `NothingAborts` | `FullPack`, `AssertionHolds` | |
| | `PacketsAreReadBack` | `PacketsReadBack` | |
| | `VarintsRoundTrip`, `NamesArrive`, `HandshakesArrive` | what is read back from varints, names and handshakes, for operators and not behaviours | |
| `JsonProofs` | `HeapIsWellFormed` | `HeapOK` | of `CallerSpec` |
| | `CallerSeesForest` | `ForestSpec`, the refinement of `JsonForest` | of `CallerSpec` |

The theorems about packets hold for numbers of every width, where the run has a
byte of three bits, and for strings of every length, where the run has a few.
They need `LengthAssumption`: the largest number fits in `MaxBytes` bytes of a
varint (2^64 is no more than 2^70), and a string is so short that the length of a
packet with it is an int, as those of the code are, which come from buffers of a
few thousand bytes. Those about the heap need `HeapAssumption` (addresses are
numbers, so that the allocator has one to choose, and NULL is none of them) and
`CallerAssumption` (what the caller creates is of the types that `cJSON.h` has
functions for, and no string is NULL). The
hypotheses in the last column are those of the runs, and the code needs
them: without them the property is false (findings and section 3).

**SendingQueue.** The argument is that of a token: the locks along the list are
a token that separates what the relay still owns from what the sender may touch.
`IInv` says it in parts: which nodes are allocated (`temp .. link`, and the new
one while it is being linked), who holds which lock, that nodes behind the
sender's are filled with their own number as chunk and chained to the next, that
the last one is empty, how `datanum`, `frees` and `wire` follow from `link`,
`temp` and the two control points, and that `close` or a skipped chunk implies a
broken target. `ImplementsChannel` maps initial states to initial states and
every step to a step of `Channel` or a stutter.

**Session.** Whether a release comes after the last use depends on four threads,
but each only needs to be compared with its own sender and `DealClient` with
`DealRemote`: `Threads` says what each has done at each point, `Pipes` what its
queue looks like then, `Resources` what is allocated and open. `stranger` does
not occur in it: a join that waits for a thread of another session only waits
longer, so that memory and sockets are safe whatever the stale handle is. Its
two pipes are `Channel`s: with `ImplementsChannel`, the linked lists of
`sending.c` do what `Session` takes them to do.

**Proxy.** Five invariants that need each other. `removeip` removes the right
entry because there is one per socket (`OneEntryPerSocket`, with
`RemoveIpRemoves`); the handle that the system gives out is nobody's because
whoever is on his way owns his (`OwnsItsHandles`, `Equipped`); an entry keeps
the connection that will remove it because `csock` never changes once it is set
(`NoGhosts`); and a connection whose handle nobody else ever had is found by
`adduser` and by nobody's `removeip` but its own (`OnList`, which begins at
`addip`, where there is no thread yet and `OnlineUnlessHandleShared` says
nothing). The lemmas at the head of `ProxyProofs` say what `addip`, `adduser`
and `removeip` do to a list with one entry per socket; `ListProofs` has what they
and those about `CheckLogin` share.

**ServerControl.** `Run` alone does not say whether a service thread lives: it
is 0 before the new thread has set it and while the old one is on its way out,
and 1 after a failed bind. `RunMeans` says what it means together with where the
caller is, `ServerMeans` the same of `server`, and `OnlyTheLast` that a thread
that lives is the one begun last. The two action properties are then about single
steps from states in `IInv`. That the caller is patient is not what the code makes
sure of: with an impatient one the properties fail (findings in section 3).

**CheckLogin.** That a name is on a list once is inductive only together with
the same of the two files and the temporary one, which reloading reads, and with
the white list being empty in memory while it is off, which enabling relies on
(`Calling`). `Whole` says what `Save` has done before it removes the file.
`Reported` extends `OnlyReportedLost` to the states in which a call of `Save` has
not come to its end: the difference is what was reported, and for the list that is
being saved the name the call is about. The lemmas say that adding, removing and
reading in reverse keep names unique and change the set of names as they should.
Since a name has one entry, `ListRemove` takes out the first one it finds.

**Packets.** `varint_encode`, what `varint_decode` collects, the powers and the
sum in `IsVarint` are recursive functions; that the functions their definitions
name exist (`Recursion`, `RecursionDown`), and that decoding undoes encoding, is
proved by induction. The library's induction theorems have an operator as a
parameter and cannot be used here, so each induction is written out with `Least`:
of the numbers for which the claim is false, take the least. `Encoded` and
`CarriedBack` say that decoding gives the number back, and `DecodesBack` that
bytes behind the varint change nothing. That what is written is the varint that a
number has, and of the length that `varint_encoding_length` counts, is one
induction more: the encoding of `n` is a byte in front of that of `n \div Base`,
and the sum and the count of powers each grow by one term. `ReadsString` and
`Opened` are the same for a string and for the head of a packet; from there
`NamesArrive`, `HandshakesArrive` and the parts of `PacketsReadBack` follow a
packet field by field. The handshake to the remote server is the one packet whose
length the code does not test: that it is inside its memory just when `HasRoom`
says so follows from the lengths of its fields, and the theorem says what is in it
in that case only.

**Dialogue.** `Typed` has the types and ranges, `Answering` what the client has
sent and the proxy answered (whose turn it is, and that a status client waits for
its answer), and `Reading` where in the stream the proxy is: between two packets,
inside a length, or inside a packet whose length it has read. All three hold as
long as nothing is `spoilt`, that is, no first `recv` has ended inside a length
or run into the next packet. A length below `Base * Base` takes two bytes at most
(`ShortLengths`, for which the constants bound the packets), and that is where
the proof needs the varints.

**JsonHeap.** The invariant that carries it, `Sound`, does not speak of links as
they are found by walking, but says that there is a function `kids` from items to
sequences of items such that memory is these lists (`Heap`): an item's `child` is
the first of its sequence or NULL, `next` and `prev` go through it, `prev` of the
first is the last; no item is in two sequences; everything is reached from the
items in no sequence (`Roots`), which leaves no circles; the strings are counted.
The roots are what the caller holds. It is
linear: each function of `JsonHeap` is shown to put one item into one sequence,
take one out, or replace one (`InsertAt`, `RemoveAt`, one other element), and the
shape, the strings and the roots follow from that. Three things make it long.
`Below` and `Children` follow `next` and `child` for as many steps as there are
items; that this finds exactly the item's family (`Family`, the least set closed
under `kids`) and exactly the sequence rests on there being no circles, so that no
walk is cut short. `replace_item_in_object` and `cJSON_Delete` change the data of
an item while it is linked, and an item that is deleted takes its family along,
with its strings. And an array that `cJSON_CreateIntArray` builds is not well
formed until the last assignment (`cJSON.c:2578` and the like), for `prev` of its
first child is not set: the invariant of that loop is that memory would be `Heap`
if it were, and that deleting the half of it, which does not look at `prev`,
brings back the memory before the call. A failure of `malloc` at any call is a
case of each. For the refinement, the tree of an operation's memory is computed
from its `kids`, and shown to be that of the abstract action; what `JsonForest`
finds under an item is its family too.

Only model-checked:

* All liveness (`EndsOnceSourceEnded`, `ClientGoneEnds`, `KickDisconnects`,
  `StopReturns`, `LoginAnswered`, `Answered`) and with it the fairness half of
  `ChannelSpec`: the prover has no fairness and no `ENABLED`.
* What parsing, printing, copying and comparing make of all texts and trees:
  `ParseAccepts`, `PrintsReadBack`, `CopyIsEqual`, `ResponseIsMotd`. They recur on
  trees and on texts; to reason about them needs induction over data, and a
  module that reaches a RECURSIVE operator loses the SMT prover. For the same
  reason `HeapOK` and `ForestSpec` are proved for the operations of `JsonCaller`
  (`CallerSpec`) only: that a parsed or copied tree, too, is well formed and new
  beside what there was is checked by the run `json`, whose behaviours mix all
  operations.

## 6. Plan

Done: 1-8, in the order of importance of what they say.

1. `Channel`, `SendingQueue`, `SendingQueueProofs`
2. `Session` (composes two `Channel`s)
3. `OnlineList`, `Proxy`
4. `ServerControl`
5. `CheckLogin`. Left to do: several threads of the user interface, whose calls
   of `Save` then overlap and may walk freed nodes.
6. `Packets`, `Dialogue`
7. `JsonString`, `JsonHeap`, `JsonCopy`, `JsonText`, `JsonForest`, `JsonCaller`,
   `Json`. Left to do: the references and constant keys, which share strings and
   children between items.
8. Theorems about `Session`, `Proxy` with `OnlineList`, `ServerControl`,
   `CheckLogin`, `Packets`, `Dialogue` and `JsonHeap`, as in section 5. Left to do:
   `Parse` and `Duplicate`, which section 5 explains.

## 7. What is not modelled

* Failure of `malloc` (outside cJSON), `_beginthread`, `CreateMutex`: assumed to succeed, though
  the code checks none of them (a failed `_beginthread` would make a join wait
  for the process itself).
* In `Dialogue`: clients that send something else than a Minecraft client does.
  In `Packets`: what is in a buffer that a refused string leaves alone.
  `ReadUserName` is called by nobody.
* In `CheckLogin`: calls of the user interface from several threads at once; what a
  half-written file would yield; lists edited by hand.
* The bytes: a chunk is a number, a name a model value, the motd a flag. Partial
  sends do not occur on the blocking sockets used here.
* Of cJSON: references and constant keys (`cJSON_IsReference`,
  `cJSON_StringIsConst`), raw items, `SetNumberHelper`, `Minify`, the error pointer,
  hooks other than `malloc`: nothing in the program uses them. White space is not
  in the texts (what is printed is looked at by its sizes); the conversion of
  digits to a `double` and back, and sizes near `INT_MAX`, are left out, and a
  byte in the locale's letters is lowered as in C. `SendResponse` with no memory:
  its callers do not look at what cJSON returns.
* Names longer than the 32 bytes of an entry, and a player named `Not-Login`.
* `kicksock` and `printonline` (called by nobody), the log, the user interface. The
  hooks `List_Add` and `List_Remove`, which `adduser` and `removeip` call under
  `O_lock`, are code of the user interface, of which there is no source: whether
  they wait for the thread that may be inside `ShowPlayerInfo` cannot be told.
* The branch of `websocket.c` for other systems, which the build does not use.
* Integers: `datanum` is bounded by the limit plus one (proved), `OnlineNumber`
  by the number of sockets, so their width never matters.
