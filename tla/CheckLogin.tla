----------------------------- MODULE CheckLogin -----------------------------
(***************************************************************************)
(* Who may log in (CheckLogin.c): a ban list and a white list, each a      *)
(* linked list in memory and a text file, and a switch for the white list. *)
(* The user interface changes them, one call at a time; the threads of     *)
(* players who log in read them (CL_Check) whenever they get the mutex.    *)
(*                                                                         *)
(* The critical section in which a call changes a list in memory is one    *)
(* step.  Save is a step per call of the file system, because the process  *)
(* can end between any two of them, and others can fail.  It holds the     *)
(* mutex from the writing to the renaming.                                 *)
(***************************************************************************)
EXTENDS SequencesExt

CONSTANTS Player,   \* names
          None,     \* no name, no list
          MayFail   \* the calls of Save that may fail: "write", "remove", "rename"

ASSUME LoginAssumption == /\ None \notin Player
                          /\ {"missing", "torn"} \cap Player = {}
                          /\ MayFail \subseteq {"write", "remove", "rename"}

Lists == {"ban", "white"}

Missing == <<"missing">>    \* there is no such file
Torn    == <<"torn">>       \* a file that was opened for writing and not closed

VARIABLES
  pc,      \* the user interface: "idle", in Save, or in CL_List; or the
           \* process is "dead"
  cur,     \* the list the call in progress is about
  who,     \* the name it adds or removes
  mutex,   \* lock: "free", or "ui" from one step of a call to the next
  kept,    \* a call of the user interface has returned and not released it
  mem,     \* Ban_head and Whitelist_head, with what follows
  switch,  \* Whitelist_switch
  file,    \* banned-players.txt and whitelist.txt
  temp,    \* the file Save writes before it renames it; one that is left
           \* behind is only ever opened for writing, so it counts as missing
  login,   \* a thread that logs a player in: who, while it waits in CL_Check,
           \* and then what that has returned
  lost     \* names of each list whose change, says the log, is not on disk,
           \* or, if the list could not be read, is not in memory

call == <<pc, cur, who>>
disk == <<file, temp>>
lock == <<mutex, kept>>
vars == <<call, lock, mem, switch, disk, login, lost>>

Names(list) == {list[i] : i \in DOMAIN list}

(* What the file yields when it is read.  How much of a torn file would be *)
(* left is not modelled: it yields nothing.                                *)
Content(f) == IF f \in {Missing, Torn} THEN <<>> ELSE f

SavePoints == {"open", "write", "remove", "rename"}

(* The functions of the white list return at once while it is off.         *)
Enabled(l) == l = "white" => switch

Goto(from, to) == pc = from /\ pc' = to /\ UNCHANGED <<cur, who>>

Calls(to, l, p) == pc = "idle" /\ Enabled(l) /\ pc' = to /\ cur' = l /\ who' = p

Returns(from) == pc = from /\ pc' = "idle" /\ cur' = None /\ who' = None

Init ==
  /\ pc = "dead" /\ cur = None /\ who = None /\ mutex = "free" /\ kept = FALSE
  /\ mem = [l \in Lists |-> <<>>] /\ switch = FALSE
  /\ file = [l \in Lists |-> Missing] /\ temp = Missing
  /\ login = "none" /\ lost = [l \in Lists |-> {}]

-----------------------------------------------------------------------------
(* Mistakes.  Each is a definition below with something left out or wrong; *)
(* TLC finds the property named violated if it takes the place of that.    *)

DisableKeepsList ==          \* OneEntryPerName
  /\ pc = "idle" /\ switch /\ switch' = FALSE
  /\ UNCHANGED <<call, lock, mem, disk, login, lost>>

RemoveUnsaved(l, p) ==       \* OnlyReportedLost
  /\ pc = "idle" /\ Enabled(l) /\ p \in Names(mem[l])
  /\ mem' = [mem EXCEPT ![l] = RemoveFirst(@, p)]
  /\ UNCHANGED <<call, lock, switch, disk, login, lost>>

OpenInPlace ==               \* AFileIsWhole
  /\ Goto("open", "write") /\ mutex' = "ui"
  /\ file' = [file EXCEPT ![cur] = Torn] /\ temp' = Torn
  /\ UNCHANGED <<kept, mem, switch, login, lost>>

WriteReturnsLocked ==        \* LoginAnswered
  /\ Returns("write")
  /\ temp' = mem[cur]
  /\ UNCHANGED <<lock, mem, switch, file, login, lost>>

-----------------------------------------------------------------------------
(* Loading.                                                                *)

(* The file after it was opened: what it was; or, since one that cannot be *)
(* opened for reading is opened for writing, a new, empty one, whether or  *)
(* not there was one before.                                               *)
Opened(f) == {f, <<>>} \ {Missing}

(* A list is read from its file in front of what it holds, so in reverse.  *)
Load(l, onto) ==
  \E f \in Opened(file[l]) :
    /\ mem' = [mem EXCEPT ![l] = Reverse(Content(f)) \o onto]
    /\ file' = [file EXCEPT ![l] = f]
    /\ lost' = [lost EXCEPT ![l] = {}]

(* The file can be neither opened nor created; a log line says so.         *)
CannotLoad(l) ==
  /\ mem' = [mem EXCEPT ![l] = <<>>]
  /\ lost' = [lost EXCEPT ![l] = Player] /\ UNCHANGED file

CL_LoadBanList ==
  /\ pc = "idle"
  /\ Load("ban", <<>>) \/ CannotLoad("ban")
  /\ UNCHANGED <<call, lock, switch, temp, login>>

(* If the file can be neither opened nor created nothing changes.          *)
CL_EnableWhiteList ==
  /\ pc = "idle" /\ ~switch /\ switch' = TRUE
  /\ Load("white", mem["white"])
  /\ UNCHANGED <<call, lock, temp, login>>

CL_ReloadWhiteList ==
  /\ pc = "idle" /\ switch
  /\ Load("white", <<>>) \/ CannotLoad("white")
  /\ UNCHANGED <<call, lock, switch, temp, login>>

CL_DisabledWhiteList ==
  /\ pc = "idle" /\ switch /\ switch' = FALSE
  /\ mem' = [mem EXCEPT !["white"] = <<>>]
  /\ lost' = [lost EXCEPT !["white"] = {}]
  /\ UNCHANGED <<call, lock, disk, login>>

-----------------------------------------------------------------------------
(* Changing.                                                               *)

(* CL_BanListAdd and CL_WhiteListAdd; a name that is on the list already   *)
(* is not added.                                                           *)
ListAdd(l, p) ==
  /\ Calls("open", l, p) /\ p \notin Names(mem[l])
  /\ mem' = [mem EXCEPT ![l] = Cons(p, @)]
  /\ UNCHANGED <<lock, switch, disk, login, lost>>

(* CL_BanListRemove and CL_WhiteListRemove look at the name of the first   *)
(* entry without asking whether there is one; and the loop of the former   *)
(* walks on behind the entry it has removed, whether there is one or not.  *)
RunsPastTheEnd(l, p) ==
  \/ mem[l] = <<>>
  \/ l = "ban" /\ Len(mem[l]) > 1 /\ Last(mem[l]) = p

(* There is one entry of a name, the first, see OneEntryPerName.           *)
ListRemove(l, p) ==
  /\ Calls("open", l, p) /\ p \in Names(mem[l]) /\ ~RunsPastTheEnd(l, p)
  /\ mem' = [mem EXCEPT ![l] = RemoveFirst(@, p)]
  /\ UNCHANGED <<lock, switch, disk, login, lost>>

(* The process is gone, and with it everything but the files.              *)
Die ==
  /\ pc' = "dead" /\ cur' = None /\ who' = None
  /\ mutex' = "free" /\ kept' = FALSE
  /\ mem' = [l \in Lists |-> <<>>] /\ switch' = FALSE
  /\ login' = "none" /\ lost' = [l \in Lists |-> {}]
  /\ temp' = Missing /\ UNCHANGED file

RemoveCrashes(l, p) == pc = "idle" /\ Enabled(l) /\ RunsPastTheEnd(l, p) /\ Die

Killed == pc # "dead" /\ Die

(* The user interface loads the ban list before it does anything else.     *)
Restart ==
  /\ Goto("dead", "idle")
  /\ Load("ban", <<>>)
  /\ UNCHANGED <<lock, switch, temp, login>>

-----------------------------------------------------------------------------
(* Save.                                                                   *)

OpenTemp ==
  /\ Goto("open", "write") /\ mutex' = "ui"
  /\ temp' = Torn
  /\ UNCHANGED <<kept, mem, switch, file, login, lost>>

(* Save returns -1, and its caller logs that the change is lost when the   *)
(* program is started again.                                               *)
CannotOpenTemp ==
  /\ Returns("open")
  /\ lost' = [lost EXCEPT ![cur] = @ \union {who}]
  /\ UNCHANGED <<lock, mem, switch, disk, login>>

(* fprintf and fclose, remove, rename: nobody looks at what they return.   *)
Results(step, done, failed) ==
  {done} \union (IF step \in MayFail THEN {failed} ELSE {})

WriteTemp ==
  /\ Goto("write", "remove")
  /\ \E f \in Results("write", mem[cur], Torn) : temp' = f
  /\ UNCHANGED <<lock, mem, switch, file, login, lost>>

RemoveFile ==
  /\ Goto("remove", "rename")
  /\ \E f \in Results("remove", Missing, file[cur]) :
       file' = [file EXCEPT ![cur] = f]
  /\ UNCHANGED <<lock, mem, switch, temp, login, lost>>

(* On Windows rename fails if there still is a file of the new name.       *)
RenameTemp ==
  /\ Returns("rename") /\ mutex' = "free"
  /\ \E renamed \in Results("rename", file[cur] = Missing, FALSE) :
       file' = [file EXCEPT ![cur] = IF renamed THEN temp ELSE @]
  /\ temp' = Missing
  /\ lost' = [lost EXCEPT ![cur] = {}]
  /\ UNCHANGED <<kept, mem, switch, login>>

-----------------------------------------------------------------------------
(* CL_List walks a list and calls the user interface back for every entry, *)
(* under the mutex; for the white list it also opens a message box each    *)
(* time.                                                                   *)
CL_List(l) ==
  /\ Calls("list", l, None) /\ mutex' = "ui"
  /\ UNCHANGED <<kept, mem, switch, disk, login, lost>>

(* A list of any other number: -3 is returned, and the mutex stays with    *)
(* the thread of the user interface.  That thread gets it again whenever   *)
(* it asks, and has then released it once less than it got it.             *)
CL_ListUnknown ==
  /\ pc = "idle" /\ kept' = TRUE
  /\ UNCHANGED <<call, mutex, mem, switch, disk, login, lost>>

ListEnds ==
  /\ Returns("list") /\ mutex' = "free"
  /\ UNCHANGED <<kept, mem, switch, disk, login, lost>>

-----------------------------------------------------------------------------
(* A player logs in.                                                       *)

Login(p) ==
  /\ pc # "dead" /\ login \notin Player /\ login' = p
  /\ UNCHANGED <<call, lock, mem, switch, disk, lost>>

CL_Check ==
  /\ login \in Player /\ mutex = "free" /\ ~kept
  /\ login' = IF login \in Names(mem["ban"]) THEN "banned"
              ELSE IF switch => login \in Names(mem["white"]) THEN "success"
              ELSE "not on white list"
  /\ UNCHANGED <<call, lock, mem, switch, disk, lost>>

Save == OpenTemp \/ CannotOpenTemp \/ WriteTemp \/ RemoveFile \/ RenameTemp

Next ==
  \/ CL_LoadBanList \/ CL_EnableWhiteList \/ CL_ReloadWhiteList
  \/ CL_DisabledWhiteList
  \/ \E l \in Lists, p \in Player :
       ListAdd(l, p) \/ ListRemove(l, p) \/ RemoveCrashes(l, p)
  \/ \E l \in Lists : CL_List(l)
  \/ CL_ListUnknown
  \/ Save \/ ListEnds \/ Killed \/ Restart
  \/ \E p \in Player : Login(p)
  \/ CL_Check

(* Calls of the file system and of the user interface return, but message  *)
(* boxes are closed when the user likes.  The system serves those who wait *)
(* for a mutex in turn, so a login is not passed over for ever.            *)
Fairness == WF_vars(Save) /\ WF_vars(ListEnds /\ cur = "ban") /\ SF_vars(CL_Check)

Spec == Init /\ [][Next]_vars /\ Fairness

-----------------------------------------------------------------------------
(* A name is on a list at most once, so that one removal removes it.       *)
(* CL_EnableWhiteList reads the file in front of what is there, and counts *)
(* on CL_DisabledWhiteList to have left nothing.                           *)
OneEntryPerName == \A l \in Lists : IsInjective(mem[l])

(* However the process ends, it never leaves a half-written file under the *)
(* name from which the list is loaded (CheckLogin.c:303); and while Save   *)
(* has no file under that name, the temporary one holds the list as it is  *)
(* in memory, so that there is always a whole copy on disk.                *)
AFileIsWhole ==
  /\ \A l \in Lists : file[l] # Torn
  /\ pc = "rename" => temp = mem[cur]

(* "Writing the file failed, this change is lost when the program is       *)
(* started again", say CheckLogin.c:335, 379, 408 and 449: a change of     *)
(* which the log does not say so is on disk when the call returns.  So the *)
(* file and the list in memory differ in what was reported and, during a   *)
(* call, in the name it is about.  (Between the removal of the old file    *)
(* and the renaming of the new one, see AFileIsWhole.)                     *)
OnlyReportedLost ==
  \A l \in Lists : Enabled(l) /\ pc \notin {"dead", "rename"} =>
    SymDiff(Names(mem[l]), Names(Content(file[l])))
      \subseteq lost[l] \union (IF cur = l THEN {who} ELSE {})

(* Whoever logs in gets an answer, however the user interface's calls, the *)
(* saving of a list among them, follow each other.  There are two          *)
(* exceptions.  While CL_List shows its message boxes for the white list   *)
(* the mutex waits for the user (CheckLogin.c:56-66).  And after CL_List   *)
(* was asked for a list that there is not, it is never released again      *)
(* (CheckLogin.c:87-90), and nobody logs in until the program is restarted.*)
LoginAnswered ==
  login \in Player ~>
    login \notin Player \/ (pc = "list" /\ cur = "white") \/ kept
=============================================================================
