-------------------------- MODULE CheckLoginProofs --------------------------
(***************************************************************************)
(* Proofs about CheckLogin, for any set of players and lists of any        *)
(* length.                                                                 *)
(*                                                                         *)
(* That a name has one entry holds whatever fails, but only together with  *)
(* the same of the files, from which the lists are read, and with the      *)
(* white list being empty while it is off.  What Save promises of the      *)
(* files needs the calls it does not look at to succeed: the theorems name *)
(* those they need.                                                        *)
(***************************************************************************)
EXTENDS CheckLogin, ListProofs

Copies == {list \in Seq(Player) : IsInjective(list)}

Typed ==
  /\ pc \in {"idle", "dead", "list"} \union SavePoints
  /\ cur \in Lists \union {None} /\ who \in Player \union {None}
  /\ switch \in BOOLEAN
  /\ mem \in [Lists -> Copies]
  /\ file \in [Lists -> Copies \union {Missing, Torn}]
  /\ temp \in Copies \union {Missing, Torn}
  /\ lost \in [Lists -> SUBSET Player]

(* What the lists in memory are while nobody uses them, and what a call of *)
(* Save is about.                                                          *)
Calling ==
  /\ pc \in SavePoints => cur \in Lists /\ who \in Player
  /\ pc = "list" => cur \in Lists
  /\ ~switch => mem["white"] = <<>>
  /\ pc = "dead" => ~switch

IInv == Typed /\ Calling

(* Save has written what is in memory, and neither file is torn.           *)
Whole ==
  /\ \A l \in Lists : file[l] # Torn
  /\ pc \in {"remove", "rename"} => temp = mem[cur]

(* OnlyReportedLost for the list that is not being saved, too, while the   *)
(* other is between the removal and the renaming.                          *)
Differ(l) == SymDiff(Names(mem[l]), Names(Content(file[l])))

Reported ==
  /\ pc = "rename" => file[cur] = Missing
  /\ \A l \in Lists :
       Enabled(l) /\ pc # "dead" /\ ~(pc = "rename" /\ cur = l) =>
         Differ(l) \subseteq
           lost[l] \union (IF pc \in SavePoints /\ cur = l THEN {who} ELSE {})

-----------------------------------------------------------------------------
(* A list is read from its file in reverse.                                *)
LEMMA ReverseKeeps ==
  ASSUME NEW list \in Copies
  PROVE  Reverse(list) \in Copies /\ Names(Reverse(list)) = Names(list)
<1> DEFINE n == Len(list)
           new == Reverse(list)
<1>1. /\ n \in Nat /\ DOMAIN list = 1 .. n
      /\ \A i \in 1 .. n : list[i] \in Player
      /\ \A i, j \in 1 .. n : list[i] = list[j] => i = j
  BY LenProperties, ElementOfSeq DEF Copies, IsInjective
<1>2. new = [i \in 1 .. n |-> list[n - i + 1]]
  BY DEF Reverse
<1> HIDE DEF n, new
<1>3. DOMAIN new = 1 .. n /\ \A i \in 1 .. n : new[i] = list[n - i + 1]
  BY <1>2
<1>4. \A i \in 1 .. n : n - i + 1 \in 1 .. n
  BY <1>1, SMT
<1>5. new \in Seq(Player)
  <2>1. new \in [1 .. n -> Player]
    BY <1>1, <1>2, <1>4
  <2> QED
    BY <1>1, <2>1
<1>6. \A i, j \in DOMAIN new : new[i] = new[j] => i = j
  BY <1>1, <1>3, <1>4, SMT
<1>7. Names(new) = Names(list)
  <2>1. ASSUME NEW i \in DOMAIN new PROVE new[i] \in Names(list)
    BY <1>1, <1>3, <1>4 DEF Names
  <2>2. ASSUME NEW i \in DOMAIN list PROVE list[i] \in Names(new)
    <3>1. n - i + 1 \in DOMAIN new /\ list[i] = new[n - i + 1]
      BY <1>1, <1>3, SMT
    <3> QED
      BY <3>1 DEF Names
  <2> QED
    BY <2>1, <2>2 DEF Names
<1> QED
  BY <1>5, <1>6, <1>7 DEF Copies, IsInjective, new

LEMMA AddAdds ==
  ASSUME NEW list \in Copies, NEW p \in Player, p \notin Names(list)
  PROVE  /\ Cons(p, list) \in Copies
         /\ Names(Cons(p, list)) = Names(list) \union {p}
<1> DEFINE new == Cons(p, list)
<1>0. list \in Seq(Player)
  BY DEF Copies
<1>1. /\ Len(list) \in Nat /\ DOMAIN list = 1 .. Len(list) /\ list \in Seq(Player)
      /\ \A i, j \in 1 .. Len(list) : list[i] = list[j] => i = j
      /\ \A i \in 1 .. Len(list) : list[i] # p
  BY LenProperties DEF Copies, IsInjective, Names
<1>2. /\ new \in Seq(Player) /\ DOMAIN new = 1 .. Len(list) + 1
      /\ \A i \in 1 .. Len(list) + 1 : new[i] = IF i = 1 THEN p ELSE list[i - 1]
  BY <1>0, ConsAdds
<1>3. Range(new) = {p} \union Range(list)
  BY <1>0, ConsElements
<1> HIDE DEF new
<1>4. \A i, j \in DOMAIN new : new[i] = new[j] => i = j
  BY <1>1, <1>2, SMTT(20)
<1> QED
  BY <1>2, <1>3, <1>4, Zenon DEF Copies, IsInjective, Names, Range, new

(* The name is gone, because it was on the list once.                      *)
LEMMA RemoveRemoves ==
  ASSUME NEW list \in Copies, NEW p \in Names(list)
  PROVE  /\ RemoveFirst(list, p) \in Copies
         /\ Names(RemoveFirst(list, p)) = Names(list) \ {p}
<1>1. /\ Len(list) \in Nat /\ DOMAIN list = 1 .. Len(list) /\ list \in Seq(Player)
      /\ \A i, j \in 1 .. Len(list) : list[i] = list[j] => i = j
  BY LenProperties DEF Copies, IsInjective
<1>2. PICK k \in 1 .. Len(list) : list[k] = p
  BY <1>1 DEF Names
<1> DEFINE I == {i \in 1 .. Len(list) : list[i] = p}
           new == RemoveAt(list, k)
<1>3. I = {k}
  BY <1>1, <1>2
<1>4. Min(I) = k
  BY <1>1, <1>3, SMT DEF Min
<1>5. SelectInSeq(list, LAMBDA v : v = p) = k
  BY <1>3, <1>4, Zenon DEF SelectInSeq
<1>6. RemoveFirst(list, p) = new
  BY <1>2, <1>5, Zenon DEF RemoveFirst
<1>7. /\ new \in Seq(Player) /\ DOMAIN new = 1 .. Len(list) - 1
      /\ \A i \in 1 .. Len(list) - 1 :
           new[i] = IF i < k THEN list[i] ELSE list[i + 1]
  BY <1>1, RemoveAtRemoves
<1>8. Range(new) = {list[i] : i \in DOMAIN list \ {k}}
  BY <1>1, RemoveAtElements
<1> HIDE DEF new
<1>9. \A i, j \in DOMAIN new : new[i] = new[j] => i = j
  BY <1>1, <1>7, SMTT(20)
<1>10. {list[i] : i \in DOMAIN list \ {k}} = Names(list) \ {p}
  BY <1>1, <1>2 DEF Names
<1>11. Names(new) = Names(list) \ {p}
  BY <1>8, <1>10 DEF Names, Range
<1> QED
  BY <1>6, <1>7, <1>9, <1>11 DEF Copies, IsInjective

LEMMA EmptyCopy == <<>> \in Copies /\ Names(<<>>) = {}
BY DEF Copies, IsInjective, Names

(* The text that stands for no file or a torn one is nobody's list.        *)
LEMMA NoFile ==
  /\ Missing \notin Copies /\ Torn \notin Copies /\ Missing # Torn
  /\ \A f \in Copies \union {Missing, Torn} : Content(f) \in Copies
  /\ \A f \in Copies : Content(f) = f
<1>1. ASSUME NEW s, s \in {"missing", "torn"} PROVE <<s>> \notin Copies
  <2>1. s \notin Player
    BY <1>1, LoginAssumption
  <2>2. SUFFICES ASSUME <<s>> \in Seq(Player) PROVE FALSE
    BY DEF Copies
  <2>3. <<s>>[1] \in Player
    BY <2>2, ElementOfSeq
  <2> QED
    BY <2>1, <2>3
<1>2. Missing # Torn
  BY DEF Missing, Torn
<1> QED
  BY <1>1, <1>2, EmptyCopy DEF Missing, Torn, Content

(* What is in memory after a list was loaded is what is in its file.       *)
LEMMA LoadLoads ==
  ASSUME Typed, NEW l \in Lists, Load(l, <<>>)
  PROVE  /\ mem' \in [Lists -> Copies] /\ lost' \in [Lists -> SUBSET Player]
         /\ file' \in [Lists -> Copies \union {Missing, Torn}]
         /\ \A m \in Lists \ {l} : /\ mem'[m] = mem[m] /\ lost'[m] = lost[m]
                                   /\ file'[m] = file[m]
         /\ file[l] # Torn => file'[l] # Torn
         /\ Differ(l)' = {}
<1>0. PICK f \in Opened(file[l]) :
        /\ mem' = [mem EXCEPT ![l] = Reverse(Content(f)) \o <<>>]
        /\ file' = [file EXCEPT ![l] = f]
        /\ lost' = [lost EXCEPT ![l] = {}]
  BY DEF Load
<1> DEFINE loaded == Reverse(Content(f))
<1>1. f \in Copies \union {Torn} /\ (file[l] # Torn => f # Torn)
  BY EmptyCopy, NoFile DEF Typed, Opened
<1>2. Content(f) \in Copies
  BY <1>1, NoFile
<1>3. loaded \in Copies /\ Names(loaded) = Names(Content(f))
  BY <1>2, ReverseKeeps
<1>4. loaded \o <<>> = loaded
  BY <1>3, ConcatEmptySeq DEF Copies
<1>5. mem' = [mem EXCEPT ![l] = loaded]
  BY <1>0, <1>4
<1> HIDE DEF loaded
<1>7. mem' \in [Lists -> Copies] /\ \A m \in Lists \ {l} : mem'[m] = mem[m]
  BY <1>3, <1>5 DEF Typed
<1>8. lost' \in [Lists -> SUBSET Player] /\ \A m \in Lists \ {l} : lost'[m] = lost[m]
  BY <1>0 DEF Typed
<1>9. /\ file' \in [Lists -> Copies \union {Missing, Torn}]
      /\ file'[l] = f
      /\ \A m \in Lists \ {l} : file'[m] = file[m]
  BY <1>0, <1>1 DEF Typed
<1>10. Names(mem'[l]) = Names(Content(file'[l]))
  BY <1>3, <1>5, <1>9 DEF Typed
<1>11. Differ(l)' = {}
  BY <1>10 DEF Differ, SymDiff
<1> QED
  BY <1>1, <1>7, <1>8, <1>9, <1>11

LEMMA CannotLoadEmpties ==
  ASSUME Typed, NEW l \in Lists, CannotLoad(l)
  PROVE  /\ mem' \in [Lists -> Copies] /\ lost' \in [Lists -> SUBSET Player]
         /\ file' = file
         /\ \A m \in Lists \ {l} : mem'[m] = mem[m] /\ lost'[m] = lost[m]
         /\ lost'[l] = Player
BY EmptyCopy DEF Typed, CannotLoad

-----------------------------------------------------------------------------
LEMMA InitIInv == Init => IInv
<1> SUFFICES ASSUME Init PROVE IInv
  OBVIOUS
<1>1. mem \in [Lists -> Copies] /\ lost \in [Lists -> SUBSET Player]
  BY EmptyCopy DEF Init
<1>2. file \in [Lists -> Copies \union {Missing, Torn}]
  BY DEF Init
<1>3. mem["white"] = <<>>
  BY DEF Init, Lists
<1> QED
  BY <1>1, <1>2, <1>3 DEF Init, IInv, Typed, Calling, SavePoints

LEMMA NextIInv == IInv /\ [Next]_vars => IInv'
<1>0. SUFFICES ASSUME IInv, [Next]_vars PROVE IInv'
  OBVIOUS
<1>a. Typed /\ Calling
  BY <1>0 DEF IInv
<1>b. "ban" \in Lists /\ "white" \in Lists /\ "ban" # "white"
  BY DEF Lists
<1> USE LoginAssumption DEF IInv, Calling, call, disk, SavePoints, Goto, Calls, Returns
<1>1. CASE CL_LoadBanList
  <2>1. UNCHANGED <<call, switch, temp>> /\ pc = "idle"
    BY <1>1 DEF CL_LoadBanList
  <2>2. CASE Load("ban", <<>>)
    BY <1>a, <1>b, <2>1, <2>2, LoadLoads DEF Typed
  <2>3. CASE CannotLoad("ban")
    BY <1>a, <1>b, <2>1, <2>3, CannotLoadEmpties DEF Typed
  <2> QED
    BY <1>1, <2>2, <2>3 DEF CL_LoadBanList
<1>2. CASE CL_EnableWhiteList
  <2>1. UNCHANGED <<call, temp>> /\ pc = "idle" /\ switch' = TRUE
    BY <1>2 DEF CL_EnableWhiteList
  <2>2. Load("white", <<>>)
    BY <1>a, <1>2 DEF CL_EnableWhiteList
  <2> QED
    BY <1>a, <1>b, <2>1, <2>2, LoadLoads DEF Typed
<1>3. CASE CL_ReloadWhiteList
  <2>1. UNCHANGED <<call, switch, temp>> /\ pc = "idle" /\ switch
    BY <1>3 DEF CL_ReloadWhiteList
  <2>2. CASE Load("white", <<>>)
    BY <1>a, <1>b, <2>1, <2>2, LoadLoads DEF Typed
  <2>3. CASE CannotLoad("white")
    BY <1>a, <1>b, <2>1, <2>3, CannotLoadEmpties DEF Typed
  <2> QED
    BY <1>3, <2>2, <2>3 DEF CL_ReloadWhiteList
<1>4. CASE CL_DisabledWhiteList
  BY <1>a, <1>b, <1>4, EmptyCopy DEF CL_DisabledWhiteList, Typed
<1>5. ASSUME NEW l \in Lists, NEW p \in Player, ListAdd(l, p) PROVE IInv'
  <2>1. mem[l] \in Copies /\ p \notin Names(mem[l])
    BY <1>a, <1>5 DEF ListAdd, Typed
  <2>2. Cons(p, mem[l]) \in Copies
    BY <2>1, AddAdds
  <2>3. mem' = [mem EXCEPT ![l] = Cons(p, mem[l])]
    BY <1>5 DEF ListAdd
  <2>4. mem' \in [Lists -> Copies]
    BY <1>a, <2>2, <2>3 DEF Typed
  <2>5. ~switch => mem'["white"] = <<>>
    BY <1>a, <1>b, <1>5, <2>3 DEF ListAdd, Enabled
  <2> QED
    BY <1>a, <1>5, <2>4, <2>5 DEF ListAdd, Typed
<1>6. ASSUME NEW l \in Lists, NEW p \in Player, ListRemove(l, p) PROVE IInv'
  <2>1. mem[l] \in Copies /\ p \in Names(mem[l])
    BY <1>a, <1>6 DEF ListRemove, Typed
  <2>2. RemoveFirst(mem[l], p) \in Copies
    BY <2>1, RemoveRemoves
  <2>3. mem' = [mem EXCEPT ![l] = RemoveFirst(mem[l], p)]
    BY <1>6 DEF ListRemove
  <2>4. mem' \in [Lists -> Copies]
    BY <1>a, <2>2, <2>3 DEF Typed
  <2>5. ~switch => mem'["white"] = <<>>
    BY <1>a, <1>b, <1>6, <2>3 DEF ListRemove, Enabled
  <2> QED
    BY <1>a, <1>6, <2>4, <2>5 DEF ListRemove, Typed
<1>7. ASSUME Die PROVE IInv'
  BY <1>a, <1>7, EmptyCopy DEF Die, Typed, Lists
<1>8. CASE Restart
  <2>1. UNCHANGED <<cur, who, switch, temp>> /\ pc' = "idle"
    BY <1>8 DEF Restart
  <2>2. Load("ban", <<>>)
    BY <1>8 DEF Restart
  <2> QED
    BY <1>a, <1>b, <2>1, <2>2, LoadLoads DEF Typed
<1>9. CASE OpenTemp \/ WriteTemp
  <2>1. temp' \in Copies \union {Missing, Torn}
    BY <1>a, <1>9 DEF OpenTemp, WriteTemp, Typed, Results
  <2> QED
    BY <1>a, <1>9, <2>1 DEF OpenTemp, WriteTemp, Typed
<1>10. CASE CannotOpenTemp
  <2>1. cur \in Lists /\ who \in Player
    BY <1>a, <1>10 DEF CannotOpenTemp
  <2>2. lost' \in [Lists -> SUBSET Player]
    BY <1>a, <1>10, <2>1 DEF CannotOpenTemp, Typed
  <2> QED
    BY <1>a, <1>10, <2>2 DEF CannotOpenTemp, Typed
<1>11. CASE RemoveFile
  <2>1. cur \in Lists
    BY <1>a, <1>11 DEF RemoveFile
  <2>2. file' \in [Lists -> Copies \union {Missing, Torn}]
    BY <1>a, <1>11, <2>1 DEF RemoveFile, Typed, Results
  <2> QED
    BY <1>a, <1>11, <2>2 DEF RemoveFile, Typed
<1>12. CASE RenameTemp
  <2>1. cur \in Lists
    BY <1>a, <1>12 DEF RenameTemp
  <2>2. /\ file' \in [Lists -> Copies \union {Missing, Torn}]
        /\ lost' \in [Lists -> SUBSET Player]
    BY <1>a, <1>12, <2>1 DEF RenameTemp, Typed
  <2> QED
    BY <1>a, <1>12, <2>2 DEF RenameTemp, Typed
<1>13. ASSUME NEW l \in Lists, CL_List(l) PROVE IInv'
  BY <1>a, <1>13 DEF CL_List, Typed
<1>14. CASE ListEnds
  BY <1>a, <1>14 DEF ListEnds, Typed
<1>15. CASE CL_Check \/ (\E p \in Player : Login(p)) \/ CL_ListUnknown \/ UNCHANGED vars
  <2>1. UNCHANGED <<call, mem, switch, disk, lost>>
    BY <1>15 DEF CL_Check, Login, CL_ListUnknown, vars
  <2> QED
    BY <1>a, <2>1 DEF Typed
<1> QED
  BY <1>0, <1>1, <1>2, <1>3, <1>4, <1>5, <1>6, <1>7, <1>8, <1>9, <1>10, <1>11,
     <1>12, <1>13, <1>14, <1>15 DEF Next, Save, RemoveCrashes, Killed

-----------------------------------------------------------------------------
(* Save and the files.                                                     *)
LEMMA InitWhole == Init => Whole
BY NoFile DEF Init, Whole

LEMMA NextWhole ==
  ASSUME "write" \notin MayFail PROVE IInv /\ Whole /\ [Next]_vars => Whole'
<1>0. SUFFICES ASSUME IInv, Whole, [Next]_vars PROVE Whole'
  OBVIOUS
<1>a. Typed /\ Calling
  BY <1>0 DEF IInv
<1>b. "ban" \in Lists /\ "white" \in Lists
  BY DEF Lists
<1>c. ASSUME NEW l \in Lists, Load(l, <<>>), pc' \notin {"remove", "rename"}
      PROVE  Whole'
  BY <1>0, <1>a, <1>c, LoadLoads DEF Whole
<1>d. ASSUME file' = file, pc' \notin {"remove", "rename"} PROVE Whole'
  BY <1>0, <1>d DEF Whole
<1> USE DEF call, disk, Goto, Calls, Returns
<1>1. CASE CL_LoadBanList
  BY <1>b, <1>c, <1>d, <1>1 DEF CL_LoadBanList, CannotLoad
<1>2. CASE CL_EnableWhiteList
  <2>1. Load("white", <<>>)
    BY <1>a, <1>2 DEF CL_EnableWhiteList, Calling
  <2> QED
    BY <1>b, <1>c, <1>2, <2>1 DEF CL_EnableWhiteList
<1>3. CASE CL_ReloadWhiteList
  BY <1>b, <1>c, <1>d, <1>3 DEF CL_ReloadWhiteList, CannotLoad
<1>4. CASE CL_DisabledWhiteList
  BY <1>d, <1>4 DEF CL_DisabledWhiteList
<1>5. ASSUME NEW l \in Lists, NEW p \in Player, ListAdd(l, p) \/ ListRemove(l, p)
      PROVE  Whole'
  BY <1>d, <1>5 DEF ListAdd, ListRemove
<1>6. CASE Die
  BY <1>d, <1>6 DEF Die
<1>7. CASE Restart
  BY <1>b, <1>c, <1>7 DEF Restart
<1>8. CASE OpenTemp \/ CannotOpenTemp
  BY <1>d, <1>8 DEF OpenTemp, CannotOpenTemp
<1>9. CASE WriteTemp
  <2>1. temp' = mem[cur] /\ UNCHANGED <<cur, mem, file>>
    BY <1>9 DEF WriteTemp, Results
  <2> QED
    BY <1>0, <2>1 DEF Whole
<1>10. CASE RemoveFile
  <2>1. \A l \in Lists : file'[l] # Torn
    BY <1>0, <1>a, <1>10, NoFile DEF RemoveFile, Results, Whole, Typed
  <2> QED
    BY <1>0, <1>10, <2>1 DEF RemoveFile, Whole
<1>11. CASE RenameTemp
  <2>1. temp \in Copies
    BY <1>0, <1>a, <1>11 DEF RenameTemp, Whole, Typed, Calling, SavePoints
  <2>2. \A l \in Lists : file'[l] # Torn
    BY <1>0, <1>a, <1>11, <2>1, NoFile DEF RenameTemp, Whole, Typed
  <2> QED
    BY <1>11, <2>2 DEF RenameTemp, Whole
<1>12. ASSUME NEW l \in Lists, CL_List(l) PROVE Whole'
  BY <1>d, <1>12 DEF CL_List
<1>13. CASE ListEnds
  BY <1>d, <1>13 DEF ListEnds
<1>14. CASE CL_Check \/ (\E p \in Player : Login(p)) \/ CL_ListUnknown \/ UNCHANGED vars
  BY <1>0, <1>14 DEF CL_Check, Login, CL_ListUnknown, vars, Whole
<1> QED
  BY <1>0, <1>1, <1>2, <1>3, <1>4, <1>5, <1>6, <1>7, <1>8, <1>9, <1>10, <1>11,
     <1>12, <1>13, <1>14 DEF Next, Save, RemoveCrashes, Killed

LEMMA InitReported == Init => Reported
BY DEF Init, Reported

LEMMA NextReported ==
  ASSUME MayFail = {} PROVE IInv /\ Whole /\ Reported /\ [Next]_vars => Reported'
<1>0. SUFFICES ASSUME IInv, Whole, Reported, [Next]_vars PROVE Reported'
  OBVIOUS
<1>a. Typed /\ Calling
  BY <1>0 DEF IInv
<1>b. "ban" \in Lists /\ "white" \in Lists /\ Lists = {"ban", "white"}
  BY DEF Lists
<1> DEFINE Known(l) == Differ(l) \subseteq
             lost[l] \union (IF pc \in SavePoints /\ cur = l THEN {who} ELSE {})
(* Between the calls of Save every difference is a reported one.           *)
<1>c. ASSUME pc = "idle", NEW l \in Lists, Enabled(l)
      PROVE  Differ(l) \subseteq lost[l]
  BY <1>0, <1>c DEF Reported, SavePoints
<1>d. ASSUME NEW l \in Lists, Typed' PROVE Differ(l)' \subseteq Player
  <2>1. mem'[l] \in Copies /\ Content(file'[l]) \in Copies
    BY <1>d, NoFile DEF Typed
  <2>2. \A list \in Copies : Names(list) \subseteq Player
    BY LenProperties, ElementOfSeq DEF Copies, Names
  <2> QED
    BY <2>1, <2>2 DEF Differ, SymDiff
<1>e. Typed'
  BY <1>0, NextIInv DEF IInv
(* A list that a step leaves alone, with its file.                         *)
<1>f. ASSUME NEW l \in Lists, mem'[l] = mem[l], file'[l] = file[l]
      PROVE  Differ(l)' = Differ(l)
  BY <1>f DEF Differ
<1>g. ASSUME NEW k \in Lists, pc = "idle", pc' = "idle", Load(k, <<>>),
             \A l \in Lists \ {k} : Enabled(l)' => Enabled(l)
      PROVE  Reported'
  <2>1. ASSUME NEW l \in Lists, Enabled(l)' PROVE Known(l)'
    <3>1. CASE l = k
      BY <1>a, <1>g, <3>1, LoadLoads
    <3>2. CASE l # k
      <4>1. mem'[l] = mem[l] /\ file'[l] = file[l] /\ lost'[l] = lost[l]
        BY <1>a, <1>g, <3>2, LoadLoads
      <4> QED
        BY <1>c, <1>f, <1>g, <2>1, <3>2, <4>1
    <3> QED
      BY <3>1, <3>2
  <2> QED
    BY <1>g, <2>1 DEF Reported
<1>h. ASSUME NEW k \in Lists, pc = "idle", pc' = "idle", CannotLoad(k),
             switch' = switch
      PROVE  Reported'
  <2>1. ASSUME NEW l \in Lists, Enabled(l)' PROVE Known(l)'
    <3>1. CASE l = k
      BY <1>a, <1>d, <1>e, <1>h, <3>1, CannotLoadEmpties
    <3>2. CASE l # k
      <4>1. mem'[l] = mem[l] /\ file'[l] = file[l] /\ lost'[l] = lost[l]
        BY <1>a, <1>h, <3>2, CannotLoadEmpties
      <4> QED
        BY <1>c, <1>f, <1>h, <2>1, <3>2, <4>1 DEF Enabled
    <3> QED
      BY <3>1, <3>2
  <2> QED
    BY <1>h, <2>1 DEF Reported
<1>i. ASSUME UNCHANGED <<mem, file, lost, switch>>, pc # "dead", pc' # "dead",
             pc # "rename", pc' # "rename",
             pc \in SavePoints => pc' \in SavePoints /\ cur' = cur /\ who' = who
      PROVE  Reported'
  BY <1>0, <1>i DEF Reported, Differ, Enabled
<1> USE DEF call, disk, Goto, Calls, Returns
<1>1. CASE CL_LoadBanList
  BY <1>b, <1>g, <1>h, <1>1 DEF CL_LoadBanList, Enabled
<1>2. CASE CL_EnableWhiteList
  <2>1. Load("white", <<>>)
    BY <1>a, <1>2 DEF CL_EnableWhiteList, Calling
  <2> QED
    BY <1>b, <1>g, <1>2, <2>1 DEF CL_EnableWhiteList, Enabled
<1>3. CASE CL_ReloadWhiteList
  BY <1>b, <1>g, <1>h, <1>3 DEF CL_ReloadWhiteList, Enabled
<1>4. CASE CL_DisabledWhiteList
  <2>1. \A l \in Lists : Enabled(l)' => l = "ban" /\ Enabled(l)
    BY <1>b, <1>4 DEF CL_DisabledWhiteList, Enabled
  <2>2. mem'["ban"] = mem["ban"] /\ file' = file /\ lost'["ban"] = lost["ban"]
    BY <1>a, <1>b, <1>4 DEF CL_DisabledWhiteList, Typed
  <2>3. pc = "idle" /\ pc' = "idle"
    BY <1>4 DEF CL_DisabledWhiteList
  <2> QED
    BY <1>b, <1>c, <1>f, <2>1, <2>2, <2>3 DEF Reported
<1>5. ASSUME NEW k \in Lists, NEW p \in Player, ListAdd(k, p) \/ ListRemove(k, p)
      PROVE  Reported'
  <2>1. /\ pc = "idle" /\ pc' = "open" /\ cur' = k /\ who' = p
        /\ UNCHANGED <<switch, file, lost>>
    BY <1>5 DEF ListAdd, ListRemove
  <2>2. Names(mem'[k]) \in {Names(mem[k]) \union {p}, Names(mem[k]) \ {p}}
    BY <1>a, <1>5, AddAdds, RemoveRemoves DEF ListAdd, ListRemove, Typed
  <2>3. Differ(k)' \subseteq Differ(k) \union {p}
    BY <2>1, <2>2 DEF Differ, SymDiff
  <2>4. \A l \in Lists \ {k} : mem'[l] = mem[l]
    BY <1>a, <1>5 DEF ListAdd, ListRemove, Typed
  <2>5. ASSUME NEW l \in Lists, Enabled(l)' PROVE Known(l)'
    <3>1. Enabled(l)
      BY <2>1, <2>5 DEF Enabled
    <3>2. CASE l = k
      BY <1>c, <2>1, <2>3, <3>1, <3>2 DEF SavePoints
    <3>3. CASE l # k
      BY <1>c, <1>f, <2>1, <2>4, <3>1, <3>3
    <3> QED
      BY <3>2, <3>3
  <2> QED
    BY <2>1, <2>5 DEF Reported
<1>6. CASE Die
  BY <1>6 DEF Die, Reported
<1>7. CASE Restart
  <2>1. /\ Load("ban", <<>>) /\ pc' = "idle"
        /\ \A l \in Lists : Enabled(l)' => l = "ban"
    BY <1>a, <1>b, <1>7 DEF Restart, Enabled, Calling
  <2> QED
    BY <1>a, <1>b, <2>1, LoadLoads DEF Reported
<1>8. CASE OpenTemp \/ WriteTemp
  BY <1>i, <1>8 DEF OpenTemp, WriteTemp, SavePoints
<1>9. CASE CannotOpenTemp
  <2>1. cur \in Lists /\ who \in Player
    BY <1>a, <1>9 DEF CannotOpenTemp, Calling, SavePoints
  <2>2. /\ pc = "open" /\ pc' = "idle" /\ UNCHANGED <<mem, file, switch>>
        /\ lost'[cur] = lost[cur] \union {who}
        /\ \A l \in Lists \ {cur} : lost'[l] = lost[l]
    BY <1>a, <1>9, <2>1 DEF CannotOpenTemp, Typed
  <2> QED
    BY <1>0, <2>1, <2>2 DEF Reported, Differ, Enabled
<1>10. CASE RemoveFile
  <2>1. cur \in Lists
    BY <1>a, <1>10 DEF RemoveFile, Calling, SavePoints
  <2>2. /\ file'[cur] = Missing
        /\ \A l \in Lists \ {cur} : file'[l] = file[l]
    BY <1>a, <1>10, <2>1 DEF RemoveFile, Typed, Results
  <2>3. /\ pc = "remove" /\ pc' = "rename" /\ cur' = cur
        /\ UNCHANGED <<mem, lost, switch>>
    BY <1>10 DEF RemoveFile
  <2> QED
    BY <1>0, <1>f, <2>2, <2>3 DEF Reported, Enabled
<1>11. CASE RenameTemp
  <2>1. cur \in Lists
    BY <1>a, <1>11 DEF RenameTemp, Calling, SavePoints
  <2>2. temp = mem[cur] /\ file[cur] = Missing
    BY <1>0, <1>11 DEF RenameTemp, Whole, Reported
  <2>3. /\ file'[cur] = mem[cur] /\ \A l \in Lists \ {cur} : file'[l] = file[l]
        /\ lost' = [lost EXCEPT ![cur] = {}]
    BY <1>a, <1>11, <2>1, <2>2 DEF RenameTemp, Typed, Results
  <2>4. pc = "rename" /\ pc' = "idle" /\ UNCHANGED <<mem, switch>>
    BY <1>11 DEF RenameTemp
  <2>5. ASSUME NEW l \in Lists, Enabled(l)' PROVE Known(l)'
    <3>1. CASE l = cur
      <4>1. Content(file'[l]) = mem'[l]
        BY <1>a, <2>3, <2>4, <3>1, NoFile DEF Typed
      <4>2. Differ(l)' = {}
        BY <4>1 DEF Differ, SymDiff
      <4> QED
        BY <4>2
    <3>2. CASE l # cur
      <4>1. lost'[l] = lost[l]
        BY <1>a, <2>1, <2>3, <3>2 DEF Typed
      <4>2. Differ(l)' = Differ(l)
        BY <1>f, <2>3, <2>4, <3>2
      <4>3. Differ(l) \subseteq lost[l]
        BY <1>0, <2>4, <2>5, <3>2 DEF Reported, Enabled
      <4> QED
        BY <4>1, <4>2, <4>3
    <3> QED
      BY <3>1, <3>2
  <2> QED
    BY <2>4, <2>5 DEF Reported
<1>12. ASSUME NEW l \in Lists, CL_List(l) PROVE Reported'
  BY <1>i, <1>12 DEF CL_List, SavePoints
<1>13. CASE ListEnds
  BY <1>i, <1>13 DEF ListEnds, SavePoints
<1>14. CASE CL_Check \/ (\E p \in Player : Login(p)) \/ CL_ListUnknown \/ UNCHANGED vars
  <2>1. UNCHANGED <<call, mem, switch, disk, lost>>
    BY <1>14 DEF CL_Check, Login, CL_ListUnknown, vars
  <2> QED
    BY <1>0, <2>1 DEF Reported, Differ, Enabled
<1> QED
  BY <1>0, <1>1, <1>2, <1>3, <1>4, <1>5, <1>6, <1>7, <1>8, <1>9, <1>10, <1>11,
     <1>12, <1>13, <1>14 DEF Next, Save, RemoveCrashes, Killed

-----------------------------------------------------------------------------
LEMMA Invariance == Spec => []IInv
<1> QED
  BY InitIInv, NextIInv, PTL DEF Spec

(* A name is on a list at most once, whatever fails: CL_EnableWhiteList    *)
(* reads the file onto a list that CL_DisabledWhiteList left empty, and no *)
(* file ever has a name twice (CheckLogin.c:134, 174 and 308).             *)
THEOREM NamesAreUnique == Spec => []OneEntryPerName
<1>1. IInv => OneEntryPerName
  BY DEF IInv, Typed, Copies, OneEntryPerName
<1> QED
  BY <1>1, Invariance, PTL

(* If only what is written reaches the file, there is never a half-written *)
(* one under the name from which a list is loaded, and a whole copy while  *)
(* there is no file under it, wherever the process is killed, and also if  *)
(* remove and rename fail (CheckLogin.c:303).                              *)
THEOREM FilesAreWhole == "write" \notin MayFail => (Spec => []AFileIsWhole)
<1> SUFFICES ASSUME "write" \notin MayFail PROVE Spec => []AFileIsWhole
  OBVIOUS
<1>1. IInv /\ Whole /\ [Next]_vars => Whole'
  BY NextWhole
<1>2. Whole => AFileIsWhole
  BY DEF Whole, AFileIsWhole
<1> QED
  BY <1>1, <1>2, InitWhole, Invariance, PTL DEF Spec

(* If the calls of the file system succeed that nobody looks at, then      *)
(* memory and file differ in nothing but what the log says is lost, and in *)
(* the name a call in progress is about (CheckLogin.c:335, 379, 408, 449). *)
THEOREM LossesAreReported == MayFail = {} => (Spec => []OnlyReportedLost)
<1> SUFFICES ASSUME MayFail = {} PROVE Spec => []OnlyReportedLost
  OBVIOUS
<1>1. IInv /\ Whole /\ [Next]_vars => Whole'
  BY NextWhole
<1>2. IInv /\ Whole /\ Reported /\ [Next]_vars => Reported'
  BY NextReported
<1>3. Reported => OnlyReportedLost
  BY DEF Reported, OnlyReportedLost, Differ
<1> QED
  BY <1>1, <1>2, <1>3, InitWhole, InitReported, Invariance, PTL DEF Spec
=============================================================================
