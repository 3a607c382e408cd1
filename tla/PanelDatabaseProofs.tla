------------------------- MODULE PanelDatabaseProofs -------------------------
(***************************************************************************)
(* Type correctness of PanelDatabase, and the proof that an import that    *)
(* has the panel to itself is atomic, whatever fails; that one that is     *)
(* reported as done is served, and that passwords are hashed once.         *)
(***************************************************************************)
EXTENDS PanelDatabase, TLAPS

-----------------------------------------------------------------------------
(* Files and handles.                                                      *)

LEMMA StoredType ==
    ASSUME NEW data \in Data, NEW pass \in Password
    PROVE  Stored(data, pass) \in File
BY Zenon DEF Stored, File

LEMMA ContentsAreFiles ==
    /\ Blank \in File /\ Partial \in File /\ Uploads \subseteq File
    /\ \A pass \in {"plain", "hashed"} : Stored("old", pass) \in File
<1>1. {"old", "new", "empty"} \subseteq Data
      /\ {"none", "plain", "hashed"} \subseteq Password
  BY DEF Data, Password
<1>2. Partial \in File
  BY DEF Partial, File, Data, Password
<1> QED
  BY <1>1, <1>2, StoredType DEF Blank, Uploads

LEMMA FilesHaveData == ASSUME NEW f \in File
                       PROVE  f # NoFile /\ f.data \in Data
BY NoFileAssumption DEF File

LEMMA RenameType ==
    ASSUME TypeOK, NEW from \in Path, NEW to \in Path, Rename(from, to)
    PROVE  /\ files' \in [Path -> File \cup {NoFile}]
           /\ conn' \in Handle
           /\ upload' \in [Import -> Handle]
BY DEF TypeOK, Rename, Moved, Handle

LEMMA RemoveType ==
    ASSUME TypeOK, NEW f \in Path, Remove(f)
    PROVE  /\ files' \in [Path -> File \cup {NoFile}]
           /\ conn' \in Handle
           /\ upload' \in [Import -> Handle]
BY DEF TypeOK, Remove, Unlinked, Handle

LEMMA GotoType ==
    ASSUME TypeOK,
           \/ \E i \in Import : \E to \in ImportPlace : Goto(i, to)
           \/ \E to \in MainPlace : Goto(Main, to)
    PROVE  /\ place' \in [Import \cup {Main} -> MainPlace \cup ImportPlace]
           /\ place'[Main] \in MainPlace
           /\ \A i \in Import : place'[i] \in ImportPlace
BY PanelDatabaseAssumption DEF TypeOK, Goto, PanelDatabaseAssumption

LEMMA WriteType ==
    ASSUME TypeOK, Exists("db"),
           (\E pass \in Password : WritePass(pass)) \/ RecordSeeded
    PROVE  /\ files' \in [Path -> File \cup {NoFile}]
           /\ Exists("db")' /\ Db'.data = Db.data
           /\ \A f \in Path \ {"db"} : files'[f] = files[f]
<1>1. Db \in File
  BY DEF TypeOK, Exists, Path, Db
<1>2. [Db EXCEPT !.seeded = TRUE] \in File
  BY <1>1 DEF File
<1>3. \A pass \in Password : [Db EXCEPT !.pass = pass] \in File
  BY <1>1 DEF File
<1>4. PICK r \in File : files' = [files EXCEPT !["db"] = r] /\ r.data = Db.data
  BY <1>1, <1>2, <1>3 DEF WritePass, RecordSeeded, Db, File, TypeOK, Path
<1>5. r # NoFile
  BY NoFileAssumption
<1> QED
  BY <1>4, <1>5 DEF TypeOK, Path, Exists, Db

LEMMA FailureType ==
    ASSUME TypeOK, Failure \/ UNCHANGED fails
    PROVE  fails' \in 0..MaxFail
BY PanelDatabaseAssumption DEF TypeOK, Failure, PanelDatabaseAssumption

\* A restart that fails leaves xray as it was, or stopped.
LEMMA RestartType ==
    ASSUME TypeOK, RestartFails
    PROVE  /\ fails' \in 0..MaxFail /\ xray' \in BOOLEAN
           /\ \/ fails' = fails + 1
              \/ conn = "closed" /\ fails' = fails
<1>1. xray' \in BOOLEAN
  BY Zenon DEF RestartFails, TypeOK
<1>2. Failure \/ (conn = "closed" /\ UNCHANGED fails)
  BY DEF RestartFails
<1> QED
  BY <1>1, <1>2, FailureType DEF Failure

LEMMA OutcomeType ==
    ASSUME TypeOK, NEW i \in Import,
           NEW r \in Result, Outcome(i, r)
    PROVE  result' \in [Import -> Result]
BY DEF TypeOK, Outcome

\* DiskSame keeps the files and the two handles.
LEMMA DiskSameType ==
    ASSUME TypeOK, DiskSame
    PROVE  /\ files' \in [Path -> File \cup {NoFile}]
           /\ conn' \in Handle
           /\ upload' \in [Import -> Handle]
BY DEF TypeOK, DiskSame

LEMMA InitDoneType ==
    ASSUME TypeOK, NEW w \in Import \cup {Main}, InitDone(w)
    PROVE  /\ place' \in [Import \cup {Main} -> MainPlace \cup ImportPlace]
           /\ place'[Main] \in MainPlace
           /\ \A i \in Import : place'[i] \in ImportPlace
           /\ result' \in [Import -> Result]
           /\ xray' \in BOOLEAN
<1>1. result' \in [Import -> Result]
  BY DEF InitDone, TypeOK, Result
<1>2. xray' \in BOOLEAN
  BY Zenon DEF InitDone, TypeOK
<1>3. CASE w = Main
  <2>1. Goto(Main, "up") /\ "up" \in MainPlace
    BY <1>3 DEF InitDone, MainPlace
  <2> QED
    BY <1>1, <1>2, <2>1, GotoType
<1>4. CASE w # Main
  <2>1. w \in Import /\ Goto(w, "start") /\ "start" \in ImportPlace
    BY <1>4 DEF InitDone, ImportPlace
  <2> QED
    BY <1>1, <1>2, <2>1, GotoType
<1> QED
  BY <1>3, <1>4

\* Each InitDB moves between places that both sides share.
LEMMA InitGotoType ==
    ASSUME TypeOK, NEW w \in Import \cup {Main}, NEW to \in InitPlace,
           Goto(w, to)
    PROVE  /\ place' \in [Import \cup {Main} -> MainPlace \cup ImportPlace]
           /\ place'[Main] \in MainPlace
           /\ \A i \in Import : place'[i] \in ImportPlace
<1>1. to \in MainPlace /\ to \in ImportPlace
  BY DEF MainPlace, ImportPlace
<1> QED
  BY <1>1, GotoType

-----------------------------------------------------------------------------
(* Type correctness.                                                       *)

LEMMA TypeInit == Init => TypeOK
<1> SUFFICES ASSUME Init PROVE TypeOK
  OBVIOUS
<1>1. files \in [Path -> File \cup {NoFile}]
  BY ContentsAreFiles DEF Init
<1>2. conn \in Handle /\ upload \in [Import -> Handle]
  BY DEF Init, Handle
<1>3. /\ place \in [Import \cup {Main} -> MainPlace \cup ImportPlace]
      /\ place[Main] \in MainPlace
      /\ \A i \in Import : place[i] \in ImportPlace
  BY PanelDatabaseAssumption
  DEF Init, MainPlace, ImportPlace, PanelDatabaseAssumption
<1>4. /\ was \in [Import \cup {Main} -> BOOLEAN] /\ xray \in BOOLEAN
      /\ result \in [Import -> Result]
  BY DEF Init, Result
<1>5. fails \in 0..MaxFail
  BY PanelDatabaseAssumption DEF Init, PanelDatabaseAssumption
<1> QED
  BY <1>1, <1>2, <1>3, <1>4, <1>5 DEF TypeOK

LEMMA TypeInitDB ==
    ASSUME TypeOK, NEW w \in Import \cup {Main}, InitDB(w)
    PROVE  TypeOK'
<1>1. CASE Open(w)
  <2>1. files' \in [Path -> File \cup {NoFile}]
    BY <1>1, ContentsAreFiles DEF Open, TypeOK, Path
  <2>2. conn' \in Handle
    BY <1>1 DEF Open, Handle, Path
  <2> QED
    BY <1>1, <2>1, <2>2, InitGotoType DEF Open, TypeOK, InitPlace
<1>2. CASE InitUser(w)
  <2>1. \E pass \in Password : WritePass(pass)
    <3>1. Db \in File /\ "hashed" \in Password
      BY <1>2 DEF InitUser, Connected, Exists, TypeOK, Path, Db, Password
    <3>2. Db.pass \in Password
      BY <3>1 DEF File
    <3> QED
      BY <1>2, <3>1, <3>2 DEF InitUser
  <2>2. files' \in [Path -> File \cup {NoFile}]
    BY <1>2, <2>1, WriteType DEF InitUser, Connected
  <2>3. was' \in [Import \cup {Main} -> BOOLEAN]
    BY <1>2 DEF InitUser, TypeOK
  <2> QED
    BY <1>2, <2>2, <2>3, InitGotoType DEF InitUser, TypeOK, InitPlace
<1>3. CASE RunSeeders(w)
  <2>1. Exists("db")
    BY <1>3 DEF RunSeeders, Connected
  <2>2. UNCHANGED <<conn, upload, was, fails>>
    BY <1>3 DEF RunSeeders
  <2>3. CASE InitDone(w) /\ (UNCHANGED files \/ RecordSeeded)
    <3>1. files' \in [Path -> File \cup {NoFile}]
      BY <2>1, <2>3, WriteType DEF TypeOK
    <3> QED
      BY <2>2, <2>3, <3>1, InitDoneType DEF TypeOK
  <2>4. CASE HashPasswords(w)
    <3>1. \E pass \in Password : WritePass(pass)
      BY <2>4 DEF HashPasswords, Password
    <3>2. files' \in [Path -> File \cup {NoFile}]
      BY <2>1, <3>1, WriteType
    <3> QED
      BY <2>2, <2>4, <3>2, InitGotoType DEF HashPasswords, TypeOK, InitPlace
  <2> QED
    BY <1>3, <2>3, <2>4 DEF RunSeeders
<1>4. CASE RecordSeeder(w)
  <2>1. files' \in [Path -> File \cup {NoFile}]
    BY <1>4, WriteType DEF RecordSeeder, Connected
  <2> QED
    BY <1>4, <2>1, InitDoneType DEF RecordSeeder, TypeOK
<1>5. CASE InitFails(w)
  <2>1. conn' \in Handle
    BY <1>5 DEF InitFails, TypeOK, Handle, Path
  <2>2. fails' \in 0..MaxFail
    BY <1>5, FailureType DEF InitFails
  <2>3. \/ \E i \in Import : \E to \in ImportPlace : Goto(i, to)
        \/ \E to \in MainPlace : Goto(Main, to)
    BY <1>5 DEF InitFails, MainPlace, ImportPlace
  <2> QED
    BY <1>5, <2>1, <2>2, <2>3, GotoType DEF InitFails, TypeOK
<1> QED
  BY <1>1, <1>2, <1>3, <1>4, <1>5 DEF InitDB

LEMMA ImportGotoType ==
    ASSUME TypeOK, NEW i \in Import, NEW to \in ImportPlace, Goto(i, to)
    PROVE  /\ place' \in [Import \cup {Main} -> MainPlace \cup ImportPlace]
           /\ place'[Main] \in MainPlace
           /\ \A j \in Import : place'[j] \in ImportPlace
BY GotoType

LEMMA TypeImportDB ==
    ASSUME TypeOK, NEW i \in Import, ImportDB(i)
    PROVE  TypeOK'
<1> USE DEF ImportPlace
<1>1. CASE Refuse(i)
  BY <1>1, OutcomeType, ImportGotoType, DiskSameType DEF Refuse, TypeOK, Result
<1>2. CASE Begin(i)
  <2>1. files' \in [Path -> File \cup {NoFile}]
    BY <1>2, ContentsAreFiles DEF Begin, TypeOK, Path
  <2>2. conn' \in Handle /\ upload' \in [Import -> Handle]
    BY <1>2 DEF Begin, TypeOK, Unlinked, Handle, Path
  <2> QED
    BY <1>2, <2>1, <2>2, ImportGotoType DEF Begin, TypeOK
<1>3. CASE CopyFails(i)
  <2>1. upload' \in [Import -> Handle]
    BY <1>3 DEF CopyFails, TypeOK, Handle
  <2> QED
    BY <1>3, <2>1, OutcomeType, ImportGotoType DEF CopyFails, TypeOK, Result
<1>4. CASE Copy(i)
  <2>1. \A file \in Uploads \cup {Partial} : file \in File
    BY ContentsAreFiles
  <2>2. files' \in [Path -> File \cup {NoFile}]
    BY <1>4, <2>1 DEF Copy, TypeOK
  <2>3. upload' \in [Import -> Handle]
    BY <1>4 DEF Copy, TypeOK, Handle
  <2> QED
    BY <1>4, <2>2, <2>3, ImportGotoType DEF Copy, TypeOK
<1>5. CASE Validate(i)
  <2>1. result' \in [Import -> Result]
    BY <1>5, OutcomeType DEF Validate, TypeOK, Result
  <2>2. Goto(i, "stop") \/ Goto(i, "untemp")
    BY <1>5 DEF Validate
  <2> QED
    BY <1>5, <2>1, <2>2, ImportGotoType, DiskSameType DEF Validate, TypeOK
<1>6. CASE StopXray(i)
  BY <1>6, ImportGotoType, DiskSameType DEF StopXray, TypeOK
<1>7. CASE CloseDB(i)
  BY <1>7, ImportGotoType DEF CloseDB, TypeOK, Handle
<1>8. CASE DropFallback(i)
  BY <1>8, RemoveType, ImportGotoType DEF DropFallback, TypeOK, Path
<1>9. CASE Backup(i)
  BY <1>9, RenameType, ImportGotoType DEF Backup, TypeOK, Path
<1>10. CASE BackupFails(i)
  <2>1. fails' \in 0..MaxFail
    BY <1>10, FailureType DEF BackupFails
  <2> QED
    BY <1>10, <2>1, OutcomeType, ImportGotoType, DiskSameType
    DEF BackupFails, TypeOK, Result
<1>11. CASE Swap(i)
  <2>1. "open" \in ImportPlace
    BY DEF InitPlace
  <2> QED
    BY <1>11, <2>1, RenameType, ImportGotoType DEF Swap, TypeOK, Path
<1>12. CASE SwapFails(i)
  <2>1. fails' \in 0..MaxFail
    BY <1>12, FailureType DEF SwapFails
  <2> QED
    BY <1>12, <2>1, ImportGotoType, DiskSameType DEF SwapFails, TypeOK
<1>13. CASE Restore(i)
  BY <1>13, RenameType, OutcomeType, ImportGotoType DEF Restore, TypeOK, Path, Result
<1>14. CASE RestoreFails(i)
  <2>1. fails' \in 0..MaxFail
    BY <1>14, FailureType DEF RestoreFails
  <2> QED
    BY <1>14, <2>1, OutcomeType, ImportGotoType, DiskSameType
    DEF RestoreFails, TypeOK, Result
<1>15. CASE StartXray(i)
  BY <1>15, ImportGotoType, DiskSameType DEF StartXray, TypeOK
<1>16. CASE StartFails(i)
  <2>1. fails' \in 0..MaxFail /\ xray' \in BOOLEAN
    BY <1>16, RestartType DEF StartFails
  <2> QED
    BY <1>16, <2>1, OutcomeType, ImportGotoType, DiskSameType
    DEF StartFails, TypeOK, Result
<1>17. CASE RemoveFallback(i)
  BY <1>17, RemoveType, ImportGotoType DEF RemoveFallback, TypeOK, Path
<1>18. CASE RemoveTemp(i)
  BY <1>18, RemoveType, ImportGotoType DEF RemoveTemp, TypeOK, Path
<1>19. CASE Reply(i)
  <2>1. xray' \in BOOLEAN /\ fails' \in 0..MaxFail
    <3>1. CASE RestartFails
      BY <3>1, RestartType
    <3>2. CASE xray' = TRUE /\ UNCHANGED fails
      BY <3>2 DEF TypeOK
    <3> QED
      BY <1>19, <3>1, <3>2 DEF Reply
  <2> QED
    BY <1>19, <2>1, OutcomeType, ImportGotoType, DiskSameType DEF Reply, TypeOK, Result
<1> QED
  BY <1>1, <1>2, <1>3, <1>4, <1>5, <1>6, <1>7, <1>8, <1>9, <1>10, <1>11,
     <1>12, <1>13, <1>14, <1>15, <1>16, <1>17, <1>18, <1>19 DEF ImportDB

LEMMA TypePanel ==
    ASSUME TypeOK, Start \/ Shutdown \/ Crash
    PROVE  TypeOK'
<1>1. CASE Start
  <2>1. Goto(Main, "open") /\ "open" \in MainPlace
    BY <1>1 DEF Start, MainPlace, InitPlace
  <2> QED
    BY <1>1, <2>1, GotoType DEF Start, TypeOK
<1>2. CASE Shutdown \/ Crash
  <2>1. Ends /\ (Failure \/ UNCHANGED fails)
    BY <1>2 DEF Shutdown, Crash
  <2>2. /\ place' \in [Import \cup {Main} -> MainPlace \cup ImportPlace]
        /\ place'[Main] \in MainPlace
        /\ \A i \in Import : place'[i] \in ImportPlace
    BY <2>1, PanelDatabaseAssumption
    DEF Ends, MainPlace, ImportPlace, PanelDatabaseAssumption
  <2>3. conn' \in Handle /\ upload' \in [Import -> Handle]
    BY <2>1 DEF Ends, Handle
  <2> QED
    BY <2>1, <2>2, <2>3, FailureType DEF Ends, TypeOK, Result
<1> QED
  BY <1>1, <1>2

LEMMA TypeStep == TypeOK /\ [Next]_vars => TypeOK'
<1> SUFFICES ASSUME TypeOK, [Next]_vars PROVE TypeOK'
  OBVIOUS
<1>1. CASE UNCHANGED vars
  BY <1>1 DEF TypeOK, vars
<1> QED
  BY <1>1, TypePanel, TypeInitDB, TypeImportDB DEF Next

\* Every variable stays in its range, for any number of imports at once and
\* any number of failures.
THEOREM DatabaseTypeCorrect == Spec => []TypeOK
<1> QED
  BY TypeInit, TypeStep, PTL DEF Spec

-----------------------------------------------------------------------------
(* The invariant of an import that is alone.  Its failures are not counted *)
(* here: it holds for any number of them.                                  *)

One == \A i, j \in Import : i = j

\* ImportInv for one import.
Kept(i) ==
    /\ place[i] # "idle" => Up
    /\ place[i] = "copy" => upload[i] = "temp"
    /\ place[i] \in Uploading => Holds("temp", "new")
    /\ place[i] \in Deciding => Exists("fallback")
    /\ place[i] \in InitPlace => Holds("db", "new")
    /\ place[i] \in InitPlace \ {"open"} => conn = "db"
    /\ place[i] = "restore" => fails > 0
    /\ result[i] = "lost" => fails > 1
    /\ IF place[i] \in Returning THEN result[i] # "none"
       ELSE result[i] = IF place[i] = "start" THEN "ok" ELSE "none"

LEMMA KeptByAll ==
    /\ ImportInv <=> \A i \in Import : Kept(i)
    /\ ImportInv' <=> \A i \in Import : Kept(i)'
BY DEF ImportInv, Kept

\* While every import is idle and answers nothing, the rest does not matter.
LEMMA IdleKept ==
    ASSUME \A i \in Import : place'[i] = "idle" /\ result'[i] = "none"
    PROVE  ImportInv'
BY DEF ImportInv, Uploading, Deciding, Returning, InitPlace

LEMMA KeptInit == Init => ImportInv
BY PanelDatabaseAssumption
DEF Init, ImportInv, Uploading, Deciding, Returning, InitPlace,
    PanelDatabaseAssumption

LEMMA KeptPanel ==
    ASSUME TypeOK, ImportInv, Start \/ Shutdown \/ Crash \/ InitDB(Main)
    PROVE  ImportInv'
<1>1. CASE Shutdown \/ Crash
  <2>1. Ends
    BY <1>1 DEF Shutdown, Crash
  <2> QED
    BY <2>1, IdleKept, PanelDatabaseAssumption
    DEF Ends, PanelDatabaseAssumption
<1>2. CASE Start \/ InitDB(Main)
  <2>1. place[Main] # "up"
    BY <1>2 DEF Start, InitDB, Open, InitUser, RunSeeders, RecordSeeder,
                InitFails, Connected, InitPlace
  <2>2. \A i \in Import : place[i] = "idle" /\ result[i] = "none"
    BY <2>1 DEF ImportInv, Up, Returning
  <2>3. /\ \E to \in MainPlace : Goto(Main, to)
        /\ \A i \in Import : result'[i] = result[i]
    BY <1>2, PanelDatabaseAssumption
    DEF Start, InitDB, Open, InitUser, RunSeeders, RecordSeeder, InitFails,
        HashPasswords, InitDone, MainPlace, InitPlace, PanelDatabaseAssumption
  <2>4. \A i \in Import : place'[i] = place[i]
    BY <2>3, PanelDatabaseAssumption
    DEF Goto, TypeOK, PanelDatabaseAssumption
  <2> QED
    BY <2>2, <2>3, <2>4, IdleKept
<1> QED
  BY <1>1, <1>2

LEMMA GotoPlace ==
    ASSUME TypeOK, NEW i \in Import, NEW to, Goto(i, to)
    PROVE  place'[i] = to /\ place'[Main] = place[Main]
BY PanelDatabaseAssumption DEF TypeOK, Goto, PanelDatabaseAssumption

LEMMA InitDonePlace ==
    ASSUME TypeOK, NEW i \in Import, InitDone(i)
    PROVE  /\ place'[i] = "start" /\ place'[Main] = place[Main]
           /\ result'[i] = "ok"
<1>1. i # Main
  BY PanelDatabaseAssumption DEF PanelDatabaseAssumption
<1> QED
  BY <1>1, GotoPlace DEF InitDone

LEMMA KeptInitDB ==
    ASSUME TypeOK, NEW i \in Import, Kept(i), InitDB(i)
    PROVE  Kept(i)'
<1> USE DEF Kept, Uploading, Deciding, Returning, InitPlace, Holds, Up
<1>1. place[i] \in InitPlace
  BY DEF InitDB, Open, InitUser, RunSeeders, RecordSeeder, InitFails, Connected
<1>2. Holds("db", "new") /\ Exists("fallback") /\ Up /\ result[i] = "none"
  BY <1>1
<1>3. CASE Open(i)
  <2>1. place'[i] = "user" /\ place'[Main] = place[Main]
    BY <1>3, GotoPlace DEF Open
  <2>2. files' = files
    BY <1>2, <1>3 DEF Open, TypeOK
  <2> QED
    BY <1>2, <1>3, <2>1, <2>2 DEF Open, Exists
<1>4. ASSUME Connected(i, place[i]),
             (\E pass \in Password : WritePass(pass)) \/ RecordSeeded
                \/ UNCHANGED files
      PROVE  Holds("db", "new")' /\ Exists("fallback")'
  <2>1. CASE UNCHANGED files
    BY <1>2, <2>1 DEF Exists
  <2>2. CASE (\E pass \in Password : WritePass(pass)) \/ RecordSeeded
    <3>1. Exists("db")' /\ Db'.data = Db.data /\ files'["fallback"] = files["fallback"]
      BY <1>4, <2>2, WriteType DEF Connected, Path
    <3> QED
      BY <1>2, <3>1 DEF Exists, Db
  <2> QED
    BY <1>4, <2>1, <2>2
<1>5. CASE InitUser(i)
  <2>1. \E pass \in Password : WritePass(pass)
    <3>1. Db \in File /\ "hashed" \in Password
      BY <1>5 DEF InitUser, Connected, Exists, TypeOK, Path, Db, Password
    <3>2. Db.pass \in Password
      BY <3>1 DEF File
    <3> QED
      BY <1>5, <3>1, <3>2 DEF InitUser
  <2>2. place'[i] = "seed" /\ place'[Main] = place[Main]
    BY <1>5, GotoPlace DEF InitUser
  <2>3. Holds("db", "new")' /\ Exists("fallback")'
    BY <1>4, <1>5, <2>1 DEF InitUser, Connected
  <2> QED
    BY <1>2, <1>5, <2>2, <2>3 DEF InitUser, Connected
<1>6. CASE RunSeeders(i)
  <2>1. CASE HashPasswords(i)
    <3>1. place'[i] = "record" /\ place'[Main] = place[Main]
      BY <2>1, GotoPlace DEF HashPasswords
    <3>2. Holds("db", "new")' /\ Exists("fallback")'
      BY <1>4, <1>6, <2>1 DEF RunSeeders, Connected, HashPasswords, Password
    <3> QED
      BY <1>2, <1>6, <2>1, <3>1, <3>2 DEF RunSeeders, HashPasswords, Connected
  <2>2. CASE InitDone(i)
    BY <1>2, <2>2, InitDonePlace
  <2> QED
    BY <1>6, <2>1, <2>2 DEF RunSeeders
<1>7. CASE RecordSeeder(i)
  BY <1>2, <1>7, InitDonePlace DEF RecordSeeder
<1>8. CASE InitFails(i)
  <2>1. place'[i] = "restore" /\ place'[Main] = place[Main]
    BY <1>8, GotoPlace, PanelDatabaseAssumption
    DEF InitFails, PanelDatabaseAssumption
  <2>2. Failure
    BY <1>1, <1>2, <1>8 DEF InitFails, Connected
  <2>3. fails' > 0
    BY <2>2 DEF Failure, TypeOK
  <2> QED
    BY <1>2, <1>8, <2>1, <2>3 DEF InitFails, Exists
<1> QED
  BY <1>3, <1>5, <1>6, <1>7, <1>8 DEF InitDB

LEMMA RenamedFiles ==
    ASSUME TypeOK, NEW from \in Path, NEW to \in Path, from # to,
           Exists(from), Rename(from, to)
    PROVE  /\ files'[to] = files[from] /\ Exists(to)'
           /\ \A f \in Path \ {from, to} : files'[f] = files[f]
BY DEF TypeOK, Exists, Rename

LEMMA RemovedFiles ==
    ASSUME TypeOK, NEW from \in Path, Remove(from)
    PROVE  \A f \in Path \ {from} : files'[f] = files[f]
BY DEF TypeOK, Remove

LEMMA OutcomeOf ==
    ASSUME TypeOK, NEW i \in Import, NEW r, Outcome(i, r)
    PROVE  result'[i] = r
BY DEF TypeOK, Outcome

LEMMA KeptImportDB ==
    ASSUME TypeOK, NEW i \in Import, Kept(i), ImportDB(i)
    PROVE  Kept(i)'
<1> USE DEF Kept, Uploading, Deciding, Returning, InitPlace, Holds, Up
<1>1. Partial.data = "new" /\ (\A file \in Uploads : file.data = "new")
      /\ Partial \in File /\ Uploads \subseteq File
  BY ContentsAreFiles DEF Partial, Uploads, Stored
<1>2. \A file \in Uploads \cup {Partial} : file # NoFile /\ file.data = "new"
  BY <1>1, FilesHaveData
<1>3. CASE Refuse(i)
  BY <1>3, GotoPlace, OutcomeOf DEF Refuse
<1>4. CASE Begin(i)
  <2>1. place'[i] = "copy" /\ place'[Main] = place[Main]
    BY <1>4, GotoPlace DEF Begin
  <2>2. files'["temp"] = Partial /\ upload'[i] = "temp"
    BY <1>4 DEF Begin, TypeOK, Path
  <2> QED
    BY <1>2, <1>4, <2>1, <2>2 DEF Begin, Exists
<1>5. CASE CopyFails(i)
  BY <1>5, GotoPlace, OutcomeOf DEF CopyFails
<1>6. CASE Copy(i)
  <2>1. place'[i] = "validate" /\ place'[Main] = place[Main]
    BY <1>6, GotoPlace DEF Copy
  <2>2. PICK file \in Uploads \cup {Partial} :
           files' = [files EXCEPT !["temp"] = file]
    BY <1>6 DEF Copy, Path
  <2>3. files'["temp"] = file
    BY <2>2 DEF TypeOK, Path
  <2> QED
    BY <1>2, <1>6, <2>1, <2>3 DEF Copy, Exists
<1>7. CASE Validate(i)
  BY <1>7, GotoPlace, OutcomeOf DEF Validate, DiskSame, Exists
<1>8. CASE StopXray(i)
  BY <1>8, GotoPlace DEF StopXray, DiskSame, Exists
<1>9. CASE CloseDB(i)
  BY <1>9, GotoPlace DEF CloseDB, Exists
<1>10. CASE DropFallback(i)
  <2>1. files'["temp"] = files["temp"]
    BY <1>10, RemovedFiles DEF DropFallback, Path
  <2> QED
    BY <1>10, <2>1, GotoPlace DEF DropFallback, Exists
<1>11. CASE Backup(i)
  <2>1. files'["temp"] = files["temp"] /\ Exists("fallback")'
    BY <1>11, RenamedFiles DEF Backup, Path
  <2> QED
    BY <1>11, <2>1, GotoPlace DEF Backup, Exists
<1>12. CASE BackupFails(i)
  BY <1>12, GotoPlace, OutcomeOf DEF BackupFails
<1>13. CASE Swap(i)
  <2>1. /\ files'["db"] = files["temp"] /\ Exists("db")'
        /\ files'["fallback"] = files["fallback"]
    BY <1>13, RenamedFiles DEF Swap, Path
  <2> QED
    BY <1>13, <2>1, GotoPlace DEF Swap, Exists
<1>14. CASE SwapFails(i)
  <2>1. place'[i] = "restore" /\ place'[Main] = place[Main]
    BY <1>14, GotoPlace DEF SwapFails
  <2>2. fails' > 0
    BY <1>14 DEF SwapFails, Failure, TypeOK
  <2> QED
    BY <1>14, <2>1, <2>2 DEF SwapFails, DiskSame, Exists
<1>15. CASE Restore(i)
  BY <1>15, GotoPlace, OutcomeOf DEF Restore
<1>16. CASE RestoreFails(i)
  <2>1. fails' > 1
    BY <1>16 DEF RestoreFails, Failure, TypeOK
  <2> QED
    BY <1>16, <2>1, GotoPlace, OutcomeOf DEF RestoreFails
<1>17. CASE StartXray(i)
  BY <1>17, GotoPlace DEF StartXray
<1>18. CASE StartFails(i)
  BY <1>18, GotoPlace, OutcomeOf DEF StartFails
<1>19. CASE RemoveFallback(i)
  BY <1>19, GotoPlace DEF RemoveFallback
<1>20. CASE RemoveTemp(i)
  BY <1>20, GotoPlace DEF RemoveTemp
<1>21. CASE Reply(i)
  BY <1>21, GotoPlace, OutcomeOf DEF Reply
<1> QED
  BY <1>3, <1>4, <1>5, <1>6, <1>7, <1>8, <1>9, <1>10, <1>11, <1>12, <1>13,
     <1>14, <1>15, <1>16, <1>17, <1>18, <1>19, <1>20, <1>21 DEF ImportDB

LEMMA KeptStep ==
    ASSUME One, TypeOK, ImportInv, [Next]_vars
    PROVE  ImportInv'
<1>1. CASE UNCHANGED vars
  BY <1>1
  DEF vars, ImportInv, Up, Holds, Exists
<1>2. CASE Start \/ Shutdown \/ Crash \/ InitDB(Main)
  BY <1>2, KeptPanel
<1>3. ASSUME NEW i \in Import, InitDB(i) \/ ImportDB(i)
      PROVE  ImportInv'
  <2>1. Kept(i)'
    BY <1>3, KeptByAll, KeptInitDB, KeptImportDB
  <2>2. \A j \in Import : j = i
    BY DEF One
  <2> QED
    BY <2>1, <2>2, KeptByAll
<1> QED
  BY <1>1, <1>2, <1>3 DEF Next

\* ImportInv for an import that has the panel to itself, however many of its
\* steps fail and wherever the panel is killed: what it uploads and what it
\* would go back to are there as long as they are needed.
THEOREM ImportKeepsFiles == ASSUME One PROVE Spec => []ImportInv
<1>1. TypeOK /\ ImportInv /\ [Next]_vars => ImportInv'
  BY KeptStep
<1> QED
  BY <1>1, KeptInit, DatabaseTypeCorrect, PTL DEF Spec

-----------------------------------------------------------------------------
(* Atomicity: the mapping to DatabaseSwap, read at the import in progress.  *)

Said(i) ==
    IF place[i] = "idle" THEN "idle"
    ELSE IF result[i] = "none" THEN "open" ELSE result[i]
At(f) == IF Exists(f) THEN files[f].data ELSE "empty"
Held(i) == At(IF place[i] \in Deciding THEN "fallback" ELSE "db")

LEMMA MappingOfOne ==
    ASSUME One, NEW i \in Import
    PROVE  /\ Answer = Said(i) /\ Current = Held(i)
           /\ Answer' = Said(i)' /\ Current' = Held(i)'
<1>1. \A j \in Import : j = i
  BY DEF One
<1>2. Answer = Said(i) /\ Answer' = Said(i)'
  BY <1>1 DEF Answer, Said
<1>3. (Undecided <=> place[i] \in Deciding)
      /\ (Undecided' <=> (place[i] \in Deciding)')
  BY <1>1 DEF Undecided
<1> QED
  BY <1>2, <1>3 DEF Current, Held, At

LEMMA MappingOfNone ==
    /\ (\A i \in Import : place[i] = "idle") => Answer = "idle" /\ Current = At("db")
    /\ (\A i \in Import : place'[i] = "idle") => Answer' = "idle" /\ Current' = At("db")'
BY DEF Answer, Current, Undecided, Deciding, InitPlace, At

LEMMA CurrentType ==
    /\ TypeOK => Current \in Data
    /\ TypeOK' => Current' \in Data
<1>1. "empty" \in Data /\ \A f \in File : f.data \in Data
  BY FilesHaveData DEF Data
<1> QED
  BY <1>1 DEF TypeOK, Current, Exists, Path

LEMMA SwapInit == Init => Abstract!Init
<1> SUFFICES ASSUME Init PROVE Abstract!Init
  OBVIOUS
<1>1. Answer = "idle"
  BY MappingOfNone, PanelDatabaseAssumption DEF Init, PanelDatabaseAssumption
<1> QED
  BY <1>1, TypeInit, CurrentType DEF Abstract!Init

Still == UNCHANGED <<Current, Answer>>

LEMMA SwapPanel ==
    ASSUME TypeOK, TypeOK', ImportInv, Start \/ Shutdown \/ Crash \/ InitDB(Main)
    PROVE  Abstract!Killed \/ Still
<1>1. CASE Shutdown \/ Crash
  <2>1. \A i \in Import : place'[i] = "idle"
    BY <1>1, PanelDatabaseAssumption
    DEF Shutdown, Crash, Ends, PanelDatabaseAssumption
  <2>2. files' = files
    BY <1>1 DEF Shutdown, Crash, Ends
  <2>3. CASE \A i \in Import : place[i] = "idle"
    BY <2>1, <2>2, <2>3, MappingOfNone DEF At, Exists, Still
  <2>4. CASE ~\A i \in Import : place[i] = "idle"
    <3>1. Answer # "idle"
      <4>1. \E i \in Import : place[i] # "idle"
        BY <2>4
      <4>2. PICK i \in Import :
               Answer = IF result[i] = "none" THEN "open" ELSE result[i]
        BY <4>1 DEF Answer
      <4> QED
        BY <4>2 DEF TypeOK, Result
    <3> QED
      BY <2>1, <3>1, MappingOfNone, CurrentType DEF Abstract!Killed
  <2> QED
    BY <2>3, <2>4
<1>2. CASE Start \/ InitDB(Main)
  <2>1. place[Main] # "up"
    BY <1>2 DEF Start, InitDB, Open, InitUser, RunSeeders, RecordSeeder,
                InitFails, Connected, InitPlace
  <2>2. \A i \in Import : place[i] = "idle"
    BY <2>1 DEF ImportInv, Up
  <2>3. \E to \in MainPlace : Goto(Main, to)
    BY <1>2, PanelDatabaseAssumption
    DEF Start, InitDB, Open, InitUser, RunSeeders, RecordSeeder, InitFails,
        HashPasswords, InitDone, MainPlace, InitPlace, PanelDatabaseAssumption
  <2>4. \A i \in Import : place'[i] = "idle"
    BY <2>2, <2>3, PanelDatabaseAssumption
    DEF Goto, TypeOK, PanelDatabaseAssumption
  <2>5. At("db")' = At("db")
    <3>1. CASE UNCHANGED files
      BY <3>1 DEF At, Exists
    <3>2. CASE Open(Main)
      <4>1. Blank # NoFile /\ Blank.data = "empty"
        BY ContentsAreFiles, FilesHaveData DEF Blank, Stored
      <4> QED
        BY <3>2, <4>1 DEF Open, At, Exists, TypeOK, Path
    <3>3. CASE Exists("db") /\ ((\E pass \in Password : WritePass(pass))
                                \/ RecordSeeded)
      BY <3>3, WriteType DEF At, Exists, Db
    <3>4. CASE InitUser(Main)
      <4>1. Db \in File /\ "hashed" \in Password
        BY <3>4 DEF InitUser, Connected, Exists, TypeOK, Path, Db, Password
      <4>2. Db.pass \in Password
        BY <4>1 DEF File
      <4> QED
        BY <3>3, <3>4, <4>1, <4>2 DEF InitUser, Connected
    <3>5. CASE RunSeeders(Main) \/ RecordSeeder(Main)
      BY <3>1, <3>3, <3>5
      DEF RunSeeders, RecordSeeder, HashPasswords, Connected, Password
    <3> QED
      BY <1>2, <3>1, <3>2, <3>4, <3>5 DEF Start, InitDB, InitFails
  <2> QED
    BY <2>2, <2>4, <2>5, MappingOfNone DEF Still
<1> QED
  BY <1>1, <1>2

LEMMA SwapInitDB ==
    ASSUME One, TypeOK, NEW i \in Import, Kept(i), Kept(i)', InitDB(i)
    PROVE  Abstract!Commit \/ Still
<1> USE MappingOfOne
<1>1. place[i] \in InitPlace
  BY DEF InitDB, Open, InitUser, RunSeeders, RecordSeeder, InitFails, Connected,
         InitPlace
<1>2. Exists("fallback") /\ Answer = "open" /\ Current = At("fallback")
  BY <1>1 DEF Kept, Deciding, Returning, InitPlace, Said, Held
<1>3. ASSUME files'["fallback"] = files["fallback"], result'[i] = result[i],
             NEW to \in Deciding, Goto(i, to)
      PROVE  Still
  <2>1. place'[i] = to /\ to # "idle"
    BY <1>3, GotoPlace DEF Deciding, InitPlace
  <2>2. Said(i)' = "open"
    BY <1>1, <1>3, <2>1 DEF Said, Kept, Deciding, Returning, InitPlace
  <2>3. Held(i)' = At("fallback")
    BY <1>3, <2>1 DEF Held, At, Exists
  <2> QED
    BY <1>2, <2>2, <2>3 DEF Still
<1>4. ASSUME InitDone(i)
      PROVE  Abstract!Commit
  <2>1. place'[i] = "start" /\ result'[i] = "ok"
    BY <1>4, InitDonePlace
  <2>2. Answer' = "ok" /\ Current' = At("db")'
    BY <2>1 DEF Said, Held, Deciding, InitPlace
  <2>3. At("db")' = "new"
    <3>1. Holds("db", "new")
      BY <1>1 DEF Kept
    <3>2. CASE UNCHANGED files
      BY <3>1, <3>2 DEF Holds, At, Exists
    <3>3. CASE RecordSeeded
      BY <3>1, <3>3, WriteType DEF Holds, At, Exists, Db
    <3>4. UNCHANGED files \/ RecordSeeded
      BY <1>4, GotoPlace, InitDonePlace
      DEF InitDB, Open, InitUser, RunSeeders, RecordSeeder, InitFails,
          HashPasswords
    <3> QED
      BY <3>2, <3>3, <3>4
  <2> QED
    BY <1>2, <2>2, <2>3 DEF Abstract!Commit
<1>5. i # Main
  BY PanelDatabaseAssumption DEF PanelDatabaseAssumption
<1>6. {"user", "seed", "record", "restore"} \subseteq Deciding
  BY DEF Deciding, InitPlace
<1>7. ASSUME Exists("db")
      PROVE  Db.pass \in Password /\ "hashed" \in Password
  <2>1. Db \in File
    BY <1>7 DEF Exists, TypeOK, Path, Db
  <2> QED
    BY <2>1 DEF File, Password
<1>8. CASE Open(i)
  BY <1>3, <1>6, <1>8 DEF Open, TypeOK, Path
<1>9. CASE InitUser(i)
  <2>1. files'["fallback"] = files["fallback"]
    BY <1>7, <1>9, WriteType DEF InitUser, Connected, Path
  <2> QED
    BY <1>3, <1>6, <1>9, <2>1 DEF InitUser
<1>10. CASE HashPasswords(i) /\ Exists("db")
  <2>1. files'["fallback"] = files["fallback"]
    BY <1>10, WriteType DEF HashPasswords, Path, Password
  <2> QED
    BY <1>3, <1>6, <1>10, <2>1 DEF HashPasswords
<1>11. CASE InitFails(i)
  BY <1>3, <1>5, <1>6, <1>11 DEF InitFails
<1> QED
  BY <1>4, <1>8, <1>9, <1>10, <1>11
  DEF InitDB, RunSeeders, RecordSeeder, Connected

LEMMA SwapImportDB ==
    ASSUME One, TypeOK, TypeOK', NEW i \in Import, Kept(i), Kept(i)',
           ImportDB(i)
    PROVE  \/ Abstract!Begin \/ Abstract!Unstarted \/ Abstract!Refuse
           \/ Abstract!Lose \/ Abstract!Reply \/ Still
<1> USE MappingOfOne DEF Kept, Deciding, Returning, InitPlace, Uploading
<1>1. CASE Refuse(i)
  <2>1. Current' = Current /\ Answer = "idle" /\ Answer' = "failed"
    BY <1>1, GotoPlace, OutcomeOf DEF Refuse, Said, Held, At, Exists, DiskSame
  <2> QED
    BY <2>1 DEF Abstract!Begin
<1>2. CASE Begin(i)
  <2>1. files'["db"] = files["db"]
    BY <1>2 DEF Begin, TypeOK, Path
  <2>2. Current' = Current /\ Answer = "idle" /\ Answer' = "open"
    BY <1>2, <2>1, GotoPlace DEF Begin, Said, Held, At, Exists
  <2> QED
    BY <2>2 DEF Abstract!Begin
<1>3. ASSUME place[i] \in {"copy", "validate", "drop", "backup"},
             place'[i] = "untemp", files' = files, result'[i] = "failed"
      PROVE  Abstract!Refuse
  <2>1. Current' = Current /\ Answer = "open" /\ Answer' = "failed"
    BY <1>3 DEF Said, Held, At, Exists
  <2> QED
    BY <2>1 DEF Abstract!Refuse
<1>4. CASE CopyFails(i)
  BY <1>3, <1>4, GotoPlace, OutcomeOf DEF CopyFails
<1>5. CASE BackupFails(i)
  BY <1>3, <1>5, GotoPlace, OutcomeOf DEF BackupFails, DiskSame
<1>6. ASSUME place[i] \in Uploading \ {"swap"},
             place'[i] \in Uploading \ {"copy", "swap"},
             files'["db"] = files["db"], result'[i] = result[i]
      PROVE  Still
  BY <1>6 DEF Said, Held, At, Exists, Still
<1>7. CASE Copy(i)
  <2>1. files'["db"] = files["db"]
    BY <1>7 DEF Copy, TypeOK, Path
  <2> QED
    BY <1>6, <1>7, <2>1, GotoPlace DEF Copy
<1>8. CASE Validate(i)
  BY <1>3, <1>6, <1>8, GotoPlace, OutcomeOf DEF Validate, DiskSame
<1>9. CASE StopXray(i)
  BY <1>6, <1>9, GotoPlace DEF StopXray, DiskSame
<1>10. CASE CloseDB(i)
  BY <1>6, <1>10, GotoPlace DEF CloseDB
<1>11. CASE DropFallback(i)
  <2>1. files'["db"] = files["db"]
    BY <1>11, RemovedFiles DEF DropFallback, Path
  <2> QED
    BY <1>6, <1>11, <2>1, GotoPlace DEF DropFallback
<1>12. CASE Backup(i)
  <2>1. files'["fallback"] = files["db"]
    BY <1>12, RenamedFiles DEF Backup, Path
  <2> QED
    BY <1>12, <2>1, GotoPlace DEF Backup, Said, Held, At, Exists, Still
<1>13. CASE Swap(i)
  <2>1. files'["fallback"] = files["fallback"]
    BY <1>13, RenamedFiles DEF Swap, Path
  <2> QED
    BY <1>13, <2>1, GotoPlace DEF Swap, Said, Held, At, Exists, Still
<1>14. CASE SwapFails(i)
  BY <1>14, GotoPlace DEF SwapFails, DiskSame, Said, Held, At, Exists, Still
<1>15. CASE Restore(i)
  <2>1. files'["db"] = files["fallback"]
    BY <1>15, RenamedFiles DEF Restore, Path
  <2>2. Current' = Current /\ Answer = "open" /\ Answer' = "failed"
    BY <1>15, <2>1, GotoPlace, OutcomeOf DEF Restore, Said, Held, At, Exists
  <2> QED
    BY <2>2 DEF Abstract!Refuse
<1>16. CASE RestoreFails(i)
  <2>1. Answer = "open" /\ Answer' = "lost"
    BY <1>16, GotoPlace, OutcomeOf DEF RestoreFails, Said
  <2> QED
    BY <2>1, CurrentType DEF Abstract!Lose
<1>17. ASSUME place[i] \in {"start", "unfallback", "untemp"},
              place'[i] \in Returning,
              files'["db"] = files["db"], result'[i] = result[i]
       PROVE  Still
  BY <1>17 DEF Said, Held, At, Exists, Still
<1>18. CASE StartXray(i)
  BY <1>17, <1>18, GotoPlace DEF StartXray, DiskSame
<1>19. CASE StartFails(i)
  <2>1. Current' = Current /\ Answer = "ok" /\ Answer' = "unstarted"
    BY <1>19, GotoPlace, OutcomeOf DEF StartFails, DiskSame, Said, Held, At, Exists
  <2> QED
    BY <2>1 DEF Abstract!Unstarted
<1>20. CASE RemoveFallback(i)
  <2>1. files'["db"] = files["db"]
    BY <1>20, RemovedFiles DEF RemoveFallback, Path
  <2> QED
    BY <1>17, <1>20, <2>1, GotoPlace DEF RemoveFallback
<1>21. CASE RemoveTemp(i)
  <2>1. files'["db"] = files["db"]
    BY <1>21, RemovedFiles DEF RemoveTemp, Path
  <2> QED
    BY <1>17, <1>21, <2>1, GotoPlace DEF RemoveTemp
<1>22. CASE Reply(i)
  <2>1. Current' = Current /\ Answer = result[i] /\ Answer' = "idle"
    BY <1>22, GotoPlace DEF Reply, DiskSame, Said, Held, At, Exists
  <2> QED
    BY <1>22, <2>1 DEF Reply, Abstract!Reply, Abstract!Answers, TypeOK, Result
<1> QED
  BY <1>1, <1>2, <1>4, <1>5, <1>7, <1>8, <1>9, <1>10, <1>11, <1>12, <1>13,
     <1>14, <1>15, <1>16, <1>18, <1>19, <1>20, <1>21, <1>22 DEF ImportDB

LEMMA SwapStep ==
    ASSUME One, TypeOK, TypeOK', ImportInv, ImportInv', [Next]_vars
    PROVE  [Abstract!Next]_<<Current, Answer>>
<1>1. CASE UNCHANGED vars
  BY <1>1 DEF vars, Current, Undecided, Exists, Answer
<1>2. CASE Start \/ Shutdown \/ Crash \/ InitDB(Main)
  BY <1>2, SwapPanel DEF Abstract!Next, Still
<1>3. ASSUME NEW i \in Import, InitDB(i)
      PROVE  Abstract!Next \/ Still
  BY <1>3, KeptByAll, SwapInitDB DEF Abstract!Next
<1>4. ASSUME NEW i \in Import, ImportDB(i)
      PROVE  Abstract!Next \/ Still
  BY <1>4, KeptByAll, SwapImportDB DEF Abstract!Next
<1> QED
  BY <1>1, <1>2, <1>3, <1>4 DEF Next, Still

\* Atomic, for one import at a time and any number of failures and crashes: the
\* database of the panel is replaced at one instant, the end of its InitDB, or
\* not at all, and the answer says which; only an answer that owns up to it
\* comes with a database that is lost.
THEOREM ImportIsAtomic == ASSUME One PROVE Spec => Atomic
<1>1. TypeOK /\ TypeOK' /\ ImportInv /\ ImportInv' /\ [Next]_vars
      => [Abstract!Next]_<<Current, Answer>>
  BY SwapStep
<1> QED
  BY <1>1, SwapInit, DatabaseTypeCorrect, ImportKeepsFiles, PTL
  DEF Spec, Atomic, Abstract!Spec, Abstract!vars

-----------------------------------------------------------------------------
(* What survives one failure.                                              *)

Good(f) == Exists(f) /\ files[f].whole /\ files[f].data # "empty"

\* Where the whole database is while import i is where it is.
Validated == {"stop", "close", "drop", "backup", "swap"}
Safe(i) ==
    /\ place[i] \in Validated => Good("temp")
    /\ place[i] \in InitPlace \cup {"start", "unfallback"} => Good("db")
    /\ place[i] = "restore" => Good("fallback")
    /\ place[i] \in {"idle", "copy", "validate", "untemp", "restart"} =>
          Good("db") \/ Good("fallback")
    /\ Up /\ place[i] \notin {"swap", "restore"} => Exists("db")

\* As long as nothing has failed, no step has made do with less than the best.
Unharmed(i) ==
    IF place[i] \in Deciding THEN Good("fallback") ELSE Good("db")

Saved(i) == (fails <= 1 => Safe(i)) /\ (fails = 0 => Unharmed(i))
AllSaved == \A i \in Import : Saved(i)

LEMMA WrittenGood ==
    ASSUME TypeOK, Exists("db"),
           (\E pass \in Password : WritePass(pass)) \/ RecordSeeded
    PROVE  \A f \in Path : (Exists(f)' <=> Exists(f)) /\ (Good(f)' <=> Good(f))
<1>1. Db \in File
  BY DEF TypeOK, Exists, Path, Db
<1>2. Db'.whole = Db.whole
  BY <1>1 DEF WritePass, RecordSeeded, Db, File, TypeOK, Path
<1> QED
  BY <1>2, WriteType DEF Good, Db, Exists

\* Whoever runs InitDB, it writes to the database and to nothing else, and what
\* it writes keeps a good database good.
LEMMA InitDBGood ==
    ASSUME TypeOK, NEW w \in Import \cup {Main}, InitDB(w)
    PROVE  /\ \A f \in Path : (Exists(f) => Exists(f)') /\ (Good(f) => Good(f)')
           /\ fails' >= fails /\ fails' \in Nat
           /\ (InitDone(w) => Exists("db")')
<1>1. fails' >= fails /\ fails' \in Nat
  BY PanelDatabaseAssumption
  DEF InitDB, Open, InitUser, RunSeeders, RecordSeeder, InitFails, Failure,
      TypeOK, PanelDatabaseAssumption
<1>2. CASE UNCHANGED files
  <2>1. InitDone(w) => Exists("db")
    <3>1. ASSUME InitDone(w), Open(w) \/ InitFails(w)
          PROVE  FALSE
      BY <3>1, PanelDatabaseAssumption
      DEF InitDone, Open, InitFails, Goto, TypeOK, PanelDatabaseAssumption
    <3>2. ASSUME InitUser(w) \/ RunSeeders(w) \/ RecordSeeder(w)
          PROVE  Exists("db")
      BY <3>2 DEF InitUser, RunSeeders, RecordSeeder, Connected
    <3> QED
      BY <3>1, <3>2 DEF InitDB
  <2> QED
    BY <1>1, <1>2, <2>1 DEF Exists, Good
<1>3. CASE Open(w)
  <2>1. Exists("db")'
    BY <1>3, ContentsAreFiles, FilesHaveData DEF Open, Exists, TypeOK, Path
  <2>2. \A f \in Path : Exists(f) => files'[f] = files[f]
    BY <1>3 DEF Open, Exists, TypeOK
  <2> QED
    BY <1>1, <2>1, <2>2 DEF Good, Exists
<1>4. CASE /\ Exists("db")
           /\ (\E pass \in Password : WritePass(pass)) \/ RecordSeeded
  BY <1>1, <1>4, WrittenGood DEF Path
<1>5. CASE InitUser(w)
  <2>1. Db \in File /\ "hashed" \in Password
    BY <1>5 DEF InitUser, Connected, Exists, TypeOK, Path, Db, Password
  <2>2. Db.pass \in Password
    BY <2>1 DEF File
  <2> QED
    BY <1>4, <1>5, <2>1, <2>2 DEF InitUser, Connected
<1>6. CASE RunSeeders(w) \/ RecordSeeder(w)
  BY <1>2, <1>4, <1>6
  DEF RunSeeders, RecordSeeder, HashPasswords, Connected, Password
<1> QED
  BY <1>2, <1>3, <1>5, <1>6 DEF InitDB, InitFails

LEMMA PanelSurvives ==
    ASSUME TypeOK, ImportInv, NothingLost, \A i \in Import : Saved(i),
           Start \/ Shutdown \/ Crash \/ InitDB(Main)
    PROVE  NothingLost' /\ \A i \in Import : Saved(i)'
<1>1. CASE Shutdown \/ Crash
  <2>1. /\ \A f \in Path : (Exists(f)' <=> Exists(f)) /\ (Good(f)' <=> Good(f))
        /\ fails' >= fails /\ fails' \in Nat
    BY <1>1, PanelDatabaseAssumption
    DEF Shutdown, Crash, Ends, Exists, Good, Failure, TypeOK,
        PanelDatabaseAssumption
  <2>2. ~Up' /\ \A i \in Import : place'[i] = "idle"
    BY <1>1, PanelDatabaseAssumption
    DEF Shutdown, Crash, Ends, Up, PanelDatabaseAssumption
  <2>3. NothingLost'
    BY <2>1 DEF NothingLost, Good, TypeOK
  <2>4. ASSUME NEW i \in Import
        PROVE  Saved(i)'
    <3>1. CASE Shutdown
      <4>1. place[i] = "idle" /\ fails' = fails
        BY <3>1 DEF Shutdown
      <4> QED
        BY <2>1, <2>2, <4>1
        DEF Saved, Safe, Unharmed, Validated, Deciding, InitPlace, Path
    <3>2. CASE Crash
      <4>1. fails' = fails + 1
        BY <3>2 DEF Crash, Failure
      <4>2. fails' <= 1 => Good("db") \/ Good("fallback")
        BY <4>1 DEF Saved, Unharmed, TypeOK
      <4> QED
        BY <2>1, <2>2, <4>1, <4>2
        DEF Saved, Safe, Validated, InitPlace, Path, TypeOK
    <3> QED
      BY <1>1, <3>1, <3>2
  <2> QED
    BY <2>3, <2>4
<1>2. CASE Start \/ InitDB(Main)
  <2>1. /\ \A f \in Path : (Exists(f) => Exists(f)') /\ (Good(f) => Good(f)')
        /\ fails' >= fails /\ fails' \in Nat
    <3>1. CASE Start
      BY <3>1 DEF Start, Exists, Good, TypeOK
    <3> QED
      BY <1>2, <3>1, InitDBGood
  <2>2. place[Main] # "up"
    BY <1>2 DEF Start, InitDB, Open, InitUser, RunSeeders, RecordSeeder,
                InitFails, Connected, InitPlace
  <2>3. \A i \in Import : place[i] = "idle"
    BY <2>2 DEF ImportInv, Up
  <2>4. \E to \in MainPlace : Goto(Main, to)
    BY <1>2, PanelDatabaseAssumption
    DEF Start, InitDB, Open, InitUser, RunSeeders, RecordSeeder, InitFails,
        HashPasswords, InitDone, MainPlace, InitPlace, PanelDatabaseAssumption
  <2>5. \A i \in Import : place'[i] = "idle"
    BY <2>3, <2>4, PanelDatabaseAssumption
    DEF Goto, TypeOK, PanelDatabaseAssumption
  <2>6. Up' => Exists("db")'
    <3>1. Up' => InitDone(Main)
      BY <1>2
      DEF Start, InitDB, Open, InitUser, RunSeeders, RecordSeeder, InitFails,
          HashPasswords, Goto, Up, TypeOK
    <3> QED
      BY <1>2, <3>1, InitDBGood DEF Start, Goto, Up, TypeOK
  <2>7. NothingLost'
    BY <2>1 DEF NothingLost, Good, TypeOK
  <2>8. ASSUME NEW i \in Import
        PROVE  Saved(i)'
    BY <2>1, <2>3, <2>5, <2>6
    DEF Saved, Safe, Unharmed, Validated, Deciding, InitPlace, Path, TypeOK
  <2> QED
    BY <2>7, <2>8
<1> QED
  BY <1>1, <1>2

LEMMA InitDBSurvives ==
    ASSUME TypeOK, NEW i \in Import, Kept(i), Saved(i), InitDB(i)
    PROVE  Saved(i)'
<1> USE DEF Deciding, InitPlace, Validated
<1>1. /\ \A f \in Path : (Exists(f) => Exists(f)') /\ (Good(f) => Good(f)')
      /\ fails' >= fails /\ fails' \in Nat
  BY InitDBGood
<1>2. place[i] \in InitPlace /\ Exists("db")
  BY DEF InitDB, Open, InitUser, RunSeeders, RecordSeeder, InitFails,
         Connected, Kept, Holds
<1>3. fails <= 1 => Good("db")
  BY <1>2 DEF Saved, Safe
<1>4. fails = 0 => Good("fallback")
  BY <1>2 DEF Saved, Unharmed
<1>5. CASE InitDone(i)
  BY <1>1, <1>2, <1>3, <1>5, InitDonePlace
  DEF Saved, Safe, Unharmed, Path, TypeOK
<1>6. CASE \E to \in {"user", "seed", "record"} : Goto(i, to)
  BY <1>1, <1>2, <1>3, <1>4, <1>6, GotoPlace
  DEF Saved, Safe, Unharmed, Path, TypeOK
<1>7. CASE InitFails(i)
  <2>1. place'[i] = "restore"
    BY <1>7, GotoPlace, PanelDatabaseAssumption
    DEF InitFails, PanelDatabaseAssumption
  <2>2. fails' = fails + 1
    BY <1>2, <1>7 DEF InitFails, Connected, Kept, Failure
  <2> QED
    BY <1>1, <1>4, <2>1, <2>2 DEF Saved, Safe, Unharmed, Path, TypeOK
<1> QED
  BY <1>5, <1>6, <1>7
  DEF InitDB, Open, InitUser, RunSeeders, RecordSeeder, HashPasswords

\* Two kinds of step need no more than a look at the places: those that leave
\* the files alone, and those that touch the temporary one only.
LEMMA ImportSurvives ==
    ASSUME TypeOK, NEW i \in Import, Kept(i), Kept(i)', Saved(i), ImportDB(i)
    PROVE  Saved(i)'
<1> USE DEF Deciding, InitPlace, Validated, Saved, Safe, Unharmed, Path, Up
<1>1. fails \in Nat
  BY PanelDatabaseAssumption DEF TypeOK, PanelDatabaseAssumption
<1>2. ASSUME files' = files, place'[Main] = place[Main], fails' = fails,
             \/ place[i] \in Validated \ {"swap"}
                /\ place'[i] \in Validated \ {"swap"}
             \/ place[i] \in {"idle", "copy", "validate"}
                /\ place'[i] \in {"untemp", "restart"}
             \/ place[i] = "start" /\ place'[i] = "unfallback"
             \/ place[i] = "restart" /\ place'[i] = "idle"
      PROVE  Saved(i)'
  BY <1>2 DEF Good, Exists
<1>3. ASSUME files'["db"] = files["db"], files'["fallback"] = files["fallback"],
             place'[Main] = place[Main], fails' = fails,
             \/ place[i] = "idle" /\ place'[i] = "copy"
             \/ place[i] = "copy" /\ place'[i] = "validate"
             \/ place[i] = "untemp" /\ place'[i] = "restart"
      PROVE  Saved(i)'
  BY <1>3 DEF Good, Exists
<1>4. CASE Refuse(i)
  BY <1>2, <1>4, GotoPlace DEF Refuse, DiskSame
<1>5. CASE Begin(i)
  <2>1. files'["db"] = files["db"] /\ files'["fallback"] = files["fallback"]
    BY <1>5 DEF Begin, TypeOK
  <2> QED
    BY <1>3, <1>5, <2>1, GotoPlace DEF Begin
<1>6. CASE CopyFails(i)
  BY <1>2, <1>6, GotoPlace DEF CopyFails
<1>7. CASE Copy(i)
  <2>1. upload[i] = "temp"
    BY <1>7 DEF Copy, Kept
  <2>2. files'["db"] = files["db"] /\ files'["fallback"] = files["fallback"]
    BY <1>7, <2>1 DEF Copy, TypeOK
  <2> QED
    BY <1>3, <1>7, <2>2, GotoPlace DEF Copy
<1>8. CASE Validate(i)
  <2>1. Good("temp") => "new" # "empty" /\ Exists("temp")
    BY DEF Good
  <2>2. files' = files /\ place'[Main] = place[Main] /\ fails' = fails
    BY <1>8, GotoPlace DEF Validate, DiskSame
  <2>3. CASE place'[i] = "stop"
    <3>1. Good("temp")
      BY <1>8, <2>3, GotoPlace DEF Validate, Good, Kept, Uploading, Holds
    <3> QED
      BY <1>8, <2>2, <2>3, <3>1 DEF Validate, Good, Exists
  <2>4. CASE place'[i] = "untemp"
    BY <1>2, <1>8, <2>2, <2>4 DEF Validate
  <2> QED
    BY <1>8, <2>3, <2>4, GotoPlace DEF Validate
<1>9. CASE StopXray(i)
  BY <1>2, <1>9, GotoPlace DEF StopXray, DiskSame
<1>10. CASE CloseDB(i)
  BY <1>2, <1>10, GotoPlace DEF CloseDB
<1>11. CASE DropFallback(i)
  <2>1. files'["db"] = files["db"] /\ files'["temp"] = files["temp"]
    BY <1>11, RemovedFiles DEF DropFallback
  <2> QED
    BY <1>11, <2>1, GotoPlace DEF DropFallback, Good, Exists
<1>12. CASE Backup(i)
  <2>1. files'["fallback"] = files["db"] /\ files'["temp"] = files["temp"]
    BY <1>12, RenamedFiles DEF Backup
  <2> QED
    BY <1>12, <2>1, GotoPlace DEF Backup, Good, Exists
<1>13. CASE BackupFails(i)
  <2>1. fails' <= 1 => fails' = fails + 1
    BY <1>1, <1>13 DEF BackupFails, Failure, Kept
  <2> QED
    BY <1>1, <1>13, <2>1, GotoPlace DEF BackupFails, DiskSame, Good, Exists
<1>14. CASE Swap(i)
  <2>1. files'["db"] = files["temp"] /\ files'["fallback"] = files["fallback"]
    BY <1>14, RenamedFiles DEF Swap
  <2> QED
    BY <1>14, <2>1, GotoPlace DEF Swap, Good, Exists
<1>15. CASE SwapFails(i)
  <2>1. fails' = fails + 1
    BY <1>15 DEF SwapFails, Failure, Kept, Uploading, Holds
  <2> QED
    BY <1>1, <1>15, <2>1, GotoPlace DEF SwapFails, DiskSame, Good, Exists
<1>16. CASE Restore(i)
  <2>1. files'["db"] = files["fallback"]
    BY <1>16, RenamedFiles DEF Restore
  <2> QED
    BY <1>16, <2>1, GotoPlace DEF Restore, Good, Exists
<1>17. CASE RestoreFails(i)
  <2>1. fails' \in Nat /\ fails' > 1
    BY <1>1, <1>17 DEF RestoreFails, Failure, Kept
  <2> QED
    BY <1>1, <1>17, <2>1 DEF RestoreFails
<1>18. CASE StartXray(i)
  BY <1>2, <1>18, GotoPlace DEF StartXray, DiskSame
<1>19. CASE StartFails(i)
  <2>1. fails' = fails + 1 \/ fails' = fails
    BY <1>19, RestartType DEF StartFails
  <2> QED
    BY <1>1, <1>19, <2>1, GotoPlace DEF StartFails, DiskSame, Good, Exists
<1>20. CASE RemoveFallback(i)
  <2>1. files'["db"] = files["db"]
    BY <1>20, RemovedFiles DEF RemoveFallback
  <2> QED
    BY <1>20, <2>1, GotoPlace DEF RemoveFallback, Good, Exists
<1>21. CASE RemoveTemp(i)
  <2>1. files'["db"] = files["db"] /\ files'["fallback"] = files["fallback"]
    BY <1>21, RemovedFiles DEF RemoveTemp
  <2> QED
    BY <1>3, <1>21, <2>1, GotoPlace DEF RemoveTemp
<1>22. CASE Reply(i)
  <2>1. fails' = fails + 1 \/ fails' = fails
    BY <1>22, RestartType DEF Reply
  <2> QED
    BY <1>1, <1>22, <2>1, GotoPlace DEF Reply, DiskSame, Good, Exists
<1> QED
  BY <1>4, <1>5, <1>6, <1>7, <1>8, <1>9, <1>10, <1>11, <1>12, <1>13, <1>14,
     <1>15, <1>16, <1>17, <1>18, <1>19, <1>20, <1>21, <1>22 DEF ImportDB

LEMMA SavedInit == Init => NothingLost /\ AllSaved
<1> SUFFICES ASSUME Init PROVE NothingLost /\ AllSaved
  OBVIOUS
<1>1. Good("db")
  <2>1. PICK pass \in {"plain", "hashed"} : files["db"] = Stored("old", pass)
    BY DEF Init, Path
  <2>2. Stored("old", pass) # NoFile
    BY ContentsAreFiles, FilesHaveData
  <2> QED
    BY <2>1, <2>2 DEF Good, Exists, Stored
<1>2. ~Up /\ \A i \in Import : place[i] = "idle"
  BY PanelDatabaseAssumption DEF Init, Up, PanelDatabaseAssumption
<1> QED
  BY <1>1, <1>2
  DEF AllSaved, Saved, Safe, Unharmed, Validated, Deciding, InitPlace,
      NothingLost, Good, Path

LEMMA SavedStep ==
    ASSUME One, TypeOK, TypeOK', ImportInv, ImportInv', NothingLost,
           AllSaved, [Next]_vars
    PROVE  NothingLost' /\ AllSaved'
<1>1. CASE UNCHANGED vars
  BY <1>1
  DEF vars, NothingLost, AllSaved, Saved, Safe, Unharmed, Good, Exists, Up
<1>2. CASE Start \/ Shutdown \/ Crash \/ InitDB(Main)
  BY <1>2, PanelSurvives DEF AllSaved
<1>3. ASSUME NEW i \in Import, InitDB(i) \/ ImportDB(i)
      PROVE  NothingLost' /\ AllSaved'
  <2>1. Saved(i)'
    BY <1>3, KeptByAll, InitDBSurvives, ImportSurvives DEF AllSaved
  <2>2. \A j \in Import : j = i
    BY DEF One
  <2>3. NothingLost'
    <3>1. fails' <= 1 => Good("db")' \/ Good("fallback")' \/ Good("temp")'
      BY <2>1
      DEF TypeOK, Saved, Safe, Validated, InitPlace, ImportPlace
    <3> QED
      BY <3>1 DEF NothingLost, Good, Path
  <2> QED
    BY <2>1, <2>2, <2>3 DEF AllSaved
<1> QED
  BY <1>1, <1>2, <1>3 DEF Next

\* NothingLost: after any one failure or crash, some file still holds a whole
\* database, if imports do not overlap.
THEOREM OneFailureLosesNothing == ASSUME One PROVE Spec => []NothingLost
<1>1. Init => NothingLost /\ AllSaved
  BY SavedInit
<1>2. TypeOK /\ TypeOK' /\ ImportInv /\ ImportInv' /\ NothingLost /\ AllSaved
         /\ [Next]_vars
      => NothingLost' /\ AllSaved'
  BY SavedStep
<1> QED
  BY <1>1, <1>2, DatabaseTypeCorrect, ImportKeepsFiles, PTL DEF Spec

-----------------------------------------------------------------------------
(* What an import that is reported as done leaves behind.                  *)

\* From the end of its InitDB on, until it has answered.
Serving(i) ==
    result[i] = "ok" =>
        /\ Up /\ conn = "db" /\ Holds("db", "new")
        /\ place[i] \in Returning => xray
AllServing == \A i \in Import : Serving(i)

LEMMA ServingInitDB ==
    ASSUME TypeOK, NEW i \in Import, Kept(i), Kept(i)', InitDB(i)
    PROVE  Serving(i)'
<1> USE DEF Serving, Returning, InitPlace
<1>1. place[i] \in InitPlace /\ result[i] = "none"
  BY DEF InitDB, Open, InitUser, RunSeeders, RecordSeeder, InitFails, Connected,
         Kept
<1>2. CASE InitDone(i)
  <2>1. place'[i] = "start" /\ place'[Main] = place[Main]
    BY <1>2, InitDonePlace
  <2>2. Connected(i, place[i]) /\ conn' = conn /\ (files' = files \/ RecordSeeded)
    <3>1. place'[i] \notin {"user", "seed", "record", "restore"}
      BY <2>1
    <3>2. RunSeeders(i) \/ RecordSeeder(i)
      BY <3>1, GotoPlace, PanelDatabaseAssumption
      DEF InitDB, Open, InitUser, InitFails, PanelDatabaseAssumption
    <3>3. ~HashPasswords(i)
      BY <3>1, GotoPlace DEF HashPasswords
    <3> QED
      BY <3>2, <3>3 DEF RunSeeders, RecordSeeder, Connected
  <2>3. Holds("db", "new") /\ Up
    BY <1>1 DEF Kept
  <2>4. Holds("db", "new")'
    <3>1. CASE files' = files
      BY <2>3, <3>1 DEF Holds, Exists
    <3>2. CASE RecordSeeded
      BY <2>3, <3>2, WriteType DEF Holds, Exists, Db
    <3> QED
      BY <2>2, <3>1, <3>2
  <2> QED
    BY <2>1, <2>2, <2>3, <2>4 DEF Connected, Up
<1>3. CASE ~InitDone(i)
  <2>1. result' = result
    BY <1>3 DEF InitDB, Open, InitUser, RunSeeders, RecordSeeder, InitFails,
                HashPasswords
  <2> QED
    BY <1>1, <2>1
<1> QED
  BY <1>2, <1>3

LEMMA ServingImportDB ==
    ASSUME TypeOK, NEW i \in Import, Kept(i), Kept(i)', Serving(i), ImportDB(i)
    PROVE  Serving(i)'
<1> USE DEF Serving, Returning, Path
<1>1. ASSUME result'[i] # "ok" PROVE Serving(i)'
  BY <1>1
<1>2. ASSUME place[i] \notin Returning \cup {"start"}, UNCHANGED result
      PROVE  Serving(i)'
  BY <1>1, <1>2 DEF Kept
<1>3. CASE Refuse(i) \/ CopyFails(i) \/ BackupFails(i) \/ Restore(i)
           \/ RestoreFails(i) \/ StartFails(i) \/ Reply(i)
  BY <1>1, <1>3, OutcomeOf
  DEF Refuse, CopyFails, BackupFails, Restore, RestoreFails, StartFails, Reply
<1>4. CASE Begin(i) \/ Copy(i) \/ StopXray(i) \/ CloseDB(i) \/ DropFallback(i)
           \/ Backup(i) \/ Swap(i) \/ SwapFails(i)
  BY <1>2, <1>4
  DEF Begin, Copy, StopXray, CloseDB, DropFallback, Backup, Swap, SwapFails
<1>5. CASE Validate(i)
  BY <1>1, <1>2, <1>5, OutcomeOf DEF Validate
<1>6. CASE StartXray(i)
  BY <1>6, GotoPlace DEF StartXray, DiskSame, Up, Holds, Exists
<1>7. CASE RemoveFallback(i)
  <2>1. files'["db"] = files["db"] /\ (conn = "db" => conn' = "db")
    BY <1>7, RemovedFiles DEF RemoveFallback, Remove, Unlinked
  <2> QED
    BY <1>7, <2>1, GotoPlace DEF RemoveFallback, Up, Holds, Exists
<1>8. CASE RemoveTemp(i)
  <2>1. files'["db"] = files["db"] /\ (conn = "db" => conn' = "db")
    BY <1>8, RemovedFiles DEF RemoveTemp, Remove, Unlinked
  <2> QED
    BY <1>8, <2>1, GotoPlace DEF RemoveTemp, Up, Holds, Exists
<1> QED
  BY <1>3, <1>4, <1>5, <1>6, <1>7, <1>8 DEF ImportDB

LEMMA ServingStep ==
    ASSUME One, TypeOK, ImportInv, ImportInv', AllServing, [Next]_vars
    PROVE  AllServing'
<1>1. CASE UNCHANGED vars
  BY <1>1 DEF vars, AllServing, Serving, Up, Holds, Exists
<1>2. CASE Start \/ Shutdown \/ Crash \/ InitDB(Main)
  <2>1. \A i \in Import : result'[i] # "ok"
    <3>1. CASE Shutdown \/ Crash
      BY <3>1 DEF Shutdown, Crash, Ends
    <3>2. CASE Start \/ InitDB(Main)
      <4>1. place[Main] # "up"
        BY <3>2 DEF Start, InitDB, Open, InitUser, RunSeeders, RecordSeeder,
                    InitFails, Connected, InitPlace
      <4>2. \A i \in Import : result[i] = "none"
        BY <4>1 DEF ImportInv, Up, Returning
      <4>3. \A i \in Import : result'[i] = result[i]
        BY <3>2, PanelDatabaseAssumption
        DEF Start, InitDB, Open, InitUser, RunSeeders, RecordSeeder, InitFails,
            HashPasswords, InitDone, PanelDatabaseAssumption
      <4> QED
        BY <4>2, <4>3
    <3> QED
      BY <1>2, <3>1, <3>2
  <2> QED
    BY <2>1 DEF AllServing, Serving
<1>3. ASSUME NEW i \in Import, InitDB(i) \/ ImportDB(i)
      PROVE  AllServing'
  <2>1. Serving(i)'
    BY <1>3, KeptByAll, ServingInitDB, ServingImportDB DEF AllServing
  <2>2. \A j \in Import : j = i
    BY DEF One
  <2> QED
    BY <2>1, <2>2 DEF AllServing
<1> QED
  BY <1>1, <1>2, <1>3 DEF Next

\* The step of SuccessServes: only an answer takes an import that said "ok" to
\* "idle" in a panel that stays up, and an answer moves no file.
LEMMA AnswerServes ==
    ASSUME TypeOK, ImportInv, AllServing, [Next]_vars, One,
           NEW i \in Import, result[i] = "ok", place'[i] = "idle", Up'
    PROVE  /\ xray /\ (xray' \/ fails' > fails)
           /\ conn' = "db" /\ Exists("db") /\ Db.data = "new"
<1>1. Up /\ conn = "db" /\ Holds("db", "new") /\ (place[i] \in Returning => xray)
  BY DEF AllServing, Serving
<1>2. place[i] \in Returning \cup {"start"}
  BY DEF ImportInv
<1>3. place[i] # "idle" /\ place[Main] = "up"
  BY <1>1, <1>2 DEF Returning, Up
<1>4. ~(Shutdown \/ Crash)
  BY DEF Shutdown, Crash, Ends, Up
<1>5. ~(Start \/ InitDB(Main))
  BY <1>3 DEF Start, InitDB, Open, InitUser, RunSeeders, RecordSeeder,
              InitFails, Connected, InitPlace
<1>6. ~UNCHANGED vars
  BY <1>3 DEF vars
<1>7. InitDB(i) \/ ImportDB(i)
  BY <1>4, <1>5, <1>6 DEF Next, One
<1>8. Reply(i)
  <2>1. ~InitDB(i)
    BY <1>2 DEF InitDB, Open, InitUser, RunSeeders, RecordSeeder, InitFails,
                Connected, InitPlace, Returning
  <2>2. place[i] \in {"start", "unfallback", "untemp", "restart"}
    BY <1>2 DEF Returning
  <2>3. \/ StartXray(i) \/ StartFails(i)
        \/ RemoveFallback(i) \/ RemoveTemp(i) \/ Reply(i)
    BY <1>7, <2>1, <2>2
    DEF ImportDB, Refuse, Begin, CopyFails, Copy, Validate, StopXray, CloseDB,
        DropFallback, Backup, BackupFails, Swap, SwapFails, Restore, RestoreFails
  <2> QED
    BY <2>3, GotoPlace DEF StartXray, StartFails, RemoveFallback, RemoveTemp
<1>9. place[i] = "restart" /\ xray
  BY <1>1, <1>8 DEF Reply, Returning
<1>10. xray' \/ fails' > fails
  <2>1. fails \in Nat
    BY PanelDatabaseAssumption DEF TypeOK, PanelDatabaseAssumption
  <2>2. CASE RestartFails
    BY <1>1, <2>1, <2>2, RestartType
  <2> QED
    BY <1>8, <2>2 DEF Reply
<1> QED
  BY <1>1, <1>8, <1>9, <1>10 DEF Reply, DiskSame, Holds, Db

\* SuccessServes: whatever failed on the way, an import that answers "ok" leaves
\* the panel connected to the uploaded database, with xray running.
THEOREM SuccessIsServed == ASSUME One PROVE Spec => SuccessServes
<1>1. Init => AllServing
  BY DEF Init, AllServing, Serving
<1>2. TypeOK /\ ImportInv /\ ImportInv' /\ AllServing /\ [Next]_vars => AllServing'
  BY ServingStep
<1>3. TypeOK /\ ImportInv /\ AllServing /\ [Next]_vars =>
        [\A i \in Import :
            (result[i] = "ok" /\ place'[i] = "idle" /\ Up') =>
               /\ xray /\ (xray' \/ fails' > fails)
               /\ conn' = "db" /\ Exists("db") /\ Db.data = "new"]_vars
  BY AnswerServes
<1> QED
  BY <1>1, <1>2, <1>3, DatabaseTypeCorrect, ImportKeepsFiles, PTL
  DEF Spec, SuccessServes

-----------------------------------------------------------------------------
(* Passwords, as long as nothing fails.                                    *)

\* A database as some version left it, one whose passwords are hashed and not
\* yet recorded as such, and one that is done with.
Sound(f) ==
    /\ Exists(f) /\ files[f].pass \in {"none", "plain", "hashed"}
    /\ files[f].seeded <=> files[f].pass = "hashed"
Unrecorded(f) == Exists(f) /\ files[f].pass = "hashed" /\ ~files[f].seeded
Recorded(f)   == Exists(f) /\ files[f].pass = "hashed" /\ files[f].seeded

\* What InitDB finds at each of its statements.
Seeding(w) ==
    /\ place[w] \in {"open", "user"} => Sound("db")
    /\ place[w] = "seed" =>
          IF was[w] THEN Unrecorded("db") ELSE Sound("db") /\ Db.pass # "none"
    /\ place[w] = "record" => Unrecorded("db")
    /\ place[w] \in InitPlace \ {"open"} => conn = "db"

\* The upload of import i, from its validation on, and the database while i
\* does not replace it.
HashesKept(i) ==
    /\ Seeding(i)
    /\ place[i] = "validate" /\ files["temp"].whole => Sound("temp")
    /\ place[i] \in Validated => Sound("temp")
    /\ Up /\ place[i] \notin Deciding => Recorded("db")

HashInv ==
    fails = 0 =>
        /\ Seeding(Main)
        /\ place[Main] = "down" => Sound("db")
        /\ Up /\ (\A i \in Import : place[i] = "idle") => Recorded("db")
        /\ \A i \in Import : HashesKept(i)

LEMMA StoredSound ==
    ASSUME NEW data, NEW pass
    PROVE  /\ Stored(data, pass).pass = pass
           /\ Stored(data, pass).seeded <=> pass = "hashed"
<1> DEFINE hashed == pass = "hashed"
<1>1. Stored(data, pass) = [data |-> data, pass |-> pass, seeded |-> hashed, whole |-> TRUE]
  BY DEF Stored
<1>2. Stored(data, pass).pass = pass /\ Stored(data, pass).seeded = hashed
  <2> HIDE DEF hashed
  <2> QED
    BY <1>1
<1> QED
  BY <1>2, Zenon

LEMMA RecordedIsSound == Recorded("db") => Sound("db")
BY DEF Recorded, Sound

LEMMA WrittenPass ==
    ASSUME TypeOK, Exists("db"), NEW pass \in Password, WritePass(pass)
    PROVE  Exists("db")' /\ Db'.pass = pass /\ Db'.seeded = Db.seeded
<1>1. Db \in File
  BY DEF TypeOK, Exists, Path, Db
<1>2. files'["db"] = [Db EXCEPT !.pass = pass]
  BY DEF WritePass, TypeOK, Path
<1>3. [Db EXCEPT !.pass = pass].pass = pass
      /\ [Db EXCEPT !.pass = pass].seeded = Db.seeded
  BY <1>1 DEF File
<1>4. Exists("db")'
  BY WriteType
<1> QED
  BY <1>2, <1>3, <1>4 DEF Db

LEMMA WrittenRecord ==
    ASSUME TypeOK, Exists("db"), RecordSeeded
    PROVE  Exists("db")' /\ Db'.pass = Db.pass /\ Db'.seeded
<1>1. Db \in File
  BY DEF TypeOK, Exists, Path, Db
<1>2. files'["db"] = [Db EXCEPT !.seeded = TRUE]
  BY DEF RecordSeeded, TypeOK, Path
<1>3. [Db EXCEPT !.seeded = TRUE].pass = Db.pass
      /\ [Db EXCEPT !.seeded = TRUE].seeded
  BY <1>1 DEF File
<1>4. Exists("db")'
  BY WriteType
<1> QED
  BY <1>2, <1>3, <1>4 DEF Db

\* InitDB takes a database from Sound to Recorded, one statement at a time, and
\* hashes no hash.
LEMMA SeedingStep ==
    ASSUME TypeOK, NEW w \in Import \cup {Main}, Seeding(w), InitDB(w),
           fails = 0, fails' = 0
    PROVE  /\ Seeding(w)'
           /\ \/ place'[w] \in InitPlace \ {"open"}
              \/ InitDone(w) /\ Recorded("db")'
<1> USE DEF Seeding, InitPlace, Db
<1>1. \A to : Goto(w, to) => place'[w] = to
  BY DEF Goto, TypeOK
<1>2. CASE Open(w)
  <2>1. Sound("db") /\ files' = files
    BY <1>2 DEF Open, Sound, TypeOK
  <2>2. Sound("db")' /\ conn' = "db"
    BY <1>2, <2>1 DEF Open, Sound, Exists
  <2> QED
    BY <1>1, <1>2, <2>2 DEF Open
<1>3. CASE InitUser(w)
  <2>1. Sound("db") /\ conn = "db" /\ conn' = conn /\ place'[w] = "seed"
    BY <1>1, <1>3 DEF InitUser, Connected
  <2>2. was'[w] = (Db.pass = "none")
    BY <1>3 DEF InitUser, TypeOK
  <2>3. CASE Db.pass = "none"
    <3>1. Db'.pass = "hashed" /\ Db'.seeded = Db.seeded /\ Exists("db")'
      BY <1>3, <2>3, WrittenPass DEF InitUser, Connected, Password
    <3>2. ~Db.seeded
      BY <2>1, <2>3 DEF Sound
    <3> QED
      BY <2>1, <2>2, <2>3, <3>1, <3>2 DEF Unrecorded
  <2>4. CASE Db.pass # "none"
    <3>1. Db.pass \in Password /\ WritePass(Db.pass)
      BY <1>3, <2>1, <2>4 DEF InitUser, Sound, Password
    <3>2. Db'.pass = Db.pass /\ Db'.seeded = Db.seeded /\ Exists("db")'
      BY <2>1, <3>1, WrittenPass DEF Sound
    <3> QED
      BY <2>1, <2>2, <2>4, <3>2 DEF Sound
  <2> QED
    BY <2>3, <2>4
<1>4. CASE RunSeeders(w)
  <2>1. Connected(w, "seed") /\ conn' = conn /\ was' = was
    BY <1>4 DEF RunSeeders
  <2>2. CASE Db.seeded /\ InitDone(w) /\ UNCHANGED files
    <3>1. Recorded("db")
      BY <2>1, <2>2 DEF Connected, Unrecorded, Recorded, Sound
    <3>2. place'[w] \notin InitPlace
      BY <1>1, <2>2 DEF InitDone
    <3> QED
      BY <2>2, <3>1, <3>2 DEF Recorded, Exists
  <2>3. CASE ~Db.seeded /\ was[w] /\ RecordSeeded /\ InitDone(w)
    <3>1. Unrecorded("db")
      BY <2>1, <2>3 DEF Connected
    <3>2. Recorded("db")'
      BY <2>3, <3>1, WrittenRecord DEF Unrecorded, Recorded
    <3>3. place'[w] \notin InitPlace
      BY <1>1, <2>3 DEF InitDone
    <3> QED
      BY <2>3, <3>2, <3>3
  <2>4. CASE ~Db.seeded /\ ~was[w] /\ HashPasswords(w)
    <3>1. Db.pass = "plain" /\ Exists("db")
      BY <2>1, <2>4 DEF Connected, Sound
    <3>2. Db'.pass = "hashed" /\ Db'.seeded = Db.seeded /\ Exists("db")'
      BY <2>4, <3>1, WrittenPass DEF HashPasswords, Password
    <3>3. place'[w] = "record"
      BY <1>1, <2>4 DEF HashPasswords
    <3> QED
      BY <2>1, <2>4, <3>2, <3>3 DEF Unrecorded, Connected
  <2> QED
    BY <1>4, <2>2, <2>3, <2>4 DEF RunSeeders
<1>5. CASE RecordSeeder(w)
  <2>1. Unrecorded("db") /\ RecordSeeded /\ InitDone(w)
    BY <1>5 DEF RecordSeeder, Connected
  <2>2. Recorded("db")'
    BY <2>1, WrittenRecord DEF Unrecorded, Recorded
  <2>3. place'[w] \notin InitPlace
    BY <1>1, <2>1 DEF InitDone
  <2> QED
    BY <2>1, <2>2, <2>3
<1>6. CASE InitFails(w)
  <2>1. ~Failure
    BY DEF Failure
  <2>2. place[w] \in InitPlace /\ place[w] # "open" /\ ~Connected(w, place[w])
    BY <1>6, <2>1 DEF InitFails
  <2>3. conn = "db" /\ Exists("db")
    BY <2>2 DEF Sound, Unrecorded
  <2> QED
    BY <2>2, <2>3 DEF Connected
<1> QED
  BY <1>2, <1>3, <1>4, <1>5, <1>6 DEF InitDB

LEMMA HashPanel ==
    ASSUME TypeOK, ImportInv, HashInv, fails = 0, fails' = 0,
           Start \/ Shutdown \/ Crash \/ InitDB(Main)
    PROVE  HashInv'
<1> USE DEF HashInv, InitPlace
<1>1. ~Crash
  BY DEF Crash, Failure
<1>2. ASSUME \A i \in Import : place'[i] = "idle", ~Up'
      PROVE  \A i \in Import : HashesKept(i)'
  BY <1>2 DEF HashesKept, Seeding, Validated
<1>3. CASE Start
  <2>1. place'[Main] = "open" /\ \A i \in Import : place'[i] = place[i]
    BY <1>3, PanelDatabaseAssumption
    DEF Start, Goto, TypeOK, PanelDatabaseAssumption
  <2>2. \A i \in Import : place'[i] = "idle"
    BY <1>3, <2>1 DEF Start, ImportInv, Up
  <2>3. Sound("db")'
    BY <1>3 DEF Start, Sound, Exists
  <2> QED
    BY <1>2, <2>1, <2>2, <2>3 DEF Seeding, Up
<1>4. CASE Shutdown
  <2>1. place'[Main] = "down" /\ \A i \in Import : place'[i] = "idle"
    BY <1>4, PanelDatabaseAssumption
    DEF Shutdown, Ends, PanelDatabaseAssumption
  <2>2. Sound("db") /\ files' = files
    BY <1>4, RecordedIsSound DEF Shutdown, Ends
  <2> QED
    BY <1>2, <2>1, <2>2 DEF Seeding, Up, Sound, Exists
<1>5. CASE InitDB(Main)
  <2>1. /\ Seeding(Main)'
        /\ \/ place'[Main] \in InitPlace \ {"open"}
           \/ InitDone(Main) /\ Recorded("db")'
    BY <1>5, SeedingStep
  <2>2. place[Main] # "up"
    BY <1>5 DEF InitDB, Open, InitUser, RunSeeders, RecordSeeder,
                InitFails, Connected
  <2>3. \E to \in MainPlace : Goto(Main, to)
    BY <1>5, PanelDatabaseAssumption
    DEF InitDB, Open, InitUser, RunSeeders, RecordSeeder, InitFails,
        HashPasswords, InitDone, MainPlace, PanelDatabaseAssumption
  <2>4. \A i \in Import : place'[i] = "idle"
    BY <2>2, <2>3, PanelDatabaseAssumption
    DEF ImportInv, Up, Goto, TypeOK, PanelDatabaseAssumption
  <2>5. CASE place'[Main] \in InitPlace \ {"open"}
    BY <1>2, <2>1, <2>4, <2>5 DEF Up
  <2>6. CASE InitDone(Main) /\ Recorded("db")'
    <3>1. place'[Main] = "up"
      BY <2>6 DEF InitDone, Goto, TypeOK
    <3>2. \A i \in Import : HashesKept(i)'
      BY <2>4, <2>6 DEF HashesKept, Seeding, Validated
    <3> QED
      BY <2>1, <2>6, <3>1, <3>2
  <2> QED
    BY <2>1, <2>5, <2>6
<1> QED
  BY <1>1, <1>3, <1>4, <1>5

LEMMA HashImportDB ==
    ASSUME TypeOK, NEW i \in Import, Kept(i), HashesKept(i), ImportDB(i),
           Up, fails = 0, fails' = 0
    PROVE  Up' /\ HashesKept(i)'
<1> USE DEF HashesKept, Seeding, InitPlace, Validated, Deciding, Path
<1>0. ~Failure
  BY DEF Failure
<1>1. ASSUME NEW to, Goto(i, to) PROVE place'[i] = to /\ Up'
  BY <1>1, GotoPlace DEF Up
<1>2. ASSUME files'["db"] = files["db"], place[i] \notin Deciding, Up',
             place'[i] \in {"idle", "copy", "start", "unfallback", "untemp", "restart"}
      PROVE  HashesKept(i)'
  BY <1>2 DEF Recorded, Exists
<1>3. ASSUME files'["db"] = files["db"], files'["temp"] = files["temp"], Up',
             place[i] \in Validated \ {"swap"}, place'[i] \in Validated \ {"swap"}
      PROVE  HashesKept(i)'
  BY <1>3 DEF Recorded, Sound, Exists
<1>4. CASE Refuse(i)
  BY <1>1, <1>2, <1>4 DEF Refuse, DiskSame
<1>5. CASE Begin(i)
  <2>1. files'["db"] = files["db"]
    BY <1>5 DEF Begin, TypeOK
  <2> QED
    BY <1>1, <1>2, <1>5, <2>1 DEF Begin
<1>6. CASE CopyFails(i)
  BY <1>1, <1>2, <1>6 DEF CopyFails
<1>7. CASE Copy(i)
  <2>1. upload[i] = "temp"
    BY <1>7 DEF Copy, Kept
  <2>2. PICK file \in Uploads \cup {Partial} : files' = [files EXCEPT !["temp"] = file]
    BY <1>7, <2>1 DEF Copy
  <2>3. files'["db"] = files["db"] /\ files'["temp"] = file
    BY <2>2 DEF TypeOK
  <2>4. file # NoFile
    BY ContentsAreFiles, FilesHaveData
  <2>5. file.whole => /\ file.pass \in {"none", "plain", "hashed"}
                      /\ file.seeded <=> file.pass = "hashed"
    BY StoredSound DEF Partial, Uploads
  <2>6. place'[i] = "validate" /\ Up' /\ Recorded("db")
    BY <1>1, <1>7 DEF Copy
  <2> QED
    BY <2>3, <2>4, <2>5, <2>6 DEF Sound, Recorded, Exists
<1>8. CASE Validate(i)
  <2>1. files' = files
    BY <1>8 DEF Validate, DiskSame
  <2>2. CASE Goto(i, "stop")
    <3>1. Exists("temp") /\ files["temp"].whole
      BY <1>1, <1>8, <2>2 DEF Validate
    <3> QED
      BY <1>1, <1>8, <2>1, <2>2, <3>1 DEF Validate, Sound, Recorded, Exists
  <2>3. CASE Goto(i, "untemp")
    BY <1>1, <1>2, <1>8, <2>1, <2>3 DEF Validate
  <2> QED
    BY <1>8, <2>2, <2>3 DEF Validate
<1>9. CASE StopXray(i)
  BY <1>1, <1>3, <1>9 DEF StopXray, DiskSame
<1>10. CASE CloseDB(i)
  BY <1>1, <1>3, <1>10 DEF CloseDB
<1>11. CASE DropFallback(i)
  <2>1. files'["db"] = files["db"] /\ files'["temp"] = files["temp"]
    BY <1>11, RemovedFiles DEF DropFallback
  <2> QED
    BY <1>1, <1>3, <1>11, <2>1 DEF DropFallback
<1>12. CASE Backup(i)
  <2>1. files'["temp"] = files["temp"]
    BY <1>12, RenamedFiles DEF Backup
  <2> QED
    BY <1>1, <1>12, <2>1 DEF Backup, Sound, Exists
<1>13. CASE BackupFails(i)
  <2>1. files' = files /\ place[i] = "backup"
    BY <1>0, <1>13 DEF BackupFails, DiskSame
  <2> QED
    BY <1>1, <1>2, <1>13, <2>1 DEF BackupFails
<1>14. CASE Swap(i)
  <2>1. files'["db"] = files["temp"] /\ Sound("temp")
    BY <1>14, RenamedFiles DEF Swap
  <2> QED
    BY <1>1, <1>14, <2>1 DEF Swap, Sound, Exists
<1>15. CASE SwapFails(i) \/ Restore(i) \/ RestoreFails(i)
  BY <1>0, <1>15
  DEF SwapFails, Restore, RestoreFails, Kept, Uploading, Holds
<1>16. CASE StartXray(i)
  BY <1>1, <1>2, <1>16 DEF StartXray, DiskSame
<1>17. CASE StartFails(i)
  BY <1>1, <1>2, <1>17 DEF StartFails, DiskSame
<1>18. CASE RemoveFallback(i)
  <2>1. files'["db"] = files["db"]
    BY <1>18, RemovedFiles DEF RemoveFallback
  <2> QED
    BY <1>1, <1>2, <1>18, <2>1 DEF RemoveFallback
<1>19. CASE RemoveTemp(i)
  <2>1. files'["db"] = files["db"]
    BY <1>19, RemovedFiles DEF RemoveTemp
  <2> QED
    BY <1>1, <1>2, <1>19, <2>1 DEF RemoveTemp
<1>20. CASE Reply(i)
  BY <1>1, <1>2, <1>20 DEF Reply, DiskSame
<1> QED
  BY <1>4, <1>5, <1>6, <1>7, <1>8, <1>9, <1>10, <1>11, <1>12, <1>13, <1>14,
     <1>15, <1>16, <1>17, <1>18, <1>19, <1>20 DEF ImportDB

LEMMA HashInit == Init => HashInv
<1> SUFFICES ASSUME Init PROVE HashInv
  OBVIOUS
<1>1. PICK pass \in {"plain", "hashed"} : files["db"] = Stored("old", pass)
  BY DEF Init, Path
<1>2. Stored("old", pass) # NoFile
  BY ContentsAreFiles, FilesHaveData
<1>3. Sound("db")
  BY <1>1, <1>2, StoredSound DEF Sound, Exists
<1>4. place[Main] = "down" /\ \A i \in Import : place[i] = "idle"
  BY PanelDatabaseAssumption DEF Init, PanelDatabaseAssumption
<1> QED
  BY <1>3, <1>4 DEF HashInv, HashesKept, Seeding, InitPlace, Validated, Up

LEMMA HashStep ==
    ASSUME One, TypeOK, ImportInv, HashInv, [Next]_vars
    PROVE  HashInv'
<1> SUFFICES ASSUME fails' = 0 PROVE HashInv'
  BY DEF HashInv
<1>1. CASE UNCHANGED vars
  BY <1>1
  DEF vars, HashInv, HashesKept, Seeding, Sound, Unrecorded, Recorded, Exists,
      Up, Db
<1>2. fails = 0
  <2>1. fails \in Nat
    BY PanelDatabaseAssumption DEF TypeOK, PanelDatabaseAssumption
  <2>2. RestartFails => fails' = fails \/ fails' = fails + 1
    BY RestartType
  <2>3. fails' = fails \/ fails' = fails + 1
    BY <1>1, <2>2
    DEF Next, vars, Start, Shutdown, Crash, Failure, InitDB, Open, InitUser,
        RunSeeders, RecordSeeder, InitFails, ImportDB, Refuse, Begin, CopyFails,
        Copy, Validate, StopXray, CloseDB, DropFallback, Backup, BackupFails,
        Swap, SwapFails, Restore, RestoreFails, StartXray, StartFails,
        RemoveFallback, RemoveTemp, Reply
  <2> QED
    BY <2>1, <2>3
<1>3. CASE Start \/ Shutdown \/ Crash \/ InitDB(Main)
  BY <1>2, <1>3, HashPanel
<1>4. ASSUME NEW i \in Import, InitDB(i) \/ ImportDB(i)
      PROVE  HashInv'
  <2>1. Kept(i) /\ HashesKept(i)
    BY <1>2, KeptByAll DEF HashInv
  <2>2. Up
    <3>1. place[i] = "idle" => Refuse(i) \/ Begin(i)
      BY <1>4
      DEF InitDB, Open, InitUser, RunSeeders, RecordSeeder, InitFails, Connected,
          InitPlace, ImportDB, CopyFails, Copy, Validate, StopXray, CloseDB,
          DropFallback, Backup, BackupFails, Swap, SwapFails, Restore,
          RestoreFails, StartXray, StartFails, RemoveFallback, RemoveTemp, Reply
    <3> QED
      BY <2>1, <3>1 DEF Kept, Refuse, Begin
  <2>3. Up' /\ HashesKept(i)'
    <3>1. CASE ImportDB(i)
      BY <1>2, <2>1, <2>2, <3>1, HashImportDB
    <3>2. CASE InitDB(i)
      <4>1. /\ Seeding(i)'
            /\ \/ place'[i] \in InitPlace \ {"open"}
               \/ InitDone(i) /\ Recorded("db")'
        BY <1>2, <2>1, <3>2, SeedingStep DEF HashesKept
      <4>2. \E to : Goto(i, to)
        BY <3>2
        DEF InitDB, Open, InitUser, RunSeeders, RecordSeeder, InitFails,
            HashPasswords, InitDone
      <4>3. Up'
        BY <2>2, <4>2, GotoPlace DEF Up
      <4>4. InitDone(i) => place'[i] = "start"
        BY InitDonePlace
      <4> QED
        BY <4>1, <4>3, <4>4 DEF HashesKept, InitPlace, Validated, Deciding
    <3> QED
      BY <1>4, <3>1, <3>2
  <2>4. \A j \in Import : j = i
    BY DEF One
  <2> QED
    BY <2>3, <2>4 DEF HashInv, Seeding, HashesKept, Deciding, InitPlace, Up
<1> QED
  BY <1>1, <1>3, <1>4 DEF Next

\* HashedOnce: start-up, restarts and imports of databases of any version, in any
\* order, leave the passwords of the database in use hashed once, as long as no
\* step fails.
THEOREM PasswordsHashedOnce == ASSUME One PROVE Spec => []HashedOnce
<1>1. HashInv => HashedOnce
  BY DEF HashInv, HashedOnce, Quiet, Recorded, Db
<1>2. TypeOK /\ ImportInv /\ HashInv /\ [Next]_vars => HashInv'
  BY HashStep
<1> QED
  BY <1>1, <1>2, HashInit, DatabaseTypeCorrect, ImportKeepsFiles, PTL DEF Spec
=============================================================================
