---------------------------- MODULE PanelDatabase ----------------------------
(***************************************************************************)
(* The database of the panel as a file: its opening, migration and seeding *)
(* at start-up (database/db.go, main.go), and its replacement by an        *)
(* uploaded one while the panel runs (ImportDB of service/server.go, under *)
(* importDB of controller/server.go).                                      *)
(*                                                                         *)
(* A file is what it holds.  The connection, and the handle of the upload, *)
(* belong to a file and not to a name: they follow it when it is renamed   *)
(* and keep it when it is unlinked.  Any step may fail and the panel may   *)
(* be killed between any two of them.  MigrateDB, which an import calls    *)
(* after InitDB, rewrites fields of inbounds, returns no error and is left *)
(* out; so is all that happens to xray when nobody imports.                *)
(***************************************************************************)
EXTENDS Naturals

CONSTANTS
    Import,   \* imports that may be in progress at once
    Main,     \* the goroutine that starts the panel
    NoFile,   \* nothing at a path
    MaxFail   \* bound: steps that fail and crashes, together

ASSUME PanelDatabaseAssumption ==
    /\ Main \notin Import
    /\ MaxFail \in Nat

VARIABLES
    files,  \* content of the file at each path
    conn,   \* the file behind database.db: its path, unlinked or closed
    upload, \* the same for the handle of each import's temporary file
    place,  \* where main and each import are
    was,    \* isUsersEmpty of a running InitDB
    result, \* what ImportDB is going to return
    xray,   \* an xray process runs
    fails   \* use of the bound

vars == <<files, conn, upload, place, was, result, xray, fails>>

Path     == {"db", "temp", "fallback"}
Handle   == Path \cup {"unlinked", "closed"}
Password == {"none", "plain", "hashed", "rehashed"}
Data     == {"old", "new", "empty"}
Result   == {"none", "ok", "unstarted", "failed", "lost"}
File     == [data : Data, pass : Password, seeded : BOOLEAN, whole : BOOLEAN]

ASSUME NoFileAssumption == NoFile \notin File

InitPlace == {"open", "user", "seed", "record"}
MainPlace == {"down", "up"} \cup InitPlace
ImportPlace ==
    {"idle", "copy", "validate", "stop", "close", "drop", "backup", "swap",
     "restore", "start", "unfallback", "untemp", "restart"} \cup InitPlace

TypeOK ==
    /\ files \in [Path -> File \cup {NoFile}]
    /\ conn \in Handle
    /\ upload \in [Import -> Handle]
    /\ place \in [Import \cup {Main} -> MainPlace \cup ImportPlace]
    /\ place[Main] \in MainPlace
    /\ \A i \in Import : place[i] \in ImportPlace
    /\ was \in [Import \cup {Main} -> BOOLEAN]
    /\ result \in [Import -> Result]
    /\ xray \in BOOLEAN
    /\ fails \in 0..MaxFail

\* A database of an older version has passwords in clear and no record of the
\* seeder; a file of other origin may have no user at all.
Stored(data, pass) ==
    [data |-> data, pass |-> pass, seeded |-> pass = "hashed", whole |-> TRUE]
Uploads == {Stored("new", pass) : pass \in {"none", "plain", "hashed"}}
Partial ==
    [data |-> "new", pass |-> "none", seeded |-> FALSE, whole |-> FALSE]
Blank   == Stored("empty", "none")

Init ==
    /\ \E pass \in {"plain", "hashed"} :
          files = [f \in Path |->
                      IF f = "db" THEN Stored("old", pass) ELSE NoFile]
    /\ conn = "closed"
    /\ upload = [i \in Import |-> "closed"]
    /\ place = [w \in Import \cup {Main} |-> IF w = Main THEN "down" ELSE "idle"]
    /\ was = [w \in Import \cup {Main} |-> FALSE]
    /\ result = [i \in Import |-> "none"]
    /\ xray = FALSE
    /\ fails = 0

-----------------------------------------------------------------------------
(* Files.                                                                  *)

Exists(f) == files[f] # NoFile

Goto(w, to) == place' = [place EXCEPT ![w] = to]

\* One more step has failed.
Failure == fails < MaxFail /\ fails' = fails + 1

\* os.Rename: what was at the target is unlinked.
Moved(h, from, to) ==
    IF h = from THEN to ELSE IF h = to THEN "unlinked" ELSE h
Rename(from, to) ==
    /\ files' = [files EXCEPT ![to] = files[from], ![from] = NoFile]
    /\ conn' = Moved(conn, from, to)
    /\ upload' = [i \in Import |-> Moved(upload[i], from, to)]

\* os.Stat and os.Remove; removing nothing is no error.
Unlinked(h, f) == IF h = f THEN "unlinked" ELSE h
Remove(f) ==
    /\ files' = [files EXCEPT ![f] = NoFile]
    /\ conn' = Unlinked(conn, f)
    /\ upload' = [i \in Import |-> Unlinked(upload[i], f)]

DiskSame == UNCHANGED <<files, conn, upload>>

-----------------------------------------------------------------------------
(* InitDB, called by main and by imports.  Its statements are transactions *)
(* of their own.                                                           *)

\* SQLite does not write to a database file that was moved or unlinked.
Connected(w, at) == place[w] = at /\ conn = "db" /\ Exists("db")
Db == files["db"]
WritePass(pass) == files' = [files EXCEPT !["db"] = [Db EXCEPT !.pass = pass]]
RecordSeeded == files' = [files EXCEPT !["db"] = [Db EXCEPT !.seeded = TRUE]]

\* gorm.Open sets the global connection whatever it was, and the migration of
\* the models creates the file if there is none.
Open(w) ==
    /\ place[w] = "open"
    /\ files' = [files EXCEPT !["db"] = IF Exists("db") THEN @ ELSE Blank]
    /\ conn' = "db"
    /\ Goto(w, "user")
    /\ UNCHANGED <<upload, was, result, xray, fails>>

\* initUser creates an administrator, with a hashed password, if there is no
\* user; InitDB remembers that there was none.
InitUser(w) ==
    /\ Connected(w, "user")
    /\ was' = [was EXCEPT ![w] = Db.pass = "none"]
    /\ WritePass(IF Db.pass = "none" THEN "hashed" ELSE Db.pass)
    /\ Goto(w, "seed")
    /\ UNCHANGED <<conn, upload, result, xray, fails>>

\* InitDB returns: main goes on to serve, with xray, an import to start xray.
InitDone(w) ==
    /\ Goto(w, IF w = Main THEN "up" ELSE "start")
    /\ result' = [i \in Import |-> IF i = w THEN "ok" ELSE result[i]]
    /\ xray' = (w = Main \/ xray)

HashPasswords(w) ==
    /\ WritePass(IF Db.pass = "plain" THEN "hashed" ELSE "rehashed")
    /\ Goto(w, "record")
    /\ UNCHANGED <<result, xray>>

\* Variant: the history of seeders is not consulted.
RunSeedersAlways(w) ==
    /\ Connected(w, "seed")
    /\ IF was[w] THEN RecordSeeded /\ InitDone(w) ELSE HashPasswords(w)
    /\ UNCHANGED <<conn, upload, was, fails>>

\* runSeeders: nothing to do, or a new database that only needs the record, or
\* passwords to hash before it.
RunSeeders(w) ==
    /\ Connected(w, "seed")
    /\ \/ Db.seeded /\ InitDone(w) /\ UNCHANGED files
       \/ ~Db.seeded /\ was[w] /\ RecordSeeded /\ InitDone(w)
       \/ ~Db.seeded /\ ~was[w] /\ HashPasswords(w)
    /\ UNCHANGED <<conn, upload, was, fails>>

RecordSeeder(w) ==
    /\ Connected(w, "record")
    /\ RecordSeeded
    /\ InitDone(w)
    /\ UNCHANGED <<conn, upload, was, fails>>

\* A statement fails, as it must when another import has closed or moved the
\* database.  Main exits, an import restores; nobody closes the connection.
InitFails(w) ==
    /\ place[w] \in InitPlace
    /\ \/ Failure
       \/ place[w] # "open" /\ ~Connected(w, place[w]) /\ UNCHANGED fails
    /\ Goto(w, IF w = Main THEN "down" ELSE "restore")
    /\ conn' = IF w = Main THEN "closed"
               ELSE IF place[w] = "open" THEN "db" ELSE conn
    /\ UNCHANGED <<files, upload, was, result, xray>>

InitDB(w) ==
    Open(w) \/ InitUser(w) \/ RunSeeders(w) \/ RecordSeeder(w) \/ InitFails(w)

-----------------------------------------------------------------------------
(* The panel.                                                              *)

Up == place[Main] = "up"

Start ==
    /\ place[Main] = "down"
    /\ Goto(Main, "open")
    /\ UNCHANGED <<files, conn, upload, was, result, xray, fails>>

\* The panel ends, and with it everything it was doing.
Ends ==
    /\ conn' = "closed"
    /\ upload' = [i \in Import |-> "closed"]
    /\ place' = [w \in Import \cup {Main} |-> IF w = Main THEN "down" ELSE "idle"]
    /\ was' = [w \in Import \cup {Main} |-> FALSE]
    /\ result' = [i \in Import |-> "none"]
    /\ xray' = FALSE
    /\ UNCHANGED files

Shutdown ==
    /\ Up
    /\ \A i \in Import : place[i] = "idle"
    /\ Ends
    /\ UNCHANGED fails

Crash == place[Main] # "down" /\ Failure /\ Ends

-----------------------------------------------------------------------------
(* ImportDB.                                                               *)

Outcome(i, r) == result' = [result EXCEPT ![i] = r]

\* The upload has not the signature of a database, or the old temporary file
\* cannot be removed.
Refuse(i) ==
    /\ Up
    /\ place[i] = "idle"
    /\ Outcome(i, "failed")
    /\ Goto(i, "restart")
    /\ DiskSame
    /\ UNCHANGED <<was, xray, fails>>

\* The old temporary file is removed and a new one created.
Begin(i) ==
    /\ Up
    /\ place[i] = "idle"
    /\ files' = [files EXCEPT !["temp"] = Partial]
    /\ conn' = Unlinked(conn, "temp")
    /\ upload' = [[j \in Import |-> Unlinked(upload[j], "temp")]
                     EXCEPT ![i] = "temp"]
    /\ Goto(i, "copy")
    /\ UNCHANGED <<was, result, xray, fails>>

\* The upload breaks off.
CopyFails(i) ==
    /\ place[i] = "copy"
    /\ Outcome(i, "failed")
    /\ upload' = [upload EXCEPT ![i] = "closed"]
    /\ Goto(i, "untemp")
    /\ UNCHANGED <<files, conn, was, xray, fails>>

\* io.Copy writes to the handle, wherever its file is by now.
Copy(i) ==
    /\ place[i] = "copy"
    /\ \E file \in Uploads \cup {Partial} :
          files' = IF upload[i] \in Path THEN [files EXCEPT ![upload[i]] = file]
                   ELSE files
    /\ upload' = [upload EXCEPT ![i] = "closed"]
    /\ Goto(i, "validate")
    /\ UNCHANGED <<conn, was, result, xray, fails>>

\* ValidateSQLiteDB looks at what is at the path.
Validate(i) ==
    /\ place[i] = "validate"
    /\ IF Exists("temp") /\ files["temp"].whole
       THEN Goto(i, "stop") /\ UNCHANGED result
       ELSE Goto(i, "untemp") /\ Outcome(i, "failed")
    /\ DiskSame
    /\ UNCHANGED <<was, xray, fails>>

StopXray(i) ==
    /\ place[i] = "stop"
    /\ xray' = FALSE
    /\ Goto(i, "close")
    /\ DiskSame
    /\ UNCHANGED <<was, result, fails>>

CloseDB(i) ==
    /\ place[i] = "close"
    /\ conn' = "closed"
    /\ Goto(i, "drop")
    /\ UNCHANGED <<files, upload, was, result, xray, fails>>

DropFallback(i) ==
    /\ place[i] = "drop"
    /\ Remove("fallback")
    /\ Goto(i, "backup")
    /\ UNCHANGED <<was, result, xray, fails>>

\* Variant: the database is removed to make room for the new one.
BackupRemoves(i) ==
    /\ place[i] = "backup"
    /\ Exists("db")
    /\ Remove("db")
    /\ Goto(i, "swap")
    /\ UNCHANGED <<was, result, xray, fails>>

Backup(i) ==
    /\ place[i] = "backup"
    /\ Exists("db")
    /\ Rename("db", "fallback")
    /\ Goto(i, "swap")
    /\ UNCHANGED <<was, result, xray, fails>>

\* The fallback cannot be removed or made: the database stays closed.
BackupFails(i) ==
    /\ \/ place[i] \in {"drop", "backup"} /\ Failure
       \/ place[i] = "backup" /\ ~Exists("db") /\ UNCHANGED fails
    /\ Outcome(i, "failed")
    /\ Goto(i, "untemp")
    /\ DiskSame
    /\ UNCHANGED <<was, xray>>

Swap(i) ==
    /\ place[i] = "swap"
    /\ Exists("temp")
    /\ Rename("temp", "db")
    /\ Goto(i, "open")
    /\ UNCHANGED <<was, result, xray, fails>>

SwapFails(i) ==
    /\ place[i] = "swap"
    /\ Failure \/ (~Exists("temp") /\ UNCHANGED fails)
    /\ Goto(i, "restore")
    /\ DiskSame
    /\ UNCHANGED <<was, result, xray>>

\* Variants: the fallback is not renamed back, or the error is not returned.
RestoreForgotten(i) ==
    /\ place[i] = "restore"
    /\ Outcome(i, "failed")
    /\ Goto(i, "unfallback")
    /\ DiskSame
    /\ UNCHANGED <<was, xray, fails>>
RestoreSilently(i) ==
    /\ place[i] = "restore"
    /\ Exists("fallback")
    /\ Rename("fallback", "db")
    /\ Outcome(i, "ok")
    /\ Goto(i, "unfallback")
    /\ UNCHANGED <<was, xray, fails>>

\* The new database could not be moved or opened.
Restore(i) ==
    /\ place[i] = "restore"
    /\ Exists("fallback")
    /\ Rename("fallback", "db")
    /\ Outcome(i, "failed")
    /\ Goto(i, "unfallback")
    /\ UNCHANGED <<was, xray, fails>>

\* The message tells this error, "and restoring fallback", from the other.
RestoreFails(i) ==
    /\ place[i] = "restore"
    /\ Failure \/ (~Exists("fallback") /\ UNCHANGED fails)
    /\ Outcome(i, "lost")
    /\ Goto(i, "unfallback")
    /\ DiskSame
    /\ UNCHANGED <<was, xray>>

\* RestartXray(true): it generates a configuration from the database, then stops
\* what runs, then starts.  Without a connection it gets no further than that.
RestartFails ==
    \/ Failure /\ (xray' = FALSE \/ UNCHANGED xray)
    \/ conn = "closed" /\ UNCHANGED <<xray, fails>>

StartXray(i) ==
    /\ place[i] = "start"
    /\ conn # "closed"
    /\ xray' = TRUE
    /\ Goto(i, "unfallback")
    /\ DiskSame
    /\ UNCHANGED <<was, result, fails>>

StartFails(i) ==
    /\ place[i] = "start"
    /\ RestartFails
    /\ Outcome(i, "unstarted")
    /\ Goto(i, "unfallback")
    /\ DiskSame
    /\ UNCHANGED was

\* The deferred functions of ImportDB, in their order, on every return.
RemoveFallback(i) ==
    /\ place[i] = "unfallback"
    /\ Remove("fallback")
    /\ Goto(i, "untemp")
    /\ UNCHANGED <<was, result, xray, fails>>

RemoveTemp(i) ==
    /\ place[i] = "untemp"
    /\ Remove("temp")
    /\ Goto(i, "restart")
    /\ UNCHANGED <<was, result, xray, fails>>

\* importDB: the answer is ImportDB's, and the forced RestartXray that is
\* deferred comes after it; its error nobody sees.
Reply(i) ==
    /\ place[i] = "restart"
    /\ \/ conn # "closed" /\ xray' = TRUE /\ UNCHANGED fails
       \/ RestartFails
    /\ Outcome(i, "none")
    /\ Goto(i, "idle")
    /\ DiskSame
    /\ UNCHANGED was

ImportDB(i) ==
    \/ Refuse(i) \/ Begin(i) \/ CopyFails(i) \/ Copy(i)
    \/ Validate(i) \/ StopXray(i)
    \/ CloseDB(i) \/ DropFallback(i) \/ Backup(i) \/ BackupFails(i)
    \/ Swap(i) \/ SwapFails(i) \/ Restore(i) \/ RestoreFails(i)
    \/ StartXray(i) \/ StartFails(i)
    \/ RemoveFallback(i) \/ RemoveTemp(i) \/ Reply(i)

-----------------------------------------------------------------------------

Next ==
    \/ Start \/ Shutdown \/ Crash
    \/ \E w \in Import \cup {Main} : InitDB(w)
    \/ \E i \in Import : ImportDB(i)

Spec == Init /\ [][Next]_vars

-----------------------------------------------------------------------------
(* Properties.                                                             *)

Quiet == Up /\ \A i \in Import : place[i] = "idle"

\* After any one failure or crash, at any point of any import, some file still
\* holds a whole database that is not a blank one.
NothingLost ==
    fails <= 1 =>
        \E f \in Path :
            Exists(f) /\ files[f].whole /\ files[f].data # "empty"

\* What the atomicity of an import that is alone rests on, step by step: what
\* it uploads stays what it was until it is in place, the fallback exists as
\* long as it may be needed, it is needed only after a failure, and it takes a
\* second one not to get it back.
Uploading  == {"copy", "validate", "stop", "close", "drop", "backup", "swap"}
Deciding   == {"swap", "restore"} \cup InitPlace
Returning  == {"unfallback", "untemp", "restart"}
Holds(f, data) == Exists(f) /\ files[f].data = data
ImportInv ==
    \A i \in Import :
       /\ place[i] # "idle" => Up
       /\ place[i] = "copy" => upload[i] = "temp"
       /\ place[i] \in Uploading => Holds("temp", "new")
       /\ place[i] \in Deciding => Exists("fallback")
       /\ place[i] \in InitPlace => Holds("db", "new")
       /\ place[i] \in InitPlace \ {"open"} => conn = "db"
       /\ place[i] = "restore" => fails > 0
       /\ result[i] = "lost" => fails > 1
       /\ IF place[i] \in Returning THEN result[i] # "none"
          ELSE result[i] = IF place[i] = "start" THEN "ok" ELSE "none"

\* As long as nothing fails in between, the passwords of the database that the
\* panel serves were hashed exactly once, by whichever version and import.
HashedOnce == Quiet /\ fails = 0 => Exists("db") /\ Db.pass = "hashed"

\* An import that is reported as done leaves the panel with its connection to
\* the new file, and xray was running when the answer was given: it still is,
\* unless the restart that follows the answer fails.
SuccessServes ==
    [][\A i \in Import :
          (result[i] = "ok" /\ place'[i] = "idle" /\ Up') =>
             /\ xray /\ (xray' \/ fails' > fails)
             /\ conn' = "db" /\ Exists("db") /\ Db.data = "new"]_vars

\* Before its InitDB is over, an import counts as not done: the database is the
\* one that would be restored.
Undecided == \E i \in Import : place[i] \in Deciding
Current ==
    LET f == IF Undecided THEN "fallback" ELSE "db"
    IN  IF Exists(f) THEN files[f].data ELSE "empty"
Answer ==
    IF \A i \in Import : place[i] = "idle" THEN "idle"
    ELSE LET i == CHOOSE i \in Import : place[i] # "idle"
         IN  IF result[i] = "none" THEN "open" ELSE result[i]

Abstract == INSTANCE DatabaseSwap
            WITH New <- {"new"}, current <- Current, answer <- Answer

\* One import at a time, whatever fails, replaces the database at one instant or
\* not at all, and says which, or says that it could not restore it.
Atomic == Abstract!Spec
=============================================================================
