------------------------------ MODULE Launcher ------------------------------
(***************************************************************************)
(* The setup launcher (src/internal/launcher, src/cmd/setup-launcher):     *)
(* installation, backup, restore, rebuild and self-update of a CRM that    *)
(* runs in Docker.                                                         *)
(*                                                                         *)
(* A job is a request of the control centre (a goroutine of its HTTP       *)
(* server) or a command line call (a process of its own).  No lock keeps   *)
(* two jobs apart: they share the database, the directory, the staging     *)
(* directory and the executable.  A step is one docker command or one file *)
(* operation.  The data of the database is a number that every write of    *)
(* the application changes; a password is a number drawn afresh.  Up to    *)
(* MaxFaults calls fail (or the control centre is closed once).            *)
(***************************************************************************)
EXTENDS Naturals, Sequences, FiniteSets

CONSTANTS
    GuiJobs,     \* goroutines of the control centre
    CliJobs,     \* command line calls
    MaxSeconds,  \* the seconds the clock shows
    MaxWrites,   \* bound on writes of the application
    MaxFaults,   \* bound on failing calls
    MaxOps       \* bound on requests and commands

ASSUME LauncherBounds ==
    /\ MaxSeconds \in Nat \ {0} /\ MaxWrites \in Nat
    /\ MaxFaults \in Nat /\ MaxOps \in Nat
    /\ GuiJobs \cap CliJobs = {}

VARIABLES
    platform,  \* which way the executable is swapped
    vol,       \* the database volume: exists, its password, its data
    cont,      \* the containers: exist, and the password they were made with
    runs,      \* which of the database and the application runs
    env,       \* DB_PASSWORD of the .env file, NoPassword if there is no file
    files,     \* the version of each project file
    exe,       \* the launcher's executable and its .old copy
    staging,   \* the two staging directories: the archive entries in each
    base,      \* backups in the project directory: second -> data
    mirror,    \* backups in the persistent directory
    job,       \* the jobs
    clock,     \* the current second: the name a backup gets
    budget,    \* counters of writes, faults, requests and passwords
    hist       \* history variables of the properties

vars == <<platform, vol, cont, runs, env, files, exe, staging, base, mirror,
          job, clock, budget, hist>>

Jobs == GuiJobs \cup CliJobs
Names == 1..MaxSeconds
NoPassword == 0
DefaultPassword == 1           \* POSTGRES_PASSWORD of the embedded compose file
\* A password is drawn only while there is no .env, which a request or a
\* failure brings about: 3 + MaxOps + MaxFaults are enough.  The .env of an
\* archive has one of its own.
ShippedPassword == MaxOps + MaxFaults + 4
Passwords == 0..ShippedPassword

Empty == 0                     \* a schema without data
Partial == MaxWrites + 2       \* part of a dump, or part of an import
Data == 0..Partial
NoFile == MaxWrites + 3

\* The entries of a release archive, in the order of filepath.Walk.
Archive == <<".env", "Dockerfile.server", "bin/openlocalcrm", "docker-compose.yml">>
Entries == 1..Len(Archive)
ProjectFiles == {"Dockerfile.server", "docker-compose.yml"}

Versions == {"none", "old", "new"}
Embedded == "embedded"         \* the compose file the launcher carries in itself
NoFiles == [f \in ProjectFiles |-> "none"]
EmbeddedOnly == [NoFiles EXCEPT !["docker-compose.yml"] = Embedded]

Dirs == {"update", "setup"}
NoDir == [there |-> FALSE, has |-> {}]

IdleJob == [kind |-> "none", pc |-> "idle", name |-> 0, snap |-> NoFile,
            src |-> 0, want |-> NoFile, gone |-> FALSE, todo |-> {},
            ver |-> "none", again |-> FALSE]

\* A job of this kind that carries nothing but its place.
At(kind, pc) == [IdleJob EXCEPT !.kind = kind, !.pc = pc]

Kinds == {"none", "backup", "restore", "rebuild", "update", "setup"}
PCs == {"idle", "create", "dump", "stop", "drop", "import", "start", "compose",
        "download", "extract", "walk", "apply", "swap", "copy", "ensure", "config"}

-----------------------------------------------------------------------------
(* Failures.                                                                *)

\* A call that may fail; only a failure counts against the bound.
Call(ok) == /\ ok \/ budget.faults < MaxFaults
            /\ budget' = [budget EXCEPT !.faults = IF ok THEN @ ELSE @ + 1]

\* docker compose reads its file first.  It fails without one, and without a
\* .env: the file of a release demands a password, the embedded one has a
\* default.
Composes ==
    \/ files["docker-compose.yml"] = Embedded
    \/ files["docker-compose.yml"] # "none" /\ env # NoPassword

ComposeCall(ok) == IF Composes THEN Call(ok) ELSE ~ok /\ UNCHANGED budget

\* docker compose exec db: fails by itself when the database does not run.
Exec(ok) == IF Composes /\ runs.db THEN Call(ok) ELSE ~ok /\ UNCHANGED budget

\* docker compose up: without a Dockerfile nothing is built, and whether the
\* images of an earlier start are still there is not followed.
UpCall(ok, builds) ==
    IF Composes /\ files["Dockerfile.server"] # "none" THEN Call(ok)
    ELSE /\ ok => Composes /\ ~builds
         /\ UNCHANGED budget

\* A request or a command.
Asked == /\ budget.ops < MaxOps
         /\ budget' = [budget EXCEPT !.ops = @ + 1]

Goto(j, pc) == job' = [job EXCEPT ![j].pc = pc]
Ends(j) == job' = [job EXCEPT ![j] = IdleJob]

\* The jobs that copy files out of a staging directory.
Copying(j) == job[j].pc \in {"extract", "walk", "apply", "swap", "copy"}

\* Frames: what an engine job (a job on the database) and a file job leave.
EngineFrame == UNCHANGED <<platform, env, files, exe, staging, clock>>
FileFrame == UNCHANGED <<vol, cont, runs, base, mirror, clock>>
DirFrame == UNCHANGED <<platform, vol, cont, runs, files, exe, staging, clock, job>>

-----------------------------------------------------------------------------
(* The .env file.                                                           *)

\* Mutant: the password is drawn afresh on every write.
GenerateEnvFresh(existing) == budget.pw + 1

\* GenerateEnvContentWithExisting: the database password of the existing
\* configuration is kept, otherwise a new one is drawn.
GenerateEnv(existing) ==
    IF existing # NoPassword THEN existing ELSE budget.pw + 1

\* The password of a new configuration is not the one of the volume.
Misses(existing) ==
    /\ vol.there
    /\ \/ existing = NoPassword
       \/ existing = DefaultPassword /\ vol.pw # existing

\* WriteConfigAndDirectoriesWithEnv.  History: a configuration was written
\* from nothing, or from containers that were started without one, although
\* a volume made with another password exists.
WriteConfig(existing, counters) ==
    /\ env' = GenerateEnv(existing)
    /\ budget' = [counters EXCEPT !.pw = IF env' > @ THEN env' ELSE @]
    /\ hist' = [hist EXCEPT !.redrawn = @ \/ Misses(existing)]

\* ReadExistingEnvMap: an unreadable or missing file is an empty map.
ReadExistingEnv == env

OneMore(field) == [budget EXCEPT ![field] = @ + 1]

\* ExtractEnvFromInspect: POSTGRES_PASSWORD of the database container.
ContainerEnv(c) == c.pw

\* RecoverEnvFromDocker: from any container that is there, running or not.
Recovered == IF cont.there THEN ContainerEnv(cont) ELSE NoPassword

\* DetectExistingInstallation, behind every status request: without a .env
\* the configuration is recovered from the containers; when their inspection
\* fails but they are listed, a default configuration is written.
DetectExisting(recovered) ==
    /\ env = NoPassword
    /\ cont.there
    /\ recovered \/ budget.faults < MaxFaults
    /\ WriteConfig(IF recovered THEN Recovered ELSE NoPassword,
                   IF recovered THEN budget ELSE OneMore("faults"))
    /\ UNCHANGED <<base, mirror>>
    /\ DirFrame

\* ImportSettingsToEnv: the secrets the import does not name are kept.
ImportSettings ==
    /\ budget.ops < MaxOps
    /\ WriteConfig(ReadExistingEnv, OneMore("ops"))
    /\ UNCHANGED <<base, mirror>>
    /\ DirFrame

-----------------------------------------------------------------------------
(* Containers.                                                              *)

\* docker compose up: containers and a missing volume are made with the
\* password of the .env, or with the default one.
Up(services) ==
    LET pw == IF env # NoPassword THEN env ELSE DefaultPassword IN
    /\ cont' = [there |-> TRUE, pw |-> pw]
    /\ vol' = IF vol.there THEN vol ELSE [there |-> TRUE, pw |-> pw, data |-> Empty]
    /\ runs' = [db |-> TRUE, app |-> runs.app \/ services]

NotUp == UNCHANGED <<cont, vol, runs>>

ControlFrame ==
    UNCHANGED <<platform, files, exe, staging, base, mirror, clock, job, hist>>

\* handleControl "start", and the command: engine.Up.  A command of the
\* control centre that fails changes nothing.
Start == /\ Asked
         /\ Composes
         /\ Up(TRUE)
         /\ UNCHANGED env
         /\ ControlFrame

Stop == /\ Asked
        /\ Composes
        /\ runs' = [db |-> FALSE, app |-> FALSE]
        /\ UNCHANGED <<cont, vol, env>>
        /\ ControlFrame

Restart == /\ Asked
           /\ Composes
           /\ cont.there
           /\ runs' = [db |-> vol.there, app |-> TRUE]
           /\ UNCHANGED <<cont, vol, env>>
           /\ ControlFrame

Down == /\ Asked
        /\ Composes
        /\ runs' = [db |-> FALSE, app |-> FALSE]
        /\ cont' = [there |-> FALSE, pw |-> NoPassword]
        /\ UNCHANGED <<vol, env>>
        /\ ControlFrame

\* ResetAll: containers, volumes and .env; every docker error is ignored.
ResetAll(ok) ==
    /\ budget.ops < MaxOps
    /\ ok \/ budget.faults < MaxFaults
    /\ budget' = [budget EXCEPT !.ops = @ + 1, !.faults = IF ok THEN @ ELSE @ + 1]
    /\ IF ok
       THEN /\ runs' = [db |-> FALSE, app |-> FALSE]
            /\ cont' = [there |-> FALSE, pw |-> NoPassword]
            /\ vol' = [there |-> FALSE, pw |-> NoPassword, data |-> Empty]
       ELSE NotUp
    /\ env' = NoPassword
    /\ ControlFrame

\* The application stores something: it must reach the database.
AppWrite ==
    /\ runs.app /\ runs.db /\ cont.pw = vol.pw
    /\ budget.writes < MaxWrites
    /\ budget' = OneMore("writes")
    /\ vol' = [vol EXCEPT !.data = budget.writes + 2]
    /\ UNCHANGED <<cont, runs, env>>
    /\ ControlFrame

-----------------------------------------------------------------------------
(* Backups.                                                                 *)

\* What follows a backup, wherever it was taken: it is the whole job, or the
\* safety copy before a restore, a rebuild or an update.  A failed safety
\* copy stops none of them.
AfterBackup(j, j1) ==
    job' = [j1 EXCEPT ![j] =
        CASE @.kind = "backup" -> IdleJob
          [] @.kind = "restore" -> [@ EXCEPT !.pc = "stop"]
          [] @.kind \in {"rebuild", "update"} ->
               At(@.kind, IF @.kind = "rebuild" \/ @.again THEN "compose" ELSE "download")]

\* CreateBackup, first part: the file named after the second is created, or
\* truncated, and its header written.
CreateFile(j, ok) ==
    /\ job[j].pc = "create"
    /\ Call(ok)
    /\ IF ok
       THEN /\ base' = [base EXCEPT ![clock] = Partial]
            /\ job' = [job EXCEPT ![j].pc = "dump", ![j].name = clock]
            /\ hist' = [hist EXCEPT !.clobbered =
                          IF base[clock] # NoFile \/ mirror[clock] # NoFile
                          THEN @ \cup {clock} ELSE @]
       ELSE /\ AfterBackup(j, job)
            /\ UNCHANGED <<base, hist>>
    /\ UNCHANGED <<vol, cont, runs, mirror>>
    /\ EngineFrame

\* Mutant: the copy in the persistent directory is left out.
MirrorNone(j) == mirror

\* The copy in the persistent directory.
Mirror(j) == [mirror EXCEPT ![job[j].name] = base'[job[j].name]]

\* CreateBackup, second part: pg_dump, then the copy.  Two dumps into one
\* file of the same second may leave a mixture.
DumpSucceeds(j, data, mirrored) ==
    LET n == job[j].name IN
    /\ job[j].pc = "dump"
    /\ Composes /\ runs.db
    /\ Call(mirrored)
    /\ data = vol.data \/ \E k \in Jobs \ {j} : job[k].pc = "dump" /\ job[k].name = n
    /\ base' = [base EXCEPT ![n] = data]
    /\ mirror' = IF mirrored THEN Mirror(j) ELSE mirror
    /\ AfterBackup(j, [job EXCEPT ![j].snap = data])
    /\ hist' = [hist EXCEPT !.reported = @ \cup {<<n, data>>},
                            !.unmirrored = IF mirrored THEN @ ELSE @ \cup {n}]
    /\ UNCHANGED <<vol, cont, runs>>
    /\ EngineFrame

\* Mutant: a failed dump is tried again without an end.
DumpFailsAgain(j) ==
    /\ job[j].pc = "dump"
    /\ Exec(FALSE)
    /\ base' = [base EXCEPT ![job[j].name] = NoFile]
    /\ Goto(j, "create")
    /\ UNCHANGED <<vol, cont, runs, mirror, hist>>
    /\ EngineFrame

\* pg_dump fails: the file is removed, also for a job that has it open.
DumpFails(j) ==
    LET n == job[j].name IN
    /\ job[j].pc = "dump"
    /\ Exec(FALSE)
    /\ base' = [base EXCEPT ![n] = NoFile]
    /\ AfterBackup(j, [k \in Jobs |-> [job[k] EXCEPT !.gone = @ \/ job[k].src = n]])
    /\ UNCHANGED <<vol, cont, runs, mirror, hist>>
    /\ EngineFrame

\* ListBackups: files missing in the directory are copied back.
ListBackups ==
    /\ Asked
    /\ base' = [n \in Names |-> IF base[n] = NoFile THEN mirror[n] ELSE base[n]]
    /\ UNCHANGED <<mirror, env, hist>>
    /\ DirFrame

\* handleBackupUpload: the file is created, or truncated, under the name it
\* came with; what a broken upload wrote stays.
handleBackupUpload(n, data) ==
    /\ budget.ops < MaxOps
    /\ data = 1 \/ (data = Partial /\ budget.faults < MaxFaults)
    /\ budget' = [budget EXCEPT !.ops = @ + 1, !.faults = IF data = 1 THEN @ ELSE @ + 1]
    /\ base' = [base EXCEPT ![n] = data]
    /\ hist' = [hist EXCEPT !.clobbered = IF base[n] # NoFile THEN @ \cup {n} ELSE @]
    /\ UNCHANGED <<mirror, env>>
    /\ DirFrame

-----------------------------------------------------------------------------
(* Restore.                                                                 *)

\* A restore takes the data out of the database.  History: it is noted with
\* whether the safety copy of this restore holds it.
TakesAway(j) ==
    hist' = [hist EXCEPT !.lost =
        IF vol.data \in {Empty, Partial} \/ vol.data # job[j].snap THEN @
        ELSE @ \cup {<<job[j].name, vol.data>>}]

\* The file in the project directory or else the persistent copy of it.
Locate(n) == IF base[n] # NoFile THEN base[n] ELSE mirror[n]

\* RestoreBackup until the file is open.
OpenBackup(j, n) ==
    /\ Asked
    /\ job[j].pc = "idle"
    /\ base' = [base EXCEPT ![n] = Locate(n)]
    /\ job' = IF Locate(n) = NoFile THEN job
              ELSE [job EXCEPT ![j] = [IdleJob EXCEPT !.kind = "restore", !.pc = "create",
                                                      !.src = n, !.want = Locate(n)]]
    /\ hist' = [hist EXCEPT !.refused =
                  @ \/ (Locate(n) = NoFile /\ mirror[n] # NoFile)]
    /\ UNCHANGED <<vol, cont, runs, mirror>>
    /\ EngineFrame

\* Step 2: the server and the worker are stopped; an error is ignored.
StopApp(j, ok) ==
    /\ job[j].pc = "stop"
    /\ ComposeCall(ok)
    /\ runs' = IF ok THEN [runs EXCEPT !.app = FALSE] ELSE runs
    /\ Goto(j, "drop")
    /\ UNCHANGED <<vol, cont, base, mirror, hist>>
    /\ EngineFrame

\* Step 3: DROP SCHEMA; an error is ignored.
DropSchema(j, ok) ==
    /\ job[j].pc = "drop"
    /\ Exec(ok)
    /\ vol' = IF ok THEN [vol EXCEPT !.data = Empty] ELSE vol
    /\ IF ok THEN TakesAway(j) ELSE UNCHANGED hist
    /\ Goto(j, "import")
    /\ UNCHANGED <<cont, runs, base, mirror>>
    /\ EngineFrame

\* Mutant: the safety copy is imported.
SnapshotBytes(j) == IF job[j].name = 0 THEN Empty ELSE base[job[j].name]

\* What the open file holds when psql reads it.
Bytes(j) == IF job[j].gone THEN Partial ELSE base[job[j].src]

\* Step 4: psql reads the dump.  It goes on after a statement that fails and
\* exits with 0 all the same; when it fails itself the job ends with an error
\* and the application stays stopped.
Import(j, result) ==
    /\ job[j].pc = "import"
    /\ Exec(result = "ok")
    /\ vol' = CASE result = "ok" -> [vol EXCEPT !.data = Bytes(j)]
                [] result = "statements" -> [vol EXCEPT !.data = Partial]
                [] result = "failed" -> vol
    /\ result = "statements" => Composes /\ runs.db
    /\ job' = [job EXCEPT ![j] = IF result = "failed" THEN IdleJob
                                 ELSE At("restore", "start")]
    /\ IF result = "failed" THEN UNCHANGED hist ELSE TakesAway(j)
    /\ UNCHANGED <<cont, runs, base, mirror>>
    /\ EngineFrame

\* Step 5: the server and the worker are started again; an error is ignored.
StartApp(j, ok) ==
    /\ job[j].pc = "start"
    /\ UpCall(ok, FALSE)
    /\ IF ok THEN Up(TRUE) ELSE NotUp
    /\ Ends(j)
    /\ UNCHANGED <<base, mirror, hist>>
    /\ EngineFrame

-----------------------------------------------------------------------------
(* Project files: download, staging and the copy into place.                *)

Dir(j) == IF job[j].kind = "update" THEN "update" ELSE "setup"

\* The end of a file job that succeeded or failed: the deferred removal of
\* the staging directory, then what follows.
RemoveStaging(j) == staging' = [staging EXCEPT ![Dir(j)] = NoDir]

\* A failed update ends; a failed setup goes on with a warning.
AfterFiles(j, error) ==
    CASE Dir(j) = "setup" /\ j \in CliJobs -> job' = [job EXCEPT ![j] = At("setup", "config")]
      [] Dir(j) = "setup" /\ j \in GuiJobs -> job' = [job EXCEPT ![j] = At("setup", "compose")]
      [] Dir(j) = "update" /\ error -> Ends(j)
      [] Dir(j) = "update" /\ ~error -> job' = [job EXCEPT ![j] = At("update", "swap")]

\* History: two jobs are about to copy project files at the same time.
NoteOverlap(j) ==
    hist' = [hist EXCEPT !.torn = @ \/ \E k \in Jobs \ {j} : Copying(k)]

\* The archive a job gets: an update takes the main branch, a setup the tag of
\* the chosen version or, when no tag answers, the main branch.
ArchiveVersion(j, result) ==
    IF Dir(j) = "setup" /\ result = "ok" THEN "old" ELSE "new"

\* ExecuteUpdate up to the empty staging directory, and the same part of
\* EnsureProjectFilesForVersion.
Download(j, result) ==
    /\ job[j].pc = "download"
    /\ Call(result = "ok")
    /\ result = "main" => Dir(j) = "setup"
    /\ IF result = "failed"
       THEN /\ AfterFiles(j, TRUE)
            /\ UNCHANGED <<staging, hist>>
       ELSE /\ staging' = [staging EXCEPT ![Dir(j)] = [there |-> TRUE, has |-> {}]]
            /\ job' = [job EXCEPT ![j].pc = "extract",
                          ![j].ver = ArchiveVersion(j, result)]
            /\ NoteOverlap(j)
    /\ UNCHANGED <<platform, env, files, exe>>
    /\ FileFrame

\* The first entry that fails ends the extraction with an error.
Extracted(ok) == ok

\* ExtractZipSafely: the entries in turn; a staging directory that another job
\* removed is made again.
Extract(j, ok) ==
    /\ job[j].pc = "extract"
    /\ Call(ok)
    /\ IF Extracted(ok)
       THEN /\ staging' = [staging EXCEPT ![Dir(j)] =
                             [there |-> TRUE, has |-> IF ok THEN Entries ELSE 1..3]]
            /\ Goto(j, "walk")
       ELSE /\ RemoveStaging(j)
            /\ AfterFiles(j, TRUE)
    /\ UNCHANGED <<platform, env, files, exe, hist>>
    /\ FileFrame

\* IsProtectedPath, for the entries of the archive.
IsProtected(f) == f = ".env"

\* ApplyStagedFiles, its start: the directory is listed.  bin/ is left to the
\* swap of the executable.
Walk(j) ==
    LET dir == staging[Dir(j)]
        listed == {i \in dir.has : /\ ~IsProtected(Archive[i])
                                   /\ Archive[i] # "bin/openlocalcrm"}
    IN
    /\ job[j].pc = "walk"
    /\ IF dir.there
       THEN /\ job' = [job EXCEPT ![j].pc = "apply", ![j].todo = listed]
            /\ UNCHANGED staging
       ELSE /\ AfterFiles(j, TRUE)
            /\ RemoveStaging(j)
    /\ UNCHANGED <<platform, env, files, exe, budget, hist>>
    /\ FileFrame

\* copyFile: written beside the target and renamed, so a file is never half new.
CopyFile(f, ver) == [files EXCEPT ![f] = ver]

\* Entry i of the archive is copied out of the staging directory.
CopyEntry(j, i) ==
    /\ files' = IF Archive[i] = ".env" THEN files ELSE CopyFile(Archive[i], job[j].ver)
    /\ env' = IF Archive[i] = ".env" THEN ShippedPassword ELSE env
    /\ job' = [job EXCEPT ![j].todo = @ \ {i}]
    /\ UNCHANGED <<staging, hist>>

\* One file of the walk, the first that is left.  A file that is gone from the
\* staging directory or cannot be copied ends the job.
ApplyFile(j, ok) ==
    /\ job[j].pc = "apply"
    /\ \E i \in job[j].todo :
         /\ \A k \in job[j].todo : i <= k
         /\ IF i \in staging[Dir(j)].has THEN Call(ok) ELSE ~ok /\ UNCHANGED budget
         /\ IF ok
            THEN CopyEntry(j, i)
            ELSE /\ AfterFiles(j, TRUE)
                 /\ RemoveStaging(j)
                 /\ hist' = [hist EXCEPT !.torn = TRUE]
                 /\ UNCHANGED <<files, env>>
    /\ UNCHANGED <<platform, exe>>
    /\ FileFrame

\* The last file is in place; a setup is done with its staging directory.
Applied(j) ==
    /\ job[j].pc = "apply"
    /\ job[j].todo = {}
    /\ AfterFiles(j, FALSE)
    /\ IF Dir(j) = "setup" THEN RemoveStaging(j) ELSE UNCHANGED staging
    /\ UNCHANGED <<platform, env, files, exe, budget, hist>>
    /\ FileFrame

-----------------------------------------------------------------------------
(* The executable.                                                          *)

\* EnsureComposeAndCaddyFiles: the embedded compose file is put where there
\* is none.  That may fail, with a warning.
EnsureCompose ==
    files' \in {files, [files EXCEPT !["docker-compose.yml"] =
                          IF @ = "none" THEN Embedded ELSE @]}

\* A control centre that starts from executable x looks after its compose
\* file; without an executable none starts.
EnsureOnStart(x) == IF x.cur # "none" THEN EnsureCompose ELSE UNCHANGED files

\* CleanupStaleOldExecutables of a control centre that starts.
Cleanup(x) == IF x.cur # "none" THEN [x EXCEPT !.old = "none"] ELSE x

\* The control centre ends and another one starts: its goroutines are gone.
NewProcess(jobs) == [k \in Jobs |-> IF k \in GuiJobs THEN IdleJob ELSE jobs[k]]

\* History: a swap was under way when another launcher swapped or started, and
\* jobs at work with files ended with their process.
Note(swapping, ended) ==
    hist' = [hist EXCEPT
        !.swaps = @ \/ (swapping /\ \E k \in Jobs : job[k].pc = "copy"),
        !.torn = @ \/ \E k \in ended : Copying(k),
        !.killed = @ \/ \E k \in ended : job[k].kind \in {"update", "setup"}]

\* The jobs that end when the control centre restarts itself after job j.
EndedBy(j) == IF j \in GuiJobs THEN GuiJobs \ {j} ELSE {}

\* The end of ExecuteUpdate with the executable x in place: the staging
\* directory is removed, and the control centre restarts itself.
FinishUpdate(j, x) ==
    /\ RemoveStaging(j)
    /\ IF j \in GuiJobs
       THEN job' = NewProcess(job) /\ exe' = Cleanup(x) /\ EnsureOnStart(x)
       ELSE Ends(j) /\ exe' = x /\ UNCHANGED files

\* After the swap, whatever came of it: with containers there is a rebuild,
\* which starts with another backup.
AfterSwap(j, x) ==
    IF cont.there
    THEN /\ job' = [job EXCEPT ![j] = [At("update", "create") EXCEPT !.again = TRUE]]
         /\ exe' = x
         /\ UNCHANGED <<staging, files>>
    ELSE FinishUpdate(j, x)

EndedBySwap(j) == IF cont.there THEN {} ELSE EndedBy(j)

\* The staged binary is the third entry of the archive.
Staged == 3 \in staging["update"].has

\* HotSwapExecutable: without a staged binary, or with a wrong checksum,
\* nothing happens.  Elsewhere than on Windows one rename puts it in place.
\* The platform is settled here, where it matters for the first time.
HotSwap(j, ok) ==
    /\ job[j].pc = "swap"
    /\ IF Staged THEN Call(ok) ELSE ~ok /\ UNCHANGED budget
    /\ ok => platform # "windows" /\ platform' = "unix"
    /\ ~ok => UNCHANGED platform
    /\ AfterSwap(j, IF ok THEN [exe EXCEPT !.cur = "new"] ELSE exe)
    /\ Note(TRUE, EndedBySwap(j))
    /\ UNCHANGED env
    /\ FileFrame

\* On Windows an older .old copy is removed and the running executable renamed
\* to .old; the rename fails when another swap has it away.
RenameExecutable(j, ok) ==
    /\ job[j].pc = "swap"
    /\ Staged
    /\ platform # "unix" /\ platform' = "windows"
    /\ IF exe.cur # "none" THEN Call(ok) ELSE ~ok /\ UNCHANGED budget
    /\ IF ok
       THEN /\ exe' = [cur |-> "none", old |-> exe.cur]
            /\ Goto(j, "copy")
            /\ UNCHANGED <<staging, files>>
       ELSE AfterSwap(j, [exe EXCEPT !.old = "none"])
    /\ Note(TRUE, IF ok THEN {} ELSE EndedBySwap(j))
    /\ UNCHANGED env
    /\ FileFrame

\* Mutant: a failed copy is not rolled back.
NoRollback == exe

\* The rename back; its error is ignored.
Rollback == IF exe.old # "none" THEN [cur |-> exe.old, old |-> "none"] ELSE exe

\* The new executable is copied to the free name; a failure is rolled back.
CopyExecutable(j, ok) ==
    /\ job[j].pc = "copy"
    /\ IF Staged THEN Call(ok) ELSE ~ok /\ UNCHANGED budget
    /\ AfterSwap(j, IF ok THEN [exe EXCEPT !.cur = "new"] ELSE Rollback)
    /\ Note(FALSE, EndedBySwap(j))
    /\ UNCHANGED <<platform, env>>
    /\ FileFrame

-----------------------------------------------------------------------------
(* The end of a rebuild, an update and a setup.                             *)

\* docker compose up (--build) of a rebuild, an update or a setup; the update
\* ignores its error.
Compose(j, ok) ==
    /\ job[j].pc = "compose"
    /\ UpCall(ok, job[j].kind # "setup")
    /\ IF ok THEN Up(TRUE) ELSE NotUp
    /\ IF job[j].kind = "update"
       THEN FinishUpdate(j, exe)
       ELSE Ends(j) /\ UNCHANGED <<staging, exe, files>>
    /\ Note(job[j].kind = "update" /\ j \in GuiJobs,
            IF job[j].kind = "update" THEN EndedBy(j) ELSE {})
    /\ UNCHANGED <<platform, env, base, mirror, clock>>

-----------------------------------------------------------------------------
(* Requests of the control centre and commands.                             *)

Begin(j, kind, pc) ==
    /\ job[j].pc = "idle"
    /\ job' = [job EXCEPT ![j] = At(kind, pc)]

ConfigFrame ==
    UNCHANGED <<platform, vol, cont, runs, exe, staging, base, mirror, clock>>

RequestFrame == UNCHANGED files /\ ConfigFrame

Request(j, kind) == Asked /\ Begin(j, kind, "create")
                    /\ UNCHANGED <<env, hist>> /\ RequestFrame

handleBackup(j) == j \in GuiJobs /\ Request(j, "backup")
commandBackup(j) == j \in CliJobs /\ Request(j, "backup")

handleBackupRestore(j, n) == j \in GuiJobs /\ OpenBackup(j, n)
commandRestore(j, n) == j \in CliJobs /\ OpenBackup(j, n)

handleUpdateExecute(j) == j \in GuiJobs /\ Request(j, "update")
commandUpdate(j) == j \in CliJobs /\ Request(j, "update")

\* engine.Update, asked for by "update" and by the rebuild after an import.
handleSettingsRebuild(j) == j \in GuiJobs /\ Request(j, "rebuild")

handleStatus == \E recovered \in BOOLEAN : DetectExisting(recovered)

handleSettingsImport == ImportSettings

handleBackupsList == ListBackups

handleControl ==
    \/ \E ok \in BOOLEAN : ResetAll(ok)
    \/ Start \/ Stop \/ Restart \/ Down

\* handleSetup writes the configuration before it answers.
handleSetup(j) ==
    /\ j \in GuiJobs
    /\ budget.ops < MaxOps
    /\ Begin(j, "setup", "ensure")
    /\ WriteConfig(ReadExistingEnv, OneMore("ops"))
    /\ RequestFrame

\* The install command writes it after the project files.
commandInstall(j) ==
    /\ j \in CliJobs
    /\ Asked
    /\ Begin(j, "setup", "ensure")
    /\ UNCHANGED <<env, hist>>
    /\ RequestFrame

\* EnsureProjectFilesForVersion does nothing when a Dockerfile is there.
EnsureProjectFiles(j) ==
    /\ job[j].pc = "ensure"
    /\ IF files["Dockerfile.server"] # "none" THEN AfterFiles(j, FALSE)
                                              ELSE Goto(j, "download")
    /\ UNCHANGED <<env, budget, hist>>
    /\ RequestFrame

\* The install command goes on, with or without the files of a release.
InstallConfig(j) ==
    /\ job[j].pc = "config"
    /\ EnsureCompose
    /\ WriteConfig(ReadExistingEnv, budget)
    /\ Goto(j, "compose")
    /\ ConfigFrame

-----------------------------------------------------------------------------
(* The environment.                                                         *)

Tick == /\ clock < MaxSeconds
        /\ clock' = clock + 1
        /\ UNCHANGED <<platform, vol, cont, runs, env, files, exe, staging, base,
                       mirror, job, budget, hist>>

\* The control centre is closed, or dies, and is started again; without an
\* executable it cannot be.
Quit == /\ \E k \in GuiJobs : job[k].pc # "idle"
        /\ Call(FALSE)
        /\ job' = NewProcess(job)
        /\ exe' = Cleanup(exe)
        /\ EnsureOnStart(exe)
        /\ Note(TRUE, GuiJobs)
        /\ UNCHANGED <<platform, vol, cont, runs, env, staging, base, mirror, clock>>

\* Another control centre is opened, or the idle one closed and opened again.
Open == /\ exe.cur # "none"
        /\ exe' = Cleanup(exe)
        /\ EnsureCompose
        /\ Note(TRUE, {})
        /\ UNCHANGED <<platform, vol, cont, runs, env, staging, base, mirror, job,
                       clock, budget>>

\* The project directory is replaced by an empty one.
DirectoryLost ==
    /\ \A k \in Jobs : job[k].pc = "idle"
    /\ Call(FALSE)
    /\ env' = NoPassword
    /\ files' = NoFiles
    /\ staging' = [d \in Dirs |-> NoDir]
    /\ base' = [n \in Names |-> NoFile]
    /\ UNCHANGED <<platform, vol, cont, runs, exe, mirror, job, clock, hist>>

-----------------------------------------------------------------------------

\* A fresh machine, before or after the first look of a control centre, or an
\* installation that runs and has data.
Init ==
    /\ platform = "unsettled"
    /\ \E installed, opened \in BOOLEAN :
         /\ vol = IF installed THEN [there |-> TRUE, pw |-> 2, data |-> 1]
                  ELSE [there |-> FALSE, pw |-> NoPassword, data |-> Empty]
         /\ cont = [there |-> installed, pw |-> IF installed THEN 2 ELSE NoPassword]
         /\ runs = [db |-> installed, app |-> installed]
         /\ env = IF installed THEN 2 ELSE NoPassword
         /\ files = IF installed THEN [f \in ProjectFiles |-> "old"]
                    ELSE IF opened THEN EmbeddedOnly ELSE NoFiles
    /\ exe = [cur |-> "old", old |-> "none"]
    /\ staging = [d \in Dirs |-> NoDir]
    /\ base = [n \in Names |-> NoFile]
    /\ mirror = [n \in Names |-> NoFile]
    /\ job = [j \in Jobs |-> IdleJob]
    /\ clock = 1
    /\ budget = [writes |-> 0, faults |-> 0, ops |-> 0, pw |-> 2]
    /\ hist = [redrawn |-> FALSE, clobbered |-> {}, unmirrored |-> {},
               reported |-> {}, lost |-> {}, refused |-> FALSE, torn |-> FALSE,
               swaps |-> FALSE, killed |-> FALSE]

JobStep(j) ==
    \/ \E ok \in BOOLEAN :
         \/ CreateFile(j, ok) \/ StopApp(j, ok) \/ DropSchema(j, ok)
         \/ StartApp(j, ok) \/ Extract(j, ok) \/ ApplyFile(j, ok)
         \/ HotSwap(j, ok) \/ RenameExecutable(j, ok) \/ CopyExecutable(j, ok) \/ Compose(j, ok)
    \/ \E data \in {vol.data, Partial}, mirrored \in BOOLEAN : DumpSucceeds(j, data, mirrored)
    \/ DumpFails(j)
    \/ \E r \in {"ok", "statements", "failed"} : Import(j, r)
    \/ \E r \in {"ok", "main", "failed"} : Download(j, r)
    \/ Walk(j) \/ Applied(j) \/ EnsureProjectFiles(j) \/ InstallConfig(j)

Next ==
    \/ \E j \in Jobs : JobStep(j)
    \/ \E j \in Jobs :
         \/ handleBackup(j) \/ handleUpdateExecute(j) \/ handleSettingsRebuild(j)
         \/ commandBackup(j) \/ commandUpdate(j)
         \/ handleSetup(j) \/ commandInstall(j)
    \/ \E j \in Jobs, n \in Names : handleBackupRestore(j, n) \/ commandRestore(j, n)
    \/ handleControl \/ handleStatus \/ handleSettingsImport \/ handleBackupsList
    \/ \E n \in Names, data \in {1, Partial} : handleBackupUpload(n, data)
    \/ AppWrite \/ Tick \/ Quit \/ Open \/ DirectoryLost

Spec == Init /\ [][Next]_vars /\ \A j \in Jobs : WF_vars(JobStep(j))

-----------------------------------------------------------------------------
(* Properties.                                                              *)

InstallationOK ==
    /\ platform \in {"unsettled", "unix", "windows"}
    /\ vol \in [there : BOOLEAN, pw : Passwords, data : Data]
    /\ cont \in [there : BOOLEAN, pw : Passwords]
    /\ runs \in [db : BOOLEAN, app : BOOLEAN]
    /\ runs.db => vol.there
    /\ env \in Passwords
    /\ files \in [ProjectFiles -> Versions \cup {Embedded}]
    /\ exe \in [cur : Versions, old : Versions]
    /\ staging \in [Dirs -> [there : BOOLEAN, has : SUBSET Entries]]

BackupFilesOK ==
    /\ base \in [Names -> Data \cup {NoFile}]
    /\ mirror \in [Names -> Data \cup {NoFile}]
    /\ clock \in Names

JobsOK ==
    \A j \in Jobs : /\ job[j].kind \in Kinds /\ job[j].pc \in PCs
                    /\ job[j].pc = "idle" <=> job[j] = IdleJob

TypeOK == InstallationOK /\ BackupFilesOK /\ JobsOK

\* The password in .env opens the database: no setup, import of settings,
\* recovery or update separates the two, unless a configuration was written
\* from nothing, or from containers that were started without one, while a
\* volume with another password was there (config.go, settings.go).
PasswordOpensVolume ==
    (env # NoPassword /\ vol.there) => (env = vol.pw \/ hist.redrawn)

\* A backup that was reported is still there with its data, in one of the two
\* directories, whatever happened to the project directory since - unless the
\* copy failed or another file took the name in the same second (CreateBackup).
ReportedBackupIsKept ==
    \A r \in hist.reported :
        \/ r[1] \in hist.clobbered \cup hist.unmirrored
        \/ mirror[r[1]] = r[2]

\* Data that a restore takes out of the database after a safety copy of it is
\* in one of the two directories for ever after, under the same exceptions.
RestoreKeepsSafetyCopy ==
    \A l \in hist.lost :
        \/ l[1] \in hist.clobbered \cup hist.unmirrored
        \/ base[l[1]] = l[2] \/ mirror[l[1]] = l[2]

\* A restore never refuses a backup of which there is a copy (RestoreBackup).
CopyIsFound == ~hist.refused

\* No backup and no safety copy is lost, and a restore finds what there is.
BackupsAreKept == ReportedBackupIsKept /\ RestoreKeepsSafetyCopy /\ CopyIsFound

\* psql without a failing statement leaves what the chosen file held when the
\* restore began, unless it was still being written then or another backup of
\* the same second took its name.
RestoreImportsTheFile ==
    [][\A j \in Jobs :
         (job[j].pc = "import" /\ job'[j].pc = "start" /\ budget'.faults = budget.faults)
            => \/ vol'.data = job[j].want
               \/ job[j].want = Partial
               \/ job[j].src \in hist.clobbered]_vars

\* Outside an update the project files are of one version, or the embedded
\* compose file is all there is (EnsureComposeAndCaddyFiles): it never stands
\* beside the files of a release - unless a copy failed half way, was cut off
\* or two jobs copied at once (ApplyStagedFiles).
InstallationIsWhole ==
    (\A j \in Jobs : ~Copying(j)) =>
        \/ Cardinality({files[f] : f \in ProjectFiles}) = 1
        \/ files = EmbeddedOnly
        \/ hist.torn

\* The launcher's executable is there: it is missing only while a swap is
\* under way, or after another launcher swapped, started or died during one
\* (HotSwapExecutable, CleanupStaleOldExecutables).
ExecutableIsThere ==
    exe.cur = "none" => (hist.swaps \/ \E j \in Jobs : job[j].pc = "copy")

\* No staging directory outlives its job, unless the process was ended
\* (the deferred RemoveAll).
StagingIsRemoved ==
    (\A j \in Jobs : job[j].kind \notin {"update", "setup"}) =>
        (hist.killed \/ \A d \in Dirs : ~staging[d].there)

\* The installation is well formed and whole: its files are of one version, its
\* executable is there, nothing of an update is left over.
LauncherIsWhole ==
    TypeOK /\ InstallationIsWhole /\ ExecutableIsThere /\ StagingIsRemoved

\* Every job comes to an end.
JobsEnd == \A j \in Jobs : job[j].pc # "idle" ~> job[j].pc = "idle"

=============================================================================
