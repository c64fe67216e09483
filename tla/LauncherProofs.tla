--------------------------- MODULE LauncherProofs ---------------------------
(***************************************************************************)
(* Proofs about Launcher for any number of jobs of the control centre and  *)
(* of the command line, overlapping freely, and any number of failures.    *)
(*                                                                         *)
(* The invariant has five parts, each kept by every step on its own once   *)
(* the shapes of the jobs (TypeInv) are known: the password follows the    *)
(* volume (PasswordInv), one swap of the executable at a time is safe      *)
(* (SwapInv), a staging directory has an owner (StagingInv), the only      *)
(* copier leaves one version (FilesInv), and the name of a dump in         *)
(* progress belongs to it alone (BackupInv).                               *)
(***************************************************************************)
EXTENDS Launcher, FiniteSetTheorems, TLAPS

Contents == Data \cup {NoFile}

JobType == [kind : Kinds, pc : PCs, name : {0} \cup Names, snap : Contents,
            src : {0} \cup Names, want : Contents, gone : BOOLEAN,
            todo : SUBSET {2, 4}, ver : Versions, again : BOOLEAN]

\* What a job does where.
Restoring == {"create", "dump", "stop", "drop", "import"}

Shape(r) ==
    /\ r.pc = "idle" <=> r.kind = "none"
    /\ r.pc = "idle" => r = IdleJob
    /\ r.pc \in {"create", "dump"} => r.kind \in {"backup", "restore", "rebuild", "update"}
    /\ r.pc \in {"stop", "drop", "import", "start"} => r.kind = "restore"
    /\ r.pc = "compose" => r.kind \in {"rebuild", "update", "setup"}
    /\ r.pc \in {"download", "extract", "walk", "apply"} => r.kind \in {"update", "setup"}
    /\ r.pc \in {"swap", "copy"} => r.kind = "update"
    /\ r.pc \in {"ensure", "config"} => r.kind = "setup"
    /\ r.pc = "dump" => r.name \in Names
    /\ r.kind = "restore" /\ r.pc \in Restoring => r.src \in Names
    /\ r.pc \in {"extract", "walk", "apply"} => r.ver # "none"

FilesType == [ProjectFiles -> Versions \cup {Embedded}]

HistType == [redrawn : BOOLEAN, clobbered : SUBSET Names, unmirrored : SUBSET Names,
             reported : SUBSET (Names \X Data), lost : SUBSET (Names \X Data),
             refused : BOOLEAN, torn : BOOLEAN, swaps : BOOLEAN, killed : BOOLEAN]

\* A restore that has a file open still finds bytes in it.
OpenFiles ==
    \A j \in Jobs : job[j].kind = "restore" /\ job[j].pc \in Restoring =>
        job[j].gone \/ base[job[j].src] # NoFile

\* A password is drawn only while there is no .env.
PasswordsLeft ==
    /\ env <= budget.pw /\ cont.pw <= budget.pw /\ DefaultPassword < budget.pw
    /\ budget.pw + (IF env = NoPassword THEN 1 ELSE 0) <= 3 + budget.ops + budget.faults

JobInv == job \in [Jobs -> JobType] /\ \A j \in Jobs : Shape(job[j])

BudgetType == [writes : 0..MaxWrites, faults : 0..MaxFaults, ops : 0..MaxOps, pw : Nat]

CountersOK == budget \in BudgetType /\ PasswordsLeft

TypeInv ==
    /\ InstallationOK
    /\ BackupFilesOK
    /\ JobInv
    /\ CountersOK
    /\ hist \in HistType
    /\ OpenFiles

PasswordInv ==
    vol.there => \/ hist.redrawn
                 \/ /\ env # NoPassword => env = vol.pw
                    /\ cont.there /\ cont.pw \notin {NoPassword, DefaultPassword} =>
                         cont.pw = vol.pw

Swapping(j) == job[j].pc = "copy"

SwapInv ==
    \/ hist.swaps
    \/ /\ exe.cur = "none" => \E j \in Jobs : Swapping(j)
       /\ \A j, k \in Jobs : Swapping(j) /\ Swapping(k) => j = k
       /\ \A j \in Jobs : Swapping(j) => exe.old # "none"

\* The job a staging directory belongs to.
Holds(r, d) ==
    \/ /\ d = "update" /\ r.kind = "update"
       /\ \/ r.pc \in {"extract", "walk", "apply", "swap", "copy", "compose"}
          \/ r.pc \in {"create", "dump"} /\ r.again
    \/ /\ d = "setup" /\ r.kind = "setup"
       /\ r.pc \in {"extract", "walk", "apply"}

Owns(j, d) == Holds(job[j], d)

StagingInv == \A d \in Dirs : staging[d].there => hist.killed \/ \E j \in Jobs : Owns(j, d)

\* The project files are of one version, or the embedded compose file is all.
OneVersion == \/ files["Dockerfile.server"] = files["docker-compose.yml"]
              \/ files = EmbeddedOnly

\* What a walk that has come so far has written.
Written(j) ==
    /\ 2 \notin job[j].todo => files["Dockerfile.server"] = job[j].ver
    /\ 4 \notin job[j].todo => files["docker-compose.yml"] = job[j].ver

FilesInv ==
    \/ hist.torn
    \/ /\ \A j, k \in Jobs : Copying(j) /\ Copying(k) => j = k
       /\ \A j \in Jobs : job[j].pc = "apply" => Written(j)
       /\ (\A j \in Jobs : job[j].pc # "apply") => OneVersion
       /\ \A j \in Jobs : job[j].pc = "walk" /\ staging[Dir(j)].there =>
              staging[Dir(j)].has = Entries

Excused == hist.clobbered \cup hist.unmirrored

Writes(r, n) == r.pc = "dump" /\ r.name = n

Dumping(j, n) == Writes(job[j], n)

\* A file that is being dumped has one writer and no report yet.
DumpInv ==
    \A j \in Jobs, n \in Names : Dumping(j, n) =>
        \/ n \in hist.clobbered
        \/ /\ base[n] = Partial
           /\ \A k \in Jobs : Dumping(k, n) => k = j

ReportInv ==
    \A r \in hist.reported :
        r[1] \in Excused \/ (mirror[r[1]] = r[2] /\ \A j \in Jobs : ~Dumping(j, r[1]))

\* The safety copy a restore relies on was reported.
SnapInv ==
    /\ \A j \in Jobs : job[j].snap # NoFile =>
          /\ <<job[j].name, job[j].snap>> \in hist.reported
          /\ job[j].pc \in {"stop", "drop", "import"}
    /\ hist.lost \subseteq hist.reported
    /\ ~hist.refused

\* The file a restore has chosen is as it was.
ChosenInv ==
    \A j \in Jobs : job[j].kind = "restore" /\ job[j].pc \in Restoring =>
        \/ job[j].src \in hist.clobbered
        \/ job[j].want = Partial
        \/ /\ ~job[j].gone
           /\ job[j].want # NoFile
           /\ base[job[j].src] = job[j].want
           /\ \A k \in Jobs : ~Dumping(k, job[j].src)

BackupInv == DumpInv /\ ReportInv /\ SnapInv /\ ChosenInv

IInv == TypeInv /\ PasswordInv /\ SwapInv /\ StagingInv /\ FilesInv /\ BackupInv

-----------------------------------------------------------------------------
(* Jobs.                                                                    *)
LEMMA DataFacts == /\ Empty \in Data /\ Partial \in Data /\ 1 \in Data
                   /\ NoFile \notin Data /\ NoFile # Partial
                   /\ \A w \in 0..MaxWrites : w < MaxWrites => w + 2 \in Data
  BY LauncherBounds DEF Empty, Partial, Data, NoFile

LEMMA IdleFacts == IdleJob \in JobType /\ Shape(IdleJob)
  BY LauncherBounds DEF IdleJob, JobType, Shape, Kinds, PCs, Names, Contents, Versions, Restoring

LEMMA AtFacts ==
  ASSUME NEW kind \in Kinds, NEW pc \in PCs
  PROVE  /\ At(kind, pc) \in JobType
         /\ At(kind, pc).kind = kind /\ At(kind, pc).pc = pc
         /\ At(kind, pc).snap = NoFile
  BY IdleFacts DEF At, IdleJob, JobType

\* A step that changes one job.
LEMMA OneJob ==
  ASSUME JobInv, NEW j \in Jobs, NEW r \in JobType, Shape(r), job' = [job EXCEPT ![j] = r]
  PROVE  JobInv'
  BY DEF JobInv

LEMMA JobsTyped == JobInv => JobsOK
  BY DEF JobInv, JobsOK, JobType, Shape, IdleJob

-----------------------------------------------------------------------------
(* Where the helpers of the specification send a job.                       *)
Moves(j, r) == r \in JobType /\ Shape(r) /\ job' = [job EXCEPT ![j] = r]

\* The end of a file job.
FilesDone(j, error) ==
    \/ Moves(j, IdleJob) /\ job[j].kind = "update" /\ error
    \/ Moves(j, At("setup", "config")) /\ job[j].kind = "setup"
    \/ Moves(j, At("setup", "compose")) /\ job[j].kind = "setup"
    \/ Moves(j, At("update", "swap")) /\ job[j].kind = "update" /\ ~error

LEMMA AfterFilesMoves ==
  ASSUME JobInv, NEW j \in Jobs, NEW error \in BOOLEAN, AfterFiles(j, error),
         job[j].kind \in {"update", "setup"}
  PROVE  FilesDone(j, error)
<1>1. \A kind \in {"setup", "update"}, pc \in {"config", "compose", "swap"} :
        At(kind, pc) \in JobType /\ At(kind, pc).kind = kind /\ At(kind, pc).pc = pc
  BY AtFacts DEF Kinds, PCs
<1>2. Shape(At("setup", "config")) /\ Shape(At("setup", "compose")) /\ Shape(At("update", "swap"))
  BY <1>1 DEF Shape
<1>3. j \in GuiJobs \/ j \in CliJobs
  BY DEF Jobs
<1> QED
  BY <1>1, <1>2, <1>3, IdleFacts DEF AfterFiles, Dir, Ends, Moves, FilesDone

LEMMA AfterBackupMoves ==
  ASSUME NEW j1 \in [Jobs -> JobType], NEW j \in Jobs, AfterBackup(j, j1),
         j1[j].kind \in {"backup", "restore", "rebuild", "update"},
         j1[j].kind = "restore" => j1[j].src \in Names
  PROVE  \E r \in JobType :
           /\ Shape(r)
           /\ job' = [j1 EXCEPT ![j] = r]
           /\ \/ r = IdleJob /\ j1[j].kind = "backup"
              \/ r = [j1[j] EXCEPT !.pc = "stop"] /\ j1[j].kind = "restore"
              \/ r = At("rebuild", "compose") /\ j1[j].kind = "rebuild"
              \/ r = At("update", "compose") /\ j1[j].kind = "update" /\ j1[j].again
              \/ r = At("update", "download") /\ j1[j].kind = "update" /\ ~j1[j].again
<1>1. \A kind \in {"rebuild", "update"}, pc \in {"compose", "download"} :
        At(kind, pc) \in JobType /\ At(kind, pc).kind = kind /\ At(kind, pc).pc = pc
  BY AtFacts DEF Kinds, PCs
<1>2. Shape(At("rebuild", "compose")) /\ Shape(At("update", "compose")) /\ Shape(At("update", "download"))
  BY <1>1 DEF Shape
<1>3. CASE j1[j].kind = "backup"
  BY <1>3, IdleFacts DEF AfterBackup
<1>4. CASE j1[j].kind = "restore"
  <2> DEFINE r == [j1[j] EXCEPT !.pc = "stop"]
  <2>1. r \in JobType /\ r.kind = "restore" /\ r.pc = "stop" /\ r.src = j1[j].src
    BY <1>4 DEF JobType, PCs
  <2>2. Shape(r)
    BY <2>1, <1>4 DEF Shape
  <2> QED BY <1>4, <2>1, <2>2 DEF AfterBackup
<1>5. CASE j1[j].kind = "rebuild"
  BY <1>5, <1>1, <1>2 DEF AfterBackup
<1>6. CASE j1[j].kind = "update"
  BY <1>6, <1>1, <1>2 DEF AfterBackup, JobType
<1> QED BY <1>3, <1>4, <1>5, <1>6

\* A control centre that starts.
LEMMA NewProcessJobs ==
  ASSUME JobInv
  PROVE  /\ NewProcess(job) \in [Jobs -> JobType]
         /\ \A k \in Jobs : Shape(NewProcess(job)[k])
         /\ \A k \in Jobs : NewProcess(job)[k] = IF k \in GuiJobs THEN IdleJob ELSE job[k]
  BY IdleFacts DEF NewProcess, JobInv, Jobs

-----------------------------------------------------------------------------
(* Counters.                                                                *)
SameButFaults == /\ budget'.pw = budget.pw /\ budget'.ops = budget.ops
                 /\ budget'.faults \in {budget.faults, budget.faults + 1}

LEMMA Called ==
  ASSUME budget \in BudgetType, NEW ok \in BOOLEAN, Call(ok)
  PROVE  /\ budget' \in BudgetType
         /\ budget'.pw = budget.pw /\ budget'.ops = budget.ops
         /\ budget'.faults = budget.faults + (IF ok THEN 0 ELSE 1)
  BY LauncherBounds DEF BudgetType, Call

LEMMA Executed ==
  ASSUME budget \in BudgetType, NEW ok \in BOOLEAN, Exec(ok)
  PROVE  budget' \in BudgetType /\ SameButFaults
<1>1. CASE Composes /\ runs.db
  <2>1. Call(ok)
    BY <1>1 DEF Exec
  <2>2. budget.faults + 0 = budget.faults
    BY DEF BudgetType
  <2> QED BY <2>1, <2>2, Called DEF SameButFaults
<1>2. CASE ~(Composes /\ runs.db)
  BY <1>2 DEF Exec, SameButFaults, BudgetType
<1> QED BY <1>1, <1>2

LEMMA AskedFacts ==
  ASSUME budget \in BudgetType, budget.ops < MaxOps,
         NEW ok \in BOOLEAN, ok \/ budget.faults < MaxFaults
  PROVE  /\ [budget EXCEPT !.ops = @ + 1, !.faults = IF ok THEN @ ELSE @ + 1] \in BudgetType
         /\ OneMore("ops") = [budget EXCEPT !.ops = @ + 1]
         /\ OneMore("ops") \in BudgetType
<1>1. budget.ops + 1 \in 0..MaxOps
  BY LauncherBounds DEF BudgetType
<1>2. (IF ok THEN budget.faults ELSE budget.faults + 1) \in 0..MaxFaults
  BY LauncherBounds DEF BudgetType
<1>3. [budget EXCEPT !.ops = @ + 1] \in BudgetType
  BY <1>1 DEF BudgetType
<1>4. [budget EXCEPT !.ops = @ + 1, !.faults = IF ok THEN @ ELSE @ + 1] \in BudgetType
  BY <1>1, <1>2 DEF BudgetType
<1>5. OneMore("ops") = [budget EXCEPT !.ops = @ + 1]
  BY Zenon DEF OneMore
<1> QED BY <1>3, <1>4, <1>5

\* A step that leaves the passwords alone.
LEMMA CountersKept ==
  ASSUME CountersOK, budget' \in BudgetType, budget'.pw = budget.pw,
         budget'.ops >= budget.ops, budget'.faults >= budget.faults,
         UNCHANGED env, cont'.pw \in {cont.pw, env, NoPassword, DefaultPassword}
  PROVE  CountersOK'
<1>1. /\ budget.pw \in Nat /\ budget.ops \in Nat /\ budget.faults \in Nat
      /\ budget'.ops \in Nat /\ budget'.faults \in Nat
  BY DEF CountersOK, BudgetType
<1> QED BY <1>1 DEF CountersOK, PasswordsLeft, NoPassword, DefaultPassword

LEMMA CallKeepsCounters ==
  ASSUME CountersOK, NEW ok \in BOOLEAN, Call(ok) \/ UNCHANGED budget, UNCHANGED env,
         cont'.pw \in {cont.pw, env, NoPassword, DefaultPassword}
  PROVE  CountersOK'
<1>1. budget \in BudgetType
  BY DEF CountersOK
<1>2. budget.faults \in Nat /\ budget.ops \in Nat
  BY <1>1 DEF BudgetType
<1>3. CASE Call(ok)
  <2>1. budget' \in BudgetType /\ budget'.pw = budget.pw /\ budget'.ops = budget.ops
        /\ budget'.faults = budget.faults + (IF ok THEN 0 ELSE 1)
    BY <1>1, <1>3, Called
  <2> QED BY <1>2, <2>1, CountersKept
<1>4. CASE UNCHANGED budget
  BY <1>1, <1>2, <1>4, CountersKept
<1> QED BY <1>3, <1>4

\* A docker compose that is not even started costs nothing.
LEMMA ComposeCalls ==
  ASSUME NEW ok \in BOOLEAN
  PROVE  /\ ComposeCall(ok) => Call(ok) \/ UNCHANGED budget
         /\ \A builds : UpCall(ok, builds) => Call(ok) \/ UNCHANGED budget
  BY DEF ComposeCall, UpCall

LEMMA ExecKeepsCounters ==
  ASSUME CountersOK, NEW ok \in BOOLEAN, Exec(ok), UNCHANGED env,
         cont'.pw \in {cont.pw, env, NoPassword, DefaultPassword}
  PROVE  CountersOK'
<1>1. budget \in BudgetType
  BY DEF CountersOK
<1>2. budget' \in BudgetType /\ SameButFaults
  BY <1>1, Executed
<1>3. budget.faults \in Nat /\ budget.ops \in Nat
  BY <1>1 DEF BudgetType
<1> QED BY <1>2, <1>3, CountersKept DEF SameButFaults

LEMMA AskedKeepsCounters ==
  ASSUME CountersOK, Asked, UNCHANGED env,
         cont'.pw \in {cont.pw, env, NoPassword, DefaultPassword}
  PROVE  CountersOK'
<1>1. budget \in BudgetType /\ budget.ops < MaxOps /\ budget' = [budget EXCEPT !.ops = @ + 1]
  BY DEF CountersOK, Asked
<1>2. budget.faults \in Nat /\ budget.ops \in Nat
  BY <1>1 DEF BudgetType
<1>3. budget' \in BudgetType /\ budget'.pw = budget.pw /\ budget'.ops = budget.ops + 1
      /\ budget'.faults = budget.faults
  BY <1>1, AskedFacts DEF BudgetType
<1> QED BY <1>2, <1>3, CountersKept

\* docker compose up.
LEMMA UpFacts ==
  ASSUME InstallationOK, NEW services \in BOOLEAN, Up(services)
  PROVE  /\ vol' \in [there : BOOLEAN, pw : Passwords, data : Data]
         /\ cont' \in [there : BOOLEAN, pw : Passwords]
         /\ runs' \in [db : BOOLEAN, app : BOOLEAN]
         /\ runs'.db => vol'.there
         /\ cont'.pw \in {env, DefaultPassword}
<1>1. DefaultPassword \in Passwords
  BY LauncherBounds DEF DefaultPassword, Passwords, ShippedPassword
<1> QED BY <1>1, DataFacts DEF InstallationOK, Up

\* Writing a configuration.
LEMMA ConfigFacts ==
  ASSUME CountersOK, InstallationOK, NEW existing \in Passwords, existing <= budget.pw,
         existing = env \/ env = NoPassword, UNCHANGED cont,
         NEW counters \in BudgetType, counters.pw = budget.pw,
         counters.ops >= budget.ops, counters.faults >= budget.faults,
         WriteConfig(existing, counters)
  PROVE  CountersOK' /\ env' \in Passwords
<1>0. /\ budget.pw \in Nat /\ budget.ops \in 0..MaxOps /\ budget.faults \in 0..MaxFaults
      /\ counters.ops \in 0..MaxOps /\ counters.faults \in 0..MaxFaults
      /\ counters.writes \in 0..MaxWrites
      /\ env \in Nat /\ cont.pw \in Nat
      /\ MaxOps \in Nat /\ MaxFaults \in Nat /\ existing \in Nat
  BY LauncherBounds DEF CountersOK, BudgetType, InstallationOK, Passwords, ShippedPassword
<1> DEFINE pw1 == IF env' > counters.pw THEN env' ELSE counters.pw
<1>1. budget' = [counters EXCEPT !.pw = pw1]
  BY DEF WriteConfig
<1>2. CASE existing # NoPassword
  <2>1. env' = existing /\ pw1 = budget.pw
    BY <1>0, <1>2 DEF WriteConfig, GenerateEnv
  <2>2. budget' \in BudgetType /\ budget'.pw = budget.pw /\ budget'.ops = counters.ops
        /\ budget'.faults = counters.faults
    BY <1>0, <1>1, <2>1 DEF BudgetType
  <2> QED BY <1>0, <1>2, <2>1, <2>2 DEF CountersOK, PasswordsLeft
<1>3. CASE existing = NoPassword
  <2>1. env = NoPassword /\ env' = budget.pw + 1 /\ pw1 = budget.pw + 1
    BY <1>0, <1>3 DEF WriteConfig, GenerateEnv
  <2>2. budget' \in BudgetType /\ budget'.pw = budget.pw + 1 /\ budget'.ops = counters.ops
        /\ budget'.faults = counters.faults
    BY <1>0, <1>1, <2>1 DEF BudgetType
  <2>3. budget.pw + 1 <= 3 + budget.ops + budget.faults
    BY <1>0, <2>1 DEF CountersOK, PasswordsLeft
  <2>4. env' \in Passwords
    BY <1>0, <2>1, <2>3 DEF Passwords, ShippedPassword
  <2> QED BY <1>0, <2>1, <2>2, <2>3, <2>4 DEF CountersOK, PasswordsLeft, NoPassword, DefaultPassword
<1> QED BY <1>2, <1>3

-----------------------------------------------------------------------------
(* Where each action sends its job.                                         *)

\* After a backup, safety copy or not.
Onward(j, r) ==
    \/ r = IdleJob /\ job[j].kind = "backup"
    \/ r = At("rebuild", "compose") /\ job[j].kind = "rebuild"
    \/ r = At("update", "compose") /\ job[j].kind = "update" /\ job[j].again
    \/ r = At("update", "download") /\ job[j].kind = "update" /\ ~job[j].again

LEMMA ReadingJobs ==
  ASSUME JobInv, NEW j \in Jobs
  PROVE  job[j] \in JobType /\ Shape(job[j])
  BY DEF JobInv

LEMMA CreateFileMoves ==
  ASSUME JobInv, NEW j \in Jobs, NEW ok \in BOOLEAN, CreateFile(j, ok), clock \in Names
  PROVE  \E r : /\ Moves(j, r)
                /\ ok => r = [job[j] EXCEPT !.pc = "dump", !.name = clock]
                /\ ~ok => \/ Onward(j, r)
                          \/ r = [job[j] EXCEPT !.pc = "stop"] /\ job[j].kind = "restore"
<1>0. job[j] \in JobType /\ Shape(job[j]) /\ job[j].pc = "create"
  BY ReadingJobs DEF CreateFile
<1>1. CASE ok
  <2> DEFINE r == [job[j] EXCEPT !.pc = "dump", !.name = clock]
  <2>1. r \in JobType /\ r.pc = "dump" /\ r.name = clock /\ r.kind = job[j].kind /\ r.src = job[j].src
    BY <1>0 DEF JobType, PCs
  <2>2. Shape(r)
    BY <1>0, <2>1 DEF Shape, Restoring
  <2>3. job' = [job EXCEPT ![j] = r]
    BY <1>1 DEF CreateFile, JobInv
  <2> QED BY <1>1, <2>1, <2>2, <2>3 DEF Moves
<1>2. CASE ~ok
  <2>1. job[j].kind \in {"backup", "restore", "rebuild", "update"}
        /\ (job[j].kind = "restore" => job[j].src \in Names)
    BY <1>0 DEF Shape, Restoring
  <2>2. AfterBackup(j, job) /\ job \in [Jobs -> JobType]
    BY <1>2 DEF CreateFile, JobInv
  <2>3. PICK r \in JobType :
          /\ Shape(r)
          /\ job' = [job EXCEPT ![j] = r]
          /\ \/ r = IdleJob /\ job[j].kind = "backup"
             \/ r = [job[j] EXCEPT !.pc = "stop"] /\ job[j].kind = "restore"
             \/ r = At("rebuild", "compose") /\ job[j].kind = "rebuild"
             \/ r = At("update", "compose") /\ job[j].kind = "update" /\ job[j].again
             \/ r = At("update", "download") /\ job[j].kind = "update" /\ ~job[j].again
    BY <2>1, <2>2, AfterBackupMoves
  <2> QED BY <1>2, <2>3 DEF Moves, Onward
<1> QED BY <1>1, <1>2

LEMMA DumpSucceedsMoves ==
  ASSUME JobInv, NEW j \in Jobs, NEW data \in Data, NEW mirrored \in BOOLEAN,
         DumpSucceeds(j, data, mirrored)
  PROVE  \E r : /\ Moves(j, r)
                /\ \/ Onward(j, r)
                   \/ /\ r = [job[j] EXCEPT !.pc = "stop", !.snap = data]
                      /\ job[j].kind = "restore"
<1>0. job[j] \in JobType /\ Shape(job[j]) /\ job[j].pc = "dump"
  BY ReadingJobs DEF DumpSucceeds
<1> DEFINE r1 == [job[j] EXCEPT !.snap = data]
           job1 == [job EXCEPT ![j] = r1]
<1>1. /\ r1 \in JobType /\ r1.kind = job[j].kind /\ r1.src = job[j].src /\ r1.again = job[j].again
      /\ [r1 EXCEPT !.pc = "stop"] = [job[j] EXCEPT !.pc = "stop", !.snap = data]
  BY <1>0 DEF JobType, Contents
<1>2. job1 \in [Jobs -> JobType] /\ job1[j] = r1 /\ [job EXCEPT ![j].snap = data] = job1
      /\ \A r : [job1 EXCEPT ![j] = r] = [job EXCEPT ![j] = r]
  BY <1>1 DEF JobInv
<1>3. AfterBackup(j, job1)
  BY <1>2 DEF DumpSucceeds
<1>4. r1.kind \in {"backup", "restore", "rebuild", "update"} /\ (r1.kind = "restore" => r1.src \in Names)
  BY <1>0, <1>1 DEF Shape, Restoring
<1> HIDE DEF job1, r1
<1>5. PICK r \in JobType :
        /\ Shape(r)
        /\ job' = [job1 EXCEPT ![j] = r]
        /\ \/ r = IdleJob /\ job1[j].kind = "backup"
           \/ r = [job1[j] EXCEPT !.pc = "stop"] /\ job1[j].kind = "restore"
           \/ r = At("rebuild", "compose") /\ job1[j].kind = "rebuild"
           \/ r = At("update", "compose") /\ job1[j].kind = "update" /\ job1[j].again
           \/ r = At("update", "download") /\ job1[j].kind = "update" /\ ~job1[j].again
  BY <1>2, <1>3, <1>4, AfterBackupMoves
<1> QED BY <1>1, <1>2, <1>5 DEF Moves, Onward

\* pg_dump fails: jobs that have the file open notice.
Noticed(n) == [k \in Jobs |-> [job[k] EXCEPT !.gone = @ \/ job[k].src = n]]

LEMMA NoticedFacts ==
  ASSUME JobInv, NEW n \in Names
  PROVE  /\ Noticed(n) \in [Jobs -> JobType]
         /\ \A k \in Jobs : /\ Shape(Noticed(n)[k])
                            /\ Noticed(n)[k] = [job[k] EXCEPT !.gone = @ \/ job[k].src = n]
<1>1. ASSUME NEW k \in Jobs
      PROVE  /\ [job[k] EXCEPT !.gone = @ \/ job[k].src = n] \in JobType
             /\ Shape([job[k] EXCEPT !.gone = @ \/ job[k].src = n])
  <2>1. job[k] \in JobType /\ Shape(job[k])
    BY ReadingJobs
  <2>2. [job[k] EXCEPT !.gone = @ \/ job[k].src = n] \in JobType
    BY <2>1 DEF JobType
  <2>3. CASE job[k].pc = "idle"
    <3>1. /\ job[k] = IdleJob /\ job[k].gone = FALSE
          /\ (job[k].gone \/ job[k].src = n) = FALSE
      BY <2>1, <2>3, LauncherBounds DEF Shape, IdleJob, Names
    <3>2. [IdleJob EXCEPT !.gone = FALSE] = IdleJob
      <4>1. \A r \in JobType : r.gone = FALSE => [r EXCEPT !.gone = FALSE] = r
        BY DEF JobType
      <4>2. IdleJob.gone = FALSE
        BY DEF IdleJob
      <4> QED BY <4>1, <4>2, IdleFacts
    <3>3. [job[k] EXCEPT !.gone = @ \/ job[k].src = n] = [IdleJob EXCEPT !.gone = FALSE]
      BY <3>1, Zenon
    <3> QED BY <2>1, <3>1, <3>2, <3>3
  <2>4. CASE job[k].pc # "idle"
    BY <2>1, <2>4 DEF Shape, JobType, Restoring
  <2> QED BY <2>2, <2>3, <2>4
<1> QED BY <1>1 DEF Noticed

LEMMA DumpFailsMoves ==
  ASSUME JobInv, NEW j \in Jobs, DumpFails(j)
  PROVE  \E r \in JobType :
           /\ Shape(r)
           /\ job' = [Noticed(job[j].name) EXCEPT ![j] = r]
           /\ \/ Onward(j, r)
              \/ /\ r = [Noticed(job[j].name)[j] EXCEPT !.pc = "stop"]
                 /\ job[j].kind = "restore"
<1>0. job[j] \in JobType /\ Shape(job[j]) /\ job[j].pc = "dump" /\ job[j].name \in Names
  BY ReadingJobs DEF DumpFails, Shape
<1> DEFINE job1 == Noticed(job[j].name)
<1>1. AfterBackup(j, job1)
  BY DEF DumpFails, Noticed
<1>2. /\ job1 \in [Jobs -> JobType]
      /\ job1[j] = [job[j] EXCEPT !.gone = @ \/ job[j].src = job[j].name]
  BY <1>0, NoticedFacts
<1> HIDE DEF job1
<1>3. job1[j].kind = job[j].kind /\ job1[j].src = job[j].src /\ job1[j].again = job[j].again
  BY <1>0, <1>2 DEF JobType
<1>4. job1[j].kind \in {"backup", "restore", "rebuild", "update"}
      /\ (job1[j].kind = "restore" => job1[j].src \in Names)
  BY <1>0, <1>3 DEF Shape, Restoring
<1>5. PICK r \in JobType :
        /\ Shape(r)
        /\ job' = [job1 EXCEPT ![j] = r]
        /\ \/ r = IdleJob /\ job1[j].kind = "backup"
           \/ r = [job1[j] EXCEPT !.pc = "stop"] /\ job1[j].kind = "restore"
           \/ r = At("rebuild", "compose") /\ job1[j].kind = "rebuild"
           \/ r = At("update", "compose") /\ job1[j].kind = "update" /\ job1[j].again
           \/ r = At("update", "download") /\ job1[j].kind = "update" /\ ~job1[j].again
  BY <1>1, <1>2, <1>4, AfterBackupMoves
<1> QED BY <1>3, <1>5 DEF Onward, job1

\* The steps of a restore after its safety copy.
LEMMA RestoreMoves ==
  ASSUME JobInv, NEW j \in Jobs
  PROVE  /\ \A ok \in BOOLEAN : StopApp(j, ok) => Moves(j, [job[j] EXCEPT !.pc = "drop"])
         /\ \A ok \in BOOLEAN : DropSchema(j, ok) => Moves(j, [job[j] EXCEPT !.pc = "import"])
         /\ \A result : Import(j, result) =>
               Moves(j, IF result = "failed" THEN IdleJob ELSE At("restore", "start"))
         /\ \A ok \in BOOLEAN : StartApp(j, ok) => Moves(j, IdleJob)
<1>0. job[j] \in JobType /\ Shape(job[j]) /\ job \in [Jobs -> JobType]
  BY ReadingJobs DEF JobInv
<1>1. ASSUME NEW pc \in {"drop", "import"}, job[j].pc \in {"stop", "drop"},
             job' = [job EXCEPT ![j].pc = pc]
      PROVE  Moves(j, [job[j] EXCEPT !.pc = pc])
  <2> DEFINE r == [job[j] EXCEPT !.pc = pc]
  <2>1. r \in JobType /\ r.pc = pc /\ r.kind = "restore" /\ r.src \in Names
    BY <1>0, <1>1 DEF JobType, PCs, Shape, Restoring
  <2>2. Shape(r)
    BY <2>1 DEF Shape
  <2> QED BY <1>0, <1>1, <2>1, <2>2 DEF Moves
<1>2. At("restore", "start") \in JobType /\ Shape(At("restore", "start"))
  <2>1. "restore" \in Kinds /\ "start" \in PCs
    BY DEF Kinds, PCs
  <2>2. At("restore", "start") \in JobType /\ At("restore", "start").kind = "restore"
        /\ At("restore", "start").pc = "start"
    BY <2>1, AtFacts
  <2> QED BY <2>2 DEF Shape, Restoring
<1> QED BY <1>1, <1>2, IdleFacts DEF StopApp, DropSchema, Import, StartApp, Goto, Ends, Moves

\* Requests and commands.
LEMMA RequestMoves ==
  ASSUME JobInv, NEW j \in Jobs
  PROVE  /\ \A kind \in {"backup", "update", "rebuild"} :
               Request(j, kind) => Moves(j, At(kind, "create"))
         /\ handleSetup(j) \/ commandInstall(j) => Moves(j, At("setup", "ensure"))
         /\ InstallConfig(j) => Moves(j, [job[j] EXCEPT !.pc = "compose"]) /\ job[j].kind = "setup"
<1>0. job[j] \in JobType /\ Shape(job[j]) /\ job \in [Jobs -> JobType]
  BY ReadingJobs DEF JobInv
<1>1. \A kind \in {"backup", "update", "rebuild"} :
        At(kind, "create") \in JobType /\ Shape(At(kind, "create"))
  <2>1. {"backup", "update", "rebuild"} \subseteq Kinds /\ "create" \in PCs
    BY DEF Kinds, PCs
  <2>2. \A kind \in {"backup", "update", "rebuild"} :
          /\ At(kind, "create") \in JobType
          /\ At(kind, "create").kind = kind /\ At(kind, "create").pc = "create"
    BY <2>1, AtFacts
  <2> QED BY <2>2 DEF Shape, Restoring
<1>2. At("setup", "ensure") \in JobType /\ Shape(At("setup", "ensure"))
  <2>1. "setup" \in Kinds /\ "ensure" \in PCs
    BY DEF Kinds, PCs
  <2>2. At("setup", "ensure") \in JobType /\ At("setup", "ensure").kind = "setup"
        /\ At("setup", "ensure").pc = "ensure"
    BY <2>1, AtFacts
  <2> QED BY <2>2 DEF Shape, Restoring
<1>3. ASSUME InstallConfig(j)
      PROVE  Moves(j, [job[j] EXCEPT !.pc = "compose"]) /\ job[j].kind = "setup"
  <2>1. job[j].pc = "config" /\ job' = [job EXCEPT ![j].pc = "compose"]
    BY <1>3 DEF InstallConfig, Goto
  <2>2. LET r == [job[j] EXCEPT !.pc = "compose"]
        IN  r \in JobType /\ r.pc = "compose" /\ r.kind = "setup" /\ job[j].kind = "setup"
    BY <1>0, <2>1 DEF JobType, PCs, Shape
  <2>3. Shape([job[j] EXCEPT !.pc = "compose"])
    BY <2>2 DEF Shape
  <2> QED BY <1>0, <2>1, <2>2, <2>3 DEF Moves
<1> QED BY <1>1, <1>2, <1>3 DEF Request, Begin, handleSetup, commandInstall, Moves

LEMMA OpenBackupMoves ==
  ASSUME JobInv, BackupFilesOK, NEW j \in Jobs, NEW n \in Names, OpenBackup(j, n)
  PROVE  \/ UNCHANGED job /\ Locate(n) = NoFile
         \/ /\ Locate(n) # NoFile
            /\ Moves(j, [IdleJob EXCEPT !.kind = "restore", !.pc = "create",
                                        !.src = n, !.want = Locate(n)])
<1>1. CASE Locate(n) = NoFile
  BY <1>1 DEF OpenBackup
<1>2. CASE Locate(n) # NoFile
  <2> DEFINE r == [IdleJob EXCEPT !.kind = "restore", !.pc = "create", !.src = n, !.want = Locate(n)]
  <2>1. Locate(n) \in Contents
    BY DEF Locate, BackupFilesOK, Contents
  <2>2. r \in JobType /\ r.kind = "restore" /\ r.pc = "create" /\ r.src = n
    BY <2>1, IdleFacts DEF JobType, IdleJob, Kinds, PCs
  <2>3. Shape(r)
    BY <2>2 DEF Shape
  <2>4. job' = [job EXCEPT ![j] = r]
    BY <1>2 DEF OpenBackup
  <2> QED BY <1>2, <2>2, <2>3, <2>4 DEF Moves
<1> QED BY <1>1, <1>2

\* The steps of an update or a setup on project files.
LEMMA FileMoves ==
  ASSUME JobInv, NEW j \in Jobs
  PROVE  /\ \A result \in {"ok", "main", "failed"} : Download(j, result) =>
               \/ FilesDone(j, TRUE) /\ result = "failed"
               \/ /\ result # "failed"
                  /\ Moves(j, [job[j] EXCEPT !.pc = "extract", !.ver = ArchiveVersion(j, result)])
         /\ \A ok \in BOOLEAN : Extract(j, ok) =>
               \/ ok /\ Moves(j, [job[j] EXCEPT !.pc = "walk"])
               \/ ~ok /\ FilesDone(j, TRUE)
         /\ Applied(j) => FilesDone(j, FALSE)
         /\ EnsureProjectFiles(j) =>
               \/ FilesDone(j, FALSE)
               \/ Moves(j, [job[j] EXCEPT !.pc = "download"])
<1>0. job[j] \in JobType /\ Shape(job[j]) /\ job \in [Jobs -> JobType]
  BY ReadingJobs DEF JobInv
<1>1. ASSUME NEW pc \in {"extract", "walk", "download"}, NEW ver \in Versions,
             job[j].kind \in {"update", "setup"}
      PROVE  /\ [job[j] EXCEPT !.pc = pc, !.ver = ver] \in JobType
             /\ ver # "none" => Shape([job[j] EXCEPT !.pc = pc, !.ver = ver])
             /\ [job[j] EXCEPT !.pc = pc] \in JobType
             /\ pc = "download" \/ job[j].ver # "none" => Shape([job[j] EXCEPT !.pc = pc])
  BY <1>0, <1>1 DEF Shape, JobType, PCs, Restoring
<1>2. ASSUME NEW result \in {"ok", "main", "failed"}, Download(j, result)
      PROVE  \/ FilesDone(j, TRUE) /\ result = "failed"
             \/ /\ result # "failed"
                /\ Moves(j, [job[j] EXCEPT !.pc = "extract", !.ver = ArchiveVersion(j, result)])
  <2>1. job[j].pc = "download" /\ job[j].kind \in {"update", "setup"}
        /\ ArchiveVersion(j, result) \in Versions /\ ArchiveVersion(j, result) # "none"
    BY <1>0, <1>2 DEF Download, Shape, ArchiveVersion, Versions
  <2>2. CASE result = "failed"
    BY <1>2, <2>1, <2>2, AfterFilesMoves DEF Download
  <2>3. CASE result # "failed"
    <3>1. job' = [job EXCEPT ![j] = [job[j] EXCEPT !.pc = "extract", !.ver = ArchiveVersion(j, result)]]
      BY <1>0, <1>2, <2>3 DEF Download
    <3> QED BY <1>1, <2>1, <2>3, <3>1 DEF Moves
  <2> QED BY <2>2, <2>3
<1>3. ASSUME NEW ok \in BOOLEAN, Extract(j, ok)
      PROVE  \/ ok /\ Moves(j, [job[j] EXCEPT !.pc = "walk"])
             \/ ~ok /\ FilesDone(j, TRUE)
  <2>1. job[j].pc = "extract" /\ job[j].kind \in {"update", "setup"}
        /\ job[j].ver \in Versions /\ job[j].ver # "none"
    BY <1>0, <1>3 DEF Extract, Shape, JobType
  <2>2. CASE ok
    <3>1. job' = [job EXCEPT ![j] = [job[j] EXCEPT !.pc = "walk"]]
      BY <1>0, <1>3, <2>2 DEF Extract, Extracted, Goto
    <3> QED BY <1>1, <2>1, <2>2, <3>1 DEF Moves
  <2>3. CASE ~ok
    BY <1>3, <2>1, <2>3, AfterFilesMoves DEF Extract, Extracted
  <2> QED BY <2>2, <2>3
<1>4. ASSUME Applied(j) PROVE FilesDone(j, FALSE)
  <2>1. job[j].kind \in {"update", "setup"}
    BY <1>0, <1>4 DEF Applied, Shape
  <2> QED BY <1>4, <2>1, AfterFilesMoves DEF Applied
<1>5. ASSUME EnsureProjectFiles(j)
      PROVE  \/ FilesDone(j, FALSE)
             \/ Moves(j, [job[j] EXCEPT !.pc = "download"])
  <2>1. job[j].kind = "setup" /\ job[j].ver \in Versions
    BY <1>0, <1>5 DEF EnsureProjectFiles, Shape, JobType
  <2>2. CASE AfterFiles(j, FALSE)
    BY <2>1, <2>2, AfterFilesMoves
  <2>3. CASE Goto(j, "download")
    BY <1>0, <1>1, <2>1, <2>3 DEF Goto, Moves
  <2> QED BY <1>5, <2>2, <2>3 DEF EnsureProjectFiles
<1> QED BY <1>2, <1>3, <1>4, <1>5

Listed == {2, 4}

LEMMA WalkMoves ==
  ASSUME JobInv, InstallationOK, NEW j \in Jobs, Walk(j)
  PROVE  \/ /\ staging[Dir(j)].there
            /\ Moves(j, [job[j] EXCEPT !.pc = "apply", !.todo = staging[Dir(j)].has \cap Listed])
            /\ UNCHANGED staging
         \/ FilesDone(j, TRUE) /\ RemoveStaging(j) /\ ~staging[Dir(j)].there
<1>0. job[j] \in JobType /\ Shape(job[j]) /\ job \in [Jobs -> JobType]
      /\ job[j].pc = "walk" /\ job[j].kind \in {"update", "setup"} /\ job[j].ver # "none"
  BY ReadingJobs DEF JobInv, Walk, Shape
<1>1. staging[Dir(j)].has \subseteq 1..4
  <2>1. Len(Archive) = 4
    BY DEF Archive
  <2> QED BY <2>1 DEF InstallationOK, Dir, Dirs, Entries
<1>2. Archive[1] = ".env" /\ Archive[3] = "bin/openlocalcrm"
      /\ Archive[2] = "Dockerfile.server" /\ Archive[4] = "docker-compose.yml"
  BY DEF Archive
<1> DEFINE listed == {i \in staging[Dir(j)].has : ~IsProtected(Archive[i])
                                               /\ Archive[i] # "bin/openlocalcrm"}
           r == [job[j] EXCEPT !.pc = "apply", !.todo = staging[Dir(j)].has \cap Listed]
<1>3. listed = staging[Dir(j)].has \cap Listed
  <2>1. \A i \in 1..4 : i = 1 \/ i = 2 \/ i = 3 \/ i = 4
    OBVIOUS
  <2> QED BY <1>1, <1>2, <2>1 DEF IsProtected, Listed
<1>4. CASE staging[Dir(j)].there
  <2>1. r \in JobType /\ r.pc = "apply" /\ r.kind = job[j].kind /\ r.ver = job[j].ver
    BY <1>0 DEF JobType, PCs, Listed
  <2>2. Shape(r)
    BY <1>0, <2>1 DEF Shape
  <2>3. job' = [job EXCEPT ![j].pc = "apply", ![j].todo = listed] /\ UNCHANGED staging
    BY <1>4 DEF Walk
  <2>4. job' = [job EXCEPT ![j] = r]
    BY <1>0, <1>3, <2>3
  <2> QED BY <1>4, <2>1, <2>2, <2>3, <2>4 DEF Moves
<1>5. CASE ~staging[Dir(j)].there
  <2>1. AfterFiles(j, TRUE) /\ RemoveStaging(j)
    BY <1>5 DEF Walk
  <2> QED BY <1>0, <1>5, <2>1, AfterFilesMoves
<1> QED BY <1>4, <1>5

LEMMA ApplyFileMoves ==
  ASSUME JobInv, NEW j \in Jobs, NEW ok \in BOOLEAN, ApplyFile(j, ok)
  PROVE  \E i \in job[j].todo :
           /\ i \in Listed /\ Archive[i] \in ProjectFiles
           /\ IF i \in staging[Dir(j)].has THEN Call(ok) ELSE ~ok /\ UNCHANGED budget
           /\ \/ /\ ok
                 /\ Moves(j, [job[j] EXCEPT !.todo = @ \ {i}])
                 /\ files' = [files EXCEPT ![Archive[i]] = job[j].ver]
                 /\ UNCHANGED <<staging, hist, env>>
              \/ /\ ~ok
                 /\ FilesDone(j, TRUE)
                 /\ RemoveStaging(j)
                 /\ hist' = [hist EXCEPT !.torn = TRUE]
                 /\ UNCHANGED <<files, env>>
<1>0. job[j] \in JobType /\ Shape(job[j]) /\ job \in [Jobs -> JobType]
      /\ job[j].pc = "apply" /\ job[j].kind \in {"update", "setup"} /\ job[j].ver # "none"
  BY ReadingJobs DEF JobInv, ApplyFile, Shape
<1>1. PICK i \in job[j].todo :
        /\ IF i \in staging[Dir(j)].has THEN Call(ok) ELSE ~ok /\ UNCHANGED budget
        /\ IF ok
           THEN CopyEntry(j, i)
           ELSE /\ AfterFiles(j, TRUE)
                /\ RemoveStaging(j)
                /\ hist' = [hist EXCEPT !.torn = TRUE]
                /\ UNCHANGED <<files, env>>
  BY DEF ApplyFile
<1>2. i \in Listed /\ Archive[i] \in ProjectFiles /\ Archive[i] # ".env"
  <2>1. i \in {2, 4}
    BY <1>0 DEF JobType
  <2>2. Archive[2] = "Dockerfile.server" /\ Archive[4] = "docker-compose.yml"
    BY DEF Archive
  <2> QED BY <2>1, <2>2 DEF Listed, ProjectFiles
<1>3. CASE ok
  <2> DEFINE r == [job[j] EXCEPT !.todo = @ \ {i}]
  <2>1. r \in JobType /\ r.pc = "apply" /\ r.kind = job[j].kind /\ r.ver = job[j].ver
    BY <1>0 DEF JobType
  <2>2. Shape(r)
    BY <1>0, <2>1 DEF Shape
  <2>3. job' = [job EXCEPT ![j] = r]
    BY <1>0, <1>1, <1>3 DEF CopyEntry
  <2> QED BY <1>1, <1>2, <1>3, <2>1, <2>2, <2>3 DEF CopyEntry, CopyFile, Moves
<1>4. CASE ~ok
  BY <1>0, <1>1, <1>2, <1>4, AfterFilesMoves
<1> QED BY <1>3, <1>4

\* The embedded compose file is put where there is none.
Ensured ==
    \/ UNCHANGED files
    \/ /\ files["docker-compose.yml"] = "none"
       /\ files' = [files EXCEPT !["docker-compose.yml"] = Embedded]

LEMMA EnsureFacts ==
  ASSUME files \in FilesType, EnsureCompose \/ UNCHANGED files
  PROVE  Ensured /\ files' \in FilesType
<1>1. CASE UNCHANGED files
  BY <1>1 DEF Ensured
<1>2. CASE EnsureCompose
  <2>1. "docker-compose.yml" \in ProjectFiles
    BY DEF ProjectFiles
  <2>2. CASE files["docker-compose.yml"] = "none"
    BY <1>2, <2>1, <2>2 DEF EnsureCompose, Ensured, FilesType
  <2>3. CASE files["docker-compose.yml"] # "none"
    <3>1. [files EXCEPT !["docker-compose.yml"] = files["docker-compose.yml"]] = files
      BY <2>1 DEF FilesType
    <3>2. files' = files
      BY <1>2, <2>3, <3>1 DEF EnsureCompose
    <3> QED BY <3>2 DEF Ensured
  <2> QED BY <2>2, <2>3
<1> QED BY <1>1, <1>2

\* What is of one version stays so, and what a walk has written stays.
LEMMA EnsuredKeeps ==
  ASSUME files \in FilesType, Ensured
  PROVE  /\ files' \in FilesType
         /\ OneVersion => OneVersion'
         /\ \A f \in ProjectFiles : files[f] # "none" => files'[f] = files[f]
<1>1. CASE UNCHANGED files
  BY <1>1 DEF OneVersion
<1>2. CASE /\ files["docker-compose.yml"] = "none"
           /\ files' = [files EXCEPT !["docker-compose.yml"] = Embedded]
  <2>1. files' \in FilesType /\ \A f \in ProjectFiles : files[f] # "none" => files'[f] = files[f]
    BY <1>2 DEF FilesType
  <2>2. ASSUME OneVersion PROVE files' = EmbeddedOnly
    <3>1. EmbeddedOnly["docker-compose.yml"] # "none"
      BY DEF EmbeddedOnly, NoFiles, ProjectFiles, Embedded
    <3>2. files["Dockerfile.server"] = "none"
      BY <1>2, <2>2, <3>1 DEF OneVersion
    <3>3. files = NoFiles
      BY <1>2, <3>2 DEF NoFiles, FilesType, ProjectFiles
    <3> QED BY <1>2, <3>3 DEF EmbeddedOnly
  <2> QED BY <2>1, <2>2 DEF OneVersion
<1> QED BY <1>1, <1>2 DEF Ensured

\* The end of an update: its directory goes, and with it, if the control centre
\* restarts itself, the other jobs of the control centre.
UpdateEnds(j, x) ==
    /\ job[j].kind = "update"
    /\ staging' = [staging EXCEPT !["update"] = NoDir]
    /\ \/ j \in GuiJobs /\ job' = NewProcess(job) /\ exe' = Cleanup(x)
       \/ j \notin GuiJobs /\ Moves(j, IdleJob) /\ exe' = x
    /\ Ensured

\* What follows a swap: a rebuild, which starts with a backup, or the end.
AgainJob == [At("update", "create") EXCEPT !.again = TRUE]

SwapDone(j, x) ==
    \/ /\ cont.there /\ job[j].kind = "update" /\ Moves(j, AgainJob)
       /\ exe' = x /\ UNCHANGED <<staging, files>>
    \/ ~cont.there /\ UpdateEnds(j, x)

LEMMA AgainFacts ==
  /\ AgainJob \in JobType /\ Shape(AgainJob) /\ AgainJob.kind = "update" /\ AgainJob.pc = "create"
  /\ AgainJob.again = TRUE /\ AgainJob.snap = NoFile
<1>1. "update" \in Kinds /\ "create" \in PCs
  BY DEF Kinds, PCs
<1>2. At("update", "create") \in JobType /\ At("update", "create").kind = "update"
      /\ At("update", "create").pc = "create" /\ At("update", "create").snap = NoFile
  <2>1. \A kind \in Kinds, pc \in PCs :
          At(kind, pc) \in JobType /\ At(kind, pc).kind = kind
          /\ At(kind, pc).pc = pc /\ At(kind, pc).snap = NoFile
    BY AtFacts
  <2> QED BY <1>1, <2>1
<1>3. /\ AgainJob \in JobType /\ AgainJob.kind = "update" /\ AgainJob.pc = "create"
      /\ AgainJob.again = TRUE /\ AgainJob.snap = NoFile
  BY <1>2 DEF JobType, AgainJob
<1> QED BY <1>3 DEF Shape

LEMMA FinishUpdateMoves ==
  ASSUME JobInv, files \in FilesType, NEW j \in Jobs, NEW x, FinishUpdate(j, x),
         job[j].kind = "update"
  PROVE  UpdateEnds(j, x)
<1>1. Dir(j) = "update"
  BY DEF Dir
<1>2. j \notin GuiJobs => Moves(j, IdleJob)
  BY IdleFacts DEF FinishUpdate, Ends, Moves
<1>3. Ensured
  BY EnsureFacts DEF FinishUpdate, EnsureOnStart
<1> QED BY <1>1, <1>2, <1>3 DEF FinishUpdate, UpdateEnds, RemoveStaging

LEMMA SwapMoves ==
  ASSUME JobInv, files \in FilesType, NEW j \in Jobs, NEW x, AfterSwap(j, x),
         job[j].kind = "update"
  PROVE  SwapDone(j, x)
<1>1. CASE cont.there
  BY <1>1, AgainFacts DEF AfterSwap, SwapDone, Moves, AgainJob
<1>2. CASE ~cont.there
  BY <1>2, FinishUpdateMoves DEF AfterSwap, SwapDone
<1> QED BY <1>1, <1>2

LEMMA ExecutableMoves ==
  ASSUME JobInv, files \in FilesType, NEW j \in Jobs, NEW ok \in BOOLEAN
  PROVE  /\ HotSwap(j, ok) => SwapDone(j, IF ok THEN [exe EXCEPT !.cur = "new"] ELSE exe)
         /\ RenameExecutable(j, ok) =>
               \/ /\ ok /\ exe.cur # "none"
                  /\ Moves(j, [job[j] EXCEPT !.pc = "copy"])
                  /\ exe' = [cur |-> "none", old |-> exe.cur]
                  /\ UNCHANGED <<staging, files>>
               \/ ~ok /\ SwapDone(j, [exe EXCEPT !.old = "none"])
         /\ CopyExecutable(j, ok) =>
               SwapDone(j, IF ok THEN [exe EXCEPT !.cur = "new"] ELSE Rollback)
         /\ Compose(j, ok) =>
               \/ job[j].kind = "update" /\ UpdateEnds(j, exe)
               \/ job[j].kind # "update" /\ Moves(j, IdleJob) /\ UNCHANGED <<staging, exe, files>>
<1>0. job[j] \in JobType /\ Shape(job[j]) /\ job \in [Jobs -> JobType]
  BY ReadingJobs DEF JobInv
<1>1. ASSUME job[j].pc \in {"swap", "copy"} PROVE job[j].kind = "update"
  BY <1>0, <1>1 DEF Shape
<1>2. HotSwap(j, ok) => SwapDone(j, IF ok THEN [exe EXCEPT !.cur = "new"] ELSE exe)
  BY <1>1, SwapMoves DEF HotSwap
<1>3. CopyExecutable(j, ok) => SwapDone(j, IF ok THEN [exe EXCEPT !.cur = "new"] ELSE Rollback)
  BY <1>1, SwapMoves DEF CopyExecutable
<1>4. ASSUME RenameExecutable(j, ok)
      PROVE  \/ /\ ok /\ exe.cur # "none"
                /\ Moves(j, [job[j] EXCEPT !.pc = "copy"])
                /\ exe' = [cur |-> "none", old |-> exe.cur]
                /\ UNCHANGED <<staging, files>>
             \/ ~ok /\ SwapDone(j, [exe EXCEPT !.old = "none"])
  <2>1. CASE ok
    <3> DEFINE r == [job[j] EXCEPT !.pc = "copy"]
    <3>1. r \in JobType /\ r.pc = "copy" /\ r.kind = "update"
      BY <1>0, <1>1, <1>4 DEF JobType, PCs, RenameExecutable
    <3>2. Shape(r)
      BY <3>1 DEF Shape
    <3>3. /\ job' = [job EXCEPT ![j] = r]
          /\ exe' = [cur |-> "none", old |-> exe.cur] /\ UNCHANGED <<staging, files>> /\ exe.cur # "none"
      BY <1>0, <1>4, <2>1 DEF RenameExecutable, Goto
    <3> QED BY <2>1, <3>1, <3>2, <3>3 DEF Moves
  <2>2. CASE ~ok
    BY <1>1, <1>4, <2>2, SwapMoves DEF RenameExecutable
  <2> QED BY <2>1, <2>2
<1>5. ASSUME Compose(j, ok)
      PROVE  \/ job[j].kind = "update" /\ UpdateEnds(j, exe)
             \/ job[j].kind # "update" /\ Moves(j, IdleJob) /\ UNCHANGED <<staging, exe, files>>
  <2>1. CASE job[j].kind = "update"
    BY <1>5, <2>1, FinishUpdateMoves DEF Compose
  <2>2. CASE job[j].kind # "update"
    BY <1>5, <2>2, IdleFacts DEF Compose, Ends, Moves
  <2> QED BY <2>1, <2>2
<1> QED BY <1>2, <1>3, <1>4, <1>5

-----------------------------------------------------------------------------
(* Shapes are kept by every step.                                           *)

\* r is not a restore with an open file.
NotReading(r) == ~(r.kind = "restore" /\ r.pc \in Restoring)

\* r is at most as far in its restore as job j.
ReadsAs(j, r) == /\ job[j].kind = "restore" /\ job[j].pc \in Restoring
                 /\ r.src = job[j].src /\ r.gone = job[j].gone

LEMMA MovesFacts ==
  ASSUME JobInv, NEW j \in Jobs, NEW r, Moves(j, r)
  PROVE  /\ JobInv' /\ job'[j] = r /\ \A k \in Jobs \ {j} : job'[k] = job[k]
         /\ r \in JobType /\ Shape(r)
  BY DEF JobInv, Moves

LEMMA OpenMoves ==
  ASSUME JobInv, OpenFiles, NEW j \in Jobs, NEW r, Moves(j, r),
         \A n \in Names : base[n] # NoFile => base'[n] # NoFile,
         NotReading(r) \/ ReadsAs(j, r) \/ base'[r.src] # NoFile
  PROVE  JobInv' /\ OpenFiles'
<1>1. JobInv' /\ job'[j] = r /\ \A k \in Jobs \ {j} : job'[k] = job[k]
  BY MovesFacts
<1>2. \A k \in Jobs : Shape(job[k])
  BY DEF JobInv
<1>3. \A k \in Jobs : job[k].kind = "restore" /\ job[k].pc \in Restoring => job[k].src \in Names
  BY <1>2 DEF Shape
<1> QED BY <1>1, <1>3 DEF OpenFiles, NotReading, ReadsAs

\* Jobs that stand still or end.
LEMMA OpenEnds ==
  ASSUME JobInv, OpenFiles, job' \in {job, NewProcess(job)},
         \A n \in Names : base[n] # NoFile => base'[n] # NoFile
  PROVE  JobInv' /\ OpenFiles'
<1>1. \A k \in Jobs : Shape(job[k])
  BY DEF JobInv
<1>2. \A k \in Jobs : job[k].kind = "restore" /\ job[k].pc \in Restoring => job[k].src \in Names
  BY <1>1 DEF Shape
<1>3. CASE job' = job
  BY <1>2, <1>3 DEF OpenFiles, JobInv
<1>4. CASE job' = NewProcess(job)
  <2>1. IdleJob.pc \notin Restoring
    BY DEF IdleJob, Restoring
  <2> QED BY <1>2, <1>4, <2>1, NewProcessJobs DEF OpenFiles, JobInv
<1> QED BY <1>3, <1>4

LEMMA DoneIsClosed ==
  ASSUME JobInv, OpenFiles, UNCHANGED base, NEW j \in Jobs, NEW error,
         FilesDone(j, error)
  PROVE  JobInv' /\ OpenFiles'
<1>1. {"setup", "update"} \subseteq Kinds /\ {"config", "compose", "swap"} \subseteq PCs
  BY DEF Kinds, PCs
<1>2. NotReading(IdleJob) /\ NotReading(At("setup", "config"))
      /\ NotReading(At("setup", "compose")) /\ NotReading(At("update", "swap"))
  <2>1. \A kind \in {"setup", "update"}, pc \in {"config", "compose", "swap"} : At(kind, pc).kind = kind
    BY <1>1, AtFacts
  <2>2. IdleJob.kind = "none"
    BY DEF IdleJob
  <2> QED BY <2>1, <2>2 DEF NotReading
<1> QED BY <1>2, OpenMoves DEF FilesDone

LEMMA UpdateEndIsClosed ==
  ASSUME JobInv, OpenFiles, UNCHANGED base, NEW j \in Jobs, NEW x, UpdateEnds(j, x)
  PROVE  JobInv' /\ OpenFiles'
<1>1. NotReading(IdleJob)
  BY DEF NotReading, IdleJob
<1> QED BY <1>1, OpenMoves, OpenEnds DEF UpdateEnds

LEMMA SwapEndIsClosed ==
  ASSUME JobInv, OpenFiles, UNCHANGED base, NEW j \in Jobs, NEW x, SwapDone(j, x)
  PROVE  JobInv' /\ OpenFiles'
<1>1. NotReading(AgainJob)
  BY AgainFacts DEF NotReading
<1> QED BY <1>1, OpenMoves, UpdateEndIsClosed DEF SwapDone

LEMMA OnwardIsClosed ==
  ASSUME NEW j \in Jobs, NEW r, Onward(j, r)
  PROVE  NotReading(r)
<1>1. {"rebuild", "update"} \subseteq Kinds /\ {"compose", "download"} \subseteq PCs
  BY DEF Kinds, PCs
<1>2. \A kind \in {"rebuild", "update"}, pc \in {"compose", "download"} : At(kind, pc).kind = kind
  BY <1>1, AtFacts
<1> QED BY <1>2 DEF Onward, NotReading, IdleJob

\* Steps of a backup and a restore.
LEMMA BackupStepTyped ==
  ASSUME TypeInv, NEW j \in Jobs
  PROVE  /\ \A ok \in BOOLEAN : CreateFile(j, ok) => TypeInv'
         /\ \A data \in {vol.data, Partial}, ok \in BOOLEAN : DumpSucceeds(j, data, ok) => TypeInv'
         /\ DumpFails(j) => TypeInv'
<1> USE DEF TypeInv
<1>0. /\ vol.data \in Data /\ Partial \in Data /\ Partial # NoFile
      /\ job[j] \in JobType /\ Shape(job[j]) /\ clock \in Names
  BY DataFacts, ReadingJobs DEF InstallationOK, BackupFilesOK
<1>1. ASSUME NEW ok \in BOOLEAN, CreateFile(j, ok) PROVE TypeInv'
  <2>1. InstallationOK' /\ UNCHANGED <<env, cont>>
    BY <1>1 DEF CreateFile, EngineFrame, InstallationOK
  <2>2. BackupFilesOK' /\ \A n \in Names : base[n] # NoFile => base'[n] # NoFile
    BY <1>0, <1>1 DEF CreateFile, EngineFrame, BackupFilesOK
  <2>3. CountersOK'
    BY <1>1, <2>1, CallKeepsCounters DEF CreateFile
  <2>4. hist' \in HistType
    BY <1>0, <1>1 DEF CreateFile, HistType
  <2>5. PICK r : /\ Moves(j, r)
                 /\ ok => r = [job[j] EXCEPT !.pc = "dump", !.name = clock]
                 /\ ~ok => \/ Onward(j, r)
                           \/ r = [job[j] EXCEPT !.pc = "stop"] /\ job[j].kind = "restore"
    BY <1>0, <1>1, CreateFileMoves
  <2>6. job[j].pc = "create"
    BY <1>1 DEF CreateFile
  <2>7. NotReading(r) \/ ReadsAs(j, r)
    <3>1. CASE Onward(j, r)
      BY <3>1, OnwardIsClosed
    <3>2. CASE ~Onward(j, r)
      BY <1>0, <2>5, <2>6, <3>2 DEF NotReading, ReadsAs, Restoring, JobType
    <3> QED BY <3>1, <3>2
  <2>8. JobInv' /\ OpenFiles'
    BY <2>2, <2>5, <2>7, OpenMoves
  <2> QED BY <2>1, <2>2, <2>3, <2>4, <2>8
<1>2. ASSUME NEW data \in {vol.data, Partial}, NEW ok \in BOOLEAN, DumpSucceeds(j, data, ok)
      PROVE  TypeInv'
  <2>0. data \in Data /\ data # NoFile /\ job[j].pc = "dump" /\ job[j].name \in Names
    BY <1>0, <1>2, DataFacts DEF DumpSucceeds, Shape
  <2>1. InstallationOK' /\ UNCHANGED <<env, cont>>
    BY <1>2 DEF DumpSucceeds, EngineFrame, InstallationOK
  <2>2. BackupFilesOK' /\ \A n \in Names : base[n] # NoFile => base'[n] # NoFile
    <3>1. base' = [base EXCEPT ![job[j].name] = data] /\ UNCHANGED clock
      BY <1>2 DEF DumpSucceeds, EngineFrame
    <3>2. base' \in [Names -> Data \cup {NoFile}] /\ \A n \in Names : base[n] # NoFile => base'[n] # NoFile
      BY <2>0, <3>1 DEF BackupFilesOK
    <3>3. mirror' = mirror \/ mirror' = [mirror EXCEPT ![job[j].name] = base'[job[j].name]]
      BY <1>2 DEF DumpSucceeds, Mirror
    <3> QED BY <2>0, <3>1, <3>2, <3>3 DEF BackupFilesOK
  <2>3. CountersOK'
    BY <1>2, <2>1, CallKeepsCounters DEF DumpSucceeds
  <2>4. hist' \in HistType
    <3>1. hist.reported \cup {<<job[j].name, data>>} \subseteq Names \X Data
      BY <2>0 DEF HistType
    <3>2. (IF ok THEN hist.unmirrored ELSE hist.unmirrored \cup {job[j].name}) \subseteq Names
      BY <2>0 DEF HistType
    <3>3. hist' = [hist EXCEPT !.reported = hist.reported \cup {<<job[j].name, data>>},
                     !.unmirrored = IF ok THEN hist.unmirrored ELSE hist.unmirrored \cup {job[j].name}]
      BY <1>2 DEF DumpSucceeds
    <3> QED BY <3>1, <3>2, <3>3 DEF HistType
  <2>5. PICK r : /\ Moves(j, r)
                 /\ \/ Onward(j, r)
                    \/ /\ r = [job[j] EXCEPT !.pc = "stop", !.snap = data]
                       /\ job[j].kind = "restore"
    BY <1>2, <2>0, DumpSucceedsMoves
  <2>7. NotReading(r) \/ ReadsAs(j, r)
    <3>1. CASE Onward(j, r)
      BY <3>1, OnwardIsClosed
    <3>2. CASE ~Onward(j, r)
      BY <1>0, <2>0, <2>5, <3>2 DEF NotReading, ReadsAs, Restoring, JobType
    <3> QED BY <3>1, <3>2
  <2>8. JobInv' /\ OpenFiles'
    BY <2>2, <2>5, <2>7, OpenMoves
  <2> QED BY <2>1, <2>2, <2>3, <2>4, <2>8
<1>3. ASSUME DumpFails(j) PROVE TypeInv'
  <2>0. job[j].pc = "dump" /\ job[j].name \in Names
    BY <1>0, <1>3 DEF DumpFails, Shape
  <2> DEFINE n == job[j].name
  <2>1. InstallationOK' /\ UNCHANGED <<env, cont, hist>>
    BY <1>3 DEF DumpFails, EngineFrame, InstallationOK
  <2>2. BackupFilesOK' /\ \A m \in Names \ {n} : base'[m] = base[m]
    BY <2>0, <1>3 DEF DumpFails, EngineFrame, BackupFilesOK
  <2>3. CountersOK'
    BY <1>3, <2>1, ExecKeepsCounters DEF DumpFails
  <2>5. PICK r \in JobType :
           /\ Shape(r)
           /\ job' = [Noticed(n) EXCEPT ![j] = r]
           /\ \/ Onward(j, r)
              \/ /\ r = [Noticed(n)[j] EXCEPT !.pc = "stop"]
                 /\ job[j].kind = "restore"
    BY <1>3, DumpFailsMoves
  <2>6. /\ Noticed(n) \in [Jobs -> JobType]
        /\ \A k \in Jobs : /\ Shape(Noticed(n)[k])
                           /\ Noticed(n)[k] = [job[k] EXCEPT !.gone = @ \/ job[k].src = n]
    BY <2>0, NoticedFacts
  <2>7. JobInv'
    <3> HIDE DEF n
    <3> QED BY <2>5, <2>6 DEF JobInv
  <2>8. \A k \in Jobs : NotReading(job'[k]) \/ (/\ job[k].kind = "restore" /\ job[k].pc \in Restoring
                                                /\ job'[k].src = job[k].src
                                                /\ job'[k].gone = (job[k].gone \/ job[k].src = n))
    <3> SUFFICES ASSUME NEW k \in Jobs, ~NotReading(job'[k])
                 PROVE  /\ job[k].kind = "restore" /\ job[k].pc \in Restoring
                        /\ job'[k].src = job[k].src
                        /\ job'[k].gone = (job[k].gone \/ job[k].src = n)
      OBVIOUS
    <3>1. job[k] \in JobType
      BY ReadingJobs
    <3>2. CASE k # j
      <4>1. job'[k] = [job[k] EXCEPT !.gone = @ \/ job[k].src = n]
        BY <2>5, <2>6, <3>2
      <4> HIDE DEF n
      <4> QED BY <3>1, <4>1 DEF NotReading, JobType
    <3>3. CASE k = j
      <4>1. job'[j] = r /\ ~Onward(j, r)
        BY <2>5, <2>6, <3>3, OnwardIsClosed
      <4>2. r = [[job[j] EXCEPT !.gone = @ \/ job[j].src = n] EXCEPT !.pc = "stop"]
            /\ job[j].kind = "restore"
        BY <2>5, <2>6, <4>1
      <4> QED BY <1>0, <2>0, <3>3, <4>1, <4>2 DEF JobType, Restoring
    <3> QED BY <3>2, <3>3
  <2>9. OpenFiles'
    <3>1. \A k \in Jobs : job[k].kind = "restore" /\ job[k].pc \in Restoring => job[k].src \in Names
      BY ReadingJobs DEF Shape
    <3> HIDE DEF n
    <3> QED BY <2>2, <2>8, <3>1 DEF OpenFiles, NotReading
  <2> QED BY <2>1, <2>2, <2>3, <2>7, <2>9
<1> QED BY <1>1, <1>2, <1>3

LEMMA RestoreStepTyped ==
  ASSUME TypeInv, SnapInv, NEW j \in Jobs
  PROVE  /\ \A n \in Names : OpenBackup(j, n) => TypeInv'
         /\ \A ok \in BOOLEAN : StopApp(j, ok) \/ DropSchema(j, ok) \/ StartApp(j, ok) => TypeInv'
         /\ \A result \in {"ok", "statements", "failed"} : Import(j, result) => TypeInv'
<1> USE DEF TypeInv
<1>0. /\ vol \in [there : BOOLEAN, pw : Passwords, data : Data]
      /\ Partial \in Data /\ Empty \in Data /\ Partial # NoFile
      /\ job[j] \in JobType /\ Shape(job[j])
  BY DataFacts, ReadingJobs DEF InstallationOK
<1>1. NotReading(IdleJob) /\ NotReading(At("restore", "start"))
  <2>1. "restore" \in Kinds /\ "start" \in PCs
    BY DEF Kinds, PCs
  <2>2. At("restore", "start").pc = "start"
    BY <2>1, AtFacts
  <2> QED BY <2>2 DEF NotReading, Restoring, IdleJob
\* What a restore notes about the data it takes away.
<1>2. ASSUME TakesAway(j) PROVE hist' \in HistType
  <2>1. CASE vol.data \in {Empty, Partial} \/ vol.data # job[j].snap
    <3>1. hist' = [hist EXCEPT !.lost = hist.lost]
      BY <1>2, <2>1 DEF TakesAway
    <3> QED BY <3>1 DEF HistType
  <2>2. CASE ~(vol.data \in {Empty, Partial} \/ vol.data # job[j].snap)
    <3>1. hist' = [hist EXCEPT !.lost = hist.lost \cup {<<job[j].name, vol.data>>}]
      BY <1>2, <2>2 DEF TakesAway
    <3>2. vol.data # NoFile /\ job[j].snap # NoFile
      BY <1>0, <2>2, DataFacts
    <3>3. job[j].name \in Names
      <4>1. <<job[j].name, job[j].snap>> \in hist.reported
        BY <3>2 DEF SnapInv
      <4>2. hist.reported \subseteq Names \X Data
        BY DEF HistType
      <4> QED BY <4>1, <4>2
    <3>4. hist.lost \cup {<<job[j].name, vol.data>>} \in SUBSET (Names \X Data)
      BY <1>0, <3>3 DEF HistType
    <3> QED BY <3>1, <3>4 DEF HistType
  <2> QED BY <2>1, <2>2
<1>3. ASSUME NEW n \in Names, OpenBackup(j, n) PROVE TypeInv'
  <2>1. InstallationOK' /\ UNCHANGED <<env, cont>> /\ Locate(n) \in Data \cup {NoFile}
    BY <1>3 DEF OpenBackup, EngineFrame, InstallationOK, BackupFilesOK, Locate
  <2>2. /\ BackupFilesOK' /\ base'[n] = Locate(n)
        /\ \A m \in Names : base[m] # NoFile => base'[m] # NoFile
    BY <1>3, <2>1 DEF OpenBackup, EngineFrame, BackupFilesOK, Locate
  <2>3. CountersOK'
    BY <1>3, <2>1, AskedKeepsCounters DEF OpenBackup
  <2>4. hist' \in HistType
    BY <1>3 DEF OpenBackup, HistType
  <2>5. JobInv' /\ OpenFiles'
    <3> DEFINE r == [IdleJob EXCEPT !.kind = "restore", !.pc = "create", !.src = n, !.want = Locate(n)]
    <3>1. r.src = n
      BY IdleFacts DEF JobType
    <3>2. CASE UNCHANGED job
      BY <2>2, <3>2, OpenEnds
    <3>3. CASE Locate(n) # NoFile /\ Moves(j, r)
      BY <2>2, <3>1, <3>3, OpenMoves
    <3> QED BY <1>3, <3>2, <3>3, OpenBackupMoves
  <2> QED BY <2>1, <2>2, <2>3, <2>4, <2>5
<1>4. ASSUME NEW ok \in BOOLEAN, StopApp(j, ok) PROVE TypeInv'
  <2>1. InstallationOK' /\ UNCHANGED <<env, cont, hist>> /\ BackupFilesOK' /\ UNCHANGED base
    BY <1>4 DEF StopApp, EngineFrame, InstallationOK, BackupFilesOK
  <2>2. CountersOK'
    BY <1>4, <2>1, ComposeCalls, CallKeepsCounters DEF StopApp
  <2>3. Moves(j, [job[j] EXCEPT !.pc = "drop"]) /\ job[j].pc = "stop" /\ job[j].kind = "restore"
    BY <1>0, <1>4, RestoreMoves DEF StopApp, Shape
  <2>4. ReadsAs(j, [job[j] EXCEPT !.pc = "drop"])
    BY <1>0, <2>3 DEF ReadsAs, JobType, Restoring
  <2>5. JobInv' /\ OpenFiles'
    BY <2>1, <2>3, <2>4, OpenMoves
  <2> QED BY <2>1, <2>2, <2>5
<1>5. ASSUME NEW ok \in BOOLEAN, DropSchema(j, ok) PROVE TypeInv'
  <2>1. InstallationOK' /\ UNCHANGED <<env, cont>> /\ BackupFilesOK' /\ UNCHANGED base
    BY <1>0, <1>5 DEF DropSchema, EngineFrame, InstallationOK, BackupFilesOK
  <2>2. CountersOK'
    BY <1>5, <2>1, ExecKeepsCounters DEF DropSchema
  <2>3. Moves(j, [job[j] EXCEPT !.pc = "import"]) /\ job[j].pc = "drop" /\ job[j].kind = "restore"
    BY <1>0, <1>5, RestoreMoves DEF DropSchema, Shape
  <2>4. ReadsAs(j, [job[j] EXCEPT !.pc = "import"])
    BY <1>0, <2>3 DEF ReadsAs, JobType, Restoring
  <2>5. JobInv' /\ OpenFiles'
    BY <2>1, <2>3, <2>4, OpenMoves
  <2>6. hist' \in HistType
    BY <1>2, <1>5 DEF DropSchema
  <2> QED BY <2>1, <2>2, <2>5, <2>6
<1>6. ASSUME NEW ok \in BOOLEAN, StartApp(j, ok) PROVE TypeInv'
  <2>1. /\ vol' \in [there : BOOLEAN, pw : Passwords, data : Data]
        /\ cont' \in [there : BOOLEAN, pw : Passwords]
        /\ runs' \in [db : BOOLEAN, app : BOOLEAN]
        /\ runs'.db => vol'.there
        /\ cont'.pw \in {cont.pw, env, NoPassword, DefaultPassword}
    <3>1. Up(TRUE) \/ NotUp
      BY <1>6 DEF StartApp
    <3> QED BY <3>1, UpFacts DEF NotUp, InstallationOK
  <2>2. InstallationOK' /\ UNCHANGED <<env, base, hist>> /\ BackupFilesOK'
    BY <1>6, <2>1 DEF StartApp, EngineFrame, InstallationOK, BackupFilesOK
  <2>3. CountersOK'
    BY <1>6, <2>1, <2>2, ComposeCalls, CallKeepsCounters DEF StartApp
  <2>4. JobInv' /\ OpenFiles'
    BY <1>1, <1>6, <2>2, RestoreMoves, OpenMoves
  <2> QED BY <2>2, <2>3, <2>4
<1>7. ASSUME NEW result \in {"ok", "statements", "failed"}, Import(j, result) PROVE TypeInv'
  <2>0. job[j].pc = "import" /\ job[j].kind = "restore" /\ job[j].src \in Names
    BY <1>0, <1>7 DEF Import, Shape, Restoring
  <2>1. result = "ok" => Bytes(j) \in Data
    BY <1>0, <2>0 DEF Bytes, OpenFiles, BackupFilesOK, Restoring
  <2>2. vol' \in [there : BOOLEAN, pw : Passwords, data : Data] /\ vol'.there = vol.there
    BY <1>0, <1>7, <2>1 DEF Import
  <2>3. InstallationOK' /\ UNCHANGED <<env, cont, base>> /\ BackupFilesOK'
    BY <1>7, <2>2 DEF Import, EngineFrame, InstallationOK, BackupFilesOK
  <2>4. CountersOK'
    BY <1>7, <2>3, ExecKeepsCounters DEF Import
  <2>5. JobInv' /\ OpenFiles'
    BY <1>1, <1>7, <2>3, RestoreMoves, OpenMoves
  <2>6. hist' \in HistType
    BY <1>2, <1>7 DEF Import
  <2> QED BY <2>3, <2>4, <2>5, <2>6
<1> QED BY <1>3, <1>4, <1>5, <1>6, <1>7

\* Requests, commands and the steps of a setup.
LEMMA RequestTyped ==
  ASSUME TypeInv, NEW j \in Jobs
  PROVE  /\ \A kind \in {"backup", "update", "rebuild"} : Request(j, kind) => TypeInv'
         /\ handleSetup(j) \/ commandInstall(j) => TypeInv'
         /\ EnsureProjectFiles(j) \/ InstallConfig(j) => TypeInv'
<1> USE DEF TypeInv
<1>0. /\ job[j] \in JobType /\ Shape(job[j]) /\ env \in Passwords /\ env <= budget.pw
      /\ budget \in BudgetType /\ budget.ops \in Nat /\ budget.faults \in Nat
  BY ReadingJobs DEF InstallationOK, CountersOK, PasswordsLeft, BudgetType
<1>1. ASSUME ConfigFrame PROVE BackupFilesOK' /\ UNCHANGED <<base, cont>>
  BY <1>1 DEF ConfigFrame, BackupFilesOK
<1>2. ASSUME ConfigFrame, files' \in FilesType, env' \in Passwords PROVE InstallationOK'
  BY <1>2 DEF ConfigFrame, InstallationOK, FilesType
<1>12. RequestFrame => ConfigFrame /\ files' \in FilesType
  BY DEF RequestFrame, InstallationOK, FilesType
\* A configuration is written over the one that is there, or for the first time.
<1>3. ASSUME NEW counters, counters = budget \/ (counters = OneMore("ops") /\ budget.ops < MaxOps),
             WriteConfig(ReadExistingEnv, counters), UNCHANGED cont
      PROVE  CountersOK' /\ env' \in Passwords /\ hist' \in HistType
  <2>1. counters \in BudgetType /\ counters.pw = budget.pw
        /\ counters.ops >= budget.ops /\ counters.faults >= budget.faults
    <3>1. CASE counters = budget
      BY <1>0, <3>1
    <3>2. CASE counters = OneMore("ops") /\ budget.ops < MaxOps
      <4>1. counters = [budget EXCEPT !.ops = @ + 1] /\ counters \in BudgetType
        BY <1>0, <1>3, <3>2, AskedFacts
      <4> QED BY <1>0, <4>1 DEF BudgetType
    <3> QED BY <1>3, <3>1, <3>2
  <2>2. CountersOK' /\ env' \in Passwords
    BY <1>0, <1>3, <2>1, ConfigFacts DEF ReadExistingEnv
  <2>3. hist' \in HistType
    BY <1>3 DEF WriteConfig, HistType, InstallationOK
  <2> QED BY <2>2, <2>3
<1>4. {"backup", "update", "rebuild", "setup"} \subseteq Kinds /\ {"create", "ensure"} \subseteq PCs
  BY DEF Kinds, PCs
<1>5. \A kind \in {"backup", "update", "rebuild"} : NotReading(At(kind, "create"))
  <2>1. \A kind \in {"backup", "update", "rebuild"} : At(kind, "create").kind = kind
    BY <1>4, AtFacts
  <2> QED BY <2>1 DEF NotReading
<1>6. NotReading(At("setup", "ensure"))
  <2>1. \A kind \in {"setup"} : At(kind, "ensure").kind = kind
    BY <1>4, AtFacts
  <2> QED BY <2>1 DEF NotReading
<1>7. ASSUME NEW kind \in {"backup", "update", "rebuild"}, Request(j, kind) PROVE TypeInv'
  <2>1. InstallationOK' /\ BackupFilesOK' /\ UNCHANGED <<base, env, hist, cont>>
    BY <1>0, <1>1, <1>2, <1>12, <1>7 DEF Request
  <2>2. CountersOK'
    BY <1>7, <2>1, AskedKeepsCounters DEF Request
  <2>3. JobInv' /\ OpenFiles'
    BY <1>5, <1>7, <2>1, RequestMoves, OpenMoves
  <2> QED BY <2>1, <2>2, <2>3
<1>8. ASSUME handleSetup(j) PROVE TypeInv'
  <2>1. CountersOK' /\ env' \in Passwords /\ hist' \in HistType
    BY <1>1, <1>3, <1>8, <1>12 DEF handleSetup
  <2>2. InstallationOK' /\ BackupFilesOK' /\ UNCHANGED base
    BY <1>1, <1>2, <1>8, <1>12, <2>1 DEF handleSetup
  <2>3. JobInv' /\ OpenFiles'
    BY <1>6, <1>8, <2>2, RequestMoves, OpenMoves
  <2> QED BY <2>1, <2>2, <2>3
<1>9. ASSUME commandInstall(j) PROVE TypeInv'
  <2>1. InstallationOK' /\ BackupFilesOK' /\ UNCHANGED <<base, env, hist, cont>>
    BY <1>0, <1>1, <1>2, <1>12, <1>9 DEF commandInstall
  <2>2. CountersOK'
    BY <1>9, <2>1, AskedKeepsCounters DEF commandInstall
  <2>3. JobInv' /\ OpenFiles'
    BY <1>6, <1>9, <2>1, RequestMoves, OpenMoves
  <2> QED BY <2>1, <2>2, <2>3
<1>10. ASSUME EnsureProjectFiles(j) PROVE TypeInv'
  <2>1. InstallationOK' /\ BackupFilesOK' /\ UNCHANGED <<base, env, hist, cont, budget>>
    BY <1>0, <1>1, <1>2, <1>12, <1>10 DEF EnsureProjectFiles
  <2>2. CountersOK'
    BY <2>1 DEF CountersOK, PasswordsLeft
  <2>3. job[j].kind = "setup"
    BY <1>0, <1>10 DEF EnsureProjectFiles, Shape
  <2>4. NotReading([job[j] EXCEPT !.pc = "download"])
    BY <1>0, <2>3 DEF NotReading, JobType
  <2>5. JobInv' /\ OpenFiles'
    BY <1>10, <2>1, <2>4, FileMoves, DoneIsClosed, OpenMoves
  <2> QED BY <2>1, <2>2, <2>5
<1>11. ASSUME InstallConfig(j) PROVE TypeInv'
  <2>1. CountersOK' /\ env' \in Passwords /\ hist' \in HistType
    BY <1>1, <1>3, <1>11 DEF InstallConfig
  <2>2. InstallationOK' /\ BackupFilesOK' /\ UNCHANGED base
    <3>1. files \in FilesType
      BY DEF InstallationOK, FilesType
    <3>2. files' \in FilesType
      BY <1>11, <3>1, EnsureFacts DEF InstallConfig
    <3> QED BY <1>1, <1>2, <1>11, <2>1, <3>2 DEF InstallConfig
  <2>3. NotReading([job[j] EXCEPT !.pc = "compose"]) /\ Moves(j, [job[j] EXCEPT !.pc = "compose"])
    BY <1>0, <1>11, RequestMoves DEF NotReading, JobType
  <2>4. JobInv' /\ OpenFiles'
    BY <2>2, <2>3, OpenMoves
  <2> QED BY <2>1, <2>2, <2>4
<1> QED BY <1>7, <1>8, <1>9, <1>10, <1>11

\* Download, extraction and copy of project files.
LEMMA FileStepTyped ==
  ASSUME TypeInv, NEW j \in Jobs
  PROVE  /\ \A result \in {"ok", "main", "failed"} : Download(j, result) => TypeInv'
         /\ \A ok \in BOOLEAN : Extract(j, ok) \/ ApplyFile(j, ok) => TypeInv'
         /\ Walk(j) \/ Applied(j) => TypeInv'
<1> USE DEF TypeInv
<1>0. /\ job[j] \in JobType /\ Shape(job[j])
      /\ staging \in [Dirs -> [there : BOOLEAN, has : SUBSET Entries]]
      /\ Dir(j) \in Dirs
      /\ NoDir \in [there : BOOLEAN, has : SUBSET Entries]
  BY ReadingJobs DEF InstallationOK, Dir, Dirs, NoDir
<1>1. ASSUME FileFrame PROVE BackupFilesOK' /\ UNCHANGED <<base, cont>>
  BY <1>1 DEF FileFrame, BackupFilesOK
<1>2. ASSUME FileFrame, UNCHANGED <<platform, env, exe>>,
             staging' \in [Dirs -> [there : BOOLEAN, has : SUBSET Entries]],
             files' \in FilesType
      PROVE  InstallationOK'
  BY <1>2 DEF FileFrame, InstallationOK, FilesType
<1>3. RemoveStaging(j) \/ UNCHANGED staging =>
        staging' \in [Dirs -> [there : BOOLEAN, has : SUBSET Entries]]
  BY <1>0 DEF RemoveStaging
<1>4. files \in FilesType
  BY DEF InstallationOK, FilesType
<1>5. \A k \in Jobs : job[j].pc \in {"extract", "walk", "apply", "download"} =>
        job[j].kind \in {"update", "setup"}
  BY <1>0 DEF Shape
<1>6. ASSUME NEW result \in {"ok", "main", "failed"}, Download(j, result) PROVE TypeInv'
  <2>1. staging' \in [Dirs -> [there : BOOLEAN, has : SUBSET Entries]]
    <3>1. [there |-> TRUE, has |-> {}] \in [there : BOOLEAN, has : SUBSET Entries]
      OBVIOUS
    <3> QED BY <1>0, <1>6, <3>1 DEF Download
  <2>2. InstallationOK' /\ BackupFilesOK' /\ UNCHANGED <<base, env, cont>>
    BY <1>1, <1>2, <1>4, <1>6, <2>1 DEF Download
  <2>3. CountersOK'
    BY <1>6, <2>2, CallKeepsCounters DEF Download
  <2>4. hist' \in HistType
    BY <1>6 DEF Download, NoteOverlap, HistType
  <2>5. NotReading([job[j] EXCEPT !.pc = "extract", !.ver = ArchiveVersion(j, result)])
    BY <1>0, <1>6 DEF NotReading, JobType, Restoring
  <2>6. JobInv' /\ OpenFiles'
    BY <1>6, <2>2, <2>5, FileMoves, DoneIsClosed, OpenMoves
  <2> QED BY <2>2, <2>3, <2>4, <2>6
<1>7. ASSUME NEW ok \in BOOLEAN, Extract(j, ok) PROVE TypeInv'
  <2>1. staging' \in [Dirs -> [there : BOOLEAN, has : SUBSET Entries]]
    <3>1. CASE ok
      <4>1. staging' = [staging EXCEPT ![Dir(j)] = [there |-> TRUE, has |-> Entries]]
        BY <1>7, <3>1 DEF Extract, Extracted
      <4> QED BY <1>0, <4>1
    <3>2. CASE ~ok
      BY <1>3, <1>7, <3>2 DEF Extract, Extracted
    <3> QED BY <3>1, <3>2
  <2>2. InstallationOK' /\ BackupFilesOK' /\ UNCHANGED <<base, env, cont, hist>>
    BY <1>1, <1>2, <1>4, <1>7, <2>1 DEF Extract
  <2>3. CountersOK'
    BY <1>7, <2>2, CallKeepsCounters DEF Extract
  <2>4. NotReading([job[j] EXCEPT !.pc = "walk"])
    BY <1>0 DEF NotReading, JobType, Restoring
  <2>5. JobInv' /\ OpenFiles'
    BY <1>7, <2>2, <2>4, FileMoves, DoneIsClosed, OpenMoves
  <2> QED BY <2>2, <2>3, <2>5
<1>8. ASSUME NEW ok \in BOOLEAN, ApplyFile(j, ok) PROVE TypeInv'
  <2>1. PICK i \in job[j].todo :
           /\ i \in Listed /\ Archive[i] \in ProjectFiles
           /\ IF i \in staging[Dir(j)].has THEN Call(ok) ELSE ~ok /\ UNCHANGED budget
           /\ \/ /\ ok
                 /\ Moves(j, [job[j] EXCEPT !.todo = @ \ {i}])
                 /\ files' = [files EXCEPT ![Archive[i]] = job[j].ver]
                 /\ UNCHANGED <<staging, hist, env>>
              \/ /\ ~ok
                 /\ FilesDone(j, TRUE)
                 /\ RemoveStaging(j)
                 /\ hist' = [hist EXCEPT !.torn = TRUE]
                 /\ UNCHANGED <<files, env>>
    BY <1>8, ApplyFileMoves
  <2>2. FileFrame /\ UNCHANGED <<platform, exe>> /\ job[j].pc = "apply"
    BY <1>8 DEF ApplyFile
  <2>3. files' \in FilesType /\ UNCHANGED env
    BY <1>0, <1>4, <2>1 DEF JobType, FilesType
  <2>4. InstallationOK' /\ BackupFilesOK' /\ UNCHANGED <<base, cont>>
    BY <1>1, <1>2, <1>3, <2>1, <2>2, <2>3
  <2>5. CountersOK'
    <3>1. CASE Call(ok)
      BY <2>3, <2>4, <3>1, CallKeepsCounters
    <3>2. CASE UNCHANGED budget
      BY <2>3, <2>4, <3>2 DEF CountersOK, PasswordsLeft
    <3> QED BY <2>1, <3>1, <3>2
  <2>6. hist' \in HistType
    BY <2>1 DEF HistType
  <2>7. NotReading([job[j] EXCEPT !.todo = @ \ {i}])
    BY <1>0, <2>2 DEF NotReading, JobType, Restoring
  <2>8. JobInv' /\ OpenFiles'
    BY <2>1, <2>4, <2>7, DoneIsClosed, OpenMoves
  <2> QED BY <2>4, <2>5, <2>6, <2>8
<1>9. ASSUME Walk(j) PROVE TypeInv'
  <2>1. FileFrame /\ UNCHANGED <<platform, env, files, exe, budget, hist>>
    BY <1>9 DEF Walk
  <2>2. CASE /\ staging[Dir(j)].there
             /\ Moves(j, [job[j] EXCEPT !.pc = "apply", !.todo = staging[Dir(j)].has \cap Listed])
             /\ UNCHANGED staging
    <3>1. NotReading([job[j] EXCEPT !.pc = "apply", !.todo = staging[Dir(j)].has \cap Listed])
      BY <1>0 DEF NotReading, JobType, Restoring
    <3>2. InstallationOK' /\ BackupFilesOK' /\ UNCHANGED <<base, cont>>
      BY <1>1, <1>2, <1>3, <1>4, <2>1, <2>2
    <3>3. CountersOK'
      BY <2>1, <3>2 DEF CountersOK, PasswordsLeft
    <3> QED BY <2>1, <2>2, <3>1, <3>2, <3>3, OpenMoves
  <2>3. CASE FilesDone(j, TRUE) /\ RemoveStaging(j)
    <3>2. InstallationOK' /\ BackupFilesOK' /\ UNCHANGED <<base, cont>>
      BY <1>1, <1>2, <1>3, <1>4, <2>1, <2>3
    <3>3. CountersOK'
      BY <2>1, <3>2 DEF CountersOK, PasswordsLeft
    <3> QED BY <2>1, <2>3, <3>2, <3>3, DoneIsClosed
  <2> QED BY <1>9, <2>2, <2>3, WalkMoves
<1>10. ASSUME Applied(j) PROVE TypeInv'
  <2>1. FileFrame /\ UNCHANGED <<platform, env, files, exe, budget, hist>>
        /\ (RemoveStaging(j) \/ UNCHANGED staging)
    BY <1>10 DEF Applied
  <2>2. InstallationOK' /\ BackupFilesOK' /\ UNCHANGED <<base, cont>>
    BY <1>1, <1>2, <1>3, <1>4, <2>1
  <2>3. CountersOK'
    BY <2>1, <2>2 DEF CountersOK, PasswordsLeft
  <2> QED BY <1>10, <2>1, <2>2, <2>3, FileMoves, DoneIsClosed
<1> QED BY <1>6, <1>7, <1>8, <1>9, <1>10

\* Swaps of the executable and the end of an update.
LEMMA ExecutableStepTyped ==
  ASSUME TypeInv, NEW j \in Jobs, NEW ok \in BOOLEAN,
         HotSwap(j, ok) \/ RenameExecutable(j, ok) \/ CopyExecutable(j, ok) \/ Compose(j, ok)
  PROVE  TypeInv'
<1> USE DEF TypeInv
<1> DEFINE Exe == [cur : Versions, old : Versions]
           Staging == [Dirs -> [there : BOOLEAN, has : SUBSET Entries]]
<1>0. /\ job[j] \in JobType /\ Shape(job[j]) /\ staging \in Staging /\ exe \in Exe
      /\ NoDir \in [there : BOOLEAN, has : SUBSET Entries] /\ "update" \in Dirs
      /\ "none" \in Versions /\ "new" \in Versions /\ files \in FilesType
  BY ReadingJobs DEF InstallationOK, Dirs, NoDir, Versions, FilesType
\* Where the executable and the staging directory end up.
<1>1. ASSUME NEW x \in Exe, UpdateEnds(j, x) PROVE exe' \in Exe /\ staging' \in Staging /\ files' \in FilesType
  <2>1. Cleanup(x) \in Exe
    BY <1>0 DEF Cleanup
  <2> QED BY <1>0, <1>1, <2>1, EnsuredKeeps DEF UpdateEnds
<1>2. ASSUME NEW x \in Exe, SwapDone(j, x) PROVE exe' \in Exe /\ staging' \in Staging /\ files' \in FilesType
  BY <1>0, <1>1, <1>2 DEF SwapDone
<1>3. /\ [exe EXCEPT !.cur = "new"] \in Exe
      /\ [exe EXCEPT !.old = "none"] \in Exe
      /\ [cur |-> "none", old |-> exe.cur] \in Exe
      /\ Rollback \in Exe
  BY <1>0 DEF Rollback
<1>4. ASSUME NEW swapping \in BOOLEAN, NEW ended, Note(swapping, ended) PROVE hist' \in HistType
  BY <1>4 DEF Note, HistType
<1>5. ASSUME FileFrame, UNCHANGED env, exe' \in Exe, staging' \in Staging, files' \in FilesType,
             platform' \in {"unsettled", "unix", "windows"}
      PROVE  InstallationOK' /\ BackupFilesOK' /\ UNCHANGED <<base, cont>>
  BY <1>5 DEF FileFrame, InstallationOK, BackupFilesOK, FilesType
<1>6. ASSUME Call(ok) \/ UNCHANGED budget, UNCHANGED <<env, cont>> PROVE CountersOK'
  <2>1. CASE Call(ok)
    BY <1>6, <2>1, CallKeepsCounters
  <2>2. CASE UNCHANGED budget
    BY <1>6, <2>2 DEF CountersOK, PasswordsLeft
  <2> QED BY <1>6, <2>1, <2>2
<1>7. CASE HotSwap(j, ok)
  <2> DEFINE x == IF ok THEN [exe EXCEPT !.cur = "new"] ELSE exe
  <2>1. SwapDone(j, x) /\ x \in Exe
    BY <1>0, <1>3, <1>7, ExecutableMoves
  <2>2. exe' \in Exe /\ staging' \in Staging /\ files' \in FilesType
    BY <1>2, <2>1
  <2>3. platform' \in {"unsettled", "unix", "windows"}
    BY <1>7 DEF HotSwap, InstallationOK
  <2>4. InstallationOK' /\ BackupFilesOK' /\ UNCHANGED <<base, cont, env>>
    BY <1>5, <1>7, <2>2, <2>3 DEF HotSwap
  <2>5. CountersOK' /\ hist' \in HistType
    BY <1>4, <1>6, <1>7, <2>4 DEF HotSwap
  <2> QED BY <2>1, <2>4, <2>5, SwapEndIsClosed
<1>8. CASE RenameExecutable(j, ok)
  <2>0. job[j].pc = "swap"
    BY <1>8 DEF RenameExecutable
  <2>1. platform' \in {"unsettled", "unix", "windows"}
    BY <1>8 DEF RenameExecutable
  <2>2. CASE SwapDone(j, [exe EXCEPT !.old = "none"])
    <3>1. exe' \in Exe /\ staging' \in Staging /\ files' \in FilesType
      BY <1>2, <1>3, <2>2
    <3>2. InstallationOK' /\ BackupFilesOK' /\ UNCHANGED <<base, cont, env>>
      BY <1>5, <1>8, <2>1, <3>1 DEF RenameExecutable
    <3>3. CountersOK' /\ hist' \in HistType
      BY <1>4, <1>6, <1>8, <3>2 DEF RenameExecutable
    <3> QED BY <2>2, <3>2, <3>3, SwapEndIsClosed
  <2>3. CASE /\ Moves(j, [job[j] EXCEPT !.pc = "copy"])
             /\ exe' = [cur |-> "none", old |-> exe.cur]
             /\ UNCHANGED <<staging, files>>
    <3>1. NotReading([job[j] EXCEPT !.pc = "copy"])
      BY <1>0 DEF NotReading, JobType, Restoring
    <3>2. InstallationOK' /\ BackupFilesOK' /\ UNCHANGED <<base, cont, env>>
      BY <1>0, <1>3, <1>5, <1>8, <2>1, <2>3 DEF RenameExecutable
    <3>3. CountersOK' /\ hist' \in HistType
      BY <1>4, <1>6, <1>8, <3>2 DEF RenameExecutable
    <3> QED BY <2>3, <3>1, <3>2, <3>3, OpenMoves
  <2> QED BY <1>0, <1>8, <2>2, <2>3, ExecutableMoves
<1>9. CASE CopyExecutable(j, ok)
  <2> DEFINE x == IF ok THEN [exe EXCEPT !.cur = "new"] ELSE Rollback
  <2>1. SwapDone(j, x) /\ x \in Exe
    BY <1>0, <1>3, <1>9, ExecutableMoves
  <2>2. exe' \in Exe /\ staging' \in Staging /\ files' \in FilesType
    BY <1>2, <2>1
  <2>3. platform' \in {"unsettled", "unix", "windows"}
    BY <1>9 DEF CopyExecutable, InstallationOK
  <2>4. InstallationOK' /\ BackupFilesOK' /\ UNCHANGED <<base, cont, env>>
    BY <1>5, <1>9, <2>2, <2>3 DEF CopyExecutable
  <2>5. CountersOK' /\ hist' \in HistType
    BY <1>4, <1>6, <1>9, <2>4 DEF CopyExecutable
  <2> QED BY <2>1, <2>4, <2>5, SwapEndIsClosed
<1>10. CASE Compose(j, ok)
  <2>1. exe' \in Exe /\ staging' \in Staging /\ files' \in FilesType
    BY <1>0, <1>1, <1>10, ExecutableMoves
  <2>2. /\ vol' \in [there : BOOLEAN, pw : Passwords, data : Data]
        /\ cont' \in [there : BOOLEAN, pw : Passwords]
        /\ runs' \in [db : BOOLEAN, app : BOOLEAN]
        /\ runs'.db => vol'.there
        /\ cont'.pw \in {cont.pw, env, NoPassword, DefaultPassword}
    <3>1. Up(TRUE) \/ NotUp
      BY <1>10 DEF Compose
    <3> QED BY <3>1, UpFacts DEF NotUp, InstallationOK
  <2>3. InstallationOK' /\ BackupFilesOK' /\ UNCHANGED <<base, env>>
    BY <1>10, <2>1, <2>2 DEF Compose, InstallationOK, BackupFilesOK, FilesType
  <2>4. CountersOK'
    BY <1>10, <2>2, <2>3, ComposeCalls, CallKeepsCounters DEF Compose
  <2>5. hist' \in HistType
    BY <1>4, <1>10 DEF Compose
  <2>6. NotReading(IdleJob)
    BY DEF NotReading, IdleJob
  <2> QED BY <1>0, <1>10, <2>3, <2>4, <2>5, <2>6, ExecutableMoves, UpdateEndIsClosed, OpenMoves
<1> QED BY <1>7, <1>8, <1>9, <1>10

\* Everything that is not a step of a job.
LEMMA ControlTyped ==
  ASSUME TypeInv
  PROVE  /\ handleControl \/ handleStatus \/ handleSettingsImport \/ handleBackupsList => TypeInv'
         /\ \A n \in Names, data \in {1, Partial} : handleBackupUpload(n, data) => TypeInv'
         /\ AppWrite \/ Tick \/ Quit \/ Open \/ DirectoryLost => TypeInv'
<1> USE DEF TypeInv
<1>0. /\ env \in Passwords /\ env <= budget.pw /\ cont.pw <= budget.pw
      /\ budget \in BudgetType /\ budget.ops \in Nat /\ budget.faults \in Nat
      /\ NoPassword \in Passwords /\ cont \in [there : BOOLEAN, pw : Passwords]
      /\ vol \in [there : BOOLEAN, pw : Passwords, data : Data]
      /\ runs \in [db : BOOLEAN, app : BOOLEAN]
  BY LauncherBounds DEF InstallationOK, CountersOK, PasswordsLeft, BudgetType, NoPassword, Passwords,
     ShippedPassword
\* The engine: containers and volume.
<1>1. ASSUME ControlFrame, UNCHANGED env,
             /\ vol' \in [there : BOOLEAN, pw : Passwords, data : Data]
             /\ cont' \in [there : BOOLEAN, pw : Passwords]
             /\ runs' \in [db : BOOLEAN, app : BOOLEAN]
             /\ runs'.db => vol'.there
      PROVE  /\ InstallationOK' /\ BackupFilesOK' /\ JobInv' /\ OpenFiles' /\ hist' \in HistType
  <2>1. UNCHANGED <<job, base>>
    BY <1>1 DEF ControlFrame
  <2>2. JobInv' /\ OpenFiles'
    BY <2>1, OpenEnds
  <2> QED BY <1>1, <2>2 DEF ControlFrame, InstallationOK, BackupFilesOK
\* A call that counts as a request and may fail.
<1>2. ASSUME budget.ops < MaxOps, NEW ok \in BOOLEAN, ok \/ budget.faults < MaxFaults,
             budget' = [budget EXCEPT !.ops = @ + 1, !.faults = IF ok THEN @ ELSE @ + 1],
             cont'.pw \in {cont.pw, env, NoPassword, DefaultPassword}
      PROVE  /\ UNCHANGED env => CountersOK'
             /\ env' = NoPassword => CountersOK'
  <2>1. budget' \in BudgetType
    BY <1>0, <1>2, AskedFacts
  <2>2. /\ budget'.pw = budget.pw /\ budget'.ops = budget.ops + 1
        /\ budget'.faults = budget.faults + (IF ok THEN 0 ELSE 1)
    BY <1>0, <1>2 DEF BudgetType
  <2>3. UNCHANGED env => CountersOK'
    BY <1>0, <1>2, <2>1, <2>2, CountersKept
  <2>4. budget.pw \in Nat /\ budget.pw <= 3 + budget.ops + budget.faults
    BY <1>0 DEF CountersOK, PasswordsLeft, BudgetType
  <2>5. env' = NoPassword => CountersOK'
    BY <1>0, <1>2, <2>1, <2>2, <2>4 DEF CountersOK, PasswordsLeft, NoPassword, DefaultPassword, Passwords
  <2> QED BY <2>3, <2>5
<1>3. CASE Start
  <2>1. /\ vol' \in [there : BOOLEAN, pw : Passwords, data : Data]
        /\ cont' \in [there : BOOLEAN, pw : Passwords]
        /\ runs' \in [db : BOOLEAN, app : BOOLEAN]
        /\ runs'.db => vol'.there
        /\ cont'.pw \in {cont.pw, env, NoPassword, DefaultPassword}
    BY <1>3, UpFacts DEF Start
  <2> QED BY <1>1, <1>3, <2>1, AskedKeepsCounters DEF Start
<1>4. CASE Stop
  <2>1. /\ vol' \in [there : BOOLEAN, pw : Passwords, data : Data]
        /\ cont' \in [there : BOOLEAN, pw : Passwords]
        /\ runs' \in [db : BOOLEAN, app : BOOLEAN] /\ ~runs'.db /\ UNCHANGED <<env, cont>>
    BY <1>0, <1>4 DEF Stop
  <2> QED BY <1>1, <1>4, <2>1, AskedKeepsCounters DEF Stop
<1>5. CASE Restart
  <2>1. /\ vol' \in [there : BOOLEAN, pw : Passwords, data : Data]
        /\ cont' \in [there : BOOLEAN, pw : Passwords]
        /\ runs' \in [db : BOOLEAN, app : BOOLEAN] /\ (runs'.db => vol'.there)
        /\ UNCHANGED <<env, cont>>
    BY <1>0, <1>5 DEF Restart
  <2> QED BY <1>1, <1>5, <2>1, AskedKeepsCounters DEF Restart
<1>6. CASE Down
  <2>1. /\ vol' \in [there : BOOLEAN, pw : Passwords, data : Data]
        /\ cont' \in [there : BOOLEAN, pw : Passwords] /\ cont'.pw = NoPassword
        /\ runs' \in [db : BOOLEAN, app : BOOLEAN] /\ ~runs'.db /\ UNCHANGED env
    BY <1>0, <1>6 DEF Down
  <2> QED BY <1>1, <1>6, <2>1, AskedKeepsCounters DEF Down
<1>7. ASSUME NEW ok \in BOOLEAN, ResetAll(ok) PROVE TypeInv'
  <2>1. /\ vol' \in [there : BOOLEAN, pw : Passwords, data : Data]
        /\ cont' \in [there : BOOLEAN, pw : Passwords]
        /\ runs' \in [db : BOOLEAN, app : BOOLEAN]
        /\ runs'.db => vol'.there
        /\ cont'.pw \in {cont.pw, env, NoPassword, DefaultPassword} /\ env' = NoPassword
    <3>1. env' = NoPassword
      BY <1>7 DEF ResetAll
    <3>2. CASE ok
      <4>1. /\ runs' = [db |-> FALSE, app |-> FALSE]
            /\ cont' = [there |-> FALSE, pw |-> NoPassword]
            /\ vol' = [there |-> FALSE, pw |-> NoPassword, data |-> Empty]
        BY <1>7, <3>2 DEF ResetAll
      <4> QED BY <1>0, <3>1, <4>1, DataFacts
    <3>3. CASE ~ok
      <4>1. NotUp
        BY <1>7, <3>3 DEF ResetAll
      <4>2. UNCHANGED vol /\ UNCHANGED cont /\ UNCHANGED runs
        BY <4>1 DEF NotUp
      <4>3. runs.db => vol.there
        BY DEF InstallationOK
      <4> QED BY <1>0, <3>1, <4>2, <4>3
    <3> QED BY <3>2, <3>3
  <2>2. CountersOK'
    BY <1>2, <1>7, <2>1 DEF ResetAll
  <2>3. UNCHANGED <<job, base>>
    BY <1>7 DEF ResetAll, ControlFrame
  <2>4. InstallationOK' /\ BackupFilesOK' /\ hist' \in HistType
    BY <1>0, <1>7, <2>1 DEF ResetAll, ControlFrame, InstallationOK, BackupFilesOK
  <2> QED BY <2>2, <2>3, <2>4, OpenEnds
<1>8. ASSUME DirFrame, UNCHANGED <<base, mirror>>, env' \in Passwords
      PROVE  InstallationOK' /\ BackupFilesOK' /\ JobInv' /\ OpenFiles'
  <2>1. JobInv' /\ OpenFiles'
    BY <1>8, OpenEnds DEF DirFrame
  <2> QED BY <1>8, <2>1 DEF DirFrame, InstallationOK, BackupFilesOK
<1>9. ASSUME NEW recovered \in BOOLEAN, DetectExisting(recovered) PROVE TypeInv'
  <2> DEFINE existing == IF recovered THEN Recovered ELSE NoPassword
             counters == IF recovered THEN budget ELSE OneMore("faults")
  <2>1. existing \in Passwords /\ existing <= budget.pw
    BY <1>0 DEF Recovered, ContainerEnv, NoPassword, BudgetType
  <2>2. counters \in BudgetType /\ counters.pw = budget.pw
        /\ counters.ops >= budget.ops /\ counters.faults >= budget.faults
    <3>1. CASE recovered
      BY <1>0, <3>1
    <3>2. CASE ~recovered
      <4>1. counters = [budget EXCEPT !.faults = @ + 1]
        BY <3>2, Zenon DEF OneMore
      <4>2. budget.faults + 1 \in 0..MaxFaults
        BY <1>0, <1>9, <3>2, LauncherBounds DEF DetectExisting, BudgetType
      <4> QED BY <1>0, <4>1, <4>2 DEF BudgetType
    <3> QED BY <3>1, <3>2
  <2>3. WriteConfig(existing, counters) /\ env = NoPassword /\ UNCHANGED cont /\ DirFrame
        /\ UNCHANGED <<base, mirror>>
    BY <1>9 DEF DetectExisting, DirFrame
  <2>4. hist' \in HistType
    BY <2>3 DEF WriteConfig, HistType, InstallationOK
  <2> HIDE DEF existing, counters
  <2>5. CountersOK' /\ env' \in Passwords
    BY <2>1, <2>2, <2>3, ConfigFacts
  <2> QED BY <1>8, <2>3, <2>4, <2>5
<1>10. CASE ImportSettings
  <2>1. OneMore("ops") = [budget EXCEPT !.ops = @ + 1] /\ OneMore("ops") \in BudgetType
    BY <1>0, <1>10, AskedFacts DEF ImportSettings
  <2>2. OneMore("ops").pw = budget.pw /\ OneMore("ops").ops >= budget.ops
        /\ OneMore("ops").faults >= budget.faults
    BY <1>0, <2>1 DEF BudgetType
  <2>3. WriteConfig(env, OneMore("ops")) /\ UNCHANGED cont /\ DirFrame /\ UNCHANGED <<base, mirror>>
    BY <1>10 DEF ImportSettings, DirFrame, ReadExistingEnv
  <2>4. hist' \in HistType
    BY <2>3 DEF WriteConfig, HistType, InstallationOK
  <2>5. CountersOK' /\ env' \in Passwords
    BY <1>0, <2>1, <2>2, <2>3, ConfigFacts
  <2> QED BY <1>8, <2>3, <2>4, <2>5
<1>11. CASE ListBackups
  <2>1. /\ base' \in [Names -> Data \cup {NoFile}]
        /\ \A n \in Names : base[n] # NoFile => base'[n] # NoFile
        /\ UNCHANGED <<env, hist, mirror>> /\ DirFrame
    BY <1>11 DEF ListBackups, BackupFilesOK
  <2>2. CountersOK'
    BY <1>11, <2>1, AskedKeepsCounters DEF ListBackups, DirFrame
  <2>3. JobInv' /\ OpenFiles'
    BY <2>1, OpenEnds DEF DirFrame
  <2> QED BY <2>1, <2>2, <2>3 DEF DirFrame, InstallationOK, BackupFilesOK
<1>12. ASSUME NEW n \in Names, NEW data \in {1, Partial}, handleBackupUpload(n, data) PROVE TypeInv'
  <2>0. data \in Data /\ data # NoFile
    BY DataFacts
  <2>1. /\ base' \in [Names -> Data \cup {NoFile}]
        /\ \A m \in Names : base[m] # NoFile => base'[m] # NoFile
        /\ UNCHANGED <<env, mirror>> /\ DirFrame
    BY <1>12, <2>0 DEF handleBackupUpload, BackupFilesOK
  <2>2. CountersOK'
    <3>1. budget' = [budget EXCEPT !.ops = @ + 1, !.faults = IF data = 1 THEN @ ELSE @ + 1]
          /\ budget.ops < MaxOps /\ (data = 1 \/ budget.faults < MaxFaults)
      BY <1>12 DEF handleBackupUpload
    <3>2. UNCHANGED <<env, cont>>
      BY <2>1 DEF DirFrame
    <3>3. CASE data = 1
      <4>1. budget' = [budget EXCEPT !.ops = @ + 1, !.faults = IF TRUE THEN @ ELSE @ + 1]
        BY <3>1, <3>3
      <4> QED BY <1>2, <3>1, <3>2, <4>1
    <3>4. CASE data # 1
      <4>1. budget' = [budget EXCEPT !.ops = @ + 1, !.faults = IF FALSE THEN @ ELSE @ + 1]
        BY <3>1, <3>4
      <4> QED BY <1>2, <3>1, <3>2, <3>4, <4>1
    <3> QED BY <3>3, <3>4
  <2>3. JobInv' /\ OpenFiles'
    BY <2>1, OpenEnds DEF DirFrame
  <2>4. hist' \in HistType
    BY <1>12 DEF handleBackupUpload, HistType
  <2> QED BY <2>1, <2>2, <2>3, <2>4 DEF DirFrame, InstallationOK, BackupFilesOK
<1>13. CASE AppWrite
  <2>1. budget.writes + 2 \in Data /\ budget.writes + 1 \in 0..MaxWrites
    BY <1>0, <1>13, DataFacts, LauncherBounds DEF AppWrite, BudgetType
  <2>2. vol' \in [there : BOOLEAN, pw : Passwords, data : Data] /\ vol'.there = vol.there
        /\ UNCHANGED <<cont, runs, env>>
    BY <1>0, <1>13, <2>1 DEF AppWrite
  <2>3. budget' \in BudgetType /\ budget'.pw = budget.pw /\ budget'.ops = budget.ops
        /\ budget'.faults = budget.faults
    <3>1. budget' = [budget EXCEPT !.writes = @ + 1]
      BY <1>13, Zenon DEF AppWrite, OneMore
    <3> QED BY <1>0, <2>1, <3>1 DEF BudgetType
  <2>4. CountersOK'
    BY <1>0, <2>2, <2>3, CountersKept
  <2>5. runs'.db => vol'.there
    BY <2>2 DEF InstallationOK
  <2>6. ControlFrame /\ runs' \in [db : BOOLEAN, app : BOOLEAN]
        /\ cont' \in [there : BOOLEAN, pw : Passwords]
    BY <1>0, <1>13, <2>2 DEF AppWrite
  <2> QED BY <1>1, <2>2, <2>4, <2>5, <2>6
<1>14. CASE Tick
  <2>1. clock' \in Names
    BY <1>14, LauncherBounds DEF Tick, BackupFilesOK, Names
  <2>2. JobInv' /\ OpenFiles'
    BY <1>14, OpenEnds DEF Tick
  <2>3. CountersOK'
    BY <1>14 DEF Tick, CountersOK, PasswordsLeft
  <2> QED BY <1>14, <2>1, <2>2, <2>3 DEF Tick, InstallationOK, BackupFilesOK
<1>15. CASE Quit
  <2>1. Cleanup(exe) \in [cur : Versions, old : Versions] /\ files \in FilesType
    BY DEF Cleanup, InstallationOK, Versions, FilesType
  <2>6. files' \in FilesType
    BY <1>15, <2>1, EnsureFacts DEF Quit, EnsureOnStart
  <2>2. InstallationOK' /\ BackupFilesOK'
    BY <1>15, <2>1, <2>6 DEF Quit, InstallationOK, BackupFilesOK, FilesType
  <2>3. JobInv' /\ OpenFiles'
    BY <1>15, OpenEnds DEF Quit
  <2>4. CountersOK'
    BY <1>15, CallKeepsCounters DEF Quit
  <2>5. hist' \in HistType
    BY <1>15 DEF Quit, Note, HistType
  <2> QED BY <2>2, <2>3, <2>4, <2>5
<1>17. CASE Open
  <2>1. Cleanup(exe) \in [cur : Versions, old : Versions] /\ files \in FilesType
    BY DEF Cleanup, InstallationOK, Versions, FilesType
  <2>2. files' \in FilesType
    BY <1>17, <2>1, EnsureFacts DEF Open
  <2>3. InstallationOK' /\ BackupFilesOK'
    BY <1>17, <2>1, <2>2 DEF Open, InstallationOK, BackupFilesOK, FilesType
  <2>4. JobInv' /\ OpenFiles'
    BY <1>17, OpenEnds DEF Open
  <2>5. CountersOK'
    BY <1>17 DEF Open, CountersOK, PasswordsLeft
  <2>6. hist' \in HistType
    BY <1>17 DEF Open, Note, HistType
  <2> QED BY <2>3, <2>4, <2>5, <2>6
<1>16. CASE DirectoryLost
  <2>1. InstallationOK'
    BY <1>0, <1>16 DEF DirectoryLost, InstallationOK, NoDir, NoFiles, Versions
  <2>2. BackupFilesOK' /\ UNCHANGED <<job, hist>>
    BY <1>16 DEF DirectoryLost, BackupFilesOK
  <2>3. JobInv'
    BY <2>2 DEF JobInv
  <2>4. OpenFiles'
    BY <1>16, <2>2 DEF DirectoryLost, OpenFiles, Restoring
  <2>5. CountersOK'
    <3>1. Call(FALSE) /\ env' = NoPassword /\ UNCHANGED cont
      BY <1>16 DEF DirectoryLost
    <3>2. budget' \in BudgetType /\ budget'.pw = budget.pw /\ budget'.ops = budget.ops
          /\ budget'.faults = budget.faults + 1
      BY <1>0, <3>1, Called
    <3>3. budget.pw \in Nat /\ budget.pw <= 3 + budget.ops + budget.faults
      BY <1>0 DEF CountersOK, PasswordsLeft, BudgetType
    <3> QED BY <1>0, <3>1, <3>2, <3>3 DEF CountersOK, PasswordsLeft, NoPassword
  <2> QED BY <2>1, <2>2, <2>3, <2>4, <2>5
<1> QED
  BY <1>3, <1>4, <1>5, <1>6, <1>7, <1>9, <1>10, <1>11, <1>12, <1>13, <1>14, <1>15, <1>16,
     <1>17
  DEF handleControl, handleStatus, handleSettingsImport, handleBackupsList

LEMMA RequestsAre ==
  ASSUME NEW j \in Jobs
  PROVE  /\ handleBackup(j) \/ commandBackup(j) => Request(j, "backup")
         /\ handleUpdateExecute(j) \/ commandUpdate(j) => Request(j, "update")
         /\ handleSettingsRebuild(j) => Request(j, "rebuild")
         /\ \A n \in Names : handleBackupRestore(j, n) \/ commandRestore(j, n) => OpenBackup(j, n)
  BY DEF handleBackup, commandBackup, handleUpdateExecute, commandUpdate, handleSettingsRebuild,
         handleBackupRestore, commandRestore

LEMMA TypeStep == TypeInv /\ SnapInv /\ [Next]_vars => TypeInv'
<1> SUFFICES ASSUME TypeInv, SnapInv, [Next]_vars PROVE TypeInv'
  OBVIOUS
<1>1. ASSUME NEW j \in Jobs, JobStep(j) PROVE TypeInv'
  BY <1>1, BackupStepTyped, RestoreStepTyped, RequestTyped, FileStepTyped, ExecutableStepTyped
  DEF JobStep
<1>2. ASSUME NEW j \in Jobs,
             \/ handleBackup(j) \/ handleUpdateExecute(j) \/ handleSettingsRebuild(j)
             \/ commandBackup(j) \/ commandUpdate(j)
             \/ handleSetup(j) \/ commandInstall(j)
      PROVE  TypeInv'
  BY <1>2, RequestsAre, RequestTyped
<1>3. ASSUME NEW j \in Jobs, NEW n \in Names, handleBackupRestore(j, n) \/ commandRestore(j, n)
      PROVE  TypeInv'
  BY <1>3, RequestsAre, RestoreStepTyped
<1>4. ASSUME NEW n \in Names, NEW data \in {1, Partial}, handleBackupUpload(n, data) PROVE TypeInv'
  BY <1>4, ControlTyped
<1>5. CASE UNCHANGED vars
  <2>1. /\ UNCHANGED <<platform, vol, cont, runs, env, files, exe, staging>>
        /\ UNCHANGED <<base, mirror, clock>> /\ UNCHANGED job /\ UNCHANGED <<budget, hist>>
    BY <1>5 DEF vars
  <2>2. InstallationOK' /\ BackupFilesOK'
    BY <2>1 DEF TypeInv, InstallationOK, BackupFilesOK
  <2>3. JobInv' /\ OpenFiles'
    BY <2>1, OpenEnds DEF TypeInv
  <2>4. CountersOK'
    BY <2>1 DEF TypeInv, CountersOK, PasswordsLeft
  <2> QED BY <2>1, <2>2, <2>3, <2>4 DEF TypeInv
<1> QED
  BY <1>1, <1>2, <1>3, <1>4, <1>5, ControlTyped DEF Next

LEMMA TypeInit == Init => TypeInv
<1> SUFFICES ASSUME Init PROVE TypeInv
  OBVIOUS
<1>1. /\ NoPassword \in Passwords /\ 2 \in Passwords /\ Empty \in Data /\ 1 \in Data
      /\ 1 \in Names /\ {"none", "old"} \subseteq Versions
  BY LauncherBounds, DataFacts DEF Passwords, ShippedPassword, NoPassword, Names, Versions
<1>8. /\ NoFiles \in FilesType /\ EmbeddedOnly \in FilesType
      /\ [f \in ProjectFiles |-> "old"] \in FilesType
  BY <1>1 DEF NoFiles, EmbeddedOnly, FilesType
<1>2. /\ vol \in [there : BOOLEAN, pw : Passwords, data : Data]
      /\ cont \in [there : BOOLEAN, pw : Passwords] /\ cont.pw <= 2
      /\ runs \in [db : BOOLEAN, app : BOOLEAN]
      /\ runs.db => vol.there
      /\ env \in Passwords /\ env <= 2
      /\ files \in FilesType
  <2>1. PICK installed \in BOOLEAN, opened \in BOOLEAN :
         /\ vol = IF installed THEN [there |-> TRUE, pw |-> 2, data |-> 1]
                  ELSE [there |-> FALSE, pw |-> NoPassword, data |-> Empty]
         /\ cont = [there |-> installed, pw |-> IF installed THEN 2 ELSE NoPassword]
         /\ runs = [db |-> installed, app |-> installed]
         /\ env = IF installed THEN 2 ELSE NoPassword
         /\ files = IF installed THEN [f \in ProjectFiles |-> "old"]
                    ELSE IF opened THEN EmbeddedOnly ELSE NoFiles
    BY DEF Init
  <2>2. NoPassword <= 2
    BY DEF NoPassword
  <2>3. vol \in [there : BOOLEAN, pw : Passwords, data : Data]
    BY <1>1, <2>1
  <2>4. cont \in [there : BOOLEAN, pw : Passwords] /\ cont.pw <= 2
    BY <1>1, <2>1, <2>2
  <2>5. files \in FilesType
    BY <1>8, <2>1
  <2> QED BY <1>1, <2>1, <2>2, <2>3, <2>4, <2>5
<1>3. InstallationOK
  BY <1>1, <1>2 DEF Init, InstallationOK, NoDir, FilesType
<1>4. BackupFilesOK
  BY <1>1 DEF Init, BackupFilesOK
<1>5. JobInv /\ OpenFiles
  <2>1. \A j \in Jobs : job[j] = IdleJob
    BY DEF Init
  <2>2. IdleJob.pc \notin Restoring
    BY DEF IdleJob, Restoring
  <2> QED BY <2>1, <2>2, IdleFacts DEF Init, JobInv, OpenFiles
<1>6. CountersOK
  <2>1. budget = [writes |-> 0, faults |-> 0, ops |-> 0, pw |-> 2]
    BY DEF Init
  <2> QED BY <1>2, <2>1, LauncherBounds DEF CountersOK, BudgetType, PasswordsLeft, DefaultPassword
<1>7. hist \in HistType
  BY DEF Init, HistType
<1> QED BY <1>3, <1>4, <1>5, <1>6, <1>7 DEF TypeInv

-----------------------------------------------------------------------------
(* The password follows the volume.                                         *)

\* A step that leaves both passwords alone.
PasswordAside ==
    /\ UNCHANGED <<env, cont>>
    /\ vol'.there = vol.there /\ vol'.pw = vol.pw
    /\ hist'.redrawn = hist.redrawn

LEMMA PasswordFrame ==
  ASSUME PasswordInv, PasswordAside
  PROVE  PasswordInv'
  BY DEF PasswordInv, PasswordAside

\* Containers and a volume are made with the password of .env, or the default.
LEMMA PasswordUp ==
  ASSUME PasswordInv, Up(TRUE) \/ NotUp, UNCHANGED env, hist'.redrawn = hist.redrawn
  PROVE  PasswordInv'
<1>1. CASE Up(TRUE)
  <2> DEFINE pw == IF env # NoPassword THEN env ELSE DefaultPassword
  <2>1. cont' = [there |-> TRUE, pw |-> pw]
    BY <1>1 DEF Up
  <2>2. CASE vol.there
    <3>1. UNCHANGED vol
      BY <1>1, <2>2 DEF Up
    <3> QED BY <2>1, <3>1 DEF PasswordInv
  <2>3. CASE ~vol.there
    <3>1. vol' = [there |-> TRUE, pw |-> pw, data |-> Empty]
      BY <1>1, <2>3 DEF Up
    <3> QED BY <2>1, <3>1 DEF PasswordInv
  <2> QED BY <2>2, <2>3
<1>2. CASE NotUp
  BY <1>2 DEF NotUp, PasswordInv
<1> QED BY <1>1, <1>2

\* The configuration is written with the password of .env or of the containers.
LEMMA PasswordWritten ==
  ASSUME PasswordInv, hist \in HistType, UNCHANGED <<vol, cont>>, NEW existing, NEW counters,
         WriteConfig(existing, counters),
         \/ existing = env
         \/ existing = NoPassword
         \/ cont.there /\ existing = cont.pw
  PROVE  PasswordInv'
<1>1. hist'.redrawn = (hist.redrawn \/ Misses(existing))
  BY DEF WriteConfig, HistType
<1>2. CASE Misses(existing) \/ ~vol.there \/ hist.redrawn
  BY <1>1, <1>2 DEF PasswordInv
<1>3. CASE ~(Misses(existing) \/ ~vol.there \/ hist.redrawn)
  <2>1. existing # NoPassword /\ (existing = DefaultPassword => vol.pw = existing)
    BY <1>3 DEF Misses
  <2>2. env' = existing
    BY <2>1 DEF WriteConfig, GenerateEnv
  <2> QED BY <1>1, <1>3, <2>1, <2>2 DEF PasswordInv
<1> QED BY <1>2, <1>3

LEMMA PasswordJobStep ==
  ASSUME TypeInv, PasswordInv, NEW j \in Jobs, JobStep(j)
  PROVE  PasswordInv'
<1>0. hist \in HistType /\ JobInv /\ vol \in [there : BOOLEAN, pw : Passwords, data : Data]
  BY DEF TypeInv, InstallationOK
<1>1. ASSUME NEW ok \in BOOLEAN, CreateFile(j, ok) PROVE PasswordAside
  BY <1>0, <1>1 DEF CreateFile, EngineFrame, PasswordAside, HistType
<1>2. ASSUME NEW data, NEW ok \in BOOLEAN, DumpSucceeds(j, data, ok) PROVE PasswordAside
  BY <1>0, <1>2 DEF DumpSucceeds, EngineFrame, PasswordAside, HistType
<1>3. CASE DumpFails(j)
  BY <1>3, PasswordFrame DEF DumpFails, EngineFrame, PasswordAside
<1>4. TakesAway(j) => hist'.redrawn = hist.redrawn
  BY <1>0 DEF TakesAway, HistType
<1>5. ASSUME NEW ok \in BOOLEAN, StopApp(j, ok) \/ DropSchema(j, ok) PROVE PasswordAside
  BY <1>0, <1>4, <1>5 DEF StopApp, DropSchema, EngineFrame, PasswordAside
<1>6. ASSUME NEW result \in {"ok", "statements", "failed"}, Import(j, result) PROVE PasswordAside
  BY <1>0, <1>4, <1>6 DEF Import, EngineFrame, PasswordAside
<1>7. ASSUME NEW ok \in BOOLEAN, StartApp(j, ok) \/ Compose(j, ok) PROVE PasswordInv'
  <2>1. (Up(TRUE) \/ NotUp) /\ UNCHANGED env
    BY <1>7 DEF StartApp, Compose, EngineFrame
  <2>2. hist'.redrawn = hist.redrawn
    BY <1>0, <1>7 DEF StartApp, Compose, Note, HistType
  <2> QED BY <2>1, <2>2, PasswordUp
<1>8. ASSUME FileFrame, UNCHANGED env, hist'.redrawn = hist.redrawn PROVE PasswordAside
  BY <1>8 DEF FileFrame, PasswordAside
<1>9. ASSUME NEW result, Download(j, result) PROVE PasswordAside
  BY <1>0, <1>8, <1>9 DEF Download, NoteOverlap, HistType
<1>10. ASSUME NEW ok \in BOOLEAN, Extract(j, ok) PROVE PasswordAside
  BY <1>8, <1>10 DEF Extract
<1>11. ASSUME NEW ok \in BOOLEAN, ApplyFile(j, ok) PROVE PasswordAside
  <2>1. /\ FileFrame /\ UNCHANGED env
        /\ UNCHANGED hist \/ hist' = [hist EXCEPT !.torn = TRUE]
    BY <1>0, <1>11, ApplyFileMoves DEF ApplyFile
  <2> QED BY <1>0, <1>8, <2>1 DEF HistType
<1>12. CASE Walk(j) \/ Applied(j)
  <2>1. PasswordAside
    BY <1>8, <1>12 DEF Walk, Applied
  <2> QED BY <2>1, PasswordFrame
<1>13. ASSUME NEW ok \in BOOLEAN, HotSwap(j, ok) \/ RenameExecutable(j, ok) \/ CopyExecutable(j, ok)
       PROVE  PasswordAside
  <2>1. FileFrame /\ UNCHANGED env
    BY <1>13 DEF HotSwap, RenameExecutable, CopyExecutable
  <2>2. hist'.redrawn = hist.redrawn
    BY <1>0, <1>13 DEF HotSwap, RenameExecutable, CopyExecutable, Note, HistType
  <2> QED BY <1>8, <2>1, <2>2
<1>14. CASE EnsureProjectFiles(j)
  <2>1. PasswordAside
    BY <1>14 DEF EnsureProjectFiles, RequestFrame, ConfigFrame, PasswordAside
  <2> QED BY <2>1, PasswordFrame
<1>15. CASE InstallConfig(j)
  BY <1>0, <1>15, PasswordWritten DEF InstallConfig, ConfigFrame, ReadExistingEnv
<1> QED
  BY <1>1, <1>2, <1>3, <1>5, <1>6, <1>7, <1>9, <1>10, <1>11, <1>12, <1>13, <1>14, <1>15, PasswordFrame
  DEF JobStep

LEMMA PasswordStep == TypeInv /\ PasswordInv /\ [Next]_vars => PasswordInv'
<1> SUFFICES ASSUME TypeInv, PasswordInv, [Next]_vars PROVE PasswordInv'
  OBVIOUS
<1>0. hist \in HistType /\ cont \in [there : BOOLEAN, pw : Passwords]
      /\ vol \in [there : BOOLEAN, pw : Passwords, data : Data]
  BY DEF TypeInv, InstallationOK
<1>1. ASSUME NEW j \in Jobs, NEW kind, Request(j, kind) PROVE PasswordInv'
  BY <1>1, PasswordFrame DEF Request, RequestFrame, ConfigFrame, PasswordAside
<1>2. ASSUME NEW j \in Jobs, handleSetup(j) \/ commandInstall(j) PROVE PasswordInv'
  <2>1. CASE handleSetup(j)
    BY <1>0, <2>1, PasswordWritten DEF handleSetup, RequestFrame, ConfigFrame, ReadExistingEnv
  <2>2. CASE commandInstall(j)
    BY <2>2, PasswordFrame DEF commandInstall, RequestFrame, ConfigFrame, PasswordAside
  <2> QED BY <1>2, <2>1, <2>2
<1>3. ASSUME NEW j \in Jobs, NEW n \in Names, OpenBackup(j, n) PROVE PasswordInv'
  <2>1. PasswordAside
    BY <1>0, <1>3 DEF OpenBackup, EngineFrame, PasswordAside, HistType
  <2> QED BY <2>1, PasswordFrame
<1>4. ASSUME NEW n \in Names, NEW data, handleBackupUpload(n, data) PROVE PasswordInv'
  <2>1. PasswordAside
    BY <1>0, <1>4 DEF handleBackupUpload, DirFrame, PasswordAside, HistType
  <2> QED BY <2>1, PasswordFrame
<1>5. CASE Start
  BY <1>5, PasswordUp DEF Start, ControlFrame
<1>6. ASSUME NEW ok \in BOOLEAN, ResetAll(ok) PROVE PasswordInv'
  <2>1. env' = NoPassword /\ UNCHANGED hist
    BY <1>6 DEF ResetAll, ControlFrame
  <2>2. CASE ok
    <3>1. vol'.there = FALSE
      BY <1>6, <2>2 DEF ResetAll
    <3> QED BY <3>1 DEF PasswordInv
  <2>3. CASE ~ok
    BY <1>6, <2>1, <2>3 DEF ResetAll, NotUp, PasswordInv
  <2> QED BY <2>2, <2>3
<1>7. CASE Stop \/ Restart
  BY <1>7, PasswordFrame DEF Stop, Restart, ControlFrame, PasswordAside
<1>8. CASE Down
  <2>1. cont'.there = FALSE /\ UNCHANGED <<vol, env, hist>>
    BY <1>8 DEF Down, ControlFrame
  <2> QED BY <2>1 DEF PasswordInv
<1>9. CASE handleStatus
  <2>1. PICK recovered \in BOOLEAN : DetectExisting(recovered)
    BY <1>9 DEF handleStatus
  <2> DEFINE existing == IF recovered THEN Recovered ELSE NoPassword
             counters == IF recovered THEN budget ELSE OneMore("faults")
  <2>2. WriteConfig(existing, counters) /\ UNCHANGED <<vol, cont>>
    BY <2>1 DEF DetectExisting, DirFrame
  <2>3. existing = NoPassword \/ (cont.there /\ existing = cont.pw)
    BY DEF Recovered, ContainerEnv
  <2> HIDE DEF existing, counters
  <2> QED BY <1>0, <2>2, <2>3, PasswordWritten
<1>10. CASE handleSettingsImport
  BY <1>0, <1>10, PasswordWritten DEF handleSettingsImport, ImportSettings, DirFrame, ReadExistingEnv
<1>11. CASE handleBackupsList
  BY <1>11, PasswordFrame DEF handleBackupsList, ListBackups, DirFrame, PasswordAside
<1>12. CASE AppWrite
  <2>1. PasswordAside
    BY <1>0, <1>12 DEF AppWrite, ControlFrame, PasswordAside
  <2> QED BY <2>1, PasswordFrame
<1>13. CASE Tick
  BY <1>13, PasswordFrame DEF Tick, PasswordAside
<1>14. CASE Quit \/ Open
  <2>1. PasswordAside
    BY <1>0, <1>14 DEF Quit, Open, Note, HistType, PasswordAside
  <2> QED BY <2>1, PasswordFrame
<1>15. CASE DirectoryLost
  <2>1. env' = NoPassword /\ UNCHANGED <<vol, cont, hist>>
    BY <1>15 DEF DirectoryLost
  <2> QED BY <2>1 DEF PasswordInv
<1>16. CASE UNCHANGED vars
  BY <1>16, PasswordFrame DEF vars, PasswordAside
<1> QED
  BY <1>1, <1>2, <1>3, <1>4, <1>5, <1>6, <1>7, <1>8, <1>9, <1>10, <1>11, <1>12, <1>13, <1>14,
     <1>15, <1>16, PasswordJobStep, RequestsAre
  DEF Next, handleControl

-----------------------------------------------------------------------------
(* Files, staging directories and the executable.                           *)
CopyPCs == {"extract", "walk", "apply", "swap", "copy"}

\* To files, staging and executable, s is a job like r.
AsBefore(r, s) ==
    /\ s.pc \in CopyPCs <=> r.pc \in CopyPCs
    /\ r.pc \in CopyPCs =>
         s.pc = r.pc /\ s.kind = r.kind /\ s.todo = r.todo /\ s.ver = r.ver
    /\ \A d \in Dirs : Holds(r, d) => Holds(s, d)

\* A step that leaves them alone.
FilesAside ==
    /\ UNCHANGED <<exe, staging>> /\ Ensured
    /\ hist'.torn = hist.torn /\ hist'.swaps = hist.swaps /\ hist'.killed = hist.killed
    /\ \A k \in Jobs : AsBefore(job[k], job'[k])

WholeInv == SwapInv /\ StagingInv /\ FilesInv

LEMMA FilesFrame ==
  ASSUME TypeInv, WholeInv, FilesAside
  PROVE  WholeInv'
<1>0. files \in FilesType /\ \A k \in Jobs : Shape(job[k])
  BY DEF TypeInv, InstallationOK, JobInv, FilesType
<1>1. \A k \in Jobs : /\ Copying(k)' <=> Copying(k)
                      /\ Copying(k) => /\ job'[k].pc = job[k].pc /\ job'[k].kind = job[k].kind
                                       /\ job'[k].todo = job[k].todo /\ job'[k].ver = job[k].ver
                      /\ \A d \in Dirs : Owns(k, d) => Owns(k, d)'
  BY DEF FilesAside, AsBefore, Copying, Owns, CopyPCs
<1>2. \A k \in Jobs : Swapping(k)' <=> Swapping(k)
  BY <1>1 DEF Copying, Swapping
<1>3. SwapInv'
  BY <1>2 DEF WholeInv, FilesAside, SwapInv
<1>4. StagingInv'
  BY <1>1 DEF WholeInv, FilesAside, StagingInv
<1>5. \A k \in Jobs : /\ (job[k].pc = "apply")' <=> job[k].pc = "apply"
                      /\ (job[k].pc = "walk")' <=> job[k].pc = "walk"
                      /\ Copying(k) => Dir(k)' = Dir(k)
                      /\ job[k].pc = "apply" => (Written(k) => Written(k)')
  <2>1. \A k \in Jobs : job[k].pc = "apply" /\ Written(k) => Written(k)'
    <3> SUFFICES ASSUME NEW k \in Jobs, job[k].pc = "apply", Written(k) PROVE Written(k)'
      OBVIOUS
    <3>1. job'[k].todo = job[k].todo /\ job'[k].ver = job[k].ver /\ job[k].ver # "none"
      BY <1>0, <1>1 DEF Copying, Shape
    <3> QED BY <1>0, <3>1, EnsuredKeeps DEF FilesAside, Written, ProjectFiles
  <2> QED BY <1>1, <2>1 DEF Copying, Dir
<1>6. FilesInv'
  <2>1. \A k \in Jobs : job[k].pc = "walk" => Copying(k)
    BY DEF Copying
  <2>2. (\A k \in Jobs : job'[k].pc # "apply") => (\A k \in Jobs : job[k].pc # "apply")
    BY <1>5
  <2>3. OneVersion => OneVersion'
    BY <1>0, EnsuredKeeps DEF FilesAside
  <2>4. hist'.torn = hist.torn /\ UNCHANGED staging
    BY DEF FilesAside
  <2> QED BY <1>1, <1>5, <2>1, <2>2, <2>3, <2>4 DEF WholeInv, FilesInv
<1> QED BY <1>3, <1>4, <1>6 DEF WholeInv

\* One job moves, and neither it nor the others concern the files.
LEMMA MovesAside ==
  ASSUME JobInv, NEW j \in Jobs, NEW r, Moves(j, r), AsBefore(job[j], r)
  PROVE  \A k \in Jobs : AsBefore(job[k], job'[k])
<1>1. job'[j] = r /\ \A k \in Jobs \ {j} : job'[k] = job[k]
  BY MovesFacts
<1>2. \A s : AsBefore(s, s)
  BY DEF AsBefore
<1> QED BY <1>1, <1>2

LEMMA AtIs ==
  /\ \A kind \in {"backup", "update", "rebuild"} :
       At(kind, "create").kind = kind /\ At(kind, "create").pc = "create"
  /\ At("rebuild", "compose").kind = "rebuild" /\ At("rebuild", "compose").pc = "compose"
  /\ At("update", "compose").kind = "update" /\ At("update", "compose").pc = "compose"
  /\ At("setup", "compose").kind = "setup" /\ At("setup", "compose").pc = "compose"
  /\ At("update", "download").kind = "update" /\ At("update", "download").pc = "download"
  /\ At("setup", "config").kind = "setup" /\ At("setup", "config").pc = "config"
  /\ At("setup", "ensure").kind = "setup" /\ At("setup", "ensure").pc = "ensure"
  /\ At("update", "swap").kind = "update" /\ At("update", "swap").pc = "swap"
  /\ At("restore", "start").kind = "restore" /\ At("restore", "start").pc = "start"
<1>1. /\ {"backup", "update", "rebuild", "setup", "restore"} \subseteq Kinds
      /\ {"create", "compose", "download", "config", "ensure", "swap", "start"} \subseteq PCs
  BY DEF Kinds, PCs
<1>2. \A kind \in Kinds, pc \in PCs : At(kind, pc).kind = kind
  BY AtFacts
<1>3. \A kind \in Kinds, pc \in PCs : At(kind, pc).pc = pc
  BY AtFacts
<1>4. \A kind \in {"backup", "update", "rebuild"} :
       At(kind, "create").kind = kind /\ At(kind, "create").pc = "create"
  BY <1>1, <1>2, <1>3
<1> QED BY <1>1, <1>2, <1>3, <1>4

\* A backup goes on to nothing that concerns the files but an update that
\* still has its directory.
LEMMA OnwardAside ==
  ASSUME NEW j \in Jobs, job[j].pc \in {"create", "dump"}, NEW r, Onward(j, r)
  PROVE  AsBefore(job[j], r)
<1>1. IdleJob.pc = "idle"
  BY DEF IdleJob
<1> QED BY <1>1, AtIs DEF Onward, AsBefore, Holds, CopyPCs

LEMMA BackupStepAside ==
  ASSUME TypeInv, NEW j \in Jobs
  PROVE  /\ \A ok \in BOOLEAN : CreateFile(j, ok) => FilesAside
         /\ \A data \in {vol.data, Partial}, ok \in BOOLEAN : DumpSucceeds(j, data, ok) => FilesAside
         /\ DumpFails(j) => FilesAside
<1>0. /\ hist \in HistType /\ JobInv /\ clock \in Names /\ vol.data \in Data /\ Partial \in Data
      /\ job[j] \in JobType
  BY DataFacts, ReadingJobs DEF TypeInv, BackupFilesOK, InstallationOK
<1>1. ASSUME NEW ok \in BOOLEAN, CreateFile(j, ok) PROVE FilesAside
  <2>1. PICK r : /\ Moves(j, r)
                 /\ ok => r = [job[j] EXCEPT !.pc = "dump", !.name = clock]
                 /\ ~ok => \/ Onward(j, r)
                           \/ r = [job[j] EXCEPT !.pc = "stop"] /\ job[j].kind = "restore"
    BY <1>0, <1>1, CreateFileMoves
  <2>2. job[j].pc = "create"
    BY <1>1 DEF CreateFile
  <2>3. AsBefore(job[j], r)
    <3>1. CASE Onward(j, r)
      BY <2>2, <3>1, OnwardAside
    <3>2. CASE r = [job[j] EXCEPT !.pc = "dump", !.name = clock]
      <4>1. r.pc = "dump" /\ r.kind = job[j].kind /\ r.again = job[j].again
        BY <1>0, <3>2 DEF JobType
      <4> QED BY <2>2, <4>1 DEF AsBefore, Holds, CopyPCs
    <3>3. CASE r = [job[j] EXCEPT !.pc = "stop"] /\ job[j].kind = "restore"
      <4>1. r.pc = "stop" /\ r.kind = job[j].kind
        BY <1>0, <3>3 DEF JobType
      <4> QED BY <2>2, <3>3, <4>1 DEF AsBefore, Holds, CopyPCs
    <3> QED BY <2>1, <3>1, <3>2, <3>3
  <2> QED BY <1>0, <1>1, <2>1, <2>3, MovesAside DEF CreateFile, EngineFrame, Ensured, FilesAside, HistType
<1>2. ASSUME NEW data \in {vol.data, Partial}, NEW ok \in BOOLEAN, DumpSucceeds(j, data, ok)
      PROVE  FilesAside
  <2>0. job[j].pc = "dump" /\ data \in Data /\ JobInv
    BY <1>0, <1>2 DEF DumpSucceeds
  <2>1. PICK r : /\ Moves(j, r)
                 /\ \/ Onward(j, r)
                    \/ /\ r = [job[j] EXCEPT !.pc = "stop", !.snap = data]
                       /\ job[j].kind = "restore"
    BY <1>2, <2>0, DumpSucceedsMoves
  <2>2. AsBefore(job[j], r)
    <3>1. CASE Onward(j, r)
      BY <2>0, <3>1, OnwardAside
    <3>2. CASE r = [job[j] EXCEPT !.pc = "stop", !.snap = data] /\ job[j].kind = "restore"
      <4>1. r.pc = "stop" /\ r.kind = job[j].kind
        BY <1>0, <3>2 DEF JobType
      <4> QED BY <2>0, <3>2, <4>1 DEF AsBefore, Holds, CopyPCs
    <3> QED BY <2>1, <3>1, <3>2
  <2> QED BY <1>0, <1>2, <2>1, <2>2, MovesAside DEF DumpSucceeds, EngineFrame, Ensured, FilesAside, HistType
<1>3. CASE DumpFails(j)
  <2>0. job[j].pc = "dump" /\ job[j].name \in Names
    BY <1>0, <1>3, ReadingJobs DEF DumpFails, Shape
  <2> DEFINE n == job[j].name
  <2>1. PICK r \in JobType :
           /\ Shape(r)
           /\ job' = [Noticed(n) EXCEPT ![j] = r]
           /\ \/ Onward(j, r)
              \/ /\ r = [Noticed(n)[j] EXCEPT !.pc = "stop"]
                 /\ job[j].kind = "restore"
    BY <1>0, <1>3, DumpFailsMoves
  <2>2. /\ Noticed(n) \in [Jobs -> JobType]
        /\ \A k \in Jobs : Noticed(n)[k] = [job[k] EXCEPT !.gone = @ \/ job[k].src = n]
    BY <1>0, <2>0, NoticedFacts
  <2>3. ASSUME NEW k \in Jobs PROVE AsBefore(job[k], job'[k])
    <3>1. CASE k # j
      <4>1. job'[k] = [job[k] EXCEPT !.gone = @ \/ job[k].src = n]
        BY <2>1, <2>2, <3>1
      <4>2. job[k] \in JobType
        BY <1>0, ReadingJobs
      <4> HIDE DEF n
      <4>3. /\ job'[k].pc = job[k].pc /\ job'[k].kind = job[k].kind /\ job'[k].again = job[k].again
            /\ job'[k].todo = job[k].todo /\ job'[k].ver = job[k].ver
        BY <4>1, <4>2 DEF JobType
      <4> QED BY <4>3 DEF AsBefore, Holds, CopyPCs
    <3>2. CASE k = j
      <4>1. job'[j] = r
        BY <2>1, <2>2
      <4>2. CASE Onward(j, r)
        BY <2>0, <3>2, <4>1, <4>2, OnwardAside
      <4>3. CASE r = [Noticed(n)[j] EXCEPT !.pc = "stop"] /\ job[j].kind = "restore"
        <5>1. Noticed(n)[j] \in JobType /\ Noticed(n)[j] = [job[j] EXCEPT !.gone = @ \/ job[j].src = n]
          BY <2>2
        <5> HIDE DEF n
        <5>2. r.pc = "stop" /\ job[j].kind = "restore"
          BY <4>3, <5>1 DEF JobType
        <5> QED BY <2>0, <3>2, <4>1, <5>2 DEF AsBefore, Holds, CopyPCs
      <4> QED BY <2>1, <4>2, <4>3
    <3> QED BY <3>1, <3>2
  <2> QED BY <1>3, <2>3 DEF DumpFails, EngineFrame, Ensured, FilesAside
<1> QED BY <1>1, <1>2, <1>3

LEMMA RestoreStepAside ==
  ASSUME TypeInv, NEW j \in Jobs
  PROVE  /\ \A n \in Names : OpenBackup(j, n) => FilesAside
         /\ \A ok \in BOOLEAN : StopApp(j, ok) \/ DropSchema(j, ok) \/ StartApp(j, ok) => FilesAside
         /\ \A result \in {"ok", "statements", "failed"} : Import(j, result) => FilesAside
<1>0. /\ hist \in HistType /\ JobInv /\ BackupFilesOK
      /\ job[j] \in JobType /\ Shape(job[j])
  BY ReadingJobs DEF TypeInv
<1>1. ASSUME NEW r \in JobType, job[j].pc \in {"idle", "stop", "drop", "import", "start"},
             r.pc \notin CopyPCs
      PROVE  AsBefore(job[j], r)
  <2>1. job[j].pc \notin CopyPCs /\ job[j].kind \in {"none", "restore"}
    BY <1>0, <1>1 DEF Shape, CopyPCs
  <2> QED BY <1>1, <2>1 DEF AsBefore, Holds
<1>2. TakesAway(j) => /\ hist'.torn = hist.torn /\ hist'.swaps = hist.swaps
                      /\ hist'.killed = hist.killed
  BY <1>0 DEF TakesAway, HistType
<1>3. ASSUME NEW r, Moves(j, r), job[j].pc \in {"idle", "stop", "drop", "import", "start"},
             r.pc \notin CopyPCs, EngineFrame,
             hist'.torn = hist.torn, hist'.swaps = hist.swaps, hist'.killed = hist.killed
      PROVE  FilesAside
  <2>1. r \in JobType
    BY <1>3 DEF Moves
  <2>2. \A k \in Jobs : AsBefore(job[k], job'[k])
    BY <1>0, <1>1, <1>3, <2>1, MovesAside
  <2> QED BY <1>3, <2>2 DEF FilesAside, Ensured, EngineFrame
<1>4. IdleJob.pc \notin CopyPCs /\ At("restore", "start").pc \notin CopyPCs
  BY AtIs DEF IdleJob, CopyPCs
<1>5. ASSUME NEW n \in Names, OpenBackup(j, n) PROVE FilesAside
  <2> DEFINE r == [IdleJob EXCEPT !.kind = "restore", !.pc = "create", !.src = n, !.want = Locate(n)]
  <2>1. r.pc = "create"
    BY IdleFacts DEF JobType
  <2>2. EngineFrame /\ job[j].pc = "idle" /\ hist'.torn = hist.torn
        /\ hist'.swaps = hist.swaps /\ hist'.killed = hist.killed
    BY <1>0, <1>5 DEF OpenBackup, HistType
  <2>3. UNCHANGED job \/ Moves(j, r)
    BY <1>0, <1>5, OpenBackupMoves
  <2>4. CASE UNCHANGED job
    BY <2>2, <2>4 DEF FilesAside, Ensured, EngineFrame, AsBefore
  <2>5. CASE Moves(j, r)
    BY <1>3, <2>1, <2>2, <2>5 DEF CopyPCs
  <2> QED BY <2>3, <2>4, <2>5
<1>6. \A pc \in {"drop", "import"} : [job[j] EXCEPT !.pc = pc].pc \notin CopyPCs
  BY <1>0 DEF JobType, CopyPCs
<1>7. ASSUME NEW ok \in BOOLEAN, StopApp(j, ok) PROVE FilesAside
  <2>1. EngineFrame /\ UNCHANGED hist /\ job[j].pc = "stop"
    BY <1>7 DEF StopApp
  <2>2. Moves(j, [job[j] EXCEPT !.pc = "drop"])
    BY <1>0, <1>7, RestoreMoves
  <2> QED BY <1>3, <1>6, <2>1, <2>2
<1>8. ASSUME NEW ok \in BOOLEAN, DropSchema(j, ok) PROVE FilesAside
  <2>1. EngineFrame /\ job[j].pc = "drop" /\ (TakesAway(j) \/ UNCHANGED hist)
    BY <1>8 DEF DropSchema
  <2>2. Moves(j, [job[j] EXCEPT !.pc = "import"])
    BY <1>0, <1>8, RestoreMoves
  <2> QED BY <1>2, <1>3, <1>6, <2>1, <2>2
<1>9. ASSUME NEW ok \in BOOLEAN, StartApp(j, ok) PROVE FilesAside
  <2>1. EngineFrame /\ UNCHANGED hist /\ job[j].pc = "start"
    BY <1>9 DEF StartApp
  <2>2. Moves(j, IdleJob)
    BY <1>0, <1>9, RestoreMoves
  <2> QED BY <1>3, <1>4, <2>1, <2>2
<1>10. ASSUME NEW result \in {"ok", "statements", "failed"}, Import(j, result) PROVE FilesAside
  <2>1. EngineFrame /\ job[j].pc = "import" /\ (TakesAway(j) \/ UNCHANGED hist)
    BY <1>10 DEF Import
  <2>2. Moves(j, IdleJob) \/ Moves(j, At("restore", "start"))
    BY <1>0, <1>10, RestoreMoves
  <2> QED BY <1>2, <1>3, <1>4, <2>1, <2>2
<1> QED BY <1>5, <1>7, <1>8, <1>9, <1>10

LEMMA RequestAside ==
  ASSUME TypeInv, NEW j \in Jobs
  PROVE  /\ \A kind \in {"backup", "update", "rebuild"} : Request(j, kind) => FilesAside
         /\ handleSetup(j) \/ commandInstall(j) => FilesAside
         /\ EnsureProjectFiles(j) \/ InstallConfig(j) => FilesAside
<1>0. /\ hist \in HistType /\ JobInv /\ job[j] \in JobType /\ Shape(job[j])
  BY ReadingJobs DEF TypeInv
<1>1. ASSUME NEW r, Moves(j, r), job[j].pc \in {"idle", "ensure", "config"},
             r.pc \notin CopyPCs, ConfigFrame, Ensured,
             hist'.torn = hist.torn, hist'.swaps = hist.swaps, hist'.killed = hist.killed
      PROVE  FilesAside
  <2>1. job[j].pc \notin CopyPCs /\ \A d \in Dirs : ~Holds(job[j], d)
    BY <1>0, <1>1 DEF Shape, CopyPCs, Holds
  <2>2. AsBefore(job[j], r)
    BY <1>1, <2>1 DEF AsBefore
  <2>3. \A k \in Jobs : AsBefore(job[k], job'[k])
    BY <1>0, <1>1, <2>2, MovesAside
  <2> QED BY <1>1, <2>3 DEF FilesAside, ConfigFrame
<1>2. \A existing, counters : WriteConfig(existing, counters) =>
        hist'.torn = hist.torn /\ hist'.swaps = hist.swaps /\ hist'.killed = hist.killed
  BY <1>0 DEF WriteConfig, HistType
<1>3. ASSUME NEW kind \in {"backup", "update", "rebuild"}, Request(j, kind) PROVE FilesAside
  <2>1. Moves(j, At(kind, "create")) /\ At(kind, "create").pc \notin CopyPCs
    BY <1>0, <1>3, RequestMoves, AtIs DEF CopyPCs
  <2>2. job[j].pc = "idle" /\ ConfigFrame /\ Ensured /\ UNCHANGED hist
    BY <1>3 DEF Request, Begin, RequestFrame, Ensured
  <2> QED BY <1>1, <2>1, <2>2
<1>4. CASE handleSetup(j) \/ commandInstall(j)
  <2>1. Moves(j, At("setup", "ensure")) /\ At("setup", "ensure").pc \notin CopyPCs
    BY <1>0, <1>4, RequestMoves, AtIs DEF CopyPCs
  <2>2. job[j].pc = "idle" /\ ConfigFrame /\ Ensured /\ hist'.torn = hist.torn
        /\ hist'.swaps = hist.swaps /\ hist'.killed = hist.killed
    BY <1>2, <1>4 DEF handleSetup, commandInstall, Begin, RequestFrame, Ensured
  <2> QED BY <1>1, <2>1, <2>2
<1>5. CASE EnsureProjectFiles(j)
  <2>1. job[j].pc = "ensure" /\ ConfigFrame /\ Ensured /\ UNCHANGED hist /\ job[j].kind = "setup"
    BY <1>0, <1>5 DEF EnsureProjectFiles, Shape, RequestFrame, Ensured
  <2>2. \/ FilesDone(j, FALSE)
        \/ Moves(j, [job[j] EXCEPT !.pc = "download"])
    BY <1>0, <1>5, FileMoves
  <2>3. \E r : Moves(j, r) /\ r.pc \notin CopyPCs
    <3>1. CASE FilesDone(j, FALSE)
      BY <2>1, <3>1, AtIs DEF FilesDone, CopyPCs
    <3>2. CASE Moves(j, [job[j] EXCEPT !.pc = "download"])
      <4>1. [job[j] EXCEPT !.pc = "download"].pc = "download"
        BY <1>0 DEF JobType
      <4> QED BY <3>2, <4>1 DEF CopyPCs
    <3> QED BY <2>2, <3>1, <3>2
  <2> QED BY <1>1, <2>1, <2>3
<1>6. CASE InstallConfig(j)
  <2>0. files \in FilesType
    BY DEF TypeInv, InstallationOK, FilesType
  <2>1. job[j].pc = "config" /\ ConfigFrame /\ Ensured /\ hist'.torn = hist.torn
        /\ hist'.swaps = hist.swaps /\ hist'.killed = hist.killed
    BY <1>2, <1>6, <2>0, EnsureFacts DEF InstallConfig
  <2>2. Moves(j, [job[j] EXCEPT !.pc = "compose"])
    BY <1>0, <1>6, RequestMoves
  <2>3. [job[j] EXCEPT !.pc = "compose"].pc \notin CopyPCs
    BY <1>0 DEF JobType, CopyPCs
  <2> QED BY <1>1, <2>1, <2>2, <2>3
<1> QED BY <1>3, <1>4, <1>5, <1>6

LEMMA SwapFrame ==
  ASSUME SwapInv, UNCHANGED exe, hist'.swaps = hist.swaps,
         \A k \in Jobs : job'[k].pc = "copy" <=> job[k].pc = "copy"
  PROVE  SwapInv'
  BY DEF SwapInv, Swapping

LEMMA StagingMoves ==
  ASSUME JobInv, StagingInv, NEW j \in Jobs, NEW r, Moves(j, r), hist'.killed = hist.killed,
         \A d \in Dirs : staging'[d].there =>
            Holds(r, d) \/ (staging[d].there /\ ~Holds(job[j], d))
  PROVE  StagingInv'
<1>1. job'[j] = r /\ \A k \in Jobs \ {j} : job'[k] = job[k]
  BY MovesFacts
<1> QED BY <1>1 DEF StagingInv, Owns

\* The only copier moves.
LEMMA FilesAlone ==
  ASSUME JobInv, NEW j \in Jobs, NEW r, Moves(j, r),
         \A k \in Jobs \ {j} : ~Copying(k),
         r.pc = "apply" => /\ 2 \notin r.todo => files'["Dockerfile.server"] = r.ver
                           /\ 4 \notin r.todo => files'["docker-compose.yml"] = r.ver,
         r.pc # "apply" => OneVersion',
         r.pc = "walk" =>
            staging'[IF r.kind = "update" THEN "update" ELSE "setup"].has = Entries
  PROVE  FilesInv'
<1>1. job'[j] = r /\ \A k \in Jobs \ {j} : job'[k] = job[k]
  BY MovesFacts
<1>2. \A k \in Jobs \ {j} : job'[k].pc \notin CopyPCs
  BY <1>1 DEF Copying, CopyPCs
<1>3. \A k \in Jobs : Copying(k)' => k = j
  BY <1>2 DEF Copying, CopyPCs
<1>4. \A k \in Jobs \ {j} : job'[k].pc # "apply" /\ job'[k].pc # "walk"
  BY <1>2 DEF CopyPCs
<1> QED BY <1>1, <1>3, <1>4 DEF FilesInv, Written, Dir

\* Jobs end, but none in the middle of its walk.
LEMMA FilesEnd ==
  ASSUME TypeInv, FilesInv, ~hist.torn, Ensured,
         \A k \in Jobs : job'[k] = job[k] \/ (job'[k].pc \notin CopyPCs /\ job[k].pc # "apply"),
         \A d \in Dirs : staging'[d] = staging[d] \/ ~staging'[d].there
  PROVE  FilesInv'
<1>1. \A k \in Jobs : Copying(k)' => Copying(k) /\ job'[k] = job[k]
  BY DEF Copying, CopyPCs
<1>2. (\A k \in Jobs : job'[k].pc # "apply") => (\A k \in Jobs : job[k].pc # "apply")
  OBVIOUS
<1>3. \A k \in Jobs : job'[k].pc \in {"apply", "walk"} => job'[k] = job[k]
  BY DEF CopyPCs
<1>0. files \in FilesType /\ \A k \in Jobs : Shape(job[k])
  BY DEF TypeInv, InstallationOK, JobInv, FilesType
<1>4. \A k \in Jobs : job'[k] = job[k] =>
        /\ Dir(k)' = Dir(k) /\ Dir(k) \in Dirs
        /\ job[k].pc = "apply" => (Written(k) => Written(k)')
  <2>1. \A k \in Jobs : job'[k] = job[k] /\ job[k].pc = "apply" /\ Written(k) => Written(k)'
    <3> SUFFICES ASSUME NEW k \in Jobs, job'[k] = job[k], job[k].pc = "apply", Written(k)
                 PROVE  Written(k)'
      OBVIOUS
    <3>1. job[k].ver # "none"
      BY <1>0 DEF Shape
    <3> QED BY <1>0, <3>1, EnsuredKeeps DEF Written, ProjectFiles
  <2> QED BY <2>1 DEF Dir, Dirs
<1>5. OneVersion => OneVersion'
  BY <1>0, EnsuredKeeps
<1> QED BY <1>1, <1>2, <1>3, <1>4, <1>5 DEF FilesInv

LEMMA FileStepWhole ==
  ASSUME TypeInv, WholeInv, NEW j \in Jobs
  PROVE  /\ \A result \in {"ok", "main", "failed"} : Download(j, result) => WholeInv'
         /\ \A ok \in BOOLEAN : Extract(j, ok) \/ ApplyFile(j, ok) => WholeInv'
         /\ Walk(j) \/ Applied(j) => WholeInv'
<1>0. /\ hist \in HistType /\ JobInv /\ InstallationOK
      /\ job[j] \in JobType /\ Shape(job[j]) /\ Dir(j) \in Dirs
      /\ staging \in [Dirs -> [there : BOOLEAN, has : SUBSET Entries]]
      /\ SwapInv /\ StagingInv /\ FilesInv
  BY ReadingJobs DEF TypeInv, WholeInv, InstallationOK, Dir, Dirs
<1>1. NoDir.there = FALSE
  BY DEF NoDir
\* A job that is copying is the only one.
<1>2. ASSUME job[j].pc \in CopyPCs, ~hist.torn
      PROVE  /\ \A k \in Jobs \ {j} : ~Copying(k)
             /\ job[j].pc # "apply" => OneVersion
             /\ job[j].pc = "apply" => Written(j)
  <2>1. \A k \in Jobs \ {j} : ~Copying(k)
    BY <1>0, <1>2 DEF FilesInv, Copying, CopyPCs
  <2>2. \A k \in Jobs \ {j} : job[k].pc # "apply"
    BY <2>1 DEF Copying
  <2> QED BY <1>0, <1>2, <2>1, <2>2 DEF FilesInv
<1>3. ASSUME NEW r, Moves(j, r), r.pc # "copy", job[j].pc # "copy",
             UNCHANGED exe, hist'.swaps = hist.swaps
      PROVE  SwapInv'
  <2>1. job'[j] = r /\ \A k \in Jobs \ {j} : job'[k] = job[k]
    BY <1>0, <1>3, MovesFacts
  <2> QED BY <1>0, <1>3, <2>1, SwapFrame
\* The job ends its file work and removes its directory.
<1>4. ASSUME FilesDone(j, TRUE), RemoveStaging(j), job[j].pc \in {"extract", "walk", "apply"},
             UNCHANGED exe, hist'.swaps = hist.swaps, hist'.killed = hist.killed,
             \/ hist'.torn
             \/ hist'.torn = hist.torn /\ UNCHANGED files /\ job[j].pc # "apply"
      PROVE  WholeInv'
  <2>1. PICK r : Moves(j, r) /\ r.pc \notin CopyPCs
    <3>1. IdleJob.pc = "idle"
      BY DEF IdleJob
    <3> QED BY <1>4, <3>1, AtIs DEF FilesDone, CopyPCs
  <2>2. job[j].kind \in {"update", "setup"}
    BY <1>0, <1>4 DEF Shape
  <2>3. SwapInv'
    BY <1>3, <1>4, <2>1 DEF CopyPCs
  <2>4. StagingInv'
    <3>1. staging' = [staging EXCEPT ![Dir(j)] = NoDir]
      BY <1>4 DEF RemoveStaging
    <3>2. \A d \in Dirs : Holds(job[j], d) => d = Dir(j)
      BY <2>2 DEF Holds, Dir
    <3>3. \A d \in Dirs : staging'[d].there => staging[d].there /\ ~Holds(job[j], d)
      BY <1>0, <1>1, <3>1, <3>2
    <3> QED BY <1>0, <1>4, <2>1, <3>3, StagingMoves
  <2>5. FilesInv'
    <3>1. CASE hist'.torn
      BY <3>1 DEF FilesInv
    <3>2. CASE ~hist'.torn
      <4>1. ~hist.torn /\ UNCHANGED files /\ OneVersion /\ \A k \in Jobs \ {j} : ~Copying(k)
        BY <1>2, <1>4, <3>2 DEF CopyPCs
      <4>2. OneVersion'
        BY <4>1 DEF OneVersion
      <4>3. r.pc # "apply" /\ r.pc # "walk"
        BY <2>1 DEF CopyPCs
      <4> QED BY <1>0, <2>1, <4>1, <4>2, <4>3, FilesAlone
    <3> QED BY <3>1, <3>2
  <2> QED BY <2>3, <2>4, <2>5 DEF WholeInv
<1>5. ASSUME NEW result \in {"ok", "main", "failed"}, Download(j, result) PROVE WholeInv'
  <2>0. job[j].pc = "download" /\ job[j].kind \in {"update", "setup"} /\ UNCHANGED <<exe, files>>
    BY <1>0, <1>5 DEF Download, Shape
  <2>1. CASE FilesDone(j, TRUE) /\ result = "failed"
    <3>1. UNCHANGED staging /\ UNCHANGED hist
      BY <1>5, <2>1 DEF Download
    <3>2. PICK r : Moves(j, r) /\ r.pc \notin CopyPCs
      <4>1. IdleJob.pc = "idle"
        BY DEF IdleJob
      <4> QED BY <2>1, <4>1, AtIs DEF FilesDone, CopyPCs
    <3>3. AsBefore(job[j], r)
      BY <2>0, <3>2 DEF AsBefore, Holds, CopyPCs
    <3>4. FilesAside
      BY <1>0, <2>0, <3>1, <3>2, <3>3, MovesAside DEF FilesAside, Ensured
    <3> QED BY <3>4, FilesFrame
  <2>2. CASE result # "failed" /\ Moves(j, [job[j] EXCEPT !.pc = "extract", !.ver = ArchiveVersion(j, result)])
    <3> DEFINE r == [job[j] EXCEPT !.pc = "extract", !.ver = ArchiveVersion(j, result)]
    <3>1. r.pc = "extract" /\ r.kind = job[j].kind
      BY <1>0 DEF JobType
    <3>2. staging' = [staging EXCEPT ![Dir(j)] = [there |-> TRUE, has |-> {}]] /\ NoteOverlap(j)
      BY <1>5, <2>2 DEF Download
    <3>3. /\ hist'.torn = (hist.torn \/ \E k \in Jobs \ {j} : Copying(k))
          /\ hist'.swaps = hist.swaps /\ hist'.killed = hist.killed
      BY <1>0, <3>2 DEF NoteOverlap, HistType
    <3>4. SwapInv'
      BY <1>3, <2>0, <2>2, <3>1, <3>3
    <3>5. StagingInv'
      <4>1. Holds(r, Dir(j)) /\ \A d \in Dirs : ~Holds(job[j], d)
        BY <2>0, <3>1 DEF Holds, Dir
      <4>2. \A d \in Dirs \ {Dir(j)} : staging'[d] = staging[d]
        BY <1>0, <3>2
      <4> QED BY <1>0, <2>2, <3>3, <4>1, <4>2, StagingMoves
    <3>6. FilesInv'
      <4>1. CASE hist'.torn
        BY <4>1 DEF FilesInv
      <4>2. CASE ~hist'.torn
        <5>1. ~hist.torn /\ \A k \in Jobs \ {j} : ~Copying(k)
          BY <3>3, <4>2
        <5>2. \A k \in Jobs : job[k].pc # "apply"
          BY <2>0, <5>1 DEF Copying
        <5>3. OneVersion'
          BY <1>0, <2>0, <5>1, <5>2 DEF FilesInv, OneVersion
        <5> QED BY <1>0, <2>2, <3>1, <5>1, <5>3, FilesAlone
      <4> QED BY <4>1, <4>2
    <3> QED BY <3>4, <3>5, <3>6 DEF WholeInv
  <2> QED BY <1>0, <1>5, <2>1, <2>2, FileMoves
<1>6. ASSUME NEW ok \in BOOLEAN, Extract(j, ok) PROVE WholeInv'
  <2>0. job[j].pc = "extract" /\ UNCHANGED <<exe, files, hist>> /\ job[j].kind \in {"update", "setup"}
    BY <1>0, <1>6 DEF Extract, Shape
  <2>1. CASE ~ok /\ FilesDone(j, TRUE)
    <3>1. RemoveStaging(j)
      BY <1>6, <2>1 DEF Extract, Extracted
    <3> QED BY <1>4, <2>0, <2>1, <3>1
  <2>2. CASE ok /\ Moves(j, [job[j] EXCEPT !.pc = "walk"])
    <3> DEFINE r == [job[j] EXCEPT !.pc = "walk"]
    <3>1. r.pc = "walk" /\ r.kind = job[j].kind
      BY <1>0 DEF JobType
    <3>2. staging' = [staging EXCEPT ![Dir(j)] = [there |-> TRUE, has |-> Entries]]
      BY <1>6, <2>2 DEF Extract, Extracted
    <3>3. SwapInv'
      BY <1>3, <2>0, <2>2, <3>1
    <3>4. StagingInv'
      <4>1. Holds(r, Dir(j)) /\ \A d \in Dirs : Holds(job[j], d) => d = Dir(j)
        BY <2>0, <3>1 DEF Holds, Dir
      <4>2. \A d \in Dirs \ {Dir(j)} : staging'[d] = staging[d]
        BY <1>0, <3>2
      <4> QED BY <1>0, <2>0, <2>2, <4>1, <4>2, StagingMoves
    <3>5. FilesInv'
      <4>1. CASE hist.torn
        BY <2>0, <4>1 DEF FilesInv
      <4>2. CASE ~hist.torn
        <5>1. OneVersion' /\ \A k \in Jobs \ {j} : ~Copying(k)
          BY <1>2, <2>0, <4>2 DEF OneVersion, CopyPCs
        <5>2. staging'[IF r.kind = "update" THEN "update" ELSE "setup"].has = Entries
          BY <1>0, <3>1, <3>2 DEF Dir
        <5> QED BY <1>0, <2>2, <3>1, <5>1, <5>2, FilesAlone
      <4> QED BY <4>1, <4>2
    <3> QED BY <3>3, <3>4, <3>5 DEF WholeInv
  <2> QED BY <1>0, <1>6, <2>1, <2>2, FileMoves
<1>7. ASSUME NEW ok \in BOOLEAN, ApplyFile(j, ok) PROVE WholeInv'
  <2>0. job[j].pc = "apply" /\ UNCHANGED exe /\ job[j].kind \in {"update", "setup"}
    BY <1>0, <1>7 DEF ApplyFile, Shape
  <2>1. PICK i \in job[j].todo :
           /\ i \in Listed /\ Archive[i] \in ProjectFiles
           /\ \/ /\ ok
                 /\ Moves(j, [job[j] EXCEPT !.todo = @ \ {i}])
                 /\ files' = [files EXCEPT ![Archive[i]] = job[j].ver]
                 /\ UNCHANGED <<staging, hist, env>>
              \/ /\ ~ok
                 /\ FilesDone(j, TRUE)
                 /\ RemoveStaging(j)
                 /\ hist' = [hist EXCEPT !.torn = TRUE]
                 /\ UNCHANGED <<files, env>>
    BY <1>0, <1>7, ApplyFileMoves
  <2>2. CASE ~ok
    <3>1. FilesDone(j, TRUE) /\ RemoveStaging(j) /\ hist' = [hist EXCEPT !.torn = TRUE]
      BY <2>1, <2>2
    <3>2. hist'.torn /\ hist'.swaps = hist.swaps /\ hist'.killed = hist.killed
      BY <1>0, <3>1 DEF HistType
    <3> QED BY <1>4, <2>0, <3>1, <3>2
  <2>3. CASE ok
    <3> DEFINE r == [job[j] EXCEPT !.todo = @ \ {i}]
    <3>1. /\ Moves(j, r) /\ files' = [files EXCEPT ![Archive[i]] = job[j].ver]
          /\ UNCHANGED <<staging, hist>>
      BY <2>1, <2>3
    <3>2. /\ r.pc = "apply" /\ r.kind = job[j].kind /\ r.todo = job[j].todo \ {i}
          /\ r.ver = job[j].ver
      BY <1>0, <2>0 DEF JobType
    <3>3. SwapInv'
      BY <1>3, <2>0, <3>1, <3>2
    <3>4. StagingInv'
      <4>1. \A d \in Dirs : Holds(job[j], d) => Holds(r, d)
        BY <2>0, <3>2 DEF Holds
      <4> QED BY <1>0, <3>1, <4>1, StagingMoves
    <3>5. FilesInv'
      <4>1. CASE hist.torn
        BY <3>1, <4>1 DEF FilesInv
      <4>2. CASE ~hist.torn
        <5>1. Written(j) /\ \A k \in Jobs \ {j} : ~Copying(k)
          BY <1>2, <2>0, <4>2 DEF CopyPCs
        <5>2. Archive[2] = "Dockerfile.server" /\ Archive[4] = "docker-compose.yml"
          BY DEF Archive
        <5>3. files \in FilesType /\ ProjectFiles = {"Dockerfile.server", "docker-compose.yml"}
          BY <1>0 DEF InstallationOK, FilesType, ProjectFiles
        <5>4. i \in {2, 4}
          BY <2>1 DEF Listed
        <5>5. 2 \notin r.todo => files'["Dockerfile.server"] = r.ver
          BY <3>1, <3>2, <5>1, <5>2, <5>3, <5>4 DEF Written, FilesType
        <5>6. 4 \notin r.todo => files'["docker-compose.yml"] = r.ver
          BY <3>1, <3>2, <5>1, <5>2, <5>3, <5>4 DEF Written, FilesType
        <5> QED BY <1>0, <3>1, <3>2, <5>1, <5>5, <5>6, FilesAlone
      <4> QED BY <4>1, <4>2
    <3> QED BY <3>3, <3>4, <3>5 DEF WholeInv
  <2> QED BY <2>2, <2>3
<1>8. CASE Walk(j)
  <2>0. job[j].pc = "walk" /\ UNCHANGED <<exe, files, hist>> /\ job[j].kind \in {"update", "setup"}
    BY <1>0, <1>8 DEF Walk, Shape
  <2>1. CASE FilesDone(j, TRUE) /\ RemoveStaging(j) /\ ~staging[Dir(j)].there
    BY <1>4, <2>0, <2>1
  <2>2. CASE /\ staging[Dir(j)].there
             /\ Moves(j, [job[j] EXCEPT !.pc = "apply", !.todo = staging[Dir(j)].has \cap Listed])
             /\ UNCHANGED staging
    <3> DEFINE r == [job[j] EXCEPT !.pc = "apply", !.todo = staging[Dir(j)].has \cap Listed]
    <3>1. r.pc = "apply" /\ r.kind = job[j].kind /\ r.todo = staging[Dir(j)].has \cap Listed
      BY <1>0 DEF JobType
    <3>2. SwapInv'
      BY <1>3, <2>0, <2>2, <3>1
    <3>3. StagingInv'
      <4>1. \A d \in Dirs : Holds(job[j], d) => Holds(r, d)
        BY <2>0, <3>1 DEF Holds
      <4> QED BY <1>0, <2>0, <2>2, <4>1, StagingMoves
    <3>4. FilesInv'
      <4>1. CASE hist.torn
        BY <2>0, <4>1 DEF FilesInv
      <4>2. CASE ~hist.torn
        <5>1. \A k \in Jobs \ {j} : ~Copying(k)
          BY <1>2, <2>0, <4>2 DEF CopyPCs
        <5>2. staging[Dir(j)].has = Entries
          BY <1>0, <2>0, <2>2, <4>2 DEF FilesInv
        <5>3. {2, 4} \subseteq Entries
          <6>1. Len(Archive) = 4
            BY DEF Archive
          <6> QED BY <6>1 DEF Entries
        <5>4. 2 \in r.todo /\ 4 \in r.todo
          BY <3>1, <5>2, <5>3 DEF Listed
        <5> QED BY <1>0, <2>2, <3>1, <5>1, <5>4, FilesAlone
      <4> QED BY <4>1, <4>2
    <3> QED BY <3>2, <3>3, <3>4 DEF WholeInv
  <2> QED BY <1>0, <1>8, <2>1, <2>2, WalkMoves
<1>9. CASE Applied(j)
  <2>0. /\ job[j].pc = "apply" /\ job[j].todo = {} /\ UNCHANGED <<exe, files, hist>>
        /\ job[j].kind \in {"update", "setup"}
        /\ IF Dir(j) = "setup" THEN RemoveStaging(j) ELSE UNCHANGED staging
    BY <1>0, <1>9 DEF Applied, Shape
  <2>1. PICK r : /\ Moves(j, r) /\ r.pc \notin {"apply", "walk", "copy", "extract"}
                 /\ job[j].kind = "update" => r = At("update", "swap")
    <3>1. FilesDone(j, FALSE)
      BY <1>0, <1>9, FileMoves
    <3>2. CASE job[j].kind = "update"
      BY <3>1, <3>2, AtIs DEF FilesDone
    <3>3. CASE job[j].kind = "setup"
      BY <3>1, <3>3, AtIs DEF FilesDone
    <3> QED BY <2>0, <3>2, <3>3
  <2>2. SwapInv'
    BY <1>3, <2>0, <2>1
  <2>3. StagingInv'
    <3>1. CASE job[j].kind = "update"
      <4>1. UNCHANGED staging /\ \A d \in Dirs : Holds(job[j], d) => Holds(r, d)
        BY <2>0, <2>1, <3>1, AtIs DEF Dir, Holds
      <4> QED BY <1>0, <2>0, <2>1, <4>1, StagingMoves
    <3>2. CASE job[j].kind = "setup"
      <4>1. staging' = [staging EXCEPT !["setup"] = NoDir]
        BY <2>0, <3>2 DEF Dir, RemoveStaging
      <4>2. \A d \in Dirs : Holds(job[j], d) => d = "setup"
        BY <3>2 DEF Holds
      <4>3. \A d \in Dirs : staging'[d].there => staging[d].there /\ ~Holds(job[j], d)
        BY <1>0, <1>1, <4>1, <4>2
      <4> QED BY <1>0, <2>0, <2>1, <4>3, StagingMoves
    <3> QED BY <2>0, <3>1, <3>2
  <2>4. FilesInv'
    <3>1. CASE hist.torn
      BY <2>0, <3>1 DEF FilesInv
    <3>2. CASE ~hist.torn
      <4>1. Written(j) /\ \A k \in Jobs \ {j} : ~Copying(k)
        BY <1>2, <2>0, <3>2 DEF CopyPCs
      <4>2. OneVersion'
        BY <2>0, <4>1 DEF Written, OneVersion
      <4> QED BY <1>0, <2>1, <4>1, <4>2, FilesAlone
    <3> QED BY <3>1, <3>2
  <2> QED BY <2>2, <2>3, <2>4 DEF WholeInv
<1> QED BY <1>5, <1>6, <1>7, <1>8, <1>9

\* What history notes when a process ends.
LEMMA NoteFacts ==
  ASSUME hist \in HistType, NEW swapping \in BOOLEAN, NEW ended, Note(swapping, ended)
  PROVE  /\ hist'.swaps = (hist.swaps \/ (swapping /\ \E k \in Jobs : job[k].pc = "copy"))
         /\ hist'.torn = (hist.torn \/ \E k \in ended : Copying(k))
         /\ hist'.killed = (hist.killed \/ \E k \in ended : job[k].kind \in {"update", "setup"})
  BY DEF Note, HistType

\* Job j goes on to something that is not copying, and the jobs in ended end.
Leave(j, ended) ==
    /\ job'[j].pc \notin CopyPCs
    /\ \A k \in Jobs \ {j} : job'[k] = IF k \in ended THEN IdleJob ELSE job[k]

LEMMA UpdateEndLeaves ==
  ASSUME JobInv, NEW j \in Jobs, NEW x, UpdateEnds(j, x)
  PROVE  /\ Leave(j, EndedBy(j))
         /\ exe' = x \/ exe' = Cleanup(x)
         /\ staging' = [staging EXCEPT !["update"] = NoDir]
         /\ Ensured
<1>1. IdleJob.pc \notin CopyPCs
  BY DEF IdleJob, CopyPCs
<1>2. CASE j \in GuiJobs
  BY <1>1, <1>2, NewProcessJobs DEF UpdateEnds, Leave, EndedBy, Jobs
<1>3. CASE j \notin GuiJobs
  BY <1>1, <1>3, MovesFacts DEF UpdateEnds, Leave, EndedBy
<1> QED BY <1>2, <1>3 DEF UpdateEnds

LEMMA SwapEndLeaves ==
  ASSUME JobInv, NEW j \in Jobs, NEW x, SwapDone(j, x)
  PROVE  /\ Leave(j, EndedBySwap(j))
         /\ exe' = x \/ exe' = Cleanup(x)
         /\ \/ staging' = [staging EXCEPT !["update"] = NoDir]
            \/ UNCHANGED staging /\ job'[j] = AgainJob /\ job[j].kind = "update"
         /\ Ensured
<1>1. CASE cont.there
  <2>1. AgainJob.pc \notin CopyPCs
    BY AgainFacts DEF CopyPCs
  <2> QED BY <1>1, <2>1, MovesFacts DEF SwapDone, Leave, EndedBySwap, Ensured
<1>2. CASE ~cont.there
  BY <1>2, UpdateEndLeaves DEF SwapDone, EndedBySwap
<1> QED BY <1>1, <1>2

\* The directories of the jobs that go on are theirs.
LEMMA StagingLeaves ==
  ASSUME StagingInv, NEW j \in Jobs, NEW ended \in SUBSET Jobs, Leave(j, ended),
         job[j].kind = "update",
         hist'.killed = (hist.killed \/ \E k \in ended : job[k].kind \in {"update", "setup"}),
         staging \in [Dirs -> [there : BOOLEAN, has : SUBSET Entries]],
         \/ staging' = [staging EXCEPT !["update"] = NoDir]
         \/ UNCHANGED staging /\ job'[j] = AgainJob
  PROVE  StagingInv'
<1> SUFFICES ASSUME NEW d \in Dirs, staging'[d].there, ~hist'.killed
             PROVE  \E k \in Jobs : Owns(k, d)'
  BY DEF StagingInv
<1>1. NoDir.there = FALSE
  BY DEF NoDir
<1>2. staging[d].there /\ ~hist.killed
  BY <1>1
<1>3. PICK k \in Jobs : Holds(job[k], d)
  BY <1>2 DEF StagingInv, Owns
<1>4. job[k].kind \in {"update", "setup"} /\ k \notin ended
  BY <1>3 DEF Holds
<1>5. CASE k # j
  BY <1>3, <1>4, <1>5 DEF Leave, Owns
<1>6. CASE k = j
  <2>1. d = "update"
    BY <1>3, <1>6 DEF Holds
  <2>2. job'[j] = AgainJob
    BY <1>1, <2>1
  <2>3. Holds(AgainJob, "update")
    BY AgainFacts DEF Holds
  <2> QED BY <2>1, <2>2, <2>3 DEF Owns
<1> QED BY <1>5, <1>6

LEMMA FilesLeave ==
  ASSUME FilesInv, NEW j \in Jobs, NEW ended \in SUBSET Jobs, Leave(j, ended),
         job[j].pc # "apply", TypeInv, Ensured,
         hist'.torn = (hist.torn \/ \E k \in ended : Copying(k)),
         staging \in [Dirs -> [there : BOOLEAN, has : SUBSET Entries]],
         staging' = [staging EXCEPT !["update"] = NoDir] \/ UNCHANGED staging
  PROVE  FilesInv'
<1>1. CASE hist'.torn
  BY <1>1 DEF FilesInv
<1>2. CASE ~hist'.torn
  <2>1. ~hist.torn /\ \A k \in ended : job[k].pc # "apply"
    BY <1>2 DEF Copying
  <2>2. IdleJob.pc \notin CopyPCs
    BY DEF IdleJob, CopyPCs
  <2>3. \A k \in Jobs : job'[k] = job[k] \/ (job'[k].pc \notin CopyPCs /\ job[k].pc # "apply")
    BY <2>1, <2>2 DEF Leave
  <2>4. \A d \in Dirs : staging'[d] = staging[d] \/ ~staging'[d].there
    BY DEF NoDir
  <2> QED BY <2>1, <2>3, <2>4, FilesEnd
<1> QED BY <1>1, <1>2

\* No swap is under way when the job goes on, and the executable is there.
LEMMA SwapLeaves ==
  ASSUME NEW j \in Jobs, NEW ended \in SUBSET Jobs, Leave(j, ended),
         \A k \in Jobs \ {j} : ~Swapping(k),
         NEW x, x.cur # "none", x \in [cur : Versions, old : Versions],
         exe' = x \/ exe' = Cleanup(x)
  PROVE  SwapInv'
<1>1. \A k \in Jobs : job'[k].pc # "copy"
  <2>1. IdleJob.pc # "copy"
    BY DEF IdleJob
  <2> QED BY <2>1 DEF Leave, Swapping, CopyPCs
<1>2. exe'.cur # "none"
  BY DEF Cleanup
<1> QED BY <1>1, <1>2 DEF SwapInv, Swapping

LEMMA ExecutableStepWhole ==
  ASSUME TypeInv, WholeInv, NEW j \in Jobs, NEW ok \in BOOLEAN,
         HotSwap(j, ok) \/ RenameExecutable(j, ok) \/ CopyExecutable(j, ok) \/ Compose(j, ok)
  PROVE  WholeInv'
<1>0. /\ hist \in HistType /\ JobInv
      /\ job[j] \in JobType /\ Shape(job[j])
      /\ staging \in [Dirs -> [there : BOOLEAN, has : SUBSET Entries]]
      /\ exe \in [cur : Versions, old : Versions]
      /\ files \in FilesType
      /\ SwapInv /\ StagingInv /\ FilesInv
  BY ReadingJobs DEF TypeInv, WholeInv, InstallationOK, FilesType
<1>1. EndedBy(j) \in SUBSET Jobs /\ EndedBySwap(j) \in SUBSET Jobs
  BY DEF EndedBy, EndedBySwap, Jobs
<1>2. job[j].pc \in {"swap", "copy"} => job[j].kind = "update"
  BY <1>0 DEF Shape
<1>3. "none" \in Versions /\ "new" \in Versions /\ "new" # "none"
  BY DEF Versions
\* The end of a swap, for the files and the directories.
<1>4. ASSUME NEW x, SwapDone(j, x), NEW swapping \in BOOLEAN, Note(swapping, EndedBySwap(j)),
             job[j].pc \in {"swap", "copy"}
      PROVE  StagingInv' /\ FilesInv'
  <2>1. /\ hist'.torn = (hist.torn \/ \E k \in EndedBySwap(j) : Copying(k))
        /\ hist'.killed = (hist.killed \/ \E k \in EndedBySwap(j) : job[k].kind \in {"update", "setup"})
    BY <1>0, <1>4, NoteFacts
  <2>2. /\ Leave(j, EndedBySwap(j))
        /\ \/ staging' = [staging EXCEPT !["update"] = NoDir]
           \/ UNCHANGED staging /\ job'[j] = AgainJob
        /\ Ensured
    BY <1>0, <1>4, SwapEndLeaves
  <2>3. StagingInv'
    BY <1>0, <1>1, <1>2, <1>4, <2>1, <2>2, StagingLeaves
  <2>4. job[j].pc # "apply"
    BY <1>4
  <2>5. FilesInv'
    BY <1>0, <1>1, <1>4, <2>1, <2>2, <2>4, FilesLeave
  <2> QED BY <2>3, <2>5
\* The end of a swap with the executable in place.
<1>5. ASSUME NEW x \in [cur : Versions, old : Versions], x.cur # "none", SwapDone(j, x),
             \A k \in Jobs \ {j} : ~Swapping(k)
      PROVE  SwapInv'
  <2>1. Leave(j, EndedBySwap(j)) /\ (exe' = x \/ exe' = Cleanup(x))
    BY <1>0, <1>5, SwapEndLeaves
  <2> QED BY <1>1, <1>5, <2>1, SwapLeaves
\* Without a swap under way the executable is there.
<1>6. ASSUME ~hist.swaps, ~ \E k \in Jobs : job[k].pc = "copy"
      PROVE  exe.cur # "none" /\ \A k \in Jobs : ~Swapping(k)
  BY <1>0, <1>6 DEF SwapInv, Swapping
<1>7. CASE HotSwap(j, ok)
  <2> DEFINE x == IF ok THEN [exe EXCEPT !.cur = "new"] ELSE exe
  <2>1. SwapDone(j, x) /\ Note(TRUE, EndedBySwap(j)) /\ job[j].pc = "swap"
    BY <1>0, <1>7, ExecutableMoves DEF HotSwap
  <2>2. hist'.swaps = (hist.swaps \/ \E k \in Jobs : job[k].pc = "copy")
    BY <1>0, <2>1, NoteFacts
  <2>3. SwapInv'
    <3>1. CASE hist'.swaps
      BY <3>1 DEF SwapInv
    <3>2. CASE ~hist'.swaps
      <4>1. exe.cur # "none" /\ \A k \in Jobs : ~Swapping(k)
        BY <1>6, <2>2, <3>2
      <4>2. x \in [cur : Versions, old : Versions] /\ x.cur # "none"
        BY <1>0, <1>3, <4>1
      <4> QED BY <1>5, <2>1, <4>1, <4>2
    <3> QED BY <3>1, <3>2
  <2>4. StagingInv' /\ FilesInv'
    BY <1>4, <2>1
  <2> QED BY <2>3, <2>4 DEF WholeInv
<1>8. CASE RenameExecutable(j, ok)
  <2>1. /\ ok => Note(TRUE, {})
        /\ ~ok => Note(TRUE, EndedBySwap(j))
        /\ job[j].pc = "swap" /\ job[j].kind = "update"
    BY <1>2, <1>8 DEF RenameExecutable
  <2>2. /\ hist'.swaps = (hist.swaps \/ \E k \in Jobs : job[k].pc = "copy")
        /\ ok => hist'.torn = hist.torn /\ hist'.killed = hist.killed
    <3>1. CASE ok
      BY <1>0, <2>1, <3>1 DEF Note, HistType
    <3>2. CASE ~ok
      BY <1>0, <2>1, <3>2, NoteFacts
    <3> QED BY <3>1, <3>2
  <2>3. CASE ~ok /\ SwapDone(j, [exe EXCEPT !.old = "none"])
    <3>1. SwapInv'
      <4>1. CASE hist'.swaps
        BY <4>1 DEF SwapInv
      <4>2. CASE ~hist'.swaps
        <5>1. exe.cur # "none" /\ \A k \in Jobs : ~Swapping(k)
          BY <1>6, <2>2, <4>2
        <5>2. [exe EXCEPT !.old = "none"] \in [cur : Versions, old : Versions]
              /\ [exe EXCEPT !.old = "none"].cur # "none"
          BY <1>0, <1>3, <5>1
        <5> QED BY <1>5, <2>3, <5>1, <5>2
      <4> QED BY <4>1, <4>2
    <3>2. StagingInv' /\ FilesInv'
      BY <1>4, <2>1, <2>3
    <3> QED BY <3>1, <3>2 DEF WholeInv
  <2>4. CASE /\ ok /\ exe.cur # "none"
             /\ Moves(j, [job[j] EXCEPT !.pc = "copy"])
             /\ exe' = [cur |-> "none", old |-> exe.cur]
             /\ UNCHANGED <<staging, files>>
    <3> DEFINE r == [job[j] EXCEPT !.pc = "copy"]
    <3>0. /\ r.pc = "copy" /\ r.kind = "update" /\ job'[j] = r
          /\ \A k \in Jobs \ {j} : job'[k] = job[k]
      BY <1>0, <2>1, <2>4, MovesFacts DEF JobType
    <3>1. SwapInv'
      <4>1. CASE hist'.swaps
        BY <4>1 DEF SwapInv
      <4>2. CASE ~hist'.swaps
        <5>1. \A k \in Jobs : ~Swapping(k)
          BY <1>6, <2>2, <4>2
        <5>2. \A k \in Jobs : Swapping(k)' <=> k = j
          BY <3>0, <5>1 DEF Swapping
        <5>3. exe'.old # "none"
          BY <2>4
        <5> QED BY <5>2, <5>3 DEF SwapInv
      <4> QED BY <4>1, <4>2
    <3>2. StagingInv'
      <4>1. CASE hist'.killed
        BY <4>1 DEF StagingInv
      <4>2. CASE ~hist'.killed
        <5>1. hist'.killed = hist.killed
          BY <1>0, <2>2, <2>4, <4>2 DEF HistType
        <5>2. \A d \in Dirs : Holds(job[j], d) => Holds(r, d)
          BY <2>1, <3>0 DEF Holds
        <5> QED BY <1>0, <2>4, <5>1, <5>2, StagingMoves
      <4> QED BY <4>1, <4>2
    <3>3. FilesInv'
      <4>1. CASE hist'.torn
        BY <4>1 DEF FilesInv
      <4>2. CASE ~hist'.torn
        <5>1. ~hist.torn /\ \A k \in Jobs \ {j} : ~Copying(k)
          BY <1>0, <2>1, <2>2, <2>4, <4>2 DEF FilesInv, Copying
        <5>2. \A k \in Jobs : job[k].pc # "apply"
          BY <2>1, <5>1 DEF Copying
        <5>3. OneVersion'
          BY <1>0, <2>4, <5>1, <5>2 DEF FilesInv, OneVersion
        <5> QED BY <1>0, <2>4, <3>0, <5>1, <5>3, FilesAlone
      <4> QED BY <4>1, <4>2
    <3> QED BY <3>1, <3>2, <3>3 DEF WholeInv
  <2> QED BY <1>0, <1>8, <2>3, <2>4, ExecutableMoves
<1>9. CASE CopyExecutable(j, ok)
  <2> DEFINE x == IF ok THEN [exe EXCEPT !.cur = "new"] ELSE Rollback
  <2>1. SwapDone(j, x) /\ Note(FALSE, EndedBySwap(j)) /\ job[j].pc = "copy"
    BY <1>0, <1>9, ExecutableMoves DEF CopyExecutable
  <2>2. hist'.swaps = hist.swaps
    BY <1>0, <2>1, NoteFacts DEF HistType
  <2>3. SwapInv'
    <3>1. CASE hist.swaps
      BY <2>2, <3>1 DEF SwapInv
    <3>2. CASE ~hist.swaps
      <4>1. exe.old # "none" /\ \A k \in Jobs \ {j} : ~Swapping(k)
        BY <1>0, <2>1, <3>2 DEF SwapInv, Swapping
      <4>2. x \in [cur : Versions, old : Versions] /\ x.cur # "none"
        BY <1>0, <1>3, <4>1 DEF Rollback
      <4> QED BY <1>5, <2>1, <4>1, <4>2
    <3> QED BY <3>1, <3>2
  <2>4. StagingInv' /\ FilesInv'
    BY <1>4, <2>1
  <2> QED BY <2>3, <2>4 DEF WholeInv
<1>10. CASE Compose(j, ok)
  <2>0. job[j].pc = "compose"
    BY <1>10 DEF Compose
  <2>1. CASE job[j].kind = "update" /\ UpdateEnds(j, exe)
    <3>0. Note(j \in GuiJobs, EndedBy(j))
      BY <1>10, <2>1 DEF Compose
    <3>1. /\ hist'.swaps = (hist.swaps \/ (j \in GuiJobs /\ \E k \in Jobs : job[k].pc = "copy"))
          /\ hist'.torn = (hist.torn \/ \E k \in EndedBy(j) : Copying(k))
          /\ hist'.killed = (hist.killed \/ \E k \in EndedBy(j) : job[k].kind \in {"update", "setup"})
      BY <1>0, <3>0 DEF Note, HistType
    <3>2. /\ Leave(j, EndedBy(j)) /\ (exe' = exe \/ exe' = Cleanup(exe))
          /\ staging' = [staging EXCEPT !["update"] = NoDir] /\ Ensured
      BY <1>0, <2>1, UpdateEndLeaves
    <3>3. StagingInv'
      BY <1>0, <1>1, <2>1, <3>1, <3>2, StagingLeaves
    <3>4. FilesInv'
      BY <1>0, <1>1, <2>0, <3>1, <3>2, FilesLeave
    <3>5. SwapInv'
      <4>1. CASE hist'.swaps
        BY <4>1 DEF SwapInv
      <4>2. CASE ~hist'.swaps /\ j \in GuiJobs
        <5>1. exe.cur # "none" /\ \A k \in Jobs : ~Swapping(k)
          BY <1>6, <3>1, <4>2
        <5> QED BY <1>0, <1>1, <3>2, <5>1, SwapLeaves
      <4>3. CASE ~hist'.swaps /\ j \notin GuiJobs
        <5>1. /\ exe' = exe /\ job'[j] = IdleJob
              /\ \A k \in Jobs \ {j} : job'[k] = job[k]
          BY <1>0, <2>1, <4>3, MovesFacts DEF UpdateEnds
        <5>2. hist'.swaps = hist.swaps
          BY <1>0, <3>1, <4>3 DEF HistType
        <5>3. \A k \in Jobs : job'[k].pc = "copy" <=> job[k].pc = "copy"
          BY <2>0, <5>1 DEF IdleJob
        <5> QED BY <1>0, <5>1, <5>2, <5>3, SwapFrame
      <4> QED BY <4>1, <4>2, <4>3
    <3> QED BY <3>3, <3>4, <3>5 DEF WholeInv
  <2>2. CASE job[j].kind # "update" /\ Moves(j, IdleJob) /\ UNCHANGED <<staging, exe, files>>
    <3>1. Note(FALSE, {})
      BY <1>10, <2>2 DEF Compose
    <3>2. hist'.swaps = hist.swaps /\ hist'.torn = hist.torn /\ hist'.killed = hist.killed
      BY <1>0, <3>1 DEF Note, HistType
    <3>3. AsBefore(job[j], IdleJob)
      BY <2>0, <2>2 DEF AsBefore, Holds, CopyPCs, IdleJob
    <3>4. FilesAside
      BY <1>0, <2>0, <2>2, <3>2, <3>3, MovesAside DEF FilesAside, Ensured
    <3> QED BY <3>4, FilesFrame
  <2> QED BY <1>0, <1>10, <2>1, <2>2, ExecutableMoves
<1> QED BY <1>7, <1>8, <1>9, <1>10

LEMMA WholeStep == TypeInv /\ WholeInv /\ [Next]_vars => WholeInv'
<1> SUFFICES ASSUME TypeInv, WholeInv, [Next]_vars PROVE WholeInv'
  OBVIOUS
<1>0. /\ hist \in HistType /\ JobInv /\ SwapInv /\ StagingInv /\ FilesInv
      /\ staging \in [Dirs -> [there : BOOLEAN, has : SUBSET Entries]]
      /\ exe \in [cur : Versions, old : Versions]
      /\ files \in FilesType
  BY DEF TypeInv, WholeInv, InstallationOK, FilesType
<1>1. ASSUME NEW j \in Jobs, JobStep(j) PROVE WholeInv'
  BY <1>1, FilesFrame, BackupStepAside, RestoreStepAside, RequestAside, FileStepWhole,
     ExecutableStepWhole
  DEF JobStep
<1>2. ASSUME NEW j \in Jobs,
             \/ handleBackup(j) \/ handleUpdateExecute(j) \/ handleSettingsRebuild(j)
             \/ commandBackup(j) \/ commandUpdate(j)
             \/ handleSetup(j) \/ commandInstall(j)
      PROVE  WholeInv'
  BY <1>2, RequestsAre, RequestAside, FilesFrame
<1>3. ASSUME NEW j \in Jobs, NEW n \in Names, handleBackupRestore(j, n) \/ commandRestore(j, n)
      PROVE  WholeInv'
  BY <1>3, RequestsAre, RestoreStepAside, FilesFrame
<1>4. ASSUME UNCHANGED <<exe, staging, job>>, Ensured, hist'.torn = hist.torn,
             hist'.swaps = hist.swaps, hist'.killed = hist.killed
      PROVE  WholeInv'
  <2>1. FilesAside
    BY <1>4 DEF FilesAside, AsBefore
  <2> QED BY <2>1, FilesFrame
<1>5. ASSUME ControlFrame PROVE WholeInv'
  BY <1>4, <1>5 DEF ControlFrame, Ensured
<1>6. CASE handleControl \/ AppWrite
  BY <1>5, <1>6 DEF handleControl, Start, ResetAll, Stop, Restart, Down, AppWrite
<1>7. ASSUME DirFrame, hist'.torn = hist.torn, hist'.swaps = hist.swaps, hist'.killed = hist.killed
      PROVE  WholeInv'
  BY <1>4, <1>7 DEF DirFrame, Ensured
<1>8. \A existing, counters : WriteConfig(existing, counters) =>
        hist'.torn = hist.torn /\ hist'.swaps = hist.swaps /\ hist'.killed = hist.killed
  BY <1>0 DEF WriteConfig, HistType
<1>9. CASE handleStatus
  BY <1>7, <1>8, <1>9 DEF handleStatus, DetectExisting
<1>10. CASE handleSettingsImport
  BY <1>7, <1>8, <1>10 DEF handleSettingsImport, ImportSettings
<1>11. CASE handleBackupsList
  BY <1>7, <1>11 DEF handleBackupsList, ListBackups
<1>12. ASSUME NEW n \in Names, NEW data, handleBackupUpload(n, data) PROVE WholeInv'
  <2>1. DirFrame /\ hist'.torn = hist.torn /\ hist'.swaps = hist.swaps /\ hist'.killed = hist.killed
    BY <1>0, <1>12 DEF handleBackupUpload, HistType
  <2> QED BY <1>7, <2>1
<1>13. CASE Tick
  BY <1>4, <1>13 DEF Tick, Ensured
<1>14. CASE UNCHANGED vars
  BY <1>4, <1>14 DEF vars, Ensured
\* The control centre ends and starts: as after an update, but with all its jobs.
<1>15. CASE Quit
  <2>1. /\ job' = NewProcess(job) /\ exe' = Cleanup(exe) /\ Note(TRUE, GuiJobs)
        /\ UNCHANGED staging /\ Ensured
    BY <1>0, <1>15, EnsureFacts DEF Quit, EnsureOnStart
  <2>2. /\ hist'.swaps = (hist.swaps \/ \E k \in Jobs : job[k].pc = "copy")
        /\ hist'.torn = (hist.torn \/ \E k \in GuiJobs : Copying(k))
        /\ hist'.killed = (hist.killed \/ \E k \in GuiJobs : job[k].kind \in {"update", "setup"})
    BY <1>0, <2>1, NoteFacts
  <2>3. \A k \in Jobs : job'[k] = IF k \in GuiJobs THEN IdleJob ELSE job[k]
    BY <1>0, <2>1, NewProcessJobs
  <2>4. IdleJob.pc \notin CopyPCs /\ IdleJob.pc # "copy"
    BY DEF IdleJob, CopyPCs
  <2>5. SwapInv'
    <3>1. CASE hist'.swaps
      BY <3>1 DEF SwapInv
    <3>2. CASE ~hist'.swaps
      <4>1. exe.cur # "none" /\ \A k \in Jobs : job[k].pc # "copy"
        BY <1>0, <2>2, <3>2 DEF SwapInv, Swapping
      <4>2. exe'.cur # "none"
        BY <1>0, <2>1, <4>1 DEF Cleanup
      <4>3. \A k \in Jobs : job'[k].pc # "copy"
        BY <2>3, <2>4, <4>1
      <4> QED BY <4>2, <4>3 DEF SwapInv, Swapping
    <3> QED BY <3>1, <3>2
  <2>6. StagingInv'
    <3> SUFFICES ASSUME NEW d \in Dirs, staging'[d].there, ~hist'.killed
                 PROVE  \E k \in Jobs : Owns(k, d)'
      BY DEF StagingInv
    <3>1. PICK k \in Jobs : Holds(job[k], d)
      BY <1>0, <2>1, <2>2 DEF StagingInv, Owns
    <3>2. k \notin GuiJobs
      BY <2>2, <3>1 DEF Holds
    <3> QED BY <2>3, <3>1, <3>2 DEF Owns
  <2>7. FilesInv'
    <3>1. CASE hist'.torn
      BY <3>1 DEF FilesInv
    <3>2. CASE ~hist'.torn
      <4>1. ~hist.torn /\ \A k \in GuiJobs : job[k].pc # "apply"
        BY <2>2, <3>2 DEF Copying
      <4>2. \A k \in Jobs : job'[k] = job[k] \/ (job'[k].pc \notin CopyPCs /\ job[k].pc # "apply")
        BY <2>3, <2>4, <4>1
      <4>3. \A d \in Dirs : staging'[d] = staging[d]
        BY <2>1
      <4> QED BY <1>0, <2>1, <4>1, <4>2, <4>3, FilesEnd
    <3> QED BY <3>1, <3>2
  <2> QED BY <2>5, <2>6, <2>7 DEF WholeInv
<1>16. CASE DirectoryLost
  <2>1. /\ \A k \in Jobs : job[k].pc = "idle"
        /\ files' = NoFiles
        /\ staging' = [d \in Dirs |-> NoDir]
        /\ UNCHANGED <<exe, job, hist>>
    BY <1>16 DEF DirectoryLost
  <2>2. SwapInv'
    BY <1>0, <2>1, SwapFrame
  <2>3. StagingInv'
    BY <2>1 DEF StagingInv, NoDir
  <2>4. OneVersion'
    BY <2>1 DEF OneVersion, NoFiles, ProjectFiles
  <2>5. FilesInv'
    BY <2>1, <2>4 DEF FilesInv, Copying
  <2> QED BY <2>2, <2>3, <2>5 DEF WholeInv
\* Another control centre starts.
<1>17. CASE Open
  <2>1. /\ exe.cur # "none" /\ exe' = Cleanup(exe) /\ Note(TRUE, {})
        /\ UNCHANGED <<staging, job>> /\ Ensured
    BY <1>0, <1>17, EnsureFacts DEF Open
  <2>2. /\ hist'.swaps = (hist.swaps \/ \E k \in Jobs : job[k].pc = "copy")
        /\ hist'.torn = hist.torn /\ hist'.killed = hist.killed
    BY <1>0, <2>1 DEF Note, HistType
  <2>3. SwapInv'
    <3>1. exe'.cur # "none"
      BY <2>1 DEF Cleanup
    <3>2. hist'.swaps \/ \A k \in Jobs : job'[k].pc # "copy"
      BY <2>1, <2>2
    <3> QED BY <3>1, <3>2 DEF SwapInv, Swapping
  <2>4. StagingInv'
    BY <1>0, <2>1, <2>2 DEF StagingInv, Owns
  <2>5. FilesInv'
    <3>1. CASE hist.torn
      BY <2>2, <3>1 DEF FilesInv
    <3>2. CASE ~hist.torn
      BY <1>0, <2>1, <3>2, FilesEnd
    <3> QED BY <3>1, <3>2
  <2> QED BY <2>3, <2>4, <2>5 DEF WholeInv
<1> QED
  BY <1>1, <1>2, <1>3, <1>6, <1>9, <1>10, <1>11, <1>12, <1>13, <1>14, <1>15, <1>16, <1>17
  DEF Next

-----------------------------------------------------------------------------
(* Backups.                                                                 *)

\* To the backups, s is a job like r, or has less to do with them.
Quieter(r, s) ==
    /\ s.pc = "dump" => r.pc = "dump" /\ s.name = r.name
    /\ s.snap # NoFile => /\ s.snap = r.snap /\ s.name = r.name
                          /\ s.pc \in {"stop", "drop", "import"}
    /\ s.kind = "restore" /\ s.pc \in Restoring =>
         /\ r.kind = "restore" /\ r.pc \in Restoring
         /\ s.src = r.src /\ s.want = r.want /\ s.gone = r.gone

SameRecord ==
    /\ hist'.clobbered = hist.clobbered /\ hist'.unmirrored = hist.unmirrored
    /\ hist'.reported = hist.reported /\ hist'.lost = hist.lost
    /\ hist'.refused = hist.refused

\* A step that leaves the backups alone.
BackupsAside ==
    /\ UNCHANGED <<base, mirror>>
    /\ SameRecord
    /\ \A k \in Jobs : Quieter(job[k], job'[k])

LEMMA BackupsFrame ==
  ASSUME BackupInv, BackupsAside
  PROVE  BackupInv'
<1>1. \A k \in Jobs, n \in Names : Writes(job'[k], n) => Dumping(k, n)
  BY DEF BackupsAside, Quieter, Dumping, Writes
<1>2. DumpInv'
  BY <1>1 DEF BackupInv, DumpInv, BackupsAside, SameRecord, Dumping
<1>3. \A k \in Jobs : \A n : Writes(job'[k], n) => Dumping(k, n)
  BY DEF BackupsAside, Quieter, Dumping, Writes
<1>4. ReportInv'
  BY <1>3 DEF BackupInv, ReportInv, BackupsAside, SameRecord, Excused, Dumping
<1>5. SnapInv'
  BY DEF BackupInv, SnapInv, BackupsAside, SameRecord, Quieter
<1>6. ChosenInv'
  <2> SUFFICES ASSUME NEW k \in Jobs, job'[k].kind = "restore", job'[k].pc \in Restoring
               PROVE  \/ job'[k].src \in hist'.clobbered
                      \/ job'[k].want = Partial
                      \/ /\ ~job'[k].gone
                         /\ job'[k].want # NoFile
                         /\ base'[job'[k].src] = job'[k].want
                         /\ \A i \in Jobs : ~Writes(job'[i], job'[k].src)
    BY DEF ChosenInv, Dumping, Writes
  <2>1. /\ job[k].kind = "restore" /\ job[k].pc \in Restoring
        /\ job'[k].src = job[k].src /\ job'[k].want = job[k].want /\ job'[k].gone = job[k].gone
    BY DEF BackupsAside, Quieter
  <2> QED BY <1>3, <2>1 DEF BackupInv, ChosenInv, BackupsAside, SameRecord
<1> QED BY <1>2, <1>4, <1>5, <1>6 DEF BackupInv

LEMMA QuietMoves ==
  ASSUME JobInv, NEW j \in Jobs, NEW r, Moves(j, r), Quieter(job[j], r), SnapInv
  PROVE  \A k \in Jobs : Quieter(job[k], job'[k])
<1>1. job'[j] = r /\ \A k \in Jobs \ {j} : job'[k] = job[k]
  BY MovesFacts
<1>2. \A k \in Jobs : Quieter(job[k], job[k])
  BY DEF Quieter, SnapInv
<1> QED BY <1>1, <1>2

\* Jobs that carry nothing.
Bare(r) == r.snap = NoFile /\ r.pc # "dump" /\ ~(r.kind = "restore" /\ r.pc \in Restoring)

LEMMA BareIsQuieter ==
  ASSUME NEW r, NEW s, Bare(s)
  PROVE  Quieter(r, s)
  BY DEF Bare, Quieter

LEMMA BareJobs ==
  /\ Bare(IdleJob) /\ Bare(AgainJob)
  /\ \A kind \in {"backup", "update", "rebuild"} : Bare(At(kind, "create"))
  /\ Bare(At("rebuild", "compose")) /\ Bare(At("update", "compose")) /\ Bare(At("setup", "compose"))
  /\ Bare(At("update", "download")) /\ Bare(At("setup", "config")) /\ Bare(At("setup", "ensure"))
  /\ Bare(At("update", "swap")) /\ Bare(At("restore", "start"))
<1>1. /\ {"backup", "update", "rebuild", "setup", "restore"} \subseteq Kinds
      /\ {"create", "compose", "download", "config", "ensure", "swap", "start"} \subseteq PCs
  BY DEF Kinds, PCs
<1>2. \A kind \in Kinds, pc \in PCs : At(kind, pc).snap = NoFile
  BY AtFacts
<1>3. \A kind \in {"backup", "update", "rebuild", "setup", "restore"},
         pc \in {"create", "compose", "download", "config", "ensure", "swap", "start"} :
           At(kind, pc).snap = NoFile
  BY <1>1, <1>2
<1>4. Bare(IdleJob)
  BY DEF Bare, IdleJob
<1>5. Bare(AgainJob)
  BY AgainFacts DEF Bare
<1>6. \A kind \in {"backup", "update", "rebuild"} : Bare(At(kind, "create"))
  BY <1>3, AtIs DEF Bare
<1>7. Bare(At("restore", "start"))
  BY <1>3, AtIs DEF Bare, Restoring
<1> QED BY <1>3, <1>4, <1>5, <1>6, <1>7, AtIs DEF Bare

LEMMA OnwardIsBare ==
  ASSUME NEW j \in Jobs, NEW r, Onward(j, r)
  PROVE  Bare(r)
  BY BareJobs DEF Onward

\* A file job that only goes on carries no safety copy.
LEMMA FileJobsQuiet ==
  ASSUME JobInv, SnapInv, NEW j \in Jobs, job[j].pc \notin {"dump", "stop", "drop", "import"},
         NEW r \in JobType, r.snap = job[j].snap, r.pc # "dump", r.kind # "restore"
  PROVE  Quieter(job[j], r)
  BY DEF Quieter, SnapInv

LEMMA CreateFileKeeps ==
  ASSUME TypeInv, BackupInv, NEW j \in Jobs, NEW ok \in BOOLEAN, CreateFile(j, ok)
  PROVE  BackupInv'
<1>0. /\ hist \in HistType /\ JobInv /\ clock \in Names /\ job[j] \in JobType /\ Shape(job[j])
      /\ base \in [Names -> Data \cup {NoFile}] /\ mirror \in [Names -> Data \cup {NoFile}]
      /\ job[j].pc = "create" /\ UNCHANGED mirror
      /\ DumpInv /\ ReportInv /\ SnapInv /\ ChosenInv
      /\ NoFile \notin Data /\ Partial \in Data
  BY ReadingJobs, DataFacts DEF TypeInv, BackupFilesOK, BackupInv, CreateFile
<1>1. PICK r : /\ Moves(j, r)
               /\ ok => r = [job[j] EXCEPT !.pc = "dump", !.name = clock]
               /\ ~ok => \/ Onward(j, r)
                         \/ r = [job[j] EXCEPT !.pc = "stop"] /\ job[j].kind = "restore"
  BY <1>0, CreateFileMoves
<1>2. CASE ~ok
  <2>1. UNCHANGED <<base, hist>>
    BY <1>2 DEF CreateFile
  <2>2. Quieter(job[j], r)
    <3>1. CASE Onward(j, r)
      BY <3>1, OnwardIsBare, BareIsQuieter
    <3>2. CASE r = [job[j] EXCEPT !.pc = "stop"] /\ job[j].kind = "restore"
      BY <1>0, <3>2 DEF Quieter, JobType, Restoring, SnapInv
    <3> QED BY <1>1, <1>2, <3>1, <3>2
  <2>3. BackupsAside
    BY <1>0, <1>1, <2>1, <2>2, QuietMoves DEF BackupsAside, SameRecord
  <2> QED BY <2>3, BackupsFrame
<1>3. CASE ok
  <2>0. r = [job[j] EXCEPT !.pc = "dump", !.name = clock] /\ job'[j] = r
        /\ \A k \in Jobs \ {j} : job'[k] = job[k]
    BY <1>0, <1>1, <1>3, MovesFacts
  <2>1. /\ r.pc = "dump" /\ r.name = clock /\ r.kind = job[j].kind /\ r.src = job[j].src
        /\ r.want = job[j].want /\ r.gone = job[j].gone /\ r.snap = job[j].snap
    BY <1>0, <2>0 DEF JobType
  <2>2. base' = [base EXCEPT ![clock] = Partial]
    BY <1>3 DEF CreateFile
  <2>3. /\ hist'.clobbered = IF base[clock] # NoFile \/ mirror[clock] # NoFile
                             THEN hist.clobbered \cup {clock} ELSE hist.clobbered
        /\ hist'.unmirrored = hist.unmirrored /\ hist'.reported = hist.reported
        /\ hist'.lost = hist.lost /\ hist'.refused = hist.refused
    BY <1>0, <1>3 DEF CreateFile, HistType
  <2>4. job[j].snap = NoFile
    BY <1>0 DEF SnapInv
  \* The only new writer is job j, of the file of this second.
  <2>5. \A k \in Jobs : \A n : Writes(job'[k], n) => Dumping(k, n) \/ (k = j /\ n = clock)
    BY <2>0, <2>1 DEF Dumping, Writes
  <2>6. /\ base'[clock] = Partial /\ \A n \in Names \ {clock} : base'[n] = base[n]
    BY <1>0, <2>2
  <2>7. hist.clobbered \subseteq hist'.clobbered
    BY <2>3
  <2>8. \A k \in Jobs : Dumping(k, clock) => clock \in hist'.clobbered
    BY <1>0, <2>3 DEF DumpInv
  <2>9. DumpInv'
    <3> SUFFICES ASSUME NEW k \in Jobs, NEW n \in Names, Writes(job'[k], n), n \notin hist'.clobbered
                 PROVE  base'[n] = Partial /\ \A i \in Jobs : Writes(job'[i], n) => i = k
      BY DEF DumpInv, Dumping
    <3>1. CASE n = clock
      BY <2>5, <2>6, <2>8, <3>1
    <3>2. CASE n # clock
      <4>1. Dumping(k, n) /\ n \notin hist.clobbered
        BY <2>5, <2>7, <3>2
      <4> QED BY <1>0, <2>5, <2>6, <3>2, <4>1 DEF DumpInv
    <3> QED BY <3>1, <3>2
  <2>10. ReportInv'
    <3> SUFFICES ASSUME NEW t \in hist.reported, t[1] \notin Excused'
                 PROVE  mirror[t[1]] = t[2] /\ \A k \in Jobs : ~Writes(job'[k], t[1])
      BY <1>0, <2>3 DEF ReportInv, Dumping, Writes
    <3>1. t[1] \notin Excused /\ t[1] \notin hist'.clobbered
      BY <2>3, <2>7 DEF Excused
    <3>2. mirror[t[1]] = t[2] /\ \A k \in Jobs : ~Dumping(k, t[1])
      BY <1>0, <3>1 DEF ReportInv
    <3>3. t[2] \in Data
      BY <1>0 DEF HistType
    <3>4. t[1] # clock
      BY <1>0, <2>3, <3>1, <3>2, <3>3
    <3> QED BY <2>5, <3>2, <3>4
  <2>11. SnapInv'
    BY <1>0, <2>0, <2>1, <2>3, <2>4 DEF SnapInv
  <2>12. ChosenInv'
    <3> SUFFICES ASSUME NEW k \in Jobs, job'[k].kind = "restore", job'[k].pc \in Restoring,
                        job'[k].src \notin hist'.clobbered, job'[k].want # Partial
                 PROVE  /\ ~job'[k].gone
                        /\ job'[k].want # NoFile
                        /\ base'[job'[k].src] = job'[k].want
                        /\ \A i \in Jobs : ~Writes(job'[i], job'[k].src)
      BY DEF ChosenInv, Dumping, Writes
    <3>1. /\ job[k].kind = "restore" /\ job[k].pc \in Restoring /\ job'[k].src = job[k].src
          /\ job'[k].want = job[k].want /\ job'[k].gone = job[k].gone
      BY <1>0, <2>0, <2>1 DEF Restoring
    <3>2. job[k].src \in Names
      BY <1>0, <3>1, ReadingJobs DEF Shape
    <3>3. /\ ~job[k].gone /\ job[k].want # NoFile /\ base[job[k].src] = job[k].want
          /\ \A i \in Jobs : ~Dumping(i, job[k].src)
      BY <1>0, <2>7, <3>1 DEF ChosenInv
    <3>4. job[k].src # clock
      BY <2>3, <3>1, <3>3
    <3> QED BY <2>5, <2>6, <3>1, <3>2, <3>3, <3>4
  <2> QED BY <2>9, <2>10, <2>11, <2>12 DEF BackupInv
<1> QED BY <1>2, <1>3

LEMMA DumpSucceedsKeeps ==
  ASSUME TypeInv, BackupInv, NEW j \in Jobs, NEW data \in {vol.data, Partial},
         NEW ok \in BOOLEAN, DumpSucceeds(j, data, ok)
  PROVE  BackupInv'
<1> DEFINE n == job[j].name
<1>0. /\ hist \in HistType /\ JobInv /\ job[j] \in JobType /\ Shape(job[j])
      /\ base \in [Names -> Data \cup {NoFile}] /\ mirror \in [Names -> Data \cup {NoFile}]
      /\ job[j].pc = "dump"
      /\ DumpInv /\ ReportInv /\ SnapInv /\ ChosenInv
  BY ReadingJobs DEF TypeInv, BackupFilesOK, BackupInv, DumpSucceeds
<1>1. data \in Data /\ JobInv
  BY DataFacts DEF TypeInv, InstallationOK
<1>2. PICK r : /\ Moves(j, r)
               /\ \/ Onward(j, r)
                  \/ /\ r = [job[j] EXCEPT !.pc = "stop", !.snap = data]
                     /\ job[j].kind = "restore"
  BY <1>1, DumpSucceedsMoves
<1>3. n \in Names
  BY <1>0 DEF Shape
<1>4. job'[j] = r /\ \A k \in Jobs \ {j} : job'[k] = job[k]
  BY <1>1, <1>2, MovesFacts
<1>5. /\ r.pc # "dump"
      /\ r.snap # NoFile => r.snap = data /\ r.name = n /\ r.pc = "stop"
      /\ r.kind = "restore" /\ r.pc \in Restoring =>
           /\ job[j].kind = "restore" /\ r.src = job[j].src /\ r.want = job[j].want
           /\ r.gone = job[j].gone
  <2>1. CASE Onward(j, r)
    BY <2>1, OnwardIsBare DEF Bare
  <2>2. CASE r = [job[j] EXCEPT !.pc = "stop", !.snap = data] /\ job[j].kind = "restore"
    BY <1>0, <2>2 DEF JobType
  <2> QED BY <1>2, <2>1, <2>2
<1>6. base' = [base EXCEPT ![n] = data]
  BY DEF DumpSucceeds
<1>7. mirror' = IF ok THEN [mirror EXCEPT ![n] = base'[n]] ELSE mirror
  BY DEF DumpSucceeds, Mirror
<1>8. /\ hist'.clobbered = hist.clobbered
      /\ hist'.reported = hist.reported \cup {<<n, data>>}
      /\ hist'.unmirrored = IF ok THEN hist.unmirrored ELSE hist.unmirrored \cup {n}
      /\ hist'.lost = hist.lost /\ hist'.refused = hist.refused
  BY <1>0 DEF DumpSucceeds, HistType
<1>9. Dumping(j, n)
  BY <1>0 DEF Dumping, Writes
<1> HIDE DEF n
<1>10. \A k \in Jobs : \A m : Writes(job'[k], m) => k # j /\ Dumping(k, m)
  BY <1>4, <1>5 DEF Dumping, Writes
<1>11. base'[n] = data /\ \A m \in Names \ {n} : base'[m] = base[m]
  BY <1>0, <1>3, <1>6
\* Another writer of the same file has been noted.
<1>12. \A k \in Jobs : Writes(job'[k], n) => n \in hist.clobbered
  BY <1>0, <1>3, <1>9, <1>10 DEF DumpInv
<1>13. DumpInv'
  <2> SUFFICES ASSUME NEW k \in Jobs, NEW m \in Names, Writes(job'[k], m), m \notin hist'.clobbered
               PROVE  base'[m] = Partial /\ \A i \in Jobs : Writes(job'[i], m) => i = k
    BY DEF DumpInv, Dumping
  <2>1. m # n
    BY <1>8, <1>12
  <2> QED BY <1>0, <1>8, <1>10, <1>11, <2>1 DEF DumpInv
<1>14. ReportInv'
  <2> SUFFICES ASSUME NEW t \in hist'.reported, t[1] \notin Excused'
               PROVE  mirror'[t[1]] = t[2] /\ \A k \in Jobs : ~Writes(job'[k], t[1])
    BY DEF ReportInv, Dumping, Writes
  <2>1. t[1] \notin Excused /\ t[1] \notin hist.clobbered
    BY <1>8 DEF Excused
  <2>2. CASE t \in hist.reported
    <3>1. mirror[t[1]] = t[2] /\ \A k \in Jobs : ~Dumping(k, t[1])
      BY <1>0, <2>1, <2>2 DEF ReportInv
    <3>2. t[1] # n
      BY <1>9, <3>1
    <3>3. mirror'[t[1]] = mirror[t[1]]
      <4>1. t[1] \in Names
        BY <1>0, <2>2 DEF HistType
      <4> QED BY <1>0, <1>7, <3>2, <4>1
    <3> QED BY <1>10, <3>1, <3>3
  <2>3. CASE t = <<n, data>>
    <3>1. ok
      BY <1>8, <2>3 DEF Excused
    <3>2. mirror'[n] = data
      BY <1>0, <1>3, <1>7, <1>11, <3>1
    <3> QED BY <1>12, <2>1, <2>3, <3>2
  <2> QED BY <1>8, <2>2, <2>3
<1>15. SnapInv'
  <2>1. ASSUME NEW k \in Jobs, job'[k].snap # NoFile
        PROVE  <<job'[k].name, job'[k].snap>> \in hist'.reported /\ job'[k].pc \in {"stop", "drop", "import"}
    BY <1>0, <1>4, <1>5, <1>8, <2>1 DEF SnapInv
  <2> QED BY <1>0, <1>8, <2>1 DEF SnapInv
<1>16. ChosenInv'
  <2> SUFFICES ASSUME NEW k \in Jobs, job'[k].kind = "restore", job'[k].pc \in Restoring,
                      job'[k].src \notin hist'.clobbered, job'[k].want # Partial
               PROVE  /\ ~job'[k].gone
                      /\ job'[k].want # NoFile
                      /\ base'[job'[k].src] = job'[k].want
                      /\ \A i \in Jobs : ~Writes(job'[i], job'[k].src)
    BY DEF ChosenInv, Dumping, Writes
  <2>1. /\ job[k].kind = "restore" /\ job[k].pc \in Restoring /\ job'[k].src = job[k].src
        /\ job'[k].want = job[k].want /\ job'[k].gone = job[k].gone
    BY <1>0, <1>4, <1>5 DEF Restoring
  <2>2. job[k].src \in Names
    BY <1>0, <2>1, ReadingJobs DEF Shape
  <2>3. /\ ~job[k].gone /\ job[k].want # NoFile /\ base[job[k].src] = job[k].want
        /\ \A i \in Jobs : ~Dumping(i, job[k].src)
    BY <1>0, <1>8, <2>1 DEF ChosenInv
  <2>4. job[k].src # n
    BY <1>9, <2>3
  <2> QED BY <1>10, <1>11, <2>1, <2>2, <2>3, <2>4
<1> QED BY <1>13, <1>14, <1>15, <1>16 DEF BackupInv

LEMMA DumpFailsKeeps ==
  ASSUME TypeInv, BackupInv, NEW j \in Jobs, DumpFails(j)
  PROVE  BackupInv'
<1> DEFINE n == job[j].name
<1>0. /\ hist \in HistType /\ JobInv /\ job[j] \in JobType /\ Shape(job[j])
      /\ base \in [Names -> Data \cup {NoFile}]
      /\ job[j].pc = "dump" /\ UNCHANGED <<mirror, hist>>
      /\ DumpInv /\ ReportInv /\ SnapInv /\ ChosenInv
  BY ReadingJobs DEF TypeInv, BackupFilesOK, BackupInv, DumpFails
<1>1. PICK r \in JobType :
         /\ Shape(r)
         /\ job' = [Noticed(n) EXCEPT ![j] = r]
         /\ \/ Onward(j, r)
            \/ /\ r = [Noticed(n)[j] EXCEPT !.pc = "stop"]
               /\ job[j].kind = "restore"
  BY <1>0, DumpFailsMoves
<1>2. n \in Names
  BY <1>0 DEF Shape
<1>3. /\ Noticed(n) \in [Jobs -> JobType]
      /\ \A k \in Jobs : Noticed(n)[k] = [job[k] EXCEPT !.gone = @ \/ job[k].src = n]
  BY <1>0, <1>2, NoticedFacts
<1>4. base' = [base EXCEPT ![n] = NoFile]
  BY DEF DumpFails
<1>5. Dumping(j, n)
  BY <1>0 DEF Dumping, Writes
<1> HIDE DEF n
<1>6. job'[j] = r /\ \A k \in Jobs \ {j} : job'[k] = [job[k] EXCEPT !.gone = @ \/ job[k].src = n]
  BY <1>1, <1>3
<1>7. job'[j].pc # "dump"
  <2>1. CASE Onward(j, r)
    BY <1>6, <2>1, OnwardIsBare DEF Bare
  <2>2. CASE r = [Noticed(n)[j] EXCEPT !.pc = "stop"]
    <3>1. Noticed(n)[j] \in JobType
      BY <1>3
    <3> QED BY <1>6, <2>2, <3>1 DEF JobType
  <2> QED BY <1>1, <2>1, <2>2
\* Nothing changes for a job but what it knows of the file.
<1>8. ASSUME NEW k \in Jobs
      PROVE  /\ job'[k].snap # NoFile => /\ job'[k].snap = job[k].snap /\ job'[k].name = job[k].name
                                         /\ job'[k].pc \in {"stop", "drop", "import"}
             /\ job'[k].kind = "restore" /\ job'[k].pc \in Restoring =>
                  /\ job[k].kind = "restore" /\ job[k].pc \in Restoring
                  /\ job'[k].src = job[k].src /\ job'[k].want = job[k].want
                  /\ job'[k].gone = (job[k].gone \/ job[k].src = n)
             /\ k # j => job'[k].pc = job[k].pc /\ job'[k].name = job[k].name
  <2>0. job[k] \in JobType
    BY <1>0, ReadingJobs
  <2>1. CASE k # j
    <3>1. /\ job'[k].snap = job[k].snap /\ job'[k].name = job[k].name /\ job'[k].pc = job[k].pc
          /\ job'[k].kind = job[k].kind /\ job'[k].src = job[k].src /\ job'[k].want = job[k].want
          /\ job'[k].gone = (job[k].gone \/ job[k].src = n)
      BY <1>6, <2>0, <2>1 DEF JobType
    <3> QED BY <1>0, <2>1, <3>1 DEF SnapInv
  <2>2. CASE k = j /\ Onward(j, r)
    BY <1>6, <2>2, OnwardIsBare DEF Bare
  <2>3. CASE k = j /\ r = [Noticed(n)[j] EXCEPT !.pc = "stop"] /\ job[j].kind = "restore"
    <3>1. r = [[job[j] EXCEPT !.gone = @ \/ job[j].src = n] EXCEPT !.pc = "stop"]
      BY <1>3, <2>3
    <3>2. /\ r.snap = job[j].snap /\ r.name = job[j].name /\ r.pc = "stop"
          /\ r.src = job[j].src /\ r.want = job[j].want
          /\ r.gone = (job[j].gone \/ job[j].src = n)
      BY <1>0, <3>1 DEF JobType
    <3> QED BY <1>0, <1>6, <2>3, <3>2 DEF Restoring
  <2> QED BY <1>1, <2>1, <2>2, <2>3
<1>9. \A k \in Jobs : \A m : Writes(job'[k], m) => k # j /\ Dumping(k, m)
  BY <1>7, <1>8 DEF Dumping, Writes
<1>10. \A m \in Names \ {n} : base'[m] = base[m]
  BY <1>0, <1>4
<1>11. \A k \in Jobs : Writes(job'[k], n) => n \in hist.clobbered
  BY <1>0, <1>2, <1>5, <1>9 DEF DumpInv
<1>12. DumpInv'
  <2> SUFFICES ASSUME NEW k \in Jobs, NEW m \in Names, Writes(job'[k], m), m \notin hist.clobbered
               PROVE  base'[m] = Partial /\ \A i \in Jobs : Writes(job'[i], m) => i = k
    BY <1>0 DEF DumpInv, Dumping
  <2>1. m # n
    BY <1>11
  <2> QED BY <1>0, <1>9, <1>10, <2>1 DEF DumpInv
<1>13. ReportInv'
  BY <1>0, <1>9 DEF ReportInv, Excused, Dumping
<1>14. SnapInv'
  BY <1>0, <1>8 DEF SnapInv
<1>15. ChosenInv'
  <2> SUFFICES ASSUME NEW k \in Jobs, job'[k].kind = "restore", job'[k].pc \in Restoring,
                      job'[k].src \notin hist.clobbered, job'[k].want # Partial
               PROVE  /\ ~job'[k].gone
                      /\ job'[k].want # NoFile
                      /\ base'[job'[k].src] = job'[k].want
                      /\ \A i \in Jobs : ~Writes(job'[i], job'[k].src)
    BY <1>0 DEF ChosenInv, Dumping, Writes
  <2>1. /\ job[k].kind = "restore" /\ job[k].pc \in Restoring /\ job'[k].src = job[k].src
        /\ job'[k].want = job[k].want /\ job'[k].gone = (job[k].gone \/ job[k].src = n)
    BY <1>8
  <2>2. job[k].src \in Names
    BY <1>0, <2>1, ReadingJobs DEF Shape
  <2>3. /\ ~job[k].gone /\ job[k].want # NoFile /\ base[job[k].src] = job[k].want
        /\ \A i \in Jobs : ~Dumping(i, job[k].src)
    BY <1>0, <2>1 DEF ChosenInv
  <2>4. job[k].src # n
    BY <1>5, <2>3
  <2> QED BY <1>9, <1>10, <2>1, <2>2, <2>3, <2>4
<1> QED BY <1>12, <1>13, <1>14, <1>15 DEF BackupInv

\* Files that were missing are there again, from the persistent copies.
LEMMA BackupsRefilled ==
  ASSUME BackupInv, JobInv, UNCHANGED mirror, SameRecord,
         \A n \in Names : base[n] # NoFile => base'[n] = base[n],
         Partial # NoFile,
         \A k \in Jobs : \A n : Writes(job'[k], n) => Dumping(k, n),
         \A k \in Jobs : job'[k].snap # NoFile =>
            /\ job'[k].snap = job[k].snap /\ job'[k].name = job[k].name
            /\ job'[k].pc \in {"stop", "drop", "import"},
         \A k \in Jobs : job'[k].kind = "restore" /\ job'[k].pc \in Restoring =>
            \/ Quieter(job[k], job'[k])
            \/ /\ ~job'[k].gone /\ job'[k].src \in Names
               /\ job'[k].want # NoFile /\ base'[job'[k].src] = job'[k].want
  PROVE  BackupInv'
<1>0. DumpInv /\ ReportInv /\ SnapInv /\ ChosenInv
  BY DEF BackupInv
<1>1. DumpInv'
  BY <1>0 DEF DumpInv, Dumping, SameRecord
<1>2. ReportInv'
  BY <1>0 DEF ReportInv, Excused, Dumping, SameRecord
<1>3. SnapInv'
  BY <1>0 DEF SnapInv, SameRecord
<1>4. ChosenInv'
  <2> SUFFICES ASSUME NEW k \in Jobs, job'[k].kind = "restore", job'[k].pc \in Restoring,
                      job'[k].src \notin hist.clobbered, job'[k].want # Partial
               PROVE  /\ ~job'[k].gone
                      /\ job'[k].want # NoFile
                      /\ base'[job'[k].src] = job'[k].want
                      /\ \A i \in Jobs : ~Writes(job'[i], job'[k].src)
    BY DEF ChosenInv, Dumping, SameRecord
  <2>1. CASE Quieter(job[k], job'[k])
    <3>1. /\ job[k].kind = "restore" /\ job[k].pc \in Restoring /\ job'[k].src = job[k].src
          /\ job'[k].want = job[k].want /\ job'[k].gone = job[k].gone
      BY <2>1 DEF Quieter
    <3>2. job[k].src \in Names
      BY <3>1, ReadingJobs DEF Shape
    <3>3. /\ ~job[k].gone /\ job[k].want # NoFile /\ base[job[k].src] = job[k].want
          /\ \A i \in Jobs : ~Dumping(i, job[k].src)
      BY <1>0, <3>1 DEF ChosenInv
    <3> QED BY <3>1, <3>2, <3>3
  <2>2. CASE /\ ~job'[k].gone /\ job'[k].src \in Names
             /\ job'[k].want # NoFile /\ base'[job'[k].src] = job'[k].want
    <3>1. ASSUME NEW i \in Jobs, Writes(job'[i], job'[k].src) PROVE FALSE
      <4>1. base[job'[k].src] = Partial
        BY <1>0, <2>2, <3>1 DEF DumpInv
      <4> QED BY <2>2, <4>1
    <3> QED BY <2>2, <3>1
  <2> QED BY <2>1, <2>2
<1> QED BY <1>1, <1>2, <1>3, <1>4 DEF BackupInv

LEMMA OpenBackupKeeps ==
  ASSUME TypeInv, BackupInv, NEW j \in Jobs, NEW n \in Names, OpenBackup(j, n)
  PROVE  BackupInv'
<1> DEFINE r == [IdleJob EXCEPT !.kind = "restore", !.pc = "create", !.src = n, !.want = Locate(n)]
<1>0. /\ hist \in HistType /\ JobInv /\ BackupFilesOK /\ SnapInv
      /\ base \in [Names -> Data \cup {NoFile}]
      /\ UNCHANGED mirror /\ base' = [base EXCEPT ![n] = Locate(n)] /\ Partial # NoFile
  BY DataFacts DEF TypeInv, BackupFilesOK, BackupInv, OpenBackup
<1>1. SameRecord
  <2>1. ~(Locate(n) = NoFile /\ mirror[n] # NoFile)
    BY DEF Locate
  <2>2. hist' = [hist EXCEPT !.refused = hist.refused \/ (Locate(n) = NoFile /\ mirror[n] # NoFile)]
    BY DEF OpenBackup
  <2> QED BY <1>0, <2>1, <2>2 DEF HistType, SameRecord
<1>2. /\ base'[n] = Locate(n)
      /\ \A m \in Names : base[m] # NoFile => base'[m] = base[m]
  BY <1>0 DEF Locate
<1>3. r.snap = NoFile /\ r.pc = "create" /\ r.src = n /\ r.want = Locate(n) /\ r.gone = FALSE
  BY IdleFacts DEF JobType, IdleJob
<1>4. \A k \in Jobs : Quieter(job[k], job[k])
  BY <1>0 DEF Quieter, SnapInv
<1> HIDE DEF r
<1>5. CASE UNCHANGED job
  <2>1. \A k \in Jobs : \A m : Writes(job'[k], m) => Dumping(k, m)
    BY <1>5 DEF Dumping
  <2>2. \A k \in Jobs : job'[k] = job[k]
    BY <1>5
  <2> QED BY <1>0, <1>1, <1>2, <1>4, <2>1, <2>2, BackupsRefilled DEF SnapInv
<1>6. CASE Locate(n) # NoFile /\ Moves(j, r)
  <2>1. job'[j] = r /\ \A k \in Jobs \ {j} : job'[k] = job[k]
    BY <1>0, <1>6, MovesFacts
  <2>2. \A k \in Jobs : \A m : Writes(job'[k], m) => Dumping(k, m)
    BY <1>3, <2>1 DEF Dumping, Writes
  <2>3. \A k \in Jobs : job'[k].snap # NoFile =>
            /\ job'[k].snap = job[k].snap /\ job'[k].name = job[k].name
            /\ job'[k].pc \in {"stop", "drop", "import"}
    BY <1>0, <1>3, <2>1 DEF SnapInv
  <2>4. \A k \in Jobs : job'[k].kind = "restore" /\ job'[k].pc \in Restoring =>
            \/ Quieter(job[k], job'[k])
            \/ /\ ~job'[k].gone /\ job'[k].src \in Names
               /\ job'[k].want # NoFile /\ base'[job'[k].src] = job'[k].want
    BY <1>2, <1>3, <1>4, <1>6, <2>1
  <2> QED BY <1>0, <1>1, <1>2, <2>2, <2>3, <2>4, BackupsRefilled
<1> QED BY <1>0, <1>5, <1>6, OpenBackupMoves DEF r

LEMMA ListBackupsKeeps ==
  ASSUME TypeInv, BackupInv, ListBackups
  PROVE  BackupInv'
<1>0. /\ JobInv /\ SnapInv /\ UNCHANGED <<mirror, hist>> /\ UNCHANGED job /\ Partial # NoFile
      /\ \A n \in Names : base[n] # NoFile => base'[n] = base[n]
  BY DataFacts DEF TypeInv, BackupInv, ListBackups, DirFrame
<1>1. SameRecord
  BY <1>0 DEF SameRecord
<1>2. \A k \in Jobs : job'[k] = job[k] /\ Quieter(job[k], job[k])
  BY <1>0 DEF Quieter, SnapInv
<1>3. \A k \in Jobs : \A n : Writes(job'[k], n) => Dumping(k, n)
  BY <1>2 DEF Dumping
<1> QED BY <1>0, <1>1, <1>2, <1>3, BackupsRefilled DEF SnapInv

\* An upload over a file that is there is noted.
LEMMA UploadKeeps ==
  ASSUME TypeInv, BackupInv, NEW n \in Names, NEW data \in {1, Partial}, handleBackupUpload(n, data)
  PROVE  BackupInv'
<1>0. /\ hist \in HistType /\ JobInv /\ UNCHANGED mirror /\ UNCHANGED job /\ Partial # NoFile
      /\ base \in [Names -> Data \cup {NoFile}]
      /\ base' = [base EXCEPT ![n] = data]
      /\ DumpInv /\ ReportInv /\ SnapInv /\ ChosenInv
  BY DataFacts DEF TypeInv, BackupFilesOK, BackupInv, handleBackupUpload, DirFrame
<1>1. /\ hist'.clobbered = IF base[n] # NoFile THEN hist.clobbered \cup {n} ELSE hist.clobbered
      /\ hist'.unmirrored = hist.unmirrored /\ hist'.reported = hist.reported
      /\ hist'.lost = hist.lost /\ hist'.refused = hist.refused
  BY <1>0 DEF handleBackupUpload, HistType
<1>2. \A m \in Names \ {n} : base'[m] = base[m]
  BY <1>0
<1>3. DumpInv'
  BY <1>0, <1>1, <1>2 DEF DumpInv, Dumping
<1>4. ReportInv'
  BY <1>0, <1>1 DEF ReportInv, Excused, Dumping
<1>5. SnapInv'
  BY <1>0, <1>1 DEF SnapInv
<1>6. ChosenInv'
  <2> SUFFICES ASSUME NEW k \in Jobs, job[k].kind = "restore", job[k].pc \in Restoring,
                      job[k].src \notin hist'.clobbered, job[k].want # Partial
               PROVE  /\ ~job[k].gone
                      /\ job[k].want # NoFile
                      /\ base'[job[k].src] = job[k].want
                      /\ \A i \in Jobs : ~Writes(job[i], job[k].src)
    BY <1>0 DEF ChosenInv, Dumping
  <2>1. /\ ~job[k].gone /\ job[k].want # NoFile /\ base[job[k].src] = job[k].want
        /\ \A i \in Jobs : ~Dumping(i, job[k].src)
    BY <1>0, <1>1 DEF ChosenInv
  <2>2. job[k].src # n
    BY <1>1, <2>1
  <2>3. job[k].src \in Names
    BY <1>0, ReadingJobs DEF Shape
  <2> QED BY <1>2, <2>1, <2>2, <2>3 DEF Dumping
<1> QED BY <1>3, <1>4, <1>5, <1>6 DEF BackupInv

LEMMA RestoreStepKeeps ==
  ASSUME TypeInv, BackupInv, NEW j \in Jobs
  PROVE  /\ \A ok \in BOOLEAN : StopApp(j, ok) \/ DropSchema(j, ok) \/ StartApp(j, ok) => BackupInv'
         /\ \A result \in {"ok", "statements", "failed"} : Import(j, result) => BackupInv'
<1>0. /\ hist \in HistType /\ JobInv /\ job[j] \in JobType /\ Shape(job[j]) /\ SnapInv
      /\ vol.data \in Data /\ NoFile \notin Data
  BY ReadingJobs, DataFacts DEF TypeInv, InstallationOK, BackupInv
\* The frame, but for what is taken out of the database.
<1>1. ASSUME UNCHANGED <<base, mirror>>, TakesAway(j) \/ UNCHANGED hist,
             NEW r, Moves(j, r), Quieter(job[j], r)
      PROVE  BackupInv'
  <2>1. \A k \in Jobs : Quieter(job[k], job'[k])
    BY <1>0, <1>1, QuietMoves
  <2>2. CASE hist' = hist
    <3>1. BackupsAside
      BY <1>1, <2>1, <2>2 DEF BackupsAside, SameRecord
    <3> QED BY <3>1, BackupsFrame
  <2>3. CASE TakesAway(j)
    <3>1. CASE vol.data \in {Empty, Partial} \/ vol.data # job[j].snap
      <4>1. hist' = [hist EXCEPT !.lost = hist.lost]
        BY <2>3, <3>1 DEF TakesAway
      <4>2. SameRecord
        BY <1>0, <4>1 DEF SameRecord, HistType
      <4>3. BackupsAside
        BY <1>1, <2>1, <4>2 DEF BackupsAside
      <4> QED BY <4>3, BackupsFrame
    <3>2. CASE ~(vol.data \in {Empty, Partial} \/ vol.data # job[j].snap)
      <4>1. hist' = [hist EXCEPT !.lost = hist.lost \cup {<<job[j].name, vol.data>>}]
        BY <2>3, <3>2 DEF TakesAway
      <4>2. <<job[j].name, vol.data>> \in hist.reported
        BY <1>0, <3>2 DEF SnapInv
      <4>3. /\ hist'.clobbered = hist.clobbered /\ hist'.unmirrored = hist.unmirrored
            /\ hist'.reported = hist.reported /\ hist'.refused = hist.refused
            /\ hist'.lost = hist.lost \cup {<<job[j].name, vol.data>>}
        BY <1>0, <4>1 DEF HistType
      <4>4. \A k \in Jobs : \A n : Writes(job'[k], n) => Dumping(k, n)
        BY <2>1 DEF Quieter, Dumping, Writes
      <4>5. DumpInv' /\ ReportInv'
        BY <1>1, <4>3, <4>4 DEF BackupInv, DumpInv, ReportInv, Excused, Dumping
      <4>6. SnapInv'
        BY <1>0, <2>1, <4>2, <4>3 DEF SnapInv, Quieter
      <4>7. ChosenInv'
        <5> SUFFICES ASSUME NEW k \in Jobs, job'[k].kind = "restore", job'[k].pc \in Restoring,
                            job'[k].src \notin hist.clobbered, job'[k].want # Partial
                     PROVE  /\ ~job'[k].gone
                            /\ job'[k].want # NoFile
                            /\ base[job'[k].src] = job'[k].want
                            /\ \A i \in Jobs : ~Writes(job'[i], job'[k].src)
          BY <1>1, <4>3 DEF ChosenInv, Dumping
        <5>1. /\ job[k].kind = "restore" /\ job[k].pc \in Restoring /\ job'[k].src = job[k].src
              /\ job'[k].want = job[k].want /\ job'[k].gone = job[k].gone
          BY <2>1 DEF Quieter
        <5> QED BY <4>4, <5>1 DEF BackupInv, ChosenInv
      <4> QED BY <4>5, <4>6, <4>7 DEF BackupInv
    <3> QED BY <3>1, <3>2
  <2> QED BY <1>1, <2>2, <2>3
<1>2. Quieter(job[j], IdleJob) /\ Quieter(job[j], At("restore", "start"))
  BY BareJobs, BareIsQuieter
<1>3. ASSUME NEW pc \in {"drop", "import"}, job[j].pc \in {"stop", "drop"}
      PROVE  Quieter(job[j], [job[j] EXCEPT !.pc = pc])
  BY <1>0, <1>3 DEF Quieter, JobType, Restoring, Shape
<1>4. ASSUME NEW ok \in BOOLEAN, StopApp(j, ok) PROVE BackupInv'
  <2>1. /\ UNCHANGED <<base, mirror>> /\ UNCHANGED hist /\ job[j].pc = "stop"
        /\ Moves(j, [job[j] EXCEPT !.pc = "drop"])
    BY <1>0, <1>4, RestoreMoves DEF StopApp
  <2> QED BY <1>1, <1>3, <2>1
<1>5. ASSUME NEW ok \in BOOLEAN, DropSchema(j, ok) PROVE BackupInv'
  <2>1. /\ UNCHANGED <<base, mirror>> /\ (TakesAway(j) \/ UNCHANGED hist) /\ job[j].pc = "drop"
        /\ Moves(j, [job[j] EXCEPT !.pc = "import"])
    BY <1>0, <1>5, RestoreMoves DEF DropSchema
  <2> QED BY <1>1, <1>3, <2>1
<1>6. ASSUME NEW ok \in BOOLEAN, StartApp(j, ok) PROVE BackupInv'
  <2>1. UNCHANGED <<base, mirror>> /\ UNCHANGED hist /\ Moves(j, IdleJob)
    BY <1>0, <1>6, RestoreMoves DEF StartApp
  <2> QED BY <1>1, <1>2, <2>1
<1>7. ASSUME NEW result \in {"ok", "statements", "failed"}, Import(j, result) PROVE BackupInv'
  <2>1. /\ UNCHANGED <<base, mirror>> /\ (TakesAway(j) \/ UNCHANGED hist)
        /\ Moves(j, IdleJob) \/ Moves(j, At("restore", "start"))
    BY <1>0, <1>7, RestoreMoves DEF Import
  <2> QED BY <1>1, <1>2, <2>1
<1> QED BY <1>4, <1>5, <1>6, <1>7

LEMMA FilesDoneBare ==
  ASSUME NEW j \in Jobs, NEW error, FilesDone(j, error)
  PROVE  \E r : Moves(j, r) /\ Bare(r)
  BY BareJobs DEF FilesDone

\* Requests, setups and updates touch no backup.
LEMMA OtherStepKeeps ==
  ASSUME TypeInv, BackupInv, NEW j \in Jobs
  PROVE  /\ \A kind \in {"backup", "update", "rebuild"} : Request(j, kind) => BackupInv'
         /\ handleSetup(j) \/ commandInstall(j) => BackupInv'
         /\ EnsureProjectFiles(j) \/ InstallConfig(j) => BackupInv'
         /\ \A result \in {"ok", "main", "failed"} : Download(j, result) => BackupInv'
         /\ \A ok \in BOOLEAN : Extract(j, ok) \/ ApplyFile(j, ok) => BackupInv'
         /\ Walk(j) \/ Applied(j) => BackupInv'
         /\ \A ok \in BOOLEAN :
               HotSwap(j, ok) \/ RenameExecutable(j, ok) \/ CopyExecutable(j, ok) \/ Compose(j, ok)
                 => BackupInv'
<1>0. /\ hist \in HistType /\ JobInv /\ InstallationOK /\ job[j] \in JobType /\ Shape(job[j]) /\ SnapInv
      /\ files \in FilesType
  BY ReadingJobs DEF TypeInv, BackupInv, InstallationOK, FilesType
<1>1. ASSUME UNCHANGED <<base, mirror>>, SameRecord, NEW r, Moves(j, r), Quieter(job[j], r)
      PROVE  BackupInv'
  <2>1. BackupsAside
    BY <1>0, <1>1, QuietMoves DEF BackupsAside
  <2> QED BY <2>1, BackupsFrame
<1>2. ASSUME UNCHANGED <<base, mirror>>, SameRecord, NEW r, Moves(j, r), Bare(r)
      PROVE  BackupInv'
  BY <1>1, <1>2, BareIsQuieter
<1>3. ASSUME UNCHANGED <<base, mirror>>, SameRecord, NEW error, FilesDone(j, error)
      PROVE  BackupInv'
  BY <1>2, <1>3, FilesDoneBare
\* The job goes on with its files.
<1>4. ASSUME UNCHANGED <<base, mirror>>, SameRecord, job[j].kind \in {"update", "setup"},
             job[j].pc \notin {"dump", "stop", "drop", "import"},
             NEW r, Moves(j, r), r.snap = job[j].snap, r.pc # "dump", r.kind = job[j].kind
      PROVE  BackupInv'
  <2>1. r \in JobType
    BY <1>4 DEF Moves
  <2>2. Quieter(job[j], r)
    BY <1>0, <1>4, <2>1, FileJobsQuiet
  <2> QED BY <1>1, <1>4, <2>2
<1>5. UNCHANGED hist => SameRecord
  BY DEF SameRecord
<1>6. /\ \A swapping, ended : Note(swapping, ended) => SameRecord
      /\ \A existing, counters : WriteConfig(existing, counters) => SameRecord
      /\ NoteOverlap(j) => SameRecord
      /\ hist' = [hist EXCEPT !.torn = TRUE] => SameRecord
  BY <1>0 DEF Note, WriteConfig, NoteOverlap, SameRecord, HistType
<1>7. FileFrame => UNCHANGED <<base, mirror>>
  BY DEF FileFrame
<1>8. RequestFrame \/ ConfigFrame => UNCHANGED <<base, mirror>>
  BY DEF RequestFrame, ConfigFrame
<1>9. \A pc \in {"extract", "walk", "apply", "download", "compose", "copy"}, ver \in Versions,
         todo \in SUBSET {2, 4} :
        LET r1 == [job[j] EXCEPT !.pc = pc]
            r2 == [job[j] EXCEPT !.pc = pc, !.ver = ver]
            r3 == [job[j] EXCEPT !.pc = pc, !.todo = todo]
        IN  /\ r1.snap = job[j].snap /\ r1.pc = pc /\ r1.kind = job[j].kind
            /\ r2.snap = job[j].snap /\ r2.pc = pc /\ r2.kind = job[j].kind
            /\ r3.snap = job[j].snap /\ r3.pc = pc /\ r3.kind = job[j].kind
  BY <1>0 DEF JobType
<1>10. ASSUME NEW kind \in {"backup", "update", "rebuild"}, Request(j, kind) PROVE BackupInv'
  BY <1>0, <1>2, <1>5, <1>8, <1>10, RequestMoves, BareJobs DEF Request
<1>11. CASE handleSetup(j) \/ commandInstall(j)
  <2>1. Moves(j, At("setup", "ensure")) /\ Bare(At("setup", "ensure"))
    BY <1>0, <1>11, RequestMoves, BareJobs
  <2>2. UNCHANGED <<base, mirror>> /\ SameRecord
    BY <1>5, <1>6, <1>8, <1>11 DEF handleSetup, commandInstall
  <2> QED BY <1>2, <2>1, <2>2
<1>12. CASE EnsureProjectFiles(j)
  <2>1. UNCHANGED <<base, mirror>> /\ SameRecord /\ job[j].pc = "ensure" /\ job[j].kind = "setup"
    BY <1>0, <1>5, <1>8, <1>12 DEF EnsureProjectFiles, Shape
  <2>2. CASE Moves(j, [job[j] EXCEPT !.pc = "download"])
    <3>1. LET r == [job[j] EXCEPT !.pc = "download"]
          IN  r.snap = job[j].snap /\ r.pc = "download" /\ r.kind = job[j].kind
      BY <1>0 DEF JobType
    <3> QED BY <1>4, <2>1, <2>2, <3>1
  <2> QED BY <1>0, <1>3, <1>12, <2>1, <2>2, FileMoves
<1>13. CASE InstallConfig(j)
  <2>1. UNCHANGED <<base, mirror>> /\ SameRecord /\ job[j].pc = "config" /\ job[j].kind = "setup"
    BY <1>0, <1>6, <1>8, <1>13 DEF InstallConfig, Shape
  <2>2. Moves(j, [job[j] EXCEPT !.pc = "compose"])
    BY <1>0, <1>13, RequestMoves
  <2>3. LET r == [job[j] EXCEPT !.pc = "compose"]
        IN  r.snap = job[j].snap /\ r.pc = "compose" /\ r.kind = job[j].kind
    BY <1>0 DEF JobType
  <2> QED BY <1>4, <2>1, <2>2, <2>3
<1>14. ASSUME NEW result \in {"ok", "main", "failed"}, Download(j, result) PROVE BackupInv'
  <2>1. UNCHANGED <<base, mirror>> /\ SameRecord /\ job[j].pc = "download"
        /\ job[j].kind \in {"update", "setup"}
    BY <1>0, <1>5, <1>6, <1>7, <1>14 DEF Download, Shape
  <2>2. CASE Moves(j, [job[j] EXCEPT !.pc = "extract", !.ver = ArchiveVersion(j, result)])
    <3>1. LET r == [job[j] EXCEPT !.pc = "extract", !.ver = ArchiveVersion(j, result)]
          IN  r.snap = job[j].snap /\ r.pc = "extract" /\ r.kind = job[j].kind
      BY <1>0 DEF JobType
    <3> QED BY <1>4, <2>1, <2>2, <3>1
  <2> QED BY <1>0, <1>3, <1>14, <2>1, <2>2, FileMoves
<1>15. ASSUME NEW ok \in BOOLEAN, Extract(j, ok) PROVE BackupInv'
  <2>1. UNCHANGED <<base, mirror>> /\ SameRecord /\ job[j].pc = "extract"
        /\ job[j].kind \in {"update", "setup"}
    BY <1>0, <1>5, <1>7, <1>15 DEF Extract, Shape
  <2>2. CASE Moves(j, [job[j] EXCEPT !.pc = "walk"])
    <3>1. LET r == [job[j] EXCEPT !.pc = "walk"]
          IN  r.snap = job[j].snap /\ r.pc = "walk" /\ r.kind = job[j].kind
      BY <1>0 DEF JobType
    <3> QED BY <1>4, <2>1, <2>2, <3>1
  <2> QED BY <1>0, <1>3, <1>15, <2>1, <2>2, FileMoves
<1>16. ASSUME NEW ok \in BOOLEAN, ApplyFile(j, ok) PROVE BackupInv'
  <2>1. UNCHANGED <<base, mirror>> /\ job[j].pc = "apply" /\ job[j].kind \in {"update", "setup"}
    BY <1>0, <1>7, <1>16 DEF ApplyFile, Shape
  <2>2. PICK i \in job[j].todo :
           \/ Moves(j, [job[j] EXCEPT !.todo = @ \ {i}]) /\ UNCHANGED <<staging, hist, env>>
           \/ FilesDone(j, TRUE) /\ hist' = [hist EXCEPT !.torn = TRUE]
    BY <1>0, <1>16, ApplyFileMoves
  <2>3. CASE Moves(j, [job[j] EXCEPT !.todo = @ \ {i}]) /\ UNCHANGED <<staging, hist, env>>
    <3>1. LET r == [job[j] EXCEPT !.todo = @ \ {i}]
          IN  r.snap = job[j].snap /\ r.pc = "apply" /\ r.kind = job[j].kind
      BY <1>0, <2>1 DEF JobType
    <3>2. SameRecord
      BY <1>5, <2>3
    <3> QED BY <1>4, <2>1, <2>3, <3>1, <3>2
  <2>4. CASE FilesDone(j, TRUE) /\ hist' = [hist EXCEPT !.torn = TRUE]
    BY <1>3, <1>6, <2>1, <2>4
  <2> QED BY <2>2, <2>3, <2>4
<1>17. CASE Walk(j)
  <2>1. UNCHANGED <<base, mirror>> /\ SameRecord /\ job[j].pc = "walk"
        /\ job[j].kind \in {"update", "setup"}
    BY <1>0, <1>5, <1>7, <1>17 DEF Walk, Shape
  <2>2. CASE Moves(j, [job[j] EXCEPT !.pc = "apply", !.todo = staging[Dir(j)].has \cap Listed])
    <3>1. LET r == [job[j] EXCEPT !.pc = "apply", !.todo = staging[Dir(j)].has \cap Listed]
          IN  r.snap = job[j].snap /\ r.pc = "apply" /\ r.kind = job[j].kind
      BY <1>0 DEF JobType
    <3> QED BY <1>4, <2>1, <2>2, <3>1
  <2> QED BY <1>0, <1>3, <1>17, <2>1, <2>2, WalkMoves
<1>18. CASE Applied(j)
  <2>1. UNCHANGED <<base, mirror>> /\ SameRecord
    BY <1>5, <1>7, <1>18 DEF Applied
  <2> QED BY <1>0, <1>3, <1>18, <2>1, FileMoves
\* Jobs that end with their process, and the job that ends it.
<1>19. ASSUME UNCHANGED <<base, mirror>>, SameRecord, NEW x, UpdateEnds(j, x) PROVE BackupInv'
  <2>1. CASE Moves(j, IdleJob)
    BY <1>2, <1>19, <2>1, BareJobs
  <2>2. CASE job' = NewProcess(job)
    <3>1. \A k \in Jobs : Quieter(job[k], job'[k])
      <4>1. \A k \in Jobs : Quieter(job[k], IdleJob)
        BY BareJobs, BareIsQuieter
      <4>2. \A k \in Jobs : Quieter(job[k], job[k])
        BY <1>0 DEF Quieter, SnapInv
      <4> QED BY <1>0, <2>2, <4>1, <4>2, NewProcessJobs
    <3>2. BackupsAside
      BY <1>19, <3>1 DEF BackupsAside
    <3> QED BY <3>2, BackupsFrame
  <2> QED BY <1>19, <2>1, <2>2 DEF UpdateEnds
<1>20. ASSUME UNCHANGED <<base, mirror>>, SameRecord, NEW x, SwapDone(j, x) PROVE BackupInv'
  <2>1. CASE Moves(j, AgainJob)
    BY <1>2, <1>20, <2>1, BareJobs
  <2>2. CASE UpdateEnds(j, x)
    BY <1>19, <1>20, <2>2
  <2> QED BY <1>20, <2>1, <2>2 DEF SwapDone
<1>21. ASSUME NEW ok \in BOOLEAN, HotSwap(j, ok) \/ CopyExecutable(j, ok) PROVE BackupInv'
  <2>1. UNCHANGED <<base, mirror>> /\ SameRecord
    BY <1>6, <1>7, <1>21 DEF HotSwap, CopyExecutable
  <2> QED BY <1>0, <1>20, <1>21, <2>1, ExecutableMoves
<1>22. ASSUME NEW ok \in BOOLEAN, RenameExecutable(j, ok) PROVE BackupInv'
  <2>1. UNCHANGED <<base, mirror>> /\ SameRecord /\ job[j].pc = "swap" /\ job[j].kind = "update"
    BY <1>0, <1>6, <1>7, <1>22 DEF RenameExecutable, Shape
  <2>2. CASE Moves(j, [job[j] EXCEPT !.pc = "copy"])
    <3>1. LET r == [job[j] EXCEPT !.pc = "copy"]
          IN  r.snap = job[j].snap /\ r.pc = "copy" /\ r.kind = job[j].kind
      BY <1>0 DEF JobType
    <3> QED BY <1>4, <2>1, <2>2, <3>1
  <2> QED BY <1>0, <1>20, <1>22, <2>1, <2>2, ExecutableMoves
<1>23. ASSUME NEW ok \in BOOLEAN, Compose(j, ok) PROVE BackupInv'
  <2>1. UNCHANGED <<base, mirror>> /\ SameRecord
    BY <1>6, <1>23 DEF Compose
  <2> QED BY <1>0, <1>2, <1>19, <1>23, <2>1, ExecutableMoves, BareJobs
<1> QED
  BY <1>10, <1>11, <1>12, <1>13, <1>14, <1>15, <1>16, <1>17, <1>18, <1>21, <1>22, <1>23

LEMMA BackupStep == TypeInv /\ BackupInv /\ [Next]_vars => BackupInv'
<1> SUFFICES ASSUME TypeInv, BackupInv, [Next]_vars PROVE BackupInv'
  OBVIOUS
<1>0. /\ hist \in HistType /\ JobInv /\ DumpInv /\ ReportInv /\ SnapInv /\ ChosenInv
  BY DEF TypeInv, BackupInv
<1>1. ASSUME NEW j \in Jobs, JobStep(j) PROVE BackupInv'
  BY <1>1, CreateFileKeeps, DumpSucceedsKeeps, DumpFailsKeeps, RestoreStepKeeps, OtherStepKeeps
  DEF JobStep
<1>2. ASSUME NEW j \in Jobs,
             \/ handleBackup(j) \/ handleUpdateExecute(j) \/ handleSettingsRebuild(j)
             \/ commandBackup(j) \/ commandUpdate(j)
             \/ handleSetup(j) \/ commandInstall(j)
      PROVE  BackupInv'
  BY <1>2, RequestsAre, OtherStepKeeps
<1>3. ASSUME NEW j \in Jobs, NEW n \in Names, handleBackupRestore(j, n) \/ commandRestore(j, n)
      PROVE  BackupInv'
  BY <1>3, RequestsAre, OpenBackupKeeps
<1>4. ASSUME UNCHANGED <<base, mirror>>, UNCHANGED job, SameRecord PROVE BackupInv'
  <2>1. \A k \in Jobs : Quieter(job[k], job'[k])
    BY <1>0, <1>4 DEF Quieter, SnapInv
  <2>2. BackupsAside
    BY <1>4, <2>1 DEF BackupsAside
  <2> QED BY <2>2, BackupsFrame
<1>5. UNCHANGED hist => SameRecord
  BY DEF SameRecord
<1>6. CASE handleControl \/ AppWrite
  <2>1. ControlFrame
    BY <1>6 DEF handleControl, Start, ResetAll, Stop, Restart, Down, AppWrite
  <2> QED BY <1>4, <1>5, <2>1 DEF ControlFrame
<1>7. \A existing, counters : WriteConfig(existing, counters) => SameRecord
  BY <1>0 DEF WriteConfig, SameRecord, HistType
<1>8. CASE handleStatus \/ handleSettingsImport
  <2>1. UNCHANGED <<base, mirror>> /\ UNCHANGED job /\ SameRecord
    BY <1>7, <1>8 DEF handleStatus, DetectExisting, handleSettingsImport, ImportSettings, DirFrame
  <2> QED BY <1>4, <2>1
<1>9. CASE Tick
  BY <1>4, <1>5, <1>9 DEF Tick
<1>10. CASE Quit
  <2>1. UNCHANGED <<base, mirror>> /\ SameRecord /\ job' = NewProcess(job)
    BY <1>0, <1>10 DEF Quit, Note, SameRecord, HistType
  <2>2. \A k \in Jobs : Quieter(job[k], IdleJob)
    BY BareJobs, BareIsQuieter
  <2>5. \A k \in Jobs : Quieter(job[k], job[k])
    BY <1>0 DEF Quieter, SnapInv
  <2>3. \A k \in Jobs : Quieter(job[k], job'[k])
    BY <1>0, <2>1, <2>2, <2>5, NewProcessJobs
  <2>4. BackupsAside
    BY <2>1, <2>3 DEF BackupsAside
  <2> QED BY <2>4, BackupsFrame
\* Nobody writes or reads a file of the directory that is lost.
<1>11. CASE DirectoryLost
  <2>1. (\A k \in Jobs : job[k].pc = "idle") /\ UNCHANGED <<mirror, job, hist>>
    BY <1>11 DEF DirectoryLost
  <2>2. DumpInv' /\ ChosenInv'
    BY <2>1 DEF DumpInv, ChosenInv, Dumping, Writes, Restoring
  <2>3. ReportInv' /\ SnapInv'
    BY <1>0, <2>1 DEF ReportInv, SnapInv, Excused, Dumping, Writes
  <2> QED BY <2>2, <2>3 DEF BackupInv
<1>12. CASE UNCHANGED vars
  BY <1>4, <1>5, <1>12 DEF vars
<1>13. CASE Open
  <2>1. UNCHANGED <<base, mirror>> /\ UNCHANGED job /\ SameRecord
    BY <1>0, <1>13 DEF Open, Note, SameRecord, HistType
  <2> QED BY <1>4, <2>1
<1> QED
  BY <1>1, <1>2, <1>3, <1>6, <1>8, <1>9, <1>10, <1>11, <1>12, <1>13, ListBackupsKeeps, UploadKeeps
  DEF Next, handleBackupsList

-----------------------------------------------------------------------------
(* The invariant and what follows from it.                                  *)

LEMMA InvInit == Init => IInv
<1> SUFFICES ASSUME Init PROVE IInv
  OBVIOUS
<1>1. TypeInv
  BY TypeInit
<1>2. \A j \in Jobs : job[j].pc = "idle" /\ job[j].snap = NoFile
  BY DEF Init, IdleJob
<1>3. PasswordInv
  BY DEF Init, PasswordInv
<1>4. SwapInv
  BY <1>2 DEF Init, SwapInv, Swapping
<1>5. StagingInv
  BY DEF Init, StagingInv, NoDir
<1>6. FilesInv
  BY <1>2 DEF Init, FilesInv, Copying, OneVersion, NoFiles, ProjectFiles
<1>7. DumpInv /\ ChosenInv
  BY <1>2 DEF DumpInv, ChosenInv, Dumping, Writes, Restoring
<1>8. ReportInv /\ SnapInv
  BY <1>2 DEF Init, ReportInv, SnapInv
<1> QED BY <1>1, <1>3, <1>4, <1>5, <1>6, <1>7, <1>8 DEF IInv, BackupInv

LEMMA InvStep == IInv /\ [Next]_vars => IInv'
<1> SUFFICES ASSUME IInv, [Next]_vars PROVE IInv'
  OBVIOUS
<1>1. TypeInv /\ PasswordInv /\ WholeInv /\ BackupInv /\ SnapInv
  BY DEF IInv, WholeInv, BackupInv
<1> QED BY <1>1, TypeStep, PasswordStep, WholeStep, BackupStep DEF IInv, WholeInv

LEMMA InvHolds == Spec => []IInv
  BY InvInit, InvStep, PTL DEF Spec

LEMMA WholeFollows == IInv => LauncherIsWhole
<1> SUFFICES ASSUME IInv PROVE LauncherIsWhole
  OBVIOUS
<1>1. TypeOK
  BY JobsTyped DEF IInv, TypeInv, TypeOK
<1>2. InstallationIsWhole
  <2> SUFFICES ASSUME \A j \in Jobs : ~Copying(j), ~hist.torn,
                      files # EmbeddedOnly
               PROVE  Cardinality({files[f] : f \in ProjectFiles}) = 1
    BY DEF InstallationIsWhole
  <2>1. files["Dockerfile.server"] = files["docker-compose.yml"]
    BY DEF IInv, FilesInv, Copying, OneVersion
  <2>2. {files[f] : f \in ProjectFiles} = {files["Dockerfile.server"]}
    BY <2>1 DEF ProjectFiles
  <2> QED BY <2>2, FS_Singleton
<1>3. ExecutableIsThere
  BY DEF IInv, SwapInv, Swapping, ExecutableIsThere
<1>4. StagingIsRemoved
  BY DEF IInv, StagingInv, Owns, Holds, StagingIsRemoved
<1> QED BY <1>1, <1>2, <1>3, <1>4 DEF LauncherIsWhole

LEMMA BackupsFollow == IInv => BackupsAreKept
  BY DEF IInv, BackupInv, ReportInv, SnapInv, Excused, BackupsAreKept, ReportedBackupIsKept,
         RestoreKeepsSafetyCopy, CopyIsFound

LEMMA PasswordFollows == IInv => PasswordOpensVolume
  BY DEF IInv, PasswordInv, PasswordOpensVolume

\* The state of the installation has its types; its files are of one version or
\* the embedded compose file is all there is, its executable is there and no
\* staging directory is left over, except after an interruption or an overlap
\* of jobs that history notes (internal/launcher: templates.go, updater.go).
THEOREM InstallationStaysWhole == Spec => []LauncherIsWhole
  BY InvHolds, WholeFollows, PTL

\* A backup that was reported, and a safety copy a restore relied on, stays in
\* one of the two directories; no restore refuses a backup of which there is a
\* copy (engine.go: CreateBackup, RestoreBackup, ListBackups).
THEOREM BackupsStay == Spec => []BackupsAreKept
  BY InvHolds, BackupsFollow, PTL

\* The password in .env opens the database volume, unless a configuration was
\* written from nothing, or from containers that were started without one,
\* while another volume was there (config.go, settings.go).
THEOREM PasswordFits == Spec => []PasswordOpensVolume
  BY InvHolds, PasswordFollows, PTL

\* Only a restore whose import goes through sends a job to its last step.
LEMMA OnlyImportsStart ==
  ASSUME IInv, Next, NEW j \in Jobs, job[j].pc = "import", job'[j].pc = "start"
  PROVE  \E result \in {"ok", "statements"} : Import(j, result)
<1>0. JobInv /\ BackupFilesOK /\ InstallationOK /\ vol.data \in Data /\ Partial \in Data /\ clock \in Names
      /\ files \in FilesType
  BY DataFacts DEF IInv, TypeInv, InstallationOK, BackupFilesOK, FilesType
<1>1. "start" # "import" /\ IdleJob.pc # "start"
  BY DEF IdleJob
\* Steps of another job.
<1>2. ASSUME NEW k \in Jobs, k # j, NEW r, Moves(k, r) PROVE FALSE
  <2>1. job'[j] = job[j]
    BY <1>0, <1>2, MovesFacts
  <2> QED BY <2>1
<1>3. ASSUME NEW k \in Jobs, k # j, NEW error, FilesDone(k, error) PROVE FALSE
  BY <1>2, <1>3 DEF FilesDone
<1>4. ASSUME NEW k \in Jobs, k # j, NEW x, UpdateEnds(k, x) PROVE FALSE
  <2>1. CASE job' = NewProcess(job)
    <3>1. job'[j] = IdleJob \/ job'[j] = job[j]
      BY <1>0, <2>1, NewProcessJobs
    <3> QED BY <1>1, <3>1
  <2> QED BY <1>2, <1>4, <2>1 DEF UpdateEnds
<1>5. ASSUME NEW k \in Jobs, k # j, NEW x, SwapDone(k, x) PROVE FALSE
  BY <1>2, <1>4, <1>5 DEF SwapDone
<1>6. ASSUME NEW k \in Jobs, k # j, JobStep(k) PROVE FALSE
  <2>1. ~ \E ok \in BOOLEAN : CreateFile(k, ok)
    BY <1>0, <1>2, <1>6, CreateFileMoves
  <2>2. ~ \E ok \in BOOLEAN : StopApp(k, ok) \/ DropSchema(k, ok) \/ StartApp(k, ok)
    BY <1>0, <1>2, <1>6, RestoreMoves
  <2>3. ~ \E result : Import(k, result)
    BY <1>0, <1>2, <1>6, RestoreMoves
  <2>4. ~ \E data \in {vol.data, Partial}, ok \in BOOLEAN : DumpSucceeds(k, data, ok)
    <3> SUFFICES ASSUME NEW data \in {vol.data, Partial}, NEW ok \in BOOLEAN,
                        DumpSucceeds(k, data, ok)
                 PROVE  FALSE
      OBVIOUS
    <3>1. data \in Data /\ JobInv
      BY <1>0
    <3> QED BY <1>2, <1>6, <3>1, DumpSucceedsMoves
  <2>5. ~DumpFails(k)
    <3> SUFFICES ASSUME DumpFails(k) PROVE FALSE
      OBVIOUS
    <3> DEFINE n == job[k].name
    <3>1. n \in Names
      BY <1>0, ReadingJobs DEF DumpFails, Shape
    <3>2. PICK r \in JobType : job' = [Noticed(n) EXCEPT ![k] = r]
      BY <1>0, <1>6, DumpFailsMoves
    <3>3. Noticed(n) \in [Jobs -> JobType] /\ Noticed(n)[j] = [job[j] EXCEPT !.gone = @ \/ job[j].src = n]
      BY <1>0, <3>1, NoticedFacts
    <3> HIDE DEF n
    <3>4. job'[j] = [job[j] EXCEPT !.gone = @ \/ job[j].src = n]
      BY <1>6, <3>2, <3>3
    <3>5. job[j] \in JobType
      BY <1>0, ReadingJobs
    <3> QED BY <1>1, <3>4, <3>5 DEF JobType
  <2>6. ~ \E result \in {"ok", "main", "failed"} : Download(k, result)
    BY <1>0, <1>2, <1>3, <1>6, FileMoves
  <2>7. ~ \E ok \in BOOLEAN : Extract(k, ok)
    BY <1>0, <1>2, <1>3, <1>6, FileMoves
  <2>8. ~ \E ok \in BOOLEAN : ApplyFile(k, ok)
    BY <1>0, <1>2, <1>3, <1>6, ApplyFileMoves
  <2>9. ~Walk(k)
    BY <1>0, <1>2, <1>3, <1>6, WalkMoves
  <2>10. ~Applied(k) /\ ~EnsureProjectFiles(k)
    BY <1>0, <1>2, <1>3, <1>6, FileMoves
  <2>11. ~InstallConfig(k)
    BY <1>0, <1>2, <1>6, RequestMoves
  <2>12. ~ \E ok \in BOOLEAN : HotSwap(k, ok) \/ RenameExecutable(k, ok) \/ CopyExecutable(k, ok)
    BY <1>0, <1>2, <1>5, <1>6, ExecutableMoves
  <2>13. ~ \E ok \in BOOLEAN : Compose(k, ok)
    BY <1>0, <1>2, <1>4, <1>6, ExecutableMoves
  <2> QED
    BY <1>6, <2>1, <2>2, <2>3, <2>4, <2>5, <2>6, <2>7, <2>8, <2>9, <2>10, <2>11, <2>12, <2>13
    DEF JobStep
\* Steps of job j itself start elsewhere.
<1>7. ASSUME JobStep(j) PROVE \E result \in {"ok", "statements"} : Import(j, result)
  <2>1. \E result \in {"ok", "statements", "failed"} : Import(j, result)
    BY <1>7 DEF JobStep, CreateFile, StopApp, DropSchema, StartApp, Extract, ApplyFile, HotSwap,
       RenameExecutable, CopyExecutable, Compose, DumpSucceeds, DumpFails, Download, Walk,
       Applied, EnsureProjectFiles, InstallConfig
  <2>2. ~Import(j, "failed")
    <3>1. Import(j, "failed") => job'[j] = IdleJob
      BY <1>0, RestoreMoves, MovesFacts
    <3> QED BY <1>1, <3>1
  <2> QED BY <2>1, <2>2
\* Requests begin with an idle job.
<1>8. ASSUME NEW k \in Jobs, job[k].pc = "idle", NEW r, Moves(k, r) PROVE FALSE
  BY <1>2, <1>8
<1>9. ASSUME NEW k \in Jobs, NEW kind \in {"backup", "update", "rebuild"}, Request(k, kind) PROVE FALSE
  BY <1>0, <1>8, <1>9, RequestMoves DEF Request, Begin
<1>10. ASSUME NEW k \in Jobs, handleSetup(k) \/ commandInstall(k) PROVE FALSE
  <2>1. job[k].pc = "idle"
    BY <1>10 DEF handleSetup, commandInstall, Begin
  <2> QED BY <1>0, <1>8, <1>10, <2>1, RequestMoves
<1>11. ASSUME NEW k \in Jobs, NEW n \in Names, OpenBackup(k, n) PROVE FALSE
  <2>1. job[k].pc = "idle"
    BY <1>11 DEF OpenBackup
  <2> QED BY <1>0, <1>1, <1>8, <1>11, <2>1, OpenBackupMoves
<1>12. ASSUME UNCHANGED job PROVE FALSE
  BY <1>1, <1>12
<1>13. ~(handleControl \/ AppWrite)
  BY <1>12 DEF handleControl, Start, ResetAll, Stop, Restart, Down, AppWrite, ControlFrame
<1>14. ~(handleStatus \/ handleSettingsImport \/ handleBackupsList)
  BY <1>12 DEF handleStatus, DetectExisting, handleSettingsImport, ImportSettings,
     handleBackupsList, ListBackups, DirFrame
<1>15. ~ \E n \in Names, data \in {1, Partial} : handleBackupUpload(n, data)
  BY <1>12 DEF handleBackupUpload, DirFrame
<1>16. ~(Tick \/ Open \/ DirectoryLost)
  BY <1>12 DEF Tick, Open, DirectoryLost
<1>17. ~Quit
  <2>1. Quit => job'[j] = IdleJob \/ job'[j] = job[j]
    BY <1>0, NewProcessJobs DEF Quit
  <2> QED BY <1>1, <2>1
<1> QED
  BY <1>6, <1>7, <1>9, <1>10, <1>11, <1>13, <1>14, <1>15, <1>16, <1>17, RequestsAre
  DEF Next

\* An import without a failing statement leaves what the chosen file held when
\* the restore began, under the exceptions of BackupsAreKept (RestoreBackup).
THEOREM RestoreImports == Spec => RestoreImportsTheFile
<1> DEFINE Imports(j) ==
      (job[j].pc = "import" /\ job'[j].pc = "start" /\ budget'.faults = budget.faults)
            => \/ vol'.data = job[j].want
               \/ job[j].want = Partial
               \/ job[j].src \in hist.clobbered
<1>1. ASSUME IInv, [Next]_vars, NEW j \in Jobs PROVE Imports(j)
  <2> SUFFICES ASSUME job[j].pc = "import", job'[j].pc = "start",
                      budget'.faults = budget.faults,
                      job[j].want # Partial, job[j].src \notin hist.clobbered
               PROVE  vol'.data = job[j].want
    OBVIOUS
  <2>0. /\ budget \in BudgetType /\ budget.faults \in Nat /\ vol \in [there : BOOLEAN, pw : Passwords, data : Data]
        /\ job[j] \in JobType /\ Shape(job[j]) /\ ChosenInv
    BY <1>1, ReadingJobs DEF IInv, TypeInv, CountersOK, BudgetType, InstallationOK, BackupInv
  <2>1. Next
    BY <1>1 DEF vars
  <2>2. PICK result \in {"ok", "statements"} : Import(j, result)
    BY <1>1, <2>1, OnlyImportsStart
  <2>3. result = "ok"
    <3>1. CASE result = "statements"
      <4>1. runs.db /\ Call(FALSE)
        BY <2>2, <3>1 DEF Import, Exec
      <4>2. budget'.faults = budget.faults + 1
        BY <2>0, <4>1, Called
      <4> QED BY <2>0, <4>2
    <3> QED BY <3>1
  <2>4. vol'.data = Bytes(j)
    BY <2>0, <2>2, <2>3 DEF Import
  <2>5. job[j].kind = "restore" /\ job[j].pc \in Restoring
    BY <2>0 DEF Shape, Restoring
  <2>6. ~job[j].gone /\ base[job[j].src] = job[j].want
    BY <2>0, <2>5 DEF ChosenInv
  <2> QED BY <2>4, <2>6 DEF Bytes
<1>2. IInv /\ [Next]_vars => [\A j \in Jobs : Imports(j)]_vars
  BY <1>1
<1> HIDE DEF Imports
<1>3. Spec => [][\A j \in Jobs : Imports(j)]_vars
  BY InvHolds, <1>2, PTL DEF Spec
<1> QED BY <1>3 DEF RestoreImportsTheFile, Imports

=============================================================================
