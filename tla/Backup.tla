------------------------------- MODULE Backup -------------------------------
(***************************************************************************)
(* Backup export, restore and restore drill                                *)
(* (src/internal/core/backup, src/internal/server/handlers/backup.go,      *)
(* src/internal/db/backup_stream.go, backup.sql.go).                       *)
(*                                                                         *)
(* An export, a restore and a drill, MaxOps of the three in a behaviour,   *)
(* run side by side with the CRM's own writes to the live tables.  A table *)
(* read is one statement with its own snapshot; the rows of one table are  *)
(* upserted in one step.  The restore's transaction is an overlay `tx' on  *)
(* the committed tables: the rows it wrote are locked, and TRUNCATE locks  *)
(* every table until the transaction ends.  A row carries its key and one  *)
(* foreign key; contents are otherwise left out.  Every call that can fail *)
(* may fail, up to MaxFaults failures in a behaviour.                      *)
(*                                                                         *)
(* The rows of four tables are followed.  One that is not, and for which   *)
(* none of this holds, is ai_research_jobs: its upsert sets updated_at, a  *)
(* column no migration gives it, so a file with a row of it is never       *)
(* restored and a drill over such a row never passes.                      *)
(***************************************************************************)
EXTENDS Naturals, Sequences, FiniteSets

CONSTANTS
    Kept,         \* the tables of the registry that hold rows in the instance
    Companies,    \* ids of company rows
    Contacts,     \* ids of contact rows
    AICalls,      \* ids of rows that log a call of the AI gateway
    User,         \* the account such a row names (accounts are not kept)
    Null,         \* the SQL NULL
    MaxWrites,    \* bound on writes by the CRM itself
    MaxFaults,    \* bound on failing calls and crashes
    MaxOps        \* bound on the exports, restores and drills that are started

ASSUME BoundsAssumption ==
    /\ MaxWrites \in Nat /\ MaxFaults \in Nat /\ MaxOps \in Nat
    /\ Kept = {"companies", "contacts", "audit_logs", "ai_audit_logs"}
    /\ Null \notin Companies \cup Contacts \cup AICalls \cup {User}

VARIABLES
    pool,      \* TRUE with PostgreSQL, FALSE for the in-memory demo store
    live,      \* the committed public tables: table -> set of rows
    logged,    \* every audit event ever written, whatever became of its row
    file,      \* the complete export in the administrator's hands, or NoFile
    exp,       \* the export in progress
    res,       \* the restore in progress
    tx,        \* the restore's transaction
    spool,     \* the restore's temporary file exists
    drl,       \* the drill in progress
    scratch,   \* the scratch schema
    watch,     \* history: what stayed unchanged during the export and the drill
    crashed,   \* the server crashed
    budget     \* writes and faults so far

vars == <<pool, live, logged, file, exp, res, tx, spool, drl, scratch, watch,
          crashed, budget>>

-----------------------------------------------------------------------------
(* The table registry.                                                      *)

TableSpecs ==
    <<"users", "companies", "workflows", "contacts", "deals", "email_accounts",
      "todos", "refresh_tokens", "audit_logs", "notifications",
      "email_messages", "email_attachments", "appointments", "call_activities",
      "company_research", "workflow_runs", "workflow_steps", "notes",
      "intake_forms", "user_invites", "email_templates",
      "knowledge_base_articles", "ai_research_jobs", "ai_audit_logs">>

\* The declared foreign keys, child to parent, as the migrations leave them.
ForeignKeys ==
    {<<"contacts", "companies">>, <<"deals", "companies">>,
     <<"deals", "contacts">>, <<"todos", "contacts">>, <<"todos", "deals">>,
     <<"appointments", "contacts">>, <<"appointments", "companies">>,
     <<"appointments", "deals">>, <<"call_activities", "contacts">>,
     <<"company_research", "companies">>,
     <<"email_messages", "email_accounts">>, <<"email_messages", "contacts">>,
     <<"email_messages", "deals">>, <<"email_attachments", "email_messages">>,
     <<"workflow_runs", "workflows">>, <<"workflow_steps", "workflow_runs">>}
    \cup ({"contacts", "companies", "notes", "appointments", "email_accounts",
           "user_invites", "refresh_tokens", "deals", "todos", "audit_logs",
           "notifications", "ai_audit_logs"} \X {"users"})

\* The tables the instance keeps rows in, in registry order.
KeptInOrder == <<"companies", "contacts", "audit_logs", "ai_audit_logs">>

\* Mutant: the import runs in the order of the truncation.
TableNamesReversed == [n \in 1..4 |-> KeptInOrder[5 - n]]

\* Export, import and drill all walk the registry from its start.
TableNames == KeptInOrder

\* The columns a table has and its allow-list and static upsert do not.
UnlistedColumns(t) == IF t = "ai_audit_logs" THEN {"user_id"} ELSE {}

KeptKeys == {k \in ForeignKeys : k[1] \in Kept /\ k[2] \in Kept}

Ids(rows) == {r.id : r \in rows}

\* A row's reference resolves against the parents' rows, found in `tables'.
Resolves(t, row, tables) ==
    \/ row.ref \in {Null, User}
    \/ \E k \in KeptKeys : k[1] = t /\ row.ref \in Ids(tables[k[2]])

Empty == [t \in Kept |-> {}]

AuditRow(op, what) == [id |-> <<op, what>>, ref |-> Null]

Operations == {"EXPORT", "RESTORE", "DRILL"}
Outcomes == {"STARTED", "COMPLETED", "FAILED"}

Rows ==
    [companies |-> [id : Companies, ref : {Null}],
     contacts |-> [id : Contacts, ref : Companies \cup {Null}],
     ai_audit_logs |-> [id : AICalls, ref : {Null, User}],
     audit_logs |-> [id : Operations \X Outcomes, ref : {Null}]]

AnyRow == UNION {Rows[t] : t \in Kept}

\* The primary key of a table: no two rows with one id.
Keyed(rows) == \A r, s \in rows : r.id = s.id => r = s

\* Tables hold rows of their own kind, each under its own key.
Tables == {f \in [Kept -> SUBSET AnyRow] :
             \A t \in Kept : f[t] \subseteq Rows[t] /\ Keyed(f[t])}

-----------------------------------------------------------------------------
(* Failures, locks and the audit log.                                       *)

Fault == /\ budget.faults < MaxFaults
         /\ budget' = [budget EXCEPT !.faults = @ + 1]

NoFault == UNCHANGED budget

\* TRUNCATE's exclusive lock keeps every other connection out of the tables.
Unlocked == ~tx.truncated

\* logAudit: an insert on a connection of its own, which may fail.
LogAudit(op, what, ok) ==
    /\ Unlocked
    /\ IF ok
       THEN /\ live' = [live EXCEPT !["audit_logs"] = @ \cup {AuditRow(op, what)}]
            /\ logged' = logged \cup {<<op, what>>}
            /\ NoFault
       ELSE /\ Fault
            /\ UNCHANGED <<live, logged>>

\* scanBackupRows: one table through its own selector.
ScanBackupTable(t) == live[t]

\* The demo store has no map for some tables and streams nothing for them.
ScanDemoTable(t) ==
    IF t \in {"company_research", "intake_forms", "ai_audit_logs", "workflow_steps"}
    THEN {} ELSE live[t]

Stream(t) == IF pool THEN ScanBackupTable(t) ELSE ScanDemoTable(t)

\* History: the rows that stayed as they were since the drill began, and
\* whether the CRM tables stayed as they were since the export began.
Watch ==
    watch' = [since |-> IF drl'.pc \in {"idle", "drop", "done"} THEN Empty
                        ELSE IF drl.pc = "idle" THEN live
                        ELSE [t \in Kept |-> watch.since[t] \cap live'[t]],
              quiet |-> \/ exp'.pc \in {"idle", "done"}
                        \/ /\ watch.quiet
                           /\ \A t \in Kept \ {"audit_logs"} : live'[t] = live[t]]

-----------------------------------------------------------------------------
(* The CRM's own writes.                                                    *)

CRMWrite == /\ budget.writes < MaxWrites
            /\ budget' = [budget EXCEPT !.writes = @ + 1]
            /\ Unlocked
            /\ UNCHANGED <<pool, logged, file, exp, res, tx, spool, drl,
                           scratch, crashed>>
            /\ Watch

CreateCompany(c) ==
    /\ c \notin Ids(live["companies"]) \cup Ids(tx.rows["companies"])
    /\ live' = [live EXCEPT !["companies"] = @ \cup {[id |-> c, ref |-> Null]}]
    /\ CRMWrite

CreateContact(p, c) ==
    /\ p \notin Ids(live["contacts"]) \cup Ids(tx.rows["contacts"])
    /\ Resolves("contacts", [id |-> p, ref |-> c], live)
    /\ live' = [live EXCEPT !["contacts"] = @ \cup {[id |-> p, ref |-> c]}]
    /\ CRMWrite

\* ObservabilityService.Record: the call is logged with the caller's id.
RecordAICall(a) ==
    /\ pool
    /\ a \notin Ids(live["ai_audit_logs"]) \cup Ids(tx.rows["ai_audit_logs"])
    /\ live' = [live EXCEPT !["ai_audit_logs"] = @ \cup {[id |-> a, ref |-> User]}]
    /\ CRMWrite

\* ON DELETE SET NULL; waits for rows the restore has written or referenced.
DeleteCompany(c) ==
    /\ c \in Ids(live["companies"])
    /\ c \notin Ids(tx.rows["companies"])
    /\ \A r \in tx.rows["contacts"] : r.ref # c
    /\ \A r \in live["contacts"] : r.ref = c => r.id \notin Ids(tx.rows["contacts"])
    /\ live' = [live EXCEPT
                  !["companies"] = {r \in @ : r.id # c},
                  !["contacts"] = {IF r.ref = c THEN [r EXCEPT !.ref = Null] ELSE r
                                     : r \in @}]
    /\ CRMWrite

-----------------------------------------------------------------------------
(* Export.                                                                  *)

NoFile == [held |-> FALSE, new |-> FALSE, quiet |-> TRUE, tables |-> Empty]

\* A file from an earlier export, taken while nothing was written.
OldFile(c, p) ==
    [held |-> TRUE, new |-> FALSE, quiet |-> TRUE,
     tables |-> [Empty EXCEPT !["companies"] = {[id |-> c, ref |-> Null]},
                              !["contacts"] = {[id |-> p, ref |-> Null]}]]

ExportIdle == [pc |-> "idle", i |-> 1, tables |-> Empty]

ExportFrame == UNCHANGED <<pool, res, tx, spool, drl, scratch, crashed>> /\ Watch

\* Operations in progress or over.
MayStart == Cardinality({op \in {"exp", "res", "drl"} :
                \/ op = "exp" /\ exp.pc # "idle"
                \/ op = "res" /\ res.pc # "idle"
                \/ op = "drl" /\ drl.pc # "idle"}) < MaxOps

\* A failing STARTED audit does not stop the export.
ExportStart ==
    /\ exp.pc = "idle" /\ MayStart
    /\ \E ok \in BOOLEAN : LogAudit("EXPORT", "STARTED", ok)
    /\ exp' = [exp EXCEPT !.pc = "tables"]
    /\ UNCHANGED file /\ ExportFrame

ExportTable ==
    /\ exp.pc = "tables" /\ exp.i <= Len(TableNames)
    /\ \/ /\ Unlocked /\ NoFault
          /\ exp' = [exp EXCEPT !.i = @ + 1,
                                !.tables[TableNames[exp.i]] =
                                    Stream(TableNames[exp.i])]
       \/ /\ Fault
          /\ exp' = [exp EXCEPT !.pc = "failed"]
    /\ UNCHANGED <<live, logged, file>> /\ ExportFrame

ExportFailed ==
    /\ exp.pc = "failed"
    /\ \E ok \in BOOLEAN : LogAudit("EXPORT", "FAILED", ok)
    /\ exp' = [ExportIdle EXCEPT !.pc = "done"]
    /\ UNCHANGED file /\ ExportFrame

\* The tail of the document leaves the buffer only after this audit.
ExportCompleted ==
    /\ exp.pc = "tables" /\ exp.i > Len(TableNames)
    /\ \E ok \in BOOLEAN :
          /\ LogAudit("EXPORT", "COMPLETED", ok)
          /\ exp' = IF ok THEN [exp EXCEPT !.pc = "flush"]
                          ELSE [ExportIdle EXCEPT !.pc = "done"]
    /\ UNCHANGED file /\ ExportFrame

ExportFlush ==
    /\ exp.pc = "flush"
    /\ \/ NoFault /\ file' = [held |-> TRUE, new |-> TRUE,
                              quiet |-> watch.quiet, tables |-> exp.tables]
       \/ Fault /\ UNCHANGED file
    /\ exp' = [ExportIdle EXCEPT !.pc = "done"]
    /\ UNCHANGED <<live, logged>> /\ ExportFrame

ExportStep == \/ ExportTable \/ ExportFailed
              \/ ExportCompleted \/ ExportFlush

-----------------------------------------------------------------------------
(* Restore.                                                                 *)

NoTx == [open |-> FALSE, truncated |-> FALSE, rows |-> Empty]

\* What a client can upload: an exported file cut down to some of its tables,
\* or a document over the size limit or with one of the defects the
\* validation looks for.
Defects == {"not_json", "format", "version", "no_tables", "unknown_table",
            "not_rows", "unknown_column", "repeated_column", "no_key",
            "truncated"}

NoEnvelope == [kind |-> "not_json", names |-> {}, quiet |-> TRUE, tables |-> Empty]

Envelopes ==
    {[NoEnvelope EXCEPT !.kind = kind] : kind \in Defects \cup {"too_large"}}
    \cup {[kind |-> "valid", names |-> names, quiet |-> file.quiet,
           tables |-> [t \in Kept |-> IF t \in names THEN file.tables[t] ELSE {}]]
             : names \in IF file.held THEN {Kept \ S : S \in {{}} \cup {{t} : t \in Kept}}
                                      ELSE {}}

RestoreIdle == [pc |-> "idle", mode |-> "merge", env |-> NoEnvelope, i |-> 1,
                own |-> FALSE, answer |-> "none", applied |-> FALSE, ackLost |-> FALSE,
                cause |-> "none"]

RestoreFrame == UNCHANGED <<pool, file, exp, drl, scratch, crashed>> /\ Watch

\* The answer's committed flag (writeRestoreFailure and the success answer).
SaysCommitted(answer) == answer \in {"ok", "committed_audit_failed"}

\* A return from the service: its deferred calls remove the spool file.
Return(r, answer) ==
    /\ res' = [r EXCEPT !.pc = "done", !.answer = answer, !.env = NoEnvelope]
    /\ spool' = FALSE

Failing(r, cause, pc) == [r EXCEPT !.pc = pc, !.cause = cause]

\* spoolBackup: the copy of the body fails at the handler's size limit.
SpoolBackup(env) == env.kind # "too_large"

\* Pass one over the document, level by level.
ValidateRow(env) ==
    /\ env.kind \notin {"unknown_column", "repeated_column", "no_key"}
    /\ \A t \in Kept : env.tables[t] # {} => UnlistedColumns(t) = {}
ValidateTableRows(env) == env.kind # "not_rows" /\ ValidateRow(env)
ReadTablesObject(env) == env.kind # "unknown_table" /\ ValidateTableRows(env)
ReadEnvelopeHeader(env) ==
    env.kind \notin {"not_json", "truncated"} /\ ReadTablesObject(env)
ValidateBackupFile(env) ==
    env.kind \notin {"format", "version", "no_tables"} /\ ReadEnvelopeHeader(env)

\* Mutant: a table that is not in the file is taken to be empty.
MissingTablesNone(env) == {}

\* The registry tables the envelope does not carry.
MissingTables(env) == Kept \ env.names

\* What is refused before the database is touched, by the handler and then by
\* the service.
Refusal(mode, env) ==
    IF mode = "other" THEN "invalid_mode"
    ELSE IF ~SpoolBackup(env) THEN "too_large"
    ELSE IF ~ValidateBackupFile(env) THEN "invalid_backup"
    ELSE IF mode = "replace" /\ MissingTables(env) # {} THEN "incomplete"
    ELSE IF ~pool THEN "unavailable" ELSE "none"

\* The request up to that point works on the upload alone.
Restore(mode, env) ==
    /\ res.pc = "idle" /\ MayStart
    /\ LET refusal == Refusal(mode, env)
       IN IF refusal # "none"
          THEN Return([res EXCEPT !.own = env.kind = "valid"], refusal)
          ELSE /\ res' = [res EXCEPT !.pc = "accepted", !.mode = mode, !.env = env]
               /\ spool' = TRUE
    /\ UNCHANGED <<live, logged, tx, budget>> /\ RestoreFrame

\* A failing STARTED audit does not stop the restore.
RestoreStarted ==
    /\ res.pc = "accepted"
    /\ \E ok \in BOOLEAN : LogAudit("RESTORE", "STARTED", ok)
    /\ res' = [res EXCEPT !.pc = "begin"]
    /\ UNCHANGED <<tx, spool>> /\ RestoreFrame

RestoreBegin ==
    /\ res.pc = "begin"
    /\ \/ /\ NoFault
          /\ tx' = [tx EXCEPT !.open = TRUE]
          /\ res' = [res EXCEPT !.pc = IF res.mode = "replace" THEN "truncate"
                                                              ELSE "tables"]
       \/ /\ Fault
          /\ res' = Failing(res, "begin", "failed") /\ UNCHANGED tx
    /\ UNCHANGED <<live, logged, spool>> /\ RestoreFrame

TruncateBackupTables ==
    /\ res.pc = "truncate"
    /\ \/ /\ NoFault
          /\ tx' = [tx EXCEPT !.truncated = TRUE]
          /\ res' = [res EXCEPT !.pc = "tables"]
       \/ /\ Fault
          /\ res' = Failing(res, "truncate", "rollback") /\ UNCHANGED tx
    /\ UNCHANGED <<live, logged, spool>> /\ RestoreFrame

\* INSERT ... ON CONFLICT (id) DO UPDATE of every column.
Upsert(old, rows) == rows \cup {r \in old : r.id \notin Ids(rows)}

\* What the static statement stores of a row: the columns it lists.
Stored(t, rows) == IF UnlistedColumns(t) = {} THEN rows
                   ELSE {[r EXCEPT !.ref = Null] : r \in rows}

\* What the transaction itself sees.
TxView == [t \in Kept |-> Upsert(IF tx.truncated THEN {} ELSE live[t], tx.rows[t])]

\* applyTableRows for the next table; foreign keys are checked at once.  The
\* upserts of the kept tables name columns that these tables have.
ApplyTableRows ==
    /\ res.pc = "tables" /\ res.i <= Len(TableNames)
    /\ LET t == TableNames[res.i]
       IN \/ /\ NoFault
             /\ IF \A r \in res.env.tables[t] : Resolves(t, r, TxView)
                THEN /\ tx' = [tx EXCEPT !.rows[t] = Stored(t, res.env.tables[t])]
                     /\ res' = [res EXCEPT !.i = @ + 1]
                ELSE /\ res' = Failing(res, "foreign_key", "rollback")
                     /\ UNCHANGED tx
          \/ /\ Fault
             /\ res' = Failing(res, "import", "rollback") /\ UNCHANGED tx
    /\ UNCHANGED <<live, logged, spool>> /\ RestoreFrame

\* Commit may fail, and may succeed without the answer arriving.
RestoreCommit ==
    /\ res.pc = "tables" /\ res.i > Len(TableNames)
    /\ \/ /\ NoFault
          /\ live' = TxView /\ tx' = NoTx
          /\ res' = [res EXCEPT !.pc = "committed", !.applied = TRUE]
       \/ /\ Fault
          /\ live' = TxView /\ tx' = NoTx
          /\ res' = [Failing(res, "commit", "rollback") EXCEPT
                       !.applied = TRUE, !.ackLost = TRUE]
       \/ /\ Fault
          /\ res' = Failing(res, "commit", "rollback")
          /\ UNCHANGED <<live, tx>>
    /\ UNCHANGED <<logged, spool>> /\ RestoreFrame

\* Mutant: the transaction is still open when the FAILED audit is written.
RestoreRollbackLate ==
    /\ res.pc = "rollback"
    /\ res' = [res EXCEPT !.pc = "failed"]
    /\ UNCHANGED <<live, logged, tx, spool, budget>> /\ RestoreFrame

\* The deferred rollback runs before the deferred FAILED audit.
RestoreRollback ==
    /\ res.pc = "rollback"
    /\ tx' = NoTx
    /\ res' = [res EXCEPT !.pc = "failed"]
    /\ UNCHANGED <<live, logged, spool, budget>> /\ RestoreFrame

RestoreFailed ==
    /\ res.pc = "failed"
    /\ \E ok \in BOOLEAN : LogAudit("RESTORE", "FAILED", ok)
    /\ Return(res, "rolled_back")
    /\ UNCHANGED tx /\ RestoreFrame

RestoreCompleted ==
    /\ res.pc = "committed"
    /\ \E ok \in BOOLEAN :
          /\ LogAudit("RESTORE", "COMPLETED", ok)
          /\ Return(res, IF ok THEN "ok" ELSE "committed_audit_failed")
    /\ UNCHANGED tx /\ RestoreFrame

RestoreStep == \/ RestoreStarted \/ RestoreBegin \/ TruncateBackupTables
               \/ ApplyTableRows \/ RestoreCommit \/ RestoreRollback
               \/ RestoreFailed \/ RestoreCompleted

-----------------------------------------------------------------------------
(* The restore drill.                                                       *)

DrillIdle == [pc |-> "idle", i |-> 1, added |-> 0, buffer |-> {}, read |-> Empty,
              rows |-> Empty, late |-> FALSE, dropFailed |-> FALSE]

NoScratch == [made |-> FALSE, tables |-> {}, keys |-> {}, rows |-> Empty]

DrillFrame == UNCHANGED <<pool, file, exp, res, tx, spool, crashed>> /\ Watch

\* The points where a statement of the drill may fail.
DrillWorking == {"clone", "rewrite", "prepare", "read", "import",
                 "check", "commit"}

\* Without a pool the answer is "unavailable" and nothing happens.
DrillStart ==
    /\ drl.pc = "idle" /\ MayStart
    /\ IF pool
       THEN /\ \E ok \in BOOLEAN : LogAudit("DRILL", "STARTED", ok)
            /\ drl' = [drl EXCEPT !.pc = "clone"]
       ELSE /\ drl' = [drl EXCEPT !.pc = "done"]
            /\ UNCHANGED <<live, logged, budget>>
    /\ UNCHANGED scratch /\ DrillFrame

\* CREATE SCHEMA, then LIKE ... INCLUDING ALL for every table; whether foreign keys come along (still pointing at
\* public) depends on the server.
CloneTables ==
    /\ drl.pc = "clone" /\ Unlocked
    /\ \E copied \in {{}, {<<k[1], k[2], "public">> : k \in KeptKeys}} :
          scratch' = [scratch EXCEPT !.made = TRUE, !.tables = Kept, !.keys = copied]
    /\ drl' = [drl EXCEPT !.pc = "rewrite"]
    /\ UNCHANGED <<live, logged, budget>> /\ DrillFrame

\* rewriteForeignKeyDefinition: the same key, pointing into the scratch schema.
Rewritten(k) == <<k[1], k[2], "scratch">>

RewriteForeignKeys ==
    /\ drl.pc = "rewrite"
    /\ scratch' = [scratch EXCEPT !.keys =
                     {k \in @ : k[3] # "public"}
                     \cup {Rewritten(k) : k \in KeptKeys}]
    /\ drl' = [drl EXCEPT !.pc = "prepare", !.added = Cardinality(KeptKeys)]
    /\ UNCHANGED <<live, logged, budget>> /\ DrillFrame

VerifyTables == Kept \subseteq scratch.tables

\* Prepare pins both handles, then every table must be there.
Prepare ==
    /\ drl.pc = "prepare"
    /\ drl' = [drl EXCEPT !.pc = IF VerifyTables THEN "read" ELSE "abort"]
    /\ UNCHANGED <<live, logged, scratch, budget>> /\ DrillFrame

\* The source handle is pinned to public: one statement per table.
DrillRead ==
    /\ drl.pc = "read" /\ drl.i <= Len(TableNames) /\ Unlocked
    /\ drl' = [drl EXCEPT !.pc = "import",
                          !.buffer = ScanBackupTable(TableNames[drl.i])]
    /\ UNCHANGED <<live, logged, scratch, budget>> /\ DrillFrame

\* A scratch row's reference, checked wherever the schema's keys point.
ResolvesInScratch(t, row) ==
    \A k \in scratch.keys : k[1] = t =>
        Resolves(t, row, IF k[3] = "public" THEN live ELSE drl.rows)

\* Import writes through the scratch-only search path, never to public.
Import ==
    /\ drl.pc = "import"
    /\ LET t == TableNames[drl.i]
       IN drl' = IF \A r \in drl.buffer : ResolvesInScratch(t, r)
                 THEN [drl EXCEPT !.pc = "read", !.i = @ + 1, !.buffer = {},
                                  !.read[t] = drl.buffer,
                                  !.rows[t] = Stored(t, drl.buffer)]
                 ELSE [drl EXCEPT !.pc = "abort"]
    /\ UNCHANGED <<live, logged, scratch, budget>> /\ DrillFrame

VerifyForeignKeys ==
    /\ \A k \in scratch.keys : k[3] # "public"
    /\ Cardinality({k \in scratch.keys : k[3] # "public"}) >= drl.added

\* Mutant: nothing read and nothing written counts as equal.
RoundTripEmpty == \A t \in Kept : drl.rows[t] = drl.read[t]

\* ReadBack against the source digests, and at least one row in all.
RoundTrip == /\ \A t \in Kept : drl.rows[t] = drl.read[t]
             /\ \E t \in Kept : drl.rows[t] # {}

DrillCheck ==
    /\ drl.pc = "read" /\ drl.i > Len(TableNames)
    /\ drl' = [drl EXCEPT !.pc = IF VerifyForeignKeys /\ RoundTrip THEN "commit"
                                                                  ELSE "abort"]
    /\ UNCHANGED <<live, logged, scratch, budget>> /\ DrillFrame

DrillCommit ==
    /\ drl.pc = "commit"
    /\ scratch' = [scratch EXCEPT !.rows = drl.rows]
    /\ drl' = [drl EXCEPT !.pc = "passed"]
    /\ UNCHANGED <<live, logged, budget>> /\ DrillFrame

\* Any statement of the drill may fail; the schema may exist by then.
DrillFault ==
    /\ drl.pc \in DrillWorking
    /\ Fault
    /\ drl' = [drl EXCEPT !.pc = "abort"]
    /\ \E made \in {scratch.made, TRUE} : scratch' = [scratch EXCEPT !.made = made]
    /\ UNCHANGED <<live, logged>> /\ DrillFrame

\* Mutant: only a drill that passed drops its schema.
DrillAuditKeeping ==
    /\ drl.pc \in {"passed", "abort"}
    /\ \E ok \in BOOLEAN :
          LogAudit("DRILL", IF drl.pc = "passed" THEN "COMPLETED" ELSE "FAILED", ok)
    /\ drl' = [DrillIdle EXCEPT !.pc = IF drl.pc = "passed" THEN "drop" ELSE "done"]
    /\ UNCHANGED scratch /\ DrillFrame

\* The final audit, COMPLETED or FAILED; a failing one is ignored.
DrillAudit ==
    /\ drl.pc \in {"passed", "abort"}
    /\ \E ok \in BOOLEAN :
          LogAudit("DRILL", IF drl.pc = "passed" THEN "COMPLETED" ELSE "FAILED", ok)
    /\ drl' = [DrillIdle EXCEPT !.pc = "drop"]
    /\ UNCHANGED scratch /\ DrillFrame

\* The deferred DROP SCHEMA ... CASCADE; its error is ignored.  The context
\* it runs under got its deadline when the drill began: a drill that took
\* longer drops nothing.
DropSchema ==
    /\ drl.pc = "drop"
    /\ \E late \in BOOLEAN :
          \/ /\ NoFault
             /\ scratch' = IF late THEN scratch ELSE NoScratch
             /\ drl' = [drl EXCEPT !.pc = "done", !.late = late]
          \/ /\ Fault
             /\ drl' = [drl EXCEPT !.pc = "done", !.dropFailed = TRUE]
             /\ UNCHANGED scratch
    /\ UNCHANGED <<live, logged>> /\ DrillFrame

DrillStep == \/ CloneTables \/ RewriteForeignKeys \/ Prepare
             \/ DrillRead \/ Import \/ DrillCheck \/ DrillCommit \/ DrillAudit
             \/ DropSchema

-----------------------------------------------------------------------------
(* A crash loses the connections and every deferred call.                   *)

Stopped(op, idle) == IF op.pc = "idle" THEN op ELSE [idle EXCEPT !.pc = "done"]

Crash ==
    /\ Fault
    /\ exp.pc \notin {"idle", "done"} \/ res.pc \notin {"idle", "done"}
       \/ drl.pc \notin {"idle", "done"}
    /\ crashed' = TRUE
    /\ tx' = NoTx
    /\ exp' = Stopped(exp, ExportIdle)
    /\ res' = IF res.pc = "done" THEN res ELSE Stopped(res, RestoreIdle)
    /\ drl' = Stopped(drl, DrillIdle)
    /\ UNCHANGED <<pool, live, logged, file, spool, scratch>>
    /\ Watch

-----------------------------------------------------------------------------
Init ==
    /\ pool \in BOOLEAN
    /\ live = Empty /\ logged = {}
    /\ \/ file = NoFile
       \/ \E c \in Companies, p \in Contacts : file = OldFile(c, p)
    /\ exp = ExportIdle /\ res = RestoreIdle /\ tx = NoTx /\ spool = FALSE
    /\ drl = DrillIdle /\ scratch = NoScratch
    /\ watch = [since |-> Empty, quiet |-> TRUE]
    /\ crashed = FALSE
    /\ budget = [writes |-> 0, faults |-> 0]

Next ==
    \/ \E c \in Companies : CreateCompany(c) \/ DeleteCompany(c)
    \/ \E p \in Contacts, c \in Companies : CreateContact(p, c)
    \/ \E a \in AICalls : RecordAICall(a)
    \/ ExportStart \/ ExportStep
    \/ \E mode \in {"merge", "replace", "other"}, env \in Envelopes :
          Restore(mode, env)
    \/ RestoreStep
    \/ DrillStart \/ DrillStep \/ DrillFault
    \/ Crash

\* A request that was accepted runs to its end: its goroutine is not starved
\* and no statement waits for ever.
Fairness == /\ WF_vars(ExportStep)
            /\ WF_vars(RestoreStep)
            /\ WF_vars(DrillStep)

Spec == Init /\ [][Next]_vars /\ Fairness

-----------------------------------------------------------------------------
(* Properties.                                                              *)

\* Every table holds rows of its own kind, and no two with one key.
TypeOK ==
    /\ pool \in BOOLEAN /\ spool \in BOOLEAN /\ crashed \in BOOLEAN
    /\ \A tables \in {live, exp.tables, tx.rows, drl.rows, drl.read, file.tables,
                      res.env.tables, scratch.rows, watch.since} :
          tables \in Tables
    /\ logged \subseteq Operations \X Outcomes
    /\ budget.faults <= MaxFaults /\ budget.writes <= MaxWrites

\* restore.go:95-130, backup.go:170-230: the committed flag of the answer tells
\* whether the uploaded rows are in the database.  The one exception is a
\* commit whose acknowledgement was lost, which is reported as rolled back.
CommittedFlagIsTrue ==
    res.pc = "done" /\ res.answer # "none" =>
        /\ SaysCommitted(res.answer) => res.applied
        /\ ~SaysCommitted(res.answer) /\ res.applied => res.ackLost

\* restore.go:63-73: a restore changes only what its envelope names.  A table
\* that is not in the envelope keeps its rows, in either mode; a merge removes
\* nothing; after a replace the named tables hold the envelope's rows.
RestoreChangesOnlyWhatIsNamed ==
    [][~res.applied /\ res'.applied =>
         \A t \in Kept :
            IF t \notin res.env.names THEN live'[t] = live[t]
            ELSE /\ res.env.tables[t] \subseteq live'[t]
                 /\ res.mode = "merge" => Ids(live[t]) \subseteq Ids(live'[t])
                 /\ res.mode = "replace" => live'[t] = res.env.tables[t]]_vars

\* tables.go:43-49: the registry order is safe for foreign keys.  A complete
\* file whose tables did not change while it was exported restores, in either
\* mode, without a foreign key error.
QuietExportRestores ==
    res.cause = "foreign_key" =>
        ~res.env.quiet \/ MissingTables(res.env) # {} \/ res.pc = "done"

\* docs/superpowers/plans/2026-09-26-sp8a-auth-sessions-rbac-plan.md:19: "Every
\* new column must be added to the SP7 backup contract": a file this program
\* exported, or some of its tables, is never refused as malformed.
OwnExportIsAccepted == res.answer = "invalid_backup" => ~res.own

\* service.go:216-223: an unaudited export never reaches the client as a
\* complete file.
ExportedMeansAudited == file.new => <<"EXPORT", "COMPLETED">> \in logged

\* restore.go:52-56: the uploaded file never outlives the call.
SpoolIsRemoved == spool => res.pc \notin {"idle", "done"} \/ crashed

\* scratch.go:109-116: no scratch schema outlives its drill, unless the drill
\* outlived the cleanup deadline it set when it began, the drop itself failed
\* or the server crashed.
ScratchIsDropped ==
    drl.pc = "done" /\ scratch.made => drl.late \/ drl.dropFailed \/ crashed

\* scratch.go:80-91: a drill never writes to a live table: nothing but its
\* audit events changes while it takes a step.
DrillSparesLive ==
    [][drl' # drl => \A t \in Kept \ {"audit_logs"} : live'[t] = live[t]]_vars

\* scratch.go:162-229: a drill that passed has copied every row that stayed
\* unchanged while it ran, at least one row, with references that resolve
\* inside the copy.
PassedIsEvidence ==
    drl.pc = "passed" =>
        /\ \A t \in Kept : watch.since[t] \subseteq scratch.rows[t]
        /\ \E t \in Kept : scratch.rows[t] # {}
        /\ \A t \in Kept : \A r \in scratch.rows[t] : Resolves(t, r, scratch.rows)

\* restore.go:86-107: an accepted restore is always answered.  The deferred
\* rollback has released TRUNCATE's lock before the FAILED audit is written.
RestoreIsAnswered == res.pc # "idle" ~> res.pc = "done"

\* scratch.go:92-236: a drill always comes to its end.
DrillEnds == drl.pc # "idle" ~> drl.pc = "done"

\* The rows are well formed, an export that reached the client is audited, and
\* neither a spool file nor a scratch schema is left behind.
Consistent == TypeOK /\ ExportedMeansAudited /\ SpoolIsRemoved /\ ScratchIsDropped

\* What a restore and a drill report is what happened.
ReportsAreTrue == CommittedFlagIsTrue /\ PassedIsEvidence

\* A restore and a drill write nothing but what they are for.
WritesStayInBounds == RestoreChangesOnlyWhatIsNamed /\ DrillSparesLive

\* A restore and a drill that began come to their end.
RequestsEnd == RestoreIsAnswered /\ DrillEnds

=============================================================================
