---------------------------- MODULE BackupProofs ----------------------------
(***************************************************************************)
(* What a backup promises, for any number of companies, contacts and AI    *)
(* calls, of writes by the CRM, of failing calls and of operations side by *)
(* side: the answers of a restore and of a drill are true, nothing is left *)
(* behind, a restore writes what its file names and a quiet export can     *)
(* always be restored.                                                     *)
(*                                                                         *)
(* The invariant has four parts beside the types.  RestoreInv: what the    *)
(* open transaction holds is a prefix of the accepted file, in registry    *)
(* order.  LinkInv: every contact's company exists, in the live tables, in *)
(* what the transaction sees and in a file that was exported quietly.      *)
(* QuietInv: an export that nothing disturbed has read what is still live. *)
(* DrillInv: the drill's copy holds every row that stayed as it was, with  *)
(* its references checked inside the copy.                                 *)
(***************************************************************************)
EXTENDS Backup, TLAPS

-----------------------------------------------------------------------------
(* The inductive invariant.                                                *)

Envelope == [kind : Defects \cup {"too_large", "valid"}, names : SUBSET Kept,
             quiet : BOOLEAN, tables : Tables]

ExportState == [pc : {"idle", "tables", "failed", "flush", "done"},
                i : 1..5, tables : Tables]

RestoreState ==
    [pc : {"idle", "accepted", "begin", "truncate", "tables", "committed",
           "rollback", "failed", "done"},
     mode : {"merge", "replace"}, env : Envelope, i : 1..5,
     own : BOOLEAN,
     answer : {"none", "invalid_mode", "too_large", "invalid_backup",
               "incomplete", "unavailable", "rolled_back", "ok",
               "committed_audit_failed"},
     applied : BOOLEAN, ackLost : BOOLEAN,
     cause : {"none", "begin", "truncate", "foreign_key", "import", "commit"}]

Transaction == [open : BOOLEAN, truncated : BOOLEAN, rows : Tables]

DrillState ==
    [pc : {"idle", "clone", "rewrite", "prepare", "read", "import", "commit",
           "passed", "abort", "drop", "done"},
     i : 1..5, added : {0, Cardinality(KeptKeys)}, buffer : SUBSET AnyRow,
     read : Tables, rows : Tables, late : BOOLEAN, dropFailed : BOOLEAN]

Scratch == [made : BOOLEAN, tables : SUBSET Kept,
            keys : SUBSET (Kept \X Kept \X {"public", "scratch"}), rows : Tables]

\* The state of every variable.
Typed ==
    /\ pool \in BOOLEAN /\ spool \in BOOLEAN /\ crashed \in BOOLEAN
    /\ live \in Tables
    /\ logged \subseteq Operations \X Outcomes
    /\ file \in [held : BOOLEAN, new : BOOLEAN, quiet : BOOLEAN, tables : Tables]
    /\ exp \in ExportState
    /\ res \in RestoreState
    /\ tx \in Transaction
    /\ drl \in DrillState
    /\ scratch \in Scratch
    /\ watch \in [since : Tables, quiet : BOOLEAN]
    /\ budget \in [writes : 0..MaxWrites, faults : 0..MaxFaults]

\* Nothing is left behind, and what was handed out is audited.
LeftInv ==
    /\ file.new \/ exp.pc = "flush" => <<"EXPORT", "COMPLETED">> \in logged
    /\ SpoolIsRemoved
    /\ drl.pc = "idle" => ~scratch.made
    /\ ScratchIsDropped

\* The tables a restore has come past hold the file's rows.
RestoreInv ==
    /\ res.pc = "idle" => res = RestoreIdle
    /\ \A t \in Kept \ res.env.names : res.env.tables[t] = {}
    /\ res.pc \notin {"idle", "done"} =>
          /\ res.env.tables["ai_audit_logs"] = {}
          /\ res.mode = "replace" => res.env.names = Kept
    /\ res.pc \notin {"truncate", "tables", "rollback"} => tx = NoTx
    /\ res.pc \in {"accepted", "begin", "truncate"} => res.i = 1
    /\ res.pc = "truncate" => res.mode = "replace" /\ ~tx.truncated /\ tx.rows = Empty
    /\ res.pc = "tables" =>
          /\ tx.truncated <=> res.mode = "replace"
          /\ \A n \in 1..4 :
                tx.rows[TableNames[n]] =
                    IF n < res.i THEN res.env.tables[TableNames[n]] ELSE {}
    /\ res.pc \in {"idle", "accepted", "begin", "truncate", "tables"} => ~res.applied
    /\ res.pc = "committed" => res.applied
    /\ res.pc \in {"rollback", "failed"} /\ res.applied => res.ackLost
    /\ CommittedFlagIsTrue

\* Every contact's company is there.
Linked(contacts, companies) ==
    \A r \in contacts : r.ref \in {Null, User} \cup Ids(companies)

LinkInv ==
    /\ Linked(live["contacts"], live["companies"])
    /\ Linked(tx.rows["contacts"], TxView["companies"])
    /\ file.quiet => Linked(file.tables["contacts"], file.tables["companies"])
    /\ res.env.quiet /\ MissingTables(res.env) = {} =>
          Linked(res.env.tables["contacts"], res.env.tables["companies"])
    /\ QuietExportRestores

\* What an undisturbed export has read is still what the tables hold.
QuietInv ==
    /\ exp.pc = "idle" => exp = ExportIdle
    /\ exp.pc = "flush" => exp.i = 5
    /\ exp.pc \in {"tables", "flush"} /\ watch.quiet =>
          /\ exp.i > 1 => exp.tables["companies"] = live["companies"]
          /\ exp.i > 2 => exp.tables["contacts"] = live["contacts"]

\* A copy of every row that stayed as it was, closed in itself.
CopyOf(rows, since) ==
    /\ \A t \in Kept : since[t] \subseteq rows[t]
    /\ \E t \in Kept : rows[t] # {}
    /\ Linked(rows["contacts"], rows["companies"])

DrillInv ==
    /\ \A t \in Kept : watch.since[t] \subseteq live[t]
    /\ drl.pc = "idle" => drl = DrillIdle
    /\ drl.pc \in {"clone", "rewrite", "prepare"} => drl.i = 1 /\ drl.rows = Empty
    /\ drl.pc \in {"prepare", "read", "import", "commit"} =>
          <<"contacts", "companies", "scratch">> \in scratch.keys
    /\ drl.pc \in {"read", "import"} =>
          /\ \A n \in 1..4 : n < drl.i =>
                watch.since[TableNames[n]] \subseteq drl.read[TableNames[n]]
          /\ \A n \in 1..4 : n >= drl.i => drl.rows[TableNames[n]] = {}
          /\ Linked(drl.rows["contacts"], drl.rows["companies"])
    /\ drl.pc = "import" =>
          /\ drl.i <= 4
          /\ drl.buffer \subseteq Rows[TableNames[drl.i]] /\ Keyed(drl.buffer)
          /\ watch.since[TableNames[drl.i]] \subseteq drl.buffer
    /\ drl.pc = "commit" => CopyOf(drl.rows, watch.since)
    /\ drl.pc = "passed" => CopyOf(scratch.rows, watch.since)

IInv == Typed /\ LeftInv /\ RestoreInv /\ LinkInv /\ QuietInv /\ DrillInv
-----------------------------------------------------------------------------
(* Tables, rows and keys.                                                  *)

(* The instance's tables and their order.                                  *)
LEMMA Names ==
  /\ Len(TableNames) = 4
  /\ TableNames[1] = "companies" /\ TableNames[2] = "contacts"
  /\ TableNames[3] = "audit_logs" /\ TableNames[4] = "ai_audit_logs"
  /\ Kept = {"companies", "contacts", "audit_logs", "ai_audit_logs"}
  /\ \A n \in 1..4 : TableNames[n] \in Kept
  BY BoundsAssumption DEF TableNames, KeptInOrder

LEMMA Places ==
  ASSUME NEW n \in 1..4
  PROVE  /\ TableNames[n] = "companies" <=> n = 1
         /\ TableNames[n] = "contacts" <=> n = 2
  <1>1. n = 1 \/ n = 2 \/ n = 3 \/ n = 4
    OBVIOUS
  <1> QED
    BY <1>1, Names

(* The rows of each table.                                                 *)
LEMMA RowsOf ==
  /\ Rows["companies"] = [id : Companies, ref : {Null}]
  /\ Rows["contacts"] = [id : Contacts, ref : Companies \cup {Null}]
  /\ Rows["ai_audit_logs"] = [id : AICalls, ref : {Null, User}]
  /\ Rows["audit_logs"] = [id : Operations \X Outcomes, ref : {Null}]
  BY DEF Rows

(* No rows at all are well formed.                                         *)
LEMMA EmptyTables == Empty \in Tables /\ \A t \in Kept : Empty[t] = {}
  BY DEF Empty, Tables, Keyed

\* The tables with other rows in one of them.
Replaced(f, t, S) == [f EXCEPT ![t] = S]

LEMMA WithRows ==
  ASSUME NEW f \in Tables, NEW t \in Kept, NEW S, S \subseteq Rows[t], Keyed(S)
  PROVE  /\ Replaced(f, t, S) \in Tables
         /\ Replaced(f, t, S)[t] = S
         /\ \A u \in Kept \ {t} : Replaced(f, t, S)[u] = f[u]
  <1>1. S \in SUBSET AnyRow
    BY DEF AnyRow
  <1>2. Replaced(f, t, S) \in [Kept -> SUBSET AnyRow]
    BY <1>1 DEF Tables, Replaced
  <1>3. /\ Replaced(f, t, S)[t] = S
        /\ \A u \in Kept \ {t} : Replaced(f, t, S)[u] = f[u]
    BY DEF Tables, Replaced
  <1> QED
    BY <1>2, <1>3 DEF Tables

(* A reference resolves when it names nothing, an account or, for a        *)
(* contact, a company that is there: the only key between kept tables.     *)
LEMMA KeptKey ==
  /\ <<"contacts", "companies">> \in KeptKeys
  /\ \A k \in KeptKeys : k = <<"contacts", "companies">>
  BY BoundsAssumption DEF KeptKeys, ForeignKeys

LEMMA ResolvesIs ==
  ASSUME NEW t \in Kept, NEW row, NEW f
  PROVE  Resolves(t, row, f) <=>
            \/ row.ref \in {Null, User}
            \/ t = "contacts" /\ row.ref \in Ids(f["companies"])
  BY KeptKey DEF Resolves

(* Rows of the other tables name no company.                               *)
LEMMA OthersResolve ==
  ASSUME NEW t \in Kept, t # "contacts", NEW r \in Rows[t]
  PROVE  r.ref \in {Null, User}
  <1>1. CASE t = "companies"
    BY <1>1, RowsOf
  <1>2. CASE t = "audit_logs"
    BY <1>2, RowsOf
  <1>3. CASE t = "ai_audit_logs"
    BY <1>3, RowsOf
  <1> QED
    BY <1>1, <1>2, <1>3, Names

(* An audit row's id tells what it is.                                     *)
LEMMA AuditRowsKeyed == Keyed(Rows["audit_logs"])
  BY RowsOf DEF Keyed

(* Only the log of AI calls has a column outside the allow-list.           *)
LEMMA StoredIs ==
  ASSUME NEW t \in Kept, NEW S
  PROVE  /\ t # "ai_audit_logs" => Stored(t, S) = S
         /\ Stored(t, {}) = {}
  BY DEF Stored, UnlistedColumns

(* What is stored is well formed.                                          *)
LEMMA StoredTyped ==
  ASSUME NEW t \in Kept, NEW S, S \subseteq Rows[t], Keyed(S)
  PROVE  Stored(t, S) \subseteq Rows[t] /\ Keyed(Stored(t, S))
  <1>1. CASE t # "ai_audit_logs"
    BY <1>1, StoredIs
  <1>2. CASE t = "ai_audit_logs"
    <2>1. Stored(t, S) = {[r EXCEPT !.ref = Null] : r \in S}
      BY <1>2 DEF Stored, UnlistedColumns
    <2>2. \A r \in S : /\ [r EXCEPT !.ref = Null] \in Rows[t]
                       /\ [r EXCEPT !.ref = Null].id = r.id
      BY <1>2, RowsOf
    <2>3. Stored(t, S) \subseteq Rows[t]
      BY <2>1, <2>2
    <2>4. ASSUME NEW x \in Stored(t, S), NEW y \in Stored(t, S), x.id = y.id
          PROVE  x = y
      <3>1. PICK r \in S : x = [r EXCEPT !.ref = Null]
        BY <2>1, <2>4
      <3>2. PICK q \in S : y = [q EXCEPT !.ref = Null]
        BY <2>1, <2>4
      <3>3. r.id = q.id
        BY <2>2, <2>4, <3>1, <3>2
      <3> QED
        BY <3>1, <3>2, <3>3 DEF Keyed
    <2> QED
      BY <2>3, <2>4 DEF Keyed
  <1> QED
    BY <1>1, <1>2

(* INSERT ... ON CONFLICT keeps a table well formed and loses no key.      *)
LEMMA UpsertKeeps ==
  ASSUME NEW t \in Kept, NEW old, NEW new, old \subseteq Rows[t], new \subseteq Rows[t],
         Keyed(old), Keyed(new)
  PROVE  /\ Upsert(old, new) \subseteq Rows[t] /\ Keyed(Upsert(old, new))
         /\ new \subseteq Upsert(old, new)
         /\ Ids(Upsert(old, new)) = Ids(old) \cup Ids(new)
         /\ new = {} => Upsert(old, new) = old
         /\ old = {} => Upsert(old, new) = new
  <1>1. Upsert(old, new) \subseteq Rows[t] /\ new \subseteq Upsert(old, new)
    BY DEF Upsert
  <1>2. Keyed(Upsert(old, new))
    BY DEF Upsert, Keyed, Ids
  <1>3. Ids(Upsert(old, new)) = Ids(old) \cup Ids(new)
    BY DEF Upsert, Ids
  <1>4. /\ new = {} => Upsert(old, new) = old
        /\ old = {} => Upsert(old, new) = new
    BY DEF Upsert, Ids
  <1> QED
    BY <1>1, <1>2, <1>3, <1>4

(* What the transaction sees is well formed.                               *)
LEMMA ViewTyped == ASSUME Typed PROVE TxView \in Tables
  <1> DEFINE Base(t) == IF tx.truncated THEN {} ELSE live[t]
  <1>1. ASSUME NEW t \in Kept
        PROVE  /\ Base(t) \subseteq Rows[t] /\ Keyed(Base(t))
               /\ tx.rows[t] \subseteq Rows[t] /\ Keyed(tx.rows[t])
    BY DEF Typed, Tables, Transaction, Keyed
  <1>2. ASSUME NEW t \in Kept
        PROVE  Upsert(Base(t), tx.rows[t]) \subseteq Rows[t] /\ Keyed(Upsert(Base(t), tx.rows[t]))
    <2> HIDE DEF Base
    <2> QED
      BY <1>1, UpsertKeeps
  <1>3. TxView = [t \in Kept |-> Upsert(Base(t), tx.rows[t])]
    BY DEF TxView
  <1> HIDE DEF Base
  <1>4. TxView \in [Kept -> SUBSET AnyRow]
    BY <1>2, <1>3 DEF AnyRow
  <1> QED
    BY <1>2, <1>3, <1>4 DEF Tables

-----------------------------------------------------------------------------
(* What the steps write.                                                   *)

Budgets == [writes : 0..MaxWrites, faults : 0..MaxFaults]

\* The step changes nothing in the live tables but the audit log.
OnlyAudited ==
    /\ live' \in Tables
    /\ \A t \in Kept \ {"audit_logs"} : live'[t] = live[t]
    /\ \A t \in Kept : live[t] \subseteq live'[t]

LEMMA NothingWritten == ASSUME Typed, UNCHANGED live PROVE OnlyAudited
  BY DEF Typed, OnlyAudited

LEMMA FaultsTyped ==
  ASSUME Typed, Fault \/ NoFault
  PROVE  budget' \in Budgets
  <1>1. budget.faults \in 0..MaxFaults /\ MaxFaults \in Nat
    BY BoundsAssumption DEF Typed
  <1>2. CASE Fault
    BY <1>1, <1>2 DEF Fault, Typed, Budgets
  <1>3. CASE NoFault
    BY <1>3 DEF NoFault, Typed, Budgets
  <1> QED
    BY <1>2, <1>3

(* An audit event writes its row, or nothing.                              *)
LEMMA LogAuditWrites ==
  ASSUME Typed, NEW op \in Operations, NEW what \in Outcomes, NEW ok \in BOOLEAN,
         LogAudit(op, what, ok)
  PROVE  /\ OnlyAudited
         /\ logged \subseteq logged' /\ logged' \subseteq Operations \X Outcomes
         /\ ok => <<op, what>> \in logged'
         /\ budget' \in Budgets
  <1>1. budget' \in Budgets
    BY FaultsTyped DEF LogAudit
  <1>2. CASE ok
    <2>1. AuditRow(op, what) \in Rows["audit_logs"]
      BY RowsOf DEF AuditRow
    <2>2. PICK new : new = live["audit_logs"] \cup {AuditRow(op, what)}
      OBVIOUS
    <2>3. new \subseteq Rows["audit_logs"] /\ "audit_logs" \in Kept /\ live \in Tables
      BY <2>1, <2>2, Names DEF Typed, Tables
    <2>4. Keyed(new)
      BY <2>3, AuditRowsKeyed DEF Keyed
    <2>5. live' = Replaced(live, "audit_logs", new)
      BY <1>2, <2>2 DEF LogAudit, Replaced
    <2>6. /\ live' \in Tables /\ live'["audit_logs"] = new
          /\ \A t \in Kept \ {"audit_logs"} : live'[t] = live[t]
      BY <2>3, <2>4, <2>5, WithRows
    <2>7. OnlyAudited
      BY <2>2, <2>6 DEF OnlyAudited
    <2> QED
      BY <1>1, <1>2, <2>7 DEF LogAudit, Typed
  <1>3. CASE ~ok
    BY <1>1, <1>3, NothingWritten DEF LogAudit, Typed
  <1> QED
    BY <1>2, <1>3

(* Every request of the CRM keeps the tables well formed.                  *)
LEMMA CreateCompanyWrites ==
  ASSUME Typed, NEW c \in Companies, CreateCompany(c)
  PROVE  /\ live' \in Tables
         /\ live'["companies"] = live["companies"] \cup {[id |-> c, ref |-> Null]}
         /\ \A t \in Kept \ {"companies"} : live'[t] = live[t]
  <1>1. PICK new : new = live["companies"] \cup {[id |-> c, ref |-> Null]}
    OBVIOUS
  <1>2. new \subseteq Rows["companies"] /\ "companies" \in Kept /\ live \in Tables
    BY <1>1, RowsOf, Names DEF Typed, Tables
  <1>3. Keyed(new)
    BY <1>1, <1>2 DEF CreateCompany, Ids, Tables, Keyed
  <1>4. live' = Replaced(live, "companies", new)
    BY <1>1 DEF CreateCompany, Replaced
  <1>5. /\ live' \in Tables /\ live'["companies"] = new
        /\ \A t \in Kept \ {"companies"} : live'[t] = live[t]
    BY <1>2, <1>3, <1>4, WithRows
  <1> QED
    BY <1>1, <1>5

LEMMA CreateContactWrites ==
  ASSUME Typed, NEW p \in Contacts, NEW c \in Companies, CreateContact(p, c)
  PROVE  /\ live' \in Tables
         /\ live'["contacts"] = live["contacts"] \cup {[id |-> p, ref |-> c]}
         /\ \A t \in Kept \ {"contacts"} : live'[t] = live[t]
  <1>1. PICK new : new = live["contacts"] \cup {[id |-> p, ref |-> c]}
    OBVIOUS
  <1>2. new \subseteq Rows["contacts"] /\ "contacts" \in Kept /\ live \in Tables
    BY <1>1, RowsOf, Names DEF Typed, Tables
  <1>3. Keyed(new)
    BY <1>1, <1>2 DEF CreateContact, Ids, Tables, Keyed
  <1>4. live' = Replaced(live, "contacts", new)
    BY <1>1 DEF CreateContact, Replaced
  <1>5. /\ live' \in Tables /\ live'["contacts"] = new
        /\ \A t \in Kept \ {"contacts"} : live'[t] = live[t]
    BY <1>2, <1>3, <1>4, WithRows
  <1> QED
    BY <1>1, <1>5

LEMMA RecordAICallWrites ==
  ASSUME Typed, NEW a \in AICalls, RecordAICall(a)
  PROVE  /\ live' \in Tables
         /\ live["ai_audit_logs"] \subseteq live'["ai_audit_logs"]
         /\ \A t \in Kept \ {"ai_audit_logs"} : live'[t] = live[t]
  <1>1. PICK new : new = live["ai_audit_logs"] \cup {[id |-> a, ref |-> User]}
    OBVIOUS
  <1>2. new \subseteq Rows["ai_audit_logs"] /\ "ai_audit_logs" \in Kept /\ live \in Tables
    BY <1>1, RowsOf, Names DEF Typed, Tables
  <1>3. Keyed(new)
    BY <1>1, <1>2 DEF RecordAICall, Ids, Tables, Keyed
  <1>4. live' = Replaced(live, "ai_audit_logs", new)
    BY <1>1 DEF RecordAICall, Replaced
  <1>5. /\ live' \in Tables /\ live'["ai_audit_logs"] = new
        /\ \A t \in Kept \ {"ai_audit_logs"} : live'[t] = live[t]
    BY <1>2, <1>3, <1>4, WithRows
  <1> QED
    BY <1>1, <1>5

\* The contacts of a company that is deleted, their reference taken away.
Orphaned(contacts, c) ==
    {IF r.ref = c THEN [r EXCEPT !.ref = Null] ELSE r : r \in contacts}

LEMMA OrphanedTyped ==
  ASSUME NEW S, S \subseteq Rows["contacts"], Keyed(S), NEW c
  PROVE  /\ Orphaned(S, c) \subseteq Rows["contacts"] /\ Keyed(Orphaned(S, c))
         /\ \A x \in Orphaned(S, c) :
               \E r \in S : x.id = r.id /\ ((x = r /\ r.ref # c) \/ (r.ref = c /\ x.ref = Null))
  <1> DEFINE Orphan(r) == IF r.ref = c THEN [r EXCEPT !.ref = Null] ELSE r
  <1>1. ASSUME NEW r \in S
        PROVE  /\ Orphan(r) \in Rows["contacts"] /\ Orphan(r).id = r.id
               /\ (Orphan(r) = r /\ r.ref # c) \/ (r.ref = c /\ Orphan(r).ref = Null)
    BY RowsOf
  <1>2. Orphaned(S, c) = {Orphan(r) : r \in S}
    BY DEF Orphaned
  <1> HIDE DEF Orphan
  <1>3. Keyed(Orphaned(S, c))
    <2> SUFFICES ASSUME NEW x \in Orphaned(S, c), NEW y \in Orphaned(S, c), x.id = y.id
                 PROVE  x = y
      BY DEF Keyed
    <2>1. PICK r \in S : x = Orphan(r)
      BY <1>2
    <2>2. PICK q \in S : y = Orphan(q)
      BY <1>2
    <2>3. r.id = q.id
      BY <1>1, <2>1, <2>2
    <2> QED
      BY <2>1, <2>2, <2>3 DEF Keyed
  <1> QED
    BY <1>1, <1>2, <1>3

LEMMA DeleteCompanyWrites ==
  ASSUME Typed, NEW c \in Companies, DeleteCompany(c)
  PROVE  /\ live' \in Tables
         /\ live'["companies"] = {r \in live["companies"] : r.id # c}
         /\ live'["contacts"] = Orphaned(live["contacts"], c)
         /\ \A t \in Kept \ {"companies", "contacts"} : live'[t] = live[t]
  <1>1. PICK left : left = {r \in live["companies"] : r.id # c}
    OBVIOUS
  <1>2. PICK orphaned : orphaned = Orphaned(live["contacts"], c)
    OBVIOUS
  <1>3. PICK mid : mid = Replaced(live, "companies", left)
    OBVIOUS
  <1>4. /\ left \subseteq Rows["companies"] /\ Keyed(left)
        /\ live["contacts"] \subseteq Rows["contacts"] /\ Keyed(live["contacts"])
        /\ "companies" \in Kept /\ "contacts" \in Kept /\ live \in Tables
    BY <1>1, Names DEF Typed, Tables, Keyed
  <1>5. /\ mid \in Tables /\ mid["companies"] = left
        /\ \A t \in Kept \ {"companies"} : mid[t] = live[t]
    BY <1>3, <1>4, WithRows
  <1>6. orphaned \subseteq Rows["contacts"] /\ Keyed(orphaned)
    BY <1>2, <1>4, OrphanedTyped
  <1>7. /\ Replaced(mid, "contacts", orphaned) \in Tables
        /\ Replaced(mid, "contacts", orphaned)["contacts"] = orphaned
        /\ \A t \in Kept \ {"contacts"} : Replaced(mid, "contacts", orphaned)[t] = mid[t]
    BY <1>4, <1>5, <1>6, WithRows
  <1>8. live' = [live EXCEPT !["companies"] = left, !["contacts"] = orphaned]
    BY <1>1, <1>2 DEF DeleteCompany, Orphaned
  <1>9. live' = Replaced(mid, "contacts", orphaned)
    BY <1>3, <1>8 DEF Replaced, Typed, Tables
  <1> QED
    BY <1>1, <1>2, <1>4, <1>5, <1>7, <1>9

(* The history keeps to the tables.                                        *)
LEMMA WatchTyped ==
  ASSUME Typed, Watch, live' \in Tables
  PROVE  watch' \in [since : Tables, quiet : BOOLEAN]
  <1>1. PICK both : both = [t \in Kept |-> watch.since[t] \cap live'[t]]
    OBVIOUS
  <1>2. both \in Tables
    BY <1>1 DEF Typed, Tables, Keyed
  <1>3. watch'.since \in Tables
    BY <1>1, <1>2, EmptyTables DEF Watch, Typed
  <1>4. watch'.quiet \in BOOLEAN
    BY DEF Watch
  <1> QED
    BY <1>3, <1>4 DEF Watch

-----------------------------------------------------------------------------
(* Every variable keeps its type.                                          *)

(* What a client uploads: some of the tables of the file it holds.         *)
LEMMA UploadedEnvelope ==
  ASSUME Typed, NEW env \in Envelopes
  PROVE  /\ env \in Envelope
         /\ \A t \in Kept \ env.names : env.tables[t] = {}
         /\ env.kind = "valid" =>
               /\ env.quiet = file.quiet
               /\ \A t \in env.names : env.tables[t] = file.tables[t]
  <1>1. CASE env \in {[NoEnvelope EXCEPT !.kind = kind] : kind \in Defects \cup {"too_large"}}
    <2>1. PICK kind \in Defects \cup {"too_large"} : env = [NoEnvelope EXCEPT !.kind = kind]
      BY <1>1
    <2>2. /\ env.kind = kind /\ env.names = {} /\ env.quiet = TRUE /\ env.tables = Empty
          /\ env = [kind |-> kind, names |-> {}, quiet |-> TRUE, tables |-> Empty]
      BY <2>1 DEF NoEnvelope
    <2>3. env \in Envelope
      BY <2>2, EmptyTables DEF Envelope
    <2>4. env.kind # "valid"
      BY <2>2 DEF Defects
    <2> QED
      BY <2>2, <2>3, <2>4, EmptyTables
  <1>2. CASE env \notin {[NoEnvelope EXCEPT !.kind = kind] : kind \in Defects \cup {"too_large"}}
    <2>1. PICK names \in SUBSET Kept :
             env = [kind |-> "valid", names |-> names, quiet |-> file.quiet,
                    tables |-> [t \in Kept |-> IF t \in names THEN file.tables[t] ELSE {}]]
      BY <1>2 DEF Envelopes
    <2>2. PICK tables : tables = [t \in Kept |-> IF t \in names THEN file.tables[t] ELSE {}]
      OBVIOUS
    <2>3. tables \in Tables
      BY <2>2 DEF Typed, Tables, Keyed
    <2>4. env = [kind |-> "valid", names |-> names, quiet |-> file.quiet, tables |-> tables]
      BY <2>1, <2>2
    <2>5. env \in Envelope
      BY <2>3, <2>4 DEF Envelope, Typed
    <2> QED
      BY <2>2, <2>4, <2>5
  <1> QED
    BY <1>1, <1>2

(* What an accepted envelope has passed.                                   *)
LEMMA AcceptedEnvelope ==
  ASSUME Typed, NEW env \in Envelopes, NEW mode \in {"merge", "replace", "other"},
         Refusal(mode, env) = "none"
  PROVE  /\ mode \in {"merge", "replace"} /\ env.kind = "valid"
         /\ env.tables["ai_audit_logs"] = {}
         /\ mode = "replace" => env.names = Kept
  <1>1. mode # "other" /\ SpoolBackup(env) /\ ValidateBackupFile(env)
        /\ (mode = "replace" => MissingTables(env) = {})
    BY DEF Refusal
  <1>2. ValidateRow(env) /\ env.kind \notin Defects \cup {"too_large"}
    BY <1>1 DEF ValidateBackupFile, ReadEnvelopeHeader, ReadTablesObject,
                ValidateTableRows, ValidateRow, SpoolBackup, Defects
  <1>3. UnlistedColumns("ai_audit_logs") # {} /\ "ai_audit_logs" \in Kept
    BY Names DEF UnlistedColumns
  <1>4. env \in Envelope
    BY UploadedEnvelope
  <1>5. env.kind = "valid" /\ env.names \subseteq Kept
    BY <1>2, <1>4 DEF Envelope
  <1>6. env.tables["ai_audit_logs"] = {}
    BY <1>2, <1>3 DEF ValidateRow
  <1> QED
    BY <1>1, <1>5, <1>6 DEF MissingTables

LEMMA CRMTyped ==
  ASSUME Typed,
         \/ \E c \in Companies : CreateCompany(c) \/ DeleteCompany(c)
         \/ \E p \in Contacts, c \in Companies : CreateContact(p, c)
         \/ \E a \in AICalls : RecordAICall(a)
  PROVE  Typed' /\ CRMWrite
  <1>1. CRMWrite /\ live' \in Tables
    BY CreateCompanyWrites, DeleteCompanyWrites, CreateContactWrites, RecordAICallWrites
       DEF CreateCompany, DeleteCompany, CreateContact, RecordAICall
  <1>2. budget.writes \in 0..MaxWrites /\ MaxWrites \in Nat
    BY BoundsAssumption DEF Typed
  <1>3. budget' \in Budgets
    BY <1>1, <1>2 DEF CRMWrite, Typed, Budgets
  <1>4. watch' \in [since : Tables, quiet : BOOLEAN]
    BY <1>1, WatchTyped DEF CRMWrite
  <1> QED
    BY <1>1, <1>3, <1>4 DEF Typed, CRMWrite, Budgets

(* The initial records of the three operations.                            *)
LEMMA IdleTyped ==
  /\ NoEnvelope \in Envelope /\ RestoreIdle \in RestoreState /\ NoTx \in Transaction
  /\ ExportIdle \in ExportState /\ DrillIdle \in DrillState /\ NoScratch \in Scratch
  <1>1. NoEnvelope \in Envelope
    BY EmptyTables DEF NoEnvelope, Envelope, Defects
  <1>2. RestoreIdle \in RestoreState
    BY <1>1 DEF RestoreIdle, RestoreState
  <1>3. NoTx \in Transaction
    BY EmptyTables DEF NoTx, Transaction
  <1>4. ExportIdle \in ExportState
    BY EmptyTables DEF ExportIdle, ExportState
  <1>5. DrillIdle \in DrillState
    BY EmptyTables DEF DrillIdle, DrillState
  <1>6. NoScratch \in Scratch
    BY EmptyTables DEF NoScratch, Scratch
  <1> QED
    BY <1>1, <1>2, <1>3, <1>4, <1>5, <1>6

LEMMA InitTyped == Init => Typed
  <1> SUFFICES ASSUME Init PROVE Typed
    OBVIOUS
  <1>1. file \in [held : BOOLEAN, new : BOOLEAN, quiet : BOOLEAN, tables : Tables]
    <2>1. CASE file = NoFile
      BY <2>1, EmptyTables DEF NoFile
    <2>2. ASSUME NEW c \in Companies, NEW p \in Contacts, file = OldFile(c, p)
          PROVE  file \in [held : BOOLEAN, new : BOOLEAN, quiet : BOOLEAN, tables : Tables]
      <3>1. PICK one : one = {[id |-> c, ref |-> Null]}
        OBVIOUS
      <3>2. PICK other : other = {[id |-> p, ref |-> Null]}
        OBVIOUS
      <3>3. /\ one \subseteq Rows["companies"] /\ Keyed(one) /\ "companies" \in Kept
            /\ other \subseteq Rows["contacts"] /\ Keyed(other) /\ "contacts" \in Kept
        BY <3>1, <3>2, RowsOf, Names DEF Keyed
      <3>4. PICK mid : mid = Replaced(Empty, "companies", one)
        OBVIOUS
      <3>5. mid \in Tables
        BY <3>3, <3>4, EmptyTables, WithRows
      <3>6. PICK all : all = Replaced(mid, "contacts", other)
        OBVIOUS
      <3>7. all \in Tables
        BY <3>3, <3>5, <3>6, WithRows
      <3>8. all = [Empty EXCEPT !["companies"] = one, !["contacts"] = other]
        BY <3>3, <3>4, <3>6 DEF Replaced, Empty
      <3>9. file = [held |-> TRUE, new |-> FALSE, quiet |-> TRUE, tables |-> all]
        BY <2>2, <3>1, <3>2, <3>8 DEF OldFile
      <3> QED
        BY <3>7, <3>9
    <2> QED
      BY <2>1, <2>2 DEF Init
  <1>2. /\ exp \in ExportState /\ res \in RestoreState /\ tx \in Transaction
        /\ drl \in DrillState /\ scratch \in Scratch
    BY IdleTyped DEF Init
  <1>3. watch \in [since : Tables, quiet : BOOLEAN] /\ live \in Tables
    BY EmptyTables DEF Init
  <1>4. budget \in [writes : 0..MaxWrites, faults : 0..MaxFaults]
    BY BoundsAssumption DEF Init
  <1> QED
    BY <1>1, <1>2, <1>3, <1>4 DEF Typed, Init

(* An export changes its own state and the audit log.                      *)
LEMMA ExportWrites ==
  ASSUME Typed, ExportStart \/ ExportStep
  PROVE  OnlyAudited /\ ExportFrame /\ logged \subseteq logged'
  <1>1. ASSUME ExportStart PROVE OnlyAudited /\ ExportFrame /\ logged \subseteq logged'
    BY <1>1, LogAuditWrites DEF ExportStart, Operations, Outcomes
  <1>2. ASSUME ExportTable PROVE OnlyAudited /\ ExportFrame /\ logged \subseteq logged'
    BY <1>2, NothingWritten DEF ExportTable
  <1>3. ASSUME ExportFailed PROVE OnlyAudited /\ ExportFrame /\ logged \subseteq logged'
    BY <1>3, LogAuditWrites DEF ExportFailed, Operations, Outcomes
  <1>4. ASSUME ExportCompleted PROVE OnlyAudited /\ ExportFrame /\ logged \subseteq logged'
    BY <1>4, LogAuditWrites DEF ExportCompleted, Operations, Outcomes
  <1>5. ASSUME ExportFlush PROVE OnlyAudited /\ ExportFrame /\ logged \subseteq logged'
    BY <1>5, NothingWritten DEF ExportFlush
  <1> QED
    BY <1>1, <1>2, <1>3, <1>4, <1>5 DEF ExportStep

(* What a table streams is well formed.                                    *)
LEMMA StreamTyped ==
  ASSUME Typed, NEW t \in Kept
  PROVE  /\ Stream(t) \subseteq Rows[t] /\ Keyed(Stream(t))
         /\ t \in {"companies", "contacts"} => Stream(t) = live[t]
  BY DEF Typed, Tables, Keyed, Stream, ScanBackupTable, ScanDemoTable

LEMMA ExportTyped ==
  ASSUME Typed, ExportStart \/ ExportStep
  PROVE  Typed'
  <1>1. OnlyAudited /\ ExportFrame
    BY ExportWrites
  <1>2. watch' \in [since : Tables, quiet : BOOLEAN] /\ live' \in Tables
    BY <1>1, WatchTyped DEF ExportFrame, OnlyAudited
  <1>3. \A pc \in {"idle", "tables", "failed", "flush", "done"} :
           /\ [exp EXCEPT !.pc = pc] \in ExportState
           /\ [ExportIdle EXCEPT !.pc = pc] \in ExportState
    BY IdleTyped DEF Typed, ExportState
  <1>4. ASSUME NEW op \in Operations, NEW what \in Outcomes, NEW ok \in BOOLEAN,
               LogAudit(op, what, ok)
        PROVE  logged' \subseteq Operations \X Outcomes /\ budget' \in Budgets
    BY <1>4, LogAuditWrites
  <1>5. "EXPORT" \in Operations /\ {"STARTED", "COMPLETED", "FAILED"} \subseteq Outcomes
    BY DEF Operations, Outcomes
  <1>6. CASE ExportStart
    BY <1>1, <1>2, <1>3, <1>4, <1>5, <1>6 DEF ExportStart, ExportFrame, Typed, Budgets
  <1>7. CASE ExportTable
    <2>1. budget' \in Budgets
      BY <1>7, FaultsTyped DEF ExportTable
    <2>2. CASE exp' = [exp EXCEPT !.pc = "failed"]
      BY <1>1, <1>2, <1>3, <1>7, <2>1, <2>2 DEF ExportTable, ExportFrame, Typed, Budgets
    <2>3. CASE exp' = [exp EXCEPT !.i = @ + 1,
                                  !.tables[TableNames[exp.i]] = Stream(TableNames[exp.i])]
      <3>1. PICK t \in Kept : t = TableNames[exp.i] /\ exp.i \in 1..4
        BY <1>7, Names DEF ExportTable, Typed, ExportState
      <3>2. PICK rows : rows = Stream(t)
        OBVIOUS
      <3>3. PICK tables : tables = Replaced(exp.tables, t, rows)
        OBVIOUS
      <3>4. tables \in Tables
        <4>1. exp.tables \in Tables
          BY DEF Typed, ExportState
        <4> QED
          BY <3>2, <3>3, <4>1, StreamTyped, WithRows
      <3>5. exp' = [exp EXCEPT !.i = exp.i + 1, !.tables = tables]
        BY <2>3, <3>1, <3>2, <3>3 DEF Replaced, Typed, ExportState
      <3>6. exp \in ExportState /\ exp.i + 1 \in 1..5
        BY <3>1 DEF Typed
      <3>7. exp' \in ExportState
        BY <3>4, <3>5, <3>6 DEF ExportState
      <3> QED
        BY <1>1, <1>2, <1>7, <2>1, <3>7 DEF ExportTable, ExportFrame, Typed, Budgets
    <2> QED
      BY <1>7, <2>2, <2>3 DEF ExportTable
  <1>8. CASE ExportFailed
    BY <1>1, <1>2, <1>3, <1>4, <1>5, <1>8 DEF ExportFailed, ExportFrame, Typed, Budgets
  <1>9. CASE ExportCompleted
    BY <1>1, <1>2, <1>3, <1>4, <1>5, <1>9 DEF ExportCompleted, ExportFrame, Typed, Budgets
  <1>10. CASE ExportFlush
    <2>1. budget' \in Budgets
      BY <1>10, FaultsTyped DEF ExportFlush
    <2>2. exp.tables \in Tables /\ watch.quiet \in BOOLEAN
      BY DEF Typed, ExportState
    <2>3. file' \in [held : BOOLEAN, new : BOOLEAN, quiet : BOOLEAN, tables : Tables]
      <3>1. CASE UNCHANGED file
        BY <3>1 DEF Typed
      <3>2. CASE file' = [held |-> TRUE, new |-> TRUE, quiet |-> watch.quiet,
                          tables |-> exp.tables]
        BY <2>2, <3>2
      <3> QED
        BY <1>10, <3>1, <3>2 DEF ExportFlush
    <2> QED
      BY <1>1, <1>2, <1>3, <1>10, <2>1, <2>3 DEF ExportFlush, ExportFrame, Typed, Budgets
  <1> QED
    BY <1>6, <1>7, <1>8, <1>9, <1>10 DEF ExportStep

(* A crash ends what was in progress.                                      *)
LEMMA CrashTyped ==
  ASSUME Typed, Crash
  PROVE  Typed'
  <1>1. watch' \in [since : Tables, quiet : BOOLEAN] /\ live' \in Tables
    BY WatchTyped DEF Crash, Typed
  <1>2. budget' \in Budgets
    BY FaultsTyped DEF Crash
  <1>3. /\ [ExportIdle EXCEPT !.pc = "done"] \in ExportState
        /\ [RestoreIdle EXCEPT !.pc = "done"] \in RestoreState
        /\ [DrillIdle EXCEPT !.pc = "done"] \in DrillState
    BY IdleTyped DEF ExportState, RestoreState, DrillState
  <1>4. exp' \in ExportState /\ res' \in RestoreState /\ drl' \in DrillState
    BY <1>3 DEF Crash, Stopped, Typed
  <1> QED
    BY <1>1, <1>2, <1>4, IdleTyped DEF Crash, Typed, Budgets

(* A restore changes its own state and, when it commits, the live tables.  *)
LEMMA RestoreFrames ==
  ASSUME RestoreStep \/ \E mode \in {"merge", "replace", "other"}, env \in Envelopes :
                           Restore(mode, env)
  PROVE  RestoreFrame
  BY DEF RestoreStep, Restore, RestoreStarted, RestoreBegin, TruncateBackupTables,
         ApplyTableRows, RestoreCommit, RestoreRollback, RestoreFailed, RestoreCompleted

(* Its phases, its failures and its answers.                               *)
LEMMA RestoreMoves ==
  ASSUME NEW r \in RestoreState,
         NEW pc \in {"idle", "accepted", "begin", "truncate", "tables", "committed",
                     "rollback", "failed", "done"}
  PROVE  /\ [r EXCEPT !.pc = pc] \in RestoreState
         /\ [r EXCEPT !.pc = pc, !.applied = TRUE] \in RestoreState
  BY DEF RestoreState

LEMMA RestoreFails ==
  ASSUME NEW r \in RestoreState,
         NEW pc \in {"rollback", "failed"},
         NEW cause \in {"begin", "truncate", "foreign_key", "import", "commit"}
  PROVE  /\ Failing(r, cause, pc) \in RestoreState
         /\ [Failing(r, cause, pc) EXCEPT !.applied = TRUE, !.ackLost = TRUE] \in RestoreState
  <1>1. Failing(r, cause, pc) \in RestoreState
    BY DEF RestoreState, Failing
  <1> QED
    BY <1>1 DEF RestoreState

LEMMA RestoreAnswers ==
  ASSUME NEW r \in RestoreState,
         NEW answer \in {"invalid_mode", "too_large", "invalid_backup", "incomplete",
                         "unavailable", "rolled_back", "ok", "committed_audit_failed"},
         Return(r, answer)
  PROVE  res' \in RestoreState /\ spool' \in BOOLEAN
  BY IdleTyped DEF RestoreState, Return

\* The steps of a restore but its commit.
RestoreButCommit ==
    \/ \E mode \in {"merge", "replace", "other"}, env \in Envelopes : Restore(mode, env)
    \/ RestoreStarted \/ RestoreBegin \/ TruncateBackupTables \/ ApplyTableRows
    \/ RestoreRollback \/ RestoreFailed \/ RestoreCompleted

LEMMA RestoreWrites ==
  ASSUME Typed, RestoreButCommit
  PROVE  /\ OnlyAudited /\ logged \subseteq logged' /\ logged' \subseteq Operations \X Outcomes
         /\ budget' \in Budgets
  <1>1. "RESTORE" \in Operations /\ {"STARTED", "COMPLETED", "FAILED"} \subseteq Outcomes
    BY DEF Operations, Outcomes
  <1>2. CASE \/ RestoreStarted \/ RestoreFailed \/ RestoreCompleted
    BY <1>1, <1>2, LogAuditWrites DEF RestoreStarted, RestoreFailed, RestoreCompleted
  <1>3. CASE UNCHANGED <<live, logged>> /\ (Fault \/ UNCHANGED budget)
    BY <1>3, NothingWritten, FaultsTyped DEF Typed, NoFault
  <1>4. CASE \/ \E mode \in {"merge", "replace", "other"}, env \in Envelopes : Restore(mode, env)
             \/ RestoreBegin \/ TruncateBackupTables \/ ApplyTableRows \/ RestoreRollback
    <2>1. UNCHANGED <<live, logged>> /\ (Fault \/ UNCHANGED budget)
      BY <1>4 DEF Restore, RestoreBegin, TruncateBackupTables, ApplyTableRows,
                  RestoreRollback, NoFault
    <2> QED
      BY <1>3, <2>1
  <1> QED
    BY <1>2, <1>4 DEF RestoreButCommit

(* A request's answer, or its acceptance.                                  *)
LEMMA RestoreCallTyped ==
  ASSUME Typed, NEW mode \in {"merge", "replace", "other"}, NEW env \in Envelopes,
         Restore(mode, env)
  PROVE  res' \in RestoreState /\ tx' \in Transaction /\ spool' \in BOOLEAN
  <1>1. res \in RestoreState /\ env \in Envelope /\ tx \in Transaction
    BY UploadedEnvelope DEF Typed
  <1>2. Refusal(mode, env) \in {"none", "invalid_mode", "too_large", "invalid_backup",
                                "incomplete", "unavailable"}
    BY DEF Refusal
  <1>3. CASE Refusal(mode, env) # "none"
    <2>1. PICK r : r = [res EXCEPT !.own = (env.kind = "valid")]
      OBVIOUS
    <2>2. r \in RestoreState
      BY <1>1, <2>1 DEF RestoreState
    <2>3. Return(r, Refusal(mode, env))
      BY <1>3, <2>1 DEF Restore
    <2>4. res' \in RestoreState /\ spool' \in BOOLEAN
      BY <1>2, <1>3, <2>2, <2>3, RestoreAnswers
    <2> QED
      BY <1>1, <2>4 DEF Restore
  <1>4. CASE Refusal(mode, env) = "none"
    <2>1. mode \in {"merge", "replace"}
      BY <1>4, AcceptedEnvelope
    <2>2. res' = [res EXCEPT !.pc = "accepted", !.mode = mode, !.env = env]
          /\ spool' = TRUE
      BY <1>4 DEF Restore
    <2>3. res' \in RestoreState
      BY <1>1, <2>1, <2>2 DEF RestoreState
    <2> QED
      BY <1>1, <2>2, <2>3 DEF Restore
  <1> QED
    BY <1>3, <1>4

\* The transaction with the rows of one more table.
Applied(t, rows) == [tx EXCEPT !.rows = Replaced(tx.rows, t, rows)]

(* One more table is imported, or the import fails.                        *)
LEMMA ApplySplits ==
  ASSUME Typed, ApplyTableRows
  PROVE  /\ res.pc = "tables" /\ res.i \in 1..4
         /\ UNCHANGED <<live, logged, spool>>
         /\ \/ /\ \A r \in res.env.tables[TableNames[res.i]] :
                     Resolves(TableNames[res.i], r, TxView)
               /\ tx' = Applied(TableNames[res.i],
                                Stored(TableNames[res.i], res.env.tables[TableNames[res.i]]))
               /\ res' = [res EXCEPT !.i = res.i + 1]
            \/ /\ ~ \A r \in res.env.tables[TableNames[res.i]] :
                       Resolves(TableNames[res.i], r, TxView)
               /\ res' = Failing(res, "foreign_key", "rollback") /\ UNCHANGED tx
            \/ res' = Failing(res, "import", "rollback") /\ UNCHANGED tx
  <1>1. res.pc = "tables" /\ res.i \in 1..4
    BY Names DEF ApplyTableRows, Typed, RestoreState
  <1>2. tx.rows \in Tables
    BY DEF Typed, Transaction
  <1>3. \A t, rows : [tx EXCEPT !.rows[t] = rows] = Applied(t, rows)
    BY DEF Applied, Replaced, Typed, Transaction
  <1> QED
    BY <1>1, <1>3 DEF ApplyTableRows

LEMMA AppliedTyped ==
  ASSUME Typed, NEW n \in 1..4
  PROVE  /\ Applied(TableNames[n], Stored(TableNames[n], res.env.tables[TableNames[n]]))
              \in Transaction
         /\ res.env.tables[TableNames[n]] \subseteq Rows[TableNames[n]]
         /\ Keyed(res.env.tables[TableNames[n]])
  <1>1. PICK t \in Kept : t = TableNames[n]
    BY Names
  <1>2. PICK rows : rows = Stored(t, res.env.tables[t])
    OBVIOUS
  <1>3. res.env.tables[t] \subseteq Rows[t] /\ Keyed(res.env.tables[t])
    BY <1>1 DEF Typed, RestoreState, Envelope, Tables
  <1>4. rows \subseteq Rows[t] /\ Keyed(rows)
    BY <1>2, <1>3, StoredTyped
  <1>5. Replaced(tx.rows, t, rows) \in Tables
    <2>1. tx.rows \in Tables
      BY DEF Typed, Transaction
    <2> QED
      BY <1>4, <2>1, WithRows
  <1>6. Applied(t, rows) \in Transaction
    BY <1>5 DEF Applied, Typed, Transaction
  <1> QED
    BY <1>1, <1>2, <1>3, <1>6

LEMMA ApplyTyped ==
  ASSUME Typed, ApplyTableRows
  PROVE  res' \in RestoreState /\ tx' \in Transaction
  <1>1. res \in RestoreState /\ tx \in Transaction /\ res.i \in 1..4 /\ res.i + 1 \in 1..5
    BY ApplySplits DEF Typed
  <1>2. CASE /\ tx' = Applied(TableNames[res.i],
                              Stored(TableNames[res.i], res.env.tables[TableNames[res.i]]))
             /\ res' = [res EXCEPT !.i = res.i + 1]
    <2>1. res' \in RestoreState
      BY <1>1, <1>2 DEF RestoreState
    <2> QED
      BY <1>1, <1>2, <2>1, AppliedTyped
  <1>3. CASE /\ \/ res' = Failing(res, "foreign_key", "rollback")
                \/ res' = Failing(res, "import", "rollback")
             /\ UNCHANGED tx
    BY <1>1, <1>3, RestoreFails
  <1> QED
    BY <1>2, <1>3, ApplySplits

(* The commit, its acknowledgement lost or not, or its failure.            *)
LEMMA CommitSplits ==
  ASSUME Typed, RestoreCommit
  PROVE  /\ res.pc = "tables" /\ res.i = 5 /\ UNCHANGED <<logged, spool>>
         /\ \/ /\ live' = TxView /\ tx' = NoTx
               /\ \/ res' = [res EXCEPT !.pc = "committed", !.applied = TRUE]
                  \/ res' = [Failing(res, "commit", "rollback") EXCEPT
                               !.applied = TRUE, !.ackLost = TRUE]
            \/ /\ res' = Failing(res, "commit", "rollback")
               /\ UNCHANGED <<live, tx>>
         /\ budget' \in Budgets
  <1>1. res.pc = "tables" /\ res.i = 5
    BY Names DEF RestoreCommit, Typed, RestoreState
  <1>2. budget' \in Budgets
    BY FaultsTyped DEF RestoreCommit
  <1> QED
    BY <1>1, <1>2 DEF RestoreCommit

LEMMA RestoreTyped ==
  ASSUME Typed, RestoreStep \/ \E mode \in {"merge", "replace", "other"}, env \in Envelopes :
                                   Restore(mode, env)
  PROVE  Typed'
  <1>1. RestoreFrame
    BY RestoreFrames
  <1>2. res \in RestoreState /\ tx \in Transaction /\ spool \in BOOLEAN
    BY DEF Typed
  <1>3. ASSUME live' \in Tables, logged' \subseteq Operations \X Outcomes, budget' \in Budgets,
               res' \in RestoreState, tx' \in Transaction, spool' \in BOOLEAN
        PROVE  Typed'
    <2>1. watch' \in [since : Tables, quiet : BOOLEAN]
      BY <1>1, <1>3, WatchTyped DEF RestoreFrame
    <2> QED
      BY <1>1, <1>3, <2>1 DEF RestoreFrame, Typed, Budgets
  <1>4. ASSUME RestoreButCommit
        PROVE  live' \in Tables /\ logged' \subseteq Operations \X Outcomes /\ budget' \in Budgets
    BY <1>4, RestoreWrites DEF OnlyAudited
  <1>5. CASE \E mode \in {"merge", "replace", "other"}, env \in Envelopes : Restore(mode, env)
    BY <1>3, <1>4, <1>5, RestoreCallTyped DEF RestoreButCommit
  <1>6. CASE RestoreStarted
    <2>1. res' \in RestoreState
      BY <1>2, <1>6, RestoreMoves DEF RestoreStarted
    <2> QED
      BY <1>2, <1>3, <1>4, <1>6, <2>1 DEF RestoreStarted, RestoreButCommit
  <1>7. CASE RestoreBegin
    <2>1. res' \in RestoreState
      BY <1>2, <1>7, RestoreMoves, RestoreFails DEF RestoreBegin
    <2>2. tx' \in Transaction
      BY <1>2, <1>7 DEF RestoreBegin, Transaction
    <2> QED
      BY <1>2, <1>3, <1>4, <1>7, <2>1, <2>2 DEF RestoreBegin, RestoreButCommit
  <1>8. CASE TruncateBackupTables
    <2>1. res' \in RestoreState
      BY <1>2, <1>8, RestoreMoves, RestoreFails DEF TruncateBackupTables
    <2>2. tx' \in Transaction
      BY <1>2, <1>8 DEF TruncateBackupTables, Transaction
    <2> QED
      BY <1>2, <1>3, <1>4, <1>8, <2>1, <2>2 DEF TruncateBackupTables, RestoreButCommit
  <1>9. CASE ApplyTableRows
    <2>1. res' \in RestoreState /\ tx' \in Transaction
      BY <1>9, ApplyTyped
    <2> QED
      BY <1>2, <1>3, <1>4, <1>9, <2>1 DEF ApplyTableRows, RestoreButCommit
  <1>10. CASE RestoreCommit
    <2>1. res' \in RestoreState
      BY <1>2, <1>10, CommitSplits, RestoreMoves, RestoreFails
    <2>2. live' \in Tables /\ tx' \in Transaction
      BY <1>2, <1>10, CommitSplits, ViewTyped, IdleTyped DEF Typed
    <2>3. logged' \subseteq Operations \X Outcomes /\ budget' \in Budgets /\ spool' \in BOOLEAN
      BY <1>10, CommitSplits DEF Typed
    <2> QED
      BY <1>3, <2>1, <2>2, <2>3
  <1>11. CASE RestoreRollback
    <2>1. res' \in RestoreState /\ tx' \in Transaction
      BY <1>2, <1>11, RestoreMoves, IdleTyped DEF RestoreRollback
    <2> QED
      BY <1>2, <1>3, <1>4, <1>11, <2>1 DEF RestoreRollback, RestoreButCommit
  <1>12. CASE RestoreFailed
    <2>1. res' \in RestoreState /\ spool' \in BOOLEAN
      BY <1>2, <1>12, RestoreAnswers DEF RestoreFailed
    <2> QED
      BY <1>2, <1>3, <1>4, <1>12, <2>1 DEF RestoreFailed, RestoreButCommit
  <1>13. CASE RestoreCompleted
    <2>1. res' \in RestoreState /\ spool' \in BOOLEAN
      BY <1>2, <1>13, RestoreAnswers DEF RestoreCompleted
    <2> QED
      BY <1>2, <1>3, <1>4, <1>13, <2>1 DEF RestoreCompleted, RestoreButCommit
  <1> QED
    BY <1>5, <1>6, <1>7, <1>8, <1>9, <1>10, <1>11, <1>12, <1>13 DEF RestoreStep

(* A drill changes its own state, its schema and the audit log.            *)
LEMMA DrillWrites ==
  ASSUME Typed, DrillStart \/ DrillStep \/ DrillFault
  PROVE  /\ OnlyAudited /\ DrillFrame /\ logged \subseteq logged'
         /\ logged' \subseteq Operations \X Outcomes /\ budget' \in Budgets
  <1>1. "DRILL" \in Operations /\ {"STARTED", "COMPLETED", "FAILED"} \subseteq Outcomes
    BY DEF Operations, Outcomes
  <1>2. DrillFrame
    BY DEF DrillStart, DrillStep, DrillFault, CloneTables, RewriteForeignKeys, Prepare,
           DrillRead, Import, DrillCheck, DrillCommit, DrillAudit, DropSchema
  <1>3. CASE UNCHANGED <<live, logged>> /\ (Fault \/ UNCHANGED budget)
    BY <1>2, <1>3, NothingWritten, FaultsTyped DEF Typed, NoFault
  <1>4. CASE DrillStart
    BY <1>1, <1>2, <1>3, <1>4, LogAuditWrites DEF DrillStart
  <1>5. CASE DrillAudit
    BY <1>1, <1>2, <1>5, LogAuditWrites DEF DrillAudit
  <1>6. CASE \/ CloneTables \/ RewriteForeignKeys \/ Prepare \/ DrillRead \/ Import
             \/ DrillCheck \/ DrillCommit \/ DropSchema \/ DrillFault
    <2>1. UNCHANGED <<live, logged>> /\ (Fault \/ UNCHANGED budget)
      BY <1>6 DEF CloneTables, RewriteForeignKeys, Prepare, DrillRead, Import,
                  DrillCheck, DrillCommit, DropSchema, DrillFault, NoFault
    <2> QED
      BY <1>3, <2>1
  <1> QED
    BY <1>4, <1>5, <1>6 DEF DrillStep

(* Its phases.                                                             *)
LEMMA DrillMoves ==
  ASSUME NEW d \in DrillState,
         NEW pc \in {"clone", "rewrite", "prepare", "read", "import", "commit", "passed",
                     "abort", "drop", "done"}
  PROVE  [d EXCEPT !.pc = pc] \in DrillState
  BY DEF DrillState

(* A table is read: its rows go to the buffer.                             *)
LEMMA ReadMoves ==
  ASSUME Typed, DrillRead
  PROVE  /\ drl.pc = "read" /\ drl.i \in 1..4
         /\ drl' = [drl EXCEPT !.pc = "import", !.buffer = live[TableNames[drl.i]]]
         /\ drl' \in DrillState
         /\ UNCHANGED scratch
  <1>1. drl.pc = "read" /\ drl.i \in 1..4 /\ drl \in DrillState
    BY Names DEF DrillRead, Typed, DrillState
  <1>2. drl' = [drl EXCEPT !.pc = "import", !.buffer = live[TableNames[drl.i]]]
    BY DEF DrillRead, ScanBackupTable
  <1>3. live[TableNames[drl.i]] \in SUBSET AnyRow
    BY <1>1, Names DEF Typed, Tables
  <1>4. drl' \in DrillState
    BY <1>1, <1>2, <1>3 DEF DrillState
  <1> QED
    BY <1>1, <1>2, <1>4 DEF DrillRead

\* The drill with one more table copied.
Copied(t) ==
    [drl EXCEPT !.pc = "read", !.i = drl.i + 1, !.buffer = {},
                !.read = Replaced(drl.read, t, drl.buffer),
                !.rows = Replaced(drl.rows, t, Stored(t, drl.buffer))]

(* The table is copied, or the drill fails.                                *)
LEMMA ImportMoves ==
  ASSUME Typed, DrillInv, Import
  PROVE  /\ drl.pc = "import" /\ drl.i \in 1..4
         /\ \/ /\ drl' = Copied(TableNames[drl.i])
               /\ \A r \in drl.buffer : ResolvesInScratch(TableNames[drl.i], r)
            \/ drl' = [drl EXCEPT !.pc = "abort"]
         /\ drl' \in DrillState
         /\ UNCHANGED scratch
  <1>1. drl.pc = "import" /\ drl.i \in 1..4 /\ drl \in DrillState
    BY DEF Import, Typed, DrillInv, DrillState
  <1>2. PICK t \in Kept : t = TableNames[drl.i]
    BY <1>1, Names
  <1>3. drl.buffer \subseteq Rows[t] /\ Keyed(drl.buffer)
    BY <1>1, <1>2 DEF DrillInv
  <1>4. drl.read \in Tables /\ drl.rows \in Tables /\ drl.i + 1 \in 1..5
    BY <1>1 DEF DrillState
  <1>5. PICK stored : stored = Stored(t, drl.buffer)
    OBVIOUS
  <1>6. stored \subseteq Rows[t] /\ Keyed(stored)
    BY <1>3, <1>5, StoredTyped
  <1>7. Replaced(drl.read, t, drl.buffer) \in Tables /\ Replaced(drl.rows, t, stored) \in Tables
    BY <1>3, <1>4, <1>6, WithRows
  <1>8. Copied(t) \in DrillState
    BY <1>1, <1>4, <1>5, <1>7 DEF Copied, DrillState
  <1>9. [drl EXCEPT !.pc = "abort"] \in DrillState
    BY <1>1, DrillMoves
  <1>10. [drl EXCEPT !.pc = "read", !.i = drl.i + 1, !.buffer = {},
                     !.read[t] = drl.buffer, !.rows[t] = Stored(t, drl.buffer)] = Copied(t)
    BY <1>1 DEF Copied, Replaced, DrillState
  <1> QED
    BY <1>1, <1>2, <1>8, <1>9, <1>10 DEF Import

LEMMA DrillTyped ==
  ASSUME Typed, DrillInv, DrillStart \/ DrillStep \/ DrillFault
  PROVE  Typed'
  <1>1. /\ live' \in Tables /\ DrillFrame
        /\ logged' \subseteq Operations \X Outcomes /\ budget' \in Budgets
    BY DrillWrites DEF OnlyAudited
  <1>2. watch' \in [since : Tables, quiet : BOOLEAN]
    BY <1>1, WatchTyped DEF DrillFrame
  <1>3. ASSUME drl' \in DrillState, scratch' \in Scratch PROVE Typed'
    BY <1>1, <1>2, <1>3 DEF DrillFrame, Typed, Budgets
  <1>4. drl \in DrillState /\ scratch \in Scratch
    BY DEF Typed
  <1>5. CASE DrillStart
    BY <1>3, <1>4, <1>5, DrillMoves DEF DrillStart
  <1>6. CASE CloneTables
    <2>1. PICK copied \in {{}, {<<k[1], k[2], "public">> : k \in KeptKeys}} :
             scratch' = [scratch EXCEPT !.made = TRUE, !.tables = Kept, !.keys = copied]
      BY <1>6 DEF CloneTables
    <2>2. copied \subseteq Kept \X Kept \X {"public", "scratch"}
      BY <2>1 DEF KeptKeys
    <2>3. scratch' \in Scratch
      BY <1>4, <2>1, <2>2 DEF Scratch
    <2> QED
      BY <1>3, <1>4, <1>6, <2>3, DrillMoves DEF CloneTables
  <1>7. CASE RewriteForeignKeys
    <2>1. {Rewritten(k) : k \in KeptKeys} \subseteq Kept \X Kept \X {"public", "scratch"}
      BY DEF KeptKeys, Rewritten
    <2>2. scratch' \in Scratch
      BY <1>4, <1>7, <2>1 DEF RewriteForeignKeys, Scratch
    <2>3. drl' \in DrillState
      BY <1>4, <1>7 DEF RewriteForeignKeys, DrillState
    <2> QED
      BY <1>3, <2>2, <2>3
  <1>8. CASE Prepare
    BY <1>3, <1>4, <1>8, DrillMoves DEF Prepare
  <1>9. CASE DrillRead
    BY <1>3, <1>4, <1>9, ReadMoves
  <1>10. CASE Import
    BY <1>3, <1>4, <1>10, ImportMoves
  <1>11. CASE DrillCheck
    BY <1>3, <1>4, <1>11, DrillMoves DEF DrillCheck
  <1>12. CASE DrillCommit
    <2>1. scratch' \in Scratch
      BY <1>4, <1>12 DEF DrillCommit, Scratch, DrillState
    <2> QED
      BY <1>3, <1>4, <1>12, <2>1, DrillMoves DEF DrillCommit
  <1>13. CASE DrillAudit
    BY <1>3, <1>4, <1>13, DrillMoves, IdleTyped DEF DrillAudit
  <1>14. CASE DropSchema
    <2>1. drl' \in DrillState
      BY <1>4, <1>14 DEF DropSchema, DrillState
    <2> QED
      BY <1>3, <1>4, <1>14, <2>1, IdleTyped DEF DropSchema
  <1>15. CASE DrillFault
    <2>1. scratch' \in Scratch
      BY <1>4, <1>15 DEF DrillFault, Scratch
    <2> QED
      BY <1>3, <1>4, <1>15, <2>1, DrillMoves DEF DrillFault
  <1> QED
    BY <1>5, <1>6, <1>7, <1>8, <1>9, <1>10, <1>11, <1>12, <1>13, <1>14, <1>15 DEF DrillStep

(* Every step keeps the types.                                             *)
LEMMA TypesKept == Typed /\ DrillInv /\ [Next]_vars => Typed'
  <1> SUFFICES ASSUME Typed, DrillInv, [Next]_vars PROVE Typed'
    OBVIOUS
  <1>1. CASE UNCHANGED vars
    BY <1>1 DEF vars, Typed
  <1>2. CASE Next
    BY <1>2, CRMTyped, ExportTyped, RestoreTyped, DrillTyped, CrashTyped DEF Next
  <1> QED
    BY <1>1, <1>2

-----------------------------------------------------------------------------
(* Nothing is left behind.                                                 *)

CRMStep ==
    \/ \E c \in Companies : CreateCompany(c) \/ DeleteCompany(c)
    \/ \E p \in Contacts, c \in Companies : CreateContact(p, c)
    \/ \E a \in AICalls : RecordAICall(a)

RestoreAny ==
    RestoreStep \/ \E mode \in {"merge", "replace", "other"}, env \in Envelopes :
                       Restore(mode, env)

DrillAny == DrillStart \/ DrillStep \/ DrillFault

(* Who changes what.                                                       *)
LEMMA Frames ==
  ASSUME Typed, [Next]_vars
  PROVE  \/ CRMStep /\ CRMWrite
         \/ (ExportStart \/ ExportStep) /\ OnlyAudited /\ ExportFrame /\ logged \subseteq logged'
         \/ RestoreAny /\ RestoreFrame /\ logged \subseteq logged'
         \/ DrillAny /\ OnlyAudited /\ DrillFrame /\ logged \subseteq logged'
         \/ Crash
         \/ UNCHANGED vars
  <1>1. CASE CRMStep
    BY <1>1, CRMTyped DEF CRMStep
  <1>2. CASE ExportStart \/ ExportStep
    BY <1>2, ExportWrites
  <1>3. CASE RestoreAny
    <2>1. RestoreFrame
      BY <1>3, RestoreFrames DEF RestoreAny
    <2>2. RestoreButCommit \/ RestoreCommit
      BY <1>3 DEF RestoreAny, RestoreStep, RestoreButCommit
    <2>3. logged \subseteq logged'
      BY <2>2, RestoreWrites, CommitSplits
    <2> QED
      BY <1>3, <2>1, <2>3
  <1>4. CASE DrillAny
    BY <1>4, DrillWrites DEF DrillAny
  <1> QED
    BY <1>1, <1>2, <1>3, <1>4 DEF Next, CRMStep, RestoreAny, DrillAny

(* An export leaves its last phase but one only with its audit.            *)
LEMMA AuditedKept ==
  ASSUME Typed, LeftInv, [Next]_vars
  PROVE  file'.new \/ exp'.pc = "flush" => <<"EXPORT", "COMPLETED">> \in logged'
  <1>1. file.new \/ exp.pc = "flush" => <<"EXPORT", "COMPLETED">> \in logged
    BY DEF LeftInv
  <1>2. ASSUME UNCHANGED <<file, exp>>, logged \subseteq logged'
        PROVE  file'.new \/ exp'.pc = "flush" => <<"EXPORT", "COMPLETED">> \in logged'
    BY <1>1, <1>2
  <1>3. CASE CRMStep /\ CRMWrite
    BY <1>2, <1>3 DEF CRMWrite
  <1>4. CASE RestoreFrame /\ logged \subseteq logged'
    BY <1>2, <1>4 DEF RestoreFrame
  <1>5. CASE DrillFrame /\ logged \subseteq logged'
    BY <1>2, <1>5 DEF DrillFrame
  <1>6. CASE Crash
    BY <1>1, <1>6 DEF Crash, Stopped, ExportIdle
  <1>7. CASE UNCHANGED vars
    BY <1>1, <1>7 DEF vars
  <1>8. CASE (ExportStart \/ ExportStep) /\ logged \subseteq logged'
    <2>1. exp \in ExportState /\ ExportIdle.pc = "idle"
      BY DEF Typed, ExportIdle
    <2>2. CASE ExportStart
      BY <1>1, <1>8, <2>1, <2>2 DEF ExportStart, ExportState
    <2>3. CASE ExportTable
      BY <1>1, <1>8, <2>1, <2>3 DEF ExportTable, ExportState
    <2>4. CASE ExportFailed
      BY <1>1, <1>8, <2>1, <2>4 DEF ExportFailed, ExportIdle
    <2>5. CASE ExportCompleted
      <3>1. PICK ok \in BOOLEAN :
               /\ LogAudit("EXPORT", "COMPLETED", ok)
               /\ exp' = IF ok THEN [exp EXCEPT !.pc = "flush"]
                               ELSE [ExportIdle EXCEPT !.pc = "done"]
        BY <2>5 DEF ExportCompleted
      <3>2. CASE ok
        BY <3>1, <3>2, LogAuditWrites DEF Operations, Outcomes
      <3>3. CASE ~ok
        BY <1>1, <1>8, <2>5, <3>1, <3>3 DEF ExportCompleted, ExportIdle
      <3> QED
        BY <3>2, <3>3
    <2>6. CASE ExportFlush
      BY <1>1, <1>8, <2>6 DEF ExportFlush, ExportIdle
    <2> QED
      BY <1>8, <2>2, <2>3, <2>4, <2>5, <2>6 DEF ExportStep
  <1> QED
    BY <1>3, <1>4, <1>5, <1>6, <1>7, <1>8, Frames

(* The spool file goes with the call.                                      *)
LEMMA SpoolKept ==
  ASSUME Typed, LeftInv, [Next]_vars
  PROVE  SpoolIsRemoved'
  <1>1. spool => res.pc \notin {"idle", "done"} \/ crashed
    BY DEF LeftInv, SpoolIsRemoved
  <1>2. ASSUME UNCHANGED <<spool, res, crashed>> PROVE SpoolIsRemoved'
    BY <1>1, <1>2 DEF SpoolIsRemoved
  <1>3. CASE \/ CRMWrite \/ ExportFrame \/ DrillFrame \/ UNCHANGED vars
    BY <1>2, <1>3 DEF CRMWrite, ExportFrame, DrillFrame, vars
  <1>4. CASE Crash
    BY <1>4 DEF Crash, SpoolIsRemoved
  <1>5. CASE RestoreAny
    <2>1. res \in RestoreState
      BY DEF Typed
    <2>2. CASE spool' = FALSE
      BY <2>2 DEF SpoolIsRemoved
    <2>3. CASE res'.pc \notin {"idle", "done"}
      BY <2>3 DEF SpoolIsRemoved
    <2>4. spool' = FALSE \/ res'.pc \notin {"idle", "done"}
      <3>1. CASE \E mode \in {"merge", "replace", "other"}, env \in Envelopes : Restore(mode, env)
        BY <2>1, <3>1 DEF Restore, Return, RestoreState
      <3>2. CASE RestoreFailed \/ RestoreCompleted
        BY <3>2 DEF RestoreFailed, RestoreCompleted, Return
      <3>3. CASE RestoreStarted \/ RestoreBegin \/ TruncateBackupTables \/ RestoreRollback
        BY <2>1, <3>3 DEF RestoreStarted, RestoreBegin, TruncateBackupTables, RestoreRollback,
                          Failing, RestoreState
      <3>4. CASE ApplyTableRows
        BY <2>1, <3>4, ApplySplits DEF Failing, RestoreState
      <3>5. CASE RestoreCommit
        BY <2>1, <3>5, CommitSplits DEF Failing, RestoreState
      <3> QED
        BY <1>5, <3>1, <3>2, <3>3, <3>4, <3>5 DEF RestoreAny, RestoreStep
    <2> QED
      BY <2>2, <2>3, <2>4
  <1> QED
    BY <1>3, <1>4, <1>5, Frames

(* The scratch schema goes with the drill.                                 *)
LEMMA ScratchKept ==
  ASSUME Typed, LeftInv, [Next]_vars
  PROVE  (drl'.pc = "idle" => ~scratch'.made) /\ ScratchIsDropped'
  <1>1. /\ drl.pc = "idle" => ~scratch.made
        /\ drl.pc = "done" /\ scratch.made => drl.late \/ drl.dropFailed \/ crashed
    BY DEF LeftInv, ScratchIsDropped
  <1>2. CASE UNCHANGED <<drl, scratch, crashed>>
    BY <1>1, <1>2 DEF ScratchIsDropped
  <1>3. CASE \/ CRMWrite \/ ExportFrame \/ RestoreFrame \/ UNCHANGED vars
    BY <1>2, <1>3 DEF CRMWrite, ExportFrame, RestoreFrame, vars
  <1>4. CASE Crash
    BY <1>1, <1>4 DEF Crash, Stopped, DrillIdle, ScratchIsDropped
  <1>5. CASE DrillAny
    <2>1. drl \in DrillState
      BY DEF Typed
    <2>2. CASE DrillStart
      BY <1>1, <2>1, <2>2 DEF DrillStart, DrillState, ScratchIsDropped
    <2>3. CASE drl'.pc \notin {"idle", "done"}
      BY <2>3 DEF ScratchIsDropped
    <2>4. CASE DropSchema
      <3>1. NoScratch.made = FALSE
        BY DEF NoScratch
      <3>2. drl'.pc = "done"
        BY <2>1, <2>4 DEF DropSchema, DrillState
      <3>3. scratch' = NoScratch \/ drl'.late = TRUE \/ drl'.dropFailed = TRUE
        BY <2>1, <2>4 DEF DropSchema, DrillState
      <3> QED
        BY <3>1, <3>2, <3>3 DEF ScratchIsDropped
    <2>5. CASE \/ CloneTables \/ RewriteForeignKeys \/ Prepare \/ DrillRead \/ Import
               \/ DrillCheck \/ DrillCommit \/ DrillAudit \/ DrillFault
      <3>1. drl'.pc \notin {"idle", "done"}
        BY <2>1, <2>5 DEF CloneTables, RewriteForeignKeys, Prepare, DrillRead, Import,
             DrillCheck, DrillCommit, DrillAudit, DrillFault, DrillState, DrillIdle
      <3> QED
        BY <2>3, <3>1
    <2> QED
      BY <1>5, <2>2, <2>4, <2>5 DEF DrillAny, DrillStep
  <1> QED
    BY <1>3, <1>4, <1>5, Frames

LEMMA LeftInductive == Typed /\ LeftInv /\ [Next]_vars => LeftInv'
  BY AuditedKept, SpoolKept, ScratchKept DEF LeftInv

LEMMA LeftInit == Init => LeftInv
  BY DEF Init, LeftInv, NoFile, OldFile, ExportIdle, RestoreIdle, DrillIdle, NoScratch,
         SpoolIsRemoved, ScratchIsDropped

-----------------------------------------------------------------------------
(* The transaction holds a prefix of the accepted file.                    *)

\* All of a restore's state but its phase stays as it was.
OnlyPhase(pc) ==
    /\ res'.pc = pc /\ res'.mode = res.mode /\ res'.env = res.env /\ res'.i = res.i
    /\ res'.answer = res.answer /\ res'.applied = res.applied /\ res'.ackLost = res.ackLost

(* A call is answered at once, or accepted.                                *)
LEMMA CallKeeps ==
  ASSUME Typed, RestoreInv, NEW mode \in {"merge", "replace", "other"}, NEW env \in Envelopes,
         Restore(mode, env)
  PROVE  RestoreInv'
  <1>1. /\ res.pc = "idle" /\ res \in RestoreState /\ res = RestoreIdle /\ tx = NoTx
        /\ UNCHANGED tx
    BY DEF Restore, RestoreInv, Typed
  <1>2. res.applied = FALSE /\ res.answer = "none" /\ res.i = 1
    BY <1>1 DEF RestoreIdle
  <1>3. CASE Refusal(mode, env) # "none"
    <2>1. /\ res'.pc = "done" /\ res'.env = NoEnvelope /\ res'.applied = FALSE
          /\ res'.answer = Refusal(mode, env)
      BY <1>1, <1>2, <1>3 DEF Restore, Return, RestoreState
    <2>2. ~SaysCommitted(Refusal(mode, env))
      BY DEF Refusal, SaysCommitted
    <2>3. \A t \in Kept : NoEnvelope.tables[t] = {}
      BY EmptyTables DEF NoEnvelope
    <2> QED
      BY <1>1, <2>1, <2>2, <2>3 DEF RestoreInv, CommittedFlagIsTrue
  <1>4. CASE Refusal(mode, env) = "none"
    <2>1. /\ res'.pc = "accepted" /\ res'.mode = mode /\ res'.env = env /\ res'.i = 1
          /\ res'.applied = FALSE
      BY <1>1, <1>2, <1>4 DEF Restore, RestoreState
    <2>2. /\ env.tables["ai_audit_logs"] = {} /\ (mode = "replace" => env.names = Kept)
          /\ \A t \in Kept \ env.names : env.tables[t] = {}
      BY <1>4, AcceptedEnvelope, UploadedEnvelope
    <2> QED
      BY <1>1, <2>1, <2>2 DEF RestoreInv, CommittedFlagIsTrue
  <1> QED
    BY <1>3, <1>4

(* The transaction begins, and truncates when it replaces.                 *)
LEMMA StartedKeeps == ASSUME Typed, RestoreInv, RestoreStarted PROVE RestoreInv'
  <1>1. res.pc = "accepted" /\ OnlyPhase("begin") /\ UNCHANGED tx
    BY DEF RestoreStarted, OnlyPhase, Typed, RestoreState
  <1> QED
    BY <1>1 DEF OnlyPhase, RestoreInv, CommittedFlagIsTrue

LEMMA EmptyPrefix ==
  ASSUME NEW tables, NEW n \in 1..4
  PROVE  Empty[TableNames[n]] = IF n < 1 THEN tables ELSE {}
  BY Names, EmptyTables

LEMMA BeginKeeps == ASSUME Typed, RestoreInv, RestoreBegin PROVE RestoreInv'
  <1>1. res.pc = "begin" /\ tx = NoTx /\ res.i = 1 /\ ~res.applied
    BY DEF RestoreBegin, RestoreInv
  <1>2. tx.truncated = FALSE /\ tx.rows = Empty
    BY <1>1 DEF NoTx
  <1>3. CASE res' = Failing(res, "begin", "failed") /\ UNCHANGED tx
    <2>1. OnlyPhase("failed")
      BY <1>3 DEF Failing, OnlyPhase, Typed, RestoreState
    <2> QED
      BY <1>1, <1>3, <2>1 DEF OnlyPhase, RestoreInv, CommittedFlagIsTrue
  <1>4. CASE /\ tx' = [tx EXCEPT !.open = TRUE]
             /\ res' = [res EXCEPT !.pc = IF res.mode = "replace" THEN "truncate" ELSE "tables"]
    <2>1. tx'.truncated = FALSE /\ tx'.rows = Empty
      BY <1>2, <1>4 DEF Typed, Transaction
    <2>2. OnlyPhase(IF res.mode = "replace" THEN "truncate" ELSE "tables")
      BY <1>4 DEF OnlyPhase, Typed, RestoreState
    <2>3. CASE res.mode = "replace"
      <3>1. OnlyPhase("truncate")
        BY <2>2, <2>3
      <3> QED
        BY <1>1, <2>1, <2>3, <3>1 DEF OnlyPhase, RestoreInv, CommittedFlagIsTrue
    <2>4. CASE res.mode # "replace"
      <3>1. OnlyPhase("tables")
        BY <2>2, <2>4
      <3>2. \A n \in 1..4 : tx'.rows[TableNames[n]]
                              = IF n < res'.i THEN res'.env.tables[TableNames[n]] ELSE {}
        BY <1>1, <2>1, <3>1, EmptyPrefix DEF OnlyPhase
      <3> QED
        BY <1>1, <2>1, <2>4, <3>1, <3>2 DEF OnlyPhase, RestoreInv, CommittedFlagIsTrue
    <2> QED
      BY <2>3, <2>4
  <1> QED
    BY <1>3, <1>4 DEF RestoreBegin

LEMMA TruncateKeeps == ASSUME Typed, RestoreInv, TruncateBackupTables PROVE RestoreInv'
  <1>1. /\ res.pc = "truncate" /\ res.mode = "replace" /\ res.i = 1 /\ ~res.applied
        /\ tx.rows = Empty
    BY DEF TruncateBackupTables, RestoreInv
  <1>2. CASE tx' = [tx EXCEPT !.truncated = TRUE] /\ res' = [res EXCEPT !.pc = "tables"]
    <2>1. tx'.truncated = TRUE /\ tx'.rows = Empty
      BY <1>1, <1>2 DEF Typed, Transaction
    <2>2. OnlyPhase("tables")
      BY <1>2 DEF OnlyPhase, Typed, RestoreState
    <2>3. \A n \in 1..4 : tx'.rows[TableNames[n]]
                            = IF n < res'.i THEN res'.env.tables[TableNames[n]] ELSE {}
      BY <1>1, <2>1, <2>2, EmptyPrefix DEF OnlyPhase
    <2> QED
      BY <1>1, <2>1, <2>2, <2>3 DEF OnlyPhase, RestoreInv, CommittedFlagIsTrue
  <1>3. CASE res' = Failing(res, "truncate", "rollback") /\ UNCHANGED tx
    <2>1. OnlyPhase("rollback")
      BY <1>3 DEF Failing, OnlyPhase, Typed, RestoreState
    <2> QED
      BY <1>1, <1>3, <2>1 DEF OnlyPhase, RestoreInv, CommittedFlagIsTrue
  <1> QED
    BY <1>2, <1>3 DEF TruncateBackupTables

(* One more table: a longer prefix.                                        *)
LEMMA ApplyKeeps == ASSUME Typed, RestoreInv, ApplyTableRows PROVE RestoreInv'
  <1>1. /\ res.pc = "tables" /\ res.i \in 1..4 /\ ~res.applied
        /\ tx.truncated <=> res.mode = "replace"
        /\ res.env.tables["ai_audit_logs"] = {}
    BY ApplySplits DEF RestoreInv
  <1>2. CASE /\ \/ res' = Failing(res, "foreign_key", "rollback")
                \/ res' = Failing(res, "import", "rollback")
             /\ UNCHANGED tx
    <2>1. OnlyPhase("rollback")
      BY <1>2 DEF Failing, OnlyPhase, Typed, RestoreState
    <2> QED
      BY <1>1, <1>2, <2>1 DEF OnlyPhase, RestoreInv, CommittedFlagIsTrue
  <1>3. CASE /\ tx' = Applied(TableNames[res.i],
                              Stored(TableNames[res.i], res.env.tables[TableNames[res.i]]))
             /\ res' = [res EXCEPT !.i = res.i + 1]
    <2>1. PICK t \in Kept : t = TableNames[res.i]
      BY <1>1, Names
    <2>2. Stored(t, res.env.tables[t]) = res.env.tables[t]
      BY <1>1, StoredIs
    <2>3. tx' = [tx EXCEPT !.rows = Replaced(tx.rows, t, res.env.tables[t])]
      BY <1>3, <2>1, <2>2 DEF Applied
    <2>4. tx.rows \in Tables /\ tx \in Transaction
      BY DEF Typed, Transaction
    <2>5. tx'.truncated = tx.truncated /\ tx'.rows = Replaced(tx.rows, t, res.env.tables[t])
      BY <2>3, <2>4 DEF Transaction
    <2>6. /\ tx'.rows[t] = res.env.tables[t]
          /\ \A u \in Kept \ {t} : tx'.rows[u] = tx.rows[u]
      BY <2>4, <2>5 DEF Replaced, Tables
    <2>7. /\ res'.pc = "tables" /\ res'.mode = res.mode /\ res'.env = res.env
          /\ res'.i = res.i + 1 /\ res'.answer = res.answer /\ res'.applied = res.applied
          /\ res'.ackLost = res.ackLost
      BY <1>1, <1>3 DEF Typed, RestoreState
    <2>8. ASSUME NEW n \in 1..4
          PROVE  tx'.rows[TableNames[n]]
                   = IF n < res'.i THEN res'.env.tables[TableNames[n]] ELSE {}
      <3>1. tx.rows[TableNames[n]] = IF n < res.i THEN res.env.tables[TableNames[n]] ELSE {}
        BY <1>1 DEF RestoreInv
      <3>2. n = res.i \/ TableNames[n] \in Kept \ {t}
        BY <1>1, <2>1, Names
      <3> QED
        BY <1>1, <2>1, <2>6, <2>7, <3>1, <3>2
    <2> QED
      BY <1>1, <2>5, <2>7, <2>8 DEF RestoreInv, CommittedFlagIsTrue
  <1> QED
    BY <1>2, <1>3, ApplySplits

LEMMA CommitKeeps == ASSUME Typed, RestoreInv, RestoreCommit PROVE RestoreInv'
  <1>1. res.pc = "tables" /\ ~res.applied
    BY CommitSplits DEF RestoreInv
  <1>2. CASE res' = [res EXCEPT !.pc = "committed", !.applied = TRUE] /\ tx' = NoTx
    <2>1. /\ res'.pc = "committed" /\ res'.env = res.env /\ res'.mode = res.mode
          /\ res'.applied = TRUE
      BY <1>2 DEF Typed, RestoreState
    <2> QED
      BY <1>1, <1>2, <2>1 DEF RestoreInv, CommittedFlagIsTrue
  <1>3. CASE /\ res' = [Failing(res, "commit", "rollback") EXCEPT !.applied = TRUE, !.ackLost = TRUE]
             /\ tx' = NoTx
    <2>1. /\ res'.pc = "rollback" /\ res'.env = res.env /\ res'.mode = res.mode
          /\ res'.applied = TRUE /\ res'.ackLost = TRUE
      BY <1>3 DEF Failing, Typed, RestoreState
    <2> QED
      BY <1>1, <1>3, <2>1 DEF RestoreInv, CommittedFlagIsTrue
  <1>4. CASE res' = Failing(res, "commit", "rollback") /\ UNCHANGED tx
    <2>1. OnlyPhase("rollback")
      BY <1>4 DEF Failing, OnlyPhase, Typed, RestoreState
    <2> QED
      BY <1>1, <1>4, <2>1 DEF OnlyPhase, RestoreInv, CommittedFlagIsTrue
  <1> QED
    BY <1>2, <1>3, <1>4, CommitSplits

LEMMA EndKeeps ==
  ASSUME Typed, RestoreInv, RestoreRollback \/ RestoreFailed \/ RestoreCompleted
  PROVE  RestoreInv'
  <1>1. CASE RestoreRollback
    <2>1. res.pc = "rollback" /\ OnlyPhase("failed") /\ tx' = NoTx
      BY <1>1 DEF RestoreRollback, OnlyPhase, Typed, RestoreState
    <2> QED
      BY <2>1 DEF OnlyPhase, RestoreInv, CommittedFlagIsTrue
  <1>2. ASSUME NEW answer, res' = [res EXCEPT !.pc = "done", !.answer = answer, !.env = NoEnvelope],
               SaysCommitted(answer) => res.applied,
               ~SaysCommitted(answer) /\ res.applied => res.ackLost,
               UNCHANGED tx, tx = NoTx
        PROVE  RestoreInv'
    <2>1. /\ res'.pc = "done" /\ res'.env = NoEnvelope /\ res'.answer = answer
          /\ res'.applied = res.applied /\ res'.ackLost = res.ackLost
      BY <1>2 DEF Typed, RestoreState
    <2>2. \A t \in Kept : NoEnvelope.tables[t] = {}
      BY EmptyTables DEF NoEnvelope
    <2> QED
      BY <1>2, <2>1, <2>2 DEF RestoreInv, CommittedFlagIsTrue
  <1>3. CASE RestoreFailed
    <2>1. /\ res' = [res EXCEPT !.pc = "done", !.answer = "rolled_back", !.env = NoEnvelope]
          /\ UNCHANGED tx /\ tx = NoTx /\ (res.applied => res.ackLost)
          /\ ~SaysCommitted("rolled_back")
      BY <1>3 DEF RestoreFailed, Return, RestoreInv, SaysCommitted
    <2> QED
      BY <1>2, <2>1
  <1>4. CASE RestoreCompleted
    <2>1. PICK ok \in BOOLEAN : Return(res, IF ok THEN "ok" ELSE "committed_audit_failed")
      BY <1>4 DEF RestoreCompleted
    <2>2. PICK answer : answer = IF ok THEN "ok" ELSE "committed_audit_failed"
      OBVIOUS
    <2>3. /\ res' = [res EXCEPT !.pc = "done", !.answer = answer, !.env = NoEnvelope]
          /\ UNCHANGED tx /\ tx = NoTx /\ res.applied /\ SaysCommitted(answer)
      BY <1>4, <2>1, <2>2 DEF RestoreCompleted, Return, RestoreInv, SaysCommitted
    <2> QED
      BY <1>2, <2>3
  <1> QED
    BY <1>1, <1>3, <1>4

LEMMA RestoreInductive == Typed /\ RestoreInv /\ [Next]_vars => RestoreInv'
  <1> SUFFICES ASSUME Typed, RestoreInv, [Next]_vars PROVE RestoreInv'
    OBVIOUS
  <1>1. CASE UNCHANGED <<res, tx>>
    BY <1>1 DEF RestoreInv, CommittedFlagIsTrue
  <1>2. CASE CRMWrite \/ ExportFrame \/ DrillFrame \/ UNCHANGED vars
    BY <1>1, <1>2 DEF CRMWrite, ExportFrame, DrillFrame, vars
  <1>3. CASE RestoreAny
    BY <1>3, CallKeeps, StartedKeeps, BeginKeeps, TruncateKeeps, ApplyKeeps, CommitKeeps,
       EndKeeps DEF RestoreAny, RestoreStep
  <1>4. CASE Crash
    <2>1. tx' = NoTx
      BY <1>4 DEF Crash
    <2>2. CASE res.pc \in {"idle", "done"}
      <3>1. UNCHANGED res /\ tx = NoTx
        BY <1>4, <2>2 DEF Crash, Stopped, RestoreInv
      <3> QED
        BY <1>1, <2>1, <3>1
    <2>3. CASE res.pc \notin {"idle", "done"}
      <3>1. /\ res'.pc = "done" /\ res'.env = NoEnvelope /\ res'.answer = "none"
            /\ res'.applied = FALSE
        BY <1>4, <2>3 DEF Crash, Stopped, RestoreIdle
      <3>2. \A t \in Kept : NoEnvelope.tables[t] = {}
        BY EmptyTables DEF NoEnvelope
      <3> QED
        BY <2>1, <3>1, <3>2 DEF RestoreInv, CommittedFlagIsTrue
    <2> QED
      BY <2>2, <2>3
  <1> QED
    BY <1>2, <1>3, <1>4, Frames

LEMMA RestoreInit == Init => RestoreInv
  <1> SUFFICES ASSUME Init PROVE RestoreInv
    OBVIOUS
  <1>1. /\ res = RestoreIdle /\ tx = NoTx
        /\ res.pc = "idle" /\ res.env = NoEnvelope /\ res.i = 1 /\ res.applied = FALSE
    BY DEF Init, RestoreIdle
  <1>2. \A t \in Kept : NoEnvelope.tables[t] = {}
    BY EmptyTables DEF NoEnvelope
  <1> QED
    BY <1>1, <1>2 DEF RestoreInv, CommittedFlagIsTrue

-----------------------------------------------------------------------------
(* Every contact's company is there.                                       *)

LEMMA ViewIds ==
  ASSUME NEW truncated, NEW old, NEW new
  PROVE  Ids(Upsert(IF truncated THEN {} ELSE old, new))
           = (IF truncated THEN {} ELSE Ids(old)) \cup Ids(new)
  <1>1. \A rows : Ids(Upsert(rows, new)) = Ids(rows) \cup Ids(new)
    BY DEF Upsert, Ids
  <1>2. Ids({}) = {}
    BY DEF Ids
  <1>3. CASE truncated
    BY <1>1, <1>2, <1>3
  <1>4. CASE ~truncated
    BY <1>1, <1>4
  <1> QED
    BY <1>3, <1>4

LEMMA ViewOf ==
  /\ \A t \in Kept : TxView[t] = Upsert(IF tx.truncated THEN {} ELSE live[t], tx.rows[t])
  /\ \A t \in Kept : TxView'[t] = Upsert(IF tx'.truncated THEN {} ELSE live'[t], tx'.rows[t])
  BY DEF TxView

(* The ids of the companies the transaction sees.                          *)
LEMMA ViewCompanies ==
  /\ Ids(TxView["companies"])
       = (IF tx.truncated THEN {} ELSE Ids(live["companies"])) \cup Ids(tx.rows["companies"])
  /\ Ids(TxView'["companies"])
       = (IF tx'.truncated THEN {} ELSE Ids(live'["companies"])) \cup Ids(tx'.rows["companies"])
  <1>1. /\ TxView["companies"] = Upsert(IF tx.truncated THEN {} ELSE live["companies"],
                                        tx.rows["companies"])
        /\ TxView'["companies"] = Upsert(IF tx'.truncated THEN {} ELSE live'["companies"],
                                         tx'.rows["companies"])
    BY ViewOf, Names
  <1>2. Ids(TxView["companies"])
          = (IF tx.truncated THEN {} ELSE Ids(live["companies"]))
            \cup Ids(tx.rows["companies"])
    <2>1. PICK truncated, old, new :
             truncated = tx.truncated /\ old = live["companies"] /\ new = tx.rows["companies"]
      OBVIOUS
    <2>2. PICK view : view = TxView["companies"]
      OBVIOUS
    <2>3. view = Upsert(IF truncated THEN {} ELSE old, new)
      BY <1>1, <2>1, <2>2
    <2>4. Ids(Upsert(IF truncated THEN {} ELSE old, new))
            = (IF truncated THEN {} ELSE Ids(old)) \cup Ids(new)
      BY ViewIds
    <2>5. Ids(view) = (IF truncated THEN {} ELSE Ids(old)) \cup Ids(new)
      BY <2>3, <2>4
    <2> QED
      BY <2>1, <2>2, <2>5
  <1>3. Ids(TxView'["companies"])
          = (IF tx'.truncated THEN {} ELSE Ids(live'["companies"]))
            \cup Ids(tx'.rows["companies"])
    <2>1. PICK truncated, old, new :
             truncated = tx'.truncated /\ old = live'["companies"] /\ new = tx'.rows["companies"]
      OBVIOUS
    <2>2. PICK view : view = TxView'["companies"]
      OBVIOUS
    <2>3. view = Upsert(IF truncated THEN {} ELSE old, new)
      BY <1>1, <2>1, <2>2
    <2>4. Ids(Upsert(IF truncated THEN {} ELSE old, new))
            = (IF truncated THEN {} ELSE Ids(old)) \cup Ids(new)
      BY ViewIds
    <2>5. Ids(view) = (IF truncated THEN {} ELSE Ids(old)) \cup Ids(new)
      BY <2>3, <2>4
    <2> QED
      BY <2>1, <2>2, <2>5
  <1> QED
    BY <1>2, <1>3

LEMMA LinkedMore ==
  ASSUME NEW contacts, NEW few, NEW many, Linked(contacts, few), Ids(few) \subseteq Ids(many)
  PROVE  Linked(contacts, many)
  BY DEF Linked

(* The rest of the state is untouched and the two tables stay.             *)
LEMMA LinkStays ==
  ASSUME Typed, LinkInv, UNCHANGED <<file, res, tx>>,
         live'["companies"] = live["companies"], live'["contacts"] = live["contacts"]
  PROVE  LinkInv'
  <1>1. Ids(TxView'["companies"]) = Ids(TxView["companies"])
    BY ViewCompanies
  <1>2. Linked(tx'.rows["contacts"], TxView'["companies"])
    BY <1>1 DEF LinkInv, Linked
  <1> QED
    BY <1>2 DEF LinkInv, MissingTables, QuietExportRestores

LEMMA CRMLinks == ASSUME Typed, LinkInv, CRMStep, CRMWrite PROVE LinkInv'
  <1>1. UNCHANGED <<file, res, tx>> /\ ~tx.truncated
    BY DEF CRMWrite, Unlocked
  <1>2. /\ Linked(live["contacts"], live["companies"])
        /\ Linked(tx.rows["contacts"], TxView["companies"])
    BY DEF LinkInv
  <1>3. ASSUME Linked(live'["contacts"], live'["companies"]),
               Linked(tx'.rows["contacts"], TxView'["companies"])
        PROVE  LinkInv'
    BY <1>1, <1>3 DEF LinkInv, MissingTables, QuietExportRestores
  <1>4. "contacts" \in Kept /\ "companies" \in Kept
    BY Names
  <1>5. ASSUME NEW c \in Companies, CreateCompany(c) PROVE LinkInv'
    <2>1. /\ live'["contacts"] = live["contacts"]
          /\ live'["companies"] = live["companies"] \cup {[id |-> c, ref |-> Null]}
      BY <1>4, <1>5, CreateCompanyWrites
    <2>2. Ids(live["companies"]) \subseteq Ids(live'["companies"])
      BY <2>1 DEF Ids
    <2>3. Ids(TxView["companies"]) \subseteq Ids(TxView'["companies"])
      BY <1>1, <2>2, ViewCompanies
    <2> QED
      BY <1>1, <1>2, <1>3, <2>1, <2>2, <2>3, LinkedMore
  <1>6. ASSUME NEW c \in Companies, DeleteCompany(c) PROVE LinkInv'
    <2>1. /\ live'["contacts"] = Orphaned(live["contacts"], c)
          /\ live'["companies"] = {r \in live["companies"] : r.id # c}
      BY <1>6, DeleteCompanyWrites
    <2>2. Ids(live'["companies"]) = Ids(live["companies"]) \ {c}
      BY <2>1 DEF Ids
    <2>3. \A x \in live'["contacts"] : \E r \in live["contacts"] :
             (x = r /\ r.ref # c) \/ x.ref = Null
      <3>1. live["contacts"] \subseteq Rows["contacts"] /\ Keyed(live["contacts"])
        BY <1>4 DEF Typed, Tables
      <3> QED
        BY <2>1, <3>1, OrphanedTyped
    <2>4. Linked(live'["contacts"], live'["companies"])
      BY <1>2, <2>2, <2>3 DEF Linked
    <2>5. \A r \in tx.rows["contacts"] : r.ref # c
      BY <1>6 DEF DeleteCompany
    <2>6. Ids(TxView["companies"]) \ {c} \subseteq Ids(TxView'["companies"])
      BY <1>1, <2>2, ViewCompanies
    <2>7. Linked(tx'.rows["contacts"], TxView'["companies"])
      BY <1>1, <1>2, <2>5, <2>6 DEF Linked
    <2> QED
      BY <1>3, <2>4, <2>7
  <1>7. ASSUME NEW p \in Contacts, NEW c \in Companies, CreateContact(p, c) PROVE LinkInv'
    <2>1. /\ live'["contacts"] = live["contacts"] \cup {[id |-> p, ref |-> c]}
          /\ live'["companies"] = live["companies"]
      BY <1>4, <1>7, CreateContactWrites
    <2>2. Resolves("contacts", [id |-> p, ref |-> c], live)
      BY <1>7 DEF CreateContact
    <2>3. c \in {Null, User} \cup Ids(live["companies"])
      BY <1>4, <2>2, ResolvesIs
    <2>4. Linked(live'["contacts"], live'["companies"])
      BY <1>2, <2>1, <2>3 DEF Linked
    <2>5. Ids(TxView'["companies"]) = Ids(TxView["companies"])
      BY <1>1, <2>1, ViewCompanies
    <2>6. Linked(tx'.rows["contacts"], TxView'["companies"])
      BY <1>1, <1>2, <2>5 DEF Linked
    <2> QED
      BY <1>3, <2>4, <2>6
  <1>8. ASSUME NEW a \in AICalls, RecordAICall(a) PROVE LinkInv'
    BY <1>1, <1>4, <1>8, RecordAICallWrites, LinkStays
  <1> QED
    BY <1>5, <1>6, <1>7, <1>8 DEF CRMStep

LEMMA ExportLinks ==
  ASSUME Typed, LinkInv, QuietInv, ExportStart \/ ExportStep
  PROVE  LinkInv'
  <1>1. /\ live'["companies"] = live["companies"] /\ live'["contacts"] = live["contacts"]
        /\ UNCHANGED <<res, tx>>
    BY ExportWrites, Names DEF OnlyAudited, ExportFrame
  <1>2. CASE UNCHANGED file
    BY <1>1, <1>2, LinkStays
  <1>3. CASE ExportFlush /\ file' = [held |-> TRUE, new |-> TRUE, quiet |-> watch.quiet,
                                     tables |-> exp.tables]
    <2>1. exp.pc = "flush" /\ exp.i = 5
      BY <1>3 DEF ExportFlush, QuietInv
    <2>2. file'.quiet => Linked(file'.tables["contacts"], file'.tables["companies"])
      BY <1>3, <2>1 DEF QuietInv, LinkInv
    <2>3. Ids(TxView'["companies"]) = Ids(TxView["companies"])
      BY <1>1, ViewCompanies
    <2>4. Linked(tx'.rows["contacts"], TxView'["companies"])
      BY <1>1, <2>3 DEF LinkInv, Linked
    <2> QED
      BY <1>1, <2>2, <2>4 DEF LinkInv, MissingTables, QuietExportRestores
  <1> QED
    BY <1>2, <1>3 DEF ExportStart, ExportStep, ExportTable, ExportFailed, ExportCompleted,
                      ExportFlush

(* A step of the restore that changes neither table nor what is uploaded.  *)
LEMMA PhaseLinks ==
  ASSUME Typed, LinkInv, RestoreFrame, OnlyAudited,
         Linked(tx'.rows["contacts"], TxView'["companies"]),
         res'.env = res.env \/ res'.env = NoEnvelope,
         res'.cause = "foreign_key" =>
            res'.pc = "done" \/ (res'.env = res.env /\ res.pc # "done" /\ res.cause = "foreign_key")
  PROVE  LinkInv'
  <1>1. live'["companies"] = live["companies"] /\ live'["contacts"] = live["contacts"]
    BY Names DEF OnlyAudited
  <1>2. UNCHANGED file
    BY DEF RestoreFrame
  <1>3. MissingTables(NoEnvelope) # {}
    BY Names DEF MissingTables, NoEnvelope
  <1>4. /\ res'.env.quiet /\ MissingTables(res'.env) = {} =>
              Linked(res'.env.tables["contacts"], res'.env.tables["companies"])
    BY <1>3 DEF LinkInv
  <1>5. QuietExportRestores'
    <2>1. QuietExportRestores
      BY DEF LinkInv
    <2>2. CASE res'.pc = "done" \/ res'.cause # "foreign_key"
      BY <2>2 DEF QuietExportRestores
    <2>3. CASE res'.env = res.env /\ res.pc # "done" /\ res.cause = "foreign_key"
      BY <2>1, <2>3 DEF QuietExportRestores, MissingTables
    <2> QED
      BY <2>2, <2>3
  <1>6. Linked(live'["contacts"], live'["companies"])
    BY <1>1 DEF LinkInv
  <1>7. file'.quiet => Linked(file'.tables["contacts"], file'.tables["companies"])
    BY <1>2 DEF LinkInv
  <1> QED
    BY <1>4, <1>5, <1>6, <1>7 DEF LinkInv, MissingTables

(* Before anything is imported the transaction has no contacts.            *)
LEMMA NoContacts ==
  ASSUME tx'.rows = Empty \/ tx' = NoTx
  PROVE  Linked(tx'.rows["contacts"], TxView'["companies"])
  <1>1. tx'.rows = Empty
    BY DEF NoTx
  <1> QED
    BY <1>1, EmptyTables, Names DEF Linked

LEMMA CallLinks ==
  ASSUME Typed, RestoreInv, LinkInv, NEW mode \in {"merge", "replace", "other"},
         NEW env \in Envelopes, Restore(mode, env)
  PROVE  LinkInv'
  <1>1. /\ res.pc = "idle" /\ res = RestoreIdle /\ tx = NoTx /\ UNCHANGED tx
        /\ UNCHANGED live /\ RestoreFrame /\ res \in RestoreState
    BY DEF Restore, RestoreInv, Typed
  <1>2. OnlyAudited /\ Linked(tx'.rows["contacts"], TxView'["companies"])
    BY <1>1, NothingWritten, NoContacts
  <1>3. res.cause = "none"
    BY <1>1 DEF RestoreIdle
  <1>4. CASE Refusal(mode, env) # "none"
    <2>1. res'.env = NoEnvelope /\ res'.pc = "done"
      BY <1>1, <1>4 DEF Restore, Return, RestoreState
    <2> QED
      BY <1>1, <1>2, <2>1, PhaseLinks
  <1>5. CASE Refusal(mode, env) = "none"
    <2>1. res'.env = env /\ res'.cause = "none"
      BY <1>1, <1>3, <1>5 DEF Restore, RestoreState
    <2>2. /\ env.kind = "valid" /\ env.names \subseteq Kept
          /\ env.quiet = file.quiet /\ \A t \in env.names : env.tables[t] = file.tables[t]
      BY <1>5, AcceptedEnvelope, UploadedEnvelope DEF Envelope
    <2>3. env.quiet /\ MissingTables(env) = {} => Linked(env.tables["contacts"], env.tables["companies"])
      BY <2>2, Names DEF MissingTables, LinkInv
    <2>4. UNCHANGED <<file, live>>
      BY <1>1 DEF RestoreFrame
    <2>5. Linked(live'["contacts"], live'["companies"])
      BY <2>4 DEF LinkInv
    <2>6. file'.quiet => Linked(file'.tables["contacts"], file'.tables["companies"])
      BY <2>4 DEF LinkInv
    <2> QED
      BY <1>2, <2>1, <2>3, <2>5, <2>6 DEF LinkInv, MissingTables, QuietExportRestores
  <1> QED
    BY <1>4, <1>5

(* A row that does not resolve comes from a file that was not quiet.       *)
LEMMA ApplyLinks == ASSUME Typed, RestoreInv, LinkInv, ApplyTableRows PROVE LinkInv'
  <1>1. /\ res.pc = "tables" /\ res.i \in 1..4 /\ RestoreFrame /\ UNCHANGED live
        /\ res \in RestoreState
    BY ApplySplits DEF ApplyTableRows, Typed
  <1>2. OnlyAudited
    BY <1>1, NothingWritten
  <1>3. PICK t \in Kept : t = TableNames[res.i]
    BY <1>1, Names
  <1>4. \A n \in 1..4 : tx.rows[TableNames[n]]
                          = IF n < res.i THEN res.env.tables[TableNames[n]] ELSE {}
    BY <1>1 DEF RestoreInv
  <1>5. res.env.tables[t] \subseteq Rows[t]
    BY <1>1, <1>3, AppliedTyped
  <1>6. CASE /\ ~ \A r \in res.env.tables[t] : Resolves(t, r, TxView)
             /\ res' = Failing(res, "foreign_key", "rollback") /\ UNCHANGED tx
    <2>1. PICK r \in res.env.tables[t] : ~Resolves(t, r, TxView)
      BY <1>6
    <2>2. t = "contacts" /\ r.ref \notin {Null, User} \cup Ids(TxView["companies"])
      BY <1>5, <2>1, ResolvesIs, OthersResolve
    <2>3. tx.rows["companies"] = res.env.tables["companies"]
      <3>1. res.i = 2
        BY <1>1, <1>3, <2>2, Places
      <3> QED
        BY <1>4, <3>1, Names
    <2>4. ~Linked(res.env.tables["contacts"], res.env.tables["companies"])
      BY <2>1, <2>2, <2>3, ViewCompanies DEF Linked
    <2>5. ~res.env.quiet \/ MissingTables(res.env) # {}
      BY <2>4 DEF LinkInv
    <2>6. res'.env = res.env /\ UNCHANGED <<file, live, tx>>
      BY <1>1, <1>6 DEF Failing, RestoreState, RestoreFrame
    <2>7. Ids(TxView'["companies"]) = Ids(TxView["companies"])
      BY <2>6, ViewCompanies
    <2>8. Linked(tx'.rows["contacts"], TxView'["companies"])
      BY <2>6, <2>7 DEF LinkInv, Linked
    <2>9. Linked(live'["contacts"], live'["companies"])
      BY <2>6 DEF LinkInv
    <2>10. file'.quiet => Linked(file'.tables["contacts"], file'.tables["companies"])
      BY <2>6 DEF LinkInv
    <2> QED
      BY <2>5, <2>6, <2>8, <2>9, <2>10 DEF LinkInv, MissingTables, QuietExportRestores
  <1>7. CASE res' = Failing(res, "import", "rollback") /\ UNCHANGED tx
    <2>1. res'.env = res.env /\ res'.cause = "import"
      BY <1>1, <1>7 DEF Failing, RestoreState
    <2>2. Ids(TxView'["companies"]) = Ids(TxView["companies"])
      BY <1>1, <1>7, ViewCompanies
    <2>3. Linked(tx'.rows["contacts"], TxView'["companies"])
      BY <1>7, <2>2 DEF LinkInv, Linked
    <2> QED
      BY <1>1, <1>2, <2>1, <2>3, PhaseLinks
  <1>8. CASE /\ \A r \in res.env.tables[t] : Resolves(t, r, TxView)
             /\ tx' = Applied(t, Stored(t, res.env.tables[t]))
             /\ res' = [res EXCEPT !.i = res.i + 1]
    <2>1. tx.rows \in Tables /\ tx \in Transaction
      BY DEF Typed, Transaction
    <2>2. tx'.truncated = tx.truncated /\ tx'.rows = Replaced(tx.rows, t, Stored(t, res.env.tables[t]))
      BY <1>8, <2>1 DEF Applied, Transaction
    <2>3. /\ tx'.rows[t] = Stored(t, res.env.tables[t])
          /\ \A u \in Kept \ {t} : tx'.rows[u] = tx.rows[u]
      BY <2>1, <2>2 DEF Replaced, Tables
    <2>4. Linked(tx'.rows["contacts"], TxView'["companies"])
      <3>1. CASE t = "companies"
        <4>1. res.i = 1
          BY <1>1, <1>3, <3>1, Places
        <4>2. tx'.rows["contacts"] = {}
          BY <1>4, <2>3, <3>1, <4>1, Names
        <4> QED
          BY <4>2 DEF Linked
      <3>2. CASE t # "companies"
        <4>1. Ids(TxView'["companies"]) = Ids(TxView["companies"])
          BY <1>1, <2>2, <2>3, <3>2, Names, ViewCompanies
        <4>2. CASE t = "contacts"
          <5>1. tx'.rows["contacts"] = res.env.tables["contacts"]
            BY <2>3, <4>2, StoredIs
          <5> QED
            BY <1>8, <4>1, <4>2, <5>1, ResolvesIs DEF Linked
        <4>3. CASE t # "contacts"
          BY <2>3, <4>1, <4>3, Names DEF LinkInv, Linked
        <4> QED
          BY <4>2, <4>3
      <3> QED
        BY <3>1, <3>2
    <2>5. res'.env = res.env /\ res'.cause = res.cause /\ res.pc # "done"
      BY <1>1, <1>8 DEF RestoreState
    <2> QED
      BY <1>1, <1>2, <2>4, <2>5, PhaseLinks
  <1> QED
    BY <1>3, <1>6, <1>7, <1>8, ApplySplits

(* A commit makes the transaction's view the live tables.                  *)
LEMMA CommitLinks == ASSUME Typed, RestoreInv, LinkInv, RestoreCommit PROVE LinkInv'
  <1>1. res.pc = "tables" /\ res \in RestoreState /\ RestoreFrame
    BY CommitSplits DEF RestoreCommit, Typed
  <1>2. /\ res'.env = res.env
        /\ res'.cause = res.cause \/ res'.cause = "commit"
    BY <1>1, CommitSplits DEF Failing, RestoreState
  <1>3. CASE UNCHANGED <<live, tx>>
    <2>1. Ids(TxView'["companies"]) = Ids(TxView["companies"])
      BY <1>3, ViewCompanies
    <2>2. Linked(tx'.rows["contacts"], TxView'["companies"])
      BY <1>3, <2>1 DEF LinkInv, Linked
    <2> QED
      BY <1>1, <1>2, <1>3, <2>2, NothingWritten, PhaseLinks
  <1>4. CASE live' = TxView /\ tx' = NoTx
    <2>1. TxView["contacts"] = Upsert(IF tx.truncated THEN {} ELSE live["contacts"], tx.rows["contacts"])
      BY ViewOf, Names
    <2>2. \A r \in TxView["contacts"] :
             r \in tx.rows["contacts"] \/ (~tx.truncated /\ r \in live["contacts"])
      BY <2>1 DEF Upsert
    <2>3. ~tx.truncated => Ids(live["companies"]) \subseteq Ids(TxView["companies"])
      BY ViewCompanies
    <2>4. Linked(live'["contacts"], live'["companies"])
      BY <1>4, <2>2, <2>3 DEF LinkInv, Linked
    <2>5. Linked(tx'.rows["contacts"], TxView'["companies"])
      BY <1>4, NoContacts
    <2>6. UNCHANGED file
      BY <1>1 DEF RestoreFrame
    <2>7. file'.quiet => Linked(file'.tables["contacts"], file'.tables["companies"])
      BY <2>6 DEF LinkInv
    <2>8. QuietExportRestores'
      BY <1>1, <1>2 DEF LinkInv, QuietExportRestores, MissingTables
    <2> QED
      BY <1>2, <2>4, <2>5, <2>7, <2>8 DEF LinkInv, MissingTables
  <1> QED
    BY <1>3, <1>4, CommitSplits

LEMMA OtherLinks ==
  ASSUME Typed, RestoreInv, LinkInv,
         \/ RestoreStarted \/ RestoreBegin \/ TruncateBackupTables
         \/ RestoreRollback \/ RestoreFailed \/ RestoreCompleted
  PROVE  LinkInv'
  <1>1. OnlyAudited /\ RestoreFrame /\ res \in RestoreState
    BY RestoreWrites, RestoreFrames DEF RestoreButCommit, RestoreStep, Typed
  <1>2. tx'.rows = Empty \/ tx' = NoTx
    <2>1. NoTx.rows = Empty
      BY DEF NoTx
    <2>2. tx \in Transaction
      BY DEF Typed
    <2>3. tx' = NoTx \/ tx'.rows = tx.rows
      BY <2>2 DEF RestoreStarted, RestoreBegin, TruncateBackupTables, RestoreRollback,
                  RestoreFailed, RestoreCompleted, Transaction
    <2>4. CASE RestoreRollback
      BY <2>4 DEF RestoreRollback
    <2>5. CASE TruncateBackupTables
      <3>1. tx.rows = Empty
        BY <2>5 DEF TruncateBackupTables, RestoreInv
      <3> QED
        BY <2>3, <3>1
    <2>6. CASE RestoreStarted \/ RestoreBegin \/ RestoreFailed \/ RestoreCompleted
      <3>1. tx = NoTx
        BY <2>6 DEF RestoreStarted, RestoreBegin, RestoreFailed, RestoreCompleted, RestoreInv
      <3> QED
        BY <2>1, <2>3, <3>1
    <2> QED
      BY <2>4, <2>5, <2>6
  <1>3. CASE RestoreStarted \/ RestoreBegin \/ TruncateBackupTables \/ RestoreRollback
    <2>1. /\ res'.env = res.env /\ res.pc # "done"
          /\ res'.cause = res.cause \/ res'.cause \in {"begin", "truncate"}
      BY <1>1, <1>3 DEF RestoreStarted, RestoreBegin, TruncateBackupTables, RestoreRollback,
                        Failing, RestoreState
    <2> QED
      BY <1>1, <1>2, <2>1, NoContacts, PhaseLinks
  <1>4. CASE RestoreFailed \/ RestoreCompleted
    <2>1. res'.env = NoEnvelope /\ res'.pc = "done"
      BY <1>1, <1>4 DEF RestoreFailed, RestoreCompleted, Return, RestoreState
    <2> QED
      BY <1>1, <1>2, <2>1, NoContacts, PhaseLinks
  <1> QED
    BY <1>3, <1>4

LEMMA LinkInductive ==
  Typed /\ RestoreInv /\ LinkInv /\ QuietInv /\ [Next]_vars => LinkInv'
  <1> SUFFICES ASSUME Typed, RestoreInv, LinkInv, QuietInv, [Next]_vars PROVE LinkInv'
    OBVIOUS
  <1>1. CASE CRMStep /\ CRMWrite
    BY <1>1, CRMLinks
  <1>2. CASE ExportStart \/ ExportStep
    BY <1>2, ExportLinks
  <1>3. CASE RestoreAny
    BY <1>3, CallLinks, ApplyLinks, CommitLinks, OtherLinks DEF RestoreAny, RestoreStep
  <1>4. CASE DrillAny /\ OnlyAudited /\ DrillFrame
    BY <1>4, Names, LinkStays DEF OnlyAudited, DrillFrame
  <1>5. CASE Crash
    <2>1. tx' = NoTx /\ UNCHANGED <<live, file>>
      BY <1>5 DEF Crash
    <2>2. UNCHANGED res \/ (res'.env = NoEnvelope /\ res'.cause = "none")
      BY <1>5 DEF Crash, Stopped, RestoreIdle
    <2>3. MissingTables(NoEnvelope) # {}
      BY Names DEF MissingTables, NoEnvelope
    <2>4. Linked(tx'.rows["contacts"], TxView'["companies"])
      BY <2>1, NoContacts
    <2>5. QuietExportRestores'
      BY <2>2 DEF LinkInv, QuietExportRestores, MissingTables
    <2> QED
      BY <2>1, <2>2, <2>3, <2>4, <2>5 DEF LinkInv, MissingTables
  <1>6. CASE UNCHANGED vars
    <2>1. UNCHANGED <<live, file, res, tx>>
      BY <1>6 DEF vars
    <2> QED
      BY <2>1, LinkStays
  <1> QED
    BY <1>1, <1>2, <1>3, <1>4, <1>5, <1>6, Frames

LEMMA LinkInit == Init => LinkInv
  <1> SUFFICES ASSUME Init PROVE LinkInv
    OBVIOUS
  <1>1. \A few : Linked({}, few)
    BY DEF Linked
  <1>2. live["contacts"] = {} /\ tx.rows["contacts"] = {} /\ res.env.tables["contacts"] = {}
    BY EmptyTables, Names DEF Init, NoTx, RestoreIdle, NoEnvelope
  <1>3. Linked(file.tables["contacts"], file.tables["companies"])
    <2>1. CASE file = NoFile
      BY <1>1, <2>1, EmptyTables, Names DEF NoFile
    <2>2. ASSUME NEW c \in Companies, NEW p \in Contacts, file = OldFile(c, p)
          PROVE  Linked(file.tables["contacts"], file.tables["companies"])
      <3>1. file.tables["contacts"] = {[id |-> p, ref |-> Null]}
        BY <2>2, Names DEF OldFile, Empty
      <3> QED
        BY <3>1 DEF Linked
    <2> QED
      BY <2>1, <2>2 DEF Init
  <1>4. QuietExportRestores
    BY DEF Init, RestoreIdle, QuietExportRestores
  <1> QED
    BY <1>1, <1>2, <1>3, <1>4 DEF LinkInv

-----------------------------------------------------------------------------
(* What an undisturbed export has read is still there.                     *)

LEMMA Quiet ==
  ASSUME Watch, exp'.pc \in {"tables", "flush"}, watch'.quiet
  PROVE  watch.quiet /\ \A t \in Kept \ {"audit_logs"} : live'[t] = live[t]
  BY DEF Watch

LEMMA QuietExport ==
  ASSUME Typed, QuietInv, ExportStart \/ ExportStep
  PROVE  QuietInv'
  <1>1. /\ exp \in ExportState /\ Watch
        /\ live'["companies"] = live["companies"] /\ live'["contacts"] = live["contacts"]
    BY ExportWrites, Names DEF Typed, OnlyAudited, ExportFrame
  <1>2. CASE ExportStart
    <2>1. exp'.pc = "tables" /\ exp'.i = 1
      BY <1>1, <1>2 DEF ExportStart, QuietInv, ExportIdle
    <2> QED
      BY <2>1 DEF QuietInv
  <1>3. CASE ExportTable /\ exp' = [exp EXCEPT !.pc = "failed"]
    BY <1>1, <1>3 DEF QuietInv, ExportState
  <1>4. CASE ExportTable /\ exp' # [exp EXCEPT !.pc = "failed"]
    <2>1. /\ exp.pc = "tables" /\ exp.i \in 1..4
          /\ exp' = [exp EXCEPT !.i = @ + 1,
                                !.tables[TableNames[exp.i]] = Stream(TableNames[exp.i])]
      BY <1>1, <1>4, Names DEF ExportTable, ExportState
    <2>2. PICK t \in Kept : t = TableNames[exp.i]
      BY <2>1, Names
    <2>3. exp.tables \in Tables
      BY <1>1 DEF ExportState
    <2>4. /\ exp'.pc = "tables" /\ exp'.i = exp.i + 1
          /\ exp'.tables = Replaced(exp.tables, t, Stream(t))
      BY <1>1, <2>1, <2>2 DEF Replaced, ExportState
    <2>5. /\ exp'.tables[t] = Stream(t)
          /\ \A u \in Kept \ {t} : exp'.tables[u] = exp.tables[u]
      BY <2>3, <2>4 DEF Replaced, Tables
    <2>6. ASSUME watch'.quiet
          PROVE  /\ exp'.i > 1 => exp'.tables["companies"] = live'["companies"]
                 /\ exp'.i > 2 => exp'.tables["contacts"] = live'["contacts"]
      <3>1. watch.quiet
        BY <1>1, <2>4, <2>6, Quiet
      <3>2. /\ exp.i > 1 => exp.tables["companies"] = live["companies"]
            /\ exp.i > 2 => exp.tables["contacts"] = live["contacts"]
        BY <2>1, <3>1 DEF QuietInv
      <3>3. exp'.tables["companies"] = live'["companies"]
        <4>1. CASE t = "companies"
          BY <1>1, <2>5, <4>1, StreamTyped, Names
        <4>2. CASE t # "companies"
          <5>1. exp.i # 1
            BY <2>1, <2>2, <4>2, Places
          <5> QED
            BY <1>1, <2>1, <2>5, <3>2, <4>2, <5>1, Names
        <4> QED
          BY <4>1, <4>2
      <3>4. exp'.i > 2 => exp'.tables["contacts"] = live'["contacts"]
        <4>1. CASE t = "contacts"
          BY <1>1, <2>5, <4>1, StreamTyped, Names
        <4>2. CASE t # "contacts"
          <5>1. exp.i # 2
            BY <2>1, <2>2, <4>2, Places
          <5> QED
            BY <1>1, <2>1, <2>4, <2>5, <3>2, <4>2, <5>1, Names
        <4> QED
          BY <4>1, <4>2
      <3> QED
        BY <3>3, <3>4
    <2> QED
      BY <2>4, <2>6 DEF QuietInv
  <1>5. CASE ExportFailed \/ ExportFlush
    BY <1>5 DEF ExportFailed, ExportFlush, ExportIdle, QuietInv
  <1>6. CASE ExportCompleted
    <2>1. exp.pc = "tables" /\ exp.i = 5
      BY <1>1, <1>6, Names DEF ExportCompleted, ExportState
    <2>2. CASE exp' = [ExportIdle EXCEPT !.pc = "done"]
      BY <2>2 DEF ExportIdle, QuietInv
    <2>3. CASE exp' = [exp EXCEPT !.pc = "flush"]
      <3>1. exp'.pc = "flush" /\ exp'.i = 5 /\ exp'.tables = exp.tables
        BY <1>1, <2>1, <2>3 DEF ExportState
      <3> QED
        BY <1>1, <2>1, <3>1, Quiet DEF QuietInv
    <2> QED
      BY <1>6, <2>2, <2>3 DEF ExportCompleted
  <1> QED
    BY <1>2, <1>3, <1>4, <1>5, <1>6 DEF ExportStep

LEMMA QuietInductive == Typed /\ QuietInv /\ [Next]_vars => QuietInv'
  <1> SUFFICES ASSUME Typed, QuietInv, [Next]_vars PROVE QuietInv'
    OBVIOUS
  <1>1. CASE ExportStart \/ ExportStep
    BY <1>1, QuietExport
  <1>2. CASE UNCHANGED exp /\ Watch
    <2>1. ASSUME exp'.pc \in {"tables", "flush"}, watch'.quiet
          PROVE  /\ exp'.i > 1 => exp'.tables["companies"] = live'["companies"]
                 /\ exp'.i > 2 => exp'.tables["contacts"] = live'["contacts"]
      <3>1. /\ watch.quiet
            /\ live'["companies"] = live["companies"] /\ live'["contacts"] = live["contacts"]
        BY <1>2, <2>1, Quiet, Names
      <3> QED
        BY <1>2, <2>1, <3>1 DEF QuietInv
    <2> QED
      BY <1>2, <2>1 DEF QuietInv
  <1>3. CASE CRMWrite \/ RestoreFrame \/ DrillFrame
    BY <1>2, <1>3 DEF CRMWrite, RestoreFrame, DrillFrame
  <1>4. CASE Crash
    <2>1. exp' = exp \/ exp'.pc = "done"
      BY <1>4 DEF Crash, Stopped, ExportIdle
    <2>2. CASE exp'.pc = "done"
      BY <2>2 DEF QuietInv
    <2> QED
      BY <1>2, <1>4, <2>1, <2>2 DEF Crash
  <1>5. CASE UNCHANGED vars
    BY <1>5 DEF vars, QuietInv
  <1> QED
    BY <1>1, <1>3, <1>4, <1>5, Frames

LEMMA QuietInit == Init => QuietInv
  BY DEF Init, QuietInv, ExportIdle

-----------------------------------------------------------------------------
(* The drill's copy.                                                       *)

(* The rows that stayed as they were become fewer, and are still live.     *)
LEMMA SinceShrinks ==
  ASSUME Watch, \A t \in Kept : watch.since[t] \subseteq live[t],
         drl.pc # "idle" \/ drl'.pc = "idle" \/ OnlyAudited
  PROVE  /\ \A t \in Kept : watch'.since[t] \subseteq live'[t]
         /\ drl.pc # "idle" => \A t \in Kept : watch'.since[t] \subseteq watch.since[t]
  <1>1. CASE drl'.pc \in {"idle", "drop", "done"}
    BY <1>1, EmptyTables DEF Watch
  <1>2. CASE drl'.pc \notin {"idle", "drop", "done"} /\ drl.pc = "idle"
    BY <1>2 DEF Watch, OnlyAudited
  <1>3. CASE drl'.pc \notin {"idle", "drop", "done"} /\ drl.pc # "idle"
    BY <1>3 DEF Watch
  <1> QED
    BY <1>1, <1>2, <1>3

LEMMA CopyShrinks ==
  ASSUME NEW rows, NEW since, NEW less, CopyOf(rows, since),
         \A t \in Kept : less[t] \subseteq since[t]
  PROVE  CopyOf(rows, less)
  BY DEF CopyOf

(* Nothing but the history changes.                                        *)
LEMMA DrillStays ==
  ASSUME Typed, DrillInv, UNCHANGED <<drl, scratch>>, Watch
  PROVE  DrillInv'
  <1>1. \A t \in Kept : watch'.since[t] \subseteq live'[t]
    BY SinceShrinks DEF DrillInv
  <1>2. CASE drl.pc = "idle"
    BY <1>1, <1>2 DEF DrillInv
  <1>3. CASE drl.pc # "idle"
    <2>1. \A t \in Kept : watch'.since[t] \subseteq watch.since[t]
      BY <1>3, SinceShrinks DEF DrillInv
    <2>2. drl.pc = "commit" => CopyOf(drl.rows, watch'.since)
      BY <2>1, CopyShrinks DEF DrillInv
    <2>3. drl.pc = "passed" => CopyOf(scratch.rows, watch'.since)
      BY <2>1, CopyShrinks DEF DrillInv
    <2>4. drl.pc \in {"read", "import"} =>
             \A n \in 1..4 : n < drl.i =>
                watch'.since[TableNames[n]] \subseteq drl.read[TableNames[n]]
      BY <2>1, Names DEF DrillInv
    <2>5. drl.pc = "import" => watch'.since[TableNames[drl.i]] \subseteq drl.buffer
      <3>1. drl.pc = "import" => drl.i \in 1..4
        BY DEF DrillInv, Typed, DrillState
      <3> QED
        BY <2>1, <3>1, Names DEF DrillInv
    <2> QED
      BY <1>1, <1>3, <2>2, <2>3, <2>4, <2>5 DEF DrillInv
  <1> QED
    BY <1>2, <1>3

(* A phase that promises nothing about the copy.                           *)
LEMMA PlainPhase ==
  ASSUME \A t \in Kept : watch'.since[t] \subseteq live'[t],
         \/ drl'.pc \in {"clone", "rewrite"} /\ drl'.i = 1 /\ drl'.rows = Empty
         \/ drl'.pc \in {"abort", "drop", "done"}
  PROVE  DrillInv'
  BY DEF DrillInv

(* The keys of the copy point into the copy.                               *)
LEMMA RewriteKeeps == ASSUME Typed, DrillInv, RewriteForeignKeys PROVE DrillInv'
  <1>1. /\ drl.pc = "rewrite" /\ drl.i = 1 /\ drl.rows = Empty /\ Watch
        /\ drl \in DrillState /\ scratch \in Scratch
    BY DEF RewriteForeignKeys, DrillInv, DrillFrame, Typed
  <1>2. drl'.pc = "prepare" /\ drl'.i = 1 /\ drl'.rows = Empty
    BY <1>1 DEF RewriteForeignKeys, DrillState
  <1>3. \A t \in Kept : watch'.since[t] \subseteq live'[t]
    BY <1>1, SinceShrinks DEF DrillInv
  <1>4. <<"contacts", "companies", "scratch">> \in {Rewritten(k) : k \in KeptKeys}
    <2>1. Rewritten(<<"contacts", "companies">>) = <<"contacts", "companies", "scratch">>
      BY DEF Rewritten
    <2> QED
      BY <2>1, KeptKey
  <1>5. scratch'.keys = {k \in scratch.keys : k[3] # "public"}
                           \cup {Rewritten(k) : k \in KeptKeys}
    BY <1>1 DEF RewriteForeignKeys, Scratch
  <1>6. <<"contacts", "companies", "scratch">> \in scratch'.keys
    BY <1>4, <1>5
  <1> QED
    BY <1>2, <1>3, <1>6 DEF DrillInv

LEMMA PrepareKeeps == ASSUME Typed, DrillInv, Prepare PROVE DrillInv'
  <1>1. /\ drl.pc = "prepare" /\ drl.i = 1 /\ drl.rows = Empty /\ Watch
        /\ drl \in DrillState /\ UNCHANGED scratch
        /\ <<"contacts", "companies", "scratch">> \in scratch.keys
    BY DEF Prepare, DrillInv, DrillFrame, Typed
  <1>2. \A t \in Kept : watch'.since[t] \subseteq live'[t]
    BY <1>1, SinceShrinks DEF DrillInv
  <1>3. CASE drl' = [drl EXCEPT !.pc = "abort"]
    BY <1>1, <1>2, <1>3, PlainPhase DEF DrillState
  <1>4. CASE drl' = [drl EXCEPT !.pc = "read"]
    <2>1. drl'.pc = "read" /\ drl'.i = 1 /\ drl'.rows = Empty
      BY <1>1, <1>4 DEF DrillState
    <2>2. \A t \in Kept : drl'.rows[t] = {}
      BY <2>1, EmptyTables
    <2>3. Linked(drl'.rows["contacts"], drl'.rows["companies"])
      BY <2>2, Names DEF Linked
    <2> QED
      BY <1>1, <1>2, <2>1, <2>2, <2>3, Names DEF DrillInv
  <1> QED
    BY <1>3, <1>4 DEF Prepare

LEMMA ReadKeeps == ASSUME Typed, DrillInv, DrillRead PROVE DrillInv'
  <1>1. /\ drl.pc = "read" /\ drl.i \in 1..4 /\ drl \in DrillState
        /\ drl' = [drl EXCEPT !.pc = "import", !.buffer = live[TableNames[drl.i]]]
        /\ UNCHANGED <<scratch, live>> /\ Watch
    BY ReadMoves DEF DrillRead, DrillFrame, Typed
  <1>2. /\ \A t \in Kept : watch'.since[t] \subseteq live'[t]
        /\ \A t \in Kept : watch'.since[t] \subseteq watch.since[t]
    BY <1>1, SinceShrinks DEF DrillInv
  <1>3. PICK t \in Kept : t = TableNames[drl.i]
    BY <1>1, Names
  <1>4. /\ drl'.pc = "import" /\ drl'.i = drl.i /\ drl'.buffer = live[t]
        /\ drl'.rows = drl.rows /\ drl'.read = drl.read
    BY <1>1, <1>3 DEF DrillState
  <1>5. live[t] \subseteq Rows[t] /\ Keyed(live[t]) /\ watch'.since[t] \subseteq live[t]
    BY <1>1, <1>2 DEF Typed, Tables
  <1>6. \A n \in 1..4 : n < drl.i => watch'.since[TableNames[n]] \subseteq drl.read[TableNames[n]]
    BY <1>1, <1>2, Names DEF DrillInv
  <1>7. /\ \A n \in 1..4 : n >= drl.i => drl.rows[TableNames[n]] = {}
        /\ Linked(drl.rows["contacts"], drl.rows["companies"])
        /\ <<"contacts", "companies", "scratch">> \in scratch'.keys
    BY <1>1 DEF DrillInv
  <1>8. drl'.i <= 4
    BY <1>1, <1>4
  <1> QED
    BY <1>2, <1>3, <1>4, <1>5, <1>6, <1>7, <1>8 DEF DrillInv

(* One more table in the copy.                                             *)
LEMMA ImportKeeps == ASSUME Typed, DrillInv, Import PROVE DrillInv'
  <1>1. /\ drl.pc = "import" /\ drl.i \in 1..4 /\ drl \in DrillState
        /\ UNCHANGED <<scratch, live>> /\ Watch
    BY ImportMoves DEF Import, DrillFrame, Typed
  <1>2. /\ \A t \in Kept : watch'.since[t] \subseteq live'[t]
        /\ \A t \in Kept : watch'.since[t] \subseteq watch.since[t]
    BY <1>1, SinceShrinks DEF DrillInv
  <1>3. PICK t \in Kept : t = TableNames[drl.i]
    BY <1>1, Names
  <1>4. CASE drl' = [drl EXCEPT !.pc = "abort"]
    BY <1>1, <1>2, <1>4, PlainPhase DEF DrillState
  <1>5. CASE drl' = Copied(t) /\ \A r \in drl.buffer : ResolvesInScratch(t, r)
    <2>1. /\ drl'.pc = "read" /\ drl'.i = drl.i + 1
          /\ drl'.read = Replaced(drl.read, t, drl.buffer)
          /\ drl'.rows = Replaced(drl.rows, t, Stored(t, drl.buffer))
      BY <1>1, <1>5 DEF Copied, DrillState
    <2>2. drl.read \in Tables /\ drl.rows \in Tables
      BY <1>1 DEF DrillState
    <2>3. /\ drl'.read[t] = drl.buffer /\ drl'.rows[t] = Stored(t, drl.buffer)
          /\ \A u \in Kept \ {t} : drl'.read[u] = drl.read[u] /\ drl'.rows[u] = drl.rows[u]
      BY <2>1, <2>2 DEF Replaced, Tables
    <2>4. /\ \A n \in 1..4 : n < drl.i => watch.since[TableNames[n]] \subseteq drl.read[TableNames[n]]
          /\ \A n \in 1..4 : n >= drl.i => drl.rows[TableNames[n]] = {}
          /\ Linked(drl.rows["contacts"], drl.rows["companies"])
          /\ <<"contacts", "companies", "scratch">> \in scratch.keys
          /\ watch.since[t] \subseteq drl.buffer
      BY <1>1, <1>3 DEF DrillInv
    <2>5. ASSUME NEW n \in 1..4, n < drl'.i
          PROVE  watch'.since[TableNames[n]] \subseteq drl'.read[TableNames[n]]
      <3>1. CASE n = drl.i
        BY <1>2, <1>3, <2>3, <2>4, <3>1
      <3>2. CASE n < drl.i
        <4>1. watch.since[TableNames[n]] \subseteq drl.read[TableNames[n]]
          BY <2>4, <3>2
        <4> QED
          BY <1>2, <1>3, <2>3, <2>4, <4>1, Names
      <3> QED
        BY <1>1, <2>1, <2>5, <3>1, <3>2
    <2>6. ASSUME NEW n \in 1..4, n >= drl'.i
          PROVE  drl'.rows[TableNames[n]] = {}
      <3>1. n > drl.i /\ TableNames[n] \in Kept \ {t}
        BY <1>1, <1>3, <2>1, <2>6, Names
      <3> QED
        BY <1>1, <2>3, <2>4, <3>1
    <2>7. Linked(drl'.rows["contacts"], drl'.rows["companies"])
      <3>1. CASE t = "companies"
        <4>1. drl.i = 1
          BY <1>1, <1>3, <3>1, Places
        <4>2. drl'.rows["contacts"] = {}
          BY <2>3, <2>4, <3>1, <4>1, Names
        <4> QED
          BY <4>2 DEF Linked
      <3>2. CASE t = "contacts"
        <4>1. drl'.rows["contacts"] = drl.buffer /\ drl'.rows["companies"] = drl.rows["companies"]
          BY <2>3, <3>2, StoredIs, Names
        <4>2. ASSUME NEW r \in drl.buffer
              PROVE  r.ref \in {Null, User} \cup Ids(drl.rows["companies"])
          <5>1. PICK k \in scratch.keys : k = <<"contacts", "companies", "scratch">>
            BY <2>4
          <5>2. Resolves(t, r, drl.rows)
            BY <1>5, <3>2, <5>1 DEF ResolvesInScratch
          <5> QED
            BY <5>2, ResolvesIs
        <4> QED
          BY <4>1, <4>2 DEF Linked
      <3>3. CASE t \notin {"companies", "contacts"}
        BY <2>3, <2>4, <3>3, Names
      <3> QED
        BY <3>1, <3>2, <3>3
    <2> QED
      BY <1>1, <1>2, <2>1, <2>4, <2>5, <2>6, <2>7 DEF DrillInv
  <1> QED
    BY <1>3, <1>4, <1>5, ImportMoves

(* The copy is what was read, and the schema gets what was copied.         *)
LEMMA CheckKeeps == ASSUME Typed, DrillInv, DrillCheck PROVE DrillInv'
  <1>1. /\ drl.pc = "read" /\ drl.i = 5 /\ drl \in DrillState
        /\ UNCHANGED scratch /\ Watch
    BY Names DEF DrillCheck, DrillFrame, Typed, DrillState
  <1>2. /\ \A t \in Kept : watch'.since[t] \subseteq live'[t]
        /\ \A t \in Kept : watch'.since[t] \subseteq watch.since[t]
    BY <1>1, SinceShrinks DEF DrillInv
  <1>3. CASE drl' = [drl EXCEPT !.pc = "abort"]
    BY <1>1, <1>2, <1>3, PlainPhase DEF DrillState
  <1>4. CASE drl' = [drl EXCEPT !.pc = "commit"] /\ RoundTrip
    <2>1. drl'.pc = "commit" /\ drl'.rows = drl.rows
      BY <1>1, <1>4 DEF DrillState
    <2>2. \A n \in 1..4 : watch.since[TableNames[n]] \subseteq drl.read[TableNames[n]]
      BY <1>1 DEF DrillInv
    <2>3. \A t \in Kept : watch.since[t] \subseteq drl.read[t]
      BY <2>2, Names
    <2>4. Linked(drl.rows["contacts"], drl.rows["companies"])
      BY <1>1 DEF DrillInv
    <2>5. CopyOf(drl.rows, watch'.since)
      BY <1>2, <1>4, <2>3, <2>4 DEF RoundTrip, CopyOf
    <2>6. <<"contacts", "companies", "scratch">> \in scratch'.keys
      BY <1>1 DEF DrillInv
    <2> QED
      BY <1>2, <2>1, <2>5, <2>6 DEF DrillInv
  <1> QED
    BY <1>3, <1>4 DEF DrillCheck

LEMMA CopyKeeps == ASSUME Typed, DrillInv, DrillCommit PROVE DrillInv'
  <1>1. /\ drl.pc = "commit" /\ drl \in DrillState /\ scratch \in Scratch /\ Watch
    BY DEF DrillCommit, DrillFrame, Typed
  <1>2. /\ \A t \in Kept : watch'.since[t] \subseteq live'[t]
        /\ \A t \in Kept : watch'.since[t] \subseteq watch.since[t]
    BY <1>1, SinceShrinks DEF DrillInv
  <1>3. drl'.pc = "passed" /\ scratch'.rows = drl.rows
    BY <1>1 DEF DrillCommit, DrillState, Scratch
  <1>4. CopyOf(scratch'.rows, watch'.since)
    BY <1>1, <1>2, <1>3, CopyShrinks DEF DrillInv
  <1> QED
    BY <1>2, <1>3, <1>4 DEF DrillInv

LEMMA DrillInductive == Typed /\ DrillInv /\ [Next]_vars => DrillInv'
  <1> SUFFICES ASSUME Typed, DrillInv, [Next]_vars PROVE DrillInv'
    OBVIOUS
  <1>1. CASE CRMWrite \/ ExportFrame \/ RestoreFrame
    BY <1>1, DrillStays DEF CRMWrite, ExportFrame, RestoreFrame
  <1>2. CASE Crash
    <2>1. Watch /\ UNCHANGED scratch
      BY <1>2 DEF Crash
    <2>2. UNCHANGED drl \/ (drl'.pc = "done" /\ drl.pc # "idle")
      BY <1>2 DEF Crash, Stopped, DrillIdle
    <2>3. CASE drl'.pc = "done" /\ drl.pc # "idle"
      BY <2>1, <2>3, SinceShrinks, PlainPhase DEF DrillInv
    <2> QED
      BY <2>1, <2>2, <2>3, DrillStays
  <1>3. CASE UNCHANGED vars
    BY <1>3 DEF vars, DrillInv
  <1>4. CASE DrillAny /\ OnlyAudited /\ DrillFrame
    <2>1. drl \in DrillState /\ \A t \in Kept : watch'.since[t] \subseteq live'[t]
      BY <1>4, SinceShrinks DEF DrillFrame, DrillInv, Typed
    <2>2. CASE DrillStart
      <3>1. drl = DrillIdle
        BY <2>2 DEF DrillStart, DrillInv
      <3>2. drl.i = 1 /\ drl.rows = Empty
        BY <3>1 DEF DrillIdle
      <3> QED
        BY <2>1, <2>2, <3>2, PlainPhase DEF DrillStart, DrillState
    <2>3. CASE CloneTables
      <3>1. drl.i = 1 /\ drl.rows = Empty
        BY <2>3 DEF CloneTables, DrillInv
      <3> QED
        BY <2>1, <2>3, <3>1, PlainPhase DEF CloneTables, DrillState
    <2>4. CASE DrillAudit
      BY <2>1, <2>4, PlainPhase DEF DrillAudit, DrillIdle
    <2>5. CASE DropSchema
      <3>1. drl'.pc = "done"
        BY <2>1, <2>5 DEF DropSchema, DrillState
      <3> QED
        BY <2>1, <3>1, PlainPhase
    <2>6. CASE DrillFault
      BY <2>1, <2>6, PlainPhase DEF DrillFault, DrillState
    <2> QED
      BY <1>4, <2>2, <2>3, <2>4, <2>5, <2>6, RewriteKeeps, PrepareKeeps, ReadKeeps,
         ImportKeeps, CheckKeeps, CopyKeeps DEF DrillAny, DrillStep
  <1> QED
    BY <1>1, <1>2, <1>3, <1>4, Frames

LEMMA DrillInit == Init => DrillInv
  <1> SUFFICES ASSUME Init PROVE DrillInv
    OBVIOUS
  <1>1. drl = DrillIdle /\ drl.pc = "idle" /\ watch.since = Empty
    BY DEF Init, DrillIdle
  <1> QED
    BY <1>1, EmptyTables DEF DrillInv

-----------------------------------------------------------------------------
(* The theorems.                                                           *)

LEMMA IInvInductive ==
  /\ Init => IInv
  /\ IInv /\ [Next]_vars => IInv'
  BY InitTyped, LeftInit, RestoreInit, LinkInit, QuietInit, DrillInit, TypesKept,
     LeftInductive, RestoreInductive, LinkInductive, QuietInductive, DrillInductive DEF IInv

LEMMA TypedIsTypeOK == Typed => TypeOK
  <1> SUFFICES ASSUME Typed PROVE TypeOK
    OBVIOUS
  <1>1. /\ live \in Tables /\ exp.tables \in Tables /\ tx.rows \in Tables
        /\ drl.rows \in Tables /\ drl.read \in Tables /\ file.tables \in Tables
        /\ res.env.tables \in Tables /\ scratch.rows \in Tables /\ watch.since \in Tables
    BY DEF Typed, ExportState, Transaction, DrillState, RestoreState, Envelope, Scratch
  <1>2. budget.faults \in 0..MaxFaults /\ budget.writes \in 0..MaxWrites
    BY DEF Typed
  <1>3. budget.faults <= MaxFaults /\ budget.writes <= MaxWrites
    BY <1>2, BoundsAssumption
  <1> QED
    BY <1>1, <1>3 DEF TypeOK, Typed

(* Whatever fails or is interrupted, the tables keep their keys, a file in *)
(* the administrator's hands is audited, the upload is removed and so is   *)
(* the scratch schema, but for a late, a failing or a crashed drill        *)
(* (service.go:216-223, restore.go:52-56, scratch.go:109-116).             *)
THEOREM NothingIsLeftBehind == Spec => []Consistent
  <1>1. IInv => Consistent
    BY TypedIsTypeOK DEF IInv, LeftInv, Consistent, ExportedMeansAudited
  <1> QED
    BY <1>1, IInvInductive, PTL DEF Spec

(* The committed flag of a restore's answer tells whether its rows are in  *)
(* the database, but for a lost acknowledgement, and a drill that passed   *)
(* has copied every row that stayed as it was, with its references         *)
(* (restore.go:95-130, backup.go:170-230, scratch.go:162-229).             *)
THEOREM ReportsStayTrue == Spec => []ReportsAreTrue
  <1>1. IInv => PassedIsEvidence
    <2> SUFFICES ASSUME IInv, drl.pc = "passed" PROVE
             /\ \A t \in Kept : watch.since[t] \subseteq scratch.rows[t]
             /\ \E t \in Kept : scratch.rows[t] # {}
             /\ \A t \in Kept : \A r \in scratch.rows[t] : Resolves(t, r, scratch.rows)
      BY DEF PassedIsEvidence
    <2>1. CopyOf(scratch.rows, watch.since)
      BY DEF IInv, DrillInv
    <2>2. ASSUME NEW t \in Kept, NEW r \in scratch.rows[t]
          PROVE  Resolves(t, r, scratch.rows)
      <3>1. r \in Rows[t]
        BY <2>2 DEF IInv, Typed, Scratch, Tables
      <3>2. CASE t = "contacts"
        BY <2>1, <2>2, <3>2, ResolvesIs DEF CopyOf, Linked
      <3>3. CASE t # "contacts"
        BY <3>1, <3>3, OthersResolve, ResolvesIs
      <3> QED
        BY <3>2, <3>3
    <2> QED
      BY <2>1, <2>2 DEF CopyOf
  <1>2. IInv => ReportsAreTrue
    BY <1>1 DEF IInv, RestoreInv, ReportsAreTrue
  <1> QED
    BY <1>2, IInvInductive, PTL DEF Spec

(* A complete file whose tables stood still while it was exported never    *)
(* meets a foreign key error, whatever the CRM, another export or a drill  *)
(* did since (tables.go:43-49).                                            *)
THEOREM QuietFilesRestore == Spec => []QuietExportRestores
  <1>1. IInv => QuietExportRestores
    BY DEF IInv, LinkInv
  <1> QED
    BY <1>1, IInvInductive, PTL DEF Spec

(* Only a commit applies a restore, and it applies what the file names.    *)
LEMMA CommitWrites ==
  ASSUME IInv, RestoreCommit, ~res.applied, res'.applied, NEW t \in Kept
  PROVE  IF t \notin res.env.names THEN live'[t] = live[t]
         ELSE /\ res.env.tables[t] \subseteq live'[t]
              /\ res.mode = "merge" => Ids(live[t]) \subseteq Ids(live'[t])
              /\ res.mode = "replace" => live'[t] = res.env.tables[t]
  <1>1. /\ res.pc = "tables" /\ res.i = 5 /\ res \in RestoreState
        /\ tx.truncated <=> res.mode = "replace"
        /\ res.mode = "replace" => res.env.names = Kept
    BY CommitSplits DEF IInv, Typed, RestoreInv
  <1>2. live' = TxView
    BY <1>1, CommitSplits DEF IInv, Failing, RestoreState
  <1>3. tx.rows[t] = res.env.tables[t]
    <2>1. PICK n \in 1..4 : t = TableNames[n]
      BY Names
    <2>2. tx.rows[TableNames[n]] = IF n < res.i THEN res.env.tables[TableNames[n]] ELSE {}
      BY <1>1 DEF IInv, RestoreInv
    <2> QED
      BY <1>1, <2>1, <2>2
  <1>4. live'[t] = Upsert(IF tx.truncated THEN {} ELSE live[t], res.env.tables[t])
    BY <1>2, <1>3, ViewOf
  <1>5. /\ live[t] \subseteq Rows[t] /\ Keyed(live[t])
        /\ res.env.tables[t] \subseteq Rows[t] /\ Keyed(res.env.tables[t])
    BY DEF IInv, Typed, RestoreState, Envelope, Tables
  <1>6. Keyed({})
    BY DEF Keyed
  <1>7. CASE t \notin res.env.names
    <2>1. res.env.tables[t] = {} /\ ~tx.truncated
      BY <1>1, <1>7 DEF IInv, RestoreInv
    <2> QED
      BY <1>4, <1>5, <1>7, <2>1, UpsertKeeps
  <1>8. CASE t \in res.env.names /\ tx.truncated
    <2>1. live'[t] = res.env.tables[t]
      BY <1>4, <1>5, <1>6, <1>8, UpsertKeeps
    <2> QED
      BY <1>1, <1>8, <2>1
  <1>9. CASE t \in res.env.names /\ ~tx.truncated
    <2>1. /\ res.env.tables[t] \subseteq live'[t]
          /\ Ids(live'[t]) = Ids(live[t]) \cup Ids(res.env.tables[t])
      BY <1>4, <1>5, <1>9, UpsertKeeps
    <2> QED
      BY <1>1, <1>9, <2>1
  <1> QED
    BY <1>7, <1>8, <1>9

LEMMA OnlyCommitApplies ==
  ASSUME IInv, [Next]_vars, ~res.applied, res'.applied
  PROVE  RestoreCommit
  <1>1. res \in RestoreState
    BY DEF IInv, Typed
  <1>2. CASE CRMWrite \/ ExportFrame \/ DrillFrame \/ UNCHANGED vars
    BY <1>2 DEF CRMWrite, ExportFrame, DrillFrame, vars
  <1>3. CASE Crash
    BY <1>3 DEF Crash, Stopped, RestoreIdle
  <1>4. CASE RestoreAny
    <2>1. CASE \E mode \in {"merge", "replace", "other"}, env \in Envelopes : Restore(mode, env)
      BY <1>1, <2>1 DEF Restore, Return, RestoreState
    <2>2. CASE RestoreStarted \/ RestoreBegin \/ TruncateBackupTables \/ RestoreRollback
      BY <1>1, <2>2 DEF RestoreStarted, RestoreBegin, TruncateBackupTables, RestoreRollback,
                        Failing, RestoreState
    <2>3. CASE ApplyTableRows
      BY <1>1, <2>3, ApplySplits DEF IInv, Failing, RestoreState
    <2>4. CASE RestoreFailed \/ RestoreCompleted
      BY <1>1, <2>4 DEF RestoreFailed, RestoreCompleted, Return, RestoreState
    <2> QED
      BY <1>4, <2>1, <2>2, <2>3, <2>4 DEF RestoreAny, RestoreStep
  <1> QED
    BY <1>2, <1>3, <1>4, Frames DEF IInv

(* A restore changes the tables its file names and no other; a merge       *)
(* removes no row and a replace leaves the file's rows (restore.go:63-73). *)
(* A drill changes none but the audit log (scratch.go:80-91).              *)
THEOREM WritesKeepToTheirPurpose == Spec => WritesStayInBounds
  <1>1. Init => IInv
    BY IInvInductive
  <1>2. IInv /\ [Next]_vars => IInv'
    BY IInvInductive
  <1>3. IInv /\ [Next]_vars =>
          [~res.applied /\ res'.applied =>
             \A t \in Kept :
                IF t \notin res.env.names THEN live'[t] = live[t]
                ELSE /\ res.env.tables[t] \subseteq live'[t]
                     /\ res.mode = "merge" => Ids(live[t]) \subseteq Ids(live'[t])
                     /\ res.mode = "replace" => live'[t] = res.env.tables[t]]_vars
    BY OnlyCommitApplies, CommitWrites
  <1>4. IInv /\ [Next]_vars =>
          [drl' # drl => \A t \in Kept \ {"audit_logs"} : live'[t] = live[t]]_vars
    <2> SUFFICES ASSUME IInv, [Next]_vars, drl' # drl, NEW t \in Kept \ {"audit_logs"}
                 PROVE  live'[t] = live[t]
      OBVIOUS
    <2>1. CASE OnlyAudited
      BY <2>1 DEF OnlyAudited
    <2>2. CASE Crash
      BY <2>2 DEF Crash
    <2>3. CASE CRMWrite \/ ExportFrame \/ RestoreFrame \/ UNCHANGED vars
      BY <2>3 DEF CRMWrite, ExportFrame, RestoreFrame, vars
    <2> QED
      BY <2>1, <2>2, <2>3, Frames DEF IInv
  <1>5. Spec => RestoreChangesOnlyWhatIsNamed
    BY <1>1, <1>2, <1>3, PTL DEF Spec, RestoreChangesOnlyWhatIsNamed
  <1>6. Spec => DrillSparesLive
    BY <1>1, <1>2, <1>4, PTL DEF Spec, DrillSparesLive
  <1> QED
    BY <1>5, <1>6, PTL DEF WritesStayInBounds

=============================================================================
