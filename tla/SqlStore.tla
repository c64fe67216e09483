------------------------------ MODULE SqlStore ------------------------------
(***************************************************************************)
(* The PostgreSQL store: what the generated queries of internal/db do to   *)
(* the tables of internal/db/migrations.                                   *)
(*                                                                         *)
(* A store is a function from row ids to rows.  A row keeps what queries   *)
(* look at: its references, its owner (owner_user_id, assigned_to or       *)
(* user_id), its unique key, its state (stage, status or flag) and its     *)
(* tags; val stands for the columns that are only copied.  A call is a     *)
(* record with the arguments of one method of db.Querier; its result is    *)
(* the store afterwards and the answer: rows, a bare success ("ok"), no    *)
(* row ("none", pgx.ErrNoRows) or another error.  Lists are sets of rows:  *)
(* order and paging are left out.                                          *)
(***************************************************************************)
EXTENDS Integers, Sequences, FiniteSets, SequencesExt

Null == 0        \* a NULL column; no row has this id
Unknown == -1    \* an id that no row has

Tables == {"users", "companies", "contacts", "deals", "todos", "notifications", "audit",
           "tokens", "accounts", "messages", "attachments", "appointments", "notes", "calls",
           "articles", "jobs", "workflows", "runs", "invites", "templates"}

(***************************************************************************)
(* Constraints of the schema.  A reference column is named after the table *)
(* it refers to.                                                           *)
(***************************************************************************)
References(t) ==
    CASE t = "contacts" -> {"companies"}
      [] t = "deals" -> {"companies", "contacts"}
      [] t = "todos" -> {"contacts", "deals"}
      [] t = "appointments" -> {"contacts", "companies", "deals"}
      [] t = "calls" -> {"contacts"}
      [] t = "messages" -> {"accounts", "contacts", "deals"}
      [] t = "attachments" -> {"messages"}
      [] t = "runs" -> {"workflows"}
      [] OTHER -> {}

(* Mutant: every reference is set to NULL.                                 *)
CascadesNowhere == {}

(* ON DELETE CASCADE; the other references are set to NULL.                *)
Cascades == {<<"todos", "contacts">>, <<"todos", "deals">>, <<"calls", "contacts">>,
             <<"messages", "accounts">>, <<"attachments", "messages">>, <<"runs", "workflows">>}

(* NOT NULL references and owners.                                         *)
Required == {<<"messages", "accounts">>, <<"attachments", "messages">>, <<"runs", "workflows">>}
OwnerRequired == {"tokens", "invites"}

Keyed == {"users", "workflows", "runs", "invites", "templates", "tokens", "accounts", "messages"}

Ids(s, t) == {i \in DOMAIN s : s[i].t = t}

ReferencesHold(s, r) ==
    /\ \A col \in References(r.t) :
          \/ r.refs[col] \in Ids(s, col)
          \/ r.refs[col] = Null /\ <<r.t, col>> \notin Required
    /\ r.owner \in Ids(s, "users") \/ (r.owner = Null /\ r.t \notin OwnerRequired)

KeyIsFree(s, i, r) == r.t \in Keyed => \A j \in Ids(s, r.t) \ {i} : s[j].key # r.key

Valid(s, i, r) == ReferencesHold(s, r) /\ KeyIsFree(s, i, r)

(***************************************************************************)
(* Statements.                                                             *)
(***************************************************************************)
Result(s, is, found) == [rows |-> s, is |-> is, found |-> found]
Nothing(s, is) == Result(s, is, << >>)

New(c) == [t |-> c.t, refs |-> c.refs, owner |-> c.owner, key |-> c.key, st |-> c.st,
           val |-> 0, tags |-> << >>]

At(s, c) == {i \in Ids(s, c.t) : i = c.id}
ByKey(s, c) == {i \in Ids(s, c.t) : s[i].key = c.key}
OwnedBy(s, c) == {i \in Ids(s, c.t) : c.owner = Null \/ s[i].owner = c.owner}
Referring(s, c, col) == {i \in Ids(s, c.t) : c.id # Null /\ s[i].refs[col] = c.id}

Put(s, i, r) == [j \in DOMAIN s \cup {i} |-> IF j = i THEN r ELSE s[j]]
Set(s, S, F(_)) == [i \in DOMAIN s |-> IF i \in S THEN F(s[i]) ELSE s[i]]

Many(s, S) == Result(s, "rows", [i \in S |-> s[i]])
One(s, S) == IF S = {} THEN Nothing(s, "none") ELSE Many(s, S)

SqlInsert(s, c, r) ==
    IF Valid(s, c.id, r) THEN Many(Put(s, c.id, r), {c.id}) ELSE Nothing(s, "error")

(* UPDATE ... RETURNING, and the plain UPDATE that does not tell whether   *)
(* it found a row.                                                         *)
SqlUpdate(s, S, F(_)) ==
    IF S = {} THEN Nothing(s, "none")
    ELSE IF \A i \in S : Valid(s, i, F(s[i])) THEN Many(Set(s, S, F), S)
    ELSE Nothing(s, "error")

SqlExec(s, S, F(_)) == Nothing(Set(s, S, F), "ok")

Cascaded(s, S) ==
    S \cup {i \in DOMAIN s : \E col \in References(s[i].t) :
               <<s[i].t, col>> \in Cascades /\ s[i].refs[col] \in S}

SqlDelete(s, S) ==
    LET D == Cascaded(s, Cascaded(s, S))
        Unlink(r) == [r EXCEPT !.refs = [col \in DOMAIN @ |->
                        IF col \in References(r.t) /\ @[col] \in D THEN Null ELSE @[col]]]
    IN Nothing([i \in DOMAIN s \ D |-> Unlink(s[i])], "ok")

Touch(r) == [r EXCEPT !.val = 1]
SetState(r, st) == [r EXCEPT !.st = st]
SetOwner(r, owner) == [r EXCEPT !.owner = owner]

(* tags @> new leaves them alone, anything else is appended as it comes.   *)
SqlAppendTags(tags, new) == IF ToSet(new) \subseteq ToSet(tags) THEN tags ELSE tags \o new

(***************************************************************************)
(* users.sql.go                                                            *)
(***************************************************************************)
SqlCreateUser(s, c) == SqlInsert(s, c, New(c))

SqlUserReads(s, c) == IF c.op = "GetByKey" THEN One(s, ByKey(s, c)) ELSE One(s, At(s, c))

SqlListUsers(s, c) == Many(s, Ids(s, c.t))

SqlIncrementUserTokenVersion(s, c) == SqlUpdate(s, At(s, c), Touch)

SqlUserUpdates(s, c) ==
    SqlExec(s, At(s, c), LAMBDA r : IF c.op = "UpdateStatus" THEN SetState(r, c.st) ELSE Touch(r))

SqlUsers(s, c) ==
    CASE c.op = "Create" -> SqlCreateUser(s, c)
      [] c.op \in {"Get", "GetByKey"} -> SqlUserReads(s, c)
      [] c.op = "List" -> SqlListUsers(s, c)
      [] c.op = "IncrementTokenVersion" -> SqlIncrementUserTokenVersion(s, c)
      [] c.op \in {"Update", "UpdateStatus"} -> SqlUserUpdates(s, c)

(* Contacts and companies without an owner, and giving them one.           *)
SqlListUnowned(s, c) == Many(s, {i \in Ids(s, c.t) : s[i].owner = Null})

SqlSetOwner(s, c) == SqlUpdate(s, At(s, c), LAMBDA r : SetOwner(r, c.owner))

(***************************************************************************)
(* invites.sql.go: one statement creates user and invite, one accepts.     *)
(***************************************************************************)
InvitedUser(c) == [New(c) EXCEPT !.t = "users", !.owner = Null, !.key = c.email, !.st = "INVITED"]
InviteOf(c) == [New(c) EXCEPT !.owner = c.id, !.st = "pending"]

SqlCreateInvitedUser(s, c) ==
    LET i == c.id + 1
        both == Put(Put(s, c.id, InvitedUser(c)), i, InviteOf(c))
    IN IF Valid(s, c.id, InvitedUser(c)) /\ KeyIsFree(s, i, InviteOf(c))
       THEN Many(both, {i}) ELSE Nothing(s, "error")

SqlAcceptUserInvite(s, c) ==
    LET locked == {i \in ByKey(s, c) : s[i].st = "pending"}
        users == {u \in Ids(s, "users") : \E i \in locked : s[i].owner = u}
        accepted == Set(s, locked \cup users,
                        LAMBDA r : SetState(r, IF r.t = "users" THEN "ACTIVE" ELSE "consumed"))
    IN One(accepted, users)

SqlCreateUserInvite(s, c) == SqlInsert(s, c, New(c))

SqlInviteReads(s, c) == IF c.op = "List" THEN Many(s, Ids(s, c.t)) ELSE One(s, ByKey(s, c))

SqlRevokeUserInvite(s, c) ==
    SqlExec(s, {i \in At(s, c) : s[i].st # "consumed"}, LAMBDA r : SetState(r, "revoked"))

SqlInvites(s, c) ==
    CASE c.op = "CreateInvited" -> SqlCreateInvitedUser(s, c)
      [] c.op = "Accept" -> SqlAcceptUserInvite(s, c)
      [] c.op = "Create" -> SqlCreateUserInvite(s, c)
      [] c.op \in {"List", "GetByKey"} -> SqlInviteReads(s, c)
      [] c.op = "Revoke" -> SqlRevokeUserInvite(s, c)

(***************************************************************************)
(* sessions.sql.go: refresh tokens, found by their hash.                   *)
(***************************************************************************)
SqlConsumeRefreshToken(s, c) ==
    SqlUpdate(s, {i \in ByKey(s, c) : s[i].st = "fresh"}, LAMBDA r : SetState(r, "used"))

SqlCreateRefreshToken(s, c) == SqlInsert(s, c, New(c))

TokensOf(s, c) == {i \in Ids(s, c.t) : s[i].owner = c.owner}
FamilyOf(s, c) == {i \in Ids(s, c.t) : s[i].refs["family"] = c.id}

SqlTokenDeletes(s, c) ==
    SqlDelete(s, CASE c.op = "Delete" -> ByKey(s, c)
                   [] c.op = "DeleteOfUser" -> TokensOf(s, c)
                   [] c.op = "DeleteFamily" -> FamilyOf(s, c)
                   [] c.op = "DeleteExpired" -> {i \in Ids(s, c.t) : s[i].st \in {"expired", "spent"}})

SqlTokenReads(s, c) ==
    One(s, {i \in ByKey(s, c) : c.op = "GetByHash" \/ s[i].st # "expired"})

SqlTokens(s, c) ==
    CASE c.op = "Consume" -> SqlConsumeRefreshToken(s, c)
      [] c.op = "Create" -> SqlCreateRefreshToken(s, c)
      [] c.op \in {"Get", "GetByHash"} -> SqlTokenReads(s, c)
      [] OTHER -> SqlTokenDeletes(s, c)

(***************************************************************************)
(* notifications.sql.go and audit.sql.go                                   *)
(***************************************************************************)
SqlCreateNotification(s, c) == SqlInsert(s, c, New(c))

(* user_id = $1 OR user_id IS NULL: without a user only those for all.     *)
SqlForUser(s, c) == {i \in Ids(s, c.t) : s[i].owner \in {c.owner, Null}}

SqlNotificationReads(s, c) ==
    Many(s, {i \in SqlForUser(s, c) : c.op = "List" \/ s[i].st = "unread"})

SqlNotificationUpdates(s, c) ==
    SqlExec(s, IF c.op = "MarkAll" THEN SqlForUser(s, c) ELSE At(s, c),
            LAMBDA r : SetState(r, "read"))

SqlNotifications(s, c) ==
    CASE c.op = "Create" -> SqlCreateNotification(s, c)
      [] c.op \in {"List", "ListUnread"} -> SqlNotificationReads(s, c)
      [] c.op \in {"MarkAll", "MarkRead"} -> SqlNotificationUpdates(s, c)

SqlCreateAuditLog(s, c) == SqlInsert(s, c, New(c))

(* The newest row is the one with the largest id.                          *)
Newest(S) == {i \in S : \A j \in S : j <= i}
Hashed(s, c) == {i \in Ids(s, c.t) : s[i].key # ""}

SqlAuditReads(s, c) ==
    IF c.op = "LatestHash" THEN One(s, Newest(Hashed(s, c))) ELSE Many(s, Ids(s, c.t))

SqlAudit(s, c) == IF c.op = "Create" THEN SqlCreateAuditLog(s, c) ELSE SqlAuditReads(s, c)

(***************************************************************************)
(* companies.sql.go and contacts.sql.go.  INSERT and UPDATE leave the      *)
(* owner alone.                                                            *)
(***************************************************************************)
Unowned(c) == SetOwner(New(c), Null)
WithRefs(r, refs) == [Touch(r) EXCEPT !.refs = refs]

SqlCompanyRows(s, c) ==
    IF c.op = "Create" THEN SqlInsert(s, c, Unowned(c)) ELSE SqlDelete(s, At(s, c))

SqlCompanyReads(s, c) == IF c.op = "Get" THEN One(s, At(s, c)) ELSE Many(s, OwnedBy(s, c))

SqlUpdateCompany(s, c) == SqlUpdate(s, At(s, c), Touch)

SqlCompanies(s, c) ==
    CASE c.op \in {"Create", "Delete"} -> SqlCompanyRows(s, c)
      [] c.op \in {"Get", "List"} -> SqlCompanyReads(s, c)
      [] c.op = "Update" -> SqlUpdateCompany(s, c)
      [] c.op = "ListUnowned" -> SqlListUnowned(s, c)
      [] c.op = "SetOwner" -> SqlSetOwner(s, c)

SqlContactRows(s, c) ==
    IF c.op = "Create" THEN SqlInsert(s, c, Unowned(c)) ELSE SqlDelete(s, At(s, c))

SqlContactReads(s, c) ==
    CASE c.op = "Get" -> One(s, At(s, c))
      [] c.op = "List" -> Many(s, OwnedBy(s, c))
      [] c.op = "ListByCompany" -> Many(s, Referring(s, c, "companies"))

(* Searching matches columns that val stands for.                          *)
SqlSearchContacts(s, c) == Many(s, {i \in OwnedBy(s, c) : s[i].val = 1})

SqlContactUpdates(s, c) ==
    SqlUpdate(s, At(s, c), LAMBDA r :
        IF c.op = "Update" THEN WithRefs(r, c.refs)
        ELSE [r EXCEPT !.tags = SqlAppendTags(@, c.tags)])

SqlContacts(s, c) ==
    CASE c.op \in {"Create", "Delete"} -> SqlContactRows(s, c)
      [] c.op \in {"Get", "List", "ListByCompany"} -> SqlContactReads(s, c)
      [] c.op = "Search" -> SqlSearchContacts(s, c)
      [] c.op \in {"Update", "UpdateTags"} -> SqlContactUpdates(s, c)
      [] c.op = "ListUnowned" -> SqlListUnowned(s, c)
      [] c.op = "SetOwner" -> SqlSetOwner(s, c)

(***************************************************************************)
(* deals.sql.go: every write but the revocation itself excludes revoked    *)
(* deals.                                                                  *)
(***************************************************************************)
Revoked == "WIDERRUFEN"
(* Mutant: revoked deals are open.                                         *)
OpenAlways(s, c) == At(s, c)

Open(s, c) == {i \in At(s, c) : s[i].st # Revoked}

SqlDealRows(s, c) ==
    CASE c.op = "Create" -> SqlInsert(s, c, New(c))
      [] c.op = "Delete" -> IF Open(s, c) = {} THEN Nothing(s, "none") ELSE SqlDelete(s, Open(s, c))

SqlDealReads(s, c) ==
    CASE c.op = "Get" -> One(s, At(s, c))
      [] c.op = "List" -> Many(s, OwnedBy(s, c))
      [] c.op = "ListByStage" -> Many(s, {i \in OwnedBy(s, c) : s[i].st = c.st})

(* A second revocation keeps the first one's date and reason.              *)
SqlRevokeDeal(s, c) ==
    SqlUpdate(s, At(s, c), LAMBDA r : IF r.st = Revoked THEN r ELSE SetState(Touch(r), Revoked))

SqlDealUpdates(s, c) ==
    SqlUpdate(s, Open(s, c), LAMBDA r :
        CASE c.op = "Update" -> SetState(SetOwner(WithRefs(r, c.refs), c.owner), c.st)
          [] c.op = "UpdateStage" -> SetState(r, c.st)
          [] c.op = "UpdateTags" -> [r EXCEPT !.tags = SqlAppendTags(@, c.tags)])

SqlDeals(s, c) ==
    CASE c.op \in {"Create", "Delete"} -> SqlDealRows(s, c)
      [] c.op \in {"Get", "List", "ListByStage"} -> SqlDealReads(s, c)
      [] c.op = "Revoke" -> SqlRevokeDeal(s, c)
      [] OTHER -> SqlDealUpdates(s, c)

(***************************************************************************)
(* todos.sql.go, appointments.sql.go, notes.sql.go, call_activities.sql.go *)
(***************************************************************************)
SqlTodoRows(s, c) == IF c.op = "Create" THEN SqlInsert(s, c, New(c)) ELSE SqlDelete(s, At(s, c))

SqlTodoReads(s, c) ==
    CASE c.op = "Get" -> One(s, At(s, c))
      [] c.op = "List" -> Many(s, OwnedBy(s, c))
      [] c.op = "ListByAssignee" -> Many(s, {i \in OwnedBy(s, c) : c.owner # Null})

SqlTodoUpdates(s, c) ==
    SqlUpdate(s, At(s, c), LAMBDA r :
        IF c.op = "Update" THEN SetState(SetOwner(WithRefs(r, c.refs), c.owner), c.st)
        ELSE SetState(r, c.st))

SqlTodos(s, c) ==
    CASE c.op \in {"Create", "Delete"} -> SqlTodoRows(s, c)
      [] c.op \in {"Get", "List", "ListByAssignee"} -> SqlTodoReads(s, c)
      [] c.op \in {"Update", "UpdateStatus"} -> SqlTodoUpdates(s, c)

SqlAppointmentRows(s, c) ==
    IF c.op = "Create" THEN SqlInsert(s, c, New(c)) ELSE SqlDelete(s, At(s, c))

SqlAppointmentReads(s, c) == IF c.op = "Get" THEN One(s, At(s, c)) ELSE Many(s, OwnedBy(s, c))

(* An update changes the contact and keeps company, deal and user.         *)
SqlAppointmentUpdates(s, c) ==
    SqlUpdate(s, At(s, c), LAMBDA r :
        IF c.op = "Update" THEN [Touch(r) EXCEPT !.refs["contacts"] = c.refs["contacts"]]
        ELSE SetState(r, c.st))

SqlAppointments(s, c) ==
    CASE c.op \in {"Create", "Delete"} -> SqlAppointmentRows(s, c)
      [] c.op \in {"Get", "List"} -> SqlAppointmentReads(s, c)
      [] c.op \in {"Update", "UpdatePushStatus"} -> SqlAppointmentUpdates(s, c)

(* The key of a note is its entity type; its entity is no foreign key.     *)
SqlNoteRows(s, c) == IF c.op = "Create" THEN SqlInsert(s, c, New(c)) ELSE SqlDelete(s, At(s, c))

SqlNoteReads(s, c) ==
    CASE c.op = "Get" -> One(s, At(s, c))
      [] c.op = "List" -> Many(s, OwnedBy(s, c))
      [] c.op = "ListByEntity" ->
            Many(s, {i \in OwnedBy(s, c) : s[i].key = c.key /\ s[i].refs["entity"] = c.id})

SqlUpdateNote(s, c) == SqlUpdate(s, At(s, c), Touch)

SqlNotes(s, c) ==
    CASE c.op \in {"Create", "Delete"} -> SqlNoteRows(s, c)
      [] c.op \in {"Get", "List", "ListByEntity"} -> SqlNoteReads(s, c)
      [] c.op = "Update" -> SqlUpdateNote(s, c)

SqlCreateCallActivity(s, c) == SqlInsert(s, c, New(c))

SqlCallReads(s, c) == Many(s, IF c.op = "List" THEN Ids(s, c.t) ELSE Referring(s, c, "contacts"))

SqlCalls(s, c) == IF c.op = "Create" THEN SqlCreateCallActivity(s, c) ELSE SqlCallReads(s, c)

(***************************************************************************)
(* knowledge_base.sql.go, ai_research_jobs.sql.go, workflows.sql.go and    *)
(* email_templates.sql.go.  The state of an article is its index, ids of   *)
(* workflows and runs and keys of templates are the caller's.              *)
(***************************************************************************)
SqlArticleRows(s, c) == IF c.op = "Create" THEN SqlInsert(s, c, New(c)) ELSE SqlDelete(s, At(s, c))

SqlArticleReads(s, c) ==
    CASE c.op = "Get" -> One(s, At(s, c))
      [] c.op = "List" -> Many(s, Ids(s, c.t))
      [] c.op = "Search" -> Many(s, {i \in Ids(s, c.t) : s[i].st = "indexed"})

SqlUpdateKBArticleEmbedding(s, c) == SqlExec(s, At(s, c), LAMBDA r : SetState(r, "indexed"))

SqlArticles(s, c) ==
    CASE c.op \in {"Create", "Delete"} -> SqlArticleRows(s, c)
      [] c.op \in {"Get", "List", "Search"} -> SqlArticleReads(s, c)
      [] c.op = "UpdateStatus" -> SqlUpdateKBArticleEmbedding(s, c)

SqlCreateAIResearchJob(s, c) == SqlInsert(s, c, New(c))
SqlJobReads(s, c) == IF c.op = "Get" THEN One(s, At(s, c)) ELSE Many(s, Ids(s, c.t))
SqlUpdateAIResearchJobStatus(s, c) == SqlUpdate(s, At(s, c), LAMBDA r : SetState(r, c.st))

SqlJobs(s, c) ==
    CASE c.op = "Create" -> SqlCreateAIResearchJob(s, c)
      [] c.op \in {"Get", "List"} -> SqlJobReads(s, c)
      [] c.op = "UpdateStatus" -> SqlUpdateAIResearchJobStatus(s, c)

SqlWorkflowCreates(s, c) == SqlInsert(s, c, New(c))
SqlWorkflowReads(s, c) == IF c.op = "GetByKey" THEN One(s, ByKey(s, c)) ELSE Many(s, Ids(s, c.t))
SqlUpdateWorkflowRunStatus(s, c) == SqlUpdate(s, ByKey(s, c), LAMBDA r : SetState(r, c.st))

SqlWorkflows(s, c) ==
    CASE c.op = "Create" -> SqlWorkflowCreates(s, c)
      [] c.op \in {"GetByKey", "List"} -> SqlWorkflowReads(s, c)
      [] c.op = "UpdateStatus" -> SqlUpdateWorkflowRunStatus(s, c)

SqlTemplateRows(s, c) == IF c.op = "Create" THEN SqlInsert(s, c, New(c)) ELSE SqlDelete(s, ByKey(s, c))
SqlTemplateReads(s, c) == IF c.op = "GetByKey" THEN One(s, ByKey(s, c)) ELSE Many(s, Ids(s, c.t))
SqlUpdateEmailTemplate(s, c) == SqlUpdate(s, ByKey(s, c), Touch)

SqlTemplates(s, c) ==
    CASE c.op \in {"Create", "Delete"} -> SqlTemplateRows(s, c)
      [] c.op \in {"GetByKey", "List"} -> SqlTemplateReads(s, c)
      [] c.op = "Update" -> SqlUpdateEmailTemplate(s, c)

(***************************************************************************)
(* emails.sql.go: accounts, messages (the key is the Message-ID header)    *)
(* and attachments.  A draft is a message that was touched.                *)
(***************************************************************************)
SqlCreateEmailAccount(s, c) == SqlInsert(s, c, New(c))
SqlDeleteEmailAccount(s, c) == SqlDelete(s, At(s, c))

SqlAccountReads(s, c) ==
    IF c.op = "Get" THEN One(s, At(s, c))
    ELSE Many(s, {i \in OwnedBy(s, c) : s[i].st = "active"})

SqlAccountUpdates(s, c) ==
    IF c.op = "Update" THEN SqlUpdate(s, At(s, c), LAMBDA r : SetState(r, c.st))
    ELSE SqlExec(s, At(s, c), Touch)

SqlAccounts(s, c) ==
    CASE c.op = "Create" -> SqlCreateEmailAccount(s, c)
      [] c.op = "Delete" -> SqlDeleteEmailAccount(s, c)
      [] c.op \in {"Get", "List"} -> SqlAccountReads(s, c)
      [] c.op \in {"Update", "UpdateSyncState"} -> SqlAccountUpdates(s, c)

SqlCreateEmailMessage(s, c) == SqlInsert(s, c, New(c))
SqlCreateDraftEmailMessage(s, c) == SqlInsert(s, c, Touch(New(c)))

SqlMessageReads(s, c) ==
    CASE c.op = "Get" -> One(s, At(s, c))
      [] c.op = "List" -> Many(s, Ids(s, c.t))
      [] c.op = "ListByThread" -> Many(s, {i \in Ids(s, c.t) : s[i].refs["thread"] = c.id})

SqlMarkEmailMessageRead(s, c) == SqlExec(s, At(s, c), LAMBDA r : SetState(r, "read"))

SqlUpdateEmailMessageTags(s, c) == SqlUpdate(s, At(s, c), LAMBDA r : [r EXCEPT !.tags = c.tags])

SqlMessages(s, c) ==
    CASE c.op = "Create" -> SqlCreateEmailMessage(s, c)
      [] c.op = "CreateDraft" -> SqlCreateDraftEmailMessage(s, c)
      [] c.op \in {"Get", "List", "ListByThread"} -> SqlMessageReads(s, c)
      [] c.op = "MarkRead" -> SqlMarkEmailMessageRead(s, c)
      [] c.op = "UpdateTags" -> SqlUpdateEmailMessageTags(s, c)

SqlCreateEmailAttachment(s, c) == SqlInsert(s, c, New(c))
SqlListEmailAttachments(s, c) == Many(s, Referring(s, c, "messages"))

SqlAttachments(s, c) ==
    IF c.op = "Create" THEN SqlCreateEmailAttachment(s, c) ELSE SqlListEmailAttachments(s, c)

SqlCall(s, c) ==
    CASE c.t = "users" -> SqlUsers(s, c)
      [] c.t = "invites" -> SqlInvites(s, c)
      [] c.t = "tokens" -> SqlTokens(s, c)
      [] c.t = "notifications" -> SqlNotifications(s, c)
      [] c.t = "audit" -> SqlAudit(s, c)
      [] c.t = "companies" -> SqlCompanies(s, c)
      [] c.t = "contacts" -> SqlContacts(s, c)
      [] c.t = "deals" -> SqlDeals(s, c)
      [] c.t = "todos" -> SqlTodos(s, c)
      [] c.t = "appointments" -> SqlAppointments(s, c)
      [] c.t = "notes" -> SqlNotes(s, c)
      [] c.t = "calls" -> SqlCalls(s, c)
      [] c.t = "articles" -> SqlArticles(s, c)
      [] c.t = "jobs" -> SqlJobs(s, c)
      [] c.t \in {"workflows", "runs"} -> SqlWorkflows(s, c)
      [] c.t = "templates" -> SqlTemplates(s, c)
      [] c.t = "accounts" -> SqlAccounts(s, c)
      [] c.t = "messages" -> SqlMessages(s, c)
      [] c.t = "attachments" -> SqlAttachments(s, c)

(***************************************************************************)
(* A call also gives the columns that val stands for.  Each fits its       *)
(* column, or is "foreign" to the column's type (a word outside an enum,   *)
(* malformed JSON), or is a "misfit" of the type: NULL in a NOT NULL       *)
(* column, a text longer than the column, a number or a vector out of      *)
(* bounds.  PostgreSQL refuses a foreign value before it looks for rows, a *)
(* misfit when it writes one.  An empty snapshot of a run, which the demo  *)
(* store takes for "keep the old one", is one: the column is NOT NULL.     *)
(***************************************************************************)
Inserts == {"Create", "CreateDraft", "CreateInvited"}

MayMisfit(c) ==
    \/ c.op \in Inserts /\ ~(c.t = "invites" /\ c.op = "Create")
    \/ c.op \in {"Update", "UpdateStage"}
    \/ c.op = "UpdateStatus" /\ c.t \in {"articles", "jobs", "runs"}

MayBeForeign(c) ==
    \/ c.op \in {"Update", "UpdateStatus"} /\ c.t \in {"users", "todos", "jobs", "runs"}
    \/ c.op = "Update" /\ c.t \in {"companies", "contacts", "deals"}

Values(c) ==
    {"fits"} \cup {v \in {"misfit"} : MayMisfit(c)} \cup {v \in {"foreign"} : MayBeForeign(c)}

Found(s, c) ==
    IF c.t \in {"runs", "templates"} THEN ByKey(s, c)
    ELSE IF c.t = "deals" THEN Open(s, c) ELSE At(s, c)

SqlRefuses(s, c, v) ==
    v = "foreign" \/ (v = "misfit" /\ (c.op \in Inserts \/ Found(s, c) # {}))

SqlAnswer(s, c, v) == IF SqlRefuses(s, c, v) THEN Nothing(s, "error") ELSE SqlCall(s, c)
=============================================================================
