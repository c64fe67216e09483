----------------------------- MODULE DemoStore -----------------------------
(***************************************************************************)
(* The demo store (internal/db/demo): the methods of db.Querier on maps,   *)
(* which the server runs on instead of PostgreSQL in demo mode and which   *)
(* most tests of the repository run on.  It has no constraints: every      *)
(* method states for itself what the schema states once.  The module runs  *)
(* either store and compares the two on every call.                        *)
(***************************************************************************)
EXTENDS SqlStore

CONSTANTS Scopes      \* which tables a behaviour uses: [tables, seeded, calls]

ASSUME ScopesAssumption == Scopes \subseteq [tables : SUBSET Tables, seeded : BOOLEAN, calls : Nat]

VARIABLES rows,       \* the store
          next,       \* the next id, newUUID()
          scope,      \* the tables in use, and how many calls are left
          engine,     \* "demo" or "sql"
          strayed,    \* some call was answered in a way the database would not
          shadow,     \* the copy RunTx works on, or NoTx
          expected    \* what the transaction would have done to rows

vars == <<rows, next, scope, engine, strayed, shadow, expected>>

NoTx == << >>

(***************************************************************************)
(* What the methods are made of.  A map whose key the caller chooses is    *)
(* written without a look at what was there.                               *)
(***************************************************************************)
DemoInsert(s, c, r) == Many(Put(s, c.id, r), {c.id})

DemoPut(s, c, r) ==
    LET i == IF ByKey(s, c) = {} THEN c.id ELSE CHOOSE j \in ByKey(s, c) : TRUE
    IN Many(Put(s, i, r), {i})

DemoUpdate(s, S, F(_)) == IF S = {} THEN Nothing(s, "none") ELSE Many(Set(s, S, F), S)
DemoSet(s, S, F(_)) == Nothing(Set(s, S, F), "ok")
DemoDelete(s, S) == Nothing([i \in DOMAIN s \ S |-> s[i]], "ok")

(* strings.EqualFold; "A" and "a" stand for two spellings of one string.   *)
Fold(k) == IF k = "A" THEN "a" ELSE k
ByFold(s, t, k) == {i \in Ids(s, t) : Fold(s[i].key) = Fold(k)}

(***************************************************************************)
(* Users.  "legacy" is the old name of "a".                                *)
(***************************************************************************)
DemoCreateUser(s, c) ==
    IF ByFold(s, c.t, c.key) # {} THEN Nothing(s, "error") ELSE DemoInsert(s, c, New(c))

DemoGetUserByEmail(s, c) ==
    LET found == ByFold(s, c.t, c.key)
    IN One(s, IF found = {} /\ c.key = "legacy" THEN ByFold(s, c.t, "a") ELSE found)

DemoUserReads(s, c) == IF c.op = "Get" THEN One(s, At(s, c)) ELSE Many(s, Ids(s, c.t))

DemoUserUpdates(s, c) ==
    IF At(s, c) = {} THEN Nothing(s, "none")
    ELSE DemoSet(s, At(s, c), LAMBDA r : IF c.op = "UpdateStatus" THEN SetState(r, c.st) ELSE Touch(r))

DemoIncrementUserTokenVersion(s, c) == DemoUpdate(s, At(s, c), Touch)

DemoUsers(s, c) ==
    CASE c.op = "Create" -> DemoCreateUser(s, c)
      [] c.op = "GetByKey" -> DemoGetUserByEmail(s, c)
      [] c.op \in {"Get", "List"} -> DemoUserReads(s, c)
      [] c.op \in {"Update", "UpdateStatus"} -> DemoUserUpdates(s, c)
      [] c.op = "IncrementTokenVersion" -> DemoIncrementUserTokenVersion(s, c)

(***************************************************************************)
(* Invites and refresh tokens.                                             *)
(***************************************************************************)
DemoCreateInvitedUser(s, c) ==
    IF ByFold(s, "users", c.email) # {} \/ ByKey(s, c) # {} THEN Nothing(s, "error")
    ELSE Many(Put(Put(s, c.id, InvitedUser(c)), c.id + 1, InviteOf(c)), {c.id + 1})

(* Mutant: an invite of the same user is consumed, not the presented one.  *)
DemoAcceptAnyInvite(s, c) ==
    LET same == {i \in Ids(s, c.t) : \E j \in ByKey(s, c) : s[j].st = "pending" /\ s[i].owner = s[j].owner}
        locked == {i \in same : \A j \in same : i <= j}
        users == {u \in Ids(s, "users") : \E i \in locked : s[i].owner = u}
    IN IF same = {} THEN Nothing(s, "none")
       ELSE DemoUpdate(Set(s, locked, LAMBDA r : SetState(r, "consumed")), users,
                       LAMBDA r : SetState(r, "ACTIVE"))

DemoAcceptUserInvite(s, c) ==
    LET locked == {i \in ByKey(s, c) : s[i].st = "pending"}
        consumed == Set(s, locked, LAMBDA r : SetState(r, "consumed"))
        users == {u \in Ids(s, "users") : \E i \in locked : s[i].owner = u}
    IN IF locked = {} THEN Nothing(s, "none")
       ELSE DemoUpdate(consumed, users, LAMBDA r : SetState(r, "ACTIVE"))

DemoInviteRows(s, c) ==
    CASE c.op = "Create" -> IF ByKey(s, c) # {} THEN Nothing(s, "error") ELSE DemoInsert(s, c, New(c))
      [] c.op = "GetByKey" -> One(s, ByKey(s, c))
      [] c.op = "Revoke" -> DemoSet(s, {i \in At(s, c) : s[i].st # "consumed"},
                                    LAMBDA r : SetState(r, "revoked"))
      [] c.op = "List" -> Many(s, Ids(s, c.t))

DemoInvites(s, c) ==
    CASE c.op = "CreateInvited" -> DemoCreateInvitedUser(s, c)
      [] c.op = "Accept" -> DemoAcceptUserInvite(s, c)
      [] OTHER -> DemoInviteRows(s, c)

DemoConsumeRefreshToken(s, c) ==
    DemoUpdate(s, {i \in ByKey(s, c) : s[i].st \notin {"used", "spent", "expired"}},
               LAMBDA r : SetState(r, "used"))

DemoTokenDeletes(s, c) ==
    DemoDelete(s, CASE c.op = "Delete" -> ByKey(s, c)
                    [] c.op = "DeleteOfUser" -> {i \in TokensOf(s, c) : c.owner # Null}
                    [] c.op = "DeleteFamily" -> {i \in FamilyOf(s, c) : c.id # Null}
                    [] c.op = "DeleteExpired" -> {i \in Ids(s, c.t) : s[i].st \in {"expired", "spent"}})

DemoTokenReads(s, c) == One(s, {i \in ByKey(s, c) : c.op = "GetByHash" \/ s[i].st # "expired"})

DemoTokens(s, c) ==
    CASE c.op = "Create" -> DemoPut(s, c, New(c))
      [] c.op = "Consume" -> DemoConsumeRefreshToken(s, c)
      [] c.op \in {"Get", "GetByHash"} -> DemoTokenReads(s, c)
      [] OTHER -> DemoTokenDeletes(s, c)

(***************************************************************************)
(* Notifications and the audit log, newest entry first.                    *)
(***************************************************************************)
DemoForUser(s, c) == {i \in Ids(s, c.t) : c.owner = Null \/ s[i].owner \in {Null, c.owner}}

DemoNotifications(s, c) ==
    CASE c.op = "Create" -> DemoInsert(s, c, New(c))
      [] c.op = "List" -> Many(s, DemoForUser(s, c))
      [] c.op = "ListUnread" -> Many(s, {i \in DemoForUser(s, c) : s[i].st # "read"})
      [] c.op = "MarkAll" -> DemoSet(s, DemoForUser(s, c), LAMBDA r : SetState(r, "read"))
      [] c.op = "MarkRead" -> DemoSet(s, At(s, c), LAMBDA r : SetState(r, "read"))

DemoAudit(s, c) ==
    CASE c.op = "Create" -> DemoInsert(s, c, New(c))
      [] c.op = "LatestHash" -> Many(s, Newest(Hashed(s, c)))
      [] c.op = "List" -> Many(s, Ids(s, c.t))

(***************************************************************************)
(* Companies, contacts and deals.                                          *)
(***************************************************************************)
DemoCompanyRows(s, c) ==
    CASE c.op = "Create" -> DemoInsert(s, c, Unowned(c))
      [] c.op = "Delete" -> DemoDelete(s, At(s, c))
      [] c.op = "Get" -> One(s, At(s, c))
      [] c.op = "List" -> Many(s, OwnedBy(s, c))

DemoCompanyUpdates(s, c) ==
    CASE c.op = "Update" -> DemoUpdate(s, At(s, c), Touch)
      [] c.op = "ListUnowned" -> Many(s, {i \in Ids(s, c.t) : s[i].owner = Null})
      [] c.op = "SetOwner" -> DemoUpdate(s, At(s, c), LAMBDA r : SetOwner(r, c.owner))

DemoCompanies(s, c) ==
    IF c.op \in {"Update", "ListUnowned", "SetOwner"}
    THEN DemoCompanyUpdates(s, c) ELSE DemoCompanyRows(s, c)

DemoContactRows(s, c) ==
    CASE c.op = "Create" -> DemoInsert(s, c, Unowned(c))
      [] c.op = "Delete" -> DemoDelete(s, At(s, c))
      [] c.op = "Get" -> One(s, At(s, c))
      [] c.op = "List" -> Many(s, OwnedBy(s, c))
      [] c.op = "ListByCompany" -> Many(s, Referring(s, c, "companies"))
      [] c.op = "Search" -> Many(s, {i \in OwnedBy(s, c) : s[i].val = 1})
      [] c.op = "Update" -> DemoUpdate(s, At(s, c), LAMBDA r : WithRefs(r, c.refs))

(* appendJSONTagsDedup                                                     *)
DemoAppendTags(tags, new) ==
    LET appended[i \in 0 .. Len(new)] ==
            IF i = 0 THEN tags
            ELSE IF new[i] \in ToSet(appended[i - 1]) THEN appended[i - 1]
            ELSE appended[i - 1] \o <<new[i]>>
    IN appended[Len(new)]
DemoTagged(r, c) == [r EXCEPT !.tags = DemoAppendTags(@, c.tags)]

DemoContactOwners(s, c) ==
    IF c.op = "ListUnowned" THEN Many(s, {i \in Ids(s, c.t) : s[i].owner = Null})
    ELSE DemoUpdate(s, At(s, c), LAMBDA r : SetOwner(r, c.owner))

DemoContacts(s, c) ==
    CASE c.op = "UpdateTags" -> DemoUpdate(s, At(s, c), LAMBDA r : DemoTagged(r, c))
      [] c.op \in {"ListUnowned", "SetOwner"} -> DemoContactOwners(s, c)
      [] OTHER -> DemoContactRows(s, c)

DemoDealRows(s, c) ==
    CASE c.op = "Create" -> DemoInsert(s, c, New(c))
      [] c.op = "Delete" -> IF Open(s, c) = {} THEN Nothing(s, "none") ELSE DemoDelete(s, At(s, c))
      [] c.op = "Get" -> One(s, At(s, c))
      [] c.op = "List" -> Many(s, OwnedBy(s, c))
      [] c.op = "ListByStage" -> Many(s, {i \in OwnedBy(s, c) : s[i].st = c.st})

DemoDealUpdates(s, c) ==
    CASE c.op = "Update" -> DemoUpdate(s, Open(s, c), LAMBDA r :
                                SetState(SetOwner(WithRefs(r, c.refs), c.owner), c.st))
      [] c.op = "UpdateStage" -> DemoUpdate(s, Open(s, c), LAMBDA r : SetState(r, c.st))
      [] c.op = "Revoke" -> DemoUpdate(s, At(s, c), LAMBDA r :
                                IF r.st = Revoked THEN r ELSE SetState(Touch(r), Revoked))
      [] c.op = "UpdateTags" -> DemoUpdate(s, Open(s, c), LAMBDA r : DemoTagged(r, c))

DemoDeals(s, c) ==
    IF c.op \in {"Update", "UpdateStage", "Revoke", "UpdateTags"}
    THEN DemoDealUpdates(s, c) ELSE DemoDealRows(s, c)

(***************************************************************************)
(* Todos, appointments, notes, calls.                                      *)
(***************************************************************************)
DemoTodos(s, c) ==
    CASE c.op = "Create" -> DemoInsert(s, c, New(c))
      [] c.op = "Delete" -> DemoDelete(s, At(s, c))
      [] c.op = "Get" -> One(s, At(s, c))
      [] c.op = "List" -> Many(s, OwnedBy(s, c))
      [] c.op = "ListByAssignee" -> Many(s, {i \in Ids(s, c.t) : s[i].owner = c.owner /\ c.owner # Null})
      [] c.op = "Update" -> DemoUpdate(s, At(s, c), LAMBDA r :
                                SetState(SetOwner(WithRefs(r, c.refs), c.owner), c.st))
      [] c.op = "UpdateStatus" -> DemoUpdate(s, At(s, c), LAMBDA r : SetState(r, c.st))

DemoAppointments(s, c) ==
    CASE c.op = "Create" -> DemoInsert(s, c, New(c))
      [] c.op = "Get" -> One(s, At(s, c))
      [] c.op = "List" -> Many(s, OwnedBy(s, c))
      [] c.op = "Update" -> DemoUpdate(s, At(s, c), LAMBDA r :
                                [Touch(r) EXCEPT !.refs["contacts"] = c.refs["contacts"]])
      [] c.op = "UpdatePushStatus" -> DemoUpdate(s, At(s, c), LAMBDA r : SetState(r, c.st))
      [] c.op = "Delete" -> DemoDelete(s, At(s, c))

DemoNotes(s, c) ==
    CASE c.op = "Create" -> DemoInsert(s, c, New(c))
      [] c.op = "Get" -> One(s, At(s, c))
      [] c.op = "List" -> Many(s, OwnedBy(s, c))
      [] c.op = "ListByEntity" -> Many(s, {i \in OwnedBy(s, c) \cap ByFold(s, c.t, c.key) :
                                              s[i].refs["entity"] = c.id})
      [] c.op = "Update" -> DemoUpdate(s, At(s, c), Touch)
      [] c.op = "Delete" -> DemoDelete(s, At(s, c))

DemoCalls(s, c) ==
    CASE c.op = "Create" -> DemoInsert(s, c, New(c))
      [] c.op = "ListByContact" -> Many(s, {i \in Ids(s, c.t) : s[i].refs["contacts"] = c.id})
      [] c.op = "List" -> Many(s, Ids(s, c.t))

(***************************************************************************)
(* Articles, research jobs, workflows and their runs, templates.           *)
(***************************************************************************)
DemoArticles(s, c) ==
    CASE c.op = "Create" -> DemoInsert(s, c, New(c))
      [] c.op = "Get" -> One(s, At(s, c))
      [] c.op = "List" -> Many(s, Ids(s, c.t))
      [] c.op = "UpdateStatus" -> IF At(s, c) = {} THEN Nothing(s, "none")
                                  ELSE DemoSet(s, At(s, c), LAMBDA r : SetState(r, "indexed"))
      [] c.op = "Search" -> Many(s, {i \in Ids(s, c.t) : s[i].st = "indexed"})
      [] c.op = "Delete" -> DemoDelete(s, At(s, c))

DemoJobs(s, c) ==
    CASE c.op = "Create" -> DemoInsert(s, c, New(c))
      [] c.op = "Get" -> One(s, At(s, c))
      [] c.op = "List" -> Many(s, Ids(s, c.t))
      [] c.op = "UpdateStatus" -> DemoUpdate(s, At(s, c), LAMBDA r : SetState(r, c.st))

DemoWorkflows(s, c) ==
    CASE c.op = "Create" -> DemoPut(s, c, New(c))
      [] c.op = "GetByKey" -> One(s, ByKey(s, c))
      [] c.op = "List" -> Many(s, Ids(s, c.t))
      [] c.op = "UpdateStatus" -> DemoUpdate(s, ByKey(s, c), LAMBDA r : SetState(r, c.st))

DemoTemplates(s, c) ==
    CASE c.op = "Create" -> IF ByKey(s, c) # {} THEN Nothing(s, "error") ELSE DemoPut(s, c, New(c))
      [] c.op = "GetByKey" -> One(s, ByKey(s, c))
      [] c.op = "List" -> Many(s, Ids(s, c.t))
      [] c.op = "Update" -> DemoUpdate(s, ByKey(s, c), Touch)
      [] c.op = "Delete" -> DemoDelete(s, ByKey(s, c))

(***************************************************************************)
(* E-mail accounts, messages, attachments.                                 *)
(***************************************************************************)
DemoAccountWrites(s, c) ==
    CASE c.op = "Create" -> DemoInsert(s, c, New(c))
      [] c.op = "Update" -> DemoUpdate(s, At(s, c), LAMBDA r : SetState(r, c.st))
      [] c.op = "Delete" -> DemoDelete(s, At(s, c))
      [] c.op = "UpdateSyncState" -> DemoSet(s, At(s, c), Touch)

DemoAccountReads(s, c) == IF c.op = "Get" THEN One(s, At(s, c)) ELSE Many(s, OwnedBy(s, c))

DemoAccounts(s, c) ==
    IF c.op \in {"Get", "List"} THEN DemoAccountReads(s, c) ELSE DemoAccountWrites(s, c)

DemoMessageWrites(s, c) ==
    CASE c.op = "UpdateTags" -> DemoUpdate(s, At(s, c), LAMBDA r : [r EXCEPT !.tags = c.tags])
      [] c.op = "Create" -> DemoInsert(s, c, New(c))
      [] c.op = "CreateDraft" -> DemoInsert(s, c, Touch(New(c)))

DemoMessageReads(s, c) ==
    CASE c.op = "Get" -> One(s, At(s, c))
      [] c.op = "List" -> Many(s, Ids(s, c.t))
      [] c.op = "ListByThread" -> Many(s, {i \in Ids(s, c.t) : s[i].refs["thread"] = c.id})
      [] c.op = "MarkRead" -> DemoSet(s, At(s, c), LAMBDA r : SetState(r, "read"))

DemoMessages(s, c) ==
    IF c.op \in {"UpdateTags", "Create", "CreateDraft"}
    THEN DemoMessageWrites(s, c) ELSE DemoMessageReads(s, c)

DemoAttachments(s, c) ==
    IF c.op = "Create" THEN DemoInsert(s, c, New(c)) ELSE Many(s, Referring(s, c, "messages"))

DemoCall(s, c) ==
    CASE c.t = "users" -> DemoUsers(s, c)
      [] c.t = "invites" -> DemoInvites(s, c)
      [] c.t = "tokens" -> DemoTokens(s, c)
      [] c.t = "notifications" -> DemoNotifications(s, c)
      [] c.t = "audit" -> DemoAudit(s, c)
      [] c.t = "companies" -> DemoCompanies(s, c)
      [] c.t = "contacts" -> DemoContacts(s, c)
      [] c.t = "deals" -> DemoDeals(s, c)
      [] c.t = "todos" -> DemoTodos(s, c)
      [] c.t = "appointments" -> DemoAppointments(s, c)
      [] c.t = "notes" -> DemoNotes(s, c)
      [] c.t = "calls" -> DemoCalls(s, c)
      [] c.t = "articles" -> DemoArticles(s, c)
      [] c.t = "jobs" -> DemoJobs(s, c)
      [] c.t \in {"workflows", "runs"} -> DemoWorkflows(s, c)
      [] c.t = "templates" -> DemoTemplates(s, c)
      [] c.t = "accounts" -> DemoAccounts(s, c)
      [] c.t = "messages" -> DemoMessages(s, c)
      [] c.t = "attachments" -> DemoAttachments(s, c)

(***************************************************************************)
(* The calls the services make.  References and assignees come from the    *)
(* client and may name nothing; hashes are random and never repeat.        *)
(***************************************************************************)
Call(op, t) ==
    [op |-> op, t |-> t, id |-> Null, refs |-> << >>, owner |-> Null, key |-> "", email |-> "",
     st |-> "", tags |-> << >>]

Columns(t) ==
    References(t) \cup CASE t = "notes" -> {"entity"} [] t = "tokens" -> {"family"}
                         [] t = "messages" -> {"thread"} [] OTHER -> {}

Candidates(s, t, col) ==
    IF col \in {"entity", "family", "thread"} THEN {1}
    ELSE (IF <<t, col>> \in Required THEN {} ELSE {Null})
         \cup (IF col \in scope.tables THEN Ids(s, col) \cup {Unknown} ELSE {})

Refs(s, t) ==
    {f \in [Columns(t) -> DOMAIN s \cup {Null, Unknown, 1}] :
        \A col \in Columns(t) : f[col] \in Candidates(s, t, col)}

Owners(s, t) ==
    (IF t \in OwnerRequired THEN {} ELSE {Null})
    \cup (IF t \in {"deals", "todos", "companies", "contacts"} THEN {Unknown} ELSE {})
    \cup (IF t \in {"users", "articles", "jobs", "workflows", "runs", "templates", "calls",
                    "messages", "attachments"} THEN {} ELSE Ids(s, "users"))

Hashes(s, t) == {"h1", "h2", "h3"} \ {s[i].key : i \in Ids(s, t)}

Keys(t) ==
    CASE t = "users" -> {"a", "A", "b", "legacy"} [] t = "notes" -> {"a", "A"}
      [] t \in {"invites", "tokens"} -> {"h1", "h2", "h3"} [] t = "audit" -> {"", "h1"}
      [] t \in Keyed -> {"a", "b"} [] OTHER -> {""}

NewKeys(s, t) == IF t \in {"invites", "tokens"} THEN Hashes(s, t) ELSE Keys(t) \ {"legacy"}

(* The states a caller sets.                                               *)
States(t) ==
    CASE t = "users" -> {"ACTIVE", "DEACTIVATED"} [] t = "deals" -> {"LEAD", "WON"}
      [] t = "todos" -> {"OPEN", "COMPLETED"} [] t = "jobs" -> {"PENDING", "COMPLETED"}
      [] t = "runs" -> {"IN_PROGRESS", "COMPLETED"} [] t = "accounts" -> {"active", "inactive"}
      [] t = "appointments" -> {"local", "pushed"} [] t = "invites" -> {"pending"}
      [] t = "tokens" -> {"fresh"} [] t \in {"notifications", "messages"} -> {"unread"}
      [] t = "articles" -> {"indexed"} [] OTHER -> {""}

StatesOf(t) ==
    States(t) \cup CASE t = "users" -> {"INVITED"} [] t = "deals" -> {Revoked, "OFFER_SENT"}
                     [] t = "invites" -> {"consumed", "revoked"}
                     [] t = "tokens" -> {"used", "expired", "spent"}
                     [] t \in {"notifications", "messages"} -> {"read"}
                     [] t = "articles" -> {"plain"} [] OTHER -> {}

CreateOps(t) == IF t = "messages" THEN {"Create", "CreateDraft"} ELSE {"Create"}

CreateCall(op, t, f, o, k, st) ==
    [Call(op, t) EXCEPT !.id = next, !.refs = f, !.owner = o, !.key = k, !.st = st]

Creates(s, t) ==
    {CreateCall(op, t, f, o, k, st) : op \in CreateOps(t), f \in Refs(s, t), o \in Owners(s, t),
                                      k \in NewKeys(s, t), st \in States(t)}

IdOps(t) ==
    CASE t = "users" -> {"Get", "Update", "IncrementTokenVersion"}
      [] t = "invites" -> {"Revoke"} [] t = "notifications" -> {"MarkRead"}
      [] t \in {"companies", "notes"} -> {"Get", "Delete", "Update"}
      [] t \in {"contacts", "todos", "appointments", "articles"} -> {"Get", "Delete"}
      [] t = "deals" -> {"Get", "Delete", "Revoke"} [] t = "jobs" -> {"Get"}
      [] t = "messages" -> {"Get", "MarkRead"}
      [] t = "accounts" -> {"Get", "Delete", "UpdateSyncState"} [] OTHER -> {}

KeyOps(t) ==
    CASE t = "users" -> {"GetByKey"} [] t = "invites" -> {"GetByKey", "Accept"}
      [] t = "tokens" -> {"Get", "GetByHash", "Consume", "Delete"}
      [] t \in {"workflows", "runs"} -> {"GetByKey"}
      [] t = "templates" -> {"GetByKey", "Update", "Delete"} [] OTHER -> {}

OwnerOps(t) ==
    CASE t = "todos" -> {"List", "ListByAssignee"} [] t = "tokens" -> {"DeleteOfUser", "DeleteExpired"}
      [] t \in {"companies", "contacts"} -> {"List", "ListUnowned"}
      [] t = "notifications" -> {"List", "ListUnread", "MarkAll"}
      [] t = "audit" -> {"List", "LatestHash"} [] t = "attachments" -> {} [] OTHER -> {"List"}

StateOps(t) ==
    CASE t \in {"users", "todos", "articles", "jobs", "runs"} -> {"UpdateStatus"}
      [] t = "deals" -> {"UpdateStage"} [] t = "appointments" -> {"UpdatePushStatus"}
      [] t = "accounts" -> {"Update"} [] OTHER -> {}

ReferredOps(t) ==
    CASE t = "contacts" -> <<"ListByCompany", "companies">> [] t = "calls" -> <<"ListByContact", "contacts">>
      [] t = "attachments" -> <<"ListByMessage", "messages">> [] OTHER -> << >>

(* The row, key or owner asked for, and what an update gives.              *)
RowCall(op, t, i) == [Call(op, t) EXCEPT !.id = i]
KeyCall(op, t, k) == [Call(op, t) EXCEPT !.key = k]
OwnerCall(op, t, o) == [Call(op, t) EXCEPT !.owner = o]
StateCall(op, t, i, k, st) == [Call(op, t) EXCEPT !.id = i, !.key = k, !.st = st]
UpdateCall(t, i, f, o, st) ==
    [Call("Update", t) EXCEPT !.id = i, !.refs = f, !.owner = o, !.st = st]
TagsCall(t, i, x) == [Call("UpdateTags", t) EXCEPT !.id = i, !.tags = <<x>>]
SetOwnerCall(t, i, o) == [Call("SetOwner", t) EXCEPT !.id = i, !.owner = o]
InviteCall(k, e) == [Call("CreateInvited", "invites") EXCEPT !.id = next, !.key = k, !.email = e]
StageCall(o, st) == [Call("ListByStage", "deals") EXCEPT !.owner = o, !.st = st]
EntityCall(o, k) == [Call("ListByEntity", "notes") EXCEPT !.id = 1, !.owner = o, !.key = k]

Asked(s, t) == Ids(s, t) \cup {Unknown}

StateKeys(t) == IF t = "runs" THEN Keys(t) ELSE {""}

Updates(s, t) ==
    {StateCall(op, t, i, k, st) : op \in StateOps(t), i \in Asked(s, t), st \in States(t),
                                  k \in StateKeys(t)}
    \cup (IF t \in {"contacts", "deals", "todos", "appointments"} THEN
            {UpdateCall(t, i, f, o, st) :
                i \in Asked(s, t), f \in Refs(s, t), o \in Owners(s, t), st \in States(t)}
          ELSE {})
    \cup (IF t \in {"contacts", "deals", "messages"} THEN
            {TagsCall(t, i, x) : i \in Asked(s, t), x \in {"x", "y"}}
          ELSE {})
    \cup (IF t \in {"companies", "contacts"} THEN
            {SetOwnerCall(t, i, o) : i \in Asked(s, t), o \in Owners(s, t)}
          ELSE {})

OtherCalls(s, t) ==
    CASE t = "invites" -> {InviteCall(k, e) : k \in Hashes(s, t), e \in {"a", "A", "b"}}
      [] t = "tokens" -> {RowCall("DeleteFamily", t, f) : f \in {1, Unknown}}
      [] t = "deals" -> {StageCall(o, st) : o \in Owners(s, t), st \in StatesOf(t)}
      [] t = "notes" -> {EntityCall(o, k) : o \in Owners(s, t), k \in Keys(t)}
      [] t = "messages" -> {RowCall("ListByThread", t, 1)}
      [] t \in {"contacts", "articles"} -> {Call("Search", t)}
      [] OTHER -> {}

CallsOn(s, t) ==
    Creates(s, t)
    \cup {RowCall(op, t, i) : op \in IdOps(t), i \in Asked(s, t)}
    \cup {KeyCall(op, t, k) : op \in KeyOps(t), k \in Keys(t)}
    \cup {OwnerCall(op, t, o) :
            op \in OwnerOps(t), o \in Owners(s, t) \ (IF t = "notifications" THEN {Null} ELSE {})}
    \cup Updates(s, t)
    \cup (IF ReferredOps(t) # << >> THEN
            {RowCall(ReferredOps(t)[1], t, i) : i \in Asked(s, ReferredOps(t)[2])}
          ELSE {})
    \cup OtherCalls(s, t)

Calls(s) == UNION {CallsOn(s, t) : t \in scope.tables}

(***************************************************************************)
(* NewInMemoryQuerier: the people and companies every demo starts with and *)
(* what they have been doing.                                              *)
(***************************************************************************)
Seed(t, refs, owner, key, st) ==
    [t |-> t, refs |-> [col \in Columns(t) |-> IF col \in DOMAIN refs THEN refs[col] ELSE Null],
     owner |-> owner, key |-> key, st |-> st, val |-> 0, tags |-> << >>]

SeedPeople ==
    <<Seed("users", << >>, Null, "a", "ACTIVE"), Seed("users", << >>, Null, "b", "ACTIVE"),
      Seed("users", << >>, Null, "c", "ACTIVE"),
      Seed("companies", << >>, Null, "", ""), Seed("companies", << >>, Null, "", ""),
      Seed("contacts", [companies |-> 4], Null, "", ""), Seed("contacts", << >>, Null, "", ""),
      Seed("deals", [companies |-> 4, contacts |-> 6], 1, "", "OFFER_SENT"),
      Seed("deals", [contacts |-> 7], 2, "", "LEAD")>>

SeedActivity ==
    <<Seed("todos", [contacts |-> 6, deals |-> 8], 1, "", "OPEN"),
      Seed("todos", [contacts |-> 7, deals |-> 9], 2, "", "OPEN"),
      Seed("notifications", << >>, 1, "", "unread"),
      Seed("appointments", << >>, Null, "", "local"), Seed("appointments", << >>, Null, "", "local"),
      Seed("appointments", [contacts |-> 7, deals |-> 9], Null, "", "local"),
      Seed("notes", [entity |-> 6], Null, "a", ""), Seed("notes", [entity |-> 6], Null, "a", "")>>

SeedAutomation ==
    <<Seed("articles", << >>, Null, "", "plain"), Seed("articles", << >>, Null, "", "plain"),
      Seed("workflows", << >>, Null, "a", ""), Seed("workflows", << >>, Null, "b", ""),
      Seed("workflows", << >>, Null, "c", ""),
      Seed("runs", [workflows |-> 20], Null, "a", "IN_PROGRESS"),
      Seed("runs", [workflows |-> 21], Null, "b", "COMPLETED")>>

NewEmptyInMemoryQuerier == << >>
NewInMemoryQuerier == SeedPeople \o SeedActivity \o SeedAutomation

Init ==
    /\ scope \in Scopes
    /\ engine \in {"demo", "sql"}
    /\ rows = IF scope.seeded THEN NewInMemoryQuerier ELSE NewEmptyInMemoryQuerier
    /\ next = Len(rows) + 1
    /\ strayed = FALSE /\ shadow = NoTx /\ expected = NoTx

Count == scope.calls > 0 /\ scope' = [scope EXCEPT !.calls = @ - 1]

Fresh(c) == IF c.op = "CreateInvited" THEN 2 ELSE IF c.id = next THEN 1 ELSE 0

(* The demo store takes whatever v is.                                     *)
Querier(c, v) ==
    /\ shadow = NoTx
    /\ Count
    /\ LET done == IF engine = "demo" THEN DemoCall(rows, c) ELSE SqlAnswer(rows, c, v) IN
       /\ done.rows # rows
       /\ rows' = done.rows
       /\ strayed' = (strayed \/ done # SqlAnswer(rows, c, v))
    /\ next' = next + Fresh(c)
    /\ UNCHANGED <<engine, shadow, expected>>

(* A token expires, or thirty days pass after its use.                     *)
Age ==
    /\ shadow = NoTx
    /\ \E i \in Ids(rows, "tokens"), st \in {"expired", "spent"} :
          /\ rows[i].st \in {"used"} \cup (IF st = "expired" THEN {"fresh"} ELSE {})
          /\ rows' = [rows EXCEPT ![i].st = st]
    /\ UNCHANGED <<next, scope, engine, strayed, shadow, expected>>

(***************************************************************************)
(* RunTx holds the lock, works on a clone and adopts it on success.        *)
(***************************************************************************)
(* Mutant: the maps are cloned, the slice is not.                          *)
cloneMapsOnly == Tables \ {"audit"}

cloneForTransaction == Tables
adoptFrom == Tables

RunTx ==
    /\ engine = "demo" /\ "tokens" \in scope.tables /\ shadow = NoTx /\ scope.calls > 0
    /\ shadow' = <<[i \in {j \in DOMAIN rows : rows[j].t \in cloneForTransaction} |-> rows[i]]>>
    /\ expected' = <<rows>>
    /\ UNCHANGED <<rows, next, scope, engine, strayed>>

TxCall(c, v) ==
    /\ shadow # NoTx
    /\ Count
    /\ shadow' = <<DemoCall(shadow[1], c).rows>>
    /\ expected' = <<DemoCall(expected[1], c).rows>>
    /\ shadow' # shadow
    /\ strayed' = (strayed \/ DemoCall(shadow[1], c) # SqlAnswer(shadow[1], c, v))
    /\ next' = next + Fresh(c)
    /\ UNCHANGED <<rows, engine>>

Commit ==
    /\ shadow # NoTx
    /\ LET new == {i \in DOMAIN shadow[1] : shadow[1][i].t \in adoptFrom}
           old == {i \in DOMAIN rows : rows[i].t \notin adoptFrom}
       IN rows' = [i \in new \cup old |-> IF i \in new THEN shadow[1][i] ELSE rows[i]]
    /\ shadow' = NoTx /\ expected' = NoTx
    /\ UNCHANGED <<next, scope, engine, strayed>>

Rollback ==
    /\ shadow # NoTx
    /\ shadow' = NoTx /\ expected' = NoTx
    /\ UNCHANGED <<rows, next, scope, engine, strayed>>

Next ==
    \/ \E c \in Calls(rows) : \E v \in Values(c) : Querier(c, v)
    \/ Age
    \/ RunTx
    \/ shadow # NoTx /\ \E c \in Calls(shadow[1]) : \E v \in Values(c) : TxCall(c, v)
    \/ Commit
    \/ Rollback

Spec == Init /\ [][Next]_vars

(***************************************************************************)
(* Properties.                                                             *)
(***************************************************************************)
(* Rows have the shape the queries rely on and no id is used twice.        *)
TypeOK ==
    \A i \in DOMAIN rows :
        /\ i \in 1 .. next - 1
        /\ rows[i].t \in Tables
        /\ rows[i].st \in StatesOf(rows[i].t)
        /\ DOMAIN rows[i].refs = Columns(rows[i].t)

NamesUnknown(c) ==
    \/ c.owner = Unknown
    \/ \E col \in DOMAIN c.refs :
          c.refs[col] = Unknown /\ (c.t = "appointments" /\ c.op = "Update" => col = "contacts")

Writes(s, c) ==
    \/ c.op \in {"Create", "CreateDraft"}
    \/ c.op \in {"Update", "SetOwner"} /\ At(s, c) # {} /\ (c.t = "deals" => Open(s, c) # {})

IsReferred(s, c) ==
    \E i \in DOMAIN s : c.t \in References(s[i].t) /\ s[i].refs[c.t] \in At(s, c)

(* What the demo store is known not to do as the database does with values *)
(* that fit.                                                               *)
Differs(s, c) ==
    \/ NamesUnknown(c) /\ Writes(s, c) /\ ~(c.op = "Create" /\ c.t \in {"companies", "contacts"}
                                            /\ \A col \in DOMAIN c.refs : c.refs[col] # Unknown)
                       /\ ~(c.op = "Update" /\ c.t = "contacts" /\ c.refs["companies"] # Unknown)
    \/ c.op \in {"Create", "CreateDraft"} /\ ByKey(s, c) # {}
       /\ c.t \in {"accounts", "messages", "workflows", "runs"}
    \/ c.t = "users" /\ c.op = "Create" /\ ByKey(s, c) = {} /\ ByFold(s, "users", c.key) # {}
    \/ c.op = "CreateInvited" /\ ByFold(s, "users", c.email) # {}
       /\ \A u \in Ids(s, "users") : s[u].key # c.email
    \/ c.t = "users" /\ c.op = "GetByKey"
       /\ \/ ByFold(s, "users", c.key) # ByKey(s, c)
          \/ c.key = "legacy" /\ ByKey(s, c) = {} /\ ByFold(s, "users", "a") # {}
    \/ c.t = "users" /\ c.op \in {"Update", "UpdateStatus"} /\ At(s, c) = {}
    \/ c.t = "articles" /\ c.op = "UpdateStatus" /\ At(s, c) = {}
    \/ c.op = "Delete" /\ IsReferred(s, c) /\ (c.t = "deals" => Open(s, c) # {})
    \/ c.t = "accounts" /\ c.op = "List" /\ \E i \in OwnedBy(s, c) : s[i].st = "inactive"
    \/ c.op = "LatestHash" /\ Hashed(s, c) = {}
    \/ c.op = "ListByEntity" /\ \E i \in OwnedBy(s, c) \cap ByFold(s, c.t, c.key) :
                                   s[i].key # c.key /\ s[i].refs["entity"] = c.id

(* What querier.go refuses for itself.                                     *)
DemoRefuses(s, c) ==
    \/ c.t = "users" /\ c.op = "Create" /\ ByFold(s, "users", c.key) # {}
    \/ c.op = "CreateInvited" /\ (ByFold(s, "users", c.email) # {} \/ ByKey(s, c) # {})
    \/ c.t = "templates" /\ c.op = "Create" /\ ByKey(s, c) # {}

(* A value that does not fit its column is one more difference.            *)
DiffersOn(s, c, v) == IF SqlRefuses(s, c, v) THEN ~DemoRefuses(s, c) ELSE Differs(s, c)

(* On every store the database could hold, the demo store leaves the same  *)
(* rows and gives the same answer as PostgreSQL, except for the calls      *)
(* DiffersOn lists, and for each of those it really does not: no           *)
(* constraint is enforced that querier.go does not spell out.              *)
DiffersExactlyWhereListed ==
    strayed \/ \A c \in Calls(rows) : \A v \in Values(c) :
                  DiffersOn(rows, c, v) <=> DemoCall(rows, c) # SqlAnswer(rows, c, v)

(* Every reference names a row and every key is used once, in the database *)
(* always and in the demo store, seeds included, until it has answered a   *)
(* call differently.                                                       *)
ReferencesResolve == strayed \/ \A i \in DOMAIN rows : Valid(rows, i, rows[i])

(* No two users share an address up to case in the demo store, and no two  *)
(* users, invites, tokens, templates, workflows or runs a key in either.   *)
KeysAreUnique ==
    \A i, j \in DOMAIN rows :
        /\ rows[i].t = rows[j].t /\ i # j
        /\ rows[i].t \in Keyed \ {"accounts", "messages"}
        => /\ rows[i].key # rows[j].key
           /\ engine = "demo" /\ rows[i].t = "users" => Fold(rows[i].key) # Fold(rows[j].key)

(* The rows are well formed, their references resolve, their keys are      *)
(* unique.                                                                 *)
StoreIsConsistent == TypeOK /\ ReferencesResolve /\ KeysAreUnique

(* A revoked deal is kept, with its stage, assignee, tags and data; only   *)
(* the deletion of its contact or company clears that reference.           *)
RevokedIsFinal ==
    [][\A i \in Ids(rows, "deals") : rows[i].st = Revoked =>
          /\ i \in DOMAIN rows'
          /\ \E f \in [Columns("deals") -> {0, 1}] :
                rows'[i] = [rows[i] EXCEPT !.refs = [col \in Columns("deals") |->
                    IF f[col] = 1 /\ @[col] \notin DOMAIN rows' THEN Null ELSE @[col]]]]_vars

(* A used or expired token never becomes usable and a consumed invite      *)
(* stays consumed.                                                         *)
SpentStaysSpent ==
    [][\A i \in DOMAIN rows \cap DOMAIN rows' :
          /\ rows[i].t = "tokens" /\ rows[i].st # "fresh" => rows'[i].st # "fresh"
          /\ rows[i].t = "invites" /\ rows[i].st = "consumed" => rows'[i].st = "consumed"]_vars

(* Neither store lets go of a final state: a revoked deal, a spent token,  *)
(* a consumed invite.                                                      *)
FinalStaysFinal == RevokedIsFinal /\ SpentStaysSpent

(* RunTx leaves everything its callback did or nothing of it, and nobody   *)
(* sees it half done.                                                      *)
TxIsAllOrNothing ==
    [][shadow # NoTx => rows' = rows \/ (shadow' = NoTx /\ <<rows'>> = expected)]_vars
=============================================================================
