--------------------------- MODULE DemoStoreProofs --------------------------
(***************************************************************************)
(* Proofs about DemoStore for any groups of tables and any number of       *)
(* calls: what the services' calls keep, on the demo store and on          *)
(* PostgreSQL, one at a time or as a transaction of RunTx.                 *)
(*                                                                         *)
(* The argument goes call by call. A call has the shape the services give  *)
(* it (Given, CallShape), so what each method does to the rows is one of a *)
(* few edits: a new row, rows whose state, owner or references are set,    *)
(* rows deleted. Each edit has its lemma, each table's methods a lemma     *)
(* citing them, and DemoCallStep and SqlCallStep put the tables together:  *)
(*   - DemoStep: the rows stay well formed, no key is taken twice and no   *)
(*     final state is undone;                                              *)
(*   - SqlStep: a sound store stays sound (every reference names a row and *)
(*     no key is taken twice: what the cascades and the guards of the      *)
(*     statements are for), and a final state keeps but for a reference    *)
(*     that is cleared with the row it named.                              *)
(*                                                                         *)
(* Over those, the inductive invariant IInv: the store is placed (its ids  *)
(* lie below the next one), keeps its keys unique, is sound until a call   *)
(* of the demo store has strayed from PostgreSQL, and a transaction's copy *)
(* is all that and later than the store it was made of: nothing final in   *)
(* the store is undone in the copy. The seeded store is shown sound row by *)
(* row (SeedTables, SeedSound).                                            *)
(*                                                                         *)
(* The last part compares the two stores call by call. A call is the same  *)
(* edit of the same rows on both, so their results are the same but where  *)
(* the schema refuses what the demo store takes, a delete                  *)
(* reaches the rows that refer to the deleted one (DeletesDiffer), or the  *)
(* methods Differs lists read, match or answer otherwise. Each operation   *)
(* has its lemma, each table a lemma citing them, CallDiffers puts the     *)
(* tables together.                                                        *)
(***************************************************************************)
EXTENDS DemoStore, FiniteSetTheorems, TLAPS

-----------------------------------------------------------------------------
(* Calls.                                                                   *)
\* The operations of a table.
Adds(t) == CreateOps(t) \cup (IF t = "invites" THEN {"CreateInvited"} ELSE {})

Changes(t) ==
    StateOps(t) \cup (IF t \in {"contacts", "deals", "todos", "appointments"} THEN {"Update"} ELSE {})
    \cup (IF t \in {"contacts", "deals", "messages"} THEN {"UpdateTags"} ELSE {})
    \cup (IF t \in {"companies", "contacts"} THEN {"SetOwner"} ELSE {})

Looks(t) ==
    IdOps(t) \cup KeyOps(t) \cup OwnerOps(t)
    \cup (IF ReferredOps(t) # << >> THEN {ReferredOps(t)[1]} ELSE {})
    \cup CASE t = "tokens" -> {"DeleteFamily"} [] t = "deals" -> {"ListByStage"}
           [] t = "notes" -> {"ListByEntity"} [] t = "messages" -> {"ListByThread"}
           [] t \in {"contacts", "articles"} -> {"Search"} [] OTHER -> {}

\* What a call gives.
Given(s, c) ==
    /\ c.op \in {"Create", "CreateDraft"} =>
         c.id = next /\ c.refs \in Refs(s, c.t) /\ c.key \in NewKeys(s, c.t) /\ c.st \in States(c.t)
    /\ c.op = "CreateInvited" => c.id = next /\ c.refs = << >> /\ c.key \in Hashes(s, c.t)
    /\ c.op \in {"UpdateStatus", "UpdateStage", "UpdatePushStatus"} => c.st \in States(c.t)
    /\ c.op = "Update" /\ c.t \in {"accounts", "contacts", "deals", "todos", "appointments"} => c.st \in States(c.t)
    /\ c.op = "Update" /\ c.t \in {"contacts", "deals", "todos", "appointments"} => c.refs \in Refs(s, c.t)

Fields == {"op", "t", "id", "refs", "owner", "key", "email", "st", "tags"}

LEMMA CallFields ==
  ASSUME NEW op, NEW t
  PROVE  /\ DOMAIN Call(op, t) = Fields /\ Call(op, t).op = op /\ Call(op, t).t = t
         /\ Call(op, t).refs = << >>
  BY SMT DEF Call, Null, Fields

LEMMA CreateFields ==
  ASSUME NEW op, NEW t, NEW f, NEW o, NEW k, NEW st
  PROVE  LET c == CreateCall(op, t, f, o, k, st)
         IN  c.op = op /\ c.t = t /\ c.id = next /\ c.refs = f /\ c.key = k /\ c.st = st
  BY CallFields, SMT DEF CreateCall, Fields

LEMMA ReadFields ==
  ASSUME NEW op, NEW t, NEW i
  PROVE  /\ RowCall(op, t, i).op = op /\ RowCall(op, t, i).t = t
         /\ KeyCall(op, t, i).op = op /\ KeyCall(op, t, i).t = t
         /\ OwnerCall(op, t, i).op = op /\ OwnerCall(op, t, i).t = t
  BY CallFields, SMT DEF RowCall, KeyCall, OwnerCall, Fields

LEMMA StateFields ==
  ASSUME NEW op, NEW t, NEW i, NEW k, NEW st
  PROVE  LET c == StateCall(op, t, i, k, st)
         IN  c.op = op /\ c.t = t /\ c.st = st
  BY CallFields, SMT DEF StateCall, Fields

LEMMA UpdateFields ==
  ASSUME NEW t, NEW i, NEW f, NEW o, NEW st
  PROVE  LET c == UpdateCall(t, i, f, o, st)
         IN  c.op = "Update" /\ c.t = t /\ c.refs = f /\ c.st = st
  BY CallFields, SMT DEF UpdateCall, Fields

LEMMA OtherFields ==
  ASSUME NEW t, NEW i, NEW x
  PROVE  /\ TagsCall(t, i, x).op = "UpdateTags" /\ TagsCall(t, i, x).t = t
         /\ SetOwnerCall(t, i, x).op = "SetOwner" /\ SetOwnerCall(t, i, x).t = t
         /\ StageCall(i, x).op = "ListByStage" /\ StageCall(i, x).t = "deals"
         /\ EntityCall(i, x).op = "ListByEntity" /\ EntityCall(i, x).t = "notes"
<1>1. TagsCall(t, i, x).op = "UpdateTags" /\ TagsCall(t, i, x).t = t
  BY CallFields, SMT DEF TagsCall, Fields
<1>2. SetOwnerCall(t, i, x).op = "SetOwner" /\ SetOwnerCall(t, i, x).t = t
  BY CallFields, SMT DEF SetOwnerCall, Fields
<1>3. StageCall(i, x).op = "ListByStage" /\ StageCall(i, x).t = "deals"
  BY CallFields, SMT DEF StageCall, Fields
<1>4. EntityCall(i, x).op = "ListByEntity" /\ EntityCall(i, x).t = "notes"
  BY CallFields, SMT DEF EntityCall, Fields
<1> QED BY <1>1, <1>2, <1>3, <1>4

LEMMA InviteFields ==
  ASSUME NEW k, NEW e
  PROVE  LET c == InviteCall(k, e)
         IN  c.op = "CreateInvited" /\ c.t = "invites" /\ c.id = next /\ c.key = k /\ c.refs = << >>
  BY CallFields, SMT DEF InviteCall, Fields

\* Giving operations are told apart by their names.
Gives(op, t) ==
    \/ op \in {"Create", "CreateDraft", "CreateInvited", "UpdateStatus", "UpdateStage", "UpdatePushStatus"}
    \/ op = "Update" /\ t \in {"accounts", "contacts", "deals", "todos", "appointments"}

LEMMA OpsAreDistinct ==
  ASSUME NEW t
  PROVE  \A op \in Looks(t) : ~Gives(op, t)
<1>1. \A op \in IdOps(t) : ~Gives(op, t)
  BY DEF IdOps, Gives
<1>2. \A op \in KeyOps(t) : ~Gives(op, t)
  BY DEF KeyOps, Gives
<1>3. \A op \in OwnerOps(t) : ~Gives(op, t)
  BY DEF OwnerOps, Gives
<1>4. ReferredOps(t) # << >> => ~Gives(ReferredOps(t)[1], t)
  BY DEF ReferredOps, Gives
<1> QED BY <1>1, <1>2, <1>3, <1>4 DEF Looks, Gives

LEMMA StateOpsAreDistinct ==
  ASSUME NEW t, NEW op \in StateOps(t)
  PROVE  op \notin {"Create", "CreateDraft", "CreateInvited"}
         /\ (op = "Update" => t \notin {"contacts", "deals", "todos", "appointments"})
  BY DEF StateOps

Shaped(s, t, c) == c.t = t /\ c.op \in Adds(t) \cup Changes(t) \cup Looks(t) /\ Given(s, c)

LEMMA LookShape ==
  ASSUME NEW s, NEW t, NEW c, c.op \in Looks(t), c.t = t
  PROVE  Shaped(s, t, c)
  BY OpsAreDistinct DEF Shaped, Given, Gives

LEMMA CreateShape ==
  ASSUME NEW s, NEW t, NEW c \in Creates(s, t)
  PROVE  Shaped(s, t, c)
<1>1. PICK op \in CreateOps(t), f \in Refs(s, t), o \in Owners(s, t), k \in NewKeys(s, t), st \in States(t) :
           c = CreateCall(op, t, f, o, k, st)
  BY SMT DEF Creates
<1>2. c.op = op /\ c.t = t /\ c.id = next /\ c.refs = f /\ c.key = k /\ c.st = st
  BY <1>1, CreateFields
<1>3. op \in Adds(t) /\ op \in {"Create", "CreateDraft"}
  BY DEF CreateOps, Adds
<1> QED BY <1>2, <1>3 DEF Shaped, Given

LEMMA UpdateShape ==
  ASSUME NEW s, NEW t, NEW c \in Updates(s, t)
  PROVE  Shaped(s, t, c)
<1>1. CASE \E op \in StateOps(t), i \in Asked(s, t), st \in States(t), k \in StateKeys(t) : c = StateCall(op, t, i, k, st)
  <2>1. PICK op \in StateOps(t), i \in Asked(s, t), st \in States(t), k \in StateKeys(t) : c = StateCall(op, t, i, k, st)
    BY <1>1
  <2>2. c.op = op /\ c.t = t /\ c.st = st
    BY <2>1, StateFields
  <2>3. Given(s, c)
    BY <2>2, StateOpsAreDistinct DEF Given
  <2>4. c.op \in Changes(t)
    BY <2>2 DEF Changes
  <2> QED BY <2>2, <2>3, <2>4 DEF Shaped
<1>2. CASE /\ t \in {"contacts", "deals", "todos", "appointments"}
           /\ \E i \in Asked(s, t), f \in Refs(s, t), o \in Owners(s, t), st \in States(t) :
                 c = UpdateCall(t, i, f, o, st)
  <2>1. PICK i \in Asked(s, t), f \in Refs(s, t), o \in Owners(s, t), st \in States(t) : c = UpdateCall(t, i, f, o, st)
    BY <1>2
  <2>2. c.op = "Update" /\ c.t = t /\ c.st = st /\ c.refs = f
    BY <2>1, UpdateFields
  <2>3. Given(s, c)
    BY <1>2, <2>2 DEF Given
  <2>4. c.op \in Changes(t)
    BY <1>2, <2>2 DEF Changes
  <2> QED BY <2>2, <2>3, <2>4 DEF Shaped
<1>3. CASE t \in {"contacts", "deals", "messages"} /\ \E i, x : c = TagsCall(t, i, x)
  BY <1>3, OtherFields DEF Shaped, Given, Changes
<1>4. CASE t \in {"companies", "contacts"} /\ \E i, o : c = SetOwnerCall(t, i, o)
  BY <1>4, OtherFields DEF Shaped, Given, Changes
<1>5. \/ c \in {StateCall(op, t, i, k, st) : op \in StateOps(t), i \in Asked(s, t), st \in States(t),
                                             k \in StateKeys(t)}
      \/ t \in {"contacts", "deals", "todos", "appointments"} /\ c \in
            {UpdateCall(t, i, f, o, st) : i \in Asked(s, t), f \in Refs(s, t), o \in Owners(s, t), st \in States(t)}
      \/ t \in {"contacts", "deals", "messages"} /\ c \in {TagsCall(t, i, x) : i \in Asked(s, t), x \in {"x", "y"}}
      \/ t \in {"companies", "contacts"} /\ c \in {SetOwnerCall(t, i, o) : i \in Asked(s, t), o \in Owners(s, t)}
  BY SMT DEF Updates
<1> QED BY <1>1, <1>2, <1>3, <1>4, <1>5, SMT

LEMMA OtherShape ==
  ASSUME NEW s, NEW t, NEW c \in OtherCalls(s, t)
  PROVE  Shaped(s, t, c)
<1>1. CASE t = "invites"
  <2>1. PICK k \in Hashes(s, t), e \in {"a", "A", "b"} : c = InviteCall(k, e)
    BY <1>1, SMT DEF OtherCalls
  <2>2. c.op = "CreateInvited" /\ c.t = t /\ c.id = next /\ c.key = k /\ c.refs = << >>
    BY <1>1, <2>1, InviteFields
  <2> QED BY <1>1, <2>2 DEF Shaped, Given, Adds
<1>2. CASE t = "tokens"
  <2>1. PICK f : c = RowCall("DeleteFamily", t, f)
    BY <1>2, SMT DEF OtherCalls
  <2>2. c.op \in Looks(t) /\ c.t = t
    BY <1>2, <2>1, ReadFields DEF Looks
  <2> QED BY <2>2, LookShape
<1>3. CASE t = "deals"
  <2>1. PICK o, st : c = StageCall(o, st)
    BY <1>3, SMT DEF OtherCalls
  <2>2. c.op \in Looks(t) /\ c.t = t
    BY <1>3, <2>1, OtherFields DEF Looks
  <2> QED BY <2>2, LookShape
<1>4. CASE t = "notes"
  <2>1. PICK o, k : c = EntityCall(o, k)
    BY <1>4, SMT DEF OtherCalls
  <2>2. c.op \in Looks(t) /\ c.t = t
    BY <1>4, <2>1, OtherFields DEF Looks
  <2> QED BY <2>2, LookShape
<1>5. CASE t = "messages"
  <2>1. c = RowCall("ListByThread", t, 1)
    BY <1>5, SMT DEF OtherCalls
  <2>2. c.op \in Looks(t) /\ c.t = t
    BY <1>5, <2>1, ReadFields DEF Looks
  <2> QED BY <2>2, LookShape
<1>6. CASE t \in {"contacts", "articles"}
  <2>1. c = Call("Search", t)
    BY <1>6, SMT DEF OtherCalls
  <2>2. c.op \in Looks(t) /\ c.t = t
    BY <1>6, <2>1, CallFields DEF Looks
  <2> QED BY <2>2, LookShape
<1>7. CASE t \notin {"invites", "tokens", "deals", "notes", "messages", "contacts", "articles"}
  BY <1>7 DEF OtherCalls
<1> QED BY <1>1, <1>2, <1>3, <1>4, <1>5, <1>6, <1>7

LEMMA CallShape ==
  ASSUME NEW s, NEW t, NEW c \in CallsOn(s, t)
  PROVE  Shaped(s, t, c)
<1>1. CASE \E op \in IdOps(t), i \in Asked(s, t) : c = RowCall(op, t, i)
  <2>1. c.t = t /\ c.op \in IdOps(t)
    BY <1>1, ReadFields
  <2> QED BY <2>1, LookShape DEF Looks
<1>2. CASE \E op \in KeyOps(t), k \in Keys(t) : c = KeyCall(op, t, k)
  <2>1. c.t = t /\ c.op \in KeyOps(t)
    BY <1>2, ReadFields
  <2> QED BY <2>1, LookShape DEF Looks
<1>3. CASE \E op \in OwnerOps(t), o \in Owners(s, t) : c = OwnerCall(op, t, o)
  <2>1. c.t = t /\ c.op \in OwnerOps(t)
    BY <1>3, ReadFields
  <2> QED BY <2>1, LookShape DEF Looks
<1>4. CASE ReferredOps(t) # << >> /\ \E i : c = RowCall(ReferredOps(t)[1], t, i)
  <2>1. c.t = t /\ c.op = ReferredOps(t)[1]
    BY <1>4, ReadFields
  <2> QED BY <1>4, <2>1, LookShape DEF Looks
<1>5. \/ c \in Creates(s, t)
      \/ c \in {RowCall(op, t, i) : op \in IdOps(t), i \in Asked(s, t)}
      \/ c \in {KeyCall(op, t, k) : op \in KeyOps(t), k \in Keys(t)}
      \/ c \in {OwnerCall(op, t, o) :
                  op \in OwnerOps(t), o \in Owners(s, t) \ (IF t = "notifications" THEN {Null} ELSE {})}
      \/ c \in Updates(s, t)
      \/ ReferredOps(t) # << >> /\ c \in {RowCall(ReferredOps(t)[1], t, i) : i \in Asked(s, ReferredOps(t)[2])}
      \/ c \in OtherCalls(s, t)
  BY SMT DEF CallsOn
<1> QED BY <1>1, <1>2, <1>3, <1>4, <1>5, CreateShape, UpdateShape, OtherShape, SMT
-----------------------------------------------------------------------------
(* Rows.                                                                    *)
IsRow(r) ==
    /\ r = [t |-> r.t, refs |-> r.refs, owner |-> r.owner, key |-> r.key, st |-> r.st,
            val |-> r.val, tags |-> r.tags]
    /\ r.t \in Tables
    /\ r.st \in StatesOf(r.t)
    /\ r.refs = [col \in Columns(r.t) |-> r.refs[col]]

IsStore(s) ==
    /\ s = [i \in DOMAIN s |-> s[i]]
    /\ \A i \in DOMAIN s : IsRow(s[i])

\* A row that may stand where another one stood.
SameKey(r, q) == q.t = r.t /\ q.key = r.key

SameLinks(r, q) == SameKey(r, q) /\ q.refs = r.refs /\ q.owner = r.owner

\* Final states.
StaysFinal(r, q) ==
    /\ r.t = "deals" /\ r.st = Revoked => q = r
    /\ r.t = "tokens" /\ r.st # "fresh" => q.st # "fresh"
    /\ r.t = "invites" /\ r.st = "consumed" => q.st = "consumed"

LEMMA TouchRow ==
  ASSUME NEW r, IsRow(r)
  PROVE  IsRow(Touch(r)) /\ SameLinks(r, Touch(r)) /\ Touch(r).st = r.st
<1>1. Touch(r) = [t |-> r.t, refs |-> r.refs, owner |-> r.owner, key |-> r.key, st |-> r.st,
                  val |-> 1, tags |-> r.tags]
  BY DEF IsRow, Touch
<1> QED BY <1>1 DEF IsRow, SameLinks, SameKey

LEMMA StateRow ==
  ASSUME NEW r, IsRow(r), NEW st \in StatesOf(r.t)
  PROVE  IsRow(SetState(r, st)) /\ SameLinks(r, SetState(r, st)) /\ SetState(r, st).st = st
<1>1. SetState(r, st) = [t |-> r.t, refs |-> r.refs, owner |-> r.owner, key |-> r.key, st |-> st,
                         val |-> r.val, tags |-> r.tags]
  BY DEF IsRow, SetState
<1> QED BY <1>1 DEF IsRow, SameLinks, SameKey

LEMMA OwnerRow ==
  ASSUME NEW r, IsRow(r), NEW owner
  PROVE  LET q == SetOwner(r, owner)
         IN  IsRow(q) /\ SameKey(r, q) /\ q.st = r.st /\ q.refs = r.refs /\ q.owner = owner
<1>1. SetOwner(r, owner) = [t |-> r.t, refs |-> r.refs, owner |-> owner, key |-> r.key, st |-> r.st,
                            val |-> r.val, tags |-> r.tags]
  BY DEF IsRow, SetOwner
<1> QED BY <1>1 DEF IsRow, SameKey

LEMMA TagsRow ==
  ASSUME NEW r, IsRow(r), NEW tags
  PROVE  LET q == [r EXCEPT !.tags = tags]
         IN  IsRow(q) /\ SameLinks(r, q) /\ q.st = r.st
<1> DEFINE q == [r EXCEPT !.tags = tags]
<1>1. q = [t |-> r.t, refs |-> r.refs, owner |-> r.owner, key |-> r.key, st |-> r.st,
           val |-> r.val, tags |-> tags]
  BY DEF IsRow
<1> HIDE DEF q
<1>2. IsRow(q) /\ SameLinks(r, q) /\ q.st = r.st
  BY <1>1 DEF IsRow, SameLinks, SameKey
<1> QED BY <1>2 DEF q

LEMMA RefsRow ==
  ASSUME NEW r, IsRow(r), NEW refs, refs = [col \in Columns(r.t) |-> refs[col]]
  PROVE  LET q == [r EXCEPT !.refs = refs]
         IN  IsRow(q) /\ SameKey(r, q) /\ q.st = r.st /\ q.refs = refs /\ q.owner = r.owner
<1> DEFINE q == [r EXCEPT !.refs = refs]
<1>1. q = [t |-> r.t, refs |-> refs, owner |-> r.owner, key |-> r.key, st |-> r.st,
           val |-> r.val, tags |-> r.tags]
  BY DEF IsRow
<1> HIDE DEF q
<1>2. IsRow(q) /\ SameKey(r, q) /\ q.st = r.st /\ q.refs = refs /\ q.owner = r.owner
  BY <1>1 DEF IsRow, SameKey
<1> QED BY <1>2 DEF q

LEMMA WithRefsRow ==
  ASSUME NEW r, IsRow(r), NEW refs, refs = [col \in Columns(r.t) |-> refs[col]]
  PROVE  LET q == WithRefs(r, refs)
         IN  IsRow(q) /\ SameKey(r, q) /\ q.st = r.st /\ q.refs = refs /\ q.owner = r.owner
<1>1. IsRow(Touch(r)) /\ SameLinks(r, Touch(r)) /\ Touch(r).st = r.st
  BY TouchRow
<1> QED BY <1>1, RefsRow DEF WithRefs, SameLinks, SameKey

-----------------------------------------------------------------------------
(* Stores.                                                                  *)
Sound(s) == IsStore(s) /\ \A i \in DOMAIN s : Valid(s, i, s[i])

LEMMA ColumnFacts ==
  /\ \A t : References(t) \subseteq Columns(t)
  /\ \A t : References(t) \subseteq Tables \ {"users"}
<1>1. \A t : References(t) \subseteq Columns(t)
  BY DEF Columns
<1>2. \A t : References(t) \subseteq Tables \ {"users"}
  BY DEF References, Tables
<1> QED BY <1>1, <1>2

\* The rows of other ids stay.
LEMMA PutDomain ==
  ASSUME NEW s, NEW i, NEW r
  PROVE  DOMAIN Put(s, i, r) = DOMAIN s \cup {i}
  BY DEF Put

LEMMA PutRows ==
  ASSUME NEW s, NEW i, NEW r
  PROVE  Put(s, i, r)[i] = r /\ \A j \in DOMAIN s : j # i => Put(s, i, r)[j] = s[j]
  BY DEF Put

LEMMA PutStore ==
  ASSUME NEW s, IsStore(s), NEW i, NEW r, IsRow(r)
  PROVE  IsStore(Put(s, i, r))
<1> DEFINE s2 == Put(s, i, r)
<1>1. s2 = [j \in DOMAIN s2 |-> s2[j]]
  BY DEF Put
<1>2. s2[i] = r /\ \A j \in DOMAIN s : j # i => s2[j] = s[j]
  BY PutRows
<1>3. DOMAIN s2 = DOMAIN s \cup {i}
  BY PutDomain
<1> HIDE DEF s2
<1> QED BY <1>1, <1>2, <1>3 DEF IsStore, s2

LEMMA PutSound ==
  ASSUME NEW s, Sound(s), NEW i, i \notin DOMAIN s, NEW r, IsRow(r), Valid(s, i, r)
  PROVE  Sound(Put(s, i, r))
<1> DEFINE s2 == Put(s, i, r)
<1>0. s2[i] = r /\ \A j \in DOMAIN s : j # i => s2[j] = s[j]
  BY PutRows
<1>1. IsStore(s2) /\ DOMAIN s2 = DOMAIN s \cup {i} /\ s2[i] = r /\ \A j \in DOMAIN s : s2[j] = s[j]
  BY <1>0, PutDomain, PutStore DEF Sound
<1> HIDE DEF s2
<1> SUFFICES ASSUME NEW j \in DOMAIN s2 PROVE Valid(s2, j, s2[j])
  BY <1>1 DEF Sound, s2
<1>2. ReferencesHold(s, s2[j])
  BY <1>1 DEF Sound, Valid
<1>3. ReferencesHold(s2, s2[j])
  <2>1. \A t : Ids(s, t) \subseteq Ids(s2, t)
    BY <1>1 DEF Ids
  <2> QED BY <1>2, <2>1 DEF ReferencesHold
<1>4. KeyIsFree(s2, j, s2[j])
  <2> SUFFICES ASSUME s2[j].t \in Keyed, NEW k \in Ids(s2, s2[j].t) \ {j}, s2[k].key = s2[j].key
               PROVE  FALSE
    BY DEF KeyIsFree
  <2>1. k \in DOMAIN s2 /\ s2[k].t = s2[j].t
    BY DEF Ids
  <2>2. CASE j = i
    BY <1>1, <2>1, <2>2 DEF Valid, KeyIsFree, Ids
  <2>3. CASE k = i
    BY <1>1, <2>1, <2>3 DEF Valid, KeyIsFree, Ids
  <2>4. CASE j # i /\ k # i
    BY <1>1, <2>1, <2>4 DEF Sound, Valid, KeyIsFree, Ids
  <2> QED BY <2>2, <2>3, <2>4
<1> QED BY <1>3, <1>4 DEF Valid

LEMMA RewriteSound ==
  ASSUME NEW s, Sound(s), NEW s2, IsStore(s2), DOMAIN s2 = DOMAIN s,
         \A i \in DOMAIN s : SameKey(s[i], s2[i]) /\ ReferencesHold(s, s2[i])
  PROVE  Sound(s2)
<1>1. \A t : Ids(s2, t) = Ids(s, t)
  BY DEF Ids, SameKey
<1>2. \A i \in DOMAIN s : ReferencesHold(s2, s2[i])
  BY <1>1 DEF ReferencesHold
<1>3. \A i \in DOMAIN s : KeyIsFree(s2, i, s2[i])
  BY <1>1 DEF KeyIsFree, Sound, Valid, SameKey, Ids
<1> QED BY <1>2, <1>3 DEF Sound, Valid

\* Only rows of these tables go with others.
LEMMA CascadedTables ==
  ASSUME NEW s, NEW S, NEW i \in Cascaded(s, S), i \notin S
  PROVE  /\ i \in DOMAIN s /\ s[i].t \in {"todos", "calls", "messages", "attachments", "runs"}
         /\ \E col \in References(s[i].t) : <<s[i].t, col>> \in Cascades /\ s[i].refs[col] \in S
<1>1. i \in DOMAIN s /\ \E col \in References(s[i].t) : <<s[i].t, col>> \in Cascades /\ s[i].refs[col] \in S
  BY DEF Cascaded
<1> QED BY <1>1 DEF Cascades

\* Nothing that stays must go with something that goes.
LEMMA CascadeIsClosed ==
  ASSUME NEW s, Sound(s), Null \notin DOMAIN s, NEW S \in SUBSET DOMAIN s,
         NEW i \in DOMAIN s, i \notin Cascaded(s, Cascaded(s, S)),
         NEW col \in References(s[i].t), s[i].refs[col] \in Cascaded(s, Cascaded(s, S))
  PROVE  <<s[i].t, col>> \notin Cascades
<1> SUFFICES ASSUME <<s[i].t, col>> \in Cascades PROVE FALSE
  OBVIOUS
<1> DEFINE D1 == Cascaded(s, S)
           D2 == Cascaded(s, D1)
           j == s[i].refs[col]
<1>1. j \in D2 /\ j \notin D1
  BY DEF Cascaded
<1>2. PICK c1 \in References(s[j].t) : <<s[j].t, c1>> \in Cascades /\ s[j].refs[c1] \in D1 /\ j \in DOMAIN s
  BY <1>1, CascadedTables
<1> DEFINE k == s[j].refs[c1]
<1>3. k \notin S
  BY <1>1, <1>2 DEF Cascaded
<1>4. PICK c2 \in References(s[k].t) : <<s[k].t, c2>> \in Cascades /\ k \in DOMAIN s
  BY <1>2, <1>3, CascadedTables
<1>5. ReferencesHold(s, s[i]) /\ ReferencesHold(s, s[j])
  BY <1>2 DEF Sound, Valid
<1>6. s[j].t = col
  BY <1>2, <1>5 DEF ReferencesHold, Ids
<1>7. s[k].t = c1
  BY <1>2, <1>4, <1>5 DEF ReferencesHold, Ids
<1> QED BY <1>2, <1>4, <1>6, <1>7 DEF Cascades

Unlinked(r, D) ==
    [r EXCEPT !.refs = [col \in DOMAIN @ |-> IF col \in References(r.t) /\ @[col] \in D THEN Null ELSE @[col]]]

LEMMA UnlinkedRow ==
  ASSUME NEW r, IsRow(r), NEW D
  PROVE  LET q == Unlinked(r, D)
         IN  /\ IsRow(q) /\ SameKey(r, q) /\ q.st = r.st /\ q.owner = r.owner
             /\ q = [r EXCEPT !.refs = q.refs]
             /\ \A col \in Columns(r.t) :
                   q.refs[col] = IF col \in References(r.t) /\ r.refs[col] \in D THEN Null ELSE r.refs[col]
<1> DEFINE f == [col \in Columns(r.t) |-> IF col \in References(r.t) /\ r.refs[col] \in D THEN Null ELSE r.refs[col]]
           q == [r EXCEPT !.refs = f]
<1>1. DOMAIN r.refs = Columns(r.t)
  BY DEF IsRow
<1>2. Unlinked(r, D) = q
  BY <1>1 DEF Unlinked, IsRow
<1>3. f = [col \in Columns(r.t) |-> f[col]]
  OBVIOUS
<1>4. \A col \in Columns(r.t) : f[col] = IF col \in References(r.t) /\ r.refs[col] \in D THEN Null ELSE r.refs[col]
  OBVIOUS
<1> HIDE DEF f
<1>5. IsRow(q) /\ SameKey(r, q) /\ q.st = r.st /\ q.refs = f /\ q.owner = r.owner
  BY <1>3, RefsRow
<1> QED BY <1>2, <1>4, <1>5

LEMMA DeleteFacts ==
  ASSUME NEW s, IsStore(s), NEW S
  PROVE  LET s2 == SqlDelete(s, S).rows
             D == Cascaded(s, Cascaded(s, S))
         IN  s2 = [i \in DOMAIN s \ D |-> Unlinked(s[i], D)]
  BY DEF SqlDelete, Nothing, Result, Unlinked

LEMMA DeleteSound ==
  ASSUME NEW s, Sound(s), Null \notin DOMAIN s, NEW S \in SUBSET DOMAIN s,
         \A i \in S : s[i].t # "users"
  PROVE  Sound(SqlDelete(s, S).rows)
<1> DEFINE D == Cascaded(s, Cascaded(s, S))
           s2 == SqlDelete(s, S).rows
<1>1. s2 = [i \in DOMAIN s \ D |-> Unlinked(s[i], D)]
  BY DeleteFacts DEF Sound
<1>2. IsStore(s2) /\ DOMAIN s2 = DOMAIN s \ D
  <2>1. DOMAIN s2 = DOMAIN s \ D /\ \A i \in DOMAIN s2 : s2[i] = Unlinked(s[i], D)
    BY <1>1
  <2>2. s2 = [i \in DOMAIN s2 |-> s2[i]]
    BY <1>1
  <2> HIDE DEF s2, D
  <2> QED BY <2>1, <2>2, UnlinkedRow DEF IsStore, Sound
<1>3. \A i \in DOMAIN s2 : s2[i] = Unlinked(s[i], D)
  BY <1>1
<1>4. \A i \in D : i \in DOMAIN s /\ s[i].t # "users"
  BY CascadedTables
<1>5. ASSUME NEW i \in DOMAIN s2, NEW col \in References(s[i].t), s[i].refs[col] \in D
      PROVE  <<s[i].t, col>> \notin Required
  <2>1. <<s[i].t, col>> \notin Cascades
    BY <1>2, <1>5, CascadeIsClosed
  <2> QED BY <2>1 DEF Cascades, Required
<1> HIDE DEF s2, D
<1>6. \A t : Ids(s2, t) = Ids(s, t) \ D
  BY <1>2, <1>3, UnlinkedRow DEF Ids, Sound, IsStore, SameKey
<1> SUFFICES ASSUME NEW i \in DOMAIN s2 PROVE Valid(s2, i, s2[i])
  BY <1>2 DEF Sound, s2
<1>7. IsRow(s[i]) /\ Valid(s, i, s[i]) /\ i \in DOMAIN s
  BY <1>2 DEF Sound, IsStore
<1>8. /\ s2[i].t = s[i].t /\ s2[i].key = s[i].key /\ s2[i].owner = s[i].owner
      /\ \A col \in References(s[i].t) :
            s2[i].refs[col] = IF s[i].refs[col] \in D THEN Null ELSE s[i].refs[col]
  BY <1>3, <1>7, UnlinkedRow, ColumnFacts DEF SameKey
<1>9. ReferencesHold(s2, s2[i])
  <2>1. ASSUME NEW col \in References(s[i].t)
        PROVE  \/ s2[i].refs[col] \in Ids(s2, col)
               \/ s2[i].refs[col] = Null /\ <<s[i].t, col>> \notin Required
    BY <1>5, <1>6, <1>7, <1>8, <2>1 DEF Valid, ReferencesHold
  <2>2. s2[i].owner \in Ids(s2, "users") \/ (s2[i].owner = Null /\ s[i].t \notin OwnerRequired)
    BY <1>4, <1>6, <1>7, <1>8 DEF Valid, ReferencesHold, Ids
  <2> QED BY <1>8, <2>1, <2>2 DEF ReferencesHold
<1>10. KeyIsFree(s2, i, s2[i])
  BY <1>2, <1>3, <1>6, <1>7, <1>8, UnlinkedRow DEF KeyIsFree, Valid, Ids, Sound, IsStore, SameKey
<1> QED BY <1>9, <1>10 DEF Valid

-----------------------------------------------------------------------------
(* What a call leaves behind.                                               *)
IsRevoked(r) == r.t = "deals" /\ r.st = Revoked

Unique(s) ==
    \A i, j \in DOMAIN s :
        s[i].t = s[j].t /\ i # j /\ s[i].t \in Keyed \ {"accounts", "messages"}
        => s[i].key # s[j].key /\ (s[i].t = "users" => Fold(s[i].key) # Fold(s[j].key))

\* The store is one of rows with the ids handed out so far.
Placed(s) == IsStore(s) /\ next \in Nat \ {0} /\ DOMAIN s \subseteq 1 .. next - 1

Rewritten(s, s2) ==
    /\ IsStore(s2) /\ DOMAIN s2 = DOMAIN s
    /\ \A i \in DOMAIN s : SameKey(s[i], s2[i]) /\ StaysFinal(s[i], s2[i])

\* New rows take new ids.
Grows(s, c, s2) ==
    \A i \in DOMAIN s2 : i \in DOMAIN s \/ (i \in Nat /\ next <= i /\ i < next + Fresh(c))

DemoStep(s, c, s2) ==
    /\ IsStore(s2)
    /\ Grows(s, c, s2)
    /\ \A i \in DOMAIN s : i \in DOMAIN s2 => SameKey(s[i], s2[i]) /\ StaysFinal(s[i], s2[i])
    /\ \A i \in DOMAIN s : IsRevoked(s[i]) => i \in DOMAIN s2
    /\ Unique(s) => Unique(s2)

LEMMA FreshIsNat ==
  ASSUME NEW c
  PROVE  /\ Fresh(c) \in {0, 1, 2}
         /\ c.op = "CreateInvited" => Fresh(c) = 2
         /\ c.op # "CreateInvited" /\ c.id = next => Fresh(c) = 1
  BY DEF Fresh

LEMMA RewrittenRows ==
  ASSUME NEW s, IsStore(s), NEW s2, DOMAIN s2 = DOMAIN s, s2 = [i \in DOMAIN s2 |-> s2[i]],
         \A i \in DOMAIN s :
            s2[i] = s[i] \/ (IsRow(s2[i]) /\ SameKey(s[i], s2[i]) /\ StaysFinal(s[i], s2[i]))
  PROVE  Rewritten(s, s2)
<1>1. \A i \in DOMAIN s : IsRow(s2[i]) /\ SameKey(s[i], s2[i])
  BY DEF IsStore, SameKey
<1>2. \A i \in DOMAIN s : StaysFinal(s[i], s2[i])
  BY DEF StaysFinal
<1> QED BY <1>1, <1>2 DEF Rewritten, IsStore

LEMMA RewriteStep ==
  ASSUME NEW s, NEW c, NEW s2, Rewritten(s, s2)
  PROVE  DemoStep(s, c, s2)
<1>1. Unique(s) => Unique(s2)
  BY DEF Rewritten, Unique, SameKey
<1> QED BY <1>1 DEF Rewritten, DemoStep, Grows

LEMMA SameStep ==
  ASSUME NEW s, IsStore(s), NEW c
  PROVE  DemoStep(s, c, s)
  BY RewriteStep DEF Rewritten, SameKey, StaysFinal

LEMMA CutStep ==
  ASSUME NEW s, IsStore(s), NEW c, NEW S, \A i \in DOMAIN s : IsRevoked(s[i]) => i \notin S
  PROVE  DemoStep(s, c, DemoDelete(s, S).rows)
<1> DEFINE s2 == DemoDelete(s, S).rows
<1>1. DOMAIN s2 = DOMAIN s \ S /\ \A i \in DOMAIN s2 : s2[i] = s[i]
  BY DEF DemoDelete, Nothing, Result
<1>2. s2 = [i \in DOMAIN s2 |-> s2[i]]
  BY DEF DemoDelete, Nothing, Result
<1> HIDE DEF s2
<1>3. IsStore(s2)
  BY <1>1, <1>2 DEF IsStore
<1>4. Unique(s) => Unique(s2)
  BY <1>1 DEF Unique
<1> QED BY <1>1, <1>3, <1>4 DEF DemoStep, Grows, SameKey, StaysFinal, s2

\* Nothing in the table has the key of the row.
KeyIsNew(s, r) ==
    r.t \in Keyed \ {"accounts", "messages"} =>
        \A j \in Ids(s, r.t) : s[j].key # r.key /\ (r.t = "users" => Fold(s[j].key) # Fold(r.key))

LEMMA PutUnique ==
  ASSUME NEW s, Unique(s), NEW i, i \notin DOMAIN s, NEW r, KeyIsNew(s, r)
  PROVE  Unique(Put(s, i, r))
<1> DEFINE s2 == Put(s, i, r)
<1>1. s2[i] = r /\ \A j \in DOMAIN s : s2[j] = s[j]
  BY PutRows
<1>2. DOMAIN s2 = DOMAIN s \cup {i}
  BY PutDomain
<1> HIDE DEF s2
<1> SUFFICES ASSUME NEW j \in DOMAIN s2, NEW k \in DOMAIN s2, s2[j].t = s2[k].t, j # k,
                    s2[j].t \in Keyed \ {"accounts", "messages"}
             PROVE  s2[j].key # s2[k].key /\ (s2[j].t = "users" => Fold(s2[j].key) # Fold(s2[k].key))
  BY DEF Unique, s2
<1>3. CASE j # i /\ k # i
  BY <1>1, <1>2, <1>3 DEF Unique
<1>4. CASE j = i
  BY <1>1, <1>2, <1>4 DEF KeyIsNew, Ids
<1>5. CASE k = i
  BY <1>1, <1>2, <1>5 DEF KeyIsNew, Ids
<1> QED BY <1>3, <1>4, <1>5

LEMMA AddStep ==
  ASSUME NEW s, Placed(s), NEW c, c.id = next, NEW r, IsRow(r), KeyIsNew(s, r)
  PROVE  DemoStep(s, c, Put(s, c.id, r))
<1> DEFINE s2 == Put(s, c.id, r)
<1>1. next \notin DOMAIN s /\ next \in Nat
  BY DEF Placed
<1>2. s2[next] = r /\ \A j \in DOMAIN s : s2[j] = s[j]
  BY <1>1, PutRows
<1>3. DOMAIN s2 = DOMAIN s \cup {next}
  BY PutDomain
<1>4. IsStore(s2)
  BY PutStore DEF Placed
<1>5. Unique(s) => Unique(s2)
  BY <1>1, PutUnique
<1> HIDE DEF s2
<1>6. Grows(s, c, s2)
  BY <1>1, <1>3, FreshIsNat DEF Grows
<1> QED BY <1>1, <1>2, <1>3, <1>4, <1>5, <1>6 DEF DemoStep, SameKey, StaysFinal, s2

-----------------------------------------------------------------------------
(* Edits of the rows of a set.                                              *)
Touched(s, S) == Set(s, S, Touch)
Stated(s, S, st) == Set(s, S, LAMBDA r : SetState(r, st))
Owned(s, S, owner) == Set(s, S, LAMBDA r : SetOwner(r, owner))
Linked(s, S, refs) == Set(s, S, LAMBDA r : WithRefs(r, refs))
Filled(s, S, refs, owner, st) == Set(s, S, LAMBDA r : SetState(SetOwner(WithRefs(r, refs), owner), st))

LEMMA TouchSet ==
  ASSUME NEW s, IsStore(s), NEW S, \A i \in DOMAIN s \cap S : ~IsRevoked(s[i])
  PROVE  Rewritten(s, Touched(s, S)) /\ \A i \in DOMAIN s : SameLinks(s[i], Touched(s, S)[i])
<1> DEFINE s2 == Touched(s, S)
<1>1. DOMAIN s2 = DOMAIN s /\ \A i \in DOMAIN s : s2[i] = IF i \in S THEN Touch(s[i]) ELSE s[i]
  BY DEF Set, Touched, Stated
<1>2. s2 = [i \in DOMAIN s2 |-> s2[i]]
  BY DEF Set, Touched, Stated
<1> HIDE DEF s2
<1>3. \A i \in DOMAIN s : IsRow(s[i])
  BY DEF IsStore
<1>4. \A i \in DOMAIN s \cap S : IsRow(s2[i]) /\ SameLinks(s[i], s2[i]) /\ s2[i].st = s[i].st
  BY <1>1, <1>3, TouchRow
<1>5. \A i \in DOMAIN s \cap S : StaysFinal(s[i], s2[i])
  BY <1>4 DEF StaysFinal, IsRevoked
<1>6. Rewritten(s, s2)
  BY <1>1, <1>2, <1>4, <1>5, RewrittenRows DEF SameLinks
<1>7. \A i \in DOMAIN s : SameLinks(s[i], s2[i])
  BY <1>1, <1>4 DEF SameLinks, SameKey
<1> QED BY <1>6, <1>7 DEF s2

\* A row may take a state that does not undo a final one.
MayTake(r, st) ==
    /\ st \in StatesOf(r.t)
    /\ ~IsRevoked(r)
    /\ r.t = "tokens" /\ r.st # "fresh" => st # "fresh"
    /\ r.t = "invites" /\ r.st = "consumed" => st = "consumed"

LEMMA StateSet ==
  ASSUME NEW s, IsStore(s), NEW S, NEW st, \A i \in DOMAIN s \cap S : MayTake(s[i], st)
  PROVE  Rewritten(s, Stated(s, S, st)) /\ \A i \in DOMAIN s : SameLinks(s[i], Stated(s, S, st)[i])
<1> DEFINE s2 == Stated(s, S, st)
<1>1. DOMAIN s2 = DOMAIN s /\ \A i \in DOMAIN s : s2[i] = IF i \in S THEN SetState(s[i], st) ELSE s[i]
  BY DEF Set, Touched, Stated
<1>2. s2 = [i \in DOMAIN s2 |-> s2[i]]
  BY DEF Set, Touched, Stated
<1> HIDE DEF s2
<1>3. \A i \in DOMAIN s : IsRow(s[i])
  BY DEF IsStore
<1>4. \A i \in DOMAIN s \cap S : IsRow(s2[i]) /\ SameLinks(s[i], s2[i]) /\ s2[i].st = st
  BY <1>1, <1>3, StateRow DEF MayTake
<1>5. \A i \in DOMAIN s \cap S : StaysFinal(s[i], s2[i])
  BY <1>4 DEF StaysFinal, IsRevoked, MayTake
<1>6. Rewritten(s, s2)
  BY <1>1, <1>2, <1>4, <1>5, RewrittenRows DEF SameLinks
<1>7. \A i \in DOMAIN s : SameLinks(s[i], s2[i])
  BY <1>1, <1>4 DEF SameLinks, SameKey
<1> QED BY <1>6, <1>7 DEF s2

LEMMA OwnerSet ==
  ASSUME NEW s, IsStore(s), NEW S, NEW owner, \A i \in DOMAIN s \cap S : s[i].t \notin {"deals", "tokens", "invites"}
  PROVE  Rewritten(s, Owned(s, S, owner))
<1> DEFINE s2 == Owned(s, S, owner)
<1>1. DOMAIN s2 = DOMAIN s /\ \A i \in DOMAIN s : s2[i] = IF i \in S THEN SetOwner(s[i], owner) ELSE s[i]
  BY DEF Set, Owned, Linked, Filled
<1>2. s2 = [i \in DOMAIN s2 |-> s2[i]]
  BY DEF Set, Owned, Linked, Filled
<1> HIDE DEF s2
<1>3. \A i \in DOMAIN s : IsRow(s[i])
  BY DEF IsStore
<1>4. \A i \in DOMAIN s \cap S : IsRow(s2[i]) /\ SameKey(s[i], s2[i])
  BY <1>1, <1>3, OwnerRow
<1>5. \A i \in DOMAIN s \cap S : StaysFinal(s[i], s2[i])
  BY <1>4 DEF StaysFinal
<1> QED BY <1>1, <1>2, <1>4, <1>5, RewrittenRows DEF s2

Tagged(s, S, tags) == [i \in DOMAIN s |-> IF i \in S THEN [s[i] EXCEPT !.tags = tags[i]] ELSE s[i]]

LEMMA TagsSet ==
  ASSUME NEW s, IsStore(s), NEW S, NEW tags, \A i \in DOMAIN s \cap S : ~IsRevoked(s[i]) 
  PROVE  Rewritten(s, Tagged(s, S, tags))
<1> DEFINE s2 == Tagged(s, S, tags)
<1>1. DOMAIN s2 = DOMAIN s /\ \A i \in DOMAIN s : s2[i] = IF i \in S THEN [s[i] EXCEPT !.tags = tags[i]] ELSE s[i]
  BY DEF Tagged
<1>2. s2 = [i \in DOMAIN s2 |-> s2[i]]
  BY DEF Tagged
<1> HIDE DEF s2
<1>3. \A i \in DOMAIN s : IsRow(s[i])
  BY DEF IsStore
<1>4. ASSUME NEW i \in DOMAIN s \cap S
      PROVE  IsRow(s2[i]) /\ SameLinks(s[i], s2[i]) /\ s2[i].st = s[i].st
  <2>1. s2[i] = [s[i] EXCEPT !.tags = tags[i]] /\ IsRow(s[i])
    BY <1>1, <1>3
  <2> QED BY <2>1, TagsRow
<1>5. \A i \in DOMAIN s \cap S : StaysFinal(s[i], s2[i])
  BY <1>4 DEF StaysFinal, IsRevoked
<1> QED BY <1>1, <1>2, <1>4, <1>5, RewrittenRows DEF s2, SameLinks

LEMMA LinksSet ==
  ASSUME NEW s, IsStore(s), NEW S, NEW refs,
         \A i \in DOMAIN s \cap S :
            s[i].t \notin {"deals", "tokens", "invites"} /\ refs = [col \in Columns(s[i].t) |-> refs[col]]
  PROVE  Rewritten(s, Linked(s, S, refs))
<1> DEFINE s2 == Linked(s, S, refs)
<1>1. DOMAIN s2 = DOMAIN s /\ \A i \in DOMAIN s : s2[i] = IF i \in S THEN WithRefs(s[i], refs) ELSE s[i]
  BY DEF Set, Owned, Linked, Filled
<1>2. s2 = [i \in DOMAIN s2 |-> s2[i]]
  BY DEF Set, Owned, Linked, Filled
<1> HIDE DEF s2
<1>3. \A i \in DOMAIN s : IsRow(s[i])
  BY DEF IsStore
<1>4. \A i \in DOMAIN s \cap S : IsRow(s2[i]) /\ SameKey(s[i], s2[i])
  BY <1>1, <1>3, WithRefsRow
<1>5. \A i \in DOMAIN s \cap S : StaysFinal(s[i], s2[i])
  BY <1>4 DEF StaysFinal
<1> QED BY <1>1, <1>2, <1>4, <1>5, RewrittenRows DEF s2

Given3(r, refs, owner, st) == SetState(SetOwner(WithRefs(r, refs), owner), st)

LEMMA GivenRow ==
  ASSUME NEW r, IsRow(r), NEW refs, refs = [col \in Columns(r.t) |-> refs[col]], NEW owner, NEW st \in StatesOf(r.t)
  PROVE  IsRow(Given3(r, refs, owner, st)) /\ SameKey(r, Given3(r, refs, owner, st))
<1> DEFINE q == WithRefs(r, refs)
           p == SetOwner(q, owner)
<1>1. IsRow(q) /\ SameKey(r, q)
  BY WithRefsRow
<1> HIDE DEF q
<1>2. IsRow(p) /\ SameKey(q, p)
  BY <1>1, OwnerRow
<1> HIDE DEF p
<1>3. IsRow(SetState(p, st)) /\ SameKey(p, SetState(p, st))
  BY <1>1, <1>2, StateRow DEF SameKey, SameLinks
<1> QED BY <1>1, <1>2, <1>3 DEF Given3, SameKey, p, q

LEMMA GivenSet ==
  ASSUME NEW s, IsStore(s), NEW S, NEW refs, NEW owner, NEW st,
         \A i \in DOMAIN s \cap S :
            /\ s[i].t \notin {"tokens", "invites"} /\ ~IsRevoked(s[i])
            /\ st \in StatesOf(s[i].t) /\ refs = [col \in Columns(s[i].t) |-> refs[col]]
  PROVE  Rewritten(s, Filled(s, S, refs, owner, st))
<1> DEFINE s2 == Filled(s, S, refs, owner, st)
<1>1. DOMAIN s2 = DOMAIN s
      /\ \A i \in DOMAIN s : s2[i] = IF i \in S THEN Given3(s[i], refs, owner, st) ELSE s[i]
  BY DEF Set, Filled, Given3
<1>2. s2 = [i \in DOMAIN s2 |-> s2[i]]
  BY DEF Set, Owned, Linked, Filled
<1> HIDE DEF s2
<1>3. \A i \in DOMAIN s : IsRow(s[i])
  BY DEF IsStore
<1>4. \A i \in DOMAIN s \cap S : IsRow(s2[i]) /\ SameKey(s[i], s2[i])
  BY <1>1, <1>3, GivenRow
<1>5. \A i \in DOMAIN s \cap S : StaysFinal(s[i], s2[i])
  BY <1>4 DEF StaysFinal, IsRevoked
<1> QED BY <1>1, <1>2, <1>4, <1>5, RewrittenRows DEF s2

-----------------------------------------------------------------------------
(* New rows.                                                                *)
LEMMA NewRow ==
  ASSUME NEW s, NEW c, c.t \in Tables, c.refs \in Refs(s, c.t), c.st \in States(c.t)
  PROVE  IsRow(New(c)) /\ New(c).t = c.t /\ New(c).key = c.key /\ New(c).refs = c.refs /\ New(c).owner = c.owner
<1>1. c.st \in StatesOf(c.t)
  BY DEF StatesOf
<1>2. c.refs = [col \in Columns(c.t) |-> c.refs[col]]
  BY DEF Refs
<1>3. /\ New(c).t = c.t /\ New(c).key = c.key /\ New(c).st = c.st /\ New(c).refs = c.refs
      /\ New(c).owner = c.owner
      /\ New(c) = [t |-> c.t, refs |-> c.refs, owner |-> c.owner, key |-> c.key, st |-> c.st,
                   val |-> New(c).val, tags |-> New(c).tags]
  BY DEF New
<1> QED BY <1>1, <1>2, <1>3 DEF IsRow

LEMMA UnownedRow ==
  ASSUME NEW s, NEW c, c.t \in Tables, c.refs \in Refs(s, c.t), c.st \in States(c.t)
  PROVE  IsRow(Unowned(c)) /\ Unowned(c).t = c.t
  BY NewRow, OwnerRow DEF Unowned, SameKey

IsRecord(n) ==
    n = [t |-> n.t, refs |-> n.refs, owner |-> n.owner, key |-> n.key, st |-> n.st,
         val |-> n.val, tags |-> n.tags]

Remade(n, t, owner, key, st) == [n EXCEPT !.t = t, !.owner = owner, !.key = key, !.st = st]

LEMMA RemadeRecord ==
  ASSUME NEW n, IsRecord(n), NEW t, NEW owner, NEW key, NEW st, NEW q, q = Remade(n, t, owner, key, st)
  PROVE  /\ q.t = t /\ q.owner = owner /\ q.key = key /\ q.st = st /\ q.refs = n.refs
         /\ IsRecord(q)
<1> DEFINE q1 == [n EXCEPT !.t = t]
           q2 == [q1 EXCEPT !.owner = owner]
           q3 == [q2 EXCEPT !.key = key]
           q4 == [q3 EXCEPT !.st = st]
<1>1. q1 = [t |-> t, refs |-> n.refs, owner |-> n.owner, key |-> n.key, st |-> n.st,
            val |-> n.val, tags |-> n.tags]
  BY DEF IsRecord
<1> HIDE DEF q1
<1>2. q2 = [t |-> t, refs |-> n.refs, owner |-> owner, key |-> n.key, st |-> n.st,
            val |-> n.val, tags |-> n.tags]
  BY <1>1
<1> HIDE DEF q2
<1>3. q3 = [t |-> t, refs |-> n.refs, owner |-> owner, key |-> key, st |-> n.st,
            val |-> n.val, tags |-> n.tags]
  BY <1>2
<1> HIDE DEF q3
<1>4. q4 = [t |-> t, refs |-> n.refs, owner |-> owner, key |-> key, st |-> st,
            val |-> n.val, tags |-> n.tags]
  BY <1>3
<1> HIDE DEF q4
<1>5. /\ q4.t = t /\ q4.owner = owner /\ q4.key = key /\ q4.st = st /\ q4.refs = n.refs
      /\ IsRecord(q4)
  BY <1>4 DEF IsRecord
<1>6. q = q4
  BY DEF q1, q2, q3, q4, Remade
<1> QED BY <1>5, <1>6

LEMMA InviteRows ==
  ASSUME NEW c, c.t = "invites", c.refs = << >>
  PROVE  /\ IsRow(InvitedUser(c)) /\ InvitedUser(c).t = "users" /\ InvitedUser(c).key = c.email
         /\ InvitedUser(c).owner = Null
         /\ IsRow(InviteOf(c)) /\ InviteOf(c).t = "invites" /\ InviteOf(c).key = c.key /\ InviteOf(c).owner = c.id
<1> DEFINE n == New(c)
           u == InvitedUser(c)
           v == InviteOf(c)
<1>1. IsRecord(n) /\ n.t = "invites" /\ n.key = c.key /\ n.refs = << >>
  BY SMT DEF New, IsRecord
<1>2. u = Remade(n, "users", Null, c.email, "INVITED")
  BY DEF InvitedUser, Remade
<1>3. v = [n EXCEPT !.owner = c.id, !.st = "pending"]
  BY DEF InviteOf
<1> HIDE DEF n, u, v
<1>4. v = Remade(n, "invites", c.id, c.key, "pending")
  <2>1. [n EXCEPT !.t = "invites"] = n
    BY <1>1 DEF IsRecord
  <2>2. IsRecord([n EXCEPT !.owner = c.id]) /\ [n EXCEPT !.owner = c.id].key = c.key
    BY <1>1 DEF IsRecord
  <2>3. [[n EXCEPT !.owner = c.id] EXCEPT !.key = c.key] = [n EXCEPT !.owner = c.id]
    BY <2>2 DEF IsRecord
  <2> QED BY <1>3, <2>1, <2>3 DEF Remade
<1>5. /\ u.t = "users" /\ u.owner = Null /\ u.key = c.email /\ u.st = "INVITED" /\ u.refs = << >> /\ IsRecord(u)
  BY <1>1, <1>2, RemadeRecord
<1>6. /\ v.t = "invites" /\ v.owner = c.id /\ v.key = c.key /\ v.st = "pending" /\ v.refs = << >> /\ IsRecord(v)
  BY <1>1, <1>4, RemadeRecord
<1>7. Columns("users") = {} /\ Columns("invites") = {}
  BY DEF Columns, References
<1>8. << >> = [col \in {} |-> << >>[col]]
  OBVIOUS
<1>9. "INVITED" \in StatesOf("users") /\ "pending" \in StatesOf("invites") /\ {"users", "invites"} \subseteq Tables
  BY DEF StatesOf, States, Tables
<1>10. IsRow(u)
  BY <1>5, <1>7, <1>8, <1>9 DEF IsRow, IsRecord
<1>11. IsRow(v)
  BY <1>6, <1>7, <1>8, <1>9 DEF IsRow, IsRecord
<1> QED BY <1>5, <1>6, <1>10, <1>11 DEF u, v

-----------------------------------------------------------------------------
(* The operations of each table.                                            *)
Ops(t) == Adds(t) \cup Changes(t) \cup Looks(t)

LEMMA OpsOfTables ==
  /\ Ops("users") = {"Create", "Get", "Update", "IncrementTokenVersion", "GetByKey",
       "List", "UpdateStatus"}
  /\ Ops("companies") = {"Create", "Get", "Delete", "Update", "List", "ListUnowned",
       "SetOwner"}
  /\ Ops("contacts") = {"Create", "Get", "Delete", "List", "ListUnowned", "Update",
       "UpdateTags", "SetOwner", "ListByCompany", "Search"}
  /\ Ops("deals") = {"Create", "Get", "Delete", "Revoke", "List", "UpdateStage", "Update",
       "UpdateTags", "ListByStage"}
  /\ Ops("todos") = {"Create", "Get", "Delete", "List", "ListByAssignee", "UpdateStatus",
       "Update"}
  /\ Ops("notifications") = {"Create", "MarkRead", "List", "ListUnread", "MarkAll"}
  /\ Ops("audit") = {"Create", "List", "LatestHash"}
  /\ Ops("tokens") = {"Create", "Get", "GetByHash", "Consume", "Delete", "DeleteOfUser",
       "DeleteExpired", "DeleteFamily"}
  /\ Ops("accounts") = {"Create", "Get", "Delete", "UpdateSyncState", "List", "Update"}
  /\ Ops("messages") = {"Create", "CreateDraft", "Get", "MarkRead", "List", "UpdateTags",
       "ListByThread"}
  /\ Ops("attachments") = {"Create", "ListByMessage"}
  /\ Ops("appointments") = {"Create", "Get", "Delete", "List", "UpdatePushStatus", "Update"}
  /\ Ops("notes") = {"Create", "Get", "Delete", "Update", "List", "ListByEntity"}
  /\ Ops("calls") = {"Create", "List", "ListByContact"}
  /\ Ops("articles") = {"Create", "Get", "Delete", "List", "UpdateStatus", "Search"}
  /\ Ops("jobs") = {"Create", "Get", "List", "UpdateStatus"}
  /\ Ops("workflows") = {"Create", "GetByKey", "List"}
  /\ Ops("runs") = {"Create", "GetByKey", "List", "UpdateStatus"}
  /\ Ops("invites") = {"Create", "CreateInvited", "Revoke", "GetByKey", "Accept", "List"}
  /\ Ops("templates") = {"Create", "GetByKey", "Update", "Delete", "List"}
<1>1. Ops("users") = {"Create", "Get", "Update", "IncrementTokenVersion", "GetByKey",
        "List", "UpdateStatus"}
  BY DEF Ops, Adds, CreateOps, Changes, StateOps, Looks, IdOps, KeyOps, OwnerOps, ReferredOps
<1>2. Ops("companies") = {"Create", "Get", "Delete", "Update", "List", "ListUnowned",
        "SetOwner"}
  BY DEF Ops, Adds, CreateOps, Changes, StateOps, Looks, IdOps, KeyOps, OwnerOps, ReferredOps
<1>3. Ops("contacts") = {"Create", "Get", "Delete", "List", "ListUnowned", "Update",
        "UpdateTags", "SetOwner", "ListByCompany", "Search"}
  BY DEF Ops, Adds, CreateOps, Changes, StateOps, Looks, IdOps, KeyOps, OwnerOps, ReferredOps
<1>4. Ops("deals") = {"Create", "Get", "Delete", "Revoke", "List", "UpdateStage", "Update",
        "UpdateTags", "ListByStage"}
  BY DEF Ops, Adds, CreateOps, Changes, StateOps, Looks, IdOps, KeyOps, OwnerOps, ReferredOps
<1>5. Ops("todos") = {"Create", "Get", "Delete", "List", "ListByAssignee", "UpdateStatus",
        "Update"}
  BY DEF Ops, Adds, CreateOps, Changes, StateOps, Looks, IdOps, KeyOps, OwnerOps, ReferredOps
<1>6. Ops("notifications") = {"Create", "MarkRead", "List", "ListUnread", "MarkAll"}
  BY DEF Ops, Adds, CreateOps, Changes, StateOps, Looks, IdOps, KeyOps, OwnerOps, ReferredOps
<1>7. Ops("audit") = {"Create", "List", "LatestHash"}
  BY DEF Ops, Adds, CreateOps, Changes, StateOps, Looks, IdOps, KeyOps, OwnerOps, ReferredOps
<1>8. Ops("tokens") = {"Create", "Get", "GetByHash", "Consume", "Delete", "DeleteOfUser",
        "DeleteExpired", "DeleteFamily"}
  BY DEF Ops, Adds, CreateOps, Changes, StateOps, Looks, IdOps, KeyOps, OwnerOps, ReferredOps
<1>9. Ops("accounts") = {"Create", "Get", "Delete", "UpdateSyncState", "List", "Update"}
  BY DEF Ops, Adds, CreateOps, Changes, StateOps, Looks, IdOps, KeyOps, OwnerOps, ReferredOps
<1>10. Ops("messages") = {"Create", "CreateDraft", "Get", "MarkRead", "List", "UpdateTags",
         "ListByThread"}
  BY DEF Ops, Adds, CreateOps, Changes, StateOps, Looks, IdOps, KeyOps, OwnerOps, ReferredOps
<1>11. Ops("attachments") = {"Create", "ListByMessage"}
  BY DEF Ops, Adds, CreateOps, Changes, StateOps, Looks, IdOps, KeyOps, OwnerOps, ReferredOps
<1>12. Ops("appointments") = {"Create", "Get", "Delete", "List", "UpdatePushStatus", "Update"}
  BY DEF Ops, Adds, CreateOps, Changes, StateOps, Looks, IdOps, KeyOps, OwnerOps, ReferredOps
<1>13. Ops("notes") = {"Create", "Get", "Delete", "Update", "List", "ListByEntity"}
  BY DEF Ops, Adds, CreateOps, Changes, StateOps, Looks, IdOps, KeyOps, OwnerOps, ReferredOps
<1>14. Ops("calls") = {"Create", "List", "ListByContact"}
  BY DEF Ops, Adds, CreateOps, Changes, StateOps, Looks, IdOps, KeyOps, OwnerOps, ReferredOps
<1>15. Ops("articles") = {"Create", "Get", "Delete", "List", "UpdateStatus", "Search"}
  BY DEF Ops, Adds, CreateOps, Changes, StateOps, Looks, IdOps, KeyOps, OwnerOps, ReferredOps
<1>16. Ops("jobs") = {"Create", "Get", "List", "UpdateStatus"}
  BY DEF Ops, Adds, CreateOps, Changes, StateOps, Looks, IdOps, KeyOps, OwnerOps, ReferredOps
<1>17. Ops("workflows") = {"Create", "GetByKey", "List"}
  BY DEF Ops, Adds, CreateOps, Changes, StateOps, Looks, IdOps, KeyOps, OwnerOps, ReferredOps
<1>18. Ops("runs") = {"Create", "GetByKey", "List", "UpdateStatus"}
  BY DEF Ops, Adds, CreateOps, Changes, StateOps, Looks, IdOps, KeyOps, OwnerOps, ReferredOps
<1>19. Ops("invites") = {"Create", "CreateInvited", "Revoke", "GetByKey", "Accept", "List"}
  BY DEF Ops, Adds, CreateOps, Changes, StateOps, Looks, IdOps, KeyOps, OwnerOps, ReferredOps
<1>20. Ops("templates") = {"Create", "GetByKey", "Update", "Delete", "List"}
  BY DEF Ops, Adds, CreateOps, Changes, StateOps, Looks, IdOps, KeyOps, OwnerOps, ReferredOps
<1> QED BY <1>1, <1>2, <1>3, <1>4, <1>5, <1>6, <1>7, <1>8, <1>9, <1>10, <1>11, <1>12, <1>13, <1>14,
           <1>15, <1>16, <1>17, <1>18, <1>19, <1>20

-----------------------------------------------------------------------------
(* The methods of the demo store.                                           *)
Asks(s, c, t) == c.t = t /\ c.op \in Ops(t) /\ Given(s, c)

LEMMA NewStep ==
  ASSUME NEW s, Placed(s), NEW c, c.t \in Tables \ Keyed \/ c.t \in {"accounts", "messages"}, c.op = "Create", Given(s, c)
  PROVE  DemoStep(s, c, Put(s, c.id, New(c)))
<1>1. c.t \in Tables /\ c.id = next
  BY DEF Tables, Given
<1>2. IsRow(New(c)) /\ New(c).t = c.t
  BY <1>1, NewRow DEF Given
<1>3. KeyIsNew(s, New(c))
  BY <1>2 DEF KeyIsNew
<1> QED BY <1>1, <1>2, <1>3, AddStep

LEMMA UnownedStep ==
  ASSUME NEW s, Placed(s), NEW c, c.t \in {"companies", "contacts"}, c.op = "Create", Given(s, c)
  PROVE  DemoStep(s, c, Put(s, c.id, Unowned(c)))
<1>1. c.t \in Tables \ Keyed /\ c.id = next
  BY DEF Tables, Given, Keyed
<1>2. IsRow(Unowned(c)) /\ Unowned(c).t = c.t
  BY <1>1, UnownedRow DEF Given
<1>3. KeyIsNew(s, Unowned(c))
  BY <1>1, <1>2 DEF KeyIsNew
<1> QED BY <1>1, <1>2, <1>3, AddStep

LEMMA LinksGiven ==
  ASSUME NEW s, NEW c, Given(s, c), c.op = "Update", c.t \in {"contacts", "deals", "todos", "appointments"}
  PROVE  c.refs = [col \in Columns(c.t) |-> c.refs[col]] /\ c.st \in StatesOf(c.t)
  BY DEF Given, Refs, StatesOf

LEMMA DemoTodosStep ==
  ASSUME NEW s, Placed(s), NEW c, Asks(s, c, "todos")
  PROVE  DemoStep(s, c, DemoTodos(s, c).rows)
<1> USE DEF DemoTodos, Many, One, Nothing, Result
<1>1. c.t = "todos" /\ Given(s, c) /\ IsStore(s)
  BY DEF Asks, Placed
<1>2. c.op \in {"Create", "Get", "Delete", "List", "ListByAssignee", "UpdateStatus", "Update"}
  BY OpsOfTables DEF Asks
<1>3. \A i \in Ids(s, c.t) : s[i].t = "todos"
  BY <1>1 DEF Ids
<1>4. CASE c.op = "Create"
  <2>1. DemoTodos(s, c).rows = Put(s, c.id, New(c))
    BY <1>1, <1>4 DEF DemoInsert
  <2> QED BY <1>1, <1>4, <2>1, NewStep DEF Tables, Keyed
<1>5. CASE c.op = "Delete"
  <2>1. DemoTodos(s, c).rows = DemoDelete(s, At(s, c)).rows
    BY <1>1, <1>5
  <2>2. \A i \in DOMAIN s : IsRevoked(s[i]) => i \notin At(s, c)
    BY <1>1, <1>3 DEF IsRevoked, At, Ids
  <2> QED BY <1>1, <2>1, <2>2, CutStep
<1>6. CASE c.op \in {"Get", "List", "ListByAssignee"}
  <2>1. DemoTodos(s, c).rows = s
    BY <1>1, <1>6
  <2> QED BY <1>1, <2>1, SameStep
<1>7. CASE c.op = "Update"
  <2>1. DemoTodos(s, c).rows \in {s, Filled(s, At(s, c), c.refs, c.owner, c.st)}
    BY <1>1, <1>7 DEF DemoUpdate, DemoSet, Filled
  <2>2. \A i \in DOMAIN s \cap At(s, c) : s[i].t \notin {"tokens", "invites"} /\ ~IsRevoked(s[i])
            /\ c.st \in StatesOf(s[i].t) /\ c.refs = [col \in Columns(s[i].t) |-> c.refs[col]]
    BY <1>1, <1>3, <1>7, LinksGiven DEF IsRevoked, Ids, At
  <2> QED BY <1>1, <2>1, <2>2, GivenSet, SameStep, RewriteStep
<1>8. CASE c.op = "UpdateStatus"
  <2>1. DemoTodos(s, c).rows \in {s, Stated(s, At(s, c), c.st)}
    BY <1>1, <1>8 DEF DemoUpdate, DemoSet, Stated
  <2>2. \A i \in DOMAIN s \cap At(s, c) : MayTake(s[i], c.st)
    BY <1>1, <1>3, <1>8 DEF MayTake, IsRevoked, Given, States, StatesOf, Ids, At
  <2> QED BY <1>1, <2>1, <2>2, StateSet, SameStep, RewriteStep
<1> QED BY <1>2, <1>4, <1>5, <1>6, <1>7, <1>8

LEMMA DemoNotesStep ==
  ASSUME NEW s, Placed(s), NEW c, Asks(s, c, "notes")
  PROVE  DemoStep(s, c, DemoNotes(s, c).rows)
<1> USE DEF DemoNotes, Many, One, Nothing, Result
<1>1. c.t = "notes" /\ Given(s, c) /\ IsStore(s)
  BY DEF Asks, Placed
<1>2. c.op \in {"Create", "Get", "Delete", "Update", "List", "ListByEntity"}
  BY OpsOfTables DEF Asks
<1>3. \A i \in Ids(s, c.t) : s[i].t = "notes"
  BY <1>1 DEF Ids
<1>4. CASE c.op = "Create"
  <2>1. DemoNotes(s, c).rows = Put(s, c.id, New(c))
    BY <1>1, <1>4 DEF DemoInsert
  <2> QED BY <1>1, <1>4, <2>1, NewStep DEF Tables, Keyed
<1>5. CASE c.op = "Delete"
  <2>1. DemoNotes(s, c).rows = DemoDelete(s, At(s, c)).rows
    BY <1>1, <1>5
  <2>2. \A i \in DOMAIN s : IsRevoked(s[i]) => i \notin At(s, c)
    BY <1>1, <1>3 DEF IsRevoked, At, Ids
  <2> QED BY <1>1, <2>1, <2>2, CutStep
<1>6. CASE c.op \in {"Get", "List", "ListByEntity"}
  <2>1. DemoNotes(s, c).rows = s
    BY <1>1, <1>6
  <2> QED BY <1>1, <2>1, SameStep
<1>7. CASE c.op = "Update"
  <2>1. DemoNotes(s, c).rows \in {s, Touched(s, At(s, c))}
    BY <1>1, <1>7 DEF DemoUpdate, DemoSet, Touched
  <2>2. \A i \in DOMAIN s \cap At(s, c) : ~IsRevoked(s[i])
    BY <1>1, <1>3, <1>7 DEF IsRevoked, Ids, At
  <2> QED BY <1>1, <2>1, <2>2, TouchSet, SameStep, RewriteStep
<1> QED BY <1>2, <1>4, <1>5, <1>6, <1>7

LEMMA DemoCallsStep ==
  ASSUME NEW s, Placed(s), NEW c, Asks(s, c, "calls")
  PROVE  DemoStep(s, c, DemoCalls(s, c).rows)
<1> USE DEF DemoCalls, Many, One, Nothing, Result
<1>1. c.t = "calls" /\ Given(s, c) /\ IsStore(s)
  BY DEF Asks, Placed
<1>2. c.op \in {"Create", "List", "ListByContact"}
  BY OpsOfTables DEF Asks
<1>3. \A i \in Ids(s, c.t) : s[i].t = "calls"
  BY <1>1 DEF Ids
<1>4. CASE c.op = "Create"
  <2>1. DemoCalls(s, c).rows = Put(s, c.id, New(c))
    BY <1>1, <1>4 DEF DemoInsert
  <2> QED BY <1>1, <1>4, <2>1, NewStep DEF Tables, Keyed
<1>5. CASE c.op \in {"List", "ListByContact"}
  <2>1. DemoCalls(s, c).rows = s
    BY <1>1, <1>5
  <2> QED BY <1>1, <2>1, SameStep
<1> QED BY <1>2, <1>4, <1>5

LEMMA DemoArticlesStep ==
  ASSUME NEW s, Placed(s), NEW c, Asks(s, c, "articles")
  PROVE  DemoStep(s, c, DemoArticles(s, c).rows)
<1> USE DEF DemoArticles, Many, One, Nothing, Result
<1>1. c.t = "articles" /\ Given(s, c) /\ IsStore(s)
  BY DEF Asks, Placed
<1>2. c.op \in {"Create", "Get", "Delete", "List", "UpdateStatus", "Search"}
  BY OpsOfTables DEF Asks
<1>3. \A i \in Ids(s, c.t) : s[i].t = "articles"
  BY <1>1 DEF Ids
<1>4. CASE c.op = "Create"
  <2>1. DemoArticles(s, c).rows = Put(s, c.id, New(c))
    BY <1>1, <1>4 DEF DemoInsert
  <2> QED BY <1>1, <1>4, <2>1, NewStep DEF Tables, Keyed
<1>5. CASE c.op = "Delete"
  <2>1. DemoArticles(s, c).rows = DemoDelete(s, At(s, c)).rows
    BY <1>1, <1>5
  <2>2. \A i \in DOMAIN s : IsRevoked(s[i]) => i \notin At(s, c)
    BY <1>1, <1>3 DEF IsRevoked, At, Ids
  <2> QED BY <1>1, <2>1, <2>2, CutStep
<1>6. CASE c.op \in {"Get", "List", "Search"}
  <2>1. DemoArticles(s, c).rows = s
    BY <1>1, <1>6
  <2> QED BY <1>1, <2>1, SameStep
<1>7. CASE c.op = "UpdateStatus"
  <2>1. DemoArticles(s, c).rows \in {s, Stated(s, At(s, c), "indexed")}
    BY <1>1, <1>7 DEF DemoUpdate, DemoSet, Stated
  <2>2. \A i \in DOMAIN s \cap At(s, c) : MayTake(s[i], "indexed")
    BY <1>1, <1>3, <1>7 DEF MayTake, IsRevoked, Given, States, StatesOf, Ids, At
  <2> QED BY <1>1, <2>1, <2>2, StateSet, SameStep, RewriteStep
<1> QED BY <1>2, <1>4, <1>5, <1>6, <1>7

LEMMA DemoJobsStep ==
  ASSUME NEW s, Placed(s), NEW c, Asks(s, c, "jobs")
  PROVE  DemoStep(s, c, DemoJobs(s, c).rows)
<1> USE DEF DemoJobs, Many, One, Nothing, Result
<1>1. c.t = "jobs" /\ Given(s, c) /\ IsStore(s)
  BY DEF Asks, Placed
<1>2. c.op \in {"Create", "Get", "List", "UpdateStatus"}
  BY OpsOfTables DEF Asks
<1>3. \A i \in Ids(s, c.t) : s[i].t = "jobs"
  BY <1>1 DEF Ids
<1>4. CASE c.op = "Create"
  <2>1. DemoJobs(s, c).rows = Put(s, c.id, New(c))
    BY <1>1, <1>4 DEF DemoInsert
  <2> QED BY <1>1, <1>4, <2>1, NewStep DEF Tables, Keyed
<1>5. CASE c.op \in {"Get", "List"}
  <2>1. DemoJobs(s, c).rows = s
    BY <1>1, <1>5
  <2> QED BY <1>1, <2>1, SameStep
<1>6. CASE c.op = "UpdateStatus"
  <2>1. DemoJobs(s, c).rows \in {s, Stated(s, At(s, c), c.st)}
    BY <1>1, <1>6 DEF DemoUpdate, DemoSet, Stated
  <2>2. \A i \in DOMAIN s \cap At(s, c) : MayTake(s[i], c.st)
    BY <1>1, <1>3, <1>6 DEF MayTake, IsRevoked, Given, States, StatesOf, Ids, At
  <2> QED BY <1>1, <2>1, <2>2, StateSet, SameStep, RewriteStep
<1> QED BY <1>2, <1>4, <1>5, <1>6

LEMMA DemoNotificationsStep ==
  ASSUME NEW s, Placed(s), NEW c, Asks(s, c, "notifications")
  PROVE  DemoStep(s, c, DemoNotifications(s, c).rows)
<1> USE DEF DemoNotifications, Many, One, Nothing, Result
<1>1. c.t = "notifications" /\ Given(s, c) /\ IsStore(s)
  BY DEF Asks, Placed
<1>2. c.op \in {"Create", "MarkRead", "List", "ListUnread", "MarkAll"}
  BY OpsOfTables DEF Asks
<1>3. \A i \in Ids(s, c.t) : s[i].t = "notifications"
  BY <1>1 DEF Ids
<1>4. CASE c.op = "Create"
  <2>1. DemoNotifications(s, c).rows = Put(s, c.id, New(c))
    BY <1>1, <1>4 DEF DemoInsert
  <2> QED BY <1>1, <1>4, <2>1, NewStep DEF Tables, Keyed
<1>5. CASE c.op \in {"List", "ListUnread"}
  <2>1. DemoNotifications(s, c).rows = s
    BY <1>1, <1>5
  <2> QED BY <1>1, <2>1, SameStep
<1>6. CASE c.op = "MarkAll"
  <2>1. DemoNotifications(s, c).rows \in {s, Stated(s, DemoForUser(s, c), "read")}
    BY <1>1, <1>6 DEF DemoUpdate, DemoSet, Stated
  <2>2. \A i \in DOMAIN s \cap DemoForUser(s, c) : MayTake(s[i], "read")
    BY <1>1, <1>3, <1>6 DEF MayTake, IsRevoked, Given, States, StatesOf, Ids, DemoForUser
  <2> QED BY <1>1, <2>1, <2>2, StateSet, SameStep, RewriteStep
<1>7. CASE c.op = "MarkRead"
  <2>1. DemoNotifications(s, c).rows \in {s, Stated(s, At(s, c), "read")}
    BY <1>1, <1>7 DEF DemoUpdate, DemoSet, Stated
  <2>2. \A i \in DOMAIN s \cap At(s, c) : MayTake(s[i], "read")
    BY <1>1, <1>3, <1>7 DEF MayTake, IsRevoked, Given, States, StatesOf, Ids, At
  <2> QED BY <1>1, <2>1, <2>2, StateSet, SameStep, RewriteStep
<1> QED BY <1>2, <1>4, <1>5, <1>6, <1>7

LEMMA DemoAuditStep ==
  ASSUME NEW s, Placed(s), NEW c, Asks(s, c, "audit")
  PROVE  DemoStep(s, c, DemoAudit(s, c).rows)
<1> USE DEF DemoAudit, Many, One, Nothing, Result
<1>1. c.t = "audit" /\ Given(s, c) /\ IsStore(s)
  BY DEF Asks, Placed
<1>2. c.op \in {"Create", "List", "LatestHash"}
  BY OpsOfTables DEF Asks
<1>3. \A i \in Ids(s, c.t) : s[i].t = "audit"
  BY <1>1 DEF Ids
<1>4. CASE c.op = "Create"
  <2>1. DemoAudit(s, c).rows = Put(s, c.id, New(c))
    BY <1>1, <1>4 DEF DemoInsert
  <2> QED BY <1>1, <1>4, <2>1, NewStep DEF Tables, Keyed
<1>5. CASE c.op \in {"List", "LatestHash"}
  <2>1. DemoAudit(s, c).rows = s
    BY <1>1, <1>5
  <2> QED BY <1>1, <2>1, SameStep
<1> QED BY <1>2, <1>4, <1>5

LEMMA DemoCompaniesStep ==
  ASSUME NEW s, Placed(s), NEW c, Asks(s, c, "companies")
  PROVE  DemoStep(s, c, DemoCompanies(s, c).rows)
<1> USE DEF DemoCompanies, DemoCompanyRows, DemoCompanyUpdates, Many, One, Nothing, Result
<1>1. c.t = "companies" /\ Given(s, c) /\ IsStore(s)
  BY DEF Asks, Placed
<1>2. c.op \in {"Create", "Get", "Delete", "Update", "List", "ListUnowned", "SetOwner"}
  BY OpsOfTables DEF Asks
<1>3. \A i \in Ids(s, c.t) : s[i].t = "companies"
  BY <1>1 DEF Ids
<1>4. CASE c.op = "Create"
  <2>1. DemoCompanies(s, c).rows = Put(s, c.id, Unowned(c))
    BY <1>1, <1>4 DEF DemoInsert
  <2> QED BY <1>1, <1>4, <2>1, UnownedStep
<1>5. CASE c.op = "Delete"
  <2>1. DemoCompanies(s, c).rows = DemoDelete(s, At(s, c)).rows
    BY <1>1, <1>5
  <2>2. \A i \in DOMAIN s : IsRevoked(s[i]) => i \notin At(s, c)
    BY <1>1, <1>3 DEF IsRevoked, At, Ids
  <2> QED BY <1>1, <2>1, <2>2, CutStep
<1>6. CASE c.op \in {"Get", "List", "ListUnowned"}
  <2>1. DemoCompanies(s, c).rows = s
    BY <1>1, <1>6
  <2> QED BY <1>1, <2>1, SameStep
<1>7. CASE c.op = "Update"
  <2>1. DemoCompanies(s, c).rows \in {s, Touched(s, At(s, c))}
    BY <1>1, <1>7 DEF DemoUpdate, DemoSet, Touched
  <2>2. \A i \in DOMAIN s \cap At(s, c) : ~IsRevoked(s[i])
    BY <1>1, <1>3, <1>7 DEF IsRevoked, Ids, At
  <2> QED BY <1>1, <2>1, <2>2, TouchSet, SameStep, RewriteStep
<1>8. CASE c.op = "SetOwner"
  <2>1. DemoCompanies(s, c).rows \in {s, Owned(s, At(s, c), c.owner)}
    BY <1>1, <1>8 DEF DemoUpdate, DemoSet, Owned
  <2>2. \A i \in DOMAIN s \cap At(s, c) : s[i].t \notin {"deals", "tokens", "invites"}
    BY <1>1, <1>3, <1>8 DEF Ids, At
  <2> QED BY <1>1, <2>1, <2>2, OwnerSet, SameStep, RewriteStep
<1> QED BY <1>2, <1>4, <1>5, <1>6, <1>7, <1>8

LEMMA DemoContactsStep ==
  ASSUME NEW s, Placed(s), NEW c, Asks(s, c, "contacts")
  PROVE  DemoStep(s, c, DemoContacts(s, c).rows)
<1> USE DEF DemoContacts, DemoContactRows, DemoContactOwners, DemoTagged, Many, One, Nothing, Result
<1>1. c.t = "contacts" /\ Given(s, c) /\ IsStore(s)
  BY DEF Asks, Placed
<1>2. c.op \in {"Create", "Get", "Delete", "List", "ListUnowned", "Update", "UpdateTags",
               "SetOwner", "ListByCompany", "Search"}
  BY OpsOfTables DEF Asks
<1>3. \A i \in Ids(s, c.t) : s[i].t = "contacts"
  BY <1>1 DEF Ids
<1>4. CASE c.op = "Create"
  <2>1. DemoContacts(s, c).rows = Put(s, c.id, Unowned(c))
    BY <1>1, <1>4 DEF DemoInsert
  <2> QED BY <1>1, <1>4, <2>1, UnownedStep
<1>5. CASE c.op = "Delete"
  <2>1. DemoContacts(s, c).rows = DemoDelete(s, At(s, c)).rows
    BY <1>1, <1>5
  <2>2. \A i \in DOMAIN s : IsRevoked(s[i]) => i \notin At(s, c)
    BY <1>1, <1>3 DEF IsRevoked, At, Ids
  <2> QED BY <1>1, <2>1, <2>2, CutStep
<1>6. CASE c.op \in {"Get", "List", "ListUnowned", "ListByCompany", "Search"}
  <2>1. DemoContacts(s, c).rows = s
    BY <1>1, <1>6
  <2> QED BY <1>1, <2>1, SameStep
<1>7. CASE c.op = "Update"
  <2>1. DemoContacts(s, c).rows \in {s, Linked(s, At(s, c), c.refs)}
    BY <1>1, <1>7 DEF DemoUpdate, DemoSet, Linked
  <2>2. \A i \in DOMAIN s \cap At(s, c) : s[i].t \notin {"deals", "tokens", "invites"}
            /\ c.refs = [col \in Columns(s[i].t) |-> c.refs[col]]
    BY <1>1, <1>3, <1>7, LinksGiven DEF Ids, At
  <2> QED BY <1>1, <2>1, <2>2, LinksSet, SameStep, RewriteStep
<1>8. CASE c.op = "UpdateTags"
  <2> DEFINE tags == [i \in DOMAIN s |-> DemoAppendTags(s[i].tags, c.tags)]
  <2>1. \A i \in DOMAIN s : tags[i] = DemoAppendTags(s[i].tags, c.tags)
    OBVIOUS
  <2> HIDE DEF tags
  <2>2. DemoContacts(s, c).rows \in {s, Tagged(s, At(s, c), tags)}
    BY <1>1, <1>8, <2>1 DEF DemoUpdate, Set, Tagged, DemoTagged
  <2>3. \A i \in DOMAIN s \cap At(s, c) : ~IsRevoked(s[i])
    BY <1>1, <1>3 DEF IsRevoked, Ids, At
  <2> QED BY <1>1, <2>2, <2>3, TagsSet, SameStep, RewriteStep
<1>9. CASE c.op = "SetOwner"
  <2>1. DemoContacts(s, c).rows \in {s, Owned(s, At(s, c), c.owner)}
    BY <1>1, <1>9 DEF DemoUpdate, DemoSet, Owned
  <2>2. \A i \in DOMAIN s \cap At(s, c) : s[i].t \notin {"deals", "tokens", "invites"}
    BY <1>1, <1>3, <1>9 DEF Ids, At
  <2> QED BY <1>1, <2>1, <2>2, OwnerSet, SameStep, RewriteStep
<1> QED BY <1>2, <1>4, <1>5, <1>6, <1>7, <1>8, <1>9

LEMMA DemoAccountsStep ==
  ASSUME NEW s, Placed(s), NEW c, Asks(s, c, "accounts")
  PROVE  DemoStep(s, c, DemoAccounts(s, c).rows)
<1> USE DEF DemoAccounts, DemoAccountWrites, DemoAccountReads, Many, One, Nothing, Result
<1>1. c.t = "accounts" /\ Given(s, c) /\ IsStore(s)
  BY DEF Asks, Placed
<1>2. c.op \in {"Create", "Get", "Delete", "UpdateSyncState", "List", "Update"}
  BY OpsOfTables DEF Asks
<1>3. \A i \in Ids(s, c.t) : s[i].t = "accounts"
  BY <1>1 DEF Ids
<1>4. CASE c.op = "Create"
  <2>1. DemoAccounts(s, c).rows = Put(s, c.id, New(c))
    BY <1>1, <1>4 DEF DemoInsert
  <2> QED BY <1>1, <1>4, <2>1, NewStep DEF Tables, Keyed
<1>5. CASE c.op = "Delete"
  <2>1. DemoAccounts(s, c).rows = DemoDelete(s, At(s, c)).rows
    BY <1>1, <1>5
  <2>2. \A i \in DOMAIN s : IsRevoked(s[i]) => i \notin At(s, c)
    BY <1>1, <1>3 DEF IsRevoked, At, Ids
  <2> QED BY <1>1, <2>1, <2>2, CutStep
<1>6. CASE c.op \in {"Get", "List"}
  <2>1. DemoAccounts(s, c).rows = s
    BY <1>1, <1>6
  <2> QED BY <1>1, <2>1, SameStep
<1>7. CASE c.op = "UpdateSyncState"
  <2>1. DemoAccounts(s, c).rows \in {s, Touched(s, At(s, c))}
    BY <1>1, <1>7 DEF DemoUpdate, DemoSet, Touched
  <2>2. \A i \in DOMAIN s \cap At(s, c) : ~IsRevoked(s[i])
    BY <1>1, <1>3, <1>7 DEF IsRevoked, Ids, At
  <2> QED BY <1>1, <2>1, <2>2, TouchSet, SameStep, RewriteStep
<1>8. CASE c.op = "Update"
  <2>1. DemoAccounts(s, c).rows \in {s, Stated(s, At(s, c), c.st)}
    BY <1>1, <1>8 DEF DemoUpdate, DemoSet, Stated
  <2>2. \A i \in DOMAIN s \cap At(s, c) : MayTake(s[i], c.st)
    BY <1>1, <1>3, <1>8 DEF MayTake, IsRevoked, Given, States, StatesOf, Ids, At
  <2> QED BY <1>1, <2>1, <2>2, StateSet, SameStep, RewriteStep
<1> QED BY <1>2, <1>4, <1>5, <1>6, <1>7, <1>8

LEMMA DemoAttachmentsStep ==
  ASSUME NEW s, Placed(s), NEW c, Asks(s, c, "attachments")
  PROVE  DemoStep(s, c, DemoAttachments(s, c).rows)
<1> USE DEF DemoAttachments, Many, One, Nothing, Result
<1>1. c.t = "attachments" /\ Given(s, c) /\ IsStore(s)
  BY DEF Asks, Placed
<1>2. c.op \in {"Create", "ListByMessage"}
  BY OpsOfTables DEF Asks
<1>3. \A i \in Ids(s, c.t) : s[i].t = "attachments"
  BY <1>1 DEF Ids
<1>4. CASE c.op = "Create"
  <2>1. DemoAttachments(s, c).rows = Put(s, c.id, New(c))
    BY <1>1, <1>4 DEF DemoInsert
  <2> QED BY <1>1, <1>4, <2>1, NewStep DEF Tables, Keyed
<1>5. CASE c.op = "ListByMessage"
  <2>1. DemoAttachments(s, c).rows = s
    BY <1>1, <1>5
  <2> QED BY <1>1, <2>1, SameStep
<1> QED BY <1>2, <1>4, <1>5

LEMMA RewrittenTwice ==
  ASSUME NEW s, NEW s1, NEW s2, Rewritten(s, s1), Rewritten(s1, s2)
  PROVE  Rewritten(s, s2)
<1>1. \A i \in DOMAIN s : SameKey(s[i], s2[i])
  BY DEF Rewritten, SameKey
<1>2. \A i \in DOMAIN s : StaysFinal(s[i], s2[i])
  BY DEF Rewritten, SameKey, StaysFinal
<1> QED BY <1>1, <1>2 DEF Rewritten

\* A second new row takes the next id but one.
LEMMA AddSecond ==
  ASSUME NEW s, Placed(s), NEW c, c.op = "CreateInvited", NEW q, IsRow(q), KeyIsNew(s, q), c.id = next,
         NEW r, IsRow(r), KeyIsNew(Put(s, next, q), r)
  PROVE  DemoStep(s, c, Put(Put(s, next, q), next + 1, r))
<1> DEFINE s1 == Put(s, next, q)
           s2 == Put(s1, next + 1, r)
<1>1. next \in Nat \ {0} /\ DOMAIN s \subseteq 1 .. next - 1 /\ IsStore(s)
  BY DEF Placed
<1>2. DemoStep(s, c, s1)
  BY AddStep
<1>3. DOMAIN s1 = DOMAIN s \cup {next}
  BY PutDomain
<1> HIDE DEF s1
<1>4. next + 1 \notin DOMAIN s1
  BY <1>1, <1>3
<1>5. s2[next + 1] = r /\ \A j \in DOMAIN s1 : s2[j] = s1[j]
  BY <1>4, PutRows
<1>6. DOMAIN s2 = DOMAIN s1 \cup {next + 1}
  BY PutDomain
<1>7. IsStore(s2)
  BY <1>2, PutStore DEF DemoStep
<1>8. Unique(s) => Unique(s2)
  BY <1>2, <1>4, PutUnique DEF DemoStep, s1
<1> HIDE DEF s2
<1>9. Grows(s, c, s2)
  BY <1>1, <1>3, <1>6, FreshIsNat DEF Grows
<1>10. \A i \in DOMAIN s : i \in DOMAIN s2 => SameKey(s[i], s2[i]) /\ StaysFinal(s[i], s2[i])
  BY <1>2, <1>3, <1>5 DEF DemoStep
<1>11. \A i \in DOMAIN s : IsRevoked(s[i]) => i \in DOMAIN s2
  BY <1>3, <1>6
<1>12. DemoStep(s, c, s2)
  BY <1>7, <1>8, <1>9, <1>10, <1>11 DEF DemoStep
<1> QED BY <1>12 DEF s1, s2

\* A row of these tables may be written over.
LEMMA PutOver ==
  ASSUME NEW s, IsStore(s), NEW i \in DOMAIN s, NEW r, IsRow(r), SameKey(s[i], r),
         s[i].t \notin {"deals", "tokens", "invites"}
  PROVE  Rewritten(s, Put(s, i, r))
<1> DEFINE s2 == Put(s, i, r)
<1>1. s2[i] = r /\ \A j \in DOMAIN s : j # i => s2[j] = s[j]
  BY PutRows
<1>2. DOMAIN s2 = DOMAIN s \cup {i}
  BY PutDomain
<1>3. IsStore(s2)
  BY PutStore
<1> HIDE DEF s2
<1>5. DOMAIN s2 = DOMAIN s
  BY <1>2
<1>4. Rewritten(s, s2)
  BY <1>1, <1>3, <1>5 DEF Rewritten, SameKey, StaysFinal
<1> QED BY <1>4 DEF s2

\* The revocation of a deal.
RevokedRows(s, S) ==
    [i \in DOMAIN s |-> IF i \in S /\ s[i].st # Revoked THEN SetState(Touch(s[i]), Revoked) ELSE s[i]]

LEMMA RevokedSet ==
  ASSUME NEW s, IsStore(s), NEW S, \A i \in DOMAIN s \cap S : s[i].t = "deals"
  PROVE  Rewritten(s, RevokedRows(s, S))
<1> DEFINE s2 == RevokedRows(s, S)
<1>1. DOMAIN s2 = DOMAIN s /\ s2 = [i \in DOMAIN s2 |-> s2[i]]
  BY DEF RevokedRows
<1>2. \A i \in DOMAIN s : s2[i] = IF i \in S /\ s[i].st # Revoked THEN SetState(Touch(s[i]), Revoked) ELSE s[i]
  BY DEF RevokedRows
<1> HIDE DEF s2
<1>3. ASSUME NEW i \in DOMAIN s, i \in S, s[i].st # Revoked
      PROVE  IsRow(s2[i]) /\ SameKey(s[i], s2[i]) /\ StaysFinal(s[i], s2[i])
  <2>1. IsRow(s[i]) /\ s[i].t = "deals"
    BY <1>3 DEF IsStore
  <2>2. IsRow(Touch(s[i])) /\ SameLinks(s[i], Touch(s[i]))
    BY <2>1, TouchRow
  <2>3. Revoked \in StatesOf("deals")
    BY DEF StatesOf
  <2>4. IsRow(s2[i]) /\ SameLinks(Touch(s[i]), s2[i])
    BY <1>2, <1>3, <2>1, <2>2, <2>3, StateRow DEF SameLinks, SameKey
  <2> QED BY <1>3, <2>1, <2>2, <2>4 DEF SameLinks, SameKey, StaysFinal
<1>4. Rewritten(s, s2)
  BY <1>1, <1>2, <1>3, RewrittenRows
<1> QED BY <1>4 DEF s2

\* An appointment with another contact.
Met(s, S, x) ==
    [i \in DOMAIN s |-> IF i \in S THEN [Touch(s[i]) EXCEPT !.refs["contacts"] = x] ELSE s[i]]

LEMMA MetRow ==
  ASSUME NEW r, IsRow(r), NEW x
  PROVE  LET q == [Touch(r) EXCEPT !.refs["contacts"] = x]
         IN  IsRow(q) /\ SameKey(r, q)
<1> DEFINE p == Touch(r)
           f == [p.refs EXCEPT !["contacts"] = x]
           q == [p EXCEPT !.refs = f]
<1>1. IsRow(p) /\ SameLinks(r, p)
  BY TouchRow
<1> HIDE DEF p
<1>2. p.refs = [col \in Columns(p.t) |-> p.refs[col]]
  BY <1>1 DEF IsRow
<1>3. f = [col \in Columns(p.t) |-> f[col]]
  BY <1>2
<1> HIDE DEF f
<1>4. IsRow(q) /\ SameKey(p, q)
  BY <1>1, <1>3, RefsRow
<1>5. IsRow(q) /\ SameKey(r, q)
  BY <1>1, <1>4 DEF SameKey, SameLinks
<1> QED BY <1>5 DEF f, p

LEMMA MetSet ==
  ASSUME NEW s, IsStore(s), NEW S, NEW x, \A i \in DOMAIN s \cap S : s[i].t = "appointments"
  PROVE  Rewritten(s, Met(s, S, x))
<1> DEFINE s2 == Met(s, S, x)
<1>1. DOMAIN s2 = DOMAIN s /\ s2 = [i \in DOMAIN s2 |-> s2[i]]
  BY DEF Met
<1>2. \A i \in DOMAIN s : s2[i] = IF i \in S THEN [Touch(s[i]) EXCEPT !.refs["contacts"] = x] ELSE s[i]
  BY DEF Met
<1> HIDE DEF s2
<1>3. ASSUME NEW i \in DOMAIN s, i \in S
      PROVE  IsRow(s2[i]) /\ SameKey(s[i], s2[i]) /\ StaysFinal(s[i], s2[i])
  <2>1. IsRow(s[i]) /\ s[i].t = "appointments"
    BY <1>3 DEF IsStore
  <2>2. s2[i] = [Touch(s[i]) EXCEPT !.refs["contacts"] = x]
    BY <1>2, <1>3
  <2>3. IsRow(s2[i]) /\ SameKey(s[i], s2[i])
    BY <2>1, <2>2, MetRow
  <2> QED BY <2>1, <2>3 DEF StaysFinal
<1>4. Rewritten(s, s2)
  BY <1>1, <1>2, <1>3, RewrittenRows
<1> QED BY <1>4 DEF s2

LEMMA DemoUsersStep ==
  ASSUME NEW s, Placed(s), NEW c, Asks(s, c, "users")
  PROVE  DemoStep(s, c, DemoUsers(s, c).rows)
<1> USE DEF DemoUsers, DemoUserReads, DemoUserUpdates, Many, One, Nothing, Result
<1>1. c.t = "users" /\ Given(s, c) /\ IsStore(s)
  BY DEF Asks, Placed
<1>2. c.op \in {"Create", "Get", "Update", "IncrementTokenVersion", "GetByKey", "List",
               "UpdateStatus"}
  BY OpsOfTables DEF Asks
<1>3. \A i \in Ids(s, c.t) : s[i].t = "users"
  BY <1>1 DEF Ids
<1>4. CASE c.op = "Create"
  <2>1. IsRow(New(c)) /\ New(c).t = c.t /\ New(c).key = c.key /\ c.id = next
    BY <1>1, <1>4, NewRow DEF Given, Tables
  <2>2. ByFold(s, c.t, c.key) = {} => KeyIsNew(s, New(c))
    BY <1>1, <2>1 DEF KeyIsNew, ByFold
  <2>3. DemoUsers(s, c).rows = IF ByFold(s, c.t, c.key) = {} THEN Put(s, c.id, New(c)) ELSE s
    BY <1>1, <1>4 DEF DemoCreateUser, DemoInsert
  <2> QED BY <1>1, <2>1, <2>2, <2>3, AddStep, SameStep
<1>5. CASE c.op = "GetByKey"
  <2>1. DemoUsers(s, c).rows = s
    BY <1>1, <1>5 DEF DemoGetUserByEmail
  <2> QED BY <1>1, <2>1, SameStep
<1>6. CASE c.op \in {"Get", "List"}
  <2>1. DemoUsers(s, c).rows = s
    BY <1>1, <1>6
  <2> QED BY <1>1, <2>1, SameStep
<1>7. CASE c.op = "Update"
  <2>1. DemoUsers(s, c).rows \in {s, Touched(s, At(s, c))}
    BY <1>1, <1>7 DEF DemoSet, Set, Touched
  <2>2. \A i \in DOMAIN s \cap At(s, c) : ~IsRevoked(s[i])
    BY <1>1, <1>3 DEF IsRevoked, At
  <2> QED BY <1>1, <2>1, <2>2, TouchSet, SameStep, RewriteStep
<1>8. CASE c.op = "UpdateStatus"
  <2>1. DemoUsers(s, c).rows \in {s, Stated(s, At(s, c), c.st)}
    BY <1>1, <1>8 DEF DemoSet, Set, Stated
  <2>2. \A i \in DOMAIN s \cap At(s, c) : MayTake(s[i], c.st)
    BY <1>1, <1>3, <1>8 DEF MayTake, IsRevoked, Given, StatesOf, At
  <2> QED BY <1>1, <2>1, <2>2, StateSet, SameStep, RewriteStep
<1>9. CASE c.op = "IncrementTokenVersion"
  <2>1. DemoUsers(s, c).rows \in {s, Touched(s, At(s, c))}
    BY <1>1, <1>9 DEF DemoUpdate, DemoSet, Touched, DemoIncrementUserTokenVersion
  <2>2. \A i \in DOMAIN s \cap At(s, c) : ~IsRevoked(s[i])
    BY <1>1, <1>3, <1>9 DEF IsRevoked, Ids, At
  <2> QED BY <1>1, <2>1, <2>2, TouchSet, SameStep, RewriteStep
<1> QED BY <1>2, <1>4, <1>5, <1>6, <1>7, <1>8, <1>9

LEMMA DemoInvitesStep ==
  ASSUME NEW s, Placed(s), NEW c, Asks(s, c, "invites")
  PROVE  DemoStep(s, c, DemoInvites(s, c).rows)
<1> USE DEF DemoInvites, DemoInviteRows, Many, One, Nothing, Result
<1>1. c.t = "invites" /\ Given(s, c) /\ IsStore(s)
  BY DEF Asks, Placed
<1>2. c.op \in {"Create", "CreateInvited", "Revoke", "GetByKey", "Accept", "List"}
  BY OpsOfTables DEF Asks
<1>3. \A i \in Ids(s, c.t) : s[i].t = "invites"
  BY <1>1 DEF Ids
<1>4. CASE c.op = "Create"
  <2>1. IsRow(New(c)) /\ New(c).t = c.t /\ New(c).key = c.key /\ c.id = next
    BY <1>1, <1>4, NewRow DEF Given, Tables
  <2>2. ByKey(s, c) = {} => KeyIsNew(s, New(c))
    BY <1>1, <2>1 DEF KeyIsNew, ByKey
  <2>3. DemoInvites(s, c).rows = IF ByKey(s, c) = {} THEN Put(s, c.id, New(c)) ELSE s
    BY <1>1, <1>4 DEF DemoInsert
  <2> QED BY <1>1, <2>1, <2>2, <2>3, AddStep, SameStep
<1>5. CASE c.op = "CreateInvited"
  <2> DEFINE q == InvitedUser(c)
             r == InviteOf(c)
  <2>1. c.id = next /\ c.refs = << >>
    BY <1>1, <1>5 DEF Given
  <2>2. /\ IsRow(q) /\ q.t = "users" /\ q.key = c.email
        /\ IsRow(r) /\ r.t = "invites" /\ r.key = c.key
    BY <1>1, <2>1, InviteRows
  <2>3. DemoInvites(s, c).rows = IF ByFold(s, "users", c.email) = {} /\ ByKey(s, c) = {}
             THEN Put(Put(s, next, q), next + 1, r) ELSE s
    BY <2>1, <1>5 DEF DemoCreateInvitedUser
  <2> HIDE DEF q, r
  <2>4. ByFold(s, "users", c.email) = {} => KeyIsNew(s, q)
    BY <2>2 DEF KeyIsNew, ByFold
  <2>5. ByKey(s, c) = {} => KeyIsNew(Put(s, next, q), r)
    <3> DEFINE s1 == Put(s, next, q)
    <3>1. s1[next] = q /\ \A j \in DOMAIN s : j # next => s1[j] = s[j]
      BY PutRows
    <3>2. DOMAIN s1 = DOMAIN s \cup {next}
      BY PutDomain
    <3> HIDE DEF s1
    <3>3. \A j \in Ids(s1, "invites") : j \in Ids(s, "invites") /\ s1[j].key = s[j].key
      BY <2>2, <3>1, <3>2 DEF Ids
    <3>4. ByKey(s, c) = {} => KeyIsNew(s1, r)
      BY <1>1, <2>2, <3>3 DEF KeyIsNew, ByKey
    <3> QED BY <3>4 DEF s1
  <2> QED BY <1>1, <1>5, <2>1, <2>2, <2>3, <2>4, <2>5, AddSecond, SameStep
<1>6. CASE c.op = "Revoke"
  <2> DEFINE S == {i \in At(s, c) : s[i].st # "consumed"}
  <2>1. DemoInvites(s, c).rows = Stated(s, S, "revoked")
    BY <1>1, <1>6 DEF DemoSet, Stated
  <2>2. \A i \in DOMAIN s \cap S : MayTake(s[i], "revoked")
    BY <1>1, <1>3 DEF MayTake, IsRevoked, StatesOf, At
  <2> QED BY <1>1, <2>1, <2>2, StateSet, RewriteStep
<1>7. CASE c.op \in {"List", "GetByKey"}
  <2>1. DemoInvites(s, c).rows = s
    BY <1>1, <1>7
  <2> QED BY <1>1, <2>1, SameStep
<1>8. CASE c.op = "Accept"
  <2> DEFINE locked == {i \in ByKey(s, c) : s[i].st = "pending"}
             users == {u \in Ids(s, "users") : \E i \in locked : s[i].owner = u}
             s1 == Stated(s, locked, "consumed")
  <2>1. DemoInvites(s, c).rows \in {s, s1, Stated(s1, users, "ACTIVE")}
    BY <1>1, <1>8 DEF DemoAcceptUserInvite, DemoUpdate, Stated
  <2>2. \A i \in DOMAIN s \cap locked : MayTake(s[i], "consumed")
    BY <1>1, <1>3 DEF MayTake, IsRevoked, StatesOf, ByKey
  <2>3. \A u \in users : u \in DOMAIN s /\ s[u].t = "users"
    BY DEF Ids
  <2> HIDE DEF locked, users
  <2>4. Rewritten(s, s1)
    BY <1>1, <2>2, StateSet
  <2> HIDE DEF s1
  <2>5. \A u \in DOMAIN s1 \cap users : MayTake(s1[u], "ACTIVE")
    BY <2>3, <2>4 DEF MayTake, IsRevoked, StatesOf, States, Rewritten, SameKey
  <2>6. Rewritten(s1, Stated(s1, users, "ACTIVE"))
    BY <2>4, <2>5, StateSet DEF Rewritten
  <2>7. Rewritten(s, Stated(s1, users, "ACTIVE"))
    BY <2>4, <2>6, RewrittenTwice
  <2> QED BY <1>1, <2>1, <2>4, <2>7, SameStep, RewriteStep
<1> QED BY <1>2, <1>4, <1>5, <1>6, <1>7, <1>8

LEMMA DemoTokensStep ==
  ASSUME NEW s, Placed(s), NEW c, Asks(s, c, "tokens")
  PROVE  DemoStep(s, c, DemoTokens(s, c).rows)
<1> USE DEF DemoTokens, Many, One, Nothing, Result
<1>1. c.t = "tokens" /\ Given(s, c) /\ IsStore(s)
  BY DEF Asks, Placed
<1>2. c.op \in {"Create", "Get", "GetByHash", "Consume", "Delete", "DeleteOfUser",
               "DeleteExpired", "DeleteFamily"}
  BY OpsOfTables DEF Asks
<1>3. \A i \in Ids(s, c.t) : s[i].t = "tokens"
  BY <1>1 DEF Ids
<1>4. CASE c.op = "Create"
  <2>1. IsRow(New(c)) /\ New(c).t = c.t /\ New(c).key = c.key /\ c.id = next
    BY <1>1, <1>4, NewRow DEF Given, Tables
  <2>2. ByKey(s, c) = {}
    BY <1>1, <1>4 DEF Given, NewKeys, Hashes, ByKey
  <2>3. KeyIsNew(s, New(c))
    BY <1>1, <2>1, <2>2 DEF KeyIsNew, ByKey
  <2>4. DemoTokens(s, c).rows = Put(s, c.id, New(c))
    BY <1>1, <1>4, <2>2 DEF DemoPut
  <2> QED BY <1>1, <2>1, <2>3, <2>4, AddStep
<1>5. CASE c.op = "Consume"
  <2> DEFINE S == {i \in ByKey(s, c) : s[i].st \notin {"used", "spent", "expired"}}
  <2>1. DemoTokens(s, c).rows \in {s, Stated(s, S, "used")}
    BY <1>1, <1>5 DEF DemoConsumeRefreshToken, DemoUpdate, Stated
  <2>2. \A i \in DOMAIN s \cap S : MayTake(s[i], "used")
    BY <1>1, <1>3 DEF MayTake, IsRevoked, StatesOf, ByKey
  <2> QED BY <1>1, <2>1, <2>2, StateSet, SameStep, RewriteStep
<1>6. CASE c.op \in {"Get", "GetByHash"}
  <2>1. DemoTokens(s, c).rows = s
    BY <1>1, <1>6 DEF DemoTokenReads
  <2> QED BY <1>1, <2>1, SameStep
<1>7. CASE c.op = "Delete"
  <2> DEFINE S == ByKey(s, c)
  <2>1. DemoTokens(s, c).rows = DemoDelete(s, S).rows
    BY <1>1, <1>7 DEF DemoTokenDeletes
  <2>2. \A i \in DOMAIN s : IsRevoked(s[i]) => i \notin S
    BY <1>1, <1>3 DEF IsRevoked, ByKey
  <2> QED BY <1>1, <2>1, <2>2, CutStep
<1>8. CASE c.op = "DeleteOfUser"
  <2> DEFINE S == {i \in TokensOf(s, c) : c.owner # Null}
  <2>1. DemoTokens(s, c).rows = DemoDelete(s, S).rows
    BY <1>1, <1>8 DEF DemoTokenDeletes
  <2>2. \A i \in DOMAIN s : IsRevoked(s[i]) => i \notin S
    BY <1>1, <1>3 DEF IsRevoked, TokensOf
  <2> QED BY <1>1, <2>1, <2>2, CutStep
<1>9. CASE c.op = "DeleteFamily"
  <2> DEFINE S == {i \in FamilyOf(s, c) : c.id # Null}
  <2>1. DemoTokens(s, c).rows = DemoDelete(s, S).rows
    BY <1>1, <1>9 DEF DemoTokenDeletes
  <2>2. \A i \in DOMAIN s : IsRevoked(s[i]) => i \notin S
    BY <1>1, <1>3 DEF IsRevoked, FamilyOf
  <2> QED BY <1>1, <2>1, <2>2, CutStep
<1>10. CASE c.op = "DeleteExpired"
  <2> DEFINE S == {i \in Ids(s, c.t) : s[i].st \in {"expired", "spent"}}
  <2>1. DemoTokens(s, c).rows = DemoDelete(s, S).rows
    BY <1>1, <1>10 DEF DemoTokenDeletes
  <2>2. \A i \in DOMAIN s : IsRevoked(s[i]) => i \notin S
    BY <1>1, <1>3 DEF IsRevoked, Ids
  <2> QED BY <1>1, <2>1, <2>2, CutStep
<1> QED BY <1>2, <1>4, <1>5, <1>6, <1>7, <1>8, <1>9, <1>10

LEMMA DemoDealsStep ==
  ASSUME NEW s, Placed(s), NEW c, Asks(s, c, "deals")
  PROVE  DemoStep(s, c, DemoDeals(s, c).rows)
<1> USE DEF DemoDeals, DemoDealRows, DemoDealUpdates, DemoTagged, Many, One, Nothing, Result
<1>1. c.t = "deals" /\ Given(s, c) /\ IsStore(s)
  BY DEF Asks, Placed
<1>2. c.op \in {"Create", "Get", "Delete", "Revoke", "List", "UpdateStage", "Update",
               "UpdateTags", "ListByStage"}
  BY OpsOfTables DEF Asks
<1>3. \A i \in Ids(s, c.t) : s[i].t = "deals"
  BY <1>1 DEF Ids
<1>4. CASE c.op = "Create"
  <2>1. DemoDeals(s, c).rows = Put(s, c.id, New(c))
    BY <1>1, <1>4 DEF DemoInsert
  <2> QED BY <1>1, <1>4, <2>1, NewStep DEF Tables, Keyed
<1>5. CASE c.op = "Delete"
  <2>1. DemoDeals(s, c).rows = IF Open(s, c) = {} THEN s ELSE DemoDelete(s, At(s, c)).rows
    BY <1>1, <1>5
  <2>2. Open(s, c) # {} => \A i \in DOMAIN s : IsRevoked(s[i]) => i \notin At(s, c)
    BY <1>1 DEF IsRevoked, At, Open
  <2> QED BY <1>1, <2>1, <2>2, CutStep, SameStep
<1>6. CASE c.op \in {"Get", "List", "ListByStage"}
  <2>1. DemoDeals(s, c).rows = s
    BY <1>1, <1>6
  <2> QED BY <1>1, <2>1, SameStep
<1>7. CASE c.op = "Update"
  <2>1. DemoDeals(s, c).rows \in {s, Filled(s, Open(s, c), c.refs, c.owner, c.st)}
    BY <1>1, <1>7 DEF DemoUpdate, DemoSet, Filled
  <2>2. \A i \in DOMAIN s \cap Open(s, c) : s[i].t \notin {"tokens", "invites"} /\ ~IsRevoked(s[i])
            /\ c.st \in StatesOf(s[i].t) /\ c.refs = [col \in Columns(s[i].t) |-> c.refs[col]]
    BY <1>1, <1>3, <1>7, LinksGiven DEF IsRevoked, Ids, Open, At
  <2> QED BY <1>1, <2>1, <2>2, GivenSet, SameStep, RewriteStep
<1>8. CASE c.op = "UpdateStage"
  <2>1. DemoDeals(s, c).rows \in {s, Stated(s, Open(s, c), c.st)}
    BY <1>1, <1>8 DEF DemoUpdate, DemoSet, Stated
  <2>2. \A i \in DOMAIN s \cap Open(s, c) : MayTake(s[i], c.st)
    BY <1>1, <1>3, <1>8 DEF MayTake, IsRevoked, Given, States, StatesOf, Ids, Open, At
  <2> QED BY <1>1, <2>1, <2>2, StateSet, SameStep, RewriteStep
<1>9. CASE c.op = "Revoke"
  <2> DEFINE s2 == RevokedRows(s, At(s, c))
  <2>1. DemoDeals(s, c).rows \in {s, s2}
    BY <1>1, <1>9 DEF DemoUpdate, Set, RevokedRows
  <2>3. \A i \in At(s, c) : s[i].t = "deals"
    BY <1>1, <1>3 DEF At
  <2>2. Rewritten(s, s2)
    BY <1>1, <2>3, RevokedSet
  <2> HIDE DEF s2
  <2> QED BY <1>1, <2>1, <2>2, SameStep, RewriteStep
<1>10. CASE c.op = "UpdateTags"
  <2> DEFINE tags == [i \in DOMAIN s |-> DemoAppendTags(s[i].tags, c.tags)]
  <2>1. \A i \in DOMAIN s : tags[i] = DemoAppendTags(s[i].tags, c.tags)
    OBVIOUS
  <2> HIDE DEF tags
  <2>2. DemoDeals(s, c).rows \in {s, Tagged(s, Open(s, c), tags)}
    BY <1>1, <1>10, <2>1 DEF DemoUpdate, Set, Tagged, DemoTagged
  <2>3. \A i \in DOMAIN s \cap Open(s, c) : ~IsRevoked(s[i])
    BY <1>1, <1>3 DEF IsRevoked, Ids, Open, At
  <2> QED BY <1>1, <2>2, <2>3, TagsSet, SameStep, RewriteStep
<1> QED BY <1>2, <1>4, <1>5, <1>6, <1>7, <1>8, <1>9, <1>10

LEMMA DemoAppointmentsStep ==
  ASSUME NEW s, Placed(s), NEW c, Asks(s, c, "appointments")
  PROVE  DemoStep(s, c, DemoAppointments(s, c).rows)
<1> USE DEF DemoAppointments, Many, One, Nothing, Result
<1>1. c.t = "appointments" /\ Given(s, c) /\ IsStore(s)
  BY DEF Asks, Placed
<1>2. c.op \in {"Create", "Get", "Delete", "List", "UpdatePushStatus", "Update"}
  BY OpsOfTables DEF Asks
<1>3. \A i \in Ids(s, c.t) : s[i].t = "appointments"
  BY <1>1 DEF Ids
<1>4. CASE c.op = "Create"
  <2>1. DemoAppointments(s, c).rows = Put(s, c.id, New(c))
    BY <1>1, <1>4 DEF DemoInsert
  <2> QED BY <1>1, <1>4, <2>1, NewStep DEF Tables, Keyed
<1>5. CASE c.op = "Delete"
  <2>1. DemoAppointments(s, c).rows = DemoDelete(s, At(s, c)).rows
    BY <1>1, <1>5
  <2>2. \A i \in DOMAIN s : IsRevoked(s[i]) => i \notin At(s, c)
    BY <1>1, <1>3 DEF IsRevoked, At, Ids
  <2> QED BY <1>1, <2>1, <2>2, CutStep
<1>6. CASE c.op \in {"Get", "List"}
  <2>1. DemoAppointments(s, c).rows = s
    BY <1>1, <1>6
  <2> QED BY <1>1, <2>1, SameStep
<1>7. CASE c.op = "Update"
  <2> DEFINE x == c.refs["contacts"]
  <2>1. DemoAppointments(s, c).rows \in {s, Met(s, At(s, c), x)}
    BY <1>1, <1>7 DEF DemoUpdate, Set, Met
  <2>2. \A i \in DOMAIN s \cap At(s, c) : s[i].t = "appointments"
    BY <1>1, <1>3 DEF At
  <2> QED BY <1>1, <2>1, <2>2, MetSet, SameStep, RewriteStep
<1>8. CASE c.op = "UpdatePushStatus"
  <2>1. DemoAppointments(s, c).rows \in {s, Stated(s, At(s, c), c.st)}
    BY <1>1, <1>8 DEF DemoUpdate, DemoSet, Stated
  <2>2. \A i \in DOMAIN s \cap At(s, c) : MayTake(s[i], c.st)
    BY <1>1, <1>3, <1>8 DEF MayTake, IsRevoked, Given, States, StatesOf, Ids, At
  <2> QED BY <1>1, <2>1, <2>2, StateSet, SameStep, RewriteStep
<1> QED BY <1>2, <1>4, <1>5, <1>6, <1>7, <1>8

LEMMA DemoWorkflowsStep ==
  ASSUME NEW s, Placed(s), NEW c, Asks(s, c, "workflows") \/ Asks(s, c, "runs")
  PROVE  DemoStep(s, c, DemoWorkflows(s, c).rows)
<1> USE DEF DemoWorkflows, Many, One, Nothing, Result
<1>1. c.t \in {"workflows", "runs"} /\ Given(s, c) /\ IsStore(s)
  BY DEF Asks, Placed
<1>2. c.op \in {"Create", "GetByKey", "List", "UpdateStatus"}
  BY OpsOfTables DEF Asks
<1>3. \A i \in Ids(s, c.t) : s[i].t \in {"workflows", "runs"}
  BY <1>1 DEF Ids
<1>4. CASE c.op = "Create"
  <2>1. IsRow(New(c)) /\ New(c).t = c.t /\ New(c).key = c.key /\ c.id = next
    BY <1>1, <1>4, NewRow DEF Given, Tables
  <2>2. CASE ByKey(s, c) = {}
    <3>1. KeyIsNew(s, New(c))
      BY <1>1, <2>1, <2>2 DEF KeyIsNew, ByKey
    <3>2. DemoWorkflows(s, c).rows = Put(s, c.id, New(c))
      BY <1>1, <1>4, <2>2 DEF DemoPut
    <3> QED BY <1>1, <2>1, <3>1, <3>2, AddStep
  <2>3. CASE ByKey(s, c) # {}
    <3>1. PICK j \in ByKey(s, c) : DemoWorkflows(s, c).rows = Put(s, j, New(c))
      BY <1>1, <1>4, <2>3 DEF DemoPut
    <3>2. j \in DOMAIN s /\ s[j].t = c.t /\ s[j].key = c.key
      BY DEF ByKey, Ids
    <3>4. SameKey(s[j], New(c)) /\ s[j].t \notin {"deals", "tokens", "invites"}
      BY <1>1, <2>1, <3>2 DEF SameKey
    <3>3. Rewritten(s, Put(s, j, New(c)))
      BY <1>1, <2>1, <3>2, <3>4, PutOver
    <3> QED BY <3>1, <3>3, RewriteStep
  <2> QED BY <2>2, <2>3
<1>5. CASE c.op \in {"GetByKey", "List"}
  <2>1. DemoWorkflows(s, c).rows = s
    BY <1>1, <1>5
  <2> QED BY <1>1, <2>1, SameStep
<1>6. CASE c.op = "UpdateStatus"
  <2>1. DemoWorkflows(s, c).rows \in {s, Stated(s, ByKey(s, c), c.st)}
    BY <1>1, <1>6 DEF DemoUpdate, Stated
  <2>2. \A i \in DOMAIN s \cap ByKey(s, c) : MayTake(s[i], c.st)
    BY <1>1, <1>6 DEF MayTake, IsRevoked, Given, StatesOf, ByKey, Ids
  <2> QED BY <1>1, <2>1, <2>2, StateSet, SameStep, RewriteStep
<1> QED BY <1>2, <1>4, <1>5, <1>6

LEMMA DemoTemplatesStep ==
  ASSUME NEW s, Placed(s), NEW c, Asks(s, c, "templates")
  PROVE  DemoStep(s, c, DemoTemplates(s, c).rows)
<1> USE DEF DemoTemplates, Many, One, Nothing, Result
<1>1. c.t = "templates" /\ Given(s, c) /\ IsStore(s)
  BY DEF Asks, Placed
<1>2. c.op \in {"Create", "GetByKey", "Update", "Delete", "List"}
  BY OpsOfTables DEF Asks
<1>3. \A i \in Ids(s, c.t) : s[i].t = "templates"
  BY <1>1 DEF Ids
<1>4. CASE c.op = "Create"
  <2>1. IsRow(New(c)) /\ New(c).t = c.t /\ New(c).key = c.key /\ c.id = next
    BY <1>1, <1>4, NewRow DEF Given, Tables
  <2>2. ByKey(s, c) = {} => KeyIsNew(s, New(c))
    BY <1>1, <2>1 DEF KeyIsNew, ByKey
  <2>3. DemoTemplates(s, c).rows = IF ByKey(s, c) = {} THEN Put(s, c.id, New(c)) ELSE s
    BY <1>1, <1>4 DEF DemoPut
  <2> QED BY <1>1, <2>1, <2>2, <2>3, AddStep, SameStep
<1>5. CASE c.op \in {"GetByKey", "List"}
  <2>1. DemoTemplates(s, c).rows = s
    BY <1>1, <1>5
  <2> QED BY <1>1, <2>1, SameStep
<1>6. CASE c.op = "Update"
  <2>1. DemoTemplates(s, c).rows \in {s, Touched(s, ByKey(s, c))}
    BY <1>1, <1>6 DEF DemoUpdate, DemoSet, Touched
  <2>2. \A i \in DOMAIN s \cap ByKey(s, c) : ~IsRevoked(s[i])
    BY <1>1, <1>3, <1>6 DEF IsRevoked, Ids, ByKey
  <2> QED BY <1>1, <2>1, <2>2, TouchSet, SameStep, RewriteStep
<1>7. CASE c.op = "Delete"
  <2>1. DemoTemplates(s, c).rows = DemoDelete(s, ByKey(s, c)).rows
    BY <1>1, <1>7
  <2>2. \A i \in DOMAIN s : IsRevoked(s[i]) => i \notin ByKey(s, c)
    BY <1>1, <1>3 DEF IsRevoked, ByKey
  <2> QED BY <1>1, <2>1, <2>2, CutStep
<1> QED BY <1>2, <1>4, <1>5, <1>6, <1>7

LEMMA DemoMessagesStep ==
  ASSUME NEW s, Placed(s), NEW c, Asks(s, c, "messages")
  PROVE  DemoStep(s, c, DemoMessages(s, c).rows)
<1> USE DEF DemoMessages, DemoMessageWrites, DemoMessageReads, Many, One, Nothing, Result
<1>1. c.t = "messages" /\ Given(s, c) /\ IsStore(s)
  BY DEF Asks, Placed
<1>2. c.op \in {"Create", "CreateDraft", "Get", "MarkRead", "List", "UpdateTags",
               "ListByThread"}
  BY OpsOfTables DEF Asks
<1>3. \A i \in Ids(s, c.t) : s[i].t = "messages"
  BY <1>1 DEF Ids
<1>4. CASE c.op = "Create"
  <2>1. DemoMessages(s, c).rows = Put(s, c.id, New(c))
    BY <1>1, <1>4 DEF DemoInsert
  <2> QED BY <1>1, <1>4, <2>1, NewStep DEF Tables, Keyed
<1>5. CASE c.op = "CreateDraft"
  <2>1. IsRow(New(c)) /\ New(c).t = c.t /\ New(c).key = c.key /\ c.id = next
    BY <1>1, <1>5, NewRow DEF Given, Tables
  <2>2. IsRow(Touch(New(c))) /\ Touch(New(c)).t = "messages"
    BY <1>1, <2>1, TouchRow DEF SameLinks, SameKey
  <2>3. KeyIsNew(s, Touch(New(c)))
    BY <2>2 DEF KeyIsNew
  <2>4. DemoMessages(s, c).rows = Put(s, c.id, Touch(New(c)))
    BY <1>1, <1>5 DEF DemoInsert
  <2> QED BY <1>1, <2>1, <2>2, <2>3, <2>4, AddStep
<1>6. CASE c.op \in {"Get", "List", "ListByThread"}
  <2>1. DemoMessages(s, c).rows = s
    BY <1>1, <1>6
  <2> QED BY <1>1, <2>1, SameStep
<1>7. CASE c.op = "MarkRead"
  <2>1. DemoMessages(s, c).rows \in {s, Stated(s, At(s, c), "read")}
    BY <1>1, <1>7 DEF DemoUpdate, DemoSet, Stated
  <2>2. \A i \in DOMAIN s \cap At(s, c) : MayTake(s[i], "read")
    BY <1>1, <1>3, <1>7 DEF MayTake, IsRevoked, Given, States, StatesOf, Ids, At
  <2> QED BY <1>1, <2>1, <2>2, StateSet, SameStep, RewriteStep
<1>8. CASE c.op = "UpdateTags"
  <2> DEFINE tags == [i \in DOMAIN s |-> c.tags]
  <2>1. \A i \in DOMAIN s : tags[i] = c.tags
    OBVIOUS
  <2> HIDE DEF tags
  <2>2. DemoMessages(s, c).rows \in {s, Tagged(s, At(s, c), tags)}
    BY <1>1, <1>8, <2>1 DEF DemoUpdate, Set, Tagged, Tagged
  <2>3. \A i \in DOMAIN s \cap At(s, c) : ~IsRevoked(s[i])
    BY <1>1, <1>3 DEF IsRevoked, Ids, At
  <2> QED BY <1>1, <2>2, <2>3, TagsSet, SameStep, RewriteStep
<1> QED BY <1>2, <1>4, <1>5, <1>6, <1>7, <1>8

\* Every method of the demo store.
LEMMA DemoCallStep ==
  ASSUME NEW s, Placed(s), NEW t \in Tables, NEW c \in CallsOn(s, t)
  PROVE  DemoStep(s, c, DemoCall(s, c).rows)
<1>1. Asks(s, c, t) /\ c.t = t
  BY CallShape DEF Shaped, Asks, Ops
<1>2. CASE t = "users"
  <2>1. DemoCall(s, c) = DemoUsers(s, c)
    BY <1>1, <1>2 DEF DemoCall
  <2> QED BY <1>1, <1>2, <2>1, DemoUsersStep
<1>3. CASE t = "invites"
  <2>1. DemoCall(s, c) = DemoInvites(s, c)
    BY <1>1, <1>3 DEF DemoCall
  <2> QED BY <1>1, <1>3, <2>1, DemoInvitesStep
<1>4. CASE t = "tokens"
  <2>1. DemoCall(s, c) = DemoTokens(s, c)
    BY <1>1, <1>4 DEF DemoCall
  <2> QED BY <1>1, <1>4, <2>1, DemoTokensStep
<1>5. CASE t = "notifications"
  <2>1. DemoCall(s, c) = DemoNotifications(s, c)
    BY <1>1, <1>5 DEF DemoCall
  <2> QED BY <1>1, <1>5, <2>1, DemoNotificationsStep
<1>6. CASE t = "audit"
  <2>1. DemoCall(s, c) = DemoAudit(s, c)
    BY <1>1, <1>6 DEF DemoCall
  <2> QED BY <1>1, <1>6, <2>1, DemoAuditStep
<1>7. CASE t = "companies"
  <2>1. DemoCall(s, c) = DemoCompanies(s, c)
    BY <1>1, <1>7 DEF DemoCall
  <2> QED BY <1>1, <1>7, <2>1, DemoCompaniesStep
<1>8. CASE t = "contacts"
  <2>1. DemoCall(s, c) = DemoContacts(s, c)
    BY <1>1, <1>8 DEF DemoCall
  <2> QED BY <1>1, <1>8, <2>1, DemoContactsStep
<1>9. CASE t = "deals"
  <2>1. DemoCall(s, c) = DemoDeals(s, c)
    BY <1>1, <1>9 DEF DemoCall
  <2> QED BY <1>1, <1>9, <2>1, DemoDealsStep
<1>10. CASE t = "todos"
  <2>1. DemoCall(s, c) = DemoTodos(s, c)
    BY <1>1, <1>10 DEF DemoCall
  <2> QED BY <1>1, <1>10, <2>1, DemoTodosStep
<1>11. CASE t = "appointments"
  <2>1. DemoCall(s, c) = DemoAppointments(s, c)
    BY <1>1, <1>11 DEF DemoCall
  <2> QED BY <1>1, <1>11, <2>1, DemoAppointmentsStep
<1>12. CASE t = "notes"
  <2>1. DemoCall(s, c) = DemoNotes(s, c)
    BY <1>1, <1>12 DEF DemoCall
  <2> QED BY <1>1, <1>12, <2>1, DemoNotesStep
<1>13. CASE t = "calls"
  <2>1. DemoCall(s, c) = DemoCalls(s, c)
    BY <1>1, <1>13 DEF DemoCall
  <2> QED BY <1>1, <1>13, <2>1, DemoCallsStep
<1>14. CASE t = "articles"
  <2>1. DemoCall(s, c) = DemoArticles(s, c)
    BY <1>1, <1>14 DEF DemoCall
  <2> QED BY <1>1, <1>14, <2>1, DemoArticlesStep
<1>15. CASE t = "jobs"
  <2>1. DemoCall(s, c) = DemoJobs(s, c)
    BY <1>1, <1>15 DEF DemoCall
  <2> QED BY <1>1, <1>15, <2>1, DemoJobsStep
<1>16. CASE t \in {"workflows", "runs"}
  <2>1. DemoCall(s, c) = DemoWorkflows(s, c)
    BY <1>1, <1>16 DEF DemoCall
  <2> QED BY <1>1, <1>16, <2>1, DemoWorkflowsStep
<1>17. CASE t = "templates"
  <2>1. DemoCall(s, c) = DemoTemplates(s, c)
    BY <1>1, <1>17 DEF DemoCall
  <2> QED BY <1>1, <1>17, <2>1, DemoTemplatesStep
<1>18. CASE t = "accounts"
  <2>1. DemoCall(s, c) = DemoAccounts(s, c)
    BY <1>1, <1>18 DEF DemoCall
  <2> QED BY <1>1, <1>18, <2>1, DemoAccountsStep
<1>19. CASE t = "messages"
  <2>1. DemoCall(s, c) = DemoMessages(s, c)
    BY <1>1, <1>19 DEF DemoCall
  <2> QED BY <1>1, <1>19, <2>1, DemoMessagesStep
<1>20. CASE t = "attachments"
  <2>1. DemoCall(s, c) = DemoAttachments(s, c)
    BY <1>1, <1>20 DEF DemoCall
  <2> QED BY <1>1, <1>20, <2>1, DemoAttachmentsStep
<1> QED BY <1>2, <1>3, <1>4, <1>5, <1>6, <1>7, <1>8, <1>9, <1>10, <1>11, <1>12, <1>13, <1>14, <1>15,
           <1>16, <1>17, <1>18, <1>19, <1>20 DEF Tables

-----------------------------------------------------------------------------
(* What a statement leaves behind.                                          *)
Freed(r, q, s2) ==
    \E f \in [Columns("deals") -> {0, 1}] :
        q = [r EXCEPT !.refs = [col \in Columns("deals") |->
                IF f[col] = 1 /\ @[col] \notin DOMAIN s2 THEN Null ELSE @[col]]]

StaysSpent(r, q) ==
    /\ r.t = "tokens" /\ r.st # "fresh" => q.st # "fresh"
    /\ r.t = "invites" /\ r.st = "consumed" => q.st = "consumed"

SqlStep(s, c, s2) ==
    /\ IsStore(s2)
    /\ Grows(s, c, s2)
    /\ Sound(s) => Sound(s2)
    /\ \A i \in DOMAIN s : i \in DOMAIN s2 => StaysSpent(s[i], s2[i])
    /\ \A i \in DOMAIN s : IsRevoked(s[i]) => i \in DOMAIN s2 /\ Freed(s[i], s2[i], s2)

LEMMA SameIsFreed ==
  ASSUME NEW r, IsRow(r), r.t = "deals", NEW s2
  PROVE  Freed(r, r, s2)
<1> DEFINE f == [col \in Columns("deals") |-> 0]
           g == [col \in Columns("deals") |-> r.refs[col]]
           h == [col \in Columns("deals") |-> IF f[col] = 1 /\ r.refs[col] \notin DOMAIN s2 THEN Null ELSE r.refs[col]]
<1>1. h = g
  OBVIOUS
<1>2. r = [r EXCEPT !.refs = g]
  BY DEF IsRow
<1>3. f \in [Columns("deals") -> {0, 1}]
  OBVIOUS
<1> HIDE DEF f
<1> QED BY <1>1, <1>2, <1>3 DEF Freed

LEMMA SqlRewrite ==
  ASSUME NEW s, IsStore(s), NEW c, NEW s2, Rewritten(s, s2),
         \A i \in DOMAIN s : SameLinks(s[i], s2[i]) \/ ReferencesHold(s, s2[i])
  PROVE  SqlStep(s, c, s2)
<1>1. IsStore(s2) /\ DOMAIN s2 = DOMAIN s
  BY DEF Rewritten
<1>2. ASSUME Sound(s)
      PROVE  Sound(s2)
  <2>1. \A i \in DOMAIN s : ReferencesHold(s, s[i])
    BY <1>2 DEF Sound, Valid
  <2>2. \A i \in DOMAIN s : SameLinks(s[i], s2[i]) => ReferencesHold(s, s2[i])
    BY <2>1 DEF SameLinks, SameKey, ReferencesHold
  <2>3. \A i \in DOMAIN s : SameKey(s[i], s2[i]) /\ ReferencesHold(s, s2[i])
    BY <2>2 DEF Rewritten
  <2> QED BY <1>1, <1>2, <2>3, RewriteSound
<1>3. \A i \in DOMAIN s : StaysSpent(s[i], s2[i])
  BY DEF Rewritten, StaysFinal, StaysSpent
<1>4. \A i \in DOMAIN s : IsRevoked(s[i]) => s2[i] = s[i] /\ IsRow(s[i]) /\ s[i].t = "deals"
  BY DEF Rewritten, StaysFinal, IsRevoked, IsStore
<1>5. \A i \in DOMAIN s : IsRevoked(s[i]) => Freed(s[i], s2[i], s2)
  BY <1>4, SameIsFreed
<1> QED BY <1>1, <1>2, <1>3, <1>5 DEF SqlStep, Grows

LEMMA SqlSame ==
  ASSUME NEW s, IsStore(s), NEW c
  PROVE  SqlStep(s, c, s)
<1>1. Rewritten(s, s)
  BY DEF Rewritten, SameKey, StaysFinal
<1> QED BY <1>1, SqlRewrite DEF SameLinks, SameKey

LEMMA SqlAdd ==
  ASSUME NEW s, Placed(s), NEW c, c.id = next, NEW r, IsRow(r), Valid(s, c.id, r)
  PROVE  SqlStep(s, c, Put(s, c.id, r))
<1> DEFINE s2 == Put(s, c.id, r)
<1>1. next \notin DOMAIN s /\ next \in Nat
  BY DEF Placed
<1>2. s2[next] = r /\ \A j \in DOMAIN s : s2[j] = s[j]
  BY <1>1, PutRows
<1>3. DOMAIN s2 = DOMAIN s \cup {next}
  BY PutDomain
<1>4. IsStore(s2)
  BY PutStore DEF Placed
<1>5. Sound(s) => Sound(s2)
  BY <1>1, PutSound
<1> HIDE DEF s2
<1>6. Grows(s, c, s2)
  BY <1>1, <1>3, FreshIsNat DEF Grows
<1>7. \A i \in DOMAIN s : StaysSpent(s[i], s2[i])
  BY <1>2 DEF StaysSpent
<1>8. \A i \in DOMAIN s : IsRevoked(s[i]) => Freed(s[i], s2[i], s2)
  BY <1>2, SameIsFreed DEF IsRevoked, Placed, IsStore
<1> QED BY <1>3, <1>4, <1>5, <1>6, <1>7, <1>8 DEF SqlStep, s2

LEMMA SqlInsertStep ==
  ASSUME NEW s, Placed(s), NEW c, c.id = next, NEW r, IsRow(r)
  PROVE  SqlStep(s, c, SqlInsert(s, c, r).rows)
<1>1. CASE Valid(s, c.id, r)
  <2>1. SqlInsert(s, c, r).rows = Put(s, c.id, r)
    BY <1>1 DEF SqlInsert, Many, Result
  <2> QED BY <1>1, <2>1, SqlAdd
<1>2. CASE ~Valid(s, c.id, r)
  <2>1. SqlInsert(s, c, r).rows = s
    BY <1>2 DEF SqlInsert, Nothing, Result
  <2> QED BY <2>1, SqlSame DEF Placed
<1> QED BY <1>1, <1>2

LEMMA SqlNewStep ==
  ASSUME NEW s, Placed(s), NEW c, c.t \in Tables, c.op \in {"Create", "CreateDraft"}, Given(s, c)
  PROVE  /\ SqlStep(s, c, SqlInsert(s, c, New(c)).rows)
         /\ SqlStep(s, c, SqlInsert(s, c, Unowned(c)).rows)
         /\ SqlStep(s, c, SqlInsert(s, c, Touch(New(c))).rows)
<1>1. c.id = next /\ IsRow(New(c)) /\ IsRow(Unowned(c))
  BY NewRow, UnownedRow DEF Given
<1>2. IsRow(Touch(New(c)))
  BY <1>1, TouchRow
<1> QED BY <1>1, <1>2, SqlInsertStep

\* What DELETE does to a deal that stays.
LEMMA UnlinkedIsFreed ==
  ASSUME NEW r, IsRow(r), r.t = "deals", NEW D, NEW s2, D \cap DOMAIN s2 = {}
  PROVE  Freed(r, Unlinked(r, D), s2)
<1> DEFINE f == [col \in Columns("deals") |-> IF r.refs[col] \in D THEN 1 ELSE 0]
           g == [col \in Columns("deals") |->
                   IF col \in References("deals") /\ r.refs[col] \in D THEN Null ELSE r.refs[col]]
           h == [col \in Columns("deals") |-> IF f[col] = 1 /\ r.refs[col] \notin DOMAIN s2 THEN Null ELSE r.refs[col]]
<1>1. Columns("deals") = References("deals") /\ DOMAIN r.refs = Columns("deals")
  BY DEF Columns, References, IsRow
<1>2. h = g
  BY <1>1
<1>3. Unlinked(r, D) = [r EXCEPT !.refs = g]
  BY <1>1 DEF Unlinked, IsRow
<1>4. f \in [Columns("deals") -> {0, 1}]
  OBVIOUS
<1> HIDE DEF f
<1> QED BY <1>2, <1>3, <1>4 DEF Freed

LEMMA SqlCut ==
  ASSUME NEW s, Placed(s), NEW c, NEW S \in SUBSET DOMAIN s,
         \A i \in S : s[i].t # "users" /\ ~IsRevoked(s[i])
  PROVE  SqlStep(s, c, SqlDelete(s, S).rows)
<1> DEFINE D == Cascaded(s, Cascaded(s, S))
           s2 == SqlDelete(s, S).rows
<1>1. IsStore(s) /\ Null \notin DOMAIN s
  BY DEF Placed, Null
<1>2. s2 = [i \in DOMAIN s \ D |-> Unlinked(s[i], D)]
  BY <1>1, DeleteFacts
<1>3. Sound(s) => Sound(s2)
  BY <1>1, DeleteSound
<1>4. DOMAIN s2 = DOMAIN s \ D /\ \A i \in DOMAIN s2 : s2[i] = Unlinked(s[i], D)
  BY <1>2
<1>5. s2 = [i \in DOMAIN s2 |-> s2[i]]
  BY <1>2
<1>6. \A i \in D : ~IsRevoked(s[i])
  BY CascadedTables DEF IsRevoked
<1> HIDE DEF s2, D
<1>7. IsStore(s2)
  BY <1>1, <1>4, <1>5, UnlinkedRow DEF IsStore
<1>8. \A i \in DOMAIN s : i \in DOMAIN s2 => StaysSpent(s[i], s2[i])
  BY <1>1, <1>4, UnlinkedRow DEF IsStore, StaysSpent, SameKey
<1>9. ASSUME NEW i \in DOMAIN s, IsRevoked(s[i])
      PROVE  i \in DOMAIN s2 /\ Freed(s[i], s2[i], s2)
  <2>1. i \in DOMAIN s2 /\ s2[i] = Unlinked(s[i], D) /\ D \cap DOMAIN s2 = {}
    BY <1>4, <1>6, <1>9
  <2>2. IsRow(s[i]) /\ s[i].t = "deals"
    BY <1>1, <1>9 DEF IsStore, IsRevoked
  <2> QED BY <2>1, <2>2, UnlinkedIsFreed
<1> QED BY <1>3, <1>4, <1>7, <1>8, <1>9 DEF SqlStep, Grows, s2

-----------------------------------------------------------------------------
(* Edits that look at the references first.                                 *)
LEMMA TouchStep ==
  ASSUME NEW s, IsStore(s), NEW c, NEW S, \A i \in DOMAIN s \cap S : ~IsRevoked(s[i])
  PROVE  SqlStep(s, c, Touched(s, S))
  BY TouchSet, SqlRewrite

LEMMA StateStep ==
  ASSUME NEW s, IsStore(s), NEW c, NEW S, NEW st, \A i \in DOMAIN s \cap S : MayTake(s[i], st)
  PROVE  SqlStep(s, c, Stated(s, S, st))
  BY StateSet, SqlRewrite

LEMMA TagsStep ==
  ASSUME NEW s, IsStore(s), NEW c, NEW S, NEW tags, \A i \in DOMAIN s \cap S : ~IsRevoked(s[i])
  PROVE  SqlStep(s, c, Tagged(s, S, tags))
<1> DEFINE s2 == Tagged(s, S, tags)
<1>1. Rewritten(s, s2)
  BY TagsSet
<1>2. ASSUME NEW i \in DOMAIN s
      PROVE  SameLinks(s[i], s2[i])
  <2>1. IsRow(s[i]) /\ s2[i] = IF i \in S THEN [s[i] EXCEPT !.tags = tags[i]] ELSE s[i]
    BY DEF Tagged, IsStore
  <2> HIDE DEF s2
  <2> QED BY <2>1, TagsRow DEF SameLinks, SameKey
<1> HIDE DEF s2
<1>3. SqlStep(s, c, s2)
  BY <1>1, <1>2, SqlRewrite
<1> QED BY <1>3 DEF s2

LEMMA RevokeStep ==
  ASSUME NEW s, IsStore(s), NEW c, NEW S, \A i \in DOMAIN s \cap S : s[i].t = "deals"
  PROVE  SqlStep(s, c, RevokedRows(s, S))
<1> DEFINE s2 == RevokedRows(s, S)
<1>1. Rewritten(s, s2)
  BY RevokedSet
<1>2. ASSUME NEW i \in DOMAIN s
      PROVE  SameLinks(s[i], s2[i])
  <2>1. s2[i] = IF i \in S /\ s[i].st # Revoked THEN SetState(Touch(s[i]), Revoked) ELSE s[i]
    BY DEF RevokedRows
  <2> HIDE DEF s2
  <2>2. IsRow(s[i]) /\ IsRow(Touch(s[i])) /\ SameLinks(s[i], Touch(s[i]))
    BY TouchRow DEF IsStore
  <2>3. i \in S => Revoked \in StatesOf(Touch(s[i]).t)
    BY <2>2 DEF StatesOf, SameLinks, SameKey
  <2>4. i \in S => SameLinks(Touch(s[i]), SetState(Touch(s[i]), Revoked))
    BY <2>2, <2>3, StateRow
  <2> QED BY <2>1, <2>2, <2>4 DEF SameLinks, SameKey
<1> HIDE DEF s2
<1>3. SqlStep(s, c, s2)
  BY <1>1, <1>2, SqlRewrite
<1> QED BY <1>3 DEF s2

LEMMA OwnerStep ==
  ASSUME NEW s, IsStore(s), NEW c, NEW S, NEW owner,
         \A i \in DOMAIN s \cap S : s[i].t \notin {"deals", "tokens", "invites"},
         \A i \in DOMAIN s \cap S : Valid(s, i, SetOwner(s[i], owner))
  PROVE  SqlStep(s, c, Owned(s, S, owner))
<1> DEFINE s2 == Owned(s, S, owner)
<1>1. Rewritten(s, s2)
  BY OwnerSet
<1>2. \A i \in DOMAIN s : s2[i] = IF i \in S THEN SetOwner(s[i], owner) ELSE s[i]
  BY DEF Owned, Set
<1> HIDE DEF s2
<1>3. SqlStep(s, c, s2)
  BY <1>1, <1>2, SqlRewrite DEF SameLinks, SameKey, Valid
<1> QED BY <1>3 DEF s2

LEMMA LinksStep ==
  ASSUME NEW s, IsStore(s), NEW c, NEW S, NEW refs,
         \A i \in DOMAIN s \cap S :
            s[i].t \notin {"deals", "tokens", "invites"} /\ refs = [col \in Columns(s[i].t) |-> refs[col]],
         \A i \in DOMAIN s \cap S : Valid(s, i, WithRefs(s[i], refs))
  PROVE  SqlStep(s, c, Linked(s, S, refs))
<1> DEFINE s2 == Linked(s, S, refs)
<1>1. Rewritten(s, s2)
  BY LinksSet
<1>2. \A i \in DOMAIN s : s2[i] = IF i \in S THEN WithRefs(s[i], refs) ELSE s[i]
  BY DEF Linked, Set
<1> HIDE DEF s2
<1>3. SqlStep(s, c, s2)
  BY <1>1, <1>2, SqlRewrite DEF SameLinks, SameKey, Valid
<1> QED BY <1>3 DEF s2

LEMMA GivenStep ==
  ASSUME NEW s, IsStore(s), NEW c, NEW S, NEW refs, NEW owner, NEW st,
         \A i \in DOMAIN s \cap S :
            /\ s[i].t \notin {"tokens", "invites"} /\ ~IsRevoked(s[i])
            /\ st \in StatesOf(s[i].t) /\ refs = [col \in Columns(s[i].t) |-> refs[col]],
         \A i \in DOMAIN s \cap S : Valid(s, i, Given3(s[i], refs, owner, st))
  PROVE  SqlStep(s, c, Filled(s, S, refs, owner, st))
<1> DEFINE s2 == Filled(s, S, refs, owner, st)
<1>1. Rewritten(s, s2)
  BY GivenSet
<1>2. \A i \in DOMAIN s : s2[i] = IF i \in S THEN Given3(s[i], refs, owner, st) ELSE s[i]
  BY DEF Filled, Given3, Set
<1> HIDE DEF s2
<1>3. SqlStep(s, c, s2)
  BY <1>1, <1>2, SqlRewrite DEF SameLinks, SameKey, Valid
<1> QED BY <1>3 DEF s2

LEMMA MetStep ==
  ASSUME NEW s, IsStore(s), NEW c, NEW S, NEW x, \A i \in DOMAIN s \cap S : s[i].t = "appointments",
         \A i \in DOMAIN s \cap S : ReferencesHold(s, Met(s, S, x)[i])
  PROVE  SqlStep(s, c, Met(s, S, x))
<1> DEFINE s2 == Met(s, S, x)
<1>1. Rewritten(s, s2)
  BY MetSet
<1>2. \A i \in DOMAIN s : i \notin S => s2[i] = s[i]
  BY DEF Met
<1> HIDE DEF s2
<1>3. SqlStep(s, c, s2)
  BY <1>1, <1>2, SqlRewrite DEF SameLinks, SameKey, s2
<1> QED BY <1>3 DEF s2

\* An invite is consumed and its user becomes active in one statement.
AcceptedRows(s, S) ==
    [i \in DOMAIN s |-> IF i \in S THEN SetState(s[i], IF s[i].t = "users" THEN "ACTIVE" ELSE "consumed") ELSE s[i]]

LEMMA AcceptStep ==
  ASSUME NEW s, IsStore(s), NEW c, NEW S, \A i \in DOMAIN s \cap S : s[i].t \in {"users", "invites"}
  PROVE  SqlStep(s, c, AcceptedRows(s, S))
<1> DEFINE s2 == AcceptedRows(s, S)
           st(i) == IF s[i].t = "users" THEN "ACTIVE" ELSE "consumed"
<1>1. DOMAIN s2 = DOMAIN s /\ s2 = [i \in DOMAIN s2 |-> s2[i]]
  BY DEF AcceptedRows
<1>2. \A i \in DOMAIN s : s2[i] = IF i \in S THEN SetState(s[i], st(i)) ELSE s[i]
  BY DEF AcceptedRows
<1> HIDE DEF s2
<1>3. ASSUME NEW i \in DOMAIN s, i \in S
      PROVE  IsRow(s2[i]) /\ SameLinks(s[i], s2[i]) /\ StaysFinal(s[i], s2[i])
  <2>1. IsRow(s[i]) /\ s[i].t \in {"users", "invites"}
    BY <1>3 DEF IsStore
  <2>2. st(i) \in StatesOf(s[i].t) /\ (s[i].t = "invites" => st(i) = "consumed")
    BY <2>1 DEF StatesOf, States
  <2> HIDE DEF st
  <2>3. IsRow(s2[i]) /\ SameLinks(s[i], s2[i]) /\ s2[i].st = st(i)
    BY <1>2, <1>3, <2>1, <2>2, StateRow
  <2> QED BY <2>1, <2>2, <2>3 DEF StaysFinal
<1>4. \A i \in DOMAIN s : s2[i] = s[i] \/ (IsRow(s2[i]) /\ SameLinks(s[i], s2[i]) /\ StaysFinal(s[i], s2[i]))
  BY <1>2, <1>3
<1>5. Rewritten(s, s2)
  BY <1>1, <1>4, RewrittenRows DEF SameLinks
<1>6. \A i \in DOMAIN s : SameLinks(s[i], s2[i])
  BY <1>4 DEF SameLinks, SameKey
<1>7. SqlStep(s, c, s2)
  BY <1>5, <1>6, SqlRewrite
<1> QED BY <1>7 DEF s2

\* One statement creates a user and an invite.
LEMMA InviteStep ==
  ASSUME NEW s, Placed(s), NEW c, c.op = "CreateInvited", c.id = next,
         NEW q, IsRow(q), q.t = "users", Valid(s, next, q),
         NEW r, IsRow(r), r.t = "invites", r.owner = next, KeyIsFree(s, next + 1, r)
  PROVE  SqlStep(s, c, Put(Put(s, next, q), next + 1, r))
<1> DEFINE s1 == Put(s, next, q)
           s2 == Put(s1, next + 1, r)
<1>1. next \in Nat \ {0} /\ DOMAIN s \subseteq 1 .. next - 1 /\ IsStore(s)
  BY DEF Placed
<1>2. SqlStep(s, c, s1)
  BY SqlAdd
<1>3. DOMAIN s1 = DOMAIN s \cup {next}
  BY PutDomain
<1>4. s1[next] = q /\ \A j \in DOMAIN s : j # next => s1[j] = s[j]
  BY PutRows
<1> HIDE DEF s1
<1>5. next + 1 \notin DOMAIN s1 /\ next \notin DOMAIN s
  BY <1>1, <1>3
<1>6. s2[next + 1] = r /\ \A j \in DOMAIN s1 : s2[j] = s1[j]
  BY <1>5, PutRows
<1>7. DOMAIN s2 = DOMAIN s1 \cup {next + 1}
  BY PutDomain
<1>8. IsStore(s2)
  BY <1>2, PutStore DEF SqlStep
<1>9. Ids(s1, "invites") = Ids(s, "invites") /\ next \in Ids(s1, "users")
  BY <1>3, <1>4, <1>5 DEF Ids
<1>10. Valid(s1, next + 1, r)
  <2>1. References("invites") = {}
    BY DEF References
  <2>2. KeyIsFree(s1, next + 1, r)
    BY <1>4, <1>5, <1>9 DEF KeyIsFree, Ids
  <2> QED BY <1>9, <2>1, <2>2 DEF Valid, ReferencesHold
<1>11. Sound(s) => Sound(s2)
  BY <1>2, <1>5, <1>10, PutSound DEF SqlStep
<1> HIDE DEF s2
<1>12. Grows(s, c, s2)
  BY <1>1, <1>3, <1>7, FreshIsNat DEF Grows
<1>13. \A i \in DOMAIN s : s2[i] = s[i] /\ i \in DOMAIN s2
  BY <1>3, <1>4, <1>5, <1>6, <1>7
<1>14. \A i \in DOMAIN s : StaysSpent(s[i], s2[i])
  BY <1>13 DEF StaysSpent
<1>15. \A i \in DOMAIN s : IsRevoked(s[i]) => Freed(s[i], s2[i], s2)
  BY <1>1, <1>13, SameIsFreed DEF IsRevoked, IsStore
<1>16. SqlStep(s, c, s2)
  BY <1>8, <1>11, <1>12, <1>13, <1>14, <1>15 DEF SqlStep
<1> QED BY <1>16 DEF s1, s2

-----------------------------------------------------------------------------
(* The queries of PostgreSQL.                                               *)
LEMMA SqlUsersStep ==
  ASSUME NEW s, Placed(s), NEW c, Asks(s, c, "users")
  PROVE  SqlStep(s, c, SqlUsers(s, c).rows)
<1> USE DEF SqlUsers, Many, One, Nothing, Result
<1>1. c.t = "users" /\ Given(s, c) /\ IsStore(s) /\ c.t \in Tables
  BY DEF Asks, Placed, Tables
<1>2. c.op \in {"Create", "Get", "Update", "IncrementTokenVersion", "GetByKey", "List",
               "UpdateStatus"}
  BY OpsOfTables DEF Asks
<1>3. \A i \in Ids(s, c.t) : i \in DOMAIN s /\ s[i].t = "users"
  BY <1>1 DEF Ids
<1>4. CASE c.op = "Create"
  <2>1. SqlUsers(s, c).rows = SqlInsert(s, c, New(c)).rows
    BY <1>1, <1>4 DEF SqlCreateUser
  <2> QED BY <1>1, <1>4, <2>1, SqlNewStep
<1>5. CASE c.op \in {"Get", "GetByKey"}
  <2>1. SqlUsers(s, c).rows = s
    BY <1>1, <1>5 DEF SqlUserReads
  <2> QED BY <1>1, <2>1, SqlSame
<1>6. CASE c.op = "List"
  <2>1. SqlUsers(s, c).rows = s
    BY <1>1, <1>6 DEF SqlListUsers
  <2> QED BY <1>1, <2>1, SqlSame
<1>7. CASE c.op = "Update"
  <2> DEFINE S == At(s, c)
  <2>1. SqlUsers(s, c).rows \in {s, Touched(s, S)}
    BY <1>1, <1>7 DEF SqlUpdate, SqlExec, Set, Touched, SqlUserUpdates
  <2>2. \A i \in DOMAIN s \cap S : ~IsRevoked(s[i])
    BY <1>1, <1>3, <1>7 DEF IsRevoked, Ids, At
  <2> HIDE DEF S
  <2> QED BY <1>1, <2>1, <2>2, TouchStep, SqlSame
<1>8. CASE c.op = "UpdateStatus"
  <2> DEFINE S == At(s, c)
  <2>1. SqlUsers(s, c).rows \in {s, Stated(s, S, c.st)}
    BY <1>1, <1>8 DEF SqlUpdate, SqlExec, Set, Stated, SqlUserUpdates
  <2>2. \A i \in DOMAIN s \cap S : MayTake(s[i], c.st)
    BY <1>1, <1>3, <1>8 DEF MayTake, IsRevoked, Given, States, StatesOf, Ids, At
  <2> HIDE DEF S
  <2> QED BY <1>1, <2>1, <2>2, StateStep, SqlSame
<1>9. CASE c.op = "IncrementTokenVersion"
  <2> DEFINE S == At(s, c)
  <2>1. SqlUsers(s, c).rows \in {s, Touched(s, S)}
    BY <1>1, <1>9 DEF SqlUpdate, SqlExec, Set, Touched, SqlIncrementUserTokenVersion
  <2>2. \A i \in DOMAIN s \cap S : ~IsRevoked(s[i])
    BY <1>1, <1>3, <1>9 DEF IsRevoked, Ids, At
  <2> HIDE DEF S
  <2> QED BY <1>1, <2>1, <2>2, TouchStep, SqlSame
<1> QED BY <1>2, <1>4, <1>5, <1>6, <1>7, <1>8, <1>9

LEMMA SqlInvitesStep ==
  ASSUME NEW s, Placed(s), NEW c, Asks(s, c, "invites")
  PROVE  SqlStep(s, c, SqlInvites(s, c).rows)
<1> USE DEF SqlInvites, Many, One, Nothing, Result
<1>1. c.t = "invites" /\ Given(s, c) /\ IsStore(s) /\ c.t \in Tables
  BY DEF Asks, Placed, Tables
<1>2. c.op \in {"Create", "CreateInvited", "Revoke", "GetByKey", "Accept", "List"}
  BY OpsOfTables DEF Asks
<1>3. \A i \in Ids(s, c.t) : i \in DOMAIN s /\ s[i].t = "invites"
  BY <1>1 DEF Ids
<1>4. CASE c.op = "Create"
  <2>1. SqlInvites(s, c).rows = SqlInsert(s, c, New(c)).rows
    BY <1>1, <1>4 DEF SqlCreateUserInvite
  <2> QED BY <1>1, <1>4, <2>1, SqlNewStep
<1>5. CASE c.op \in {"GetByKey", "List"}
  <2>1. SqlInvites(s, c).rows = s
    BY <1>1, <1>5 DEF SqlInviteReads
  <2> QED BY <1>1, <2>1, SqlSame
<1>6. CASE c.op = "Revoke"
  <2> DEFINE S == {i \in At(s, c) : s[i].st # "consumed"}
  <2>1. SqlInvites(s, c).rows \in {s, Stated(s, S, "revoked")}
    BY <1>1, <1>6 DEF SqlUpdate, SqlExec, Set, Stated, SqlRevokeUserInvite
  <2>2. \A i \in DOMAIN s \cap S : MayTake(s[i], "revoked")
    BY <1>1, <1>3, <1>6 DEF MayTake, IsRevoked, Given, States, StatesOf, Ids, At
  <2> HIDE DEF S
  <2> QED BY <1>1, <2>1, <2>2, StateStep, SqlSame
<1>7. CASE c.op = "CreateInvited"
  <2> DEFINE q == InvitedUser(c)
             r == InviteOf(c)
             both == Put(Put(s, next, q), next + 1, r)
  <2>1. c.id = next /\ c.refs = << >>
    BY <1>1, <1>7 DEF Given
  <2>2. /\ IsRow(q) /\ q.t = "users"
        /\ IsRow(r) /\ r.t = "invites" /\ r.owner = next
    BY <1>1, <2>1, InviteRows
  <2>3. \/ SqlInvites(s, c).rows = s
        \/ SqlInvites(s, c).rows = both /\ Valid(s, next, q) /\ KeyIsFree(s, next + 1, r)
    BY <1>1, <2>1, <1>7 DEF SqlCreateInvitedUser
  <2> HIDE DEF q, r
  <2> QED BY <1>1, <1>7, <2>1, <2>2, <2>3, InviteStep, SqlSame
<1>8. CASE c.op = "Accept"
  <2> DEFINE locked == {i \in ByKey(s, c) : s[i].st = "pending"}
             users == {u \in Ids(s, "users") : \E i \in locked : s[i].owner = u}
             S == locked \cup users
  <2>1. SqlInvites(s, c).rows = AcceptedRows(s, S)
    BY <1>1, <1>8 DEF SqlAcceptUserInvite, Set, AcceptedRows
  <2>2. \A i \in DOMAIN s \cap S : s[i].t \in {"users", "invites"}
    BY <1>1, <1>3 DEF ByKey, Ids
  <2> HIDE DEF S
  <2> QED BY <1>1, <2>1, <2>2, AcceptStep
<1> QED BY <1>2, <1>4, <1>5, <1>6, <1>7, <1>8

LEMMA SqlTokensStep ==
  ASSUME NEW s, Placed(s), NEW c, Asks(s, c, "tokens")
  PROVE  SqlStep(s, c, SqlTokens(s, c).rows)
<1> USE DEF SqlTokens, Many, One, Nothing, Result
<1>1. c.t = "tokens" /\ Given(s, c) /\ IsStore(s) /\ c.t \in Tables
  BY DEF Asks, Placed, Tables
<1>2. c.op \in {"Create", "Get", "GetByHash", "Consume", "Delete", "DeleteOfUser",
               "DeleteExpired", "DeleteFamily"}
  BY OpsOfTables DEF Asks
<1>3. \A i \in Ids(s, c.t) : i \in DOMAIN s /\ s[i].t = "tokens"
  BY <1>1 DEF Ids
<1>4. CASE c.op = "Create"
  <2>1. SqlTokens(s, c).rows = SqlInsert(s, c, New(c)).rows
    BY <1>1, <1>4 DEF SqlCreateRefreshToken
  <2> QED BY <1>1, <1>4, <2>1, SqlNewStep
<1>5. CASE c.op = "Consume"
  <2> DEFINE S == {i \in ByKey(s, c) : s[i].st = "fresh"}
  <2>1. SqlTokens(s, c).rows \in {s, Stated(s, S, "used")}
    BY <1>1, <1>5 DEF SqlUpdate, SqlExec, Set, Stated, SqlConsumeRefreshToken
  <2>2. \A i \in DOMAIN s \cap S : MayTake(s[i], "used")
    BY <1>1, <1>3, <1>5 DEF MayTake, IsRevoked, Given, States, StatesOf, Ids, ByKey
  <2> HIDE DEF S
  <2> QED BY <1>1, <2>1, <2>2, StateStep, SqlSame
<1>6. CASE c.op \in {"Get", "GetByHash"}
  <2>1. SqlTokens(s, c).rows = s
    BY <1>1, <1>6 DEF SqlTokenReads
  <2> QED BY <1>1, <2>1, SqlSame
<1>7. CASE c.op = "Delete"
  <2> DEFINE S == ByKey(s, c)
  <2>1. SqlTokens(s, c).rows = SqlDelete(s, S).rows
    BY <1>1, <1>7 DEF SqlTokenDeletes
  <2>2. \A i \in S : i \in DOMAIN s /\ s[i].t # "users" /\ ~IsRevoked(s[i])
    BY <1>1, <1>3 DEF IsRevoked, ByKey
  <2> HIDE DEF S
  <2> QED BY <2>1, <2>2, SqlCut
<1>8. CASE c.op = "DeleteOfUser"
  <2> DEFINE S == TokensOf(s, c)
  <2>1. SqlTokens(s, c).rows = SqlDelete(s, S).rows
    BY <1>1, <1>8 DEF SqlTokenDeletes
  <2>2. \A i \in S : i \in DOMAIN s /\ s[i].t # "users" /\ ~IsRevoked(s[i])
    BY <1>1, <1>3 DEF IsRevoked, TokensOf
  <2> HIDE DEF S
  <2> QED BY <2>1, <2>2, SqlCut
<1>9. CASE c.op = "DeleteFamily"
  <2> DEFINE S == FamilyOf(s, c)
  <2>1. SqlTokens(s, c).rows = SqlDelete(s, S).rows
    BY <1>1, <1>9 DEF SqlTokenDeletes
  <2>2. \A i \in S : i \in DOMAIN s /\ s[i].t # "users" /\ ~IsRevoked(s[i])
    BY <1>1, <1>3 DEF IsRevoked, FamilyOf
  <2> HIDE DEF S
  <2> QED BY <2>1, <2>2, SqlCut
<1>10. CASE c.op = "DeleteExpired"
  <2> DEFINE S == {i \in Ids(s, c.t) : s[i].st \in {"expired", "spent"}}
  <2>1. SqlTokens(s, c).rows = SqlDelete(s, S).rows
    BY <1>1, <1>10 DEF SqlTokenDeletes
  <2>2. \A i \in S : i \in DOMAIN s /\ s[i].t # "users" /\ ~IsRevoked(s[i])
    BY <1>1, <1>3 DEF IsRevoked, Ids
  <2> HIDE DEF S
  <2> QED BY <2>1, <2>2, SqlCut
<1> QED BY <1>2, <1>4, <1>5, <1>6, <1>7, <1>8, <1>9, <1>10

LEMMA SqlNotificationsStep ==
  ASSUME NEW s, Placed(s), NEW c, Asks(s, c, "notifications")
  PROVE  SqlStep(s, c, SqlNotifications(s, c).rows)
<1> USE DEF SqlNotifications, Many, One, Nothing, Result
<1>1. c.t = "notifications" /\ Given(s, c) /\ IsStore(s) /\ c.t \in Tables
  BY DEF Asks, Placed, Tables
<1>2. c.op \in {"Create", "MarkRead", "List", "ListUnread", "MarkAll"}
  BY OpsOfTables DEF Asks
<1>3. \A i \in Ids(s, c.t) : i \in DOMAIN s /\ s[i].t = "notifications"
  BY <1>1 DEF Ids
<1>4. CASE c.op = "Create"
  <2>1. SqlNotifications(s, c).rows = SqlInsert(s, c, New(c)).rows
    BY <1>1, <1>4 DEF SqlCreateNotification
  <2> QED BY <1>1, <1>4, <2>1, SqlNewStep
<1>5. CASE c.op \in {"List", "ListUnread"}
  <2>1. SqlNotifications(s, c).rows = s
    BY <1>1, <1>5 DEF SqlNotificationReads
  <2> QED BY <1>1, <2>1, SqlSame
<1>6. CASE c.op = "MarkAll"
  <2> DEFINE S == SqlForUser(s, c)
  <2>1. SqlNotifications(s, c).rows \in {s, Stated(s, S, "read")}
    BY <1>1, <1>6 DEF SqlUpdate, SqlExec, Set, Stated, SqlNotificationUpdates
  <2>2. \A i \in DOMAIN s \cap S : MayTake(s[i], "read")
    BY <1>1, <1>3, <1>6 DEF MayTake, IsRevoked, Given, States, StatesOf, Ids, SqlForUser
  <2> HIDE DEF S
  <2> QED BY <1>1, <2>1, <2>2, StateStep, SqlSame
<1>7. CASE c.op = "MarkRead"
  <2> DEFINE S == At(s, c)
  <2>1. SqlNotifications(s, c).rows \in {s, Stated(s, S, "read")}
    BY <1>1, <1>7 DEF SqlUpdate, SqlExec, Set, Stated, SqlNotificationUpdates
  <2>2. \A i \in DOMAIN s \cap S : MayTake(s[i], "read")
    BY <1>1, <1>3, <1>7 DEF MayTake, IsRevoked, Given, States, StatesOf, Ids, At
  <2> HIDE DEF S
  <2> QED BY <1>1, <2>1, <2>2, StateStep, SqlSame
<1> QED BY <1>2, <1>4, <1>5, <1>6, <1>7

LEMMA SqlAuditStep ==
  ASSUME NEW s, Placed(s), NEW c, Asks(s, c, "audit")
  PROVE  SqlStep(s, c, SqlAudit(s, c).rows)
<1> USE DEF SqlAudit, Many, One, Nothing, Result
<1>1. c.t = "audit" /\ Given(s, c) /\ IsStore(s) /\ c.t \in Tables
  BY DEF Asks, Placed, Tables
<1>2. c.op \in {"Create", "List", "LatestHash"}
  BY OpsOfTables DEF Asks
<1>3. \A i \in Ids(s, c.t) : i \in DOMAIN s /\ s[i].t = "audit"
  BY <1>1 DEF Ids
<1>4. CASE c.op = "Create"
  <2>1. SqlAudit(s, c).rows = SqlInsert(s, c, New(c)).rows
    BY <1>1, <1>4 DEF SqlCreateAuditLog
  <2> QED BY <1>1, <1>4, <2>1, SqlNewStep
<1>5. CASE c.op \in {"List", "LatestHash"}
  <2>1. SqlAudit(s, c).rows = s
    BY <1>1, <1>5 DEF SqlAuditReads
  <2> QED BY <1>1, <2>1, SqlSame
<1> QED BY <1>2, <1>4, <1>5

LEMMA SqlCompaniesStep ==
  ASSUME NEW s, Placed(s), NEW c, Asks(s, c, "companies")
  PROVE  SqlStep(s, c, SqlCompanies(s, c).rows)
<1> USE DEF SqlCompanies, SqlCompanyRows, Many, One, Nothing, Result
<1>1. c.t = "companies" /\ Given(s, c) /\ IsStore(s) /\ c.t \in Tables
  BY DEF Asks, Placed, Tables
<1>2. c.op \in {"Create", "Get", "Delete", "Update", "List", "ListUnowned", "SetOwner"}
  BY OpsOfTables DEF Asks
<1>3. \A i \in Ids(s, c.t) : i \in DOMAIN s /\ s[i].t = "companies"
  BY <1>1 DEF Ids
<1>4. CASE c.op = "Create"
  <2>1. SqlCompanies(s, c).rows = SqlInsert(s, c, Unowned(c)).rows
    BY <1>1, <1>4
  <2> QED BY <1>1, <1>4, <2>1, SqlNewStep
<1>5. CASE c.op = "Delete"
  <2> DEFINE S == At(s, c)
  <2>1. SqlCompanies(s, c).rows = SqlDelete(s, S).rows
    BY <1>1, <1>5
  <2>2. \A i \in S : i \in DOMAIN s /\ s[i].t # "users" /\ ~IsRevoked(s[i])
    BY <1>1, <1>3 DEF IsRevoked, At
  <2> HIDE DEF S
  <2> QED BY <2>1, <2>2, SqlCut
<1>6. CASE c.op \in {"Get", "List"}
  <2>1. SqlCompanies(s, c).rows = s
    BY <1>1, <1>6 DEF SqlCompanyReads
  <2> QED BY <1>1, <2>1, SqlSame
<1>7. CASE c.op = "ListUnowned"
  <2>1. SqlCompanies(s, c).rows = s
    BY <1>1, <1>7 DEF SqlListUnowned
  <2> QED BY <1>1, <2>1, SqlSame
<1>8. CASE c.op = "Update"
  <2> DEFINE S == At(s, c)
  <2>1. SqlCompanies(s, c).rows \in {s, Touched(s, S)}
    BY <1>1, <1>8 DEF SqlUpdate, SqlExec, Set, Touched, SqlUpdateCompany
  <2>2. \A i \in DOMAIN s \cap S : ~IsRevoked(s[i])
    BY <1>1, <1>3, <1>8 DEF IsRevoked, Ids, At
  <2> HIDE DEF S
  <2> QED BY <1>1, <2>1, <2>2, TouchStep, SqlSame
<1>9. CASE c.op = "SetOwner"
  <2> DEFINE S == At(s, c)
  <2>1. \/ SqlCompanies(s, c).rows = s
        \/ SqlCompanies(s, c).rows = Owned(s, S, c.owner) /\ \A i \in S : Valid(s, i, SetOwner(s[i], c.owner))
    BY <1>1, <1>9 DEF SqlUpdate, Owned, SqlSetOwner, Set
  <2>2. \A i \in DOMAIN s \cap S : s[i].t \notin {"deals", "tokens", "invites"}
    BY <1>1, <1>3, <1>9 DEF Ids, At
  <2> HIDE DEF S
  <2>3. ASSUME \A i \in S : Valid(s, i, SetOwner(s[i], c.owner))
        PROVE  SqlStep(s, c, Owned(s, S, c.owner))
    BY <1>1, <2>2, <2>3, OwnerStep
  <2> QED BY <1>1, <2>1, <2>3, SqlSame
<1> QED BY <1>2, <1>4, <1>5, <1>6, <1>7, <1>8, <1>9

LEMMA SqlContactsStep ==
  ASSUME NEW s, Placed(s), NEW c, Asks(s, c, "contacts")
  PROVE  SqlStep(s, c, SqlContacts(s, c).rows)
<1> USE DEF SqlContacts, SqlContactRows, Many, One, Nothing, Result
<1>1. c.t = "contacts" /\ Given(s, c) /\ IsStore(s) /\ c.t \in Tables
  BY DEF Asks, Placed, Tables
<1>2. c.op \in {"Create", "Get", "Delete", "List", "ListUnowned", "Update", "UpdateTags",
               "SetOwner", "ListByCompany", "Search"}
  BY OpsOfTables DEF Asks
<1>3. \A i \in Ids(s, c.t) : i \in DOMAIN s /\ s[i].t = "contacts"
  BY <1>1 DEF Ids
<1>4. CASE c.op = "Create"
  <2>1. SqlContacts(s, c).rows = SqlInsert(s, c, Unowned(c)).rows
    BY <1>1, <1>4
  <2> QED BY <1>1, <1>4, <2>1, SqlNewStep
<1>5. CASE c.op = "Delete"
  <2> DEFINE S == At(s, c)
  <2>1. SqlContacts(s, c).rows = SqlDelete(s, S).rows
    BY <1>1, <1>5
  <2>2. \A i \in S : i \in DOMAIN s /\ s[i].t # "users" /\ ~IsRevoked(s[i])
    BY <1>1, <1>3 DEF IsRevoked, At
  <2> HIDE DEF S
  <2> QED BY <2>1, <2>2, SqlCut
<1>6. CASE c.op \in {"Get", "List", "ListByCompany"}
  <2>1. SqlContacts(s, c).rows = s
    BY <1>1, <1>6 DEF SqlContactReads
  <2> QED BY <1>1, <2>1, SqlSame
<1>7. CASE c.op = "ListUnowned"
  <2>1. SqlContacts(s, c).rows = s
    BY <1>1, <1>7 DEF SqlListUnowned
  <2> QED BY <1>1, <2>1, SqlSame
<1>8. CASE c.op = "Search"
  <2>1. SqlContacts(s, c).rows = s
    BY <1>1, <1>8 DEF SqlSearchContacts
  <2> QED BY <1>1, <2>1, SqlSame
<1>9. CASE c.op = "Update"
  <2> DEFINE S == At(s, c)
  <2>1. \/ SqlContacts(s, c).rows = s
        \/ SqlContacts(s, c).rows = Linked(s, S, c.refs) /\ \A i \in S : Valid(s, i, WithRefs(s[i], c.refs))
    BY <1>1, <1>9 DEF SqlUpdate, Linked, Set, SqlContactUpdates
  <2>2. \A i \in DOMAIN s \cap S : s[i].t \notin {"deals", "tokens", "invites"}
            /\ c.refs = [col \in Columns(s[i].t) |-> c.refs[col]]
    BY <1>1, <1>3, <1>9, LinksGiven DEF Ids, At
  <2> HIDE DEF S
  <2>3. ASSUME \A i \in S : Valid(s, i, WithRefs(s[i], c.refs))
        PROVE  SqlStep(s, c, Linked(s, S, c.refs))
    BY <1>1, <2>2, <2>3, LinksStep
  <2> QED BY <1>1, <2>1, <2>3, SqlSame
<1>10. CASE c.op = "UpdateTags"
  <2> DEFINE S == At(s, c)
             tags == [i \in DOMAIN s |-> SqlAppendTags(s[i].tags, c.tags)]
  <2>1. \A i \in DOMAIN s : tags[i] = SqlAppendTags(s[i].tags, c.tags)
    OBVIOUS
  <2> HIDE DEF tags
  <2>2. SqlContacts(s, c).rows \in {s, Tagged(s, S, tags)}
    BY <1>1, <1>10, <2>1 DEF SqlUpdate, Set, Tagged, SqlContactUpdates
  <2>3. \A i \in DOMAIN s \cap S : ~IsRevoked(s[i])
    BY <1>1, <1>3 DEF IsRevoked, Ids, At
  <2> HIDE DEF S
  <2> QED BY <1>1, <2>2, <2>3, TagsStep, SqlSame
<1>11. CASE c.op = "SetOwner"
  <2> DEFINE S == At(s, c)
  <2>1. \/ SqlContacts(s, c).rows = s
        \/ SqlContacts(s, c).rows = Owned(s, S, c.owner) /\ \A i \in S : Valid(s, i, SetOwner(s[i], c.owner))
    BY <1>1, <1>11 DEF SqlUpdate, Owned, SqlSetOwner, Set
  <2>2. \A i \in DOMAIN s \cap S : s[i].t \notin {"deals", "tokens", "invites"}
    BY <1>1, <1>3, <1>11 DEF Ids, At
  <2> HIDE DEF S
  <2>3. ASSUME \A i \in S : Valid(s, i, SetOwner(s[i], c.owner))
        PROVE  SqlStep(s, c, Owned(s, S, c.owner))
    BY <1>1, <2>2, <2>3, OwnerStep
  <2> QED BY <1>1, <2>1, <2>3, SqlSame
<1> QED BY <1>2, <1>4, <1>5, <1>6, <1>7, <1>8, <1>9, <1>10, <1>11

LEMMA SqlDealsStep ==
  ASSUME NEW s, Placed(s), NEW c, Asks(s, c, "deals")
  PROVE  SqlStep(s, c, SqlDeals(s, c).rows)
<1> USE DEF SqlDeals, Many, One, Nothing, Result
<1>1. c.t = "deals" /\ Given(s, c) /\ IsStore(s) /\ c.t \in Tables
  BY DEF Asks, Placed, Tables
<1>2. c.op \in {"Create", "Get", "Delete", "Revoke", "List", "UpdateStage", "Update",
               "UpdateTags", "ListByStage"}
  BY OpsOfTables DEF Asks
<1>3. \A i \in Ids(s, c.t) : i \in DOMAIN s /\ s[i].t = "deals"
  BY <1>1 DEF Ids
<1>4. CASE c.op = "Create"
  <2>1. SqlDeals(s, c).rows = SqlInsert(s, c, New(c)).rows
    BY <1>1, <1>4 DEF SqlDealRows
  <2> QED BY <1>1, <1>4, <2>1, SqlNewStep
<1>5. CASE c.op = "Delete"
  <2>1. SqlDeals(s, c).rows = IF Open(s, c) = {} THEN s ELSE SqlDelete(s, Open(s, c)).rows
    BY <1>1, <1>5 DEF SqlDealRows
  <2>2. \A i \in Open(s, c) : i \in DOMAIN s /\ s[i].t # "users" /\ ~IsRevoked(s[i])
    BY <1>1, <1>3 DEF IsRevoked, Open, At
  <2> QED BY <1>1, <2>1, <2>2, SqlCut, SqlSame
<1>6. CASE c.op \in {"Get", "List", "ListByStage"}
  <2>1. SqlDeals(s, c).rows = s
    BY <1>1, <1>6 DEF SqlDealReads
  <2> QED BY <1>1, <2>1, SqlSame
<1>7. CASE c.op = "Update"
  <2> DEFINE S == Open(s, c)
  <2>1. \/ SqlDeals(s, c).rows = s
        \/ SqlDeals(s, c).rows = Filled(s, S, c.refs, c.owner, c.st) /\ \A i \in S : Valid(s, i, Given3(s[i], c.refs, c.owner, c.st))
    BY <1>1, <1>7 DEF SqlUpdate, Filled, Given3, Set, SqlDealUpdates
  <2>2. \A i \in DOMAIN s \cap S : s[i].t \notin {"tokens", "invites"} /\ ~IsRevoked(s[i])
            /\ c.st \in StatesOf(s[i].t) /\ c.refs = [col \in Columns(s[i].t) |-> c.refs[col]]
    BY <1>1, <1>3, <1>7, LinksGiven DEF IsRevoked, Ids, Open, At
  <2> HIDE DEF S
  <2>3. ASSUME \A i \in S : Valid(s, i, Given3(s[i], c.refs, c.owner, c.st))
        PROVE  SqlStep(s, c, Filled(s, S, c.refs, c.owner, c.st))
    BY <1>1, <2>2, <2>3, GivenStep
  <2> QED BY <1>1, <2>1, <2>3, SqlSame
<1>8. CASE c.op = "UpdateStage"
  <2> DEFINE S == Open(s, c)
  <2>1. SqlDeals(s, c).rows \in {s, Stated(s, S, c.st)}
    BY <1>1, <1>8 DEF SqlUpdate, SqlExec, Set, Stated, SqlDealUpdates
  <2>2. \A i \in DOMAIN s \cap S : MayTake(s[i], c.st)
    BY <1>1, <1>3, <1>8 DEF MayTake, IsRevoked, Given, States, StatesOf, Ids, Open, At
  <2> HIDE DEF S
  <2> QED BY <1>1, <2>1, <2>2, StateStep, SqlSame
<1>9. CASE c.op = "Revoke"
  <2> DEFINE S == At(s, c)
  <2>1. SqlDeals(s, c).rows \in {s, RevokedRows(s, S)}
    BY <1>1, <1>9 DEF SqlRevokeDeal, SqlUpdate, Set, RevokedRows
  <2>2. \A i \in DOMAIN s \cap S : s[i].t = "deals"
    BY <1>1, <1>3 DEF At
  <2> HIDE DEF S
  <2> QED BY <1>1, <2>1, <2>2, RevokeStep, SqlSame
<1>10. CASE c.op = "UpdateTags"
  <2> DEFINE S == Open(s, c)
             tags == [i \in DOMAIN s |-> SqlAppendTags(s[i].tags, c.tags)]
  <2>1. \A i \in DOMAIN s : tags[i] = SqlAppendTags(s[i].tags, c.tags)
    OBVIOUS
  <2> HIDE DEF tags
  <2>2. SqlDeals(s, c).rows \in {s, Tagged(s, S, tags)}
    BY <1>1, <1>10, <2>1 DEF SqlUpdate, Set, Tagged, SqlDealUpdates
  <2>3. \A i \in DOMAIN s \cap S : ~IsRevoked(s[i])
    BY <1>1, <1>3 DEF IsRevoked, Ids, Open, At
  <2> HIDE DEF S
  <2> QED BY <1>1, <2>2, <2>3, TagsStep, SqlSame
<1> QED BY <1>2, <1>4, <1>5, <1>6, <1>7, <1>8, <1>9, <1>10

LEMMA SqlTodosStep ==
  ASSUME NEW s, Placed(s), NEW c, Asks(s, c, "todos")
  PROVE  SqlStep(s, c, SqlTodos(s, c).rows)
<1> USE DEF SqlTodos, SqlTodoRows, Many, One, Nothing, Result
<1>1. c.t = "todos" /\ Given(s, c) /\ IsStore(s) /\ c.t \in Tables
  BY DEF Asks, Placed, Tables
<1>2. c.op \in {"Create", "Get", "Delete", "List", "ListByAssignee", "UpdateStatus", "Update"}
  BY OpsOfTables DEF Asks
<1>3. \A i \in Ids(s, c.t) : i \in DOMAIN s /\ s[i].t = "todos"
  BY <1>1 DEF Ids
<1>4. CASE c.op = "Create"
  <2>1. SqlTodos(s, c).rows = SqlInsert(s, c, New(c)).rows
    BY <1>1, <1>4
  <2> QED BY <1>1, <1>4, <2>1, SqlNewStep
<1>5. CASE c.op = "Delete"
  <2> DEFINE S == At(s, c)
  <2>1. SqlTodos(s, c).rows = SqlDelete(s, S).rows
    BY <1>1, <1>5
  <2>2. \A i \in S : i \in DOMAIN s /\ s[i].t # "users" /\ ~IsRevoked(s[i])
    BY <1>1, <1>3 DEF IsRevoked, At
  <2> HIDE DEF S
  <2> QED BY <2>1, <2>2, SqlCut
<1>6. CASE c.op \in {"Get", "List", "ListByAssignee"}
  <2>1. SqlTodos(s, c).rows = s
    BY <1>1, <1>6 DEF SqlTodoReads
  <2> QED BY <1>1, <2>1, SqlSame
<1>7. CASE c.op = "Update"
  <2> DEFINE S == At(s, c)
  <2>1. \/ SqlTodos(s, c).rows = s
        \/ SqlTodos(s, c).rows = Filled(s, S, c.refs, c.owner, c.st) /\ \A i \in S : Valid(s, i, Given3(s[i], c.refs, c.owner, c.st))
    BY <1>1, <1>7 DEF SqlUpdate, Filled, Given3, Set, SqlTodoUpdates
  <2>2. \A i \in DOMAIN s \cap S : s[i].t \notin {"tokens", "invites"} /\ ~IsRevoked(s[i])
            /\ c.st \in StatesOf(s[i].t) /\ c.refs = [col \in Columns(s[i].t) |-> c.refs[col]]
    BY <1>1, <1>3, <1>7, LinksGiven DEF IsRevoked, Ids, At
  <2> HIDE DEF S
  <2>3. ASSUME \A i \in S : Valid(s, i, Given3(s[i], c.refs, c.owner, c.st))
        PROVE  SqlStep(s, c, Filled(s, S, c.refs, c.owner, c.st))
    BY <1>1, <2>2, <2>3, GivenStep
  <2> QED BY <1>1, <2>1, <2>3, SqlSame
<1>8. CASE c.op = "UpdateStatus"
  <2> DEFINE S == At(s, c)
  <2>1. SqlTodos(s, c).rows \in {s, Stated(s, S, c.st)}
    BY <1>1, <1>8 DEF SqlUpdate, SqlExec, Set, Stated, SqlTodoUpdates
  <2>2. \A i \in DOMAIN s \cap S : MayTake(s[i], c.st)
    BY <1>1, <1>3, <1>8 DEF MayTake, IsRevoked, Given, States, StatesOf, Ids, At
  <2> HIDE DEF S
  <2> QED BY <1>1, <2>1, <2>2, StateStep, SqlSame
<1> QED BY <1>2, <1>4, <1>5, <1>6, <1>7, <1>8

LEMMA SqlAppointmentsStep ==
  ASSUME NEW s, Placed(s), NEW c, Asks(s, c, "appointments")
  PROVE  SqlStep(s, c, SqlAppointments(s, c).rows)
<1> USE DEF SqlAppointments, SqlAppointmentRows, Many, One, Nothing, Result
<1>1. c.t = "appointments" /\ Given(s, c) /\ IsStore(s) /\ c.t \in Tables
  BY DEF Asks, Placed, Tables
<1>2. c.op \in {"Create", "Get", "Delete", "List", "UpdatePushStatus", "Update"}
  BY OpsOfTables DEF Asks
<1>3. \A i \in Ids(s, c.t) : i \in DOMAIN s /\ s[i].t = "appointments"
  BY <1>1 DEF Ids
<1>4. CASE c.op = "Create"
  <2>1. SqlAppointments(s, c).rows = SqlInsert(s, c, New(c)).rows
    BY <1>1, <1>4
  <2> QED BY <1>1, <1>4, <2>1, SqlNewStep
<1>5. CASE c.op = "Delete"
  <2> DEFINE S == At(s, c)
  <2>1. SqlAppointments(s, c).rows = SqlDelete(s, S).rows
    BY <1>1, <1>5
  <2>2. \A i \in S : i \in DOMAIN s /\ s[i].t # "users" /\ ~IsRevoked(s[i])
    BY <1>1, <1>3 DEF IsRevoked, At
  <2> HIDE DEF S
  <2> QED BY <2>1, <2>2, SqlCut
<1>6. CASE c.op \in {"Get", "List"}
  <2>1. SqlAppointments(s, c).rows = s
    BY <1>1, <1>6 DEF SqlAppointmentReads
  <2> QED BY <1>1, <2>1, SqlSame
<1>7. CASE c.op = "Update"
  <2> DEFINE S == At(s, c)
             x == c.refs["contacts"]
  <2>1. \/ SqlAppointments(s, c).rows = s
        \/ SqlAppointments(s, c).rows = Met(s, S, x) /\ \A i \in S : Valid(s, i, [Touch(s[i]) EXCEPT !.refs["contacts"] = x])
    BY <1>1, <1>7 DEF SqlAppointmentUpdates, SqlUpdate, Set, Met
  <2>2. \A i \in DOMAIN s \cap S : s[i].t = "appointments"
    BY <1>1, <1>3 DEF At
  <2>3. (\A i \in S : Valid(s, i, [Touch(s[i]) EXCEPT !.refs["contacts"] = x]))
        => \A i \in DOMAIN s \cap S : ReferencesHold(s, Met(s, S, x)[i])
    BY DEF Met, Valid
  <2> HIDE DEF S, x
  <2> QED BY <1>1, <2>1, <2>2, <2>3, MetStep, SqlSame
<1>8. CASE c.op = "UpdatePushStatus"
  <2> DEFINE S == At(s, c)
  <2>1. SqlAppointments(s, c).rows \in {s, Stated(s, S, c.st)}
    BY <1>1, <1>8 DEF SqlUpdate, SqlExec, Set, Stated, SqlAppointmentUpdates
  <2>2. \A i \in DOMAIN s \cap S : MayTake(s[i], c.st)
    BY <1>1, <1>3, <1>8 DEF MayTake, IsRevoked, Given, States, StatesOf, Ids, At
  <2> HIDE DEF S
  <2> QED BY <1>1, <2>1, <2>2, StateStep, SqlSame
<1> QED BY <1>2, <1>4, <1>5, <1>6, <1>7, <1>8

LEMMA SqlNotesStep ==
  ASSUME NEW s, Placed(s), NEW c, Asks(s, c, "notes")
  PROVE  SqlStep(s, c, SqlNotes(s, c).rows)
<1> USE DEF SqlNotes, SqlNoteRows, Many, One, Nothing, Result
<1>1. c.t = "notes" /\ Given(s, c) /\ IsStore(s) /\ c.t \in Tables
  BY DEF Asks, Placed, Tables
<1>2. c.op \in {"Create", "Get", "Delete", "Update", "List", "ListByEntity"}
  BY OpsOfTables DEF Asks
<1>3. \A i \in Ids(s, c.t) : i \in DOMAIN s /\ s[i].t = "notes"
  BY <1>1 DEF Ids
<1>4. CASE c.op = "Create"
  <2>1. SqlNotes(s, c).rows = SqlInsert(s, c, New(c)).rows
    BY <1>1, <1>4
  <2> QED BY <1>1, <1>4, <2>1, SqlNewStep
<1>5. CASE c.op = "Delete"
  <2> DEFINE S == At(s, c)
  <2>1. SqlNotes(s, c).rows = SqlDelete(s, S).rows
    BY <1>1, <1>5
  <2>2. \A i \in S : i \in DOMAIN s /\ s[i].t # "users" /\ ~IsRevoked(s[i])
    BY <1>1, <1>3 DEF IsRevoked, At
  <2> HIDE DEF S
  <2> QED BY <2>1, <2>2, SqlCut
<1>6. CASE c.op \in {"Get", "List", "ListByEntity"}
  <2>1. SqlNotes(s, c).rows = s
    BY <1>1, <1>6 DEF SqlNoteReads
  <2> QED BY <1>1, <2>1, SqlSame
<1>7. CASE c.op = "Update"
  <2> DEFINE S == At(s, c)
  <2>1. SqlNotes(s, c).rows \in {s, Touched(s, S)}
    BY <1>1, <1>7 DEF SqlUpdate, SqlExec, Set, Touched, SqlUpdateNote
  <2>2. \A i \in DOMAIN s \cap S : ~IsRevoked(s[i])
    BY <1>1, <1>3, <1>7 DEF IsRevoked, Ids, At
  <2> HIDE DEF S
  <2> QED BY <1>1, <2>1, <2>2, TouchStep, SqlSame
<1> QED BY <1>2, <1>4, <1>5, <1>6, <1>7

LEMMA SqlCallsStep ==
  ASSUME NEW s, Placed(s), NEW c, Asks(s, c, "calls")
  PROVE  SqlStep(s, c, SqlCalls(s, c).rows)
<1> USE DEF SqlCalls, Many, One, Nothing, Result
<1>1. c.t = "calls" /\ Given(s, c) /\ IsStore(s) /\ c.t \in Tables
  BY DEF Asks, Placed, Tables
<1>2. c.op \in {"Create", "List", "ListByContact"}
  BY OpsOfTables DEF Asks
<1>3. \A i \in Ids(s, c.t) : i \in DOMAIN s /\ s[i].t = "calls"
  BY <1>1 DEF Ids
<1>4. CASE c.op = "Create"
  <2>1. SqlCalls(s, c).rows = SqlInsert(s, c, New(c)).rows
    BY <1>1, <1>4 DEF SqlCreateCallActivity
  <2> QED BY <1>1, <1>4, <2>1, SqlNewStep
<1>5. CASE c.op \in {"List", "ListByContact"}
  <2>1. SqlCalls(s, c).rows = s
    BY <1>1, <1>5 DEF SqlCallReads
  <2> QED BY <1>1, <2>1, SqlSame
<1> QED BY <1>2, <1>4, <1>5

LEMMA SqlArticlesStep ==
  ASSUME NEW s, Placed(s), NEW c, Asks(s, c, "articles")
  PROVE  SqlStep(s, c, SqlArticles(s, c).rows)
<1> USE DEF SqlArticles, SqlArticleRows, Many, One, Nothing, Result
<1>1. c.t = "articles" /\ Given(s, c) /\ IsStore(s) /\ c.t \in Tables
  BY DEF Asks, Placed, Tables
<1>2. c.op \in {"Create", "Get", "Delete", "List", "UpdateStatus", "Search"}
  BY OpsOfTables DEF Asks
<1>3. \A i \in Ids(s, c.t) : i \in DOMAIN s /\ s[i].t = "articles"
  BY <1>1 DEF Ids
<1>4. CASE c.op = "Create"
  <2>1. SqlArticles(s, c).rows = SqlInsert(s, c, New(c)).rows
    BY <1>1, <1>4
  <2> QED BY <1>1, <1>4, <2>1, SqlNewStep
<1>5. CASE c.op = "Delete"
  <2> DEFINE S == At(s, c)
  <2>1. SqlArticles(s, c).rows = SqlDelete(s, S).rows
    BY <1>1, <1>5
  <2>2. \A i \in S : i \in DOMAIN s /\ s[i].t # "users" /\ ~IsRevoked(s[i])
    BY <1>1, <1>3 DEF IsRevoked, At
  <2> HIDE DEF S
  <2> QED BY <2>1, <2>2, SqlCut
<1>6. CASE c.op \in {"Get", "List", "Search"}
  <2>1. SqlArticles(s, c).rows = s
    BY <1>1, <1>6 DEF SqlArticleReads
  <2> QED BY <1>1, <2>1, SqlSame
<1>7. CASE c.op = "UpdateStatus"
  <2> DEFINE S == At(s, c)
  <2>1. SqlArticles(s, c).rows \in {s, Stated(s, S, "indexed")}
    BY <1>1, <1>7 DEF SqlUpdate, SqlExec, Set, Stated, SqlUpdateKBArticleEmbedding
  <2>2. \A i \in DOMAIN s \cap S : MayTake(s[i], "indexed")
    BY <1>1, <1>3, <1>7 DEF MayTake, IsRevoked, Given, States, StatesOf, Ids, At
  <2> HIDE DEF S
  <2> QED BY <1>1, <2>1, <2>2, StateStep, SqlSame
<1> QED BY <1>2, <1>4, <1>5, <1>6, <1>7

LEMMA SqlJobsStep ==
  ASSUME NEW s, Placed(s), NEW c, Asks(s, c, "jobs")
  PROVE  SqlStep(s, c, SqlJobs(s, c).rows)
<1> USE DEF SqlJobs, Many, One, Nothing, Result
<1>1. c.t = "jobs" /\ Given(s, c) /\ IsStore(s) /\ c.t \in Tables
  BY DEF Asks, Placed, Tables
<1>2. c.op \in {"Create", "Get", "List", "UpdateStatus"}
  BY OpsOfTables DEF Asks
<1>3. \A i \in Ids(s, c.t) : i \in DOMAIN s /\ s[i].t = "jobs"
  BY <1>1 DEF Ids
<1>4. CASE c.op = "Create"
  <2>1. SqlJobs(s, c).rows = SqlInsert(s, c, New(c)).rows
    BY <1>1, <1>4 DEF SqlCreateAIResearchJob
  <2> QED BY <1>1, <1>4, <2>1, SqlNewStep
<1>5. CASE c.op \in {"Get", "List"}
  <2>1. SqlJobs(s, c).rows = s
    BY <1>1, <1>5 DEF SqlJobReads
  <2> QED BY <1>1, <2>1, SqlSame
<1>6. CASE c.op = "UpdateStatus"
  <2> DEFINE S == At(s, c)
  <2>1. SqlJobs(s, c).rows \in {s, Stated(s, S, c.st)}
    BY <1>1, <1>6 DEF SqlUpdate, SqlExec, Set, Stated, SqlUpdateAIResearchJobStatus
  <2>2. \A i \in DOMAIN s \cap S : MayTake(s[i], c.st)
    BY <1>1, <1>3, <1>6 DEF MayTake, IsRevoked, Given, States, StatesOf, Ids, At
  <2> HIDE DEF S
  <2> QED BY <1>1, <2>1, <2>2, StateStep, SqlSame
<1> QED BY <1>2, <1>4, <1>5, <1>6

LEMMA SqlWorkflowsStep ==
  ASSUME NEW s, Placed(s), NEW c, Asks(s, c, "workflows") \/ Asks(s, c, "runs")
  PROVE  SqlStep(s, c, SqlWorkflows(s, c).rows)
<1> USE DEF SqlWorkflows, Many, One, Nothing, Result
<1>1. c.t \in {"workflows", "runs"} /\ Given(s, c) /\ IsStore(s) /\ c.t \in Tables
  BY DEF Asks, Placed, Tables
<1>2. c.op \in {"Create", "GetByKey", "List", "UpdateStatus"}
  BY OpsOfTables DEF Asks
<1>3. \A i \in Ids(s, c.t) : i \in DOMAIN s /\ s[i].t \in {"workflows", "runs"}
  BY <1>1 DEF Ids
<1>4. CASE c.op = "Create"
  <2>1. SqlWorkflows(s, c).rows = SqlInsert(s, c, New(c)).rows
    BY <1>1, <1>4 DEF SqlWorkflowCreates
  <2> QED BY <1>1, <1>4, <2>1, SqlNewStep
<1>5. CASE c.op \in {"GetByKey", "List"}
  <2>1. SqlWorkflows(s, c).rows = s
    BY <1>1, <1>5 DEF SqlWorkflowReads
  <2> QED BY <1>1, <2>1, SqlSame
<1>6. CASE c.op = "UpdateStatus"
  <2> DEFINE S == ByKey(s, c)
  <2>1. SqlWorkflows(s, c).rows \in {s, Stated(s, S, c.st)}
    BY <1>1, <1>6 DEF SqlUpdate, SqlExec, Set, Stated, SqlUpdateWorkflowRunStatus
  <2>2. \A i \in DOMAIN s \cap S : MayTake(s[i], c.st)
    BY <1>1, <1>3, <1>6 DEF MayTake, IsRevoked, Given, States, StatesOf, Ids, ByKey
  <2> HIDE DEF S
  <2> QED BY <1>1, <2>1, <2>2, StateStep, SqlSame
<1> QED BY <1>2, <1>4, <1>5, <1>6

LEMMA SqlTemplatesStep ==
  ASSUME NEW s, Placed(s), NEW c, Asks(s, c, "templates")
  PROVE  SqlStep(s, c, SqlTemplates(s, c).rows)
<1> USE DEF SqlTemplates, SqlTemplateRows, Many, One, Nothing, Result
<1>1. c.t = "templates" /\ Given(s, c) /\ IsStore(s) /\ c.t \in Tables
  BY DEF Asks, Placed, Tables
<1>2. c.op \in {"Create", "GetByKey", "Update", "Delete", "List"}
  BY OpsOfTables DEF Asks
<1>3. \A i \in Ids(s, c.t) : i \in DOMAIN s /\ s[i].t = "templates"
  BY <1>1 DEF Ids
<1>4. CASE c.op = "Create"
  <2>1. SqlTemplates(s, c).rows = SqlInsert(s, c, New(c)).rows
    BY <1>1, <1>4
  <2> QED BY <1>1, <1>4, <2>1, SqlNewStep
<1>5. CASE c.op = "Delete"
  <2> DEFINE S == ByKey(s, c)
  <2>1. SqlTemplates(s, c).rows = SqlDelete(s, S).rows
    BY <1>1, <1>5
  <2>2. \A i \in S : i \in DOMAIN s /\ s[i].t # "users" /\ ~IsRevoked(s[i])
    BY <1>1, <1>3 DEF IsRevoked, ByKey
  <2> HIDE DEF S
  <2> QED BY <2>1, <2>2, SqlCut
<1>6. CASE c.op \in {"GetByKey", "List"}
  <2>1. SqlTemplates(s, c).rows = s
    BY <1>1, <1>6 DEF SqlTemplateReads
  <2> QED BY <1>1, <2>1, SqlSame
<1>7. CASE c.op = "Update"
  <2> DEFINE S == ByKey(s, c)
  <2>1. SqlTemplates(s, c).rows \in {s, Touched(s, S)}
    BY <1>1, <1>7 DEF SqlUpdate, SqlExec, Set, Touched, SqlUpdateEmailTemplate
  <2>2. \A i \in DOMAIN s \cap S : ~IsRevoked(s[i])
    BY <1>1, <1>3, <1>7 DEF IsRevoked, Ids, ByKey
  <2> HIDE DEF S
  <2> QED BY <1>1, <2>1, <2>2, TouchStep, SqlSame
<1> QED BY <1>2, <1>4, <1>5, <1>6, <1>7

LEMMA SqlAccountsStep ==
  ASSUME NEW s, Placed(s), NEW c, Asks(s, c, "accounts")
  PROVE  SqlStep(s, c, SqlAccounts(s, c).rows)
<1> USE DEF SqlAccounts, Many, One, Nothing, Result
<1>1. c.t = "accounts" /\ Given(s, c) /\ IsStore(s) /\ c.t \in Tables
  BY DEF Asks, Placed, Tables
<1>2. c.op \in {"Create", "Get", "Delete", "UpdateSyncState", "List", "Update"}
  BY OpsOfTables DEF Asks
<1>3. \A i \in Ids(s, c.t) : i \in DOMAIN s /\ s[i].t = "accounts"
  BY <1>1 DEF Ids
<1>4. CASE c.op = "Create"
  <2>1. SqlAccounts(s, c).rows = SqlInsert(s, c, New(c)).rows
    BY <1>1, <1>4 DEF SqlCreateEmailAccount
  <2> QED BY <1>1, <1>4, <2>1, SqlNewStep
<1>5. CASE c.op = "Delete"
  <2> DEFINE S == At(s, c)
  <2>1. SqlAccounts(s, c).rows = SqlDelete(s, S).rows
    BY <1>1, <1>5 DEF SqlDeleteEmailAccount
  <2>2. \A i \in S : i \in DOMAIN s /\ s[i].t # "users" /\ ~IsRevoked(s[i])
    BY <1>1, <1>3 DEF IsRevoked, At
  <2> HIDE DEF S
  <2> QED BY <2>1, <2>2, SqlCut
<1>6. CASE c.op \in {"Get", "List"}
  <2>1. SqlAccounts(s, c).rows = s
    BY <1>1, <1>6 DEF SqlAccountReads
  <2> QED BY <1>1, <2>1, SqlSame
<1>7. CASE c.op = "UpdateSyncState"
  <2> DEFINE S == At(s, c)
  <2>1. SqlAccounts(s, c).rows \in {s, Touched(s, S)}
    BY <1>1, <1>7 DEF SqlUpdate, SqlExec, Set, Touched, SqlAccountUpdates
  <2>2. \A i \in DOMAIN s \cap S : ~IsRevoked(s[i])
    BY <1>1, <1>3, <1>7 DEF IsRevoked, Ids, At
  <2> HIDE DEF S
  <2> QED BY <1>1, <2>1, <2>2, TouchStep, SqlSame
<1>8. CASE c.op = "Update"
  <2> DEFINE S == At(s, c)
  <2>1. SqlAccounts(s, c).rows \in {s, Stated(s, S, c.st)}
    BY <1>1, <1>8 DEF SqlUpdate, SqlExec, Set, Stated, SqlAccountUpdates
  <2>2. \A i \in DOMAIN s \cap S : MayTake(s[i], c.st)
    BY <1>1, <1>3, <1>8 DEF MayTake, IsRevoked, Given, States, StatesOf, Ids, At
  <2> HIDE DEF S
  <2> QED BY <1>1, <2>1, <2>2, StateStep, SqlSame
<1> QED BY <1>2, <1>4, <1>5, <1>6, <1>7, <1>8

LEMMA SqlMessagesStep ==
  ASSUME NEW s, Placed(s), NEW c, Asks(s, c, "messages")
  PROVE  SqlStep(s, c, SqlMessages(s, c).rows)
<1> USE DEF SqlMessages, Many, One, Nothing, Result
<1>1. c.t = "messages" /\ Given(s, c) /\ IsStore(s) /\ c.t \in Tables
  BY DEF Asks, Placed, Tables
<1>2. c.op \in {"Create", "CreateDraft", "Get", "MarkRead", "List", "UpdateTags",
               "ListByThread"}
  BY OpsOfTables DEF Asks
<1>3. \A i \in Ids(s, c.t) : i \in DOMAIN s /\ s[i].t = "messages"
  BY <1>1 DEF Ids
<1>4. CASE c.op = "Create"
  <2>1. SqlMessages(s, c).rows = SqlInsert(s, c, New(c)).rows
    BY <1>1, <1>4 DEF SqlCreateEmailMessage
  <2> QED BY <1>1, <1>4, <2>1, SqlNewStep
<1>5. CASE c.op = "CreateDraft"
  <2>1. SqlMessages(s, c).rows = SqlInsert(s, c, Touch(New(c))).rows
    BY <1>1, <1>5 DEF SqlCreateDraftEmailMessage
  <2> QED BY <1>1, <1>5, <2>1, SqlNewStep
<1>6. CASE c.op \in {"Get", "List", "ListByThread"}
  <2>1. SqlMessages(s, c).rows = s
    BY <1>1, <1>6 DEF SqlMessageReads
  <2> QED BY <1>1, <2>1, SqlSame
<1>7. CASE c.op = "MarkRead"
  <2> DEFINE S == At(s, c)
  <2>1. SqlMessages(s, c).rows \in {s, Stated(s, S, "read")}
    BY <1>1, <1>7 DEF SqlUpdate, SqlExec, Set, Stated, SqlMarkEmailMessageRead
  <2>2. \A i \in DOMAIN s \cap S : MayTake(s[i], "read")
    BY <1>1, <1>3, <1>7 DEF MayTake, IsRevoked, Given, States, StatesOf, Ids, At
  <2> HIDE DEF S
  <2> QED BY <1>1, <2>1, <2>2, StateStep, SqlSame
<1>8. CASE c.op = "UpdateTags"
  <2> DEFINE S == At(s, c)
             tags == [i \in DOMAIN s |-> c.tags]
  <2>1. \A i \in DOMAIN s : tags[i] = c.tags
    OBVIOUS
  <2> HIDE DEF tags
  <2>2. SqlMessages(s, c).rows \in {s, Tagged(s, S, tags)}
    BY <1>1, <1>8, <2>1 DEF SqlUpdate, Set, Tagged, SqlUpdateEmailMessageTags
  <2>3. \A i \in DOMAIN s \cap S : ~IsRevoked(s[i])
    BY <1>1, <1>3 DEF IsRevoked, Ids, At
  <2> HIDE DEF S
  <2> QED BY <1>1, <2>2, <2>3, TagsStep, SqlSame
<1> QED BY <1>2, <1>4, <1>5, <1>6, <1>7, <1>8

LEMMA SqlAttachmentsStep ==
  ASSUME NEW s, Placed(s), NEW c, Asks(s, c, "attachments")
  PROVE  SqlStep(s, c, SqlAttachments(s, c).rows)
<1> USE DEF SqlAttachments, Many, One, Nothing, Result
<1>1. c.t = "attachments" /\ Given(s, c) /\ IsStore(s) /\ c.t \in Tables
  BY DEF Asks, Placed, Tables
<1>2. c.op \in {"Create", "ListByMessage"}
  BY OpsOfTables DEF Asks
<1>3. \A i \in Ids(s, c.t) : i \in DOMAIN s /\ s[i].t = "attachments"
  BY <1>1 DEF Ids
<1>4. CASE c.op = "Create"
  <2>1. SqlAttachments(s, c).rows = SqlInsert(s, c, New(c)).rows
    BY <1>1, <1>4 DEF SqlCreateEmailAttachment
  <2> QED BY <1>1, <1>4, <2>1, SqlNewStep
<1>5. CASE c.op = "ListByMessage"
  <2>1. SqlAttachments(s, c).rows = s
    BY <1>1, <1>5 DEF SqlListEmailAttachments
  <2> QED BY <1>1, <2>1, SqlSame
<1> QED BY <1>2, <1>4, <1>5

\* Every method of the PostgreSQL store.
LEMMA SqlCallStep ==
  ASSUME NEW s, Placed(s), NEW t \in Tables, NEW c \in CallsOn(s, t)
  PROVE  SqlStep(s, c, SqlCall(s, c).rows)
<1>1. Asks(s, c, t) /\ c.t = t
  BY CallShape DEF Shaped, Asks, Ops
<1>2. CASE t = "users"
  <2>1. SqlCall(s, c) = SqlUsers(s, c)
    BY <1>1, <1>2 DEF SqlCall
  <2> QED BY <1>1, <1>2, <2>1, SqlUsersStep
<1>3. CASE t = "invites"
  <2>1. SqlCall(s, c) = SqlInvites(s, c)
    BY <1>1, <1>3 DEF SqlCall
  <2> QED BY <1>1, <1>3, <2>1, SqlInvitesStep
<1>4. CASE t = "tokens"
  <2>1. SqlCall(s, c) = SqlTokens(s, c)
    BY <1>1, <1>4 DEF SqlCall
  <2> QED BY <1>1, <1>4, <2>1, SqlTokensStep
<1>5. CASE t = "notifications"
  <2>1. SqlCall(s, c) = SqlNotifications(s, c)
    BY <1>1, <1>5 DEF SqlCall
  <2> QED BY <1>1, <1>5, <2>1, SqlNotificationsStep
<1>6. CASE t = "audit"
  <2>1. SqlCall(s, c) = SqlAudit(s, c)
    BY <1>1, <1>6 DEF SqlCall
  <2> QED BY <1>1, <1>6, <2>1, SqlAuditStep
<1>7. CASE t = "companies"
  <2>1. SqlCall(s, c) = SqlCompanies(s, c)
    BY <1>1, <1>7 DEF SqlCall
  <2> QED BY <1>1, <1>7, <2>1, SqlCompaniesStep
<1>8. CASE t = "contacts"
  <2>1. SqlCall(s, c) = SqlContacts(s, c)
    BY <1>1, <1>8 DEF SqlCall
  <2> QED BY <1>1, <1>8, <2>1, SqlContactsStep
<1>9. CASE t = "deals"
  <2>1. SqlCall(s, c) = SqlDeals(s, c)
    BY <1>1, <1>9 DEF SqlCall
  <2> QED BY <1>1, <1>9, <2>1, SqlDealsStep
<1>10. CASE t = "todos"
  <2>1. SqlCall(s, c) = SqlTodos(s, c)
    BY <1>1, <1>10 DEF SqlCall
  <2> QED BY <1>1, <1>10, <2>1, SqlTodosStep
<1>11. CASE t = "appointments"
  <2>1. SqlCall(s, c) = SqlAppointments(s, c)
    BY <1>1, <1>11 DEF SqlCall
  <2> QED BY <1>1, <1>11, <2>1, SqlAppointmentsStep
<1>12. CASE t = "notes"
  <2>1. SqlCall(s, c) = SqlNotes(s, c)
    BY <1>1, <1>12 DEF SqlCall
  <2> QED BY <1>1, <1>12, <2>1, SqlNotesStep
<1>13. CASE t = "calls"
  <2>1. SqlCall(s, c) = SqlCalls(s, c)
    BY <1>1, <1>13 DEF SqlCall
  <2> QED BY <1>1, <1>13, <2>1, SqlCallsStep
<1>14. CASE t = "articles"
  <2>1. SqlCall(s, c) = SqlArticles(s, c)
    BY <1>1, <1>14 DEF SqlCall
  <2> QED BY <1>1, <1>14, <2>1, SqlArticlesStep
<1>15. CASE t = "jobs"
  <2>1. SqlCall(s, c) = SqlJobs(s, c)
    BY <1>1, <1>15 DEF SqlCall
  <2> QED BY <1>1, <1>15, <2>1, SqlJobsStep
<1>16. CASE t \in {"workflows", "runs"}
  <2>1. SqlCall(s, c) = SqlWorkflows(s, c)
    BY <1>1, <1>16 DEF SqlCall
  <2> QED BY <1>1, <1>16, <2>1, SqlWorkflowsStep
<1>17. CASE t = "templates"
  <2>1. SqlCall(s, c) = SqlTemplates(s, c)
    BY <1>1, <1>17 DEF SqlCall
  <2> QED BY <1>1, <1>17, <2>1, SqlTemplatesStep
<1>18. CASE t = "accounts"
  <2>1. SqlCall(s, c) = SqlAccounts(s, c)
    BY <1>1, <1>18 DEF SqlCall
  <2> QED BY <1>1, <1>18, <2>1, SqlAccountsStep
<1>19. CASE t = "messages"
  <2>1. SqlCall(s, c) = SqlMessages(s, c)
    BY <1>1, <1>19 DEF SqlCall
  <2> QED BY <1>1, <1>19, <2>1, SqlMessagesStep
<1>20. CASE t = "attachments"
  <2>1. SqlCall(s, c) = SqlAttachments(s, c)
    BY <1>1, <1>20 DEF SqlCall
  <2> QED BY <1>1, <1>20, <2>1, SqlAttachmentsStep
<1> QED BY <1>2, <1>3, <1>4, <1>5, <1>6, <1>7, <1>8, <1>9, <1>10, <1>11, <1>12, <1>13, <1>14, <1>15,
           <1>16, <1>17, <1>18, <1>19, <1>20 DEF Tables

\* And with columns that do not fit: then it is refused and changes nothing.
LEMMA SqlAnswerStep ==
  ASSUME NEW s, Placed(s), NEW t \in Tables, NEW c \in CallsOn(s, t), NEW v
  PROVE  SqlStep(s, c, SqlAnswer(s, c, v).rows)
<1>1. CASE SqlRefuses(s, c, v)
  <2>1. SqlAnswer(s, c, v).rows = s
    BY <1>1 DEF SqlAnswer, Nothing, Result
  <2>2. IsStore(s)
    BY DEF Placed
  <2> QED BY <2>1, <2>2, SqlSame
<1>2. CASE ~SqlRefuses(s, c, v)
  <2>1. SqlAnswer(s, c, v) = SqlCall(s, c)
    BY <1>2 DEF SqlAnswer
  <2> QED BY <2>1, SqlCallStep
<1> QED BY <1>1, <1>2

-----------------------------------------------------------------------------
(* The store a demo starts with.                                            *)
LEMMA IsSequence ==
  ASSUME NEW n \in Nat, NEW f, f = [i \in 1 .. n |-> f[i]], NEW T, \A i \in 1 .. n : f[i] \in T
  PROVE  f \in Seq(T) /\ Len(f) = n
  OBVIOUS

LEMMA ConcatenatedLength ==
  ASSUME NEW T, NEW a \in Seq(T), NEW b \in Seq(T)
  PROVE  a \o b \in Seq(T) /\ Len(a \o b) = Len(a) + Len(b)
  OBVIOUS

LEMMA ConcatenatedItems ==
  ASSUME NEW T, NEW a \in Seq(T), NEW b \in Seq(T), NEW i \in 1 .. Len(a) + Len(b)
  PROVE  (a \o b)[i] = IF i <= Len(a) THEN a[i] ELSE b[i - Len(a)]
  OBVIOUS

LEMMA SeedSequence ==
  /\ NewInMemoryQuerier = [i \in 1 .. 24 |-> NewInMemoryQuerier[i]]
  /\ Len(NewInMemoryQuerier) = 24
  /\ \A i \in 1 .. 9 : NewInMemoryQuerier[i] = SeedPeople[i]
  /\ \A i \in 1 .. 8 : NewInMemoryQuerier[9 + i] = SeedActivity[i]
  /\ \A i \in 1 .. 7 : NewInMemoryQuerier[17 + i] = SeedAutomation[i]
<1> DEFINE P == SeedPeople
           A == SeedActivity
           W == SeedAutomation
           T == {P[i] : i \in 1 .. 9} \cup {A[i] : i \in 1 .. 8} \cup {W[i] : i \in 1 .. 7}
<1>1. P = [i \in 1 .. 9 |-> P[i]]
  BY DEF SeedPeople
<1>2. A = [i \in 1 .. 8 |-> A[i]]
  BY DEF SeedActivity
<1>3. W = [i \in 1 .. 7 |-> W[i]]
  BY DEF SeedAutomation
<1>4. /\ \A i \in 1 .. 9 : P[i] \in T
      /\ \A i \in 1 .. 8 : A[i] \in T
      /\ \A i \in 1 .. 7 : W[i] \in T
  OBVIOUS
<1>5. NewInMemoryQuerier = (P \o A) \o W
  BY DEF NewInMemoryQuerier
<1> HIDE DEF P, A, W, T
<1>6. P \in Seq(T) /\ Len(P) = 9
  BY <1>1, <1>4, IsSequence
<1>7. A \in Seq(T) /\ Len(A) = 8
  BY <1>2, <1>4, IsSequence
<1>8. W \in Seq(T) /\ Len(W) = 7
  BY <1>3, <1>4, IsSequence
<1> DEFINE PA == P \o A
           q == PA \o W
<1>9. /\ PA \in Seq(T) /\ Len(PA) = 17
      /\ \A i \in 1 .. 9 : PA[i] = P[i]
      /\ \A i \in 1 .. 8 : PA[9 + i] = A[i]
  <2>1. PA \in Seq(T) /\ Len(PA) = Len(P) + Len(A)
    BY <1>6, <1>7, ConcatenatedLength
  <2>2. ASSUME NEW i \in 1 .. Len(P) + Len(A)
        PROVE  PA[i] = IF i <= Len(P) THEN P[i] ELSE A[i - Len(P)]
    BY <1>6, <1>7, ConcatenatedItems
  <2> HIDE DEF PA
  <2> QED BY <1>6, <1>7, <2>1, <2>2
<1> HIDE DEF PA
<1>10. /\ q \in Seq(T) /\ Len(q) = 24
       /\ \A i \in 1 .. 17 : q[i] = PA[i]
       /\ \A i \in 1 .. 7 : q[17 + i] = W[i]
  <2>1. q \in Seq(T) /\ Len(q) = Len(PA) + Len(W)
    BY <1>8, <1>9, ConcatenatedLength
  <2>2. ASSUME NEW i \in 1 .. Len(PA) + Len(W)
        PROVE  q[i] = IF i <= Len(PA) THEN PA[i] ELSE W[i - Len(PA)]
    BY <1>8, <1>9, ConcatenatedItems
  <2> HIDE DEF q
  <2> QED BY <1>8, <1>9, <2>1, <2>2
<1> HIDE DEF q
<1>11. q = [i \in 1 .. 24 |-> q[i]]
  BY <1>10
<1>12. /\ \A i \in 1 .. 9 : q[i] = P[i]
       /\ \A i \in 1 .. 8 : q[9 + i] = A[i]
  <2>1. \A i \in 1 .. 9 : i \in 1 .. 17
    OBVIOUS
  <2>2. \A i \in 1 .. 8 : 9 + i \in 1 .. 17
    OBVIOUS
  <2> QED BY <1>9, <1>10, <2>1, <2>2
<1> QED BY <1>5, <1>10, <1>11, <1>12 DEF P, A, W, q, PA

Blank == ""

LEMMA SeedRow ==
  ASSUME NEW t \in Tables, NEW refs, NEW owner, NEW key, NEW st \in StatesOf(t)
  PROVE  LET r == Seed(t, refs, owner, key, st)
         IN  /\ IsRow(r) /\ r.t = t /\ r.owner = owner /\ r.key = key
             /\ \A col \in Columns(t) : r.refs[col] = IF col \in DOMAIN refs THEN refs[col] ELSE Null
<1> DEFINE f == [col \in Columns(t) |-> IF col \in DOMAIN refs THEN refs[col] ELSE Null]
<1>1. f = [col \in Columns(t) |-> f[col]]
  OBVIOUS
<1>2. \A col \in Columns(t) : f[col] = IF col \in DOMAIN refs THEN refs[col] ELSE Null
  OBVIOUS
<1>3. Seed(t, refs, owner, key, st) =
        [t |-> t, refs |-> f, owner |-> owner, key |-> key, st |-> st, val |-> 0, tags |-> << >>]
  BY DEF Seed
<1> HIDE DEF f
<1> QED BY <1>1, <1>2, <1>3 DEF IsRow

LEMMA SeedTables ==
  LET q == NewInMemoryQuerier IN
  /\ IsRow(q[1]) /\ q[1].t = "users" /\ q[1].owner = Null /\ q[1].key = "a"
  /\ IsRow(q[2]) /\ q[2].t = "users" /\ q[2].owner = Null /\ q[2].key = "b"
  /\ IsRow(q[3]) /\ q[3].t = "users" /\ q[3].owner = Null /\ q[3].key = "c"
  /\ IsRow(q[4]) /\ q[4].t = "companies" /\ q[4].owner = Null
  /\ IsRow(q[5]) /\ q[5].t = "companies" /\ q[5].owner = Null
  /\ IsRow(q[6]) /\ q[6].t = "contacts" /\ q[6].owner = Null
     /\ q[6].refs["companies"] = 4
  /\ IsRow(q[7]) /\ q[7].t = "contacts" /\ q[7].owner = Null
     /\ q[7].refs["companies"] = Null
  /\ IsRow(q[8]) /\ q[8].t = "deals" /\ q[8].owner = 1
     /\ q[8].refs["companies"] = 4
     /\ q[8].refs["contacts"] = 6
  /\ IsRow(q[9]) /\ q[9].t = "deals" /\ q[9].owner = 2
     /\ q[9].refs["companies"] = Null
     /\ q[9].refs["contacts"] = 7
  /\ IsRow(q[10]) /\ q[10].t = "todos" /\ q[10].owner = 1
     /\ q[10].refs["contacts"] = 6
     /\ q[10].refs["deals"] = 8
  /\ IsRow(q[11]) /\ q[11].t = "todos" /\ q[11].owner = 2
     /\ q[11].refs["contacts"] = 7
     /\ q[11].refs["deals"] = 9
  /\ IsRow(q[12]) /\ q[12].t = "notifications" /\ q[12].owner = 1
  /\ IsRow(q[13]) /\ q[13].t = "appointments" /\ q[13].owner = Null
     /\ q[13].refs["contacts"] = Null
     /\ q[13].refs["companies"] = Null
     /\ q[13].refs["deals"] = Null
  /\ IsRow(q[14]) /\ q[14].t = "appointments" /\ q[14].owner = Null
     /\ q[14].refs["contacts"] = Null
     /\ q[14].refs["companies"] = Null
     /\ q[14].refs["deals"] = Null
  /\ IsRow(q[15]) /\ q[15].t = "appointments" /\ q[15].owner = Null
     /\ q[15].refs["contacts"] = 7
     /\ q[15].refs["companies"] = Null
     /\ q[15].refs["deals"] = 9
  /\ IsRow(q[16]) /\ q[16].t = "notes" /\ q[16].owner = Null
  /\ IsRow(q[17]) /\ q[17].t = "notes" /\ q[17].owner = Null
  /\ IsRow(q[18]) /\ q[18].t = "articles" /\ q[18].owner = Null
  /\ IsRow(q[19]) /\ q[19].t = "articles" /\ q[19].owner = Null
  /\ IsRow(q[20]) /\ q[20].t = "workflows" /\ q[20].owner = Null /\ q[20].key = "a"
  /\ IsRow(q[21]) /\ q[21].t = "workflows" /\ q[21].owner = Null /\ q[21].key = "b"
  /\ IsRow(q[22]) /\ q[22].t = "workflows" /\ q[22].owner = Null /\ q[22].key = "c"
  /\ IsRow(q[23]) /\ q[23].t = "runs" /\ q[23].owner = Null /\ q[23].key = "a"
     /\ q[23].refs["workflows"] = 20
  /\ IsRow(q[24]) /\ q[24].t = "runs" /\ q[24].owner = Null /\ q[24].key = "b"
     /\ q[24].refs["workflows"] = 21
<1> DEFINE q == NewInMemoryQuerier
<1>1. IsRow(q[1]) /\ q[1].t = "users" /\ q[1].owner = Null /\ q[1].key = "a"
  <2>1. SeedPeople[1] = Seed("users", << >>, Null, "a", "ACTIVE")
    BY DEF SeedPeople
  <2>2. q[1] = SeedPeople[1]
    BY SeedSequence
  <2>3. "users" \in Tables /\ "ACTIVE" \in StatesOf("users")
    BY DEF Tables, StatesOf, States, Columns, References, Revoked
  <2> HIDE DEF q
  <2> QED BY <2>1, <2>2, <2>3, SeedRow
<1>2. IsRow(q[2]) /\ q[2].t = "users" /\ q[2].owner = Null /\ q[2].key = "b"
  <2>1. SeedPeople[2] = Seed("users", << >>, Null, "b", "ACTIVE")
    BY DEF SeedPeople
  <2>2. q[2] = SeedPeople[2]
    BY SeedSequence
  <2>3. "users" \in Tables /\ "ACTIVE" \in StatesOf("users")
    BY DEF Tables, StatesOf, States, Columns, References, Revoked
  <2> HIDE DEF q
  <2> QED BY <2>1, <2>2, <2>3, SeedRow
<1>3. IsRow(q[3]) /\ q[3].t = "users" /\ q[3].owner = Null /\ q[3].key = "c"
  <2>1. SeedPeople[3] = Seed("users", << >>, Null, "c", "ACTIVE")
    BY DEF SeedPeople
  <2>2. q[3] = SeedPeople[3]
    BY SeedSequence
  <2>3. "users" \in Tables /\ "ACTIVE" \in StatesOf("users")
    BY DEF Tables, StatesOf, States, Columns, References, Revoked
  <2> HIDE DEF q
  <2> QED BY <2>1, <2>2, <2>3, SeedRow
<1>4. IsRow(q[4]) /\ q[4].t = "companies" /\ q[4].owner = Null
  <2>1. SeedPeople[4] = Seed("companies", << >>, Null, Blank, Blank)
    BY DEF SeedPeople, Blank
  <2>2. q[4] = SeedPeople[4]
    BY SeedSequence
  <2>3. "companies" \in Tables /\ Blank \in StatesOf("companies")
    BY DEF Tables, StatesOf, States, Columns, References, Revoked, Blank
  <2> HIDE DEF q
  <2> QED BY <2>1, <2>2, <2>3, SeedRow
<1>5. IsRow(q[5]) /\ q[5].t = "companies" /\ q[5].owner = Null
  <2>1. SeedPeople[5] = Seed("companies", << >>, Null, Blank, Blank)
    BY DEF SeedPeople, Blank
  <2>2. q[5] = SeedPeople[5]
    BY SeedSequence
  <2>3. "companies" \in Tables /\ Blank \in StatesOf("companies")
    BY DEF Tables, StatesOf, States, Columns, References, Revoked, Blank
  <2> HIDE DEF q
  <2> QED BY <2>1, <2>2, <2>3, SeedRow
<1>6. IsRow(q[6]) /\ q[6].t = "contacts" /\ q[6].owner = Null
      /\ q[6].refs["companies"] = 4
  <2>1. SeedPeople[6] = Seed("contacts", [companies |-> 4], Null, Blank, Blank)
    BY DEF SeedPeople, Blank
  <2>2. q[6] = SeedPeople[6]
    BY SeedSequence
  <2>3. "contacts" \in Tables /\ Blank \in StatesOf("contacts") /\ "companies" \in Columns("contacts")
    BY DEF Tables, StatesOf, States, Columns, References, Revoked, Blank
  <2> HIDE DEF q
  <2> QED BY <2>1, <2>2, <2>3, SeedRow
<1>7. IsRow(q[7]) /\ q[7].t = "contacts" /\ q[7].owner = Null
      /\ q[7].refs["companies"] = Null
  <2>1. SeedPeople[7] = Seed("contacts", << >>, Null, Blank, Blank)
    BY DEF SeedPeople, Blank
  <2>2. q[7] = SeedPeople[7]
    BY SeedSequence
  <2>3. "contacts" \in Tables /\ Blank \in StatesOf("contacts") /\ "companies" \in Columns("contacts")
    BY DEF Tables, StatesOf, States, Columns, References, Revoked, Blank
  <2> HIDE DEF q
  <2> QED BY <2>1, <2>2, <2>3, SeedRow
<1>8. IsRow(q[8]) /\ q[8].t = "deals" /\ q[8].owner = 1
      /\ q[8].refs["companies"] = 4
      /\ q[8].refs["contacts"] = 6
  <2>1. SeedPeople[8] = Seed("deals", [companies |-> 4, contacts |-> 6], 1, Blank, "OFFER_SENT")
    BY DEF SeedPeople, Blank
  <2>2. q[8] = SeedPeople[8]
    BY SeedSequence
  <2>3. /\ "deals" \in Tables
        /\ "OFFER_SENT" \in StatesOf("deals") /\ "companies" \in Columns("deals")
        /\ "contacts" \in Columns("deals")
    BY DEF Tables, StatesOf, States, Columns, References, Revoked
  <2> HIDE DEF q
  <2> QED BY <2>1, <2>2, <2>3, SeedRow
<1>9. IsRow(q[9]) /\ q[9].t = "deals" /\ q[9].owner = 2
      /\ q[9].refs["companies"] = Null
      /\ q[9].refs["contacts"] = 7
  <2>1. SeedPeople[9] = Seed("deals", [contacts |-> 7], 2, Blank, "LEAD")
    BY DEF SeedPeople, Blank
  <2>2. q[9] = SeedPeople[9]
    BY SeedSequence
  <2>3. /\ "deals" \in Tables
        /\ "LEAD" \in StatesOf("deals") /\ "companies" \in Columns("deals")
        /\ "contacts" \in Columns("deals")
    BY DEF Tables, StatesOf, States, Columns, References, Revoked
  <2> HIDE DEF q
  <2> QED BY <2>1, <2>2, <2>3, SeedRow
<1>10. IsRow(q[10]) /\ q[10].t = "todos" /\ q[10].owner = 1
      /\ q[10].refs["contacts"] = 6
      /\ q[10].refs["deals"] = 8
  <2>1. SeedActivity[1] = Seed("todos", [contacts |-> 6, deals |-> 8], 1, Blank, "OPEN")
    BY DEF SeedActivity, Blank
  <2>2. q[10] = SeedActivity[1]
    BY SeedSequence, 1 \in 1 .. 8
  <2>3. /\ "todos" \in Tables
        /\ "OPEN" \in StatesOf("todos") /\ "contacts" \in Columns("todos")
        /\ "deals" \in Columns("todos")
    BY DEF Tables, StatesOf, States, Columns, References, Revoked
  <2> HIDE DEF q
  <2> QED BY <2>1, <2>2, <2>3, SeedRow
<1>11. IsRow(q[11]) /\ q[11].t = "todos" /\ q[11].owner = 2
      /\ q[11].refs["contacts"] = 7
      /\ q[11].refs["deals"] = 9
  <2>1. SeedActivity[2] = Seed("todos", [contacts |-> 7, deals |-> 9], 2, Blank, "OPEN")
    BY DEF SeedActivity, Blank
  <2>2. q[11] = SeedActivity[2]
    BY SeedSequence, 2 \in 1 .. 8
  <2>3. /\ "todos" \in Tables
        /\ "OPEN" \in StatesOf("todos") /\ "contacts" \in Columns("todos")
        /\ "deals" \in Columns("todos")
    BY DEF Tables, StatesOf, States, Columns, References, Revoked
  <2> HIDE DEF q
  <2> QED BY <2>1, <2>2, <2>3, SeedRow
<1>12. IsRow(q[12]) /\ q[12].t = "notifications" /\ q[12].owner = 1
  <2>1. SeedActivity[3] = Seed("notifications", << >>, 1, Blank, "unread")
    BY DEF SeedActivity, Blank
  <2>2. q[12] = SeedActivity[3]
    BY SeedSequence, 3 \in 1 .. 8
  <2>3. "notifications" \in Tables /\ "unread" \in StatesOf("notifications")
    BY DEF Tables, StatesOf, States, Columns, References, Revoked
  <2> HIDE DEF q
  <2> QED BY <2>1, <2>2, <2>3, SeedRow
<1>13. IsRow(q[13]) /\ q[13].t = "appointments" /\ q[13].owner = Null
      /\ q[13].refs["contacts"] = Null
      /\ q[13].refs["companies"] = Null
      /\ q[13].refs["deals"] = Null
  <2>1. SeedActivity[4] = Seed("appointments", << >>, Null, Blank, "local")
    BY DEF SeedActivity, Blank
  <2>2. q[13] = SeedActivity[4]
    BY SeedSequence, 4 \in 1 .. 8
  <2>3. /\ "appointments" \in Tables
        /\ "local" \in StatesOf("appointments") /\ "contacts" \in Columns("appointments")
        /\ "companies" \in Columns("appointments") /\ "deals" \in Columns("appointments")
    BY DEF Tables, StatesOf, States, Columns, References, Revoked
  <2> HIDE DEF q
  <2> QED BY <2>1, <2>2, <2>3, SeedRow
<1>14. IsRow(q[14]) /\ q[14].t = "appointments" /\ q[14].owner = Null
      /\ q[14].refs["contacts"] = Null
      /\ q[14].refs["companies"] = Null
      /\ q[14].refs["deals"] = Null
  <2>1. SeedActivity[5] = Seed("appointments", << >>, Null, Blank, "local")
    BY DEF SeedActivity, Blank
  <2>2. q[14] = SeedActivity[5]
    BY SeedSequence, 5 \in 1 .. 8
  <2>3. /\ "appointments" \in Tables
        /\ "local" \in StatesOf("appointments") /\ "contacts" \in Columns("appointments")
        /\ "companies" \in Columns("appointments") /\ "deals" \in Columns("appointments")
    BY DEF Tables, StatesOf, States, Columns, References, Revoked
  <2> HIDE DEF q
  <2> QED BY <2>1, <2>2, <2>3, SeedRow
<1>15. IsRow(q[15]) /\ q[15].t = "appointments" /\ q[15].owner = Null
      /\ q[15].refs["contacts"] = 7
      /\ q[15].refs["companies"] = Null
      /\ q[15].refs["deals"] = 9
  <2>1. SeedActivity[6] = Seed("appointments", [contacts |-> 7, deals |-> 9], Null, Blank, "local")
    BY DEF SeedActivity, Blank
  <2>2. q[15] = SeedActivity[6]
    BY SeedSequence, 6 \in 1 .. 8
  <2>3. /\ "appointments" \in Tables
        /\ "local" \in StatesOf("appointments") /\ "contacts" \in Columns("appointments")
        /\ "companies" \in Columns("appointments") /\ "deals" \in Columns("appointments")
    BY DEF Tables, StatesOf, States, Columns, References, Revoked
  <2> HIDE DEF q
  <2> QED BY <2>1, <2>2, <2>3, SeedRow
<1>16. IsRow(q[16]) /\ q[16].t = "notes" /\ q[16].owner = Null
  <2>1. SeedActivity[7] = Seed("notes", [entity |-> 6], Null, "a", Blank)
    BY DEF SeedActivity, Blank
  <2>2. q[16] = SeedActivity[7]
    BY SeedSequence, 7 \in 1 .. 8
  <2>3. "notes" \in Tables /\ Blank \in StatesOf("notes")
    BY DEF Tables, StatesOf, States, Columns, References, Revoked, Blank
  <2> HIDE DEF q
  <2> QED BY <2>1, <2>2, <2>3, SeedRow
<1>17. IsRow(q[17]) /\ q[17].t = "notes" /\ q[17].owner = Null
  <2>1. SeedActivity[8] = Seed("notes", [entity |-> 6], Null, "a", Blank)
    BY DEF SeedActivity, Blank
  <2>2. q[17] = SeedActivity[8]
    BY SeedSequence, 8 \in 1 .. 8
  <2>3. "notes" \in Tables /\ Blank \in StatesOf("notes")
    BY DEF Tables, StatesOf, States, Columns, References, Revoked, Blank
  <2> HIDE DEF q
  <2> QED BY <2>1, <2>2, <2>3, SeedRow
<1>18. IsRow(q[18]) /\ q[18].t = "articles" /\ q[18].owner = Null
  <2>1. SeedAutomation[1] = Seed("articles", << >>, Null, Blank, "plain")
    BY DEF SeedAutomation, Blank
  <2>2. q[18] = SeedAutomation[1]
    BY SeedSequence, 1 \in 1 .. 7
  <2>3. "articles" \in Tables /\ "plain" \in StatesOf("articles")
    BY DEF Tables, StatesOf, States, Columns, References, Revoked
  <2> HIDE DEF q
  <2> QED BY <2>1, <2>2, <2>3, SeedRow
<1>19. IsRow(q[19]) /\ q[19].t = "articles" /\ q[19].owner = Null
  <2>1. SeedAutomation[2] = Seed("articles", << >>, Null, Blank, "plain")
    BY DEF SeedAutomation, Blank
  <2>2. q[19] = SeedAutomation[2]
    BY SeedSequence, 2 \in 1 .. 7
  <2>3. "articles" \in Tables /\ "plain" \in StatesOf("articles")
    BY DEF Tables, StatesOf, States, Columns, References, Revoked
  <2> HIDE DEF q
  <2> QED BY <2>1, <2>2, <2>3, SeedRow
<1>20. IsRow(q[20]) /\ q[20].t = "workflows" /\ q[20].owner = Null /\ q[20].key = "a"
  <2>1. SeedAutomation[3] = Seed("workflows", << >>, Null, "a", Blank)
    BY DEF SeedAutomation, Blank
  <2>2. q[20] = SeedAutomation[3]
    BY SeedSequence, 3 \in 1 .. 7
  <2>3. "workflows" \in Tables /\ Blank \in StatesOf("workflows")
    BY DEF Tables, StatesOf, States, Columns, References, Revoked, Blank
  <2> HIDE DEF q
  <2> QED BY <2>1, <2>2, <2>3, SeedRow
<1>21. IsRow(q[21]) /\ q[21].t = "workflows" /\ q[21].owner = Null /\ q[21].key = "b"
  <2>1. SeedAutomation[4] = Seed("workflows", << >>, Null, "b", Blank)
    BY DEF SeedAutomation, Blank
  <2>2. q[21] = SeedAutomation[4]
    BY SeedSequence, 4 \in 1 .. 7
  <2>3. "workflows" \in Tables /\ Blank \in StatesOf("workflows")
    BY DEF Tables, StatesOf, States, Columns, References, Revoked, Blank
  <2> HIDE DEF q
  <2> QED BY <2>1, <2>2, <2>3, SeedRow
<1>22. IsRow(q[22]) /\ q[22].t = "workflows" /\ q[22].owner = Null /\ q[22].key = "c"
  <2>1. SeedAutomation[5] = Seed("workflows", << >>, Null, "c", Blank)
    BY DEF SeedAutomation, Blank
  <2>2. q[22] = SeedAutomation[5]
    BY SeedSequence, 5 \in 1 .. 7
  <2>3. "workflows" \in Tables /\ Blank \in StatesOf("workflows")
    BY DEF Tables, StatesOf, States, Columns, References, Revoked, Blank
  <2> HIDE DEF q
  <2> QED BY <2>1, <2>2, <2>3, SeedRow
<1>23. IsRow(q[23]) /\ q[23].t = "runs" /\ q[23].owner = Null /\ q[23].key = "a"
      /\ q[23].refs["workflows"] = 20
  <2>1. SeedAutomation[6] = Seed("runs", [workflows |-> 20], Null, "a", "IN_PROGRESS")
    BY DEF SeedAutomation
  <2>2. q[23] = SeedAutomation[6]
    BY SeedSequence, 6 \in 1 .. 7
  <2>3. "runs" \in Tables /\ "IN_PROGRESS" \in StatesOf("runs") /\ "workflows" \in Columns("runs")
    BY DEF Tables, StatesOf, States, Columns, References, Revoked
  <2> HIDE DEF q
  <2> QED BY <2>1, <2>2, <2>3, SeedRow
<1>24. IsRow(q[24]) /\ q[24].t = "runs" /\ q[24].owner = Null /\ q[24].key = "b"
      /\ q[24].refs["workflows"] = 21
  <2>1. SeedAutomation[7] = Seed("runs", [workflows |-> 21], Null, "b", "COMPLETED")
    BY DEF SeedAutomation
  <2>2. q[24] = SeedAutomation[7]
    BY SeedSequence, 7 \in 1 .. 7
  <2>3. "runs" \in Tables /\ "COMPLETED" \in StatesOf("runs") /\ "workflows" \in Columns("runs")
    BY DEF Tables, StatesOf, States, Columns, References, Revoked
  <2> HIDE DEF q
  <2> QED BY <2>1, <2>2, <2>3, SeedRow
<1> QED BY <1>1, <1>2, <1>3, <1>4, <1>5, <1>6, <1>7, <1>8, <1>9, <1>10, <1>11, <1>12, <1>13, <1>14,
          <1>15, <1>16, <1>17, <1>18, <1>19, <1>20, <1>21, <1>22, <1>23, <1>24

\* Its tables, its keys and its references.
LEMMA SeedSound ==
  Sound(NewInMemoryQuerier) /\ DOMAIN NewInMemoryQuerier = 1 .. 24
<1> DEFINE q == NewInMemoryQuerier
<1>1. q = [i \in 1 .. 24 |-> q[i]] /\ DOMAIN q = 1 .. 24
  BY SeedSequence
<1> HIDE DEF q
<1>2. /\ \A i \in {1, 2, 3} : q[i].t = "users"
      /\ \A i \in {4, 5} : q[i].t = "companies"
      /\ \A i \in {6, 7} : q[i].t = "contacts"
      /\ \A i \in {8, 9} : q[i].t = "deals"
      /\ \A i \in {10, 11} : q[i].t = "todos"
      /\ \A i \in {12} : q[i].t = "notifications"
      /\ \A i \in {13, 14, 15} : q[i].t = "appointments"
      /\ \A i \in {16, 17} : q[i].t = "notes"
      /\ \A i \in {18, 19} : q[i].t = "articles"
      /\ \A i \in {20, 21, 22} : q[i].t = "workflows"
      /\ \A i \in {23, 24} : q[i].t = "runs"
  BY SeedTables DEF q
<1>3. \A i \in 1 .. 24 : IsRow(q[i])
  <2>1. /\ IsRow(q[1]) /\ IsRow(q[2]) /\ IsRow(q[3]) /\ IsRow(q[4]) /\ IsRow(q[5]) /\ IsRow(q[6])
        /\ IsRow(q[7]) /\ IsRow(q[8]) /\ IsRow(q[9]) /\ IsRow(q[10]) /\ IsRow(q[11]) /\ IsRow(q[12])
        /\ IsRow(q[13]) /\ IsRow(q[14]) /\ IsRow(q[15]) /\ IsRow(q[16]) /\ IsRow(q[17]) /\ IsRow(q[18])
        /\ IsRow(q[19]) /\ IsRow(q[20]) /\ IsRow(q[21]) /\ IsRow(q[22]) /\ IsRow(q[23]) /\ IsRow(q[24])
    BY SeedTables DEF q
  <2> QED BY <2>1
<1>4. IsStore(q)
  BY <1>1, <1>3 DEF IsStore
<1>5. ASSUME NEW i \in 1 .. 24, q[i].t \in Keyed
      PROVE  i \in {1, 2, 3, 20, 21, 22, 23, 24}
  BY <1>2, <1>5 DEF Keyed
<1>6. \A i \in 1 .. 24 : KeyIsFree(q, i, q[i])
  <2>1. /\ q[1].key = "a" /\ q[2].key = "b" /\ q[3].key = "c"
        /\ q[20].key = "a" /\ q[21].key = "b" /\ q[22].key = "c"
        /\ q[23].key = "a" /\ q[24].key = "b"
    BY SeedTables DEF q
  <2>2. /\ Ids(q, "users") = {1, 2, 3} /\ Ids(q, "workflows") = {20, 21, 22} /\ Ids(q, "runs") = {23, 24}
    BY <1>1, <1>2, <1>5 DEF Ids, Keyed
  <2> QED BY <1>2, <1>5, <2>1, <2>2 DEF KeyIsFree
<1>7. \A i \in {1, 2, 3} : ReferencesHold(q, q[i])
  <2>1. q[1].owner = Null /\ q[2].owner = Null /\ q[3].owner = Null
    BY SeedTables DEF q
  <2>2. References("users") = {} /\ "users" \notin OwnerRequired
    BY DEF References, OwnerRequired
  <2> QED BY <1>2, <2>1, <2>2 DEF ReferencesHold
<1>8. \A i \in {4, 5} : ReferencesHold(q, q[i])
  <2>1. q[4].owner = Null /\ q[5].owner = Null
    BY SeedTables DEF q
  <2>2. References("companies") = {} /\ "companies" \notin OwnerRequired
    BY DEF References, OwnerRequired
  <2> QED BY <1>2, <2>1, <2>2 DEF ReferencesHold
<1>9. \A i \in {6, 7} : ReferencesHold(q, q[i])
  <2>1. /\ q[6].owner = Null /\ q[6].refs["companies"] = 4
        /\ q[7].owner = Null /\ q[7].refs["companies"] = Null
    BY SeedTables DEF q
  <2>2. 4 \in Ids(q, "companies")
    BY <1>1, <1>2 DEF Ids
  <2>3. /\ References("contacts") = {"companies"}
        /\ "contacts" \notin OwnerRequired /\ <<"contacts", "companies">> \notin Required
    BY DEF References, OwnerRequired, Required
  <2> QED BY <1>2, <2>1, <2>2, <2>3 DEF ReferencesHold
<1>10. \A i \in {8, 9} : ReferencesHold(q, q[i])
  <2>1. /\ q[8].owner = 1 /\ q[8].refs["companies"] = 4 /\ q[8].refs["contacts"] = 6
        /\ q[9].owner = 2 /\ q[9].refs["companies"] = Null /\ q[9].refs["contacts"] = 7
    BY SeedTables DEF q
  <2>2. /\ 1 \in Ids(q, "users")
        /\ 2 \in Ids(q, "users") /\ 4 \in Ids(q, "companies") /\ 6 \in Ids(q, "contacts")
        /\ 7 \in Ids(q, "contacts")
    BY <1>1, <1>2 DEF Ids
  <2>3. /\ References("deals") = {"companies", "contacts"}
        /\ "deals" \notin OwnerRequired /\ <<"deals", "companies">> \notin Required
    BY DEF References, OwnerRequired, Required
  <2> QED BY <1>2, <2>1, <2>2, <2>3 DEF ReferencesHold
<1>11. \A i \in {10, 11} : ReferencesHold(q, q[i])
  <2>1. /\ q[10].owner = 1 /\ q[10].refs["contacts"] = 6 /\ q[10].refs["deals"] = 8
        /\ q[11].owner = 2 /\ q[11].refs["contacts"] = 7 /\ q[11].refs["deals"] = 9
    BY SeedTables DEF q
  <2>2. /\ 1 \in Ids(q, "users")
        /\ 2 \in Ids(q, "users") /\ 6 \in Ids(q, "contacts") /\ 7 \in Ids(q, "contacts")
        /\ 8 \in Ids(q, "deals") /\ 9 \in Ids(q, "deals")
    BY <1>1, <1>2 DEF Ids
  <2>3. References("todos") = {"contacts", "deals"} /\ "todos" \notin OwnerRequired
    BY DEF References, OwnerRequired, Required
  <2> QED BY <1>2, <2>1, <2>2, <2>3 DEF ReferencesHold
<1>12. \A i \in {12} : ReferencesHold(q, q[i])
  <2>1. /\ q[12].owner = 1
    BY SeedTables DEF q
  <2>2. 1 \in Ids(q, "users")
    BY <1>1, <1>2 DEF Ids
  <2>3. References("notifications") = {} /\ "notifications" \notin OwnerRequired
    BY DEF References, OwnerRequired, Required
  <2> QED BY <1>2, <2>1, <2>2, <2>3 DEF ReferencesHold
<1>13. \A i \in {13, 14, 15} : ReferencesHold(q, q[i])
  <2>1. /\ q[13].owner = Null /\ q[13].refs["contacts"] = Null /\ q[13].refs["companies"] = Null /\ q[13].refs["deals"] = Null
        /\ q[14].owner = Null /\ q[14].refs["contacts"] = Null /\ q[14].refs["companies"] = Null /\ q[14].refs["deals"] = Null
        /\ q[15].owner = Null /\ q[15].refs["contacts"] = 7 /\ q[15].refs["companies"] = Null /\ q[15].refs["deals"] = 9
    BY SeedTables DEF q
  <2>2. 7 \in Ids(q, "contacts") /\ 9 \in Ids(q, "deals")
    BY <1>1, <1>2 DEF Ids
  <2>3. /\ References("appointments") = {"contacts", "companies", "deals"}
        /\ "appointments" \notin OwnerRequired /\ <<"appointments", "contacts">> \notin Required
        /\ <<"appointments", "companies">> \notin Required
        /\ <<"appointments", "deals">> \notin Required
    BY DEF References, OwnerRequired, Required
  <2> QED BY <1>2, <2>1, <2>2, <2>3 DEF ReferencesHold
<1>14. \A i \in {16, 17} : ReferencesHold(q, q[i])
  <2>1. q[16].owner = Null /\ q[17].owner = Null
    BY SeedTables DEF q
  <2>2. References("notes") = {} /\ "notes" \notin OwnerRequired
    BY DEF References, OwnerRequired
  <2> QED BY <1>2, <2>1, <2>2 DEF ReferencesHold
<1>15. \A i \in {18, 19} : ReferencesHold(q, q[i])
  <2>1. q[18].owner = Null /\ q[19].owner = Null
    BY SeedTables DEF q
  <2>2. References("articles") = {} /\ "articles" \notin OwnerRequired
    BY DEF References, OwnerRequired
  <2> QED BY <1>2, <2>1, <2>2 DEF ReferencesHold
<1>16. \A i \in {20, 21, 22} : ReferencesHold(q, q[i])
  <2>1. q[20].owner = Null /\ q[21].owner = Null /\ q[22].owner = Null
    BY SeedTables DEF q
  <2>2. References("workflows") = {} /\ "workflows" \notin OwnerRequired
    BY DEF References, OwnerRequired
  <2> QED BY <1>2, <2>1, <2>2 DEF ReferencesHold
<1>17. \A i \in {23, 24} : ReferencesHold(q, q[i])
  <2>1. /\ q[23].owner = Null /\ q[23].refs["workflows"] = 20
        /\ q[24].owner = Null /\ q[24].refs["workflows"] = 21
    BY SeedTables DEF q
  <2>2. 20 \in Ids(q, "workflows") /\ 21 \in Ids(q, "workflows")
    BY <1>1, <1>2 DEF Ids
  <2>3. References("runs") = {"workflows"} /\ "runs" \notin OwnerRequired
    BY DEF References, OwnerRequired, Required
  <2> QED BY <1>2, <2>1, <2>2, <2>3 DEF ReferencesHold
<1>18. \A i \in 1 .. 24 : ReferencesHold(q, q[i])
  BY <1>7, <1>8, <1>9, <1>10, <1>11, <1>12, <1>13, <1>14, <1>15, <1>16, <1>17
<1> QED BY <1>1, <1>4, <1>6, <1>18 DEF Sound, Valid, q

LEMMA SeedUnique ==
  Unique(NewInMemoryQuerier)
<1> DEFINE q == NewInMemoryQuerier
<1>1. Sound(q) /\ DOMAIN q = 1 .. 24
  BY SeedSound
<1>2. /\ q[1].key = "a" /\ q[2].key = "b" /\ q[3].key = "c"
  BY SeedTables
<1>3. Ids(q, "users") \subseteq {1, 2, 3}
  <2>1. /\ \A i \in 4 .. 8 : q[i].t # "users"
        /\ \A i \in 9 .. 16 : q[i].t # "users"
        /\ \A i \in 17 .. 24 : q[i].t # "users"
    <3>1. q[4].t # "users" /\ q[5].t # "users" /\ q[6].t # "users" /\ q[7].t # "users" /\ q[8].t # "users"
      BY SeedTables
    <3>2. /\ q[9].t # "users" /\ q[10].t # "users" /\ q[11].t # "users" /\ q[12].t # "users"
          /\ q[13].t # "users" /\ q[14].t # "users" /\ q[15].t # "users" /\ q[16].t # "users"
      BY SeedTables
    <3>3. /\ q[17].t # "users" /\ q[18].t # "users" /\ q[19].t # "users" /\ q[20].t # "users"
          /\ q[21].t # "users" /\ q[22].t # "users" /\ q[23].t # "users" /\ q[24].t # "users"
      BY SeedTables
    <3> HIDE DEF q
    <3> QED BY <3>1, <3>2, <3>3
  <2> HIDE DEF q
  <2> QED BY <1>1, <2>1 DEF Ids
<1> HIDE DEF q
<1>4. \A i, j \in DOMAIN q : q[i].t = q[j].t /\ i # j /\ q[i].t \in Keyed => q[i].key # q[j].key
  BY <1>1 DEF Sound, Valid, KeyIsFree, Ids
<1>5. \A i, j \in Ids(q, "users") : i # j => Fold(q[i].key) # Fold(q[j].key)
  BY <1>2, <1>3 DEF Fold
<1>6. Unique(q)
  BY <1>4, <1>5 DEF Unique, Ids
<1> QED BY <1>6 DEF q

-----------------------------------------------------------------------------
(* What a transaction's copy keeps of the store it was made of.             *)
Later(s, s2) ==
    /\ \A i \in DOMAIN s : IsRevoked(s[i]) => i \in DOMAIN s2
    /\ \A i \in DOMAIN s : i \in DOMAIN s2 => SameKey(s[i], s2[i]) /\ StaysFinal(s[i], s2[i])

LEMMA DemoIsLater ==
  ASSUME NEW s, NEW c, NEW s2, DemoStep(s, c, s2)
  PROVE  Later(s, s2)
  BY DEF DemoStep, Later

\* A row of the older store that the newest one has was in between, too.
LEMMA LaterStill ==
  ASSUME NEW s, NEW s1, NEW s2, Later(s, s1), Later(s1, s2), DOMAIN s \cap DOMAIN s2 \subseteq DOMAIN s1
  PROVE  Later(s, s2)
<1>1. \A i \in DOMAIN s : IsRevoked(s[i]) => i \in DOMAIN s1 /\ s1[i] = s[i]
  BY DEF Later, StaysFinal, IsRevoked
<1>2. \A i \in DOMAIN s : IsRevoked(s[i]) => i \in DOMAIN s2
  BY <1>1 DEF Later
<1>3. ASSUME NEW i \in DOMAIN s, i \in DOMAIN s2
      PROVE  SameKey(s[i], s2[i]) /\ StaysFinal(s[i], s2[i])
  <2>1. /\ SameKey(s[i], s1[i]) /\ StaysFinal(s[i], s1[i])
        /\ SameKey(s1[i], s2[i]) /\ StaysFinal(s1[i], s2[i])
    BY <1>3 DEF Later
  <2> QED BY <2>1 DEF SameKey, StaysFinal
<1> QED BY <1>2, <1>3 DEF Later

\* No final state is left between two stores.
FinalRows(s, s2) ==
    /\ \A i \in DOMAIN s : i \in DOMAIN s2 => StaysSpent(s[i], s2[i])
    /\ \A i \in DOMAIN s : IsRevoked(s[i]) => i \in DOMAIN s2 /\ Freed(s[i], s2[i], s2)

LEMMA LaterIsFinal ==
  ASSUME NEW s, IsStore(s), NEW s2, Later(s, s2)
  PROVE  FinalRows(s, s2)
<1>1. \A i \in DOMAIN s : i \in DOMAIN s2 => StaysSpent(s[i], s2[i])
  BY DEF Later, StaysFinal, StaysSpent
<1>2. \A i \in DOMAIN s : IsRevoked(s[i]) => i \in DOMAIN s2 /\ s2[i] = s[i] /\ IsRow(s[i]) /\ s[i].t = "deals"
  BY DEF Later, StaysFinal, IsRevoked, IsStore
<1>3. \A i \in DOMAIN s : IsRevoked(s[i]) => Freed(s[i], s2[i], s2)
  BY <1>2, SameIsFreed
<1> QED BY <1>1, <1>2, <1>3 DEF FinalRows

LEMMA SameIsLater ==
  ASSUME NEW s
  PROVE  Later(s, s)
  BY DEF Later, SameKey, StaysFinal

-----------------------------------------------------------------------------
(* The inductive invariant.                                                 *)
\* The store: well formed always, sound until some call was answered in a
\* way the database would not, which the database itself never does.
StoreInv ==
    /\ scope \in [tables : SUBSET Tables, seeded : BOOLEAN, calls : Nat]
    /\ engine \in {"demo", "sql"} /\ strayed \in BOOLEAN
    /\ Placed(rows)
    /\ strayed \/ Sound(rows)
    /\ engine = "demo" => Unique(rows)
    /\ engine = "sql" => ~strayed /\ shadow = NoTx

\* The transaction: its copy is all it has changed, is well formed itself
\* and keeps what is final in the store it will replace.
TxInv ==
    shadow # NoTx =>
        \E s : /\ shadow = <<s>> /\ expected = <<s>>
               /\ Placed(s) /\ Unique(s) /\ Later(rows, s)
               /\ strayed \/ Sound(s)

IInv == StoreInv /\ TxInv

LEMMA InitInv ==
  ASSUME Init
  PROVE  IInv
<1>1. scope \in [tables : SUBSET Tables, seeded : BOOLEAN, calls : Nat]
  BY ScopesAssumption DEF Init
<1>2. engine \in {"demo", "sql"} /\ strayed = FALSE /\ shadow = NoTx /\ next = Len(rows) + 1
  BY DEF Init
<1>3. CASE scope.seeded
  <2>1. rows = NewInMemoryQuerier
    BY <1>3 DEF Init
  <2>2. Sound(rows) /\ DOMAIN rows = 1 .. 24 /\ Len(rows) = 24 /\ Unique(rows)
    BY <2>1, SeedSound, SeedSequence, SeedUnique
  <2>3. Placed(rows)
    BY <1>2, <2>2 DEF Placed, Sound
  <2> QED BY <1>1, <1>2, <2>2, <2>3 DEF IInv, StoreInv, TxInv
<1>4. CASE ~scope.seeded
  <2>1. rows = << >>
    BY <1>4 DEF Init, NewEmptyInMemoryQuerier
  <2>2. DOMAIN rows = {} /\ Len(rows) = 0 /\ rows = [i \in DOMAIN rows |-> rows[i]]
    BY <2>1
  <2>3. Sound(rows) /\ Unique(rows)
    BY <2>2 DEF Sound, IsStore, Unique
  <2>4. Placed(rows)
    BY <1>2, <2>2, <2>3 DEF Placed, Sound
  <2> QED BY <1>1, <1>2, <2>3, <2>4 DEF IInv, StoreInv, TxInv
<1> QED BY <1>3, <1>4

LEMMA CountInv ==
  ASSUME scope \in [tables : SUBSET Tables, seeded : BOOLEAN, calls : Nat], Count
  PROVE  scope' \in [tables : SUBSET Tables, seeded : BOOLEAN, calls : Nat]
  BY DEF Count

\* The ids a call hands out follow those in use.
LEMMA GrownPlaces ==
  ASSUME NEW s, Placed(s), NEW c, NEW s2, IsStore(s2), Grows(s, c, s2), next' = next + Fresh(c)
  PROVE  /\ next' \in Nat \ {0} /\ DOMAIN s2 \subseteq 1 .. next' - 1
         /\ \A i \in DOMAIN s2 : i \in DOMAIN s \/ i \notin 1 .. next - 1
<1>1. Fresh(c) \in {0, 1, 2} /\ next \in Nat \ {0}
  BY FreshIsNat DEF Placed
<1>2. next' \in Nat \ {0}
  BY <1>1
<1>3. \A i \in DOMAIN s2 : i \in 1 .. next - 1 \/ (i \in Nat /\ next <= i /\ i < next')
  BY DEF Grows, Placed
<1>4. \A i \in DOMAIN s2 : i \in 1 .. next' - 1
  BY <1>1, <1>2, <1>3
<1>5. \A i \in DOMAIN s2 : i \in DOMAIN s \/ i \notin 1 .. next - 1
  BY <1>1 DEF Grows
<1> QED BY <1>2, <1>4, <1>5

LEMMA CallOfScope ==
  ASSUME StoreInv, NEW s, NEW c \in Calls(s)
  PROVE  \E t \in Tables : c \in CallsOn(s, t)
  BY DEF StoreInv, Calls

LEMMA QuerierInv ==
  ASSUME IInv, NEW c \in Calls(rows), NEW v, Querier(c, v)
  PROVE  IInv' /\ FinalRows(rows, rows')
<1>1. PICK t \in Tables : c \in CallsOn(rows, t)
  BY CallOfScope DEF IInv
<1>2. /\ shadow = NoTx /\ shadow' = NoTx /\ engine' = engine /\ next' = next + Fresh(c)
      /\ rows' = (IF engine = "demo" THEN DemoCall(rows, c) ELSE SqlAnswer(rows, c, v)).rows
      /\ strayed' = (strayed \/ (IF engine = "demo" THEN DemoCall(rows, c) ELSE SqlAnswer(rows, c, v))
                                # SqlAnswer(rows, c, v))
  BY DEF Querier
<1>3. scope' \in [tables : SUBSET Tables, seeded : BOOLEAN, calls : Nat]
  BY CountInv DEF Querier, IInv, StoreInv
<1>4. /\ Placed(rows) /\ IsStore(rows) /\ strayed \in BOOLEAN /\ engine \in {"demo", "sql"}
      /\ strayed \/ Sound(rows)
      /\ engine = "demo" => Unique(rows)
      /\ engine = "sql" => ~strayed
  BY DEF IInv, StoreInv, Placed
<1>5. SqlStep(rows, c, SqlAnswer(rows, c, v).rows)
  BY <1>1, <1>4, SqlAnswerStep
<1>6. CASE engine = "demo"
  <2>1. rows' = DemoCall(rows, c).rows /\ strayed' = (strayed \/ DemoCall(rows, c) # SqlAnswer(rows, c, v))
    BY <1>2, <1>6
  <2>2. DemoStep(rows, c, rows')
    BY <1>1, <1>4, <2>1, DemoCallStep
  <2>3. strayed' \in BOOLEAN /\ (strayed' \/ Sound(rows'))
    BY <1>4, <1>5, <2>1 DEF SqlStep
  <2>4. Placed(rows)'
    BY <1>2, <1>4, <2>2, GrownPlaces DEF DemoStep, Placed
  <2>5. Unique(rows')
    BY <1>4, <1>6, <2>2 DEF DemoStep
  <2>6. FinalRows(rows, rows')
    BY <1>4, <2>2, DemoIsLater, LaterIsFinal
  <2> QED BY <1>2, <1>3, <1>6, <2>3, <2>4, <2>5, <2>6 DEF IInv, StoreInv, TxInv
<1>7. CASE engine = "sql"
  <2>1. rows' = SqlAnswer(rows, c, v).rows /\ ~strayed'
    BY <1>2, <1>4, <1>7
  <2>2. Sound(rows') /\ IsStore(rows') /\ Grows(rows, c, rows')
    BY <1>4, <1>5, <1>7, <2>1 DEF SqlStep
  <2>3. Placed(rows)'
    BY <1>2, <1>4, <2>2, GrownPlaces DEF Placed
  <2>4. FinalRows(rows, rows')
    BY <1>5, <2>1 DEF SqlStep, FinalRows
  <2> QED BY <1>2, <1>3, <1>7, <2>1, <2>2, <2>3, <2>4 DEF IInv, StoreInv, TxInv
<1> QED BY <1>4, <1>6, <1>7

LEMMA AgeInv ==
  ASSUME IInv, Age
  PROVE  IInv' /\ FinalRows(rows, rows')
<1>1. /\ shadow = NoTx /\ shadow' = NoTx /\ engine' = engine /\ next' = next /\ scope' = scope
      /\ strayed' = strayed
  BY DEF Age
<1>2. PICK i \in Ids(rows, "tokens"), st \in {"expired", "spent"} : rows' = [rows EXCEPT ![i].st = st]
  BY DEF Age
<1>3. IsStore(rows) /\ Placed(rows) /\ i \in DOMAIN rows /\ rows[i].t = "tokens"
  BY <1>2 DEF IInv, StoreInv, Placed, Ids
<1> DEFINE s2 == Stated(rows, {i}, st)
<1>4. rows' = s2
  BY <1>2, <1>3 DEF Stated, Set, SetState, IsStore
<1>5. \A j \in DOMAIN rows \cap {i} : MayTake(rows[j], st)
  BY <1>3 DEF MayTake, StatesOf, IsRevoked
<1>6. Rewritten(rows, s2)
  BY <1>3, <1>5, StateSet
<1>7. SqlStep(rows, [op |-> "Age"], s2) /\ DemoStep(rows, [op |-> "Age"], s2)
  BY <1>3, <1>5, <1>6, StateStep, RewriteStep
<1> HIDE DEF s2
<1>8. IsStore(s2) /\ DOMAIN s2 = DOMAIN rows
  BY <1>6 DEF Rewritten
<1>9. Placed(rows)'
  BY <1>1, <1>3, <1>4, <1>8 DEF Placed
<1>10. (Sound(rows) => Sound(s2)) /\ (Unique(rows) => Unique(s2)) /\ FinalRows(rows, s2)
  BY <1>7 DEF SqlStep, DemoStep, FinalRows
<1> QED BY <1>1, <1>4, <1>9, <1>10 DEF IInv, StoreInv, TxInv

\* The copy a transaction works on is the store.
LEMMA RunTxInv ==
  ASSUME IInv, RunTx
  PROVE  IInv' /\ rows' = rows
<1>1. /\ engine = "demo" /\ engine' = engine /\ next' = next /\ scope' = scope
      /\ strayed' = strayed /\ rows' = rows /\ expected' = <<rows>>
      /\ shadow' = <<[i \in {j \in DOMAIN rows : rows[j].t \in cloneForTransaction} |-> rows[i]]>>
  BY DEF RunTx
<1>2. Placed(rows) /\ IsStore(rows) /\ (strayed \/ Sound(rows)) /\ Unique(rows)
  BY <1>1 DEF IInv, StoreInv, Placed
<1>3. {j \in DOMAIN rows : rows[j].t \in cloneForTransaction} = DOMAIN rows
  BY <1>2 DEF IsStore, IsRow, cloneForTransaction
<1>4. rows = [i \in DOMAIN rows |-> rows[i]]
  BY <1>2 DEF IsStore
<1>5. shadow' = <<rows>>
  BY <1>1, <1>3, <1>4
<1>6. StoreInv'
  BY <1>1, <1>2 DEF IInv, StoreInv, Placed
<1>7. Later(rows, rows)
  BY SameIsLater
<1>8. Placed(rows)' /\ Unique(rows)' /\ (strayed \/ Sound(rows))' /\ Later(rows, rows)'
  BY <1>1, <1>2, <1>7 DEF Placed
<1>9. TxInv'
  BY <1>1, <1>5, <1>8 DEF TxInv
<1> QED BY <1>1, <1>6, <1>9 DEF IInv

LEMMA TxCallInv ==
  ASSUME IInv, shadow # NoTx, NEW c \in Calls(shadow[1]), NEW v, TxCall(c, v)
  PROVE  IInv' /\ rows' = rows
<1>1. PICK s : /\ shadow = <<s>> /\ expected = <<s>>
               /\ Placed(s) /\ Unique(s) /\ Later(rows, s)
               /\ strayed \/ Sound(s)
  BY DEF IInv, TxInv
<1>2. shadow[1] = s /\ expected[1] = s
  BY <1>1
<1>3. PICK t \in Tables : c \in CallsOn(s, t)
  BY <1>2, CallOfScope DEF IInv
<1> DEFINE s2 == DemoCall(s, c).rows
<1>4. /\ shadow' = <<s2>> /\ expected' = <<s2>> /\ next' = next + Fresh(c)
      /\ rows' = rows /\ engine' = engine
      /\ strayed' = (strayed \/ DemoCall(s, c) # SqlAnswer(s, c, v))
  BY <1>2 DEF TxCall
<1>5. scope' \in [tables : SUBSET Tables, seeded : BOOLEAN, calls : Nat]
  BY CountInv DEF TxCall, IInv, StoreInv
<1>6. DemoStep(s, c, s2)
  BY <1>1, <1>3, DemoCallStep
<1>7. SqlStep(s, c, SqlAnswer(s, c, v).rows)
  BY <1>1, <1>3, SqlAnswerStep
<1>8. strayed \in BOOLEAN /\ engine = "demo" /\ Placed(rows) /\ (strayed \/ Sound(rows)) /\ Unique(rows)
  BY DEF IInv, StoreInv
<1>9. strayed' \in BOOLEAN /\ (strayed' \/ Sound(s2)) /\ (strayed' \/ Sound(rows))
  BY <1>1, <1>4, <1>7, <1>8 DEF SqlStep
<1> HIDE DEF s2
<1>10. /\ next' \in Nat \ {0} /\ DOMAIN s2 \subseteq 1 .. next' - 1
       /\ \A i \in DOMAIN s2 : i \in DOMAIN s \/ i \notin 1 .. next - 1
  BY <1>1, <1>4, <1>6, GrownPlaces DEF DemoStep
<1>11. Placed(s2)'
  BY <1>4, <1>6, <1>10 DEF Placed, DemoStep
<1>12. DOMAIN rows \cap DOMAIN s2 \subseteq DOMAIN s
  BY <1>8, <1>10 DEF Placed
<1>13. Later(rows, s2)
  BY <1>1, <1>6, <1>12, DemoIsLater, LaterStill
<1>14. Unique(s2)
  BY <1>1, <1>6 DEF DemoStep
<1>15. Placed(rows)'
  <2>1. next \in Nat \ {0} /\ next' \in Nat \ {0} /\ next <= next'
    BY <1>1, <1>4, FreshIsNat DEF Placed
  <2> QED BY <1>4, <1>8, <2>1 DEF Placed
<1>16. StoreInv'
  BY <1>4, <1>5, <1>8, <1>9, <1>15 DEF StoreInv
<1>17. TxInv'
  BY <1>4, <1>9, <1>11, <1>13, <1>14 DEF TxInv
<1> QED BY <1>4, <1>16, <1>17 DEF IInv

\* What is adopted is the copy, whole.
LEMMA CommitInv ==
  ASSUME IInv, Commit
  PROVE  IInv' /\ FinalRows(rows, rows') /\ shadow' = NoTx /\ <<rows'>> = expected
<1>1. PICK s : /\ shadow = <<s>> /\ expected = <<s>>
               /\ Placed(s) /\ Unique(s) /\ Later(rows, s)
               /\ strayed \/ Sound(s)
  BY DEF IInv, TxInv, Commit
<1>2. shadow[1] = s
  BY <1>1
<1>3. Placed(rows) /\ IsStore(rows) /\ IsStore(s)
  BY <1>1 DEF IInv, StoreInv, Placed
<1> DEFINE new == {i \in DOMAIN s : s[i].t \in adoptFrom}
           old == {i \in DOMAIN rows : rows[i].t \notin adoptFrom}
<1>4. /\ rows' = [i \in new \cup old |-> IF i \in new THEN s[i] ELSE rows[i]]
      /\ shadow' = NoTx /\ engine' = engine /\ next' = next /\ scope' = scope /\ strayed' = strayed
  BY <1>2 DEF Commit
<1>5. new = DOMAIN s /\ old = {}
  BY <1>3 DEF IsStore, IsRow, adoptFrom
<1> HIDE DEF new, old
<1>6. rows' = [i \in DOMAIN s |-> s[i]]
  BY <1>4, <1>5
<1>7. rows' = s
  BY <1>3, <1>6 DEF IsStore
<1>8. Placed(rows)'
  BY <1>1, <1>4, <1>7 DEF Placed
<1>9. FinalRows(rows, rows')
  BY <1>1, <1>3, <1>7, LaterIsFinal
<1>10. StoreInv'
  BY <1>1, <1>4, <1>7, <1>8 DEF IInv, StoreInv
<1> QED BY <1>1, <1>4, <1>7, <1>9, <1>10 DEF IInv, TxInv

LEMMA RollbackInv ==
  ASSUME IInv, Rollback
  PROVE  IInv' /\ rows' = rows
<1>1. StoreInv'
  BY DEF IInv, StoreInv, Rollback, Placed
<1>2. TxInv' /\ rows' = rows
  BY DEF Rollback, TxInv
<1> QED BY <1>1, <1>2 DEF IInv

LEMMA StutterInv ==
  ASSUME IInv, UNCHANGED vars
  PROVE  IInv' /\ rows' = rows
<1>1. StoreInv'
  BY DEF IInv, StoreInv, vars, Placed
<1>2. TxInv'
  BY DEF IInv, TxInv, vars, Placed
<1> QED BY <1>1, <1>2 DEF IInv, vars

LEMMA NextInv ==
  ASSUME IInv, [Next]_vars
  PROVE  /\ IInv' /\ FinalRows(rows, rows')
         /\ shadow # NoTx => rows' = rows \/ (shadow' = NoTx /\ <<rows'>> = expected)
<1>1. FinalRows(rows, rows)
  BY SameIsLater, LaterIsFinal DEF IInv, StoreInv, Placed
<1>2. ASSUME NEW c \in Calls(rows), NEW v, Querier(c, v)
      PROVE  shadow = NoTx /\ IInv' /\ FinalRows(rows, rows')
  BY <1>2, QuerierInv DEF Querier
<1>3. CASE Age
  BY <1>3, AgeInv DEF Age
<1>4. CASE RunTx
  BY <1>1, <1>4, RunTxInv
<1>5. ASSUME shadow # NoTx, NEW c \in Calls(shadow[1]), NEW v, TxCall(c, v)
      PROVE  IInv' /\ rows' = rows
  BY <1>5, TxCallInv
<1>6. CASE Commit
  BY <1>6, CommitInv
<1>7. CASE Rollback
  BY <1>1, <1>7, RollbackInv
<1>8. CASE UNCHANGED vars
  BY <1>1, <1>8, StutterInv
<1> QED BY <1>1, <1>2, <1>3, <1>4, <1>5, <1>6, <1>7, <1>8 DEF Next

LEMMA Invariant ==
  Spec => []IInv
<1>1. Init => IInv
  BY InitInv
<1>2. IInv /\ [Next]_vars => IInv'
  BY NextInv
<1> QED BY <1>1, <1>2, PTL DEF Spec

-----------------------------------------------------------------------------
LEMMA InvIsConsistent ==
  ASSUME IInv
  PROVE  StoreIsConsistent
<1>1. /\ engine \in {"demo", "sql"} /\ Placed(rows) /\ IsStore(rows) /\ (strayed \/ Sound(rows))
      /\ (engine = "demo" => Unique(rows)) /\ (engine = "sql" => ~strayed)
  BY DEF IInv, StoreInv, Placed
<1>2. TypeOK
  <2> SUFFICES ASSUME NEW i \in DOMAIN rows
               PROVE  /\ i \in 1 .. next - 1 /\ rows[i].t \in Tables
                      /\ rows[i].st \in StatesOf(rows[i].t) /\ DOMAIN rows[i].refs = Columns(rows[i].t)
    BY DEF TypeOK
  <2>1. IsRow(rows[i]) /\ i \in 1 .. next - 1
    BY <1>1 DEF IsStore, Placed
  <2> QED BY <2>1 DEF IsRow
<1>3. ReferencesResolve
  BY <1>1 DEF ReferencesResolve, Sound
<1>4. CASE engine = "demo"
  <2>1. KeysAreUnique
    BY <1>1, <1>4 DEF KeysAreUnique, Unique
  <2> QED BY <1>2, <1>3, <2>1 DEF StoreIsConsistent
<1>5. CASE engine = "sql"
  <2>1. KeysAreUnique
    BY <1>1, <1>5 DEF KeysAreUnique, Sound, Valid, KeyIsFree, Ids
  <2> QED BY <1>2, <1>3, <2>1 DEF StoreIsConsistent
<1> QED BY <1>1, <1>4, <1>5

\* Whatever calls are made of either store, outside a transaction or inside
\* one, its rows keep the shape the queries rely on and no id is used twice;
\* no two users share an address up to case in the demo store and no two
\* rows of a keyed table a key in either; and every reference names a row, in
\* PostgreSQL always and in the demo store, seeds included, until it has
\* answered a call differently.
THEOREM StoreStaysConsistent ==
  Spec => []StoreIsConsistent
  BY Invariant, InvIsConsistent, PTL

\* Nobody sees a transaction of RunTx half done: while it runs the store
\* does not change, and what a commit leaves is exactly what its calls would
\* have done to the store one after the other.
THEOREM TransactionsAreWhole ==
  Spec => TxIsAllOrNothing
<1>1. IInv /\ [Next]_vars => [shadow # NoTx => rows' = rows \/ (shadow' = NoTx /\ <<rows'>> = expected)]_vars
  BY NextInv
<1> QED BY Invariant, <1>1, PTL DEF Spec, TxIsAllOrNothing

\* No call of either store, no transaction and no passage of time undoes a
\* final state: a revoked deal is kept, but for references to rows that are
\* gone, a used token never becomes fresh, a consumed invite stays consumed.
THEOREM FinalRemainsFinal ==
  Spec => FinalStaysFinal
<1>1. IInv /\ [Next]_vars => FinalRows(rows, rows')
  BY NextInv
<1>2. FinalRows(rows, rows') =>
        \A i \in Ids(rows, "deals") : rows[i].st = Revoked =>
          /\ i \in DOMAIN rows'
          /\ \E f \in [Columns("deals") -> {0, 1}] :
                rows'[i] = [rows[i] EXCEPT !.refs = [col \in Columns("deals") |->
                    IF f[col] = 1 /\ @[col] \notin DOMAIN rows' THEN Null ELSE @[col]]]
  BY DEF FinalRows, Freed, Ids, IsRevoked
<1>3. FinalRows(rows, rows') =>
        \A i \in DOMAIN rows \cap DOMAIN rows' :
          /\ rows[i].t = "tokens" /\ rows[i].st # "fresh" => rows'[i].st # "fresh"
          /\ rows[i].t = "invites" /\ rows[i].st = "consumed" => rows'[i].st = "consumed"
  BY DEF FinalRows, StaysSpent
<1>4. Spec => RevokedIsFinal
  BY Invariant, <1>1, <1>2, PTL DEF Spec, RevokedIsFinal
<1>5. Spec => SpentStaysSpent
  BY Invariant, <1>1, <1>3, PTL DEF Spec, SpentStaysSpent
<1> QED BY <1>4, <1>5 DEF FinalStaysFinal

-----------------------------------------------------------------------------
(* The operators whose value the two stores are compared by.                *)
\* Among finitely many ids there is a newest one: of the sets of ids above
\* an id in S one is smallest, and it is empty.
LEMMA NewestExists ==
  ASSUME NEW n \in Nat, NEW S \in SUBSET (1 .. n), S # {}
  PROVE  Newest(S) # {}
<1> DEFINE Above(i) == {j \in S : i < j}
           T == {Above(i) : i \in S}
<1>1. \A i \in S : i \in Int
  OBVIOUS
<1>2. IsFiniteSet(1 .. n)
  BY FS_Interval
<1>3. IsFiniteSet(S)
  BY <1>2, FS_Subset
<1>4. T \subseteq FiniteSubsetsOf(S)
  <2>1. \A i \in S : Above(i) \in SUBSET S
    OBVIOUS
  <2>2. FiniteSubsetsOf(S) = SUBSET S
    BY <1>3, FS_FiniteSubsetsOfFinite
  <2> QED BY <2>1, <2>2
<1>5. T # {}
  OBVIOUS
<1>6. PICK A \in T : \A B \in T : <<B, A>> \notin StrictSubsetOrdering(S)
  <2> HIDE DEF T
  <2>1. IsWellFoundedOn(StrictSubsetOrdering(S), FiniteSubsetsOf(S))
    BY FS_StrictSubsetOrderingWellFounded
  <2>2. \E A \in T : \A B \in T : ~(<<B, A>> \in StrictSubsetOrdering(S))
    BY <1>4, <1>5, <2>1, WFMin, Zenon
  <2> QED BY <2>2
<1>7. PICK i \in S : A = Above(i)
  BY <1>6
<1>8. ASSUME NEW j \in S, i < j
      PROVE  FALSE
  <2>1. \A k \in S : j < k => i < k
    BY <1>1, <1>8
  <2>2. Above(j) \subseteq Above(i)
    BY <2>1
  <2>3. j \in Above(i) /\ j \notin Above(j)
    BY <1>1, <1>8
  <2>4. <<Above(j), A>> \in StrictSubsetOrdering(S)
    BY <1>7, <2>2, <2>3 DEF StrictSubsetOrdering
  <2>5. Above(j) \in T
    OBVIOUS
  <2> QED BY <1>6, <2>4, <2>5
<1>9. \A j \in S : j <= i
  BY <1>1, <1>8
<1> QED BY <1>9 DEF Newest

\* One tag is appended by both stores in the same way.
LEMMA AppendOne ==
  ASSUME NEW tags, NEW x
  PROVE  DemoAppendTags(tags, <<x>>) = SqlAppendTags(tags, <<x>>)
<1> DEFINE one == IF x \in ToSet(tags) THEN tags ELSE tags \o <<x>>
           Step(g) == [i \in 0 .. 1 |-> IF i = 0 THEN tags
                                   ELSE IF <<x>>[i] \in ToSet(g[i - 1]) THEN g[i - 1]
                                   ELSE g[i - 1] \o << <<x>>[i] >>]
           f == CHOOSE g : g = Step(g)
           h == [i \in 0 .. 1 |-> IF i = 0 THEN tags ELSE one]
<1>1. h = Step(h)
  OBVIOUS
<1>2. f = Step(f)
  <2> HIDE DEF Step, h
  <2> QED BY <1>1
<1>3. f[0] = tags /\ f[1] = one
  <2> HIDE DEF f
  <2>1. f[0] = tags
    BY <1>2
  <2>2. f[1] = IF x \in ToSet(f[0]) THEN f[0] ELSE f[0] \o <<x>>
    BY <1>2
  <2> QED BY <2>1, <2>2
<1>4. Len(<<x>>) = 1
  OBVIOUS
<1>5. DemoAppendTags(tags, <<x>>) = f[1]
  BY <1>4 DEF DemoAppendTags
<1>6. SqlAppendTags(tags, <<x>>) = one
  BY DEF SqlAppendTags, ToSet
<1> QED BY <1>3, <1>5, <1>6

-----------------------------------------------------------------------------
(* What a call leaves out, and what it names.                               *)
Plain(c) == c.owner = Null /\ c.refs = << >>

Args(s, c) ==
    /\ c.op \in {"Create", "CreateDraft", "SetOwner"} => c.owner \in Owners(s, c.t)
    /\ c.op = "SetOwner" => c.refs = << >>
    /\ c.op = "Update" => IF c.t \in {"contacts", "deals", "todos", "appointments"}
                          THEN c.owner \in Owners(s, c.t) ELSE Plain(c)
    /\ c.op = "UpdateTags" => \E x : c.tags = <<x>>
    /\ c.t = "notifications" /\ c.op \in {"List", "ListUnread", "MarkAll"} => c.owner # Null
    /\ c.op \in {"DeleteFamily", "ListByContact"} => c.id # Null

LEMMA PlainCalls ==
  ASSUME NEW op, NEW t, NEW i
  PROVE  /\ Plain(RowCall(op, t, i)) /\ RowCall(op, t, i).id = i
         /\ Plain(KeyCall(op, t, i)) /\ KeyCall(op, t, i).id = Null
         /\ OwnerCall(op, t, i).owner = i
<1>1. Call(op, t).owner = Null /\ Call(op, t).id = Null
  BY DEF Call
<1>2. Plain(RowCall(op, t, i)) /\ RowCall(op, t, i).id = i
  BY <1>1, CallFields, SMT DEF RowCall, Fields, Plain
<1>3. Plain(KeyCall(op, t, i)) /\ KeyCall(op, t, i).id = Null
  BY <1>1, CallFields, SMT DEF KeyCall, Fields, Plain
<1>4. OwnerCall(op, t, i).owner = i
  BY <1>1, CallFields, SMT DEF OwnerCall, Fields
<1> QED BY <1>2, <1>3, <1>4

LEMMA CreateNames ==
  ASSUME NEW op, NEW t, NEW f, NEW o, NEW k, NEW st
  PROVE  CreateCall(op, t, f, o, k, st).owner = o
  BY CallFields, SMT DEF CreateCall, Fields

LEMMA UpdateNames ==
  ASSUME NEW t, NEW i, NEW f, NEW o, NEW st
  PROVE  UpdateCall(t, i, f, o, st).owner = o
  BY CallFields, SMT DEF UpdateCall, Fields

LEMMA StateNames ==
  ASSUME NEW op, NEW t, NEW i, NEW k, NEW st
  PROVE  Plain(StateCall(op, t, i, k, st))
<1>1. Call(op, t).owner = Null
  BY DEF Call
<1> QED BY <1>1, CallFields, SMT DEF StateCall, Fields, Plain

LEMMA OtherNames ==
  ASSUME NEW t, NEW i, NEW x
  PROVE  /\ SetOwnerCall(t, i, x).owner = x /\ SetOwnerCall(t, i, x).refs = << >>
         /\ TagsCall(t, i, x).tags = <<x>>
<1>1. SetOwnerCall(t, i, x).owner = x /\ SetOwnerCall(t, i, x).refs = << >>
  BY CallFields, SMT DEF SetOwnerCall, Fields
<1>2. TagsCall(t, i, x).tags = <<x>>
  BY CallFields, SMT DEF TagsCall, Fields
<1> QED BY <1>1, <1>2

LEMMA OtherArgs ==
  ASSUME NEW s, NEW t, NEW c \in OtherCalls(s, t)
  PROVE  Args(s, c)
<1>1. c.t = t /\ c.op \in {"CreateInvited", "DeleteFamily", "ListByStage", "ListByEntity", "ListByThread", "Search"}
  <2>1. CASE t = "invites"
    <3>1. PICK k \in Hashes(s, t), e \in {"a", "A", "b"} : c = InviteCall(k, e)
      BY <2>1, SMT DEF OtherCalls
    <3> QED BY <2>1, <3>1, InviteFields
  <2>2. CASE t = "tokens"
    <3>1. PICK f \in {1, Unknown} : c = RowCall("DeleteFamily", t, f)
      BY <2>2, SMT DEF OtherCalls
    <3> QED BY <3>1, ReadFields
  <2>3. CASE t = "deals"
    <3>1. \E o, st : c = StageCall(o, st)
      BY <2>3, SMT DEF OtherCalls
    <3> QED BY <2>3, <3>1, OtherFields
  <2>4. CASE t = "notes"
    <3>1. \E o, k : c = EntityCall(o, k)
      BY <2>4, SMT DEF OtherCalls
    <3> QED BY <2>4, <3>1, OtherFields
  <2>5. CASE t = "messages"
    <3>1. c = RowCall("ListByThread", t, 1)
      BY <2>5, SMT DEF OtherCalls
    <3> QED BY <3>1, ReadFields
  <2>6. CASE t \in {"contacts", "articles"}
    <3>1. c = Call("Search", t)
      BY <2>6, SMT DEF OtherCalls
    <3> QED BY <3>1, CallFields
  <2>7. t \in {"invites", "tokens", "deals", "notes", "messages", "contacts", "articles"}
    BY SMT DEF OtherCalls
  <2> QED BY <2>1, <2>2, <2>3, <2>4, <2>5, <2>6, <2>7
<1>2. c.op \in {"DeleteFamily", "ListByContact"} => c.id # Null
  <2> SUFFICES ASSUME c.op \in {"DeleteFamily", "ListByContact"} PROVE c.id # Null
    OBVIOUS
  <2>1. CASE t = "tokens"
    <3>1. PICK f \in {1, Unknown} : c = RowCall("DeleteFamily", t, f)
      BY <2>1, SMT DEF OtherCalls
    <3>2. c.id = f
      BY <3>1, PlainCalls
    <3> QED BY <3>2 DEF Null, Unknown
  <2>2. CASE t # "tokens"
    <3>1. CASE \E k, e : c = InviteCall(k, e)
      <4>1. c.op = "CreateInvited"
        BY <3>1, InviteFields
      <4> QED BY <4>1
    <3>2. CASE \E o, x : c = StageCall(o, x) \/ c = EntityCall(o, x)
      <4>1. c.op \in {"ListByStage", "ListByEntity"}
        BY <3>2, OtherFields
      <4> QED BY <4>1
    <3>3. CASE c = RowCall("ListByThread", t, 1)
      <4>1. c.op = "ListByThread"
        BY <3>3, ReadFields
      <4> QED BY <4>1
    <3>4. CASE c = Call("Search", t)
      <4>1. c.op = "Search"
        BY <3>4, CallFields
      <4> QED BY <4>1
    <3>5. \/ \E k, e : c = InviteCall(k, e)
          \/ \E o, x : c = StageCall(o, x)
          \/ \E o, x : c = EntityCall(o, x)
          \/ c = RowCall("ListByThread", t, 1)
          \/ c = Call("Search", t)
      BY <2>2, SMT DEF OtherCalls
    <3> QED BY <3>1, <3>2, <3>3, <3>4, <3>5
  <2> QED BY <2>1, <2>2
<1> QED BY <1>1, <1>2 DEF Args

LEMMA CallArgs ==
  ASSUME NEW s, Placed(s), NEW t, NEW c \in CallsOn(s, t)
  PROVE  Args(s, c)
<1>1. CASE c \in Creates(s, t)
  <2>1. PICK op \in CreateOps(t), f \in Refs(s, t), o \in Owners(s, t), k \in NewKeys(s, t), st \in States(t) :
             c = CreateCall(op, t, f, o, k, st)
    BY <1>1, SMT DEF Creates
  <2>2. c.op = op /\ c.t = t /\ c.owner = o
    BY <2>1, CreateFields, CreateNames
  <2>3. op \in {"Create", "CreateDraft"}
    BY <2>1 DEF CreateOps
  <2> QED BY <2>1, <2>2, <2>3 DEF Args
<1>2. CASE \E op \in IdOps(t) : \E i : c = RowCall(op, t, i)
  <2>1. PICK op \in IdOps(t) : \E i : c = RowCall(op, t, i)
    BY <1>2
  <2>2. c.op = op /\ c.t = t /\ Plain(c)
    BY <2>1, ReadFields, PlainCalls
  <2>3. op \notin {"Create", "CreateDraft", "SetOwner", "UpdateTags", "List", "ListUnread", "MarkAll", "DeleteFamily", "ListByContact"}
        /\ (op = "Update" => t \notin {"contacts", "deals", "todos", "appointments"})
    BY <2>1 DEF IdOps
  <2> QED BY <2>2, <2>3 DEF Args
<1>3. CASE \E op \in KeyOps(t) : \E k : c = KeyCall(op, t, k)
  <2>1. PICK op \in KeyOps(t) : \E k : c = KeyCall(op, t, k)
    BY <1>3
  <2>2. c.op = op /\ c.t = t /\ Plain(c)
    BY <2>1, ReadFields, PlainCalls
  <2>3. op \notin {"Create", "CreateDraft", "SetOwner", "UpdateTags", "List", "ListUnread", "MarkAll", "DeleteFamily", "ListByContact"}
        /\ (op = "Update" => t \notin {"contacts", "deals", "todos", "appointments"})
    BY <2>1 DEF KeyOps
  <2> QED BY <2>2, <2>3 DEF Args
<1>4. CASE \E op \in OwnerOps(t), o \in Owners(s, t) \ (IF t = "notifications" THEN {Null} ELSE {}) :
             c = OwnerCall(op, t, o)
  <2>1. PICK op \in OwnerOps(t), o \in Owners(s, t) \ (IF t = "notifications" THEN {Null} ELSE {}) :
             c = OwnerCall(op, t, o)
    BY <1>4
  <2>2. c.op = op /\ c.t = t /\ c.owner = o
    BY <2>1, ReadFields, PlainCalls
  <2>3. op \notin {"Create", "CreateDraft", "SetOwner", "Update", "UpdateTags", "DeleteFamily", "ListByContact"}
    BY <2>1 DEF OwnerOps
  <2> QED BY <2>1, <2>2, <2>3 DEF Args
<1>5. CASE c \in Updates(s, t)
  <2>1. CASE \E op \in StateOps(t) : \E i, st, k : c = StateCall(op, t, i, k, st)
    <3>1. PICK op \in StateOps(t) : \E i, st, k : c = StateCall(op, t, i, k, st)
      BY <2>1
    <3>2. c.op = op /\ c.t = t /\ Plain(c)
      BY <3>1, StateFields, StateNames
    <3>3. op \in {"UpdateStatus", "UpdateStage", "UpdatePushStatus", "Update"} /\ (op = "Update" => t = "accounts")
      BY <3>1 DEF StateOps
    <3> QED BY <3>2, <3>3 DEF Args
  <2>2. CASE t \in {"contacts", "deals", "todos", "appointments"}
             /\ \E o \in Owners(s, t) : \E i, f, st : c = UpdateCall(t, i, f, o, st)
    <3>1. PICK o \in Owners(s, t) : \E i, f, st : c = UpdateCall(t, i, f, o, st)
      BY <2>2
    <3>2. c.op = "Update" /\ c.t = t /\ c.owner = o
      BY <3>1, UpdateFields, UpdateNames
    <3> QED BY <2>2, <3>1, <3>2 DEF Args
  <2>3. CASE \E i, x : c = TagsCall(t, i, x)
    <3>1. c.op = "UpdateTags" /\ c.t = t /\ \E x : c.tags = <<x>>
      BY <2>3, OtherFields, OtherNames
    <3> QED BY <3>1 DEF Args
  <2>4. CASE \E o \in Owners(s, t) : \E i : c = SetOwnerCall(t, i, o)
    <3>1. PICK o \in Owners(s, t) : \E i : c = SetOwnerCall(t, i, o)
      BY <2>4
    <3>2. c.op = "SetOwner" /\ c.t = t /\ c.owner = o /\ c.refs = << >>
      BY <3>1, OtherFields, OtherNames
    <3> QED BY <3>1, <3>2 DEF Args
  <2>5. \/ \E op \in StateOps(t) : \E i, st, k : c = StateCall(op, t, i, k, st)
        \/ /\ t \in {"contacts", "deals", "todos", "appointments"}
           /\ c \in {UpdateCall(t, i, f, o, st) :
                        i \in Asked(s, t), f \in Refs(s, t), o \in Owners(s, t), st \in States(t)}
        \/ \E i, x : c = TagsCall(t, i, x)
        \/ \E o \in Owners(s, t) : \E i : c = SetOwnerCall(t, i, o)
    BY <1>5, SMT DEF Updates
  <2> QED BY <2>1, <2>2, <2>3, <2>4, <2>5
<1>6. CASE ReferredOps(t) # << >> /\ \E i \in Asked(s, ReferredOps(t)[2]) : c = RowCall(ReferredOps(t)[1], t, i)
  <2>1. PICK i \in Asked(s, ReferredOps(t)[2]) : c = RowCall(ReferredOps(t)[1], t, i)
    BY <1>6
  <2>2. c.t = t /\ c.id = i /\ c.op \in {"ListByCompany", "ListByContact", "ListByMessage"}
    BY <1>6, <2>1, ReadFields, PlainCalls DEF ReferredOps
  <2>3. i # Null
    BY DEF Asked, Ids, Placed, Null, Unknown
  <2> QED BY <2>2, <2>3 DEF Args
<1>7. \/ c \in Creates(s, t)
      \/ \E op \in IdOps(t) : \E i : c = RowCall(op, t, i)
      \/ \E op \in KeyOps(t) : \E k : c = KeyCall(op, t, k)
      \/ \E op \in OwnerOps(t), o \in Owners(s, t) \ (IF t = "notifications" THEN {Null} ELSE {}) :
            c = OwnerCall(op, t, o)
      \/ c \in Updates(s, t)
      \/ /\ ReferredOps(t) # << >>
         /\ \E i \in Asked(s, ReferredOps(t)[2]) : c = RowCall(ReferredOps(t)[1], t, i)
      \/ c \in OtherCalls(s, t)
  BY SMT DEF CallsOn
<1> QED BY <1>1, <1>2, <1>3, <1>4, <1>5, <1>6, <1>7, OtherArgs

-----------------------------------------------------------------------------
(* When the two stores give the same result.                                *)
LEMMA ResultsDiffer ==
  ASSUME NEW a, NEW b, NEW x, NEW a2, NEW b2, NEW x2
  PROVE  Result(a, b, x) # Result(a2, b2, x2) <=> a # a2 \/ b # b2 \/ x # x2
  BY DEF Result

LEMMA InsertsDiffer ==
  ASSUME NEW s, NEW c, NEW r
  PROVE  DemoInsert(s, c, r) # SqlInsert(s, c, r) <=> ~Valid(s, c.id, r)
<1>1. Many(Put(s, c.id, r), {c.id}) # Nothing(s, "error")
  BY ResultsDiffer DEF Many, Nothing
<1> QED BY <1>1 DEF DemoInsert, SqlInsert

\* What both stores do with the rows to change and the store afterwards.
DemoEdit(s, S, s2) == IF S = {} THEN Nothing(s, "none") ELSE Many(s2, S)
SqlEdit(s, S, s2, valid) ==
    IF S = {} THEN Nothing(s, "none") ELSE IF valid THEN Many(s2, S) ELSE Nothing(s, "error")

LEMMA EditsDiffer ==
  ASSUME NEW s, NEW S, NEW s2, NEW valid \in BOOLEAN
  PROVE  DemoEdit(s, S, s2) # SqlEdit(s, S, s2, valid) <=> S # {} /\ ~valid
<1>1. Many(s2, S) # Nothing(s, "error")
  BY ResultsDiffer DEF Many, Nothing
<1> QED BY <1>1 DEF DemoEdit, SqlEdit

\* Reads of two sets of rows.
LEMMA ReadsDiffer ==
  ASSUME NEW s, NEW S, NEW S2
  PROVE  /\ Many(s, S) # Many(s, S2) <=> S # S2
         /\ One(s, S) # One(s, S2) <=> S # S2
         /\ Many(s, S) # One(s, S2) <=> S # S2 \/ S2 = {}
<1>1. [i \in S |-> s[i]] # [i \in S2 |-> s[i]] <=> S # S2
  <2>1. DOMAIN [i \in S |-> s[i]] = S /\ DOMAIN [i \in S2 |-> s[i]] = S2
    OBVIOUS
  <2> QED BY <2>1
<1>2. Many(s, S) # Many(s, S2) <=> S # S2
  BY <1>1, ResultsDiffer DEF Many
<1>3. Many(s, S) # Nothing(s, "none") /\ Many(s, S2) # Nothing(s, "none")
  BY ResultsDiffer DEF Many, Nothing
<1> QED BY <1>2, <1>3 DEF One

-----------------------------------------------------------------------------
(* What a call names resolves, or is Unknown.                               *)
LEMMA LinksResolve ==
  ASSUME NEW s, Placed(s), NEW t \in Tables, NEW f \in Refs(s, t)
  PROVE  (\A col \in References(t) : f[col] \in Ids(s, col) \/ (f[col] = Null /\ <<t, col>> \notin Required))
         <=> \A col \in DOMAIN f : f[col] # Unknown
<1>1. DOMAIN f = Columns(t) /\ \A col \in Columns(t) : f[col] \in Candidates(s, t, col)
  BY DEF Refs
<1>2. \A col \in References(t) : col \in Columns(t) /\ col \notin {"entity", "family", "thread"}
  BY ColumnFacts DEF Tables
<1>3. \A col \in References(t) :
         f[col] \in Ids(s, col) \/ (f[col] = Null /\ <<t, col>> \notin Required) \/ f[col] = Unknown
  BY <1>1, <1>2 DEF Candidates
<1>4. \A col \in Columns(t) \ References(t) : f[col] = 1
  BY <1>1 DEF Columns, Candidates
<1>5. Unknown \notin DOMAIN s /\ Unknown # 1 /\ Unknown # Null
  BY DEF Placed, Unknown, Null
<1>6. \A col : f[col] \in Ids(s, col) => f[col] # Unknown
  BY <1>5 DEF Ids
<1> QED BY <1>1, <1>2, <1>3, <1>4, <1>5, <1>6

LEMMA OwnerResolves ==
  ASSUME NEW s, Placed(s), NEW t, NEW o \in Owners(s, t)
  PROVE  (o \in Ids(s, "users") \/ (o = Null /\ t \notin OwnerRequired)) <=> o # Unknown
<1>1. Unknown \notin DOMAIN s /\ Unknown # Null
  BY DEF Placed, Unknown, Null
<1>2. Unknown \notin Ids(s, "users")
  BY <1>1 DEF Ids
<1>3. o = Null => t \notin OwnerRequired
  <2>1. Null \notin DOMAIN s
    BY DEF Placed, Null
  <2>2. t \in OwnerRequired => o # Null
    BY <1>1, <2>1 DEF Owners, Ids
  <2> QED BY <2>2
<1> QED BY <1>1, <1>2, <1>3 DEF Owners

\* A new row is one the database takes if all it names exists and its key
\* is free.
LEMMA NewIsValid ==
  ASSUME NEW s, Placed(s), NEW c, c.t \in Tables, c.id = next, c.refs \in Refs(s, c.t), NEW r,
         r.t = c.t, r.refs = c.refs, r.key = c.key, r.owner \in Owners(s, c.t)
  PROVE  Valid(s, c.id, r) <=> /\ r.owner # Unknown
                               /\ \A col \in DOMAIN c.refs : c.refs[col] # Unknown
                               /\ c.t \in Keyed => ByKey(s, c) = {}
<1>1. next \notin DOMAIN s
  BY DEF Placed
<1>2. KeyIsFree(s, c.id, r) <=> (c.t \in Keyed => ByKey(s, c) = {})
  BY <1>1 DEF KeyIsFree, ByKey, Ids
<1>3. ReferencesHold(s, r) <=> r.owner # Unknown /\ \A col \in DOMAIN c.refs : c.refs[col] # Unknown
  BY LinksResolve, OwnerResolves DEF ReferencesHold
<1> QED BY <1>2, <1>3 DEF Valid

-----------------------------------------------------------------------------
(* Deletions.                                                               *)
LEMMA ReferredTables ==
  \A t : References(t) \subseteq {"companies", "contacts", "deals", "accounts", "messages", "workflows"} \ {t}
  BY DEF References

LEMMA DeletesDiffer ==
  ASSUME NEW s, Placed(s), Sound(s), NEW t, NEW S \in SUBSET Ids(s, t)
  PROVE  DemoDelete(s, S) # SqlDelete(s, S)
         <=> \E i \in DOMAIN s : t \in References(s[i].t) /\ s[i].refs[t] \in S
<1> DEFINE D == Cascaded(s, Cascaded(s, S))
           demo == [i \in DOMAIN s \ S |-> s[i]]
           sql == [i \in DOMAIN s \ D |-> Unlinked(s[i], D)]
<1>1. IsStore(s) /\ Null \notin DOMAIN s /\ S \subseteq DOMAIN s
  BY DEF Placed, Null, Ids
<1>2. DemoDelete(s, S) # SqlDelete(s, S) <=> demo # sql
  <2>1. SqlDelete(s, S).rows = sql
    BY <1>1, DeleteFacts
  <2>2. SqlDelete(s, S) = Nothing(SqlDelete(s, S).rows, "ok")
    BY DEF SqlDelete, Nothing, Result
  <2>3. DemoDelete(s, S) = Nothing(demo, "ok")
    BY DEF DemoDelete
  <2> HIDE DEF demo, sql
  <2> QED BY <2>1, <2>2, <2>3, ResultsDiffer DEF Nothing
<1>3. S \subseteq D
  BY DEF Cascaded
<1>4. ASSUME NEW i \in DOMAIN s, t \in References(s[i].t), s[i].refs[t] \in S
      PROVE  demo # sql
  <2>1. i \notin S
    BY <1>4, ReferredTables DEF Ids
  <2>2. CASE i \in D
    <3>1. i \in DOMAIN demo /\ i \notin DOMAIN sql
      BY <1>4, <2>1, <2>2
    <3> HIDE DEF demo, sql
    <3> QED BY <3>1
  <2>3. CASE i \notin D
    <3>1. demo[i] = s[i] /\ sql[i] = Unlinked(s[i], D)
      BY <1>4, <2>1, <2>3
    <3>2. IsRow(s[i])
      BY <1>1, <1>4 DEF IsStore
    <3>3. t \in Columns(s[i].t)
      BY <1>4, ColumnFacts
    <3> HIDE DEF D, demo, sql
    <3>4. Unlinked(s[i], D).refs[t] = Null
      BY <1>3, <1>4, <3>2, <3>3, UnlinkedRow
    <3>5. s[i].refs[t] # Null
      BY <1>1, <1>4
    <3> QED BY <3>1, <3>4, <3>5
  <2> QED BY <2>2, <2>3
<1>5. ASSUME \A i \in DOMAIN s : t \in References(s[i].t) => s[i].refs[t] \notin S
      PROVE  demo = sql
  <2>1. ASSUME NEW i \in DOMAIN s, NEW col \in References(s[i].t)
        PROVE  s[i].refs[col] \notin S
    <3>1. s[i].refs[col] \in Ids(s, col) \/ s[i].refs[col] = Null
      BY DEF Sound, Valid, ReferencesHold
    <3>2. s[i].refs[col] \in S => col = t
      BY <1>1, <3>1 DEF Ids
    <3> QED BY <1>5, <3>2
  <2>2. Cascaded(s, S) = S
    BY <2>1 DEF Cascaded
  <2>3. D = S
    BY <2>2
  <2>4. ASSUME NEW i \in DOMAIN s
        PROVE  Unlinked(s[i], S) = s[i]
    <3> DEFINE q == Unlinked(s[i], S)
    <3>1. IsRow(s[i])
      BY <1>1 DEF IsStore
    <3>2. /\ IsRow(q) /\ q.t = s[i].t /\ q = [s[i] EXCEPT !.refs = q.refs]
          /\ \A col \in Columns(s[i].t) : q.refs[col] = s[i].refs[col]
      BY <2>1, <3>1, UnlinkedRow DEF SameKey
    <3> HIDE DEF q
    <3>3. q.refs = s[i].refs
      BY <3>1, <3>2 DEF IsRow
    <3>4. q = s[i]
      BY <3>1, <3>2, <3>3 DEF IsRow
    <3> QED BY <3>4 DEF q
  <2>5. sql = [i \in DOMAIN s \ S |-> Unlinked(s[i], S)]
    BY <2>3
  <2> HIDE DEF sql, D
  <2> QED BY <2>4, <2>5
<1> QED BY <1>2, <1>4, <1>5

-----------------------------------------------------------------------------
(* Changes the database always takes.                                       *)
LEMMA KeptIsValid ==
  ASSUME NEW s, Sound(s), NEW i \in DOMAIN s, NEW r, SameLinks(s[i], r)
  PROVE  Valid(s, i, r)
<1>1. Valid(s, i, s[i])
  BY DEF Sound
<1> QED BY <1>1 DEF Valid, ReferencesHold, KeyIsFree, SameLinks, SameKey

-----------------------------------------------------------------------------
(* What Differs says of each operation.                                     *)
LEMMA NeverListed ==
  ASSUME NEW s, NEW c,
         \/ c.op \in {"Get", "IncrementTokenVersion", "Accept", "Revoke", "GetByHash", "Consume", "DeleteOfUser",
                      "DeleteFamily", "DeleteExpired", "ListUnread", "MarkAll", "MarkRead", "ListUnowned",
                      "ListByCompany", "Search", "UpdateTags", "ListByStage", "UpdateStage", "ListByAssignee",
                      "UpdatePushStatus", "ListByContact", "UpdateSyncState", "ListByThread", "ListByMessage"}
         \/ c.op = "List" /\ c.t # "accounts"
         \/ c.op = "GetByKey" /\ c.t # "users"
         \/ c.op = "UpdateStatus" /\ c.t \notin {"users", "articles"}
  PROVE  ~Differs(s, c)
  BY DEF Differs, Writes

LEMMA ListedCreate ==
  ASSUME NEW s, NEW c, c.op \in {"Create", "CreateDraft"}, c.t \notin {"users", "companies", "contacts"}
  PROVE  Differs(s, c) <=> \/ NamesUnknown(c)
                           \/ ByKey(s, c) # {} /\ c.t \in {"accounts", "messages", "workflows", "runs"}
  BY DEF Differs, Writes

LEMMA ListedUnowned ==
  ASSUME NEW s, NEW c, c.op = "Create", c.t \in {"companies", "contacts"}
  PROVE  Differs(s, c) <=> \E col \in DOMAIN c.refs : c.refs[col] = Unknown
  BY DEF Differs, Writes, NamesUnknown

LEMMA ListedUser ==
  ASSUME NEW s, NEW c, c.op = "Create", c.t = "users"
  PROVE  Differs(s, c) <=> \/ NamesUnknown(c)
                           \/ ByKey(s, c) = {} /\ ByFold(s, "users", c.key) # {}
  BY DEF Differs, Writes

LEMMA ListedUpdate ==
  ASSUME NEW s, NEW c, c.op \in {"Update", "SetOwner"}, c.t # "users"
  PROVE  Differs(s, c) <=> /\ NamesUnknown(c) /\ At(s, c) # {}
                           /\ c.t = "deals" => Open(s, c) # {}
                           /\ c.op = "Update" /\ c.t = "contacts" => c.refs["companies"] = Unknown
  BY DEF Differs, Writes

LEMMA ListedDelete ==
  ASSUME NEW s, NEW c, c.op = "Delete"
  PROVE  Differs(s, c) <=> IsReferred(s, c) /\ (c.t = "deals" => Open(s, c) # {})
  BY DEF Differs, Writes

\* A call that neither owns nor refers names nothing.
LEMMA PlainNamesNothing ==
  ASSUME NEW c, Plain(c)
  PROVE  ~NamesUnknown(c)
  BY DEF Plain, NamesUnknown, Null, Unknown


-----------------------------------------------------------------------------
(* Which calls the stores answer differently, operation by operation.       *)
LEMMA AtFacts ==
  ASSUME NEW s, IsStore(s), NEW c
  PROVE  /\ At(s, c) \subseteq DOMAIN s /\ ByKey(s, c) \subseteq DOMAIN s /\ Open(s, c) \subseteq At(s, c)
         /\ \A i \in At(s, c) \cup ByKey(s, c) : s[i].t = c.t /\ IsRow(s[i])
         /\ Ids(s, c.t) \subseteq DOMAIN s
  BY DEF At, ByKey, Open, Ids, IsStore

LEMMA NamesOfCreate ==
  ASSUME NEW c, c.op # "Update" \/ c.t # "appointments"
  PROVE  NamesUnknown(c) <=> c.owner = Unknown \/ \E col \in DOMAIN c.refs : c.refs[col] = Unknown
  BY DEF NamesUnknown

LEMMA NewIsTaken ==
  ASSUME NEW s, Placed(s), NEW c, c.t \in Tables, c.op \in {"Create", "CreateDraft"}, Given(s, c), Args(s, c)
  PROVE  /\ Valid(s, c.id, New(c)) <=> ~NamesUnknown(c) /\ (c.t \in Keyed => ByKey(s, c) = {})
         /\ Valid(s, c.id, Touch(New(c))) <=> ~NamesUnknown(c) /\ (c.t \in Keyed => ByKey(s, c) = {})
         /\ IsRow(New(c)) /\ c.id = next
<1>1. c.id = next /\ c.refs \in Refs(s, c.t) /\ c.st \in States(c.t) /\ c.owner \in Owners(s, c.t)
  BY DEF Given, Args
<1>2. IsRow(New(c)) /\ New(c).t = c.t /\ New(c).key = c.key /\ New(c).refs = c.refs /\ New(c).owner = c.owner
  BY <1>1, NewRow
<1>3. SameLinks(New(c), Touch(New(c)))
  BY <1>2, TouchRow
<1>4. Touch(New(c)).t = c.t /\ Touch(New(c)).key = c.key /\ Touch(New(c)).refs = c.refs /\ Touch(New(c)).owner = c.owner
  BY <1>2, <1>3 DEF SameLinks, SameKey
<1>5. NamesUnknown(c) <=> c.owner = Unknown \/ \E col \in DOMAIN c.refs : c.refs[col] = Unknown
  BY NamesOfCreate
<1>6. Valid(s, c.id, New(c)) <=> ~NamesUnknown(c) /\ (c.t \in Keyed => ByKey(s, c) = {})
  BY <1>1, <1>2, <1>5, NewIsValid
<1>7. Valid(s, c.id, Touch(New(c))) <=> ~NamesUnknown(c) /\ (c.t \in Keyed => ByKey(s, c) = {})
  BY <1>1, <1>4, <1>5, NewIsValid
<1> QED BY <1>1, <1>2, <1>6, <1>7

\* A row inserted without looking: the schema is what would refuse it.
LEMMA NewDiffers ==
  ASSUME NEW s, Placed(s), NEW c, c.op \in {"Create", "CreateDraft"}, Given(s, c), Args(s, c),
         c.t \in (Tables \ (Keyed \cup {"companies", "contacts"})) \cup {"accounts", "messages"}
  PROVE  /\ Differs(s, c) <=> DemoInsert(s, c, New(c)) # SqlInsert(s, c, New(c))
         /\ Differs(s, c) <=> DemoInsert(s, c, Touch(New(c))) # SqlInsert(s, c, Touch(New(c)))
<1>1. c.t \in Tables /\ c.t \notin {"users", "companies", "contacts"}
      /\ (c.t \in Keyed <=> c.t \in {"accounts", "messages", "workflows", "runs"})
  BY DEF Tables, Keyed
<1>2. Differs(s, c) <=> NamesUnknown(c) \/ (c.t \in Keyed /\ ByKey(s, c) # {})
  BY <1>1, ListedCreate
<1>3. /\ Differs(s, c) <=> ~Valid(s, c.id, New(c))
      /\ Differs(s, c) <=> ~Valid(s, c.id, Touch(New(c)))
  BY <1>1, <1>2, NewIsTaken
<1> QED BY <1>3, InsertsDiffer

\* Companies and contacts are inserted without their owner.
LEMMA UnownedDiffers ==
  ASSUME NEW s, Placed(s), NEW c, c.op = "Create", Given(s, c), c.t \in {"companies", "contacts"}
  PROVE  Differs(s, c) <=> DemoInsert(s, c, Unowned(c)) # SqlInsert(s, c, Unowned(c))
<1>1. c.t \in Tables \ Keyed /\ c.id = next /\ c.refs \in Refs(s, c.t) /\ c.st \in States(c.t)
  BY DEF Tables, Keyed, Given
<1>2. IsRow(New(c)) /\ New(c).t = c.t /\ New(c).key = c.key /\ New(c).refs = c.refs
  BY <1>1, NewRow
<1>3. Unowned(c).t = c.t /\ Unowned(c).key = c.key /\ Unowned(c).refs = c.refs /\ Unowned(c).owner = Null
  BY <1>2, OwnerRow DEF Unowned, SameKey
<1>4. Null \in Owners(s, c.t) /\ Null # Unknown
  BY DEF Owners, OwnerRequired, Null, Unknown
<1>5. Valid(s, c.id, Unowned(c)) <=> \A col \in DOMAIN c.refs : c.refs[col] # Unknown
  BY <1>1, <1>3, <1>4, NewIsValid
<1> QED BY <1>5, ListedUnowned, InsertsDiffer

\* What changes no reference, owner or key is taken.
LEMMA StatedIsValid ==
  ASSUME NEW s, Sound(s), NEW S \in SUBSET DOMAIN s, NEW st, \A i \in S : st \in StatesOf(s[i].t)
  PROVE  \A i \in S : Valid(s, i, SetState(s[i], st))
<1>1. \A i \in S : IsRow(s[i]) /\ i \in DOMAIN s
  BY DEF Sound, IsStore
<1> QED BY <1>1, StateRow, KeptIsValid

LEMMA TouchedIsValid ==
  ASSUME NEW s, Sound(s), NEW S \in SUBSET DOMAIN s
  PROVE  \A i \in S : Valid(s, i, Touch(s[i]))
<1>1. \A i \in S : IsRow(s[i]) /\ i \in DOMAIN s
  BY DEF Sound, IsStore
<1> QED BY <1>1, TouchRow, KeptIsValid

LEMMA TaggedIsValid ==
  ASSUME NEW s, Sound(s), NEW S \in SUBSET DOMAIN s, NEW tags
  PROVE  \A i \in S : Valid(s, i, [s[i] EXCEPT !.tags = tags[i]])
<1>1. ASSUME NEW i \in S
      PROVE  Valid(s, i, [s[i] EXCEPT !.tags = tags[i]])
  <2>1. IsRow(s[i]) /\ i \in DOMAIN s
    BY DEF Sound, IsStore
  <2>2. SameLinks(s[i], [s[i] EXCEPT !.tags = tags[i]])
    BY <2>1, TagsRow
  <2> QED BY <2>1, <2>2, KeptIsValid
<1> QED BY <1>1

LEMMA RevokedIsValid ==
  ASSUME NEW s, Sound(s), NEW i \in DOMAIN s
  PROVE  Valid(s, i, IF s[i].st = Revoked THEN s[i] ELSE SetState(Touch(s[i]), Revoked))
<1>1. IsRow(s[i]) /\ Valid(s, i, s[i])
  BY DEF Sound, IsStore
<1>2. Valid(s, i, SetState(Touch(s[i]), Revoked))
  <2>1. SameLinks(s[i], SetState(Touch(s[i]), Revoked))
    BY <1>1 DEF SetState, Touch, IsRow, SameLinks, SameKey
  <2> QED BY <2>1, KeptIsValid
<1> QED BY <1>1, <1>2

\* A row that keeps its key is taken if all it names is there.
LEMMA RelinkedIsValid ==
  ASSUME NEW s, Placed(s), Sound(s), NEW i \in DOMAIN s, NEW r, SameKey(s[i], r)
  PROVE  /\ Valid(s, i, r) <=> ReferencesHold(s, r)
         /\ r.refs = s[i].refs /\ r.owner \in Owners(s, r.t) => (Valid(s, i, r) <=> r.owner # Unknown)
         /\ r.owner = s[i].owner /\ r.refs \in Refs(s, r.t)
              => (Valid(s, i, r) <=> \A col \in DOMAIN r.refs : r.refs[col] # Unknown)
         /\ r.owner \in Owners(s, r.t) /\ r.refs \in Refs(s, r.t)
              => (Valid(s, i, r) <=> r.owner # Unknown /\ \A col \in DOMAIN r.refs : r.refs[col] # Unknown)
<1>1. Valid(s, i, s[i]) /\ r.t \in Tables /\ r.t = s[i].t
  BY DEF Sound, IsStore, IsRow, SameKey
<1>2. KeyIsFree(s, i, r) /\ ReferencesHold(s, s[i])
  BY <1>1 DEF Valid, KeyIsFree, SameKey
<1>3. Valid(s, i, r) <=> ReferencesHold(s, r)
  BY <1>2 DEF Valid
<1>4. r.owner \in Owners(s, r.t) =>
        (r.owner \in Ids(s, "users") \/ (r.owner = Null /\ r.t \notin OwnerRequired) <=> r.owner # Unknown)
  BY OwnerResolves
<1>5. r.refs \in Refs(s, r.t) =>
        ((\A col \in References(r.t) : r.refs[col] \in Ids(s, col) \/ (r.refs[col] = Null /\ <<r.t, col>> \notin Required))
         <=> \A col \in DOMAIN r.refs : r.refs[col] # Unknown)
  BY <1>1, LinksResolve
<1> QED BY <1>1, <1>2, <1>3, <1>4, <1>5 DEF ReferencesHold

LEMMA GivenIsValid ==
  ASSUME NEW s, Placed(s), Sound(s), NEW S \in SUBSET DOMAIN s, NEW t \in Tables, \A i \in S : s[i].t = t,
         NEW refs \in Refs(s, t), NEW owner \in Owners(s, t), NEW st \in StatesOf(t)
  PROVE  \A i \in S : Valid(s, i, Given3(s[i], refs, owner, st))
                      <=> owner # Unknown /\ \A col \in DOMAIN refs : refs[col] # Unknown
<1> SUFFICES ASSUME NEW i \in S
             PROVE  Valid(s, i, Given3(s[i], refs, owner, st))
                    <=> owner # Unknown /\ \A col \in DOMAIN refs : refs[col] # Unknown
  OBVIOUS
<1> DEFINE q == WithRefs(s[i], refs)
           p == SetOwner(q, owner)
           r == SetState(p, st)
<1>1. IsRow(s[i]) /\ s[i].t = t /\ refs = [col \in Columns(t) |-> refs[col]]
  BY DEF Sound, IsStore, Refs
<1>2. IsRow(q) /\ SameKey(s[i], q) /\ q.refs = refs
  BY <1>1, WithRefsRow
<1> HIDE DEF q
<1>3. IsRow(p) /\ SameKey(q, p) /\ p.refs = refs /\ p.owner = owner
  BY <1>2, OwnerRow
<1> HIDE DEF p
<1>4. p.t = t
  BY <1>1, <1>2, <1>3 DEF SameKey
<1>5. SameLinks(p, r)
  BY <1>3, <1>4, StateRow
<1> HIDE DEF r
<1>6. SameKey(s[i], r) /\ r.refs = refs /\ r.owner = owner /\ r.t = t
  BY <1>1, <1>2, <1>3, <1>5 DEF SameLinks, SameKey
<1>7. Valid(s, i, r) <=> owner # Unknown /\ \A col \in DOMAIN refs : refs[col] # Unknown
  BY <1>6, RelinkedIsValid
<1> QED BY <1>7 DEF r, p, q, Given3

LEMMA OwnedIsValid ==
  ASSUME NEW s, Placed(s), Sound(s), NEW S \in SUBSET DOMAIN s, NEW t, \A i \in S : s[i].t = t,
         NEW owner \in Owners(s, t)
  PROVE  \A i \in S : Valid(s, i, SetOwner(s[i], owner)) <=> owner # Unknown
<1> SUFFICES ASSUME NEW i \in S
             PROVE  Valid(s, i, SetOwner(s[i], owner)) <=> owner # Unknown
  OBVIOUS
<1>1. IsRow(s[i]) /\ s[i].t = t
  BY DEF Sound, IsStore
<1>2. SameKey(s[i], SetOwner(s[i], owner)) /\ SetOwner(s[i], owner).refs = s[i].refs
      /\ SetOwner(s[i], owner).owner = owner
  BY <1>1, OwnerRow
<1> QED BY <1>1, <1>2, RelinkedIsValid DEF SameKey

LEMMA LinkedIsValid ==
  ASSUME NEW s, Placed(s), Sound(s), NEW S \in SUBSET DOMAIN s, NEW t, \A i \in S : s[i].t = t,
         NEW refs \in Refs(s, t)
  PROVE  \A i \in S : Valid(s, i, WithRefs(s[i], refs)) <=> \A col \in DOMAIN refs : refs[col] # Unknown
<1> SUFFICES ASSUME NEW i \in S
             PROVE  Valid(s, i, WithRefs(s[i], refs)) <=> \A col \in DOMAIN refs : refs[col] # Unknown
  OBVIOUS
<1>1. IsRow(s[i]) /\ s[i].t = t /\ refs = [col \in Columns(t) |-> refs[col]]
  BY DEF Sound, IsStore, Refs
<1>2. SameKey(s[i], WithRefs(s[i], refs)) /\ WithRefs(s[i], refs).refs = refs
      /\ WithRefs(s[i], refs).owner = s[i].owner
  BY <1>1, WithRefsRow
<1> QED BY <1>1, <1>2, RelinkedIsValid DEF SameKey

\* Another owner is refused by the database if there is no such user.
LEMMA SetOwnerDiffers ==
  ASSUME NEW s, Placed(s), Sound(s), NEW c, c.t \in {"companies", "contacts"}, c.op = "SetOwner", Args(s, c)
  PROVE  Differs(s, c) <=> At(s, c) # {} /\ ~(\A i \in At(s, c) : Valid(s, i, SetOwner(s[i], c.owner)))
<1> DEFINE S == At(s, c)
<1>1. S \subseteq DOMAIN s /\ \A i \in S : s[i].t = c.t
  BY AtFacts DEF Sound
<1>2. c.owner \in Owners(s, c.t) /\ c.refs = << >>
  BY DEF Args
<1>3. \A i \in S : Valid(s, i, SetOwner(s[i], c.owner)) <=> c.owner # Unknown
  BY <1>1, <1>2, OwnedIsValid
<1>4. DOMAIN c.refs = {}
  BY <1>2
<1>5. NamesUnknown(c) <=> c.owner = Unknown
  BY <1>4, NamesOfCreate
<1> QED BY <1>3, <1>5, ListedUpdate

\* Both stores append one tag in the same way.
Appended(s, c) == [i \in DOMAIN s |-> SqlAppendTags(s[i].tags, c.tags)]

LEMMA TagsAgree ==
  ASSUME NEW s, Sound(s), NEW S \in SUBSET DOMAIN s, NEW c, c.op = "UpdateTags", Args(s, c)
  PROVE  \A i \in S : /\ DemoTagged(s[i], c) = [s[i] EXCEPT !.tags = Appended(s, c)[i]]
                      /\ [s[i] EXCEPT !.tags = SqlAppendTags(@, c.tags)] = [s[i] EXCEPT !.tags = Appended(s, c)[i]]
                      /\ Valid(s, i, [s[i] EXCEPT !.tags = SqlAppendTags(@, c.tags)])
<1>1. PICK x : c.tags = <<x>>
  BY DEF Args
<1>2. \A old : DemoAppendTags(old, c.tags) = SqlAppendTags(old, c.tags)
  BY <1>1, AppendOne
<1>3. \A i \in DOMAIN s : Appended(s, c)[i] = SqlAppendTags(s[i].tags, c.tags)
  BY DEF Appended
<1>4. \A i \in S : Valid(s, i, [s[i] EXCEPT !.tags = Appended(s, c)[i]])
  BY TaggedIsValid
<1>5. \A i \in S : [s[i] EXCEPT !.tags = SqlAppendTags(@, c.tags)] = [s[i] EXCEPT !.tags = Appended(s, c)[i]]
  BY <1>3
<1>6. \A i \in S : DemoTagged(s[i], c) = [s[i] EXCEPT !.tags = Appended(s, c)[i]]
  BY <1>2, <1>3 DEF DemoTagged
<1> QED BY <1>4, <1>5, <1>6

\* An appointment may be given any contact there is.
LEMMA MetIsValid ==
  ASSUME NEW s, Placed(s), Sound(s), NEW S \in SUBSET DOMAIN s, \A i \in S : s[i].t = "appointments",
         NEW x \in Candidates(s, "appointments", "contacts")
  PROVE  \A i \in S : Valid(s, i, [Touch(s[i]) EXCEPT !.refs["contacts"] = x]) <=> x # Unknown
<1> SUFFICES ASSUME NEW i \in S
             PROVE  Valid(s, i, [Touch(s[i]) EXCEPT !.refs["contacts"] = x]) <=> x # Unknown
  OBVIOUS
<1> DEFINE p == Touch(s[i])
           f == [p.refs EXCEPT !["contacts"] = x]
           r == [p EXCEPT !.refs = f]
<1>1. IsRow(s[i]) /\ s[i].t = "appointments" /\ ReferencesHold(s, s[i])
  BY DEF Sound, IsStore, Valid
<1>2. IsRow(p) /\ SameLinks(s[i], p)
  BY <1>1, TouchRow
<1> HIDE DEF p
<1>3. p.t = "appointments" /\ p.refs = s[i].refs /\ p.owner = s[i].owner
  BY <1>1, <1>2 DEF SameLinks, SameKey
<1>4. References("appointments") = {"contacts", "companies", "deals"} /\ Columns("appointments") = References("appointments")
  BY DEF References, Columns
<1>5. p.refs = [col \in Columns(p.t) |-> p.refs[col]]
  BY <1>2 DEF IsRow
<1>6. f = [col \in Columns(p.t) |-> f[col]] /\ f["contacts"] = x
      /\ \A col \in {"companies", "deals"} : f[col] = p.refs[col]
  BY <1>3, <1>4, <1>5
<1> HIDE DEF f
<1>7. SameKey(p, r) /\ r.refs = f /\ r.owner = p.owner
  BY <1>2, <1>6, RefsRow
<1> HIDE DEF r
<1>8. SameKey(s[i], r) /\ r.t = "appointments" /\ r.owner = s[i].owner /\ r.refs = f
  BY <1>1, <1>2, <1>3, <1>7 DEF SameLinks, SameKey
<1>9. Valid(s, i, r) <=> ReferencesHold(s, r)
  BY <1>8, RelinkedIsValid
<1>10. x # Unknown <=> x \in Ids(s, "contacts") \/ x = Null
  BY DEF Candidates, Placed, Ids, Null, Unknown
<1>11. ReferencesHold(s, r) <=> x \in Ids(s, "contacts") \/ x = Null
  BY <1>1, <1>3, <1>4, <1>6, <1>8 DEF ReferencesHold, Required
<1> QED BY <1>9, <1>10, <1>11 DEF r, f, p

-----------------------------------------------------------------------------
(* The tables.                                                              *)
LEMMA TodosDiffer ==
  ASSUME NEW s, Placed(s), Sound(s), NEW c, Asks(s, c, "todos"), Args(s, c)
  PROVE  Differs(s, c) <=> DemoTodos(s, c) # SqlTodos(s, c)
<1> USE DEF DemoTodos, SqlTodos
<1>1. c.t = "todos" /\ Given(s, c) /\ IsStore(s) /\ c.t \in Tables \ Keyed
  BY DEF Asks, Placed, Tables, Keyed
<1>2. c.op \in {"Create", "Get", "Delete", "List", "ListByAssignee", "UpdateStatus", "Update"}
  BY OpsOfTables DEF Asks
<1> DEFINE S == At(s, c)
<1>3. S \subseteq DOMAIN s /\ \A i \in S : s[i].t = c.t /\ IsRow(s[i])
  BY <1>1, AtFacts
<1>4. CASE c.op = "Create"
  BY <1>1, <1>4, NewDiffers DEF SqlTodoRows
<1>5. CASE c.op = "Delete"
  BY <1>1, <1>5, ListedDelete, DeletesDiffer DEF SqlTodoRows, IsReferred, At
<1>6. CASE c.op \in {"Get", "List"}
  BY <1>1, <1>6, NeverListed DEF SqlTodoReads
<1>7. CASE c.op = "ListByAssignee"
  <2>1. {i \in Ids(s, c.t) : s[i].owner = c.owner /\ c.owner # Null} = {i \in OwnedBy(s, c) : c.owner # Null}
    BY DEF OwnedBy
  <2> QED BY <1>1, <1>7, <2>1, NeverListed DEF SqlTodoReads
<1>8. CASE c.op = "Update"
  <2> DEFINE new(i) == Given3(s[i], c.refs, c.owner, c.st)
             s2 == Filled(s, S, c.refs, c.owner, c.st)
  <2>1. c.refs \in Refs(s, c.t) /\ c.owner \in Owners(s, c.t) /\ c.st \in StatesOf(c.t)
    BY <1>1, <1>8 DEF Given, Args, StatesOf
  <2>2. DemoTodos(s, c) = DemoEdit(s, S, s2)
    BY <1>1, <1>8 DEF DemoUpdate, DemoEdit, Filled
  <2>3. SqlTodos(s, c) = SqlEdit(s, S, s2, \A i \in S : Valid(s, i, new(i)))
    BY <1>1, <1>8 DEF SqlTodoUpdates, SqlUpdate, SqlEdit, Filled, Given3, Set
  <2>4. \A i \in S : Valid(s, i, new(i)) <=> c.owner # Unknown /\ \A col \in DOMAIN c.refs : c.refs[col] # Unknown
    BY <1>1, <1>3, <2>1, GivenIsValid
  <2>5. NamesUnknown(c) <=> c.owner = Unknown \/ \E col \in DOMAIN c.refs : c.refs[col] = Unknown
    BY <1>1, NamesOfCreate
  <2> HIDE DEF s2, new
  <2>6. Differs(s, c) <=> S # {} /\ ~(\A i \in S : Valid(s, i, new(i)))
    BY <1>1, <1>8, <2>4, <2>5, ListedUpdate DEF new
  <2> QED BY <2>2, <2>3, <2>6, EditsDiffer
<1>9. CASE c.op = "UpdateStatus"
  <2> DEFINE s2 == Stated(s, S, c.st)
  <2>1. DemoTodos(s, c) = DemoEdit(s, S, s2)
    BY <1>1, <1>9 DEF DemoUpdate, DemoEdit, Stated
  <2>2. SqlTodos(s, c) = SqlEdit(s, S, s2, \A i \in S : Valid(s, i, SetState(s[i], c.st)))
    BY <1>1, <1>9 DEF SqlTodoUpdates, SqlUpdate, SqlEdit, Stated, Set
  <2>3. \A i \in S : c.st \in StatesOf(s[i].t)
    BY <1>1, <1>3, <1>9 DEF Given, StatesOf
  <2>4. \A i \in S : Valid(s, i, SetState(s[i], c.st))
    BY <1>3, <2>3, StatedIsValid
  <2> QED BY <1>1, <1>9, <2>1, <2>2, <2>4, EditsDiffer, NeverListed
<1> QED BY <1>2, <1>4, <1>5, <1>6, <1>7, <1>8, <1>9

LEMMA NotesDiffer ==
  ASSUME NEW s, Placed(s), Sound(s), NEW c, Asks(s, c, "notes"), Args(s, c)
  PROVE  Differs(s, c) <=> DemoNotes(s, c) # SqlNotes(s, c)
<1> USE DEF DemoNotes, SqlNotes
<1>1. c.t = "notes" /\ Given(s, c) /\ IsStore(s) /\ c.t \in Tables \ Keyed
  BY DEF Asks, Placed, Tables, Keyed
<1>2. c.op \in {"Create", "Get", "Delete", "Update", "List", "ListByEntity"}
  BY OpsOfTables DEF Asks
<1> DEFINE S == At(s, c)
<1>3. S \subseteq DOMAIN s /\ \A i \in S : s[i].t = c.t /\ IsRow(s[i])
  BY <1>1, AtFacts
<1>4. CASE c.op = "Create"
  BY <1>1, <1>4, NewDiffers DEF SqlNoteRows
<1>5. CASE c.op = "Delete"
  BY <1>1, <1>5, ListedDelete, DeletesDiffer DEF SqlNoteRows, IsReferred, At
<1>6. CASE c.op \in {"Get", "List"}
  BY <1>1, <1>6, NeverListed DEF SqlNoteReads
<1>7. CASE c.op = "ListByEntity"
  <2> DEFINE demo == {i \in OwnedBy(s, c) \cap ByFold(s, c.t, c.key) : s[i].refs["entity"] = c.id}
             sql == {i \in OwnedBy(s, c) : s[i].key = c.key /\ s[i].refs["entity"] = c.id}
  <2>1. DemoNotes(s, c) = Many(s, demo) /\ SqlNotes(s, c) = Many(s, sql)
    BY <1>1, <1>7 DEF SqlNoteReads
  <2>2. Differs(s, c) <=> \E i \in demo : s[i].key # c.key
    BY <1>1, <1>7 DEF Differs, Writes
  <2>3. sql = {i \in demo : s[i].key = c.key}
    BY DEF OwnedBy, ByFold
  <2> HIDE DEF demo, sql
  <2>4. Differs(s, c) <=> demo # sql
    BY <2>2, <2>3
  <2> QED BY <2>1, <2>4, ReadsDiffer
<1>8. CASE c.op = "Update"
  <2> DEFINE s2 == Touched(s, S)
  <2>1. DemoNotes(s, c) = DemoEdit(s, S, s2)
    BY <1>1, <1>8 DEF DemoUpdate, DemoEdit, Touched
  <2>2. SqlNotes(s, c) = SqlEdit(s, S, s2, \A i \in S : Valid(s, i, Touch(s[i])))
    BY <1>1, <1>8 DEF SqlUpdateNote, SqlUpdate, SqlEdit, Touched
  <2>3. \A i \in S : Valid(s, i, Touch(s[i]))
    BY <1>3, TouchedIsValid
  <2>4. ~Differs(s, c)
    BY <1>1, <1>8, ListedUpdate, PlainNamesNothing DEF Args
  <2> QED BY <2>1, <2>2, <2>3, <2>4, EditsDiffer
<1> QED BY <1>2, <1>4, <1>5, <1>6, <1>7, <1>8

LEMMA CallsDiffer ==
  ASSUME NEW s, Placed(s), Sound(s), NEW c, Asks(s, c, "calls"), Args(s, c)
  PROVE  Differs(s, c) <=> DemoCalls(s, c) # SqlCalls(s, c)
<1> USE DEF DemoCalls, SqlCalls
<1>1. c.t = "calls" /\ Given(s, c) /\ c.t \in Tables \ Keyed
  BY DEF Asks, Tables, Keyed
<1>2. c.op \in {"Create", "List", "ListByContact"}
  BY OpsOfTables DEF Asks
<1>3. CASE c.op = "Create"
  BY <1>1, <1>3, NewDiffers DEF SqlCreateCallActivity
<1>4. CASE c.op = "List"
  BY <1>1, <1>4, NeverListed DEF SqlCallReads
<1>5. CASE c.op = "ListByContact"
  <2>1. c.id # Null
    BY <1>5 DEF Args
  <2>2. {i \in Ids(s, c.t) : s[i].refs["contacts"] = c.id} = Referring(s, c, "contacts")
    BY <2>1 DEF Referring
  <2> QED BY <1>1, <1>5, <2>2, NeverListed DEF SqlCallReads
<1> QED BY <1>2, <1>3, <1>4, <1>5

LEMMA JobsDiffer ==
  ASSUME NEW s, Placed(s), Sound(s), NEW c, Asks(s, c, "jobs"), Args(s, c)
  PROVE  Differs(s, c) <=> DemoJobs(s, c) # SqlJobs(s, c)
<1> USE DEF DemoJobs, SqlJobs
<1>1. c.t = "jobs" /\ Given(s, c) /\ IsStore(s) /\ c.t \in Tables \ Keyed
  BY DEF Asks, Placed, Tables, Keyed
<1>2. c.op \in {"Create", "Get", "List", "UpdateStatus"}
  BY OpsOfTables DEF Asks
<1> DEFINE S == At(s, c)
<1>3. S \subseteq DOMAIN s /\ \A i \in S : s[i].t = c.t /\ IsRow(s[i])
  BY <1>1, AtFacts
<1>4. CASE c.op = "Create"
  BY <1>1, <1>4, NewDiffers DEF SqlCreateAIResearchJob
<1>5. CASE c.op \in {"Get", "List"}
  BY <1>1, <1>5, NeverListed DEF SqlJobReads
<1>6. CASE c.op = "UpdateStatus"
  <2> DEFINE s2 == Stated(s, S, c.st)
  <2>1. DemoJobs(s, c) = DemoEdit(s, S, s2)
    BY <1>1, <1>6 DEF DemoUpdate, DemoEdit, Stated
  <2>2. SqlJobs(s, c) = SqlEdit(s, S, s2, \A i \in S : Valid(s, i, SetState(s[i], c.st)))
    BY <1>1, <1>6 DEF SqlUpdateAIResearchJobStatus, SqlUpdate, SqlEdit, Stated
  <2>3. \A i \in S : c.st \in StatesOf(s[i].t)
    BY <1>1, <1>3, <1>6 DEF Given, StatesOf
  <2>4. \A i \in S : Valid(s, i, SetState(s[i], c.st))
    BY <1>3, <2>3, StatedIsValid
  <2> QED BY <1>1, <1>6, <2>1, <2>2, <2>4, EditsDiffer, NeverListed
<1> QED BY <1>2, <1>4, <1>5, <1>6

LEMMA ArticlesDiffer ==
  ASSUME NEW s, Placed(s), Sound(s), NEW c, Asks(s, c, "articles"), Args(s, c)
  PROVE  Differs(s, c) <=> DemoArticles(s, c) # SqlArticles(s, c)
<1> USE DEF DemoArticles, SqlArticles
<1>1. c.t = "articles" /\ Given(s, c) /\ IsStore(s) /\ c.t \in Tables \ Keyed
  BY DEF Asks, Placed, Tables, Keyed
<1>2. c.op \in {"Create", "Get", "Delete", "List", "UpdateStatus", "Search"}
  BY OpsOfTables DEF Asks
<1>3. CASE c.op = "Create"
  BY <1>1, <1>3, NewDiffers DEF SqlArticleRows
<1>4. CASE c.op = "Delete"
  BY <1>1, <1>4, ListedDelete, DeletesDiffer DEF SqlArticleRows, IsReferred, At
<1>5. CASE c.op \in {"Get", "List", "Search"}
  BY <1>1, <1>5, NeverListed DEF SqlArticleReads
<1>6. CASE c.op = "UpdateStatus"
  <2> DEFINE s2 == Stated(s, At(s, c), "indexed")
  <2>1. SqlArticles(s, c) = Nothing(s2, "ok")
    BY <1>1, <1>6 DEF SqlUpdateKBArticleEmbedding, SqlExec, Stated
  <2>2. DemoArticles(s, c) = IF At(s, c) = {} THEN Nothing(s, "none") ELSE Nothing(s2, "ok")
    BY <1>1, <1>6 DEF DemoSet, Stated
  <2>3. Differs(s, c) <=> At(s, c) = {}
    BY <1>1, <1>6 DEF Differs, Writes
  <2> HIDE DEF s2
  <2>4. Nothing(s, "none") # Nothing(s2, "ok")
    BY ResultsDiffer DEF Nothing
  <2> QED BY <2>1, <2>2, <2>3, <2>4
<1> QED BY <1>2, <1>3, <1>4, <1>5, <1>6

LEMMA NotificationsDiffer ==
  ASSUME NEW s, Placed(s), Sound(s), NEW c, Asks(s, c, "notifications"), Args(s, c)
  PROVE  Differs(s, c) <=> DemoNotifications(s, c) # SqlNotifications(s, c)
<1> USE DEF DemoNotifications, SqlNotifications
<1>1. c.t = "notifications" /\ Given(s, c) /\ IsStore(s) /\ c.t \in Tables \ Keyed
  BY DEF Asks, Placed, Tables, Keyed
<1>2. c.op \in {"Create", "MarkRead", "List", "ListUnread", "MarkAll"}
  BY OpsOfTables DEF Asks
<1>3. c.op \in {"List", "ListUnread", "MarkAll"} => DemoForUser(s, c) = SqlForUser(s, c)
  <2>1. c.op \in {"List", "ListUnread", "MarkAll"} => c.owner # Null
    BY <1>1 DEF Args
  <2> QED BY <2>1 DEF DemoForUser, SqlForUser
<1>4. CASE c.op = "Create"
  BY <1>1, <1>4, NewDiffers DEF SqlCreateNotification
<1>5. CASE c.op = "List"
  BY <1>1, <1>3, <1>5, NeverListed DEF SqlNotificationReads
<1>6. CASE c.op = "ListUnread"
  <2>1. \A i \in Ids(s, c.t) : s[i].st \in {"read", "unread"}
    BY <1>1 DEF Ids, IsStore, IsRow, StatesOf, States
  <2>2. {i \in DemoForUser(s, c) : s[i].st # "read"} = {i \in SqlForUser(s, c) : c.op = "List" \/ s[i].st = "unread"}
    BY <1>3, <1>6, <2>1 DEF SqlForUser
  <2> QED BY <1>1, <1>6, <2>2, NeverListed DEF SqlNotificationReads
<1>7. CASE c.op \in {"MarkAll", "MarkRead"}
  BY <1>1, <1>3, <1>7, NeverListed DEF SqlNotificationUpdates, SqlExec, DemoSet
<1> QED BY <1>2, <1>4, <1>5, <1>6, <1>7

LEMMA AuditDiffers ==
  ASSUME NEW s, Placed(s), Sound(s), NEW c, Asks(s, c, "audit"), Args(s, c)
  PROVE  Differs(s, c) <=> DemoAudit(s, c) # SqlAudit(s, c)
<1> USE DEF DemoAudit, SqlAudit
<1>1. c.t = "audit" /\ Given(s, c) /\ c.t \in Tables \ Keyed
  BY DEF Asks, Tables, Keyed
<1>2. c.op \in {"Create", "List", "LatestHash"}
  BY OpsOfTables DEF Asks
<1>3. CASE c.op = "Create"
  BY <1>1, <1>3, NewDiffers DEF SqlCreateAuditLog
<1>4. CASE c.op = "List"
  BY <1>1, <1>4, NeverListed DEF SqlAuditReads
<1>5. CASE c.op = "LatestHash"
  <2> DEFINE S == Hashed(s, c)
  <2>1. DemoAudit(s, c) = Many(s, Newest(S)) /\ SqlAudit(s, c) = One(s, Newest(S))
    BY <1>1, <1>5 DEF SqlAuditReads
  <2>2. Differs(s, c) <=> S = {}
    BY <1>1, <1>5 DEF Differs, Writes
  <2>3. S \subseteq DOMAIN s
    BY DEF Hashed, Ids
  <2> HIDE DEF S
  <2>4. next - 1 \in Nat /\ S \in SUBSET (1 .. next - 1)
    BY <2>3 DEF Placed
  <2>5. Newest(S) = {} <=> S = {}
    BY <2>4, NewestExists DEF Newest
  <2> QED BY <2>1, <2>2, <2>5, ReadsDiffer
<1> QED BY <1>2, <1>3, <1>4, <1>5

LEMMA AttachmentsDiffer ==
  ASSUME NEW s, Placed(s), Sound(s), NEW c, Asks(s, c, "attachments"), Args(s, c)
  PROVE  Differs(s, c) <=> DemoAttachments(s, c) # SqlAttachments(s, c)
<1> USE DEF DemoAttachments, SqlAttachments
<1>1. c.t = "attachments" /\ Given(s, c) /\ c.t \in Tables \ Keyed
  BY DEF Asks, Tables, Keyed
<1>2. c.op \in {"Create", "ListByMessage"}
  BY OpsOfTables DEF Asks
<1>3. CASE c.op = "Create"
  BY <1>1, <1>3, NewDiffers DEF SqlCreateEmailAttachment
<1>4. CASE c.op = "ListByMessage"
  BY <1>1, <1>4, NeverListed DEF SqlListEmailAttachments
<1> QED BY <1>2, <1>3, <1>4

LEMMA CompaniesDiffer ==
  ASSUME NEW s, Placed(s), Sound(s), NEW c, Asks(s, c, "companies"), Args(s, c)
  PROVE  Differs(s, c) <=> DemoCompanies(s, c) # SqlCompanies(s, c)
<1> USE DEF DemoCompanies, SqlCompanies, DemoCompanyRows, DemoCompanyUpdates
<1>1. c.t = "companies" /\ Given(s, c) /\ IsStore(s)
  BY DEF Asks, Placed
<1>2. c.op \in {"Create", "Get", "Delete", "Update", "List", "ListUnowned", "SetOwner"}
  BY OpsOfTables DEF Asks
<1> DEFINE S == At(s, c)
<1>3. S \subseteq DOMAIN s /\ \A i \in S : s[i].t = c.t /\ IsRow(s[i])
  BY <1>1, AtFacts
<1>4. CASE c.op = "Create"
  BY <1>1, <1>4, UnownedDiffers DEF SqlCompanyRows
<1>5. CASE c.op = "Delete"
  BY <1>1, <1>5, ListedDelete, DeletesDiffer DEF SqlCompanyRows, IsReferred, At
<1>6. CASE c.op \in {"Get", "List", "ListUnowned"}
  BY <1>1, <1>6, NeverListed DEF SqlCompanyReads, SqlListUnowned
<1>7. CASE c.op = "Update"
  <2> DEFINE s2 == Touched(s, S)
  <2>1. DemoCompanies(s, c) = DemoEdit(s, S, s2)
    BY <1>1, <1>7 DEF DemoUpdate, DemoEdit, Touched
  <2>2. SqlCompanies(s, c) = SqlEdit(s, S, s2, \A i \in S : Valid(s, i, Touch(s[i])))
    BY <1>1, <1>7 DEF SqlUpdateCompany, SqlUpdate, SqlEdit, Touched
  <2>3. \A i \in S : Valid(s, i, Touch(s[i]))
    BY <1>3, TouchedIsValid
  <2>4. ~Differs(s, c)
    BY <1>1, <1>7, ListedUpdate, PlainNamesNothing DEF Args
  <2> QED BY <2>1, <2>2, <2>3, <2>4, EditsDiffer
<1>8. CASE c.op = "SetOwner"
  <2> DEFINE s2 == Owned(s, S, c.owner)
  <2>1. DemoCompanies(s, c) = DemoEdit(s, S, s2)
    BY <1>1, <1>8 DEF DemoUpdate, DemoEdit, Owned
  <2>2. SqlCompanies(s, c) = SqlEdit(s, S, s2, \A i \in S : Valid(s, i, SetOwner(s[i], c.owner)))
    BY <1>1, <1>8 DEF SqlSetOwner, SqlUpdate, SqlEdit, Owned
  <2>3. Differs(s, c) <=> S # {} /\ ~(\A i \in S : Valid(s, i, SetOwner(s[i], c.owner)))
    BY <1>1, <1>8, SetOwnerDiffers
  <2> HIDE DEF s2
  <2> QED BY <2>1, <2>2, <2>3, EditsDiffer
<1> QED BY <1>2, <1>4, <1>5, <1>6, <1>7, <1>8

LEMMA ContactsDiffer ==
  ASSUME NEW s, Placed(s), Sound(s), NEW c, Asks(s, c, "contacts"), Args(s, c)
  PROVE  Differs(s, c) <=> DemoContacts(s, c) # SqlContacts(s, c)
<1> USE DEF DemoContacts, SqlContacts, DemoContactRows, DemoContactOwners
<1>1. c.t = "contacts" /\ Given(s, c) /\ IsStore(s)
  BY DEF Asks, Placed
<1>2. c.op \in {"Create", "Get", "Delete", "List", "ListUnowned", "Update", "UpdateTags", "SetOwner",
               "ListByCompany", "Search"}
  BY OpsOfTables DEF Asks
<1> DEFINE S == At(s, c)
<1>3. S \subseteq DOMAIN s /\ \A i \in S : s[i].t = c.t /\ IsRow(s[i])
  BY <1>1, AtFacts
<1>4. CASE c.op = "Create"
  BY <1>1, <1>4, UnownedDiffers DEF SqlContactRows
<1>5. CASE c.op = "Delete"
  BY <1>1, <1>5, ListedDelete, DeletesDiffer DEF SqlContactRows, IsReferred, At
<1>6. CASE c.op \in {"Get", "List", "ListUnowned", "ListByCompany", "Search"}
  BY <1>1, <1>6, NeverListed DEF SqlContactReads, SqlListUnowned, SqlSearchContacts
<1>7. CASE c.op = "Update"
  <2> DEFINE new(i) == WithRefs(s[i], c.refs)
             s2 == Linked(s, S, c.refs)
  <2>1. c.refs \in Refs(s, c.t) /\ c.owner \in Owners(s, c.t)
    BY <1>1, <1>7 DEF Given, Args
  <2>2. DemoContacts(s, c) = DemoEdit(s, S, s2)
    BY <1>1, <1>7 DEF DemoUpdate, DemoEdit, Linked
  <2>3. SqlContacts(s, c) = SqlEdit(s, S, s2, \A i \in S : Valid(s, i, new(i)))
    BY <1>1, <1>7 DEF SqlContactUpdates, SqlUpdate, SqlEdit, Linked, Set
  <2>4. \A i \in S : Valid(s, i, new(i)) <=> \A col \in DOMAIN c.refs : c.refs[col] # Unknown
    BY <1>3, <2>1, LinkedIsValid
  <2>5. DOMAIN c.refs = {"companies"}
    BY <1>1, <2>1 DEF Refs, Columns, References
  <2>6. c.refs["companies"] = Unknown => NamesUnknown(c)
    BY <1>1, <2>5 DEF NamesUnknown
  <2> HIDE DEF s2, new
  <2>7. Differs(s, c) <=> S # {} /\ ~(\A i \in S : Valid(s, i, new(i)))
    BY <1>1, <1>7, <2>4, <2>5, <2>6, ListedUpdate
  <2> QED BY <2>2, <2>3, <2>7, EditsDiffer
<1>8. CASE c.op = "UpdateTags"
  <2> DEFINE s2 == Tagged(s, S, Appended(s, c))
  <2>1. \A i \in S : /\ DemoTagged(s[i], c) = [s[i] EXCEPT !.tags = Appended(s, c)[i]]
                     /\ [s[i] EXCEPT !.tags = SqlAppendTags(@, c.tags)] = [s[i] EXCEPT !.tags = Appended(s, c)[i]]
                     /\ Valid(s, i, [s[i] EXCEPT !.tags = SqlAppendTags(@, c.tags)])
    BY <1>3, <1>8, TagsAgree
  <2>2. DemoContacts(s, c) = DemoEdit(s, S, s2)
    BY <1>1, <1>8, <2>1 DEF DemoUpdate, DemoEdit, Tagged, Set
  <2>3. SqlContacts(s, c) = SqlEdit(s, S, s2, TRUE)
    BY <1>1, <1>8, <2>1 DEF SqlContactUpdates, SqlUpdate, SqlEdit, Tagged, Set
  <2> QED BY <1>8, <2>2, <2>3, EditsDiffer, NeverListed
<1>9. CASE c.op = "SetOwner"
  <2> DEFINE s2 == Owned(s, S, c.owner)
  <2>1. DemoContacts(s, c) = DemoEdit(s, S, s2)
    BY <1>1, <1>9 DEF DemoUpdate, DemoEdit, Owned
  <2>2. SqlContacts(s, c) = SqlEdit(s, S, s2, \A i \in S : Valid(s, i, SetOwner(s[i], c.owner)))
    BY <1>1, <1>9 DEF SqlSetOwner, SqlUpdate, SqlEdit, Owned
  <2>3. Differs(s, c) <=> S # {} /\ ~(\A i \in S : Valid(s, i, SetOwner(s[i], c.owner)))
    BY <1>1, <1>9, SetOwnerDiffers
  <2> HIDE DEF s2
  <2> QED BY <2>1, <2>2, <2>3, EditsDiffer
<1> QED BY <1>2, <1>4, <1>5, <1>6, <1>7, <1>8, <1>9

LEMMA DealsDiffer ==
  ASSUME NEW s, Placed(s), Sound(s), NEW c, Asks(s, c, "deals"), Args(s, c)
  PROVE  Differs(s, c) <=> DemoDeals(s, c) # SqlDeals(s, c)
<1> USE DEF DemoDeals, SqlDeals, DemoDealRows, DemoDealUpdates
<1>1. c.t = "deals" /\ Given(s, c) /\ IsStore(s) /\ c.t \in Tables \ Keyed
  BY DEF Asks, Placed, Tables, Keyed
<1>2. c.op \in {"Create", "Get", "Delete", "Revoke", "List", "UpdateStage", "Update", "UpdateTags",
               "ListByStage"}
  BY OpsOfTables DEF Asks
<1> DEFINE S == Open(s, c)
<1>3. S \subseteq DOMAIN s /\ S \subseteq Ids(s, c.t) /\ \A i \in S : s[i].t = c.t /\ IsRow(s[i])
  BY <1>1, AtFacts DEF Open, At
<1>4. CASE c.op = "Create"
  BY <1>1, <1>4, NewDiffers DEF SqlDealRows
<1>5. CASE c.op = "Delete"
  <2>1. S # {} => At(s, c) = S
    BY DEF Open, At
  <2>2. DemoDeals(s, c) = IF S = {} THEN Nothing(s, "none") ELSE DemoDelete(s, At(s, c))
    BY <1>1, <1>5
  <2>3. SqlDeals(s, c) = IF S = {} THEN Nothing(s, "none") ELSE SqlDelete(s, S)
    BY <1>1, <1>5 DEF SqlDealRows
  <2>4. Differs(s, c) <=> IsReferred(s, c) /\ S # {}
    BY <1>1, <1>5, ListedDelete
  <2> HIDE DEF S
  <2>5. CASE S = {}
    BY <2>2, <2>3, <2>4, <2>5
  <2>6. CASE S # {}
    <3>1. DemoDeals(s, c) = DemoDelete(s, S) /\ SqlDeals(s, c) = SqlDelete(s, S)
      BY <2>1, <2>2, <2>3, <2>6
    <3>2. IsReferred(s, c) <=> \E i \in DOMAIN s : c.t \in References(s[i].t) /\ s[i].refs[c.t] \in S
      BY <2>1, <2>6 DEF IsReferred
    <3>3. DemoDelete(s, S) # SqlDelete(s, S) <=> IsReferred(s, c)
      BY <1>3, <3>2, DeletesDiffer
    <3> QED BY <2>4, <2>6, <3>1, <3>3
  <2> QED BY <2>5, <2>6
<1>6. CASE c.op \in {"Get", "List", "ListByStage"}
  BY <1>1, <1>6, NeverListed DEF SqlDealReads
<1>7. CASE c.op = "Update"
  <2> DEFINE new(i) == Given3(s[i], c.refs, c.owner, c.st)
             s2 == Filled(s, S, c.refs, c.owner, c.st)
  <2>1. c.refs \in Refs(s, c.t) /\ c.owner \in Owners(s, c.t) /\ c.st \in StatesOf(c.t)
    BY <1>1, <1>7 DEF Given, Args, StatesOf
  <2>2. DemoDeals(s, c) = DemoEdit(s, S, s2)
    BY <1>1, <1>7 DEF DemoUpdate, DemoEdit, Filled
  <2>3. SqlDeals(s, c) = SqlEdit(s, S, s2, \A i \in S : Valid(s, i, new(i)))
    BY <1>1, <1>7 DEF SqlDealUpdates, SqlUpdate, SqlEdit, Filled, Given3, Set
  <2>4. \A i \in S : Valid(s, i, new(i)) <=> c.owner # Unknown /\ \A col \in DOMAIN c.refs : c.refs[col] # Unknown
    BY <1>1, <1>3, <2>1, GivenIsValid
  <2>5. NamesUnknown(c) <=> c.owner = Unknown \/ \E col \in DOMAIN c.refs : c.refs[col] = Unknown
    BY <1>1, NamesOfCreate
  <2>6. S # {} => At(s, c) # {}
    BY DEF Open
  <2> HIDE DEF s2, new
  <2>7. Differs(s, c) <=> S # {} /\ ~(\A i \in S : Valid(s, i, new(i)))
    BY <1>1, <1>7, <2>4, <2>5, <2>6, ListedUpdate DEF new
  <2> QED BY <2>2, <2>3, <2>7, EditsDiffer
<1>8. CASE c.op = "UpdateStage"
  <2> DEFINE s2 == Stated(s, S, c.st)
  <2>1. DemoDeals(s, c) = DemoEdit(s, S, s2)
    BY <1>1, <1>8 DEF DemoUpdate, DemoEdit, Stated
  <2>2. SqlDeals(s, c) = SqlEdit(s, S, s2, \A i \in S : Valid(s, i, SetState(s[i], c.st)))
    BY <1>1, <1>8 DEF SqlDealUpdates, SqlUpdate, SqlEdit, Stated, Set
  <2>3. \A i \in S : c.st \in StatesOf(s[i].t)
    BY <1>1, <1>3, <1>8 DEF Given, StatesOf
  <2>4. \A i \in S : Valid(s, i, SetState(s[i], c.st))
    BY <1>3, <2>3, StatedIsValid
  <2> QED BY <1>1, <1>8, <2>1, <2>2, <2>4, EditsDiffer, NeverListed
<1>9. CASE c.op = "Revoke"
  <2> DEFINE T == At(s, c)
             s2 == RevokedRows(s, T)
             new(i) == IF s[i].st = Revoked THEN s[i] ELSE SetState(Touch(s[i]), Revoked)
  <2>1. DemoDeals(s, c) = DemoEdit(s, T, s2)
    BY <1>1, <1>9 DEF DemoUpdate, DemoEdit, RevokedRows, Set
  <2>2. SqlDeals(s, c) = SqlEdit(s, T, s2, \A i \in T : Valid(s, i, new(i)))
    BY <1>1, <1>9 DEF SqlRevokeDeal, SqlUpdate, SqlEdit, RevokedRows, Set
  <2>3. \A i \in T : Valid(s, i, new(i))
    BY <1>1, AtFacts, RevokedIsValid
  <2> QED BY <1>1, <1>9, <2>1, <2>2, <2>3, EditsDiffer, NeverListed
<1>10. CASE c.op = "UpdateTags"
  <2> DEFINE s2 == Tagged(s, S, Appended(s, c))
  <2>1. \A i \in S : /\ DemoTagged(s[i], c) = [s[i] EXCEPT !.tags = Appended(s, c)[i]]
                     /\ [s[i] EXCEPT !.tags = SqlAppendTags(@, c.tags)] = [s[i] EXCEPT !.tags = Appended(s, c)[i]]
                     /\ Valid(s, i, [s[i] EXCEPT !.tags = SqlAppendTags(@, c.tags)])
    BY <1>3, <1>10, TagsAgree
  <2>2. DemoDeals(s, c) = DemoEdit(s, S, s2)
    BY <1>1, <1>10, <2>1 DEF DemoUpdate, DemoEdit, Tagged, Set
  <2>3. SqlDeals(s, c) = SqlEdit(s, S, s2, TRUE)
    BY <1>1, <1>10, <2>1 DEF SqlDealUpdates, SqlUpdate, SqlEdit, Tagged, Set
  <2> QED BY <1>10, <2>2, <2>3, EditsDiffer, NeverListed
<1> QED BY <1>2, <1>4, <1>5, <1>6, <1>7, <1>8, <1>9, <1>10

LEMMA AppointmentsDiffer ==
  ASSUME NEW s, Placed(s), Sound(s), NEW c, Asks(s, c, "appointments"), Args(s, c)
  PROVE  Differs(s, c) <=> DemoAppointments(s, c) # SqlAppointments(s, c)
<1> USE DEF DemoAppointments, SqlAppointments
<1>1. c.t = "appointments" /\ Given(s, c) /\ IsStore(s) /\ c.t \in Tables \ Keyed
  BY DEF Asks, Placed, Tables, Keyed
<1>2. c.op \in {"Create", "Get", "Delete", "List", "UpdatePushStatus", "Update"}
  BY OpsOfTables DEF Asks
<1> DEFINE S == At(s, c)
<1>3. S \subseteq DOMAIN s /\ \A i \in S : s[i].t = c.t /\ IsRow(s[i])
  BY <1>1, AtFacts
<1>4. CASE c.op = "Create"
  BY <1>1, <1>4, NewDiffers DEF SqlAppointmentRows
<1>5. CASE c.op = "Delete"
  BY <1>1, <1>5, ListedDelete, DeletesDiffer DEF SqlAppointmentRows, IsReferred, At
<1>6. CASE c.op \in {"Get", "List"}
  BY <1>1, <1>6, NeverListed DEF SqlAppointmentReads
<1>7. CASE c.op = "Update"
  <2> DEFINE x == c.refs["contacts"]
             new(i) == [Touch(s[i]) EXCEPT !.refs["contacts"] = x]
             s2 == Met(s, S, x)
  <2>1. c.refs \in Refs(s, c.t) /\ c.owner \in Owners(s, c.t)
    BY <1>1, <1>7 DEF Given, Args
  <2>2. DemoAppointments(s, c) = DemoEdit(s, S, s2)
    BY <1>1, <1>7 DEF DemoUpdate, DemoEdit, Met, Set
  <2>3. SqlAppointments(s, c) = SqlEdit(s, S, s2, \A i \in S : Valid(s, i, new(i)))
    BY <1>1, <1>7 DEF SqlAppointmentUpdates, SqlUpdate, SqlEdit, Met, Set
  <2>4. DOMAIN c.refs = {"contacts", "companies", "deals"} /\ x \in Candidates(s, c.t, "contacts")
    BY <1>1, <2>1 DEF Refs, Columns, References
  <2>5. c.owner # Unknown
    BY <1>1, <2>1 DEF Owners, Placed, Ids, Null, Unknown
  <2>6. NamesUnknown(c) <=> x = Unknown
    BY <1>1, <1>7, <2>4, <2>5 DEF NamesUnknown
  <2>7. \A i \in S : Valid(s, i, new(i)) <=> x # Unknown
    BY <1>1, <1>3, <2>4, MetIsValid
  <2> HIDE DEF s2, new, x
  <2>8. Differs(s, c) <=> S # {} /\ ~(\A i \in S : Valid(s, i, new(i)))
    BY <1>1, <1>7, <2>6, <2>7, ListedUpdate
  <2> QED BY <2>2, <2>3, <2>8, EditsDiffer
<1>8. CASE c.op = "UpdatePushStatus"
  <2> DEFINE s2 == Stated(s, S, c.st)
  <2>1. DemoAppointments(s, c) = DemoEdit(s, S, s2)
    BY <1>1, <1>8 DEF DemoUpdate, DemoEdit, Stated
  <2>2. SqlAppointments(s, c) = SqlEdit(s, S, s2, \A i \in S : Valid(s, i, SetState(s[i], c.st)))
    BY <1>1, <1>8 DEF SqlAppointmentUpdates, SqlUpdate, SqlEdit, Stated, Set
  <2>3. \A i \in S : c.st \in StatesOf(s[i].t)
    BY <1>1, <1>3, <1>8 DEF Given, StatesOf
  <2>4. \A i \in S : Valid(s, i, SetState(s[i], c.st))
    BY <1>3, <2>3, StatedIsValid
  <2> QED BY <1>1, <1>8, <2>1, <2>2, <2>4, EditsDiffer, NeverListed
<1> QED BY <1>2, <1>4, <1>5, <1>6, <1>7, <1>8

LEMMA AccountsDiffer ==
  ASSUME NEW s, Placed(s), Sound(s), NEW c, Asks(s, c, "accounts"), Args(s, c)
  PROVE  Differs(s, c) <=> DemoAccounts(s, c) # SqlAccounts(s, c)
<1> USE DEF DemoAccounts, SqlAccounts, DemoAccountWrites, DemoAccountReads
<1>1. c.t = "accounts" /\ Given(s, c) /\ IsStore(s)
  BY DEF Asks, Placed
<1>2. c.op \in {"Create", "Get", "Delete", "UpdateSyncState", "List", "Update"}
  BY OpsOfTables DEF Asks
<1> DEFINE S == At(s, c)
<1>3. S \subseteq DOMAIN s /\ \A i \in S : s[i].t = c.t /\ IsRow(s[i])
  BY <1>1, AtFacts
<1>4. CASE c.op = "Create"
  BY <1>1, <1>4, NewDiffers DEF SqlCreateEmailAccount
<1>5. CASE c.op = "Delete"
  BY <1>1, <1>5, ListedDelete, DeletesDiffer DEF SqlDeleteEmailAccount, IsReferred, At
<1>6. CASE c.op = "Get"
  BY <1>1, <1>6, NeverListed DEF SqlAccountReads
<1>7. CASE c.op = "List"
  <2> DEFINE all == OwnedBy(s, c)
             active == {i \in OwnedBy(s, c) : s[i].st = "active"}
  <2>1. DemoAccounts(s, c) = Many(s, all) /\ SqlAccounts(s, c) = Many(s, active)
    BY <1>1, <1>7 DEF SqlAccountReads
  <2>2. \A i \in all : s[i].st \in {"active", "inactive"}
    BY <1>1 DEF OwnedBy, Ids, IsStore, IsRow, StatesOf, States
  <2>3. Differs(s, c) <=> \E i \in all : s[i].st = "inactive"
    BY <1>1, <1>7 DEF Differs, Writes
  <2> HIDE DEF all
  <2>4. Differs(s, c) <=> all # active
    BY <2>2, <2>3 DEF all
  <2> HIDE DEF active
  <2> QED BY <2>1, <2>4, ReadsDiffer
<1>8. CASE c.op = "Update"
  <2> DEFINE s2 == Stated(s, S, c.st)
  <2>1. DemoAccounts(s, c) = DemoEdit(s, S, s2)
    BY <1>1, <1>8 DEF DemoUpdate, DemoEdit, Stated
  <2>2. SqlAccounts(s, c) = SqlEdit(s, S, s2, \A i \in S : Valid(s, i, SetState(s[i], c.st)))
    BY <1>1, <1>8 DEF SqlAccountUpdates, SqlUpdate, SqlEdit, Stated
  <2>3. \A i \in S : c.st \in StatesOf(s[i].t)
    BY <1>1, <1>3, <1>8 DEF Given, StatesOf
  <2>4. \A i \in S : Valid(s, i, SetState(s[i], c.st))
    BY <1>3, <2>3, StatedIsValid
  <2>5. ~Differs(s, c)
    BY <1>1, <1>8, ListedUpdate, PlainNamesNothing DEF Args
  <2> QED BY <2>1, <2>2, <2>4, <2>5, EditsDiffer
<1>9. CASE c.op = "UpdateSyncState"
  BY <1>1, <1>9, NeverListed DEF SqlAccountUpdates, SqlExec, DemoSet
<1> QED BY <1>2, <1>4, <1>5, <1>6, <1>7, <1>8, <1>9

LEMMA MessagesDiffer ==
  ASSUME NEW s, Placed(s), Sound(s), NEW c, Asks(s, c, "messages"), Args(s, c)
  PROVE  Differs(s, c) <=> DemoMessages(s, c) # SqlMessages(s, c)
<1> USE DEF DemoMessages, SqlMessages, DemoMessageWrites, DemoMessageReads
<1>1. c.t = "messages" /\ Given(s, c) /\ IsStore(s)
  BY DEF Asks, Placed
<1>2. c.op \in {"Create", "CreateDraft", "Get", "MarkRead", "List", "UpdateTags", "ListByThread"}
  BY OpsOfTables DEF Asks
<1> DEFINE S == At(s, c)
<1>3. S \subseteq DOMAIN s /\ \A i \in S : s[i].t = c.t /\ IsRow(s[i])
  BY <1>1, AtFacts
<1>4. CASE c.op = "Create"
  BY <1>1, <1>4, NewDiffers DEF SqlCreateEmailMessage
<1>5. CASE c.op = "CreateDraft"
  BY <1>1, <1>5, NewDiffers DEF SqlCreateDraftEmailMessage
<1>6. CASE c.op \in {"Get", "List", "ListByThread"}
  BY <1>1, <1>6, NeverListed DEF SqlMessageReads
<1>7. CASE c.op = "MarkRead"
  BY <1>1, <1>7, NeverListed DEF SqlMarkEmailMessageRead, SqlExec, DemoSet
<1>8. CASE c.op = "UpdateTags"
  <2> DEFINE tags == [i \in DOMAIN s |-> c.tags]
             s2 == Tagged(s, S, tags)
  <2>1. \A i \in S : tags[i] = c.tags
    BY <1>3
  <2> HIDE DEF tags
  <2>2. DemoMessages(s, c) = DemoEdit(s, S, s2)
    BY <1>1, <1>8, <2>1 DEF DemoUpdate, DemoEdit, Tagged, Set
  <2>3. SqlMessages(s, c) = SqlEdit(s, S, s2, \A i \in S : Valid(s, i, [s[i] EXCEPT !.tags = tags[i]]))
    BY <1>1, <1>8, <2>1 DEF SqlUpdateEmailMessageTags, SqlUpdate, SqlEdit, Tagged, Set
  <2>4. \A i \in S : Valid(s, i, [s[i] EXCEPT !.tags = tags[i]])
    BY <1>3, TaggedIsValid
  <2> QED BY <1>8, <2>2, <2>3, <2>4, EditsDiffer, NeverListed
<1> QED BY <1>2, <1>4, <1>5, <1>6, <1>7, <1>8

LEMMA TemplatesDiffer ==
  ASSUME NEW s, Placed(s), Sound(s), NEW c, Asks(s, c, "templates"), Args(s, c)
  PROVE  Differs(s, c) <=> DemoTemplates(s, c) # SqlTemplates(s, c)
<1> USE DEF DemoTemplates, SqlTemplates
<1>1. c.t = "templates" /\ Given(s, c) /\ IsStore(s) /\ c.t \in Tables \cap Keyed
  BY DEF Asks, Placed, Tables, Keyed
<1>2. c.op \in {"Create", "GetByKey", "Update", "Delete", "List"}
  BY OpsOfTables DEF Asks
<1> DEFINE S == ByKey(s, c)
<1>3. S \subseteq DOMAIN s /\ S \subseteq Ids(s, c.t) /\ \A i \in S : s[i].t = c.t /\ IsRow(s[i])
  BY <1>1, AtFacts DEF ByKey
<1>4. CASE c.op = "Create"
  <2>1. c.refs \in Refs(s, c.t) /\ c.owner \in Owners(s, c.t)
    BY <1>1, <1>4 DEF Given, Args
  <2>2. DOMAIN c.refs = {}
    BY <1>1, <2>1 DEF Refs, Columns, References
  <2>3. c.owner # Unknown
    BY <1>1, <2>1 DEF Owners, OwnerRequired, Null, Unknown
  <2>4. ~NamesUnknown(c)
    BY <1>1, <2>2, <2>3, NamesOfCreate
  <2>5. ~Differs(s, c)
    BY <1>1, <1>4, <2>4, ListedCreate
  <2>6. Valid(s, c.id, New(c)) <=> S = {}
    BY <1>1, <1>4, <2>4, NewIsTaken
  <2>7. DemoTemplates(s, c) = SqlTemplates(s, c)
    BY <1>1, <1>4, <2>6 DEF SqlTemplateRows, SqlInsert, DemoPut
  <2> QED BY <2>5, <2>7
<1>5. CASE c.op = "Delete"
  <2>1. DemoTemplates(s, c) = DemoDelete(s, S) /\ SqlTemplates(s, c) = SqlDelete(s, S)
    BY <1>1, <1>5 DEF SqlTemplateRows
  <2>2. \A i \in DOMAIN s : c.t \notin References(s[i].t)
    BY <1>1, ReferredTables
  <2> HIDE DEF S
  <2>3. DemoDelete(s, S) = SqlDelete(s, S)
    BY <1>3, <2>2, DeletesDiffer
  <2>4. ~Differs(s, c)
    BY <1>5, <2>2, ListedDelete DEF IsReferred
  <2> QED BY <2>1, <2>3, <2>4
<1>6. CASE c.op \in {"GetByKey", "List"}
  BY <1>1, <1>6, NeverListed DEF SqlTemplateReads
<1>7. CASE c.op = "Update"
  <2> DEFINE s2 == Touched(s, S)
  <2>1. DemoTemplates(s, c) = DemoEdit(s, S, s2)
    BY <1>1, <1>7 DEF DemoUpdate, DemoEdit, Touched
  <2>2. SqlTemplates(s, c) = SqlEdit(s, S, s2, \A i \in S : Valid(s, i, Touch(s[i])))
    BY <1>1, <1>7 DEF SqlUpdateEmailTemplate, SqlUpdate, SqlEdit, Touched
  <2>3. \A i \in S : Valid(s, i, Touch(s[i]))
    BY <1>3, TouchedIsValid
  <2>4. ~Differs(s, c)
    BY <1>1, <1>7, ListedUpdate, PlainNamesNothing DEF Args
  <2> QED BY <2>1, <2>2, <2>3, <2>4, EditsDiffer
<1> QED BY <1>2, <1>4, <1>5, <1>6, <1>7

LEMMA WorkflowsDiffer ==
  ASSUME NEW s, Placed(s), Sound(s), NEW t \in {"workflows", "runs"}, NEW c, Asks(s, c, t), Args(s, c)
  PROVE  Differs(s, c) <=> DemoWorkflows(s, c) # SqlWorkflows(s, c)
<1> USE DEF DemoWorkflows, SqlWorkflows
<1>1. c.t = t /\ Given(s, c) /\ IsStore(s) /\ c.t \in Tables \cap Keyed
  BY DEF Asks, Placed, Tables, Keyed
<1>2. c.op \in {"Create", "GetByKey", "List", "UpdateStatus"}
  BY OpsOfTables DEF Asks
<1> DEFINE S == ByKey(s, c)
<1>3. S \subseteq DOMAIN s /\ \A i \in S : s[i].t = c.t /\ IsRow(s[i])
  BY <1>1, AtFacts
<1>4. CASE c.op = "Create"
  <2>1. Differs(s, c) <=> NamesUnknown(c) \/ S # {}
    BY <1>1, <1>4, ListedCreate
  <2>2. Valid(s, c.id, New(c)) <=> ~NamesUnknown(c) /\ S = {}
    BY <1>1, <1>4, NewIsTaken
  <2>3. DemoWorkflows(s, c) = DemoPut(s, c, New(c)) /\ SqlWorkflows(s, c) = SqlInsert(s, c, New(c))
    BY <1>1, <1>4 DEF SqlWorkflowCreates
  <2> HIDE DEF S
  <2>4. CASE S = {}
    <3>1. DemoPut(s, c, New(c)) = DemoInsert(s, c, New(c))
      BY <2>4 DEF S, DemoPut, DemoInsert
    <3> QED BY <2>1, <2>2, <2>3, <2>4, <3>1, InsertsDiffer
  <2>5. CASE S # {}
    <3>1. SqlInsert(s, c, New(c)) = Nothing(s, "error")
      BY <2>2, <2>5 DEF SqlInsert
    <3>2. \A i : Many(Put(s, i, New(c)), {i}) # Nothing(s, "error")
      BY ResultsDiffer DEF Many, Nothing
    <3>3. DemoPut(s, c, New(c)) # Nothing(s, "error")
      BY <3>2 DEF DemoPut
    <3> QED BY <2>1, <2>3, <2>5, <3>1, <3>3
  <2> QED BY <2>4, <2>5
<1>5. CASE c.op \in {"GetByKey", "List"}
  BY <1>1, <1>5, NeverListed DEF SqlWorkflowReads
<1>6. CASE c.op = "UpdateStatus"
  <2> DEFINE s2 == Stated(s, S, c.st)
  <2>1. DemoWorkflows(s, c) = DemoEdit(s, S, s2)
    BY <1>1, <1>6 DEF DemoUpdate, DemoEdit, Stated
  <2>2. SqlWorkflows(s, c) = SqlEdit(s, S, s2, \A i \in S : Valid(s, i, SetState(s[i], c.st)))
    BY <1>1, <1>6 DEF SqlUpdateWorkflowRunStatus, SqlUpdate, SqlEdit, Stated
  <2>3. \A i \in S : c.st \in StatesOf(s[i].t)
    BY <1>1, <1>3, <1>6 DEF Given, StatesOf
  <2>4. \A i \in S : Valid(s, i, SetState(s[i], c.st))
    BY <1>3, <2>3, StatedIsValid
  <2> QED BY <1>1, <1>6, <2>1, <2>2, <2>4, EditsDiffer, NeverListed
<1> QED BY <1>2, <1>4, <1>5, <1>6

LEMMA UsersDiffer ==
  ASSUME NEW s, Placed(s), Sound(s), NEW c, Asks(s, c, "users"), Args(s, c)
  PROVE  Differs(s, c) <=> DemoUsers(s, c) # SqlUsers(s, c)
<1> USE DEF DemoUsers, SqlUsers
<1>1. c.t = "users" /\ Given(s, c) /\ IsStore(s) /\ c.t \in Tables \cap Keyed
  BY DEF Asks, Placed, Tables, Keyed
<1>2. c.op \in {"Create", "Get", "Update", "IncrementTokenVersion", "GetByKey", "List", "UpdateStatus"}
  BY OpsOfTables DEF Asks
<1> DEFINE S == At(s, c)
           same == ByKey(s, c)
           alike == ByFold(s, "users", c.key)
<1>3. S \subseteq DOMAIN s /\ \A i \in S : s[i].t = c.t /\ IsRow(s[i])
  BY <1>1, AtFacts
<1>4. same \subseteq alike
  BY <1>1 DEF ByKey, ByFold
<1>5. CASE c.op = "Create"
  <2>1. c.refs \in Refs(s, c.t) /\ c.owner \in Owners(s, c.t)
    BY <1>1, <1>5 DEF Given, Args
  <2>2. DOMAIN c.refs = {}
    BY <1>1, <2>1 DEF Refs, Columns, References
  <2>3. c.owner # Unknown
    BY <1>1, <2>1 DEF Owners, OwnerRequired, Null, Unknown
  <2>4. ~NamesUnknown(c)
    BY <1>1, <2>2, <2>3, NamesOfCreate
  <2>5. Differs(s, c) <=> same = {} /\ alike # {}
    BY <1>1, <1>5, <2>4, ListedUser
  <2>6. Valid(s, c.id, New(c)) <=> same = {}
    BY <1>1, <1>5, <2>4, NewIsTaken
  <2>7. SqlUsers(s, c) = SqlInsert(s, c, New(c))
    BY <1>1, <1>5 DEF SqlCreateUser
  <2>8. DemoUsers(s, c) = IF alike # {} THEN Nothing(s, "error") ELSE DemoInsert(s, c, New(c))
    BY <1>1, <1>5 DEF DemoCreateUser
  <2>9. Many(Put(s, c.id, New(c)), {c.id}) # Nothing(s, "error")
    BY ResultsDiffer DEF Many, Nothing
  <2> HIDE DEF same, alike
  <2>10. CASE alike = {}
    <3>1. ~Differs(s, c) /\ Valid(s, c.id, New(c))
      BY <1>4, <2>5, <2>6, <2>10
    <3>2. DemoUsers(s, c) = SqlUsers(s, c)
      BY <2>7, <2>8, <2>10, <3>1, InsertsDiffer
    <3> QED BY <3>1, <3>2
  <2>11. CASE alike # {}
    <3>1. DemoUsers(s, c) = Nothing(s, "error")
      BY <2>8, <2>11
    <3>2. SqlUsers(s, c) = IF same = {} THEN Many(Put(s, c.id, New(c)), {c.id}) ELSE Nothing(s, "error")
      BY <2>6, <2>7 DEF SqlInsert
    <3> QED BY <2>5, <2>9, <2>11, <3>1, <3>2
  <2> QED BY <2>10, <2>11
<1>6. CASE c.op = "GetByKey"
  <2> DEFINE legacy == ByFold(s, "users", "a")
             found == IF alike = {} /\ c.key = "legacy" THEN legacy ELSE alike
  <2>1. DemoUsers(s, c) = One(s, found) /\ SqlUsers(s, c) = One(s, same)
    BY <1>1, <1>6 DEF DemoGetUserByEmail, SqlUserReads
  <2>2. Differs(s, c) <=> alike # same \/ (c.key = "legacy" /\ same = {} /\ legacy # {})
    BY <1>1, <1>6 DEF Differs, Writes
  <2> HIDE DEF same, alike, legacy
  <2>3. Differs(s, c) <=> found # same
    BY <1>4, <2>2
  <2> HIDE DEF found
  <2> QED BY <2>1, <2>3, ReadsDiffer
<1>7. CASE c.op \in {"Get", "List"}
  BY <1>1, <1>7, NeverListed DEF DemoUserReads, SqlUserReads, SqlListUsers
<1>8. CASE c.op \in {"Update", "UpdateStatus"}
  <2> DEFINE s2 == Set(s, S, LAMBDA r : IF c.op = "UpdateStatus" THEN SetState(r, c.st) ELSE Touch(r))
  <2>1. DemoUsers(s, c) = IF S = {} THEN Nothing(s, "none") ELSE Nothing(s2, "ok")
    BY <1>1, <1>8 DEF DemoUserUpdates, DemoSet
  <2>2. SqlUsers(s, c) = Nothing(s2, "ok")
    BY <1>1, <1>8 DEF SqlUserUpdates, SqlExec
  <2>3. Differs(s, c) <=> (NamesUnknown(c) /\ c.op = "Update" /\ S # {}) \/ S = {}
    BY <1>1, <1>8 DEF Differs, Writes
  <2>4. c.op = "Update" => ~NamesUnknown(c)
    BY <1>1, PlainNamesNothing DEF Args
  <2> HIDE DEF s2, S
  <2>5. Nothing(s, "none") # Nothing(s2, "ok")
    BY ResultsDiffer DEF Nothing
  <2> QED BY <2>1, <2>2, <2>3, <2>4, <2>5
<1>9. CASE c.op = "IncrementTokenVersion"
  <2> DEFINE s2 == Touched(s, S)
  <2>1. DemoUsers(s, c) = DemoEdit(s, S, s2)
    BY <1>1, <1>9 DEF DemoIncrementUserTokenVersion, DemoUpdate, DemoEdit, Touched
  <2>2. SqlUsers(s, c) = SqlEdit(s, S, s2, \A i \in S : Valid(s, i, Touch(s[i])))
    BY <1>1, <1>9 DEF SqlIncrementUserTokenVersion, SqlUpdate, SqlEdit, Touched
  <2>3. \A i \in S : Valid(s, i, Touch(s[i]))
    BY <1>3, TouchedIsValid
  <2> QED BY <1>9, <2>1, <2>2, <2>3, EditsDiffer, NeverListed
<1> QED BY <1>2, <1>5, <1>6, <1>7, <1>8, <1>9

\* Hashes are never repeated.
LEMMA HashIsNew ==
  ASSUME NEW s, NEW c, c.key \in Hashes(s, c.t)
  PROVE  ByKey(s, c) = {}
  BY DEF Hashes, ByKey, Ids

LEMMA TokensDiffer ==
  ASSUME NEW s, Placed(s), Sound(s), NEW c, Asks(s, c, "tokens"), Args(s, c)
  PROVE  Differs(s, c) <=> DemoTokens(s, c) # SqlTokens(s, c)
<1> USE DEF DemoTokens, SqlTokens
<1>1. c.t = "tokens" /\ Given(s, c) /\ IsStore(s) /\ c.t \in Tables \cap Keyed
  BY DEF Asks, Placed, Tables, Keyed
<1>2. c.op \in {"Create", "Get", "GetByHash", "Consume", "Delete", "DeleteOfUser", "DeleteExpired",
               "DeleteFamily"}
  BY OpsOfTables DEF Asks
<1>3. ByKey(s, c) \subseteq DOMAIN s /\ \A i \in ByKey(s, c) : s[i].t = c.t /\ IsRow(s[i])
  BY <1>1, AtFacts
<1>4. CASE c.op = "Create"
  <2>1. ByKey(s, c) = {}
    BY <1>1, <1>4, HashIsNew DEF Given, NewKeys
  <2>2. Differs(s, c) <=> NamesUnknown(c)
    BY <1>1, <1>4, ListedCreate
  <2>3. Valid(s, c.id, New(c)) <=> ~NamesUnknown(c)
    BY <1>1, <1>4, <2>1, NewIsTaken
  <2>4. DemoTokens(s, c) = DemoInsert(s, c, New(c)) /\ SqlTokens(s, c) = SqlInsert(s, c, New(c))
    BY <1>1, <1>4, <2>1 DEF DemoPut, DemoInsert, SqlCreateRefreshToken
  <2> QED BY <2>2, <2>3, <2>4, InsertsDiffer
<1>5. CASE c.op \in {"Get", "GetByHash"}
  BY <1>1, <1>5, NeverListed DEF DemoTokenReads, SqlTokenReads
<1>6. CASE c.op = "Consume"
  <2> DEFINE S == {i \in ByKey(s, c) : s[i].st = "fresh"}
             s2 == Stated(s, S, "used")
  <2>1. \A i \in ByKey(s, c) : s[i].st \in {"fresh", "used", "expired", "spent"}
    BY <1>1, <1>3 DEF IsRow, StatesOf, States
  <2>2. {i \in ByKey(s, c) : s[i].st \notin {"used", "spent", "expired"}} = S
    BY <2>1
  <2>3. DemoTokens(s, c) = DemoEdit(s, S, s2)
    BY <1>1, <1>6, <2>2 DEF DemoConsumeRefreshToken, DemoUpdate, DemoEdit, Stated
  <2>4. SqlTokens(s, c) = SqlEdit(s, S, s2, \A i \in S : Valid(s, i, SetState(s[i], "used")))
    BY <1>1, <1>6 DEF SqlConsumeRefreshToken, SqlUpdate, SqlEdit, Stated
  <2>5. \A i \in S : "used" \in StatesOf(s[i].t)
    BY <1>1, <1>3 DEF StatesOf
  <2>6. S \subseteq DOMAIN s
    BY <1>3
  <2> HIDE DEF S
  <2>7. \A i \in S : Valid(s, i, SetState(s[i], "used"))
    BY <2>5, <2>6, StatedIsValid
  <2> HIDE DEF s2
  <2> QED BY <1>6, <2>3, <2>4, <2>7, EditsDiffer, NeverListed
<1>7. CASE c.op \in {"Delete", "DeleteOfUser", "DeleteExpired", "DeleteFamily"}
  <2>1. \A i \in DOMAIN s : c.t \notin References(s[i].t)
    BY <1>1, ReferredTables
  <2>2. ~Differs(s, c)
    BY <1>7, <2>1, ListedDelete, NeverListed DEF IsReferred
  <2>3. \A S \in SUBSET Ids(s, c.t) : DemoDelete(s, S) = SqlDelete(s, S)
    BY <2>1, DeletesDiffer
  <2>4. PICK S \in SUBSET Ids(s, c.t) : DemoTokens(s, c) = DemoDelete(s, S) /\ SqlTokens(s, c) = SqlDelete(s, S)
    <3>1. CASE c.op = "Delete"
      <4>1. DemoTokens(s, c) = DemoDelete(s, ByKey(s, c)) /\ SqlTokens(s, c) = SqlDelete(s, ByKey(s, c))
        BY <1>1, <3>1 DEF DemoTokenDeletes, SqlTokenDeletes
      <4> QED BY <4>1 DEF ByKey
    <3>2. CASE c.op = "DeleteOfUser"
      <4>1. \A i \in TokensOf(s, c) : s[i].owner \in Ids(s, "users")
        BY <1>1 DEF TokensOf, Ids, Sound, Valid, ReferencesHold, OwnerRequired
      <4>2. {i \in TokensOf(s, c) : c.owner # Null} = TokensOf(s, c)
        BY <4>1 DEF TokensOf, Ids, Placed, Null
      <4>3. DemoTokens(s, c) = DemoDelete(s, TokensOf(s, c)) /\ SqlTokens(s, c) = SqlDelete(s, TokensOf(s, c))
        BY <1>1, <3>2, <4>2 DEF DemoTokenDeletes, SqlTokenDeletes
      <4> QED BY <4>3 DEF TokensOf
    <3>3. CASE c.op = "DeleteFamily"
      <4>1. {i \in FamilyOf(s, c) : c.id # Null} = FamilyOf(s, c)
        BY <3>3 DEF Args
      <4>2. DemoTokens(s, c) = DemoDelete(s, FamilyOf(s, c)) /\ SqlTokens(s, c) = SqlDelete(s, FamilyOf(s, c))
        BY <1>1, <3>3, <4>1 DEF DemoTokenDeletes, SqlTokenDeletes
      <4> QED BY <4>2 DEF FamilyOf
    <3>4. CASE c.op = "DeleteExpired"
      <4> DEFINE old == {i \in Ids(s, c.t) : s[i].st \in {"expired", "spent"}}
      <4>1. DemoTokens(s, c) = DemoDelete(s, old) /\ SqlTokens(s, c) = SqlDelete(s, old)
        BY <1>1, <3>4 DEF DemoTokenDeletes, SqlTokenDeletes
      <4> QED BY <4>1
    <3> QED BY <1>7, <3>1, <3>2, <3>3, <3>4
  <2> QED BY <2>2, <2>3, <2>4
<1> QED BY <1>2, <1>4, <1>5, <1>6, <1>7

LEMMA CreateInvitedDiffers ==
  ASSUME NEW s, Placed(s), NEW c, c.t = "invites", c.op = "CreateInvited", Given(s, c)
  PROVE  Differs(s, c) <=> DemoCreateInvitedUser(s, c) # SqlCreateInvitedUser(s, c)
<1> DEFINE both == Put(Put(s, c.id, InvitedUser(c)), c.id + 1, InviteOf(c))
           alike == ByFold(s, "users", c.email)
           free == \A u \in Ids(s, "users") : s[u].key # c.email
<1>1. c.id = next /\ c.refs = << >> /\ ByKey(s, c) = {}
  BY HashIsNew DEF Given
<1>2. /\ InvitedUser(c).t = "users" /\ InvitedUser(c).key = c.email /\ InvitedUser(c).owner = Null
      /\ InviteOf(c).t = "invites" /\ InviteOf(c).key = c.key
  BY <1>1, InviteRows
<1>3. next \notin DOMAIN s
  BY DEF Placed
<1>4. Valid(s, c.id, InvitedUser(c)) <=> free
  <2>1. References("users") = {}
    BY DEF References
  <2>2. ReferencesHold(s, InvitedUser(c))
    BY <1>2, <2>1 DEF ReferencesHold, OwnerRequired
  <2>3. KeyIsFree(s, c.id, InvitedUser(c)) <=> free
    BY <1>1, <1>2, <1>3 DEF KeyIsFree, Keyed, Ids
  <2> QED BY <2>2, <2>3 DEF Valid
<1>5. KeyIsFree(s, c.id + 1, InviteOf(c))
  BY <1>1, <1>2 DEF KeyIsFree, ByKey
<1>6. Differs(s, c) <=> alike # {} /\ free
  BY DEF Differs, Writes
<1>7. DemoCreateInvitedUser(s, c) = IF alike # {} THEN Nothing(s, "error") ELSE Many(both, {c.id + 1})
  BY <1>1 DEF DemoCreateInvitedUser
<1>8. SqlCreateInvitedUser(s, c) = IF free THEN Many(both, {c.id + 1}) ELSE Nothing(s, "error")
  BY <1>4, <1>5 DEF SqlCreateInvitedUser
<1>9. alike = {} => free
  BY DEF ByFold
<1>10. Many(both, {c.id + 1}) # Nothing(s, "error")
  BY ResultsDiffer DEF Many, Nothing
<1> HIDE DEF both, alike, free
<1>11. CASE alike = {}
  BY <1>6, <1>7, <1>8, <1>9, <1>11
<1>12. CASE alike # {}
  BY <1>6, <1>7, <1>8, <1>10, <1>12
<1> QED BY <1>11, <1>12

\* A pending invite has its user.
LEMMA AcceptAgrees ==
  ASSUME NEW s, Sound(s), NEW c, c.t = "invites"
  PROVE  DemoAcceptUserInvite(s, c) = SqlAcceptUserInvite(s, c)
<1> DEFINE locked == {i \in ByKey(s, c) : s[i].st = "pending"}
           users == {u \in Ids(s, "users") : \E i \in locked : s[i].owner = u}
           consumed == Set(s, locked, LAMBDA r : SetState(r, "consumed"))
           demo == Set(consumed, users, LAMBDA r : SetState(r, "ACTIVE"))
           sql == Set(s, locked \cup users,
                      LAMBDA r : SetState(r, IF r.t = "users" THEN "ACTIVE" ELSE "consumed"))
<1>1. IsStore(s) /\ locked \subseteq DOMAIN s /\ \A i \in locked : s[i].t = "invites"
  BY DEF Sound, ByKey, Ids
<1>2. users \subseteq DOMAIN s /\ \A i \in users : s[i].t = "users"
  BY DEF Ids
<1>3. \A i \in locked : s[i].owner \in Ids(s, "users")
  BY <1>1 DEF Sound, Valid, ReferencesHold, OwnerRequired
<1>4. locked = {} <=> users = {}
  BY <1>3
<1>5. DemoAcceptUserInvite(s, c) = IF locked = {} THEN Nothing(s, "none")
                                   ELSE IF users = {} THEN Nothing(consumed, "none") ELSE Many(demo, users)
  BY DEF DemoAcceptUserInvite, DemoUpdate
<1>6. SqlAcceptUserInvite(s, c) = IF users = {} THEN Nothing(sql, "none") ELSE Many(sql, users)
  BY DEF SqlAcceptUserInvite, One
<1>7. demo = sql
  BY <1>1, <1>2 DEF Set
<1>8. locked = {} => sql = s
  BY <1>1, <1>4 DEF Set, IsStore
<1> HIDE DEF locked, users, consumed, demo, sql
<1> QED BY <1>4, <1>5, <1>6, <1>7, <1>8

LEMMA InvitesDiffer ==
  ASSUME NEW s, Placed(s), Sound(s), NEW c, Asks(s, c, "invites"), Args(s, c)
  PROVE  Differs(s, c) <=> DemoInvites(s, c) # SqlInvites(s, c)
<1> USE DEF DemoInvites, SqlInvites, DemoInviteRows
<1>1. c.t = "invites" /\ Given(s, c) /\ c.t \in Tables \cap Keyed
  BY DEF Asks, Tables, Keyed
<1>2. c.op \in {"Create", "CreateInvited", "Revoke", "GetByKey", "Accept", "List"}
  BY OpsOfTables DEF Asks
<1>3. CASE c.op = "Create"
  <2>1. ByKey(s, c) = {}
    BY <1>1, <1>3, HashIsNew DEF Given, NewKeys
  <2>2. Differs(s, c) <=> NamesUnknown(c)
    BY <1>1, <1>3, ListedCreate
  <2>3. Valid(s, c.id, New(c)) <=> ~NamesUnknown(c)
    BY <1>1, <1>3, <2>1, NewIsTaken
  <2>4. DemoInvites(s, c) = DemoInsert(s, c, New(c)) /\ SqlInvites(s, c) = SqlInsert(s, c, New(c))
    BY <1>1, <1>3, <2>1 DEF SqlCreateUserInvite
  <2> QED BY <2>2, <2>3, <2>4, InsertsDiffer
<1>4. CASE c.op = "CreateInvited"
  BY <1>1, <1>4, CreateInvitedDiffers
<1>5. CASE c.op = "Accept"
  BY <1>1, <1>5, AcceptAgrees, NeverListed
<1>6. CASE c.op = "Revoke"
  BY <1>1, <1>6, NeverListed DEF SqlRevokeUserInvite, SqlExec, DemoSet
<1>7. CASE c.op \in {"GetByKey", "List"}
  BY <1>1, <1>7, NeverListed DEF SqlInviteReads
<1> QED BY <1>2, <1>3, <1>4, <1>5, <1>6, <1>7

-----------------------------------------------------------------------------
LEMMA CallDiffers ==
  ASSUME NEW s, Placed(s), Sound(s), NEW t \in Tables, NEW c \in CallsOn(s, t)
  PROVE  Differs(s, c) <=> DemoCall(s, c) # SqlCall(s, c)
<1>1. Asks(s, c, t) /\ c.t = t
  BY CallShape DEF Asks, Shaped, Ops
<1>2. Args(s, c)
  BY CallArgs
<1>3. CASE t = "users"
  BY <1>1, <1>2, <1>3, UsersDiffer DEF DemoCall, SqlCall
<1>4. CASE t = "invites"
  BY <1>1, <1>2, <1>4, InvitesDiffer DEF DemoCall, SqlCall
<1>5. CASE t = "tokens"
  BY <1>1, <1>2, <1>5, TokensDiffer DEF DemoCall, SqlCall
<1>6. CASE t = "notifications"
  BY <1>1, <1>2, <1>6, NotificationsDiffer DEF DemoCall, SqlCall
<1>7. CASE t = "audit"
  BY <1>1, <1>2, <1>7, AuditDiffers DEF DemoCall, SqlCall
<1>8. CASE t = "companies"
  BY <1>1, <1>2, <1>8, CompaniesDiffer DEF DemoCall, SqlCall
<1>9. CASE t = "contacts"
  BY <1>1, <1>2, <1>9, ContactsDiffer DEF DemoCall, SqlCall
<1>10. CASE t = "deals"
  BY <1>1, <1>2, <1>10, DealsDiffer DEF DemoCall, SqlCall
<1>11. CASE t = "todos"
  BY <1>1, <1>2, <1>11, TodosDiffer DEF DemoCall, SqlCall
<1>12. CASE t = "appointments"
  BY <1>1, <1>2, <1>12, AppointmentsDiffer DEF DemoCall, SqlCall
<1>13. CASE t = "notes"
  BY <1>1, <1>2, <1>13, NotesDiffer DEF DemoCall, SqlCall
<1>14. CASE t = "calls"
  BY <1>1, <1>2, <1>14, CallsDiffer DEF DemoCall, SqlCall
<1>15. CASE t = "articles"
  BY <1>1, <1>2, <1>15, ArticlesDiffer DEF DemoCall, SqlCall
<1>16. CASE t = "jobs"
  BY <1>1, <1>2, <1>16, JobsDiffer DEF DemoCall, SqlCall
<1>17. CASE t \in {"workflows", "runs"}
  BY <1>1, <1>2, <1>17, WorkflowsDiffer DEF DemoCall, SqlCall
<1>18. CASE t = "templates"
  BY <1>1, <1>2, <1>18, TemplatesDiffer DEF DemoCall, SqlCall
<1>19. CASE t = "accounts"
  BY <1>1, <1>2, <1>19, AccountsDiffer DEF DemoCall, SqlCall
<1>20. CASE t = "messages"
  BY <1>1, <1>2, <1>20, MessagesDiffer DEF DemoCall, SqlCall
<1>21. CASE t = "attachments"
  BY <1>1, <1>2, <1>21, AttachmentsDiffer DEF DemoCall, SqlCall
<1> QED BY <1>3, <1>4, <1>5, <1>6, <1>7, <1>8, <1>9, <1>10, <1>11, <1>12, <1>13, <1>14, <1>15, <1>16,
           <1>17, <1>18, <1>19, <1>20, <1>21 DEF Tables

\* When the demo store refuses a call whose columns may not fit.
LEMMA DemoRefusesItself ==
  ASSUME NEW s, NEW t \in Tables, NEW c, Asks(s, c, t), MayMisfit(c) \/ MayBeForeign(c)
  PROVE  IF DemoRefuses(s, c) THEN DemoCall(s, c) = Nothing(s, "error") ELSE DemoCall(s, c).is # "error"
<1> USE DEF DemoInsert, DemoPut, DemoUpdate, DemoSet, Many, Nothing, Result
<1>1. c.t = t /\ c.op \in Ops(t)
  BY DEF Asks
<1>2. CASE t = "users"
  <2>1. c.op \in {"Create", "Update", "UpdateStatus"}
    BY <1>1, <1>2, OpsOfTables DEF MayMisfit, MayBeForeign, Inserts
  <2>2. DemoCall(s, c) = DemoUsers(s, c) /\ (DemoRefuses(s, c) <=> c.op = "Create" /\ ByFold(s, c.t, c.key) # {})
    BY <1>1, <1>2, <2>1 DEF DemoCall, DemoRefuses
  <2> QED BY <2>1, <2>2 DEF DemoUsers, DemoCreateUser, DemoUserUpdates
<1>3. CASE t = "invites"
  <2>1. c.op = "CreateInvited"
    BY <1>1, <1>3, OpsOfTables DEF MayMisfit, MayBeForeign, Inserts
  <2>2. DemoCall(s, c) = DemoCreateInvitedUser(s, c)
    BY <1>1, <1>3, <2>1 DEF DemoCall, DemoInvites
  <2>3. DemoRefuses(s, c) <=> ByFold(s, "users", c.email) # {} \/ ByKey(s, c) # {}
    BY <1>1, <1>3, <2>1 DEF DemoRefuses
  <2> QED BY <2>2, <2>3 DEF DemoCreateInvitedUser
<1>4. CASE t = "tokens"
  <2>1. c.op \in {"Create"}
    BY <1>1, <1>4, OpsOfTables DEF MayMisfit, MayBeForeign, Inserts
  <2>2. DemoCall(s, c) = DemoTokens(s, c) /\ ~DemoRefuses(s, c)
    BY <1>1, <1>4, <2>1 DEF DemoCall, DemoRefuses
  <2> QED BY <2>1, <2>2 DEF DemoTokens
<1>5. CASE t = "notifications"
  <2>1. c.op \in {"Create"}
    BY <1>1, <1>5, OpsOfTables DEF MayMisfit, MayBeForeign, Inserts
  <2>2. DemoCall(s, c) = DemoNotifications(s, c) /\ ~DemoRefuses(s, c)
    BY <1>1, <1>5, <2>1 DEF DemoCall, DemoRefuses
  <2> QED BY <2>1, <2>2 DEF DemoNotifications
<1>6. CASE t = "audit"
  <2>1. c.op \in {"Create"}
    BY <1>1, <1>6, OpsOfTables DEF MayMisfit, MayBeForeign, Inserts
  <2>2. DemoCall(s, c) = DemoAudit(s, c) /\ ~DemoRefuses(s, c)
    BY <1>1, <1>6, <2>1 DEF DemoCall, DemoRefuses
  <2> QED BY <2>1, <2>2 DEF DemoAudit
<1>7. CASE t = "companies"
  <2>1. c.op \in {"Create", "Update"}
    BY <1>1, <1>7, OpsOfTables DEF MayMisfit, MayBeForeign, Inserts
  <2>2. DemoCall(s, c) = DemoCompanies(s, c) /\ ~DemoRefuses(s, c)
    BY <1>1, <1>7, <2>1 DEF DemoCall, DemoRefuses
  <2> QED BY <2>1, <2>2 DEF DemoCompanies, DemoCompanyRows, DemoCompanyUpdates
<1>8. CASE t = "contacts"
  <2>1. c.op \in {"Create", "Update"}
    BY <1>1, <1>8, OpsOfTables DEF MayMisfit, MayBeForeign, Inserts
  <2>2. DemoCall(s, c) = DemoContacts(s, c) /\ ~DemoRefuses(s, c)
    BY <1>1, <1>8, <2>1 DEF DemoCall, DemoRefuses
  <2> QED BY <2>1, <2>2 DEF DemoContacts, DemoContactRows
<1>9. CASE t = "deals"
  <2>1. c.op \in {"Create", "Update", "UpdateStage"}
    BY <1>1, <1>9, OpsOfTables DEF MayMisfit, MayBeForeign, Inserts
  <2>2. DemoCall(s, c) = DemoDeals(s, c) /\ ~DemoRefuses(s, c)
    BY <1>1, <1>9, <2>1 DEF DemoCall, DemoRefuses
  <2> QED BY <2>1, <2>2 DEF DemoDeals, DemoDealRows, DemoDealUpdates
<1>10. CASE t = "todos"
  <2>1. c.op \in {"Create", "Update", "UpdateStatus"}
    BY <1>1, <1>10, OpsOfTables DEF MayMisfit, MayBeForeign, Inserts
  <2>2. DemoCall(s, c) = DemoTodos(s, c) /\ ~DemoRefuses(s, c)
    BY <1>1, <1>10, <2>1 DEF DemoCall, DemoRefuses
  <2> QED BY <2>1, <2>2 DEF DemoTodos
<1>11. CASE t = "appointments"
  <2>1. c.op \in {"Create", "Update"}
    BY <1>1, <1>11, OpsOfTables DEF MayMisfit, MayBeForeign, Inserts
  <2>2. DemoCall(s, c) = DemoAppointments(s, c) /\ ~DemoRefuses(s, c)
    BY <1>1, <1>11, <2>1 DEF DemoCall, DemoRefuses
  <2> QED BY <2>1, <2>2 DEF DemoAppointments
<1>12. CASE t = "notes"
  <2>1. c.op \in {"Create", "Update"}
    BY <1>1, <1>12, OpsOfTables DEF MayMisfit, MayBeForeign, Inserts
  <2>2. DemoCall(s, c) = DemoNotes(s, c) /\ ~DemoRefuses(s, c)
    BY <1>1, <1>12, <2>1 DEF DemoCall, DemoRefuses
  <2> QED BY <2>1, <2>2 DEF DemoNotes
<1>13. CASE t = "calls"
  <2>1. c.op \in {"Create"}
    BY <1>1, <1>13, OpsOfTables DEF MayMisfit, MayBeForeign, Inserts
  <2>2. DemoCall(s, c) = DemoCalls(s, c) /\ ~DemoRefuses(s, c)
    BY <1>1, <1>13, <2>1 DEF DemoCall, DemoRefuses
  <2> QED BY <2>1, <2>2 DEF DemoCalls
<1>14. CASE t = "articles"
  <2>1. c.op \in {"Create", "UpdateStatus"}
    BY <1>1, <1>14, OpsOfTables DEF MayMisfit, MayBeForeign, Inserts
  <2>2. DemoCall(s, c) = DemoArticles(s, c) /\ ~DemoRefuses(s, c)
    BY <1>1, <1>14, <2>1 DEF DemoCall, DemoRefuses
  <2> QED BY <2>1, <2>2 DEF DemoArticles
<1>15. CASE t = "jobs"
  <2>1. c.op \in {"Create", "UpdateStatus"}
    BY <1>1, <1>15, OpsOfTables DEF MayMisfit, MayBeForeign, Inserts
  <2>2. DemoCall(s, c) = DemoJobs(s, c) /\ ~DemoRefuses(s, c)
    BY <1>1, <1>15, <2>1 DEF DemoCall, DemoRefuses
  <2> QED BY <2>1, <2>2 DEF DemoJobs
<1>16. CASE t = "workflows"
  <2>1. c.op \in {"Create"}
    BY <1>1, <1>16, OpsOfTables DEF MayMisfit, MayBeForeign, Inserts
  <2>2. DemoCall(s, c) = DemoWorkflows(s, c) /\ ~DemoRefuses(s, c)
    BY <1>1, <1>16, <2>1 DEF DemoCall, DemoRefuses
  <2> QED BY <2>1, <2>2 DEF DemoWorkflows
<1>17. CASE t = "runs"
  <2>1. c.op \in {"Create", "UpdateStatus"}
    BY <1>1, <1>17, OpsOfTables DEF MayMisfit, MayBeForeign, Inserts
  <2>2. DemoCall(s, c) = DemoWorkflows(s, c) /\ ~DemoRefuses(s, c)
    BY <1>1, <1>17, <2>1 DEF DemoCall, DemoRefuses
  <2> QED BY <2>1, <2>2 DEF DemoWorkflows
<1>18. CASE t = "templates"
  <2>1. c.op \in {"Create", "Update"}
    BY <1>1, <1>18, OpsOfTables DEF MayMisfit, MayBeForeign, Inserts
  <2>2. DemoCall(s, c) = DemoTemplates(s, c) /\ (DemoRefuses(s, c) <=> c.op = "Create" /\ ByKey(s, c) # {})
    BY <1>1, <1>18, <2>1 DEF DemoCall, DemoRefuses
  <2> QED BY <2>1, <2>2 DEF DemoTemplates
<1>19. CASE t = "accounts"
  <2>1. c.op \in {"Create", "Update"}
    BY <1>1, <1>19, OpsOfTables DEF MayMisfit, MayBeForeign, Inserts
  <2>2. DemoCall(s, c) = DemoAccounts(s, c) /\ ~DemoRefuses(s, c)
    BY <1>1, <1>19, <2>1 DEF DemoCall, DemoRefuses
  <2> QED BY <2>1, <2>2 DEF DemoAccounts, DemoAccountWrites
<1>20. CASE t = "messages"
  <2>1. c.op \in {"Create", "CreateDraft"}
    BY <1>1, <1>20, OpsOfTables DEF MayMisfit, MayBeForeign, Inserts
  <2>2. DemoCall(s, c) = DemoMessages(s, c) /\ ~DemoRefuses(s, c)
    BY <1>1, <1>20, <2>1 DEF DemoCall, DemoRefuses
  <2> QED BY <2>1, <2>2 DEF DemoMessages, DemoMessageWrites
<1>21. CASE t = "attachments"
  <2>1. c.op \in {"Create"}
    BY <1>1, <1>21, OpsOfTables DEF MayMisfit, MayBeForeign, Inserts
  <2>2. DemoCall(s, c) = DemoAttachments(s, c) /\ ~DemoRefuses(s, c)
    BY <1>1, <1>21, <2>1 DEF DemoCall, DemoRefuses
  <2> QED BY <2>1, <2>2 DEF DemoAttachments
<1> QED BY <1>2, <1>3, <1>4, <1>5, <1>6, <1>7, <1>8, <1>9, <1>10, <1>11, <1>12, <1>13,
          <1>14, <1>15, <1>16, <1>17, <1>18, <1>19, <1>20, <1>21 DEF Tables

\* Every call with every value of its columns.
LEMMA AnswerDiffers ==
  ASSUME NEW s, Placed(s), Sound(s), NEW t \in Tables, NEW c \in CallsOn(s, t), NEW v \in Values(c)
  PROVE  DiffersOn(s, c, v) <=> DemoCall(s, c) # SqlAnswer(s, c, v)
<1>1. Asks(s, c, t)
  BY CallShape DEF Asks, Shaped, Ops
<1>2. CASE SqlRefuses(s, c, v)
  <2>1. MayMisfit(c) \/ MayBeForeign(c)
    BY <1>2 DEF SqlRefuses, Values
  <2>2. DemoCall(s, c) = Nothing(s, "error") <=> DemoRefuses(s, c)
    BY <1>1, <2>1, DemoRefusesItself DEF Nothing, Result
  <2> QED BY <1>2, <2>2 DEF DiffersOn, SqlAnswer
<1>3. CASE ~SqlRefuses(s, c, v)
  BY <1>3, CallDiffers DEF DiffersOn, SqlAnswer
<1> QED BY <1>2, <1>3

\* On every store PostgreSQL could hold, whatever rows are in it, each call
\* of the services is answered by the demo store as PostgreSQL answers it
\* and leaves the same rows, except for exactly the calls DiffersOn lists:
\* a column that does not fit, an unknown reference or owner, a repeated
\* Message-ID, workflow or run id, an address in other capitals, an update
\* of what is not there, a deletion of what is referred to, inactive
\* accounts, an empty audit log, an entity type in other capitals.
THEOREM StoresDifferOnlyWhereListed ==
  Spec => []DiffersExactlyWhereListed
<1>1. IInv => DiffersExactlyWhereListed
  <2> SUFFICES ASSUME IInv, ~strayed, NEW c \in Calls(rows), NEW v \in Values(c)
               PROVE  DiffersOn(rows, c, v) <=> DemoCall(rows, c) # SqlAnswer(rows, c, v)
    BY DEF DiffersExactlyWhereListed
  <2>1. Placed(rows) /\ Sound(rows)
    BY DEF IInv, StoreInv
  <2>2. \E t \in Tables : c \in CallsOn(rows, t)
    BY CallOfScope DEF IInv
  <2> QED BY <2>1, <2>2, AnswerDiffers
<1> QED BY Invariant, <1>1, PTL
=============================================================================
