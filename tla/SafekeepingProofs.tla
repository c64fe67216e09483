------------------------- MODULE SafekeepingProofs --------------------------
(***************************************************************************)
(* Proofs about three small components that the others rely on: the audit  *)
(* log, the master key and the accounts of the administrators.  They share *)
(* no state; each part is about one of the modules the module extends.  No *)
(* theorem assumes more than the constants' assumptions.                   *)
(***************************************************************************)
EXTENDS AuditChain, MasterKey, Accounts, SequenceTheorems, TLAPS

(***************************************************************************)
(* The audit log, for any number of writers, any entries, any way of       *)
(* joining columns and of storing JSON, and a log of any length.  Whoever  *)
(* has read the newest hash and was overtaken by nobody since still holds  *)
(* the newest hash (Undoubted); so a row that continues anything else has  *)
(* a cause that the history knows.                                         *)
(***************************************************************************)
Undoubted ==
    \A w \in Writers : pending[w].busy /\ pending[w].doubt = {} =>
        IsLatest(rows, Len(rows), pending[w].prev)

(* Row k is the first chained one after row i.                             *)
Follows(rs, i, k) ==
    /\ i < k /\ rs[k].chained
    /\ \A m \in (i + 1)..(k - 1) : ~rs[m].chained

(* A chained row with later ones has a first one after it.                 *)
Linked(rs) ==
    \A i, j \in 1..Len(rs) : i < j /\ rs[i].chained /\ rs[j].chained =>
        \E k \in 1..Len(rs) : Follows(rs, i, k)

ChainInv == ChainTypeOK /\ Undoubted /\ AlarmsHaveCauses /\ Linked(rows)

-----------------------------------------------------------------------------
LEMMA StoredTyped == \A t \in Texts : Stored[t] \in Texts
  BY AuditAssumption

LEMMA GenesisTyped == GenesisHash \in Hash
  BY DEF GenesisHash, Hash

LEMMA NoEntryTyped == NoEntry \in Entry
  BY AuditAssumption, GenesisTyped DEF NoEntry, Entry, Doubts

LEMMA HashTyped == \A h \in Hash, t \in Texts : ComputeAuditHash(h, t) \in Hash
  BY DEF ComputeAuditHash, Hash

(* What CreateAuditLog inserts for writer w.                               *)
NewRow(w) ==
    [chained |-> TRUE, prev |-> pending[w].prev, text |-> Stored[pending[w].text],
     hash |-> ComputeAuditHash(pending[w].prev, pending[w].text)]

LEMMA NewRowTyped ==
  ASSUME ChainTypeOK, NEW w \in Writers, CreateAuditLog(w)
  PROVE  NewRow(w) \in Row /\ rows' = Append(rows, NewRow(w)) /\ Len(rows) < MaxRows
<1>1. pending[w] \in Entry
  BY DEF ChainTypeOK
<1>2. NewRow(w) \in Row
  BY <1>1, StoredTyped, HashTyped DEF NewRow, Entry, Row
<1> QED BY <1>2 DEF CreateAuditLog, NewRow

LEMMA PlainRowTyped == \A t \in Texts : Unchained(Stored[t]) \in Row /\ ~Unchained(Stored[t]).chained
  BY StoredTyped, GenesisTyped DEF Unchained, Row

LEMMA PendingTyped ==
  ASSUME ChainTypeOK, NEW w \in Writers, CreateAuditLog(w)
  PROVE  pending' \in [Writers -> Entry]
<1>1. ASSUME NEW v \in Writers, v # w, pending[v].busy
      PROVE  [pending[v] EXCEPT !.doubt = @ \cup {"overlap"}] \in Entry
  BY DEF ChainTypeOK, Entry, Doubts
<1> QED BY <1>1, NoEntryTyped DEF CreateAuditLog, ChainTypeOK

(* Looking at the first n rows of a log does not depend on what follows.   *)
LEMMA LatestOfPrefix ==
  ASSUME NEW rs \in Seq(Row), NEW r \in Row, NEW n \in 0..Len(rs), NEW h
  PROVE  IsLatest(Append(rs, r), n, h) <=> IsLatest(rs, n, h)
<1> DEFINE ext == Append(rs, r)
<1>1. \A j \in 1..n : ext[j] = rs[j]
  OBVIOUS
<1> HIDE DEF ext
<1>2. ASSUME NEW i \in 1..n, NEW j \in (i + 1)..n PROVE j \in 1..n
  OBVIOUS
<1>3. IsLatest(ext, n, h) <=> IsLatest(rs, n, h)
  BY <1>1, <1>2, Zenon DEF IsLatest
<1> QED BY <1>3 DEF ext

LEMMA ChainTypeStep == ASSUME ChainTypeOK, [ChainNext]_chainVars PROVE ChainTypeOK'
<1> USE AuditAssumption DEF ChainTypeOK
<1>1. ASSUME NEW w \in Writers, NEW t \in Texts, getLatestHash(w, t) PROVE ChainTypeOK'
  <2>1. PICK prev \in {GenesisHash} \cup {rows[i].hash : i \in 1..Len(rows)} :
          pending' = [pending EXCEPT ![w] =
             [busy |-> TRUE, prev |-> prev, text |-> t,
              doubt |-> IF IsLatest(rows, Len(rows), prev) THEN {} ELSE {"readError"}]]
    BY <1>1 DEF getLatestHash
  <2>2. \A i \in 1..Len(rows) : rows[i].hash \in Hash
    <3>1. \A i \in 1..Len(rows) : rows[i] \in Row
      OBVIOUS
    <3> QED BY <3>1 DEF Row
  <2>3. prev \in Hash
    BY <2>1, <2>2, GenesisTyped
  <2>4. [busy |-> TRUE, prev |-> prev, text |-> t,
         doubt |-> IF IsLatest(rows, Len(rows), prev) THEN {} ELSE {"readError"}] \in Entry
    BY <2>3 DEF Entry, Doubts
  <2> QED BY <1>1, <2>1, <2>4 DEF getLatestHash
<1>2. ASSUME NEW w \in Writers, CreateAuditLog(w) PROVE ChainTypeOK'
  <2>1. NewRow(w) \in Row /\ rows' = Append(rows, NewRow(w)) /\ Len(rows) < MaxRows
    BY <1>2, NewRowTyped
  <2>2. rows' \in Seq(Row) /\ Len(rows') <= MaxRows
    BY <2>1
  <2>3. pending' \in [Writers -> Entry]
    BY <1>2, PendingTyped
  <2>4. pending[w].doubt \subseteq Doubts
    BY DEF Entry
  <2> QED BY <1>2, <2>2, <2>3, <2>4 DEF CreateAuditLog
<1>3. ASSUME NEW w \in Writers, CreateFails(w) PROVE ChainTypeOK'
  BY <1>3, NoEntryTyped DEF CreateFails
<1>4. ASSUME NEW t \in Texts, TagApplied(t) PROVE ChainTypeOK'
  BY <1>4, PlainRowTyped DEF TagApplied
<1>5. CASE UNCHANGED chainVars
  BY <1>5 DEF chainVars
<1> QED BY <1>1, <1>2, <1>3, <1>4, <1>5 DEF ChainNext

LEMMA ChainTypeInit == ChainInit => ChainTypeOK
<1> SUFFICES ASSUME ChainInit PROVE ChainTypeOK
  OBVIOUS
<1> USE AuditAssumption
<1>1. rows \in Seq(Row) /\ Len(rows) \in {0, 1}
  <2> DEFINE legacyRow == Unchained(Stored[Empty])
  <2>1. rows = << >> \/ rows = <<legacyRow>>
    BY DEF ChainInit
  <2>2. legacyRow \in Row
    BY PlainRowTyped
  <2> HIDE DEF legacyRow
  <2>3. << >> \in Seq(Row) /\ Len(<< >>) = 0
    OBVIOUS
  <2>4. <<legacyRow>> \in Seq(Row) /\ Len(<<legacyRow>>) = 1
    BY <2>2
  <2> QED BY <2>1, <2>3, <2>4
<1>2. pending \in [Writers -> Entry]
  BY NoEntryTyped DEF ChainInit
<1>3. Len(rows) <= MaxRows
  <2>1. \A n \in {0, 1} : n <= MaxRows
    OBVIOUS
  <2> QED BY <1>1, <2>1
<1>4. causes \subseteq Doubts \cup {"jsonb"}
  BY DEF ChainInit
<1> QED BY <1>1, <1>2, <1>3, <1>4 DEF ChainTypeOK

(* Rows, hashes and what writers hold are well formed however the store    *)
(* spells JSON and however getLatestHash and CreateAuditLog interleave.    *)
THEOREM ChainIsTyped == ChainSpec => []ChainTypeOK
<1>1. ChainTypeOK /\ [ChainNext]_chainVars => ChainTypeOK'
  BY ChainTypeStep
<1> QED BY <1>1, ChainTypeInit, PTL DEF ChainSpec

-----------------------------------------------------------------------------
(* Appending a row keeps the earlier rows verified; a chained row must     *)
(* continue the newest hash and carry its own.                             *)
LEMMA AppendVerifies ==
  ASSUME NEW rs \in Seq(Row), NEW r \in Row, VerifyAuditChain(rs),
         r.chained => /\ IsLatest(rs, Len(rs), r.prev)
                      /\ r.hash = ComputeAuditHash(r.prev, r.text)
  PROVE  VerifyAuditChain(Append(rs, r))
<1> DEFINE ext == Append(rs, r)
<1>1. Len(ext) = Len(rs) + 1 /\ ext[Len(rs) + 1] = r
  OBVIOUS
<1>2. \A i \in 1..Len(rs) : ext[i] = rs[i]
  OBVIOUS
<1>3. \A n \in 0..Len(rs) : \A h : IsLatest(ext, n, h) <=> IsLatest(rs, n, h)
  BY LatestOfPrefix
<1>4. Len(rs) \in Nat
  OBVIOUS
<1> HIDE DEF ext
<1>5. ASSUME NEW i \in 1..Len(ext), ext[i].chained
      PROVE  IsLatest(ext, i - 1, ext[i].prev) /\ ext[i].hash = ComputeAuditHash(ext[i].prev, ext[i].text)
  <2>1. CASE i = Len(rs) + 1
    BY <1>1, <1>3, <1>4, <1>5, <2>1
  <2>2. CASE i \in 1..Len(rs)
    <3>1. i - 1 \in 0..Len(rs)
      BY <1>4, <2>2
    <3> QED BY <1>2, <1>3, <1>5, <2>2, <3>1 DEF VerifyAuditChain
  <2> QED BY <1>1, <1>4, <2>1, <2>2
<1>6. VerifyAuditChain(ext)
  BY <1>5 DEF VerifyAuditChain
<1> QED BY <1>6 DEF ext

(* A row without hashes does not change which hash is the newest.          *)
LEMMA UnchainedKeepsLatest ==
  ASSUME NEW rs \in Seq(Row), NEW r \in Row, ~r.chained, NEW h, IsLatest(rs, Len(rs), h)
  PROVE  IsLatest(Append(rs, r), Len(Append(rs, r)), h)
<1> DEFINE ext == Append(rs, r)
<1>1. Len(ext) = Len(rs) + 1 /\ ext[Len(rs) + 1] = r /\ Len(rs) \in Nat
  OBVIOUS
<1>2. \A i \in 1..Len(rs) : ext[i] = rs[i]
  OBVIOUS
<1> HIDE DEF ext
<1>3. CASE h = GenesisHash /\ \A j \in 1..Len(rs) : ~rs[j].chained
  <2>1. \A j \in 1..Len(ext) : ~ext[j].chained
    BY <1>1, <1>2, <1>3
  <2> QED BY <1>3, <2>1 DEF IsLatest, ext
<1>4. ASSUME NEW i \in 1..Len(rs), rs[i].chained, h = rs[i].hash, \A j \in (i + 1)..Len(rs) : ~rs[j].chained
      PROVE  IsLatest(ext, Len(ext), h)
  <2>1. i \in 1..Len(ext) /\ ext[i].chained /\ h = ext[i].hash
    BY <1>1, <1>2, <1>4
  <2>2. \A j \in (i + 1)..Len(ext) : ~ext[j].chained
    BY <1>1, <1>2, <1>4
  <2> QED BY <2>1, <2>2 DEF IsLatest
<1> QED BY <1>3, <1>4 DEF ext, IsLatest

(* Appending keeps rows linked.                                            *)
LEMMA AppendLinks ==
  ASSUME NEW rs \in Seq(Row), NEW r \in Row, Linked(rs)
  PROVE  Linked(Append(rs, r))
<1> DEFINE ext == Append(rs, r)
<1>1. Len(ext) = Len(rs) + 1 /\ ext[Len(rs) + 1] = r /\ Len(rs) \in Nat
  OBVIOUS
<1>2. \A i \in 1..Len(rs) : ext[i] = rs[i]
  OBVIOUS
<1> HIDE DEF ext
<1>3. SUFFICES ASSUME NEW i \in 1..Len(ext), NEW j \in 1..Len(ext),
                      i < j, ext[i].chained, ext[j].chained
               PROVE  \E k \in 1..Len(ext) : Follows(ext, i, k)
  BY DEF Linked, ext
<1>4. i \in 1..Len(rs) /\ rs[i].chained
  BY <1>1, <1>2, <1>3
<1>5. CASE \E l \in 1..Len(rs) : i < l /\ rs[l].chained
  <2>1. PICK k \in 1..Len(rs) : Follows(rs, i, k)
    BY <1>4, <1>5 DEF Linked
  <2>2. \A m \in (i + 1)..(k - 1) : m \in 1..Len(rs)
    BY <1>1, <1>4
  <2>3. Follows(ext, i, k)
    BY <1>2, <2>1, <2>2 DEF Follows
  <2> QED BY <1>1, <2>3
<1>6. CASE ~\E l \in 1..Len(rs) : i < l /\ rs[l].chained
  <2>1. j = Len(rs) + 1
    BY <1>1, <1>2, <1>3, <1>6
  <2>2. \A m \in (i + 1)..(j - 1) : m \in 1..Len(rs) /\ ~ext[m].chained
    BY <1>1, <1>2, <1>4, <1>6, <2>1
  <2> QED BY <1>3, <2>2 DEF Follows
<1> QED BY <1>5, <1>6

LEMMA ChainInvInit == ChainInit => ChainInv
<1> SUFFICES ASSUME ChainInit PROVE ChainInv
  OBVIOUS
<1>1. ChainTypeOK
  BY ChainTypeInit
<1>2. Undoubted
  BY DEF ChainInit, Undoubted, NoEntry
<1>3. \A i \in 1..Len(rows) : ~rows[i].chained
  <2>1. CASE rows = << >>
    BY <2>1
  <2>2. CASE rows = <<Unchained(Stored[Empty])>>
    BY <2>2 DEF Unchained
  <2> QED BY <2>1, <2>2 DEF ChainInit
<1>4. AlarmsHaveCauses
  BY <1>3 DEF AlarmsHaveCauses, VerifyAuditChain
<1>5. Linked(rows)
  BY <1>3 DEF Linked
<1> QED BY <1>1, <1>2, <1>4, <1>5 DEF ChainInv

LEMMA ChainInvStep == ASSUME ChainInv, [ChainNext]_chainVars PROVE ChainInv'
<1>0. ChainTypeOK /\ ChainTypeOK' /\ Undoubted /\ AlarmsHaveCauses /\ Linked(rows)
  BY ChainTypeStep DEF ChainInv
<1>1. ASSUME NEW w \in Writers, NEW t \in Texts, getLatestHash(w, t) PROVE ChainInv'
  <2>1. PICK prev :
          pending' = [pending EXCEPT ![w] =
             [busy |-> TRUE, prev |-> prev, text |-> t,
              doubt |-> IF IsLatest(rows, Len(rows), prev) THEN {} ELSE {"readError"}]]
    BY <1>1 DEF getLatestHash
  <2>2. rows' = rows /\ causes' = causes
    BY <1>1 DEF getLatestHash
  <2>3. Undoubted'
    BY <1>0, <2>1, <2>2 DEF Undoubted, ChainTypeOK, IsLatest
  <2> QED
    BY <1>0, <2>2, <2>3 DEF ChainInv, AlarmsHaveCauses, VerifyAuditChain, IsLatest, Linked, Follows
<1>2. ASSUME NEW w \in Writers, CreateAuditLog(w) PROVE ChainInv'
  <2>1. NewRow(w) \in Row /\ rows' = Append(rows, NewRow(w))
    BY <1>0, <1>2, NewRowTyped
  <2>2. pending[w].busy /\ pending[w] \in Entry
    BY <1>0, <1>2 DEF CreateAuditLog, ChainTypeOK
  \* Everybody who is still busy has been overtaken.
  <2>3. Undoubted'
    <3>1. ASSUME NEW v \in Writers, pending'[v].busy PROVE pending'[v].doubt # {}
      <4>1. v # w /\ pending[v].busy /\ pending'[v] = [pending[v] EXCEPT !.doubt = @ \cup {"overlap"}]
        BY <1>2, <3>1 DEF CreateAuditLog, NoEntry
      <4>2. pending[v] \in Entry
        BY <1>0 DEF ChainTypeOK
      <4> QED BY <4>1, <4>2 DEF Entry
    <3> QED BY <3>1 DEF Undoubted
  \* Without a cause the new row continues the newest hash and keeps its text.
  <2>4. ASSUME causes' = {} PROVE VerifyAuditChain(rows')
    <3>1. causes = {} /\ pending[w].doubt = {}
      BY <1>2, <2>4 DEF CreateAuditLog
    <3>2. Joined[Stored[pending[w].text]] = Joined[pending[w].text]
      BY <1>2, <2>4 DEF CreateAuditLog
    <3>3. IsLatest(rows, Len(rows), NewRow(w).prev)
      BY <1>0, <2>2, <3>1 DEF Undoubted, NewRow
    <3>4. NewRow(w).hash = ComputeAuditHash(NewRow(w).prev, NewRow(w).text)
      BY <3>2 DEF NewRow, ComputeAuditHash
    <3>5. VerifyAuditChain(rows) /\ rows \in Seq(Row)
      BY <1>0, <3>1 DEF AlarmsHaveCauses, ChainTypeOK
    <3> QED BY <2>1, <3>3, <3>4, <3>5, AppendVerifies
  <2>5. Linked(rows')
    BY <1>0, <2>1, AppendLinks DEF ChainTypeOK
  <2>6. (causes = {})' => VerifyAuditChain(rows')
    BY <2>4
  <2> QED
    BY <1>0, <2>3, <2>5, <2>6 DEF ChainInv, AlarmsHaveCauses, VerifyAuditChain, IsLatest, Linked, Follows
<1>3. ASSUME NEW w \in Writers, CreateFails(w) PROVE ChainInv'
  <2>1. rows' = rows /\ causes' = causes
        /\ \A v \in Writers : pending'[v].busy => pending'[v] = pending[v]
    BY <1>0, <1>3 DEF CreateFails, NoEntry, ChainTypeOK
  <2>2. Undoubted'
    BY <1>0, <2>1 DEF Undoubted, IsLatest
  <2> QED
    BY <1>0, <2>1, <2>2 DEF ChainInv, AlarmsHaveCauses, VerifyAuditChain, IsLatest, Linked, Follows
<1>4. ASSUME NEW t \in Texts, TagApplied(t) PROVE ChainInv'
  <2> DEFINE r == Unchained(Stored[t])
  <2>1. r \in Row /\ ~r.chained
    BY PlainRowTyped
  <2>2. rows' = Append(rows, r) /\ pending' = pending /\ causes' = causes /\ rows \in Seq(Row)
    BY <1>0, <1>4 DEF TagApplied, ChainTypeOK
  <2> HIDE DEF r
  <2>3. causes = {} => VerifyAuditChain(rows')
    BY <1>0, <2>1, <2>2, AppendVerifies DEF AlarmsHaveCauses
  <2>4. ASSUME NEW w \in Writers, pending[w].busy, pending[w].doubt = {}
        PROVE  IsLatest(rows', Len(rows'), pending[w].prev)
    BY <1>0, <2>1, <2>2, <2>4, UnchainedKeepsLatest DEF Undoubted
  <2>5. Undoubted'
    BY <2>2, <2>4 DEF Undoubted, IsLatest
  <2>6. Linked(rows')
    BY <1>0, <2>1, <2>2, AppendLinks
  <2> QED
    BY <1>0, <2>2, <2>3, <2>5, <2>6 DEF ChainInv, AlarmsHaveCauses, VerifyAuditChain, IsLatest, Linked, Follows
<1>5. CASE UNCHANGED chainVars
  BY <1>0, <1>5
  DEF chainVars, ChainInv, Undoubted, AlarmsHaveCauses, VerifyAuditChain, IsLatest, Linked, Follows
<1> QED BY <1>1, <1>2, <1>3, <1>4, <1>5 DEF ChainNext

LEMMA ChainInvHolds == ChainSpec => []ChainInv
<1>1. ChainInv /\ [ChainNext]_chainVars => ChainInv'
  BY ChainInvStep
<1> QED BY <1>1, ChainInvInit, PTL DEF ChainSpec

(* VerifyAuditChain raises no false alarm without one of the three causes, *)
(* in a log of any length, TAG_APPLIED rows in between included.           *)
THEOREM NoFalseAlarm == ChainSpec => []AlarmsHaveCauses
<1>1. ChainInv => AlarmsHaveCauses
  BY DEF ChainInv
<1> QED BY <1>1, ChainInvHolds, PTL

(* VerifyAuditChain reports a chained row whose contents were changed to   *)
(* ones that join to another text, at any position of any log that         *)
(* verified.                                                               *)
THEOREM AlterationIsFound == ChainSpec => []AlterationIsDetected
<1>1. ChainInv => AlterationIsDetected
  <2> SUFFICES ASSUME ChainInv, VerifyAuditChain(rows), NEW i \in 1..Len(rows), rows[i].chained,
                      NEW t \in Texts, Joined[t] # Joined[rows[i].text],
                      VerifyAuditChain([rows EXCEPT ![i].text = t])
               PROVE  FALSE
    BY DEF AlterationIsDetected
  <2> DEFINE alt == [rows EXCEPT ![i].text = t]
  <2>1. rows \in Seq(Row) /\ rows[i] \in Row
    BY DEF ChainInv, ChainTypeOK
  <2>2. Len(alt) = Len(rows)
    BY <2>1
  <2>3. alt[i].chained /\ alt[i].prev = rows[i].prev /\ alt[i].hash = rows[i].hash /\ alt[i].text = t
    BY <2>1 DEF Row
  <2>4. alt[i].hash = ComputeAuditHash(alt[i].prev, alt[i].text)
    BY <2>2, <2>3 DEF VerifyAuditChain
  <2>5. rows[i].hash = ComputeAuditHash(rows[i].prev, rows[i].text)
    BY DEF VerifyAuditChain
  <2>6. Append(rows[i].prev, Joined[t]) = Append(rows[i].prev, Joined[rows[i].text])
    BY <2>3, <2>4, <2>5 DEF ComputeAuditHash
  <2>7. rows[i].prev \in Hash
    BY <2>1 DEF Row
  <2>8. \A s, x : s \in Hash => Append(s, x)[Len(s) + 1] = x
    BY DEF Hash
  <2> QED BY <2>6, <2>7, <2>8
<1> QED BY <1>1, ChainInvHolds, PTL

(* A log without its i-th row.                                             *)
LEMMA WithoutIs ==
  ASSUME NEW rs \in Seq(Row), NEW i \in 1..Len(rs)
  PROVE  /\ Len(Without(rs, i)) = Len(rs) - 1
         /\ \A m \in 1..(i - 1) : Without(rs, i)[m] = rs[m]
         /\ \A m \in i..(Len(rs) - 1) : Without(rs, i)[m] = rs[m + 1]
<1> DEFINE front == SubSeq(rs, 1, i - 1)
           back == SubSeq(rs, i + 1, Len(rs))
<1>1. front \in Seq(Row) /\ Len(front) = i - 1 /\ \A m \in 1..(i - 1) : front[m] = rs[m]
  OBVIOUS
<1>2. back \in Seq(Row) /\ Len(back) = Len(rs) - i
      /\ \A m \in 1..(Len(rs) - i) : back[m] = rs[i + m]
  OBVIOUS
<1>3. Without(rs, i) = front \o back
  BY DEF Without
<1> HIDE DEF front, back
<1>4. /\ Len(front \o back) = Len(front) + Len(back)
      /\ \A m \in 1..(Len(front) + Len(back)) :
            (front \o back)[m] = IF m <= Len(front) THEN front[m] ELSE back[m - Len(front)]
  <2>1. front \in Seq(Row) /\ back \in Seq(Row)
    BY <1>1, <1>2
  <2> QED BY <2>1, ConcatProperties
<1>5. ASSUME NEW m \in i..(Len(rs) - 1) PROVE (front \o back)[m] = rs[m + 1]
  <2>1. m - (i - 1) \in 1..(Len(rs) - i) /\ i + (m - (i - 1)) = m + 1
    OBVIOUS
  <2>2. (front \o back)[m] = back[m - (i - 1)]
    BY <1>1, <1>2, <1>4
  <2> QED BY <1>2, <2>1, <2>2
<1>6. ASSUME NEW m \in 1..(i - 1) PROVE (front \o back)[m] = rs[m]
  BY <1>1, <1>2, <1>4
<1>7. Len(front \o back) = Len(rs) - 1
  BY <1>1, <1>2, <1>4
<1> QED BY <1>3, <1>5, <1>6, <1>7

(* VerifyAuditChain reports a chained row that was removed, at any place   *)
(* of any log that verified, as long as a chained row comes after it: the  *)
(* next one would have to continue the row before it, whose hash is        *)
(* shorter.                                                                *)
THEOREM RemovalIsFound == ChainSpec => []RemovalIsDetected
<1>1. ChainInv => RemovalIsDetected
  <2> SUFFICES ASSUME ChainInv, VerifyAuditChain(rows),
                      NEW i \in 1..Len(rows), NEW j \in 1..Len(rows), i < j,
                      rows[i].chained, rows[j].chained, VerifyAuditChain(Without(rows, i))
               PROVE  FALSE
    BY DEF RemovalIsDetected
  <2> DEFINE left == Without(rows, i)
  <2>1. rows \in Seq(Row) /\ Len(rows) \in Nat
    BY DEF ChainInv, ChainTypeOK
  <2>2. /\ Len(left) = Len(rows) - 1
        /\ \A m \in 1..(i - 1) : left[m] = rows[m]
        /\ \A m \in i..(Len(rows) - 1) : left[m] = rows[m + 1]
    BY <2>1, WithoutIs
  <2>3. PICK k \in 1..Len(rows) : Follows(rows, i, k)
    BY DEF ChainInv, Linked
  <2>4. i < k /\ rows[k].chained /\ \A m \in (i + 1)..(k - 1) : ~rows[m].chained
    BY <2>3 DEF Follows
  <2> HIDE DEF left
  <2>5. rows[i].prev \in Hash
    <3>1. rows[i] \in Row
      BY <2>1
    <3> QED BY <3>1 DEF Row
  <2>6. rows[k].prev = rows[i].hash
    <3>1. IsLatest(rows, k - 1, rows[k].prev)
      BY <2>4 DEF VerifyAuditChain
    <3>2. i \in 1..(k - 1)
      BY <2>1, <2>4
    <3>3. PICK l \in 1..(k - 1) : /\ rows[l].chained /\ rows[k].prev = rows[l].hash
                                  /\ \A m \in (l + 1)..(k - 1) : ~rows[m].chained
      BY <3>1, <3>2 DEF IsLatest
    <3>4. l = i
      BY <2>1, <2>4, <3>2, <3>3
    <3> QED BY <3>3, <3>4
  <2>7. k - 1 \in 1..Len(left) /\ left[k - 1] = rows[k]
    <3>1. k - 1 \in i..(Len(rows) - 1) /\ (k - 1) + 1 = k
      BY <2>1, <2>4
    <3> QED BY <2>1, <2>2, <3>1
  <2>8. IsLatest(left, (k - 1) - 1, rows[i].hash)
    BY <2>4, <2>6, <2>7 DEF VerifyAuditChain, left
  <2>9. Len(rows[i].hash) = Len(rows[i].prev) + 1 /\ Len(rows[i].prev) \in Nat
    <3>1. rows[i].hash = Append(rows[i].prev, Joined[rows[i].text])
      BY DEF VerifyAuditChain, ComputeAuditHash
    <3> QED BY <2>5, <3>1 DEF Hash
  <2>10. rows[i].hash # GenesisHash
    BY <2>9 DEF GenesisHash
  <2>11. PICK l \in 1..((k - 1) - 1) :
           /\ left[l].chained /\ rows[i].hash = left[l].hash
           /\ \A m \in (l + 1)..((k - 1) - 1) : ~left[m].chained
    BY <2>8, <2>10 DEF IsLatest
  <2>12. CASE l < i
    <3>1. l \in 1..(i - 1) /\ i - 1 <= (k - 1) - 1
      BY <2>1, <2>4, <2>12
    <3>2. rows[l].chained /\ rows[l].hash = rows[i].hash
      BY <2>2, <2>11, <3>1
    <3>3. \A m \in (l + 1)..(i - 1) : ~rows[m].chained
      BY <2>1, <2>2, <2>11, <3>1
    <3>4. IsLatest(rows, i - 1, rows[i].prev)
      BY DEF VerifyAuditChain
    <3>5. PICK n \in 1..(i - 1) : /\ rows[n].chained /\ rows[i].prev = rows[n].hash
                                  /\ \A m \in (n + 1)..(i - 1) : ~rows[m].chained
      BY <3>1, <3>2, <3>4 DEF IsLatest
    <3>6. n = l
      BY <2>1, <3>1, <3>2, <3>3, <3>5
    <3> QED BY <2>9, <3>2, <3>5, <3>6
  <2>13. CASE ~(l < i)
    <3>1. l \in i..(Len(rows) - 1) /\ l + 1 \in (i + 1)..(k - 1)
      BY <2>1, <2>4, <2>13
    <3>2. left[l] = rows[l + 1]
      BY <2>2, <3>1
    <3> QED BY <2>4, <2>11, <3>1, <3>2
  <2> QED BY <2>12, <2>13
<1> QED BY <1>1, ChainInvHolds, PTL

(***************************************************************************)
(* The master key, for any number of processes and keys, however starts,   *)
(* stops and an unreachable storage volume interleave.  Two things can     *)
(* part the keys in memory, and the history knows both: a rename over a    *)
(* file (replaced) and a legacy key loaded beside one (astray).  What      *)
(* carries the rest is that a key file never disappears: a process that    *)
(* mints has seen an installation without any key, legacy key included     *)
(* (Minting), so its rename onto an empty place finds nobody running.      *)
(***************************************************************************)
Holding == {"publish", "lastLook", "rename", "up"}

KeyInHand == \A p \in Procs : pc[p] \in Holding => key[p] \in Keys

KeyTypeInv == KeyTypeOK /\ KeyInHand

(* A process that mints found no key file when it started, and there is no *)
(* legacy key.                                                             *)
Minting ==
    \A p \in Procs : pc[p] \in {"publish", "lastLook", "rename"} => p \in bare /\ legacy = NoKey

(* A process that found a file still has one before it.                    *)
Reading ==
    \A p \in Procs :
        /\ pc[p] # "down" /\ p \notin bare => file # NoKey
        /\ pc[p] = "read" /\ file = NoKey => legacy = NoKey

(* A running process uses the key the next start would load.               *)
UpIsCurrent ==
    ~replaced /\ ~astray => \A p \in Procs : pc[p] = "up" => key[p] = Authoritative

KeyInv ==
    /\ KeyTypeInv
    /\ Minting
    /\ Reading
    /\ UpIsCurrent
    /\ SecretsStayReadable

-----------------------------------------------------------------------------
(* Types and keys in hand are kept by every step.                          *)
LEMMA KeyTypeStep == ASSUME KeyTypeInv, [KeyNext]_keyVars PROVE KeyTypeInv'
<1> USE MasterKeyAssumption
    DEF KeyTypeInv, KeyTypeOK, KeyInHand, Holding, Contents, Booting, disk, history
<1>1. CASE CopyLegacy \/ Obstruct
  BY <1>1 DEF CopyLegacy, Obstruct
<1>2. ASSUME NEW p \in Procs, Start(p) PROVE KeyTypeInv'
  BY <1>2 DEF Start
<1>3. ASSUME NEW p \in Procs, Stop(p) PROVE KeyTypeInv'
  BY <1>3 DEF Stop
<1>4. ASSUME NEW p \in Procs, resolveKeyPath(p) PROVE KeyTypeInv'
  BY <1>4 DEF resolveKeyPath
<1>5. ASSUME NEW p \in Procs, ReadLegacy(p) PROVE KeyTypeInv'
  BY <1>5 DEF ReadLegacy, LoadKey
<1>6. ASSUME NEW p \in Procs, ReadKey(p) PROVE KeyTypeInv'
  <2>1. CASE Readable # NoKey
    BY <1>6, <2>1 DEF ReadKey, LoadKey
  <2>2. CASE Readable = NoKey
    BY <1>6, <2>2 DEF ReadKey
  <2> QED BY <2>1, <2>2
<1>7. ASSUME NEW p \in Procs, PublishNewKeyFile(p) PROVE KeyTypeInv'
  BY <1>7 DEF PublishNewKeyFile
<1>8. ASSUME NEW p \in Procs, LastLook(p) PROVE KeyTypeInv'
  BY <1>8 DEF LastLook
<1>9. ASSUME NEW p \in Procs, Rename(p) PROVE KeyTypeInv'
  BY <1>9 DEF Rename, LoadKey
<1>10. ASSUME NEW p \in Procs, AdoptKey(p) PROVE KeyTypeInv'
  BY <1>10 DEF AdoptKey, LoadKey
<1>11. ASSUME NEW p \in Procs, Encrypt(p) PROVE KeyTypeInv'
  BY <1>11 DEF Encrypt
<1>12. CASE UNCHANGED keyVars
  BY <1>12 DEF keyVars
<1> QED
  BY <1>1, <1>2, <1>3, <1>4, <1>5, <1>6, <1>7, <1>8, <1>9, <1>10, <1>11, <1>12 DEF KeyNext

(* GetOrCreateMasterKey never caches, and Encrypt never uses, anything     *)
(* that is not a usable key, whatever starts, stops and overlaps.          *)
THEOREM MasterKeyTyped == KeySpec => []KeyTypeOK
<1>1. KeyInit => KeyTypeInv
  BY MasterKeyAssumption DEF KeyInit, KeyTypeInv, KeyTypeOK, KeyInHand, Holding, Contents, Booting
<1>2. KeyTypeInv /\ [KeyNext]_keyVars => KeyTypeInv'
  BY KeyTypeStep
<1>3. KeyTypeInv => KeyTypeOK
  BY DEF KeyTypeInv
<1> QED BY <1>1, <1>2, <1>3, PTL DEF KeySpec

-----------------------------------------------------------------------------
LEMMA KeyInvStep == ASSUME KeyInv, [KeyNext]_keyVars PROVE KeyInv'
<1>0. KeyTypeInv /\ KeyTypeInv'
  BY KeyTypeStep DEF KeyInv
<1> USE MasterKeyAssumption, <1>0
    DEF KeyInv, KeyTypeInv, KeyTypeOK, KeyInHand, Holding, Contents, Booting, disk, history,
        UpIsCurrent, SecretsStayReadable, Minting, Reading, Authoritative
<1>1. CASE CopyLegacy
  BY <1>1 DEF CopyLegacy
<1>2. CASE Obstruct
  BY <1>2 DEF Obstruct
<1>3. ASSUME NEW p \in Procs, Start(p) PROVE KeyInv'
  BY <1>3 DEF Start
<1>4. ASSUME NEW p \in Procs, Stop(p) PROVE KeyInv'
  BY <1>4 DEF Stop
<1>5. ASSUME NEW p \in Procs, resolveKeyPath(p) PROVE KeyInv'
  BY <1>5 DEF resolveKeyPath, Exists
<1>6. ASSUME NEW p \in Procs, ReadLegacy(p) PROVE KeyInv'
  BY <1>6 DEF ReadLegacy, LoadKey
<1>7. ASSUME NEW p \in Procs, ReadKey(p) PROVE KeyInv'
  <2>1. CASE Readable # NoKey
    BY <1>7, <2>1 DEF ReadKey, LoadKey, Readable
  <2>2. CASE Readable = NoKey
    BY <1>7, <2>2 DEF ReadKey, Readable
  <2> QED BY <2>1, <2>2
<1>8. ASSUME NEW p \in Procs, PublishNewKeyFile(p) PROVE KeyInv'
  BY <1>8 DEF PublishNewKeyFile
<1>9. ASSUME NEW p \in Procs, LastLook(p) PROVE KeyInv'
  BY <1>9 DEF LastLook
<1>10. ASSUME NEW p \in Procs, Rename(p) PROVE KeyInv'
  <2>1. CASE blocked
    BY <1>10, <2>1 DEF Rename, LoadKey
  <2>2. CASE ~blocked /\ file # NoKey
    BY <1>10, <2>2 DEF Rename
  <2>3. CASE ~blocked /\ file = NoKey
    \* There was no key at all, so nobody runs and nothing is stored yet.
    <3>1. ~replaced /\ ~astray => stored = {} /\ \A q \in Procs : pc[q] # "up"
      BY <1>10, <2>3 DEF Rename
    <3> QED BY <1>10, <2>3, <3>1 DEF Rename
  <2> QED BY <2>1, <2>2, <2>3
<1>11. ASSUME NEW p \in Procs, AdoptKey(p) PROVE KeyInv'
  BY <1>11 DEF AdoptKey, LoadKey, Readable
<1>12. ASSUME NEW p \in Procs, Encrypt(p) PROVE KeyInv'
  BY <1>12 DEF Encrypt
<1>13. CASE UNCHANGED keyVars
  BY <1>13 DEF keyVars
<1> QED
  BY <1>1, <1>2, <1>3, <1>4, <1>5, <1>6, <1>7, <1>8, <1>9, <1>10, <1>11, <1>12, <1>13 DEF KeyNext

LEMMA KeyInvHolds == KeySpec => []KeyInv
<1>1. KeyInit => KeyInv
  BY MasterKeyAssumption
  DEF KeyInit, KeyInv, KeyTypeInv, KeyTypeOK, KeyInHand, Holding, Contents, Booting,
      UpIsCurrent, SecretsStayReadable, Minting, Reading, Authoritative
<1>2. KeyInv /\ [KeyNext]_keyVars => KeyInv'
  BY KeyInvStep
<1> QED BY <1>1, <1>2, PTL DEF KeySpec

(* Server and worker, however they are started, stopped and restarted, run *)
(* with one key, the one the next start loads, until a first start renames *)
(* its key over another one or a legacy key is loaded beside a file that   *)
(* is out of reach.                                                        *)
THEOREM NoSplitBrain == KeySpec => []ConvergedUnlessReplaced
<1>1. KeyInv => ConvergedUnlessReplaced
  BY DEF KeyInv, UpIsCurrent, ConvergedUnlessReplaced, Converged
<1> QED BY <1>1, KeyInvHolds, PTL

(* Until then every stored secret stays decryptable by the key a start     *)
(* loads, through restarts, crashes while minting, overlapping first       *)
(* starts and the operator's copy of a legacy key.                         *)
THEOREM NoSecretIsOrphaned == KeySpec => []SecretsStayReadable
<1>1. KeyInv => SecretsStayReadable
  BY DEF KeyInv
<1> QED BY <1>1, KeyInvHolds, PTL

(* publishNewKeyFile's promise as far as it is kept: a key file, valid or  *)
(* not, is written over by nobody but a start that had found none.         *)
THEOREM KeyFileIsKept == KeySpec => KeyFileIsNeverReplaced
<1>1. KeyInv /\ [KeyNext]_keyVars =>
        [file # NoKey /\ file' # file => \E p \in bare : pc[p] = "rename"]_keyVars
  <2> SUFFICES ASSUME KeyInv, KeyNext, file # NoKey, file' # file
               PROVE  \E p \in bare : pc[p] = "rename"
    BY DEF keyVars
  <2>1. ASSUME NEW p \in Procs, Rename(p) PROVE pc[p] = "rename" /\ p \in bare
    BY <2>1 DEF KeyInv, Minting, Rename
  <2>2. \E p \in Procs : Rename(p)
    BY DEF KeyNext, disk, CopyLegacy, Obstruct, Start, Stop, resolveKeyPath, ReadLegacy, ReadKey,
      PublishNewKeyFile, LastLook, AdoptKey, Encrypt
  <2> QED BY <2>1, <2>2
<1> QED BY <1>1, KeyInvHolds, PTL DEF KeySpec, KeyFileIsNeverReplaced

(* A damaged key file keeps every process down: no new key is minted, and  *)
(* the legacy key is loaded only where the damaged file was out of reach.  *)
THEOREM FailsClosed == KeySpec => DamagedFileFailsClosed
<1>1. KeyInv /\ [KeyNext]_keyVars =>
        [file = Unusable =>
            \A p \in Procs : pc'[p] = "up" /\ pc[p] # "up" =>
                pc[p] = "readLegacy" /\ key'[p] = legacy /\ astray']_keyVars
  <2> SUFFICES ASSUME KeyInv, KeyNext, file = Unusable, NEW q \in Procs, pc'[q] = "up", pc[q] # "up"
               PROVE  pc[q] = "readLegacy" /\ key'[q] = legacy /\ astray'
    BY DEF keyVars
  <2> USE MasterKeyAssumption DEF KeyInv, KeyTypeInv, KeyTypeOK, Contents
  <2>1. ~CopyLegacy /\ ~Obstruct
    BY DEF CopyLegacy, Obstruct
  <2>2. ASSUME NEW p \in Procs, Start(p) \/ Stop(p) PROVE FALSE
    BY <2>2 DEF Start, Stop
  <2>3. ASSUME NEW p \in Procs, resolveKeyPath(p) \/ PublishNewKeyFile(p) \/ LastLook(p) PROVE FALSE
    BY <2>3 DEF resolveKeyPath, PublishNewKeyFile, LastLook
  <2>4. ASSUME NEW p \in Procs, ReadLegacy(p) PROVE pc[q] = "readLegacy" /\ key'[q] = legacy /\ astray'
    <3>1. p = q /\ legacy \in Keys
      BY <2>4 DEF ReadLegacy, LoadKey
    <3> QED BY <2>4, <3>1 DEF ReadLegacy, LoadKey
  <2>5. ASSUME NEW p \in Procs, ReadKey(p) PROVE FALSE
    BY <2>5 DEF ReadKey, LoadKey, Readable
  <2>6. ASSUME NEW p \in Procs, AdoptKey(p) PROVE FALSE
    BY <2>6 DEF AdoptKey, LoadKey, Readable
  <2>7. ASSUME NEW p \in Procs, Rename(p) \/ Encrypt(p) PROVE FALSE
    BY <2>7 DEF Rename, Encrypt, LoadKey
  <2> QED BY <2>1, <2>2, <2>3, <2>4, <2>5, <2>6, <2>7 DEF KeyNext
<1> QED BY <1>1, KeyInvHolds, PTL DEF KeySpec, DamagedFileFailsClosed

(***************************************************************************)
(* The accounts, for any number of them and of overlapping updates with    *)
(* any status: type correctness; that invites are needed to get in and     *)
(* work once; and what the last-administrator check is worth.              *)
(***************************************************************************)
(* A request that is not idle runs in a serving process, on an existing    *)
(* account, with an argument that fits its operation.                      *)
RequestInv ==
    \A p \in Reqs :
       /\ req[p].pc # "idle" => boot = "serving" /\ acct[req[p].target].st # "none"
       /\ req[p].pc = "role" => req[p].op = "role"
       /\ req[p].pc = "status" => req[p].op = "status"
       /\ req[p].op = "role" => req[p].arg \in Roles
       /\ req[p].op = "status" => req[p].arg \in StatusRequests

LEMMA TypesInit == AccountsInit => AccountsTypeOK /\ RequestInv
  <1> SUFFICES ASSUME AccountsInit PROVE AccountsTypeOK /\ RequestInv
    OBVIOUS
  <1>1. NoAccount \in Account
    BY DEF NoAccount, Account, Roles
  <1>2. IdleReq \in Req
    BY AccountsAssumption DEF IdleReq, Req, Roles
  <1>3. AccountsTypeOK
    BY <1>1, <1>2 DEF AccountsInit, AccountsTypeOK
  <1>4. RequestInv
    BY DEF AccountsInit, RequestInv, IdleReq, Roles
  <1> QED
    BY <1>3, <1>4

(* Rewriting one account with another of its type.                         *)
LEMMA AccountWrite ==
  ASSUME acct \in [Users -> Account], NEW u \in Users, NEW a \in Account
  PROVE  [acct EXCEPT ![u] = a] \in [Users -> Account]
  OBVIOUS

(* The write of a request ends it; the others are as before, but crossed.  *)
RequestsKept(p) ==
    \A q \in Reqs :
       \/ req'[q] = IdleReq
       \/ /\ q # p /\ req[q].pc # "idle" /\ req'[q].crossed
          /\ req'[q].pc = req[q].pc /\ req'[q].op = req[q].op
          /\ req'[q].target = req[q].target /\ req'[q].arg = req[q].arg

LEMMA WrittenIs ==
  ASSUME AccountsTypeOK, NEW p \in Reqs, req' = Written(p)
  PROVE  req' \in [Reqs -> Req] /\ RequestsKept(p) /\ req'[p] = IdleReq
  <1>1. IdleReq \in Req
    BY AccountsAssumption DEF IdleReq, Req, Roles
  <1>2. ASSUME NEW q \in Reqs PROVE [req[q] EXCEPT !.crossed = TRUE] \in Req
    BY DEF AccountsTypeOK, Req
  <1>3. req' \in [Reqs -> Req]
    BY <1>1, <1>2 DEF Written
  <1>4. ASSUME NEW q \in Reqs, req'[q] # IdleReq
        PROVE  /\ q # p /\ req[q].pc # "idle" /\ req'[q].crossed
               /\ req'[q].pc = req[q].pc /\ req'[q].op = req[q].op
               /\ req'[q].target = req[q].target /\ req'[q].arg = req[q].arg
    <2>1. q # p /\ req[q].pc # "idle" /\ req'[q] = [req[q] EXCEPT !.crossed = TRUE]
      BY <1>4 DEF Written
    <2>2. req[q] \in Req
      BY DEF AccountsTypeOK
    <2> QED BY <2>1, <2>2 DEF Req
  <1>5. req'[p] = IdleReq
    BY DEF Written
  <1> QED
    BY <1>3, <1>4, <1>5 DEF RequestsKept

LEMMA TypesInductive ==
  AccountsTypeOK /\ RequestInv /\ [AccountsNext]_accountVars => AccountsTypeOK' /\ RequestInv'
  <1> SUFFICES ASSUME AccountsTypeOK, RequestInv, [AccountsNext]_accountVars
               PROVE  AccountsTypeOK' /\ RequestInv'
    OBVIOUS
  <1>1. CASE BootstrapSecret
    BY <1>1 DEF BootstrapSecret, AccountsTypeOK, RequestInv, Accounts
  <1>2. CASE BootstrapSkip
    BY <1>2 DEF BootstrapSkip, AccountsTypeOK, RequestInv
  <1>3. CASE BootstrapCreate
    BY <1>3, AccountsAssumption DEF BootstrapCreate, AccountsTypeOK, RequestInv, Account, Req, Roles
  <1>4. CASE BootstrapFlag
    <2>1. acct' = acct \/ acct' = [acct EXCEPT ![Root] = [acct[Root] EXCEPT !.must = TRUE]]
      BY <1>4, AccountsAssumption DEF BootstrapFlag, AccountsTypeOK
    <2>2. acct[Root] \in Account
      BY AccountsAssumption DEF AccountsTypeOK
    <2>3. [acct[Root] EXCEPT !.must = TRUE] \in Account
      BY <2>2 DEF Account
    <2>4. acct' \in [Users -> Account]
      BY <2>1, <2>3, AccountWrite, AccountsAssumption DEF AccountsTypeOK
    <2> QED
      BY <1>4, <2>4 DEF BootstrapFlag, AccountsTypeOK, RequestInv
  <1>5. CASE Restart
    BY <1>5, AccountsAssumption DEF Restart, AccountsTypeOK, RequestInv, Req, IdleReq, Roles
  <1>6. ASSUME NEW u \in Users, Login(u) PROVE AccountsTypeOK' /\ RequestInv'
    BY <1>6 DEF Login, AccountsTypeOK, RequestInv
  <1>7. ASSUME NEW u \in Users, ExpireToken(u) PROVE AccountsTypeOK' /\ RequestInv'
    BY <1>7 DEF ExpireToken, AccountsTypeOK, RequestInv
  <1>8. ASSUME NEW u \in Users, ChangePassword(u) PROVE AccountsTypeOK' /\ RequestInv'
    <2>1. PICK m \in {FALSE, acct[u].must} :
             acct' = [acct EXCEPT ![u] = [acct[u] EXCEPT !.pw = "chosen", !.must = m]]
      BY <1>8 DEF ChangePassword, AccountsTypeOK
    <2>2. acct[u] \in Account
      BY DEF AccountsTypeOK
    <2>3. m \in BOOLEAN
      BY <2>2 DEF Account
    <2>4. [acct[u] EXCEPT !.pw = "chosen", !.must = m] \in Account
      BY <2>2, <2>3 DEF Account
    <2>5. acct' \in [Users -> Account]
      BY <2>1, <2>4, AccountWrite DEF AccountsTypeOK
    <2>6. \A v \in Users : acct'[v].st = acct[v].st
      BY <2>1, <2>2 DEF AccountsTypeOK, Account
    <2>7. secret' \in BOOLEAN
      BY <1>8 DEF ChangePassword, AccountsTypeOK
    <2>8. AccountsTypeOK'
      BY <1>8, <2>5, <2>7 DEF ChangePassword, AccountsTypeOK
    <2> QED
      BY <1>8, <2>6, <2>8 DEF ChangePassword, AccountsTypeOK, RequestInv, Req
  <1>9. ASSUME NEW u \in Users, Accept(u) PROVE AccountsTypeOK' /\ RequestInv'
    <2>1. acct' = [acct EXCEPT ![u] = [acct[u] EXCEPT !.st = "ACTIVE", !.pw = "chosen"]]
      BY <1>9 DEF Accept, AccountsTypeOK
    <2>2. acct[u] \in Account
      BY DEF AccountsTypeOK
    <2>3. [acct[u] EXCEPT !.st = "ACTIVE", !.pw = "chosen"] \in Account
      BY <2>2 DEF Account
    <2>4. acct' \in [Users -> Account]
      BY <2>1, <2>3, AccountWrite DEF AccountsTypeOK
    <2>5. \A v \in Users : acct[v].st # "none" => acct'[v].st # "none"
      BY <2>1, <2>2 DEF AccountsTypeOK, Account
    <2>6. AccountsTypeOK'
      BY <1>9, <2>4 DEF Accept, AccountsTypeOK
    <2> QED
      BY <1>9, <2>5, <2>6 DEF Accept, AccountsTypeOK, RequestInv, Req
  <1>10. ASSUME NEW u \in Users, ExpireInvite(u) PROVE AccountsTypeOK' /\ RequestInv'
    BY <1>10 DEF ExpireInvite, AccountsTypeOK, RequestInv
  <1>11. ASSUME NEW a \in Users, NEW u \in Users, NEW role \in Roles, Issue(a, u, role)
         PROVE AccountsTypeOK' /\ RequestInv'
    BY <1>11 DEF Issue, AccountsTypeOK, RequestInv, Account, Req
  <1>12. ASSUME NEW p \in Reqs, NEW a \in Users, NEW u \in Users, NEW role \in Roles,
                UpdateRole(p, a, u, role)
         PROVE AccountsTypeOK' /\ RequestInv'
    BY <1>12 DEF UpdateRole, AccountsTypeOK, RequestInv, Req
  <1>13. ASSUME NEW p \in Reqs, NEW a \in Users, NEW u \in Users, NEW status \in StatusRequests,
                UpdateStatus(p, a, u, status)
         PROVE AccountsTypeOK' /\ RequestInv'
    BY <1>13 DEF UpdateStatus, AccountsTypeOK, RequestInv, Req
  <1>14. ASSUME NEW p \in Reqs, CountActiveAdmins(p) \/ UpdateFails(p)
         PROVE AccountsTypeOK' /\ RequestInv'
    <2>1. IdleReq \in Req /\ [req[p] EXCEPT !.pc = req[p].op, !.crossed = FALSE] \in Req
      BY AccountsAssumption DEF AccountsTypeOK, Req, IdleReq, Roles
    <2>2. req' \in [Reqs -> Req]
      BY <1>14, <2>1 DEF CountActiveAdmins, UpdateFails, AccountsTypeOK
    <2>3. UNCHANGED <<acct, inv, sess, boot, secret>> /\ req[p].pc # "idle"
      BY <1>14 DEF CountActiveAdmins, UpdateFails
    <2>4. AccountsTypeOK'
      BY <2>2, <2>3 DEF AccountsTypeOK
    <2>5. \A q \in Reqs : q # p => req'[q] = req[q]
      BY <1>14 DEF CountActiveAdmins, UpdateFails, AccountsTypeOK
    <2>6. \/ req'[p] = IdleReq
          \/ req'[p] = [req[p] EXCEPT !.pc = req[p].op, !.crossed = FALSE]
      BY <1>14 DEF CountActiveAdmins, UpdateFails, AccountsTypeOK
    <2>7. \/ req'[p] = IdleReq
          \/ /\ req'[p].pc = req[p].op /\ req'[p].op = req[p].op
             /\ req'[p].target = req[p].target /\ req'[p].arg = req[p].arg
      BY <2>6 DEF AccountsTypeOK, Req
    <2> QED
      BY <2>3, <2>4, <2>5, <2>7 DEF RequestInv, IdleReq, Roles
  <1>15. ASSUME NEW p \in Reqs, UpdateUserRole(p) PROVE AccountsTypeOK' /\ RequestInv'
    <2>1. req' \in [Reqs -> Req] /\ RequestsKept(p)
      BY <1>15, WrittenIs DEF UpdateUserRole
    <2>2. req[p].arg \in Roles
      BY <1>15 DEF UpdateUserRole, RequestInv
    <2> DEFINE t == req[p].target
    <2>3. t \in Users /\ acct[t] \in Account
      BY DEF AccountsTypeOK, Req
    <2>4. acct' = [acct EXCEPT ![t] = [acct[t] EXCEPT !.role = req[p].arg]]
      BY <1>15, <2>3 DEF UpdateUserRole, AccountsTypeOK
    <2>5. [acct[t] EXCEPT !.role = req[p].arg] \in Account
      BY <2>2, <2>3 DEF Account
    <2>6. acct' \in [Users -> Account]
      BY <2>3, <2>4, <2>5, AccountWrite DEF AccountsTypeOK
    <2>7. \A v \in Users : acct[v].st # "none" => acct'[v].st # "none"
      BY <2>3, <2>4 DEF AccountsTypeOK, Account
    <2>8. AccountsTypeOK'
      BY <1>15, <2>1, <2>6 DEF UpdateUserRole, AccountsTypeOK
    <2> QED
      BY <1>15, <2>1, <2>7, <2>8 DEF UpdateUserRole, AccountsTypeOK, RequestInv, Req, IdleReq, Roles, RequestsKept
  <1>16. ASSUME NEW p \in Reqs, UpdateUserStatus(p) PROVE AccountsTypeOK' /\ RequestInv'
    <2>1. req[p].arg \in {"ACTIVE", "DEACTIVATED", "INVITED"}
      BY <1>16, AccountsAssumption DEF UpdateUserStatus, RequestInv
    <2> DEFINE t == req[p].target
    <2>2. t \in Users /\ acct[t] \in Account
      BY DEF AccountsTypeOK, Req
    <2>3. acct' = [acct EXCEPT ![t] = [acct[t] EXCEPT !.st = req[p].arg]]
      BY <1>16, <2>2 DEF UpdateUserStatus, AccountsTypeOK
    <2>4. [acct[t] EXCEPT !.st = req[p].arg] \in Account
      BY <2>1, <2>2 DEF Account
    <2>5. acct' \in [Users -> Account]
      BY <2>2, <2>3, <2>4, AccountWrite DEF AccountsTypeOK
    <2>6. \A v \in Users : acct[v].st # "none" => acct'[v].st # "none"
      BY <2>1, <2>2, <2>3 DEF AccountsTypeOK, Account
    <2>7. req' \in [Reqs -> Req] /\ RequestsKept(p)
      BY <1>16, WrittenIs DEF UpdateUserStatus
    <2>8. AccountsTypeOK'
      BY <1>16, <2>5, <2>7 DEF UpdateUserStatus, AccountsTypeOK
    <2> QED
      BY <1>16, <2>6, <2>7, <2>8 DEF UpdateUserStatus, AccountsTypeOK, RequestInv, Req, IdleReq, Roles, RequestsKept
  <1>17. CASE UNCHANGED accountVars
    BY <1>17 DEF accountVars, AccountsTypeOK, RequestInv
  <1> QED
    BY <1>1, <1>2, <1>3, <1>4, <1>5, <1>6, <1>7, <1>8, <1>9, <1>10, <1>11, <1>12,
       <1>13, <1>14, <1>15, <1>16, <1>17 DEF AccountsNext

(* Every reachable state is well typed, for any number of accounts and     *)
(* concurrent updates.                                                     *)
THEOREM AccountsTyped == AccountsSpec => []AccountsTypeOK
  BY TypesInit, TypesInductive, PTL DEF AccountsSpec

-----------------------------------------------------------------------------
(* Only the bootstrap and an acceptance give an account a password that    *)
(* somebody knows, so a token's holder has accepted an invite.             *)
AcceptInv ==
    /\ \A u \in Users : acct[u].pw # "discarded" => u = Root \/ inv[u] = "consumed"
    /\ \A u \in Users : inv[u] # "none" => acct[u].st # "none"
    /\ NoLoginBeforeAcceptance

LEMMA AcceptInductive ==
  AccountsTypeOK /\ RequestInv /\ AcceptInv /\ [AccountsNext]_accountVars => AcceptInv'
  <1> SUFFICES ASSUME AccountsTypeOK, RequestInv, AcceptInv, [AccountsNext]_accountVars
               PROVE  AcceptInv'
    OBVIOUS
  <1> USE DEF AcceptInv, NoLoginBeforeAcceptance
  <1>1. CASE BootstrapSecret \/ BootstrapSkip \/ Restart
    BY <1>1 DEF BootstrapSecret, BootstrapSkip, Restart
  <1>2. CASE BootstrapCreate
    BY <1>2 DEF BootstrapCreate, AccountsTypeOK
  <1>3. CASE BootstrapFlag
    BY <1>3 DEF BootstrapFlag, AccountsTypeOK, Account
  <1>4. ASSUME NEW u \in Users, Login(u) PROVE AcceptInv'
    BY <1>4 DEF Login
  <1>5. ASSUME NEW u \in Users, ExpireToken(u) PROVE AcceptInv'
    BY <1>5 DEF ExpireToken
  <1>6. ASSUME NEW u \in Users, ChangePassword(u) PROVE AcceptInv'
    BY <1>6 DEF ChangePassword, AccountsTypeOK, Account
  <1>7. ASSUME NEW u \in Users, Accept(u) PROVE AcceptInv'
    BY <1>7 DEF Accept, AccountsTypeOK, Account
  <1>8. ASSUME NEW u \in Users, ExpireInvite(u) PROVE AcceptInv'
    BY <1>8 DEF ExpireInvite, AccountsTypeOK
  <1>9. ASSUME NEW a \in Users, NEW u \in Users, NEW role \in Roles, Issue(a, u, role)
        PROVE AcceptInv'
    BY <1>9 DEF Issue, AccountsTypeOK, Account
  <1>10. ASSUME NEW p \in Reqs, NEW a \in Users, NEW u \in Users, NEW x,
                UpdateRole(p, a, u, x) \/ UpdateStatus(p, a, u, x)
         PROVE AcceptInv'
    BY <1>10 DEF UpdateRole, UpdateStatus
  <1>11. ASSUME NEW p \in Reqs, CountActiveAdmins(p) \/ UpdateFails(p) PROVE AcceptInv'
    BY <1>11 DEF CountActiveAdmins, UpdateFails
  <1>12. ASSUME NEW p \in Reqs, UpdateUserRole(p) \/ UpdateUserStatus(p) PROVE AcceptInv'
    <2>1. req[p].pc = "status" => req[p].arg # "none"
      BY AccountsAssumption DEF RequestInv
    <2>2. inv' = inv /\ sess' = sess
      BY <1>12 DEF UpdateUserRole, UpdateUserStatus
    <2>3. \A u \in Users : acct'[u].pw = acct[u].pw
      BY <1>12 DEF UpdateUserRole, UpdateUserStatus, AccountsTypeOK, Account
    <2>4. \A u \in Users : acct[u].st # "none" => acct'[u].st # "none"
      <3>1. CASE UpdateUserRole(p)
        BY <3>1 DEF UpdateUserRole, AccountsTypeOK, Account
      <3>2. CASE UpdateUserStatus(p)
        BY <2>1, <3>2 DEF UpdateUserStatus, AccountsTypeOK, Account
      <3> QED
        BY <1>12, <3>1, <3>2
    <2> QED
      BY <2>2, <2>3, <2>4
  <1>13. CASE UNCHANGED accountVars
    BY <1>13 DEF accountVars
  <1> QED
    BY <1>1, <1>2, <1>3, <1>4, <1>5, <1>6, <1>7, <1>8, <1>9, <1>10, <1>11, <1>12, <1>13 DEF AccountsNext

(* Nobody holds an administrator's token before accepting an invite, for   *)
(* any number of accounts and overlapping updates of any status.           *)
THEOREM LoginNeedsAcceptance == AccountsSpec => []NoLoginBeforeAcceptance
  <1>1. AccountsInit => AcceptInv
    BY DEF AccountsInit, AcceptInv, NoLoginBeforeAcceptance, NoAccount
  <1>2. AcceptInv => NoLoginBeforeAcceptance
    BY DEF AcceptInv
  <1> QED
    BY <1>1, <1>2, TypesInit, TypesInductive, AcceptInductive, PTL DEF AccountsSpec

-----------------------------------------------------------------------------
(* Where somebody knows the password there is no invite left to accept:    *)
(* either it was consumed or, for the bootstrap account, none was issued.  *)
SpentInv ==
    /\ \A u \in Users : acct[u].pw # "discarded" => inv[u] \in {"none", "consumed"}
    /\ boot \in {"createRandom", "createEnv"} => Accounts = {}

LEMMA SpentInductive ==
  AccountsTypeOK /\ RequestInv /\ AcceptInv /\ SpentInv /\ [AccountsNext]_accountVars => SpentInv'
  <1> SUFFICES ASSUME AccountsTypeOK, RequestInv, AcceptInv, SpentInv, [AccountsNext]_accountVars
               PROVE  SpentInv'
    OBVIOUS
  <1> USE DEF SpentInv
  <1>1. CASE BootstrapSecret
    BY <1>1 DEF BootstrapSecret, Accounts
  <1>2. CASE BootstrapSkip \/ Restart
    BY <1>2 DEF BootstrapSkip, Restart
  <1>3. CASE BootstrapCreate
    <2>1. inv[Root] = "none"
      BY <1>3, AccountsAssumption DEF BootstrapCreate, AcceptInv, Accounts
    <2> QED
      BY <1>3, <2>1 DEF BootstrapCreate, AccountsTypeOK
  <1>4. CASE BootstrapFlag
    BY <1>4 DEF BootstrapFlag, AccountsTypeOK, Account
  <1>5. ASSUME NEW u \in Users, Login(u) \/ ExpireToken(u) PROVE SpentInv'
    BY <1>5 DEF Login, ExpireToken, Accounts
  <1>6. ASSUME NEW u \in Users, ChangePassword(u) PROVE SpentInv'
    BY <1>6 DEF ChangePassword, AccountsTypeOK, Account
  <1>7. ASSUME NEW u \in Users, Accept(u) PROVE SpentInv'
    BY <1>7 DEF Accept, AccountsTypeOK, Account
  <1>8. ASSUME NEW u \in Users, ExpireInvite(u) PROVE SpentInv'
    BY <1>8 DEF ExpireInvite, AccountsTypeOK, Accounts
  <1>9. ASSUME NEW a \in Users, NEW u \in Users, NEW role \in Roles, Issue(a, u, role)
        PROVE SpentInv'
    BY <1>9 DEF Issue, AccountsTypeOK, Account
  <1>10. ASSUME NEW p \in Reqs, NEW a \in Users, NEW u \in Users, NEW x,
                UpdateRole(p, a, u, x) \/ UpdateStatus(p, a, u, x)
         PROVE SpentInv'
    BY <1>10 DEF UpdateRole, UpdateStatus
  <1>11. ASSUME NEW p \in Reqs, CountActiveAdmins(p) \/ UpdateFails(p) PROVE SpentInv'
    BY <1>11 DEF CountActiveAdmins, UpdateFails, Accounts
  <1>12. ASSUME NEW p \in Reqs, UpdateUserRole(p) \/ UpdateUserStatus(p) PROVE SpentInv'
    <2>1. boot' = "serving" /\ inv' = inv
      BY <1>12 DEF UpdateUserRole, UpdateUserStatus, RequestInv
    <2>2. \A u \in Users : acct'[u].pw = acct[u].pw
      BY <1>12 DEF UpdateUserRole, UpdateUserStatus, AccountsTypeOK, Account
    <2> QED
      BY <2>1, <2>2
  <1>13. CASE UNCHANGED accountVars
    BY <1>13 DEF accountVars, Accounts
  <1> QED
    BY <1>1, <1>2, <1>3, <1>4, <1>5, <1>6, <1>7, <1>8, <1>9, <1>10, <1>11, <1>12, <1>13 DEF AccountsNext

(* The steps that put an account to ACTIVE: an acceptance, which finds the *)
(* password discarded, the bootstrap, which finds no account, and the      *)
(* write of a status update.                                               *)
LEMMA ReactivationStep ==
  ASSUME AccountsTypeOK, RequestInv, SpentInv, [AccountsNext]_accountVars, NEW v \in Users,
         acct[v].st = "DEACTIVATED", acct[v].pw = "chosen", acct'[v].st = "ACTIVE"
  PROVE  \E p \in Reqs : req[p].pc = "status" /\ req[p].target = v /\ req[p].arg = "ACTIVE"
  <1>1. CASE BootstrapSecret \/ BootstrapSkip \/ Restart \/ UNCHANGED accountVars
    BY <1>1 DEF BootstrapSecret, BootstrapSkip, Restart, accountVars
  <1>2. CASE BootstrapCreate
    BY <1>2 DEF BootstrapCreate, SpentInv, Accounts
  <1>3. CASE BootstrapFlag
    BY <1>3 DEF BootstrapFlag, AccountsTypeOK, Account
  <1>4. ASSUME NEW u \in Users, Login(u) \/ ExpireToken(u) \/ ExpireInvite(u) PROVE FALSE
    BY <1>4 DEF Login, ExpireToken, ExpireInvite
  <1>5. ASSUME NEW u \in Users, ChangePassword(u) PROVE FALSE
    BY <1>5 DEF ChangePassword, AccountsTypeOK, Account
  <1>6. ASSUME NEW u \in Users, Accept(u) PROVE FALSE
    BY <1>6 DEF Accept, SpentInv, AccountsTypeOK
  <1>7. ASSUME NEW a \in Users, NEW u \in Users, NEW role \in Roles, Issue(a, u, role) PROVE FALSE
    BY <1>7 DEF Issue, AccountsTypeOK
  <1>8. ASSUME NEW p \in Reqs, NEW a \in Users, NEW u \in Users, NEW x,
               UpdateRole(p, a, u, x) \/ UpdateStatus(p, a, u, x)
        PROVE FALSE
    BY <1>8 DEF UpdateRole, UpdateStatus
  <1>9. ASSUME NEW p \in Reqs, UpdateUserRole(p) PROVE FALSE
    BY <1>9 DEF UpdateUserRole, AccountsTypeOK, Account
  <1>10. ASSUME NEW p \in Reqs, UpdateUserStatus(p)
         PROVE  req[p].pc = "status" /\ req[p].target = v /\ req[p].arg = "ACTIVE"
    BY <1>10 DEF UpdateUserStatus, AccountsTypeOK, Account, Req
  <1>11. ASSUME NEW p \in Reqs, CountActiveAdmins(p) \/ UpdateFails(p) PROVE FALSE
    BY <1>11 DEF CountActiveAdmins, UpdateFails
  <1> QED
    BY <1>1, <1>2, <1>3, <1>4, <1>5, <1>6, <1>7, <1>8, <1>9, <1>10, <1>11 DEF AccountsNext

(* An invite activates once: for any number of accounts and overlapping    *)
(* updates, a deactivated account whose owner chose a password comes back  *)
(* only by an administrator's status update.                               *)
THEOREM DeactivationIsFinal == AccountsSpec => AcceptedAccountStaysDown
  <1> DEFINE AccountsInv == AccountsTypeOK /\ RequestInv /\ AcceptInv /\ SpentInv
  <1>1. AccountsInit => AccountsInv
    BY TypesInit DEF AccountsInit, AcceptInv, NoLoginBeforeAcceptance, NoAccount, SpentInv
  <1>2. AccountsInv /\ [AccountsNext]_accountVars => AccountsInv'
    BY TypesInductive, AcceptInductive, SpentInductive
  <1>3. AccountsInv /\ [AccountsNext]_accountVars =>
           [\A u \in Users :
              acct[u].st = "DEACTIVATED" /\ acct[u].pw = "chosen" /\ acct'[u].st = "ACTIVE" =>
                 \E p \in Reqs : req[p].pc = "status" /\ req[p].target = u /\ req[p].arg = "ACTIVE"]_accountVars
    BY ReactivationStep
  <1> HIDE DEF AccountsInv
  <1> QED
    BY <1>1, <1>2, <1>3, PTL DEF AccountsSpec, AcceptedAccountStaysDown

-----------------------------------------------------------------------------
(* The write of a request takes an administrator away, by a status that    *)
(* the check looks at.                                                     *)
Removes(p) ==
    \/ req[p].pc = "role" /\ req[p].arg # "ADMIN"
    \/ req[p].pc = "status" /\ req[p].arg = "DEACTIVATED"

(* What the check found stays true until another update is written: a      *)
(* request about to take an administrator away that was not crossed leaves *)
(* another one.                                                            *)
WriteInv ==
    \A p \in Reqs : Removes(p) /\ ~req[p].crossed /\ acct[req[p].target].role = "ADMIN" =>
                       ActiveAdmins \ {req[p].target} # {}

AInv == AccountsTypeOK /\ RequestInv /\ WriteInv

(* A step that keeps the requests and the active administrators, and       *)
(* changes no role, keeps what a pending write relies on.                  *)
LEMMA WriteFrame ==
  ASSUME WriteInv, req' = req, ActiveAdmins \subseteq ActiveAdmins',
         \A p \in Reqs : req[p].pc # "idle" =>
            acct'[req[p].target].role = acct[req[p].target].role
  PROVE  WriteInv'
  BY DEF WriteInv, Removes

(* Every step but the write of an update.                                  *)
Elsewhere ==
    \/ BootstrapSecret \/ BootstrapSkip \/ BootstrapCreate \/ BootstrapFlag \/ Restart
    \/ \E u \in Users : \/ Login(u) \/ ExpireToken(u) \/ ChangePassword(u)
                        \/ Accept(u) \/ ExpireInvite(u)
                        \/ \E a \in Users, role \in Roles : Issue(a, u, role)
    \/ \E p \in Reqs :
          \/ \E a \in Users, u \in Users :
                \/ \E role \in Roles : UpdateRole(p, a, u, role)
                \/ \E status \in StatusRequests : UpdateStatus(p, a, u, status)
          \/ CountActiveAdmins(p) \/ UpdateFails(p)
    \/ UNCHANGED accountVars

LEMMA ElsewhereKeeps ==
  ASSUME AInv, Elsewhere
  PROVE  ActiveAdmins \subseteq ActiveAdmins' /\ WriteInv'
  <1> USE DEF AInv
  <1>1. CASE BootstrapSecret \/ BootstrapSkip \/ UNCHANGED accountVars
    BY <1>1 DEF BootstrapSecret, BootstrapSkip, accountVars, WriteInv, Removes, ActiveAdmins
  <1>2. CASE BootstrapCreate \/ BootstrapFlag
    <2>1. \A p \in Reqs : req'[p].pc = "idle"
      BY <1>2 DEF BootstrapCreate, BootstrapFlag, RequestInv
    <2>2. ActiveAdmins \subseteq ActiveAdmins'
      BY <1>2 DEF BootstrapCreate, BootstrapFlag, ActiveAdmins, AccountsTypeOK, Account
    <2> QED
      BY <2>1, <2>2 DEF WriteInv, Removes
  <1>3. CASE Restart
    BY <1>3 DEF Restart, WriteInv, Removes, ActiveAdmins, IdleReq
  <1>4. ASSUME NEW u \in Users, Login(u) \/ ExpireToken(u) \/ ExpireInvite(u)
        PROVE ActiveAdmins \subseteq ActiveAdmins' /\ WriteInv'
    BY <1>4 DEF Login, ExpireToken, ExpireInvite, WriteInv, Removes, ActiveAdmins
  <1>5. ASSUME NEW u \in Users, ChangePassword(u) PROVE ActiveAdmins \subseteq ActiveAdmins' /\ WriteInv'
    <2>1. ActiveAdmins' = ActiveAdmins
      BY <1>5 DEF ChangePassword, ActiveAdmins, AccountsTypeOK, Account
    <2>2. \A v \in Users : acct'[v].role = acct[v].role
      BY <1>5 DEF ChangePassword, AccountsTypeOK, Account
    <2> QED
      BY <1>5, <2>1, <2>2, WriteFrame DEF ChangePassword, AccountsTypeOK, Req
  <1>6. ASSUME NEW u \in Users, Accept(u) PROVE ActiveAdmins \subseteq ActiveAdmins' /\ WriteInv'
    <2>1. ActiveAdmins \subseteq ActiveAdmins'
      BY <1>6 DEF Accept, ActiveAdmins, AccountsTypeOK, Account
    <2>2. \A v \in Users : acct'[v].role = acct[v].role
      BY <1>6 DEF Accept, AccountsTypeOK, Account
    <2> QED
      BY <1>6, <2>1, <2>2, WriteFrame DEF Accept, AccountsTypeOK, Req
  <1>7. ASSUME NEW a \in Users, NEW u \in Users, NEW role \in Roles, Issue(a, u, role)
        PROVE ActiveAdmins \subseteq ActiveAdmins' /\ WriteInv'
    <2>1. ActiveAdmins \subseteq ActiveAdmins'
      BY <1>7 DEF Issue, ActiveAdmins, AccountsTypeOK, Account
    <2>2. \A v \in Users : acct[v].st # "none" => acct'[v].role = acct[v].role
      BY <1>7 DEF Issue, AccountsTypeOK, Account
    <2> QED
      BY <1>7, <2>1, <2>2, WriteFrame DEF Issue, AccountsTypeOK, Req, RequestInv
  \* An update starts: what needs no count takes nobody away as things are.
  <1>8. ASSUME NEW p \in Reqs, NEW a \in Users, NEW u \in Users,
               NEW x \in Roles \cup StatusRequests,
               UpdateRole(p, a, u, x) \/ UpdateStatus(p, a, u, x)
        PROVE ActiveAdmins \subseteq ActiveAdmins' /\ WriteInv'
    <2>1. acct' = acct /\ ActiveAdmins' = ActiveAdmins
      BY <1>8 DEF UpdateRole, UpdateStatus, ActiveAdmins
    <2>2. \A q \in Reqs : q # p => req'[q] = req[q]
      BY <1>8 DEF UpdateRole, UpdateStatus, AccountsTypeOK
    <2>3. Removes(p)' => acct'[req'[p].target].role # "ADMIN"
      <3>1. CASE UpdateRole(p, a, u, x)
        BY <3>1 DEF UpdateRole, Removes, AccountsTypeOK
      <3>2. CASE UpdateStatus(p, a, u, x)
        BY <3>2 DEF UpdateStatus, Removes, AccountsTypeOK
      <3> QED
        BY <1>8, <3>1, <3>2
    <2>4. WriteInv'
      BY <2>1, <2>2, <2>3 DEF WriteInv, Removes
    <2> QED
      BY <2>1, <2>4
  <1>9. ASSUME NEW p \in Reqs, CountActiveAdmins(p) PROVE ActiveAdmins \subseteq ActiveAdmins' /\ WriteInv'
    <2>1. acct' = acct /\ ActiveAdmins' = ActiveAdmins
      BY <1>9 DEF CountActiveAdmins, ActiveAdmins
    <2>2. \A q \in Reqs : q # p => req'[q] = req[q]
      BY <1>9 DEF CountActiveAdmins, AccountsTypeOK
    <2>3. Removes(p)' => ActiveAdmins \ {req'[p].target} # {}
      <3>1. CASE ActiveAdmins \ {req[p].target} # {}
        <4>1. req'[p] = [req[p] EXCEPT !.pc = req[p].op, !.crossed = FALSE]
          BY <1>9, <3>1 DEF CountActiveAdmins, AccountsTypeOK
        <4>2. req'[p].target = req[p].target
          BY <4>1 DEF AccountsTypeOK, Req
        <4> QED
          BY <3>1, <4>2
      <3>2. CASE ~(ActiveAdmins \ {req[p].target} # {})
        BY <1>9, <3>2 DEF CountActiveAdmins, AccountsTypeOK, Removes, IdleReq
      <3> QED
        BY <3>1, <3>2
    <2>4. WriteInv'
      BY <2>1, <2>2, <2>3 DEF WriteInv, Removes
    <2> QED
      BY <2>1, <2>4
  <1>10. ASSUME NEW p \in Reqs, UpdateFails(p) PROVE ActiveAdmins \subseteq ActiveAdmins' /\ WriteInv'
    BY <1>10 DEF UpdateFails, ActiveAdmins, AccountsTypeOK, WriteInv, Removes, IdleReq
  <1> QED
    BY <1>1, <1>2, <1>3, <1>4, <1>5, <1>6, <1>7, <1>8, <1>9, <1>10 DEF Elsewhere

(* The write of an update that takes the last active administrator away    *)
(* was crossed, or its status is INVITED.                                  *)
LEMMA LastAdminWrite ==
  ASSUME AInv, NEW p \in Reqs, UpdateUserRole(p) \/ UpdateUserStatus(p),
         ActiveAdmins # {}, ActiveAdmins' = {}
  PROVE  /\ req[p].pc \in {"role", "status"}
         /\ req'[p].pc = "idle"
         /\ req[p].crossed \/ req[p].arg = "INVITED"
  <1> USE DEF AInv
  <1> DEFINE t == req[p].target
  <1>1. req'[p] = IdleReq /\ req[p].pc \in {"role", "status"}
    BY WrittenIs DEF UpdateUserRole, UpdateUserStatus
  <1>2. t \in Users /\ acct[t] \in Account
    BY DEF AccountsTypeOK, Req
  <1>3. ActiveAdmins \ {t} \subseteq ActiveAdmins'
    BY <1>2 DEF UpdateUserRole, UpdateUserStatus, ActiveAdmins, AccountsTypeOK, Account
  <1>4. ActiveAdmins = {t}
    BY <1>3
  <1>5. Removes(p) \/ req[p].arg = "INVITED"
    <2>1. CASE UpdateUserRole(p)
      BY <1>2, <1>4, <2>1 DEF UpdateUserRole, Removes, ActiveAdmins, AccountsTypeOK, Account
    <2>2. CASE UpdateUserStatus(p)
      <3>1. req[p].arg \in {"ACTIVE", "DEACTIVATED", "INVITED"}
        BY <2>2, AccountsAssumption DEF UpdateUserStatus, RequestInv
      <3>2. req[p].arg # "ACTIVE"
        BY <1>2, <1>4, <2>2 DEF UpdateUserStatus, ActiveAdmins, AccountsTypeOK, Account
      <3> QED
        BY <2>2, <3>1, <3>2 DEF UpdateUserStatus, Removes
    <2> QED
      BY <2>1, <2>2
  <1>6. acct[t].role = "ADMIN"
    BY <1>4 DEF ActiveAdmins
  <1>7. Removes(p) => req[p].crossed
    BY <1>4, <1>6 DEF WriteInv
  <1> QED
    BY <1>1, <1>5, <1>7 DEF IdleReq

LEMMA WriteInvStep == ASSUME AInv, [AccountsNext]_accountVars PROVE WriteInv'
  <1>1. ASSUME NEW p \in Reqs, UpdateUserRole(p) \/ UpdateUserStatus(p) PROVE WriteInv'
    \* Every other request is idle or crossed now.
    <2>1. RequestsKept(p)
      BY <1>1, WrittenIs DEF AInv, UpdateUserRole, UpdateUserStatus
    <2> QED
      BY <2>1 DEF RequestsKept, WriteInv, Removes, IdleReq
  <1>2. CASE Elsewhere
    BY <1>2, ElsewhereKeeps
  <1> QED
    BY <1>1, <1>2 DEF AccountsNext, Elsewhere

(* Last-administrator protection as far as the code keeps it: for any      *)
(* number of accounts and overlapping updates, through bootstrap,          *)
(* invitations and restarts, the last active administrator is taken away   *)
(* only by an update that crossed another one or by the status INVITED.    *)
THEOREM LastAdminProtection == AccountsSpec => LastAdminFallsByCrossing
  <1>1. AccountsInit => AInv
    BY TypesInit DEF AInv, AccountsInit, WriteInv, Removes, IdleReq
  <1>2. AInv /\ [AccountsNext]_accountVars => AInv'
    BY TypesInductive, WriteInvStep DEF AInv
  <1>3. AInv /\ [AccountsNext]_accountVars =>
          [ActiveAdmins # {} /\ ActiveAdmins' = {} =>
             \E p \in Reqs : /\ req[p].pc \in {"role", "status"}
                             /\ req'[p].pc = "idle"
                             /\ req[p].crossed \/ req[p].arg = "INVITED"]_accountVars
    <2> SUFFICES ASSUME AInv, [AccountsNext]_accountVars, ActiveAdmins # {}, ActiveAdmins' = {}
                 PROVE  \E p \in Reqs : /\ req[p].pc \in {"role", "status"}
                                        /\ req'[p].pc = "idle"
                                        /\ req[p].crossed \/ req[p].arg = "INVITED"
      OBVIOUS
    <2>1. ~Elsewhere
      BY ElsewhereKeeps
    <2>2. PICK p \in Reqs : UpdateUserRole(p) \/ UpdateUserStatus(p)
      BY <2>1 DEF AccountsNext, Elsewhere
    <2> QED
      BY <2>2, LastAdminWrite
  <1> QED
    BY <1>1, <1>2, <1>3, PTL DEF AccountsSpec, LastAdminFallsByCrossing
=============================================================================
