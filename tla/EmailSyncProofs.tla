--------------------------- MODULE EmailSyncProofs ---------------------------
(***************************************************************************)
(* The safety of EmailSync for any number of accounts, mailboxes, jobs,    *)
(* requests and mails, under every overlap, failure and crash.             *)
(*                                                                         *)
(* NoMailIsSkipped is not inductive: the watermark is written from what a  *)
(* sync remembers of a fetch that may be long past.  SyncReaches says what *)
(* makes that memory safe: everything below the watermark to be written is *)
(* known already or still to be ingested by this very sync.                *)
(***************************************************************************)
EXTENDS EmailSync, SequenceTheorems, TLAPS

(* The Message-IDs no later sync has to bring in.                          *)
Known == StoredIds \cup purged \cup dropped

(* The first n mails of a mailbox are known, or among those still to do.   *)
Covers(box, known, n, todo) ==
    /\ n <= Len(box)
    /\ \A i \in 1..n : \/ MailId[box[i]] \in known
                       \/ \E j \in 1..Len(todo) : todo[j] = box[i]

(* An account that exists has a mailbox; one not yet created has no        *)
(* watermark.                                                              *)
AccountsHold ==
    \A a \in Accounts : /\ Exists(a) => account[a].box \in Boxes
                        /\ account[a].state = "absent" => account[a].lastUid = 0

(* A sync under way belongs to an account that was there when it began.    *)
SyncsHold ==
    \A p \in Syncs :
        /\ sync[p].pc # "idle" => /\ sync[p].account \in Accounts /\ sync[p].box \in Boxes
                                  /\ account[sync[p].account].state # "absent"
        /\ sync[p].pc \in {"idle", "fetch"} => sync[p].got = {}
        /\ sync[p].pc = "ingest" => sync[p].since <= sync[p].last

MarkReached(a) ==
    a \notin moved /\ Exists(a) =>
        Covers(mailbox[account[a].box], Known, account[a].lastUid, << >>)

(* What a sync has fetched, and what it is still to ingest, covers         *)
(* everything below the watermark it is going to write.                    *)
SyncReaches(p) ==
    sync[p].pc \in {"fetch", "ingest"} /\ sync[p].account \notin moved /\ Exists(sync[p].account) =>
        /\ sync[p].box = account[sync[p].account].box
        /\ sync[p].pc = "fetch" => Covers(mailbox[sync[p].box], Known, sync[p].since, << >>)
        /\ sync[p].pc = "ingest" => Covers(mailbox[sync[p].box], Known, sync[p].last, sync[p].todo)

AllReach == (\A a \in Accounts : MarkReached(a)) /\ (\A p \in Syncs : SyncReaches(p))

(* A row whose workflows were triggered is there, or went with its account.*)
TriggersHold ==
    \A k \in Accounts \X Ids :
        /\ triggers[k] <= 1
        /\ triggers[k] = 1 => k \in DOMAIN messages \/ account[k[1]].state = "deleted"

(* A request to send belongs to an account that was there when it began.   *)
SendsHold ==
    \A s \in Sends :
        /\ send[s].pc # "new" => /\ send[s].account \in Accounts
                                 /\ account[send[s].account].state # "absent"
        /\ send[s].pc = "record" => s \in sent

Safe == TypeOK /\ AccountsHold /\ SyncsHold /\ SendsHold

------------------------------------------------------------------------------
LEMMA NoSyncTyped ==
  NoSync \in SyncState
  BY EmailAssumption DEF NoSync, SyncState

(* A fetch returns every mail above the watermark, and only mails.         *)
LEMMA FetchedFacts ==
  ASSUME NEW box \in Seq(Mails), NEW since \in Nat
  PROVE  /\ Fetched(box, since) \in Seq(Mails)
         /\ \A i \in 1..Len(box) : i > since =>
               \E j \in 1..Len(Fetched(box, since)) : Fetched(box, since)[j] = box[i]
<1>1. CASE box = << >>
  BY <1>1 DEF Fetched
<1>2. CASE box # << >>
  <2> DEFINE m == IF since < Len(box) THEN since + 1 ELSE Len(box)
             f == SubSeq(box, m, Len(box))
  <2>1. Len(box) \in Nat /\ Len(box) > 0
    BY <1>2, EmptySeq, LenProperties
  <2>2. m \in 1..Len(box)
    BY <2>1
  <2>3. /\ f \in Seq(Mails) /\ Len(f) = Len(box) - m + 1
        /\ \A j \in 1..(Len(box) - m + 1) : f[j] = box[m + j - 1]
    <3> HIDE DEF m
    <3> QED BY <2>1, <2>2, SubSeqProperties
  <2>4. Fetched(box, since) = f
    BY <1>2 DEF Fetched
  <2>5. ASSUME NEW i \in 1..Len(box), i > since
        PROVE  \E j \in 1..Len(f) : f[j] = box[i]
    <3>1. m <= i
      BY <2>1, <2>5
    <3>2. i - m + 1 \in 1..(Len(box) - m + 1) /\ m + (i - m + 1) - 1 = i
      BY <2>1, <2>2, <3>1
    <3>3. f[i - m + 1] = box[i]
      <4> HIDE DEF f, m
      <4> QED BY <2>3, <3>2
    <3> QED BY <2>3, <3>2, <3>3
  <2> QED BY <2>3, <2>4, <2>5
<1> QED BY <1>1, <1>2

LEMMA CoversMore ==
  ASSUME NEW box \in Seq(Mails), NEW more \in Seq(Mails), NEW known, NEW alsoKnown,
         NEW n \in Nat, NEW todo,
         Len(box) <= Len(more), \A i \in 1..Len(box) : more[i] = box[i],
         known \subseteq alsoKnown, Covers(box, known, n, todo)
  PROVE  Covers(more, alsoKnown, n, todo)
<1>1. Len(box) \in Nat /\ Len(more) \in Nat
  BY LenProperties
<1>2. \A i \in 1..n : i \in 1..Len(box) /\ more[i] = box[i]
  BY <1>1 DEF Covers
<1>3. n <= Len(more)
  BY <1>1 DEF Covers
<1>4. ASSUME NEW i \in 1..n
      PROVE  MailId[more[i]] \in alsoKnown \/ \E j \in 1..Len(todo) : todo[j] = more[i]
  BY <1>2 DEF Covers
<1> QED BY <1>3, <1>4 DEF Covers

(* Ingesting the first mail that is to do makes it known.                  *)
LEMMA CoversTail ==
  ASSUME NEW box \in Seq(Mails), NEW known, NEW alsoKnown, NEW n \in Nat, NEW todo \in Seq(Mails),
         todo # << >>, known \subseteq alsoKnown, MailId[Head(todo)] \in alsoKnown,
         Covers(box, known, n, todo)
  PROVE  Covers(box, alsoKnown, n, Tail(todo))
<1>1. Len(todo) \in Nat /\ Len(todo) > 0
  BY EmptySeq, LenProperties
<1>2. Len(Tail(todo)) = Len(todo) - 1 /\ \A j \in 1..(Len(todo) - 1) : Tail(todo)[j] = todo[j + 1]
  BY HeadTailProperties
<1>3. Head(todo) = todo[1]
  BY HeadTailProperties
<1>4. ASSUME NEW i \in 1..n, NEW j \in 1..Len(todo), todo[j] = box[i]
      PROVE  MailId[box[i]] \in alsoKnown \/ \E l \in 1..Len(Tail(todo)) : Tail(todo)[l] = box[i]
  <2>1. CASE j = 1
    BY <1>3, <1>4, <2>1
  <2>2. CASE j # 1
    <3>1. j - 1 \in 1..(Len(todo) - 1) /\ (j - 1) + 1 = j
      BY <1>1, <2>2
    <3>2. Tail(todo)[j - 1] = box[i]
      BY <1>2, <1>4, <3>1
    <3> QED BY <1>2, <3>1, <3>2
  <2> QED BY <2>1, <2>2
<1> QED BY <1>4 DEF Covers
------------------------------------------------------------------------------
LEMMA TypeInit == Init => TypeOK
<1> SUFFICES ASSUME Init PROVE TypeOK
  OBVIOUS
<1>1. RowsTyped
  <2>1. << >> \in Seq(Mails) /\ Len(<< >>) = 0
    OBVIOUS
  <2>2. mailbox \in [Boxes -> Seq(Mails)] /\ \A b \in Boxes : Len(mailbox[b]) <= MaxUid
    BY <2>1, EmailAssumption DEF Init
  <2>3. messages \in [DOMAIN messages -> {"none", "user", "triage"}] /\ DOMAIN messages \subseteq Keys
    BY DEF Init
  <2> QED BY <2>2, <2>3, EmailAssumption DEF Init, RowsTyped, AccountRow
<1>2. JobsTyped
  BY NoSyncTyped, EmailAssumption DEF Init, JobsTyped
<1>3. RequestsTyped
  BY EmailAssumption DEF Init, RequestsTyped
<1>4. HistoryTyped
  BY DEF Init, HistoryTyped
<1> QED BY <1>1, <1>2, <1>3, <1>4 DEF TypeOK

(* A sync that begins, and one that is given up.                           *)
LEMMA BeginTyped ==
  ASSUME RowsTyped, JobsTyped, NEW p \in Syncs, NEW a \in Accounts, Begin(p, a)
  PROVE  sync' \in [Syncs -> SyncState]
<1>1. account[a] \in AccountRow
  BY DEF RowsTyped
<1> DEFINE s == [NoSync EXCEPT !.pc = "fetch", !.account = a, !.box = account[a].box,
                               !.since = account[a].lastUid]
<1>2. s \in SyncState
  BY <1>1, NoSyncTyped DEF AccountRow, SyncState
<1>3. sync' \in {sync, [sync EXCEPT ![p] = s]}
  BY DEF Begin
<1> QED
  <2> HIDE DEF s
  <2> QED BY <1>2, <1>3 DEF JobsTyped

LEMMA AbandonTyped ==
  ASSUME JobsTyped, NEW p \in Syncs, sync[p].account \in Accounts, Abandon(p), triageJobs' = triageJobs
  PROVE  JobsTyped'
<1>1. sync' \in [Syncs -> SyncState]
  BY NoSyncTyped DEF Abandon, JobsTyped
<1>2. syncJobs' \in [Accounts -> 0..MaxQueue]
  BY EmailAssumption DEF Abandon, JobsTyped
<1>3. sync[p].got \subseteq Accounts \X Ids
  BY DEF JobsTyped, SyncState
<1> QED BY <1>1, <1>2, <1>3 DEF Abandon, JobsTyped

(* What a failing or a working call does to the count of failures.         *)
LEMMA FaultsTyped == ASSUME RequestsTyped, Works \/ Fails PROVE faults' \in 0..MaxFaults
  BY EmailAssumption DEF RequestsTyped, Works, Fails

LEMMA TypeStep == ASSUME Safe, [Next]_vars PROVE TypeOK'
<1> USE EmailAssumption DEF rows, queue, history
<1>0. RowsTyped /\ JobsTyped /\ RequestsTyped /\ HistoryTyped /\ AccountsHold /\ SyncsHold
  BY DEF Safe, TypeOK
<1>1. ASSUME NEW b \in Boxes, NEW m \in Mails, Deliver(b, m) PROVE TypeOK'
  <2>1. Append(mailbox[b], m) \in Seq(Mails) /\ Len(Append(mailbox[b], m)) = Len(mailbox[b]) + 1
    BY <1>0, AppendProperties DEF RowsTyped
  <2>2. mailbox' \in [Boxes -> Seq(Mails)] /\ \A c \in Boxes : Len(mailbox'[c]) <= MaxUid
    BY <1>0, <1>1, <2>1, LenProperties DEF Deliver, RowsTyped
  <2>3. RowsTyped'
    BY <1>0, <1>1, <2>2 DEF Deliver, RowsTyped
  <2>4. JobsTyped' /\ RequestsTyped' /\ HistoryTyped'
    BY <1>0, <1>1 DEF Deliver, JobsTyped, RequestsTyped, HistoryTyped
  <2> QED BY <2>3, <2>4 DEF TypeOK
<1>2. ASSUME NEW a \in Accounts, CreateAccount(a) PROVE TypeOK'
  <2>1. RowsTyped'
    BY <1>0, <1>2 DEF CreateAccount, RowsTyped, AccountRow
  <2>2. JobsTyped' /\ RequestsTyped' /\ HistoryTyped'
    BY <1>0, <1>2 DEF CreateAccount, JobsTyped, RequestsTyped, HistoryTyped
  <2> QED BY <2>1, <2>2 DEF TypeOK
<1>3. ASSUME NEW a \in Accounts, NEW b \in Boxes, NEW active \in BOOLEAN, UpdateAccount(a, b, active)
      PROVE  TypeOK'
  <2> DEFINE st == IF active THEN "active" ELSE "inactive"
  <2>1. account' = [account EXCEPT ![a] = [account[a] EXCEPT !.box = b, !.state = st]]
    BY <1>3 DEF UpdateAccount
  <2>2. [account[a] EXCEPT !.box = b, !.state = st] \in AccountRow
    BY <1>0 DEF RowsTyped, AccountRow
  <2>3. RowsTyped'
    <3> HIDE DEF st
    <3> QED BY <1>0, <1>3, <2>1, <2>2 DEF UpdateAccount, RowsTyped
  <2>4. JobsTyped' /\ RequestsTyped' /\ HistoryTyped'
    BY <1>0, <1>3 DEF UpdateAccount, JobsTyped, RequestsTyped, HistoryTyped
  <2> QED BY <2>3, <2>4 DEF TypeOK
<1>4. ASSUME NEW a \in Accounts, DeleteAccount(a) PROVE TypeOK'
  <2>1. RowsTyped'
    <3>1. account' \in [Accounts -> AccountRow]
      BY <1>0, <1>4 DEF DeleteAccount, RowsTyped, AccountRow
    <3>2. DOMAIN messages' \subseteq Keys /\ messages' \in [DOMAIN messages' -> {"none", "user", "triage"}]
      BY <1>0, <1>4 DEF DeleteAccount, RowsTyped
    <3> QED BY <1>0, <1>4, <3>1, <3>2 DEF DeleteAccount, RowsTyped
  <2>2. JobsTyped' /\ RequestsTyped'
    BY <1>0, <1>4 DEF DeleteAccount, JobsTyped, RequestsTyped
  <2>3. purged' \subseteq Ids \cup Sends
    BY <1>0, <1>4 DEF DeleteAccount, Keys, RowsTyped, HistoryTyped
  <2>4. HistoryTyped'
    BY <1>0, <1>4, <2>3 DEF DeleteAccount, HistoryTyped
  <2> QED BY <2>1, <2>2, <2>4 DEF TypeOK
<1>5. ASSUME NEW k \in Keys, TagMessage(k) PROVE TypeOK'
  <2>1. RowsTyped'
    BY <1>0, <1>5 DEF TagMessage, RowsTyped
  <2>2. JobsTyped' /\ RequestsTyped' /\ HistoryTyped'
    BY <1>0, <1>5 DEF TagMessage, JobsTyped, RequestsTyped, HistoryTyped
  <2> QED BY <2>1, <2>2 DEF TypeOK
<1>6. CASE EmailSyncAll
  <2>1. RowsTyped' /\ HistoryTyped'
    BY <1>0, <1>6 DEF EmailSyncAll, RowsTyped, HistoryTyped
  <2>2. JobsTyped'
    BY <1>0, <1>6 DEF EmailSyncAll, JobsTyped
  <2>3. RequestsTyped'
    <3>1. Works \/ Fails
      BY <1>6 DEF EmailSyncAll
    <3> QED BY <1>0, <1>6, <3>1, FaultsTyped DEF EmailSyncAll, RequestsTyped
  <2> QED BY <2>1, <2>2, <2>3 DEF TypeOK
<1>7. ASSUME NEW w \in Workers, NEW a \in Accounts, BeginJob(w, a) PROVE TypeOK'
  <2>1. RowsTyped' /\ RequestsTyped' /\ HistoryTyped'
    BY <1>0, <1>7 DEF BeginJob, RowsTyped, RequestsTyped, HistoryTyped
  <2>2. sync' \in [Syncs -> SyncState]
    BY <1>0, <1>7, BeginTyped DEF BeginJob, Syncs
  <2>3. syncJobs' \in [Accounts -> 0..MaxQueue]
    BY <1>0, <1>7 DEF BeginJob, JobsTyped
  <2>4. JobsTyped'
    BY <1>0, <1>7, <2>2, <2>3 DEF BeginJob, JobsTyped
  <2> QED BY <2>1, <2>4 DEF TypeOK
<1>8. ASSUME NEW h \in Handlers, NEW a \in Accounts, BeginRequest(h, a) PROVE TypeOK'
  <2>1. RowsTyped' /\ HistoryTyped'
    BY <1>0, <1>8 DEF BeginRequest, RowsTyped, HistoryTyped
  <2>2. RequestsTyped'
    BY <1>0, <1>8 DEF BeginRequest, RequestsTyped
  <2>3. sync' \in [Syncs -> SyncState]
    BY <1>0, <1>8, BeginTyped DEF BeginRequest, Syncs
  <2>4. JobsTyped'
    BY <1>0, <1>8, <2>3 DEF BeginRequest, JobsTyped
  <2> QED BY <2>1, <2>2, <2>4 DEF TypeOK
<1>9. ASSUME NEW p \in Syncs, FetchNewMessages(p) PROVE TypeOK'
  <2> DEFINE box == mailbox[sync[p].box]
             found == Fetched(box, sync[p].since)
             last == LastUID(box, sync[p].since)
  <2>1. RowsTyped' /\ HistoryTyped'
    BY <1>0, <1>9 DEF FetchNewMessages, RowsTyped, HistoryTyped
  <2>2. RequestsTyped'
    <3>1. Works \/ Fails
      BY <1>9 DEF FetchNewMessages
    <3> QED BY <1>0, <1>9, <3>1, FaultsTyped DEF FetchNewMessages, RequestsTyped
  <2>3. sync[p] \in SyncState /\ sync[p].account \in Accounts /\ sync[p].box \in Boxes /\ triageJobs' = triageJobs
    BY <1>0, <1>9 DEF FetchNewMessages, JobsTyped, SyncsHold
  <2>4. box \in Seq(Mails) /\ Len(box) \in 0..MaxUid /\ sync[p].since \in 0..MaxUid
    BY <1>0, <2>3, LenProperties DEF RowsTyped, SyncState
  <2>5. found \in Seq(Mails) /\ last \in 0..MaxUid
    BY <2>4, FetchedFacts DEF LastUID
  <2>6. \/ /\ sync' = [sync EXCEPT ![p] = [sync[p] EXCEPT !.pc = "ingest", !.todo = found, !.last = last]]
           /\ UNCHANGED <<syncJobs, untriaged>>
        \/ Abandon(p)
    BY <1>9 DEF FetchNewMessages
  <2> HIDE DEF found, last
  <2>7. [sync[p] EXCEPT !.pc = "ingest", !.todo = found, !.last = last] \in SyncState
    BY <2>3, <2>5 DEF SyncState
  <2>8. JobsTyped'
    <3>1. CASE Abandon(p)
      BY <1>0, <2>3, <3>1, AbandonTyped
    <3>2. CASE ~Abandon(p)
      BY <1>0, <2>3, <2>6, <2>7, <3>2 DEF JobsTyped
    <3> QED BY <3>1, <3>2
  <2> QED BY <2>1, <2>2, <2>8 DEF TypeOK
<1>10. ASSUME NEW p \in Syncs, IngestMessage(p) PROVE TypeOK'
  <2> DEFINE a == sync[p].account
             id == MailId[Head(sync[p].todo)]
             k == <<a, id>>
  <2>1. sync[p] \in SyncState /\ a \in Accounts /\ sync[p].todo # << >> /\ sync[p].todo \in Seq(Mails)
    BY <1>0, <1>10 DEF IngestMessage, JobsTyped, SyncsHold, SyncState
  <2>2. Head(sync[p].todo) \in Mails /\ Tail(sync[p].todo) \in Seq(Mails)
    BY <2>1, HeadTailProperties
  <2>3. id \in Ids /\ k \in Accounts \X Ids /\ k \in Keys
    BY <2>1, <2>2 DEF Ids, Keys
  <2>4. /\ messages' \in {messages, WithRow(k)}
        /\ triggers' \in {triggers, [triggers EXCEPT ![k] = @ + 1]}
        /\ untriaged' \in {untriaged, untriaged \cup {k}}
        /\ dropped' \in {dropped, dropped \cup {id}}
        /\ \E inserted \in BOOLEAN :
             sync' = [sync EXCEPT ![p] = [sync[p] EXCEPT !.todo = Tail(sync[p].todo),
                                                         !.got = sync[p].got \cup Ingested(k, inserted)]]
        /\ Works \/ Fails
    BY <1>10 DEF IngestMessage
  <2>5. UNCHANGED <<mailbox, account, queue, send, sent, ops, purged, moved>>
    BY <1>10 DEF IngestMessage
  <2> HIDE DEF k, id, a
  <2>6. RowsTyped'
    <3>1. DOMAIN WithRow(k) = DOMAIN messages \cup {k}
          /\ WithRow(k) \in [DOMAIN WithRow(k) -> {"none", "user", "triage"}]
      BY <1>0 DEF WithRow, RowsTyped
    <3> QED BY <1>0, <2>3, <2>4, <2>5, <3>1 DEF RowsTyped
  <2>7. RequestsTyped'
    BY <1>0, <2>4, <2>5, FaultsTyped DEF RequestsTyped
  <2>8. HistoryTyped'
    BY <1>0, <2>3, <2>4, <2>5 DEF HistoryTyped
  <2>9. JobsTyped'
    <3>1. PICK inserted \in BOOLEAN :
             sync' = [sync EXCEPT ![p] = [sync[p] EXCEPT !.todo = Tail(sync[p].todo),
                                                         !.got = sync[p].got \cup Ingested(k, inserted)]]
      BY <2>4
    <3>2. Ingested(k, inserted) \subseteq Accounts \X Ids
      BY <2>3 DEF Ingested
    <3>3. [sync[p] EXCEPT !.todo = Tail(sync[p].todo), !.got = sync[p].got \cup Ingested(k, inserted)]
            \in SyncState
      BY <2>1, <2>2, <3>2 DEF SyncState
    <3> QED BY <1>0, <2>3, <2>4, <2>5, <3>1, <3>3 DEF JobsTyped
  <2> QED BY <2>6, <2>7, <2>8, <2>9 DEF TypeOK
<1>11. ASSUME NEW p \in Syncs, UpdateSyncState(p) PROVE TypeOK'
  <2> DEFINE a == sync[p].account
  <2>1. sync[p] \in SyncState /\ a \in Accounts
    BY <1>0, <1>11 DEF UpdateSyncState, JobsTyped, SyncsHold
  <2>2. account' \in {account, [account EXCEPT ![a] = [account[a] EXCEPT !.lastUid = sync[p].last]]}
    BY <1>11 DEF UpdateSyncState
  <2>3. [account[a] EXCEPT !.lastUid = sync[p].last] \in AccountRow
    <3>1. account[a] \in AccountRow /\ sync[p].last \in 0..MaxUid
      BY <1>0, <2>1 DEF RowsTyped, SyncState
    <3> HIDE DEF a
    <3> QED BY <3>1 DEF AccountRow
  <2>4. RowsTyped'
    <3> HIDE DEF a
    <3> QED BY <1>0, <1>11, <2>1, <2>2, <2>3 DEF UpdateSyncState, RowsTyped
  <2>5. HistoryTyped'
    BY <1>0, <1>11 DEF UpdateSyncState, HistoryTyped
  <2>6. RequestsTyped'
    <3>1. Works \/ Fails
      BY <1>11 DEF UpdateSyncState
    <3> QED BY <1>0, <1>11, <3>1, FaultsTyped DEF UpdateSyncState, RequestsTyped
  <2>7. JobsTyped'
    <3>1. CASE Abandon(p)
      BY <1>0, <1>11, <2>1, <3>1, AbandonTyped DEF UpdateSyncState
    <3>2. CASE ~Abandon(p)
      <4>1. [sync[p] EXCEPT !.pc = "enqueue"] \in SyncState
        BY <2>1 DEF SyncState
      <4>2. /\ sync' \in {[sync EXCEPT ![p] = [sync[p] EXCEPT !.pc = "enqueue"]], [sync EXCEPT ![p] = NoSync]}
            /\ UNCHANGED <<syncJobs, untriaged, triageJobs>>
        BY <1>11, <3>2 DEF UpdateSyncState
      <4> QED BY <1>0, <4>1, <4>2, NoSyncTyped DEF JobsTyped
    <3> QED BY <3>1, <3>2
  <2> QED BY <2>4, <2>5, <2>6, <2>7 DEF TypeOK
<1>12. ASSUME NEW w \in Workers, EnqueueTriage(w) PROVE TypeOK'
  <2>1. PICK k \in sync[w].got :
          /\ sync' = [sync EXCEPT ![w] = [sync[w] EXCEPT !.got = sync[w].got \ {k}]]
          /\ triageJobs' \in {triageJobs, triageJobs \cup {k}}
          /\ untriaged' \in {untriaged, untriaged \cup {k}}
          /\ Works \/ Fails
    BY <1>12 DEF EnqueueTriage
  <2>2. w \in Syncs /\ sync[w] \in SyncState /\ k \in Accounts \X Ids
    BY <1>0 DEF JobsTyped, Syncs, SyncState
  <2>3. [sync[w] EXCEPT !.got = sync[w].got \ {k}] \in SyncState
    BY <2>2 DEF SyncState
  <2>4. JobsTyped'
    BY <1>0, <1>12, <2>1, <2>2, <2>3 DEF EnqueueTriage, JobsTyped
  <2>5. RowsTyped' /\ HistoryTyped'
    BY <1>0, <1>12 DEF EnqueueTriage, RowsTyped, HistoryTyped
  <2>6. RequestsTyped'
    BY <1>0, <1>12, <2>1, FaultsTyped DEF EnqueueTriage, RequestsTyped
  <2> QED BY <2>4, <2>5, <2>6 DEF TypeOK
<1>13. ASSUME NEW w \in Workers, SyncJobDone(w) PROVE TypeOK'
  <2>1. RowsTyped' /\ RequestsTyped' /\ HistoryTyped'
    BY <1>0, <1>13 DEF SyncJobDone, RowsTyped, RequestsTyped, HistoryTyped
  <2>2. JobsTyped'
    BY <1>0, <1>13, NoSyncTyped DEF SyncJobDone, JobsTyped
  <2> QED BY <2>1, <2>2 DEF TypeOK
<1>14. ASSUME NEW k \in Keys, Triage(k) PROVE TypeOK'
  <2>1. messages' \in {messages, [messages EXCEPT ![k] = "triage"]}
    BY <1>14 DEF Triage
  <2>2. RowsTyped'
    BY <1>0, <1>14, <2>1 DEF Triage, RowsTyped
  <2>3. JobsTyped' /\ HistoryTyped'
    BY <1>0, <1>14 DEF Triage, JobsTyped, HistoryTyped
  <2>4. RequestsTyped'
    <3>1. Works \/ Fails
      BY <1>14 DEF Triage
    <3> QED BY <1>0, <1>14, <3>1, FaultsTyped DEF Triage, RequestsTyped
  <2> QED BY <2>2, <2>3, <2>4 DEF TypeOK
<1>15. CASE WorkerCrash
  <2>1. RowsTyped' /\ HistoryTyped'
    BY <1>0, <1>15 DEF WorkerCrash, RowsTyped, HistoryTyped
  <2>2. RequestsTyped'
    BY <1>0, <1>15, FaultsTyped DEF WorkerCrash, RequestsTyped
  <2>3. \A w \in Workers : sync[w].got \subseteq Accounts \X Ids
    BY <1>0 DEF JobsTyped, Syncs, SyncState
  <2>4. untriaged' \subseteq Accounts \X Ids
    BY <1>0, <1>15, <2>3 DEF WorkerCrash, JobsTyped
  <2>5. syncJobs' \in [Accounts -> 0..MaxQueue] /\ sync' \in [Syncs -> SyncState]
    BY <1>0, <1>15, NoSyncTyped DEF WorkerCrash, JobsTyped
  <2>6. JobsTyped'
    BY <1>0, <1>15, <2>4, <2>5 DEF WorkerCrash, JobsTyped
  <2> QED BY <2>1, <2>2, <2>6 DEF TypeOK
<1>16. ASSUME NEW s \in Sends, NEW a \in Accounts, BeginSend(s, a) PROVE TypeOK'
  <2>1. RowsTyped' /\ JobsTyped' /\ HistoryTyped'
    BY <1>0, <1>16 DEF BeginSend, RowsTyped, JobsTyped, HistoryTyped
  <2>2. RequestsTyped'
    BY <1>0, <1>16 DEF BeginSend, RequestsTyped
  <2> QED BY <2>1, <2>2 DEF TypeOK
<1>17. ASSUME NEW s \in Sends, SendMail(s) PROVE TypeOK'
  <2>1. RowsTyped' /\ JobsTyped' /\ HistoryTyped'
    BY <1>0, <1>17 DEF SendMail, RowsTyped, JobsTyped, HistoryTyped
  <2>2. Works \/ Fails
    BY <1>17 DEF SendMail
  <2>3. RequestsTyped'
    BY <1>0, <1>17, <2>2, FaultsTyped DEF SendMail, RequestsTyped
  <2> QED BY <2>1, <2>3 DEF TypeOK
<1>18. ASSUME NEW s \in Sends, RecordSent(s) PROVE TypeOK'
  <2> DEFINE k == <<send[s].account, s>>
  <2>1. JobsTyped' /\ HistoryTyped'
    BY <1>0, <1>18 DEF RecordSent, JobsTyped, HistoryTyped
  <2>2. Works \/ Fails
    BY <1>18 DEF RecordSent
  <2>3. RequestsTyped'
    BY <1>0, <1>18, <2>2, FaultsTyped DEF RecordSent, RequestsTyped
  <2>4. send[s].account \in Accounts
    BY <1>18 DEF RecordSent, Safe, SendsHold
  <2>5. k \in Keys
    BY <2>4 DEF Keys
  <2>6. messages' \in {messages, WithRow(k)}
    BY <1>18 DEF RecordSent
  <2>7. RowsTyped'
    <3> HIDE DEF k
    <3>1. DOMAIN WithRow(k) = DOMAIN messages \cup {k}
          /\ WithRow(k) \in [DOMAIN WithRow(k) -> {"none", "user", "triage"}]
      BY <1>0 DEF WithRow, RowsTyped
    <3> QED BY <1>0, <1>18, <2>5, <2>6, <3>1 DEF RecordSent, RowsTyped
  <2> QED BY <2>1, <2>3, <2>7 DEF TypeOK
<1>19. CASE ServerCrash
  <2>1. RowsTyped' /\ HistoryTyped'
    BY <1>0, <1>19 DEF ServerCrash, RowsTyped, HistoryTyped
  <2>2. RequestsTyped'
    BY <1>0, <1>19, FaultsTyped DEF ServerCrash, RequestsTyped
  <2>3. JobsTyped'
    BY <1>0, <1>19, NoSyncTyped DEF ServerCrash, JobsTyped
  <2> QED BY <2>1, <2>2, <2>3 DEF TypeOK
<1>20. CASE UNCHANGED vars
  BY <1>0, <1>20 DEF vars, TypeOK, RowsTyped, JobsTyped, RequestsTyped, HistoryTyped
<1> QED BY <1>1, <1>2, <1>3, <1>4, <1>5, <1>6, <1>7, <1>8, <1>9, <1>10, <1>11, <1>12, <1>13, <1>14,
           <1>15, <1>16, <1>17, <1>18, <1>19, <1>20 DEF Next
------------------------------------------------------------------------------
(* An account is created once and keeps a mailbox until it is deleted.     *)
AccountsMove ==
    \A a \in Accounts : account[a].state # "absent" =>
        /\ account'[a].state # "absent"
        /\ account[a].state = "deleted" => account'[a].state = "deleted"

LEMMA AccountStep == ASSUME Safe, [Next]_vars PROVE AccountsHold' /\ AccountsMove
<1> USE EmailAssumption DEF rows, queue, history
<1>0. RowsTyped /\ JobsTyped /\ AccountsHold
  BY DEF Safe, TypeOK
<1>a. ASSUME UNCHANGED account PROVE AccountsHold' /\ AccountsMove
  BY <1>0, <1>a DEF AccountsHold, AccountsMove, Exists
<1>2. ASSUME NEW a \in Accounts, CreateAccount(a) PROVE AccountsHold' /\ AccountsMove
  <2>1. account' = [account EXCEPT ![a] = [state |-> "active", box |-> ImapBox[a], lastUid |-> 0]]
        /\ account[a].state = "absent"
    BY <1>2 DEF CreateAccount
  <2> QED BY <1>0, <2>1 DEF AccountsHold, AccountsMove, Exists, RowsTyped
<1>3. ASSUME NEW a \in Accounts, NEW b \in Boxes, NEW active \in BOOLEAN, UpdateAccount(a, b, active)
      PROVE  AccountsHold' /\ AccountsMove
  <2>1. account' = [account EXCEPT ![a] = [account[a] EXCEPT !.box = b, !.state = IF active THEN "active" ELSE "inactive"]]
        /\ Exists(a)
    BY <1>3 DEF UpdateAccount
  <2>2. account[a] \in AccountRow
    BY <1>0 DEF RowsTyped
  <2>3. /\ \A c \in Accounts \ {a} : account'[c] = account[c]
        /\ account'[a].box = b /\ account'[a].state \in {"active", "inactive"}
    BY <1>0, <2>1, <2>2 DEF RowsTyped, AccountRow
  <2> QED BY <1>0, <2>1, <2>3 DEF AccountsHold, AccountsMove, Exists
<1>4. ASSUME NEW a \in Accounts, DeleteAccount(a) PROVE AccountsHold' /\ AccountsMove
  <2>1. account' = [account EXCEPT ![a] = [state |-> "deleted", box |-> None, lastUid |-> 0]]
    BY <1>4 DEF DeleteAccount
  <2> QED BY <1>0, <2>1 DEF AccountsHold, AccountsMove, Exists, RowsTyped
<1>11. ASSUME NEW p \in Syncs, UpdateSyncState(p) PROVE AccountsHold' /\ AccountsMove
  <2> DEFINE a == sync[p].account
  <2>1. CASE account' = account
    BY <1>a, <2>1
  <2>2. CASE account' # account
    <3>1. account' = [account EXCEPT ![a] = [account[a] EXCEPT !.lastUid = sync[p].last]] /\ Exists(a)
      BY <1>11, <2>2 DEF UpdateSyncState
    <3>2. a \in Accounts
      BY <1>11 DEF UpdateSyncState, Safe, SyncsHold
    <3> HIDE DEF a
    <3>3. account[a] \in AccountRow
      BY <1>0, <3>2 DEF RowsTyped
    <3>4. /\ \A c \in Accounts \ {a} : account'[c] = account[c]
          /\ account'[a].box = account[a].box /\ account'[a].state = account[a].state
      BY <1>0, <3>1, <3>2, <3>3 DEF RowsTyped, AccountRow
    <3> QED BY <1>0, <3>1, <3>2, <3>4 DEF AccountsHold, AccountsMove, Exists
  <2> QED BY <2>1, <2>2
<1>b. ASSUME [Next]_vars,
             ~(\E a \in Accounts : CreateAccount(a)), ~(\E a \in Accounts : DeleteAccount(a)),
             ~(\E a \in Accounts, b \in Boxes, active \in BOOLEAN : UpdateAccount(a, b, active)),
             ~(\E p \in Syncs : UpdateSyncState(p))
      PROVE  UNCHANGED account
  BY <1>b DEF Next, vars, Deliver, TagMessage, EmailSyncAll, BeginJob, BeginRequest, FetchNewMessages,
     IngestMessage, EnqueueTriage, SyncJobDone, Triage, WorkerCrash, BeginSend, SendMail, RecordSent,
     ServerCrash
<1> QED BY <1>a, <1>2, <1>3, <1>4, <1>11, <1>b

(* What SyncsHold says of one sync.                                        *)
SyncHolds(p) ==
    /\ sync[p].pc # "idle" => /\ sync[p].account \in Accounts /\ sync[p].box \in Boxes
                              /\ account[sync[p].account].state # "absent"
    /\ sync[p].pc \in {"idle", "fetch"} => sync[p].got = {}
    /\ sync[p].pc = "ingest" => sync[p].since <= sync[p].last

LEMMA SyncStep == ASSUME Safe, [Next]_vars PROVE SyncsHold'
<1> USE EmailAssumption DEF rows, queue, history
<1>0. RowsTyped /\ JobsTyped /\ AccountsHold /\ AccountsMove /\ \A p \in Syncs : SyncHolds(p)
  BY AccountStep DEF Safe, TypeOK, SyncsHold, SyncHolds
<1> SUFFICES ASSUME NEW q \in Syncs PROVE SyncHolds(q)'
  BY DEF SyncsHold, SyncHolds
<1>a. ASSUME sync'[q] = sync[q] PROVE SyncHolds(q)'
  BY <1>0, <1>a DEF SyncHolds, AccountsMove
<1>b. ASSUME sync'[q] = NoSync PROVE SyncHolds(q)'
  BY <1>b DEF SyncHolds, NoSync
<1>c. ASSUME NEW p \in Syncs, NEW a \in Accounts, Begin(p, a) PROVE SyncHolds(q)'
  <2>1. CASE sync' = sync \/ q # p
    BY <1>0, <1>a, <1>c, <2>1 DEF Begin, JobsTyped
  <2>2. CASE sync' # sync /\ q = p
    <3>1. sync'[p] = [NoSync EXCEPT !.pc = "fetch", !.account = a, !.box = account[a].box,
                                    !.since = account[a].lastUid]
          /\ account[a].state = "active"
      BY <1>0, <1>c, <2>2 DEF Begin, JobsTyped
    <3>2. sync'[p].pc = "fetch" /\ sync'[p].account = a /\ sync'[p].box = account[a].box /\ sync'[p].got = {}
      BY <3>1 DEF NoSync
    <3>3. account[a].box \in Boxes /\ account'[a].state # "absent"
      BY <1>0, <3>1 DEF AccountsHold, AccountsMove, Exists
    <3> QED BY <2>2, <3>2, <3>3 DEF SyncHolds
  <2> QED BY <2>1, <2>2
<1>d. ASSUME NEW p \in Syncs, Abandon(p) PROVE SyncHolds(q)'
  BY <1>0, <1>a, <1>b, <1>d DEF Abandon, JobsTyped
<1>7. ASSUME NEW w \in Workers, NEW a \in Accounts, BeginJob(w, a) PROVE SyncHolds(q)'
  BY <1>7, <1>c DEF BeginJob, Syncs
<1>8. ASSUME NEW h \in Handlers, NEW a \in Accounts, BeginRequest(h, a) PROVE SyncHolds(q)'
  BY <1>8, <1>c DEF BeginRequest, Syncs
<1>9. ASSUME NEW p \in Syncs, FetchNewMessages(p) PROVE SyncHolds(q)'
  <2>1. CASE Abandon(p)
    BY <1>d, <2>1
  <2>2. CASE ~Abandon(p)
    <3> DEFINE box == mailbox[sync[p].box]
               found == Fetched(box, sync[p].since)
               last == LastUID(box, sync[p].since)
    <3>1. sync' = [sync EXCEPT ![p] = [sync[p] EXCEPT !.pc = "ingest", !.todo = found, !.last = last]]
          /\ sync[p].pc = "fetch" /\ UNCHANGED account
      BY <1>9, <2>2 DEF FetchNewMessages
    <3>2. sync[p] \in SyncState /\ sync[p].since \in Nat /\ sync[p].box \in Boxes
      BY <1>0, <3>1 DEF JobsTyped, SyncState, SyncHolds
    <3>3. sync[p].since <= last
      BY <1>0, <3>2, LenProperties DEF LastUID, RowsTyped
    <3> HIDE DEF found, last
    <3>4. CASE q # p
      BY <1>0, <1>a, <3>1, <3>4 DEF JobsTyped
    <3>5. CASE q = p
      <4>1. /\ sync'[p].pc = "ingest" /\ sync'[p].last = last /\ sync'[p].since = sync[p].since
            /\ sync'[p].account = sync[p].account /\ sync'[p].box = sync[p].box
        BY <1>0, <3>1, <3>2 DEF JobsTyped, SyncState
      <4> QED BY <1>0, <3>1, <3>3, <3>5, <4>1 DEF SyncHolds
    <3> QED BY <3>4, <3>5
  <2> QED BY <2>1, <2>2
<1>10. ASSUME NEW p \in Syncs, IngestMessage(p) PROVE SyncHolds(q)'
  <2>1. /\ sync[p].pc = "ingest" /\ UNCHANGED account
        /\ \E g : sync' = [sync EXCEPT ![p] = [sync[p] EXCEPT !.todo = Tail(sync[p].todo), !.got = g]]
    BY <1>10 DEF IngestMessage
  <2>2. CASE q # p
    BY <1>0, <1>a, <2>1, <2>2 DEF JobsTyped
  <2>3. CASE q = p
    <3>1. /\ sync'[p].pc = "ingest" /\ sync'[p].last = sync[p].last /\ sync'[p].since = sync[p].since
          /\ sync'[p].account = sync[p].account /\ sync'[p].box = sync[p].box
      <4>1. sync[p] \in SyncState
        BY <1>0 DEF JobsTyped
      <4> QED BY <1>0, <2>1, <4>1 DEF JobsTyped, SyncState
    <3> QED BY <1>0, <2>1, <2>3, <3>1 DEF SyncHolds
  <2> QED BY <2>2, <2>3
<1>11. ASSUME NEW p \in Syncs, UpdateSyncState(p) PROVE SyncHolds(q)'
  <2>1. CASE Abandon(p)
    BY <1>d, <2>1
  <2>2. CASE ~Abandon(p)
    <3>1. sync' \in {[sync EXCEPT ![p] = [sync[p] EXCEPT !.pc = "enqueue"]], [sync EXCEPT ![p] = NoSync]}
          /\ sync[p].pc = "ingest"
      BY <1>11, <2>2 DEF UpdateSyncState
    <3>2. CASE q # p
      BY <1>0, <1>a, <3>1, <3>2 DEF JobsTyped
    <3>3. CASE q = p /\ sync' = [sync EXCEPT ![p] = NoSync]
      BY <1>0, <1>b, <3>3 DEF JobsTyped
    <3>4. CASE q = p /\ sync' = [sync EXCEPT ![p] = [sync[p] EXCEPT !.pc = "enqueue"]]
      <4>1. sync'[p].pc = "enqueue" /\ sync'[p].account = sync[p].account /\ sync'[p].box = sync[p].box
        BY <1>0, <3>4 DEF JobsTyped, SyncState
      <4> QED BY <1>0, <3>1, <3>4, <4>1 DEF SyncHolds, AccountsMove
    <3> QED BY <3>1, <3>2, <3>3, <3>4
  <2> QED BY <2>1, <2>2
<1>12. ASSUME NEW w \in Workers, EnqueueTriage(w) PROVE SyncHolds(q)'
  <2>1. /\ sync[w].pc = "enqueue" /\ w \in Syncs /\ UNCHANGED account
        /\ \E g : sync' = [sync EXCEPT ![w] = [sync[w] EXCEPT !.got = g]]
    BY <1>12 DEF EnqueueTriage, Syncs
  <2>2. CASE q # w
    BY <1>0, <1>a, <2>1, <2>2 DEF JobsTyped
  <2>3. CASE q = w
    <3>1. sync'[w].pc = "enqueue" /\ sync'[w].account = sync[w].account /\ sync'[w].box = sync[w].box
      <4>1. sync[w] \in SyncState
        BY <1>0, <2>1 DEF JobsTyped
      <4> QED BY <1>0, <2>1, <4>1 DEF JobsTyped, SyncState
    <3> QED BY <1>0, <2>1, <2>3, <3>1 DEF SyncHolds
  <2> QED BY <2>2, <2>3
<1>13. ASSUME NEW w \in Workers, SyncJobDone(w) PROVE SyncHolds(q)'
  BY <1>0, <1>a, <1>b, <1>13 DEF SyncJobDone, JobsTyped
<1>15. CASE WorkerCrash \/ ServerCrash
  BY <1>0, <1>a, <1>b, <1>15 DEF WorkerCrash, ServerCrash, JobsTyped
<1>e. ASSUME UNCHANGED sync PROVE SyncHolds(q)'
  BY <1>a, <1>e
<1>f. \/ UNCHANGED sync \/ WorkerCrash \/ ServerCrash
      \/ \E w \in Workers, a \in Accounts : BeginJob(w, a)
      \/ \E h \in Handlers, a \in Accounts : BeginRequest(h, a)
      \/ \E p \in Syncs : FetchNewMessages(p) \/ IngestMessage(p) \/ UpdateSyncState(p)
      \/ \E w \in Workers : EnqueueTriage(w) \/ SyncJobDone(w)
  BY DEF Next, vars, Deliver, CreateAccount, UpdateAccount, DeleteAccount, TagMessage, EmailSyncAll,
     Triage, BeginSend, SendMail, RecordSent
<1> QED BY <1>7, <1>8, <1>9, <1>10, <1>11, <1>12, <1>13, <1>15, <1>e, <1>f

LEMMA InsertedRow ==
  ASSUME NEW k, messages' = WithRow(k)
  PROVE  DOMAIN messages' = DOMAIN messages \cup {k} /\ StoredIds' = StoredIds \cup {k[2]}
<1>1. DOMAIN messages' = DOMAIN messages \cup {k}
  BY DEF WithRow
<1> QED BY <1>1 DEF StoredIds

LEMMA SameRows ==
  ASSUME DOMAIN messages' = DOMAIN messages
  PROVE  StoredIds' = StoredIds
  BY DEF StoredIds

(* Rows appear by an ingest or by a recorded mail, disappear with their    *)
(* account, and are otherwise the same.                                    *)
LEMMA RowsChange ==
  ASSUME Safe, [Next]_vars
  PROVE  \/ DOMAIN messages' = DOMAIN messages
         \/ \E a \in Accounts : DeleteAccount(a)
         \/ \E p \in Syncs : IngestMessage(p) /\ Insertable(sync[p].account, MailId[Head(sync[p].todo)])
                             /\ messages' = WithRow(<<sync[p].account, MailId[Head(sync[p].todo)]>>)
         \/ \E s \in Sends : RecordSent(s) /\ messages' = WithRow(<<send[s].account, s>>)
<1> USE DEF rows
<1>1. ASSUME NEW k \in Keys, TagMessage(k) PROVE DOMAIN messages' = DOMAIN messages
  BY <1>1 DEF TagMessage
<1>2. ASSUME NEW k \in Keys, Triage(k) PROVE DOMAIN messages' = DOMAIN messages
  BY <1>2 DEF Triage
<1>3. ASSUME NEW p \in Syncs, IngestMessage(p)
      PROVE  \/ messages' = messages
             \/ /\ Insertable(sync[p].account, MailId[Head(sync[p].todo)])
                /\ messages' = WithRow(<<sync[p].account, MailId[Head(sync[p].todo)]>>)
  BY <1>3 DEF IngestMessage
<1>4. ASSUME NEW s \in Sends, RecordSent(s)
      PROVE  messages' = messages \/ messages' = WithRow(<<send[s].account, s>>)
  BY <1>4 DEF RecordSent
<1>5. \/ UNCHANGED messages
      \/ \E a \in Accounts : DeleteAccount(a)
      \/ \E k \in Keys : TagMessage(k) \/ Triage(k)
      \/ \E p \in Syncs : IngestMessage(p)
      \/ \E s \in Sends : RecordSent(s)
  BY DEF Next, vars, Deliver, CreateAccount, UpdateAccount, EmailSyncAll, BeginJob, BeginRequest,
     FetchNewMessages, UpdateSyncState, EnqueueTriage, SyncJobDone, WorkerCrash, BeginSend, SendMail,
     ServerCrash
<1> QED BY <1>1, <1>2, <1>3, <1>4, <1>5

(* The mail a sync is about to ingest.                                     *)
LEMMA IngestFacts ==
  ASSUME Safe, NEW p \in Syncs, IngestMessage(p)
  PROVE  /\ sync[p].account \in Accounts
         /\ sync[p].todo \in Seq(Mails) /\ sync[p].todo # << >>
         /\ Head(sync[p].todo) \in Mails
         /\ MailId[Head(sync[p].todo)] \in Ids /\ MailId[Head(sync[p].todo)] \notin Sends
<1>1. sync[p].account \in Accounts /\ sync[p].todo \in Seq(Mails) /\ sync[p].todo # << >>
  BY DEF IngestMessage, Safe, TypeOK, JobsTyped, SyncsHold, SyncState
<1>2. Head(sync[p].todo) \in Mails
  BY <1>1, HeadTailProperties
<1> QED BY <1>1, <1>2, EmailAssumption DEF Ids

(* What the invariants say of one request to send.                         *)
SendHolds(s) ==
    /\ send[s].pc # "new" => /\ send[s].account \in Accounts
                             /\ account[send[s].account].state # "absent"
    /\ send[s].pc = "record" => s \in sent
    /\ send[s].pc = "ok" =>
          s \in sent /\ (Exists(send[s].account) => <<send[s].account, s>> \in DOMAIN messages)
    /\ s \in StoredIds => s \in sent

LEMMA SendStep ==
  ASSUME Safe, SentMailIsRecorded, [Next]_vars
  PROVE  SendsHold' /\ SentMailIsRecorded'
<1> USE EmailAssumption DEF rows, queue, history
<1>0. RequestsTyped /\ AccountsMove /\ \A s \in Sends : SendHolds(s)
  BY AccountStep DEF Safe, TypeOK, SendsHold, SendHolds, SentMailIsRecorded
<1> SUFFICES ASSUME NEW r \in Sends PROVE SendHolds(r)'
  BY DEF SendsHold, SendHolds, SentMailIsRecorded
<1>1. ASSUME NEW s \in Sends, RecordSent(s) PROVE SendHolds(r)'
  <2> DEFINE k == <<send[s].account, s>>
  <2>1. send[s].pc = "record" /\ s \in sent /\ sent' = sent /\ account' = account /\ send[s].account \in Accounts
    BY <1>0, <1>1 DEF RecordSent, SendHolds
  <2>2. send[s] \in [pc : {"new", "smtp", "record", "ok", "failed"}, account : Accounts \cup {None}]
    BY <1>0 DEF RequestsTyped
  <2>3. CASE messages' = WithRow(k) /\ send' = [send EXCEPT ![s] = [send[s] EXCEPT !.pc = "ok"]]
    <3>1. DOMAIN messages' = DOMAIN messages \cup {k} /\ StoredIds' = StoredIds \cup {k[2]} /\ k[2] = s
      BY <2>3, InsertedRow
    <3>2. CASE r = s
      <4>1. send'[s].pc = "ok" /\ send'[s].account = send[s].account
        BY <1>0, <2>2, <2>3 DEF RequestsTyped
      <4> QED BY <1>0, <2>1, <3>1, <3>2, <4>1 DEF SendHolds
    <3>3. CASE r # s
      <4>1. send'[r] = send[r]
        BY <1>0, <2>3, <3>3 DEF RequestsTyped
      <4> QED BY <1>0, <2>1, <3>1, <3>3, <4>1 DEF SendHolds, Exists
    <3> QED BY <3>2, <3>3
  <2>4. CASE messages' = messages /\ send' = [send EXCEPT ![s] = [send[s] EXCEPT !.pc = "failed"]]
    <3>1. StoredIds' = StoredIds
      BY <2>4 DEF StoredIds
    <3>2. CASE r = s
      <4>1. send'[s].pc = "failed" /\ send'[s].account = send[s].account
        BY <1>0, <2>2, <2>4 DEF RequestsTyped
      <4> QED BY <1>0, <2>1, <3>1, <3>2, <4>1 DEF SendHolds
    <3>3. CASE r # s
      <4>1. send'[r] = send[r]
        BY <1>0, <2>4, <3>3 DEF RequestsTyped
      <4> QED BY <1>0, <2>1, <2>4, <3>1, <4>1 DEF SendHolds, Exists
    <3> QED BY <3>2, <3>3
  <2> QED BY <1>1, <2>3, <2>4 DEF RecordSent
<1>2. ASSUME ~\E s \in Sends : RecordSent(s) PROVE SendHolds(r)'
  <2>1. r \in StoredIds' => r \in StoredIds
    <3>1. CASE DOMAIN messages' = DOMAIN messages
      BY <3>1, SameRows
    <3>2. ASSUME NEW a \in Accounts, DeleteAccount(a) PROVE r \in StoredIds' => r \in StoredIds
      <4>1. DOMAIN messages' \subseteq DOMAIN messages
        BY <3>2 DEF DeleteAccount
      <4> QED BY <4>1 DEF StoredIds
    <3>3. ASSUME NEW p \in Syncs, IngestMessage(p),
                 messages' = WithRow(<<sync[p].account, MailId[Head(sync[p].todo)]>>)
          PROVE  r \in StoredIds' => r \in StoredIds
      <4> DEFINE k == <<sync[p].account, MailId[Head(sync[p].todo)]>>
      <4>1. StoredIds' = StoredIds \cup {k[2]}
        BY <3>3, InsertedRow
      <4>2. k[2] # r
        BY <3>3, IngestFacts
      <4> QED BY <4>1, <4>2
    <3> QED BY <1>2, <3>1, <3>2, <3>3, RowsChange
  <2>2. ASSUME NEW a \in Accounts, Exists(a)', <<a, r>> \in DOMAIN messages PROVE <<a, r>> \in DOMAIN messages'
    <3>1. CASE DOMAIN messages' = DOMAIN messages
      BY <2>2, <3>1
    <3>2. ASSUME NEW c \in Accounts, DeleteAccount(c) PROVE <<a, r>> \in DOMAIN messages'
      <4>1. a # c
        BY <2>2, <3>2 DEF DeleteAccount, Exists, Safe, TypeOK, RowsTyped
      <4> QED BY <2>2, <3>2, <4>1 DEF DeleteAccount
    <3>3. ASSUME NEW p \in Syncs, IngestMessage(p),
                 messages' = WithRow(<<sync[p].account, MailId[Head(sync[p].todo)]>>)
          PROVE  <<a, r>> \in DOMAIN messages'
      BY <2>2, <3>3, InsertedRow
    <3> QED BY <1>2, <3>1, <3>2, <3>3, RowsChange
  <2>3. ASSUME NEW a \in Accounts, account[a].state # "absent", Exists(a)' PROVE Exists(a)
    BY <1>0, <2>3 DEF AccountsMove, Exists, Safe, TypeOK, RowsTyped, AccountRow
  <2>4. CASE send'[r] = send[r] /\ sent \subseteq sent'
    BY <1>0, <2>1, <2>2, <2>3, <2>4 DEF SendHolds, AccountsMove
  <2>5. ASSUME NEW s \in Sends, NEW a \in Accounts, BeginSend(s, a) PROVE SendHolds(r)'
    <3>1. CASE r = s
      <4>1. send'[r] = [pc |-> "smtp", account |-> a] /\ account' = account /\ Exists(a) /\ sent' = sent
        BY <1>0, <2>5, <3>1 DEF BeginSend, RequestsTyped
      <4>2. send'[r].pc = "smtp" /\ send'[r].account = a /\ account'[a].state # "absent"
        BY <4>1 DEF Exists
      <4> QED BY <1>0, <2>1, <4>1, <4>2 DEF SendHolds
    <3>2. CASE r # s
      BY <1>0, <2>4, <2>5, <3>2 DEF BeginSend, RequestsTyped
    <3> QED BY <3>1, <3>2
  <2>6. ASSUME NEW s \in Sends, SendMail(s) PROVE SendHolds(r)'
    <3>1. CASE r = s
      <4>1. send[s] \in [pc : {"new", "smtp", "record", "ok", "failed"}, account : Accounts \cup {None}]
        BY <1>0 DEF RequestsTyped
      <4>2. /\ send'[s].account = send[s].account /\ account' = account /\ sent \subseteq sent'
            /\ send'[s].pc \in {"record", "failed"} /\ send[s].pc = "smtp"
            /\ send'[s].pc = "record" => s \in sent'
        BY <1>0, <2>6, <4>1 DEF SendMail, RequestsTyped
      <4> QED BY <1>0, <2>1, <3>1, <4>2 DEF SendHolds
    <3>2. CASE r # s
      BY <1>0, <2>4, <2>6, <3>2 DEF SendMail, RequestsTyped
    <3> QED BY <3>1, <3>2
  <2>7. CASE ServerCrash
    <3>1. account' = account /\ sent' = sent
      BY <2>7 DEF ServerCrash
    <3>2. CASE send'[r] = send[r]
      BY <2>4, <3>1, <3>2
    <3>3. CASE send'[r] # send[r]
      <4>1. send'[r] = [send[r] EXCEPT !.pc = "failed"] /\ send[r].pc \in {"smtp", "record"}
        BY <2>7, <3>3 DEF ServerCrash
      <4>2. send'[r].pc = "failed" /\ send'[r].account = send[r].account
        BY <1>0, <4>1 DEF RequestsTyped
      <4> QED BY <1>0, <2>1, <3>1, <4>1, <4>2 DEF SendHolds
    <3> QED BY <3>2, <3>3
  <2>8. \/ UNCHANGED <<send, sent>> \/ ServerCrash
        \/ \E s \in Sends, a \in Accounts : BeginSend(s, a)
        \/ \E s \in Sends : SendMail(s)
    BY <1>2 DEF Next, vars, Deliver, CreateAccount, UpdateAccount, DeleteAccount, TagMessage, EmailSyncAll,
       BeginJob, BeginRequest, FetchNewMessages, IngestMessage, UpdateSyncState, EnqueueTriage,
       SyncJobDone, Triage, WorkerCrash
  <2> QED BY <2>4, <2>5, <2>6, <2>7, <2>8
<1> QED BY <1>1, <1>2

------------------------------------------------------------------------------
(* What is known stays known, and mailboxes only grow.                     *)
LEMMA KnownStep ==
  ASSUME Safe, [Next]_vars
  PROVE  Known \subseteq Known'
<1> USE DEF rows, history
<1>1. dropped \subseteq dropped' /\ purged \subseteq purged'
  BY DEF Next, vars, Deliver, CreateAccount, UpdateAccount, DeleteAccount, TagMessage, EmailSyncAll,
     BeginJob, BeginRequest, FetchNewMessages, IngestMessage, UpdateSyncState, EnqueueTriage,
     SyncJobDone, Triage, WorkerCrash, BeginSend, SendMail, RecordSent, ServerCrash
<1>2. StoredIds \subseteq StoredIds' \cup purged'
  <2>1. CASE DOMAIN messages' = DOMAIN messages
    BY <2>1, SameRows
  <2>2. ASSUME NEW a \in Accounts, DeleteAccount(a) PROVE StoredIds \subseteq StoredIds' \cup purged'
    <3>1. ASSUME NEW k \in DOMAIN messages PROVE k[2] \in StoredIds' \cup purged'
      <4>1. CASE k[1] = a
        BY <2>2, <4>1 DEF DeleteAccount
      <4>2. CASE k[1] # a
        <5>1. k \in DOMAIN messages'
          BY <2>2, <4>2 DEF DeleteAccount
        <5> QED BY <5>1 DEF StoredIds
      <4> QED BY <4>1, <4>2
    <3> QED BY <3>1 DEF StoredIds
  <2>3. ASSUME NEW k, messages' = WithRow(k) PROVE StoredIds \subseteq StoredIds'
    BY <2>3, InsertedRow
  <2> QED BY <2>1, <2>2, <2>3, RowsChange
<1> QED BY <1>1, <1>2 DEF Known

Grows(b) ==
    /\ mailbox[b] \in Seq(Mails) /\ mailbox'[b] \in Seq(Mails)
    /\ Len(mailbox[b]) <= Len(mailbox'[b])
    /\ \A i \in 1..Len(mailbox[b]) : mailbox'[b][i] = mailbox[b][i]

LEMMA MailboxStep == ASSUME Safe, [Next]_vars, NEW b \in Boxes PROVE Grows(b)
<1>0. mailbox \in [Boxes -> Seq(Mails)] /\ Len(mailbox[b]) \in Nat
  BY LenProperties DEF Safe, TypeOK, RowsTyped
<1>1. CASE UNCHANGED mailbox
  BY <1>0, <1>1 DEF Grows
<1>2. ASSUME NEW c \in Boxes, NEW m \in Mails, Deliver(c, m) PROVE Grows(b)
  <2>1. CASE b = c
    <3>1. mailbox'[b] = Append(mailbox[b], m)
      BY <1>0, <1>2, <2>1 DEF Deliver
    <3>2. /\ Append(mailbox[b], m) \in Seq(Mails) /\ Len(Append(mailbox[b], m)) = Len(mailbox[b]) + 1
          /\ \A i \in 1..Len(mailbox[b]) : Append(mailbox[b], m)[i] = mailbox[b][i]
      BY <1>0, AppendProperties
    <3> QED BY <1>0, <3>1, <3>2 DEF Grows
  <2>2. CASE b # c
    BY <1>0, <1>2, <2>2 DEF Deliver, Grows
  <2> QED BY <2>1, <2>2
<1>3. UNCHANGED mailbox \/ \E c \in Boxes, m \in Mails : Deliver(c, m)
  BY DEF Next, vars, CreateAccount, UpdateAccount, DeleteAccount, TagMessage, EmailSyncAll,
     BeginJob, BeginRequest, FetchNewMessages, IngestMessage, UpdateSyncState, EnqueueTriage,
     SyncJobDone, Triage, WorkerCrash, BeginSend, SendMail, RecordSent, ServerCrash
<1> QED BY <1>1, <1>2, <1>3

LEMMA CoversStep ==
  ASSUME Safe, [Next]_vars, NEW b \in Boxes, NEW n \in Nat, NEW todo, Covers(mailbox[b], Known, n, todo)
  PROVE  Covers(mailbox'[b], Known', n, todo)
  BY MailboxStep, KnownStep, CoversMore DEF Grows

(* An account that exists and was not pointed at another mailbox is the    *)
(* one it was, but for its watermark.                                      *)
SameAccount(a) ==
    account[a].state # "absent" /\ Exists(a)' /\ a \notin moved' =>
        Exists(a) /\ a \notin moved /\ account'[a].box = account[a].box

LEMMA SameAccountStep == ASSUME Safe, [Next]_vars, NEW a \in Accounts PROVE SameAccount(a)
<1> USE DEF rows, history
<1>0. account \in [Accounts -> AccountRow] /\ \A c \in Accounts : account[c] \in AccountRow
  BY DEF Safe, TypeOK, RowsTyped
<1>1. CASE account' = account /\ moved' = moved
  BY <1>1 DEF SameAccount, Exists
<1>2. ASSUME NEW c \in Accounts, CreateAccount(c) PROVE SameAccount(a)
  BY <1>0, <1>2 DEF CreateAccount, SameAccount, Exists
<1>3. ASSUME NEW c \in Accounts, NEW b \in Boxes, NEW active \in BOOLEAN, UpdateAccount(c, b, active)
      PROVE  SameAccount(a)
  <2>1. CASE a = c
    <3>1. account'[a].box = b /\ Exists(a) /\ (b # account[a].box => a \in moved') /\ moved \subseteq moved'
      BY <1>0, <1>3, <2>1 DEF UpdateAccount, AccountRow
    <3> QED BY <3>1 DEF SameAccount
  <2>2. CASE a # c
    <3>1. account'[a] = account[a] /\ moved \subseteq moved'
      BY <1>0, <1>3, <2>2 DEF UpdateAccount
    <3> QED BY <3>1 DEF SameAccount, Exists
  <2> QED BY <2>1, <2>2
<1>4. ASSUME NEW c \in Accounts, DeleteAccount(c) PROVE SameAccount(a)
  BY <1>0, <1>4 DEF DeleteAccount, SameAccount, Exists
<1>5. ASSUME NEW p \in Syncs, UpdateSyncState(p) PROVE SameAccount(a)
  <2>1. moved' = moved /\ account' \in {account,
          [account EXCEPT ![sync[p].account] = [account[sync[p].account] EXCEPT !.lastUid = sync[p].last]]}
    BY <1>5 DEF UpdateSyncState
  <2>2. account'[a].box = account[a].box /\ account'[a].state = account[a].state
    BY <1>0, <2>1 DEF AccountRow
  <2> QED BY <2>1, <2>2 DEF SameAccount, Exists
<1>6. \/ account' = account /\ moved' = moved
      \/ \E c \in Accounts : CreateAccount(c) \/ DeleteAccount(c)
      \/ \E c \in Accounts, b \in Boxes, active \in BOOLEAN : UpdateAccount(c, b, active)
      \/ \E p \in Syncs : UpdateSyncState(p)
  BY DEF Next, vars, Deliver, TagMessage, EmailSyncAll, BeginJob, BeginRequest, FetchNewMessages,
     IngestMessage, EnqueueTriage, SyncJobDone, Triage, WorkerCrash, BeginSend, SendMail, RecordSent,
     ServerCrash
<1> QED BY <1>1, <1>2, <1>3, <1>4, <1>5, <1>6

(* The watermark of an account covers what lies below it after every step. *)
LEMMA MarkStep ==
  ASSUME Safe, AllReach, [Next]_vars, NEW a \in Accounts
  PROVE  MarkReached(a)'
<1> USE DEF rows, queue, history
<1>0. /\ account \in [Accounts -> AccountRow] /\ account[a] \in AccountRow
      /\ MarkReached(a) /\ AccountsHold /\ SameAccount(a)
  BY SameAccountStep DEF Safe, TypeOK, RowsTyped, AllReach
<1>1. ASSUME account'[a].lastUid = account[a].lastUid, account[a].state # "absent" PROVE MarkReached(a)'
  <2> SUFFICES ASSUME a \notin moved', Exists(a)'
               PROVE  Covers(mailbox'[account'[a].box], Known', account'[a].lastUid, << >>)
    BY DEF MarkReached
  <2>1. /\ Exists(a) /\ a \notin moved /\ account'[a].box = account[a].box
        /\ account[a].box \in Boxes /\ account[a].lastUid \in Nat
    BY <1>0, <1>1 DEF SameAccount, AccountsHold, AccountRow
  <2>2. Covers(mailbox[account[a].box], Known, account[a].lastUid, << >>)
    BY <1>0, <2>1 DEF MarkReached
  <2> QED BY <1>1, <2>1, <2>2, CoversStep
<1>2. ASSUME CreateAccount(a) PROVE MarkReached(a)'
  <2>1. account'[a].lastUid = 0 /\ account'[a].box = ImapBox[a] /\ ImapBox[a] \in Boxes /\ mailbox' = mailbox
    BY <1>0, <1>2, EmailAssumption DEF CreateAccount
  <2>2. Len(mailbox[ImapBox[a]]) \in Nat
    BY <2>1, LenProperties DEF Safe, TypeOK, RowsTyped
  <2>3. Covers(mailbox'[account'[a].box], Known', account'[a].lastUid, << >>)
    BY <2>1, <2>2 DEF Covers
  <2> QED BY <2>3 DEF MarkReached
<1>3. ASSUME NEW p \in Syncs, UpdateSyncState(p), sync[p].account = a, account' # account PROVE MarkReached(a)'
  <2>1. /\ account' = [account EXCEPT ![a] = [account[a] EXCEPT !.lastUid = sync[p].last]] /\ Exists(a)
        /\ sync[p].pc = "ingest" /\ sync[p].todo = << >>
    BY <1>3 DEF UpdateSyncState
  <2>2. account'[a].lastUid = sync[p].last /\ account'[a].box = account[a].box
    BY <1>0, <2>1 DEF AccountRow
  <2>3. SyncReaches(p) /\ sync[p].box \in Boxes /\ sync[p].last \in Nat
    BY <2>1 DEF AllReach, Safe, SyncsHold, TypeOK, JobsTyped, SyncState
  <2> SUFFICES ASSUME a \notin moved', Exists(a)'
               PROVE  Covers(mailbox'[account'[a].box], Known', account'[a].lastUid, << >>)
    BY DEF MarkReached
  <2>4. a \notin moved
    BY <1>3 DEF UpdateSyncState
  <2>5. Covers(mailbox[sync[p].box], Known, sync[p].last, << >>) /\ sync[p].box = account[a].box
    BY <1>3, <2>1, <2>3, <2>4 DEF SyncReaches
  <2> QED BY <2>2, <2>3, <2>5, CoversStep
<1>4. ASSUME account[a].state = "absent", ~CreateAccount(a) PROVE MarkReached(a)'
  <2>1. ~Exists(a)'
    <3>1. CASE account' = account
      BY <1>4, <3>1 DEF Exists
    <3>2. ASSUME NEW c \in Accounts, CreateAccount(c) \/ DeleteAccount(c) PROVE ~Exists(a)'
      BY <1>0, <1>4, <3>2 DEF CreateAccount, DeleteAccount, Exists
    <3>3. ASSUME NEW c \in Accounts, NEW b \in Boxes, NEW active \in BOOLEAN, UpdateAccount(c, b, active)
          PROVE  ~Exists(a)'
      <4>1. a # c
        BY <1>4, <3>3 DEF UpdateAccount, Exists
      <4> QED BY <1>0, <1>4, <3>3, <4>1 DEF UpdateAccount, Exists
    <3>4. ASSUME NEW p \in Syncs, UpdateSyncState(p) PROVE ~Exists(a)'
      <4>1. CASE sync[p].account = a
        BY <1>4, <3>1, <3>4, <4>1 DEF UpdateSyncState, Exists
      <4>2. CASE sync[p].account # a
        BY <1>0, <1>4, <3>4, <4>2 DEF UpdateSyncState, Exists
      <4> QED BY <4>1, <4>2
    <3>5. \/ account' = account
          \/ \E c \in Accounts : CreateAccount(c) \/ DeleteAccount(c)
          \/ \E c \in Accounts, b \in Boxes, active \in BOOLEAN : UpdateAccount(c, b, active)
          \/ \E p \in Syncs : UpdateSyncState(p)
      BY DEF Next, vars, Deliver, TagMessage, EmailSyncAll, BeginJob, BeginRequest, FetchNewMessages,
         IngestMessage, EnqueueTriage, SyncJobDone, Triage, WorkerCrash, BeginSend, SendMail,
         RecordSent, ServerCrash
    <3> QED BY <3>1, <3>2, <3>3, <3>4, <3>5
  <2> QED BY <2>1 DEF MarkReached
<1>5. ASSUME account[a].state # "absent", account'[a].lastUid # account[a].lastUid,
             ~\E p \in Syncs : UpdateSyncState(p)
      PROVE  MarkReached(a)'
  <2>1. ASSUME NEW c \in Accounts, CreateAccount(c) PROVE FALSE
    BY <1>0, <1>5, <2>1 DEF CreateAccount
  <2>2. ASSUME NEW c \in Accounts, NEW b \in Boxes, NEW active \in BOOLEAN, UpdateAccount(c, b, active) PROVE FALSE
    BY <1>0, <1>5, <2>2 DEF UpdateAccount, AccountRow
  <2>3. ASSUME NEW c \in Accounts, DeleteAccount(c) PROVE MarkReached(a)'
    <3>1. c = a
      BY <1>0, <1>5, <2>3 DEF DeleteAccount
    <3>2. account'[a].state = "deleted"
      BY <1>0, <2>3, <3>1 DEF DeleteAccount
    <3> QED BY <3>2 DEF MarkReached, Exists
  <2>4. \/ \E c \in Accounts : CreateAccount(c) \/ DeleteAccount(c)
        \/ \E c \in Accounts, b \in Boxes, active \in BOOLEAN : UpdateAccount(c, b, active)
    BY <1>5 DEF Next, vars, Deliver, TagMessage, EmailSyncAll, BeginJob, BeginRequest, FetchNewMessages,
       IngestMessage, EnqueueTriage, SyncJobDone, Triage, WorkerCrash, BeginSend, SendMail,
       RecordSent, ServerCrash
  <2> QED BY <2>1, <2>2, <2>3, <2>4
<1>6. ASSUME NEW p \in Syncs, UpdateSyncState(p), account'[a].lastUid # account[a].lastUid PROVE MarkReached(a)'
  <2>1. sync[p].account = a
    BY <1>0, <1>6 DEF UpdateSyncState
  <2> QED BY <1>3, <1>6, <2>1
<1> QED BY <1>1, <1>2, <1>4, <1>5, <1>6

(* So does what a sync remembers of its fetch.                             *)
LEMMA SyncReachStep ==
  ASSUME Safe, AllReach, [Next]_vars, NEW q \in Syncs
  PROVE  SyncReaches(q)'
<1> USE DEF rows, queue, history
<1>0. /\ sync \in [Syncs -> SyncState] /\ sync[q] \in SyncState
      /\ SyncReaches(q) /\ SyncHolds(q)
      /\ \A a \in Accounts : SameAccount(a)
  BY SameAccountStep DEF Safe, TypeOK, JobsTyped, AllReach, SyncsHold, SyncHolds
<1>a. ASSUME sync'[q] = sync[q] PROVE SyncReaches(q)'
  <2> DEFINE a == sync[q].account
             b == sync[q].box
  <2> SUFFICES ASSUME sync[q].pc \in {"fetch", "ingest"}, a \notin moved',
                      account'[a].state \in {"active", "inactive"}
               PROVE  /\ b = account'[a].box
                      /\ sync[q].pc = "fetch" => Covers(mailbox'[b], Known', sync[q].since, << >>)
                      /\ sync[q].pc = "ingest" => Covers(mailbox'[b], Known', sync[q].last, sync[q].todo)
    BY <1>a DEF SyncReaches, Exists
  <2>1. a \in Accounts /\ b \in Boxes /\ Exists(a) /\ a \notin moved /\ account'[a].box = account[a].box
    BY <1>0 DEF SyncHolds, SameAccount, Exists
  <2>2. sync[q].since \in Nat /\ sync[q].last \in Nat
    BY <1>0 DEF SyncState
  <2>3. /\ b = account[a].box
        /\ sync[q].pc = "fetch" => Covers(mailbox[b], Known, sync[q].since, << >>)
        /\ sync[q].pc = "ingest" => Covers(mailbox[b], Known, sync[q].last, sync[q].todo)
    BY <1>0, <2>1 DEF SyncReaches
  <2> HIDE DEF a, b
  <2> QED BY <2>1, <2>2, <2>3, CoversStep
<1>b. ASSUME sync'[q].pc \notin {"fetch", "ingest"} PROVE SyncReaches(q)'
  BY <1>b DEF SyncReaches
<1>c. ASSUME NEW p \in Syncs, NEW a \in Accounts, Begin(p, a), UNCHANGED <<mailbox, account, messages, moved, dropped, purged>>
      PROVE  SyncReaches(q)'
  <2>1. CASE sync' = sync \/ q # p
    BY <1>0, <1>a, <1>c, <2>1 DEF Begin
  <2>2. CASE sync' # sync /\ q = p
    <3>1. sync'[p] = [NoSync EXCEPT !.pc = "fetch", !.account = a, !.box = account[a].box,
                                    !.since = account[a].lastUid]
      BY <1>0, <1>c, <2>2 DEF Begin
    <3>2. /\ sync'[p].pc = "fetch" /\ sync'[p].account = a
          /\ sync'[p].box = account[a].box /\ sync'[p].since = account[a].lastUid
      BY <3>1 DEF NoSync
    <3>3. MarkReached(a) /\ Known' = Known
      BY <1>c DEF AllReach, Known, StoredIds
    <3> QED BY <1>c, <2>2, <3>2, <3>3 DEF SyncReaches, MarkReached, Exists
  <2> QED BY <2>1, <2>2
<1>d. ASSUME NEW p \in Syncs, sync' = [sync EXCEPT ![p] = NoSync] PROVE SyncReaches(q)'
  <2>1. CASE q = p
    BY <1>0, <1>b, <1>d, <2>1 DEF NoSync
  <2> QED BY <1>0, <1>a, <1>d, <2>1
<1>7. ASSUME NEW w \in Workers, NEW a \in Accounts, BeginJob(w, a) PROVE SyncReaches(q)'
  BY <1>7, <1>c DEF BeginJob, Syncs
<1>8. ASSUME NEW h \in Handlers, NEW a \in Accounts, BeginRequest(h, a) PROVE SyncReaches(q)'
  BY <1>8, <1>c DEF BeginRequest, Syncs
<1>9. ASSUME NEW p \in Syncs, FetchNewMessages(p) PROVE SyncReaches(q)'
  <2> DEFINE box == mailbox[sync[p].box]
             found == Fetched(box, sync[p].since)
             last == LastUID(box, sync[p].since)
  <2>1. CASE Abandon(p) \/ q # p
    BY <1>0, <1>9, <1>a, <1>d, <2>1 DEF FetchNewMessages, Abandon
  <2>2. CASE ~Abandon(p) /\ q = p
    <3>1. /\ sync' = [sync EXCEPT ![p] = [sync[p] EXCEPT !.pc = "ingest", !.todo = found, !.last = last]]
          /\ sync[p].pc = "fetch" /\ UNCHANGED <<mailbox, account, messages, moved, dropped, purged>>
      BY <1>9, <2>2 DEF FetchNewMessages
    <3>2. sync[p].box \in Boxes /\ sync[p].since \in Nat
      BY <1>0, <2>2, <3>1 DEF SyncHolds, SyncState
    <3>3. box \in Seq(Mails) /\ Len(box) \in Nat
      BY <3>2, LenProperties DEF Safe, TypeOK, RowsTyped
    <3>4. ASSUME Covers(box, Known, sync[p].since, << >>) PROVE Covers(box, Known, last, found)
      <4>1. last = Len(box) /\ \A i \in 1..sync[p].since : MailId[box[i]] \in Known
        BY <3>2, <3>3, <3>4 DEF Covers, LastUID
      <4>2. \A i \in 1..Len(box) : i > sync[p].since => \E j \in 1..Len(found) : found[j] = box[i]
        BY <3>2, <3>3, FetchedFacts
      <4>3. \A i \in 1..Len(box) : i > sync[p].since \/ i \in 1..sync[p].since
        BY <3>2, <3>3
      <4> HIDE DEF found, last, box
      <4> QED BY <3>3, <4>1, <4>2, <4>3 DEF Covers
    <3> HIDE DEF found, last
    <3>5. /\ sync'[p].pc = "ingest" /\ sync'[p].last = last /\ sync'[p].todo = found
          /\ sync'[p].account = sync[p].account /\ sync'[p].box = sync[p].box
      BY <1>0, <2>2, <3>1 DEF SyncState
    <3>6. Known' = Known
      BY <3>1 DEF Known, StoredIds
    <3> QED BY <1>0, <2>2, <3>1, <3>4, <3>5, <3>6 DEF SyncReaches, Exists
  <2> QED BY <2>1, <2>2
<1>10. ASSUME NEW p \in Syncs, IngestMessage(p) PROVE SyncReaches(q)'
  <2> DEFINE a == sync[p].account
             id == MailId[Head(sync[p].todo)]
             k == <<a, id>>
  <2>1. /\ sync[p].pc = "ingest" /\ UNCHANGED <<mailbox, account, purged, moved>>
        /\ \E g : sync' = [sync EXCEPT ![p] = [sync[p] EXCEPT !.todo = Tail(sync[p].todo), !.got = g]]
    BY <1>10 DEF IngestMessage
  <2>2. CASE q # p
    BY <1>0, <1>a, <2>1, <2>2
  <2>3. CASE q = p
    <3>1. /\ sync'[p].pc = "ingest" /\ sync'[p].last = sync[p].last /\ sync'[p].todo = Tail(sync[p].todo)
          /\ sync'[p].account = a /\ sync'[p].box = sync[p].box
      BY <1>0, <2>1, <2>3 DEF SyncState
    <3>2. sync[p].todo \in Seq(Mails) /\ sync[p].todo # << >>
      BY <1>10, IngestFacts
    <3>3. sync[p].box \in Boxes /\ sync[p].last \in Nat /\ mailbox[sync[p].box] \in Seq(Mails)
      BY <1>0, <2>1, <2>3 DEF SyncHolds, SyncState, Safe, TypeOK, RowsTyped
    <3>4. Exists(a) => id \in Known'
      <4>1. CASE Insertable(a, id) /\ messages' = WithRow(k)
        <5>1. StoredIds' = StoredIds \cup {k[2]}
          BY <4>1, InsertedRow
        <5> QED BY <5>1 DEF Known
      <4>2. CASE dropped' = dropped \cup {id}
        BY <4>2 DEF Known
      <4>3. CASE ~Insertable(a, id) /\ messages' = messages
        BY <4>3 DEF Insertable, Known, StoredIds
      <4> QED BY <1>10, <4>1, <4>2, <4>3 DEF IngestMessage
    <3>5. Known \subseteq Known'
      BY KnownStep
    <3> SUFFICES ASSUME a \notin moved, Exists(a)
                 PROVE  /\ sync[p].box = account[a].box
                        /\ Covers(mailbox[sync[p].box], Known', sync[p].last, Tail(sync[p].todo))
      BY <2>1, <2>3, <3>1 DEF SyncReaches, Exists
    <3>6. Covers(mailbox[sync[p].box], Known, sync[p].last, sync[p].todo) /\ sync[p].box = account[a].box
      BY <1>0, <2>1, <2>3 DEF SyncReaches
    <3> QED BY <3>2, <3>3, <3>4, <3>5, <3>6, CoversTail
  <2> QED BY <2>2, <2>3
<1>11. ASSUME NEW p \in Syncs, UpdateSyncState(p) PROVE SyncReaches(q)'
  <2>1. CASE sync' = [sync EXCEPT ![p] = NoSync]
    BY <1>d, <2>1
  <2>2. CASE sync' = [sync EXCEPT ![p] = [sync[p] EXCEPT !.pc = "enqueue"]]
    <3>1. CASE q # p
      BY <1>0, <1>a, <2>2, <3>1
    <3>2. CASE q = p
      BY <1>0, <1>b, <2>2, <3>2 DEF SyncState
    <3> QED BY <3>1, <3>2
  <2> QED BY <1>11, <2>1, <2>2 DEF UpdateSyncState, Abandon
<1>12. ASSUME NEW w \in Workers, EnqueueTriage(w) PROVE SyncReaches(q)'
  <2>1. w \in Syncs /\ sync[w].pc = "enqueue" /\ \E g : sync' = [sync EXCEPT ![w] = [sync[w] EXCEPT !.got = g]]
    BY <1>12 DEF EnqueueTriage, Syncs
  <2>2. CASE q # w
    BY <1>0, <1>a, <2>1, <2>2
  <2>3. CASE q = w
    BY <1>0, <1>b, <2>1, <2>3 DEF SyncState
  <2> QED BY <2>2, <2>3
<1>13. ASSUME NEW w \in Workers, SyncJobDone(w) PROVE SyncReaches(q)'
  BY <1>d, <1>13 DEF SyncJobDone, Syncs
<1>15. CASE WorkerCrash \/ ServerCrash
  <2>1. sync'[q] \in {sync[q], NoSync}
    BY <1>0, <1>15 DEF WorkerCrash, ServerCrash
  <2>2. NoSync.pc \notin {"fetch", "ingest"}
    BY DEF NoSync
  <2> QED BY <1>a, <1>b, <2>1, <2>2
<1>e. ASSUME UNCHANGED sync PROVE SyncReaches(q)'
  BY <1>a, <1>e
<1>f. \/ UNCHANGED sync \/ WorkerCrash \/ ServerCrash
      \/ \E w \in Workers, a \in Accounts : BeginJob(w, a)
      \/ \E h \in Handlers, a \in Accounts : BeginRequest(h, a)
      \/ \E p \in Syncs : FetchNewMessages(p) \/ IngestMessage(p) \/ UpdateSyncState(p)
      \/ \E w \in Workers : EnqueueTriage(w) \/ SyncJobDone(w)
  BY DEF Next, vars, Deliver, CreateAccount, UpdateAccount, DeleteAccount, TagMessage, EmailSyncAll,
     Triage, BeginSend, SendMail, RecordSent
<1> QED BY <1>7, <1>8, <1>9, <1>10, <1>11, <1>12, <1>13, <1>15, <1>e, <1>f

------------------------------------------------------------------------------
(* A trigger goes with an insert, and a row is inserted at most once.      *)
LEMMA TriggerStep ==
  ASSUME Safe, TriggersHold, [Next]_vars
  PROVE  TriggersHold'
<1> USE DEF rows, history
<1>0. triggers \in [Accounts \X Ids -> Nat] /\ AccountsMove /\ account \in [Accounts -> AccountRow]
  BY AccountStep DEF Safe, TypeOK, HistoryTyped, RowsTyped
<1> SUFFICES ASSUME NEW a \in Accounts, NEW i \in Ids
             PROVE  /\ triggers'[<<a, i>>] <= 1
                    /\ triggers'[<<a, i>>] = 1 => <<a, i>> \in DOMAIN messages' \/ account'[a].state = "deleted"
  BY DEF TriggersHold
<1>1. /\ triggers[<<a, i>>] <= 1 /\ triggers[<<a, i>>] \in Nat
      /\ triggers[<<a, i>>] = 1 => <<a, i>> \in DOMAIN messages \/ account[a].state = "deleted"
  BY <1>0 DEF TriggersHold
<1>2. <<a, i>> \in DOMAIN messages => <<a, i>> \in DOMAIN messages' \/ account'[a].state = "deleted"
  <2>1. ASSUME NEW c \in Accounts, DeleteAccount(c), <<a, i>> \in DOMAIN messages
        PROVE  <<a, i>> \in DOMAIN messages' \/ account'[a].state = "deleted"
    BY <1>0, <2>1 DEF DeleteAccount
  <2>2. ASSUME NEW k, messages' = WithRow(k) PROVE DOMAIN messages \subseteq DOMAIN messages'
    BY <2>2, InsertedRow
  <2> QED BY <2>1, <2>2, RowsChange
<1>3. account[a].state = "deleted" => account'[a].state = "deleted"
  BY <1>0 DEF AccountsMove
<1>4. CASE triggers' = triggers
  BY <1>1, <1>2, <1>3, <1>4
<1>5. ASSUME NEW p \in Syncs, IngestMessage(p), triggers' # triggers
      PROVE  /\ triggers'[<<a, i>>] <= 1
             /\ triggers'[<<a, i>>] = 1 => <<a, i>> \in DOMAIN messages' \/ account'[a].state = "deleted"
  <2> DEFINE k == <<sync[p].account, MailId[Head(sync[p].todo)]>>
  <2>1. /\ triggers' = [triggers EXCEPT ![k] = @ + 1] /\ messages' = WithRow(k)
        /\ Exists(sync[p].account) /\ MailId[Head(sync[p].todo)] \notin StoredIds
    BY <1>5 DEF IngestMessage, Insertable
  <2>2. k \in DOMAIN messages'
    BY <2>1, InsertedRow
  <2>3. CASE <<a, i>> = k
    <3>1. <<a, i>> \notin DOMAIN messages /\ account[a].state # "deleted"
      BY <2>1, <2>3 DEF StoredIds, Exists
    <3>2. triggers[<<a, i>>] = 0
      BY <1>1, <3>1
    <3>3. triggers'[<<a, i>>] = 1
      BY <1>0, <2>1, <2>3, <3>2
    <3> QED BY <2>2, <2>3, <3>3
  <2>4. CASE <<a, i>> # k
    <3>1. triggers'[<<a, i>>] = triggers[<<a, i>>]
      BY <1>0, <2>1, <2>4
    <3> QED BY <1>1, <1>2, <1>3, <3>1
  <2> QED BY <2>3, <2>4
<1>6. triggers' = triggers \/ \E p \in Syncs : IngestMessage(p)
  BY DEF Next, vars, Deliver, CreateAccount, UpdateAccount, DeleteAccount, TagMessage, EmailSyncAll,
     BeginJob, BeginRequest, FetchNewMessages, UpdateSyncState, EnqueueTriage, SyncJobDone, Triage,
     WorkerCrash, BeginSend, SendMail, RecordSent, ServerCrash
<1> QED BY <1>4, <1>5, <1>6

(* What IngestedIsTriaged says of one row.                                 *)
OnItsWay(k) ==
    \/ messages[k] # "none"
    \/ k \in triageJobs \cup untriaged
    \/ \E w \in Workers : k \in sync[w].got

LEMMA TriageStep ==
  ASSUME Safe, IngestedIsTriaged, [Next]_vars
  PROVE  IngestedIsTriaged'
<1> USE EmailAssumption DEF rows, queue, history
<1>0. /\ messages \in [DOMAIN messages -> {"none", "user", "triage"}]
      /\ sync \in [Syncs -> SyncState] /\ SyncsHold /\ Workers \subseteq Syncs
      /\ \A w \in Workers : w \in Syncs /\ sync[w] \in SyncState
  BY DEF Safe, TypeOK, RowsTyped, JobsTyped, Syncs
<1> SUFFICES ASSUME NEW k \in Accounts \X Ids, k \in DOMAIN messages' PROVE OnItsWay(k)'
  BY DEF IngestedIsTriaged, OnItsWay
<1>1. k \in DOMAIN messages => OnItsWay(k)
  BY DEF IngestedIsTriaged, OnItsWay
<1>a. ASSUME k \in DOMAIN messages, messages'[k] = messages[k] \/ messages'[k] # "none",
             triageJobs \subseteq triageJobs' \/ messages'[k] # "none",
             untriaged \subseteq untriaged',
             \A w \in Workers : k \in sync[w].got => k \in sync'[w].got \/ k \in triageJobs' \cup untriaged'
      PROVE  OnItsWay(k)'
  BY <1>1, <1>a DEF OnItsWay
<1>b. ASSUME UNCHANGED <<messages, triageJobs, untriaged, sync>> PROVE OnItsWay(k)'
  BY <1>a, <1>b
<1>4. ASSUME NEW a \in Accounts, DeleteAccount(a) PROVE OnItsWay(k)'
  <2>1. k \in DOMAIN messages /\ messages'[k] = messages[k]
    BY <1>4 DEF DeleteAccount
  <2> QED BY <1>a, <1>4, <2>1 DEF DeleteAccount
<1>5. ASSUME NEW j \in Keys, TagMessage(j) PROVE OnItsWay(k)'
  <2>1. k \in DOMAIN messages /\ (messages'[k] = messages[k] \/ messages'[k] # "none")
    BY <1>0, <1>5 DEF TagMessage
  <2> QED BY <1>a, <1>5, <2>1 DEF TagMessage
<1>c. ASSUME NEW p \in Syncs, NEW a \in Accounts, Begin(p, a), UNCHANGED <<messages, triageJobs, untriaged>>
      PROVE  OnItsWay(k)'
  <2>1. sync[p].got = {}
    BY <1>0, <1>c DEF Begin, SyncsHold
  <2>2. \A w \in Workers : k \in sync[w].got => k \in sync'[w].got
    BY <1>0, <1>c, <2>1 DEF Begin
  <2> QED BY <1>a, <1>c, <2>2
<1>d. ASSUME NEW p \in Syncs, Abandon(p), UNCHANGED <<messages, triageJobs>> PROVE OnItsWay(k)'
  <2>1. \A w \in Workers : k \in sync[w].got => k \in sync'[w].got \/ k \in untriaged'
    BY <1>0, <1>d DEF Abandon
  <2> QED BY <1>a, <1>d, <2>1 DEF Abandon
<1>7. ASSUME NEW w \in Workers, NEW a \in Accounts, BeginJob(w, a) PROVE OnItsWay(k)'
  BY <1>0, <1>7, <1>c DEF BeginJob
<1>8. ASSUME NEW h \in Handlers, NEW a \in Accounts, BeginRequest(h, a) PROVE OnItsWay(k)'
  BY <1>8, <1>c DEF BeginRequest, Syncs
<1>9. ASSUME NEW p \in Syncs, FetchNewMessages(p) PROVE OnItsWay(k)'
  <2>1. CASE Abandon(p)
    BY <1>9, <1>d, <2>1 DEF FetchNewMessages
  <2>2. CASE ~Abandon(p)
    <3>1. /\ sync' = [sync EXCEPT ![p].pc = "ingest",
                                   ![p].todo = Fetched(mailbox[sync[p].box], sync[p].since),
                                   ![p].last = LastUID(mailbox[sync[p].box], sync[p].since)]
          /\ UNCHANGED <<messages, triageJobs, untriaged>>
      BY <1>9, <2>2 DEF FetchNewMessages
    <3>2. \A w \in Workers : sync'[w].got = sync[w].got
      BY <1>0, <3>1 DEF SyncState
    <3> QED BY <1>a, <3>1, <3>2
  <2> QED BY <2>1, <2>2
<1>10. ASSUME NEW p \in Syncs, IngestMessage(p) PROVE OnItsWay(k)'
  <2> DEFINE j == <<sync[p].account, MailId[Head(sync[p].todo)]>>
  <2>1. \A w \in Workers : sync[w].got \subseteq sync'[w].got
    <3>1. \E g : sync' = [sync EXCEPT ![p] = [sync[p] EXCEPT !.todo = Tail(sync[p].todo), !.got = sync[p].got \cup g]]
      BY <1>10 DEF IngestMessage
    <3> QED BY <1>0, <3>1 DEF SyncState
  <2>2. untriaged \subseteq untriaged' /\ triageJobs' = triageJobs
    BY <1>10 DEF IngestMessage
  <2>3. CASE messages' = messages
    BY <1>a, <2>1, <2>2, <2>3
  <2>4. CASE messages' # messages
    <3>1. /\ messages' = WithRow(j)
          /\ sync' = [sync EXCEPT ![p] = [sync[p] EXCEPT !.todo = Tail(sync[p].todo),
                                                         !.got = sync[p].got \cup Ingested(j, TRUE)]]
          /\ untriaged' = IF p \in Handlers THEN untriaged \cup {j} ELSE untriaged
      BY <1>10, <2>4 DEF IngestMessage
    <3>2. CASE k = j
      <4>1. CASE p \in Handlers
        BY <3>1, <3>2, <4>1 DEF OnItsWay
      <4>2. CASE p \in Workers
        <5>1. sync'[p].got = sync[p].got \cup {j}
          BY <1>0, <3>1 DEF SyncState, Ingested
        <5> QED BY <3>2, <4>2, <5>1 DEF OnItsWay
      <4> QED BY <4>1, <4>2 DEF Syncs
    <3>3. CASE k # j
      <4>1. k \in DOMAIN messages /\ messages'[k] = messages[k]
        BY <3>1, <3>3 DEF WithRow
      <4> QED BY <1>a, <2>1, <2>2, <4>1
    <3> QED BY <3>2, <3>3
  <2> QED BY <2>3, <2>4
<1>11. ASSUME NEW p \in Syncs, UpdateSyncState(p) PROVE OnItsWay(k)'
  <2>1. CASE Abandon(p)
    BY <1>11, <1>d, <2>1 DEF UpdateSyncState
  <2>2. CASE ~Abandon(p)
    <3>1. /\ sync' = IF p \in Workers THEN [sync EXCEPT ![p] = [sync[p] EXCEPT !.pc = "enqueue"]]
                                      ELSE [sync EXCEPT ![p] = NoSync]
          /\ UNCHANGED <<messages, triageJobs, untriaged>>
      BY <1>11, <2>2 DEF UpdateSyncState
    <3>2. \A w \in Workers : sync'[w].got = sync[w].got
      BY <1>0, <3>1 DEF SyncState
    <3> QED BY <1>a, <3>1, <3>2
  <2> QED BY <2>1, <2>2
<1>12. ASSUME NEW v \in Workers, EnqueueTriage(v) PROVE OnItsWay(k)'
  <2>1. PICK j \in sync[v].got :
          /\ sync' = [sync EXCEPT ![v] = [sync[v] EXCEPT !.got = sync[v].got \ {j}]]
          /\ j \in triageJobs' \cup untriaged'
          /\ triageJobs \subseteq triageJobs' /\ untriaged \subseteq untriaged' /\ messages' = messages
    BY <1>12 DEF EnqueueTriage
  <2>2. \A w \in Workers : k \in sync[w].got => k \in sync'[w].got \/ k \in triageJobs' \cup untriaged'
    BY <1>0, <2>1 DEF SyncState
  <2> QED BY <1>a, <2>1, <2>2
<1>13. ASSUME NEW v \in Workers, SyncJobDone(v) PROVE OnItsWay(k)'
  <2>1. \A w \in Workers : k \in sync[w].got => k \in sync'[w].got
    BY <1>0, <1>13 DEF SyncJobDone
  <2> QED BY <1>a, <1>13, <2>1 DEF SyncJobDone
<1>14. ASSUME NEW j \in Keys, Triage(j) PROVE OnItsWay(k)'
  <2>1. messages' \in {messages, [messages EXCEPT ![j] = "triage"]} /\ UNCHANGED <<sync, untriaged>>
    BY <1>14 DEF Triage
  <2>2. k \in DOMAIN messages
    BY <2>1
  <2>3. CASE k = j
    <3>1. messages'[k] # "none" \/ triageJobs' = triageJobs
      BY <1>0, <1>14, <2>2, <2>3 DEF Triage
    <3>2. messages'[k] = messages[k] \/ messages'[k] # "none"
      BY <1>0, <2>1, <2>2
    <3> QED BY <1>a, <2>1, <2>2, <3>1, <3>2
  <2>4. CASE k # j
    <3>1. messages'[k] = messages[k]
      BY <1>0, <2>1, <2>2, <2>4
    <3>2. k \in triageJobs => k \in triageJobs'
      BY <1>14, <2>4 DEF Triage
    <3> QED BY <1>1, <2>1, <2>2, <3>1, <3>2 DEF OnItsWay
  <2> QED BY <2>3, <2>4
<1>15. CASE WorkerCrash
  <2>1. \A w \in Workers : k \in sync[w].got => k \in untriaged'
    BY <1>15 DEF WorkerCrash
  <2> QED BY <1>a, <1>15, <2>1 DEF WorkerCrash
<1>18. ASSUME NEW s \in Sends, RecordSent(s) PROVE OnItsWay(k)'
  <2>1. messages' \in {messages, WithRow(<<send[s].account, s>>)} /\ UNCHANGED <<sync, triageJobs, untriaged>>
    BY <1>18 DEF RecordSent
  <2>2. k # <<send[s].account, s>>
    BY DEF Ids
  <2>3. k \in DOMAIN messages /\ messages'[k] = messages[k]
    BY <2>1, <2>2 DEF WithRow
  <2> QED BY <1>a, <2>1, <2>3
<1>19. CASE ServerCrash
  <2>1. \A w \in Workers : sync'[w] = sync[w]
    BY <1>0, <1>19 DEF ServerCrash
  <2> QED BY <1>a, <1>19, <2>1 DEF ServerCrash
<1>20. \/ UNCHANGED <<messages, triageJobs, untriaged, sync>>
       \/ WorkerCrash \/ ServerCrash
       \/ \E a \in Accounts : DeleteAccount(a)
       \/ \E j \in Keys : TagMessage(j) \/ Triage(j)
       \/ \E w \in Workers, a \in Accounts : BeginJob(w, a)
       \/ \E h \in Handlers, a \in Accounts : BeginRequest(h, a)
       \/ \E p \in Syncs : FetchNewMessages(p) \/ IngestMessage(p) \/ UpdateSyncState(p)
       \/ \E w \in Workers : EnqueueTriage(w) \/ SyncJobDone(w)
       \/ \E s \in Sends : RecordSent(s)
  BY DEF Next, vars, Deliver, CreateAccount, UpdateAccount, EmailSyncAll, BeginSend, SendMail
<1> QED BY <1>b, <1>4, <1>5, <1>7, <1>8, <1>9, <1>10, <1>11, <1>12, <1>13, <1>14, <1>15, <1>18, <1>19, <1>20

------------------------------------------------------------------------------
(* A stored row joins what a sync returns only when it is inserted, and it *)
(* is inserted once.                                                       *)
LEMMA SettledStep ==
  ASSUME Safe, [Next]_vars, NEW k \in DOMAIN messages, Settled(k)
  PROVE  Settled(k)'
<1> USE EmailAssumption DEF rows, queue, history
<1>0. /\ sync \in [Syncs -> SyncState] /\ Workers \subseteq Syncs
      /\ k \notin triageJobs /\ \A w \in Workers : k \notin sync[w].got
  BY DEF Safe, TypeOK, JobsTyped, Syncs, Settled
<1>a. ASSUME triageJobs' \subseteq triageJobs,
             \A w \in Workers : sync'[w].got \subseteq sync[w].got
      PROVE  Settled(k)'
  BY <1>0, <1>a DEF Settled
<1>b. ASSUME triageJobs' \subseteq triageJobs, sync' = sync PROVE Settled(k)'
  BY <1>a, <1>b
<1>c. ASSUME NEW p \in Syncs, sync' = [sync EXCEPT ![p] = NoSync], triageJobs' = triageJobs
      PROVE  Settled(k)'
  <2>1. \A w \in Workers : sync'[w].got \subseteq sync[w].got
    BY <1>0, <1>c DEF NoSync
  <2> QED BY <1>a, <1>c, <2>1
<1>d. ASSUME NEW p \in Syncs, NEW a \in Accounts, Begin(p, a), triageJobs' = triageJobs
      PROVE  Settled(k)'
  <2>1. \A w \in Workers : sync'[w].got \subseteq sync[w].got
    BY <1>0, <1>d DEF Begin, NoSync
  <2> QED BY <1>a, <1>d, <2>1
<1>1. ASSUME NEW w \in Workers, NEW a \in Accounts, BeginJob(w, a) PROVE Settled(k)'
  BY <1>0, <1>1, <1>d DEF BeginJob
<1>2. ASSUME NEW h \in Handlers, NEW a \in Accounts, BeginRequest(h, a) PROVE Settled(k)'
  BY <1>2, <1>d DEF BeginRequest, Syncs
<1>3. ASSUME NEW p \in Syncs, FetchNewMessages(p) PROVE Settled(k)'
  <2>0. triageJobs' = triageJobs
    BY <1>3 DEF FetchNewMessages
  <2>1. CASE Abandon(p)
    BY <1>c, <2>0, <2>1 DEF Abandon
  <2>2. CASE ~Abandon(p)
    <3>1. sync' = [sync EXCEPT ![p].pc = "ingest",
                               ![p].todo = Fetched(mailbox[sync[p].box], sync[p].since),
                               ![p].last = LastUID(mailbox[sync[p].box], sync[p].since)]
      BY <1>3, <2>2 DEF FetchNewMessages
    <3>2. \A w \in Workers : sync'[w].got = sync[w].got
      BY <1>0, <3>1 DEF SyncState
    <3> QED BY <1>a, <2>0, <3>2
  <2> QED BY <2>1, <2>2
<1>4. ASSUME NEW p \in Syncs, IngestMessage(p) PROVE Settled(k)'
  <2> DEFINE a == sync[p].account
             id == MailId[Head(sync[p].todo)]
  <2>1. triageJobs' = triageJobs
    BY <1>4 DEF IngestMessage
  <2>2. \/ id \notin StoredIds /\ sync' = [sync EXCEPT ![p] = [sync[p] EXCEPT !.todo = Tail(sync[p].todo),
                                                   !.got = sync[p].got \cup {<<a, id>>}]]
        \/ sync' = [sync EXCEPT ![p] = [sync[p] EXCEPT !.todo = Tail(sync[p].todo), !.got = sync[p].got \cup {}]]
    BY <1>4 DEF IngestMessage, Insertable, Ingested
  <2>3. id \notin StoredIds => <<a, id>> # k
    BY DEF StoredIds
  <2>4. \E g : k \notin g /\ sync' = [sync EXCEPT ![p] = [sync[p] EXCEPT !.todo = Tail(sync[p].todo),
                                                                     !.got = sync[p].got \cup g]]
    <3> HIDE DEF a, id
    <3>1. CASE id \notin StoredIds /\ sync' = [sync EXCEPT ![p] = [sync[p] EXCEPT !.todo = Tail(sync[p].todo),
                                                   !.got = sync[p].got \cup {<<a, id>>}]]
      <4>1. k \notin {<<a, id>>}
        BY <2>3, <3>1
      <4> QED BY <3>1, <4>1
    <3>2. CASE sync' = [sync EXCEPT ![p] = [sync[p] EXCEPT !.todo = Tail(sync[p].todo), !.got = sync[p].got \cup {}]]
      <4>1. k \notin {}
        OBVIOUS
      <4> QED BY <3>2, <4>1
    <3> QED BY <2>2, <3>1, <3>2
  <2>5. \A w \in Workers : k \notin sync'[w].got
    BY <1>0, <2>4 DEF SyncState
  <2> QED BY <1>0, <2>1, <2>5 DEF Settled
<1>5. ASSUME NEW p \in Syncs, UpdateSyncState(p) PROVE Settled(k)'
  <2>0. triageJobs' = triageJobs
    BY <1>5 DEF UpdateSyncState
  <2>1. CASE sync' = [sync EXCEPT ![p] = NoSync]
    BY <1>c, <2>0, <2>1
  <2>2. CASE sync' # [sync EXCEPT ![p] = NoSync]
    <3>1. sync' = [sync EXCEPT ![p] = [sync[p] EXCEPT !.pc = "enqueue"]]
      BY <1>5, <2>2 DEF UpdateSyncState, Abandon
    <3>2. \A w \in Workers : sync'[w].got = sync[w].got
      BY <1>0, <3>1 DEF SyncState
    <3> QED BY <1>a, <2>0, <3>2
  <2> QED BY <2>1, <2>2
<1>6. ASSUME NEW v \in Workers, EnqueueTriage(v) PROVE Settled(k)'
  <2>1. PICK j \in sync[v].got :
          /\ sync' = [sync EXCEPT ![v] = [sync[v] EXCEPT !.got = sync[v].got \ {j}]]
          /\ triageJobs' \subseteq triageJobs \cup {j}
    BY <1>6 DEF EnqueueTriage
  <2>2. j # k
    BY <1>0, <2>1
  <2>3. \A w \in Workers : k \notin sync'[w].got
    BY <1>0, <2>1 DEF SyncState
  <2> QED BY <1>0, <2>1, <2>2, <2>3 DEF Settled
<1>7. ASSUME NEW v \in Workers, SyncJobDone(v) PROVE Settled(k)'
  BY <1>0, <1>7, <1>c DEF SyncJobDone
<1>8. CASE WorkerCrash \/ ServerCrash
  <2>1. \A w \in Workers : sync'[w].got \subseteq sync[w].got
    BY <1>0, <1>8 DEF WorkerCrash, ServerCrash, NoSync
  <2>2. triageJobs' = triageJobs
    BY <1>8 DEF WorkerCrash, ServerCrash
  <2> QED BY <1>a, <2>1, <2>2
<1>9. ASSUME NEW j \in Keys, Triage(j) PROVE Settled(k)'
  <2>1. triageJobs' \subseteq triageJobs /\ sync' = sync
    BY <1>9 DEF Triage
  <2> QED BY <1>b, <2>1
<1>10. \/ triageJobs' = triageJobs /\ sync' = sync
       \/ WorkerCrash \/ ServerCrash
       \/ \E j \in Keys : Triage(j)
       \/ \E w \in Workers, a \in Accounts : BeginJob(w, a)
       \/ \E h \in Handlers, a \in Accounts : BeginRequest(h, a)
       \/ \E p \in Syncs : FetchNewMessages(p) \/ IngestMessage(p) \/ UpdateSyncState(p)
       \/ \E w \in Workers : EnqueueTriage(w) \/ SyncJobDone(w)
  BY DEF Next, vars, Deliver, CreateAccount, UpdateAccount, DeleteAccount, TagMessage, EmailSyncAll,
     BeginSend, SendMail, RecordSent
<1> QED BY <1>b, <1>1, <1>2, <1>3, <1>4, <1>5, <1>6, <1>7, <1>8, <1>9, <1>10

(* Only a sync lowers a watermark, and it writes at least what it read.    *)
LEMMA WatermarkStep ==
  ASSUME Safe, [Next]_vars, NEW a \in Accounts,
         account'[a].state \in {"active", "inactive"}, account'[a].lastUid < account[a].lastUid
  PROVE  \E p \in Syncs : sync[p].account = a /\ sync[p].since < account[a].lastUid
<1> USE DEF rows, queue, history
<1>0. /\ account \in [Accounts -> AccountRow] /\ account[a] \in AccountRow /\ AccountsHold /\ SyncsHold
      /\ account[a].lastUid \in Nat
  BY EmailAssumption DEF Safe, TypeOK, RowsTyped, AccountRow
<1>1. ASSUME account'[a].lastUid = account[a].lastUid PROVE FALSE
  BY <1>0, <1>1
<1>2. ASSUME NEW c \in Accounts, CreateAccount(c) PROVE FALSE
  <2>1. c # a => account'[a] = account[a]
    BY <1>0, <1>2 DEF CreateAccount
  <2>2. c = a => account'[a].lastUid = 0 /\ account[a].lastUid = 0
    BY <1>0, <1>2 DEF CreateAccount, AccountsHold
  <2> QED BY <1>1, <2>1, <2>2
<1>3. ASSUME NEW c \in Accounts, NEW b \in Boxes, NEW active \in BOOLEAN, UpdateAccount(c, b, active) PROVE FALSE
  <2>1. account'[a].lastUid = account[a].lastUid
    BY <1>0, <1>3 DEF UpdateAccount, AccountRow
  <2> QED BY <1>1, <2>1
<1>4. ASSUME NEW c \in Accounts, DeleteAccount(c) PROVE FALSE
  <2>1. c # a => account'[a] = account[a]
    BY <1>0, <1>4 DEF DeleteAccount
  <2>2. c = a => account'[a].state = "deleted"
    BY <1>0, <1>4 DEF DeleteAccount
  <2> QED BY <1>1, <2>1, <2>2
<1>5. ASSUME NEW p \in Syncs, UpdateSyncState(p)
      PROVE  sync[p].account = a /\ sync[p].since < account[a].lastUid
  <2>1. account' # account
    BY <1>1
  <2>2. /\ account' = [account EXCEPT ![sync[p].account] = [account[sync[p].account] EXCEPT !.lastUid = sync[p].last]]
        /\ sync[p].pc = "ingest"
    BY <1>5, <2>1 DEF UpdateSyncState
  <2>3. sync[p].account = a
    BY <1>0, <1>1, <2>2
  <2>4. account'[a].lastUid = sync[p].last
    BY <1>0, <2>2, <2>3 DEF AccountRow
  <2>5. sync[p].since <= sync[p].last /\ sync[p].since \in Nat /\ sync[p].last \in Nat
    BY <1>0, <2>2, EmailAssumption DEF SyncsHold, Safe, TypeOK, JobsTyped, SyncState
  <2> QED BY <1>0, <2>3, <2>4, <2>5
<1>6. \/ account' = account
      \/ \E c \in Accounts : CreateAccount(c) \/ DeleteAccount(c)
      \/ \E c \in Accounts, b \in Boxes, active \in BOOLEAN : UpdateAccount(c, b, active)
      \/ \E p \in Syncs : UpdateSyncState(p)
  BY DEF Next, vars, Deliver, TagMessage, EmailSyncAll, BeginJob, BeginRequest, FetchNewMessages,
     IngestMessage, EnqueueTriage, SyncJobDone, Triage, WorkerCrash, BeginSend, SendMail,
     RecordSent, ServerCrash
<1> QED BY <1>1, <1>2, <1>3, <1>4, <1>5, <1>6

------------------------------------------------------------------------------
IInv == Safe /\ AllReach /\ TriggersHold /\ IngestedIsTriaged /\ SentMailIsRecorded

LEMMA IInvInit == Init => IInv
<1> SUFFICES ASSUME Init PROVE IInv
  OBVIOUS
<1>1. TypeOK
  BY TypeInit
<1>2. \A a \in Accounts : account[a].state = "absent" /\ account[a].lastUid = 0 /\ ~Exists(a)
  BY DEF Init, Exists
<1>3. \A p \in Syncs : sync[p].pc = "idle" /\ sync[p].got = {}
  BY DEF Init, NoSync
<1>4. \A s \in Sends : send[s].pc = "new"
  BY DEF Init
<1>5. DOMAIN messages = {} /\ StoredIds = {}
  BY DEF Init, StoredIds
<1>6. AccountsHold /\ SyncsHold /\ SendsHold
  BY <1>2, <1>3, <1>4 DEF AccountsHold, SyncsHold, SendsHold
<1>7. AllReach
  BY <1>2, <1>3 DEF AllReach, MarkReached, SyncReaches
<1>8. TriggersHold
  BY DEF Init, TriggersHold
<1>9. IngestedIsTriaged /\ SentMailIsRecorded
  BY <1>4, <1>5 DEF IngestedIsTriaged, SentMailIsRecorded
<1> QED BY <1>1, <1>6, <1>7, <1>8, <1>9 DEF IInv, Safe

LEMMA IInvStep == IInv /\ [Next]_vars => IInv'
<1> SUFFICES ASSUME IInv, [Next]_vars PROVE IInv'
  OBVIOUS
<1>0. Safe /\ AllReach /\ TriggersHold /\ IngestedIsTriaged /\ SentMailIsRecorded
  BY DEF IInv
<1>1. Safe'
  BY <1>0, TypeStep, AccountStep, SyncStep, SendStep DEF Safe
<1>2. AllReach'
  BY <1>0, MarkStep, SyncReachStep DEF AllReach
<1>3. TriggersHold' /\ IngestedIsTriaged' /\ SentMailIsRecorded'
  BY <1>0, TriggerStep, TriageStep, SendStep
<1> QED BY <1>1, <1>2, <1>3 DEF IInv

LEMMA Invariance == Spec => []IInv
  BY IInvInit, IInvStep, PTL DEF Spec

(* The tables, the queue and the requests keep their types for every       *)
(* number of accounts, mailboxes, jobs, requests and mails.                *)
THEOREM MailTyped == Spec => []TypeOK
<1>1. IInv => TypeOK
  BY DEF IInv, Safe
<1> QED BY <1>1, Invariance, PTL

(* No mail at or below a watermark is lost by overlapping syncs, retries,  *)
(* crashes or mail that arrives during a sync (SyncAccount).               *)
THEOREM NoMailLost == Spec => []NoMailIsSkipped
<1>1. IInv => NoMailIsSkipped
  <2> SUFFICES ASSUME IInv, NEW a \in Accounts \ moved, Exists(a), NEW i \in 1..account[a].lastUid
               PROVE  MailId[mailbox[account[a].box][i]] \in StoredIds \cup purged \cup dropped
    BY DEF NoMailIsSkipped
  <2>1. Covers(mailbox[account[a].box], Known, account[a].lastUid, << >>)
    BY DEF IInv, AllReach, MarkReached
  <2>2. ~\E j \in 1..Len(<< >>) : TRUE
    OBVIOUS
  <2> QED BY <2>1, <2>2 DEF Covers, Known
<1> QED BY <1>1, Invariance, PTL

(* Every inbound row is tagged or on its way to the triage, unless a       *)
(* failure or a manual sync took it off that way (EmailSyncWorker.Work).   *)
THEOREM EveryMailOnItsWay == Spec => []IngestedIsTriaged
<1>1. IInv => IngestedIsTriaged
  BY DEF IInv
<1> QED BY <1>1, Invariance, PTL

(* A request answered with success sent its mail and kept a row of it, and *)
(* no row claims a mail that was not sent (SendMessage).                   *)
THEOREM SentIsRecorded == Spec => []SentMailIsRecorded
<1>1. IInv => SentMailIsRecorded
  BY DEF IInv
<1> QED BY <1>1, Invariance, PTL

(* However often a mail is fetched, its workflows start at most once, it   *)
(* does not return to the triage, and a watermark goes back only under an  *)
(* overlap (SyncAccount, IngestMessage).                                   *)
THEOREM MailHandledOnce == Spec => HandledOnce
<1>1. IInv => TriggeredAtMostOnce
  <2> SUFFICES ASSUME IInv, NEW k \in DOMAIN triggers PROVE triggers[k] <= 1
    BY DEF TriggeredAtMostOnce
  <2>1. k \in Accounts \X Ids
    BY DEF IInv, Safe, TypeOK, HistoryTyped
  <2> QED BY <2>1 DEF IInv, TriggersHold
<1>2. IInv /\ [Next]_vars => [\A k \in DOMAIN messages : Settled(k) => Settled(k)']_vars
  BY SettledStep DEF IInv
<1>3. IInv /\ [Next]_vars =>
        [\A a \in Accounts :
           account'[a].state \in {"active", "inactive"} /\ account'[a].lastUid < account[a].lastUid =>
              \E p \in Syncs : sync[p].account = a /\ sync[p].since < account[a].lastUid]_vars
  BY WatermarkStep DEF IInv
<1> QED BY <1>1, <1>2, <1>3, Invariance, PTL DEF Spec, HandledOnce, TriageIsNotRepeated, WatermarkGoesBackOnlyByOverlap
==============================================================================
