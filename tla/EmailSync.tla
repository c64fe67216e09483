------------------------------ MODULE EmailSync ------------------------------
(***************************************************************************)
(* Mail accounts, the incremental IMAP sync, the job queue that drives it  *)
(* and the triage that follows it, and the sending of mail                 *)
(* (internal/core/email, internal/mailclient, internal/queue).             *)
(*                                                                         *)
(* The worker's periodic fan-out inserts one sync job per active account;  *)
(* a job, or a user's "sync now" request, reads the account's watermark,   *)
(* fetches what lies above it, inserts message by message and writes the   *)
(* watermark back.  Nothing keeps two syncs of one account apart: what     *)
(* makes an overlap, a retry or a crash harmless is the UNIQUE column      *)
(* email_messages.message_id.  The queue itself (River) is external: a job *)
(* whose work returns an error, or whose process dies, runs again.         *)
(*                                                                         *)
(* A mailbox is a sequence of mails and a mail's UID is its index; the     *)
(* server's mailbox only grows.  A row of email_messages is identified by  *)
(* its account and its Message-ID: an account that was deleted never comes *)
(* back, and no operation deletes a single message.                        *)
(***************************************************************************)
EXTENDS Naturals, Sequences

CONSTANTS
    Accounts,     \* rows email_accounts may hold
    Boxes,        \* mailboxes on IMAP servers
    ImapBox,      \* the mailbox an account is created with
    Mails,        \* mails other people send
    MailId,       \* the Message-ID header of a mail
    Homes,        \* the mailboxes a mail is addressed to
    Malformed,    \* the mails mailclient.parseMessage cannot read
    Workers,      \* sync jobs the worker process runs at once
    Handlers,     \* requests to /emails/accounts/{id}/sync
    Sends,        \* requests to /emails/send
    None,
    MaxUid,       \* bound on the mails of a mailbox
    MaxQueue,     \* bound on the waiting sync jobs of an account
    MaxFaults,    \* bound on failures (database, server, AI gateway, crash)
    MaxOps        \* bound on the requests of users

ASSUME EmailAssumption ==
    /\ Malformed \subseteq Mails
    /\ DOMAIN MailId = Mails /\ ImapBox \in [Accounts -> Boxes] /\ Homes \in [Mails -> SUBSET Boxes]
    /\ Workers \cap Handlers = {}
    /\ \A m \in Mails : MailId[m] \notin Sends    \* the Message-ID of sent mail is a new UUID
    /\ MaxUid \in Nat /\ MaxQueue \in Nat \ {0} /\ MaxFaults \in Nat /\ MaxOps \in Nat

Ids == {MailId[m] : m \in Mails}
Syncs == Workers \cup Handlers
Keys == Accounts \X (Ids \cup Sends)

VARIABLES
    mailbox,      \* the mails on the server, by box
    account,      \* email_accounts
    messages,     \* email_messages: the tags of every row, by key
    syncJobs,     \* waiting email_sync jobs, by account
    sync,         \* SyncAccount in progress, by caller
    triageJobs,   \* waiting email_triage jobs
    triggers,     \* how often INBOUND_EMAIL was triggered for a row (history)
    send,         \* SendMessage in progress or answered, by request
    sent,         \* requests whose mail the SMTP server accepted
    faults, ops,
    dropped,      \* Message-IDs whose insert failed on a database error (history)
    purged,       \* Message-IDs of rows that went with their account (history)
    moved,        \* accounts pointed at another mailbox (history)
    untriaged     \* rows nobody will triage: a failure, or a manual sync (history)

rows == <<account, messages>>
queue == <<syncJobs, triageJobs>>
history == <<triggers, dropped, purged, moved, untriaged>>
vars == <<mailbox, rows, queue, sync, send, sent, faults, ops, history>>
------------------------------------------------------------------------------
NoSync == [pc |-> "idle", account |-> None, box |-> None,
           since |-> 0, todo |-> << >>, last |-> 0, got |-> {}]

Exists(a) == account[a].state \in {"active", "inactive"}
StoredIds == {k[2] : k \in DOMAIN messages}
Fails == faults < MaxFaults /\ faults' = faults + 1
Works == UNCHANGED faults

Init ==
    /\ mailbox = [b \in Boxes |-> << >>]
    /\ account = [a \in Accounts |-> [state |-> "absent", box |-> None, lastUid |-> 0]]
    /\ messages = [k \in {} |-> "none"]
    /\ syncJobs = [a \in Accounts |-> 0]
    /\ sync = [p \in Syncs |-> NoSync]
    /\ triageJobs = {}
    /\ triggers = [k \in Accounts \X Ids |-> 0]
    /\ send = [s \in Sends |-> [pc |-> "new", account |-> None]]
    /\ sent = {}
    /\ faults = 0 /\ ops = 0
    /\ dropped = {} /\ purged = {} /\ moved = {} /\ untriaged = {}

\* Somebody's mail arrives at the server.
Deliver(b, m) ==
    /\ b \in Homes[m] /\ Len(mailbox[b]) < MaxUid
    /\ \A i \in DOMAIN mailbox[b] : mailbox[b][i] # m
    /\ mailbox' = [mailbox EXCEPT ![b] = Append(@, m)]
    /\ UNCHANGED <<rows, queue, sync, send, sent, faults, ops, history>>
------------------------------------------------------------------------------
(* The account handlers. *)

CreateAccount(a) ==
    /\ account[a].state = "absent"
    /\ account' = [account EXCEPT ![a] = [state |-> "active", box |-> ImapBox[a], lastUid |-> 0]]
    /\ UNCHANGED <<mailbox, messages, queue, sync, send, sent, faults, ops, history>>

\* The watermark stays, whatever mailbox the account now points at.
UpdateAccount(a, b, active) ==
    /\ ops < MaxOps /\ Exists(a)
    /\ ops' = ops + 1
    /\ account' = [account EXCEPT ![a].box = b,
                                  ![a].state = IF active THEN "active" ELSE "inactive"]
    /\ moved' = IF b = account[a].box THEN moved ELSE moved \cup {a}
    /\ UNCHANGED <<mailbox, messages, queue, sync, send, sent, faults,
                   triggers, dropped, purged, untriaged>>

\* The rows of email_messages go with their account (ON DELETE CASCADE).
DeleteAccount(a) ==
    /\ ops < MaxOps /\ Exists(a)
    /\ ops' = ops + 1
    /\ account' = [account EXCEPT ![a] = [state |-> "deleted", box |-> None, lastUid |-> 0]]
    /\ messages' = [k \in {k \in DOMAIN messages : k[1] # a} |-> messages[k]]
    /\ purged' = purged \cup {k[2] : k \in {k \in DOMAIN messages : k[1] = a}}
    /\ UNCHANGED <<mailbox, queue, sync, send, sent, faults,
                   triggers, dropped, moved, untriaged>>

\* PATCH /emails/{id}/tags
TagMessage(k) ==
    /\ ops < MaxOps /\ k \in DOMAIN messages
    /\ ops' = ops + 1
    /\ messages' = [messages EXCEPT ![k] = "user"]
    /\ UNCHANGED <<mailbox, account, queue, sync, send, sent, faults, history>>
------------------------------------------------------------------------------
(* SyncAccount, one caller p at a time through its database and IMAP calls. *)

\* Mutant: the accounts to skip and the accounts to sync are swapped.
EmailSyncAllInactive ==
    /\ syncJobs' = [a \in Accounts |->
          IF account[a].state = "inactive" /\ syncJobs[a] < MaxQueue
          THEN syncJobs[a] + 1 ELSE syncJobs[a]]
    /\ UNCHANGED <<mailbox, rows, triageJobs, sync, send, sent, faults, ops, history>>

\* EmailSyncAllWorker.Work: a failed insert is logged and forgotten.
EmailSyncAll ==
    /\ \E lost \in SUBSET {a \in Accounts : account[a].state = "active"} :
        /\ IF lost = {} THEN Works ELSE Fails
        /\ syncJobs' = [a \in Accounts |->
              IF account[a].state = "active" /\ a \notin lost /\ syncJobs[a] < MaxQueue
              THEN syncJobs[a] + 1 ELSE syncJobs[a]]
    /\ UNCHANGED <<mailbox, rows, triageJobs, sync, send, sent, ops, history>>

\* The account row is read, its watermark with it; a missing or an inactive
\* account ends the sync (a job on a missing one fails until it is discarded).
Begin(p, a) ==
    /\ sync[p].pc = "idle"
    /\ sync' = IF account[a].state = "active"
               THEN [sync EXCEPT ![p] = [NoSync EXCEPT !.pc = "fetch", !.account = a,
                        !.box = account[a].box, !.since = account[a].lastUid]]
               ELSE sync

BeginJob(w, a) ==
    /\ syncJobs[a] > 0
    /\ Begin(w, a)
    /\ syncJobs' = [syncJobs EXCEPT ![a] = @ - 1]
    /\ UNCHANGED <<mailbox, rows, triageJobs, send, sent, faults, ops, history>>

\* POST /emails/accounts/{id}/sync
BeginRequest(h, a) ==
    /\ ops < MaxOps /\ account[a].state = "active"
    /\ ops' = ops + 1
    /\ Begin(h, a)
    /\ UNCHANGED <<mailbox, rows, queue, send, sent, faults, history>>

\* The sync returns an error: a job is retried, a request is answered.
\* What it had ingested is not handed on to the triage.
Abandon(p) ==
    /\ sync' = [sync EXCEPT ![p] = NoSync]
    /\ syncJobs' = IF p \in Workers /\ syncJobs[sync[p].account] < MaxQueue
                   THEN [syncJobs EXCEPT ![sync[p].account] = @ + 1] ELSE syncJobs
    /\ untriaged' = untriaged \cup sync[p].got

\* Mutant: the first new mail is left out.
FetchedAfterNext(box, since) ==
    IF box = << >> THEN << >> ELSE SubSeq(box, since + 2, Len(box))

\* UID FETCH since+1:*  The server reads "n:*" as the range between n and its
\* highest UID in either order, so the last mail is sent even when it is old.
Fetched(box, since) ==
    IF box = << >> THEN << >>
    ELSE SubSeq(box, IF since < Len(box) THEN since + 1 ELSE Len(box), Len(box))

LastUID(box, since) == IF Len(box) > since THEN Len(box) ELSE since

\* Every mail of the answer is parsed; one that cannot be fails the fetch.
Readable(found) == \A i \in DOMAIN found : found[i] \notin Malformed

FetchNewMessages(p) ==
    LET box == mailbox[sync[p].box]
        found == Fetched(box, sync[p].since)
    IN  /\ sync[p].pc = "fetch"
        /\ \/ /\ Readable(found) /\ Works
              /\ sync' = [sync EXCEPT ![p].pc = "ingest", ![p].todo = found,
                                      ![p].last = LastUID(box, sync[p].since)]
              /\ UNCHANGED <<syncJobs, untriaged>>
           \/ /\ IF Readable(found) THEN Fails ELSE Works
              /\ Abandon(p)
        /\ UNCHANGED <<mailbox, rows, triageJobs, send, sent, ops,
                       triggers, dropped, purged, moved>>

\* CreateEmailMessage: message_id is UNIQUE over all accounts, account_id a
\* foreign key.
Insertable(a, id) == Exists(a) /\ id \notin StoredIds

WithRow(k) == [j \in DOMAIN messages \cup {k} |-> IF j = k THEN "none" ELSE messages[j]]

\* Mutant: a message that was there already counts as ingested.
IngestedAnyway(k, inserted) == {k}

\* Only a message that was inserted is appended to what SyncAccount returns.
Ingested(k, inserted) == IF inserted THEN {k} ELSE {}

\* One turn of the loop: IngestMessage inserts the row and triggers the
\* workflows; its error is swallowed.  A failing trigger is only logged.
IngestMessage(p) ==
    LET a == sync[p].account
        id == MailId[Head(sync[p].todo)]
        k == <<a, id>>
    IN  /\ sync[p].pc = "ingest" /\ sync[p].todo # << >>
        /\ \/ /\ Insertable(a, id)
              /\ messages' = WithRow(k)
              /\ \/ Works /\ triggers' = [triggers EXCEPT ![k] = @ + 1]
                 \/ Fails /\ UNCHANGED triggers
              /\ sync' = [sync EXCEPT ![p].todo = Tail(@), ![p].got = @ \cup Ingested(k, TRUE)]
              /\ untriaged' = IF p \in Handlers THEN untriaged \cup {k} ELSE untriaged
              /\ UNCHANGED dropped
           \/ /\ IF Insertable(a, id) THEN Fails ELSE Works
              /\ sync' = [sync EXCEPT ![p].todo = Tail(@), ![p].got = @ \cup Ingested(k, FALSE)]
              /\ dropped' = IF Insertable(a, id) THEN dropped \cup {id} ELSE dropped
              /\ UNCHANGED <<messages, triggers, untriaged>>
        /\ UNCHANGED <<mailbox, account, queue, send, sent, ops, purged, moved>>

\* UpdateEmailAccountSyncState writes the watermark the fetch computed; on an
\* account that is gone it changes nothing and reports no error.
UpdateSyncState(p) ==
    LET a == sync[p].account IN
    /\ sync[p].pc = "ingest" /\ sync[p].todo = << >>
    /\ \/ /\ Works
          /\ account' = IF Exists(a) THEN [account EXCEPT ![a].lastUid = sync[p].last] ELSE account
          /\ sync' = IF p \in Workers THEN [sync EXCEPT ![p].pc = "enqueue"]
                                      ELSE [sync EXCEPT ![p] = NoSync]
          /\ UNCHANGED <<syncJobs, untriaged>>
       \/ Fails /\ Abandon(p) /\ UNCHANGED account
    /\ UNCHANGED <<mailbox, messages, triageJobs, send, sent, ops,
                   triggers, dropped, purged, moved>>

\* EmailSyncWorker.Work enqueues the triage of what SyncAccount returned; a
\* failed insert is logged and forgotten.
EnqueueTriage(w) ==
    /\ sync[w].pc = "enqueue"
    /\ \E k \in sync[w].got :
        /\ sync' = [sync EXCEPT ![w].got = @ \ {k}]
        /\ \/ Works /\ triageJobs' = triageJobs \cup {k} /\ UNCHANGED untriaged
           \/ Fails /\ untriaged' = untriaged \cup {k} /\ UNCHANGED triageJobs
    /\ UNCHANGED <<mailbox, rows, syncJobs, send, sent, ops,
                   triggers, dropped, purged, moved>>

\* Mutant: the job ends with triage left to enqueue.
SyncJobDoneEarly(w) ==
    /\ sync[w].pc = "enqueue"
    /\ sync' = [sync EXCEPT ![w] = NoSync]
    /\ UNCHANGED <<mailbox, rows, queue, send, sent, faults, ops, history>>

SyncJobDone(w) ==
    /\ sync[w].pc = "enqueue" /\ sync[w].got = {}
    /\ sync' = [sync EXCEPT ![w] = NoSync]
    /\ UNCHANGED <<mailbox, rows, queue, send, sent, faults, ops, history>>
------------------------------------------------------------------------------
(* EmailTriageWorker.Work. *)

\* The message is read, classified by the AI gateway, and the answer written
\* over whatever tags it has by then.  On a message that is gone the job fails
\* until it is discarded; a failing gateway or update, or a crash before the
\* job is marked done, runs it again.
Triage(k) ==
    /\ k \in triageJobs
    /\ \/ /\ Works /\ triageJobs' = triageJobs \ {k}
          /\ messages' = IF k \in DOMAIN messages THEN [messages EXCEPT ![k] = "triage"] ELSE messages
       \/ /\ Fails /\ k \in DOMAIN messages
          /\ messages' \in {messages, [messages EXCEPT ![k] = "triage"]}
          /\ UNCHANGED triageJobs
    /\ UNCHANGED <<mailbox, account, syncJobs, sync, send, sent, ops, history>>

\* The worker process dies: its sync jobs are rescued and run again.
WorkerCrash ==
    /\ Fails
    /\ sync' = [p \in Syncs |-> IF p \in Workers THEN NoSync ELSE sync[p]]
    /\ syncJobs' = [a \in Accounts |->
          IF syncJobs[a] < MaxQueue /\ \E w \in Workers : sync[w].account = a
          THEN syncJobs[a] + 1 ELSE syncJobs[a]]
    /\ untriaged' = untriaged \cup UNION {sync[w].got : w \in Workers}
    /\ UNCHANGED <<mailbox, rows, triageJobs, send, sent, ops,
                   triggers, dropped, purged, moved>>
------------------------------------------------------------------------------
(* SendMessage. *)

BeginSend(s, a) ==
    /\ ops < MaxOps /\ send[s].pc = "new" /\ Exists(a)
    /\ ops' = ops + 1
    /\ send' = [send EXCEPT ![s] = [pc |-> "smtp", account |-> a]]
    /\ UNCHANGED <<mailbox, rows, queue, sync, sent, faults, history>>

\* Mutant: the error of SendMail is not looked at.
SendMailUnchecked(s) ==
    /\ send[s].pc = "smtp"
    /\ \/ Works /\ sent' = sent \cup {s}
       \/ Fails /\ UNCHANGED sent
    /\ send' = [send EXCEPT ![s].pc = "record"]
    /\ UNCHANGED <<mailbox, rows, queue, sync, ops, history>>

\* SendMail: the last thing it does is QUIT, after the server took the mail;
\* an error there is reported like any other.
SendMail(s) ==
    /\ send[s].pc = "smtp"
    /\ \/ Works /\ sent' = sent \cup {s} /\ send' = [send EXCEPT ![s].pc = "record"]
       \/ /\ Fails /\ sent' \in {sent, sent \cup {s}}
          /\ send' = [send EXCEPT ![s].pc = "failed"]
    /\ UNCHANGED <<mailbox, rows, queue, sync, ops, history>>

\* The outbound row carries a Message-ID of its own.
RecordSent(s) ==
    LET a == send[s].account IN
    /\ send[s].pc = "record"
    /\ \/ /\ Insertable(a, s) /\ Works
          /\ messages' = WithRow(<<a, s>>)
          /\ send' = [send EXCEPT ![s].pc = "ok"]
       \/ /\ IF Insertable(a, s) THEN Fails ELSE Works
          /\ send' = [send EXCEPT ![s].pc = "failed"]
          /\ UNCHANGED messages
    /\ UNCHANGED <<mailbox, account, queue, sync, sent, ops, history>>

\* The server process dies: its requests get no answer and are not resumed.
ServerCrash ==
    /\ Fails
    /\ sync' = [p \in Syncs |-> IF p \in Handlers THEN NoSync ELSE sync[p]]
    /\ send' = [s \in Sends |-> IF send[s].pc \in {"smtp", "record"}
                                THEN [send[s] EXCEPT !.pc = "failed"] ELSE send[s]]
    /\ UNCHANGED <<mailbox, rows, queue, sent, ops, history>>
------------------------------------------------------------------------------
Next ==
    \/ \E b \in Boxes, m \in Mails : Deliver(b, m)
    \/ \E a \in Accounts : CreateAccount(a)
    \/ \E a \in Accounts, b \in Boxes, active \in BOOLEAN : UpdateAccount(a, b, active)
    \/ \E a \in Accounts : DeleteAccount(a)
    \/ \E k \in Keys : TagMessage(k)
    \/ EmailSyncAll
    \/ \E w \in Workers, a \in Accounts : BeginJob(w, a)
    \/ \E h \in Handlers, a \in Accounts : BeginRequest(h, a)
    \/ \E p \in Syncs : FetchNewMessages(p)
    \/ \E p \in Syncs : IngestMessage(p)
    \/ \E p \in Syncs : UpdateSyncState(p)
    \/ \E w \in Workers : EnqueueTriage(w)
    \/ \E w \in Workers : SyncJobDone(w)
    \/ \E k \in Keys : Triage(k)
    \/ WorkerCrash
    \/ \E s \in Sends, a \in Accounts : BeginSend(s, a)
    \/ \E s \in Sends : SendMail(s)
    \/ \E s \in Sends : RecordSent(s)
    \/ ServerCrash

\* The fan-out comes every minute, the queue hands out every waiting job, and
\* a job that runs goes on.  Nothing is assumed of the requests of users.
Fairness ==
    /\ WF_vars(EmailSyncAll)
    /\ \A w \in Workers :
        /\ \A a \in Accounts : SF_vars(BeginJob(w, a))
        /\ WF_vars(FetchNewMessages(w)) /\ WF_vars(IngestMessage(w)) /\ WF_vars(UpdateSyncState(w))
        /\ WF_vars(EnqueueTriage(w)) /\ WF_vars(SyncJobDone(w))
    /\ \A k \in Accounts \X Ids : WF_vars(Triage(k))

Spec == Init /\ [][Next]_vars /\ Fairness
------------------------------------------------------------------------------
AccountRow == [state : {"absent", "active", "inactive", "deleted"},
               box : Boxes \cup {None}, lastUid : 0..MaxUid]

SyncState == [pc : {"idle", "fetch", "ingest", "enqueue"},
              account : Accounts \cup {None}, box : Boxes \cup {None},
              since : 0..MaxUid, todo : Seq(Mails), last : 0..MaxUid,
              got : SUBSET (Accounts \X Ids)]

RowsTyped ==
    /\ mailbox \in [Boxes -> Seq(Mails)] /\ \A b \in Boxes : Len(mailbox[b]) <= MaxUid
    /\ account \in [Accounts -> AccountRow]
    /\ DOMAIN messages \subseteq Keys
    /\ messages \in [DOMAIN messages -> {"none", "user", "triage"}]

JobsTyped ==
    /\ syncJobs \in [Accounts -> 0..MaxQueue]
    /\ sync \in [Syncs -> SyncState]
    /\ triageJobs \subseteq Accounts \X Ids /\ untriaged \subseteq Accounts \X Ids

RequestsTyped ==
    /\ send \in [Sends -> [pc : {"new", "smtp", "record", "ok", "failed"},
                           account : Accounts \cup {None}]]
    /\ sent \subseteq Sends
    /\ faults \in 0..MaxFaults /\ ops \in 0..MaxOps

HistoryTyped ==
    /\ triggers \in [Accounts \X Ids -> Nat]
    /\ dropped \subseteq Ids /\ purged \subseteq Ids \cup Sends /\ moved \subseteq Accounts

TypeOK == RowsTyped /\ JobsTyped /\ RequestsTyped /\ HistoryTyped

\* A mail at or below an account's watermark is never fetched for it again, so
\* its Message-ID is stored - unless the insert met a database error, the row
\* went with the account that held it, or the account was pointed at another
\* mailbox.  Overlapping syncs, crashes, retries and mail arriving during a
\* sync never add to that list (SyncAccount writes the watermark of the fetch).
NoMailIsSkipped ==
    \A a \in Accounts \ moved : Exists(a) =>
        \A i \in 1..account[a].lastUid :
            MailId[mailbox[account[a].box][i]] \in StoredIds \cup purged \cup dropped

\* However often a mail is fetched, the workflows on INBOUND_EMAIL start at
\* most once for the row it became (IngestMessage triggers after its insert).
TriggeredAtMostOnce == \A k \in DOMAIN triggers : triggers[k] <= 1

\* Every inbound row has tags or is still on its way to the triage, unless a
\* failure took it off that way or a manual sync brought it in
\* (EmailSyncWorker.Work enqueues what SyncAccount returned).
IngestedIsTriaged ==
    \A k \in DOMAIN messages \cap (Accounts \X Ids) :
        \/ messages[k] # "none"
        \/ k \in triageJobs \cup untriaged
        \/ \E w \in Workers : k \in sync[w].got

\* A request to send that was answered with success sent its mail and kept a
\* row of it for as long as the account lives; no row claims a mail that the
\* SMTP server did not take (SendMessage sends first and records then).
SentMailIsRecorded ==
    \A s \in Sends :
        /\ send[s].pc = "ok" =>
              s \in sent /\ (Exists(send[s].account) => <<send[s].account, s>> \in DOMAIN messages)
        /\ s \in StoredIds => s \in sent

Settled(k) ==
    /\ k \notin triageJobs
    /\ \A w \in Workers : k \notin sync[w].got

\* A stored message that has left the way to the triage never comes back to
\* it, so tags a user sets after the triage stay: whatever is fetched again is
\* a duplicate and SyncAccount does not return it.
TriageIsNotRepeated ==
    [][\A k \in DOMAIN messages : Settled(k) => Settled(k)']_vars

\* The watermark of an account goes back only when the sync that writes it
\* began before the higher one was written; that sync then fetches again what
\* is stored already, and never less than it should.
WatermarkGoesBackOnlyByOverlap ==
    [][\A a \in Accounts :
         account'[a].state \in {"active", "inactive"} /\ account'[a].lastUid < account[a].lastUid =>
            \E p \in Syncs : sync[p].account = a /\ sync[p].since < account[a].lastUid]_vars

\* Mail is fetched again on every sync (n:* always brings the last one), after
\* a failure and after an overlap.  Doing so triggers no row a second time and
\* brings nothing back to the triage, and the watermark falls only under an
\* overlap (IngestMessage, UpdateEmailAccountSyncState).
HandledOnce == []TriggeredAtMostOnce /\ TriageIsNotRepeated /\ WatermarkGoesBackOnlyByOverlap

Waits(a, m) ==
    /\ account[a].state = "active" /\ a \notin moved
    /\ \E i \in DOMAIN mailbox[account[a].box] : mailbox[account[a].box][i] = m

\* message_id is UNIQUE over all accounts and mails: whatever row has the
\* Message-ID of the mail, no other can.
HasRow(m) == MailId[m] \in StoredIds

\* What keeps a mail from its row: an insert of it failed, its row went with
\* an account, or nobody fetches this mailbox for the account any more.
GivenUp(a, m) ==
    \/ MailId[m] \in purged \cup dropped
    \/ account[a].state # "active" \/ a \in moved

\* FetchNewMessages fails as a whole on a mail it cannot parse.
Blocked(a) ==
    \E i \in DOMAIN mailbox[account[a].box] : mailbox[account[a].box][i] \in Malformed

\* A readable mail in the mailbox of an active account does not wait for ever:
\* in the end there is a row with its Message-ID, or the mail is given up, or
\* the mailbox holds a mail that cannot be parsed.  One such mail does stop
\* the account: SyncAccount passes over it in its loop, and never gets there.
NewMailIsStored ==
    \A a \in Accounts, m \in Mails \ Malformed :
        Waits(a, m) ~> HasRow(m) \/ GivenUp(a, m) \/ Blocked(a)

\* A message in the triage queue gets its tags, or is gone.
TriageHappens ==
    \A k \in Accounts \X Ids :
        k \in triageJobs ~> (k \notin DOMAIN messages \/ messages[k] # "none")

\* No mail waits for ever, neither for its row nor, once queued, for its tags.
MailIsProcessed == NewMailIsStored /\ TriageHappens
==============================================================================
