----------------------------- MODULE AuditChain -----------------------------
(***************************************************************************)
(* The hash chain of the audit log (internal/core/audit/service.go).       *)
(* Every service of the server and of the worker appends to one table:     *)
(* Log and LogDiff read the newest hash in one statement, hash the new     *)
(* entry on top of it and insert the row in a second statement, without a  *)
(* lock or a transaction.  VerifyAuditChain recomputes the whole chain.    *)
(*                                                                         *)
(* A row's text stands for its hashed columns: user, entity, action,       *)
(* changes, old and new values, address, agent, what the sanitiser makes   *)
(* of them included.  The hash is taken of the columns joined by a         *)
(* separator that is not escaped, with NULL and the empty text written     *)
(* alike, so two texts may be joined to the same one (Joined).  SHA-256    *)
(* itself is taken as ideal: a hash is the sequence of joined texts it     *)
(* commits to, the genesis hash the empty one.                             *)
(*                                                                         *)
(* changes, old_values and new_values are JSONB columns: PostgreSQL        *)
(* serialises them anew (a space after every colon and comma), so the text *)
(* read back (Stored) is another one unless every column is "{}".  The     *)
(* demo store keeps the bytes.                                             *)
(*                                                                         *)
(* SafekeepingProofs and MCServices extend this module beside others,      *)
(* hence the prefix of ChainInit, ChainNext and ChainSpec.                 *)
(***************************************************************************)
EXTENDS Naturals, Sequences

CONSTANTS
    Writers,   \* requests and jobs that write audit entries
    Texts,     \* entries, as Go marshals them or as the store returns them
    Empty,     \* the entry with "{}" in every JSON column
    Stored,    \* text -> what the store returns for it
    Joined,    \* text -> its columns joined by the separator
    MaxRows    \* bound on the length of the log

ASSUME AuditAssumption ==
    /\ Empty \in Texts
    /\ Stored \in [Texts -> Texts]
    /\ Texts \subseteq DOMAIN Joined
    /\ MaxRows \in Nat \ {0}

VARIABLES
    rows,      \* audit_logs in the order of created_at
    pending,   \* what a writer is about to insert, and what makes its link doubtful
    causes     \* history: what has spoilt the chain

chainVars == <<rows, pending, causes>>

GenesisHash == << >>

Hash == Seq({Joined[t] : t \in Texts})

(* Deliberately wrong variants (mutants): a hash that ignores the entry,   *)
(* one that ignores the predecessor.                                       *)
ComputeHashOfLink(prevHash, t) == Append(prevHash, Joined[Empty])
ComputeHashOfText(prevHash, t) == <<Joined[t]>>

ComputeAuditHash(prevHash, t) == Append(prevHash, Joined[t])

(* A row written without hashes (prev_hash and hash are NULL) is not       *)
(* chained: rows from before migration 21 and TAG_APPLIED.                 *)
Row == [chained : BOOLEAN, prev : Hash, text : Texts, hash : Hash]

Unchained(t) == [chained |-> FALSE, prev |-> GenesisHash, text |-> t, hash |-> GenesisHash]

(* h is the hash of the newest chained row among the first n, or genesis.  *)
IsLatest(rs, n, h) ==
    \/ /\ h = GenesisHash
       /\ \A j \in 1..n : ~rs[j].chained
    \/ \E i \in 1..n : /\ rs[i].chained
                       /\ h = rs[i].hash
                       /\ \A j \in (i + 1)..n : ~rs[j].chained

(* VerifyAuditChain: every chained row continues the one before it and     *)
(* carries the hash of its own contents.                                   *)
VerifyAuditChain(rs) ==
    \A i \in 1..Len(rs) : rs[i].chained =>
        /\ IsLatest(rs, i - 1, rs[i].prev)
        /\ rs[i].hash = ComputeAuditHash(rs[i].prev, rs[i].text)

Doubts == {"overlap", "readError"}

Entry == [busy : BOOLEAN, prev : Hash, text : Texts, doubt : SUBSET Doubts]

NoEntry == [busy |-> FALSE, prev |-> GenesisHash, text |-> Empty, doubt |-> {}]

ChainTypeOK ==
    /\ rows \in Seq(Row)
    /\ Len(rows) <= MaxRows
    /\ pending \in [Writers -> Entry]
    /\ causes \subseteq Doubts \cup {"jsonb"}

(* A new installation, or one with an entry from before migration 21.      *)
ChainInit ==
    /\ rows \in {<< >>, <<Unchained(Stored[Empty])>>}
    /\ pending = [w \in Writers |-> NoEntry]
    /\ causes = {}

(* Deliberately wrong variant (mutant): every entry starts a new chain.    *)
getLatestHashNever(w, t) ==
    /\ ~pending[w].busy
    /\ pending' = [pending EXCEPT ![w] =
          [busy |-> TRUE, prev |-> GenesisHash, text |-> t, doubt |-> {}]]
    /\ UNCHANGED <<rows, causes>>

(* getLatestHash, and the hash computed on top of it.  A failed query is   *)
(* answered like an empty table.                                           *)
getLatestHash(w, t) ==
    /\ ~pending[w].busy
    /\ \E prev \in {GenesisHash} \cup {rows[i].hash : i \in 1..Len(rows)} :
        /\ IsLatest(rows, Len(rows), prev) \/ prev = GenesisHash
        /\ pending' = [pending EXCEPT ![w] =
              [busy |-> TRUE, prev |-> prev, text |-> t,
               doubt |-> IF IsLatest(rows, Len(rows), prev) THEN {} ELSE {"readError"}]]
    /\ UNCHANGED <<rows, causes>>

(* CreateAuditLog of a hashed entry.  Whoever has read the newest hash     *)
(* before now holds an old one.                                            *)
CreateAuditLog(w) ==
    /\ pending[w].busy
    /\ Len(rows) < MaxRows
    /\ rows' = Append(rows, [chained |-> TRUE,
                             prev |-> pending[w].prev,
                             text |-> Stored[pending[w].text],
                             hash |-> ComputeAuditHash(pending[w].prev, pending[w].text)])
    /\ pending' = [v \in Writers |->
          IF v = w THEN NoEntry
          ELSE IF pending[v].busy THEN [pending[v] EXCEPT !.doubt = @ \cup {"overlap"}]
          ELSE pending[v]]
    /\ causes' = causes \cup pending[w].doubt \cup
          (IF Joined[Stored[pending[w].text]] # Joined[pending[w].text] THEN {"jsonb"} ELSE {})

(* The insert fails, or the process dies before it: callers log the error  *)
(* and go on.                                                              *)
CreateFails(w) ==
    /\ pending[w].busy
    /\ pending' = [pending EXCEPT ![w] = NoEntry]
    /\ UNCHANGED <<rows, causes>>

(* The automation's SET_TAG step writes its row without hashes.            *)
TagApplied(t) ==
    /\ Len(rows) < MaxRows
    /\ rows' = Append(rows, Unchained(Stored[t]))
    /\ UNCHANGED <<pending, causes>>

ChainNext ==
    \/ \E w \in Writers, t \in Texts : getLatestHash(w, t)
    \/ \E w \in Writers : CreateAuditLog(w) \/ CreateFails(w)
    \/ \E t \in Texts : TagApplied(t)

ChainSpec == ChainInit /\ [][ChainNext]_chainVars

(***************************************************************************)
(* Properties.                                                             *)
(***************************************************************************)
(* The verifier's promise: a log that only the services have written       *)
(* verifies.  The code does not keep it.                                   *)
ChainVerifies == VerifyAuditChain(rows)

(* No false alarm without a cause: a log that only the services have       *)
(* written fails to verify only when an entry was inserted after another   *)
(* one had been inserted since it read the newest hash, when that read had *)
(* failed, or when a text came back from the store otherwise than it was   *)
(* hashed, whatever was inserted without hashes in between.                *)
AlarmsHaveCauses == causes = {} => VerifyAuditChain(rows)

(* A log that verifies no longer does when the contents of one chained row *)
(* are changed so that its columns are joined to another text.  (A change  *)
(* that moves a separator, or NULL against empty, is not noticed.)         *)
AlterationIsDetected ==
    VerifyAuditChain(rows) =>
        \A i \in 1..Len(rows) : rows[i].chained =>
            \A t \in Texts : Joined[t] # Joined[rows[i].text] =>
                ~VerifyAuditChain([rows EXCEPT ![i].text = t])

Without(rs, i) == SubSeq(rs, 1, i - 1) \o SubSeq(rs, i + 1, Len(rs))

(* A log that verifies no longer does when a chained row that has a        *)
(* chained successor is removed.                                           *)
RemovalIsDetected ==
    VerifyAuditChain(rows) =>
        \A i, j \in 1..Len(rows) :
            i < j /\ rows[i].chained /\ rows[j].chained => ~VerifyAuditChain(Without(rows, i))
=============================================================================
