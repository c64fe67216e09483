-------------------------- MODULE LoginGuardProofs --------------------------
(* Proofs about LoginGuard: the bounds on requests and failed logins, the  *)
(* length of a lock, and that a code works once.                           *)
EXTENDS LoginGuard, FiniteSetTheorems, TLAPS

(* Accesses of a history.                                                  *)
Histories == [Ages -> Nat]
Grows(h) == \A a, b \in Ages : a <= b => h[a] <= h[b]

HistoryOK ==
    /\ passes \in [Ips -> Histories] /\ guesses \in [Logins -> Histories]
    /\ \A k \in Ips : Grows(passes[k])
    /\ \A k \in Logins : Grows(guesses[k])
    /\ accepted \subseteq Secrets \X CodeSteps
    /\ replayed \in BOOLEAN /\ excused \in BOOLEAN

(* The record of a key is as recent as what its history counts; without a  *)
(* record nothing happened within a window.                                *)
Covers(k, h) ==
    IF k \in DOMAIN attempts
    THEN \A a \in Ages : a < now - attempts[k].updated => h[a] = 0
    ELSE h[Window] = 0

(* A record without a lock counts at least what happened within a window,  *)
(* and a lock is as old as the last update.                                *)
PassesFit(k) ==
    /\ Covers(k, passes[k])
    /\ passes[k][Window] <= MaxAttempts
    /\ k \in DOMAIN attempts =>
          IF Locked(k) THEN attempts[k].locked = attempts[k].updated
          ELSE passes[k][Window] <= attempts[k].fails /\ attempts[k].fails <= MaxAttempts

RateInv == \A k \in Ips \ evicted : PassesFit(k)

(* Logins past IsLocked whose outcome is still open.                       *)
InFlight(k) == {p \in Callers : call[p].pc \in {"read", "verify"} /\ call[p].key = k}

(* While a lock holds, every login in flight is one further guess.         *)
GuessesFit(k) ==
    /\ Covers(k, guesses[k])
    /\ k \in DOMAIN attempts =>
          IF Locked(k)
          THEN /\ attempts[k].locked = attempts[k].updated
               /\ MaxAttempts <= attempts[k].fails
               /\ LockHolds(k) => guesses[k][Window] + Cardinality(InFlight(k)) <
                                     MaxAttempts + Cardinality(Callers)
          ELSE guesses[k][Window] <= attempts[k].fails /\ attempts[k].fails < MaxAttempts

GuessInv == \A k \in Logins \ evicted : GuessesFit(k)

(* As long as accesses of the TOTP columns do not overlap: the login that  *)
(* tracks them has the current ones, and every accepted code of the current*)
(* secret is at most the last used step or the step about to be recorded.  *)
OneTracks == \A p, q \in Callers : Tracking(p) /\ Tracking(q) => p = q
Current ==
    \A p \in Callers :
       /\ call[p].pc = "verify" => call[p].secret = totp.secret /\ call[p].step = totp.last
       /\ call[p].pc \in {"record", "enrolled"} => totp.last <= call[p].step
Used ==
    \A s \in Secrets, t \in CodeSteps : <<s, t>> \in accepted =>
       /\ s # 0
       /\ s = totp.secret =>
             \/ t <= totp.last
             \/ \E p \in Callers : call[p].pc \in {"record", "enrolled"} /\ t <= call[p].step

CodeInv == ~excused => ~replayed /\ OneTracks /\ Current /\ Used

-----------------------------------------------------------------------------
(* The histories.                                                          *)
LEMMA Bounds ==
    /\ Cardinality(Callers) \in Nat /\ Enough \in Nat /\ Window \in Ages /\ 0 \in Ages
    /\ \A a \in Ages : a \in Nat /\ (a # 0 => a - 1 \in Ages)
  BY LoginGuardAssumption, FS_CardinalityType DEF Enough, Ages

LEMMA NoneIs == None \in Histories /\ Grows(None) /\ None[Window] = 0
  BY Bounds DEF None, Histories, Grows

LEMMA CountIs ==
  ASSUME NEW k, NEW h \in Histories, Grows(h)
  PROVE  /\ Count(k, h) \in Histories /\ Grows(Count(k, h))
         /\ Count(k, h)[Window] <= h[Window] + 1
  <1>1. CASE k \in evicted'
    BY <1>1, NoneIs, Bounds DEF Count, Histories
  <1>2. CASE k \notin evicted'
    <2>1. Count(k, h) = [a \in Ages |-> IF h[a] < Enough THEN h[a] + 1 ELSE h[a]]
      BY <1>2 DEF Count
    <2>2. \A a \in Ages : h[a] \in Nat
      BY DEF Histories
    <2>3. Count(k, h) \in Histories
      BY <2>1, <2>2 DEF Histories
    <2>4. Grows(Count(k, h))
      BY <2>1, <2>2, Bounds DEF Grows
    <2>5. Count(k, h)[Window] <= h[Window] + 1
      BY <2>1, <2>2, Bounds
    <2> QED
      BY <2>3, <2>4, <2>5
  <1> QED
    BY <1>1, <1>2

LEMMA OlderIs ==
  ASSUME NEW h \in Histories, Grows(h)
  PROVE  /\ Older(h) \in Histories /\ Grows(Older(h))
         /\ Older(h)[Window] <= h[Window]
         /\ Older(h)[0] = 0
         /\ \A a \in Ages : a # 0 => Older(h)[a] = h[a - 1]
  <1>1. \A a \in Ages : h[a] \in Nat
    BY DEF Histories
  <1>2. \A a \in Ages : Older(h)[a] = IF a = 0 THEN 0 ELSE h[a - 1]
    BY DEF Older
  <1>3. Older(h) \in Histories
    BY <1>1, Bounds DEF Older, Histories
  <1>4. Grows(Older(h))
    <2> SUFFICES ASSUME NEW a \in Ages, NEW b \in Ages, a <= b
                 PROVE  Older(h)[a] <= Older(h)[b]
      BY DEF Grows
    <2>1. CASE a = 0
      <3>1. Older(h)[b] \in Nat
        BY <1>3 DEF Histories
      <3> QED
        BY <1>2, <2>1, <3>1
    <2>2. CASE a # 0
      <3>1. b # 0 /\ a - 1 \in Ages /\ b - 1 \in Ages /\ a - 1 <= b - 1
        BY <2>2, Bounds
      <3>2. h[a - 1] <= h[b - 1]
        BY <3>1 DEF Grows
      <3> QED
        BY <1>2, <2>2, <3>1, <3>2
    <2> QED
      BY <2>1, <2>2
  <1>5. Older(h)[Window] <= h[Window]
    <2>1. CASE Window = 0
      BY <1>1, <1>2, <2>1, Bounds
    <2>2. CASE Window # 0
      <3>1. Window - 1 \in Ages /\ Window - 1 <= Window
        BY <2>2, Bounds
      <3>2. h[Window - 1] <= h[Window]
        BY <3>1, Bounds DEF Grows
      <3> QED
        BY <1>2, <2>2, <3>2, Bounds
    <2> QED
      BY <2>1, <2>2
  <1> QED
    BY <1>2, <1>3, <1>4, <1>5, Bounds

-----------------------------------------------------------------------------
(* What the limiter's operations do to the map.                            *)
(* A step leaves the record of j alone, or drops it because it has run out.*)
Undisturbed(j) ==
    \/ /\ j \in DOMAIN attempts' <=> j \in DOMAIN attempts
       /\ j \in DOMAIN attempts => attempts'[j] = attempts[j]
    \/ j \in Expired /\ j \notin DOMAIN attempts'

AttemptsOK == DOMAIN attempts \subseteq LimiterKeys /\ \A k \in DOMAIN attempts : attempts[k] \in AttemptRecord

Fresh == [fails |-> 1, locked |-> 0, updated |-> now]

LEMMA KeepIs ==
  ASSUME NEW S, attempts' = Keep(S)
  PROVE  /\ DOMAIN attempts' = DOMAIN attempts \cap S
         /\ \A j \in DOMAIN attempts' : attempts'[j] = attempts[j]
  BY DEF Keep

(* A new record disturbs nobody but the keys it evicts.                    *)
LEMMA StartOverIs ==
  ASSUME NEW k \in LimiterKeys, StartOver(k)
  PROVE  /\ k \in DOMAIN attempts' /\ attempts'[k] = Fresh
         /\ DOMAIN attempts' \subseteq DOMAIN attempts \cup {k}
         /\ \A j \in DOMAIN attempts' \ {k} : attempts'[j] = attempts[j]
         /\ evicted \subseteq evicted'
         /\ \A j \in LimiterKeys \ {k} : j \notin evicted' => Undisturbed(j)
  <1>1. PICK left \in EnsureCapacity :
           /\ attempts' = Put(Keep(left), k, Fresh)
           /\ evicted' = evicted \cup (DOMAIN attempts \ (left \cup Expired))
    BY DEF StartOver, Fresh
  <1>2. Expired \subseteq DOMAIN attempts
    BY DEF Expired
  <1>3. left \subseteq DOMAIN attempts
    BY <1>2 DEF EnsureCapacity
  <1>4. DOMAIN Keep(left) = left /\ \A j \in left : Keep(left)[j] = attempts[j]
    BY <1>3 DEF Keep
  <1>5. /\ DOMAIN attempts' = left \cup {k} /\ attempts'[k] = Fresh
        /\ \A j \in left \ {k} : attempts'[j] = attempts[j]
    BY <1>1, <1>4 DEF Put
  <1>6. \A j \in LimiterKeys \ {k} : j \notin evicted' => Undisturbed(j)
    BY <1>1, <1>2, <1>3, <1>5 DEF Undisturbed
  <1> QED
    BY <1>1, <1>3, <1>5, <1>6

LEMMA RecordFailureIs ==
  ASSUME NEW k \in LimiterKeys, ~Lapsed(k), RecordFailure(k)
  PROVE  /\ DOMAIN attempts' = DOMAIN attempts /\ evicted' = evicted
         /\ k \in DOMAIN attempts
         /\ attempts'[k] = [fails |-> attempts[k].fails + 1, updated |-> now,
                            locked |-> IF attempts[k].fails + 1 >= MaxAttempts THEN now
                                       ELSE attempts[k].locked]
         /\ \A j \in DOMAIN attempts' \ {k} : attempts'[j] = attempts[j]
  BY DEF RecordFailure, Lapsed

LEMMA AllowIs ==
  ASSUME NEW k \in Ips, ~Lapsed(k), Allow(k)
  PROVE  /\ DOMAIN attempts' = DOMAIN attempts /\ evicted' = evicted
         /\ k \in DOMAIN attempts
         /\ attempts'[k] = Verdict(attempts[k]).rec
         /\ passes' = IF Verdict(attempts[k]).ok THEN [passes EXCEPT ![k] = Count(k, @)] ELSE passes
         /\ \A j \in DOMAIN attempts' \ {k} : attempts'[j] = attempts[j]
  BY DEF Allow, Lapsed

(* The map stays well formed.                                              *)
LEMMA KeepTyped ==
  ASSUME AttemptsOK, NEW S, attempts' = Keep(S) PROVE AttemptsOK'
  BY KeepIs DEF AttemptsOK

LEMMA FreshTyped == ASSUME now \in 1..MaxTime PROVE Fresh \in AttemptRecord
  BY LoginGuardAssumption DEF Fresh, AttemptRecord

LEMMA StartOverTyped ==
  ASSUME AttemptsOK, now \in 1..MaxTime, NEW k \in LimiterKeys, StartOver(k) PROVE AttemptsOK'
  BY StartOverIs, FreshTyped DEF AttemptsOK

LEMMA FailureTyped ==
  ASSUME AttemptsOK, now \in 1..MaxTime, NEW k \in LimiterKeys, RecordFailure(k) PROVE AttemptsOK'
  <1>1. CASE Lapsed(k)
    <2>1. StartOver(k)
      BY <1>1 DEF RecordFailure
    <2> QED
      BY <2>1, StartOverTyped
  <1>2. CASE ~Lapsed(k)
    <2>1. attempts[k] \in AttemptRecord
      BY <1>2, RecordFailureIs DEF AttemptsOK
    <2>2. attempts[k].fails \in Nat /\ attempts[k].locked \in 0..MaxTime
      BY <2>1 DEF AttemptRecord
    <2> DEFINE lock == IF attempts[k].fails + 1 >= MaxAttempts THEN now ELSE attempts[k].locked
    <2>3. attempts[k].fails + 1 \in Nat /\ lock \in 0..MaxTime
      BY <2>2, LoginGuardAssumption
    <2>4. attempts'[k] = [fails |-> attempts[k].fails + 1, updated |-> now, locked |-> lock]
      BY <1>2, RecordFailureIs
    <2> HIDE DEF lock
    <2>5. attempts'[k] \in AttemptRecord
      BY <2>3, <2>4 DEF AttemptRecord
    <2> QED
      BY <1>2, <2>5, RecordFailureIs DEF AttemptsOK
  <1> QED
    BY <1>1, <1>2

LEMMA VerdictTyped ==
  ASSUME now \in 1..MaxTime, NEW rec \in AttemptRecord PROVE Verdict(rec).rec \in AttemptRecord
  <1>1. rec.fails \in Nat /\ rec.locked \in 0..MaxTime
    BY DEF AttemptRecord
  <1> QED
    BY <1>1, LoginGuardAssumption DEF Verdict, AttemptRecord

LEMMA AllowTyped ==
  ASSUME AttemptsOK, now \in 1..MaxTime, NEW k \in Ips, Allow(k) PROVE AttemptsOK'
  <1>1. k \in LimiterKeys
    BY DEF LimiterKeys
  <1>2. CASE Lapsed(k)
    <2>1. StartOver(k)
      BY <1>2 DEF Allow
    <2> QED
      BY <1>1, <2>1, StartOverTyped
  <1>3. CASE ~Lapsed(k)
    <2>1. attempts'[k] \in AttemptRecord
      BY <1>3, AllowIs, VerdictTyped DEF AttemptsOK
    <2> QED
      BY <1>3, <2>1, AllowIs DEF AttemptsOK
  <1> QED
    BY <1>2, <1>3

-----------------------------------------------------------------------------
(* What the steps of a login or an enrolment do to its request.            *)
LEMMA CallIs ==
  ASSUME GuardTypeOK, NEW p \in Callers
  PROVE  /\ call[p] \in Call
         /\ \A c \in Call : [call EXCEPT ![p] = c] \in [Callers -> Call]
  BY DEF GuardTypeOK

At(pc, key, secret, step) == [pc |-> pc, key |-> key, secret |-> secret, step |-> step]

LEMMA AtFields ==
  ASSUME NEW pc, NEW key, NEW secret, NEW step
  PROVE  /\ At(pc, key, secret, step).pc = pc /\ At(pc, key, secret, step).key = key
         /\ At(pc, key, secret, step).secret = secret /\ At(pc, key, secret, step).step = step
  BY DEF At

LEMMA AtOnly ==
  ASSUME NEW x, NEW k, NEW e, NEW t, NEW n \in [pc : {x}, key : {k}, secret : {e}, step : {t}]
  PROVE  n = At(x, k, e, t)
  BY DEF At

LEMMA CopyPc ==
  ASSUME NEW c \in Call, NEW x PROVE [c EXCEPT !.pc = x] = At(x, c.key, c.secret, c.step)
  <1>1. [c EXCEPT !.pc = x] \in [pc : {x}, key : {c.key}, secret : {c.secret}, step : {c.step}]
    BY DEF Call
  <1> QED
    BY <1>1, AtOnly

LEMMA CopyKey ==
  ASSUME NEW c \in Call, NEW x, NEW k
  PROVE  [c EXCEPT !.pc = x, !.key = k] = At(x, k, c.secret, c.step)
  <1>1. [c EXCEPT !.pc = x, !.key = k] \in [pc : {x}, key : {k}, secret : {c.secret}, step : {c.step}]
    BY DEF Call
  <1> QED
    BY <1>1, AtOnly

LEMMA CopyStep ==
  ASSUME NEW c \in Call, NEW x, NEW t
  PROVE  [c EXCEPT !.pc = x, !.step = t] = At(x, c.key, c.secret, t)
  <1>1. [c EXCEPT !.pc = x, !.step = t] \in [pc : {x}, key : {c.key}, secret : {c.secret}, step : {t}]
    BY DEF Call
  <1> QED
    BY <1>1, AtOnly

LEMMA CopyColumns ==
  ASSUME NEW c \in Call, NEW x, NEW e, NEW t
  PROVE  [c EXCEPT !.pc = x, !.secret = e, !.step = t] = At(x, c.key, e, t)
  <1>1. [c EXCEPT !.pc = x, !.secret = e, !.step = t]
           \in [pc : {x}, key : {c.key}, secret : {e}, step : {t}]
    BY DEF Call
  <1> QED
    BY <1>1, AtOnly

LEMMA IdleIs == NoCall \in Call /\ NoCall.pc = "idle" /\ NoCall.key = "" /\ NoCall.secret = 0 /\ NoCall.step = 0
  BY LoginGuardAssumption DEF NoCall, Call, Secrets, CodeSteps

Becomes(p, c) == call' = [call EXCEPT ![p] = c]

LEMMA Moved ==
  ASSUME GuardTypeOK, NEW p \in Callers
  PROVE  /\ \A k : IsLocked(p, k) => Becomes(p, At("read", k, 0, 0))
         /\ GetUserByEmail(p) => Becomes(p, At("verify", call[p].key, totp.secret, totp.last))
         /\ LoginFails(p) \/ LoginStops(p) \/ Reset(p) \/ EnrolmentStep(p) => Becomes(p, NoCall)
         /\ \A step : LoginWithCode(p, step) => Becomes(p, At("record", call[p].key, call[p].secret, step))
         /\ LoginWithoutTOTP(p) \/ RecordStep(p) =>
               Becomes(p, At("reset", call[p].key, call[p].secret, call[p].step))
         /\ \A secret, step : VerifyTOTP(p, secret, step) => Becomes(p, At("enrolled", "", 0, step))
  <1>1. call[p] \in Call
    BY CallIs
  <1>2. ASSUME NEW k, IsLocked(p, k) PROVE Becomes(p, At("read", k, 0, 0))
    <2>1. PICK c \in Call : c = NoCall
      BY IdleIs
    <2>2. call' = [call EXCEPT ![p] = [c EXCEPT !.pc = "read", !.key = k]]
      BY <1>2, <2>1 DEF IsLocked
    <2>3. [c EXCEPT !.pc = "read", !.key = k] = At("read", k, c.secret, c.step)
      BY CopyKey
    <2> QED
      BY <2>1, <2>2, <2>3, IdleIs DEF Becomes
  <1>3. ASSUME GetUserByEmail(p) PROVE Becomes(p, At("verify", call[p].key, totp.secret, totp.last))
    <2>1. call' = [call EXCEPT ![p] = [call[p] EXCEPT !.pc = "verify", !.secret = totp.secret,
                                                   !.step = totp.last]]
      BY <1>3 DEF GetUserByEmail, GuardTypeOK
    <2>2. [call[p] EXCEPT !.pc = "verify", !.secret = totp.secret, !.step = totp.last]
             = At("verify", call[p].key, totp.secret, totp.last)
      <3>1. PICK c \in Call : c = call[p]
        BY <1>1
      <3>2. \A e, t : [c EXCEPT !.pc = "verify", !.secret = e, !.step = t] = At("verify", c.key, e, t)
        BY CopyColumns
      <3> QED
        BY <3>1, <3>2
    <2> QED
      BY <2>1, <2>2 DEF Becomes
  <1>4. LoginFails(p) \/ LoginStops(p) \/ Reset(p) \/ EnrolmentStep(p) => Becomes(p, NoCall)
    BY DEF LoginFails, LoginStops, Reset, EnrolmentStep, UpdateUserTOTPLastUsedStep, Becomes
  <1>5. ASSUME NEW step, LoginWithCode(p, step)
        PROVE  Becomes(p, At("record", call[p].key, call[p].secret, step))
    <2>1. call' = [call EXCEPT ![p] = [call[p] EXCEPT !.pc = "record", !.step = step]]
      BY <1>5 DEF LoginWithCode, GuardTypeOK
    <2>2. [call[p] EXCEPT !.pc = "record", !.step = step]
             = At("record", call[p].key, call[p].secret, step)
      BY <1>1, CopyStep
    <2> QED
      BY <2>1, <2>2 DEF Becomes
  <1>6. ASSUME LoginWithoutTOTP(p) \/ RecordStep(p)
        PROVE  Becomes(p, At("reset", call[p].key, call[p].secret, call[p].step))
    <2>1. call' = [call EXCEPT ![p] = [call[p] EXCEPT !.pc = "reset"]]
      BY <1>6 DEF LoginWithoutTOTP, RecordStep, UpdateUserTOTPLastUsedStep, GuardTypeOK
    <2> QED
      BY <1>1, <2>1, CopyPc DEF Becomes
  <1>7. ASSUME NEW secret, NEW step, VerifyTOTP(p, secret, step)
        PROVE  Becomes(p, At("enrolled", "", 0, step))
    <2>1. PICK c \in Call : c = NoCall
      BY IdleIs
    <2>2. call' = [call EXCEPT ![p] = [c EXCEPT !.pc = "enrolled", !.step = step]]
      BY <1>7, <2>1 DEF VerifyTOTP
    <2>3. [c EXCEPT !.pc = "enrolled", !.step = step] = At("enrolled", c.key, c.secret, step)
      BY CopyStep
    <2> QED
      BY <2>1, <2>2, <2>3, IdleIs DEF Becomes
  <1> QED
    BY <1>2, <1>3, <1>4, <1>5, <1>6, <1>7

(* A request that moves leaves the others where they are.                  *)
LEMMA BecomesIs ==
  ASSUME GuardTypeOK, NEW p \in Callers, NEW c, Becomes(p, c)
  PROVE  /\ call'[p] = c
         /\ \A q \in Callers \ {p} : call'[q] = call[q]
         /\ c \in Call => call' \in [Callers -> Call]
  BY DEF Becomes, GuardTypeOK

LEMMA AtTyped ==
  ASSUME NEW step \in CodeSteps, NEW secret \in Secrets, NEW k \in Logins \cup {""},
         NEW pc \in {"idle", "read", "verify", "record", "reset", "enrolled"}
  PROVE  At(pc, k, secret, step) \in Call
  BY DEF At, Call

-----------------------------------------------------------------------------
(* Type correctness.                                                       *)
(* A login that has passed IsLocked has a key.                             *)
KeyInv == \A p \in Callers : call[p].pc \in {"read", "verify", "record", "reset"} => call[p].key \in Logins

LEMMA KeyInductive == ASSUME GuardTypeOK, KeyInv, [GuardNext]_guardVars PROVE KeyInv'
  <1> USE DEF KeyInv
  <1>1. ASSUME NEW p \in Callers, NEW k \in Logins, IsLocked(p, k) PROVE KeyInv'
    <2>1. Becomes(p, At("read", k, 0, 0))
      BY <1>1, Moved
    <2> QED
      BY <2>1, BecomesIs, AtFields
  <1>2. ASSUME NEW p \in Callers, NEW c, Becomes(p, c),
               c.pc \in {"read", "verify", "record", "reset"} =>
                  c.key = call[p].key /\ call[p].pc \in {"read", "verify", "record"}
        PROVE  KeyInv'
    BY <1>2, BecomesIs
  <1>3. ASSUME NEW p \in Callers, GetUserByEmail(p) PROVE KeyInv'
    <2>1. Becomes(p, At("verify", call[p].key, totp.secret, totp.last)) /\ call[p].pc = "read"
      BY <1>3, Moved DEF GetUserByEmail
    <2> QED
      BY <2>1, <1>2, AtFields
  <1>4. ASSUME NEW p \in Callers, LoginFails(p) \/ LoginStops(p) \/ Reset(p) \/ EnrolmentStep(p)
        PROVE  KeyInv'
    <2>1. Becomes(p, NoCall)
      BY <1>4, Moved
    <2> QED
      BY <2>1, <1>2, IdleIs
  <1>5. ASSUME NEW p \in Callers, NEW step, LoginWithCode(p, step) PROVE KeyInv'
    <2>1. Becomes(p, At("record", call[p].key, call[p].secret, step)) /\ call[p].pc = "verify"
      BY <1>5, Moved DEF LoginWithCode
    <2> QED
      BY <2>1, <1>2, AtFields
  <1>6. ASSUME NEW p \in Callers, LoginWithoutTOTP(p) \/ RecordStep(p) PROVE KeyInv'
    <2>1. /\ Becomes(p, At("reset", call[p].key, call[p].secret, call[p].step))
          /\ call[p].pc \in {"verify", "record"}
      BY <1>6, Moved DEF LoginWithoutTOTP, RecordStep
    <2> QED
      BY <2>1, <1>2, AtFields
  <1>7. ASSUME NEW p \in Callers, NEW secret, NEW step, VerifyTOTP(p, secret, step) PROVE KeyInv'
    <2> DEFINE c == At("enrolled", "", 0, step)
    <2>1. Becomes(p, c)
      BY <1>7, Moved
    <2>2. c.pc = "enrolled"
      BY DEF At
    <2> HIDE DEF c
    <2> QED
      BY <1>2, <2>1, <2>2
  <1>8. CASE call' = call
    BY <1>8
  <1>9. ASSUME Tick \/ CleanupExpired \/ DisableTOTP \/ (\E k \in Ips : Allow(k)) \/ UNCHANGED guardVars
        PROVE  call' = call
    BY <1>9 DEF Tick, CleanupExpired, DisableTOTP, Allow, guardVars
  <1> QED
    BY <1>1, <1>3, <1>4, <1>5, <1>6, <1>7, <1>8, <1>9 DEF GuardNext

TotpOK == totp \in [secret : Secrets, last : CodeSteps]

LEMMA TypeParts == GuardTypeOK <=> now \in 1..MaxTime /\ AttemptsOK /\ TotpOK /\ call \in [Callers -> Call]
  BY DEF GuardTypeOK, AttemptsOK, TotpOK

LEMMA TypesInit == ASSUME GuardInit PROVE GuardTypeOK /\ HistoryOK /\ KeyInv
  <1>1. now \in 1..MaxTime /\ AttemptsOK
    BY LoginGuardAssumption DEF GuardInit, AttemptsOK
  <1>2. TotpOK /\ call \in [Callers -> Call]
    <2>1. TotpOK
      BY LoginGuardAssumption DEF GuardInit, TotpOK, Secrets, CodeSteps
    <2>2. call \in [Callers -> Call]
      BY IdleIs DEF GuardInit
    <2> QED
      BY <2>1, <2>2
  <1>3. HistoryOK
    BY NoneIs DEF GuardInit, HistoryOK
  <1>4. KeyInv
    BY IdleIs DEF GuardInit, KeyInv
  <1> QED
    BY <1>1, <1>2, <1>3, <1>4, TypeParts

LEMMA CodesTyped ==
  ASSUME HistoryOK
  PROVE  /\ \A b \in BOOLEAN : Excuse(b) => accepted' \subseteq Secrets \X CodeSteps /\ excused' \in BOOLEAN
         /\ \A secret \in Secrets, step \in CodeSteps : AcceptCode(secret, step) =>
               accepted' \subseteq Secrets \X CodeSteps /\ replayed' \in BOOLEAN
  <1>1. ASSUME NEW b \in BOOLEAN, Excuse(b)
        PROVE  accepted' \subseteq Secrets \X CodeSteps /\ excused' \in BOOLEAN
    BY <1>1 DEF Excuse, HistoryOK
  <1>2. ASSUME NEW secret \in Secrets, NEW step \in CodeSteps, AcceptCode(secret, step)
        PROVE  accepted' \subseteq Secrets \X CodeSteps /\ replayed' \in BOOLEAN
    BY <1>2 DEF AcceptCode, HistoryOK
  <1> QED
    BY <1>1, <1>2

(* The two writes of the last used step.                                   *)
LEMMA StepWriteTyped ==
  ASSUME GuardTypeOK, HistoryOK, NEW p \in Callers, NEW c \in Call, UpdateUserTOTPLastUsedStep(p, c)
  PROVE  GuardTypeOK' /\ HistoryOK'
  <1>1. totp.secret \in Secrets /\ call[p].step \in CodeSteps
    BY CallIs DEF GuardTypeOK, Call
  <1>2. TotpOK'
    <2>1. TotpOK
      BY TypeParts
    <2>2. CASE totp' = [totp EXCEPT !.last = call[p].step]
      BY <1>1, <2>1, <2>2 DEF TotpOK
    <2> QED
      BY <2>1, <2>2 DEF UpdateUserTOTPLastUsedStep, TotpOK
  <1>3. call' \in [Callers -> Call]
    BY CallIs DEF UpdateUserTOTPLastUsedStep
  <1>4. accepted' \subseteq Secrets \X CodeSteps /\ excused' \in BOOLEAN
    BY CodesTyped DEF UpdateUserTOTPLastUsedStep
  <1>5. GuardTypeOK'
    BY <1>2, <1>3, TypeParts DEF UpdateUserTOTPLastUsedStep, limiter, GuardTypeOK, TotpOK
  <1>6. HistoryOK'
    BY <1>4 DEF UpdateUserTOTPLastUsedStep, limiter, HistoryOK
  <1> QED
    BY <1>5, <1>6

LEMMA TypesInductive ==
  ASSUME GuardTypeOK, HistoryOK, KeyInv, [GuardNext]_guardVars PROVE GuardTypeOK' /\ HistoryOK'
  <1> USE DEF limiter, second
  <1>1. now \in 1..MaxTime /\ AttemptsOK /\ TotpOK /\ call \in [Callers -> Call]
    BY TypeParts
  <1>2. CASE Tick
    <2>1. /\ passes' \in [Ips -> Histories] /\ guesses' \in [Logins -> Histories]
          /\ \A k \in Ips : Grows(passes'[k])
          /\ \A k \in Logins : Grows(guesses'[k])
      BY <1>2, OlderIs DEF Tick, HistoryOK
    <2>2. HistoryOK'
      BY <1>2, <2>1 DEF Tick, HistoryOK
    <2>3. now' \in 1..MaxTime
      BY <1>1, <1>2, LoginGuardAssumption DEF Tick
    <2> QED
      BY <1>2, <2>2, <2>3 DEF Tick, GuardTypeOK
  <1>3. CASE CleanupExpired
    <2>1. AttemptsOK'
      BY <1>1, <1>3, KeepTyped DEF CleanupExpired
    <2> QED
      BY <1>1, <1>3, <2>1 DEF CleanupExpired, GuardTypeOK, AttemptsOK, HistoryOK
  <1>4. CASE DisableTOTP
    <2>1. TotpOK'
      BY <1>4, LoginGuardAssumption DEF DisableTOTP, TotpOK, Secrets, CodeSteps
    <2>2. accepted' \subseteq Secrets \X CodeSteps /\ excused' \in BOOLEAN
      BY <1>4, CodesTyped DEF DisableTOTP
    <2>3. GuardTypeOK'
      BY <1>4, <2>1 DEF DisableTOTP, GuardTypeOK, TotpOK
    <2>4. HistoryOK'
      BY <1>4, <2>2 DEF DisableTOTP, HistoryOK
    <2> QED
      BY <2>3, <2>4
  <1>5. ASSUME NEW k \in Ips, Allow(k) PROVE GuardTypeOK' /\ HistoryOK'
    <2>1. AttemptsOK'
      BY <1>1, <1>5, AllowTyped
    <2>2. passes' = passes \/ passes' = [passes EXCEPT ![k] = Count(k, passes[k])]
      BY <1>5 DEF Allow, HistoryOK
    <2>3. Count(k, passes[k]) \in Histories /\ Grows(Count(k, passes[k]))
      BY CountIs DEF HistoryOK
    <2>4. passes' \in [Ips -> Histories] /\ \A j \in Ips : Grows(passes'[j])
      BY <2>2, <2>3 DEF HistoryOK
    <2>5. HistoryOK'
      BY <1>5, <2>4 DEF Allow, HistoryOK
    <2> QED
      BY <1>5, <2>1, <2>5 DEF Allow, GuardTypeOK, AttemptsOK
  <1>6. ASSUME NEW p \in Callers, NEW k \in Logins, IsLocked(p, k) PROVE GuardTypeOK' /\ HistoryOK'
    <2>1. AttemptsOK'
      BY <1>1, <1>6, KeepTyped DEF IsLocked, AttemptsOK
    <2>2. call' \in [Callers -> Call]
      <3>1. 0 \in Secrets /\ 0 \in CodeSteps
        BY LoginGuardAssumption DEF Secrets, CodeSteps
      <3>2. At("read", k, 0, 0) \in Call
        BY <3>1, AtTyped
      <3>3. Becomes(p, At("read", k, 0, 0))
        BY <1>6, Moved
      <3> QED
        BY <3>2, <3>3, BecomesIs
    <2> QED
      BY <1>6, <2>1, <2>2 DEF IsLocked, GuardTypeOK, AttemptsOK, HistoryOK
  <1>7. ASSUME NEW p \in Callers, GetUserByEmail(p) PROVE GuardTypeOK' /\ HistoryOK'
    <2>1. totp.secret \in Secrets /\ totp.last \in CodeSteps /\ call[p].key \in Logins \cup {""}
      BY <1>1, CallIs DEF TotpOK, Call
    <2>2. At("verify", call[p].key, totp.secret, totp.last) \in Call
      BY <2>1, AtTyped
    <2>3. call' \in [Callers -> Call]
      <3>1. Becomes(p, At("verify", call[p].key, totp.secret, totp.last))
        BY <1>7, Moved
      <3> QED
        BY <2>2, <3>1, BecomesIs
    <2>4. accepted' \subseteq Secrets \X CodeSteps /\ excused' \in BOOLEAN
      BY <1>7, CodesTyped DEF GetUserByEmail
    <2>5. GuardTypeOK'
      BY <1>7, <2>3 DEF GetUserByEmail, GuardTypeOK
    <2>6. HistoryOK'
      BY <1>7, <2>4 DEF GetUserByEmail, HistoryOK
    <2> QED
      BY <2>5, <2>6
  <1>8. ASSUME NEW p \in Callers, LoginFails(p) PROVE GuardTypeOK' /\ HistoryOK'
    <2>0. PICK k \in Logins : k = call[p].key
      BY <1>8 DEF LoginFails, KeyInv
    <2>1. AttemptsOK'
      BY <1>1, <1>8, <2>0, FailureTyped DEF LoginFails, LimiterKeys
    <2>2. call' \in [Callers -> Call]
      BY <1>8, Moved, BecomesIs, IdleIs
    <2>3. guesses' = [guesses EXCEPT ![k] = Count(k, guesses[k])]
      BY <1>8, <2>0 DEF LoginFails, HistoryOK
    <2>4. guesses[k] \in Histories /\ Grows(guesses[k])
      BY <1>8 DEF HistoryOK
    <2>5. Count(k, guesses[k]) \in Histories /\ Grows(Count(k, guesses[k]))
      BY <2>4, CountIs
    <2>6. guesses' \in [Logins -> Histories] /\ \A j \in Logins : Grows(guesses'[j])
      BY <2>3, <2>5 DEF HistoryOK
    <2>7. HistoryOK'
      BY <1>8, <2>6 DEF LoginFails, HistoryOK
    <2> QED
      BY <1>8, <2>1, <2>2, <2>7 DEF LoginFails, GuardTypeOK, AttemptsOK
  <1>9. ASSUME NEW p \in Callers, LoginStops(p) PROVE GuardTypeOK' /\ HistoryOK'
    <2>1. call' \in [Callers -> Call]
      BY <1>9, Moved, BecomesIs, IdleIs
    <2> QED
      BY <1>9, <2>1 DEF LoginStops, GuardTypeOK, HistoryOK
  <1>10. ASSUME NEW p \in Callers, LoginWithoutTOTP(p) PROVE GuardTypeOK' /\ HistoryOK'
    <2>1. At("reset", call[p].key, call[p].secret, call[p].step) \in Call
      <3>1. call[p].key \in Logins \cup {""} /\ call[p].secret \in Secrets /\ call[p].step \in CodeSteps
        BY CallIs DEF Call
      <3> QED
        BY <3>1, AtTyped
    <2>2. call' \in [Callers -> Call]
      <3>1. Becomes(p, At("reset", call[p].key, call[p].secret, call[p].step))
        BY <1>10, Moved
      <3> QED
        BY <2>1, <3>1, BecomesIs
    <2> QED
      BY <1>10, <2>2 DEF LoginWithoutTOTP, GuardTypeOK, HistoryOK
  <1>11. ASSUME NEW p \in Callers, RecordStep(p) PROVE GuardTypeOK' /\ HistoryOK'
    <2>1. [call[p] EXCEPT !.pc = "reset"] \in Call
      BY CallIs DEF Call
    <2> QED
      BY <1>11, <2>1, StepWriteTyped DEF RecordStep
  <1>12. ASSUME NEW p \in Callers, EnrolmentStep(p) PROVE GuardTypeOK' /\ HistoryOK'
    BY <1>12, IdleIs, StepWriteTyped DEF EnrolmentStep
  <1>13. ASSUME NEW p \in Callers, Reset(p) PROVE GuardTypeOK' /\ HistoryOK'
    <2>1. AttemptsOK'
      BY <1>1, <1>13, KeepTyped DEF Reset
    <2>2. call' \in [Callers -> Call]
      BY <1>13, Moved, BecomesIs, IdleIs
    <2>3. guesses' \in [Logins -> Histories] /\ \A j \in Logins : Grows(guesses'[j])
      BY <1>13, NoneIs DEF Reset, HistoryOK
    <2>4. HistoryOK'
      BY <1>13, <2>3 DEF Reset, HistoryOK
    <2> QED
      BY <1>13, <2>1, <2>2, <2>4 DEF Reset, GuardTypeOK, AttemptsOK
  <1>14. ASSUME NEW p \in Callers, NEW step \in CodeSteps, LoginWithCode(p, step) PROVE GuardTypeOK' /\ HistoryOK'
    <2>1. At("record", call[p].key, call[p].secret, step) \in Call /\ call[p].secret \in Secrets
      <3>1. call[p].key \in Logins \cup {""} /\ call[p].secret \in Secrets
        BY CallIs DEF Call
      <3> QED
        BY <3>1, AtTyped
    <2>2. call' \in [Callers -> Call]
      <3>1. Becomes(p, At("record", call[p].key, call[p].secret, step))
        BY <1>14, Moved
      <3> QED
        BY <2>1, <3>1, BecomesIs
    <2>3. accepted' \subseteq Secrets \X CodeSteps /\ replayed' \in BOOLEAN
      BY <1>14, <2>1, CodesTyped DEF LoginWithCode
    <2>4. HistoryOK'
      BY <1>14, <2>3 DEF LoginWithCode, HistoryOK
    <2> QED
      BY <1>14, <2>2, <2>4 DEF LoginWithCode, GuardTypeOK
  <1>15. ASSUME NEW p \in Callers, NEW secret \in Secrets \ {0}, NEW step \in CodeSteps,
                VerifyTOTP(p, secret, step)
         PROVE  GuardTypeOK' /\ HistoryOK'
    <2>1. 0 \in Secrets /\ 0 \in CodeSteps
      BY LoginGuardAssumption DEF Secrets, CodeSteps
    <2>2. At("enrolled", "", 0, step) \in Call
      BY <2>1, AtTyped
    <2>3. call' \in [Callers -> Call]
      <3>1. Becomes(p, At("enrolled", "", 0, step))
        BY <1>15, Moved
      <3> QED
        BY <2>2, <3>1, BecomesIs
    <2>4. TotpOK'
      BY <1>15, <2>1 DEF VerifyTOTP, TotpOK
    <2>5. accepted' \subseteq Secrets \X CodeSteps /\ excused' \in BOOLEAN
      BY <1>15 DEF VerifyTOTP, HistoryOK
    <2>6. HistoryOK'
      BY <1>15, <2>5 DEF VerifyTOTP, HistoryOK
    <2> QED
      BY <1>15, <2>3, <2>4, <2>6 DEF VerifyTOTP, GuardTypeOK, TotpOK
  <1>16. CASE UNCHANGED guardVars
    BY <1>16 DEF guardVars, GuardTypeOK, HistoryOK
  <1> QED
    BY <1>2, <1>3, <1>4, <1>5, <1>6, <1>7, <1>8, <1>9, <1>10, <1>11, <1>12, <1>13, <1>14,
       <1>15, <1>16 DEF GuardNext

-----------------------------------------------------------------------------
(* The rate of an address.                                                 *)
(* Once its record has run out, nothing happened within a window.          *)
LEMMA LapsedIsEmpty ==
  ASSUME GuardTypeOK, NEW k \in LimiterKeys, NEW h, Covers(k, h), Lapsed(k)
  PROVE  h[Window] = 0
  <1>1. CASE k \notin DOMAIN attempts
    BY <1>1 DEF Covers
  <1>2. CASE k \in DOMAIN attempts
    <2>1. attempts[k].updated \in Int /\ now \in Int
      BY <1>2 DEF GuardTypeOK, AttemptRecord
    <2>2. Window < now - attempts[k].updated
      BY <1>2, <2>1, LoginGuardAssumption DEF Lapsed
    <2> QED
      BY <1>2, <2>2, Bounds DEF Covers
  <1> QED
    BY <1>1, <1>2

(* A lock outlasts the window, counted from the last update.               *)
LEMMA UnlockedIsEmpty ==
  ASSUME GuardTypeOK, NEW k \in LimiterKeys, NEW h, Covers(k, h), Locked(k), ~LockHolds(k),
         attempts[k].locked = attempts[k].updated
  PROVE  h[Window] = 0
  <1>1. k \in DOMAIN attempts
    BY DEF Locked
  <1>2. attempts[k].updated \in Int /\ now \in Int
    BY <1>1 DEF GuardTypeOK, AttemptRecord
  <1>3. Window < now - attempts[k].updated
    BY <1>2, LoginGuardAssumption DEF LockHolds
  <1> QED
    BY <1>1, <1>3, Bounds DEF Covers

LEMMA ExpiredIsEmpty ==
  ASSUME GuardTypeOK, NEW k \in LimiterKeys, NEW h, Covers(k, h), k \in Expired,
         Locked(k) => attempts[k].locked = attempts[k].updated
  PROVE  h[Window] = 0
  <1>1. CASE Locked(k)
    <2>1. k \in DOMAIN attempts
      BY <1>1 DEF Locked
    <2>2. attempts[k].locked \in Int /\ now \in Int
      BY <2>1 DEF GuardTypeOK, AttemptRecord
    <2>3. now - attempts[k].locked > Lockout
      BY <1>1 DEF Expired
    <2>4. ~LockHolds(k)
      BY <2>2, <2>3, LoginGuardAssumption DEF LockHolds
    <2> QED
      BY <1>1, <2>4, UnlockedIsEmpty
  <1>2. CASE ~Locked(k)
    BY <1>2, LapsedIsEmpty DEF Expired
  <1> QED
    BY <1>1, <1>2

(* Another key's record, and a tick of the clock.                          *)
LEMMA CoversKept ==
  ASSUME GuardTypeOK, NEW k \in LimiterKeys, NEW h, Covers(k, h), now' = now, Undisturbed(k),
         Locked(k) => attempts[k].locked = attempts[k].updated
  PROVE  /\ k \in DOMAIN attempts' => k \in DOMAIN attempts /\ attempts'[k] = attempts[k]
         /\ Covers(k, h)'
  <1>1. CASE k \in Expired /\ k \notin DOMAIN attempts'
    BY <1>1, ExpiredIsEmpty DEF Covers
  <1>2. CASE /\ k \in DOMAIN attempts' <=> k \in DOMAIN attempts
             /\ k \in DOMAIN attempts => attempts'[k] = attempts[k]
    BY <1>2 DEF Covers
  <1> QED
    BY <1>1, <1>2 DEF Undisturbed

(* A step on one key leaves the records of the others, evictions aside.    *)
LEMMA OthersKept ==
  ASSUME GuardTypeOK, KeyInv, NEW j \in LimiterKeys, j \notin evicted'
  PROVE  /\ attempts' = attempts => Undisturbed(j)
         /\ CleanupExpired => Undisturbed(j)
         /\ \A k \in Ips : Allow(k) /\ j # k => Undisturbed(j)
         /\ \A p \in Callers, k \in Logins : IsLocked(p, k) /\ j # k => Undisturbed(j)
         /\ \A p \in Callers : LoginFails(p) /\ j # call[p].key => Undisturbed(j)
         /\ \A p \in Callers : Reset(p) /\ j # call[p].key => Undisturbed(j)
  <1>1. attempts' = attempts => Undisturbed(j)
    BY DEF Undisturbed
  <1>2. ASSUME NEW S, attempts' = Keep(S), j \in S PROVE Undisturbed(j)
    BY <1>2, KeepIs DEF Undisturbed
  <1>3. ASSUME CleanupExpired PROVE Undisturbed(j)
    <2>1. attempts' = Keep(LimiterKeys \ Expired)
      BY <1>3 DEF CleanupExpired
    <2>2. CASE j \in Expired
      BY <2>1, <2>2, KeepIs DEF Undisturbed
    <2>3. CASE j \notin Expired
      BY <1>2, <2>1, <2>3
    <2> QED
      BY <2>2, <2>3
  <1>4. ASSUME NEW k \in Ips, Allow(k), j # k PROVE Undisturbed(j)
    <2>1. CASE Lapsed(k)
      BY <1>4, <2>1, StartOverIs DEF Allow, LimiterKeys
    <2>2. CASE ~Lapsed(k)
      BY <1>4, <2>2, AllowIs DEF Undisturbed
    <2> QED
      BY <2>1, <2>2
  <1>5. ASSUME NEW p \in Callers, NEW k \in Logins, IsLocked(p, k), j # k PROVE Undisturbed(j)
    <2>1. attempts' = attempts \/ attempts' = Keep(LimiterKeys \ {k})
      BY <1>5 DEF IsLocked
    <2> QED
      BY <1>1, <1>2, <1>5, <2>1
  <1>6. ASSUME NEW p \in Callers, LoginFails(p), j # call[p].key PROVE Undisturbed(j)
    <2>1. PICK k \in LimiterKeys : k = call[p].key /\ RecordFailure(k)
      BY <1>6 DEF LoginFails, KeyInv, LimiterKeys
    <2>2. CASE Lapsed(k)
      BY <1>6, <2>1, <2>2, StartOverIs DEF RecordFailure
    <2>3. CASE ~Lapsed(k)
      BY <1>6, <2>1, <2>3, RecordFailureIs DEF Undisturbed
    <2> QED
      BY <2>2, <2>3
  <1>7. ASSUME NEW p \in Callers, Reset(p), j # call[p].key PROVE Undisturbed(j)
    BY <1>2, <1>7 DEF Reset
  <1> QED
    BY <1>1, <1>3, <1>4, <1>5, <1>6, <1>7

LEMMA EvictedGrows == ASSUME GuardTypeOK, KeyInv, [GuardNext]_guardVars PROVE evicted \subseteq evicted'
  <1> USE DEF limiter, second
  <1>1. ASSUME NEW k \in Ips, Allow(k) PROVE evicted \subseteq evicted'
    BY <1>1, StartOverIs DEF Allow, LimiterKeys
  <1>2. ASSUME NEW p \in Callers, LoginFails(p) PROVE evicted \subseteq evicted'
    <2>1. PICK k \in LimiterKeys : k = call[p].key /\ RecordFailure(k)
      BY <1>2 DEF LoginFails, KeyInv, LimiterKeys
    <2> QED
      BY <2>1, StartOverIs DEF RecordFailure
  <1>3. ASSUME NEW p \in Callers, NEW k, IsLocked(p, k) PROVE evicted' = evicted
    BY <1>3 DEF IsLocked
  <1>4. ASSUME NEW p \in Callers,
               GetUserByEmail(p) \/ LoginStops(p) \/ LoginWithoutTOTP(p) \/ RecordStep(p)
                  \/ Reset(p) \/ EnrolmentStep(p)
        PROVE  evicted' = evicted
    BY <1>4 DEF GetUserByEmail, LoginStops, LoginWithoutTOTP, RecordStep, Reset, EnrolmentStep,
           UpdateUserTOTPLastUsedStep
  <1>5. ASSUME NEW p \in Callers, NEW secret, NEW step,
               LoginWithCode(p, step) \/ VerifyTOTP(p, secret, step)
        PROVE  evicted' = evicted
    BY <1>5 DEF LoginWithCode, VerifyTOTP
  <1>6. CASE Tick \/ CleanupExpired \/ DisableTOTP \/ UNCHANGED guardVars
    BY <1>6 DEF Tick, CleanupExpired, DisableTOTP, guardVars
  <1> QED
    BY <1>1, <1>2, <1>3, <1>4, <1>5, <1>6 DEF GuardNext

LEMMA RateKept ==
  ASSUME GuardTypeOK, NEW k \in Ips, PassesFit(k), now' = now, Undisturbed(k), passes'[k] = passes[k]
  PROVE  PassesFit(k)'
  <1>1. k \in LimiterKeys
    BY DEF LimiterKeys
  <1>2. Locked(k) => attempts[k].locked = attempts[k].updated
    BY DEF PassesFit, Locked
  <1>3. /\ k \in DOMAIN attempts' => k \in DOMAIN attempts /\ attempts'[k] = attempts[k]
    BY <1>1, <1>2, CoversKept DEF PassesFit
  <1>4. Covers(k, passes[k])'
    <2>1. PICK h : h = passes[k]
      OBVIOUS
    <2>2. Covers(k, h)
      BY <2>1 DEF PassesFit
    <2>3. Covers(k, h)'
      BY <1>1, <1>2, <2>2, CoversKept
    <2> QED
      BY <2>1, <2>3 DEF Covers
  <1> QED
    BY <1>3, <1>4 DEF PassesFit, Locked

LEMMA TickCovers ==
  ASSUME GuardTypeOK, NEW k \in LimiterKeys, NEW h \in Histories, Grows(h), Covers(k, h),
         NEW g, g = Older(h), now' = now + 1, attempts' = attempts
  PROVE  Covers(k, g)'
  <1>1. /\ \A a \in Ages : h[a] \in Nat /\ g[a] \in Nat
        /\ g[0] = 0 /\ g[Window] <= h[Window]
        /\ \A a \in Ages : a # 0 => g[a] = h[a - 1]
    BY OlderIs DEF Histories
  <1>2. CASE k \notin DOMAIN attempts
    <2>1. g[Window] = 0
      BY <1>1, <1>2, Bounds DEF Covers
    <2> QED
      BY <1>2, <2>1 DEF Covers
  <1>3. CASE k \in DOMAIN attempts
    <2>1. attempts[k].updated \in Int /\ now \in Int
      BY <1>3 DEF GuardTypeOK, AttemptRecord
    <2>2. ASSUME NEW a \in Ages, a < now + 1 - attempts[k].updated PROVE g[a] = 0
      <3>1. CASE a = 0
        BY <3>1, <1>1
      <3>2. CASE a # 0
        <4>1. a - 1 \in Ages /\ a \in Nat
          BY <3>2, Bounds
        <4>2. a - 1 < now - attempts[k].updated
          BY <2>1, <2>2, <4>1
        <4>3. h[a - 1] = 0
          BY <1>3, <4>1, <4>2 DEF Covers
        <4> QED
          BY <3>2, <4>3, <1>1
      <3> QED
        BY <3>1, <3>2
    <2>3. k \in DOMAIN attempts' /\ now' - attempts'[k].updated = now + 1 - attempts[k].updated
      BY <1>3, <2>1
    <2> QED
      BY <2>2, <2>3 DEF Covers
  <1> QED
    BY <1>2, <1>3

(* With a record updated at this instant there is nothing left to cover.   *)
LEMMA FreshCovers ==
  ASSUME GuardTypeOK, NEW k \in LimiterKeys, NEW h, k \in DOMAIN attempts', attempts'[k].updated = now', now' = now
  PROVE  Covers(k, h)'
  <1>1. now \in Int
    BY DEF GuardTypeOK
  <1>2. now' - attempts'[k].updated = 0
    BY <1>1
  <1>3. \A a \in Ages : ~(a < 0)
    BY Bounds
  <1> QED
    BY <1>2, <1>3 DEF Covers

LEMMA RateTick ==
  ASSUME GuardTypeOK, HistoryOK, NEW k \in Ips, PassesFit(k), Tick
  PROVE  PassesFit(k)'
  <1>1. PICK h \in Histories : h = passes[k] /\ Grows(h)
    BY DEF HistoryOK
  <1>2. PICK g : g = Older(h)
    OBVIOUS
  <1>3. now' = now + 1 /\ attempts' = attempts /\ passes'[k] = g
    BY <1>1, <1>2 DEF Tick
  <1>4. g \in Histories /\ g[Window] <= h[Window]
    BY <1>1, <1>2, OlderIs
  <1>5. g[Window] \in Nat /\ h[Window] \in Nat
    BY <1>4, Bounds DEF Histories
  <1>6. Covers(k, g)'
    BY <1>1, <1>2, <1>3, TickCovers DEF PassesFit, LimiterKeys
  <1>7. g[Window] <= MaxAttempts
    BY <1>1, <1>4, <1>5, LoginGuardAssumption DEF PassesFit
  <1>8. k \in DOMAIN attempts /\ ~Locked(k) => g[Window] <= attempts[k].fails
    <2> SUFFICES ASSUME k \in DOMAIN attempts, ~Locked(k) PROVE g[Window] <= attempts[k].fails
      OBVIOUS
    <2>1. h[Window] <= attempts[k].fails
      BY <1>1 DEF PassesFit
    <2>2. attempts[k].fails \in Int
      BY DEF GuardTypeOK, AttemptRecord
    <2> QED
      BY <1>4, <1>5, <2>1, <2>2
  <1> QED
    BY <1>3, <1>6, <1>7, <1>8 DEF PassesFit, Covers, Locked

(* A record updated at this instant fits by what it says.                  *)
LEMMA FreshFits ==
  ASSUME GuardTypeOK, NEW k \in LimiterKeys, NEW g, NEW r,
         now' = now, passes'[k] = g, k \in DOMAIN attempts', attempts'[k] = r, r.updated = now,
         g[Window] <= MaxAttempts,
         IF r.locked # 0 THEN r.locked = now
         ELSE g[Window] <= r.fails /\ r.fails <= MaxAttempts
  PROVE  PassesFit(k)'
  <1>1. Covers(k, g)'
    BY FreshCovers
  <1>2. Covers(k, passes[k])'
    BY <1>1 DEF Covers
  <1> QED
    BY <1>2 DEF PassesFit, Locked

(* The request that Allow lets through, or refuses.                        *)
LEMMA RateAllow ==
  ASSUME GuardTypeOK, HistoryOK, NEW k \in Ips, PassesFit(k), Allow(k)
  PROVE  PassesFit(k)'
  <1>0. k \in LimiterKeys /\ now' = now /\ now \in 1..MaxTime
    BY DEF LimiterKeys, Allow, GuardTypeOK
  <1>1. PICK h \in Histories : h = passes[k] /\ Grows(h)
    BY DEF HistoryOK
  <1>2. PICK g : g = Count(k, h)
    OBVIOUS
  <1>3. /\ g[Window] <= h[Window] + 1
        /\ h[Window] \in Nat /\ g[Window] \in Nat
    BY <1>1, <1>2, CountIs, Bounds DEF Histories
  <1>4. [passes EXCEPT ![k] = Count(k, @)][k] = g
    BY <1>1, <1>2 DEF HistoryOK
  <1>5. CASE Lapsed(k)
    <2>1. h[Window] = 0
      BY <1>0, <1>1, <1>5, LapsedIsEmpty DEF PassesFit
    <2>2. PICK r : r = Fresh
      OBVIOUS
    <2>3. k \in DOMAIN attempts' /\ attempts'[k] = r
      BY <1>0, <1>5, <2>2, StartOverIs DEF Allow
    <2>4. r.fails = 1 /\ r.locked = 0 /\ r.updated = now
      BY <2>2 DEF Fresh
    <2>5. passes'[k] = g
      BY <1>4, <1>5 DEF Allow
    <2>6. g[Window] <= 1 /\ g[Window] <= MaxAttempts /\ 1 <= MaxAttempts
      BY <1>3, <2>1, LoginGuardAssumption
    <2> QED
      BY <1>0, <2>3, <2>4, <2>5, <2>6, FreshFits
  <1>6. CASE ~Lapsed(k)
    <2>1. PICK rec \in AttemptRecord : rec = attempts[k]
      BY <1>6, AllowIs DEF GuardTypeOK
    <2>2. PICK v : v = Verdict(rec)
      OBVIOUS
    <2>3. /\ k \in DOMAIN attempts /\ DOMAIN attempts' = DOMAIN attempts
          /\ attempts'[k] = v.rec
          /\ passes'[k] = IF v.ok THEN g ELSE h
      BY <1>1, <1>4, <1>6, <2>1, <2>2, AllowIs
    <2>4. rec.fails \in Nat /\ rec.locked \in 0..MaxTime
      BY DEF AttemptRecord
    <2>5. /\ Locked(k) <=> rec.locked # 0
          /\ LockHolds(k) <=> rec.locked # 0 /\ rec.locked + Lockout > now
      BY <2>1, <2>3 DEF Locked, LockHolds
    <2>6. CASE LockHolds(k)
      <3>1. v = [ok |-> FALSE, rec |-> rec]
        BY <1>0, <2>2, <2>4, <2>5, <2>6, LoginGuardAssumption DEF Verdict
      <3>2. attempts'[k] = attempts[k] /\ passes'[k] = passes[k]
        BY <1>1, <2>1, <2>3, <3>1
      <3>3. Undisturbed(k)
        BY <2>3, <3>2 DEF Undisturbed
      <3> QED
        BY <1>0, <3>2, <3>3, RateKept
    <2>7. CASE Locked(k) /\ ~LockHolds(k)
      <3>1. rec.locked # 0 /\ ~(rec.locked + Lockout > now) /\ rec.locked + Lockout <= now
        BY <1>0, <2>4, <2>5, <2>7, LoginGuardAssumption
      <3>2. v = [ok |-> TRUE, rec |-> [fails |-> 1, locked |-> 0, updated |-> now]]
        BY <2>2, <3>1 DEF Verdict
      <3>3. h[Window] = 0
        BY <1>0, <1>1, <2>7, UnlockedIsEmpty DEF PassesFit, Locked
      <3>4. g[Window] <= 1 /\ g[Window] <= MaxAttempts /\ 1 <= MaxAttempts
        BY <1>3, <3>3, LoginGuardAssumption
      <3>5. PICK r : r = [fails |-> 1, locked |-> 0, updated |-> now]
        OBVIOUS
      <3>6. attempts'[k] = r /\ passes'[k] = g /\ r.fails = 1 /\ r.locked = 0 /\ r.updated = now
        BY <2>3, <3>2, <3>5
      <3> QED
        BY <1>0, <2>3, <3>4, <3>6, FreshFits
    <2>8. CASE ~Locked(k) /\ rec.fails + 1 > MaxAttempts
      <3>1. rec.locked = 0
        BY <2>5, <2>8
      <3>2. v = [ok |-> FALSE, rec |-> [fails |-> rec.fails + 1, locked |-> now, updated |-> now]]
        BY <2>2, <2>8, <3>1 DEF Verdict
      <3>3. PICK r : r = [fails |-> rec.fails + 1, locked |-> now, updated |-> now]
        OBVIOUS
      <3>4. attempts'[k] = r /\ passes'[k] = h /\ r.locked = now /\ r.updated = now /\ now # 0
        BY <1>0, <2>3, <3>2, <3>3
      <3>5. h[Window] <= MaxAttempts
        BY <1>1 DEF PassesFit
      <3> QED
        BY <1>0, <2>3, <3>4, <3>5, FreshFits
    <2>9. CASE ~Locked(k) /\ ~(rec.fails + 1 > MaxAttempts)
      <3>1. rec.locked = 0
        BY <2>5, <2>9
      <3>2. v = [ok |-> TRUE, rec |-> [fails |-> rec.fails + 1, locked |-> 0, updated |-> now]]
        BY <2>2, <2>9, <3>1 DEF Verdict
      <3>3. PICK r : r = [fails |-> rec.fails + 1, locked |-> 0, updated |-> now]
        OBVIOUS
      <3>4. /\ attempts'[k] = r /\ passes'[k] = g
            /\ r.fails = rec.fails + 1 /\ r.locked = 0 /\ r.updated = now
        BY <2>3, <3>2, <3>3
      <3>5. h[Window] <= rec.fails
        BY <1>1, <2>1, <2>3, <2>9 DEF PassesFit
      <3>6. g[Window] <= rec.fails + 1 /\ rec.fails + 1 <= MaxAttempts /\ g[Window] <= MaxAttempts
        BY <1>3, <2>4, <2>9, <3>5, LoginGuardAssumption
      <3> QED
        BY <1>0, <2>3, <3>4, <3>6, FreshFits
    <2> QED
      BY <2>6, <2>7, <2>8, <2>9
  <1> QED
    BY <1>5, <1>6

LEMMA RateInductive ==
  ASSUME GuardTypeOK, HistoryOK, KeyInv, RateInv, [GuardNext]_guardVars PROVE RateInv'
  <1> SUFFICES ASSUME NEW k \in Ips, k \notin evicted' PROVE PassesFit(k)'
    BY DEF RateInv
  <1> USE DEF limiter, second
  <1>1. PassesFit(k)
    BY EvictedGrows DEF RateInv
  <1>2. k \in LimiterKeys /\ \A l \in Logins : l # k
    BY LoginGuardAssumption DEF LimiterKeys
  <1>3. ASSUME now' = now, passes'[k] = passes[k], Undisturbed(k) PROVE PassesFit(k)'
    BY <1>1, <1>3, RateKept
  <1>4. CASE Tick
    BY <1>1, <1>4, RateTick
  <1>5. CASE CleanupExpired
    BY <1>2, <1>3, <1>5, OthersKept DEF CleanupExpired
  <1>6. ASSUME NEW j \in Ips, Allow(j) PROVE PassesFit(k)'
    <2>1. CASE j = k
      BY <1>1, <1>6, <2>1, RateAllow
    <2>2. CASE j # k
      <3>1. now' = now /\ passes'[k] = passes[k]
        BY <1>6, <2>2 DEF Allow, HistoryOK
      <3>2. Undisturbed(k)
        BY <1>2, <1>6, <2>2, OthersKept
      <3> QED
        BY <1>3, <3>1, <3>2
    <2> QED
      BY <2>1, <2>2
  <1>7. ASSUME NEW p \in Callers, NEW l \in Logins, IsLocked(p, l) PROVE PassesFit(k)'
    <2>1. now' = now /\ passes' = passes
      BY <1>7 DEF IsLocked
    <2>2. Undisturbed(k)
      BY <1>2, <1>7, OthersKept
    <2> QED
      BY <1>3, <2>1, <2>2
  <1>8. ASSUME NEW p \in Callers, LoginFails(p) \/ Reset(p) PROVE PassesFit(k)'
    <2>1. now' = now /\ passes' = passes /\ k # call[p].key
      BY <1>2, <1>8 DEF LoginFails, Reset, KeyInv
    <2>2. Undisturbed(k)
      BY <1>2, <1>8, <2>1, OthersKept
    <2> QED
      BY <1>3, <2>1, <2>2
  <1>9. ASSUME now' = now, passes' = passes, attempts' = attempts PROVE PassesFit(k)'
    BY <1>2, <1>3, <1>9, OthersKept
  <1>10. ASSUME NEW p \in Callers,
                GetUserByEmail(p) \/ LoginStops(p) \/ LoginWithoutTOTP(p) \/ RecordStep(p)
                   \/ EnrolmentStep(p)
         PROVE  PassesFit(k)'
    BY <1>9, <1>10 DEF GetUserByEmail, LoginStops, LoginWithoutTOTP, RecordStep, EnrolmentStep,
           UpdateUserTOTPLastUsedStep
  <1>11. ASSUME NEW p \in Callers, NEW secret, NEW step,
                LoginWithCode(p, step) \/ VerifyTOTP(p, secret, step)
         PROVE  PassesFit(k)'
    BY <1>9, <1>11 DEF LoginWithCode, VerifyTOTP
  <1>12. CASE DisableTOTP \/ UNCHANGED guardVars
    BY <1>9, <1>12 DEF DisableTOTP, guardVars
  <1> QED
    BY <1>4, <1>5, <1>6, <1>7, <1>8, <1>10, <1>11, <1>12 DEF GuardNext

-----------------------------------------------------------------------------
(* The failures of a login.                                                *)
LEMMA InFlightIs ==
  ASSUME NEW k
  PROVE  /\ IsFiniteSet(InFlight(k)) /\ Cardinality(InFlight(k)) \in Nat
         /\ Cardinality(InFlight(k)) <= Cardinality(Callers)
         /\ \A p \in Callers : p \notin InFlight(k) => Cardinality(InFlight(k)) < Cardinality(Callers)
  <1>1. InFlight(k) \subseteq Callers /\ IsFiniteSet(Callers)
    BY LoginGuardAssumption DEF InFlight
  <1>2. /\ IsFiniteSet(InFlight(k)) /\ Cardinality(InFlight(k)) <= Cardinality(Callers)
        /\ Cardinality(Callers) = Cardinality(InFlight(k)) => InFlight(k) = Callers
    BY <1>1, FS_Subset
  <1>3. Cardinality(InFlight(k)) \in Nat /\ Cardinality(Callers) \in Nat
    BY <1>1, <1>2, FS_CardinalityType
  <1> QED
    BY <1>2, <1>3

(* Requests only leave the flight.                                         *)
LEMMA FlightShrinks ==
  ASSUME NEW k, InFlight(k)' \subseteq InFlight(k)
  PROVE  /\ Cardinality(InFlight(k)') \in Nat
         /\ Cardinality(InFlight(k)') <= Cardinality(InFlight(k))
  <1>1. IsFiniteSet(InFlight(k))
    BY InFlightIs
  <1> QED
    BY <1>1, FS_Subset, FS_CardinalityType

LEMMA FlightLeaves ==
  ASSUME NEW k, NEW p \in InFlight(k), InFlight(k)' = InFlight(k) \ {p}
  PROVE  Cardinality(InFlight(k)') = Cardinality(InFlight(k)) - 1
  BY InFlightIs, FS_RemoveElement

LEMMA GuessKept ==
  ASSUME GuardTypeOK, HistoryOK, NEW k \in Logins, GuessesFit(k), now' = now, Undisturbed(k),
         guesses'[k] = guesses[k], ~LockHolds(k) \/ InFlight(k)' \subseteq InFlight(k)
  PROVE  GuessesFit(k)'
  <1>1. k \in LimiterKeys
    BY DEF LimiterKeys
  <1>2. Locked(k) => attempts[k].locked = attempts[k].updated
    BY DEF GuessesFit, Locked
  <1>3. k \in DOMAIN attempts' => k \in DOMAIN attempts /\ attempts'[k] = attempts[k]
    BY <1>1, <1>2, CoversKept DEF GuessesFit
  <1>4. Covers(k, guesses[k])'
    <2>1. PICK h : h = guesses[k]
      OBVIOUS
    <2>2. Covers(k, h)
      BY <2>1 DEF GuessesFit
    <2>3. Covers(k, h)'
      BY <1>1, <1>2, <2>2, CoversKept
    <2> QED
      BY <2>1, <2>3 DEF Covers
  <1>5. CASE ~LockHolds(k)
    <2>1. k \in DOMAIN attempts' => ~LockHolds(k)'
      BY <1>3, <1>5 DEF LockHolds, Locked
    <2> QED
      BY <1>3, <1>4, <2>1 DEF GuessesFit, Locked
  <1>6. CASE LockHolds(k) /\ InFlight(k)' \subseteq InFlight(k)
    <2>1. guesses[k][Window] + Cardinality(InFlight(k)) < MaxAttempts + Cardinality(Callers)
      BY <1>6 DEF GuessesFit, LockHolds, Locked
    <2>2. guesses[k][Window] \in Nat /\ Cardinality(InFlight(k)) \in Nat
      BY InFlightIs, Bounds DEF HistoryOK, Histories
    <2>3. guesses'[k][Window] + Cardinality(InFlight(k)') < MaxAttempts + Cardinality(Callers)
      BY <1>6, <2>1, <2>2, FlightShrinks, Bounds, LoginGuardAssumption
    <2> QED
      BY <1>3, <1>4, <2>3 DEF GuessesFit, Locked
  <1> QED
    BY <1>5, <1>6

LEMMA GuessTick ==
  ASSUME GuardTypeOK, HistoryOK, NEW k \in Logins, GuessesFit(k), Tick
  PROVE  GuessesFit(k)'
  <1>1. PICK h \in Histories : h = guesses[k] /\ Grows(h)
    BY DEF HistoryOK
  <1>2. PICK g : g = Older(h)
    OBVIOUS
  <1>3. now' = now + 1 /\ attempts' = attempts /\ guesses'[k] = g /\ call' = call
    BY <1>1, <1>2 DEF Tick
  <1>4. g \in Histories /\ g[Window] <= h[Window]
    BY <1>1, <1>2, OlderIs
  <1>5. g[Window] \in Nat /\ h[Window] \in Nat
    BY <1>4, Bounds DEF Histories
  <1>6. Covers(k, g)'
    BY <1>1, <1>2, <1>3, TickCovers DEF GuessesFit, LimiterKeys
  <1>7. k \in DOMAIN attempts /\ ~Locked(k) => g[Window] <= attempts[k].fails
    <2> SUFFICES ASSUME k \in DOMAIN attempts, ~Locked(k) PROVE g[Window] <= attempts[k].fails
      OBVIOUS
    <2>1. h[Window] <= attempts[k].fails
      BY <1>1 DEF GuessesFit
    <2>2. attempts[k].fails \in Int
      BY DEF GuardTypeOK, AttemptRecord
    <2> QED
      BY <1>4, <1>5, <2>1, <2>2
  <1>8. LockHolds(k)' => g[Window] + Cardinality(InFlight(k)') < MaxAttempts + Cardinality(Callers)
    <2> SUFFICES ASSUME LockHolds(k)'
                 PROVE  g[Window] + Cardinality(InFlight(k)') < MaxAttempts + Cardinality(Callers)
      OBVIOUS
    <2>1. k \in DOMAIN attempts /\ Locked(k)
      BY <1>3 DEF LockHolds, Locked
    <2>2. attempts[k].locked \in Int /\ now \in Int
      BY <2>1 DEF GuardTypeOK, AttemptRecord
    <2>3. attempts[k].locked + Lockout > now + 1
      BY <1>3 DEF LockHolds
    <2>4. LockHolds(k)
      BY <2>1, <2>2, <2>3, LoginGuardAssumption DEF LockHolds
    <2>5. h[Window] + Cardinality(InFlight(k)) < MaxAttempts + Cardinality(Callers)
      BY <1>1, <2>1, <2>4 DEF GuessesFit
    <2>6. InFlight(k)' = InFlight(k)
      BY <1>3 DEF InFlight
    <2>7. Cardinality(InFlight(k)) \in Nat
      BY InFlightIs
    <2> QED
      BY <1>4, <1>5, <2>5, <2>6, <2>7, Bounds, LoginGuardAssumption
  <1> QED
    BY <1>3, <1>6, <1>7, <1>8 DEF GuessesFit, Covers, Locked

LEMMA FreshGuess ==
  ASSUME GuardTypeOK, NEW k \in LimiterKeys, NEW g, NEW r,
         now' = now, guesses'[k] = g, k \in DOMAIN attempts', attempts'[k] = r, r.updated = now,
         IF r.locked # 0
         THEN /\ r.locked = now /\ MaxAttempts <= r.fails
              /\ g[Window] + Cardinality(InFlight(k)') < MaxAttempts + Cardinality(Callers)
         ELSE g[Window] <= r.fails /\ r.fails < MaxAttempts
  PROVE  GuessesFit(k)'
  <1>1. Covers(k, g)'
    BY FreshCovers
  <1>2. Covers(k, guesses[k])'
    BY <1>1 DEF Covers
  <1> QED
    BY <1>2 DEF GuessesFit, Locked

(* A failed login: the first of a window opens a record, a further one     *)
(* counts, locks the key, or was in flight when the key was locked.        *)
LEMMA GuessFails ==
  ASSUME GuardTypeOK, HistoryOK, KeyInv, NEW p \in Callers, NEW k \in Logins, k = call[p].key,
         GuessesFit(k), LoginFails(p)
  PROVE  GuessesFit(k)'
  <1>0. k \in LimiterKeys /\ now' = now /\ now \in 1..MaxTime /\ RecordFailure(k)
    BY DEF LimiterKeys, LoginFails, GuardTypeOK
  <1>1. PICK h \in Histories : h = guesses[k] /\ Grows(h)
    BY DEF HistoryOK
  <1>2. PICK g : g = Count(k, h)
    OBVIOUS
  <1>3. /\ g[Window] <= h[Window] + 1
        /\ h[Window] \in Nat /\ g[Window] \in Nat
    BY <1>1, <1>2, CountIs, Bounds DEF Histories
  <1>4. guesses'[k] = g
    BY <1>1, <1>2 DEF LoginFails, HistoryOK
  <1>5. InFlight(k)' = InFlight(k) \ {p} /\ p \in InFlight(k)
    <2>1. Becomes(p, NoCall) /\ call[p].pc = "verify"
      BY Moved DEF LoginFails
    <2> QED
      BY <2>1, BecomesIs, IdleIs DEF InFlight
  <1>6. PICK n \in Nat : n = Cardinality(InFlight(k))
    BY InFlightIs
  <1>7. Cardinality(InFlight(k)') = n - 1 /\ n <= Cardinality(Callers)
    BY <1>5, <1>6, FlightLeaves, InFlightIs
  <1>8. CASE Lapsed(k)
    <2>1. h[Window] = 0
      BY <1>0, <1>1, <1>8, LapsedIsEmpty DEF GuessesFit
    <2>2. PICK r : r = Fresh
      OBVIOUS
    <2>3. k \in DOMAIN attempts' /\ attempts'[k] = r
      BY <1>0, <1>8, <2>2, StartOverIs DEF RecordFailure
    <2>4. r.fails = 1 /\ r.locked = 0 /\ r.updated = now
      BY <2>2 DEF Fresh
    <2>5. g[Window] <= 1 /\ 1 < MaxAttempts
      BY <1>3, <2>1, LoginGuardAssumption
    <2> QED
      BY <1>0, <1>4, <2>3, <2>4, <2>5, FreshGuess
  <1>9. CASE ~Lapsed(k)
    <2>1. PICK rec \in AttemptRecord : rec = attempts[k]
      BY <1>0, <1>9, RecordFailureIs DEF GuardTypeOK
    <2>2. rec.fails \in Nat /\ rec.locked \in 0..MaxTime
      BY DEF AttemptRecord
    <2>3. PICK r : r = [fails |-> rec.fails + 1, updated |-> now,
                        locked |-> IF rec.fails + 1 >= MaxAttempts THEN now ELSE rec.locked]
      OBVIOUS
    <2>4. k \in DOMAIN attempts /\ k \in DOMAIN attempts' /\ attempts'[k] = r
      BY <1>0, <1>9, <2>1, <2>3, RecordFailureIs
    <2>5. /\ r.fails = rec.fails + 1 /\ r.updated = now
          /\ r.locked = IF rec.fails + 1 >= MaxAttempts THEN now ELSE rec.locked
      BY <2>3
    <2>6. Locked(k) <=> rec.locked # 0
      BY <2>1, <2>4 DEF Locked
    <2>7. now # 0
      BY <1>0
    <2>8. CASE LockHolds(k)
      <3>1. /\ MaxAttempts <= rec.fails
            /\ h[Window] + n < MaxAttempts + Cardinality(Callers)
        BY <1>1, <1>6, <2>1, <2>4, <2>8 DEF GuessesFit, LockHolds
      <3>2. r.locked = now /\ MaxAttempts <= r.fails
        BY <2>2, <2>5, <3>1, LoginGuardAssumption
      <3>3. g[Window] + (n - 1) < MaxAttempts + Cardinality(Callers)
        BY <1>3, <1>6, <3>1, Bounds, LoginGuardAssumption
      <3> QED
        BY <1>0, <1>4, <1>7, <2>4, <2>5, <2>7, <3>2, <3>3, FreshGuess
    <2>9. CASE Locked(k) /\ ~LockHolds(k)
      <3>1. MaxAttempts <= rec.fails /\ h[Window] = 0
        BY <1>0, <1>1, <2>1, <2>4, <2>9, UnlockedIsEmpty DEF GuessesFit
      <3>2. r.locked = now /\ MaxAttempts <= r.fails
        BY <2>2, <2>5, <3>1, LoginGuardAssumption
      <3>3. g[Window] + (n - 1) < MaxAttempts + Cardinality(Callers)
        BY <1>3, <1>6, <1>7, <3>1, Bounds, LoginGuardAssumption
      <3> QED
        BY <1>0, <1>4, <1>7, <2>4, <2>5, <2>7, <3>2, <3>3, FreshGuess
    <2>10. CASE ~Locked(k) /\ rec.fails + 1 >= MaxAttempts
      <3>1. h[Window] <= rec.fails /\ rec.fails < MaxAttempts
        BY <1>1, <2>1, <2>4, <2>10 DEF GuessesFit
      <3>2. r.locked = now /\ MaxAttempts <= r.fails
        BY <2>2, <2>5, <2>10, LoginGuardAssumption
      <3>3. g[Window] + (n - 1) < MaxAttempts + Cardinality(Callers)
        BY <1>3, <1>6, <1>7, <2>2, <3>1, Bounds, LoginGuardAssumption
      <3> QED
        BY <1>0, <1>4, <1>7, <2>4, <2>5, <2>7, <3>2, <3>3, FreshGuess
    <2>11. CASE ~Locked(k) /\ ~(rec.fails + 1 >= MaxAttempts)
      <3>1. h[Window] <= rec.fails
        BY <1>1, <2>1, <2>4, <2>11 DEF GuessesFit
      <3>2. r.locked = 0
        BY <2>5, <2>6, <2>11
      <3>3. g[Window] <= r.fails /\ r.fails < MaxAttempts
        BY <1>3, <2>2, <2>5, <2>11, <3>1, LoginGuardAssumption
      <3> QED
        BY <1>0, <1>4, <2>4, <2>5, <3>2, <3>3, FreshGuess
    <2> QED
      BY <2>8, <2>9, <2>10, <2>11
  <1> QED
    BY <1>8, <1>9

(* A login that succeeds forgets its key; IsLocked drops a record that has *)
(* run out, and lets the login through.                                    *)
LEMMA GuessForgets ==
  ASSUME GuardTypeOK, HistoryOK, NEW k \in Logins, GuessesFit(k), now' = now,
         attempts' = Keep(LimiterKeys \ {k}),
         guesses'[k][Window] = 0
  PROVE  GuessesFit(k)'
  <1>1. DOMAIN attempts' = DOMAIN attempts \cap (LimiterKeys \ {k})
    BY KeepIs
  <1>2. k \notin DOMAIN attempts'
    BY <1>1
  <1> QED
    BY <1>2 DEF GuessesFit, Covers

LEMMA GuessIsLocked ==
  ASSUME GuardTypeOK, HistoryOK, NEW p \in Callers, NEW k \in Logins, GuessesFit(k), IsLocked(p, k)
  PROVE  GuessesFit(k)'
  <1>1. /\ k \in LimiterKeys /\ now' = now /\ guesses' = guesses /\ ~LockHolds(k)
        /\ attempts' = IF Locked(k) \/ Lapsed(k) THEN Keep(LimiterKeys \ {k}) ELSE attempts
    BY DEF LimiterKeys, IsLocked
  <1>2. CASE Locked(k)
    <2>1. PICK h : h = guesses[k]
      OBVIOUS
    <2>2. Covers(k, h) /\ attempts[k].locked = attempts[k].updated
      BY <1>2, <2>1 DEF GuessesFit, Locked
    <2>3. h[Window] = 0
      BY <1>1, <1>2, <2>2, UnlockedIsEmpty
    <2> QED
      BY <1>1, <1>2, <2>1, <2>3, GuessForgets
  <1>3. CASE Lapsed(k)
    <2>1. PICK h : h = guesses[k] /\ Covers(k, h)
      BY DEF GuessesFit
    <2>2. h[Window] = 0
      BY <1>1, <1>3, <2>1, LapsedIsEmpty
    <2> QED
      BY <1>1, <1>3, <2>1, <2>2, GuessForgets
  <1>4. CASE ~Locked(k) /\ ~Lapsed(k)
    BY <1>1, <1>4, GuessKept DEF Undisturbed
  <1> QED
    BY <1>2, <1>3, <1>4

(* No step but IsLocked of a key takes a login of that key into flight.    *)
LEMMA FlightKept ==
  ASSUME GuardTypeOK, NEW k, NEW p \in Callers, NEW c, Becomes(p, c),
         c.pc \in {"read", "verify"} => \/ c.key # k
                                        \/ c.key = call[p].key /\ call[p].pc \in {"read", "verify"}
  PROVE  InFlight(k)' \subseteq InFlight(k)
  BY BecomesIs DEF InFlight

LEMMA GuessInductive ==
  ASSUME GuardTypeOK, HistoryOK, KeyInv, GuessInv, [GuardNext]_guardVars PROVE GuessInv'
  <1> SUFFICES ASSUME NEW k \in Logins, k \notin evicted' PROVE GuessesFit(k)'
    BY DEF GuessInv
  <1> USE DEF limiter, second
  <1>1. GuessesFit(k)
    BY EvictedGrows DEF GuessInv
  <1>2. k \in LimiterKeys /\ \A i \in Ips : i # k
    BY LoginGuardAssumption DEF LimiterKeys
  <1>3. ASSUME now' = now, guesses'[k] = guesses[k], Undisturbed(k), InFlight(k)' \subseteq InFlight(k)
        PROVE  GuessesFit(k)'
    BY <1>1, <1>3, GuessKept
  <1>4. CASE Tick
    BY <1>1, <1>4, GuessTick
  <1>5. ASSUME call' = call PROVE InFlight(k)' \subseteq InFlight(k)
    BY <1>5 DEF InFlight
  <1>6. CASE CleanupExpired
    BY <1>2, <1>3, <1>5, <1>6, OthersKept DEF CleanupExpired
  <1>7. ASSUME NEW j \in Ips, Allow(j) PROVE GuessesFit(k)'
    <2>1. now' = now /\ guesses' = guesses /\ call' = call
      BY <1>7 DEF Allow
    <2>2. Undisturbed(k)
      BY <1>2, <1>7, OthersKept
    <2> QED
      BY <1>3, <1>5, <2>1, <2>2
  <1>8. ASSUME NEW p \in Callers, NEW l \in Logins, IsLocked(p, l) PROVE GuessesFit(k)'
    <2>1. CASE l = k
      BY <1>1, <1>8, <2>1, GuessIsLocked
    <2>2. CASE l # k
      <3>1. now' = now /\ guesses' = guesses
        BY <1>8 DEF IsLocked
      <3>2. Undisturbed(k)
        BY <1>2, <1>8, <2>2, OthersKept
      <3>3. InFlight(k)' \subseteq InFlight(k)
        <4>1. Becomes(p, At("read", l, 0, 0))
          BY <1>8, Moved
        <4>2. At("read", l, 0, 0).key # k
          BY <2>2 DEF At
        <4> QED
          BY <4>1, <4>2, FlightKept
      <3> QED
        BY <1>3, <3>1, <3>2, <3>3
    <2> QED
      BY <2>1, <2>2
  <1>9. ASSUME NEW p \in Callers, Becomes(p, NoCall) PROVE InFlight(k)' \subseteq InFlight(k)
    BY <1>9, FlightKept, IdleIs
  <1>10. ASSUME NEW p \in Callers, LoginFails(p) PROVE GuessesFit(k)'
    <2>1. CASE k = call[p].key
      BY <1>1, <1>10, <2>1, GuessFails
    <2>2. CASE k # call[p].key
      <3>1. now' = now /\ guesses'[k] = guesses[k]
        BY <1>10, <2>2 DEF LoginFails, HistoryOK
      <3>2. Undisturbed(k)
        BY <1>2, <1>10, <2>2, OthersKept
      <3>3. Becomes(p, NoCall)
        BY <1>10, Moved
      <3> QED
        BY <1>3, <1>9, <3>1, <3>2, <3>3
    <2> QED
      BY <2>1, <2>2
  <1>11. ASSUME NEW p \in Callers, Reset(p) PROVE GuessesFit(k)'
    <2>1. CASE k = call[p].key
      <3>1. guesses'[k] = None
        BY <1>11, <2>1 DEF Reset, HistoryOK
      <3>2. guesses'[k][Window] = 0
        BY <3>1, NoneIs
      <3>3. now' = now /\ attempts' = Keep(LimiterKeys \ {k})
        BY <1>11, <2>1 DEF Reset
      <3> QED
        BY <1>1, <3>2, <3>3, GuessForgets
    <2>2. CASE k # call[p].key
      <3>1. now' = now /\ guesses'[k] = guesses[k]
        BY <1>11, <2>2 DEF Reset, HistoryOK
      <3>2. Undisturbed(k)
        BY <1>2, <1>11, <2>2, OthersKept
      <3>3. Becomes(p, NoCall)
        BY <1>11, Moved
      <3> QED
        BY <1>3, <1>9, <3>1, <3>2, <3>3
    <2> QED
      BY <2>1, <2>2
  <1>12. ASSUME now' = now, guesses' = guesses, attempts' = attempts, InFlight(k)' \subseteq InFlight(k)
         PROVE  GuessesFit(k)'
    BY <1>2, <1>3, <1>12, OthersKept
  <1>13. ASSUME NEW p \in Callers, GetUserByEmail(p) PROVE GuessesFit(k)'
    <2>1. Becomes(p, At("verify", call[p].key, totp.secret, totp.last)) /\ call[p].pc = "read"
      BY <1>13, Moved DEF GetUserByEmail
    <2>2. At("verify", call[p].key, totp.secret, totp.last).key = call[p].key
      BY DEF At
    <2>3. InFlight(k)' \subseteq InFlight(k)
      BY <2>1, <2>2, FlightKept
    <2> QED
      BY <1>12, <1>13, <2>3 DEF GetUserByEmail
  <1>14. ASSUME NEW p \in Callers, LoginStops(p) \/ EnrolmentStep(p) PROVE GuessesFit(k)'
    <2>1. Becomes(p, NoCall)
      BY <1>14, Moved
    <2> QED
      BY <1>9, <1>12, <1>14, <2>1 DEF LoginStops, EnrolmentStep, UpdateUserTOTPLastUsedStep
  <1>15. ASSUME NEW p \in Callers, LoginWithoutTOTP(p) \/ RecordStep(p) PROVE GuessesFit(k)'
    <2>1. Becomes(p, At("reset", call[p].key, call[p].secret, call[p].step))
      BY <1>15, Moved
    <2>2. At("reset", call[p].key, call[p].secret, call[p].step).pc = "reset"
      BY DEF At
    <2>3. InFlight(k)' \subseteq InFlight(k)
      BY <2>1, <2>2, FlightKept
    <2> QED
      BY <1>12, <1>15, <2>3 DEF LoginWithoutTOTP, RecordStep, UpdateUserTOTPLastUsedStep
  <1>16. ASSUME NEW p \in Callers, NEW step, LoginWithCode(p, step) PROVE GuessesFit(k)'
    <2>1. Becomes(p, At("record", call[p].key, call[p].secret, step))
      BY <1>16, Moved
    <2>2. At("record", call[p].key, call[p].secret, step).pc = "record"
      BY DEF At
    <2>3. InFlight(k)' \subseteq InFlight(k)
      BY <2>1, <2>2, FlightKept
    <2> QED
      BY <1>12, <1>16, <2>3 DEF LoginWithCode
  <1>17. ASSUME NEW p \in Callers, NEW secret, NEW step, VerifyTOTP(p, secret, step) PROVE GuessesFit(k)'
    <2>1. Becomes(p, At("enrolled", "", 0, step))
      BY <1>17, Moved
    <2>2. At("enrolled", "", 0, step).pc = "enrolled"
      BY DEF At
    <2>3. InFlight(k)' \subseteq InFlight(k)
      BY <2>1, <2>2, FlightKept
    <2> QED
      BY <1>12, <1>17, <2>3 DEF VerifyTOTP
  <1>18. CASE DisableTOTP \/ UNCHANGED guardVars
    BY <1>5, <1>12, <1>18 DEF DisableTOTP, guardVars
  <1> QED
    BY <1>4, <1>6, <1>7, <1>8, <1>10, <1>11, <1>13, <1>14, <1>15, <1>16, <1>17, <1>18 DEF GuardNext

(* The limiter keeps its two promises for any number of addresses, logins  *)
(* and requests, and any limit, window and lock of the shapes that         *)
(* router.go configures: an address gets at most MaxAttempts requests      *)
(* through in a window, a login fails fewer than MaxAttempts times plus    *)
(* once per request.                                                       *)
THEOREM AttemptsStayBounded == GuardSpec => []AttemptsAreBounded
  <1> DEFINE IInv == GuardTypeOK /\ HistoryOK /\ KeyInv /\ RateInv /\ GuessInv
  <1>1. GuardInit => IInv
    <2> SUFFICES ASSUME GuardInit PROVE RateInv /\ GuessInv
      BY TypesInit
    <2>1. attempts = << >> /\ DOMAIN attempts = {}
      BY DEF GuardInit
    <2>2. 0 <= MaxAttempts
      BY LoginGuardAssumption
    <2> QED
      BY <2>1, <2>2, NoneIs DEF GuardInit, RateInv, GuessInv, PassesFit, GuessesFit, Covers
  <1>2. IInv /\ [GuardNext]_guardVars => IInv'
    BY TypesInductive, KeyInductive, RateInductive, GuessInductive
  <1>3. IInv => AttemptsAreBounded
    <2> SUFFICES ASSUME IInv PROVE RateIsBounded /\ GuessesAreBounded
      BY DEF AttemptsAreBounded
    <2>1. RateIsBounded
      BY DEF RateIsBounded, RateInv, PassesFit
    <2>2. ASSUME NEW k \in Logins, k \notin evicted
          PROVE  guesses[k][Window] < MaxAttempts + Cardinality(Callers)
      <3>1. GuessesFit(k) /\ k \in LimiterKeys
        BY <2>2 DEF GuessInv, LimiterKeys
      <3>2. guesses[k][Window] \in Nat
        BY Bounds DEF HistoryOK, Histories
      <3>3. CASE k \notin DOMAIN attempts
        BY <3>1, <3>3, Bounds, LoginGuardAssumption DEF GuessesFit, Covers
      <3>4. CASE k \in DOMAIN attempts /\ ~Locked(k)
        <4>1. guesses[k][Window] <= attempts[k].fails /\ attempts[k].fails < MaxAttempts
          BY <3>1, <3>4 DEF GuessesFit
        <4>2. attempts[k].fails \in Int
          BY <3>4 DEF GuardTypeOK, AttemptRecord
        <4> QED
          BY <3>2, <4>1, <4>2, Bounds, LoginGuardAssumption
      <3>5. CASE LockHolds(k)
        <4>1. guesses[k][Window] + Cardinality(InFlight(k)) < MaxAttempts + Cardinality(Callers)
          BY <3>1, <3>5 DEF GuessesFit, LockHolds, Locked
        <4> QED
          BY <3>2, <4>1, InFlightIs, Bounds, LoginGuardAssumption
      <3>6. CASE Locked(k) /\ ~LockHolds(k)
        <4>1. PICK h : h = guesses[k] /\ Covers(k, h)
          BY <3>1 DEF GuessesFit
        <4>2. attempts[k].locked = attempts[k].updated
          BY <3>1, <3>6 DEF GuessesFit, Locked
        <4>3. h[Window] = 0
          BY <3>1, <3>6, <4>1, <4>2, UnlockedIsEmpty
        <4> QED
          BY <4>1, <4>3, Bounds, LoginGuardAssumption
      <3> QED
        BY <3>3, <3>4, <3>5, <3>6 DEF Locked
    <2> QED
      BY <2>1, <2>2 DEF GuessesAreBounded
  <1> HIDE DEF IInv
  <1> QED
    BY <1>1, <1>2, <1>3, PTL DEF GuardSpec

-----------------------------------------------------------------------------
(* A lock is lifted by the login's own steps or by eviction.               *)
LEMMA LockStep ==
  ASSUME GuardTypeOK, KeyInv, [GuardNext]_guardVars, NEW k \in Logins, LockHolds(k),
         ~(k \in DOMAIN attempts' /\ attempts'[k].locked # 0), ~(now' > now), k \notin evicted'
  PROVE  \E p \in Callers : call[p].key = k /\ (call[p].pc = "reset" \/ (call[p].pc = "verify" /\ Lapsed(k)))
  <1> USE DEF limiter, second
  <1>1. k \in LimiterKeys /\ (\A i \in Ips : i # k) /\ k \in DOMAIN attempts /\ attempts[k].locked # 0
    BY LoginGuardAssumption DEF LimiterKeys, LockHolds, Locked
  <1>2. now \in Int /\ attempts[k].locked \in Int
    BY <1>1 DEF GuardTypeOK, AttemptRecord
  <1>3. k \notin Expired
    BY <1>1, <1>2, LoginGuardAssumption DEF Expired, LockHolds
  <1>4. ASSUME Undisturbed(k) PROVE FALSE
    BY <1>1, <1>3, <1>4 DEF Undisturbed
  <1>5. CASE Tick
    BY <1>2, <1>5 DEF Tick
  <1>6. CASE CleanupExpired
    BY <1>1, <1>4, <1>6, OthersKept
  <1>7. ASSUME NEW j \in Ips, Allow(j) PROVE FALSE
    BY <1>1, <1>4, <1>7, OthersKept
  <1>8. ASSUME NEW p \in Callers, NEW l \in Logins, IsLocked(p, l) PROVE FALSE
    <2>1. l # k
      BY <1>8 DEF IsLocked
    <2> QED
      BY <1>1, <1>4, <1>8, <2>1, OthersKept
  <1>9. ASSUME NEW p \in Callers, Reset(p) PROVE call[p].key = k /\ call[p].pc = "reset"
    BY <1>1, <1>4, <1>9, OthersKept DEF Reset
  <1>10. ASSUME NEW p \in Callers, LoginFails(p) PROVE call[p].key = k /\ call[p].pc = "verify" /\ Lapsed(k)
    <2>1. call[p].key = k
      BY <1>1, <1>4, <1>10, OthersKept
    <2>2. CASE ~Lapsed(k)
      <3>1. RecordFailure(k)
        BY <1>10, <2>1 DEF LoginFails
      <3>2. k \in DOMAIN attempts'
        BY <1>1, <2>2, <3>1, RecordFailureIs
      <3>3. attempts'[k].locked = now \/ attempts'[k].locked = attempts[k].locked
        <4>1. PICK f, l : l \in {now, attempts[k].locked}
                          /\ attempts'[k] = [fails |-> f, updated |-> now, locked |-> l]
          BY <1>1, <2>2, <3>1, RecordFailureIs
        <4> QED
          BY <4>1
      <3>4. now # 0
        BY DEF GuardTypeOK
      <3> QED
        BY <1>1, <3>2, <3>3, <3>4
    <2> QED
      BY <1>10, <2>1, <2>2 DEF LoginFails
  <1>11. ASSUME attempts' = attempts PROVE FALSE
    BY <1>1, <1>11
  <1>12. ASSUME NEW p \in Callers,
                GetUserByEmail(p) \/ LoginStops(p) \/ LoginWithoutTOTP(p) \/ RecordStep(p)
                   \/ EnrolmentStep(p)
         PROVE  FALSE
    BY <1>11, <1>12 DEF GetUserByEmail, LoginStops, LoginWithoutTOTP, RecordStep, EnrolmentStep,
           UpdateUserTOTPLastUsedStep
  <1>13. ASSUME NEW p \in Callers, NEW secret, NEW step,
                LoginWithCode(p, step) \/ VerifyTOTP(p, secret, step)
         PROVE  FALSE
    BY <1>11, <1>13 DEF LoginWithCode, VerifyTOTP
  <1>14. CASE DisableTOTP \/ UNCHANGED guardVars
    BY <1>11, <1>14 DEF DisableTOTP, guardVars
  <1> QED
    BY <1>5, <1>6, <1>7, <1>8, <1>9, <1>10, <1>12, <1>13, <1>14 DEF GuardNext

(* A login's lock lasts: for any number of logins in flight and any        *)
(* capacity, only the clock, an eviction, a successful login or a failure  *)
(* in flight for longer than a window ends it.                             *)
THEOREM LocksLast == GuardSpec => LockIsKept
  <1>1. GuardInit => GuardTypeOK /\ HistoryOK /\ KeyInv
    BY TypesInit
  <1>2. GuardTypeOK /\ HistoryOK /\ KeyInv /\ [GuardNext]_guardVars => (GuardTypeOK /\ HistoryOK /\ KeyInv)'
    BY TypesInductive, KeyInductive
  <1>3. GuardTypeOK /\ HistoryOK /\ KeyInv /\ [GuardNext]_guardVars =>
           [\A k \in Logins : LockHolds(k) /\ ~(k \in DOMAIN attempts' /\ attempts'[k].locked # 0) =>
              \/ now' > now
              \/ k \in evicted'
              \/ \E p \in Callers : call[p].key = k /\ (call[p].pc = "reset" \/ (call[p].pc = "verify" /\ Lapsed(k)))]_guardVars
    BY LockStep
  <1> QED
    BY <1>1, <1>2, <1>3, PTL DEF GuardSpec, LockIsKept

-----------------------------------------------------------------------------
(* One code, one login.                                                    *)
(* Until something is excused the invariant holds.                         *)
CodesFit == ~replayed /\ OneTracks /\ Current /\ Used

(* A request that does not track the columns moves on, or one that does    *)
(* lets go of them; the columns stay.                                      *)
LEMMA CodesKept ==
  ASSUME GuardTypeOK, CodesFit, totp' = totp, accepted' = accepted, replayed' = replayed,
         NEW p \in Callers, NEW c, Becomes(p, c), call[p].pc \notin {"record", "enrolled"},
         c.pc \notin {"verify", "record", "enrolled"}
  PROVE  CodesFit'
  <1>1. /\ ~Tracking(p)' /\ call'[p] = c
        /\ \A q \in Callers \ {p} : call'[q] = call[q]
    BY BecomesIs DEF Tracking
  <1>2. OneTracks'
    BY <1>1 DEF CodesFit, OneTracks, Tracking
  <1>3. Current'
    BY <1>1 DEF CodesFit, Current
  <1>4. Used'
    BY <1>1 DEF CodesFit, Used
  <1> QED
    BY <1>2, <1>3, <1>4 DEF CodesFit

LEMMA CodesRead ==
  ASSUME GuardTypeOK, CodesFit, NEW p \in Callers, GetUserByEmail(p), ~excused'
  PROVE  CodesFit'
  <1>1. /\ Becomes(p, At("verify", call[p].key, totp.secret, totp.last))
        /\ totp' = totp /\ accepted' = accepted /\ replayed' = replayed
        /\ \A q \in Callers \ {p} : ~Tracking(q)
        /\ call[p].pc = "read"
    BY Moved DEF GetUserByEmail, Excuse
  <1>2. /\ call'[p].pc = "verify" /\ call'[p].secret = totp.secret /\ call'[p].step = totp.last
        /\ \A q \in Callers \ {p} : call'[q] = call[q]
    BY <1>1, BecomesIs DEF At
  <1>3. OneTracks'
    BY <1>1, <1>2 DEF OneTracks, Tracking
  <1>4. Current'
    BY <1>1, <1>2 DEF CodesFit, Current
  <1>5. Used'
    BY <1>1, <1>2 DEF CodesFit, Used
  <1> QED
    BY <1>1, <1>3, <1>4, <1>5 DEF CodesFit

(* The code checked against the current step is a new one.                 *)
LEMMA CodesAccept ==
  ASSUME GuardTypeOK, HistoryOK, CodesFit, NEW p \in Callers, NEW step \in CodeSteps,
         LoginWithCode(p, step), ~excused'
  PROVE  CodesFit'
  <1>1. /\ Becomes(p, At("record", call[p].key, call[p].secret, step))
        /\ call[p].pc = "verify" /\ call[p].secret # 0 /\ step > call[p].step
        /\ totp' = totp
        /\ accepted' = accepted \cup {<<call[p].secret, step>>}
        /\ replayed' = (replayed \/ <<call[p].secret, step>> \in accepted)
    BY Moved DEF LoginWithCode, AcceptCode, ValidateTOTPCodeWithStep
  <1>2. /\ call'[p].pc = "record" /\ call'[p].step = step
        /\ \A q \in Callers \ {p} : call'[q] = call[q]
    BY <1>1, BecomesIs DEF At
  <1>3. /\ call[p].secret = totp.secret /\ call[p].step = totp.last
        /\ call[p].secret \in Secrets /\ totp.last \in CodeSteps
    BY <1>1, CallIs DEF CodesFit, Current, Call, GuardTypeOK
  <1>4. \A q \in Callers \ {p} : ~Tracking(q)
    BY <1>1 DEF CodesFit, OneTracks, Tracking
  <1>5. step \in Nat /\ totp.last \in Nat /\ totp.last < step
    BY <1>1, <1>3 DEF CodeSteps
  <1>6. \A t \in CodeSteps : <<totp.secret, t>> \in accepted => t <= totp.last
    BY <1>1, <1>3, <1>4 DEF CodesFit, Used, Tracking
  <1>7. ~replayed'
    <2>1. <<call[p].secret, step>> \notin accepted
      BY <1>3, <1>5, <1>6
    <2> QED
      BY <1>1, <2>1 DEF CodesFit
  <1>8. OneTracks'
    BY <1>2, <1>4 DEF OneTracks, Tracking
  <1>9. Current'
    <2>1. totp.last <= step
      BY <1>5
    <2> QED
      BY <1>1, <1>2, <1>4, <2>1 DEF CodesFit, Current, Tracking
  <1>10. Used'
    <2> SUFFICES ASSUME NEW s \in Secrets, NEW t \in CodeSteps, <<s, t>> \in accepted'
                 PROVE  /\ s # 0
                        /\ s = totp'.secret => t <= totp'.last \/ t <= call'[p].step
      BY <1>2 DEF Used
    <2>1. CASE <<s, t>> \in accepted
      BY <1>1, <1>6, <2>1 DEF CodesFit, Used
    <2>2. CASE s = call[p].secret /\ t = step
      BY <1>1, <1>2, <1>5, <2>2
    <2> QED
      BY <1>1, <2>1, <2>2
  <1> QED
    BY <1>7, <1>8, <1>9, <1>10 DEF CodesFit

(* The step is recorded, by a login or an enrolment.                       *)
LEMMA CodesRecord ==
  ASSUME GuardTypeOK, HistoryOK, CodesFit, NEW p \in Callers, call[p].pc \in {"record", "enrolled"},
         NEW c, Becomes(p, c), c.pc \in {"reset", "idle"},
         UpdateUserTOTPLastUsedStep(p, c), ~excused'
  PROVE  CodesFit'
  <1>1. /\ totp' = [totp EXCEPT !.last = call[p].step]
        /\ accepted' = accepted /\ replayed' = replayed
    BY DEF UpdateUserTOTPLastUsedStep, Excuse
  <1>2. totp'.secret = totp.secret /\ totp'.last = call[p].step
    BY <1>1 DEF GuardTypeOK
  <1>3. call'[p] = c /\ \A q \in Callers \ {p} : call'[q] = call[q]
    BY BecomesIs
  <1>4. \A q \in Callers \ {p} : ~Tracking(q)
    BY DEF CodesFit, OneTracks, Tracking
  <1>5. \A q \in Callers : ~Tracking(q)'
    BY <1>3, <1>4 DEF Tracking
  <1>6. totp.last \in Nat /\ call[p].step \in Nat /\ totp.last <= call[p].step
    <2>1. totp.last \in CodeSteps /\ call[p].step \in CodeSteps
      BY CallIs DEF GuardTypeOK, Call
    <2>2. CodeSteps \subseteq Nat
      BY DEF CodeSteps
    <2>3. totp.last <= call[p].step
      BY DEF CodesFit, Current
    <2> QED
      BY <2>1, <2>2, <2>3
  <1>7. Used'
    <2> SUFFICES ASSUME NEW s \in Secrets, NEW t \in CodeSteps, <<s, t>> \in accepted'
                 PROVE  s # 0 /\ (s = totp'.secret => t <= totp'.last)
      BY DEF Used
    <2>1. s # 0 /\ (s = totp.secret => t <= totp.last \/ t <= call[p].step)
      BY <1>1, <1>4 DEF CodesFit, Used, Tracking
    <2>2. t \in Nat
      BY DEF CodeSteps
    <2> QED
      BY <1>2, <1>6, <2>1, <2>2
  <1> QED
    BY <1>1, <1>5, <1>7 DEF CodesFit, OneTracks, Current, Tracking

LEMMA CodesEnrol ==
  ASSUME GuardTypeOK, HistoryOK, CodesFit, NEW p \in Callers, NEW secret \in Secrets \ {0}, NEW step \in CodeSteps,
         VerifyTOTP(p, secret, step), ~excused'
  PROVE  CodesFit'
  <1>1. /\ Becomes(p, At("enrolled", "", 0, step))
        /\ totp' = [secret |-> secret, last |-> 0]
        /\ accepted' = accepted \cup {<<secret, step>>} /\ replayed' = replayed
        /\ \A q \in Callers : ~Tracking(q)
        /\ \A s \in CodeSteps : <<secret, s>> \notin accepted
    BY Moved DEF VerifyTOTP
  <1>2. /\ call'[p].pc = "enrolled" /\ call'[p].step = step
        /\ \A q \in Callers \ {p} : call'[q] = call[q]
    <2>1. PICK c : c = At("enrolled", "", 0, step)
      OBVIOUS
    <2>2. c.pc = "enrolled" /\ c.step = step
      BY <2>1 DEF At
    <2>3. Becomes(p, c)
      BY <1>1, <2>1
    <2> QED
      BY <2>2, <2>3, BecomesIs
  <1>3. totp'.secret = secret /\ totp'.last = 0 /\ step \in Nat
    <2>1. step \in Nat
      BY DEF CodeSteps
    <2>2. totp'.secret = secret /\ totp'.last = 0
      BY <1>1
    <2> QED
      BY <2>1, <2>2
  <1>4. OneTracks'
    BY <1>1, <1>2 DEF OneTracks, Tracking
  <1>5. Current'
    <2>1. \A q \in Callers \ {p} : ~Tracking(q)
      BY <1>1
    <2>2. 0 <= step
      BY <1>3
    <2> QED
      BY <1>2, <1>3, <2>1, <2>2 DEF Current, Tracking
  <1>6. Used'
    <2> SUFFICES ASSUME NEW s \in Secrets, NEW t \in CodeSteps, <<s, t>> \in accepted'
                 PROVE  s # 0 /\ (s = totp'.secret => t <= call'[p].step)
      BY <1>2 DEF Used
    <2>1. CASE <<s, t>> \in accepted
      BY <1>1, <1>3, <2>1 DEF CodesFit, Used
    <2>2. CASE s = secret /\ t = step
      BY <1>2, <1>3, <2>2
    <2> QED
      BY <1>1, <2>1, <2>2
  <1> QED
    BY <1>1, <1>4, <1>5, <1>6 DEF CodesFit

LEMMA CodesDisable ==
  ASSUME GuardTypeOK, CodesFit, DisableTOTP, ~excused'
  PROVE  CodesFit'
  <1>1. /\ totp' = [secret |-> 0, last |-> 0]
        /\ accepted' = accepted /\ replayed' = replayed /\ call' = call
        /\ \A q \in Callers : ~Tracking(q)
    BY DEF DisableTOTP, Excuse
  <1>2. OneTracks' /\ Current'
    BY <1>1 DEF OneTracks, Current, Tracking
  <1>3. Used'
    BY <1>1 DEF CodesFit, Used
  <1> QED
    BY <1>1, <1>2, <1>3 DEF CodesFit

LEMMA CodesUnchanged ==
  ASSUME CodesFit, totp' = totp, accepted' = accepted, replayed' = replayed, call' = call
  PROVE  CodesFit'
  BY DEF CodesFit, OneTracks, Current, Used, Tracking

LEMMA CodeInductive ==
  ASSUME GuardTypeOK, HistoryOK, CodeInv, [GuardNext]_guardVars PROVE CodeInv'
  <1> USE DEF limiter, second
  <1>0. SUFFICES ASSUME ~excused' PROVE CodesFit'
    BY DEF CodeInv, CodesFit
  <1>1. ~excused
    <2>1. ASSUME NEW p \in Callers, UpdateUserTOTPLastUsedStep(p, NoCall)
                    \/ UpdateUserTOTPLastUsedStep(p, [call[p] EXCEPT !.pc = "reset"])
          PROVE  ~excused
      BY <1>0, <2>1 DEF UpdateUserTOTPLastUsedStep, Excuse
    <2>2. ASSUME NEW p \in Callers, NEW l, IsLocked(p, l) \/ GetUserByEmail(p) \/ LoginFails(p)
                    \/ LoginStops(p) \/ LoginWithoutTOTP(p) \/ Reset(p)
          PROVE  ~excused
      BY <1>0, <2>2 DEF IsLocked, GetUserByEmail, LoginFails, LoginStops, LoginWithoutTOTP, Reset, Excuse
    <2>3. ASSUME NEW p \in Callers, NEW secret, NEW step,
                 LoginWithCode(p, step) \/ VerifyTOTP(p, secret, step)
          PROVE  ~excused
      BY <1>0, <2>3 DEF LoginWithCode, VerifyTOTP
    <2>4. ASSUME NEW p \in Callers, RecordStep(p) \/ EnrolmentStep(p) PROVE ~excused
      BY <2>1, <2>4 DEF RecordStep, EnrolmentStep
    <2>5. CASE Tick \/ CleanupExpired \/ DisableTOTP \/ (\E k \in Ips : Allow(k)) \/ UNCHANGED guardVars
      BY <1>0, <2>5 DEF Tick, CleanupExpired, DisableTOTP, Allow, guardVars, Excuse
    <2> QED
      BY <2>2, <2>3, <2>4, <2>5 DEF GuardNext
  <1>2. CodesFit
    BY <1>1 DEF CodeInv, CodesFit
  <1>3. CASE Tick \/ CleanupExpired \/ (\E k \in Ips : Allow(k)) \/ UNCHANGED guardVars
    <2>1. totp' = totp /\ accepted' = accepted /\ replayed' = replayed /\ call' = call
      BY <1>3 DEF Tick, CleanupExpired, Allow, guardVars
    <2> QED
      BY <1>2, <2>1, CodesUnchanged
  <1>4. CASE DisableTOTP
    BY <1>0, <1>2, <1>4, CodesDisable
  <1>5. ASSUME NEW p \in Callers, NEW l \in Logins, IsLocked(p, l) PROVE CodesFit'
    <2>1. /\ Becomes(p, At("read", l, 0, 0)) /\ call[p].pc = "idle"
          /\ totp' = totp /\ accepted' = accepted /\ replayed' = replayed
      BY <1>5, Moved DEF IsLocked
    <2>2. At("read", l, 0, 0).pc = "read"
      BY DEF At
    <2> QED
      BY <1>2, <2>1, <2>2, CodesKept
  <1>6. ASSUME NEW p \in Callers, GetUserByEmail(p) PROVE CodesFit'
    BY <1>0, <1>2, <1>6, CodesRead
  <1>7. ASSUME NEW p \in Callers, LoginFails(p) \/ LoginStops(p) \/ Reset(p) PROVE CodesFit'
    <2>1. /\ Becomes(p, NoCall) /\ call[p].pc \in {"read", "verify", "reset"}
          /\ totp' = totp /\ accepted' = accepted /\ replayed' = replayed
      BY <1>7, Moved DEF LoginFails, LoginStops, Reset
    <2> QED
      BY <1>2, <2>1, CodesKept, IdleIs
  <1>8. ASSUME NEW p \in Callers, LoginWithoutTOTP(p) PROVE CodesFit'
    <2>1. /\ Becomes(p, At("reset", call[p].key, call[p].secret, call[p].step)) /\ call[p].pc = "verify"
          /\ totp' = totp /\ accepted' = accepted /\ replayed' = replayed
      BY <1>8, Moved DEF LoginWithoutTOTP
    <2>2. At("reset", call[p].key, call[p].secret, call[p].step).pc = "reset"
      BY DEF At
    <2> QED
      BY <1>2, <2>1, <2>2, CodesKept
  <1>9. ASSUME NEW p \in Callers, RecordStep(p) PROVE CodesFit'
    <2>1. PICK c : c = [call[p] EXCEPT !.pc = "reset"]
      OBVIOUS
    <2>2. /\ UpdateUserTOTPLastUsedStep(p, c) /\ call[p].pc = "record"
      BY <1>9, <2>1 DEF RecordStep
    <2>3. Becomes(p, c)
      BY <2>2 DEF UpdateUserTOTPLastUsedStep, Becomes
    <2>4. c.pc = "reset"
      BY <2>1, CallIs DEF Call
    <2> QED
      BY <1>0, <1>2, <2>2, <2>3, <2>4, CodesRecord
  <1>10. ASSUME NEW p \in Callers, EnrolmentStep(p) PROVE CodesFit'
    <2>1. UpdateUserTOTPLastUsedStep(p, NoCall) /\ call[p].pc = "enrolled" /\ Becomes(p, NoCall)
      BY <1>10, Moved DEF EnrolmentStep
    <2> QED
      BY <1>0, <1>2, <2>1, IdleIs, CodesRecord
  <1>11. ASSUME NEW p \in Callers, NEW step \in CodeSteps, LoginWithCode(p, step) PROVE CodesFit'
    BY <1>0, <1>2, <1>11, CodesAccept
  <1>12. ASSUME NEW p \in Callers, NEW secret \in Secrets \ {0}, NEW step \in CodeSteps,
                VerifyTOTP(p, secret, step)
         PROVE  CodesFit'
    BY <1>0, <1>2, <1>12, CodesEnrol
  <1> QED
    BY <1>3, <1>4, <1>5, <1>6, <1>7, <1>8, <1>9, <1>10, <1>11, <1>12 DEF GuardNext

(* A TOTP code works once unless accesses of its columns overlap, a write  *)
(* fails or its secret is enrolled again, for any number of concurrent     *)
(* logins and enrolments.                                                  *)
THEOREM CodesWorkOnce == GuardSpec => []CodeWorksOnce
  <1>1. GuardInit => GuardTypeOK /\ HistoryOK /\ KeyInv /\ CodeInv
    <2>1. GuardInit => CodeInv
      BY IdleIs DEF GuardInit, CodeInv, OneTracks, Current, Used, Tracking
    <2> QED
      BY <2>1, TypesInit
  <1>2. GuardTypeOK /\ HistoryOK /\ KeyInv /\ CodeInv /\ [GuardNext]_guardVars
           => (GuardTypeOK /\ HistoryOK /\ KeyInv /\ CodeInv)'
    BY TypesInductive, KeyInductive, CodeInductive
  <1>3. CodeInv => CodeWorksOnce
    BY DEF CodeInv, CodeWorksOnce
  <1> QED
    BY <1>1, <1>2, <1>3, PTL DEF GuardSpec
=============================================================================
