----------------------------- MODULE LoginGuard -----------------------------
(***************************************************************************)
(* What slows guessing down: the rate limiter of internal/auth/limiter.go  *)
(* and the TOTP step tracking of Login, VerifyTOTP and DisableTOTP.        *)
(*                                                                         *)
(* One limiter serves two kinds of keys (authLimiter in router.go): a      *)
(* client address goes through Allow before a request is handled, an       *)
(* account's login goes through IsLocked before and RecordFailure or Reset *)
(* after its password check.  A call of the limiter is one step (rl.mu); a *)
(* login takes several, with the user row read in between.                 *)
(***************************************************************************)
EXTENDS Integers, FiniteSets

CONSTANTS
    Ips,           \* client addresses, keys of Allow
    Logins,        \* address and e-mail pairs, keys of a login
    Callers,          \* concurrent logins and TOTP enrolments of one user
    MaxAttempts,   \* failures until a lock
    Window,        \* windowDur
    Lockout,       \* lockoutDur
    Capacity,      \* maxEntries
    MaxTime,       \* bound on the clock; zero is time.Time{}
    MaxSecrets     \* bound on TOTP enrolments

ASSUME LoginGuardAssumption ==
    /\ Ips \cap Logins = {}
    /\ IsFiniteSet(Callers)
    /\ MaxAttempts \in Nat \ {0, 1}     \* router.go: 5 and more
    /\ Capacity \in Nat \ {0}
    /\ Window \in Nat /\ Lockout \in Nat /\ Window < Lockout     \* 1 and 2 to 5 minutes
    /\ MaxTime \in Nat \ {0} /\ MaxSecrets \in Nat

VARIABLES
    now,        \* the clock
    attempts,   \* key -> attemptRecord, for the keys the map holds
    totp,       \* TOTP columns of the user: secret (0: disabled) and last used step
    call,        \* logins and enrolments in progress
    passes,     \* history: requests let through, per address and stretch of time
    guesses,    \* history: failed logins, per key and stretch of time
    evicted,    \* history: keys that were evicted at capacity
    accepted,   \* history: codes accepted, as secret and step
    replayed,   \* history: a code was accepted again
    excused     \* history: accesses of the TOTP columns overlapped, a write failed, or a
                \* secret was enrolled again

limiter == <<attempts, passes, guesses, evicted>>
second == <<totp, accepted, replayed, excused>>
guardVars == <<now, limiter, second, call>>

LimiterKeys == Ips \cup Logins
Ages == 0..Window
CodeSteps == 0..(MaxTime + 1)
Secrets == 0..MaxSecrets

AttemptRecord == [fails : Nat, locked : 0..MaxTime, updated : 1..MaxTime]

(* A history tells, for every age, how much happened within that age of    *)
(* now; it counts up to Enough.                                            *)
Enough == MaxAttempts + Cardinality(Callers) + 1
None == [a \in Ages |-> 0]
Count(k, h) ==
    IF k \in evicted' THEN None ELSE [a \in Ages |-> IF h[a] < Enough THEN h[a] + 1 ELSE h[a]]
Older(h) == [a \in Ages |-> IF a = 0 THEN 0 ELSE h[a - 1]]

Call == [pc : {"idle", "read", "verify", "record", "reset", "enrolled"},
         key : Logins \cup {""}, secret : Secrets, step : CodeSteps]

NoCall == [pc |-> "idle", key |-> "", secret |-> 0, step |-> 0]

GuardTypeOK ==
    /\ now \in 1..MaxTime
    /\ DOMAIN attempts \subseteq LimiterKeys
    /\ \A k \in DOMAIN attempts : attempts[k] \in AttemptRecord
    /\ totp \in [secret : Secrets, last : CodeSteps]
    /\ call \in [Callers -> Call]

GuardInit ==
    /\ now = 1
    /\ attempts = << >>
    /\ totp = [secret |-> 0, last |-> 0]
    /\ call = [p \in Callers |-> NoCall]
    /\ passes = [k \in Ips |-> None]
    /\ guesses = [k \in Logins |-> None]
    /\ evicted = {} /\ accepted = {} /\ replayed = FALSE /\ excused = FALSE

Tick ==
    /\ now < MaxTime
    /\ now' = now + 1
    /\ passes' = [k \in Ips |-> Older(passes[k])]
    /\ guesses' = [k \in Logins |-> Older(guesses[k])]
    /\ UNCHANGED <<attempts, evicted, second, call>>

(***************************************************************************)
(* The limiter's map.                                                      *)
(***************************************************************************)
Keep(S) == [k \in DOMAIN attempts \cap S |-> attempts[k]]
Put(m, k, rec) == [x \in DOMAIN m \cup {k} |-> IF x = k THEN rec ELSE m[x]]

Locked(k) == k \in DOMAIN attempts /\ attempts[k].locked # 0

LockHolds(k) == Locked(k) /\ attempts[k].locked + Lockout > now

Lapsed(k) == k \notin DOMAIN attempts \/ now - attempts[k].updated > Window

(* What CleanupExpired and ensureCapacityLocked remove.                    *)
Expired == {k \in DOMAIN attempts :
              IF Locked(k) THEN now - attempts[k].locked > Lockout ELSE Lapsed(k)}

CleanupExpired ==
    /\ Expired # {}
    /\ attempts' = Keep(LimiterKeys \ Expired)
    /\ UNCHANGED <<now, passes, guesses, evicted, second, call>>

(* ensureCapacityLocked: the keys it may leave, whichever the map's random *)
(* order makes it evict.                                                   *)
EnsureCapacity ==
    LET held == DOMAIN attempts
        live == held \ Expired
        evict == IF Capacity \div 10 < 1 THEN 1 ELSE Capacity \div 10
    IN IF Cardinality(held) < Capacity THEN {held}
       ELSE IF Cardinality(live) < Capacity THEN {live}
       ELSE {left \in SUBSET live : Cardinality(live \ left) = evict}

(* A new record, after room has been made for it.                          *)
StartOver(k) ==
    \E left \in EnsureCapacity :
        /\ attempts' = Put(Keep(left), k, [fails |-> 1, locked |-> 0, updated |-> now])
        /\ evicted' = evicted \cup (DOMAIN attempts \ (left \cup Expired))

(* Allow on a record within its window: the verdict and the new record.    *)
Verdict(rec) ==
    CASE rec.locked # 0 /\ rec.locked + Lockout > now -> [ok |-> FALSE, rec |-> rec]
      [] rec.locked # 0 /\ rec.locked + Lockout <= now ->
            [ok |-> TRUE, rec |-> [fails |-> 1, locked |-> 0, updated |-> now]]
      [] rec.locked = 0 /\ rec.fails + 1 > MaxAttempts ->
            [ok |-> FALSE, rec |-> [fails |-> rec.fails + 1, locked |-> now, updated |-> now]]
      [] OTHER ->
            [ok |-> TRUE, rec |-> [fails |-> rec.fails + 1, locked |-> 0, updated |-> now]]

(* Allow, and the request it lets through.                                 *)
Allow(k) ==
    /\ IF Lapsed(k)
       THEN /\ StartOver(k)
            /\ passes' = [passes EXCEPT ![k] = Count(k, @)]
       ELSE LET v == Verdict(attempts[k])
            IN /\ attempts' = [attempts EXCEPT ![k] = v.rec]
               /\ UNCHANGED evicted
               /\ passes' = IF v.ok THEN [passes EXCEPT ![k] = Count(k, @)] ELSE passes
    /\ UNCHANGED <<now, guesses, second, call>>

(* Deliberately wrong variant (mutant): a failure never locks.             *)
RecordFailureNeverLocks(k) ==
    IF Lapsed(k) THEN StartOver(k)
    ELSE /\ attempts' = [attempts EXCEPT ![k] = [@ EXCEPT !.fails = @ + 1, !.updated = now]]
         /\ UNCHANGED evicted

(* The first failure of a window only opens a record.                      *)
RecordFailure(k) ==
    IF Lapsed(k) THEN StartOver(k)
    ELSE /\ attempts' = [attempts EXCEPT ![k] =
              [fails |-> @.fails + 1, updated |-> now,
               locked |-> IF @.fails + 1 >= MaxAttempts THEN now ELSE @.locked]]
         /\ UNCHANGED evicted

(***************************************************************************)
(* Login.  The key is checked, the user row is read, the password and the  *)
(* code are verified against that copy, the step is recorded.              *)
(***************************************************************************)
(* Deliberately wrong variant (mutant): the window is looked at first, as  *)
(* in Allow, so that a lock ends with it.                                  *)
IsLockedWindowFirst(p, k) ==
    /\ call[p].pc = "idle"
    /\ LockHolds(k) => Lapsed(k)
    /\ attempts' = IF Lapsed(k) THEN Keep(LimiterKeys \ {k}) ELSE attempts
    /\ call' = [call EXCEPT ![p] = [NoCall EXCEPT !.pc = "read", !.key = k]]
    /\ UNCHANGED <<now, passes, guesses, evicted, second>>

(* IsLocked lets the login go on and drops a record that has run out.      *)
IsLocked(p, k) ==
    /\ call[p].pc = "idle"
    /\ ~LockHolds(k)
    /\ attempts' = IF Locked(k) \/ Lapsed(k) THEN Keep(LimiterKeys \ {k}) ELSE attempts
    /\ call' = [call EXCEPT ![p] = [NoCall EXCEPT !.pc = "read", !.key = k]]
    /\ UNCHANGED <<now, passes, guesses, evicted, second>>

(* Between reading the TOTP columns and writing them.                      *)
Tracking(q) == call[q].pc \in {"verify", "record", "enrolled"}

Excuse(b) ==
    /\ excused' = (excused \/ b)
    /\ accepted' = IF excused' THEN {} ELSE accepted

GetUserByEmail(p) ==
    /\ call[p].pc = "read"
    /\ call' = [call EXCEPT ![p].pc = "verify", ![p].secret = totp.secret, ![p].step = totp.last]
    /\ Excuse(\E q \in Callers \ {p} : Tracking(q))
    /\ UNCHANGED <<now, limiter, totp, replayed>>

(* An unknown user, a wrong password, an inactive user, an undecryptable   *)
(* secret or a wrong code.                                                 *)
LoginFails(p) ==
    /\ call[p].pc = "verify"
    /\ RecordFailure(call[p].key)
    /\ guesses' = [guesses EXCEPT ![call[p].key] = Count(call[p].key, @)]
    /\ call' = [call EXCEPT ![p] = NoCall]
    /\ UNCHANGED <<now, passes, second>>

(* The code is still missing, or the request is cancelled while it waits   *)
(* for the Argon2 semaphore.                                               *)
LoginStops(p) ==
    /\ call[p].pc \in {"read", "verify"}
    /\ call' = [call EXCEPT ![p] = NoCall]
    /\ UNCHANGED <<now, limiter, second>>

(* Deliberately wrong variant (mutant): the last used step is still good.  *)
ValidateTOTPCodeAgain(step, lastUsedStep) == step \in (now - 1)..(now + 1) /\ step >= lastUsedStep

ValidateTOTPCodeWithStep(step, lastUsedStep) ==
    step \in (now - 1)..(now + 1) /\ step > lastUsedStep

(* The history of codes ends where it would no longer say anything.        *)
AcceptCode(secret, step) ==
    /\ accepted' = IF excused' THEN {} ELSE accepted \cup {<<secret, step>>}
    /\ replayed' = (replayed \/ <<secret, step>> \in accepted)

LoginWithCode(p, step) ==
    /\ call[p].pc = "verify"
    /\ call[p].secret # 0
    /\ ValidateTOTPCodeWithStep(step, call[p].step)
    /\ UNCHANGED excused
    /\ AcceptCode(call[p].secret, step)
    /\ call' = [call EXCEPT ![p].pc = "record", ![p].step = step]
    /\ UNCHANGED <<now, limiter, totp>>

LoginWithoutTOTP(p) ==
    /\ call[p].pc = "verify"
    /\ call[p].secret = 0
    /\ call' = [call EXCEPT ![p].pc = "reset"]
    /\ UNCHANGED <<now, limiter, second>>

(* UpdateUserTOTPLastUsedStep; its failure is only logged.                 *)
UpdateUserTOTPLastUsedStep(p, next) ==
    /\ \/ /\ totp' = [totp EXCEPT !.last = call[p].step]
          /\ Excuse(FALSE)
       \/ /\ Excuse(TRUE)
          /\ UNCHANGED totp
    /\ call' = [call EXCEPT ![p] = next]
    /\ UNCHANGED <<now, limiter, replayed>>

RecordStep(p) ==
    /\ call[p].pc = "record"
    /\ UpdateUserTOTPLastUsedStep(p, [call[p] EXCEPT !.pc = "reset"])

(* The login has succeeded: its key is forgotten.                          *)
Reset(p) ==
    /\ call[p].pc = "reset"
    /\ attempts' = Keep(LimiterKeys \ {call[p].key})
    /\ guesses' = [guesses EXCEPT ![call[p].key] = None]
    /\ call' = [call EXCEPT ![p] = NoCall]
    /\ UNCHANGED <<now, passes, evicted, second>>

(***************************************************************************)
(* Enrolment: VerifyTOTP stores the new secret with last used step zero in *)
(* one statement and the step of the code just entered in the next one.    *)
(* The secret comes back from the client, so it may be enrolled again.     *)
(***************************************************************************)
VerifyTOTP(p, secret, step) ==
    /\ call[p].pc = "idle"
    /\ ValidateTOTPCodeWithStep(step, 0)
    /\ totp' = [secret |-> secret, last |-> 0]
    /\ excused' = (excused \/ (\E q \in Callers : Tracking(q))
                           \/ (\E s \in CodeSteps : <<secret, s>> \in accepted))
    /\ accepted' = IF excused' THEN {} ELSE accepted \cup {<<secret, step>>}
    /\ call' = [call EXCEPT ![p] = [NoCall EXCEPT !.pc = "enrolled", !.step = step]]
    /\ UNCHANGED <<now, limiter, replayed>>

EnrolmentStep(p) ==
    /\ call[p].pc = "enrolled"
    /\ UpdateUserTOTPLastUsedStep(p, NoCall)

DisableTOTP ==
    /\ totp.secret # 0
    /\ totp' = [secret |-> 0, last |-> 0]
    /\ Excuse(\E q \in Callers : Tracking(q))
    /\ UNCHANGED <<now, limiter, replayed, call>>

GuardNext ==
    \/ Tick \/ CleanupExpired \/ DisableTOTP
    \/ \E k \in Ips : Allow(k)
    \/ \E p \in Callers :
          \/ \E k \in Logins : IsLocked(p, k)
          \/ GetUserByEmail(p) \/ LoginFails(p) \/ LoginStops(p)
          \/ LoginWithoutTOTP(p) \/ RecordStep(p) \/ Reset(p) \/ EnrolmentStep(p)
          \/ \E step \in CodeSteps : LoginWithCode(p, step)
          \/ \E secret \in Secrets \ {0}, step \in CodeSteps : VerifyTOTP(p, secret, step)

GuardSpec == GuardInit /\ [][GuardNext]_guardVars

(***************************************************************************)
(* Properties.                                                             *)
(***************************************************************************)
(* Allow bounds the rate: in any stretch of time as long as a window, an   *)
(* address that was not evicted gets at most MaxAttempts requests through. *)
RateIsBounded == \A k \in Ips \ evicted : passes[k][Window] <= MaxAttempts

(* Logins that are already past IsLocked can fail after the lock, but no   *)
(* others: a stretch as long as a window sees at most MaxAttempts failures *)
(* and one more for every further login in flight.                         *)
GuessesAreBounded ==
    \A k \in Logins \ evicted : guesses[k][Window] < MaxAttempts + Cardinality(Callers)

(* Both limits hold, on records that are well formed.                      *)
AttemptsAreBounded == GuardTypeOK /\ RateIsBounded /\ GuessesAreBounded

(* A login's lock lasts Lockout: it ends earlier only by a login that      *)
(* succeeds, by eviction, or by a failure that was in flight for longer    *)
(* than a window.                                                          *)
LockIsKept ==
    [][\A k \in Logins : LockHolds(k) /\ ~(k \in DOMAIN attempts' /\ attempts'[k].locked # 0) =>
          \/ now' > now
          \/ k \in evicted'
          \/ \E p \in Callers : call[p].key = k /\ (call[p].pc = "reset" \/ (call[p].pc = "verify" /\ Lapsed(k)))]_guardVars

(* One code, one login: a code is accepted twice only when two requests    *)
(* used the TOTP columns at once, the step could not be recorded, or the   *)
(* same secret was enrolled again.                                         *)
CodeWorksOnce == replayed => excused
=============================================================================
