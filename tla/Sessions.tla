------------------------------ MODULE Sessions ------------------------------
(***************************************************************************)
(* Sessions of internal/auth/service.go: access tokens bound to a user's   *)
(* token_version, single-use refresh tokens grouped in rotation families,  *)
(* and the event streams a session holds open.                             *)
(*                                                                         *)
(* A request is a process that moves through the statements of its         *)
(* handler.  Each statement is one step and sees the rows committed when   *)
(* it starts (PostgreSQL's READ COMMITTED, the level RunTx opens its       *)
(* transactions at); a row written by an open transaction is locked, and   *)
(* another writer of that row waits for the commit or the rollback.        *)
(***************************************************************************)
EXTENDS Naturals, FiniteSets

CONSTANTS
    Users,          \* accounts of the instance
    Tokens,         \* supply of refresh tokens; a family is named by its first token
    Reqs,           \* concurrent HTTP requests
    Roles,          \* roles an account can have
    NoToken,        \* "no token": the parent of a family's first token
    NoUser,         \* the user of a request that is not running
    MaxVersion,     \* bound on token_version
    MaxWork,        \* bound on the tokens issued and a user's token_version together
    MaxPassword     \* password changes of a user that are told apart

ASSUME SessionsAssumption ==
    /\ NoToken \notin Tokens
    /\ NoUser \notin Users
    /\ MaxVersion \in Nat /\ MaxWork \in Nat
    /\ MaxPassword \in Nat
    /\ Users # {} /\ Roles # {}

VARIABLES
    users,   \* users: role, status, token_version, and the password generation
    rt,      \* refresh_tokens rows
    access,  \* unexpired access tokens held by clients (claims)
    req      \* the requests in progress

vars == <<users, rt, access, req>>

(* Of a status only matters whether it is ACTIVE; INVITED is treated like  *)
(* DEACTIVATED (module Accounts tells them apart).                         *)
Statuses == {"ACTIVE", "DEACTIVATED"}

User == [role : Roles, status : Statuses, ver : Nat, pw : Nat]

(* A refresh_tokens row.  st is "free" before the token is generated and   *)
(* "gone" once the row is deleted; parent is the token it was rotated from.*)
Row == [st : {"free", "row", "gone"}, user : Users, fam : Tokens,
        used : BOOLEAN, expired : BOOLEAN, parent : Tokens \cup {NoToken}]

(* The claims of a signed access token, and the password generation that   *)
(* held when its user row was read.                                        *)
Claims == [user : Users, role : Roles, ver : Nat, pw : Nat]

ASSUME NoClaimsAssumption == NoUser \notin Claims

(* pc: the statement the request executes next.                            *)
Phases == {"idle", "issue", "consume", "loadUser", "commit",
           "replay", "replayWait", "replayCommit",
           "authed", "logoutAllWait", "logoutAllCommit",
           "close", "closeAgain", "streaming"}

Rotating  == {"loadUser", "commit"}                  \* holds the row of its token
Deleting  == {"replayWait", "logoutAllWait"}         \* holds the rows of held
Revoking  == {"replayCommit", "logoutAllCommit"}     \* those and the user's row

(* snap: the rows a DELETE found when it began; held: those of them it has *)
(* dealt with.                                                             *)
Req == [pc : Phases, user : Users \cup {NoUser}, tok : Tokens \cup {NoToken},
        claims : Claims \cup {NoUser}, snap : SUBSET Tokens, held : SUBSET Tokens]

Idle == [pc |-> "idle", user |-> NoUser, tok |-> NoToken, claims |-> NoUser,
         snap |-> {}, held |-> {}]

(* issueAccessToken on a user row that has been read: GenerateAccessToken. *)
issueAccessToken(u) ==
    [user |-> u, role |-> users[u].role, ver |-> users[u].ver, pw |-> users[u].pw]

(***************************************************************************)
(* Rows and their locks.                                                   *)
(***************************************************************************)
Rows == {t \in Tokens : rt[t].st = "row"}

(* A row consumed by an open rotation or deleted by an open revocation is  *)
(* locked until that transaction ends.                                     *)
Locked(t) ==
    /\ rt[t].st = "row"
    /\ \E p \in Reqs : \/ req[p].pc \in Rotating /\ req[p].tok = t
                       \/ req[p].pc \in Deleting \cup Revoking /\ t \in req[p].held

(* So is the user's row from IncrementUserTokenVersion to the end.         *)
UserLocked(u) == \E p \in Reqs : req[p].pc \in Revoking /\ req[p].user = u

(* Tokens are random, so their names carry no meaning: the first unused    *)
(* name stands for the next one generated.                                 *)
Fresh(t) == rt[t].st = "free" /\ t = CHOOSE s \in Tokens : rt[s].st = "free"

Usable(t) == rt[t].st = "row" /\ ~rt[t].used

Valid(c) == c.ver = users[c.user].ver

(* Bounds, tested where a request starts so that one that runs never waits *)
(* for them: a token is left for every request that may insert one, a      *)
(* version for every request that may bump it, and MaxWork bounds both     *)
(* together.                                                               *)
Inserting == {p \in Reqs : req[p].pc \in {"issue", "consume"} \cup Rotating}
Bumping(u) == {p \in Reqs : req[p].user = u /\ req[p].pc \in {"replay", "authed"} \cup Deleting \cup Revoking}

Issued == Cardinality({t \in Tokens : rt[t].st # "free"}) + Cardinality(Inserting)
Bumped(u) == users[u].ver + Cardinality(Bumping(u))

TokenLeft == Issued < Cardinality(Tokens) /\ \A u \in Users : Issued + Bumped(u) < MaxWork
VersionLeft(u) == Bumped(u) < MaxVersion /\ Issued + Bumped(u) < MaxWork

(***************************************************************************)
(* Initial state: accounts exist, nobody is logged in.                     *)
(***************************************************************************)
Init ==
    /\ users \in [Users -> [role : Roles, status : {"ACTIVE"}, ver : {0}, pw : {0}]]
    /\ rt = [t \in Tokens |-> [st |-> "free", user |-> CHOOSE u \in Users : TRUE,
                               fam |-> t, used |-> FALSE, expired |-> FALSE,
                               parent |-> NoToken]]
    /\ access = {}
    /\ req = [p \in Reqs |-> Idle]

CreateRefreshToken(t, u, f, par) ==
    [st |-> "row", user |-> u, fam |-> f, used |-> FALSE, expired |-> FALSE,
     parent |-> par]

DeleteRefreshTokens(S) ==
    [t \in Tokens |-> IF t \in S /\ rt[t].st = "row" THEN [rt[t] EXCEPT !.st = "gone"]
                      ELSE rt[t]]

(***************************************************************************)
(* Login with correct credentials.  The user row is read once; the tokens  *)
(* are issued from that copy after the Argon2 and TOTP checks.             *)
(***************************************************************************)
LoginRead(p, u) ==
    /\ req[p].pc = "idle"
    /\ TokenLeft
    /\ users[u].status = "ACTIVE"
    /\ req' = [req EXCEPT ![p] = [Idle EXCEPT !.pc = "issue", !.user = u,
                                               !.claims = issueAccessToken(u)]]
    /\ UNCHANGED <<users, rt, access>>

LoginIssue(p, t) ==
    /\ req[p].pc = "issue"
    /\ Fresh(t)
    /\ rt' = [rt EXCEPT ![t] = CreateRefreshToken(t, req[p].user, t, NoToken)]
    /\ access' = access \cup {req[p].claims}
    /\ req' = [req EXCEPT ![p] = Idle]
    /\ UNCHANGED users

(***************************************************************************)
(* RefreshToken: look the row up, then consume it and insert its           *)
(* successor in one transaction.                                           *)
(***************************************************************************)
RefreshLookup(p, t) ==
    /\ req[p].pc = "idle"
    /\ rt[t].st = "row"
    /\ ~rt[t].expired
    /\ IF rt[t].used THEN VersionLeft(rt[t].user) ELSE TokenLeft
    /\ req' = [req EXCEPT ![p] = [Idle EXCEPT
                  !.pc = IF rt[t].used THEN "replay" ELSE "consume",
                  !.user = rt[t].user, !.tok = t]]
    /\ UNCHANGED <<users, rt, access>>

(* Mutant: the UPDATE lost its used_at IS NULL condition.                  *)
ConsumeRefreshTokenUnguarded(p) ==
    LET t == req[p].tok
    IN /\ req[p].pc = "consume"
       /\ ~Locked(t)
       /\ req' = IF rt[t].st = "row" /\ ~rt[t].expired
                 THEN [req EXCEPT ![p].pc = "loadUser"]
                 ELSE [req EXCEPT ![p] = Idle]
       /\ UNCHANGED <<users, rt, access>>

ConsumeRefreshToken(p) ==
    LET t == req[p].tok
    IN /\ req[p].pc = "consume"
       /\ ~Locked(t)
       /\ req' = IF Usable(t) /\ ~rt[t].expired
                 THEN [req EXCEPT ![p].pc = "loadUser"]
                 ELSE [req EXCEPT ![p] = Idle]
       /\ UNCHANGED <<users, rt, access>>

(* Mutant: the status is checked after the consumption has committed.      *)
RefreshLoadUserAfterCommit(p) ==
    LET u == req[p].user
    IN /\ req[p].pc = "loadUser"
       /\ IF users[u].status = "ACTIVE"
          THEN /\ req' = [req EXCEPT ![p] = [@ EXCEPT !.pc = "commit", !.claims = issueAccessToken(u)]]
               /\ UNCHANGED rt
          ELSE /\ req' = [req EXCEPT ![p] = Idle]
               /\ rt' = [rt EXCEPT ![req[p].tok].used = TRUE]
       /\ UNCHANGED <<users, access>>

(* Mutant: the transaction of an inactive user is never rolled back.       *)
RefreshLoadUserLeavesTxOpen(p) ==
    LET u == req[p].user
    IN /\ req[p].pc = "loadUser"
       /\ users[u].status = "ACTIVE"
       /\ req' = [req EXCEPT ![p] = [@ EXCEPT !.pc = "commit", !.claims = issueAccessToken(u)]]
       /\ UNCHANGED <<users, rt, access>>

RefreshLoadUser(p) ==
    LET u == req[p].user
    IN /\ req[p].pc = "loadUser"
       /\ req' = IF users[u].status = "ACTIVE"
                 THEN [req EXCEPT ![p] = [@ EXCEPT !.pc = "commit", !.claims = issueAccessToken(u)]]
                 ELSE [req EXCEPT ![p] = Idle]
       /\ UNCHANGED <<users, rt, access>>

(* Mutant: the successor is inserted but the old token is not spent.       *)
RefreshCommitKeepsOld(p, t) ==
    LET old == req[p].tok
    IN /\ req[p].pc = "commit"
       /\ Fresh(t)
       /\ rt' = [rt EXCEPT ![t] = CreateRefreshToken(t, rt[old].user, rt[old].fam, old)]
       /\ access' = access \cup {req[p].claims}
       /\ req' = [req EXCEPT ![p] = Idle]
       /\ UNCHANGED users

RefreshCommit(p, t) ==
    LET old == req[p].tok
    IN /\ req[p].pc = "commit"
       /\ Fresh(t)
       /\ rt' = [rt EXCEPT ![old].used = TRUE,
                           ![t] = CreateRefreshToken(t, rt[old].user, rt[old].fam, old)]
       /\ access' = access \cup {req[p].claims}
       /\ req' = [req EXCEPT ![p] = Idle]
       /\ UNCHANGED users

(***************************************************************************)
(* handleReplay: delete the family and bump token_version in one           *)
(* transaction, then close the user's streams.  A DELETE acts on the rows  *)
(* its statement saw.  It takes them one by one, in the order of whatever  *)
(* index it scans, waits for each that is locked and keeps each it has     *)
(* taken locked.                                                           *)
(***************************************************************************)
(* Mutant: only the presented token is deleted, not its family.            *)
ReplayDeletePresented(p) ==
    /\ req[p].pc = "replay"
    /\ req' = [req EXCEPT ![p] = [@ EXCEPT !.pc = "replayWait", !.snap = {req[p].tok}, !.held = {}]]
    /\ UNCHANGED <<users, rt, access>>

ReplayDelete(p) ==
    /\ req[p].pc = "replay"
    /\ req' = [req EXCEPT ![p] = [@ EXCEPT
                  !.pc = "replayWait",
                  !.snap = {t \in Rows : rt[t].fam = rt[req[p].tok].fam},
                  !.held = {}]]
    /\ UNCHANGED <<users, rt, access>>

DeleteRow(p, t) ==
    /\ req[p].pc \in Deleting
    /\ t \in req[p].snap \ req[p].held
    /\ ~Locked(t)
    /\ req' = [req EXCEPT ![p].held = @ \cup {t}]
    /\ UNCHANGED <<users, rt, access>>

IncrementUserTokenVersion(u) == [users EXCEPT ![u].ver = @ + 1]

(* The second statement of both transactions: it waits for the user's row. *)
BumpVersion(p) ==
    /\ req[p].pc \in Deleting
    /\ req[p].held = req[p].snap
    /\ ~UserLocked(req[p].user)
    /\ req' = [req EXCEPT ![p].pc = IF @ = "replayWait" THEN "replayCommit" ELSE "logoutAllCommit"]
    /\ UNCHANGED <<users, rt, access>>

(* Mutant: the rows are deleted without the version bump.                  *)
RevokeCommitWithoutBump(p, next) ==
    /\ rt' = DeleteRefreshTokens(req[p].snap)
    /\ req' = [req EXCEPT ![p].pc = next]
    /\ UNCHANGED <<users, access>>

(* What the two statements wrote becomes visible.                          *)
RevokeCommit(p, next) ==
    /\ rt' = DeleteRefreshTokens(req[p].snap)
    /\ users' = IncrementUserTokenVersion(req[p].user)
    /\ req' = [req EXCEPT ![p].pc = next]
    /\ UNCHANGED access

ReplayCommit(p) == req[p].pc = "replayCommit" /\ RevokeCommit(p, "close")

(* Hub.RevokeUser: every stream registered for the user ends.              *)
RevokeUser(p) ==
    /\ req[p].pc \in {"close", "closeAgain"}
    /\ req' = [q \in Reqs |->
                 CASE q = p -> IF req[p].pc = "closeAgain"
                               THEN [req[p] EXCEPT !.pc = "close"] ELSE Idle
                   [] req[q].pc = "streaming" /\ req[q].user = req[p].user -> Idle
                   [] OTHER -> req[q]]
    /\ UNCHANGED <<users, rt, access>>

(***************************************************************************)
(* Authenticated requests.  AuthMiddleware compares the claims with the    *)
(* stored token_version; the handler runs later, on the same claims.       *)
(***************************************************************************)
AuthMiddleware(p, c) ==
    /\ req[p].pc = "idle"
    /\ Valid(c)
    /\ VersionLeft(c.user)
    /\ req' = [req EXCEPT ![p] = [Idle EXCEPT !.pc = "authed", !.user = c.user,
                                               !.claims = c]]
    /\ UNCHANGED <<users, rt, access>>

(* RevokeAllSessions, then the handler's own Hub.RevokeUser.               *)
LogoutAllDelete(p) ==
    /\ req[p].pc = "authed"
    /\ req' = [req EXCEPT ![p] = [@ EXCEPT
                  !.pc = "logoutAllWait",
                  !.snap = {t \in Rows : rt[t].user = req[p].user},
                  !.held = {}]]
    /\ UNCHANGED <<users, rt, access>>

LogoutAllCommit(p) == req[p].pc = "logoutAllCommit" /\ RevokeCommit(p, "closeAgain")

(* /events/stream: ServeHTTPFor registers the stream.                      *)
OpenStream(p) ==
    /\ req[p].pc = "authed"
    /\ req' = [req EXCEPT ![p].pc = "streaming"]
    /\ UNCHANGED <<users, rt, access>>

(* VerifyTOTP and DisableTOTP end with a version bump whose error is       *)
(* ignored; neither touches refresh tokens or streams.                     *)
ToggleTOTP(p) ==
    /\ req[p].pc = "authed"
    /\ \/ ~UserLocked(req[p].user) /\ users' = IncrementUserTokenVersion(req[p].user)
       \/ UNCHANGED users
    /\ req' = [req EXCEPT ![p] = Idle]
    /\ UNCHANGED <<rt, access>>

ChangePassword(p) ==
    /\ req[p].pc = "authed"
    /\ ~UserLocked(req[p].user)
    /\ users' = [users EXCEPT ![req[p].user].pw = IF @ < MaxPassword THEN @ + 1 ELSE @]
    /\ req' = [req EXCEPT ![p] = Idle]
    /\ UNCHANGED <<rt, access>>

(***************************************************************************)
(* Logout deletes the presented token, in one statement that waits for the *)
(* row.                                                                    *)
(***************************************************************************)
RevokeRefreshToken(t) ==
    /\ rt[t].st = "row"
    /\ ~Locked(t)
    /\ rt' = DeleteRefreshTokens({t})
    /\ UNCHANGED <<users, access, req>>

(* A request ends early: a failed statement (the transaction rolls back),  *)
(* a cancelled context, a handler without effect here, a closed stream.    *)
(* Once a revocation has committed nothing on its way to RevokeUser fails. *)
RequestEnds(p) ==
    /\ req[p].pc \notin {"idle", "close", "closeAgain"}
    /\ req' = [req EXCEPT ![p] = Idle]
    /\ UNCHANGED <<users, rt, access>>

(* Two deletions that wait for each other's rows: one of them is aborted   *)
(* by PostgreSQL (deadlock_timeout) and its transaction rolls back.        *)
WaitsForEachOther(D) ==
    \A p \in D :
        /\ req[p].pc \in Deleting /\ req[p].held # req[p].snap
        /\ \A t \in req[p].snap \ req[p].held :
               rt[t].st = "row" /\ \E q \in D : t \in req[q].held

DeadlockDetected(p) ==
    /\ \E D \in SUBSET Reqs : p \in D /\ WaitsForEachOther(D)
    /\ req' = [req EXCEPT ![p] = Idle]
    /\ UNCHANGED <<users, rt, access>>

(***************************************************************************)
(* The server stops and starts again: requests, open transactions and      *)
(* streams are lost, the database and the clients' tokens are not.         *)
(***************************************************************************)
Restart ==
    /\ req' = [p \in Reqs |-> Idle]
    /\ UNCHANGED <<users, rt, access>>

(***************************************************************************)
(* The rest of the system: administrators and invite acceptance write role *)
(* and status (module Accounts has the handlers), and time passes.         *)
(***************************************************************************)
AccountWrite(u) ==
    /\ ~UserLocked(u)
    /\ \/ \E r \in Roles : users' = [users EXCEPT ![u].role = r]
       \/ \E s \in Statuses : users' = [users EXCEPT ![u].status = s]
    /\ UNCHANGED <<rt, access, req>>

ExpireRefreshToken(t) ==
    /\ rt[t].st = "row" /\ ~rt[t].expired
    /\ rt' = [rt EXCEPT ![t].expired = TRUE]
    /\ UNCHANGED <<users, access, req>>

ExpireAccessToken(c) ==
    /\ access' = access \ {c}
    /\ UNCHANGED <<users, rt, req>>

(* The statements of a running handler.  A stream is held open, not run.   *)
Handler(p) ==
    \/ \E t \in Tokens : LoginIssue(p, t) \/ RefreshCommit(p, t)
    \/ ConsumeRefreshToken(p)
    \/ RefreshLoadUser(p)
    \/ ReplayDelete(p)
    \/ \E t \in Tokens : DeleteRow(p, t)
    \/ BumpVersion(p)
    \/ ReplayCommit(p)
    \/ RevokeUser(p)
    \/ LogoutAllDelete(p)
    \/ LogoutAllCommit(p)
    \/ OpenStream(p)
    \/ ToggleTOTP(p)
    \/ ChangePassword(p)

Arrival(p) ==
    \/ \E u \in Users : LoginRead(p, u)
    \/ \E t \in Tokens : RefreshLookup(p, t)
    \/ \E c \in access : AuthMiddleware(p, c)

Environment ==
    \/ \E t \in Tokens : RevokeRefreshToken(t) \/ ExpireRefreshToken(t)
    \/ \E u \in Users : AccountWrite(u)
    \/ \E c \in access : ExpireAccessToken(c)
    \/ Restart

Next ==
    \/ \E p \in Reqs : Handler(p) \/ Arrival(p) \/ RequestEnds(p) \/ DeadlockDetected(p)
    \/ Environment

Spec == Init /\ [][Next]_vars

(* Running handlers keep running, and PostgreSQL grants a row lock in the  *)
(* order of its queue, so a statement that can proceed again and again     *)
(* proceeds (strong fairness).  PostgreSQL looks for deadlocks whenever a  *)
(* statement has waited for a while (weak fairness).  Nothing makes a      *)
(* request arrive, fail or be cancelled.                                   *)
FairSpec ==
    /\ Spec
    /\ \A p \in Reqs : SF_vars(Handler(p))
    /\ WF_vars(\E p \in Reqs : DeadlockDetected(p))

(***************************************************************************)
(* Properties.                                                             *)
(***************************************************************************)
TypeOK ==
    /\ users \in [Users -> User]
    /\ rt \in [Tokens -> Row]
    /\ access \subseteq Claims
    /\ req \in [Reqs -> Req]

(* Rotation is linear, whatever requests race on the same cookie: a family *)
(* has at most one token that can still be exchanged, and a token was      *)
(* exchanged for at most one successor (ConsumeRefreshToken's used_at IS   *)
(* NULL condition under the row lock).                                     *)
RotationIsLinear ==
    /\ \A t, s \in Tokens : Usable(t) /\ Usable(s) /\ rt[t].fam = rt[s].fam => t = s
    /\ \A t, s \in Tokens : rt[t].parent = rt[s].parent /\ rt[t].parent # NoToken => t = s

(* No rotation is half applied: a spent token always has the successor it  *)
(* was exchanged for, of the same family and user.  Otherwise the client's *)
(* next attempt with the old cookie would be taken for a theft.            *)
SpentHasSuccessor ==
    \A t \in Tokens : rt[t].used =>
        \E s \in Tokens : /\ rt[s].parent = t
                          /\ rt[s].fam = rt[t].fam
                          /\ rt[s].user = rt[t].user

(* When a revocation commits, every access token of the user is dead: the  *)
(* ones clients hold and the ones a login, a refresh or an authenticated   *)
(* request still carries in memory from an earlier read of the user row.   *)
RevocationKillsAccess ==
    [][\A p \in Reqs :
          req[p].pc \in Revoking /\ req'[p].pc \in {"close", "closeAgain"} =>
             \A c \in access \cup {req[q].claims : q \in {q \in Reqs : req[q].claims # NoUser}} :
                c.user = req[p].user => ~Valid(c)']_vars

(* A dead access token stays dead: no later step of any request brings its *)
(* token_version back.                                                     *)
DeadStaysDead == [][\A c \in access : ~Valid(c) => ~Valid(c)']_vars

(* Once logout-all or replay detection has committed, no token of a family *)
(* it revoked can be exchanged any more ("revokes every token in that      *)
(* family").                                                               *)
RevokedFamiliesAreDead ==
    \A p \in Reqs : req[p].pc \in {"close", "closeAgain"} =>
        \A t \in Tokens : Usable(t) => rt[t].fam \notin {rt[s].fam : s \in req[p].snap}

(* Rotation as promised: the rows of refresh_tokens, read as families and  *)
(* live tokens, only ever make the steps of RefreshFamily.                 *)
Families == INSTANCE RefreshFamily WITH
    Token <- Tokens,
    NoFamily <- NoToken,
    family <- [t \in Tokens |-> IF rt[t].st = "free" THEN NoToken ELSE rt[t].fam],
    live <- {t \in Tokens : Usable(t)}

RefinesRefreshFamily == Families!FamSpec

(* A revoked or logged-out family is never revived by a request that was   *)
(* already under way.                                                      *)
ClosedFamilyStaysClosed == Families!ClosedStaysClosed

(* Every request ends or becomes a stream, whatever rows a rotation, a     *)
(* replay's and a logout-all's DELETE hold and wait for: the only circles  *)
(* are among the rows of two DELETEs, which PostgreSQL breaks, and nobody  *)
(* waits for the user's row while holding what its owner waits for.        *)
EveryRequestEnds ==
    \A p \in Reqs : req[p].pc \notin {"idle", "streaming"} ~> req[p].pc \in {"idle", "streaming"}
=============================================================================
