--------------------------- MODULE SessionsProofs ---------------------------
(***************************************************************************)
(* Proofs about Sessions for any number of users, tokens and requests.     *)
(***************************************************************************)
EXTENDS Sessions, TLAPS

Holding(p) == req[p].pc \in Rotating

Takes(p) == req[p].pc \in Deleting \cup Revoking

(* What a request carries at each statement of its handler.                *)
RequestInv ==
    \A p \in Reqs :
        /\ req[p].pc # "idle" => req[p].user \in Users
        /\ req[p].pc \in {"issue", "commit", "authed", "streaming"} => req[p].claims \in Claims
        /\ req[p].pc \in {"consume", "loadUser", "commit", "replay"} => req[p].tok \in Tokens

(* A rotation in progress owns a token that can still be exchanged, and    *)
(* owns it alone: no other rotation and no deletion has its row.  A        *)
(* revocation commits when it has dealt with every row it found.           *)
LockInv ==
    /\ \A p \in Reqs : Holding(p) => Usable(req[p].tok)
    /\ \A p, q \in Reqs : Holding(p) /\ Holding(q) /\ req[p].tok = req[q].tok => p = q
    /\ \A p, q \in Reqs : Holding(p) /\ Takes(q) => req[p].tok \notin req[q].held
    /\ \A p \in Reqs : req[p].pc \in Revoking => req[p].held = req[p].snap

(* Lineage: an unissued token has no history, a family's first token has   *)
(* been issued, and a token's parent is spent and of the same family.      *)
LineageInv ==
    /\ \A t \in Tokens : rt[t].st = "free" => rt[t].parent = NoToken /\ ~rt[t].used
    /\ \A t \in Tokens : rt[t].st # "free" => rt[rt[t].fam].st # "free"
    /\ \A s \in Tokens : rt[s].parent # NoToken => rt[rt[s].parent].used

(* No claims are ahead of the stored token_version.                        *)
VersionInv ==
    /\ \A c \in access : c.ver <= users[c.user].ver
    /\ \A p \in Reqs : req[p].claims # NoUser => req[p].claims.ver <= users[req[p].claims.user].ver

RotationInv ==
    /\ LockInv
    /\ LineageInv
    /\ RotationIsLinear
    /\ SpentHasSuccessor

IndInv ==
    /\ TypeOK
    /\ RequestInv
    /\ RotationInv
    /\ VersionInv

(***************************************************************************)
(* Types.                                                                  *)
(***************************************************************************)

(* A fresh request, and the claims of a stored user, have their types.     *)
LEMMA RecordTypes ==
    ASSUME TypeOK
    PROVE  /\ Idle \in Req
           /\ \A u \in Users : issueAccessToken(u) \in Claims
           /\ \A S : DeleteRefreshTokens(S) \in [Tokens -> Row]
           /\ \A u \in Users : IncrementUserTokenVersion(u) \in [Users -> User]
  <1>1. Idle \in Req
    BY DEF Idle, Req, Phases
  <1>2. \A u \in Users : issueAccessToken(u) \in Claims
    BY DEF TypeOK, User, issueAccessToken, Claims
  <1>3. \A S : DeleteRefreshTokens(S) \in [Tokens -> Row]
    BY DEF TypeOK, Row, DeleteRefreshTokens
  <1>4. \A u \in Users : IncrementUserTokenVersion(u) \in [Users -> User]
    BY DEF TypeOK, User, IncrementUserTokenVersion
  <1> QED
    BY <1>1, <1>2, <1>3, <1>4

(* A request goes on to its next statement, with what it read on the way.  *)
LEMMA RequestMoves ==
    ASSUME TypeOK, NEW p \in Reqs, NEW pc \in Phases, NEW snap \in SUBSET Tokens
    PROVE  /\ [req EXCEPT ![p].pc = pc] \in [Reqs -> Req]
           /\ [req EXCEPT ![p] = [@ EXCEPT !.pc = pc, !.snap = snap, !.held = {}]] \in [Reqs -> Req]
           /\ [req EXCEPT ![p].held = snap] \in [Reqs -> Req]
  <1>1. req[p] \in Req
    BY DEF TypeOK
  <1>2. [req[p] EXCEPT !.pc = pc] \in Req
    BY <1>1 DEF Req
  <1>3. [req[p] EXCEPT !.pc = pc, !.snap = snap, !.held = {}] \in Req
    BY <1>1 DEF Req
  <1>4. [req[p] EXCEPT !.held = snap] \in Req
    BY <1>1 DEF Req
  <1> QED
    BY <1>2, <1>3, <1>4 DEF TypeOK

(* Every step of the session handlers keeps the types, and keeps each      *)
(* request carrying what its next statement uses.                          *)
LEMMA TypesInductive ==
    TypeOK /\ RequestInv /\ [Next]_vars => TypeOK' /\ RequestInv'
  <1> SUFFICES ASSUME TypeOK, RequestInv, [Next]_vars
               PROVE  TypeOK' /\ RequestInv'
    OBVIOUS
  <1>a. Idle \in Req /\ \A u \in Users : issueAccessToken(u) \in Claims
    BY RecordTypes
  <1>b. \A S : DeleteRefreshTokens(S) \in [Tokens -> Row]
    BY RecordTypes
  <1>c. \A u \in Users : IncrementUserTokenVersion(u) \in [Users -> User]
    BY RecordTypes
  <1>1. ASSUME NEW p \in Reqs, NEW u \in Users, LoginRead(p, u)
        PROVE  TypeOK' /\ RequestInv'
    BY <1>1, <1>a DEF LoginRead, Req, Phases, Idle, TypeOK, RequestInv
  <1>2. ASSUME NEW p \in Reqs, NEW t \in Tokens, LoginIssue(p, t)
        PROVE  TypeOK' /\ RequestInv'
    BY <1>2 DEF LoginIssue, Fresh, Req, Phases, Idle, Row, CreateRefreshToken, TypeOK, RequestInv
  <1>3. ASSUME NEW p \in Reqs, NEW t \in Tokens, RefreshLookup(p, t)
        PROVE  TypeOK' /\ RequestInv'
    BY <1>3 DEF RefreshLookup, Req, Phases, Idle, Row, TypeOK, RequestInv
  <1>4. ASSUME NEW p \in Reqs, ConsumeRefreshToken(p)
        PROVE  TypeOK' /\ RequestInv'
    <2>1. "loadUser" \in Phases
      BY DEF Phases
    <2>2. TypeOK'
      BY <1>4, <1>a, <2>1, RequestMoves DEF ConsumeRefreshToken, TypeOK
    <2>3. RequestInv'
      BY <1>4 DEF ConsumeRefreshToken, TypeOK, RequestInv, Req, Idle
    <2> QED
      BY <2>2, <2>3
  <1>5. ASSUME NEW p \in Reqs, RefreshLoadUser(p)
        PROVE  TypeOK' /\ RequestInv'
    <2>1. req[p] \in Req /\ req[p].user \in Users
      BY <1>5 DEF RefreshLoadUser, TypeOK, RequestInv
    <2>2. req' \in [Reqs -> Req]
      <3>1. [req[p] EXCEPT !.pc = "commit", !.claims = issueAccessToken(req[p].user)] \in Req
        BY <1>a, <2>1 DEF Req, Phases
      <3> QED
        BY <1>5, <1>a, <3>1 DEF RefreshLoadUser, TypeOK
    <2>3. TypeOK'
      BY <1>5, <2>2 DEF RefreshLoadUser, TypeOK
    <2>4. RequestInv'
      BY <1>5, <1>a, <2>1 DEF RefreshLoadUser, TypeOK, RequestInv, Req, Idle
    <2> QED
      BY <2>3, <2>4
  <1>6. ASSUME NEW p \in Reqs, NEW t \in Tokens, RefreshCommit(p, t)
        PROVE  TypeOK' /\ RequestInv'
    <2>1. req[p].tok \in Tokens /\ req[p].claims \in Claims
      BY <1>6 DEF RefreshCommit, Fresh, RequestInv
    <2>2. rt' \in [Tokens -> Row]
      <3>1. CreateRefreshToken(t, rt[req[p].tok].user, rt[req[p].tok].fam, req[p].tok) \in Row
        BY <2>1 DEF TypeOK, Row, CreateRefreshToken
      <3>2. [rt EXCEPT ![req[p].tok].used = TRUE] \in [Tokens -> Row]
        BY <2>1 DEF TypeOK, Row
      <3> QED
        BY <1>6, <3>1, <3>2 DEF RefreshCommit
    <2>3. access' \subseteq Claims /\ req' = [req EXCEPT ![p] = Idle] /\ users' = users
      BY <1>6, <2>1 DEF RefreshCommit, Fresh, TypeOK
    <2> QED
      BY <2>2, <2>3, <1>a DEF TypeOK, RequestInv, Idle
  <1>7. ASSUME NEW p \in Reqs, ReplayDelete(p)
        PROVE  TypeOK' /\ RequestInv'
    <2>1. "replayWait" \in Phases /\ {t \in Rows : rt[t].fam = rt[req[p].tok].fam} \in SUBSET Tokens
      BY DEF Phases, Rows
    <2>2. TypeOK'
      BY <1>7, <2>1, RequestMoves DEF ReplayDelete, TypeOK
    <2>3. RequestInv'
      BY <1>7 DEF ReplayDelete, TypeOK, RequestInv, Req
    <2> QED
      BY <2>2, <2>3
  <1>8. ASSUME NEW p \in Reqs, LogoutAllDelete(p)
        PROVE  TypeOK' /\ RequestInv'
    <2>1. "logoutAllWait" \in Phases /\ {t \in Rows : rt[t].user = req[p].user} \in SUBSET Tokens
      BY DEF Phases, Rows
    <2>2. TypeOK'
      BY <1>8, <2>1, RequestMoves DEF LogoutAllDelete, TypeOK
    <2>3. RequestInv'
      BY <1>8 DEF LogoutAllDelete, TypeOK, RequestInv, Req
    <2> QED
      BY <2>2, <2>3
  <1>9. ASSUME NEW p \in Reqs, ReplayCommit(p)
        PROVE  TypeOK' /\ RequestInv'
    <2>1. "close" \in Phases /\ req[p].user \in Users
      BY <1>9 DEF Phases, ReplayCommit, RequestInv
    <2>2. TypeOK'
      BY <1>9, <1>b, <1>c, <2>1, RequestMoves DEF ReplayCommit, RevokeCommit, TypeOK
    <2>3. RequestInv'
      BY <1>9 DEF ReplayCommit, RevokeCommit, TypeOK, RequestInv, Req
    <2> QED
      BY <2>2, <2>3
  <1>10. ASSUME NEW p \in Reqs, LogoutAllCommit(p)
        PROVE  TypeOK' /\ RequestInv'
    <2>1. "closeAgain" \in Phases /\ req[p].user \in Users
      BY <1>10 DEF Phases, LogoutAllCommit, RequestInv
    <2>2. TypeOK'
      BY <1>10, <1>b, <1>c, <2>1, RequestMoves DEF LogoutAllCommit, RevokeCommit, TypeOK
    <2>3. RequestInv'
      BY <1>10 DEF LogoutAllCommit, RevokeCommit, TypeOK, RequestInv, Req
    <2> QED
      BY <2>2, <2>3
  <1>11. ASSUME NEW p \in Reqs, RevokeUser(p)
        PROVE  TypeOK' /\ RequestInv'
    BY <1>11 DEF RevokeUser, Req, Phases, Idle, TypeOK, RequestInv
  <1>12. ASSUME NEW p \in Reqs, NEW c \in access, AuthMiddleware(p, c)
        PROVE  TypeOK' /\ RequestInv'
    BY <1>12 DEF AuthMiddleware, Req, Phases, Idle, Claims, TypeOK, RequestInv
  <1>13. ASSUME NEW p \in Reqs, OpenStream(p)
        PROVE  TypeOK' /\ RequestInv'
    BY <1>13 DEF OpenStream, Req, Phases, TypeOK, RequestInv
  <1>14. ASSUME NEW p \in Reqs, ToggleTOTP(p)
        PROVE  TypeOK' /\ RequestInv'
    BY <1>14, <1>c DEF ToggleTOTP, Req, Phases, Idle, TypeOK, RequestInv
  <1>15. ASSUME NEW p \in Reqs, ChangePassword(p)
        PROVE  TypeOK' /\ RequestInv'
    BY <1>15 DEF ChangePassword, Req, Phases, Idle, User, TypeOK, RequestInv
  <1>16. ASSUME NEW p \in Reqs, RequestEnds(p)
        PROVE  TypeOK' /\ RequestInv'
    BY <1>16 DEF RequestEnds, Req, Phases, Idle, TypeOK, RequestInv
  <1>17. ASSUME NEW t \in Tokens, RevokeRefreshToken(t)
        PROVE  TypeOK' /\ RequestInv'
    BY <1>17, <1>b DEF RevokeRefreshToken, TypeOK, RequestInv
  <1>18. ASSUME NEW t \in Tokens, ExpireRefreshToken(t)
        PROVE  TypeOK' /\ RequestInv'
    BY <1>18 DEF ExpireRefreshToken, Row, TypeOK, RequestInv
  <1>19. ASSUME NEW u \in Users, AccountWrite(u)
        PROVE  TypeOK' /\ RequestInv'
    BY <1>19 DEF AccountWrite, User, TypeOK, RequestInv
  <1>20. ASSUME NEW c \in access, ExpireAccessToken(c)
        PROVE  TypeOK' /\ RequestInv'
    BY <1>20 DEF ExpireAccessToken, TypeOK, RequestInv
  <1>21. CASE Restart
    BY <1>21, <1>a DEF Restart, TypeOK, RequestInv, Idle
  <1>22. CASE UNCHANGED vars
    BY <1>22 DEF vars, TypeOK, RequestInv
  <1>23. ASSUME NEW p \in Reqs, NEW t \in Tokens, DeleteRow(p, t)
         PROVE  TypeOK' /\ RequestInv'
    <2>1. req[p].held \cup {t} \in SUBSET Tokens
      BY DEF TypeOK, Req
    <2>2. req' = [req EXCEPT ![p].held = req[p].held \cup {t}]
      BY <1>23 DEF DeleteRow
    <2>3. TypeOK'
      <3>1. "idle" \in Phases
        BY DEF Phases
      <3>2. req' \in [Reqs -> Req]
        BY <2>1, <2>2, <3>1, RequestMoves
      <3> QED
        BY <1>23, <3>2 DEF DeleteRow, TypeOK
    <2>4. RequestInv'
      BY <1>23, <2>2 DEF DeleteRow, TypeOK, RequestInv, Req
    <2> QED
      BY <2>3, <2>4
  <1>24. ASSUME NEW p \in Reqs, BumpVersion(p)
         PROVE  TypeOK' /\ RequestInv'
    <2>1. "replayCommit" \in Phases /\ "logoutAllCommit" \in Phases
      BY DEF Phases
    <2>2. PICK pc \in {"replayCommit", "logoutAllCommit"} : req' = [req EXCEPT ![p].pc = pc]
      BY <1>24 DEF BumpVersion, TypeOK, Req
    <2>3. TypeOK'
      <3>1. pc \in Phases /\ {} \in SUBSET Tokens
        BY <2>1
      <3>2. [req EXCEPT ![p].pc = pc] \in [Reqs -> Req]
        BY <3>1, RequestMoves
      <3> QED
        BY <1>24, <2>2, <3>2 DEF BumpVersion, TypeOK
    <2>4. RequestInv'
      BY <1>24, <2>2 DEF BumpVersion, Deleting, TypeOK, RequestInv, Req
    <2> QED
      BY <2>3, <2>4
  <1>25. ASSUME NEW p \in Reqs, DeadlockDetected(p)
         PROVE  TypeOK' /\ RequestInv'
    BY <1>25, <1>a DEF DeadlockDetected, Idle, TypeOK, RequestInv
  <1> QED
    BY <1>1, <1>2, <1>3, <1>4, <1>5, <1>6, <1>7, <1>8, <1>9, <1>10, <1>11, <1>12,
       <1>13, <1>14, <1>15, <1>16, <1>17, <1>18, <1>19, <1>20, <1>21, <1>22, <1>23, <1>24, <1>25
       DEF Next, Handler, Arrival, Environment

(* TypeOK and RequestInv hold initially.                                   *)
LEMMA TypesInit == Init => TypeOK /\ RequestInv
  <1> SUFFICES ASSUME Init PROVE TypeOK /\ RequestInv
    OBVIOUS
  <1>1. (CHOOSE u \in Users : TRUE) \in Users
    BY SessionsAssumption
  <1> QED
    BY <1>1, SessionsAssumption DEF Init, TypeOK, RequestInv, User, Row, Req, Statuses, Phases, Idle

(* Every reachable state of the session handlers is well typed.            *)
THEOREM TypeCorrect == Spec => []TypeOK
  <1>1. Spec => [](TypeOK /\ RequestInv)
    BY TypesInit, TypesInductive, PTL DEF Spec
  <1> QED
    BY <1>1, PTL

(***************************************************************************)
(* Rotation.  A step either touches no row and takes no lock, or takes a   *)
(* lock, or deletes unlocked rows, or inserts a row (login, rotation).     *)
(***************************************************************************)
SameRows == \A t \in Tokens : /\ rt'[t].st = rt[t].st
                              /\ rt'[t].user = rt[t].user
                              /\ rt'[t].fam = rt[t].fam
                              /\ rt'[t].used = rt[t].used
                              /\ rt'[t].parent = rt[t].parent

(* A step that locks no further row.                                       *)
NoNewLock ==
    \A p \in Reqs :
        /\ Holding(p)' => Holding(p) /\ req'[p].tok = req[p].tok
        /\ Takes(p)' => req'[p].held = {} \/ (Takes(p) /\ req'[p].held = req[p].held)
        /\ req'[p].pc \in Revoking => req'[p].held = req'[p].snap

(* Such a step keeps the locks' invariant if no locked token is lost.      *)
LEMMA LocksKept ==
    ASSUME RotationInv, NoNewLock, \A p \in Reqs : Holding(p)' => Usable(req[p].tok)'
    PROVE  LockInv'
  <1>1. \A p, q \in Reqs : Holding(p)' /\ Holding(q)' /\ req'[p].tok = req'[q].tok => p = q
    BY DEF RotationInv, LockInv, NoNewLock
  <1>2. \A p, q \in Reqs : Holding(p)' /\ Takes(q)' => req'[p].tok \notin req'[q].held
    BY DEF RotationInv, LockInv, NoNewLock
  <1> QED
    BY <1>1, <1>2 DEF LockInv, NoNewLock

(* A step that neither changes a row nor locks one keeps RotationInv.      *)
LEMMA QuietStep ==
    ASSUME TypeOK, RequestInv, RotationInv, SameRows, NoNewLock
    PROVE  RotationInv'
  <1>1. LockInv'
    <2>1. \A p \in Reqs : Holding(p)' => Usable(req[p].tok)'
      BY DEF TypeOK, RequestInv, RotationInv, LockInv, SameRows, NoNewLock, Holding, Rotating, Usable
    <2> QED
      BY <2>1, LocksKept
  <1>2. LineageInv'
    BY DEF TypeOK, Row, RotationInv, LineageInv, SameRows
  <1>3. RotationIsLinear'
    BY DEF RotationInv, RotationIsLinear, SameRows, Usable
  <1>4. SpentHasSuccessor'
    BY DEF RotationInv, SpentHasSuccessor, SameRows
  <1> QED
    BY <1>1, <1>2, <1>3, <1>4 DEF RotationInv

(* Deleting rows no rotation has locked keeps RotationInv.                 *)
LEMMA DeleteStep ==
    ASSUME TypeOK, RequestInv, RotationInv, NoNewLock,
           NEW S \in SUBSET Tokens, \A p \in Reqs : Holding(p) => req[p].tok \notin S,
           rt' = DeleteRefreshTokens(S)
    PROVE  RotationInv'
  <1>1. \A t \in Tokens : /\ rt'[t].user = rt[t].user
                          /\ rt'[t].fam = rt[t].fam
                          /\ rt'[t].used = rt[t].used
                          /\ rt'[t].parent = rt[t].parent
                          /\ (rt'[t].st = "free") = (rt[t].st = "free")
                          /\ t \notin S => rt'[t].st = rt[t].st
                          /\ rt'[t].st = "row" => rt[t].st = "row"
    BY DEF TypeOK, Row, DeleteRefreshTokens
  <1>2. LockInv'
    <2>1. ASSUME NEW p \in Reqs, Holding(p)'
          PROVE  Usable(req[p].tok)'
      <3>1. Holding(p) /\ req'[p].tok = req[p].tok /\ req[p].tok \in Tokens
        BY <2>1 DEF NoNewLock, RequestInv, Holding, Rotating
      <3>2. req[p].tok \notin S
        BY <3>1
      <3> QED
        BY <1>1, <3>1, <3>2 DEF RotationInv, LockInv, Usable
    <2> QED
      BY <2>1, LocksKept
  <1>3. LineageInv'
    BY <1>1 DEF TypeOK, Row, RotationInv, LineageInv
  <1>4. RotationIsLinear'
    BY <1>1 DEF RotationInv, RotationIsLinear, Usable
  <1>5. SpentHasSuccessor'
    BY <1>1 DEF RotationInv, SpentHasSuccessor
  <1> QED
    BY <1>2, <1>3, <1>4, <1>5 DEF RotationInv

(* A login's insert keeps RotationInv: its token names a new family.       *)
LEMMA LoginStep ==
    ASSUME TypeOK, RequestInv, RotationInv,
           NEW p \in Reqs, NEW t \in Tokens, LoginIssue(p, t)
    PROVE  RotationInv'
  <1>1. /\ rt'[t].st = "row" /\ rt'[t].fam = t /\ rt'[t].used = FALSE
        /\ rt'[t].parent = NoToken
        /\ \A s \in Tokens \ {t} : rt'[s] = rt[s]
    BY DEF LoginIssue, Fresh, TypeOK, CreateRefreshToken
  <1>2. rt[t].st = "free" /\ rt[t].used = FALSE /\ rt[t].parent = NoToken
    BY DEF LoginIssue, Fresh, RotationInv, LineageInv, TypeOK, Row
  <1>3. \A q \in Reqs : Holding(q)' => Holding(q) /\ req'[q].tok = req[q].tok /\ req[q].tok # t
    BY <1>2 DEF LoginIssue, Fresh, TypeOK, Holding, Rotating, Idle, RotationInv, LockInv, Usable
  <1>4. LockInv'
    <2>1. \A q \in Reqs : Holding(q)' => Usable(req[q].tok)'
      BY <1>1, <1>3 DEF RequestInv, RotationInv, LockInv, Holding, Rotating, Usable
    <2>2. NoNewLock
      BY <1>3 DEF LoginIssue, TypeOK, Idle, RotationInv, LockInv, NoNewLock, Takes, Deleting, Revoking
    <2> QED
      BY <2>1, <2>2, LocksKept
  <1>5. LineageInv'
    BY <1>1, <1>2 DEF TypeOK, Row, RotationInv, LineageInv
  <1>6. RotationIsLinear'
    <2>1. ASSUME NEW a \in Tokens, NEW b \in Tokens, Usable(a)', Usable(b)', rt'[a].fam = rt'[b].fam
          PROVE  a = b
      BY <1>1, <1>2, <2>1 DEF RotationInv, RotationIsLinear, LineageInv, Usable
    <2>2. \A a, b \in Tokens : rt'[a].parent = rt'[b].parent /\ rt'[a].parent # NoToken => a = b
      BY <1>1 DEF RotationInv, RotationIsLinear
    <2> QED
      BY <2>1, <2>2 DEF RotationIsLinear
  <1>7. SpentHasSuccessor'
    <2>1. ASSUME NEW a \in Tokens, rt'[a].used
          PROVE  \E b \in Tokens : rt'[b].parent = a /\ rt'[b].fam = rt'[a].fam /\ rt'[b].user = rt'[a].user
      <3>1. a # t /\ rt[a].used
        BY <1>1, <2>1
      <3>2. PICK b \in Tokens : rt[b].parent = a /\ rt[b].fam = rt[a].fam /\ rt[b].user = rt[a].user
        BY <3>1 DEF RotationInv, SpentHasSuccessor
      <3>3. b # t
        BY <1>2, <3>2, SessionsAssumption
      <3> QED
        BY <1>1, <3>1, <3>2, <3>3
    <2> QED
      BY <2>1 DEF SpentHasSuccessor
  <1> QED
    BY <1>4, <1>5, <1>6, <1>7 DEF RotationInv

(* A rotation's commit keeps RotationInv: the lock it holds guarantees     *)
(* that the token it spends has no successor yet.                          *)
LEMMA RotateStep ==
    ASSUME TypeOK, RequestInv, RotationInv,
           NEW p \in Reqs, NEW t \in Tokens, RefreshCommit(p, t)
    PROVE  RotationInv'
  <1> DEFINE old == req[p].tok
  <1>1. old \in Tokens /\ rt[old].st = "row" /\ rt[old].used = FALSE /\ old # t
    BY DEF RefreshCommit, Fresh, RequestInv, RotationInv, LockInv, Holding, Rotating, Usable, TypeOK, Row
  <1>2. rt[t].st = "free" /\ rt[t].used = FALSE /\ rt[t].parent = NoToken
    BY DEF RefreshCommit, Fresh, RotationInv, LineageInv, TypeOK, Row
  <1>3. /\ rt'[t].st = "row" /\ rt'[t].fam = rt[old].fam /\ rt'[t].user = rt[old].user
        /\ rt'[t].used = FALSE /\ rt'[t].parent = old
    BY <1>1 DEF RefreshCommit, Fresh, TypeOK, CreateRefreshToken
  <1>4. /\ rt'[old].st = "row" /\ rt'[old].fam = rt[old].fam /\ rt'[old].user = rt[old].user
        /\ rt'[old].used = TRUE /\ rt'[old].parent = rt[old].parent
    BY <1>1 DEF RefreshCommit, Fresh, TypeOK, Row
  <1>5. \A s \in Tokens \ {t, old} : rt'[s] = rt[s]
    BY <1>1 DEF RefreshCommit, Fresh, TypeOK
  <1>6. \A q \in Reqs : Holding(q)' => /\ Holding(q) /\ req'[q].tok = req[q].tok
                                       /\ req[q].tok \in Tokens \ {t, old}
    BY <1>2 DEF RefreshCommit, Fresh, TypeOK, RequestInv, Holding, Rotating, Idle, RotationInv, LockInv, Usable
  <1>7. LockInv'
    <2>1. \A q \in Reqs : Holding(q)' => Usable(req[q].tok)'
      BY <1>5, <1>6 DEF RotationInv, LockInv, Usable
    <2>2. NoNewLock
      BY <1>6 DEF RefreshCommit, TypeOK, Idle, RotationInv, LockInv, NoNewLock, Takes, Deleting, Revoking
    <2> QED
      BY <2>1, <2>2, LocksKept
  <1>8. \A s \in Tokens : rt[s].parent # old
    BY <1>1, SessionsAssumption DEF RotationInv, LineageInv, TypeOK, Row
  <1>9. LineageInv'
    <2>1. \A s \in Tokens : rt'[s].st = "free" => rt'[s].parent = NoToken /\ ~rt'[s].used
      BY <1>3, <1>4, <1>5 DEF RotationInv, LineageInv
    <2>2. \A s \in Tokens : rt'[s].st # "free" => rt'[rt'[s].fam].st # "free"
      BY <1>1, <1>2, <1>3, <1>4, <1>5 DEF TypeOK, Row, RotationInv, LineageInv
    <2>3. \A s \in Tokens : rt'[s].parent # NoToken => rt'[rt'[s].parent].used
      BY <1>1, <1>2, <1>3, <1>4, <1>5 DEF TypeOK, Row, RotationInv, LineageInv
    <2> QED
      BY <2>1, <2>2, <2>3 DEF LineageInv
  <1>10. RotationIsLinear'
    <2>1. ASSUME NEW a \in Tokens, NEW b \in Tokens, Usable(a)', Usable(b)', rt'[a].fam = rt'[b].fam
          PROVE  a = b
      BY <1>1, <1>3, <1>4, <1>5, <2>1 DEF RotationInv, RotationIsLinear, Usable
    <2>2. ASSUME NEW a \in Tokens, NEW b \in Tokens, rt'[a].parent = rt'[b].parent, rt'[a].parent # NoToken
          PROVE  a = b
      BY <1>1, <1>3, <1>4, <1>5, <1>8, <2>2 DEF RotationInv, RotationIsLinear
    <2> QED
      BY <2>1, <2>2 DEF RotationIsLinear
  <1>11. SpentHasSuccessor'
    <2>1. ASSUME NEW a \in Tokens, rt'[a].used
          PROVE  \E b \in Tokens : rt'[b].parent = a /\ rt'[b].fam = rt'[a].fam /\ rt'[b].user = rt'[a].user
      <3>1. CASE a = old
        BY <1>3, <1>4, <3>1
      <3>2. CASE a # old
        <4>1. a # t /\ rt[a].used
          BY <1>3, <1>5, <2>1, <3>2
        <4>2. PICK b \in Tokens : rt[b].parent = a /\ rt[b].fam = rt[a].fam /\ rt[b].user = rt[a].user
          BY <4>1 DEF RotationInv, SpentHasSuccessor
        <4>3. b # t
          BY <1>2, <4>2, SessionsAssumption
        <4> QED
          BY <1>4, <1>5, <3>2, <4>1, <4>2, <4>3
      <3> QED
        BY <3>1, <3>2
    <2> QED
      BY <2>1 DEF SpentHasSuccessor
  <1> QED
    BY <1>7, <1>9, <1>10, <1>11 DEF RotationInv

(* Locking an unlocked token that can be exchanged keeps RotationInv; a    *)
(* token that was spent or deleted meanwhile is not locked.                *)
LEMMA ConsumeStep ==
    ASSUME TypeOK, RequestInv, RotationInv, NEW p \in Reqs, ConsumeRefreshToken(p)
    PROVE  RotationInv'
  <1>1. rt' = rt /\ req[p].tok \in Tokens /\ ~Locked(req[p].tok)
    BY DEF ConsumeRefreshToken, RequestInv
  <1>2. CASE req' = [req EXCEPT ![p] = Idle]
    <2>1. SameRows /\ NoNewLock
      BY <1>1, <1>2 DEF SameRows, NoNewLock, TypeOK, Holding, Takes, Rotating, Deleting, Revoking, Idle,
         RotationInv, LockInv
    <2> QED
      BY <2>1, QuietStep
  <1>3. CASE Usable(req[p].tok) /\ req' = [req EXCEPT ![p].pc = "loadUser"]
    <2>1. \A q \in Reqs : /\ req'[q].tok = req[q].tok
                          /\ req'[q].held = req[q].held /\ req'[q].snap = req[q].snap
                          /\ Holding(q)' => Holding(q) \/ q = p
                          /\ Takes(q)' => Takes(q)
                          /\ req'[q].pc \in Revoking => req[q].pc \in Revoking
      BY <1>3 DEF TypeOK, Req, Holding, Takes, Rotating, Deleting, Revoking
    <2>2. \A q \in Reqs : /\ Holding(q) => req[q].tok # req[p].tok
                          /\ Takes(q) => req[p].tok \notin req[q].held
      BY <1>1, <1>3 DEF Locked, Holding, Takes, Usable
    <2>3. \A q \in Reqs : Holding(q)' => Usable(req[q].tok)'
      BY <1>1, <1>3, <2>1 DEF RotationInv, LockInv, Usable
    <2>4. \A q, r \in Reqs : Holding(q)' /\ Holding(r)' /\ req'[q].tok = req'[r].tok => q = r
      BY <2>1, <2>2 DEF RotationInv, LockInv
    <2>5. \A q, r \in Reqs : Holding(q)' /\ Takes(r)' => req'[q].tok \notin req'[r].held
      BY <2>1, <2>2 DEF RotationInv, LockInv
    <2>6. LockInv'
      BY <2>1, <2>3, <2>4, <2>5 DEF RotationInv, LockInv
    <2> QED
      BY <1>1, <2>6 DEF RotationInv, LineageInv, RotationIsLinear, SpentHasSuccessor, Usable
  <1> QED
    BY <1>2, <1>3 DEF ConsumeRefreshToken

(* A deletion that takes a row nobody has locked keeps RotationInv.        *)
LEMMA TakeStep ==
    ASSUME TypeOK, RequestInv, RotationInv, NEW p \in Reqs, NEW t \in Tokens, DeleteRow(p, t)
    PROVE  RotationInv'
  <1>1. rt' = rt /\ ~Locked(t) /\ req[p].pc \in Deleting
    BY DEF DeleteRow
  <1>2. \A q \in Reqs : /\ req'[q].tok = req[q].tok /\ req'[q].snap = req[q].snap
                        /\ req'[q].pc = req[q].pc
                        /\ req'[q].held = IF q = p THEN req[q].held \cup {t} ELSE req[q].held
    BY DEF DeleteRow, TypeOK, Req
  <1>3. \A q \in Reqs : Holding(q) => req[q].tok # t
    BY <1>1 DEF Locked, Holding, RotationInv, LockInv, Usable
  <1>4. LockInv'
    <2>1. \A q \in Reqs : Holding(q)' => Usable(req[q].tok)'
      BY <1>1, <1>2 DEF RotationInv, LockInv, Usable, Holding
    <2>2. \A q, r \in Reqs : Holding(q)' /\ Holding(r)' /\ req'[q].tok = req'[r].tok => q = r
      BY <1>2 DEF RotationInv, LockInv, Holding
    <2>3. \A q, r \in Reqs : Holding(q)' /\ Takes(r)' => req'[q].tok \notin req'[r].held
      <3> SUFFICES ASSUME NEW q \in Reqs, NEW r \in Reqs, Holding(q)', Takes(r)'
                   PROVE  req'[q].tok \notin req'[r].held
        OBVIOUS
      <3>1. Holding(q) /\ Takes(r)
        BY <1>2 DEF Holding, Takes
      <3>2. req[q].tok \notin req[r].held /\ req[q].tok # t
        BY <1>3, <3>1 DEF RotationInv, LockInv
      <3> QED
        BY <1>2, <3>2
    <2>4. \A q \in Reqs : req'[q].pc \in Revoking => req'[q].held = req'[q].snap
      BY <1>1, <1>2 DEF RotationInv, LockInv, Deleting, Revoking
    <2> QED
      BY <2>1, <2>2, <2>3, <2>4 DEF LockInv
  <1> QED
    BY <1>1, <1>4 DEF RotationInv, LineageInv, RotationIsLinear, SpentHasSuccessor, Usable

(* The six kinds of steps , as far as refresh tokens are concerned.        *)
RowStep ==
    \/ SameRows /\ NoNewLock
    \/ \E p \in Reqs : ConsumeRefreshToken(p)
    \/ \E p \in Reqs, t \in Tokens : DeleteRow(p, t)
    \/ \E S \in SUBSET Tokens : /\ \A p \in Reqs : Holding(p) => req[p].tok \notin S
                                /\ rt' = DeleteRefreshTokens(S)
                                /\ NoNewLock
    \/ \E p \in Reqs, t \in Tokens : LoginIssue(p, t)
    \/ \E p \in Reqs, t \in Tokens : RefreshCommit(p, t)

(* Every step of the system is one of these kinds.                         *)
LEMMA StepKinds ==
    ASSUME TypeOK, RequestInv, RotationInv, [Next]_vars
    PROVE  RowStep
  <1>1. ASSUME NEW p \in Reqs, NEW u \in Users, LoginRead(p, u)
        PROVE  SameRows /\ NoNewLock
    BY <1>1 DEF LoginRead, TypeOK, Req, Idle, SameRows, NoNewLock, Holding, Takes,
       Rotating, Deleting, Revoking, RotationInv, LockInv
  <1>2. ASSUME NEW p \in Reqs, NEW t \in Tokens, RefreshLookup(p, t)
        PROVE  SameRows /\ NoNewLock
    BY <1>2 DEF RefreshLookup, TypeOK, Req, Idle, SameRows, NoNewLock, Holding, Takes,
       Rotating, Deleting, Revoking, RotationInv, LockInv
  <1>3. ASSUME NEW p \in Reqs, RefreshLoadUser(p)
        PROVE  SameRows /\ NoNewLock
    <2>1. PICK r : /\ req' = [req EXCEPT ![p] = r]
                   /\ r.pc \in {"commit", "idle"} /\ (r.pc = "commit" => r.tok = req[p].tok)
      <3>1. CASE users[req[p].user].status = "ACTIVE"
        <4> DEFINE r == [req[p] EXCEPT !.pc = "commit", !.claims = issueAccessToken(req[p].user)]
        <4>1. req' = [req EXCEPT ![p] = r]
          BY <1>3, <3>1 DEF RefreshLoadUser, TypeOK
        <4>2. r.pc = "commit" /\ r.tok = req[p].tok
          BY DEF TypeOK, Req
        <4> QED
          BY <4>1, <4>2
      <3>2. CASE users[req[p].user].status # "ACTIVE"
        <4>1. req' = [req EXCEPT ![p] = Idle]
          BY <1>3, <3>2 DEF RefreshLoadUser
        <4>2. Idle.pc = "idle"
          BY DEF Idle
        <4> QED
          BY <4>1, <4>2
      <3> QED
        BY <3>1, <3>2
    <2>2. \A q \in Reqs : IF q = p THEN req'[q] = r ELSE req'[q] = req[q]
      BY <2>1 DEF TypeOK
    <2>3. NoNewLock
      BY <1>3, <2>1, <2>2 DEF RefreshLoadUser, NoNewLock, Holding, Takes, Rotating, Deleting, Revoking,
         RotationInv, LockInv
    <2> QED
      BY <1>3, <2>3 DEF RefreshLoadUser, SameRows
  <1>4. ASSUME NEW p \in Reqs, ReplayDelete(p)
        PROVE  SameRows /\ NoNewLock
    BY <1>4 DEF ReplayDelete, TypeOK, Req, Idle, SameRows, NoNewLock, Holding, Takes,
       Rotating, Deleting, Revoking, RotationInv, LockInv
  <1>5. ASSUME NEW p \in Reqs, LogoutAllDelete(p)
        PROVE  SameRows /\ NoNewLock
    BY <1>5 DEF LogoutAllDelete, TypeOK, Req, Idle, SameRows, NoNewLock, Holding, Takes,
       Rotating, Deleting, Revoking, RotationInv, LockInv
  <1>6. ASSUME NEW p \in Reqs, RevokeUser(p)
        PROVE  SameRows /\ NoNewLock
    BY <1>6 DEF RevokeUser, TypeOK, Req, Idle, SameRows, NoNewLock, Holding, Takes,
       Rotating, Deleting, Revoking, RotationInv, LockInv
  <1>7. ASSUME NEW p \in Reqs, NEW c \in access, AuthMiddleware(p, c)
        PROVE  SameRows /\ NoNewLock
    BY <1>7 DEF AuthMiddleware, TypeOK, Req, Idle, SameRows, NoNewLock, Holding, Takes,
       Rotating, Deleting, Revoking, RotationInv, LockInv
  <1>8. ASSUME NEW p \in Reqs, OpenStream(p)
        PROVE  SameRows /\ NoNewLock
    BY <1>8 DEF OpenStream, TypeOK, Req, Idle, SameRows, NoNewLock, Holding, Takes,
       Rotating, Deleting, Revoking, RotationInv, LockInv
  <1>9. ASSUME NEW p \in Reqs, ToggleTOTP(p)
        PROVE  SameRows /\ NoNewLock
    BY <1>9 DEF ToggleTOTP, TypeOK, Req, Idle, SameRows, NoNewLock, Holding, Takes,
       Rotating, Deleting, Revoking, RotationInv, LockInv
  <1>10. ASSUME NEW p \in Reqs, ChangePassword(p)
        PROVE  SameRows /\ NoNewLock
    BY <1>10 DEF ChangePassword, TypeOK, Req, Idle, SameRows, NoNewLock, Holding, Takes,
       Rotating, Deleting, Revoking, RotationInv, LockInv
  <1>11. ASSUME NEW p \in Reqs, RequestEnds(p)
        PROVE  SameRows /\ NoNewLock
    BY <1>11 DEF RequestEnds, TypeOK, Req, Idle, SameRows, NoNewLock, Holding, Takes,
       Rotating, Deleting, Revoking, RotationInv, LockInv
  <1>12. ASSUME NEW u \in Users, AccountWrite(u)
        PROVE  SameRows /\ NoNewLock
    BY <1>12 DEF AccountWrite, TypeOK, Req, Idle, SameRows, NoNewLock, Holding, Takes,
       Rotating, Deleting, Revoking, RotationInv, LockInv
  <1>13. ASSUME NEW t \in Tokens, ExpireRefreshToken(t)
        PROVE  SameRows /\ NoNewLock
    BY <1>13 DEF ExpireRefreshToken, TypeOK, Req, Row, Idle, SameRows, NoNewLock, Holding, Takes,
       Rotating, Deleting, Revoking, RotationInv, LockInv
  <1>14. ASSUME NEW c \in access, ExpireAccessToken(c)
        PROVE  SameRows /\ NoNewLock
    BY <1>14 DEF ExpireAccessToken, TypeOK, Req, Row, Idle, SameRows, NoNewLock, Holding, Takes,
       Rotating, Deleting, Revoking, RotationInv, LockInv
  <1>15. ASSUME NEW p \in Reqs, ReplayCommit(p) \/ LogoutAllCommit(p)
         PROVE  \E S \in SUBSET Tokens : /\ \A q \in Reqs : Holding(q) => req[q].tok \notin S
                                         /\ rt' = DeleteRefreshTokens(S)
                                         /\ NoNewLock
    <2>1. req[p].snap \in SUBSET Tokens /\ Takes(p) /\ req[p].held = req[p].snap
      BY <1>15 DEF ReplayCommit, LogoutAllCommit, TypeOK, Req, Takes, Revoking, RotationInv, LockInv
    <2>2. \A q \in Reqs : Holding(q) => req[q].tok \notin req[p].snap
      BY <2>1 DEF RotationInv, LockInv
    <2>3. NoNewLock
      BY <1>15 DEF ReplayCommit, LogoutAllCommit, RevokeCommit, TypeOK, Req, NoNewLock, Holding, Takes,
         Rotating, Deleting, Revoking, RotationInv, LockInv
    <2> QED
      BY <1>15, <2>1, <2>2, <2>3 DEF ReplayCommit, LogoutAllCommit, RevokeCommit
  <1>16. ASSUME NEW t \in Tokens, RevokeRefreshToken(t)
         PROVE  \E S \in SUBSET Tokens : /\ \A q \in Reqs : Holding(q) => req[q].tok \notin S
                                         /\ rt' = DeleteRefreshTokens(S)
                                         /\ NoNewLock
    <2>1. NoNewLock
      BY <1>16 DEF RevokeRefreshToken, NoNewLock, Holding, Takes, RotationInv, LockInv
    <2>2. \A q \in Reqs : Holding(q) => req[q].tok \notin {t}
      BY <1>16 DEF RevokeRefreshToken, Locked, Holding
    <2>3. WITNESS {t} \in SUBSET Tokens
    <2> QED
      BY <1>16, <2>1, <2>2 DEF RevokeRefreshToken
  <1>18. ASSUME NEW p \in Reqs, BumpVersion(p)
         PROVE  SameRows /\ NoNewLock
    <2>1. PICK pc \in Revoking : req' = [req EXCEPT ![p].pc = pc]
      BY <1>18 DEF BumpVersion, TypeOK, Req, Revoking
    <2>2. \A q \in Reqs : /\ req'[q].tok = req[q].tok
                          /\ req'[q].held = req[q].held /\ req'[q].snap = req[q].snap
                          /\ req'[q].pc = IF q = p THEN pc ELSE req[q].pc
      BY <2>1 DEF TypeOK, Req
    <2>3. rt' = rt /\ req[p].held = req[p].snap /\ req[p].pc \in Deleting
      BY <1>18 DEF BumpVersion
    <2>4. NoNewLock
      BY <2>1, <2>2, <2>3 DEF NoNewLock, Holding, Takes, Rotating, Deleting, Revoking, RotationInv, LockInv
    <2> QED
      BY <2>3, <2>4 DEF SameRows
  <1>19. ASSUME NEW p \in Reqs, DeadlockDetected(p)
         PROVE  SameRows /\ NoNewLock
    BY <1>19 DEF DeadlockDetected, TypeOK, Req, Idle, SameRows, NoNewLock, Holding, Takes,
       Rotating, Deleting, Revoking, RotationInv, LockInv
  <1>17. CASE Restart \/ UNCHANGED vars
    BY <1>17 DEF Restart, vars, Idle, SameRows, NoNewLock, Holding, Takes, RowStep,
       Rotating, Deleting, Revoking, RotationInv, LockInv
  <1> QED
    BY <1>1, <1>2, <1>3, <1>4, <1>5, <1>6, <1>7, <1>8, <1>9, <1>10, <1>11, <1>12,
       <1>13, <1>14, <1>15, <1>16, <1>17, <1>18, <1>19
       DEF Next, Handler, Arrival, Environment, RowStep

(* RotationInv is inductive relative to the types.                         *)
LEMMA RotationInductive ==
    TypeOK /\ RequestInv /\ RotationInv /\ [Next]_vars => RotationInv'
  <1> SUFFICES ASSUME TypeOK, RequestInv, RotationInv, [Next]_vars
               PROVE  RotationInv'
    OBVIOUS
  <1>1. RowStep
    BY StepKinds
  <1>2. CASE SameRows /\ NoNewLock
    BY <1>2, QuietStep
  <1>3. CASE \E p \in Reqs : ConsumeRefreshToken(p)
    BY <1>3, ConsumeStep
  <1>4. CASE \E S \in SUBSET Tokens : /\ \A p \in Reqs : Holding(p) => req[p].tok \notin S
                                     /\ rt' = DeleteRefreshTokens(S)
                                     /\ NoNewLock
    BY <1>4, DeleteStep
  <1>7. CASE \E p \in Reqs, t \in Tokens : DeleteRow(p, t)
    BY <1>7, TakeStep
  <1>5. CASE \E p \in Reqs, t \in Tokens : LoginIssue(p, t)
    BY <1>5, LoginStep
  <1>6. CASE \E p \in Reqs, t \in Tokens : RefreshCommit(p, t)
    BY <1>6, RotateStep
  <1> QED
    BY <1>1, <1>2, <1>3, <1>4, <1>5, <1>6, <1>7 DEF RowStep

(* RotationInv holds initially: no token is issued, nothing is locked.     *)
LEMMA RotationInit == Init => RotationInv
  BY DEF Init, RotationInv, LockInv, LineageInv, RotationIsLinear, SpentHasSuccessor,
         Usable, Holding, Takes, Rotating, Deleting, Revoking, Idle

(* Rotation is linear and never half applied, for any number of requests   *)
(* racing on any number of tokens.                                         *)
THEOREM RotationCorrect == Spec => [](RotationIsLinear /\ SpentHasSuccessor)
  <1>1. Init => TypeOK /\ RequestInv /\ RotationInv
    BY TypesInit, RotationInit
  <1>2. TypeOK /\ RequestInv /\ RotationInv /\ [Next]_vars => (TypeOK /\ RequestInv /\ RotationInv)'
    BY TypesInductive, RotationInductive
  <1>3. RotationInv => RotationIsLinear /\ SpentHasSuccessor
    BY DEF RotationInv
  <1> QED
    BY <1>1, <1>2, <1>3, PTL DEF Spec

(* A spent refresh token of a live family has its successor: rotation      *)
(* never leaves the family without the token that the client was handed.   *)
THEOREM SpentTokensHaveSuccessors == Spec => []SpentHasSuccessor
  BY RotationCorrect, PTL

(***************************************************************************)
(* Refinement of RefreshFamily.                                            *)
(***************************************************************************)
AbsFamily == [t \in Tokens |-> IF rt[t].st = "free" THEN NoToken ELSE rt[t].fam]
AbsLive == {t \in Tokens : Usable(t)}

(* Every step on the rows is a step of RefreshFamily or leaves it alone.   *)
LEMMA RowStepRefines ==
    ASSUME TypeOK, RequestInv, RotationInv, RowStep
    PROVE  [Families!FamNext]_(Families!famVars)
  <1> USE DEF AbsFamily, AbsLive
  <1>1. CASE \/ SameRows \/ \E p \in Reqs : ConsumeRefreshToken(p)
             \/ \E p \in Reqs, t \in Tokens : DeleteRow(p, t)
    <2>1. SameRows
      BY <1>1 DEF SameRows, ConsumeRefreshToken, DeleteRow
    <2>2. AbsFamily' = AbsFamily
      BY <2>1 DEF SameRows
    <2>3. AbsLive' = AbsLive
      BY <2>1 DEF SameRows, Usable
    <2> QED
      BY <2>2, <2>3 DEF Families!famVars
  <1>2. ASSUME NEW S \in SUBSET Tokens, rt' = DeleteRefreshTokens(S)
        PROVE  Families!FamNext
    <2>1. AbsFamily' = AbsFamily
      BY <1>2 DEF DeleteRefreshTokens, TypeOK, Row
    <2>2. AbsLive' = AbsLive \ (S \cap AbsLive)
      BY <1>2 DEF DeleteRefreshTokens, TypeOK, Row, Usable
    <2>3. Families!Close(S \cap AbsLive)
      BY <2>1, <2>2 DEF Families!Close
    <2>4. S \cap AbsLive \in SUBSET AbsLive
      OBVIOUS
    <2> QED
      BY <2>3, <2>4 DEF Families!FamNext
  <1>3. ASSUME NEW p \in Reqs, NEW t \in Tokens, LoginIssue(p, t)
        PROVE  Families!FamNext
    <2>1. AbsFamily[t] = NoToken
      BY <1>3 DEF LoginIssue, Fresh
    <2>2. AbsFamily' = [AbsFamily EXCEPT ![t] = t]
      BY <1>3 DEF LoginIssue, Fresh, CreateRefreshToken, TypeOK
    <2>3. AbsLive' = AbsLive \cup {t}
      BY <1>3 DEF LoginIssue, Fresh, CreateRefreshToken, TypeOK, Usable
    <2>4. Families!Open(t)
      BY <2>1, <2>2, <2>3 DEF Families!Open
    <2> QED
      BY <2>4 DEF Families!FamNext
  <1>4. ASSUME NEW p \in Reqs, NEW t \in Tokens, RefreshCommit(p, t)
        PROVE  Families!FamNext
    <2> DEFINE old == req[p].tok
    <2>1. old \in Tokens /\ Usable(old) /\ old # t /\ rt[t].st = "free"
      BY <1>4 DEF RefreshCommit, Fresh, RequestInv, RotationInv, LockInv, Holding, Rotating, Usable
    <2>2. /\ rt'[t].st = "row" /\ rt'[t].fam = rt[old].fam /\ rt'[t].used = FALSE
          /\ rt'[old].st = "row" /\ rt'[old].fam = rt[old].fam /\ rt'[old].used = TRUE
          /\ \A s \in Tokens \ {t, old} : rt'[s] = rt[s]
      BY <1>4, <2>1 DEF RefreshCommit, Fresh, CreateRefreshToken, TypeOK, Row, Usable
    <2>3. AbsFamily[t] = NoToken /\ old \in AbsLive
      BY <2>1
    <2>4. AbsFamily' = [AbsFamily EXCEPT ![t] = AbsFamily[old]]
      BY <2>1, <2>2 DEF Usable
    <2>5. AbsLive' = (AbsLive \ {old}) \cup {t}
      BY <2>1, <2>2 DEF Usable
    <2>6. Families!Rotate(old, t)
      BY <2>3, <2>4, <2>5 DEF Families!Rotate
    <2> QED
      BY <2>1, <2>6 DEF Families!FamNext
  <1> QED
    BY <1>1, <1>2, <1>3, <1>4 DEF RowStep

(* The session handlers implement the abstract rotation of RefreshFamily.  *)
THEOREM SessionsRefineFamilies == Spec => RefinesRefreshFamily
  <1>1. Init => TypeOK /\ RequestInv /\ RotationInv
    BY TypesInit, RotationInit
  <1>2. TypeOK /\ RequestInv /\ RotationInv /\ [Next]_vars => (TypeOK /\ RequestInv /\ RotationInv)'
    BY TypesInductive, RotationInductive
  <1>3. Init => Families!FamInit
    BY DEF Init, Families!FamInit, Usable
  <1>4. TypeOK /\ RequestInv /\ RotationInv /\ [Next]_vars => [Families!FamNext]_(Families!famVars)
    BY StepKinds, RowStepRefines
  <1> QED
    BY <1>1, <1>2, <1>3, <1>4, PTL DEF Spec, RefinesRefreshFamily, Families!FamSpec

(* A family without a live token is never revived: a request that was      *)
(* under way when the family was revoked or logged out has lost the race.  *)
THEOREM ClosedFamilies == Spec => ClosedFamilyStaysClosed
  <1> DEFINE Closed(f) == /\ \E t \in Tokens : AbsFamily[t] = f
                          /\ \A t \in AbsLive : AbsFamily[t] # f
  <1>1. Init => TypeOK /\ RequestInv /\ RotationInv
    BY TypesInit, RotationInit
  <1>2. TypeOK /\ RequestInv /\ RotationInv /\ [Next]_vars => (TypeOK /\ RequestInv /\ RotationInv)'
    BY TypesInductive, RotationInductive
  <1>3. ASSUME TypeOK, RequestInv, RotationInv, [Next]_vars
        PROVE  [\A f \in Tokens : Closed(f) => \A t \in AbsLive' : AbsFamily'[t] # f]_(Families!famVars)
    <2> SUFFICES ASSUME Families!FamNext, NEW f \in Tokens, Closed(f), NEW t \in AbsLive'
                 PROVE  AbsFamily'[t] # f
      BY <1>3, StepKinds, RowStepRefines DEF AbsFamily, AbsLive
    <2>1. t \in Tokens /\ AbsLive \subseteq Tokens
      BY DEF AbsLive
    <2>2. ASSUME NEW s \in Tokens, Families!Open(s)
          PROVE  AbsFamily'[t] # f
      <3>1. AbsFamily[s] = NoToken /\ AbsFamily' = [AbsFamily EXCEPT ![s] = s] /\ AbsLive' = AbsLive \cup {s}
        BY <2>2 DEF Families!Open, AbsFamily, AbsLive
      <3>2. PICK r \in Tokens : AbsFamily[r] = f
        OBVIOUS
      <3>3. rt[r].st # "free" /\ rt[r].fam = f
        BY <3>2, SessionsAssumption DEF AbsFamily
      <3>4. rt[f].st # "free"
        BY <1>3, <3>3 DEF Revoking, RotationInv, LineageInv
      <3>5. f # s
        BY <1>3, <3>1, <3>4, SessionsAssumption DEF AbsFamily, TypeOK, Row
      <3> QED
        BY <2>1, <3>1, <3>5 DEF AbsFamily
    <2>3. ASSUME NEW q \in Tokens, NEW s \in Tokens, Families!Rotate(q, s)
          PROVE  AbsFamily'[t] # f
      <3>1. q \in AbsLive /\ AbsFamily' = [AbsFamily EXCEPT ![s] = AbsFamily[q]] /\ AbsLive' = (AbsLive \ {q}) \cup {s}
        BY <2>3 DEF Families!Rotate, AbsFamily, AbsLive
      <3> QED
        BY <2>1, <3>1 DEF AbsFamily
    <2>4. ASSUME NEW S, Families!Close(S)
          PROVE  AbsFamily'[t] # f
      <3>1. AbsFamily' = AbsFamily /\ AbsLive' \subseteq AbsLive
        BY <2>4 DEF Families!Close, AbsFamily, AbsLive
      <3> QED
        BY <3>1
    <2> QED
      BY <2>2, <2>3, <2>4 DEF Families!FamNext
  <1> HIDE DEF Closed
  <1>4. TypeOK /\ RequestInv /\ RotationInv /\ [Next]_vars
           => [\A f \in Tokens :
                  (\E t \in Tokens : AbsFamily[t] = f) /\ (\A t \in AbsLive : AbsFamily[t] # f)
                     => \A t \in AbsLive' : AbsFamily'[t] # f]_(Families!famVars)
    BY <1>3 DEF Closed
  <1> QED
    BY <1>1, <1>2, <1>4, PTL
       DEF Spec, ClosedFamilyStaysClosed, Families!ClosedStaysClosed, AbsFamily, AbsLive

(***************************************************************************)
(* Access tokens and token_version.                                        *)
(***************************************************************************)

(* Every step keeps claims at or below the stored version, and versions    *)
(* never decrease.                                                         *)
VersionStep ==
    /\ \A u \in Users : users[u].ver <= users'[u].ver
    /\ VersionInv'

(* What VersionStep needs of a step: versions grow, access tokens come     *)
(* from a request, and a request's claims are its own, an access token's   *)
(* or those of a stored user.                                              *)
LEMMA VersionStepFrom ==
    ASSUME TypeOK, TypeOK', VersionInv,
           \A u \in Users : users[u].ver <= users'[u].ver,
           \A c \in access' : c \in access \/ \E p \in Reqs : c = req[p].claims /\ c \in Claims,
           \A p \in Reqs : \/ req'[p].claims = NoUser
                           \/ req'[p].claims = req[p].claims
                           \/ req'[p].claims \in access
                           \/ \E u \in Users : req'[p].claims = issueAccessToken(u)
    PROVE  VersionStep
  <1>1. ASSUME NEW c \in Claims, c.ver <= users[c.user].ver
        PROVE  c.ver <= users'[c.user].ver
    <2>1. c.user \in Users /\ c.ver \in Nat /\ users[c.user].ver \in Nat /\ users'[c.user].ver \in Nat
      BY DEF TypeOK, Claims, User
    <2> QED
      BY <1>1, <2>1
  <1>2. \A u \in Users : /\ issueAccessToken(u) \in Claims
                         /\ issueAccessToken(u).ver <= users[issueAccessToken(u).user].ver
    BY DEF TypeOK, User, Claims, issueAccessToken
  <1>3. \A c \in access' : c.ver <= users'[c.user].ver
    <2> SUFFICES ASSUME NEW c \in access' PROVE c.ver <= users'[c.user].ver
      OBVIOUS
    <2>1. CASE c \in access
      BY <1>1, <2>1 DEF TypeOK, VersionInv
    <2>2. CASE \E p \in Reqs : c = req[p].claims /\ c \in Claims
      <3>1. PICK p \in Reqs : c = req[p].claims /\ c \in Claims
        BY <2>2
      <3>2. c # NoUser
        BY <3>1, NoClaimsAssumption
      <3> QED
        BY <1>1, <3>1, <3>2 DEF VersionInv
    <2> QED
      BY <2>1, <2>2
  <1>4. ASSUME NEW p \in Reqs, req'[p].claims # NoUser
        PROVE  req'[p].claims.ver <= users'[req'[p].claims.user].ver
    <2>1. req'[p].claims \in Claims
      BY <1>4 DEF TypeOK, Req
    <2>2. req'[p].claims.ver <= users[req'[p].claims.user].ver
      BY <1>2, <1>4 DEF VersionInv
    <2> QED
      BY <1>1, <2>1, <2>2
  <1> QED
    BY <1>3, <1>4 DEF VersionStep, VersionInv

(* Versions and claims over one step of any kind.                          *)
LEMMA VersionInductive ==
    ASSUME TypeOK, RequestInv, VersionInv, [Next]_vars
    PROVE  VersionStep
  <1>a. TypeOK'
    BY TypesInductive
  <1> DEFINE Grow == \A u \in Users : users[u].ver <= users'[u].ver
             Issue == \A c \in access' : \/ c \in access
                                         \/ \E p \in Reqs : c = req[p].claims /\ c \in Claims
             Carry == \A p \in Reqs : \/ req'[p].claims = NoUser
                                      \/ req'[p].claims = req[p].claims
                                      \/ req'[p].claims \in access
                                      \/ \E u \in Users : req'[p].claims = issueAccessToken(u)
  <1>b. SUFFICES Grow /\ Issue /\ Carry
    BY <1>a, VersionStepFrom
  <1>c. \A u \in Users : users[u].ver \in Nat
    BY DEF TypeOK, User
  <1>1. ASSUME NEW p \in Reqs, NEW u \in Users, LoginRead(p, u)
        PROVE  Grow /\ Issue /\ Carry
    BY <1>1, <1>c DEF LoginRead, TypeOK, Req, Idle
  <1>2. ASSUME NEW p \in Reqs, NEW t \in Tokens, LoginIssue(p, t)
        PROVE  Grow /\ Issue /\ Carry
    BY <1>2, <1>c DEF LoginIssue, RequestInv, TypeOK, Req, Idle
  <1>3. ASSUME NEW p \in Reqs, NEW t \in Tokens, RefreshLookup(p, t)
        PROVE  Grow /\ Issue /\ Carry
    BY <1>3, <1>c DEF RefreshLookup, TypeOK, Req, Idle
  <1>4. ASSUME NEW p \in Reqs, ConsumeRefreshToken(p)
        PROVE  Grow /\ Issue /\ Carry
    BY <1>4, <1>c DEF ConsumeRefreshToken, TypeOK, Req, Idle
  <1>5. ASSUME NEW p \in Reqs, RefreshLoadUser(p)
        PROVE  Grow /\ Issue /\ Carry
    <2>1. \A q \in Reqs \ {p} : req'[q] = req[q]
      BY <1>5 DEF RefreshLoadUser, TypeOK
    <2>2. req[p].user \in Users
      BY <1>5 DEF RefreshLoadUser, RequestInv
    <2>3. req'[p].claims \in {NoUser, issueAccessToken(req[p].user)}
      <3>1. CASE users[req[p].user].status = "ACTIVE"
        BY <1>5, <3>1 DEF RefreshLoadUser, TypeOK, Req
      <3>2. CASE users[req[p].user].status # "ACTIVE"
        BY <1>5, <3>2 DEF RefreshLoadUser, TypeOK, Idle
      <3> QED
        BY <3>1, <3>2
    <2> QED
      BY <1>5, <1>c, <2>1, <2>2, <2>3 DEF RefreshLoadUser
  <1>6. ASSUME NEW p \in Reqs, NEW t \in Tokens, RefreshCommit(p, t)
        PROVE  Grow /\ Issue /\ Carry
    BY <1>6, <1>c DEF RefreshCommit, RequestInv, TypeOK, Req, Idle
  <1>7. ASSUME NEW p \in Reqs, ReplayDelete(p)
        PROVE  Grow /\ Issue /\ Carry
    <2>1. \A q \in Reqs : req'[q].claims = req[q].claims
      BY <1>7 DEF ReplayDelete, TypeOK, Req
    <2> QED
      BY <1>7, <1>c, <2>1 DEF ReplayDelete
  <1>8. ASSUME NEW p \in Reqs, LogoutAllDelete(p)
        PROVE  Grow /\ Issue /\ Carry
    <2>1. \A q \in Reqs : req'[q].claims = req[q].claims
      BY <1>8 DEF LogoutAllDelete, TypeOK, Req
    <2> QED
      BY <1>8, <1>c, <2>1 DEF LogoutAllDelete
  <1>9. ASSUME NEW p \in Reqs, ReplayCommit(p)
        PROVE  Grow /\ Issue /\ Carry
    BY <1>9, <1>c DEF ReplayCommit, RevokeCommit, IncrementUserTokenVersion, RequestInv, User, TypeOK, Req, Idle
  <1>10. ASSUME NEW p \in Reqs, LogoutAllCommit(p)
        PROVE  Grow /\ Issue /\ Carry
    BY <1>10, <1>c DEF LogoutAllCommit, RevokeCommit, IncrementUserTokenVersion, RequestInv, User, TypeOK, Req, Idle
  <1>11. ASSUME NEW p \in Reqs, RevokeUser(p)
        PROVE  Grow /\ Issue /\ Carry
    BY <1>11, <1>c DEF RevokeUser, TypeOK, Req, Idle
  <1>12. ASSUME NEW p \in Reqs, NEW c \in access, AuthMiddleware(p, c)
        PROVE  Grow /\ Issue /\ Carry
    BY <1>12, <1>c DEF AuthMiddleware, TypeOK, Req, Idle
  <1>13. ASSUME NEW p \in Reqs, OpenStream(p)
        PROVE  Grow /\ Issue /\ Carry
    BY <1>13, <1>c DEF OpenStream, TypeOK, Req, Idle
  <1>14. ASSUME NEW p \in Reqs, ToggleTOTP(p)
        PROVE  Grow /\ Issue /\ Carry
    <2>1. Grow
      <3>1. CASE users' = IncrementUserTokenVersion(req[p].user)
        BY <1>c, <3>1 DEF IncrementUserTokenVersion, TypeOK, User
      <3>2. CASE users' = users
        BY <1>c, <3>2
      <3> QED
        BY <1>14, <3>1, <3>2 DEF ToggleTOTP
    <2>2. Issue /\ Carry
      BY <1>14 DEF ToggleTOTP, TypeOK, Req, Idle
    <2> QED
      BY <2>1, <2>2
  <1>15. ASSUME NEW p \in Reqs, ChangePassword(p)
        PROVE  Grow /\ Issue /\ Carry
    BY <1>15, <1>c DEF ChangePassword, RequestInv, User, TypeOK, Req, Idle
  <1>16. ASSUME NEW p \in Reqs, RequestEnds(p)
        PROVE  Grow /\ Issue /\ Carry
    BY <1>16, <1>c DEF RequestEnds, TypeOK, Req, Idle
  <1>17. ASSUME NEW t \in Tokens, RevokeRefreshToken(t)
        PROVE  Grow /\ Issue /\ Carry
    BY <1>17, <1>c DEF RevokeRefreshToken, TypeOK, Req, Idle
  <1>18. ASSUME NEW t \in Tokens, ExpireRefreshToken(t)
        PROVE  Grow /\ Issue /\ Carry
    BY <1>18, <1>c DEF ExpireRefreshToken, TypeOK, Req, Idle
  <1>19. ASSUME NEW u \in Users, AccountWrite(u)
        PROVE  Grow /\ Issue /\ Carry
    <2>1. users' \in [Users -> User] /\ \A v \in Users : users'[v].ver = users[v].ver
      <3>1. CASE \E r \in Roles : users' = [users EXCEPT ![u].role = r]
        BY <3>1 DEF TypeOK, User
      <3>2. CASE \E s \in Statuses : users' = [users EXCEPT ![u].status = s]
        BY <3>2 DEF TypeOK, User
      <3> QED
        BY <1>19, <3>1, <3>2 DEF AccountWrite
    <2> QED
      BY <1>19, <1>c, <2>1 DEF AccountWrite
  <1>20. ASSUME NEW c \in access, ExpireAccessToken(c)
        PROVE  Grow /\ Issue /\ Carry
    BY <1>20, <1>c DEF ExpireAccessToken, TypeOK, Req, Idle
  <1>21. CASE Restart
    BY <1>21, <1>c DEF Restart, Idle
  <1>22. CASE UNCHANGED vars
    BY <1>22, <1>c DEF vars
  <1>23. ASSUME NEW p \in Reqs, NEW t \in Tokens, DeleteRow(p, t)
        PROVE  Grow /\ Issue /\ Carry
    BY <1>23, <1>c DEF DeleteRow, TypeOK, Req
  <1>24. ASSUME NEW p \in Reqs, BumpVersion(p)
        PROVE  Grow /\ Issue /\ Carry
    BY <1>24, <1>c DEF BumpVersion, TypeOK, Req
  <1>25. ASSUME NEW p \in Reqs, DeadlockDetected(p)
        PROVE  Grow /\ Issue /\ Carry
    BY <1>25, <1>c DEF DeadlockDetected, TypeOK, Req, Idle
  <1> QED
    BY <1>1, <1>2, <1>3, <1>4, <1>5, <1>6, <1>7, <1>8, <1>9, <1>10, <1>11, <1>12,
       <1>13, <1>14, <1>15, <1>16, <1>17, <1>18, <1>19, <1>20, <1>21, <1>22, <1>23, <1>24, <1>25
       DEF Next, Handler, Arrival, Environment

(* A dead access token stays dead.                                         *)
THEOREM DeadTokens == Spec => DeadStaysDead
  <1>1. Init => TypeOK /\ RequestInv /\ VersionInv
    <2>1. Init => VersionInv
      BY DEF Init, VersionInv, Idle
    <2> QED
      BY <2>1, TypesInit
  <1>2. TypeOK /\ RequestInv /\ VersionInv /\ [Next]_vars => (TypeOK /\ RequestInv /\ VersionInv)'
    BY TypesInductive, VersionInductive DEF VersionStep
  <1>3. TypeOK /\ RequestInv /\ VersionInv /\ [Next]_vars
           => [\A c \in access : ~Valid(c) => ~Valid(c)']_vars
    <2> SUFFICES ASSUME TypeOK, RequestInv, VersionInv, [Next]_vars,
                        NEW c \in access, ~Valid(c)
                 PROVE  ~Valid(c)'
      OBVIOUS
    <2>1. TypeOK' /\ VersionStep
      BY TypesInductive, VersionInductive
    <2>2. c.user \in Users /\ c.ver \in Nat
      BY DEF TypeOK, Claims
    <2>3. users[c.user].ver \in Nat /\ users'[c.user].ver \in Nat
      BY <2>1, <2>2 DEF TypeOK, User
    <2>4. c.ver < users[c.user].ver /\ users[c.user].ver <= users'[c.user].ver
      BY <2>1, <2>2, <2>3 DEF VersionInv, VersionStep, Valid
    <2> QED
      BY <2>2, <2>3, <2>4 DEF Valid
  <1> QED
    BY <1>1, <1>2, <1>3, PTL DEF Spec, DeadStaysDead

(* When logout-all or replay detection commits, every access token of the  *)
(* user is dead, the ones in flight included.                              *)
THEOREM RevocationKills == Spec => RevocationKillsAccess
  <1> DEFINE Carried == {req[q].claims : q \in {q \in Reqs : req[q].claims # NoUser}}
  <1>1. Init => TypeOK /\ RequestInv /\ VersionInv
    <2>1. Init => VersionInv
      BY DEF Init, VersionInv, Idle
    <2> QED
      BY <2>1, TypesInit
  <1>2. TypeOK /\ RequestInv /\ VersionInv /\ [Next]_vars => (TypeOK /\ RequestInv /\ VersionInv)'
    BY TypesInductive, VersionInductive DEF VersionStep
  <1>3. ASSUME TypeOK, RequestInv, VersionInv, [Next]_vars, NEW p \in Reqs,
               req[p].pc \in Revoking, req'[p].pc \in {"close", "closeAgain"},
               NEW c \in access \cup Carried, c.user = req[p].user
        PROVE  ~Valid(c)'
    <2>1. ReplayCommit(p) \/ LogoutAllCommit(p)
      <3>1. ASSUME NEW q \in Reqs, NEW u \in Users, LoginRead(q, u) PROVE FALSE
        BY <1>3, <3>1 DEF Revoking, LoginRead, TypeOK, Req, Idle
      <3>2. ASSUME NEW q \in Reqs, NEW t \in Tokens, LoginIssue(q, t) PROVE FALSE
        BY <1>3, <3>2 DEF Revoking, LoginIssue, TypeOK, Req, Idle
      <3>3. ASSUME NEW q \in Reqs, NEW t \in Tokens, RefreshLookup(q, t) PROVE FALSE
        BY <1>3, <3>3 DEF Revoking, RefreshLookup, TypeOK, Req, Idle
      <3>4. ASSUME NEW q \in Reqs, ConsumeRefreshToken(q) PROVE FALSE
        BY <1>3, <3>4 DEF Revoking, ConsumeRefreshToken, TypeOK, Req, Idle
      <3>5. ASSUME NEW q \in Reqs, RefreshLoadUser(q) PROVE FALSE
        BY <1>3, <3>5 DEF Revoking, RefreshLoadUser, TypeOK, Req, Idle
      <3>6. ASSUME NEW q \in Reqs, NEW t \in Tokens, RefreshCommit(q, t) PROVE FALSE
        BY <1>3, <3>6 DEF Revoking, RefreshCommit, TypeOK, Req, Idle
      <3>7. ASSUME NEW q \in Reqs, ReplayDelete(q) PROVE FALSE
        BY <1>3, <3>7 DEF Revoking, ReplayDelete, TypeOK, Req, Idle
      <3>8. ASSUME NEW q \in Reqs, LogoutAllDelete(q) PROVE FALSE
        BY <1>3, <3>8 DEF Revoking, LogoutAllDelete, TypeOK, Req, Idle
      <3>9. ASSUME NEW q \in Reqs, RevokeUser(q) PROVE FALSE
        BY <1>3, <3>9 DEF Revoking, RevokeUser, TypeOK, Req, Idle
      <3>10. ASSUME NEW q \in Reqs, NEW d \in access, AuthMiddleware(q, d) PROVE FALSE
        BY <1>3, <3>10 DEF Revoking, AuthMiddleware, TypeOK, Req, Idle
      <3>11. ASSUME NEW q \in Reqs, OpenStream(q) PROVE FALSE
        BY <1>3, <3>11 DEF Revoking, OpenStream, TypeOK, Req, Idle
      <3>12. ASSUME NEW q \in Reqs, ToggleTOTP(q) PROVE FALSE
        BY <1>3, <3>12 DEF Revoking, ToggleTOTP, TypeOK, Req, Idle
      <3>13. ASSUME NEW q \in Reqs, ChangePassword(q) PROVE FALSE
        BY <1>3, <3>13 DEF Revoking, ChangePassword, TypeOK, Req, Idle
      <3>14. ASSUME NEW q \in Reqs, RequestEnds(q) PROVE FALSE
        BY <1>3, <3>14 DEF Revoking, RequestEnds, TypeOK, Req, Idle
      <3>15. ASSUME NEW t \in Tokens, RevokeRefreshToken(t) PROVE FALSE
        BY <1>3, <3>15 DEF Revoking, RevokeRefreshToken, TypeOK, Req, Idle
      <3>16. ASSUME NEW t \in Tokens, ExpireRefreshToken(t) PROVE FALSE
        BY <1>3, <3>16 DEF Revoking, ExpireRefreshToken, TypeOK, Req, Idle
      <3>17. ASSUME NEW u \in Users, AccountWrite(u) PROVE FALSE
        BY <1>3, <3>17 DEF Revoking, AccountWrite, TypeOK, Req, Idle
      <3>18. ASSUME NEW d \in access, ExpireAccessToken(d) PROVE FALSE
        BY <1>3, <3>18 DEF Revoking, ExpireAccessToken, TypeOK, Req, Idle
      <3>19. ASSUME NEW q \in Reqs, ReplayCommit(q) \/ LogoutAllCommit(q) PROVE q = p
        BY <1>3, <3>19 DEF Revoking, ReplayCommit, LogoutAllCommit, RevokeCommit, TypeOK, Req
      <3>20. CASE Restart \/ UNCHANGED vars
        BY <1>3, <3>20 DEF Revoking, Restart, vars, Idle
      <3>21. ASSUME NEW q \in Reqs, NEW t \in Tokens, DeleteRow(q, t) PROVE FALSE
        BY <1>3, <3>21 DEF Revoking, DeleteRow, TypeOK, Req
      <3>22. ASSUME NEW q \in Reqs, BumpVersion(q) PROVE FALSE
        BY <1>3, <3>22 DEF Revoking, BumpVersion, TypeOK, Req
      <3>23. ASSUME NEW q \in Reqs, DeadlockDetected(q) PROVE FALSE
        BY <1>3, <3>23 DEF Revoking, DeadlockDetected, TypeOK, Req, Idle
      <3> QED
        BY <1>3, <3>1, <3>2, <3>3, <3>4, <3>5, <3>6, <3>7, <3>8, <3>9, <3>10, <3>11, <3>12,
           <3>13, <3>14, <3>15, <3>16, <3>17, <3>18, <3>19, <3>20, <3>21, <3>22, <3>23
           DEF Next, Handler, Arrival, Environment
    <2>2. c \in Claims /\ c.ver <= users[c.user].ver
      BY <1>3 DEF TypeOK, Req, VersionInv
    <2>3. users[c.user].ver \in Nat /\ c.ver \in Nat /\ c.user \in Users
      BY <1>3, <2>2 DEF TypeOK, Claims, User
    <2>4. users'[c.user].ver = users[c.user].ver + 1
      BY <1>3, <2>1, <2>3 DEF ReplayCommit, LogoutAllCommit, RevokeCommit, IncrementUserTokenVersion, TypeOK, User
    <2> QED
      BY <2>2, <2>3, <2>4 DEF Valid
  <1>4. TypeOK /\ RequestInv /\ VersionInv /\ [Next]_vars
           => [\A p \in Reqs :
                 req[p].pc \in Revoking /\ req'[p].pc \in {"close", "closeAgain"} =>
                    \A c \in access \cup {req[q].claims : q \in {q \in Reqs : req[q].claims # NoUser}} :
                       c.user = req[p].user => ~Valid(c)']_vars
    BY <1>3
  <1> QED
    BY <1>1, <1>2, <1>4, PTL DEF Spec, RevocationKillsAccess
=============================================================================
