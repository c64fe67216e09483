------------------------------ MODULE Accounts ------------------------------
(***************************************************************************)
(* User accounts: the first administrator created when the server starts   *)
(* on an empty database (cmd/server/main.go), invitations                  *)
(* (internal/core/invite), the role and status updates of administrators   *)
(* with their last-administrator check (internal/server/handlers/users.go) *)
(* and the password change that retires the bootstrap secret.              *)
(*                                                                         *)
(* Every statement of a handler runs on its own (autocommit), so the read  *)
(* of the target, the count of administrators and the write are three      *)
(* steps between which other requests run.                                 *)
(*                                                                         *)
(* SafekeepingProofs and MCServices extend this module beside others,      *)
(* hence the prefix of AccountsInit, AccountsNext and AccountsSpec.        *)
(***************************************************************************)
EXTENDS FiniteSets

CONSTANTS
    Users,            \* e-mail addresses; each has at most one account (UNIQUE)
    Root,             \* INITIAL_ADMIN_EMAIL
    Reqs,             \* concurrent role and status updates
    StatusRequests    \* statuses that administrators send to UpdateStatus

ASSUME AccountsAssumption ==
    /\ Root \in Users
    /\ StatusRequests \subseteq {"ACTIVE", "DEACTIVATED", "INVITED"}

VARIABLES
    acct,     \* users rows
    inv,      \* user_invites rows; a user has at most one
    sess,     \* users who hold an unexpired access token with role ADMIN
    boot,     \* what the server process does: bootstrap statements, then serving
    secret,   \* bootstrap-admin.txt exists
    req       \* role and status updates in progress; crossed: another one has been
              \* written since this one counted, or found no need to count

accountVars == <<acct, inv, sess, boot, secret, req>>

Roles == {"ADMIN", "VERTRIEB"}

(* st "none": there is no row.  pw tells who knows the password: nobody    *)
(* ("discarded", the random one of an invited account), whoever reads the  *)
(* bootstrap secret ("generated"), or the owner ("chosen").                *)
Account == [st : {"none", "ACTIVE", "INVITED", "DEACTIVATED"}, role : Roles,
            pw : {"discarded", "generated", "chosen"}, must : BOOLEAN]

NoAccount == [st |-> "none", role |-> "VERTRIEB", pw |-> "discarded", must |-> FALSE]

Req == [pc : {"idle", "count", "role", "status"}, op : {"role", "status"},
        target : Users, arg : Roles \cup StatusRequests, crossed : BOOLEAN]

AccountsTypeOK ==
    /\ acct \in [Users -> Account]
    /\ inv \in [Users -> {"none", "active", "expired", "consumed"}]
    /\ sess \subseteq Users
    /\ boot \in {"start", "createRandom", "createEnv", "flag", "serving"}
    /\ secret \in BOOLEAN
    /\ req \in [Reqs -> Req]

IdleReq == [pc |-> "idle", op |-> "role", target |-> Root, arg |-> "ADMIN",
            crossed |-> FALSE]

Accounts == {u \in Users : acct[u].st # "none"}

ActiveAdmins == {u \in Users : acct[u].role = "ADMIN" /\ acct[u].st = "ACTIVE"}

AccountsInit ==
    /\ acct = [u \in Users |-> NoAccount]
    /\ inv = [u \in Users |-> "none"]
    /\ sess = {}
    /\ boot = "start"
    /\ secret = FALSE
    /\ req = [p \in Reqs |-> IdleReq]

(***************************************************************************)
(* Start-up: bootstrapAdminUser runs before the router serves requests.    *)
(* On an empty users table it takes INITIAL_ADMIN_PASSWORD or generates a  *)
(* password and writes it to the secret file; a failed write is logged and *)
(* the account is created all the same.                                    *)
(***************************************************************************)
BootstrapSecret ==
    /\ boot = "start"
    /\ Accounts = {}
    /\ \/ boot' = "createEnv" /\ UNCHANGED secret
       \/ boot' = "createRandom" /\ secret' \in {TRUE, secret}
    /\ UNCHANGED <<acct, inv, sess, req>>

(* bootstrapAdminUser does nothing when there are accounts, and nothing    *)
(* either when it cannot count them: the server then serves whatever is    *)
(* there, an empty users table included.                                   *)
BootstrapSkip ==
    /\ boot = "start"
    /\ boot' = "serving"
    /\ UNCHANGED <<acct, inv, sess, secret, req>>

BootstrapCreate ==
    /\ boot \in {"createRandom", "createEnv"}
    /\ acct' = [acct EXCEPT ![Root] =
          [st |-> "ACTIVE", role |-> "ADMIN", must |-> FALSE,
           pw |-> IF boot = "createRandom" THEN "generated" ELSE "chosen"]]
    /\ boot' = "flag"
    /\ UNCHANGED <<inv, sess, secret, req>>

(* SetUserMustChangePassword; its failure is only logged.                  *)
BootstrapFlag ==
    /\ boot = "flag"
    /\ acct' \in {acct, [acct EXCEPT ![Root].must = TRUE]}
    /\ boot' = "serving"
    /\ UNCHANGED <<inv, sess, secret, req>>

(* The process ends at any point and is started again.                     *)
Restart ==
    /\ boot' = "start"
    /\ req' = [p \in Reqs |-> IdleReq]
    /\ UNCHANGED <<acct, inv, sess, secret>>

(***************************************************************************)
(* Sessions, as far as the handlers below look at them: the role is the    *)
(* one in the access token, which Sessions.tla describes.                  *)
(***************************************************************************)
(* Deliberately wrong variant (mutant): the password is not checked.       *)
LoginWithoutPassword(u) ==
    /\ boot = "serving"
    /\ u \in ActiveAdmins
    /\ sess' = sess \cup {u}
    /\ UNCHANGED <<acct, inv, boot, secret, req>>

Login(u) ==
    /\ boot = "serving"
    /\ u \in ActiveAdmins
    /\ acct[u].pw # "discarded"
    /\ sess' = sess \cup {u}
    /\ UNCHANGED <<acct, inv, boot, secret, req>>

ExpireToken(u) ==
    /\ u \in sess
    /\ sess' = sess \ {u}
    /\ UNCHANGED <<acct, inv, boot, secret, req>>

(* ChangePassword of a user who knows the old password.  Clearing the flag *)
(* may fail unnoticed; the bootstrap secret is removed whoever the user is.*)
ChangePassword(u) ==
    /\ boot = "serving"
    /\ acct[u].st # "none"
    /\ acct[u].pw # "discarded"
    /\ \E m \in {FALSE, acct[u].must} :
          acct' = [acct EXCEPT ![u].pw = "chosen", ![u].must = m]
    /\ secret' \in {FALSE, secret}
    /\ UNCHANGED <<inv, sess, boot, req>>

(***************************************************************************)
(* Invitations.  Issue creates the INVITED account and its invite in one   *)
(* statement; Accept consumes the invite and activates the account in one. *)
(***************************************************************************)
Issue(a, u, role) ==
    /\ boot = "serving"
    /\ a \in sess
    /\ acct[u].st = "none"        \* users.email is UNIQUE
    /\ acct' = [acct EXCEPT ![u] = [st |-> "INVITED", role |-> role,
                                    pw |-> "discarded", must |-> FALSE]]
    /\ inv' = [inv EXCEPT ![u] = "active"]
    /\ UNCHANGED <<sess, boot, secret, req>>

(* Deliberately wrong variant (mutant): the invite is not consumed.        *)
AcceptKeepsInvite(u) ==
    /\ boot = "serving"
    /\ inv[u] = "active"
    /\ acct' = [acct EXCEPT ![u].st = "ACTIVE", ![u].pw = "chosen"]
    /\ UNCHANGED <<inv, sess, boot, secret, req>>

Accept(u) ==
    /\ boot = "serving"
    /\ inv[u] = "active"
    /\ inv' = [inv EXCEPT ![u] = "consumed"]
    /\ acct' = [acct EXCEPT ![u].st = "ACTIVE", ![u].pw = "chosen"]
    /\ UNCHANGED <<sess, boot, secret, req>>

ExpireInvite(u) ==
    /\ inv[u] = "active"
    /\ inv' = [inv EXCEPT ![u] = "expired"]
    /\ UNCHANGED <<acct, sess, boot, secret, req>>

(***************************************************************************)
(* Role and status updates: read the target, count the other active        *)
(* administrators when the update takes one away, write.                   *)
(***************************************************************************)
UpdateRole(p, a, u, role) ==
    /\ boot = "serving"
    /\ req[p].pc = "idle"
    /\ a \in sess
    /\ acct[u].st # "none"
    /\ req' = [req EXCEPT ![p] =
          [pc |-> IF acct[u].role = "ADMIN" /\ role # "ADMIN" THEN "count" ELSE "role",
           op |-> "role", target |-> u, arg |-> role, crossed |-> FALSE]]
    /\ UNCHANGED <<acct, inv, sess, boot, secret>>

(* Deliberately wrong variant (mutant): deactivation is not checked.       *)
UpdateStatusUnchecked(p, a, u, status) ==
    /\ boot = "serving"
    /\ req[p].pc = "idle"
    /\ a \in sess
    /\ acct[u].st # "none"
    /\ req' = [req EXCEPT ![p] =
          [pc |-> "status", op |-> "status", target |-> u, arg |-> status, crossed |-> FALSE]]
    /\ UNCHANGED <<acct, inv, sess, boot, secret>>

UpdateStatus(p, a, u, status) ==
    /\ boot = "serving"
    /\ req[p].pc = "idle"
    /\ a \in sess
    /\ acct[u].st # "none"
    /\ req' = [req EXCEPT ![p] =
          [pc |-> IF acct[u].role = "ADMIN" /\ status = "DEACTIVATED" THEN "count" ELSE "status",
           op |-> "status", target |-> u, arg |-> status, crossed |-> FALSE]]
    /\ UNCHANGED <<acct, inv, sess, boot, secret>>

(* The last-administrator check.  Without another active administrator     *)
(* the request is refused; so it is when ListUsers fails, which counts as  *)
(* none (UpdateFails).                                                     *)
CountActiveAdmins(p) ==
    /\ req[p].pc = "count"
    /\ req' = [req EXCEPT ![p] =
          IF ActiveAdmins \ {req[p].target} # {}
          THEN [req[p] EXCEPT !.pc = req[p].op, !.crossed = FALSE]
          ELSE IdleReq]
    /\ UNCHANGED <<acct, inv, sess, boot, secret>>

(* What an update leaves of the others: they have read what is no more.    *)
Written(p) ==
    [q \in Reqs |-> IF q = p \/ req[q].pc = "idle" THEN IdleReq
                    ELSE [req[q] EXCEPT !.crossed = TRUE]]

UpdateUserRole(p) ==
    /\ req[p].pc = "role"
    /\ acct' = [acct EXCEPT ![req[p].target].role = req[p].arg]
    /\ req' = Written(p)
    /\ UNCHANGED <<inv, sess, boot, secret>>

UpdateUserStatus(p) ==
    /\ req[p].pc = "status"
    /\ acct' = [acct EXCEPT ![req[p].target].st = req[p].arg]
    /\ req' = Written(p)
    /\ UNCHANGED <<inv, sess, boot, secret>>

(* A failed statement ends the request.                                    *)
UpdateFails(p) ==
    /\ req[p].pc # "idle"
    /\ req' = [req EXCEPT ![p] = IdleReq]
    /\ UNCHANGED <<acct, inv, sess, boot, secret>>

AccountsNext ==
    \/ BootstrapSecret \/ BootstrapSkip \/ BootstrapCreate \/ BootstrapFlag
    \/ Restart
    \/ \E u \in Users :
          \/ Login(u) \/ ExpireToken(u) \/ ChangePassword(u)
          \/ Accept(u) \/ ExpireInvite(u)
          \/ \E a \in Users, role \in Roles : Issue(a, u, role)
    \/ \E p \in Reqs :
          \/ \E a \in Users, u \in Users :
                \/ \E role \in Roles : UpdateRole(p, a, u, role)
                \/ \E status \in StatusRequests : UpdateStatus(p, a, u, status)
          \/ CountActiveAdmins(p) \/ UpdateUserRole(p) \/ UpdateUserStatus(p)
          \/ UpdateFails(p)

AccountsSpec == AccountsInit /\ [][AccountsNext]_accountVars

(***************************************************************************)
(* Properties.                                                             *)
(***************************************************************************)
(* Last-administrator protection, as UpdateRole and UpdateStatus promise   *)
(* it: an update never leaves the accounts without an active               *)
(* administrator.  The code does not keep it.                              *)
AnActiveAdminRemains == [][ActiveAdmins # {} => ActiveAdmins' # {}]_accountVars

(* What the two handlers do keep: whatever bootstrap, invitations, restarts*)
(* and other updates do in between, the last active administrator is taken *)
(* away only by an update that crossed another one (which was written      *)
(* after this one had counted, or had found no need to count), or by the   *)
(* status INVITED, which the check lets pass.                              *)
LastAdminFallsByCrossing ==
    [][ActiveAdmins # {} /\ ActiveAdmins' = {} =>
          \E p \in Reqs : /\ req[p].pc \in {"role", "status"}
                          /\ req'[p].pc = "idle"
                          /\ req[p].crossed \/ req[p].arg = "INVITED"]_accountVars

(* An invited account cannot log in before its invite is accepted, whatever*)
(* administrators do to its role and status in between: whoever holds an   *)
(* administrator's token consumed an invite or is the bootstrap account.   *)
NoLoginBeforeAcceptance == \A u \in sess : u = Root \/ inv[u] = "consumed"

(* An invite activates its account once: a password chosen through Accept  *)
(* is never replaced by a second acceptance, so an account an administrator*)
(* deactivates after it was activated comes back only by UpdateUserStatus. *)
AcceptedAccountStaysDown ==
    [][\A u \in Users :
          acct[u].st = "DEACTIVATED" /\ acct[u].pw = "chosen" /\ acct'[u].st = "ACTIVE" =>
             \E p \in Reqs : req[p].pc = "status" /\ req[p].target = u /\ req[p].arg = "ACTIVE"]_accountVars
=============================================================================
