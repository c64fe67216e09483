----------------------------- MODULE MCServices -----------------------------
(***************************************************************************)
(* Five components that share no state, checked side by side: a behaviour  *)
(* picks one of them and takes steps of it alone.  What holds of every     *)
(* behaviour of this specification holds of every behaviour of each of the *)
(* five.  The constants of an instance are those of the five modules.      *)
(***************************************************************************)
EXTENDS Accounts, MasterKey, MCAuditChain, MCAutomation, LoginGuard, TLC

VARIABLE part

Parts == {"accounts", "key", "audit", "automation", "guard"}

Init ==
    /\ part \in Parts
    /\ AccountsInit /\ KeyInit /\ ChainInit /\ RunsInit /\ GuardInit
    /\ part # "key" => file = NoKey /\ legacy = NoKey /\ ~blocked
    /\ part # "audit" => rows = << >>

Next ==
    \/ /\ part = "accounts" /\ AccountsNext
       /\ UNCHANGED <<part, keyVars, chainVars, runVars, guardVars>>
    \/ /\ part = "key" /\ KeyNext
       /\ UNCHANGED <<part, accountVars, chainVars, runVars, guardVars>>
    \/ /\ part = "audit" /\ ChainNext
       /\ UNCHANGED <<part, accountVars, keyVars, runVars, guardVars>>
    \/ /\ part = "automation" /\ RunsNext
       /\ UNCHANGED <<part, accountVars, keyVars, chainVars, guardVars>>
    \/ /\ part = "guard" /\ GuardNext
       /\ UNCHANGED <<part, accountVars, keyVars, chainVars, runVars>>

Spec == Init /\ [][Next]_<<part, accountVars, keyVars, chainVars, runVars, guardVars>>

(* Concurrent logins and enrolments are interchangeable.                   *)
Symmetry == Permutations(Callers)
=============================================================================
