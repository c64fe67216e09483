---------------------------- MODULE RefreshFamily ----------------------------
(***************************************************************************)
(* What refresh-token rotation promises, without requests, rows or locks:  *)
(* a family starts with one live token, the live token is exchanged for    *)
(* exactly one new one, and a family without a live token stays that way.  *)
(***************************************************************************)
CONSTANTS Token, NoFamily

VARIABLES
    family,   \* the family of a token, NoFamily before it is issued
    live      \* the tokens that can be exchanged

famVars == <<family, live>>

FamInit ==
    /\ family = [t \in Token |-> NoFamily]
    /\ live = {}

(* A login issues the first token of a new family, which bears its name.   *)
Open(t) ==
    /\ family[t] = NoFamily
    /\ family' = [family EXCEPT ![t] = t]
    /\ live' = live \cup {t}

(* A refresh exchanges a live token for a fresh one of the same family.    *)
Rotate(t, s) ==
    /\ t \in live
    /\ family[s] = NoFamily
    /\ family' = [family EXCEPT ![s] = family[t]]
    /\ live' = (live \ {t}) \cup {s}

(* Logout, logout-all and replay detection end some live tokens.           *)
Close(S) ==
    /\ S \subseteq live
    /\ live' = live \ S
    /\ UNCHANGED family

FamNext ==
    \/ \E t \in Token : Open(t)
    \/ \E t, s \in Token : Rotate(t, s)
    \/ \E S \in SUBSET live : Close(S)

FamSpec == FamInit /\ [][FamNext]_famVars

(* A family has at most one live token.                                    *)
OneLive == \A t, s \in live : family[t] = family[s] => t = s

(* A family that has lost its live token never gets one again.             *)
ClosedStaysClosed ==
    [][\A f \in Token : (\E t \in Token : family[t] = f) /\ (\A t \in live : family[t] # f)
          => \A t \in live' : family'[t] # f]_famVars
==============================================================================
