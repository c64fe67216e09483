----------------------------- MODULE MCEmailSync -----------------------------
(* Instance of EmailSync: two mails and one that cannot be parsed arrive in   *)
(* the mailbox the account is created with; a second mailbox is one to move   *)
(* to.                                                                        *)
EXTENDS EmailSync, TLC

CONSTANTS x, y, m1, m2, bad, i1, i2

MCMailId == [m \in Mails |-> ((m1 :> i1) @@ (m2 :> i2) @@ (bad :> i2))[m]]
MCHomes == [m \in Mails |-> ((m1 :> {x}) @@ (m2 :> {x}) @@ (bad :> {x}))[m]]
MCImapBox == [a \in Accounts |-> x]

==============================================================================
