------------------------------ MODULE MCBackup ------------------------------
(* Instance of Backup: a company, a contact and a logged AI call.         *)
EXTENDS Backup

\* The fixed order of the registry is safe for every declared foreign key.
ASSUME RegistryIsForeignKeySafe ==
    \A k \in ForeignKeys :
        \E i, j \in 1..Len(TableSpecs) :
            i < j /\ TableSpecs[i] = k[2] /\ TableSpecs[j] = k[1]

\* The walk over the kept tables is the registry's own order.
ASSUME OrderIsTheRegistrys ==
    KeptInOrder = SelectSeq(TableSpecs, LAMBDA t : t \in Kept)

MCKept == {"companies", "contacts", "audit_logs", "ai_audit_logs"}

=============================================================================
