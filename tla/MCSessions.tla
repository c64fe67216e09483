----------------------------- MODULE MCSessions -----------------------------
(* Instances of Sessions for TLC, with the refinement of RefreshFamily.    *)
EXTENDS Sessions, TLC
=============================================================================
