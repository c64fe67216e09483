----------------------------- MODULE MCLauncher -----------------------------
(* Instance of Launcher: a request of the control centre beside a command. *)
EXTENDS Launcher

=============================================================================
