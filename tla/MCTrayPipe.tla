----------------------------- MODULE MCTrayPipe -----------------------------
(* Instances of TrayPipe for TLC. *)
EXTENDS TrayPipe
=============================================================================
