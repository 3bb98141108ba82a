--------------------------- MODULE TrayPipeClaims ---------------------------
(* What the program says of a second qiperfd. *)
EXTENDS TrayPipe

(* "accept args from anther qiperd" (onPipeMessage), "Another server is    *)
(* running! Get args and send to the server" (main): a daemon that is      *)
(* handed arguments goes on; it ends for a restart only.                   *)
ArgsAreAccepted == [][alive /\ ~alive' => restarting]_vars
=============================================================================
