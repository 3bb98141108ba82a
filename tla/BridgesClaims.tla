---------------------------- MODULE BridgesClaims ----------------------------
(* A statement about the serial bridges that the code does not keep.       *)
EXTENDS Bridges

NoOtherView == {<<>>}

(* src/src/comm.h:90 says of CMD_SERIAL_DEL "close SERAIL of comport".  A  *)
(* DEL that the daemon reads together with its ADD finds nothing to close; *)
(* then the posted init runs, and the device is open with no task          *)
(* registered for it (CMD_SERIAL_DEL, SerialTask::init).                   *)
DelCloses ==
  posted = <<>> =>
    \A n \in DOMAIN tasks :
      tasks[n].dev = "open" => tasks[n].key \in DOMAIN registry /\ registry[tasks[n].key] = n
=============================================================================
