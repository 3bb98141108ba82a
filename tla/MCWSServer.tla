----------------------------- MODULE MCWSServer -----------------------------
(* Instances of WSServer for TLC. *)
EXTENDS WSServer

ThreeClients == {1, 2, 3}
ToTheSecond == [r \in Rows |-> 2]
=============================================================================
