--------------------------- MODULE MCTpFlowManager ---------------------------
(* Two pairs, each of whose clients ends twice; freed memory holds anything. *)
EXTENDS TpFlowManager
=============================================================================
