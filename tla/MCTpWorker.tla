------------------------------ MODULE MCTpWorker ------------------------------
(* Instances of TpWorker for TLC.                                          *)
EXTENDS TpWorker

Pair(s, c) == [r \in Role |-> IF r = "S" THEN s ELSE c]

\* One pair between two hosts.
OnePair == <<Pair(1, 2)>>

\* A pair whose server and client are on one host: two connections to it.
OneHost == <<Pair(1, 1)>>

\* Two pairs from one client host to one server host.
Parallel == <<Pair(1, 2), Pair(1, 2)>>
=============================================================================
