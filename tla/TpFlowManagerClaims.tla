------------------------- MODULE TpFlowManagerClaims -------------------------
(* What the comments of the restart say, where the code does otherwise.    *)
EXTENDS TpFlowManager

\* qiperfc/src/tpworker.cpp:875, onStatusReady: "ask iperf client restart".  A
\* server that is ready gets its client restarted.  The signal carries m_refrow,
\* which nothing ever sets, so that onStatusReady finds no pair.
ReadyRestartsClient ==
  \A p \in Pairs : (\E i \in DOMAIN answers[p] : answers[p][i] = "StatusReady") =>
                     \E i \in DOMAIN told : told[i] = p
=============================================================================
