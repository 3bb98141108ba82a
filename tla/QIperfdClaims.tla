---------------------------- MODULE QIperfdClaims ----------------------------
(***************************************************************************)
(* What comments, headers and the change log say of qiperfd, stated over   *)
(* QIperfd.  Each of these is violated by what the code does; the README   *)
(* tells the shortest behaviour that shows it.                             *)
(***************************************************************************)
EXTENDS MCQIperfd

\* src/src/comm.h:67, CMD_IPERF_ADD "add iperf setting": an ADD adds a thread
\* to the registry and replaces none.  The index is the number of entries, so
\* once an entry was deleted the next ADD may hit one that is in use.
AddReplacesNothing ==
  [][\A m \in Mode : \A k \in DOMAIN threads[m] \cap DOMAIN threads'[m] :
       threads'[m][k] = threads[m][k]]_vars

\* src/qiperfd/src/qiperfd.cpp:402, del() is to "delete specify m_iperfworkers
\* & m_threads": the thread that del() ends is that of the worker whose iperf
\* finished, which is then on its way out of work().  onFinished passes
\* the refrow where the maps have indices.
DelEndsFinishedWorker ==
  [][\A n \in Worker : mpc'.at = "del" /\ mpc'.of = n /\ mpc.at = "ready" => mstop[n]]_vars

\* src/qiperfd/src/qiperfd.cpp:632, clear() deletes each worker with the remark
\* "Ensure value is valid": the objects clear() uses are valid.
ClearUsesValidObjects == ub = "none"

\* src/qiperfd/src/qiperfd.h:80, stopAll() is to "stop all iperfs": no iperf runs
\* on behalf of a worker that was stopped and is gone.
NoIperfOutlivesWorker == \A n \in Worker : obj[n] = "deleted" => orphan[n] = 0

\* src/qiperfd/src/qiperfd.cpp:1510, RESTART names a "refrow number": it restarts
\* the iperf of that row, not those of other rows.
OneRowRestarted ==
  [][\A n, o \in Worker :
       /\ Len(inbox'[n]) > Len(inbox[n]) /\ inbox'[n][Len(inbox'[n])] = "setReStart"
       /\ Len(inbox'[o]) > Len(inbox[o]) /\ inbox'[o][Len(inbox'[o])] = "setReStart"
       => n = o]_vars

\* The daemon with onSelfDestructor, under the fairness of its timer.
NextWithTimer ==
  Next \/ \E n \in Worker : OnSelfDestructor(n) /\ UNCHANGED mainVars
TimerSpec ==
  /\ Init /\ [][NextWithTimer]_vars /\ Fairness
  /\ \A n \in Worker : WF_vars(OnSelfDestructor(n) /\ UNCHANGED mainVars)

\* src/debian/changelog: "add self-destruction timer in 10 sec when iperf server
\* did not connected by iperf client".  An iperf server that no client
\* connects to prints nothing, and is stopped.
UnusedServerStops ==
  \A n \in Worker : home[n].mode = "S" /\ proc[n] = "up" ~> proc[n] # "up"
=============================================================================
