---------------------------- MODULE TpFlowManager ----------------------------
(***************************************************************************)
(* How the console restarts a pair: onIperfExtendWait and onStatusReady of *)
(* qiperfc/src/tpworker.cpp and the flow manager between them              *)
(* (qiperfc/src/tpflowmanager.cpp), which polls until the server has       *)
(* restarted or 10 s are over.  A pair is a number by the sorted order of  *)
(* its bind key.                                                           *)
(***************************************************************************)
EXTENDS Naturals, Sequences, FiniteSets

CONSTANTS
  Pairs,       \* the pairs of the test
  MaxRequests, \* how often the client of a pair asks for more time
  Garbage      \* what a read of freed memory may give beside the status itself

Status == {"init", "started", "stoped", "restarted"}

ASSUME TpFlowManagerAssumption ==
  /\ Pairs \subseteq Nat \ {0} /\ MaxRequests \in Nat
  /\ Garbage \subseteq Status \cup {"crash"}

VARIABLES
  alive,       \* the console runs
  error,       \* errorStop was emitted
  status,      \* m_status_server
  requests,    \* requests[p]: EXTEND_WAIT messages on their way to the console
  emitted,     \* emitted[p]: how many were sent
  restarts,    \* restarts[p]: RESTART commands on their way to the server of p
  reports,     \* reports[p]: what the daemon of that server has sent
  watch,       \* m_activeMonitors: "no", or whether 10 s are over
  timer,       \* m_pollingTimer is active
  scan,        \* checkStatusAndTimeout: the iterator, 0 outside; keysToRemove
  accepted,    \* accepted[p]: how often p was put into m_activeMonitors
  answers,     \* answers[p]: the signals StatusReady and WaitTimeout for p
  told         \* the pairs whose clients were told to restart, in order

vars == <<alive, error, status, requests, emitted, restarts, reports,
          watch, timer, scan, accepted, answers, told>>
pairVars == <<error, status, requests, emitted, restarts, reports>>
flowVars == <<watch, timer, scan, accepted, answers, told>>

Init ==
  /\ alive = TRUE /\ error = FALSE
  /\ status = [p \in Pairs |-> "started"]
  /\ requests = [p \in Pairs |-> 0] /\ emitted = requests /\ restarts = requests
  /\ reports = [p \in Pairs |-> <<>>]
  /\ watch = [p \in Pairs |-> "no"] /\ timer = FALSE
  /\ scan = [at |-> 0, marked |-> {}]
  /\ accepted = requests /\ answers = reports /\ told = <<>>

Watched == {p \in Pairs : watch[p] # "no"}
Lowest(S) == CHOOSE p \in S : \A q \in S : p <= q

-----------------------------------------------------------------------------
(* The daemons.                                                            *)

(* The iperf client of p ends where its restart rule applies (onFinished). *)
ClientEnds(p) ==
  /\ emitted[p] < MaxRequests
  /\ emitted' = [emitted EXCEPT ![p] = @ + 1]
  /\ requests' = [requests EXCEPT ![p] = @ + 1]
  /\ UNCHANGED <<alive, error, status, restarts, reports, flowVars>>

(* A RESTART starts the server again, which onStarted reports as RESTARTED *)
(* and work, right after it, as STARTED; a failure is reported to nobody.  *)
ServerRestarts(p) ==
  /\ restarts[p] > 0
  /\ restarts' = [restarts EXCEPT ![p] = @ - 1]
  /\ \E sent \in {<<"restarted", "started">>, <<>>} :
       reports' = [reports EXCEPT ![p] = @ \o sent]
  /\ UNCHANGED <<alive, error, status, requests, emitted, flowVars>>

-----------------------------------------------------------------------------
(* The slots of TpWorker for what the daemons send.                        *)

(* onIperfReStarted and onIperfStarted.                                    *)
OnReport(p) ==
  /\ alive /\ reports[p] # <<>>
  /\ status' = [status EXCEPT ![p] = Head(reports[p])]
  /\ reports' = [reports EXCEPT ![p] = Tail(@)]
  /\ UNCHANGED <<alive, error, requests, emitted, restarts, flowVars>>

\* Mutant: a key that is watched is watched anew.
StartMonitoringAnew(p) ==
  /\ watch' = [watch EXCEPT ![p] = "waiting"]
  /\ accepted' = [accepted EXCEPT ![p] = @ + 1]
  /\ timer' = TRUE

(* startMonitoringKey: ignored for a key that is watched.                  *)
StartMonitoring(p) ==
  IF p \in Watched
  THEN UNCHANGED <<watch, timer, accepted>>
  ELSE /\ watch' = [watch EXCEPT ![p] = "waiting"]
       /\ accepted' = [accepted EXCEPT ![p] = @ + 1]
       /\ timer' = TRUE

(* onIperfExtendWait: the server is told to restart, if it is still        *)
(* connected, and is watched; a WebSocket that fails ends the test.        *)
OnIperfExtendWait(p) ==
  /\ alive /\ requests[p] > 0
  /\ requests' = [requests EXCEPT ![p] = @ - 1]
  /\ \/ /\ \E sent \in {0, 1} : restarts' = [restarts EXCEPT ![p] = @ + sent]
        /\ StartMonitoring(p)
        /\ UNCHANGED error
     \/ /\ error' = TRUE
        /\ UNCHANGED <<restarts, watch, timer, accepted>>
  /\ UNCHANGED <<alive, status, emitted, reports, scan, answers, told>>

(* The next test begins: initStart clears m_status_server, and only that.  *)
InitStart ==
  /\ alive /\ \E p \in Pairs : status[p] # "init"
  /\ status' = [p \in Pairs |-> "init"]
  /\ UNCHANGED <<alive, error, requests, emitted, restarts, reports, flowVars>>

\* m_refrow: no caller of setRefrow gives it the row of a pair.
m_refrow == 0

(* onStatusReady: the client of the pair with that row is told to restart. *)
OnStatusReady(refrow, s) ==
  told' = IF refrow \in Pairs /\ s = "restarted" THEN Append(told, refrow) ELSE told

-----------------------------------------------------------------------------
(* The polling timer.                                                      *)

TimePasses(p) ==
  /\ watch[p] = "waiting"
  /\ watch' = [watch EXCEPT ![p] = "late"]
  /\ UNCHANGED <<alive, pairVars, timer, scan, accepted, answers, told>>

(* m_sharedStatusMap points to a parameter of initialize that is gone: the *)
(* read may give what is in the map, anything else, or end the console.    *)
Reads(p) == {status[p]} \cup Garbage

\* Mutant: the timer stops once anything was removed.
StopsTimerEarly(marked) == marked # {}
StopsTimer(marked) == Watched \subseteq marked

\* Mutant: the list of the keys to remove outlives the call.
EndOfLoopKeepsMarks(marked) ==
  /\ watch' = [p \in Pairs |-> IF p \in marked THEN "no" ELSE watch[p]]
  /\ timer' = ~StopsTimer(marked)
  /\ scan' = [at |-> 0, marked |-> marked]

(* After the last key: what was answered is removed, and the timer stops   *)
(* when nothing is left.                                                   *)
EndOfLoop(marked) ==
  /\ watch' = [p \in Pairs |-> IF p \in marked THEN "no" ELSE watch[p]]
  /\ timer' = ~StopsTimer(marked)
  /\ scan' = [at |-> 0, marked |-> {}]

\* The iterator moves on in the map as it is now.
NextKey(k, marked) ==
  LET rest == {p \in Watched : p > k}
  IN  IF rest = {} THEN EndOfLoop(marked)
      ELSE /\ scan' = [at |-> Lowest(rest), marked |-> marked]
           /\ UNCHANGED <<watch, timer>>

(* checkStatusAndTimeout begins; its slot is not entered a second time     *)
(* from the processEvents of its loop.                                     *)
CheckStatusAndTimeout ==
  /\ alive /\ timer /\ scan.at = 0
  /\ NextKey(0, {})
  /\ UNCHANGED <<alive, pairVars, accepted, answers, told>>

\* Mutant: a key that is not ready is left for the next turn, whatever its age.
TimedOutNever(p) == FALSE
TimedOut(p) == watch[p] = "late"

Answer(p, signal) == answers' = [answers EXCEPT ![p] = Append(@, signal)]

(* One turn of the loop after its processEvents.                           *)
Visit ==
  /\ alive /\ scan.at # 0
  /\ \E s \in Reads(scan.at) :
       \/ /\ s = "crash" /\ alive' = FALSE /\ UNCHANGED flowVars
       \/ /\ s = "restarted"
          /\ Answer(scan.at, "StatusReady")
          /\ OnStatusReady(m_refrow, s)
          /\ NextKey(scan.at, scan.marked \cup {scan.at})
          /\ UNCHANGED <<alive, accepted>>
       \/ /\ s \notin {"crash", "restarted"} /\ TimedOut(scan.at)
          /\ Answer(scan.at, "WaitTimeout")
          /\ NextKey(scan.at, scan.marked \cup {scan.at})
          /\ UNCHANGED <<alive, accepted, told>>
       \/ /\ s \notin {"crash", "restarted"} /\ ~TimedOut(scan.at)
          /\ NextKey(scan.at, scan.marked)
          /\ UNCHANGED <<alive, accepted, answers, told>>
  /\ UNCHANGED pairVars

-----------------------------------------------------------------------------
Next ==
  \/ \E p \in Pairs : \/ ClientEnds(p) \/ ServerRestarts(p) \/ OnReport(p)
                      \/ OnIperfExtendWait(p) \/ TimePasses(p)
  \/ InitStart \/ CheckStatusAndTimeout \/ Visit

(* Time passes, the timer fires, and processEvents returns.                *)
Fairness ==
  /\ \A p \in Pairs : WF_vars(TimePasses(p))
  /\ WF_vars(CheckStatusAndTimeout) /\ WF_vars(Visit)

Spec == Init /\ [][Next]_vars /\ Fairness

-----------------------------------------------------------------------------
(* The iterator is at a watched key beyond those that were answered.       *)
TypeOK ==
  /\ {alive, error, timer} \subseteq BOOLEAN
  /\ status \in [Pairs -> Status]
  /\ {requests, emitted, accepted} \subseteq [Pairs -> 0..MaxRequests]
  /\ restarts \in [Pairs -> 0..MaxRequests]
  /\ watch \in [Pairs -> {"no", "waiting", "late"}]
  /\ scan.marked \subseteq Watched
  /\ scan.at # 0 => scan.at \in Watched /\ \A p \in scan.marked : p < scan.at

(* A key that is watched is polled: the timer is never stopped under a key *)
(* that came in while the loop processed events (checkStatusAndTimeout).   *)
WatchedIsPolled == Watched # {} => timer

(* A wait gets one answer, whatever requests for the same key come before, *)
(* within or after the loop that gives it (startMonitoringKey).            *)
AnsweredOnce ==
  \A p \in Pairs :
    accepted[p] = Len(answers[p]) + (IF p \in Watched \ scan.marked THEN 1 ELSE 0)

(* A wait ends, also where the memory read is anything but what it was     *)
(* (the time-out of checkStatusAndTimeout).                                *)
EveryWatchEnds == \A p \in Pairs : p \in Watched ~> (p \notin Watched \/ ~alive)
=============================================================================
