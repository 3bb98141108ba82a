----------------------------- MODULE IperfWorker -----------------------------
(***************************************************************************)
(* qiperfd's IperfWorker: the QObject that runs one iperf process on a     *)
(* QThread of its own.  QThread::started calls work(), which starts the    *)
(* process and then loops on QCoreApplication::processEvents until m_stop; *)
(* when work() returns, the thread runs its event loop until quit().       *)
(*                                                                         *)
(* Workers are numbered in the order in which QIperfd creates them.  The   *)
(* actions of this module run on the worker's own thread; the signals they *)
(* emit are queued in "events" for QIperfd, which lives on the main        *)
(* thread.  m_running is left out: its one live reader, QIperfd::start,    *)
(* only reads it for a thread that never ran, when it is false.            *)
(***************************************************************************)
EXTENDS Naturals, Sequences, FiniteSets, QMap

CONSTANTS
  MaxWorkers,       \* bound: how many workers QIperfd may create
  DelayStart,       \* m_delaystart > 0: work() waits before it starts iperf
  RestartOnNormal,  \* m_restartonNormalStop
  RestartOnError,   \* m_restartonErrorStop
  SlowKill,         \* may an iperf outlive the 3 s that setStop() waits?
  MaxEvents         \* bound: no more output of iperf is handled while so many
                    \* signals wait in "events"

ASSUME WorkerAssumption ==
  /\ MaxWorkers \in Nat /\ MaxEvents \in Nat
  /\ {DelayStart, RestartOnNormal, RestartOnError, SlowKill} \subseteq BOOLEAN

Worker == 1..MaxWorkers
Mode == {"S", "C"}          \* m_servermode: iperf -s, or iperf -c

VARIABLES
  home,      \* [mode, idx, refrow] given to the constructor and setRefRow()
  wpc,       \* where the worker's thread is
  quit,      \* the workers whose thread was told to quit()
  proc,      \* m_iperf: "none" never assigned, "made", "up", "down"
  orphan,    \* running iperf processes that m_iperf does not name
  mstop,     \* m_stop
  again,     \* m_restarttimes (a bool in the code)
  timers,    \* the armed timers of the worker
  obj,       \* is the IperfWorker object "alive" or "deleted"
  inbox,     \* the posted events of the worker's thread, oldest first
  events     \* the signals posted to QIperfd's thread, oldest first

workerVars == <<home, wpc, quit, proc, orphan, mstop, again, timers, obj,
                inbox, events>>

(* "idle": QThread::start not called; "delay": in work(), before start();  *)
(* "launched": in work(), waitForStarted has run onStarted; "loop": in the *)
(* processEvents loop of work(); "exec": work() has returned; "gone": the  *)
(* thread has ended.                                                       *)
Place == {"idle", "delay", "launched", "loop", "exec", "gone"}
InWork == {"delay", "launched", "loop"}
Timer == {"selfdestruct", "stdout", "restart"}
Post == {"setStop", "setReStart", "delete"}
Signal == {"started", "restarted", "finished", "stderr", "extend",
           "workerFinished"}

WorkerTypeOK ==
  /\ home \in [Worker -> [mode : Mode, idx : Nat, refrow : Nat]]
  /\ wpc \in [Worker -> Place]
  /\ quit \in SUBSET Worker
  /\ proc \in [Worker -> {"none", "made", "up", "down"}]
  /\ orphan \in [Worker -> Nat]
  /\ mstop \in [Worker -> BOOLEAN]
  /\ again \in [Worker -> BOOLEAN]
  /\ timers \in [Worker -> SUBSET Timer]
  /\ obj \in [Worker -> {"alive", "deleted"}]
  /\ inbox \in [Worker -> Seq(Post)]
  /\ events \in Seq([sig : Signal, from : Worker])

WorkerInit ==
  /\ home = [n \in Worker |-> [mode |-> "S", idx |-> 0, refrow |-> 0]]
  /\ wpc = [n \in Worker |-> "idle"]
  /\ quit = {}
  /\ proc = [n \in Worker |-> "none"]
  /\ orphan = [n \in Worker |-> 0]
  /\ mstop = [n \in Worker |-> FALSE]
  /\ again = [n \in Worker |-> FALSE]
  /\ timers = [n \in Worker |-> {}]
  /\ obj = [n \in Worker |-> "alive"]
  /\ inbox = [n \in Worker |-> <<>>]
  /\ events = <<>>

-----------------------------------------------------------------------------
Ev(s, n) == [sig |-> s, from |-> n]

\* QCoreApplication::postEvent to the object of worker n; a second
\* DeferredDelete is merged with the one that is waiting.
PostTo(box, n, what) ==
  IF \/ obj[n] = "deleted"
     \/ what = "delete" /\ (\E i \in 1..Len(box) : box[i] = "delete")
  THEN box ELSE Append(box, what)

\* Mutant: a thread that is still in waitForStarted runs posted events.
DispatchingTooEarly(n) == obj[n] = "alive" /\ wpc[n] \in {"launched", "loop", "exec"}

\* The thread of worker n runs posted events, timers and process
\* notifications: in its event loop, or in the processEvents of work().
Dispatching(n) ==
  /\ obj[n] = "alive"
  /\ \/ wpc[n] \in {"loop", "exec"}
     \/ wpc[n] = "delay" /\ DelayStart

\* onFinished returns early, leaving the process to be restarted.
Retried(ok) == IF ok THEN RestartOnNormal ELSE RestartOnError

\* Mutant: a process that ends badly is not reported.
FinishSignalsIfOk(n, ok) == IF ok THEN <<Ev("finished", n)>> ELSE <<>>

\* What onFinished emits: only a client asks the console to extend the wait.
FinishSignals(n, ok) ==
  IF ~Retried(ok) THEN <<Ev("finished", n)>>
  ELSE IF home[n].mode = "C" THEN <<Ev("extend", n)>> ELSE <<>>

\* The timers that onFinished leaves armed.
FinishTimers(n, ok) == IF Retried(ok) THEN timers[n] ELSE timers[n] \ {"selfdestruct"}

\* IperfWorker::onFinished, the slot of QProcess::finished.
OnFinished(n, ok) ==
  /\ events' = events \o FinishSignals(n, ok)
  /\ mstop' = [mstop EXCEPT ![n] = @ \/ ~Retried(ok)]
  /\ timers' = [timers EXCEPT ![n] = FinishTimers(n, ok)]

\* Mutant: setStop() does not set m_stop.
StopFlagForgotten(n) == mstop

\* m_stop = true in setStop().
StopFlag(n) == [mstop EXCEPT ![n] = TRUE]

(* IperfWorker::setStop on the worker's thread, called with the events in  *)
(* "box" still posted and the timers in "armed": interrupt iperf and wait  *)
(* 3 s for it, within which QProcess::finished runs onFinished; or give    *)
(* up, kill it, and learn of its end later.  Whatever the outcome the      *)
(* worker declares itself finished and posts its own deletion.             *)
SetStop(n, box, armed) ==
  /\ mstop' = StopFlag(n)
  /\ inbox' = [inbox EXCEPT ![n] = PostTo(box, n, "delete")]
  /\ \/ /\ proc[n] = "up"
        /\ proc' = [proc EXCEPT ![n] = "down"]
        /\ \E ok \in BOOLEAN :
             /\ events' = events \o FinishSignals(n, ok)
                                 \o <<Ev("workerFinished", n)>>
             /\ timers' = [timers EXCEPT ![n] = armed \cap FinishTimers(n, ok)]
     \/ /\ proc[n] # "up" \/ SlowKill
        /\ events' = Append(events, Ev("workerFinished", n))
        /\ timers' = [timers EXCEPT ![n] = armed]
        /\ UNCHANGED proc
  /\ UNCHANGED <<home, wpc, quit, orphan, again, obj>>

-----------------------------------------------------------------------------
\* IperfWorker::work / waitForStarted succeeds: onStarted arms the
\* self-destruction timer and announces the process.
Launch(n) ==
  /\ wpc[n] = "delay" /\ obj[n] = "alive"
  /\ proc' = [proc EXCEPT ![n] = "up"]
  /\ timers' = [timers EXCEPT ![n] = @ \cup {"selfdestruct"}]
  /\ events' = Append(events, Ev(IF again[n] THEN "restarted" ELSE "started", n))
  /\ wpc' = [wpc EXCEPT ![n] = "launched"]
  /\ UNCHANGED <<home, quit, orphan, mstop, again, obj, inbox>>

\* IperfWorker::work / waitForStarted fails: work() returns, nobody is told.
LaunchFails(n) ==
  /\ wpc[n] = "delay" /\ obj[n] = "alive"
  /\ proc' = [proc EXCEPT ![n] = "down"]
  /\ wpc' = [wpc EXCEPT ![n] = "exec"]
  /\ UNCHANGED <<home, quit, orphan, mstop, again, timers, obj, inbox, events>>

(* IperfWorker::work goes on after its object was deleted by the           *)
(* processEvents of the start delay: it starts the process through a freed *)
(* m_iperf, and no slot is connected to it any more.                       *)
LaunchFreed(n) ==
  /\ wpc[n] = "delay" /\ obj[n] = "deleted"
  /\ orphan' = [orphan EXCEPT ![n] = @ + 1]
  /\ wpc' = [wpc EXCEPT ![n] = "loop"]
  /\ UNCHANGED <<home, quit, proc, mstop, again, timers, obj, inbox, events>>

\* Mutant: work() leaves the self-destruction timer armed.
TimersInLoopArmed(n) == timers

\* The timers once work() has emitted stopSelfDestructor().
TimersInLoop(n) == [timers EXCEPT ![n] = @ \ {"selfdestruct"}]

\* IperfWorker::work, after waitForStarted: the self-destruction timer is
\* active, so it is stopped; then started() is emitted once more.
EnterLoop(n) ==
  /\ wpc[n] = "launched"
  /\ timers' = TimersInLoop(n)
  /\ events' = Append(events, Ev("started", n))
  /\ wpc' = [wpc EXCEPT ![n] = "loop"]
  /\ UNCHANGED <<home, quit, proc, orphan, mstop, again, obj, inbox>>

\* IperfWorker::work: while (!m_stop) ends, and work() returns.
LeaveLoop(n) ==
  /\ wpc[n] = "loop" /\ mstop[n]
  /\ wpc' = [wpc EXCEPT ![n] = "exec"]
  /\ UNCHANGED <<home, quit, proc, orphan, mstop, again, timers, obj, inbox, events>>

\* A posted setStop() runs.
RunSetStop(n) ==
  /\ Dispatching(n) /\ inbox[n] # <<>> /\ Head(inbox[n]) = "setStop"
  /\ SetStop(n, Tail(inbox[n]), timers[n])

\* A posted onSetReStart() runs: the single-shot m_restarter is armed.
RunSetReStart(n) ==
  /\ Dispatching(n) /\ inbox[n] # <<>> /\ Head(inbox[n]) = "setReStart"
  /\ inbox' = [inbox EXCEPT ![n] = Tail(@)]
  /\ timers' = [timers EXCEPT ![n] = @ \cup {"restart"}]
  /\ UNCHANGED <<home, wpc, quit, proc, orphan, mstop, again, obj, events>>

(* The posted deletion runs, ~IperfWorker.  Qt holds it back only while    *)
(* the event loop that posted it has not returned; work() has none, so its *)
(* own processEvents deletes the object under work(), which then reads a   *)
(* freed m_stop.  An iperf with no output to read is not killed.           *)
RunDelete(n) ==
  /\ Dispatching(n) /\ inbox[n] # <<>> /\ Head(inbox[n]) = "delete"
  /\ obj' = [obj EXCEPT ![n] = "deleted"]
  /\ inbox' = [inbox EXCEPT ![n] = <<>>]
  /\ timers' = [timers EXCEPT ![n] = {}]
  /\ IF proc[n] = "up"
     THEN /\ proc' = [proc EXCEPT ![n] = "down"]
          /\ \E left \in {0, 1} : orphan' = [orphan EXCEPT ![n] = @ + left]
     ELSE UNCHANGED <<proc, orphan>>
  /\ IF wpc[n] \in InWork
     THEN \E freed \in BOOLEAN : mstop' = [mstop EXCEPT ![n] = freed]
     ELSE UNCHANGED mstop
  /\ UNCHANGED <<home, wpc, quit, again, events>>

(* IperfWorker::onRestart enters work() again, perhaps from the            *)
(* processEvents of the work() that is already on the stack; m_iperf is    *)
(* assigned a new process whether or not the old one still runs.           *)
OnRestart(n) ==
  /\ Dispatching(n) /\ "restart" \in timers[n]
  /\ timers' = [timers EXCEPT ![n] = @ \ {"restart"}]
  /\ again' = [again EXCEPT ![n] = TRUE]
  /\ mstop' = [mstop EXCEPT ![n] = FALSE]
  /\ orphan' = [orphan EXCEPT ![n] = IF proc[n] = "up" THEN @ + 1 ELSE @]
  /\ proc' = [proc EXCEPT ![n] = "made"]
  /\ wpc' = [wpc EXCEPT ![n] = "delay"]
  /\ UNCHANGED <<home, quit, obj, inbox, events>>

\* IperfWorker::onSelfDestructor.  It is no disjunct of WorkerStep, because
\* it is never called: see SelfDestructionUnarmed in QIperfd.
OnSelfDestructor(n) ==
  /\ Dispatching(n) /\ "selfdestruct" \in timers[n]
  /\ SetStop(n, inbox[n], timers[n] \ {"selfdestruct"})

\* IperfWorker::readyReadStdOut: every output re-arms m_stdoutdetect.
ReadyReadStdOut(n) ==
  /\ Dispatching(n) /\ proc[n] = "up" /\ Len(events) < MaxEvents
  /\ timers' = [timers EXCEPT ![n] = @ \cup {"stdout"}]
  /\ UNCHANGED <<home, wpc, quit, proc, orphan, mstop, again, obj, inbox, events>>

\* readyReadStdOut of an iperf2 that reports the end of its test.
Iperf2Ended(n) ==
  /\ Dispatching(n) /\ proc[n] = "up" /\ Len(events) < MaxEvents
  /\ SetStop(n, inbox[n], timers[n] \cup {"stdout"})

\* IperfWorker::onNoStdout.
OnNoStdout(n) ==
  /\ Dispatching(n) /\ "stdout" \in timers[n]
  /\ LET armed == timers[n] \ {"stdout"} IN
     IF proc[n] = "up"
     THEN SetStop(n, inbox[n], armed)
     ELSE /\ timers' = [timers EXCEPT ![n] = armed]
          /\ UNCHANGED <<home, wpc, quit, proc, orphan, mstop, again, obj, inbox, events>>

\* IperfWorker::readyReadStdErr, for anything but iperf2's WARNING.
ReadyReadStdErr(n) ==
  /\ Dispatching(n) /\ proc[n] = "up" /\ Len(events) < MaxEvents
  /\ mstop' = [mstop EXCEPT ![n] = TRUE]
  /\ events' = Append(events, Ev("stderr", n))
  /\ UNCHANGED <<home, wpc, quit, proc, orphan, again, timers, obj, inbox>>

\* The process m_iperf names ends, well (exit code 0) or badly.
ProcessExits(n, ok) ==
  /\ Dispatching(n) /\ proc[n] = "up"
  /\ proc' = [proc EXCEPT ![n] = "down"]
  /\ OnFinished(n, ok)
  /\ UNCHANGED <<home, wpc, quit, orphan, again, obj, inbox>>

\* A process that m_iperf no longer names ends: its QProcess is still
\* connected to the worker, if the worker is there to be told.
OrphanExits(n, ok) ==
  /\ orphan[n] > 0
  /\ orphan' = [orphan EXCEPT ![n] = @ - 1]
  /\ IF Dispatching(n) THEN OnFinished(n, ok) ELSE UNCHANGED <<events, mstop, timers>>
  /\ UNCHANGED <<home, wpc, quit, proc, again, obj, inbox>>

\* QThread::exec returns after quit(); the thread's end runs the deletions
\* that were held back.
ThreadEnds(n) ==
  /\ wpc[n] = "exec" /\ n \in quit
  /\ wpc' = [wpc EXCEPT ![n] = "gone"]
  /\ IF \E i \in 1..Len(inbox[n]) : inbox[n][i] = "delete"
     THEN /\ obj' = [obj EXCEPT ![n] = "deleted"]
          /\ inbox' = [inbox EXCEPT ![n] = <<>>]
     ELSE UNCHANGED <<obj, inbox>>
  /\ UNCHANGED <<home, quit, proc, orphan, mstop, again, timers, events>>

WorkerStep(n) ==
  \/ Launch(n) \/ LaunchFails(n) \/ LaunchFreed(n) \/ EnterLoop(n) \/ LeaveLoop(n)
  \/ RunSetStop(n) \/ RunSetReStart(n) \/ RunDelete(n) \/ ThreadEnds(n)
  \/ OnRestart(n) \/ OnNoStdout(n)
  \/ ReadyReadStdOut(n) \/ ReadyReadStdErr(n) \/ Iperf2Ended(n)
  \/ \E ok \in BOOLEAN : ProcessExits(n, ok) \/ OrphanExits(n, ok)
=============================================================================
