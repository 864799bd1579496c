-------------------------------- MODULE Timer --------------------------------
(***************************************************************************)
(* src/lib/primitive/src/utils/Timer.cpp: an alarm that can be put off,    *)
(* brought forward, restarted or asked for once.  A Timer never cancels a   *)
(* task of TaskManager; it leaves the tasks it has enqueued where they are  *)
(* and decides, when one of them runs, whether the alarm is due            *)
(* (_actualAlarmTime) or another task must be enqueued.  _nextAlarmTime is  *)
(* when the first of them is believed to run.                              *)
(*                                                                         *)
(* Each call holds _mutex from start to end, and so does onTime() up to    *)
(* the handler, so a call is one step; a task may run late, and other       *)
(* threads may call at any moment, the handler's own calls included.        *)
(***************************************************************************)
EXTENDS Integers

CONSTANTS
  Uses,       \* the sets of operations the owners of timers use: sets of names of calls
  Durations,  \* the durations they pass, from 1 to MaxTime
  MaxTime,    \* bound: no call asks for an alarm later than this
  MaxTasks    \* bound on the tasks of one instant

\* The operations of Timer.hpp, and time enough for one alarm.
ASSUME TimerAssumption ==
  /\ Uses \subseteq SUBSET {"startOnce", "restart", "prolong", "shorten", "stop"} /\ Uses # {}
  /\ MaxTime \in Nat /\ MaxTasks \in Nat /\ Durations \subseteq 1..MaxTime

VARIABLES
  calls,     \* the operations the owner of this timer uses
  now,       \* steady_clock
  actual,    \* _actualAlarmTime
  next,      \* _nextAlarmTime
  helper,    \* _helper is set
  tasks,     \* how many tasks of the helper TaskManager holds for each instant
  spent,     \* history: the handler was called or the timer stopped, once
  armed,     \* history: the alarm the owner counts on has still to come
  shutdown,  \* Daemon::shutingdown()
  broken     \* the helper was used when there was none

timerVars == <<calls, now, actual, next, helper, tasks, spent, armed, shutdown, broken>>

Instants == 0..MaxTime
Forever == MaxTime + 1   \* time_point::max()
Later(a, b) == IF a > b THEN a ELSE b

\* A task that ran late was enqueued for an instant that is past: refCounter is
\* the number of tasks, whatever their instants.
Pending == {t \in Instants : tasks[t] > 0}
LastTask(t) == Pending = {t} /\ tasks[t] = 1

TimerInit ==
  /\ calls \in Uses
  /\ now = 0 /\ actual = 0 /\ next = Forever
  /\ helper = FALSE
  /\ tasks = [t \in Instants |-> 0]
  /\ spent = FALSE /\ armed = FALSE
  /\ shutdown = FALSE /\ broken = FALSE

ClockTick ==
  /\ now < MaxTime
  /\ now' = now + 1
  /\ UNCHANGED <<calls, actual, next, helper, tasks, spent, armed, shutdown, broken>>

DaemonShutdown ==
  /\ ~shutdown
  /\ shutdown' = TRUE
  /\ UNCHANGED <<calls, now, actual, next, helper, tasks, spent, armed, broken>>

\* Mutant: the new helper is not kept in _helper.
StartHelper_NotKept(t) ==
  /\ tasks[t] < MaxTasks
  /\ tasks' = [tasks EXCEPT ![t] = @ + 1]
  /\ UNCHANGED helper

\* Helper::start.
StartHelper(t) ==
  /\ tasks[t] < MaxTasks
  /\ helper' = TRUE
  /\ tasks' = [tasks EXCEPT ![t] = @ + 1]

\* appoint(now, t, true): nothing if an alarm is set.
AppointOnce(t) ==
  IF actual > now
    THEN UNCHANGED <<actual, next, helper, tasks>>
    ELSE actual' = t /\ next' = t /\ StartHelper(t)

\* Mutant: the task is taken for one that runs in time when it is late.
Appoint_KeepsTask(t) ==
  actual' = t /\ next' = Later(now, next) /\ UNCHANGED <<helper, tasks>>

\* appoint(now, t, false): a task only if the alarm moves before the next one.
Appoint(t) ==
  /\ actual' = t
  /\ next' = IF t < Later(now, next) THEN t ELSE Later(now, next)
  /\ IF next <= next' THEN UNCHANGED <<helper, tasks>> ELSE StartHelper(next')

Keep == UNCHANGED <<actual, next, helper, tasks>>

Call(op, d) ==
  LET t == now + d
  IN  /\ ~broken /\ op \in calls \ {"stop"} /\ t <= MaxTime
      /\ CASE op = "startOnce" -> AppointOnce(t)
           [] op = "restart" -> Appoint(t)
           [] op = "prolong" -> IF actual >= t THEN Keep ELSE Appoint(t)
           [] op = "shorten" -> IF actual <= t THEN Keep ELSE Appoint(t)
      /\ armed' = (armed \/ actual' > now)
      /\ UNCHANGED <<calls, now, spent, shutdown, broken>>

\* stop() goes through _helper without a test, and cancel() goes on to use the
\* helper after giving up what may be the last reference to it.
Stop ==
  /\ ~broken /\ "stop" \in calls
  /\ helper' = FALSE
  /\ tasks' = [t \in Instants |-> 0]
  /\ armed' = FALSE /\ spent' = TRUE
  /\ broken' \in IF ~helper THEN {TRUE} ELSE IF Pending = {} THEN BOOLEAN ELSE {FALSE}
  /\ UNCHANGED <<calls, now, actual, next, shutdown>>

Due == actual <= now \/ shutdown

\* Mutant: the task that comes too early does not enqueue another.
OnTime_GivesUp(t) ==
  /\ ~broken
  /\ tasks[t] > 0 /\ (t <= now \/ shutdown)
  /\ tasks' = [tasks EXCEPT ![t] = @ - 1]
  /\ IF Due THEN spent' = TRUE /\ armed' = FALSE ELSE UNCHANGED <<spent, armed>>
  /\ UNCHANGED <<calls, now, actual, next, helper, shutdown, broken>>

\* Helper::onTime and Timer::alarm: the handler, or one more task if this was the
\* last one.
OnTime(t) ==
  /\ ~broken
  /\ tasks[t] > 0 /\ (t <= now \/ shutdown)
  /\ \/ /\ Due
        /\ tasks' = [tasks EXCEPT ![t] = @ - 1]
        /\ spent' = TRUE /\ armed' = FALSE
     \/ /\ ~Due /\ ~LastTask(t)
        /\ tasks' = [tasks EXCEPT ![t] = @ - 1]
        /\ UNCHANGED <<spent, armed>>
     \/ /\ ~Due /\ LastTask(t)
        /\ tasks' = [tasks EXCEPT ![t] = 0, ![actual] = 1]
        /\ UNCHANGED <<spent, armed>>
  /\ UNCHANGED <<calls, now, actual, next, helper, shutdown, broken>>

TimerNext ==
  \/ ClockTick
  \/ DaemonShutdown
  \/ \E op \in calls, d \in Durations : Call(op, d)
  \/ Stop
  \/ \E t \in Instants : OnTime(t)

TimerSpec == TimerInit /\ [][TimerNext]_timerVars

\* The clock runs, and TaskManager runs every task whose time has come.
TimerFairness == WF_timerVars(ClockTick) /\ \A t \in Instants : WF_timerVars(OnTime(t))
TimerFairSpec == TimerSpec /\ TimerFairness

-----------------------------------------------------------------------------
\* The state of Timer.cpp keeps its type; no task is enqueued for "never", and a
\* timer without a helper has no task.
TimerTypeOK ==
  /\ calls \in Uses
  /\ now \in Instants /\ actual \in Instants /\ next \in Instants \cup {Forever}
  /\ helper \in BOOLEAN
  /\ tasks \in [Instants -> 0..MaxTasks]
  /\ spent \in BOOLEAN /\ armed \in BOOLEAN
  /\ shutdown \in BOOLEAN /\ broken \in BOOLEAN
  /\ ~helper => Pending = {}

\* Liveness until the first alarm or stop: an alarm once asked for comes, when the
\* owner at last leaves it alone.
FirstAlarmComes == (armed /\ ~spent) ~> (spent \/ broken)

\* Safety when the alarm is only ever put off, as a session, a peer or its ping
\* timer does: the task that is left is not later than the first alarm.
FirstAlarmInTime ==
  calls = {"prolong"} /\ armed /\ ~spent =>
    \E t \in Pending : t <= Later(actual, now)
=============================================================================
