------------------------------ MODULE Workers ------------------------------
(***************************************************************************)
(* The workers of ThreadPool, the queue of TaskManager and the two tasks   *)
(* that main() puts there before it creates the workers: the dispatcher of *)
(* ConnectionManager, which keeps its worker until the shutdown, and the    *)
(* collection of metrics, which enqueues itself again every second.         *)
(*                                                                          *)
(* The queue is guarded by the mutex of TaskManager and the condition       *)
(* variable by _workerMutex; enqueue() notifies without the latter, so a     *)
(* worker that has looked at the queue and does not yet sleep (pc "drowsy")  *)
(* misses the notification.  Contexts of coroutines are left out: Thread::   *)
(* yield is used only by a connector that finds no free local port.          *)
(***************************************************************************)
EXTENDS Naturals, SequencesExt

CONSTANTS
  Workers,   \* the threads of the pool
  Jobs,      \* tasks the dispatcher enqueues, each once
  dispatch, collect,   \* the other two tasks
  None,      \* no task
  Second,    \* the delay of collect, and the first waitUntil of a worker
  Long       \* the delay of the latest timers

\* main.cpp:98: "Count of workers too few. Programm won't be work correctly".
ASSUME PoolAssumption ==
  /\ \E v, w \in Workers : v # w
  /\ Second \in Nat \ {0} /\ Long \in Nat /\ Long > Second
  /\ dispatch # collect /\ {dispatch, collect} \cap Jobs = {}
  /\ None \notin Jobs \cup {dispatch, collect}

Tasks == Jobs \cup {dispatch, collect}

VARIABLES
  main,     \* where main() is: "create", "up", "wait"
  pc,       \* where a worker is in its loop
  task,     \* the task a worker executes
  sleep,    \* waitUntil of a worker, as the time left to it
  queue,    \* the tasks queued, ordered by their until()
  left,     \* the time left to them
  fresh,    \* jobs not yet enqueued
  hold,     \* ThreadPool::_hold
  stopping, \* Daemon::shutingdown()
  crashed

vars == <<main, pc, task, sleep, queue, left, fresh, hold, stopping, crashed>>

Places == {"absent", "top", "test", "wait", "drowsy", "asleep", "late", "execute",
           "running", "over", "left"}

Init ==
  /\ main = "create"
  /\ pc = [w \in Workers |-> "absent"] /\ task = [w \in Workers |-> None]
  /\ sleep = [w \in Workers |-> Second]
  /\ queue = <<dispatch, collect>>
  /\ left = [t \in Tasks |-> IF t = collect THEN Second ELSE 0]
  /\ fresh = Jobs /\ hold = 0 /\ stopping = FALSE /\ crashed = FALSE

\* The worker w goes on to p, and notify_one() wakes one of those that sleep.
GoAndNotify(w, p) ==
  LET pcs == [pc EXCEPT ![w] = p]
      sleepers == {v \in Workers : pcs[v] = "asleep"}
  IN  IF sleepers = {} THEN pc' = pcs
      ELSE \E v \in sleepers : pc' = [pcs EXCEPT ![v] = "wait"]

Go(w, p) == pc' = [pc EXCEPT ![w] = p]

\* priority_queue: a task that is due comes after those that were due before it; in one
\* tick of the model others may be before it or after it.
Enqueue(t, delay) ==
  /\ left' = [left EXCEPT ![t] = delay]
  /\ \E i \in 1..Len(queue) + 1 :
       /\ \A k \in 1..Len(queue) :
            IF k < i THEN left[queue[k]] <= delay
                     ELSE left[queue[k]] >= delay /\ left[queue[k]] > 0
       /\ queue' = InsertAt(queue, i, t)

-----------------------------------------------------------------------------
\* setThreadNum(), which holds _workerMutex until all workers are there.
Create(w) ==
  /\ main = "create" /\ pc[w] = "absent"
  /\ GoAndNotify(w, "top")
  /\ main' = IF \A v \in Workers \ {w} : pc[v] # "absent" THEN "up" ELSE main
  /\ UNCHANGED <<task, sleep, queue, left, fresh, hold, stopping, crashed>>

\* Node::up: a transport is enabled and holds the pool.
Up ==
  /\ main = "up" /\ main' = "wait" /\ hold' = hold + 1
  /\ \/ \E v \in Workers : pc[v] = "asleep" /\ Go(v, "wait")
     \/ (\A v \in Workers : pc[v] # "asleep") /\ UNCHANGED pc
  /\ UNCHANGED <<task, sleep, queue, left, fresh, stopping, crashed>>

Shutdown ==
  /\ main = "wait" /\ ~stopping /\ stopping' = TRUE
  /\ UNCHANGED <<main, pc, task, sleep, queue, left, fresh, hold, crashed>>

\* Node::down, called by Daemon::shutdown.
Down ==
  /\ stopping /\ hold > 0 /\ hold' = hold - 1
  /\ UNCHANGED <<main, pc, task, sleep, queue, left, fresh, stopping, crashed>>

\* ThreadPool::wait wakes all that sleep, again and again, in a shutdown.
WakeAll ==
  /\ main = "wait" /\ stopping /\ \E w \in Workers : pc[w] = "asleep"
  /\ pc' = [w \in Workers |-> IF pc[w] = "asleep" THEN "wait" ELSE pc[w]]
  /\ UNCHANGED <<main, task, sleep, queue, left, fresh, hold, stopping, crashed>>

-----------------------------------------------------------------------------
\* The condition of the loop, in the order of its two reads.
Top(w) ==
  /\ pc[w] = "top" /\ Go(w, IF queue = <<>> THEN "test" ELSE "wait")
  /\ UNCHANGED <<main, task, sleep, queue, left, fresh, hold, stopping, crashed>>

\* A worker that leaves takes the front of an empty queue of contexts
\* (Thread.cpp:290) and goes there unless it reads null.
Test(w) ==
  /\ pc[w] = "test"
  /\ \/ hold > 0 /\ Go(w, "wait") /\ UNCHANGED crashed
     \/ hold = 0 /\ Go(w, "left") /\ crashed' \in BOOLEAN
  /\ UNCHANGED <<main, task, sleep, queue, left, fresh, hold, stopping>>

\* continueCondition, which also sets waitUntil.
Continues == stopping \/ (IF queue = <<>> THEN hold = 0 ELSE left[Head(queue)] = 0)

WaitUntil(w) ==
  IF queue = <<>> \/ stopping
    THEN UNCHANGED sleep
    ELSE sleep' = [sleep EXCEPT ![w] = left[Head(queue)]]

\* wait_until() under _workerMutex: the condition before sleep and after it.  When
\* the time is out a false condition starts the loop again.
Look(w) ==
  /\ pc[w] \in {"wait", "late"} /\ main # "create"
  /\ \A v \in Workers : pc[v] # "drowsy"
  /\ Go(w, IF Continues THEN "execute" ELSE IF pc[w] = "late" THEN "top" ELSE "drowsy")
  /\ WaitUntil(w)
  /\ UNCHANGED <<main, task, queue, left, fresh, hold, stopping, crashed>>

Sleep(w) ==
  /\ pc[w] = "drowsy" /\ Go(w, "asleep")
  /\ UNCHANGED <<main, task, sleep, queue, left, fresh, hold, stopping, crashed>>

\* Mutant: wait() in the place of wait_until().
TimeOut_Never(w) == FALSE

TimeOut(w) ==
  /\ pc[w] = "asleep" /\ sleep[w] = 0 /\ Go(w, "late")
  /\ UNCHANGED <<main, task, sleep, queue, left, fresh, hold, stopping, crashed>>

\* executeOne(): the top of the queue, if it is due or in a shutdown.
ExecuteOne(w) ==
  /\ pc[w] = "execute"
  /\ \/ /\ queue # <<>> /\ (left[Head(queue)] = 0 \/ stopping)
        /\ task' = [task EXCEPT ![w] = Head(queue)] /\ queue' = Tail(queue)
        /\ left' = [left EXCEPT ![Head(queue)] = 0]
        /\ GoAndNotify(w, "running")
     \/ /\ queue # <<>> => ~stopping /\ left[Head(queue)] > 0
        /\ Go(w, "over") /\ UNCHANGED <<queue, left, task>>
  /\ UNCHANGED <<main, sleep, fresh, hold, stopping, crashed>>

\* The end of the body of the loop.
Over(w) ==
  /\ pc[w] = "over" /\ GoAndNotify(w, "top")
  /\ UNCHANGED <<main, task, sleep, queue, left, fresh, hold, stopping, crashed>>

-----------------------------------------------------------------------------
Done(w) == task' = [task EXCEPT ![w] = None]

RunJob(w) ==
  /\ pc[w] = "running" /\ task[w] \in Jobs /\ Done(w) /\ Go(w, "over")
  /\ UNCHANGED <<main, sleep, queue, left, fresh, hold, stopping, crashed>>

\* Mutant: the metrics are collected once.
CollectsAgain_Never == FALSE

\* Mutant: the metrics are collected again in a shutdown too.
CollectsAgain_Always == TRUE

CollectsAgain == ~stopping

\* SysInfo::collect.
RunCollect(w) ==
  /\ pc[w] = "running" /\ task[w] = collect /\ Done(w)
  /\ IF CollectsAgain
       THEN Enqueue(collect, Second) /\ GoAndNotify(w, "over")
       ELSE Go(w, "over") /\ UNCHANGED <<queue, left>>
  /\ UNCHANGED <<main, sleep, fresh, hold, stopping, crashed>>

\* ConnectionManager::dispatch: events and what they lead to, timers included.
DispatchJob(w, j, delay) ==
  /\ pc[w] = "running" /\ task[w] = dispatch
  /\ j \in fresh /\ fresh' = fresh \ {j}
  /\ Enqueue(j, delay) /\ GoAndNotify(w, "running")
  /\ UNCHANGED <<main, task, sleep, hold, stopping, crashed>>

DispatchEnds(w) ==
  /\ pc[w] = "running" /\ task[w] = dispatch /\ stopping
  /\ Done(w) /\ Go(w, "over")
  /\ UNCHANGED <<main, sleep, queue, left, fresh, hold, stopping, crashed>>

\* Time passes.
Less(n) == IF n = 0 THEN 0 ELSE n - 1

Tick ==
  /\ \/ \E t \in Tasks : left[t] > 0
     \/ \E w \in Workers : pc[w] = "asleep" /\ sleep[w] > 0
  /\ left' = [t \in Tasks |-> Less(left[t])]
  /\ sleep' = [w \in Workers |-> IF pc[w] = "absent" THEN sleep[w] ELSE Less(sleep[w])]
  /\ UNCHANGED <<main, pc, task, queue, fresh, hold, stopping, crashed>>

Loop(w) ==
  Top(w) \/ Test(w) \/ Look(w) \/ Sleep(w) \/ TimeOut(w) \/ ExecuteOne(w) \/ Over(w)

Run(w) == RunJob(w) \/ RunCollect(w) \/ DispatchEnds(w)

Next ==
  /\ ~crashed
  /\ \/ \E w \in Workers : Create(w) \/ Loop(w) \/ Run(w)
     \/ \E w \in Workers, j \in Jobs, delay \in {0, Long} : DispatchJob(w, j, delay)
     \/ Up \/ Shutdown \/ Down \/ WakeAll \/ Tick

Spec == Init /\ [][Next]_vars

\* Threads run and time passes; main() goes on, and a signal handler comes to its end.
Fairness ==
  /\ \A w \in Workers : WF_vars(~crashed /\ (Create(w) \/ Loop(w) \/ Run(w)))
  /\ WF_vars(~crashed /\ (Up \/ Down)) /\ WF_vars(~crashed /\ WakeAll)
  /\ WF_vars(~crashed /\ Tick)
FairSpec == Spec /\ Fairness

-----------------------------------------------------------------------------
\* The state keeps its type, and a worker has a task exactly while it executes one.
TypeOK ==
  /\ main \in {"create", "up", "wait"}
  /\ pc \in [Workers -> Places] /\ sleep \in [Workers -> 0..Long]
  /\ task \in [Workers -> Tasks \cup {None}]
  /\ queue \in Seq(Tasks) /\ IsInjective(queue) /\ left \in [Tasks -> 0..Long]
  /\ fresh \subseteq Jobs /\ hold \in 0..1
  /\ stopping \in BOOLEAN /\ crashed \in BOOLEAN
  /\ \A w \in Workers : task[w] # None <=> pc[w] = "running"

\* Safety: until the shutdown some worker is left beside the one that dispatches, also
\* when workers find the queue empty before a transport holds the pool.
LastWorkerStays ==
  ~stopping => \E w \in Workers : pc[w] # "left" /\ task[w] # dispatch

Queued(t) == \E k \in 1..Len(queue) : queue[k] = t

\* Liveness: a task that is queued is executed, whatever notifications are lost.
QueuedTaskRuns == \A t \in Tasks : Queued(t) ~> (~Queued(t) \/ crashed)

\* Liveness: the workers leave after a shutdown, so ThreadPool::wait returns.
ShutdownEnds == stopping ~> ((\A w \in Workers : pc[w] = "left") \/ crashed)
=============================================================================
