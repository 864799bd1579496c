--------------------------- MODULE LibraryProofs ---------------------------
(***************************************************************************)
(* Proofs about Workers and Timer, each on its own, about MCLibrary, that  *)
(* checks both, and about Pools: the locked memory and the connections to  *)
(* a database.                                                             *)
(*                                                                         *)
(* For any pool of at least two threads, some worker is left beside the    *)
(* dispatcher until the shutdown.  LastWorkerStays is not inductive: a     *)
(* worker that has found the queue empty (pc "test") is still there and    *)
(* may be gone in its next step.  SomeServes says more, that some worker   *)
(* is not on its way out.  It is kept because the queue is empty only      *)
(* while another worker collects metrics (CollectGoesOn), and nobody has   *)
(* found it empty before the dispatcher has its worker (DispatchFirst).    *)
(*                                                                         *)
(* Whatever the durations and the horizon, an alarm that is only ever put  *)
(* off comes in time.  FirstAlarmInTime is not inductive: a task that      *)
(* comes too early gives way when another is left, and that one may be     *)
(* late; so the invariant says that prolong() never leaves two tasks       *)
(* (LastTask), and that _nextAlarmTime, by which appoint() decides to      *)
(* enqueue no other, is not later than the alarm.                          *)
(*                                                                         *)
(* Whatever sizes are asked for, the chunks of an arena tile it.  For that *)
(* to be kept, no free chunk may end where another begins (ArenaOK): only  *)
(* then is what free() joins the two neighbours and nothing else, and an   *)
(* entry of the three maps is never written over.                          *)
(*                                                                         *)
(* For any number of threads and connections, no two threads use one       *)
(* connection.  OneThread speaks of handles and of the list only, and is   *)
(* not inductive: a connection that a thread has captured, or asks about,  *)
(* would be a second thread's.  So a connection has one owner, whose       *)
(* handle, capture or question it is (OneOwner); what is in a list has     *)
(* none (FreeAreIdle); a count is never less than the handles (Counted),   *)
(* for with the last one the connection goes back; and the server has no   *)
(* transaction open that the client does not count (NoneLeftOpen), but for *)
(* one whose ROLLBACK it refused: rollback() forgets that it is open.      *)
(***************************************************************************)
EXTENDS MCLibrary, Pools, FiniteSetTheorems, SequenceTheorems, TLAPS

\* A task is in one place: queued, with one worker, or not yet enqueued.
Placed ==
  /\ \A w \in Workers : task[w] # None => ~Queued(task[w])
  /\ \A v, w \in Workers : v # w /\ task[v] # None => task[v] # task[w]
  /\ \A j \in fresh : ~Queued(j) /\ \A w \in Workers : task[w] # j

CollectGoesOn == ~stopping => Queued(collect) \/ \E w \in Workers : task[w] = collect

Leaving == {"test", "left"}
DispatchFirst == Queued(dispatch) => \A w \in Workers : pc[w] \notin Leaving

SomeServes ==
  ~stopping => \E w \in Workers : pc[w] \notin Leaving /\ task[w] # dispatch

HeldLate == main # "wait" => hold = 0

IInv ==
  /\ TypeOK
  /\ Placed
  /\ CollectGoesOn
  /\ DispatchFirst
  /\ SomeServes
  /\ HeldLate

-----------------------------------------------------------------------------
\* What InsertAt of the community modules returns.
LEMMA InsertAtEntries ==
  ASSUME NEW S, NEW s \in Seq(S), NEW e \in S, NEW i \in 1..Len(s) + 1
  PROVE  /\ InsertAt(s, i, e) \in Seq(S)
         /\ Len(InsertAt(s, i, e)) = Len(s) + 1
         /\ \A k \in 1..Len(s) + 1 :
              InsertAt(s, i, e)[k] = IF k < i THEN s[k] ELSE IF k = i THEN e ELSE s[k - 1]
<1> DEFINE front == SubSeq(s, 1, i - 1)
           back == SubSeq(s, i, Len(s))
<1>1. front \in Seq(S) /\ Len(front) = i - 1 /\ \A k \in 1..i - 1 : front[k] = s[k]
  OBVIOUS
<1>2. back \in Seq(S) /\ Len(back) = Len(s) + 1 - i /\ \A k \in 1..Len(s) + 1 - i : back[k] = s[i + k - 1]
  OBVIOUS
<1> HIDE DEF front, back
<1> DEFINE most == front \o <<e>>
<1>3. most \in Seq(S) /\ Len(most) = i /\ \A k \in 1..i : most[k] = IF k < i THEN s[k] ELSE e
  BY <1>1
<1> HIDE DEF most
<1>4. InsertAt(s, i, e) = most \o back
  BY DEF InsertAt, most, front, back
<1>5. most \o back \in Seq(S) /\ Len(most \o back) = Len(s) + 1
  <2>1. most \o back \in Seq(S) /\ Len(most \o back) = Len(most) + Len(back)
    BY <1>2, <1>3, ConcatProperties
  <2>2. Len(most) + Len(back) = Len(s) + 1
    BY <1>2, <1>3
  <2> QED
    BY <2>1, <2>2
<1>6. ASSUME NEW k \in 1..Len(s) + 1
      PROVE  (most \o back)[k] = IF k < i THEN s[k] ELSE IF k = i THEN e ELSE s[k - 1]
  <2>1. CASE k <= i
    <3>1. (most \o back)[k] = most[k]
      BY <1>2, <1>3, <2>1
    <3> QED BY <1>3, <2>1, <3>1
  <2>2. CASE k > i
    <3>1. (most \o back)[k] = back[k - i]
      BY <1>2, <1>3, <2>2
    <3>2. k - i \in 1..Len(s) + 1 - i /\ i + (k - i) - 1 = k - 1
      BY <2>2
    <3>3. back[k - i] = s[k - 1]
      BY <1>2, <3>2
    <3>4. ~(k < i) /\ k # i
      BY <2>2
    <3> QED BY <3>1, <3>3, <3>4
  <2>3. k <= i \/ k > i
    OBVIOUS
  <2> QED BY <2>1, <2>2, <2>3, Zenon
<1> QED BY <1>4, <1>5, <1>6

\* Tail keeps all entries but the first one, once, if all were there once.
LEMMA TailEntries ==
  ASSUME NEW S, NEW s \in Seq(S), s # <<>>, IsInjective(s)
  PROVE  /\ Tail(s) \in Seq(S) /\ IsInjective(Tail(s)) /\ Head(s) \in S
         /\ \A x : (\E k \in 1..Len(Tail(s)) : Tail(s)[k] = x)
                     <=> x # Head(s) /\ \E k \in 1..Len(s) : s[k] = x
<1>1. /\ Tail(s) \in Seq(S) /\ Len(Tail(s)) = Len(s) - 1 /\ Len(s) \in Nat \ {0}
      /\ DOMAIN s = 1..Len(s) /\ DOMAIN Tail(s) = 1..Len(s) - 1
      /\ \A k \in 1..Len(s) - 1 : Tail(s)[k] = s[k + 1]
      /\ Head(s) = s[1] /\ Head(s) \in S
  OBVIOUS
<1>2. IsInjective(Tail(s))
  BY <1>1 DEF IsInjective
<1>3. ASSUME NEW x, NEW k \in 1..Len(Tail(s)), Tail(s)[k] = x
      PROVE  x # Head(s) /\ \E m \in 1..Len(s) : s[m] = x
  <2>1. k + 1 \in 1..Len(s) /\ s[k + 1] = x /\ 1 \in 1..Len(s) /\ k + 1 # 1
    BY <1>1, <1>3
  <2> QED BY <1>1, <2>1 DEF IsInjective
<1>4. ASSUME NEW x, x # Head(s), NEW k \in 1..Len(s), s[k] = x
      PROVE  \E m \in 1..Len(Tail(s)) : Tail(s)[m] = x
  <2>1. k - 1 \in 1..Len(s) - 1 /\ Tail(s)[k - 1] = s[(k - 1) + 1] /\ (k - 1) + 1 = k
    BY <1>1, <1>4
  <2> QED BY <1>1, <1>4, <2>1
<1> QED BY <1>1, <1>2, <1>3, <1>4

-----------------------------------------------------------------------------
\* notify_one() wakes a worker that sleeps, and moves no other.
Moved(w, p) ==
  /\ pc' \in [Workers -> Places]
  /\ pc'[w] = p
  /\ \A v \in Workers \ {w} : pc'[v] = pc[v] \/ (pc[v] = "asleep" /\ pc'[v] = "wait")

\* Go moves one worker and nobody else.
LEMMA GoMoves ==
  ASSUME TypeOK, NEW w \in Workers, NEW p \in Places, Go(w, p)
  PROVE  Moved(w, p)
BY DEF TypeOK, Go, Moved

\* So does GoAndNotify, which may wake one more.
LEMMA NotifyMoves ==
  ASSUME TypeOK, NEW w \in Workers, NEW p \in Places, p # "asleep", GoAndNotify(w, p)
  PROVE  Moved(w, p)
<1> DEFINE pcs == [pc EXCEPT ![w] = p]
<1>1. /\ pcs \in [Workers -> Places] /\ pcs[w] = p
      /\ \A v \in Workers \ {w} : pcs[v] = pc[v]
  BY DEF TypeOK
<1>2. CASE pc' = pcs
  BY <1>1, <1>2 DEF Moved
<1>3. ASSUME NEW v \in Workers, pcs[v] = "asleep", pc' = [pcs EXCEPT ![v] = "wait"]
      PROVE  Moved(w, p)
  <2>1. v # w /\ "wait" \in Places
    BY <1>1, <1>3 DEF Places
  <2> HIDE DEF pcs
  <2> QED BY <1>1, <1>3, <2>1 DEF Moved
<1> QED BY <1>2, <1>3 DEF GoAndNotify

\* Enqueueing a task that is not queued puts it there and takes nothing away.
LEMMA EnqueueAdds ==
  ASSUME TypeOK, NEW t \in Tasks, ~Queued(t), NEW delay \in 0..Long, Enqueue(t, delay)
  PROVE  /\ queue' \in Seq(Tasks) /\ IsInjective(queue')
         /\ left' \in [Tasks -> 0..Long]
         /\ \A u : Queued(u)' <=> u = t \/ Queued(u)
<1> DEFINE n == Len(queue)
<1>1. queue \in Seq(Tasks) /\ IsInjective(queue) /\ n \in Nat /\ DOMAIN queue = 1..n
  BY DEF TypeOK
<1>2. PICK i \in 1..n + 1 : queue' = InsertAt(queue, i, t)
  BY DEF Enqueue
<1>3. /\ queue' \in Seq(Tasks) /\ Len(queue') = n + 1 /\ DOMAIN queue' = 1..n + 1
      /\ \A k \in 1..n + 1 :
           queue'[k] = IF k < i THEN queue[k] ELSE IF k = i THEN t ELSE queue[k - 1]
  <2>1. /\ InsertAt(queue, i, t) \in Seq(Tasks) /\ Len(InsertAt(queue, i, t)) = n + 1
        /\ \A k \in 1..n + 1 :
             InsertAt(queue, i, t)[k] = IF k < i THEN queue[k] ELSE IF k = i THEN t ELSE queue[k - 1]
    BY <1>1, InsertAtEntries
  <2>2. queue' \in Seq(Tasks) /\ Len(queue') = n + 1
    BY <1>2, <2>1
  <2> QED BY <1>2, <2>1, <2>2
<1> HIDE DEF n
<1>4. \A k \in 1..n : queue[k] # t
  BY DEF Queued, n
<1>5. ASSUME NEW a \in 1..n + 1, NEW b \in 1..n + 1, queue'[a] = queue'[b]
      PROVE  a = b
  <2> DEFINE old(k) == IF k < i THEN k ELSE k - 1
  <2>1. \A k \in 1..n + 1 : k # i => old(k) \in 1..n /\ queue'[k] = queue[old(k)] /\ queue'[k] # t
    BY <1>1, <1>3, <1>4
  <2>2. queue'[i] = t
    BY <1>3
  <2>3. a = i <=> b = i
    BY <1>5, <2>1, <2>2
  <2>4. a # i => old(a) = old(b)
    BY <1>1, <1>5, <2>1, <2>3 DEF IsInjective
  <2> QED BY <1>1, <2>3, <2>4
<1>6. \A u : Queued(u)' <=> u = t \/ Queued(u)
  <2>1. ASSUME NEW k \in 1..n PROVE \E m \in 1..n + 1 : queue'[m] = queue[k]
    <3>1. CASE k < i
      BY <1>1, <1>3, <3>1
    <3>2. CASE k >= i
      <4>1. k + 1 \in 1..n + 1 /\ ~(k + 1 < i) /\ k + 1 # i /\ (k + 1) - 1 = k
        BY <1>1, <3>2
      <4> QED BY <1>3, <4>1
    <3>3. k < i \/ k >= i
      BY <1>1
    <3> QED BY <3>1, <3>2, <3>3
  <2>2. ASSUME NEW k \in 1..n + 1
        PROVE  queue'[k] = t \/ \E m \in 1..n : queue'[k] = queue[m]
    BY <1>1, <1>3
  <2>3. queue'[i] = t
    BY <1>3
  <2> QED BY <1>3, <2>1, <2>2, <2>3 DEF Queued, n
<1>7. left' \in [Tasks -> 0..Long]
  BY DEF Enqueue, TypeOK
<1> QED BY <1>3, <1>5, <1>6, <1>7 DEF IsInjective

-----------------------------------------------------------------------------
\* A step that takes no task and sends nobody away.
LEMMA QuietStep ==
  ASSUME IInv, pc' \in [Workers -> Places],
         \A v \in Workers : \/ pc'[v] = pc[v]
                            \/ /\ pc[v] # "running"
                               /\ pc'[v] \notin Leaving \cup {"running"},
         UNCHANGED <<task, queue, fresh>>, stopping => stopping', stopping' \in BOOLEAN,
         main' \in {"create", "up", "wait"}, hold' \in 0..1, HeldLate', crashed' \in BOOLEAN,
         sleep' \in [Workers -> 0..Long], left' \in [Tasks -> 0..Long]
  PROVE  IInv'
<1>1. TypeOK'
  <2>1. \A w \in Workers : task'[w] # None <=> pc'[w] = "running"
    BY DEF IInv, TypeOK
  <2> QED BY <2>1 DEF IInv, TypeOK
<1>2. \A u : Queued(u)' <=> Queued(u)
  BY DEF Queued
<1>3. Placed' /\ CollectGoesOn'
  BY <1>2 DEF IInv, Placed, CollectGoesOn
<1>4. DispatchFirst' /\ SomeServes'
  BY <1>2 DEF IInv, DispatchFirst, SomeServes
<1> QED BY <1>1, <1>3, <1>4 DEF IInv

\* The same of one worker that goes on to p, and of those it wakes.
LEMMA QuietMove ==
  ASSUME IInv, NEW w \in Workers, NEW p \in Places \ (Leaving \cup {"running"}),
         pc[w] # "running", Moved(w, p),
         UNCHANGED <<task, queue, fresh, left, stopping, hold>>, sleep' \in [Workers -> 0..Long],
         main' \in {"create", "up", "wait"}, main' = "wait" <=> main = "wait",
         crashed' = crashed
  PROVE  IInv'
<1>1. /\ pc' \in [Workers -> Places]
      /\ \A v \in Workers : \/ pc'[v] = pc[v]
                            \/ /\ pc[v] # "running"
                               /\ pc'[v] \notin Leaving \cup {"running"}
  BY DEF Moved, Leaving
<1>2. /\ (stopping => stopping') /\ stopping' \in BOOLEAN /\ crashed' \in BOOLEAN
      /\ hold' \in 0..1 /\ HeldLate' /\ left' \in [Tasks -> 0..Long]
  BY DEF IInv, TypeOK, HeldLate
<1> QED BY <1>1, <1>2, QuietStep

\* A worker leaves on its own only when it has found the queue empty: another one
\* collects metrics then.
LEMMA TopKeeps ==
  ASSUME IInv, NEW w \in Workers, Top(w)
  PROVE  IInv'
<1>1. /\ pc[w] = "top" /\ Go(w, IF queue = <<>> THEN "test" ELSE "wait")
      /\ UNCHANGED <<main, task, sleep, queue, left, fresh, hold, stopping, crashed>>
  BY DEF Top
<1>2. CASE queue # <<>>
  <2>1. Moved(w, "wait")
    BY <1>1, <1>2, GoMoves DEF IInv, Places
  <2> QED BY <1>1, <2>1, QuietMove DEF IInv, TypeOK, Places, Leaving
<1>3. CASE queue = <<>>
  <2>1. Moved(w, "test")
    BY <1>1, <1>3, GoMoves DEF IInv, Places
  <2>2. \A u : ~Queued(u) /\ ~Queued(u)'
    BY <1>1, <1>3 DEF Queued
  <2>3. TypeOK'
    <3>1. \A v \in Workers : task'[v] # None <=> pc'[v] = "running"
      BY <1>1, <2>1 DEF IInv, TypeOK, Moved
    <3> QED BY <1>1, <2>1, <3>1 DEF IInv, TypeOK, Moved
  <2>4. Placed' /\ CollectGoesOn' /\ DispatchFirst' /\ HeldLate'
    BY <1>1, <2>2 DEF IInv, Placed, CollectGoesOn, DispatchFirst, HeldLate
  <2>5. SomeServes'
    <3> SUFFICES ASSUME ~stopping
                 PROVE  \E v \in Workers : pc'[v] \notin Leaving /\ task'[v] # dispatch
      BY <1>1 DEF SomeServes
    <3>1. PICK v \in Workers : task[v] = collect
      BY <2>2 DEF IInv, CollectGoesOn
    <3>2. pc[v] = "running" /\ v # w /\ collect # dispatch
      BY <1>1, <3>1, PoolAssumption DEF IInv, TypeOK
    <3> QED BY <1>1, <2>1, <3>1, <3>2 DEF Moved, Leaving
  <2> QED BY <2>3, <2>4, <2>5 DEF IInv
<1> QED BY <1>2, <1>3

\* A worker tests the holds and goes on or leaves.
LEMMA TestKeeps ==
  ASSUME IInv, NEW w \in Workers, Test(w)
  PROVE  IInv'
<1>1. /\ pc[w] = "test"
      /\ UNCHANGED <<main, task, sleep, queue, left, fresh, hold, stopping>>
  BY DEF Test
<1>2. CASE Go(w, "wait") /\ UNCHANGED crashed
  <2>1. Moved(w, "wait")
    BY <1>2, GoMoves DEF IInv, Places
  <2> QED BY <1>1, <1>2, <2>1, QuietMove DEF IInv, TypeOK, Places, Leaving
<1>3. CASE Go(w, "left") /\ crashed' \in BOOLEAN
  <2>1. Moved(w, "left")
    BY <1>3, GoMoves DEF IInv, Places
  <2>2. \A u : Queued(u)' <=> Queued(u)
    BY <1>1 DEF Queued
  <2>3. TypeOK'
    <3>1. \A v \in Workers : task'[v] # None <=> pc'[v] = "running"
      BY <1>1, <2>1 DEF IInv, TypeOK, Moved
    <3> QED BY <1>1, <1>3, <2>1, <3>1 DEF IInv, TypeOK, Moved
  <2>4. Placed' /\ CollectGoesOn' /\ HeldLate'
    BY <1>1, <2>2 DEF IInv, Placed, CollectGoesOn, HeldLate
  <2>5. DispatchFirst' /\ SomeServes'
    BY <1>1, <2>1, <2>2 DEF IInv, DispatchFirst, SomeServes, Moved, Leaving
  <2> QED BY <2>3, <2>4, <2>5 DEF IInv
<1> QED BY <1>2, <1>3 DEF Test

\* A worker takes the first task.  If that is the dispatcher, nobody has left yet, so
\* there is another worker to serve.
LEMMA ExecuteOneKeeps ==
  ASSUME IInv, NEW w \in Workers, ExecuteOne(w)
  PROVE  IInv'
<1>1. /\ pc[w] = "execute"
      /\ UNCHANGED <<main, sleep, fresh, hold, stopping, crashed>>
  BY DEF ExecuteOne
<1>2. CASE Go(w, "over") /\ UNCHANGED <<queue, left, task>>
  <2>1. Moved(w, "over")
    BY <1>2, GoMoves DEF IInv, Places
  <2> QED BY <1>1, <1>2, <2>1, QuietMove DEF IInv, TypeOK, Places, Leaving
<1>3. CASE /\ queue # <<>>
           /\ task' = [task EXCEPT ![w] = Head(queue)] /\ queue' = Tail(queue)
           /\ left' = [left EXCEPT ![Head(queue)] = 0]
           /\ GoAndNotify(w, "running")
  <2> DEFINE t == Head(queue)
  <2>1. Moved(w, "running")
    BY <1>3, NotifyMoves DEF IInv, Places
  <2>2. /\ queue' \in Seq(Tasks) /\ IsInjective(queue') /\ t \in Tasks
        /\ \A u : Queued(u)' <=> u # t /\ Queued(u)
        /\ Queued(t)
    <3>1. queue \in Seq(Tasks) /\ IsInjective(queue) /\ queue # <<>> /\ queue' = Tail(queue)
      BY <1>3 DEF IInv, TypeOK
    <3>2. /\ Tail(queue) \in Seq(Tasks) /\ IsInjective(Tail(queue)) /\ t \in Tasks
          /\ \A x : (\E k \in 1..Len(Tail(queue)) : Tail(queue)[k] = x)
                      <=> x # t /\ \E k \in 1..Len(queue) : queue[k] = x
      BY <3>1, TailEntries
    <3>3. 1 \in 1..Len(queue) /\ queue[1] = t
      BY <3>1
    <3> HIDE DEF t
    <3> QED BY <3>1, <3>2, <3>3 DEF Queued
  <2> HIDE DEF t
  <2>3. /\ task' \in [Workers -> Tasks \cup {None}] /\ task'[w] = t /\ t # None
        /\ \A v \in Workers \ {w} : task'[v] = task[v]
        /\ task[w] = None
    BY <1>1, <1>3, <2>2, PoolAssumption DEF IInv, TypeOK, Tasks, t
  <2>4. left' \in [Tasks -> 0..Long]
    BY <1>3, PoolAssumption DEF IInv, TypeOK
  <2>5. TypeOK'
    <3>1. \A v \in Workers : task'[v] # None <=> pc'[v] = "running"
      BY <2>1, <2>3 DEF IInv, TypeOK, Moved
    <3> QED BY <1>1, <2>1, <2>2, <2>3, <2>4, <3>1 DEF IInv, TypeOK, Moved
  <2>6. Placed'
    BY <1>1, <2>2, <2>3 DEF IInv, Placed
  <2>7. CollectGoesOn'
    <3> SUFFICES ASSUME ~stopping
                 PROVE  Queued(collect)' \/ \E v \in Workers : task'[v] = collect
      BY <1>1 DEF CollectGoesOn
    <3>1. CASE Queued(collect)
      BY <2>2, <2>3, <3>1
    <3>2. ASSUME NEW v \in Workers, task[v] = collect
          PROVE  \E x \in Workers : task'[x] = collect
      <4>1. v # w
        BY <2>3, <3>2, PoolAssumption
      <4> QED BY <2>3, <3>2, <4>1
    <3> QED BY <3>1, <3>2 DEF IInv, CollectGoesOn
  <2>8. DispatchFirst' /\ HeldLate'
    BY <1>1, <2>1, <2>2 DEF IInv, DispatchFirst, HeldLate, Moved, Leaving
  <2>9. SomeServes'
    <3> SUFFICES ASSUME ~stopping
                 PROVE  \E v \in Workers : pc'[v] \notin Leaving /\ task'[v] # dispatch
      BY <1>1 DEF SomeServes
    <3>1. CASE t # dispatch
      BY <2>1, <2>3, <3>1 DEF Moved, Leaving
    <3>2. CASE t = dispatch
      <4>1. PICK v \in Workers : v # w
        BY PoolAssumption
      <4>2. pc[v] \notin Leaving /\ task[v] # dispatch
        BY <2>2, <3>2, PoolAssumption DEF IInv, DispatchFirst, Placed, Tasks
      <4> QED BY <2>1, <2>3, <4>1, <4>2 DEF Moved, Leaving
    <3> QED BY <3>1, <3>2
  <2> QED BY <2>5, <2>6, <2>7, <2>8, <2>9 DEF IInv
<1> QED BY <1>2, <1>3 DEF ExecuteOne

\* A worker that is done with its task goes back to the loop; the task may be queued
\* again, and the collection of metrics is until the shutdown.
LEMMA TaskEnds ==
  ASSUME IInv, NEW w \in Workers, pc[w] = "running", Done(w), Moved(w, "over"),
         task[w] = collect /\ ~stopping => Queued(collect)',
         task[w] = dispatch => stopping,
         queue' \in Seq(Tasks), IsInjective(queue'), left' \in [Tasks -> 0..Long],
         \A u : Queued(u)' => Queued(u) \/ (u = collect /\ task[w] = collect),
         Queued(collect) => Queued(collect)',
         UNCHANGED <<main, sleep, fresh, hold, stopping, crashed>>
  PROVE  IInv'
<1>1. /\ task' \in [Workers -> Tasks \cup {None}] /\ task'[w] = None /\ task[w] # None
      /\ \A v \in Workers \ {w} : task'[v] = task[v]
  BY DEF Done, IInv, TypeOK
<1>2. TypeOK'
  <2>1. \A v \in Workers : task'[v] # None <=> pc'[v] = "running"
    BY <1>1 DEF IInv, TypeOK, Moved
  <2> QED BY <1>1, <2>1 DEF IInv, TypeOK, Moved
<1>3. Placed'
  <2>1. \A v \in Workers : \A u : task'[v] = u /\ u # None => ~Queued(u)'
    <3> SUFFICES ASSUME NEW v \in Workers, NEW u, task'[v] = u, u # None
                 PROVE  ~Queued(u)'
      OBVIOUS
    <3>1. v # w /\ task[v] = u
      BY <1>1
    <3>2. ~Queued(u) /\ task[w] # u
      BY <1>1, <3>1 DEF IInv, Placed
    <3> QED BY <3>2
  <2>2. \A v, x \in Workers : v # x /\ task'[v] # None => task'[v] # task'[x]
    BY <1>1 DEF IInv, Placed
  <2>3. \A j \in fresh' : ~Queued(j)' /\ \A v \in Workers : task'[v] # j
    <3> SUFFICES ASSUME NEW j \in fresh
                 PROVE  ~Queued(j)' /\ \A v \in Workers : task'[v] # j
      OBVIOUS
    <3>1. j # collect /\ j # None
      BY PoolAssumption DEF IInv, TypeOK
    <3> QED BY <1>1, <3>1 DEF IInv, Placed
  <2> QED BY <2>1, <2>2, <2>3 DEF Placed
<1>4. CollectGoesOn'
  BY <1>1 DEF IInv, CollectGoesOn
<1>5. DispatchFirst' /\ HeldLate'
  BY PoolAssumption DEF IInv, DispatchFirst, HeldLate, Moved, Leaving
<1>6. SomeServes'
  <2> SUFFICES ASSUME ~stopping
               PROVE  \E v \in Workers : pc'[v] \notin Leaving /\ task'[v] # dispatch
    BY DEF SomeServes
  <2>1. PICK v \in Workers : pc[v] \notin Leaving /\ task[v] # dispatch
    BY DEF IInv, SomeServes
  <2>2. task'[v] # dispatch
    BY <1>1, <2>1, PoolAssumption
  <2> QED BY <2>1, <2>2 DEF Moved, Leaving
<1> QED BY <1>2, <1>3, <1>4, <1>5, <1>6 DEF IInv

\* A worker runs the oldest task that is due.
LEMMA RunKeeps ==
  ASSUME IInv, NEW w \in Workers, Run(w)
  PROVE  IInv'
<1>1. ASSUME pc[w] = "running", Done(w), Go(w, "over"), UNCHANGED <<queue, left>>,
             UNCHANGED <<main, sleep, fresh, hold, stopping, crashed>>,
             task[w] \in {collect, dispatch} => stopping
      PROVE  IInv'
  <2>1. Moved(w, "over")
    BY <1>1, GoMoves DEF IInv, Places
  <2>2. \A u : Queued(u)' <=> Queued(u)
    BY <1>1 DEF Queued
  <2>3. queue' \in Seq(Tasks) /\ IsInjective(queue') /\ left' \in [Tasks -> 0..Long]
    BY <1>1 DEF IInv, TypeOK
  <2> QED BY <1>1, <2>1, <2>2, <2>3, TaskEnds
<1>2. CASE RunJob(w)
  BY <1>1, <1>2, PoolAssumption DEF RunJob
<1>3. CASE DispatchEnds(w)
  BY <1>1, <1>3 DEF DispatchEnds
<1>4. CASE RunCollect(w)
  <2>1. CASE stopping
    BY <1>1, <1>4, <2>1 DEF RunCollect, CollectsAgain
  <2>2. CASE ~stopping
    <3>1. /\ pc[w] = "running" /\ task[w] = collect /\ Done(w)
          /\ Enqueue(collect, Second) /\ GoAndNotify(w, "over")
          /\ UNCHANGED <<main, sleep, fresh, hold, stopping, crashed>>
      BY <1>4, <2>2 DEF RunCollect, CollectsAgain
    <3>2. Moved(w, "over")
      BY <3>1, NotifyMoves DEF IInv, Places
    <3>3. collect \in Tasks /\ ~Queued(collect) /\ Second \in 0..Long /\ collect # dispatch
      BY <3>1, PoolAssumption DEF IInv, Placed, Tasks
    <3>4. /\ queue' \in Seq(Tasks) /\ IsInjective(queue') /\ left' \in [Tasks -> 0..Long]
          /\ \A u : Queued(u)' <=> u = collect \/ Queued(u)
      BY <3>1, <3>3, EnqueueAdds DEF IInv
    <3> QED BY <3>1, <3>2, <3>3, <3>4, TaskEnds
  <2> QED BY <2>1, <2>2
<1> QED BY <1>2, <1>3, <1>4 DEF Run

\* The dispatcher enqueues a job for now or for later.
LEMMA DispatchJobKeeps ==
  ASSUME IInv, NEW w \in Workers, NEW j \in Jobs, NEW delay \in {0, Long},
         DispatchJob(w, j, delay)
  PROVE  IInv'
<1>1. /\ pc[w] = "running" /\ task[w] = dispatch
      /\ j \in fresh /\ fresh' = fresh \ {j}
      /\ Enqueue(j, delay) /\ GoAndNotify(w, "running")
      /\ UNCHANGED <<main, task, sleep, hold, stopping, crashed>>
  BY DEF DispatchJob
<1>2. Moved(w, "running")
  BY <1>1, NotifyMoves DEF IInv, Places
<1>3. j \in Tasks /\ ~Queued(j) /\ delay \in 0..Long /\ j # dispatch /\ j # collect
  BY <1>1, PoolAssumption DEF IInv, Placed, Tasks
<1>4. /\ queue' \in Seq(Tasks) /\ IsInjective(queue') /\ left' \in [Tasks -> 0..Long]
      /\ \A u : Queued(u)' <=> u = j \/ Queued(u)
  BY <1>1, <1>3, EnqueueAdds DEF IInv
<1>5. TypeOK'
  <2>1. \A v \in Workers : task'[v] # None <=> pc'[v] = "running"
    BY <1>1, <1>2 DEF IInv, TypeOK, Moved
  <2> QED BY <1>1, <1>2, <1>4, <2>1 DEF IInv, TypeOK, Moved
<1>6. Placed'
  BY <1>1, <1>4 DEF IInv, Placed
<1>7. CollectGoesOn' /\ HeldLate'
  BY <1>1, <1>4 DEF IInv, CollectGoesOn, HeldLate
<1>8. DispatchFirst' /\ SomeServes'
  BY <1>1, <1>2, <1>3, <1>4 DEF IInv, DispatchFirst, SomeServes, Moved, Leaving
<1> QED BY <1>5, <1>6, <1>7, <1>8 DEF IInv

\* main(): the pool is held once, after all workers are there.
LEMMA MainKeeps ==
  ASSUME IInv, Up \/ Shutdown \/ Down \/ WakeAll
  PROVE  IInv'
<1>1. UNCHANGED <<task, sleep, queue, left, fresh, crashed>>
  BY DEF Up, Shutdown, Down, WakeAll
<1>2. /\ pc' \in [Workers -> Places]
      /\ \A v \in Workers : pc'[v] = pc[v] \/ (pc[v] = "asleep" /\ pc'[v] = "wait")
  BY DEF Up, Shutdown, Down, WakeAll, Go, IInv, TypeOK, Places
<1>3. (stopping => stopping') /\ stopping' \in BOOLEAN
  BY DEF Up, Shutdown, Down, WakeAll, IInv, TypeOK
<1>4. main' \in {"create", "up", "wait"} /\ hold' \in 0..1 /\ HeldLate'
  BY DEF Up, Shutdown, Down, WakeAll, IInv, TypeOK, HeldLate
<1> QED BY <1>1, <1>2, <1>3, <1>4, QuietStep DEF IInv, TypeOK, Leaving

\* Time passes for sleepers and for tasks.
LEMMA TickKeeps ==
  ASSUME IInv, Tick
  PROVE  IInv'
<1>1. \A n \in 0..Long : Less(n) \in 0..Long
  BY PoolAssumption DEF Less
<1>2. left' \in [Tasks -> 0..Long] /\ sleep' \in [Workers -> 0..Long]
  BY <1>1 DEF Tick, IInv, TypeOK
<1>3. UNCHANGED <<main, pc, task, queue, fresh, hold, stopping, crashed>>
  BY DEF Tick
<1> QED BY <1>2, <1>3, QuietStep DEF IInv, TypeOK, HeldLate

\* The steps of the loop that take no task.
LEMMA LoopKeeps ==
  ASSUME IInv, NEW w \in Workers,
         Create(w) \/ Look(w) \/ Sleep(w) \/ TimeOut(w) \/ Over(w)
  PROVE  IInv'
<1>1. ASSUME Create(w)
      PROVE  IInv'
  <2>1. Moved(w, "top")
    BY <1>1, NotifyMoves DEF Create, IInv, Places
  <2> QED BY <1>1, <2>1, QuietMove DEF Create, IInv, TypeOK, Places, Leaving
<1>2. ASSUME Look(w)
      PROVE  IInv'
  <2> DEFINE p == IF Continues THEN "execute" ELSE IF pc[w] = "late" THEN "top" ELSE "drowsy"
  <2>1. /\ pc[w] \in {"wait", "late"} /\ Go(w, p) /\ WaitUntil(w)
        /\ UNCHANGED <<main, task, queue, left, fresh, hold, stopping, crashed>>
    BY <1>2 DEF Look
  <2>2. p \in Places \ (Leaving \cup {"running"})
    BY DEF Places, Leaving
  <2> HIDE DEF p
  <2>3. Moved(w, p)
    BY <2>1, <2>2, GoMoves DEF IInv
  <2>4. sleep' \in [Workers -> 0..Long]
    BY <2>1 DEF WaitUntil, IInv, TypeOK
  <2> QED BY <2>1, <2>2, <2>3, <2>4, QuietMove DEF IInv, TypeOK
<1>3. ASSUME Sleep(w)
      PROVE  IInv'
  <2>1. Moved(w, "asleep")
    BY <1>3, GoMoves DEF Sleep, IInv, Places
  <2> QED BY <1>3, <2>1, QuietMove DEF Sleep, IInv, TypeOK, Places, Leaving
<1>4. ASSUME TimeOut(w)
      PROVE  IInv'
  <2>1. Moved(w, "late")
    BY <1>4, GoMoves DEF TimeOut, IInv, Places
  <2> QED BY <1>4, <2>1, QuietMove DEF TimeOut, IInv, TypeOK, Places, Leaving
<1>5. ASSUME Over(w)
      PROVE  IInv'
  <2>1. Moved(w, "top")
    BY <1>5, NotifyMoves DEF Over, IInv, Places
  <2> QED BY <1>5, <2>1, QuietMove DEF Over, IInv, TypeOK, Places, Leaving
<1> QED BY <1>1, <1>2, <1>3, <1>4, <1>5

\* The invariant holds before the first worker is made.
LEMMA InitInvariant == Init => IInv
<1> SUFFICES ASSUME Init PROVE IInv
  OBVIOUS
<1>1. /\ queue = <<dispatch, collect>> /\ queue \in Seq(Tasks) /\ IsInjective(queue)
      /\ \A u : Queued(u) <=> u \in {dispatch, collect}
  BY PoolAssumption DEF Init, Tasks, IsInjective, Queued
<1>2. TypeOK
  <2>1. sleep \in [Workers -> 0..Long] /\ left \in [Tasks -> 0..Long]
    BY PoolAssumption DEF Init
  <2>2. main \in {"create", "up", "wait"} /\ fresh \subseteq Jobs /\ hold \in 0..1
    BY DEF Init
  <2>3. stopping \in BOOLEAN /\ crashed \in BOOLEAN
    BY Zenon DEF Init
  <2>4. /\ pc \in [Workers -> Places] /\ task \in [Workers -> Tasks \cup {None}]
        /\ \A w \in Workers : task[w] # None <=> pc[w] = "running"
    BY DEF Init, Places
  <2> QED BY <1>1, <2>1, <2>4, <2>2, <2>3 DEF TypeOK
<1>3. Placed /\ CollectGoesOn
  BY <1>1, PoolAssumption DEF Init, Placed, CollectGoesOn, Tasks
<1>4. DispatchFirst /\ SomeServes /\ HeldLate
  BY PoolAssumption DEF Init, DispatchFirst, SomeServes, HeldLate, Leaving
<1> QED BY <1>2, <1>3, <1>4 DEF IInv

-----------------------------------------------------------------------------
\* Every step of the pool keeps the invariant.
LEMMA PoolStep == IInv /\ [Next]_vars => IInv'
<1> SUFFICES ASSUME IInv, [Next]_vars PROVE IInv'
  OBVIOUS
<1>1. ASSUME NEW w \in Workers, Create(w) \/ Loop(w) \/ Run(w)
      PROVE  IInv'
  BY <1>1, TopKeeps, TestKeeps, ExecuteOneKeeps, LoopKeeps, RunKeeps DEF Loop
<1>2. CASE UNCHANGED vars
  BY <1>2, QuietStep DEF vars, IInv, TypeOK, HeldLate
<1> QED BY <1>1, <1>2, DispatchJobKeeps, MainKeeps, TickKeeps DEF Next

\* The inductive invariant of the pool holds in every reachable state.
THEOREM Invariance == Spec => []IInv
BY InitInvariant, PoolStep, PTL DEF Spec

\* The pool and the queue keep their type: a task is queued once, and a worker has a
\* task exactly while it executes one.
THEOREM TypeCorrect == Spec => []TypeOK
<1>1. IInv => TypeOK
  BY DEF IInv
<1> QED BY <1>1, Invariance, PTL

\* A task that is queued, run or still to be enqueued is in no two places: no worker
\* runs what another one runs or what is still queued.
THEOREM TasksAreOnce == Spec => []Placed
<1>1. IInv => Placed
  BY DEF IInv
<1> QED BY <1>1, Invariance, PTL

\* However early workers find the queue empty, some worker is left beside the
\* dispatcher until the shutdown.
THEOREM LastWorkerAlwaysStays == Spec => []LastWorkerStays
<1>1. IInv => LastWorkerStays
  BY DEF IInv, SomeServes, Leaving, LastWorkerStays
<1> QED BY <1>1, Invariance, PTL

-----------------------------------------------------------------------------
Types ==
  /\ calls \in Uses
  /\ now \in Instants /\ actual \in Instants /\ next \in Instants \cup {Forever}
  /\ tasks \in [Instants -> 0..MaxTasks]
  /\ helper \in BOOLEAN /\ spent \in BOOLEAN /\ armed \in BOOLEAN
  /\ shutdown \in BOOLEAN /\ broken \in BOOLEAN

HelperHasTasks == ~helper => Pending = {}

\* Before the first alarm, of a timer that is only put off.
OneTask ==
  calls = {"prolong"} /\ ~spent =>
    IF armed
      THEN /\ \E t \in Instants : LastTask(t) /\ t <= Later(actual, now)
           /\ next <= Later(actual, now)
      ELSE Pending = {} /\ actual = 0 /\ next = Forever

TimerInv ==
  /\ Types
  /\ HelperHasTasks
  /\ OneTask

-----------------------------------------------------------------------------
\* A new timer satisfies the invariant.
LEMMA InitTimer == TimerInit => TimerInv
<1> SUFFICES ASSUME TimerInit PROVE TimerInv
  OBVIOUS
<1>1. Types
  <2>1. tasks \in [Instants -> 0..MaxTasks]
    BY TimerAssumption DEF TimerInit
  <2>2. calls \in Uses /\ now \in Instants /\ actual \in Instants /\ next = Forever
    BY TimerAssumption DEF TimerInit, Instants
  <2> QED BY <2>1, <2>2 DEF TimerInit, Types
<1>2. Pending = {}
  BY DEF TimerInit, Pending
<1> QED BY <1>1, <1>2 DEF TimerInit, TimerInv, HelperHasTasks, OneTask

\* A call enqueues at most one task, for an instant that has not come.
LEMMA CallStep ==
  ASSUME TimerInv, NEW op \in calls, NEW d \in Durations, Call(op, d)
  PROVE  /\ actual' \in Instants /\ next' \in Instants \cup {Forever}
         /\ UNCHANGED <<calls, now, spent, shutdown, broken>>
         /\ \/ UNCHANGED <<tasks, helper>>
            \/ \E t \in Instants : StartHelper(t)
<1> DEFINE t == now + d
<1>1. /\ t \in Instants /\ t > now /\ d \in Nat
      /\ op \in {"startOnce", "restart", "prolong", "shorten"}
      /\ UNCHANGED <<calls, now, spent, shutdown, broken>>
  BY TimerAssumption DEF Call, TimerInv, Types, Instants
<1>2. ASSUME Appoint(t)
      PROVE  /\ actual' \in Instants /\ next' \in Instants \cup {Forever}
             /\ UNCHANGED <<tasks, helper>> \/ \E u \in Instants : StartHelper(u)
  <2>1. actual' \in Instants /\ next' \in Instants \cup {Forever}
    BY <1>1, <1>2 DEF Appoint, Later, TimerInv, Types
  <2>2. CASE next <= next'
    BY <1>2, <2>1, <2>2 DEF Appoint
  <2>3. CASE ~(next <= next')
    <3>1. next' \in Instants
      BY <1>1, <2>1, <2>3, TimerAssumption DEF TimerInv, Types, Instants, Forever
    <3> QED BY <1>2, <2>1, <2>3, <3>1 DEF Appoint
  <2> QED BY <2>2, <2>3
<1>3. CASE op = "startOnce"
  <2>1. AppointOnce(t)
    BY <1>3 DEF Call
  <2> QED BY <1>1, <2>1 DEF AppointOnce, TimerInv, Types
<1>4. CASE op # "startOnce"
  <2>1. Appoint(t) \/ Keep
    BY <1>1, <1>4 DEF Call
  <2> QED BY <1>1, <1>2, <2>1 DEF Keep, TimerInv, Types
<1> QED BY <1>1, <1>3, <1>4

\* Of a timer that is only put off a call leaves a task that comes in time.
LEMMA CallKeepsOneTask ==
  ASSUME TimerInv, NEW op \in calls, NEW d \in Durations, Call(op, d)
  PROVE  OneTask'
<1> SUFFICES ASSUME calls' = {"prolong"}, ~spent' PROVE OneTask'
  BY DEF OneTask
<1>1. PICK t \in Instants : t = now + d
  BY TimerAssumption DEF Call, TimerInv, Types, Instants
<1>2. /\ op = "prolong" /\ calls = {"prolong"} /\ ~spent
      /\ UNCHANGED <<calls, now, spent>> /\ armed' = (armed \/ actual' > now)
      /\ IF actual >= t THEN Keep ELSE Appoint(t)
  BY <1>1 DEF Call
<1>3. /\ t \in Instants /\ t > now /\ now \in Nat /\ actual \in Nat /\ MaxTime \in Nat
      /\ next \in Nat /\ actual <= MaxTime /\ t \in Nat
  BY <1>1, TimerAssumption DEF Call, TimerInv, Types, Instants, Forever
<1>4. CASE armed
  <2>1. PICK u \in Instants : LastTask(u) /\ u <= Later(actual, now)
    BY <1>2, <1>4 DEF TimerInv, OneTask
  <2>2. next <= Later(actual, now)
    BY <1>2, <1>4 DEF TimerInv, OneTask
  <2>3. Keep \/ (actual' = t /\ t > actual /\ next' <= t /\ UNCHANGED tasks)
    <3>1. CASE actual >= t
      BY <1>2, <3>1
    <3>2. CASE actual < t
      <4>1. Appoint(t)
        BY <1>2, <1>3, <3>2
      <4>2. next <= next' /\ next' <= t
        BY <1>3, <2>2, <3>2, <4>1 DEF Appoint, Later
      <4> QED BY <3>2, <4>1, <4>2 DEF Appoint
    <3> QED BY <1>3, <3>1, <3>2
  <2>4. /\ Later(actual, now) <= Later(actual, now)' /\ next' <= Later(actual, now)'
        /\ UNCHANGED tasks
    BY <1>2, <1>3, <2>2, <2>3 DEF Later, Keep
  <2>5. LastTask(u)' /\ u <= Later(actual, now)'
    <3>1. u \in Nat /\ Later(actual, now) \in Nat /\ Later(actual, now)' \in Nat
      BY <1>2, <1>3, <2>3, TimerAssumption DEF Instants, Later, Keep
    <3>2. LastTask(u)'
      BY <2>1, <2>4 DEF LastTask, Pending
    <3> QED BY <2>1, <2>4, <3>1, <3>2
  <2>6. armed'
    BY <1>2, <1>4
  <2> QED BY <2>4, <2>5, <2>6 DEF OneTask
<1>5. CASE ~armed
  <2>1. Pending = {} /\ actual = 0 /\ next = Forever
    BY <1>2, <1>5 DEF TimerInv, OneTask
  <2>2. Appoint(t)
    BY <1>2, <1>3, <2>1
  <2>3. actual' = t /\ next' = t /\ next > t
    BY <1>3, <2>1, <2>2, TimerAssumption DEF Appoint, Later, Forever, Instants
  <2>4. tasks' = [tasks EXCEPT ![t] = @ + 1]
    BY <1>3, <2>2, <2>3 DEF Appoint, StartHelper
  <2>5. tasks \in [Instants -> Nat] /\ \A u \in Instants : tasks[u] = 0
    BY <2>1, TimerAssumption DEF Pending, TimerInv, Types
  <2>6. LastTask(t)'
    <3>1. \A u \in Instants : tasks'[u] = IF u = t THEN 1 ELSE 0
      BY <1>3, <2>4, <2>5
    <3>2. tasks'[t] = 1 /\ \A u \in Instants : tasks'[u] > 0 <=> u = t
      BY <3>1
    <3>3. Pending' = {t}
      BY <3>2 DEF Pending
    <3> QED BY <3>2, <3>3 DEF LastTask
  <2>7. actual' > now' /\ armed'
    BY <1>2, <1>3, <2>3
  <2>8. Later(actual, now)' = t
    BY <1>3, <2>3, <2>7 DEF Later
  <2>9. t <= Later(actual, now)' /\ next' <= Later(actual, now)'
    BY <1>3, <2>3, <2>8
  <2> QED BY <1>3, <2>6, <2>7, <2>9 DEF OneTask
<1> QED BY <1>4, <1>5 DEF TimerInv, Types

\* Every call that sets an alarm keeps the invariant.
LEMMA CallKeeps ==
  ASSUME TimerInv, NEW op \in calls, NEW d \in Durations, Call(op, d)
  PROVE  TimerInv'
<1>1. Types' /\ HelperHasTasks'
  <2>1. /\ actual' \in Instants /\ next' \in Instants \cup {Forever}
        /\ UNCHANGED <<calls, now, spent, shutdown, broken>> /\ armed' \in BOOLEAN
    BY CallStep DEF Call, TimerInv, Types
  <2>2. CASE UNCHANGED <<tasks, helper>>
    BY <2>1, <2>2 DEF TimerInv, Types, HelperHasTasks, Pending
  <2>3. CASE \E t \in Instants : StartHelper(t)
    <3>1. tasks' \in [Instants -> 0..MaxTasks] /\ helper' = TRUE
      BY <2>3, TimerAssumption DEF StartHelper, TimerInv, Types
    <3> QED BY <2>1, <3>1 DEF TimerInv, Types, HelperHasTasks
  <2> QED BY <2>2, <2>3, CallStep
<1> QED BY <1>1, CallKeepsOneTask DEF TimerInv

\* The only task of a timer that is put off is enqueued again for the new alarm.
LEMMA OnTimeKeeps ==
  ASSUME TimerInv, NEW t \in Instants, OnTime(t)
  PROVE  TimerInv'
<1>1. /\ tasks[t] > 0 /\ tasks[t] <= MaxTasks /\ (t <= now \/ shutdown)
      /\ tasks \in [Instants -> 0..MaxTasks] /\ actual \in Instants
      /\ MaxTime \in Nat /\ MaxTasks \in Nat /\ now \in Nat
      /\ UNCHANGED <<calls, now, actual, next, helper, shutdown, broken>>
  BY TimerAssumption DEF OnTime, TimerInv, Types, Instants
<1>2. helper
  BY <1>1 DEF TimerInv, HelperHasTasks, Pending
<1>3. spent' \in BOOLEAN /\ armed' \in BOOLEAN
  BY DEF OnTime, TimerInv, Types
<1>4. tasks' \in [Instants -> 0..MaxTasks]
  BY <1>1 DEF OnTime
<1>5. OneTask'
  <2>1. CASE spent'
    BY <2>1 DEF OneTask
  <2>2. CASE ~Due /\ ~LastTask(t) /\ UNCHANGED <<spent, armed>>
    <3>1. ~(calls = {"prolong"} /\ ~spent)
      <4>1. ASSUME calls = {"prolong"}, ~spent PROVE FALSE
        <5>1. CASE armed
          <6>1. PICK u \in Instants : LastTask(u)
            BY <4>1, <5>1 DEF TimerInv, OneTask
          <6> QED BY <1>1, <2>2, <6>1 DEF LastTask, Pending
        <5>2. CASE ~armed
          BY <1>1, <4>1, <5>2 DEF TimerInv, OneTask, Pending
        <5> QED BY <5>1, <5>2 DEF TimerInv, Types
      <4> QED BY <4>1
    <3> QED BY <1>1, <2>2, <3>1 DEF OneTask
  <2>3. CASE ~Due /\ LastTask(t) /\ tasks' = [tasks EXCEPT ![t] = 0, ![actual] = 1]
             /\ UNCHANGED <<spent, armed>>
    <3> SUFFICES ASSUME calls = {"prolong"}, ~spent PROVE OneTask'
      BY <1>1, <2>3 DEF OneTask
    <3>1. actual > now /\ ~shutdown /\ actual # t
      BY <1>1, <2>3 DEF Due, Instants
    <3>2. armed /\ next <= Later(actual, now)
      BY <1>1, <2>3, <3>1 DEF TimerInv, OneTask
    <3>3. \A u \in Instants : tasks'[u] = IF u = actual THEN 1 ELSE 0
      <4>1. \A u \in Instants \ {t} : tasks[u] = 0
        BY <1>1, <2>3 DEF LastTask, Pending
      <4> QED BY <1>1, <2>3, <3>1, <4>1
    <3>4. PICK u \in Instants : u = actual
      BY <1>1
    <3>5. LastTask(u)'
      BY <1>1, <3>3, <3>4 DEF LastTask, Pending
    <3>6. u <= Later(actual, now)' /\ next' <= Later(actual, now)'
      BY <1>1, <3>1, <3>2, <3>4 DEF Later, Instants
    <3> QED BY <2>3, <3>2, <3>5, <3>6 DEF OneTask
  <2> QED BY <2>1, <2>2, <2>3 DEF OnTime
<1> QED BY <1>1, <1>2, <1>3, <1>4, <1>5 DEF TimerInv, Types, HelperHasTasks

\* Every step of a timer keeps the invariant.
LEMMA TimerStep == TimerInv /\ [TimerNext]_timerVars => TimerInv'
<1> SUFFICES ASSUME TimerInv, [TimerNext]_timerVars PROVE TimerInv'
  OBVIOUS
<1>1. CASE ClockTick
  <2>1. Types' /\ HelperHasTasks'
    BY <1>1, TimerAssumption
       DEF ClockTick, TimerInv, Types, HelperHasTasks, Instants, Forever, Pending
  <2>2. Later(actual, now) <= Later(actual, now)' /\ UNCHANGED <<tasks, calls, spent, armed>>
    BY <1>1, TimerAssumption DEF ClockTick, TimerInv, Types, Instants, Later
  <2>3. \A t \in Instants : t <= Later(actual, now) => t <= Later(actual, now)'
    BY <1>1, <2>2, TimerAssumption DEF ClockTick, TimerInv, Types, Instants, Later
  <2>4. next <= Later(actual, now) => next' <= Later(actual, now)'
    BY <1>1, <2>2, TimerAssumption
       DEF ClockTick, TimerInv, Types, Instants, Forever, Later
  <2>5. UNCHANGED <<actual, next>>
    BY <1>1 DEF ClockTick
  <2>6. OneTask'
    BY <2>2, <2>3, <2>4, <2>5 DEF TimerInv, OneTask, LastTask, Pending
  <2> QED BY <2>1, <2>6 DEF TimerInv
<1>2. CASE DaemonShutdown
  BY <1>2 DEF DaemonShutdown, TimerInv, Types, HelperHasTasks, OneTask, Pending, LastTask
<1>3. CASE \E op \in calls, d \in Durations : Call(op, d)
  BY <1>3, CallKeeps
<1>4. CASE Stop
  <2>1. Types'
    <3>1. tasks' \in [Instants -> 0..MaxTasks]
      BY <1>4, TimerAssumption DEF Stop
    <3>2. broken' \in BOOLEAN
      BY <1>4 DEF Stop
    <3> QED BY <1>4, <3>1, <3>2 DEF Stop, TimerInv, Types
  <2>2. Pending' = {} /\ spent'
    BY <1>4 DEF Stop, Pending
  <2> QED BY <2>1, <2>2 DEF TimerInv, HelperHasTasks, OneTask
<1>5. CASE \E t \in Instants : OnTime(t)
  BY <1>5, OnTimeKeeps
<1>6. CASE UNCHANGED timerVars
  BY <1>6 DEF timerVars, TimerInv, Types, HelperHasTasks, OneTask, Pending, LastTask
<1> QED BY <1>1, <1>2, <1>3, <1>4, <1>5, <1>6 DEF TimerNext

-----------------------------------------------------------------------------
\* What is left of a timer is always typed: no task is enqueued for an instant that is
\* "never", and a timer without a helper has no task.
THEOREM TimerTypeCorrect == TimerSpec => []TimerTypeOK
<1>1. TimerInv => TimerTypeOK
  BY DEF TimerInv, Types, HelperHasTasks, TimerTypeOK
<1> QED BY <1>1, InitTimer, TimerStep, PTL DEF TimerSpec

\* A session, a peer or a ping timer that is only ever put off keeps a task that is not
\* later than its alarm: the peer that falls silent is noticed in time.
THEOREM FirstAlarmAlwaysInTime == TimerSpec => []FirstAlarmInTime
<1>1. TimerInv => FirstAlarmInTime
  BY DEF TimerInv, OneTask, FirstAlarmInTime, LastTask
<1> QED BY <1>1, InitTimer, TimerStep, PTL DEF TimerSpec

-----------------------------------------------------------------------------
\* The part of the run that is not looked at is at rest: the pool of a run of the timer.
PoolRests == crashed /\ TypeOK /\ LastWorkerStays

\* A pool that has crashed is at rest too: its steps are over.
LibraryInv == TimerInv /\ (IInv \/ PoolRests)

\* Both parts begin with their invariants.
LEMMA LibraryStarts == PoolOnly \/ TimerOnly => LibraryInv
<1>1. CASE PoolOnly
  <2>1. Types
    <3>1. calls \in Uses
      BY <1>1, TimerAssumption DEF PoolOnly
    <3>2. now \in Instants /\ actual \in Instants /\ next = Forever
      BY <1>1, TimerAssumption DEF PoolOnly, Instants
    <3>3. tasks \in [Instants -> 0..MaxTasks]
      BY <1>1, TimerAssumption DEF PoolOnly
    <3>4. /\ helper \in BOOLEAN /\ spent \in BOOLEAN /\ armed \in BOOLEAN
          /\ shutdown \in BOOLEAN /\ broken \in BOOLEAN
      BY <1>1, Zenon DEF PoolOnly
    <3> QED BY <3>1, <3>2, <3>3, <3>4 DEF Types
  <2>2. Pending = {}
    BY <1>1 DEF PoolOnly, Pending
  <2>3. HelperHasTasks /\ OneTask
    BY <1>1, <2>2 DEF PoolOnly, HelperHasTasks, OneTask
  <2> QED BY <1>1, <2>1, <2>3, InitInvariant DEF PoolOnly, TimerInv, LibraryInv
<1>2. CASE TimerOnly
  <2>1. TimerInv
    BY <1>2, InitTimer DEF TimerOnly
  <2>2. queue \in Seq(Tasks) /\ IsInjective(queue)
    BY <1>2 DEF TimerOnly, IsInjective
  <2>3. /\ pc \in [Workers -> Places] /\ task \in [Workers -> Tasks \cup {None}]
        /\ \A w \in Workers : task[w] # None <=> pc[w] = "running"
    BY <1>2 DEF TimerOnly, Places
  <2>4. sleep \in [Workers -> 0..Long] /\ left \in [Tasks -> 0..Long]
    BY <1>2, PoolAssumption DEF TimerOnly
  <2>5. TypeOK
    <3>1. stopping \in BOOLEAN /\ crashed \in BOOLEAN
      BY <1>2, Zenon DEF TimerOnly
    <3>2. main \in {"create", "up", "wait"} /\ fresh \subseteq Jobs /\ hold \in 0..1
      BY <1>2 DEF TimerOnly
    <3> QED BY <2>2, <2>3, <2>4, <3>1, <3>2 DEF TypeOK
  <2>6. LastWorkerStays
    BY <1>2, PoolAssumption DEF TimerOnly, LastWorkerStays, Tasks
  <2> QED BY <1>2, <2>1, <2>5, <2>6 DEF TimerOnly, LibraryInv, PoolRests
<1> QED BY <1>1, <1>2

\* A step of one part keeps its invariant and leaves the other part alone.
LEMMA LibraryStep == LibraryInv /\ [LibraryNext]_<<vars, timerVars>> => LibraryInv'
<1> SUFFICES ASSUME LibraryInv, [LibraryNext]_<<vars, timerVars>> PROVE LibraryInv'
  OBVIOUS
<1>1. CASE ~crashed /\ Next /\ UNCHANGED timerVars
  BY <1>1, PoolStep, TimerStep DEF LibraryInv, PoolRests
<1>2. CASE TimerNext \/ UNCHANGED timerVars
  <2>1. TimerInv'
    BY <1>2, TimerStep DEF LibraryInv
  <2>2. CASE UNCHANGED vars
    <3>1. IInv => IInv'
      BY <2>2, PoolStep
    <3>2. PoolRests => PoolRests'
      BY <2>2 DEF vars, PoolRests, TypeOK, LastWorkerStays
    <3> QED BY <2>1, <3>1, <3>2 DEF LibraryInv
  <2> QED BY <1>1, <1>2, <2>1, <2>2 DEF LibraryNext
<1> QED BY <1>1, <1>2 DEF LibraryNext, vars, timerVars

\* The pool and the timer keep their types wherever the run of the library goes: the
\* pool, its queue and what is left of time, and the timer, its helper and its tasks.
THEOREM LibraryTypeCorrect == LibrarySpec => []LibraryTypeOK
<1>1. LibraryInv => LibraryTypeOK
  BY DEF LibraryInv, IInv, PoolRests, TimerInv, Types, HelperHasTasks, TimerTypeOK, LibraryTypeOK
<1> QED BY <1>1, LibraryStarts, LibraryStep, PTL DEF LibrarySpec

\* What the run of the library checks of the workers and of the first alarm holds of it
\* for any pool and any timer, as it does of each part alone.
THEOREM LibraryKeepsPromises == LibrarySpec => [](LastWorkerStays /\ FirstAlarmInTime)
<1>1. LibraryInv => LastWorkerStays /\ FirstAlarmInTime
  BY DEF LibraryInv, IInv, PoolRests, SomeServes, Leaving, LastWorkerStays, TimerInv, OneTask,
         FirstAlarmInTime, LastTask
<1> QED BY <1>1, LibraryStarts, LibraryStep, PTL DEF LibrarySpec

-----------------------------------------------------------------------------
(* Locked memory: maps and arenas.                                           *)
-----------------------------------------------------------------------------
Maps(R) == UNION {[D -> R] : D \in SUBSET Nat}
Entries == (Nat \ {0}) \X Nat
Arenas ==
  [size : Nat \ {0}, mapped : BOOLEAN, used : Maps(Nat \ {0}), by_size : SUBSET Entries,
   free : Maps(Entries), free_end : Maps(Entries)]

\* A map with numbers for its keys is a function, known by its domain and its values.
LEMMA MapIs ==
  ASSUME NEW R, NEW f
  PROVE  f \in Maps(R) <=> /\ DOMAIN f \subseteq Nat
                           /\ f = [k \in DOMAIN f |-> f[k]]
                           /\ \A k \in DOMAIN f : f[k] \in R
<1>1. ASSUME f \in Maps(R)
      PROVE  /\ DOMAIN f \subseteq Nat
             /\ f = [k \in DOMAIN f |-> f[k]]
             /\ \A k \in DOMAIN f : f[k] \in R
  <2>1. PICK D \in SUBSET Nat : f \in [D -> R]
    BY <1>1 DEF Maps
  <2> QED
    BY <2>1
<1>2. ASSUME DOMAIN f \subseteq Nat, f = [k \in DOMAIN f |-> f[k]],
             \A k \in DOMAIN f : f[k] \in R
      PROVE  f \in Maps(R)
  <2>1. f \in [DOMAIN f -> R]
    BY <1>2
  <2> QED
    BY <1>2, <2>1 DEF Maps
<1> QED
  BY <1>1, <1>2

\* A map stays one without a key, with a value for it, and with one if it had none.
LEMMA MapsKeep ==
  ASSUME NEW R, NEW f \in Maps(R), NEW key \in Nat, NEW value \in R
  PROVE  /\ Locked!Without(f, key) \in Maps(R)
         /\ Locked!With(f, key, value) \in Maps(R)
         /\ Locked!Emplaced(f, key, value) \in Maps(R)
<1>1. /\ DOMAIN f \subseteq Nat
      /\ \A k \in DOMAIN f : f[k] \in R
  BY MapIs
<1>2. Locked!Without(f, key) \in Maps(R)
  <2>1. /\ DOMAIN Locked!Without(f, key) = DOMAIN f \ {key}
        /\ \A k \in DOMAIN f \ {key} : Locked!Without(f, key)[k] = f[k]
        /\ Locked!Without(f, key)
             = [k \in DOMAIN Locked!Without(f, key) |-> Locked!Without(f, key)[k]]
    BY DEF Locked!Without
  <2> QED
    BY <1>1, <2>1, MapIs
<1>3. Locked!With(f, key, value) \in Maps(R)
  <2> DEFINE g == Locked!With(f, key, value)
  <2>1. /\ DOMAIN g = DOMAIN f \cup {key}
        /\ \A k \in DOMAIN g : g[k] = IF k = key THEN value ELSE f[k]
        /\ g = [k \in DOMAIN g |-> g[k]]
    BY DEF Locked!With
  <2>2. DOMAIN g \subseteq Nat /\ \A k \in DOMAIN g : g[k] \in R
    BY <1>1, <2>1
  <2> HIDE DEF g
  <2>3. g \in Maps(R)
    BY <2>1, <2>2, MapIs
  <2> QED
    BY <2>3 DEF g
<1>4. Locked!Emplaced(f, key, value) \in Maps(R)
  BY <1>3 DEF Locked!Emplaced
<1> QED
  BY <1>2, <1>3, <1>4

-----------------------------------------------------------------------------
(* Chunks that lie side by side.                                             *)
-----------------------------------------------------------------------------
\* S is chunks <<begin, size>>.
Tiles(S, size) ==
  /\ S \subseteq Nat \X (Nat \ {0})
  /\ \A c \in S : c[1] + c[2] <= size
  /\ \A c, d \in S : c # d => c[1] + c[2] <= d[1] \/ d[1] + d[2] <= c[1]
  /\ \A cell \in 0..(size - 1) : \E c \in S : c[1] <= cell /\ cell < c[1] + c[2]

\* Every cell is of one chunk, and of no other.
LEMMA OneChunk ==
  ASSUME NEW S, NEW size \in Nat, Tiles(S, size), NEW cell \in 0..(size - 1)
  PROVE  \E c \in S : \A d \in S : cell \in Locked!Cells(d) <=> d = c
<1>1. PICK c \in S : c[1] <= cell /\ cell < c[1] + c[2]
  BY DEF Tiles
<1>2. \A d \in S : cell \in Locked!Cells(d) <=> d[1] <= cell /\ cell < d[1] + d[2]
  BY DEF Tiles, Locked!Cells
<1>3. \A d \in S : cell \in Locked!Cells(d) => d = c
  BY <1>1, <1>2 DEF Tiles
<1> QED
  BY <1>1, <1>2, <1>3

\* A chunk that is cut into two still tiles.
LEMMA Split ==
  ASSUME NEW S, NEW size \in Nat, Tiles(S, size),
         NEW b \in Nat, NEW n \in Nat, NEW k \in 1..(n - 1), <<b, n>> \in S
  PROVE  Tiles((S \ {<<b, n>>}) \cup {<<b, n - k>>, <<b + n - k, k>>}, size)
<1> DEFINE T == (S \ {<<b, n>>}) \cup {<<b, n - k>>, <<b + n - k, k>>}
<1>1. n - k \in Nat \ {0} /\ b + n - k \in Nat /\ k \in Nat \ {0} /\ b + n <= size
  BY DEF Tiles
<1>2. T \subseteq Nat \X (Nat \ {0})
  BY <1>1 DEF Tiles
<1>3. \A c \in T : c[1] + c[2] <= size
  BY <1>1 DEF Tiles
<1>4. \A c \in S \ {<<b, n>>} : c[1] + c[2] <= b \/ b + n <= c[1]
  BY DEF Tiles
<1>5. ASSUME NEW c \in T, NEW d \in T, c # d
      PROVE  c[1] + c[2] <= d[1] \/ d[1] + d[2] <= c[1]
  <2>1. CASE c \in S \ {<<b, n>>} /\ d \in S \ {<<b, n>>}
    BY <1>5, <2>1 DEF Tiles
  <2>2. CASE c \in S \ {<<b, n>>} /\ d \notin S \ {<<b, n>>}
    <3>1. c[1] \in Nat /\ c[2] \in Nat
      BY <2>2 DEF Tiles
    <3> QED
      BY <1>1, <1>4, <2>2, <3>1
  <2>3. CASE c \notin S \ {<<b, n>>} /\ d \in S \ {<<b, n>>}
    <3>1. d[1] \in Nat /\ d[2] \in Nat
      BY <2>3 DEF Tiles
    <3> QED
      BY <1>1, <1>4, <2>3, <3>1
  <2>4. CASE c \notin S \ {<<b, n>>} /\ d \notin S \ {<<b, n>>}
    BY <1>1, <1>5, <2>4
  <2> QED
    BY <2>1, <2>2, <2>3, <2>4
<1>6. ASSUME NEW cell \in 0..(size - 1)
      PROVE  \E c \in T : c[1] <= cell /\ cell < c[1] + c[2]
  <2>1. PICK c \in S : c[1] <= cell /\ cell < c[1] + c[2]
    BY DEF Tiles
  <2>2. CASE c # <<b, n>>
    BY <2>1, <2>2
  <2>3. CASE c = <<b, n>> /\ cell < b + n - k
    <3>1. <<b, n - k>> \in T /\ <<b, n - k>>[1] = b /\ <<b, n - k>>[2] = n - k
      OBVIOUS
    <3> QED
      BY <1>1, <2>1, <2>3, <3>1
  <2>4. CASE c = <<b, n>> /\ ~(cell < b + n - k)
    <3>1. <<b + n - k, k>> \in T /\ <<b + n - k, k>>[1] = b + n - k /\ <<b + n - k, k>>[2] = k
      OBVIOUS
    <3>2. b + n - k <= cell /\ cell < b + n - k + k
      BY <1>1, <2>1, <2>4
    <3> QED
      BY <3>1, <3>2
  <2> QED
    BY <2>2, <2>3, <2>4
<1> QED
  BY <1>2, <1>3, <1>5, <1>6 DEF Tiles

\* Two chunks that touch and are made one still tile.
LEMMA Join ==
  ASSUME NEW S, NEW size \in Nat, Tiles(S, size),
         NEW b \in Nat, NEW n \in Nat, NEW k \in Nat, <<b, n>> \in S, <<b + n, k>> \in S
  PROVE  Tiles((S \ {<<b, n>>, <<b + n, k>>}) \cup {<<b, n + k>>}, size)
<1> DEFINE R == S \ {<<b, n>>, <<b + n, k>>}
           T == R \cup {<<b, n + k>>}
<1>1. n \in Nat \ {0} /\ k \in Nat \ {0} /\ b + n + k <= size
  BY DEF Tiles
<1>2. T \subseteq Nat \X (Nat \ {0})
  BY <1>1 DEF Tiles
<1>3. \A c \in T : c[1] + c[2] <= size
  BY <1>1 DEF Tiles
<1>4. \A c \in R : c[1] \in Nat /\ c[2] \in Nat \ {0}
  BY DEF Tiles
<1>5. \A c \in R : c[1] + c[2] <= b \/ b + (n + k) <= c[1]
  <2>1. \A c \in R : c[1] + c[2] <= b \/ b + n <= c[1]
    BY DEF Tiles
  <2>2. \A c \in R : c[1] + c[2] <= b + n \/ b + n + k <= c[1]
    BY DEF Tiles
  <2> QED
    BY <1>1, <1>4, <2>1, <2>2
<1>6. ASSUME NEW c \in T, NEW d \in T, c # d
      PROVE  c[1] + c[2] <= d[1] \/ d[1] + d[2] <= c[1]
  <2>1. CASE c \in R /\ d \in R
    BY <1>6, <2>1 DEF Tiles
  <2>2. CASE c \in R /\ d \notin R
    BY <1>5, <2>2
  <2>3. CASE c \notin R /\ d \in R
    BY <1>5, <2>3
  <2> QED
    BY <1>6, <2>1, <2>2, <2>3
<1>7. ASSUME NEW cell \in 0..(size - 1)
      PROVE  \E c \in T : c[1] <= cell /\ cell < c[1] + c[2]
  <2>1. PICK c \in S : c[1] <= cell /\ cell < c[1] + c[2]
    BY DEF Tiles
  <2>2. CASE c \in R
    BY <2>1, <2>2
  <2>3. CASE c \notin R
    <3>1. <<b, n + k>> \in T /\ <<b, n + k>>[1] = b /\ <<b, n + k>>[2] = n + k
      OBVIOUS
    <3>2. b <= cell /\ cell < b + (n + k)
      BY <1>1, <2>1, <2>3
    <3> QED
      BY <3>1, <3>2
  <2> QED
    BY <2>2, <2>3
<1> QED
  BY <1>2, <1>3, <1>6, <1>7 DEF Tiles

-----------------------------------------------------------------------------
(* An arena.                                                                 *)
-----------------------------------------------------------------------------
\* The maps of the free chunks say the same.
Indexed(a) ==
  /\ DOMAIN a.free = {e[2] : e \in a.by_size}
  /\ \A e \in a.by_size : a.free[e[2]] = e
  /\ DOMAIN a.free_end = {e[2] + e[1] : e \in a.by_size}
  /\ \A e \in a.by_size : a.free_end[e[2] + e[1]] = e

\* ChunksTile, in a form that a step keeps: no free chunk ends where another begins, and none
\* begins where a used one does.
ArenaOK(a) ==
  /\ a \in Arenas
  /\ Tiles(Locked!Chunks(a), a.size)
  /\ \A e \in a.by_size : e[2] \notin DOMAIN a.used
  /\ \A e, other \in a.by_size : e[2] + e[1] # other[2]
  /\ Indexed(a)

\* What an arena's maps name are chunks of it, and a chunk is used or free.
LEMMA ArenaFacts ==
  ASSUME NEW a, ArenaOK(a)
  PROVE  /\ \A at \in DOMAIN a.used :
              /\ at \in Nat /\ a.used[at] \in Nat \ {0}
              /\ <<at, a.used[at]>> \in Locked!Chunks(a)
         /\ \A e \in a.by_size :
              /\ e \in Entries /\ e[1] \in Nat \ {0} /\ e[2] \in Nat /\ e = <<e[1], e[2]>>
              /\ <<e[2], e[1]>> \in Locked!Chunks(a)
              /\ e[2] + e[1] <= a.size
         /\ \A e \in a.by_size, at \in DOMAIN a.used : e[2] + e[1] <= at \/ at + a.used[at] <= e[2]
         /\ \A e, other \in a.by_size :
              e # other => e[2] + e[1] <= other[2] \/ other[2] + other[1] <= e[2]
<1>1. \A at \in DOMAIN a.used :
        /\ at \in Nat /\ a.used[at] \in Nat \ {0}
        /\ <<at, a.used[at]>> \in Locked!Chunks(a)
  <2>1. a.used \in Maps(Nat \ {0})
    BY DEF ArenaOK, Arenas
  <2>2. \A at \in DOMAIN a.used : at \in Nat /\ a.used[at] \in Nat \ {0}
    BY <2>1, MapIs
  <2> QED
    BY <2>2 DEF Locked!Chunks
<1>2. \A e \in a.by_size :
        /\ e \in Entries /\ e[1] \in Nat \ {0} /\ e[2] \in Nat /\ e = <<e[1], e[2]>>
        /\ <<e[2], e[1]>> \in Locked!Chunks(a)
  BY DEF ArenaOK, Arenas, Entries, Locked!Chunks
<1>3. \A e \in a.by_size : e[2] + e[1] <= a.size
  <2>1. \A e \in a.by_size : <<e[2], e[1]>>[1] + <<e[2], e[1]>>[2] <= a.size
    BY <1>2 DEF ArenaOK, Tiles
  <2> QED
    BY <2>1
<1>4. \A e \in a.by_size, at \in DOMAIN a.used : e[2] + e[1] <= at \/ at + a.used[at] <= e[2]
  <2> TAKE e \in a.by_size, at \in DOMAIN a.used
  <2>1. <<e[2], e[1]>> # <<at, a.used[at]>>
    BY DEF ArenaOK
  <2>2. \A c, d \in Locked!Chunks(a) : c # d => c[1] + c[2] <= d[1] \/ d[1] + d[2] <= c[1]
    BY DEF ArenaOK, Tiles
  <2>3. <<e[2], e[1]>> \in Locked!Chunks(a) /\ <<at, a.used[at]>> \in Locked!Chunks(a)
    BY <1>1, <1>2
  <2> HIDE DEF Locked!Chunks
  <2> QED
    BY <2>1, <2>2, <2>3
<1>5. \A e, other \in a.by_size :
        e # other => e[2] + e[1] <= other[2] \/ other[2] + other[1] <= e[2]
  <2> TAKE e, other \in a.by_size
  <2> HAVE e # other
  <2>1. <<e[2], e[1]>> # <<other[2], other[1]>>
    BY <1>2
  <2>2. \A c, d \in Locked!Chunks(a) : c # d => c[1] + c[2] <= d[1] \/ d[1] + d[2] <= c[1]
    BY DEF ArenaOK, Tiles
  <2>3. <<e[2], e[1]>> \in Locked!Chunks(a) /\ <<other[2], other[1]>> \in Locked!Chunks(a)
    BY <1>2
  <2> QED
    BY <2>1, <2>2, <2>3
<1> QED
  BY <1>1, <1>2, <1>3, <1>4, <1>5

\* What ChunksTile asks of one arena.
LEMMA ArenaHolds ==
  ASSUME NEW a, ArenaOK(a)
  PROVE  /\ \A cell \in 0..(a.size - 1) :
              \E c \in Locked!Chunks(a) : \A d \in Locked!Chunks(a) :
                cell \in Locked!Cells(d) <=> d = c
         /\ \A c \in Locked!Chunks(a) : c[2] > 0 /\ c[1] + c[2] <= a.size
         /\ \A e \in a.by_size : \A other \in a.by_size : e[2] + e[1] # other[2]
         /\ a.free = [at \in {e[2] : e \in a.by_size} |-> CHOOSE e \in a.by_size : e[2] = at]
         /\ a.free_end = [at \in {e[2] + e[1] : e \in a.by_size} |->
                            CHOOSE e \in a.by_size : e[2] + e[1] = at]
<1>1. a.size \in Nat /\ Tiles(Locked!Chunks(a), a.size)
  BY DEF ArenaOK, Arenas
<1>2. \A cell \in 0..(a.size - 1) :
        \E c \in Locked!Chunks(a) : \A d \in Locked!Chunks(a) :
                cell \in Locked!Cells(d) <=> d = c
  BY <1>1, OneChunk
<1>3. \A c \in Locked!Chunks(a) : c[2] > 0 /\ c[1] + c[2] <= a.size
  BY <1>1 DEF Tiles
<1>4. a.free = [at \in {e[2] : e \in a.by_size} |-> CHOOSE e \in a.by_size : e[2] = at]
  <2>1. a.free = [at \in DOMAIN a.free |-> a.free[at]]
    BY MapIs DEF ArenaOK, Arenas
  <2>2. ASSUME NEW at \in DOMAIN a.free
        PROVE  a.free[at] = CHOOSE e \in a.by_size : e[2] = at
    <3>1. PICK e \in a.by_size : e[2] = at
      BY DEF ArenaOK, Indexed
    <3>2. \A other \in a.by_size : other[2] = at => other = e
      BY <3>1 DEF ArenaOK, Indexed
    <3> QED
      BY <3>1, <3>2 DEF ArenaOK, Indexed
  <2> QED
    BY <2>1, <2>2 DEF ArenaOK, Indexed
<1>5. a.free_end = [at \in {e[2] + e[1] : e \in a.by_size} |->
                      CHOOSE e \in a.by_size : e[2] + e[1] = at]
  <2>1. a.free_end = [at \in DOMAIN a.free_end |-> a.free_end[at]]
    BY MapIs DEF ArenaOK, Arenas
  <2>2. ASSUME NEW at \in DOMAIN a.free_end
        PROVE  a.free_end[at] = CHOOSE e \in a.by_size : e[2] + e[1] = at
    <3>1. PICK e \in a.by_size : e[2] + e[1] = at
      BY DEF ArenaOK, Indexed
    <3>2. \A other \in a.by_size : other[2] + other[1] = at => other = e
      BY <3>1 DEF ArenaOK, Indexed
    <3> QED
      BY <3>1, <3>2 DEF ArenaOK, Indexed
  <2> QED
    BY <2>1, <2>2 DEF ArenaOK, Indexed
<1> QED
  BY <1>2, <1>3, <1>4, <1>5 DEF ArenaOK

\* A new arena is one free chunk.
LEMMA NewIsOK ==
  ASSUME NEW size \in Nat \ {0}, NEW mapped \in BOOLEAN
  PROVE  ArenaOK(Locked!NewArena(size, mapped))
<1> DEFINE a == Locked!NewArena(size, mapped)
           e == <<size, 0>>
<1>1. /\ a.size = size /\ a.mapped = mapped /\ DOMAIN a.used = {} /\ a.by_size = {e}
      /\ a.free = Locked!Single(0, e) /\ a.free_end = Locked!Single(size, e)
  BY DEF Locked!NewArena
<1>2. e \in Entries /\ e[1] = size /\ e[2] = 0
  BY DEF Entries
<1>3. a \in Arenas
  <2>1. a.used \in Maps(Nat \ {0})
    <3>1. a.used = [at \in {} |-> 0]
      BY DEF Locked!NewArena
    <3>2. DOMAIN a.used = {} /\ a.used = [k \in DOMAIN a.used |-> a.used[k]]
      BY <3>1
    <3> HIDE DEF a
    <3> QED
      BY <3>2, MapIs
  <2>2. a.free \in Maps(Entries) /\ a.free_end \in Maps(Entries)
    <3>1. ASSUME NEW key \in Nat PROVE Locked!Single(key, e) \in Maps(Entries)
      <4>1. DOMAIN Locked!Single(key, e) = {key} /\ Locked!Single(key, e)[key] = e
        BY DEF Locked!Single
      <4>2. Locked!Single(key, e)
              = [k \in DOMAIN Locked!Single(key, e) |-> Locked!Single(key, e)[k]]
        BY DEF Locked!Single
      <4> QED
        BY <1>2, <4>1, <4>2, MapIs
    <3> QED
      BY <1>1, <3>1
  <2> QED
    BY <1>1, <1>2, <2>1, <2>2 DEF Arenas, Locked!NewArena
<1>4. Locked!Chunks(a) = {<<0, size>>}
  BY <1>1, <1>2 DEF Locked!Chunks
<1>5. Tiles({<<0, size>>}, size)
  BY DEF Tiles
<1>6. Indexed(a)
  BY <1>1, <1>2 DEF Indexed, Locked!Single
<1> HIDE DEF a
<1>7. ArenaOK(a)
  BY <1>1, <1>2, <1>3, <1>4, <1>5, <1>6 DEF ArenaOK
<1> QED
  BY <1>7 DEF a

\* The end of a free chunk is taken.
LEMMA TakenIsOK ==
  ASSUME NEW a, ArenaOK(a), NEW e \in a.by_size, NEW size \in Nat \ {0}, e[1] >= size
  PROVE  ArenaOK(Locked!Taken(a, e, size))
<1> DEFINE t == Locked!Taken(a, e, size)
           b == e[2]
           n == e[1]
           at == b + (n - size)
           remnant == <<n - size, b>>
           ends == Locked!Without(a.free_end, b + n)
<1>1. /\ b \in Nat /\ n \in Nat \ {0} /\ e = <<n, b>> /\ n - size \in Nat /\ at \in Nat
      /\ <<b, n>> \in Locked!Chunks(a) /\ at + size = b + n
  BY ArenaFacts
<1>2. a.size \in Nat /\ Tiles(Locked!Chunks(a), a.size)
  BY DEF ArenaOK, Arenas
<1>3. b <= at
  BY <1>1
<1>4. at \notin DOMAIN a.used
  <2> SUFFICES ASSUME at \in DOMAIN a.used PROVE FALSE
    OBVIOUS
  <2>1. a.used[at] \in Nat \ {0} /\ (b + n <= at \/ at + a.used[at] <= b)
    BY ArenaFacts
  <2> HIDE DEF at, b, n
  <2> QED
    BY <1>1, <1>3, <2>1
<1>5. /\ DOMAIN Locked!Emplaced(a.used, at, size) = DOMAIN a.used \cup {at}
      /\ Locked!Emplaced(a.used, at, size)[at] = size
      /\ \A k \in DOMAIN a.used : Locked!Emplaced(a.used, at, size)[k] = a.used[k]
      /\ Locked!Emplaced(a.used, at, size) \in Maps(Nat \ {0})
  <2>1. a.used \in Maps(Nat \ {0})
    BY DEF ArenaOK, Arenas
  <2>2. Locked!Emplaced(a.used, at, size) \in Maps(Nat \ {0})
    BY <1>1, <2>1, MapsKeep
  <2> QED
    BY <1>4, <2>2 DEF Locked!Emplaced, Locked!With
<1>6. /\ a.free \in Maps(Entries) /\ ends \in Maps(Entries)
      /\ DOMAIN a.free = {x[2] : x \in a.by_size}
      /\ DOMAIN ends = {x[2] + x[1] : x \in a.by_size} \ {b + n}
      /\ \A k \in DOMAIN ends : ends[k] = a.free_end[k]
  <2>1. a.free \in Maps(Entries) /\ a.free_end \in Maps(Entries) /\ b + n \in Nat
    BY <1>1 DEF ArenaOK, Arenas
  <2>2. ends \in Maps(Entries)
    <3>1. e \in Entries
      BY ArenaFacts
    <3> QED
      BY <2>1, <3>1, MapsKeep
  <2> QED
    BY <2>1, <2>2 DEF ArenaOK, Indexed, Locked!Without
\* Another free chunk lies before this one or behind it.
<1>7. \A x \in a.by_size \ {e} :
        /\ x \in Entries /\ x[1] \in Nat \ {0} /\ x[2] \in Nat /\ x = <<x[1], x[2]>>
        /\ x[2] + x[1] <= b \/ b + n <= x[2]
        /\ x[2] # b /\ x[2] + x[1] # b + n /\ x[2] + x[1] # at /\ x[2] # at
  <2> TAKE x \in a.by_size \ {e}
  <2>1. /\ x \in Entries /\ x[1] \in Nat \ {0} /\ x[2] \in Nat /\ x = <<x[1], x[2]>>
        /\ x[2] + x[1] <= b \/ b + n <= x[2]
    BY ArenaFacts
  <2>2. x[2] + x[1] # b
    BY DEF ArenaOK
  <2> QED
    BY <1>1, <2>1, <2>2
<1>8. DOMAIN ends = {x[2] + x[1] : x \in a.by_size \ {e}}
  <2>1. \A k \in DOMAIN ends : \E x \in a.by_size \ {e} : k = x[2] + x[1]
    <3> TAKE k \in DOMAIN ends
    <3>1. k # b + n /\ \E x \in a.by_size : k = x[2] + x[1]
      BY <1>6
    <3> QED
      BY <3>1
  <2>2. \A x \in a.by_size \ {e} : x[2] + x[1] \in DOMAIN ends
    BY <1>6, <1>7
  <2> HIDE DEF ends
  <2> QED
    BY <2>1, <2>2
<1>9. CASE n - size = 0
  <2>1. at = b /\ size = n
    BY <1>1, <1>9
  <2>2. t = [a EXCEPT !.used = Locked!Emplaced(a.used, b, size), !.by_size = a.by_size \ {e},
                      !.free = Locked!Without(a.free, b), !.free_end = ends]
    BY <1>9 DEF Locked!Taken
  <2>3. /\ t.size = a.size /\ t.mapped = a.mapped /\ t.used = Locked!Emplaced(a.used, at, size)
        /\ t.by_size = a.by_size \ {e} /\ t.free = Locked!Without(a.free, b) /\ t.free_end = ends
    BY <2>1, <2>2 DEF ArenaOK, Arenas
  <2>4. Locked!Without(a.free, b) \in Maps(Entries)
    BY <1>1, <1>6, MapsKeep, ArenaFacts
  <2>5. t \in Arenas
    <3>1. t = [size |-> a.size, mapped |-> a.mapped,
               used |-> Locked!Emplaced(a.used, at, size), by_size |-> a.by_size \ {e},
               free |-> Locked!Without(a.free, b), free_end |-> ends]
      BY <2>1, <2>2 DEF ArenaOK, Arenas
    <3> HIDE DEF t, ends, at
    <3> QED
      BY <1>5, <1>6, <2>4, <3>1 DEF ArenaOK, Arenas
  <2> HIDE DEF t
  <2>6. Locked!Chunks(t) = Locked!Chunks(a)
    <3>1. {<<x[2], x[1]>> : x \in t.by_size} \cup {<<b, n>>} = {<<x[2], x[1]>> : x \in a.by_size}
      BY <1>1, <2>3
    <3>2. {<<k, t.used[k]>> : k \in DOMAIN t.used}
            = {<<k, a.used[k]>> : k \in DOMAIN a.used} \cup {<<b, n>>}
      BY <1>5, <2>1, <2>3
    <3> QED
      BY <3>1, <3>2 DEF Locked!Chunks
  <2>7. \A x \in t.by_size : x[2] \notin DOMAIN t.used
    BY <1>5, <1>7, <2>3 DEF ArenaOK
  <2>8. \A x, other \in t.by_size : x[2] + x[1] # other[2]
    BY <2>3 DEF ArenaOK
  <2>9. Indexed(t)
    <3>1. DOMAIN t.free = {x[2] : x \in t.by_size} /\ \A x \in t.by_size : t.free[x[2]] = x
      BY <1>6, <1>7, <2>3 DEF Locked!Without, ArenaOK, Indexed
    <3>2. DOMAIN t.free_end = {x[2] + x[1] : x \in t.by_size}
      BY <1>8, <2>3
    <3>3. \A x \in t.by_size : t.free_end[x[2] + x[1]] = x
      BY <1>6, <1>7, <2>3 DEF ArenaOK, Indexed
    <3> QED
      BY <3>1, <3>2, <3>3 DEF Indexed
  <2>10. ArenaOK(t)
    BY <1>2, <2>3, <2>5, <2>6, <2>7, <2>8, <2>9 DEF ArenaOK
  <2> QED
    BY <2>10 DEF t
<1>10. CASE n - size # 0
  <2>1. /\ n - size \in Nat \ {0} /\ remnant \in Entries
        /\ remnant[1] = n - size /\ remnant[2] = b /\ at # b
        /\ size \in 1..(n - 1) /\ at # b + n
    BY <1>1, <1>10 DEF Entries
  <2>2. t = [a EXCEPT !.used = Locked!Emplaced(a.used, at, size),
                      !.by_size = (a.by_size \ {e}) \cup {remnant},
                      !.free = Locked!With(a.free, b, remnant),
                      !.free_end = Locked!Emplaced(ends, at, remnant)]
    BY <1>10 DEF Locked!Taken
  <2>3. /\ t.size = a.size /\ t.mapped = a.mapped /\ t.used = Locked!Emplaced(a.used, at, size)
        /\ t.by_size = (a.by_size \ {e}) \cup {remnant} /\ t.free = Locked!With(a.free, b, remnant)
        /\ t.free_end = Locked!Emplaced(ends, at, remnant)
    BY <2>2 DEF ArenaOK, Arenas
  <2>4. /\ Locked!With(a.free, b, remnant) \in Maps(Entries)
        /\ Locked!Emplaced(ends, at, remnant) \in Maps(Entries)
    <3> HIDE DEF remnant, ends, at
    <3> QED
      BY <1>1, <1>6, <2>1, MapsKeep
  <2>5. t \in Arenas
    <3>1. t = [size |-> a.size, mapped |-> a.mapped,
               used |-> Locked!Emplaced(a.used, at, size),
               by_size |-> (a.by_size \ {e}) \cup {remnant},
               free |-> Locked!With(a.free, b, remnant),
               free_end |-> Locked!Emplaced(ends, at, remnant)]
      BY <2>2 DEF ArenaOK, Arenas
    <3> HIDE DEF t, ends, at, remnant
    <3> QED
      BY <1>5, <2>1, <2>4, <3>1 DEF ArenaOK, Arenas
  <2> HIDE DEF t
  <2>6. Tiles(Locked!Chunks(t), t.size)
    <3>1. {<<x[2], x[1]>> : x \in t.by_size}
            = {<<x[2], x[1]>> : x \in a.by_size \ {e}} \cup {<<b, n - size>>}
      BY <2>1, <2>3
    <3>2. {<<k, t.used[k]>> : k \in DOMAIN t.used}
            = {<<k, a.used[k]>> : k \in DOMAIN a.used} \cup {<<at, size>>}
      BY <1>4, <1>5, <2>3
    <3>3. <<b, n>> \notin {<<k, a.used[k]>> : k \in DOMAIN a.used}
      BY DEF ArenaOK
    <3>4. {<<x[2], x[1]>> : x \in a.by_size \ {e}} = {<<x[2], x[1]>> : x \in a.by_size} \ {<<b, n>>}
      BY <1>1, <1>7
    <3>5. Locked!Chunks(t) = (Locked!Chunks(a) \ {<<b, n>>}) \cup {<<b, n - size>>, <<at, size>>}
      BY <3>1, <3>2, <3>3, <3>4 DEF Locked!Chunks
    <3>6. at = b + n - size
      BY <1>1
    <3> HIDE DEF at, b, n
    <3> QED
      BY <1>1, <1>2, <2>1, <2>3, <3>5, <3>6, Split
  <2>7. \A x \in t.by_size : x[2] \notin DOMAIN t.used
    BY <1>5, <1>7, <2>1, <2>3 DEF ArenaOK
  <2>8. \A x, other \in t.by_size : x[2] + x[1] # other[2]
    <3>1. \A x \in a.by_size \ {e} : x[2] + x[1] # remnant[2]
      BY <2>1 DEF ArenaOK
    <3>2. \A other \in a.by_size \ {e} : remnant[2] + remnant[1] # other[2]
      BY <1>7, <2>1
    <3>3. remnant[2] + remnant[1] # remnant[2]
      BY <1>1, <2>1
    <3> QED
      BY <2>3, <3>1, <3>2, <3>3 DEF ArenaOK
  <2>9. Indexed(t)
    <3>1. DOMAIN t.free = {x[2] : x \in t.by_size} /\ \A x \in t.by_size : t.free[x[2]] = x
      <4>1. DOMAIN t.free = {x[2] : x \in a.by_size} \cup {b}
        BY <1>6, <2>3 DEF Locked!With
      <4>2. t.free[b] = remnant /\ \A x \in a.by_size \ {e} : t.free[x[2]] = x
        BY <1>6, <1>7, <2>3 DEF Locked!With, ArenaOK, Indexed
      <4> HIDE DEF remnant
      <4> QED
        BY <2>1, <2>3, <4>1, <4>2
    <3>2. at \notin DOMAIN ends
      BY <1>6, <1>7, <2>1
    <3>3. DOMAIN t.free_end = DOMAIN ends \cup {at}
      BY <2>3, <3>2 DEF Locked!Emplaced, Locked!With
    <3>4. t.free_end[at] = remnant /\ \A k \in DOMAIN ends : t.free_end[k] = ends[k]
      BY <2>3, <3>2 DEF Locked!Emplaced, Locked!With
    <3>5. DOMAIN t.free_end = {x[2] + x[1] : x \in t.by_size}
      <4>1. DOMAIN ends = {x[2] + x[1] : x \in a.by_size \ {e}}
        BY <1>8
      <4>2. remnant[2] + remnant[1] = at
        BY <2>1
      <4> HIDE DEF ends, at, remnant
      <4> QED
        BY <2>3, <3>3, <4>1, <4>2
    <3>6. \A x \in t.by_size : t.free_end[x[2] + x[1]] = x
      <4>1. \A x \in a.by_size \ {e} : t.free_end[x[2] + x[1]] = x
        BY <1>6, <1>7, <3>4 DEF ArenaOK, Indexed
      <4>2. t.free_end[remnant[2] + remnant[1]] = remnant
        BY <2>1, <3>4
      <4> QED
        BY <2>3, <4>1, <4>2
    <3> QED
      BY <3>1, <3>5, <3>6 DEF Indexed
  <2>10. ArenaOK(t)
    BY <2>5, <2>6, <2>7, <2>8, <2>9 DEF ArenaOK
  <2> QED
    BY <2>10 DEF t
<1> QED
  BY <1>9, <1>10

\* A chunk is freed, and joined with the free ones before and after it.
LEMMA FreedIsOK ==
  ASSUME NEW a, ArenaOK(a), NEW at \in DOMAIN a.used
  PROVE  ArenaOK(Locked!Freed(a, at))
<1> DEFINE f == Locked!Freed(a, at)
           size == a.used[at]
           end == at + size
           p == a.free_end[at]
           n == a.free[end]
           prev == at \in DOMAIN a.free_end
           succ == end \in DOMAIN a.free
           begin == IF prev THEN at - p[1] ELSE at
           more == IF prev THEN p[1] ELSE 0
           rear == IF succ THEN n[1] ELSE 0
           total == size + more + rear
           entry == <<total, begin>>
           gone == (IF prev THEN {p} ELSE {}) \cup (IF succ THEN {n} ELSE {})
           rest == a.by_size \ gone
<1>1. /\ at \in Nat /\ size \in Nat \ {0} /\ end \in Nat /\ <<at, size>> \in Locked!Chunks(a)
      /\ at < end
  BY ArenaFacts
<1>2. /\ a.size \in Nat /\ Tiles(Locked!Chunks(a), a.size)
      /\ a.used \in Maps(Nat \ {0}) /\ a.free \in Maps(Entries) /\ a.free_end \in Maps(Entries)
  BY DEF ArenaOK, Arenas
<1>3. ASSUME prev
      PROVE  /\ p \in a.by_size /\ p[2] + p[1] = at /\ p[1] \in Nat \ {0} /\ p[2] \in Nat
             /\ p = <<p[1], p[2]>> /\ begin = p[2] /\ <<p[2], p[1]>> \in Locked!Chunks(a)
             /\ p[2] \notin DOMAIN a.used
  <2>1. PICK x \in a.by_size : x[2] + x[1] = at
    BY <1>3 DEF ArenaOK, Indexed
  <2>2. p = x
    BY <2>1 DEF ArenaOK, Indexed
  <2>3. p \in a.by_size /\ p[2] + p[1] = at
    BY <2>1, <2>2
  <2>4. /\ p[1] \in Nat \ {0} /\ p[2] \in Nat /\ p = <<p[1], p[2]>>
        /\ <<p[2], p[1]>> \in Locked!Chunks(a)
    BY <2>3, ArenaFacts
  <2>5. p[2] \notin DOMAIN a.used
    BY <2>3 DEF ArenaOK
  <2>6. begin = p[2]
    <3>1. begin = at - p[1]
      BY <1>3
    <3> HIDE DEF begin, p
    <3> QED
      BY <2>3, <2>4, <3>1
  <2> QED
    BY <2>3, <2>4, <2>5, <2>6
<1>4. ASSUME succ
      PROVE  /\ n \in a.by_size /\ n[2] = end /\ n[1] \in Nat \ {0} /\ n = <<n[1], n[2]>>
             /\ <<end, n[1]>> \in Locked!Chunks(a) /\ end \notin DOMAIN a.used
  <2>1. PICK x \in a.by_size : x[2] = end
    BY <1>4 DEF ArenaOK, Indexed
  <2>2. n = x
    BY <2>1 DEF ArenaOK, Indexed
  <2>3. n \in a.by_size /\ n[2] = end
    BY <2>1, <2>2
  <2>4. /\ n[1] \in Nat \ {0} /\ n = <<n[1], n[2]>> /\ <<n[2], n[1]>> \in Locked!Chunks(a)
    BY <2>3, ArenaFacts
  <2> QED
    BY <2>3, <2>4 DEF ArenaOK
<1>5. /\ begin \in Nat /\ begin <= at /\ more \in Nat /\ rear \in Nat /\ total \in Nat \ {0}
      /\ begin + more = at /\ end + rear = begin + total /\ entry \in Entries
      /\ entry[1] = total /\ entry[2] = begin
  <2>1. begin \in Nat /\ begin <= at /\ more \in Nat /\ begin + more = at
    <3>1. CASE prev
      <4>1. more = p[1]
        BY <3>1
      <4> HIDE DEF begin, more, p, prev
      <4> QED
        BY <1>3, <3>1, <4>1
    <3>2. CASE ~prev
      BY <1>1, <3>2
    <3> QED
      BY <3>1, <3>2
  <2>2. rear \in Nat
    BY <1>4
  <2> HIDE DEF begin, more, rear, size
  <2>3. total \in Nat \ {0} /\ end + rear = begin + total
    BY <1>1, <2>1, <2>2
  <2> HIDE DEF total
  <2> QED
    BY <2>1, <2>2, <2>3 DEF Entries
\* The other free chunks touch neither end of what is joined.
<1>6. \A x \in rest :
        /\ x \in a.by_size /\ x \in Entries /\ x[1] \in Nat \ {0} /\ x[2] \in Nat
        /\ x = <<x[1], x[2]>>
        /\ x[2] + x[1] < begin \/ begin + total < x[2]
        /\ x[2] \notin DOMAIN a.used /\ x[2] # at
        /\ x[2] + x[1] # at /\ x[2] # end
  <2> TAKE x \in rest
  <2>1. /\ x \in a.by_size /\ x \in Entries /\ x[1] \in Nat \ {0} /\ x[2] \in Nat
        /\ x = <<x[1], x[2]>>
        /\ x[2] + x[1] <= at \/ end <= x[2]
    BY ArenaFacts
  <2>2. x[2] \notin DOMAIN a.used /\ x[2] # at
    BY DEF ArenaOK
  <2>3. x[2] + x[1] # at
    <3> SUFFICES ASSUME x[2] + x[1] = at PROVE FALSE
      OBVIOUS
    <3>1. prev /\ p = x
      BY DEF ArenaOK, Indexed
    <3> QED
      BY <3>1
  <2>4. x[2] # end
    <3> SUFFICES ASSUME x[2] = end PROVE FALSE
      OBVIOUS
    <3>1. succ /\ n = x
      BY DEF ArenaOK, Indexed
    <3> QED
      BY <3>1
  <2>5. ASSUME x[2] + x[1] <= at PROVE x[2] + x[1] < begin
    <3>1. CASE prev
      <4>1. x # p
        BY <3>1
      <4>2. x[2] + x[1] <= p[2] \/ at <= x[2]
        <5>1. x[2] + x[1] <= p[2] \/ p[2] + p[1] <= x[2]
          BY <1>3, <2>1, <3>1, <4>1, ArenaFacts
        <5> QED
          BY <1>3, <3>1, <5>1
      <4>3. x[2] + x[1] # p[2]
        BY <1>3, <2>1, <3>1 DEF ArenaOK
      <4>4. begin = p[2] /\ p[2] \in Nat
        BY <1>3, <3>1
      <4> HIDE DEF begin, p
      <4> QED
        BY <1>1, <2>1, <2>5, <4>2, <4>3, <4>4
    <3>2. CASE ~prev
      <4>1. begin = at
        BY <3>2
      <4> HIDE DEF begin
      <4> QED
        BY <1>1, <2>1, <2>3, <2>5, <4>1
    <3> QED
      BY <3>1, <3>2
  <2>6. ASSUME end <= x[2] PROVE begin + total < x[2]
    <3>1. CASE succ
      <4>1. x # n
        BY <3>1
      <4>2. x[2] + x[1] <= end \/ end + n[1] <= x[2]
        <5>1. x[2] + x[1] <= n[2] \/ n[2] + n[1] <= x[2]
          BY <1>4, <2>1, <3>1, <4>1, ArenaFacts
        <5> QED
          BY <1>4, <3>1, <5>1
      <4>3. end + n[1] # x[2]
        BY <1>4, <2>1, <3>1 DEF ArenaOK
      <4>4. rear = n[1] /\ n[1] \in Nat
        BY <1>4, <3>1
      <4> HIDE DEF begin, n, rear, total, end
      <4> QED
        BY <1>1, <1>5, <2>1, <2>6, <4>2, <4>3, <4>4
    <3>2. CASE ~succ
      <4>1. rear = 0
        BY <3>2
      <4> HIDE DEF begin, rear, total, end
      <4> QED
        BY <1>1, <1>5, <2>1, <2>4, <2>6, <4>1
    <3> QED
      BY <3>1, <3>2
  <2> QED
    BY <2>1, <2>2, <2>3, <2>4, <2>5, <2>6

\* Chunks: first it is joined with the one before it, then with the one after it.
<1> DEFINE U == {<<k, a.used[k]>> : k \in DOMAIN a.used \ {at}}
           R == {<<x[2], x[1]>> : x \in rest}
           one == <<begin, size + more>>
           first == IF prev THEN (Locked!Chunks(a) \ {<<p[2], p[1]>>, <<at, size>>}) \cup {one}
                    ELSE Locked!Chunks(a)
<1>7. \A c \in U \cup R : c[1] # at /\ c[1] # begin /\ (succ => c[1] # end)
  <2>1. ASSUME NEW c \in U
        PROVE  c[1] # at /\ c[1] # begin /\ (succ => c[1] # end)
    <3>1. PICK k \in DOMAIN a.used \ {at} : c = <<k, a.used[k]>>
      OBVIOUS
    <3>2. c[1] = k
      BY <3>1
    <3>3. CASE prev
      BY <1>3, <1>4, <3>2, <3>3
    <3>4. CASE ~prev
      BY <1>4, <3>2, <3>4
    <3> QED
      BY <3>3, <3>4
  <2>2. ASSUME NEW c \in R
        PROVE  c[1] # at /\ c[1] # begin /\ c[1] # end
    <3>1. PICK x \in rest : c = <<x[2], x[1]>>
      OBVIOUS
    <3>2. c[1] = x[2]
      BY <3>1
    <3>3. x[2] # begin
      <4> HIDE DEF begin, rest, total
      <4> QED
        BY <1>5, <1>6
    <3> QED
      BY <1>6, <3>2, <3>3
  <2> QED
    BY <2>1, <2>2
<1>8. /\ Locked!Chunks(a) = U \cup R \cup {<<at, size>>}
                             \cup (IF prev THEN {<<p[2], p[1]>>} ELSE {})
                             \cup (IF succ THEN {<<end, n[1]>>} ELSE {})
  <2>1. {<<k, a.used[k]>> : k \in DOMAIN a.used} = U \cup {<<at, size>>}
    OBVIOUS
  <2>2. a.by_size = rest \cup gone
    BY <1>3, <1>4
  <2>3. {<<x[2], x[1]>> : x \in gone} = (IF prev THEN {<<p[2], p[1]>>} ELSE {})
                                         \cup (IF succ THEN {<<end, n[1]>>} ELSE {})
    <3>1. succ => n[2] = end
      BY <1>4
    <3> HIDE DEF prev, succ, p, n, end
    <3> QED
      BY <3>1
  <2>4. {<<x[2], x[1]>> : x \in a.by_size} = R \cup {<<x[2], x[1]>> : x \in gone}
    <3> HIDE DEF rest, gone
    <3> QED
      BY <2>2
  <2> HIDE DEF U, R, gone
  <2> QED
    BY <2>1, <2>3, <2>4 DEF Locked!Chunks
<1>9. first = U \cup R \cup {one} \cup (IF succ THEN {<<end, n[1]>>} ELSE {})
  <2>1. CASE prev
    <3>1. /\ <<p[2], p[1]>>[1] = begin /\ <<at, size>>[1] = at
          /\ end # begin /\ end # at /\ <<end, n[1]>>[1] = end
      <4>1. <<p[2], p[1]>>[1] = p[2] /\ p[2] = begin
        BY <1>3, <2>1
      <4> HIDE DEF p, begin, end
      <4> QED
        BY <1>1, <1>5, <4>1
    <3> HIDE DEF U, R, succ, prev, one, p, begin, end, size, n
    <3> QED
      BY <1>7, <1>8, <2>1, <3>1
  <2>2. CASE ~prev
    <3>1. one = <<at, size>>
      <4>1. begin = at /\ more = 0
        BY <2>2
      <4> HIDE DEF begin, more, size
      <4> QED
        BY <1>1, <4>1
    <3> HIDE DEF U, R, succ, prev, one, p, begin, end, size, n
    <3> QED
      BY <1>8, <2>2, <3>1
  <2> QED
    BY <2>1, <2>2
<1>10. Tiles(first, a.size)
  <2>1. CASE prev
    <3>1. more = p[1] /\ begin = p[2]
      BY <1>3, <2>1
    <3>2. /\ p[1] \in Nat /\ p[2] \in Nat /\ <<p[2], p[1]>> \in Locked!Chunks(a)
          /\ <<p[2] + p[1], size>> \in Locked!Chunks(a)
      BY <1>1, <1>3, <2>1
    <3>3. first = (Locked!Chunks(a) \ {<<p[2], p[1]>>, <<p[2] + p[1], size>>})
                     \cup {<<p[2], p[1] + size>>}
      <4>1. p[2] + p[1] = at /\ size + more = p[1] + size
        <5> HIDE DEF p, size, more
        <5> QED
          BY <1>1, <1>3, <2>1, <3>1, <3>2
      <4> HIDE DEF p, size, begin, more, prev
      <4> QED
        BY <2>1, <3>1, <4>1
    <3> HIDE DEF p, size, begin, more, prev, first
    <3> QED
      BY <1>1, <1>2, <3>2, <3>3, Join
  <2>2. CASE ~prev
    BY <1>2, <2>2
  <2> QED
    BY <2>1, <2>2
<1>11. Tiles(U \cup R \cup {<<begin, total>>}, a.size)
  <2>1. CASE succ
    <3>1. rear = n[1] /\ n[1] \in Nat
      BY <1>4, <2>1
    <3>2. size + more \in Nat /\ begin + (size + more) = end /\ total = size + more + n[1]
      <4>1. total = size + more + rear /\ end = at + size
        OBVIOUS
      <4> HIDE DEF size, more, rear, begin, end, n, total
      <4> QED
        BY <1>1, <1>5, <3>1, <4>1
    <3>3. one \in first /\ <<end, n[1]>> \in first
      <4> HIDE DEF first, U, R, one, end, n, succ
      <4> QED
        BY <1>9, <2>1
    <3>4. /\ <<begin, size + more>> \in first /\ <<begin + (size + more), n[1]>> \in first
          /\ n[1] \in Nat /\ begin \in Nat
      <4> HIDE DEF first, begin, size, more, end, n
      <4> QED
        BY <1>5, <3>1, <3>2, <3>3
    <3>5. Tiles((first \ {<<begin, size + more>>, <<begin + (size + more), n[1]>>})
                   \cup {<<begin, size + more + n[1]>>}, a.size)
      <4> HIDE DEF first, begin, size, more, end, n
      <4> QED
        BY <1>2, <1>10, <3>2, <3>4, Join
    <3>6. U \cup R \cup {<<begin, total>>}
            = (first \ {<<begin, size + more>>, <<begin + (size + more), n[1]>>})
                 \cup {<<begin, size + more + n[1]>>}
      <4>1. one[1] = begin /\ <<end, n[1]>>[1] = end
        OBVIOUS
      <4>2. \A c \in U \cup R : c # one /\ c # <<end, n[1]>>
        <5> HIDE DEF U, R, one, begin, end, n, succ
        <5> QED
          BY <1>7, <2>1, <4>1
      <4>3. one = <<begin, size + more>>
        OBVIOUS
      <4> HIDE DEF U, R, one, begin, end, n, succ, size, more, total, first
      <4> QED
        BY <1>9, <2>1, <3>2, <4>2, <4>3
    <3> HIDE DEF U, R, begin, end, n, succ, size, more, total, first
    <3> QED
      BY <3>5, <3>6
  <2>2. CASE ~succ
    <3>1. total = size + more
      <4>1. rear = 0 /\ total = size + more + rear
        BY <2>2
      <4> HIDE DEF size, more, rear, total
      <4> QED
        BY <1>1, <1>5, <4>1
    <3>2. one = <<begin, size + more>>
      OBVIOUS
    <3> HIDE DEF U, R, begin, one, end, n, succ, size, more, total, first
    <3> QED
      BY <1>9, <1>10, <2>2, <3>1, <3>2
  <2> QED
    BY <2>1, <2>2
<1> DEFINE was == IF succ THEN Locked!Without(a.free, end) ELSE a.free
           was_end == IF prev THEN Locked!Without(a.free_end, at) ELSE a.free_end
<1>12. /\ f = [size |-> a.size, mapped |-> a.mapped, used |-> Locked!Without(a.used, at),
              by_size |-> rest \cup {entry}, free |-> Locked!With(was, begin, entry),
              free_end |-> Locked!With(was_end, begin + total, entry)]
  <2>1. a = [size |-> a.size, mapped |-> a.mapped, used |-> a.used, by_size |-> a.by_size,
             free |-> a.free, free_end |-> a.free_end]
    BY DEF ArenaOK, Arenas
  <2>2. f = [a EXCEPT !.used = Locked!Without(a.used, at), !.by_size = rest \cup {entry},
                      !.free = Locked!With(was, begin, entry),
                      !.free_end = Locked!With(was_end, begin + total, entry)]
    BY DEF Locked!Freed, Locked!Joins
  <2> HIDE DEF f, rest, entry, was, was_end, begin, total
  <2> QED
    BY <2>1, <2>2
<1>13. /\ f.size = a.size /\ f.mapped = a.mapped /\ f.used = Locked!Without(a.used, at)
       /\ f.by_size = rest \cup {entry} /\ f.free = Locked!With(was, begin, entry)
       /\ f.free_end = Locked!With(was_end, begin + total, entry)
  <2> HIDE DEF f, rest, entry, was, was_end, begin, total
  <2> QED
    BY <1>12
<1>14. f \in Arenas
  <2>1. was \in Maps(Entries) /\ was_end \in Maps(Entries)
    <3> HIDE DEF prev, succ, end
    <3>1. entry \in Entries
      BY <1>5
    <3> QED
      BY <1>1, <1>2, <3>1, MapsKeep
  <2>2. /\ Locked!With(was, begin, entry) \in Maps(Entries)
        /\ Locked!With(was_end, begin + total, entry) \in Maps(Entries)
    <3>1. begin \in Nat /\ begin + total \in Nat /\ entry \in Entries
      <4> HIDE DEF begin, total
      <4> QED
        BY <1>5
    <3> HIDE DEF was, was_end, begin, total, entry
    <3> QED
      BY <2>1, <3>1, MapsKeep
  <2>3. Locked!Without(a.used, at) \in Maps(Nat \ {0})
    BY <1>1, <1>2, MapsKeep
  <2>4. rest \cup {entry} \subseteq Entries
    <3> HIDE DEF rest, begin, total, end
    <3> QED
      BY <1>5, <1>6
  <2>5. a.size \in Nat \ {0} /\ a.mapped \in BOOLEAN
    BY DEF ArenaOK, Arenas
  <2> HIDE DEF f, rest, entry, was, was_end, begin, total
  <2> QED
    BY <1>12, <2>2, <2>3, <2>4, <2>5 DEF Arenas
<1> HIDE DEF f
<1>15. Tiles(Locked!Chunks(f), f.size)
  <2>1. {<<k, f.used[k]>> : k \in DOMAIN f.used} = U
    <3>1. DOMAIN f.used = DOMAIN a.used \ {at} /\ \A k \in DOMAIN f.used : f.used[k] = a.used[k]
      BY <1>13 DEF Locked!Without
    <3> QED
      BY <3>1
  <2>2. {<<x[2], x[1]>> : x \in f.by_size} = R \cup {<<begin, total>>}
    <3> HIDE DEF rest, begin, total
    <3> QED
      BY <1>13
  <2>3. Locked!Chunks(f) = U \cup R \cup {<<begin, total>>}
    <3> HIDE DEF U, R, begin, total
    <3> QED
      BY <2>1, <2>2 DEF Locked!Chunks
  <2> HIDE DEF U, R, begin, total
  <2> QED
    BY <1>11, <1>13, <2>3
<1>16. \A x \in f.by_size : x[2] \notin DOMAIN f.used
  <2>1. DOMAIN f.used = DOMAIN a.used \ {at}
    BY <1>13 DEF Locked!Without
  <2>2. begin \notin DOMAIN a.used \ {at}
    <3>1. CASE prev
      BY <1>3, <3>1
    <3>2. CASE ~prev
      BY <3>2
    <3> QED
      BY <3>1, <3>2
  <2> HIDE DEF rest, begin, total, end
  <2> QED
    BY <1>5, <1>6, <1>13, <2>1, <2>2
<1>17. \A x, other \in f.by_size : x[2] + x[1] # other[2]
  <2>1. \A x, other \in rest : x[2] + x[1] # other[2]
    BY DEF ArenaOK
  <2>2. \A x \in rest : x[2] + x[1] # begin /\ begin + total # x[2]
    <3> HIDE DEF rest, begin, total, end
    <3> QED
      BY <1>5, <1>6
  <2>3. begin + total # begin
    <3> HIDE DEF begin, total
    <3> QED
      BY <1>5
  <2> HIDE DEF rest, begin, total
  <2> QED
    BY <1>13, <2>1, <2>2, <2>3
<1>18. a.by_size = rest \cup gone /\ gone \subseteq a.by_size
  BY <1>3, <1>4
<1>19. DOMAIN f.free = {x[2] : x \in f.by_size} /\ \A x \in f.by_size : f.free[x[2]] = x
  <2>1. DOMAIN a.free = {x[2] : x \in a.by_size} /\ \A x \in a.by_size : a.free[x[2]] = x
    BY DEF ArenaOK, Indexed
  <2>2. /\ \A k \in DOMAIN was : k = begin \/ \E x \in rest : k = x[2]
        /\ \A x \in rest : x[2] \in DOMAIN was /\ was[x[2]] = x
    <3>1. \A x \in gone : x[2] = begin \/ (succ /\ x[2] = end)
      <4>1. /\ prev => p[2] = begin
            /\ succ => n[2] = end
        BY <1>3, <1>4
      <4> HIDE DEF prev, succ, p, n, begin, end
      <4> QED
        BY <4>1
    <3>2. /\ DOMAIN was = DOMAIN a.free \ (IF succ THEN {end} ELSE {})
          /\ \A k \in DOMAIN was : was[k] = a.free[k]
      <4> HIDE DEF succ, end
      <4> QED
        BY DEF Locked!Without
    <3>3. \A x \in rest : x \in a.by_size /\ x[2] # end
      <4> HIDE DEF begin, total, end
      <4> QED
        BY <1>6
    <3> HIDE DEF was, succ, begin, end, gone, rest
    <3> QED
      BY <1>18, <2>1, <3>1, <3>2, <3>3
  <2>3. /\ DOMAIN f.free = DOMAIN was \cup {begin} /\ f.free[begin] = entry
        /\ \A k \in DOMAIN was : k # begin => f.free[k] = was[k]
    <3> HIDE DEF was, begin, entry
    <3> QED
      BY <1>13 DEF Locked!With
  <2>4. \A x \in rest : x[2] # begin
    <3> HIDE DEF rest, begin, total, end
    <3> QED
      BY <1>5, <1>6
  <2>5. f.by_size = rest \cup {entry} /\ entry[2] = begin
    BY <1>5, <1>13
  <2> HIDE DEF was, begin, entry, rest
  <2> QED
    BY <2>2, <2>3, <2>4, <2>5
<1>20. /\ DOMAIN f.free_end = {x[2] + x[1] : x \in f.by_size}
       /\ \A x \in f.by_size : f.free_end[x[2] + x[1]] = x
  <2>1. /\ DOMAIN a.free_end = {x[2] + x[1] : x \in a.by_size}
        /\ \A x \in a.by_size : a.free_end[x[2] + x[1]] = x
    BY DEF ArenaOK, Indexed
  <2>2. /\ \A k \in DOMAIN was_end : k = begin + total \/ \E x \in rest : k = x[2] + x[1]
        /\ \A x \in rest : x[2] + x[1] \in DOMAIN was_end /\ was_end[x[2] + x[1]] = x
    <3>1. \A x \in gone : x[2] + x[1] = begin + total \/ (prev /\ x[2] + x[1] = at)
      <4>1. prev => p[2] + p[1] = at
        BY <1>3
      <4>2. succ => n[2] + n[1] = begin + total
        <5>1. succ => n[2] = end /\ rear = n[1]
          BY <1>4
        <5> HIDE DEF succ, n, begin, total, end, rear
        <5> QED
          BY <1>5, <5>1
      <4> HIDE DEF prev, succ, p, n, begin, end, total
      <4> QED
        BY <4>1, <4>2
    <3>2. /\ DOMAIN was_end = DOMAIN a.free_end \ (IF prev THEN {at} ELSE {})
          /\ \A k \in DOMAIN was_end : was_end[k] = a.free_end[k]
      <4> HIDE DEF prev
      <4> QED
        BY DEF Locked!Without
    <3>3. \A x \in rest : x \in a.by_size /\ x[2] + x[1] # at
      <4> HIDE DEF begin, total, end
      <4> QED
        BY <1>6
    <3> HIDE DEF was_end, prev, begin, total, gone, rest
    <3>4. ASSUME NEW k \in DOMAIN was_end
          PROVE  k = begin + total \/ \E x \in rest : k = x[2] + x[1]
      <4>1. PICK x \in a.by_size : k = x[2] + x[1]
        BY <2>1, <3>2
      <4>2. ~(prev /\ k = at)
        BY <3>2
      <4> QED
        BY <1>18, <3>1, <4>1, <4>2
    <3> QED
      BY <2>1, <3>2, <3>3, <3>4
  <2>3. /\ DOMAIN f.free_end = DOMAIN was_end \cup {begin + total}
        /\ f.free_end[begin + total] = entry
        /\ \A k \in DOMAIN was_end : k # begin + total => f.free_end[k] = was_end[k]
    <3> HIDE DEF was_end, begin, total, entry
    <3> QED
      BY <1>13 DEF Locked!With
  <2>4. \A x \in rest : x[2] + x[1] # begin + total
    <3> HIDE DEF rest, begin, total, end
    <3> QED
      BY <1>5, <1>6
  <2>5. f.by_size = rest \cup {entry} /\ entry[2] + entry[1] = begin + total
    <3> HIDE DEF rest, begin, total
    <3> QED
      BY <1>5, <1>13
  <2> HIDE DEF was_end, begin, total, entry, rest
  <2>6. DOMAIN f.free_end = {x[2] + x[1] : x \in f.by_size}
    BY <2>2, <2>3, <2>5
  <2>7. \A x \in f.by_size : f.free_end[x[2] + x[1]] = x
    BY <2>2, <2>3, <2>4, <2>5
  <2> QED
    BY <2>6, <2>7
<1>21. ArenaOK(f)
  BY <1>14, <1>15, <1>16, <1>17, <1>19, <1>20 DEF ArenaOK, Indexed
<1> QED
  BY <1>21 DEF f

-----------------------------------------------------------------------------
(* The pool of arenas.                                                       *)
-----------------------------------------------------------------------------
\* What the last call may have returned.
Answers == {"none", "null", "chunk", "freed", "error"}
\* An arena is tiled whatever the other arenas and the limit are.
LockedInv ==
  /\ pool \in [limit : Nat, arenas : Seq(Arenas), locked : Nat, last : Answers]
  /\ \A i \in DOMAIN pool.arenas : ArenaOK(pool.arenas[i])

\* align_up() of what is not zero is not zero.
LEMMA AlignsUp ==
  ASSUME NEW x \in Nat \ {0}
  PROVE  Locked!align_up(x) \in Nat \ {0}
<1> DEFINE q == (x + Alignment - 1) \div Alignment
<1>1. Alignment \in Nat \ {0}
  BY PoolsAssumption
<1>2. q \in Nat \ {0}
  <2>1. x + Alignment - 1 \in Nat /\ x + Alignment - 1 >= Alignment
    BY <1>1
  <2> QED
    BY <1>1, <2>1
<1>3. q * Alignment \in Nat \ {0}
  <2> HIDE DEF q
  <2> QED
    BY <1>1, <1>2
<1> QED
  BY <1>3 DEF Locked!align_up

\* The chunk that is chosen is free, and as large as is asked.
LEMMA BestFits ==
  ASSUME NEW a, ArenaOK(a), NEW size \in Nat, NEW e \in Locked!BestFit(a, size)
  PROVE  e \in a.by_size /\ e[1] >= size
BY DEF Locked!BestFit

\* An arena changes, or one is added.
LEMMA ArenaChanges ==
  ASSUME LockedInv, NEW i \in DOMAIN pool.arenas, NEW a, ArenaOK(a), NEW last \in Answers,
         pool' = [pool EXCEPT !.arenas = [pool.arenas EXCEPT ![i] = a], !.last = last]
  PROVE  LockedInv'
<1>1. a \in Arenas /\ pool.arenas \in Seq(Arenas)
  BY DEF LockedInv, ArenaOK
<1>2. /\ pool'.arenas = [pool.arenas EXCEPT ![i] = a]
      /\ pool' = [limit |-> pool.limit, arenas |-> [pool.arenas EXCEPT ![i] = a],
                  locked |-> pool.locked, last |-> last]
  BY DEF LockedInv
<1>3. [pool.arenas EXCEPT ![i] = a] \in Seq(Arenas)
  BY <1>1
<1>4. pool' \in [limit : Nat, arenas : Seq(Arenas), locked : Nat, last : Answers]
  BY <1>2, <1>3 DEF LockedInv
<1>5. \A k \in DOMAIN pool'.arenas : ArenaOK(pool'.arenas[k])
  <2> TAKE k \in DOMAIN pool'.arenas
  <2>1. k \in DOMAIN pool.arenas /\ pool'.arenas[k] = IF k = i THEN a ELSE pool.arenas[k]
    BY <1>1, <1>2
  <2> QED
    BY <2>1 DEF LockedInv
<1> QED
  BY <1>4, <1>5 DEF LockedInv

\* An arena that is mapped, whole or with a chunk taken from it.
LEMMA ArenaIsAdded ==
  ASSUME LockedInv, NEW a, ArenaOK(a), NEW last \in Answers, NEW locked \in Nat,
         pool' = [pool EXCEPT !.arenas = Append(pool.arenas, a), !.locked = locked, !.last = last]
  PROVE  LockedInv'
<1>1. a \in Arenas /\ pool.arenas \in Seq(Arenas)
  BY DEF LockedInv, ArenaOK
<1>2. /\ pool'.arenas = Append(pool.arenas, a)
      /\ pool' = [limit |-> pool.limit, arenas |-> Append(pool.arenas, a),
                  locked |-> locked, last |-> last]
  BY DEF LockedInv
<1>3. Append(pool.arenas, a) \in Seq(Arenas)
  BY <1>1
<1>4. pool' \in [limit : Nat, arenas : Seq(Arenas), locked : Nat, last : Answers]
  BY <1>2, <1>3 DEF LockedInv
<1>5. \A k \in DOMAIN pool'.arenas : ArenaOK(pool'.arenas[k])
  <2> TAKE k \in DOMAIN pool'.arenas
  <2>1. CASE k = Len(pool.arenas) + 1
    BY <1>1, <1>2, <2>1
  <2>2. CASE k # Len(pool.arenas) + 1
    <3>1. k \in DOMAIN pool.arenas /\ pool'.arenas[k] = pool.arenas[k]
      BY <1>1, <1>2, <2>2
    <3> QED
      BY <3>1 DEF LockedInv
  <2> QED
    BY <2>1, <2>2
<1> QED
  BY <1>4, <1>5 DEF LockedInv

\* No arena yet.
LEMMA LockedInit == Locked!Init => LockedInv
<1> SUFFICES ASSUME Locked!Init PROVE LockedInv
  OBVIOUS
<1>1. pool \in [limit : Limits, arenas : {<<>>}, locked : {0}, last : {"none"}]
  BY DEF Locked!Init
<1>2. pool.arenas = <<>> /\ <<>> \in Seq(Arenas)
  BY <1>1
<1>3. pool \in [limit : Nat, arenas : Seq(Arenas), locked : Nat, last : Answers]
  <2>1. /\ pool = [limit |-> pool.limit, arenas |-> pool.arenas, locked |-> pool.locked,
                   last |-> pool.last]
        /\ pool.limit \in Nat /\ pool.locked = 0 /\ pool.last = "none"
    BY <1>1, PoolsAssumption
  <2>2. pool.arenas \in Seq(Arenas)
    BY <1>2
  <2>3. pool.last \in Answers /\ pool.locked \in Nat
    BY <2>1 DEF Answers
  <2> QED
    BY <2>1, <2>2, <2>3
<1>4. DOMAIN pool.arenas = {}
  BY <1>2
<1> QED
  BY <1>3, <1>4 DEF LockedInv

\* alloc(), free() and a new arena leave every arena tiled.
LEMMA LockedStep == LockedInv /\ [Locked!Next]_pool => LockedInv'
<1> SUFFICES ASSUME LockedInv, [Locked!Next]_pool PROVE LockedInv'
  OBVIOUS
<1>1. ASSUME NEW last \in Answers, pool' = [pool EXCEPT !.last = last]
      PROVE  LockedInv'
  <2>1. pool'.arenas = pool.arenas
    BY <1>1 DEF LockedInv
  <2>2. pool' \in [limit : Nat, arenas : Seq(Arenas), locked : Nat, last : Answers]
    BY <1>1 DEF LockedInv
  <2> QED
    BY <2>1, <2>2 DEF LockedInv
<1>2. ASSUME NEW size, Locked!AllocNothing(size)
      PROVE  LockedInv'
  <2>1. pool' = [pool EXCEPT !.last = "null"] /\ "null" \in Answers
    BY <1>2 DEF Locked!AllocNothing, Answers
  <2> QED
    BY <1>1, <2>1
<1>3. ASSUME NEW size \in 1..ArenaSize, Locked!AllocOld(size)
      PROVE  LockedInv'
  <2> DEFINE need == Locked!align_up(size)
  <2>1. need \in Nat \ {0}
    <3>1. size \in Nat \ {0}
      BY PoolsAssumption
    <3> QED
      BY <3>1, AlignsUp
  <2>2. PICK i \in Locked!Fits(size) : \E e \in Locked!BestFit(pool.arenas[i], need) :
          pool' = [pool EXCEPT !.arenas[i] = Locked!Taken(@, e, need), !.last = "chunk"]
    BY <1>3 DEF Locked!AllocOld
  <2>3. PICK e \in Locked!BestFit(pool.arenas[i], need) :
          pool' = [pool EXCEPT !.arenas[i] = Locked!Taken(@, e, need), !.last = "chunk"]
    BY <2>2
  <2>4. i \in DOMAIN pool.arenas
    BY DEF Locked!Fits
  <2> HIDE DEF need
  <2>5. ArenaOK(pool.arenas[i])
    BY <2>4 DEF LockedInv
  <2>6. ArenaOK(Locked!Taken(pool.arenas[i], e, need))
    BY <2>1, <2>3, <2>5, BestFits, TakenIsOK
  <2>7. pool' = [pool EXCEPT !.arenas = [pool.arenas EXCEPT ![i] =
                               Locked!Taken(pool.arenas[i], e, need)], !.last = "chunk"]
    BY <2>3, <2>4 DEF LockedInv
  <2>8. "chunk" \in Answers
    BY DEF Answers
  <2> QED
    BY <2>4, <2>6, <2>7, <2>8, ArenaChanges
<1>4. ASSUME NEW size \in 1..ArenaSize, NEW mapped \in BOOLEAN, NEW locked \in BOOLEAN,
             Locked!AllocNew(size, mapped, locked)
      PROVE  LockedInv'
  <2> DEFINE first == pool.arenas = <<>> /\ pool.limit > 0 /\ pool.limit < ArenaSize
             bytes == IF first THEN pool.limit ELSE ArenaSize
             new == Locked!NewArena(bytes, mapped)
             need == Locked!align_up(size)
             chunk == Locked!BestFit(new, need)
             made == IF chunk = {} THEN new ELSE Locked!Taken(new, <<bytes, 0>>, need)
             sum == pool.locked + (IF locked THEN bytes ELSE 0)
             last == IF chunk = {} THEN "null" ELSE "chunk"
  <2>1. need \in Nat \ {0}
    BY AlignsUp, PoolsAssumption
  <2>2. bytes \in Nat \ {0}
    BY PoolsAssumption DEF LockedInv
  <2>3. sum \in Nat
    BY <2>2 DEF LockedInv
  <2>4. pool' = [pool EXCEPT !.arenas = Append(@, made), !.locked = sum, !.last = last]
    BY <1>4 DEF Locked!AllocNew, LockedInv
  <2>5. ArenaOK(new)
    BY <2>2, NewIsOK
  <2>6. new.by_size = {<<bytes, 0>>}
    BY DEF Locked!NewArena
  <2>7. ArenaOK(made)
    <3>1. CASE chunk = {}
      BY <2>5, <3>1
    <3>2. CASE chunk # {}
      <4> HIDE DEF bytes, new, need
      <4>1. PICK e \in chunk : TRUE
        BY <3>2
      <4>2. e \in new.by_size /\ e[1] >= need
        BY <2>1, <2>5, <4>1, BestFits
      <4>3. e = <<bytes, 0>>
        BY <2>6, <4>2
      <4> QED
        BY <2>1, <2>5, <3>2, <4>2, <4>3, TakenIsOK
    <3> QED
      BY <3>1, <3>2
  <2>8. last \in Answers
    BY DEF Answers
  <2>9. pool' = [pool EXCEPT !.arenas = Append(pool.arenas, made), !.locked = sum, !.last = last]
    <3> HIDE DEF made, sum, last
    <3> QED
      BY <2>4 DEF LockedInv
  <2> HIDE DEF made, sum, last
  <2> QED
    BY <2>3, <2>7, <2>8, <2>9, ArenaIsAdded
<1>5. ASSUME NEW i \in DOMAIN pool.arenas, NEW at, Locked!Free(i, at)
      PROVE  LockedInv'
  <2>1. CASE at \in DOMAIN pool.arenas[i].used
    <3>1. ArenaOK(Locked!Freed(pool.arenas[i], at))
      BY <2>1, FreedIsOK DEF LockedInv
    <3>2. pool' = [pool EXCEPT !.arenas = [pool.arenas EXCEPT ![i] =
                                 Locked!Freed(pool.arenas[i], at)], !.last = "freed"]
      BY <1>5, <2>1 DEF Locked!Free, LockedInv
    <3>3. "freed" \in Answers
      BY DEF Answers
    <3> QED
      BY <3>1, <3>2, <3>3, ArenaChanges
  <2>2. CASE at \notin DOMAIN pool.arenas[i].used
    <3>1. pool' = [pool EXCEPT !.last = "error"] /\ "error" \in Answers
      BY <1>5, <2>2 DEF Locked!Free, Answers
    <3> QED
      BY <1>1, <3>1
  <2> QED
    BY <2>1, <2>2
<1>6. CASE UNCHANGED pool
  BY <1>6 DEF LockedInv
<1> QED
  BY <1>2, <1>3, <1>4, <1>5, <1>6 DEF Locked!Next

\* The invariant says what the run checks.
LEMMA LockedHolds == LockedInv => Locked!ChunksTile
<1> SUFFICES ASSUME LockedInv PROVE Locked!ChunksTile
  OBVIOUS
<1>1. \A i \in DOMAIN pool.arenas : ArenaOK(pool.arenas[i])
  BY DEF LockedInv
<1>2. ASSUME NEW i \in DOMAIN pool.arenas
      PROVE  LET a == pool.arenas[i]
             IN  /\ \A cell \in 0..(a.size - 1) :
                       \E c \in Locked!Chunks(a) :
                         \A d \in Locked!Chunks(a) : cell \in Locked!Cells(d) <=> d = c
                 /\ \A c \in Locked!Chunks(a) : c[2] > 0 /\ c[1] + c[2] <= a.size
                 /\ \A e \in a.by_size : \A other \in a.by_size : e[2] + e[1] # other[2]
                 /\ a.free = [at \in {e[2] : e \in a.by_size} |->
                                CHOOSE e \in a.by_size : e[2] = at]
                 /\ a.free_end = [at \in {e[2] + e[1] : e \in a.by_size} |->
                                    CHOOSE e \in a.by_size : e[2] + e[1] = at]
  <2> DEFINE a == pool.arenas[i]
  <2>1. ArenaOK(a)
    BY <1>1
  <2> HIDE DEF a
  <2>2. /\ \A cell \in 0..(a.size - 1) :
             \E c \in Locked!Chunks(a) : \A d \in Locked!Chunks(a) :
                cell \in Locked!Cells(d) <=> d = c
        /\ \A c \in Locked!Chunks(a) : c[2] > 0 /\ c[1] + c[2] <= a.size
        /\ \A e \in a.by_size : \A other \in a.by_size : e[2] + e[1] # other[2]
        /\ a.free = [at \in {e[2] : e \in a.by_size} |-> CHOOSE e \in a.by_size : e[2] = at]
        /\ a.free_end = [at \in {e[2] + e[1] : e \in a.by_size} |->
                           CHOOSE e \in a.by_size : e[2] + e[1] = at]
    BY <2>1, ArenaHolds
  <2> QED
    BY <2>2 DEF a
<1> QED
  BY <1>2 DEF Locked!ChunksTile

-----------------------------------------------------------------------------
(* Handles, by their positions.                                              *)
-----------------------------------------------------------------------------
Positions(s, i) == {h \in DOMAIN s : s[h] = i}

\* What a thread holds of a connection.
Holds(s, i) == Cardinality(Positions(s, i))

\* A list of handles holds a connection a number of times.
LEMMA HoldsIsNumber ==
  ASSUME NEW s \in Seq(Nat), NEW i
  PROVE  IsFiniteSet(Positions(s, i)) /\ Holds(s, i) \in Nat
<1>1. IsFiniteSet(1..Len(s)) /\ Positions(s, i) \subseteq 1..Len(s)
  BY FS_Interval DEF Positions
<1>2. IsFiniteSet(Positions(s, i))
  BY <1>1, FS_Subset
<1> QED
  BY <1>2, FS_CardinalityType DEF Holds

\* A handle that is made counts for its connection only.
LEMMA HoldsMore ==
  ASSUME NEW s \in Seq(Nat), NEW i \in Nat, NEW j
  PROVE  /\ Append(s, i) \in Seq(Nat)
         /\ Holds(Append(s, i), j) = Holds(s, j) + (IF j = i THEN 1 ELSE 0)
<1>1. Append(s, i) \in Seq(Nat)
  OBVIOUS
<1>2. CASE j = i
  <2>1. Positions(Append(s, i), j) = Positions(s, j) \cup {Len(s) + 1}
    BY <1>2 DEF Positions
  <2>2. Len(s) + 1 \notin Positions(s, j)
    BY DEF Positions
  <2>3. Holds(Append(s, i), j) = Holds(s, j) + 1
    BY <2>1, <2>2, HoldsIsNumber, FS_AddElement DEF Holds
  <2> QED
    BY <1>2, <2>3
<1>3. CASE j # i
  <2>1. Positions(Append(s, i), j) = Positions(s, j)
    BY <1>3 DEF Positions
  <2> QED
    BY <1>1, <1>3, <2>1, HoldsIsNumber DEF Holds
<1> QED
  BY <1>1, <1>2, <1>3

\* The handles that are left, in their order.
LEMMA RemovedIsSeq ==
  ASSUME NEW s \in Seq(Nat), NEW h \in 1..Len(s)
  PROVE  /\ Lent!Removed(s, h) \in Seq(Nat)
         /\ Len(Lent!Removed(s, h)) = Len(s) - 1
         /\ \A k \in 1..(Len(s) - 1) : Lent!Removed(s, h)[k] = IF k < h THEN s[k] ELSE s[k + 1]
<1> DEFINE x == SubSeq(s, 1, h - 1)
           y == SubSeq(s, h + 1, Len(s))
<1>1. /\ x \in Seq(Nat) /\ Len(x) = h - 1
      /\ \A k \in 1..(h - 1) : x[k] = s[k]
  OBVIOUS
<1>2. /\ y \in Seq(Nat) /\ Len(y) = Len(s) - h
      /\ \A k \in 1..(Len(s) - h) : y[k] = s[k + h]
  OBVIOUS
<1> HIDE DEF x, y
<1>3. /\ x \o y \in Seq(Nat) /\ Len(x \o y) = Len(s) - 1
      /\ \A k \in 1..(Len(s) - 1) : (x \o y)[k] = IF k < h THEN s[k] ELSE s[k + 1]
  <2>1. /\ x \o y \in Seq(Nat) /\ Len(x \o y) = Len(x) + Len(y)
        /\ \A k \in 1..(Len(x) + Len(y)) :
             (x \o y)[k] = IF k <= Len(x) THEN x[k] ELSE y[k - Len(x)]
    BY <1>1, <1>2, ConcatProperties
  <2>2. ASSUME NEW k \in 1..(Len(s) - 1)
        PROVE  (x \o y)[k] = IF k < h THEN s[k] ELSE s[k + 1]
    <3>1. k \in 1..(Len(x) + Len(y)) /\ k \in Nat
      BY <1>1, <1>2
    <3>2. (x \o y)[k] = IF k <= Len(x) THEN x[k] ELSE y[k - Len(x)]
      BY <2>1, <3>1
    <3>3. CASE k < h
      <4>1. k <= Len(x) /\ k \in 1..(h - 1)
        BY <1>1, <3>3
      <4> QED
        BY <1>1, <3>2, <3>3, <4>1
    <3>4. CASE ~(k < h)
      <4>1. k - Len(x) \in 1..(Len(s) - h) /\ k - Len(x) + h = k + 1 /\ ~(k <= Len(x))
        BY <1>1, <3>4
      <4> QED
        BY <1>2, <3>2, <3>4, <4>1
    <3> QED
      BY <3>3, <3>4
  <2> QED
    BY <1>1, <1>2, <2>1, <2>2
<1> QED
  BY <1>3 DEF x, y, Lent!Removed

\* A handle that is gone counts no more.
LEMMA HoldsLess ==
  ASSUME NEW s \in Seq(Nat), NEW h \in 1..Len(s), NEW j
  PROVE  Holds(Lent!Removed(s, h), j) <= Holds(s, j) - (IF s[h] = j THEN 1 ELSE 0)
<1> DEFINE r == Lent!Removed(s, h)
           old == Positions(s, j) \ {h}
           f == [k \in Positions(r, j) |-> IF k < h THEN k ELSE k + 1]
<1>1. /\ r \in Seq(Nat) /\ Len(r) = Len(s) - 1
      /\ \A k \in 1..(Len(s) - 1) : r[k] = IF k < h THEN s[k] ELSE s[k + 1]
  BY RemovedIsSeq
<1> HIDE DEF r
<1>2. \A k \in Positions(r, j) : (IF k < h THEN k ELSE k + 1) \in old
  <2> TAKE k \in Positions(r, j)
  <2>1. k \in 1..(Len(s) - 1) /\ r[k] = j /\ Len(s) \in Nat /\ DOMAIN s = 1..Len(s)
    BY <1>1 DEF Positions
  <2>2. CASE k < h
    <3>1. r[k] = s[k]
      BY <1>1, <2>1, <2>2
    <3>2. k \in DOMAIN s /\ k # h
      BY <2>1, <2>2
    <3> QED
      BY <2>1, <2>2, <3>1, <3>2 DEF Positions
  <2>3. CASE ~(k < h)
    <3>1. s[k + 1] = j /\ k + 1 \in DOMAIN s /\ k + 1 # h
      BY <1>1, <2>1, <2>3
    <3> QED
      BY <2>3, <3>1 DEF Positions
  <2> QED
    BY <2>2, <2>3
<1>3. f \in Injection(Positions(r, j), old)
  <2>1. f \in [Positions(r, j) -> old]
    BY <1>2
  <2>2. \A k, l \in Positions(r, j) : f[k] = f[l] => k = l
    <3>1. \A k \in Positions(r, j) : k \in Nat
      BY <1>1 DEF Positions
    <3>2. \A k, l \in Nat :
            (IF k < h THEN k ELSE k + 1) = (IF l < h THEN l ELSE l + 1) => k = l
      OBVIOUS
    <3> QED
      BY <3>1, <3>2
  <2> QED
    BY <2>1, <2>2 DEF Injection, IsInjective
<1>4. IsFiniteSet(Positions(s, j)) /\ Holds(s, j) \in Nat
  BY HoldsIsNumber
<1>5. IsFiniteSet(old) /\ Cardinality(old) = Holds(s, j) - (IF s[h] = j THEN 1 ELSE 0)
  <2>1. h \in Positions(s, j) <=> s[h] = j
    BY DEF Positions
  <2>2. /\ IsFiniteSet(old)
        /\ Cardinality(old) = IF h \in Positions(s, j) THEN Cardinality(Positions(s, j)) - 1
                              ELSE Cardinality(Positions(s, j))
    BY <1>4, FS_RemoveElement
  <2> HIDE DEF old
  <2> QED
    BY <1>4, <2>1, <2>2 DEF Holds
<1>6. Cardinality(Positions(r, j)) <= Cardinality(old)
  BY <1>3, <1>5, FS_Injection DEF ExistsInjection
<1> QED
  BY <1>5, <1>6 DEF r, Holds

\* A handle that is assigned counts for the other connection.
LEMMA HoldsOther ==
  ASSUME NEW s \in Seq(Nat), NEW h \in 1..Len(s), NEW i \in Nat, NEW j
  PROVE  /\ [s EXCEPT ![h] = i] \in Seq(Nat)
         /\ Holds([s EXCEPT ![h] = i], j)
              = Holds(s, j) - (IF s[h] = j THEN 1 ELSE 0) + (IF j = i THEN 1 ELSE 0)
<1> DEFINE r == [s EXCEPT ![h] = i]
           old == Positions(s, j) \ {h}
<1>1. r \in Seq(Nat)
  OBVIOUS
<1>2. IsFiniteSet(Positions(s, j)) /\ Holds(s, j) \in Nat
  BY HoldsIsNumber
<1>3. IsFiniteSet(old) /\ Cardinality(old) = Holds(s, j) - (IF s[h] = j THEN 1 ELSE 0)
  <2>1. h \in Positions(s, j) <=> s[h] = j
    BY DEF Positions
  <2>2. /\ IsFiniteSet(old)
        /\ Cardinality(old) = IF h \in Positions(s, j) THEN Cardinality(Positions(s, j)) - 1
                              ELSE Cardinality(Positions(s, j))
    BY <1>2, FS_RemoveElement
  <2> HIDE DEF old
  <2> QED
    BY <1>2, <2>1, <2>2 DEF Holds
<1>4. Positions(r, j) = old \cup (IF j = i THEN {h} ELSE {})
  BY DEF Positions
<1>5. Cardinality(Positions(r, j)) = Cardinality(old) + (IF j = i THEN 1 ELSE 0)
  <2>1. CASE j = i
    <3>1. Positions(r, j) = old \cup {h} /\ h \notin old
      BY <1>4, <2>1
    <3> HIDE DEF old, r
    <3> QED
      BY <1>3, <2>1, <3>1, FS_AddElement
  <2>2. CASE j # i
    <3>1. Positions(r, j) = old
      BY <1>4, <2>2
    <3>2. Cardinality(old) \in Nat
      BY <1>3, FS_CardinalityType
    <3> HIDE DEF old, r
    <3> QED
      BY <2>2, <3>1, <3>2
  <2> QED
    BY <2>1, <2>2
<1> QED
  BY <1>1, <1>3, <1>5 DEF Holds

-----------------------------------------------------------------------------
(* The connections to a database.                                            *)
-----------------------------------------------------------------------------
Conns == [pool : Lent!Pools, count : Int, transaction : Nat, up : BOOLEAN, open : BOOLEAN,
          refused : BOOLEAN]
Databases ==
  [conn : Seq(Conns), free : [Lent!Pools -> Seq(Nat)],
   captured : [Lent!Pools -> [Threads -> Nat]], listed : 0..MaxPools, made : Nat, mishaps : Nat,
   held : [Threads -> Seq(Nat)], ask : [Threads -> Nat]]

\* A thread has a handle of it, has captured it, or asks whether it lives.
Owns(d, t, i) ==
  \/ \E h \in DOMAIN d.held[t] : d.held[t][h] = i
  \/ d.ask[t] = i
  \/ \E g \in Lent!Pools : d.captured[g][t] = i

\* What threads and pools name is there.
Named(d) ==
  /\ \A t \in Threads : d.ask[t] # 0 => d.ask[t] \in DOMAIN d.conn
  /\ \A t \in Threads : \A h \in DOMAIN d.held[t] : d.held[t][h] \in DOMAIN d.conn
  /\ \A g \in Lent!Pools, t \in Threads :
       d.captured[g][t] # 0 => /\ d.captured[g][t] \in DOMAIN d.conn
                              /\ d.conn[d.captured[g][t]].pool = g

\* No connection is two threads'.
OneOwner(d) ==
  \A t, u \in Threads : \A i \in DOMAIN d.conn : Owns(d, t, i) /\ Owns(d, u, i) => t = u

\* What lies in a pool is nobody's, and has no transaction.
IsIdle(d, g, i) ==
  /\ i \in DOMAIN d.conn /\ d.conn[i].pool = g /\ d.conn[i].count = 0
  /\ d.conn[i].transaction = 0 /\ (d.conn[i].open => d.conn[i].refused)
  /\ \A t \in Threads : ~Owns(d, t, i)
FreeAreIdle(d) ==
  \A g \in Lent!Pools : \A p \in DOMAIN d.free[g] :
    /\ IsIdle(d, g, d.free[g][p])
    /\ \A q \in DOMAIN d.free[g] : d.free[g][q] = d.free[g][p] => p = q

\* No transaction of the server's without one of the client's.
NoneLeftOpen(d) ==
  \A i \in DOMAIN d.conn :
    d.conn[i].transaction = 0 => (d.conn[i].open => d.conn[i].refused)

\* A connection counts its handles; of the ones an assignment has still to count it is one
\* behind.
Counted(d, behind) ==
  \A t \in Threads : \A i \in DOMAIN d.conn :
    Holds(d.held[t], i) <= d.conn[i].count + (IF <<t, i>> \in behind THEN 1 ELSE 0)

\* All of it, but that the handles in "behind" are not yet counted.
But(d, behind) ==
  /\ d \in Databases
  /\ Named(d) /\ OneOwner(d) /\ FreeAreIdle(d) /\ NoneLeftOpen(d) /\ Counted(d, behind)
DatabaseInv == But(db, {})

\* EXCEPT changes what is a record only.
Record(d) ==
  d = [conn |-> d.conn, free |-> d.free, captured |-> d.captured, listed |-> d.listed,
       made |-> d.made, mishaps |-> d.mishaps, held |-> d.held, ask |-> d.ask]

\* The fields of the record, and that there are no others.
LEMMA DatabaseIs ==
  ASSUME NEW d
  PROVE  d \in Databases <=>
           /\ Record(d)
           /\ d.conn \in Seq(Conns) /\ d.free \in [Lent!Pools -> Seq(Nat)]
           /\ d.captured \in [Lent!Pools -> [Threads -> Nat]] /\ d.listed \in 0..MaxPools
           /\ d.made \in Nat /\ d.mishaps \in Nat /\ d.held \in [Threads -> Seq(Nat)]
           /\ d.ask \in [Threads -> Nat]
BY DEF Databases, Record

\* The fields of a connection.
LEMMA ConnIs ==
  ASSUME NEW d, d \in Databases, NEW i \in DOMAIN d.conn
  PROVE  /\ d.conn[i] \in Conns /\ d.conn[i].pool \in Lent!Pools /\ d.conn[i].count \in Int
         /\ d.conn[i].transaction \in Nat /\ d.conn[i].up \in BOOLEAN
         /\ d.conn[i].open \in BOOLEAN /\ d.conn[i].refused \in BOOLEAN /\ i \in Nat \ {0}
<1>1. d.conn \in Seq(Conns)
  BY DatabaseIs
<1>2. d.conn[i] \in Conns /\ i \in Nat \ {0}
  BY <1>1
<1> QED
  BY <1>2 DEF Conns

\* What nobody has a handle of is held not once.
LEMMA HoldsNone ==
  ASSUME NEW s \in Seq(Nat), NEW i
  PROVE  Holds(s, i) = 0 <=> \A h \in DOMAIN s : s[h] # i
<1>1. Holds(s, i) = 0 <=> Positions(s, i) = {}
  BY HoldsIsNumber, FS_EmptySet DEF Holds
<1> QED
  BY <1>1 DEF Positions

\* What a thread owns is a connection.
LEMMA OwnedIsThere ==
  ASSUME NEW d, d \in Databases, Named(d), NEW t \in Threads, NEW i, Owns(d, t, i), i # 0
  PROVE  i \in DOMAIN d.conn
BY DEF Owns, Named

\* A connection changes, its owner does not.
Changed(d, e, i, c, behind, still) ==
  /\ e.conn = [d.conn EXCEPT ![i] = c]
  /\ e.free = d.free /\ e.captured = d.captured /\ e.held = d.held /\ e.ask = d.ask
  /\ e.listed \in 0..MaxPools /\ e.made \in Nat /\ e.mishaps \in Nat
  /\ c.pool = d.conn[i].pool /\ (c.transaction = 0 => (c.open => c.refused))
  /\ \A g \in Lent!Pools : \A p \in DOMAIN d.free[g] :
       d.free[g][p] = i => c.count = 0 /\ c.transaction = 0
  /\ \A t \in Threads :
       Holds(d.held[t], i) <= c.count + (IF <<t, i>> \in still THEN 1 ELSE 0)
  /\ \A t \in Threads, j \in DOMAIN d.conn : j # i /\ <<t, j>> \in behind => <<t, j>> \in still

\* The owners, the lists and the other connections are as before.
LEMMA ConnChanges ==
  ASSUME NEW d, NEW e, NEW behind, NEW still, But(d, behind), Record(e),
         NEW i \in DOMAIN d.conn, NEW c \in Conns, Changed(d, e, i, c, behind, still)
  PROVE  But(e, still)
<1> USE DEF Changed
<1>1. d \in Databases /\ d.conn \in Seq(Conns)
  BY DatabaseIs DEF But
<1>2. /\ e.conn \in Seq(Conns) /\ DOMAIN e.conn = DOMAIN d.conn /\ e.conn[i] = c
      /\ \A j \in DOMAIN d.conn : j # i => e.conn[j] = d.conn[j]
  BY <1>1
<1>3. e \in Databases
  BY <1>1, <1>2, DatabaseIs
<1>4. \A t, j : Owns(e, t, j) <=> Owns(d, t, j)
  BY DEF Owns
<1>5. \A j \in DOMAIN d.conn : e.conn[j].pool = d.conn[j].pool
  BY <1>2
<1>6. Named(e)
  BY <1>2, <1>5 DEF But, Named
<1>7. OneOwner(e)
  BY <1>2, <1>4 DEF But, OneOwner
<1>8. FreeAreIdle(e)
  <2> SUFFICES ASSUME NEW g \in Lent!Pools, NEW p \in DOMAIN e.free[g]
               PROVE  /\ IsIdle(e, g, e.free[g][p])
                      /\ \A q \in DOMAIN e.free[g] : e.free[g][q] = e.free[g][p] => p = q
    BY DEF FreeAreIdle
  <2> DEFINE j == d.free[g][p]
  <2>1. IsIdle(d, g, j) /\ \A q \in DOMAIN d.free[g] : d.free[g][q] = j => p = q
    BY DEF But, FreeAreIdle
  <2>2. IsIdle(e, g, j)
    <3>1. CASE j = i
      BY <1>2, <1>4, <2>1, <3>1 DEF IsIdle
    <3>2. CASE j # i
      BY <1>2, <1>4, <2>1, <3>2 DEF IsIdle
    <3> QED
      BY <3>1, <3>2
  <2> QED
    BY <2>1, <2>2
<1>9. NoneLeftOpen(e)
  BY <1>2 DEF But, NoneLeftOpen
<1>10. Counted(e, still)
  <2> SUFFICES ASSUME NEW t \in Threads, NEW j \in DOMAIN d.conn
               PROVE  Holds(e.held[t], j) <= e.conn[j].count + (IF <<t, j>> \in still THEN 1 ELSE 0)
    BY <1>2 DEF Counted
  <2>1. CASE j = i
    BY <1>2, <2>1
  <2>2. CASE j # i
    <3>1. Holds(d.held[t], j) <= d.conn[j].count + (IF <<t, j>> \in behind THEN 1 ELSE 0)
      BY DEF But, Counted
    <3>2. Holds(d.held[t], j) \in Nat /\ d.conn[j].count \in Int
      BY <1>1, HoldsIsNumber, ConnIs, DatabaseIs
    <3> QED
      BY <1>2, <2>2, <3>1, <3>2
  <2> QED
    BY <2>1, <2>2
<1> QED
  BY <1>3, <1>6, <1>7, <1>8, <1>9, <1>10 DEF But

\* Threads let go of connections, and pools forget some or all.
LEMMA LetsGo ==
  ASSUME NEW d, NEW e, NEW behind, NEW still, But(d, behind), Record(e), e \in Databases,
         e.conn = d.conn,
         \A t \in Threads, j \in DOMAIN d.conn : Owns(e, t, j) => Owns(d, t, j),
         Named(e),
         \A g \in Lent!Pools : \/ e.free[g] = d.free[g]
                               \/ e.free[g] = <<>>,
         Counted(e, still)
  PROVE  But(e, still)
<1>1. d \in Databases /\ OneOwner(d) /\ FreeAreIdle(d) /\ NoneLeftOpen(d)
  BY DEF But
<1>2. OneOwner(e)
  BY <1>1 DEF OneOwner
<1>3. FreeAreIdle(e)
  <2> SUFFICES ASSUME NEW g \in Lent!Pools, NEW p \in DOMAIN e.free[g]
               PROVE  /\ IsIdle(e, g, e.free[g][p])
                      /\ \A q \in DOMAIN e.free[g] : e.free[g][q] = e.free[g][p] => p = q
    BY DEF FreeAreIdle
  <2>1. e.free[g] = d.free[g]
    OBVIOUS
  <2>2. /\ IsIdle(d, g, d.free[g][p])
        /\ \A q \in DOMAIN d.free[g] : d.free[g][q] = d.free[g][p] => p = q
    BY <1>1, <2>1 DEF FreeAreIdle
  <2>3. IsIdle(e, g, d.free[g][p])
    BY <2>2 DEF IsIdle
  <2> QED
    BY <2>1, <2>2, <2>3
<1>4. NoneLeftOpen(e)
  BY <1>1 DEF NoneLeftOpen
<1> QED
  BY <1>2, <1>3, <1>4 DEF But

\* A thread gets a handle of a connection that no other has and that is not free.
Gained(d, e, t, i, c) ==
  /\ c = [d.conn[i] EXCEPT !.count = @ + 1]
  /\ e.conn = [d.conn EXCEPT ![i] = c] /\ e.free = d.free
  /\ e.held = [d.held EXCEPT ![t] = Append(d.held[t], i)]
  /\ e.captured \in [Lent!Pools -> [Threads -> Nat]]
  /\ \A g \in Lent!Pools, u \in Threads :
       \/ e.captured[g][u] = d.captured[g][u]
       \/ u = t /\ e.captured[g][u] = i /\ d.conn[i].pool = g
  /\ e.ask \in [Threads -> Nat]
  /\ \A u \in Threads : e.ask[u] = d.ask[u] \/ e.ask[u] = 0
  /\ e.listed = d.listed /\ e.made = d.made /\ e.mishaps = d.mishaps
  /\ \A u \in Threads : u # t => ~Owns(d, u, i)
  /\ \A g \in Lent!Pools : \A p \in DOMAIN d.free[g] : d.free[g][p] # i

\* The thread was and is the only one that owns it.
LEMMA Gains ==
  ASSUME NEW d, NEW e, But(d, {}), Record(e), NEW t \in Threads, NEW i \in DOMAIN d.conn,
         NEW c \in Conns, Gained(d, e, t, i, c)
  PROVE  But(e, {})
<1> USE DEF Gained
<1>1. /\ d \in Databases /\ d.conn \in Seq(Conns) /\ d.held \in [Threads -> Seq(Nat)]
      /\ d.listed \in 0..MaxPools /\ d.made \in Nat /\ d.mishaps \in Nat
      /\ d.free \in [Lent!Pools -> Seq(Nat)]
  BY DatabaseIs DEF But
<1>2. /\ d.conn[i].count \in Int /\ i \in Nat \ {0} /\ d.conn[i] \in Conns
  BY <1>1, ConnIs
<1>3. /\ c.pool = d.conn[i].pool /\ c.count = d.conn[i].count + 1
      /\ c.transaction = d.conn[i].transaction /\ c.open = d.conn[i].open
      /\ c.refused = d.conn[i].refused
  BY <1>2 DEF Conns
<1>4. /\ e.conn \in Seq(Conns) /\ DOMAIN e.conn = DOMAIN d.conn /\ e.conn[i] = c
      /\ \A j \in DOMAIN d.conn : j # i => e.conn[j] = d.conn[j]
  BY <1>1
<1>5. /\ Append(d.held[t], i) \in Seq(Nat)
      /\ \A j : Holds(Append(d.held[t], i), j) = Holds(d.held[t], j) + (IF j = i THEN 1 ELSE 0)
  BY <1>1, <1>2, HoldsMore
<1>6. /\ e.held \in [Threads -> Seq(Nat)] /\ e.held[t] = Append(d.held[t], i)
      /\ \A u \in Threads : u # t => e.held[u] = d.held[u]
  BY <1>1, <1>5
<1>7. e \in Databases
  BY <1>1, <1>4, <1>6, DatabaseIs
<1>8. \A h \in DOMAIN e.held[t] :
        e.held[t][h] = i \/ \E k \in DOMAIN d.held[t] : e.held[t][h] = d.held[t][k]
  <2>1. d.held[t] \in Seq(Nat)
    BY <1>1
  <2> QED
    BY <1>2, <1>6, <2>1
<1>9. \A u \in Threads, j \in DOMAIN d.conn : Owns(e, u, j) => Owns(d, u, j) \/ (u = t /\ j = i)
  <2> SUFFICES ASSUME NEW u \in Threads, NEW j \in DOMAIN d.conn, Owns(e, u, j),
                      ~(u = t /\ j = i)
               PROVE  Owns(d, u, j)
    OBVIOUS
  <2>1. j # 0
    BY <1>1, ConnIs
  <2>2. CASE \E h \in DOMAIN e.held[u] : e.held[u][h] = j
    <3>1. \E h \in DOMAIN d.held[u] : d.held[u][h] = j
      BY <1>6, <1>8, <2>2
    <3> QED
      BY <3>1 DEF Owns
  <2>3. CASE e.ask[u] = j
    <3>1. d.ask[u] = j
      BY <2>1, <2>3
    <3> QED
      BY <3>1 DEF Owns
  <2>4. CASE \E g \in Lent!Pools : e.captured[g][u] = j
    <3>1. PICK g \in Lent!Pools : e.captured[g][u] = j
      BY <2>4
    <3>2. e.captured[g][u] = d.captured[g][u] \/ (u = t /\ e.captured[g][u] = i)
      OBVIOUS
    <3>3. d.captured[g][u] = j
      BY <3>1, <3>2
    <3> QED
      BY <3>3 DEF Owns
  <2> QED
    BY <2>2, <2>3, <2>4 DEF Owns
<1>10. \A j \in DOMAIN d.conn : e.conn[j].pool = d.conn[j].pool
  BY <1>3, <1>4
<1>11. Named(e)
  <2>1. \A u \in Threads : e.ask[u] # 0 => e.ask[u] \in DOMAIN e.conn
    BY <1>4 DEF But, Named
  <2>2. \A u \in Threads : \A h \in DOMAIN e.held[u] : e.held[u][h] \in DOMAIN e.conn
    BY <1>4, <1>6, <1>8 DEF But, Named
  <2>3. \A g \in Lent!Pools, u \in Threads :
          e.captured[g][u] # 0 => /\ e.captured[g][u] \in DOMAIN e.conn
                                 /\ e.conn[e.captured[g][u]].pool = g
    <3> TAKE g \in Lent!Pools, u \in Threads
    <3>1. CASE e.captured[g][u] = d.captured[g][u]
      BY <1>4, <1>10, <3>1 DEF But, Named
    <3>2. CASE e.captured[g][u] = i /\ d.conn[i].pool = g
      BY <1>4, <1>10, <3>2
    <3> QED
      BY <3>1, <3>2
  <2> QED
    BY <2>1, <2>2, <2>3 DEF Named
<1>12. OneOwner(e)
  BY <1>4, <1>9 DEF But, OneOwner
<1>13. FreeAreIdle(e)
  <2> SUFFICES ASSUME NEW g \in Lent!Pools, NEW p \in DOMAIN d.free[g]
               PROVE  /\ IsIdle(e, g, d.free[g][p])
                      /\ \A q \in DOMAIN d.free[g] : d.free[g][q] = d.free[g][p] => p = q
    BY DEF FreeAreIdle
  <2>1. /\ IsIdle(d, g, d.free[g][p]) /\ d.free[g][p] # i
        /\ \A q \in DOMAIN d.free[g] : d.free[g][q] = d.free[g][p] => p = q
    BY DEF But, FreeAreIdle
  <2>2. IsIdle(e, g, d.free[g][p])
    BY <1>4, <1>9, <2>1 DEF IsIdle
  <2> QED
    BY <2>1, <2>2
<1>14. NoneLeftOpen(e)
  BY <1>3, <1>4 DEF But, NoneLeftOpen
<1>15. Counted(e, {})
  <2> SUFFICES ASSUME NEW u \in Threads, NEW j \in DOMAIN d.conn
               PROVE  Holds(e.held[u], j) <= e.conn[j].count
    <3>1. \A v, k : (IF <<v, k>> \in {} THEN 1 ELSE 0) = 0
      OBVIOUS
    <3>2. \A k \in DOMAIN d.conn : e.conn[k].count \in Int
      BY <1>4, <1>7, ConnIs
    <3> QED
      BY <1>4, <3>1, <3>2 DEF Counted
  <2>1. Holds(d.held[u], j) <= d.conn[j].count
    <3>1. Holds(d.held[u], j) <= d.conn[j].count + 0
      BY DEF But, Counted
    <3> QED
      BY <1>1, <3>1, ConnIs
  <2>2. Holds(d.held[u], j) \in Nat /\ d.conn[j].count \in Int
    BY <1>1, HoldsIsNumber, ConnIs
  <2>3. Holds(e.held[u], j) <= Holds(d.held[u], j) + (IF j = i THEN 1 ELSE 0)
    <3>1. CASE u = t
      BY <1>5, <1>6, <2>2, <3>1
    <3>2. CASE u # t
      BY <1>6, <2>2, <3>2
    <3> QED
      BY <3>1, <3>2
  <2>4. Holds(e.held[u], j) \in Nat
    BY <1>6, HoldsIsNumber
  <2>5. CASE j = i
    BY <1>3, <1>4, <2>1, <2>2, <2>3, <2>4, <2>5
  <2>6. CASE j # i
    BY <1>4, <2>1, <2>2, <2>3, <2>4, <2>6
  <2> QED
    BY <2>5, <2>6
<1> QED
  BY <1>7, <1>11, <1>12, <1>13, <1>14, <1>15 DEF But

\* A connection is made.
LEMMA ConnIsMade ==
  ASSUME NEW d, NEW e, But(d, {}), Record(e), NEW c \in Conns,
         c.transaction = 0, (c.open => c.refused), c.count = 0,
         e.conn = Append(d.conn, c), e.free = d.free, e.held = d.held, e.captured = d.captured,
         e.ask = d.ask, e.listed = d.listed, e.made = d.made, e.mishaps = d.mishaps
  PROVE  /\ But(e, {})
         /\ Len(d.conn) + 1 \in DOMAIN e.conn /\ e.conn[Len(d.conn) + 1] = c
         /\ \A t \in Threads : ~Owns(e, t, Len(d.conn) + 1)
         /\ \A g \in Lent!Pools : \A p \in DOMAIN d.free[g] : d.free[g][p] # Len(d.conn) + 1
<1> DEFINE new == Len(d.conn) + 1
<1>1. /\ d \in Databases /\ d.conn \in Seq(Conns) /\ d.held \in [Threads -> Seq(Nat)]
      /\ Named(d) /\ FreeAreIdle(d)
  BY DatabaseIs DEF But
<1>2. /\ e.conn \in Seq(Conns) /\ DOMAIN e.conn = DOMAIN d.conn \cup {new}
      /\ e.conn[new] = c /\ new \notin DOMAIN d.conn /\ new \in Nat \ {0}
      /\ \A j \in DOMAIN d.conn : e.conn[j] = d.conn[j]
  BY <1>1
<1> HIDE DEF new
<1>3. e \in Databases
  BY <1>1, <1>2, DatabaseIs
<1>4. \A t, j : Owns(e, t, j) <=> Owns(d, t, j)
  BY DEF Owns
<1>5. \A t \in Threads : ~Owns(e, t, new)
  BY <1>1, <1>2, <1>4, OwnedIsThere
<1>6. Named(e)
  BY <1>1, <1>2 DEF Named
<1>7. OneOwner(e)
  <2> SUFFICES ASSUME NEW t \in Threads, NEW u \in Threads, NEW j \in DOMAIN e.conn,
                      Owns(e, t, j), Owns(e, u, j)
               PROVE  t = u
    BY DEF OneOwner
  <2>1. j # new
    BY <1>5
  <2> QED
    BY <1>2, <1>4, <2>1 DEF But, OneOwner
<1>8. FreeAreIdle(e)
  <2> SUFFICES ASSUME NEW g \in Lent!Pools, NEW p \in DOMAIN d.free[g]
               PROVE  /\ IsIdle(e, g, d.free[g][p])
                      /\ \A q \in DOMAIN d.free[g] : d.free[g][q] = d.free[g][p] => p = q
    BY DEF FreeAreIdle
  <2>1. /\ IsIdle(d, g, d.free[g][p])
        /\ \A q \in DOMAIN d.free[g] : d.free[g][q] = d.free[g][p] => p = q
    BY <1>1 DEF FreeAreIdle
  <2>2. IsIdle(e, g, d.free[g][p])
    BY <1>2, <1>4, <2>1 DEF IsIdle
  <2> QED
    BY <2>1, <2>2
<1>9. NoneLeftOpen(e)
  BY <1>2 DEF But, NoneLeftOpen
<1>10. Counted(e, {})
  <2> SUFFICES ASSUME NEW t \in Threads, NEW j \in DOMAIN e.conn
               PROVE  Holds(e.held[t], j) <= e.conn[j].count + (IF <<t, j>> \in {} THEN 1 ELSE 0)
    BY DEF Counted
  <2>1. CASE j \in DOMAIN d.conn
    BY <1>2, <2>1 DEF But, Counted
  <2>2. CASE j = new
    <3>1. \A h \in DOMAIN d.held[t] : d.held[t][h] # new
      BY <1>1, <1>2 DEF Named
    <3>2. Holds(d.held[t], new) = 0
      BY <1>1, <3>1, HoldsNone
    <3> QED
      BY <1>2, <2>2, <3>2
  <2> QED
    BY <1>2, <2>1, <2>2
<1>11. \A g \in Lent!Pools : \A p \in DOMAIN d.free[g] : d.free[g][p] # new
  BY <1>1, <1>2 DEF FreeAreIdle, IsIdle
<1>12. But(e, {})
  BY <1>3, <1>6, <1>7, <1>8, <1>9, <1>10 DEF But
<1> QED
  BY <1>2, <1>5, <1>11, <1>12 DEF new

\* A thread asks for a connection that was its own or is the first of the free ones.
Asks(d, e, t, i) ==
  /\ e.conn = d.conn /\ e.held = d.held /\ e.listed = d.listed /\ e.made = d.made
  /\ e.mishaps = d.mishaps /\ e.ask = [d.ask EXCEPT ![t] = i]
  /\ e.captured \in [Lent!Pools -> [Threads -> Nat]]
  /\ \A g \in Lent!Pools, u \in Threads :
       e.captured[g][u] = d.captured[g][u] \/ e.captured[g][u] = 0
  /\ \A u \in Threads : u # t => ~Owns(d, u, i)
  /\ \A g \in Lent!Pools :
       \/ e.free[g] = d.free[g] /\ \A p \in DOMAIN d.free[g] : d.free[g][p] # i
       \/ d.free[g] # <<>> /\ i = Head(d.free[g]) /\ e.free[g] = Tail(d.free[g])
  /\ e.free \in [Lent!Pools -> Seq(Nat)]

\* What is asked for is no longer in the list, and the thread's alone.
LEMMA IsAsked ==
  ASSUME NEW d, NEW e, But(d, {}), Record(e), NEW t \in Threads, NEW i \in DOMAIN d.conn,
         Asks(d, e, t, i)
  PROVE  But(e, {})
<1> USE DEF Asks
<1>1. /\ d \in Databases /\ d.conn \in Seq(Conns) /\ d.held \in [Threads -> Seq(Nat)]
      /\ Named(d) /\ FreeAreIdle(d) /\ d.ask \in [Threads -> Nat] /\ d.listed \in 0..MaxPools
      /\ d.made \in Nat /\ d.mishaps \in Nat /\ d.free \in [Lent!Pools -> Seq(Nat)]
  BY DatabaseIs DEF But
<1>2. i \in Nat \ {0}
  BY <1>1, ConnIs
<1>3. e.ask \in [Threads -> Nat] /\ \A u \in Threads : e.ask[u] = IF u = t THEN i ELSE d.ask[u]
  BY <1>1, <1>2
<1>4. e \in Databases
  BY <1>1, <1>3, DatabaseIs
<1>5. \A u \in Threads, j \in DOMAIN d.conn : Owns(e, u, j) => Owns(d, u, j) \/ (u = t /\ j = i)
  <2> TAKE u \in Threads, j \in DOMAIN d.conn
  <2>1. j # 0
    BY <1>1, ConnIs
  <2> QED
    BY <1>3, <2>1 DEF Owns
<1>6. Named(e)
  <2>1. \A u \in Threads : e.ask[u] # 0 => e.ask[u] \in DOMAIN d.conn
    BY <1>1, <1>3 DEF Named
  <2>2. ASSUME NEW g \in Lent!Pools, NEW u \in Threads, e.captured[g][u] # 0
        PROVE  /\ e.captured[g][u] \in DOMAIN e.conn
               /\ e.conn[e.captured[g][u]].pool = g
    <3>1. e.captured[g][u] = d.captured[g][u]
      BY <2>2
    <3> QED
      BY <1>1, <2>2, <3>1 DEF Named
  <2>3. \A u \in Threads : \A h \in DOMAIN e.held[u] : e.held[u][h] \in DOMAIN e.conn
    BY <1>1 DEF Named
  <2> QED
    BY <2>1, <2>2, <2>3 DEF Named
<1>7. OneOwner(e)
  BY <1>5 DEF But, OneOwner
<1>8. FreeAreIdle(e)
  <2> SUFFICES ASSUME NEW g \in Lent!Pools, NEW p \in DOMAIN e.free[g]
               PROVE  /\ IsIdle(e, g, e.free[g][p])
                      /\ \A q \in DOMAIN e.free[g] : e.free[g][q] = e.free[g][p] => p = q
    BY DEF FreeAreIdle
  <2>1. \A r \in DOMAIN d.free[g] :
          /\ IsIdle(d, g, d.free[g][r])
          /\ \A q \in DOMAIN d.free[g] : d.free[g][q] = d.free[g][r] => r = q
    BY <1>1 DEF FreeAreIdle
  <2>2. \A j : IsIdle(d, g, j) /\ j # i => IsIdle(e, g, j)
    BY <1>5 DEF IsIdle
  <2>3. CASE e.free[g] = d.free[g] /\ \A r \in DOMAIN d.free[g] : d.free[g][r] # i
    BY <2>1, <2>2, <2>3
  <2>4. CASE d.free[g] # <<>> /\ i = Head(d.free[g]) /\ e.free[g] = Tail(d.free[g])
    <3> DEFINE s == d.free[g]
    <3>1. s \in Seq(Nat) /\ s # <<>>
      BY <1>1, <2>4
    <3>2. /\ DOMAIN Tail(s) = 1..(Len(s) - 1) /\ Head(s) = s[1] /\ DOMAIN s = 1..Len(s)
          /\ Len(s) \in Nat \ {0} /\ \A q \in 1..(Len(s) - 1) : Tail(s)[q] = s[q + 1]
      BY <3>1
    <3>3. \A q \in DOMAIN Tail(s) : q + 1 \in DOMAIN s /\ q + 1 # 1 /\ q \in Nat
      BY <3>2
    <3>4. \A q \in DOMAIN Tail(s) : e.free[g][q] = s[q + 1]
      BY <2>4, <3>2
    <3>5. 1 \in DOMAIN s /\ i = s[1]
      BY <2>4, <3>2
    <3>6. s[p + 1] # i /\ IsIdle(d, g, s[p + 1])
      BY <2>1, <2>4, <3>3, <3>5
    <3>7. \A q \in DOMAIN Tail(s) : s[q + 1] = s[p + 1] => p = q
      <4> TAKE q \in DOMAIN Tail(s)
      <4> HAVE s[q + 1] = s[p + 1]
      <4>1. q + 1 = p + 1
        BY <2>1, <2>4, <3>3
      <4> QED
        BY <2>4, <3>3, <4>1
    <3> QED
      BY <2>2, <2>4, <3>4, <3>6, <3>7
  <2> QED
    BY <2>3, <2>4
<1>9. NoneLeftOpen(e)
  BY DEF But, NoneLeftOpen
<1>10. Counted(e, {})
  BY DEF But, Counted
<1> QED
  BY <1>4, <1>6, <1>7, <1>8, <1>9, <1>10 DEF But

\* A list with one more at its front.
LEMMA Prepends ==
  ASSUME NEW s \in Seq(Nat), NEW i \in Nat
  PROVE  /\ <<i>> \o s \in Seq(Nat) /\ Len(<<i>> \o s) = Len(s) + 1 /\ (<<i>> \o s)[1] = i
         /\ \A q \in 1..Len(s) : (<<i>> \o s)[q + 1] = s[q]
<1> DEFINE one == <<i>>
<1>1. one \in Seq(Nat) /\ Len(one) = 1 /\ one[1] = i
  OBVIOUS
<1> HIDE DEF one
<1>2. /\ one \o s \in Seq(Nat) /\ Len(one \o s) = Len(one) + Len(s)
      /\ \A q \in 1..(Len(one) + Len(s)) :
           (one \o s)[q] = IF q <= Len(one) THEN one[q] ELSE s[q - Len(one)]
  BY <1>1, ConcatProperties
<1>3. Len(s) \in Nat
  OBVIOUS
<1>4. Len(one \o s) = Len(s) + 1 /\ (one \o s)[1] = i
  BY <1>1, <1>2, <1>3
<1>5. ASSUME NEW q \in 1..Len(s)
      PROVE  (one \o s)[q + 1] = s[q]
  <2>1. q + 1 \in 1..(Len(one) + Len(s)) /\ ~(q + 1 <= Len(one)) /\ q + 1 - Len(one) = q
    BY <1>1, <1>3
  <2> QED
    BY <1>2, <2>1
<1> QED
  BY <1>2, <1>4, <1>5 DEF one

\* A connection without a handle goes back to its pool.
GoneBack(d, e, t, i, c, g, s) ==
  /\ c.pool = g /\ d.conn[i].pool = g /\ c.count = 0 /\ c.transaction = 0
  /\ c.open => c.refused
  /\ d.conn[i].count = 0
  /\ e.conn = [d.conn EXCEPT ![i] = c]
  /\ s = <<i>> \o d.free[g] /\ e.free = [d.free EXCEPT ![g] = s]
  /\ e.captured = [d.captured EXCEPT ![g] = [d.captured[g] EXCEPT ![t] = 0]]
  /\ e.held = d.held /\ e.ask = d.ask /\ e.listed = d.listed /\ e.made = d.made
  /\ e.mishaps = d.mishaps
  /\ d.ask[t] = 0 /\ \A h \in DOMAIN d.held[t] : d.held[t][h] # i
  /\ \A u \in Threads : u # t => ~Owns(d, u, i)
  /\ \A f \in Lent!Pools : \A p \in DOMAIN d.free[f] : d.free[f][p] # i

\* A place in a sequence with one more in front is the first or one behind an old one.
LEMMA OneBefore ==
  ASSUME NEW n \in Nat, NEW q \in 1..(n + 1)
  PROVE  q = 1 \/ (q - 1 \in 1..n /\ (q - 1) + 1 = q)
OBVIOUS

\* Nobody owns it any more, and it is in the list once.
LEMMA GoesBack ==
  ASSUME NEW d, NEW e, NEW behind, But(d, behind), Record(e), NEW t \in Threads,
         NEW i \in DOMAIN d.conn, NEW c \in Conns, NEW g \in Lent!Pools, NEW s,
         GoneBack(d, e, t, i, c, g, s)
  PROVE  But(e, behind)
<1> USE DEF GoneBack
<1>1. /\ d \in Databases /\ d.conn \in Seq(Conns) /\ d.held \in [Threads -> Seq(Nat)]
      /\ Named(d) /\ FreeAreIdle(d) /\ OneOwner(d) /\ NoneLeftOpen(d) /\ Counted(d, behind)
      /\ d.captured \in [Lent!Pools -> [Threads -> Nat]]
      /\ d.ask \in [Threads -> Nat] /\ d.listed \in 0..MaxPools
      /\ d.made \in Nat /\ d.mishaps \in Nat /\ d.free \in [Lent!Pools -> Seq(Nat)]
  BY DatabaseIs DEF But
<1>2. i \in Nat \ {0} /\ g \in Lent!Pools
  BY <1>1, ConnIs
<1>3. /\ e.conn \in Seq(Conns) /\ DOMAIN e.conn = DOMAIN d.conn /\ e.conn[i] = c
      /\ \A j \in DOMAIN d.conn : j # i => e.conn[j] = d.conn[j]
  BY <1>1
<1>4. /\ s \in Seq(Nat) /\ Len(s) = Len(d.free[g]) + 1 /\ s[1] = i
      /\ \A q \in 1..Len(d.free[g]) : s[q + 1] = d.free[g][q]
  <2>1. d.free[g] \in Seq(Nat)
    BY <1>1, <1>2
  <2> QED
    BY <1>2, <2>1, Prepends
<1>5. /\ e.free \in [Lent!Pools -> Seq(Nat)] /\ e.free[g] = s
      /\ \A f \in Lent!Pools : f # g => e.free[f] = d.free[f]
  BY <1>1, <1>4
<1>6. /\ e.captured \in [Lent!Pools -> [Threads -> Nat]]
      /\ \A f \in Lent!Pools, u \in Threads :
           e.captured[f][u] = IF f = g /\ u = t THEN 0 ELSE d.captured[f][u]
  BY <1>1, <1>2
<1>7. e \in Databases
  BY <1>1, <1>3, <1>5, <1>6, DatabaseIs
<1>8. \A u \in Threads, j \in DOMAIN d.conn : Owns(e, u, j) => Owns(d, u, j)
  <2> SUFFICES ASSUME NEW u \in Threads, NEW j \in DOMAIN d.conn, Owns(e, u, j)
               PROVE  Owns(d, u, j)
    OBVIOUS
  <2>1. j # 0
    BY <1>1, ConnIs
  <2>2. CASE \E h \in DOMAIN e.held[u] : e.held[u][h] = j
    BY <2>2 DEF Owns
  <2>3. CASE e.ask[u] = j
    BY <2>3 DEF Owns
  <2>4. CASE \E f \in Lent!Pools : e.captured[f][u] = j
    BY <1>6, <2>1, <2>4 DEF Owns
  <2> QED
    BY <2>2, <2>3, <2>4 DEF Owns
<1>9. ~Owns(e, t, i)
  <2> SUFFICES ASSUME NEW f \in Lent!Pools, e.captured[f][t] = i PROVE FALSE
    BY <1>2 DEF Owns
  <2>1. d.captured[f][t] = i /\ f # g
    BY <1>2, <1>6
  <2>2. d.conn[i].pool = f
    BY <1>1, <1>2, <2>1 DEF Named
  <2> QED
    BY <2>1, <2>2
<1>10. \A j \in DOMAIN d.conn : e.conn[j].pool = d.conn[j].pool
  BY <1>3
<1>11. Named(e)
  <2>1. ASSUME NEW f \in Lent!Pools, NEW u \in Threads, e.captured[f][u] # 0
        PROVE  /\ e.captured[f][u] \in DOMAIN e.conn
               /\ e.conn[e.captured[f][u]].pool = f
    <3>1. e.captured[f][u] = d.captured[f][u]
      BY <1>6, <2>1
    <3>2. d.captured[f][u] \in DOMAIN d.conn /\ d.conn[d.captured[f][u]].pool = f
      BY <1>1, <2>1, <3>1 DEF Named
    <3> QED
      BY <1>3, <1>10, <3>1, <3>2
  <2> QED
    BY <1>1, <1>3, <2>1 DEF Named
<1>12. OneOwner(e)
  BY <1>1, <1>3, <1>8 DEF OneOwner
<1>13. \A f \in Lent!Pools : \A j : IsIdle(d, f, j) /\ j # i => IsIdle(e, f, j)
  BY <1>3, <1>8 DEF IsIdle
<1>14. IsIdle(e, g, i)
  BY <1>3, <1>8, <1>9 DEF IsIdle
<1>15. FreeAreIdle(e)
  <2> SUFFICES ASSUME NEW f \in Lent!Pools, NEW p \in DOMAIN e.free[f]
               PROVE  /\ IsIdle(e, f, e.free[f][p])
                      /\ \A q \in DOMAIN e.free[f] : e.free[f][q] = e.free[f][p] => p = q
    BY DEF FreeAreIdle
  <2>1. \A r \in DOMAIN d.free[f] :
          /\ IsIdle(d, f, d.free[f][r]) /\ d.free[f][r] # i
          /\ \A q \in DOMAIN d.free[f] : d.free[f][q] = d.free[f][r] => r = q
    BY <1>1 DEF FreeAreIdle
  <2>2. CASE f # g
    BY <1>5, <1>13, <2>1, <2>2
  <2>3. CASE f = g
    <3>1. /\ DOMAIN s = 1..Len(s) /\ DOMAIN d.free[g] = 1..Len(d.free[g])
          /\ Len(d.free[g]) \in Nat
      BY <1>1, <1>2, <1>4
    <3>2. \A q \in DOMAIN s : q = 1 \/ (q - 1 \in DOMAIN d.free[g] /\ s[q] = d.free[g][q - 1])
      <4> TAKE q \in DOMAIN s
      <4>1. PICK n : n = Len(d.free[g])
        OBVIOUS
      <4>2. n \in Nat /\ q \in 1..(n + 1)
        BY <1>4, <3>1, <4>1
      <4>3. q = 1 \/ (q - 1 \in 1..n /\ (q - 1) + 1 = q)
        BY <4>2, OneBefore
      <4> QED
        BY <1>4, <3>1, <4>1, <4>3
    <3>3. e.free[f] = s
      BY <1>5, <2>3
    <3>4. CASE p = 1
      BY <1>4, <1>14, <2>1, <2>3, <3>2, <3>3, <3>4
    <3>5. CASE p # 1
      <4>1. p - 1 \in DOMAIN d.free[g] /\ s[p] = d.free[g][p - 1]
        BY <3>2, <3>3, <3>5
      <4>2. IsIdle(e, f, s[p])
        BY <1>13, <2>1, <2>3, <4>1
      <4>3. ASSUME NEW q \in DOMAIN s, s[q] = s[p]
            PROVE  p = q
        <5>1. q # 1
          BY <1>4, <2>1, <2>3, <4>1, <4>3
        <5>2. q - 1 \in DOMAIN d.free[g] /\ s[q] = d.free[g][q - 1]
          BY <3>2, <5>1
        <5>3. q - 1 = p - 1
          BY <2>1, <2>3, <4>1, <4>3, <5>2
        <5>4. q \in Int /\ p \in Int
          BY <3>1, <3>3
        <5> QED
          BY <5>3, <5>4
      <4> QED
        BY <3>3, <4>2, <4>3
    <3> QED
      BY <3>4, <3>5
  <2> QED
    BY <2>2, <2>3
<1>16. NoneLeftOpen(e)
  BY <1>1, <1>3 DEF NoneLeftOpen
<1>17. Counted(e, behind)
  <2>1. \A j \in DOMAIN d.conn : e.conn[j].count = d.conn[j].count
    BY <1>3
  <2> QED
    BY <1>1, <1>3, <2>1 DEF Counted
<1> QED
  BY <1>7, <1>11, <1>12, <1>15, <1>16, <1>17 DEF But

\* What the calls of a connection leave of it: its pool and its count, and no transaction
\* of the server's without one of the client's but for what the server refused to roll back.
LEMMA CallsKeep ==
  ASSUME NEW c \in Conns, c.transaction = 0 => (c.open => c.refused), NEW x
  PROVE  /\ x \in Lent!startTransaction(c) \cup Lent!commit(c) \cup Lent!rollback(c) =>
              /\ x \in Conns /\ x.pool = c.pool /\ x.count = c.count
              /\ x.transaction = 0 => (x.open => x.refused)
         /\ x \in Lent!rolledBack(c) =>
              /\ x \in Conns /\ x.pool = c.pool /\ x.count = c.count
              /\ x.transaction = 0 /\ (x.open => x.refused)
<1> DEFINE Kept(y) == y \in Conns /\ y.pool = c.pool /\ y.count = c.count
           T(k) == [c EXCEPT !.transaction = k]
           Gone == [Lent!Lost(c) EXCEPT !.transaction = 0]
<1>1. c.transaction \in Nat /\ c.open \in BOOLEAN
  BY DEF Conns
<1>2. ASSUME NEW k \in Nat
      PROVE  Kept(T(k)) /\ T(k).transaction = k
  BY DEF Conns
<1>3. /\ Kept(Lent!Lost(c)) /\ Lent!Lost(c).transaction = c.transaction
      /\ Lent!Lost(c).open => Lent!Lost(c).refused
  BY DEF Conns, Lent!Lost
<1>4. /\ Kept(Lent!Done(c, TRUE, 1)) /\ Lent!Done(c, TRUE, 1).transaction = 1
      /\ Kept(Lent!Done(c, FALSE, 0))
      /\ Lent!Done(c, FALSE, 0).open => Lent!Done(c, FALSE, 0).refused
      /\ Kept(Lent!Refused(c)) /\ Lent!Refused(c).transaction = 0
      /\ Lent!Refused(c).open => Lent!Refused(c).refused
  BY DEF Conns, Lent!Done, Lent!Refused
<1>5. Kept(Gone) /\ Gone.transaction = 0 /\ (Gone.open => Gone.refused)
  BY DEF Lent!Lost, Conns
<1>6. Kept(c)
  OBVIOUS
<1> HIDE DEF Kept, T, Gone
<1>7. ASSUME x \in Lent!startTransaction(c)
      PROVE  Kept(x) /\ (x.transaction = 0 => (x.open => x.refused))
  <2>1. CASE c.transaction > 0
    <3>1. x = T(c.transaction + 1)
      BY <1>1, <1>7, <2>1 DEF Lent!startTransaction, T
    <3>2. c.transaction + 1 \in Nat /\ c.transaction + 1 # 0
      BY <1>1
    <3> QED
      BY <1>2, <3>1, <3>2
  <2>2. CASE ~(c.transaction > 0)
    <3>1. x = Lent!Done(c, TRUE, 1) \/ x = c \/ x = Lent!Lost(c)
      BY <1>7, <2>2 DEF Lent!startTransaction
    <3>2. CASE x = Lent!Done(c, TRUE, 1)
      <4>1. Kept(x) /\ x.transaction = 1
        BY <1>4, <3>2, Zenon
      <4> QED
        BY <4>1
    <3>3. CASE x = Lent!Lost(c)
      BY <1>3, <3>3
    <3> QED
      BY <1>6, <3>1, <3>2, <3>3
  <2> QED
    BY <2>1, <2>2
<1>8. ASSUME x \in Lent!commit(c)
      PROVE  Kept(x) /\ (x.transaction = 0 => (x.open => x.refused))
  <2>1. CASE c.transaction > 1
    <3>1. c.transaction # 0
      BY <1>1, <2>1
    <3>2. Lent!commit(c) = {T(c.transaction - 1)}
      BY <2>1, <3>1 DEF Lent!commit, T
    <3>3. c.transaction - 1 \in Nat /\ c.transaction - 1 # 0
      BY <1>1, <2>1
    <3> QED
      BY <1>2, <1>8, <3>2, <3>3
  <2>2. CASE ~(c.transaction > 1)
    <3>1. x = Lent!Done(c, FALSE, 0) \/ x = c \/ x = Lent!Lost(c)
      BY <1>1, <1>8, <2>2 DEF Lent!commit
    <3> QED
      BY <1>1, <1>3, <1>4, <1>6, <3>1
  <2> QED
    BY <2>1, <2>2
<1>9. ASSUME x \in Lent!rollback(c)
      PROVE  Kept(x) /\ (x.transaction = 0 => (x.open => x.refused))
  <2>1. CASE c.transaction > 1
    <3>1. c.transaction # 0
      BY <1>1, <2>1
    <3>2. Lent!rollback(c) = {T(c.transaction - 1)}
      BY <2>1, <3>1 DEF Lent!rollback, T
    <3>3. c.transaction - 1 \in Nat /\ c.transaction - 1 # 0
      BY <1>1, <2>1
    <3> QED
      BY <1>2, <1>9, <3>2, <3>3
  <2>2. CASE ~(c.transaction > 1)
    <3>1. x = Lent!Done(c, FALSE, 0) \/ x = c \/ x = Lent!Refused(c) \/ x = Gone
      BY <1>1, <1>9, <2>2 DEF Lent!rollback, Gone
    <3> QED
      BY <1>1, <1>4, <1>5, <1>6, <3>1
  <2> QED
    BY <2>1, <2>2
<1>10. ASSUME x \in Lent!rolledBack(c)
      PROVE  Kept(x) /\ x.transaction = 0 /\ (x.open => x.refused)
  <2>1. CASE c.transaction = 0
    BY <1>10, <1>6, <2>1 DEF Lent!rolledBack
  <2>2. CASE c.transaction # 0
    <3> DEFINE one == T(1)
               all == Lent!Done(one, FALSE, 0)
               lost == [Lent!Lost(one) EXCEPT !.transaction = 0]
    <3>1. /\ one \in Conns /\ one.pool = c.pool /\ one.count = c.count
          /\ one.transaction = 1
      BY <1>2 DEF Kept
    <3>2. x \in Lent!rollback(one)
      BY <1>10, <2>2 DEF Lent!rolledBack, T
    <3> HIDE DEF one
    <3>3. Kept(all) /\ all.transaction = 0 /\ (all.open => all.refused)
      BY <3>1 DEF Lent!Done, Conns, Kept
    <3>4. /\ Kept(Lent!Refused(one)) /\ Lent!Refused(one).transaction = 0
          /\ Lent!Refused(one).open => Lent!Refused(one).refused
      BY <3>1 DEF Lent!Refused, Conns, Kept
    <3>5. Kept(lost) /\ lost.transaction = 0 /\ (lost.open => lost.refused)
      BY <3>1 DEF Lent!Lost, Conns, Kept
    <3>6. Lent!rollback(one) = {all, Lent!Refused(one), lost}
      BY <3>1 DEF Lent!rollback
    <3> QED
      BY <3>2, <3>3, <3>5, <3>6, <3>4
  <2> QED
    BY <2>1, <2>2
<1> QED
  BY <1>7, <1>8, <1>9, <1>10 DEF Kept

\* No connection, no pool and no handle yet.
LEMMA DatabaseInit == Lent!Init => DatabaseInv
<1> SUFFICES ASSUME Lent!Init PROVE DatabaseInv
  OBVIOUS
<1>1. /\ Record(db) /\ db.conn = <<>> /\ db.free = [g \in Lent!Pools |-> <<>>]
      /\ db.captured = [g \in Lent!Pools |-> [t \in Threads |-> 0]] /\ db.listed = 0
      /\ db.made = 0 /\ db.mishaps = 0 /\ db.held = [t \in Threads |-> <<>>]
      /\ db.ask = [t \in Threads |-> 0]
  BY DEF Lent!Init, Lent!None, Record
<1>2. db.conn \in Seq(Conns) /\ DOMAIN db.conn = {}
  BY <1>1
<1>3. db \in Databases
  <2>1. db.free \in [Lent!Pools -> Seq(Nat)] /\ db.held \in [Threads -> Seq(Nat)]
    BY <1>1
  <2>2. db.captured \in [Lent!Pools -> [Threads -> Nat]] /\ db.ask \in [Threads -> Nat]
    BY <1>1
  <2>3. db.listed \in 0..MaxPools /\ db.made \in Nat /\ db.mishaps \in Nat
    BY <1>1, PoolsAssumption
  <2> QED
    BY <1>1, <1>2, <2>1, <2>2, <2>3, DatabaseIs
<1>4. Named(db)
  BY <1>1 DEF Named
<1>5. OneOwner(db) /\ NoneLeftOpen(db) /\ Counted(db, {})
  BY <1>2 DEF OneOwner, NoneLeftOpen, Counted
<1>6. FreeAreIdle(db)
  BY <1>1 DEF FreeAreIdle
<1> QED
  BY <1>3, <1>4, <1>5, <1>6 DEF DatabaseInv, But

\* A connection changes that keeps its pool and its count, and lies in no pool.
LEMMA ConnIsUsed ==
  ASSUME NEW d, But(d, {}), NEW e, Record(e), NEW i \in DOMAIN d.conn, NEW c \in Conns,
         e.conn = [d.conn EXCEPT ![i] = c],
         e.free = d.free, e.captured = d.captured, e.held = d.held, e.ask = d.ask,
         e.listed = d.listed, e.made = d.made, e.mishaps \in Nat,
         c.pool = d.conn[i].pool, c.count = d.conn[i].count,
         c.transaction = 0 => (c.open => c.refused),
         \/ c.transaction = d.conn[i].transaction
         \/ \A g \in Lent!Pools : \A p \in DOMAIN d.free[g] : d.free[g][p] # i
  PROVE  But(e, {})
<1>1. d \in Databases /\ FreeAreIdle(d)
  BY DEF But
<1>2. /\ d.listed \in 0..MaxPools /\ d.made \in Nat
  BY <1>1, DatabaseIs
<1>3. \A t \in Threads : Holds(d.held[t], i) <= c.count + (IF <<t, i>> \in {} THEN 1 ELSE 0)
  BY DEF But, Counted
<1>4. \A g \in Lent!Pools : \A p \in DOMAIN d.free[g] :
        d.free[g][p] = i => c.count = 0 /\ c.transaction = 0
  BY <1>1 DEF FreeAreIdle, IsIdle
<1>5. Changed(d, e, i, c, {}, {})
  BY <1>2, <1>3, <1>4 DEF Changed
<1> QED
  BY <1>5, ConnChanges

\* A session that is lost takes its transaction with it.
LEMMA LoseKeeps == ASSUME DatabaseInv, Lent!Lose PROVE DatabaseInv'
<1>1. /\ db \in Databases /\ Record(db) /\ db.mishaps \in Nat
  BY DatabaseIs DEF DatabaseInv, But
<1>2. PICK i \in DOMAIN db.conn :
        db' = [db EXCEPT !.conn[i] = Lent!Lost(@), !.mishaps = @ + 1]
  BY DEF Lent!Lose, Lent!Connections
<1> DEFINE c == Lent!Lost(db.conn[i])
<1>3. /\ c \in Conns /\ c.pool = db.conn[i].pool /\ c.count = db.conn[i].count
      /\ c.transaction = db.conn[i].transaction /\ (c.open => c.refused)
  BY <1>1, ConnIs DEF Lent!Lost, Conns
<1>4. /\ Record(db') /\ db'.conn = [db.conn EXCEPT ![i] = c] /\ db'.mishaps = db.mishaps + 1
      /\ db'.free = db.free /\ db'.captured = db.captured /\ db'.listed = db.listed
      /\ db'.made = db.made /\ db'.held = db.held /\ db'.ask = db.ask
  BY <1>1, <1>2 DEF Record
<1> HIDE DEF c
<1> QED
  BY <1>1, <1>3, <1>4, ConnIsUsed DEF DatabaseInv

\* What a thread has a handle of lies in no pool.
LEMMA OwnedIsNotFree ==
  ASSUME NEW d, NEW behind, But(d, behind), NEW t \in Threads, NEW i, Owns(d, t, i)
  PROVE  \A g \in Lent!Pools : \A p \in DOMAIN d.free[g] : d.free[g][p] # i
BY DEF But, FreeAreIdle, IsIdle

\* The connection of a handle.
LEMMA HandleIs ==
  ASSUME NEW d, But(d, {}), NEW t \in Threads, NEW h \in DOMAIN d.held[t]
  PROVE  /\ d.held[t] \in Seq(Nat) /\ h \in 1..Len(d.held[t])
         /\ d.held[t][h] \in DOMAIN d.conn /\ Owns(d, t, d.held[t][h])
         /\ \A u \in Threads : u # t => ~Owns(d, u, d.held[t][h])
         /\ \A g \in Lent!Pools : \A p \in DOMAIN d.free[g] : d.free[g][p] # d.held[t][h]
<1>1. d.held[t] \in Seq(Nat)
  BY DatabaseIs DEF But
<1>2. d.held[t][h] \in DOMAIN d.conn /\ Owns(d, t, d.held[t][h])
  BY DEF But, Named, Owns
<1>3. \A u \in Threads : u # t => ~Owns(d, u, d.held[t][h])
  BY <1>2 DEF But, OneOwner
<1> QED
  BY <1>1, <1>2, <1>3, OwnedIsNotFree

\* A connection with a handle is in no list, whatever its transactions do.
LEMMA UseKeeps ==
  ASSUME DatabaseInv, NEW t \in Threads, NEW h \in DOMAIN db.held[t], Lent!Use(t, h)
  PROVE  DatabaseInv'
<1> DEFINE i == db.held[t][h]
<1>1. /\ db \in Databases /\ Record(db) /\ But(db, {}) /\ NoneLeftOpen(db) /\ db.mishaps \in Nat
  BY DatabaseIs DEF DatabaseInv, But
<1>2. /\ i \in DOMAIN db.conn
      /\ \A g \in Lent!Pools : \A p \in DOMAIN db.free[g] : db.free[g][p] # i
  BY <1>1, HandleIs
<1>3. PICK c \in Lent!startTransaction(db.conn[i]) \cup Lent!commit(db.conn[i])
                   \cup Lent!rollback(db.conn[i]) : db' = [db EXCEPT !.conn[i] = c]
  BY DEF Lent!Use
<1>4. /\ db.conn[i] \in Conns
      /\ db.conn[i].transaction = 0 => (db.conn[i].open => db.conn[i].refused)
  BY <1>1, <1>2, ConnIs DEF NoneLeftOpen
<1>5. /\ c \in Conns /\ c.pool = db.conn[i].pool /\ c.count = db.conn[i].count
      /\ c.transaction = 0 => (c.open => c.refused)
  BY <1>3, <1>4, CallsKeep
<1>6. /\ Record(db') /\ db'.conn = [db.conn EXCEPT ![i] = c] /\ db'.mishaps = db.mishaps
      /\ db'.free = db.free /\ db'.captured = db.captured /\ db'.listed = db.listed
      /\ db'.made = db.made /\ db'.held = db.held /\ db'.ask = db.ask
  BY <1>1, <1>3 DEF Record
<1> HIDE DEF i
<1> QED
  BY <1>1, <1>2, <1>5, <1>6, ConnIsUsed DEF DatabaseInv

\* A pool that is opened is empty.
LEMMA OpenKeeps == ASSUME DatabaseInv, Lent!openPool PROVE DatabaseInv'
<1>1. /\ db \in Databases /\ Record(db) /\ But(db, {}) /\ db.made \in Nat
  BY DatabaseIs DEF DatabaseInv, But
<1>2. /\ Record(db') /\ db'.listed = db.made + 1 /\ db'.made = db.made + 1 /\ db.made < MaxPools
      /\ db'.free = db.free /\ db'.captured = db.captured /\ db'.conn = db.conn
      /\ db'.mishaps = db.mishaps /\ db'.held = db.held /\ db'.ask = db.ask
  BY <1>1 DEF Record, Lent!openPool
<1>3. db'.listed \in 0..MaxPools /\ db'.made \in Nat
  BY <1>1, <1>2, PoolsAssumption
<1>4. db' \in Databases
  BY <1>1, <1>2, <1>3, DatabaseIs
<1>5. Named(db') /\ Counted(db', {})
  BY <1>1, <1>2 DEF But, Named, Counted
<1>6. \A u, j : Owns(db', u, j) => Owns(db, u, j)
  BY <1>2 DEF Owns
<1> QED
  BY <1>1, <1>2, <1>4, <1>5, <1>6, LetsGo DEF DatabaseInv

\* A pool that is closed by force forgets what it has; what has handles stays theirs.
LEMMA CloseKeeps ==
  ASSUME DatabaseInv, NEW force \in BOOLEAN, Lent!closePool(force) PROVE DatabaseInv'
<1> DEFINE g == db.listed
<1>1. /\ db \in Databases /\ Record(db) /\ But(db, {}) /\ Named(db)
      /\ db.free \in [Lent!Pools -> Seq(Nat)] /\ db.captured \in [Lent!Pools -> [Threads -> Nat]]
      /\ db.listed \in 0..MaxPools
  BY DatabaseIs DEF DatabaseInv, But
<1>2. g \in Lent!Pools
  BY <1>1, PoolsAssumption DEF Lent!closePool, Lent!Pools, Lent!None
<1>3. /\ Record(db') /\ db'.listed = 0 /\ db'.made = db.made /\ db'.conn = db.conn
      /\ db'.free = [db.free EXCEPT ![g] = IF force THEN <<>> ELSE @]
      /\ db'.captured = [db.captured EXCEPT ![g] = IF force THEN [t \in Threads |-> 0] ELSE @]
      /\ db'.mishaps = db.mishaps /\ db'.held = db.held /\ db'.ask = db.ask
  BY <1>1 DEF Record, Lent!closePool, Lent!None
<1> HIDE DEF g
<1>4. /\ db'.free \in [Lent!Pools -> Seq(Nat)]
      /\ \A f \in Lent!Pools : db'.free[f] = db.free[f] \/ db'.free[f] = <<>>
  BY <1>1, <1>2, <1>3
<1>5. /\ db'.captured \in [Lent!Pools -> [Threads -> Nat]]
      /\ \A f \in Lent!Pools, u \in Threads :
           db'.captured[f][u] = db.captured[f][u] \/ db'.captured[f][u] = 0
  BY <1>1, <1>2, <1>3
<1>6. 0 \in 0..MaxPools
  BY PoolsAssumption
<1>7. db' \in Databases
  BY <1>1, <1>3, <1>4, <1>5, <1>6, DatabaseIs
<1>8. \A u \in Threads, j \in DOMAIN db.conn : Owns(db', u, j) => Owns(db, u, j)
  <2> SUFFICES ASSUME NEW u \in Threads, NEW j \in DOMAIN db.conn, Owns(db', u, j)
               PROVE  Owns(db, u, j)
    OBVIOUS
  <2>1. j # 0
    BY <1>1, ConnIs
  <2> QED
    BY <1>3, <1>5, <2>1 DEF Owns
<1>9. Named(db')
  <2>1. ASSUME NEW f \in Lent!Pools, NEW u \in Threads, db'.captured[f][u] # 0
        PROVE  db'.captured[f][u] \in DOMAIN db.conn /\ db.conn[db'.captured[f][u]].pool = f
    <3>1. db'.captured[f][u] = db.captured[f][u]
      BY <1>5, <2>1
    <3> QED
      BY <1>1, <2>1, <3>1 DEF Named
  <2> QED
    BY <1>1, <1>3, <2>1 DEF Named
<1>10. Counted(db', {})
  BY <1>1, <1>3 DEF But, Counted
<1> QED
  BY <1>1, <1>3, <1>4, <1>7, <1>8, <1>9, <1>10, LetsGo DEF DatabaseInv

\* A handle is made of a connection that no other thread has and that is not free.
LEMMA HoldKeeps ==
  ASSUME NEW d, But(d, {}), NEW t \in Threads, NEW i \in DOMAIN d.conn, NEW g,
         g = d.conn[i].pool, \A u \in Threads : u # t => ~Owns(d, u, i),
         \A f \in Lent!Pools : \A p \in DOMAIN d.free[f] : d.free[f][p] # i
  PROVE  But(Lent!Hold(d, t, g, i), {})
<1> SUFFICES ASSUME NEW e, e = Lent!Hold(d, t, g, i) PROVE But(e, {})
  OBVIOUS
<1> DEFINE c == [d.conn[i] EXCEPT !.count = @ + 1]
           row == [d.captured[g] EXCEPT ![t] = IF @ = 0 THEN i ELSE @]
<1>1. /\ d \in Databases /\ Record(d) /\ d.conn \in Seq(Conns) /\ d.held \in [Threads -> Seq(Nat)]
      /\ d.captured \in [Lent!Pools -> [Threads -> Nat]] /\ d.ask \in [Threads -> Nat]
  BY DatabaseIs DEF But
<1>2. /\ d.conn[i] \in Conns /\ g \in Lent!Pools /\ i \in Nat \ {0} /\ d.conn[i].count \in Int
  BY <1>1, ConnIs
<1>3. c \in Conns
  BY <1>2 DEF Conns
<1>4. /\ Record(e) /\ e.conn = [d.conn EXCEPT ![i] = c] /\ e.free = d.free
      /\ e.held = [d.held EXCEPT ![t] = Append(d.held[t], i)]
      /\ e.ask = [d.ask EXCEPT ![t] = 0]
      /\ e.captured = [d.captured EXCEPT ![g] = row]
      /\ e.listed = d.listed /\ e.made = d.made /\ e.mishaps = d.mishaps
  BY <1>1, <1>2 DEF Record, Lent!Hold, Lent!None
<1>5. row \in [Threads -> Nat] /\
      \A u \in Threads : row[u] = d.captured[g][u] \/ (u = t /\ row[u] = i)
  <2>1. d.captured[g] \in [Threads -> Nat]
    BY <1>1, <1>2
  <2> QED
    BY <1>2, <2>1
<1> HIDE DEF row
<1>6. /\ e.captured \in [Lent!Pools -> [Threads -> Nat]]
      /\ \A f \in Lent!Pools, u \in Threads :
           \/ e.captured[f][u] = d.captured[f][u]
           \/ u = t /\ e.captured[f][u] = i /\ d.conn[i].pool = f
  BY <1>1, <1>2, <1>4, <1>5
<1>7. /\ e.ask \in [Threads -> Nat] /\ \A u \in Threads : e.ask[u] = d.ask[u] \/ e.ask[u] = 0
  BY <1>1, <1>4
<1>8. c = [d.conn[i] EXCEPT !.count = @ + 1]
  OBVIOUS
<1> HIDE DEF c
<1>9. Gained(d, e, t, i, c)
  BY <1>3, <1>4, <1>6, <1>7, <1>8 DEF Gained
<1> QED
  BY <1>3, <1>4, <1>9, Gains

\* A thread lets go of what it asked for.
LEMMA NotAsked ==
  ASSUME NEW d, But(d, {}), NEW t \in Threads
  PROVE  But([d EXCEPT !.ask[t] = Lent!None], {})
<1> SUFFICES ASSUME NEW e, e = [d EXCEPT !.ask[t] = Lent!None] PROVE But(e, {})
  OBVIOUS
<1>1. /\ d \in Databases /\ Record(d) /\ d.conn \in Seq(Conns) /\ d.ask \in [Threads -> Nat]
      /\ Named(d)
  BY DatabaseIs DEF But
<1>2. /\ Record(e) /\ e.conn = d.conn /\ e.free = d.free /\ e.captured = d.captured
      /\ e.held = d.held /\ e.ask = [d.ask EXCEPT ![t] = 0] /\ e.listed = d.listed
      /\ e.made = d.made /\ e.mishaps = d.mishaps
  BY <1>1 DEF Record, Lent!None
<1>3. e.ask \in [Threads -> Nat] /\ \A u \in Threads : e.ask[u] = d.ask[u] \/ e.ask[u] = 0
  BY <1>1, <1>2
<1>4. e \in Databases
  BY <1>1, <1>2, <1>3, DatabaseIs
<1>5. Named(e)
  BY <1>1, <1>2, <1>3 DEF Named
<1>6. \A u \in Threads, j \in DOMAIN d.conn : Owns(e, u, j) => Owns(d, u, j)
  <2> TAKE u \in Threads, j \in DOMAIN d.conn
  <2>1. j # 0
    BY <1>1, ConnIs
  <2> QED
    BY <1>2, <1>3, <2>1 DEF Owns
<1>7. Counted(e, {})
  BY <1>2 DEF But, Counted
<1> QED
  BY <1>2, <1>4, <1>5, <1>6, <1>7, LetsGo

\* A thread takes the first of the free connections, makes one, or gets none.
LEMMA FromPoolKeeps ==
  ASSUME NEW d, But(d, {}), NEW t \in Threads, NEW g \in Lent!Pools,
         NEW e \in Lent!FromPool(d, t, g)
  PROVE  But(e, {})
<1>1. /\ d \in Databases /\ Record(d) /\ d.conn \in Seq(Conns) /\ d.ask \in [Threads -> Nat]
      /\ d.captured \in [Lent!Pools -> [Threads -> Nat]] /\ d.free \in [Lent!Pools -> Seq(Nat)]
      /\ FreeAreIdle(d)
  BY DatabaseIs DEF But
<1>2. CASE d.free[g] # <<>>
  <2> DEFINE i == Head(d.free[g])
  <2>1. /\ Record(e) /\ e.conn = d.conn /\ e.free = [d.free EXCEPT ![g] = Tail(d.free[g])]
        /\ e.captured = d.captured /\ e.held = d.held /\ e.ask = [d.ask EXCEPT ![t] = i]
        /\ e.listed = d.listed /\ e.made = d.made /\ e.mishaps = d.mishaps
    <3>1. e = [d EXCEPT !.free[g] = Tail(@), !.ask[t] = Head(d.free[g])]
      BY <1>2 DEF Lent!FromPool
    <3> QED
      BY <1>1, <3>1 DEF Record
  <2>2. 1 \in DOMAIN d.free[g] /\ i = d.free[g][1] /\ Tail(d.free[g]) \in Seq(Nat)
    <3>1. d.free[g] \in Seq(Nat) /\ d.free[g] # <<>>
      BY <1>1, <1>2
    <3> QED
      BY <3>1
  <2> HIDE DEF i
  <2>3. IsIdle(d, g, i)
    BY <1>1, <2>2 DEF FreeAreIdle
  <2>4. /\ e.free \in [Lent!Pools -> Seq(Nat)] /\ e.free[g] = Tail(d.free[g])
        /\ \A f \in Lent!Pools : f # g => e.free[f] = d.free[f]
    BY <1>1, <2>1, <2>2
  <2>5. \A f \in Lent!Pools : f # g => \A p \in DOMAIN d.free[f] : d.free[f][p] # i
    BY <1>1, <2>3 DEF FreeAreIdle, IsIdle
  <2>6. /\ i \in DOMAIN d.conn /\ \A u \in Threads : ~Owns(d, u, i)
    BY <2>3 DEF IsIdle
  <2>7. \A f \in Lent!Pools :
          \/ e.free[f] = d.free[f] /\ \A p \in DOMAIN d.free[f] : d.free[f][p] # i
          \/ d.free[f] # <<>> /\ i = Head(d.free[f]) /\ e.free[f] = Tail(d.free[f])
    BY <1>2, <2>4, <2>5 DEF i
  <2>8. \A f \in Lent!Pools, u \in Threads :
          e.captured[f][u] = d.captured[f][u] \/ e.captured[f][u] = 0
    BY <2>1
  <2>9. e.captured \in [Lent!Pools -> [Threads -> Nat]]
    BY <1>1, <2>1
  <2>10. Asks(d, e, t, i)
    BY <2>1, <2>4, <2>6, <2>7, <2>8, <2>9 DEF Asks
  <2> QED
    BY <2>1, <2>6, <2>10, IsAsked
<1>3. CASE d.free[g] = <<>>
  <2>1. CASE e = [d EXCEPT !.ask[t] = Lent!None]
    BY <2>1, NotAsked
  <2>2. CASE e # [d EXCEPT !.ask[t] = Lent!None]
    <3> DEFINE c == Lent!New(g)
               i == Len(d.conn) + 1
    <3>1. PICK m : m = [d EXCEPT !.conn = Append(@, c)]
      OBVIOUS
    <3>2. e = Lent!Hold(m, t, g, i)
      BY <1>3, <2>2, <3>1 DEF Lent!FromPool
    <3>3. c \in Conns /\ c.pool = g /\ c.count = 0 /\ c.transaction = 0 /\ (c.open => c.refused)
      BY DEF Lent!New, Conns
    <3> HIDE DEF c
    <3>4. /\ Record(m) /\ m.conn = Append(d.conn, c) /\ m.free = d.free /\ m.held = d.held
          /\ m.captured = d.captured /\ m.ask = d.ask /\ m.listed = d.listed
          /\ m.made = d.made /\ m.mishaps = d.mishaps
      BY <1>1, <3>1 DEF Record
    <3>5. /\ But(m, {}) /\ i \in DOMAIN m.conn /\ m.conn[i] = c
          /\ \A u \in Threads : ~Owns(m, u, i)
          /\ \A f \in Lent!Pools : \A p \in DOMAIN d.free[f] : d.free[f][p] # i
      BY <3>3, <3>4, ConnIsMade
    <3> HIDE DEF i
    <3> QED
      BY <3>2, <3>3, <3>4, <3>5, HoldKeeps
  <2> QED
    BY <2>1, <2>2
<1> QED
  BY <1>2, <1>3

\* A thread asks for what it has captured before, or for one of the pool's.
LEMMA CaptureKeeps ==
  ASSUME DatabaseInv, NEW t \in Threads, Lent!captureDbConnection(t) PROVE DatabaseInv'
<1> DEFINE g == db.listed
           own == db.captured[g][t]
<1>1. /\ db \in Databases /\ Record(db) /\ But(db, {}) /\ Named(db) /\ OneOwner(db)
      /\ db.conn \in Seq(Conns) /\ db.free \in [Lent!Pools -> Seq(Nat)]
      /\ db.captured \in [Lent!Pools -> [Threads -> Nat]] /\ db.listed \in 0..MaxPools
  BY DatabaseIs DEF DatabaseInv, But
<1>2. g \in Lent!Pools
  BY <1>1, PoolsAssumption DEF Lent!captureDbConnection, Lent!Pools, Lent!None
<1>3. CASE own # 0
  <2>1. db' = [db EXCEPT !.captured[g][t] = 0, !.ask[t] = own]
    BY <1>3 DEF Lent!captureDbConnection, Lent!None
  <2>2. /\ Record(db') /\ db'.conn = db.conn /\ db'.free = db.free /\ db'.held = db.held
        /\ db'.captured = [db.captured EXCEPT ![g] = [db.captured[g] EXCEPT ![t] = 0]]
        /\ db'.ask = [db.ask EXCEPT ![t] = own] /\ db'.listed = db.listed
        /\ db'.made = db.made /\ db'.mishaps = db.mishaps
    BY <1>1, <1>2, <2>1 DEF Record
  <2>3. own \in DOMAIN db.conn /\ Owns(db, t, own)
    BY <1>1, <1>2, <1>3 DEF Named, Owns
  <2>4. \A u \in Threads : u # t => ~Owns(db, u, own)
    BY <1>1, <2>3 DEF OneOwner
  <2>5. \A f \in Lent!Pools : \A p \in DOMAIN db.free[f] : db.free[f][p] # own
    BY <1>1, <2>3, OwnedIsNotFree
  <2>6. /\ db'.captured \in [Lent!Pools -> [Threads -> Nat]]
        /\ \A f \in Lent!Pools, u \in Threads :
             db'.captured[f][u] = db.captured[f][u] \/ db'.captured[f][u] = 0
    BY <1>1, <1>2, <2>2
  <2> HIDE DEF own
  <2>7. Asks(db, db', t, own)
    BY <1>1, <2>2, <2>4, <2>5, <2>6 DEF Asks
  <2> QED
    BY <1>1, <2>2, <2>3, <2>7, IsAsked DEF DatabaseInv
<1>4. CASE own = 0
  <2>1. db' \in Lent!FromPool(db, t, g)
    BY <1>4 DEF Lent!captureDbConnection, Lent!None
  <2> QED
    BY <1>1, <1>2, <2>1, FromPoolKeeps DEF DatabaseInv
<1> QED
  BY <1>3, <1>4

\* A connection that lives, or lives again, becomes a handle; one that does not is dropped.
LEMMA AskedKeeps ==
  ASSUME DatabaseInv, NEW t \in Threads, Lent!Asked(t) PROVE DatabaseInv'
<1> DEFINE i == db.ask[t]
           g == db.conn[i].pool
<1>1. /\ db \in Databases /\ Record(db) /\ But(db, {}) /\ Named(db) /\ OneOwner(db)
      /\ NoneLeftOpen(db) /\ db.conn \in Seq(Conns) /\ db.mishaps \in Nat
  BY DatabaseIs DEF DatabaseInv, But
<1>2. /\ i \in DOMAIN db.conn /\ Owns(db, t, i)
  BY <1>1 DEF Lent!Asked, Lent!None, Named, Owns
<1>3. g \in Lent!Pools /\ db.conn[i] \in Conns
  BY <1>1, <1>2, ConnIs
<1>4. CASE ~db.conn[i].up /\ \E d \in Lent!FromPool(db, t, g) : db' = d
  BY <1>1, <1>3, <1>4, FromPoolKeeps DEF DatabaseInv
<1>5. CASE db' = Lent!Hold([db EXCEPT !.conn[i].up = TRUE], t, g, i)
  <2> DEFINE c == [db.conn[i] EXCEPT !.up = TRUE]
  <2>1. PICK m : m = [db EXCEPT !.conn[i].up = TRUE]
    OBVIOUS
  <2>2. /\ c \in Conns /\ c.pool = g /\ c.count = db.conn[i].count
        /\ c.transaction = db.conn[i].transaction /\ c.open = db.conn[i].open
      /\ c.refused = db.conn[i].refused
    BY <1>3 DEF Conns
  <2>3. /\ Record(m) /\ m.conn = [db.conn EXCEPT ![i] = c] /\ m.free = db.free
        /\ m.held = db.held /\ m.captured = db.captured /\ m.ask = db.ask
        /\ m.listed = db.listed /\ m.made = db.made /\ m.mishaps = db.mishaps
    BY <1>1, <2>1 DEF Record
  <2>4. c.transaction = 0 => (c.open => c.refused)
    BY <1>1, <1>2, <2>2 DEF NoneLeftOpen
  <2> HIDE DEF c
  <2>5. But(m, {})
    BY <1>1, <1>2, <2>2, <2>3, <2>4, ConnIsUsed
  <2>6. \A u : Owns(m, u, i) <=> Owns(db, u, i)
    BY <2>3 DEF Owns
  <2>7. \A u \in Threads : u # t => ~Owns(m, u, i)
    BY <1>1, <1>2, <2>6 DEF OneOwner
  <2>8. \A f \in Lent!Pools : \A p \in DOMAIN m.free[f] : m.free[f][p] # i
    BY <1>1, <1>2, <2>3, OwnedIsNotFree
  <2>9. i \in DOMAIN m.conn /\ m.conn[i].pool = g
    BY <1>1, <1>2, <2>2, <2>3
  <2>10. But(Lent!Hold(m, t, g, i), {})
    BY <2>5, <2>7, <2>8, <2>9, HoldKeeps
  <2>11. db' = Lent!Hold(m, t, g, i)
    BY <1>5, <2>1
  <2> QED
    BY <2>10, <2>11 DEF DatabaseInv
<1> QED
  BY <1>4, <1>5 DEF Lent!Asked

\* A handle that is copied is of the thread that had it.
LEMMA CopyKeeps ==
  ASSUME DatabaseInv, NEW t \in Threads, NEW h \in DOMAIN db.held[t], Lent!Copy(t, h)
  PROVE  DatabaseInv'
<1> DEFINE i == db.held[t][h]
           c == [db.conn[i] EXCEPT !.count = @ + 1]
<1>1. /\ db \in Databases /\ Record(db) /\ But(db, {}) /\ db.conn \in Seq(Conns)
      /\ db.captured \in [Lent!Pools -> [Threads -> Nat]] /\ db.ask \in [Threads -> Nat]
      /\ db.held \in [Threads -> Seq(Nat)]
  BY DatabaseIs DEF DatabaseInv, But
<1>2. /\ i \in DOMAIN db.conn /\ \A u \in Threads : u # t => ~Owns(db, u, i)
      /\ \A g \in Lent!Pools : \A p \in DOMAIN db.free[g] : db.free[g][p] # i
  BY <1>1, HandleIs
<1>3. c \in Conns
  <2>1. db.conn[i] \in Conns /\ db.conn[i].count \in Int
    BY <1>1, <1>2, ConnIs
  <2> QED
    BY <2>1 DEF Conns
<1>4. /\ Record(db') /\ db'.conn = [db.conn EXCEPT ![i] = c] /\ db'.free = db.free
      /\ db'.held = [db.held EXCEPT ![t] = Append(db.held[t], i)] /\ db'.captured = db.captured
      /\ db'.ask = db.ask /\ db'.listed = db.listed /\ db'.made = db.made
      /\ db'.mishaps = db.mishaps
  BY <1>1 DEF Record, Lent!Copy
<1>5. c = [db.conn[i] EXCEPT !.count = @ + 1]
  OBVIOUS
<1> HIDE DEF c, i
<1>6. Gained(db, db', t, i, c)
  BY <1>1, <1>2, <1>4, <1>5 DEF Gained
<1> QED
  BY <1>1, <1>2, <1>3, <1>4, <1>6, Gains DEF DatabaseInv

\* A thread's handles change, without one of a connection it had none of.
Regrouped(d, e, t, s, still) ==
  /\ e.held = [d.held EXCEPT ![t] = s] /\ e.conn = d.conn /\ e.free = d.free
  /\ e.captured = d.captured /\ e.ask = d.ask /\ e.listed = d.listed /\ e.made = d.made
  /\ e.mishaps \in Nat
  /\ \A k \in DOMAIN s : \E h \in DOMAIN d.held[t] : s[k] = d.held[t][h]
  /\ \A j : Holds(s, j) <= Holds(d.held[t], j) + (IF <<t, j>> \in still THEN 1 ELSE 0)

\* The thread owns no more than before.
LEMMA HandlesChange ==
  ASSUME NEW d, But(d, {}), NEW e, Record(e), NEW t \in Threads, NEW s \in Seq(Nat), NEW still,
         Regrouped(d, e, t, s, still)
  PROVE  But(e, still)
<1> USE DEF Regrouped
<1>1. /\ d \in Databases /\ Record(d) /\ Named(d) /\ Counted(d, {})
      /\ d.held \in [Threads -> Seq(Nat)]
  BY DatabaseIs DEF But
<1>2. /\ e.held \in [Threads -> Seq(Nat)] /\ e.held[t] = s
      /\ \A u \in Threads : u # t => e.held[u] = d.held[u]
  BY <1>1
<1>3. e \in Databases
  BY <1>1, <1>2, DatabaseIs
<1>4. \A u \in Threads : \A k \in DOMAIN e.held[u] :
        \E h \in DOMAIN d.held[u] : e.held[u][k] = d.held[u][h]
  BY <1>2
<1>5. \A u \in Threads, j \in DOMAIN d.conn : Owns(e, u, j) => Owns(d, u, j)
  BY <1>4 DEF Owns
<1>6. Named(e)
  <2>1. \A u \in Threads : \A h \in DOMAIN e.held[u] : e.held[u][h] \in DOMAIN e.conn
    BY <1>1, <1>4 DEF Named
  <2> QED
    BY <1>1, <2>1 DEF Named
<1>7. Counted(e, still)
  <2> SUFFICES ASSUME NEW u \in Threads, NEW j \in DOMAIN d.conn
               PROVE  Holds(e.held[u], j) <= e.conn[j].count + (IF <<u, j>> \in still THEN 1 ELSE 0)
    BY DEF Counted
  <2>1. Holds(d.held[u], j) <= d.conn[j].count + 0
    BY <1>1 DEF Counted
  <2>2. Holds(d.held[u], j) \in Nat /\ Holds(e.held[u], j) \in Nat /\ d.conn[j].count \in Int
    BY <1>1, <1>2, HoldsIsNumber, ConnIs
  <2>3. Holds(e.held[u], j) <= Holds(d.held[u], j) + (IF <<u, j>> \in still THEN 1 ELSE 0)
    BY <1>2, <2>2
  <2>4. (IF <<u, j>> \in still THEN 1 ELSE 0) \in Nat
    OBVIOUS
  <2> QED
    BY <2>1, <2>2, <2>3, <2>4
<1> QED
  BY <1>3, <1>5, <1>6, <1>7, LetsGo

\* What a thread holds when one of its handles is gone.
LEMMA HandlesLess ==
  ASSUME NEW s \in Seq(Nat), NEW h \in DOMAIN s
  PROVE  /\ Lent!Removed(s, h) \in Seq(Nat)
         /\ \A k \in DOMAIN Lent!Removed(s, h) : \E x \in DOMAIN s : Lent!Removed(s, h)[k] = s[x]
         /\ \A j : Holds(Lent!Removed(s, h), j) <= Holds(s, j) - (IF s[h] = j THEN 1 ELSE 0)
<1>1. h \in 1..Len(s) /\ DOMAIN s = 1..Len(s) /\ Len(s) \in Nat
  OBVIOUS
<1>2. /\ Lent!Removed(s, h) \in Seq(Nat) /\ Len(Lent!Removed(s, h)) = Len(s) - 1
      /\ \A k \in 1..(Len(s) - 1) : Lent!Removed(s, h)[k] = IF k < h THEN s[k] ELSE s[k + 1]
  BY <1>1, RemovedIsSeq
<1>3. ASSUME NEW k \in DOMAIN Lent!Removed(s, h)
      PROVE  \E x \in DOMAIN s : Lent!Removed(s, h)[k] = s[x]
  <2>1. k \in 1..(Len(s) - 1)
    BY <1>2
  <2>2. k \in DOMAIN s /\ k + 1 \in DOMAIN s
    BY <1>1, <2>1
  <2> QED
    BY <1>2, <2>1, <2>2
<1>4. \A j : Holds(Lent!Removed(s, h), j) <= Holds(s, j) - (IF s[h] = j THEN 1 ELSE 0)
  BY <1>1, HoldsLess
<1> QED
  BY <1>2, <1>3, <1>4

\* What a thread holds when one of its handles is assigned another.
LEMMA HandlesOther ==
  ASSUME NEW s \in Seq(Nat), NEW h \in DOMAIN s, NEW from \in DOMAIN s
  PROVE  /\ [s EXCEPT ![h] = s[from]] \in Seq(Nat)
         /\ DOMAIN [s EXCEPT ![h] = s[from]] = DOMAIN s
         /\ \A k \in DOMAIN s : \E x \in DOMAIN s : [s EXCEPT ![h] = s[from]][k] = s[x]
         /\ h # from => [s EXCEPT ![h] = s[from]][from] = s[from]
         /\ \A j : Holds([s EXCEPT ![h] = s[from]], j)
                     = Holds(s, j) - (IF s[h] = j THEN 1 ELSE 0) + (IF j = s[from] THEN 1 ELSE 0)
<1>1. h \in 1..Len(s) /\ s[from] \in Nat
  OBVIOUS
<1>2. /\ [s EXCEPT ![h] = s[from]] \in Seq(Nat)
      /\ \A j : Holds([s EXCEPT ![h] = s[from]], j)
                  = Holds(s, j) - (IF s[h] = j THEN 1 ELSE 0) + (IF j = s[from] THEN 1 ELSE 0)
  BY <1>1, HoldsOther
<1>3. \A k \in DOMAIN s : [s EXCEPT ![h] = s[from]][k] = IF k = h THEN s[from] ELSE s[k]
  OBVIOUS
<1>4. \A k \in DOMAIN s : \E x \in DOMAIN s : [s EXCEPT ![h] = s[from]][k] = s[x]
  <2> TAKE k \in DOMAIN s
  <2>1. CASE k = h
    <3> WITNESS from \in DOMAIN s
    <3> QED
      BY <1>3, <2>1
  <2>2. CASE k # h
    <3> WITNESS k \in DOMAIN s
    <3> QED
      BY <1>3, <2>2
  <2> QED
    BY <2>1, <2>2
<1> QED
  BY <1>2, <1>3, <1>4

\* The count of what is overwritten stays too high, never too low.
LEMMA MoveAssignKeeps ==
  ASSUME DatabaseInv, NEW t \in Threads, NEW h \in DOMAIN db.held[t],
         NEW from \in DOMAIN db.held[t], Lent!MoveAssign(t, h, from)
  PROVE  DatabaseInv'
<1> DEFINE s == db.held[t]
           x == [s EXCEPT ![h] = s[from]]
           y == Lent!Removed(x, from)
<1>1. /\ db \in Databases /\ Record(db) /\ But(db, {}) /\ db.held \in [Threads -> Seq(Nat)]
      /\ db.mishaps \in Nat /\ s \in Seq(Nat) /\ h # from
  BY DatabaseIs DEF DatabaseInv, But, Lent!MoveAssign
<1>2. /\ Record(db') /\ db'.held = [db.held EXCEPT ![t] = y] /\ db'.mishaps = db.mishaps + 1
      /\ db'.conn = db.conn /\ db'.free = db.free /\ db'.captured = db.captured
      /\ db'.ask = db.ask /\ db'.listed = db.listed /\ db'.made = db.made
  BY <1>1 DEF Record, Lent!MoveAssign
<1> HIDE DEF s
<1>3. h \in DOMAIN s /\ from \in DOMAIN s
  BY DEF s
<1>4. /\ x \in Seq(Nat) /\ DOMAIN x = DOMAIN s
      /\ \A k \in DOMAIN s : \E z \in DOMAIN s : x[k] = s[z]
      /\ x[from] = s[from]
      /\ \A j : Holds(x, j) = Holds(s, j) - (IF s[h] = j THEN 1 ELSE 0)
                                + (IF j = s[from] THEN 1 ELSE 0)
  BY <1>1, <1>3, HandlesOther
<1> HIDE DEF x
<1>5. /\ y \in Seq(Nat) /\ \A k \in DOMAIN y : \E z \in DOMAIN x : y[k] = x[z]
      /\ \A j : Holds(y, j) <= Holds(x, j) - (IF x[from] = j THEN 1 ELSE 0)
  BY <1>3, <1>4, HandlesLess
<1> HIDE DEF y
<1>6. \A k \in DOMAIN y : \E z \in DOMAIN s : y[k] = s[z]
  BY <1>4, <1>5
<1>7. \A j : Holds(y, j) <= Holds(s, j) + (IF <<t, j>> \in {} THEN 1 ELSE 0)
  <2> TAKE j
  <2>1. Holds(x, j) \in Nat /\ Holds(y, j) \in Nat /\ Holds(s, j) \in Nat
    BY <1>1, <1>4, <1>5, HoldsIsNumber
  <2>2. Holds(y, j) <= Holds(x, j) - (IF s[from] = j THEN 1 ELSE 0)
    BY <1>4, <1>5
  <2>3. Holds(x, j) = Holds(s, j) - (IF s[h] = j THEN 1 ELSE 0) + (IF j = s[from] THEN 1 ELSE 0)
    BY <1>4
  <2> QED
    BY <2>1, <2>2, <2>3
<1>8. Regrouped(db, db', t, y, {})
  BY <1>1, <1>2, <1>6, <1>7 DEF Regrouped, s
<1> QED
  BY <1>1, <1>2, <1>5, <1>8, HandlesChange DEF DatabaseInv

\* A thread's handle of a connection is gone: release().
MayRelease(d, behind, t, i) ==
  /\ d.ask[t] = 0 /\ \A u \in Threads : u # t => ~Owns(d, u, i)
  /\ \A f \in Lent!Pools : \A p \in DOMAIN d.free[f] : d.free[f][p] # i
  /\ d.conn[i].count > 0 /\ (<<t, i>> \in behind => d.conn[i].count > 1)
  /\ Holds(d.held[t], i) <= d.conn[i].count - 1 + (IF <<t, i>> \in behind THEN 1 ELSE 0)

\* With the last handle a connection is rolled back and goes to its pool's front.
LEMMA ReleaseKeeps ==
  ASSUME NEW d, NEW behind, But(d, behind), NEW t \in Threads, NEW i \in DOMAIN d.conn,
         MayRelease(d, behind, t, i), NEW e \in Lent!release(d, t, i)
  PROVE  /\ But(e, behind) /\ Record(e) /\ e.held = d.held /\ DOMAIN e.conn = DOMAIN d.conn
<1> USE DEF MayRelease
<1>1. PICK less : less = [d EXCEPT !.conn[i].count = @ - 1]
  OBVIOUS
<1> DEFINE g == d.conn[i].pool
           b == [d.conn[i] EXCEPT !.count = @ - 1]
<1>2. /\ d \in Databases /\ Record(d) /\ d.conn \in Seq(Conns) /\ NoneLeftOpen(d)
      /\ d.free \in [Lent!Pools -> Seq(Nat)] /\ d.held \in [Threads -> Seq(Nat)]
      /\ d.captured \in [Lent!Pools -> [Threads -> Nat]]
      /\ d.listed \in 0..MaxPools /\ d.made \in Nat /\ d.mishaps \in Nat
  BY DatabaseIs DEF But
<1>3. /\ d.conn[i] \in Conns /\ g \in Lent!Pools /\ d.conn[i].count \in Int
      /\ d.conn[i].transaction \in Nat
  BY <1>2, ConnIs
<1>4. /\ b \in Conns /\ b.pool = g /\ b.count = d.conn[i].count - 1
      /\ b.transaction = d.conn[i].transaction /\ b.open = d.conn[i].open
      /\ b.refused = d.conn[i].refused
  BY <1>3 DEF Conns
<1>5. /\ Record(less) /\ less.conn = [d.conn EXCEPT ![i] = b] /\ less.free = d.free
      /\ less.captured = d.captured /\ less.held = d.held /\ less.ask = d.ask
      /\ less.listed = d.listed /\ less.made = d.made /\ less.mishaps = d.mishaps
  BY <1>1, <1>2 DEF Record
<1> HIDE DEF b
<1>6. \A u \in Threads : Holds(d.held[u], i) <= b.count + (IF <<u, i>> \in behind THEN 1 ELSE 0)
  <2> TAKE u \in Threads
  <2>1. CASE u = t
    BY <1>4, <2>1
  <2>2. CASE u # t
    <3>1. \A h \in DOMAIN d.held[u] : d.held[u][h] # i
      BY <2>2 DEF Owns
    <3>2. Holds(d.held[u], i) = 0
      BY <1>2, <3>1, HoldsNone
    <3>3. b.count \in Int /\ b.count >= 0
      BY <1>3, <1>4
    <3> QED
      BY <3>2, <3>3
  <2> QED
    BY <2>1, <2>2
<1>7. b.transaction = 0 => (b.open => b.refused)
  BY <1>2, <1>4 DEF NoneLeftOpen
<1>8. But(less, behind)
  <2>1. Changed(d, less, i, b, behind, behind)
    BY <1>2, <1>4, <1>5, <1>6, <1>7 DEF Changed
  <2> QED
    BY <1>4, <1>5, <2>1, ConnChanges
<1>9. /\ less.conn \in Seq(Conns) /\ DOMAIN less.conn = DOMAIN d.conn /\ less.conn[i] = b
  BY <1>2, <1>4, <1>5
<1>10. CASE e = less
  BY <1>5, <1>8, <1>9, <1>10
<1>11. CASE e # less
  <2>1. less.conn[i].count = 0 /\ e \in Lent!Returned(less, t, i)
    BY <1>1, <1>11 DEF Lent!release
  <2>2. PICK c \in Lent!rolledBack(b) :
          e = [less EXCEPT !.conn[i] = c, !.captured[g][t] = 0, !.free[g] = <<i>> \o @]
    <3>1. less.conn[i] = b /\ less.conn[i].pool = g
      BY <1>4, <1>9
    <3>2. e \in {[less EXCEPT !.conn[i] = c, !.captured[less.conn[i].pool][t] = 0,
                              !.free[less.conn[i].pool] = <<i>> \o @] :
                    c \in Lent!rolledBack(less.conn[i])}
      BY <1>11, <2>1 DEF Lent!Returned, Lent!None
    <3> HIDE DEF g
    <3> QED
      BY <3>1, <3>2
  <2>3. /\ c \in Conns /\ c.pool = g /\ c.count = 0 /\ c.transaction = 0 /\ (c.open => c.refused)
    BY <1>4, <1>7, <1>9, <2>1, CallsKeep
  <2>4. PICK s : s = <<i>> \o d.free[g]
    OBVIOUS
  <2>5. /\ Record(e) /\ e.conn = [less.conn EXCEPT ![i] = c]
        /\ e.free = [less.free EXCEPT ![g] = s]
        /\ e.captured = [less.captured EXCEPT ![g] = [less.captured[g] EXCEPT ![t] = 0]]
        /\ e.held = less.held /\ e.ask = less.ask /\ e.listed = less.listed
        /\ e.made = less.made /\ e.mishaps = less.mishaps
    BY <1>2, <1>3, <1>5, <2>2, <2>4 DEF Record
  <2>6. \A h \in DOMAIN d.held[t] : d.held[t][h] # i
    <3>1. d.conn[i].count - 1 = 0
      BY <1>4, <1>9, <2>1
    <3>2. <<t, i>> \notin behind
      BY <1>3, <3>1
    <3>3. Holds(d.held[t], i) \in Nat
      BY <1>2, HoldsIsNumber
    <3>4. Holds(d.held[t], i) = 0
      BY <3>1, <3>2, <3>3
    <3> QED
      BY <1>2, <3>4, HoldsNone
  <2>7. \A u : Owns(less, u, i) <=> Owns(d, u, i)
    BY <1>5 DEF Owns
  <2>8. GoneBack(less, e, t, i, c, g, s)
    <3>1. less.conn[i].pool = g /\ less.conn[i].count = 0
      BY <1>4, <1>9, <2>1
    <3>2. less.ask[t] = 0 /\ \A u \in Threads : u # t => ~Owns(less, u, i)
      BY <1>5, <2>7
    <3>3. \A f \in Lent!Pools : \A p \in DOMAIN less.free[f] : less.free[f][p] # i
      BY <1>5
    <3>4. s = <<i>> \o less.free[g] /\ \A h \in DOMAIN less.held[t] : less.held[t][h] # i
      BY <1>5, <2>4, <2>6
    <3> HIDE DEF g
    <3> QED
      BY <2>3, <2>5, <3>1, <3>2, <3>3, <3>4 DEF GoneBack
  <2>9. But(e, behind)
    BY <1>3, <1>8, <1>9, <2>3, <2>5, <2>8, GoesBack
  <2> QED
    BY <1>5, <1>9, <2>5, <2>9
<1> QED
  BY <1>10, <1>11

\* Two handles of a connection count twice.
LEMMA HoldsSome ==
  ASSUME NEW s \in Seq(Nat), NEW h \in DOMAIN s
  PROVE  /\ Holds(s, s[h]) >= 1
         /\ \A from \in DOMAIN s : from # h /\ s[from] = s[h] => Holds(s, s[h]) >= 2
<1>1. Holds(s, s[h]) \in Nat /\ Holds(s, s[h]) # 0
  BY HoldsIsNumber, HoldsNone
<1>2. ASSUME NEW from \in DOMAIN s, from # h, s[from] = s[h]
      PROVE  Holds(s, s[h]) >= 2
  <2>1. IsFiniteSet(Positions(s, s[h])) /\ {h, from} \subseteq Positions(s, s[h])
    BY <1>2, HoldsIsNumber DEF Positions
  <2>2. Cardinality({h, from}) <= Cardinality(Positions(s, s[h]))
    BY <2>1, FS_Subset
  <2>3. Cardinality({h, from}) = 2
    <3>1. IsFiniteSet({h}) /\ Cardinality({h}) = 1 /\ from \notin {h}
      BY <1>2, FS_Singleton
    <3>2. Cardinality({h} \cup {from}) = Cardinality({h}) + 1
      BY <3>1, FS_AddElement, Zenon
    <3>3. {h} \cup {from} = {h, from}
      OBVIOUS
    <3>4. Cardinality({h, from}) = 1 + 1
      BY <3>1, <3>2, <3>3, Zenon
    <3> QED
      BY <3>4
  <2> QED
    BY <1>1, <2>2, <2>3 DEF Holds
<1> QED
  BY <1>1, <1>2

\* A handle's destructor: the handle goes, then its count.
LEMMA DestroyKeeps ==
  ASSUME DatabaseInv, NEW t \in Threads, NEW h \in DOMAIN db.held[t], Lent!Destroy(t, h)
  PROVE  DatabaseInv'
<1> DEFINE s == db.held[t]
           i == s[h]
           y == Lent!Removed(s, h)
<1>1. PICK d : d = [db EXCEPT !.held[t] = y]
  OBVIOUS
<1>2. /\ db \in Databases /\ Record(db) /\ But(db, {}) /\ db.held \in [Threads -> Seq(Nat)]
      /\ db.mishaps \in Nat /\ s \in Seq(Nat) /\ Counted(db, {}) /\ db.ask[t] = 0
  BY DatabaseIs DEF DatabaseInv, But, Lent!Destroy, Lent!Handle, Lent!None
<1>3. /\ Record(d) /\ d.held = [db.held EXCEPT ![t] = y] /\ d.mishaps = db.mishaps
      /\ d.conn = db.conn /\ d.free = db.free /\ d.captured = db.captured
      /\ d.ask = db.ask /\ d.listed = db.listed /\ d.made = db.made
  BY <1>1, <1>2 DEF Record
<1>4. db' \in Lent!release(d, t, i)
  BY <1>1, <1>2 DEF Lent!Destroy
<1>5. /\ i \in DOMAIN db.conn /\ \A u \in Threads : u # t => ~Owns(db, u, i)
      /\ \A g \in Lent!Pools : \A p \in DOMAIN db.free[g] : db.free[g][p] # i
  BY <1>2, HandleIs
<1>6. Holds(s, i) <= db.conn[i].count + 0
  BY <1>2, <1>5 DEF Counted
<1> HIDE DEF s
<1>7. h \in DOMAIN s /\ s = db.held[t]
  BY DEF s
<1>8. /\ y \in Seq(Nat) /\ \A k \in DOMAIN y : \E x \in DOMAIN s : y[k] = s[x]
      /\ \A j : Holds(y, j) <= Holds(s, j) - (IF s[h] = j THEN 1 ELSE 0)
  BY <1>2, <1>7, HandlesLess
<1> HIDE DEF y
<1>9. Holds(s, i) >= 1
  BY <1>2, <1>7, HoldsSome
<1>10. \A j : Holds(y, j) <= Holds(s, j) + (IF <<t, j>> \in {} THEN 1 ELSE 0)
  <2> TAKE j
  <2>1. Holds(y, j) \in Nat /\ Holds(s, j) \in Nat
    BY <1>2, <1>8, HoldsIsNumber
  <2> QED
    BY <1>8, <2>1
<1>11. Regrouped(db, d, t, y, {})
  BY <1>2, <1>3, <1>7, <1>8, <1>10 DEF Regrouped
<1>12. But(d, {})
  BY <1>2, <1>3, <1>8, <1>11, HandlesChange
<1>13. Holds(y, i) <= Holds(s, i) - 1
  BY <1>8
<1> HIDE DEF i
<1>14. d.held[t] = y /\ \A u \in Threads : u # t => ~Owns(d, u, i)
  BY <1>2, <1>3, <1>5 DEF Owns
<1>15. /\ d.conn[i].count > 0 /\ <<t, i>> \notin {}
       /\ Holds(d.held[t], i) <= d.conn[i].count - 1 + 0
  <2>1. Holds(y, i) \in Nat /\ Holds(s, i) \in Nat /\ db.conn[i].count \in Int
    BY <1>2, <1>5, <1>8, HoldsIsNumber, ConnIs
  <2> QED
    BY <1>3, <1>6, <1>9, <1>13, <1>14, <2>1
<1>16. But(db', {})
  <2>1. MayRelease(d, {}, t, i)
    BY <1>2, <1>3, <1>5, <1>14, <1>15 DEF MayRelease
  <2>2. i \in DOMAIN d.conn
    BY <1>3, <1>5
  <2> QED
    BY <1>4, <1>12, <2>1, <2>2, ReleaseKeeps
<1> QED
  BY <1>16 DEF DatabaseInv

\* The handle that is assigned is counted after the other is let go of.
LEMMA IsCounted ==
  ASSUME NEW e, NEW t \in Threads, NEW x, But(e, {<<t, x>>}), NEW h \in DOMAIN e.held[t],
         e.held[t][h] = x
  PROVE  But([e EXCEPT !.conn[x].count = @ + 1], {})
<1> SUFFICES ASSUME NEW f, f = [e EXCEPT !.conn[x].count = @ + 1] PROVE But(f, {})
  OBVIOUS
<1> DEFINE c == [e.conn[x] EXCEPT !.count = @ + 1]
           behind == {<<t, x>>}
<1>1. /\ e \in Databases /\ Record(e) /\ e.conn \in Seq(Conns) /\ e.held \in [Threads -> Seq(Nat)]
      /\ e.listed \in 0..MaxPools /\ e.made \in Nat /\ e.mishaps \in Nat
      /\ NoneLeftOpen(e) /\ Counted(e, behind)
  BY DatabaseIs DEF But
<1>2. x \in DOMAIN e.conn /\ Owns(e, t, x)
  BY DEF But, Named, Owns
<1>3. \A g \in Lent!Pools : \A p \in DOMAIN e.free[g] : e.free[g][p] # x
  BY <1>2, OwnedIsNotFree
<1>4. e.conn[x] \in Conns /\ e.conn[x].count \in Int /\ e.conn[x].pool \in Lent!Pools
  BY <1>1, <1>2, ConnIs
<1>5. /\ c \in Conns /\ c.pool = e.conn[x].pool /\ c.count = e.conn[x].count + 1
      /\ c.transaction = e.conn[x].transaction /\ c.open = e.conn[x].open
      /\ c.refused = e.conn[x].refused
  BY <1>4 DEF Conns
<1>6. /\ Record(f) /\ f.conn = [e.conn EXCEPT ![x] = c] /\ f.free = e.free
      /\ f.captured = e.captured /\ f.held = e.held /\ f.ask = e.ask
      /\ f.listed = e.listed /\ f.made = e.made /\ f.mishaps = e.mishaps
  BY <1>1 DEF Record
<1> HIDE DEF c
<1>7. c.transaction = 0 => (c.open => c.refused)
  BY <1>1, <1>2, <1>5 DEF NoneLeftOpen
<1>8. \A u \in Threads : Holds(e.held[u], x) <= c.count + (IF <<u, x>> \in {} THEN 1 ELSE 0)
  <2> TAKE u \in Threads
  <2>1. Holds(e.held[u], x) <= e.conn[x].count + (IF <<u, x>> \in behind THEN 1 ELSE 0)
    BY <1>1, <1>2 DEF Counted
  <2>2. Holds(e.held[u], x) \in Nat
    BY <1>1, HoldsIsNumber
  <2> QED
    BY <1>4, <1>5, <2>1, <2>2
<1>9. \A u \in Threads, j \in DOMAIN e.conn : j # x /\ <<u, j>> \in behind => <<u, j>> \in {}
  OBVIOUS
<1>10. Changed(e, f, x, c, behind, {})
  BY <1>1, <1>3, <1>5, <1>6, <1>7, <1>8, <1>9 DEF Changed
<1> QED
  BY <1>2, <1>5, <1>6, <1>10, ConnChanges

\* The old connection is released before the new one is counted; in between the new one is
\* one behind, and it is not released itself, for it has another handle.
LEMMA AssignKeeps ==
  ASSUME DatabaseInv, NEW t \in Threads, NEW h \in DOMAIN db.held[t],
         NEW from \in DOMAIN db.held[t], Lent!Assign(t, h, from)
  PROVE  DatabaseInv'
<1> DEFINE s == db.held[t]
           i == s[h]
           x == s[from]
           y == [s EXCEPT ![h] = s[from]]
           behind == {<<t, x>>}
<1>1. PICK d : d = [db EXCEPT !.held[t][h] = x]
  OBVIOUS
<1>2. /\ db \in Databases /\ Record(db) /\ But(db, {}) /\ db.held \in [Threads -> Seq(Nat)]
      /\ db.mishaps \in Nat /\ s \in Seq(Nat) /\ Counted(db, {}) /\ db.ask[t] = 0
      /\ h # from
  BY DatabaseIs DEF DatabaseInv, But, Lent!Assign, Lent!Handle, Lent!None
<1>3. /\ Record(d) /\ d.held = [db.held EXCEPT ![t] = y] /\ d.mishaps = db.mishaps
      /\ d.conn = db.conn /\ d.free = db.free /\ d.captured = db.captured
      /\ d.ask = db.ask /\ d.listed = db.listed /\ d.made = db.made
  BY <1>1, <1>2 DEF Record
<1>4. PICK e \in Lent!release(d, t, i) : db' = [e EXCEPT !.conn[x].count = @ + 1]
  BY <1>1 DEF Lent!Assign
<1>5. /\ i \in DOMAIN db.conn /\ \A u \in Threads : u # t => ~Owns(db, u, i)
      /\ \A g \in Lent!Pools : \A p \in DOMAIN db.free[g] : db.free[g][p] # i
  BY <1>2, HandleIs
<1>6. Holds(s, i) <= db.conn[i].count + 0
  BY <1>2, <1>5 DEF Counted
<1> HIDE DEF s
<1>7. h \in DOMAIN s /\ from \in DOMAIN s /\ s = db.held[t]
  BY DEF s
<1>8. s \in Seq(Nat) /\ h \in DOMAIN s /\ from \in DOMAIN s /\ h # from
  BY <1>2, <1>7
<1>9. /\ y \in Seq(Nat) /\ DOMAIN y = DOMAIN s
      /\ \A k \in DOMAIN s : \E z \in DOMAIN s : y[k] = s[z]
      /\ y[from] = s[from]
      /\ \A j : Holds(y, j) = Holds(s, j) - (IF s[h] = j THEN 1 ELSE 0)
                                + (IF j = s[from] THEN 1 ELSE 0)
  BY <1>8, HandlesOther
<1> HIDE DEF y
<1>10. y[from] = x /\ \A j : Holds(y, j) = Holds(s, j) - (IF i = j THEN 1 ELSE 0)
                                            + (IF j = x THEN 1 ELSE 0)
  BY <1>9
<1>11. Holds(s, i) >= 1 /\ (i = x => Holds(s, i) >= 2)
  BY <1>2, <1>7, HoldsSome
<1> HIDE DEF i, x
<1>12. \A j : Holds(y, j) <= Holds(s, j) + (IF <<t, j>> \in behind THEN 1 ELSE 0)
  <2> TAKE j
  <2>1. Holds(y, j) \in Nat /\ Holds(s, j) \in Nat
    BY <1>2, <1>9, HoldsIsNumber
  <2>2. Holds(y, j) = Holds(s, j) - (IF i = j THEN 1 ELSE 0) + (IF j = x THEN 1 ELSE 0)
    BY <1>10
  <2>3. <<t, j>> \in behind <=> j = x
    OBVIOUS
  <2> QED
    BY <2>1, <2>2, <2>3
<1>13. Regrouped(db, d, t, y, behind)
  BY <1>2, <1>3, <1>7, <1>9, <1>12 DEF Regrouped
<1>14. But(d, behind)
  BY <1>2, <1>3, <1>9, <1>13, HandlesChange
<1>15. d.held[t] = y /\ \A u \in Threads : u # t => ~Owns(d, u, i)
  BY <1>2, <1>3, <1>5 DEF Owns
<1>16. /\ d.conn[i].count > 0 /\ (<<t, i>> \in behind => d.conn[i].count > 1)
       /\ Holds(d.held[t], i) <= d.conn[i].count - 1 + (IF <<t, i>> \in behind THEN 1 ELSE 0)
  <2>1. Holds(y, i) \in Nat /\ Holds(s, i) \in Nat /\ db.conn[i].count \in Int
    BY <1>2, <1>5, <1>9, HoldsIsNumber, ConnIs
  <2>2. <<t, i>> \in behind <=> i = x
    OBVIOUS
  <2>3. Holds(y, i) = Holds(s, i) - 1 + (IF i = x THEN 1 ELSE 0)
    BY <1>10
  <2> HIDE DEF behind
  <2> QED
    BY <1>3, <1>6, <1>11, <1>15, <2>1, <2>2, <2>3
<1>17. But(e, behind) /\ e.held = d.held
  <2>1. MayRelease(d, behind, t, i)
    BY <1>2, <1>3, <1>5, <1>15, <1>16 DEF MayRelease
  <2>2. i \in DOMAIN d.conn
    BY <1>3, <1>5
  <2> QED
    BY <1>4, <1>14, <2>1, <2>2, ReleaseKeeps
<1>18. from \in DOMAIN e.held[t] /\ e.held[t][from] = x
  BY <1>7, <1>9, <1>15, <1>17, <1>10
<1>19. But(db', {})
  BY <1>4, <1>17, <1>18, IsCounted
<1> QED
  BY <1>19 DEF DatabaseInv

\* Every step keeps the invariant.
LEMMA DatabaseStep == DatabaseInv /\ [Lent!Next]_db => DatabaseInv'
<1> SUFFICES ASSUME DatabaseInv, [Lent!Next]_db PROVE DatabaseInv'
  OBVIOUS
<1>1. CASE Lent!Lose
  BY <1>1, LoseKeeps
<1>2. CASE Lent!openPool
  BY <1>2, OpenKeeps
<1>3. ASSUME NEW force \in BOOLEAN, Lent!closePool(force) PROVE DatabaseInv'
  BY <1>3, CloseKeeps
<1>4. ASSUME NEW t \in Threads, Lent!captureDbConnection(t) PROVE DatabaseInv'
  BY <1>4, CaptureKeeps
<1>5. ASSUME NEW t \in Threads, Lent!Asked(t) PROVE DatabaseInv'
  BY <1>5, AskedKeeps
<1>6. ASSUME NEW t \in Threads, NEW h \in DOMAIN db.held[t],
             \/ Lent!Use(t, h) \/ Lent!Copy(t, h) \/ Lent!Destroy(t, h)
             \/ \E from \in DOMAIN db.held[t] :
                  Lent!Assign(t, h, from) \/ Lent!MoveAssign(t, h, from)
      PROVE  DatabaseInv'
  BY <1>6, UseKeeps, CopyKeeps, DestroyKeeps, AssignKeeps, MoveAssignKeeps
<1>7. CASE UNCHANGED db
  BY <1>7 DEF DatabaseInv
<1> QED
  BY <1>1, <1>2, <1>3, <1>4, <1>5, <1>6, <1>7 DEF Lent!Next

\* The invariant says what the run checks.
LEMMA DatabaseHolds == DatabaseInv => Lent!OneThread
<1> SUFFICES ASSUME DatabaseInv PROVE Lent!OneThread
  OBVIOUS
<1>1. But(db, {}) /\ Named(db) /\ OneOwner(db) /\ FreeAreIdle(db)
  BY DEF DatabaseInv, But
<1>2. \A t \in Threads : \A i \in Lent!HeldBy(t) : Owns(db, t, i) /\ i \in DOMAIN db.conn
  BY <1>1 DEF Lent!HeldBy, Owns, Named
<1>3. \A t, u \in Threads : t # u => Lent!HeldBy(t) \cap Lent!HeldBy(u) = {}
  BY <1>1, <1>2 DEF OneOwner
<1>4. ASSUME NEW g \in Lent!Pools, NEW p \in DOMAIN db.free[g]
      PROVE  LET i == db.free[g][p]
             IN  /\ db.conn[i].count = 0 /\ db.conn[i].transaction = 0
                 /\ db.conn[i].open => db.conn[i].refused
                 /\ \A t \in Threads :
                      i \notin Lent!HeldBy(t) /\ db.captured[g][t] # i /\ db.ask[t] # i
                 /\ \A q \in DOMAIN db.free[g] : db.free[g][q] = i => p = q
  <2>1. /\ IsIdle(db, g, db.free[g][p])
        /\ \A q \in DOMAIN db.free[g] : db.free[g][q] = db.free[g][p] => p = q
    BY <1>1 DEF FreeAreIdle
  <2>2. \A t \in Threads : ~Owns(db, t, db.free[g][p])
    BY <2>1 DEF IsIdle
  <2>3. \A t \in Threads : /\ db.free[g][p] \notin Lent!HeldBy(t)
                           /\ db.captured[g][t] # db.free[g][p] /\ db.ask[t] # db.free[g][p]
    BY <1>2, <2>2 DEF Owns
  <2> QED
    BY <2>1, <2>3 DEF IsIdle
<1> QED
  BY <1>3, <1>4 DEF Lent!OneThread

\* Locked memory (lockedpool.cpp): the chunks of an arena, used and free, tile it, and its
\* three maps of free chunks agree.  Database connections (DbConnectionPool): none is ever
\* used by two threads, and one that lies in the pool lies there once, without a handle and
\* without a transaction, but for one whose ROLLBACK failed in a session that stayed up
\* (MysqlConnection.cpp:172-181): it goes back with the transaction open.
THEOREM PoolsAlwaysHold == PoolsSpec => []PoolsHold
<1>1. PoolsInit => LockedInv /\ DatabaseInv
  BY LockedInit, DatabaseInit DEF PoolsInit
<1>2. LockedInv /\ DatabaseInv /\ [PoolsNext]_<<pool, db>> => (LockedInv /\ DatabaseInv)'
  <2> SUFFICES ASSUME LockedInv, DatabaseInv, [PoolsNext]_<<pool, db>>
               PROVE  (LockedInv /\ DatabaseInv)'
    OBVIOUS
  <2>1. [Locked!Next]_pool /\ [Lent!Next]_db
    BY DEF PoolsNext
  <2> QED
    BY <2>1, LockedStep, DatabaseStep
<1>3. LockedInv /\ DatabaseInv => PoolsHold
  BY LockedHolds, DatabaseHolds DEF PoolsHold
<1> QED
  BY <1>1, <1>2, <1>3, PTL DEF PoolsSpec
=============================================================================
