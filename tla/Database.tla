------------------------------- MODULE Database -------------------------------
(***************************************************************************)
(* Connections to a database (storage/): DbManager knows the pool by its   *)
(* name, the pool (DbConnectionPool) keeps connections nobody uses and the *)
(* one each thread has captured, a handle (Db) counts itself in its        *)
(* connection, and a connection (MysqlConnection) nests transactions by    *)
(* counting.  A connection is asked whether it lives between two critical  *)
(* sections of the pool.  Handles are scoped: they stay in their thread.   *)
(***************************************************************************)
EXTENDS Integers, Sequences, FiniteSets

CONSTANTS
  Threads,
  MaxConnections, MaxHandles, MaxNested, MaxPools, MaxMishaps   \* bounds

VARIABLE db

None == 0
Pools == 1..MaxPools
Connections == DOMAIN db.conn

\* conn: of each connection its pool, captured(), the counter of transactions, and what
\* the server knows: whether it is connected, and whether a transaction is open.
\* refused is history: the open transaction is one whose ROLLBACK the server refused.
Init ==
  db = [conn |-> <<>>,
        free |-> [g \in Pools |-> <<>>], captured |-> [g \in Pools |-> [t \in Threads |-> None]],
        listed |-> None, made |-> 0, mishaps |-> 0,
        held |-> [t \in Threads |-> <<>>],
        ask |-> [t \in Threads |-> None]]

-----------------------------------------------------------------------------
(* The server: a session that is lost takes its transaction with it, and the *)
(* client connects again when it is used the next time, if it can.           *)
-----------------------------------------------------------------------------
Lost(c) == [c EXCEPT !.up = FALSE, !.open = FALSE, !.refused = FALSE]
Lose ==
  \E i \in Connections :
    /\ db.conn[i].up /\ db.mishaps < MaxMishaps
    /\ db' = [db EXCEPT !.conn[i] = Lost(@), !.mishaps = @ + 1]

\* query() of START TRANSACTION, COMMIT and ROLLBACK: what it leaves of the connection.
Done(c, open, n) ==
  [c EXCEPT !.up = TRUE, !.open = open, !.refused = FALSE, !.transaction = n]
\* The query fails and the session stays: rollback() sets its counter to zero nevertheless.
Refused(c) == [c EXCEPT !.refused = c.open, !.transaction = 0]

\* The outcomes of each call: the connection after it.
startTransaction(c) ==
  IF c.transaction > 0 THEN {[c EXCEPT !.transaction = @ + 1]}
  ELSE {Done(c, TRUE, 1), c, Lost(c)}
commit(c) ==
  CASE c.transaction > 1 -> {[c EXCEPT !.transaction = @ - 1]}
    [] c.transaction = 0 -> {c}
    [] OTHER -> {Done(c, FALSE, 0), c, Lost(c)}
rollback(c) ==
  CASE c.transaction > 1 -> {[c EXCEPT !.transaction = @ - 1]}
    [] c.transaction = 0 -> {c}
    [] OTHER -> {Done(c, FALSE, 0), Refused(c), [Lost(c) EXCEPT !.transaction = 0]}
\* while (inTransaction()) rollback(): the last one is the one the server hears of.
rolledBack(c) ==
  IF c.transaction = 0 THEN {c} ELSE rollback([c EXCEPT !.transaction = 1])

Handle(t, h) == h \in DOMAIN db.held[t] /\ db.ask[t] = None
Use(t, h) ==
  LET i == db.held[t][h]
      after == {c \in startTransaction(db.conn[i]) : c.transaction <= MaxNested} \cup
               commit(db.conn[i]) \cup rollback(db.conn[i])
  IN  /\ Handle(t, h)
      /\ \E c \in after : db' = [db EXCEPT !.conn[i] = c]

-----------------------------------------------------------------------------
(* DbConnectionPool.                                                         *)
-----------------------------------------------------------------------------
Hold(d, t, g, i) ==
  [d EXCEPT !.captured[g][t] = IF @ = None THEN i ELSE @,
            !.conn[i].count = @ + 1, !.held[t] = Append(@, i), !.ask[t] = None]
New(g) ==
  [pool |-> g, count |-> 0, transaction |-> 0, up |-> TRUE, open |-> FALSE, refused |-> FALSE]

\* The first connection of the pool, to be asked, or a new one if that can be connected.
FromPool(d, t, g) ==
  IF d.free[g] # <<>>
  THEN {[d EXCEPT !.free[g] = Tail(@), !.ask[t] = Head(d.free[g])]}
  ELSE {[d EXCEPT !.ask[t] = None]} \cup
       IF Len(d.conn) = MaxConnections THEN {}
       ELSE {Hold([d EXCEPT !.conn = Append(@, New(g))], t, g, Len(d.conn) + 1)}

captureDbConnection(t) ==
  LET g == db.listed
      own == db.captured[g][t]
  IN  /\ db.ask[t] = None /\ g # None /\ Len(db.held[t]) < MaxHandles
      /\ IF own # None
         THEN db' = [db EXCEPT !.captured[g][t] = None, !.ask[t] = own]
         ELSE \E d \in FromPool(db, t, g) : db' = d
\* alive(), and the critical section after it.
Asked(t) ==
  LET i == db.ask[t]
      g == db.conn[i].pool
  IN  /\ i # None
      /\ \/ db' = Hold([db EXCEPT !.conn[i].up = TRUE], t, g, i)
         \/ ~db.conn[i].up /\ \E d \in FromPool(db, t, g) : db' = d

\* A pool lives as long as DbManager lists it or a thread is in it.
Alive(g) ==
  db.listed = g \/ \E t \in Threads : db.ask[t] # None /\ db.conn[db.ask[t]].pool = g

\* Mutant: what is released goes back as it is.
Returned_AsIs(d, t, i) ==
  {[d EXCEPT !.captured[d.conn[i].pool][t] = None, !.free[d.conn[i].pool] = <<i>> \o @]}
\* releaseDbConnection(): whatever the thread has captured is forgotten.
Returned(d, t, i) ==
  LET g == d.conn[i].pool
  IN  IF d.captured[g][t] = None THEN {d}
      ELSE {[d EXCEPT !.conn[i] = c, !.captured[g][t] = None, !.free[g] = <<i>> \o @] :
              c \in rolledBack(d.conn[i])}
release(d, t, i) ==
  LET less == [d EXCEPT !.conn[i].count = @ - 1]
  IN  IF less.conn[i].count = 0 /\ Alive(d.conn[i].pool) THEN Returned(less, t, i) ELSE {less}

-----------------------------------------------------------------------------
(* Db: its copies, assignments and destructor.                               *)
-----------------------------------------------------------------------------
Removed(s, h) == SubSeq(s, 1, h - 1) \o SubSeq(s, h + 1, Len(s))

Copy(t, h) ==
  /\ Handle(t, h) /\ Len(db.held[t]) < MaxHandles
  /\ LET i == db.held[t][h]
     IN  db' = [db EXCEPT !.conn[i].count = @ + 1, !.held[t] = Append(@, i)]
Destroy(t, h) ==
  /\ Handle(t, h)
  /\ \E d \in release([db EXCEPT !.held[t] = Removed(@, h)], t, db.held[t][h]) : db' = d
Assign(t, h, from) ==
  /\ Handle(t, h) /\ Handle(t, from) /\ h # from
  /\ LET i == db.held[t][from]
     IN  \E d \in release([db EXCEPT !.held[t][h] = i], t, db.held[t][h]) :
           db' = [d EXCEPT !.conn[i].count = @ + 1]
\* The connection that is overwritten keeps its count.
MoveAssign(t, h, from) ==
  /\ Handle(t, h) /\ Handle(t, from) /\ h # from /\ db.mishaps < MaxMishaps
  /\ db' = [db EXCEPT !.held[t] = Removed([@ EXCEPT ![h] = db.held[t][from]], from),
                     !.mishaps = @ + 1]

-----------------------------------------------------------------------------
(* DbManager, with one name.  A pool that is opened in the place of another  *)
(* is not listed, the other stays.                                           *)
-----------------------------------------------------------------------------
openPool ==
  /\ db.listed = None /\ db.made < MaxPools
  /\ db' = [db EXCEPT !.listed = db.made + 1, !.made = @ + 1]
closePool(force) ==
  /\ db.listed # None
  /\ db' = [db EXCEPT !.listed = None,
              !.free[db.listed] = IF force THEN <<>> ELSE @,
              !.captured[db.listed] = IF force THEN [t \in Threads |-> None] ELSE @]

Next ==
  \/ Lose
  \/ openPool
  \/ \E force \in BOOLEAN : closePool(force)
  \/ \E t \in Threads :
       \/ captureDbConnection(t)
       \/ Asked(t)
       \/ \E h \in DOMAIN db.held[t] :
            \/ Use(t, h) \/ Copy(t, h) \/ Destroy(t, h)
            \/ \E from \in DOMAIN db.held[t] : Assign(t, h, from) \/ MoveAssign(t, h, from)

-----------------------------------------------------------------------------
HeldBy(t) == {db.held[t][h] : h \in DOMAIN db.held[t]}

\* DbConnectionPool: a connection is never used by two threads, however handles are
\* nested, copied and dropped and connections lost in between; and one that lies in the
\* pool is there once, without a handle and without a transaction, of the client's
\* counting or the server's, that the next thread would find itself in.  One exception:
\* rollback() sets the counter to zero also when ROLLBACK failed and the session is still
\* up (MysqlConnection.cpp:172-181); that transaction goes back to the pool open.
OneThread ==
  /\ \A t, u \in Threads : t # u => HeldBy(t) \cap HeldBy(u) = {}
  /\ \A g \in Pools : \A p \in DOMAIN db.free[g] :
       LET i == db.free[g][p]
       IN  /\ db.conn[i].count = 0 /\ db.conn[i].transaction = 0
           /\ db.conn[i].open => db.conn[i].refused
           /\ \A t \in Threads :
                i \notin HeldBy(t) /\ db.captured[g][t] # i /\ db.ask[t] # i
           /\ \A q \in DOMAIN db.free[g] : db.free[g][q] = i => p = q
===============================================================================
