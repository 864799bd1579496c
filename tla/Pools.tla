-------------------------------- MODULE Pools --------------------------------
(***************************************************************************)
(* Two pools that lend what they have: the locked memory for keys          *)
(* (LockedPool.tla) and the connections to a database (Database.tla).      *)
(* They meet nowhere.                                                      *)
(***************************************************************************)
EXTENDS Integers, Sequences, FiniteSets

CONSTANTS
  ArenaSize, Alignment, Sizes, Limits, MaxArenas,                         \* LockedPool
  Threads, MaxConnections, MaxHandles, MaxNested, MaxPools, MaxMishaps    \* Database

\* ARENA_SIZE and ARENA_ALIGN are not zero; sizes and limits are of type size_t.
ASSUME PoolsAssumption ==
  /\ ArenaSize \in Nat \ {0} /\ Alignment \in Nat \ {0}
  /\ Sizes \subseteq Nat /\ Limits \subseteq Nat
  /\ MaxPools \in Nat

VARIABLES pool, db

Locked == INSTANCE LockedPool
Lent == INSTANCE Database

PoolsInit == Locked!Init /\ Lent!Init
PoolsNext ==
  \/ Locked!Next /\ UNCHANGED db
  \/ Lent!Next /\ UNCHANGED pool
PoolsSpec == PoolsInit /\ [][PoolsNext]_<<pool, db>>

\* Arena::free() and DbConnectionPool::releaseDbConnection(): memory and connections that
\* are lent come back whole, and to nobody twice.
PoolsHold == Locked!ChunksTile /\ Lent!OneThread
=============================================================================
