------------------------------ MODULE LockedPool ------------------------------
(***************************************************************************)
(* Memory for keys that is kept from being swapped                         *)
(* (support/lockedpool.cpp): arenas of locked pages, each of which cuts    *)
(* itself into used and free chunks, takes from the end of the smallest    *)
(* free chunk that does, and joins a chunk that is freed with the free     *)
(* ones before and after it.  An arena keeps what is free in three maps:   *)
(* by size, by where a chunk begins, by where it ends.  Addresses count    *)
(* from the base of the arena.                                             *)
(***************************************************************************)
EXTENDS Integers, Sequences

CONSTANTS
  ArenaSize,  \* ARENA_SIZE
  Alignment,  \* ARENA_ALIGN
  Sizes,      \* what callers ask for
  Limits,     \* what the system allows to be locked; 0: nothing
  MaxArenas   \* bound

VARIABLE pool   \* limit; arenas: what there is; locked: cumulative_bytes_locked; last: what
                \* the last call returned

align_up(x) == ((x + Alignment - 1) \div Alignment) * Alignment
\* A map without a key, with a value for it, and with one if it had none (emplace()).
Without(f, key) == [k \in DOMAIN f \ {key} |-> f[k]]
With(f, key, value) == [k \in DOMAIN f \cup {key} |-> IF k = key THEN value ELSE f[k]]
Emplaced(f, key, value) == IF key \in DOMAIN f THEN f ELSE With(f, key, value)
Single(key, value) == [k \in {key} |-> value]

-----------------------------------------------------------------------------
(* An arena; a free chunk is known by its entry <<size, begin>>.             *)
-----------------------------------------------------------------------------
NewArena(size, mapped) ==
  [size |-> size, mapped |-> mapped, used |-> [at \in {} |-> 0], by_size |-> {<<size, 0>>},
   free |-> Single(0, <<size, 0>>), free_end |-> Single(size, <<size, 0>>)]

\* The smallest that is large enough: which one of several is left open.
BestFit(a, size) ==
  LET large == {e \in a.by_size : e[1] >= size}
  IN  {e \in large : \A other \in large : e[1] <= other[1]}
\* The end of the chunk is taken; what remains keeps its begin.
Taken(a, e, size) ==
  LET left == <<e[1] - size, e[2]>>
      ends == Without(a.free_end, e[2] + e[1])
  IN  IF left[1] = 0
      THEN [a EXCEPT !.used = Emplaced(a.used, e[2], size), !.by_size = a.by_size \ {e},
                     !.free = Without(a.free, e[2]), !.free_end = ends]
      ELSE [a EXCEPT !.used = Emplaced(a.used, e[2] + left[1], size),
                     !.by_size = (a.by_size \ {e}) \cup {left},
                     !.free = With(a.free, e[2], left),
                     !.free_end = Emplaced(ends, e[2] + left[1], left)]

Joins(a, at) == at \in DOMAIN a.free
Freed(a, at) ==
  LET size == a.used[at]
      prev == at \in DOMAIN a.free_end
      begin == IF prev THEN at - a.free_end[at][1] ELSE at
      next == Joins(a, at + size)
      total == size + (IF prev THEN a.free_end[at][1] ELSE 0)
                    + (IF next THEN a.free[at + size][1] ELSE 0)
      gone == (IF prev THEN {a.free_end[at]} ELSE {}) \cup (IF next THEN {a.free[at + size]} ELSE {})
      entry == <<total, begin>>
  IN  [a EXCEPT !.used = Without(a.used, at),
                !.by_size = (a.by_size \ gone) \cup {entry},
                !.free = With(IF next THEN Without(a.free, at + size) ELSE a.free, begin, entry),
                !.free_end = With(IF prev THEN Without(a.free_end, at) ELSE a.free_end,
                                  begin + total, entry)]

-----------------------------------------------------------------------------
(* The pool; its mutex makes every call one step.                            *)
-----------------------------------------------------------------------------
Init == pool \in [limit : Limits, arenas : {<<>>}, locked : {0}, last : {"none"}]

Fits(size) == {i \in DOMAIN pool.arenas : BestFit(pool.arenas[i], align_up(size)) # {}}
\* The first arena that has the room.
AllocOld(size) ==
  \E i \in Fits(size) :
    /\ \A k \in Fits(size) : i <= k
    /\ \E e \in BestFit(pool.arenas[i], align_up(size)) :
         pool' = [pool EXCEPT !.arenas[i] = Taken(@, e, align_up(size)), !.last = "chunk"]

\* None has it: a new arena, the first as large as may be locked.  mmap() does not say that
\* it failed with a null pointer, so that the pool goes on with what is no memory; that
\* pages are not locked is accepted too (LockingFailed()).  A request that is larger than a
\* first arena fails, and leaves the arena behind.
AllocNew(size, mapped, locked) ==
  LET first == pool.arenas = <<>> /\ pool.limit > 0 /\ pool.limit < ArenaSize
      bytes == IF first THEN pool.limit ELSE ArenaSize
      new == NewArena(bytes, mapped)
      chunk == BestFit(new, align_up(size))
  IN  /\ Fits(size) = {} /\ Len(pool.arenas) < MaxArenas
      /\ locked => mapped /\ pool.limit > 0
      /\ pool' = [pool EXCEPT
                    !.arenas = Append(@, IF chunk = {} THEN new
                                         ELSE Taken(new, <<bytes, 0>>, align_up(size))),
                    !.locked = @ + (IF locked THEN bytes ELSE 0),
                    !.last = IF chunk = {} THEN "null" ELSE "chunk"]

\* Nothing and more than an arena are not given.
AllocNothing(size) ==
  /\ size = 0 \/ size > ArenaSize
  /\ pool' = [pool EXCEPT !.last = "null"]

\* A chunk goes back; an address where none begins is an error.
Free(i, at) ==
  pool' = IF at \in DOMAIN pool.arenas[i].used
          THEN [pool EXCEPT !.arenas[i] = Freed(@, at), !.last = "freed"]
          ELSE [pool EXCEPT !.last = "error"]

Next ==
  \/ \E size \in Sizes :
       \/ AllocNothing(size)
       \/ /\ size \in 1..ArenaSize
          /\ AllocOld(size) \/ \E mapped, locked \in BOOLEAN : AllocNew(size, mapped, locked)
  \/ \E i \in DOMAIN pool.arenas, at \in 0..(ArenaSize - 1) :
       at < pool.arenas[i].size /\ Free(i, at)

-----------------------------------------------------------------------------
(* What it promises                                                          *)
-----------------------------------------------------------------------------
Chunks(a) ==
  {<<at, a.used[at]>> : at \in DOMAIN a.used} \cup {<<e[2], e[1]>> : e \in a.by_size}
Cells(chunk) == chunk[1]..(chunk[1] + chunk[2] - 1)

\* Safety.  The chunks of an arena lie side by side and fill it, no two free ones touch, and
\* the three maps of the free ones say the same.
ChunksTile ==
  \A i \in DOMAIN pool.arenas :
    LET a == pool.arenas[i]
    IN  /\ \A cell \in 0..(a.size - 1) :
             \E c \in Chunks(a) : \A d \in Chunks(a) : cell \in Cells(d) <=> d = c
        /\ \A c \in Chunks(a) : c[2] > 0 /\ c[1] + c[2] <= a.size
        /\ \A e \in a.by_size : \A other \in a.by_size : e[2] + e[1] # other[2]
        /\ a.free = [at \in {e[2] : e \in a.by_size} |-> CHOOSE e \in a.by_size : e[2] = at]
        /\ a.free_end = [at \in {e[2] + e[1] : e \in a.by_size} |->
                           CHOOSE e \in a.by_size : e[2] + e[1] = at]
=============================================================================
