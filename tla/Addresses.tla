----------------------------- MODULE Addresses -----------------------------
(***************************************************************************)
(* src/src/node/AddressManager.cpp: the addresses of peers that are known, *)
(* failed or banned, and the file that keeps them between two runs.        *)
(*                                                                         *)
(* reg(), fail() and ban() hold _mutex from start to end.  A change asks   *)
(* the save timer for an alarm (module Timer, startOnce).  save() takes    *)
(* the mutex three times and writes the file with no lock at all: it fills *)
(* a temporary file beside the old one and renames it.  A worker that runs *)
(* the alarm while an earlier save() is still writing overlaps with it.    *)
(* The program may be killed between any two steps, or end by the          *)
(* destructor, which saves what an alarm was still to save.                *)
(***************************************************************************)
EXTENDS Integers, FiniteSets, Functions

CONSTANTS
  Addrs,        \* addresses; ComparatorByAddr makes ip and port the identity
  Capacity,     \* _addressCapacity
  StorageTime,  \* _storageTime
  Savers,       \* bound: the runs of save() there may be at once
  Faults,       \* the calls of save() that may fail: "open", "write", "close"
  MaxTime,      \* bound: the clock stops here
  MaxCalls,     \* bound: calls of reg(), fail() and ban()
  MaxLives      \* bound: how often the program is started

ASSUME AddressesAssumption ==
  /\ IsFiniteSet(Addrs) /\ Capacity \in Nat /\ StorageTime \in Nat
  /\ IsFiniteSet(Savers) /\ 0 \notin Savers
  /\ Faults \subseteq {"open", "write", "close"}
  /\ MaxTime \in Nat \ {0} /\ MaxCalls \in Nat /\ MaxLives \in Nat \ {0}

VARIABLES
  now,
  known, failed, banned,  \* _addresses, _failed, _banned: from an address to its time
  sorted,      \* _sorted: what get() hands out, as a set of entries
  armed,       \* the alarm of _saveTimer is still to come
  save,        \* each run of save(): its line, what it copied and the file it writes
  inode,       \* the files: what was written where the two lists are
  path, temp,  \* the file of that name, 0 for none: "addresses.dat" and "addresses.dat~"
  life,        \* "up", "exit" in the destructor, "down"
  lives, calls,
  overlapped,  \* history: the runs of save() under way, or last through, met another
  missed,      \* history: one of them threw
  mixed        \* history: the file in place is of runs that met, of which one was still
               \* to come through or had thrown

memory == <<known, failed, banned, sorted>>
disk == <<inode, path, temp>>
bounds == <<lives, calls>>
history == <<missed, overlapped, mixed>>
addressVars == <<now, memory, armed, save, disk, life, bounds, history>>

Files == 1..Cardinality(Savers) + 2
Entries == Addrs \X (0..MaxTime)
EntriesOf(f) == {<<a, f[a]>> : a \in DOMAIN f}
Lists == UNION {[S -> 0..MaxTime] : S \in SUBSET Addrs}
Nobody == [a \in {} |-> 0]
Put(f, a, t) == [x \in DOMAIN f \cup {a} |-> IF x = a THEN t ELSE f[x]]
Drop(f, a) == Restrict(f, DOMAIN f \ {a})

Unwritten == [by |-> 0, list |-> {}]
Empty == [address |-> Unwritten, banned |-> Unwritten]
Whole(f) == inode[f].address.by # 0 /\ inode[f].address.by = inode[f].banned.by
Idle == [at |-> "idle", address |-> {}, banned |-> {}, file |-> 0]

AddressesInit ==
  /\ now = 1
  /\ known = Nobody /\ failed = Nobody /\ banned = Nobody /\ sorted = {}
  /\ armed = FALSE
  /\ save = [s \in Savers |-> Idle]
  /\ inode = [f \in Files |-> Empty] /\ path = 0 /\ temp = 0
  /\ life = "up" /\ lives = 1 /\ calls = 0
  /\ missed = FALSE /\ overlapped = FALSE /\ mixed = FALSE

Tick ==
  /\ now < MaxTime
  /\ now' = now + 1
  /\ UNCHANGED <<memory, armed, save, disk, life, bounds, history>>

-----------------------------------------------------------------------------
\* A call of another component, from any worker.
Called ==
  /\ life = "up" /\ calls < MaxCalls
  /\ calls' = calls + 1
  /\ UNCHANGED <<now, sorted, save, disk, life, lives, history>>

\* Mutant: the time of a known address is renewed and not saved.
reg_Unsaved(a, t) ==
  /\ Called
  /\ IF a \in DOMAIN banned \/ (a \in DOMAIN known /\ known[a] >= t)
       THEN UNCHANGED <<known, armed>>
       ELSE known' = Put(known, a, t) /\ armed' = (armed \/ a \notin DOMAIN known)
  /\ UNCHANGED <<failed, banned>>

\* Mutant: a ban is not looked for.
reg_Banned(a, t) ==
  /\ Called
  /\ known' = Put(known, a, t) /\ armed' = TRUE
  /\ UNCHANGED <<failed, banned>>

\* The time of a failed address goes to the caller's copy; the address itself stays
\* among the failed ones also when it is known again.
reg(a, t) ==
  /\ Called
  /\ LET older == a \in DOMAIN failed /\ failed[a] > t
         newer == a \notin DOMAIN known \/ known[a] < t
     IN  IF a \in DOMAIN banned
           THEN UNCHANGED <<known, armed>>
           ELSE /\ known' = IF ~older /\ newer THEN Put(known, a, t) ELSE known
                /\ armed' = (armed \/ older \/ newer)
  /\ UNCHANGED <<failed, banned>>

\* An address that fails for the first time leaves the known ones without a save.
fail(a, t) ==
  /\ Called
  /\ IF a \in DOMAIN banned
       THEN UNCHANGED <<known, failed, armed>>
       ELSE LET later == a \in DOMAIN known /\ known[a] > t
                time == IF later THEN known[a] ELSE t
                renewed == a \in DOMAIN failed /\ failed[a] < time
            IN  /\ known' = Drop(known, a)
                /\ failed' = IF a \notin DOMAIN failed \/ renewed
                               THEN Put(failed, a, time) ELSE failed
                /\ armed' = (armed \/ later \/ renewed)
  /\ UNCHANGED banned

ban(a) ==
  /\ Called
  /\ known' = Drop(known, a) /\ failed' = Drop(failed, a)
  /\ banned' = Put(banned, a, now)
  /\ armed' = TRUE

-----------------------------------------------------------------------------
Fresh(f) == Restrict(f, {a \in DOMAIN f : f[a] >= now - StorageTime})

\* The newest Capacity entries; std::sort leaves the order of equal times open.
Newest(S) ==
  IF Cardinality(S) <= Capacity THEN {S}
  ELSE {N \in SUBSET S : /\ Cardinality(N) = Capacity
                         /\ \A e \in N, o \in S \ N : e[2] >= o[2]}

Busy == \E s \in Savers : save[s].at # "idle"
At(s, line) == life # "down" /\ save[s].at = line

\* The alarm comes and save() is called; at the end of the program the destructor
\* calls it, when the workers are gone.
Start(s) ==
  /\ save[s].at = "idle" /\ armed
  /\ \/ life = "up" /\ life' = "up"
     \/ life = "up" /\ ~Busy /\ life' = "exit"
  /\ armed' = FALSE
  /\ save' = [save EXCEPT ![s].at = "truncate"]
  /\ overlapped' = Busy /\ missed' = (missed /\ Busy)
  /\ UNCHANGED <<now, memory, disk, bounds, mixed>>

Truncate(s) ==
  /\ At(s, "truncate")
  /\ known' = Fresh(known) /\ banned' = Fresh(banned)
  /\ save' = [save EXCEPT ![s].at = "copy"]
  /\ UNCHANGED <<now, failed, sorted, armed, disk, life, bounds, history>>

\* The copies, sorted and cut outside the lock.
Copy(s) ==
  /\ At(s, "copy")
  /\ \E N \in Newest(EntriesOf(known)) :
       save' = [save EXCEPT ![s] = [at |-> "sort", address |-> N,
                                    banned |-> EntriesOf(banned), file |-> 0]]
  /\ UNCHANGED <<now, memory, armed, disk, life, bounds, history>>

Sort(s) ==
  /\ At(s, "sort")
  /\ sorted' = save[s].address
  /\ save' = [save EXCEPT ![s].at = "open", ![s].address = @ \cup EntriesOf(failed)]
  /\ UNCHANGED <<now, known, failed, banned, armed, disk, life, bounds, history>>

SaveThrows(s) == save' = [save EXCEPT ![s] = Idle] /\ missed' = TRUE
SaveStep(s, line) == save' = [save EXCEPT ![s].at = line] /\ UNCHANGED missed

\* Mutant: the file itself is opened and truncated.
Open_InPlace(s) ==
  /\ At(s, "open")
  /\ LET f == IF path # 0 THEN path ELSE 1
     IN  /\ inode' = [inode EXCEPT ![f] = Empty] /\ path' = f /\ temp' = temp
         /\ save' = [save EXCEPT ![s].at = "address", ![s].file = f]
  /\ UNCHANGED <<now, memory, armed, life, bounds, history>>

\* ios::trunc: the temporary file is emptied, also under another run that writes it.
Open(s) ==
  /\ At(s, "open")
  /\ \/ \E f \in Files :
          /\ \/ f = temp
             \/ temp = 0 /\ f # path /\ \A o \in Savers : save[o].file # f
          /\ inode' = [inode EXCEPT ![f] = Empty] /\ temp' = f
          /\ save' = [save EXCEPT ![s].at = "address", ![s].file = f]
          /\ UNCHANGED missed
     \/ "open" \in Faults /\ SaveThrows(s) /\ UNCHANGED <<inode, temp>>
  /\ UNCHANGED <<now, memory, armed, path, life, bounds, overlapped, mixed>>

WriteAddress(s) ==
  /\ At(s, "address")
  /\ inode' = [inode EXCEPT ![save[s].file].address = [by |-> s, list |-> save[s].address]]
  /\ SaveStep(s, "banned")
  /\ UNCHANGED <<now, memory, armed, path, temp, life, bounds, overlapped, mixed>>

\* The second list, close() and bad().  What only close() could not write is not bad().
WriteBanned(s) ==
  /\ At(s, "banned")
  /\ \/ /\ inode' = [inode EXCEPT ![save[s].file].banned = [by |-> s, list |-> save[s].banned]]
        /\ SaveStep(s, "rename")
     \/ "close" \in Faults /\ SaveStep(s, "rename") /\ UNCHANGED inode
     \/ "write" \in Faults /\ SaveThrows(s) /\ UNCHANGED inode
  /\ UNCHANGED <<now, memory, armed, path, temp, life, bounds, overlapped, mixed>>

\* The temporary file may be the one of another run, or be gone.
Rename(s) ==
  /\ At(s, "rename")
  /\ IF temp = 0
       THEN SaveThrows(s) /\ UNCHANGED <<path, temp, mixed>>
       ELSE /\ path' = temp /\ temp' = 0
            /\ save' = [save EXCEPT ![s] = Idle] /\ UNCHANGED missed
            /\ mixed' = (overlapped /\ (missed \/ \E o \in Savers \ {s} : save[o].at # "idle"))
  /\ UNCHANGED <<now, memory, armed, inode, life, bounds, overlapped>>

-----------------------------------------------------------------------------
\* The program is killed, or its destructor is through.  Memory is gone.
NodeEnds ==
  /\ life # "down" /\ lives < MaxLives
  /\ life' = "down"
  /\ save' = [s \in Savers |-> Idle]
  /\ known' = Nobody /\ failed' = Nobody /\ banned' = Nobody /\ sorted' = {}
  /\ armed' = FALSE /\ missed' = FALSE /\ overlapped' = FALSE
  /\ UNCHANGED <<now, disk, bounds, mixed>>

\* What Unserialize gets: of a file that is not whole, some of its entries, since a
\* stream that is at its end reads nothing and throws nothing.
Read(f) ==
  IF f = 0 THEN {<<{}, {}>>}
  ELSE IF Whole(f) THEN {<<inode[f].address.list, inode[f].banned.list>>}
  ELSE (SUBSET inode[f].address.list) \X (SUBSET inode[f].banned.list)

\* load(): entries go in from the oldest to the newest, and the first of an address
\* stays; the banned ones go among the known ones.  truncate() may ask for a save.
Load(address, ban_) ==
  LET Oldest(S, a) == CHOOSE t \in 0..MaxTime : <<a, t>> \in S /\
                        \A u \in 0..MaxTime : <<a, u>> \in S => t <= u
      all == [a \in {e[1] : e \in address \cup ban_} |->
                IF a \in {e[1] : e \in address} THEN Oldest(address, a) ELSE Oldest(ban_, a)]
  IN  /\ sorted' = address
      /\ known' = Fresh(all)
      /\ armed' = (Fresh(all) # all)

Restart ==
  /\ life = "down"
  /\ life' = "up" /\ lives' = lives + 1
  /\ \E r \in Read(path) : \E address \in Newest(r[1]) : Load(address, r[2])
  /\ UNCHANGED <<now, failed, banned, save, disk, calls, history>>

AddressesNext ==
  \/ Tick
  \/ \E a \in Addrs, t \in 1..MaxTime : reg(a, t) \/ fail(a, t)
  \/ \E a \in Addrs : ban(a)
  \/ \E s \in Savers : \/ Start(s) \/ Truncate(s) \/ Copy(s) \/ Sort(s) \/ Open(s)
                       \/ WriteAddress(s) \/ WriteBanned(s) \/ Rename(s)
  \/ NodeEnds
  \/ Restart

AddressesSpec == AddressesInit /\ [][AddressesNext]_addressVars

-----------------------------------------------------------------------------
\* The lists of AddressManager, its runs of save() and the files keep their types; a
\* run that writes has a file.
AddressesTypeOK ==
  /\ now \in 1..MaxTime
  /\ known \in Lists /\ failed \in Lists /\ banned \in Lists
  /\ sorted \subseteq Entries
  /\ \A s \in Savers : /\ save[s].address \subseteq Entries /\ save[s].banned \subseteq Entries
                       /\ save[s].at \in {"address", "banned", "rename"} <=> save[s].file # 0
  /\ path \in {0} \cup Files /\ temp \in {0} \cup Files
  /\ path # 0 => path # temp
  /\ life \in {"up", "exit", "down"} /\ lives \in 1..MaxLives /\ calls \in 0..MaxCalls
  /\ armed \in BOOLEAN /\ \A h \in {missed, overlapped, mixed} : h \in BOOLEAN

\* Safety across crashes (save(), :183-205): whenever the program dies, the file that
\* load() reads next holds both lists of one save.  One exception: runs of save() that
\* met (see the head) write one temporary file, and may rename a mixture; it stays in
\* place while one of them is not through or when one threw, until a save succeeds that
\* meets no other.  When they are all through and none threw, the file is whole again.
FileIsWhole == path # 0 /\ ~mixed => Whole(path)

InFile(f, e) == f # 0 /\ e \in inode[f].address.list \cup inode[f].banned.list
NewerInFile(f, e) == IF f = 0 THEN {} ELSE {o \in inode[f].address.list : o[2] >= e[2]}

\* Safety of scheduleSave() in reg() and ban(): when no save is under way or to come,
\* a known address is in the file, or gave way there to newer ones, and a banned one is
\* in the file.  It holds in the destructor too.  Two exceptions, until the next save
\* that meets no other or the next start: a save that threw (:187, :198, :204) is not
\* tried again; and of two that met (:152-206) the one with the older copy may rename
\* last, which loses what the other had saved although neither threw.
KnownIsSaved ==
  (life # "down" /\ ~armed /\ ~Busy /\ ~missed /\ ~overlapped) =>
    /\ \A e \in EntriesOf(known) :
         InFile(path, e) \/ Cardinality(NewerInFile(path, e)) >= Capacity
    /\ \A e \in EntriesOf(banned) : InFile(path, e)

\* Safety of ban(), in one life of the program: until the ban runs out, no call makes the
\* address known or failed again.  A restart forgets the bans: load() puts the banned
\* addresses of the file among the known ones (:143).
BannedStaysOut == DOMAIN banned \cap (DOMAIN known \cup DOMAIN failed) = {}
=============================================================================
