-------------------------- MODULE AddressesProofs --------------------------
(***************************************************************************)
(* Proofs about Addresses: whatever the addresses, the runs of save() and  *)
(* the moments at which the program dies, the file that load() reads holds *)
(* both lists of one save, and what is known and banned is in it.          *)
(*                                                                         *)
(* FileIsWhole is not inductive.  That a file is whole when it is renamed  *)
(* follows from what its writer has written so far, and only while the     *)
(* writer is the only one of the temporary file.  With two of them, or one *)
(* whose file another has renamed, one rename is bound to find no file and *)
(* to throw (Excess): until it does some run of save() is busy, and after  *)
(* it has, "missed" says so.  That it stays whole follows from no run      *)
(* writing the file in place (Apart), unless "mixed" says so.              *)
(***************************************************************************)
EXTENDS Addresses, FiniteSetTheorems, WellFoundedInduction, TLAPS

Stages == {"idle", "truncate", "copy", "sort", "open", "address", "banned", "rename"}
Runs == [at : Stages, address : SUBSET Entries, banned : SUBSET Entries, file : {0} \cup Files]
Parts == [by : {0} \cup Savers, list : SUBSET Entries]

Writing(s) == save[s].at \in {"address", "banned", "rename"}
HasCopy(s) == save[s].at \in {"sort", "open", "address", "banned", "rename"}

MemoryTyped ==
  /\ now \in 1..MaxTime
  /\ known \in Lists /\ failed \in Lists /\ banned \in Lists /\ sorted \subseteq Entries

SavesTyped ==
  /\ save \in [Savers -> Runs]
  /\ \A s \in Savers : Writing(s) <=> save[s].file # 0

DiskTyped ==
  /\ inode \in [Files -> [address : Parts, banned : Parts]]
  /\ path \in {0} \cup Files /\ temp \in {0} \cup Files
  /\ path # 0 => path # temp

CountsTyped ==
  /\ life \in {"up", "exit", "down"} /\ lives \in 1..MaxLives /\ calls \in 0..MaxCalls
  /\ armed \in BOOLEAN /\ missed \in BOOLEAN /\ overlapped \in BOOLEAN /\ mixed \in BOOLEAN
  /\ life = "down" => lives < MaxLives

\* Nothing of a program that is not running is left.
DownIsEmpty ==
  life = "down" =>
    /\ known = Nobody /\ failed = Nobody /\ banned = Nobody
    /\ \A s \in Savers : save[s] = Idle

Alone ==
  ~overlapped => \A s, o \in Savers : save[s].at # "idle" /\ save[o].at # "idle" => s = o

\* More runs are to rename than there are files for it.
Excess ==
  \/ \E s \in Savers : Writing(s) /\ temp = 0
  \/ \E s, o \in Savers : s # o /\ Writing(s) /\ Writing(o)
Ordered == ~overlapped \/ (~missed /\ ~Excess)

\* A run that writes has the temporary file for itself, and there is in it what the run
\* has written so far.
WritesOwn(s) ==
  /\ save[s].file = temp
  /\ \A o \in Savers : Writing(o) => o = s
  /\ save[s].at \in {"banned", "rename"} =>
       inode[temp].address = [by |-> s, list |-> save[s].address]
  /\ save[s].at = "rename" => inode[temp].banned = [by |-> s, list |-> save[s].banned]
WritersOwn == Ordered => \A s \in Savers : Writing(s) => WritesOwn(s)

\* No run writes the file in place, but for one whose file another run has put there.
Apart == ~mixed => \A s \in Savers : Writing(s) => save[s].file # path

\* What a copy must hold for KnownIsSaved when it is in the file.
Covers(L, e) == e \in L \/ Cardinality({o \in L : o[2] >= e[2]}) >= Capacity
Current == life # "down" /\ ~armed /\ ~missed /\ ~overlapped
CopyHolds(s) ==
  /\ \A e \in EntriesOf(known) : Covers(save[s].address, e)
  /\ EntriesOf(banned) \subseteq save[s].banned
CopiesHold == Current => \A s \in Savers : HasCopy(s) => CopyHolds(s)

\* What holds whatever fails.
BaseInv ==
  /\ MemoryTyped /\ SavesTyped /\ DiskTyped /\ CountsTyped
  /\ DownIsEmpty /\ BannedStaysOut

\* What holds of the files as long as close() does not fail.
FilesInv == Alone /\ WritersOwn /\ Apart /\ FileIsWhole /\ CopiesHold /\ KnownIsSaved

AddressesInv == BaseInv /\ FilesInv

-----------------------------------------------------------------------------
\* Lists and their entries.
LEMMA Numbers ==
  /\ 0 \notin Files /\ Files \subseteq Nat
  /\ MaxTime \in Nat /\ MaxTime >= 1 /\ Capacity \in Nat
  /\ IsFiniteSet(Entries)
<1>1. Cardinality(Savers) \in Nat
  BY FS_CardinalityType, AddressesAssumption
<1>2. 0 \notin Files /\ Files \subseteq Nat
  BY <1>1 DEF Files
<1>3. IsFiniteSet(0..MaxTime)
  BY FS_Interval, AddressesAssumption
<1>4. IsFiniteSet(Addrs \X (0..MaxTime))
  BY <1>3, FS_Product, AddressesAssumption
<1> QED BY <1>2, <1>4, AddressesAssumption DEF Entries

\* A list is a function from some addresses to times.
LEMMA ListMember ==
  \A f : f \in Lists <=> \E S \in SUBSET Addrs : f \in [S -> 0..MaxTime]
BY DEF Lists

\* The empty list is one, without entries.
LEMMA NobodyIsList == Nobody \in Lists /\ EntriesOf(Nobody) = {} /\ DOMAIN Nobody = {}
<1>1. Nobody \in [{} -> 0..MaxTime]
  BY DEF Nobody
<1> QED BY <1>1, ListMember DEF EntriesOf

\* What a list says of its addresses.
LEMMA EntriesAreEntries ==
  ASSUME NEW f \in Lists
  PROVE  EntriesOf(f) \subseteq Entries /\ DOMAIN f \subseteq Addrs
         /\ \A a \in DOMAIN f : f[a] \in 0..MaxTime
BY ListMember DEF EntriesOf, Entries

\* The list itself, when fewer of its addresses are kept.
LEMMA RestrictIsList ==
  ASSUME NEW f \in Lists, NEW S \in SUBSET DOMAIN f
  PROVE  /\ Restrict(f, S) \in Lists /\ DOMAIN Restrict(f, S) = S
         /\ EntriesOf(Restrict(f, S)) \subseteq EntriesOf(f)
<1>1. Restrict(f, S) \in [S -> 0..MaxTime] /\ S \subseteq Addrs
  BY EntriesAreEntries DEF Restrict
<1>2. Restrict(f, S) \in Lists
  BY <1>1, ListMember
<1>3. EntriesOf(Restrict(f, S)) \subseteq EntriesOf(f)
  BY DEF Restrict, EntriesOf
<1> QED BY <1>1, <1>2, <1>3

\* An address registered.
LEMMA PutIsList ==
  ASSUME NEW f \in Lists, NEW a \in Addrs, NEW t \in 0..MaxTime
  PROVE  Put(f, a, t) \in Lists /\ DOMAIN Put(f, a, t) = DOMAIN f \cup {a}
<1>1. Put(f, a, t) \in [DOMAIN f \cup {a} -> 0..MaxTime]
  BY EntriesAreEntries DEF Put
<1>2. DOMAIN f \cup {a} \in SUBSET Addrs
  BY EntriesAreEntries
<1> QED BY <1>1, <1>2, ListMember

\* An address taken out.
LEMMA DropIsList ==
  ASSUME NEW f \in Lists, NEW a
  PROVE  /\ Drop(f, a) \in Lists /\ DOMAIN Drop(f, a) = DOMAIN f \ {a}
         /\ EntriesOf(Drop(f, a)) \subseteq EntriesOf(f)
BY RestrictIsList DEF Drop

\* A list without what is too old: truncate().
LEMMA FreshIsList ==
  ASSUME NEW f \in Lists
  PROVE  /\ Fresh(f) \in Lists /\ DOMAIN Fresh(f) \subseteq DOMAIN f
         /\ EntriesOf(Fresh(f)) \subseteq EntriesOf(f)
<1>1. {a \in DOMAIN f : f[a] >= now - StorageTime} \in SUBSET DOMAIN f
  OBVIOUS
<1> QED BY <1>1, RestrictIsList DEF Fresh

\* A copy of the newest entries covers what it was taken from, and a larger one does too.
LEMMA NewestCovers ==
  ASSUME NEW S \in SUBSET Entries, NEW N \in Newest(S)
  PROVE  N \subseteq S /\ \A e \in S : Covers(N, e)
<1>1. CASE Cardinality(S) <= Capacity
  BY <1>1 DEF Newest, Covers
<1>2. CASE ~(Cardinality(S) <= Capacity)
  <2>1. /\ N \subseteq S /\ Cardinality(N) = Capacity
        /\ \A e \in N, o \in S \ N : e[2] >= o[2]
    BY <1>2 DEF Newest
  <2>2. ASSUME NEW e \in S, e \notin N PROVE {o \in N : o[2] >= e[2]} = N
    BY <2>1, <2>2
  <2> QED BY <2>1, <2>2, Numbers DEF Covers
<1> QED BY <1>1, <1>2

\* What covers an entry still does when there is more.
LEMMA MoreCovers ==
  ASSUME NEW M \in SUBSET Entries, NEW L \in SUBSET M, NEW e, Covers(L, e)
  PROVE  Covers(M, e)
<1>1. CASE e \in L
  BY <1>1 DEF Covers
<1>2. CASE Cardinality({o \in L : o[2] >= e[2]}) >= Capacity
  <2> DEFINE A == {o \in L : o[2] >= e[2]}
             B == {o \in M : o[2] >= e[2]}
  <2>1. B \in SUBSET Entries /\ A \in SUBSET B
    OBVIOUS
  <2>2. IsFiniteSet(B)
    BY <2>1, Numbers, FS_Subset
  <2>3. IsFiniteSet(A) /\ Cardinality(A) <= Cardinality(B)
    BY <2>1, <2>2, FS_Subset
  <2>4. Cardinality(A) \in Nat /\ Cardinality(B) \in Nat
    BY <2>2, <2>3, FS_CardinalityType
  <2>5. Cardinality(B) >= Capacity
    BY <1>2, <2>3, <2>4, Numbers
  <2> QED BY <2>5 DEF Covers
<1> QED BY <1>1, <1>2 DEF Covers


-----------------------------------------------------------------------------
\* A node without a file satisfies the invariant.
LEMMA InitAddresses == AddressesInit => AddressesInv
<1> SUFFICES ASSUME AddressesInit PROVE AddressesInv
  OBVIOUS
<1>1. MemoryTyped /\ CountsTyped
  <2>1. 1 \in 1..MaxTime /\ 1 \in 1..MaxLives /\ 0 \in 0..MaxCalls
    BY AddressesAssumption
  <2> QED BY <2>1, NobodyIsList DEF AddressesInit, MemoryTyped, CountsTyped
<1>2. SavesTyped /\ \A s \in Savers : save[s].at = "idle"
  BY DEF AddressesInit, SavesTyped, Runs, Stages, Idle, Writing
<1>3. DiskTyped
  BY DEF AddressesInit, DiskTyped, Parts, Empty, Unwritten
<1>4. DownIsEmpty /\ Alone /\ WritersOwn /\ Apart /\ FileIsWhole /\ CopiesHold
  BY <1>2 DEF AddressesInit, DownIsEmpty, Alone, WritersOwn, Writing, Apart, FileIsWhole,
    CopiesHold, HasCopy
<1>5. KnownIsSaved /\ BannedStaysOut
  BY NobodyIsList DEF AddressesInit, KnownIsSaved, BannedStaysOut
<1> QED BY <1>1, <1>2, <1>3, <1>4, <1>5 DEF AddressesInv, BaseInv, FilesInv

-----------------------------------------------------------------------------
\* What holds whatever fails.
\* A call that does not ask for a save only forgets an address.
LEMMA CallStep ==
  ASSUME BaseInv, NEW a \in Addrs, NEW t \in 1..MaxTime, reg(a, t) \/ fail(a, t) \/ ban(a)
  PROVE  /\ Called
         /\ known' \in Lists /\ failed' \in Lists /\ banned' \in Lists /\ armed' \in BOOLEAN
         /\ armed' \/ (~armed /\ EntriesOf(known') \subseteq EntriesOf(known) /\ banned' = banned)
         /\ BannedStaysOut'
<1>1. /\ known \in Lists /\ failed \in Lists /\ banned \in Lists /\ armed \in BOOLEAN
      /\ now \in 0..MaxTime /\ t \in 0..MaxTime
      /\ DOMAIN banned \cap (DOMAIN known \cup DOMAIN failed) = {}
  BY Numbers DEF BaseInv, MemoryTyped, CountsTyped, BannedStaysOut
<1>2. CASE reg(a, t)
  <2>1. /\ Called /\ UNCHANGED <<failed, banned>>
        /\ \/ UNCHANGED <<known, armed>>
           \/ a \notin DOMAIN banned /\ known' = Put(known, a, t) /\ armed' = TRUE
           \/ UNCHANGED known /\ armed' \in BOOLEAN /\ (armed => armed')
    BY <1>1, <1>2 DEF reg
  <2>2. Put(known, a, t) \in Lists /\ DOMAIN Put(known, a, t) = DOMAIN known \cup {a}
    BY <1>1, PutIsList
  <2>3. CASE UNCHANGED <<known, armed>>
    BY <1>1, <2>1, <2>3 DEF BannedStaysOut
  <2>4. CASE a \notin DOMAIN banned /\ known' = Put(known, a, t) /\ armed' = TRUE
    BY <1>1, <2>1, <2>2, <2>4 DEF BannedStaysOut
  <2>5. CASE UNCHANGED known /\ armed' \in BOOLEAN /\ (armed => armed')
    BY <1>1, <2>1, <2>5 DEF BannedStaysOut
  <2> QED BY <2>1, <2>3, <2>4, <2>5
<1>3. CASE fail(a, t)
  <2>1. PICK time \in 0..MaxTime :
          /\ Called /\ UNCHANGED banned
          /\ \/ UNCHANGED <<known, failed, armed>>
             \/ /\ a \notin DOMAIN banned /\ known' = Drop(known, a)
                /\ failed' = failed \/ failed' = Put(failed, a, time)
                /\ armed' \in BOOLEAN /\ (armed => armed')
    <3>1. CASE a \in DOMAIN banned
      BY <1>1, <1>3, <3>1 DEF fail
    <3>2. CASE a \notin DOMAIN banned
      <4> DEFINE later == a \in DOMAIN known /\ known[a] > t
      <4>1. PICK time \in 0..MaxTime : time = IF later THEN known[a] ELSE t
        BY <1>1, EntriesAreEntries
      <4>2. /\ known' = Drop(known, a) /\ (failed' = failed \/ failed' = Put(failed, a, time))
            /\ armed' = (armed \/ later \/ (a \in DOMAIN failed /\ failed[a] < time))
        BY <1>3, <3>2, <4>1 DEF fail
      <4> QED BY <1>1, <1>3, <3>2, <4>2 DEF fail
    <3> QED BY <3>1, <3>2
  <2>2. /\ Drop(known, a) \in Lists /\ DOMAIN Drop(known, a) = DOMAIN known \ {a}
        /\ EntriesOf(Drop(known, a)) \subseteq EntriesOf(known)
    BY <1>1, DropIsList
  <2>3. Put(failed, a, time) \in Lists /\ DOMAIN Put(failed, a, time) = DOMAIN failed \cup {a}
    BY <1>1, PutIsList
  <2> QED BY <1>1, <2>1, <2>2, <2>3 DEF BannedStaysOut
<1>4. CASE ban(a)
  <2>1. /\ Called /\ known' = Drop(known, a) /\ failed' = Drop(failed, a)
        /\ banned' = Put(banned, a, now) /\ armed' = TRUE
    BY <1>4 DEF ban
  <2>2. /\ Drop(known, a) \in Lists /\ DOMAIN Drop(known, a) = DOMAIN known \ {a}
        /\ Drop(failed, a) \in Lists /\ DOMAIN Drop(failed, a) = DOMAIN failed \ {a}
        /\ Put(banned, a, now) \in Lists /\ DOMAIN Put(banned, a, now) = DOMAIN banned \cup {a}
    BY <1>1, DropIsList, PutIsList
  <2> QED BY <1>1, <2>1, <2>2 DEF BannedStaysOut
<1> QED BY <1>2, <1>3, <1>4

\* reg, fail and ban keep the types and keep the banned out.
LEMMA CallBase ==
  ASSUME BaseInv, NEW a \in Addrs, NEW t \in 1..MaxTime, reg(a, t) \/ fail(a, t) \/ ban(a)
  PROVE  BaseInv'
<1>1. /\ UNCHANGED <<now, sorted, save, inode, path, temp, life, lives, missed, overlapped, mixed>>
      /\ life = "up" /\ calls' = calls + 1 /\ calls < MaxCalls
  BY CallStep DEF Called, disk, history
<1>2. MemoryTyped' /\ CountsTyped' /\ DownIsEmpty'
  BY <1>1, CallStep, AddressesAssumption DEF BaseInv, MemoryTyped, CountsTyped, DownIsEmpty
<1>3. SavesTyped' /\ DiskTyped'
  BY <1>1 DEF BaseInv, SavesTyped, DiskTyped, Writing
<1> QED BY <1>2, <1>3, CallStep DEF BaseInv

\* The run of save() that a step moves on, and the others.
LEMMA RunMoves ==
  ASSUME SavesTyped, NEW s \in Savers, NEW r \in Runs, save' = [save EXCEPT ![s] = r]
  PROVE  save' \in [Savers -> Runs] /\ save'[s] = r
         /\ \A o \in Savers : o # s => save'[o] = save[o]
BY DEF SavesTyped

\* A step of a save that only takes away from the lists keeps them.
LEMMA RunBase ==
  ASSUME BaseInv, NEW s \in Savers, NEW r \in Runs, save' = [save EXCEPT ![s] = r],
         r.at \in {"address", "banned", "rename"} <=> r.file # 0,
         life' # "down", UNCHANGED <<now, failed, lives, calls>>,
         known' \in Lists, DOMAIN known' \subseteq DOMAIN known,
         banned' \in Lists, DOMAIN banned' \subseteq DOMAIN banned,
         sorted' \subseteq Entries,
         life' \in {"up", "exit"}, armed' \in BOOLEAN, missed' \in BOOLEAN, overlapped' \in BOOLEAN,
         mixed' \in BOOLEAN
  PROVE  MemoryTyped' /\ SavesTyped' /\ CountsTyped' /\ DownIsEmpty' /\ BannedStaysOut'
<1>1. /\ save' \in [Savers -> Runs] /\ save'[s] = r
      /\ \A o \in Savers : o # s => save'[o] = save[o]
  BY RunMoves DEF BaseInv
<1>2. SavesTyped'
  BY <1>1 DEF BaseInv, SavesTyped, Writing
<1>3. MemoryTyped' /\ CountsTyped' /\ DownIsEmpty' /\ BannedStaysOut'
  BY DEF BaseInv, MemoryTyped, CountsTyped, DownIsEmpty, BannedStaysOut
<1> QED BY <1>2, <1>3

\* The steps of save() before it opens its file.
LEMMA MemoryStepBase ==
  ASSUME BaseInv, NEW s \in Savers, Start(s) \/ Truncate(s) \/ Copy(s) \/ Sort(s)
  PROVE  BaseInv'
<1>1. /\ save[s] \in Runs /\ (Writing(s) <=> save[s].file # 0)
      /\ known \in Lists /\ failed \in Lists /\ banned \in Lists /\ sorted \subseteq Entries
      /\ life \in {"up", "exit", "down"} /\ armed \in BOOLEAN /\ missed \in BOOLEAN
      /\ overlapped \in BOOLEAN /\ mixed \in BOOLEAN /\ Busy \in BOOLEAN
  BY DEF BaseInv, MemoryTyped, SavesTyped, CountsTyped, Busy
<1>2. DiskTyped' 
  <2>1. UNCHANGED <<inode, path, temp>>
    BY DEF Start, Truncate, Copy, Sort, disk, history
  <2> QED BY <2>1 DEF BaseInv, DiskTyped
<1>3. CASE Start(s)
  <2> DEFINE r == [save[s] EXCEPT !.at = "truncate"]
  <2>1. r \in Runs /\ r.at = "truncate" /\ r.file = 0
    BY <1>1, <1>3 DEF Start, Runs, Stages, Writing
  <2>2. save' = [save EXCEPT ![s] = r] /\ life' \in {"up", "exit"}
        /\ UNCHANGED <<now, known, failed, banned, sorted, lives, calls>>
    BY <1>3 DEF Start, memory, bounds, history
  <2>3. armed' \in BOOLEAN /\ missed' \in BOOLEAN /\ overlapped' \in BOOLEAN
        /\ mixed' = mixed
    BY <1>1, <1>3 DEF Start
  <2> HIDE DEF r
  <2> QED BY <1>1, <1>2, <2>1, <2>2, <2>3, RunBase DEF BaseInv
<1>4. CASE Truncate(s)
  <2> DEFINE r == [save[s] EXCEPT !.at = "copy"]
  <2>1. r \in Runs /\ r.at = "copy" /\ r.file = 0
    BY <1>1, <1>4 DEF Truncate, At, Runs, Stages, Writing
  <2>2. save' = [save EXCEPT ![s] = r] /\ life' = life /\ life # "down"
        /\ UNCHANGED <<now, failed, sorted, armed, missed, overlapped, mixed, lives,
                       calls>>
        /\ known' = Fresh(known) /\ banned' = Fresh(banned)
    BY <1>4 DEF Truncate, At, bounds, history
  <2>3. /\ Fresh(known) \in Lists /\ DOMAIN Fresh(known) \subseteq DOMAIN known
        /\ Fresh(banned) \in Lists /\ DOMAIN Fresh(banned) \subseteq DOMAIN banned
    BY <1>1, FreshIsList
  <2> HIDE DEF r
  <2> QED BY <1>1, <1>2, <2>1, <2>2, <2>3, RunBase DEF BaseInv
<1>5. CASE Copy(s)
  <2>1. PICK N \in Newest(EntriesOf(known)) :
          save' = [save EXCEPT ![s] = [at |-> "sort", address |-> N,
                                       banned |-> EntriesOf(banned), file |-> 0]]
    BY <1>5 DEF Copy
  <2> DEFINE r == [at |-> "sort", address |-> N, banned |-> EntriesOf(banned), file |-> 0]
  <2>2. EntriesOf(known) \subseteq Entries /\ EntriesOf(banned) \subseteq Entries
    BY <1>1, EntriesAreEntries
  <2>3. N \subseteq EntriesOf(known)
    BY <2>2, NewestCovers
  <2>4. r \in Runs /\ r.at = "sort" /\ r.file = 0 /\ save' = [save EXCEPT ![s] = r]
    BY <2>1, <2>2, <2>3 DEF Runs, Stages
  <2>5. life' = life /\ life # "down"
        /\ UNCHANGED <<now, known, failed, banned, sorted, armed, missed, overlapped, mixed, lives,
                       calls>>
    BY <1>5 DEF Copy, At, memory, bounds, history
  <2> HIDE DEF r
  <2> QED BY <1>1, <1>2, <2>4, <2>5, RunBase DEF BaseInv
<1>6. CASE Sort(s)
  <2> DEFINE r == [save[s] EXCEPT !.at = "open", !.address = @ \cup EntriesOf(failed)]
  <2>1. r \in Runs /\ r.at = "open" /\ r.file = 0
    <3>1. EntriesOf(failed) \subseteq Entries
      BY <1>1, EntriesAreEntries
    <3> QED BY <1>1, <1>6, <3>1 DEF Sort, At, Runs, Stages, Writing
  <2>2. save' = [save EXCEPT ![s] = r] /\ life' = life /\ life # "down"
        /\ UNCHANGED <<now, known, failed, banned, armed, missed, overlapped, mixed, lives,
                       calls>>
        /\ sorted' = save[s].address
    BY <1>6 DEF Sort, At, bounds, history
  <2>3. sorted' \subseteq Entries
    BY <1>1, <2>2 DEF Runs
  <2> HIDE DEF r
  <2> QED BY <1>1, <1>2, <2>1, <2>2, <2>3, RunBase DEF BaseInv
<1> QED BY <1>3, <1>4, <1>5, <1>6

\* The steps of save() that touch the file.
LEMMA FileStepBase ==
  ASSUME BaseInv, NEW s \in Savers, Open(s) \/ WriteAddress(s) \/ WriteBanned(s) \/ Rename(s)
  PROVE  BaseInv'
<1>1. /\ save[s] \in Runs /\ (Writing(s) <=> save[s].file # 0)
      /\ known \in Lists /\ failed \in Lists /\ banned \in Lists /\ sorted \subseteq Entries
      /\ life \in {"up", "exit", "down"} /\ armed \in BOOLEAN /\ missed \in BOOLEAN
      /\ overlapped \in BOOLEAN /\ mixed \in BOOLEAN
      /\ inode \in [Files -> [address : Parts, banned : Parts]]
      /\ path \in {0} \cup Files /\ temp \in {0} \cup Files /\ (path # 0 => path # temp)
  BY DEF BaseInv, MemoryTyped, SavesTyped, CountsTyped, DiskTyped
<1>2. /\ UNCHANGED <<now, known, failed, banned, sorted, armed, life, lives, calls, overlapped>>
      /\ life # "down" /\ life' \in {"up", "exit"}
  BY <1>1 DEF Open, WriteAddress, WriteBanned, Rename, At, memory, bounds, history
<1>3. ASSUME NEW r \in Runs, save' = [save EXCEPT ![s] = r],
             r.at \in {"address", "banned", "rename"} <=> r.file # 0,
             missed' \in BOOLEAN, mixed' \in BOOLEAN, DiskTyped'
      PROVE  BaseInv'
  BY <1>1, <1>2, <1>3, RunBase DEF BaseInv
<1>4. CASE SaveThrows(s) /\ UNCHANGED <<inode, path, temp, mixed>>
  <2>1. Idle \in Runs /\ Idle.at = "idle" /\ Idle.file = 0
    BY DEF Runs, Stages, Idle
  <2>2. DiskTyped'
    BY <1>1, <1>4 DEF DiskTyped
  <2>3. save' = [save EXCEPT ![s] = Idle] /\ missed' = TRUE
    BY <1>4 DEF SaveThrows
  <2>4. mixed' = mixed
    BY <1>4
  <2> QED BY <1>1, <1>3, <2>1, <2>2, <2>3, <2>4
<1>5. CASE Open(s)
  <2>1. ASSUME NEW f \in Files, f = temp \/ (temp = 0 /\ f # path),
               inode' = [inode EXCEPT ![f] = Empty], temp' = f, path' = path,
               save' = [save EXCEPT ![s].at = "address", ![s].file = f],
               missed' = missed, mixed' = mixed
        PROVE  BaseInv'
    <3> DEFINE r == [save[s] EXCEPT !.at = "address", !.file = f]
    <3>1. r \in Runs /\ r.at = "address" /\ r.file = f /\ f # 0
      BY <1>1, Numbers DEF Runs, Stages
    <3>2. save' = [save EXCEPT ![s] = r]
      BY <2>1
    <3>3. DiskTyped'
      BY <1>1, <2>1, <3>1 DEF DiskTyped, Empty, Unwritten, Parts
    <3> HIDE DEF r
    <3> QED BY <1>1, <1>3, <2>1, <3>1, <3>2, <3>3
  <2> QED BY <1>4, <1>5, <2>1 DEF Open
<1>6. ASSUME NEW line \in {"banned", "rename"}, save' = [save EXCEPT ![s].at = line],
             Writing(s), missed' = missed, mixed' = mixed, DiskTyped'
      PROVE  BaseInv'
  <2> DEFINE r == [save[s] EXCEPT !.at = line]
  <2>1. r \in Runs /\ r.at = line /\ r.file # 0 /\ save' = [save EXCEPT ![s] = r]
    BY <1>1, <1>6 DEF Runs, Stages
  <2> HIDE DEF r
  <2> QED BY <1>1, <1>3, <1>6, <2>1
<1>7. CASE WriteAddress(s)
  <2>1. /\ inode' = [inode EXCEPT ![save[s].file].address = [by |-> s, list |-> save[s].address]]
        /\ save' = [save EXCEPT ![s].at = "banned"] /\ UNCHANGED <<path, temp, missed, mixed>>
        /\ Writing(s)
    BY <1>7 DEF WriteAddress, SaveStep, At, Writing
  <2>2. save[s].file \in Files /\ [by |-> s, list |-> save[s].address] \in Parts
    BY <1>1, <2>1 DEF Runs, Parts
  <2>3. DiskTyped'
    BY <1>1, <2>1, <2>2 DEF DiskTyped
  <2> QED BY <1>6, <2>1, <2>3
<1>8. CASE WriteBanned(s)
  <2>1. Writing(s) /\ UNCHANGED <<path, temp, mixed>>
    BY <1>8 DEF WriteBanned, At, Writing
  <2>2. CASE SaveThrows(s) /\ UNCHANGED inode
    BY <1>4, <2>1, <2>2
  <2>3. CASE /\ UNCHANGED inode \/ inode' =
                  [inode EXCEPT ![save[s].file].banned = [by |-> s, list |-> save[s].banned]]
             /\ SaveStep(s, "rename")
    <3>1. save[s].file \in Files /\ [by |-> s, list |-> save[s].banned] \in Parts
      BY <1>1, <2>1 DEF Runs, Parts
    <3>2. DiskTyped'
      BY <1>1, <2>1, <2>3, <3>1 DEF DiskTyped
    <3> QED BY <1>6, <2>1, <2>3, <3>2 DEF SaveStep
  <2> QED BY <1>8, <2>2, <2>3 DEF WriteBanned
<1>9. CASE Rename(s)
  <2>1. CASE temp = 0
    BY <1>2, <1>4, <1>9, <2>1 DEF Rename
  <2>2. CASE temp # 0
    <3>1. /\ path' = temp /\ temp' = 0 /\ save' = [save EXCEPT ![s] = Idle]
          /\ missed' = missed /\ inode' = inode /\ mixed' \in BOOLEAN
      BY <1>1, <1>9, <2>2 DEF Rename
    <3>2. DiskTyped'
      BY <1>1, <2>2, <3>1 DEF DiskTyped
    <3>3. Idle \in Runs /\ Idle.at = "idle" /\ Idle.file = 0
      BY DEF Runs, Stages, Idle
    <3> QED BY <1>1, <1>3, <3>1, <3>2, <3>3
  <2> QED BY <2>1, <2>2
<1> QED BY <1>5, <1>7, <1>8, <1>9

\* The end of the process.
LEMMA EndBase ==
  ASSUME BaseInv, NodeEnds
  PROVE  BaseInv'
<1>1. /\ life' = "down" /\ lives < MaxLives /\ lives' = lives
      /\ save' = [s \in Savers |-> Idle]
      /\ known' = Nobody /\ failed' = Nobody /\ banned' = Nobody /\ sorted' = {}
      /\ armed' = FALSE /\ missed' = FALSE /\ overlapped' = FALSE
      /\ UNCHANGED <<now, calls, inode, path, temp, mixed>>
  BY DEF NodeEnds, disk, bounds, history
<1>2. Idle \in Runs /\ Idle.at = "idle" /\ Idle.file = 0
  BY DEF Runs, Stages, Idle
<1>3. SavesTyped' /\ DownIsEmpty'
  BY <1>1, <1>2 DEF SavesTyped, DownIsEmpty, Writing
<1>4. MemoryTyped' /\ DiskTyped' /\ BannedStaysOut'
  BY <1>1, NobodyIsList DEF BaseInv, MemoryTyped, DiskTyped, BannedStaysOut
<1>5. CountsTyped'
  BY <1>1 DEF BaseInv, CountsTyped
<1> QED BY <1>3, <1>4, <1>5 DEF BaseInv

\* Every non-empty set of times has an earliest one.
LEMMA EarliestTime ==
  ASSUME NEW T, T \subseteq Nat, T # {}
  PROVE  \E x \in T : \A y \in T : x <= y
<1> DEFINE R == {ss \in Nat \X Nat : ss[1] < ss[2]}
<1>1. IsWellFoundedOn(R, Nat)
  BY NatLessThanWellFounded DEF OpToRel
<1> HIDE DEF R
<1>2. PICK x \in T : \A y \in T : ~ (<<y, x>> \in R)
  BY <1>1, WFMin, Zenon
<1>3. \A y \in T : ~ (y < x)
  BY <1>2 DEF R
<1> QED BY <1>3

\* What load() makes of two lists of entries is a list of some of them.
LEMMA LoadMakesList ==
  ASSUME NEW address \in SUBSET Entries, NEW ban_ \in SUBSET Entries, Load(address, ban_)
  PROVE  /\ known' \in Lists /\ EntriesOf(known') \subseteq address \cup ban_
         /\ sorted' = address /\ armed' \in BOOLEAN
<1> DEFINE Times(S, a) == {t \in 0..MaxTime : <<a, t>> \in S}
           Oldest(S, a) == CHOOSE t \in 0..MaxTime :
             <<a, t>> \in S /\ \A u \in 0..MaxTime : <<a, u>> \in S => t <= u
           all == [a \in {e[1] : e \in address \cup ban_} |->
                     IF a \in {e[1] : e \in address} THEN Oldest(address, a) ELSE Oldest(ban_, a)]
<1>1. sorted' = address /\ known' = Fresh(all) /\ armed' = (Fresh(all) # all)
  BY DEF Load
<1>2. ASSUME NEW S \in SUBSET Entries, NEW a \in {e[1] : e \in S}
      PROVE  Oldest(S, a) \in 0..MaxTime /\ <<a, Oldest(S, a)>> \in S
  <2>1. PICK e \in S : a = e[1]
    BY <1>2
  <2>2. e \in Addrs \X (0..MaxTime)
    BY DEF Entries
  <2>3. e[2] \in 0..MaxTime /\ <<a, e[2]>> \in S
    BY <2>1, <2>2
  <2>4. Times(S, a) \subseteq Nat /\ Times(S, a) # {}
    BY <2>3, Numbers
  <2> HIDE DEF Times
  <2>5. PICK t \in Times(S, a) : \A u \in Times(S, a) : t <= u
    BY <2>4, EarliestTime
  <2>6. t \in 0..MaxTime /\ <<a, t>> \in S /\ \A u \in 0..MaxTime : <<a, u>> \in S => t <= u
    BY <2>5 DEF Times
  <2> QED BY <2>6
<1>3. ASSUME NEW a \in {e[1] : e \in address \cup ban_}
      PROVE  all[a] \in 0..MaxTime /\ <<a, all[a]>> \in address \cup ban_
  <2>1. CASE a \in {e[1] : e \in address}
    <3>1. all[a] = Oldest(address, a)
      BY <2>1
    <3> HIDE DEF all, Oldest
    <3> QED BY <1>2, <2>1, <3>1
  <2>2. CASE a \notin {e[1] : e \in address}
    <3>1. all[a] = Oldest(ban_, a) /\ a \in {e[1] : e \in ban_}
      BY <1>3, <2>2
    <3> HIDE DEF all, Oldest
    <3> QED BY <1>2, <3>1
  <2> QED BY <2>1, <2>2
<1>4. /\ DOMAIN all = {e[1] : e \in address \cup ban_}
      /\ all = [a \in DOMAIN all |-> all[a]]
  OBVIOUS
<1>5. {e[1] : e \in address \cup ban_} \in SUBSET Addrs
  BY DEF Entries
<1> HIDE DEF all, Oldest, Times
<1>6. all \in Lists /\ EntriesOf(all) \subseteq address \cup ban_
  <2>1. all \in [DOMAIN all -> 0..MaxTime]
    BY <1>3, <1>4
  <2> QED BY <1>3, <1>4, <1>5, <2>1, ListMember DEF EntriesOf
<1> QED BY <1>1, <1>6, FreshIsList

\* A start reads some of what is in the file, and nothing else.
LEMMA RestartReads ==
  ASSUME BaseInv, Restart
  PROVE  /\ known' \in Lists /\ sorted' \subseteq Entries /\ armed' \in BOOLEAN
         /\ path = 0 => EntriesOf(known') = {}
         /\ path # 0 => EntriesOf(known') \subseteq
                           inode[path].address.list \cup inode[path].banned.list
<1>1. PICK r \in Read(path) : \E address \in Newest(r[1]) : Load(address, r[2])
  BY DEF Restart
<1>2. PICK address \in Newest(r[1]) : Load(address, r[2])
  BY <1>1
<1>3. ASSUME path # 0
      PROVE  /\ r[1] \subseteq inode[path].address.list /\ r[2] \subseteq inode[path].banned.list
             /\ inode[path].address.list \subseteq Entries
             /\ inode[path].banned.list \subseteq Entries
  <2>1. inode[path] \in [address : Parts, banned : Parts]
    BY <1>3 DEF BaseInv, DiskTyped
  <2> QED BY <1>1, <1>3, <2>1 DEF Read, Parts
<1>4. r[1] \subseteq Entries /\ r[2] \subseteq Entries /\ (path = 0 => r[1] = {} /\ r[2] = {})
  BY <1>1, <1>3 DEF Read
<1>5. address \subseteq r[1]
  BY <1>2, <1>4, NewestCovers
<1>6. /\ known' \in Lists /\ EntriesOf(known') \subseteq address \cup r[2]
      /\ sorted' = address /\ armed' \in BOOLEAN
  BY <1>2, <1>4, <1>5, LoadMakesList
<1> QED BY <1>3, <1>4, <1>5, <1>6

\* The start with the file that is there.
LEMMA RestartBase ==
  ASSUME BaseInv, Restart
  PROVE  BaseInv'
<1>1. /\ life = "down" /\ life' = "up" /\ lives' = lives + 1
      /\ UNCHANGED <<now, failed, banned, save, inode, path, temp, calls, missed, overlapped,
                     mixed>>
  BY DEF Restart, disk, history
<1>2. banned = Nobody /\ failed = Nobody /\ lives < MaxLives
  BY <1>1 DEF BaseInv, DownIsEmpty, CountsTyped
<1>3. MemoryTyped' /\ DownIsEmpty' /\ SavesTyped' /\ DiskTyped'
  BY <1>1, RestartReads DEF BaseInv, MemoryTyped, DownIsEmpty, SavesTyped, DiskTyped, Writing
<1>4. CountsTyped'
  BY <1>1, <1>2, RestartReads, AddressesAssumption DEF BaseInv, CountsTyped
<1>5. BannedStaysOut'
  BY <1>1, <1>2, NobodyIsList DEF BannedStaysOut
<1> QED BY <1>3, <1>4, <1>5 DEF BaseInv

\* Every step keeps the first half of the invariant.
LEMMA BaseStep ==
  ASSUME BaseInv, [AddressesNext]_addressVars
  PROVE  BaseInv'
<1>1. CASE Tick
  <2>1. UNCHANGED <<known, failed, banned, sorted, armed, save, inode, path, temp, life, lives,
                    calls, missed, overlapped, mixed>>
        /\ now' = now + 1 /\ now < MaxTime
    BY <1>1 DEF Tick, memory, bounds, disk, history
  <2>2. MemoryTyped' /\ CountsTyped' /\ DownIsEmpty' /\ BannedStaysOut'
    BY <2>1, Numbers DEF BaseInv, MemoryTyped, CountsTyped, DownIsEmpty, BannedStaysOut
  <2>3. SavesTyped' /\ DiskTyped'
    BY <2>1 DEF BaseInv, SavesTyped, DiskTyped, Writing
  <2> QED BY <2>2, <2>3 DEF BaseInv
<1>2. ASSUME NEW a \in Addrs, NEW t \in 1..MaxTime, reg(a, t) \/ fail(a, t)
      PROVE  BaseInv'
  BY <1>2, CallBase
<1>3. ASSUME NEW a \in Addrs, ban(a)
      PROVE  BaseInv'
  <2>1. 1 \in 1..MaxTime
    BY Numbers
  <2> QED BY <1>3, <2>1, CallBase
<1>4. ASSUME NEW s \in Savers, Start(s) \/ Truncate(s) \/ Copy(s) \/ Sort(s)
      PROVE  BaseInv'
  BY <1>4, MemoryStepBase
<1>5. ASSUME NEW s \in Savers, Open(s) \/ WriteAddress(s) \/ WriteBanned(s) \/ Rename(s)
      PROVE  BaseInv'
  BY <1>5, FileStepBase
<1>6. CASE NodeEnds
  BY <1>6, EndBase
<1>7. CASE Restart
  BY <1>7, RestartBase
<1>8. CASE UNCHANGED addressVars
  <2>1. UNCHANGED <<now, known, failed, banned, sorted, armed, save, inode, path, temp, life,
                    lives, calls, missed, overlapped, mixed>>
    BY <1>8 DEF addressVars, memory, bounds, disk, history
  <2>2. MemoryTyped' /\ CountsTyped' /\ DownIsEmpty' /\ BannedStaysOut'
    BY <2>1 DEF BaseInv, MemoryTyped, CountsTyped, DownIsEmpty, BannedStaysOut
  <2>3. SavesTyped' /\ DiskTyped'
    BY <2>1 DEF BaseInv, SavesTyped, DiskTyped, Writing
  <2> QED BY <2>2, <2>3 DEF BaseInv
<1> QED BY <1>1, <1>2, <1>3, <1>4, <1>5, <1>6, <1>7, <1>8 DEF AddressesNext

-----------------------------------------------------------------------------
\* What a step leaves of the runs and their files when it touches neither.
LEMMA SaversSame ==
  ASSUME AddressesInv, UNCHANGED <<save, disk, missed, overlapped, mixed>>
  PROVE  Alone' /\ WritersOwn' /\ Apart' /\ FileIsWhole'
<1>1. UNCHANGED <<save, inode, path, temp, missed, overlapped, mixed>>
  BY DEF disk, history
<1>2. Alone'
  BY <1>1 DEF AddressesInv, BaseInv, FilesInv, SavesTyped, DiskTyped, Alone, Writing
<1>3. Busy' = Busy /\ Ordered' = Ordered /\ \A f : Whole(f)' = Whole(f)
  BY <1>1 DEF Busy, Ordered, Excess, Writing, Whole
<1>4. \A s \in Savers : Writing(s)' = Writing(s) /\ WritesOwn(s)' = WritesOwn(s)
  BY <1>1 DEF Writing, WritesOwn
<1> QED BY <1>1, <1>2, <1>3, <1>4 DEF AddressesInv, FilesInv, WritersOwn, Apart, FileIsWhole

\* A step that only forgets addresses leaves the rest of them saved.
LEMMA StillSaved ==
  ASSUME AddressesInv, UNCHANGED <<save, disk, missed, overlapped, mixed>>,
         Current' => Current /\ EntriesOf(known') \subseteq EntriesOf(known)
                             /\ EntriesOf(banned') \subseteq EntriesOf(banned)
  PROVE  CopiesHold' /\ KnownIsSaved'
<1>1. UNCHANGED <<save, inode, path, temp>>
  BY DEF disk, history
<1>2. SUFFICES ASSUME Current' PROVE CopiesHold' /\ KnownIsSaved'
  BY DEF CopiesHold, KnownIsSaved, Current
<1>3. \A s \in Savers : HasCopy(s)' => CopyHolds(s)'
  <2> SUFFICES ASSUME NEW s \in Savers, HasCopy(s)' PROVE CopyHolds(s)'
    OBVIOUS
  <2>1. CopyHolds(s)
    BY <1>1, <1>2 DEF AddressesInv, FilesInv, CopiesHold, HasCopy
  <2>2. \A e : Covers(save[s].address, e)' <=> Covers(save[s].address, e)
    BY <1>1 DEF Covers
  <2> QED BY <1>1, <1>2, <2>1, <2>2 DEF CopyHolds
<1>4. KnownIsSaved'
  <2>1. \A e : /\ InFile(path, e)' <=> InFile(path, e)
               /\ NewerInFile(path, e)' = NewerInFile(path, e)
    BY <1>1 DEF InFile, NewerInFile
  <2>2. Busy' = Busy
    BY <1>1 DEF Busy
  <2> QED BY <1>2, <2>1, <2>2 DEF AddressesInv, FilesInv, KnownIsSaved, Current
<1> QED BY <1>3, <1>4 DEF CopiesHold

-----------------------------------------------------------------------------
\* reg, fail and ban leave the runs of save() and the files alone.
LEMMA CallKeeps ==
  ASSUME AddressesInv, NEW a \in Addrs, NEW t \in 1..MaxTime, reg(a, t) \/ fail(a, t) \/ ban(a)
  PROVE  FilesInv'
<1>1. /\ UNCHANGED <<now, sorted, save, disk, life, lives, missed, overlapped, mixed>>
      /\ life = "up" /\ calls' = calls + 1 /\ calls < MaxCalls
  BY CallStep DEF AddressesInv, Called, history
<1>2. Current' => Current /\ EntriesOf(known') \subseteq EntriesOf(known)
                          /\ EntriesOf(banned') \subseteq EntriesOf(banned)
  BY <1>1, CallStep DEF AddressesInv, Current
<1> QED BY <1>1, <1>2, SaversSame, StillSaved DEF FilesInv

\* Time passes.
LEMMA TickKeeps ==
  ASSUME AddressesInv, Tick
  PROVE  FilesInv'
<1>1. UNCHANGED <<known, failed, banned, sorted, armed, save, disk, life, lives, calls, missed,
                  overlapped, mixed>>
      /\ now' = now + 1 /\ now < MaxTime
  BY DEF Tick, memory, bounds, history
<1>2. Current' => Current /\ EntriesOf(known') \subseteq EntriesOf(known)
                          /\ EntriesOf(banned') \subseteq EntriesOf(banned)
  BY <1>1 DEF Current
<1> QED BY <1>1, <1>2, SaversSame, StillSaved DEF FilesInv

-----------------------------------------------------------------------------
\* A step of a run that writes no file before or after it.
LEMMA NoWriter ==
  ASSUME AddressesInv, NEW s \in Savers, NEW r \in Runs, save' = [save EXCEPT ![s] = r],
         r.at \in {"truncate", "copy", "sort", "open"}, r.file = 0,
         ~Writing(s), save[s].at # "idle",
         UNCHANGED <<disk, missed, overlapped, mixed>>
  PROVE  Alone' /\ WritersOwn' /\ Apart' /\ FileIsWhole' /\ KnownIsSaved'
<1>1. /\ save' \in [Savers -> Runs] /\ save'[s] = r
      /\ \A o \in Savers : o # s => save'[o] = save[o]
      /\ UNCHANGED <<inode, path, temp, missed, overlapped, mixed>>
  BY RunMoves DEF AddressesInv, BaseInv, disk, history
<1>2. \A o \in Savers : Writing(o)' <=> Writing(o)
  BY <1>1 DEF Writing
<1>3. Alone'
  BY <1>1 DEF AddressesInv, BaseInv, FilesInv, DiskTyped, Alone
<1>4. Ordered' <=> Ordered
  BY <1>1, <1>2 DEF Ordered, Excess
<1>5. \A o \in Savers : Writing(o) => o # s /\ (WritesOwn(o)' <=> WritesOwn(o))
  BY <1>1, <1>2 DEF WritesOwn
<1>6. WritersOwn'
  BY <1>2, <1>4, <1>5 DEF AddressesInv, FilesInv, WritersOwn
<1>7. Busy /\ Busy'
  BY <1>1 DEF Busy
<1>8. FileIsWhole' /\ KnownIsSaved'
  BY <1>1, <1>7 DEF AddressesInv, FilesInv, FileIsWhole, KnownIsSaved, Whole
<1>9. Apart'
  BY <1>1, <1>2, <1>5 DEF AddressesInv, FilesInv, Apart
<1> QED BY <1>3, <1>6, <1>8, <1>9

\* A save starts, for an alarm or from the destructor.
LEMMA StartKeeps ==
  ASSUME AddressesInv, NEW s \in Savers, Start(s)
  PROVE  FilesInv'
<1> DEFINE r == [save[s] EXCEPT !.at = "truncate"]
<1>1. /\ save[s].at = "idle" /\ armed' = FALSE /\ life' \in {"up", "exit"}
      /\ save' = [save EXCEPT ![s] = r]
      /\ overlapped' = Busy /\ missed' = (missed /\ Busy) /\ mixed' = mixed
      /\ UNCHANGED <<now, known, failed, banned, sorted, inode, path, temp, lives, calls>>
  BY DEF Start, memory, disk, bounds, history
<1>2. r \in Runs /\ r.at = "truncate" /\ r.file = 0
  BY <1>1 DEF AddressesInv, BaseInv, SavesTyped, Runs, Stages, Writing
<1> HIDE DEF r
<1>3. /\ save' \in [Savers -> Runs] /\ save'[s] = r
      /\ \A o \in Savers : o # s => save'[o] = save[o]
  BY <1>1, <1>2, RunMoves DEF AddressesInv, BaseInv
<1>4. \A o \in Savers : (Writing(o)' <=> Writing(o)) /\ (HasCopy(o)' <=> HasCopy(o))
  BY <1>1, <1>2, <1>3 DEF Writing, HasCopy
<1>5. Busy' /\ (~Busy => \A o \in Savers : save[o].at = "idle")
  BY <1>2, <1>3 DEF Busy
<1>6. Alone' /\ CopiesHold'
  BY <1>1, <1>3, <1>4, <1>5 DEF Alone, CopiesHold, Current, HasCopy
<1>7. FileIsWhole' /\ KnownIsSaved'
  BY <1>1, <1>5 DEF AddressesInv, FilesInv, FileIsWhole, KnownIsSaved, Whole
<1>8. WritersOwn'
  <2> SUFFICES ASSUME Ordered', NEW o \in Savers, Writing(o)' PROVE WritesOwn(o)'
    BY DEF WritersOwn
  <2>1. Writing(o) /\ Busy
    BY <1>4, <1>5 DEF Writing
  <2>2. Ordered
    BY <1>1, <1>4, <2>1 DEF Ordered, Excess
  <2>3. WritesOwn(o)
    BY <2>1, <2>2 DEF AddressesInv, FilesInv, WritersOwn
  <2>4. o # s
    BY <1>1, <2>1 DEF Writing
  <2> QED BY <1>1, <1>3, <1>4, <2>3, <2>4 DEF WritesOwn
<1>9. Apart'
  <2>1. \A o \in Savers : Writing(o) => o # s
    BY <1>1 DEF Writing
  <2> QED BY <1>1, <1>3, <1>4, <2>1 DEF AddressesInv, FilesInv, Apart
<1> QED BY <1>6, <1>7, <1>8, <1>9 DEF FilesInv

\* What is too old is dropped at the head of a save.
LEMMA TruncateKeeps ==
  ASSUME AddressesInv, NEW s \in Savers, Truncate(s)
  PROVE  FilesInv'
<1> DEFINE r == [save[s] EXCEPT !.at = "copy"]
<1>1. /\ save[s].at = "truncate" /\ life # "down"
      /\ known' = Fresh(known) /\ banned' = Fresh(banned)
      /\ save' = [save EXCEPT ![s] = r]
      /\ UNCHANGED <<now, failed, sorted, armed, life, lives, calls, missed, overlapped, mixed>>
      /\ UNCHANGED disk
  BY DEF Truncate, At, bounds, history
<1>2. r \in Runs /\ r.at = "copy" /\ r.file = 0 /\ ~Writing(s)
  BY <1>1 DEF AddressesInv, BaseInv, SavesTyped, Runs, Stages, Writing
<1> HIDE DEF r
<1>3. /\ save' \in [Savers -> Runs] /\ save'[s] = r
      /\ \A o \in Savers : o # s => save'[o] = save[o]
  BY <1>1, <1>2, RunMoves DEF AddressesInv, BaseInv
<1>4. /\ Fresh(known) \in Lists /\ Fresh(banned) \in Lists
      /\ DOMAIN Fresh(known) \subseteq DOMAIN known /\ DOMAIN Fresh(banned) \subseteq DOMAIN banned
      /\ EntriesOf(Fresh(known)) \subseteq EntriesOf(known)
      /\ EntriesOf(Fresh(banned)) \subseteq EntriesOf(banned)
  BY FreshIsList DEF AddressesInv, BaseInv, MemoryTyped
<1>5. CopiesHold'
  <2> SUFFICES ASSUME Current', NEW o \in Savers, HasCopy(o)' PROVE CopyHolds(o)'
    BY DEF CopiesHold
  <2>1. o # s /\ HasCopy(o) /\ Current
    BY <1>1, <1>2, <1>3 DEF HasCopy, Current
  <2>2. CopyHolds(o) /\ save'[o] = save[o]
    BY <1>3, <2>1 DEF AddressesInv, FilesInv, CopiesHold
  <2>3. \A e : Covers(save[o].address, e)' <=> Covers(save[o].address, e)
    BY <2>2 DEF Covers
  <2> QED BY <1>1, <1>4, <2>2, <2>3 DEF CopyHolds
<1> QED BY <1>1, <1>2, <1>5, NoWriter DEF FilesInv

\* The entries of a list are copied: the newest of the known ones, all of the banned ones.
LEMMA CopyKeeps ==
  ASSUME AddressesInv, NEW s \in Savers, Copy(s)
  PROVE  FilesInv'
<1>1. /\ save[s].at = "copy" /\ life # "down"
      /\ UNCHANGED <<now, known, failed, banned, sorted, armed, life, lives, calls, missed,
                     overlapped, mixed>>
      /\ UNCHANGED disk
  BY DEF Copy, At, bounds, memory, history
<1>2. PICK N \in Newest(EntriesOf(known)) :
        save' = [save EXCEPT ![s] = [at |-> "sort", address |-> N,
                                     banned |-> EntriesOf(banned), file |-> 0]]
  BY DEF Copy
<1> DEFINE r == [at |-> "sort", address |-> N, banned |-> EntriesOf(banned), file |-> 0]
<1>3. EntriesOf(known) \subseteq Entries /\ EntriesOf(banned) \subseteq Entries
  BY EntriesAreEntries DEF AddressesInv, BaseInv, MemoryTyped
<1>4. N \subseteq EntriesOf(known) /\ \A e \in EntriesOf(known) : Covers(N, e)
  BY <1>3, NewestCovers
<1>5. /\ r \in Runs /\ r.at = "sort" /\ r.file = 0 /\ r.address = N
      /\ r.banned = EntriesOf(banned) /\ ~Writing(s)
  BY <1>1, <1>3, <1>4 DEF Runs, Stages, Writing
<1>6. save' = [save EXCEPT ![s] = r]
  BY <1>2
<1> HIDE DEF r
<1>7. /\ save' \in [Savers -> Runs] /\ save'[s] = r
      /\ \A o \in Savers : o # s => save'[o] = save[o]
  BY <1>5, <1>6, RunMoves DEF AddressesInv, BaseInv
<1>8. CopiesHold'
  <2> SUFFICES ASSUME Current', NEW o \in Savers, HasCopy(o)' PROVE CopyHolds(o)'
    BY DEF CopiesHold
  <2>1. Current
    BY <1>1 DEF Current
  <2>2. CASE o = s
    <3>1. \A e : Covers(save[o].address, e)' <=> Covers(N, e)
      BY <1>5, <1>7, <2>2 DEF Covers
    <3> QED BY <1>1, <1>4, <1>5, <1>7, <2>2, <3>1 DEF CopyHolds
  <2>3. CASE o # s
    <3>1. CopyHolds(o) /\ save'[o] = save[o]
      BY <1>7, <2>1, <2>3 DEF AddressesInv, FilesInv, CopiesHold, HasCopy
    <3>2. \A e : Covers(save[o].address, e)' <=> Covers(save[o].address, e)
      BY <3>1 DEF Covers
    <3> QED BY <1>1, <3>1, <3>2 DEF CopyHolds
  <2> QED BY <2>2, <2>3
<1> QED BY <1>1, <1>5, <1>6, <1>8, NoWriter DEF FilesInv

\* The sorted copy is kept, and the failed addresses join what a save writes.
LEMMA SortKeeps ==
  ASSUME AddressesInv, NEW s \in Savers, Sort(s)
  PROVE  FilesInv'
<1> DEFINE r == [save[s] EXCEPT !.at = "open", !.address = @ \cup EntriesOf(failed)]
<1>1. /\ save[s].at = "sort" /\ life # "down" /\ sorted' = save[s].address
      /\ save' = [save EXCEPT ![s] = r]
      /\ UNCHANGED <<now, known, failed, banned, armed, life, lives, calls, missed, overlapped,
                     mixed>>
      /\ UNCHANGED disk
  BY DEF Sort, At, bounds, history
<1>2. EntriesOf(failed) \subseteq Entries /\ save[s] \in Runs
  BY EntriesAreEntries DEF AddressesInv, BaseInv, MemoryTyped, SavesTyped
<1>3. /\ r \in Runs /\ r.at = "open" /\ r.file = 0 /\ ~Writing(s)
      /\ r.address = save[s].address \cup EntriesOf(failed) /\ r.banned = save[s].banned
  BY <1>1, <1>2 DEF AddressesInv, BaseInv, SavesTyped, Runs, Stages, Writing
<1> HIDE DEF r
<1>4. /\ save' \in [Savers -> Runs] /\ save'[s] = r
      /\ \A o \in Savers : o # s => save'[o] = save[o]
  BY <1>1, <1>3, RunMoves DEF AddressesInv, BaseInv
<1>5. CopiesHold'
  <2> SUFFICES ASSUME Current', NEW o \in Savers, HasCopy(o)' PROVE CopyHolds(o)'
    BY DEF CopiesHold
  <2>1. Current /\ HasCopy(o)
    BY <1>1, <1>4 DEF Current, HasCopy
  <2>2. CopyHolds(o)
    BY <2>1 DEF AddressesInv, FilesInv, CopiesHold
  <2>3. /\ save'[o].address \in SUBSET Entries /\ save[o].address \in SUBSET save'[o].address
        /\ save'[o].banned = save[o].banned
    BY <1>3, <1>4 DEF Runs
  <2>4. \A e : Covers(save[o].address, e) => Covers(save'[o].address, e)
    BY <2>3, MoreCovers
  <2>5. \A e : Covers(save[o].address, e)' <=> Covers(save'[o].address, e)
    BY DEF Covers
  <2> QED BY <1>1, <2>2, <2>3, <2>4, <2>5 DEF CopyHolds
<1> QED BY <1>1, <1>3, <1>5, NoWriter DEF FilesInv

-----------------------------------------------------------------------------
\* A run of save() throws: the files are as they were, and no copy is to be trusted.
LEMMA ThrowKeeps ==
  ASSUME AddressesInv, NEW s \in Savers, SaveThrows(s), life # "down",
         UNCHANGED <<now, memory, armed, disk, life, bounds, overlapped, mixed>>
  PROVE  FilesInv'
<1>1. /\ save' = [save EXCEPT ![s] = Idle] /\ missed' = TRUE
      /\ UNCHANGED <<now, known, failed, banned, sorted, armed, inode, path, temp, life, lives,
                     calls, overlapped, mixed>>
  BY DEF SaveThrows, memory, disk, bounds, history
<1>2. Idle \in Runs /\ Idle.at = "idle" /\ Idle.file = 0
  BY DEF Runs, Stages, Idle
<1>3. /\ save' \in [Savers -> Runs] /\ save'[s] = Idle
      /\ \A o \in Savers : o # s => save'[o] = save[o]
  BY <1>1, <1>2, RunMoves DEF AddressesInv, BaseInv
<1>4. \A o \in Savers : Writing(o)' => Writing(o) /\ o # s
  BY <1>2, <1>3 DEF Writing
<1>5. Alone'
  BY <1>1, <1>2, <1>3 DEF AddressesInv, BaseInv, FilesInv, SavesTyped, Alone, Writing
<1>6. WritersOwn'
  <2> SUFFICES ASSUME Ordered', NEW o \in Savers, Writing(o)' PROVE WritesOwn(o)'
    BY DEF WritersOwn
  <2>1. Ordered
    BY <1>1 DEF Ordered
  <2>2. WritesOwn(o) /\ o # s
    BY <1>4, <2>1 DEF AddressesInv, FilesInv, WritersOwn
  <2> QED BY <1>1, <1>3, <1>4, <2>2 DEF WritesOwn
<1>7. FileIsWhole' /\ CopiesHold' /\ KnownIsSaved'
  BY <1>1 DEF AddressesInv, FilesInv, FileIsWhole, Whole, CopiesHold, Current, KnownIsSaved
<1>8. Apart'
  BY <1>1, <1>3, <1>4 DEF AddressesInv, FilesInv, Apart
<1> QED BY <1>5, <1>6, <1>7, <1>8 DEF FilesInv

\* A save opens its temporary file.
LEMMA OpenKeeps ==
  ASSUME AddressesInv, NEW s \in Savers, Open(s)
  PROVE  FilesInv'
<1>1. /\ save[s].at = "open" /\ life # "down"
      /\ UNCHANGED <<now, known, failed, banned, sorted, armed, path, life, lives, calls,
                     overlapped, mixed>>
  BY DEF Open, At, memory, bounds, history
<1>2. CASE SaveThrows(s) /\ UNCHANGED <<inode, temp>>
  BY <1>1, <1>2, ThrowKeeps DEF disk, memory, bounds, history
<1>3. ASSUME NEW f \in Files, f = temp \/ (temp = 0 /\ f # path),
             inode' = [inode EXCEPT ![f] = Empty], temp' = f,
             save' = [save EXCEPT ![s].at = "address", ![s].file = f],
             UNCHANGED missed
      PROVE  FilesInv'
  <2> DEFINE r == [save[s] EXCEPT !.at = "address", !.file = f]
  <2>1. save' = [save EXCEPT ![s] = r] /\ f # 0 /\ f # path
    BY <1>3, Numbers DEF AddressesInv, BaseInv, DiskTyped
  <2>2. /\ r \in Runs /\ r.at = "address" /\ r.file = f
        /\ r.address = save[s].address /\ r.banned = save[s].banned
    BY DEF AddressesInv, BaseInv, SavesTyped, Runs, Stages
  <2> HIDE DEF r
  <2>3. /\ save' \in [Savers -> Runs] /\ save'[s] = r
        /\ \A o \in Savers : o # s => save'[o] = save[o]
    BY <2>1, <2>2, RunMoves DEF AddressesInv, BaseInv
  <2>4. Busy' /\ Writing(s)'
    BY <2>2, <2>3 DEF Busy, Writing
  <2>5. /\ \A o \in Savers : save'[o].at # "idle" <=> save[o].at # "idle"
        /\ \A o \in Savers : HasCopy(o)' <=> HasCopy(o)
        /\ \A o \in Savers : save'[o].address = save[o].address /\ save'[o].banned = save[o].banned
    BY <1>1, <2>2, <2>3 DEF HasCopy
  <2>6. Alone'
    BY <1>1, <2>5 DEF AddressesInv, FilesInv, Alone
  <2>7. WritersOwn'
    <3> SUFFICES ASSUME Ordered', NEW o \in Savers, Writing(o)' PROVE WritesOwn(o)'
      BY DEF WritersOwn
    <3>1. \A p \in Savers : Writing(p)' => p = s
      BY <2>4, <2>6 DEF Ordered, Excess, Alone, Writing
    <3> QED BY <1>3, <2>2, <2>3, <3>1 DEF WritesOwn
  <2>8. FileIsWhole' /\ KnownIsSaved'
    BY <1>1, <1>3, <2>1, <2>4 DEF AddressesInv, BaseInv, FilesInv, FileIsWhole,
      KnownIsSaved, Whole, DiskTyped
  <2>9. CopiesHold'
    <3>1. Current' <=> Current
      BY <1>1, <1>3 DEF Current
    <3>2. \A o \in Savers : CopyHolds(o)' <=> CopyHolds(o)
      BY <1>1, <2>5 DEF CopyHolds, Covers
    <3> QED BY <2>5, <3>1, <3>2 DEF AddressesInv, FilesInv, CopiesHold
  <2>10. Apart'
    <3>1. \A o \in Savers : o # s => (Writing(o)' <=> Writing(o))
      BY <2>3 DEF Writing
    <3> QED BY <1>1, <2>1, <2>2, <2>3, <3>1 DEF AddressesInv, FilesInv, Apart
  <2> QED BY <2>6, <2>7, <2>8, <2>9, <2>10 DEF FilesInv
<1> QED BY <1>2, <1>3 DEF Open

\* A step of a run that writes: it stays alone if it was, and so do the others.
LEMMA WriterMoves ==
  ASSUME AddressesInv, NEW s \in Savers, NEW line \in {"banned", "rename"}, Writing(s),
         save' = [save EXCEPT ![s].at = line],
         UNCHANGED <<now, known, failed, banned, sorted, armed, path, temp, life, lives, calls,
                     missed, overlapped, mixed>>,
         inode' \in [Files -> [address : Parts, banned : Parts]],
         \A f \in Files : f # save[s].file => inode'[f] = inode[f],
         Ordered => WritesOwn(s)'
  PROVE  FilesInv'
<1> DEFINE r == [save[s] EXCEPT !.at = line]
<1>1. save' = [save EXCEPT ![s] = r]
  OBVIOUS
<1>2. /\ r \in Runs /\ r.at = line /\ r.file = save[s].file
      /\ r.address = save[s].address /\ r.banned = save[s].banned
  BY DEF AddressesInv, BaseInv, SavesTyped, Runs, Stages
<1> HIDE DEF r
<1>3. /\ save' \in [Savers -> Runs] /\ save'[s] = r
      /\ \A o \in Savers : o # s => save'[o] = save[o]
  BY <1>1, <1>2, RunMoves DEF AddressesInv, BaseInv
<1>4. /\ \A o \in Savers : (Writing(o)' <=> Writing(o)) /\ (HasCopy(o)' <=> HasCopy(o))
      /\ \A o \in Savers : save'[o].at # "idle" <=> save[o].at # "idle"
      /\ \A o \in Savers : /\ save'[o].address = save[o].address
                           /\ save'[o].banned = save[o].banned /\ save'[o].file = save[o].file
  BY <1>2, <1>3 DEF Writing, HasCopy
<1>5. Busy /\ Busy'
  BY <1>4 DEF Busy, Writing
<1>6. life # "down"
  BY DEF AddressesInv, BaseInv, DownIsEmpty, Idle, Writing
<1>7. Alone'
  BY <1>3, <1>4, <1>6 DEF AddressesInv, BaseInv, FilesInv, SavesTyped, DownIsEmpty, Alone
<1>8. Ordered' <=> Ordered
  BY <1>4 DEF Ordered, Excess
<1>9. ASSUME Ordered PROVE save[s].file = temp /\ \A o \in Savers : Writing(o) => o = s
  BY <1>9 DEF AddressesInv, FilesInv, WritersOwn, WritesOwn
<1>10. WritersOwn'
  BY <1>4, <1>8, <1>9 DEF WritersOwn
<1>11. FileIsWhole' /\ KnownIsSaved'
  <2>1. ASSUME ~mixed, path # 0 PROVE Whole(path)'
    <3>1. Whole(path) /\ path \in Files /\ path # save[s].file
      BY <2>1 DEF AddressesInv, BaseInv, FilesInv, FileIsWhole, DiskTyped, Apart
    <3> QED BY <3>1 DEF Whole
  <2> QED BY <1>5, <2>1 DEF FileIsWhole, KnownIsSaved
<1>12. CopiesHold'
  <2>1. Current' <=> Current
    BY DEF Current
  <2>2. \A o \in Savers : CopyHolds(o)' <=> CopyHolds(o)
    BY <1>4 DEF CopyHolds, Covers
  <2> QED BY <1>4, <2>1, <2>2 DEF AddressesInv, FilesInv, CopiesHold
<1>13. Apart'
  BY <1>4 DEF AddressesInv, FilesInv, Apart
<1> QED BY <1>7, <1>10, <1>11, <1>12, <1>13 DEF FilesInv

\* A save writes one address.
LEMMA WriteAddressKeeps ==
  ASSUME AddressesInv, NEW s \in Savers, WriteAddress(s)
  PROVE  FilesInv'
<1>1. /\ save[s].at = "address" /\ Writing(s)
      /\ inode' = [inode EXCEPT ![save[s].file].address = [by |-> s, list |-> save[s].address]]
      /\ save' = [save EXCEPT ![s].at = "banned"]
      /\ UNCHANGED <<now, known, failed, banned, sorted, armed, path, temp, life, lives, calls,
                     missed, overlapped, mixed>>
  BY DEF WriteAddress, At, SaveStep, Writing, memory, bounds, history
<1>2. save[s] \in Runs /\ save[s].file \in Files
  BY <1>1 DEF AddressesInv, BaseInv, SavesTyped, Runs
<1>3. [by |-> s, list |-> save[s].address] \in Parts
  BY <1>2 DEF Parts, Runs
<1>4. /\ inode' \in [Files -> [address : Parts, banned : Parts]]
      /\ \A f \in Files : f # save[s].file => inode'[f] = inode[f]
      /\ inode'[save[s].file].address = [by |-> s, list |-> save[s].address]
  BY <1>1, <1>2, <1>3 DEF AddressesInv, BaseInv, DiskTyped
<1>5. ASSUME Ordered PROVE WritesOwn(s)'
  <2>1. WritesOwn(s)
    BY <1>1, <1>5 DEF AddressesInv, FilesInv, WritersOwn
  <2>2. /\ save'[s].at = "banned" /\ save'[s].file = temp /\ save'[s].address = save[s].address
        /\ \A o \in Savers : Writing(o)' => Writing(o)
    BY <1>1, <2>1 DEF AddressesInv, BaseInv, SavesTyped, Runs, WritesOwn, Writing
  <2> QED BY <1>1, <1>4, <2>1, <2>2 DEF WritesOwn
<1> QED BY <1>1, <1>4, <1>5, WriterMoves

\* What close() alone could not write is not noticed, so that both lists are in a file
\* that is renamed only where close() does not fail.
LEMMA WriteBannedKeeps ==
  ASSUME AddressesInv, NEW s \in Savers, WriteBanned(s), "close" \notin Faults
  PROVE  FilesInv'
<1>1. /\ save[s].at = "banned" /\ Writing(s) /\ life # "down"
      /\ UNCHANGED <<now, known, failed, banned, sorted, armed, path, temp, life, lives, calls,
                     overlapped, mixed>>
  BY DEF WriteBanned, At, Writing, memory, bounds, history
<1>2. CASE SaveThrows(s) /\ UNCHANGED inode
  BY <1>1, <1>2, ThrowKeeps DEF disk, memory, bounds, history
<1>3. CASE /\ inode' = [inode EXCEPT ![save[s].file].banned = [by |-> s, list |-> save[s].banned]]
           /\ SaveStep(s, "rename")
  <2>1. save[s] \in Runs /\ save[s].file \in Files
    BY <1>1 DEF AddressesInv, BaseInv, SavesTyped, Runs
  <2>2. [by |-> s, list |-> save[s].banned] \in Parts
    BY <2>1 DEF Parts, Runs
  <2>3. /\ inode' \in [Files -> [address : Parts, banned : Parts]]
        /\ \A f \in Files : f # save[s].file => inode'[f] = inode[f]
        /\ inode'[save[s].file].address = inode[save[s].file].address
        /\ inode'[save[s].file].banned = [by |-> s, list |-> save[s].banned]
    BY <1>3, <2>1, <2>2 DEF AddressesInv, BaseInv, DiskTyped
  <2>4. save' = [save EXCEPT ![s].at = "rename"] /\ missed' = missed
    BY <1>3 DEF SaveStep
  <2>5. ASSUME Ordered PROVE WritesOwn(s)'
    <3>1. WritesOwn(s)
      BY <1>1, <2>5 DEF AddressesInv, FilesInv, WritersOwn
    <3>2. /\ save'[s].at = "rename" /\ save'[s].file = temp /\ save'[s].address = save[s].address
          /\ save'[s].banned = save[s].banned /\ \A o \in Savers : Writing(o)' => Writing(o)
      BY <1>1, <2>4, <3>1 DEF AddressesInv, BaseInv, SavesTyped, Runs, WritesOwn, Writing
    <3> QED BY <1>1, <2>3, <3>1, <3>2 DEF WritesOwn
  <2> QED BY <1>1, <2>3, <2>4, <2>5, WriterMoves
<1> QED BY <1>2, <1>3 DEF WriteBanned

\* A save puts its file in the place of the old one.
LEMMA RenameKeeps ==
  ASSUME AddressesInv, NEW s \in Savers, Rename(s)
  PROVE  FilesInv'
<1>1. /\ save[s].at = "rename" /\ Writing(s) /\ HasCopy(s) /\ life # "down"
      /\ UNCHANGED <<now, known, failed, banned, sorted, armed, inode, life, lives, calls,
                     overlapped>>
  BY DEF Rename, At, Writing, HasCopy, memory, bounds, history
<1>2. CASE temp = 0
  BY <1>1, <1>2, ThrowKeeps DEF Rename, disk, memory, bounds, history
<1>3. CASE temp # 0
  <2>1. /\ path' = temp /\ temp' = 0 /\ save' = [save EXCEPT ![s] = Idle] /\ missed' = missed
        /\ mixed' = (overlapped /\ (missed \/ \E o \in Savers \ {s} : save[o].at # "idle"))
    BY <1>3 DEF Rename
  <2>2. Idle \in Runs /\ Idle.at = "idle" /\ Idle.file = 0
    BY DEF Runs, Stages, Idle
  <2>3. /\ save' \in [Savers -> Runs] /\ save'[s] = Idle
        /\ \A o \in Savers : o # s => save'[o] = save[o]
    BY <2>1, <2>2, RunMoves DEF AddressesInv, BaseInv
  <2>4. \A o \in Savers : /\ Writing(o)' => Writing(o) /\ o # s
                          /\ HasCopy(o)' => HasCopy(o) /\ o # s
    BY <2>2, <2>3 DEF Writing, HasCopy
  <2>5. Alone'
    BY <1>1, <2>2, <2>3 DEF AddressesInv, BaseInv, FilesInv, SavesTyped, Alone, Writing
  <2>6. WritersOwn'
    <3> SUFFICES ASSUME Ordered', NEW o \in Savers, Writing(o)' PROVE FALSE
      BY DEF WritersOwn
    <3>1. ~overlapped
      BY <1>1, <2>1 DEF Ordered, Excess
    <3> QED BY <1>1, <2>4, <3>1 DEF AddressesInv, FilesInv, Alone, Writing
  \* The run was the only one of the file, or it is bound to be missed.
  <2>7. ASSUME ~mixed'
        PROVE  Ordered /\ \A o \in Savers : Writing(o) => o = s
    <3>1. CASE ~overlapped
      BY <1>1, <3>1 DEF AddressesInv, FilesInv, Alone, Writing, Ordered
    <3>2. CASE ~missed /\ \A o \in Savers \ {s} : save[o].at = "idle"
      <4>1. \A o \in Savers : Writing(o) => o = s
        BY <3>2 DEF Writing
      <4> QED BY <1>3, <3>2, <4>1 DEF Ordered, Excess
    <3> QED BY <2>1, <2>7, <3>1, <3>2
  <2>8. ASSUME Ordered
        PROVE  /\ inode[temp].address = [by |-> s, list |-> save[s].address]
               /\ inode[temp].banned = [by |-> s, list |-> save[s].banned]
    BY <1>1, <2>8 DEF AddressesInv, FilesInv, WritersOwn, WritesOwn
  <2>9. FileIsWhole' /\ Apart'
    <3> SUFFICES ASSUME ~mixed' PROVE Whole(path)' /\ Apart'
      BY DEF FileIsWhole, Apart
    <3>1. Whole(path)'
      BY <1>1, <2>1, <2>7, <2>8, AddressesAssumption DEF Whole
    <3>2. \A o \in Savers : ~Writing(o)'
      BY <2>4, <2>7
    <3> QED BY <3>1, <3>2 DEF Apart
  <2>10. CopiesHold'
    <3>1. Current' <=> Current
      BY <1>1, <2>1 DEF Current
    <3>2. \A o \in Savers : o # s => (CopyHolds(o)' <=> CopyHolds(o))
      BY <1>1, <2>3 DEF CopyHolds, Covers
    <3> QED BY <2>4, <3>1, <3>2 DEF AddressesInv, FilesInv, CopiesHold
  <2>11. KnownIsSaved'
    <3> SUFFICES ASSUME Current'
          PROVE  /\ \A e \in EntriesOf(known)' :
                      \/ InFile(path, e)'
                      \/ Cardinality(NewerInFile(path, e)') >= Capacity
                 /\ \A e \in EntriesOf(banned)' : InFile(path, e)'
      BY DEF KnownIsSaved, Current
    <3>1. Current /\ Ordered
      BY <1>1, <2>1 DEF Current, Ordered
    <3>2. CopyHolds(s)
      BY <1>1, <3>1 DEF AddressesInv, FilesInv, CopiesHold
    <3>3. inode'[path'].address.list = save[s].address /\ inode'[path'].banned.list = save[s].banned
      BY <1>1, <2>1, <2>8, <3>1
    <3>4. \A e : /\ InFile(path, e)' <=> e \in save[s].address \cup save[s].banned
                 /\ NewerInFile(path, e)' = {o \in save[s].address : o[2] >= e[2]}
      BY <1>3, <2>1, <3>3 DEF InFile, NewerInFile
    <3> QED BY <1>1, <3>2, <3>4 DEF CopyHolds, Covers
  <2> QED BY <2>5, <2>6, <2>9, <2>10, <2>11 DEF FilesInv
<1> QED BY <1>2, <1>3

-----------------------------------------------------------------------------
\* The process ends: a kill, or the destructor after its last save.
LEMMA EndKeeps ==
  ASSUME AddressesInv, NodeEnds
  PROVE  FilesInv'
<1>1. /\ life' = "down" /\ \A s \in Savers : save'[s] = Idle
      /\ UNCHANGED <<inode, path, temp, mixed>>
  BY DEF NodeEnds, disk, history
<1>2. \A s \in Savers : ~Writing(s)' /\ ~HasCopy(s)' /\ save'[s].at = "idle"
  BY <1>1 DEF Writing, HasCopy, Idle
<1>3. Alone' /\ WritersOwn' /\ Apart' /\ CopiesHold' /\ KnownIsSaved'
  BY <1>1, <1>2 DEF Alone, WritersOwn, Apart, CopiesHold, KnownIsSaved
<1>4. FileIsWhole'
  BY <1>1 DEF AddressesInv, FilesInv, FileIsWhole, Whole
<1> QED BY <1>3, <1>4 DEF FilesInv

\* The start reads the file that is there.
LEMMA RestartKeeps ==
  ASSUME AddressesInv, Restart
  PROVE  FilesInv'
<1>1. /\ life = "down" /\ UNCHANGED <<banned, save, disk, missed, overlapped, mixed>>
      /\ UNCHANGED <<inode, path>>
  BY DEF Restart, disk, history
<1>2. banned = Nobody /\ \A s \in Savers : save[s] = Idle
  BY <1>1 DEF AddressesInv, BaseInv, DownIsEmpty
<1>3. \A e \in EntriesOf(known') : InFile(path, e)'
  BY <1>1, RestartReads DEF AddressesInv, InFile
<1>4. KnownIsSaved'
  BY <1>1, <1>2, <1>3, NobodyIsList DEF KnownIsSaved
<1>5. CopiesHold'
  BY <1>1, <1>2 DEF CopiesHold, HasCopy, Idle
<1> QED BY <1>1, <1>4, <1>5, SaversSame DEF FilesInv

-----------------------------------------------------------------------------
\* Nothing happens.
LEMMA StutterKeeps ==
  ASSUME AddressesInv, UNCHANGED addressVars
  PROVE  FilesInv'
<1>1. /\ UNCHANGED <<now, known, failed, banned, sorted, armed, save, disk, life, lives, calls,
                     missed, overlapped, mixed>>
  BY DEF addressVars, memory, bounds, history
<1>2. Current' => Current /\ EntriesOf(known') \subseteq EntriesOf(known)
                          /\ EntriesOf(banned') \subseteq EntriesOf(banned)
  BY <1>1 DEF Current
<1> QED BY <1>1, <1>2, SaversSame, StillSaved DEF FilesInv

\* Every step keeps the second half, when close() does not fail.
LEMMA FilesStep ==
  ASSUME "close" \notin Faults, AddressesInv, [AddressesNext]_addressVars
  PROVE  FilesInv'
<1>1. CASE Tick
  BY <1>1, TickKeeps
<1>2. ASSUME NEW a \in Addrs, NEW t \in 1..MaxTime, reg(a, t) \/ fail(a, t)
      PROVE  FilesInv'
  BY <1>2, CallKeeps
<1>3. ASSUME NEW a \in Addrs, ban(a)
      PROVE  FilesInv'
  <2>1. 1 \in 1..MaxTime
    BY Numbers
  <2> QED BY <1>3, <2>1, CallKeeps
<1>4. ASSUME NEW s \in Savers, Start(s) \/ Truncate(s) \/ Copy(s) \/ Sort(s)
      PROVE  FilesInv'
  BY <1>4, StartKeeps, TruncateKeeps, CopyKeeps, SortKeeps
<1>5. ASSUME NEW s \in Savers, Open(s) \/ WriteAddress(s) \/ WriteBanned(s) \/ Rename(s)
      PROVE  FilesInv'
  BY <1>5, OpenKeeps, WriteAddressKeeps, WriteBannedKeeps, RenameKeeps
<1>6. CASE NodeEnds
  BY <1>6, EndKeeps
<1>7. CASE Restart
  BY <1>7, RestartKeeps
<1>8. CASE UNCHANGED addressVars
  BY <1>8, StutterKeeps
<1> QED BY <1>1, <1>2, <1>3, <1>4, <1>5, <1>6, <1>7, <1>8 DEF AddressesNext

\* What the lists, the runs and the files are, whatever fails.
LEMMA BaseInvariance == AddressesSpec => []BaseInv
<1>1. AddressesInit => BaseInv
  BY InitAddresses DEF AddressesInv
<1>2. BaseInv /\ [AddressesNext]_addressVars => BaseInv'
  BY BaseStep
<1> QED BY <1>1, <1>2, PTL DEF AddressesSpec

\* The files are in order in every run where close() does not fail: WriteBannedKeeps
\* says why.
THEOREM AddressesInvariance ==
  ASSUME "close" \notin Faults
  PROVE  AddressesSpec => []AddressesInv
<1>1. AddressesInit => AddressesInv
  BY InitAddresses
<1>2. AddressesInv /\ [AddressesNext]_addressVars => AddressesInv'
  BY BaseStep, FilesStep DEF AddressesInv
<1> QED BY <1>1, <1>2, PTL DEF AddressesSpec

\* Type correctness of the lists, the runs of save() and the files of AddressManager.
THEOREM AddressesTypeCorrect == AddressesSpec => []AddressesTypeOK
<1>1. BaseInv => AddressesTypeOK
  BY DEF BaseInv, MemoryTyped, SavesTyped, DiskTyped, CountsTyped, AddressesTypeOK, Runs, Writing
<1> QED BY <1>1, BaseInvariance, PTL

\* Within one life of the program no order of reg(), fail(), ban() and of the lines of
\* save() makes an address known or failed while it is banned.  It says nothing of a ban
\* across a restart: "banned" starts empty, and load() makes the banned addresses of the
\* file known (AddressManager.cpp:143).
THEOREM BannedAlwaysOut == AddressesSpec => []BannedStaysOut
<1>1. BaseInv => BannedStaysOut
  BY DEF BaseInv
<1> QED BY <1>1, BaseInvariance, PTL

\* Whenever the program dies and whichever runs of save() throw before close(), the file
\* that load() reads next holds both lists of one save, unless it was put there by runs of
\* save() that met, while one of them was not through or after one had thrown: then it may
\* be a mixture until a save succeeds that meets no other.
THEOREM FileAlwaysWhole ==
  ASSUME "close" \notin Faults
  PROVE  AddressesSpec => []FileIsWhole
<1>1. AddressesInv => FileIsWhole
  BY DEF AddressesInv, FilesInv
<1> QED BY <1>1, AddressesInvariance, PTL

\* When nothing is left to save, what reg() and ban() were told is in the file, or has
\* given way there to newer addresses, for any capacity and any number of addresses; unless
\* the last save threw, or met another: of two that meet the one with the older copy may
\* rename last (AddressManager.cpp:152-206) and what the other saved is lost.  The next save
\* that succeeds and meets no other, or the next start, ends either exception.
THEOREM KnownAlwaysSaved ==
  ASSUME "close" \notin Faults
  PROVE  AddressesSpec => []KnownIsSaved
<1>1. AddressesInv => KnownIsSaved
  BY DEF AddressesInv, FilesInv
<1> QED BY <1>1, AddressesInvariance, PTL
=============================================================================
