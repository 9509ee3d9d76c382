------------------------------ MODULE BcacheProofs ------------------------------
(***************************************************************************)
(* Proofs about Bcache, for every number of buffers, blocks and processes, *)
(* over either disk driver, with or without a block that cannot be read.   *)
(***************************************************************************)
EXTENDS Bcache, FiniteSetTheorems, TLAPS

(* Facts about the operators of the model. *)

\* Buffers are told apart from None, and there are NBUF of them.
LEMMA BufsFacts ==
  /\ None \notin Bufs /\ None \notin Blocks /\ None \notin Procs /\ None \notin Datas
  /\ IsFiniteSet(Bufs) /\ Cardinality(Bufs) = NBUF
  /\ 1 \in Bufs
<1>1. IsFiniteSet(Bufs) /\ Cardinality(Bufs) = NBUF
  BY BcacheAssumption, FS_Interval DEF Bufs
<1> QED
  BY <1>1, BcacheAssumption DEF Bufs

\* The least element of a set of natural numbers.
LEMMA LeastNatural ==
  ASSUME NEW S, S \subseteq Nat, S # {}
  PROVE  \E m \in S : \A q \in S : m =< q
<1> DEFINE R == OpToRel(<, Nat)
<1>1. R = {ss \in Nat \X Nat : ss[1] < ss[2]}
  BY DEF OpToRel
<1>2. IsWellFoundedOn(R, Nat)
  BY Zenon, NatLessThanWellFounded DEF R
<1> HIDE DEF R
<1>3. PICK m \in S : \A q \in S : ~(<<q, m>> \in R)
  BY <1>2, WFMin
<1>4. ASSUME NEW q \in S, q < m PROVE FALSE
  <2>1. <<q, m>> \in {ss \in Nat \X Nat : ss[1] < ss[2]}
    BY <1>4
  <2> QED
    BY <2>1, <1>1, <1>3
<1> QED
  BY <1>4

\* The search of bget() from the end of the list ends at an element.
LEMMA MaxIn ==
  ASSUME NEW S, S \subseteq Bufs, S # {}
  PROVE  Max(S) \in S
<1> DEFINE D == {NBUF - i : i \in S}
<1>1. S \subseteq 1..NBUF
  BY DEF Bufs
<1>2. D \subseteq Nat /\ D # {}
  BY <1>1, BcacheAssumption
<1>3. PICK m \in D : \A q \in D : m =< q
  BY <1>2, LeastNatural
<1>4. PICK x \in S : m = NBUF - x
  OBVIOUS
<1>5. \A y \in S : x >= y
  BY <1>1, <1>3, <1>4, BcacheAssumption
<1> QED
  BY <1>5 DEF Max

\* A request at the end of the queue.
LEMMA QueueAppend ==
  ASSUME NEW q \in Seq(Bufs), NEW b \in Bufs
  PROVE  /\ Append(q, b) \in Seq(Bufs) /\ Append(q, b) # <<>>
         /\ ToSet(Append(q, b)) = ToSet(q) \cup {b}
         /\ Head(Append(q, b)) = IF q = <<>> THEN b ELSE Head(q)
  BY DEF ToSet

\* A request that is not in the queue yet.
LEMMA QueueAppendDistinct ==
  ASSUME NEW q \in Seq(Bufs), NEW b \in Bufs, b \notin ToSet(q),
         \A i, j \in 1..Len(q) : q[i] = q[j] => i = j
  PROVE  \A i, j \in 1..Len(Append(q, b)) : Append(q, b)[i] = Append(q, b)[j] => i = j
<1>1. \A i \in 1..Len(q) : q[i] # b
  BY DEF ToSet
<1>2. /\ Len(q) \in Nat /\ Len(Append(q, b)) = Len(q) + 1
      /\ \A i \in 1..Len(q) : Append(q, b)[i] = q[i]
      /\ Append(q, b)[Len(q) + 1] = b
  OBVIOUS
<1> QED
  BY <1>1, <1>2

\* A request leaves the queue.
LEMMA QueueTail ==
  ASSUME NEW q \in Seq(Bufs), q # <<>>,
         \A i, j \in 1..Len(q) : q[i] = q[j] => i = j
  PROVE  /\ Tail(q) \in Seq(Bufs) /\ Head(q) \in ToSet(q)
         /\ ToSet(Tail(q)) = ToSet(q) \ {Head(q)}
         /\ Tail(q) # <<>> => Head(Tail(q)) = q[2]
         /\ \A i, j \in 1..Len(Tail(q)) : Tail(q)[i] = Tail(q)[j] => i = j
<1>1. Len(q) \in Nat \ {0} /\ DOMAIN q = 1..Len(q) /\ Head(q) = q[1]
  OBVIOUS
<1>2. /\ Tail(q) \in Seq(Bufs) /\ Len(Tail(q)) = Len(q) - 1
      /\ DOMAIN Tail(q) = 1..Len(q) - 1
      /\ \A i \in 1..Len(q) - 1 : Tail(q)[i] = q[i + 1]
  OBVIOUS
<1>3. Tail(q) # <<>> => Head(Tail(q)) = q[2]
  BY <1>1, <1>2
<1>4. \A i, j \in 1..Len(Tail(q)) : Tail(q)[i] = Tail(q)[j] => i = j
  BY <1>1, <1>2
<1>5. Head(q) \in ToSet(q)
  BY <1>1 DEF ToSet
<1>6. ASSUME NEW x \in ToSet(Tail(q)) PROVE x \in ToSet(q) \ {Head(q)}
  <2>1. PICK i \in 1..Len(q) - 1 : x = q[i + 1]
    BY <1>2 DEF ToSet
  <2>2. i + 1 \in 1..Len(q) /\ i + 1 # 1
    BY <1>1
  <2> QED
    BY <1>1, <2>1, <2>2 DEF ToSet
<1>7. ASSUME NEW x \in ToSet(q), x # Head(q) PROVE x \in ToSet(Tail(q))
  <2>1. PICK i \in 1..Len(q) : x = q[i]
    BY <1>1 DEF ToSet
  <2>2. i # 1 /\ i - 1 \in 1..Len(q) - 1
    BY <1>1, <1>7, <2>1
  <2>3. Tail(q)[i - 1] = x
    BY <1>2, <2>1, <2>2
  <2> QED
    BY <1>2, <2>2, <2>3 DEF ToSet
<1> QED
  BY <1>2, <1>3, <1>4, <1>5, <1>6, <1>7

\* The processes at a buffer; one process more there.
RefsAt(f, c) == Cardinality({q \in Procs : f[q] = c})

LEMMA RefsAdd ==
  ASSUME NEW f \in [Procs -> Bufs \cup {None}], NEW p \in Procs, f[p] = None, NEW b \in Bufs,
         NEW g \in [Procs -> Bufs \cup {None}],
         g[p] = b, \A q \in Procs \ {p} : g[q] = f[q]
  PROVE  \A c \in Bufs : /\ RefsAt(f, c) \in Nat
                         /\ RefsAt(g, c)
                              = RefsAt(f, c) + (IF c = b THEN 1 ELSE 0)
<1> TAKE c \in Bufs
<1> DEFINE S == {q \in Procs : f[q] = c}
           T == {q \in Procs : g[q] = c}
<1>1. IsFiniteSet(S) /\ Cardinality(S) \in Nat
  BY BcacheAssumption, FS_Subset, FS_CardinalityType
<1>2. p \notin S
  BY BufsFacts
<1>3. T = IF c = b THEN S \cup {p} ELSE S
  BY <1>2
<1> HIDE DEF S, T
<1>4. Cardinality(T) = Cardinality(S) + (IF c = b THEN 1 ELSE 0)
  <2>1. CASE c = b
    BY <1>1, <1>2, <1>3, <2>1, FS_AddElement
  <2>2. CASE c # b
    BY <1>1, <1>3, <2>2
  <2> QED
    BY <2>1, <2>2
<1> QED
  BY <1>1, <1>4 DEF S, T, RefsAt

\* One process less.
LEMMA RefsDrop ==
  ASSUME NEW f \in [Procs -> Bufs \cup {None}], NEW p \in Procs, NEW b \in Bufs, f[p] = b,
         NEW g \in [Procs -> Bufs \cup {None}],
         g[p] = None, \A q \in Procs \ {p} : g[q] = f[q]
  PROVE  \A c \in Bufs : /\ RefsAt(f, c) \in Nat
                         /\ c = b => RefsAt(f, c) # 0
                         /\ RefsAt(g, c)
                              = RefsAt(f, c) - (IF c = b THEN 1 ELSE 0)
<1> TAKE c \in Bufs
<1> DEFINE S == {q \in Procs : f[q] = c}
           T == {q \in Procs : g[q] = c}
<1>1. IsFiniteSet(S) /\ Cardinality(S) \in Nat
  BY BcacheAssumption, FS_Subset, FS_CardinalityType
<1>2. p \in S <=> c = b
  OBVIOUS
<1>3. T = IF c = b THEN S \ {p} ELSE S
  BY <1>2, BufsFacts
<1> HIDE DEF S, T
<1>4. Cardinality(T) = Cardinality(S) - (IF c = b THEN 1 ELSE 0)
  <2>1. CASE c = b
    BY <1>1, <1>2, <1>3, <2>1, FS_RemoveElement
  <2>2. CASE c # b
    BY <1>1, <1>3, <2>2
  <2> QED
    BY <2>1, <2>2
<1>5. c = b => Cardinality(S) # 0
  BY <1>1, <1>2, FS_EmptySet
<1> QED
  BY <1>1, <1>4, <1>5 DEF S, T, RefsAt

\* A buffer without references is at no process.
LEMMA RefsNone ==
  ASSUME TypeOK, RefsCounted, NEW b \in Bufs
  PROVE  /\ buf[b].refcnt = 0 <=> \A p \in Procs : at[p] # b
         /\ buf[b].refcnt \in Nat
<1> DEFINE S == {q \in Procs : at[q] = b}
<1>1. IsFiniteSet(S) /\ Cardinality(S) \in Nat
  BY BcacheAssumption, FS_Subset, FS_CardinalityType
<1>2. Cardinality(S) = 0 <=> S = {}
  BY <1>1, FS_EmptySet
<1> QED
  BY <1>1, <1>2 DEF RefsCounted

\* The log pins no more when no buffer becomes pinned.
LEMMA PinsShrink ==
  ASSUME PinsBounded, Pinned' \subseteq Pinned
  PROVE  PinsBounded'
<1>1. IsFiniteSet(Pinned) /\ Cardinality(Pinned) \in Nat
  BY BufsFacts, FS_Subset, FS_CardinalityType DEF Pinned
<1>2. IsFiniteSet(Pinned') /\ Cardinality(Pinned') \in Nat /\ Cardinality(Pinned') <= Cardinality(Pinned)
  BY <1>1, FS_Subset, FS_CardinalityType
<1> QED
  BY <1>1, <1>2, BcacheAssumption DEF PinsBounded

\* MoveToFront() keeps every buffer in the list.
LEMMA MoveToFrontEffect ==
  ASSUME TypeOK, NEW b \in Bufs
  PROVE  /\ MoveToFront(b) \in [Bufs -> Bufs]
         /\ \A c \in Bufs : \E i \in Bufs : MoveToFront(b)[i] = c
<1> DEFINE k == CHOOSE i \in Bufs : lru[i] = b
<1>1. k \in Bufs /\ lru[k] = b
  BY DEF TypeOK
<1>2. MoveToFront(b) = [i \in Bufs |-> IF i = 1 THEN b ELSE IF i <= k THEN lru[i - 1] ELSE lru[i]]
  BY DEF MoveToFront
<1> HIDE DEF k
<1>3. k \in 1..NBUF /\ Bufs = 1..NBUF /\ lru \in [Bufs -> Bufs]
  BY <1>1 DEF Bufs, TypeOK
<1>4. MoveToFront(b) \in [Bufs -> Bufs]
  BY <1>2, <1>3, BcacheAssumption
<1>5. ASSUME NEW c \in Bufs PROVE \E i \in Bufs : MoveToFront(b)[i] = c
  <2>1. PICK j \in Bufs : lru[j] = c
    BY DEF TypeOK
  <2>2. CASE c = b
    BY <1>2, <2>2, BufsFacts
  <2>3. CASE c # b /\ j < k
    <3>1. j + 1 \in Bufs /\ j + 1 # 1 /\ j + 1 <= k /\ (j + 1) - 1 = j
      BY <1>3, <2>1, <2>3, BcacheAssumption
    <3>2. MoveToFront(b)[j + 1] = c
      BY <1>2, <2>1, <3>1
    <3> QED
      BY <3>1, <3>2
  <2>4. CASE c # b /\ j > k
    <3>1. j # 1 /\ ~(j <= k)
      BY <1>3, <2>4
    <3>2. MoveToFront(b)[j] = c
      BY <1>2, <2>1, <3>1
    <3> QED
      BY <3>2
  <2>5. j # k => j < k \/ j > k
    BY <1>3
  <2> QED
    BY <1>1, <2>1, <2>2, <2>3, <2>4, <2>5
<1> QED
  BY <1>4, <1>5

--------------------------------------------------------------------------------
(* What the steps do to a struct buf.                                          *)

\* The sleep-lock is taken or given up.
Locked(r, x) == [r EXCEPT !.lock = x]

LEMMA LockedFields ==
  ASSUME NEW r \in BufType, NEW x \in Procs \cup {None}
  PROVE  /\ Locked(r, x) \in BufType
         /\ Locked(r, x).bno = r.bno
         /\ Locked(r, x).valid = r.valid
         /\ Locked(r, x).dirty = r.dirty
         /\ Locked(r, x).refcnt = r.refcnt
         /\ Locked(r, x).data = r.data
         /\ Locked(r, x).lock = x
<1>1. Locked(r, x) \in BufType
  BY DEF BufType, Junk, Locked
<1>2. Locked(r, x).bno = r.bno
  BY DEF BufType, Junk, Locked
<1>3. Locked(r, x).valid = r.valid
  BY DEF BufType, Junk, Locked
<1>4. Locked(r, x).dirty = r.dirty
  BY DEF BufType, Junk, Locked
<1>5. Locked(r, x).refcnt = r.refcnt
  BY DEF BufType, Junk, Locked
<1>6. Locked(r, x).data = r.data
  BY DEF BufType, Junk, Locked
<1>7. Locked(r, x).lock = x
  BY DEF BufType, Junk, Locked
<1> QED
  BY <1>1, <1>2, <1>3, <1>4, <1>5, <1>6, <1>7

\* New contents, to be written.
Written(r, d) == [r EXCEPT !.data = d, !.dirty = TRUE]

LEMMA WrittenFields ==
  ASSUME NEW r \in BufType, NEW d \in Datas
  PROVE  /\ Written(r, d) \in BufType
         /\ Written(r, d).bno = r.bno
         /\ Written(r, d).valid = r.valid
         /\ Written(r, d).dirty
         /\ Written(r, d).refcnt = r.refcnt
         /\ Written(r, d).data = d
         /\ Written(r, d).lock = r.lock
<1>1. Written(r, d) \in BufType
  BY DEF BufType, Junk, Written
<1>2. Written(r, d).bno = r.bno
  BY DEF BufType, Junk, Written
<1>3. Written(r, d).valid = r.valid
  BY DEF BufType, Junk, Written
<1>4. Written(r, d).dirty
  BY DEF BufType, Junk, Written
<1>5. Written(r, d).refcnt = r.refcnt
  BY DEF BufType, Junk, Written
<1>6. Written(r, d).data = d
  BY DEF BufType, Junk, Written
<1>7. Written(r, d).lock = r.lock
  BY DEF BufType, Junk, Written
<1> QED
  BY <1>1, <1>2, <1>3, <1>4, <1>5, <1>6, <1>7

\* A reference more or less.
Counted(r, n) == [r EXCEPT !.refcnt = n]

LEMMA CountedFields ==
  ASSUME NEW r \in BufType, NEW n \in Nat
  PROVE  /\ Counted(r, n) \in BufType
         /\ Counted(r, n).bno = r.bno
         /\ Counted(r, n).valid = r.valid
         /\ Counted(r, n).dirty = r.dirty
         /\ Counted(r, n).refcnt = n
         /\ Counted(r, n).data = r.data
         /\ Counted(r, n).lock = r.lock
<1>1. Counted(r, n) \in BufType
  BY DEF BufType, Junk, Counted
<1>2. Counted(r, n).bno = r.bno
  BY DEF BufType, Junk, Counted
<1>3. Counted(r, n).valid = r.valid
  BY DEF BufType, Junk, Counted
<1>4. Counted(r, n).dirty = r.dirty
  BY DEF BufType, Junk, Counted
<1>5. Counted(r, n).refcnt = n
  BY DEF BufType, Junk, Counted
<1>6. Counted(r, n).data = r.data
  BY DEF BufType, Junk, Counted
<1>7. Counted(r, n).lock = r.lock
  BY DEF BufType, Junk, Counted
<1> QED
  BY <1>1, <1>2, <1>3, <1>4, <1>5, <1>6, <1>7

\* A free buffer becomes that of another block.
Recycled(r, n) == [r EXCEPT !.bno = n, !.valid = FALSE, !.dirty = FALSE, !.refcnt = 1]

LEMMA RecycledFields ==
  ASSUME NEW r \in BufType, NEW n \in Blocks
  PROVE  /\ Recycled(r, n) \in BufType
         /\ Recycled(r, n).bno = n
         /\ ~Recycled(r, n).valid
         /\ ~Recycled(r, n).dirty
         /\ Recycled(r, n).refcnt = 1
         /\ Recycled(r, n).data = r.data
         /\ Recycled(r, n).lock = r.lock
<1>1. Recycled(r, n) \in BufType
  BY DEF BufType, Junk, Recycled
<1>2. Recycled(r, n).bno = n
  BY DEF BufType, Junk, Recycled
<1>3. ~Recycled(r, n).valid
  BY DEF BufType, Junk, Recycled
<1>4. ~Recycled(r, n).dirty
  BY DEF BufType, Junk, Recycled
<1>5. Recycled(r, n).refcnt = 1
  BY DEF BufType, Junk, Recycled
<1>6. Recycled(r, n).data = r.data
  BY DEF BufType, Junk, Recycled
<1>7. Recycled(r, n).lock = r.lock
  BY DEF BufType, Junk, Recycled
<1> QED
  BY <1>1, <1>2, <1>3, <1>4, <1>5, <1>6, <1>7

\* A request is done.
Done(r, d) == [r EXCEPT !.valid = TRUE, !.dirty = FALSE, !.data = d]

LEMMA DoneFields ==
  ASSUME NEW r \in BufType, NEW d \in Datas \cup {Junk}
  PROVE  /\ Done(r, d) \in BufType
         /\ Done(r, d).bno = r.bno
         /\ Done(r, d).valid
         /\ ~Done(r, d).dirty
         /\ Done(r, d).refcnt = r.refcnt
         /\ Done(r, d).data = d
         /\ Done(r, d).lock = r.lock
<1>1. Done(r, d) \in BufType
  BY DEF BufType, Junk, Done
<1>2. Done(r, d).bno = r.bno
  BY DEF BufType, Junk, Done
<1>3. Done(r, d).valid
  BY DEF BufType, Junk, Done
<1>4. ~Done(r, d).dirty
  BY DEF BufType, Junk, Done
<1>5. Done(r, d).refcnt = r.refcnt
  BY DEF BufType, Junk, Done
<1>6. Done(r, d).data = d
  BY DEF BufType, Junk, Done
<1>7. Done(r, d).lock = r.lock
  BY DEF BufType, Junk, Done
<1> QED
  BY <1>1, <1>2, <1>3, <1>4, <1>5, <1>6, <1>7

--------------------------------------------------------------------------------
(* The inductive invariant: what BuffersInv says but for the panic, the        *)
(* contents of clean buffers, and the requests of the sleepers.                *)

CacheInv ==
    /\ TypeOK /\ OneBufferPerBlock /\ HolderHasData
    /\ RefsCounted /\ LockHeld /\ FlagsSound /\ QueueOwned
    /\ PinsBounded /\ CleanMatchesDisk /\ SleepersQueued

PcType == {"idle", "lock", "iderw", "sleep", "woken", "use", "drop", "panic"}

USE BufsFacts

\* refcnt in terms of RefsAt.
LEMMA RefsOf ==
  ASSUME RefsCounted
  PROVE  \A c \in Bufs : buf[c].refcnt = RefsAt(at, c)
  BY DEF RefsCounted, RefsAt

\* Only a holder changes the contents of a block.
HolderChanged ==
    \A n \in Blocks \ {BadBlock} : Content(n)' # Content(n) =>
       \E p \in Procs : pc[p] = "use" /\ want[p] = n /\ buf[at[p]].lock = p

\* What a reader of a block gets: the one valid buffer of the block, or the disk.
ContentFact ==
    \A n \in Blocks :
        /\ \A b \in Bufs : buf[b].bno = n /\ buf[b].valid => Content(n) = buf[b].data
        /\ (\A b \in Bufs : ~(buf[b].bno = n /\ buf[b].valid)) => Content(n) = disk[n]

LEMMA ContentIs ==
  ASSUME OneBufferPerBlock
  PROVE  ContentFact
<1> SUFFICES ASSUME NEW n \in Blocks
             PROVE  /\ \A b \in Bufs : buf[b].bno = n /\ buf[b].valid => Content(n) = buf[b].data
                    /\ (\A b \in Bufs : ~(buf[b].bno = n /\ buf[b].valid)) => Content(n) = disk[n]
  BY DEF ContentFact
<1>1. ASSUME NEW b \in Bufs, buf[b].bno = n, buf[b].valid PROVE Content(n) = buf[b].data
  <2> DEFINE c == CHOOSE c \in Bufs : buf[c].bno = n /\ buf[c].valid
  <2>1. c \in Bufs /\ buf[c].bno = n
    BY <1>1
  <2>2. c = b
    BY <1>1, <2>1 DEF OneBufferPerBlock
  <2>3. Content(n) = buf[c].data
    BY <1>1 DEF Content
  <2> HIDE DEF c
  <2> QED
    BY <2>2, <2>3
<1>2. ASSUME \A b \in Bufs : ~(buf[b].bno = n /\ buf[b].valid) PROVE Content(n) = disk[n]
  BY <1>2 DEF Content
<1> QED
  BY <1>1, <1>2

\* A step that changes neither the buffers of a block nor the disk keeps its contents.
LEMMA ContentKept ==
  ASSUME OneBufferPerBlock, OneBufferPerBlock', NEW n \in Blocks, disk'[n] = disk[n],
         \A b \in Bufs : /\ (buf'[b].bno = n /\ buf'[b].valid) <=> (buf[b].bno = n /\ buf[b].valid)
                         /\ buf[b].bno = n /\ buf[b].valid => buf'[b].data = buf[b].data
  PROVE  Content(n)' = Content(n)
<1>1. ContentFact /\ ContentFact'
  BY ContentIs, PTL
<1>2. CASE \E b \in Bufs : buf[b].bno = n /\ buf[b].valid
  <2>1. PICK b \in Bufs : buf[b].bno = n /\ buf[b].valid
    BY <1>2
  <2> QED
    BY <2>1, <1>1 DEF ContentFact
<1>3. CASE ~\E b \in Bufs : buf[b].bno = n /\ buf[b].valid
  BY <1>1, <1>3 DEF ContentFact
<1> QED
  BY <1>2, <1>3

\* The contents of a block whose buffer changes are still those of its holder's copy.
LEMMA ContentMoves ==
  ASSUME OneBufferPerBlock, OneBufferPerBlock', NEW n \in Blocks, NEW b \in Bufs, NEW x,
         buf[b].bno = n, buf[b].valid => buf[b].data = x, ~buf[b].valid => disk[n] = x,
         buf'[b].bno = n => buf'[b].valid /\ buf'[b].data = x,
         buf'[b].bno # n => disk'[n] = x /\ \A c \in Bufs \ {b} : buf'[c].bno # n
  PROVE  Content(n)' = Content(n)
<1>1. ContentFact /\ ContentFact'
  BY ContentIs, PTL
<1>2. \A c \in Bufs \ {b} : buf[c].bno # n
  BY DEF OneBufferPerBlock
<1>3. Content(n) = x
  BY <1>1, <1>2 DEF ContentFact
<1>4. Content(n)' = x
  BY <1>1 DEF ContentFact
<1> QED
  BY <1>3, <1>4

\* The active request is that of a process in iderw(), and the drive was given
\* what the buffer still says.
LEMMA HeadOwned ==
  ASSUME CacheInv, idequeue # <<>>
  PROVE  /\ Head(idequeue) \in Bufs /\ Head(idequeue) \in ToSet(idequeue)
         /\ \E q \in Procs : /\ at[q] = Head(idequeue) /\ pc[q] \in {"sleep", "woken"}
                            /\ buf[Head(idequeue)].lock = q
<1>1. Head(idequeue) \in Bufs /\ Head(idequeue) \in ToSet(idequeue)
  BY DEF CacheInv, TypeOK, ToSet
<1> QED
  BY <1>1 DEF CacheInv, QueueOwned, LockHeld

\* A process that gets the sleep-lock finds the buffer of its block.
LEMMA BreadStep ==
  ASSUME CacheInv, NEW p \in Procs, bread(p)
  PROVE  CacheInv' /\ HolderChanged
<1>1. at[p] \in Bufs /\ pc[p] = "lock"
  BY DEF bread, CacheInv, TypeOK, RefsCounted
<1>2. /\ buf \in [Bufs -> BufType] /\ buf' = [buf EXCEPT ![at[p]] = Locked(buf[at[p]], p)]
      /\ buf[at[p]] \in BufType
  BY <1>1 DEF bread, CacheInv, TypeOK, Locked
<1>3. /\ \A c \in Bufs \ {at[p]} : buf'[c] = buf[c]
      /\ buf'[at[p]] = Locked(buf[at[p]], p)
  BY <1>1, <1>2
<1>4. /\ buf'[at[p]] \in BufType
      /\ buf'[at[p]].bno = buf[at[p]].bno
      /\ buf'[at[p]].valid = buf[at[p]].valid
      /\ buf'[at[p]].dirty = buf[at[p]].dirty
      /\ buf'[at[p]].refcnt = buf[at[p]].refcnt
      /\ buf'[at[p]].data = buf[at[p]].data
      /\ buf'[at[p]].lock = p
  BY <1>1, <1>2, <1>3, LockedFields
<1>5. buf' \in [Bufs -> BufType]
  BY <1>2, <1>4
<1>6. /\ pc' \in [Procs -> PcType] /\ pc'[p] = IF buf[at[p]].valid THEN "use" ELSE "iderw"
      /\ \A q \in Procs \ {p} : pc'[q] = pc[q]
      /\ buf[at[p]].lock = None
      /\ UNCHANGED <<lru, idequeue, hw, disk, driver, want, at>>
  BY <1>1 DEF bread, CacheInv, TypeOK, PcType, ideVars, procVars
<1>8. at \in [Procs -> Bufs \cup {None}] /\ pc \in [Procs -> PcType]
  BY DEF CacheInv, TypeOK, PcType
<1>20. TypeOK'
  BY <1>1, <1>3, <1>4, <1>5, <1>6, <1>8 DEF CacheInv, TypeOK, PcType
<1>21. OneBufferPerBlock'
  BY <1>1, <1>3, <1>4, <1>5, <1>6, <1>8 DEF CacheInv, OneBufferPerBlock, RefsCounted
<1>22. HolderHasData'
  BY <1>1, <1>3, <1>4, <1>5, <1>6, <1>8 DEF CacheInv, HolderHasData, LockHeld, RefsCounted
<1>23. RefsCounted'
  <2>1. \A c \in Bufs : buf'[c].refcnt = buf[c].refcnt
    BY <1>1, <1>3, <1>4, <1>5, <1>6, <1>8
  <2>2. \A c \in Bufs : buf'[c].refcnt = RefsAt(at', c)
    BY <1>1, <1>3, <1>4, <1>5, <1>6, <1>8, <2>1, RefsOf DEF CacheInv
  <2>3. \A q \in Procs : /\ at'[q] = None <=> pc'[q] \in {"idle", "panic"}
                         /\ at'[q] # None => want'[q] # None
    BY <1>1, <1>3, <1>4, <1>5, <1>6, <1>8 DEF CacheInv, RefsCounted
  <2> QED
    BY <2>2, <2>3 DEF RefsCounted, RefsAt
<1>24. LockHeld'
  BY <1>1, <1>3, <1>4, <1>5, <1>6, <1>8 DEF CacheInv, LockHeld, RefsCounted
<1>25. FlagsSound'
  BY <1>1, <1>3, <1>4, <1>5, <1>6, <1>8 DEF CacheInv, FlagsSound, HolderHasData, OneBufferPerBlock, RefsCounted
<1>26. QueueOwned'
  BY <1>1, <1>3, <1>4, <1>5, <1>6, <1>8 DEF CacheInv, QueueOwned, LockHeld, RefsCounted
<1>27. PinsBounded'
  <2>1. Pinned' \subseteq Pinned
    BY <1>1, <1>3, <1>4, <1>5, <1>6, <1>8 DEF CacheInv, Pinned, RefsCounted, LockHeld
  <2> QED
    BY <2>1, PinsShrink DEF CacheInv
<1>28. CleanMatchesDisk'
  BY <1>1, <1>3, <1>4, <1>5, <1>6, <1>8 DEF CacheInv, CleanMatchesDisk, OneBufferPerBlock, FlagsSound
<1>29. SleepersQueued'
  <2>1. \A q \in Procs : pc'[q] = "sleep" => at'[q] \in ToSet(idequeue)
    BY <1>1, <1>3, <1>4, <1>5, <1>6, <1>8 DEF CacheInv, SleepersQueued, QueueOwned
  <2>2. ASSUME idequeue # <<>> PROVE idestart(Head(idequeue))' = idestart(Head(idequeue))
    <3>1. Head(idequeue) \in Bufs
      BY <2>2, HeadOwned
    <3> QED
      BY <1>1, <1>3, <1>4, <1>5, <1>6, <1>8, <3>1 DEF idestart
  <2> QED
    BY <1>1, <1>3, <1>4, <1>5, <1>6, <1>8, <2>1, <2>2 DEF CacheInv, SleepersQueued
<1>30. HolderChanged
  <2>1. /\ disk' = disk
        /\ \A c \in Bufs : /\ buf'[c].bno = buf[c].bno /\ buf'[c].data = buf[c].data
                           /\ buf'[c].valid <=> buf[c].valid
    BY <1>1, <1>3, <1>4, <1>5, <1>6, <1>8
  <2> QED
    BY <1>21, <2>1, ContentKept DEF HolderChanged, CacheInv
<1> QED
  BY <1>20, <1>21, <1>22, <1>23, <1>24, <1>25, <1>26, <1>27, <1>28, <1>29, <1>30 DEF CacheInv

\* bwrite() marks the buffer that its caller holds.
LEMMA BwriteStep ==
  ASSUME CacheInv, NEW p \in Procs, NEW d \in Datas, bwrite(p, d)
  PROVE  CacheInv' /\ HolderChanged
<1>1. at[p] \in Bufs /\ pc[p] = "use"
  BY DEF bwrite, CacheInv, TypeOK, RefsCounted
<1>2. /\ buf \in [Bufs -> BufType] /\ buf' = [buf EXCEPT ![at[p]] = Written(buf[at[p]], d)]
      /\ buf[at[p]] \in BufType
  BY <1>1 DEF bwrite, CacheInv, TypeOK, Written
<1>3. /\ \A c \in Bufs \ {at[p]} : buf'[c] = buf[c]
      /\ buf'[at[p]] = Written(buf[at[p]], d)
  BY <1>1, <1>2
<1>4. /\ buf'[at[p]] \in BufType
      /\ buf'[at[p]].bno = buf[at[p]].bno
      /\ buf'[at[p]].valid = buf[at[p]].valid
      /\ buf'[at[p]].dirty
      /\ buf'[at[p]].refcnt = buf[at[p]].refcnt
      /\ buf'[at[p]].data = d
      /\ buf'[at[p]].lock = buf[at[p]].lock
  BY <1>1, <1>2, <1>3, WrittenFields
<1>5. buf' \in [Bufs -> BufType]
  BY <1>2, <1>4
<1>6. /\ pc' \in [Procs -> PcType] /\ pc'[p] = "iderw"
      /\ \A q \in Procs \ {p} : pc'[q] = pc[q]
      /\ UNCHANGED <<lru, idequeue, hw, disk, driver, want, at>>
  BY <1>1 DEF bwrite, CacheInv, TypeOK, PcType, ideVars, procVars
<1>8. at \in [Procs -> Bufs \cup {None}] /\ pc \in [Procs -> PcType]
  BY DEF CacheInv, TypeOK, PcType
<1>20. TypeOK'
  BY <1>1, <1>3, <1>4, <1>5, <1>6, <1>8 DEF CacheInv, TypeOK, PcType
<1>21. OneBufferPerBlock'
  BY <1>1, <1>3, <1>4, <1>5, <1>6, <1>8 DEF CacheInv, OneBufferPerBlock, RefsCounted
<1>22. HolderHasData'
  BY <1>1, <1>3, <1>4, <1>5, <1>6, <1>8 DEF CacheInv, HolderHasData, LockHeld, RefsCounted
<1>23. RefsCounted'
  <2>1. \A c \in Bufs : buf'[c].refcnt = buf[c].refcnt
    BY <1>1, <1>3, <1>4, <1>5, <1>6, <1>8
  <2>2. \A c \in Bufs : buf'[c].refcnt = RefsAt(at', c)
    BY <1>1, <1>3, <1>4, <1>5, <1>6, <1>8, <2>1, RefsOf DEF CacheInv
  <2>3. \A q \in Procs : /\ at'[q] = None <=> pc'[q] \in {"idle", "panic"}
                         /\ at'[q] # None => want'[q] # None
    BY <1>1, <1>3, <1>4, <1>5, <1>6, <1>8 DEF CacheInv, RefsCounted
  <2> QED
    BY <2>2, <2>3 DEF RefsCounted, RefsAt
<1>24. LockHeld'
  BY <1>1, <1>3, <1>4, <1>5, <1>6, <1>8 DEF CacheInv, LockHeld, RefsCounted
<1>25. FlagsSound'
  BY <1>1, <1>3, <1>4, <1>5, <1>6, <1>8 DEF CacheInv, FlagsSound, HolderHasData, OneBufferPerBlock, RefsCounted
<1>26. QueueOwned'
  BY <1>1, <1>3, <1>4, <1>5, <1>6, <1>8 DEF CacheInv, QueueOwned, LockHeld, RefsCounted
<1>27. PinsBounded'
  <2>1. Pinned' \subseteq Pinned
    BY <1>1, <1>3, <1>4, <1>5, <1>6, <1>8 DEF CacheInv, Pinned, RefsCounted, LockHeld
  <2> QED
    BY <2>1, PinsShrink DEF CacheInv
<1>28. CleanMatchesDisk'
  BY <1>1, <1>3, <1>4, <1>5, <1>6, <1>8 DEF CacheInv, CleanMatchesDisk, OneBufferPerBlock, FlagsSound
<1>29. SleepersQueued'
  <2>1. \A q \in Procs : pc'[q] = "sleep" => at'[q] \in ToSet(idequeue)
    BY <1>1, <1>3, <1>4, <1>5, <1>6, <1>8 DEF CacheInv, SleepersQueued, QueueOwned
  <2>2. ASSUME idequeue # <<>> PROVE idestart(Head(idequeue))' = idestart(Head(idequeue))
    <3>1. Head(idequeue) \in Bufs
      BY <2>2, HeadOwned
    <3>2. Head(idequeue) # at[p]
      BY <1>1, <2>2, HeadOwned DEF CacheInv, LockHeld
    <3> QED
      BY <1>1, <1>3, <1>4, <1>5, <1>6, <1>8, <3>2, <3>1 DEF idestart
  <2> QED
    BY <1>1, <1>3, <1>4, <1>5, <1>6, <1>8, <2>1, <2>2 DEF CacheInv, SleepersQueued
<1>30. HolderChanged
  <2> SUFFICES ASSUME NEW n \in Blocks \ {BadBlock}, n # want[p]
               PROVE  Content(n)' = Content(n)
    BY <1>1 DEF HolderChanged, CacheInv, HolderHasData
  <2>1. buf[at[p]].bno # n
    BY <1>1 DEF CacheInv, OneBufferPerBlock
  <2>2. \A c \in Bufs : /\ (buf'[c].bno = n /\ buf'[c].valid) <=> (buf[c].bno = n /\ buf[c].valid)
                        /\ buf[c].bno = n /\ buf[c].valid => buf'[c].data = buf[c].data
    BY <1>1, <1>3, <1>4, <1>5, <1>6, <1>8, <2>1
  <2>3. disk' = disk
    BY <1>1, <1>3, <1>4, <1>5, <1>6, <1>8
  <2> QED
    BY <1>21, <2>2, <2>3, ContentKept DEF CacheInv
<1> QED
  BY <1>20, <1>21, <1>22, <1>23, <1>24, <1>25, <1>26, <1>27, <1>28, <1>29, <1>30 DEF CacheInv

\* log_write() pins the buffer that its caller holds.
LEMMA LogWriteStep ==
  ASSUME CacheInv, NEW p \in Procs, NEW d \in Datas, log_write(p, d)
  PROVE  CacheInv' /\ HolderChanged
<1>1. at[p] \in Bufs /\ pc[p] = "use"
  BY DEF log_write, CacheInv, TypeOK, RefsCounted
<1>2. /\ buf \in [Bufs -> BufType] /\ buf' = [buf EXCEPT ![at[p]] = Written(buf[at[p]], d)]
      /\ buf[at[p]] \in BufType
  BY <1>1 DEF log_write, CacheInv, TypeOK, Written
<1>3. /\ \A c \in Bufs \ {at[p]} : buf'[c] = buf[c]
      /\ buf'[at[p]] = Written(buf[at[p]], d)
  BY <1>1, <1>2
<1>4. /\ buf'[at[p]] \in BufType
      /\ buf'[at[p]].bno = buf[at[p]].bno
      /\ buf'[at[p]].valid = buf[at[p]].valid
      /\ buf'[at[p]].dirty
      /\ buf'[at[p]].refcnt = buf[at[p]].refcnt
      /\ buf'[at[p]].data = d
      /\ buf'[at[p]].lock = buf[at[p]].lock
  BY <1>1, <1>2, <1>3, WrittenFields
<1>5. buf' \in [Bufs -> BufType]
  BY <1>2, <1>4
<1>6. /\ UNCHANGED <<lru, idequeue, hw, disk, driver, want, at, pc>>
  BY <1>1 DEF log_write, CacheInv, TypeOK, PcType, ideVars, procVars
<1>8. at \in [Procs -> Bufs \cup {None}] /\ pc \in [Procs -> PcType]
  BY DEF CacheInv, TypeOK, PcType
<1>20. TypeOK'
  BY <1>1, <1>3, <1>4, <1>5, <1>6, <1>8 DEF CacheInv, TypeOK, PcType
<1>21. OneBufferPerBlock'
  BY <1>1, <1>3, <1>4, <1>5, <1>6, <1>8 DEF CacheInv, OneBufferPerBlock, RefsCounted
<1>22. HolderHasData'
  BY <1>1, <1>3, <1>4, <1>5, <1>6, <1>8 DEF CacheInv, HolderHasData, LockHeld, RefsCounted
<1>23. RefsCounted'
  <2>1. \A c \in Bufs : buf'[c].refcnt = buf[c].refcnt
    BY <1>1, <1>3, <1>4, <1>5, <1>6, <1>8
  <2>2. \A c \in Bufs : buf'[c].refcnt = RefsAt(at', c)
    BY <1>1, <1>3, <1>4, <1>5, <1>6, <1>8, <2>1, RefsOf DEF CacheInv
  <2>3. \A q \in Procs : /\ at'[q] = None <=> pc'[q] \in {"idle", "panic"}
                         /\ at'[q] # None => want'[q] # None
    BY <1>1, <1>3, <1>4, <1>5, <1>6, <1>8 DEF CacheInv, RefsCounted
  <2> QED
    BY <2>2, <2>3 DEF RefsCounted, RefsAt
<1>24. LockHeld'
  BY <1>1, <1>3, <1>4, <1>5, <1>6, <1>8 DEF CacheInv, LockHeld, RefsCounted
<1>25. FlagsSound'
  BY <1>1, <1>3, <1>4, <1>5, <1>6, <1>8 DEF CacheInv, FlagsSound, HolderHasData, OneBufferPerBlock, RefsCounted
<1>26. QueueOwned'
  BY <1>1, <1>3, <1>4, <1>5, <1>6, <1>8 DEF CacheInv, QueueOwned, LockHeld, RefsCounted
<1>27. PinsBounded'
  <2>1. Cardinality(Pinned \cup {at[p]}) <= MAXPIN
    BY DEF log_write
  <2>2. Pinned' \subseteq Pinned \cup {at[p]}
    BY <1>1, <1>3, <1>6, <1>8 DEF Pinned
  <2>3. IsFiniteSet(Pinned) /\ IsFiniteSet(Pinned \cup {at[p]})
    BY FS_Subset, FS_AddElement DEF Pinned
  <2>4. /\ Cardinality(Pinned \cup {at[p]}) \in Nat /\ Cardinality(Pinned') \in Nat
        /\ Cardinality(Pinned') <= Cardinality(Pinned \cup {at[p]})
    BY <2>2, <2>3, FS_Subset, FS_CardinalityType
  <2> QED
    BY <2>1, <2>4, BcacheAssumption DEF PinsBounded
<1>28. CleanMatchesDisk'
  BY <1>1, <1>3, <1>4, <1>5, <1>6, <1>8 DEF CacheInv, CleanMatchesDisk, OneBufferPerBlock, FlagsSound
<1>29. SleepersQueued'
  <2>1. \A q \in Procs : pc'[q] = "sleep" => at'[q] \in ToSet(idequeue)
    BY <1>1, <1>3, <1>4, <1>5, <1>6, <1>8 DEF CacheInv, SleepersQueued, QueueOwned
  <2>2. ASSUME idequeue # <<>> PROVE idestart(Head(idequeue))' = idestart(Head(idequeue))
    <3>1. Head(idequeue) \in Bufs
      BY <2>2, HeadOwned
    <3>2. Head(idequeue) # at[p]
      BY <1>1, <2>2, HeadOwned DEF CacheInv, LockHeld
    <3> QED
      BY <1>1, <1>3, <1>4, <1>5, <1>6, <1>8, <3>2, <3>1 DEF idestart
  <2> QED
    BY <1>1, <1>3, <1>4, <1>5, <1>6, <1>8, <2>1, <2>2 DEF CacheInv, SleepersQueued
<1>30. HolderChanged
  <2> SUFFICES ASSUME NEW n \in Blocks \ {BadBlock}, n # want[p]
               PROVE  Content(n)' = Content(n)
    BY <1>1 DEF HolderChanged, CacheInv, HolderHasData
  <2>1. buf[at[p]].bno # n
    BY <1>1 DEF CacheInv, OneBufferPerBlock
  <2>2. \A c \in Bufs : /\ (buf'[c].bno = n /\ buf'[c].valid) <=> (buf[c].bno = n /\ buf[c].valid)
                        /\ buf[c].bno = n /\ buf[c].valid => buf'[c].data = buf[c].data
    BY <1>1, <1>3, <1>4, <1>5, <1>6, <1>8, <2>1
  <2>3. disk' = disk
    BY <1>1, <1>3, <1>4, <1>5, <1>6, <1>8
  <2> QED
    BY <1>21, <2>2, <2>3, ContentKept DEF CacheInv
<1> QED
  BY <1>20, <1>21, <1>22, <1>23, <1>24, <1>25, <1>26, <1>27, <1>28, <1>29, <1>30 DEF CacheInv

\* brelse() gives the sleep-lock up and keeps the reference.
LEMMA BrelseStep ==
  ASSUME CacheInv, NEW p \in Procs, brelse(p)
  PROVE  CacheInv' /\ HolderChanged
<1>1. at[p] \in Bufs /\ pc[p] = "use"
  BY DEF brelse, CacheInv, TypeOK, RefsCounted
<1>2. /\ buf \in [Bufs -> BufType] /\ buf' = [buf EXCEPT ![at[p]] = Locked(buf[at[p]], None)]
      /\ buf[at[p]] \in BufType
  BY <1>1 DEF brelse, CacheInv, TypeOK, Locked
<1>3. /\ \A c \in Bufs \ {at[p]} : buf'[c] = buf[c]
      /\ buf'[at[p]] = Locked(buf[at[p]], None)
  BY <1>1, <1>2
<1>4. /\ buf'[at[p]] \in BufType
      /\ buf'[at[p]].bno = buf[at[p]].bno
      /\ buf'[at[p]].valid = buf[at[p]].valid
      /\ buf'[at[p]].dirty = buf[at[p]].dirty
      /\ buf'[at[p]].refcnt = buf[at[p]].refcnt
      /\ buf'[at[p]].data = buf[at[p]].data
      /\ buf'[at[p]].lock = None
  BY <1>1, <1>2, <1>3, LockedFields
<1>5. buf' \in [Bufs -> BufType]
  BY <1>2, <1>4
<1>6. /\ pc' \in [Procs -> PcType] /\ pc'[p] = "drop"
      /\ \A q \in Procs \ {p} : pc'[q] = pc[q]
      /\ UNCHANGED <<lru, idequeue, hw, disk, driver, want, at>>
  BY <1>1 DEF brelse, CacheInv, TypeOK, PcType, ideVars, procVars
<1>8. at \in [Procs -> Bufs \cup {None}] /\ pc \in [Procs -> PcType]
  BY DEF CacheInv, TypeOK, PcType
<1>20. TypeOK'
  BY <1>1, <1>3, <1>4, <1>5, <1>6, <1>8 DEF CacheInv, TypeOK, PcType
<1>21. OneBufferPerBlock'
  BY <1>1, <1>3, <1>4, <1>5, <1>6, <1>8 DEF CacheInv, OneBufferPerBlock, RefsCounted
<1>22. HolderHasData'
  BY <1>1, <1>3, <1>4, <1>5, <1>6, <1>8 DEF CacheInv, HolderHasData, LockHeld, RefsCounted
<1>23. RefsCounted'
  <2>1. \A c \in Bufs : buf'[c].refcnt = buf[c].refcnt
    BY <1>1, <1>3, <1>4, <1>5, <1>6, <1>8
  <2>2. \A c \in Bufs : buf'[c].refcnt = RefsAt(at', c)
    BY <1>1, <1>3, <1>4, <1>5, <1>6, <1>8, <2>1, RefsOf DEF CacheInv
  <2>3. \A q \in Procs : /\ at'[q] = None <=> pc'[q] \in {"idle", "panic"}
                         /\ at'[q] # None => want'[q] # None
    BY <1>1, <1>3, <1>4, <1>5, <1>6, <1>8 DEF CacheInv, RefsCounted
  <2> QED
    BY <2>2, <2>3 DEF RefsCounted, RefsAt
<1>24. LockHeld'
  BY <1>1, <1>3, <1>4, <1>5, <1>6, <1>8 DEF CacheInv, LockHeld, RefsCounted
<1>25. FlagsSound'
  BY <1>1, <1>3, <1>4, <1>5, <1>6, <1>8 DEF CacheInv, FlagsSound, HolderHasData, OneBufferPerBlock, RefsCounted
<1>26. QueueOwned'
  BY <1>1, <1>3, <1>4, <1>5, <1>6, <1>8 DEF CacheInv, QueueOwned, LockHeld, RefsCounted
<1>27. PinsBounded'
  <2>1. Pinned' \subseteq Pinned
    BY <1>1, <1>3, <1>4, <1>5, <1>6, <1>8 DEF CacheInv, Pinned, RefsCounted, LockHeld
  <2> QED
    BY <2>1, PinsShrink DEF CacheInv
<1>28. CleanMatchesDisk'
  BY <1>1, <1>3, <1>4, <1>5, <1>6, <1>8 DEF CacheInv, CleanMatchesDisk, OneBufferPerBlock, FlagsSound
<1>29. SleepersQueued'
  <2>1. \A q \in Procs : pc'[q] = "sleep" => at'[q] \in ToSet(idequeue)
    BY <1>1, <1>3, <1>4, <1>5, <1>6, <1>8 DEF CacheInv, SleepersQueued, QueueOwned
  <2>2. ASSUME idequeue # <<>> PROVE idestart(Head(idequeue))' = idestart(Head(idequeue))
    <3>1. Head(idequeue) \in Bufs
      BY <2>2, HeadOwned
    <3> QED
      BY <1>1, <1>3, <1>4, <1>5, <1>6, <1>8, <3>1 DEF idestart
  <2> QED
    BY <1>1, <1>3, <1>4, <1>5, <1>6, <1>8, <2>1, <2>2 DEF CacheInv, SleepersQueued
<1>30. HolderChanged
  <2>1. /\ disk' = disk
        /\ \A c \in Bufs : /\ buf'[c].bno = buf[c].bno /\ buf'[c].data = buf[c].data
                           /\ buf'[c].valid <=> buf[c].valid
    BY <1>1, <1>3, <1>4, <1>5, <1>6, <1>8
  <2> QED
    BY <1>21, <2>1, ContentKept DEF HolderChanged, CacheInv
<1> QED
  BY <1>20, <1>21, <1>22, <1>23, <1>24, <1>25, <1>26, <1>27, <1>28, <1>29, <1>30 DEF CacheInv

\* iderw() puts a buffer into the queue that is not there yet.
LEMMA IderwStep ==
  ASSUME CacheInv, NEW p \in Procs, iderw(p)
  PROVE  CacheInv' /\ HolderChanged
<1>1. at[p] \in Bufs /\ pc[p] = "iderw"
  BY DEF iderw, CacheInv, TypeOK, RefsCounted
<1>6. /\ pc' \in [Procs -> PcType] /\ pc'[p] = "sleep"
      /\ \A q \in Procs \ {p} : pc'[q] = pc[q]
      /\ idequeue' = Append(idequeue, at[p])
      /\ hw' = IF idequeue = <<>> THEN idestart(at[p]) ELSE hw
      /\ UNCHANGED <<buf, lru, disk, driver, want, at>>
  BY <1>1 DEF iderw, CacheInv, TypeOK, PcType, ideVars, procVars
<1>7. /\ idequeue' \in Seq(Bufs) /\ idequeue' # <<>>
      /\ ToSet(idequeue') = ToSet(idequeue) \cup {at[p]}
      /\ Head(idequeue') = IF idequeue = <<>> THEN at[p] ELSE Head(idequeue)
  BY <1>1, <1>6, QueueAppend DEF CacheInv, TypeOK
<1>8. at \in [Procs -> Bufs \cup {None}] /\ pc \in [Procs -> PcType]
  BY DEF CacheInv, TypeOK, PcType
<1>20. TypeOK'
  <2>1. at[p] \notin ToSet(idequeue)
    BY <1>1 DEF CacheInv, QueueOwned
  <2>2. \A i, j \in 1..Len(idequeue') : idequeue'[i] = idequeue'[j] => i = j
    BY <1>1, <1>6, <2>1, QueueAppendDistinct DEF CacheInv, TypeOK
  <2>3. hw' \in [bno : Blocks \union {None}, write : BOOLEAN, data : Datas \union {Junk}]
    BY <1>1, <1>6 DEF CacheInv, TypeOK, BufType, idestart
  <2> QED
    BY <1>1, <1>6, <1>7, <2>2, <2>3 DEF CacheInv, TypeOK, PcType
<1>21. OneBufferPerBlock'
  BY <1>1, <1>6, <1>8, <1>7 DEF CacheInv, OneBufferPerBlock, RefsCounted
<1>22. HolderHasData'
  BY <1>1, <1>6, <1>8, <1>7 DEF CacheInv, HolderHasData, LockHeld, RefsCounted
<1>23. RefsCounted'
  <2>1. \A c \in Bufs : buf'[c].refcnt = buf[c].refcnt
    BY <1>1, <1>6, <1>8, <1>7
  <2>2. \A c \in Bufs : buf'[c].refcnt = RefsAt(at', c)
    BY <1>1, <1>6, <1>8, <1>7, <2>1, RefsOf DEF CacheInv
  <2>3. \A q \in Procs : /\ at'[q] = None <=> pc'[q] \in {"idle", "panic"}
                         /\ at'[q] # None => want'[q] # None
    BY <1>1, <1>6, <1>8, <1>7 DEF CacheInv, RefsCounted
  <2> QED
    BY <2>2, <2>3 DEF RefsCounted, RefsAt
<1>24. LockHeld'
  BY <1>1, <1>6, <1>8, <1>7 DEF CacheInv, LockHeld, RefsCounted
<1>25. FlagsSound'
  BY <1>1, <1>6, <1>8, <1>7 DEF CacheInv, FlagsSound, HolderHasData, OneBufferPerBlock, RefsCounted
<1>26. QueueOwned'
  BY <1>1, <1>6, <1>8, <1>7 DEF CacheInv, QueueOwned, LockHeld, RefsCounted
<1>27. PinsBounded'
  <2>1. Pinned' \subseteq Pinned
    BY <1>1, <1>6, <1>8, <1>7 DEF CacheInv, Pinned, RefsCounted, LockHeld
  <2> QED
    BY <2>1, PinsShrink DEF CacheInv
<1>28. CleanMatchesDisk'
  BY <1>1, <1>6, <1>8, <1>7 DEF CacheInv, CleanMatchesDisk, OneBufferPerBlock, FlagsSound
<1>29. SleepersQueued'
  <2>1. \A q \in Procs : pc'[q] = "sleep" => at[q] \in ToSet(idequeue')
    BY <1>1, <1>6, <1>7, <1>8 DEF CacheInv, SleepersQueued
  <2>2. hw' = idestart(Head(idequeue'))
    BY <1>6, <1>7 DEF CacheInv, SleepersQueued
  <2> QED
    BY <1>6, <1>7, <2>1, <2>2 DEF SleepersQueued, idestart
<1>30. HolderChanged
  <2>1. /\ disk' = disk
        /\ \A c \in Bufs : /\ buf'[c].bno = buf[c].bno /\ buf'[c].data = buf[c].data
                           /\ buf'[c].valid <=> buf[c].valid
    BY <1>1, <1>6, <1>8, <1>7
  <2> QED
    BY <1>21, <2>1, ContentKept DEF HolderChanged, CacheInv
<1> QED
  BY <1>20, <1>21, <1>22, <1>23, <1>24, <1>25, <1>26, <1>27, <1>28, <1>29, <1>30 DEF CacheInv

\* A process that wakes in iderw() goes on only if its request is done.
LEMMA IderwWokenStep ==
  ASSUME CacheInv, NEW p \in Procs, iderw_woken(p)
  PROVE  CacheInv' /\ HolderChanged
<1>1. at[p] \in Bufs /\ pc[p] = "woken"
  BY DEF iderw_woken, CacheInv, TypeOK, RefsCounted
<1>6. /\ pc' \in [Procs -> PcType] /\ pc'[p] = IF buf[at[p]].valid /\ ~buf[at[p]].dirty THEN "use" ELSE "sleep"
      /\ \A q \in Procs \ {p} : pc'[q] = pc[q]
      /\ UNCHANGED <<buf, lru, idequeue, hw, disk, driver, want, at>>
  BY <1>1 DEF iderw_woken, CacheInv, TypeOK, PcType, ideVars, procVars
<1>8. at \in [Procs -> Bufs \cup {None}] /\ pc \in [Procs -> PcType]
  BY DEF CacheInv, TypeOK, PcType
<1>20. TypeOK'
  BY <1>1, <1>6, <1>8 DEF CacheInv, TypeOK, PcType
<1>21. OneBufferPerBlock'
  BY <1>1, <1>6, <1>8 DEF CacheInv, OneBufferPerBlock, RefsCounted
<1>22. HolderHasData'
  BY <1>1, <1>6, <1>8 DEF CacheInv, HolderHasData, LockHeld, RefsCounted
<1>23. RefsCounted'
  <2>1. \A c \in Bufs : buf'[c].refcnt = buf[c].refcnt
    BY <1>1, <1>6, <1>8
  <2>2. \A c \in Bufs : buf'[c].refcnt = RefsAt(at', c)
    BY <1>1, <1>6, <1>8, <2>1, RefsOf DEF CacheInv
  <2>3. \A q \in Procs : /\ at'[q] = None <=> pc'[q] \in {"idle", "panic"}
                         /\ at'[q] # None => want'[q] # None
    BY <1>1, <1>6, <1>8 DEF CacheInv, RefsCounted
  <2> QED
    BY <2>2, <2>3 DEF RefsCounted, RefsAt
<1>24. LockHeld'
  BY <1>1, <1>6, <1>8 DEF CacheInv, LockHeld, RefsCounted
<1>25. FlagsSound'
  BY <1>1, <1>6, <1>8 DEF CacheInv, FlagsSound, HolderHasData, OneBufferPerBlock, RefsCounted
<1>26. QueueOwned'
  BY <1>1, <1>6, <1>8 DEF CacheInv, QueueOwned, LockHeld, RefsCounted
<1>27. PinsBounded'
  <2>1. Pinned' \subseteq Pinned
    BY <1>1, <1>6, <1>8 DEF CacheInv, Pinned, RefsCounted, LockHeld
  <2> QED
    BY <2>1, PinsShrink DEF CacheInv
<1>28. CleanMatchesDisk'
  BY <1>1, <1>6, <1>8 DEF CacheInv, CleanMatchesDisk, OneBufferPerBlock, FlagsSound
<1>29. SleepersQueued'
  <2>1. \A q \in Procs : pc'[q] = "sleep" => at'[q] \in ToSet(idequeue)
    BY <1>1, <1>6, <1>8 DEF CacheInv, SleepersQueued, QueueOwned
  <2>2. ASSUME idequeue # <<>> PROVE idestart(Head(idequeue))' = idestart(Head(idequeue))
    <3>1. Head(idequeue) \in Bufs
      BY <2>2, HeadOwned
    <3> QED
      BY <1>1, <1>6, <1>8, <3>1 DEF idestart
  <2> QED
    BY <1>1, <1>6, <1>8, <2>1, <2>2 DEF CacheInv, SleepersQueued
<1>30. HolderChanged
  <2>1. /\ disk' = disk
        /\ \A c \in Bufs : /\ buf'[c].bno = buf[c].bno /\ buf'[c].data = buf[c].data
                           /\ buf'[c].valid <=> buf[c].valid
    BY <1>1, <1>6, <1>8
  <2> QED
    BY <1>21, <2>1, ContentKept DEF HolderChanged, CacheInv
<1> QED
  BY <1>20, <1>21, <1>22, <1>23, <1>24, <1>25, <1>26, <1>27, <1>28, <1>29, <1>30 DEF CacheInv

\* kill() of a process in iderw() leaves its request in the queue.
LEMMA KillStep ==
  ASSUME CacheInv, NEW p \in Procs, kill(p)
  PROVE  CacheInv' /\ HolderChanged
<1>1. at[p] \in Bufs /\ pc[p] = "sleep"
  BY DEF kill, CacheInv, TypeOK, RefsCounted
<1>6. /\ pc' \in [Procs -> PcType] /\ pc'[p] = "woken"
      /\ \A q \in Procs \ {p} : pc'[q] = pc[q]
      /\ UNCHANGED <<buf, lru, idequeue, hw, disk, driver, want, at>>
  BY <1>1 DEF kill, CacheInv, TypeOK, PcType, ideVars, procVars
<1>8. at \in [Procs -> Bufs \cup {None}] /\ pc \in [Procs -> PcType]
  BY DEF CacheInv, TypeOK, PcType
<1>20. TypeOK'
  BY <1>1, <1>6, <1>8 DEF CacheInv, TypeOK, PcType
<1>21. OneBufferPerBlock'
  BY <1>1, <1>6, <1>8 DEF CacheInv, OneBufferPerBlock, RefsCounted
<1>22. HolderHasData'
  BY <1>1, <1>6, <1>8 DEF CacheInv, HolderHasData, LockHeld, RefsCounted
<1>23. RefsCounted'
  <2>1. \A c \in Bufs : buf'[c].refcnt = buf[c].refcnt
    BY <1>1, <1>6, <1>8
  <2>2. \A c \in Bufs : buf'[c].refcnt = RefsAt(at', c)
    BY <1>1, <1>6, <1>8, <2>1, RefsOf DEF CacheInv
  <2>3. \A q \in Procs : /\ at'[q] = None <=> pc'[q] \in {"idle", "panic"}
                         /\ at'[q] # None => want'[q] # None
    BY <1>1, <1>6, <1>8 DEF CacheInv, RefsCounted
  <2> QED
    BY <2>2, <2>3 DEF RefsCounted, RefsAt
<1>24. LockHeld'
  BY <1>1, <1>6, <1>8 DEF CacheInv, LockHeld, RefsCounted
<1>25. FlagsSound'
  BY <1>1, <1>6, <1>8 DEF CacheInv, FlagsSound, HolderHasData, OneBufferPerBlock, RefsCounted
<1>26. QueueOwned'
  BY <1>1, <1>6, <1>8 DEF CacheInv, QueueOwned, LockHeld, RefsCounted
<1>27. PinsBounded'
  <2>1. Pinned' \subseteq Pinned
    BY <1>1, <1>6, <1>8 DEF CacheInv, Pinned, RefsCounted, LockHeld
  <2> QED
    BY <2>1, PinsShrink DEF CacheInv
<1>28. CleanMatchesDisk'
  BY <1>1, <1>6, <1>8 DEF CacheInv, CleanMatchesDisk, OneBufferPerBlock, FlagsSound
<1>29. SleepersQueued'
  <2>1. \A q \in Procs : pc'[q] = "sleep" => at'[q] \in ToSet(idequeue)
    BY <1>1, <1>6, <1>8 DEF CacheInv, SleepersQueued, QueueOwned
  <2>2. ASSUME idequeue # <<>> PROVE idestart(Head(idequeue))' = idestart(Head(idequeue))
    <3>1. Head(idequeue) \in Bufs
      BY <2>2, HeadOwned
    <3> QED
      BY <1>1, <1>6, <1>8, <3>1 DEF idestart
  <2> QED
    BY <1>1, <1>6, <1>8, <2>1, <2>2 DEF CacheInv, SleepersQueued
<1>30. HolderChanged
  <2>1. /\ disk' = disk
        /\ \A c \in Bufs : /\ buf'[c].bno = buf[c].bno /\ buf'[c].data = buf[c].data
                           /\ buf'[c].valid <=> buf[c].valid
    BY <1>1, <1>6, <1>8
  <2> QED
    BY <1>21, <2>1, ContentKept DEF HolderChanged, CacheInv
<1> QED
  BY <1>20, <1>21, <1>22, <1>23, <1>24, <1>25, <1>26, <1>27, <1>28, <1>29, <1>30 DEF CacheInv

\* bget() of a cached block takes a reference to its buffer.
LEMMA HitStep ==
  ASSUME CacheInv, NEW p \in Procs, NEW n \in Blocks, bget(p, n), bget_hit(p, n)
  PROVE  CacheInv' /\ HolderChanged
<1>0. at[p] = None /\ pc[p] = "idle"
  BY DEF bget, CacheInv, TypeOK, RefsCounted
<1>a. PICK b \in Cached(n) :
        /\ buf' = [buf EXCEPT ![b].refcnt = @ + 1]
        /\ at' = [at EXCEPT ![p] = b] /\ pc' = [pc EXCEPT ![p] = "lock"]
  BY DEF bget_hit
<1>1. b \in Bufs /\ buf[b].bno = n /\ buf[b].refcnt + 1 \in Nat
  BY <1>a, RefsNone DEF Cached, CacheInv
<1>2. /\ buf \in [Bufs -> BufType] /\ buf' = [buf EXCEPT ![b] = Counted(buf[b], buf[b].refcnt + 1)]
      /\ buf[b] \in BufType
  BY <1>1, <1>a DEF CacheInv, TypeOK, Counted
<1>3. /\ \A c \in Bufs \ {b} : buf'[c] = buf[c]
      /\ buf'[b] = Counted(buf[b], buf[b].refcnt + 1)
  BY <1>1, <1>2
<1>4. /\ buf'[b] \in BufType
      /\ buf'[b].bno = buf[b].bno
      /\ buf'[b].valid = buf[b].valid
      /\ buf'[b].dirty = buf[b].dirty
      /\ buf'[b].refcnt = buf[b].refcnt + 1
      /\ buf'[b].data = buf[b].data
      /\ buf'[b].lock = buf[b].lock
  BY <1>1, <1>2, <1>3, CountedFields
<1>5. buf' \in [Bufs -> BufType]
  BY <1>2, <1>4
<1>6. /\ pc' \in [Procs -> PcType] /\ pc'[p] = "lock"
      /\ \A q \in Procs \ {p} : pc'[q] = pc[q]
      /\ at' \in [Procs -> Bufs \cup {None}] /\ at'[p] = b
      /\ \A q \in Procs \ {p} : at'[q] = at[q]
      /\ want' \in [Procs -> Blocks \cup {None}] /\ want'[p] = n
      /\ \A q \in Procs \ {p} : want'[q] = want[q]
      /\ UNCHANGED <<lru, idequeue, hw, disk, driver>>
  BY <1>0, <1>1, <1>a DEF bget, CacheInv, TypeOK, PcType, ideVars
<1>8. at \in [Procs -> Bufs \cup {None}] /\ pc \in [Procs -> PcType]
  BY DEF CacheInv, TypeOK, PcType
<1>9. \A c \in Bufs : RefsAt(at', c)
                        = RefsAt(at, c) + (IF c = b THEN 1 ELSE 0)
  BY <1>0, <1>1, <1>6, <1>8, RefsAdd
<1>10. \A c \in Bufs : buf[c].refcnt \in Nat
  BY RefsNone DEF CacheInv
<1>20. TypeOK'
  BY <1>0, <1>1, <1>3, <1>4, <1>5, <1>6, <1>8 DEF CacheInv, TypeOK, PcType
<1>21. OneBufferPerBlock'
  BY <1>0, <1>1, <1>3, <1>4, <1>5, <1>6, <1>8 DEF CacheInv, OneBufferPerBlock, RefsCounted
<1>22. HolderHasData'
  BY <1>0, <1>1, <1>3, <1>4, <1>5, <1>6, <1>8 DEF CacheInv, HolderHasData, LockHeld, RefsCounted
<1>23. RefsCounted'
  <2>1. \A c \in Bufs : buf'[c].refcnt = RefsAt(at', c)
    BY <1>3, <1>4, <1>9, <1>10, RefsOf DEF CacheInv
  <2>2. \A q \in Procs : /\ at'[q] = None <=> pc'[q] \in {"idle", "panic"}
                         /\ at'[q] # None => want'[q] # None
    BY <1>0, <1>1, <1>3, <1>4, <1>5, <1>6, <1>8 DEF CacheInv, RefsCounted
  <2> QED
    BY <2>1, <2>2 DEF RefsCounted, RefsAt
<1>24. LockHeld'
  BY <1>0, <1>1, <1>3, <1>4, <1>5, <1>6, <1>8 DEF CacheInv, LockHeld, RefsCounted
<1>25. FlagsSound'
  BY <1>0, <1>1, <1>3, <1>4, <1>5, <1>6, <1>8 DEF CacheInv, FlagsSound, HolderHasData, OneBufferPerBlock, RefsCounted
<1>26. QueueOwned'
  BY <1>0, <1>1, <1>3, <1>4, <1>5, <1>6, <1>8 DEF CacheInv, QueueOwned, LockHeld, RefsCounted
<1>27. PinsBounded'
  <2>1. Pinned' \subseteq Pinned
    BY <1>0, <1>1, <1>3, <1>4, <1>5, <1>6, <1>8 DEF CacheInv, Pinned, RefsCounted, LockHeld
  <2> QED
    BY <2>1, PinsShrink DEF CacheInv
<1>28. CleanMatchesDisk'
  BY <1>0, <1>1, <1>3, <1>4, <1>5, <1>6, <1>8 DEF CacheInv, CleanMatchesDisk, OneBufferPerBlock, FlagsSound
<1>29. SleepersQueued'
  <2>1. \A q \in Procs : pc'[q] = "sleep" => at'[q] \in ToSet(idequeue)
    BY <1>0, <1>1, <1>3, <1>4, <1>5, <1>6, <1>8 DEF CacheInv, SleepersQueued, QueueOwned
  <2>2. ASSUME idequeue # <<>> PROVE idestart(Head(idequeue))' = idestart(Head(idequeue))
    <3>1. Head(idequeue) \in Bufs
      BY <2>2, HeadOwned
    <3> QED
      BY <1>0, <1>1, <1>3, <1>4, <1>5, <1>6, <1>8, <3>1 DEF idestart
  <2> QED
    BY <1>0, <1>1, <1>3, <1>4, <1>5, <1>6, <1>8, <2>1, <2>2 DEF CacheInv, SleepersQueued
<1>30. HolderChanged
  <2>1. /\ disk' = disk
        /\ \A c \in Bufs : /\ buf'[c].bno = buf[c].bno /\ buf'[c].data = buf[c].data
                           /\ buf'[c].valid <=> buf[c].valid
    BY <1>0, <1>1, <1>3, <1>4, <1>5, <1>6, <1>8
  <2> QED
    BY <1>21, <2>1, ContentKept DEF HolderChanged, CacheInv
<1> QED
  BY <1>20, <1>21, <1>22, <1>23, <1>24, <1>25, <1>26, <1>27, <1>28, <1>29, <1>30 DEF CacheInv

\* bget() of a block that is not cached recycles a buffer without references.
LEMMA RecycleStep ==
  ASSUME CacheInv, NEW p \in Procs, NEW n \in Blocks, bget(p, n), bget_recycle(p, n),
         \E i \in Bufs : Recyclable(lru[i])
  PROVE  CacheInv' /\ HolderChanged
<1>0. at[p] = None /\ pc[p] = "idle"
  BY DEF bget, CacheInv, TypeOK, RefsCounted
<1> DEFINE free == {i \in Bufs : Recyclable(lru[i])}
           b == lru[Max(free)]
<1>a. free # {} /\ Max(free) \in free
  BY MaxIn
<1>b. b \in Bufs /\ buf[b].refcnt = 0 /\ ~buf[b].dirty
  BY <1>a DEF CacheInv, TypeOK, Recyclable
<1>c. /\ Cached(n) = {} /\ at' = [at EXCEPT ![p] = b] /\ pc' = [pc EXCEPT ![p] = "lock"]
      /\ buf' = [c \in Bufs |-> IF c = at'[p]
                     THEN [buf[c] EXCEPT !.bno = n, !.valid = FALSE, !.dirty = FALSE, !.refcnt = 1]
                     ELSE buf[c]]
  BY <1>a DEF bget_recycle
<1> HIDE DEF b, free
<1>d. at'[p] = b
  BY <1>c DEF CacheInv, TypeOK
<1>e. \A q \in Procs : at[q] # b /\ buf[b].lock # q
  BY <1>b, RefsNone DEF CacheInv, LockHeld
<1>1. /\ b \in Bufs /\ buf[b].refcnt = 0 /\ ~buf[b].dirty
      /\ \A q \in Procs : at[q] # b /\ buf[b].lock # q
      /\ \A c \in Bufs : buf[c].bno # n
  BY <1>b, <1>c, <1>e DEF Cached
<1>2. /\ buf \in [Bufs -> BufType] /\ buf' = [buf EXCEPT ![b] = Recycled(buf[b], n)]
      /\ buf[b] \in BufType
  BY <1>1, <1>c, <1>d DEF CacheInv, TypeOK, Recycled
<1>3. /\ \A c \in Bufs \ {b} : buf'[c] = buf[c]
      /\ buf'[b] = Recycled(buf[b], n)
  BY <1>1, <1>2
<1>4. /\ buf'[b] \in BufType
      /\ buf'[b].bno = n
      /\ ~buf'[b].valid
      /\ ~buf'[b].dirty
      /\ buf'[b].refcnt = 1
      /\ buf'[b].data = buf[b].data
      /\ buf'[b].lock = buf[b].lock
  BY <1>1, <1>2, <1>3, RecycledFields
<1>5. buf' \in [Bufs -> BufType]
  BY <1>2, <1>4
<1>6. /\ pc' \in [Procs -> PcType] /\ pc'[p] = "lock"
      /\ \A q \in Procs \ {p} : pc'[q] = pc[q]
      /\ at' \in [Procs -> Bufs \cup {None}] /\ at'[p] = b
      /\ \A q \in Procs \ {p} : at'[q] = at[q]
      /\ want' \in [Procs -> Blocks \cup {None}] /\ want'[p] = n
      /\ \A q \in Procs \ {p} : want'[q] = want[q]
      /\ UNCHANGED <<lru, idequeue, hw, disk, driver>>
  BY <1>0, <1>1, <1>c DEF bget, CacheInv, TypeOK, PcType, ideVars
<1>8. at \in [Procs -> Bufs \cup {None}] /\ pc \in [Procs -> PcType]
  BY DEF CacheInv, TypeOK, PcType
<1>9. \A c \in Bufs : RefsAt(at', c)
                        = RefsAt(at, c) + (IF c = b THEN 1 ELSE 0)
  BY <1>0, <1>1, <1>6, <1>8, RefsAdd
<1>10. \A c \in Bufs : buf[c].refcnt \in Nat
  BY RefsNone DEF CacheInv
<1>20. TypeOK'
  BY <1>0, <1>1, <1>3, <1>4, <1>5, <1>6, <1>8 DEF CacheInv, TypeOK, PcType
<1>21. OneBufferPerBlock'
  BY <1>0, <1>1, <1>3, <1>4, <1>5, <1>6, <1>8 DEF CacheInv, OneBufferPerBlock, RefsCounted
<1>22. HolderHasData'
  BY <1>0, <1>1, <1>3, <1>4, <1>5, <1>6, <1>8 DEF CacheInv, HolderHasData, LockHeld, RefsCounted
<1>23. RefsCounted'
  <2>1. \A c \in Bufs : buf'[c].refcnt = RefsAt(at', c)
    BY <1>3, <1>4, <1>9, <1>1, <1>10, RefsOf DEF CacheInv
  <2>2. \A q \in Procs : /\ at'[q] = None <=> pc'[q] \in {"idle", "panic"}
                         /\ at'[q] # None => want'[q] # None
    BY <1>0, <1>1, <1>3, <1>4, <1>5, <1>6, <1>8 DEF CacheInv, RefsCounted
  <2> QED
    BY <2>1, <2>2 DEF RefsCounted, RefsAt
<1>24. LockHeld'
  BY <1>0, <1>1, <1>3, <1>4, <1>5, <1>6, <1>8 DEF CacheInv, LockHeld, RefsCounted
<1>25. FlagsSound'
  BY <1>0, <1>1, <1>3, <1>4, <1>5, <1>6, <1>8 DEF CacheInv, FlagsSound, HolderHasData, OneBufferPerBlock, RefsCounted
<1>26. QueueOwned'
  BY <1>0, <1>1, <1>3, <1>4, <1>5, <1>6, <1>8 DEF CacheInv, QueueOwned, LockHeld, RefsCounted
<1>27. PinsBounded'
  <2>1. Pinned' \subseteq Pinned
    BY <1>0, <1>1, <1>3, <1>4, <1>5, <1>6, <1>8 DEF CacheInv, Pinned, RefsCounted, LockHeld
  <2> QED
    BY <2>1, PinsShrink DEF CacheInv
<1>28. CleanMatchesDisk'
  BY <1>0, <1>1, <1>3, <1>4, <1>5, <1>6, <1>8 DEF CacheInv, CleanMatchesDisk, OneBufferPerBlock, FlagsSound
<1>29. SleepersQueued'
  <2>1. \A q \in Procs : pc'[q] = "sleep" => at'[q] \in ToSet(idequeue)
    BY <1>0, <1>1, <1>3, <1>4, <1>5, <1>6, <1>8 DEF CacheInv, SleepersQueued, QueueOwned
  <2>2. ASSUME idequeue # <<>> PROVE idestart(Head(idequeue))' = idestart(Head(idequeue))
    <3>1. Head(idequeue) \in Bufs
      BY <2>2, HeadOwned
    <3>2. Head(idequeue) # b
      BY <1>1, <2>2, HeadOwned DEF CacheInv, LockHeld
    <3> QED
      BY <1>0, <1>1, <1>3, <1>4, <1>5, <1>6, <1>8, <3>2, <3>1 DEF idestart
  <2> QED
    BY <1>0, <1>1, <1>3, <1>4, <1>5, <1>6, <1>8, <2>1, <2>2 DEF CacheInv, SleepersQueued
<1>30. HolderChanged
  <2> SUFFICES ASSUME NEW m \in Blocks \ {BadBlock}
               PROVE  Content(m)' = Content(m)
    BY DEF HolderChanged
  <2>1. CASE buf[b].bno = m
    <3>1. buf[b].valid => buf[b].data = disk[m]
      BY <1>1, <2>1 DEF CacheInv, CleanMatchesDisk
    <3>2. m # n /\ disk'[m] = disk[m] /\ \A c \in Bufs \ {b} : buf'[c].bno # m
      BY <1>1, <1>3, <1>6, <2>1 DEF CacheInv, OneBufferPerBlock
    <3> QED
      BY <1>1, <1>4, <1>21, <2>1, <3>1, <3>2, ContentMoves DEF CacheInv
  <2>2. CASE buf[b].bno # m
    <3>1. disk' = disk
      BY <1>6
    <3>2. \A c \in Bufs : /\ (buf'[c].bno = m /\ buf'[c].valid) <=> (buf[c].bno = m /\ buf[c].valid)
                          /\ buf[c].bno = m /\ buf[c].valid => buf'[c].data = buf[c].data
      BY <1>1, <1>3, <1>4, <2>2
    <3> QED
      BY <1>21, <3>1, <3>2, ContentKept DEF CacheInv
  <2> QED
    BY <2>1, <2>2
<1> QED
  BY <1>20, <1>21, <1>22, <1>23, <1>24, <1>25, <1>26, <1>27, <1>28, <1>29, <1>30 DEF CacheInv

\* The panic of bget() leaves the cache as it is.
LEMMA PanicStep ==
  ASSUME CacheInv, NEW p \in Procs, NEW n \in Blocks, bget(p, n), bget_recycle(p, n),
         \A i \in Bufs : ~Recyclable(lru[i])
  PROVE  CacheInv' /\ HolderChanged
<1>1. at[p] = None /\ pc[p] = "idle"
  BY DEF bget, CacheInv, TypeOK, RefsCounted
<1>2. at' = [at EXCEPT ![p] = None] /\ pc' = [pc EXCEPT ![p] = "panic"]
  BY DEF bget_recycle
<1>3. at' = at
  BY <1>1, <1>2 DEF CacheInv, TypeOK
<1>4. buf' = [c \in Bufs |-> buf[c]]
  BY <1>1, <1>3 DEF bget_recycle
<1>5. buf' = buf
  BY <1>4 DEF CacheInv, TypeOK
<1>6. /\ pc' \in [Procs -> PcType] /\ pc'[p] = "panic"
      /\ \A q \in Procs \ {p} : pc'[q] = pc[q]
      /\ want' \in [Procs -> Blocks \cup {None}]
      /\ \A q \in Procs \ {p} : want'[q] = want[q]
      /\ UNCHANGED <<lru, idequeue, hw, disk, driver>>
  BY <1>2 DEF bget, CacheInv, TypeOK, PcType, ideVars
<1>8. at \in [Procs -> Bufs \cup {None}] /\ pc \in [Procs -> PcType]
  BY DEF CacheInv, TypeOK, PcType
<1>20. TypeOK'
  BY <1>1, <1>3, <1>5, <1>6, <1>8 DEF CacheInv, TypeOK, PcType
<1>21. OneBufferPerBlock'
  BY <1>1, <1>3, <1>5, <1>6, <1>8 DEF CacheInv, OneBufferPerBlock, RefsCounted
<1>22. HolderHasData'
  BY <1>1, <1>3, <1>5, <1>6, <1>8 DEF CacheInv, HolderHasData, LockHeld, RefsCounted
<1>23. RefsCounted'
  <2>1. \A c \in Bufs : buf'[c].refcnt = buf[c].refcnt
    BY <1>1, <1>3, <1>5, <1>6, <1>8
  <2>2. \A c \in Bufs : buf'[c].refcnt = RefsAt(at', c)
    BY <1>1, <1>3, <1>5, <1>6, <1>8, <2>1, RefsOf DEF CacheInv
  <2>3. \A q \in Procs : /\ at'[q] = None <=> pc'[q] \in {"idle", "panic"}
                         /\ at'[q] # None => want'[q] # None
    BY <1>1, <1>3, <1>5, <1>6, <1>8 DEF CacheInv, RefsCounted
  <2> QED
    BY <2>2, <2>3 DEF RefsCounted, RefsAt
<1>24. LockHeld'
  BY <1>1, <1>3, <1>5, <1>6, <1>8 DEF CacheInv, LockHeld, RefsCounted
<1>25. FlagsSound'
  BY <1>1, <1>3, <1>5, <1>6, <1>8 DEF CacheInv, FlagsSound, HolderHasData, OneBufferPerBlock, RefsCounted
<1>26. QueueOwned'
  BY <1>1, <1>3, <1>5, <1>6, <1>8 DEF CacheInv, QueueOwned, LockHeld, RefsCounted
<1>27. PinsBounded'
  <2>1. Pinned' \subseteq Pinned
    BY <1>1, <1>3, <1>5, <1>6, <1>8 DEF CacheInv, Pinned, RefsCounted, LockHeld
  <2> QED
    BY <2>1, PinsShrink DEF CacheInv
<1>28. CleanMatchesDisk'
  BY <1>1, <1>3, <1>5, <1>6, <1>8 DEF CacheInv, CleanMatchesDisk, OneBufferPerBlock, FlagsSound
<1>29. SleepersQueued'
  <2>1. \A q \in Procs : pc'[q] = "sleep" => at'[q] \in ToSet(idequeue)
    BY <1>1, <1>3, <1>5, <1>6, <1>8 DEF CacheInv, SleepersQueued, QueueOwned
  <2>2. ASSUME idequeue # <<>> PROVE idestart(Head(idequeue))' = idestart(Head(idequeue))
    <3>1. Head(idequeue) \in Bufs
      BY <2>2, HeadOwned
    <3> QED
      BY <1>1, <1>3, <1>5, <1>6, <1>8, <3>1 DEF idestart
  <2> QED
    BY <1>1, <1>3, <1>5, <1>6, <1>8, <2>1, <2>2 DEF CacheInv, SleepersQueued
<1>30. HolderChanged
  <2>1. /\ disk' = disk
        /\ \A c \in Bufs : /\ buf'[c].bno = buf[c].bno /\ buf'[c].data = buf[c].data
                           /\ buf'[c].valid <=> buf[c].valid
    BY <1>1, <1>3, <1>5, <1>6, <1>8
  <2> QED
    BY <1>21, <2>1, ContentKept DEF HolderChanged, CacheInv
<1> QED
  BY <1>20, <1>21, <1>22, <1>23, <1>24, <1>25, <1>26, <1>27, <1>28, <1>29, <1>30 DEF CacheInv

\* The end of brelse() drops the reference and may move the buffer to the front.
LEMMA DropStep ==
  ASSUME CacheInv, NEW p \in Procs, brelse_drop(p)
  PROVE  CacheInv' /\ HolderChanged
<1>0. at[p] \in Bufs /\ pc[p] = "drop"
  BY DEF brelse_drop, CacheInv, TypeOK, RefsCounted
<1>8. at \in [Procs -> Bufs \cup {None}] /\ pc \in [Procs -> PcType]
  BY DEF CacheInv, TypeOK, PcType
<1>9. \A c \in Bufs : /\ RefsAt(at, c) \in Nat
                      /\ c = at[p] => RefsAt(at, c) # 0
                      /\ RefsAt(at', c)
                           = RefsAt(at, c) - (IF c = at[p] THEN 1 ELSE 0)
  <2>1. /\ at' \in [Procs -> Bufs \cup {None}] /\ at'[p] = None
        /\ \A q \in Procs \ {p} : at'[q] = at[q]
    BY <1>8 DEF brelse_drop
  <2> QED
    BY <1>0, <1>8, <2>1, RefsDrop
<1>1. /\ at[p] \in Bufs /\ pc[p] = "drop"
      /\ buf[at[p]].refcnt \in Nat /\ buf[at[p]].refcnt - 1 \in Nat
  BY <1>0, <1>9, RefsOf DEF CacheInv
<1>2. /\ buf \in [Bufs -> BufType] /\ buf' = [buf EXCEPT ![at[p]] = Counted(buf[at[p]], buf[at[p]].refcnt - 1)]
      /\ buf[at[p]] \in BufType
  BY <1>1 DEF brelse_drop, CacheInv, TypeOK, Counted
<1>3. /\ \A c \in Bufs \ {at[p]} : buf'[c] = buf[c]
      /\ buf'[at[p]] = Counted(buf[at[p]], buf[at[p]].refcnt - 1)
  BY <1>1, <1>2
<1>4. /\ buf'[at[p]] \in BufType
      /\ buf'[at[p]].bno = buf[at[p]].bno
      /\ buf'[at[p]].valid = buf[at[p]].valid
      /\ buf'[at[p]].dirty = buf[at[p]].dirty
      /\ buf'[at[p]].refcnt = buf[at[p]].refcnt - 1
      /\ buf'[at[p]].data = buf[at[p]].data
      /\ buf'[at[p]].lock = buf[at[p]].lock
  BY <1>1, <1>2, <1>3, CountedFields
<1>5. buf' \in [Bufs -> BufType]
  BY <1>2, <1>4
<1>6. /\ pc' \in [Procs -> PcType] /\ pc'[p] = "idle"
      /\ \A q \in Procs \ {p} : pc'[q] = pc[q]
      /\ at' \in [Procs -> Bufs \cup {None}] /\ at'[p] = None
      /\ \A q \in Procs \ {p} : at'[q] = at[q]
      /\ want' \in [Procs -> Blocks \cup {None}] /\ want'[p] = None
      /\ \A q \in Procs \ {p} : want'[q] = want[q]
      /\ UNCHANGED <<idequeue, hw, disk, driver>>
  BY <1>1 DEF brelse_drop, CacheInv, TypeOK, PcType, ideVars
<1>7. lru' \in [Bufs -> Bufs] /\ \A c \in Bufs : \E i \in Bufs : lru'[i] = c
  <2>1. TypeOK /\ (lru' = lru \/ lru' = MoveToFront(at[p]))
    BY DEF brelse_drop, CacheInv
  <2>2. CASE lru' = lru
    BY <2>1, <2>2 DEF TypeOK
  <2>3. CASE lru' = MoveToFront(at[p])
    BY <1>1, <2>1, <2>3, MoveToFrontEffect
  <2> QED
    BY <2>1, <2>2, <2>3
<1>10. \A c \in Bufs : buf[c].refcnt \in Nat
  BY RefsNone DEF CacheInv
<1>20. TypeOK'
  BY <1>1, <1>3, <1>4, <1>5, <1>6, <1>7, <1>8 DEF CacheInv, TypeOK, PcType
<1>21. OneBufferPerBlock'
  BY <1>1, <1>3, <1>4, <1>5, <1>6, <1>8 DEF CacheInv, OneBufferPerBlock, RefsCounted
<1>22. HolderHasData'
  BY <1>1, <1>3, <1>4, <1>5, <1>6, <1>8 DEF CacheInv, HolderHasData, LockHeld, RefsCounted
<1>23. RefsCounted'
  <2>1. \A c \in Bufs : buf'[c].refcnt = RefsAt(at', c)
    BY <1>3, <1>4, <1>9, <1>10, RefsOf DEF CacheInv
  <2>2. \A q \in Procs : /\ at'[q] = None <=> pc'[q] \in {"idle", "panic"}
                         /\ at'[q] # None => want'[q] # None
    BY <1>1, <1>3, <1>4, <1>5, <1>6, <1>8 DEF CacheInv, RefsCounted
  <2> QED
    BY <2>1, <2>2 DEF RefsCounted, RefsAt
<1>24. LockHeld'
  BY <1>1, <1>3, <1>4, <1>5, <1>6, <1>8 DEF CacheInv, LockHeld, RefsCounted
<1>25. FlagsSound'
  BY <1>1, <1>3, <1>4, <1>5, <1>6, <1>8 DEF CacheInv, FlagsSound, HolderHasData, OneBufferPerBlock, RefsCounted
<1>26. QueueOwned'
  BY <1>1, <1>3, <1>4, <1>5, <1>6, <1>8 DEF CacheInv, QueueOwned, LockHeld, RefsCounted
<1>27. PinsBounded'
  <2>1. Pinned' \subseteq Pinned
    BY <1>1, <1>3, <1>4, <1>5, <1>6, <1>8 DEF CacheInv, Pinned, RefsCounted, LockHeld
  <2> QED
    BY <2>1, PinsShrink DEF CacheInv
<1>28. CleanMatchesDisk'
  BY <1>1, <1>3, <1>4, <1>5, <1>6, <1>8 DEF CacheInv, CleanMatchesDisk, OneBufferPerBlock, FlagsSound
<1>29. SleepersQueued'
  <2>1. \A q \in Procs : pc'[q] = "sleep" => at'[q] \in ToSet(idequeue)
    BY <1>1, <1>3, <1>4, <1>5, <1>6, <1>8 DEF CacheInv, SleepersQueued, QueueOwned
  <2>2. ASSUME idequeue # <<>> PROVE idestart(Head(idequeue))' = idestart(Head(idequeue))
    <3>1. Head(idequeue) \in Bufs
      BY <2>2, HeadOwned
    <3> QED
      BY <1>1, <1>3, <1>4, <1>5, <1>6, <1>8, <3>1 DEF idestart
  <2> QED
    BY <1>1, <1>3, <1>4, <1>5, <1>6, <1>8, <2>1, <2>2 DEF CacheInv, SleepersQueued
<1>30. HolderChanged
  <2>1. /\ disk' = disk
        /\ \A c \in Bufs : /\ buf'[c].bno = buf[c].bno /\ buf'[c].data = buf[c].data
                           /\ buf'[c].valid <=> buf[c].valid
    BY <1>1, <1>3, <1>4, <1>5, <1>6, <1>8
  <2> QED
    BY <1>21, <2>1, ContentKept DEF HolderChanged, CacheInv
<1> QED
  BY <1>20, <1>21, <1>22, <1>23, <1>24, <1>25, <1>26, <1>27, <1>28, <1>29, <1>30 DEF CacheInv

\* The memory disk copies the one block.
LEMMA MemStep ==
  ASSUME CacheInv, NEW p \in Procs, mem_iderw(p)
  PROVE  CacheInv' /\ HolderChanged
<1>0. at[p] \in Bufs /\ pc[p] = "iderw"
  BY DEF mem_iderw, CacheInv, TypeOK, RefsCounted
<1>a. buf[at[p]] \in BufType /\ buf[at[p]].bno \in Blocks
  BY <1>0 DEF CacheInv, TypeOK, OneBufferPerBlock, RefsCounted
<1> DEFINE d == IF buf[at[p]].dirty THEN buf[at[p]].data ELSE disk[buf[at[p]].bno]
<1>b. d \in Datas \cup {Junk}
  <2>1. buf[at[p]].data \in Datas \cup {Junk}
    BY <1>a DEF BufType
  <2> QED
    BY <1>a, <2>1 DEF CacheInv, TypeOK
<1>c. buf' = [buf EXCEPT ![at[p]] = Done(buf[at[p]], d)]
  BY DEF mem_iderw, Done
<1>d. d = IF buf[at[p]].dirty THEN buf[at[p]].data ELSE disk[buf[at[p]].bno]
  OBVIOUS
<1> HIDE DEF d
<1>1. at[p] \in Bufs /\ pc[p] = "iderw" /\ buf[at[p]].bno \in Blocks /\ d \in Datas \cup {Junk}
  BY <1>0, <1>a, <1>b
<1>2. /\ buf \in [Bufs -> BufType] /\ buf' = [buf EXCEPT ![at[p]] = Done(buf[at[p]], d)]
      /\ buf[at[p]] \in BufType
  BY <1>1, <1>c DEF CacheInv, TypeOK, Done
<1>3. /\ \A c \in Bufs \ {at[p]} : buf'[c] = buf[c]
      /\ buf'[at[p]] = Done(buf[at[p]], d)
  BY <1>1, <1>2
<1>4. /\ buf'[at[p]] \in BufType
      /\ buf'[at[p]].bno = buf[at[p]].bno
      /\ buf'[at[p]].valid
      /\ ~buf'[at[p]].dirty
      /\ buf'[at[p]].refcnt = buf[at[p]].refcnt
      /\ buf'[at[p]].data = d
      /\ buf'[at[p]].lock = buf[at[p]].lock
  BY <1>1, <1>2, <1>3, DoneFields
<1>5. buf' \in [Bufs -> BufType]
  BY <1>2, <1>4
<1>6. /\ pc' \in [Procs -> PcType] /\ pc'[p] = "use"
      /\ \A q \in Procs \ {p} : pc'[q] = pc[q]
      /\ disk' = IF buf[at[p]].dirty THEN [disk EXCEPT ![buf[at[p]].bno] = buf[at[p]].data] ELSE disk
      /\ UNCHANGED <<lru, idequeue, hw, driver, want, at>>
  BY <1>1 DEF mem_iderw, CacheInv, TypeOK, PcType, ideVars
<1>7. /\ disk' \in [Blocks -> Datas \cup {Junk}] /\ disk'[buf[at[p]].bno] = d
      /\ \A n \in Blocks \cup {None} : n # buf[at[p]].bno => disk'[n] = disk[n]
  BY <1>1, <1>6, <1>d DEF CacheInv, TypeOK
<1>8. at \in [Procs -> Bufs \cup {None}] /\ pc \in [Procs -> PcType]
  BY DEF CacheInv, TypeOK, PcType
<1>20. TypeOK'
  BY <1>1, <1>5, <1>6, <1>7, <1>8 DEF CacheInv, TypeOK, PcType
<1>21. OneBufferPerBlock'
  BY <1>1, <1>3, <1>4, <1>5, <1>6, <1>8 DEF CacheInv, OneBufferPerBlock, RefsCounted
<1>22. HolderHasData'
  BY <1>1, <1>3, <1>4, <1>5, <1>6, <1>8 DEF CacheInv, HolderHasData, LockHeld, RefsCounted
<1>23. RefsCounted'
  <2>1. \A c \in Bufs : buf'[c].refcnt = buf[c].refcnt
    BY <1>1, <1>3, <1>4, <1>5, <1>6, <1>8
  <2>2. \A c \in Bufs : buf'[c].refcnt = RefsAt(at', c)
    BY <1>1, <1>3, <1>4, <1>5, <1>6, <1>8, <2>1, RefsOf DEF CacheInv
  <2>3. \A q \in Procs : /\ at'[q] = None <=> pc'[q] \in {"idle", "panic"}
                         /\ at'[q] # None => want'[q] # None
    BY <1>1, <1>3, <1>4, <1>5, <1>6, <1>8 DEF CacheInv, RefsCounted
  <2> QED
    BY <2>2, <2>3 DEF RefsCounted, RefsAt
<1>24. LockHeld'
  BY <1>1, <1>3, <1>4, <1>5, <1>6, <1>8 DEF CacheInv, LockHeld, RefsCounted
<1>25. FlagsSound'
  BY <1>1, <1>3, <1>4, <1>5, <1>6, <1>8 DEF CacheInv, FlagsSound, HolderHasData, OneBufferPerBlock, RefsCounted
<1>26. QueueOwned'
  BY <1>1, <1>3, <1>4, <1>5, <1>6, <1>8 DEF CacheInv, QueueOwned, LockHeld, RefsCounted
<1>27. PinsBounded'
  <2>1. Pinned' \subseteq Pinned
    BY <1>1, <1>3, <1>4, <1>5, <1>6, <1>8 DEF CacheInv, Pinned, RefsCounted, LockHeld
  <2> QED
    BY <2>1, PinsShrink DEF CacheInv
<1>28. CleanMatchesDisk'
  <2> SUFFICES ASSUME NEW c \in Bufs, buf'[c].valid, ~buf'[c].dirty, buf'[c].bno # BadBlock
               PROVE  buf'[c].data = disk'[buf'[c].bno]
    BY DEF CleanMatchesDisk
  <2>1. CASE c = at[p]
    BY <1>1, <1>4, <1>7, <2>1
  <2>2. CASE c # at[p]
    <3>1. buf[c].data = disk[buf[c].bno] /\ buf[c].bno # buf[at[p]].bno
      BY <1>1, <1>3, <2>2 DEF CacheInv, CleanMatchesDisk, OneBufferPerBlock, FlagsSound
    <3>2. buf[c].bno \in Blocks \cup {None}
      BY DEF CacheInv, TypeOK, BufType
    <3> QED
      BY <1>3, <1>7, <2>2, <3>1, <3>2
  <2> QED
    BY <2>1, <2>2
<1>29. SleepersQueued'
  <2>1. \A q \in Procs : pc'[q] = "sleep" => at'[q] \in ToSet(idequeue)
    BY <1>1, <1>3, <1>4, <1>5, <1>6, <1>8 DEF CacheInv, SleepersQueued, QueueOwned
  <2>2. ASSUME idequeue # <<>> PROVE idestart(Head(idequeue))' = idestart(Head(idequeue))
    <3>1. Head(idequeue) \in Bufs
      BY <2>2, HeadOwned
    <3>2. Head(idequeue) # at[p]
      BY <1>1, <2>2, HeadOwned DEF CacheInv, LockHeld
    <3> QED
      BY <1>1, <1>3, <1>4, <1>5, <1>6, <1>8, <3>2, <3>1 DEF idestart
  <2> QED
    BY <1>1, <1>3, <1>4, <1>5, <1>6, <1>8, <2>1, <2>2 DEF CacheInv, SleepersQueued
<1>30. HolderChanged
  <2> SUFFICES ASSUME NEW n \in Blocks \ {BadBlock}
               PROVE  Content(n)' = Content(n)
    BY DEF HolderChanged
  <2>1. CASE buf[at[p]].bno = n
    <3>1. /\ buf[at[p]].valid => d = buf[at[p]].data
          /\ ~buf[at[p]].valid => d = disk[n]
      BY <1>1, <1>4, <1>d, <2>1 DEF CacheInv, FlagsSound, CleanMatchesDisk
    <3> QED
      BY <1>1, <1>4, <1>21, <2>1, <3>1, ContentMoves DEF CacheInv
  <2>2. CASE buf[at[p]].bno # n
    <3>1. disk'[n] = disk[n]
      BY <1>7, <2>2
    <3>2. \A c \in Bufs : /\ (buf'[c].bno = n /\ buf'[c].valid) <=> (buf[c].bno = n /\ buf[c].valid)
                          /\ buf[c].bno = n /\ buf[c].valid => buf'[c].data = buf[c].data
      BY <1>3, <1>4, <2>2
    <3> QED
      BY <1>21, <3>1, <3>2, ContentKept DEF CacheInv
  <2> QED
    BY <2>1, <2>2
<1> QED
  BY <1>20, <1>21, <1>22, <1>23, <1>24, <1>25, <1>26, <1>27, <1>28, <1>29, <1>30 DEF CacheInv

\* The interrupt: the active request is done, its process is made runnable, and
\* the next request is started.
LEMMA IntrStep ==
  ASSUME CacheInv, ideintr
  PROVE  CacheInv' /\ HolderChanged
<1> DEFINE b == Head(idequeue)
           d == IF ~buf[b].dirty /\ hw.bno # BadBlock THEN disk[hw.bno] ELSE buf[b].data
<1>a. idequeue # <<>> /\ idequeue' = Tail(idequeue)
  BY DEF ideintr
<1>b. PICK o \in Procs : at[o] = b /\ pc[o] \in {"sleep", "woken"} /\ buf[b].lock = o
  BY <1>a, HeadOwned
<1>c. b \in Bufs /\ b \in ToSet(idequeue) /\ buf[b].bno \in Blocks
  BY <1>a, <1>b, HeadOwned DEF CacheInv, TypeOK, OneBufferPerBlock, RefsCounted
<1>d. hw = [bno |-> buf[b].bno, write |-> buf[b].dirty, data |-> buf[b].data]
  BY <1>a DEF CacheInv, SleepersQueued, idestart
<1>e. hw.bno = buf[b].bno /\ hw.write = buf[b].dirty /\ hw.data = buf[b].data
  BY <1>d
<1>f. buf[b].data \in Datas \cup {Junk} /\ d \in Datas \cup {Junk}
  <2>1. buf[b].data \in Datas \cup {Junk}
    BY <1>c DEF CacheInv, TypeOK, BufType
  <2> QED
    BY <1>c, <1>e, <2>1 DEF CacheInv, TypeOK
<1>g. buf' = [buf EXCEPT ![b] = Done(buf[b], d)]
  BY DEF ideintr, Done
<1>h. /\ ToSet(idequeue') = ToSet(idequeue) \ {b} /\ idequeue' \in Seq(Bufs)
      /\ idequeue' # <<>> => Head(idequeue') = idequeue[2]
      /\ \A i, j \in 1..Len(idequeue') : idequeue'[i] = idequeue'[j] => i = j
  <2>1. idequeue \in Seq(Bufs) /\ \A i, j \in 1..Len(idequeue) : idequeue[i] = idequeue[j] => i = j
    BY DEF CacheInv, TypeOK
  <2> QED
    BY <1>a, <2>1, QueueTail
<1>i. d = IF ~buf[b].dirty /\ buf[b].bno # BadBlock THEN disk[buf[b].bno] ELSE buf[b].data
  BY <1>e
<1>j. disk' = IF buf[b].dirty THEN [disk EXCEPT ![buf[b].bno] = buf[b].data] ELSE disk
  BY <1>e DEF ideintr
<1>k. /\ pc' = [q \in Procs |-> IF pc[q] = "sleep" /\ at[q] = b THEN "woken" ELSE pc[q]]
      /\ hw' = IF idequeue' = <<>> THEN NoReq ELSE idestart(idequeue[2])
  BY <1>a DEF ideintr, wakeup
<1>l. UNCHANGED <<lru, driver, want, at>>
  BY DEF ideintr
<1> HIDE DEF b, d
<1>1. /\ b \in Bufs /\ b \in ToSet(idequeue) /\ buf[b].bno \in Blocks /\ d \in Datas \cup {Junk}
      /\ \A q \in Procs : pc[q] \in {"iderw", "use"} => at[q] # b
  BY <1>b, <1>c, <1>f DEF CacheInv, LockHeld
<1>2. /\ buf \in [Bufs -> BufType] /\ buf' = [buf EXCEPT ![b] = Done(buf[b], d)]
      /\ buf[b] \in BufType
  BY <1>1, <1>g DEF CacheInv, TypeOK, Done
<1>3. /\ \A c \in Bufs \ {b} : buf'[c] = buf[c]
      /\ buf'[b] = Done(buf[b], d)
  BY <1>1, <1>2
<1>4. /\ buf'[b] \in BufType
      /\ buf'[b].bno = buf[b].bno
      /\ buf'[b].valid
      /\ ~buf'[b].dirty
      /\ buf'[b].refcnt = buf[b].refcnt
      /\ buf'[b].data = d
      /\ buf'[b].lock = buf[b].lock
  BY <1>1, <1>2, <1>3, DoneFields
<1>5. buf' \in [Bufs -> BufType]
  BY <1>2, <1>4
<1>8. at \in [Procs -> Bufs \cup {None}] /\ pc \in [Procs -> PcType]
  BY DEF CacheInv, TypeOK, PcType
<1>6. /\ pc' \in [Procs -> PcType]
      /\ \A q \in Procs : pc'[q] = IF pc[q] = "sleep" /\ at[q] = b THEN "woken" ELSE pc[q]
      /\ ToSet(idequeue') = ToSet(idequeue) \ {b}
      /\ UNCHANGED <<lru, driver, want, at>>
  BY <1>8, <1>h, <1>k, <1>l DEF PcType
<1>7. /\ disk' \in [Blocks -> Datas \cup {Junk}]
      /\ buf[b].bno # BadBlock => disk'[buf[b].bno] = d
      /\ \A n \in Blocks \cup {None} : n # buf[b].bno => disk'[n] = disk[n]
  BY <1>1, <1>f, <1>i, <1>j DEF CacheInv, TypeOK
<1>9. hw' = IF idequeue' = <<>> THEN NoReq ELSE idestart(Head(idequeue'))
  BY <1>h, <1>k
<1>10. idequeue' # <<>> => Head(idequeue') \in Bufs \ {b}
  BY <1>h DEF ToSet
<1>20. TypeOK'
  <2>1. hw' \in [bno : Blocks \union {None}, write : BOOLEAN, data : Datas \union {Junk}]
    <3>1. CASE idequeue' = <<>>
      BY <1>9, <3>1 DEF NoReq
    <3>2. CASE idequeue' # <<>>
      BY <1>9, <1>10, <3>2 DEF idestart, CacheInv, TypeOK, BufType
    <3> QED
      BY <3>1, <3>2
  <2> QED
    BY <1>1, <1>5, <1>6, <1>7, <1>8, <1>h, <2>1 DEF CacheInv, TypeOK, PcType
<1>21. OneBufferPerBlock'
  BY <1>1, <1>3, <1>4, <1>5, <1>6, <1>8 DEF CacheInv, OneBufferPerBlock, RefsCounted
<1>22. HolderHasData'
  BY <1>1, <1>3, <1>4, <1>5, <1>6, <1>8 DEF CacheInv, HolderHasData, LockHeld, RefsCounted
<1>23. RefsCounted'
  <2>1. \A c \in Bufs : buf'[c].refcnt = buf[c].refcnt
    BY <1>1, <1>3, <1>4, <1>5, <1>6, <1>8
  <2>2. \A c \in Bufs : buf'[c].refcnt = RefsAt(at', c)
    BY <1>1, <1>3, <1>4, <1>5, <1>6, <1>8, <2>1, RefsOf DEF CacheInv
  <2>3. \A q \in Procs : /\ at'[q] = None <=> pc'[q] \in {"idle", "panic"}
                         /\ at'[q] # None => want'[q] # None
    BY <1>1, <1>3, <1>4, <1>5, <1>6, <1>8 DEF CacheInv, RefsCounted
  <2> QED
    BY <2>2, <2>3 DEF RefsCounted, RefsAt
<1>24. LockHeld'
  BY <1>1, <1>3, <1>4, <1>5, <1>6, <1>8 DEF CacheInv, LockHeld, RefsCounted
<1>25. FlagsSound'
  BY <1>1, <1>3, <1>4, <1>5, <1>6, <1>8 DEF CacheInv, FlagsSound, HolderHasData, OneBufferPerBlock, RefsCounted
<1>26. QueueOwned'
  BY <1>1, <1>3, <1>4, <1>5, <1>6, <1>8 DEF CacheInv, QueueOwned, LockHeld, RefsCounted
<1>27. PinsBounded'
  <2>1. Pinned' \subseteq Pinned
    BY <1>1, <1>3, <1>4, <1>5, <1>6, <1>8 DEF CacheInv, Pinned, RefsCounted, LockHeld
  <2> QED
    BY <2>1, PinsShrink DEF CacheInv
<1>28. CleanMatchesDisk'
  <2> SUFFICES ASSUME NEW c \in Bufs, buf'[c].valid, ~buf'[c].dirty, buf'[c].bno # BadBlock
               PROVE  buf'[c].data = disk'[buf'[c].bno]
    BY DEF CleanMatchesDisk
  <2>1. CASE c = b
    BY <1>1, <1>4, <1>7, <2>1
  <2>2. CASE c # b
    <3>1. buf[c].data = disk[buf[c].bno] /\ buf[c].bno # buf[b].bno
      BY <1>1, <1>3, <2>2 DEF CacheInv, CleanMatchesDisk, OneBufferPerBlock, FlagsSound
    <3>2. buf[c].bno \in Blocks \cup {None}
      BY DEF CacheInv, TypeOK, BufType
    <3> QED
      BY <1>3, <1>7, <2>2, <3>1, <3>2
  <2> QED
    BY <2>1, <2>2
<1>29. SleepersQueued'
  <2>1. \A q \in Procs : pc'[q] = "sleep" => at'[q] \in ToSet(idequeue')
    BY <1>6, <1>8 DEF CacheInv, SleepersQueued
  <2>2. ASSUME idequeue' # <<>> PROVE idestart(Head(idequeue))' = idestart(Head(idequeue'))
    BY <1>3, <1>10, <2>2 DEF idestart
  <2> QED
    BY <1>9, <2>1, <2>2 DEF SleepersQueued, NoReq
<1>30. HolderChanged
  <2> SUFFICES ASSUME NEW n \in Blocks \ {BadBlock}
               PROVE  Content(n)' = Content(n)
    BY DEF HolderChanged
  <2>1. CASE buf[b].bno = n
    <3>1. /\ buf[b].valid => d = buf[b].data
          /\ ~buf[b].valid => d = disk[n]
      BY <1>1, <1>4, <1>i, <2>1 DEF CacheInv, FlagsSound, CleanMatchesDisk
    <3> QED
      BY <1>1, <1>4, <1>21, <2>1, <3>1, ContentMoves DEF CacheInv
  <2>2. CASE buf[b].bno # n
    <3>1. disk'[n] = disk[n]
      BY <1>7, <2>2
    <3>2. \A c \in Bufs : /\ (buf'[c].bno = n /\ buf'[c].valid) <=> (buf[c].bno = n /\ buf[c].valid)
                          /\ buf[c].bno = n /\ buf[c].valid => buf'[c].data = buf[c].data
      BY <1>3, <1>4, <2>2
    <3> QED
      BY <1>21, <3>1, <3>2, ContentKept DEF CacheInv
  <2> QED
    BY <2>1, <2>2
<1> QED
  BY <1>20, <1>21, <1>22, <1>23, <1>24, <1>25, <1>26, <1>27, <1>28, <1>29, <1>30 DEF CacheInv

--------------------------------------------------------------------------------
(* The theorems.                                                               *)

\* binit() leaves an empty cache.
LEMMA CacheInit == Init => CacheInv
<1> SUFFICES ASSUME Init PROVE CacheInv
  OBVIOUS
<1>1. \A b \in Bufs : NBUF + 1 - b \in Bufs /\ NBUF + 1 - (NBUF + 1 - b) = b
  BY BcacheAssumption DEF Bufs
<1>2. TypeOK
  <2>1. buf \in [Bufs -> BufType]
    BY DEF Init, BufType, Junk
  <2>2. lru \in [Bufs -> Bufs] /\ \A b \in Bufs : \E i \in Bufs : lru[i] = b
    BY <1>1 DEF Init
  <2>3. disk \in [Blocks -> Datas \cup {Junk}]
    BY DEF Init
  <2>4. hw \in [bno : Blocks \union {None}, write : BOOLEAN, data : Datas \union {Junk}]
    BY DEF Init, NoReq
  <2>5. idequeue \in Seq(Bufs) /\ \A i, j \in 1..Len(idequeue) : idequeue[i] = idequeue[j] => i = j
    BY DEF Init
  <2>6. /\ driver \in {"ide", "mem"} /\ pc \in [Procs -> PcType]
        /\ want \in [Procs -> Blocks \union {None}] /\ at \in [Procs -> Bufs \union {None}]
    BY DEF Init, PcType
  <2> QED
    BY <2>1, <2>2, <2>3, <2>4, <2>5, <2>6 DEF TypeOK, PcType
<1>3. /\ \A b \in Bufs : buf[b].bno = None /\ ~buf[b].valid /\ ~buf[b].dirty /\ buf[b].refcnt = 0
                         /\ buf[b].lock = None
      /\ \A p \in Procs : pc[p] = "idle" /\ at[p] = None
      /\ idequeue = <<>> /\ hw = NoReq
  BY DEF Init
<1>4. ToSet(idequeue) = {}
  BY <1>3 DEF ToSet
<1>5. RefsCounted
  <2>1. ASSUME NEW b \in Bufs PROVE {p \in Procs : at[p] = b} = {}
    BY <1>3
  <2> QED
    BY <1>3, <2>1, FS_EmptySet DEF RefsCounted
<1>6. PinsBounded
  <2>1. Pinned = {}
    BY <1>3 DEF Pinned
  <2> QED
    BY <2>1, FS_EmptySet, BcacheAssumption DEF PinsBounded
<1>7. OneBufferPerBlock /\ HolderHasData /\ LockHeld /\ FlagsSound
  BY <1>3 DEF OneBufferPerBlock, HolderHasData, LockHeld, FlagsSound
<1>8. QueueOwned /\ CleanMatchesDisk /\ SleepersQueued
  BY <1>3, <1>4 DEF QueueOwned, CleanMatchesDisk, SleepersQueued
<1> QED
  BY <1>2, <1>5, <1>6, <1>7, <1>8 DEF CacheInv

\* A step that changes no variable.
LEMMA CacheStutter == CacheInv /\ UNCHANGED vars => CacheInv'
  BY DEF CacheInv, vars, TypeOK, OneBufferPerBlock, HolderHasData, RefsCounted, LockHeld, FlagsSound,
         QueueOwned, PinsBounded, Pinned, CleanMatchesDisk, SleepersQueued, idestart

\* Every step keeps the invariant and leaves the contents of blocks to their holders.
LEMMA CacheStep ==
  ASSUME CacheInv, Next
  PROVE  CacheInv' /\ HolderChanged
<1>1. CASE ideintr
  BY <1>1, IntrStep
<1>2. ASSUME NEW p \in Procs, Step(p) PROVE CacheInv' /\ HolderChanged
  <2>1. ASSUME NEW n \in Blocks, bget(p, n) PROVE CacheInv' /\ HolderChanged
    <3>1. CASE bget_hit(p, n)
      BY <2>1, <3>1, HitStep
    <3>2. CASE bget_recycle(p, n) /\ \E i \in Bufs : Recyclable(lru[i])
      BY <2>1, <3>2, RecycleStep
    <3>3. CASE bget_recycle(p, n) /\ \A i \in Bufs : ~Recyclable(lru[i])
      BY <2>1, <3>3, PanicStep
    <3> QED
      BY <2>1, <3>1, <3>2, <3>3 DEF bget
  <2>2. ASSUME NEW d \in Datas, bwrite(p, d) \/ log_write(p, d) PROVE CacheInv' /\ HolderChanged
    BY <2>2, BwriteStep, LogWriteStep
  <2> QED
    BY <1>2, <2>1, <2>2, BreadStep, BrelseStep, DropStep, IderwStep, IderwWokenStep, MemStep, KillStep
       DEF Step
<1>3. CASE Halted
  <2>1. HolderChanged
    BY <1>3 DEF Halted, vars, HolderChanged, Content
  <2> QED
    BY <1>3, <2>1, CacheStutter DEF Halted
<1> QED
  BY <1>1, <1>2, <1>3 DEF Next

\* However bget(), bread(), bwrite(), log_write(), brelse(), the driver, its interrupt
\* and kill() interleave, references and locks are counted exactly, a holder has the
\* valid buffer of its block, and requests in the queue belong to a process in iderw().
THEOREM CacheInvariant == Spec => []CacheInv
<1>1. CacheInv /\ [Next]_vars => CacheInv'
  BY CacheStep, CacheStutter
<1> QED
  BY CacheInit, <1>1, PTL DEF Spec

\* bwrite() has reached the disk when it returns: a valid buffer that is not dirty
\* equals its block.
THEOREM CacheCleanMatchesDisk == Spec => []CleanMatchesDisk
<1>1. CacheInv => CleanMatchesDisk
  BY DEF CacheInv
<1> QED
  BY CacheInvariant, <1>1, PTL

\* A process that sleeps in iderw() is queued, and the drive works on the first request:
\* its wakeup() is not lost.
THEOREM CacheSleepersQueued == Spec => []SleepersQueued
<1>1. CacheInv => SleepersQueued
  BY DEF CacheInv
<1> QED
  BY CacheInvariant, <1>1, PTL

\* The contents of a block are changed by nobody but the process that holds its buffer.
THEOREM CacheOnlyHolderChanges == Spec => OnlyHolderChanges
<1>1. CacheInv /\ [Next]_vars => [HolderChanged]_vars
  BY CacheStep
<1> QED
  BY CacheInvariant, <1>1, PTL DEF Spec, OnlyHolderChanges, HolderChanged

--------------------------------------------------------------------------------
(* The panic of bget().                                                        *)

\* A buffer that bget() passes over is in the hands of a process or pinned.
LEMMA NotRecyclable ==
  ASSUME CacheInv, NEW b \in Bufs, ~Recyclable(b)
  PROVE  b \in Pinned \/ \E q \in Procs : at[q] = b
<1>1. CASE buf[b].refcnt # 0
  BY <1>1, RefsNone DEF CacheInv
<1>2. CASE buf[b].refcnt = 0 /\ buf[b].dirty
  <2>1. \A q \in Procs : at[q] # b
    BY <1>2, RefsNone DEF CacheInv
  <2> QED
    BY <1>2, <2>1 DEF Pinned
<1> QED
  BY <1>1, <1>2 DEF Recyclable

\* Once a process has panicked, steps that drop and take no reference and touch
\* only buffers with one leave the cache as full as it was.
LEMMA PanicKept ==
  ASSUME CacheInv, PanicOnlyWhenFull, UNCHANGED <<want, at>>,
         \A q \in Procs : pc'[q] = "panic" => pc[q] = "panic",
         \A b \in Bufs : /\ buf'[b].bno = buf[b].bno
                         /\ (\A q \in Procs : at[q] # b) => buf'[b] = buf[b]
  PROVE  PanicOnlyWhenFull'
<1> SUFFICES ASSUME NEW p \in Procs, pc'[p] = "panic"
             PROVE  /\ Cached(want[p])' = {}
                    /\ \A b \in Bufs : b \in Pinned' \/ \E q \in Procs \ {p} : at'[q] = b
  BY DEF PanicOnlyWhenFull
<1>1. /\ pc[p] = "panic" /\ Cached(want[p]) = {}
      /\ \A b \in Bufs : b \in Pinned \/ \E q \in Procs \ {p} : at[q] = b
  BY DEF PanicOnlyWhenFull
<1>2. at[p] = None
  BY <1>1 DEF CacheInv, RefsCounted
<1>3. ASSUME NEW b \in Bufs PROVE b \in Pinned' \/ \E q \in Procs \ {p} : at'[q] = b
  <2>1. CASE \E q \in Procs : at[q] = b
    BY <1>2, <2>1
  <2>2. CASE \A q \in Procs : at[q] # b
    <3>1. buf[b].dirty
      BY <1>1, <2>2 DEF Pinned
    <3>2. buf'[b].dirty /\ \A q \in Procs : at'[q] # b
      BY <2>2, <3>1
    <3> QED
      BY <3>2 DEF Pinned
  <2> QED
    BY <2>1, <2>2
<1>4. Cached(want[p])' = {}
  BY <1>1 DEF Cached
<1> QED
  BY <1>3, <1>4

\* bget() panics only when the cache is full, and nothing is released after that.
LEMMA PanicFull ==
  ASSUME CacheInv, PanicOnlyWhenFull, [Next]_vars
  PROVE  PanicOnlyWhenFull'
<1>1. /\ pc \in [Procs -> PcType] /\ at \in [Procs -> Bufs \cup {None}]
      /\ buf \in [Bufs -> BufType] /\ want \in [Procs -> Blocks \cup {None}]
  BY DEF CacheInv, TypeOK, PcType
<1>2. CASE UNCHANGED vars
  BY <1>2, PanicKept DEF vars
<1>3. CASE ideintr
  <2> DEFINE h == Head(idequeue)
  <2>1. h \in Bufs /\ \E q \in Procs : at[q] = h
    BY <1>3, HeadOwned DEF ideintr
  <2>2. PICK d : buf' = [buf EXCEPT ![h] = [@ EXCEPT !.valid = TRUE, !.dirty = FALSE, !.data = d]]
    BY <1>3 DEF ideintr
  <2>3. \A b \in Bufs : /\ buf'[b].bno = buf[b].bno
                        /\ (\A q \in Procs : at[q] # b) => buf'[b] = buf[b]
    <3> HIDE DEF h
    <3> QED
      BY <1>1, <2>1, <2>2 DEF BufType
  <2>4. UNCHANGED <<want, at>> /\ \A q \in Procs : pc'[q] = "panic" => pc[q] = "panic"
    BY <1>3 DEF ideintr, wakeup
  <2> QED
    BY <2>3, <2>4, PanicKept
<1>4. ASSUME NEW p \in Procs, Step(p) PROVE PanicOnlyWhenFull'
  <2>1. ASSUME NEW n \in Blocks, bget(p, n) PROVE PanicOnlyWhenFull'
    <3>1. at[p] = None /\ \A q \in Procs : pc[q] # "panic"
      BY <2>1 DEF bget, LockFree, CacheInv, RefsCounted
    <3>2. CASE bget_hit(p, n) \/ \E i \in Bufs : Recyclable(lru[i])
      <4>1. pc' = [pc EXCEPT ![p] = "lock"]
        BY <2>1, <3>2 DEF bget, bget_hit, bget_recycle
      <4> QED
        BY <1>1, <3>1, <4>1 DEF PanicOnlyWhenFull
    <3>3. CASE bget_recycle(p, n) /\ \A i \in Bufs : ~Recyclable(lru[i])
      <4>1. at' = at /\ buf' = buf /\ pc' = [pc EXCEPT ![p] = "panic"]
        <5>1. at' = [at EXCEPT ![p] = None] /\ pc' = [pc EXCEPT ![p] = "panic"]
          BY <3>3 DEF bget_recycle
        <5>2. at' = at
          BY <1>1, <3>1, <5>1
        <5>3. buf' = [c \in Bufs |-> buf[c]]
          BY <3>1, <3>3, <5>2 DEF bget_recycle
        <5> QED
          BY <1>1, <5>1, <5>2, <5>3
      <4>2. want'[p] = n /\ Cached(n) = {}
        BY <1>1, <2>1, <3>3 DEF bget, bget_recycle
      <4>3. \A b \in Bufs : ~Recyclable(b)
        BY <3>3 DEF CacheInv, TypeOK
      <4>4. ASSUME NEW b \in Bufs PROVE b \in Pinned' \/ \E q \in Procs \ {p} : at'[q] = b
        <5>1. CASE \E q \in Procs : at[q] = b
          BY <3>1, <4>1, <5>1
        <5>2. CASE \A q \in Procs : at[q] # b
          <6>1. buf[b].dirty
            BY <4>3, <5>2, NotRecyclable DEF Pinned
          <6> QED
            BY <4>1, <5>2, <6>1 DEF Pinned
        <5> QED
          BY <5>1, <5>2
      <4>5. Cached(want[p])' = {}
        BY <4>1, <4>2 DEF Cached
      <4>6. \A q \in Procs : pc'[q] = "panic" => q = p
        BY <1>1, <3>1, <4>1
      <4> QED
        BY <4>4, <4>5, <4>6 DEF PanicOnlyWhenFull
    <3> QED
      BY <2>1, <3>2, <3>3 DEF bget
  <2>2. CASE brelse_drop(p)
    BY <1>1, <2>2 DEF brelse_drop, LockFree, PanicOnlyWhenFull
  <2>3. ASSUME NEW d \in Datas, bwrite(p, d) \/ log_write(p, d) PROVE PanicOnlyWhenFull'
    <3>1. at[p] \in Bufs
      BY <1>1, <2>3 DEF bwrite, log_write, CacheInv, RefsCounted
    <3>2. buf' = [buf EXCEPT ![at[p]] = [@ EXCEPT !.data = d, !.dirty = TRUE]]
      BY <2>3 DEF bwrite, log_write
    <3>3. \A b \in Bufs : /\ buf'[b].bno = buf[b].bno
                          /\ (\A q \in Procs : at[q] # b) => buf'[b] = buf[b]
      BY <1>1, <3>1, <3>2 DEF BufType
    <3>4. UNCHANGED <<want, at>> /\ \A q \in Procs : pc'[q] = "panic" => pc[q] = "panic"
      BY <1>1, <2>3 DEF bwrite, log_write, procVars
    <3> QED
      BY <3>3, <3>4, PanicKept
  <2>4. CASE bread(p) \/ brelse(p)
    <3>1. at[p] \in Bufs
      BY <1>1, <2>4 DEF bread, brelse, CacheInv, RefsCounted
    <3>2. PICK x : buf' = [buf EXCEPT ![at[p]].lock = x]
      BY <2>4 DEF bread, brelse
    <3>3. \A b \in Bufs : /\ buf'[b].bno = buf[b].bno
                          /\ (\A q \in Procs : at[q] # b) => buf'[b] = buf[b]
      BY <1>1, <3>1, <3>2 DEF BufType
    <3>4. UNCHANGED <<want, at>> /\ \A q \in Procs : pc'[q] = "panic" => pc[q] = "panic"
      BY <1>1, <2>4 DEF bread, brelse
    <3> QED
      BY <3>3, <3>4, PanicKept
  <2>5. CASE mem_iderw(p)
    <3>1. at[p] \in Bufs
      BY <1>1, <2>5 DEF mem_iderw, CacheInv, RefsCounted
    <3>2. PICK d : buf' = [buf EXCEPT ![at[p]] =
                              [@ EXCEPT !.valid = TRUE, !.dirty = FALSE, !.data = d]]
      BY <2>5 DEF mem_iderw
    <3>3. \A b \in Bufs : /\ buf'[b].bno = buf[b].bno
                          /\ (\A q \in Procs : at[q] # b) => buf'[b] = buf[b]
      BY <1>1, <3>1, <3>2 DEF BufType
    <3>4. UNCHANGED <<want, at>> /\ \A q \in Procs : pc'[q] = "panic" => pc[q] = "panic"
      BY <1>1, <2>5 DEF mem_iderw
    <3> QED
      BY <3>3, <3>4, PanicKept
  <2>6. CASE iderw(p) \/ iderw_woken(p) \/ kill(p)
    <3>1. UNCHANGED <<buf, want, at>> /\ \A q \in Procs : pc'[q] = "panic" => pc[q] = "panic"
      BY <1>1, <2>6 DEF iderw, iderw_woken, kill
    <3> QED
      BY <3>1, PanicKept
  <2> QED
    BY <1>4, <2>1, <2>2, <2>3, <2>4, <2>5, <2>6 DEF Step
<1> QED
  BY <1>2, <1>3, <1>4 DEF Next, Halted

\* All of BuffersInv, for any number of buffers, holders and pinned blocks: when bget()
\* panics, every buffer is in the hands of another process or pinned by the log.
THEOREM CacheBuffers == Spec => []BuffersInv
<1>1. Init => PanicOnlyWhenFull
  BY DEF Init, PanicOnlyWhenFull
<1>2. CacheInv /\ PanicOnlyWhenFull /\ [Next]_vars => PanicOnlyWhenFull'
  BY PanicFull
<1>3. CacheInv /\ PanicOnlyWhenFull => BuffersInv
  BY DEF CacheInv, BuffersInv
<1> QED
  BY CacheInvariant, <1>1, <1>2, <1>3, PTL DEF Spec
================================================================================
