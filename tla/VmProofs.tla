------------------------------ MODULE VmProofs ------------------------------
(***************************************************************************)
(* Proofs about Vm, for every number of processes, of pages and of bytes   *)
(* in a page, and for every program header and argument of sbrk().         *)
(***************************************************************************)
EXTENDS Vm, FiniteSetTheorems, WellFoundedInduction, TLAPS

-----------------------------------------------------------------------------
(* Addresses and pages *)

\* All that the proofs use of the sizes.
LEMMA Sizes ==
  /\ PGSIZE \in Nat /\ PGSIZE >= 1 /\ NVPN \in Nat /\ NVPN >= 3
  /\ KERNBASE \in Nat /\ KERNBASE = NVPN * PGSIZE /\ KERNBASE >= 3 * PGSIZE
  /\ UINT \in Nat /\ UINT = 2 * KERNBASE
  /\ NPROC \in Nat /\ NPROC >= 1 /\ 1 \in Procs /\ Procs \subseteq Nat /\ 0 \notin Procs
  /\ NPAGE \in Nat /\ NPAGE >= 5 /\ MAXSEG \in Nat
<1>1. /\ PGSIZE \in Nat /\ PGSIZE >= 1 /\ NVPN \in Nat /\ NVPN >= 3
      /\ NPROC \in Nat /\ NPROC >= 1 /\ NPAGE \in Nat /\ NPAGE >= 5 /\ MAXSEG \in Nat
  BY VmAssumption
<1>2. NVPN * PGSIZE \in Nat /\ NVPN * PGSIZE >= 3 * PGSIZE
  BY <1>1
<1> QED
  BY <1>1, <1>2 DEF KERNBASE, UINT, Procs

\* Products with the page size are ordered like their factors.
LEMMA PageOrder ==
  ASSUME NEW i \in Int, NEW j \in Int
  PROVE  /\ i * PGSIZE \in Int
         /\ i < j => i * PGSIZE + PGSIZE <= j * PGSIZE
         /\ i * PGSIZE < j * PGSIZE => i < j
<1>1. \A k \in Int : k >= 0 => k * PGSIZE >= 0
  BY Sizes
<1>2. \A k \in Int : k >= 1 => k * PGSIZE >= PGSIZE
  <2> TAKE k \in Int
  <2>1. k - 1 >= 0 => (k - 1) * PGSIZE >= 0
    BY <1>1
  <2>2. (k - 1) * PGSIZE = k * PGSIZE - PGSIZE
    BY Sizes
  <2> QED
    BY <2>1, <2>2, Sizes
<1>3. /\ i * PGSIZE \in Int /\ j * PGSIZE \in Int
      /\ (j - i) * PGSIZE = j * PGSIZE - i * PGSIZE
      /\ (i - j) * PGSIZE = i * PGSIZE - j * PGSIZE
  BY Sizes
<1>4. i < j => i * PGSIZE + PGSIZE <= j * PGSIZE
  BY <1>2, <1>3, Sizes
<1>5. ~(i < j) => i * PGSIZE >= j * PGSIZE
  BY <1>1, <1>3, Sizes
<1> QED
  BY <1>3, <1>4, <1>5

\* The page of an address.
LEMMA PageOf ==
  ASSUME NEW x \in Nat
  PROVE  /\ Vpn(x) \in Nat /\ Vpn(x) * PGSIZE \in Nat
         /\ Vpn(x) * PGSIZE <= x /\ x < Vpn(x) * PGSIZE + PGSIZE
         /\ x % PGSIZE = 0 <=> Vpn(x) * PGSIZE = x
         /\ x < KERNBASE => Vpn(x) \in Vpns
<1>1. /\ x \div PGSIZE \in Nat /\ x % PGSIZE \in 0..PGSIZE - 1
      /\ x = (x \div PGSIZE) * PGSIZE + (x % PGSIZE)
  BY Sizes
<1>2. (x \div PGSIZE) * PGSIZE \in Nat
  BY <1>1, Sizes
<1>3. x < NVPN * PGSIZE => x \div PGSIZE < NVPN
  BY <1>1, <1>2, PageOrder, Sizes
<1> QED
  BY <1>1, <1>2, <1>3, Sizes DEF Vpn, Vpns

\* A multiple of the page size is aligned.
LEMMA Multiple ==
  ASSUME NEW k \in Nat
  PROVE  k * PGSIZE \in Nat /\ (k * PGSIZE) % PGSIZE = 0 /\ Vpn(k * PGSIZE) = k
<1>1. k * PGSIZE \in Nat
  BY Sizes
<1> DEFINE q == Vpn(k * PGSIZE)
<1>2. /\ q \in Nat /\ q * PGSIZE <= k * PGSIZE /\ k * PGSIZE < q * PGSIZE + PGSIZE
      /\ (k * PGSIZE) % PGSIZE = 0 <=> q * PGSIZE = k * PGSIZE
  BY <1>1, PageOf
<1> HIDE DEF q
<1>3. ~(q < k) /\ ~(k < q)
  BY <1>2, PageOrder, Sizes
<1> QED
  BY <1>1, <1>2, <1>3 DEF q

\* The next page boundary.
LEMMA NextPage ==
  ASSUME NEW x \in Nat, x % PGSIZE = 0
  PROVE  /\ x + PGSIZE \in Nat /\ (x + PGSIZE) % PGSIZE = 0
         /\ Vpn(x + PGSIZE) = Vpn(x) + 1
<1>1. Vpn(x) \in Nat /\ Vpn(x) * PGSIZE = x
  BY PageOf
<1>2. (Vpn(x) + 1) * PGSIZE = x + PGSIZE
  BY <1>1, Sizes
<1> QED
  BY <1>1, <1>2, Multiple, Sizes

\* A value taken modulo UINT is a natural number; below KERNBASE it is unchanged.
LEMMA Wrapped ==
  ASSUME NEW x \in Int
  PROVE  /\ x % UINT \in Nat
         /\ x >= 0 /\ x < KERNBASE => x % UINT = x
<1>1. \A u \in Nat : u >= 1 => x % u \in Nat /\ (x >= 0 /\ x < u => x % u = x)
  OBVIOUS
<1>2. UINT >= 1 /\ UINT \in Nat /\ UINT >= KERNBASE
  BY Sizes
<1> QED
  BY <1>1, <1>2, Sizes

\* PGROUNDUP() is the first page boundary that is not below.
LEMMA RoundUp ==
  ASSUME NEW x \in Nat
  PROVE  /\ PGROUNDUP(x) \in Nat /\ PGROUNDUP(x) % PGSIZE = 0
         /\ x <= PGROUNDUP(x) /\ PGROUNDUP(x) < x + PGSIZE
<1>1. x + PGSIZE - 1 \in Nat
  BY Sizes
<1>2. PGROUNDUP(x) = Vpn(x + PGSIZE - 1) * PGSIZE
  BY DEF PGROUNDUP, Vpn
<1>3. /\ Vpn(x + PGSIZE - 1) \in Nat /\ Vpn(x + PGSIZE - 1) * PGSIZE \in Nat
      /\ Vpn(x + PGSIZE - 1) * PGSIZE <= x + PGSIZE - 1
      /\ x + PGSIZE - 1 < Vpn(x + PGSIZE - 1) * PGSIZE + PGSIZE
  BY <1>1, PageOf
<1>4. (Vpn(x + PGSIZE - 1) * PGSIZE) % PGSIZE = 0
  BY <1>3, Multiple
<1> QED
  BY <1>2, <1>3, <1>4, Sizes

\* The pages below a size and below the next page boundary are the same.
LEMMA BelowAligned ==
  ASSUME NEW x \in Nat, NEW a \in Nat, a % PGSIZE = 0 \/ a = x, x <= a, a < x + PGSIZE
  PROVE  Below(a) = Below(x)
<1>1. CASE a = x
  BY <1>1
<1>2. CASE a % PGSIZE = 0
  <2>1. Vpn(a) \in Nat /\ Vpn(a) * PGSIZE = a
    BY <1>2, PageOf
  <2>2. ASSUME NEW v \in Vpns, v * PGSIZE < a PROVE v * PGSIZE < x
    <3>1. v \in Nat
      BY DEF Vpns
    <3>2. v < Vpn(a)
      BY <2>1, <2>2, <3>1, PageOrder
    <3>3. v * PGSIZE + PGSIZE <= a /\ v * PGSIZE \in Int
      BY <2>1, <3>1, <3>2, PageOrder
    <3> QED
      BY <3>3, Sizes
  <2>3. ASSUME NEW v \in Vpns, v * PGSIZE < x PROVE v * PGSIZE < a
    <3>1. v * PGSIZE \in Int
      BY PageOrder DEF Vpns
    <3> QED
      BY <2>3, <3>1
  <2> QED
    BY <2>2, <2>3 DEF Below
<1> QED
  BY <1>1, <1>2

\* The pages below a boundary and the page that begins there.
LEMMA BelowNext ==
  ASSUME NEW a \in Nat, a % PGSIZE = 0, a < KERNBASE
  PROVE  /\ Vpn(a) \in Vpns /\ Vpn(a) \notin Below(a)
         /\ Below(a + PGSIZE) = Below(a) \union {Vpn(a)}
<1>1. Vpn(a) \in Nat /\ Vpn(a) * PGSIZE = a /\ Vpn(a) \in Vpns
  BY PageOf
<1>2. ASSUME NEW v \in Vpns
      PROVE  v * PGSIZE < a + PGSIZE <=> v * PGSIZE < a \/ v = Vpn(a)
  <2>1. v \in Nat
    BY DEF Vpns
  <2>2. /\ v * PGSIZE \in Int
        /\ v < Vpn(a) => v * PGSIZE + PGSIZE <= a
        /\ Vpn(a) < v => a + PGSIZE <= v * PGSIZE
    BY <1>1, <2>1, PageOrder
  <2> QED
    BY <1>1, <2>1, <2>2, Sizes
<1> QED
  BY <1>1, <1>2 DEF Below

\* What deallocuvm() leaves of the pages below y.
LEMMA BelowRest ==
  ASSUME NEW x \in Nat, NEW y \in Nat, NEW z \in Nat, x <= y, y <= z
  PROVE  Below(y) \ {v \in Below(y) : PGROUNDUP(x) <= v * PGSIZE /\ v * PGSIZE < z} = Below(x)
<1>1. Below(PGROUNDUP(x)) = Below(x)
  BY RoundUp, BelowAligned
<1>2. \A v \in Vpns : v * PGSIZE \in Int
  BY PageOrder DEF Vpns
<1>3. \A v \in Vpns : (v * PGSIZE < y /\ ~(PGROUNDUP(x) <= v * PGSIZE /\ v * PGSIZE < z))
                        <=> (v * PGSIZE < y /\ v * PGSIZE < PGROUNDUP(x))
  BY <1>2, RoundUp
<1>4. \A v \in Vpns : v * PGSIZE < x => v * PGSIZE < y
  BY <1>2
<1>5. \A v \in Vpns : v * PGSIZE < x <=> v * PGSIZE < PGROUNDUP(x)
  BY <1>1 DEF Below
<1> QED
  BY <1>3, <1>4, <1>5 DEF Below

-----------------------------------------------------------------------------
(* Page directories *)

\* The sizes of sets of pages are numbers.
LEMMA PageSets ==
  /\ IsFiniteSet(Vpns)
  /\ \A S \in SUBSET Vpns : IsFiniteSet(S) /\ Cardinality(S) \in Nat
  /\ \A S \in SUBSET Vpns : \A T \in SUBSET S : Cardinality(T) <= Cardinality(S)
  /\ \A S \in SUBSET Vpns : \A v \in Vpns \ S : Cardinality(S \union {v}) = Cardinality(S) + 1
<1>1. IsFiniteSet(Vpns)
  BY Sizes, FS_Interval DEF Vpns
<1>2. \A S \in SUBSET Vpns : IsFiniteSet(S)
  BY <1>1, FS_Subset
<1> QED
  BY <1>1, <1>2, FS_Subset, FS_AddElement, FS_CardinalityType

\* A directory occupies a number of pages, none if it was not made.
LEMMA DirPages ==
  ASSUME NEW d \in DirType
  PROVE  /\ PagesOf(d) \in Nat
         /\ ~d.live => PagesOf(d) = 0
         /\ d.live => PagesOf(d) >= 2
  BY PageSets DEF DirType, PagesOf

\* The directories that setupkvm() makes or has not made yet.
LEMMA NewDirs ==
  /\ NoDir \in DirType /\ DirSound(NoDir) /\ ~NoDir.live /\ PagesOf(NoDir) = 0
  /\ KernelDir \in DirType /\ DirSound(KernelDir) /\ KernelDir.live /\ PagesOf(KernelDir) = 2
  /\ KernelDir.pages = Below(0) /\ KernelDir.nouser = {}
<1>1. NoDir \in DirType /\ DirSound(NoDir) /\ ~NoDir.live /\ PagesOf(NoDir) = 0
  BY DEF NoDir, DirType, DirSound, PagesOf
<1>2. /\ KernelDir \in DirType /\ KernelDir.live
      /\ KernelDir.pages = {} /\ KernelDir.tabs = {} /\ KernelDir.nouser = {}
  BY DEF NoDir, KernelDir, DirType
<1>3. DirSound(KernelDir)
  BY <1>2 DEF DirSound
<1>4. PagesOf(KernelDir) = 2
  BY <1>2, FS_EmptySet DEF PagesOf
<1>5. Below(0) = {}
  <2>1. ASSUME NEW v \in Vpns, v * PGSIZE < 0 PROVE FALSE
    <3>1. v \in Nat /\ v * PGSIZE >= 0
      BY Sizes DEF Vpns
    <3> QED
      BY <2>1, <3>1, PageOrder
  <2> QED
    BY <2>1 DEF Below
<1> QED
  BY <1>1, <1>2, <1>3, <1>4, <1>5

\* deallocuvm() of a directory with the pages below y leaves those below x.
LEMMA Deallocated ==
  ASSUME NEW d \in DirType, DirSound(d), d.live,
         NEW x \in Nat, NEW y \in Nat, NEW z \in Nat, x <= y, y <= z, d.pages = Below(y)
  PROVE  LET e == deallocuvm(d, z, x)
         IN  /\ e \in DirType /\ DirSound(e) /\ e.live
             /\ e.pages = Below(x) /\ e.nouser \subseteq d.nouser
             /\ PagesOf(e) <= PagesOf(d)
<1> DEFINE gone == {v \in d.pages : PGROUNDUP(x) <= v * PGSIZE /\ v * PGSIZE < z}
           e == deallocuvm(d, z, x)
<1>1. /\ e \in DirType /\ e.live = d.live /\ e.tabs = d.tabs
      /\ e.pages = d.pages \ gone /\ e.nouser = d.nouser \ gone
  BY DEF deallocuvm, DirType
<1>2. d.pages \ gone = Below(x)
  BY BelowRest
<1> HIDE DEF e, gone
<1>3. DirSound(e)
  BY <1>1 DEF DirSound
<1>4. PagesOf(e) <= PagesOf(d)
  <2>1. d.pages \in SUBSET Vpns /\ d.tabs \in SUBSET Vpns /\ e.pages \in SUBSET d.pages
    BY <1>1 DEF DirType
  <2>2. /\ Cardinality(e.pages) <= Cardinality(d.pages) /\ Cardinality(d.pages) \in Nat
        /\ Cardinality(d.tabs) \in Nat /\ Cardinality(e.pages) \in Nat
    BY <2>1, PageSets
  <2> QED
    BY <1>1, <2>2 DEF PagesOf
<1> QED
  BY <1>1, <1>2, <1>3, <1>4 DEF e

\* The number of the page table of a page.
LEMMA TableOf ==
  ASSUME NEW v \in Vpns
  PROVE  v \div PTSIZE \in Vpns
<1>1. v \in Nat /\ v < NVPN /\ PTSIZE \in Nat /\ PTSIZE >= 1
  BY VmAssumption DEF Vpns
<1>2. PICK t \in Nat : t = v \div PTSIZE /\ t * PTSIZE <= v
  BY <1>1
<1>3. t * PTSIZE \in Nat /\ t * (PTSIZE - 1) >= 0 /\ t * (PTSIZE - 1) = t * PTSIZE - t
  BY <1>1
<1>4. t <= v
  BY <1>1, <1>2, <1>3
<1> QED
  BY <1>1, <1>2, <1>4, Sizes DEF Vpns

\* mappages() of the page that follows.
LEMMA MappedNext ==
  ASSUME NEW d \in DirType, DirSound(d), d.live,
         NEW a \in Nat, a % PGSIZE = 0, a < KERNBASE, d.pages = Below(a)
  PROVE  LET e == Mapped(d, a)
         IN  /\ e \in DirType /\ DirSound(e) /\ e.live
             /\ e.pages = Below(a + PGSIZE) /\ e.nouser = d.nouser
             /\ Vpn(a) \notin d.pages /\ Vpn(a) \in e.pages
             /\ PagesOf(e) = PagesOf(d) + Needs(d, a) /\ Needs(d, a) \in Nat
<1> DEFINE e == Mapped(d, a)
           t == Vpn(a) \div PTSIZE
<1>1. Vpn(a) \in Vpns /\ Vpn(a) \notin d.pages /\ d.pages \union {Vpn(a)} = Below(a + PGSIZE)
  BY BelowNext
<1>2. t \in Vpns
  BY <1>1, TableOf
<1>3. /\ e \in DirType /\ e.live = d.live /\ e.nouser = d.nouser
      /\ e.pages = d.pages \union {Vpn(a)} /\ e.tabs = d.tabs \union {t}
  BY <1>1, <1>2 DEF Mapped, DirType
<1>4. Needs(d, a) = IF t \in d.tabs THEN 1 ELSE 2
  BY DEF Needs
<1>5. /\ d.pages \in SUBSET Vpns /\ d.tabs \in SUBSET Vpns
      /\ d.nouser \subseteq d.pages /\ \A v \in d.pages : v \div PTSIZE \in d.tabs
  BY DEF DirType, DirSound
<1>6. DirSound(e)
  BY <1>3, <1>5 DEF DirSound
<1> HIDE DEF e, t
<1>7. PagesOf(e) = PagesOf(d) + Needs(d, a)
  <2>1. /\ Cardinality(e.pages) = Cardinality(d.pages) + 1
        /\ Cardinality(d.pages) \in Nat /\ Cardinality(d.tabs) \in Nat
    BY <1>1, <1>3, <1>5, PageSets
  <2>2. t \notin d.tabs => Cardinality(e.tabs) = Cardinality(d.tabs) + 1
    BY <1>2, <1>3, <1>5, PageSets
  <2>3. t \in d.tabs => e.tabs = d.tabs
    BY <1>3
  <2>4. /\ PagesOf(e) = 2 + Cardinality(e.tabs) + Cardinality(e.pages)
        /\ PagesOf(d) = 2 + Cardinality(d.tabs) + Cardinality(d.pages)
    BY <1>3 DEF PagesOf
  <2>5. CASE t \in d.tabs
    BY <1>4, <2>1, <2>3, <2>4, <2>5
  <2>6. CASE t \notin d.tabs
    BY <1>4, <2>1, <2>2, <2>4, <2>6
  <2> QED
    BY <2>5, <2>6
<1> QED
  BY <1>1, <1>3, <1>4, <1>6, <1>7 DEF e

-----------------------------------------------------------------------------
(* The pages of all processes *)

\* A set of numbers that is not empty has a least member.
LEMMA LeastNatural ==
  ASSUME NEW S, S \subseteq Nat, S # {}
  PROVE  \E m \in S : \A q \in S : m =< q
<1> DEFINE R == OpToRel(<, Nat)
<1>1. R = {ss \in Nat \X Nat : ss[1] < ss[2]}
  BY DEF OpToRel
<1>2. IsWellFoundedOn(R, Nat)
  BY Zenon, NatLessThanWellFounded DEF R
<1> HIDE DEF R
<1>3. PICK m \in S : \A q \in S : ~(<<q, m>> \in R)
  BY <1>2, WFMin
<1>4. ASSUME NEW q \in S, q < m PROVE FALSE
  <2>1. <<q, m>> \in {ss \in Nat \X Nat : ss[1] < ss[2]}
    BY <1>4
  <2> QED
    BY <2>1, <1>1, <1>3
<1> QED
  BY <1>4

\* A set of numbers with 0 and the successors of its members holds them all.
LEMMA Induction ==
  ASSUME NEW S, NEW m \in Nat, 0 \in S, \A n \in 0..m - 1 : n \in S => n + 1 \in S
  PROVE  \A n \in 0..m : n \in S
<1> DEFINE bad == {n \in 0..m : n \notin S}
<1>1. SUFFICES ASSUME bad # {} PROVE FALSE
  OBVIOUS
<1>2. bad \subseteq Nat
  OBVIOUS
<1>3. PICK n \in bad : \A q \in bad : n =< q
  BY <1>1, <1>2, LeastNatural
<1>4. n \in 0..m /\ n # 0 /\ n - 1 \in 0..m - 1
  OBVIOUS
<1>5. n - 1 \in S
  BY <1>3, <1>4
<1>6. n - 1 + 1 \in S
  BY <1>4, <1>5
<1> QED
  BY <1>4, <1>6

\* The partial sums of f.
Sums(f, s, m) == /\ s \in [0..m -> Nat] /\ s[0] = 0
                 /\ \A n \in 1..m : s[n] = s[n - 1] + f[n]

\* Total() is the last of the partial sums, which exist.
LEMMA TotalSums ==
  ASSUME NEW f \in [Procs -> Nat]
  PROVE  \E s : Sums(f, s, NPROC) /\ Total(f) = s[NPROC]
<1> DEFINE S == {m \in 0..NPROC : \E s : Sums(f, s, m)}
<1>1. 0 \in S
  <2>1. Sums(f, [n \in 0..0 |-> 0], 0)
    BY DEF Sums
  <2> QED
    BY <2>1, Sizes
<1>2. ASSUME NEW m \in 0..NPROC - 1, m \in S PROVE m + 1 \in S
  <2>1. PICK s : Sums(f, s, m)
    BY <1>2
  <2> DEFINE g == [n \in 0..m + 1 |-> IF n = m + 1 THEN s[m] + f[m + 1] ELSE s[n]]
  <2>2. m \in Nat /\ m + 1 \in Procs /\ f[m + 1] \in Nat
    BY Sizes DEF Procs
  <2>3. s[m] \in Nat
    BY <2>1, <2>2 DEF Sums
  <2>4. g \in [0..m + 1 -> Nat]
    BY <2>1, <2>2, <2>3 DEF Sums
  <2>5. g[0] = 0
    BY <2>1, <2>2 DEF Sums
  <2>6. ASSUME NEW n \in 1..m + 1 PROVE g[n] = g[n - 1] + f[n]
    <3>1. CASE n = m + 1
      <4>1. n - 1 = m /\ m \in 0..m + 1 /\ m # m + 1 /\ n \in 0..m + 1
        BY <2>2, <3>1
      <4> QED
        BY <3>1, <4>1
    <3>2. CASE n # m + 1
      <4>1. n \in 1..m /\ n \in 0..m + 1 /\ n - 1 \in 0..m + 1 /\ n - 1 # m + 1
        BY <2>2, <3>2
      <4>2. s[n] = s[n - 1] + f[n]
        BY <2>1, <4>1 DEF Sums
      <4> QED
        BY <3>2, <4>1, <4>2
    <3> QED
      BY <3>1, <3>2
  <2>7. Sums(f, g, m + 1)
    BY <2>4, <2>5, <2>6 DEF Sums
  <2> QED
    BY <2>7, Sizes
<1>3. NPROC \in S
  <2> HIDE DEF S
  <2>1. \A n \in 0..NPROC : n \in S
    BY <1>1, <1>2, Induction, Sizes
  <2> QED
    BY <2>1, Sizes
<1>4. PICK s : Sums(f, s, NPROC)
  BY <1>3
<1> DEFINE Rec(r) == r = [n \in 0..NPROC |-> IF n = 0 THEN 0 ELSE r[n - 1] + f[n]]
<1>5. Rec(s)
  BY <1>4, Sizes DEF Sums
<1>6. PICK r : Rec(r) /\ Total(f) = r[NPROC]
  BY <1>5 DEF Total
<1>7. r[0] = 0 /\ \A n \in 1..NPROC : r[n] = r[n - 1] + f[n]
  BY <1>6, Sizes
<1> DEFINE T == {n \in 0..NPROC : r[n] = s[n]}
<1>8. 0 \in T /\ \A n \in 0..NPROC - 1 : n \in T => n + 1 \in T
  BY <1>4, <1>7, Sizes DEF Sums
<1>9. NPROC \in T
  <2> HIDE DEF T
  <2>1. \A n \in 0..NPROC : n \in T
    BY <1>8, Induction, Sizes
  <2> QED
    BY <2>1, Sizes
<1> QED
  BY <1>4, <1>6, <1>9

\* A change at one process changes the total by as much.
LEMMA TotalChange ==
  ASSUME NEW f \in [Procs -> Nat], NEW g \in [Procs -> Nat], NEW p \in Procs,
         \A q \in Procs \ {p} : g[q] = f[q]
  PROVE  Total(f) \in Nat /\ Total(g) \in Nat /\ Total(g) = Total(f) - f[p] + g[p]
<1>1. PICK s : Sums(f, s, NPROC) /\ Total(f) = s[NPROC]
  BY TotalSums
<1>2. PICK r : Sums(g, r, NPROC) /\ Total(g) = r[NPROC]
  BY TotalSums
<1> DEFINE T == {n \in 0..NPROC : r[n] = s[n] + (IF n >= p THEN g[p] - f[p] ELSE 0)}
<1>3. p \in 1..NPROC /\ f[p] \in Nat /\ g[p] \in Nat
  BY DEF Procs
<1>4. 0 \in T
  BY <1>1, <1>2, <1>3, Sizes DEF Sums
<1>5. ASSUME NEW n \in 0..NPROC - 1, n \in T PROVE n + 1 \in T
  <2>1. /\ n + 1 \in 1..NPROC /\ n \in 0..NPROC /\ n + 1 \in Procs
        /\ f[n + 1] \in Nat /\ g[n + 1] \in Nat
    BY Sizes DEF Procs
  <2>2. r[n + 1] = r[n] + g[n + 1] /\ s[n + 1] = s[n] + f[n + 1] /\ s[n] \in Nat /\ r[n] \in Nat
    BY <1>1, <1>2, <2>1 DEF Sums
  <2>3. CASE n + 1 = p
    BY <1>3, <1>5, <2>1, <2>2, <2>3
  <2>4. CASE n + 1 # p
    <3>1. g[n + 1] = f[n + 1]
      BY <2>1, <2>4
    <3> QED
      BY <1>3, <1>5, <2>1, <2>2, <2>4, <3>1
  <2> QED
    BY <2>3, <2>4
<1>6. NPROC \in T
  <2> HIDE DEF T
  <2>1. \A n \in 0..NPROC : n \in T
    BY <1>4, <1>5, Induction, Sizes
  <2> QED
    BY <2>1, Sizes
<1>7. s[NPROC] \in Nat /\ r[NPROC] \in Nat /\ NPROC >= p
  BY <1>1, <1>2, <1>3, Sizes DEF Sums
<1> QED
  BY <1>1, <1>2, <1>6, <1>7

-----------------------------------------------------------------------------
(* The invariant, process by process.  r is what the process table has for a *)
(* process, t the call it is in.                                             *)

SlotOk(r, t) ==
    /\ DirSound(r.dir) /\ DirSound(t.new)
    /\ t.pc = "unused" => r = NoProc
    /\ t.pc = "embryo" => r = [NoProc EXCEPT !.kstack = TRUE]
    /\ t.pc \notin {"unused", "embryo"} => r.kstack /\ r.dir.live
    /\ t.new.live => t.pc \in Building \union {"bad", "copyuvm"}
    /\ t.pc \in Building => t.new.live

SizeOk(r, t) ==
    t.pc \in Building \union {"user", "copyuvm", "elf", "bad"} => r.dir.pages = Below(r.sz)

LoopOk(r, t) ==
    t.pc \in Growing =>
        /\ t.oldsz <= t.a /\ t.a < t.newsz + PGSIZE /\ t.newsz < KERNBASE
        /\ t.a % PGSIZE = 0 \/ t.a = t.newsz
        /\ (IF t.new.live THEN t.new ELSE r.dir).pages = Below(t.a)
        /\ t.pc = "grow" => t.oldsz = r.sz
        /\ t.pc = "seg" => t.oldsz = t.nsz /\ t.seg.vaddr + t.seg.filesz <= t.newsz
        /\ t.pc = "stack" => t.oldsz = PGROUNDUP(t.nsz) /\ t.newsz = t.oldsz + 2 * PGSIZE

ImageOk(r, t) ==
    /\ t.pc = "elf" => t.nsz = 0
    /\ t.pc \in {"segments", "args"} => t.new.pages = Below(t.nsz) /\ t.nsz < KERNBASE
    /\ t.pc \in {"segments", "seg", "stack"} => t.new.nouser = {}
    /\ t.pc = "args" => /\ t.nsz % PGSIZE = 0 /\ t.nsz >= 2 * PGSIZE
                        /\ t.new.nouser = {Vpn(t.nsz) - 2}
    /\ t.pc = "copyuvm" /\ ~t.new.live => t.a = 0
    /\ t.pc = "copyuvm" /\ t.new.live =>
          /\ t.a % PGSIZE = 0 /\ t.a < r.sz + PGSIZE
          /\ t.new.pages = Below(t.a)
          /\ t.new.nouser = r.dir.nouser \intersect Below(t.a)

OpOk(t) == /\ t.ip => t.pc \in {"elf", "segments", "seg", "bad"}
           /\ t.pc \in {"elf", "segments", "seg"} => t.ip

LocalOk(r, t) == SlotOk(r, t) /\ SizeOk(r, t) /\ LoopOk(r, t) /\ ImageOk(r, t) /\ OpOk(t)

\* What relates a process to others.
ForkOwns ==
    \A p \in Procs : th[p].pc = "copyuvm" =>
        /\ th[p].child \in Procs /\ th[th[p].child].pc = "embryo"
        /\ \A q \in Procs \ {p} : th[q].pc = "copyuvm" => th[q].child # th[p].child

OpsCounted == outstanding = Cardinality({p \in Procs : th[p].ip})

Types == /\ nfree \in Nat /\ outstanding \in Nat /\ panic = FALSE
         /\ proc \in [Procs -> ProcType] /\ th \in [Procs -> ThreadType]

VmParts == /\ Types /\ (\A p \in Procs : LocalOk(proc[p], th[p]))
           /\ ForkOwns /\ OpsCounted /\ PagesConserved

VmInv == SpacesInv /\ PagesConserved

\* The pages of a process are a number.
LEMMA PagesInNat ==
  ASSUME NEW r \in ProcType, NEW t \in ThreadType
  PROVE  /\ PagesIn(r, t) \in Nat /\ PagesOf(r.dir) \in Nat /\ PagesOf(t.new) \in Nat
         /\ r.dir \in DirType /\ t.new \in DirType
         /\ PagesIn(r, t) = (IF r.kstack THEN 1 ELSE 0) + PagesOf(r.dir) + PagesOf(t.new)
<1>1. r.dir \in DirType /\ t.new \in DirType
  BY DEF ProcType, ThreadType
<1>2. PagesOf(r.dir) \in Nat /\ PagesOf(t.new) \in Nat
  BY <1>1, DirPages
<1> QED
  BY <1>1, <1>2 DEF PagesIn

\* The invariant process by process is the invariant.
LEMMA Parts == VmInv <=> VmParts
<1>1. /\ SlotsSound <=> /\ \A p \in Procs : SlotOk(proc[p], th[p])
                        /\ ForkOwns
      /\ SizeMapped <=> \A p \in Procs : SizeOk(proc[p], th[p])
  BY DEF SlotsSound, SizeMapped, SlotOk, SizeOk, ForkOwns
<1>2. LoopSound <=> \A p \in Procs : LoopOk(proc[p], th[p])
  BY DEF LoopSound, LoopOk, Dir
<1>3. ImageSound <=> \A p \in Procs : ImageOk(proc[p], th[p])
  BY DEF ImageSound, ImageOk
<1>4. OpsEnded <=> OpsCounted /\ \A p \in Procs : OpOk(th[p])
  BY DEF OpsEnded, OpsCounted, OpOk
<1>5. (\A p \in Procs : LocalOk(proc[p], th[p])) <=>
        /\ \A p \in Procs : SlotOk(proc[p], th[p])
        /\ \A p \in Procs : SizeOk(proc[p], th[p])
        /\ \A p \in Procs : LoopOk(proc[p], th[p])
        /\ \A p \in Procs : ImageOk(proc[p], th[p])
        /\ \A p \in Procs : OpOk(th[p])
  BY DEF LocalOk
<1>6. ASSUME Types, PagesConserved PROVE nfree \in 0..NPAGE
  <2> DEFINE f == [p \in Procs |-> PagesIn(proc[p], th[p])]
  <2>1. \A p \in Procs : proc[p] \in ProcType /\ th[p] \in ThreadType
    BY <1>6 DEF Types
  <2>2. f \in [Procs -> Nat]
    BY <2>1, PagesInNat
  <2> HIDE DEF f
  <2>3. Total(f) \in Nat
    BY <2>2, TotalChange, Sizes
  <2>4. NPAGE = nfree + Total(f)
    BY <1>6 DEF PagesConserved, f
  <2> QED
    BY <1>6, <2>3, <2>4, Sizes DEF Types
<1>7. TypeOK /\ NoPanic => Types
  BY DEF TypeOK, NoPanic, Types
<1>8. Types /\ PagesConserved => TypeOK /\ NoPanic
  BY <1>6 DEF TypeOK, NoPanic, Types
<1> QED
  BY <1>1, <1>2, <1>3, <1>4, <1>5, <1>7, <1>8 DEF VmInv, VmParts, SpacesInv

\* Counting the processes that have a transaction.
LEMMA OpsChange ==
  ASSUME NEW f \in [Procs -> ThreadType], NEW g \in [Procs -> ThreadType], NEW p \in Procs,
         \A q \in Procs \ {p} : g[q].ip = f[q].ip
  PROVE  /\ Cardinality({q \in Procs : g[q].ip}) \in Nat
         /\ Cardinality({q \in Procs : f[q].ip}) \in Nat
         /\ Cardinality({q \in Procs : g[q].ip}) =
              Cardinality({q \in Procs : f[q].ip}) - (IF f[p].ip THEN 1 ELSE 0)
                                                   + (IF g[p].ip THEN 1 ELSE 0)
<1> DEFINE F == {q \in Procs : f[q].ip}
           G == {q \in Procs : g[q].ip}
<1>1. IsFiniteSet(Procs)
  BY Sizes, FS_Interval DEF Procs
<1>2. IsFiniteSet(F) /\ IsFiniteSet(G) /\ Cardinality(F) \in Nat /\ Cardinality(G) \in Nat
  BY <1>1, FS_Subset, FS_CardinalityType
<1>3. /\ p \in F <=> f[p].ip
      /\ p \in G <=> g[p].ip
      /\ f[p].ip \in BOOLEAN /\ g[p].ip \in BOOLEAN
  BY DEF ThreadType
<1>4. G \ {p} = F \ {p}
  OBVIOUS
<1> HIDE DEF F, G
<1>5. Cardinality(F \ {p}) = IF p \in F THEN Cardinality(F) - 1 ELSE Cardinality(F)
  BY <1>2, FS_RemoveElement
<1>6. Cardinality(G \ {p}) = IF p \in G THEN Cardinality(G) - 1 ELSE Cardinality(G)
  BY <1>2, FS_RemoveElement
<1>7. Cardinality(G) = Cardinality(F) - (IF f[p].ip THEN 1 ELSE 0) + (IF g[p].ip THEN 1 ELSE 0)
  <2>1. /\ (IF f[p].ip THEN 1 ELSE 0) = (IF p \in F THEN 1 ELSE 0)
        /\ (IF g[p].ip THEN 1 ELSE 0) = (IF p \in G THEN 1 ELSE 0)
    BY <1>3, Zenon
  <2>2. Cardinality(G) = Cardinality(F) - (IF p \in F THEN 1 ELSE 0) + (IF p \in G THEN 1 ELSE 0)
    <3>1. Cardinality(G \ {p}) = Cardinality(F \ {p})
      BY <1>4, Zenon
    <3>2. CASE p \in F
      BY <1>2, <1>5, <1>6, <3>1, <3>2
    <3>3. CASE p \notin F
      BY <1>2, <1>5, <1>6, <3>1, <3>3
    <3> QED
      BY <3>2, <3>3
  <2> QED
    BY <2>1, <2>2
<1> QED
  BY <1>2, <1>7 DEF F, G

\* A step that changes one process.
LEMMA OneChanged ==
  ASSUME VmParts, NEW p \in Procs, NEW r \in ProcType, NEW t \in ThreadType,
         proc' = [proc EXCEPT ![p] = r], th' = [th EXCEPT ![p] = t],
         LocalOk(r, t), panic' = FALSE, nfree' \in Nat,
         nfree' + PagesIn(r, t) = nfree + PagesIn(proc[p], th[p]),
         outstanding' = outstanding - (IF th[p].ip THEN 1 ELSE 0) + (IF t.ip THEN 1 ELSE 0),
         th[p].pc # "embryo",
         t.pc = "copyuvm" => th[p].pc = "copyuvm" /\ t.child = th[p].child
  PROVE  VmParts'
<1>1. /\ Types /\ ForkOwns /\ OpsCounted /\ PagesConserved
      /\ \A q \in Procs : LocalOk(proc[q], th[q])
  BY DEF VmParts
<1>2. /\ nfree \in Nat /\ outstanding \in Nat
      /\ proc \in [Procs -> ProcType] /\ th \in [Procs -> ThreadType]
  BY <1>1 DEF Types
<1>3. /\ proc'[p] = r /\ th'[p] = t
      /\ \A q \in Procs \ {p} : proc'[q] = proc[q] /\ th'[q] = th[q]
      /\ proc' \in [Procs -> ProcType] /\ th' \in [Procs -> ThreadType]
  BY <1>2
<1>4. OpsCounted' /\ outstanding' \in Nat
  <2>1. \A q \in Procs \ {p} : th'[q].ip = th[q].ip
    BY <1>3
  <2>2. /\ Cardinality({q \in Procs : th'[q].ip}) \in Nat
        /\ Cardinality({q \in Procs : th[q].ip}) \in Nat
        /\ Cardinality({q \in Procs : th'[q].ip}) =
             Cardinality({q \in Procs : th[q].ip}) - (IF th[p].ip THEN 1 ELSE 0)
                                                   + (IF th'[p].ip THEN 1 ELSE 0)
    BY <1>2, <1>3, <2>1, OpsChange
  <2>3. outstanding = Cardinality({q \in Procs : th[q].ip})
    BY <1>1 DEF OpsCounted
  <2>4. outstanding' = Cardinality({q \in Procs : th'[q].ip})
    BY <1>3, <2>2, <2>3
  <2> QED
    BY <2>2, <2>4 DEF OpsCounted
<1>5. \A q \in Procs : LocalOk(proc'[q], th'[q])
  BY <1>1, <1>3
<1>6. ForkOwns'
  <2> SUFFICES ASSUME NEW q \in Procs, th'[q].pc = "copyuvm"
               PROVE  /\ th'[q].child \in Procs /\ th'[th'[q].child].pc = "embryo"
                      /\ \A s \in Procs \ {q} : th'[s].pc = "copyuvm" => th'[s].child # th'[q].child
    BY DEF ForkOwns
  <2>1. \A s \in Procs : th'[s].pc = "copyuvm" => th[s].pc = "copyuvm" /\ th'[s].child = th[s].child
    BY <1>3
  <2>2. th[q].child \in Procs /\ th[th[q].child].pc = "embryo"
    BY <1>1, <2>1 DEF ForkOwns
  <2>3. th'[th[q].child] = th[th[q].child]
    BY <1>3, <2>2
  <2>4. \A s \in Procs \ {q} : th[s].pc = "copyuvm" => th[s].child # th[q].child
    BY <1>1, <2>1 DEF ForkOwns
  <2> QED
    BY <2>1, <2>2, <2>3, <2>4
<1>7. PagesConserved'
  <2> DEFINE f == [q \in Procs |-> PagesIn(proc[q], th[q])]
             g == [q \in Procs |-> PagesIn(proc'[q], th'[q])]
  <2>1. f \in [Procs -> Nat] /\ g \in [Procs -> Nat]
    BY <1>2, <1>3, PagesInNat
  <2>2. \A q \in Procs \ {p} : g[q] = f[q]
    BY <1>3
  <2>3. f[p] = PagesIn(proc[p], th[p]) /\ g[p] = PagesIn(r, t)
    BY <1>3
  <2>4. NPAGE = nfree + Total(f)
    BY <1>1 DEF PagesConserved
  <2> HIDE DEF f, g
  <2>5. Total(f) \in Nat /\ Total(g) \in Nat /\ Total(g) = Total(f) - f[p] + g[p]
    BY <2>1, <2>2, TotalChange
  <2>6. f[p] \in Nat /\ g[p] \in Nat
    BY <2>1
  <2>7. NPAGE = nfree' + Total(g)
    BY <1>2, <2>3, <2>4, <2>5, <2>6
  <2> QED
    BY <2>7 DEF PagesConserved, g
<1> QED
  BY <1>3, <1>4, <1>5, <1>6, <1>7 DEF VmParts, Types

\* A step of fork(), which changes the parent's call and the child's slot.
LEMMA TwoChanged ==
  ASSUME VmParts, NEW p \in Procs, NEW q \in Procs, p # q,
         NEW r \in ProcType, NEW t \in ThreadType, NEW u \in ThreadType,
         proc' = [proc EXCEPT ![q] = r], th' = [th EXCEPT ![p] = t, ![q] = u],
         LocalOk(proc[p], t), LocalOk(r, u), panic' = FALSE, nfree' \in Nat,
         nfree' + PagesIn(proc[p], t) + PagesIn(r, u)
           = nfree + PagesIn(proc[p], th[p]) + PagesIn(proc[q], th[q]),
         outstanding' = outstanding, ~t.ip, ~u.ip, ~th[p].ip, ~th[q].ip,
         \/ /\ th[p].pc # "embryo" /\ th[q].pc = "unused"
            /\ t.pc = "copyuvm" /\ t.child = q /\ u.pc = "embryo"
         \/ /\ th[p].pc = "copyuvm" /\ th[p].child = q
            /\ t.pc # "copyuvm" /\ u.pc # "copyuvm"
  PROVE  VmParts'
<1>1. /\ Types /\ ForkOwns /\ OpsCounted /\ PagesConserved
      /\ \A s \in Procs : LocalOk(proc[s], th[s])
  BY DEF VmParts
<1>2. /\ nfree \in Nat /\ outstanding \in Nat
      /\ proc \in [Procs -> ProcType] /\ th \in [Procs -> ThreadType]
  BY <1>1 DEF Types
<1>3. /\ proc'[p] = proc[p] /\ th'[p] = t /\ proc'[q] = r /\ th'[q] = u
      /\ \A s \in Procs \ {p, q} : proc'[s] = proc[s] /\ th'[s] = th[s]
      /\ proc' \in [Procs -> ProcType] /\ th' \in [Procs -> ThreadType]
  BY <1>2
<1>4. OpsCounted'
  <2>1. {s \in Procs : th'[s].ip} = {s \in Procs : th[s].ip}
    BY <1>3
  <2> QED
    BY <1>1, <2>1 DEF OpsCounted
<1>5. \A s \in Procs : LocalOk(proc'[s], th'[s])
  BY <1>1, <1>3
<1>6. ForkOwns'
  <2> SUFFICES ASSUME NEW s \in Procs, th'[s].pc = "copyuvm"
               PROVE  /\ th'[s].child \in Procs /\ th'[th'[s].child].pc = "embryo"
                      /\ \A x \in Procs \ {s} : th'[x].pc = "copyuvm" => th'[x].child # th'[s].child
    BY DEF ForkOwns
  <2>1. \A x \in Procs : th[x].pc = "copyuvm" =>
           /\ th[x].child \in Procs /\ th[th[x].child].pc = "embryo"
           /\ \A y \in Procs \ {x} : th[y].pc = "copyuvm" => th[y].child # th[x].child
    BY <1>1 DEF ForkOwns
  <2>2. CASE /\ th[p].pc # "embryo" /\ th[q].pc = "unused"
             /\ t.pc = "copyuvm" /\ t.child = q /\ u.pc = "embryo"
    BY <1>3, <2>1, <2>2
  <2>3. CASE /\ th[p].pc = "copyuvm" /\ th[p].child = q
             /\ t.pc # "copyuvm" /\ u.pc # "copyuvm"
    <3>1. s # p /\ s # q /\ th'[s] = th[s]
      BY <1>3, <2>3
    <3>2. th[s].child # q /\ th[s].child # p /\ th[s].child \in Procs
      BY <2>1, <2>3, <3>1
    <3> QED
      BY <1>3, <2>1, <2>3, <3>1, <3>2
  <2> QED
    BY <2>2, <2>3
<1>7. PagesConserved'
  <2> DEFINE f == [s \in Procs |-> PagesIn(proc[s], th[s])]
             h == [s \in Procs |-> IF s = p THEN PagesIn(proc[p], t) ELSE PagesIn(proc[s], th[s])]
             g == [s \in Procs |-> PagesIn(proc'[s], th'[s])]
  <2>1. f \in [Procs -> Nat] /\ g \in [Procs -> Nat] /\ h \in [Procs -> Nat]
    BY <1>2, <1>3, PagesInNat
  <2>2. /\ \A s \in Procs \ {p} : h[s] = f[s]
        /\ \A s \in Procs \ {q} : g[s] = h[s]
    BY <1>3
  <2>3. /\ f[p] = PagesIn(proc[p], th[p]) /\ h[p] = PagesIn(proc[p], t)
        /\ h[q] = PagesIn(proc[q], th[q]) /\ g[q] = PagesIn(r, u)
    BY <1>3
  <2>4. NPAGE = nfree + Total(f)
    BY <1>1 DEF PagesConserved
  <2> HIDE DEF f, g, h
  <2>5. /\ Total(f) \in Nat /\ Total(h) \in Nat /\ Total(h) = Total(f) - f[p] + h[p]
        /\ Total(g) \in Nat /\ Total(g) = Total(h) - h[q] + g[q]
    BY <2>1, <2>2, TotalChange
  <2>6. f[p] \in Nat /\ h[p] \in Nat /\ h[q] \in Nat /\ g[q] \in Nat
    BY <2>1
  <2>8. nfree' + h[p] + g[q] = nfree + f[p] + h[q]
    BY <2>3
  <2>7. NPAGE = nfree' + Total(g)
    BY <1>2, <2>8, <2>4, <2>5, <2>6
  <2> QED
    BY <2>7 DEF PagesConserved, g
<1> QED
  BY <1>2, <1>3, <1>4, <1>5, <1>6, <1>7 DEF VmParts, Types

-----------------------------------------------------------------------------
(* Steps *)

USE DEF At, kalloc, kfree

\* What the invariant says about one process.
LEMMA Here ==
  ASSUME VmParts, NEW p \in Procs
  PROVE  /\ proc[p] \in ProcType /\ th[p] \in ThreadType /\ LocalOk(proc[p], th[p])
         /\ nfree \in Nat /\ outstanding \in Nat /\ panic = FALSE
         /\ proc \in [Procs -> ProcType] /\ th \in [Procs -> ThreadType]
         /\ proc = [proc EXCEPT ![p] = proc[p]]
  BY DEF VmParts, Types

\* The fields of a process and of its call.
LEMMA Fields ==
  ASSUME NEW r \in ProcType, NEW t \in ThreadType
  PROVE  /\ r.kstack \in BOOLEAN /\ r.dir \in DirType /\ r.sz \in Nat /\ r.sz < KERNBASE
         /\ r.sp \in Nat /\ t.new \in DirType /\ t.nsz \in Nat /\ t.a \in Nat /\ t.oldsz \in Nat
         /\ t.newsz \in Nat /\ t.ip \in BOOLEAN
         /\ t.seg.vaddr \in Nat /\ t.seg.memsz \in Nat /\ t.seg.filesz \in Nat
         /\ t.nseg \in Nat /\ t.nseg <= MAXSEG
  BY Sizes DEF ProcType, ThreadType

\* A call that is over.
LEMMA Threads ==
  ASSUME NEW pc \in {"user", "zombie", "unused", "embryo", "elf"}
  PROVE  /\ Thread(pc) \in ThreadType /\ Thread(pc).pc = pc /\ Thread(pc).new = NoDir
         /\ Thread(pc).ip = FALSE /\ Thread(pc).nsz = 0
  BY NewDirs, Sizes DEF Thread, ThreadType

\* A process between calls, or a zombie.
LEMMA UserOk ==
  ASSUME NEW r \in ProcType, DirSound(r.dir), r.kstack, r.dir.live
  PROVE  /\ r.dir.pages = Below(r.sz) => LocalOk(r, Thread("user"))
         /\ LocalOk(r, Thread("zombie"))
         /\ \A pc \in {"user", "zombie"} : PagesIn(r, Thread(pc)) = 1 + PagesOf(r.dir)
<1>1. ASSUME NEW pc \in {"user", "zombie"}, pc = "user" => r.dir.pages = Below(r.sz)
      PROVE  LocalOk(r, Thread(pc))
  <2> DEFINE t == Thread(pc)
  <2>1. t.pc = pc /\ t.new = NoDir /\ ~t.ip
    BY Threads
  <2> HIDE DEF t
  <2>2. SlotOk(r, t)
    BY <2>1, NewDirs DEF SlotOk, Building
  <2> QED
    BY <1>1, <2>1, <2>2 DEF LocalOk, SizeOk, LoopOk, ImageOk, OpOk, Growing, Building, t
<1>2. ASSUME NEW pc \in {"user", "zombie"} PROVE PagesIn(r, Thread(pc)) = 1 + PagesOf(r.dir)
  <2>1. Thread(pc) \in ThreadType /\ Thread(pc).new = NoDir
    BY Threads
  <2> QED
    BY <2>1, PagesInNat, NewDirs
<1> QED
  BY <1>1, <1>2

\* A slot that is free.
LEMMA UnusedOk ==
  /\ NoProc \in ProcType /\ LocalOk(NoProc, Thread("unused"))
  /\ PagesIn(NoProc, Thread("unused")) = 0
<1>1. NoProc \in ProcType /\ NoProc.dir = NoDir /\ ~NoProc.kstack
  BY NewDirs, Sizes DEF NoProc, ProcType
<1>2. /\ Thread("unused") \in ThreadType /\ Thread("unused").pc = "unused"
      /\ Thread("unused").new = NoDir /\ ~Thread("unused").ip
  BY Threads
<1>3. SlotOk(NoProc, Thread("unused"))
  BY <1>1, <1>2, NewDirs DEF SlotOk, Building
<1>4. LocalOk(NoProc, Thread("unused"))
  BY <1>2, <1>3 DEF LocalOk, SizeOk, LoopOk, ImageOk, OpOk, Growing, Building
<1>5. PagesIn(NoProc, Thread("unused")) = 0
  BY <1>1, <1>2, PagesInNat, NewDirs
<1> QED
  BY <1>1, <1>4, <1>5

LEMMA InitParts == Init => VmParts
<1> SUFFICES ASSUME Init PROVE VmParts
  OBVIOUS
<1> DEFINE d == [KernelDir EXCEPT !.tabs = {0}, !.pages = {0}]
           r == [kstack |-> TRUE, sz |-> PGSIZE, sp |-> 0, dir |-> d]
<1>1. 0 \in Vpns /\ Below(PGSIZE) = {0}
  <2>1. 0 % PGSIZE = 0 /\ 0 < KERNBASE /\ Vpn(0) = 0
    <3>1. 0 * PGSIZE = 0
      BY Sizes
    <3> QED
      BY <3>1, Multiple, Sizes
  <2>2. Below(0) = {}
    BY NewDirs DEF KernelDir, NoDir
  <2>3. Vpn(0) \in Vpns /\ Below(0 + PGSIZE) = Below(0) \union {Vpn(0)}
    BY <2>1, BelowNext
  <2>4. 0 + PGSIZE = PGSIZE
    BY Sizes
  <2> QED
    BY <2>1, <2>2, <2>3, <2>4
<1>2. /\ d \in DirType /\ d.live /\ d.tabs = {0} /\ d.pages = {0} /\ d.nouser = {}
  BY <1>1, NewDirs DEF DirType
<1>3. 0 \div PTSIZE = 0
  BY VmAssumption
<1> HIDE DEF d
<1>4. DirSound(d) /\ PagesOf(d) = 4
  <2>1. DirSound(d)
    BY <1>2, <1>3 DEF DirSound
  <2>2. Cardinality({0}) = 1
    BY FS_Singleton
  <2> QED
    BY <1>2, <2>1, <2>2 DEF PagesOf
<1>5. r \in ProcType /\ r.kstack /\ r.dir = d /\ r.sz = PGSIZE
  BY <1>2, Sizes DEF ProcType
<1>6. proc = [p \in Procs |-> IF p # 1 THEN NoProc ELSE r]
  BY DEF Init, d
<1> HIDE DEF r
<1>7. th = [p \in Procs |-> Thread(IF p = 1 THEN "user" ELSE "unused")]
  BY DEF Init
<1>8. LocalOk(r, Thread("user")) /\ PagesIn(r, Thread("user")) = 5
  BY <1>1, <1>2, <1>4, <1>5, UserOk
<1>9. /\ proc[1] = r /\ th[1] = Thread("user")
      /\ \A p \in Procs \ {1} : proc[p] = NoProc /\ th[p] = Thread("unused")
  BY <1>6, <1>7, Sizes
<1>10. \A p \in Procs : LocalOk(proc[p], th[p])
  BY <1>8, <1>9, UnusedOk
<1>11. \A p \in Procs : th[p].pc # "copyuvm" /\ ~th[p].ip
  BY <1>9, Threads
<1>12. ForkOwns
  BY <1>11 DEF ForkOwns
<1>13. OpsCounted
  <2>1. {p \in Procs : th[p].ip} = {}
    BY <1>11
  <2>2. outstanding = 0
    BY DEF Init
  <2> QED
    BY <2>1, <2>2, FS_EmptySet DEF OpsCounted
<1>14. PagesConserved
  <2> DEFINE z == [p \in Procs |-> 0]
             f == [p \in Procs |-> PagesIn(proc[p], th[p])]
  <2>1. \A p \in Procs \ {1} : PagesIn(proc[p], th[p]) = 0
    BY <1>9, UnusedOk
  <2>2. PagesIn(proc[1], th[1]) = 5
    BY <1>8, <1>9
  <2>3. /\ z \in [Procs -> Nat] /\ f \in [Procs -> Nat] /\ f[1] = 5 /\ z[1] = 0
        /\ \A p \in Procs \ {1} : f[p] = z[p]
    BY <2>1, <2>2, Sizes
  <2>4. Total(z) = 0
    <3>1. PICK s : Sums(z, s, NPROC) /\ Total(z) = s[NPROC]
      BY <2>3, TotalSums
    <3> DEFINE T == {n \in 0..NPROC : s[n] = 0}
    <3>2. 0 \in T
      BY <3>1, Sizes DEF Sums
    <3>3. ASSUME NEW n \in 0..NPROC - 1, n \in T PROVE n + 1 \in T
      <4>1. n + 1 \in Procs /\ n + 1 \in 1..NPROC /\ n + 1 - 1 = n /\ z[n + 1] = 0
        BY Sizes DEF Procs
      <4>2. s[n + 1] = s[n] + z[n + 1]
        BY <3>1, <4>1 DEF Sums
      <4> QED
        BY <3>3, <4>1, <4>2, Sizes
    <3> HIDE DEF T
    <3>4. \A n \in 0..NPROC : n \in T
      BY <3>2, <3>3, Induction, Sizes
    <3> QED
      BY <3>1, <3>4, Sizes DEF T
  <2> HIDE DEF z, f
  <2>5. Total(f) = 5
    BY <2>3, <2>4, TotalChange, Sizes
  <2>6. nfree = NPAGE - 5
    BY DEF Init
  <2> QED
    BY <2>5, <2>6, Sizes DEF PagesConserved, f
<1>16. nfree = NPAGE - 5 /\ outstanding = 0 /\ panic = FALSE
  BY DEF Init
<1>15. Types
  <2>1. \A p \in Procs : proc[p] \in ProcType /\ th[p] \in ThreadType
    BY <1>5, <1>9, UnusedOk, Threads
  <2>2. proc \in [Procs -> ProcType]
    BY <1>6, <2>1
  <2>3. th \in [Procs -> ThreadType]
    BY <1>7, <2>1
  <2> QED
    BY <1>16, <2>2, <2>3, Sizes DEF Types
<1> QED
  BY <1>10, <1>12, <1>13, <1>14, <1>15 DEF VmParts

\* A process with a new size, and with a new address space.
LEMMA Resized ==
  ASSUME NEW r \in ProcType, NEW z \in Nat, z < KERNBASE
  PROVE  /\ [r EXCEPT !.sz = z] \in ProcType /\ [r EXCEPT !.sz = z].sz = z
         /\ [r EXCEPT !.sz = z].dir = r.dir /\ [r EXCEPT !.sz = z].kstack = r.kstack
<1>1. z \in 0..KERNBASE - 1
  BY Sizes
<1> QED
  BY <1>1 DEF ProcType

LEMMA Remapped ==
  ASSUME NEW r \in ProcType, NEW d \in DirType
  PROVE  /\ [r EXCEPT !.dir = d] \in ProcType /\ [r EXCEPT !.dir = d].dir = d
         /\ [r EXCEPT !.dir = d].sz = r.sz /\ [r EXCEPT !.dir = d].kstack = r.kstack
  BY DEF ProcType

\* s is r with another address space and size.
ReplacedBy(s, r, d, z) == /\ s \in ProcType /\ s.dir = d /\ s.sz = z /\ s.kstack = r.kstack

LEMMA Replaced ==
  ASSUME NEW r \in ProcType, NEW d \in DirType, NEW z \in Nat, z < KERNBASE
  PROVE  ReplacedBy([r EXCEPT !.dir = d, !.sz = z], r, d, z)
<1>1. z \in 0..KERNBASE - 1
  BY Sizes
<1> QED
  BY <1>1 DEF ProcType, ReplacedBy

\* u is t at the start of allocuvm(), or on its error path.
Started(u, t, old, new, pc, fail) ==
    /\ u \in ThreadType /\ u.new = t.new /\ u.nsz = t.nsz /\ u.seg = t.seg
    /\ u.ip = t.ip /\ u.child = t.child
    /\ new >= KERNBASE => u.pc = fail
    /\ new < KERNBASE => u.pc = pc /\ u.oldsz = old
    /\ new < KERNBASE /\ new < old => u.newsz = old /\ u.a = old
    /\ new < KERNBASE /\ ~(new < old) => u.newsz = new /\ u.a = PGROUNDUP(old)

LEMMA GrowFields ==
  ASSUME NEW t \in ThreadType, NEW old \in Nat, NEW new \in Nat,
         NEW pc \in Growing, NEW fail \in {"user", "bad"}
  PROVE  Started(Grow(t, old, new, pc, fail), t, old, new, pc, fail)
<1>1. PGROUNDUP(old) \in Nat
  BY RoundUp
<1>2. CASE new >= KERNBASE
  BY <1>2, Sizes DEF Grow, ThreadType, Growing, Building, Started
<1>3. CASE ~(new >= KERNBASE) /\ new < old
  BY <1>3, Sizes DEF Grow, ThreadType, Growing, Building, Started
<1>4. CASE ~(new >= KERNBASE) /\ ~(new < old)
  BY <1>1, <1>4, Sizes DEF Grow, ThreadType, Growing, Building, Started
<1> QED
  BY <1>2, <1>3, <1>4

\* The loop of allocuvm() over a directory, from the size old to new.
Looping(u, d, new) ==
    /\ u.oldsz <= u.a /\ u.a < u.newsz + PGSIZE /\ u.newsz < KERNBASE
    /\ u.a % PGSIZE = 0 \/ u.a = u.newsz
    /\ d.pages = Below(u.a) /\ new <= u.newsz

\* The loop that allocuvm() is about to start satisfies its invariant.
LEMMA GrowLoop ==
  ASSUME NEW t \in ThreadType, NEW d \in DirType, NEW old \in Nat, NEW new \in Nat,
         NEW pc, NEW fail, NEW u, Started(u, t, old, new, pc, fail),
         new < KERNBASE, old < KERNBASE, d.pages = Below(old)
  PROVE  Looping(u, d, new)
<1>1. /\ u.oldsz = old
      /\ new < old => u.newsz = old /\ u.a = old
      /\ ~(new < old) => u.newsz = new /\ u.a = PGROUNDUP(old)
  BY DEF Started
<1>2. /\ PGROUNDUP(old) \in Nat /\ PGROUNDUP(old) % PGSIZE = 0
      /\ old <= PGROUNDUP(old) /\ PGROUNDUP(old) < old + PGSIZE
  BY RoundUp
<1>3. Below(PGROUNDUP(old)) = Below(old)
  BY <1>2, BelowAligned
<1>4. CASE new < old
  BY <1>1, <1>4, Sizes DEF Looping
<1>5. CASE ~(new < old)
  BY <1>1, <1>2, <1>3, <1>5, Sizes DEF Looping
<1> QED
  BY <1>4, <1>5

LEMMA SbrkGrow ==
  ASSUME VmParts, NEW p \in Procs, NEW n \in GrowBy, sbrk_grow(p, n)
  PROVE  VmParts'
<1>1. PICK r \in ProcType, t \in ThreadType : r = proc[p] /\ t = th[p]
  BY Here
<1>2. /\ LocalOk(r, t) /\ nfree \in Nat /\ outstanding \in Nat /\ panic = FALSE
      /\ proc = [proc EXCEPT ![p] = r]
  BY <1>1, Here
<1>3. r.sz \in Nat /\ r.sz < KERNBASE /\ r.dir \in DirType
  BY Fields
<1>4. PICK new \in Nat : new = (r.sz + n) % UINT
  <2>1. n \in Nat
    BY VmAssumption, Sizes DEF sbrk_grow
  <2> QED
    BY <1>3, <2>1, Sizes
<1>5. PICK u : u = Grow(t, r.sz, new, "grow", "user")
  OBVIOUS
<1>6. /\ t.pc = "user" /\ th' = [th EXCEPT ![p] = u]
      /\ UNCHANGED <<nfree, proc, outstanding, panic>>
  BY <1>1, <1>4, <1>5 DEF sbrk_grow
<1>7. /\ DirSound(r.dir) /\ DirSound(t.new) /\ r.kstack /\ r.dir.live /\ ~t.new.live
      /\ r.dir.pages = Below(r.sz) /\ ~t.ip
  BY <1>2, <1>6 DEF LocalOk, SlotOk, SizeOk, OpOk, Building
<1>14. Started(u, t, r.sz, new, "grow", "user")
  <2>1. "grow" \in Growing /\ r.sz \in Nat
    BY <1>3 DEF Growing
  <2> QED
    BY <1>5, <2>1, GrowFields
<1>8. /\ u \in ThreadType /\ u.new = t.new /\ u.ip = t.ip
      /\ new >= KERNBASE => u.pc = "user"
      /\ new < KERNBASE => u.pc = "grow" /\ u.oldsz = r.sz
  BY <1>14 DEF Started
<1>9. new < KERNBASE => Looping(u, r.dir, new)
  BY <1>3, <1>7, <1>14, GrowLoop
<1>10. u.pc \in {"user", "grow"} /\ (u.pc = "grow" => new < KERNBASE)
  BY <1>8, Sizes
<1>11. LocalOk(r, u)
  <2>1. SlotOk(r, u)
    BY <1>7, <1>8, <1>10 DEF SlotOk, Building
  <2>2. LoopOk(r, u)
    BY <1>7, <1>8, <1>9, <1>10 DEF LoopOk, Growing, Looping
  <2>3. SizeOk(r, u) /\ ImageOk(r, u) /\ OpOk(u)
    BY <1>7, <1>8, <1>10 DEF SizeOk, ImageOk, OpOk
  <2> QED
    BY <2>1, <2>2, <2>3 DEF LocalOk
<1>12. /\ nfree' \in Nat /\ panic' = FALSE /\ nfree' + PagesIn(r, u) = nfree + PagesIn(r, t)
       /\ proc' = [proc EXCEPT ![p] = r]
  BY <1>2, <1>6, <1>8 DEF PagesIn
<1>13. outstanding' = outstanding - (IF t.ip THEN 1 ELSE 0) + (IF u.ip THEN 1 ELSE 0)
  BY <1>2, <1>6, <1>7, <1>8
<1> QED
  BY <1>1, <1>6, <1>8, <1>10, <1>11, <1>12, <1>13, OneChanged

LEMMA SbrkGrown ==
  ASSUME VmParts, NEW p \in Procs, sbrk_grown(p)
  PROVE  VmParts'
<1> DEFINE r == proc[p]
           t == th[p]
           s == [r EXCEPT !.sz = t.newsz]
<1>1. /\ r \in ProcType /\ t \in ThreadType /\ LocalOk(r, t) /\ nfree \in Nat /\ panic = FALSE
      /\ th \in [Procs -> ThreadType] /\ proc \in [Procs -> ProcType] /\ outstanding \in Nat
  BY Here
<1>2. /\ t.pc = "grow" /\ t.a >= t.newsz /\ th' = [th EXCEPT ![p] = Thread("user")]
      /\ proc' = [proc EXCEPT ![p] = s]
      /\ UNCHANGED <<nfree, outstanding, panic>>
  BY <1>1 DEF sbrk_grown, Grown
<1>3. /\ DirSound(r.dir) /\ DirSound(t.new) /\ r.kstack /\ r.dir.live /\ ~t.new.live /\ ~t.ip
      /\ t.a < t.newsz + PGSIZE /\ t.newsz < KERNBASE /\ r.dir.pages = Below(t.a)
      /\ t.a % PGSIZE = 0 \/ t.a = t.newsz
  BY <1>1, <1>2 DEF LocalOk, SlotOk, LoopOk, OpOk, Building, Growing
<1>4. t.a \in Nat /\ t.newsz \in Nat
  BY <1>1, Fields
<1>5. r.dir.pages = Below(t.newsz)
  BY <1>2, <1>3, <1>4, BelowAligned
<1>6. s \in ProcType /\ s.dir = r.dir /\ s.kstack = r.kstack /\ s.sz = t.newsz
  BY <1>1, <1>3, <1>4, Resized
<1> HIDE DEF s
<1>7. LocalOk(s, Thread("user")) /\ PagesIn(s, Thread("user")) = 1 + PagesOf(r.dir)
  BY <1>3, <1>5, <1>6, UserOk
<1>8. PagesIn(r, t) = 1 + PagesOf(r.dir) /\ PagesOf(r.dir) \in Nat
  <2>1. PagesOf(t.new) = 0
    BY <1>1, <1>3, Fields, DirPages
  <2> QED
    BY <1>1, <1>3, <2>1, PagesInNat
<1>9. Thread("user") \in ThreadType /\ Thread("user").pc = "user" /\ ~Thread("user").ip
  BY Threads
<1> HIDE DEF r, t
<1> DEFINE u == Thread("user")
<1> HIDE DEF u
<1>10. /\ t.pc # "embryo" /\ u.pc # "copyuvm" /\ nfree' \in Nat /\ panic' = FALSE
       /\ nfree' + PagesIn(s, u) = nfree + PagesIn(r, t)
  BY <1>1, <1>2, <1>7, <1>8, <1>9 DEF u
<1>11. outstanding' = outstanding - (IF t.ip THEN 1 ELSE 0) + (IF u.ip THEN 1 ELSE 0)
  BY <1>1, <1>2, <1>3, <1>9 DEF u
<1>12. u \in ThreadType /\ th' = [th EXCEPT ![p] = u] /\ LocalOk(s, u)
  BY <1>2, <1>7, <1>9 DEF u
<1> QED
  BY <1>2, <1>6, <1>10, <1>11, <1>12, OneChanged DEF r, t

LEMMA SbrkShrink ==
  ASSUME VmParts, NEW p \in Procs, NEW n \in GrowBy, sbrk_shrink(p, n)
  PROVE  VmParts'
<1>1. PICK r \in ProcType, t \in ThreadType : r = proc[p] /\ t = th[p]
  BY Here
<1>2. /\ LocalOk(r, t) /\ nfree \in Nat /\ outstanding \in Nat /\ panic = FALSE
      /\ th \in [Procs -> ThreadType] /\ proc \in [Procs -> ProcType]
  BY <1>1, Here
<1>3. r.sz \in Nat /\ r.sz < KERNBASE /\ r.dir \in DirType
  BY Fields
<1>4. PICK new \in Nat : new = (r.sz + n + UINT) % UINT
  <2>1. n \in Int /\ n >= -KERNBASE
    BY VmAssumption, Sizes
  <2>2. r.sz + n + UINT \in Nat
    BY <1>3, <2>1, Sizes
  <2> QED
    BY <2>2, Sizes
<1>5. t.pc = "user" /\ UNCHANGED <<outstanding, panic>>
  BY <1>1 DEF sbrk_shrink
<1>6. /\ DirSound(r.dir) /\ DirSound(t.new) /\ r.kstack /\ r.dir.live /\ ~t.new.live
      /\ r.dir.pages = Below(r.sz) /\ ~t.ip
  BY <1>2, <1>5 DEF LocalOk, SlotOk, SizeOk, OpOk, Building
<1>7. CASE new >= r.sz
  <2>1. UNCHANGED <<nfree, proc, th, outstanding, panic>>
    BY <1>1, <1>4, <1>5, <1>7 DEF sbrk_shrink
  <2> QED
    BY <2>1 DEF VmParts, Types, ForkOwns, OpsCounted, PagesConserved
<1>8. CASE ~(new >= r.sz)
  <2>1. PICK d \in DirType :
          /\ d = deallocuvm(r.dir, r.sz, new) /\ DirSound(d) /\ d.live /\ d.pages = Below(new)
          /\ PagesOf(d) <= PagesOf(r.dir)
    BY <1>3, <1>6, <1>8, Deallocated
  <2>2. PICK z \in Nat : z = (IF new = 0 THEN r.sz ELSE new) /\ z < KERNBASE
    BY <1>3, <1>8, Sizes
  <2>3. PICK s : s = [r EXCEPT !.dir = d, !.sz = z]
    OBVIOUS
  <2>4. PICK u : u = [t EXCEPT !.pc = IF new = 0 THEN "fault" ELSE "user"]
    OBVIOUS
  <2>5. /\ nfree' = nfree + (PagesOf(r.dir) - PagesOf(d))
        /\ proc' = [proc EXCEPT ![p] = s]
        /\ th' = [th EXCEPT ![p] = u]
    <3>1. /\ nfree' = nfree + (PagesOf(r.dir) - PagesOf(d))
          /\ proc' = [proc EXCEPT ![p].dir = d, ![p].sz = IF new = 0 THEN @ ELSE new]
          /\ th' = [th EXCEPT ![p].pc = IF new = 0 THEN "fault" ELSE @]
      BY <1>1, <1>4, <1>8, <2>1 DEF sbrk_shrink
    <3>2. proc' = [proc EXCEPT ![p] = s]
      BY <1>1, <1>2, <2>2, <2>3, <3>1
    <3>3. th' = [th EXCEPT ![p] = u]
      BY <1>1, <1>2, <1>5, <2>4, <3>1
    <3> QED
      BY <3>1, <3>2, <3>3
  <2>6. s \in ProcType /\ s.dir = d /\ s.kstack /\ s.sz = z
    <3>1. z < KERNBASE
      BY <2>2
    <3>2. s \in ProcType /\ s.dir = d /\ s.sz = z /\ s.kstack = r.kstack
      <4>1. ReplacedBy([r EXCEPT !.dir = d, !.sz = z], r, d, z)
        BY <3>1, Replaced
      <4> QED
        BY <2>3, <4>1 DEF ReplacedBy
    <3> QED
      BY <1>6, <3>2
  <2>7. /\ u \in ThreadType /\ u.new = t.new /\ u.ip = t.ip
        /\ u.pc = IF new = 0 THEN "fault" ELSE "user"
    BY <2>4 DEF ThreadType
  <2>8. LocalOk(s, u)
    <3>1. SlotOk(s, u)
      BY <1>6, <2>1, <2>6, <2>7 DEF SlotOk, Building
    <3>2. SizeOk(s, u)
      BY <2>1, <2>2, <2>6, <2>7 DEF SizeOk, Building
    <3>3. LoopOk(s, u) /\ ImageOk(s, u) /\ OpOk(u)
      BY <1>6, <2>7 DEF LoopOk, ImageOk, OpOk, Growing
    <3> QED
      BY <3>1, <3>2, <3>3 DEF LocalOk
  <2>9. /\ PagesIn(s, u) = 1 + PagesOf(d) /\ PagesIn(r, t) = 1 + PagesOf(r.dir)
        /\ PagesOf(d) \in Nat /\ PagesOf(r.dir) \in Nat
    <3>1. PagesOf(t.new) = 0
      BY <1>6, Fields, DirPages
    <3>2. PagesIn(r, t) = 1 + PagesOf(r.dir) /\ PagesOf(r.dir) \in Nat
      BY <1>6, <3>1, PagesInNat
    <3>3. PagesIn(s, u) = 1 + PagesOf(d) /\ PagesOf(d) \in Nat
      BY <2>6, <2>7, <3>1, PagesInNat
    <3> QED
      BY <3>2, <3>3
  <2>10. nfree' \in Nat /\ nfree' + PagesIn(s, u) = nfree + PagesIn(r, t) /\ panic' = FALSE
    BY <1>2, <1>5, <2>1, <2>5, <2>9
  <2>11. t.pc # "embryo" /\ u.pc # "copyuvm"
    BY <1>5, <2>7
  <2>12. outstanding' = outstanding - (IF t.ip THEN 1 ELSE 0) + (IF u.ip THEN 1 ELSE 0)
    BY <1>2, <1>5, <1>6, <2>7
  <2> QED
    BY <1>1, <2>5, <2>6, <2>7, <2>8, <2>10, <2>11, <2>12, OneChanged
<1> QED
  BY <1>7, <1>8

\* u is t after a round of the loop of allocuvm() that leaves the directory e.
Rounded(u, t, e) ==
    /\ u.nsz = t.nsz /\ u.oldsz = t.oldsz /\ u.newsz = t.newsz
    /\ u.seg = t.seg /\ u.ip = t.ip /\ u.child = t.child
    /\ \/ u.pc = t.pc /\ u.a = t.a + PGSIZE /\ e.pages = Below(t.a + PGSIZE)
       \/ u.pc = (IF t.pc = "grow" THEN "user" ELSE "bad") /\ e.pages = Below(t.oldsz)

LEMMA NextRound ==
  ASSUME NEW t \in ThreadType, NEW e, e.pages = Below(t.a + PGSIZE)
  PROVE  LET u == [t EXCEPT !.a = @ + PGSIZE]
         IN  u \in ThreadType /\ u.new = t.new /\ Rounded(u, t, e)
<1>1. t.a + PGSIZE \in Nat
  BY Fields, Sizes DEF ThreadType
<1> QED
  BY <1>1 DEF ThreadType, Rounded

LEMMA LastRound ==
  ASSUME NEW t \in ThreadType, NEW e, e.pages = Below(t.oldsz)
  PROVE  LET u == [t EXCEPT !.pc = IF @ = "grow" THEN "user" ELSE "bad"]
         IN  u \in ThreadType /\ u.new = t.new /\ Rounded(u, t, e)
  BY DEF ThreadType, Rounded

\* A round leaves the process sound, whichever directory it works on.
LEMMA RoundSound ==
  ASSUME NEW r \in ProcType, NEW t \in ThreadType, NEW s \in ProcType, NEW w \in ThreadType,
         NEW e \in DirType, LocalOk(r, t), t.pc \in Growing, t.a < t.newsz,
         DirSound(e), e.live, e.nouser \subseteq (IF t.new.live THEN t.new ELSE r.dir).nouser,
         Rounded(w, t, e), s.sz = r.sz, s.kstack = r.kstack,
         \/ t.new.live /\ w.new = e /\ s.dir = r.dir
         \/ ~t.new.live /\ w.new = t.new /\ s.dir = e
  PROVE  LocalOk(s, w)
<1>1. /\ t.oldsz \in Nat /\ t.a \in Nat /\ t.newsz \in Nat
      /\ t.oldsz <= t.a /\ t.newsz < KERNBASE /\ t.a % PGSIZE = 0
  BY Fields DEF LocalOk, LoopOk
<1>2. /\ t.a + PGSIZE \in Nat /\ (t.a + PGSIZE) % PGSIZE = 0
      /\ t.oldsz <= t.a + PGSIZE /\ t.a + PGSIZE < t.newsz + PGSIZE
  <2>1. t.a + PGSIZE \in Nat /\ (t.a + PGSIZE) % PGSIZE = 0
    BY <1>1, NextPage
  <2>2. t.oldsz <= t.a + PGSIZE /\ t.a + PGSIZE < t.newsz + PGSIZE
    BY <1>1, Sizes
  <2> QED
    BY <2>1, <2>2
<1>3. /\ DirSound(r.dir) /\ DirSound(t.new) /\ r.kstack /\ r.dir.live
      /\ t.pc = "grow" <=> ~t.new.live
      /\ t.new.live => r.dir.pages = Below(r.sz) /\ t.new.nouser = {}
      /\ t.pc = "grow" => t.oldsz = r.sz
      /\ t.pc = "seg" => t.oldsz = t.nsz /\ t.seg.vaddr + t.seg.filesz <= t.newsz
      /\ t.pc = "stack" => t.oldsz = PGROUNDUP(t.nsz) /\ t.newsz = t.oldsz + 2 * PGSIZE
      /\ t.ip => t.pc = "seg"
      /\ t.pc = "seg" => t.ip
  BY DEF LocalOk, SlotOk, SizeOk, LoopOk, ImageOk, OpOk, Growing, Building
<1>4. t.pc \in {"grow", "seg", "stack"}
  BY DEF Growing
<1>5. CASE w.pc = t.pc /\ w.a = t.a + PGSIZE /\ e.pages = Below(t.a + PGSIZE)
  <2>1. SlotOk(s, w)
    BY <1>3, <1>4, <1>5 DEF SlotOk, Building
  <2>2. SizeOk(s, w)
    BY <1>3, <1>4, <1>5 DEF SizeOk, Building
  <2>3. (IF w.new.live THEN w.new ELSE s.dir).pages = Below(w.a)
    BY <1>5
  <2>4. LoopOk(s, w)
    BY <1>1, <1>2, <1>3, <1>5, <2>3 DEF LoopOk, Rounded
  <2>5. ImageOk(s, w) /\ OpOk(w)
    BY <1>3, <1>4, <1>5 DEF ImageOk, OpOk, Rounded
  <2> QED
    BY <2>1, <2>2, <2>4, <2>5 DEF LocalOk
<1>6. CASE w.pc = (IF t.pc = "grow" THEN "user" ELSE "bad") /\ e.pages = Below(t.oldsz)
  <2>1. SlotOk(s, w)
    BY <1>3, <1>4, <1>6 DEF SlotOk, Building
  <2>2. SizeOk(s, w)
    BY <1>3, <1>4, <1>6 DEF SizeOk
  <2>3. LoopOk(s, w) /\ ImageOk(s, w) /\ OpOk(w)
    BY <1>3, <1>4, <1>6 DEF LoopOk, ImageOk, OpOk, Growing, Rounded
  <2> QED
    BY <2>1, <2>2, <2>3 DEF LocalOk
<1> QED
  BY <1>5, <1>6 DEF Rounded

LEMMA Allocuvm ==
  ASSUME VmParts, NEW p \in Procs, allocuvm(p)
  PROVE  VmParts'
<1>1. PICK r \in ProcType, t \in ThreadType : r = proc[p] /\ t = th[p]
  BY Here
<1>2. /\ LocalOk(r, t) /\ nfree \in Nat /\ outstanding \in Nat /\ panic = FALSE
      /\ th \in [Procs -> ThreadType] /\ proc \in [Procs -> ProcType]
  BY <1>1, Here
<1>3. t.pc \in Growing /\ t.a < t.newsz /\ outstanding' = outstanding
  BY <1>1 DEF allocuvm
<1>4. PICK d \in DirType : d = IF t.new.live THEN t.new ELSE r.dir
  BY Fields
<1>5. /\ DirSound(r.dir) /\ DirSound(t.new) /\ r.kstack /\ r.dir.live
      /\ DirSound(d) /\ d.live /\ d.pages = Below(t.a)
      /\ t.oldsz <= t.a /\ t.newsz < KERNBASE /\ t.a % PGSIZE = 0
      /\ t.oldsz \in Nat /\ t.a \in Nat /\ t.newsz \in Nat /\ t.a < KERNBASE
  <2>1. t.oldsz \in Nat /\ t.a \in Nat /\ t.newsz \in Nat
    BY Fields
  <2>2. t.oldsz <= t.a /\ t.newsz < KERNBASE /\ t.a % PGSIZE = 0 /\ d.pages = Below(t.a)
    BY <1>2, <1>3, <1>4, <2>1 DEF LocalOk, LoopOk
  <2>3. DirSound(r.dir) /\ DirSound(t.new) /\ r.kstack /\ r.dir.live
    BY <1>2, <1>3 DEF LocalOk, SlotOk, Growing
  <2> QED
    BY <1>3, <1>4, <2>1, <2>2, <2>3, Sizes
<1>6. PICK n \in Nat : n = Needs(d, t.a)
  BY <1>5, MappedNext
<1>7. PICK e \in DirType :
         /\ e = Mapped(d, t.a) /\ DirSound(e) /\ e.live /\ e.pages = Below(t.a + PGSIZE)
         /\ e.nouser = d.nouser /\ PagesOf(e) = PagesOf(d) + n /\ Vpn(t.a) \notin d.pages
  BY <1>5, <1>6, MappedNext
<1>8. PICK f \in DirType :
         /\ f = deallocuvm(d, t.newsz, t.oldsz) /\ DirSound(f) /\ f.live
         /\ f.pages = Below(t.oldsz) /\ f.nouser \subseteq d.nouser /\ PagesOf(f) <= PagesOf(d)
  <2>1. t.a <= t.newsz
    BY <1>3, <1>5
  <2> QED
    BY <1>5, <2>1, Deallocated
<1>9. PagesOf(d) \in Nat /\ PagesOf(e) \in Nat /\ PagesOf(f) \in Nat
  BY DirPages
<1>10. d = Dir(p)
  BY <1>1, <1>4 DEF Dir
<1>11. /\ panic' = (nfree >= n /\ Vpn(t.a) \in d.pages)
       /\ nfree >= n => nfree' = nfree - n
       /\ ~(nfree >= n) => nfree' = nfree + (PagesOf(d) - PagesOf(f))
       /\ nfree >= n => SetDir(p, e, [t EXCEPT !.a = @ + PGSIZE])
       /\ ~(nfree >= n) => SetDir(p, f, [t EXCEPT !.pc = IF @ = "grow" THEN "user" ELSE "bad"])
  BY <1>1, <1>6, <1>7, <1>8, <1>10 DEF allocuvm
<1>12. PICK g \in DirType, u \in ThreadType :
          /\ DirSound(g) /\ g.live /\ g.nouser \subseteq d.nouser /\ u.new = t.new /\ Rounded(u, t, g)
          /\ SetDir(p, g, u) /\ nfree' \in Nat /\ nfree' + PagesOf(g) = nfree + PagesOf(d)
  <2>1. CASE nfree >= n
    <3> DEFINE u == [t EXCEPT !.a = @ + PGSIZE]
    <3>1. u \in ThreadType /\ u.new = t.new /\ Rounded(u, t, e)
      BY <1>7, NextRound
    <3>2. SetDir(p, e, u) /\ nfree' = nfree - n
      BY <1>11, <2>1
    <3> HIDE DEF u
    <3>3. nfree' \in Nat /\ nfree' + PagesOf(e) = nfree + PagesOf(d)
      BY <1>2, <1>7, <1>9, <2>1, <3>2
    <3> QED
      BY <1>7, <3>1, <3>2, <3>3
  <2>2. CASE ~(nfree >= n)
    <3> DEFINE u == [t EXCEPT !.pc = IF @ = "grow" THEN "user" ELSE "bad"]
    <3>1. u \in ThreadType /\ u.new = t.new /\ Rounded(u, t, f)
      BY <1>8, LastRound
    <3>2. SetDir(p, f, u) /\ nfree' = nfree + (PagesOf(d) - PagesOf(f))
      BY <1>11, <2>2
    <3> HIDE DEF u
    <3>3. nfree' \in Nat /\ nfree' + PagesOf(f) = nfree + PagesOf(d)
      BY <1>2, <1>8, <1>9, <3>2
    <3> QED
      BY <1>8, <3>1, <3>2, <3>3
  <2> QED
    BY <2>1, <2>2
<1>13. panic' = FALSE
  BY <1>7, <1>11
<1>14. PICK s \in ProcType, w \in ThreadType :
          /\ proc' = [proc EXCEPT ![p] = s] /\ th' = [th EXCEPT ![p] = w]
          /\ s.sz = r.sz /\ s.kstack = r.kstack /\ Rounded(w, t, g)
          /\ \/ t.new.live /\ w.new = g /\ s.dir = r.dir
             \/ ~t.new.live /\ w.new = t.new /\ s.dir = g
  <2>1. CASE t.new.live
    <3> DEFINE w == [u EXCEPT !.new = g]
    <3>1. w \in ThreadType /\ w.new = g /\ Rounded(w, t, g)
      BY <1>12 DEF ThreadType, Rounded
    <3>2. th' = [th EXCEPT ![p] = w] /\ proc' = proc
      BY <1>1, <1>12, <2>1 DEF SetDir
    <3>3. proc' = [proc EXCEPT ![p] = r]
      BY <1>1, <1>2, <3>2
    <3> HIDE DEF w
    <3> QED
      BY <2>1, <3>1, <3>2, <3>3
  <2>2. CASE ~t.new.live
    <3> DEFINE s == [r EXCEPT !.dir = g]
    <3>1. s \in ProcType /\ s.dir = g /\ s.sz = r.sz /\ s.kstack = r.kstack
      BY Remapped
    <3>2. th' = [th EXCEPT ![p] = u] /\ proc' = [proc EXCEPT ![p].dir = g]
      BY <1>1, <1>12, <2>2 DEF SetDir
    <3>3. proc' = [proc EXCEPT ![p] = s]
      BY <1>1, <1>2, <3>2
    <3> HIDE DEF s
    <3> QED
      BY <1>12, <2>2, <3>1, <3>2, <3>3
  <2> QED
    BY <2>1, <2>2
<1>15. LocalOk(s, w)
  <2>1. g.nouser \subseteq (IF t.new.live THEN t.new ELSE r.dir).nouser
    BY <1>4, <1>12
  <2> QED
    BY <1>2, <1>3, <1>12, <1>14, <2>1, RoundSound
<1>16. PagesIn(s, w) + PagesOf(d) = PagesIn(r, t) + PagesOf(g)
  <2>1. /\ PagesIn(r, t) = 1 + PagesOf(r.dir) + PagesOf(t.new)
        /\ PagesIn(s, w) = 1 + PagesOf(s.dir) + PagesOf(w.new)
        /\ PagesOf(r.dir) \in Nat /\ PagesOf(t.new) \in Nat
        /\ PagesOf(s.dir) \in Nat /\ PagesOf(w.new) \in Nat
    BY <1>5, <1>14, PagesInNat
  <2> QED
    BY <1>4, <1>14, <2>1
<1>17. nfree' + PagesIn(s, w) = nfree + PagesIn(r, t)
  <2>1. PagesIn(s, w) \in Nat /\ PagesIn(r, t) \in Nat /\ PagesOf(g) \in Nat
    BY PagesInNat, DirPages
  <2> QED
    BY <1>2, <1>9, <1>12, <1>16, <2>1
<1>18. t.pc # "embryo" /\ w.pc # "copyuvm" /\ w.ip = t.ip
  BY <1>3, <1>14 DEF Rounded, Growing
<1>19. outstanding' = outstanding - (IF t.ip THEN 1 ELSE 0) + (IF w.ip THEN 1 ELSE 0)
  BY <1>2, <1>3, <1>18
<1> QED
  BY <1>1, <1>12, <1>13, <1>14, <1>15, <1>17, <1>18, <1>19, OneChanged
-----------------------------------------------------------------------------
(* exec() *)

LEMMA ExecStart ==
  ASSUME VmParts, NEW p \in Procs, exec(p)
  PROVE  VmParts'
<1>1. PICK r \in ProcType, t \in ThreadType : r = proc[p] /\ t = th[p]
  BY Here
<1>2. /\ LocalOk(r, t) /\ nfree \in Nat /\ outstanding \in Nat /\ panic = FALSE
      /\ proc = [proc EXCEPT ![p] = r]
  BY <1>1, Here
<1>3. PICK u : u = [Thread("elf") EXCEPT !.ip = TRUE]
  OBVIOUS
<1>4. /\ t.pc = "user" /\ th' = [th EXCEPT ![p] = u] /\ outstanding' = outstanding + 1
      /\ UNCHANGED <<nfree, proc, panic>>
  BY <1>1, <1>3 DEF exec
<1>5. u \in ThreadType /\ u.pc = "elf" /\ u.new = NoDir /\ u.ip /\ u.nsz = 0
  <2>1. /\ Thread("elf") \in ThreadType /\ Thread("elf").pc = "elf" /\ Thread("elf").new = NoDir
        /\ Thread("elf").nsz = 0
    BY Threads
  <2> QED
    BY <1>3, <2>1 DEF ThreadType
<1>6. /\ DirSound(r.dir) /\ r.kstack /\ r.dir.live /\ ~t.new.live
      /\ r.dir.pages = Below(r.sz) /\ ~t.ip
  BY <1>2, <1>4 DEF LocalOk, SlotOk, SizeOk, OpOk, Building
<1>7. LocalOk(r, u)
  BY <1>5, <1>6, NewDirs
     DEF LocalOk, SlotOk, SizeOk, LoopOk, ImageOk, OpOk, Building, Growing
<1>8. PagesIn(r, u) = PagesIn(r, t)
  <2>1. PagesOf(t.new) = 0 /\ PagesOf(u.new) = 0
    BY <1>5, <1>6, Fields, DirPages, NewDirs
  <2> QED
    BY <2>1 DEF PagesIn
<1>9. nfree' \in Nat /\ panic' = FALSE /\ nfree' + PagesIn(r, u) = nfree + PagesIn(r, t)
  BY <1>2, <1>4, <1>8
<1>10. outstanding' = outstanding - (IF t.ip THEN 1 ELSE 0) + (IF u.ip THEN 1 ELSE 0)
  BY <1>2, <1>4, <1>5, <1>6
<1>11. t.pc # "embryo" /\ u.pc # "copyuvm" /\ proc' = [proc EXCEPT ![p] = r]
  BY <1>2, <1>4, <1>5
<1> QED
  BY <1>1, <1>4, <1>5, <1>7, <1>9, <1>10, <1>11, OneChanged

LEMMA ExecElf ==
  ASSUME VmParts, NEW p \in Procs, NEW good \in BOOLEAN, exec_elf(p, good)
  PROVE  VmParts'
<1>1. PICK r \in ProcType, t \in ThreadType : r = proc[p] /\ t = th[p]
  BY Here
<1>2. /\ LocalOk(r, t) /\ nfree \in Nat /\ outstanding \in Nat /\ panic = FALSE
      /\ proc = [proc EXCEPT ![p] = r] /\ th \in [Procs -> ThreadType]
  BY <1>1, Here
<1> DEFINE ok == good /\ nfree >= 2
<1>3. t.pc = "elf" /\ UNCHANGED <<proc, outstanding, panic>>
  BY <1>1 DEF exec_elf
<1>4. /\ DirSound(r.dir) /\ r.kstack /\ r.dir.live /\ ~t.new.live
      /\ r.dir.pages = Below(r.sz) /\ t.ip /\ t.nsz = 0
  BY <1>2, <1>3 DEF LocalOk, SlotOk, SizeOk, ImageOk, OpOk, Building
<1>5. PICK u \in ThreadType :
        /\ th' = [th EXCEPT ![p] = u] /\ u.ip = t.ip /\ u.nsz = 0
        /\ \/ u.pc = "segments" /\ u.new = KernelDir /\ nfree >= 2 /\ nfree' = nfree - 2
           \/ u.pc = "bad" /\ u.new = NoDir /\ nfree' = nfree
  <2>1. CASE ok
    <3> DEFINE u == [t EXCEPT !.pc = "segments", !.new = KernelDir]
    <3>1. u \in ThreadType /\ u.ip = t.ip /\ u.nsz = t.nsz /\ u.pc = "segments" /\ u.new = KernelDir
      BY NewDirs DEF ThreadType, Building
    <3>2. th' = [th EXCEPT ![p].pc = "segments", ![p].new = KernelDir] /\ nfree' = nfree - 2
      BY <2>1 DEF exec_elf
    <3>3. th' = [th EXCEPT ![p] = u]
      BY <1>1, <1>2, <3>2
    <3> HIDE DEF u
    <3> QED
      BY <1>4, <2>1, <3>1, <3>2, <3>3
  <2>2. CASE ~ok
    <3> DEFINE u == [t EXCEPT !.pc = "bad", !.new = NoDir]
    <3>1. u \in ThreadType /\ u.ip = t.ip /\ u.nsz = t.nsz /\ u.pc = "bad" /\ u.new = NoDir
      BY NewDirs DEF ThreadType
    <3>2. th' = [th EXCEPT ![p].pc = "bad", ![p].new = NoDir] /\ nfree' = nfree - 0
      BY <2>2 DEF exec_elf
    <3>3. th' = [th EXCEPT ![p] = u]
      BY <1>1, <1>2, <3>2
    <3>4. nfree' = nfree
      BY <1>2, <3>2
    <3> HIDE DEF u
    <3> QED
      BY <1>4, <3>1, <3>3, <3>4
  <2> QED
    BY <2>1, <2>2
<1>6. LocalOk(r, u)
  <2>1. DirSound(u.new) /\ (u.new.live <=> u.pc = "segments") /\ u.pc \in {"segments", "bad"}
    BY <1>5, NewDirs
  <2>2. u.pc = "segments" => u.new.pages = Below(u.nsz) /\ u.new.nouser = {} /\ u.nsz < KERNBASE
    BY <1>5, NewDirs, Sizes
  <2> QED
    BY <1>4, <1>5, <2>1, <2>2
       DEF LocalOk, SlotOk, SizeOk, LoopOk, ImageOk, OpOk, Building, Growing
<1>7. nfree' \in Nat /\ nfree' + PagesIn(r, u) = nfree + PagesIn(r, t)
  <2>1. PagesOf(t.new) = 0
    BY <1>4, Fields, DirPages
  <2>2. /\ PagesIn(r, t) = 1 + PagesOf(r.dir) + PagesOf(t.new)
        /\ PagesIn(r, u) = 1 + PagesOf(r.dir) + PagesOf(u.new)
        /\ PagesOf(r.dir) \in Nat
    BY <1>4, PagesInNat
  <2>3. nfree' \in Nat /\ nfree' + PagesOf(u.new) = nfree /\ PagesOf(u.new) \in Nat
    BY <1>2, <1>5, NewDirs
  <2> QED
    BY <1>2, <2>1, <2>2, <2>3
<1>8. outstanding' = outstanding - (IF t.ip THEN 1 ELSE 0) + (IF u.ip THEN 1 ELSE 0)
  BY <1>2, <1>3, <1>5
<1>9. /\ t.pc # "embryo" /\ u.pc # "copyuvm" /\ proc' = [proc EXCEPT ![p] = r]
      /\ panic' = FALSE
  BY <1>2, <1>3, <1>5
<1> QED
  BY <1>1, <1>5, <1>6, <1>7, <1>8, <1>9, OneChanged

LEMMA ExecSeg ==
  ASSUME VmParts, NEW p \in Procs, NEW h \in Segments, exec_seg(p, h)
  PROVE  VmParts'
<1>1. PICK r \in ProcType, t \in ThreadType : r = proc[p] /\ t = th[p]
  BY Here
<1>2. /\ LocalOk(r, t) /\ nfree \in Nat /\ outstanding \in Nat /\ panic = FALSE
      /\ proc = [proc EXCEPT ![p] = r] /\ th \in [Procs -> ThreadType]
  BY <1>1, Here
<1>3. t.pc = "segments" /\ t.nseg < MAXSEG /\ UNCHANGED <<nfree, proc, outstanding, panic>>
  BY <1>1 DEF exec_seg
<1>4. /\ DirSound(r.dir) /\ DirSound(t.new) /\ r.kstack /\ r.dir.live /\ t.new.live
      /\ r.dir.pages = Below(r.sz) /\ t.ip /\ t.new.pages = Below(t.nsz) /\ t.nsz < KERNBASE
      /\ t.new.nouser = {}
  BY <1>2, <1>3 DEF LocalOk, SlotOk, SizeOk, ImageOk, OpOk, Building
<1>5. t.nsz \in Nat /\ t.new \in DirType
  BY Fields
<1>6. /\ h.vaddr \in Nat /\ h.memsz \in Nat /\ h.filesz \in Nat
      /\ h.vaddr < UINT /\ h.memsz < UINT /\ h \in [vaddr : Nat, memsz : Nat, filesz : Nat]
  <2>1. h \in [vaddr : 0..UINT - 1, memsz : 0..UINT - 1, filesz : 0..UINT - 1]
    BY VmAssumption
  <2> QED
    BY <2>1, Sizes
<1>7. PICK end \in Nat : /\ end = (h.vaddr + h.memsz) % UINT
                         /\ end >= h.vaddr => end = h.vaddr + h.memsz
  BY <1>6, Sizes
<1> DEFINE ok == h.memsz >= h.filesz /\ end >= h.vaddr
<1>8. PICK u \in ThreadType :
        /\ th' = [th EXCEPT ![p] = u] /\ u.ip = t.ip /\ u.new = t.new
        /\ \/ /\ u.pc = "seg" /\ u.oldsz = u.nsz /\ Looping(u, t.new, end)
              /\ h.vaddr + h.filesz <= end /\ u.seg = h
           \/ u.pc = "bad"
  <2>1. CASE ok
    <3> DEFINE v == [t EXCEPT !.seg = h, !.nseg = t.nseg + 1]
               u == Grow(v, t.nsz, end, "seg", "bad")
    <3>1. v \in ThreadType /\ v.ip = t.ip /\ v.new = t.new /\ v.nsz = t.nsz /\ v.seg = h
      <4>1. t.nseg + 1 \in 0..MAXSEG
        BY <1>3, Fields, Sizes
      <4> QED
        BY <1>6, <4>1 DEF ThreadType
    <3>2. th' = [th EXCEPT ![p] = u]
      BY <1>1, <1>7, <2>1 DEF exec_seg
    <3> HIDE DEF v
    <3>3. Started(u, v, t.nsz, end, "seg", "bad")
      <4>1. "seg" \in Growing
        BY DEF Growing
      <4> QED
        BY <1>5, <3>1, <4>1, GrowFields
    <3> HIDE DEF u
    <3>4. end < KERNBASE => Looping(u, t.new, end)
      BY <1>4, <1>5, <3>1, <3>3, GrowLoop
    <3>5. h.vaddr + h.filesz <= end
      BY <1>6, <1>7, <2>1
    <3>6. CASE end < KERNBASE
      BY <3>1, <3>2, <3>3, <3>4, <3>5, <3>6 DEF Started
    <3>7. CASE ~(end < KERNBASE)
      <4>1. end >= KERNBASE
        BY <3>7, Sizes
      <4> QED
        BY <3>1, <3>2, <3>3, <4>1 DEF Started
    <3> QED
      BY <3>6, <3>7
  <2>2. CASE ~ok
    <3> DEFINE u == [t EXCEPT !.pc = "bad"]
    <3>1. u \in ThreadType /\ u.ip = t.ip /\ u.new = t.new /\ u.pc = "bad"
      BY DEF ThreadType
    <3>2. th' = [th EXCEPT ![p] = u]
      BY <1>1, <1>7, <2>2 DEF exec_seg
    <3> HIDE DEF u
    <3> QED
      BY <3>1, <3>2
  <2> QED
    BY <2>1, <2>2
<1>9. LocalOk(r, u)
  <2>1. CASE u.pc = "bad"
    BY <1>4, <1>8, <2>1
       DEF LocalOk, SlotOk, SizeOk, LoopOk, ImageOk, OpOk, Building, Growing
  <2>2. CASE /\ u.pc = "seg" /\ u.oldsz = u.nsz /\ Looping(u, t.new, end)
             /\ h.vaddr + h.filesz <= end /\ u.seg = h
    <3>1. SlotOk(r, u) /\ SizeOk(r, u) /\ ImageOk(r, u) /\ OpOk(u)
      BY <1>4, <1>8, <2>2 DEF SlotOk, SizeOk, ImageOk, OpOk, Building
    <3>2. u.seg.vaddr + u.seg.filesz <= u.newsz
      <4>1. u.newsz \in Nat /\ end <= u.newsz
        BY <2>2, Fields DEF Looping
      <4> QED
        BY <1>6, <2>2, <4>1
    <3>3. LoopOk(r, u)
      BY <1>4, <1>8, <2>2, <3>2 DEF LoopOk, Looping
    <3> QED
      BY <3>1, <3>3 DEF LocalOk
  <2> QED
    BY <1>8, <2>1, <2>2
<1>10. nfree' \in Nat /\ panic' = FALSE /\ nfree' + PagesIn(r, u) = nfree + PagesIn(r, t)
  BY <1>2, <1>3, <1>8 DEF PagesIn
<1>11. outstanding' = outstanding - (IF t.ip THEN 1 ELSE 0) + (IF u.ip THEN 1 ELSE 0)
  BY <1>2, <1>3, <1>8
<1>12. t.pc # "embryo" /\ u.pc # "copyuvm" /\ proc' = [proc EXCEPT ![p] = r]
  BY <1>2, <1>3, <1>8
<1> QED
  BY <1>1, <1>8, <1>9, <1>10, <1>11, <1>12, OneChanged
LEMMA ExecLoad ==
  ASSUME VmParts, NEW p \in Procs, NEW good \in BOOLEAN, exec_load(p, good)
  PROVE  VmParts'
<1>1. PICK r \in ProcType, t \in ThreadType : r = proc[p] /\ t = th[p]
  BY Here
<1>2. /\ LocalOk(r, t) /\ nfree \in Nat /\ outstanding \in Nat /\ panic = FALSE
      /\ proc = [proc EXCEPT ![p] = r] /\ th \in [Procs -> ThreadType]
  BY <1>1, Here
<1>3. t.pc = "seg" /\ t.a >= t.newsz /\ UNCHANGED <<nfree, proc, outstanding>>
  BY <1>1 DEF exec_load, Grown
<1>4. /\ DirSound(r.dir) /\ DirSound(t.new) /\ r.kstack /\ r.dir.live /\ t.new.live
      /\ r.dir.pages = Below(r.sz) /\ t.ip /\ t.new.nouser = {}
      /\ t.a < t.newsz + PGSIZE /\ t.newsz < KERNBASE /\ t.new.pages = Below(t.a)
      /\ t.a % PGSIZE = 0 \/ t.a = t.newsz
      /\ t.seg.vaddr + t.seg.filesz <= t.newsz
  BY <1>2, <1>3 DEF LocalOk, SlotOk, SizeOk, LoopOk, ImageOk, OpOk, Building, Growing
<1>5. t.newsz \in Nat /\ t.a \in Nat /\ t.seg.vaddr \in Nat /\ t.seg.filesz \in Nat
  BY Fields
<1>6. t.new.pages = Below(t.newsz)
  BY <1>3, <1>4, <1>5, BelowAligned
<1> DEFINE ok == good /\ t.newsz # 0 /\ t.seg.vaddr % PGSIZE = 0
           to == {v \in Vpns : t.seg.vaddr <= v * PGSIZE /\ v * PGSIZE < t.seg.vaddr + t.seg.filesz}
<1>7. to \subseteq t.new.pages
  <2>1. \A v \in Vpns : v * PGSIZE \in Int
    BY PageOrder DEF Vpns
  <2> QED
    BY <1>4, <1>5, <1>6, <2>1 DEF Below
<1>8. panic' = (ok /\ ~(to \subseteq t.new.pages))
  BY <1>1 DEF exec_load
<1> HIDE DEF to
<1>9. PICK u \in ThreadType :
        /\ th' = [th EXCEPT ![p] = u] /\ u.ip = t.ip /\ u.new = t.new
        /\ \/ u.pc = "segments" /\ u.nsz = t.newsz
           \/ u.pc = "bad"
  <2>1. CASE ok
    <3> DEFINE u == [t EXCEPT !.pc = "segments", !.nsz = t.newsz]
    <3>1. /\ u \in ThreadType /\ u.ip = t.ip /\ u.new = t.new
          /\ u.pc = "segments" /\ u.nsz = t.newsz
      BY <1>5 DEF ThreadType, Building
    <3>2. th' = [th EXCEPT ![p] = u]
      BY <1>1, <2>1 DEF exec_load
    <3> HIDE DEF u
    <3> QED
      BY <3>1, <3>2
  <2>2. CASE ~ok
    <3> DEFINE u == [t EXCEPT !.pc = "bad"]
    <3>1. u \in ThreadType /\ u.ip = t.ip /\ u.new = t.new /\ u.pc = "bad"
      BY DEF ThreadType
    <3>2. th' = [th EXCEPT ![p] = u]
      BY <1>1, <2>2 DEF exec_load
    <3> HIDE DEF u
    <3> QED
      BY <3>1, <3>2
  <2> QED
    BY <2>1, <2>2
<1>10. LocalOk(r, u)
  <2>1. u.pc = "segments" => u.new.pages = Below(u.nsz) /\ u.nsz < KERNBASE
    BY <1>4, <1>6, <1>9
  <2> QED
    BY <1>4, <1>9, <2>1
       DEF LocalOk, SlotOk, SizeOk, LoopOk, ImageOk, OpOk, Building, Growing
<1>11. nfree' \in Nat /\ panic' = FALSE /\ nfree' + PagesIn(r, u) = nfree + PagesIn(r, t)
  BY <1>2, <1>3, <1>7, <1>8, <1>9 DEF PagesIn
<1>12. outstanding' = outstanding - (IF t.ip THEN 1 ELSE 0) + (IF u.ip THEN 1 ELSE 0)
  BY <1>2, <1>3, <1>9
<1>13. t.pc # "embryo" /\ u.pc # "copyuvm" /\ proc' = [proc EXCEPT ![p] = r]
  BY <1>2, <1>3, <1>9
<1> QED
  BY <1>1, <1>9, <1>10, <1>11, <1>12, <1>13, OneChanged

LEMMA ExecStackStep ==
  ASSUME VmParts, NEW p \in Procs, exec_stack(p)
  PROVE  VmParts'
<1>1. PICK r \in ProcType, t \in ThreadType : r = proc[p] /\ t = th[p]
  BY Here
<1>2. /\ LocalOk(r, t) /\ nfree \in Nat /\ outstanding \in Nat /\ panic = FALSE
      /\ proc = [proc EXCEPT ![p] = r] /\ th \in [Procs -> ThreadType]
  BY <1>1, Here
<1>3. t.pc = "segments" /\ outstanding' = outstanding - 1 /\ UNCHANGED <<nfree, proc, panic>>
  BY <1>1 DEF exec_stack
<1>4. /\ DirSound(r.dir) /\ DirSound(t.new) /\ r.kstack /\ r.dir.live /\ t.new.live
      /\ r.dir.pages = Below(r.sz) /\ t.ip /\ t.new.pages = Below(t.nsz) /\ t.nsz < KERNBASE
      /\ t.new.nouser = {}
  BY <1>2, <1>3 DEF LocalOk, SlotOk, SizeOk, ImageOk, OpOk, Building
<1>5. t.nsz \in Nat /\ t.new \in DirType
  BY Fields
<1>6. PICK sz \in Nat : sz = PGROUNDUP(t.nsz) /\ sz % PGSIZE = 0 /\ t.nsz <= sz /\ sz < t.nsz + PGSIZE
  BY <1>5, RoundUp
<1>7. t.new.pages = Below(sz)
  BY <1>4, <1>5, <1>6, BelowAligned
<1>8. PICK new \in Nat : new = (sz + 2 * PGSIZE) % UINT /\ new = sz + 2 * PGSIZE
  <2>1. sz + 2 * PGSIZE \in Nat /\ sz + 2 * PGSIZE < UINT
    BY <1>4, <1>5, <1>6, Sizes
  <2> QED
    BY <2>1, Sizes
<1>9. PICK u \in ThreadType :
        /\ th' = [th EXCEPT ![p] = u] /\ ~u.ip /\ u.new = t.new
        /\ \/ /\ u.pc = "stack" /\ u.oldsz = PGROUNDUP(u.nsz) /\ u.newsz = u.oldsz + 2 * PGSIZE
              /\ Looping(u, t.new, new)
           \/ u.pc = "bad"
  <2> DEFINE v == [t EXCEPT !.ip = FALSE]
             u == Grow(v, sz, new, "stack", "bad")
  <2>1. v \in ThreadType /\ ~v.ip /\ v.new = t.new /\ v.nsz = t.nsz
    BY DEF ThreadType
  <2>2. th' = [th EXCEPT ![p] = u]
    BY <1>1, <1>6, <1>8 DEF exec_stack
  <2> HIDE DEF v
  <2>3. Started(u, v, sz, new, "stack", "bad")
    <3>1. "stack" \in Growing
      BY DEF Growing
    <3> QED
      BY <2>1, <3>1, GrowFields
  <2> HIDE DEF u
  <2>4. CASE new < KERNBASE
    <3>1. sz < KERNBASE /\ ~(new < sz)
      BY <1>8, <2>4, Sizes
    <3>2. Looping(u, t.new, new)
      BY <1>5, <1>7, <2>1, <2>3, <2>4, <3>1, GrowLoop
    <3>3. /\ u \in ThreadType /\ u.new = t.new /\ u.nsz = t.nsz /\ ~u.ip /\ u.pc = "stack"
          /\ u.oldsz = sz /\ u.newsz = new
      BY <2>1, <2>3, <2>4, <3>1 DEF Started
    <3> QED
      BY <1>6, <1>8, <2>2, <3>2, <3>3
  <2>5. CASE ~(new < KERNBASE)
    <3>1. new >= KERNBASE
      BY <2>5, Sizes
    <3> QED
      BY <2>1, <2>2, <2>3, <3>1 DEF Started
  <2> QED
    BY <2>4, <2>5
<1>10. LocalOk(r, u)
  <2>1. SlotOk(r, u) /\ SizeOk(r, u) /\ ImageOk(r, u) /\ OpOk(u)
    BY <1>4, <1>9 DEF SlotOk, SizeOk, ImageOk, OpOk, Building
  <2>2. LoopOk(r, u)
    BY <1>4, <1>9 DEF LoopOk, Looping, Growing
  <2> QED
    BY <2>1, <2>2 DEF LocalOk
<1>11. nfree' \in Nat /\ panic' = FALSE /\ nfree' + PagesIn(r, u) = nfree + PagesIn(r, t)
  BY <1>2, <1>3, <1>9 DEF PagesIn
<1>12. outstanding' = outstanding - (IF t.ip THEN 1 ELSE 0) + (IF u.ip THEN 1 ELSE 0)
  BY <1>2, <1>3, <1>4, <1>9
<1>13. t.pc # "embryo" /\ u.pc # "copyuvm" /\ proc' = [proc EXCEPT ![p] = r]
  BY <1>2, <1>3, <1>9
<1> QED
  BY <1>1, <1>9, <1>10, <1>11, <1>12, <1>13, OneChanged
LEMMA ExecGuard ==
  ASSUME VmParts, NEW p \in Procs, exec_guard(p)
  PROVE  VmParts'
<1>1. PICK r \in ProcType, t \in ThreadType : r = proc[p] /\ t = th[p]
  BY Here
<1>2. /\ LocalOk(r, t) /\ nfree \in Nat /\ outstanding \in Nat /\ panic = FALSE
      /\ proc = [proc EXCEPT ![p] = r] /\ th \in [Procs -> ThreadType]
  BY <1>1, Here
<1>3. t.pc = "stack" /\ t.a >= t.newsz /\ UNCHANGED <<nfree, proc, outstanding, panic>>
  BY <1>1 DEF exec_guard, Grown
<1>4. /\ DirSound(r.dir) /\ DirSound(t.new) /\ r.kstack /\ r.dir.live /\ t.new.live
      /\ r.dir.pages = Below(r.sz) /\ ~t.ip
      /\ t.a < t.newsz + PGSIZE /\ t.newsz < KERNBASE /\ t.new.pages = Below(t.a)
      /\ t.a % PGSIZE = 0 \/ t.a = t.newsz
      /\ t.oldsz = PGROUNDUP(t.nsz) /\ t.newsz = t.oldsz + 2 * PGSIZE
  BY <1>2, <1>3 DEF LocalOk, SlotOk, SizeOk, LoopOk, ImageOk, OpOk, Building, Growing
<1>5. t.newsz \in Nat /\ t.a \in Nat /\ t.oldsz \in Nat /\ t.nsz \in Nat /\ t.new \in DirType
  BY Fields
<1>6. t.new.pages = Below(t.newsz)
  BY <1>3, <1>4, <1>5, BelowAligned
<1>7. t.oldsz % PGSIZE = 0
  BY <1>4, <1>5, RoundUp
<1>8. t.newsz % PGSIZE = 0 /\ Vpn(t.newsz) = Vpn(t.oldsz) + 2 /\ Vpn(t.oldsz) \in Nat
  <2>1. /\ t.oldsz + PGSIZE \in Nat /\ (t.oldsz + PGSIZE) % PGSIZE = 0
        /\ Vpn(t.oldsz + PGSIZE) = Vpn(t.oldsz) + 1
    BY <1>5, <1>7, NextPage
  <2>2. /\ (t.oldsz + PGSIZE + PGSIZE) % PGSIZE = 0
        /\ Vpn(t.oldsz + PGSIZE + PGSIZE) = Vpn(t.oldsz + PGSIZE) + 1
    BY <2>1, NextPage
  <2>3. t.oldsz + PGSIZE + PGSIZE = t.newsz
    BY <1>4, <1>5, Sizes
  <2>4. Vpn(t.oldsz) \in Nat
    BY <1>5, PageOf
  <2> QED
    BY <2>1, <2>2, <2>3, <2>4
<1>9. PICK g : g = Vpn(t.oldsz) /\ g \in Vpns /\ g \in Below(t.newsz)
  <2>1. /\ Vpn(t.oldsz) * PGSIZE = t.oldsz /\ t.oldsz < t.newsz /\ t.oldsz < KERNBASE
    <3>1. Vpn(t.oldsz) * PGSIZE = t.oldsz
      BY <1>5, <1>7, PageOf
    <3>2. t.oldsz < t.newsz /\ t.oldsz < KERNBASE
      BY <1>4, <1>5, Sizes
    <3> QED
      BY <3>1, <3>2
  <2>2. Vpn(t.oldsz) \in Vpns
    BY <1>5, <2>1, PageOf
  <2> QED
    BY <2>1, <2>2 DEF Below
<1>10. Vpn(t.newsz) - 2 = g
  BY <1>8, <1>9
<1>11. PICK d \in DirType :
         /\ d = [t.new EXCEPT !.nouser = {g}] /\ DirSound(d) /\ d.live
         /\ d.pages = t.new.pages /\ d.nouser = {g} /\ d.tabs = t.new.tabs
  <2> DEFINE d == [t.new EXCEPT !.nouser = {g}]
  <2>1. /\ d \in DirType /\ d.live = t.new.live /\ d.pages = t.new.pages /\ d.nouser = {g}
        /\ d.tabs = t.new.tabs
    BY <1>5, <1>9 DEF DirType
  <2> HIDE DEF d
  <2>2. DirSound(d)
    BY <1>4, <1>6, <1>9, <2>1 DEF DirSound
  <2> QED
    BY <1>4, <2>1, <2>2 DEF d
<1>12. PICK u \in ThreadType :
         /\ th' = [th EXCEPT ![p] = u]
         /\ u.pc = "args" /\ u.nsz = t.newsz /\ u.new = d /\ u.ip = t.ip
  <2> DEFINE u == [t EXCEPT !.pc = "args", !.nsz = t.newsz, !.new = d]
  <2>1. u \in ThreadType /\ u.pc = "args" /\ u.nsz = t.newsz /\ u.new = d /\ u.ip = t.ip
    BY <1>5 DEF ThreadType, Building
  <2>2. t.newsz - 2 * PGSIZE = t.oldsz
    BY <1>4, <1>5, Sizes
  <2>3. th' = [th EXCEPT ![p] = [t EXCEPT !.pc = "args", !.nsz = t.newsz,
                                          !.new.nouser = {Vpn(t.newsz - 2 * PGSIZE)}]]
    BY <1>1 DEF exec_guard
  <2>4. [t EXCEPT !.pc = "args", !.nsz = t.newsz, !.new.nouser = {g}] = u
    BY <1>11 DEF ThreadType
  <2>5. th' = [th EXCEPT ![p] = u]
    BY <1>9, <2>2, <2>3, <2>4
  <2> HIDE DEF u
  <2> QED
    BY <2>1, <2>5
<1>13. LocalOk(r, u)
  <2>1. /\ u.new.pages = Below(u.nsz) /\ u.nsz < KERNBASE /\ u.nsz % PGSIZE = 0
        /\ u.new.nouser = {Vpn(u.nsz) - 2}
    BY <1>4, <1>6, <1>8, <1>10, <1>11, <1>12
  <2>2. u.nsz >= 2 * PGSIZE
    BY <1>4, <1>5, <1>12, Sizes
  <2>3. ImageOk(r, u)
    BY <1>12, <2>1, <2>2 DEF ImageOk
  <2> QED
    BY <1>4, <1>11, <1>12, <2>3
       DEF LocalOk, SlotOk, SizeOk, LoopOk, OpOk, Building, Growing
<1>14. PagesIn(r, u) = PagesIn(r, t)
  BY <1>11, <1>12, <1>4 DEF PagesIn, PagesOf
<1>15. nfree' \in Nat /\ panic' = FALSE /\ nfree' + PagesIn(r, u) = nfree + PagesIn(r, t)
  BY <1>2, <1>3, <1>14
<1>16. outstanding' = outstanding - (IF t.ip THEN 1 ELSE 0) + (IF u.ip THEN 1 ELSE 0)
  BY <1>2, <1>3, <1>4, <1>12
<1>17. t.pc # "embryo" /\ u.pc # "copyuvm" /\ proc' = [proc EXCEPT ![p] = r]
  BY <1>2, <1>3, <1>12
<1> QED
  BY <1>1, <1>12, <1>13, <1>15, <1>16, <1>17, OneChanged

\* exec() commits to the image: s is r with it.
LEMMA Committed ==
  ASSUME NEW r \in ProcType, NEW d \in DirType, NEW z \in Nat, z < KERNBASE, NEW sp \in Nat
  PROVE  ReplacedBy([r EXCEPT !.dir = d, !.sz = z, !.sp = sp], r, d, z)
<1>1. z \in 0..KERNBASE - 1
  BY Sizes
<1> QED
  BY <1>1 DEF ProcType, ReplacedBy

LEMMA ExecCommit ==
  ASSUME VmParts, NEW p \in Procs, NEW n \in ArgSizes, exec_commit(p, n)
  PROVE  VmParts'
<1>1. PICK r \in ProcType, t \in ThreadType : r = proc[p] /\ t = th[p]
  BY Here
<1>2. /\ LocalOk(r, t) /\ nfree \in Nat /\ outstanding \in Nat /\ panic = FALSE
      /\ proc = [proc EXCEPT ![p] = r]
      /\ th \in [Procs -> ThreadType] /\ proc \in [Procs -> ProcType]
  BY <1>1, Here
<1>3. t.pc = "args" /\ UNCHANGED <<outstanding, panic>>
  BY <1>1 DEF exec_commit
<1>4. /\ DirSound(r.dir) /\ DirSound(t.new) /\ r.kstack /\ r.dir.live /\ t.new.live
      /\ r.dir.pages = Below(r.sz) /\ ~t.ip /\ t.nsz < KERNBASE /\ t.new.pages = Below(t.nsz)
  BY <1>2, <1>3 DEF LocalOk, SlotOk, SizeOk, ImageOk, OpOk, Building
<1>5. t.nsz \in Nat /\ n \in Nat /\ t.new \in DirType
  BY Fields, VmAssumption
<1> DEFINE sp == (t.nsz - n) % UINT
           ok == UserPages(t.new, t.nsz, n)
<1>6. /\ PagesIn(r, t) = 1 + PagesOf(r.dir) + PagesOf(t.new)
      /\ PagesOf(r.dir) \in Nat /\ PagesOf(t.new) \in Nat
  BY <1>4, PagesInNat
<1>7. CASE ok
  <2>1. sp \in Nat
    BY <1>5, Wrapped
  <2> HIDE DEF sp
  <2>2. PICK s : s = [r EXCEPT !.dir = t.new, !.sz = t.nsz, !.sp = sp]
    OBVIOUS
  <2>3. s \in ProcType /\ s.dir = t.new /\ s.sz = t.nsz /\ s.kstack = r.kstack
    <3>1. ReplacedBy([r EXCEPT !.dir = t.new, !.sz = t.nsz, !.sp = sp], r, t.new, t.nsz)
      BY <1>4, <1>5, <2>1, Committed
    <3> QED
      BY <2>2, <3>1 DEF ReplacedBy
  <2>4. /\ nfree' = nfree + PagesOf(r.dir)
        /\ proc' = [proc EXCEPT ![p].dir = t.new, ![p].sz = t.nsz, ![p].sp = sp]
        /\ th' = [th EXCEPT ![p] = Thread("user")]
    BY <1>1, <1>7 DEF exec_commit, sp
  <2>5. proc' = [proc EXCEPT ![p] = s]
    BY <1>1, <1>2, <2>2, <2>4
  <2>6. LocalOk(s, Thread("user")) /\ PagesIn(s, Thread("user")) = 1 + PagesOf(t.new)
    BY <1>4, <2>3, UserOk
  <2>7. Thread("user") \in ThreadType /\ Thread("user").pc = "user" /\ ~Thread("user").ip
    BY Threads
  <2>8. PICK u \in ThreadType : u = Thread("user") /\ u.pc = "user" /\ ~u.ip
    BY <2>7
  <2>9. /\ nfree' \in Nat /\ panic' = FALSE /\ nfree' + PagesIn(s, u) = nfree + PagesIn(r, t)
        /\ LocalOk(s, u) /\ th' = [th EXCEPT ![p] = u]
    BY <1>2, <1>3, <1>6, <2>4, <2>6, <2>8
  <2>10. outstanding' = outstanding - (IF t.ip THEN 1 ELSE 0) + (IF u.ip THEN 1 ELSE 0)
    BY <1>2, <1>3, <1>4, <2>8
  <2>11. t.pc # "embryo" /\ u.pc # "copyuvm"
    BY <1>3, <2>8
  <2> QED
    BY <1>1, <2>3, <2>5, <2>9, <2>10, <2>11, OneChanged
<1>8. CASE ~ok
  <2>1. PICK u \in ThreadType :
          /\ th' = [th EXCEPT ![p] = u] /\ nfree' = nfree + 0 /\ proc' = proc
          /\ u.ip = t.ip /\ u.new = t.new /\ u.pc = "bad"
    <3> DEFINE u == [t EXCEPT !.pc = "bad"]
    <3>1. u \in ThreadType /\ u.ip = t.ip /\ u.new = t.new /\ u.pc = "bad"
      BY DEF ThreadType
    <3>2. th' = [th EXCEPT ![p] = u] /\ nfree' = nfree + 0 /\ proc' = proc
      BY <1>1, <1>8 DEF exec_commit
    <3> HIDE DEF u
    <3> QED
      BY <3>1, <3>2
  <2>2. LocalOk(r, u)
    BY <1>4, <2>1 DEF LocalOk, SlotOk, SizeOk, LoopOk, ImageOk, OpOk, Building, Growing
  <2>3. nfree' \in Nat /\ panic' = FALSE /\ nfree' + PagesIn(r, u) = nfree + PagesIn(r, t)
    <3>1. PagesIn(r, u) = PagesIn(r, t)
      BY <2>1 DEF PagesIn
    <3> QED
      BY <1>2, <1>3, <2>1, <3>1
  <2>4. outstanding' = outstanding - (IF t.ip THEN 1 ELSE 0) + (IF u.ip THEN 1 ELSE 0)
    BY <1>2, <1>3, <2>1
  <2>5. t.pc # "embryo" /\ u.pc # "copyuvm" /\ proc' = [proc EXCEPT ![p] = r]
    BY <1>2, <1>3, <2>1
  <2> QED
    BY <1>1, <2>1, <2>2, <2>3, <2>4, <2>5, OneChanged
<1> QED
  BY <1>7, <1>8

LEMMA ExecBad ==
  ASSUME VmParts, NEW p \in Procs, exec_bad(p)
  PROVE  VmParts'
<1>1. PICK r \in ProcType, t \in ThreadType : r = proc[p] /\ t = th[p]
  BY Here
<1>2. /\ LocalOk(r, t) /\ nfree \in Nat /\ outstanding \in Nat /\ panic = FALSE
      /\ proc = [proc EXCEPT ![p] = r]
  BY <1>1, Here
<1>3. PICK u \in ThreadType : u = Thread("user") /\ u.pc = "user" /\ u.ip = FALSE
  BY Threads
<1>4. /\ t.pc = "bad" /\ nfree' = nfree + PagesOf(t.new) /\ th' = [th EXCEPT ![p] = u]
      /\ outstanding' = outstanding - (IF t.ip THEN 1 ELSE 0) /\ UNCHANGED <<proc, panic>>
  BY <1>1, <1>3 DEF exec_bad
<1>5. DirSound(r.dir) /\ r.kstack /\ r.dir.live /\ r.dir.pages = Below(r.sz)
  BY <1>2, <1>4 DEF LocalOk, SlotOk, SizeOk
<1>6. LocalOk(r, u) /\ PagesIn(r, u) = 1 + PagesOf(r.dir)
  BY <1>3, <1>5, UserOk
<1>7. /\ PagesIn(r, t) = 1 + PagesOf(r.dir) + PagesOf(t.new)
      /\ PagesOf(r.dir) \in Nat /\ PagesOf(t.new) \in Nat
  BY <1>5, PagesInNat
<1>8. nfree' \in Nat /\ panic' = FALSE /\ nfree' + PagesIn(r, u) = nfree + PagesIn(r, t)
  BY <1>2, <1>4, <1>6, <1>7
<1>9. outstanding' = outstanding - (IF t.ip THEN 1 ELSE 0) + (IF u.ip THEN 1 ELSE 0)
  <2>1. (IF u.ip THEN 1 ELSE 0) = 0
    BY <1>3
  <2>2. (IF t.ip THEN 1 ELSE 0) \in Int
    OBVIOUS
  <2> QED
    BY <1>2, <1>4, <2>1, <2>2
<1>10. t.pc # "embryo" /\ u.pc # "copyuvm" /\ proc' = [proc EXCEPT ![p] = r]
  BY <1>2, <1>3, <1>4
<1> QED
  BY <1>1, <1>4, <1>6, <1>8, <1>9, <1>10, OneChanged
-----------------------------------------------------------------------------
(* fork(), exit() and wait() *)

\* The slot that a fork() under way fills.
LEMMA Child ==
  ASSUME VmParts, NEW p \in Procs, th[p].pc = "copyuvm"
  PROVE  LET q == th[p].child
         IN  /\ q \in Procs /\ q # p /\ th[q].pc = "embryo" /\ ~th[q].ip
             /\ proc[q] = [NoProc EXCEPT !.kstack = TRUE] /\ PagesIn(proc[q], th[q]) = 1
<1>1. PICK q : q = th[p].child
  OBVIOUS
<1>2. q \in Procs /\ th[q].pc = "embryo" /\ q # p
  BY <1>1 DEF VmParts, ForkOwns
<1>3. PICK r \in ProcType, t \in ThreadType : r = proc[q] /\ t = th[q] /\ LocalOk(r, t)
  BY <1>2, Here
<1>4. r = [NoProc EXCEPT !.kstack = TRUE] /\ ~t.new.live /\ ~t.ip
  BY <1>2, <1>3 DEF LocalOk, SlotOk, OpOk, Building
<1>5. r.kstack = TRUE /\ r.dir = NoDir
  BY <1>4 DEF NoProc
<1>6. PagesIn(r, t) = 1
  <2>1. PagesOf(t.new) = 0 /\ PagesOf(r.dir) = 0
    BY <1>4, <1>5, Fields, DirPages, NewDirs
  <2> QED
    BY <1>5, <2>1 DEF PagesIn
<1> QED
  BY <1>1, <1>2, <1>3, <1>4, <1>6

LEMMA ForkStart ==
  ASSUME VmParts, NEW p \in Procs, NEW q \in Procs, fork(p, q)
  PROVE  VmParts'
<1>1. PICK r \in ProcType, t \in ThreadType : r = proc[p] /\ t = th[p]
  BY Here
<1>2. /\ LocalOk(r, t) /\ nfree \in Nat /\ outstanding \in Nat /\ panic = FALSE
      /\ th \in [Procs -> ThreadType] /\ proc \in [Procs -> ProcType]
  BY <1>1, Here
<1>3. /\ t.pc = "user" /\ th[q].pc = "unused" /\ nfree >= 1 /\ nfree' = nfree - 1
      /\ UNCHANGED <<outstanding, panic>>
  BY <1>1 DEF fork
<1>4. p # q
  BY <1>1, <1>3
<1>5. PICK v \in ThreadType : v = th[q] /\ LocalOk(proc[q], v)
  BY Here
<1>6. proc[q] = NoProc /\ ~v.new.live /\ ~v.ip
  BY <1>3, <1>5 DEF LocalOk, SlotOk, OpOk, Building
<1>7. PagesIn(proc[q], th[q]) = 0
  <2>1. PagesOf(v.new) = 0
    BY <1>6, Fields, DirPages
  <2>2. NoProc.dir = NoDir /\ NoProc.kstack = FALSE
    BY DEF NoProc
  <2> QED
    BY <1>5, <1>6, <2>1, <2>2, NewDirs DEF PagesIn
<1>8. /\ DirSound(r.dir) /\ DirSound(t.new) /\ r.kstack /\ r.dir.live /\ ~t.new.live
      /\ r.dir.pages = Below(r.sz) /\ ~t.ip
  BY <1>2, <1>3 DEF LocalOk, SlotOk, SizeOk, OpOk, Building
<1>9. PICK s \in ProcType : s = [NoProc EXCEPT !.kstack = TRUE] /\ s.kstack /\ s.dir = NoDir
  <2> DEFINE s == [NoProc EXCEPT !.kstack = TRUE]
  <2>1. NoProc \in ProcType /\ NoProc.dir = NoDir
    BY UnusedOk DEF NoProc
  <2>2. s \in ProcType /\ s.kstack = TRUE /\ s.dir = NoProc.dir
    BY <2>1 DEF ProcType
  <2> QED
    BY <2>1, <2>2
<1>10. PICK w \in ThreadType : /\ w = Thread("embryo") /\ w.pc = "embryo" /\ w.new = NoDir
                               /\ w.ip = FALSE
  BY Threads
<1>11. PICK u \in ThreadType : /\ u = [t EXCEPT !.pc = "copyuvm", !.child = q, !.a = 0]
                               /\ u.pc = "copyuvm" /\ u.child = q /\ u.a = 0
                               /\ u.new = t.new /\ u.ip = t.ip
  <2> DEFINE u == [t EXCEPT !.pc = "copyuvm", !.child = q, !.a = 0]
  <2>1. q \in 0..NPROC
    BY Sizes DEF Procs
  <2>2. /\ u \in ThreadType /\ u.pc = "copyuvm" /\ u.child = q /\ u.a = 0
        /\ u.new = t.new /\ u.ip = t.ip
    BY <2>1 DEF ThreadType
  <2> QED
    BY <2>2
<1>12. proc' = [proc EXCEPT ![q] = s] /\ th' = [th EXCEPT ![p] = u, ![q] = w]
  <2>1. /\ proc' = [proc EXCEPT ![q].kstack = TRUE]
        /\ th' = [th EXCEPT ![p] = [@ EXCEPT !.pc = "copyuvm", !.child = q, !.a = 0],
                            ![q] = Thread("embryo")]
    BY DEF fork
  <2>2. proc' = [proc EXCEPT ![q] = s]
    BY <1>2, <1>6, <1>9, <2>1
  <2>3. th' = [th EXCEPT ![p] = u, ![q] = w]
    BY <1>1, <1>2, <1>10, <1>11, <2>1
  <2> QED
    BY <2>2, <2>3
<1>13. LocalOk(r, u)
  BY <1>8, <1>11 DEF LocalOk, SlotOk, SizeOk, LoopOk, ImageOk, OpOk, Building, Growing
<1>14. LocalOk(s, w)
  BY <1>9, <1>10, NewDirs DEF LocalOk, SlotOk, SizeOk, LoopOk, ImageOk, OpOk, Building, Growing
<1>15. /\ PagesIn(r, u) = PagesIn(r, t) /\ PagesIn(r, t) \in Nat /\ PagesIn(s, w) = 1
  <2>1. PagesIn(r, u) = PagesIn(r, t)
    BY <1>11 DEF PagesIn
  <2>2. PagesIn(s, w) = 1
    BY <1>9, <1>10, NewDirs DEF PagesIn
  <2> QED
    BY <2>1, <2>2, PagesInNat
<1>16. /\ nfree' \in Nat /\ panic' = FALSE /\ outstanding' = outstanding
       /\ nfree' + PagesIn(r, u) + PagesIn(s, w)
            = nfree + PagesIn(r, t) + PagesIn(proc[q], th[q])
  BY <1>2, <1>3, <1>7, <1>15
<1>17. ~u.ip /\ ~w.ip /\ ~t.ip /\ ~th[q].ip
  BY <1>5, <1>6, <1>8, <1>10, <1>11
<1>18. /\ t.pc # "embryo" /\ th[q].pc = "unused"
       /\ u.pc = "copyuvm" /\ u.child = q /\ w.pc = "embryo"
  BY <1>3, <1>10, <1>11
<1> QED
  BY <1>1, <1>4, <1>12, <1>13, <1>14, <1>16, <1>17, <1>18, TwoChanged

\* The error path of fork() frees what was allocated for the child.
LEMMA ForkFailed ==
  ASSUME VmParts, NEW p \in Procs, th[p].pc = "copyuvm", ForkFails(p, PagesOf(th[p].new))
  PROVE  VmParts'
<1>1. PICK r \in ProcType, t \in ThreadType : r = proc[p] /\ t = th[p]
  BY Here
<1>2. /\ LocalOk(r, t) /\ nfree \in Nat /\ outstanding \in Nat /\ panic = FALSE
  BY <1>1, Here
<1>3. PICK q \in Procs : /\ q = t.child /\ q # p /\ th[q].pc = "embryo" /\ ~th[q].ip
                         /\ PagesIn(proc[q], th[q]) = 1
  BY <1>1, Child
<1>4. PICK u \in ThreadType : u = Thread("user") /\ u.pc = "user" /\ ~u.ip
  BY Threads
<1>5. PICK w \in ThreadType : w = Thread("unused") /\ w.pc = "unused" /\ ~w.ip
  BY Threads
<1>6. /\ nfree' = nfree + (PagesOf(t.new) + 1)
      /\ proc' = [proc EXCEPT ![q] = NoProc] /\ th' = [th EXCEPT ![p] = u, ![q] = w]
      /\ UNCHANGED <<outstanding, panic>>
  BY <1>1, <1>3, <1>4, <1>5 DEF ForkFails
<1>7. DirSound(r.dir) /\ r.kstack /\ r.dir.live /\ r.dir.pages = Below(r.sz) /\ ~t.ip
  BY <1>1, <1>2 DEF LocalOk, SlotOk, SizeOk, OpOk
<1>8. LocalOk(r, u) /\ PagesIn(r, u) = 1 + PagesOf(r.dir)
  BY <1>4, <1>7, UserOk
<1>9. LocalOk(NoProc, w) /\ PagesIn(NoProc, w) = 0 /\ NoProc \in ProcType
  BY <1>5, UnusedOk
<1>10. /\ PagesIn(r, t) = 1 + PagesOf(r.dir) + PagesOf(t.new)
       /\ PagesOf(r.dir) \in Nat /\ PagesOf(t.new) \in Nat
  BY <1>7, PagesInNat
<1>11. /\ nfree' \in Nat /\ panic' = FALSE /\ outstanding' = outstanding
       /\ nfree' + PagesIn(r, u) + PagesIn(NoProc, w)
            = nfree + PagesIn(r, t) + PagesIn(proc[q], th[q])
  BY <1>2, <1>3, <1>6, <1>8, <1>9, <1>10
<1>12. /\ t.pc = "copyuvm" /\ t.child = q /\ u.pc # "copyuvm" /\ w.pc # "copyuvm"
  BY <1>1, <1>3, <1>4, <1>5
<1> QED
  BY <1>1, <1>3, <1>4, <1>5, <1>6, <1>7, <1>8, <1>9, <1>11, <1>12, TwoChanged

LEMMA CopyKvm ==
  ASSUME VmParts, NEW p \in Procs, copyuvm_kvm(p)
  PROVE  VmParts'
<1>1. PICK r \in ProcType, t \in ThreadType : r = proc[p] /\ t = th[p]
  BY Here
<1>2. /\ LocalOk(r, t) /\ nfree \in Nat /\ outstanding \in Nat /\ panic = FALSE
      /\ proc = [proc EXCEPT ![p] = r] /\ th \in [Procs -> ThreadType]
  BY <1>1, Here
<1>3. t.pc = "copyuvm" /\ ~t.new.live
  BY <1>1 DEF copyuvm_kvm
<1>4. PagesOf(t.new) = 0
  BY <1>3, Fields, DirPages
<1>5. CASE nfree < 2
  <2>1. ForkFails(p, PagesOf(th[p].new))
    BY <1>1, <1>4, <1>5 DEF copyuvm_kvm
  <2> QED
    BY <1>1, <1>3, <2>1, ForkFailed
<1>6. CASE ~(nfree < 2)
  <2>1. PICK u \in ThreadType :
          /\ th' = [th EXCEPT ![p] = u] /\ nfree' = nfree - 2 /\ UNCHANGED <<proc, outstanding, panic>>
          /\ u.pc = t.pc /\ u.new = KernelDir /\ u.ip = t.ip /\ u.a = t.a /\ u.child = t.child
    <3> DEFINE u == [t EXCEPT !.new = KernelDir]
    <3>1. /\ u \in ThreadType /\ u.pc = t.pc /\ u.new = KernelDir /\ u.ip = t.ip /\ u.a = t.a
          /\ u.child = t.child
      BY NewDirs DEF ThreadType
    <3>2. /\ th' = [th EXCEPT ![p].new = KernelDir] /\ nfree' = nfree - 2
          /\ UNCHANGED <<proc, outstanding, panic>>
      BY <1>6 DEF copyuvm_kvm
    <3>3. th' = [th EXCEPT ![p] = u]
      BY <1>1, <1>2, <3>2
    <3> HIDE DEF u
    <3> QED
      BY <3>1, <3>2, <3>3
  <2>2. /\ DirSound(r.dir) /\ r.kstack /\ r.dir.live /\ r.dir.pages = Below(r.sz) /\ ~t.ip
        /\ t.a = 0
    BY <1>2, <1>3 DEF LocalOk, SlotOk, SizeOk, ImageOk, OpOk
  <2>3. ImageOk(r, u)
    <3>1. /\ u.new.live /\ u.new.pages = Below(0) /\ u.new.nouser = {}
          /\ Below(0) = {}
      BY <2>1, NewDirs DEF KernelDir, NoDir
    <3>2. 0 % PGSIZE = 0 /\ 0 < r.sz + PGSIZE
      BY Fields, Sizes
    <3> QED
      BY <1>3, <2>1, <2>2, <3>1, <3>2 DEF ImageOk
  <2>4. LocalOk(r, u)
    BY <1>3, <2>1, <2>2, <2>3, NewDirs
       DEF LocalOk, SlotOk, SizeOk, LoopOk, OpOk, Building, Growing
  <2>5. /\ PagesIn(r, t) = 1 + PagesOf(r.dir) /\ PagesIn(r, u) = 3 + PagesOf(r.dir)
        /\ PagesOf(r.dir) \in Nat
    <3>1. /\ PagesIn(r, t) = 1 + PagesOf(r.dir) + PagesOf(t.new)
          /\ PagesIn(r, u) = 1 + PagesOf(r.dir) + PagesOf(u.new)
          /\ PagesOf(r.dir) \in Nat
      BY <2>2, PagesInNat
    <3> QED
      BY <1>4, <2>1, <3>1, NewDirs
  <2>6. nfree' \in Nat /\ panic' = FALSE /\ nfree' + PagesIn(r, u) = nfree + PagesIn(r, t)
    BY <1>2, <1>6, <2>1, <2>5
  <2>7. outstanding' = outstanding - (IF t.ip THEN 1 ELSE 0) + (IF u.ip THEN 1 ELSE 0)
    BY <1>2, <2>1, <2>2
  <2>8. t.pc # "embryo" /\ t.pc = "copyuvm" /\ u.child = t.child /\ proc' = [proc EXCEPT ![p] = r]
    BY <1>2, <1>3, <2>1
  <2> QED
    BY <1>1, <2>1, <2>4, <2>6, <2>7, <2>8, OneChanged
<1> QED
  BY <1>5, <1>6
\* A round of copyuvm() that copies a page.
LEMMA CopyRound ==
  ASSUME NEW r \in ProcType, NEW t \in ThreadType, LocalOk(r, t), t.pc = "copyuvm",
         t.new.live, t.a < r.sz
  PROVE  LET flags == IF Vpn(t.a) \in r.dir.nouser THEN {Vpn(t.a)} ELSE {}
             e == [Mapped(t.new, t.a) EXCEPT !.nouser = t.new.nouser \union flags]
         IN  /\ e \in DirType /\ DirSound(e) /\ e.live /\ e.pages = Below(t.a + PGSIZE)
             /\ e.nouser = r.dir.nouser \intersect Below(t.a + PGSIZE)
             /\ PagesOf(e) = PagesOf(t.new) + Needs(t.new, t.a) /\ Needs(t.new, t.a) \in Nat
             /\ Vpn(t.a) \in r.dir.pages
<1> DEFINE flags == IF Vpn(t.a) \in r.dir.nouser THEN {Vpn(t.a)} ELSE {}
           m == Mapped(t.new, t.a)
           e == [m EXCEPT !.nouser = t.new.nouser \union flags]
<1>1. /\ DirSound(r.dir) /\ DirSound(t.new) /\ r.dir.pages = Below(r.sz)
      /\ t.a % PGSIZE = 0 /\ t.new.pages = Below(t.a)
      /\ t.new.nouser = r.dir.nouser \intersect Below(t.a)
  BY DEF LocalOk, SlotOk, SizeOk, ImageOk
<1>2. t.a \in Nat /\ r.sz \in Nat /\ r.sz < KERNBASE /\ t.new \in DirType /\ r.dir \in DirType
  BY Fields
<1>3. t.a < KERNBASE
  BY <1>2, Sizes
<1>4. /\ m \in DirType /\ DirSound(m) /\ m.live /\ m.pages = Below(t.a + PGSIZE)
      /\ m.nouser = t.new.nouser /\ Vpn(t.a) \in m.pages
      /\ PagesOf(m) = PagesOf(t.new) + Needs(t.new, t.a) /\ Needs(t.new, t.a) \in Nat
  BY <1>1, <1>2, <1>3, MappedNext
<1>5. Vpn(t.a) \in Vpns /\ Below(t.a + PGSIZE) = Below(t.a) \union {Vpn(t.a)}
  BY <1>1, <1>2, <1>3, BelowNext
<1> HIDE DEF m
<1>6. Vpn(t.a) \in r.dir.pages
  <2>1. Vpn(t.a) * PGSIZE = t.a
    BY <1>1, <1>2, PageOf
  <2> QED
    BY <1>1, <1>5, <2>1 DEF Below
<1>7. t.new.nouser \union flags = r.dir.nouser \intersect Below(t.a + PGSIZE)
  BY <1>1, <1>5
<1>8. r.dir.nouser \intersect Below(t.a + PGSIZE) \in SUBSET Vpns
  BY <1>2 DEF DirType
<1>9. /\ e \in DirType /\ e.live = m.live /\ e.pages = m.pages /\ e.tabs = m.tabs
      /\ e.nouser = r.dir.nouser \intersect Below(t.a + PGSIZE)
  BY <1>4, <1>7, <1>8 DEF DirType
<1>10. DirSound(e)
  BY <1>4, <1>9 DEF DirSound
<1>11. PagesOf(e) = PagesOf(m)
  BY <1>9 DEF PagesOf
<1> QED
  BY <1>4, <1>6, <1>9, <1>10, <1>11 DEF m

LEMMA Copyuvm ==
  ASSUME VmParts, NEW p \in Procs, copyuvm(p)
  PROVE  VmParts'
<1>1. PICK r \in ProcType, t \in ThreadType : r = proc[p] /\ t = th[p]
  BY Here
<1>2. /\ LocalOk(r, t) /\ nfree \in Nat /\ outstanding \in Nat /\ panic = FALSE
      /\ proc = [proc EXCEPT ![p] = r] /\ th \in [Procs -> ThreadType]
  BY <1>1, Here
<1>3. t.pc = "copyuvm" /\ t.new.live /\ t.a < r.sz
  BY <1>1 DEF copyuvm
<1> DEFINE flags == IF Vpn(t.a) \in r.dir.nouser THEN {Vpn(t.a)} ELSE {}
<1>4. PICK e \in DirType :
        /\ e = [Mapped(t.new, t.a) EXCEPT !.nouser = t.new.nouser \union flags]
        /\ DirSound(e) /\ e.live /\ e.pages = Below(t.a + PGSIZE)
        /\ e.nouser = r.dir.nouser \intersect Below(t.a + PGSIZE)
        /\ PagesOf(e) = PagesOf(t.new) + Needs(t.new, t.a) /\ Needs(t.new, t.a) \in Nat
        /\ Vpn(t.a) \in r.dir.pages
  BY <1>2, <1>3, CopyRound
<1>5. PICK n \in Nat : n = Needs(t.new, t.a)
  BY <1>4
<1>6. CASE nfree < n
  <2>1. ForkFails(p, PagesOf(th[p].new))
    BY <1>1, <1>4, <1>5, <1>6 DEF copyuvm
  <2> QED
    BY <1>1, <1>3, <2>1, ForkFailed
<1>7. CASE ~(nfree < n)
  <2>1. t.a \in Nat /\ t.a + PGSIZE \in Nat
    BY Fields, Sizes
  <2>2. PICK u \in ThreadType :
          /\ th' = [th EXCEPT ![p] = u] /\ nfree' = nfree - n /\ UNCHANGED <<proc, outstanding, panic>>
          /\ u.pc = t.pc /\ u.new = e /\ u.ip = t.ip /\ u.a = t.a + PGSIZE /\ u.child = t.child
    <3> DEFINE u == [t EXCEPT !.a = t.a + PGSIZE, !.new = e]
    <3>1. /\ u \in ThreadType /\ u.pc = t.pc /\ u.new = e /\ u.ip = t.ip /\ u.a = t.a + PGSIZE
          /\ u.child = t.child
      BY <2>1 DEF ThreadType
    <3>2. /\ th' = [th EXCEPT ![p].a = @ + PGSIZE, ![p].new = e] /\ nfree' = nfree - n
          /\ UNCHANGED <<proc, outstanding, panic>>
      BY <1>1, <1>4, <1>5, <1>7 DEF copyuvm
    <3>3. th' = [th EXCEPT ![p] = u]
      BY <1>1, <1>2, <3>2
    <3> HIDE DEF u
    <3> QED
      BY <3>1, <3>2, <3>3
  <2>3. /\ DirSound(r.dir) /\ r.kstack /\ r.dir.live /\ r.dir.pages = Below(r.sz) /\ ~t.ip
        /\ t.a % PGSIZE = 0
    BY <1>2, <1>3 DEF LocalOk, SlotOk, SizeOk, ImageOk, OpOk
  <2>4. ImageOk(r, u)
    <3>1. (t.a + PGSIZE) % PGSIZE = 0
      BY <2>1, <2>3, NextPage
    <3>2. t.a + PGSIZE < r.sz + PGSIZE
      BY <1>3, <2>1, Fields, Sizes
    <3> QED
      BY <1>3, <1>4, <2>2, <3>1, <3>2 DEF ImageOk
  <2>5. LocalOk(r, u)
    BY <1>3, <1>4, <2>2, <2>3, <2>4
       DEF LocalOk, SlotOk, SizeOk, LoopOk, OpOk, Building, Growing
  <2>6. nfree' \in Nat /\ panic' = FALSE /\ nfree' + PagesIn(r, u) = nfree + PagesIn(r, t)
    <3>1. /\ PagesIn(r, t) = 1 + PagesOf(r.dir) + PagesOf(t.new)
          /\ PagesIn(r, u) = 1 + PagesOf(r.dir) + PagesOf(u.new)
          /\ PagesOf(r.dir) \in Nat /\ PagesOf(t.new) \in Nat
      BY <2>3, PagesInNat
    <3>2. PagesOf(u.new) = PagesOf(t.new) + n
      BY <1>4, <1>5, <2>2
    <3> QED
      BY <1>2, <1>7, <2>2, <3>1, <3>2
  <2>7. outstanding' = outstanding - (IF t.ip THEN 1 ELSE 0) + (IF u.ip THEN 1 ELSE 0)
    BY <1>2, <2>2, <2>3
  <2>8. t.pc # "embryo" /\ t.pc = "copyuvm" /\ u.child = t.child /\ proc' = [proc EXCEPT ![p] = r]
    BY <1>2, <1>3, <2>2
  <2> QED
    BY <1>1, <2>2, <2>5, <2>6, <2>7, <2>8, OneChanged
<1> QED
  BY <1>6, <1>7

LEMMA ForkDone ==
  ASSUME VmParts, NEW p \in Procs, fork_done(p)
  PROVE  VmParts'
<1>1. PICK r \in ProcType, t \in ThreadType : r = proc[p] /\ t = th[p]
  BY Here
<1>2. /\ LocalOk(r, t) /\ nfree \in Nat /\ outstanding \in Nat /\ panic = FALSE
      /\ proc \in [Procs -> ProcType]
  BY <1>1, Here
<1>3. t.pc = "copyuvm" /\ t.new.live /\ t.a >= r.sz /\ UNCHANGED <<nfree, outstanding, panic>>
  BY <1>1 DEF fork_done
<1>4. PICK q \in Procs : /\ q = t.child /\ q # p /\ th[q].pc = "embryo" /\ ~th[q].ip
                         /\ PagesIn(proc[q], th[q]) = 1
                         /\ proc[q] = [NoProc EXCEPT !.kstack = TRUE]
  BY <1>1, <1>3, Child
<1>5. PICK u \in ThreadType : u = Thread("user") /\ u.pc = "user" /\ ~u.ip
  BY Threads
<1>6. /\ DirSound(r.dir) /\ DirSound(t.new) /\ r.kstack /\ r.dir.live /\ r.dir.pages = Below(r.sz)
      /\ ~t.ip /\ t.a % PGSIZE = 0 /\ t.a < r.sz + PGSIZE /\ t.new.pages = Below(t.a)
  BY <1>2, <1>3 DEF LocalOk, SlotOk, SizeOk, ImageOk, OpOk
<1>7. t.a \in Nat /\ r.sz \in Nat /\ r.sz < KERNBASE /\ r.sp \in Nat /\ t.new \in DirType
  BY Fields
<1>8. t.new.pages = Below(r.sz)
  <2>1. r.sz <= t.a
    BY <1>3, <1>7
  <2> QED
    BY <1>6, <1>7, <2>1, BelowAligned
<1>9. PICK c \in ProcType : c = proc[q] /\ c.kstack = TRUE
  BY <1>2, <1>4 DEF NoProc
<1>10. PICK s \in ProcType : /\ s = [c EXCEPT !.dir = t.new, !.sz = r.sz, !.sp = r.sp]
                             /\ s.dir = t.new /\ s.sz = r.sz /\ s.kstack = c.kstack
  <2>1. ReplacedBy([c EXCEPT !.dir = t.new, !.sz = r.sz, !.sp = r.sp], c, t.new, r.sz)
    BY <1>7, Committed
  <2> QED
    BY <2>1 DEF ReplacedBy
<1>11. proc' = [proc EXCEPT ![q] = s] /\ th' = [th EXCEPT ![p] = u, ![q] = u]
  BY <1>1, <1>2, <1>4, <1>5, <1>9, <1>10 DEF fork_done
<1>12. LocalOk(r, u) /\ PagesIn(r, u) = 1 + PagesOf(r.dir)
  BY <1>5, <1>6, UserOk
<1>13. LocalOk(s, u) /\ PagesIn(s, u) = 1 + PagesOf(t.new)
  BY <1>3, <1>5, <1>6, <1>8, <1>9, <1>10, UserOk
<1>14. /\ PagesIn(r, t) = 1 + PagesOf(r.dir) + PagesOf(t.new)
       /\ PagesOf(r.dir) \in Nat /\ PagesOf(t.new) \in Nat
  BY <1>6, PagesInNat
<1>15. /\ nfree' \in Nat /\ panic' = FALSE /\ outstanding' = outstanding
       /\ nfree' + PagesIn(r, u) + PagesIn(s, u)
            = nfree + PagesIn(r, t) + PagesIn(proc[q], th[q])
  BY <1>2, <1>3, <1>4, <1>12, <1>13, <1>14
<1>16. t.pc = "copyuvm" /\ t.child = q /\ u.pc # "copyuvm"
  BY <1>3, <1>4, <1>5
<1> QED
  BY <1>1, <1>4, <1>5, <1>6, <1>11, <1>12, <1>13, <1>15, <1>16, TwoChanged

LEMMA Exit ==
  ASSUME VmParts, NEW p \in Procs, exit(p)
  PROVE  VmParts'
<1>1. PICK r \in ProcType, t \in ThreadType : r = proc[p] /\ t = th[p]
  BY Here
<1>2. /\ LocalOk(r, t) /\ nfree \in Nat /\ outstanding \in Nat /\ panic = FALSE
      /\ proc = [proc EXCEPT ![p] = r]
  BY <1>1, Here
<1>3. PICK u \in ThreadType : u = Thread("zombie") /\ u.pc = "zombie" /\ ~u.ip
  BY Threads
<1>4. /\ t.pc \in {"user", "fault"} /\ th' = [th EXCEPT ![p] = u]
      /\ UNCHANGED <<nfree, proc, outstanding, panic>>
  BY <1>1, <1>3 DEF exit
<1>5. DirSound(r.dir) /\ r.kstack /\ r.dir.live /\ ~t.new.live /\ ~t.ip
  BY <1>2, <1>4 DEF LocalOk, SlotOk, OpOk, Building
<1>6. LocalOk(r, u) /\ PagesIn(r, u) = 1 + PagesOf(r.dir)
  BY <1>3, <1>5, UserOk
<1>7. PagesIn(r, t) = 1 + PagesOf(r.dir) /\ PagesOf(r.dir) \in Nat
  <2>1. PagesOf(t.new) = 0
    BY <1>5, Fields, DirPages
  <2> QED
    BY <1>5, <2>1, PagesInNat
<1>8. nfree' \in Nat /\ panic' = FALSE /\ nfree' + PagesIn(r, u) = nfree + PagesIn(r, t)
  BY <1>2, <1>4, <1>6, <1>7
<1>9. outstanding' = outstanding - (IF t.ip THEN 1 ELSE 0) + (IF u.ip THEN 1 ELSE 0)
  BY <1>2, <1>3, <1>4, <1>5
<1>10. t.pc # "embryo" /\ u.pc # "copyuvm" /\ proc' = [proc EXCEPT ![p] = r]
  BY <1>2, <1>3, <1>4
<1> QED
  BY <1>1, <1>3, <1>4, <1>6, <1>8, <1>9, <1>10, OneChanged

LEMMA Wait ==
  ASSUME VmParts, NEW p \in Procs, wait(p)
  PROVE  VmParts'
<1>1. PICK r \in ProcType, t \in ThreadType : r = proc[p] /\ t = th[p]
  BY Here
<1>2. /\ LocalOk(r, t) /\ nfree \in Nat /\ outstanding \in Nat /\ panic = FALSE
  BY <1>1, Here
<1>3. PICK u \in ThreadType : u = Thread("unused") /\ u.pc = "unused" /\ ~u.ip
  BY Threads
<1>4. /\ t.pc = "zombie" /\ nfree' = nfree + (1 + PagesOf(r.dir))
      /\ proc' = [proc EXCEPT ![p] = NoProc] /\ th' = [th EXCEPT ![p] = u]
      /\ UNCHANGED <<outstanding, panic>>
  BY <1>1, <1>3 DEF wait
<1>5. r.kstack /\ ~t.new.live /\ ~t.ip
  BY <1>2, <1>4 DEF LocalOk, SlotOk, OpOk, Building
<1>6. LocalOk(NoProc, u) /\ PagesIn(NoProc, u) = 0 /\ NoProc \in ProcType
  BY <1>3, UnusedOk
<1>7. PagesIn(r, t) = 1 + PagesOf(r.dir) /\ PagesOf(r.dir) \in Nat
  <2>1. PagesOf(t.new) = 0
    BY <1>5, Fields, DirPages
  <2> QED
    BY <1>5, <2>1, PagesInNat
<1>8. nfree' \in Nat /\ panic' = FALSE /\ nfree' + PagesIn(NoProc, u) = nfree + PagesIn(r, t)
  BY <1>2, <1>4, <1>6, <1>7
<1>9. outstanding' = outstanding - (IF t.ip THEN 1 ELSE 0) + (IF u.ip THEN 1 ELSE 0)
  BY <1>2, <1>3, <1>4, <1>5
<1>10. t.pc # "embryo" /\ u.pc # "copyuvm"
  BY <1>3, <1>4
<1> QED
  BY <1>1, <1>3, <1>4, <1>6, <1>8, <1>9, <1>10, OneChanged
-----------------------------------------------------------------------------
(* Theorems *)

LEMMA NextParts == VmParts /\ [Next]_vars => VmParts'
<1> SUFFICES ASSUME VmParts, [Next]_vars PROVE VmParts'
  OBVIOUS
<1>1. CASE UNCHANGED vars
  BY <1>1 DEF vars, VmParts, Types, ForkOwns, OpsCounted, PagesConserved
<1>2. ASSUME NEW p \in Procs, Sbrk(p) PROVE VmParts'
  BY <1>2, SbrkGrow, SbrkGrown, SbrkShrink DEF Sbrk
<1>3. ASSUME NEW p \in Procs, Exec(p) PROVE VmParts'
  BY <1>3, ExecStart, ExecElf, ExecSeg, ExecLoad, ExecStackStep, ExecGuard, ExecCommit, ExecBad
     DEF Exec
<1>4. ASSUME NEW p \in Procs, Fork(p) PROVE VmParts'
  BY <1>4, ForkStart, CopyKvm, Copyuvm, ForkDone DEF Fork
<1> QED
  BY <1>1, <1>2, <1>3, <1>4, Allocuvm, Exit, Wait DEF Next

\* Address spaces are sound in every state: types, kernel stacks and directories
\* of every slot, p->sz in step with the page table, the loops of allocuvm(), exec()
\* and copyuvm(), a transaction that exec() ends once, no panic.
THEOREM VmSpaces == Spec => []SpacesInv
<1>1. Init => VmParts
  BY InitParts
<1>2. VmParts => SpacesInv
  BY Parts DEF VmInv
<1> QED
  BY <1>1, <1>2, NextParts, PTL DEF Spec

\* No page is leaked or freed twice, whatever fails in exec(), fork() and sbrk():
\* the pages on the free list and those of the processes add up to all pages.
THEOREM VmPages == Spec => []PagesConserved
<1>1. Init => VmParts
  BY InitParts
<1>2. VmParts => PagesConserved
  BY DEF VmParts
<1> QED
  BY <1>1, <1>2, NextParts, PTL DEF Spec

\* Every argument that fetchint() and argptr() let through is mapped.
THEOREM VmArgs == Spec => []ArgsMapped
<1>1. Init => VmParts
  BY InitParts
<1>2. VmParts => ArgsMapped
  <2> SUFFICES ASSUME VmParts, NEW p \in Procs, th[p].pc = "user",
                      NEW addr \in 0..UINT - 1, NEW n \in 0..KERNBASE - 1,
                      addr < proc[p].sz, (addr + n) % UINT <= proc[p].sz,
                      NEW a \in addr..addr + n - 1
               PROVE  Vpn(a) \in proc[p].dir.pages
    BY DEF ArgsMapped, argptr, fetchint
  <2>1. PICK r \in ProcType, t \in ThreadType : r = proc[p] /\ t = th[p] /\ LocalOk(r, t)
    BY Here
  <2>2. r.dir.pages = Below(r.sz)
    BY <2>1 DEF LocalOk, SizeOk
  <2>3. r.sz \in Nat /\ r.sz < KERNBASE
    BY Fields
  <2>4. addr \in Nat /\ n \in Nat /\ n < KERNBASE /\ a \in Nat /\ a < addr + n /\ addr < r.sz
    BY <2>1, Sizes
  <2>5. addr + n \in Nat /\ addr + n < UINT
    BY <2>3, <2>4, Sizes
  <2>6. (addr + n) % UINT = addr + n
    BY <2>5, Sizes
  <2>7. a < r.sz
    BY <2>1, <2>3, <2>4, <2>5, <2>6
  <2>8. Vpn(a) \in Vpns /\ Vpn(a) * PGSIZE \in Nat /\ Vpn(a) * PGSIZE <= a
    <3>1. a < KERNBASE
      BY <2>3, <2>4, <2>7, Sizes
    <3> QED
      BY <2>4, <3>1, PageOf
  <2>9. Vpn(a) * PGSIZE < r.sz
    BY <2>3, <2>4, <2>7, <2>8
  <2> QED
    BY <2>1, <2>2, <2>8, <2>9 DEF Below
<1> QED
  BY <1>1, <1>2, NextParts, PTL DEF Spec

\* Only a commit ends exec() after the arguments are pushed.
LEMMA OnlyCommit ==
  ASSUME VmParts, [Next]_vars, NEW p \in Procs, th[p].pc = "args", th'[p].pc = "user"
  PROVE  \E n \in ArgSizes : exec_commit(p, n)
<1>1. th \in [Procs -> ThreadType]
  BY DEF VmParts, Types
<1>2. PICK x \in Procs : Sbrk(x) \/ Exec(x) \/ Fork(x) \/ allocuvm(x) \/ exit(x) \/ wait(x)
  BY DEF Next, vars
<1>3. CASE x # p
  <2>1. th[x].pc = "copyuvm" => th[x].child # p
    BY <1>2, Child
  <2>2. CASE Sbrk(x)
    BY <1>1, <1>3, <2>2 DEF Sbrk, sbrk_grow, sbrk_shrink, sbrk_grown
  <2>3. CASE Exec(x)
    BY <1>1, <1>3, <2>3
       DEF Exec, exec, exec_elf, exec_seg, exec_load, exec_stack, exec_guard, exec_commit, exec_bad
  <2>4. CASE Fork(x)
    BY <1>1, <1>3, <2>1, <2>4 DEF Fork, fork, copyuvm_kvm, copyuvm, fork_done, ForkFails
  <2>5. CASE allocuvm(x) \/ exit(x) \/ wait(x)
    BY <1>1, <1>3, <2>5 DEF allocuvm, SetDir, exit, wait
  <2> QED
    BY <1>2, <2>2, <2>3, <2>4, <2>5
<1>4. CASE x = p
  <2>1. ~Sbrk(p) /\ ~Fork(p) /\ ~allocuvm(p) /\ ~exit(p) /\ ~wait(p)
    BY DEF Sbrk, sbrk_grow, sbrk_grown, sbrk_shrink, Grown, Fork, fork, copyuvm_kvm, copyuvm,
           fork_done, allocuvm, Growing, exit, wait
  <2>2. Exec(p) => \E n \in ArgSizes : exec_commit(p, n)
    BY DEF Exec, exec, exec_elf, exec_seg, exec_load, exec_stack, exec_guard, exec_bad, Grown
  <2> QED
    BY <1>2, <1>4, <2>1, <2>2
<1> QED
  BY <1>3, <1>4

\* When exec() commits, the arguments lie above the page without PTE_U.
THEOREM VmExecStack == Spec => ExecStack
<1>1. Init => VmParts
  BY InitParts
<1>2. VmParts /\ [Next]_vars =>
        [\A p \in Procs : th[p].pc = "args" /\ th'[p].pc = "user" =>
            /\ proc'[p].sp >= proc'[p].sz - PGSIZE
            /\ Vpn(proc'[p].sz) - 2 \in proc'[p].dir.nouser]_vars
  <2> SUFFICES ASSUME VmParts, [Next]_vars, NEW p \in Procs,
                      th[p].pc = "args", th'[p].pc = "user"
               PROVE  /\ proc'[p].sp >= proc'[p].sz - PGSIZE
                      /\ Vpn(proc'[p].sz) - 2 \in proc'[p].dir.nouser
    OBVIOUS
  <2>1. PICK n \in ArgSizes : exec_commit(p, n)
    BY OnlyCommit
  <2>2. PICK t \in ThreadType : t = th[p] /\ LocalOk(proc[p], t)
    BY Here
  <2>3. proc \in [Procs -> ProcType] /\ th \in [Procs -> ThreadType]
    BY Here
  <2>4. /\ t.nsz % PGSIZE = 0 /\ t.nsz >= 2 * PGSIZE /\ t.nsz < KERNBASE
        /\ t.new.nouser = {Vpn(t.nsz) - 2}
    BY <2>2 DEF LocalOk, ImageOk
  <2>5. t.nsz \in Nat /\ n \in Nat
    BY VmAssumption DEF ThreadType
  <2>6. PICK sp : sp = (t.nsz - n) % UINT
    OBVIOUS
  <2>7. UserPages(t.new, t.nsz, n)
    <3>1. CASE ~UserPages(t.new, t.nsz, n)
      <4>1. th' = [th EXCEPT ![p] = [t EXCEPT !.pc = "bad"]]
        BY <2>1, <2>2, <3>1 DEF exec_commit
      <4>2. th'[p].pc = "bad"
        BY <2>3, <4>1 DEF ThreadType
      <4> QED
        BY <4>2
    <3> QED
      BY <3>1
  <2>8. proc'[p].sp = sp /\ proc'[p].sz = t.nsz /\ proc'[p].dir = t.new
    <3>1. proc' = [proc EXCEPT ![p].dir = t.new, ![p].sz = t.nsz, ![p].sp = sp]
      BY <2>1, <2>2, <2>6, <2>7 DEF exec_commit
    <3> QED
      BY <2>3, <3>1 DEF ProcType
  <2>9. n <= PGSIZE
    <3> SUFFICES ASSUME n > PGSIZE PROVE FALSE
      BY <2>5, Sizes
    <3>1. PICK a \in Nat : a = t.nsz - (PGSIZE + 1) /\ a < KERNBASE
      BY <2>4, <2>5, Sizes
    <3>2. a % UINT = a
      BY <3>1, Wrapped
    <3>3. PGSIZE + 1 \in 1..n
      BY <2>5, Sizes
    <3>4. Vpn(a) \in t.new.pages \ t.new.nouser
      BY <2>7, <3>1, <3>2, <3>3 DEF UserPages
    <3>5. /\ Vpn(t.nsz) \in Nat /\ Vpn(t.nsz) * PGSIZE = t.nsz
          /\ Vpn(a) \in Nat /\ Vpn(a) * PGSIZE <= a /\ a < Vpn(a) * PGSIZE + PGSIZE
          /\ Vpn(a) * PGSIZE \in Nat
      BY <2>4, <2>5, PageOf
    <3> DEFINE v == Vpn(t.nsz) - 2
    <3>6. v \in Int /\ v * PGSIZE = t.nsz - 2 * PGSIZE /\ (v + 1) * PGSIZE = t.nsz - PGSIZE
      BY <2>5, <3>5, Sizes
    <3> HIDE DEF v
    <3>7. Vpn(a) * PGSIZE < (v + 1) * PGSIZE /\ v * PGSIZE < Vpn(a) * PGSIZE + PGSIZE
      BY <2>5, <3>1, <3>5, <3>6, Sizes
    <3>8. (Vpn(a) + 1) * PGSIZE = Vpn(a) * PGSIZE + PGSIZE
      BY <3>5, Sizes
    <3>9. Vpn(a) < v + 1 /\ v < Vpn(a) + 1
      BY <3>5, <3>6, <3>7, <3>8, PageOrder
    <3>10. Vpn(a) = v
      BY <3>5, <3>6, <3>9
    <3> QED
      BY <2>4, <3>4, <3>10 DEF v
  <2>10. sp >= t.nsz - PGSIZE
    <3>1. t.nsz - n \in Nat /\ t.nsz - n < KERNBASE /\ t.nsz - n >= t.nsz - PGSIZE
      BY <2>4, <2>5, <2>9, Sizes
    <3>2. sp = t.nsz - n
      BY <2>6, <3>1, Wrapped
    <3> QED
      BY <3>1, <3>2
  <2> QED
    BY <2>4, <2>8, <2>10
<1> QED
  BY <1>1, <1>2, NextParts, PTL DEF Spec, ExecStack
=============================================================================
