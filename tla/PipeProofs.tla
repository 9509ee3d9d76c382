----------------------------- MODULE PipeProofs -----------------------------
(***************************************************************************)
(* Proofs about Pipe, for every number of processes, files, descriptors    *)
(* and pages, every size of a pipe, and every width of its counters that   *)
(* the size divides.                                                       *)
(***************************************************************************)
EXTENDS Pipe, FiniteSetTheorems, TLAPS

\* The index sets are finite and do not hold 0, which stands for "none".
LEMMA Indices ==
  /\ IsFiniteSet(Procs) /\ IsFiniteSet(Files) /\ IsFiniteSet(Fds)
  /\ IsFiniteSet(Pages) /\ IsFiniteSet(Slots)
  /\ Procs \subseteq Nat \ {0} /\ Files \subseteq Nat \ {0} /\ Pages \subseteq Nat \ {0}
  /\ Fds \subseteq Nat
  /\ 0..NFILE = Files \union {0} /\ 0..NPAGE = Pages \union {0}
  /\ 0..NPROC = Procs \union {0} /\ Slots = {1, 2}
<1>1. NPROC \in Nat /\ NFILE \in Nat /\ NOFILE \in Nat /\ NPAGE \in Nat
  BY PipeAssumption
<1>2. IsFiniteSet(Procs)
  BY <1>1, FS_Interval DEF Procs
<1>a. IsFiniteSet(Files)
  BY <1>1, FS_Interval DEF Files
<1>b. IsFiniteSet(Fds)
  BY <1>1, FS_Interval DEF Fds
<1>c. IsFiniteSet(Pages)
  BY <1>1, FS_Interval DEF Pages
<1>d. IsFiniteSet(Slots)
  <2>1. Slots = {1} \union {2}
    BY DEF Slots
  <2>2. IsFiniteSet({1})
    BY FS_Singleton
  <2> QED
    BY <2>1, <2>2, FS_AddElement
<1>3. IsFiniteSet(Procs) /\ IsFiniteSet(Files) /\ IsFiniteSet(Fds)
      /\ IsFiniteSet(Pages) /\ IsFiniteSet(Slots)
  BY <1>2, <1>a, <1>b, <1>c, <1>d
<1>4. Procs \subseteq Nat \ {0} /\ Files \subseteq Nat \ {0} /\ Pages \subseteq Nat \ {0}
  BY <1>1 DEF Procs, Files, Pages
<1>5. Fds \subseteq Nat
  BY <1>1 DEF Fds
<1>6. 0..NFILE = Files \union {0} /\ 0..NPAGE = Pages \union {0}
      /\ 0..NPROC = Procs \union {0}
  BY <1>1 DEF Files, Pages, Procs
<1>7. Slots = {1, 2}
  BY DEF Slots
<1> QED
  BY <1>3, <1>4, <1>5, <1>6, <1>7

\* The first of a nonempty set of files, pages or descriptors.
LEMMA MinIn ==
  ASSUME NEW S, S \subseteq Nat, S # {}
  PROVE  Min(S) \in S /\ \A x \in S : Min(S) <= x
<1> DEFINE R == OpToRel(<, Nat)
<1>1. R = {ss \in Nat \X Nat : ss[1] < ss[2]}
  BY DEF OpToRel
<1>2. IsWellFoundedOn(R, Nat)
  BY Zenon, NatLessThanWellFounded DEF R
<1> HIDE DEF R
<1>3. PICK m \in S : \A q \in S : ~(<<q, m>> \in R)
  BY <1>2, WFMin
<1>4. ASSUME NEW q \in S, q < m PROVE FALSE
  <2>1. <<q, m>> \in {ss \in Nat \X Nat : ss[1] < ss[2]}
    BY <1>4
  <2> QED
    BY <2>1, <1>1, <1>3
<1>5. \A q \in S : m <= q
  BY <1>4
<1> QED
  BY <1>5 DEF Min

-----------------------------------------------------------------------------
(* References to files. *)

\* The places that hold f are finitely many.
LEMMA PlacesFinite ==
  ASSUME NEW m, NEW slots, IsFiniteSet(slots), NEW f
  PROVE  IsFiniteSet(Places(m, slots, f)) /\ Cardinality(Places(m, slots, f)) \in Nat
<1>1. IsFiniteSet(Procs \X slots)
  BY Indices, FS_Product
<1>2. Places(m, slots, f) \in SUBSET (Procs \X slots)
  BY DEF Places
<1>3. IsFiniteSet(Places(m, slots, f))
  BY <1>1, <1>2, FS_Subset
<1> QED
  BY <1>3, FS_CardinalityType

\* Tables of files by process and slot, one place set, one row copied.
IsTable(m, slots) == m \in [Procs -> [slots -> 0..NFILE]]
IsSetAt(m2, m, p, s, v) == m2 = [m EXCEPT ![p][s] = v]
IsCopied(m2, m, p, q) == m2 = [m EXCEPT ![q] = m[p]]

\* One place gets another file.
LEMMA PlacesSet ==
  ASSUME NEW slots, IsFiniteSet(slots), NEW m, IsTable(m, slots),
         NEW p \in Procs, NEW s \in slots, NEW v, NEW f,
         NEW m2, IsSetAt(m2, m, p, s, v)
  PROVE  Cardinality(Places(m2, slots, f)) =
            (Cardinality(Places(m, slots, f)) - (IF m[p][s] = f THEN 1 ELSE 0))
            + (IF v = f THEN 1 ELSE 0)
<1> DEFINE A == Places(m, slots, f)
           B == Places(m2, slots, f)
           x == <<p, s>>
<1>1. IsFiniteSet(A) /\ Cardinality(A) \in Nat
  BY PlacesFinite
<1>2. \A y \in Procs \X slots : m2[y[1]][y[2]] = IF y = x THEN v ELSE m[y[1]][y[2]]
  BY DEF IsTable, IsSetAt
<1>3. x \in Procs \X slots /\ x[1] = p /\ x[2] = s
  OBVIOUS
<1>4. B = IF v = f THEN (A \ {x}) \union {x} ELSE A \ {x}
  BY <1>2, <1>3 DEF Places
<1>5. x \in A <=> m[p][s] = f
  BY <1>3 DEF Places
<1> HIDE DEF A, B, x
<1>6. IsFiniteSet(A \ {x})
      /\ Cardinality(A \ {x}) = IF x \in A THEN Cardinality(A) - 1 ELSE Cardinality(A)
  BY <1>1, FS_RemoveElement
<1>7. Cardinality((A \ {x}) \union {x}) = Cardinality(A \ {x}) + 1
  <2>1. x \notin A \ {x}
    OBVIOUS
  <2> QED
    BY <2>1, <1>6, FS_AddElement
<1>8. Cardinality(B) = (Cardinality(A) - (IF m[p][s] = f THEN 1 ELSE 0))
                       + (IF v = f THEN 1 ELSE 0)
  BY <1>1, <1>4, <1>5, <1>6, <1>7
<1> QED
  BY <1>8 DEF A, B

\* One process gets the descriptors of another (fork()).
LEMMA PlacesRow ==
  ASSUME NEW slots, IsFiniteSet(slots), NEW m, IsTable(m, slots),
         NEW p \in Procs, NEW q \in Procs, NEW f, \A s \in slots : m[q][s] # f,
         NEW m2, IsCopied(m2, m, p, q)
  PROVE  Cardinality(Places(m2, slots, f)) =
            Cardinality(Places(m, slots, f)) + Cardinality({s \in slots : m[p][s] = f})
<1> DEFINE A == Places(m, slots, f)
           C == {s \in slots : m[p][s] = f}
           D == {q} \X C
<1>1. IsFiniteSet(A) /\ Cardinality(A) \in Nat
  BY PlacesFinite
<1>2. IsFiniteSet(C) /\ Cardinality(C) \in Nat
  BY FS_Subset, FS_CardinalityType
<1>3. IsFiniteSet({q}) /\ Cardinality({q}) = 1
  BY FS_Singleton
<1>4. IsFiniteSet(D) /\ Cardinality(D) = Cardinality(C)
  BY <1>2, <1>3, FS_Product
<1>5. Places(m2, slots, f) = A \union D
  <2>1. \A y \in Procs \X slots :
           /\ m2[y[1]][y[2]] = IF y[1] = q THEN m[p][y[2]] ELSE m[y[1]][y[2]]
           /\ y \in D <=> y[1] = q /\ m[p][y[2]] = f
           /\ y \in A <=> m[y[1]][y[2]] = f
           /\ y[1] = q => m[y[1]][y[2]] # f
    BY DEF Places, IsTable, IsCopied
  <2>2. D \subseteq Procs \X slots /\ A \subseteq Procs \X slots
    BY DEF Places
  <2>3. \A y \in Procs \X slots : m2[y[1]][y[2]] = f <=> y \in A \union D
    BY <2>1
  <2> HIDE DEF A, D
  <2> QED
    BY <2>2, <2>3 DEF Places
<1>6. A \cap D = {}
  BY DEF Places
<1> HIDE DEF A, C, D
<1>7. Cardinality(A \union D) = Cardinality(A) + Cardinality(D) - Cardinality(A \cap D)
  BY <1>1, <1>4, FS_Union
<1>8. Cardinality(A \cap D) = 0
  BY <1>6, FS_EmptySet
<1>9. Cardinality(A \union D) = Cardinality(A) + Cardinality(C)
  BY <1>1, <1>2, <1>4, <1>7, <1>8
<1>10. Cardinality(Places(m2, slots, f)) = Cardinality(A) + Cardinality(C)
  BY <1>5, <1>9
<1> QED
  BY <1>10 DEF A, C

\* The places of a file with one reference.
LEMMA PlacesOne ==
  ASSUME NEW S, IsFiniteSet(S), NEW x \in S, NEW y \in S, Cardinality(S) <= 1
  PROVE  x = y
<1>1. Cardinality(S) \in Nat /\ (Cardinality(S) = 0 <=> S = {})
  BY FS_CardinalityType, FS_EmptySet
<1>2. Cardinality(S) = 1
  BY <1>1
<1>3. PICK z : S = {z}
  BY <1>2, FS_Singleton
<1> QED
  BY <1>3

\* f->ref is positive exactly while a descriptor or a call leads to f, and the
\* last reference is the only one.
LEMMA RefsAre ==
  ASSUME TypeOK, RefsExact, NEW f \in Files
  PROVE  /\ file[f].ref \in Nat
         /\ file[f].ref > 0 <=> \/ \E p \in Procs, fd \in Fds : ofile[p][fd] = f
                                \/ \E p \in Procs, i \in Slots : th[p].f[i] = f
         /\ file[f].ref = 1 =>
              /\ \A p \in Procs, fd \in Fds, q \in Procs, i \in Slots :
                    ~(ofile[p][fd] = f /\ th[q].f[i] = f)
              /\ \A p \in Procs, i \in Slots, q \in Procs, j \in Slots :
                    th[p].f[i] = f /\ th[q].f[j] = f => p = q /\ i = j
              /\ \A p \in Procs, i \in Fds, q \in Procs, j \in Fds :
                    ofile[p][i] = f /\ ofile[q][j] = f => p = q /\ i = j
<1> DEFINE A == Places(ofile, Fds, f)
           B == Places(Hands, Slots, f)
<1>1. IsFiniteSet(A) /\ Cardinality(A) \in Nat /\ IsFiniteSet(B) /\ Cardinality(B) \in Nat
  BY PlacesFinite, Indices
<1>2. file[f].ref = Cardinality(A) + Cardinality(B)
  BY DEF RefsExact
<1>3. \A p \in Procs, fd \in Fds : ofile[p][fd] = f <=> <<p, fd>> \in A
  BY DEF Places
<1>4. \A p \in Procs, i \in Slots : th[p].f[i] = f <=> <<p, i>> \in B
  BY DEF Places, Hands
<1>5. A # {} <=> \E p \in Procs, fd \in Fds : ofile[p][fd] = f
  <2>1. \A x \in A : x[1] \in Procs /\ x[2] \in Fds /\ ofile[x[1]][x[2]] = f
    BY DEF Places
  <2> HIDE DEF A
  <2>2. CASE A # {}
    <3>1. PICK x : x \in A
      BY <2>2
    <3> QED
      BY <2>1, <2>2, <3>1
  <2>3. CASE A = {}
    BY <2>3, <1>3
  <2> QED
    BY <2>2, <2>3
<1>6. B # {} <=> \E p \in Procs, i \in Slots : th[p].f[i] = f
  <2>1. \A x \in B : x[1] \in Procs /\ x[2] \in Slots /\ th[x[1]].f[x[2]] = f
    BY DEF Places, Hands
  <2> HIDE DEF B
  <2>2. CASE B # {}
    <3>1. PICK x : x \in B
      BY <2>2
    <3> QED
      BY <2>1, <2>2, <3>1
  <2>3. CASE B = {}
    BY <2>3, <1>4
  <2> QED
    BY <2>2, <2>3
<1> HIDE DEF A, B
<1>7. (Cardinality(A) = 0 <=> A = {}) /\ (Cardinality(B) = 0 <=> B = {})
  BY <1>1, FS_EmptySet
<1>8. file[f].ref \in Nat /\ (file[f].ref > 0 <=> A # {} \/ B # {})
  BY <1>1, <1>2, <1>7
<1>9. ASSUME file[f].ref = 1
      PROVE  /\ ~(A # {} /\ B # {})
             /\ \A x, y \in A : x = y
             /\ \A x, y \in B : x = y
  <2>1. Cardinality(A) <= 1 /\ Cardinality(B) <= 1 /\ ~(A # {} /\ B # {})
    BY <1>1, <1>2, <1>7, <1>9
  <2> QED
    BY <2>1, <1>1, PlacesOne
<1>10. ASSUME file[f].ref = 1
       PROVE  /\ \A p \in Procs, fd \in Fds, q \in Procs, i \in Slots :
                    ~(ofile[p][fd] = f /\ th[q].f[i] = f)
              /\ \A p \in Procs, i \in Slots, q \in Procs, j \in Slots :
                    th[p].f[i] = f /\ th[q].f[j] = f => p = q /\ i = j
              /\ \A p \in Procs, i \in Fds, q \in Procs, j \in Fds :
                    ofile[p][i] = f /\ ofile[q][j] = f => p = q /\ i = j
  <2>1. \A p \in Procs, fd \in Fds, q \in Procs, i \in Slots :
                    ~(ofile[p][fd] = f /\ th[q].f[i] = f)
    BY <1>9, <1>10, <1>3, <1>4
  <2>2. ASSUME NEW p \in Procs, NEW i \in Slots, NEW q \in Procs, NEW j \in Slots,
               th[p].f[i] = f, th[q].f[j] = f
        PROVE  p = q /\ i = j
    <3>1. <<p, i>> = <<q, j>>
      BY <2>2, <1>9, <1>10, <1>4
    <3> QED
      BY <3>1
  <2>3. ASSUME NEW p \in Procs, NEW i \in Fds, NEW q \in Procs, NEW j \in Fds,
               ofile[p][i] = f, ofile[q][j] = f
        PROVE  p = q /\ i = j
    <3>1. <<p, i>> = <<q, j>>
      BY <2>3, <1>9, <1>10, <1>3
    <3> QED
      BY <3>1
  <2> QED
    BY <2>1, <2>2, <2>3
<1> QED
  BY <1>5, <1>6, <1>8, <1>10

\* The references to f from descriptors, and from the hands of calls.
nFd(f) == Cardinality(Places(ofile, Fds, f))
nHand(f) == Cardinality(Places(Hands, Slots, f))
Is(a, b) == IF a = b THEN 1 ELSE 0

\* They are numbers, and add up to f->ref.
LEMMA RefsSum ==
  ASSUME RefsExact, NEW f \in Files
  PROVE  nFd(f) \in Nat /\ nHand(f) \in Nat /\ file[f].ref = nFd(f) + nHand(f)
<1>1. nFd(f) \in Nat /\ nHand(f) \in Nat
  BY PlacesFinite, Indices DEF nFd, nHand
<1> QED
  BY <1>1 DEF RefsExact, nFd, nHand

\* A descriptor is set.
LEMMA FdSet ==
  ASSUME TypeOK, NEW p \in Procs, NEW fd \in Fds, NEW v,
         ofile' = [ofile EXCEPT ![p][fd] = v]
  PROVE  \A f \in Files : nFd(f)' = (nFd(f) - Is(ofile[p][fd], f)) + Is(v, f)
<1> TAKE f \in Files
<1>1. IsTable(ofile, Fds) /\ IsSetAt(ofile', ofile, p, fd, v)
  BY DEF TypeOK, IsTable, IsSetAt
<1>2. Cardinality(Places(ofile', Fds, f)) =
         (Cardinality(Places(ofile, Fds, f)) - (IF ofile[p][fd] = f THEN 1 ELSE 0))
         + (IF v = f THEN 1 ELSE 0)
  BY <1>1, Indices, PlacesSet
<1>3. nFd(f)' = Cardinality(Places(ofile', Fds, f))
  BY DEF nFd, Places
<1> QED
  BY <1>2, <1>3 DEF nFd, Is

\* A local variable of a call is set.
LEMMA HandSet ==
  ASSUME TypeOK, NEW p \in Procs, NEW i \in Slots, NEW v,
         \A q \in Procs : th'[q].f = IF q = p THEN [th[p].f EXCEPT ![i] = v] ELSE th[q].f
  PROVE  \A f \in Files : nHand(f)' = (nHand(f) - Is(th[p].f[i], f)) + Is(v, f)
<1> TAKE f \in Files
<1>1. IsTable(Hands, Slots)
  BY DEF TypeOK, ThreadType, Hands, IsTable
<1>2. IsSetAt(Hands', Hands, p, i, v)
  BY DEF Hands, IsSetAt
<1>3. Hands[p][i] = th[p].f[i]
  BY DEF Hands
<1>4. Cardinality(Places(Hands', Slots, f)) =
         (Cardinality(Places(Hands, Slots, f)) - (IF Hands[p][i] = f THEN 1 ELSE 0))
         + (IF v = f THEN 1 ELSE 0)
  BY <1>1, <1>2, Indices, PlacesSet
<1>5. nHand(f)' = Cardinality(Places(Hands', Slots, f))
  BY DEF nHand, Places
<1> QED
  BY <1>3, <1>4, <1>5 DEF nHand, Is

\* No descriptor, or no local variable, is set.
LEMMA FdSame ==
  ASSUME ofile' = ofile
  PROVE  \A f \in Files : nFd(f)' = nFd(f)
  BY DEF nFd, Places

\* The hands of the calls stay the same.
LEMMA HandSame ==
  ASSUME \A q \in Procs : th'[q].f = th[q].f
  PROVE  \A f \in Files : nHand(f)' = nHand(f)
<1>1. Hands' = Hands
  BY DEF Hands
<1> QED
  BY <1>1 DEF nHand, Places

\* The counts that a step has to reach.
LEMMA RefsReach ==
  ASSUME \A f \in Files : file'[f].ref = nFd(f)' + nHand(f)'
  PROVE  RefsExact'
  BY DEF RefsExact, nFd, nHand

-----------------------------------------------------------------------------
(* What steps leave alone. *)

\* The invariant that the theorems rest on.
PipeInv == FilesInv /\ Fifo /\ SleepJustified

\* No end of a pipe is opened or closed.
LEMMA EndsKept ==
  ASSUME PipePageOwned, EndsUnique,
         \A f \in Files, g \in Pages, w \in BOOLEAN :
            IsEnd(file'[f], g, w) <=> IsEnd(file[f], g, w),
         \A q \in Procs, g \in Pages, w \in BOOLEAN :
            IsEnd(th'[q].ff, g, w) <=> IsEnd(th[q].ff, g, w),
         \A g \in Pages : /\ pipe'[g].alloc = pipe[g].alloc
                          /\ pipe'[g].readopen = pipe[g].readopen
                          /\ pipe'[g].writeopen = pipe[g].writeopen
  PROVE  PipePageOwned' /\ EndsUnique'
<1>1. \A g \in Pages, w \in BOOLEAN : End(g, w)' <=> End(g, w)
  <2> TAKE g \in Pages, w \in BOOLEAN
  <2>1. End(g, w)' <=> \/ \E f \in Files : IsEnd(file'[f], g, w)
                       \/ \E q \in Procs : IsEnd(th'[q].ff, g, w)
    BY DEF End, IsEnd
  <2>2. End(g, w) <=> \/ \E f \in Files : IsEnd(file[f], g, w)
                      \/ \E q \in Procs : IsEnd(th[q].ff, g, w)
    BY DEF End
  <2> QED
    BY <2>1, <2>2
<1>2. \A g \in Pages : (End(g, FALSE)' <=> End(g, FALSE)) /\ (End(g, TRUE)' <=> End(g, TRUE))
  BY <1>1
<1>3. PipePageOwned'
  <2> SUFFICES ASSUME NEW g \in Pages
               PROVE  /\ pipe'[g].readopen = End(g, FALSE)'
                      /\ pipe'[g].writeopen = End(g, TRUE)'
                      /\ pipe'[g].alloc = (End(g, FALSE)' \/ End(g, TRUE)')
    BY DEF PipePageOwned
  <2>1. /\ pipe[g].readopen = End(g, FALSE)
        /\ pipe[g].writeopen = End(g, TRUE)
        /\ pipe[g].alloc = (End(g, FALSE) \/ End(g, TRUE))
    BY DEF PipePageOwned
  <2>2. End(g, FALSE) \in BOOLEAN /\ End(g, TRUE) \in BOOLEAN
        /\ End(g, FALSE)' \in BOOLEAN /\ End(g, TRUE)' \in BOOLEAN
    BY DEF End
  <2> QED
    BY <2>1, <2>2, <1>2
<1>4. EndsUnique'
  <2> SUFFICES ASSUME NEW g \in Pages, NEW w \in BOOLEAN
               PROVE  /\ \A f, h \in Files : IsEnd(file'[f], g, w) /\ IsEnd(file'[h], g, w)
                                                => f = h
                      /\ \A p, q \in Procs : IsEnd(th'[p].ff, g, w) /\ IsEnd(th'[q].ff, g, w)
                                                => p = q
                      /\ \A f \in Files, p \in Procs :
                            ~(IsEnd(file'[f], g, w) /\ IsEnd(th'[p].ff, g, w))
    BY DEF EndsUnique, IsEnd
  <2>1. /\ \A f, h \in Files : IsEnd(file[f], g, w) /\ IsEnd(file[h], g, w) => f = h
        /\ \A p, q \in Procs : IsEnd(th[p].ff, g, w) /\ IsEnd(th[q].ff, g, w) => p = q
        /\ \A f \in Files, p \in Procs : ~(IsEnd(file[f], g, w) /\ IsEnd(th[p].ff, g, w))
    BY DEF EndsUnique
  <2> QED
    BY <2>1
<1> QED
  BY <1>3, <1>4

\* No process enters or leaves a pipe, and those inside keep their descriptor.
LEMMA InsideKept ==
  ASSUME InsideSound,
         \A q \in Procs : \/ th'[q].pc = th[q].pc /\ th'[q].pipe = th[q].pipe
                          \/ /\ th[q].pipe = 0 /\ th'[q].pipe = 0
                             /\ th'[q].pc \notin Reading \union Writing,
         \A q \in Procs, fd \in Fds : th[q].pipe # 0 /\ ofile[q][fd] # 0 =>
            /\ ofile'[q][fd] = ofile[q][fd]
            /\ file'[ofile[q][fd]].type = file[ofile[q][fd]].type
            /\ file'[ofile[q][fd]].pipe = file[ofile[q][fd]].pipe
            /\ file'[ofile[q][fd]].writable = file[ofile[q][fd]].writable,
         \A g \in Pages : pipe'[g].lock = pipe[g].lock
  PROVE  InsideSound'
<1> SUFFICES ASSUME NEW q \in Procs
             PROVE  /\ (th'[q].pipe # 0) = (th'[q].pc \in Reading \union Writing)
                    /\ th'[q].pipe # 0 => \E fd \in Fds :
                          ofile'[q][fd] # 0
                          /\ IsEnd(file'[ofile'[q][fd]], th'[q].pipe, th'[q].pc \in Writing)
                    /\ \A g \in Pages : (pipe'[g].lock = q) =
                          (/\ th'[q].pc \in {"read_sleep", "write_sleep"}
                           /\ th'[q].pipe = g)
  BY DEF InsideSound, IsEnd
<1>1. /\ (th[q].pipe # 0) = (th[q].pc \in Reading \union Writing)
      /\ th[q].pipe # 0 => \E fd \in Fds :
            ofile[q][fd] # 0
            /\ IsEnd(file[ofile[q][fd]], th[q].pipe, th[q].pc \in Writing)
      /\ \A g \in Pages : (pipe[g].lock = q) =
            (/\ th[q].pc \in {"read_sleep", "write_sleep"}
             /\ th[q].pipe = g)
  BY DEF InsideSound
<1>2. CASE th'[q].pc = th[q].pc /\ th'[q].pipe = th[q].pipe
  <2>1. th[q].pipe # 0 => \E fd \in Fds :
            ofile'[q][fd] # 0
            /\ IsEnd(file'[ofile'[q][fd]], th[q].pipe, th[q].pc \in Writing)
    BY <1>1 DEF IsEnd
  <2> QED
    BY <1>1, <1>2, <2>1
<1>3. CASE /\ th[q].pipe = 0 /\ th'[q].pipe = 0
           /\ th'[q].pc \notin Reading \union Writing
  <2>1. th[q].pc \notin {"read_sleep", "write_sleep"} /\ th'[q].pc \notin {"read_sleep", "write_sleep"}
    BY <1>1, <1>3 DEF Reading, Writing
  <2>a. \A g \in Pages : pipe[g].lock = q => th[q].pc \in {"read_sleep", "write_sleep"}
    BY <1>1
  <2>2. \A g \in Pages : pipe'[g].lock # q
    BY <2>1, <2>a
  <2>3. (th'[q].pipe # 0) = (th'[q].pc \in Reading \union Writing)
    BY <1>3
  <2>4. \A g \in Pages : (pipe'[g].lock = q) =
            (/\ th'[q].pc \in {"read_sleep", "write_sleep"}
             /\ th'[q].pipe = g)
    BY <2>1, <2>2
  <2> QED
    BY <1>3, <2>3, <2>4
<1> QED
  BY <1>2, <1>3

\* The places of a call that SleepJustified speaks about.
Sleeping == {"read_sleep", "nread", "write_sleep", "nwrite"}

\* No process goes to sleep, and no byte is written or read.
LEMMA SleepKept ==
  ASSUME SleepJustified, pipe' = pipe, killed' = {} => killed = {},
         \A q \in Procs : \/ th'[q].pc = th[q].pc /\ th'[q].pipe = th[q].pipe
                          \/ th'[q].pc \notin Sleeping
  PROVE  SleepJustified'
  BY DEF SleepJustified, Count, Sleeping

\* No pipe changes.
LEMMA FifoKept ==
  ASSUME Fifo, pipe' = pipe
  PROVE  Fifo'
  BY DEF Fifo, Count, copyout

\* The references to inodes stay what they are.
LEMMA InodesKept ==
  ASSUME InodeRefsExact, iref' = iref,
         \A f \in Files : file'[f].type = "inode" <=> file[f].type = "inode",
         \A q \in Procs : th'[q].ff.type = "inode" <=> th[q].ff.type = "inode"
  PROVE  InodeRefsExact'
<1>1. {f \in Files : file'[f].type = "inode"} = {f \in Files : file[f].type = "inode"}
  OBVIOUS
<1>2. {q \in Procs : th'[q].ff.type = "inode"} = {q \in Procs : th[q].ff.type = "inode"}
  OBVIOUS
<1> QED
  BY <1>1, <1>2 DEF InodeRefsExact

\* A process that the step does not touch keeps what it has in hand.
LEMMA HandKept ==
  ASSUME NEW q \in Procs, HandSound(q),
         /\ th'[q].f = th[q].f /\ th'[q].closing = th[q].closing /\ th'[q].ff = th[q].ff
         /\ ofile'[q] = ofile[q]
         /\ \/ th'[q].pc = th[q].pc
            \/ th[q].pc \in Reading \union Writing /\ th'[q].pc \in Reading \union Writing
         /\ \A i \in Slots : ~th[q].closing /\ th[q].f[i] # 0 =>
               /\ file'[th[q].f[i]].ref = file[th[q].f[i]].ref
               /\ file'[th[q].f[i]].type = file[th[q].f[i]].type
  PROVE  HandSound(q)'
  BY DEF HandSound, Reading, Writing

\* The fields of a process at rest in a call.
LEMMA AtFacts ==
  ASSUME PipeInv, NEW p \in Procs, NEW pc, At(p, pc), pc \notin Reading \union Writing
  PROVE  /\ th[p].pc = pc /\ th[p].closing = FALSE /\ th[p].ff = NoFile /\ th[p].pipe = 0
         /\ th[p].f[1] # 0 <=> pc \in {"pipe1", "pipe2"}
         /\ th[p].f[2] # 0 <=> pc = "pipe2"
         /\ \A i \in Slots : th[p].f[i] # 0 =>
               file[th[p].f[i]].ref = 1 /\ file[th[p].f[i]].type = "none"
<1>1. th[p].closing \in BOOLEAN
  BY DEF PipeInv, FilesInv, TypeOK, ThreadType
<1>2. HandSound(p)
  BY DEF PipeInv, FilesInv, HandsSound
<1>3. (th[p].pipe # 0) = (th[p].pc \in Reading \union Writing)
  BY DEF PipeInv, FilesInv, InsideSound
<1> QED
  BY <1>1, <1>2, <1>3 DEF At, HandSound

\* What filealloc() returns.
LEMMA Filealloc ==
  ASSUME PipeInv, FreeFile # {}
  PROVE  /\ filealloc \in Files /\ file[filealloc] = NoFile /\ filealloc # 0
         /\ \A q \in Procs, fd \in Fds : ofile[q][fd] # filealloc
         /\ \A q \in Procs, i \in Slots : th[q].f[i] # filealloc
<1>1. FreeFile \subseteq Files /\ \A f \in FreeFile : file[f].ref = 0
  BY DEF FreeFile
<1>2. filealloc \in FreeFile
  BY <1>1, Indices, MinIn DEF filealloc
<1>3. filealloc \in Files /\ file[filealloc].ref = 0 /\ filealloc # 0
  BY <1>1, <1>2, Indices
<1>4. file[filealloc] = NoFile
  BY <1>3 DEF PipeInv, FilesInv, FilesSound
<1>5. TypeOK /\ RefsExact
  BY DEF PipeInv, FilesInv
<1>6. ASSUME NEW f \in Files, file[f].ref = 0
      PROVE  /\ \A q \in Procs, fd \in Fds : ofile[q][fd] # f
             /\ \A q \in Procs, i \in Slots : th[q].f[i] # f
  BY <1>5, <1>6, RefsAre
<1> QED
  BY <1>3, <1>4, <1>6

-----------------------------------------------------------------------------
(* One lemma per step. *)

\* A step of p leaves alone the ends of pipes and what other processes hold.
EndsAlone(p, t) ==
  /\ \A f \in Files, g \in Pages, w \in BOOLEAN :
        IsEnd(file'[f], g, w) <=> IsEnd(file[f], g, w)
  /\ \A g \in Pages, w \in BOOLEAN : IsEnd(t.ff, g, w) <=> IsEnd(th[p].ff, g, w)

\* Other processes keep their descriptors, and what those and their calls hold.
OthersAlone(p) ==
  /\ \A q \in Procs : q # p => ofile'[q] = ofile[q]
  /\ \A q \in Procs, fd \in Fds : q # p /\ ofile[q][fd] # 0 =>
        /\ file'[ofile[q][fd]].type = file[ofile[q][fd]].type
        /\ file'[ofile[q][fd]].pipe = file[ofile[q][fd]].pipe
        /\ file'[ofile[q][fd]].writable = file[ofile[q][fd]].writable
  /\ \A q \in Procs, i \in Slots : q # p /\ ~th[q].closing /\ th[q].f[i] # 0 =>
        /\ file'[th[q].f[i]].ref = file[th[q].f[i]].ref
        /\ file'[th[q].f[i]].type = file[th[q].f[i]].type

\* The tables keep their types.
Typed == file' \in [Files -> FileType] /\ ofile' \in [Procs -> [Fds -> 0..NFILE]] /\ iref' \in Nat

\* A step of process p outside piperead() and pipewrite() that changes no
\* pipe: what is left to show is about p, the ends of pipes and the counts.
LEMMA FileStep ==
  ASSUME PipeInv, NEW p \in Procs, NEW t \in ThreadType, th' = [th EXCEPT ![p] = t],
         pipe' = pipe, killed' = killed, Typed, OthersAlone(p),
         th[p].pipe = 0, t.pipe = 0, t.pc \notin Reading \union Writing,
         RefsExact', InodeRefsExact', PipePageOwned', EndsUnique', FilesSound', HandSound(p)'
  PROVE  PipeInv'
<1>0. TypeOK /\ HandsSound /\ InsideSound /\ Fifo /\ SleepJustified
  BY DEF PipeInv, FilesInv
<1>1. th'[p] = t /\ (\A q \in Procs : q # p => th'[q] = th[q]) /\ th' \in [Procs -> ThreadType]
  BY <1>0 DEF TypeOK
<1>2. TypeOK'
  BY <1>0, <1>1 DEF TypeOK, Typed
<1>3. HandsSound'
  <2>1. ASSUME NEW q \in Procs, q # p PROVE HandSound(q)'
    <3>1. HandSound(q) /\ th'[q] = th[q] /\ ofile'[q] = ofile[q]
      BY <2>1, <1>0, <1>1 DEF HandsSound, OthersAlone
    <3>2. \A i \in Slots : ~th[q].closing /\ th[q].f[i] # 0 =>
             /\ file'[th[q].f[i]].ref = file[th[q].f[i]].ref
             /\ file'[th[q].f[i]].type = file[th[q].f[i]].type
      BY <2>1 DEF OthersAlone
    <3> QED
      BY <3>1, <3>2, HandKept
  <2> QED
    BY <2>1 DEF HandsSound
<1>4. InsideSound'
  <2>1. \A q \in Procs : \/ th'[q].pc = th[q].pc /\ th'[q].pipe = th[q].pipe
                         \/ /\ th[q].pipe = 0 /\ th'[q].pipe = 0
                            /\ th'[q].pc \notin Reading \union Writing
    BY <1>1
  <2>2. \A q \in Procs, fd \in Fds : th[q].pipe # 0 /\ ofile[q][fd] # 0 =>
            /\ ofile'[q][fd] = ofile[q][fd]
            /\ file'[ofile[q][fd]].type = file[ofile[q][fd]].type
            /\ file'[ofile[q][fd]].pipe = file[ofile[q][fd]].pipe
            /\ file'[ofile[q][fd]].writable = file[ofile[q][fd]].writable
    BY DEF OthersAlone
  <2> QED
    BY <1>0, <2>1, <2>2, InsideKept
<1>5. Fifo'
  BY <1>0, FifoKept
<1>6. SleepJustified'
  <2>1. \A q \in Procs : \/ th'[q].pc = th[q].pc /\ th'[q].pipe = th[q].pipe
                         \/ th'[q].pc \notin Sleeping
    BY <1>1 DEF Sleeping, Reading, Writing
  <2> QED
    BY <1>0, <2>1, SleepKept
<1> QED
  BY <1>2, <1>3, <1>4, <1>5, <1>6 DEF PipeInv, FilesInv

\* The same for a step that opens or closes no end of a pipe.
LEMMA CallStep ==
  ASSUME PipeInv, NEW p \in Procs, NEW t \in ThreadType, th' = [th EXCEPT ![p] = t],
         pipe' = pipe, killed' = killed, Typed, EndsAlone(p, t), OthersAlone(p),
         th[p].pipe = 0, t.pipe = 0, t.pc \notin Reading \union Writing,
         RefsExact', InodeRefsExact', FilesSound', HandSound(p)'
  PROVE  PipeInv'
<1>0. TypeOK /\ PipePageOwned /\ EndsUnique
  BY DEF PipeInv, FilesInv
<1>1. th'[p] = t /\ (\A q \in Procs : q # p => th'[q] = th[q])
  BY <1>0 DEF TypeOK
<1>2. \A q \in Procs, g \in Pages, w \in BOOLEAN :
          IsEnd(th'[q].ff, g, w) <=> IsEnd(th[q].ff, g, w)
  BY <1>1 DEF EndsAlone
<1>3. \A f \in Files, g \in Pages, w \in BOOLEAN :
          IsEnd(file'[f], g, w) <=> IsEnd(file[f], g, w)
  BY DEF EndsAlone
<1>4. PipePageOwned' /\ EndsUnique'
  BY <1>0, <1>2, <1>3, EndsKept
<1> QED
  BY <1>4, FileStep

-----------------------------------------------------------------------------
(* The steps of pipe(), open(), dup(), close(), fork() and exit(). *)

\* A file that nothing leads to.
IsFresh(a) == /\ a \in Files /\ file[a] = NoFile /\ a # 0
              /\ \A q \in Procs, fd \in Fds : ofile[q][fd] # a
              /\ \A q \in Procs, i \in Slots : th[q].f[i] # a

\* The parts of the invariant.
LEMMA Parts ==
  ASSUME PipeInv
  PROVE  /\ TypeOK /\ RefsExact /\ InodeRefsExact /\ PipePageOwned
         /\ EndsUnique /\ FilesSound /\ HandsSound /\ InsideSound /\ Fifo /\ SleepJustified
         /\ file \in [Files -> FileType] /\ ofile \in [Procs -> [Fds -> 0..NFILE]]
         /\ th \in [Procs -> ThreadType] /\ pipe \in [Pages -> PipeType]
         /\ iref \in Nat /\ killed \subseteq Procs
         /\ \A q \in Procs : HandSound(q)
  BY DEF PipeInv, FilesInv, TypeOK, HandsSound

\* Files that descriptors and calls lead to.
LEMMA HeldFiles ==
  ASSUME PipeInv
  PROVE  /\ \A q \in Procs, fd \in Fds : ofile[q][fd] # 0 => ofile[q][fd] \in Files
         /\ \A q \in Procs, i \in Slots : th[q].f[i] # 0 => th[q].f[i] \in Files
  BY Parts, Indices DEF ThreadType

\* A call takes a fresh file into slot i.
LEMMA AllocStep ==
  ASSUME PipeInv, NEW p \in Procs, NEW i \in Slots, NEW a, IsFresh(a),
         NEW t \in ThreadType, th' = [th EXCEPT ![p] = t],
         NEW r \in FileType, file' = [file EXCEPT ![a] = r], r.ref = 1, r.type = "none",
         th[p].ff = NoFile, th[p].pipe = 0, th[p].f[i] = 0,
         t.f = [th[p].f EXCEPT ![i] = a], t.ff = NoFile, t.pipe = 0,
         th[p].closing = FALSE, t.pc \notin Reading \union Writing \union {"free", "zombie"},
         \/ t.closing = TRUE /\ t.pc = "user"
         \/ /\ t.closing = FALSE
            /\ \/ t.pc = "pipe1" /\ i = 1 /\ th[p].f[2] = 0
               \/ t.pc = "pipe2" /\ i = 2 /\ th[p].f[1] # 0,
         UNCHANGED <<ofile, pipe, iref, killed>>
  PROVE  PipeInv'
<1>1. a \in Files /\ file[a] = NoFile /\ a # 0
      /\ (\A q \in Procs, fd \in Fds : ofile[q][fd] # a)
      /\ \A q \in Procs, j \in Slots : th[q].f[j] # a
  BY DEF IsFresh
<1>2. /\ file'[a] = r /\ \A f \in Files : f # a => file'[f] = file[f]
      /\ th'[p] = t /\ \A q \in Procs : q # p => th'[q] = th[q]
      /\ file' \in [Files -> FileType] /\ a \in 0..NFILE
  BY <1>1, Parts, Indices
<1>3. th[p].f \in [Slots -> 0..NFILE] /\ t.f[i] = a
      /\ \A j \in Slots : j # i => t.f[j] = th[p].f[j]
  BY Parts DEF ThreadType
<1>4. file[a].type = "none" /\ file[a].ref = 0
  BY <1>1 DEF NoFile
<1>5. RefsExact'
  <2>1. \A f \in Files : nFd(f)' = nFd(f)
    BY FdSame
  <2>2. \A f \in Files : nHand(f)' = (nHand(f) - Is(th[p].f[i], f)) + Is(a, f)
    <3>1. \A q \in Procs : th'[q].f = IF q = p THEN [th[p].f EXCEPT ![i] = a] ELSE th[q].f
      BY <1>2
    <3> QED
      BY Parts, <3>1, HandSet
  <2>3. ASSUME NEW f \in Files PROVE file'[f].ref = nFd(f)' + nHand(f)'
    <3>1. nFd(f) \in Nat /\ nHand(f) \in Nat /\ file[f].ref = nFd(f) + nHand(f)
      BY Parts, RefsSum
    <3>2. Is(th[p].f[i], f) = 0
      BY Indices DEF Is
    <3>3. nHand(f)' = nHand(f) + Is(a, f) /\ Is(a, f) \in Nat
      BY <2>2, <3>1, <3>2 DEF Is
    <3>4. CASE f = a
      BY <2>1, <3>1, <3>3, <3>4, <1>2, <1>4 DEF Is
    <3>5. CASE f # a
      <4>1. file'[f].ref = file[f].ref /\ Is(a, f) = 0
        BY <3>5, <1>2 DEF Is
      <4> QED
        BY <2>1, <3>1, <3>3, <4>1
    <3> QED
      BY <3>4, <3>5
  <2> QED
    BY <2>3, RefsReach
<1>6. InodeRefsExact'
  <2>1. \A f \in Files : file'[f].type = "inode" <=> file[f].type = "inode"
    BY <1>2, <1>4
  <2>2. \A q \in Procs : th'[q].ff.type = "inode" <=> th[q].ff.type = "inode"
    BY <1>2
  <2> QED
    BY Parts, <2>1, <2>2, InodesKept
<1>7. EndsAlone(p, t)
  BY <1>2, <1>4 DEF EndsAlone, IsEnd
<1>8. FilesSound'
  <2>1. FilesSound
    BY Parts
  <2> QED
    BY <2>1, <1>1, <1>2, HeldFiles DEF FilesSound
<1>9. HandSound(p)'
  <2>1. HandSound(p) /\ Slots = {1, 2}
    BY Parts, Indices
  <2>2. \A j \in Slots : th[p].f[j] # 0 => th[p].f[j] \in Files /\ th[p].f[j] # a
    BY <1>1, HeldFiles
  <2>3. \A j \in Slots : j # i /\ th[p].f[j] # 0 =>
           file'[t.f[j]].ref = 1 /\ file'[t.f[j]].type = "none"
    <3>1. \A j \in Slots : th[p].f[j] # 0 =>
           file[th[p].f[j]].ref = 1 /\ file[th[p].f[j]].type = "none"
      BY <2>1 DEF HandSound
    <3> QED
      BY <3>1, <2>2, <1>2, <1>3
  <2>4. NoFile.type = "none"
    BY DEF NoFile
  <2> QED
    BY <2>1, <2>3, <2>4, <1>1, <1>2, <1>3 DEF HandSound
<1>10. OthersAlone(p)
  <2>1. \A q \in Procs, fd \in Fds : ofile[q][fd] # 0 =>
           file'[ofile[q][fd]] = file[ofile[q][fd]]
    BY <1>1, <1>2, HeldFiles
  <2>2. \A q \in Procs, j \in Slots : th[q].f[j] # 0 => file'[th[q].f[j]] = file[th[q].f[j]]
    BY <1>1, <1>2, HeldFiles
  <2> QED
    BY <2>1, <2>2 DEF OthersAlone
<1>11. Typed
  BY <1>2, Parts DEF Typed
<1> QED
  BY <1>5, <1>6, <1>7, <1>8, <1>9, <1>10, <1>11, CallStep

\* filealloc() hands out a fresh file.
LEMMA FileallocFresh ==
  ASSUME PipeInv, FreeFile # {}
  PROVE  IsFresh(filealloc)
  BY Filealloc DEF IsFresh

\* f->ref is set.
LEMMA RefSet ==
  ASSUME NEW r \in FileType, NEW n \in Nat
  PROVE  LET u == [r EXCEPT !.ref = n]
         IN  /\ u \in FileType /\ u.ref = n /\ u.type = r.type
             /\ u.pipe = r.pipe /\ u.writable = r.writable
  BY DEF FileType

\* A fresh file with a reference.
LEMMA FreshRef ==
  ASSUME PipeInv, NEW a, IsFresh(a)
  PROVE  LET r == [file[a] EXCEPT !.ref = 1]
         IN  r \in FileType /\ r.ref = 1 /\ r.type = "none"
<1>1. file[a] \in FileType /\ file[a] = NoFile
  BY Parts DEF IsFresh
<1>2. NoFile.type = "none"
  BY DEF NoFile
<1> QED
  BY <1>1, <1>2, RefSet

\* A step of sys_pipe().
LEMMA SysPipeStep ==
  ASSUME PipeInv, NEW p \in Procs, sys_pipe(p)
  PROVE  PipeInv'
<1> DEFINE a == filealloc
           t == [th[p] EXCEPT !.pc = "pipe1", !.f[1] = a]
           r == [file[a] EXCEPT !.ref = 1]
<1>1. At(p, "user") /\ FreeFile # {}
  BY DEF sys_pipe, Call
<1>2. /\ th' = [th EXCEPT ![p] = t] /\ file' = [file EXCEPT ![a] = r]
      /\ UNCHANGED <<ofile, pipe, iref, killed>>
  BY DEF sys_pipe
<1>3. IsFresh(a)
  BY <1>1, FileallocFresh
<1> HIDE DEF a
<1>4. /\ th[p].pc = "user" /\ th[p].closing = FALSE /\ th[p].ff = NoFile /\ th[p].pipe = 0
      /\ th[p].f[1] = 0 /\ th[p].f[2] = 0
  BY <1>1, AtFacts DEF Reading, Writing
<1>5. th[p] \in ThreadType /\ a \in 0..NFILE /\ 1 \in Slots
  BY <1>3, Parts, Indices DEF IsFresh
<1>6. /\ t \in ThreadType /\ t.pc = "pipe1" /\ t.closing = FALSE /\ t.ff = NoFile
      /\ t.pipe = 0 /\ t.f = [th[p].f EXCEPT ![1] = a]
  BY <1>4, <1>5 DEF ThreadType, Reading, Writing
<1>7. r \in FileType /\ r.ref = 1 /\ r.type = "none"
  BY <1>3, FreshRef
<1>8. t.pc \notin Reading \union Writing \union {"free", "zombie"}
  BY <1>6 DEF Reading, Writing
<1> HIDE DEF t, r
<1> QED
  BY <1>2, <1>3, <1>4, <1>5, <1>6, <1>7, <1>8, AllocStep

\* A call that changes no file, descriptor or pipe, and whose files in hand
\* stay the same.
LEMMA MoveStep ==
  ASSUME PipeInv, NEW p \in Procs, NEW t \in ThreadType, th' = [th EXCEPT ![p] = t],
         UNCHANGED <<file, ofile, pipe, iref, killed>>,
         th[p].pipe = 0, t.pipe = 0, t.pc \notin Reading \union Writing,
         t.f = th[p].f, t.ff = th[p].ff, HandSound(p)'
  PROVE  PipeInv'
<1>1. /\ th'[p] = t /\ \A q \in Procs : q # p => th'[q] = th[q]
  BY Parts
<1>2. RefsExact'
  <2>1. \A f \in Files : nFd(f)' = nFd(f)
    BY FdSame
  <2>2. \A f \in Files : nHand(f)' = nHand(f)
    <3>1. \A q \in Procs : th'[q].f = th[q].f
      BY <1>1
    <3> QED
      BY <3>1, HandSame
  <2>3. \A f \in Files : file[f].ref = nFd(f) + nHand(f)
    BY Parts, RefsSum
  <2>4. \A f \in Files : file'[f].ref = nFd(f)' + nHand(f)'
    BY <2>1, <2>2, <2>3
  <2> QED
    BY <2>4, RefsReach
<1>3. InodeRefsExact'
  <2>1. \A q \in Procs : th'[q].ff.type = "inode" <=> th[q].ff.type = "inode"
    BY <1>1
  <2>2. \A f \in Files : file'[f].type = "inode" <=> file[f].type = "inode"
    OBVIOUS
  <2> QED
    BY Parts, <2>1, <2>2, InodesKept
<1>4. EndsAlone(p, t) /\ OthersAlone(p)
  BY DEF EndsAlone, OthersAlone
<1>5. Typed
  BY Parts DEF Typed
<1>6. FilesSound'
  BY Parts DEF FilesSound
<1> QED
  BY <1>2, <1>3, <1>4, <1>5, <1>6, CallStep

\* The label bad: of pipealloc() and the failure of sys_pipe().
LEMMA BadStep ==
  ASSUME PipeInv, NEW p \in Procs, th[p].ff = NoFile, th[p].pipe = 0, th[p].f[1] # 0,
         th' = [th EXCEPT ![p] = [@ EXCEPT !.pc = "user", !.closing = TRUE]],
         UNCHANGED <<file, ofile, pipe, iref, killed>>
  PROVE  PipeInv'
<1> DEFINE t == [th[p] EXCEPT !.pc = "user", !.closing = TRUE]
<1>1. th[p] \in ThreadType
  BY Parts
<1>2. /\ t \in ThreadType /\ t.pc = "user" /\ t.closing = TRUE /\ t.ff = NoFile
      /\ t.pipe = 0 /\ t.f = th[p].f
  BY <1>1 DEF ThreadType
<1>3. t.pc \notin Reading \union Writing
  BY <1>2 DEF Reading, Writing
<1>4. th' = [th EXCEPT ![p] = t]
  OBVIOUS
<1> HIDE DEF t
<1>5. th'[p] = t
  BY <1>4, Parts
<1>6. HandSound(p)'
  <2>1. NoFile.type = "none"
    BY DEF NoFile
  <2> QED
    BY <1>2, <1>5, <2>1 DEF HandSound
<1> QED
  BY <1>2, <1>3, <1>4, <1>6, MoveStep

\* A step of pipealloc() at its second filealloc().
LEMMA PipeallocF1Step ==
  ASSUME PipeInv, NEW p \in Procs, pipealloc_f1(p)
  PROVE  PipeInv'
<1>1. At(p, "pipe1")
  BY DEF pipealloc_f1
<1>2. /\ th[p].pc = "pipe1" /\ th[p].closing = FALSE /\ th[p].ff = NoFile /\ th[p].pipe = 0
      /\ th[p].f[1] # 0 /\ th[p].f[2] = 0
  BY <1>1, AtFacts DEF Reading, Writing
<1>3. th[p] \in ThreadType /\ 2 \in Slots
  BY Parts, Indices
<1>4. ASSUME FreeFile # {},
             file' = [file EXCEPT ![filealloc].ref = 1],
             th' = [th EXCEPT ![p] = [@ EXCEPT !.pc = "pipe2", !.f[2] = filealloc]],
             UNCHANGED <<ofile, pipe, iref, killed>>
      PROVE  PipeInv'
  <2> DEFINE a == filealloc
             t == [th[p] EXCEPT !.pc = "pipe2", !.f[2] = a]
             r == [file[a] EXCEPT !.ref = 1]
  <2>1. /\ th' = [th EXCEPT ![p] = t] /\ file' = [file EXCEPT ![a] = r]
        /\ UNCHANGED <<ofile, pipe, iref, killed>>
    BY <1>4
  <2>2. IsFresh(a)
    BY <1>4, FileallocFresh
  <2> HIDE DEF a
  <2>3. a \in 0..NFILE
    BY <2>2, Indices DEF IsFresh
  <2>4. /\ t \in ThreadType /\ t.pc = "pipe2" /\ t.closing = FALSE /\ t.ff = NoFile
        /\ t.pipe = 0 /\ t.f = [th[p].f EXCEPT ![2] = a]
    BY <1>2, <1>3, <2>3 DEF ThreadType, Reading, Writing
  <2>5. r \in FileType /\ r.ref = 1 /\ r.type = "none"
    BY <2>2, FreshRef
  <2>6. t.pc \notin Reading \union Writing \union {"free", "zombie"}
    BY <2>4 DEF Reading, Writing
  <2> HIDE DEF t, r
  <2> QED
    BY <1>2, <1>3, <2>1, <2>2, <2>4, <2>5, <2>6, AllocStep
<1>5. ASSUME th' = [th EXCEPT ![p] = [@ EXCEPT !.pc = "user", !.closing = TRUE]],
             UNCHANGED <<file, ofile, pipe, iref, killed>>
      PROVE  PipeInv'
  BY <1>2, <1>5, BadStep
<1> QED
  BY <1>4, <1>5 DEF pipealloc_f1

\* A process outside its system calls.
LEMMA UserFacts ==
  ASSUME PipeInv, NEW p \in Procs, NEW pc, pc \in {"user", "exit"}, At(p, pc)
  PROVE  /\ th[p].pc = pc /\ th[p].closing = FALSE /\ th[p].ff = NoFile /\ th[p].pipe = 0
         /\ th[p].f[1] = 0 /\ th[p].f[2] = 0 /\ th[p] \in ThreadType
         /\ \A i \in Slots : th[p].f[i] = 0
<1>1. pc \notin Reading \union Writing /\ pc \notin {"pipe1", "pipe2"}
  BY DEF Reading, Writing
<1>2. /\ th[p].pc = pc /\ th[p].closing = FALSE /\ th[p].ff = NoFile /\ th[p].pipe = 0
      /\ th[p].f[1] = 0 /\ th[p].f[2] = 0
  BY <1>1, AtFacts
<1> QED
  BY <1>2, Parts, Indices

\* fdalloc() returns a free descriptor.
LEMMA FreeFdIn ==
  ASSUME NEW p, NEW S, S \subseteq FreeFd(p), S # {}
  PROVE  Min(S) \in Fds /\ ofile[p][Min(S)] = 0 /\ Min(S) \in S
<1>1. S \subseteq Fds /\ \A fd \in S : ofile[p][fd] = 0
  BY DEF FreeFd
<1>2. Min(S) \in S
  BY <1>1, Indices, MinIn
<1> QED
  BY <1>1, <1>2

\* A fresh file becomes an inode file behind a free descriptor.
LEMMA OpenStep ==
  ASSUME PipeInv, NEW p \in Procs, NEW a, IsFresh(a), NEW fd \in Fds, ofile[p][fd] = 0,
         th[p].pc = "user", th[p].closing = FALSE, th[p].ff = NoFile, th[p].pipe = 0,
         \A i \in Slots : th[p].f[i] = 0,
         NEW r \in FileType, file' = [file EXCEPT ![a] = r], r.ref = 1, r.type = "inode",
         ofile' = [ofile EXCEPT ![p][fd] = a], iref' = iref + 1,
         UNCHANGED <<pipe, killed, th>>
  PROVE  PipeInv'
<1>1. a \in Files /\ file[a] = NoFile /\ a # 0
      /\ (\A q \in Procs, d \in Fds : ofile[q][d] # a)
      /\ \A q \in Procs, j \in Slots : th[q].f[j] # a
  BY DEF IsFresh
<1>2. /\ file'[a] = r /\ \A f \in Files : f # a => file'[f] = file[f]
      /\ file' \in [Files -> FileType] /\ a \in 0..NFILE
  BY <1>1, Parts, Indices
<1>3. /\ ofile' \in [Procs -> [Fds -> 0..NFILE]]
      /\ ofile'[p][fd] = a /\ \A d \in Fds : d # fd => ofile'[p][d] = ofile[p][d]
      /\ \A q \in Procs : q # p => ofile'[q] = ofile[q]
  BY <1>2, Parts
<1>4. file[a].type = "none" /\ file[a].ref = 0
  BY <1>1 DEF NoFile
<1>5. RefsExact'
  <2>1. \A f \in Files : nFd(f)' = (nFd(f) - Is(ofile[p][fd], f)) + Is(a, f)
    BY Parts, FdSet
  <2>2. \A f \in Files : nHand(f)' = nHand(f)
    BY HandSame
  <2>3. ASSUME NEW f \in Files PROVE file'[f].ref = nFd(f)' + nHand(f)'
    <3>1. nFd(f) \in Nat /\ nHand(f) \in Nat /\ file[f].ref = nFd(f) + nHand(f)
      BY Parts, RefsSum
    <3>2. Is(ofile[p][fd], f) = 0
      BY Indices DEF Is
    <3>3. nFd(f)' = nFd(f) + Is(a, f) /\ Is(a, f) \in Nat
      BY <2>1, <3>1, <3>2 DEF Is
    <3>4. CASE f = a
      BY <2>2, <3>1, <3>3, <3>4, <1>2, <1>4 DEF Is
    <3>5. CASE f # a
      <4>1. file'[f].ref = file[f].ref /\ Is(a, f) = 0
        BY <3>5, <1>2 DEF Is
      <4> QED
        BY <2>2, <3>1, <3>3, <4>1
    <3> QED
      BY <3>4, <3>5
  <2> QED
    BY <2>3, RefsReach
<1>6. InodeRefsExact'
  <2> DEFINE S == {f \in Files : file[f].type = "inode"}
             T == {f \in Files : file'[f].type = "inode"}
             P == {q \in Procs : th[q].ff.type = "inode"}
  <2>1. IsFiniteSet(S) /\ Cardinality(S) \in Nat /\ a \notin S /\ T = S \union {a}
    BY <1>1, <1>2, <1>4, Indices, FS_Subset, FS_CardinalityType
  <2>2. Cardinality(T) = Cardinality(S) + 1
    BY <2>1, FS_AddElement
  <2>3. IsFiniteSet(P) /\ Cardinality(P) \in Nat
    BY Indices, FS_Subset, FS_CardinalityType
  <2>4. iref = Cardinality(S) + Cardinality(P)
    BY Parts DEF InodeRefsExact
  <2> HIDE DEF S, T, P
  <2>5. iref' = Cardinality(T) + Cardinality(P)
    BY <2>1, <2>2, <2>3, <2>4
  <2> QED
    BY <2>5 DEF T, P, InodeRefsExact
<1>7. EndsAlone(p, th[p])
  BY <1>2, <1>4 DEF EndsAlone, IsEnd
<1>8. FilesSound'
  <2>1. FilesSound
    BY Parts
  <2> QED
    BY <2>1, <1>1, <1>2, <1>3, HeldFiles DEF FilesSound
<1>9. HandSound(p)'
  <2>1. HandSound(p) /\ Slots = {1, 2}
    BY Parts, Indices
  <2> QED
    BY <2>1 DEF HandSound
<1>10. OthersAlone(p)
  <2>1. \A q \in Procs, d \in Fds : ofile[q][d] # 0 =>
           file'[ofile[q][d]] = file[ofile[q][d]]
    BY <1>1, <1>2, HeldFiles
  <2>2. \A q \in Procs, j \in Slots : th[q].f[j] # 0 => file'[th[q].f[j]] = file[th[q].f[j]]
    BY <1>1, <1>2, HeldFiles
  <2> QED
    BY <2>1, <2>2, <1>3 DEF OthersAlone
<1>11. Typed
  BY <1>2, <1>3, Parts DEF Typed
<1>12. th[p] \in ThreadType /\ th' = [th EXCEPT ![p] = th[p]]
       /\ th[p].pc \notin Reading \union Writing
  BY Parts DEF Reading, Writing
<1> QED
  BY <1>5, <1>6, <1>7, <1>8, <1>9, <1>10, <1>11, <1>12, CallStep

\* A step of sys_open().
LEMMA SysOpenStep ==
  ASSUME PipeInv, NEW p \in Procs, sys_open(p)
  PROVE  PipeInv'
<1> DEFINE a == filealloc
<1>1. At(p, "user") /\ FreeFile # {}
  BY DEF sys_open, Call
<1>2. IsFresh(a)
  BY <1>1, FileallocFresh
<1>3. /\ th[p].pc = "user" /\ th[p].closing = FALSE /\ th[p].ff = NoFile /\ th[p].pipe = 0
      /\ th[p].f[1] = 0 /\ th[p].f[2] = 0 /\ th[p] \in ThreadType
      /\ \A i \in Slots : th[p].f[i] = 0
  BY <1>1, UserFacts
<1>4. ASSUME file' = [file EXCEPT ![filealloc].ref = 1],
             th' = [th EXCEPT ![p] = [@ EXCEPT !.f[1] = filealloc, !.closing = TRUE]],
             UNCHANGED <<ofile, iref, pipe, killed>>
      PROVE  PipeInv'
  <2> DEFINE t == [th[p] EXCEPT !.f[1] = a, !.closing = TRUE]
             r == [file[a] EXCEPT !.ref = 1]
  <2>1. /\ th' = [th EXCEPT ![p] = t] /\ file' = [file EXCEPT ![a] = r]
        /\ UNCHANGED <<ofile, pipe, iref, killed>>
    BY <1>4
  <2> HIDE DEF a
  <2>2. a \in 0..NFILE /\ 1 \in Slots
    BY <1>2, Indices DEF IsFresh
  <2>3. /\ t \in ThreadType /\ t.pc = "user" /\ t.closing = TRUE /\ t.ff = NoFile
        /\ t.pipe = 0 /\ t.f = [th[p].f EXCEPT ![1] = a]
    BY <1>3, <2>2 DEF ThreadType
  <2>4. r \in FileType /\ r.ref = 1 /\ r.type = "none"
    BY <1>2, FreshRef
  <2>5. t.pc \notin Reading \union Writing \union {"free", "zombie"}
    BY <2>3 DEF Reading, Writing
  <2> HIDE DEF t, r
  <2> QED
    BY <1>2, <1>3, <2>1, <2>2, <2>3, <2>4, <2>5, AllocStep
<1>5. ASSUME FreeFd(p) # {},
             file' = [file EXCEPT ![filealloc] = [@ EXCEPT !.ref = 1, !.type = "inode"]],
             ofile' = [ofile EXCEPT ![p][Min(FreeFd(p))] = filealloc],
             iref' = iref + 1, UNCHANGED <<th, pipe, killed>>
      PROVE  PipeInv'
  <2> DEFINE fd == Min(FreeFd(p))
             r == [file[a] EXCEPT !.ref = 1, !.type = "inode"]
  <2>1. /\ file' = [file EXCEPT ![a] = r] /\ ofile' = [ofile EXCEPT ![p][fd] = a]
        /\ iref' = iref + 1 /\ UNCHANGED <<pipe, killed, th>>
    BY <1>5
  <2>2. fd \in Fds /\ ofile[p][fd] = 0
    BY <1>5, FreeFdIn
  <2> HIDE DEF a, fd
  <2>3. file[a] \in FileType
    BY <1>2, Parts DEF IsFresh
  <2>4. r \in FileType /\ r.ref = 1 /\ r.type = "inode"
    BY <2>3 DEF FileType
  <2> HIDE DEF r
  <2> QED
    BY <1>2, <1>3, <2>1, <2>2, <2>4, OpenStep
<1> QED
  BY <1>4, <1>5 DEF sys_open

\* A step of sys_dup().
LEMMA SysDupStep ==
  ASSUME PipeInv, NEW p \in Procs, NEW fd \in Fds, sys_dup(p, fd)
  PROVE  PipeInv'
<1> DEFINE a == ofile[p][fd]
           d == Min(FreeFd(p))
           r == [file[a] EXCEPT !.ref = @ + 1]
<1>1. At(p, "user") /\ a # 0 /\ FreeFd(p) # {}
  BY DEF sys_dup, Call, argfd
<1>2. /\ ofile' = [ofile EXCEPT ![p][d] = a] /\ file' = [file EXCEPT ![a] = r]
      /\ pipe' = pipe /\ iref' = iref /\ killed' = killed /\ th' = th
  BY DEF sys_dup
<1>3. /\ th[p].pc = "user" /\ th[p].closing = FALSE /\ th[p].ff = NoFile /\ th[p].pipe = 0
      /\ th[p].f[1] = 0 /\ th[p].f[2] = 0 /\ th[p] \in ThreadType
      /\ \A i \in Slots : th[p].f[i] = 0
  BY <1>1, UserFacts
<1>4. d \in Fds /\ ofile[p][d] = 0
  BY <1>1, FreeFdIn
<1>5. a \in Files /\ a \in 0..NFILE /\ file[a] \in FileType
  BY <1>1, HeldFiles, Indices, Parts
<1>6. file[a].type # "none" /\ file[a].ref \in Nat
  BY <1>1, <1>5, Parts DEF FilesSound, FileType
<1>7. \A q \in Procs, i \in Slots : ~th[q].closing /\ th[q].f[i] # 0 => th[q].f[i] # a
  <2>1. \A q \in Procs, i \in Slots : ~th[q].closing /\ th[q].f[i] # 0 =>
           file[th[q].f[i]].type = "none"
    BY Parts DEF HandSound
  <2> QED
    BY <2>1, <1>6
<1> HIDE DEF a, d
<1>8. /\ r \in FileType /\ r.ref = file[a].ref + 1 /\ r.type = file[a].type
      /\ r.pipe = file[a].pipe /\ r.writable = file[a].writable
  BY <1>5, <1>6 DEF FileType
<1> HIDE DEF r
<1>9. /\ file'[a] = r /\ \A f \in Files : f # a => file'[f] = file[f]
      /\ file' \in [Files -> FileType]
  BY <1>2, <1>5, <1>8, Parts
<1>10. /\ ofile' \in [Procs -> [Fds -> 0..NFILE]]
       /\ ofile'[p][d] = a /\ \A e \in Fds : e # d => ofile'[p][e] = ofile[p][e]
       /\ \A q \in Procs : q # p => ofile'[q] = ofile[q]
  BY <1>2, <1>4, <1>5, Parts
<1>11. \A f \in Files : /\ file'[f].type = file[f].type /\ file'[f].pipe = file[f].pipe
                        /\ file'[f].writable = file[f].writable
  BY <1>8, <1>9
<1>12. RefsExact'
  <2>1. \A f \in Files : nFd(f)' = (nFd(f) - Is(ofile[p][d], f)) + Is(a, f)
    BY <1>2, <1>4, Parts, FdSet
  <2>2. \A f \in Files : nHand(f)' = nHand(f)
    BY <1>2, HandSame
  <2>3. ASSUME NEW f \in Files PROVE file'[f].ref = nFd(f)' + nHand(f)'
    <3>1. nFd(f) \in Nat /\ nHand(f) \in Nat /\ file[f].ref = nFd(f) + nHand(f)
      BY Parts, RefsSum
    <3>2. Is(ofile[p][d], f) = 0
      BY <1>4, Indices DEF Is
    <3>3. nFd(f)' = nFd(f) + Is(a, f) /\ Is(a, f) \in Nat
      BY <2>1, <3>1, <3>2 DEF Is
    <3>4. CASE f = a
      BY <2>2, <3>1, <3>3, <3>4, <1>8, <1>9 DEF Is
    <3>5. CASE f # a
      <4>1. file'[f].ref = file[f].ref /\ Is(a, f) = 0
        BY <3>5, <1>9 DEF Is
      <4> QED
        BY <2>2, <3>1, <3>3, <4>1
    <3> QED
      BY <3>4, <3>5
  <2> QED
    BY <2>3, RefsReach
<1>13. InodeRefsExact'
  <2>1. /\ \A f \in Files : file'[f].type = "inode" <=> file[f].type = "inode"
        /\ \A q \in Procs : th'[q].ff.type = "inode" <=> th[q].ff.type = "inode"
    BY <1>2, <1>11
  <2> QED
    BY <1>2, <2>1, Parts, InodesKept
<1>14. EndsAlone(p, th[p])
  BY <1>11 DEF EndsAlone, IsEnd
<1>15. FilesSound'
  <2>1. FilesSound
    BY Parts
  <2>2. \A f \in Files : file'[f].ref = 0 => f # a
    BY <1>6, <1>8, <1>9
  <2> QED
    BY <2>1, <2>2, <1>1, <1>5, <1>6, <1>9, <1>10, <1>11, HeldFiles DEF FilesSound
<1>16. HandSound(p)'
  <2>1. HandSound(p) /\ Slots = {1, 2}
    BY Parts, Indices
  <2> QED
    BY <2>1, <1>2, <1>3 DEF HandSound
<1>17. OthersAlone(p)
  <2>1. \A q \in Procs, j \in Slots : ~th[q].closing /\ th[q].f[j] # 0 =>
           file'[th[q].f[j]] = file[th[q].f[j]]
    BY <1>7, <1>9, HeldFiles
  <2> QED
    BY <2>1, <1>10, <1>11, HeldFiles DEF OthersAlone
<1>18. Typed
  BY <1>2, <1>9, <1>10, Parts DEF Typed
<1>19. th' = [th EXCEPT ![p] = th[p]] /\ th[p].pc \notin Reading \union Writing
  BY <1>2, <1>3, Parts DEF Reading, Writing
<1> QED
  BY <1>2, <1>3, <1>12, <1>13, <1>14, <1>15, <1>16, <1>17, <1>18, <1>19, CallStep

\* A descriptor becomes a file to close: sys_close() and exit().
LEMMA CloseFdStep ==
  ASSUME PipeInv, NEW p \in Procs, NEW fd \in Fds, NEW a, a = ofile[p][fd], a # 0,
         NEW pc \in {"user", "exit"}, At(p, pc),
         ofile' = [ofile EXCEPT ![p][fd] = 0],
         th' = [th EXCEPT ![p] = [@ EXCEPT !.f[1] = a, !.closing = TRUE]],
         UNCHANGED <<file, pipe, iref, killed>>
  PROVE  PipeInv'
<1> DEFINE t == [th[p] EXCEPT !.f[1] = a, !.closing = TRUE]
<1>1. /\ th[p].pc = pc /\ th[p].closing = FALSE /\ th[p].ff = NoFile /\ th[p].pipe = 0
      /\ th[p].f[1] = 0 /\ th[p].f[2] = 0 /\ th[p] \in ThreadType
      /\ \A i \in Slots : th[p].f[i] = 0
  BY UserFacts
<1>2. th' = [th EXCEPT ![p] = t]
  OBVIOUS
<1>3. a \in Files /\ a \in 0..NFILE /\ 1 \in Slots
  BY HeldFiles, Indices
<1>4. /\ t \in ThreadType /\ t.pc = pc /\ t.closing = TRUE /\ t.ff = NoFile
      /\ t.pipe = 0 /\ t.f = [th[p].f EXCEPT ![1] = a] /\ t.f[1] = a
  BY <1>1, <1>3 DEF ThreadType
<1> HIDE DEF t
<1>5. /\ ofile' \in [Procs -> [Fds -> 0..NFILE]]
      /\ ofile'[p][fd] = 0 /\ \A e \in Fds : e # fd => ofile'[p][e] = ofile[p][e]
      /\ \A q \in Procs : q # p => ofile'[q] = ofile[q]
  BY Parts, Indices
<1>6. th'[p] = t /\ \A q \in Procs : q # p => th'[q] = th[q]
  BY <1>2, Parts
<1>7. RefsExact'
  <2>1. \A f \in Files : nFd(f)' = (nFd(f) - Is(a, f)) + Is(0, f)
    BY Parts, FdSet
  <2>2. \A f \in Files : nHand(f)' = (nHand(f) - Is(th[p].f[1], f)) + Is(a, f)
    <3>1. \A q \in Procs : th'[q].f = IF q = p THEN [th[p].f EXCEPT ![1] = a] ELSE th[q].f
      BY <1>4, <1>6
    <3> QED
      BY <1>3, <3>1, Parts, HandSet
  <2>3. ASSUME NEW f \in Files PROVE file'[f].ref = nFd(f)' + nHand(f)'
    <3>1. nFd(f) \in Nat /\ nHand(f) \in Nat /\ file[f].ref = nFd(f) + nHand(f)
      BY Parts, RefsSum
    <3>2. Is(0, f) = 0 /\ Is(th[p].f[1], f) = 0 /\ Is(a, f) \in Nat
      BY <1>1, Indices DEF Is
    <3> QED
      BY <2>1, <2>2, <3>1, <3>2
  <2> QED
    BY <2>3, RefsReach
<1>8. InodeRefsExact'
  <2>1. /\ \A f \in Files : file'[f].type = "inode" <=> file[f].type = "inode"
        /\ \A q \in Procs : th'[q].ff.type = "inode" <=> th[q].ff.type = "inode"
    BY <1>1, <1>4, <1>6
  <2> QED
    BY <2>1, Parts, InodesKept
<1>9. EndsAlone(p, t)
  BY <1>1, <1>4 DEF EndsAlone
<1>10. FilesSound'
  <2>1. FilesSound
    BY Parts
  <2>2. \A q \in Procs, e \in Fds : ofile'[q][e] # 0 => ofile'[q][e] = ofile[q][e]
    BY <1>5
  <2> QED
    BY <2>1, <2>2 DEF FilesSound
<1>11. HandSound(p)'
  <2>1. NoFile.type = "none"
    BY DEF NoFile
  <2> QED
    BY <2>1, <1>4, <1>6 DEF HandSound
<1>12. OthersAlone(p)
  BY <1>5 DEF OthersAlone
<1>13. Typed
  BY <1>5, Parts DEF Typed
<1>14. t.pc \notin Reading \union Writing
  BY <1>4 DEF Reading, Writing
<1>15. pipe' = pipe /\ killed' = killed
  OBVIOUS
<1> QED
  BY <1>1, <1>2, <1>4, <1>7, <1>8, <1>9, <1>10, <1>11, <1>12, <1>13, <1>14, <1>15, CallStep

\* A step of sys_close().
LEMMA SysCloseStep ==
  ASSUME PipeInv, NEW p \in Procs, NEW fd \in Fds, sys_close(p, fd)
  PROVE  PipeInv'
<1>1. At(p, "user") /\ ofile[p][fd] # 0
  BY DEF sys_close, Call, argfd
<1>2. /\ ofile' = [ofile EXCEPT ![p][fd] = 0]
      /\ th' = [th EXCEPT ![p] = [@ EXCEPT !.f[1] = ofile[p][fd], !.closing = TRUE]]
      /\ UNCHANGED <<file, pipe, iref, killed>>
  BY DEF sys_close
<1> QED
  BY <1>1, <1>2, CloseFdStep

\* A process at rest moves to another place.
LEMMA RestStep ==
  ASSUME PipeInv, NEW p \in Procs, NEW pc \in {"user", "exit"}, At(p, pc),
         NEW to \in {"exit", "zombie"}, to = "zombie" => \A fd \in Fds : ofile[p][fd] = 0,
         th' = [th EXCEPT ![p].pc = to],
         UNCHANGED <<file, ofile, pipe, iref, killed>>
  PROVE  PipeInv'
<1> DEFINE t == [th[p] EXCEPT !.pc = to]
<1>1. /\ th[p].pc = pc /\ th[p].closing = FALSE /\ th[p].ff = NoFile /\ th[p].pipe = 0
      /\ th[p].f[1] = 0 /\ th[p].f[2] = 0 /\ th[p] \in ThreadType
      /\ \A i \in Slots : th[p].f[i] = 0
  BY UserFacts
<1>2. th' = [th EXCEPT ![p] = t]
  OBVIOUS
<1>3. /\ t \in ThreadType /\ t.pc = to /\ t.closing = FALSE /\ t.ff = NoFile
      /\ t.pipe = 0 /\ t.f = th[p].f
  BY <1>1 DEF ThreadType
<1> HIDE DEF t
<1>4. th'[p] = t
  BY <1>2, Parts
<1>5. HandSound(p)'
  <2>1. NoFile.type = "none"
    BY DEF NoFile
  <2> QED
    BY <2>1, <1>1, <1>3, <1>4 DEF HandSound
<1>6. t.pc \notin Reading \union Writing
  BY <1>3 DEF Reading, Writing
<1> QED
  BY <1>1, <1>2, <1>3, <1>5, <1>6, MoveStep

\* A step into exit().
LEMMA ExitStep ==
  ASSUME PipeInv, NEW p \in Procs, exit(p)
  PROVE  PipeInv'
<1>1. At(p, "user") /\ th' = [th EXCEPT ![p].pc = "exit"]
      /\ UNCHANGED <<file, ofile, pipe, iref, killed>>
  BY DEF exit
<1> QED
  BY <1>1, RestStep

\* A step of the loop of exit().
LEMMA ExitCloseStep ==
  ASSUME PipeInv, NEW p \in Procs, exit_close(p)
  PROVE  PipeInv'
<1> DEFINE open == Fds \ FreeFd(p)
           fd == Min(open)
<1>1. At(p, "exit")
  BY DEF exit_close
<1>2. \A d \in open : d \in Fds /\ ofile[p][d] # 0
  BY DEF FreeFd
<1>3. ASSUME open # {}, ofile' = [ofile EXCEPT ![p][fd] = 0],
             th' = [th EXCEPT ![p] = [@ EXCEPT !.f[1] = ofile[p][fd], !.closing = TRUE]],
             UNCHANGED <<file, pipe, iref, killed>>
      PROVE  PipeInv'
  <2>1. open \subseteq Nat
    BY Indices
  <2>2. fd \in open
    BY <2>1, <1>3, MinIn
  <2>3. fd \in Fds /\ ofile[p][fd] # 0
    BY <2>2, <1>2
  <2> HIDE DEF fd
  <2> QED
    BY <1>1, <1>3, <2>3, CloseFdStep
<1>4. ASSUME open = {}, th' = [th EXCEPT ![p].pc = "zombie"],
             UNCHANGED <<file, ofile, pipe, iref, killed>>
      PROVE  PipeInv'
  <2>1. \A d \in Fds : ofile[p][d] = 0
    BY <1>4 DEF FreeFd
  <2> QED
    BY <1>1, <1>4, <2>1, RestStep
<1> QED
  BY <1>3, <1>4 DEF exit_close

\* A step of fork().
LEMMA ForkStep ==
  ASSUME PipeInv, NEW p \in Procs, NEW q \in Procs, fork(p, q)
  PROVE  PipeInv'
<1> DEFINE t == [th[q] EXCEPT !.pc = "user"]
           n(f) == Cardinality({fd \in Fds : ofile[p][fd] = f})
<1>1. At(p, "user") /\ th[q].pc = "free"
  BY DEF fork, Call
<1>2. /\ ofile' = [ofile EXCEPT ![q] = ofile[p]]
      /\ file' = [f \in Files |-> [file[f] EXCEPT !.ref = @ + n(f)]]
      /\ th' = [th EXCEPT ![q] = t]
      /\ pipe' = pipe /\ iref' = iref /\ killed' = killed
  BY DEF fork
<1>3. \A f \in Files : n(f) \in Nat
  BY Indices, FS_Subset, FS_CardinalityType
<1>4. \A f \in Files : n(f) = 0 <=> \A fd \in Fds : ofile[p][fd] # f
  <2> TAKE f \in Files
  <2> DEFINE S == {fd \in Fds : ofile[p][fd] = f}
  <2>1. IsFiniteSet(S)
    BY Indices, FS_Subset
  <2>2. Cardinality(S) = 0 <=> S = {}
    BY <2>1, FS_EmptySet
  <2> QED
    BY <2>2
<1> HIDE DEF n
<1>5. th[q] \in ThreadType /\ HandSound(q) /\ th[q].closing \in BOOLEAN
  BY Parts DEF ThreadType
<1>6. /\ th[q].closing = FALSE /\ th[q].ff = NoFile /\ \A fd \in Fds : ofile[q][fd] = 0
      /\ th[q].f[1] = 0 /\ th[q].f[2] = 0
  BY <1>1, <1>5 DEF HandSound
<1>7. th[q].pipe = 0
  BY <1>1, Parts DEF InsideSound, Reading, Writing
<1>8. /\ t \in ThreadType /\ t.pc = "user" /\ t.closing = FALSE /\ t.ff = NoFile
      /\ t.pipe = 0 /\ t.f = th[q].f
  BY <1>5, <1>6, <1>7 DEF ThreadType
<1> HIDE DEF t
<1>9. th'[q] = t /\ \A z \in Procs : z # q => th'[z] = th[z]
  BY <1>2, Parts
<1>10. \A f \in Files : /\ file'[f] \in FileType /\ file'[f].ref = file[f].ref + n(f)
                        /\ file'[f].type = file[f].type /\ file'[f].pipe = file[f].pipe
                        /\ file'[f].writable = file[f].writable
  <2> TAKE f \in Files
  <2>1. file[f] \in FileType /\ n(f) \in Nat /\ file[f].ref \in Nat
    BY <1>3, Parts DEF FileType
  <2>2. file'[f] = [file[f] EXCEPT !.ref = file[f].ref + n(f)]
    BY <1>2
  <2>3. file[f].ref + n(f) \in Nat
    BY <2>1
  <2> QED
    BY <2>1, <2>2, <2>3, RefSet
<1>11. file' \in [Files -> FileType]
  BY <1>2, <1>10
<1>12. /\ ofile' \in [Procs -> [Fds -> 0..NFILE]]
       /\ ofile'[q] = ofile[p] /\ \A z \in Procs : z # q => ofile'[z] = ofile[z]
  BY <1>2, Parts
<1>13. RefsExact'
  <2>1. \A f \in Files : nFd(f)' = nFd(f) + n(f)
    <3> TAKE f \in Files
    <3>1. \A fd \in Fds : ofile[q][fd] # f
      BY <1>6, Indices
    <3>2. IsTable(ofile, Fds) /\ IsCopied(ofile', ofile, p, q) /\ IsFiniteSet(Fds)
      BY <1>2, Parts, Indices DEF IsTable, IsCopied
    <3>a. Cardinality(Places(ofile', Fds, f)) =
             Cardinality(Places(ofile, Fds, f)) + Cardinality({s \in Fds : ofile[p][s] = f})
      BY <3>1, <3>2, PlacesRow
    <3>3. Cardinality(Places(ofile', Fds, f)) = Cardinality(Places(ofile, Fds, f)) + n(f)
      BY <3>a DEF n
    <3>4. nFd(f)' = Cardinality(Places(ofile', Fds, f))
      BY DEF nFd, Places
    <3> QED
      BY <3>3, <3>4 DEF nFd
  <2>2. \A f \in Files : nHand(f)' = nHand(f)
    <3>1. \A z \in Procs : th'[z].f = th[z].f
      BY <1>8, <1>9
    <3> QED
      BY <3>1, HandSame
  <2>3. ASSUME NEW f \in Files PROVE file'[f].ref = nFd(f)' + nHand(f)'
    <3>1. nFd(f) \in Nat /\ nHand(f) \in Nat /\ file[f].ref = nFd(f) + nHand(f)
      BY Parts, RefsSum
    <3> QED
      BY <2>1, <2>2, <3>1, <1>3, <1>10
  <2> QED
    BY <2>3, RefsReach
<1>14. InodeRefsExact'
  <2>1. /\ \A f \in Files : file'[f].type = "inode" <=> file[f].type = "inode"
        /\ \A z \in Procs : th'[z].ff.type = "inode" <=> th[z].ff.type = "inode"
    BY <1>6, <1>8, <1>9, <1>10
  <2> QED
    BY <1>2, <2>1, Parts, InodesKept
<1>15. EndsAlone(q, t)
  BY <1>6, <1>8, <1>10 DEF EndsAlone, IsEnd
<1>16. FilesSound'
  <2>1. FilesSound
    BY Parts
  <2>2. \A f \in Files : file'[f].ref = 0 => file'[f] = NoFile
    <3> SUFFICES ASSUME NEW f \in Files, file'[f].ref = 0 PROVE file'[f] = NoFile
      OBVIOUS
    <3>1. file[f].ref \in Nat /\ n(f) \in Nat /\ file[f] \in FileType
      BY <1>3, Parts DEF FileType
    <3>2. file[f].ref = 0 /\ n(f) = 0
      BY <3>1, <1>10
    <3>3. file[f] = NoFile
      BY <2>1, <3>2 DEF FilesSound
    <3>4. file'[f] = [file[f] EXCEPT !.ref = 0]
      BY <1>2, <3>2
    <3> QED
      BY <3>3, <3>4 DEF NoFile
  <2>3. \A z \in Procs, fd \in Fds : ofile'[z][fd] # 0 => file[ofile'[z][fd]].type # "none"
    BY <2>1, <1>12 DEF FilesSound
  <2>4. \A z \in Procs, fd \in Fds : ofile'[z][fd] # 0 => ofile'[z][fd] \in Files
    BY <1>12, HeldFiles
  <2> QED
    BY <2>1, <2>2, <2>3, <2>4, <1>10 DEF FilesSound
<1>17. HandSound(q)'
  <2>1. NoFile.type = "none" /\ Slots = {1, 2}
    BY Indices DEF NoFile
  <2> QED
    BY <2>1, <1>6, <1>8, <1>9 DEF HandSound
<1>18. OthersAlone(q)
  <2>1. ASSUME NEW z \in Procs, NEW j \in Slots, ~th[z].closing, th[z].f[j] # 0
        PROVE  th[z].f[j] \in Files /\ n(th[z].f[j]) = 0
    <3>1. th[z].f[j] \in Files
      BY <2>1, HeldFiles
    <3>2. file[th[z].f[j]].ref = 1
      <4>1. HandSound(z)
        BY Parts
      <4> QED
        BY <2>1, <4>1 DEF HandSound
    <3>3. \A fd \in Fds : ofile[p][fd] # th[z].f[j]
      BY <3>1, <3>2, Parts, RefsAre
    <3> QED
      BY <3>1, <3>3, <1>4
  <2>2. \A z \in Procs, j \in Slots : ~th[z].closing /\ th[z].f[j] # 0 =>
           /\ file'[th[z].f[j]].ref = file[th[z].f[j]].ref
           /\ file'[th[z].f[j]].type = file[th[z].f[j]].type
    <3> SUFFICES ASSUME NEW z \in Procs, NEW j \in Slots, ~th[z].closing, th[z].f[j] # 0
                 PROVE  /\ file'[th[z].f[j]].ref = file[th[z].f[j]].ref
                        /\ file'[th[z].f[j]].type = file[th[z].f[j]].type
      OBVIOUS
    <3>1. th[z].f[j] \in Files /\ n(th[z].f[j]) = 0
      BY <2>1
    <3>2. file[th[z].f[j]].ref \in Nat
      BY <3>1, Parts DEF FileType
    <3> QED
      BY <3>1, <3>2, <1>10
  <2>3. \A z \in Procs, fd \in Fds : ofile[z][fd] # 0 => ofile[z][fd] \in Files
    BY HeldFiles
  <2> QED
    BY <2>2, <2>3, <1>10, <1>12 DEF OthersAlone
<1>19. Typed
  BY <1>2, <1>11, <1>12, Parts DEF Typed
<1>20. t.pc \notin Reading \union Writing
  BY <1>8 DEF Reading, Writing
<1> QED
  BY <1>2, <1>7, <1>8, <1>13, <1>14, <1>15, <1>16, <1>17, <1>18, <1>19, <1>20, CallStep

\* A step of fileclose() that drops an inode.
LEMMA IputStep ==
  ASSUME PipeInv, NEW p \in Procs, fileclose_iput(p)
  PROVE  PipeInv'
<1> DEFINE t == [th[p] EXCEPT !.ff = NoFile]
<1>1. th[p].ff.type = "inode" /\ iref' = iref - 1 /\ th' = [th EXCEPT ![p] = t]
      /\ file' = file /\ ofile' = ofile /\ pipe' = pipe /\ killed' = killed
  BY DEF fileclose_iput
<1>2. th[p] \in ThreadType /\ HandSound(p) /\ NoFile.type = "none"
  BY Parts DEF NoFile
<1>3. NoFile \in FileType
  BY Indices DEF NoFile, FileType
<1>4. th[p].ff # NoFile /\ th[p].pc \in {"user", "exit"}
  BY <1>1, <1>2 DEF HandSound
<1>5. th[p].pipe = 0
  BY <1>4, Parts DEF InsideSound, Reading, Writing
<1>6. /\ t \in ThreadType /\ t.pc = th[p].pc /\ t.closing = th[p].closing /\ t.ff = NoFile
      /\ t.pipe = 0 /\ t.f = th[p].f
  BY <1>2, <1>3, <1>5 DEF ThreadType
<1> HIDE DEF t
<1>7. th'[p] = t /\ \A q \in Procs : q # p => th'[q] = th[q]
  BY <1>1, Parts
<1>8. RefsExact'
  <2>1. \A f \in Files : nFd(f)' = nFd(f)
    BY <1>1, FdSame
  <2>2. \A f \in Files : nHand(f)' = nHand(f)
    <3>1. \A q \in Procs : th'[q].f = th[q].f
      BY <1>6, <1>7
    <3> QED
      BY <3>1, HandSame
  <2>3. \A f \in Files : file[f].ref = nFd(f) + nHand(f)
    BY Parts, RefsSum
  <2>4. \A f \in Files : file'[f].ref = nFd(f)' + nHand(f)'
    BY <1>1, <2>1, <2>2, <2>3
  <2> QED
    BY <2>4, RefsReach
<1>9. InodeRefsExact' /\ iref' \in Nat
  <2> DEFINE S == {f \in Files : file[f].type = "inode"}
             P == {q \in Procs : th[q].ff.type = "inode"}
             T == {q \in Procs : th'[q].ff.type = "inode"}
  <2>1. IsFiniteSet(P) /\ Cardinality(P) \in Nat /\ p \in P /\ T = P \ {p}
    BY <1>1, <1>2, <1>6, <1>7, Indices, FS_Subset, FS_CardinalityType
  <2>2. Cardinality(T) = Cardinality(P) - 1 /\ IsFiniteSet(T)
    BY <2>1, FS_RemoveElement
  <2>3. Cardinality(T) \in Nat
    BY <2>2, FS_CardinalityType
  <2>4. IsFiniteSet(S) /\ Cardinality(S) \in Nat
    BY Indices, FS_Subset, FS_CardinalityType
  <2>5. iref = Cardinality(S) + Cardinality(P)
    BY Parts DEF InodeRefsExact
  <2> HIDE DEF S, T, P
  <2>6. iref' = Cardinality(S) + Cardinality(T) /\ iref' \in Nat
    BY <1>1, <2>1, <2>2, <2>3, <2>4, <2>5
  <2> QED
    BY <1>1, <2>6 DEF S, T, InodeRefsExact
<1>10. EndsAlone(p, t) /\ OthersAlone(p)
  BY <1>1, <1>2, <1>6 DEF EndsAlone, OthersAlone, IsEnd
<1>11. FilesSound'
  BY <1>1, Parts DEF FilesSound
<1>12. HandSound(p)'
  BY <1>1, <1>2, <1>4, <1>6, <1>7 DEF HandSound
<1>13. Typed
  BY <1>1, <1>9, Parts DEF Typed
<1>14. t.pc \notin Reading \union Writing
  BY <1>4, <1>6 DEF Reading, Writing
<1> QED
  BY <1>1, <1>5, <1>6, <1>8, <1>9, <1>10, <1>11, <1>12, <1>13, <1>14, CallStep

-----------------------------------------------------------------------------
(* fileclose() *)

\* The same with the facts about a, r and ff spelled out.
LEMMA CloseStep0 ==
  ASSUME PipeInv, NEW p \in Procs, NEW i \in Slots, NEW a \in Files, a = th[p].f[i],
         NEW r \in FileType, NEW ff \in FileType,
         file' = [file EXCEPT ![a] = r], th' = Closed(p, i, ff),
         UNCHANGED <<ofile, pipe, iref, killed>>,
         th[p].closing, th[p].ff = NoFile, a # 0, i = 2 => th[p].f[1] = 0,
         th[p].pc \in {"user", "exit"}, th[p].pipe = 0,
         file[a].ref \in Nat, file[a].ref > 0, r.ref = file[a].ref - 1,
         file[a].ref = 1 => r = NoFile,
         file[a].ref # 1 => /\ r.type = file[a].type /\ r.pipe = file[a].pipe
                            /\ r.writable = file[a].writable,
         file[a].ref # 1 => ff = NoFile,
         file[a].ref = 1 /\ file[a].type # "none" => ff = file[a],
         file[a].ref = 1 /\ file[a].type = "none" => ff = NoFile
  PROVE  PipeInv'
<1>3. th[p] \in ThreadType /\ HandSound(p) /\ NoFile.type = "none" /\ NoFile.ref = 0
  BY Parts DEF NoFile
<1>6. Slots = {1, 2}
  BY Indices
<1>7. PICK c \in BOOLEAN : c <=> i = 1 /\ th[p].f[2] # 0
  OBVIOUS
<1> DEFINE t == [th[p] EXCEPT !.f[i] = 0, !.closing = c, !.ff = ff]
<1>2. /\ th' = [th EXCEPT ![p] = t]
      /\ ofile' = ofile /\ pipe' = pipe /\ iref' = iref /\ killed' = killed
  <2>1. c = (i = 1 /\ th[p].f[2] # 0)
    BY <1>7
  <2> QED
    BY <2>1 DEF Closed
<1>12. /\ t \in ThreadType /\ t.pc = th[p].pc /\ t.closing = c /\ t.ff = ff
       /\ t.pipe = 0 /\ t.f = [th[p].f EXCEPT ![i] = 0] /\ t.f[i] = 0
       /\ \A j \in Slots : j # i => t.f[j] = th[p].f[j]
  BY <1>3, Indices DEF ThreadType
<1> HIDE DEF t
<1>13. /\ file'[a] = r /\ \A f \in Files : f # a => file'[f] = file[f]
       /\ file' \in [Files -> FileType]
       /\ th'[p] = t /\ \A q \in Procs : q # p => th'[q] = th[q]
  BY <1>2, Parts
<1>14. RefsExact'
  <2>1. \A f \in Files : nFd(f)' = nFd(f)
    BY <1>2, FdSame
  <2>2. \A f \in Files : nHand(f)' = (nHand(f) - Is(a, f)) + Is(0, f)
    <3>1. \A q \in Procs : th'[q].f = IF q = p THEN [th[p].f EXCEPT ![i] = 0] ELSE th[q].f
      BY <1>12, <1>13
    <3> QED
      BY <1>6, <3>1, Parts, HandSet
  <2>3. ASSUME NEW f \in Files PROVE file'[f].ref = nFd(f)' + nHand(f)'
    <3>1. nFd(f) \in Nat /\ nHand(f) \in Nat /\ file[f].ref = nFd(f) + nHand(f)
      BY Parts, RefsSum
    <3>2. Is(0, f) = 0
      BY Indices DEF Is
    <3>4. CASE f = a
      <4>1. file'[f].ref = file[f].ref - 1 /\ Is(a, f) = 1
        BY <3>4, <1>13 DEF Is
      <4> QED
        BY <2>1, <2>2, <3>1, <3>2, <4>1
    <3>5. CASE f # a
      <4>1. file'[f].ref = file[f].ref /\ Is(a, f) = 0
        BY <3>5, <1>13 DEF Is
      <4> QED
        BY <2>1, <2>2, <3>1, <3>2, <4>1
    <3> QED
      BY <3>4, <3>5
  <2> QED
    BY <2>3, RefsReach
\* The last reference is that of p.
<1>15. file[a].ref = 1 => /\ \A q \in Procs, fd \in Fds : ofile[q][fd] # a
                          /\ \A q \in Procs, j \in Slots : th[q].f[j] = a => q = p /\ j = i
  BY <1>6, Parts, RefsAre
<1>16. FilesSound'
  <2>1. FilesSound
    BY Parts
  <2>2. \A f \in Files : file'[f].ref = 0 => file'[f] = NoFile
    <3>1. file'[a].ref = 0 => file'[a] = NoFile
      BY <1>13
    <3> QED
      BY <2>1, <3>1, <1>13 DEF FilesSound
  <2>3. \A f \in Files : file'[f].type = "pipe" => file'[f].pipe # 0
    <3>1. file'[a].type = "pipe" => file'[a].pipe # 0
      BY <2>1, <1>3, <1>13 DEF FilesSound
    <3> QED
      BY <2>1, <3>1, <1>13 DEF FilesSound
  <2>4. \A q \in Procs, fd \in Fds : ofile'[q][fd] # 0 => file'[ofile'[q][fd]].type # "none"
    BY <2>1, <1>2, <1>13, <1>15, HeldFiles DEF FilesSound
  <2> QED
    BY <2>2, <2>3, <2>4 DEF FilesSound
<1>17. HandSound(p)'
  <2>1. file[a].type = "pipe" => file[a].pipe # 0
    BY Parts DEF FilesSound
  <2>2. ff # NoFile => ff.type # "none"
    OBVIOUS
  <2>3. ff.type = "pipe" => ff.pipe # 0
    BY <2>1, <1>3
  <2>4. c => t.f[2] # 0
    BY <1>6, <1>7, <1>12
  <2>5. ~c => t.f[1] = 0 /\ t.f[2] = 0
    BY <1>6, <1>7, <1>12
  <2>6. th'[p].pc \in {"user", "exit"}
    BY <1>12, <1>13
  <2> QED
    BY <2>2, <2>3, <2>4, <2>5, <2>6, <1>6, <1>12, <1>13 DEF HandSound
<1>18. OthersAlone(p)
  <2>1. \A q \in Procs, fd \in Fds : ofile[q][fd] # 0 =>
          /\ file'[ofile[q][fd]].type = file[ofile[q][fd]].type
          /\ file'[ofile[q][fd]].pipe = file[ofile[q][fd]].pipe
          /\ file'[ofile[q][fd]].writable = file[ofile[q][fd]].writable
    BY <1>13, <1>15, HeldFiles
  <2>2. ASSUME NEW q \in Procs, NEW j \in Slots, q # p, ~th[q].closing, th[q].f[j] # 0
        PROVE  file'[th[q].f[j]] = file[th[q].f[j]]
    <3>1. file[th[q].f[j]].ref = 1
      <4>1. HandSound(q)
        BY Parts
      <4> QED
        BY <2>2, <4>1 DEF HandSound
    <3>2. th[q].f[j] # a
      BY <2>2, <3>1, <1>15
    <3> QED
      BY <2>2, <3>2, <1>13, HeldFiles
  <2> QED
    BY <2>1, <2>2, <1>2 DEF OthersAlone
<1>19. InodeRefsExact'
  <2> DEFINE S  == {f \in Files : file[f].type = "inode"}
             S2 == {f \in Files : file'[f].type = "inode"}
             P  == {q \in Procs : th[q].ff.type = "inode"}
             P2 == {q \in Procs : th'[q].ff.type = "inode"}
  <2>1. iref = Cardinality(S) + Cardinality(P)
    BY Parts DEF InodeRefsExact
  <2>2. CASE file[a].ref = 1 /\ file[a].type = "inode"
    <3>1. S2 = S \ {a} /\ a \in S
      BY <2>2, <1>3, <1>13
    <3>2. P2 = P \union {p} /\ p \notin P
      BY <2>2, <1>3, <1>12, <1>13
    <3>3. IsFiniteSet(S) /\ Cardinality(S) \in Nat /\ IsFiniteSet(P) /\ Cardinality(P) \in Nat
      BY Indices, FS_Subset, FS_CardinalityType
    <3> HIDE DEF S, S2, P, P2
    <3>4. Cardinality(S2) = Cardinality(S) - 1
      BY <3>1, <3>3, FS_RemoveElement
    <3>5. Cardinality(P2) = Cardinality(P) + 1
      BY <3>2, <3>3, FS_AddElement
    <3>6. iref' = Cardinality(S2) + Cardinality(P2)
      BY <1>2, <2>1, <3>3, <3>4, <3>5
    <3> QED
      BY <3>6 DEF S2, P2, InodeRefsExact
  <2>3. CASE ~(file[a].ref = 1 /\ file[a].type = "inode")
    <3>1. \A f \in Files : file'[f].type = "inode" <=> file[f].type = "inode"
      BY <2>3, <1>3, <1>13
    <3>2. \A q \in Procs : th'[q].ff.type = "inode" <=> th[q].ff.type = "inode"
      BY <2>3, <1>3, <1>12, <1>13
    <3> QED
      BY <3>1, <3>2, <1>2, Parts, InodesKept
  <2> QED
    BY <2>2, <2>3
\* An end of a pipe stays with its file, or goes from the file to the copy.
<1>20. \A g \in Pages, w \in BOOLEAN :
         \/ /\ \A f \in Files : IsEnd(file'[f], g, w) <=> IsEnd(file[f], g, w)
            /\ \A q \in Procs : IsEnd(th'[q].ff, g, w) <=> IsEnd(th[q].ff, g, w)
         \/ /\ IsEnd(file[a], g, w) /\ ~IsEnd(file'[a], g, w)
            /\ IsEnd(th'[p].ff, g, w) /\ ~IsEnd(th[p].ff, g, w)
            /\ \A f \in Files : f # a => (IsEnd(file'[f], g, w) <=> IsEnd(file[f], g, w))
            /\ \A q \in Procs : q # p => (IsEnd(th'[q].ff, g, w) <=> IsEnd(th[q].ff, g, w))
  <2> TAKE g \in Pages, w \in BOOLEAN
  <2>1. /\ \A f \in Files : f # a => (IsEnd(file'[f], g, w) <=> IsEnd(file[f], g, w))
        /\ \A q \in Procs : q # p => (IsEnd(th'[q].ff, g, w) <=> IsEnd(th[q].ff, g, w))
    BY <1>13
  <2>2. ~IsEnd(NoFile, g, w)
    BY <1>3 DEF IsEnd
  <2>3. ~IsEnd(th[p].ff, g, w)
    BY <2>2
  <2>4. CASE file[a].ref = 1 /\ file[a].type # "none"
    <3>1. file'[a] = NoFile /\ th'[p].ff = file[a]
      BY <2>4, <1>12, <1>13
    <3> QED
      BY <2>1, <2>2, <2>3, <3>1
  <2>5. CASE ~(file[a].ref = 1 /\ file[a].type # "none")
    <3>1. th'[p].ff = NoFile
      BY <2>5, <1>12, <1>13
    <3>2. IsEnd(file'[a], g, w) <=> IsEnd(file[a], g, w)
      BY <2>5, <1>3, <1>13 DEF IsEnd
    <3> QED
      BY <2>1, <2>2, <2>3, <3>1, <3>2
  <2> QED
    BY <2>4, <2>5
<1>21. \A g \in Pages, w \in BOOLEAN : End(g, w)' <=> End(g, w)
  <2> TAKE g \in Pages, w \in BOOLEAN
  <2>1. End(g, w)' <=> \/ \E f \in Files : IsEnd(file'[f], g, w)
                       \/ \E q \in Procs : IsEnd(th'[q].ff, g, w)
    BY DEF End, IsEnd
  <2>2. End(g, w) <=> \/ \E f \in Files : IsEnd(file[f], g, w)
                      \/ \E q \in Procs : IsEnd(th[q].ff, g, w)
    BY DEF End
  <2> QED
    BY <2>1, <2>2, <1>20
<1>22. PipePageOwned'
  <2> SUFFICES ASSUME NEW g \in Pages
               PROVE  /\ pipe[g].readopen = End(g, FALSE)'
                      /\ pipe[g].writeopen = End(g, TRUE)'
                      /\ pipe[g].alloc = (End(g, FALSE)' \/ End(g, TRUE)')
    BY <1>2 DEF PipePageOwned
  <2>1. /\ pipe[g].readopen = End(g, FALSE)
        /\ pipe[g].writeopen = End(g, TRUE)
        /\ pipe[g].alloc = (End(g, FALSE) \/ End(g, TRUE))
    BY Parts DEF PipePageOwned
  <2>2. End(g, FALSE) \in BOOLEAN /\ End(g, TRUE) \in BOOLEAN
        /\ End(g, FALSE)' \in BOOLEAN /\ End(g, TRUE)' \in BOOLEAN
    BY DEF End
  <2>3. (End(g, FALSE)' <=> End(g, FALSE)) /\ (End(g, TRUE)' <=> End(g, TRUE))
    BY <1>21
  <2> QED
    BY <2>1, <2>2, <2>3
<1>23. EndsUnique'
  <2> SUFFICES ASSUME NEW g \in Pages, NEW w \in BOOLEAN
               PROVE  /\ \A f, h \in Files : IsEnd(file'[f], g, w) /\ IsEnd(file'[h], g, w)
                                                => f = h
                      /\ \A z, q \in Procs : IsEnd(th'[z].ff, g, w) /\ IsEnd(th'[q].ff, g, w)
                                                => z = q
                      /\ \A f \in Files, q \in Procs :
                            ~(IsEnd(file'[f], g, w) /\ IsEnd(th'[q].ff, g, w))
    BY DEF EndsUnique, IsEnd
  <2>1. /\ \A f, h \in Files : IsEnd(file[f], g, w) /\ IsEnd(file[h], g, w) => f = h
        /\ \A z, q \in Procs : IsEnd(th[z].ff, g, w) /\ IsEnd(th[q].ff, g, w) => z = q
        /\ \A f \in Files, q \in Procs : ~(IsEnd(file[f], g, w) /\ IsEnd(th[q].ff, g, w))
    BY Parts DEF EndsUnique
  <2> QED
    BY <2>1, <1>20
<1>24. Typed
  BY <1>2, <1>13, Parts DEF Typed
<1>25. t.pc \notin Reading \union Writing
  BY <1>12 DEF Reading, Writing
<1> QED
  BY <1>2, <1>12, <1>14, <1>16, <1>17, <1>18, <1>19, <1>22, <1>23, <1>24, <1>25, FileStep

\* A call gives file a in slot i to fileclose(); r is the file after it, ff the
\* copy of the last reference.
LEMMA CloseStep ==
  ASSUME PipeInv, NEW p \in Procs, NEW i \in Slots, Closes(p, i), NEW a, a = th[p].f[i],
         NEW r, NEW ff, file' = [file EXCEPT ![a] = r], th' = Closed(p, i, ff),
         UNCHANGED <<ofile, pipe, iref, killed>>,
         \/ /\ file[a].ref > 1 /\ r = [file[a] EXCEPT !.ref = file[a].ref - 1] /\ ff = NoFile
         \/ /\ file[a].ref = 1 /\ r = NoFile
            /\ ff = IF file[a].type = "none" THEN NoFile ELSE file[a]
  PROVE  PipeInv'
<1>1. /\ th[p].closing /\ th[p].ff = NoFile /\ a # 0 /\ (i = 2 => th[p].f[1] = 0)
  BY DEF Closes
<1>3. th[p] \in ThreadType /\ HandSound(p) /\ NoFile.type = "none" /\ NoFile.ref = 0
  BY Parts DEF NoFile
<1>4. NoFile \in FileType
  BY Indices DEF NoFile, FileType
<1>5. th[p].pc \in {"user", "exit"}
  BY <1>1, <1>3 DEF HandSound
<1>8. a \in Files /\ Slots = {1, 2}
  BY <1>1, HeldFiles, Indices
<1>9. file[a] \in FileType /\ file[a].ref \in Nat /\ file[a].ref > 0
  <2>1. file[a].ref \in Nat /\ file[a].ref > 0
    BY <1>8, Parts, RefsAre
  <2> QED
    BY <2>1, <1>8, Parts
<1>10. /\ r \in FileType /\ ff \in FileType /\ r.ref = file[a].ref - 1
       /\ file[a].ref = 1 => r = NoFile
       /\ file[a].ref # 1 => /\ r.type = file[a].type /\ r.pipe = file[a].pipe
                             /\ r.writable = file[a].writable
       /\ file[a].ref # 1 => ff = NoFile
       /\ file[a].ref = 1 /\ file[a].type # "none" => ff = file[a]
       /\ file[a].ref = 1 /\ file[a].type = "none" => ff = NoFile
  <2>1. CASE file[a].ref = 1
    BY <2>1, <1>3, <1>4, <1>9
  <2>2. CASE file[a].ref # 1
    <3>1. file[a].ref > 1 /\ file[a].ref - 1 \in Nat
      BY <2>2, <1>9
    <3>2. r = [file[a] EXCEPT !.ref = file[a].ref - 1] /\ ff = NoFile
      BY <2>2, <3>1
    <3> QED
      BY <2>2, <3>1, <3>2, <1>4, <1>9, RefSet
  <2> QED
    BY <2>1, <2>2
<1>11. th[p].pipe = 0
  BY <1>5, Parts DEF InsideSound, Reading, Writing
<1> QED
  BY <1>1, <1>3, <1>4, <1>5, <1>8, <1>9, <1>10, <1>11, CloseStep0

\* A step of fileclose() under ftable.lock.
LEMMA FilecloseStep ==
  ASSUME PipeInv, NEW p \in Procs, fileclose(p)
  PROVE  PipeInv'
<1>1. PICK i \in Slots :
        LET f == th[p].f[i]
            ff == IF file[f].type = "none" THEN NoFile ELSE file[f]
        IN  /\ Closes(p, i)
            /\ \/ /\ file[f].ref > 1
                  /\ file' = [file EXCEPT ![f].ref = @ - 1]
                  /\ th' = Closed(p, i, NoFile)
               \/ /\ file[f].ref = 1
                  /\ file' = [file EXCEPT ![f] = NoFile]
                  /\ th' = Closed(p, i, ff)
            /\ UNCHANGED <<ofile, pipe, iref, killed>>
  BY DEF fileclose
<1> DEFINE a == th[p].f[i]
           ff == IF file[a].type = "none" THEN NoFile ELSE file[a]
<1>2. Closes(p, i) /\ UNCHANGED <<ofile, pipe, iref, killed>>
  BY <1>1
<1>3. CASE /\ file[a].ref > 1 /\ file' = [file EXCEPT ![a].ref = @ - 1]
           /\ th' = Closed(p, i, NoFile)
  <2>1. file' = [file EXCEPT ![a] = [file[a] EXCEPT !.ref = file[a].ref - 1]]
    BY <1>3
  <2> HIDE DEF a
  <2> QED
    BY <1>2, <1>3, <2>1, CloseStep DEF a
<1>4. CASE /\ file[a].ref = 1 /\ file' = [file EXCEPT ![a] = NoFile]
           /\ th' = Closed(p, i, ff)
  BY <1>2, <1>4, CloseStep
<1> QED
  BY <1>1, <1>3, <1>4

-----------------------------------------------------------------------------
(* The steps that change a pipe. *)

\* The bytes in the pipe of page g.
FifoAt(g) == /\ Count(g) <= PIPESIZE
             /\ copyout(g) = [i \in 1..Count(g) |-> (pipe[g].nread + i - 1) % UINT]

\* The constants of the ring.
LEMMA Ring ==
  /\ PIPESIZE \in Nat /\ PIPESIZE > 0 /\ UINT \in Nat /\ UINT > PIPESIZE
  /\ UINT % PIPESIZE = 0
  BY PipeAssumption

\* A number modulo m, below m and below two m.
LEMMA ModSmall ==
  ASSUME NEW m \in Nat, m > 0, NEW x \in Nat
  PROVE  /\ x % m \in Nat /\ x % m < m
         /\ x < m => x % m = x
         /\ m <= x /\ x < m + m => x % m = x - m
<1>1. x % m \in Nat /\ x % m < m
  OBVIOUS
<1>2. x < m => x % m = x
  OBVIOUS
<1>3. m <= x /\ x < m + m => x % m = x - m
  OBVIOUS
<1> QED
  BY <1>1, <1>2, <1>3

\* The counters of a pipe.
LEMMA Counters ==
  ASSUME PipeInv, NEW g \in Pages
  PROVE  /\ pipe[g] \in PipeType
         /\ pipe[g].nread \in Nat /\ pipe[g].nread < UINT
         /\ pipe[g].nwrite \in Nat /\ pipe[g].nwrite < UINT
         /\ pipe[g].data \in [0..PIPESIZE - 1 -> 0..UINT - 1]
         /\ Count(g) \in Nat /\ Count(g) <= PIPESIZE
         /\ pipe[g].alloc \in BOOLEAN /\ pipe[g].readopen \in BOOLEAN
         /\ pipe[g].writeopen \in BOOLEAN /\ pipe[g].lock \in 0..NPROC
<1>1. pipe[g] \in PipeType
  BY Parts
<1>2. /\ pipe[g].nread \in 0..UINT - 1 /\ pipe[g].nwrite \in 0..UINT - 1
      /\ pipe[g].data \in [0..PIPESIZE - 1 -> 0..UINT - 1]
      /\ pipe[g].alloc \in BOOLEAN /\ pipe[g].readopen \in BOOLEAN
      /\ pipe[g].writeopen \in BOOLEAN /\ pipe[g].lock \in 0..NPROC
  BY <1>1 DEF PipeType
<1>3. /\ pipe[g].nread \in Nat /\ pipe[g].nread < UINT
      /\ pipe[g].nwrite \in Nat /\ pipe[g].nwrite < UINT
  <2>1. \A n \in 0..UINT - 1 : n \in Nat /\ n < UINT
    BY Ring
  <2> QED
    BY <1>2, <2>1
<1>4. Count(g) \in Nat
  <2>1. pipe[g].nwrite + UINT - pipe[g].nread \in Nat
    BY <1>3, Ring
  <2> QED
    BY <2>1, Ring DEF Count
<1>5. Count(g) <= PIPESIZE
  BY Parts DEF Fifo
<1> QED
  BY <1>1, <1>2, <1>3, <1>4, <1>5

\* Only the pipe of page g changes.
LEMMA FifoOne ==
  ASSUME Fifo, NEW g \in Pages, FifoAt(g)',
         \A h \in Pages : h # g => pipe'[h] = pipe[h]
  PROVE  Fifo'
<1> SUFFICES ASSUME NEW h \in Pages
             PROVE  FifoAt(h)'
  BY DEF Fifo, FifoAt, Count, copyout
<1>1. CASE h = g
  BY <1>1
<1>2. CASE h # g
  <2>1. FifoAt(h)
    BY DEF Fifo, FifoAt
  <2>2. pipe'[h] = pipe[h]
    BY <1>2
  <2> QED
    BY <2>1, <2>2 DEF FifoAt, Count, copyout
<1> QED
  BY <1>1, <1>2

\* A new pipe, or the page of none.
LEMMA FifoEmpty ==
  ASSUME NEW g \in Pages, pipe'[g].nread = 0, pipe'[g].nwrite = 0
  PROVE  FifoAt(g)'
<1>1. Count(g)' = 0
  <2>1. Count(g)' = (0 + UINT - 0) % UINT
    BY DEF Count
  <2>2. 0 + UINT - 0 = UINT /\ UINT > 0
    BY Ring
  <2>3. UINT % UINT = UINT - UINT
    BY <2>2, Ring, ModSmall
  <2>4. Count(g)' = UINT % UINT
    BY <2>1, <2>2
  <2> QED
    BY <2>3, <2>4, Ring
<1>2. copyout(g)' = [i \in 1..Count(g)' |-> (pipe'[g].nread + i - 1) % UINT]
  <2>1. 1..Count(g)' = {}
    BY <1>1
  <2>2. copyout(g)' = [i \in 1..Count(g)' |-> pipe'[g].data[(pipe'[g].nread + i - 1) % PIPESIZE]]
    BY DEF copyout, Count
  <2> QED
    BY <2>1, <2>2
<1> QED
  BY <1>1, <1>2, Ring DEF FifoAt

\* A page without a pipe has nobody inside and no end.
LEMMA FreePageFacts ==
  ASSUME PipeInv, NEW g \in Pages, ~pipe[g].alloc
  PROVE  /\ \A w \in BOOLEAN : ~End(g, w)
         /\ \A f \in Files, w \in BOOLEAN : ~IsEnd(file[f], g, w)
         /\ \A q \in Procs, w \in BOOLEAN : ~IsEnd(th[q].ff, g, w)
         /\ \A q \in Procs : th[q].pipe # g /\ pipe[g].lock # q
<1>1. ~End(g, TRUE) /\ ~End(g, FALSE)
  BY Parts DEF PipePageOwned
<1>2. \A w \in BOOLEAN : ~End(g, w)
  BY <1>1
<1>3. /\ \A f \in Files, w \in BOOLEAN : ~IsEnd(file[f], g, w)
      /\ \A q \in Procs, w \in BOOLEAN : ~IsEnd(th[q].ff, g, w)
  BY <1>2 DEF End
<1>4. ASSUME NEW q \in Procs PROVE th[q].pipe # g
  <2> SUFFICES ASSUME th[q].pipe = g PROVE FALSE
    OBVIOUS
  <2> DEFINE w == th[q].pc \in Writing
  <2>1. w \in BOOLEAN
    OBVIOUS
  <2>2. th[q].pipe # 0
    BY Indices
  <2>3. PICK fd \in Fds : ofile[q][fd] # 0
               /\ IsEnd(file[ofile[q][fd]], th[q].pipe, th[q].pc \in Writing)
    BY <2>2, Parts DEF InsideSound
  <2>4. IsEnd(file[ofile[q][fd]], g, w) /\ ofile[q][fd] \in Files
    BY <2>3, HeldFiles
  <2> HIDE DEF w
  <2> QED
    BY <2>1, <2>4, <1>3
<1>5. ASSUME NEW q \in Procs PROVE pipe[g].lock # q
  BY <1>4, Parts DEF InsideSound
<1> QED
  BY <1>2, <1>3, <1>4, <1>5

\* Files f0 and f1 become the ends of a pipe in page g, which is set up.
MadeEnds(f0, f1, g) ==
  /\ f0 \in Files /\ f1 \in Files /\ f0 # f1
  /\ file[f0].type = "none" /\ file[f1].type = "none"
  /\ file' \in [Files -> FileType]
  /\ file'[f0].type = "pipe" /\ file'[f0].writable = FALSE /\ file'[f0].pipe = g
  /\ file'[f1].type = "pipe" /\ file'[f1].writable = TRUE /\ file'[f1].pipe = g
  /\ file'[f0].ref = file[f0].ref /\ file'[f1].ref = file[f1].ref
  /\ \A f \in Files : f # f0 /\ f # f1 => file'[f] = file[f]

\* The page g holds a new pipe.
MadePipe(g) ==
  /\ g \in Pages /\ ~pipe[g].alloc /\ pipe' \in [Pages -> PipeType]
  /\ pipe'[g].alloc = TRUE /\ pipe'[g].readopen = TRUE /\ pipe'[g].writeopen = TRUE
  /\ pipe'[g].nread = 0 /\ pipe'[g].nwrite = 0 /\ pipe'[g].lock = 0
  /\ \A h \in Pages : h # g => pipe'[h] = pipe[h]

\* Two files become the ends of a new pipe.
LEMMA OpenedStep ==
  ASSUME PipeInv, NEW p \in Procs, NEW t \in ThreadType, th' = [th EXCEPT ![p] = t],
         th[p].pipe = 0, t.pipe = 0, t.pc \notin Reading \union Writing,
         t.ff = NoFile, th[p].ff = NoFile,
         NEW f0, NEW f1, NEW g, MadeEnds(f0, f1, g), MadePipe(g),
         ofile' \in [Procs -> [Fds -> 0..NFILE]], iref' = iref, killed' = killed,
         OthersAlone(p), RefsExact', FilesSound', HandSound(p)'
  PROVE  PipeInv'
<1> DEFINE r0 == file'[f0]
           r1 == file'[f1]
           o == pipe'[g]
<1>0. /\ f0 \in Files /\ f1 \in Files /\ f0 # f1 /\ g \in Pages /\ ~pipe[g].alloc
      /\ file[f0].type = "none" /\ file[f1].type = "none"
      /\ r0.type = "pipe" /\ r0.writable = FALSE /\ r0.pipe = g
      /\ r1.type = "pipe" /\ r1.writable = TRUE /\ r1.pipe = g
      /\ o.alloc = TRUE /\ o.readopen = TRUE /\ o.writeopen = TRUE
      /\ o.nread = 0 /\ o.nwrite = 0 /\ o.lock = 0
  BY DEF MadeEnds, MadePipe
<1> USE <1>0
<1>1. /\ th'[p] = t /\ \A q \in Procs : q # p => th'[q] = th[q]
      /\ th' \in [Procs -> ThreadType]
      /\ file'[f0] = r0 /\ file'[f1] = r1
      /\ \A f \in Files : f # f0 /\ f # f1 => file'[f] = file[f]
      /\ file' \in [Files -> FileType]
      /\ pipe'[g] = o /\ \A h \in Pages : h # g => pipe'[h] = pipe[h]
      /\ pipe' \in [Pages -> PipeType]
  BY Parts DEF MadeEnds, MadePipe
<1> HIDE DEF r0, r1, o
<1>2. TypeOK'
  BY <1>1, Parts DEF TypeOK
<1>3. NoFile.type = "none" /\ g # 0
  BY Indices DEF NoFile
<1>4. InodeRefsExact'
  <2>1. \A f \in Files : file'[f].type = "inode" <=> file[f].type = "inode"
    BY <1>1
  <2>2. \A q \in Procs : th'[q].ff.type = "inode" <=> th[q].ff.type = "inode"
    BY <1>1
  <2> QED
    BY <2>1, <2>2, Parts, InodesKept
<1>5. /\ \A w \in BOOLEAN : ~End(g, w)
      /\ \A f \in Files, w \in BOOLEAN : ~IsEnd(file[f], g, w)
      /\ \A q \in Procs, w \in BOOLEAN : ~IsEnd(th[q].ff, g, w)
      /\ \A q \in Procs : th[q].pipe # g /\ pipe[g].lock # q
  BY FreePageFacts
\* The ends of page g are the two files, those of the others stay.
<1>6. \A f \in Files, h \in Pages, w \in BOOLEAN :
         IsEnd(file'[f], h, w) <=> \/ h # g /\ IsEnd(file[f], h, w)
                                   \/ h = g /\ f = f0 /\ w = FALSE
                                   \/ h = g /\ f = f1 /\ w = TRUE
  <2> TAKE f \in Files, h \in Pages, w \in BOOLEAN
  <2>1. (IsEnd(r0, h, w) <=> h = g /\ w = FALSE) /\ (IsEnd(r1, h, w) <=> h = g /\ w = TRUE)
    BY DEF IsEnd
  <2>2. ~IsEnd(file[f0], h, w) /\ ~IsEnd(file[f1], h, w)
    BY DEF IsEnd
  <2>3. CASE f = f0
    BY <2>1, <2>2, <2>3, <1>1
  <2>4. CASE f = f1
    BY <2>1, <2>2, <2>4, <1>1
  <2>5. CASE f # f0 /\ f # f1
    <3>1. file'[f] = file[f]
      BY <2>5, <1>1
    <3>2. h = g => ~IsEnd(file[f], h, w)
      BY <1>5
    <3> QED
      BY <2>5, <3>1, <3>2
  <2> QED
    BY <2>3, <2>4, <2>5
<1>7. \A q \in Procs, h \in Pages, w \in BOOLEAN : IsEnd(th'[q].ff, h, w) <=> IsEnd(th[q].ff, h, w)
  BY <1>1
<1>8. \A h \in Pages, w \in BOOLEAN :
         End(h, w)' <=> \/ \E f \in Files : IsEnd(file'[f], h, w)
                        \/ \E q \in Procs : IsEnd(th'[q].ff, h, w)
  BY DEF End, IsEnd
<1>9. \A h \in Pages, w \in BOOLEAN : End(h, w)' <=> h = g \/ End(h, w)
  <2> TAKE h \in Pages, w \in BOOLEAN
  <2>1. End(h, w) <=> \/ \E f \in Files : IsEnd(file[f], h, w)
                      \/ \E q \in Procs : IsEnd(th[q].ff, h, w)
    BY DEF End
  <2>2. CASE h = g
    <3>1. w = TRUE => IsEnd(file'[f1], h, w)
      BY <2>2, <1>6
    <3>2. w = FALSE => IsEnd(file'[f0], h, w)
      BY <2>2, <1>6
    <3> QED
      BY <2>2, <3>1, <3>2, <1>8
  <2>3. CASE h # g
    <3>1. \A f \in Files : IsEnd(file'[f], h, w) <=> IsEnd(file[f], h, w)
      BY <2>3, <1>6
    <3>2. \A q \in Procs : IsEnd(th'[q].ff, h, w) <=> IsEnd(th[q].ff, h, w)
      BY <1>7
    <3>3. End(h, w)' <=> \/ \E f \in Files : IsEnd(file'[f], h, w)
                         \/ \E q \in Procs : IsEnd(th'[q].ff, h, w)
      BY <1>8
    <3> QED
      BY <2>1, <2>3, <3>1, <3>2, <3>3
  <2> QED
    BY <2>2, <2>3
<1>10. PipePageOwned'
  <2> SUFFICES ASSUME NEW h \in Pages
               PROVE  /\ pipe'[h].readopen = End(h, FALSE)'
                      /\ pipe'[h].writeopen = End(h, TRUE)'
                      /\ pipe'[h].alloc = (End(h, FALSE)' \/ End(h, TRUE)')
    BY DEF PipePageOwned
  <2>1. /\ pipe[h].readopen = End(h, FALSE)
        /\ pipe[h].writeopen = End(h, TRUE)
        /\ pipe[h].alloc = (End(h, FALSE) \/ End(h, TRUE))
    BY Parts DEF PipePageOwned
  <2>2. End(h, FALSE) \in BOOLEAN /\ End(h, TRUE) \in BOOLEAN
        /\ End(h, FALSE)' \in BOOLEAN /\ End(h, TRUE)' \in BOOLEAN
    BY DEF End
  <2>3. (End(h, FALSE)' <=> h = g \/ End(h, FALSE)) /\ (End(h, TRUE)' <=> h = g \/ End(h, TRUE))
    BY <1>9
  <2>4. CASE h = g
    BY <2>2, <2>3, <2>4, <1>1
  <2>5. CASE h # g
    <3>1. pipe'[h] = pipe[h]
      BY <2>5, <1>1
    <3>2. (End(h, FALSE)' <=> End(h, FALSE)) /\ (End(h, TRUE)' <=> End(h, TRUE))
      BY <2>3, <2>5
    <3> QED
      BY <2>1, <2>2, <3>1, <3>2
  <2> QED
    BY <2>4, <2>5
<1>11. EndsUnique'
  <2> SUFFICES ASSUME NEW h \in Pages, NEW w \in BOOLEAN
               PROVE  /\ \A f, k \in Files : IsEnd(file'[f], h, w) /\ IsEnd(file'[k], h, w)
                                                => f = k
                      /\ \A z, q \in Procs : IsEnd(th'[z].ff, h, w) /\ IsEnd(th'[q].ff, h, w)
                                                => z = q
                      /\ \A f \in Files, q \in Procs :
                            ~(IsEnd(file'[f], h, w) /\ IsEnd(th'[q].ff, h, w))
    BY DEF EndsUnique, IsEnd
  <2>1. /\ \A f, k \in Files : IsEnd(file[f], h, w) /\ IsEnd(file[k], h, w) => f = k
        /\ \A z, q \in Procs : IsEnd(th[z].ff, h, w) /\ IsEnd(th[q].ff, h, w) => z = q
        /\ \A f \in Files, q \in Procs : ~(IsEnd(file[f], h, w) /\ IsEnd(th[q].ff, h, w))
    BY Parts DEF EndsUnique
  <2>2. \A q \in Procs : IsEnd(th'[q].ff, h, w) <=> IsEnd(th[q].ff, h, w)
    BY <1>7
  <2>3. CASE h # g
    <3>1. \A f \in Files : IsEnd(file'[f], h, w) <=> IsEnd(file[f], h, w)
      BY <2>3, <1>6
    <3> QED
      BY <2>1, <2>2, <3>1
  <2>4. CASE h = g
    <3>1. ASSUME NEW f \in Files
          PROVE  /\ IsEnd(file'[f], g, TRUE) => f = f1
                 /\ IsEnd(file'[f], g, FALSE) => f = f0
      <4>1. ~IsEnd(r0, g, TRUE) /\ ~IsEnd(r1, g, FALSE)
        BY DEF IsEnd
      <4>2. ~IsEnd(file[f], g, TRUE) /\ ~IsEnd(file[f], g, FALSE)
        BY <3>1, <1>5
      <4>3. \/ file'[f] = r0 /\ f = f0
            \/ file'[f] = r1 /\ f = f1
            \/ file'[f] = file[f]
        BY <3>1, <1>1
      <4>4. CASE file'[f] = r0 /\ f = f0
        BY <4>1, <4>4
      <4>5. CASE file'[f] = r1 /\ f = f1
        BY <4>1, <4>5
      <4>6. CASE file'[f] = file[f]
        BY <4>2, <4>6
      <4> QED
        BY <4>3, <4>4, <4>5, <4>6
    <3>2. \A q \in Procs : ~IsEnd(th'[q].ff, h, w)
      BY <2>2, <2>4, <1>5
    <3>3. CASE w = TRUE
      <4>1. \A f \in Files : IsEnd(file'[f], h, w) => f = f1
        BY <2>4, <3>1, <3>3
      <4> QED
        BY <4>1, <3>2
    <3>4. CASE w = FALSE
      <4>1. \A f \in Files : IsEnd(file'[f], h, w) => f = f0
        BY <2>4, <3>1, <3>4
      <4> QED
        BY <4>1, <3>2
    <3> QED
      BY <3>3, <3>4
  <2> QED
    BY <2>3, <2>4
<1>12. HandsSound'
  <2>1. ASSUME NEW q \in Procs, q # p PROVE HandSound(q)'
    <3>1. HandSound(q) /\ th'[q] = th[q] /\ ofile'[q] = ofile[q]
      BY <2>1, <1>1, Parts DEF OthersAlone
    <3>2. \A i \in Slots : ~th[q].closing /\ th[q].f[i] # 0 =>
             /\ file'[th[q].f[i]].ref = file[th[q].f[i]].ref
             /\ file'[th[q].f[i]].type = file[th[q].f[i]].type
      BY <2>1 DEF OthersAlone
    <3> QED
      BY <3>1, <3>2, HandKept
  <2> QED
    BY <2>1 DEF HandsSound
<1>13. \A h \in Pages : pipe'[h].lock = pipe[h].lock
  <2>1. pipe[g].lock = 0
    BY <1>5, Counters, Indices
  <2> QED
    BY <2>1, <1>1
<1>14. InsideSound'
  <2>1. \A q \in Procs : \/ th'[q].pc = th[q].pc /\ th'[q].pipe = th[q].pipe
                         \/ /\ th[q].pipe = 0 /\ th'[q].pipe = 0
                            /\ th'[q].pc \notin Reading \union Writing
    BY <1>1
  <2>2. \A q \in Procs, fd \in Fds : th[q].pipe # 0 /\ ofile[q][fd] # 0 =>
            /\ ofile'[q][fd] = ofile[q][fd]
            /\ file'[ofile[q][fd]].type = file[ofile[q][fd]].type
            /\ file'[ofile[q][fd]].pipe = file[ofile[q][fd]].pipe
            /\ file'[ofile[q][fd]].writable = file[ofile[q][fd]].writable
    BY DEF OthersAlone
  <2>3. InsideSound
    BY Parts
  <2> QED
    BY <1>13, <2>1, <2>2, <2>3, InsideKept
<1>15. Fifo'
  <2>3. FifoAt(g)'
    BY <1>1, FifoEmpty
  <2> QED
    BY <2>3, <1>1, Parts, FifoOne
<1>16. SleepJustified'
  <2>1. \A q \in Procs : th'[q].pc \in Sleeping =>
           th'[q] = th[q] /\ th[q].pipe \in Pages /\ th[q].pipe # g
    <3>1. \A q \in Procs : th[q].pc \in Reading \union Writing => th[q].pipe # 0
      BY Parts DEF InsideSound
    <3>2. \A q \in Procs : th[q].pipe # 0 => th[q].pipe \in Pages
      BY Parts, Indices DEF ThreadType
    <3>3. Sleeping \subseteq Reading \union Writing
      BY DEF Sleeping, Reading, Writing
    <3> QED
      BY <3>1, <3>2, <3>3, <1>1, <1>5
  <2>2. \A h \in Pages : h # g => Count(h)' = Count(h)
    BY <1>1 DEF Count
  <2>3. ASSUME NEW q \in Procs, th'[q].pc \in Sleeping
        PROVE  Count(th[q].pipe)' = Count(th[q].pipe) /\ th'[q].pc = th[q].pc
    <3>1. th'[q] = th[q] /\ th[q].pipe \in Pages /\ th[q].pipe # g
      BY <2>1, <2>3
    <3> QED
      BY <3>1, <1>1 DEF Count
  <2>4. SleepJustified
    BY Parts
  <2> SUFFICES ASSUME NEW q \in Procs
               PROVE  /\ th'[q].pc \in {"write_sleep", "nwrite"} => Count(th[q].pipe)' = PIPESIZE
                      /\ th'[q].pc = "read_sleep" => Count(th[q].pipe)' = 0
                      /\ th'[q].pc = "nread" /\ killed' = {} => Count(th[q].pipe)' = 0
    BY DEF SleepJustified, Count
  <2> QED
    BY <2>3, <2>4 DEF SleepJustified, Sleeping
<1> QED
  BY <1>2, <1>4, <1>10, <1>11, <1>12, <1>14, <1>15, <1>16 DEF PipeInv, FilesInv


\* Two descriptors are set.
SetTwo(p, d0, v0, d1, v1) == ofile' = [ofile EXCEPT ![p][d0] = v0, ![p][d1] = v1]

\* Two descriptors are set, and two local variables are reset (sys_pipe()).
LEMMA FdSetTwo ==
  ASSUME TypeOK, NEW p \in Procs, NEW d0 \in Fds, NEW d1 \in Fds, d0 # d1,
         NEW v0 \in 0..NFILE, NEW v1 \in 0..NFILE, ofile[p][d0] = 0, ofile[p][d1] = 0,
         SetTwo(p, d0, v0, d1, v1)
  PROVE  \A f \in Files : nFd(f)' = nFd(f) + Is(v0, f) + Is(v1, f)
<1> TAKE f \in Files
<1> DEFINE m == [ofile EXCEPT ![p][d0] = v0]
<1>1. IsTable(ofile, Fds) /\ IsSetAt(m, ofile, p, d0, v0)
  BY DEF TypeOK, IsTable, IsSetAt
<1>2. IsTable(m, Fds) /\ m[p][d1] = 0
  BY DEF TypeOK, IsTable
<1>3. IsSetAt(ofile', m, p, d1, v1)
  BY DEF IsSetAt, SetTwo
<1> HIDE DEF m
<1>4. Cardinality(Places(m, Fds, f)) =
         (Cardinality(Places(ofile, Fds, f)) - (IF ofile[p][d0] = f THEN 1 ELSE 0))
         + (IF v0 = f THEN 1 ELSE 0)
  BY <1>1, Indices, PlacesSet
<1>5. Cardinality(Places(ofile', Fds, f)) =
         (Cardinality(Places(m, Fds, f)) - (IF m[p][d1] = f THEN 1 ELSE 0))
         + (IF v1 = f THEN 1 ELSE 0)
  BY <1>2, <1>3, Indices, PlacesSet
<1>6. nFd(f)' = Cardinality(Places(ofile', Fds, f)) /\ f # 0
  BY Indices DEF nFd, Places
<1>7. nFd(f) \in Nat
  BY PlacesFinite, Indices DEF nFd
<1> QED
  BY <1>2, <1>4, <1>5, <1>6, <1>7 DEF nFd, Is

\* A call gives its two files away.
LEMMA HandsReset ==
  ASSUME TypeOK, NEW p \in Procs,
         \A q \in Procs : th'[q].f = IF q = p THEN NoFiles ELSE th[q].f
  PROVE  \A f \in Files : nHand(f)' = (nHand(f) - Is(th[p].f[1], f)) - Is(th[p].f[2], f)
<1> TAKE f \in Files
<1> DEFINE m == [Hands EXCEPT ![p][1] = 0]
<1>0. Slots = {1, 2} /\ 0 \in 0..NFILE /\ f # 0
  BY Indices
<1>1. IsTable(Hands, Slots) /\ IsSetAt(m, Hands, p, 1, 0)
  BY DEF TypeOK, ThreadType, Hands, IsTable, IsSetAt
<1>2. Hands[p][1] = th[p].f[1] /\ Hands[p][2] = th[p].f[2]
  BY DEF Hands
<1>3. IsTable(m, Slots) /\ m[p][2] = th[p].f[2]
  BY <1>0, <1>1, <1>2 DEF IsTable
<1>4. IsSetAt(Hands', m, p, 2, 0)
  <2>1. Hands' = [q \in Procs |-> IF q = p THEN NoFiles ELSE th[q].f]
    BY DEF Hands
  <2>2. m = [q \in Procs |-> IF q = p THEN [Hands[p] EXCEPT ![1] = 0] ELSE th[q].f]
    BY DEF Hands
  <2>3. [[Hands[p] EXCEPT ![1] = 0] EXCEPT ![2] = 0] = NoFiles
    BY <1>0, <1>1 DEF NoFiles, IsTable
  <2> HIDE DEF m
  <2>4. [m EXCEPT ![p][2] = 0] =
          [q \in Procs |-> IF q = p THEN [[Hands[p] EXCEPT ![1] = 0] EXCEPT ![2] = 0] ELSE th[q].f]
    BY <2>2
  <2> QED
    BY <2>1, <2>3, <2>4 DEF IsSetAt
<1> HIDE DEF m
<1>5. Cardinality(Places(m, Slots, f)) =
         (Cardinality(Places(Hands, Slots, f)) - (IF Hands[p][1] = f THEN 1 ELSE 0))
         + (IF 0 = f THEN 1 ELSE 0)
  BY <1>0, <1>1, Indices, PlacesSet
<1>6. Cardinality(Places(Hands', Slots, f)) =
         (Cardinality(Places(m, Slots, f)) - (IF m[p][2] = f THEN 1 ELSE 0))
         + (IF 0 = f THEN 1 ELSE 0)
  BY <1>0, <1>3, <1>4, Indices, PlacesSet
<1>7. nHand(f)' = Cardinality(Places(Hands', Slots, f))
  BY DEF nHand, Places
<1>8. nHand(f) \in Nat
  BY PlacesFinite, Indices DEF nHand
<1> QED
  BY <1>0, <1>2, <1>3, <1>5, <1>6, <1>7, <1>8 DEF nHand, Is

\* The files were in the hands of p, with one reference each.
InHand(p, f0, f1) ==
  /\ th[p].f[1] = f0 /\ th[p].f[2] = f1 /\ f0 # 0 /\ f1 # 0
  /\ file[f0].ref = 1 /\ file[f1].ref = 1 /\ th[p].ff = NoFile /\ th[p].pipe = 0

\* The parts of the invariant about the two new ends.
LEMMA EndsMade ==
  ASSUME PipeInv, NEW p \in Procs, NEW f0, NEW f1, NEW g \in Pages,
         InHand(p, f0, f1), MadeEnds(f0, f1, g),
         \A q \in Procs : q # p => ofile'[q] = ofile[q]
  PROVE  /\ OthersAlone(p)
         /\ \A f \in Files : file'[f].ref = file[f].ref
         /\ \A f \in Files : /\ file'[f].ref = 0 => file'[f] = NoFile
                             /\ file'[f].type = "pipe" => file'[f].pipe # 0
         /\ \A q \in Procs, fd \in Fds :
               ofile[q][fd] # 0 => file'[ofile[q][fd]].type # "none"
<1>1. /\ f0 \in Files /\ f1 \in Files /\ f0 # f1
      /\ file'[f0].type = "pipe" /\ file'[f0].pipe = g /\ file'[f0].ref = 1
      /\ file'[f1].type = "pipe" /\ file'[f1].pipe = g /\ file'[f1].ref = 1
      /\ file[f0].ref = 1 /\ file[f1].ref = 1 /\ th[p].f[1] = f0 /\ th[p].f[2] = f1
      /\ \A f \in Files : f # f0 /\ f # f1 => file'[f] = file[f]
  BY DEF MadeEnds, InHand
<1>2. 1 \in Slots /\ 2 \in Slots /\ g # 0
  BY Indices
<1>3. /\ \A q \in Procs, fd \in Fds : ofile[q][fd] # f0 /\ ofile[q][fd] # f1
      /\ \A q \in Procs, i \in Slots : q # p => th[q].f[i] # f0 /\ th[q].f[i] # f1
  <2>1. TypeOK /\ RefsExact
    BY Parts
  <2>2. /\ \A q \in Procs, fd \in Fds : ofile[q][fd] # f0
        /\ \A q \in Procs, i \in Slots : q # p => th[q].f[i] # f0
    BY <1>1, <1>2, <2>1, RefsAre
  <2>3. /\ \A q \in Procs, fd \in Fds : ofile[q][fd] # f1
        /\ \A q \in Procs, i \in Slots : q # p => th[q].f[i] # f1
    BY <1>1, <1>2, <2>1, RefsAre
  <2> QED
    BY <2>2, <2>3
<1>4. \A q \in Procs, fd \in Fds : ofile[q][fd] # 0 => file'[ofile[q][fd]] = file[ofile[q][fd]]
  BY <1>1, <1>3, HeldFiles
<1>5. \A q \in Procs, i \in Slots : q # p /\ th[q].f[i] # 0 =>
         file'[th[q].f[i]] = file[th[q].f[i]]
  BY <1>1, <1>3, HeldFiles
<1>6. OthersAlone(p)
  BY <1>4, <1>5 DEF OthersAlone
<1>7. \A f \in Files : file'[f].ref = file[f].ref
  BY <1>1
<1>8. FilesSound
  BY Parts
<1>9. ASSUME NEW f \in Files
      PROVE  /\ file'[f].ref = 0 => file'[f] = NoFile
             /\ file'[f].type = "pipe" => file'[f].pipe # 0
  <2>1. CASE f = f0 \/ f = f1
    BY <2>1, <1>1, <1>2
  <2>2. CASE f # f0 /\ f # f1
    BY <1>9, <2>2, <1>1, <1>8 DEF FilesSound
  <2> QED
    BY <2>1, <2>2
<1>10. \A q \in Procs, fd \in Fds : ofile[q][fd] # 0 => file'[ofile[q][fd]].type # "none"
  BY <1>4, <1>8 DEF FilesSound
<1> QED
  BY <1>1, <1>6, <1>7, <1>9, <1>10

\* sys_pipe() has no two descriptors left.
LEMMA KallocFailStep ==
  ASSUME PipeInv, NEW p \in Procs, NEW f0, NEW f1, NEW g,
         InHand(p, f0, f1), MadeEnds(f0, f1, g), MadePipe(g),
         iref' = iref, killed' = killed,
         th' = [th EXCEPT ![p] = [@ EXCEPT !.pc = "user", !.closing = TRUE]], ofile' = ofile
  PROVE  PipeInv'
<1> DEFINE t == [th[p] EXCEPT !.pc = "user", !.closing = TRUE]
<1>1. /\ th[p] \in ThreadType /\ f0 # 0 /\ g \in Pages
      /\ th[p].f[1] = f0 /\ th[p].ff = NoFile /\ th[p].pipe = 0
  BY Parts DEF InHand, MadePipe
<1>2. /\ t \in ThreadType /\ t.pc = "user" /\ t.closing = TRUE /\ t.ff = NoFile
      /\ t.pipe = 0 /\ t.f = th[p].f
  BY <1>1 DEF ThreadType
<1>3. t.pc \notin Reading \union Writing
  BY <1>2 DEF Reading, Writing
<1>4. th' = [th EXCEPT ![p] = t]
  OBVIOUS
<1> HIDE DEF t
<1>5. th'[p] = t /\ \A q \in Procs : q # p => th'[q] = th[q]
  BY <1>4, Parts
<1>6. HandSound(p)'
  <2>1. NoFile.type = "none"
    BY DEF NoFile
  <2> QED
    BY <1>1, <1>2, <1>5, <2>1 DEF HandSound
<1>7. /\ OthersAlone(p)
      /\ \A f \in Files : file'[f].ref = file[f].ref
      /\ \A f \in Files : /\ file'[f].ref = 0 => file'[f] = NoFile
                          /\ file'[f].type = "pipe" => file'[f].pipe # 0
      /\ \A q \in Procs, fd \in Fds :
            ofile[q][fd] # 0 => file'[ofile[q][fd]].type # "none"
  BY <1>1, EndsMade
<1>8. FilesSound'
  BY <1>7 DEF FilesSound
<1>9. RefsExact'
  <2>1. \A f \in Files : nFd(f)' = nFd(f)
    BY FdSame
  <2>2. \A f \in Files : nHand(f)' = nHand(f)
    <3>1. \A q \in Procs : th'[q].f = th[q].f
      BY <1>2, <1>5
    <3> QED
      BY <3>1, HandSame
  <2>3. \A f \in Files : file[f].ref = nFd(f) + nHand(f)
    BY Parts, RefsSum
  <2>4. \A f \in Files : file'[f].ref = nFd(f)' + nHand(f)'
    BY <1>7, <2>1, <2>2, <2>3
  <2> QED
    BY <2>4, RefsReach
<1>10. ofile' \in [Procs -> [Fds -> 0..NFILE]]
  BY Parts
<1> QED
  BY <1>1, <1>2, <1>3, <1>4, <1>6, <1>7, <1>8, <1>9, <1>10, OpenedStep

\* sys_pipe() returns two descriptors.
LEMMA KallocDoneStep ==
  ASSUME PipeInv, NEW p \in Procs, NEW f0, NEW f1, NEW g,
         InHand(p, f0, f1), MadeEnds(f0, f1, g), MadePipe(g),
         iref' = iref, killed' = killed,
         NEW d0 \in Fds, NEW d1 \in Fds, d0 # d1, ofile[p][d0] = 0, ofile[p][d1] = 0,
         ofile' = [ofile EXCEPT ![p][d0] = f0, ![p][d1] = f1],
         th' = [th EXCEPT ![p] = Thread("user")]
  PROVE  PipeInv'
<1> DEFINE t == Thread("user")
<1>1. Slots = {1, 2} /\ f0 \in 0..NFILE /\ f1 \in 0..NFILE /\ 0 \in 0..NFILE /\ 0 \in 0..NPAGE
      /\ f0 \in Files /\ f1 \in Files /\ g \in Pages
      /\ th[p].f[1] = f0 /\ th[p].f[2] = f1 /\ th[p].ff = NoFile /\ th[p].pipe = 0
  BY Indices DEF InHand, MadeEnds, MadePipe
<1>2. NoFile \in FileType /\ NoFile.type = "none"
  BY <1>1 DEF NoFile, FileType
<1>3. NoFiles \in [Slots -> 0..NFILE] /\ NoFiles[1] = 0 /\ NoFiles[2] = 0
  BY <1>1 DEF NoFiles
<1>4. /\ t \in ThreadType /\ t.pc = "user" /\ t.closing = FALSE /\ t.ff = NoFile
      /\ t.pipe = 0 /\ t.f = NoFiles
  BY <1>1, <1>2, <1>3 DEF ThreadType, Thread
<1>5. t.pc \notin Reading \union Writing
  BY <1>4 DEF Reading, Writing
<1>6. th' = [th EXCEPT ![p] = t]
  OBVIOUS
<1> HIDE DEF t
<1>7. th'[p] = t /\ \A q \in Procs : q # p => th'[q] = th[q]
  BY <1>6, Parts
<1>8. /\ ofile' \in [Procs -> [Fds -> 0..NFILE]]
      /\ \A q \in Procs : q # p => ofile'[q] = ofile[q]
      /\ ofile'[p][d0] = f0 /\ ofile'[p][d1] = f1
      /\ \A e \in Fds : e # d0 /\ e # d1 => ofile'[p][e] = ofile[p][e]
  BY <1>1, Parts
<1>9. HandSound(p)'
  BY <1>1, <1>2, <1>3, <1>4, <1>7 DEF HandSound
<1>10. /\ OthersAlone(p)
       /\ \A f \in Files : file'[f].ref = file[f].ref
       /\ \A f \in Files : /\ file'[f].ref = 0 => file'[f] = NoFile
                           /\ file'[f].type = "pipe" => file'[f].pipe # 0
       /\ \A q \in Procs, fd \in Fds :
             ofile[q][fd] # 0 => file'[ofile[q][fd]].type # "none"
  BY <1>1, <1>8, EndsMade
<1>a. file'[f0].type = "pipe" /\ file'[f1].type = "pipe"
  BY DEF MadeEnds
<1>11. FilesSound'
  <2>1. ASSUME NEW q \in Procs, NEW fd \in Fds, ofile'[q][fd] # 0
        PROVE  file'[ofile'[q][fd]].type # "none"
    <3>1. CASE q = p /\ (fd = d0 \/ fd = d1)
      BY <3>1, <1>a, <1>8, <1>10
    <3>2. CASE ~(q = p /\ (fd = d0 \/ fd = d1))
      <4>1. ofile'[q][fd] = ofile[q][fd]
        BY <2>1, <3>2, <1>8
      <4> QED
        BY <2>1, <4>1, <1>10
    <3> QED
      BY <3>1, <3>2
  <2> QED
    BY <2>1, <1>10 DEF FilesSound
<1>12. RefsExact'
  <2>1. \A f \in Files : nFd(f)' = nFd(f) + Is(f0, f) + Is(f1, f)
    <3>1. SetTwo(p, d0, f0, d1, f1)
      BY DEF SetTwo
    <3> QED
      BY <1>1, <3>1, Parts, FdSetTwo
  <2>2. \A f \in Files : nHand(f)' = (nHand(f) - Is(f0, f)) - Is(f1, f)
    <3>1. \A q \in Procs : th'[q].f = IF q = p THEN NoFiles ELSE th[q].f
      BY <1>4, <1>7
    <3> QED
      BY <1>1, <3>1, Parts, HandsReset
  <2>3. ASSUME NEW f \in Files PROVE file'[f].ref = nFd(f)' + nHand(f)'
    <3>1. nFd(f) \in Nat /\ nHand(f) \in Nat /\ file[f].ref = nFd(f) + nHand(f)
      BY <2>3, Parts, RefsSum
    <3>2. Is(f0, f) \in Nat /\ Is(f1, f) \in Nat
      BY DEF Is
    <3>3. nFd(f)' = nFd(f) + Is(f0, f) + Is(f1, f)
          /\ nHand(f)' = (nHand(f) - Is(f0, f)) - Is(f1, f) /\ file'[f].ref = file[f].ref
      BY <2>1, <2>2, <2>3, <1>10
    <3> QED
      BY <3>1, <3>2, <3>3
  <2> QED
    BY <2>3, RefsReach
<1> QED
  BY <1>1, <1>4, <1>5, <1>6, <1>8, <1>9, <1>10, <1>11, <1>12, OpenedStep

\* What kalloc() and the rest of pipealloc() make of NoPipe and the files.
LEMMA Opened ==
  LET o == [NoPipe EXCEPT !.alloc = TRUE, !.readopen = TRUE, !.writeopen = TRUE]
  IN  /\ NoPipe \in PipeType /\ o \in PipeType
      /\ o.alloc = TRUE /\ o.readopen = TRUE /\ o.writeopen = TRUE
      /\ o.nread = 0 /\ o.nwrite = 0 /\ o.lock = 0
<1>1. 0 \in 0..UINT - 1 /\ 0 \in 0..NPROC
  BY Ring, Indices
<1>2. [i \in 0..PIPESIZE - 1 |-> 0] \in [0..PIPESIZE - 1 -> 0..UINT - 1]
  BY <1>1
<1>3. NoPipe \in PipeType
  BY <1>1, <1>2 DEF NoPipe, PipeType
<1> QED
  BY <1>3 DEF NoPipe, PipeType

\* Two free descriptors.
LEMMA TwoFree ==
  ASSUME NEW p, Cardinality(FreeFd(p)) >= 2
  PROVE  LET d0 == Min(FreeFd(p))
             d1 == Min(FreeFd(p) \ {d0})
         IN  /\ d0 \in Fds /\ d1 \in Fds /\ d0 # d1
             /\ ofile[p][d0] = 0 /\ ofile[p][d1] = 0
<1> DEFINE S == FreeFd(p)
           d0 == Min(S)
           T == S \ {d0}
           d1 == Min(T)
<1>1. IsFiniteSet(S)
  BY Indices, FS_Subset DEF FreeFd
<1>2. S # {}
  BY <1>1, FS_EmptySet
<1>3. d0 \in Fds /\ ofile[p][d0] = 0 /\ d0 \in S
  BY <1>2, FreeFdIn
<1>4. T # {}
  <2>1. Cardinality(T) = Cardinality(S) - 1
    BY <1>1, <1>3, FS_RemoveElement
  <2>2. Cardinality(S) \in Nat
    BY <1>1, FS_CardinalityType
  <2>3. Cardinality(T) # 0
    BY <2>1, <2>2
  <2> QED
    BY <2>3, FS_EmptySet
<1>5. d1 \in Fds /\ ofile[p][d1] = 0 /\ d1 \in T
  <2>1. T \subseteq FreeFd(p)
    OBVIOUS
  <2> HIDE DEF T
  <2> QED
    BY <1>4, <2>1, FreeFdIn
<1> QED
  BY <1>3, <1>5

\* A step of pipealloc() from kalloc() on.
LEMMA PipeallocKallocStep ==
  ASSUME PipeInv, NEW p \in Procs, pipealloc_kalloc(p)
  PROVE  PipeInv'
<1> DEFINE g == Min(FreePage)
           f0 == th[p].f[1]
           f1 == th[p].f[2]
           d0 == Min(FreeFd(p))
           d1 == Min(FreeFd(p) \ {d0})
           r0 == [file[f0] EXCEPT !.type = "pipe", !.writable = FALSE, !.pipe = g]
           r1 == [file[f1] EXCEPT !.type = "pipe", !.writable = TRUE, !.pipe = g]
           o == [NoPipe EXCEPT !.alloc = TRUE, !.readopen = TRUE, !.writeopen = TRUE]
           fail == [th EXCEPT ![p] = [@ EXCEPT !.pc = "user", !.closing = TRUE]]
<1>1. At(p, "pipe2") /\ iref' = iref /\ killed' = killed
  BY DEF pipealloc_kalloc
<1>2. \/ /\ FreePage = {} /\ th' = fail
         /\ file' = file /\ pipe' = pipe /\ ofile' = ofile
      \/ /\ FreePage # {}
         /\ file' = [file EXCEPT ![f0] = r0, ![f1] = [@ EXCEPT !.type = "pipe", !.writable = TRUE, !.pipe = g]]
         /\ pipe' = [pipe EXCEPT ![g] = o]
         /\ \/ th' = fail /\ ofile' = ofile
            \/ /\ Cardinality(FreeFd(p)) >= 2
               /\ ofile' = [ofile EXCEPT ![p][d0] = f0, ![p][d1] = f1]
               /\ th' = [th EXCEPT ![p] = Thread("user")]
  BY DEF pipealloc_kalloc
<1>3. "pipe2" \notin Reading \union Writing /\ 1 \in Slots /\ 2 \in Slots
  BY Indices DEF Reading, Writing
<1>4. /\ th[p].ff = NoFile /\ th[p].pipe = 0 /\ f0 # 0 /\ f1 # 0
      /\ file[f0].ref = 1 /\ file[f0].type = "none"
      /\ file[f1].ref = 1 /\ file[f1].type = "none"
  <2>1. /\ th[p].ff = NoFile /\ th[p].pipe = 0 /\ f0 # 0 /\ f1 # 0
        /\ \A i \in Slots : th[p].f[i] # 0 =>
               file[th[p].f[i]].ref = 1 /\ file[th[p].f[i]].type = "none"
    BY <1>1, <1>3, AtFacts
  <2> QED
    BY <2>1, <1>3
<1>5. f0 \in Files /\ f1 \in Files
  BY <1>3, <1>4, HeldFiles
<1>6. f0 # f1
  BY <1>3, <1>4, <1>5, Parts, RefsAre
<1>7. CASE /\ FreePage = {} /\ th' = fail
           /\ file' = file /\ pipe' = pipe /\ ofile' = ofile
  BY <1>1, <1>4, <1>7, BadStep
<1>8. ASSUME FreePage # {},
             file' = [file EXCEPT ![f0] = r0, ![f1] = [@ EXCEPT !.type = "pipe", !.writable = TRUE, !.pipe = g]],
             pipe' = [pipe EXCEPT ![g] = o],
             \/ th' = fail /\ ofile' = ofile
             \/ /\ Cardinality(FreeFd(p)) >= 2
                /\ ofile' = [ofile EXCEPT ![p][d0] = f0, ![p][d1] = f1]
                /\ th' = [th EXCEPT ![p] = Thread("user")]
      PROVE  PipeInv'
  <2>1. g \in Pages /\ ~pipe[g].alloc
    <3>1. FreePage \subseteq Pages /\ \A h \in FreePage : ~pipe[h].alloc
      BY DEF FreePage
    <3>2. g \in FreePage
      BY <3>1, <1>8, Indices, MinIn
    <3> QED
      BY <3>1, <3>2
  <2>2. file[f0] \in FileType /\ file[f1] \in FileType /\ g \in 0..NPAGE
    BY <1>5, <2>1, Parts, Indices
  <2> HIDE DEF f0, f1, g
  <2>3. file' = [file EXCEPT ![f0] = r0, ![f1] = r1]
    BY <1>5, <1>6, <1>8, Parts
  <2>4. /\ r0 \in FileType /\ r0.ref = 1 /\ r0.type = "pipe" /\ r0.writable = FALSE /\ r0.pipe = g
        /\ r1 \in FileType /\ r1.ref = 1 /\ r1.type = "pipe" /\ r1.writable = TRUE /\ r1.pipe = g
    BY <1>4, <2>2 DEF FileType
  <2>5. /\ o \in PipeType
        /\ o.alloc = TRUE /\ o.readopen = TRUE /\ o.writeopen = TRUE
        /\ o.nread = 0 /\ o.nwrite = 0 /\ o.lock = 0
    BY Opened
  <2>6. pipe' = [pipe EXCEPT ![g] = o]
    BY <1>8
  <2>a. InHand(p, f0, f1)
    BY <1>4 DEF f0, f1, InHand
  <2> HIDE DEF r0, r1, o
  <2>b. MadeEnds(f0, f1, g)
    <3>1. /\ file'[f0] = r0 /\ file'[f1] = r1
          /\ \A f \in Files : f # f0 /\ f # f1 => file'[f] = file[f]
          /\ file' \in [Files -> FileType]
      BY <1>5, <1>6, <2>3, <2>4, Parts
    <3> QED
      BY <1>4, <1>5, <1>6, <2>4, <3>1 DEF MadeEnds
  <2>c. MadePipe(g)
    <3>1. /\ pipe'[g] = o /\ \A h \in Pages : h # g => pipe'[h] = pipe[h]
          /\ pipe' \in [Pages -> PipeType]
      BY <2>1, <2>5, <2>6, Parts
    <3> QED
      BY <2>1, <2>5, <3>1 DEF MadePipe
  <2>7. CASE th' = fail /\ ofile' = ofile
    BY <1>1, <2>a, <2>b, <2>c, <2>7, KallocFailStep
  <2>8. CASE /\ Cardinality(FreeFd(p)) >= 2
             /\ ofile' = [ofile EXCEPT ![p][d0] = f0, ![p][d1] = f1]
             /\ th' = [th EXCEPT ![p] = Thread("user")]
    <3>1. d0 \in Fds /\ d1 \in Fds /\ d0 # d1 /\ ofile[p][d0] = 0 /\ ofile[p][d1] = 0
      BY <2>8, TwoFree
    <3> HIDE DEF d0, d1
    <3> QED
      BY <1>1, <2>a, <2>b, <2>c, <2>8, <3>1, KallocDoneStep
  <2> QED
    BY <1>8, <2>7, <2>8
<1> QED
  BY <1>2, <1>7, <1>8

-----------------------------------------------------------------------------
(* Calls that go into, move inside and leave a pipe. *)

\* The calls u are the calls t after a wakeup().
IsWoken(u, t, g, chans) ==
  /\ u \in [Procs -> ThreadType]
  /\ \A q \in Procs :
        /\ u[q].f = t[q].f /\ u[q].closing = t[q].closing /\ u[q].ff = t[q].ff
        /\ u[q].pipe = t[q].pipe /\ u[q].n = t[q].n
        /\ \/ u[q] = t[q] /\ ~(t[q].pc \in chans /\ t[q].pipe = g)
           \/ t[q].pc = "nread" /\ u[q].pc = "read" /\ t[q].pc \in chans /\ t[q].pipe = g
           \/ t[q].pc = "nwrite" /\ u[q].pc = "write" /\ t[q].pc \in chans /\ t[q].pipe = g

\* What wakeup() does.
LEMMA Wakeup ==
  ASSUME NEW t \in [Procs -> ThreadType], NEW g, NEW chans, chans \subseteq {"nread", "nwrite"},
         NEW u, u = wakeup(g, chans, t)
  PROVE  IsWoken(u, t, g, chans)
<1>1. ASSUME NEW q \in Procs
      PROVE  /\ u[q] \in ThreadType
             /\ u[q].f = t[q].f /\ u[q].closing = t[q].closing /\ u[q].ff = t[q].ff
             /\ u[q].pipe = t[q].pipe /\ u[q].n = t[q].n
             /\ \/ u[q] = t[q] /\ ~(t[q].pc \in chans /\ t[q].pipe = g)
                \/ t[q].pc = "nread" /\ u[q].pc = "read" /\ t[q].pc \in chans /\ t[q].pipe = g
                \/ t[q].pc = "nwrite" /\ u[q].pc = "write" /\ t[q].pc \in chans /\ t[q].pipe = g
  <2>1. t[q] \in ThreadType
    BY <1>1
  <2>2. u[q] = IF t[q].pc \in chans /\ t[q].pipe = g
               THEN [t[q] EXCEPT !.pc = IF t[q].pc = "nread" THEN "read" ELSE "write"]
               ELSE t[q]
    BY <1>1 DEF wakeup
  <2>3. CASE ~(t[q].pc \in chans /\ t[q].pipe = g)
    BY <2>1, <2>2, <2>3
  <2>4. CASE t[q].pc \in chans /\ t[q].pipe = g
    <3>1. t[q].pc = "nread" \/ t[q].pc = "nwrite"
      BY <2>4
    <3>2. CASE t[q].pc = "nread"
      <4>1. u[q] = [t[q] EXCEPT !.pc = "read"]
        BY <2>2, <2>4, <3>2
      <4> QED
        BY <2>1, <2>4, <3>2, <4>1 DEF ThreadType, Reading, Writing
    <3>3. CASE t[q].pc = "nwrite"
      <4>1. u[q] = [t[q] EXCEPT !.pc = "write"]
        BY <2>2, <2>4, <3>3
      <4> QED
        BY <2>1, <2>4, <3>3, <4>1 DEF ThreadType, Reading, Writing
    <3> QED
      BY <3>1, <3>2, <3>3
  <2> QED
    BY <2>3, <2>4
<1>2. u = [q \in Procs |-> u[q]]
  BY DEF wakeup
<1>3. u \in [Procs -> ThreadType]
  BY <1>1, <1>2
<1> QED
  BY <1>1, <1>3 DEF IsWoken

\* A process inside a pipe has nothing in hand.
LEMMA InsideHands ==
  ASSUME PipeInv, NEW q \in Procs, th[q].pc \in {"user"} \union Reading \union Writing,
         th[q].pc = "user" => At(q, "user")
  PROVE  /\ th[q].closing = FALSE /\ th[q].ff = NoFile
         /\ th[q].f[1] = 0 /\ th[q].f[2] = 0 /\ th[q].f = NoFiles
<1>1. HandSound(q) /\ th[q] \in ThreadType /\ Slots = {1, 2}
  BY Parts, Indices
<1>2. th[q].closing = FALSE /\ th[q].ff = NoFile
  BY <1>1 DEF HandSound, At, Reading, Writing, ThreadType
<1>3. th[q].f[1] = 0 /\ th[q].f[2] = 0
  BY <1>1, <1>2 DEF HandSound, Reading, Writing
<1>4. th[q].f \in [Slots -> 0..NFILE]
  BY <1>1 DEF ThreadType
<1> QED
  BY <1>1, <1>2, <1>3, <1>4 DEF NoFiles

\* What a step inside a pipe may change of a call.
Quiet(q) ==
  /\ th'[q].f = th[q].f /\ th'[q].closing = th[q].closing /\ th'[q].ff = th[q].ff
  /\ \/ th'[q].pc = th[q].pc
     \/ /\ th[q].pc \in Reading \union Writing \/ At(q, "user")
        /\ th'[q].pc \in {"user"} \union Reading \union Writing

\* The counters, the buffer and the lock of pipes, and the places of processes
\* inside them, are all that changes.
LEMMA QuietStep ==
  ASSUME PipeInv, UNCHANGED <<file, ofile, iref>>, killed' \subseteq Procs,
         th' \in [Procs -> ThreadType], pipe' \in [Pages -> PipeType],
         \A q \in Procs : Quiet(q),
         \A h \in Pages : /\ pipe'[h].alloc = pipe[h].alloc
                          /\ pipe'[h].readopen = pipe[h].readopen
                          /\ pipe'[h].writeopen = pipe[h].writeopen,
         InsideSound', Fifo', SleepJustified'
  PROVE  PipeInv'
<1>1. \A q \in Procs : /\ th'[q].f = th[q].f /\ th'[q].closing = th[q].closing
                       /\ th'[q].ff = th[q].ff
  BY DEF Quiet
<1>2. TypeOK'
  BY Parts DEF TypeOK
<1>3. RefsExact'
  <2>1. \A f \in Files : nFd(f)' = nFd(f)
    BY FdSame
  <2>2. \A f \in Files : nHand(f)' = nHand(f)
    BY <1>1, HandSame
  <2>3. \A f \in Files : file[f].ref = nFd(f) + nHand(f)
    BY Parts, RefsSum
  <2>4. \A f \in Files : file'[f].ref = nFd(f)' + nHand(f)'
    BY <2>1, <2>2, <2>3
  <2> QED
    BY <2>4, RefsReach
<1>4. InodeRefsExact'
  <2>1. \A q \in Procs : th'[q].ff.type = "inode" <=> th[q].ff.type = "inode"
    BY <1>1
  <2>2. \A f \in Files : file'[f].type = "inode" <=> file[f].type = "inode"
    OBVIOUS
  <2> QED
    BY Parts, <2>1, <2>2, InodesKept
<1>5. PipePageOwned' /\ EndsUnique'
  <2>1. \A f \in Files, g \in Pages, w \in BOOLEAN :
            IsEnd(file'[f], g, w) <=> IsEnd(file[f], g, w)
    OBVIOUS
  <2>2. \A q \in Procs, g \in Pages, w \in BOOLEAN :
            IsEnd(th'[q].ff, g, w) <=> IsEnd(th[q].ff, g, w)
    BY <1>1
  <2> QED
    BY Parts, <2>1, <2>2, EndsKept
<1>6. FilesSound'
  BY Parts DEF FilesSound
<1>7. HandsSound'
  <2>1. ASSUME NEW q \in Procs PROVE HandSound(q)'
    <3>1. HandSound(q) /\ Slots = {1, 2} /\ NoFile.type = "none" /\ Quiet(q)
      BY <2>1, Parts, Indices DEF NoFile
    <3>2. CASE th'[q].pc = th[q].pc
      BY <2>1, <1>1, <3>1, <3>2 DEF HandSound
    <3>3. CASE th'[q].pc # th[q].pc
      <4>1. /\ th[q].pc \in Reading \union Writing \/ At(q, "user")
            /\ th'[q].pc \in {"user"} \union Reading \union Writing
        BY <3>1, <3>3 DEF Quiet
      <4>2. /\ th[q].closing = FALSE /\ th[q].ff = NoFile
            /\ th[q].f[1] = 0 /\ th[q].f[2] = 0
        BY <2>1, <4>1, InsideHands DEF At, Reading, Writing
      <4>3. th'[q].pc \notin {"pipe1", "pipe2", "free", "zombie"}
        BY <4>1 DEF Reading, Writing
      <4> QED
        BY <2>1, <1>1, <3>1, <4>2, <4>3 DEF HandSound
    <3> QED
      BY <3>2, <3>3
  <2> QED
    BY <2>1 DEF HandsSound
<1> QED
  BY <1>2, <1>3, <1>4, <1>5, <1>6, <1>7 DEF PipeInv, FilesInv

\* The parts of InsideSound.
HasEnd(q) ==
  /\ th[q].pipe # 0 <=> th[q].pc \in Reading \union Writing
  /\ th[q].pipe # 0 => \E fd \in Fds :
        ofile[q][fd] # 0 /\ IsEnd(file[ofile[q][fd]], th[q].pipe, th[q].pc \in Writing)

\* q holds the lock of the pipe of page g on its way to sleep().
Locking(q, g) == th[q].pc \in {"read_sleep", "write_sleep"} /\ th[q].pipe = g

\* The parts of InsideSound.
LEMMA InsideParts ==
  ASSUME InsideSound
  PROVE  /\ \A q \in Procs : HasEnd(q)
         /\ \A q \in Procs, g \in Pages : pipe[g].lock = q <=> Locking(q, g)
<1>1. \A q \in Procs : HasEnd(q)
  BY DEF InsideSound, HasEnd
<1>2. \A q \in Procs, g \in Pages : pipe[g].lock = q <=> Locking(q, g)
  BY DEF InsideSound, Locking
<1> QED
  BY <1>1, <1>2

\* InsideSound from its parts.
LEMMA InsideWhole ==
  ASSUME \A q \in Procs : HasEnd(q)',
         \A q \in Procs, g \in Pages : pipe'[g].lock = q <=> Locking(q, g)'
  PROVE  InsideSound'
<1> SUFFICES ASSUME NEW q \in Procs
             PROVE  /\ (th'[q].pipe # 0) = (th'[q].pc \in Reading \union Writing)
                    /\ th'[q].pipe # 0 => \E fd \in Fds :
                          ofile'[q][fd] # 0
                          /\ IsEnd(file'[ofile'[q][fd]], th'[q].pipe, th'[q].pc \in Writing)
                    /\ \A g \in Pages : (pipe'[g].lock = q) =
                          (/\ th'[q].pc \in {"read_sleep", "write_sleep"}
                           /\ th'[q].pipe = g)
  BY DEF InsideSound, IsEnd
<1>1. /\ th'[q].pipe # 0 <=> th'[q].pc \in Reading \union Writing
      /\ th'[q].pipe # 0 => \E fd \in Fds :
            ofile'[q][fd] # 0
            /\ IsEnd(file'[ofile'[q][fd]], th'[q].pipe, th'[q].pc \in Writing)
  BY DEF HasEnd, IsEnd
<1>2. \A g \in Pages : pipe'[g].lock = q <=>
            (th'[q].pc \in {"read_sleep", "write_sleep"} /\ th'[q].pipe = g)
  BY DEF Locking
<1>3. (th'[q].pipe # 0) = (th'[q].pc \in Reading \union Writing)
  BY <1>1
<1>4. \A g \in Pages : (pipe'[g].lock = q) =
            (/\ th'[q].pc \in {"read_sleep", "write_sleep"}
             /\ th'[q].pipe = g)
  BY <1>2
<1> QED
  BY <1>1, <1>3, <1>4

\* A call stays inside the same pipe on the same side.
LEMMA EndStays ==
  ASSUME NEW q \in Procs, HasEnd(q), file' = file, ofile'[q] = ofile[q],
         th'[q].pipe = th[q].pipe,
         th'[q].pc \in Reading <=> th[q].pc \in Reading,
         th'[q].pc \in Writing <=> th[q].pc \in Writing
  PROVE  HasEnd(q)'
<1>1. (th'[q].pc \in Writing) = (th[q].pc \in Writing)
  OBVIOUS
<1>2. /\ th[q].pipe # 0 <=> th[q].pc \in Reading \union Writing
      /\ th[q].pipe # 0 => \E fd \in Fds :
            ofile[q][fd] # 0 /\ IsEnd(file[ofile[q][fd]], th[q].pipe, th[q].pc \in Writing)
  BY DEF HasEnd
<1>3. th'[q].pipe # 0 => \E fd \in Fds :
         ofile'[q][fd] # 0 /\ IsEnd(file'[ofile'[q][fd]], th'[q].pipe, th'[q].pc \in Writing)
  BY <1>1, <1>2
<1> QED
  BY <1>2, <1>3 DEF HasEnd, IsEnd

\* The pipe of a call.
LEMMA CallPipe ==
  ASSUME PipeInv, NEW q \in Procs, th[q].pc \in Reading \union Writing
  PROVE  th[q].pipe \in Pages
<1>1. th[q].pipe # 0
  BY Parts, InsideParts DEF HasEnd
<1> QED
  BY <1>1, Parts, Indices DEF ThreadType

\* A step of kill().
LEMMA KillStep ==
  ASSUME PipeInv, NEW p \in Procs, kill(p)
  PROVE  PipeInv'
<1> DEFINE to == CASE th[p].pc = "nread" -> "read"
                   [] th[p].pc = "nwrite" -> "write"
                   [] OTHER -> th[p].pc
           t == [th[p] EXCEPT !.pc = to]
<1>1. /\ killed' = killed \union {p} /\ th' = [th EXCEPT ![p] = t]
      /\ UNCHANGED <<file, ofile, pipe, iref>>
  BY DEF kill
<1>2. th[p] \in ThreadType
  BY Parts
<1>3. \/ to = th[p].pc
      \/ th[p].pc = "nread" /\ to = "read"
      \/ th[p].pc = "nwrite" /\ to = "write"
  OBVIOUS
<1> HIDE DEF to
<1>4. /\ t \in ThreadType /\ t.pc = to /\ t.f = th[p].f /\ t.closing = th[p].closing
      /\ t.ff = th[p].ff /\ t.pipe = th[p].pipe
  BY <1>2, <1>3 DEF ThreadType, Reading, Writing
<1> HIDE DEF t
<1>5. /\ th'[p] = t /\ \A q \in Procs : q # p => th'[q] = th[q]
      /\ th' \in [Procs -> ThreadType]
  BY <1>1, <1>4, Parts
<1>6. \A q \in Procs : /\ th'[q].f = th[q].f /\ th'[q].closing = th[q].closing
                       /\ th'[q].ff = th[q].ff /\ th'[q].pipe = th[q].pipe
                       /\ \/ th'[q].pc = th[q].pc
                          \/ th[q].pc = "nread" /\ th'[q].pc = "read"
                          \/ th[q].pc = "nwrite" /\ th'[q].pc = "write"
  BY <1>3, <1>4, <1>5
<1>7. \A q \in Procs : Quiet(q)
  BY <1>6 DEF Quiet, Reading, Writing
<1>8. InsideSound'
  <2>1. \A q \in Procs : HasEnd(q)'
    <3> TAKE q \in Procs
    <3>1. HasEnd(q)
      BY Parts, InsideParts
    <3>2. /\ th'[q].pc \in Reading <=> th[q].pc \in Reading
          /\ th'[q].pc \in Writing <=> th[q].pc \in Writing
      BY <1>6 DEF Reading, Writing
    <3> QED
      BY <1>1, <1>6, <3>1, <3>2, EndStays
  <2>2. \A q \in Procs, g \in Pages : pipe'[g].lock = q <=> Locking(q, g)'
    <3>1. \A q \in Procs, g \in Pages : pipe[g].lock = q <=> Locking(q, g)
      BY Parts, InsideParts
    <3>2. \A q \in Procs, g \in Pages : Locking(q, g)' <=> Locking(q, g)
      BY <1>6 DEF Locking
    <3> QED
      BY <1>1, <3>1, <3>2
  <2> QED
    BY <2>1, <2>2, InsideWhole
<1>9. Fifo'
  BY <1>1, Parts, FifoKept
<1>10. SleepJustified'
  <2>1. \A q \in Procs : \/ th'[q].pc = th[q].pc /\ th'[q].pipe = th[q].pipe
                         \/ th'[q].pc \notin Sleeping
    BY <1>6 DEF Sleeping
  <2>2. killed' # {}
    BY <1>1
  <2> QED
    BY <1>1, <2>1, <2>2, Parts, SleepKept
<1>11. killed' \subseteq Procs /\ pipe' \in [Pages -> PipeType]
  BY <1>1, Parts
<1> QED
  BY <1>1, <1>5, <1>7, <1>8, <1>9, <1>10, <1>11, QuietStep

\* read() or write() enters a pipe through a descriptor of that end.
LEMMA EnterStep ==
  ASSUME PipeInv, NEW p \in Procs, NEW fd \in Fds, ofile[p][fd] # 0, At(p, "user"),
         NEW pc \in {"read", "write"}, NEW n \in Nat, NEW g, g = file[ofile[p][fd]].pipe,
         IsEnd(file[ofile[p][fd]], g, pc = "write"),
         th' = [th EXCEPT ![p] = [@ EXCEPT !.pc = pc, !.pipe = g, !.n = n]],
         UNCHANGED <<file, ofile, pipe, iref, killed>>
  PROVE  PipeInv'
<1> DEFINE t == [th[p] EXCEPT !.pc = pc, !.pipe = g, !.n = n]
<1>1. /\ th[p].pc = "user" /\ th[p].closing = FALSE /\ th[p].ff = NoFile /\ th[p].pipe = 0
      /\ th[p].f[1] = 0 /\ th[p].f[2] = 0 /\ th[p] \in ThreadType
  BY UserFacts
<1>2. ofile[p][fd] \in Files /\ file[ofile[p][fd]].type = "pipe"
  BY HeldFiles DEF IsEnd
<1>3. g # 0 /\ g \in 0..NPAGE
  BY <1>2, Parts DEF FilesSound, FileType
<1>4. /\ t \in ThreadType /\ t.pc = pc /\ t.f = th[p].f /\ t.closing = th[p].closing
      /\ t.ff = th[p].ff /\ t.pipe = g
  BY <1>1, <1>3 DEF ThreadType, Reading, Writing
<1>5. th' = [th EXCEPT ![p] = t]
  OBVIOUS
<1> HIDE DEF t
<1>6. /\ th'[p] = t /\ \A q \in Procs : q # p => th'[q] = th[q]
      /\ th' \in [Procs -> ThreadType]
  BY <1>4, <1>5, Parts
<1>7. \A q \in Procs : Quiet(q)
  BY <1>4, <1>6 DEF Quiet, Reading, Writing
<1>8. (pc \in Writing) = (pc = "write") /\ pc \in Reading \union Writing
  BY DEF Reading, Writing
<1>9. HasEnd(p)'
  <2>1. \E e \in Fds : ofile'[p][e] # 0 /\ IsEnd(file'[ofile'[p][e]], g, pc \in Writing)
    BY <1>8
  <2> QED
    BY <2>1, <1>3, <1>4, <1>6, <1>8 DEF HasEnd, IsEnd
<1>10. InsideSound'
  <2>1. \A q \in Procs : HasEnd(q)'
    <3>1. ASSUME NEW q \in Procs, q # p PROVE HasEnd(q)'
      <4>1. HasEnd(q) /\ th'[q] = th[q]
        BY <3>1, <1>6, Parts, InsideParts
      <4> QED
        BY <3>1, <4>1, EndStays
    <3> QED
      BY <3>1, <1>9
  <2>2. \A q \in Procs, h \in Pages : pipe'[h].lock = q <=> Locking(q, h)'
    <3>1. \A q \in Procs, h \in Pages : pipe[h].lock = q <=> Locking(q, h)
      BY Parts, InsideParts
    <3>2. \A q \in Procs, h \in Pages : Locking(q, h)' <=> Locking(q, h)
      BY <1>1, <1>4, <1>6 DEF Locking
    <3> QED
      BY <3>1, <3>2
  <2> QED
    BY <2>1, <2>2, InsideWhole
<1>11. Fifo'
  BY Parts, FifoKept
<1>12. SleepJustified'
  <2>1. \A q \in Procs : \/ th'[q].pc = th[q].pc /\ th'[q].pipe = th[q].pipe
                         \/ th'[q].pc \notin Sleeping
    BY <1>4, <1>6 DEF Sleeping
  <2> QED
    BY <2>1, Parts, SleepKept
<1>13. killed' \subseteq Procs /\ pipe' \in [Pages -> PipeType]
  BY Parts
<1> QED
  BY <1>6, <1>7, <1>10, <1>11, <1>12, <1>13, QuietStep

\* A step of sys_read().
LEMMA SysReadStep ==
  ASSUME PipeInv, NEW p \in Procs, NEW fd \in Fds, NEW n \in ReadSizes, sys_read(p, fd, n)
  PROVE  PipeInv'
<1> DEFINE g == file[ofile[p][fd]].pipe
<1>1. At(p, "user") /\ ofile[p][fd] # 0 /\ n \in Nat
  BY PipeAssumption DEF sys_read, Call, argfd
<1>2. IsEnd(file[ofile[p][fd]], g, "read" = "write")
  <2>1. ofile[p][fd] \in Files
    BY <1>1, HeldFiles
  <2>2. file[ofile[p][fd]].writable \in BOOLEAN
    BY <2>1, Parts DEF FileType
  <2>3. file[ofile[p][fd]].writable = FALSE /\ file[ofile[p][fd]].type = "pipe"
    BY <2>2 DEF sys_read
  <2>4. ("read" = "write") = FALSE
    OBVIOUS
  <2> QED
    BY <2>3, <2>4 DEF IsEnd
<1>3. /\ th' = [th EXCEPT ![p] = [@ EXCEPT !.pc = "read", !.pipe = g, !.n = n]]
      /\ UNCHANGED <<file, ofile, pipe, iref, killed>>
  BY DEF sys_read
<1> QED
  BY <1>1, <1>2, <1>3, EnterStep

\* A step of sys_write().
LEMMA SysWriteStep ==
  ASSUME PipeInv, NEW p \in Procs, NEW fd \in Fds, NEW n \in WriteSizes, sys_write(p, fd, n)
  PROVE  PipeInv'
<1> DEFINE g == file[ofile[p][fd]].pipe
<1>1. At(p, "user") /\ ofile[p][fd] # 0 /\ n \in Nat
  BY PipeAssumption DEF sys_write, Call, argfd
<1>2. IsEnd(file[ofile[p][fd]], g, "write" = "write")
  <2>1. ofile[p][fd] \in Files
    BY <1>1, HeldFiles
  <2>2. file[ofile[p][fd]].writable \in BOOLEAN
    BY <2>1, Parts DEF FileType
  <2>3. file[ofile[p][fd]].writable = TRUE /\ file[ofile[p][fd]].type = "pipe"
    BY <2>2 DEF sys_write
  <2>4. ("write" = "write") = TRUE
    OBVIOUS
  <2> QED
    BY <2>3, <2>4 DEF IsEnd
<1>3. /\ th' = [th EXCEPT ![p] = [@ EXCEPT !.pc = "write", !.pipe = g, !.n = n]]
      /\ UNCHANGED <<file, ofile, pipe, iref, killed>>
  BY DEF sys_write
<1> QED
  BY <1>1, <1>2, <1>3, EnterStep

\* The lock of pipe g goes between nobody and p, who was inside g.
LEMMA LockMoves ==
  ASSUME InsideSound, NEW p \in Procs, NEW g \in Pages, th[p].pipe = g,
         \A h \in Pages : h # g => pipe'[h].lock = pipe[h].lock,
         pipe[g].lock \in {0, p}, pipe'[g].lock \in {0, p},
         \A q \in Procs : q # p =>
            /\ th'[q].pipe = th[q].pipe
            /\ th'[q].pc \in {"read_sleep", "write_sleep"}
                  <=> th[q].pc \in {"read_sleep", "write_sleep"},
         th'[p].pc \in {"read_sleep", "write_sleep"} => th'[p].pipe = g,
         pipe'[g].lock = p <=> th'[p].pc \in {"read_sleep", "write_sleep"}
  PROVE  \A q \in Procs, h \in Pages : pipe'[h].lock = q <=> Locking(q, h)'
<1>1. \A q \in Procs, h \in Pages : pipe[h].lock = q <=> Locking(q, h)
  BY InsideParts
<1> TAKE q \in Procs, h \in Pages
<1>2. q # 0 /\ (pipe[h].lock = q <=> Locking(q, h))
  BY <1>1, Indices
<1>3. CASE q = p /\ h = g
  BY <1>3 DEF Locking
<1>4. CASE q = p /\ h # g
  <2>1. ~Locking(q, h) /\ ~Locking(q, h)'
    BY <1>4 DEF Locking
  <2> QED
    BY <1>2, <1>4, <2>1
<1>5. CASE q # p /\ h = g
  <2>1. ~Locking(q, h) /\ pipe'[h].lock # q
    BY <1>2, <1>5
  <2>2. Locking(q, h)' <=> Locking(q, h)
    BY <1>5 DEF Locking
  <2> QED
    BY <2>1, <2>2
<1>6. CASE q # p /\ h # g
  <2>1. Locking(q, h)' <=> Locking(q, h)
    BY <1>6 DEF Locking
  <2> QED
    BY <1>2, <1>6, <2>1
<1> QED
  BY <1>3, <1>4, <1>5, <1>6

\* Nothing is written or read.
LEMMA CountersSame ==
  ASSUME Fifo, \A h \in Pages : /\ pipe'[h].nread = pipe[h].nread
                                /\ pipe'[h].nwrite = pipe[h].nwrite
                                /\ pipe'[h].data = pipe[h].data
  PROVE  (\A h \in Pages : Count(h)' = Count(h)) /\ Fifo'
<1>1. \A h \in Pages : Count(h)' = Count(h)
  BY DEF Count
<1>2. \A h \in Pages : copyout(h)' = copyout(h)
  <2> TAKE h \in Pages
  <2>1. copyout(h)' = [i \in 1..Count(h)' |-> pipe'[h].data[(pipe'[h].nread + i - 1) % PIPESIZE]]
    BY DEF copyout, Count
  <2>2. copyout(h)' = [i \in 1..Count(h) |-> pipe[h].data[(pipe[h].nread + i - 1) % PIPESIZE]]
    BY <1>1, <2>1
  <2> QED
    BY <2>2 DEF copyout
<1>3. Fifo'
  <2> SUFFICES ASSUME NEW h \in Pages
               PROVE  /\ Count(h)' <= PIPESIZE
                      /\ copyout(h)' = [i \in 1..Count(h)' |-> (pipe'[h].nread + i - 1) % UINT]
    BY DEF Fifo, Count, copyout
  <2>1. /\ Count(h) <= PIPESIZE
        /\ copyout(h) = [i \in 1..Count(h) |-> (pipe[h].nread + i - 1) % UINT]
    BY DEF Fifo
  <2> QED
    BY <1>1, <1>2, <2>1
<1> QED
  BY <1>1, <1>3

\* The parts of SleepJustified.
SleepAt(q) ==
  /\ th[q].pc \in {"write_sleep", "nwrite"} => Count(th[q].pipe) = PIPESIZE
  /\ th[q].pc = "read_sleep" => Count(th[q].pipe) = 0
  /\ th[q].pc = "nread" /\ killed = {} => Count(th[q].pipe) = 0

\* SleepJustified, process by process.
LEMMA SleepParts ==
  ASSUME PipeInv
  PROVE  \A q \in Procs : SleepAt(q)
  BY Parts DEF SleepJustified, SleepAt

\* SleepJustified from its parts.
LEMMA SleepWhole ==
  ASSUME \A q \in Procs : SleepAt(q)'
  PROVE  SleepJustified'
  BY DEF SleepJustified, SleepAt, Count

\* A process that the step leaves asleep, in a pipe whose count stays.
LEMMA SleepStays ==
  ASSUME PipeInv, NEW q \in Procs, killed' = {} => killed = {},
         \/ th'[q].pc \notin Sleeping
         \/ /\ th'[q].pc = th[q].pc /\ th'[q].pipe = th[q].pipe
            /\ Count(th[q].pipe)' = Count(th[q].pipe)
  PROVE  SleepAt(q)'
<1>1. SleepAt(q)
  BY SleepParts
<1>2. CASE th'[q].pc \notin Sleeping
  BY <1>2 DEF Sleeping, SleepAt
<1>3. CASE /\ th'[q].pc = th[q].pc /\ th'[q].pipe = th[q].pipe
           /\ Count(th[q].pipe)' = Count(th[q].pipe)
  BY <1>1, <1>3 DEF SleepAt
<1> QED
  BY <1>2, <1>3

\* A step of sleep() that releases the lock of the pipe.
LEMMA PipesleepStep ==
  ASSUME PipeInv, NEW p \in Procs, pipesleep(p)
  PROVE  PipeInv'
<1> DEFINE g == th[p].pipe
           r == [pipe[g] EXCEPT !.lock = 0]
           to == IF th[p].pc = "read_sleep" THEN "nread" ELSE "nwrite"
           t == [th[p] EXCEPT !.pc = to]
<1>1. /\ th[p].pc \in {"read_sleep", "write_sleep"}
      /\ pipe' = [pipe EXCEPT ![g] = r] /\ th' = [th EXCEPT ![p] = t]
      /\ UNCHANGED <<file, ofile, iref, killed>>
  BY DEF pipesleep
<1>2. th[p] \in ThreadType /\ g \in Pages
  BY <1>1, Parts, CallPipe DEF Reading, Writing
<1>3. \/ th[p].pc = "read_sleep" /\ to = "nread"
      \/ th[p].pc = "write_sleep" /\ to = "nwrite"
  BY <1>1
<1> HIDE DEF to
<1>4. /\ t \in ThreadType /\ t.pc = to /\ t.f = th[p].f /\ t.closing = th[p].closing
      /\ t.ff = th[p].ff /\ t.pipe = g
  BY <1>2, <1>3 DEF ThreadType, Reading, Writing
<1>5. pipe[g] \in PipeType /\ 0 \in 0..NPROC
  BY <1>2, Parts, Indices
<1>6. /\ r \in PipeType /\ r.lock = 0 /\ r.nread = pipe[g].nread /\ r.nwrite = pipe[g].nwrite
      /\ r.data = pipe[g].data /\ r.alloc = pipe[g].alloc
      /\ r.readopen = pipe[g].readopen /\ r.writeopen = pipe[g].writeopen
  BY <1>5 DEF PipeType
<1>7. th[p].pipe = g
  OBVIOUS
<1> HIDE DEF t, r, g
<1>8. /\ th'[p] = t /\ \A q \in Procs : q # p => th'[q] = th[q]
      /\ th' \in [Procs -> ThreadType]
      /\ pipe'[g] = r /\ \A h \in Pages : h # g => pipe'[h] = pipe[h]
      /\ pipe' \in [Pages -> PipeType]
  BY <1>1, <1>2, <1>4, <1>6, Parts
<1>9. \A q \in Procs : Quiet(q)
  BY <1>3, <1>4, <1>8 DEF Quiet, Reading, Writing
<1>10. InsideSound'
  <2>1. \A q \in Procs : HasEnd(q)'
    <3> TAKE q \in Procs
    <3>1. HasEnd(q)
      BY Parts, InsideParts
    <3>2. /\ th'[q].pc \in Reading <=> th[q].pc \in Reading
          /\ th'[q].pc \in Writing <=> th[q].pc \in Writing
          /\ th'[q].pipe = th[q].pipe
      BY <1>3, <1>4, <1>7, <1>8 DEF Reading, Writing
    <3> QED
      BY <1>1, <3>1, <3>2, EndStays
  <2>2. \A q \in Procs, h \in Pages : pipe'[h].lock = q <=> Locking(q, h)'
    <3>1. pipe[g].lock = p
      BY <1>1, <1>2, <1>7, Parts, InsideParts DEF Locking
    <3>2. pipe'[g].lock = 0 /\ p # 0 /\ th'[p].pc \notin {"read_sleep", "write_sleep"}
      BY <1>3, <1>4, <1>6, <1>8, Indices
    <3>3. \A q \in Procs : q # p =>
            /\ th'[q].pipe = th[q].pipe
            /\ th'[q].pc \in {"read_sleep", "write_sleep"}
                  <=> th[q].pc \in {"read_sleep", "write_sleep"}
      BY <1>8
    <3>4. \A h \in Pages : h # g => pipe'[h].lock = pipe[h].lock
      BY <1>8
    <3> QED
      BY <1>2, <1>7, <3>1, <3>2, <3>3, <3>4, Parts, LockMoves
  <2> QED
    BY <2>1, <2>2, InsideWhole
<1>11. (\A h \in Pages : Count(h)' = Count(h)) /\ Fifo'
  <2>1. \A h \in Pages : /\ pipe'[h].nread = pipe[h].nread
                         /\ pipe'[h].nwrite = pipe[h].nwrite
                         /\ pipe'[h].data = pipe[h].data
    BY <1>6, <1>8
  <2> QED
    BY <2>1, Parts, CountersSame
<1>12. \A q \in Procs : SleepAt(q)'
  <2>1. ASSUME NEW q \in Procs, q # p PROVE SleepAt(q)'
    <3>1. th'[q] = th[q]
      BY <2>1, <1>8
    <3>2. CASE th[q].pc \in Sleeping
      <4>1. th[q].pipe \in Pages
        BY <2>1, <3>2, CallPipe DEF Sleeping, Reading, Writing
      <4>2. Count(th[q].pipe)' = Count(th[q].pipe)
        BY <3>1, <4>1, <1>8, <1>6 DEF Count
      <4> QED
        BY <2>1, <1>1, <3>1, <4>2, SleepStays
    <3>3. CASE th[q].pc \notin Sleeping
      BY <2>1, <1>1, <3>1, <3>3, SleepStays
    <3> QED
      BY <3>2, <3>3
  <2>2. SleepAt(p)'
    <3>1. SleepAt(p)
      BY SleepParts
    <3>2. th'[p].pc = to /\ th'[p].pipe = g /\ th[p].pipe = g
      BY <1>4, <1>7, <1>8
    <3>3. Count(th[p].pipe)' = Count(g)
      <4>1. Count(th[p].pipe)' = (pipe'[th'[p].pipe].nwrite + UINT - pipe'[th'[p].pipe].nread) % UINT
        BY DEF Count
      <4> QED
        BY <4>1, <3>2, <1>6, <1>8 DEF Count
    <3> QED
      BY <3>1, <3>2, <3>3, <1>3 DEF SleepAt
  <2> QED
    BY <2>1, <2>2
<1>13. SleepJustified'
  BY <1>12, SleepWhole
<1>14. \A h \in Pages : /\ pipe'[h].alloc = pipe[h].alloc
                        /\ pipe'[h].readopen = pipe[h].readopen
                        /\ pipe'[h].writeopen = pipe[h].writeopen
  BY <1>6, <1>8
<1>15. killed' \subseteq Procs
  BY <1>1, Parts
<1> QED
  BY <1>1, <1>8, <1>9, <1>10, <1>11, <1>13, <1>14, <1>15, QuietStep

-----------------------------------------------------------------------------
(* pipeclose() *)

\* What pipeclose() does to the calls: p is done with its copy of the file, and
\* sleepers of the pipe may be woken.
ClosedBy(p) ==
  /\ th' \in [Procs -> ThreadType] /\ th'[p].ff = NoFile
  /\ \A q \in Procs :
        /\ th'[q].f = th[q].f /\ th'[q].closing = th[q].closing /\ th'[q].pipe = th[q].pipe
        /\ q # p => th'[q].ff = th[q].ff
        /\ \/ th'[q].pc = th[q].pc
           \/ th[q].pc = "nread" /\ th'[q].pc = "read"
           \/ th[q].pc = "nwrite" /\ th'[q].pc = "write"

\* What it does to the pipe of page g, for end w.
EndOff(g, w) ==
  LET ro == pipe[g].readopen /\ w
      wo == pipe[g].writeopen /\ ~w
  IN  /\ pipe' \in [Pages -> PipeType] /\ \A h \in Pages : h # g => pipe'[h] = pipe[h]
      /\ pipe'[g].readopen = ro /\ pipe'[g].writeopen = wo /\ pipe'[g].alloc = (ro \/ wo)
      /\ pipe'[g].lock = 0
      /\ ro \/ wo => /\ pipe'[g].nread = pipe[g].nread /\ pipe'[g].nwrite = pipe[g].nwrite
                     /\ pipe'[g].data = pipe[g].data
      /\ ~(ro \/ wo) => pipe'[g].nread = 0 /\ pipe'[g].nwrite = 0

\* An end of the pipe of page g is closed.
LEMMA EndOffStep ==
  ASSUME PipeInv, NEW p \in Procs, NEW g \in Pages, NEW w \in BOOLEAN,
         IsEnd(th[p].ff, g, w), pipe[g].lock = 0, ClosedBy(p), EndOff(g, w),
         UNCHANGED <<file, ofile, iref, killed>>
  PROVE  PipeInv'
<1>1. /\ th' \in [Procs -> ThreadType] /\ th'[p].ff = NoFile
      /\ \A q \in Procs :
            /\ th'[q].f = th[q].f /\ th'[q].closing = th[q].closing /\ th'[q].pipe = th[q].pipe
            /\ q # p => th'[q].ff = th[q].ff
            /\ \/ th'[q].pc = th[q].pc
               \/ th[q].pc = "nread" /\ th'[q].pc = "read"
               \/ th[q].pc = "nwrite" /\ th'[q].pc = "write"
  BY DEF ClosedBy
<1>2. pipe' \in [Pages -> PipeType] /\ \A h \in Pages : h # g => pipe'[h] = pipe[h]
  BY DEF EndOff
<1>3. TypeOK'
  BY <1>1, <1>2, Parts DEF TypeOK
<1>4. RefsExact'
  <2>1. \A f \in Files : nFd(f)' = nFd(f)
    BY FdSame
  <2>2. \A f \in Files : nHand(f)' = nHand(f)
    BY <1>1, HandSame
  <2>3. \A f \in Files : file[f].ref = nFd(f) + nHand(f)
    BY Parts, RefsSum
  <2>4. \A f \in Files : file'[f].ref = nFd(f)' + nHand(f)'
    BY <2>1, <2>2, <2>3
  <2> QED
    BY <2>4, RefsReach
<1>5. th[p].ff.type = "pipe" /\ NoFile.type = "none"
  BY DEF IsEnd, NoFile
<1>6. InodeRefsExact'
  <2>1. \A q \in Procs : th'[q].ff.type = "inode" <=> th[q].ff.type = "inode"
    BY <1>1, <1>5
  <2>2. \A f \in Files : file'[f].type = "inode" <=> file[f].type = "inode"
    OBVIOUS
  <2> QED
    BY Parts, <2>1, <2>2, InodesKept
<1>7. FilesSound'
  BY Parts DEF FilesSound
\* The copy in fileclose() was the only file for that end.
<1>8. \A q \in Procs, h \in Pages, v \in BOOLEAN :
         IsEnd(th'[q].ff, h, v) <=> IsEnd(th[q].ff, h, v) /\ q # p
  <2> TAKE q \in Procs, h \in Pages, v \in BOOLEAN
  <2>1. CASE q = p
    <3>1. th'[q].ff = NoFile
      BY <2>1, <1>1
    <3> QED
      BY <2>1, <3>1, <1>5 DEF IsEnd
  <2>2. CASE q # p
    <3>1. th'[q].ff = th[q].ff
      BY <2>2, <1>1
    <3> QED
      BY <2>2, <3>1
  <2> QED
    BY <2>1, <2>2
<1>9. /\ \A f \in Files : ~IsEnd(file[f], g, w)
      /\ \A q \in Procs : IsEnd(th[q].ff, g, w) => q = p
      /\ \A h \in Pages, v \in BOOLEAN : IsEnd(th[p].ff, h, v) => h = g /\ v = w
  <2>1. /\ \A z, q \in Procs : IsEnd(th[z].ff, g, w) /\ IsEnd(th[q].ff, g, w) => z = q
        /\ \A f \in Files, q \in Procs : ~(IsEnd(file[f], g, w) /\ IsEnd(th[q].ff, g, w))
    BY Parts DEF EndsUnique
  <2>2. \A h \in Pages, v \in BOOLEAN : IsEnd(th[p].ff, h, v) => h = g /\ v = w
    BY DEF IsEnd
  <2> QED
    BY <2>1, <2>2
<1>10. ASSUME NEW h \in Pages, NEW v \in BOOLEAN
       PROVE  End(h, v)' <=> End(h, v) /\ ~(h = g /\ v = w)
  <2>1. End(h, v)' <=> \/ \E f \in Files : IsEnd(file'[f], h, v)
                       \/ \E q \in Procs : IsEnd(th'[q].ff, h, v)
    BY DEF End, IsEnd
  <2>2. End(h, v) <=> \/ \E f \in Files : IsEnd(file[f], h, v)
                      \/ \E q \in Procs : IsEnd(th[q].ff, h, v)
    BY DEF End
  <2>3. \A q \in Procs : IsEnd(th'[q].ff, h, v) <=> IsEnd(th[q].ff, h, v) /\ q # p
    BY <1>8, <1>10
  <2>4. CASE h = g /\ v = w
    <3>1. (\A f \in Files : ~IsEnd(file'[f], h, v)) /\ \A q \in Procs : ~IsEnd(th'[q].ff, h, v)
      BY <2>3, <2>4, <1>9
    <3> QED
      BY <2>1, <2>4, <3>1
  <2>5. CASE ~(h = g /\ v = w)
    <3>1. ~IsEnd(th[p].ff, h, v)
      BY <2>5, <1>9, <1>10
    <3>2. \A q \in Procs : IsEnd(th'[q].ff, h, v) <=> IsEnd(th[q].ff, h, v)
      BY <2>3, <3>1
    <3> QED
      BY <2>1, <2>2, <2>5, <3>2
  <2> QED
    BY <2>4, <2>5
<1>11. PipePageOwned'
  <2> SUFFICES ASSUME NEW h \in Pages
               PROVE  /\ pipe'[h].readopen = End(h, FALSE)'
                      /\ pipe'[h].writeopen = End(h, TRUE)'
                      /\ pipe'[h].alloc = (End(h, FALSE)' \/ End(h, TRUE)')
    BY DEF PipePageOwned
  <2>1. /\ pipe[h].readopen = End(h, FALSE)
        /\ pipe[h].writeopen = End(h, TRUE)
        /\ pipe[h].alloc = (End(h, FALSE) \/ End(h, TRUE))
    BY Parts DEF PipePageOwned
  <2>2. End(h, FALSE) \in BOOLEAN /\ End(h, TRUE) \in BOOLEAN
        /\ End(h, FALSE)' \in BOOLEAN /\ End(h, TRUE)' \in BOOLEAN
    BY DEF End
  <2>3. /\ End(h, FALSE)' <=> End(h, FALSE) /\ ~(h = g /\ FALSE = w)
        /\ End(h, TRUE)' <=> End(h, TRUE) /\ ~(h = g /\ TRUE = w)
    BY <1>10
  <2>4. CASE h = g
    <3>1. /\ pipe'[h].readopen = (pipe[h].readopen /\ w)
          /\ pipe'[h].writeopen = (pipe[h].writeopen /\ ~w)
          /\ pipe'[h].alloc = ((pipe[h].readopen /\ w) \/ (pipe[h].writeopen /\ ~w))
      BY <2>4 DEF EndOff
    <3>2. CASE w = TRUE
      <4>1. (End(h, FALSE)' <=> End(h, FALSE)) /\ ~End(h, TRUE)'
        BY <2>3, <2>4, <3>2
      <4>2. pipe'[h].readopen = End(h, FALSE) /\ pipe'[h].writeopen = FALSE
            /\ pipe'[h].alloc = End(h, FALSE)
        BY <2>1, <2>2, <3>1, <3>2
      <4> QED
        BY <2>2, <4>1, <4>2
    <3>3. CASE w = FALSE
      <4>1. (End(h, TRUE)' <=> End(h, TRUE)) /\ ~End(h, FALSE)'
        BY <2>3, <2>4, <3>3
      <4>2. pipe'[h].writeopen = End(h, TRUE) /\ pipe'[h].readopen = FALSE
            /\ pipe'[h].alloc = End(h, TRUE)
        BY <2>1, <2>2, <3>1, <3>3
      <4> QED
        BY <2>2, <4>1, <4>2
    <3> QED
      BY <3>2, <3>3
  <2>5. CASE h # g
    <3>1. pipe'[h] = pipe[h]
      BY <2>5, <1>2
    <3>2. (End(h, FALSE)' <=> End(h, FALSE)) /\ (End(h, TRUE)' <=> End(h, TRUE))
      BY <2>3, <2>5
    <3> QED
      BY <2>1, <2>2, <3>1, <3>2
  <2> QED
    BY <2>4, <2>5
<1>12. EndsUnique'
  <2> SUFFICES ASSUME NEW h \in Pages, NEW v \in BOOLEAN
               PROVE  /\ \A f, k \in Files : IsEnd(file'[f], h, v) /\ IsEnd(file'[k], h, v)
                                                => f = k
                      /\ \A z, q \in Procs : IsEnd(th'[z].ff, h, v) /\ IsEnd(th'[q].ff, h, v)
                                                => z = q
                      /\ \A f \in Files, q \in Procs :
                            ~(IsEnd(file'[f], h, v) /\ IsEnd(th'[q].ff, h, v))
    BY DEF EndsUnique, IsEnd
  <2>1. /\ \A f, k \in Files : IsEnd(file[f], h, v) /\ IsEnd(file[k], h, v) => f = k
        /\ \A z, q \in Procs : IsEnd(th[z].ff, h, v) /\ IsEnd(th[q].ff, h, v) => z = q
        /\ \A f \in Files, q \in Procs : ~(IsEnd(file[f], h, v) /\ IsEnd(th[q].ff, h, v))
    BY Parts DEF EndsUnique
  <2>2. \A q \in Procs : IsEnd(th'[q].ff, h, v) => IsEnd(th[q].ff, h, v)
    BY <1>8
  <2> QED
    BY <2>1, <2>2
<1>13. HandsSound'
  <2>1. ASSUME NEW q \in Procs PROVE HandSound(q)'
    <3>1. HandSound(q)
      BY <2>1, Parts
    <3>2. CASE q # p
      <4>1. \/ th'[q].pc = th[q].pc
            \/ th[q].pc \in Reading \union Writing /\ th'[q].pc \in Reading \union Writing
        BY <2>1, <1>1 DEF Reading, Writing
      <4> QED
        BY <2>1, <3>1, <3>2, <4>1, <1>1, HandKept
    <3>3. CASE q = p
      <4>1. th[p].ff # NoFile
        BY <1>5
      <4>2. th[p].pc \in {"user", "exit"}
        BY <3>1, <3>3, <4>1 DEF HandSound
      <4>3. th'[p].pc = th[p].pc
        BY <4>2, <1>1
      <4>4. /\ th'[p].f = th[p].f /\ th'[p].closing = th[p].closing /\ th'[p].ff = NoFile
        BY <1>1
      <4> QED
        BY <3>1, <3>3, <4>3, <4>4, <1>5 DEF HandSound
    <3> QED
      BY <3>2, <3>3
  <2> QED
    BY <2>1 DEF HandsSound
<1>14. \A q \in Procs : HasEnd(q)'
  <2> TAKE q \in Procs
  <2>1. HasEnd(q)
    BY Parts, InsideParts
  <2>2. /\ th'[q].pc \in Reading <=> th[q].pc \in Reading
        /\ th'[q].pc \in Writing <=> th[q].pc \in Writing
    BY <1>1 DEF Reading, Writing
  <2> QED
    BY <1>1, <2>1, <2>2, EndStays
<1>15. InsideSound'
  <2>1. \A q \in Procs, h \in Pages : pipe[h].lock = q <=> Locking(q, h)
    BY Parts, InsideParts
  <2>2. \A h \in Pages : pipe'[h].lock = pipe[h].lock
    BY <1>2 DEF EndOff
  <2>3. \A q \in Procs, h \in Pages : Locking(q, h)' <=> Locking(q, h)
    BY <1>1 DEF Locking
  <2>4. \A q \in Procs, h \in Pages : pipe'[h].lock = q <=> Locking(q, h)'
    BY <2>1, <2>2, <2>3
  <2> QED
    BY <2>4, <1>14, InsideWhole
\* The page is only freed when nobody is inside the pipe.
<1>16. \/ /\ pipe'[g].nread = pipe[g].nread /\ pipe'[g].nwrite = pipe[g].nwrite
          /\ pipe'[g].data = pipe[g].data
       \/ /\ pipe'[g].nread = 0 /\ pipe'[g].nwrite = 0
          /\ \A q \in Procs : th[q].pipe # g
  <2>1. CASE pipe'[g].alloc
    BY <2>1 DEF EndOff
  <2>2. CASE ~pipe'[g].alloc
    <3>1. pipe'[g].nread = 0 /\ pipe'[g].nwrite = 0
      BY <2>2 DEF EndOff
    <3>2. ~End(g, FALSE)' /\ ~End(g, TRUE)'
      BY <2>2, <1>11 DEF PipePageOwned
    <3>3. ASSUME NEW q \in Procs, th[q].pipe = g PROVE FALSE
      <4> DEFINE v == th'[q].pc \in Writing
      <4>1. th'[q].pipe = g /\ g # 0
        BY <3>3, <1>1, Indices
      <4>2. HasEnd(q)'
        BY <3>3, <1>14
      <4>3. PICK fd \in Fds : ofile'[q][fd] # 0 /\ IsEnd(file'[ofile'[q][fd]], g, v)
        BY <4>1, <4>2 DEF HasEnd, IsEnd
      <4>4. ofile'[q][fd] \in Files /\ v \in BOOLEAN
        BY <3>3, <4>3, HeldFiles
      <4>5. \A f \in Files : ~IsEnd(file'[f], g, TRUE) /\ ~IsEnd(file'[f], g, FALSE)
        BY <3>2 DEF End, IsEnd
      <4> HIDE DEF v
      <4>6. v = TRUE \/ v = FALSE
        BY <4>4
      <4> QED
        BY <4>3, <4>4, <4>5, <4>6
    <3> QED
      BY <3>1, <3>3
  <2> QED
    BY <2>1, <2>2
<1>17. Fifo'
  <2>1. CASE /\ pipe'[g].nread = pipe[g].nread /\ pipe'[g].nwrite = pipe[g].nwrite
             /\ pipe'[g].data = pipe[g].data
    <3>1. \A h \in Pages : /\ pipe'[h].nread = pipe[h].nread
                           /\ pipe'[h].nwrite = pipe[h].nwrite
                           /\ pipe'[h].data = pipe[h].data
      BY <2>1, <1>2
    <3> QED
      BY <3>1, Parts, CountersSame
  <2>2. CASE pipe'[g].nread = 0 /\ pipe'[g].nwrite = 0
    <3>1. FifoAt(g)'
      BY <2>2, FifoEmpty
    <3> QED
      BY <3>1, <1>2, Parts, FifoOne
  <2> QED
    BY <1>16, <2>1, <2>2
<1>18. \A q \in Procs : SleepAt(q)'
  <2> TAKE q \in Procs
  <2>1. CASE th'[q].pc \in Sleeping
    <3>1. th'[q].pc = th[q].pc /\ th'[q].pipe = th[q].pipe
      BY <2>1, <1>1 DEF Sleeping
    <3>2. th[q].pipe \in Pages
      BY <2>1, <3>1, CallPipe DEF Sleeping, Reading, Writing
    <3>3. /\ pipe'[th[q].pipe].nread = pipe[th[q].pipe].nread
          /\ pipe'[th[q].pipe].nwrite = pipe[th[q].pipe].nwrite
      BY <3>2, <1>2, <1>16
    <3>4. Count(th[q].pipe)' = Count(th[q].pipe)
      BY <3>1, <3>3 DEF Count
    <3> QED
      BY <3>1, <3>4, SleepStays
  <2>2. CASE th'[q].pc \notin Sleeping
    BY <2>2, SleepStays
  <2> QED
    BY <2>1, <2>2
<1>19. SleepJustified'
  BY <1>18, SleepWhole
<1> QED
  BY <1>3, <1>4, <1>6, <1>7, <1>11, <1>12, <1>13, <1>15, <1>17, <1>19 DEF PipeInv, FilesInv

\* A step of pipeclose().
LEMMA PipecloseStep ==
  ASSUME PipeInv, NEW p \in Procs, pipeclose(p)
  PROVE  PipeInv'
<1>1. PICK g, w : g = th[p].ff.pipe /\ w = th[p].ff.writable
  OBVIOUS
<1> DEFINE after == [pipe[g] EXCEPT !.readopen = @ /\ w, !.writeopen = @ /\ ~w]
           new == IF after.readopen \/ after.writeopen THEN after ELSE NoPipe
           t == [th[p] EXCEPT !.ff = NoFile]
           th1 == [th EXCEPT ![p] = t]
           chans == {IF w THEN "nread" ELSE "nwrite"}
<1>2. /\ th[p].ff.type = "pipe" /\ pipe[g].lock = 0
      /\ pipe' = [pipe EXCEPT ![g] = new]
      /\ th' = wakeup(g, chans, th1)
      /\ UNCHANGED <<file, ofile, iref, killed>>
  BY <1>1 DEF pipeclose
<1>3. HandSound(p) /\ th[p] \in ThreadType
  BY Parts
<1>4. g \in Pages /\ w \in BOOLEAN /\ IsEnd(th[p].ff, g, w)
  <2>1. th[p].ff \in FileType /\ th[p].ff.pipe # 0
    BY <1>2, <1>3 DEF HandSound, ThreadType
  <2> QED
    BY <1>1, <1>2, <2>1, Indices DEF FileType, IsEnd
<1>5. ClosedBy(p)
  <2>1. NoFile \in FileType
    BY Indices DEF NoFile, FileType
  <2>2. /\ t \in ThreadType /\ t.pc = th[p].pc /\ t.f = th[p].f /\ t.closing = th[p].closing
        /\ t.ff = NoFile /\ t.pipe = th[p].pipe
    BY <1>3, <2>1 DEF ThreadType
  <2> HIDE DEF t
  <2>3. /\ th1 \in [Procs -> ThreadType] /\ th1[p] = t
        /\ \A q \in Procs : q # p => th1[q] = th[q]
    BY <2>2, Parts
  <2>4. chans \subseteq {"nread", "nwrite"}
    OBVIOUS
  <2>5. th' = wakeup(g, chans, th1)
    BY <1>2
  <2> HIDE DEF th1, chans
  <2>6. /\ th' \in [Procs -> ThreadType]
        /\ \A q \in Procs :
               /\ th'[q].f = th1[q].f /\ th'[q].closing = th1[q].closing /\ th'[q].ff = th1[q].ff
               /\ th'[q].pipe = th1[q].pipe
               /\ \/ th'[q] = th1[q]
                  \/ th1[q].pc = "nread" /\ th'[q].pc = "read"
                  \/ th1[q].pc = "nwrite" /\ th'[q].pc = "write"
    <3>1. IsWoken(th', th1, g, chans)
      BY <2>3, <2>4, <2>5, Wakeup
    <3> QED
      BY <3>1 DEF IsWoken
  <2>7. \A q \in Procs : /\ th1[q].f = th[q].f /\ th1[q].closing = th[q].closing
                         /\ th1[q].pipe = th[q].pipe /\ th1[q].pc = th[q].pc
                         /\ q # p => th1[q].ff = th[q].ff
    BY <2>2, <2>3
  <2>8. th'[p].ff = NoFile
    BY <2>2, <2>3, <2>6
  <2>9. ASSUME NEW q \in Procs
        PROVE  /\ th'[q].f = th[q].f /\ th'[q].closing = th[q].closing /\ th'[q].pipe = th[q].pipe
               /\ q # p => th'[q].ff = th[q].ff
               /\ \/ th'[q].pc = th[q].pc
                  \/ th[q].pc = "nread" /\ th'[q].pc = "read"
                  \/ th[q].pc = "nwrite" /\ th'[q].pc = "write"
    BY <2>6, <2>7, <2>9
  <2> QED
    BY <2>6, <2>8, <2>9 DEF ClosedBy
<1>6. EndOff(g, w)
  <2>1. pipe[g] \in PipeType /\ pipe[g].readopen \in BOOLEAN /\ pipe[g].writeopen \in BOOLEAN
    BY <1>4, Parts DEF PipeType
  <2>2. /\ after \in PipeType
        /\ after.readopen = (pipe[g].readopen /\ w) /\ after.writeopen = (pipe[g].writeopen /\ ~w)
        /\ after.alloc = pipe[g].alloc /\ after.lock = pipe[g].lock
        /\ after.nread = pipe[g].nread /\ after.nwrite = pipe[g].nwrite
        /\ after.data = pipe[g].data
    BY <1>4, <2>1 DEF PipeType
  <2>3. /\ NoPipe \in PipeType /\ NoPipe.alloc = FALSE /\ NoPipe.readopen = FALSE
        /\ NoPipe.writeopen = FALSE /\ NoPipe.lock = 0 /\ NoPipe.nread = 0 /\ NoPipe.nwrite = 0
    BY Opened DEF NoPipe
  <2>4. pipe[g].alloc = TRUE
    <3>1. End(g, w)
      BY <1>4 DEF End
    <3>2. pipe[g].alloc = (End(g, FALSE) \/ End(g, TRUE))
      BY <1>4, Parts DEF PipePageOwned
    <3>3. End(g, FALSE) \/ End(g, TRUE)
      <4>1. CASE w = TRUE
        BY <3>1, <4>1
      <4>2. CASE w = FALSE
        BY <3>1, <4>2
      <4> QED
        BY <1>4, <4>1, <4>2
    <3> QED
      BY <3>2, <3>3
  <2> HIDE DEF after
  <2>5. \/ new = after /\ (after.readopen \/ after.writeopen)
        \/ new = NoPipe /\ ~(after.readopen \/ after.writeopen)
    OBVIOUS
  <2>a. after.readopen \in BOOLEAN /\ after.writeopen \in BOOLEAN
    BY <2>2 DEF PipeType
  <2> HIDE DEF new
  <2>6. /\ pipe' \in [Pages -> PipeType] /\ \A h \in Pages : h # g => pipe'[h] = pipe[h]
        /\ pipe'[g] = new
    <3>1. new \in PipeType
      BY <2>2, <2>3, <2>5
    <3>2. pipe' = [pipe EXCEPT ![g] = new]
      BY <1>2 DEF new
    <3> QED
      BY <1>4, <3>1, <3>2, Parts
  <2>7. CASE new = after /\ (after.readopen \/ after.writeopen)
    <3>1. (pipe[g].readopen /\ w) \/ (pipe[g].writeopen /\ ~w)
      BY <2>2, <2>7, <2>a
    <3>2. pipe'[g] = after /\ after.alloc = TRUE /\ after.lock = 0
      BY <1>2, <2>2, <2>4, <2>6, <2>7
    <3>3. pipe'[g].alloc = ((pipe[g].readopen /\ w) \/ (pipe[g].writeopen /\ ~w))
      BY <3>1, <3>2
    <3> QED
      BY <2>2, <2>6, <3>1, <3>2, <3>3 DEF EndOff
  <2>8. CASE new = NoPipe /\ ~(after.readopen \/ after.writeopen)
    BY <2>2, <2>3, <2>6, <2>8, <2>a DEF EndOff
  <2> QED
    BY <2>5, <2>7, <2>8
<1> QED
  BY <1>2, <1>4, <1>5, <1>6, EndOffStep

-----------------------------------------------------------------------------
(* The counters of a ring: nread and nwrite modulo UINT, and the places in the
   buffer modulo PIPESIZE, which divides UINT. *)

\* Quotient and remainder.
LEMMA DivMod ==
  ASSUME NEW m \in Nat, m > 0, NEW x \in Nat
  PROVE  x \div m \in Nat /\ x = m * (x \div m) + (x % m)
  OBVIOUS

\* A multiple of m is not below m.
LEMMA TimesGeq ==
  ASSUME NEW m \in Nat, NEW e \in Int, e >= 1
  PROVE  m * e >= m
<1>1. e - 1 \in Nat /\ m * e = m + m * (e - 1)
  OBVIOUS
<1>2. m * (e - 1) >= 0
  BY <1>1
<1> QED
  BY <1>1, <1>2

\* Quotient and remainder are unique.
LEMMA ModUnique ==
  ASSUME NEW m \in Nat, m > 0, NEW a \in Nat, NEW b \in Nat, b < m
  PROVE  (m * a + b) % m = b
<1>1. PICK x \in Nat : x = m * a + b
  OBVIOUS
<1>2. PICK c \in Nat, d \in Nat : d = x % m /\ x = m * c + d /\ d < m
  <2>1. x \in Nat
    BY <1>1
  <2>2. x % m \in Nat /\ x % m < m
    BY <2>1, ModSmall
  <2>3. x \div m \in Nat /\ x = m * (x \div m) + (x % m)
    BY <2>1, DivMod
  <2> QED
    BY <2>2, <2>3
<1>3. m * a + b = m * c + d
  BY <1>1, <1>2
<1>4. CASE a = c
  BY <1>1, <1>2, <1>3, <1>4
<1>5. CASE a > c
  <2>1. m * (a - c) >= m
    BY <1>5, TimesGeq
  <2>2. m * (a - c) = m * a - m * c
    OBVIOUS
  <2> QED
    BY <1>2, <1>3, <2>1, <2>2
<1>6. CASE c > a
  <2>1. m * (c - a) >= m
    BY <1>6, TimesGeq
  <2>2. m * (c - a) = m * c - m * a
    OBVIOUS
  <2> QED
    BY <1>2, <1>3, <2>1, <2>2
<1> QED
  BY <1>4, <1>5, <1>6

\* Numbers at a distance less than m.
LEMMA ModApart ==
  ASSUME NEW m \in Nat, m > 0, NEW x \in Nat, NEW d \in Nat, d > 0, d < m
  PROVE  x % m # (x + d) % m
<1>1. PICK a \in Nat, b \in Nat : b = x % m /\ x = m * a + b /\ b < m
  BY DivMod, ModSmall
<1>2. CASE b + d < m
  <2>1. x + d = m * a + (b + d) /\ b + d \in Nat
    BY <1>1
  <2>2. (x + d) % m = b + d
    BY <2>1, <1>2, ModUnique
  <2> QED
    BY <1>1, <2>2
<1>3. CASE b + d >= m
  <2>1. x + d = m * (a + 1) + (b + d - m) /\ b + d - m \in Nat /\ b + d - m < m /\ a + 1 \in Nat
    BY <1>1, <1>3
  <2>2. (x + d) % m = b + d - m
    BY <2>1, ModUnique
  <2> QED
    BY <1>1, <2>2
<1> QED
  BY <1>1, <1>2, <1>3

\* Adding a multiple of m.
LEMMA ModMultiple ==
  ASSUME NEW m \in Nat, m > 0, NEW x \in Nat, NEW u \in Nat, u % m = 0
  PROVE  (x + u) % m = x % m
<1>1. PICK a \in Nat, b \in Nat : b = x % m /\ x = m * a + b /\ b < m
  BY DivMod, ModSmall
<1>2. PICK c \in Nat : u = m * c
  <2>1. u \div m \in Nat /\ u = m * (u \div m) + 0
    BY DivMod
  <2> QED
    BY <2>1
<1>3. x + u = m * (a + c) + b /\ a + c \in Nat
  BY <1>1, <1>2
<1> QED
  BY <1>1, <1>3, ModUnique

\* Reducing a counter modulo UINT changes neither its place in the buffer nor
\* the number of the byte.
LEMMA RingAdd ==
  ASSUME NEW x \in Nat, x < UINT + UINT, NEW j \in Nat
  PROVE  /\ ((x % UINT) + j) % PIPESIZE = (x + j) % PIPESIZE
         /\ ((x % UINT) + j) % UINT = (x + j) % UINT
<1>1. UINT \in Nat /\ UINT > 0 /\ PIPESIZE \in Nat /\ PIPESIZE > 0 /\ UINT % PIPESIZE = 0
  BY Ring
<1>2. CASE x < UINT
  BY <1>1, <1>2, ModSmall
<1>3. CASE x >= UINT
  <2>1. PICK y \in Nat : x = y + UINT /\ x % UINT = y
    <3>1. x % UINT = x - UINT
      BY <1>1, <1>3, ModSmall
    <3> QED
      BY <1>1, <1>3, <3>1
  <2>2. x + j = (y + j) + UINT /\ y + j \in Nat
    BY <1>1, <2>1
  <2>3. ((y + j) + UINT) % PIPESIZE = (y + j) % PIPESIZE
    BY <1>1, <2>2, ModMultiple
  <2>4. UINT % UINT = 0
    BY <1>1, ModSmall
  <2>5. ((y + j) + UINT) % UINT = (y + j) % UINT
    BY <1>1, <2>2, <2>4, ModMultiple
  <2> QED
    BY <2>1, <2>2, <2>3, <2>5
<1> QED
  BY <1>1, <1>2, <1>3

\* The count of a ring: w is c after r.
RingCount(r, w) == (w + UINT - r) % UINT

\* nwrite is nread plus the count of the ring, modulo UINT.
LEMMA RingAhead ==
  ASSUME NEW r \in Nat, r < UINT, NEW w \in Nat, w < UINT
  PROVE  /\ RingCount(r, w) \in Nat /\ RingCount(r, w) < UINT
         /\ w = (r + RingCount(r, w)) % UINT
<1>1. UINT \in Nat /\ UINT > 0
  BY Ring
<1>2. CASE w >= r
  <2>1. RingCount(r, w) = w - r
    <3>1. w + UINT - r \in Nat /\ UINT <= w + UINT - r /\ w + UINT - r < UINT + UINT
      BY <1>1, <1>2
    <3> QED
      BY <1>1, <1>2, <3>1, ModSmall DEF RingCount
  <2>2. r + RingCount(r, w) = w
    BY <2>1
  <2> QED
    BY <1>1, <1>2, <2>1, <2>2, ModSmall
<1>3. CASE w < r
  <2>1. RingCount(r, w) = w + UINT - r
    <3>1. w + UINT - r \in Nat /\ w + UINT - r < UINT
      BY <1>1, <1>3
    <3> QED
      BY <1>1, <3>1, ModSmall DEF RingCount
  <2>2. r + RingCount(r, w) = w + UINT /\ w + UINT \in Nat /\ w + UINT < UINT + UINT
    BY <1>1, <2>1
  <2>3. (w + UINT) % UINT = w
    BY <1>1, <2>2, ModSmall
  <2> QED
    BY <1>1, <1>3, <2>1, <2>2, <2>3
<1> QED
  BY <1>2, <1>3

\* The count after w is c ahead of r.
LEMMA RingBack ==
  ASSUME NEW r \in Nat, r < UINT, NEW c \in Nat, c < UINT
  PROVE  RingCount(r, (r + c) % UINT) = c
<1>1. UINT \in Nat /\ UINT > 0
  BY Ring
<1>2. CASE r + c < UINT
  <2>1. (r + c) % UINT = r + c
    BY <1>1, <1>2, ModSmall
  <2>2. (r + c) + UINT - r = c + UINT
    BY <1>1
  <2>3. (c + UINT) % UINT = c
    BY <1>1, ModSmall
  <2> QED
    BY <2>1, <2>2, <2>3 DEF RingCount
<1>3. CASE r + c >= UINT
  <2>1. (r + c) % UINT = r + c - UINT
    BY <1>1, <1>3, ModSmall
  <2>2. (r + c - UINT) + UINT - r = c
    BY <1>1
  <2>3. c % UINT = c
    BY <1>1, ModSmall
  <2> QED
    BY <2>1, <2>2, <2>3 DEF RingCount
<1> QED
  BY <1>1, <1>2, <1>3

\* Reading k bytes, and writing k bytes.
LEMMA RingMoves ==
  ASSUME NEW r \in Nat, r < UINT, NEW w \in Nat, w < UINT, NEW c, c = RingCount(r, w),
         NEW k \in Nat
  PROVE  /\ k <= c => RingCount((r + k) % UINT, w) = c - k
         /\ c + k < UINT => RingCount(r, (w + k) % UINT) = c + k
<1>1. UINT \in Nat /\ UINT > 0
  BY Ring
<1>2. c \in Nat /\ c < UINT /\ w = (r + c) % UINT
  BY RingAhead
<1>3. ASSUME k <= c PROVE RingCount((r + k) % UINT, w) = c - k
  <2>1. PICK s \in Nat : s = (r + k) % UINT /\ s < UINT
    BY <1>1, ModSmall
  <2>2. (s + (c - k)) % UINT = w
    <3>1. r + k \in Nat /\ r + k < UINT + UINT /\ c - k \in Nat /\ (r + k) + (c - k) = r + c
      BY <1>1, <1>2, <1>3
    <3>2. (((r + k) % UINT) + (c - k)) % UINT = ((r + k) + (c - k)) % UINT
      BY <3>1, RingAdd
    <3> QED
      BY <1>2, <2>1, <3>1, <3>2
  <2>3. c - k \in Nat /\ c - k < UINT
    BY <1>1, <1>2, <1>3
  <2>4. RingCount(s, (s + (c - k)) % UINT) = c - k
    BY <2>1, <2>3, RingBack
  <2> QED
    BY <2>1, <2>2, <2>4
<1>4. ASSUME c + k < UINT PROVE RingCount(r, (w + k) % UINT) = c + k
  <2>1. (w + k) % UINT = (r + (c + k)) % UINT
    <3>1. r + c \in Nat /\ r + c < UINT + UINT /\ (r + c) + k = r + (c + k)
      BY <1>1, <1>2
    <3>2. (((r + c) % UINT) + k) % UINT = ((r + c) + k) % UINT
      BY <3>1, RingAdd
    <3> QED
      BY <1>2, <3>1, <3>2
  <2>2. c + k \in Nat
    BY <1>2
  <2> QED
    BY <1>4, <2>1, <2>2, RingBack
<1> QED
  BY <1>3, <1>4

\* The bytes of a pipe by their distance from nread.
LEMMA FifoOffsets ==
  ASSUME PipeInv, NEW g \in Pages, NEW o \in Nat, o < Count(g)
  PROVE  pipe[g].data[(pipe[g].nread + o) % PIPESIZE] = (pipe[g].nread + o) % UINT
<1>1. Count(g) \in Nat /\ pipe[g].nread \in Nat
  BY Counters
<1>2. o + 1 \in 1..Count(g) /\ pipe[g].nread + (o + 1) - 1 = pipe[g].nread + o
  BY <1>1
<1>3. copyout(g) = [i \in 1..Count(g) |-> (pipe[g].nread + i - 1) % UINT]
  BY Parts DEF Fifo
<1>4. copyout(g)[o + 1] = (pipe[g].nread + (o + 1) - 1) % UINT
  BY <1>2, <1>3
<1>5. copyout(g)[o + 1] = pipe[g].data[(pipe[g].nread + (o + 1) - 1) % PIPESIZE]
  BY <1>2 DEF copyout
<1> QED
  BY <1>2, <1>4, <1>5

\* The order of the bytes, from the place of each in the buffer.
LEMMA FifoFrom ==
  ASSUME NEW g \in Pages, NEW c \in Nat, Count(g)' = c, c <= PIPESIZE, pipe'[g].nread \in Nat,
         \A o \in Nat : o < c =>
            pipe'[g].data[(pipe'[g].nread + o) % PIPESIZE] = (pipe'[g].nread + o) % UINT
  PROVE  FifoAt(g)'
<1>1. ASSUME NEW i \in 1..c
      PROVE  pipe'[g].data[(pipe'[g].nread + i - 1) % PIPESIZE] = (pipe'[g].nread + i - 1) % UINT
  <2>1. i - 1 \in Nat /\ i - 1 < c /\ pipe'[g].nread + i - 1 = pipe'[g].nread + (i - 1)
    BY <1>1
  <2> QED
    BY <2>1
<1>2. copyout(g)' = [i \in 1..c |-> pipe'[g].data[(pipe'[g].nread + i - 1) % PIPESIZE]]
  BY DEF copyout, Count
<1>3. copyout(g)' = [i \in 1..c |-> (pipe'[g].nread + i - 1) % UINT]
  BY <1>1, <1>2
<1> QED
  BY <1>3 DEF FifoAt

\* The count of a pipe is that of its counters.
LEMMA CountRing ==
  ASSUME NEW g
  PROVE  /\ Count(g) = RingCount(pipe[g].nread, pipe[g].nwrite)
         /\ Count(g)' = RingCount(pipe'[g'].nread, pipe'[g'].nwrite)
  BY DEF Count, RingCount

\* k bytes are read.
LEMMA FifoRead ==
  ASSUME PipeInv, NEW g \in Pages, NEW k \in Nat, k <= Count(g),
         pipe'[g].nread = (pipe[g].nread + k) % UINT,
         pipe'[g].nwrite = pipe[g].nwrite, pipe'[g].data = pipe[g].data
  PROVE  Count(g)' = Count(g) - k /\ FifoAt(g)'
<1>1. PICK r \in Nat, c \in Nat : /\ r = pipe[g].nread /\ c = Count(g) /\ r < UINT
                                  /\ c <= PIPESIZE
  BY Counters
<1>2. UINT \in Nat /\ UINT > 0 /\ PIPESIZE \in Nat /\ PIPESIZE < UINT
  BY Ring
<1>3. Count(g)' = c - k
  <2>1. pipe[g].nwrite \in Nat /\ pipe[g].nwrite < UINT
    BY Counters
  <2>2. RingCount((r + k) % UINT, pipe[g].nwrite) = c - k
    BY <1>1, <2>1, CountRing, RingMoves
  <2> QED
    BY <1>1, <2>2, CountRing
<1>4. c - k \in Nat /\ c - k <= PIPESIZE
  BY <1>1, <1>2
<1>5. pipe'[g].nread \in Nat
  BY <1>1, <1>2, ModSmall
<1>6. ASSUME NEW o \in Nat, o < c - k
      PROVE  pipe'[g].data[(pipe'[g].nread + o) % PIPESIZE] = (pipe'[g].nread + o) % UINT
  <2>1. r + k \in Nat /\ r + k < UINT + UINT /\ k + o \in Nat /\ k + o < c
        /\ (r + k) + o = r + (k + o)
    <3>1. k <= c
      BY <1>1
    <3>2. r \in Nat /\ c \in Nat /\ o \in Nat /\ r < UINT /\ c < UINT /\ o < c - k
      BY <1>1, <1>2, <1>6
    <3>3. r + k \in Nat /\ k + o \in Nat /\ (r + k) + o = r + (k + o)
      BY <3>2
    <3>4. r + k < UINT + UINT /\ k + o < c
      BY <1>2, <3>1, <3>2
    <3> QED
      BY <3>3, <3>4
  <2>2. /\ (((r + k) % UINT) + o) % PIPESIZE = (r + (k + o)) % PIPESIZE
        /\ (((r + k) % UINT) + o) % UINT = (r + (k + o)) % UINT
    BY <1>6, <2>1, RingAdd
  <2>3. pipe[g].data[(r + (k + o)) % PIPESIZE] = (r + (k + o)) % UINT
    BY <1>1, <2>1, FifoOffsets
  <2> QED
    BY <1>1, <2>2, <2>3
<1>7. FifoAt(g)'
  BY <1>3, <1>4, <1>5, <1>6, FifoFrom
<1> QED
  BY <1>1, <1>3, <1>7

\* The byte that copyin() leaves at place i of the buffer.
LEMMA CopyinAt ==
  ASSUME PipeInv, NEW g \in Pages, NEW k \in Nat, k <= PIPESIZE, NEW i \in 0..PIPESIZE - 1
  PROVE  /\ (\A j \in 0..k - 1 : (pipe[g].nwrite + j) % PIPESIZE # i)
               => copyin(g, k)[i] = pipe[g].data[i]
         /\ \A j \in 0..k - 1 : (pipe[g].nwrite + j) % PIPESIZE = i
               => copyin(g, k)[i] = (pipe[g].nwrite + j) % UINT
<1> DEFINE new == {j \in 0..k - 1 : (pipe[g].nwrite + j) % PIPESIZE = i}
<1>1. copyin(g, k)[i] = IF new = {} THEN pipe[g].data[i] ELSE (pipe[g].nwrite + Max(new)) % UINT
  BY DEF copyin
<1>2. pipe[g].nwrite \in Nat /\ PIPESIZE \in Nat /\ PIPESIZE > 0
  BY Counters, Ring
<1>3. ASSUME NEW j \in 0..k - 1, (pipe[g].nwrite + j) % PIPESIZE = i
      PROVE  copyin(g, k)[i] = (pipe[g].nwrite + j) % UINT
  <2>1. ASSUME NEW a \in new, NEW b \in new, a < b PROVE FALSE
    <3>a. /\ a \in 0..k - 1 /\ (pipe[g].nwrite + a) % PIPESIZE = i
          /\ b \in 0..k - 1 /\ (pipe[g].nwrite + b) % PIPESIZE = i
      BY <2>1
    <3>b. PICK w \in Nat : w = pipe[g].nwrite
      BY <1>2
    <3>c. a \in Nat /\ b \in Nat /\ b < k /\ a < b
      BY <2>1, <3>a
    <3> HIDE DEF new
    <3>d. b - a \in Nat /\ b - a > 0 /\ b - a < PIPESIZE
      BY <1>2, <3>c
    <3>1. w + a \in Nat /\ (w + a) + (b - a) = w + b
      BY <3>b, <3>c
    <3>2. (w + a) % PIPESIZE # (w + b) % PIPESIZE
      BY <1>2, <3>1, <3>d, ModApart
    <3> QED
      BY <3>a, <3>b, <3>2
  <2>2. j \in new /\ new \subseteq Nat
    BY <1>3
  <2>3. new = {j}
    <3>1. ASSUME NEW b \in new PROVE b = j
      <4>1. ~(b < j) /\ ~(j < b) /\ b \in Nat /\ j \in Nat
        BY <2>1, <2>2, <3>1
      <4> QED
        BY <4>1
    <3> QED
      BY <2>2, <3>1
  <2>4. Max({j}) = j
    <3>1. j \in Nat
      BY <2>2
    <3> QED
      BY <3>1 DEF Max
  <2> HIDE DEF new
  <2> QED
    BY <1>1, <2>3, <2>4
<1>4. ASSUME \A j \in 0..k - 1 : (pipe[g].nwrite + j) % PIPESIZE # i
      PROVE  copyin(g, k)[i] = pipe[g].data[i]
  <2>1. new = {}
    BY <1>4
  <2> HIDE DEF new
  <2> QED
    BY <1>1, <2>1
<1> QED
  BY <1>3, <1>4

\* k bytes are written.
LEMMA FifoWrite ==
  ASSUME PipeInv, NEW g \in Pages, NEW k \in Nat, Count(g) + k <= PIPESIZE,
         pipe'[g].nwrite = (pipe[g].nwrite + k) % UINT,
         pipe'[g].nread = pipe[g].nread, pipe'[g].data = copyin(g, k)
  PROVE  Count(g)' = Count(g) + k /\ FifoAt(g)'
<1>1. PICK r \in Nat, w \in Nat, c \in Nat : /\ r = pipe[g].nread /\ c = Count(g) /\ r < UINT
                                             /\ w = pipe[g].nwrite /\ w < UINT /\ c <= PIPESIZE
  BY Counters
<1>2. /\ UINT \in Nat /\ UINT > 0 /\ PIPESIZE \in Nat /\ PIPESIZE > 0 /\ PIPESIZE < UINT
      /\ c + k \in Nat /\ c + k <= PIPESIZE /\ c + k < UINT /\ k <= PIPESIZE
  BY <1>1, Ring
<1>3. Count(g)' = c + k
  <2>2. RingCount(r, (w + k) % UINT) = c + k
    BY <1>1, <1>2, CountRing, RingMoves
  <2> QED
    BY <1>1, <2>2, CountRing
<1>4. w = (r + c) % UINT
  BY <1>1, CountRing, RingAhead
\* The places of the new bytes, and their numbers.
<1>5. ASSUME NEW j \in Nat
      PROVE  /\ (w + j) % PIPESIZE = (r + (c + j)) % PIPESIZE
             /\ (w + j) % UINT = (r + (c + j)) % UINT
  <2>1. r + c \in Nat /\ r + c < UINT + UINT /\ (r + c) + j = r + (c + j)
    BY <1>1, <1>2, <1>5
  <2>2. /\ (((r + c) % UINT) + j) % PIPESIZE = ((r + c) + j) % PIPESIZE
        /\ (((r + c) % UINT) + j) % UINT = ((r + c) + j) % UINT
    BY <1>5, <2>1, RingAdd
  <2> QED
    BY <1>4, <2>1, <2>2
<1>6. ASSUME NEW o \in Nat, o < c + k
      PROVE  pipe'[g].data[(r + o) % PIPESIZE] = (r + o) % UINT
  <2>1. PICK i \in 0..PIPESIZE - 1 : i = (r + o) % PIPESIZE
    <3>1. (r + o) % PIPESIZE \in Nat /\ (r + o) % PIPESIZE < PIPESIZE
      BY <1>1, <1>2, <1>6, ModSmall
    <3> QED
      BY <1>2, <3>1
  <2>2. /\ (\A j \in 0..k - 1 : (w + j) % PIPESIZE # i) => copyin(g, k)[i] = pipe[g].data[i]
        /\ \A j \in 0..k - 1 : (w + j) % PIPESIZE = i => copyin(g, k)[i] = (w + j) % UINT
    BY <1>1, <1>2, <2>1, CopyinAt
  <2>3. CASE o < c
    <3>1. ASSUME NEW j \in 0..k - 1 PROVE (w + j) % PIPESIZE # i
      <4>1. j \in Nat
        BY <3>1
      <4>2. /\ r + o \in Nat /\ (c + j) - o \in Nat /\ (c + j) - o > 0 /\ (c + j) - o < PIPESIZE
            /\ (r + o) + ((c + j) - o) = r + (c + j)
        BY <1>1, <1>2, <1>6, <2>3, <3>1
      <4>3. (r + o) % PIPESIZE # (r + (c + j)) % PIPESIZE
        BY <1>2, <4>2, ModApart
      <4> QED
        BY <1>5, <2>1, <4>1, <4>3
    <3>2. pipe[g].data[i] = (r + o) % UINT
      BY <1>1, <1>6, <2>1, <2>3, FifoOffsets
    <3> QED
      BY <2>1, <2>2, <3>1, <3>2
  <2>4. CASE o >= c
    <3>1. PICK j \in 0..k - 1 : c + j = o
      <4>1. o - c \in 0..k - 1 /\ c + (o - c) = o
        BY <1>1, <1>2, <1>6, <2>4
      <4> QED
        BY <4>1
    <3>2. j \in Nat
      BY <3>1
    <3>3. (w + j) % PIPESIZE = i /\ (w + j) % UINT = (r + o) % UINT
      BY <1>5, <2>1, <3>1, <3>2
    <3> QED
      BY <2>1, <2>2, <3>1, <3>3
  <2> QED
    BY <1>1, <1>6, <2>3, <2>4
<1>7. FifoAt(g)'
  <2>1. pipe'[g].nread = r /\ r \in Nat
    BY <1>1
  <2> QED
    BY <1>2, <1>3, <1>6, <2>1, FifoFrom
<1> QED
  BY <1>1, <1>3, <1>7

-----------------------------------------------------------------------------
(* piperead() and pipewrite() *)

\* What a step of p inside pipe g does to other calls: some may be woken.
OthersIn(p) ==
  /\ th' \in [Procs -> ThreadType]
  /\ \A q \in Procs : q # p =>
        /\ th'[q].f = th[q].f /\ th'[q].closing = th[q].closing /\ th'[q].ff = th[q].ff
        /\ th'[q].pipe = th[q].pipe
        /\ \/ th'[q].pc = th[q].pc
           \/ th[q].pc = "nread" /\ th'[q].pc = "read"
           \/ th[q].pc = "nwrite" /\ th'[q].pc = "write"

\* p returns from its call, or goes to sleep with the lock of the pipe.
Moved(p, g) ==
  \/ th'[p] = Thread("user") /\ pipe'[g].lock = 0
  \/ /\ th'[p].f = th[p].f /\ th'[p].closing = th[p].closing /\ th'[p].ff = th[p].ff
     /\ th'[p].pipe = g /\ pipe'[g].lock = p
     /\ \/ th[p].pc = "read" /\ th'[p].pc = "read_sleep"
        \/ th[p].pc = "write" /\ th'[p].pc = "write_sleep"

\* The pipe keeps its ends.
PipeMoved(g) ==
  /\ pipe' \in [Pages -> PipeType] /\ \A h \in Pages : h # g => pipe'[h] = pipe[h]
  /\ pipe'[g].alloc = pipe[g].alloc /\ pipe'[g].readopen = pipe[g].readopen
  /\ pipe'[g].writeopen = pipe[g].writeopen

\* The record of a process outside its system calls.
LEMMA ThreadUser ==
  /\ Thread("user") \in ThreadType /\ Thread("user").pc = "user"
  /\ Thread("user").closing = FALSE /\ Thread("user").ff = NoFile
  /\ Thread("user").pipe = 0 /\ Thread("user").f = NoFiles
<1>1. 0 \in 0..NFILE /\ 0 \in 0..NPAGE
  BY Indices
<1>2. NoFile \in FileType
  BY <1>1 DEF NoFile, FileType
<1>3. NoFiles \in [Slots -> 0..NFILE]
  BY <1>1 DEF NoFiles
<1> QED
  BY <1>1, <1>2, <1>3 DEF ThreadType, Thread

\* A step of p inside pipe g.
LEMMA InsideStep ==
  ASSUME PipeInv, NEW p \in Procs, NEW g \in Pages, th[p].pc \in {"read", "write"},
         th[p].pipe = g, pipe[g].lock = 0, OthersIn(p), Moved(p, g), PipeMoved(g),
         FifoAt(g)', \A q \in Procs : SleepAt(q)', UNCHANGED <<file, ofile, iref, killed>>
  PROVE  PipeInv'
<1>1. /\ th' \in [Procs -> ThreadType]
      /\ \A q \in Procs : q # p =>
            /\ th'[q].f = th[q].f /\ th'[q].closing = th[q].closing /\ th'[q].ff = th[q].ff
            /\ th'[q].pipe = th[q].pipe
            /\ \/ th'[q].pc = th[q].pc
               \/ th[q].pc = "nread" /\ th'[q].pc = "read"
               \/ th[q].pc = "nwrite" /\ th'[q].pc = "write"
  BY DEF OthersIn
<1>2. /\ th[p].closing = FALSE /\ th[p].ff = NoFile /\ th[p].f = NoFiles
  BY InsideHands DEF Reading, Writing
<1>3. /\ th'[p].f = th[p].f /\ th'[p].closing = th[p].closing /\ th'[p].ff = th[p].ff
      /\ \/ th'[p].pc = "user" /\ th'[p].pipe = 0 /\ pipe'[g].lock = 0
         \/ /\ th'[p].pipe = g /\ pipe'[g].lock = p
            /\ \/ th[p].pc = "read" /\ th'[p].pc = "read_sleep"
               \/ th[p].pc = "write" /\ th'[p].pc = "write_sleep"
  BY <1>2, ThreadUser DEF Moved
<1>4. /\ pipe' \in [Pages -> PipeType] /\ \A h \in Pages : h # g => pipe'[h] = pipe[h]
      /\ pipe'[g].alloc = pipe[g].alloc /\ pipe'[g].readopen = pipe[g].readopen
      /\ pipe'[g].writeopen = pipe[g].writeopen
  BY DEF PipeMoved
<1>5. \A q \in Procs : Quiet(q)
  <2>1. ASSUME NEW q \in Procs, q # p PROVE Quiet(q)
    BY <2>1, <1>1 DEF Quiet, Reading, Writing
  <2>2. Quiet(p)
    BY <1>3 DEF Quiet, Reading, Writing
  <2> QED
    BY <2>1, <2>2
<1>6. \A q \in Procs : HasEnd(q)'
  <2>0. \A q \in Procs : HasEnd(q)
    BY Parts, InsideParts
  <2>1. ASSUME NEW q \in Procs, q # p PROVE HasEnd(q)'
    <3>1. /\ th'[q].pc \in Reading <=> th[q].pc \in Reading
          /\ th'[q].pc \in Writing <=> th[q].pc \in Writing
          /\ th'[q].pipe = th[q].pipe
      BY <2>1, <1>1 DEF Reading, Writing
    <3> QED
      BY <2>0, <2>1, <3>1, EndStays
  <2>2. CASE th'[p].pc = "user" /\ th'[p].pipe = 0
    BY <2>1, <2>2 DEF HasEnd, Reading, Writing
  <2>3. CASE /\ th'[p].pipe = g
             /\ \/ th[p].pc = "read" /\ th'[p].pc = "read_sleep"
                \/ th[p].pc = "write" /\ th'[p].pc = "write_sleep"
    <3>1. /\ th'[p].pc \in Reading <=> th[p].pc \in Reading
          /\ th'[p].pc \in Writing <=> th[p].pc \in Writing
          /\ th'[p].pipe = th[p].pipe
      BY <2>3 DEF Reading, Writing
    <3>2. HasEnd(p)'
      BY <2>0, <3>1, EndStays
    <3> QED
      BY <2>1, <3>2
  <2> QED
    BY <1>3, <2>2, <2>3
<1>7. InsideSound'
  <2>1. \A q \in Procs : q # p =>
           /\ th'[q].pipe = th[q].pipe
           /\ th'[q].pc \in {"read_sleep", "write_sleep"}
                 <=> th[q].pc \in {"read_sleep", "write_sleep"}
    BY <1>1
  <2>2. p # 0
    BY Indices
  <2>3. /\ pipe'[g].lock \in {0, p}
        /\ th'[p].pc \in {"read_sleep", "write_sleep"} => th'[p].pipe = g
        /\ pipe'[g].lock = p <=> th'[p].pc \in {"read_sleep", "write_sleep"}
    BY <1>3, <2>2
  <2>4. \A h \in Pages : h # g => pipe'[h].lock = pipe[h].lock
    BY <1>4
  <2>5. \A q \in Procs, h \in Pages : pipe'[h].lock = q <=> Locking(q, h)'
    BY <2>1, <2>3, <2>4, Parts, LockMoves
  <2> QED
    BY <2>5, <1>6, InsideWhole
<1>8. Fifo'
  BY <1>4, Parts, FifoOne
<1>9. SleepJustified'
  BY SleepWhole
<1>10. \A h \in Pages : /\ pipe'[h].alloc = pipe[h].alloc
                        /\ pipe'[h].readopen = pipe[h].readopen
                        /\ pipe'[h].writeopen = pipe[h].writeopen
  BY <1>4
<1>11. killed' \subseteq Procs
  BY Parts
<1> QED
  BY <1>1, <1>4, <1>5, <1>7, <1>8, <1>9, <1>10, <1>11, QuietStep

\* A process that stays asleep in another pipe, or that is asleep in g, where
\* nobody holds the lock.
LEMMA OtherSleeper ==
  ASSUME PipeInv, NEW p \in Procs, NEW g \in Pages, pipe[g].lock = 0, OthersIn(p), PipeMoved(g),
         killed' = killed, NEW q \in Procs, q # p, th'[q].pc \in Sleeping
  PROVE  /\ th'[q].pc = th[q].pc /\ th'[q].pipe = th[q].pipe
         /\ SleepAt(q)' \/ (th[q].pipe = g /\ th[q].pc \in {"nread", "nwrite"})
<1>1. th'[q].pc = th[q].pc /\ th'[q].pipe = th[q].pipe
  BY DEF OthersIn, Sleeping
<1>2. th[q].pipe \in Pages
  BY <1>1, CallPipe DEF Sleeping, Reading, Writing
<1>3. CASE th[q].pipe # g
  <2>1. pipe'[th[q].pipe] = pipe[th[q].pipe]
    BY <1>2, <1>3 DEF PipeMoved
  <2>2. Count(th[q].pipe)' = Count(th[q].pipe)
    BY <1>1, <2>1 DEF Count
  <2> QED
    BY <1>1, <2>2, SleepStays
<1>4. CASE th[q].pipe = g
  <2>1. pipe[g].lock # q
    BY Indices
  <2>2. th[q].pc \notin {"read_sleep", "write_sleep"}
    BY <1>4, <2>1, Parts, InsideParts DEF Locking
  <2> QED
    BY <1>1, <1>4, <2>2 DEF Sleeping
<1> QED
  BY <1>1, <1>3, <1>4

\* The sleepers of g after a step that leaves the count c of the pipe.
LEMMA SleepAfter ==
  ASSUME NEW q \in Procs, NEW g \in Pages, NEW c, th'[q].pipe = g, Count(g)' = c,
         th'[q].pc \in {"write_sleep", "nwrite"} => c = PIPESIZE,
         th'[q].pc = "read_sleep" => c = 0,
         th'[q].pc = "nread" /\ killed' = {} => c = 0
  PROVE  SleepAt(q)'
<1>1. Count(th[q].pipe)' = c
  BY DEF Count
<1> QED
  BY <1>1 DEF SleepAt

\* k bytes are read from g, and sleeping writers woken up.
LEMMA ReadStep ==
  ASSUME PipeInv, NEW p \in Procs, NEW g \in Pages, th[p].pc = "read",
         th[p].pipe = g, pipe[g].lock = 0, OthersIn(p), Moved(p, g), PipeMoved(g),
         UNCHANGED <<file, ofile, iref, killed>>, NEW k \in Nat, k <= Count(g),
         pipe'[g].nread = (pipe[g].nread + k) % UINT,
         pipe'[g].nwrite = pipe[g].nwrite, pipe'[g].data = pipe[g].data,
         Count(g) # 0 => \A q \in Procs : q # p /\ th[q].pipe = g => th'[q].pc # "nwrite",
         th'[p].pc = "read_sleep" => Count(g) = 0
  PROVE  PipeInv'
<1>1. Count(g)' = Count(g) - k /\ FifoAt(g)'
  BY FifoRead
<1>2. Count(g) \in Nat /\ PIPESIZE \in Nat /\ PIPESIZE > 0
  BY Counters, Ring
<1>3. PICK c \in Nat, d \in Nat : c = Count(g) /\ d = Count(g)' /\ d = c - k
  BY <1>1, <1>2
<1>4. c = 0 => d = 0
  BY <1>3
<1>5. ASSUME NEW q \in Procs, q # p PROVE SleepAt(q)'
  <2>1. CASE th'[q].pc \notin Sleeping
    BY <1>5, <2>1, SleepStays
  <2>2. CASE th'[q].pc \in Sleeping
    <3>1. /\ th'[q].pc = th[q].pc /\ th'[q].pipe = th[q].pipe
          /\ SleepAt(q)' \/ (th[q].pipe = g /\ th[q].pc \in {"nread", "nwrite"})
      BY <1>5, <2>2, OtherSleeper
    <3>2. CASE th[q].pipe = g /\ th[q].pc = "nread"
      <4>1. killed = {} => c = 0
        BY <1>5, <1>3, <3>2, SleepParts DEF SleepAt
      <4>2. th'[q].pipe = g /\ th'[q].pc = "nread" /\ (killed' = {} => d = 0)
        BY <1>4, <3>1, <3>2, <4>1
      <4> QED
        BY <1>3, <1>5, <4>2, SleepAfter
    <3>3. CASE th[q].pipe = g /\ th[q].pc = "nwrite"
      <4>1. c = PIPESIZE
        BY <1>5, <1>3, <3>3, SleepParts DEF SleepAt
      <4>2. th'[q].pc # "nwrite"
        BY <1>2, <1>3, <1>5, <3>3, <4>1
      <4> QED
        BY <3>1, <3>3, <4>2
    <3> QED
      BY <3>1, <3>2, <3>3
  <2> QED
    BY <2>1, <2>2
<1>6. SleepAt(p)'
  <2>1. CASE th'[p] = Thread("user")
    <3>1. th'[p].pc \notin Sleeping
      BY <2>1, ThreadUser DEF Sleeping
    <3> QED
      BY <3>1, SleepStays
  <2>2. CASE th'[p].pipe = g /\ th'[p].pc = "read_sleep"
    <3>1. d = 0
      BY <1>3, <1>4, <2>2
    <3> QED
      BY <1>3, <2>2, <3>1, SleepAfter
  <2> QED
    BY <2>1, <2>2 DEF Moved
<1>7. \A q \in Procs : SleepAt(q)'
  BY <1>5, <1>6
<1> QED
  BY <1>1, <1>7, InsideStep

\* k bytes are written to g, and sleeping readers woken up, unless the write is
\* given up because no reader is left or the writer was killed.
LEMMA WriteStep ==
  ASSUME PipeInv, NEW p \in Procs, NEW g \in Pages, th[p].pc = "write",
         th[p].pipe = g, pipe[g].lock = 0, OthersIn(p), Moved(p, g), PipeMoved(g),
         UNCHANGED <<file, ofile, iref, killed>>, NEW k \in Nat, Count(g) + k <= PIPESIZE,
         pipe'[g].nwrite = (pipe[g].nwrite + k) % UINT,
         pipe'[g].nread = pipe[g].nread, pipe'[g].data = copyin(g, k),
         \/ ~pipe[g].readopen \/ p \in killed
         \/ \A q \in Procs : q # p /\ th[q].pipe = g => th'[q].pc # "nread",
         th'[p].pc = "write_sleep" => Count(g) + k = PIPESIZE
  PROVE  PipeInv'
<1>1. Count(g)' = Count(g) + k /\ FifoAt(g)'
  BY FifoWrite
<1>2. Count(g) \in Nat /\ PIPESIZE \in Nat /\ PIPESIZE > 0
  BY Counters, Ring
<1>3. PICK c \in Nat, d \in Nat : c = Count(g) /\ d = Count(g)' /\ d = c + k
  BY <1>1, <1>2
<1>4. c = PIPESIZE => d = PIPESIZE
  BY <1>2, <1>3
<1>5. ASSUME NEW q \in Procs, q # p PROVE SleepAt(q)'
  <2>1. CASE th'[q].pc \notin Sleeping
    BY <1>5, <2>1, SleepStays
  <2>2. CASE th'[q].pc \in Sleeping
    <3>1. /\ th'[q].pc = th[q].pc /\ th'[q].pipe = th[q].pipe
          /\ SleepAt(q)' \/ (th[q].pipe = g /\ th[q].pc \in {"nread", "nwrite"})
      BY <1>5, <2>2, OtherSleeper
    <3>2. CASE th[q].pipe = g /\ th[q].pc = "nwrite"
      <4>1. c = PIPESIZE
        BY <1>5, <1>3, <3>2, SleepParts DEF SleepAt
      <4>2. th'[q].pipe = g /\ th'[q].pc = "nwrite" /\ d = PIPESIZE
        BY <1>4, <3>1, <3>2, <4>1
      <4> QED
        BY <1>3, <1>5, <4>2, SleepAfter
    <3>3. CASE th[q].pipe = g /\ th[q].pc = "nread"
      <4>1. pipe[g].readopen
        <5>1. HasEnd(q) /\ g # 0
          BY <1>5, Parts, InsideParts, Indices
        <5>2. ("nread" \in Writing) = FALSE
          BY DEF Writing
        <5>3. PICK fd \in Fds : ofile[q][fd] # 0 /\ IsEnd(file[ofile[q][fd]], g, FALSE)
          BY <3>3, <5>1, <5>2 DEF HasEnd
        <5>4. ofile[q][fd] \in Files
          BY <1>5, <5>3, HeldFiles
        <5>5. End(g, FALSE)
          BY <5>3, <5>4 DEF End
        <5> QED
          BY <5>5, Parts DEF PipePageOwned
      <4>2. p \in killed
        BY <1>5, <3>1, <3>3, <4>1
      <4>3. th'[q].pipe = g /\ th'[q].pc = "nread" /\ killed' # {}
        BY <3>1, <3>3, <4>2
      <4> QED
        BY <1>3, <1>5, <4>3, SleepAfter
    <3> QED
      BY <3>1, <3>2, <3>3
  <2> QED
    BY <2>1, <2>2
<1>6. SleepAt(p)'
  <2>1. CASE th'[p] = Thread("user")
    <3>1. th'[p].pc \notin Sleeping
      BY <2>1, ThreadUser DEF Sleeping
    <3> QED
      BY <3>1, SleepStays
  <2>2. CASE th'[p].pipe = g /\ th'[p].pc = "write_sleep"
    <3>1. d = PIPESIZE
      BY <1>3, <2>2
    <3> QED
      BY <1>3, <2>2, <3>1, SleepAfter
  <2> QED
    BY <2>1, <2>2 DEF Moved
<1>7. \A q \in Procs : SleepAt(q)'
  BY <1>5, <1>6
<1> QED
  BY <1>1, <1>7, InsideStep

\* The pipe of page g is replaced, with the ends it had.
LEMMA PipeSet ==
  ASSUME PipeInv, NEW g \in Pages, NEW r \in PipeType, pipe' = [pipe EXCEPT ![g] = r],
         r.alloc = pipe[g].alloc, r.readopen = pipe[g].readopen,
         r.writeopen = pipe[g].writeopen
  PROVE  pipe'[g] = r /\ PipeMoved(g)
<1>1. pipe \in [Pages -> PipeType]
  BY Parts
<1>2. pipe' \in [Pages -> PipeType] /\ pipe'[g] = r
      /\ \A h \in Pages : h # g => pipe'[h] = pipe[h]
  BY <1>1
<1> QED
  BY <1>2 DEF PipeMoved

\* p takes a step to t, after no wakeup().
LEMMA MovedAlone ==
  ASSUME PipeInv, NEW p \in Procs, NEW t \in ThreadType, th' = [th EXCEPT ![p] = t]
  PROVE  th'[p] = t /\ OthersIn(p)
<1>1. th \in [Procs -> ThreadType]
  BY Parts
<1>2. th' \in [Procs -> ThreadType] /\ th'[p] = t
      /\ \A q \in Procs : q # p => th'[q] = th[q]
  BY <1>1
<1> QED
  BY <1>2 DEF OthersIn

\* p goes on with t, and wakes up those that sleep on c.
Wakes(p, g, c, t) == th' = [wakeup(g, {c}, th) EXCEPT ![p] = t]
NoneOn(p, g, c) == \A q \in Procs : q # p /\ th[q].pipe = g => th'[q].pc # c

\* p takes a step to t, after a wakeup() of those that sleep on c.
LEMMA MovedWaking ==
  ASSUME PipeInv, NEW p \in Procs, NEW t \in ThreadType, NEW g,
         NEW c, c = "nread" \/ c = "nwrite", Wakes(p, g, c, t)
  PROVE  th'[p] = t /\ OthersIn(p) /\ NoneOn(p, g, c)
<1>1. th \in [Procs -> ThreadType]
  BY Parts
<1>2. PICK u : u = wakeup(g, {c}, th)
  OBVIOUS
<1>3. IsWoken(u, th, g, {c})
  BY <1>1, <1>2, Wakeup
<1>4. /\ u \in [Procs -> ThreadType]
      /\ \A q \in Procs :
            /\ u[q].f = th[q].f /\ u[q].closing = th[q].closing /\ u[q].ff = th[q].ff
            /\ u[q].pipe = th[q].pipe
            /\ \/ u[q] = th[q] /\ ~(th[q].pc \in {c} /\ th[q].pipe = g)
               \/ th[q].pc = "nread" /\ u[q].pc = "read" /\ th[q].pc \in {c} /\ th[q].pipe = g
               \/ th[q].pc = "nwrite" /\ u[q].pc = "write" /\ th[q].pc \in {c} /\ th[q].pipe = g
  BY <1>3 DEF IsWoken
<1>5. th' \in [Procs -> ThreadType] /\ th'[p] = t
      /\ \A q \in Procs : q # p => th'[q] = u[q]
  <2>1. th' = [u EXCEPT ![p] = t]
    BY <1>2 DEF Wakes
  <2> QED
    BY <2>1, <1>4
<1>6. ASSUME NEW q \in Procs, q # p
      PROVE  /\ th'[q].f = th[q].f /\ th'[q].closing = th[q].closing /\ th'[q].ff = th[q].ff
             /\ th'[q].pipe = th[q].pipe
             /\ \/ th'[q].pc = th[q].pc
                \/ th[q].pc = "nread" /\ th'[q].pc = "read"
                \/ th[q].pc = "nwrite" /\ th'[q].pc = "write"
             /\ th[q].pipe = g => th'[q].pc # c
  <2>1. th'[q] = u[q]
    BY <1>5, <1>6
  <2>2. CASE u[q] = th[q] /\ ~(th[q].pc \in {c} /\ th[q].pipe = g)
    BY <2>1, <2>2
  <2>3. CASE th[q].pc = "nread" /\ u[q].pc = "read" /\ th[q].pc \in {c} /\ th[q].pipe = g
    BY <1>4, <1>6, <2>1, <2>3
  <2>4. CASE th[q].pc = "nwrite" /\ u[q].pc = "write" /\ th[q].pc \in {c} /\ th[q].pipe = g
    BY <1>4, <1>6, <2>1, <2>4
  <2> QED
    BY <1>4, <1>6, <2>2, <2>3, <2>4
<1> QED
  BY <1>5, <1>6 DEF OthersIn, NoneOn

\* A step of piperead().
LEMMA PipereadStep ==
  ASSUME PipeInv, NEW p \in Procs, piperead(p)
  PROVE  PipeInv'
<1>1. PICK g : g = th[p].pipe
  OBVIOUS
<1>2. PICK k : k = Min({th[p].n, Count(g)})
  OBVIOUS
<1>3. PICK empty \in BOOLEAN : empty <=> Count(g) = 0 /\ pipe[g].writeopen
  OBVIOUS
<1>4. PICK sleeps \in BOOLEAN : sleeps <=> empty /\ ~(p \in killed)
  OBVIOUS
<1>5. /\ th[p].pc = "read" /\ pipe[g].lock = 0
      /\ pipe' = [pipe EXCEPT ![g].lock = IF sleeps THEN p ELSE 0,
                              ![g].nread = (@ + k) % UINT]
      /\ th' = [(IF empty THEN th ELSE wakeup(g, {"nwrite"}, th)) EXCEPT ![p] =
                   IF sleeps THEN [th[p] EXCEPT !.pc = "read_sleep"] ELSE Thread("user")]
      /\ UNCHANGED <<file, ofile, iref, killed>>
  BY <1>1, <1>2, <1>3, <1>4 DEF piperead, At
<1>6. g \in Pages
  BY <1>1, <1>5, CallPipe DEF Reading
<1>7. Count(g) \in Nat /\ th[p].n \in Nat /\ th[p] \in ThreadType
  BY <1>6, Counters, Parts DEF ThreadType
<1>8. k \in Nat /\ k <= Count(g)
  <2>1. {th[p].n, Count(g)} \subseteq Nat /\ {th[p].n, Count(g)} # {}
    BY <1>7
  <2>2. Min({th[p].n, Count(g)}) \in {th[p].n, Count(g)}
        /\ \A x \in {th[p].n, Count(g)} : Min({th[p].n, Count(g)}) <= x
    BY <2>1, MinIn
  <2> QED
    BY <1>2, <2>1, <2>2
<1>9. PICK l : l = IF sleeps THEN p ELSE 0
  OBVIOUS
<1>10. l \in 0..NPROC
  BY <1>9, Indices
<1>11. PICK nr : nr = (pipe[g].nread + k) % UINT
  OBVIOUS
<1>12. nr \in 0..UINT - 1
  <2>1. pipe[g].nread + k \in Nat
    BY <1>6, <1>8, Counters
  <2>2. nr \in Nat /\ nr < UINT
    BY <2>1, <1>11, Ring, ModSmall
  <2> QED
    BY <2>2, Ring
<1>13. PICK r : r = [pipe[g] EXCEPT !.lock = l, !.nread = nr]
  OBVIOUS
<1>14. pipe[g] \in PipeType /\ pipe \in [Pages -> PipeType]
  BY <1>6, Parts
<1>15. /\ r \in PipeType /\ r.alloc = pipe[g].alloc /\ r.readopen = pipe[g].readopen
       /\ r.writeopen = pipe[g].writeopen /\ r.nwrite = pipe[g].nwrite
       /\ r.data = pipe[g].data /\ r.lock = l /\ r.nread = nr
  BY <1>10, <1>12, <1>13, <1>14 DEF PipeType
<1>16. pipe' = [pipe EXCEPT ![g] = r]
  BY <1>5, <1>6, <1>9, <1>11, <1>13, <1>14 DEF PipeType
<1>17. pipe'[g] = r /\ PipeMoved(g)
  BY <1>6, <1>15, <1>16, PipeSet
<1>18. PICK t : t = IF sleeps THEN [th[p] EXCEPT !.pc = "read_sleep"] ELSE Thread("user")
  OBVIOUS
<1>19. /\ t \in ThreadType
       /\ \/ ~sleeps /\ t = Thread("user")
          \/ /\ sleeps /\ t.pc = "read_sleep" /\ t.f = th[p].f /\ t.closing = th[p].closing
             /\ t.ff = th[p].ff /\ t.pipe = g
  <2>1. CASE sleeps
    <3>1. t = [th[p] EXCEPT !.pc = "read_sleep"]
      BY <1>18, <2>1
    <3> QED
      BY <1>1, <1>7, <2>1, <3>1 DEF ThreadType, Reading, Writing
  <2>2. CASE ~sleeps
    BY <1>18, <2>2, ThreadUser
  <2> QED
    BY <2>1, <2>2
<1>20. /\ th'[p] = t /\ OthersIn(p)
       /\ Count(g) # 0 => \A q \in Procs : q # p /\ th[q].pipe = g => th'[q].pc # "nwrite"
  <2>1. CASE empty
    <3>1. th' = [th EXCEPT ![p] = t]
      BY <1>5, <1>18, <2>1
    <3>2. Count(g) = 0
      BY <1>3, <2>1
    <3> QED
      BY <1>19, <3>1, <3>2, MovedAlone
  <2>2. CASE ~empty
    <3>1. Wakes(p, g, "nwrite", t)
      BY <1>5, <1>18, <2>2 DEF Wakes
    <3>2. th'[p] = t /\ OthersIn(p) /\ NoneOn(p, g, "nwrite")
      BY <1>19, <3>1, MovedWaking
    <3> QED
      BY <3>2 DEF NoneOn
  <2> QED
    BY <2>1, <2>2
<1>21. Moved(p, g)
  BY <1>5, <1>9, <1>15, <1>17, <1>19, <1>20 DEF Moved
<1>22. th'[p].pc = "read_sleep" => Count(g) = 0
  BY <1>3, <1>4, <1>19, <1>20, ThreadUser
<1>23. /\ pipe'[g].nread = (pipe[g].nread + k) % UINT
       /\ pipe'[g].nwrite = pipe[g].nwrite /\ pipe'[g].data = pipe[g].data
  BY <1>11, <1>15, <1>17
<1>24. UNCHANGED <<file, ofile, iref, killed>> /\ th[p].pc = "read" /\ pipe[g].lock = 0
  BY <1>5
<1> QED
  BY <1>1, <1>6, <1>8, <1>17, <1>20, <1>21, <1>22, <1>23, <1>24, ReadStep

\* The buffer after copyin().
LEMMA CopyinType ==
  ASSUME PipeInv, NEW g \in Pages, NEW k \in Nat, k <= PIPESIZE
  PROVE  copyin(g, k) \in [0..PIPESIZE - 1 -> 0..UINT - 1]
<1>1. ASSUME NEW i \in 0..PIPESIZE - 1 PROVE copyin(g, k)[i] \in 0..UINT - 1
  <2>1. CASE \A j \in 0..k - 1 : (pipe[g].nwrite + j) % PIPESIZE # i
    <3>1. copyin(g, k)[i] = pipe[g].data[i]
      BY <1>1, <2>1, CopyinAt
    <3>2. pipe[g].data \in [0..PIPESIZE - 1 -> 0..UINT - 1]
      BY Counters
    <3> QED
      BY <1>1, <3>1, <3>2
  <2>2. CASE \E j \in 0..k - 1 : (pipe[g].nwrite + j) % PIPESIZE = i
    <3>1. PICK j \in 0..k - 1 : (pipe[g].nwrite + j) % PIPESIZE = i
      BY <2>2
    <3>2. copyin(g, k)[i] = (pipe[g].nwrite + j) % UINT
      BY <1>1, <3>1, CopyinAt
    <3>3. pipe[g].nwrite + j \in Nat
      <4>1. j \in Nat /\ pipe[g].nwrite \in Nat
        BY <3>1, Counters
      <4> QED
        BY <4>1
    <3>4. (pipe[g].nwrite + j) % UINT \in Nat /\ (pipe[g].nwrite + j) % UINT < UINT
      BY <3>3, Ring, ModSmall
    <3>5. \A x \in Nat : x < UINT => x \in 0..UINT - 1
      BY Ring
    <3> QED
      BY <3>2, <3>4, <3>5
  <2> QED
    BY <2>1, <2>2
<1>2. copyin(g, k) = [i \in 0..PIPESIZE - 1 |-> copyin(g, k)[i]]
  BY DEF copyin
<1> QED
  BY <1>1, <1>2

\* A step of pipewrite().
LEMMA PipewriteStep ==
  ASSUME PipeInv, NEW p \in Procs, pipewrite(p)
  PROVE  PipeInv'
<1>1. PICK g : g = th[p].pipe
  OBVIOUS
<1>2. PICK k : k = Min({th[p].n, Room(g)})
  OBVIOUS
<1>3. PICK quit \in BOOLEAN : quit <=> th[p].n > k /\ (~pipe[g].readopen \/ p \in killed)
  OBVIOUS
<1>4. PICK sleeps \in BOOLEAN : sleeps <=> th[p].n > k /\ ~quit
  OBVIOUS
<1>5. /\ th[p].pc = "write" /\ pipe[g].lock = 0
      /\ pipe' = [pipe EXCEPT ![g] = [pipe[g] EXCEPT
                      !.nwrite = (pipe[g].nwrite + k) % UINT, !.data = copyin(g, k),
                      !.lock = IF sleeps THEN p ELSE 0]]
      /\ th' = [(IF quit THEN th ELSE wakeup(g, {"nread"}, th)) EXCEPT ![p] =
                   IF sleeps THEN [th[p] EXCEPT !.pc = "write_sleep", !.n = @ - k]
                   ELSE Thread("user")]
      /\ UNCHANGED <<file, ofile, iref, killed>>
  BY <1>1, <1>2, <1>3, <1>4 DEF pipewrite, At
<1>6. g \in Pages
  BY <1>1, <1>5, CallPipe DEF Writing
<1>7. /\ Count(g) \in Nat /\ Count(g) <= PIPESIZE /\ PIPESIZE \in Nat
      /\ th[p].n \in Nat /\ th[p] \in ThreadType
  BY <1>6, Counters, Ring, Parts DEF ThreadType
<1>a. Room(g) \in Nat /\ Room(g) + Count(g) = PIPESIZE
  BY <1>7 DEF Room
<1>8. k \in Nat /\ k <= Room(g) /\ k <= th[p].n /\ (k = Room(g) \/ k = th[p].n)
  <2>1. {th[p].n, Room(g)} \subseteq Nat /\ {th[p].n, Room(g)} # {}
    BY <1>7, <1>a
  <2>2. Min({th[p].n, Room(g)}) \in {th[p].n, Room(g)}
        /\ \A x \in {th[p].n, Room(g)} : Min({th[p].n, Room(g)}) <= x
    BY <2>1, MinIn
  <2> QED
    BY <1>2, <2>1, <2>2
<1>b. Count(g) + k <= PIPESIZE /\ k <= PIPESIZE /\ (sleeps => Count(g) + k = PIPESIZE)
  <2>1. sleeps => k = Room(g)
    BY <1>4, <1>7, <1>8
  <2> QED
    BY <1>7, <1>8, <1>a, <2>1
<1>9. PICK l : l = IF sleeps THEN p ELSE 0
  OBVIOUS
<1>10. l \in 0..NPROC
  BY <1>9, Indices
<1>11. PICK nw : nw = (pipe[g].nwrite + k) % UINT
  OBVIOUS
<1>12. nw \in 0..UINT - 1
  <2>1. pipe[g].nwrite + k \in Nat
    BY <1>6, <1>8, Counters
  <2>2. nw \in Nat /\ nw < UINT
    BY <2>1, <1>11, Ring, ModSmall
  <2> QED
    BY <2>2, Ring
<1>c. PICK d : d = copyin(g, k)
  OBVIOUS
<1>d. d \in [0..PIPESIZE - 1 -> 0..UINT - 1]
  BY <1>6, <1>8, <1>b, <1>c, CopyinType
<1>13. PICK r : r = [pipe[g] EXCEPT !.nwrite = nw, !.data = d, !.lock = l]
  OBVIOUS
<1>14. pipe[g] \in PipeType /\ pipe \in [Pages -> PipeType]
  BY <1>6, Parts
<1>15. /\ r \in PipeType /\ r.alloc = pipe[g].alloc /\ r.readopen = pipe[g].readopen
       /\ r.writeopen = pipe[g].writeopen /\ r.nread = pipe[g].nread
       /\ r.data = d /\ r.lock = l /\ r.nwrite = nw
  BY <1>10, <1>12, <1>13, <1>14, <1>d DEF PipeType
<1>16. pipe' = [pipe EXCEPT ![g] = r]
  BY <1>5, <1>9, <1>11, <1>13, <1>c
<1>17. pipe'[g] = r /\ PipeMoved(g)
  BY <1>6, <1>15, <1>16, PipeSet
<1>18. PICK t : t = IF sleeps THEN [th[p] EXCEPT !.pc = "write_sleep", !.n = @ - k]
                    ELSE Thread("user")
  OBVIOUS
<1>19. /\ t \in ThreadType
       /\ \/ ~sleeps /\ t = Thread("user")
          \/ /\ sleeps /\ t.pc = "write_sleep" /\ t.f = th[p].f /\ t.closing = th[p].closing
             /\ t.ff = th[p].ff /\ t.pipe = g
  <2>1. CASE sleeps
    <3>1. PICK n \in Nat : n = th[p].n - k
      BY <1>7, <1>8
    <3>2. t = [th[p] EXCEPT !.pc = "write_sleep", !.n = n]
      BY <1>18, <2>1, <3>1
    <3> QED
      BY <1>1, <1>7, <2>1, <3>1, <3>2 DEF ThreadType, Reading, Writing
  <2>2. CASE ~sleeps
    BY <1>18, <2>2, ThreadUser
  <2> QED
    BY <2>1, <2>2
<1>20. /\ th'[p] = t /\ OthersIn(p)
       /\ \/ ~pipe[g].readopen \/ p \in killed
          \/ \A q \in Procs : q # p /\ th[q].pipe = g => th'[q].pc # "nread"
  <2>1. CASE quit
    <3>1. th' = [th EXCEPT ![p] = t]
      BY <1>5, <1>18, <2>1
    <3>2. ~pipe[g].readopen \/ p \in killed
      BY <1>3, <2>1
    <3> QED
      BY <1>19, <3>1, <3>2, MovedAlone
  <2>2. CASE ~quit
    <3>1. Wakes(p, g, "nread", t)
      BY <1>5, <1>18, <2>2 DEF Wakes
    <3>2. th'[p] = t /\ OthersIn(p) /\ NoneOn(p, g, "nread")
      BY <1>19, <3>1, MovedWaking
    <3> QED
      BY <3>2 DEF NoneOn
  <2> QED
    BY <2>1, <2>2
<1>21. Moved(p, g)
  BY <1>5, <1>9, <1>15, <1>17, <1>19, <1>20 DEF Moved
<1>22. th'[p].pc = "write_sleep" => Count(g) + k = PIPESIZE
  BY <1>b, <1>19, <1>20, ThreadUser
<1>23. /\ pipe'[g].nwrite = (pipe[g].nwrite + k) % UINT
       /\ pipe'[g].nread = pipe[g].nread /\ pipe'[g].data = copyin(g, k)
  BY <1>11, <1>15, <1>17, <1>c
<1>24. UNCHANGED <<file, ofile, iref, killed>> /\ th[p].pc = "write" /\ pipe[g].lock = 0
  BY <1>5
<1> QED
  BY <1>1, <1>6, <1>8, <1>b, <1>17, <1>20, <1>21, <1>22, <1>23, <1>24, WriteStep

-----------------------------------------------------------------------------
(* The invariant *)

\* The initial state: no open file, no pipe, one process.
LEMMA PipeInit == Init => PipeInv
<1> SUFFICES ASSUME Init PROVE PipeInv
  OBVIOUS
<1>1. /\ file = [f \in Files |-> NoFile] /\ ofile = [p \in Procs |-> [fd \in Fds |-> 0]]
      /\ pipe = [g \in Pages |-> NoPipe] /\ iref = 0 /\ killed = {}
  BY DEF Init
<1>2. /\ NoFile \in FileType /\ NoFile.ref = 0 /\ NoFile.type = "none"
      /\ NoFiles \in [Slots -> 0..NFILE] /\ NoFiles[1] = 0 /\ NoFiles[2] = 0
  <2>1. 0 \in 0..NFILE /\ 0 \in 0..NPAGE
    BY Indices
  <2> QED
    BY <2>1 DEF NoFile, FileType, NoFiles, Slots
<1>3. ASSUME NEW p \in Procs
      PROVE  /\ th[p] \in ThreadType /\ th[p].pc \in {"user", "free"} /\ th[p].f = NoFiles
             /\ th[p].closing = FALSE /\ th[p].ff = NoFile /\ th[p].pipe = 0
  <2>1. PICK pc \in {"user", "free"} : th[p] = Thread(pc)
    BY <1>3 DEF Init
  <2>2. 0 \in 0..NPAGE
    BY Indices
  <2> QED
    BY <1>2, <2>1, <2>2 DEF Thread, ThreadType
<1>4. th \in [Procs -> ThreadType]
  <2>1. th = [p \in Procs |-> th[p]]
    BY DEF Init
  <2> QED
    BY <1>3, <2>1
<1>5. \A g \in Pages : pipe[g] = NoPipe
  BY <1>1
<1>6. /\ NoPipe \in PipeType /\ NoPipe.alloc = FALSE /\ NoPipe.readopen = FALSE
      /\ NoPipe.writeopen = FALSE /\ NoPipe.nread = 0 /\ NoPipe.nwrite = 0 /\ NoPipe.lock = 0
  BY Opened DEF NoPipe
<1>7. \A f \in Files : file[f] = NoFile
  BY <1>1
<1>8. \A p \in Procs, fd \in Fds : ofile[p][fd] = 0
  BY <1>1
<1>9. TypeOK
  <2>1. file \in [Files -> FileType]
    BY <1>1, <1>2
  <2>2. ofile \in [Procs -> [Fds -> 0..NFILE]]
    BY <1>1, Indices
  <2>3. pipe \in [Pages -> PipeType]
    BY <1>1, <1>6
  <2> QED
    BY <1>1, <1>4, <2>1, <2>2, <2>3 DEF TypeOK
<1>10. RefsExact
  <2>1. ASSUME NEW f \in Files
        PROVE  file[f].ref = Cardinality(Places(ofile, Fds, f))
                             + Cardinality(Places(Hands, Slots, f))
    <3>1. f # 0
      BY <2>1, Indices
    <3>2. Places(ofile, Fds, f) = {}
      BY <1>8, <3>1 DEF Places
    <3>3. \A p \in Procs : Hands[p] = NoFiles
      BY <1>3 DEF Hands
    <3>4. Places(Hands, Slots, f) = {}
      BY <1>2, <3>1, <3>3, Indices DEF Places
    <3>5. Cardinality({}) = 0
      BY FS_EmptySet
    <3> QED
      BY <1>2, <1>7, <2>1, <3>2, <3>4, <3>5
  <2> QED
    BY <2>1 DEF RefsExact
<1>11. InodeRefsExact
  <2>1. {f \in Files : file[f].type = "inode"} = {}
    BY <1>2, <1>7
  <2>2. {p \in Procs : th[p].ff.type = "inode"} = {}
    BY <1>2, <1>3
  <2>3. Cardinality({}) = 0
    BY FS_EmptySet
  <2>4. iref = 0
    BY <1>1
  <2>5. /\ Cardinality({f \in Files : file[f].type = "inode"}) = 0
        /\ Cardinality({p \in Procs : th[p].ff.type = "inode"}) = 0
    BY <2>1, <2>2, <2>3
  <2> QED
    BY <2>4, <2>5 DEF InodeRefsExact
<1>12. /\ \A f \in Files, g \in Pages, w \in BOOLEAN : ~IsEnd(file[f], g, w)
       /\ \A p \in Procs, g \in Pages, w \in BOOLEAN : ~IsEnd(th[p].ff, g, w)
  BY <1>2, <1>3, <1>7 DEF IsEnd
<1>13. PipePageOwned
  <2>1. \A g \in Pages, w \in BOOLEAN : End(g, w) = FALSE
    BY <1>12 DEF End
  <2> QED
    BY <1>5, <1>6, <2>1 DEF PipePageOwned
<1>14. EndsUnique
  BY <1>12 DEF EndsUnique
<1>15. FilesSound
  BY <1>2, <1>7, <1>8 DEF FilesSound
<1>16. HandsSound
  <2>1. ASSUME NEW p \in Procs PROVE HandSound(p)
    BY <1>2, <1>3, <1>8, <2>1, Indices DEF HandSound
  <2> QED
    BY <2>1 DEF HandsSound
<1>17. InsideSound
  <2>1. ASSUME NEW p \in Procs
        PROVE  /\ (th[p].pipe # 0) = (th[p].pc \in Reading \union Writing)
               /\ \A g \in Pages : (pipe[g].lock = p) =
                     (th[p].pc \in {"read_sleep", "write_sleep"} /\ th[p].pipe = g)
    <3>1. p # 0
      BY <2>1, Indices
    <3>2. /\ th[p].pipe = 0 /\ th[p].pc \notin Reading \union Writing
          /\ th[p].pc \notin {"read_sleep", "write_sleep"}
      BY <1>3, <2>1 DEF Reading, Writing
    <3>3. \A g \in Pages : pipe[g].lock # p
      BY <1>5, <1>6, <3>1
    <3> QED
      BY <3>2, <3>3
  <2> QED
    BY <1>3, <2>1 DEF InsideSound
<1>18. Fifo
  <2>1. ASSUME NEW g \in Pages PROVE FifoAt(g)
    <3>1. pipe[g].nread = 0 /\ pipe[g].nwrite = 0
      BY <1>5, <1>6, <2>1
    <3>2. Count(g) = 0
      <4>1. Count(g) = (0 + UINT - 0) % UINT
        BY <3>1 DEF Count
      <4>2. 0 + UINT - 0 = UINT /\ UINT > 0
        BY Ring
      <4>3. UINT % UINT = UINT - UINT
        BY <4>2, Ring, ModSmall
      <4>4. Count(g) = UINT % UINT
        BY <4>1, <4>2
      <4> QED
        BY <4>3, <4>4, Ring
    <3>3. 1..Count(g) = {}
      BY <3>2
    <3>4. copyout(g) = [i \in 1..Count(g) |-> (pipe[g].nread + i - 1) % UINT]
      BY <3>3 DEF copyout
    <3> QED
      BY <3>2, <3>4, Ring DEF FifoAt
  <2> QED
    BY <2>1 DEF Fifo, FifoAt
<1>19. SleepJustified
  BY <1>3 DEF SleepJustified
<1> QED
  BY <1>9, <1>10, <1>11, <1>13, <1>14, <1>15, <1>16, <1>17, <1>18, <1>19
  DEF PipeInv, FilesInv

\* Every step of file.c, pipe.c and the descriptor calls keeps the invariant.
LEMMA PipeStep == PipeInv /\ [Next]_vars => PipeInv'
<1> SUFFICES ASSUME PipeInv, [Next]_vars PROVE PipeInv'
  OBVIOUS
<1>1. CASE UNCHANGED vars
  <2>1. /\ file' = file /\ ofile' = ofile /\ pipe' = pipe /\ iref' = iref
        /\ killed' = killed /\ th' = th
    BY <1>1 DEF vars
  <2>2. /\ TypeOK' <=> TypeOK
        /\ FilesSound' <=> FilesSound
    BY <2>1 DEF TypeOK, FilesSound
  <2>3. RefsExact' <=> RefsExact
    BY <2>1 DEF RefsExact, Places, Hands
  <2>4. InodeRefsExact' <=> InodeRefsExact
    BY <2>1 DEF InodeRefsExact
  <2>5. PipePageOwned' <=> PipePageOwned
    BY <2>1 DEF PipePageOwned, End, IsEnd
  <2>6. EndsUnique' <=> EndsUnique
    BY <2>1 DEF EndsUnique, IsEnd
  <2>7. HandsSound' <=> HandsSound
    BY <2>1 DEF HandsSound, HandSound
  <2>8. InsideSound' <=> InsideSound
    BY <2>1 DEF InsideSound, IsEnd
  <2>9. Fifo' <=> Fifo
    BY <2>1 DEF Fifo, Count, copyout
  <2>10. SleepJustified' <=> SleepJustified
    BY <2>1 DEF SleepJustified, Count
  <2> QED
    BY <2>2, <2>3, <2>4, <2>5, <2>6, <2>7, <2>8, <2>9, <2>10 DEF PipeInv, FilesInv
<1>2. ASSUME NEW p \in Procs, Start(p) PROVE PipeInv'
  <2>1. CASE sys_pipe(p)
    BY <1>2, <2>1, SysPipeStep
  <2>2. CASE sys_open(p)
    BY <1>2, <2>2, SysOpenStep
  <2>3. ASSUME NEW fd \in Fds, sys_dup(p, fd) PROVE PipeInv'
    BY <1>2, <2>3, SysDupStep
  <2>4. ASSUME NEW fd \in Fds, sys_close(p, fd) PROVE PipeInv'
    BY <1>2, <2>4, SysCloseStep
  <2>5. ASSUME NEW fd \in Fds, NEW n \in ReadSizes, sys_read(p, fd, n) PROVE PipeInv'
    BY <1>2, <2>5, SysReadStep
  <2>6. ASSUME NEW fd \in Fds, NEW n \in WriteSizes, sys_write(p, fd, n) PROVE PipeInv'
    BY <1>2, <2>6, SysWriteStep
  <2>7. ASSUME NEW q \in Procs, fork(p, q) PROVE PipeInv'
    BY <1>2, <2>7, ForkStep
  <2> QED
    BY <1>2, <2>1, <2>2, <2>3, <2>4, <2>5, <2>6, <2>7 DEF Start
<1>3. ASSUME NEW p \in Procs, Continue(p) PROVE PipeInv'
  <2>1. CASE pipealloc_f1(p)
    BY <1>3, <2>1, PipeallocF1Step
  <2>2. CASE pipealloc_kalloc(p)
    BY <1>3, <2>2, PipeallocKallocStep
  <2>3. CASE fileclose(p)
    BY <1>3, <2>3, FilecloseStep
  <2>4. CASE pipeclose(p)
    BY <1>3, <2>4, PipecloseStep
  <2>5. CASE fileclose_iput(p)
    BY <1>3, <2>5, IputStep
  <2>6. CASE exit_close(p)
    BY <1>3, <2>6, ExitCloseStep
  <2>7. CASE piperead(p)
    BY <1>3, <2>7, PipereadStep
  <2>8. CASE pipewrite(p)
    BY <1>3, <2>8, PipewriteStep
  <2>9. CASE pipesleep(p)
    BY <1>3, <2>9, PipesleepStep
  <2> QED
    BY <1>3, <2>1, <2>2, <2>3, <2>4, <2>5, <2>6, <2>7, <2>8, <2>9 DEF Continue
<1>4. ASSUME NEW p \in Procs, exit(p) PROVE PipeInv'
  BY <1>4, ExitStep
<1>5. ASSUME NEW p \in Procs, kill(p) PROVE PipeInv'
  BY <1>5, KillStep
<1> QED
  BY <1>1, <1>2, <1>3, <1>4, <1>5 DEF Next

\* The invariant holds of every behaviour.
LEMMA PipeAlways == Spec => []PipeInv
<1>1. Init => PipeInv
  BY PipeInit
<1>2. PipeInv /\ [Next]_vars => PipeInv'
  BY PipeStep
<1> QED
  BY <1>1, <1>2, PTL DEF Spec

\* f->ref counts exactly the descriptors and the calls that lead to the file, a
\* pipe page is allocated exactly while an end of it is open, no end is closed
\* twice, inode references are those of open files, and a process inside
\* piperead() or pipewrite() keeps its pipe: filealloc(), filedup(),
\* fileclose(), pipealloc(), pipeclose(), fork() and exit() in every
\* interleaving.
THEOREM PipeFiles == Spec => []FilesInv
<1>1. PipeInv => FilesInv
  BY DEF PipeInv
<1> QED
  BY <1>1, PipeAlways, PTL

\* The bytes in a pipe are at most PIPESIZE, and those number nread, nread + 1,
\* ... of all the bytes written: pipewrite() and piperead() neither lose,
\* overwrite nor repeat one, also when nread and nwrite have wrapped around.
THEOREM PipeFifo == Spec => []Fifo
<1>1. PipeInv => Fifo
  BY DEF PipeInv
<1> QED
  BY <1>1, PipeAlways, PTL

\* No lost wakeup in pipewrite(), piperead() and pipeclose(): a writer sleeps
\* only on a full pipe, and a reader, until a process is killed, only on an
\* empty one.
THEOREM PipeSleepJustified == Spec => []SleepJustified
<1>1. PipeInv => SleepJustified
  BY DEF PipeInv
<1> QED
  BY <1>1, PipeAlways, PTL
=============================================================================
