---------------------------- MODULE ConsoleProofs ----------------------------
(***************************************************************************)
(* Proofs about the console: the interrupt handlers keep cursor, ring and  *)
(* shift state sound, no reader sleeps while a line is there, and the ring *)
(* with its three indexes implements the line discipline of Terminal.      *)
(***************************************************************************)
EXTENDS Console, SequenceTheorems, WellFoundedInduction, TLAPS

(* Arithmetic of indexes: modulo UINT, and in the buffer modulo INPUT_BUF, which
   divides UINT. *)

\* The sizes of the ring.
LEMMA RingSizes ==
  /\ INPUT_BUF \in Nat /\ INPUT_BUF > 0 /\ UINT \in Nat /\ UINT > INPUT_BUF /\ UINT > 0
  /\ UINT % INPUT_BUF = 0
  BY ConsoleAssumption

\* The sizes of the screen.
LEMMA ScreenSizes == COLS \in Nat /\ COLS > 0 /\ ROWS \in Nat /\ ROWS >= 2
  BY ConsoleAssumption

\* A number modulo m, below m and below two m.
LEMMA ModSmall ==
  ASSUME NEW m \in Nat, m > 0, NEW x \in Nat
  PROVE  /\ x % m \in Nat /\ x % m < m
         /\ x < m => x % m = x
         /\ m <= x /\ x < m + m => x % m = x - m
<1>1. x % m \in Nat /\ x % m < m
  OBVIOUS
<1>2. x < m => x % m = x
  OBVIOUS
<1>3. m <= x /\ x < m + m => x % m = x - m
  OBVIOUS
<1> QED
  BY <1>1, <1>2, <1>3

\* Quotient and remainder.
LEMMA DivMod ==
  ASSUME NEW m \in Nat, m > 0, NEW x \in Nat
  PROVE  x \div m \in Nat /\ x = m * (x \div m) + (x % m)
  OBVIOUS

\* A multiple of m is not below m.
LEMMA TimesGeq ==
  ASSUME NEW m \in Nat, NEW e \in Int, e >= 1
  PROVE  m * e >= m
<1>1. e - 1 \in Nat /\ m * e = m + m * (e - 1)
  OBVIOUS
<1>2. m * (e - 1) >= 0
  BY <1>1
<1> QED
  BY <1>1, <1>2

\* Quotient and remainder are unique.
LEMMA ModUnique ==
  ASSUME NEW m \in Nat, m > 0, NEW a \in Nat, NEW b \in Nat, b < m
  PROVE  (m * a + b) % m = b
<1>1. PICK x \in Nat : x = m * a + b
  OBVIOUS
<1>2. PICK c \in Nat, d \in Nat : d = x % m /\ x = m * c + d /\ d < m
  <2>1. x \in Nat
    BY <1>1
  <2>2. x % m \in Nat /\ x % m < m
    BY <2>1, ModSmall
  <2>3. x \div m \in Nat /\ x = m * (x \div m) + (x % m)
    BY <2>1, DivMod
  <2> QED
    BY <2>2, <2>3
<1>3. m * a + b = m * c + d
  BY <1>1, <1>2
<1>4. CASE a = c
  BY <1>1, <1>2, <1>3, <1>4
<1>5. CASE a > c
  <2>1. m * (a - c) >= m
    BY <1>5, TimesGeq
  <2>2. m * (a - c) = m * a - m * c
    OBVIOUS
  <2> QED
    BY <1>2, <1>3, <2>1, <2>2
<1>6. CASE c > a
  <2>1. m * (c - a) >= m
    BY <1>6, TimesGeq
  <2>2. m * (c - a) = m * c - m * a
    OBVIOUS
  <2> QED
    BY <1>2, <1>3, <2>1, <2>2
<1> QED
  BY <1>4, <1>5, <1>6

\* Numbers at a distance less than m.
LEMMA ModApart ==
  ASSUME NEW m \in Nat, m > 0, NEW x \in Nat, NEW d \in Nat, d > 0, d < m
  PROVE  x % m # (x + d) % m
<1>1. PICK a \in Nat, b \in Nat : b = x % m /\ x = m * a + b /\ b < m
  BY DivMod, ModSmall
<1>2. CASE b + d < m
  <2>1. x + d = m * a + (b + d) /\ b + d \in Nat
    BY <1>1
  <2>2. (x + d) % m = b + d
    BY <2>1, <1>2, ModUnique
  <2> QED
    BY <1>1, <2>2
<1>3. CASE b + d >= m
  <2>1. x + d = m * (a + 1) + (b + d - m) /\ b + d - m \in Nat /\ b + d - m < m /\ a + 1 \in Nat
    BY <1>1, <1>3
  <2>2. (x + d) % m = b + d - m
    BY <2>1, ModUnique
  <2> QED
    BY <1>1, <2>2
<1> QED
  BY <1>1, <1>2, <1>3

\* Adding a multiple of m.
LEMMA ModMultiple ==
  ASSUME NEW m \in Nat, m > 0, NEW x \in Nat, NEW u \in Nat, u % m = 0
  PROVE  (x + u) % m = x % m
<1>1. PICK a \in Nat, b \in Nat : b = x % m /\ x = m * a + b /\ b < m
  BY DivMod, ModSmall
<1>2. PICK c \in Nat : u = m * c
  <2>1. u \div m \in Nat /\ u = m * (u \div m) + 0
    BY DivMod
  <2> QED
    BY <2>1
<1>3. x + u = m * (a + c) + b /\ a + c \in Nat
  BY <1>1, <1>2
<1> QED
  BY <1>1, <1>3, ModUnique

\* Reducing an index modulo UINT changes neither its place in the buffer nor what
\* follows it.
LEMMA RingAdd ==
  ASSUME NEW x \in Nat, x < UINT + UINT, NEW j \in Nat
  PROVE  /\ ((x % UINT) + j) % INPUT_BUF = (x + j) % INPUT_BUF
         /\ ((x % UINT) + j) % UINT = (x + j) % UINT
<1>1. UINT \in Nat /\ UINT > 0 /\ INPUT_BUF \in Nat /\ INPUT_BUF > 0 /\ UINT % INPUT_BUF = 0
  BY RingSizes
<1>2. CASE x < UINT
  BY <1>1, <1>2, ModSmall
<1>3. CASE x >= UINT
  <2>1. PICK y \in Nat : x = y + UINT /\ x % UINT = y
    <3>1. x % UINT = x - UINT
      BY <1>1, <1>3, ModSmall
    <3> QED
      BY <1>1, <1>3, <3>1
  <2>2. x + j = (y + j) + UINT /\ y + j \in Nat
    BY <1>1, <2>1
  <2>3. ((y + j) + UINT) % INPUT_BUF = (y + j) % INPUT_BUF
    BY <1>1, <2>2, ModMultiple
  <2>4. UINT % UINT = 0
    BY <1>1, ModSmall
  <2>5. ((y + j) + UINT) % UINT = (y + j) % UINT
    BY <1>1, <2>2, <2>4, ModMultiple
  <2> QED
    BY <2>1, <2>2, <2>3, <2>5
<1> QED
  BY <1>1, <1>2, <1>3

\* The later index is the earlier one plus the span, modulo UINT.
LEMMA RingAhead ==
  ASSUME NEW r \in Nat, r < UINT, NEW w \in Nat, w < UINT
  PROVE  /\ Span(r, w) \in Nat /\ Span(r, w) < UINT
         /\ w = (r + Span(r, w)) % UINT
<1>1. UINT \in Nat /\ UINT > 0
  BY RingSizes
<1>2. CASE w >= r
  <2>1. Span(r, w) = w - r
    <3>1. w + UINT - r \in Nat /\ UINT <= w + UINT - r /\ w + UINT - r < UINT + UINT
      BY <1>1, <1>2
    <3> QED
      BY <1>1, <1>2, <3>1, ModSmall DEF Span
  <2>2. r + Span(r, w) = w
    BY <2>1
  <2> QED
    BY <1>1, <1>2, <2>1, <2>2, ModSmall
<1>3. CASE w < r
  <2>1. Span(r, w) = w + UINT - r
    <3>1. w + UINT - r \in Nat /\ w + UINT - r < UINT
      BY <1>1, <1>3
    <3> QED
      BY <1>1, <3>1, ModSmall DEF Span
  <2>2. r + Span(r, w) = w + UINT /\ w + UINT \in Nat /\ w + UINT < UINT + UINT
    BY <1>1, <2>1
  <2>3. (w + UINT) % UINT = w
    BY <1>1, <2>2, ModSmall
  <2> QED
    BY <1>1, <1>3, <2>1, <2>2, <2>3
<1> QED
  BY <1>2, <1>3

\* The span up to an index that is c ahead.
LEMMA RingBack ==
  ASSUME NEW r \in Nat, r < UINT, NEW c \in Nat, c < UINT
  PROVE  Span(r, (r + c) % UINT) = c
<1>1. UINT \in Nat /\ UINT > 0
  BY RingSizes
<1>2. CASE r + c < UINT
  <2>1. (r + c) % UINT = r + c
    BY <1>1, <1>2, ModSmall
  <2>2. (r + c) + UINT - r = c + UINT
    BY <1>1
  <2>3. (c + UINT) % UINT = c
    BY <1>1, ModSmall
  <2> QED
    BY <2>1, <2>2, <2>3 DEF Span
<1>3. CASE r + c >= UINT
  <2>1. (r + c) % UINT = r + c - UINT
    BY <1>1, <1>3, ModSmall
  <2>2. (r + c - UINT) + UINT - r = c
    BY <1>1
  <2>3. c % UINT = c
    BY <1>1, ModSmall
  <2> QED
    BY <2>1, <2>2, <2>3 DEF Span
<1> QED
  BY <1>1, <1>2, <1>3

\* Taking k characters from one end, and adding k at the other.
LEMMA RingMoves ==
  ASSUME NEW r \in Nat, r < UINT, NEW w \in Nat, w < UINT, NEW c, c = Span(r, w),
         NEW k \in Nat
  PROVE  /\ k <= c => Span((r + k) % UINT, w) = c - k
         /\ c + k < UINT => Span(r, (w + k) % UINT) = c + k
<1>1. UINT \in Nat /\ UINT > 0
  BY RingSizes
<1>2. c \in Nat /\ c < UINT /\ w = (r + c) % UINT
  BY RingAhead
<1>3. ASSUME k <= c PROVE Span((r + k) % UINT, w) = c - k
  <2>1. PICK s \in Nat : s = (r + k) % UINT /\ s < UINT
    BY <1>1, ModSmall
  <2>2. (s + (c - k)) % UINT = w
    <3>1. r + k \in Nat /\ r + k < UINT + UINT /\ c - k \in Nat /\ (r + k) + (c - k) = r + c
      BY <1>1, <1>2, <1>3
    <3>2. (((r + k) % UINT) + (c - k)) % UINT = ((r + k) + (c - k)) % UINT
      BY <3>1, RingAdd
    <3> QED
      BY <1>2, <2>1, <3>1, <3>2
  <2>3. c - k \in Nat /\ c - k < UINT
    BY <1>1, <1>2, <1>3
  <2>4. Span(s, (s + (c - k)) % UINT) = c - k
    BY <2>1, <2>3, RingBack
  <2> QED
    BY <2>1, <2>2, <2>4
<1>4. ASSUME c + k < UINT PROVE Span(r, (w + k) % UINT) = c + k
  <2>1. (w + k) % UINT = (r + (c + k)) % UINT
    <3>1. r + c \in Nat /\ r + c < UINT + UINT /\ (r + c) + k = r + (c + k)
      BY <1>1, <1>2
    <3>2. (((r + c) % UINT) + k) % UINT = ((r + c) + k) % UINT
      BY <3>1, RingAdd
    <3> QED
      BY <1>2, <3>1, <3>2
  <2>2. c + k \in Nat
    BY <1>2
  <2> QED
    BY <1>4, <2>1, <2>2, RingBack
<1> QED
  BY <1>3, <1>4

-----------------------------------------------------------------------------
(* The cursor. *)

\* A product with a larger factor.
LEMMA TimesMonotone ==
  ASSUME NEW m \in Nat, NEW a \in Int, NEW b \in Int, a <= b
  PROVE  m * a <= m * b
<1>1. b - a \in Nat /\ m * b = m * a + m * (b - a)
  OBVIOUS
<1>2. m * (b - a) >= 0
  BY <1>1
<1> QED
  BY <1>1, <1>2

\* The size of the screen and of the screen without its last row.
LEMMA ScreenCells ==
  /\ ROWS * COLS \in Nat /\ COLS * ROWS = ROWS * COLS
  /\ COLS * (ROWS - 1) = ROWS * COLS - COLS /\ COLS * (ROWS - 1) >= COLS
<1>1. ROWS * COLS \in Nat /\ COLS * ROWS = ROWS * COLS
  BY ScreenSizes
<1>2. COLS * (ROWS - 1) = COLS * ROWS - COLS
  BY ScreenSizes
<1>3. COLS * (ROWS - 1) >= COLS
  BY ScreenSizes, TimesGeq
<1> QED
  BY <1>1, <1>2, <1>3

\* Scrolling: a position up to one behind the screen comes back onto it.
LEMMA Scrolled ==
  ASSUME NEW q \in Nat, q <= ROWS * COLS
  PROVE  (IF q \div COLS >= ROWS - 1 THEN q - COLS ELSE q) \in 0..ROWS * COLS - 1
<1>1. PICK d \in Nat, m \in Nat : d = q \div COLS /\ q = COLS * d + m /\ m < COLS
  BY ScreenSizes, DivMod, ModSmall
<1>2. CASE d >= ROWS - 1
  <2>1. COLS * d >= COLS * (ROWS - 1)
    BY <1>2, ScreenSizes, TimesMonotone
  <2>2. q - COLS >= 0 /\ q - COLS <= ROWS * COLS - 1
    BY <1>1, <2>1, ScreenCells, ScreenSizes
  <2> QED
    BY <1>1, <1>2, <2>2, ScreenCells, ScreenSizes
<1>3. CASE d < ROWS - 1
  <2>1. COLS * (d + 1) <= COLS * (ROWS - 1)
    BY <1>3, ScreenSizes, TimesMonotone
  <2>2. COLS * (d + 1) = COLS * d + COLS
    BY ScreenSizes
  <2>3. q <= ROWS * COLS - 1
    BY <1>1, <2>1, <2>2, ScreenCells, ScreenSizes
  <2> QED
    BY <1>1, <1>3, <2>3, ScreenCells, ScreenSizes
<1> QED
  BY <1>1, <1>2, <1>3, ScreenSizes

\* The first position of the next row.
LEMMA NextRow ==
  ASSUME NEW p \in 0..ROWS * COLS - 1
  PROVE  p + COLS - (p % COLS) \in Nat /\ p + COLS - (p % COLS) <= ROWS * COLS
<1>0. p < ROWS * COLS
  BY ScreenCells
<1>1. p \in Nat
  BY ScreenCells
<1>2. PICK d \in Nat, m \in Nat : m = p % COLS /\ p = COLS * d + m /\ m < COLS
  <2>1. p \div COLS \in Nat /\ p = COLS * (p \div COLS) + (p % COLS)
    BY <1>1, ScreenSizes, DivMod
  <2>2. p % COLS \in Nat /\ p % COLS < COLS
    BY <1>1, ScreenSizes, ModSmall
  <2> QED
    BY <2>1, <2>2, Zenon
<1>3. d + 1 <= ROWS
  <2> SUFFICES ASSUME d >= ROWS PROVE FALSE
    BY ScreenSizes
  <2>1. COLS * d >= COLS * ROWS
    BY ScreenSizes, TimesMonotone
  <2>2. COLS * d \in Nat /\ p >= COLS * d
    BY <1>2, ScreenSizes
  <2>3. COLS * ROWS <= p
    BY <1>1, <2>1, <2>2, ScreenCells
  <2> QED
    BY <1>0, <1>1, <2>3, ScreenCells
<1>4. COLS * (d + 1) <= COLS * ROWS
  BY <1>3, ScreenSizes, TimesMonotone
<1>5. COLS * (d + 1) = COLS * d + COLS /\ COLS * d \in Nat
  BY ScreenSizes
<1> QED
  BY <1>2, <1>4, <1>5, ScreenCells, ScreenSizes

\* cgaputc() keeps the cursor on the screen.
LEMMA PutChar ==
  ASSUME NEW p \in 0..ROWS * COLS - 1, NEW c
  PROVE  cgaputc(p, c) \in 0..ROWS * COLS - 1
<1>1. p \in Nat /\ p + 1 <= ROWS * COLS
  BY ScreenCells
<1> DEFINE q == CASE c = "NL" -> p + COLS - (p % COLS)
                  [] c = "BACKSPACE" -> IF p > 0 THEN p - 1 ELSE p
                  [] OTHER -> p + 1
<1>2. q \in Nat /\ q <= ROWS * COLS
  <2>1. CASE c = "NL"
    <3>1. q = p + COLS - (p % COLS)
      BY <2>1
    <3> HIDE DEF q
    <3> QED
      BY <3>1, NextRow
  <2>2. CASE c = "BACKSPACE"
    <3>1. q = IF p > 0 THEN p - 1 ELSE p
      BY <2>2
    <3> HIDE DEF q
    <3> QED
      BY <1>1, <3>1, ScreenCells
  <2>3. CASE c # "NL" /\ c # "BACKSPACE"
    <3>1. q = p + 1
      BY <2>3
    <3> HIDE DEF q
    <3> QED
      BY <1>1, <3>1, ScreenCells
  <2> QED
    BY <2>1, <2>2, <2>3
<1>3. cgaputc(p, c) = IF q \div COLS >= ROWS - 1 THEN q - COLS ELSE q
  BY DEF cgaputc
<1> HIDE DEF q
<1> QED
  BY <1>2, <1>3, Scrolled

\* A set of numbers that is not empty has a least member.
LEMMA LeastNatural ==
  ASSUME NEW S, S \subseteq Nat, S # {}
  PROVE  \E m \in S : \A q \in S : m =< q
<1> DEFINE R == OpToRel(<, Nat)
<1>1. R = {ss \in Nat \X Nat : ss[1] < ss[2]}
  BY DEF OpToRel
<1>2. IsWellFoundedOn(R, Nat)
  BY Zenon, NatLessThanWellFounded DEF R
<1> HIDE DEF R
<1>3. PICK m \in S : \A q \in S : ~(<<q, m>> \in R)
  BY <1>2, WFMin
<1>4. ASSUME NEW q \in S, q < m PROVE FALSE
  <2>1. <<q, m>> \in {ss \in Nat \X Nat : ss[1] < ss[2]}
    BY <1>4
  <2> QED
    BY <2>1, <1>1, <1>3
<1> QED
  BY <1>4

\* A set of numbers with 0 and the successors of its members holds them all.
LEMMA Induction ==
  ASSUME NEW S, NEW m \in Nat, 0 \in S, \A n \in 0..m - 1 : n \in S => n + 1 \in S
  PROVE  \A n \in 0..m : n \in S
<1> DEFINE bad == {n \in 0..m : n \notin S}
<1>1. SUFFICES ASSUME bad # {} PROVE FALSE
  OBVIOUS
<1>2. bad \subseteq Nat
  OBVIOUS
<1>3. PICK n \in bad : \A q \in bad : n =< q
  BY <1>1, <1>2, LeastNatural
<1>4. n \in 0..m /\ n # 0 /\ n - 1 \in 0..m - 1
  OBVIOUS
<1>5. n - 1 \in S
  BY <1>3, <1>4
<1>6. n - 1 + 1 \in S
  BY <1>4, <1>5
<1> QED
  BY <1>4, <1>6

\* The positions of the cursor, and those after each of the first m characters.
Cells == 0..ROWS * COLS - 1
Puts(s, u, m) == /\ u \in [0..m -> Cells] /\ u[0] = pos
                 /\ \A n \in 1..m : u[n] = cgaputc(u[n - 1], s[n])

\* consputs() leaves the cursor on the screen.
LEMMA PutString ==
  ASSUME CursorOnScreen, NEW s, Len(s) \in Nat
  PROVE  consputs(s) \in Cells
<1>0. PICK N \in Nat : N = Len(s)
  OBVIOUS
<1> DEFINE S == {m \in 0..N : \E u : Puts(s, u, m)}
<1>a. \A p \in Cells : \A c : cgaputc(p, c) \in Cells
  BY PutChar DEF Cells
<1>1. 0 \in S
  <2>1. Puts(s, [n \in 0..0 |-> pos], 0)
    BY DEF Puts, Cells, CursorOnScreen
  <2> QED
    BY <2>1
<1>2. ASSUME NEW m \in 0..N - 1, m \in S PROVE m + 1 \in S
  <2>1. PICK u : Puts(s, u, m)
    BY <1>2
  <2> DEFINE g == [n \in 0..m + 1 |-> IF n = m + 1 THEN cgaputc(u[m], s[m + 1]) ELSE u[n]]
  <2>2. m \in Nat
    BY <1>0
  <2>3. u[m] \in Cells /\ cgaputc(u[m], s[m + 1]) \in Cells
    BY <2>1, <2>2, <1>a DEF Puts
  <2>4. g \in [0..m + 1 -> Cells]
    BY <2>1, <2>2, <2>3 DEF Puts
  <2>5. g[0] = pos
    BY <2>1, <2>2 DEF Puts
  <2>6. ASSUME NEW n \in 1..m + 1 PROVE g[n] = cgaputc(g[n - 1], s[n])
    <3>1. CASE n = m + 1
      <4>1. n - 1 = m /\ m \in 0..m + 1 /\ m # m + 1 /\ n \in 0..m + 1
        BY <2>2, <3>1
      <4> QED
        BY <3>1, <4>1
    <3>2. CASE n # m + 1
      <4>1. n \in 1..m /\ n \in 0..m + 1 /\ n - 1 \in 0..m + 1 /\ n - 1 # m + 1
        BY <2>2, <3>2
      <4>2. u[n] = cgaputc(u[n - 1], s[n])
        BY <2>1, <4>1 DEF Puts
      <4> QED
        BY <3>2, <4>1, <4>2
    <3> QED
      BY <3>1, <3>2
  <2>7. Puts(s, g, m + 1)
    BY <2>4, <2>5, <2>6 DEF Puts
  <2> QED
    BY <2>7, <1>0
<1>3. N \in S
  <2> HIDE DEF S
  <2>1. \A n \in 0..N : n \in S
    BY <1>1, <1>2, Induction, <1>0
  <2> QED
    BY <2>1, <1>0
<1>4. PICK u : Puts(s, u, N)
  BY <1>3
<1> DEFINE Rec(r) == r = [n \in 0..Len(s) |-> IF n = 0 THEN pos ELSE cgaputc(r[n - 1], s[n])]
<1>5. Rec(u)
  BY <1>4, <1>0 DEF Puts
<1>6. PICK r : Rec(r) /\ consputs(s) = r[Len(s)]
  BY <1>5 DEF consputs
<1>7. r[0] = pos /\ \A n \in 1..N : r[n] = cgaputc(r[n - 1], s[n])
  BY <1>6, <1>0
<1> DEFINE T == {n \in 0..N : r[n] \in Cells}
<1>8. 0 \in T
  BY <1>0, <1>7 DEF Cells, CursorOnScreen
<1>9. ASSUME NEW n \in 0..N - 1, n \in T PROVE n + 1 \in T
  <2>1. n + 1 \in 1..N /\ n + 1 \in 0..N /\ (n + 1) - 1 = n
    BY <1>0
  <2>2. r[n + 1] = cgaputc(r[n], s[n + 1])
    BY <2>1, <1>7
  <2> QED
    BY <2>1, <2>2, <1>9, <1>a
<1>10. N \in T
  <2> HIDE DEF T
  <2>1. \A n \in 0..N : n \in T
    BY <1>8, <1>9, Induction, <1>0
  <2> QED
    BY <2>1, <1>0
<1> QED
  BY <1>6, <1>10, <1>0

-----------------------------------------------------------------------------
(* A run of the ring: n characters from the place of index f on, as a sequence. *)

Symbols == Chars \union {"NUL"}
Buffers == [0..INPUT_BUF - 1 -> Symbols]
Run(b, f, n) == [i \in 1..n |-> b[(f + i - 1) % INPUT_BUF]]

\* A place in the buffer.
LEMMA Place ==
  ASSUME NEW x \in Nat
  PROVE  x % INPUT_BUF \in 0..INPUT_BUF - 1
<1>1. x % INPUT_BUF \in Nat /\ x % INPUT_BUF < INPUT_BUF
  BY RingSizes, ModSmall
<1> QED
  BY <1>1, RingSizes

\* A run is a sequence of n symbols.
LEMMA RunSeq ==
  ASSUME NEW b \in Buffers, NEW f \in Nat, NEW n \in Nat
  PROVE  /\ Run(b, f, n) \in Seq(Symbols) /\ Len(Run(b, f, n)) = n
         /\ \A i \in 1..n : Run(b, f, n)[i] = b[(f + i - 1) % INPUT_BUF]
<1>1. \A i \in 1..n : b[(f + i - 1) % INPUT_BUF] \in Symbols
  <2> TAKE i \in 1..n
  <2>1. f + i - 1 \in Nat
    OBVIOUS
  <2>2. (f + i - 1) % INPUT_BUF \in 0..INPUT_BUF - 1
    BY <2>1, Place
  <2> QED
    BY <2>2 DEF Buffers
<1>2. Run(b, f, n) \in [1..n -> Symbols] /\ DOMAIN Run(b, f, n) = 1..n
  BY <1>1 DEF Run
<1> HIDE DEF Symbols
<1>3. Run(b, f, n) \in Seq(Symbols)
  BY <1>2, SeqDef
<1>4. PICK m \in Nat : m = Len(Run(b, f, n)) /\ 1..m = 1..n
  BY <1>2, <1>3, LenProperties
<1>5. m = n
  BY <1>4
<1> QED
  BY <1>3, <1>4, <1>5 DEF Run

\* No characters.
LEMMA RunEmpty ==
  ASSUME NEW b \in Buffers, NEW f \in Nat, NEW n \in Nat
  PROVE  Run(b, f, n) = <<>> <=> n = 0
<1>1. Run(b, f, n) \in Seq(Symbols) /\ Len(Run(b, f, n)) = n
  BY RunSeq
<1>2. <<>> \in Seq(Symbols) /\ Len(<<>>) = 0
  BY EmptySeq
<1>3. ASSUME n # 0 PROVE Run(b, f, n) # <<>>
  BY <1>1, <1>2, <1>3
<1>4. ASSUME n = 0 PROVE Run(b, f, n) = <<>>
  <2>1. \A i \in 1..Len(Run(b, f, n)) : Run(b, f, n)[i] = <<>>[i]
    BY <1>1, <1>4
  <2> QED
    BY <1>1, <1>2, <1>4, <2>1, SeqEqual
<1> QED
  BY <1>3, <1>4

\* Sequences with the same elements as a run.
LEMMA RunEqual ==
  ASSUME NEW b \in Buffers, NEW f \in Nat, NEW n \in Nat, NEW s \in Seq(Symbols),
         Len(s) = n, \A i \in 1..n : s[i] = b[(f + i - 1) % INPUT_BUF]
  PROVE  s = Run(b, f, n)
<1>1. /\ Run(b, f, n) \in Seq(Symbols) /\ Len(Run(b, f, n)) = n
      /\ \A i \in 1..n : Run(b, f, n)[i] = b[(f + i - 1) % INPUT_BUF]
  BY RunSeq
<1>2. \A i \in 1..Len(s) : s[i] = Run(b, f, n)[i]
  BY <1>1
<1> QED
  BY <1>1, <1>2, SeqEqual

\* A run starts at the place of its index, reduced modulo UINT or not.
LEMMA RunWrap ==
  ASSUME NEW b \in Buffers, NEW f \in Nat, f < UINT + UINT, NEW n \in Nat
  PROVE  Run(b, f % UINT, n) = Run(b, f, n)
<1>1. f % UINT \in Nat
  BY RingSizes, ModSmall
<1>2. ASSUME NEW i \in 1..n
      PROVE  ((f % UINT) + i - 1) % INPUT_BUF = (f + i - 1) % INPUT_BUF
  <2>1. PICK j \in Nat : j = i - 1
    OBVIOUS
  <2>2. ((f % UINT) + j) % INPUT_BUF = (f + j) % INPUT_BUF
    BY RingAdd
  <2>3. (f % UINT) + i - 1 = (f % UINT) + j /\ f + i - 1 = f + j
    BY <1>1, <2>1
  <2> QED
    BY <2>2, <2>3
<1> QED
  BY <1>2 DEF Run

\* Two runs, one after the other.
LEMMA RunConcat ==
  ASSUME NEW b \in Buffers, NEW f \in Nat, NEW n \in Nat, NEW m \in Nat
  PROVE  Run(b, f, n) \o Run(b, f + n, m) = Run(b, f, n + m)
<1> DEFINE s == Run(b, f, n)
           t == Run(b, f + n, m)
<1>1. /\ s \in Seq(Symbols) /\ Len(s) = n
      /\ \A i \in 1..n : s[i] = b[(f + i - 1) % INPUT_BUF]
  BY RunSeq
<1>2. /\ t \in Seq(Symbols) /\ Len(t) = m
      /\ \A i \in 1..m : t[i] = b[(f + n + i - 1) % INPUT_BUF]
  <2>1. PICK g \in Nat : g = f + n
    OBVIOUS
  <2>2. /\ Run(b, g, m) \in Seq(Symbols) /\ Len(Run(b, g, m)) = m
        /\ \A i \in 1..m : Run(b, g, m)[i] = b[(g + i - 1) % INPUT_BUF]
    BY RunSeq
  <2> QED
    BY <2>1, <2>2
<1> HIDE DEF s, t, Symbols
<1>3. /\ s \o t \in Seq(Symbols) /\ Len(s \o t) = n + m
      /\ \A i \in 1..n + m : (s \o t)[i] = IF i <= n THEN s[i] ELSE t[i - n]
  BY <1>1, <1>2, ConcatProperties
<1>4. ASSUME NEW i \in 1..n + m PROVE (s \o t)[i] = b[(f + i - 1) % INPUT_BUF]
  <2>1. CASE i <= n
    BY <1>1, <1>3, <2>1
  <2>2. CASE i > n
    <3>1. i - n \in 1..m /\ f + n + (i - n) - 1 = f + i - 1
      BY <2>2
    <3>2. t[i - n] = b[(f + n + (i - n) - 1) % INPUT_BUF]
      BY <3>1, <1>2
    <3> QED
      BY <1>3, <2>2, <3>1, <3>2
  <2>3. i <= n \/ i > n
    OBVIOUS
  <2> QED
    BY <2>1, <2>2, <2>3
<1>5. n + m \in Nat
  OBVIOUS
<1>6. s \o t = Run(b, f, n + m)
  BY <1>3, <1>4, <1>5, RunEqual
<1> QED
  BY <1>6 DEF s, t

\* The first character of a run, and the others.
LEMMA RunHeadTail ==
  ASSUME NEW b \in Buffers, NEW f \in Nat, NEW n \in Nat, n > 0
  PROVE  /\ Head(Run(b, f, n)) = b[f % INPUT_BUF]
         /\ Tail(Run(b, f, n)) = Run(b, f + 1, n - 1)
<1> DEFINE s == Run(b, f, n)
<1>1. /\ s \in Seq(Symbols) /\ Len(s) = n
      /\ \A i \in 1..n : s[i] = b[(f + i - 1) % INPUT_BUF]
  BY RunSeq
<1>2. s # <<>>
  BY RunEmpty
<1> HIDE DEF s, Symbols
<1>3. Head(s) = b[f % INPUT_BUF]
  <2>1. Head(s) = s[1]
    BY <1>1
  <2>2. s[1] = b[(f + 1 - 1) % INPUT_BUF] /\ f + 1 - 1 = f
    BY <1>1
  <2> QED
    BY <2>1, <2>2
<1>4. /\ Tail(s) \in Seq(Symbols) /\ Len(Tail(s)) = n - 1
      /\ \A i \in 1..n - 1 : Tail(s)[i] = s[i + 1]
  BY <1>1, <1>2, HeadTailProperties
<1>5. ASSUME NEW i \in 1..n - 1 PROVE Tail(s)[i] = b[(f + 1 + i - 1) % INPUT_BUF]
  <2>1. i + 1 \in 1..n /\ f + (i + 1) - 1 = f + 1 + i - 1
    OBVIOUS
  <2>2. s[i + 1] = b[(f + (i + 1) - 1) % INPUT_BUF]
    BY <2>1, <1>1
  <2> QED
    BY <2>1, <2>2, <1>4
<1>6. f + 1 \in Nat /\ n - 1 \in Nat
  OBVIOUS
<1>7. Tail(s) = Run(b, f + 1, n - 1)
  BY <1>4, <1>5, <1>6, RunEqual
<1> QED
  BY <1>3, <1>7 DEF s

\* A run without its last character.
LEMMA RunFront ==
  ASSUME NEW b \in Buffers, NEW f \in Nat, NEW n \in Nat, n > 0
  PROVE  SubSeq(Run(b, f, n), 1, n - 1) = Run(b, f, n - 1)
<1> DEFINE s == Run(b, f, n)
<1>1. /\ s \in Seq(Symbols) /\ Len(s) = n
      /\ \A i \in 1..n : s[i] = b[(f + i - 1) % INPUT_BUF]
  BY RunSeq
<1> HIDE DEF s, Symbols
<1>2. \A i \in 1..n - 1 : i \in 1..n /\ s[i] \in Symbols
  <2> TAKE i \in 1..n - 1
  <2>1. i \in 1..n /\ i \in 1..Len(s)
    BY <1>1
  <2> QED
    BY <2>1, <1>1, ElementOfSeq
<1>3. PICK m \in Nat : m = n - 1
  OBVIOUS
<1>4. /\ SubSeq(s, 1, m) \in Seq(Symbols)
      /\ Len(SubSeq(s, 1, m)) = IF 1 <= m THEN m - 1 + 1 ELSE 0
      /\ \A i \in 1..m - 1 + 1 : SubSeq(s, 1, m)[i] = s[1 + i - 1]
  BY <1>2, <1>3, SubSeqProperties
<1>5. Len(SubSeq(s, 1, m)) = m
  BY <1>4
<1>6. ASSUME NEW i \in 1..m PROVE SubSeq(s, 1, m)[i] = b[(f + i - 1) % INPUT_BUF]
  <2>1. i \in 1..m - 1 + 1 /\ 1 + i - 1 = i /\ i \in 1..n
    BY <1>3
  <2> QED
    BY <2>1, <1>1, <1>4
<1>7. SubSeq(s, 1, m) = Run(b, f, m)
  BY <1>4, <1>5, <1>6, RunEqual
<1> QED
  BY <1>3, <1>7 DEF s

\* The runs of b2 when d is stored in b behind the run of n characters from f on.
StoredRuns(b, f, n, d, b2) ==
  /\ \A k \in 0..n : Run(b2, f, k) = Run(b, f, k)
  /\ \A k \in 0..n : Run(b2, f + k, n - k + 1) = Append(Run(b, f + k, n - k), d)

\* A character is stored behind a run that does not fill the ring.
LEMMA RunAppend ==
  ASSUME NEW b \in Buffers, NEW f \in Nat, NEW n \in Nat, n < INPUT_BUF, NEW d \in Symbols,
         NEW b2, b2 = [b EXCEPT ![(f + n) % INPUT_BUF] = d]
  PROVE  /\ b2 \in Buffers
         /\ StoredRuns(b, f, n, d, b2)
<1>1. (f + n) % INPUT_BUF \in 0..INPUT_BUF - 1
  BY Place
<1>2. b2 \in Buffers
  BY <1>1 DEF Buffers
<1>3. b2[(f + n) % INPUT_BUF] = d
  BY <1>1 DEF Buffers
<1>4. ASSUME NEW j \in Nat, j < n
      PROVE  b2[(f + j) % INPUT_BUF] = b[(f + j) % INPUT_BUF]
  <2>1. PICK x \in Nat, y \in Nat : x = f + j /\ y = n - j /\ y > 0 /\ y < INPUT_BUF /\ x + y = f + n
    BY <1>4, RingSizes
  <2>2. x % INPUT_BUF # (x + y) % INPUT_BUF
    BY <2>1, RingSizes, ModApart
  <2>3. x % INPUT_BUF \in 0..INPUT_BUF - 1
    BY Place
  <2>4. x % INPUT_BUF # (f + n) % INPUT_BUF
    BY <2>1, <2>2
  <2>5. b2[x % INPUT_BUF] = b[x % INPUT_BUF]
    BY <2>3, <2>4 DEF Buffers
  <2> QED
    BY <2>1, <2>5
<1>5. ASSUME NEW k \in 0..n PROVE Run(b2, f, k) = Run(b, f, k)
  <2>1. ASSUME NEW i \in 1..k PROVE b2[(f + i - 1) % INPUT_BUF] = b[(f + i - 1) % INPUT_BUF]
    <3>1. i - 1 \in Nat /\ i - 1 < n /\ f + (i - 1) = f + i - 1
      OBVIOUS
    <3>2. b2[(f + (i - 1)) % INPUT_BUF] = b[(f + (i - 1)) % INPUT_BUF]
      BY <3>1, <1>4
    <3> QED
      BY <3>1, <3>2
  <2> QED
    BY <2>1 DEF Run
<1>6. ASSUME NEW k \in 0..n, NEW i \in 1..n - k
      PROVE  b2[(f + k + i - 1) % INPUT_BUF] = b[(f + k + i - 1) % INPUT_BUF]
  <2>1. k + i - 1 \in Nat /\ k + i - 1 < n /\ f + (k + i - 1) = f + k + i - 1
    OBVIOUS
  <2>2. b2[(f + (k + i - 1)) % INPUT_BUF] = b[(f + (k + i - 1)) % INPUT_BUF]
    BY <2>1, <1>4
  <2> QED
    BY <2>1, <2>2
<1>8. ASSUME NEW k \in 0..n
      PROVE  Run(b2, f + k, n - k + 1) = Append(Run(b, f + k, n - k), d)
  <2>1. PICK g \in Nat, m \in Nat : g = f + k /\ m = n - k /\ g + m = f + n
    OBVIOUS
  <2> DEFINE s == Run(b, g, m)
  <2>2. /\ s \in Seq(Symbols) /\ Len(s) = m
        /\ \A i \in 1..m : s[i] = b[(g + i - 1) % INPUT_BUF]
    BY RunSeq
  <2> HIDE DEF s, Symbols
  <2>3. /\ Append(s, d) \in Seq(Symbols) /\ Len(Append(s, d)) = m + 1
        /\ \A i \in 1..m : Append(s, d)[i] = s[i]
        /\ Append(s, d)[m + 1] = d
    BY <2>2, AppendProperties
  <2>4. ASSUME NEW i \in 1..m + 1 PROVE Append(s, d)[i] = b2[(g + i - 1) % INPUT_BUF]
    <3>1. CASE i = m + 1
      <4>1. g + i - 1 = f + n
        BY <2>1, <3>1
      <4> QED
        BY <1>3, <2>3, <3>1, <4>1
    <3>2. CASE i # m + 1
      <4>1. i \in 1..m /\ i \in 1..n - k
        BY <2>1, <3>2
      <4>2. b2[(f + k + i - 1) % INPUT_BUF] = b[(f + k + i - 1) % INPUT_BUF]
        BY <1>6, <4>1
      <4> QED
        BY <2>1, <2>2, <2>3, <4>1, <4>2
    <3> QED
      BY <3>1, <3>2
  <2>5. m + 1 \in Nat
    OBVIOUS
  <2>6. Append(s, d) = Run(b2, g, m + 1)
    BY <1>2, <2>3, <2>4, <2>5, RunEqual
  <2> QED
    BY <2>1, <2>6 DEF s
<1> QED
  BY <1>2, <1>5, <1>8 DEF StoredRuns

-----------------------------------------------------------------------------
(* The ring and its three indexes: of the b characters behind index r, the first
   a are committed. *)

RingAt(i, a, b) ==
  /\ a \in Nat /\ b \in Nat /\ a <= b /\ b <= INPUT_BUF /\ (b = INPUT_BUF => a = b)
  /\ i.w = (i.r + a) % UINT /\ i.e = (i.r + b) % UINT
  /\ \A j \in 1..b - a : Run(i.buf, i.w, b - a)[j] # "NL"

\* The fields of input.
LEMMA InputParts ==
  ASSUME NEW i \in InputType
  PROVE  /\ i.buf \in Buffers /\ i.r \in Nat /\ i.w \in Nat /\ i.e \in Nat
         /\ i.r < UINT /\ i.w < UINT /\ i.e < UINT
<1>1. i.buf \in Buffers /\ i.r \in 0..UINT - 1 /\ i.w \in 0..UINT - 1 /\ i.e \in 0..UINT - 1
  BY DEF InputType, Buffers, Symbols
<1> QED
  BY <1>1, RingSizes

\* An input from its fields.
LEMMA InputMade ==
  ASSUME NEW b \in Buffers, NEW r \in Nat, NEW w \in Nat, NEW e \in Nat,
         r < UINT, w < UINT, e < UINT
  PROVE  [buf |-> b, r |-> r, w |-> w, e |-> e] \in InputType
<1>1. r \in 0..UINT - 1 /\ w \in 0..UINT - 1 /\ e \in 0..UINT - 1
  BY RingSizes
<1> QED
  BY <1>1 DEF InputType, Buffers, Symbols

\* An index is a number below UINT.
LEMMA Index ==
  ASSUME NEW x \in Nat
  PROVE  x % UINT \in Nat /\ x % UINT < UINT
  BY RingSizes, ModSmall

\* The spans between the indexes.
LEMMA RingSpans ==
  ASSUME NEW i \in InputType, NEW a, NEW b, RingAt(i, a, b)
  PROVE  Span(i.r, i.w) = a /\ Span(i.r, i.e) = b /\ Span(i.w, i.e) = b - a
<1>1. i.r \in Nat /\ i.w \in Nat /\ i.e \in Nat /\ i.r < UINT /\ i.w < UINT /\ i.e < UINT
  BY InputParts
<1>2. /\ a \in Nat /\ b \in Nat /\ a <= b /\ b <= INPUT_BUF
      /\ i.w = (i.r + a) % UINT /\ i.e = (i.r + b) % UINT
  BY DEF RingAt
<1>3. a < UINT /\ b < UINT
  BY <1>2, RingSizes
<1>4. Span(i.r, i.w) = a
  BY <1>1, <1>2, <1>3, RingBack
<1>5. Span(i.r, i.e) = b
  BY <1>1, <1>2, <1>3, RingBack
<1>6. Span((i.r + a) % UINT, i.e) = b - a
  BY <1>1, <1>2, <1>5, RingMoves
<1> QED
  BY <1>2, <1>4, <1>5, <1>6

\* The properties of the ring, at an input.
Sound(i) ==
  /\ Span(i.r, i.w) <= Span(i.r, i.e) /\ Span(i.r, i.e) <= INPUT_BUF
  /\ \A j \in 1..Span(i.w, i.e) : i.buf[(i.w + j - 1) % INPUT_BUF] # "NL"
FullCommitted(i) == Span(i.r, i.e) = INPUT_BUF => i.w = i.e

\* They say that the spans are in order.
LEMMA RingView ==
  ASSUME NEW i \in InputType, Sound(i), FullCommitted(i)
  PROVE  RingAt(i, Span(i.r, i.w), Span(i.r, i.e))
<1>1. i.r \in Nat /\ i.w \in Nat /\ i.e \in Nat /\ i.r < UINT /\ i.w < UINT /\ i.e < UINT
  BY InputParts
<1>2. PICK a \in Nat : a = Span(i.r, i.w) /\ i.w = (i.r + a) % UINT
  BY <1>1, RingAhead
<1>3. PICK b \in Nat : b = Span(i.r, i.e) /\ i.e = (i.r + b) % UINT
  BY <1>1, RingAhead
<1>4. a <= b /\ b <= INPUT_BUF
  BY <1>2, <1>3 DEF Sound
<1>5. b = INPUT_BUF => a = b
  BY <1>2, <1>3 DEF FullCommitted
<1>6. Span(i.w, i.e) = b - a
  <2>1. Span((i.r + a) % UINT, i.e) = b - a
    BY <1>1, <1>3, <1>4, RingMoves
  <2> QED
    BY <2>1, <1>2
<1>7. \A j \in 1..b - a : Run(i.buf, i.w, b - a)[j] # "NL"
  BY <1>6 DEF Sound, Run
<1>8. RingAt(i, a, b)
  BY <1>2, <1>3, <1>4, <1>5, <1>7 DEF RingAt
<1> QED
  BY <1>2, <1>3, <1>8

\* Spans in order have those properties.
LEMMA RingKept ==
  ASSUME NEW i \in InputType, NEW a, NEW b, RingAt(i, a, b)
  PROVE  Sound(i) /\ FullCommitted(i)
<1>1. Span(i.r, i.w) = a /\ Span(i.r, i.e) = b /\ Span(i.w, i.e) = b - a
  BY RingSpans
<1>2. FullCommitted(i)
  BY <1>1 DEF FullCommitted, RingAt
<1>3. Sound(i)
  BY <1>1 DEF Sound, RingAt, Run
<1> QED
  BY <1>2, <1>3

\* The line that is typed starts behind the committed characters.
LEMMA EditRun ==
  ASSUME NEW i \in InputType, NEW a, NEW b, RingAt(i, a, b), NEW c \in Buffers, NEW n \in Nat
  PROVE  Run(c, i.w, n) = Run(c, i.r + a, n)
<1>1. i.r \in Nat /\ i.r < UINT
  BY InputParts
<1>2. a \in Nat /\ a < UINT /\ i.w = (i.r + a) % UINT
  BY RingSizes DEF RingAt
<1>3. PICK f \in Nat : f = i.r + a /\ f < UINT + UINT
  BY <1>1, <1>2, RingSizes
<1>4. Run(c, f % UINT, n) = Run(c, f, n)
  BY <1>3, RunWrap
<1> QED
  BY <1>2, <1>3, <1>4

\* The input after a character is stored.
Stored(i, d, commit) ==
  [i EXCEPT !.buf[i.e % INPUT_BUF] = d, !.e = (i.e + 1) % UINT,
            !.w = IF commit THEN (i.e + 1) % UINT ELSE @]

\* What is stored in i comes behind the line that is typed; a commit puts that line
\* behind the committed characters.
Typed(i, a, b, d, commit, i2) ==
  /\ commit => /\ Run(i2.buf, i2.r, b + 1)
                  = Run(i.buf, i.r, a) \o Append(Run(i.buf, i.w, b - a), d)
               /\ Run(i2.buf, i2.w, 0) = <<>>
  /\ ~commit => /\ Run(i2.buf, i2.r, a) = Run(i.buf, i.r, a)
                /\ Run(i2.buf, i2.w, b - a + 1) = Append(Run(i.buf, i.w, b - a), d)

\* A full ring is seen by its last index.
LEMMA FullSeen ==
  ASSUME NEW i \in InputType, NEW a, NEW b, RingAt(i, a, b), b < INPUT_BUF
  PROVE  /\ (i.e + 1) % UINT = (i.r + (b + 1)) % UINT
         /\ (i.e + 1) % UINT = (i.r + INPUT_BUF) % UINT <=> b + 1 = INPUT_BUF
<1>1. i.r \in Nat /\ i.r < UINT
  BY InputParts
<1>2. b \in Nat /\ b < UINT /\ b + 1 < UINT /\ i.e = (i.r + b) % UINT
  BY RingSizes DEF RingAt
<1>3. (i.e + 1) % UINT = (i.r + (b + 1)) % UINT
  <2>1. PICK x \in Nat : x = i.r + b /\ x < UINT + UINT /\ x + 1 = i.r + (b + 1)
    BY <1>1, <1>2, RingSizes
  <2>2. ((x % UINT) + 1) % UINT = (x + 1) % UINT
    BY <2>1, RingAdd
  <2> QED
    BY <1>2, <2>1, <2>2
<1>4. Span(i.r, (i.r + (b + 1)) % UINT) = b + 1
  <2>1. b + 1 \in Nat
    BY <1>2
  <2> QED
    BY <1>1, <1>2, <2>1, RingBack
<1>5. Span(i.r, (i.r + INPUT_BUF) % UINT) = INPUT_BUF
  BY <1>1, RingSizes, RingBack
<1>6. ASSUME (i.e + 1) % UINT = (i.r + INPUT_BUF) % UINT PROVE b + 1 = INPUT_BUF
  BY <1>3, <1>4, <1>5, <1>6
<1>7. ASSUME b + 1 = INPUT_BUF PROVE (i.e + 1) % UINT = (i.r + INPUT_BUF) % UINT
  BY <1>3, <1>7
<1> QED
  BY <1>3, <1>6, <1>7

\* A character is stored in a ring that is not full.
LEMMA RingStored ==
  ASSUME NEW i \in InputType, NEW a, NEW b, RingAt(i, a, b), b < INPUT_BUF,
         NEW d \in Chars, NEW commit \in BOOLEAN, NEW i2, i2 = Stored(i, d, commit),
         b + 1 = INPUT_BUF => commit, d = "NL" => commit
  PROVE  /\ i2 \in InputType
         /\ RingAt(i2, IF commit THEN b + 1 ELSE a, b + 1)
         /\ Typed(i, a, b, d, commit, i2)
<1>1. /\ i.buf \in Buffers /\ i.r \in Nat /\ i.w \in Nat /\ i.e \in Nat
      /\ i.r < UINT /\ i.w < UINT /\ i.e < UINT
  BY InputParts
<1>2. /\ a \in Nat /\ b \in Nat /\ a <= b /\ b < UINT /\ b - a \in Nat
      /\ i.w = (i.r + a) % UINT /\ i.e = (i.r + b) % UINT
  BY RingSizes DEF RingAt
<1>3. i.e % INPUT_BUF = (i.r + b) % INPUT_BUF
  <2>1. PICK x \in Nat : x = i.r + b /\ x < UINT + UINT
    BY <1>1, <1>2, RingSizes
  <2>2. ((x % UINT) + 0) % INPUT_BUF = (x + 0) % INPUT_BUF
    BY <2>1, RingAdd
  <2>3. (x % UINT) + 0 = x % UINT /\ x + 0 = x
    BY <2>1, Index
  <2> QED
    BY <1>2, <2>1, <2>2, <2>3
<1>4. PICK e2 \in Nat : e2 = (i.e + 1) % UINT /\ e2 < UINT /\ e2 = (i.r + (b + 1)) % UINT
  BY <1>1, Index, FullSeen
<1>5. PICK b2 : b2 = [i.buf EXCEPT ![(i.r + b) % INPUT_BUF] = d]
  OBVIOUS
<1>6. d \in Symbols
  BY DEF Symbols
<1>7. /\ b2 \in Buffers
      /\ \A k \in 0..b : Run(b2, i.r, k) = Run(i.buf, i.r, k)
      /\ \A k \in 0..b : Run(b2, i.r + k, b - k + 1) = Append(Run(i.buf, i.r + k, b - k), d)
  <2>1. PICK f \in Nat, c \in Buffers : f = i.r /\ c = i.buf
    BY <1>1
  <2>2. b2 = [c EXCEPT ![(f + b) % INPUT_BUF] = d]
    BY <1>5, <2>1
  <2>3. /\ b2 \in Buffers
        /\ \A k \in 0..b : Run(b2, f, k) = Run(c, f, k)
        /\ \A k \in 0..b : Run(b2, f + k, b - k + 1) = Append(Run(c, f + k, b - k), d)
    <3>1. b \in Nat /\ b < INPUT_BUF
      BY <1>2
    <3>2. b2 \in Buffers
      BY <1>6, <2>2, <3>1, RunAppend
    <3>3. StoredRuns(c, f, b, d, b2)
      BY <1>6, <2>2, <3>1, RunAppend
    <3> QED
      BY <3>2, <3>3 DEF StoredRuns
  <2> QED
    BY <2>1, <2>3
<1>8. PICK w2 \in Nat : w2 = (IF commit THEN e2 ELSE i.w) /\ w2 < UINT
  BY <1>1, <1>4
<1>9. i2 = [buf |-> b2, r |-> i.r, w |-> w2, e |-> e2]
  <2>1. DOMAIN i = {"buf", "r", "w", "e"} /\ i = [buf |-> i.buf, r |-> i.r, w |-> i.w, e |-> i.e]
    BY DEF InputType
  <2> QED
    BY <2>1, <1>3, <1>4, <1>5, <1>8 DEF Stored
<1>10. i2 \in InputType
  BY <1>1, <1>4, <1>7, <1>8, <1>9, InputMade
<1>11. i2.buf = b2 /\ i2.r = i.r /\ i2.w = w2 /\ i2.e = e2
  BY <1>9
<1>12. a \in 0..b
  BY <1>2
<1>13. Run(i.buf, i.w, b - a) = Run(i.buf, i.r + a, b - a)
  BY <1>1, <1>2, EditRun
<1>14. b - a + 1 \in Nat /\ b + 1 \in Nat /\ Run(b2, i.w, b - a + 1) = Run(b2, i.r + a, b - a + 1)
  BY <1>2, <1>7, EditRun
<1>15. Run(b2, i.w, b - a + 1) = Append(Run(i.buf, i.w, b - a), d)
  BY <1>7, <1>12, <1>13, <1>14
<1>16. CASE commit
  <2>1. Run(b2, i.r, a) \o Run(b2, i.r + a, b - a + 1) = Run(b2, i.r, a + (b - a + 1))
    <3>1. PICK f \in Nat, m \in Nat : f = i.r /\ m = b - a + 1
      BY <1>1, <1>14
    <3>2. Run(b2, f, a) \o Run(b2, f + a, m) = Run(b2, f, a + m)
      <4>1. b2 \in Buffers /\ a \in Nat
        BY <1>2, <1>7
      <4> QED
        BY <4>1, RunConcat
    <3> QED
      BY <3>1, <3>2
  <2>2. a + (b - a + 1) = b + 1
    BY <1>2
  <2>3. Run(b2, i.r, b + 1) = Run(i.buf, i.r, a) \o Append(Run(i.buf, i.w, b - a), d)
    BY <1>7, <1>12, <1>14, <1>15, <2>1, <2>2
  <2>4. Run(b2, w2, 0) = <<>>
    BY <1>7, <1>8, RunEmpty
  <2>5. RingAt(i2, b + 1, b + 1)
    <3>1. w2 = e2 /\ b + 1 <= INPUT_BUF /\ 1..(b + 1) - (b + 1) = {}
      BY <1>2, <1>8, <1>16, RingSizes
    <3> QED
      BY <1>4, <1>11, <1>14, <3>1 DEF RingAt
  <2> QED
    BY <1>10, <1>11, <1>16, <2>3, <2>4, <2>5 DEF Typed
<1>17. CASE ~commit
  <2>1. w2 = i.w /\ b + 1 # INPUT_BUF /\ d # "NL" /\ b + 1 < INPUT_BUF
    BY <1>2, <1>8, <1>17, RingSizes
  <2>2. Run(b2, i.r, a) = Run(i.buf, i.r, a)
    BY <1>7, <1>12
  <2>3. \A j \in 1..b - a + 1 : Run(b2, i.w, b - a + 1)[j] # "NL"
    <3> DEFINE s == Run(i.buf, i.w, b - a)
    <3>1. s \in Seq(Symbols) /\ Len(s) = b - a
      BY <1>1, <1>2, RunSeq
    <3>2. \A j \in 1..b - a : s[j] # "NL"
      BY DEF RingAt
    <3> HIDE DEF s, Symbols
    <3>3. /\ \A j \in 1..b - a : Append(s, d)[j] = s[j]
          /\ Append(s, d)[b - a + 1] = d
      BY <1>6, <3>1, AppendProperties
    <3>4. \A j \in 1..b - a + 1 : j \in 1..b - a \/ j = b - a + 1
      BY <1>2
    <3>5. \A j \in 1..b - a + 1 : Append(s, d)[j] # "NL"
      BY <2>1, <3>2, <3>3, <3>4
    <3> QED
      BY <1>15, <3>5 DEF s
  <2>4. RingAt(i2, a, b + 1)
    <3>1. (b + 1) - a = b - a + 1 /\ a <= b + 1 /\ b + 1 <= INPUT_BUF
      BY <1>2, RingSizes
    <3>2. \A j \in 1..(b + 1) - a : Run(i2.buf, i2.w, (b + 1) - a)[j] # "NL"
      BY <1>11, <2>1, <2>3, <3>1
    <3>3. i2.w = (i2.r + a) % UINT /\ i2.e = (i2.r + (b + 1)) % UINT
      BY <1>2, <1>4, <1>11, <2>1
    <3> QED
      BY <1>2, <1>14, <2>1, <3>1, <3>2, <3>3 DEF RingAt
  <2> QED
    BY <1>10, <1>11, <1>15, <1>17, <2>1, <2>2, <2>4 DEF Typed
<1> QED
  BY <1>16, <1>17

\* The last n characters of the line that is typed are erased.
LEMMA RingErased ==
  ASSUME NEW i \in InputType, NEW a, NEW b, RingAt(i, a, b), NEW n \in Nat, n <= b - a,
         NEW i2, i2 = [i EXCEPT !.e = (i.e + UINT - n) % UINT]
  PROVE  /\ i2 \in InputType /\ RingAt(i2, a, b - n)
         /\ i2.buf = i.buf /\ i2.r = i.r /\ i2.w = i.w
<1>1. /\ i.buf \in Buffers /\ i.r \in Nat /\ i.w \in Nat /\ i.e \in Nat
      /\ i.r < UINT /\ i.w < UINT /\ i.e < UINT
  BY InputParts
<1>2. a \in Nat /\ b \in Nat /\ a <= b /\ b <= INPUT_BUF /\ (b = INPUT_BUF => a = b)
  BY DEF RingAt
<1>3. i.w = (i.r + a) % UINT /\ i.e = (i.r + b) % UINT
  BY DEF RingAt
<1>4. PICK m \in Nat : m = b - n /\ a <= m /\ m <= b /\ n <= UINT
  BY <1>2, RingSizes
<1>5. PICK e2 \in Nat : e2 = (i.e + UINT - n) % UINT /\ e2 < UINT
  <2>1. i.e + UINT - n \in Nat
    BY <1>1, <1>4, RingSizes
  <2> QED
    BY <2>1, Index
<1>6. e2 = (i.r + m) % UINT
  <2>1. PICK x \in Nat, j \in Nat : x = i.r + b /\ x < UINT + UINT /\ j = UINT - n
    BY <1>1, <1>2, <1>4, RingSizes
  <2>2. ((x % UINT) + j) % UINT = (x + j) % UINT
    BY <2>1, RingAdd
  <2>3. (x % UINT) + j = i.e + UINT - n
    BY <1>1, <1>3, <2>1, RingSizes
  <2>4. x + j = (i.r + m) + UINT /\ i.r + m \in Nat
    BY <1>1, <1>2, <1>4, <2>1, RingSizes
  <2>5. UINT % UINT = 0
    BY RingSizes, ModSmall
  <2>6. ((i.r + m) + UINT) % UINT = (i.r + m) % UINT
    BY <2>4, <2>5, RingSizes, ModMultiple
  <2> QED
    BY <1>5, <2>2, <2>3, <2>4, <2>6
<1>7. i2 = [buf |-> i.buf, r |-> i.r, w |-> i.w, e |-> e2]
  <2>1. i = [buf |-> i.buf, r |-> i.r, w |-> i.w, e |-> i.e]
    BY DEF InputType
  <2> QED
    BY <2>1, <1>5
<1>8. i2 \in InputType
  <2>1. (i.e + UINT - n) % UINT \in 0..UINT - 1
    BY <1>5, RingSizes
  <2> QED
    BY <2>1 DEF InputType
<1>9. i2.buf = i.buf /\ i2.r = i.r /\ i2.w = i.w /\ i2.e = e2
  BY <1>7
<1>10. ASSUME NEW j \in 1..m - a PROVE Run(i.buf, i.w, m - a)[j] # "NL"
  <2>1. j \in 1..b - a
    BY <1>2, <1>4
  <2>2. Run(i.buf, i.w, b - a)[j] # "NL"
    BY <2>1 DEF RingAt
  <2> QED
    BY <2>1, <2>2 DEF Run
<1>11. m <= INPUT_BUF /\ (m = INPUT_BUF => a = m)
  BY <1>2, <1>4, RingSizes
<1>12. RingAt(i2, a, m)
  BY <1>2, <1>3, <1>4, <1>6, <1>9, <1>10, <1>11 DEF RingAt
<1> QED
  BY <1>4, <1>8, <1>9, <1>12

\* The first committed character is taken.
LEMMA RingTaken ==
  ASSUME NEW i \in InputType, NEW a, NEW b, RingAt(i, a, b), a > 0,
         NEW i2, i2 = [i EXCEPT !.r = (i.r + 1) % UINT]
  PROVE  /\ i2 \in InputType /\ RingAt(i2, a - 1, b - 1)
         /\ i2.buf = i.buf /\ i2.w = i.w
         /\ Run(i2.buf, i2.r, a - 1) = Tail(Run(i.buf, i.r, a))
<1>1. /\ i.buf \in Buffers /\ i.r \in Nat /\ i.w \in Nat /\ i.e \in Nat
      /\ i.r < UINT /\ i.w < UINT /\ i.e < UINT
  BY InputParts
<1>2. a \in Nat /\ b \in Nat /\ a <= b /\ b <= INPUT_BUF
  BY DEF RingAt
<1>3. i.w = (i.r + a) % UINT /\ i.e = (i.r + b) % UINT
  BY DEF RingAt
<1>4. PICK x \in Nat : x = i.r + 1 /\ x < UINT + UINT
  BY <1>1, RingSizes
<1>5. PICK r2 \in Nat : r2 = x % UINT /\ r2 < UINT
  BY Index
<1>6. PICK c \in Nat, d \in Nat : c = a - 1 /\ d = b - 1 /\ x + c = i.r + a /\ x + d = i.r + b
  BY <1>1, <1>2, <1>4
<1>7. i.w = (r2 + c) % UINT
  <2>1. ((x % UINT) + c) % UINT = (x + c) % UINT
    BY <1>4, RingAdd
  <2> QED
    BY <1>3, <1>5, <1>6, <2>1
<1>8. i.e = (r2 + d) % UINT
  <2>1. ((x % UINT) + d) % UINT = (x + d) % UINT
    BY <1>4, RingAdd
  <2> QED
    BY <1>3, <1>5, <1>6, <2>1
<1>9. i2 = [buf |-> i.buf, r |-> r2, w |-> i.w, e |-> i.e]
  <2>1. i = [buf |-> i.buf, r |-> i.r, w |-> i.w, e |-> i.e]
    BY DEF InputType
  <2> QED
    BY <2>1, <1>4, <1>5
<1>10. i2 \in InputType
  <2>1. (i.r + 1) % UINT \in 0..UINT - 1
    BY <1>4, <1>5, RingSizes
  <2> QED
    BY <2>1 DEF InputType
<1>11. i2.buf = i.buf /\ i2.r = r2 /\ i2.w = i.w /\ i2.e = i.e
  BY <1>9
<1>12. d - c = b - a /\ c <= d /\ d < INPUT_BUF
  BY <1>2, <1>6, RingSizes
<1>13. \A j \in 1..d - c : Run(i.buf, i.w, d - c)[j] # "NL"
  BY <1>12 DEF RingAt
<1>14. RingAt(i2, c, d)
  <2>1. d <= INPUT_BUF /\ d # INPUT_BUF
    BY <1>12, RingSizes
  <2> QED
    BY <1>7, <1>8, <1>11, <1>12, <1>13, <2>1 DEF RingAt
<1>15. Run(i.buf, r2, c) = Tail(Run(i.buf, i.r, a))
  <2>1. Run(i.buf, x % UINT, c) = Run(i.buf, x, c)
    BY <1>1, <1>4, RunWrap
  <2>2. PICK f \in Nat, g \in Buffers : f = i.r /\ g = i.buf
    BY <1>1
  <2>3. Tail(Run(g, f, a)) = Run(g, f + 1, a - 1)
    BY <1>2, RunHeadTail
  <2> QED
    BY <1>4, <1>5, <1>6, <2>1, <2>2, <2>3
<1> QED
  BY <1>6, <1>10, <1>11, <1>14, <1>15

\* The first committed character.
LEMMA RingHead ==
  ASSUME NEW i \in InputType, NEW a, NEW b, RingAt(i, a, b), a > 0
  PROVE  /\ Head(Run(i.buf, i.r, a)) = i.buf[i.r % INPUT_BUF]
         /\ Run(i.buf, i.r, a) # <<>> /\ i.buf[i.r % INPUT_BUF] \in Symbols
<1>1. PICK f \in Nat, g \in Buffers : f = i.r /\ g = i.buf
  BY InputParts
<1>2. a \in Nat
  BY DEF RingAt
<1>3. Head(Run(g, f, a)) = g[f % INPUT_BUF]
  BY <1>2, RunHeadTail
<1>4. Run(g, f, a) # <<>>
  BY <1>2, RunEmpty
<1>5. g[f % INPUT_BUF] \in Symbols
  BY Place DEF Buffers
<1> QED
  BY <1>1, <1>3, <1>4, <1>5

\* Committed characters are there unless input.r = input.w.
LEMMA RingNothing ==
  ASSUME NEW i \in InputType, NEW a, NEW b, RingAt(i, a, b)
  PROVE  i.r = i.w <=> a = 0
<1>1. i.r \in Nat /\ i.r < UINT
  BY InputParts
<1>2. Span(i.r, i.w) = a /\ i.w = (i.r + a) % UINT
  BY RingSpans DEF RingAt
<1>3. ASSUME a = 0 PROVE i.r = i.w
  <2>1. i.r % UINT = i.r
    BY <1>1, RingSizes, ModSmall
  <2>2. i.r + 0 = i.r
    BY <1>1
  <2> QED
    BY <1>2, <1>3, <2>1, <2>2
<1>4. ASSUME i.r = i.w PROVE a = 0
  <2>1. a = Span(i.r, i.r)
    BY <1>2, <1>4
  <2>2. i.r + UINT - i.r = UINT /\ UINT % UINT = UINT - UINT
    BY <1>1, RingSizes, ModSmall
  <2> QED
    BY <2>1, <2>2, RingSizes DEF Span
<1> QED
  BY <1>3, <1>4

\* Characters are being typed unless input.e = input.w.
LEMMA RingNoLine ==
  ASSUME NEW i \in InputType, NEW a, NEW b, RingAt(i, a, b)
  PROVE  i.e = i.w <=> b - a = 0
<1>1. Span(i.r, i.w) = a /\ Span(i.r, i.e) = b /\ a \in Nat /\ b \in Nat
  BY RingSpans DEF RingAt
<1>2. i.w = (i.r + a) % UINT /\ i.e = (i.r + b) % UINT
  BY DEF RingAt
<1>3. ASSUME b - a = 0 PROVE i.e = i.w
  <2>1. a = b
    BY <1>1, <1>3
  <2> QED
    BY <1>2, <2>1
<1>4. ASSUME i.e = i.w PROVE b - a = 0
  BY <1>1, <1>4
<1> QED
  BY <1>3, <1>4

\* C('U') erases the whole line that is typed.
LEMMA KillWhole ==
  ASSUME input \in InputType, NEW a, NEW b, RingAt(input, a, b)
  PROVE  KillLine = b - a
<1>1. /\ input.buf \in Buffers /\ input.r \in Nat /\ input.w \in Nat /\ input.e \in Nat
      /\ input.r < UINT /\ input.w < UINT /\ input.e < UINT
  BY InputParts
<1>2. a \in Nat /\ b \in Nat /\ a <= b /\ b <= INPUT_BUF
  BY DEF RingAt
<1>3. input.w = (input.r + a) % UINT /\ input.e = (input.r + b) % UINT
  BY DEF RingAt
<1>4. PICK n \in Nat : n = b - a /\ n <= b /\ n <= UINT /\ Span(input.w, input.e) = n
  BY <1>2, RingSizes, RingSpans
<1> DEFINE At(i) == input.buf[(input.e + UINT - i) % INPUT_BUF]
<1>5. ASSUME NEW i \in 1..n PROVE At(i) # "NL"
  <2>1. PICK j \in Nat, x \in Nat, y \in Nat :
           j = n - i /\ x = input.r + b /\ y = input.r + a /\ x < UINT + UINT /\ y < UINT + UINT
    BY <1>1, <1>2, <1>4, RingSizes
  <2>2. PICK u \in Nat : u = UINT - i
    BY <1>4, RingSizes
  <2>3. ((x % UINT) + u) % INPUT_BUF = (x + u) % INPUT_BUF
    BY <2>1, RingAdd
  <2>4. ((y % UINT) + j) % INPUT_BUF = (y + j) % INPUT_BUF
    BY <2>1, RingAdd
  <2>5. x + u = (y + j) + UINT /\ y + j \in Nat
    BY <1>1, <1>2, <1>4, <2>1, <2>2, RingSizes
  <2>6. ((y + j) + UINT) % INPUT_BUF = (y + j) % INPUT_BUF
    BY <2>5, RingSizes, ModMultiple
  <2>7. (x % UINT) + u = input.e + UINT - i
    BY <1>1, <1>3, <2>1, <2>2, RingSizes
  <2>8. (input.e + UINT - i) % INPUT_BUF = (input.w + j) % INPUT_BUF
    BY <1>3, <2>1, <2>3, <2>4, <2>5, <2>6, <2>7
  <2>9. PICK k \in 1..n : k = j + 1 /\ input.w + k - 1 = input.w + j
    BY <1>1, <2>1
  <2>10. Run(input.buf, input.w, n)[k] # "NL"
    BY <1>4 DEF RingAt
  <2>11. Run(input.buf, input.w, n)[k] = input.buf[(input.w + k - 1) % INPUT_BUF]
    BY DEF Run
  <2> QED
    BY <2>8, <2>9, <2>10, <2>11
<1> HIDE DEF At
<1> DEFINE P(k) == (k = n \/ At(k + 1) = "NL") /\ \A i \in 1..k : At(i) # "NL"
<1>6. KillLine = CHOOSE k \in 0..n : P(k)
  BY <1>4 DEF KillLine, At
<1>7. P(n) /\ n \in 0..n
  BY <1>5
<1>8. ASSUME NEW k \in 0..n, P(k) PROVE k = n
  <2> SUFFICES ASSUME k # n PROVE FALSE
    OBVIOUS
  <2>1. k + 1 \in 1..n
    OBVIOUS
  <2> QED
    BY <1>5, <1>8, <2>1
<1> HIDE DEF P
<1>9. KillLine = n
  BY <1>6, <1>7, <1>8
<1> QED
  BY <1>4, <1>9

-----------------------------------------------------------------------------
(* The invariant, in parts that the steps change one at a time. *)

InputOK == input \in InputType /\ Sound(input) /\ FullCommitted(input)
Holding == {"loop", "tosleep"}
ReaderOK(t) == t \in ReadType /\ t.n <= t.target /\ (t.pc # "idle" => t.n >= 1)
ReadersOK == /\ lock \in {0} \union Procs /\ DOMAIN th = Procs
             /\ th = [p \in Procs |-> th[p]]
             /\ \A p \in Procs : ReaderOK(th[p]) /\ (lock = p <=> th[p].pc \in Holding)
ByteOK == pend = NoByte \/ \E k \in Keys, up \in BOOLEAN : pend = [code |-> k[1], up |-> up]
Flags == {"SHIFT", "CTL", "CAPSLOCK", "E0ESC"}
KbdOK == shift \subseteq Flags /\ held \subseteq load.keys /\ ByteOK /\ NoStuckModifier
ConsoleInv == HandlersInv /\ SleepersHaveNothing

\* The parts of the invariant.
LEMMA InvParts ==
  ASSUME ConsoleInv
  PROVE  /\ InputOK /\ CursorOnScreen /\ ReadersOK /\ SleepersHaveNothing /\ KbdOK
         /\ killed \subseteq Procs /\ load \in Workloads
<1>1. TypeOK /\ CursorOnScreen /\ RingSound /\ FullIsCommitted /\ NoStuckModifier
  BY DEF ConsoleInv, HandlersInv
<1>2. InputOK
  BY <1>1 DEF TypeOK, RingSound, FullIsCommitted, InputOK, Sound, FullCommitted, Used
<1>3. ReadersOK
  BY <1>1 DEF TypeOK, ReadersOK, ReaderOK, Holding
<1>4. KbdOK
  BY <1>1 DEF TypeOK, KbdOK, Flags, ByteOK
<1> QED
  BY <1>1, <1>2, <1>3, <1>4 DEF TypeOK, ConsoleInv

\* The invariant from its parts, after a step.
LEMMA InvMade ==
  ASSUME InputOK', CursorOnScreen', ReadersOK', SleepersHaveNothing', KbdOK',
         (killed \subseteq Procs)', (load \in Workloads)'
  PROVE  ConsoleInv'
<1>1. (input \in InputType)' /\ RingSound' /\ FullIsCommitted'
  BY DEF RingSound, FullIsCommitted, InputOK, Sound, FullCommitted, Used
<1>2. /\ (lock \in {0} \union Procs)' /\ (th \in [Procs -> ReadType])'
      /\ (\A p \in Procs : /\ th[p].n <= th[p].target
                           /\ th[p].pc # "idle" => th[p].n >= 1
                           /\ lock = p <=> th[p].pc \in {"loop", "tosleep"})'
  BY DEF ReadersOK, ReaderOK, Holding
<1>3. TypeOK'
  BY <1>1, <1>2 DEF TypeOK, KbdOK, Flags, ByteOK
<1>4. NoStuckModifier'
  BY DEF KbdOK
<1> QED
  BY <1>1, <1>3, <1>4 DEF ConsoleInv, HandlersInv

\* One process changes; the others keep their relation to cons.lock.
LEMMA OneReader ==
  ASSUME ReadersOK, NEW p \in Procs, NEW t, ReaderOK(t), th' = [th EXCEPT ![p] = t],
         lock' \in {0} \union Procs, lock' = p <=> t.pc \in Holding,
         \A q \in Procs : q # p => (lock' = q <=> lock = q)
  PROVE  ReadersOK' /\ th'[p] = t /\ \A q \in Procs : q # p => th'[q] = th[q]
<1>1. DOMAIN th = Procs
  BY DEF ReadersOK
<1>2. th'[p] = t /\ (\A q \in Procs : q # p => th'[q] = th[q])
  BY <1>1
<1>3. DOMAIN th' = Procs /\ th' = [q \in Procs |-> th'[q]]
  BY <1>1
<1>4. ASSUME NEW q \in Procs PROVE ReaderOK(th'[q]) /\ (lock' = q <=> th'[q].pc \in Holding)
  <2>1. CASE q = p
    BY <1>2, <2>1
  <2>2. CASE q # p
    BY <1>2, <2>2 DEF ReadersOK
  <2> QED
    BY <2>1, <2>2
<1> QED
  BY <1>2, <1>3, <1>4 DEF ReadersOK

\* Nothing that readers see changes.
LEMMA SameReaders ==
  ASSUME ReadersOK, th' = th, lock' = lock
  PROVE  ReadersOK'
  BY DEF ReadersOK

\* Readers that sleep are woken.
LEMMA WokenReaders ==
  ASSUME ReadersOK, lock = 0, lock' = lock, th' = wakeup
  PROVE  /\ ReadersOK' /\ \A p \in Procs : th'[p].pc \notin {"tosleep", "sleep"}
         /\ \A p \in Procs : /\ th'[p].n = th[p].n /\ th'[p].target = th[p].target
                             /\ th'[p].c = th[p].c /\ (th'[p].pc = "idle" <=> th[p].pc = "idle")
<1>1. DOMAIN th' = Procs /\ th' = [q \in Procs |-> th'[q]]
  BY DEF wakeup
<1>2. ASSUME NEW p \in Procs
      PROVE  /\ ReaderOK(th'[p]) /\ (lock' = p <=> th'[p].pc \in Holding)
             /\ th'[p].pc \notin {"tosleep", "sleep"}
             /\ th'[p].n = th[p].n /\ th'[p].target = th[p].target
             /\ th'[p].c = th[p].c /\ (th'[p].pc = "idle" <=> th[p].pc = "idle")
  <2>1. ReaderOK(th[p]) /\ (lock = p <=> th[p].pc \in Holding) /\ p # 0
    BY DEF ReadersOK, Procs
  <2>2. th[p].pc \notin Holding
    BY <2>1
  <2>3. CASE th[p].pc = "sleep"
    <3>1. th'[p] = [th[p] EXCEPT !.pc = "acquire"]
      BY <2>3 DEF wakeup
    <3> QED
      BY <2>1, <2>3, <3>1 DEF ReaderOK, ReadType, Holding
  <2>4. CASE th[p].pc # "sleep"
    <3>1. th'[p] = th[p]
      BY <2>4 DEF wakeup
    <3> QED
      BY <2>1, <2>2, <2>4, <3>1 DEF Holding
  <2> QED
    BY <2>3, <2>4
<1>3. lock' \in {0} \union Procs
  BY DEF ReadersOK
<1> QED
  BY <1>1, <1>2, <1>3 DEF ReadersOK

-----------------------------------------------------------------------------
(* What an interrupt does with a character. *)

Quiet == input' = input /\ pos' = pos /\ th' = th
Erases(n) == /\ input' = [input EXCEPT !.e = (input.e + UINT - n) % UINT]
             /\ pos' = consputs([i \in 1..n |-> "BACKSPACE"]) /\ th' = th
Stores(d, commit) ==
  /\ input' = Stored(input, d, commit) /\ pos' = consputs(<<d>>)
  /\ th' = IF commit THEN wakeup ELSE th

\* The cases of consoleintr(), by what it does to the ring: nothing, an erasure of
\* the whole line or of one character of it, or a character that is stored.
LEMMA IntrCases ==
  ASSUME input \in InputType, NEW a, NEW b, RingAt(input, a, b),
         NEW c \in Chars \union Controls, consoleintr(c)
  PROVE  \/ Quiet
         \/ Erases(b - a)
         \/ b - a >= 1 /\ Erases(1)
         \/ /\ b < INPUT_BUF
            /\ \E d \in Chars, commit \in BOOLEAN :
                 /\ Stores(d, commit)
                 /\ commit <=> (d \in {"NL", "EOF"} \/ b + 1 = INPUT_BUF)
<1>1. Span(input.r, input.e) = b /\ KillLine = b - a /\ (input.e = input.w <=> b - a = 0)
  BY RingSpans, KillWhole, RingNoLine
<1>2. a \in Nat /\ b \in Nat /\ a <= b /\ b <= INPUT_BUF
  BY DEF RingAt
<1>3. CASE c = "^U"
  <2>1. Delete(b - a)
    BY <1>1, <1>3 DEF consoleintr
  <2> QED
    BY <2>1 DEF Delete, Erases
<1>4. CASE c = "^H"
  <2>1. Delete(IF input.e # input.w THEN 1 ELSE 0)
    BY <1>4 DEF consoleintr
  <2>2. CASE input.e # input.w
    <3>1. Delete(1) /\ b - a >= 1
      BY <1>1, <1>2, <2>1, <2>2
    <3> QED
      BY <3>1 DEF Delete, Erases
  <2>3. CASE input.e = input.w
    <3>1. Delete(0) /\ b - a = 0
      BY <1>1, <2>1, <2>3
    <3> QED
      BY <3>1 DEF Delete, Erases
  <2> QED
    BY <2>2, <2>3
<1>5. CASE c \in {"^P", "NUL"}
  BY <1>5 DEF consoleintr, Quiet
<1>6. CASE c \notin {"^U", "^H", "^P", "NUL"}
  <2>1. IF Used < INPUT_BUF THEN Insert(c) ELSE UNCHANGED <<input, pos, th>>
    BY <1>6 DEF consoleintr
  <2>2. CASE Used < INPUT_BUF
    <3>1. Insert(c) /\ b < INPUT_BUF
      BY <1>1, <2>1, <2>2 DEF Used
    <3>2. PICK d \in Chars : d = IF c = "CR" THEN "NL" ELSE c
      BY <1>6 DEF Chars, Controls
    <3>3. PICK commit \in BOOLEAN :
             commit <=> (d \in {"NL", "EOF"} \/ (input.e + 1) % UINT = (input.r + INPUT_BUF) % UINT)
      OBVIOUS
    <3>4. commit <=> (d \in {"NL", "EOF"} \/ b + 1 = INPUT_BUF)
      BY <3>1, <3>3, FullSeen
    <3>5. Stores(d, commit)
      BY <3>1, <3>2, <3>3 DEF Insert, Stores, Stored
    <3> QED
      BY <3>1, <3>4, <3>5
  <2>3. CASE ~(Used < INPUT_BUF)
    BY <2>1, <2>3 DEF Quiet
  <2> QED
    BY <2>2, <2>3
<1> QED
  BY <1>3, <1>4, <1>5, <1>6

\* A row of backspaces is a string.
LEMMA Backspaces ==
  ASSUME NEW n \in Nat
  PROVE  Len([i \in 1..n |-> "BACKSPACE"]) \in Nat
<1>1. [i \in 1..n |-> "BACKSPACE"] \in [1..n -> {"BACKSPACE"}]
  OBVIOUS
<1>2. [i \in 1..n |-> "BACKSPACE"] \in Seq({"BACKSPACE"})
  BY <1>1, SeqDef
<1> QED
  BY <1>2, LenProperties

\* An interrupt keeps the ring, the cursor and the readers.
LEMMA IntrInv ==
  ASSUME ConsoleInv, NEW c \in Chars \union Controls, consoleintr(c)
  PROVE  InputOK' /\ CursorOnScreen' /\ ReadersOK' /\ SleepersHaveNothing'
<1>1. InputOK /\ CursorOnScreen /\ ReadersOK /\ SleepersHaveNothing
  BY InvParts
<1>2. PICK a, b : RingAt(input, a, b)
  BY <1>1, RingView DEF InputOK
<1>3. input \in InputType /\ a \in Nat /\ b \in Nat /\ a <= b
  BY <1>1, <1>2 DEF InputOK, RingAt
<1>4. lock = 0 /\ lock' = lock
  BY DEF consoleintr
<1>5. CASE Quiet
  <2>1. InputOK' /\ CursorOnScreen'
    BY <1>1, <1>5 DEF Quiet, InputOK, CursorOnScreen
  <2>2. ReadersOK'
    BY <1>1, <1>4, <1>5, SameReaders DEF Quiet
  <2>3. SleepersHaveNothing'
    BY <1>1, <1>5 DEF Quiet, SleepersHaveNothing
  <2> QED
    BY <2>1, <2>2, <2>3
<1>6. ASSUME NEW n \in Nat, n <= b - a, Erases(n)
      PROVE  InputOK' /\ CursorOnScreen' /\ ReadersOK' /\ SleepersHaveNothing'
  <2>1. /\ input' \in InputType /\ RingAt(input', a, b - n)
        /\ input'.r = input.r /\ input'.w = input.w
    BY <1>2, <1>3, <1>6, RingErased DEF Erases
  <2>2. InputOK'
    <3>1. Sound(input') /\ FullCommitted(input')
      BY <2>1, RingKept
    <3> QED
      BY <2>1, <3>1 DEF InputOK
  <2>3. CursorOnScreen'
    BY <1>1, <1>6, Backspaces, PutString DEF Erases, CursorOnScreen, Cells
  <2>4. ReadersOK'
    BY <1>1, <1>4, <1>6, SameReaders DEF Erases
  <2>5. SleepersHaveNothing'
    BY <1>1, <1>6, <2>1 DEF Erases, SleepersHaveNothing
  <2> QED
    BY <2>2, <2>3, <2>4, <2>5
<1>7. ASSUME b < INPUT_BUF, NEW d \in Chars, NEW commit \in BOOLEAN, Stores(d, commit),
             commit <=> (d \in {"NL", "EOF"} \/ b + 1 = INPUT_BUF)
      PROVE  InputOK' /\ CursorOnScreen' /\ ReadersOK' /\ SleepersHaveNothing'
  <2>1. input' \in InputType /\ RingAt(input', IF commit THEN b + 1 ELSE a, b + 1)
    BY <1>2, <1>3, <1>7, RingStored DEF Stores
  <2>2. InputOK'
    <3>1. Sound(input') /\ FullCommitted(input')
      BY <2>1, RingKept
    <3> QED
      BY <2>1, <3>1 DEF InputOK
  <2>3. CursorOnScreen'
    <3>1. Len(<<d>>) \in Nat
      OBVIOUS
    <3> QED
      BY <1>1, <1>7, <3>1, PutString DEF Stores, CursorOnScreen, Cells
  <2>4. CASE commit
    <3>1. ReadersOK' /\ \A p \in Procs : th'[p].pc \notin {"tosleep", "sleep"}
      BY <1>1, <1>4, <1>7, <2>4, WokenReaders DEF Stores
    <3>2. SleepersHaveNothing'
      BY <3>1 DEF SleepersHaveNothing
    <3> QED
      BY <2>2, <2>3, <3>1, <3>2
  <2>5. CASE ~commit
    <3>1. ReadersOK'
      BY <1>1, <1>4, <1>7, <2>5, SameReaders DEF Stores
    <3>2. input'.r = input.r /\ input'.w = input.w /\ th' = th
      BY <1>3, <1>7, <2>5 DEF Stores, Stored, InputType
    <3>3. SleepersHaveNothing'
      BY <1>1, <3>2 DEF SleepersHaveNothing
    <3> QED
      BY <2>2, <2>3, <3>1, <3>3
  <2> QED
    BY <2>4, <2>5
<1>8. b - a \in Nat /\ b - a <= b - a /\ (b - a >= 1 => 1 <= b - a)
  BY <1>3
<1> QED
  BY <1>2, <1>3, <1>5, <1>6, <1>7, <1>8, IntrCases

-----------------------------------------------------------------------------
(* The keyboard. *)

\* The flags of a modifier.
Modifiers == {"CTL", "SHIFT"}
LEMMA ShiftCode ==
  ASSUME NEW code, NEW ext \in BOOLEAN
  PROVE  shiftcode(code, ext) \subseteq Modifiers /\ togglecode(code, ext) \subseteq {"CAPSLOCK"}
<1>1. CASE code = "ctl"
  BY <1>1 DEF shiftcode, togglecode, Modifiers
<1>2. CASE code = "shift" /\ ~ext
  BY <1>2 DEF shiftcode, togglecode, Modifiers
<1>3. CASE code # "ctl" /\ ~(code = "shift" /\ ~ext)
  BY <1>3 DEF shiftcode, togglecode, Modifiers
<1> QED
  BY <1>1, <1>2, <1>3

\* A key that goes up gives no character; one that goes down gives a character
\* of the console.
LEMMA KeyChar ==
  ASSUME NEW code, NEW up \in BOOLEAN
  PROVE  kbdgetc(code, up).c \in Chars \union Controls
<1>1. CASE up
  BY <1>1 DEF kbdgetc, Controls
<1>2. CASE ~up
  <2>1. PICK ext \in BOOLEAN : ext = ("E0ESC" \in shift)
    <3>1. CASE "E0ESC" \in shift
      <4>1. TRUE = ("E0ESC" \in shift)
        BY <3>1
      <4> QED
        BY <4>1
    <3>2. CASE "E0ESC" \notin shift
      <4>1. FALSE = ("E0ESC" \in shift)
        BY <3>2
      <4> QED
        BY <4>1
    <3> QED
      BY <3>1, <3>2
  <2>2. PICK s : s = Toggle((shift \ {"E0ESC"}) \union shiftcode(code, ext), togglecode(code, ext))
    OBVIOUS
  <2>3. kbdgetc(code, up).c = Caps(s, charcode(code, ext, s))
    BY <1>2, <2>1, <2>2 DEF kbdgetc
  <2>4. charcode(code, ext, s) \in Chars \union Controls
    <3>1. CASE code = "d" /\ ~ext
      BY <3>1 DEF charcode, Chars, Controls
    <3>2. CASE code = "enter"
      BY <3>2 DEF charcode, Chars, Controls
    <3>3. CASE code # "enter" /\ ~(code = "d" /\ ~ext)
      BY <3>3 DEF charcode, Chars, Controls
    <3> QED
      BY <3>1, <3>2, <3>3
  <2>5. \A x \in Chars \union Controls : Caps(s, x) \in Chars \union Controls
    BY DEF Caps, Chars, Controls
  <2> QED
    BY <2>3, <2>4, <2>5
<1> QED
  BY <1>1, <1>2

\* The flags after a key.
LEMMA KeyFlags ==
  ASSUME shift \subseteq Flags, NEW code, NEW up \in BOOLEAN, NEW ext \in BOOLEAN,
         ext = ("E0ESC" \in shift), NEW s, s = kbdgetc(code, up).shift
  PROVE  /\ s \subseteq Flags /\ "E0ESC" \notin s
         /\ up => \A f \in s \intersect Modifiers : f \in shift /\ f \notin shiftcode(code, ext)
         /\ ~up => \A f \in s \intersect Modifiers : f \in shift \/ f \in shiftcode(code, ext)
<1>1. shiftcode(code, ext) \subseteq Modifiers /\ togglecode(code, ext) \subseteq {"CAPSLOCK"}
  BY ShiftCode
<1>2. CASE up
  <2>1. s = shift \ (shiftcode(code, ext) \union {"E0ESC"})
    BY <1>2 DEF kbdgetc
  <2> QED
    BY <1>2, <2>1
<1>3. CASE ~up
  <2>1. s = Toggle((shift \ {"E0ESC"}) \union shiftcode(code, ext), togglecode(code, ext))
    BY <1>3 DEF kbdgetc
  <2> QED
    BY <1>1, <1>3, <2>1 DEF Toggle, Flags, Modifiers
<1> QED
  BY <1>2, <1>3

\* The holders of a modifier.
Holds(h, f) == \E k \in h : f \in shiftcode(k[1], k[2])

\* NoStuckModifier, with names for its parts.
LEMMA StuckParts ==
  /\ NoStuckModifier <=>
       /\ "E0ESC" \in shift <=> pend # NoByte
       /\ pend # NoByte /\ ~pend.up => <<pend.code, TRUE>> \in held
       /\ \A f \in shift \intersect Modifiers :
            Holds(held, f) \/ (pend # NoByte /\ f \in shiftcode(pend.code, TRUE))
  /\ NoStuckModifier' <=>
       /\ "E0ESC" \in shift' <=> pend' # NoByte
       /\ pend' # NoByte /\ ~pend'.up => <<pend'.code, TRUE>> \in held'
       /\ \A f \in shift' \intersect Modifiers :
            Holds(held', f) \/ (pend' # NoByte /\ f \in shiftcode(pend'.code, TRUE))
  BY DEF NoStuckModifier, Holds, Modifiers

\* A key whose code is a byte of its own.
LEMMA PlainKey ==
  ASSUME KbdOK, NEW k \in load.keys, load.keys \subseteq Keys, load' = load,
         NEW up \in BOOLEAN, ~k[2], pend = NoByte, pend' = pend,
         held' = IF up THEN held \ {k} ELSE held \union {k},
         shift' = kbdgetc(k[1], up).shift
  PROVE  KbdOK'
<1>1. shift \subseteq Flags /\ held \subseteq load.keys /\ ByteOK /\ NoStuckModifier
  BY DEF KbdOK
<1>2. "E0ESC" \notin shift /\ \A f \in shift \intersect Modifiers : Holds(held, f)
  BY <1>1, StuckParts
<1>3. k[2] = FALSE
  BY DEF Keys
<1>4. FALSE = ("E0ESC" \in shift)
  BY <1>2
<1>5. /\ shift' \subseteq Flags /\ "E0ESC" \notin shift'
      /\ up => \A f \in shift' \intersect Modifiers : f \in shift /\ f \notin shiftcode(k[1], FALSE)
      /\ ~up => \A f \in shift' \intersect Modifiers : f \in shift \/ f \in shiftcode(k[1], FALSE)
  BY <1>1, <1>4, KeyFlags
<1>6. held' \subseteq load'.keys /\ ByteOK'
  BY <1>1 DEF ByteOK
<1>7. ASSUME NEW f \in shift' \intersect Modifiers PROVE Holds(held', f)
  <2>1. CASE up
    <3>1. f \in shift \intersect Modifiers /\ f \notin shiftcode(k[1], k[2])
      BY <1>3, <1>5, <1>7, <2>1
    <3>2. PICK h \in held : f \in shiftcode(h[1], h[2])
      BY <1>2, <3>1 DEF Holds
    <3>3. h # k /\ h \in held'
      BY <2>1, <3>1, <3>2
    <3> QED
      BY <3>2, <3>3 DEF Holds
  <2>2. CASE ~up
    <3>1. k \in held' /\ held \subseteq held'
      BY <2>2
    <3>2. CASE f \in shiftcode(k[1], k[2])
      BY <3>1, <3>2 DEF Holds
    <3>3. CASE f \notin shiftcode(k[1], k[2])
      <4>1. f \in shift \intersect Modifiers
        BY <1>3, <1>5, <1>7, <2>2, <3>3
      <4> QED
        BY <1>2, <3>1, <4>1 DEF Holds
    <3> QED
      BY <3>2, <3>3
  <2> QED
    BY <2>1, <2>2
<1>8. NoStuckModifier'
  BY <1>5, <1>7, StuckParts
<1> QED
  BY <1>5, <1>6, <1>8 DEF KbdOK

\* The byte 0xE0 of a key.
LEMMA FirstByte ==
  ASSUME KbdOK, NEW k \in load.keys, load.keys \subseteq Keys, load' = load,
         NEW up \in BOOLEAN, k[2], pend = NoByte, pend' = [code |-> k[1], up |-> up],
         held' = IF up THEN held \ {k} ELSE held \union {k},
         shift' = shift \union {"E0ESC"}
  PROVE  KbdOK'
<1>1. shift \subseteq Flags /\ held \subseteq load.keys /\ ByteOK /\ NoStuckModifier
  BY DEF KbdOK
<1>2. "E0ESC" \notin shift /\ \A f \in shift \intersect Modifiers : Holds(held, f)
  BY <1>1, StuckParts
<1>3. k = <<k[1], TRUE>> /\ k[1] # "none"
  <2>1. PICK x \in {"ctl", "shift", "caps", "d", "enter"}, e \in BOOLEAN : k = <<x, e>>
    BY DEF Keys
  <2> QED
    BY <2>1
<1>4. pend'.code = k[1] /\ pend'.up = up /\ pend' # NoByte
  BY <1>3 DEF NoByte
<1>5. held' \subseteq load'.keys /\ ByteOK' /\ shift' \subseteq Flags /\ "E0ESC" \in shift'
  BY <1>1 DEF ByteOK, Flags
<1>6. ~pend'.up => <<pend'.code, TRUE>> \in held'
  BY <1>3, <1>4
<1>7. ASSUME NEW f \in shift' \intersect Modifiers
      PROVE  Holds(held', f) \/ f \in shiftcode(pend'.code, TRUE)
  <2>1. f \in shift \intersect Modifiers
    BY <1>7 DEF Modifiers
  <2>2. PICK h \in held : f \in shiftcode(h[1], h[2])
    BY <1>2, <2>1 DEF Holds
  <2>3. CASE h = k
    <3>1. f \in shiftcode(k[1], TRUE)
      BY <1>3, <2>2, <2>3
    <3> QED
      BY <1>4, <3>1
  <2>4. CASE h # k
    <3>1. h \in held'
      BY <2>4
    <3> QED
      BY <2>2, <3>1 DEF Holds
  <2> QED
    BY <2>3, <2>4
<1>8. NoStuckModifier'
  BY <1>4, <1>5, <1>6, <1>7, StuckParts
<1> QED
  BY <1>5, <1>8 DEF KbdOK

\* The byte after 0xE0.
LEMMA ByteAfter ==
  ASSUME KbdOK, load' = load, pend # NoByte, pend' = NoByte, held' = held,
         shift' = kbdgetc(pend.code, pend.up).shift
  PROVE  KbdOK' /\ pend.up \in BOOLEAN
<1>1. shift \subseteq Flags /\ held \subseteq load.keys /\ ByteOK /\ NoStuckModifier
  BY DEF KbdOK
<1>2. /\ "E0ESC" \in shift /\ (~pend.up => <<pend.code, TRUE>> \in held)
      /\ \A f \in shift \intersect Modifiers : Holds(held, f) \/ f \in shiftcode(pend.code, TRUE)
  BY <1>1, StuckParts
<1>3. pend.up \in BOOLEAN
  BY <1>1 DEF ByteOK
<1>4. TRUE = ("E0ESC" \in shift)
  BY <1>2
<1>5. /\ shift' \subseteq Flags /\ "E0ESC" \notin shift'
      /\ pend.up => \A f \in shift' \intersect Modifiers :
                      f \in shift /\ f \notin shiftcode(pend.code, TRUE)
      /\ ~pend.up => \A f \in shift' \intersect Modifiers :
                      f \in shift \/ f \in shiftcode(pend.code, TRUE)
  <2>1. CASE pend.up = TRUE
    <3>1. shift' = kbdgetc(pend.code, TRUE).shift
      BY <2>1
    <3>2. /\ shift' \subseteq Flags /\ "E0ESC" \notin shift'
          /\ \A f \in shift' \intersect Modifiers : f \in shift /\ f \notin shiftcode(pend.code, TRUE)
      BY <1>1, <1>4, <3>1, KeyFlags
    <3> QED
      BY <2>1, <3>2
  <2>2. CASE pend.up = FALSE
    <3>1. shift' = kbdgetc(pend.code, FALSE).shift
      BY <2>2
    <3>2. /\ shift' \subseteq Flags /\ "E0ESC" \notin shift'
          /\ \A f \in shift' \intersect Modifiers : f \in shift \/ f \in shiftcode(pend.code, TRUE)
      BY <1>1, <1>4, <3>1, KeyFlags
    <3> QED
      BY <2>2, <3>2
  <2> QED
    BY <1>3, <2>1, <2>2
<1>6. held' \subseteq load'.keys /\ ByteOK'
  BY <1>1 DEF ByteOK
<1>7. ASSUME NEW f \in shift' \intersect Modifiers PROVE Holds(held', f)
  <2>1. CASE pend.up
    <3>1. f \in shift \intersect Modifiers /\ f \notin shiftcode(pend.code, TRUE)
      BY <1>5, <1>7, <2>1
    <3> QED
      BY <1>2, <3>1
  <2>2. CASE ~pend.up
    <3>1. f \in shiftcode(pend.code, TRUE) => Holds(held, f)
      <4>1. <<pend.code, TRUE>> \in held
        BY <1>2, <2>2
      <4> QED
        BY <4>1 DEF Holds
    <3> QED
      BY <1>2, <1>5, <1>7, <2>2, <3>1
  <2> QED
    BY <2>1, <2>2
<1>8. NoStuckModifier'
  BY <1>5, <1>7, StuckParts
<1> QED
  BY <1>3, <1>5, <1>6, <1>8 DEF KbdOK

-----------------------------------------------------------------------------
(* Every step keeps the invariant. *)

\* The workload is well-formed.
LEMMA Load ==
  ASSUME load \in Workloads
  PROVE  /\ load.keys \subseteq Keys /\ load.serial \subseteq Chars \union Controls
         /\ load.readers \subseteq Procs /\ load.killed \subseteq Procs
  BY ConsoleAssumption

\* The keyboard is left alone.
LEMMA SameKeyboard ==
  ASSUME KbdOK, UNCHANGED kbdVars, load' = load
  PROVE  KbdOK'
<1>1. shift' = shift /\ held' = held /\ pend' = pend
  BY DEF kbdVars
<1>2. ByteOK'
  BY <1>1 DEF KbdOK, ByteOK
<1>3. NoStuckModifier'
  BY <1>1 DEF KbdOK, NoStuckModifier
<1> QED
  BY <1>1, <1>2, <1>3 DEF KbdOK

\* Input and cursor are left alone.
LEMMA SameInput ==
  ASSUME InputOK, CursorOnScreen, input' = input, pos' = pos
  PROVE  InputOK' /\ CursorOnScreen'
  BY DEF InputOK, CursorOnScreen

\* consolewrite()
LEMMA WriteInv ==
  ASSUME ConsoleInv, NEW s \in Outputs, consolewrite(s)
  PROVE  ConsoleInv'
<1>1. /\ InputOK /\ CursorOnScreen /\ ReadersOK /\ SleepersHaveNothing /\ KbdOK
      /\ killed \subseteq Procs /\ load \in Workloads
  BY InvParts
<1>2. /\ input' = input /\ th' = th /\ lock' = lock /\ killed' = killed /\ UNCHANGED kbdVars
      /\ load' = load /\ pos' = consputs(s)
  BY DEF consolewrite
<1>3. InputOK'
  BY <1>1, <1>2 DEF InputOK
<1>4. CursorOnScreen'
  <2>1. Len(s) \in Nat
    BY ConsoleAssumption, LenProperties
  <2> QED
    BY <1>1, <1>2, <2>1, PutString DEF CursorOnScreen, Cells
<1>5. ReadersOK' /\ SleepersHaveNothing'
  BY <1>1, <1>2, SameReaders DEF SleepersHaveNothing
<1>6. KbdOK'
  BY <1>1, <1>2, SameKeyboard
<1> QED
  BY <1>1, <1>2, <1>3, <1>4, <1>5, <1>6, InvMade

\* An interrupt: the character of a key, of the serial port, or none.
LEMMA InterruptInv ==
  ASSUME ConsoleInv, NEW c \in Chars \union Controls, consoleintr(c), KbdOK'
  PROVE  ConsoleInv'
<1>1. killed \subseteq Procs /\ load \in Workloads
  BY InvParts
<1>2. killed' = killed /\ load' = load
  BY DEF consoleintr
<1>3. InputOK' /\ CursorOnScreen' /\ ReadersOK' /\ SleepersHaveNothing'
  BY IntrInv
<1> QED
  BY <1>1, <1>2, <1>3, InvMade

\* The character that the step of a key hands to consoleintr().
Intr == \E c \in Chars \union Controls : consoleintr(c)

\* A key is pressed or released.
LEMMA KeyInv ==
  ASSUME ConsoleInv, NEW k \in load.keys, NEW up \in BOOLEAN, Key(k, up)
  PROVE  Intr /\ KbdOK'
<1>1. KbdOK /\ load \in Workloads
  BY InvParts
<1>2. load.keys \subseteq Keys
  BY <1>1, Load
<1>3. pend = NoByte /\ held' = IF up THEN held \ {k} ELSE held \union {k}
  BY DEF Key
<1>4. CASE k[2]
  <2>1. /\ shift' = shift \union {"E0ESC"} /\ pend' = [code |-> k[1], up |-> up]
        /\ consoleintr("NUL")
    BY <1>4 DEF Key
  <2>2. load' = load /\ "NUL" \in Controls
    BY <2>1 DEF consoleintr, Controls
  <2>3. KbdOK'
    BY <1>1, <1>2, <1>3, <1>4, <2>1, <2>2, FirstByte
  <2> QED
    BY <2>1, <2>2, <2>3 DEF Intr
<1>5. CASE ~k[2]
  <2>1. /\ consoleintr(kbdgetc(k[1], up).c) /\ shift' = kbdgetc(k[1], up).shift /\ pend' = pend
    BY <1>5 DEF Key, kbdintr
  <2>2. load' = load
    BY <2>1 DEF consoleintr
  <2>3. KbdOK'
    BY <1>1, <1>2, <1>3, <1>5, <2>1, <2>2, PlainKey
  <2>4. kbdgetc(k[1], up).c \in Chars \union Controls
    BY KeyChar
  <2> QED
    BY <2>1, <2>3, <2>4 DEF Intr
<1> QED
  BY <1>4, <1>5

\* The byte after 0xE0 arrives.
LEMMA ByteInv ==
  ASSUME ConsoleInv, SecondByte
  PROVE  Intr /\ KbdOK'
<1>1. KbdOK
  BY InvParts
<1>2. /\ pend # NoByte /\ pend' = NoByte /\ held' = held
      /\ consoleintr(kbdgetc(pend.code, pend.up).c)
      /\ shift' = kbdgetc(pend.code, pend.up).shift
  BY DEF SecondByte, kbdintr
<1>3. load' = load
  BY <1>2 DEF consoleintr
<1>4. KbdOK' /\ pend.up \in BOOLEAN
  BY <1>1, <1>2, <1>3, ByteAfter
<1>5. kbdgetc(pend.code, pend.up).c \in Chars \union Controls
  <2>1. CASE pend.up = TRUE
    BY <2>1, KeyChar
  <2>2. CASE pend.up = FALSE
    BY <2>2, KeyChar
  <2> QED
    BY <1>4, <2>1, <2>2
<1> QED
  BY <1>2, <1>4, <1>5 DEF Intr

\* A character from the serial port.
LEMMA UartInv ==
  ASSUME ConsoleInv, NEW c \in load.serial, uartintr(c)
  PROVE  Intr /\ KbdOK'
<1>1. KbdOK /\ load \in Workloads
  BY InvParts
<1>2. consoleintr(c) /\ UNCHANGED kbdVars /\ c \in Chars \union Controls
  BY <1>1, Load DEF uartintr
<1>3. load' = load
  BY <1>2 DEF consoleintr
<1>4. KbdOK'
  BY <1>1, <1>2, <1>3, SameKeyboard
<1> QED
  BY <1>2, <1>4 DEF Intr

\* A step of one reader that leaves input alone, or takes a character from it.
LEMMA ReaderStep ==
  ASSUME ConsoleInv, NEW p \in Procs, NEW t, ReaderOK(t), th' = [th EXCEPT ![p] = t],
         lock' \in {0} \union Procs, lock' = p <=> t.pc \in Holding,
         \A q \in Procs : q # p => (lock' = q <=> lock = q),
         InputOK', pos' = pos, UNCHANGED kbdVars, load' = load, killed' \subseteq Procs,
         t.pc \in {"tosleep", "sleep"} => input'.r = input'.w,
         input' = input \/ input.r # input.w
  PROVE  ConsoleInv'
<1>1. /\ CursorOnScreen /\ ReadersOK /\ SleepersHaveNothing /\ KbdOK /\ load \in Workloads
  BY InvParts
<1>2. ReadersOK' /\ th'[p] = t /\ \A q \in Procs : q # p => th'[q] = th[q]
  BY <1>1, OneReader
<1>3. CursorOnScreen'
  BY <1>1 DEF CursorOnScreen
<1>4. KbdOK'
  BY <1>1, SameKeyboard
<1>5. SleepersHaveNothing'
  <2> SUFFICES ASSUME NEW q \in Procs, th'[q].pc \in {"tosleep", "sleep"}
               PROVE  input'.r = input'.w
    BY DEF SleepersHaveNothing
  <2>1. CASE q = p
    BY <1>2, <2>1
  <2>2. CASE q # p
    <3>1. input.r = input.w
      BY <1>1, <1>2, <2>2 DEF SleepersHaveNothing
    <3> QED
      BY <3>1
  <2> QED
    BY <2>1, <2>2
<1> QED
  BY <1>1, <1>2, <1>3, <1>4, <1>5, InvMade

\* Facts about the reader p.
LEMMA ReaderFacts ==
  ASSUME ConsoleInv, NEW p \in Procs
  PROVE  /\ ReaderOK(th[p]) /\ (lock = p <=> th[p].pc \in Holding) /\ p # 0
         /\ InputOK /\ lock \in {0} \union Procs /\ killed \subseteq Procs
         /\ th[p].pc \in {"tosleep", "sleep"} => input.r = input.w
<1>1. InputOK /\ ReadersOK /\ SleepersHaveNothing /\ killed \subseteq Procs
  BY InvParts
<1>2. p # 0
  BY DEF Procs
<1> QED
  BY <1>1, <1>2 DEF ReadersOK, SleepersHaveNothing

\* consoleread() is called.
LEMMA ReadInv ==
  ASSUME ConsoleInv, NEW p \in Procs, NEW n \in ReadSizes, consoleread(p, n)
  PROVE  ConsoleInv'
<1> DEFINE t == [pc |-> "acquire", n |-> n, target |-> n, c |-> "NL"]
<1>1. /\ th[p].pc = "idle" /\ th' = [th EXCEPT ![p] = t] /\ input' = input /\ pos' = pos
      /\ lock' = lock /\ killed' = killed /\ UNCHANGED kbdVars /\ load' = load
  BY DEF consoleread
<1>2. /\ ReaderOK(th[p]) /\ (lock = p <=> th[p].pc \in Holding)
      /\ InputOK /\ lock \in {0} \union Procs /\ killed \subseteq Procs
  BY ReaderFacts
<1>3. n \in Nat /\ n >= 1
  BY ConsoleAssumption
<1>4. ReaderOK(t) /\ t.pc \notin Holding /\ t.pc \notin {"tosleep", "sleep"}
  BY <1>3 DEF ReaderOK, ReadType, Holding, Chars
<1>5. lock' # p
  BY <1>1, <1>2 DEF Holding
<1>6. InputOK'
  BY <1>1, <1>2 DEF InputOK
<1> HIDE DEF t
<1> QED
  BY <1>1, <1>2, <1>4, <1>5, <1>6, ReaderStep

\* A reader takes cons.lock.
LEMMA AcquireInv ==
  ASSUME ConsoleInv, NEW p \in Procs, acquire(p)
  PROVE  ConsoleInv'
<1>1. PICK t : t = [th[p] EXCEPT !.pc = "loop"]
  OBVIOUS
<1>2. /\ th[p].pc = "acquire" /\ th' = [th EXCEPT ![p] = t] /\ input' = input /\ pos' = pos
      /\ lock = 0 /\ lock' = p /\ killed' = killed /\ UNCHANGED kbdVars /\ load' = load
  BY <1>1 DEF acquire
<1>3. /\ ReaderOK(th[p]) /\ InputOK /\ killed \subseteq Procs
  BY ReaderFacts
<1>4. ReaderOK(t) /\ t.pc \in Holding /\ t.pc \notin {"tosleep", "sleep"}
  BY <1>1, <1>2, <1>3 DEF ReaderOK, ReadType, Holding
<1>5. \A q \in Procs : q # p => (lock' = q <=> lock = q)
  BY <1>2 DEF Procs
<1>6. InputOK'
  BY <1>2, <1>3 DEF InputOK
<1> QED
  BY <1>2, <1>3, <1>4, <1>5, <1>6, ReaderStep

\* A reader finds no committed input.
LEMMA EmptyInv ==
  ASSUME ConsoleInv, NEW p \in Procs, consoleread_empty(p)
  PROVE  ConsoleInv'
<1>1. PICK t : t = [th[p] EXCEPT !.pc = IF p \in killed THEN "idle" ELSE "tosleep"]
  OBVIOUS
<1>2. /\ th[p].pc = "loop" /\ th' = [th EXCEPT ![p] = t] /\ input' = input /\ pos' = pos
      /\ input.r = input.w /\ lock' = (IF p \in killed THEN 0 ELSE p)
      /\ killed' = killed /\ UNCHANGED kbdVars /\ load' = load
  BY <1>1 DEF consoleread_empty
<1>3. /\ ReaderOK(th[p]) /\ InputOK /\ killed \subseteq Procs /\ p # 0
      /\ (lock = p <=> th[p].pc \in Holding)
  BY ReaderFacts
<1>4. lock = p
  BY <1>2, <1>3 DEF Holding
<1>5. ReaderOK(t) /\ (t.pc \in Holding <=> p \notin killed)
  BY <1>1, <1>2, <1>3 DEF ReaderOK, ReadType, Holding
<1>6. \A q \in Procs : q # p => (lock' = q <=> lock = q)
  BY <1>2, <1>4 DEF Procs
<1>7. InputOK'
  BY <1>2, <1>3 DEF InputOK
<1>8. lock' \in {0} \union Procs /\ (lock' = p <=> t.pc \in Holding)
  BY <1>2, <1>3, <1>5
<1> QED
  BY <1>2, <1>3, <1>5, <1>6, <1>7, <1>8, ReaderStep

\* A reader goes to sleep.
LEMMA SleepInv ==
  ASSUME ConsoleInv, NEW p \in Procs, sleep(p)
  PROVE  ConsoleInv'
<1>1. PICK t : t = [th[p] EXCEPT !.pc = "sleep"]
  OBVIOUS
<1>2. /\ th[p].pc = "tosleep" /\ th' = [th EXCEPT ![p] = t] /\ input' = input /\ pos' = pos
      /\ lock' = 0 /\ killed' = killed /\ UNCHANGED kbdVars /\ load' = load
  BY <1>1 DEF sleep
<1>3. /\ ReaderOK(th[p]) /\ InputOK /\ killed \subseteq Procs /\ p # 0
      /\ (lock = p <=> th[p].pc \in Holding) /\ input.r = input.w
  BY <1>2, ReaderFacts
<1>4. lock = p
  BY <1>2, <1>3 DEF Holding
<1>5. ReaderOK(t) /\ t.pc \notin Holding
  BY <1>1, <1>2, <1>3 DEF ReaderOK, ReadType, Holding
<1>6. \A q \in Procs : q # p => (lock' = q <=> lock = q)
  BY <1>2, <1>4 DEF Procs
<1>7. InputOK' /\ input'.r = input'.w
  BY <1>2, <1>3 DEF InputOK
<1> QED
  BY <1>2, <1>3, <1>5, <1>6, <1>7, ReaderStep

\* The reader after it has got a character c of input.
Got(t, c) ==
  [t EXCEPT !.n = IF c = "EOF" THEN t.n ELSE t.n - 1, !.c = IF c = "EOF" THEN @ ELSE c,
            !.pc = IF c \in {"EOF", "NL"} \/ (IF c = "EOF" THEN t.n ELSE t.n - 1) = 0
                   THEN "idle" ELSE "loop"]

\* What a reader does with the next character.
LEMMA GotFacts ==
  ASSUME NEW s, ReaderOK(s), s.pc = "loop", NEW c \in Symbols, NEW t, t = Got(s, c)
  PROVE  /\ ReaderOK(t) /\ t.target = s.target /\ t.pc \in {"idle", "loop"}
         /\ c = "EOF" => t.n = s.n /\ t.c = s.c /\ t.pc = "idle"
         /\ c # "EOF" => /\ t.n = s.n - 1 /\ t.c = c
                         /\ t.pc = "idle" <=> (c = "NL" \/ s.n - 1 = 0)
<1>1. s \in ReadType /\ s.n \in Nat /\ s.target \in Nat /\ s.n <= s.target /\ s.n >= 1
  BY DEF ReaderOK, ReadType
<1>2. CASE c = "EOF"
  <2>1. t = [s EXCEPT !.n = s.n, !.c = s.c, !.pc = "idle"]
    BY <1>2 DEF Got
  <2>2. t \in ReadType /\ t.n = s.n /\ t.target = s.target /\ t.c = s.c /\ t.pc = "idle"
    BY <1>1, <2>1 DEF ReadType
  <2> QED
    BY <1>1, <1>2, <2>2 DEF ReaderOK
<1>3. CASE c # "EOF"
  <2>1. PICK m \in Nat : m = s.n - 1
    BY <1>1
  <2>2. PICK x \in {"idle", "loop"} : x = IF c = "NL" \/ m = 0 THEN "idle" ELSE "loop"
    OBVIOUS
  <2>3. t = [s EXCEPT !.n = m, !.c = c, !.pc = x]
    BY <1>3, <2>1, <2>2 DEF Got
  <2>4. t \in ReadType /\ t.n = m /\ t.target = s.target /\ t.c = c /\ t.pc = x
    BY <1>1, <2>3 DEF ReadType, Symbols
  <2>5. m <= s.target /\ (x # "idle" => m >= 1)
    BY <1>1, <2>1, <2>2
  <2> QED
    BY <1>3, <2>1, <2>2, <2>4, <2>5 DEF ReaderOK
<1> QED
  BY <1>2, <1>3

\* The effects of consoleread_getc(), by name.
LEMMA GetcStep ==
  ASSUME NEW p \in Procs, consoleread_getc(p), th[p] \in ReadType,
         NEW c, c = input.buf[input.r % INPUT_BUF], NEW t, t = Got(th[p], c)
  PROVE  /\ th[p].pc = "loop" /\ input.r # input.w /\ th' = [th EXCEPT ![p] = t]
         /\ lock' = IF t.pc = "idle" THEN 0 ELSE lock
         /\ input' = IF c = "EOF" /\ th[p].n < th[p].target THEN input
                     ELSE [input EXCEPT !.r = (input.r + 1) % UINT]
         /\ pos' = pos /\ killed' = killed /\ UNCHANGED kbdVars /\ load' = load
<1>1. /\ th[p].pc = "loop" /\ input.r # input.w /\ th' = [th EXCEPT ![p] = t]
      /\ input' = IF c = "EOF" /\ th[p].n < th[p].target THEN input
                  ELSE [input EXCEPT !.r = (input.r + 1) % UINT]
      /\ pos' = pos /\ killed' = killed /\ UNCHANGED kbdVars /\ load' = load
  BY DEF consoleread_getc, Got
<1>2. lock' = IF t.pc = "idle" THEN 0 ELSE lock
  <2>1. lock' = IF c \in {"EOF", "NL"} \/ (IF c = "EOF" THEN th[p].n ELSE th[p].n - 1) = 0
                THEN 0 ELSE lock
    BY DEF consoleread_getc
  <2>2. t.pc = IF c \in {"EOF", "NL"} \/ (IF c = "EOF" THEN th[p].n ELSE th[p].n - 1) = 0
               THEN "idle" ELSE "loop"
    BY DEF Got, ReadType
  <2> QED
    BY <2>1, <2>2
<1> QED
  BY <1>1, <1>2

\* A reader gets the next character.
LEMMA GetcInv ==
  ASSUME ConsoleInv, NEW p \in Procs, consoleread_getc(p)
  PROVE  ConsoleInv'
<1>1. PICK c, t : c = input.buf[input.r % INPUT_BUF] /\ t = Got(th[p], c)
  OBVIOUS
<1>2. /\ ReaderOK(th[p]) /\ InputOK /\ killed \subseteq Procs /\ p # 0
      /\ (lock = p <=> th[p].pc \in Holding)
  BY ReaderFacts
<1>3. /\ th[p].pc = "loop" /\ input.r # input.w /\ th' = [th EXCEPT ![p] = t]
      /\ lock' = (IF t.pc = "idle" THEN 0 ELSE lock)
      /\ input' = IF c = "EOF" /\ th[p].n < th[p].target THEN input
                  ELSE [input EXCEPT !.r = (input.r + 1) % UINT]
      /\ pos' = pos /\ killed' = killed /\ UNCHANGED kbdVars /\ load' = load
  <2>1. th[p] \in ReadType
    BY <1>2 DEF ReaderOK
  <2> QED
    BY <1>1, <2>1, GetcStep
<1>4. PICK a, b : RingAt(input, a, b) /\ a > 0 /\ input \in InputType
  <2>1. PICK a, b : RingAt(input, a, b) /\ input \in InputType
    BY <1>2, RingView DEF InputOK
  <2>2. a # 0 /\ a \in Nat
    BY <1>3, <2>1, RingNothing DEF RingAt
  <2> QED
    BY <2>1, <2>2
<1>5. c \in Symbols
  BY <1>1, <1>4, RingHead
<1>6. ReaderOK(t) /\ t.pc \in {"idle", "loop"}
  BY <1>1, <1>2, <1>3, <1>5, GotFacts
<1>7. lock = p
  BY <1>2, <1>3 DEF Holding
<1>8. InputOK'
  <2>1. CASE input' = input
    BY <1>2, <2>1 DEF InputOK
  <2>2. CASE input' = [input EXCEPT !.r = (input.r + 1) % UINT]
    <3>1. input' \in InputType /\ RingAt(input', a - 1, b - 1)
      BY <1>4, <2>2, RingTaken
    <3>2. Sound(input') /\ FullCommitted(input')
      BY <3>1, RingKept
    <3> QED
      BY <3>1, <3>2 DEF InputOK
  <2> QED
    BY <1>3, <2>1, <2>2
<1>9. /\ lock' \in {0} \union Procs /\ (lock' = p <=> t.pc \in Holding)
      /\ t.pc \notin {"tosleep", "sleep"}
  BY <1>2, <1>3, <1>6, <1>7 DEF Holding
<1>10. \A q \in Procs : q # p => (lock' = q <=> lock = q)
  BY <1>3, <1>7 DEF Procs
<1> QED
  BY <1>2, <1>3, <1>6, <1>8, <1>9, <1>10, ReaderStep

\* A process is killed.
LEMMA KillInv ==
  ASSUME ConsoleInv, NEW p \in Procs, kill(p)
  PROVE  ConsoleInv'
<1>1. PICK t : t = [th[p] EXCEPT !.pc = IF th[p].pc = "sleep" THEN "acquire" ELSE th[p].pc]
  OBVIOUS
<1>2. /\ th' = [th EXCEPT ![p] = t] /\ input' = input /\ pos' = pos
      /\ lock' = lock /\ killed' = killed \union {p} /\ UNCHANGED kbdVars /\ load' = load
  BY <1>1 DEF kill
<1>3. /\ ReaderOK(th[p]) /\ InputOK /\ killed \subseteq Procs /\ lock \in {0} \union Procs
      /\ (lock = p <=> th[p].pc \in Holding)
      /\ th[p].pc \in {"tosleep", "sleep"} => input.r = input.w
  BY ReaderFacts
<1>4. /\ ReaderOK(t) /\ (t.pc \in Holding <=> th[p].pc \in Holding)
      /\ (t.pc \in {"tosleep", "sleep"} => th[p].pc \in {"tosleep", "sleep"})
  BY <1>1, <1>3 DEF ReaderOK, ReadType, Holding
<1>5. InputOK' /\ killed' \subseteq Procs
  BY <1>2, <1>3 DEF InputOK
<1> QED
  BY <1>2, <1>3, <1>4, <1>5, ReaderStep

\* The steps of the system, by kind.
Steps ==
  \/ \E s \in Outputs : consolewrite(s)
  \/ Intr /\ KbdOK'
  \/ \E p \in Procs : \/ \E n \in ReadSizes : consoleread(p, n)
                      \/ Reader(p) \/ kill(p)

\* Every step is one of them.
LEMMA NextSteps ==
  ASSUME ConsoleInv, Next
  PROVE  Steps
<1>1. load.readers \subseteq Procs /\ load.killed \subseteq Procs
  BY InvParts, Load
<1>2. CASE \E s \in Outputs : consolewrite(s)
  BY <1>2 DEF Steps
<1>3. CASE \E k \in load.keys, up \in BOOLEAN : Key(k, up)
  BY <1>3, KeyInv DEF Steps
<1>4. CASE SecondByte
  BY <1>4, ByteInv DEF Steps
<1>5. CASE \E c \in load.serial : uartintr(c)
  BY <1>5, UartInv DEF Steps
<1>6. CASE \E p \in load.readers : (\E n \in ReadSizes : consoleread(p, n)) \/ Reader(p)
  BY <1>1, <1>6 DEF Steps
<1>7. CASE \E p \in load.killed : kill(p)
  BY <1>1, <1>7 DEF Steps
<1> QED
  BY <1>2, <1>3, <1>4, <1>5, <1>6, <1>7 DEF Next

\* A step, or none, keeps the invariant.
LEMMA InvStep ==
  ASSUME ConsoleInv, [Next]_vars
  PROVE  ConsoleInv'
<1>1. CASE Next
  <2>1. Steps
    BY <1>1, NextSteps
  <2>2. CASE \E s \in Outputs : consolewrite(s)
    BY <2>2, WriteInv
  <2>3. CASE Intr /\ KbdOK'
    BY <2>3, InterruptInv DEF Intr
  <2>4. ASSUME NEW p \in Procs, (\E n \in ReadSizes : consoleread(p, n)) \/ Reader(p) \/ kill(p)
        PROVE  ConsoleInv'
    <3>1. CASE \E n \in ReadSizes : consoleread(p, n)
      BY <3>1, ReadInv
    <3>2. CASE acquire(p)
      BY <3>2, AcquireInv
    <3>3. CASE consoleread_empty(p)
      BY <3>3, EmptyInv
    <3>4. CASE sleep(p)
      BY <3>4, SleepInv
    <3>5. CASE consoleread_getc(p)
      BY <3>5, GetcInv
    <3>6. CASE kill(p)
      BY <3>6, KillInv
    <3> QED
      BY <2>4, <3>1, <3>2, <3>3, <3>4, <3>5, <3>6 DEF Reader
  <2> QED
    BY <2>1, <2>2, <2>3, <2>4 DEF Steps
<1>2. CASE UNCHANGED vars
  <2>1. /\ input' = input /\ pos' = pos /\ lock' = lock /\ th' = th /\ killed' = killed
        /\ UNCHANGED kbdVars /\ load' = load
    BY <1>2 DEF vars, kbdVars
  <2>2. /\ InputOK /\ CursorOnScreen /\ ReadersOK /\ SleepersHaveNothing /\ KbdOK
        /\ killed \subseteq Procs /\ load \in Workloads
    BY InvParts
  <2>3. InputOK' /\ CursorOnScreen'
    BY <2>1, <2>2, SameInput
  <2>4. ReadersOK'
    BY <2>1, <2>2, SameReaders
  <2>5. SleepersHaveNothing'
    BY <2>1, <2>2 DEF SleepersHaveNothing
  <2>6. KbdOK'
    BY <2>1, <2>2, SameKeyboard
  <2> QED
    BY <2>1, <2>2, <2>3, <2>4, <2>5, <2>6, InvMade
<1> QED
  BY <1>1, <1>2

\* The initial input: an empty ring.
LEMMA InitInput ==
  ASSUME Init
  PROVE  input \in InputType /\ RingAt(input, 0, 0)
<1>1. input = [buf |-> [i \in 0..INPUT_BUF - 1 |-> "NUL"], r |-> 0, w |-> 0, e |-> 0]
  BY DEF Init
<1>2. [i \in 0..INPUT_BUF - 1 |-> "NUL"] \in Buffers
  BY DEF Buffers, Symbols
<1>3. input \in InputType
  BY <1>1, <1>2, RingSizes, InputMade
<1>4. (0 + 0) % UINT = 0
  <2>1. 0 % UINT = 0 /\ 0 + 0 = 0
    BY RingSizes, ModSmall
  <2> QED
    BY <2>1
<1>5. RingAt(input, 0, 0)
  BY <1>1, <1>4, RingSizes DEF RingAt
<1> QED
  BY <1>3, <1>5

\* The initial states.
LEMMA InvInit ==
  ASSUME Init
  PROVE  ConsoleInv
<1>1. input \in InputType /\ Sound(input) /\ FullCommitted(input)
  BY InitInput, RingKept
<1>2. RingSound /\ FullIsCommitted
  BY <1>1 DEF Sound, FullCommitted, RingSound, FullIsCommitted, Used
<1>3. \A p \in Procs : th[p] = Idle
  BY DEF Init
<1>4. Idle \in ReadType /\ Idle.n = 0 /\ Idle.target = 0 /\ Idle.pc = "idle"
  BY DEF Idle, ReadType, Chars
<1>5. th \in [Procs -> ReadType]
  BY <1>4 DEF Init
<1>6. /\ lock = 0 /\ killed = {} /\ shift = {} /\ held = {} /\ pend = NoByte
      /\ load \in Workloads /\ pos \in 0..ROWS * COLS - 1
  BY DEF Init
<1>7. \A p \in Procs : /\ th[p].n <= th[p].target
                       /\ th[p].pc # "idle" => th[p].n >= 1
                       /\ lock = p <=> th[p].pc \in {"loop", "tosleep"}
  BY <1>3, <1>4, <1>6 DEF Procs
<1>8. TypeOK
  BY <1>1, <1>5, <1>6, <1>7 DEF TypeOK
<1>9. CursorOnScreen /\ NoStuckModifier
  BY <1>6 DEF CursorOnScreen, NoStuckModifier
<1>10. SleepersHaveNothing
  BY <1>3, <1>4 DEF SleepersHaveNothing
<1> QED
  BY <1>2, <1>8, <1>9, <1>10 DEF ConsoleInv, HandlersInv

\* The inductive invariant always holds.
LEMMA ConsoleInvariant == Spec => []ConsoleInv
<1>1. Init => ConsoleInv
  BY InvInit
<1>2. ConsoleInv /\ [Next]_vars => ConsoleInv'
  BY InvStep
<1> QED
  BY <1>1, <1>2, PTL DEF Spec

\* The interrupt handlers of console.c and kbd.c keep the cursor on the screen, the
\* indexes of input in order with a full buffer readable, cons.lock with exactly
\* the reader that is inside, and no modifier key in effect that is not held, for
\* every size of buffer and screen and any use of keys and serial port.
THEOREM ConsoleHandlers == Spec => []HandlersInv
<1>1. ConsoleInv => HandlersInv
  BY DEF ConsoleInv
<1> QED
  BY <1>1, ConsoleInvariant, PTL

\* No wakeup of consoleread() is missed: with any number of readers, killed or not,
\* none sleeps or is about to while a committed line is there to be read.
THEOREM ConsoleSleepers == Spec => []SleepersHaveNothing
<1>1. ConsoleInv => SleepersHaveNothing
  BY DEF ConsoleInv
<1> QED
  BY <1>1, ConsoleInvariant, PTL

-----------------------------------------------------------------------------
(* Console implements Terminal: what Terminal sees of a state. *)

AReady == Ring(input.r, input.w)
AEdit == Ring(input.w, input.e)
Call(t) == [busy |-> t.pc # "idle", size |-> t.target, count |-> t.target - t.n, last |-> t.c]
ARet == [p \in Procs |-> Call(th[p])]

\* The record of Terminal for the call of a process.
CallIs(r, b, z, m, l) == r = [busy |-> b, size |-> z, count |-> m, last |-> l]

\* A process in its call and out of it.
LEMMA CallFacts ==
  ASSUME NEW t
  PROVE  /\ t.pc # "idle" => CallIs(Call(t), TRUE, t.target, t.target - t.n, t.c)
         /\ t.pc = "idle" => CallIs(Call(t), FALSE, t.target, t.target - t.n, t.c)
<1>1. ASSUME t.pc # "idle" PROVE CallIs(Call(t), TRUE, t.target, t.target - t.n, t.c)
  <2>1. (t.pc # "idle") = TRUE
    BY <1>1
  <2> QED
    BY <2>1, Zenon DEF Call, CallIs
<1>2. ASSUME t.pc = "idle" PROVE CallIs(Call(t), FALSE, t.target, t.target - t.n, t.c)
  <2>1. (t.pc # "idle") = FALSE
    BY <1>2
  <2> QED
    BY <2>1, Zenon DEF Call, CallIs
<1> QED
  BY <1>1, <1>2

\* Its fields, in a call.
LEMMA CallFields ==
  ASSUME NEW r, NEW z, NEW m, NEW l, CallIs(r, TRUE, z, m, l)
  PROVE  r.busy /\ r.size = z /\ r.count = m
<1>1. r = [busy |-> TRUE, size |-> z, count |-> m, last |-> l]
  BY DEF CallIs
<1>2. r.busy
  BY <1>1
<1>3. r.size = z /\ r.count = m
  BY <1>1
<1> QED
  BY <1>2, <1>3

\* A call that goes on.
LEMMA CallBusy ==
  ASSUME NEW r, NEW z, NEW m, NEW l, CallIs(r, TRUE, z, m, l)
  PROVE  r.busy
<1> QED
  BY CallFields, Zenon

\* The record after the end of a call.
LEMMA CallEnds ==
  ASSUME NEW r, NEW b, NEW z, NEW m, NEW l, CallIs(r, b, z, m, l), NEW y
  PROVE  CallIs([r EXCEPT !.busy = y], y, z, m, l)
<1>1. r = [busy |-> b, size |-> z, count |-> m, last |-> l]
  BY DEF CallIs
<1>2. PICK r2 : r2 = [r EXCEPT !.busy = y]
  OBVIOUS
<1>3. r2 = [busy |-> y, size |-> z, count |-> m, last |-> l]
  BY <1>1, <1>2
<1> QED
  BY <1>2, <1>3 DEF CallIs

\* The record after a character.
LEMMA CallGets ==
  ASSUME NEW r, NEW b, NEW z, NEW m, NEW l, CallIs(r, b, z, m, l), NEW y, NEW k, NEW c
  PROVE  CallIs([r EXCEPT !.count = k, !.last = c, !.busy = y], y, z, k, c)
<1>1. r = [busy |-> b, size |-> z, count |-> m, last |-> l]
  BY DEF CallIs
<1>2. PICK r2 : r2 = [r EXCEPT !.count = k, !.last = c, !.busy = y]
  OBVIOUS
<1>3. r2 = [busy |-> y, size |-> z, count |-> k, last |-> c]
  BY <1>1, <1>2
<1> QED
  BY <1>2, <1>3 DEF CallIs

\* A step of Terminal, or none.
AStep == [LineDiscipline!Next]_(LineDiscipline!vars)

\* Nothing that Terminal sees changes.
LEMMA AStutter ==
  ASSUME AReady' = AReady, AEdit' = AEdit, ARet' = ARet, killed' = killed
  PROVE  AStep
  BY DEF AStep, AReady, AEdit, ARet, Call, LineDiscipline!vars

\* A character is typed.
LEMMA AType ==
  ASSUME NEW d \in Chars, Len(AReady) + Len(AEdit) < INPUT_BUF,
         ARet' = ARet, killed' = killed,
         NEW commit \in BOOLEAN,
         commit <=> (d \in {"NL", "EOF"} \/ Len(AReady) + Len(Append(AEdit, d)) = INPUT_BUF),
         commit => AReady' = AReady \o Append(AEdit, d) /\ AEdit' = <<>>,
         ~commit => AEdit' = Append(AEdit, d) /\ AReady' = AReady
  PROVE  AStep
<1>1. LineDiscipline!Type(d)
  BY DEF AReady, AEdit, ARet, Call, LineDiscipline!Type, LineDiscipline!Full
<1> QED
  BY <1>1 DEF AStep, LineDiscipline!Next

\* The line that is typed is erased, or its last character.
LEMMA AErase ==
  ASSUME AReady' = AReady, ARet' = ARet, killed' = killed,
         \/ AEdit' = <<>>
         \/ AEdit # <<>> /\ AEdit' = SubSeq(AEdit, 1, Len(AEdit) - 1)
  PROVE  AStep
<1>1. LineDiscipline!Erase \/ LineDiscipline!EraseLine
  BY DEF AReady, AEdit, ARet, Call, LineDiscipline!Erase, LineDiscipline!EraseLine
<1> QED
  BY <1>1 DEF AStep, LineDiscipline!Next

\* A read starts.
LEMMA AStart ==
  ASSUME NEW p \in Procs, NEW n \in ReadSizes, ~ARet[p].busy,
         ARet' = [ARet EXCEPT ![p] = [busy |-> TRUE, size |-> n, count |-> 0, last |-> "NL"]],
         AReady' = AReady, AEdit' = AEdit, killed' = killed
  PROVE  AStep
<1>1. LineDiscipline!Start(p, n)
  BY DEF AReady, AEdit, ARet, Call, LineDiscipline!Start
<1> QED
  BY <1>1 DEF AStep, LineDiscipline!Next

\* A read gets a character.
LEMMA AGet ==
  ASSUME NEW p \in Procs, NEW c, c = Head(AReady), c # "EOF", AReady # <<>>,
         ARet[p].busy, NEW m, m = ARet[p].count + 1, NEW y, y = (m < ARet[p].size /\ c # "NL"),
         ARet' = [ARet EXCEPT ![p] = [ARet[p] EXCEPT !.count = m, !.last = c, !.busy = y]],
         AReady' = Tail(AReady), AEdit' = AEdit, killed' = killed
  PROVE  AStep
<1>1. LineDiscipline!Get(p)
  BY DEF AReady, AEdit, ARet, Call, LineDiscipline!Get
<1> QED
  BY <1>1 DEF AStep, LineDiscipline!Next

\* A read comes upon the end-of-file mark.
LEMMA AEnd ==
  ASSUME NEW p \in Procs, ARet[p].busy, ARet' = [ARet EXCEPT ![p].busy = FALSE], AEdit' = AEdit,
         AReady # <<>>, Head(AReady) = "EOF", killed' = killed,
         AReady' = IF ARet[p].count = 0 THEN Tail(AReady) ELSE AReady
  PROVE  AStep
<1>1. LineDiscipline!End(p)
  BY DEF AReady, AEdit, ARet, Call, LineDiscipline!End
<1> QED
  BY <1>1 DEF AStep, LineDiscipline!Next

\* A reader is killed.
LEMMA AKill ==
  ASSUME NEW p \in Procs, p \notin killed, killed' = killed \union {p},
         AReady' = AReady, AEdit' = AEdit, ARet' = ARet
  PROVE  AStep
<1>1. LineDiscipline!Kill(p)
  BY DEF AReady, AEdit, ARet, Call, LineDiscipline!Kill
<1> QED
  BY <1>1 DEF AStep, LineDiscipline!Next

\* A reader gives up because it was killed.
LEMMA AAbort ==
  ASSUME NEW p \in Procs, ARet[p].busy, ARet' = [ARet EXCEPT ![p].busy = FALSE],
         p \in killed, killed' = killed, AReady = <<>>, AReady' = AReady, AEdit' = AEdit
  PROVE  AStep
<1>1. LineDiscipline!Abort(p)
  BY DEF AReady, AEdit, ARet, Call, LineDiscipline!Abort
<1> QED
  BY <1>1 DEF AStep, LineDiscipline!Next

\* The calls that Terminal sees, when one process changes.
LEMMA CallOne ==
  ASSUME ReadersOK, NEW p \in Procs, NEW t, th' = [th EXCEPT ![p] = t]
  PROVE  ARet' = [ARet EXCEPT ![p] = Call(t)] /\ ARet[p] = Call(th[p])
<1>1. DOMAIN th = Procs
  BY DEF ReadersOK
<1>2. \A q \in Procs : th'[q] = IF q = p THEN t ELSE th[q]
  BY <1>1
<1>3. ARet' = [q \in Procs |-> Call(th'[q])]
  BY DEF ARet, Call
<1>4. [ARet EXCEPT ![p] = Call(t)] = [q \in Procs |-> IF q = p THEN Call(t) ELSE Call(th[q])]
  BY DEF ARet
<1>5. \A q \in Procs : Call(th'[q]) = IF q = p THEN Call(t) ELSE Call(th[q])
  BY <1>2
<1>6. ARet' = [ARet EXCEPT ![p] = Call(t)]
  BY <1>3, <1>4, <1>5
<1>7. ARet[p] = Call(th[p])
  BY DEF ARet
<1> QED
  BY <1>6, <1>7

\* The calls do not change when only the place in a call does.
LEMMA CallsSame ==
  ASSUME \A q \in Procs : /\ th'[q].n = th[q].n /\ th'[q].target = th[q].target
                          /\ th'[q].c = th[q].c /\ (th'[q].pc = "idle" <=> th[q].pc = "idle")
  PROVE  ARet' = ARet
<1>1. \A q \in Procs : Call(th'[q]) = Call(th[q])
  BY DEF Call
<1>2. ARet' = [q \in Procs |-> Call(th'[q])]
  BY DEF ARet, Call
<1> QED
  BY <1>1, <1>2 DEF ARet

\* One process moves inside its call.
LEMMA CallMoves ==
  ASSUME ReadersOK, NEW p \in Procs, NEW x, th' = [th EXCEPT ![p].pc = x],
         x = "idle" <=> th[p].pc = "idle"
  PROVE  ARet' = ARet
<1>1. DOMAIN th = Procs /\ th[p] \in ReadType
  BY DEF ReadersOK, ReaderOK
<1>2. th'[p] = [th[p] EXCEPT !.pc = x] /\ \A q \in Procs : q # p => th'[q] = th[q]
  BY <1>1
<1>3. /\ th'[p].n = th[p].n /\ th'[p].target = th[p].target /\ th'[p].c = th[p].c
      /\ th'[p].pc = x
  BY <1>1, <1>2 DEF ReadType
<1> QED
  BY <1>2, <1>3, CallsSame

\* The characters that Terminal sees.
LEMMA SeenRuns ==
  ASSUME NEW a, NEW b, input \in InputType, RingAt(input, a, b)
  PROVE  AReady = Run(input.buf, input.r, a) /\ AEdit = Run(input.buf, input.w, b - a)
<1>1. Span(input.r, input.w) = a /\ Span(input.w, input.e) = b - a
  BY RingSpans
<1> QED
  BY <1>1 DEF AReady, AEdit, Ring, Run

\* The characters that Terminal sees after a step.
LEMMA SeenAfter ==
  ASSUME NEW a, NEW b, input' \in InputType, RingAt(input', a, b)
  PROVE  /\ AReady' = Run(input'.buf, input'.r, a)
         /\ AEdit' = Run(input'.buf, input'.w, b - a)
<1>1. PICK i : i = input'
  OBVIOUS
<1>2. Span(i.r, i.w) = a /\ Span(i.w, i.e) = b - a
  BY <1>1, RingSpans
<1>3. /\ AReady' = Run(i.buf, i.r, Span(i.r, i.w))
      /\ AEdit' = Run(i.buf, i.w, Span(i.w, i.e))
  BY <1>1 DEF AReady, AEdit, Ring, Run, Span
<1> QED
  BY <1>1, <1>2, <1>3

\* Input that does not change.
LEMMA SeenSame ==
  ASSUME input' = input
  PROVE  AReady' = AReady /\ AEdit' = AEdit
  BY DEF AReady, AEdit, Ring, Span

\* An interrupt types or erases.
LEMMA IntrRefines ==
  ASSUME ConsoleInv, NEW c \in Chars \union Controls, consoleintr(c)
  PROVE  AStep
<1>1. InputOK /\ ReadersOK
  BY InvParts
<1>2. PICK a, b : RingAt(input, a, b)
  BY <1>1, RingView DEF InputOK
<1>3. input \in InputType /\ a \in Nat /\ b \in Nat /\ a <= b /\ b - a \in Nat
  BY <1>1, <1>2 DEF InputOK, RingAt
<1>4. lock = 0 /\ lock' = lock /\ killed' = killed
  BY DEF consoleintr
<1>5. AReady = Run(input.buf, input.r, a) /\ AEdit = Run(input.buf, input.w, b - a)
  BY <1>2, <1>3, SeenRuns
<1>6. input.buf \in Buffers /\ input.r \in Nat /\ input.w \in Nat
  BY <1>3, InputParts
<1>7. Len(AReady) = a /\ Len(AEdit) = b - a /\ AEdit \in Seq(Symbols)
  BY <1>3, <1>5, <1>6, RunSeq
<1>8. CASE Quiet
  <2>1. AReady' = AReady /\ AEdit' = AEdit
    BY <1>8, SeenSame DEF Quiet
  <2>2. ARet' = ARet
    BY <1>8 DEF Quiet, ARet, Call
  <2> QED
    BY <1>4, <2>1, <2>2, AStutter
<1>9. ASSUME NEW n \in Nat, n <= b - a, n = b - a \/ n = 1, Erases(n)
      PROVE  AStep
  <2>1. /\ input' \in InputType /\ RingAt(input', a, b - n)
        /\ input'.buf = input.buf /\ input'.r = input.r /\ input'.w = input.w
    BY <1>2, <1>3, <1>9, RingErased DEF Erases
  <2>2. /\ AReady' = Run(input.buf, input.r, a)
        /\ AEdit' = Run(input.buf, input.w, (b - n) - a)
    BY <2>1, SeenAfter
  <2>3. ARet' = ARet
    BY <1>9 DEF Erases, ARet, Call
  <2>4. CASE n = b - a
    <3>1. (b - n) - a = 0
      BY <1>3, <2>4
    <3>2. AEdit' = <<>>
      BY <1>6, <2>2, <3>1, RunEmpty
    <3> QED
      BY <1>4, <1>5, <2>2, <2>3, <3>2, AErase
  <2>5. CASE n = 1
    <3>1. PICK m \in Nat : m = b - a /\ m > 0 /\ (b - n) - a = m - 1
      BY <1>3, <1>9, <2>5
    <3>2. PICK g \in Buffers, f \in Nat : g = input.buf /\ f = input.w
      BY <1>6
    <3>3. SubSeq(Run(g, f, m), 1, m - 1) = Run(g, f, m - 1)
      BY <3>1, RunFront
    <3>4. Run(g, f, m) # <<>>
      BY <3>1, RunEmpty
    <3>5. AEdit = Run(g, f, m) /\ AEdit' = Run(g, f, m - 1) /\ Len(AEdit) = m
      BY <1>5, <1>7, <2>2, <3>1, <3>2
    <3>6. AEdit # <<>> /\ AEdit' = SubSeq(AEdit, 1, Len(AEdit) - 1)
      BY <3>3, <3>4, <3>5
    <3> QED
      BY <1>4, <1>5, <2>2, <2>3, <3>6, AErase
  <2> QED
    BY <1>9, <2>4, <2>5
<1>10. ASSUME b < INPUT_BUF, NEW d \in Chars, NEW commit \in BOOLEAN, Stores(d, commit),
              commit <=> (d \in {"NL", "EOF"} \/ b + 1 = INPUT_BUF)
       PROVE  AStep
  <2>1. /\ input' \in InputType
        /\ RingAt(input', IF commit THEN b + 1 ELSE a, b + 1)
        /\ Typed(input, a, b, d, commit, input')
    BY <1>2, <1>3, <1>10, RingStored DEF Stores
  <2>2. d \in Symbols
    BY DEF Symbols
  <2>3. Len(Append(AEdit, d)) = b - a + 1
    BY <1>7, <2>2, AppendProperties
  <2>4. Len(AReady) + Len(AEdit) = b /\ Len(AReady) + Len(Append(AEdit, d)) = b + 1
    BY <1>3, <1>7, <2>3
  <2>5. CASE commit
    <3>1. RingAt(input', b + 1, b + 1) /\ (b + 1) - (b + 1) = 0
      BY <1>3, <2>1, <2>5
    <3>2. AReady' = Run(input'.buf, input'.r, b + 1) /\ AEdit' = Run(input'.buf, input'.w, 0)
      BY <2>1, <3>1, SeenAfter
    <3>3. AReady' = AReady \o Append(AEdit, d) /\ AEdit' = <<>>
      BY <1>5, <2>1, <2>5, <3>2 DEF Typed
    <3>4. ARet' = ARet
      BY <1>1, <1>4, <1>10, <2>5, WokenReaders, CallsSame DEF Stores
    <3> QED
      BY <1>4, <1>10, <2>4, <2>5, <3>3, <3>4, AType
  <2>6. CASE ~commit
    <3>1. RingAt(input', a, b + 1) /\ (b + 1) - a = b - a + 1
      BY <1>3, <2>1, <2>6
    <3>2. AReady' = Run(input'.buf, input'.r, a) /\ AEdit' = Run(input'.buf, input'.w, b - a + 1)
      BY <2>1, <3>1, SeenAfter
    <3>3. AEdit' = Append(AEdit, d) /\ AReady' = AReady
      BY <1>5, <2>1, <2>6, <3>2 DEF Typed
    <3>4. ARet' = ARet
      BY <1>10, <2>6 DEF Stores, ARet, Call
    <3> QED
      BY <1>4, <1>10, <2>4, <2>6, <3>3, <3>4, AType
  <2> QED
    BY <2>5, <2>6
<1>11. b - a <= b - a /\ (b - a >= 1 => 1 <= b - a)
  BY <1>3
<1> QED
  BY <1>2, <1>3, <1>8, <1>9, <1>10, <1>11, IntrCases

\* A reader takes what is ready, and the rest of consoleread() cannot be seen.
LEMMA GetcRefines ==
  ASSUME ConsoleInv, NEW p \in Procs, consoleread_getc(p)
  PROVE  AStep
<1>1. PICK c, t : c = input.buf[input.r % INPUT_BUF] /\ t = Got(th[p], c)
  OBVIOUS
<1>2. ReaderOK(th[p]) /\ InputOK /\ ReadersOK
  BY ReaderFacts, InvParts
<1>3. /\ th[p].pc = "loop" /\ input.r # input.w /\ th' = [th EXCEPT ![p] = t]
      /\ input' = IF c = "EOF" /\ th[p].n < th[p].target THEN input
                  ELSE [input EXCEPT !.r = (input.r + 1) % UINT]
      /\ killed' = killed
  <2>1. th[p] \in ReadType
    BY <1>2 DEF ReaderOK
  <2> QED
    BY <1>1, <2>1, GetcStep
<1>4. PICK a, b : RingAt(input, a, b) /\ a > 0 /\ input \in InputType
  <2>1. PICK a, b : RingAt(input, a, b) /\ input \in InputType
    BY <1>2, RingView DEF InputOK
  <2>2. a # 0 /\ a \in Nat
    BY <1>3, <2>1, RingNothing DEF RingAt
  <2> QED
    BY <2>1, <2>2
<1>5. AReady = Run(input.buf, input.r, a) /\ AEdit = Run(input.buf, input.w, b - a)
  BY <1>4, SeenRuns
<1>6. Head(AReady) = c /\ AReady # <<>> /\ c \in Symbols
  BY <1>1, <1>4, <1>5, RingHead
<1>7. ASSUME input' = [input EXCEPT !.r = (input.r + 1) % UINT]
      PROVE  AReady' = Tail(AReady) /\ AEdit' = AEdit
  <2>1. /\ input' \in InputType /\ RingAt(input', a - 1, b - 1)
        /\ input'.buf = input.buf /\ input'.w = input.w
        /\ Run(input'.buf, input'.r, a - 1) = Tail(Run(input.buf, input.r, a))
    BY <1>4, <1>7, RingTaken
  <2>2. /\ AReady' = Run(input'.buf, input'.r, a - 1)
        /\ AEdit' = Run(input'.buf, input'.w, (b - 1) - (a - 1))
    BY <2>1, SeenAfter
  <2>3. (b - 1) - (a - 1) = b - a
    BY <1>4 DEF RingAt
  <2> QED
    BY <1>5, <2>1, <2>2, <2>3
<1>8. /\ th[p].n \in Nat /\ th[p].target \in Nat /\ th[p].n >= 1 /\ th[p].n <= th[p].target
  BY <1>2, <1>3 DEF ReaderOK, ReadType
<1>9. /\ t.target = th[p].target
      /\ c = "EOF" => t.n = th[p].n /\ t.c = th[p].c /\ t.pc = "idle"
      /\ c # "EOF" => /\ t.n = th[p].n - 1 /\ t.c = c
                      /\ t.pc = "idle" <=> (c = "NL" \/ th[p].n - 1 = 0)
  BY <1>1, <1>2, <1>3, <1>6, GotFacts
<1>10. ARet' = [ARet EXCEPT ![p] = Call(t)] /\ ARet[p] = Call(th[p])
  BY <1>2, <1>3, CallOne
<1>11. /\ CallIs(ARet[p], TRUE, th[p].target, th[p].target - th[p].n, th[p].c)
       /\ ARet[p].busy /\ ARet[p].size = th[p].target /\ ARet[p].count = th[p].target - th[p].n
  <2>1. CallIs(ARet[p], TRUE, th[p].target, th[p].target - th[p].n, th[p].c)
    BY <1>3, <1>10, CallFacts
  <2>2. ARet[p].busy
    BY <2>1, CallBusy, Zenon
  <2>3. ARet[p].size = th[p].target /\ ARet[p].count = th[p].target - th[p].n
    BY <2>1, CallFields
  <2> QED
    BY <2>1, <2>2, <2>3
<1>12. CASE c = "EOF"
  <2>1. Call(t) = [ARet[p] EXCEPT !.busy = FALSE]
    <3>1. CallIs(Call(t), FALSE, t.target, t.target - t.n, t.c)
      BY <1>9, <1>12, CallFacts
    <3>2. CallIs([ARet[p] EXCEPT !.busy = FALSE], FALSE, t.target, t.target - t.n, t.c)
      BY <1>9, <1>11, <1>12, CallEnds
    <3> QED
      BY <3>1, <3>2 DEF CallIs
  <2>2. ARet' = [ARet EXCEPT ![p].busy = FALSE]
    BY <1>10, <2>1
  <2>3. CASE th[p].n < th[p].target
    <3>1. input' = input /\ ARet[p].count # 0
      BY <1>3, <1>8, <1>11, <1>12, <2>3
    <3>2. AReady' = AReady /\ AEdit' = AEdit
      BY <3>1, SeenSame
    <3> QED
      BY <1>3, <1>6, <1>11, <1>12, <2>2, <3>1, <3>2, AEnd
  <2>4. CASE ~(th[p].n < th[p].target)
    <3>1. input' = [input EXCEPT !.r = (input.r + 1) % UINT] /\ ARet[p].count = 0
      BY <1>3, <1>8, <1>11, <1>12, <2>4
    <3> QED
      BY <1>3, <1>6, <1>7, <1>11, <1>12, <2>2, <3>1, AEnd
  <2> QED
    BY <2>3, <2>4
<1>13. CASE c # "EOF"
  <2>1. AReady' = Tail(AReady) /\ AEdit' = AEdit
    BY <1>3, <1>7, <1>13
  <2>2. PICK m \in Nat : m = ARet[p].count + 1 /\ m = th[p].target - (th[p].n - 1)
    BY <1>8, <1>11
  <2>3. t.pc # "idle" <=> m < th[p].target /\ c # "NL"
    BY <1>8, <1>9, <1>13, <2>2
  <2>4. PICK y \in BOOLEAN : y = (m < th[p].target /\ c # "NL") /\ y = (t.pc # "idle")
    BY <2>3
  <2>5. CallIs(Call(t), y, th[p].target, m, c)
    <3>1. t.target - t.n = m /\ t.target = th[p].target /\ t.c = c
      BY <1>9, <1>13, <2>2
    <3>2. CASE t.pc = "idle"
      <4>1. y = FALSE
        BY <2>4, <3>2
      <4> QED
        BY <3>1, <3>2, <4>1, CallFacts
    <3>3. CASE t.pc # "idle"
      <4>1. y = TRUE
        BY <2>4, <3>3
      <4> QED
        BY <3>1, <3>3, <4>1, CallFacts
    <3> QED
      BY <3>2, <3>3
  <2>6. Call(t) = [ARet[p] EXCEPT !.count = m, !.last = c, !.busy = y]
    <3>1. CallIs([ARet[p] EXCEPT !.count = m, !.last = c, !.busy = y], y, th[p].target, m, c)
      BY <1>11, CallGets
    <3> QED
      BY <2>5, <3>1 DEF CallIs
  <2>7. ARet' = [ARet EXCEPT ![p] = [ARet[p] EXCEPT !.count = m, !.last = c, !.busy = y]]
    BY <1>10, <2>6
  <2>8. y = (m < ARet[p].size /\ c # "NL")
    BY <1>11, <2>4
  <2> QED
    BY <1>3, <1>6, <1>11, <1>13, <2>1, <2>2, <2>7, <2>8, AGet
<1> QED
  BY <1>12, <1>13

\* The other steps of a reader.
LEMMA ReaderRefines ==
  ASSUME ConsoleInv, NEW p \in Procs,
         (\E n \in ReadSizes : consoleread(p, n)) \/ Reader(p) \/ kill(p)
  PROVE  AStep
<1>1. InputOK /\ ReadersOK
  BY InvParts
<1>2. CASE \E n \in ReadSizes : consoleread(p, n)
  <2>1. PICK n \in ReadSizes : consoleread(p, n)
    BY <1>2
  <2>2. PICK t : t = [pc |-> "acquire", n |-> n, target |-> n, c |-> "NL"]
    OBVIOUS
  <2>3. th[p].pc = "idle" /\ th' = [th EXCEPT ![p] = t] /\ input' = input /\ killed' = killed
    BY <2>1, <2>2 DEF consoleread
  <2>4. n \in Nat
    BY ConsoleAssumption
  <2>5. Call(t) = [busy |-> TRUE, size |-> n, count |-> 0, last |-> "NL"]
    <3>1. t.pc # "idle" /\ t.target = n /\ t.target - t.n = 0 /\ t.c = "NL"
      BY <2>2, <2>4
    <3> QED
      BY <3>1, CallFacts DEF CallIs
  <2>6. ARet' = [ARet EXCEPT ![p] = Call(t)] /\ ARet[p] = Call(th[p])
    BY <1>1, <2>3, CallOne
  <2>7. ~ARet[p].busy
    BY <2>3, <2>6, CallFacts DEF CallIs
  <2>8. AReady' = AReady /\ AEdit' = AEdit
    BY <2>3, SeenSame
  <2> QED
    BY <2>3, <2>5, <2>6, <2>7, <2>8, AStart
<1>3. CASE acquire(p)
  <2>1. /\ th' = [th EXCEPT ![p].pc = "loop"] /\ th[p].pc = "acquire"
        /\ input' = input /\ killed' = killed
    BY <1>3 DEF acquire
  <2> QED
    BY <1>1, <2>1, CallMoves, SeenSame, AStutter
<1>4. CASE consoleread_empty(p)
  <2>1. th[p].pc = "loop" /\ input' = input /\ killed' = killed /\ input.r = input.w
    BY <1>4 DEF consoleread_empty
  <2>2. AReady' = AReady /\ AEdit' = AEdit
    BY <2>1, SeenSame
  <2>3. CASE p \in killed
    <3>1. PICK t : t = [th[p] EXCEPT !.pc = "idle"]
      OBVIOUS
    <3>2. th' = [th EXCEPT ![p] = t]
      BY <1>4, <2>3, <3>1 DEF consoleread_empty
    <3>3. ARet' = [ARet EXCEPT ![p] = Call(t)] /\ ARet[p] = Call(th[p])
      BY <1>1, <3>2, CallOne
    <3>4. th[p] \in ReadType
      BY <1>1 DEF ReadersOK, ReaderOK
    <3>5. t.n = th[p].n /\ t.target = th[p].target /\ t.c = th[p].c /\ t.pc = "idle"
      BY <3>1, <3>4 DEF ReadType
    <3>6. Call(t) = [ARet[p] EXCEPT !.busy = FALSE] /\ ARet[p].busy
      <4>1. CallIs(ARet[p], TRUE, th[p].target, th[p].target - th[p].n, th[p].c)
        BY <2>1, <3>3, CallFacts
      <4>2. CallIs(Call(t), FALSE, th[p].target, th[p].target - th[p].n, th[p].c)
        BY <3>5, CallFacts
      <4>3. CallIs([ARet[p] EXCEPT !.busy = FALSE], FALSE, th[p].target,
                   th[p].target - th[p].n, th[p].c)
        BY <4>1, CallEnds
      <4>4. ARet[p].busy
        BY <4>1, CallBusy, Zenon
      <4> QED
        BY <4>2, <4>3, <4>4 DEF CallIs
    <3>7. ARet' = [ARet EXCEPT ![p].busy = FALSE]
      BY <3>3, <3>6
    <3>8. AReady = <<>>
      <4>1. PICK a, b : RingAt(input, a, b) /\ input \in InputType
        BY <1>1, RingView DEF InputOK
      <4>2. a = 0 /\ AReady = Run(input.buf, input.r, a)
        BY <2>1, <4>1, RingNothing, SeenRuns
      <4>3. input.buf \in Buffers /\ input.r \in Nat
        BY <4>1, InputParts
      <4> QED
        BY <4>2, <4>3, RunEmpty
    <3> QED
      BY <2>1, <2>2, <2>3, <3>6, <3>7, <3>8, AAbort
  <2>4. CASE p \notin killed
    <3>1. th' = [th EXCEPT ![p].pc = "tosleep"]
      BY <1>4, <2>4 DEF consoleread_empty
    <3>2. ARet' = ARet
      BY <1>1, <2>1, <3>1, CallMoves
    <3> QED
      BY <2>1, <2>2, <3>2, AStutter
  <2> QED
    BY <2>3, <2>4
<1>5. CASE sleep(p)
  <2>1. /\ th' = [th EXCEPT ![p].pc = "sleep"] /\ th[p].pc = "tosleep"
        /\ input' = input /\ killed' = killed
    BY <1>5 DEF sleep
  <2> QED
    BY <1>1, <2>1, CallMoves, SeenSame, AStutter
<1>6. CASE consoleread_getc(p)
  BY <1>6, GetcRefines
<1>7. CASE kill(p)
  <2>1. PICK x : x = IF th[p].pc = "sleep" THEN "acquire" ELSE th[p].pc
    OBVIOUS
  <2>2. /\ th' = [th EXCEPT ![p].pc = x] /\ input' = input
        /\ p \notin killed /\ killed' = killed \union {p}
    BY <1>7, <2>1 DEF kill
  <2>3. ARet' = ARet
    BY <1>1, <2>1, <2>2, CallMoves
  <2>4. AReady' = AReady /\ AEdit' = AEdit
    BY <2>2, SeenSame
  <2> QED
    BY <2>2, <2>3, <2>4, AKill
<1> QED
  BY <1>2, <1>3, <1>4, <1>5, <1>6, <1>7 DEF Reader

\* Every step is a step of Terminal, or none.
LEMMA StepRefines ==
  ASSUME ConsoleInv, [Next]_vars
  PROVE  AStep
<1>1. CASE Next
  <2>1. Steps
    BY <1>1, NextSteps
  <2>2. CASE \E s \in Outputs : consolewrite(s)
    <3>1. input' = input /\ th' = th /\ killed' = killed
      BY <2>2 DEF consolewrite
    <3>2. ARet' = ARet
      BY <3>1 DEF ARet, Call
    <3> QED
      BY <3>1, <3>2, SeenSame, AStutter
  <2>3. CASE Intr
    BY <2>3, IntrRefines DEF Intr
  <2> QED
    BY <2>1, <2>2, <2>3, ReaderRefines DEF Steps
<1>2. CASE UNCHANGED vars
  <2>1. input' = input /\ th' = th /\ killed' = killed
    BY <1>2 DEF vars
  <2>2. ARet' = ARet
    BY <2>1 DEF ARet, Call
  <2> QED
    BY <2>1, <2>2, SeenSame, AStutter
<1> QED
  BY <1>1, <1>2

\* The ring of console.c with its three indexes, the interrupt handler and the
\* readers implement the line discipline of Terminal: what is typed is read once
\* and in order, an erased character never, C('D') ends exactly one read, and only
\* a killed reader gives up, for every size of the buffer and number of readers.
THEOREM ConsoleTerminal == Spec => TerminalSpec
<1>1. Init => LineDiscipline!Init
  <2> SUFFICES ASSUME Init PROVE LineDiscipline!Init
    OBVIOUS
  <2>1. input \in InputType /\ RingAt(input, 0, 0)
    BY InitInput
  <2>2. AReady = Run(input.buf, input.r, 0) /\ AEdit = Run(input.buf, input.w, 0 - 0)
    BY <2>1, SeenRuns
  <2>3. input.buf \in Buffers /\ input.r \in Nat /\ input.w \in Nat
    BY <2>1, InputParts
  <2>4. AReady = <<>> /\ AEdit = <<>>
    <3>1. 0 - 0 = 0
      OBVIOUS
    <3> QED
      BY <2>2, <2>3, <3>1, RunEmpty
  <2>5. ARet = [p \in Procs |-> [busy |-> FALSE, size |-> 0, count |-> 0, last |-> "NL"]]
    <3>1. \A p \in Procs : th[p] = Idle
      BY DEF Init
    <3>2. Call(Idle) = [busy |-> FALSE, size |-> 0, count |-> 0, last |-> "NL"]
      <4>1. Idle.pc = "idle" /\ Idle.target = 0 /\ Idle.target - Idle.n = 0 /\ Idle.c = "NL"
        BY DEF Idle
      <4> QED
        BY <4>1, CallFacts DEF CallIs
    <3> QED
      BY <3>1, <3>2 DEF ARet
  <2>6. killed = {}
    BY DEF Init
  <2> QED
    BY <2>4, <2>5, <2>6 DEF LineDiscipline!Init, AReady, AEdit, ARet, Call
<1>2. ConsoleInv /\ [Next]_vars => [LineDiscipline!Next]_(LineDiscipline!vars)
  BY StepRefines DEF AStep
<1> QED
  BY <1>1, <1>2, ConsoleInvariant, PTL DEF Spec, TerminalSpec, LineDiscipline!Spec

=============================================================================
