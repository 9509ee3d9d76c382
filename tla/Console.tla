------------------------------ MODULE Console -------------------------------
(***************************************************************************)
(* Console input and output: console.c, the keyboard driver kbd.c, and the *)
(* serial port uart.c.                                                     *)
(*                                                                         *)
(* cons.lock is explicit: a reader holds it from its test of input.r and   *)
(* p->killed to sleep(), and kill() takes only ptable.lock.  An interrupt  *)
(* handles one character per step, since nobody can get in between.        *)
(* Characters and scan codes are names; what is on the screen is left out, *)
(* the cursor is not.                                                      *)
(***************************************************************************)
EXTENDS Integers, Sequences, FiniteSets

CONSTANTS
    NPROC,      \* processes that read
    INPUT_BUF,  \* characters in input.buf
    UINT,       \* r, w and e wrap around at UINT
    COLS, ROWS, \* the screen
    ReadSizes,  \* arguments n of consoleread()
    Outputs,    \* strings that consolewrite() is given
    Workloads   \* [keys, serial, readers, killed]: the keys that are used, the
                \* characters from the serial port, the processes that read
                \* and those of them that are killed

Procs == 1..NPROC

\* What input.buf may hold, the other characters that come in, and the keys: a
\* code, and whether it comes after a byte 0xE0.
Chars == {"d", "D", "NL", "EOF"}
Controls == {"CR", "^U", "^H", "^P", "NUL"}
Keys == {"ctl", "shift", "caps", "d", "enter"} \X BOOLEAN

ASSUME ConsoleAssumption ==
    /\ {NPROC, INPUT_BUF, COLS} \subseteq Nat \ {0} /\ ROWS \in Nat /\ ROWS >= 2
    /\ UINT \in Nat /\ UINT % INPUT_BUF = 0 /\ UINT > INPUT_BUF
    /\ ReadSizes \subseteq Nat \ {0}      \* a read of nothing returns at once
    /\ Outputs \subseteq Seq(STRING)
    /\ \A l \in Workloads :
        /\ l.keys \subseteq Keys /\ l.serial \subseteq Chars \union Controls
        /\ l.readers \subseteq Procs /\ l.killed \subseteq Procs

VARIABLES
    input,   \* buf, r, w, e
    pos,     \* the cursor: col + COLS * row
    lock,    \* the process that holds cons.lock, 0 if none
    th,      \* the consoleread() of every process
    killed,  \* processes with p->killed set
    shift,   \* the static variable of kbdgetc(): a set of flags
    held,    \* keys that are pressed
    pend,    \* the keyboard's byte after an 0xE0
    load     \* the workload

vars == <<input, pos, lock, th, killed, shift, held, pend, load>>
kbdVars == <<shift, held, pend>>

NoByte == [code |-> "none", up |-> FALSE]

\* pc: "idle", "acquire" (wants cons.lock), "loop", "tosleep", "sleep".
\* c: the last character stored in *dst.
Idle == [pc |-> "idle", n |-> 0, target |-> 0, c |-> "NL"]

Init ==
    /\ input = [buf |-> [i \in 0..INPUT_BUF - 1 |-> "NUL"], r |-> 0, w |-> 0, e |-> 0]
    /\ pos \in 0..ROWS * COLS - 1
    /\ lock = 0 /\ th = [p \in Procs |-> Idle] /\ killed = {}
    /\ shift = {} /\ held = {} /\ pend = NoByte
    /\ load \in Workloads

-----------------------------------------------------------------------------
(* Output *)

\* The cursor after a character: the screen is scrolled so that the last row
\* stays free.
cgaputc(p, c) ==
    LET q == CASE c = "NL" -> p + COLS - (p % COLS)
               [] c = "BACKSPACE" -> IF p > 0 THEN p - 1 ELSE p
               [] OTHER -> p + 1
    IN  IF q \div COLS >= ROWS - 1 THEN q - COLS ELSE q

\* consputc() of every character of a string.
consputs(s) ==
    LET put[k \in 0..Len(s)] == IF k = 0 THEN pos ELSE cgaputc(put[k - 1], s[k])
    IN  put[Len(s)]

consolewrite(s) ==
    /\ lock = 0
    /\ pos' = consputs(s)
    /\ UNCHANGED <<input, lock, th, killed, kbdVars, load>>

-----------------------------------------------------------------------------
(* Input *)

\* How far an index of the ring is behind another.
Span(from, to) == (to + UINT - from) % UINT

Used == Span(input.r, input.e)

wakeup == [p \in Procs |-> IF th[p].pc = "sleep" THEN [th[p] EXCEPT !.pc = "acquire"] ELSE th[p]]

\* How many characters C('U') deletes: back to input.w or to a newline.
KillLine ==
    LET n == Span(input.w, input.e)
        At(i) == input.buf[(input.e + UINT - i) % INPUT_BUF]
    IN  CHOOSE k \in 0..n : /\ k = n \/ At(k + 1) = "NL"
                            /\ \A i \in 1..k : At(i) # "NL"

Delete(n) ==
    /\ input' = [input EXCEPT !.e = (@ + UINT - n) % UINT]
    /\ pos' = consputs([i \in 1..n |-> "BACKSPACE"])
    /\ UNCHANGED th

Insert_noWakeup(c) ==
    LET d == IF c = "CR" THEN "NL" ELSE c
        e == (input.e + 1) % UINT
        full == e = (input.r + INPUT_BUF) % UINT
        commit == d \in {"NL", "EOF"} \/ full
    IN  /\ input' = [input EXCEPT !.buf[input.e % INPUT_BUF] = d, !.e = e,
                                  !.w = IF commit THEN e ELSE @]
        /\ pos' = consputs(<<d>>)
        /\ th' = IF commit /\ ~full THEN wakeup ELSE th

\* The default case: a newline, C('D') or a full buffer commits the line.
Insert(c) ==
    LET d == IF c = "CR" THEN "NL" ELSE c
        e == (input.e + 1) % UINT
        commit == d \in {"NL", "EOF"} \/ e = (input.r + INPUT_BUF) % UINT
    IN  /\ input' = [input EXCEPT !.buf[input.e % INPUT_BUF] = d, !.e = e,
                                  !.w = IF commit THEN e ELSE @]
        /\ pos' = consputs(<<d>>)
        /\ th' = IF commit THEN wakeup ELSE th

\* One character.  C('P') prints the processes; NUL is no character.
consoleintr(c) ==
    /\ lock = 0
    /\ CASE c = "^U" -> Delete(KillLine)
         [] c = "^H" -> Delete(IF input.e # input.w THEN 1 ELSE 0)
         [] c \in {"^P", "NUL"} -> UNCHANGED <<input, pos, th>>
         [] OTHER -> IF Used < INPUT_BUF THEN Insert(c) ELSE UNCHANGED <<input, pos, th>>
    /\ UNCHANGED <<lock, killed, load>>

-----------------------------------------------------------------------------
(* The keyboard.  A key is <<code, ext>>: the codes of some keys come after a *)
(* byte 0xE0.                                                                 *)

shiftcode(code, ext) == CASE code = "ctl" -> {"CTL"}
                          [] code = "shift" /\ ~ext -> {"SHIFT"}
                          [] OTHER -> {}

togglecode(code, ext) == IF code = "caps" /\ ~ext THEN {"CAPSLOCK"} ELSE {}

\* normalmap, shiftmap and ctlmap of the keys D and Enter.
charcode(code, ext, s) ==
    CASE code = "d" /\ ~ext -> IF "CTL" \in s THEN "EOF" ELSE IF "SHIFT" \in s THEN "D" ELSE "d"
      [] code = "enter" -> IF "CTL" \in s THEN "CR" ELSE "NL"
      [] OTHER -> "NUL"

Toggle(s, t) == (s \ t) \union (t \ s)

Caps(s, c) == IF "CAPSLOCK" \notin s THEN c
              ELSE CASE c = "d" -> "D" [] c = "D" -> "d" [] OTHER -> c

\* kbdgetc() of a byte that is not 0xE0: the new flags and the character.
kbdgetc_dropE0(code, up) ==
    LET ext == "E0ESC" \in shift
        sh  == (shift \ {"E0ESC"}) \union shiftcode(code, ext)
        new == Toggle(sh, togglecode(code, ext))
    IN  IF up THEN [shift |-> shift \ ((IF ext THEN {} ELSE shiftcode(code, FALSE)) \union {"E0ESC"}), c |-> "NUL"]
        ELSE [shift |-> new, c |-> Caps(new, charcode(code, ext, new))]

kbdgetc(code, up) ==
    LET ext == "E0ESC" \in shift
        sh  == (shift \ {"E0ESC"}) \union shiftcode(code, ext)
        new == Toggle(sh, togglecode(code, ext))
    IN  IF up THEN [shift |-> shift \ (shiftcode(code, ext) \union {"E0ESC"}), c |-> "NUL"]
        ELSE [shift |-> new, c |-> Caps(new, charcode(code, ext, new))]

\* Interrupt: the byte of a key, or the one after 0xE0.
kbdintr(b) ==
    LET g == kbdgetc(b.code, b.up)
    IN  consoleintr(g.c) /\ shift' = g.shift

\* A key is pressed (or repeats), or is released; its first byte arrives.
Key(k, up) ==
    /\ pend = NoByte /\ (up => k \in held)
    /\ held' = IF up THEN held \ {k} ELSE held \union {k}
    /\ IF k[2] THEN /\ shift' = shift \union {"E0ESC"}      \* the byte 0xE0
                    /\ pend' = [code |-> k[1], up |-> up]
                    /\ consoleintr("NUL")
       ELSE /\ kbdintr([code |-> k[1], up |-> up])
            /\ UNCHANGED pend

SecondByte ==
    /\ pend # NoByte
    /\ kbdintr(pend)
    /\ pend' = NoByte
    /\ UNCHANGED held

\* A character from the serial port.
uartintr(c) == consoleintr(c) /\ UNCHANGED kbdVars

-----------------------------------------------------------------------------
(* consoleread() *)

consoleread(p, n) ==
    /\ th[p].pc = "idle"
    /\ th' = [th EXCEPT ![p] = [pc |-> "acquire", n |-> n, target |-> n, c |-> "NL"]]
    /\ UNCHANGED <<input, pos, lock, killed, kbdVars, load>>

acquire(p) ==
    /\ th[p].pc = "acquire" /\ lock = 0
    /\ lock' = p
    /\ th' = [th EXCEPT ![p].pc = "loop"]
    /\ UNCHANGED <<input, pos, killed, kbdVars, load>>

\* No committed input.
consoleread_empty(p) ==
    /\ th[p].pc = "loop" /\ input.r = input.w
    /\ th' = [th EXCEPT ![p].pc = IF p \in killed THEN "idle" ELSE "tosleep"]
    /\ lock' = IF p \in killed THEN 0 ELSE p
    /\ UNCHANGED <<input, pos, killed, kbdVars, load>>

sleep(p) ==
    /\ th[p].pc = "tosleep"
    /\ lock' = 0
    /\ th' = [th EXCEPT ![p].pc = "sleep"]
    /\ UNCHANGED <<input, pos, killed, kbdVars, load>>

consoleread_getc_loseEof(p) ==
    LET c == input.buf[input.r % INPUT_BUF]
        t == th[p]
        n == IF c = "EOF" THEN t.n ELSE t.n - 1
        done == c \in {"EOF", "NL"} \/ n = 0
    IN  /\ t.pc = "loop" /\ input.r # input.w
        /\ input' = [input EXCEPT !.r = (@ + 1) % UINT]
        /\ th' = [th EXCEPT ![p] = [t EXCEPT !.n = n, !.c = IF c = "EOF" THEN @ ELSE c,
                                             !.pc = IF done THEN "idle" ELSE "loop"]]
        /\ lock' = IF done THEN 0 ELSE lock
        /\ UNCHANGED <<pos, killed, kbdVars, load>>

\* The next character.  C('D') stays for the next read if this one has data.
consoleread_getc(p) ==
    LET c == input.buf[input.r % INPUT_BUF]
        t == th[p]
        n == IF c = "EOF" THEN t.n ELSE t.n - 1
        done == c \in {"EOF", "NL"} \/ n = 0
    IN  /\ t.pc = "loop" /\ input.r # input.w
        /\ input' = IF c = "EOF" /\ t.n < t.target THEN input
                    ELSE [input EXCEPT !.r = (@ + 1) % UINT]
        /\ th' = [th EXCEPT ![p] = [t EXCEPT !.n = n, !.c = IF c = "EOF" THEN @ ELSE c,
                                             !.pc = IF done THEN "idle" ELSE "loop"]]
        /\ lock' = IF done THEN 0 ELSE lock
        /\ UNCHANGED <<pos, killed, kbdVars, load>>

\* kill() wakes a process that sleeps.
kill(p) ==
    /\ p \notin killed
    /\ killed' = killed \union {p}
    /\ th' = [th EXCEPT ![p].pc = IF @ = "sleep" THEN "acquire" ELSE @]
    /\ UNCHANGED <<input, pos, lock, kbdVars, load>>

Reader(p) == acquire(p) \/ consoleread_empty(p) \/ sleep(p) \/ consoleread_getc(p)

Next ==
    \/ \E s \in Outputs : consolewrite(s)
    \/ \E k \in load.keys, up \in BOOLEAN : Key(k, up)
    \/ SecondByte
    \/ \E c \in load.serial : uartintr(c)
    \/ \E p \in load.readers : \/ \E n \in ReadSizes : consoleread(p, n)
                               \/ Reader(p)
    \/ \E p \in load.killed : kill(p)

Spec == Init /\ [][Next]_vars

-----------------------------------------------------------------------------
(* Properties *)

InputType == [buf : [0..INPUT_BUF - 1 -> Chars \union {"NUL"}],
              r : 0..UINT - 1, w : 0..UINT - 1, e : 0..UINT - 1]
ReadType == [pc : {"idle", "acquire", "loop", "tosleep", "sleep"}, n : Nat, target : Nat,
             c : Chars \union {"NUL"}]

\* Types; cons.lock is held exactly by the reader that is between its acquire()
\* and its release() or sleep(), on every way out of consoleread(), and a reader
\* that is not yet done wants at least one character more.
TypeOK ==
    /\ input \in InputType /\ lock \in {0} \union Procs /\ killed \subseteq Procs
    /\ th \in [Procs -> ReadType]
    /\ \A p \in Procs : /\ th[p].n <= th[p].target
                        /\ th[p].pc # "idle" => th[p].n >= 1
                        /\ lock = p <=> th[p].pc \in {"loop", "tosleep"}
    /\ shift \subseteq {"SHIFT", "CTL", "CAPSLOCK", "E0ESC"}
    /\ load \in Workloads /\ held \subseteq load.keys
    /\ pend = NoByte \/ \E k \in Keys, up \in BOOLEAN : pend = [code |-> k[1], up |-> up]

\* The cursor never leaves the screen, wherever the BIOS left it: cgaputc()
\* writes inside the memory of the screen and does not panic.
CursorOnScreen == pos \in 0..ROWS * COLS - 1

\* A process goes to sleep or sleeps in consoleread() only while no committed line
\* is there to be read, also with several readers: no wakeup is missed.
SleepersHaveNothing ==
    \A p \in Procs : th[p].pc \in {"tosleep", "sleep"} => input.r = input.w

\* The three indexes follow one another around the ring, also when they wrap
\* around at UINT, and the line that is being typed holds no newline, so that
\* C('U') never stops short of input.w.
RingSound ==
    /\ Span(input.r, input.w) <= Used /\ Used <= INPUT_BUF
    /\ \A i \in 1..Span(input.w, input.e) : input.buf[(input.w + i - 1) % INPUT_BUF] # "NL"

\* A full buffer is committed: typing cannot come to a state in which the editor
\* takes no more characters and no reader gets any.
FullIsCommitted == Used = INPUT_BUF => input.w = input.e

\* No modifier is in effect whose keys are all released, up to the one key whose
\* second byte is still to come: the shift state of kbdgetc() does not get stuck,
\* and it remembers an 0xE0 exactly until the byte that belongs to it.
NoStuckModifier ==
    /\ "E0ESC" \in shift <=> pend # NoByte
    /\ pend # NoByte /\ ~pend.up => <<pend.code, TRUE>> \in held
    /\ \A f \in shift \intersect {"CTL", "SHIFT"} :
        \/ \E k \in held : f \in shiftcode(k[1], k[2])
        \/ pend # NoByte /\ f \in shiftcode(pend.code, TRUE)

\* The characters from one index of the ring up to another.
Ring(from, to) ==
    [i \in 1..Span(from, to) |-> input.buf[(from + i - 1) % INPUT_BUF]]

LineDiscipline ==
    INSTANCE Terminal WITH
        Readers <- Procs, Sizes <- ReadSizes, CAP <- INPUT_BUF, NL <- "NL", EOF <- "EOF",
        ready <- Ring(input.r, input.w),
        edit  <- Ring(input.w, input.e),
        dead  <- killed,
        ret   <- [p \in Procs |-> [busy |-> th[p].pc # "idle", size |-> th[p].target,
                                   count |-> th[p].target - th[p].n, last |-> th[p].c]]

\* The ring with its three indexes, the interrupt handler and the readers
\* implement the line discipline of Terminal: nothing typed is lost, repeated or
\* reordered, an erased character is never read, C('D') ends exactly one read, and
\* only a killed reader gives up, when nothing is left to read.
TerminalSpec == LineDiscipline!Spec

\* The state the interrupt handlers of console.c and kbd.c keep: types and the
\* owner of cons.lock, a cursor on the screen, a ring whose indexes are in order
\* and that is readable when it is full, and no modifier that sticks.
HandlersInv == TypeOK /\ CursorOnScreen /\ RingSound /\ FullIsCommitted /\ NoStuckModifier
=============================================================================
