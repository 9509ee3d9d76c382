------------------------------ MODULE Terminal ------------------------------
(***************************************************************************)
(* What the console promises its readers: a line discipline.  Characters   *)
(* are edited in a line of their own; a newline, an end-of-file mark or a  *)
(* full buffer makes them ready, and ready characters are read once, in    *)
(* the order in which they were typed.  A read gets at most one line; an   *)
(* end-of-file mark ends the read that comes upon it, and is used up by    *)
(* the read that returns nothing.  Only a reader that was killed gives up, *)
(* and only when nothing is ready.                                         *)
(***************************************************************************)
EXTENDS Naturals, Sequences

CONSTANTS
    Readers, Sizes,     \* processes that read, and how much at a time
    Chars, NL, EOF,     \* what may be typed
    CAP                 \* characters that are kept

VARIABLES
    ready,  \* characters that may be read
    edit,   \* characters of the line that is being typed
    ret,    \* of every reader: in a call or not, its size, the characters
            \* read so far and the last of them
    dead    \* readers that were killed

vars == <<ready, edit, ret, dead>>

Full(s) == Len(ready) + Len(s) = CAP

Type(c) ==
    /\ Len(ready) + Len(edit) < CAP
    /\ LET line == Append(edit, c)
       IN  IF c \in {NL, EOF} \/ Full(line)
           THEN ready' = ready \o line /\ edit' = <<>>
           ELSE edit' = line /\ UNCHANGED ready
    /\ UNCHANGED <<ret, dead>>

Erase ==
    /\ edit # <<>> /\ edit' = SubSeq(edit, 1, Len(edit) - 1)
    /\ UNCHANGED <<ready, ret, dead>>

EraseLine == edit' = <<>> /\ UNCHANGED <<ready, ret, dead>>

Start(p, n) ==
    /\ ~ret[p].busy
    /\ ret' = [ret EXCEPT ![p] = [busy |-> TRUE, size |-> n, count |-> 0, last |-> NL]]
    /\ UNCHANGED <<ready, edit, dead>>

\* The next character.
Get(p) ==
    LET c == Head(ready)
        n == ret[p].count + 1
    IN  /\ ret[p].busy /\ ready # <<>> /\ c # EOF
        /\ ready' = Tail(ready)
        /\ ret' = [ret EXCEPT ![p] = [@ EXCEPT !.count = n, !.last = c,
                                               !.busy = n < ret[p].size /\ c # NL]]
        /\ UNCHANGED <<edit, dead>>

\* The end-of-file mark.
End(p) ==
    /\ ret[p].busy /\ ready # <<>> /\ Head(ready) = EOF
    /\ ready' = IF ret[p].count = 0 THEN Tail(ready) ELSE ready
    /\ ret' = [ret EXCEPT ![p].busy = FALSE]
    /\ UNCHANGED <<edit, dead>>

Kill(p) == p \notin dead /\ dead' = dead \union {p} /\ UNCHANGED <<ready, edit, ret>>

\* A reader that was killed finds nothing to read.
Abort(p) ==
    /\ ret[p].busy /\ p \in dead /\ ready = <<>>
    /\ ret' = [ret EXCEPT ![p].busy = FALSE]
    /\ UNCHANGED <<ready, edit, dead>>

Init == /\ ready = <<>> /\ edit = <<>> /\ dead = {}
        /\ ret = [p \in Readers |-> [busy |-> FALSE, size |-> 0, count |-> 0, last |-> NL]]

Next ==
    \/ \E c \in Chars : Type(c)
    \/ Erase \/ EraseLine
    \/ \E p \in Readers : \/ \E n \in Sizes : Start(p, n)
                          \/ Get(p) \/ End(p) \/ Kill(p) \/ Abort(p)

Spec == Init /\ [][Next]_vars
=============================================================================
