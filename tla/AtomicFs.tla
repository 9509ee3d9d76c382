------------------------------- MODULE AtomicFs -------------------------------
(***************************************************************************)
(* What log.c promises to the file system, with no log in sight.  There is *)
(* a current state of the data blocks, which the system calls in progress  *)
(* read and update, and a durable state, which is what the machine comes   *)
(* back with after a crash.  The durable state only ever moves to a state  *)
(* in which no system call is in progress, so a crash loses whole groups   *)
(* of calls and never a part of one (log.c:11-15).                         *)
(***************************************************************************)
CONSTANTS Proc,     \* processes that make file system calls
          Block,    \* the blocks outside the log
          Data      \* what a block can hold

VARIABLES cur,      \* the block contents the running kernel sees
          durable,  \* the block contents a crash would leave behind
          active    \* processes between begin_op() and end_op()

avars == <<cur, durable, active>>

AInit ==
    /\ durable \in [Block -> Data]
    /\ cur = durable
    /\ active = {}

\* A call may join a group whose members are still running; a new group
\* starts only when the last one is durable.
ABegin(p) ==
    /\ p \notin active
    /\ active # {} \/ cur = durable
    /\ active' = active \cup {p}
    /\ UNCHANGED <<cur, durable>>

AWrite(p, b, v) ==
    /\ p \in active
    /\ cur' = [cur EXCEPT ![b] = v]
    /\ UNCHANGED <<durable, active>>

AEnd(p) ==
    /\ p \in active
    /\ active' = active \ {p}
    /\ UNCHANGED <<cur, durable>>

\* All of the group at once, and never while a call is in progress.
ACommit ==
    /\ active = {}
    /\ durable' = cur
    /\ UNCHANGED <<cur, active>>

ACrash ==
    /\ cur' = durable
    /\ active' = {}
    /\ UNCHANGED durable

ANext ==
    \/ \E p \in Proc : ABegin(p) \/ AEnd(p)
    \/ \E p \in Proc, b \in Block, v \in Data : AWrite(p, b, v)
    \/ ACommit
    \/ ACrash

ASpec == AInit /\ [][ANext]_avars
===============================================================================
