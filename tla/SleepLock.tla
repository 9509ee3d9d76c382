-------------------------------- MODULE SleepLock --------------------------------
(***************************************************************************)
(* sleeplock.c on top of sleep() and wakeup() (proc.c) and of spinlocks    *)
(* (spinlock.c), at the grain of single lock operations.  The other        *)
(* modules take "sleep() releases the lock and sleeps atomically" as one   *)
(* step; here it is the several steps it really is.                        *)
(*                                                                         *)
(* Labels of a process: "out"; acquiresleep(): "acq" spins for lk->lk,     *)
(* "test" holds it; sleep(): "pt" spins for ptable.lock holding lk->lk,    *)
(* "doze" holds ptable.lock only, "asleep" is off the CPU, "tidy" runs     *)
(* again with ptable.lock; "cs" holds the sleep-lock; releasesleep():      *)
(* "rel" spins for lk->lk, "clear" holds it, "wpt" spins for ptable.lock   *)
(* in wakeup(), "wake" holds both, "fin" holds lk->lk.                     *)
(***************************************************************************)
EXTENDS Integers

CONSTANTS Proc,     \* the processes that use the sleep-lock
          None      \* nobody

ASSUME SleepLockConstants == None \notin Proc

VARIABLES lk,       \* holder of the spinlock lk->lk, or None
          ptlock,   \* holder of ptable.lock, or None
          locked,   \* lk->locked
          owner,    \* lk->pid: the process that holds the sleep-lock, or None
          state,    \* p->state, as far as sleep() and wakeup() see it
          pc        \* label of each process

vars == <<lk, ptlock, locked, owner, state, pc>>

Label == {"out", "acq", "test", "pt", "doze", "asleep", "tidy", "cs",
          "rel", "clear", "wpt", "wake", "fin"}

Init ==
    /\ lk = None /\ ptlock = None
    /\ locked = FALSE /\ owner = None
    /\ state = [p \in Proc |-> "RUNNING"]
    /\ pc = [p \in Proc |-> "out"]

\* One step of p from label a to label b.
Step(p, a, b) == pc[p] = a /\ pc' = [pc EXCEPT ![p] = b]

\* acquire() and release() of the two spinlocks by p.
acquire_lk(p) == lk = None /\ lk' = p
release_lk(p) == lk' = None
acquire_pt(p) == ptlock = None /\ ptlock' = p
release_pt(p) == ptlock' = None

\* wakeup1(lk): the sleep-lock is the only channel here.
wakeup1 == [q \in Proc |-> IF state[q] = "SLEEPING" THEN "RUNNABLE" ELSE state[q]]

(***************************************************************************)
(* acquiresleep().                                                         *)
(***************************************************************************)
Enter(p) ==
    /\ Step(p, "out", "acq")
    /\ UNCHANGED <<lk, ptlock, locked, owner, state>>

acquiresleep_lock(p) ==
    /\ Step(p, "acq", "test")
    /\ acquire_lk(p)
    /\ UNCHANGED <<ptlock, locked, owner, state>>

acquiresleep_busy(p) ==
    /\ Step(p, "test", "pt") /\ locked
    /\ UNCHANGED <<lk, ptlock, locked, owner, state>>

\* Mutant: the lock is taken without looking.
acquiresleep_take_noTest(p) ==
    /\ Step(p, "test", "cs")
    /\ locked' = TRUE /\ owner' = p
    /\ release_lk(p)
    /\ UNCHANGED <<ptlock, state>>

acquiresleep_take(p) ==
    /\ Step(p, "test", "cs") /\ ~locked
    /\ locked' = TRUE /\ owner' = p
    /\ release_lk(p)
    /\ UNCHANGED <<ptlock, state>>

(***************************************************************************)
(* sleep(lk, &lk->lk).                                                     *)
(***************************************************************************)

\* Mutant: lk->lk is released without ptable.lock.
sleep_lock_noPt(p) ==
    /\ Step(p, "pt", "doze")
    /\ release_lk(p)
    /\ UNCHANGED <<ptlock, locked, owner, state>>

\* acquire(&ptable.lock); release(lk).
sleep_lock(p) ==
    /\ Step(p, "pt", "doze")
    /\ acquire_pt(p)
    /\ release_lk(p)
    /\ UNCHANGED <<locked, owner, state>>

\* p->state = SLEEPING; sched(): the scheduler releases ptable.lock.
sleep_sched(p) ==
    /\ Step(p, "doze", "asleep")
    /\ state' = [state EXCEPT ![p] = "SLEEPING"]
    /\ release_pt(p)
    /\ UNCHANGED <<lk, locked, owner>>

\* scheduler() takes ptable.lock and switches to p.
sleep_resume(p) ==
    /\ Step(p, "asleep", "tidy")
    /\ state[p] = "RUNNABLE"
    /\ state' = [state EXCEPT ![p] = "RUNNING"]
    /\ acquire_pt(p)
    /\ UNCHANGED <<lk, locked, owner>>

\* p->chan = 0; release(&ptable.lock); then p spins for lk->lk again.
sleep_end(p) ==
    /\ Step(p, "tidy", "acq")
    /\ release_pt(p)
    /\ UNCHANGED <<lk, locked, owner, state>>

(***************************************************************************)
(* releasesleep().                                                         *)
(***************************************************************************)
Leave(p) ==
    /\ Step(p, "cs", "rel")
    /\ UNCHANGED <<lk, ptlock, locked, owner, state>>

releasesleep_lock(p) ==
    /\ Step(p, "rel", "clear")
    /\ acquire_lk(p)
    /\ UNCHANGED <<ptlock, locked, owner, state>>

releasesleep_clear(p) ==
    /\ Step(p, "clear", "wpt")
    /\ locked' = FALSE /\ owner' = None
    /\ UNCHANGED <<lk, ptlock, state>>

wakeup_lock(p) ==
    /\ Step(p, "wpt", "wake")
    /\ acquire_pt(p)
    /\ UNCHANGED <<lk, locked, owner, state>>

\* Mutant: nobody is woken.
wakeup_none(p) ==
    /\ Step(p, "wake", "fin")
    /\ release_pt(p)
    /\ UNCHANGED <<lk, locked, owner, state>>

wakeup(p) ==
    /\ Step(p, "wake", "fin")
    /\ state' = wakeup1
    /\ release_pt(p)
    /\ UNCHANGED <<lk, locked, owner>>

releasesleep_end(p) ==
    /\ Step(p, "fin", "out")
    /\ release_lk(p)
    /\ UNCHANGED <<ptlock, locked, owner, state>>

\* kill() by somebody else wakes a sleeper for no reason of the lock's.
kill(p) ==
    /\ ptlock = None /\ state[p] = "SLEEPING"
    /\ state' = [state EXCEPT ![p] = "RUNNABLE"]
    /\ UNCHANGED <<lk, ptlock, locked, owner, pc>>

\* Steps that need no lock another process holds.
Run(p) ==
    \/ acquiresleep_busy(p) \/ acquiresleep_take(p) \/ sleep_sched(p)
    \/ sleep_end(p) \/ Leave(p) \/ releasesleep_clear(p) \/ wakeup(p)
    \/ releasesleep_end(p)

\* Steps that win a spinlock.
Spin(p) ==
    \/ acquiresleep_lock(p) \/ sleep_lock(p) \/ sleep_resume(p)
    \/ releasesleep_lock(p) \/ wakeup_lock(p)

Next == \E p \in Proc : Enter(p) \/ Run(p) \/ Spin(p) \/ kill(p)

Spec == Init /\ [][Next]_vars

\* Running code keeps running, holders of the sleep-lock release it, and a
\* spinning or runnable process wins in the end.  Nobody has to want the lock.
Fairness == \A p \in Proc : WF_vars(Run(p)) /\ SF_vars(Spin(p))

FairSpec == Spec /\ Fairness

--------------------------------------------------------------------------------
TypeOK ==
    /\ lk \in Proc \cup {None} /\ ptlock \in Proc \cup {None}
    /\ locked \in BOOLEAN /\ owner \in Proc \cup {None}
    /\ state \in [Proc -> {"RUNNING", "SLEEPING", "RUNNABLE"}]
    /\ pc \in [Proc -> Label]

\* The sleep-lock excludes: no two processes are past acquiresleep(), and the
\* holder is the one holdingsleep() names (sleeplock.c:26-31, 50).
Mutex ==
    \A p, q \in Proc : pc[p] \in {"cs", "rel"} /\ pc[q] \in {"cs", "rel"}
                       => p = q /\ owner = p

\* No wakeup is lost: while a process sleeps, the lock is held or its last
\* holder is still on its way into wakeup().  Once sleep() has ptable.lock it
\* may let go of lk->lk (proc.c:434-443, sleeplock.c:26-27, 38-40).
NoLostWakeup ==
    \A p \in Proc : state[p] = "SLEEPING" =>
        locked \/ \E q \in Proc : pc[q] \in {"wpt", "wake"}

\* Who holds which lock at which label, and what a process on its way into
\* sleep() can rely on: the inductive invariant behind Mutex and NoLostWakeup.
LockInv ==
    /\ \A p \in Proc :
         /\ lk = p <=> pc[p] \in {"test", "pt", "clear", "wpt", "wake", "fin"}
         /\ ptlock = p <=> pc[p] \in {"doze", "tidy", "wake"}
         /\ owner = p <=> pc[p] \in {"cs", "rel", "clear"}
         /\ pc[p] # "asleep" => state[p] = "RUNNING"
         /\ pc[p] \in {"pt", "doze"} =>
              locked \/ \E q \in Proc : pc[q] = "wpt"
    /\ locked <=> owner # None

SleepInv == TypeOK /\ LockInv /\ NoLostWakeup

\* A process asleep on the sleep-lock is woken.
Woken == \A p \in Proc : pc[p] = "asleep" ~> pc[p] # "asleep"

\* While processes want the sleep-lock, it keeps being handed out.
SomebodyGetsIn ==
    (\E p \in Proc : pc[p] = "acq") ~> (\E p \in Proc : pc[p] = "cs")

\* releasesleep() passes the lock on: every sleeper is woken, and while processes
\* want the sleep-lock somebody gets it.
HandedOn == Woken /\ SomebodyGetsIn
================================================================================
