---------------------------------- MODULE Proc ----------------------------------
(***************************************************************************)
(* proc.c with the parts of trap.c and sysproc.c that drive it: the        *)
(* process table, the schedulers of several CPUs, fork, exit, wait, kill,  *)
(* sleep and wakeup.  Every section under ptable.lock is one step (swtch() *)
(* hands the lock over inside such a section); what fork() does to its     *)
(* embryo without the lock is split where other CPUs can see it.           *)
(*                                                                         *)
(* kpc[s] is where process s is: "user", inside a system call ("fork",     *)
(* "fork2", "wait", "tick", "ticksleep", "exit"), at the killed check on   *)
(* the way back to user space ("ret"), or "none" for a slot with no kernel *)
(* thread.  A process makes a step only while it is RUNNING on a CPU.      *)
(***************************************************************************)
EXTENDS Integers, FiniteSets

CONSTANTS
    NPROC,      \* slots of the process table
    CPU,        \* the CPUs, each with its own scheduler()
    MaxPid,     \* bound on nextpid, which the code lets run on
    KillPids    \* arguments user programs give to kill()

ASSUME ProcConstants ==
    /\ NPROC \in Nat \ {0}
    /\ MaxPid \in Nat
    /\ KillPids \subseteq Nat

VARIABLES
    state,      \* ptable.proc[s].state
    pid,        \* ptable.proc[s].pid
    parent,     \* ptable.proc[s].parent, a slot or null
    killed,     \* ptable.proc[s].killed
    chan,       \* ptable.proc[s].chan: a slot (wait), Ticks, or null
    nextpid,
    proc,       \* proc[c]: the process CPU c runs, or null
    scan,       \* scan[c]: the slot the scheduler() loop of c looks at
    kpc,        \* where the process is
    np,         \* np[s]: the embryo s is forking, or null
    panicked

tableVars == <<state, pid, parent, killed, chan, nextpid>>
cpuVars == <<proc, scan>>
vars == <<state, pid, parent, killed, chan, nextpid, proc, scan, kpc, np,
          panicked>>

Slot == 1..NPROC
null == 0
initproc == 1
Ticks == NPROC + 1         \* the channel &ticks
State == {"UNUSED", "EMBRYO", "SLEEPING", "RUNNABLE", "RUNNING", "ZOMBIE"}
Kpc == {"none", "user", "ret", "fork", "fork2", "wait", "tick", "ticksleep",
        "exit"}

\* userinit(): one process, runnable; the table is zero otherwise.
Init ==
    /\ state = [s \in Slot |-> IF s = initproc THEN "RUNNABLE" ELSE "UNUSED"]
    /\ pid = [s \in Slot |-> IF s = initproc THEN 1 ELSE 0]
    /\ parent = [s \in Slot |-> null]
    /\ killed = [s \in Slot |-> FALSE]
    /\ chan = [s \in Slot |-> null]
    /\ nextpid = 2
    /\ proc = [c \in CPU |-> null]
    /\ scan = [c \in CPU |-> 1]
    /\ kpc = [s \in Slot |-> IF s = initproc THEN "user" ELSE "none"]
    /\ np = [s \in Slot |-> null]
    /\ panicked = FALSE

Goto(s, l) == kpc' = [kpc EXCEPT ![s] = l]

\* s runs on some CPU and is at l.
At(s, l) == ~panicked /\ state[s] = "RUNNING" /\ kpc[s] = l

\* sched(): the CPU that runs s goes back to its scheduler().
sched(s) == proc' = [c \in CPU |-> IF proc[c] = s THEN null ELSE proc[c]]

\* wakeup1(ch) on a table whose states are st.
wakeup1(st, ch) ==
    [s \in Slot |-> IF st[s] = "SLEEPING" /\ chan[s] = ch THEN "RUNNABLE"
                                                          ELSE st[s]]

Children(s) == {q \in Slot : parent[q] = s}

\* The first slot with a property, as the loops over ptable.proc find it.
First(S) == CHOOSE s \in S : \A q \in S : s =< q

\* Mutant: the scan starts over after every process.
NextSlot_fromStart(s) == IF state[s] = "RUNNABLE" THEN 1 ELSE (s % NPROC) + 1

\* p++ in the scheduler's loop, and back to the first slot at its end.
NextSlot(s) == (s % NPROC) + 1

(***************************************************************************)
(* scheduler() of CPU c: one slot of the scan.                             *)
(***************************************************************************)
scheduler(c) ==
    /\ ~panicked /\ proc[c] = null
    /\ scan' = [scan EXCEPT ![c] = NextSlot(@)]
    /\ LET s == scan[c] IN
       IF state[s] = "RUNNABLE"
       THEN /\ proc' = [proc EXCEPT ![c] = s]
            /\ state' = [state EXCEPT ![s] = "RUNNING"]
            /\ chan' = [chan EXCEPT ![s] = null]    \* sleep()'s tidying up
       ELSE UNCHANGED <<proc, state, chan>>
    /\ UNCHANGED <<pid, parent, killed, nextpid, kpc, np, panicked>>

\* A process in "ticksleep" holds tickslock.
TicksFree == \A q \in Slot : kpc[q] # "ticksleep"

\* trap() on a clock interrupt that finds s: it gives up the CPU, unless it
\* is killed and was in user space.  It looks at killed again when it is back.
\* A process that holds a spinlock, or spins for one, has interrupts off.
yield(s) ==
    /\ ~panicked /\ state[s] = "RUNNING"
    /\ kpc[s] # "ticksleep" /\ (kpc[s] = "tick" => TicksFree)
    /\ ~(kpc[s] = "user" /\ killed[s])
    /\ state' = [state EXCEPT ![s] = "RUNNABLE"]
    /\ sched(s)
    /\ Goto(s, IF kpc[s] = "user" THEN "ret" ELSE kpc[s])
    /\ UNCHANGED <<pid, parent, killed, chan, nextpid, scan, np, panicked>>

\* trap() from user space, by interrupt or system call, with killed set.
trap_killed(s) ==
    /\ At(s, "user") /\ killed[s]
    /\ Goto(s, "exit")
    /\ UNCHANGED <<tableVars, cpuVars, np, panicked>>

\* The killed check at the end of trap().
trap_ret(s) ==
    /\ At(s, "ret")
    /\ Goto(s, IF killed[s] THEN "exit" ELSE "user")
    /\ UNCHANGED <<tableVars, cpuVars, np, panicked>>

\* trap() kills a process that faults in user space.
trap_fault(s) ==
    /\ At(s, "user") /\ s # initproc
    /\ killed' = [killed EXCEPT ![s] = TRUE]
    /\ Goto(s, "exit")
    /\ UNCHANGED <<state, pid, parent, chan, nextpid, cpuVars, np, panicked>>

(***************************************************************************)
(* fork().                                                                 *)
(***************************************************************************)
Unused == {q \in Slot : state[q] = "UNUSED"}

\* A program decides what to do when its fork() fails; init exits (init.c).
ForkFailed(s) == IF s = initproc THEN "exit" ELSE "ret"

allocproc(s) ==
    /\ At(s, "user") /\ ~killed[s]
    /\ IF Unused = {}
       THEN Goto(s, ForkFailed(s)) /\ UNCHANGED <<state, pid, nextpid, np>>
       ELSE LET q == First(Unused) IN
            /\ nextpid =< MaxPid
            /\ state' = [state EXCEPT ![q] = "EMBRYO"]
            /\ pid' = [pid EXCEPT ![q] = nextpid]
            /\ nextpid' = nextpid + 1
            /\ np' = [np EXCEPT ![s] = q]
            /\ Goto(s, "fork")
    /\ UNCHANGED <<parent, killed, chan, cpuVars, panicked>>

\* kalloc() or copyuvm() finds no memory.
fork_fail(s) ==
    /\ At(s, "fork")
    /\ state' = [state EXCEPT ![np[s]] = "UNUSED"]
    /\ np' = [np EXCEPT ![s] = null]
    /\ Goto(s, ForkFailed(s))
    /\ UNCHANGED <<pid, parent, killed, chan, nextpid, cpuVars, panicked>>

fork_copy(s) ==
    /\ At(s, "fork")
    /\ parent' = [parent EXCEPT ![np[s]] = s]
    /\ Goto(s, "fork2")
    /\ UNCHANGED <<state, pid, killed, chan, nextpid, cpuVars, np, panicked>>

\* The child will return to user space through forkret().
fork(s) ==
    /\ At(s, "fork2")
    /\ state' = [state EXCEPT ![np[s]] = "RUNNABLE"]
    /\ kpc' = [kpc EXCEPT ![np[s]] = "user", ![s] = "ret"]
    /\ np' = [np EXCEPT ![s] = null]
    /\ UNCHANGED <<pid, parent, killed, chan, nextpid, cpuVars, panicked>>

(***************************************************************************)
(* exit() and wait().                                                      *)
(***************************************************************************)
\* init calls exit() only after a failed fork(), see ForkFailed.
sys_exit(s) ==
    /\ At(s, "user") /\ ~killed[s] /\ s # initproc
    /\ Goto(s, "exit")
    /\ UNCHANGED <<tableVars, cpuVars, np, panicked>>

\* Mutant: a parent asleep in wait() is not woken.
ExitWakeups_noParent(s) ==
    IF \E q \in Children(s) : state[q] = "ZOMBIE" THEN wakeup1(state, initproc)
                                                  ELSE state

\* The states after wakeup1(parent) and, if s leaves a zombie behind,
\* wakeup1(initproc).
ExitWakeups(s) ==
    LET woken == wakeup1(state, parent[s])
    IN  IF \E q \in Children(s) : state[q] = "ZOMBIE"
        THEN wakeup1(woken, initproc) ELSE woken

\* Pass abandoned children to init.
Abandoned(s) ==
    [q \in Slot |-> IF parent[q] = s THEN initproc ELSE parent[q]]

\* Closing files and putting the cwd is over; the rest is under ptable.lock.
\* For init the whole call is panic("init exiting").
exit(s) ==
    /\ At(s, "exit")
    /\ IF s = initproc
       THEN /\ panicked' = TRUE
            /\ UNCHANGED <<state, parent, kpc, proc>>
       ELSE /\ state' = [ExitWakeups(s) EXCEPT ![s] = "ZOMBIE"]
            /\ parent' = Abandoned(s)
            /\ Goto(s, "none")
            /\ sched(s)
            /\ UNCHANGED panicked
    /\ UNCHANGED <<pid, killed, chan, nextpid, scan, np>>

sys_wait(s) ==
    /\ At(s, "user") /\ ~killed[s]
    /\ Goto(s, "wait")
    /\ UNCHANGED <<tableVars, cpuVars, np, panicked>>

\* Mutant: wait() takes anybody's zombie.
Zombies_anybody(s) == {q \in Slot : state[q] = "ZOMBIE"}

Zombies(s) == {q \in Children(s) : state[q] = "ZOMBIE"}

\* Mutant: the slot is not freed.
wait_reap_keep(s) ==
    /\ At(s, "wait") /\ Zombies(s) # {}
    /\ Goto(s, "ret")
    /\ UNCHANGED <<tableVars, cpuVars, np, panicked>>

wait_reap(s) ==
    /\ At(s, "wait") /\ Zombies(s) # {}
    /\ LET q == First(Zombies(s)) IN
       /\ state' = [state EXCEPT ![q] = "UNUSED"]
       /\ pid' = [pid EXCEPT ![q] = 0]
       /\ parent' = [parent EXCEPT ![q] = null]
       /\ killed' = [killed EXCEPT ![q] = FALSE]
    /\ Goto(s, "ret")
    /\ UNCHANGED <<chan, nextpid, cpuVars, np, panicked>>

wait_none(s) ==
    /\ At(s, "wait") /\ Zombies(s) = {}
    /\ Children(s) = {} \/ killed[s]
    /\ Goto(s, "ret")
    /\ UNCHANGED <<tableVars, cpuVars, np, panicked>>

\* Mutant: wait() sleeps although the process is killed.
wait_sleep_killed(s) ==
    /\ At(s, "wait") /\ Zombies(s) = {}
    /\ Children(s) # {}
    /\ chan' = [chan EXCEPT ![s] = s]
    /\ state' = [state EXCEPT ![s] = "SLEEPING"]
    /\ sched(s)
    /\ UNCHANGED <<pid, parent, killed, nextpid, scan, kpc, np, panicked>>

wait_sleep(s) ==
    /\ At(s, "wait") /\ Zombies(s) = {}
    /\ Children(s) # {} /\ ~killed[s]
    /\ chan' = [chan EXCEPT ![s] = s]
    /\ state' = [state EXCEPT ![s] = "SLEEPING"]
    /\ sched(s)
    /\ UNCHANGED <<pid, parent, killed, nextpid, scan, kpc, np, panicked>>

(***************************************************************************)
(* kill(), sys_sleep() and the clock.                                      *)
(***************************************************************************)
kill(s, n) ==
    /\ At(s, "user") /\ ~killed[s] /\ s # initproc
    /\ LET M == {q \in Slot : pid[q] = n} IN
       IF M = {} THEN UNCHANGED <<killed, state>>
       ELSE LET q == First(M) IN
            /\ killed' = [killed EXCEPT ![q] = TRUE]
            /\ state' = [state EXCEPT ![q] = IF @ = "SLEEPING" THEN "RUNNABLE"
                                                               ELSE @]
    /\ Goto(s, "ret")
    /\ UNCHANGED <<pid, parent, chan, nextpid, cpuVars, np, panicked>>

sys_sleep(s) ==
    /\ At(s, "user") /\ ~killed[s] /\ s # initproc
    /\ Goto(s, "tick")
    /\ UNCHANGED <<tableVars, cpuVars, np, panicked>>

\* The loop of sys_sleep(), from acquiring tickslock: the time is up or the
\* process is killed, or it calls sleep().  tickslock keeps out the clock and
\* the other sleepers in between, but not kill().
tick_done(s) ==
    /\ At(s, "tick") /\ TicksFree
    /\ Goto(s, "ret")
    /\ UNCHANGED <<tableVars, cpuVars, np, panicked>>

tick_wait(s) ==
    /\ At(s, "tick") /\ TicksFree /\ ~killed[s]
    /\ Goto(s, "ticksleep")
    /\ UNCHANGED <<tableVars, cpuVars, np, panicked>>

sleep(s) ==
    /\ At(s, "ticksleep")
    /\ chan' = [chan EXCEPT ![s] = Ticks]
    /\ state' = [state EXCEPT ![s] = "SLEEPING"]
    /\ sched(s)
    /\ Goto(s, "tick")
    /\ UNCHANGED <<pid, parent, killed, nextpid, scan, np, panicked>>

\* trap() on CPU 0's clock interrupt.
tick ==
    /\ ~panicked /\ TicksFree
    /\ state' = wakeup1(state, Ticks)
    /\ UNCHANGED <<pid, parent, killed, chan, nextpid, cpuVars, kpc, np,
                   panicked>>

\* What a process does on its own once it has entered the kernel, or when an
\* interrupt takes it there.
Kernel(s) ==
    \/ trap_killed(s) \/ trap_ret(s)
    \/ fork_fail(s) \/ fork_copy(s) \/ fork(s)
    \/ exit(s) \/ wait_reap(s) \/ wait_none(s) \/ wait_sleep(s)
    \/ tick_done(s) \/ tick_wait(s) \/ sleep(s)

\* What a user program chooses to do, and where it goes wrong; init only forks
\* and waits.
User(s) ==
    \/ allocproc(s) \/ sys_exit(s) \/ sys_wait(s) \/ sys_sleep(s)
    \/ trap_fault(s)
    \/ \E n \in KillPids : kill(s, n)

\* panic() freezes the CPUs for good.
Halted == panicked /\ UNCHANGED vars

Next ==
    \/ \E c \in CPU : scheduler(c)
    \/ \E s \in Slot : yield(s) \/ Kernel(s) \/ User(s)
    \/ tick
    \/ Halted

Spec == Init /\ [][Next]_vars

\* Every CPU keeps running its scheduler and the clock keeps interrupting (WF);
\* a process in the kernel gets through, although it may be preempted at every
\* step, and the clock gets tickslock, although sleepers take it again and
\* again (SF).  init goes from fork() to wait() and back for ever (init.c:22-36);
\* the one way out of that loop, a failed fork(), leads to exit() and its panic.
Fairness ==
    /\ \A c \in CPU : WF_vars(scheduler(c))
    /\ \A s \in Slot : WF_vars(yield(s)) /\ SF_vars(Kernel(s))
    /\ SF_vars(sys_wait(initproc))
    /\ SF_vars(tick)

FairSpec == Spec /\ Fairness

--------------------------------------------------------------------------------
Alive == {"SLEEPING", "RUNNABLE", "RUNNING"}

TypeOK ==
    /\ state \in [Slot -> State] /\ pid \in [Slot -> Nat]
    /\ parent \in [Slot -> Slot \cup {null}]
    /\ killed \in [Slot -> BOOLEAN]
    /\ chan \in [Slot -> Slot \cup {null, Ticks}]
    /\ nextpid \in Nat \ {0}
    /\ proc \in [CPU -> Slot \cup {null}] /\ scan \in [CPU -> Slot]
    /\ kpc \in [Slot -> Kpc] /\ np \in [Slot -> Slot \cup {null}]
    /\ panicked \in BOOLEAN

\* A process runs on exactly one CPU, and only a RUNNING one does: no path
\* through sched() leaves a process behind on a CPU or puts it on two
\* (proc.c:340-358, 371-388).
OneCpu ==
    /\ \A c \in CPU : proc[c] # null => state[proc[c]] = "RUNNING"
    /\ \A s \in Slot : state[s] = "RUNNING" =>
         \E c \in CPU : proc[c] = s /\ \A d \in CPU : proc[d] = s => d = c

\* Every process but init has a living parent other than itself, so that
\* somebody can wait() for it: exit() hands the children over before it is a
\* zombie (proc.c:261-271).
ParentAlive ==
    /\ \A s \in Slot \ {initproc} : state[s] \in Alive \cup {"ZOMBIE"} =>
           parent[s] # null /\ state[parent[s]] \in Alive
    /\ parent[initproc] = null /\ \A s \in Slot : parent[s] # s

\* A process asleep in wait() has no zombie child: neither the exit of a child
\* nor being handed a zombie by an exiting child is missed (proc.c:258-268,
\* 310-316).
NoMissedExit ==
    \A s \in Slot : state[s] = "SLEEPING" /\ chan[s] = s => Zombies(s) = {}

\* kill(pid) finds the process that has the pid, although the slots of failed
\* forks keep the pid they were given (proc.c:90, 96, 199, 299, 491-492).
KillFindsProcess ==
    \A s \in Slot : state[s] # "UNUSED" =>
        First({q \in Slot : pid[q] = pid[s]}) = s

\* The embryo of a fork() in progress belongs to that fork() alone: no other
\* process forks into it, reaps it or wakes it (proc.c:89-92, 196-223).
EmbryoOwned ==
    \A s \in Slot : state[s] = "EMBRYO" <=>
        \E q \in Slot : /\ np[q] = s /\ kpc[q] \in {"fork", "fork2"}
                        /\ \A r \in Slot : np[r] = s => r = q

\* A slot is never freed while its process can still run, and a zombie only
\* leaves the table through its parent's wait() (proc.c:293-305).
ReapedByParent ==
    [][\A s \in Slot : state[s] \in Alive \cup {"ZOMBIE"}
                       /\ state'[s] = "UNUSED" =>
           /\ state[s] = "ZOMBIE" /\ killed'[s] = FALSE
           /\ parent[s] # null /\ At(parent[s], "wait")]_vars

\* The round-robin scan of the schedulers starves nobody: no process stays
\* runnable for ever without a CPU, unless the kernel panics (proc.c:335-360).
RunnableRuns ==
    \A s \in Slot : []<>(state[s] # "RUNNABLE" \/ panicked)

\* No killed process lives for ever, whether kill() met it in user space, in
\* fork(), in wait() or in sys_sleep(), asleep or about to be, unless init exits
\* and the kernel panics (proc.c:482-503, sysproc.c:66-76, trap.c:97-111).
KilledExits ==
    \A s \in Slot : []<>(~(killed[s] /\ state[s] \in Alive) \/ panicked)

\* No zombie stays with init for ever: init reaps its own and those it is
\* handed, unless it exits, after a failed fork() or a kill(1), and the kernel
\* panics (proc.c:240, 261-268, init.c:22-36).
OrphansReaped ==
    \A s \in Slot : []<>(~(state[s] = "ZOMBIE" /\ parent[s] = initproc) \/ panicked)

\* init is there to adopt: its exit() panics before it is a zombie
\* (proc.c:240-241).
InitAlive == state[initproc] \in Alive

\* No two slots have the same pid, those of failed forks and of zombies
\* included, and no process has the pid 0 of a free slot (proc.c:90).
PidsUnique ==
    /\ \A s \in Slot : pid[s] < nextpid
    /\ \A s \in Slot : state[s] # "UNUSED" => pid[s] # 0
    /\ \A s, q \in Slot : pid[s] = pid[q] /\ pid[s] # 0 => s = q

\* fork() holds its embryo from allocproc() to the end, can still go on, and has
\* put itself down as the parent before the child is runnable
\* (proc.c:189-223).
ForkOwns ==
    \A s \in Slot :
        /\ np[s] # null <=> kpc[s] \in {"fork", "fork2"}
        /\ np[s] # null => state[s] \in Alive /\ state[np[s]] = "EMBRYO"
        /\ kpc[s] = "fork2" => parent[np[s]] = s
        /\ \A q \in Slot : np[s] = np[q] /\ np[s] # null => s = q

\* The state of the process table that every function of proc.c relies on:
\* types; a process runs on at most one CPU; parents exist, since exit() hands
\* children to init; a parent asleep in wait() has no zombie child; kill() finds
\* every process by its pid; an EMBRYO belongs to the fork() that fills it.  With
\* the last three parts it is inductive.
TableInv == /\ TypeOK /\ OneCpu /\ ParentAlive
            /\ NoMissedExit /\ KillFindsProcess /\ EmbryoOwned
            /\ InitAlive /\ PidsUnique /\ ForkOwns
================================================================================
