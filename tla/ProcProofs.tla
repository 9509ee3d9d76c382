------------------------------- MODULE ProcProofs -------------------------------
(***************************************************************************)
(* Proofs about Proc, for every size of the process table, every number of *)
(* CPUs and whatever pids user programs give to kill().                    *)
(***************************************************************************)
EXTENDS Proc, WellFoundedInduction, TLAPS

USE DEF Goto, At

--------------------------------------------------------------------------------
(* The operators of the table. *)

\* All that the proofs use of the numbering of slots and channels.
LEMMA SlotFacts ==
  /\ null \notin Slot /\ Ticks \notin Slot /\ Ticks # null
  /\ initproc \in Slot
  BY ProcConstants DEF Slot, null, Ticks, initproc

\* The loops over ptable.proc find an element of a set of slots that has one.
LEMMA FirstIn ==
  ASSUME NEW S, S \subseteq Slot, S # {}
  PROVE  First(S) \in S
<1> DEFINE R == OpToRel(<, Nat)
<1>1. R = {ss \in Nat \X Nat : ss[1] < ss[2]}
  BY DEF OpToRel
<1>2. IsWellFoundedOn(R, Nat)
  BY Zenon, NatLessThanWellFounded DEF R
<1> HIDE DEF R
<1>3. S \subseteq Nat
  BY ProcConstants DEF Slot
<1>4. PICK s \in S : \A q \in S : ~(<<q, s>> \in R)
  BY <1>2, <1>3, WFMin
<1>5. ASSUME NEW q \in S, q < s PROVE FALSE
  <2>1. <<q, s>> \in {ss \in Nat \X Nat : ss[1] < ss[2]}
    BY <1>3, <1>5
  <2> QED
    BY <2>1, <1>1, <1>4
<1>6. \A q \in S : s =< q
  BY <1>3, <1>5
<1> QED
  BY <1>6 DEF First

USE SlotFacts

\* kill() finds a process by its pid, because the pids of all slots that have
\* one are distinct.
LEMMA PidsFindProcess == TypeOK /\ PidsUnique => KillFindsProcess
<1> SUFFICES ASSUME TypeOK, PidsUnique, NEW s \in Slot, state[s] # "UNUSED"
             PROVE First({q \in Slot : pid[q] = pid[s]}) = s
  BY DEF KillFindsProcess
<1>1. {q \in Slot : pid[q] = pid[s]} = {s}
  BY DEF PidsUnique
<1>2. First({s}) = s
  BY DEF First
<1> QED
  BY <1>1, <1>2

\* wakeup1() only makes sleepers runnable, all those on the channel.
LEMMA WakeupEffect ==
  ASSUME TypeOK, NEW st \in [Slot -> State], NEW ch
  PROVE  /\ wakeup1(st, ch) \in [Slot -> State]
         /\ \A s \in Slot :
              \/ wakeup1(st, ch)[s] = st[s] /\ ~(st[s] = "SLEEPING" /\ chan[s] = ch)
              \/ st[s] = "SLEEPING" /\ chan[s] = ch
                 /\ wakeup1(st, ch)[s] = "RUNNABLE"
  BY DEF wakeup1, State

\* The wakeups of exit(): sleepers become runnable, among them the parent and,
\* if a zombie is handed over, init.
LEMMA ExitWakeupEffect ==
  ASSUME TypeOK, NEW s \in Slot
  PROVE  /\ ExitWakeups(s) \in [Slot -> State]
         /\ \A q \in Slot : \/ ExitWakeups(s)[q] = state[q]
                            \/ state[q] = "SLEEPING" /\ ExitWakeups(s)[q] = "RUNNABLE"
         /\ \A q \in Slot : ExitWakeups(s)[q] = "SLEEPING" /\ chan[q] = parent[s] => FALSE
         /\ \A q \in Slot : ExitWakeups(s)[q] = "SLEEPING" /\ chan[q] = initproc
                => Zombies(s) = {}
<1> DEFINE w == wakeup1(state, parent[s])
           z == wakeup1(w, initproc)
<1>1. state \in [Slot -> State]
  BY DEF TypeOK
<1>2. /\ w \in [Slot -> State]
      /\ \A q \in Slot : \/ w[q] = state[q] /\ ~(state[q] = "SLEEPING" /\ chan[q] = parent[s])
                         \/ /\ state[q] = "SLEEPING" /\ chan[q] = parent[s]
                            /\ w[q] = "RUNNABLE"
  BY <1>1, WakeupEffect
<1>3. /\ z \in [Slot -> State]
      /\ \A q \in Slot : \/ z[q] = w[q] /\ ~(w[q] = "SLEEPING" /\ chan[q] = initproc)
                         \/ w[q] = "SLEEPING" /\ chan[q] = initproc /\ z[q] = "RUNNABLE"
  BY <1>2, WakeupEffect
<1>4. ExitWakeups(s) = IF Zombies(s) # {} THEN z ELSE w
  BY DEF ExitWakeups, Zombies, Children
<1> HIDE DEF w, z
<1> QED
  BY <1>2, <1>3, <1>4
--------------------------------------------------------------------------------
(* One lemma per step of the model. *)

\* What a process that is not inside fork() does to its own program counter alone
\* disturbs nothing.
LEMMA MoveStep ==
  ASSUME TableInv, NEW s \in Slot, kpc[s] \notin {"fork", "fork2"},
         NEW l \in Kpc \ {"fork", "fork2"}, Goto(s, l),
         UNCHANGED <<state, pid, parent, chan, nextpid, proc, scan, np, panicked>>,
         killed' \in [Slot -> BOOLEAN]
  PROVE  TableInv'
<1>1. TypeOK'
  BY DEF TableInv, TypeOK
<1>2. OneCpu' /\ ParentAlive' /\ InitAlive' /\ PidsUnique'
  BY DEF TableInv, OneCpu, ParentAlive, InitAlive, PidsUnique
<1>3. NoMissedExit'
  BY DEF TableInv, NoMissedExit, Zombies, Children
<1>4. EmbryoOwned'
  BY DEF TableInv, TypeOK, EmbryoOwned
<1>5. ForkOwns'
  BY DEF TableInv, TypeOK, ForkOwns
<1> QED
  BY <1>1, <1>2, <1>3, <1>4, <1>5, PidsFindProcess, PTL DEF TableInv

\* A process that the scheduler() of c picks runs there and nowhere else.
LEMMA SchedulerStep ==
  ASSUME TableInv, NEW c \in CPU, scheduler(c)
  PROVE  TableInv'
<1> DEFINE s == scan[c]
<1> USE DEF scheduler
<1>0. s \in Slot
  BY DEF TableInv, TypeOK
<1>1. TypeOK'
  <2>1. NextSlot(scan[c]) \in Slot
    BY <1>0, ProcConstants DEF NextSlot, Slot
  <2> QED
    BY <1>0, <2>1 DEF TableInv, TypeOK, State
<1>2. CASE state[s] = "RUNNABLE"
  <2> USE <1>2
  <2>1. s \in Slot /\ \A d \in CPU : proc[d] # s
    BY DEF TableInv, TypeOK, OneCpu
  <2>2. OneCpu'
    BY <2>1 DEF TableInv, TypeOK, OneCpu
  <2>3. ParentAlive' /\ InitAlive' /\ PidsUnique'
    BY <2>1 DEF TableInv, TypeOK, ParentAlive, InitAlive, PidsUnique, Alive
  <2>4. NoMissedExit'
    BY <2>1 DEF TableInv, TypeOK, NoMissedExit, Zombies, Children
  <2>5. EmbryoOwned' /\ ForkOwns'
    BY <2>1 DEF TableInv, TypeOK, EmbryoOwned, ForkOwns, Alive
  <2> QED
    BY <1>1, <2>2, <2>3, <2>4, <2>5, PidsFindProcess, PTL DEF TableInv
<1>3. CASE state[s] # "RUNNABLE"
  <2>1. UNCHANGED <<state, pid, parent, killed, chan, nextpid, proc, kpc, np>>
    BY <1>3
  <2> QED
    BY <1>1, <2>1 DEF TableInv, TypeOK, OneCpu, ParentAlive, NoMissedExit, Zombies, Children,
         InitAlive, PidsUnique, ForkOwns, EmbryoOwned, KillFindsProcess
<1> QED
  BY <1>2, <1>3

\* A process that gives up the CPU stays in the table as it was.
LEMMA YieldStep ==
  ASSUME TableInv, NEW s \in Slot, yield(s)
  PROVE  TableInv'
<1> USE DEF yield, sched
<1>1. TypeOK'
  BY DEF TableInv, TypeOK, State, Kpc
<1>2. OneCpu'
  BY DEF TableInv, TypeOK, OneCpu, Alive
<1>3. ParentAlive'
  BY DEF TableInv, TypeOK, ParentAlive, Alive
<1>4. NoMissedExit'
  BY DEF TableInv, TypeOK, NoMissedExit, Alive, Zombies, Children
<1>5. EmbryoOwned'
  BY DEF TableInv, TypeOK, EmbryoOwned, Alive
<1>6. InitAlive'
  BY DEF TableInv, TypeOK, InitAlive, Alive
<1>7. PidsUnique'
  BY DEF TableInv, TypeOK, PidsUnique, Alive
<1>8. ForkOwns'
  BY DEF TableInv, TypeOK, ForkOwns, Alive
<1> QED
  BY <1>1, <1>2, <1>3, <1>4, <1>5, <1>6, <1>7, <1>8, PidsFindProcess, PTL DEF TableInv

\* wait() goes to sleep on its own slot, with no zombie child.
LEMMA WaitSleepStep ==
  ASSUME TableInv, NEW s \in Slot, wait_sleep(s)
  PROVE  TableInv'
<1> USE DEF wait_sleep, sched
<1>1. TypeOK'
  BY DEF TableInv, TypeOK, State, Kpc
<1>2. OneCpu'
  BY DEF TableInv, TypeOK, OneCpu, Alive
<1>3. ParentAlive'
  BY DEF TableInv, TypeOK, ParentAlive, Alive
<1>4. NoMissedExit'
  BY DEF TableInv, TypeOK, NoMissedExit, Alive, Zombies, Children
<1>5. EmbryoOwned'
  BY DEF TableInv, TypeOK, EmbryoOwned, Alive
<1>6. InitAlive'
  BY DEF TableInv, TypeOK, InitAlive, Alive
<1>7. PidsUnique'
  BY DEF TableInv, TypeOK, PidsUnique, Alive
<1>8. ForkOwns'
  BY DEF TableInv, TypeOK, ForkOwns, Alive
<1> QED
  BY <1>1, <1>2, <1>3, <1>4, <1>5, <1>6, <1>7, <1>8, PidsFindProcess, PTL DEF TableInv

\* sys_sleep() sleeps on &ticks, which is nobody's slot.
LEMMA SleepStep ==
  ASSUME TableInv, NEW s \in Slot, sleep(s)
  PROVE  TableInv'
<1> USE DEF sleep, sched
<1>1. TypeOK'
  BY DEF TableInv, TypeOK, State, Kpc
<1>2. OneCpu'
  BY DEF TableInv, TypeOK, OneCpu, Alive
<1>3. ParentAlive'
  BY DEF TableInv, TypeOK, ParentAlive, Alive
<1>4. NoMissedExit'
  BY DEF TableInv, TypeOK, NoMissedExit, Alive, Zombies, Children
<1>5. EmbryoOwned'
  BY DEF TableInv, TypeOK, EmbryoOwned, Alive
<1>6. InitAlive'
  BY DEF TableInv, TypeOK, InitAlive, Alive
<1>7. PidsUnique'
  BY DEF TableInv, TypeOK, PidsUnique, Alive
<1>8. ForkOwns'
  BY DEF TableInv, TypeOK, ForkOwns, Alive
<1> QED
  BY <1>1, <1>2, <1>3, <1>4, <1>5, <1>6, <1>7, <1>8, PidsFindProcess, PTL DEF TableInv

\* The clock wakes sleepers.
LEMMA TickStep ==
  ASSUME TableInv, tick
  PROVE  TableInv'
<1> USE DEF tick
<1>0. /\ state' \in [Slot -> State]
      /\ \A q \in Slot : \/ state'[q] = state[q]
                         \/ state[q] = "SLEEPING" /\ state'[q] = "RUNNABLE"
  <2>1. state \in [Slot -> State]
    BY DEF TableInv, TypeOK
  <2> QED
    BY <2>1, WakeupEffect DEF TableInv
<1> HIDE DEF tick
<1>u. UNCHANGED <<pid, parent, killed, chan, nextpid, proc, scan, kpc, np, panicked>>
  BY DEF tick, cpuVars
<1>1. TypeOK'
  BY <1>0, <1>u DEF TableInv, TypeOK, State, Kpc
<1>2. OneCpu'
  BY <1>0, <1>u DEF TableInv, TypeOK, OneCpu, Alive
<1>3. ParentAlive'
  BY <1>0, <1>u DEF TableInv, TypeOK, ParentAlive, Alive
<1>4. NoMissedExit'
  BY <1>0, <1>u DEF TableInv, TypeOK, NoMissedExit, Alive, Zombies, Children
<1>5. EmbryoOwned'
  BY <1>0, <1>u DEF TableInv, TypeOK, EmbryoOwned, Alive
<1>6. InitAlive'
  BY <1>0, <1>u DEF TableInv, TypeOK, InitAlive, Alive
<1>7. PidsUnique'
  BY <1>0, <1>u DEF TableInv, TypeOK, PidsUnique, Alive
<1>8. ForkOwns'
  BY <1>0, <1>u DEF TableInv, TypeOK, ForkOwns, Alive
<1> QED
  BY <1>1, <1>2, <1>3, <1>4, <1>5, <1>6, <1>7, <1>8, PidsFindProcess, PTL DEF TableInv

\* A failed fork() frees its own embryo, and the pid stays in the slot.
LEMMA ForkFailStep ==
  ASSUME TableInv, NEW s \in Slot, fork_fail(s)
  PROVE  TableInv'
<1> USE DEF fork_fail, ForkFailed, cpuVars
<1>0. np[s] \in Slot /\ state[np[s]] = "EMBRYO" /\ np[s] # s
  BY DEF TableInv, TypeOK, ForkOwns, Alive
<1>1. TypeOK'
  BY <1>0 DEF TableInv, TypeOK, State, Kpc
<1>2. OneCpu'
  BY <1>0 DEF TableInv, TypeOK, OneCpu, Alive
<1>3. ParentAlive'
  BY <1>0 DEF TableInv, TypeOK, ParentAlive, Alive
<1>4. NoMissedExit'
  BY <1>0 DEF TableInv, TypeOK, NoMissedExit, Alive, Zombies, Children
<1>5. EmbryoOwned'
  BY <1>0 DEF TableInv, TypeOK, EmbryoOwned, Alive
<1>6. InitAlive'
  BY <1>0 DEF TableInv, TypeOK, InitAlive, Alive
<1>7. PidsUnique'
  BY <1>0 DEF TableInv, TypeOK, PidsUnique, Alive
<1>8. ForkOwns'
  BY <1>0 DEF TableInv, TypeOK, ForkOwns, Alive
<1> QED
  BY <1>1, <1>2, <1>3, <1>4, <1>5, <1>6, <1>7, <1>8, PidsFindProcess, PTL DEF TableInv

\* fork() makes itself the parent of its embryo.
LEMMA ForkCopyStep ==
  ASSUME TableInv, NEW s \in Slot, fork_copy(s)
  PROVE  TableInv'
<1> USE DEF fork_copy, cpuVars
<1>0. np[s] \in Slot /\ state[np[s]] = "EMBRYO" /\ np[s] \notin {s, initproc}
  BY DEF TableInv, TypeOK, ForkOwns, InitAlive, Alive
<1>1. TypeOK'
  BY <1>0 DEF TableInv, TypeOK, State, Kpc
<1>2. OneCpu'
  BY <1>0 DEF TableInv, TypeOK, OneCpu, Alive
<1>3. ParentAlive'
  BY <1>0 DEF TableInv, TypeOK, ParentAlive, Alive
<1>4. NoMissedExit'
  BY <1>0 DEF TableInv, TypeOK, NoMissedExit, Alive, Zombies, Children
<1>5. EmbryoOwned'
  BY <1>0 DEF TableInv, TypeOK, EmbryoOwned, Alive
<1>6. InitAlive'
  BY <1>0 DEF TableInv, TypeOK, InitAlive, Alive
<1>7. PidsUnique'
  BY <1>0 DEF TableInv, TypeOK, PidsUnique, Alive
<1>8. ForkOwns'
  BY <1>0 DEF TableInv, TypeOK, ForkOwns, Alive
<1> QED
  BY <1>1, <1>2, <1>3, <1>4, <1>5, <1>6, <1>7, <1>8, PidsFindProcess, PTL DEF TableInv

\* The child that fork() makes runnable has a parent that is alive.
LEMMA ForkStep ==
  ASSUME TableInv, NEW s \in Slot, fork(s)
  PROVE  TableInv'
<1> USE DEF fork, cpuVars
<1>0. /\ np[s] \in Slot /\ state[np[s]] = "EMBRYO" /\ np[s] # s /\ np[np[s]] = null
      /\ parent[np[s]] = s
  BY DEF TableInv, TypeOK, ForkOwns, Alive
<1>1. TypeOK'
  BY <1>0 DEF TableInv, TypeOK, State, Kpc
<1>2. OneCpu'
  BY <1>0 DEF TableInv, TypeOK, OneCpu, Alive
<1>3. ParentAlive'
  BY <1>0 DEF TableInv, TypeOK, ParentAlive, Alive
<1>4. NoMissedExit'
  BY <1>0 DEF TableInv, TypeOK, NoMissedExit, Alive, Zombies, Children
<1>5. EmbryoOwned'
  BY <1>0 DEF TableInv, TypeOK, EmbryoOwned, Alive
<1>6. InitAlive'
  BY <1>0 DEF TableInv, TypeOK, InitAlive, Alive
<1>7. PidsUnique'
  BY <1>0 DEF TableInv, TypeOK, PidsUnique, Alive
<1>8. ForkOwns'
  BY <1>0 DEF TableInv, TypeOK, ForkOwns, Alive
<1> QED
  BY <1>1, <1>2, <1>3, <1>4, <1>5, <1>6, <1>7, <1>8, PidsFindProcess, PTL DEF TableInv

\* allocproc() takes a slot that no fork() has, and a pid that no slot has.
LEMMA AllocprocStep ==
  ASSUME TableInv, NEW s \in Slot, allocproc(s)
  PROVE  TableInv'
<1> DEFINE e == First(Unused)
<1>1. CASE Unused = {}
  <2>1. PICK l \in Kpc \ {"fork", "fork2"} : Goto(s, l)
    BY <1>1 DEF allocproc, ForkFailed, Kpc
  <2>2. /\ kpc[s] \notin {"fork", "fork2"} /\ killed' \in [Slot -> BOOLEAN]
        /\ UNCHANGED <<state, pid, parent, chan, nextpid, proc, scan, np, panicked>>
    BY <1>1 DEF allocproc, cpuVars, TableInv, TypeOK
  <2> QED
    BY <2>1, <2>2, MoveStep
<1>2. CASE Unused # {}
  <2>1. e \in Slot /\ state[e] = "UNUSED"
    BY <1>2, FirstIn DEF Unused
  <2>2. /\ state' = [state EXCEPT ![e] = "EMBRYO"]
        /\ pid' = [pid EXCEPT ![e] = nextpid] /\ nextpid' = nextpid + 1
        /\ np' = [np EXCEPT ![s] = e] /\ kpc' = [kpc EXCEPT ![s] = "fork"]
        /\ UNCHANGED <<parent, killed, chan, proc, scan, panicked>>
        /\ state[s] = "RUNNING" /\ kpc[s] = "user"
    BY <1>2 DEF allocproc, cpuVars
  <2> HIDE DEF e
  <2>3. s # e /\ np[s] = null /\ np[e] = null
    BY <2>1, <2>2 DEF TableInv, TypeOK, ForkOwns, Alive
  <2>4. TypeOK'
    BY <2>1, <2>2, <2>3 DEF TableInv, TypeOK, State, Kpc
  <2>5. OneCpu'
    BY <2>1, <2>2, <2>3 DEF TableInv, TypeOK, OneCpu, Alive
  <2>6. ParentAlive'
    BY <2>1, <2>2, <2>3 DEF TableInv, TypeOK, ParentAlive, Alive
  <2>7. NoMissedExit'
    BY <2>1, <2>2, <2>3 DEF TableInv, TypeOK, NoMissedExit, Alive, Zombies, Children
  <2>8. EmbryoOwned'
    <3>1. \A r \in Slot : np[r] # e
      BY <2>1 DEF TableInv, TypeOK, ForkOwns
    <3>2. \A r \in Slot : np'[r] = e <=> r = s
      BY <2>2, <3>1 DEF TableInv, TypeOK
    <3>3. \A q \in Slot \ {e}, r \in Slot :
            np'[r] = q /\ kpc'[r] \in {"fork", "fork2"}
              <=> np[r] = q /\ kpc[r] \in {"fork", "fork2"}
      BY <2>2, <2>3, SlotFacts DEF TableInv, TypeOK
    <3>4. \A q \in Slot \ {e}, r \in Slot : np'[r] = q <=> np[r] = q
      BY <2>2, <2>3, SlotFacts DEF TableInv, TypeOK
    <3>5. \A q \in Slot \ {e} : state'[q] = state[q]
      BY <2>2 DEF TableInv, TypeOK
    <3>6. state'[e] = "EMBRYO" /\ kpc'[s] = "fork"
      BY <2>1, <2>2 DEF TableInv, TypeOK
    <3> QED
      BY <3>2, <3>3, <3>4, <3>5, <3>6 DEF TableInv, EmbryoOwned
  <2>9. InitAlive'
    BY <2>1, <2>2, <2>3 DEF TableInv, TypeOK, InitAlive, Alive
  <2>10. PidsUnique'
    BY <2>1, <2>2, <2>3 DEF TableInv, TypeOK, PidsUnique, Alive
  <2>11. ForkOwns'
    BY <2>1, <2>2, <2>3 DEF TableInv, TypeOK, ForkOwns, Alive
  <2> QED
    BY <2>4, <2>5, <2>6, <2>7, <2>8, <2>9, <2>10, <2>11, PidsFindProcess, PTL DEF TableInv
<1> QED
  BY <1>1, <1>2

\* wait() frees the slot of a zombie, which nobody runs, forks into or waits for.
LEMMA WaitReapStep ==
  ASSUME TableInv, NEW s \in Slot, wait_reap(s)
  PROVE  TableInv'
<1> DEFINE z == First(Zombies(s))
<1>z. z \in Slot /\ state[z] = "ZOMBIE" /\ parent[z] = s
  BY FirstIn DEF wait_reap, Zombies, Children
<1>u. /\ state' = [state EXCEPT ![z] = "UNUSED"] /\ pid' = [pid EXCEPT ![z] = 0]
      /\ parent' = [parent EXCEPT ![z] = null]
      /\ killed' = [killed EXCEPT ![z] = FALSE]
      /\ kpc' = [kpc EXCEPT ![s] = "ret"]
      /\ UNCHANGED <<chan, nextpid, proc, scan, np, panicked>>
      /\ state[s] = "RUNNING" /\ kpc[s] = "wait"
  BY DEF wait_reap, cpuVars
<1> HIDE DEF z
<1>1. TypeOK'
  BY <1>z, <1>u DEF TableInv, TypeOK, State, Kpc
<1>2. OneCpu'
  BY <1>z, <1>u DEF TableInv, TypeOK, OneCpu, Alive
<1>3. ParentAlive'
  BY <1>z, <1>u DEF TableInv, TypeOK, ParentAlive, Alive
<1>4. NoMissedExit'
  BY <1>z, <1>u DEF TableInv, TypeOK, NoMissedExit, Alive, Zombies, Children
<1>5. EmbryoOwned'
  BY <1>z, <1>u DEF TableInv, TypeOK, EmbryoOwned, Alive
<1>6. InitAlive'
  BY <1>z, <1>u DEF TableInv, TypeOK, InitAlive, Alive
<1>7. PidsUnique'
  BY <1>z, <1>u DEF TableInv, TypeOK, PidsUnique, Alive
<1>8. ForkOwns'
  BY <1>z, <1>u DEF TableInv, TypeOK, ForkOwns, Alive
<1> QED
  BY <1>1, <1>2, <1>3, <1>4, <1>5, <1>6, <1>7, <1>8, PidsFindProcess, PTL DEF TableInv

\* kill() makes at most one sleeper runnable.
LEMMA KillStep ==
  ASSUME TableInv, NEW s \in Slot, NEW n \in KillPids, kill(s, n)
  PROVE  TableInv'
<1>u. /\ state' \in [Slot -> State] /\ killed' \in [Slot -> BOOLEAN]
      /\ \A q \in Slot : \/ state'[q] = state[q]
                         \/ state[q] = "SLEEPING" /\ state'[q] = "RUNNABLE"
  <2> DEFINE M == {q \in Slot : pid[q] = n}
             k == First(M)
  <2>1. CASE M = {}
    BY <2>1 DEF kill, TableInv, TypeOK
  <2>2. CASE M # {}
    <3>1. k \in Slot
      BY <2>2, FirstIn
    <3>2. /\ killed' = [killed EXCEPT ![k] = TRUE]
          /\ state' = [state EXCEPT ![k] = IF @ = "SLEEPING" THEN "RUNNABLE" ELSE @]
      BY <2>2 DEF kill
    <3> HIDE DEF k, M
    <3> QED
      BY <3>1, <3>2 DEF TableInv, TypeOK, State
  <2> QED
    BY <2>1, <2>2
<1>v. /\ kpc' = [kpc EXCEPT ![s] = "ret"]
      /\ UNCHANGED <<pid, parent, chan, nextpid, proc, scan, np, panicked>>
      /\ state[s] = "RUNNING" /\ kpc[s] = "user"
  BY DEF kill, cpuVars
<1>1. TypeOK'
  BY <1>u, <1>v DEF TableInv, TypeOK, State, Kpc
<1>2. OneCpu'
  BY <1>u, <1>v DEF TableInv, TypeOK, OneCpu, Alive
<1>3. ParentAlive'
  BY <1>u, <1>v DEF TableInv, TypeOK, ParentAlive, Alive
<1>4. NoMissedExit'
  BY <1>u, <1>v DEF TableInv, TypeOK, NoMissedExit, Alive, Zombies, Children
<1>5. EmbryoOwned'
  BY <1>u, <1>v DEF TableInv, TypeOK, EmbryoOwned, Alive
<1>6. InitAlive'
  BY <1>u, <1>v DEF TableInv, TypeOK, InitAlive, Alive
<1>7. PidsUnique'
  BY <1>u, <1>v DEF TableInv, TypeOK, PidsUnique, Alive
<1>8. ForkOwns'
  BY <1>u, <1>v DEF TableInv, TypeOK, ForkOwns, Alive
<1> QED
  BY <1>1, <1>2, <1>3, <1>4, <1>5, <1>6, <1>7, <1>8, PidsFindProcess, PTL DEF TableInv

\* exit() leaves no child behind and no zombie unnoticed.
LEMMA ExitStep ==
  ASSUME TableInv, NEW s \in Slot, exit(s)
  PROVE  TableInv'
<1>1. CASE s = initproc
  <2>1. /\ UNCHANGED <<state, pid, parent, killed, chan, nextpid, proc, scan, kpc, np>>
        /\ panicked' \in BOOLEAN
    BY <1>1 DEF exit
  <2> QED
    BY <2>1 DEF TableInv, TypeOK, OneCpu, ParentAlive, NoMissedExit, Zombies, Children,
         InitAlive, PidsUnique, ForkOwns, EmbryoOwned, KillFindsProcess
<1>2. CASE s # initproc
  <2> DEFINE w == ExitWakeups(s)
  <2>1. /\ state' = [w EXCEPT ![s] = "ZOMBIE"] /\ parent' = Abandoned(s)
        /\ kpc' = [kpc EXCEPT ![s] = "none"]
        /\ proc' = [c \in CPU |-> IF proc[c] = s THEN null ELSE proc[c]]
        /\ UNCHANGED <<pid, killed, chan, nextpid, scan, np, panicked>>
        /\ state[s] = "RUNNING" /\ kpc[s] = "exit"
    BY <1>2 DEF exit, sched
  <2>2. /\ w \in [Slot -> State]
        /\ \A q \in Slot : \/ w[q] = state[q]
                           \/ state[q] = "SLEEPING" /\ w[q] = "RUNNABLE"
        /\ \A q \in Slot : w[q] = "SLEEPING" => chan[q] # parent[s]
        /\ \A q \in Slot : w[q] = "SLEEPING" /\ chan[q] = initproc => Zombies(s) = {}
    BY ExitWakeupEffect DEF TableInv
  <2> HIDE DEF w
  <2>3. /\ state' \in [Slot -> State] /\ state'[s] = "ZOMBIE"
        /\ \A q \in Slot \ {s} : \/ state'[q] = state[q]
                                 \/ state[q] = "SLEEPING" /\ state'[q] = "RUNNABLE"
    BY <2>1, <2>2 DEF State
  <2>4. /\ parent' \in [Slot -> Slot \cup {null}]
        /\ \A q \in Slot : parent'[q] = IF parent[q] = s THEN initproc ELSE parent[q]
    BY <2>1 DEF TableInv, TypeOK, Abandoned
  <2>5. \A q \in Slot : state'[q] = "SLEEPING" => q # s /\ w[q] = "SLEEPING"
    BY <2>1, <2>2
  <2>6. TypeOK'
    BY <1>2, <2>1, <2>3, <2>4 DEF TableInv, TypeOK, State, Kpc
  <2>7. OneCpu'
    BY <1>2, <2>1, <2>3, <2>4 DEF TableInv, TypeOK, OneCpu, Alive
  <2>8. ParentAlive'
    <3>0. parent'[initproc] = null /\ \A q \in Slot : parent'[q] # q
      BY <1>2, <2>4 DEF TableInv, ParentAlive
    <3> SUFFICES ASSUME NEW q \in Slot \ {initproc}, state'[q] \in Alive \cup {"ZOMBIE"}
                 PROVE  parent'[q] # null /\ state'[parent'[q]] \in Alive
      BY <3>0 DEF ParentAlive
    <3>1. parent[q] # null /\ parent[q] \in Slot /\ state[parent[q]] \in Alive
      BY <2>1, <2>3 DEF TableInv, TypeOK, ParentAlive, Alive
    <3>2. state'[initproc] \in Alive
      BY <1>2, <2>3 DEF TableInv, InitAlive, Alive
    <3>3. CASE parent[q] = s
      BY <2>4, <3>2, <3>3
    <3>4. CASE parent[q] # s
      BY <2>3, <2>4, <3>1, <3>4 DEF Alive
    <3> QED
      BY <3>3, <3>4
  <2>9. NoMissedExit'
    <3> SUFFICES ASSUME NEW q \in Slot, state'[q] = "SLEEPING", chan[q] = q,
                        NEW z \in Slot, parent'[z] = q, state'[z] = "ZOMBIE"
                 PROVE  FALSE
      <4>1. chan' = chan
        BY <2>1
      <4> QED
        BY <4>1 DEF NoMissedExit, Zombies, Children
    <3>1. q # s /\ w[q] = "SLEEPING" /\ state[q] = "SLEEPING"
      BY <2>2, <2>5
    <3>2. CASE z = s
      BY <2>2, <2>4, <3>1, <3>2 DEF TableInv, ParentAlive
    <3>3. CASE z # s /\ parent[z] = s
      BY <2>2, <2>3, <2>4, <3>1, <3>3 DEF Zombies, Children
    <3>4. CASE z # s /\ parent[z] # s
      BY <2>3, <2>4, <3>1, <3>4 DEF TableInv, NoMissedExit, Zombies, Children
    <3> QED
      BY <3>2, <3>3, <3>4
  <2>10. EmbryoOwned'
    BY <1>2, <2>1, <2>3, <2>4 DEF TableInv, TypeOK, EmbryoOwned, Alive
  <2>11. InitAlive'
    BY <1>2, <2>1, <2>3, <2>4 DEF TableInv, TypeOK, InitAlive, Alive
  <2>12. PidsUnique'
    BY <1>2, <2>1, <2>3, <2>4 DEF TableInv, TypeOK, PidsUnique, Alive
  <2>13. ForkOwns'
    BY <1>2, <2>1, <2>3, <2>4 DEF TableInv, TypeOK, ForkOwns, Alive
  <2> QED
    BY <2>6, <2>7, <2>8, <2>9, <2>10, <2>11, <2>12, <2>13, PidsFindProcess, PTL DEF TableInv
<1> QED
  BY <1>1, <1>2

--------------------------------------------------------------------------------
(* The invariant and what follows from it. *)

LEMMA TableInit == Init => TableInv
<1> SUFFICES ASSUME Init PROVE TableInv
  OBVIOUS
<1>1. TypeOK
  <2>1. 1 \in Slot
    BY ProcConstants DEF Slot
  <2>2. state \in [Slot -> State] /\ pid \in [Slot -> Nat] /\ kpc \in [Slot -> Kpc]
    BY DEF Init, State, Kpc
  <2>3. /\ parent \in [Slot -> Slot \cup {null}] /\ np \in [Slot -> Slot \cup {null}]
        /\ chan \in [Slot -> Slot \cup {null, Ticks}]
    BY DEF Init
  <2>4. killed \in [Slot -> BOOLEAN] /\ panicked \in BOOLEAN
    BY DEF Init
  <2>5. proc \in [CPU -> Slot \cup {null}] /\ scan \in [CPU -> Slot] /\ nextpid \in Nat \ {0}
    BY <2>1 DEF Init
  <2> QED
    BY <2>2, <2>3, <2>4, <2>5 DEF TypeOK
<1>2. OneCpu /\ ParentAlive /\ InitAlive
  BY DEF Init, OneCpu, ParentAlive, InitAlive, Alive
<1>5. EmbryoOwned /\ ForkOwns
  BY DEF Init, EmbryoOwned, ForkOwns
<1>3. NoMissedExit
  BY DEF Init, NoMissedExit
<1>4. PidsUnique
  BY DEF Init, PidsUnique
<1> QED
  BY <1>1, <1>2, <1>3, <1>4, <1>5, PidsFindProcess DEF TableInv

LEMMA TableStep == TableInv /\ [Next]_vars => TableInv'
<1> SUFFICES ASSUME TableInv, [Next]_vars PROVE TableInv'
  OBVIOUS
<1>1. ASSUME NEW c \in CPU, scheduler(c) PROVE TableInv'
  BY <1>1, SchedulerStep
<1>2. ASSUME NEW s \in Slot, yield(s) PROVE TableInv'
  BY <1>2, YieldStep
<1>3. ASSUME NEW s \in Slot, Kernel(s) PROVE TableInv'
  <2>1. ASSUME trap_killed(s) \/ trap_ret(s) \/ wait_none(s) \/ tick_done(s) \/ tick_wait(s)
        PROVE  TableInv'
    <3>1. PICK l \in Kpc \ {"fork", "fork2"} : Goto(s, l)
      BY <2>1 DEF trap_killed, trap_ret, wait_none, tick_done, tick_wait, Kpc
    <3>2. /\ kpc[s] \notin {"fork", "fork2"} /\ killed' \in [Slot -> BOOLEAN]
          /\ UNCHANGED <<state, pid, parent, chan, nextpid, proc, scan, np, panicked>>
      BY <2>1 DEF trap_killed, trap_ret, wait_none, tick_done, tick_wait, tableVars, cpuVars,
                  TableInv, TypeOK
    <3> QED
      BY <3>1, <3>2, MoveStep
  <2> QED
    BY <1>3, <2>1, ForkFailStep, ForkCopyStep, ForkStep, ExitStep, WaitReapStep, WaitSleepStep,
       SleepStep DEF Kernel
<1>4. ASSUME NEW s \in Slot, User(s) PROVE TableInv'
  <2>1. ASSUME sys_exit(s) \/ sys_wait(s) \/ sys_sleep(s) \/ trap_fault(s)
        PROVE  TableInv'
    <3>1. PICK l \in Kpc \ {"fork", "fork2"} : Goto(s, l)
      BY <2>1 DEF sys_exit, sys_wait, sys_sleep, trap_fault, Kpc
    <3>2. /\ kpc[s] \notin {"fork", "fork2"}
          /\ UNCHANGED <<state, pid, parent, chan, nextpid, proc, scan, np, panicked>>
      BY <2>1 DEF sys_exit, sys_wait, sys_sleep, trap_fault, tableVars, cpuVars
    <3>3. killed' \in [Slot -> BOOLEAN]
      BY <2>1 DEF sys_exit, sys_wait, sys_sleep, trap_fault, tableVars, TableInv, TypeOK
    <3> QED
      BY <3>1, <3>2, <3>3, MoveStep
  <2> QED
    BY <1>4, <2>1, AllocprocStep, KillStep DEF User
<1>5. ASSUME UNCHANGED vars PROVE TableInv'
  BY <1>5 DEF vars, TableInv, TypeOK, OneCpu, ParentAlive, NoMissedExit, Zombies, Children,
       InitAlive, PidsUnique, ForkOwns, EmbryoOwned, KillFindsProcess
<1> QED
  BY <1>1, <1>2, <1>3, <1>4, <1>5, TickStep DEF Next, Halted

\* Whatever the processes and CPUs do, the process table of proc.c keeps its
\* invariant: one CPU for a process, living parents, no missed exit, pids that
\* kill() finds, embryos that belong to one fork().
THEOREM ProcInvariant == Spec => []TableInv
  BY TableInit, TableStep, PTL DEF Spec

\* No step of proc.c frees the slot of a process that can still run, and a zombie
\* leaves the table only through the wait() of its parent.
THEOREM ProcReapedByParent == Spec => ReapedByParent
<1> DEFINE Reaped == \A s \in Slot : state[s] \in Alive \cup {"ZOMBIE"} /\ state'[s] = "UNUSED" =>
                        /\ state[s] = "ZOMBIE" /\ killed'[s] = FALSE
                        /\ parent[s] # null /\ At(parent[s], "wait")
<1>1. TableInv /\ [Next]_vars => [Reaped]_vars
  <2> SUFFICES ASSUME TableInv, Next, NEW q \in Slot, state[q] \in Alive \cup {"ZOMBIE"},
                      state'[q] = "UNUSED"
               PROVE  /\ state[q] = "ZOMBIE" /\ killed'[q] = FALSE
                      /\ parent[q] # null /\ At(parent[q], "wait")
    OBVIOUS
  <2>1. state \in [Slot -> State] /\ killed \in [Slot -> BOOLEAN] /\ state[q] # "UNUSED"
    BY DEF TableInv, TypeOK, Alive
  <2>2. ASSUME NEW s \in Slot, wait_reap(s)
        PROVE  /\ state[q] = "ZOMBIE" /\ killed'[q] = FALSE
               /\ parent[q] # null /\ At(parent[q], "wait")
    <3> DEFINE z == First(Zombies(s))
    <3>1. z \in Slot /\ state[z] = "ZOMBIE" /\ parent[z] = s
      BY <2>2, FirstIn DEF wait_reap, Zombies, Children
    <3>2. /\ state' = [state EXCEPT ![z] = "UNUSED"] /\ killed' = [killed EXCEPT ![z] = FALSE]
          /\ At(s, "wait")
      BY <2>2 DEF wait_reap
    <3> HIDE DEF z
    <3> QED
      BY <2>1, <3>1, <3>2
  <2>3. ASSUME NEW s \in Slot, fork_fail(s) PROVE FALSE
    <3>1. np[s] \in Slot /\ state[np[s]] = "EMBRYO"
      BY <2>3 DEF fork_fail, TableInv, TypeOK, ForkOwns
    <3> QED
      BY <2>1, <2>3, <3>1 DEF fork_fail, Alive
  <2>4. ASSUME NEW s \in Slot, exit(s) PROVE FALSE
    BY <2>1, <2>4, ExitWakeupEffect DEF exit, TableInv
  <2>5. ASSUME tick PROVE FALSE
    BY <2>1, <2>5, WakeupEffect DEF tick, TableInv
  <2>6. ASSUME NEW s \in Slot, NEW n \in KillPids, kill(s, n) PROVE FALSE
    BY <2>1, <2>6 DEF kill
  <2>7. ASSUME NEW s \in Slot,
               \/ yield(s) \/ fork(s) \/ wait_sleep(s) \/ sleep(s) \/ allocproc(s)
        PROVE  FALSE
    BY <2>1, <2>7 DEF yield, fork, wait_sleep, sleep, allocproc
  <2>8. ASSUME NEW s \in Slot,
               \/ trap_killed(s) \/ trap_ret(s) \/ fork_copy(s) \/ wait_none(s) \/ tick_done(s)
               \/ tick_wait(s) \/ sys_exit(s) \/ sys_wait(s) \/ sys_sleep(s) \/ trap_fault(s)
        PROVE  FALSE
    BY <2>1, <2>8 DEF trap_killed, trap_ret, fork_copy, wait_none, tick_done, tick_wait, sys_exit,
                      sys_wait, sys_sleep, trap_fault, tableVars
  <2>9. ASSUME NEW c \in CPU, scheduler(c) PROVE FALSE
    BY <2>1, <2>9 DEF scheduler
  <2>10. ASSUME Halted PROVE FALSE
    BY <2>1, <2>10 DEF Halted, vars
  <2> QED
    BY <2>2, <2>3, <2>4, <2>5, <2>6, <2>7, <2>8, <2>9, <2>10 DEF Next, Kernel, User
<1> QED
  BY <1>1, ProcInvariant, PTL DEF Spec, ReapedByParent
================================================================================
