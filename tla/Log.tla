---------------------------------- MODULE Log ----------------------------------
(***************************************************************************)
(* log.c: the redo log under every file system call, with the part of the  *)
(* buffer cache it depends on (bio.c: pinning by B_DIRTY, recycling of     *)
(* clean buffers) and with crashes between any two disk writes.            *)
(*                                                                         *)
(* A process is outside a call ("idle"), in begin_op() ("begin", or        *)
(* "sleeping" on channel &log), between begin_op() and end_op() ("inop"),  *)
(* in log_write() between its unlocked check and acquire(&log.lock)        *)
(* ("checked"), or the one that commits ("commit").  Everything under      *)
(* log.lock is one step.  A disk write is one step: BSIZE is one sector.   *)
(***************************************************************************)
EXTENDS Integers, Sequences, FiniteSets

CONSTANTS
    Proc,         \* processes that make file system calls
    Block,        \* blocks outside the log (inodes, bitmap, data)
    Data,         \* what a block can hold
    AfterLog,     \* the block that follows the log on disk (mkfs.c layout)
    MAXOPBLOCKS,  \* param.h: max # of blocks any FS op writes
    LOGSIZE,      \* param.h: entries in struct logheader
    NLOG,         \* sb.nlog, which is log.size: header block and log blocks
    OPWRITES,     \* distinct blocks a call of this workload really logs
    NoData        \* a block that is in no buffer

ASSUME LogConstants ==
    /\ IsFiniteSet(Proc) /\ IsFiniteSet(Block)
    /\ AfterLog \in Block
    /\ NoData \notin Data
    /\ MAXOPBLOCKS \in Nat \ {0}
    /\ LOGSIZE \in Nat \ {0}
    /\ NLOG \in Nat \ {0}
    /\ OPWRITES \in 0..MAXOPBLOCKS
    /\ MAXOPBLOCKS =< LOGSIZE
    /\ Data # {}

VARIABLES
    \* on disk
    home,         \* home[b]: the block's own location
    dlog,         \* dlog[i]: log block i, at log.start + i
    dhead,        \* the block numbers in the header on disk; its n is Len
    \* struct log
    lh,           \* log.lh; its n is Len(lh)
    outstanding,  \* log.outstanding
    committing,   \* log.committing
    \* buffer cache
    buf,          \* buf[b]: contents of the buffer of block b, or NoData
    dirty,        \* blocks whose buffer has B_DIRTY
    \* processes
    pc,           \* where each process is
    wset,         \* wset[p]: blocks p has logged in this call
    tgt,          \* tgt[p]: the locked buffer p is passing to log_write()
    \* the thread inside commit() or recover_from_log()
    phase,        \* "none", or the loop or write it is at
    tail,         \* its loop variable
    \* machine
    mode          \* "boot" (initlog), "up", or "panic"

diskVars == <<home, dlog, dhead>>
logVars  == <<lh, outstanding, committing>>
bufVars  == <<buf, dirty>>
procVars == <<pc, wset, tgt>>
stepVars == <<phase, tail>>
vars == <<home, dlog, dhead, lh, outstanding, committing, buf, dirty,
          pc, wset, tgt, phase, tail, mode>>

Slot == 1..(NLOG - 1)            \* the blocks of the log after its header
PC == {"idle", "begin", "sleeping", "inop", "checked", "commit"}
Phase == {"none", "readhead", "writelog", "writehead", "install", "clear",
          "finish"}
Entries(s) == {s[i] : i \in 1..Len(s)}

\* What bread(b) returns: the buffer if there is one, else the disk.
Bread(b) == IF buf[b] # NoData THEN buf[b] ELSE home[b]

\* Buffers whose sleep-lock is held across steps: the ones in log_write().
Locked == {tgt[p] : p \in {q \in Proc : pc[q] = "checked"}}

\* Processes between begin_op() and end_op().
InOp == {p \in Proc : pc[p] \in {"inop", "checked"}}

(***************************************************************************)
(* A freshly made file system: mkfs leaves the log empty.                  *)
(***************************************************************************)
Init ==
    /\ home \in [Block -> Data]
    /\ \E v \in Data : dlog = [i \in Slot |-> v]
    /\ dhead = <<>>
    /\ lh = <<>> /\ outstanding = 0 /\ committing = FALSE
    /\ buf = [b \in Block |-> NoData] /\ dirty = {}
    /\ pc = [p \in Proc |-> "idle"]
    /\ wset = [p \in Proc |-> {}]
    /\ tgt = [p \in Proc |-> AfterLog]
    /\ phase = "readhead" /\ tail = 1
    /\ mode = "boot"

Goto(p, l) == pc' = [pc EXCEPT ![p] = l]

\* wakeup(&log): every process asleep on the log runs begin_op()'s loop again.
Wakeup == [q \in Proc |-> IF pc[q] = "sleeping" THEN "begin" ELSE pc[q]]

\* panic(): the CPUs freeze, and only a reboot gets the machine back.
PanicIf(cond) == mode' = IF cond THEN "panic" ELSE mode

(***************************************************************************)
(* The system calls.                                                       *)
(***************************************************************************)
Call(p) ==
    /\ mode = "up" /\ pc[p] = "idle"
    /\ Goto(p, "begin")
    /\ UNCHANGED <<diskVars, logVars, bufVars, wset, tgt, stepVars, mode>>

\* Mutant: a call may enter while commit() runs.
MustWait_whileCommitting ==
    Len(lh) + (outstanding + 1) * MAXOPBLOCKS > LOGSIZE

MustWait ==
    \/ committing
    \/ Len(lh) + (outstanding + 1) * MAXOPBLOCKS > LOGSIZE

begin_op_sleep(p) ==
    /\ mode = "up" /\ pc[p] = "begin" /\ MustWait
    /\ Goto(p, "sleeping")
    /\ UNCHANGED <<diskVars, logVars, bufVars, wset, tgt, stepVars, mode>>

begin_op(p) ==
    /\ mode = "up" /\ pc[p] = "begin" /\ ~MustWait
    /\ outstanding' = outstanding + 1
    /\ Goto(p, "inop")
    /\ wset' = [wset EXCEPT ![p] = {}]
    /\ UNCHANGED <<diskVars, lh, committing, bufVars, tgt, stepVars, mode>>

\* bread(b), change the data, and enter log_write(): its checks read the log
\* without log.lock.  A call logs at most OPWRITES different blocks.
log_write_check(p, b, v) ==
    /\ mode = "up" /\ pc[p] = "inop" /\ b \notin Locked
    /\ Cardinality(wset[p] \cup {b}) =< OPWRITES
    /\ buf' = [buf EXCEPT ![b] = v]
    /\ tgt' = [tgt EXCEPT ![p] = b]
    /\ Goto(p, "checked")
    /\ PanicIf(\/ Len(lh) >= LOGSIZE \/ Len(lh) >= NLOG - 1  \* too big
               \/ outstanding < 1)                           \* outside of trans
    /\ UNCHANGED <<diskVars, logVars, dirty, wset, stepVars>>

\* Mutant: the buffer is not pinned.
log_write_noPin(p) ==
    /\ mode = "up" /\ pc[p] = "checked"
    /\ lh' = IF tgt[p] \in Entries(lh) THEN lh ELSE Append(lh, tgt[p])
    /\ wset' = [wset EXCEPT ![p] = @ \cup {tgt[p]}]
    /\ Goto(p, "inop")
    /\ UNCHANGED <<diskVars, outstanding, committing, bufVars, tgt, stepVars,
                   mode>>

\* The rest of log_write(), under log.lock, and the caller's brelse().
log_write(p) ==
    /\ mode = "up" /\ pc[p] = "checked"
    /\ lh' = IF tgt[p] \in Entries(lh) THEN lh ELSE Append(lh, tgt[p])
    /\ dirty' = dirty \cup {tgt[p]}
    /\ wset' = [wset EXCEPT ![p] = @ \cup {tgt[p]}]
    /\ tgt' = [tgt EXCEPT ![p] = AfterLog]
    /\ Goto(p, "inop")
    /\ UNCHANGED <<diskVars, outstanding, committing, buf, stepVars, mode>>

\* Mutant: no wakeup() when reserved space is given back.
end_op_noWakeup(p) ==
    /\ mode = "up" /\ pc[p] = "inop" /\ outstanding # 1
    /\ outstanding' = outstanding - 1
    /\ PanicIf(committing)
    /\ Goto(p, "idle")
    /\ UNCHANGED <<diskVars, lh, committing, bufVars, wset, tgt, stepVars>>

\* end_op() of a call that is not the last one outstanding.
end_op(p) ==
    /\ mode = "up" /\ pc[p] = "inop" /\ outstanding # 1
    /\ outstanding' = outstanding - 1
    /\ PanicIf(committing)
    /\ pc' = [Wakeup EXCEPT ![p] = "idle"]
    /\ UNCHANGED <<diskVars, lh, committing, bufVars, wset, tgt, stepVars>>

\* end_op() of the last one: it leaves the lock and enters commit().
end_op_commit(p) ==
    /\ mode = "up" /\ pc[p] = "inop" /\ outstanding = 1
    /\ outstanding' = 0
    /\ PanicIf(committing)
    /\ committing' = TRUE
    /\ Goto(p, "commit")
    /\ phase' = IF Len(lh) > 0 THEN "writelog" ELSE "finish"
    /\ tail' = 1
    /\ UNCHANGED <<diskVars, lh, bufVars, wset, tgt>>

(***************************************************************************)
(* commit() and recover_from_log(): the thread that runs them is alone in  *)
(* them, because of log.committing or because init is still booting.       *)
(***************************************************************************)
\* write_log(), one block.  Entry NLOG of the log would be AfterLog.
write_log ==
    /\ mode # "panic" /\ phase = "writelog" /\ tail =< Len(lh)
    /\ tail' = tail + 1
    /\ IF tail \in Slot
       THEN /\ dlog' = [dlog EXCEPT ![tail] = Bread(lh[tail])]
            /\ UNCHANGED <<home, bufVars>>
       ELSE /\ home' = [home EXCEPT ![AfterLog] = Bread(lh[tail])]
            /\ buf' = [buf EXCEPT ![AfterLog] = Bread(lh[tail])]
            /\ dirty' = dirty \ {AfterLog}
            /\ UNCHANGED dlog
    /\ UNCHANGED <<dhead, logVars, procVars, phase, mode>>

\* Mutant: the blocks are installed before the header is written.
write_log_done_noHead ==
    /\ mode # "panic" /\ phase = "writelog" /\ tail > Len(lh)
    /\ phase' = "install" /\ tail' = 1
    /\ UNCHANGED <<diskVars, logVars, bufVars, procVars, mode>>

write_log_done ==
    /\ mode # "panic" /\ phase = "writelog" /\ tail > Len(lh)
    /\ phase' = "writehead"
    /\ UNCHANGED <<diskVars, logVars, bufVars, procVars, tail, mode>>

\* write_head(): "the true point at which the current transaction commits".
write_head ==
    /\ mode # "panic" /\ phase = "writehead"
    /\ dhead' = lh
    /\ phase' = "install" /\ tail' = 1
    /\ UNCHANGED <<home, dlog, logVars, bufVars, procVars, mode>>

\* install_trans(), one block: the log block goes to its home location
\* through the buffer of that block, and the write clears B_DIRTY.
install_trans ==
    /\ mode # "panic" /\ phase = "install" /\ tail =< Len(lh)
    /\ LET data == IF tail \in Slot THEN dlog[tail] ELSE Bread(AfterLog)
       IN  /\ home' = [home EXCEPT ![lh[tail]] = data]
           /\ buf' = [buf EXCEPT ![lh[tail]] = data]
    /\ dirty' = dirty \ {lh[tail]}
    /\ tail' = tail + 1
    /\ UNCHANGED <<dlog, dhead, logVars, procVars, phase, mode>>

\* Mutant: the loop runs one entry too far.
install_trans_done_tooFar ==
    /\ mode # "panic" /\ phase = "install" /\ tail > Len(lh) + 1
    /\ phase' = "clear"
    /\ UNCHANGED <<diskVars, logVars, bufVars, procVars, tail, mode>>

install_trans_done ==
    /\ mode # "panic" /\ phase = "install" /\ tail > Len(lh)
    /\ phase' = "clear"
    /\ UNCHANGED <<diskVars, logVars, bufVars, procVars, tail, mode>>

\* Mutant: the transaction is erased in memory only.
write_head_clear_memOnly ==
    /\ mode # "panic" /\ phase = "clear"
    /\ lh' = <<>>
    /\ phase' = "finish"
    /\ UNCHANGED <<diskVars, outstanding, committing, bufVars, procVars,
                   tail, mode>>

\* log.lh.n = 0; write_head(): erase the transaction from the log.
write_head_clear ==
    /\ mode # "panic" /\ phase = "clear"
    /\ lh' = <<>>
    /\ dhead' = <<>>
    /\ phase' = "finish"
    /\ UNCHANGED <<home, dlog, outstanding, committing, bufVars, procVars,
                   tail, mode>>

\* The tail of end_op(): committing = 0 and wakeup(&log).
end_op_finish(p) ==
    /\ mode = "up" /\ phase = "finish" /\ pc[p] = "commit"
    /\ committing' = FALSE
    /\ pc' = [Wakeup EXCEPT ![p] = "idle"]
    /\ phase' = "none"
    /\ UNCHANGED <<diskVars, lh, outstanding, bufVars, wset, tgt, tail, mode>>

\* recover_from_log(): read_head() starts it, initlog() returns at its end.
read_head ==
    /\ mode = "boot" /\ phase = "readhead"
    /\ lh' = dhead
    /\ phase' = "install" /\ tail' = 1
    /\ UNCHANGED <<diskVars, outstanding, committing, bufVars, procVars, mode>>

initlog_done ==
    /\ mode = "boot" /\ phase = "finish"
    /\ mode' = "up" /\ phase' = "none"
    /\ UNCHANGED <<diskVars, logVars, bufVars, procVars, tail>>

(***************************************************************************)
(* The buffer cache: any block may be read in by a reader outside every    *)
(* transaction (sys_read, exec), and bget() may recycle any buffer that is *)
(* unreferenced and not B_DIRTY.                                           *)
(***************************************************************************)
bread(b) ==
    /\ mode = "up" /\ buf[b] = NoData
    /\ buf' = [buf EXCEPT ![b] = home[b]]
    /\ UNCHANGED <<diskVars, logVars, dirty, procVars, stepVars, mode>>

bget_recycle(b) ==
    /\ mode # "panic" /\ buf[b] # NoData /\ b \notin dirty \cup Locked
    /\ buf' = [buf EXCEPT ![b] = NoData]
    /\ UNCHANGED <<diskVars, logVars, dirty, procVars, stepVars, mode>>

\* Power loss or reboot, at any moment: only the disk survives.
Crash ==
    /\ mode' = "boot" /\ phase' = "readhead" /\ tail' = 1
    /\ lh' = <<>> /\ outstanding' = 0 /\ committing' = FALSE
    /\ buf' = [b \in Block |-> NoData] /\ dirty' = {}
    /\ pc' = [p \in Proc |-> "idle"]
    /\ wset' = [p \in Proc |-> {}]
    /\ tgt' = [p \in Proc |-> AfterLog]
    /\ UNCHANGED diskVars

Commit ==
    \/ write_log \/ write_log_done \/ write_head
    \/ install_trans \/ install_trans_done \/ write_head_clear
    \/ \E p \in Proc : end_op_finish(p)

Boot == read_head \/ initlog_done

Syscall(p) ==
    \/ Call(p) \/ begin_op_sleep(p) \/ begin_op(p) \/ log_write(p)
    \/ end_op(p) \/ end_op_commit(p)
    \/ \E b \in Block, v \in Data : log_write_check(p, b, v)

Next ==
    \/ \E p \in Proc : Syscall(p)
    \/ Commit
    \/ Boot
    \/ \E b \in Block : bread(b) \/ bget_recycle(b)
    \/ Crash

Spec == Init /\ [][Next]_vars

\* Every system call is finite, so a call that keeps logging blocks still gets
\* to its end_op() (SF); a runnable process and the committing or booting
\* thread are scheduled (WF).  Nobody has to make a call, and nothing crashes.
Fairness ==
    /\ \A p \in Proc :
         /\ WF_vars(begin_op_sleep(p) \/ begin_op(p) \/ log_write(p))
         /\ SF_vars(end_op(p) \/ end_op_commit(p))
    /\ WF_vars(Commit)
    /\ WF_vars(Boot)

FairSpec == Spec /\ Fairness

--------------------------------------------------------------------------------
(***************************************************************************)
(* The abstract file system this implements.                               *)
(***************************************************************************)
Index(s, b) == CHOOSE i \in 1..Len(s) : s[i] = b

\* The blocks as recover_from_log() would leave them if the power failed now.
Recovered ==
    [b \in Block |-> IF b \in Entries(dhead) THEN dlog[Index(dhead, b)]
                                             ELSE home[b]]

\* The blocks as the kernel sees them.
View == [b \in Block |-> IF mode = "boot" THEN Recovered[b] ELSE Bread(b)]

Abs == INSTANCE AtomicFs WITH cur <- View, durable <- Recovered, active <- InOp

\* log.c implements AtomicFs: whatever the crash point, in commit() or in
\* recovery itself, the machine comes back with exactly the state of some
\* moment at which no call was in progress, and once write_head() has run it
\* comes back with the state that group of calls produced (log.c:11-15,99-100).
CrashAtomic == Abs!ASpec

TypeOK ==
    /\ home \in [Block -> Data] /\ dlog \in [Slot -> Data]
    /\ dhead \in Seq(Block) /\ lh \in Seq(Block)
    /\ outstanding \in Int /\ committing \in BOOLEAN
    /\ buf \in [Block -> Data \cup {NoData}] /\ dirty \in SUBSET Block
    /\ pc \in [Proc -> PC]
    /\ wset \in [Proc -> SUBSET Block] /\ tgt \in [Proc -> Block]
    /\ phase \in Phase /\ tail \in Nat \ {0}
    /\ mode \in {"boot", "up", "panic"}

\* No call that keeps to its reservation makes log_write() panic, and end_op()
\* never finds a commit running (log.c:132-134, 152, 218-221).
NoPanic == mode # "panic"

\* The in-memory header never names more blocks than the log on disk can hold,
\* although log_write() checks that before it takes log.lock (log.c:218, 223).
LogFits == Len(lh) =< NLOG - 1

\* Whoever sleeps in begin_op() has somebody to wake it: a call still in
\* progress or a commit still running (log.c:130-134, 161, 171).
SleeperHasWaker ==
    \A p \in Proc : pc[p] = "sleeping" => outstanding > 0 \/ committing

HomeWriteNamed == \A b \in Block : home'[b] # home[b] => b \in Entries(dhead)

\* Write-ahead: a block's home location changes only while the header on disk
\* names the block, so that a crash during the write is repaired by recovery
\* (log.c:193-202).
WriteAhead == [][HomeWriteNamed]_vars

\* A process asleep in begin_op() is woken, whatever the others do.
SleepersWoken == \A p \in Proc : pc[p] = "sleeping" ~> pc[p] # "sleeping"

\* Unless the machine crashes again and again, recovery comes to an end.
RecoveryEnds == <>[][~Crash]_vars => (mode = "boot" ~> mode = "up")
--------------------------------------------------------------------------------
(***************************************************************************)
(* The inductive invariant behind the theorems of LogProofs.               *)
(***************************************************************************)
Distinct(s) == \A i, j \in 1..Len(s) : s[i] = s[j] => i = j

\* Who is where: commit() has the log to itself, and so has recovery.
ProcInv ==
    /\ outstanding = Cardinality(InOp)
    /\ committing => InOp = {}
    /\ \A p, q \in Proc : pc[p] = "commit" /\ pc[q] = "commit" => p = q
    /\ \A p \in Proc : pc[p] = "commit" => committing
    /\ \A p, q \in Proc :
         pc[p] = "checked" /\ pc[q] = "checked" /\ tgt[p] = tgt[q] => p = q
    /\ mode = "boot" => ~committing /\ \A p \in Proc : pc[p] = "idle"

\* Which phases go with which mode, and what is in the headers meanwhile.
HeadInv ==
    /\ Distinct(lh) /\ Distinct(dhead)
    /\ Len(lh) =< NLOG - 1 /\ Len(dhead) =< NLOG - 1
    /\ mode = "boot" => phase \in {"readhead", "install", "clear", "finish"}
    /\ mode # "boot" => phase # "readhead" /\ (phase = "none" <=> ~committing)
    /\ phase \in {"none", "writelog", "writehead", "finish"} => dhead = <<>>
    /\ phase \in {"install", "clear"} => dhead = lh
    /\ phase \in {"finish", "readhead"} => lh = <<>>
    /\ phase = "none" /\ InOp = {} => lh = <<>>
    /\ phase \in {"writelog", "install"} => tail =< Len(lh) + 1

\* A buffer that is neither pinned nor locked agrees with the disk.
CacheInv ==
    /\ \A b \in Block \ (dirty \cup Locked) : buf[b] \in {NoData, home[b]}
    /\ \A b \in dirty \cup Locked : buf[b] # NoData
    /\ dirty = IF mode = "boot" \/ phase = "clear" THEN {}
               ELSE IF phase = "install" THEN {lh[i] : i \in tail..Len(lh)}
               ELSE Entries(lh)

\* How far the copy from cache to log, and from log to home, has come.
CopyInv ==
    /\ phase = "writelog" => \A i \in 1..(tail - 1) : dlog[i] = buf[lh[i]]
    /\ phase = "writehead" => \A i \in 1..Len(lh) : dlog[i] = buf[lh[i]]
    /\ phase = "install" => \A i \in 1..(tail - 1) : home[lh[i]] = dlog[i]
    /\ phase = "install" /\ mode # "boot" =>
         \A i \in tail..Len(lh) : buf[lh[i]] = dlog[i]
    /\ phase = "clear" => \A i \in 1..Len(lh) : home[lh[i]] = dlog[i]

\* The reserved log entries that calls in progress have not used yet.
Unused ==
    {x \in InOp \X (1..MAXOPBLOCKS) : x[2] > Cardinality(wset[x[1]])}

\* The reservation begin_op() makes: what is logged and what may still be
\* logged fit in LOGSIZE entries.
BudgetInv ==
    /\ InOp # {} => Len(lh) + Cardinality(Unused) =< LOGSIZE
    /\ \A p \in InOp : /\ wset[p] \subseteq Entries(lh)
                       /\ Cardinality(wset[p]) =< OPWRITES
    /\ \A p \in Proc : pc[p] = "checked" =>
         Cardinality(wset[p] \cup {tgt[p]}) =< OPWRITES

\* Holds whenever the reservation of an admitted call cannot overrun the log on
\* disk (LogRoom below).
LogInv ==
    TypeOK /\ ProcInv /\ SleeperHasWaker /\ HeadInv /\ CacheInv /\ CopyInv
           /\ BudgetInv

\* Calls leave enough of their reservation unused for the log on disk ...
LogRoom == LOGSIZE - (MAXOPBLOCKS - OPWRITES) =< NLOG - 1

\* ... and for log_write()'s own check, which also refuses a block that is
\* already in a full log.
PanicRoom ==
    /\ LOGSIZE - (MAXOPBLOCKS - OPWRITES) < NLOG - 1
    /\ OPWRITES < MAXOPBLOCKS
================================================================================
