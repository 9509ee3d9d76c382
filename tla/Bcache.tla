------------------------------- MODULE Bcache -------------------------------
(***************************************************************************)
(* The buffer cache (bio.c) on top of its disk driver: the interrupt       *)
(* driven IDE driver (ide.c) or the memory disk (memide.c) that replaces   *)
(* it in the kernelmemfs build.                                            *)
(*                                                                         *)
(* A process of the model is one held buffer of a kernel thread: it gets   *)
(* the buffer of a block, uses it, and releases it.  bcache.lock and       *)
(* idelock sections are single steps.  acquiresleep() is one step here;    *)
(* module SleepLock has its interleavings.  A process may be made runnable *)
(* by kill() while it sleeps in iderw().                                   *)
(***************************************************************************)
EXTENDS Naturals, FiniteSets, Sequences, SequencesExt, FiniteSetsExt

CONSTANTS
    Procs,      \* held buffers of kernel threads
    Blocks,     \* disk blocks
    BadBlock,   \* a block that the drive fails to read, or None
    Datas,      \* contents of a block
    NBUF,       \* buffers in the cache (param.h)
    MAXPIN,     \* blocks that the log pins at one time (LOGSIZE)
    None        \* no block, no process, no contents

ASSUME BcacheAssumption ==
    /\ None \notin Blocks \union Procs \union Datas \union Nat
    /\ IsFiniteSet(Procs)
    /\ NBUF \in Nat \ {0} /\ MAXPIN \in Nat

Bufs == 1..NBUF
Junk == None            \* what a buffer holds before its first read

VARIABLES
    buf,        \* the struct buf of every buffer
    lru,        \* the bcache list, most recently used first
    idequeue,   \* the queue of the IDE driver, active request first
    hw,         \* the request that the drive was given by idestart()
    disk,       \* the contents of the drive
    driver,     \* "ide" or "mem": which driver is linked in
    pc, want, at \* control, wanted block and buffer of every process

vars == <<buf, lru, idequeue, hw, disk, driver, pc, want, at>>
procVars == <<pc, want, at>>
ideVars  == <<idequeue, hw>>

NoReq == [bno |-> None, write |-> FALSE, data |-> Junk]

\* binit(): an empty cache, every buffer put at the front of the list in turn.
Init ==
    /\ buf = [b \in Bufs |-> [bno |-> None, valid |-> FALSE, dirty |-> FALSE,
                              refcnt |-> 0, data |-> Junk, lock |-> None]]
    /\ lru = [i \in Bufs |-> NBUF + 1 - i]
    /\ idequeue = <<>> /\ hw = NoReq
    /\ disk \in {[n \in Blocks |-> d] : d \in Datas}
    /\ driver \in {"ide", "mem"}
    /\ pc = [p \in Procs |-> "idle"]
    /\ want = [p \in Procs |-> None]
    /\ at = [p \in Procs |-> None]

-----------------------------------------------------------------------------
(* bio.c *)

Cached(n) == {b \in Bufs : buf[b].bno = n}
Recyclable_evenDirty(b) == buf[b].refcnt = 0

Recyclable_evenReferenced(b) == ~buf[b].dirty

Recyclable(b) == buf[b].refcnt = 0 /\ ~buf[b].dirty

\* A process that panics in bget() holds bcache.lock, and keeps it.
LockFree == \A p \in Procs : pc[p] # "panic"

\* bget() under bcache.lock: use the buffer of the block if there is one,
\* else recycle the least recently used free one; panic if there is none.
bget_hit(p, n) ==
    \E b \in Cached(n) :
        /\ buf' = [buf EXCEPT ![b].refcnt = @ + 1]
        /\ at' = [at EXCEPT ![p] = b]
        /\ pc' = [pc EXCEPT ![p] = "lock"]

bget_recycle(p, n) ==
    LET free == {i \in Bufs : Recyclable(lru[i])}
    IN  /\ Cached(n) = {}
        /\ at' = [at EXCEPT ![p] = IF free = {} THEN None ELSE lru[Max(free)]]
        /\ buf' = [b \in Bufs |->
                      IF b = at'[p]
                      THEN [buf[b] EXCEPT !.bno = n, !.valid = FALSE,
                                          !.dirty = FALSE, !.refcnt = 1]
                      ELSE buf[b]]
        /\ pc' = [pc EXCEPT ![p] = IF free = {} THEN "panic" ELSE "lock"]

bget(p, n) ==
    /\ pc[p] = "idle" /\ LockFree
    /\ want' = [want EXCEPT ![p] = n]
    /\ bget_hit(p, n) \/ bget_recycle(p, n)
    /\ UNCHANGED <<lru, ideVars, disk, driver>>

\* acquiresleep() at the end of bget(), and the test of B_VALID in bread().
bread(p) ==
    /\ pc[p] = "lock"
    /\ buf[at[p]].lock = None
    /\ buf' = [buf EXCEPT ![at[p]].lock = p]
    /\ pc' = [pc EXCEPT ![p] = IF buf[at[p]].valid THEN "use" ELSE "iderw"]
    /\ UNCHANGED <<lru, ideVars, disk, driver, want, at>>

\* The holder puts d into the buffer and calls bwrite().
bwrite(p, d) ==
    /\ pc[p] = "use"
    /\ buf' = [buf EXCEPT ![at[p]] = [@ EXCEPT !.data = d, !.dirty = TRUE]]
    /\ pc' = [pc EXCEPT ![p] = "iderw"]
    /\ UNCHANGED <<lru, ideVars, disk, driver, want, at>>

\* Dirty buffers that no process is about to write.
Pinned == {b \in Bufs : buf[b].dirty /\ \A p \in Procs :
                            at[p] = b => pc[p] \notin {"iderw", "sleep", "woken"}}

\* The holder puts d into the buffer and calls log_write(), which pins it.
log_write(p, d) ==
    /\ pc[p] = "use"
    /\ Cardinality(Pinned \union {at[p]}) <= MAXPIN
    /\ buf' = [buf EXCEPT ![at[p]] = [@ EXCEPT !.data = d, !.dirty = TRUE]]
    /\ UNCHANGED <<lru, ideVars, disk, driver, procVars>>

\* brelse(): releasesleep(), then the section under bcache.lock.
brelse(p) ==
    /\ pc[p] = "use"
    /\ buf' = [buf EXCEPT ![at[p]].lock = None]
    /\ pc' = [pc EXCEPT ![p] = "drop"]
    /\ UNCHANGED <<lru, ideVars, disk, driver, want, at>>

\* The list with b moved from its place to the front.
MoveToFront(b) ==
    LET k == CHOOSE i \in Bufs : lru[i] = b
    IN  [i \in Bufs |-> IF i = 1 THEN b ELSE IF i <= k THEN lru[i - 1] ELSE lru[i]]

brelse_drop(p) ==
    /\ pc[p] = "drop" /\ LockFree
    /\ buf' = [buf EXCEPT ![at[p]].refcnt = @ - 1]
    /\ lru' = IF buf[at[p]].refcnt = 1 THEN MoveToFront(at[p]) ELSE lru
    /\ pc' = [pc EXCEPT ![p] = "idle"]
    /\ at' = [at EXCEPT ![p] = None]
    /\ want' = [want EXCEPT ![p] = None]
    /\ UNCHANGED <<ideVars, disk, driver>>

-----------------------------------------------------------------------------
(* ide.c and memide.c *)

\* idestart(): the command, and the data of a write, go to the drive.
idestart(b) == [bno |-> buf[b].bno, write |-> buf[b].dirty, data |-> buf[b].data]

\* iderw() of the IDE driver: queue the buffer, start the drive if it is idle,
\* and sleep (the request cannot be done before idelock is released).
iderw(p) ==
    /\ pc[p] = "iderw" /\ driver = "ide"
    /\ idequeue' = Append(idequeue, at[p])
    /\ hw' = IF idequeue = <<>> THEN idestart(at[p]) ELSE hw
    /\ pc' = [pc EXCEPT ![p] = "sleep"]
    /\ UNCHANGED <<buf, lru, disk, driver, want, at>>

\* The loop test of iderw() after sleep() has returned.
iderw_woken(p) ==
    /\ pc[p] = "woken"
    /\ pc' = [pc EXCEPT ![p] = IF buf[at[p]].valid /\ ~buf[at[p]].dirty
                               THEN "use" ELSE "sleep"]
    /\ UNCHANGED <<buf, lru, ideVars, disk, driver, want, at>>

mem_iderw_noCopy(p) ==
    LET b == buf[at[p]]
    IN  /\ pc[p] = "iderw" /\ driver = "mem"
        /\ buf' = [buf EXCEPT ![at[p]] =
                      [@ EXCEPT !.valid = TRUE, !.dirty = FALSE,
                                !.data = IF b.dirty THEN b.data ELSE disk[b.bno]]]
        /\ pc' = [pc EXCEPT ![p] = "use"]
        /\ UNCHANGED <<lru, ideVars, disk, driver, want, at>>

\* iderw() of the memory disk: one synchronous copy.
mem_iderw(p) ==
    LET b == buf[at[p]]
    IN  /\ pc[p] = "iderw" /\ driver = "mem"
        /\ disk' = IF b.dirty THEN [disk EXCEPT ![b.bno] = b.data] ELSE disk
        /\ buf' = [buf EXCEPT ![at[p]] =
                      [@ EXCEPT !.valid = TRUE, !.dirty = FALSE,
                                !.data = IF b.dirty THEN b.data ELSE disk[b.bno]]]
        /\ pc' = [pc EXCEPT ![p] = "use"]
        /\ UNCHANGED <<lru, ideVars, driver, want, at>>

\* wakeup(b): every process that sleeps on the buffer becomes runnable.
wakeup(b) == [p \in Procs |-> IF pc[p] = "sleep" /\ at[p] = b THEN "woken" ELSE pc[p]]

ideintr_noNext ==
    LET b    == Head(idequeue)
        read == ~buf[b].dirty /\ hw.bno # BadBlock
    IN  /\ idequeue # <<>>
        /\ idequeue' = Tail(idequeue)
        /\ disk' = IF hw.write THEN [disk EXCEPT ![hw.bno] = hw.data] ELSE disk
        /\ buf' = [buf EXCEPT ![b] =
                      [@ EXCEPT !.valid = TRUE, !.dirty = FALSE,
                                !.data = IF read THEN disk[hw.bno] ELSE buf[b].data]]
        /\ pc' = wakeup(b)
        /\ hw' = NoReq
        /\ UNCHANGED <<lru, driver, want, at>>

\* ideintr(): the drive has done the active request.  The data of a failed
\* read is not fetched, but the buffer becomes valid all the same.  The next
\* request is started.
ideintr ==
    LET b    == Head(idequeue)
        read == ~buf[b].dirty /\ hw.bno # BadBlock
    IN  /\ idequeue # <<>>
        /\ idequeue' = Tail(idequeue)
        /\ disk' = IF hw.write THEN [disk EXCEPT ![hw.bno] = hw.data] ELSE disk
        /\ buf' = [buf EXCEPT ![b] =
                      [@ EXCEPT !.valid = TRUE, !.dirty = FALSE,
                                !.data = IF read THEN disk[hw.bno] ELSE buf[b].data]]
        /\ pc' = wakeup(b)
        /\ hw' = IF Tail(idequeue) = <<>> THEN NoReq ELSE idestart(idequeue[2])
        /\ UNCHANGED <<lru, driver, want, at>>

\* kill() of a process that sleeps in iderw(): it only becomes runnable.
kill(p) ==
    /\ pc[p] = "sleep"
    /\ pc' = [pc EXCEPT ![p] = "woken"]
    /\ UNCHANGED <<buf, lru, ideVars, disk, driver, want, at>>

Step(p) ==
    \/ \E n \in Blocks : bget(p, n)
    \/ bread(p)
    \/ \E d \in Datas : bwrite(p, d) \/ log_write(p, d)
    \/ brelse(p) \/ brelse_drop(p)
    \/ iderw(p) \/ iderw_woken(p) \/ mem_iderw(p)
    \/ kill(p)

\* After the panic everybody ends up waiting for bcache.lock.
Halted == ~LockFree /\ UNCHANGED vars

Next == ideintr \/ Halted \/ \E p \in Procs : Step(p)

Spec == Init /\ [][Next]_vars

-----------------------------------------------------------------------------
(* Properties *)

BufType == [bno : Blocks \union {None}, valid : BOOLEAN, dirty : BOOLEAN,
            refcnt : Nat, data : Datas \union {Junk},
            lock : Procs \union {None}]

\* Types; the LRU list of bio.c is always a permutation of the buffers, and a
\* buffer is queued at the driver at most once.
TypeOK ==
    /\ buf \in [Bufs -> BufType]
    /\ lru \in [Bufs -> Bufs] /\ \A b \in Bufs : \E i \in Bufs : lru[i] = b
    /\ idequeue \in Seq(Bufs)
    /\ \A i, j \in 1..Len(idequeue) : idequeue[i] = idequeue[j] => i = j
    /\ hw \in [bno : Blocks \union {None}, write : BOOLEAN, data : Datas \union {Junk}]
    /\ disk \in [Blocks -> Datas \union {Junk}]
    /\ driver \in {"ide", "mem"}
    /\ pc \in [Procs -> {"idle", "lock", "iderw", "sleep", "woken", "use", "drop", "panic"}]
    /\ want \in [Procs -> Blocks \union {None}]
    /\ at \in [Procs -> Bufs \union {None}]

\* bget() never leaves two buffers for one block, and a buffer that a process
\* waits for, holds or is about to drop is still the buffer of its block:
\* a reference keeps the buffer from being recycled.
OneBufferPerBlock ==
    /\ \A b, c \in Bufs : buf[b].bno = buf[c].bno /\ buf[b].bno # None => b = c
    /\ \A p \in Procs : at[p] # None => buf[at[p]].bno = want[p]

\* bread() and iderw() return only a valid buffer, locked by the caller, also
\* when kill() made the process runnable before the disk was done.
HolderHasData ==
    \A p \in Procs : pc[p] = "use" => buf[at[p]].lock = p /\ buf[at[p]].valid

\* A valid buffer that is not dirty equals its disk block: bwrite() has
\* reached the disk when it returns, and requests of different buffers in the
\* queue are not mixed up.  (Not so for a block that the drive cannot read.)
CleanMatchesDisk ==
    \A b \in Bufs : buf[b].valid /\ ~buf[b].dirty /\ buf[b].bno # BadBlock
                        => buf[b].data = disk[buf[b].bno]

\* bget() panics with "bget: no buffers" only when there is none for the block
\* and none to be had: every buffer is in the hands of another process, or
\* holds a block that the log has pinned.  No reference is leaked, no buffer
\* stays dirty by mistake, and none of them is missed by the search
\* (bio.c:80-92).
PanicOnlyWhenFull ==
    \A p \in Procs : pc[p] = "panic" =>
        /\ Cached(want[p]) = {}
        /\ \A b \in Bufs : b \in Pinned \/ \E q \in Procs \ {p} : at[q] = b

\* What a reader of block n gets: the cached copy, or else the disk's.
Content(n) == IF \E b \in Bufs : buf[b].bno = n /\ buf[b].valid
              THEN buf[CHOOSE b \in Bufs : buf[b].bno = n /\ buf[b].valid].data
              ELSE disk[n]

\* The contents of a block change only by the process that holds its buffer:
\* not by recycling, by the driver, or by a buffer of another block.
OnlyHolderChanges ==
    [][\A n \in Blocks \ {BadBlock} : Content(n)' # Content(n) =>
          \E p \in Procs : pc[p] = "use" /\ want[p] = n /\ buf[at[p]].lock = p]_vars

\* A process that sleeps in iderw() has its request in the queue, and the
\* drive is at work on the first request of a queue that is not empty: the
\* interrupt that ends the sleep is still to come.  Also for a block that the
\* drive cannot read.
SleepersQueued ==
    /\ \A p \in Procs : pc[p] = "sleep" => at[p] \in ToSet(idequeue)
    /\ hw = IF idequeue = <<>> THEN NoReq ELSE idestart(Head(idequeue))

\* A process has a buffer, and a block, from bget() to the end of brelse(), and
\* refcnt counts exactly these processes, however they interleave.
RefsCounted ==
    /\ \A p \in Procs : /\ at[p] = None <=> pc[p] \in {"idle", "panic"}
                        /\ at[p] # None => want[p] # None
    /\ \A b \in Bufs : buf[b].refcnt = Cardinality({p \in Procs : at[p] = b})

\* The sleep-lock of a buffer is held exactly from bread() to brelse().
LockHeld ==
    \A b \in Bufs, p \in Procs :
        buf[b].lock = p <=> at[p] = b /\ pc[p] \in {"iderw", "sleep", "woken", "use"}

\* B_DIRTY is set only on a buffer with contents, and only a buffer of a block
\* has contents.
FlagsSound ==
    \A b \in Bufs : /\ buf[b].dirty => buf[b].valid
                    /\ buf[b].valid => buf[b].bno # None

\* iderw() is called only with something to do, and a request is in the queue
\* exactly while it is not done and its process is in iderw(), asleep or not.
QueueOwned ==
    /\ \A p \in Procs :
          LET todo == ~buf[at[p]].valid \/ buf[at[p]].dirty
          IN  /\ pc[p] = "iderw" => todo /\ at[p] \notin ToSet(idequeue)
              /\ pc[p] \in {"sleep", "woken"} => (todo <=> at[p] \in ToSet(idequeue))
    /\ \A b \in ToSet(idequeue) :
          \E p \in Procs : at[p] = b /\ pc[p] \in {"sleep", "woken"}

\* The buffers that only the log keeps in memory are at most as many as it may
\* pin.
PinsBounded == Cardinality(Pinned) <= MAXPIN

\* The buffers as bio.c hands them out: types, a sound LRU list, one buffer for a
\* block, valid data for every holder, exact reference counts and locks, requests
\* that belong to a process in iderw(), and a panic only when all are in use.
BuffersInv == /\ TypeOK /\ OneBufferPerBlock /\ HolderHasData
              /\ RefsCounted /\ LockHeld /\ FlagsSound /\ QueueOwned
              /\ PinsBounded /\ PanicOnlyWhenFull
=============================================================================
