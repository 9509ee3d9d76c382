# TLA+ models and proofs for xv6-upgraded

xv6 is a small multiprocessor Unix kernel. This repository extends it with users
and permissions (`users.c`, `chmod`, `chown`, `su`, `sudo`) and with a name cache
for directory lookups (`namecache.c`). The modules in this directory model its
concurrent and failure-prone parts, TLC checks them on small instances, and TLAPS
proves the central results for every size.

`PROJECT.json` is the index: components, runs, the source lines each definition
stands for, mutants (a plausible bug for every property, which the property
catches), findings, hazards and theorems.

## 1. The system

| component | state it keeps | operations | what makes it correct |
|---|---|---|---|
| redo log (`log.c`) | header on disk, log blocks, `log.lh`, `outstanding`, `committing` | `begin_op`, `log_write`, `end_op`, `commit`, `recover_from_log` | groups of system calls are atomic across crashes; nobody waits for ever; the log never overflows |
| buffer cache (`bio.c`) | buffers, reference counts, B_VALID/B_DIRTY, LRU list | `bread`, `bwrite`, `brelse` | one buffer per block; a dirty buffer is not recycled; a clean one equals the disk |
| disk (`ide.c`, `memide.c`) | request queue | `iderw`, `ideintr` | every request completes, in order |
| inodes (`fs.c`) | dinodes, bitmap, inode cache | `ialloc`, `iget`, `iput`, `ilock`, `bmap`, `itrunc`, `readi`, `writei` | a block is in use exactly while an inode holds it; an inode is freed only when nothing refers to it; files hold what was written |
| directories (`fs.c`, `sysfile.c`) | directory entries, link counts | `dirlookup`, `dirlink`, `create`, `link`, `unlink`, `namex` | link counts equal entries; names are unique; no dangling entry |
| name cache (`namecache.c`) | NAMECACHE_SIZE entries, replacement index | `lookup`, `add`, `invalidate` | a hit says what the directory says |
| files, descriptors (`file.c`) | `ftable`, `p->ofile` | `filealloc`, `filedup`, `fileclose`, `filewrite` | reference counts equal references |
| pipes (`pipe.c`) | ring buffer, `nread`, `nwrite`, open ends | `pipewrite`, `piperead`, `pipeclose` | bytes come out once and in order; both ends are woken |
| processes (`proc.c`, `trap.c`) | `ptable`, CPUs, channels | `fork`, `exit`, `wait`, `sleep`, `wakeup`, `kill`, `scheduler`, `yield` | one CPU per process; no missed exit or wakeup; killed processes die; orphans are reaped |
| locks (`spinlock.c`, `sleeplock.c`) | owners | `acquire`, `release`, `acquiresleep`, `releasesleep` | mutual exclusion, no lost wakeup |
| memory (`vm.c`, `kalloc.c`, `exec.c`) | free list, page tables, `p->sz` | `kalloc`, `kfree`, `allocuvm`, `deallocuvm`, `copyuvm`, `exec` | a page has one owner; failures give everything back |
| users (`users.c`, `sysproc.c`, `su.c`, `sudo.c`, `visudo.c`) | user table, sudoers, uid and gid of processes, owner and mode of inodes | `login`, `setuid`, `setsuid`, `addsudoer`, `removesudoer`, `chmod`, `chown` | nobody is root who was not forked by root, did not give its password and was no sudoer; owner and mode are those last set, and open goes by them |
| console (`console.c`, `kbd.c`, `uart.c`) | input ring `r`, `w`, `e`, cursor, keyboard modifiers | `consoleintr`, `consoleread`, `consolewrite`, `kbdgetc` | characters come out once and in order; no modifier sticks |
| mkfs (`mkfs.c`) | the image it builds | `ialloc`, `iappend`, `balloc` | the bitmap says what the inodes hold |

Interaction. Every file system call runs between `begin_op()` and `end_op()`.
Inode and directory code changes blocks through buffers and hands them to
`log_write()`, which pins them; the last call out commits the group. Inodes and
buffers are protected by sleep-locks, which use `sleep()` and `wakeup()`, which
change states in the process table that the schedulers of all CPUs read. What is
hard: any two kernel threads interleave wherever a spinlock is not held, the
clock can take the CPU away, `kill()` reaches a process in any state, and power
can fail between any two disk writes.

## 2. Modules

| module | models | composed with |
|---|---|---|
| `AtomicFs` | what the log promises: a current state, a durable state, calls in progress | |
| `Log` | `log.c`, the pinning and recycling of `bio.c`, crash and recovery | implements `AtomicFs` (`CrashAtomic`) |
| `LogProofs` | theorems about `Log` | extends `Log` |
| `SleepLock` | `sleeplock.c` over `sleep()`, `wakeup()`, `kill()` of `proc.c` and spinlocks, one lock operation per step | |
| `SleepLockProofs` | theorems about `SleepLock` | extends `SleepLock` |
| `Bcache` | `bio.c` over the drivers `ide.c` and `memide.c` | what `Log` takes for granted about buffers |
| `BcacheProofs` | theorems about `Bcache` | extends `Bcache` |
| `Inode` | blocks, bitmap, inode cache, `bmap`, `itrunc`, `readi`, `writei` of `fs.c`, `filewrite` of `file.c`, and the image of `mkfs.c` | what `Log` takes for granted about the size of a call |
| `Dir` | directories, path names and name cache: `dirlookup`, `dirlink`, `namex`, `create`, `open`, `link`, `unlink`, `chdir`, `iput`, `namecache.c` | |
| `Pipe` | file table, descriptors and pipes, with what `fork` and `exit` do to them | |
| `PipeProofs` | theorems about `Pipe` | extends `Pipe` |
| `Proc` | process table, scheduler, traps and clock | |
| `ProcProofs` | theorems about `Proc` | extends `Proc` |
| `Vm` | address spaces under `sbrk`, `fork`, `exec`, `exit`, `wait`; page allocator; argument checks of `syscall.c` | |
| `VmProofs` | theorems about `Vm` | extends `Vm` |
| `Terminal` | the line discipline a console promises: an edited line, ready characters, reads | |
| `Console` | `console.c`, `kbd.c`, `uart.c` | implements `Terminal` (`TerminalSpec`) |
| `ConsoleProofs` | theorems about `Console` | extends `Console` |
| `Users` | `users.c`, the uid calls of `sysproc.c`, `su`, `sudo`, `visudo`, owner and mode of files | |
| `UsersProofs` | theorems about `Users` | extends `Users` |
| `MC...` | instances for TLC | extend the above |

A definition keeps the name of the function it models. Where a function is more
than one step, the later steps have the name with a suffix (`exec`, `exec_seg`,
`exec_stack`). A definition with a suffix that is in no action, such as
`Recyclable_evenDirty`, is a mutant: the same definition with a plausible bug,
listed in `PROJECT.json` with the property that catches it.

### Log

State: `home`, `dlog`, `dhead` are the disk (home locations, log blocks, header);
`lh`, `outstanding`, `committing` are `struct log` (the `n` of a header is the
length of the sequence); `buf` and `dirty` are the buffer cache, a block without
a buffer being `NoData`; `pc`, `wset`, `tgt` say where each process is, what it
has logged and which locked buffer it is passing to `log_write()`; `phase` and
`tail` are the program counter and loop variable of the one thread in `commit()`
or in recovery; `mode` is the machine's.

Actions: everything a function does under `log.lock` is one step; every disk
write is one step, so `Crash` falls between any two. `log_write()` is two steps
because its checks run before `acquire(&log.lock)`. `begin_op()` is two actions,
for its two branches. `recover_from_log()` shares `install_trans` and
`write_head_clear` with `commit()`, as in the code. A file system call is any
sequence of `log_write()` calls on at most `OPWRITES` different blocks; the
reservation `MAXOPBLOCKS` is the code's. Entry `NLOG` of the log, one past its
end, is the block mkfs puts there (`AfterLog`), so an overrun is modelled, not
excluded.

### SleepLock

A step is one spinlock operation, or the code between two of them. `lk` is the
spinlock inside the sleep-lock, `pt` is `ptable.lock`. It includes a `kill()`
that makes a sleeper runnable although nobody released the lock.

### Bcache

State: every `struct buf`, the LRU list, the driver's queue, the request the
drive was given, the drive. A process is one held buffer of a kernel thread, so
two of them are also one thread with two buffers. Sections under `bcache.lock`
and `idelock` are one step. The first state chooses which driver is linked in
(`ide.o`, or `memide.o` in the kernelmemfs build). `kill()` may make a process
runnable before its request is done, and one block cannot be read
(`BadBlock`): `ideintr()` then marks the buffer valid without data. The log's
pinning is bounded by `MAXPIN`, the largest transaction. When no buffer can be
recycled `bget()` panics with `bcache.lock` held: nobody enters the cache again
(`LockFree`), and the others go on up to there.

### Inode

State: the bitmap, the inodes on disk, the blocks, the inode cache, and per
process the call it is in. It starts with mkfs: `mk_root`, `mk_file`, `iappend`
and `mk_balloc` build the image that the kernel then mounts. The byte at offset
`off` of file `i` is always written as `Byte(i, off)`, so a byte from another
file, offset or an earlier life of the block shows. `writei()` and `itrunc()` go
block by block with the inode locked; `filewrite()` unlocks between chunks. The
root directory is a file whose words are the inode numbers of its entries;
`create` and `unlink` write them through `bmap()`, and grow the directory.
A transaction records which blocks it logged, those of the directory included.
Running out of blocks, inodes or cache entries is a panic of the code and the
mode `"full"` here; every other panic is `"panic"`. The number of cache entries is
chosen at the start, so that it runs out in some behaviours and not in others.
`iput()` is two steps, its test under the sleep-lock (`iput`) and `ref--`
(`iput_drop`), with `bfree` and `itrunc` between them if it frees the inode.
`reboot` drops the inode cache between transactions, with files open or not: `Log`
shows that a crash inside a transaction leads back to such a state. The history
`lost` holds the inodes that the code leaks (section 5).

### Dir

State: per inode its type, link count, directory entries in disk order, whether
its cache entry is valid, and who holds its sleep-lock; the name cache with its
replacement index; per process a record `th[p]` with the local variables of its
call. `ip->ref` is not a counter here but the set of places that point to the
inode (`Refs`). On disk and in memory are the same: the inode cache is
write-through (checked in `Inode`), and crashes are the log's business.

A step runs from the wait for a lock to the next wait. `iunlockput()` unlocks and
leaves the inode in the list `put`; `iput()`, which waits for the lock again, is
the next step, and its `ref--` (`iput_drop`) the one after. That is where the lock
order can go wrong, so it is not merged with the step before. `dirlink()` calls `iput()` with its caller's locks held,
and so does the model. `Wants` names the lock a process waits for. The history
`misled` says what the name cache is not made for: `"hit"`, an unlink that got its
offset from the cache, and `"removed"`, something entered for a directory that is
already removed.

Left out: file contents, modes and owners (`open` may be denied), devices'
numbers, `exit`'s iput of the current directory, and the panics that follow a
short read or write of a directory.

### Pipe

State: `ftable`, the descriptors of every process, the pipe in every page, the
references to inodes, and the call of every process. `fileclose()` is two steps,
because it gives the file back under `ftable.lock` and closes what it stood for
afterwards; in between another process may be given the same file. Sleeping is
two steps: the pipe's lock is held from the test of `p->killed` to `sleep()`, and
`kill()` does not take it. The bytes of a pipe are numbered in the order they are
written, so that `Fifo` can say which ones come out. What a call holds in local
variables (`rf` and `wf` of `sys_pipe()`, the file that `close` took from its
descriptor) is the field `f` of the call, and counts as a reference; `exit()` moves
one descriptor after the other there (`exit_close`). `nread` and `nwrite` wrap
around at `UINT`.

### Proc

State: the fields of `ptable.proc[]` (state, parent, pid, killed, channel), what
every CPU runs and where its scan stands, where every process is in its code, and
the clock. One step is one critical section of `ptable.lock`. `fork()` is split
where `allocproc()` releases the lock: the slot is EMBRYO, visible to the scans
of the other CPUs. `sleep()` and `exit()` keep the lock up to the scheduler, so
that the switch is part of the step. The length of a `sys_sleep()` is left open,
which covers every outcome of its unsigned comparison. init forks and waits, as in
the loop of init.c:22-36; when its fork fails it exits (`ForkFailed`), and so it
does when somebody kills it, and then `exit()` panics.

### Vm

State: the number of free pages, per process its kernel stack, page directory
and size, and the call it is in with the new address space it builds. A step is
one round of a loop that calls `kalloc()`, so that processes compete for the last
page everywhere. A page directory is the set of virtual pages it maps, the set of
page tables it has, and the pages without PTE_U. Addresses wrap around at `UINT`,
so that `sbrk()` with a large negative argument, program headers at the top of
the address space, and arguments whose end overflows are all covered. `exec()` has
one action for each part of the function and the label `bad`. `sp` wraps around as
a uint does when the arguments are larger than all that lies below the stack.

### Console

State: the input ring, the cursor, `cons.lock`, the `consoleread()` of every
process, the modifier state of `kbdgetc()`, and the keys that are really down.
An interrupt handles one character per step. `Terminal` has the line under
editing and the characters that are ready as sequences, and the readers that
were killed; the mapping reads the sequences out of the ring. `Kill` and `Abort` of
`Terminal` say who may come back with nothing: a killed reader, when nothing is
ready. `consputs` is `consputc()` of a string, as a recursive function over its
characters. A read of no bytes returns at once and is left out. Keys and characters are named by what the code tells apart: a
letter, its capital, newline, return, and the control characters.

### Users

State: uid, gid and sudo's local variables per process, the sudoers, the inode
on disk and in memory, and what each descriptor may do. A system call is one step;
`sudo` is four, and others run in between. `setsuid` is a call that any program may
make, inside sudo and outside of it. `open` has the flag O_CREATE and every value
of the other bits of `omode`. Two history variables carry what properties need:
`earned`, the processes that are root by right, and `set`, the owner and mode last
given to a file. A password is right or wrong.

## 3. Runs

| run | instance | shows |
|---|---|---|
| `log_crash` | 2 processes, 2 blocks, 2 values, a log with room for every reservation | crash atomicity (`CrashAtomic`), write-ahead (`WriteAhead`), and the inductive invariant `LogInv` |
| `log_live` | 3 processes, 2 blocks, nlog = LOGSIZE, fair | `NoPanic`, `SleepersWoken`, `RecoveryEnds`, with the third process waiting for space |
| `sleeplock` | 4 processes, fair | `Mutex`, `NoLostWakeup`, `HandedOn` |
| `bcache` | 2 holders, 4 blocks of which one cannot be read, 3 buffers, up to 3 pinned, either driver | `BuffersInv`, `CleanMatchesDisk`, `SleepersQueued`, `OnlyHolderChanges` |
| `inode` | 2 processes, 4 inodes in 2 or 3 cache entries, 11 blocks, files with direct and indirect blocks, 5 calls | `CacheInv`, `BitmapExact`, `ContentsMatch`, `FreeOnlyUnreferenced` |
| `dir` | 2 processes, 5 calls with unlink or 4 without, 3 inodes, 1 or 2 name cache entries | `InodesInv`, `ScanOffset`, `NcAgrees`, `LinkCounts` |
| `dir_unlink` | 1 process, 3 calls | violated: after a name cache hit, unlink clears the wrong entry |
| `pipe` | 2 processes with 2 descriptors, 3 files, 1 page, a ring of 2 bytes with counters modulo 4, fair | `FilesInv`, `Fifo`, `SleepJustified`, `PipeEndReleases` |
| `proc` | 3 slots, 2 CPUs, 3 pids, kills of init and of another process, fair | `TableInv`, `ReapedByParent`, `RunnableRuns`, `KilledExits`, `OrphansReaped` |
| `vm` | 3 slots, 18 pages of 2 bytes, 5 pages of address space, 5 program headers | `SpacesInv`, `PagesConserved`, `ArgsMapped`, `ExecStack` |
| `console` | 2 readers, a ring of 2 characters with indices modulo 4, a 2 by 2 screen, two workloads | `HandlersInv`, `SleepersHaveNothing`, `TerminalSpec` |
| `users` | 3 processes, 1 file, user ids that fit in an inode and one that does not | `IdentityInv`, `AttrsAsSet`, `OpenAsSet` |

The invariants named `...Inv` are conjunctions of named parts; each part has its
own comment in its module: `TableInv` is `TypeOK`, `OneCpu`, `ParentAlive`,
`InitAlive`, `PidsUnique`, `NoMissedExit`, `KillFindsProcess`, `EmbryoOwned`,
`ForkOwns`; `InodesInv` is `TypeOK`, `NoPanic`, `HeldAllocated`, `StillDir`;
`BuffersInv` is `TypeOK`, `OneBufferPerBlock`, `HolderHasData`, `RefsCounted`,
`LockHeld`, `FlagsSound`, `QueueOwned`, `PinsBounded`, `PanicOnlyWhenFull`; `FilesInv` is
`TypeOK`, `RefsExact`, `InodeRefsExact`, `PipePageOwned`, `EndsUnique`,
`FilesSound`, `HandsSound`, `InsideSound`; `CacheInv` is `TypeOK`,
`NoPanic`, `WriteThrough`, `TxnFits`; `BitmapExact` is `BitmapMatches` and
`UnlinkedFreed`; `SpacesInv` is `TypeOK`, `SlotsSound`,
`SizeMapped`, `LoopSound`, `ImageSound`, `OpsEnded`, `NoPanic`; `HandlersInv` is
`TypeOK`, `CursorOnScreen`, `RingSound`, `FullIsCommitted`, `NoStuckModifier`;
`IdentityInv` is `TypeOK`, `RootEarned`, `SudoIdentity`. The ones that are proved hold the parts
their induction needs, so that TLC checks the inductive invariant too.

Bounds and why they are enough. Two processes and two blocks give every overlap
of a commit with an arriving call, a log with one and with two entries, a block
logged twice in one group (absorption) and by two calls. Two values distinguish
an old from a new block. Three processes with room for two make the third sleep,
be woken, lose the race and sleep again. Three slots hold init, a parent and a
child, three pids use a slot again. The `...Proofs` modules remove the bounds for
the safety results of `Log`, `SleepLock`, `Bcache`, `Proc`, `Vm` and `Users`.

Three buffers, of which the log may pin three, are the relation of the code (NBUF =
LOGSIZE): `bget()` recycles, and panics when all are pinned, or pinned and held. Two
direct blocks of two words make a file of five bytes use the indirect block, and
the third file make the directory grow. With two cache entries, one of them the
root's, the second open file is one too many for `iget()`; with three, entries are
reused. 11 blocks and 4 inodes run out within five calls. 18 pages are two programs and part of a third, so fork, exec and sbrk
fail at every place. Processes, blocks and
data that no operator orders are symmetric in the runs without liveness
properties. A ring of two with counters modulo four is full, empty and
wrapped around within a few steps. One page for pipes, three files and two
descriptors are used up by one pipe and one file.

The runs of `Dir` and `Inode` bound the number of calls (`maxcalls`,
`MAXCALLS`), which also bounds link counts and sizes. `Workloads` of `Dir` says
which calls are made: long sequences by one process where the history matters,
short ones by two where the interleaving does. `dir` and `pipe` do not check for
deadlock in TLC's sense: in `dir` the machine stops when the calls are used up,
and the code can deadlock (section 5); in `pipe` a reader that holds the only
writing end waits for itself, which is the program's fault.

`unlink` breaks directories as soon as the name cache answers its lookup
(`dir_unlink`). In the workload with unlink a cache of one entry, which every other
lookup replaces, makes unlink scan the directory most of the time. `LinkCounts` and
`NoPanic` hold until a call has been misled (`misled = {}`), `NcAgrees` until
something is entered for a directory already removed, and `StillDir`, `ScanOffset`
and `HeldAllocated` always.

Some properties carry the condition the code needs. `SleepJustified` excepts
readers once a process was killed, since `pipewrite()` returns without waking
them (pipe.c:87). `CleanMatchesDisk` and `OnlyHolderChanges` except a block the
drive cannot read. `AttrsAsSet` holds for ids that fit in the inode's `ushort`.
So does `OpenAsSet`, which speaks of open without O_CREATE and of the modes
O_RDONLY, O_WRONLY and O_RDWR: the code makes no test for the rest (section 5).
`UnlinkedFreed` in `BitmapExact` excepts `lost`. `NoPanic` of `Inode` excepts the
panics for want of a block, an inode or a cache entry. The liveness properties of
`Proc` are of the form `[]<>(... \/ panicked)`: after a panic nothing happens.

Fairness. A runnable process is scheduled (weak fairness of its steps): the
round-robin scheduler gives every runnable process a turn, which `RunnableRuns`
checks separately. A file system call ends (strong fairness of `end_op`): calls
have no unbounded loops. The thread in `commit()` or in recovery goes on, because
disk writes complete. In `Pipe` a process inside a call goes on. Nothing is
assumed about the calls programs make, except that init, whose code is in the
repository, comes back to `wait()` as long as its loop goes on (init.c:22-36); the
one way out of the loop, a failed fork, is in the model and ends in a panic. Nothing is assumed about who forks, kills
or crashes.

## 4. Proofs

`SleepLockProofs` proves `SleepInv`, an inductive invariant over the program
counters and the two spinlocks, and from it `Mutex` and `NoLostWakeup`, for any
set of processes.

`LogProofs` proves type correctness without conditions, and under `LogRoom` the
inductive invariant `LogInv`. It has one part for each thing that could go wrong:
`ProcInv` (commit excludes calls; `outstanding` counts them), `HeadInv` (what the
two headers say in each phase), `CacheInv` (an unpinned, unlocked buffer agrees
with the disk, and exactly the logged blocks are pinned), `CopyInv` (how far the
copies to the log and home have come), `BudgetInv` (what is logged plus what
callers may still log fits in LOGSIZE) and `SleeperHasWaker`. None is inductive
alone: that `Bread` of a logged block yields its new contents at `write_log` needs
`CacheInv`, which needs `HeadInv` for the phase, which needs `ProcInv` for the
exclusion. Each has a step lemma with one step per action. From `LogInv` follow
`LogFits`, `SleeperHasWaker`, `WriteAhead`, and the refinement `CrashAtomic`: the
current state is what `bread()` would return, the durable state what recovery
would leave, and every step maps to a step of `AtomicFs` or to a stutter; only
`write_head` maps to its commit.

`LogRoom` says that LOGSIZE less what each call leaves unused of its reservation
is at most nlog - 1. With the shipped layout (nlog = LOGSIZE) it holds when every
call logs fewer than MAXOPBLOCKS blocks. It is a real condition: `begin_op()`
reserves against LOGSIZE entries and the log on disk holds one fewer, and the size
check in `log_write()` is made before the lock is taken (log.c:132, 218), so calls
that used up their reservations together would pass the check and overrun the log.
mkfs makes a file system with one bitmap block (FSSIZE 1000), where the largest
piece of a `write` logs four data blocks, the bitmap, an indirect block and the
inode, so the case needs a larger disk. `PanicRoom` is the same for the check
in `log_write()` itself, which refuses a full log even for a block already in it;
it is sufficient, not necessary.

`ProcProofs` proves `TableInv` and `ReapedByParent` for any number of slots, CPUs
and pids. `NoMissedExit` (a parent that sleeps in `wait()` has no zombie to
collect and has a child) needs `ParentAlive`, so that the parent that an exiting
process wakes is the one that waits, and `ParentAlive` needs `InitAlive`, since
orphans go to init, which never exits. `KillFindsProcess` needs `PidsUnique`.
`OneCpu` says which process each CPU runs, and every step of a process cites it.
`ForkOwns` and `EmbryoOwned` keep a slot out of everybody else's reach while
`fork()` works on it without `ptable.lock`.

`BcacheProofs` proves, for any number of buffers, blocks and holders and either
driver, an invariant of nine parts and from it `CleanMatchesDisk`,
`SleepersQueued`, `OnlyHolderChanges`. `RefsCounted` (`b->refcnt` is the number of
processes that have the buffer) and `LockHeld` show that a buffer somebody waits
for is not recycled; `FlagsSound` and `QueueOwned` say which flags a buffer has at
each place of `iderw()` and that only the buffers of sleepers are queued, which is
what makes the interrupt change the buffer of the right process. `CacheBuffers` has
no hypothesis about the number of buffers, because the code does not meet one: it
has NBUF = LOGSIZE = 30 buffers, all of which a transaction may pin, and 64
processes that may hold buffers they only read, outside of any reservation.
`bget()` has no place to wait and panics. `PanicOnlyWhenFull` says that it does so
only when its block has no buffer and every buffer is another process's or pinned;
it rests on `RefsCounted` (lemma `NotRecyclable`), and stays true afterwards
because the panic keeps `bcache.lock` (`PanicKept`): buffers can be released by
nobody, since `brelse()` needs that lock.

`VmProofs` proves `SpacesInv`, `PagesConserved`, `ArgsMapped` and `ExecStack` for
any number of processes, pages, page tables and program headers, any page size and
any arguments of `sbrk()` and `exec()`. `VmParts` is the same invariant said
process by process (lemma `Parts`): `SlotOk`, `SizeOk`, `LoopOk`, `ImageOk`, `OpOk`
for one process, and what relates processes, that the slot of a `fork()` belongs
to it, the count of transactions and the sum of pages. `OneChanged` and
`TwoChanged` reduce a step to the processes it changes; the sum over all processes
is a recursive function, and `TotalChange` says by induction on its partial sums
how it follows one summand. The heart is `Below(x)`, the pages that begin below
the size x: `BelowNext` (a round of a loop adds the page at a), `BelowRest` (what
`deallocuvm()` leaves) and `BelowAligned` (a size and the next page boundary have
the same pages) carry allocation, its failure and the commit. `LoopSound` is
needed because the loop of `allocuvm()` ends above the size it was asked for, and
because its error path frees from the old size. `ExecStack` follows since the
guard page lies between the arguments and the program, and `copyout()` refuses it.
The assumptions are those of the code's constants: at least three pages below
KERNBASE, so that a stack can be allocated without wrapping, and enough pages for
init.

`UsersProofs` proves `IdentityInv`, `AttrsAsSet` and `OpenAsSet` for any users,
processes and files. `AttrsAsSet` needs `InodesCoherent`: an inode with references
is the same in memory and on disk, because every change of owner and mode is
written through. `OpenAsSet` is an action property: the inode that `open()` tests is
the cached or the stored one, and `InodesCoherent` makes both what was last set.
`RootEarned` asks the table of sudoers itself, not the test in `sys_setsuid()`, so
that it fails when that test is dropped.

`PipeProofs` proves `FilesInv`, `Fifo` and `SleepJustified` for any number of
processes, files, descriptors and pages, any `PIPESIZE` and any counter width that
it divides and that is larger (2^32 and 512 in the code). `PipeInv`, the three
together, is inductive. `RefsExact` is a count of places, descriptors of processes
and hands of calls, and `PlacesSet` and `PlacesRow` say how setting one place, or
copying a row in `fork()`, changes it. `EndsUnique` is what `pipeclose()` needs: the
last reference to an end, or the copy in `ff`, is the only thing that leads there,
so that clearing `readopen` or `writeopen` is right. `InsideSound` gives a process
in a pipe a descriptor of its own, so nobody frees the page under it, and
`HandsSound` says which files are still without a type, so that `bad:` in
`pipealloc()` closes nothing twice. The argument about bytes is arithmetic: because
`PIPESIZE` divides `UINT`, a counter that wraps around keeps its place in the
buffer (`RingAdd`, `RingMoves`), and counters less than `PIPESIZE` apart have
different places (`ModApart`), so `copyin()` overwrites nothing that is still to be
read. `SleepJustified` needs the bound of `Fifo`: a step that leaves a reader asleep
must have left the pipe empty, and one that leaves a writer asleep full.

`ConsoleProofs` proves `HandlersInv` and `SleepersHaveNothing` and the refinement
`TerminalSpec`, for any number of readers, any ring, any screen of two or
more rows, any index width that `INPUT_BUF` divides and that is larger (2^32 and
128 in the code), every sequence of the modelled keys and characters, and any read
sizes and output. `ConsoleInv`, the two invariants together,
is inductive. `RingSound` was added for the induction: that `r`, `w` and `e` follow
one another around the ring is what makes `input.e - input.r` the number of
characters and `input.e != input.w` a line that is not empty, and that the line
under editing has no newline makes `C('U')` take all of it. `FullIsCommitted` is
inductive only with it. `SleepersHaveNothing` includes the reader that has tested
`input.r` and not yet slept, which holds `cons.lock`, so no interrupt comes between
(`TypeOK` says who holds it). `NoStuckModifier` says that `kbdgetc()` remembers an
0xE0 exactly until its byte has come: with only the implication from left to right
a byte could be taken for a key it does not belong to. The refinement reads the
ring as sequences. `RingAt(i, a, b)` describes a ring by the distances a from `r` to
`w` and b from `w` to `e`; `RingStored`, `RingErased`, `RingTaken` and `KillWhole` say
what the four changes of the ring do to it, and `RunAppend`, `RunFront`,
`RunHeadTail` and `RunConcat` what they do to the sequences. As in `Pipe` the
arithmetic rests on `INPUT_BUF` dividing `UINT`. Then a character typed is `Type`,
backspace `Erase`, `C('U')` `EraseLine`, the start of a read `Start`,
`consoleread_getc` is `Get` or, at `C('D')`, `End`, the kill is `Kill`, the killed
reader that gives up is `Abort`, and everything else is a stutter.

Thirty theorems in eight modules are listed in `PROJECT.json`. Only model-checked
are the liveness properties, since fairness and ENABLED are out of the prover's
reach, and what is said about `Inode` (`CacheInv`, `BitmapExact`, `ContentsMatch`,
`FreeOnlyUnreferenced`) and `Dir` (`InodesInv`, `ScanOffset`, `NcAgrees`,
`LinkCounts`). Those count over a tree of blocks and of directory entries; they
would come next.

## 5. Findings

`dir_unlink` is kept as a run: `dirlookup()` reports offset 0 on a name cache hit,
and `unlink` writes there.

Met while modelling, and described here only:

- `kill()` matches the pid left in a slot without a process (proc.c:492): it
  marks a free slot, and `allocproc()` does not clear the mark, so the next
  process made there is dead on arrival.
- The name cache is invalidated by `unlink` only, not when `iput()` frees the
  inode. A process still in a removed directory looks up a name, which is cached
  for an inode number that the next directory gets (`"removed"` in `misled`).
- `iput()` takes a sleep-lock while its callers hold others: `create` child before
  parent (sysfile.c:285), `unlink` parent before child (sysfile.c:203, 211), so the
  two can wait for each other. `dirlink()` does the same, and with the name `.` a
  `link` waits for the lock it holds itself.
- A writer killed at a full pipe leaves readers asleep although there is data
  (pipe.c:87), until the next write or the last close.
- A reader or sleeper killed between its test of `p->killed` and `sleep()` stays
  asleep until its event comes (pipe.c:107, console.c:246).
- `sbrk()` down to size 0 frees every page and then reports failure with `p->sz`
  unchanged (proc.c:172); the process faults.
- A block that cannot be read is marked valid (ide.c:118).
- mkfs rounds the size of the root up by a whole block when it ends on one
  (mkfs.c:161); a read of that hole can allocate a block outside a transaction.
- `setsuid()` says it allows going "back" (sysproc.c:220), but it compares with the
  current uid, so the call at sudo.c:70 has no effect. `login()` sets the gid,
  `setuid()` and `setsuid()` leave it.
- `setsuid(0)` asks for no password: the program of a sudoer that calls it is root
  at once (sysproc.c:208-226). The password is asked by the program sudo only.
- `sys_open()` with O_CREATE returns a file that exists without any test of its mode
  (sysfile.c:304-309, 259-260). Without it, an `omode` other than 0, 1 or 2 passes
  both tests, which compare with `==`, and still gives a descriptor that reads or
  writes (sysfile.c:323, 336, 363-364). There is no test for the group, although the
  macros of perm.h, which no code calls, have one.
- Two `iput()` of an unlinked file that both read `ip->ref` before either gives its
  reference up (fs.c:360, 373) both find 2, and the inode keeps its blocks without
  a reference or a link. A file without links that is open when the machine stops
  is left in the same way; nothing looks for such inodes at boot. These are the two
  cases of `lost`.
- init exits when its fork fails (init.c:25-28), as it does when somebody kills pid
  1, and the kernel panics (proc.c:240).
- `bget()` can panic with all buffers pinned or held (bio.c:92), `iget()` with NINODE
  = 50 entries for NFILE = 100 open files (fs.c:280), `ialloc()` and `balloc()` on a
  full disk (fs.c:226, 78).

## 6. What is left out

- Interrupt controllers and multiprocessor discovery (`lapic.c`, `ioapic.c`,
  `picirq.c`, `mp.c`): device registers and firmware tables, pure I/O.
- Boot (`bootasm.S`, `bootmain.c`, `entry.S`, `main.c`): straight-line code before
  there is anything concurrent.
- Output formatting (`cprintf`, `printf.c`), `procdump`, `panic`, what is on the
  screen.
- The shell, the other user programs, the user library and the tests: sequential
  clients of the kernel interface. `usertests.c` and `namecache_test.c` are quoted
  where they state what the kernel should do.
- `users_add`, `users_delete`, `users_list`, `namecache_clear`,
  `namecache_stats`: never called.
- `pushcli` and `popcli`, and memory-ordering effects on the spinlocks (`xchg`,
  barriers): assumed to work as documented.
- Page table bits, page contents, device numbers. In particular `uva2ka()` does not
  look whether `walkpgdir()` found a table (vm.c:354-355), which the arguments of an
  `exec()` reach only if they are longer than about 32 MB; in the model such an `exec()`
  fails, as with any page that is not mapped.

## 7. Plan

1. (done) Log, sleep-locks, process table, directories and name cache.
2. (done) Buffer cache and disk drivers; inodes, blocks and mkfs; file table and
   pipes; memory and exec; console; users.
3. (done) Proofs about the log, sleep-locks, the process table, the buffer cache,
   file table and pipes, memory and exec, users, the console and its line
   discipline.
4. Left: proofs about `Inode` (the bitmap and the references to blocks first, then
   the contents) and `Dir` (the locks of `namex` first, then the link counts).
