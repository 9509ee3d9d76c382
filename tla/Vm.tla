--------------------------------- MODULE Vm ---------------------------------
(***************************************************************************)
(* User memory: the page allocator (kalloc.c), page tables (vm.c), exec()  *)
(* (exec.c), and what allocproc(), growproc(), fork() and wait() of proc.c *)
(* do with memory; and the checks of system call arguments (syscall.c).    *)
(*                                                                         *)
(* A step is one round of a loop that calls kalloc(), so that processes    *)
(* compete for the last pages at every point.  Pages are counted, not      *)
(* named: an address space records which virtual pages are mapped, and     *)
(* which second-level tables it has.  PGSIZE, the number of pages below    *)
(* KERNBASE and the width of an address are small.                         *)
(***************************************************************************)
EXTENDS Integers, FiniteSets

CONSTANTS
    NPROC,      \* process slots, slot 1 is init
    NPAGE,      \* pages that kinit1() and kinit2() put on the free list
    PGSIZE,     \* bytes in a page
    PTSIZE,     \* pages that one page table maps (NPTENTRIES)
    NVPN,       \* pages below KERNBASE
    Segments,   \* program headers: [vaddr, memsz, filesz]
    MAXSEG,     \* bound: program headers of a file
    GrowBy,     \* arguments of sbrk()
    ArgSizes    \* bytes that exec() pushes on the new stack

KERNBASE == NVPN * PGSIZE
UINT     == 2 * KERNBASE        \* addresses wrap around here
Procs    == 1..NPROC
Vpns     == 0..NVPN - 1

ASSUME VmAssumption ==
    /\ {NPROC, NPAGE, PGSIZE, PTSIZE, NVPN} \subseteq Nat \ {0}
    /\ NPAGE >= 5 /\ NVPN >= 3 /\ MAXSEG \in Nat /\ ArgSizes \subseteq Nat
    /\ Segments \subseteq [vaddr : 0..UINT - 1, memsz : 0..UINT - 1, filesz : 0..UINT - 1]
    /\ \A n \in GrowBy : n \in -KERNBASE..KERNBASE - 1

VARIABLES
    nfree,      \* pages on kmem.freelist
    proc,       \* of every slot: kernel stack, page directory, p->sz, esp
    th,         \* the call that every process is in
    outstanding, \* file system calls between begin_op() and end_op()
    panic

vars == <<nfree, proc, th, outstanding, panic>>

\* A page directory: its tables below KERNBASE, the mapped pages, and those of
\* them without PTE_U.
NoDir == [live |-> FALSE, tabs |-> {}, pages |-> {}, nouser |-> {}]
KernelDir == [NoDir EXCEPT !.live = TRUE]

\* Pages that a page directory occupies: itself, the kernel's page tables
\* (counted as one), its other page tables and the user pages.
PagesOf(d) == IF d.live THEN 2 + Cardinality(d.tabs) + Cardinality(d.pages) ELSE 0

\* pc: "user", "fault" (its memory is gone), "zombie", "unused", "embryo" (the
\* slot of a fork() under way), or a place in a call.  new: the page directory
\* under construction, nsz: its size.  a, oldsz, newsz: the loop of allocuvm() or
\* copyuvm().  seg: the program header, nseg: how many are loaded.  ip: the
\* inode that exec() has locked, in a transaction.  child: the slot for fork().
Thread(pc) ==
    [pc |-> pc, new |-> NoDir, nsz |-> 0, a |-> 0, oldsz |-> 0, newsz |-> 0,
     seg |-> [vaddr |-> 0, memsz |-> 0, filesz |-> 0], nseg |-> 0, ip |-> FALSE, child |-> 0]

NoProc == [kstack |-> FALSE, dir |-> NoDir, sz |-> 0, sp |-> 0]

\* userinit(): init has one page, inituvm() has put initcode there.
Init ==
    /\ proc = [p \in Procs |-> IF p # 1 THEN NoProc ELSE
                   [kstack |-> TRUE, sz |-> PGSIZE, sp |-> 0,
                    dir |-> [KernelDir EXCEPT !.tabs = {0}, !.pages = {0}]]]
    /\ nfree = NPAGE - 5
    /\ th = [p \in Procs |-> Thread(IF p = 1 THEN "user" ELSE "unused")]
    /\ outstanding = 0 /\ panic = FALSE

At(p, pc) == ~panic /\ th[p].pc = pc

\* n pages off, or back on, the free list.
kalloc(n) == nfree' = nfree - n
kfree(n) == nfree' = nfree + n

PGROUNDUP(x) == ((x + PGSIZE - 1) \div PGSIZE) * PGSIZE

-----------------------------------------------------------------------------
(* allocuvm() and deallocuvm() *)

\* deallocuvm(): the directory without the pages from newsz up to oldsz.
deallocuvm(d, oldsz, newsz) ==
    LET gone == {v \in d.pages : PGROUNDUP(newsz) <= v * PGSIZE /\ v * PGSIZE < oldsz}
    IN  [d EXCEPT !.pages = @ \ gone, !.nouser = @ \ gone]

\* mappages() of one new page: the number of pages it takes, the new directory.
Vpn(a) == a \div PGSIZE
Needs(d, a) == IF Vpn(a) \div PTSIZE \in d.tabs THEN 1 ELSE 2
Mapped(d, a) == [d EXCEPT !.pages = @ \union {Vpn(a)}, !.tabs = @ \union {Vpn(a) \div PTSIZE}]

\* The directory that the loop of p works on: exec() and fork() build a new one.
Dir(p) == IF th[p].new.live THEN th[p].new ELSE proc[p].dir

SetDir(p, d, t) ==
    IF th[p].new.live THEN /\ th' = [th EXCEPT ![p] = [t EXCEPT !.new = d]]
                           /\ UNCHANGED proc
    ELSE /\ proc' = [proc EXCEPT ![p].dir = d]
         /\ th' = [th EXCEPT ![p] = t]

\* The start of allocuvm(): t is the thread with the loop ready, to go on at pc,
\* or at fail with no pages allocated.
Grow(t, oldsz, newsz, pc, fail) ==
    IF newsz >= KERNBASE THEN [t EXCEPT !.pc = fail]
    ELSE IF newsz < oldsz THEN [t EXCEPT !.pc = pc, !.newsz = oldsz, !.oldsz = oldsz, !.a = oldsz]
    ELSE [t EXCEPT !.pc = pc, !.newsz = newsz, !.oldsz = oldsz, !.a = PGROUNDUP(oldsz)]

Growing == {"grow", "seg", "stack"}

\* One round of the loop of allocuvm(); when memory runs out, the pages mapped
\* so far are given back and the caller's error path is taken.
allocuvm(p) ==
    LET t == th[p]
        d == Dir(p)
        n == Needs(d, t.a)
        undo == deallocuvm(d, t.newsz, t.oldsz)
        fail == [t EXCEPT !.pc = IF @ = "grow" THEN "user" ELSE "bad"]
    IN  /\ ~panic /\ t.pc \in Growing /\ t.a < t.newsz
        /\ UNCHANGED outstanding
        /\ panic' = (nfree >= n /\ Vpn(t.a) \in d.pages)        \* "remap"
        /\ IF nfree >= n THEN kalloc(n) ELSE kfree(PagesOf(d) - PagesOf(undo))
        /\ IF nfree >= n THEN SetDir(p, Mapped(d, t.a), [t EXCEPT !.a = @ + PGSIZE])
                         ELSE SetDir(p, undo, fail)

Grown(p, pc) == At(p, pc) /\ th[p].a >= th[p].newsz

-----------------------------------------------------------------------------
(* sbrk(): growproc() *)

sbrk_grow(p, n) ==
    LET sz == proc[p].sz
    IN  /\ At(p, "user") /\ n > 0
        /\ th' = [th EXCEPT ![p] = Grow(@, sz, (sz + n) % UINT, "grow", "user")]
        /\ UNCHANGED <<nfree, proc, outstanding, panic>>

sbrk_grown(p) ==
    /\ Grown(p, "grow")
    /\ proc' = [proc EXCEPT ![p].sz = th[p].newsz]
    /\ th' = [th EXCEPT ![p] = Thread("user")]
    /\ UNCHANGED <<nfree, outstanding, panic>>

\* A negative argument.  The size 0 is taken for a failure of deallocuvm(): the
\* pages are gone, p->sz stays, and the process faults at its next instruction.
sbrk_shrink(p, n) ==
    LET sz  == proc[p].sz
        new == (sz + n + UINT) % UINT
        d   == deallocuvm(proc[p].dir, sz, new)
    IN  /\ At(p, "user") /\ n < 0
        /\ IF new >= sz THEN UNCHANGED <<nfree, proc, th>>
           ELSE /\ kfree(PagesOf(proc[p].dir) - PagesOf(d))
                /\ proc' = [proc EXCEPT ![p].dir = d, ![p].sz = IF new = 0 THEN @ ELSE new]
                /\ th' = [th EXCEPT ![p].pc = IF new = 0 THEN "fault" ELSE @]
        /\ UNCHANGED <<outstanding, panic>>

-----------------------------------------------------------------------------
(* exec() *)

\* begin_op(), namei(), ilock().
exec(p) ==
    /\ At(p, "user")
    /\ outstanding' = outstanding + 1
    /\ th' = [th EXCEPT ![p] = [Thread("elf") EXCEPT !.ip = TRUE]]
    /\ UNCHANGED <<nfree, proc, panic>>

\* The ELF header is good or not; setupkvm().
exec_elf(p, good) ==
    LET ok == good /\ nfree >= 2
    IN  /\ At(p, "elf")
        /\ kalloc(IF ok THEN 2 ELSE 0)
        /\ th' = [th EXCEPT ![p].pc = IF ok THEN "segments" ELSE "bad",
                            ![p].new = IF ok THEN KernelDir ELSE NoDir]
        /\ UNCHANGED <<proc, outstanding, panic>>

\* A program header: the checks before allocuvm().
exec_seg(p, s) ==
    LET end == (s.vaddr + s.memsz) % UINT
        ok  == s.memsz >= s.filesz /\ end >= s.vaddr
    IN  /\ At(p, "segments") /\ th[p].nseg < MAXSEG
        /\ th' = [th EXCEPT ![p] =
                     IF ok THEN Grow([@ EXCEPT !.seg = s, !.nseg = th[p].nseg + 1],
                                     th[p].nsz, end, "seg", "bad")
                     ELSE [@ EXCEPT !.pc = "bad"]]
        /\ UNCHANGED <<nfree, proc, outstanding, panic>>

\* After allocuvm(): the size, the alignment, loaduvm(), which may fail to read.
exec_load(p, good) ==
    LET t  == th[p]
        ok == good /\ t.newsz # 0 /\ t.seg.vaddr % PGSIZE = 0
        to == {v \in Vpns : t.seg.vaddr <= v * PGSIZE /\ v * PGSIZE < t.seg.vaddr + t.seg.filesz}
    IN  /\ Grown(p, "seg")
        /\ panic' = (ok /\ ~(to \subseteq t.new.pages))     \* "address should exist"
        /\ th' = [th EXCEPT ![p] = IF ok THEN [@ EXCEPT !.pc = "segments", !.nsz = t.newsz]
                                   ELSE [@ EXCEPT !.pc = "bad"]]
        /\ UNCHANGED <<nfree, proc, outstanding>>

exec_stack_keepIp(p) ==
    LET sz == PGROUNDUP(th[p].nsz)
    IN  /\ At(p, "segments")
        /\ outstanding' = outstanding - 1
        /\ th' = [th EXCEPT ![p] = Grow(@, sz, (sz + 2 * PGSIZE) % UINT, "stack", "bad")]
        /\ UNCHANGED <<nfree, proc, panic>>

\* iunlockput(), end_op(), ip = 0, and the allocation of the guard page and the
\* stack.
exec_stack(p) ==
    LET sz == PGROUNDUP(th[p].nsz)
    IN  /\ At(p, "segments")
        /\ outstanding' = outstanding - 1
        /\ th' = [th EXCEPT ![p] = Grow([@ EXCEPT !.ip = FALSE],
                                        sz, (sz + 2 * PGSIZE) % UINT, "stack", "bad")]
        /\ UNCHANGED <<nfree, proc, panic>>

\* clearpteu() of the page below the stack.
exec_guard(p) ==
    LET t == th[p]
    IN  /\ Grown(p, "stack")
        /\ th' = [th EXCEPT ![p] = [t EXCEPT !.pc = "args", !.nsz = t.newsz,
                                             !.new.nouser = {Vpn(t.newsz - 2 * PGSIZE)}]]
        /\ UNCHANGED <<nfree, proc, outstanding, panic>>

UserPages_anyPte(d, sz, n) ==
    \A i \in 1..n : Vpn((sz - i) % UINT) \in d.pages

\* uva2ka() in copyout(): all of the n bytes below sz, where sp may have wrapped
\* around on the way down, are in pages mapped for the user.
UserPages(d, sz, n) ==
    \A i \in 1..n : Vpn((sz - i) % UINT) \in d.pages \ d.nouser

\* The arguments are pushed, n bytes of them.  If they can be copied out,
\* commit to the new image.
exec_commit(p, n) ==
    LET t  == th[p]
        sp == (t.nsz - n) % UINT
        ok == UserPages(t.new, t.nsz, n)
    IN  /\ At(p, "args")
        /\ kfree(IF ok THEN PagesOf(proc[p].dir) ELSE 0)
        /\ proc' = IF ok THEN [proc EXCEPT ![p].dir = t.new, ![p].sz = t.nsz, ![p].sp = sp] ELSE proc
        /\ th' = [th EXCEPT ![p] = IF ok THEN Thread("user") ELSE [t EXCEPT !.pc = "bad"]]
        /\ UNCHANGED <<outstanding, panic>>

exec_bad_leak(p) ==
    /\ At(p, "bad")
    /\ outstanding' = outstanding - (IF th[p].ip THEN 1 ELSE 0)
    /\ th' = [th EXCEPT ![p] = Thread("user")]
    /\ UNCHANGED <<nfree, proc, panic>>

\* The label bad: freevm(), and if the inode is locked iunlockput(), end_op().
exec_bad(p) ==
    /\ At(p, "bad")
    /\ kfree(PagesOf(th[p].new))
    /\ outstanding' = outstanding - (IF th[p].ip THEN 1 ELSE 0)
    /\ th' = [th EXCEPT ![p] = Thread("user")]
    /\ UNCHANGED <<proc, panic>>

-----------------------------------------------------------------------------
(* fork(), exit(), wait() *)

\* allocproc(): a slot and its kernel stack.
fork(p, q) ==
    /\ At(p, "user") /\ th[q].pc = "unused"
    /\ nfree >= 1
    /\ kalloc(1)
    /\ proc' = [proc EXCEPT ![q].kstack = TRUE]
    /\ th' = [th EXCEPT ![p] = [@ EXCEPT !.pc = "copyuvm", !.child = q, !.a = 0],
                        ![q] = Thread("embryo")]
    /\ UNCHANGED <<outstanding, panic>>

\* The error path of fork(), after copyuvm() has freed its pages.
ForkFails(p, freed) ==
    /\ kfree(freed + 1)
    /\ proc' = [proc EXCEPT ![th[p].child] = NoProc]
    /\ th' = [th EXCEPT ![p] = Thread("user"), ![th[p].child] = Thread("unused")]
    /\ UNCHANGED <<outstanding, panic>>

\* setupkvm() of copyuvm().
copyuvm_kvm(p) ==
    /\ At(p, "copyuvm") /\ ~th[p].new.live
    /\ IF nfree < 2 THEN ForkFails(p, 0)
       ELSE /\ kalloc(2)
            /\ th' = [th EXCEPT ![p].new = KernelDir]
            /\ UNCHANGED <<proc, outstanding, panic>>

\* One round of the loop of copyuvm().
copyuvm(p) ==
    LET t == th[p]
        n == Needs(t.new, t.a)
        flags == IF Vpn(t.a) \in proc[p].dir.nouser THEN {Vpn(t.a)} ELSE {}
    IN  /\ At(p, "copyuvm") /\ t.new.live /\ t.a < proc[p].sz
        /\ IF Vpn(t.a) \notin proc[p].dir.pages             \* "page not present"
           THEN panic' = TRUE /\ UNCHANGED <<nfree, proc, th, outstanding>>
           ELSE IF nfree < n THEN ForkFails(p, PagesOf(t.new))
           ELSE /\ kalloc(n)
                /\ th' = [th EXCEPT ![p].a = @ + PGSIZE,
                              ![p].new = [Mapped(t.new, t.a) EXCEPT
                                             !.nouser = t.new.nouser \union flags]]
                /\ UNCHANGED <<proc, outstanding, panic>>

\* The rest of fork(): the child is runnable.
fork_done(p) ==
    LET q == th[p].child
    IN  /\ At(p, "copyuvm") /\ th[p].new.live /\ th[p].a >= proc[p].sz
        /\ proc' = [proc EXCEPT ![q] = [@ EXCEPT !.dir = th[p].new, !.sz = proc[p].sz,
                                                 !.sp = proc[p].sp]]
        /\ th' = [th EXCEPT ![p] = Thread("user"), ![q] = Thread("user")]
        /\ UNCHANGED <<nfree, outstanding, panic>>

exit(p) ==
    /\ ~panic /\ p # 1 /\ th[p].pc \in {"user", "fault"}
    /\ th' = [th EXCEPT ![p] = Thread("zombie")]
    /\ UNCHANGED <<nfree, proc, outstanding, panic>>

\* wait() finds the zombie: the kernel stack, freevm().
wait(p) ==
    /\ At(p, "zombie")
    /\ kfree(1 + PagesOf(proc[p].dir))
    /\ proc' = [proc EXCEPT ![p] = NoProc]
    /\ th' = [th EXCEPT ![p] = Thread("unused")]
    /\ UNCHANGED <<outstanding, panic>>

-----------------------------------------------------------------------------
(* syscall.c: may the kernel use n bytes at an address that the user gives? *)

WORD == 2               \* the 4 bytes of an int

fetchint(sz, addr) == addr < sz /\ (addr + WORD) % UINT <= sz

argptr_sumOnly(sz, addr, n) == (addr + n) % UINT <= sz

argptr(sz, addr, n) == addr < sz /\ (addr + n) % UINT <= sz

-----------------------------------------------------------------------------

\* init does not call sbrk().
Sbrk(p) == \/ \E n \in GrowBy : sbrk_grow(p, n) \/ sbrk_shrink(p, n)
           \/ sbrk_grown(p)

Exec(p) == \/ exec(p) \/ exec_stack(p) \/ exec_guard(p) \/ exec_bad(p)
           \/ \E good \in BOOLEAN : exec_elf(p, good) \/ exec_load(p, good)
           \/ \E s \in Segments : exec_seg(p, s)
           \/ \E n \in ArgSizes : exec_commit(p, n)

Fork(p) == \/ \E q \in Procs : fork(p, q)
           \/ copyuvm_kvm(p) \/ copyuvm(p) \/ fork_done(p)

Next == \E p \in Procs : (p # 1 /\ Sbrk(p)) \/ Exec(p) \/ Fork(p) \/ allocuvm(p) \/ exit(p) \/ wait(p)

Spec == Init /\ [][Next]_vars

-----------------------------------------------------------------------------
(* Properties *)

DirType  == [live : BOOLEAN, tabs : SUBSET Vpns, pages : SUBSET Vpns, nouser : SUBSET Vpns]
ProcType == [kstack : BOOLEAN, dir : DirType, sz : 0..KERNBASE - 1, sp : Nat]
Building == {"segments", "seg", "stack", "args"}        \* exec() builds a directory
ThreadType ==
    [pc : {"user", "fault", "zombie", "unused", "embryo", "grow", "copyuvm", "elf", "bad"}
             \union Building,
     new : DirType, nsz : Nat, a : Nat, oldsz : Nat, newsz : Nat,
     seg : [vaddr : Nat, memsz : Nat, filesz : Nat], nseg : 0..MAXSEG, ip : BOOLEAN,
     child : 0..NPROC]

\* Types of the free list, the processes and their calls.
TypeOK == /\ nfree \in 0..NPAGE /\ outstanding \in Nat /\ panic \in BOOLEAN
          /\ proc \in [Procs -> ProcType] /\ th \in [Procs -> ThreadType]

\* A mapped page has its page table, and a page without PTE_U is mapped; a
\* directory that setupkvm() has not made is empty.
DirSound(d) == /\ d.nouser \subseteq d.pages
               /\ \A v \in d.pages : v \div PTSIZE \in d.tabs
               /\ ~d.live => d = NoDir

\* A slot has a kernel stack and an address space from fork() to wait(), and a
\* second address space only inside exec() or fork(); the slot that fork() fills
\* belongs to that fork() alone.
SlotsSound ==
    \A p \in Procs :
        /\ DirSound(proc[p].dir) /\ DirSound(th[p].new)
        /\ th[p].pc = "unused" => proc[p] = NoProc
        /\ th[p].pc = "embryo" => proc[p] = [NoProc EXCEPT !.kstack = TRUE]
        /\ th[p].pc \notin {"unused", "embryo"} => proc[p].kstack /\ proc[p].dir.live
        /\ th[p].new.live => th[p].pc \in Building \union {"bad", "copyuvm"}
        /\ th[p].pc \in Building => th[p].new.live
        /\ th[p].pc = "copyuvm" =>
              /\ th[p].child \in Procs /\ th[th[p].child].pc = "embryo"
              /\ \A q \in Procs \ {p} : th[q].pc = "copyuvm" => th[q].child # th[p].child

\* The pages below a size.
Below(x) == {v \in Vpns : v * PGSIZE < x}

\* In a process that runs in user mode exactly the pages below p->sz are mapped:
\* growproc(), exec() and fork() keep the size and the page table in step, and
\* exec() and fork() leave the old image alone until they commit.
SizeMapped ==
    \A p \in Procs : th[p].pc \in Building \union {"user", "copyuvm", "elf", "bad"} =>
        proc[p].dir.pages = Below(proc[p].sz)

\* The loop of allocuvm() has mapped the pages below a, beginning with the size
\* that the directory had; it ends at the first page boundary above newsz.
LoopSound ==
    \A p \in Procs : LET t == th[p] IN t.pc \in Growing =>
        /\ t.oldsz <= t.a /\ t.a < t.newsz + PGSIZE /\ t.newsz < KERNBASE
        /\ t.a % PGSIZE = 0 \/ t.a = t.newsz
        /\ Dir(p).pages = Below(t.a)
        /\ t.pc = "grow" => t.oldsz = proc[p].sz
        /\ t.pc = "seg" => t.oldsz = t.nsz /\ t.seg.vaddr + t.seg.filesz <= t.newsz
        /\ t.pc = "stack" => t.oldsz = PGROUNDUP(t.nsz) /\ t.newsz = t.oldsz + 2 * PGSIZE

\* The image that exec() builds has the pages below its size, and under the stack
\* a page without PTE_U; the one that copyuvm() builds has the pages copied so far.
ImageSound ==
    \A p \in Procs : LET t == th[p] IN
        /\ t.pc = "elf" => t.nsz = 0
        /\ t.pc \in {"segments", "args"} => t.new.pages = Below(t.nsz) /\ t.nsz < KERNBASE
        /\ t.pc \in {"segments", "seg", "stack"} => t.new.nouser = {}
        /\ t.pc = "args" => /\ t.nsz % PGSIZE = 0 /\ t.nsz >= 2 * PGSIZE
                            /\ t.new.nouser = {Vpn(t.nsz) - 2}
        /\ t.pc = "copyuvm" /\ ~t.new.live => t.a = 0
        /\ t.pc = "copyuvm" /\ t.new.live =>
              /\ t.a % PGSIZE = 0 /\ t.a < proc[p].sz + PGSIZE
              /\ t.new.pages = Below(t.a)
              /\ t.new.nouser = proc[p].dir.nouser \intersect Below(t.a)

\* Pages that belong to a process: kernel stack, address space, the new one.
PagesIn(r, t) == (IF r.kstack THEN 1 ELSE 0) + PagesOf(r.dir) + PagesOf(t.new)

\* The sum of f over all slots.
Total(f) == LET sum[n \in 0..NPROC] == IF n = 0 THEN 0 ELSE sum[n - 1] + f[n]
            IN  sum[NPROC]

\* Every page is on the free list or belongs to exactly one kernel stack or
\* address space, also on the error paths of exec(), fork() and sbrk(): no page
\* is leaked or freed twice.
PagesConserved == NPAGE = nfree + Total([p \in Procs |-> PagesIn(proc[p], th[p])])

\* Whatever argument passes the checks of fetchint() and argptr(), its bytes are
\* mapped in the process, also when the sum of address and size wraps around.
ArgsMapped ==
    \A p \in Procs : th[p].pc = "user" =>
        \A addr \in 0..UINT - 1 : \A n \in 0..KERNBASE - 1 :
            argptr(proc[p].sz, addr, n) \/ (n = WORD /\ fetchint(proc[p].sz, addr)) =>
                \A a \in addr..addr + n - 1 : Vpn(a) \in proc[p].dir.pages

\* No panic: "remap", "loaduvm: address should exist", "copyuvm: page not
\* present".
NoPanic == ~panic

\* exec() ends the transaction that it has begun exactly once on every path: the
\* calls of exec() that have a locked inode are the transactions that are open.
OpsEnded ==
    /\ outstanding = Cardinality({p \in Procs : th[p].ip})
    /\ \A p \in Procs : /\ th[p].ip => th[p].pc \in {"elf", "segments", "seg", "bad"}
                        /\ th[p].pc \in {"elf", "segments", "seg"} => th[p].ip

\* When exec() commits to an image, the arguments lie in the page of the stack,
\* above a page that the user cannot access: arguments that are too long make
\* exec() fail.
ExecStack ==
    [][\A p \in Procs : th[p].pc = "args" /\ th'[p].pc = "user" =>
          /\ proc'[p].sp >= proc'[p].sz - PGSIZE
          /\ Vpn(proc'[p].sz) - 2 \in proc'[p].dir.nouser]_vars

\* Address spaces as vm.c and exec.c keep them: types, no panic, p->sz in step
\* with the page table through the loops of allocuvm(), exec() and copyuvm(), and a
\* transaction that exec() ends on every path.
SpacesInv == /\ TypeOK /\ SlotsSound /\ SizeMapped /\ LoopSound /\ ImageSound
             /\ OpsEnded /\ NoPanic
=============================================================================
