------------------------------- MODULE Inode --------------------------------
(***************************************************************************)
(* The block allocator and the inodes of fs.c: bitmap, inode cache, block  *)
(* map, readi() and writei() under fileread() and filewrite(), allocation  *)
(* and freeing of inodes; and mkfs.c, which builds the image they start    *)
(* from.                                                                   *)
(*                                                                         *)
(* A step is what happens while a buffer, or icache.lock, is held, or      *)
(* several such sections on an inode that nobody else can reach.  An       *)
(* inode stays locked between the steps of writei() and itrunc().  There   *)
(* is one directory, the root; a file has at most one name, and a lookup   *)
(* scans the directory (the name cache is in module Dir).  Crashes happen  *)
(* between transactions, with files open or not: module Log shows that a   *)
(* crash in a transaction leads back to such a state.                      *)
(*                                                                         *)
(* A disk block is BSIZE words: bytes of a file, block numbers, or entries *)
(* of the directory, which are inode numbers.  Byte off of file i is       *)
(* always written as Byte(i, off), so that a byte that comes from another  *)
(* file, another offset or an old block shows.                             *)
(***************************************************************************)
EXTENDS Naturals, FiniteSets, Sequences, SequencesExt, FiniteSetsExt

CONSTANTS
    Procs,          \* processes, each with at most one open file
    NINODES,        \* inodes on disk, number 1 is the root directory
    CacheSizes,     \* values of NINODE, the entries of the inode cache
    NBLOCKS,        \* blocks after the metadata
    BSIZE,          \* words in a block; NINDIRECT is the same
    NDIRECT,        \* direct blocks of an inode
    MAXOPBLOCKS,    \* blocks a transaction may write
    UNIT,           \* the 512 in filewrite(), at most BSIZE
    WriteSizes,     \* arguments of write()
    ImageSizes,     \* sizes of the files in the image
    NIMAGE,         \* number of files in the image
    MAXCALLS,       \* bound: calls of open(), unlink() and write()
    None            \* no process

ASSUME InodeAssumption ==
    /\ {NINODES, NBLOCKS, BSIZE, NDIRECT, UNIT} \union CacheSizes \subseteq Nat \ {0}
    /\ MAXOPBLOCKS \in Nat /\ MAXOPBLOCKS >= 6 /\ UNIT <= BSIZE
    /\ NIMAGE \in Nat /\ NIMAGE < NINODES

\* mkfs rounds the size of the root directory up to (off/BSIZE + 1) * BSIZE.
\* If its entries fill their blocks exactly, the last block of the directory is
\* a hole, and the first readi() of it allocates a block outside of a
\* transaction.  The image must not be of that kind.
ASSUME RootNotFull == (2 + NIMAGE) % BSIZE # 0

ROOTINO == 1
Inums   == 1..NINODES
Blocks  == 1..NBLOCKS
Words   == 0..BSIZE - 1
MAXFILE == NDIRECT + BSIZE
CHUNK   == ((MAXOPBLOCKS - 1 - 1 - 2) \div 2) * UNIT    \* max of filewrite()

VARIABLES
    NINODE,     \* entries of the inode cache, chosen at the start
    mode,       \* "mkfs", "up", "full" (a panic for want of a block, an inode or a
                \* cache entry) or "panic" (any other)
    freeinode, freeblock,   \* of mkfs.c
    append,     \* mkfs: the words still to be appended, each to an inode
    bitmap,     \* blocks in use, by the bitmap on disk
    dino,       \* the inodes on disk
    blk,        \* the contents of the blocks
    ip,         \* the inode cache: the entry of every inode
    th,         \* the call that every process is in
    calls,      \* calls made so far
    lost        \* history: unlinked inodes that no iput() will free

vars == <<NINODE, mode, freeinode, freeblock, append, bitmap, dino, blk, ip, th, calls, lost>>
mkVars == <<NINODE, freeinode, freeblock, append>>

Zero   == [w \in Words |-> 0]
NoAddr == [k \in 0..NDIRECT |-> 0]
FreeInode == [type |-> "none", nlink |-> 0, size |-> 0, addrs |-> NoAddr]
NotCached == [ref |-> 0, valid |-> FALSE, lock |-> None, d |-> FreeInode]
Byte(i, off) == 100 * i + off

\* pc: "idle" (no file), "open", or a place in a call on inode i.  off: the
\* file's offset.  n: bytes of the write still to do; rem: of this writei().
\* log: blocks logged by the transaction.  todo: blocks itrunc() has to free.
Idle == [pc |-> "idle", i |-> 0, off |-> 0, n |-> 0, rem |-> 0, log |-> {}, todo |-> <<>>]

Init ==
    /\ NINODE \in CacheSizes
    /\ mode = "mkfs" /\ freeinode = 1 /\ freeblock = 1 /\ append = <<>>
    /\ bitmap = {}
    /\ dino = [i \in Inums |-> FreeInode]
    /\ blk = [b \in Blocks |-> Zero]
    /\ ip = [i \in Inums |-> NotCached]
    /\ th = [p \in Procs |-> Idle]
    /\ calls = 0 /\ lost = {}

-----------------------------------------------------------------------------
(* mkfs.c *)

\* ialloc() of mkfs.c: the next inode, with one link.
mk_ialloc(inum) == [dino EXCEPT ![inum] = [FreeInode EXCEPT !.type = "file", !.nlink = 1]]

Word(i, w) == [i |-> i, w |-> w]

\* The root directory, with its entries . and .. still to be appended.
mk_root ==
    /\ mode = "mkfs" /\ freeinode = ROOTINO
    /\ dino' = mk_ialloc(freeinode)
    /\ freeinode' = freeinode + 1
    /\ append' = <<Word(ROOTINO, ROOTINO), Word(ROOTINO, ROOTINO)>>
    /\ UNCHANGED <<NINODE, mode, freeblock, bitmap, blk, ip, th, calls, lost>>

\* A file of n bytes: its inode, an entry in the root, its contents.
mk_file(n) ==
    /\ mode = "mkfs" /\ append = <<>> /\ freeinode \in 2..NIMAGE + 1
    /\ dino' = mk_ialloc(freeinode)
    /\ freeinode' = freeinode + 1
    /\ append' = <<Word(ROOTINO, freeinode)>>
                 \o [k \in 1..n |-> Word(freeinode, Byte(freeinode, k - 1))]
    /\ UNCHANGED <<NINODE, mode, freeblock, bitmap, blk, ip, th, calls, lost>>

\* iappend() of one word (of n bytes: a sequence of such steps).
iappend ==
    LET i    == Head(append).i
        d    == dino[i]
        bn   == d.size \div BSIZE
        small == bn < NDIRECT
        ind  == IF ~small /\ d.addrs[NDIRECT] = 0 THEN freeblock ELSE d.addrs[NDIRECT]
        free == IF ind = d.addrs[NDIRECT] THEN freeblock ELSE freeblock + 1
        old  == IF small THEN d.addrs[bn] ELSE blk[ind][bn - NDIRECT]
        x    == IF old = 0 THEN free ELSE old
    IN  /\ mode = "mkfs" /\ append # <<>>
        /\ append' = Tail(append)
        /\ freeblock' = IF old = 0 THEN free + 1 ELSE free
        /\ dino' = [dino EXCEPT ![i].size = @ + 1,
                                ![i].addrs[IF small THEN bn ELSE NDIRECT] = IF small THEN x ELSE ind]
        /\ blk' = [b \in Blocks |->
                      CASE b = x -> [blk[b] EXCEPT ![d.size % BSIZE] = Head(append).w]
                        [] b = ind /\ ~small -> [blk[b] EXCEPT ![bn - NDIRECT] = x]
                        [] OTHER -> blk[b]]
        /\ UNCHANGED <<NINODE, mode, freeinode, bitmap, ip, th, calls, lost>>

\* The inode cache after userinit(): the first process has "/" as its directory.
Booted == [i \in Inums |-> IF i = ROOTINO THEN [NotCached EXCEPT !.ref = 1] ELSE NotCached]

\* The end of main(): fix the size of the root, write the bitmap.  Then xv6 starts.
mk_balloc ==
    /\ mode = "mkfs" /\ append = <<>> /\ freeinode = NIMAGE + 2
    /\ dino' = [dino EXCEPT ![ROOTINO].size = (@ \div BSIZE + 1) * BSIZE]
    /\ bitmap' = 1..freeblock - 1
    /\ mode' = "up" /\ ip' = Booted
    /\ UNCHANGED <<mkVars, blk, th, calls, lost>>

-----------------------------------------------------------------------------
(* Blocks *)

\* The bitmap block and the block of inode i, as members of the set of logged
\* blocks: at worst every inode is in a block of its own.
BITMAP      == 0
INODEBLK(i) == NBLOCKS + i

\* The part of the state that bmap() changes, for a transaction that has
\* logged the blocks in log.
Disk(log) == [bitmap |-> bitmap, blk |-> blk, log |-> log]

FirstFree(s) == Min(Blocks \ s.bitmap)

\* balloc() and bzero().
balloc(s) ==
    LET b == FirstFree(s)
    IN  [bitmap |-> s.bitmap \union {b}, blk |-> [s.blk EXCEPT ![b] = Zero],
         log |-> s.log \union {BITMAP, b}]

\* bmap(): the block number, with what the call changes on disk and in d.
bmap_direct(s, d, bn) ==
    IF d.addrs[bn] # 0 THEN [s |-> s, d |-> d, addr |-> d.addrs[bn]]
    ELSE [s |-> balloc(s), d |-> [d EXCEPT !.addrs[bn] = FirstFree(s)], addr |-> FirstFree(s)]

bmap(s, d, bn) ==
    IF bn < NDIRECT THEN bmap_direct(s, d, bn)
    ELSE LET r   == bmap_direct(s, d, NDIRECT)     \* the indirect block
             a   == r.s.blk[r.addr][bn - NDIRECT]
             new == balloc(r.s)
         IN  IF a # 0 THEN [r EXCEPT !.addr = a]
             ELSE [s |-> [new EXCEPT !.blk[r.addr][bn - NDIRECT] = FirstFree(r.s),
                                     !.log = @ \union {r.addr}],
                   d |-> r.d, addr |-> FirstFree(r.s)]

\* The blocks that bmap() has to allocate, and whether there are as many.
Missing(d, bn) ==
    IF bn < NDIRECT THEN IF d.addrs[bn] = 0 THEN 1 ELSE 0
    ELSE IF d.addrs[NDIRECT] = 0 THEN 2
    ELSE IF blk[d.addrs[NDIRECT]][bn - NDIRECT] = 0 THEN 1 ELSE 0

OutOfBlocks(d, bn) == Cardinality(Blocks \ bitmap) < Missing(d, bn)

\* The blocks that itrunc() frees, in its order.
Nonzero(seq) == SelectSeq(seq, LAMBDA b : b # 0)

BlockList(d) ==
    LET ind == d.addrs[NDIRECT]
    IN  Nonzero([k \in 1..NDIRECT |-> d.addrs[k - 1]])
        \o (IF ind = 0 THEN <<>> ELSE Nonzero([k \in 1..BSIZE |-> blk[ind][k - 1]]) \o <<ind>>)

-----------------------------------------------------------------------------
(* Inodes *)

Loaded(i) == IF ip[i].valid THEN ip[i].d ELSE dino[i]      \* ilock()
iget(i) == IF ip[i].ref > 0 THEN [ip[i] EXCEPT !.ref = @ + 1] ELSE [NotCached EXCEPT !.ref = 1]
NoSlot(i) == ip[i].ref = 0 /\ Cardinality({j \in Inums : ip[j].ref > 0}) >= NINODE
PanicIf(cond) == mode' = IF cond THEN "panic" ELSE mode
Full == mode' = "full" /\ UNCHANGED <<mkVars, bitmap, dino, blk, ip, th, lost>>
Called == calls < MAXCALLS /\ calls' = calls + 1
At(p, pc) == mode = "up" /\ th[p].pc = pc
Unlocked(p) == ip[th[p].i].lock = None
DpUnlocked == ip[ROOTINO].lock = None

-----------------------------------------------------------------------------
(* The root directory *)

BlockAt(d, bn) == IF bn < NDIRECT THEN d.addrs[bn] ELSE blk[d.addrs[NDIRECT]][bn - NDIRECT]
WordAt(d, off) == blk[BlockAt(d, off \div BSIZE)][off % BSIZE]

\* The offsets of the entries of inode i, or with i = 0 of the empty ones.
Entries(i) == {off \in 0..Loaded(ROOTINO).size - 1 : WordAt(Loaded(ROOTINO), off) = i}

\* dirlink(): the offset of the first empty entry, or the end.
dirlink_off == Min(Entries(0) \union {Loaded(ROOTINO).size})

\* sys_open() with O_CREATE, up to the open file, with the directory locked: ialloc(),
\* iget(), ilock(), nlink = 1, iupdate(), and dirlink() with its writei().
create(p) ==
    LET free == {i \in Inums : dino[i].type = "none"}
        i    == Min(free)
        d    == [FreeInode EXCEPT !.type = "file", !.nlink = 1]
        dp   == Loaded(ROOTINO)
        off  == dirlink_off
        r    == bmap(Disk({INODEBLK(i)}), dp, off \div BSIZE)
        new  == [r.d EXCEPT !.size = IF off + 1 > @ THEN off + 1 ELSE @]
    IN  /\ At(p, "idle") /\ DpUnlocked /\ Called
        /\ IF free = {} \/ NoSlot(i) \/ OutOfBlocks(dp, off \div BSIZE) THEN Full
           ELSE /\ ip[i].lock = None
                /\ bitmap' = r.s.bitmap
                /\ blk' = [r.s.blk EXCEPT ![r.addr][off % BSIZE] = i]
                /\ dino' = [dino EXCEPT ![i] = d, ![ROOTINO] = IF new.size > dp.size THEN new ELSE @]
                /\ ip' = [ip EXCEPT ![i] = [iget(i) EXCEPT !.valid = TRUE, !.d = d],
                                    ![ROOTINO] = [@ EXCEPT !.valid = TRUE, !.d = new]]
                /\ th' = [th EXCEPT ![p] = [Idle EXCEPT !.pc = "open", !.i = i,
                             !.log = r.s.log \union {r.addr} \union
                                       (IF new.size > dp.size THEN {INODEBLK(ROOTINO)} ELSE {})]]
                /\ UNCHANGED <<mode, mkVars, lost>>

\* namei() finds the entry of inode i and calls iget(), for open() or unlink().  In
\* unlink() the directory stays locked.
namei(p, i, pc) ==
    /\ At(p, "idle") /\ DpUnlocked /\ Called
    /\ Entries(i) # {}
    /\ IF NoSlot(i) THEN Full
       ELSE /\ ip' = IF pc = "unlink" THEN [ip EXCEPT ![i] = iget(i), ![ROOTINO].lock = p]
                     ELSE [ip EXCEPT ![i] = iget(i)]
            /\ th' = [th EXCEPT ![p] = [Idle EXCEPT !.pc = pc, !.i = i]]
            /\ UNCHANGED <<mode, mkVars, bitmap, dino, blk, lost>>

-----------------------------------------------------------------------------
(* Files: open, unlink and close *)

\* ilock() and iunlock() of sys_open(): the inode is read from disk.
ilock(p) ==
    LET i == th[p].i
    IN  /\ At(p, "ilock") /\ Unlocked(p)
        /\ PanicIf(Loaded(i).type = "none")
        /\ ip' = [ip EXCEPT ![i].valid = TRUE, ![i].d = Loaded(i)]
        /\ th' = [th EXCEPT ![p].pc = "open"]
        /\ UNCHANGED <<mkVars, bitmap, dino, blk, calls, lost>>

\* sys_unlink() once it has the inode locked: writei() clears the entry, and the
\* directory is unlocked; nlink--, iupdate(), iunlockput().
unlink(p) ==
    LET i   == th[p].i
        d   == [Loaded(i) EXCEPT !.nlink = @ - 1]
        off == Min(Entries(i))
        b   == BlockAt(Loaded(ROOTINO), off \div BSIZE)
    IN  /\ At(p, "unlink") /\ Unlocked(p)
        /\ PanicIf(Loaded(i).type = "none" \/ Loaded(i).nlink < 1)
        /\ blk' = [blk EXCEPT ![b][off % BSIZE] = 0]
        /\ ip' = [ip EXCEPT ![i].valid = TRUE, ![i].d = d, ![ROOTINO].lock = None]
        /\ dino' = [dino EXCEPT ![i] = d]
        /\ th' = [th EXCEPT ![p].pc = "iput", ![p].log = {b, INODEBLK(i)}]
        /\ UNCHANGED <<mkVars, bitmap, calls, lost>>

\* close(): fileclose() of an inode begins a transaction and calls iput().
close(p) ==
    /\ At(p, "open")
    /\ th' = [th EXCEPT ![p].pc = "iput", ![p].log = {}]
    /\ UNCHANGED <<mode, mkVars, bitmap, dino, blk, ip, calls, lost>>

\* Processes that have tested the inode in iput() and have still to give up their
\* reference: the lock of the inode is free by then.
Dropping(i) == {q \in Procs : th[q].i = i /\ th[q].pc = "drop"}

iput_anyRef(p) ==
    LET i == th[p].i
        e == ip[i]
        unlinked == e.valid /\ e.d.nlink = 0
        last == unlinked
    IN  /\ At(p, "iput") /\ Unlocked(p)
        /\ th' = [th EXCEPT ![p].pc = IF last THEN "itrunc" ELSE "drop",
                            ![p].todo = IF last THEN BlockList(e.d) ELSE <<>>]
        /\ ip' = IF last THEN [ip EXCEPT ![i].lock = p] ELSE ip
        /\ lost' = IF unlinked /\ \E q \in Dropping(i) : q # p THEN lost \union {i} ELSE lost
        /\ UNCHANGED <<mode, mkVars, bitmap, dino, blk, calls>>

iput_refZero(p) ==
    LET i == th[p].i
        e == ip[i]
        unlinked == e.valid /\ e.d.nlink = 0
        last == unlinked /\ e.ref = 0
    IN  /\ At(p, "iput") /\ Unlocked(p)
        /\ th' = [th EXCEPT ![p].pc = IF last THEN "itrunc" ELSE "drop",
                            ![p].todo = IF last THEN BlockList(e.d) ELSE <<>>]
        /\ ip' = IF last THEN [ip EXCEPT ![i].lock = p] ELSE ip
        /\ lost' = IF unlinked /\ \E q \in Dropping(i) : q # p THEN lost \union {i} ELSE lost
        /\ UNCHANGED <<mode, mkVars, bitmap, dino, blk, calls>>

\* iput(): with the inode locked, is it the last reference to an unlinked file?  If
\* another process is between the test and the end of its iput(), its reference still
\* counts, and neither frees the inode.
iput(p) ==
    LET i == th[p].i
        e == ip[i]
        unlinked == e.valid /\ e.d.nlink = 0
        last == unlinked /\ e.ref = 1
    IN  /\ At(p, "iput") /\ Unlocked(p)
        /\ th' = [th EXCEPT ![p].pc = IF last THEN "itrunc" ELSE "drop",
                            ![p].todo = IF last THEN BlockList(e.d) ELSE <<>>]
        /\ ip' = IF last THEN [ip EXCEPT ![i].lock = p] ELSE ip
        /\ lost' = IF unlinked /\ \E q \in Dropping(i) : q # p THEN lost \union {i} ELSE lost
        /\ UNCHANGED <<mode, mkVars, bitmap, dino, blk, calls>>

\* itrunc(): one bfree().
bfree(p) ==
    LET b == Head(th[p].todo)
    IN  /\ At(p, "itrunc") /\ th[p].todo # <<>>
        /\ PanicIf(b \notin bitmap)
        /\ bitmap' = bitmap \ {b}
        /\ th' = [th EXCEPT ![p].todo = Tail(@), ![p].log = @ \union {BITMAP}]
        /\ UNCHANGED <<mkVars, dino, blk, ip, calls, lost>>

\* The end of itrunc() and of the sleep-locked part of iput().
itrunc(p) ==
    LET i == th[p].i
    IN  /\ At(p, "itrunc") /\ th[p].todo = <<>>
        /\ dino' = [dino EXCEPT ![i] = FreeInode]
        /\ ip' = [ip EXCEPT ![i] = [@ EXCEPT !.valid = FALSE, !.lock = None, !.d = FreeInode]]
        /\ th' = [th EXCEPT ![p].pc = "drop", ![p].log = @ \union {INODEBLK(i)}]
        /\ lost' = lost \ {i}
        /\ UNCHANGED <<mode, mkVars, bitmap, blk, calls>>

\* The end of iput(), under icache.lock.
iput_drop(p) ==
    /\ At(p, "drop")
    /\ ip' = [ip EXCEPT ![th[p].i].ref = @ - 1]
    /\ th' = [th EXCEPT ![p] = Idle]
    /\ UNCHANGED <<mode, mkVars, bitmap, dino, blk, calls, lost>>

-----------------------------------------------------------------------------
(* Reading and writing *)

\* read(): fileread() and readi() move the offset, to the size at most.
fileread(p, n) ==
    LET size == Loaded(th[p].i).size
    IN  /\ At(p, "open") /\ Unlocked(p)
        /\ th[p].off < size
        /\ th' = [th EXCEPT ![p].off = Min({@ + n, size})]
        /\ UNCHANGED <<mode, mkVars, bitmap, dino, blk, ip, calls, lost>>

\* write(): directories are not opened for writing.
filewrite(p, n) ==
    /\ At(p, "open") /\ th[p].i # ROOTINO /\ Called
    /\ th' = [th EXCEPT ![p].pc = "write", ![p].n = n]
    /\ UNCHANGED <<mode, mkVars, bitmap, dino, blk, ip, lost>>

ChunkOf_whole(n) == n

ChunkOf(n) == Min({n, CHUNK})

\* One round of filewrite(): begin_op(), ilock() and the checks of writei().
filewrite_begin(p) ==
    LET i  == th[p].i
        n1 == ChunkOf(th[p].n)
        d  == Loaded(i)
        ok == th[p].off <= d.size /\ th[p].off + n1 <= MAXFILE * BSIZE
    IN  /\ At(p, "write") /\ Unlocked(p)
        /\ ip' = IF ok THEN [ip EXCEPT ![i].lock = p] ELSE ip
        /\ th' = [th EXCEPT ![p] = IF ok THEN [@ EXCEPT !.pc = "writei", !.rem = n1, !.log = {}]
                                   ELSE [@ EXCEPT !.pc = "open", !.n = 0]]
        /\ UNCHANGED <<mode, mkVars, bitmap, dino, blk, calls, lost>>

writei_atStart(p) ==
    LET i   == th[p].i
        off == th[p].off
        bn  == off \div BSIZE
        m   == Min({th[p].rem, BSIZE - (off % BSIZE)})
        r   == bmap(Disk(th[p].log), ip[i].d, bn)
    IN  /\ At(p, "writei") /\ th[p].rem > 0 /\ UNCHANGED calls
        /\ IF OutOfBlocks(ip[i].d, bn) THEN Full
           ELSE /\ bitmap' = r.s.bitmap
                /\ blk' = [r.s.blk EXCEPT ![r.addr] = [w \in Words |->
                              IF w \in 0..m - 1 THEN Byte(i, off + w) ELSE @[w]]]
                /\ ip' = [ip EXCEPT ![i].d = r.d]
                /\ th' = [th EXCEPT ![p] = [@ EXCEPT !.off = @ + m, !.rem = @ - m, !.n = @ - m,
                                                     !.log = r.s.log \union {r.addr}]]
                /\ UNCHANGED <<mode, mkVars, dino, lost>>

\* The loop of writei(): the bytes of one block.
writei(p) ==
    LET i   == th[p].i
        off == th[p].off
        bn  == off \div BSIZE
        m   == Min({th[p].rem, BSIZE - (off % BSIZE)})
        r   == bmap(Disk(th[p].log), ip[i].d, bn)
    IN  /\ At(p, "writei") /\ th[p].rem > 0 /\ UNCHANGED calls
        /\ IF OutOfBlocks(ip[i].d, bn) THEN Full
           ELSE /\ bitmap' = r.s.bitmap
                /\ blk' = [r.s.blk EXCEPT ![r.addr] = [w \in Words |->
                              IF w \in (off % BSIZE)..(off % BSIZE) + m - 1
                              THEN Byte(i, bn * BSIZE + w) ELSE @[w]]]
                /\ ip' = [ip EXCEPT ![i].d = r.d]
                /\ th' = [th EXCEPT ![p] = [@ EXCEPT !.off = @ + m, !.rem = @ - m, !.n = @ - m,
                                                     !.log = r.s.log \union {r.addr}]]
                /\ UNCHANGED <<mode, mkVars, dino, lost>>

\* The end of writei(), iunlock() and end_op(): the inode is written back if
\* the file has grown.
writei_done(p) ==
    LET i == th[p].i
        grown == th[p].off > ip[i].d.size
        d == [ip[i].d EXCEPT !.size = IF grown THEN th[p].off ELSE @]
    IN  /\ At(p, "writei") /\ th[p].rem = 0
        /\ ip' = [ip EXCEPT ![i] = [@ EXCEPT !.lock = None, !.d = d]]
        /\ dino' = IF grown THEN [dino EXCEPT ![i] = d] ELSE dino
        /\ th' = [th EXCEPT ![p].pc = IF th[p].n > 0 THEN "write" ELSE "open",
                            ![p].log = @ \union (IF grown THEN {INODEBLK(i)} ELSE {})]
        /\ UNCHANGED <<mode, mkVars, bitmap, blk, calls, lost>>

\* A crash and a reboot, between transactions: only the disk is left.  Nothing looks
\* for the files that were open without a name.
reboot ==
    /\ mode = "up"
    /\ \A p \in Procs : th[p].pc \in {"idle", "open", "write"}
    /\ ip' = Booted
    /\ th' = [p \in Procs |-> Idle]
    /\ lost' = {i \in Inums : dino[i].type # "none" /\ dino[i].nlink = 0}
    /\ UNCHANGED <<mode, mkVars, bitmap, dino, blk, calls>>

\* panic() stops the machine.
Halted == mode \in {"full", "panic"} /\ UNCHANGED vars

Mkfs == mk_root \/ (\E n \in ImageSizes : mk_file(n)) \/ iappend \/ mk_balloc

Step(p) ==
    \/ create(p) \/ close(p) \/ ilock(p) \/ unlink(p)
    \/ \E i \in Inums : namei(p, i, "ilock")
    \/ \E i \in Inums \ {ROOTINO} : namei(p, i, "unlink")
    \/ iput(p) \/ bfree(p) \/ itrunc(p) \/ iput_drop(p)
    \/ \E n \in WriteSizes : fileread(p, n) \/ filewrite(p, n)
    \/ filewrite_begin(p) \/ writei(p) \/ writei_done(p)

Next == Mkfs \/ reboot \/ Halted \/ \E p \in Procs : Step(p)

Spec == Init /\ [][Next]_vars

-----------------------------------------------------------------------------
(* Properties *)

DinodeType == [type : {"none", "file"}, nlink : 0..1, size : 0..MAXFILE * BSIZE,
               addrs : [0..NDIRECT -> 0..NBLOCKS]]

\* Types; the reference counts of the inode cache do not go below zero.
TypeOK ==
    /\ mode \in {"mkfs", "up", "full", "panic"} /\ lost \subseteq Inums
    /\ bitmap \subseteq Blocks
    /\ dino \in [Inums -> DinodeType]
    /\ \A b \in Blocks : blk[b] \in [Words -> Nat]
    /\ ip \in [Inums -> [ref : Nat, valid : BOOLEAN, lock : Procs \union {None}, d : DinodeType]]
    /\ \A p \in Procs : th[p].off \in Nat /\ th[p].i \in 0..NINODES

\* The blocks of inode i: while it is truncated, those not yet freed.
Truncating(i) == {p \in Procs : th[p].i = i /\ th[p].pc = "itrunc"}
Holds(i) == IF Truncating(i) # {} THEN th[CHOOSE p \in Truncating(i) : TRUE].todo
            ELSE BlockList(Loaded(i))

\* The bitmap of mkfs, balloc() and bfree() marks exactly the blocks of the inodes that
\* have a type, linked or not, and no block is in two places: none is shared, and none
\* is freed while an inode refers to it.
BitmapMatches ==
    mode = "up" => LET all == FlattenSeq([i \in Inums |-> Holds(i)])
                   IN  ToSet(all) = bitmap /\ Len(all) = Cardinality(bitmap)

\* An inode without links that nobody refers to is free again, with its blocks, except in
\* the two cases in which the code leaks it: two iput() whose tests both ran before either
\* gave up its reference, and a crash while an unlinked file is open.
UnlinkedFreed ==
    mode = "up" => \A i \in Inums : /\ dino[i].type # "none" /\ dino[i].nlink = 0
                                    /\ ip[i].ref = 0
                                    => i \in lost

\* Blocks and inodes in use are accounted for, whatever the interleaving of writes,
\* truncations, unlinks and closes.
BitmapExact == BitmapMatches /\ UnlinkedFreed

\* The inode cache is write-through, as iupdate() says: the disk has the same
\* inode whenever a cached one is not locked.
WriteThrough ==
    \A i \in Inums : ip[i].valid /\ ip[i].lock = None => ip[i].d = dino[i]

\* Every file reads back as it was written: readi() finds at every offset below
\* the size the byte that was written there, and the directory has exactly one entry for
\* every file with a link, besides . and .., also when entries are cleared and used
\* again.  What a process has written or read stays below the size.
ContentsMatch ==
    mode = "up" => /\ \A i \in Inums \ {ROOTINO} : Truncating(i) = {} =>
                          /\ \A off \in 0..Loaded(i).size - 1 : WordAt(Loaded(i), off) = Byte(i, off)
                          /\ Cardinality(Entries(i)) = Loaded(i).nlink
                   /\ Entries(ROOTINO) = {0, 1}
                   /\ \A p \in Procs : th[p].pc = "open" => th[p].off <= Loaded(th[p].i).size

\* No transaction logs more blocks than begin_op() has reserved for it: neither a part
\* of a write that filewrite() has split, nor create() with an entry that makes the
\* directory grow, nor unlink() and close() with the iput() at their end.
TxnFits == \A p \in Procs : Cardinality(th[p].log) <= MAXOPBLOCKS

\* No panic but for want of a block, an inode or a cache entry: not "freeing free
\* block", "ilock: no type" or "unlink: nlink < 1".
NoPanic == mode # "panic"

\* An inode is freed only by the process that has the one reference to it, and
\* only without links.
FreeOnlyUnreferenced ==
    [][\A i \in Inums : dino[i].type # "none" /\ dino'[i].type = "none" =>
          /\ dino[i].nlink = 0
          /\ Cardinality({p \in Procs : th[p].i = i}) = 1]_vars

\* The inode cache and the transactions of fs.c: types, no panic while there is
\* room, cached inodes written through by iupdate(), and no call that logs more than
\* MAXOPBLOCKS.
CacheInv == TypeOK /\ NoPanic /\ WriteThrough /\ TxnFits
=============================================================================
