---------------------------------- MODULE Dir ----------------------------------
(***************************************************************************)
(* Directories, path names and the name cache: dirlookup(), dirlink() and  *)
(* namex() of fs.c, create(), open, link, unlink, mkdir, chdir and close   *)
(* of sysfile.c, and namecache.c, which answers lookups from memory.       *)
(*                                                                         *)
(* A step is what a call does while it holds a set of inode sleep-locks:   *)
(* it waits for a lock at the start of the step and gives locks up at its  *)
(* end.  iunlockput() gives the lock up and leaves the inode in put[p];    *)
(* iput() waits for the lock again and is two steps, taken before the call *)
(* goes on: the test under the lock, and ref-- after it.  References       *)
(* (ip->ref) are the places that hold an inode.  Contents and permissions  *)
(* are left out, and a transaction is not a lock: calls of one group       *)
(* interleave.                                                             *)
(***************************************************************************)
EXTENDS Integers, Sequences, FiniteSets, TLC

CONSTANTS
    Proc,            \* processes
    NINODES,         \* sb.ninodes - 1: inodes are numbered from 1
    Name,            \* file names, other than "." and ".."
    Workloads        \* what the processes do: the calls they may make, records
                     \* [op, path, new]; maxcalls bounds how many are made in
                     \* all; NAMECACHE_SIZE is that of namecache.h

ASSUME DirConstants ==
    /\ NINODES \in Nat \ {0}
    /\ \A w \in Workloads : w.NAMECACHE_SIZE \in Nat \ {0} /\ w.maxcalls \in Nat
    /\ Name \cap {".", ".."} = {} /\ 0 \notin Proc

VARIABLES
    type,       \* type[i]: "free", "dir", "file" or "dev"
    nlink,      \* nlink[i]
    ents,       \* ents[i]: the directory entries of i, in disk order
    valid,      \* inodes whose cache entry has been read from disk
    lock,       \* lock[i]: who holds the inode's sleep-lock, or None
    nc,         \* namecache.entries
    next_slot,  \* namecache.next_slot, from 1
    th,         \* th[p]: the state of process p (Thread below)
    panic,      \* the message, or "no"
    calls,      \* calls made so far
    load,       \* the workload
    misled      \* history: what has happened that the name cache is not made for

fsVars == <<type, nlink, ents, valid>>
ncVars == <<nc, next_slot, misled>>
vars == <<type, nlink, ents, valid, lock, nc, next_slot, th, panic, calls, load, misled>>

Inum == 1..NINODES
ROOTINO == 1
None == 0                         \* no inode, no process, an unused entry
Dirent(n, i) == [name |-> n, inum |-> i]
Invalid == [valid |-> FALSE]      \* an unused name cache entry
FirstOf(S) == CHOOSE k \in S : \A j \in S : k =< j

(***************************************************************************)
(* The name cache.                                                         *)
(***************************************************************************)
\* The cache entries for name n in directory d.
Cached(d, n) == {k \in DOMAIN nc : nc[k].valid /\ nc[k].parent_inum = d
                                               /\ nc[k].name = n}

\* The inode of the first of them, or None.
namecache_lookup(d, n) ==
    IF Cached(d, n) = {} THEN None
    ELSE nc[FirstOf(Cached(d, n))].inum

\* History: something is entered, in the name cache or on disk, for directory d.  It may
\* have been removed and still be somebody's directory.
Misled(d) == IF nlink[d] = 0 THEN misled \cup {"removed"} ELSE misled

\* Update the entry if there is one, else evict round-robin.
namecache_add(d, n, i) ==
    LET e == [valid |-> TRUE, parent_inum |-> d, name |-> n, inum |-> i]
    IN  /\ misled' = Misled(d)
        /\ IF Cached(d, n) # {}
           THEN /\ nc' = [nc EXCEPT ![FirstOf(Cached(d, n))] = e]
                /\ UNCHANGED next_slot
           ELSE /\ nc' = [nc EXCEPT ![next_slot] = e]
                /\ next_slot' = (next_slot % Len(nc)) + 1

\* Mutant: only the entries below the inode are dropped, not those that name it.
namecache_invalidate_below(i, d) ==
    nc' = [k \in DOMAIN nc |->
             IF nc[k].valid /\ nc[k].parent_inum = i THEN Invalid ELSE nc[k]]

\* Two calls of namecache_invalidate(): for the inode and for its directory.
namecache_invalidate(i, d) ==
    nc' = [k \in DOMAIN nc |->
             IF nc[k].valid /\ {nc[k].inum, nc[k].parent_inum} \cap {i, d} # {}
             THEN Invalid ELSE nc[k]]

(***************************************************************************)
(* Directories.                                                            *)
(***************************************************************************)
\* The offsets of directory d at which name n is found.
Offsets(d, n) == {k \in DOMAIN ents[d] : /\ ents[d][k].inum # None
                                         /\ ents[d][k].name = n}

\* Mutant: the offset does not count the unused entries that the scan skips.
dirlookup_skip(d, n) ==
    LET i == namecache_lookup(d, n) IN
    IF i # None THEN [inum |-> i, off |-> 1, hit |-> TRUE]
    ELSE IF Offsets(d, n) = {} THEN [inum |-> None, off |-> 0, hit |-> FALSE]
    ELSE LET k == FirstOf(Offsets(d, n))
         IN  [inum |-> ents[d][k].inum, hit |-> FALSE,
              off |-> Cardinality({j \in 1..k : ents[d][j].inum # None})]

\* dirlookup(): inode, offset, and whether the name cache answered.
dirlookup(d, n) ==
    LET i == namecache_lookup(d, n) IN
    IF i # None THEN [inum |-> i, off |-> 1, hit |-> TRUE]
    ELSE IF Offsets(d, n) = {} THEN [inum |-> None, off |-> 0, hit |-> FALSE]
    ELSE LET k == FirstOf(Offsets(d, n))
         IN  [inum |-> ents[d][k].inum, off |-> k, hit |-> FALSE]

\* ... and what it leaves in the name cache.
LookupCaches(d, n) ==
    LET r == dirlookup(d, n)
    IN  IF r.inum # None /\ ~r.hit THEN namecache_add(d, n, r.inum)
                                   ELSE UNCHANGED ncVars

\* dirlink()'s write: the first unused entry, or one more at the end.
WithEntry(d, n, i) ==
    LET unused == {k \in DOMAIN ents[d] : ents[d][k].inum = None}
    IN  IF unused = {} THEN Append(ents[d], Dirent(n, i))
        ELSE [ents[d] EXCEPT ![FirstOf(unused)] = Dirent(n, i)]

isdirempty(d) == \A k \in DOMAIN ents[d] : k > 2 => ents[d][k].inum = None

(***************************************************************************)
(* Processes and inodes.                                                   *)
(***************************************************************************)
\* A process outside every call.
Idle == [pc   |-> "user",
         call |-> None,     \* the call it is in
         path |-> <<>>,     \* path elements that namex() has not consumed
         dp   |-> None,     \* the directory, or the inode namex() is at
         ip   |-> None,     \* the inode the call is about
         off  |-> 0,        \* *poff of unlink's dirlookup(), from 1
         hit  |-> FALSE,    \* whether the name cache answered it
         put  |-> <<>>,     \* inodes it is about to iput(), in order
         drop |-> None]     \* the inode whose iput() has done its test

\* ip->ref: the pointers to inode i.
Refs(i) ==
    {x \in Proc \X {"cwd", "fd", "dp", "ip", "drop"} \X {0} : th[x[1]][x[2]] = i}
    \cup {x \in Proc \X {"put"} \X (1..2) : /\ x[3] \in DOMAIN th[x[1]].put
                                            /\ th[x[1]].put[x[3]] = i}

\* The inode whose lock a process has to get before it can go on.
Wants(p) ==
    CASE th[p].put # <<>> -> Head(th[p].put)
      [] th[p].put = <<>> /\ th[p].pc \in {"namei", "parent"} ->
           IF th[p].path = <<>> THEN None ELSE th[p].dp
      [] th[p].put = <<>> /\ th[p].pc \in {"create", "link_dir", "unlink"} ->
           th[p].dp
      [] th[p].put = <<>> /\ th[p].pc \in {"open", "found", "alloc", "link",
                                          "link_bad", "unlink_ip", "chdir"} ->
           th[p].ip
      [] OTHER -> None

\* An inode with no type is read by ilock().
NoType(i) == i \notin valid /\ type[i] = "free"

\* p is at l, has no iput() to do first, and gets the lock it needs.
At(p, l) ==
    /\ panic = "no" /\ th[p].pc = l /\ th[p].put = <<>> /\ th[p].drop = None
    /\ Wants(p) # None => lock[Wants(p)] = None /\ ~NoType(Wants(p))

\* p's fields become those of the record u.
Set(p, u) == th' = [th EXCEPT ![p] = u @@ th[p]]
Locks(p, S) == lock' = [i \in Inum |-> IF i \in S THEN p ELSE lock[i]]
Unlocks(S) == lock' = [i \in Inum |-> IF i \in S THEN None ELSE lock[i]]
\* ilock() of i has read the inode.
Loads(i) == valid' = valid \cup {i}

\* Back in user mode, with ps left to put.
Return(p, ps) ==
    Set(p, [Idle EXCEPT !.put = ps])

Init ==
    /\ load \in Workloads
    /\ type = [i \in Inum |-> IF i = ROOTINO THEN "dir" ELSE "free"]
    /\ nlink = [i \in Inum |-> IF i = ROOTINO THEN 1 ELSE 0]
    /\ ents = [i \in Inum |-> IF i = ROOTINO
                              THEN <<Dirent(".", ROOTINO), Dirent("..", ROOTINO)>>
                              ELSE <<>>]
    /\ valid = {} /\ lock = [i \in Inum |-> None]
    /\ nc = [k \in 1..load.NAMECACHE_SIZE |-> Invalid] /\ next_slot = 1
    /\ th = [p \in Proc |-> [cwd |-> ROOTINO, fd |-> None] @@ Idle]
    /\ panic = "no" /\ calls = 0 /\ misled = {}

\* Mutant: the reference count is not looked at.
Frees_anyRef(i) == i \in valid /\ nlink[i] = 0

\* iput() frees the inode: it has been read, has no links and one reference.
Frees(i) == i \in valid /\ nlink[i] = 0 /\ Cardinality(Refs(i)) = 1

\* iput() of the next inode in p's list, up to releasesleep().
iput(p) ==
    LET i == Head(th[p].put)
    IN  /\ panic = "no" /\ th[p].put # <<>> /\ th[p].drop = None /\ lock[i] = None
        /\ type' = [type EXCEPT ![i] = IF Frees(i) THEN "free" ELSE @]
        /\ ents' = [ents EXCEPT ![i] = IF Frees(i) THEN <<>> ELSE @]
        /\ valid' = IF Frees(i) THEN valid \ {i} ELSE valid
        /\ Set(p, [put |-> Tail(th[p].put), drop |-> i])
        /\ UNCHANGED <<nlink, lock, ncVars, panic, calls>>

\* The end of iput(): ref--.  When the last reference is gone the next iget()
\* recycles the cache entry, so valid is gone too.
iput_drop(p) ==
    LET i == th[p].drop
    IN  /\ panic = "no" /\ i # None
        /\ valid' = IF Cardinality(Refs(i)) = 1 THEN valid \ {i} ELSE valid
        /\ Set(p, [drop |-> None])
        /\ UNCHANGED <<type, nlink, ents, lock, ncVars, panic, calls>>

\* The call panics: ilock() is given a freed inode, by a stale entry, or
\* create() could not enter a name in the new directory.
Panics(p) ==
    /\ panic = "no" /\ th[p].put = <<>> /\ th[p].drop = None
    /\ IF Wants(p) = None THEN th[p].pc = "panic"
       ELSE lock[Wants(p)] = None /\ NoType(Wants(p))
    /\ panic' = IF Wants(p) = None THEN "create dots" ELSE "ilock: no type"
    /\ UNCHANGED <<fsVars, lock, ncVars, th, calls>>

(***************************************************************************)
(* namex().                                                                *)
(***************************************************************************)
Start(p, s) == IF s[1] = "/" THEN ROOTINO ELSE th[p].cwd
Elems(s) == IF s[1] = "/" THEN Tail(s) ELSE s

\* A system call starts: namei() or nameiparent() of its first path.
syscall(p, c) ==
    /\ At(p, "user") /\ calls < load.maxcalls
    /\ calls' = calls + 1
    /\ Set(p, [pc |-> IF c.op \in {"open", "link", "chdir"}
                      THEN "namei" ELSE "parent",
               call |-> c, path |-> Elems(c.path), dp |-> Start(p, c.path)])
    /\ UNCHANGED <<fsVars, lock, ncVars, panic>>

\* Where a call goes on when namex() has returned an inode ...
Found(p) == LET op == th[p].call.op
            IN  IF th[p].pc = "namei" \/ op = "unlink" THEN op
                ELSE IF op = "link" THEN "link_dir" ELSE "create"

\* ... and when it has returned 0 after iput() of ps.
NotFound(p, ps) ==
    IF th[p].pc = "parent" /\ th[p].call.op = "link"
    THEN Set(p, [pc |-> "link_bad", dp |-> None, put |-> ps])
    ELSE Return(p, ps)

\* One turn of namex()'s loop.
namex(p) ==
    LET d == th[p].dp
        n == Head(th[p].path)
        r == dirlookup(d, n)
    IN  /\ At(p, "namei") \/ At(p, "parent")
        /\ th[p].path # <<>>
        /\ Loads(d)
        /\ IF type[d] # "dir"
           THEN NotFound(p, <<d>>) /\ UNCHANGED ncVars
           ELSE IF th[p].pc = "parent" /\ Len(th[p].path) = 1
           THEN Set(p, [pc |-> Found(p)]) /\ UNCHANGED ncVars
           ELSE /\ LookupCaches(d, n)
                /\ IF r.inum = None
                   THEN NotFound(p, <<d>>)
                   ELSE Set(p, [dp |-> r.inum, path |-> Tail(th[p].path),
                                put |-> <<d>>])
        /\ UNCHANGED <<type, nlink, ents, lock, panic, calls>>

\* The path is consumed: namei() returns the inode, nameiparent() fails.
namex_end(p) ==
    /\ At(p, "namei") \/ At(p, "parent")
    /\ th[p].path = <<>>
    /\ IF th[p].pc = "namei"
       THEN Set(p, [pc |-> Found(p), ip |-> th[p].dp, dp |-> None])
       ELSE NotFound(p, <<th[p].dp>>)
    /\ UNCHANGED <<fsVars, lock, ncVars, panic, calls>>

(***************************************************************************)
(* create(), and the system calls that end with its inode.                 *)
(***************************************************************************)
Target(p) == Head(th[p].path)     \* the last path element
CreateType(op) == CASE op = "mkdir" -> "dir" [] op = "mknod" -> "dev"
                    [] OTHER -> "file"

\* ialloc() takes the first of these.
FreeInodes == {i \in Inum : type[i] = "free"}

\* create() up to ialloc(), with dp locked.
create(p) ==
    LET d == th[p].dp
        r == dirlookup(d, Target(p))
    IN  /\ At(p, "create")
        /\ Loads(d)
        /\ LookupCaches(d, Target(p))
        /\ IF r.inum # None
           THEN /\ Set(p, [pc |-> "found", ip |-> r.inum, dp |-> None,
                           put |-> <<d>>])
                /\ UNCHANGED <<type, lock, panic>>
           ELSE IF FreeInodes = {}
           THEN panic' = "ialloc: no inodes" /\ UNCHANGED <<type, lock, th>>
           ELSE LET i == FirstOf(FreeInodes)
                IN  /\ type' = [type EXCEPT ![i] = CreateType(th[p].call.op)]
                    /\ Locks(p, {d})
                    /\ Set(p, [pc |-> "alloc", ip |-> i])
                    /\ UNCHANGED panic
        /\ UNCHANGED <<nlink, ents, calls>>

\* The name exists: good enough for open(O_CREATE) of a plain file.
create_found(p) ==
    LET i == th[p].ip
    IN  /\ At(p, "found")
        /\ Loads(i)
        /\ IF th[p].call.op = "creat" /\ type[i] = "file"
           THEN Locks(p, {i}) /\ Set(p, [pc |-> "opened"])
           ELSE Return(p, <<i>>) /\ UNCHANGED lock
        /\ UNCHANGED <<type, nlink, ents, ncVars, panic, calls>>

\* The inode gets its link, and the directory one more for "..": also a directory that
\* has been removed.
create_init(p) ==
    LET isdir == type[th[p].ip] = "dir"
        counted == [nlink EXCEPT ![th[p].ip] = 1]
    IN  /\ At(p, "alloc")
        /\ Loads(th[p].ip)
        /\ nlink' = IF isdir THEN [counted EXCEPT ![th[p].dp] = @ + 1]
                    ELSE counted
        /\ Locks(p, {th[p].ip})
        /\ Set(p, [pc |-> IF isdir THEN "dot" ELSE "entry"])
        /\ misled' = IF isdir THEN Misled(th[p].dp) ELSE misled
        /\ UNCHANGED <<type, ents, nc, next_slot, panic, calls>>

\* dirlink(d, n, i), then on to ok; or, if n is there already, iput() of the
\* inode it names, with the caller's locks still held, and on to bad.
dirlink(p, d, n, i, ok, bad) ==
    LET r == dirlookup(d, n)
    IN  IF r.inum # None
        THEN /\ LookupCaches(d, n)
             /\ Set(p, [pc |-> bad, put |-> <<r.inum>>])
             /\ UNCHANGED ents
        ELSE /\ ents' = [ents EXCEPT ![d] = WithEntry(d, n, i)]
             /\ namecache_add(d, n, i)
             /\ Set(p, [pc |-> ok])

create_link(p) ==
    LET d == th[p].dp
        i == th[p].ip
    IN  /\ \/ At(p, "dot") /\ dirlink(p, i, ".", i, "dotdot", "panic")
           \/ At(p, "dotdot") /\ dirlink(p, i, "..", d, "entry", "panic")
           \/ At(p, "entry") /\ dirlink(p, d, Target(p), i, "created", "panic")
        /\ UNCHANGED <<type, nlink, valid, lock, panic, calls>>

create_end(p) ==
    /\ At(p, "created")
    /\ Unlocks({th[p].dp})
    /\ Set(p, [pc |-> "opened", dp |-> None, put |-> <<th[p].dp>>])
    /\ UNCHANGED <<fsVars, ncVars, panic, calls>>

\* The rest of open, mkdir and mknod, with ip locked.
opened(p) ==
    LET keep == th[p].call.op \in {"open", "creat"} /\ th[p].fd = None
    IN  /\ At(p, "opened")
        /\ Unlocks({th[p].ip})
        /\ IF keep THEN Set(p, [fd |-> th[p].ip] @@ Idle)
                   ELSE Return(p, <<th[p].ip>>)
        /\ UNCHANGED <<fsVars, ncVars, panic, calls>>

\* open without O_CREATE; it may be denied by the mode bits or the open mode.
open(p) ==
    LET i == th[p].ip
    IN  /\ At(p, "open")
        /\ Loads(i)
        /\ \/ Locks(p, {i}) /\ Set(p, [pc |-> "opened"])
           \/ Return(p, <<i>>) /\ UNCHANGED lock
        /\ UNCHANGED <<type, nlink, ents, ncVars, panic, calls>>

close(p) ==
    /\ At(p, "user") /\ th[p].fd # None
    /\ Set(p, [fd |-> None, put |-> <<th[p].fd>>])
    /\ UNCHANGED <<fsVars, lock, ncVars, panic, calls>>

chdir(p) ==
    LET i == th[p].ip
    IN  /\ At(p, "chdir")
        /\ Loads(i)
        /\ IF type[i] # "dir" THEN Return(p, <<i>>)
           ELSE Set(p, [cwd |-> i, put |-> <<th[p].cwd>>] @@ Idle)
        /\ UNCHANGED <<type, nlink, ents, lock, ncVars, panic, calls>>

(***************************************************************************)
(* link() and unlink().                                                    *)
(***************************************************************************)
link(p) ==
    LET i == th[p].ip
        new == th[p].call.new
    IN  /\ At(p, "link")
        /\ Loads(i)
        /\ IF type[i] = "dir"
           THEN Return(p, <<i>>) /\ UNCHANGED nlink
           ELSE /\ nlink' = [nlink EXCEPT ![i] = @ + 1]
                /\ Set(p, [pc |-> "parent", path |-> Elems(new),
                           dp |-> Start(p, new)])
        /\ UNCHANGED <<type, ents, lock, ncVars, panic, calls>>

link_dir(p) ==
    LET d == th[p].dp
    IN  /\ At(p, "link_dir")
        /\ Loads(d)
        /\ Locks(p, {d})
        /\ dirlink(p, d, Target(p), th[p].ip, "linked", "link_fail")
        /\ UNCHANGED <<type, nlink, panic, calls>>

link_end(p) ==
    LET d == th[p].dp
    IN  /\ \/ At(p, "linked") /\ Return(p, <<d, th[p].ip>>)
           \/ /\ At(p, "link_fail")
              /\ Set(p, [pc |-> "link_bad", dp |-> None, put |-> <<d>>])
        /\ Unlocks({d})
        /\ UNCHANGED <<fsVars, ncVars, panic, calls>>

\* Mutant: the link count is not taken back.
link_bad_keep(p) ==
    /\ At(p, "link_bad")
    /\ Loads(th[p].ip)
    /\ Return(p, <<th[p].ip>>)
    /\ UNCHANGED <<type, nlink, ents, lock, ncVars, panic, calls>>

link_bad(p) ==
    LET i == th[p].ip
    IN  /\ At(p, "link_bad")
        /\ Loads(i)
        /\ nlink' = [nlink EXCEPT ![i] = @ - 1]
        /\ Return(p, <<i>>)
        /\ UNCHANGED <<type, ents, lock, ncVars, panic, calls>>

\* unlink() up to its dirlookup(), which leaves dp locked if it succeeds.
unlink(p) ==
    LET d == th[p].dp
        n == Target(p)
        r == dirlookup(d, n)
    IN  /\ At(p, "unlink")
        /\ Loads(d)
        /\ IF n \in {".", ".."}
           THEN Return(p, <<d>>) /\ UNCHANGED <<lock, ncVars>>
           ELSE /\ LookupCaches(d, n)
                /\ IF r.inum = None
                   THEN Return(p, <<d>>) /\ UNCHANGED lock
                   ELSE /\ Locks(p, {d})
                        /\ Set(p, [pc |-> "unlink_ip", ip |-> r.inum,
                                   off |-> r.off, hit |-> r.hit])
        /\ UNCHANGED <<type, nlink, ents, panic, calls>>

\* dp and ip are locked: clear the entry at off, and give dp up.
unlink_ip(p) ==
    LET d == th[p].dp
        i == th[p].ip
    IN  /\ At(p, "unlink_ip")
        /\ Loads(i)
        /\ IF nlink[i] < 1
           THEN /\ panic' = "unlink: nlink < 1"
                /\ UNCHANGED <<nlink, ents, lock, ncVars, th>>
           ELSE IF type[i] = "dir" /\ ~isdirempty(i)
           THEN /\ Set(p, [pc |-> "unlink_bad", ip |-> None, put |-> <<i>>])
                /\ UNCHANGED <<nlink, ents, lock, ncVars, panic>>
           ELSE /\ namecache_invalidate(i, d)
                /\ misled' = IF th[p].hit THEN misled \cup {"hit"} ELSE misled
                /\ ents' = [ents EXCEPT ![d][th[p].off] = Dirent("", None)]
                /\ nlink' = [nlink EXCEPT ![d] =
                               IF type[i] = "dir" THEN @ - 1 ELSE @]
                /\ lock' = [lock EXCEPT ![d] = None, ![i] = p]
                /\ Set(p, [pc |-> "unlink_done", dp |-> None, put |-> <<d>>])
                /\ UNCHANGED <<next_slot, panic>>
        /\ UNCHANGED <<type, calls>>

unlink_end(p) ==
    LET d == th[p].dp
        i == th[p].ip
    IN  /\ \/ /\ At(p, "unlink_done")
              /\ nlink' = [nlink EXCEPT ![i] = @ - 1]
              /\ Unlocks({i}) /\ Return(p, <<i>>)
           \/ /\ At(p, "unlink_bad")
              /\ Unlocks({d}) /\ Return(p, <<d>>)
              /\ UNCHANGED nlink
        /\ UNCHANGED <<type, ents, valid, ncVars, panic, calls>>

Step(p) ==
    \/ iput(p) \/ iput_drop(p) \/ Panics(p) \/ namex(p) \/ namex_end(p)
    \/ create(p) \/ create_found(p) \/ create_init(p) \/ create_link(p)
    \/ create_end(p) \/ opened(p) \/ open(p) \/ close(p)
    \/ chdir(p) \/ link(p) \/ link_dir(p) \/ link_end(p) \/ link_bad(p)
    \/ unlink(p) \/ unlink_ip(p) \/ unlink_end(p)

Next == /\ \E p \in Proc : Step(p) \/ \E c \in load.calls : syscall(p, c)
        /\ UNCHANGED load

Spec == Init /\ [][Next]_vars

--------------------------------------------------------------------------------
TypeOK ==
    /\ type \in [Inum -> {"free", "dir", "file", "dev"}]
    /\ nlink \in [Inum -> Int] /\ valid \subseteq Inum
    /\ lock \in [Inum -> Proc \cup {None}]
    /\ next_slot \in DOMAIN nc /\ misled \subseteq {"hit", "removed"}
    /\ \A p \in Proc : /\ th[p].cwd \in Inum
                       /\ {th[p].fd, th[p].dp, th[p].ip} \subseteq Inum \cup {None}

\* An inode that is open or a current directory is not freed under its holder,
\* whatever has happened to the entries that named it (fs.c:357-368).
HeldAllocated ==
    panic = "no" => \A p \in Proc : /\ type[th[p].cwd] # "free"
                                    /\ th[p].fd # None => type[th[p].fd] # "free"

\* Between namex()'s check that it is at a directory and the call's ilock() of it,
\* the directory is unlocked: nobody frees or reuses the inode meanwhile, and
\* dirlookup() does not panic with "dirlookup not DIR" (fs.c:557, 674-681).
StillDir ==
    \A p \in Proc : th[p].pc \in {"create", "link_dir", "unlink"} =>
                      type[th[p].dp] = "dir"

\* The offset that unlink got by reading the directory still is the entry of
\* the name when the entry is cleared (sysfile.c:209, 224).
ScanOffset ==
    \A p \in Proc : th[p].pc = "unlink_ip" /\ ~th[p].hit =>
        ents[th[p].dp][th[p].off] = Dirent(Target(p), th[p].ip)

\* fs.c:550, "If found, set *poff to byte offset of entry": the entry that
\* unlink is about to clear is the entry of the name it was given.
FoundOffset ==
    \A p \in Proc : th[p].pc = "unlink_ip" =>
        ents[th[p].dp][th[p].off] = Dirent(Target(p), th[p].ip)

\* The name cache says what the directories say: a valid entry names an inode that its
\* directory holds under that name, through evictions, unlinks, and directories that are
\* removed and whose inodes are used again.  Only an entry that was added for a directory
\* already removed makes it wrong (namecache.c:52-75, 124-145).
NcAgrees ==
    "removed" \notin misled => \A k \in DOMAIN nc : nc[k].valid =>
        LET d == ents[nc[k].parent_inum]
        IN  \E j \in DOMAIN d : d[j] = Dirent(nc[k].name, nc[k].inum)

\* Directories that have been removed, and files whose entry has been cleared by an
\* unlink() that has still to count it.
Clearing(i) == {p \in Proc : th[p].ip = i /\ th[p].pc = "unlink_done"}
Removed(i) == nlink[i] = 0 \/ Clearing(i) # {}

\* The entries that name i, other than its own "." and those of removed directories.
Links(i) == {x \in UNION {{d} \X DOMAIN ents[d] : d \in {j \in Inum : ~Removed(j)}} :
               LET e == ents[x[1]][x[2]] IN e.inum = i /\ e.name # "."}

\* The calls that have counted a link to i and not entered it yet.
Unentered(i) ==
    {p \in Proc : /\ th[p].ip = i
                  /\ \/ th[p].pc \in {"dot", "dotdot", "entry"}
                     \/ /\ th[p].pc \in {"parent", "link_dir", "link_fail",
                                          "link_bad"}
                        /\ th[p].call.op = "link"}
UnenteredDotdot(i) == {p \in Proc : th[p].dp = i /\ th[p].pc \in {"dot", "dotdot"}}

\* Link counts are right at every moment, in the middle of calls too: an inode's
\* count is the number of its entries, of the entries under way and of those just
\* cleared, and no entry names a free inode; until the name cache has misled a call
\* (sysfile.c:142, 161-164, 224-236, 271-282).
LinkCounts ==
    misled = {} => \A i \in Inum :
        IF type[i] = "free" THEN Links(i) = {}
        ELSE nlink[i] = Cardinality(Links(i)) + Cardinality(Unentered(i))
                          + Cardinality(UnenteredDotdot(i)) + Cardinality(Clearing(i))

\* No call panics, except when the inodes run out or the name cache has misled a call:
\* nobody locks an inode that has been freed, no file is unlinked once too often, and a
\* new directory is empty (fs.c:332-333, sysfile.c:213, 279).
NoPanic == misled = {} => panic \in {"no", "ialloc: no inodes"}

\* Types; no panic of fs.c or sysfile.c; and no inode is freed by iput() under
\* somebody: what is open or current stays allocated, and a directory that
\* namex() has returned unlocked is still one when the call locks it.
InodesInv == TypeOK /\ NoPanic /\ HeldAllocated /\ StillDir
================================================================================
