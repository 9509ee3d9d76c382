------------------------------- MODULE Users --------------------------------
(***************************************************************************)
(* Users and permissions: the user table and the sudoers (users.c), the    *)
(* system calls on user ids (sysproc.c), the programs su, sudo and visudo, *)
(* and the owner and the mode of files (sys_open(), sys_chmod() and        *)
(* sys_chown() of sysfile.c, ialloc() and iupdate() of fs.c).              *)
(*                                                                         *)
(* A system call is one step: usertable.lock or the lock of the inode is   *)
(* held throughout.  A program makes several calls, and other processes    *)
(* run between them.  Mode bits are a set, a password is right or wrong.   *)
(* An inode is in memory exactly while it is referenced: iget() clears     *)
(* ip->valid when it fills an entry.                                       *)
(***************************************************************************)
EXTENDS Naturals, FiniteSets, FiniteSetsExt

CONSTANTS
    NPROC, NINODES, \* processes, inodes
    UserUid,        \* the uid of "user" (1000)
    USHORT,         \* a uid in an inode is kept modulo USHORT
    Uids,           \* arguments of setuid(), chown() and visudo
    Modes           \* arguments of chmod()

Procs  == 1..NPROC
Inodes == 1..NINODES

\* users_init(): slot 0 is root, slot 1 is user.  The other slots stay empty, no
\* call fills them.
Slots == {0, 1}
usertable == [i \in Slots |-> IF i = 0 THEN [uid |-> 0, username |-> "root"]
                                       ELSE [uid |-> UserUid, username |-> "user"]]

ASSUME UsersAssumption ==
    /\ {NPROC, NINODES, USHORT} \subseteq Nat \ {0}
    /\ UserUid \in 1..USHORT - 1
    /\ Uids \subseteq Nat
    /\ Modes \subseteq SUBSET {"RU", "WU", "RG", "WG", "RO", "WO"}

VARIABLES
    proc,     \* uid and gid of every process; pc: "free", "run" (any program)
              \* or a place in sudo; name, orig: sudo's variables
    sudoers,  \* the slots of users that may use sudo
    dinode,   \* the inodes on disk
    icache,   \* the inodes in memory
    open,     \* for every process and inode, what its descriptor may do; {}: not open
    earned,   \* history: processes that hold root rightfully
    set       \* history: the owner and the mode that were last given to a file

vars == <<proc, sudoers, dinode, icache, open, earned, set>>
fileVars == <<dinode, icache, open, set>>

Default == {"RU", "WU", "RG", "RO"}     \* 0644
FreeInode == [alloc |-> FALSE, linked |-> FALSE, uid |-> 0, gid |-> 0, mode |-> {}]
NotCached == FreeInode
NoProc == [pc |-> "free", uid |-> 0, gid |-> 0, name |-> "unknown", orig |-> 0]

\* The first process is root.
Init ==
    /\ proc = [p \in Procs |-> IF p = 1 THEN [NoProc EXCEPT !.pc = "run"] ELSE NoProc]
    /\ sudoers = Slots
    /\ dinode = [i \in Inodes |-> FreeInode] /\ icache = [i \in Inodes |-> NotCached]
    /\ open = [p \in Procs |-> [i \in Inodes |-> {}]]
    /\ earned = {1}
    /\ set = [i \in Inodes |-> [uid |-> 0, mode |-> {}]]

-----------------------------------------------------------------------------
(* users.c *)

SlotsOf(uid) == {i \in Slots : usertable[i].uid = uid}

users_getname(uid) == IF SlotsOf(uid) = {} THEN "unknown"
                      ELSE usertable[Min(SlotsOf(uid))].username

\* The users that a name and a password let in.
users_checkpassword(name, right) == {i \in Slots : right /\ usertable[i].username = name}

users_can_sudo(uid) == SlotsOf(uid) # {} /\ Min(SlotsOf(uid)) \in sudoers

users_add_sudoer(uid) == sudoers' = sudoers \union SlotsOf(uid)

users_remove_sudoer(uid) == sudoers' = IF uid = 0 THEN sudoers ELSE sudoers \ SlotsOf(uid)

-----------------------------------------------------------------------------
(* System calls on user ids *)

\* A process that gives root up, or gets it, changes the history with it.
SetUid(p, uid, gid, pc, right) ==
    /\ proc' = [proc EXCEPT ![p] = [@ EXCEPT !.uid = uid, !.gid = gid, !.pc = pc]]
    /\ earned' = IF uid = 0 /\ right THEN earned \union {p} ELSE earned \ {p}

setuid(p, uid) ==
    /\ proc[p].pc = "run" /\ proc[p].uid = 0
    /\ SetUid(p, uid, proc[p].gid, "run", p \in earned)
    /\ UNCHANGED <<sudoers, fileVars>>

sys_addsudoer(p, uid) ==
    /\ proc[p].pc = "run" /\ proc[p].uid = 0
    /\ users_add_sudoer(uid)
    /\ UNCHANGED <<proc, earned, fileVars>>

sys_removesudoer(p, uid) ==
    /\ proc[p].pc = "run" /\ proc[p].uid = 0
    /\ users_remove_sudoer(uid)
    /\ UNCHANGED <<proc, earned, fileVars>>

\* visudo add and visudo remove.
visudo(p, uid) == sys_addsudoer(p, uid) \/ sys_removesudoer(p, uid)

sys_setsuid_noCheck(p, uid, pc, fail) ==
    LET right == p \in earned \/ \E i \in sudoers : usertable[i].uid = proc[p].uid
    IN  IF uid \in {0, proc[p].uid}
        THEN SetUid(p, uid, proc[p].gid, pc, right)
        ELSE proc' = [proc EXCEPT ![p].pc = fail] /\ UNCHANGED earned

\* setsuid() checks the sudoers, and not a password.  uid is 0 or the caller's own.
\* The history asks the table itself whether the caller is a sudoer now.
sys_setsuid(p, uid, pc, fail) ==
    LET right == p \in earned \/ \E i \in sudoers : usertable[i].uid = proc[p].uid
    IN  IF users_can_sudo(proc[p].uid) /\ uid \in {0, proc[p].uid}
        THEN SetUid(p, uid, proc[p].gid, pc, right)
        ELSE proc' = [proc EXCEPT ![p].pc = fail] /\ UNCHANGED earned

\* Any program may call setsuid(); it goes on if the call fails.
setsuid(p, uid) ==
    /\ proc[p].pc = "run"
    /\ sys_setsuid(p, uid, "run", "run")
    /\ UNCHANGED <<sudoers, fileVars>>

\* What login() does: uid and gid become the uid of the user.  Otherwise the
\* program ends.
sys_login(p, name, right, pc) ==
    LET found == users_checkpassword(name, right)
        uid   == usertable[Min(found)].uid
    IN  IF found # {} THEN SetUid(p, uid, uid, pc, right /\ name = "root")
        ELSE /\ proc' = [proc EXCEPT ![p].pc = "failed"]
             /\ UNCHANGED earned

\* su: log in, then a shell.
su(p, name, right) ==
    /\ proc[p].pc = "run"
    /\ sys_login(p, name, right, "run")
    /\ UNCHANGED <<sudoers, fileVars>>

-----------------------------------------------------------------------------
(* sudo *)

\* cansudo(), whoami() and getuid().
sudo(p) ==
    LET uid == proc[p].uid
        ok  == users_can_sudo(uid)
    IN  /\ proc[p].pc = "run"
        /\ proc' = [proc EXCEPT ![p].pc = IF ok THEN "password" ELSE "failed",
                                ![p].name = IF ok THEN users_getname(uid) ELSE @,
                                ![p].orig = IF ok THEN uid ELSE @]
        /\ UNCHANGED <<sudoers, earned, fileVars>>

sudo_login(p, right) ==
    /\ proc[p].pc = "password"
    /\ sys_login(p, proc[p].name, right, "setsuid")
    /\ UNCHANGED <<sudoers, fileVars>>

\* setsuid(0) checks the sudoers again.
sudo_setsuid(p) ==
    /\ proc[p].pc = "setsuid"
    /\ sys_setsuid(p, 0, "exec", "failed")
    /\ UNCHANGED <<sudoers, fileVars>>

\* exec() of the command.  If it fails, setsuid(original_uid) is refused, unless
\* that is 0, and sudo exits.
sudo_exec(p, ok) ==
    /\ proc[p].pc = "exec"
    /\ proc' = [proc EXCEPT ![p] = [@ EXCEPT !.pc = IF ok THEN "run" ELSE "failed",
                                             !.name = "unknown", !.orig = 0]]
    /\ UNCHANGED <<sudoers, earned, fileVars>>

-----------------------------------------------------------------------------
(* Files *)

Refs(i) == Cardinality({p \in Procs : open[p][i] # {}})

\* iget() and ilock(): the inode in memory, read from the disk if it was not there.
ilock(i) == IF Refs(i) > 0 THEN icache[i] ELSE dinode[i]

\* omode without O_CREATE, which is an argument of its own.  The bit 4 stands for all
\* the other bits, which have no meaning.
OModes   == 0..7
O_RDONLY == 0
O_WRONLY == 1
O_RDWR   == 2

\* f->readable and f->writable, from the bits of omode.
Rights(omode) ==
    (IF omode % 2 = 0 THEN {"read"} ELSE {}) \union (IF omode % 4 > 0 THEN {"write"} ELSE {})

Permits_rdwr(uid, ip, omode) ==
    /\ omode \in {O_RDONLY, O_RDWR} /\ uid # 0 /\ uid # ip.uid => "RO" \in ip.mode
    /\ omode = O_WRONLY /\ uid # 0 /\ uid # ip.uid => "WO" \in ip.mode

\* The two tests in sys_open().  They compare omode with ==: a value other than the
\* three passes both.
Permits(uid, ip, omode) ==
    /\ omode \in {O_RDONLY, O_RDWR} /\ uid # 0 /\ uid # ip.uid => "RO" \in ip.mode
    /\ omode \in {O_WRONLY, O_RDWR} /\ uid # 0 /\ uid # ip.uid => "WO" \in ip.mode

\* open() of a file that exists.  With O_CREATE, create() finds the file and returns
\* it: there are no tests.
sys_open(p, i, omode, o_create) ==
    /\ proc[p].pc = "run" /\ dinode[i].linked /\ open[p][i] = {}
    /\ o_create \/ Permits(proc[p].uid, ilock(i), omode)
    /\ icache' = [icache EXCEPT ![i] = ilock(i)]
    /\ open' = [open EXCEPT ![p] = [@ EXCEPT ![i] = Rights(omode)]]
    /\ UNCHANGED <<proc, sudoers, dinode, earned, set>>

\* open() with O_CREATE of a new file: ialloc() takes the first free inode.  (Without
\* a free inode it panics: module Inode.)
create(p, omode) ==
    LET free == {i \in Inodes : ~dinode[i].alloc}
        i    == Min(free)
        new  == [alloc |-> TRUE, linked |-> TRUE, uid |-> proc[p].uid % USHORT,
                 gid |-> proc[p].gid % USHORT, mode |-> Default]
    IN  /\ proc[p].pc = "run" /\ free # {}
        /\ dinode' = [dinode EXCEPT ![i] = new]
        /\ icache' = [icache EXCEPT ![i] = new]
        /\ open' = [open EXCEPT ![p] = [@ EXCEPT ![i] = Rights(omode)]]
        /\ set' = [set EXCEPT ![i] = [uid |-> proc[p].uid, mode |-> Default]]
        /\ UNCHANGED <<proc, sudoers, earned>>

\* iupdate(): memory and disk get the inode.  If nobody has the file open,
\* iunlockput() drops it from memory.
iupdate(i, ip) ==
    /\ dinode' = [dinode EXCEPT ![i] = ip]
    /\ icache' = [icache EXCEPT ![i] = IF Refs(i) > 0 THEN ip ELSE NotCached]

sys_chmod(p, i, mode) ==
    LET ip == ilock(i)
    IN  /\ proc[p].pc = "run" /\ dinode[i].linked
        /\ proc[p].uid = 0 \/ proc[p].uid = ip.uid
        /\ iupdate(i, [ip EXCEPT !.mode = mode])
        /\ set' = [set EXCEPT ![i].mode = mode]
        /\ UNCHANGED <<proc, sudoers, earned, open>>

sys_chown_noUpdate(p, i, uid) ==
    LET ip == ilock(i)
    IN  /\ proc[p].pc = "run" /\ dinode[i].linked
        /\ proc[p].uid = 0
        /\ icache' = [icache EXCEPT ![i] = IF Refs(i) > 0 THEN [ip EXCEPT !.uid = uid % USHORT] ELSE NotCached]
        /\ set' = [set EXCEPT ![i].uid = uid]
        /\ UNCHANGED <<proc, sudoers, earned, open, dinode>>

sys_chown(p, i, uid) ==
    LET ip == ilock(i)
    IN  /\ proc[p].pc = "run" /\ dinode[i].linked
        /\ proc[p].uid = 0
        /\ iupdate(i, [ip EXCEPT !.uid = uid % USHORT])
        /\ set' = [set EXCEPT ![i].uid = uid]
        /\ UNCHANGED <<proc, sudoers, earned, open>>

\* The last link goes; iput() frees the inode if it is not open.
sys_unlink(p, i) ==
    /\ proc[p].pc = "run" /\ dinode[i].linked
    /\ iupdate(i, IF Refs(i) > 0 THEN [ilock(i) EXCEPT !.linked = FALSE] ELSE FreeInode)
    /\ UNCHANGED <<proc, sudoers, earned, open, set>>

\* The inodes in gone lose a reference: iput() frees an inode that is unlinked
\* and drops an inode that is not referenced any more.
iput(p, gone) ==
    LET last == {i \in gone : Refs(i) = 1}
    IN  /\ open' = [open EXCEPT ![p] = [i \in Inodes |-> IF i \in gone THEN {} ELSE @[i]]]
        /\ dinode' = [i \in Inodes |-> IF i \in last /\ ~icache[i].linked THEN FreeInode ELSE dinode[i]]
        /\ icache' = [i \in Inodes |-> IF i \in last THEN NotCached ELSE icache[i]]
        /\ UNCHANGED set

close(p, i) ==
    /\ proc[p].pc = "run" /\ open[p][i] # {}
    /\ iput(p, {i})
    /\ UNCHANGED <<proc, sudoers, earned>>

-----------------------------------------------------------------------------
(* Processes *)

\* The child has the ids and the open files of its parent.
fork(p, q) ==
    /\ proc[p].pc = "run" /\ proc[q].pc = "free"
    /\ proc' = [proc EXCEPT ![q] = proc[p]]
    /\ open' = [open EXCEPT ![q] = open[p]]
    /\ earned' = IF p \in earned THEN earned \union {q} ELSE earned
    /\ UNCHANGED <<sudoers, dinode, icache, set>>

\* exit(), of any program or of one that has failed.  The slot keeps uid and gid.
exit(p) ==
    /\ proc[p].pc \in {"run", "failed"}
    /\ proc' = [proc EXCEPT ![p] = [@ EXCEPT !.pc = "free", !.name = "unknown", !.orig = 0]]
    /\ earned' = earned \ {p}
    /\ iput(p, {i \in Inodes : open[p][i] # {}})
    /\ UNCHANGED sudoers

UserCall(p) ==
    \/ exit(p)
    \/ \E uid \in Uids : setuid(p, uid) \/ setsuid(p, uid) \/ visudo(p, uid)
    \/ \E name \in {"root", "user", "unknown"}, right \in BOOLEAN : su(p, name, right)
    \/ sudo(p) \/ sudo_setsuid(p)
    \/ \E ok \in BOOLEAN : sudo_login(p, ok) \/ sudo_exec(p, ok)

FileCall(p) ==
    \/ \E omode \in OModes : create(p, omode)
    \/ \E i \in Inodes : \/ close(p, i) \/ sys_unlink(p, i)
                         \/ \E omode \in OModes, o_create \in BOOLEAN : sys_open(p, i, omode, o_create)
                         \/ \E mode \in Modes : sys_chmod(p, i, mode)
                         \/ \E uid \in Uids : sys_chown(p, i, uid)

\* Process 1, init, does nothing but fork shells.
Next == \/ \E p, q \in Procs : fork(p, q)
        \/ \E p \in Procs \ {1} : UserCall(p) \/ FileCall(p)

Spec == Init /\ [][Next]_vars

-----------------------------------------------------------------------------
(* Properties *)

UidSet    == Uids \union {0, UserUid}
ModeBits  == {"RU", "WU", "RG", "WG", "RO", "WO"}
ProcType  == [pc : {"free", "run", "failed", "password", "setsuid", "exec"}, uid : UidSet,
              gid : UidSet, name : {"root", "user", "unknown"}, orig : UidSet]
InodeType == [alloc : BOOLEAN, linked : BOOLEAN, uid : 0..USHORT - 1, gid : 0..USHORT - 1,
              mode : SUBSET ModeBits]

\* Types.
TypeOK ==
    /\ proc \in [Procs -> ProcType]
    /\ sudoers \subseteq Slots /\ earned \subseteq Procs
    /\ dinode \in [Inodes -> InodeType] /\ icache \in [Inodes -> InodeType]
    /\ open \in [Procs -> [Inodes -> SUBSET {"read", "write"}]]
    /\ set \in [Inodes -> [uid : UidSet, mode : SUBSET ModeBits]]

\* A process is root only if it was forked by a root process, has given root's
\* password, or was among the sudoers at the moment of its setsuid(0): not because of
\* the process that had the slot before, not after it has given root up, and not
\* because it was a sudoer when sudo asked for the password.  A sudoer's program that
\* calls setsuid(0) itself is root without any password: the kernel does not ask.
RootEarned == \A p \in Procs : proc[p].pc # "free" /\ proc[p].uid = 0 => p \in earned

\* Before and after its login(), up to setsuid(), sudo is still the user who called
\* it, whose name it has got from the table, and the command runs as root.
SudoIdentity ==
    \A p \in Procs : /\ proc[p].pc = "password" =>
                            /\ proc[p].uid = proc[p].orig /\ SlotsOf(proc[p].uid) # {}
                            /\ proc[p].name = users_getname(proc[p].uid)
                     /\ proc[p].pc = "setsuid" => proc[p].uid = proc[p].orig
                     /\ proc[p].pc = "exec" => proc[p].uid = 0

\* An inode in memory is the one on disk, whoever has changed it; a file that is
\* open or has a name is allocated; and the disk has what was last set, the uid
\* as far as it fits.
InodesCoherent ==
    \A i \in Inodes :
        /\ Refs(i) > 0 => icache[i] = dinode[i] /\ dinode[i].alloc
        /\ dinode[i].linked => dinode[i].alloc
        /\ dinode[i].alloc => /\ dinode[i].mode = set[i].mode
                              /\ dinode[i].uid = set[i].uid % USHORT

\* The owner and the mode of a file are those that its creation, chown() and
\* chmod() last gave it, also after the inode has left memory and after it was
\* freed and allocated again; for user ids that fit in an inode.
AttrsAsSet ==
    /\ InodesCoherent
    /\ \A i \in Inodes : dinode[i].alloc =>
          /\ ilock(i).mode = set[i].mode
          /\ set[i].uid < USHORT => ilock(i).uid = set[i].uid

\* What the owner and the mode that were last set allow a user to do with a file.
AllowedBySet(uid, i, right) ==
    uid = 0 \/ uid = set[i].uid \/ (IF right = "read" THEN "RO" ELSE "WO") \in set[i].mode

\* A descriptor that open() gives without O_CREATE, for one of the three documented
\* modes, can read and write only what the owner and the mode last set allow its
\* caller, whichever process set them and wherever the inode was since; for an owner
\* that fits in an inode.  O_CREATE on an existing file and other values of omode are
\* not tested by the code, and are outside this property.
OpenAsSet ==
    [][\A p \in Procs, i \in Inodes, omode \in {O_RDONLY, O_WRONLY, O_RDWR} :
          sys_open(p, i, omode, FALSE) /\ set[i].uid < USHORT =>
              \A right \in open'[p][i] : AllowedBySet(proc[p].uid, i, right)]_vars

\* Who a process is: types, nobody is root who has not earned it in one of these ways,
\* and sudo acts for the user who called it.
IdentityInv == TypeOK /\ RootEarned /\ SudoIdentity
=============================================================================
