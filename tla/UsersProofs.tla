------------------------------ MODULE UsersProofs ------------------------------
(***************************************************************************)
(* Proofs about Users, for every number of processes and inodes, every uid *)
(* of "user", and every width of the uid in an inode.                      *)
(***************************************************************************)
EXTENDS Users, FiniteSetTheorems, TLAPS

(* The user table. *)

\* The two users are told apart by uid and by name.
LEMMA TableFacts ==
  /\ usertable[0].uid = 0 /\ usertable[0].username = "root"
  /\ usertable[1].uid = UserUid /\ usertable[1].username = "user"
  /\ UserUid # 0 /\ UserUid \in Nat
  BY UsersAssumption DEF usertable, Slots

\* The least slot of the table in a set.
LEMMA MinSlot ==
  ASSUME NEW S, S \subseteq Slots, S # {}
  PROVE  Min(S) \in S
<1>1. \E x \in S : \A y \in S : x <= y
  <2>1. CASE 0 \in S
    <3>1. \A y \in S : 0 <= y
      BY DEF Slots
    <3> QED
      BY <2>1, <3>1
  <2>2. CASE 0 \notin S
    <3>1. \A y \in S : y = 1
      BY <2>2 DEF Slots
    <3>2. 1 \in S
      BY <3>1
    <3>3. \A y \in S : 1 <= y
      BY <3>1
    <3> QED
      BY <3>2, <3>3
  <2> QED
    BY <2>1, <2>2
<1> QED
  BY <1>1 DEF Min

\* The search of the table by uid finds the one slot of the uid.
LEMMA SlotsOfUid ==
  ASSUME NEW uid
  PROVE  SlotsOf(uid) = IF uid = 0 THEN {0} ELSE IF uid = UserUid THEN {1} ELSE {}
  BY TableFacts DEF SlotsOf, Slots

\* whoami() of a user in the table.
LEMMA NameOfUid ==
  ASSUME NEW uid, SlotsOf(uid) # {}
  PROVE  \/ uid = 0 /\ users_getname(uid) = "root"
         \/ uid = UserUid /\ users_getname(uid) = "user"
<1>1. Min(SlotsOf(uid)) \in SlotsOf(uid)
  BY MinSlot DEF SlotsOf
<1> QED
  BY <1>1, SlotsOfUid, TableFacts DEF users_getname

\* login() with a name of the table and its password becomes that user.
LEMMA LoginAs ==
  ASSUME NEW name, NEW right \in BOOLEAN, users_checkpassword(name, right) # {}
  PROVE  \/ name = "root" /\ usertable[Min(users_checkpassword(name, right))].uid = 0
         \/ name = "user" /\ usertable[Min(users_checkpassword(name, right))].uid = UserUid
<1> DEFINE found == users_checkpassword(name, right)
<1>1. found \subseteq Slots /\ \A i \in found : usertable[i].username = name
  BY DEF users_checkpassword
<1>2. Min(found) \in found
  BY <1>1, MinSlot
<1>3. Min(found) \in {0, 1}
  BY <1>1, <1>2 DEF Slots
<1> QED
  BY <1>1, <1>2, <1>3, TableFacts


(* References to inodes. *)

\* What the processes may have open.
Descriptors == [Procs -> [Inodes -> SUBSET {"read", "write"}]]

LEMMA ProcsFinite == IsFiniteSet(Procs)
  BY UsersAssumption, FS_Interval DEF Procs

\* An inode is referenced exactly while a process has it open.
LEMMA RefsPositive ==
  ASSUME NEW i
  PROVE  Refs(i) > 0 <=> \E p \in Procs : open[p][i] # {}
<1> DEFINE S == {p \in Procs : open[p][i] # {}}
<1>1. IsFiniteSet(S) /\ Cardinality(S) \in Nat
  BY ProcsFinite, FS_Subset, FS_CardinalityType
<1>2. Cardinality(S) = 0 <=> S = {}
  BY <1>1, FS_EmptySet
<1> QED
  BY <1>1, <1>2 DEF Refs

\* The last reference is that of the only process that has the inode open.
LEMMA RefsLast ==
  ASSUME NEW i, NEW p \in Procs, open[p][i] # {}, Refs(i) = 1
  PROVE  \A q \in Procs : open[q][i] # {} => q = p
<1> DEFINE S == {q \in Procs : open[q][i] # {}}
<1>1. IsFiniteSet(S) /\ Cardinality(S) = 1
  BY ProcsFinite, FS_Subset DEF Refs
<1>2. PICK x : S = {x}
  BY <1>1, FS_Singleton
<1> QED
  BY <1>2

\* The first free inode of ialloc().
LEMMA MinInode ==
  ASSUME NEW S, S \subseteq Inodes, S # {}
  PROVE  Min(S) \in S
<1> DEFINE R == OpToRel(<, Nat)
<1>1. R = {ss \in Nat \X Nat : ss[1] < ss[2]}
  BY DEF OpToRel
<1>2. IsWellFoundedOn(R, Nat)
  BY Zenon, NatLessThanWellFounded DEF R
<1> HIDE DEF R
<1>3. S \subseteq Nat
  BY UsersAssumption DEF Inodes
<1>4. PICK m \in S : \A q \in S : ~(<<q, m>> \in R)
  BY <1>2, <1>3, WFMin
<1>5. ASSUME NEW q \in S, q < m PROVE FALSE
  <2>1. <<q, m>> \in {ss \in Nat \X Nat : ss[1] < ss[2]}
    BY <1>3, <1>5
  <2> QED
    BY <2>1, <1>1, <1>4
<1>6. \A q \in S : m <= q
  BY <1>3, <1>5
<1> QED
  BY <1>6 DEF Min

\* What ilock() finds is the inode on disk, whether it was in memory or not.
LEMMA IlockIsDisk ==
  ASSUME InodesCoherent, NEW i \in Inodes
  PROVE  ilock(i) = dinode[i]
  BY DEF InodesCoherent, ilock

--------------------------------------------------------------------------------
(* The steps of processes. *)

PcType == {"free", "run", "failed", "password", "setsuid", "exec"}
Names  == {"root", "user", "unknown"}

\* What a step of one process does to the table of processes.
ProcStep(p, pc, uid, gid, name, orig) ==
    /\ proc' \in [Procs -> ProcType]
    /\ proc'[p].pc = pc /\ proc'[p].uid = uid /\ proc'[p].gid = gid
    /\ proc'[p].name = name /\ proc'[p].orig = orig
    /\ \A q \in Procs \ {p} : proc'[q] = proc[q]

\* SetUid() changes the ids and the place of its process only.
LEMMA SetUidEffect ==
  ASSUME TypeOK, NEW p \in Procs, NEW uid \in UidSet, NEW gid \in UidSet, NEW pc \in PcType,
         NEW right, SetUid(p, uid, gid, pc, right)
  PROVE  ProcStep(p, pc, uid, gid, proc[p].name, proc[p].orig)
  BY DEF TypeOK, SetUid, ProcStep, ProcType, PcType

\* A step that leaves the ids of its process alone.
LEMMA PcEffect ==
  ASSUME TypeOK, NEW p \in Procs, NEW pc \in PcType, NEW name \in Names, NEW orig \in UidSet,
         proc' = [proc EXCEPT ![p] = [@ EXCEPT !.pc = pc, !.name = name, !.orig = orig]]
  PROVE  ProcStep(p, pc, proc[p].uid, proc[p].gid, name, orig)
  BY DEF TypeOK, ProcStep, ProcType, PcType, Names


\* A step of one process that leaves the files alone, and is right about root and
\* sudo for that process.
LEMMA IdentityKept ==
  ASSUME IdentityInv, NEW p \in Procs, NEW pc, NEW uid, NEW gid, NEW name, NEW orig,
         ProcStep(p, pc, uid, gid, name, orig),
         sudoers' \subseteq Slots, earned' \subseteq Procs, earned \ {p} \subseteq earned',
         UNCHANGED fileVars,
         pc # "free" /\ uid = 0 => p \in earned',
         pc = "password" => uid = orig /\ SlotsOf(uid) # {} /\ name = users_getname(uid),
         pc = "setsuid" => uid = orig,
         pc = "exec" => uid = 0
  PROVE  IdentityInv'
<1>1. TypeOK'
  BY DEF IdentityInv, TypeOK, ProcStep, fileVars
<1>2. RootEarned'
  BY DEF IdentityInv, RootEarned, ProcStep
<1>3. SudoIdentity'
  <2> SUFFICES ASSUME NEW q \in Procs
               PROVE  /\ proc'[q].pc = "password" =>
                            /\ proc'[q].uid = proc'[q].orig /\ SlotsOf(proc'[q].uid) # {}
                            /\ proc'[q].name = users_getname(proc'[q].uid)
                      /\ proc'[q].pc = "setsuid" => proc'[q].uid = proc'[q].orig
                      /\ proc'[q].pc = "exec" => proc'[q].uid = 0
    BY DEF SudoIdentity, SlotsOf, users_getname, usertable
  <2>1. CASE q = p
    BY <2>1 DEF ProcStep
  <2>2. CASE q # p
    BY <2>2 DEF IdentityInv, SudoIdentity, ProcStep
  <2> QED
    BY <2>1, <2>2
<1> QED
  BY <1>1, <1>2, <1>3 DEF IdentityInv

\* setuid() is for root, who may become anybody.
LEMMA SetuidStep ==
  ASSUME IdentityInv, NEW p \in Procs, NEW uid \in Uids, setuid(p, uid)
  PROVE  IdentityInv' /\ UNCHANGED fileVars
<1>1. /\ TypeOK /\ proc[p].pc = "run" /\ proc[p].uid = 0 /\ uid \in UidSet
      /\ proc[p].gid \in UidSet
  BY DEF setuid, IdentityInv, TypeOK, ProcType, UidSet
<1>2. ProcStep(p, "run", uid, proc[p].gid, proc[p].name, proc[p].orig)
  BY <1>1, SetUidEffect DEF setuid, PcType
<1>3. /\ earned' \subseteq Procs /\ earned \ {p} \subseteq earned'
      /\ uid = 0 => p \in earned'
      /\ UNCHANGED <<sudoers, fileVars>>
  BY <1>1 DEF setuid, SetUid, IdentityInv, TypeOK, RootEarned
<1>4. sudoers' \subseteq Slots /\ UNCHANGED fileVars
  BY <1>1, <1>3 DEF TypeOK
<1> QED
  BY <1>2, <1>3, <1>4, IdentityKept

\* addsudoer() and removesudoer() change who may use sudo, and nobody's identity.
LEMMA VisudoStep ==
  ASSUME IdentityInv, NEW p \in Procs, NEW uid \in Uids, visudo(p, uid)
  PROVE  IdentityInv' /\ UNCHANGED fileVars
<1>1. sudoers' \subseteq Slots /\ UNCHANGED <<proc, earned, fileVars>>
  BY DEF visudo, sys_addsudoer, sys_removesudoer, users_add_sudoer, users_remove_sudoer,
         IdentityInv, TypeOK, SlotsOf
<1>2. TypeOK'
  BY <1>1 DEF IdentityInv, TypeOK, fileVars
<1>3. RootEarned'
  BY <1>1 DEF IdentityInv, RootEarned
<1>4. SudoIdentity'
  BY <1>1 DEF IdentityInv, SudoIdentity
<1> QED
  BY <1>1, <1>2, <1>3, <1>4 DEF IdentityInv

\* login() makes its caller the user of the name, or ends the program.
LEMMA LoginEffect ==
  ASSUME IdentityInv, NEW p \in Procs, NEW name, NEW right \in BOOLEAN, NEW pc \in PcType,
         sys_login(p, name, right, pc), UNCHANGED <<sudoers, fileVars>>
  PROVE  /\ \/ /\ \E uid \in UidSet :
                    /\ ProcStep(p, pc, uid, uid, proc[p].name, proc[p].orig)
                    /\ \/ name = "root" /\ uid = 0
                       \/ name = "user" /\ uid = UserUid
                    /\ uid = 0 => p \in earned'
            \/ /\ ProcStep(p, "failed", proc[p].uid, proc[p].gid, proc[p].name, proc[p].orig)
               /\ earned' = earned
         /\ earned' \subseteq Procs /\ earned \ {p} \subseteq earned'
         /\ sudoers' \subseteq Slots
<1> DEFINE found == users_checkpassword(name, right)
           uid   == usertable[Min(found)].uid
<1>1. TypeOK /\ sudoers' \subseteq Slots
  BY DEF IdentityInv, TypeOK
<1>2. CASE found # {}
  <2>1. \/ name = "root" /\ uid = 0
        \/ name = "user" /\ uid = UserUid
    BY <1>2, LoginAs
  <2>2. uid \in UidSet
    BY <2>1 DEF UidSet
  <2>3. SetUid(p, uid, uid, pc, right /\ name = "root") /\ right
    BY <1>2 DEF sys_login, users_checkpassword
  <2> HIDE DEF uid
  <2>4. ProcStep(p, pc, uid, uid, proc[p].name, proc[p].orig)
    BY <1>1, <2>2, <2>3, SetUidEffect
  <2>5. /\ earned' \subseteq Procs /\ earned \ {p} \subseteq earned'
        /\ uid = 0 => p \in earned'
    <3>1. uid = 0 => name = "root"
      BY <2>1, TableFacts
    <3> QED
      BY <1>1, <2>3, <3>1 DEF SetUid, TypeOK
  <2> QED
    BY <1>1, <2>1, <2>2, <2>4, <2>5
<1>3. CASE found = {}
  <2>1. proc' = [proc EXCEPT ![p].pc = "failed"] /\ earned' = earned
    BY <1>3 DEF sys_login
  <2>2. ProcStep(p, "failed", proc[p].uid, proc[p].gid, proc[p].name, proc[p].orig)
    BY <1>1, <2>1 DEF TypeOK, ProcStep, ProcType
  <2> QED
    BY <1>1, <2>1, <2>2 DEF TypeOK
<1> QED
  BY <1>2, <1>3

\* su becomes the user of the name that was given.
LEMMA SuStep ==
  ASSUME IdentityInv, NEW p \in Procs, NEW name, NEW right \in BOOLEAN, su(p, name, right)
  PROVE  IdentityInv' /\ UNCHANGED fileVars
<1>1. /\ sys_login(p, name, right, "run") /\ UNCHANGED <<sudoers, fileVars>> /\ "run" \in PcType
      /\ proc[p].pc = "run"
  BY DEF su, PcType
<1>2. /\ earned' \subseteq Procs /\ earned \ {p} \subseteq earned'
      /\ sudoers' \subseteq Slots /\ UNCHANGED fileVars
  BY <1>1, LoginEffect
<1>3. CASE \E uid \in UidSet : /\ ProcStep(p, "run", uid, uid, proc[p].name, proc[p].orig)
                               /\ uid = 0 => p \in earned'
  BY <1>2, <1>3, IdentityKept
<1>4. CASE /\ ProcStep(p, "failed", proc[p].uid, proc[p].gid, proc[p].name, proc[p].orig)
           /\ earned' = earned
  <2>1. proc[p].uid = 0 => p \in earned'
    BY <1>1, <1>4 DEF IdentityInv, RootEarned
  <2> QED
    BY <1>2, <1>4, <2>1, IdentityKept
<1> QED
  BY <1>1, <1>3, <1>4, LoginEffect

\* sudo goes on only for a sudoer, whose name it asks the kernel for.
LEMMA SudoStep ==
  ASSUME IdentityInv, NEW p \in Procs, sudo(p)
  PROVE  IdentityInv' /\ UNCHANGED fileVars
<1> DEFINE uid == proc[p].uid
           ok == users_can_sudo(uid)
           r == proc[p]
<1>1. /\ TypeOK /\ r.pc = "run" /\ uid \in UidSet /\ r.orig \in UidSet /\ r.name \in Names
      /\ UNCHANGED <<sudoers, earned, fileVars>>
      /\ sudoers' \subseteq Slots /\ earned' \subseteq Procs /\ earned \ {p} \subseteq earned'
  BY DEF sudo, IdentityInv, TypeOK, ProcType, Names
<1>2. uid = 0 => p \in earned'
  BY <1>1 DEF IdentityInv, RootEarned
<1>3. CASE ok
  <2>1. SlotsOf(uid) # {} /\ users_getname(uid) \in Names
    BY <1>3, NameOfUid DEF users_can_sudo, Names
  <2>2. proc' = [proc EXCEPT ![p] = [@ EXCEPT !.pc = "password", !.name = users_getname(uid), !.orig = uid]]
    BY <1>3 DEF sudo
  <2>3. ProcStep(p, "password", uid, r.gid, users_getname(uid), uid)
    BY <1>1, <2>1, <2>2, PcEffect DEF PcType
  <2> QED
    BY <1>1, <1>2, <2>1, <2>3, IdentityKept
<1>4. CASE ~ok
  <2>1. proc' = [proc EXCEPT ![p] = [@ EXCEPT !.pc = "failed", !.name = r.name, !.orig = r.orig]]
    BY <1>4 DEF sudo
  <2>2. ProcStep(p, "failed", uid, r.gid, r.name, r.orig)
    BY <1>1, <2>1, PcEffect DEF PcType
  <2> QED
    BY <1>1, <1>2, <2>2, IdentityKept
<1> QED
  BY <1>3, <1>4

\* sudo logs in with the name of its caller, so that it stays its caller.
LEMMA SudoLoginStep ==
  ASSUME IdentityInv, NEW p \in Procs, NEW right \in BOOLEAN, sudo_login(p, right)
  PROVE  IdentityInv' /\ UNCHANGED fileVars
<1>1. /\ sys_login(p, proc[p].name, right, "setsuid") /\ UNCHANGED <<sudoers, fileVars>>
      /\ "setsuid" \in PcType /\ proc[p].pc = "password"
  BY DEF sudo_login, PcType
<1>2. /\ earned' \subseteq Procs /\ earned \ {p} \subseteq earned'
      /\ sudoers' \subseteq Slots /\ UNCHANGED fileVars
  BY <1>1, LoginEffect
<1>3. /\ proc[p].uid = proc[p].orig
      /\ \/ proc[p].uid = 0 /\ proc[p].name = "root"
         \/ proc[p].uid = UserUid /\ proc[p].name = "user"
  <2>1. /\ SlotsOf(proc[p].uid) # {} /\ proc[p].uid = proc[p].orig
        /\ proc[p].name = users_getname(proc[p].uid)
    BY <1>1 DEF IdentityInv, SudoIdentity
  <2> QED
    BY <2>1, NameOfUid
<1>4. CASE \E uid \in UidSet : /\ ProcStep(p, "setsuid", uid, uid, proc[p].name, proc[p].orig)
                               /\ \/ proc[p].name = "root" /\ uid = 0
                                  \/ proc[p].name = "user" /\ uid = UserUid
                               /\ uid = 0 => p \in earned'
  <2>1. PICK uid \in UidSet : /\ ProcStep(p, "setsuid", uid, uid, proc[p].name, proc[p].orig)
                              /\ \/ proc[p].name = "root" /\ uid = 0
                                 \/ proc[p].name = "user" /\ uid = UserUid
                              /\ uid = 0 => p \in earned'
    BY <1>4
  <2>2. uid = proc[p].orig
    BY <1>3, <2>1
  <2> QED
    BY <1>2, <2>1, <2>2, IdentityKept
<1>5. CASE /\ ProcStep(p, "failed", proc[p].uid, proc[p].gid, proc[p].name, proc[p].orig)
           /\ earned' = earned
  <2>1. proc[p].uid = 0 => p \in earned'
    BY <1>1, <1>5 DEF IdentityInv, RootEarned
  <2> QED
    BY <1>2, <1>5, <2>1, IdentityKept
<1> QED
  BY <1>1, <1>4, <1>5, LoginEffect

\* users_can_sudo() finds only users that are in the list of sudoers.
LEMMA CanSudo ==
  ASSUME NEW uid, users_can_sudo(uid)
  PROVE  \E i \in sudoers : usertable[i].uid = uid
<1>1. Min(SlotsOf(uid)) \in SlotsOf(uid)
  BY MinSlot DEF users_can_sudo, SlotsOf
<1> QED
  BY <1>1 DEF users_can_sudo, SlotsOf

\* setsuid() of a sudoer, or of somebody else, from any program.
LEMMA SetsuidEffect ==
  ASSUME IdentityInv, NEW p \in Procs, NEW uid, NEW pc \in PcType, NEW fail \in PcType,
         sys_setsuid(p, uid, pc, fail), UNCHANGED <<sudoers, fileVars>>,
         proc[p].pc # "free", pc \in {"run", "exec"}, fail \in {"run", "failed"}, pc = "exec" => uid = 0
  PROVE  IdentityInv'
<1> DEFINE r == proc[p]
           right == p \in earned \/ \E i \in sudoers : usertable[i].uid = r.uid
<1>1. /\ TypeOK /\ 0 \in UidSet /\ r.gid \in UidSet /\ r.uid \in UidSet
      /\ UNCHANGED fileVars /\ sudoers' \subseteq Slots
  BY DEF IdentityInv, TypeOK, ProcType, UidSet
<1>2. CASE users_can_sudo(r.uid) /\ uid \in {0, r.uid}
  <2>1. SetUid(p, uid, r.gid, pc, right)
    BY <1>2 DEF sys_setsuid
  <2>2. right
    BY <1>2, CanSudo
  <2> HIDE DEF right
  <2>3. uid \in UidSet
    BY <1>1, <1>2
  <2>4. ProcStep(p, pc, uid, r.gid, r.name, r.orig)
    BY <1>1, <2>1, <2>3, SetUidEffect
  <2>5. /\ earned' \subseteq Procs /\ earned \ {p} \subseteq earned'
        /\ uid = 0 => p \in earned'
    BY <1>1, <2>1, <2>2 DEF SetUid, TypeOK
  <2> QED
    BY <1>1, <2>4, <2>5, IdentityKept
<1>3. CASE ~(users_can_sudo(r.uid) /\ uid \in {0, r.uid})
  <2>1. proc' = [proc EXCEPT ![p].pc = fail] /\ earned' = earned
    BY <1>3 DEF sys_setsuid
  <2>2. ProcStep(p, fail, r.uid, r.gid, r.name, r.orig)
    BY <1>1, <2>1 DEF TypeOK, ProcStep, ProcType, PcType
  <2>3. /\ earned' \subseteq Procs /\ earned \ {p} \subseteq earned'
        /\ r.uid = 0 => p \in earned'
    BY <1>1, <2>1 DEF IdentityInv, RootEarned, TypeOK
  <2> QED
    BY <1>1, <2>2, <2>3, IdentityKept
<1> QED
  BY <1>2, <1>3

\* setsuid() called by sudo, and by any other program.
LEMMA SetsuidStep ==
  ASSUME IdentityInv, NEW p \in Procs, sudo_setsuid(p) \/ \E uid \in Uids : setsuid(p, uid)
  PROVE  IdentityInv' /\ UNCHANGED fileVars
<1>1. "run" \in PcType /\ "exec" \in PcType /\ "failed" \in PcType
  BY DEF PcType
<1>2. CASE sudo_setsuid(p)
  <2>1. /\ proc[p].pc = "setsuid" /\ sys_setsuid(p, 0, "exec", "failed")
        /\ UNCHANGED <<sudoers, fileVars>>
    BY <1>2 DEF sudo_setsuid
  <2> QED
    BY <1>1, <2>1, SetsuidEffect
<1>3. ASSUME NEW uid \in Uids, setsuid(p, uid)
      PROVE  IdentityInv' /\ UNCHANGED fileVars
  <2>1. /\ proc[p].pc = "run" /\ sys_setsuid(p, uid, "run", "run")
        /\ UNCHANGED <<sudoers, fileVars>>
    BY <1>3 DEF setsuid
  <2> QED
    BY <1>1, <2>1, SetsuidEffect
<1> QED
  BY <1>2, <1>3

\* exec() of the command by sudo.
LEMMA ExecStep ==
  ASSUME IdentityInv, NEW p \in Procs, NEW ok \in BOOLEAN, sudo_exec(p, ok)
  PROVE  IdentityInv' /\ UNCHANGED fileVars
<1> DEFINE pc == IF ok THEN "run" ELSE "failed"
<1>1. /\ TypeOK /\ proc[p].pc = "exec" /\ 0 \in UidSet /\ "unknown" \in Names /\ pc \in PcType
      /\ UNCHANGED <<sudoers, earned, fileVars>>
      /\ sudoers' \subseteq Slots /\ earned' \subseteq Procs /\ earned \ {p} \subseteq earned'
  BY DEF sudo_exec, IdentityInv, TypeOK, UidSet, Names, PcType
<1>2. proc' = [proc EXCEPT ![p] = [@ EXCEPT !.pc = pc, !.name = "unknown", !.orig = 0]]
  BY DEF sudo_exec
<1>3. pc \in {"run", "failed"}
  OBVIOUS
<1> HIDE DEF pc
<1>4. ProcStep(p, pc, proc[p].uid, proc[p].gid, "unknown", 0)
  BY <1>1, <1>2, PcEffect
<1>5. p \in earned'
  BY <1>1 DEF IdentityInv, RootEarned, SudoIdentity
<1> QED
  BY <1>1, <1>3, <1>4, <1>5, IdentityKept

--------------------------------------------------------------------------------
(* The steps on files. *)

\* A uid as an inode keeps it.
LEMMA StoredUid ==
  ASSUME NEW uid \in UidSet
  PROVE  uid \in Nat /\ uid % USHORT \in 0..USHORT - 1 /\ (uid < USHORT => uid % USHORT = uid)
  BY UsersAssumption DEF UidSet

\* InodesCoherent in terms of who has a file open.
Opened(i) == \E p \in Procs : open[p][i] # {}

Coherent ==
    \A i \in Inodes :
        /\ Opened(i) => icache[i] = dinode[i] /\ dinode[i].alloc
        /\ dinode[i].linked => dinode[i].alloc
        /\ dinode[i].alloc => /\ dinode[i].mode = set[i].mode
                              /\ dinode[i].uid = set[i].uid % USHORT

LEMMA CoherentIs == InodesCoherent <=> Coherent
  BY RefsPositive DEF InodesCoherent, Coherent, Opened

\* A step that gives inode i new contents, on disk and in memory if it is open, and
\* changes neither the processes nor what they have open.
LEMMA UpdateKeeps ==
  ASSUME TypeOK, Coherent, NEW i \in Inodes, NEW ip \in InodeType, iupdate(i, ip),
         UNCHANGED <<proc, sudoers, earned, open>>,
         set' \in [Inodes -> [uid : UidSet, mode : SUBSET ModeBits]],
         \A j \in Inodes \ {i} : set'[j] = set[j],
         ip.linked => ip.alloc, Opened(i) => ip.alloc,
         ip.alloc => ip.mode = set'[i].mode /\ ip.uid = set'[i].uid % USHORT
  PROVE  TypeOK' /\ Coherent'
<1>1. /\ dinode' = [dinode EXCEPT ![i] = ip]
      /\ icache' = [icache EXCEPT ![i] = IF Opened(i) THEN ip ELSE NotCached]
  BY RefsPositive DEF iupdate, Opened
<1>2. NotCached \in InodeType
  BY UsersAssumption DEF NotCached, FreeInode, InodeType
<1>3. /\ dinode' \in [Inodes -> InodeType] /\ icache' \in [Inodes -> InodeType]
      /\ dinode'[i] = ip /\ (Opened(i) => icache'[i] = ip)
      /\ \A j \in Inodes \ {i} : dinode'[j] = dinode[j] /\ icache'[j] = icache[j]
  BY <1>1, <1>2 DEF TypeOK
<1>4. TypeOK'
  BY <1>3 DEF TypeOK
<1>5. \A j : Opened(j)' <=> Opened(j)
  BY DEF Opened
<1>6. Coherent'
  BY <1>3, <1>5 DEF Coherent
<1> QED
  BY <1>4, <1>6

\* chmod() by root or the owner.
LEMMA ChmodStep ==
  ASSUME TypeOK, InodesCoherent, NEW p \in Procs, NEW i \in Inodes, NEW mode \in Modes, sys_chmod(p, i, mode)
  PROVE  TypeOK' /\ Coherent' /\ UNCHANGED <<proc, sudoers, earned>>
<1> DEFINE ip == [dinode[i] EXCEPT !.mode = mode]
<1>1. dinode[i] \in InodeType /\ dinode[i].alloc /\ mode \in SUBSET ModeBits /\ Coherent
  BY UsersAssumption, CoherentIs DEF TypeOK, sys_chmod, ModeBits, InodesCoherent
<1>2. /\ ip \in InodeType /\ ip.alloc = dinode[i].alloc /\ ip.mode = mode /\ ip.uid = dinode[i].uid
  BY <1>1 DEF InodeType
<1>3. iupdate(i, ip)
  BY IlockIsDisk DEF sys_chmod
<1>4. /\ set' \in [Inodes -> [uid : UidSet, mode : SUBSET ModeBits]]
      /\ set'[i].mode = mode /\ set'[i].uid = set[i].uid
      /\ \A j \in Inodes \ {i} : set'[j] = set[j]
  BY <1>1 DEF TypeOK, sys_chmod
<1>5. UNCHANGED <<proc, sudoers, earned, open>>
  BY DEF sys_chmod
<1>6. ip.alloc /\ ip.mode = set'[i].mode /\ ip.uid = set'[i].uid % USHORT
  BY <1>1, <1>2, <1>4 DEF Coherent
<1> HIDE DEF ip
<1> QED
  BY <1>1, <1>2, <1>3, <1>4, <1>5, <1>6, UpdateKeeps

\* chown() by root.
LEMMA ChownStep ==
  ASSUME TypeOK, InodesCoherent, NEW p \in Procs, NEW i \in Inodes, NEW uid \in Uids, sys_chown(p, i, uid)
  PROVE  TypeOK' /\ Coherent' /\ UNCHANGED <<proc, sudoers, earned>>
<1> DEFINE ip == [dinode[i] EXCEPT !.uid = uid % USHORT]
<1>1. /\ dinode[i] \in InodeType /\ dinode[i].alloc /\ Coherent
      /\ uid \in UidSet /\ uid % USHORT \in 0..USHORT - 1
  BY StoredUid, CoherentIs DEF TypeOK, sys_chown, InodesCoherent, UidSet
<1>2. /\ ip \in InodeType /\ ip.alloc = dinode[i].alloc /\ ip.mode = dinode[i].mode
      /\ ip.uid = uid % USHORT
  BY <1>1 DEF InodeType
<1>3. iupdate(i, ip)
  BY IlockIsDisk DEF sys_chown
<1>4. /\ set' \in [Inodes -> [uid : UidSet, mode : SUBSET ModeBits]]
      /\ set'[i].uid = uid /\ set'[i].mode = set[i].mode
      /\ \A j \in Inodes \ {i} : set'[j] = set[j]
  BY <1>1 DEF TypeOK, sys_chown
<1>5. UNCHANGED <<proc, sudoers, earned, open>>
  BY DEF sys_chown
<1>6. ip.alloc /\ ip.mode = set'[i].mode /\ ip.uid = set'[i].uid % USHORT
  BY <1>1, <1>2, <1>4 DEF Coherent
<1> HIDE DEF ip
<1> QED
  BY <1>1, <1>2, <1>3, <1>4, <1>5, <1>6, UpdateKeeps

\* unlink() frees the inode at once only if nobody has it open.
LEMMA UnlinkStep ==
  ASSUME TypeOK, InodesCoherent, NEW p \in Procs, NEW i \in Inodes, sys_unlink(p, i)
  PROVE  TypeOK' /\ Coherent' /\ UNCHANGED <<proc, sudoers, earned>>
<1> DEFINE kept == [dinode[i] EXCEPT !.linked = FALSE]
           ip == IF Opened(i) THEN kept ELSE FreeInode
<1>1. dinode[i] \in InodeType /\ dinode[i].alloc /\ Coherent
  BY CoherentIs DEF TypeOK, sys_unlink, InodesCoherent
<1>2. /\ kept \in InodeType /\ kept.alloc = dinode[i].alloc /\ ~kept.linked
      /\ kept.mode = dinode[i].mode /\ kept.uid = dinode[i].uid
  BY <1>1 DEF InodeType
<1>3. FreeInode \in InodeType /\ ~FreeInode.alloc /\ ~FreeInode.linked
  BY UsersAssumption DEF FreeInode, InodeType
<1>4. iupdate(i, ip)
  BY IlockIsDisk, RefsPositive DEF sys_unlink, Opened
<1>5. /\ UNCHANGED <<proc, sudoers, earned, open, set>>
      /\ set' \in [Inodes -> [uid : UidSet, mode : SUBSET ModeBits]]
  BY DEF sys_unlink, TypeOK
<1> HIDE DEF kept
<1>6. /\ ip \in InodeType /\ ~ip.linked /\ (Opened(i) => ip.alloc)
      /\ ip.alloc => ip.mode = set'[i].mode /\ ip.uid = set'[i].uid % USHORT
  BY <1>1, <1>2, <1>3, <1>5 DEF Coherent
<1> HIDE DEF ip
<1> QED
  BY <1>1, <1>4, <1>5, <1>6, UpdateKeeps


\* A descriptor reads or writes or does both.
LEMMA RightsOf ==
  ASSUME NEW omode
  PROVE  Rights(omode) \in SUBSET {"read", "write"}
  BY DEF Rights

\* open() of a file with a name reads the inode from the disk if it is not in memory.
LEMMA OpenStep ==
  ASSUME TypeOK, InodesCoherent, NEW p \in Procs, NEW i \in Inodes, NEW omode, NEW o_create, sys_open(p, i, omode, o_create)
  PROVE  TypeOK' /\ Coherent' /\ UNCHANGED <<proc, sudoers, earned>>
<1>1. dinode[i].alloc /\ Coherent
  BY CoherentIs DEF sys_open, InodesCoherent
<1>2. /\ icache' = [icache EXCEPT ![i] = dinode[i]]
      /\ open' = [open EXCEPT ![p] = [@ EXCEPT ![i] = Rights(omode)]]
      /\ UNCHANGED <<proc, sudoers, dinode, earned, set>>
  BY IlockIsDisk DEF sys_open
<1>3. /\ icache' \in [Inodes -> InodeType] /\ icache'[i] = dinode[i]
      /\ \A j \in Inodes \ {i} : icache'[j] = icache[j]
      /\ open' \in Descriptors
      /\ \A j \in Inodes \ {i} : Opened(j)' => Opened(j)
  BY <1>2, RightsOf DEF TypeOK, Opened, Descriptors
<1>4. TypeOK'
  BY <1>2, <1>3 DEF TypeOK, Descriptors
<1>5. Coherent'
  BY <1>1, <1>2, <1>3 DEF Coherent
<1> QED
  BY <1>2, <1>4, <1>5

\* open() with O_CREATE takes an inode that nobody has open.
LEMMA CreateStep ==
  ASSUME TypeOK, InodesCoherent, NEW p \in Procs, NEW omode, create(p, omode)
  PROVE  TypeOK' /\ Coherent' /\ UNCHANGED <<proc, sudoers, earned>>
<1> DEFINE free == {j \in Inodes : ~dinode[j].alloc}
           i == Min(free)
           new == [alloc |-> TRUE, linked |-> TRUE, uid |-> proc[p].uid % USHORT,
                   gid |-> proc[p].gid % USHORT, mode |-> Default]
           s == [uid |-> proc[p].uid, mode |-> Default]
<1>1. i \in Inodes /\ Coherent
  <2>1. free \subseteq Inodes /\ free # {}
    BY DEF create
  <2>2. i \in free
    BY <2>1, MinInode
  <2> QED
    BY <2>2, CoherentIs
<1>2. proc[p].uid \in UidSet /\ proc[p].gid \in UidSet
  BY DEF TypeOK, ProcType
<1>3. /\ new \in InodeType /\ new.alloc /\ new.linked
      /\ new.mode = Default /\ new.uid = proc[p].uid % USHORT
  BY <1>2, StoredUid DEF InodeType, Default, ModeBits
<1>4. s \in [uid : UidSet, mode : SUBSET ModeBits] /\ s.uid = proc[p].uid /\ s.mode = Default
  BY <1>2 DEF Default, ModeBits
<1>5. /\ dinode' = [dinode EXCEPT ![i] = new] /\ icache' = [icache EXCEPT ![i] = new]
      /\ open' = [open EXCEPT ![p] = [@ EXCEPT ![i] = Rights(omode)]] /\ set' = [set EXCEPT ![i] = s]
      /\ UNCHANGED <<proc, sudoers, earned>>
  BY DEF create
<1> HIDE DEF i, new, s
<1>6. /\ dinode' \in [Inodes -> InodeType] /\ icache' \in [Inodes -> InodeType]
      /\ open' \in Descriptors
      /\ set' \in [Inodes -> [uid : UidSet, mode : SUBSET ModeBits]]
      /\ dinode'[i] = new /\ icache'[i] = new /\ set'[i] = s
      /\ \A j \in Inodes \ {i} : /\ icache'[j] = icache[j] /\ dinode'[j] = dinode[j]
                                 /\ set'[j] = set[j]
      /\ \A j \in Inodes \ {i} : Opened(j)' => Opened(j)
  BY <1>1, <1>3, <1>4, <1>5, RightsOf DEF TypeOK, Opened, Descriptors
<1>7. TypeOK'
  BY <1>5, <1>6 DEF TypeOK, Descriptors
<1>8. Coherent'
  BY <1>1, <1>3, <1>4, <1>6 DEF Coherent
<1> QED
  BY <1>5, <1>7, <1>8

\* close() and exit(): iput() drops from memory, or frees, only what nobody else has open.
LEMMA IputKeeps ==
  ASSUME TypeOK, InodesCoherent, NEW p \in Procs, NEW gone, gone \subseteq {i \in Inodes : open[p][i] # {}}, iput(p, gone)
  PROVE  /\ Coherent' /\ UNCHANGED set
         /\ dinode' \in [Inodes -> InodeType] /\ icache' \in [Inodes -> InodeType]
         /\ open' \in Descriptors
<1> DEFINE last == {i \in gone : Refs(i) = 1}
<1>1. /\ open' = [open EXCEPT ![p] = [i \in Inodes |-> IF i \in gone THEN {} ELSE @[i]]]
      /\ dinode' = [i \in Inodes |-> IF i \in last /\ ~icache[i].linked THEN FreeInode ELSE dinode[i]]
      /\ icache' = [i \in Inodes |-> IF i \in last THEN NotCached ELSE icache[i]]
      /\ UNCHANGED set
  BY DEF iput
<1>2. Coherent
  BY CoherentIs
<1>3. \A i \in last, q \in Procs : open[q][i] # {} => q = p
  BY RefsLast
<1>4. last \subseteq gone
  OBVIOUS
<1> HIDE DEF last
<1>5. FreeInode \in InodeType /\ ~FreeInode.alloc /\ ~FreeInode.linked /\ NotCached \in InodeType
  BY UsersAssumption DEF FreeInode, InodeType, NotCached
<1>6. /\ dinode' \in [Inodes -> InodeType] /\ icache' \in [Inodes -> InodeType]
      /\ open' \in Descriptors
  BY <1>1, <1>5 DEF TypeOK, Descriptors
<1>7. /\ \A q \in Procs \ {p} : open'[q] = open[q]
      /\ \A i \in gone : open'[p][i] = {}
      /\ \A i \in Inodes \ gone : open'[p][i] = open[p][i]
  BY <1>1 DEF TypeOK
<1>8. \A i \in Inodes : Opened(i)' => Opened(i) /\ i \notin last
  BY <1>3, <1>4, <1>7 DEF Opened
<1>9. /\ \A i \in Inodes : dinode'[i] = dinode[i] \/ dinode'[i] = FreeInode
      /\ \A i \in Inodes \ last : dinode'[i] = dinode[i] /\ icache'[i] = icache[i]
  BY <1>1
<1>10. Coherent'
  BY <1>1, <1>2, <1>5, <1>8, <1>9 DEF Coherent
<1> QED
  BY <1>1, <1>6, <1>10

\* close().
LEMMA CloseStep ==
  ASSUME TypeOK, InodesCoherent, NEW p \in Procs, NEW i \in Inodes, close(p, i)
  PROVE  TypeOK' /\ Coherent' /\ UNCHANGED <<proc, sudoers, earned>>
<1>1. {i} \subseteq {j \in Inodes : open[p][j] # {}} /\ iput(p, {i}) /\ UNCHANGED <<proc, sudoers, earned>>
  BY DEF close
<1>2. /\ Coherent' /\ UNCHANGED set
      /\ dinode' \in [Inodes -> InodeType] /\ icache' \in [Inodes -> InodeType]
      /\ open' \in Descriptors
  BY <1>1, IputKeeps
<1> QED
  BY <1>1, <1>2 DEF TypeOK, Descriptors

\* exit() closes everything and frees the slot, with its uid.
LEMMA ExitStep ==
  ASSUME IdentityInv, InodesCoherent, NEW p \in Procs, exit(p)
  PROVE  IdentityInv' /\ Coherent'
<1>1. TypeOK /\ iput(p, {i \in Inodes : open[p][i] # {}}) /\ UNCHANGED sudoers /\ earned' = earned \ {p}
  BY DEF exit, IdentityInv
<1>2. /\ Coherent' /\ UNCHANGED set
      /\ dinode' \in [Inodes -> InodeType] /\ icache' \in [Inodes -> InodeType]
      /\ open' \in Descriptors
  BY <1>1, IputKeeps
<1>3. ProcStep(p, "free", proc[p].uid, proc[p].gid, "unknown", 0)
  <2>1. proc' = [proc EXCEPT ![p] = [@ EXCEPT !.pc = "free", !.name = "unknown", !.orig = 0]]
    BY DEF exit
  <2> QED
    BY <1>1, <2>1, PcEffect DEF PcType, Names, UidSet
<1>4. TypeOK'
  BY <1>1, <1>2, <1>3 DEF TypeOK, ProcStep, Descriptors
<1>5. RootEarned'
  BY <1>1, <1>3 DEF IdentityInv, RootEarned, ProcStep
<1>6. SudoIdentity'
  BY <1>3 DEF IdentityInv, SudoIdentity, ProcStep
<1> QED
  BY <1>2, <1>4, <1>5, <1>6 DEF IdentityInv

\* The child of fork() is who its parent is and has the same files open.
LEMMA ForkStep ==
  ASSUME IdentityInv, InodesCoherent, NEW p \in Procs, NEW q \in Procs, fork(p, q)
  PROVE  IdentityInv' /\ Coherent'
<1>1. /\ TypeOK /\ proc[p].pc = "run" /\ proc[q].pc = "free"
      /\ proc' = [proc EXCEPT ![q] = proc[p]] /\ open' = [open EXCEPT ![q] = open[p]]
      /\ earned' = IF p \in earned THEN earned \union {q} ELSE earned
      /\ UNCHANGED <<sudoers, dinode, icache, set>>
  BY DEF fork, IdentityInv
<1>2. /\ proc' \in [Procs -> ProcType] /\ proc'[q] = proc[p]
      /\ \A r \in Procs \ {q} : proc'[r] = proc[r]
      /\ open' \in Descriptors /\ open'[q] = open[p]
      /\ \A r \in Procs \ {q} : open'[r] = open[r]
  BY <1>1 DEF TypeOK, Descriptors
<1>3. TypeOK'
  BY <1>1, <1>2 DEF TypeOK, Descriptors
<1>4. RootEarned'
  BY <1>1, <1>2 DEF IdentityInv, RootEarned
<1>5. SudoIdentity'
  BY <1>1, <1>2 DEF IdentityInv, SudoIdentity
<1>6. \A i \in Inodes : Opened(i)' => Opened(i)
  BY <1>2 DEF Opened
<1>7. Coherent'
  BY <1>1, <1>6, CoherentIs DEF Coherent
<1> QED
  BY <1>3, <1>4, <1>5, <1>7 DEF IdentityInv

--------------------------------------------------------------------------------
(* The theorems. *)

\* The inductive invariant.
UsersInv == IdentityInv /\ InodesCoherent

LEMMA UsersInit == Init => UsersInv
<1> SUFFICES ASSUME Init PROVE UsersInv
  OBVIOUS
<1>1. NoProc \in ProcType /\ [NoProc EXCEPT !.pc = "run"] \in ProcType
  BY DEF NoProc, ProcType, UidSet
<1>2. FreeInode \in InodeType /\ ~FreeInode.alloc /\ ~FreeInode.linked
  BY UsersAssumption DEF FreeInode, InodeType
<1>3. 1 \in Procs
  BY UsersAssumption DEF Procs
<1>4. TypeOK
  BY <1>1, <1>2, <1>3 DEF Init, TypeOK, NotCached, UidSet
<1>5. \A p \in Procs : proc[p].pc = IF p = 1 THEN "run" ELSE "free"
  BY DEF Init, NoProc
<1>6. RootEarned /\ SudoIdentity
  BY <1>5 DEF Init, RootEarned, SudoIdentity
<1>7. Coherent
  BY <1>2 DEF Init, Coherent, Opened
<1> QED
  BY <1>4, <1>6, <1>7, CoherentIs DEF UsersInv, IdentityInv

\* What depends on the files alone.
LEMMA FilesOnly ==
  ASSUME IdentityInv, TypeOK', UNCHANGED <<proc, sudoers, earned>>
  PROVE  IdentityInv'
<1>1. RootEarned'
  BY DEF IdentityInv, RootEarned
<1>2. SudoIdentity'
  BY DEF IdentityInv, SudoIdentity
<1> QED
  BY <1>1, <1>2 DEF IdentityInv

LEMMA UsersStep ==
  ASSUME UsersInv, [Next]_vars
  PROVE  UsersInv'
<1>1. IdentityInv /\ TypeOK /\ InodesCoherent
  BY DEF UsersInv, IdentityInv
<1>2. Coherent' => InodesCoherent'
  BY CoherentIs, PTL
<1>3. UNCHANGED fileVars => Coherent'
  BY <1>1, CoherentIs DEF fileVars, Coherent, Opened
<1>4. ASSUME NEW p \in Procs, UserCall(p) PROVE IdentityInv' /\ Coherent'
  <2>1. ASSUME NEW uid \in Uids, setuid(p, uid) \/ setsuid(p, uid) \/ visudo(p, uid)
        PROVE IdentityInv' /\ Coherent'
    BY <1>1, <1>3, <2>1, SetuidStep, SetsuidStep, VisudoStep
  <2>2. ASSUME NEW name \in {"root", "user", "unknown"}, NEW right \in BOOLEAN, su(p, name, right)
        PROVE IdentityInv' /\ Coherent'
    BY <1>1, <1>3, <2>2, SuStep
  <2>3. ASSUME NEW ok \in BOOLEAN, sudo_login(p, ok) \/ sudo_exec(p, ok) PROVE IdentityInv' /\ Coherent'
    BY <1>1, <1>3, <2>3, SudoLoginStep, ExecStep
  <2>4. CASE exit(p)
    BY <1>1, <2>4, ExitStep
  <2>5. CASE sudo(p) \/ sudo_setsuid(p)
    BY <1>1, <1>3, <2>5, SudoStep, SetsuidStep
  <2> QED
    BY <1>4, <2>1, <2>2, <2>3, <2>4, <2>5 DEF UserCall
<1>5. ASSUME NEW p \in Procs, FileCall(p) PROVE IdentityInv' /\ Coherent'
  <2>1. ASSUME NEW omode \in OModes, create(p, omode) PROVE IdentityInv' /\ Coherent'
    BY <1>1, <2>1, CreateStep, FilesOnly
  <2>2. ASSUME NEW i \in Inodes, close(p, i) \/ sys_unlink(p, i) PROVE IdentityInv' /\ Coherent'
    BY <1>1, <2>2, CloseStep, UnlinkStep, FilesOnly
  <2>3. ASSUME NEW i \in Inodes, NEW omode \in OModes, NEW o_create \in BOOLEAN,
               sys_open(p, i, omode, o_create)
        PROVE IdentityInv' /\ Coherent'
    BY <1>1, <2>3, OpenStep, FilesOnly
  <2>4. ASSUME NEW i \in Inodes, NEW mode \in Modes, sys_chmod(p, i, mode) PROVE IdentityInv' /\ Coherent'
    BY <1>1, <2>4, ChmodStep, FilesOnly
  <2>5. ASSUME NEW i \in Inodes, NEW uid \in Uids, sys_chown(p, i, uid) PROVE IdentityInv' /\ Coherent'
    BY <1>1, <2>5, ChownStep, FilesOnly
  <2> QED
    BY <1>5, <2>1, <2>2, <2>3, <2>4, <2>5 DEF FileCall
<1>6. ASSUME NEW p \in Procs, NEW q \in Procs, fork(p, q) PROVE IdentityInv' /\ Coherent'
  BY <1>1, <1>6, ForkStep
<1>7. CASE UNCHANGED vars
  <2>1. UNCHANGED <<proc, sudoers, earned, fileVars>>
    BY <1>7 DEF vars, fileVars
  <2>2. TypeOK'
    BY <1>1, <2>1 DEF TypeOK, fileVars
  <2> QED
    BY <1>1, <1>2, <1>3, <2>1, <2>2, FilesOnly DEF UsersInv
<1> QED
  BY <1>2, <1>4, <1>5, <1>6, <1>7 DEF Next, UsersInv

\* Whatever processes log in, su, sudo, call setsuid(), fork, exit and change the sudoers:
\* a process is root only if it was forked by root, gave root's password, or was in the list
\* of sudoers at the moment of its setsuid(); and sudo asks for the password of its caller.
THEOREM UsersIdentity == Spec => []IdentityInv
<1>1. UsersInv /\ [Next]_vars => UsersInv'
  BY UsersStep
<1>2. UsersInv => IdentityInv
  BY DEF UsersInv
<1> QED
  BY UsersInit, <1>1, <1>2, PTL DEF Spec

\* The owner and the mode of a file are those that were last set, in memory and on disk.
THEOREM UsersAttrs == Spec => []AttrsAsSet
<1>1. UsersInv /\ [Next]_vars => UsersInv'
  BY UsersStep
<1>2. UsersInv => AttrsAsSet
  <2> SUFFICES ASSUME UsersInv PROVE AttrsAsSet
    OBVIOUS
  <2>1. InodesCoherent /\ TypeOK
    BY DEF UsersInv, IdentityInv
  <2>2. ASSUME NEW i \in Inodes, dinode[i].alloc
        PROVE  /\ ilock(i).mode = set[i].mode
               /\ set[i].uid < USHORT => ilock(i).uid = set[i].uid
    <3>1. set[i].uid \in UidSet
      BY <2>1 DEF TypeOK
    <3>2. ilock(i) = dinode[i] /\ dinode[i].mode = set[i].mode /\ dinode[i].uid = set[i].uid % USHORT
      BY <2>1, <2>2, IlockIsDisk DEF InodesCoherent
    <3> QED
      BY <3>1, <3>2, StoredUid
  <2> QED
    BY <2>1, <2>2 DEF AttrsAsSet
<1> QED
  BY UsersInit, <1>1, <1>2, PTL DEF Spec

\* The tests of sys_open() cover every right that the descriptor gets, for the three
\* documented modes.
LEMMA PermitsCovers ==
  ASSUME NEW uid, NEW ip, NEW omode \in {O_RDONLY, O_WRONLY, O_RDWR}, Permits(uid, ip, omode),
         NEW right \in Rights(omode)
  PROVE  uid = 0 \/ uid = ip.uid \/ (IF right = "read" THEN "RO" ELSE "WO") \in ip.mode
<1>1. right = "read" => omode \in {O_RDONLY, O_RDWR}
  BY DEF Rights, O_RDONLY, O_WRONLY, O_RDWR
<1>2. right # "read" => omode \in {O_WRONLY, O_RDWR}
  BY DEF Rights, O_RDONLY, O_WRONLY, O_RDWR
<1> QED
  BY <1>1, <1>2 DEF Permits

\* open() without O_CREATE grants, for the three documented modes, only what the owner and the
\* mode that were last set allow the caller, for every order of chmod, chown, unlink,
\* creation and eviction of the inode before it.
THEOREM UsersOpenAsSet == Spec => OpenAsSet
<1>1. UsersInv /\ [Next]_vars => UsersInv'
  BY UsersStep
<1>2. ASSUME UsersInv, NEW p \in Procs, NEW i \in Inodes, NEW omode \in {O_RDONLY, O_WRONLY, O_RDWR},
             sys_open(p, i, omode, FALSE), set[i].uid < USHORT, NEW right \in open'[p][i]
      PROVE  AllowedBySet(proc[p].uid, i, right)
  <2>1. InodesCoherent /\ TypeOK
    BY <1>2 DEF UsersInv, IdentityInv
  <2>2. ilock(i) = dinode[i] /\ dinode[i].alloc
    BY <1>2, <2>1, IlockIsDisk DEF sys_open, InodesCoherent
  <2>3. set[i].uid \in UidSet
    BY <2>1 DEF TypeOK
  <2>4. dinode[i].mode = set[i].mode /\ dinode[i].uid = set[i].uid
    BY <1>2, <2>1, <2>2, <2>3, StoredUid DEF InodesCoherent
  <2>5. right \in Rights(omode)
    BY <1>2, <2>1 DEF sys_open, TypeOK
  <2>6. Permits(proc[p].uid, dinode[i], omode)
    BY <1>2, <2>2 DEF sys_open
  <2> QED
    BY <2>4, <2>5, <2>6, PermitsCovers DEF AllowedBySet
<1>3. UsersInv => [\A p \in Procs, i \in Inodes, omode \in {O_RDONLY, O_WRONLY, O_RDWR} :
                     sys_open(p, i, omode, FALSE) /\ set[i].uid < USHORT =>
                        \A right \in open'[p][i] : AllowedBySet(proc[p].uid, i, right)]_vars
  BY <1>2
<1> QED
  BY UsersInit, <1>1, <1>3, PTL DEF Spec, OpenAsSet

================================================================================
