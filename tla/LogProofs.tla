------------------------------- MODULE LogProofs -------------------------------
(***************************************************************************)
(* Proofs about Log, for every number of processes, blocks and values and  *)
(* every setting of MAXOPBLOCKS, LOGSIZE and NLOG.                         *)
(***************************************************************************)
EXTENDS Log, FiniteSetTheorems, TLAPS

USE DEF Goto, Wakeup, PanicIf, Slot, PC, Phase

--------------------------------------------------------------------------------
(* Type correctness. *)

\* The program's data keep their types through every step of log.c, crashes
\* and recovery included.
LEMMA TypeStep == TypeOK /\ [Next]_vars => TypeOK'
<1> SUFFICES ASSUME TypeOK, [Next]_vars PROVE TypeOK'
  OBVIOUS
<1> USE LogConstants DEF TypeOK
<1>1. ASSUME NEW p \in Proc, Call(p) PROVE TypeOK'
  BY <1>1 DEF Call, diskVars, logVars, bufVars, stepVars
<1>2. ASSUME NEW p \in Proc, begin_op_sleep(p) PROVE TypeOK'
  BY <1>2 DEF begin_op_sleep, diskVars, logVars, bufVars, stepVars
<1>3. ASSUME NEW p \in Proc, begin_op(p) PROVE TypeOK'
  BY <1>3 DEF begin_op, diskVars, bufVars, stepVars
<1>4. ASSUME NEW p \in Proc, log_write(p) PROVE TypeOK'
  BY <1>4 DEF log_write, diskVars, stepVars
<1>5. ASSUME NEW p \in Proc, end_op(p) PROVE TypeOK'
  BY <1>5 DEF end_op, diskVars, bufVars, stepVars
<1>6. ASSUME NEW p \in Proc, end_op_commit(p) PROVE TypeOK'
  BY <1>6 DEF end_op_commit, diskVars, bufVars
<1>7. ASSUME NEW p \in Proc, NEW b \in Block, NEW v \in Data,
             log_write_check(p, b, v)
      PROVE TypeOK'
  BY <1>7 DEF log_write_check, diskVars, logVars, stepVars
<1>8. ASSUME write_log PROVE TypeOK'
  <2>1. lh[tail] \in Block
    BY <1>8 DEF write_log
  <2>2. Bread(lh[tail]) \in Data
    BY <2>1 DEF Bread
  <2>3. CASE tail \in Slot
    BY <1>8, <2>2, <2>3 DEF write_log, bufVars, logVars, procVars
  <2>4. CASE tail \notin Slot
    BY <1>8, <2>2, <2>4 DEF write_log, logVars, procVars
  <2> QED
    BY <2>3, <2>4
<1>9. ASSUME write_log_done PROVE TypeOK'
  BY <1>9 DEF write_log_done, diskVars, logVars, bufVars, procVars
<1>10. ASSUME write_head PROVE TypeOK'
  BY <1>10 DEF write_head, logVars, bufVars, procVars
<1>11. ASSUME install_trans PROVE TypeOK'
  <2>1. lh[tail] \in Block
    BY <1>11 DEF install_trans
  <2>2. Bread(AfterLog) \in Data
    BY DEF Bread
  <2>3. (IF tail \in Slot THEN dlog[tail] ELSE Bread(AfterLog)) \in Data
    BY <2>2
  <2> QED
    BY <1>11, <2>1, <2>3 DEF install_trans, logVars, procVars
<1>12. ASSUME install_trans_done PROVE TypeOK'
  BY <1>12 DEF install_trans_done, diskVars, logVars, bufVars, procVars
<1>13. ASSUME write_head_clear PROVE TypeOK'
  BY <1>13 DEF write_head_clear, bufVars, procVars
<1>14. ASSUME NEW p \in Proc, end_op_finish(p) PROVE TypeOK'
  BY <1>14 DEF end_op_finish, diskVars, bufVars
<1>15. ASSUME read_head PROVE TypeOK'
  BY <1>15 DEF read_head, diskVars, bufVars, procVars
<1>16. ASSUME initlog_done PROVE TypeOK'
  BY <1>16 DEF initlog_done, diskVars, logVars, bufVars, procVars
<1>17. ASSUME NEW b \in Block, bread(b) PROVE TypeOK'
  BY <1>17 DEF bread, diskVars, logVars, procVars, stepVars
<1>18. ASSUME NEW b \in Block, bget_recycle(b) PROVE TypeOK'
  BY <1>18 DEF bget_recycle, diskVars, logVars, procVars, stepVars
<1>19. ASSUME Crash PROVE TypeOK'
  <2>1. /\ lh' \in Seq(Block) /\ dirty' \in SUBSET Block
        /\ buf' \in [Block -> Data \cup {NoData}]
    BY <1>19 DEF Crash
  <2>2. pc' \in [Proc -> PC]
    BY <1>19 DEF Crash
  <2>3. wset' \in [Proc -> SUBSET Block] /\ tgt' \in [Proc -> Block]
    BY <1>19 DEF Crash
  <2>4. UNCHANGED <<home, dlog, dhead>>
    BY <1>19 DEF Crash, diskVars
  <2>5. outstanding' \in Int /\ tail' \in Nat \ {0}
    BY <1>19 DEF Crash
  <2>6. committing' \in BOOLEAN
    BY <1>19 DEF Crash
  <2>7. phase' \in Phase /\ mode' \in {"boot", "up", "panic"}
    BY <1>19 DEF Crash
  <2> QED
    BY <2>1, <2>2, <2>3, <2>4, <2>5, <2>6, <2>7
<1>20. ASSUME UNCHANGED vars PROVE TypeOK'
  BY <1>20 DEF vars
<1> HIDE DEF TypeOK
<1> QED
  BY <1>1, <1>2, <1>3, <1>4, <1>5, <1>6, <1>7, <1>8, <1>9, <1>10, <1>11,
     <1>12, <1>13, <1>14, <1>15, <1>16, <1>17, <1>18, <1>19, <1>20
     DEF Next, Syscall, Commit, Boot

LEMMA TypeInit == Init => TypeOK
<1> SUFFICES ASSUME Init PROVE TypeOK
  OBVIOUS
<1>1. dlog \in [Slot -> Data]
  BY DEF Init
<1>2. /\ dhead \in Seq(Block) /\ lh \in Seq(Block)
      /\ buf \in [Block -> Data \cup {NoData}] /\ dirty \in SUBSET Block
  BY DEF Init
<1>3. pc \in [Proc -> PC]
  BY DEF Init
<1>4. wset \in [Proc -> SUBSET Block] /\ tgt \in [Proc -> Block]
  BY LogConstants DEF Init
<1>5. home \in [Block -> Data] /\ outstanding \in Int /\ tail \in Nat \ {0}
  BY DEF Init
<1>6. committing \in BOOLEAN
  BY DEF Init
<1>7. phase \in Phase /\ mode \in {"boot", "up", "panic"}
  BY DEF Init
<1> QED
  BY <1>1, <1>2, <1>3, <1>4, <1>5, <1>6, <1>7 DEF TypeOK

THEOREM TypeCorrect == Spec => []TypeOK
  BY TypeInit, TypeStep, PTL DEF Spec

--------------------------------------------------------------------------------
(* Facts about the operators of the invariant. *)

LEMMA InOpFacts ==
  ASSUME LogInv
  PROVE  /\ IsFiniteSet(InOp)
         /\ outstanding \in Nat
         /\ outstanding = 0 <=> InOp = {}
<1>1. IsFiniteSet(InOp)
  BY LogConstants, FS_Subset DEF InOp
<1>2. Cardinality(InOp) \in Nat /\ (Cardinality(InOp) = 0 <=> InOp = {})
  BY <1>1, FS_CardinalityType, FS_EmptySet
<1> QED
  BY <1>1, <1>2 DEF LogInv, ProcInv

LEMMA EntriesAppend ==
  ASSUME NEW s \in Seq(Block), NEW b \in Block
  PROVE  Entries(Append(s, b)) = Entries(s) \cup {b}
<1>1. /\ Len(Append(s, b)) = Len(s) + 1
      /\ \A i \in 1..Len(s) : Append(s, b)[i] = s[i]
      /\ Append(s, b)[Len(s) + 1] = b
  OBVIOUS
<1>2. ASSUME NEW x \in Entries(Append(s, b)) PROVE x \in Entries(s) \cup {b}
  BY <1>1, <1>2 DEF Entries
<1>3. ASSUME NEW x \in Entries(s) \cup {b} PROVE x \in Entries(Append(s, b))
  <2>1. CASE x \in Entries(s)
    <3>1. PICK i \in 1..Len(s) : x = s[i]
      BY <2>1 DEF Entries
    <3>2. i \in 1..Len(Append(s, b)) /\ x = Append(s, b)[i]
      BY <1>1, <3>1
    <3> QED
      BY <3>2 DEF Entries
  <2>2. CASE x = b
    <3>1. Len(s) + 1 \in 1..Len(Append(s, b)) /\ x = Append(s, b)[Len(s) + 1]
      BY <1>1, <2>2
    <3> QED
      BY <3>1 DEF Entries
  <2> QED
    BY <1>3, <2>1, <2>2
<1> QED
  BY <1>2, <1>3

LEMMA DistinctAppend ==
  ASSUME NEW s \in Seq(Block), NEW b \in Block, Distinct(s), b \notin Entries(s)
  PROVE  Distinct(Append(s, b))
  BY DEF Distinct, Entries

LEMMA IndexOf ==
  ASSUME NEW s \in Seq(Block), Distinct(s), NEW i \in 1..Len(s)
  PROVE  Index(s, s[i]) = i
  BY DEF Index, Distinct

\* Unused, as a function of the calls in progress and the blocks they logged.
UnusedOf(A, w) == {x \in A \X (1..MAXOPBLOCKS) : x[2] > Cardinality(w[x[1]])}

LEMMA UnusedAtMost ==
  ASSUME NEW A, IsFiniteSet(A), NEW w
  PROVE  /\ IsFiniteSet(UnusedOf(A, w))
         /\ Cardinality(UnusedOf(A, w)) \in Nat
         /\ Cardinality(UnusedOf(A, w)) =< Cardinality(A) * MAXOPBLOCKS
<1>1. IsFiniteSet(1..MAXOPBLOCKS) /\ Cardinality(1..MAXOPBLOCKS) = MAXOPBLOCKS
  BY FS_Interval, LogConstants
<1>2. /\ IsFiniteSet(A \X (1..MAXOPBLOCKS))
      /\ Cardinality(A \X (1..MAXOPBLOCKS)) = Cardinality(A) * MAXOPBLOCKS
  BY <1>1, FS_Product
<1>3. UnusedOf(A, w) \in SUBSET (A \X (1..MAXOPBLOCKS))
  BY DEF UnusedOf
<1> QED
  BY <1>2, <1>3, FS_Subset, FS_CardinalityType

LEMMA UnusedAtLeast ==
  ASSUME NEW A, IsFiniteSet(A), NEW w, NEW p \in A,
         Cardinality(w[p]) \in Nat, Cardinality(w[p]) =< OPWRITES
  PROVE  Cardinality(UnusedOf(A, w)) >= MAXOPBLOCKS - OPWRITES
<1> DEFINE R == (OPWRITES + 1)..MAXOPBLOCKS
<1>1. IsFiniteSet(R) /\ Cardinality(R) = MAXOPBLOCKS - OPWRITES
  <2>1. OPWRITES + 1 \in Int /\ MAXOPBLOCKS \in Int /\ OPWRITES =< MAXOPBLOCKS
    BY LogConstants
  <2>2. /\ IsFiniteSet(R)
        /\ Cardinality(R) = IF OPWRITES + 1 > MAXOPBLOCKS THEN 0
                            ELSE MAXOPBLOCKS - (OPWRITES + 1) + 1
    BY <2>1, FS_Interval
  <2> QED
    BY <2>1, <2>2, LogConstants
<1>2. IsFiniteSet({p}) /\ Cardinality({p}) = 1
  BY FS_Singleton
<1>3. Cardinality({p} \X R) = 1 * (MAXOPBLOCKS - OPWRITES)
  <2> HIDE DEF R
  <2> QED BY <1>1, <1>2, FS_Product
<1>4. {p} \X R \in SUBSET UnusedOf(A, w)
  BY LogConstants DEF UnusedOf
<1>5. IsFiniteSet(UnusedOf(A, w)) /\ Cardinality(UnusedOf(A, w)) \in Nat
  BY UnusedAtMost
<1>6. Cardinality({p} \X R) =< Cardinality(UnusedOf(A, w))
  <2> HIDE DEF R
  <2> QED BY <1>4, <1>5, FS_Subset
<1> QED
  BY <1>3, <1>5, <1>6, LogConstants

\* commit() and recovery keep the log to themselves.
LEMMA ProcStep == LogInv /\ [Next]_vars => ProcInv'
<1> SUFFICES ASSUME LogInv, [Next]_vars PROVE ProcInv'
  OBVIOUS
<1>0. IsFiniteSet(InOp) /\ outstanding \in Nat /\ (outstanding = 0 <=> InOp = {})
  BY InOpFacts
<1> USE LogConstants DEF LogInv, TypeOK, ProcInv, HeadInv, InOp
<1>1. ASSUME NEW p \in Proc, Call(p) PROVE ProcInv'
  BY <1>1 DEF Call, diskVars, logVars, bufVars, stepVars
<1>2. ASSUME NEW p \in Proc, begin_op_sleep(p) PROVE ProcInv'
  BY <1>2 DEF begin_op_sleep, diskVars, logVars, bufVars, stepVars
<1>3. ASSUME NEW p \in Proc, begin_op(p) PROVE ProcInv'
  <2>1. InOp' = InOp \cup {p} /\ p \notin InOp
    BY <1>3 DEF begin_op
  <2> HIDE DEF InOp
  <2>2. Cardinality(InOp') = Cardinality(InOp) + 1
    BY <1>0, <2>1, FS_AddElement
  <2>3. ~committing
    BY <1>3 DEF begin_op, MustWait
  <2>4. outstanding' = Cardinality(InOp') /\ ~committing'
    BY <1>3, <2>2, <2>3 DEF begin_op
  <2> QED
    BY <1>3, <2>4 DEF begin_op
<1>4. ASSUME NEW p \in Proc, NEW b \in Block, NEW v \in Data,
             log_write_check(p, b, v)
      PROVE ProcInv'
  <2>1. InOp' = InOp
    BY <1>4 DEF log_write_check
  <2>2. \A q \in Proc : pc[q] = "checked" => tgt[q] # b
    BY <1>4 DEF log_write_check, Locked
  <2> HIDE DEF InOp
  <2> QED
    BY <1>4, <2>1, <2>2 DEF log_write_check, logVars
<1>5. ASSUME NEW p \in Proc, log_write(p) PROVE ProcInv'
  BY <1>5 DEF log_write, diskVars, stepVars
<1>6. ASSUME NEW p \in Proc, end_op(p) PROVE ProcInv'
  <2>1. InOp' = InOp \ {p} /\ p \in InOp
    BY <1>6 DEF end_op
  <2> HIDE DEF InOp
  <2>2. Cardinality(InOp') = Cardinality(InOp) - 1
    BY <1>0, <2>1, FS_RemoveElement
  <2>3. ~committing
    BY <2>1
  <2>4. mode' # "boot"
    BY <1>6 DEF end_op
  <2>5. \A q \in Proc : /\ pc'[q] = "commit" => pc[q] = "commit"
                        /\ pc'[q] = "checked" => pc[q] = "checked"
    BY <1>6 DEF end_op
  <2>6. outstanding' = Cardinality(InOp') /\ ~committing'
    BY <1>6, <2>2, <2>3 DEF end_op
  <2> QED
    BY <1>6, <2>4, <2>5, <2>6 DEF end_op
<1>7. ASSUME NEW p \in Proc, end_op_commit(p) PROVE ProcInv'
  <2>1. InOp' = InOp \ {p} /\ p \in InOp
    BY <1>7 DEF end_op_commit
  <2> HIDE DEF InOp
  <2>2. IsFiniteSet(InOp') /\ Cardinality(InOp') = Cardinality(InOp) - 1
    BY <1>0, <2>1, FS_RemoveElement
  <2>3. Cardinality(InOp') = 0
    <3>1. Cardinality(InOp) = 1
      BY <1>7 DEF end_op_commit
    <3> QED
      BY <2>2, <3>1
  <2>4. InOp' = {}
    BY <2>2, <2>3, FS_EmptySet
  <2>5. ~committing
    BY <2>1
  <2>6. \A q \in Proc : pc[q] # "commit"
    BY <2>5
  <2>7. \A q \in Proc : /\ pc'[q] = "commit" => q = p
                        /\ pc'[q] = "checked" => pc[q] = "checked"
    BY <1>7, <2>6 DEF end_op_commit
  <2>8. mode' # "boot" /\ committing' /\ outstanding' = 0 /\ tgt' = tgt
    BY <1>7 DEF end_op_commit
  <2> QED
    BY <2>3, <2>4, <2>7, <2>8
<1>8. ASSUME write_log PROVE ProcInv'
  BY <1>8 DEF write_log, bufVars, logVars, procVars
<1>9. ASSUME write_log_done PROVE ProcInv'
  BY <1>9 DEF write_log_done, diskVars, logVars, bufVars, procVars
<1>10. ASSUME write_head PROVE ProcInv'
  BY <1>10 DEF write_head, logVars, bufVars, procVars
<1>11. ASSUME install_trans PROVE ProcInv'
  BY <1>11 DEF install_trans, logVars, procVars
<1>12. ASSUME install_trans_done PROVE ProcInv'
  BY <1>12 DEF install_trans_done, diskVars, logVars, bufVars, procVars
<1>13. ASSUME write_head_clear PROVE ProcInv'
  BY <1>13 DEF write_head_clear, bufVars, procVars
<1>14. ASSUME NEW p \in Proc, end_op_finish(p) PROVE ProcInv'
  BY <1>14 DEF end_op_finish, diskVars, bufVars
<1>15. ASSUME read_head PROVE ProcInv'
  BY <1>15 DEF read_head, diskVars, bufVars, procVars
<1>16. ASSUME initlog_done PROVE ProcInv'
  BY <1>16 DEF initlog_done, diskVars, logVars, bufVars, procVars
<1>17. ASSUME NEW b \in Block, bread(b) PROVE ProcInv'
  BY <1>17 DEF bread, diskVars, logVars, procVars, stepVars
<1>18. ASSUME NEW b \in Block, bget_recycle(b) PROVE ProcInv'
  BY <1>18 DEF bget_recycle, diskVars, logVars, procVars, stepVars
<1>19. ASSUME Crash PROVE ProcInv'
  <2>1. InOp' = {}
    BY <1>19 DEF Crash
  <2>2. Cardinality(InOp') = 0
    BY <2>1, FS_EmptySet
  <2>3. outstanding' = 0 /\ \A q \in Proc : pc'[q] = "idle"
    BY <1>19 DEF Crash
  <2>4. ~committing'
    BY <1>19 DEF Crash
  <2> HIDE DEF InOp
  <2> QED
    BY <2>1, <2>2, <2>3, <2>4
<1>20. ASSUME UNCHANGED vars PROVE ProcInv'
  BY <1>20 DEF vars
<1> HIDE DEF ProcInv
<1> QED BY <1>1, <1>2, <1>3, <1>4, <1>5, <1>6, <1>7, <1>8, <1>9, <1>10, <1>11,
       <1>12, <1>13, <1>14, <1>15, <1>16, <1>17, <1>18, <1>19, <1>20 DEF Next,
       Syscall, Commit, Boot

\* Nobody falls asleep, or stays asleep, without a waker.
LEMMA SleeperStep == LogInv /\ [Next]_vars => SleeperHasWaker'
<1> SUFFICES ASSUME LogInv, [Next]_vars PROVE SleeperHasWaker'
  OBVIOUS
<1>0. IsFiniteSet(InOp) /\ outstanding \in Nat /\ (outstanding = 0 <=> InOp = {})
  BY InOpFacts
<1> USE LogConstants DEF LogInv, TypeOK, SleeperHasWaker, ProcInv, HeadInv, InOp
<1>1. ASSUME NEW p \in Proc, Call(p) PROVE SleeperHasWaker'
  BY <1>1 DEF Call, diskVars, logVars, bufVars, stepVars
<1>2. ASSUME NEW p \in Proc, begin_op_sleep(p) PROVE SleeperHasWaker'
  <2>1. ~committing => outstanding > 0
    <3>1. SUFFICES ASSUME ~committing, outstanding = 0 PROVE FALSE
      BY <1>0
    <3>2. lh = <<>>
      BY <1>0, <1>2, <3>1 DEF begin_op_sleep
    <3>3. Len(lh) + (outstanding + 1) * MAXOPBLOCKS = MAXOPBLOCKS
      BY <3>1, <3>2
    <3> QED
      BY <1>2, <3>1, <3>3 DEF begin_op_sleep, MustWait
  <2> QED
    BY <1>2, <2>1 DEF begin_op_sleep, logVars
<1>3. ASSUME NEW p \in Proc, begin_op(p) PROVE SleeperHasWaker'
  BY <1>3 DEF begin_op, diskVars, bufVars, stepVars
<1>4. ASSUME NEW p \in Proc, NEW b \in Block, NEW v \in Data,
             log_write_check(p, b, v)
      PROVE SleeperHasWaker'
  BY <1>4 DEF log_write_check, diskVars, logVars, stepVars
<1>5. ASSUME NEW p \in Proc, log_write(p) PROVE SleeperHasWaker'
  BY <1>5 DEF log_write, diskVars, stepVars
<1>6. ASSUME NEW p \in Proc, end_op(p) PROVE SleeperHasWaker'
  BY <1>6 DEF end_op, diskVars, bufVars, stepVars
<1>7. ASSUME NEW p \in Proc, end_op_commit(p) PROVE SleeperHasWaker'
  BY <1>7 DEF end_op_commit, diskVars, bufVars
<1>8. ASSUME write_log PROVE SleeperHasWaker'
  BY <1>8 DEF write_log, bufVars, logVars, procVars
<1>9. ASSUME write_log_done PROVE SleeperHasWaker'
  BY <1>9 DEF write_log_done, diskVars, logVars, bufVars, procVars
<1>10. ASSUME write_head PROVE SleeperHasWaker'
  BY <1>10 DEF write_head, logVars, bufVars, procVars
<1>11. ASSUME install_trans PROVE SleeperHasWaker'
  BY <1>11 DEF install_trans, logVars, procVars
<1>12. ASSUME install_trans_done PROVE SleeperHasWaker'
  BY <1>12 DEF install_trans_done, diskVars, logVars, bufVars, procVars
<1>13. ASSUME write_head_clear PROVE SleeperHasWaker'
  BY <1>13 DEF write_head_clear, bufVars, procVars
<1>14. ASSUME NEW p \in Proc, end_op_finish(p) PROVE SleeperHasWaker'
  BY <1>14 DEF end_op_finish, diskVars, bufVars
<1>15. ASSUME read_head PROVE SleeperHasWaker'
  BY <1>15 DEF read_head, diskVars, bufVars, procVars
<1>16. ASSUME initlog_done PROVE SleeperHasWaker'
  BY <1>16 DEF initlog_done, diskVars, logVars, bufVars, procVars
<1>17. ASSUME NEW b \in Block, bread(b) PROVE SleeperHasWaker'
  BY <1>17 DEF bread, diskVars, logVars, procVars, stepVars
<1>18. ASSUME NEW b \in Block, bget_recycle(b) PROVE SleeperHasWaker'
  BY <1>18 DEF bget_recycle, diskVars, logVars, procVars, stepVars
<1>19. ASSUME Crash PROVE SleeperHasWaker'
  BY <1>19 DEF Crash, diskVars
<1>20. ASSUME UNCHANGED vars PROVE SleeperHasWaker'
  BY <1>20 DEF vars
<1> HIDE DEF SleeperHasWaker
<1> QED BY <1>1, <1>2, <1>3, <1>4, <1>5, <1>6, <1>7, <1>8, <1>9, <1>10, <1>11,
       <1>12, <1>13, <1>14, <1>15, <1>16, <1>17, <1>18, <1>19, <1>20 DEF Next,
       Syscall, Commit, Boot

\* begin_op()'s reservation covers what the calls in progress still log.
LEMMA BudgetStep == LogInv /\ [Next]_vars => BudgetInv'
<1> SUFFICES ASSUME LogInv, [Next]_vars PROVE BudgetInv'
  OBVIOUS
<1>0. IsFiniteSet(InOp) /\ outstanding \in Nat /\ (outstanding = 0 <=> InOp = {})
  BY InOpFacts
<1>a. ProcInv'
  BY ProcStep
<1>b. \A q \in Proc : IsFiniteSet(wset[q]) /\ Cardinality(wset[q]) \in Nat
  BY LogConstants, FS_Subset, FS_CardinalityType DEF LogInv, TypeOK
<1>c. TypeOK'
  BY TypeStep DEF LogInv
<1> USE LogConstants DEF LogInv, TypeOK, BudgetInv, ProcInv, HeadInv, InOp
<1>1. ASSUME NEW p \in Proc, Call(p) PROVE BudgetInv'
  <2>1. InOp' = InOp /\ wset' = wset /\ lh' = lh
    BY <1>1 DEF Call, logVars
  <2>2. Unused' = Unused
    BY <2>1 DEF Unused
  <2>3. \A q \in Proc : pc'[q] = "checked" => pc[q] = "checked" /\ tgt'[q] = tgt[q]
    BY <1>1 DEF Call, logVars
  <2> HIDE DEF InOp
  <2> QED
    BY <2>1, <2>2, <2>3
<1>2. ASSUME NEW p \in Proc, begin_op_sleep(p) PROVE BudgetInv'
  <2>1. InOp' = InOp /\ wset' = wset /\ lh' = lh
    BY <1>2 DEF begin_op_sleep, logVars
  <2>2. Unused' = Unused
    BY <2>1 DEF Unused
  <2>3. \A q \in Proc : pc'[q] = "checked" => pc[q] = "checked" /\ tgt'[q] = tgt[q]
    BY <1>2 DEF begin_op_sleep, logVars
  <2> HIDE DEF InOp
  <2> QED
    BY <2>1, <2>2, <2>3
<1>3. ASSUME NEW p \in Proc, begin_op(p) PROVE BudgetInv'
  <2>1. InOp' = InOp \cup {p} /\ p \notin InOp
    BY <1>3 DEF begin_op
  <2> HIDE DEF InOp
  <2>2. IsFiniteSet(InOp')
    BY <1>0, <2>1, FS_AddElement
  <2>3. Unused' = UnusedOf(InOp', wset')
    BY DEF Unused, UnusedOf
  <2>4. /\ Cardinality(Unused') =< Cardinality(InOp') * MAXOPBLOCKS
        /\ Cardinality(Unused') \in Nat
    BY <2>2, <2>3, UnusedAtMost
  <2>5. Cardinality(InOp') = outstanding + 1
    BY <1>3, <1>a DEF begin_op
  <2>6. Len(lh) + (outstanding + 1) * MAXOPBLOCKS =< LOGSIZE
    <3>1. (outstanding + 1) * MAXOPBLOCKS \in Nat
      BY <1>0
    <3> QED
      BY <1>3, <3>1 DEF begin_op, MustWait
  <2>7. Len(lh') + Cardinality(Unused') =< LOGSIZE
    <3>1. lh' = lh
      BY <1>3 DEF begin_op
    <3> QED
      BY <2>4, <2>5, <2>6, <3>1, <1>0
  <2>8. wset'[p] = {} /\ \A q \in Proc \ {p} : wset'[q] = wset[q]
    BY <1>3 DEF begin_op
  <2>9. Cardinality({}) = 0
    BY FS_EmptySet
  <2>10. \A q \in InOp' : /\ wset'[q] \subseteq Entries(lh')
                          /\ Cardinality(wset'[q]) =< OPWRITES
    <3>1. lh' = lh
      BY <1>3 DEF begin_op
    <3> SUFFICES ASSUME NEW q \in InOp'
                 PROVE  /\ wset'[q] \subseteq Entries(lh')
                        /\ Cardinality(wset'[q]) =< OPWRITES
      OBVIOUS
    <3>2. CASE q = p
      <4>1. wset'[q] = {} /\ Cardinality(wset'[q]) = 0
        BY <2>8, <2>9, <3>2
      <4> QED
        BY <4>1
    <3>3. CASE q # p
      <4>1. q \in InOp
        BY <2>1, <3>3
      <4>2. wset'[q] = wset[q]
        BY <2>8, <3>3, <4>1 DEF InOp
      <4> QED
        BY <3>1, <4>1, <4>2
    <3> QED
      BY <3>2, <3>3
  <2>11. \A q \in Proc : pc'[q] = "checked" =>
            pc[q] = "checked" /\ tgt'[q] = tgt[q] /\ wset'[q] = wset[q]
    BY <1>3 DEF begin_op
  <2> QED
    BY <2>7, <2>10, <2>11
<1>4. ASSUME NEW p \in Proc, NEW b \in Block, NEW v \in Data,
             log_write_check(p, b, v)
      PROVE BudgetInv'
  <2>1. InOp' = InOp /\ wset' = wset /\ lh' = lh
    BY <1>4 DEF log_write_check, logVars
  <2>2. Unused' = Unused
    BY <2>1 DEF Unused
  <2>3. \A q \in Proc : pc'[q] = "checked" =>
           \/ pc[q] = "checked" /\ tgt'[q] = tgt[q]
           \/ q = p /\ tgt'[q] = b
    BY <1>4 DEF log_write_check
  <2>4. Cardinality(wset[p] \cup {b}) =< OPWRITES
    BY <1>4 DEF log_write_check
  <2> HIDE DEF InOp
  <2> QED
    BY <2>1, <2>2, <2>3, <2>4
<1>5. ASSUME NEW p \in Proc, log_write(p) PROVE BudgetInv'
  <2> DEFINE t == tgt[p]
             c == Cardinality(wset[p])
  <2>1. InOp' = InOp /\ p \in InOp /\ t \in Block
    BY <1>5 DEF log_write
  <2>2. wset' = [wset EXCEPT ![p] = @ \cup {t}]
    BY <1>5 DEF log_write
  <2>3. Entries(lh') = Entries(lh) \cup {t}
    BY <1>5, <2>1, EntriesAppend DEF log_write
  <2>4. Cardinality(wset[p] \cup {t}) =< OPWRITES
    BY <1>5 DEF log_write
  <2>5. /\ Cardinality(wset[p] \cup {t}) \in Nat
        /\ Cardinality(wset[p] \cup {t}) = IF t \in wset[p] THEN c ELSE c + 1
    <3>1. IsFiniteSet(wset[p])
      BY <1>b
    <3>2. /\ IsFiniteSet(wset[p] \cup {t})
          /\ Cardinality(wset[p] \cup {t}) = IF t \in wset[p] THEN c ELSE c + 1
      BY <3>1, FS_AddElement
    <3> QED
      BY <3>2, FS_CardinalityType
  <2>6. wset'[p] = wset[p] \cup {t} /\ \A q \in Proc \ {p} : wset'[q] = wset[q]
    BY <2>2
  <2>7. \A q \in InOp' : /\ wset'[q] \subseteq Entries(lh')
                         /\ Cardinality(wset'[q]) =< OPWRITES
    <3>1. \A q \in InOp : q \in Proc
      OBVIOUS
    <3> HIDE DEF InOp
    <3> QED
      BY <2>1, <2>3, <2>4, <2>6, <3>1
  <2> HIDE DEF InOp
  <2>8. IsFiniteSet(Unused) /\ Cardinality(Unused) \in Nat
    <3>1. Unused = UnusedOf(InOp, wset)
      BY DEF Unused, UnusedOf
    <3> QED
      BY <1>0, <3>1, UnusedAtMost
  <2>9. \A q \in Proc : Cardinality(wset'[q]) \in Nat
                        /\ Cardinality(wset'[q]) >= Cardinality(wset[q])
    <3> SUFFICES ASSUME NEW q \in Proc
                 PROVE  /\ Cardinality(wset'[q]) \in Nat
                        /\ Cardinality(wset'[q]) >= Cardinality(wset[q])
      OBVIOUS
    <3>1. CASE q = p
      <4>1. wset'[q] = wset[p] \cup {t} /\ wset[q] = wset[p]
        BY <2>6, <3>1
      <4>2. c \in Nat
        BY <1>b
      <4>3. Cardinality(wset[p] \cup {t}) >= c
        BY <2>5, <4>2
      <4> QED
        BY <2>5, <4>1, <4>3
    <3>2. CASE q # p
      BY <1>b, <2>6, <3>2
    <3> QED
      BY <3>1, <3>2
  <2>10. Unused' \in SUBSET Unused
    <3>1. \A q \in InOp : q \in Proc
      BY DEF InOp
    <3> QED
      BY <1>b, <2>1, <2>9, <3>1 DEF Unused
  <2>11. IsFiniteSet(Unused') /\ Cardinality(Unused') =< Cardinality(Unused)
         /\ Cardinality(Unused') \in Nat
    BY <2>8, <2>10, FS_Subset, FS_CardinalityType
  <2>12. Len(lh') + Cardinality(Unused') =< LOGSIZE
    <3>1. Len(lh) + Cardinality(Unused) =< LOGSIZE
      BY <2>1
    <3>2. CASE t \in Entries(lh)
      <4>1. lh' = lh
        BY <1>5, <3>2 DEF log_write
      <4> QED
        BY <2>8, <2>11, <3>1, <4>1
    <3>3. CASE t \notin Entries(lh)
      <4>1. lh' = Append(lh, t)
        BY <1>5, <3>3 DEF log_write
      <4>2. Len(lh') = Len(lh) + 1
        BY <2>1, <4>1
      <4>3. t \notin wset[p]
        BY <2>1, <3>3
      <4>4. Cardinality(wset'[p]) = c + 1 /\ c + 1 =< OPWRITES
        BY <2>4, <2>5, <2>6, <4>3
      <4>5. <<p, c + 1>> \in Unused
        <5>1. c \in Nat /\ c + 1 \in 1..MAXOPBLOCKS
          BY <1>b, <4>4
        <5>2. <<p, c + 1>> \in InOp \X (1..MAXOPBLOCKS)
          BY <2>1, <5>1
        <5> QED
          BY <5>1, <5>2 DEF Unused
      <4>6. <<p, c + 1>> \notin Unused'
        BY <1>b, <4>4 DEF Unused
      <4>7. PICK x \in Unused : x \notin Unused'
        BY <4>5, <4>6
      <4>8. Unused' \in SUBSET (Unused \ {x})
        BY <2>10, <4>7
      <4>9. /\ IsFiniteSet(Unused \ {x})
            /\ Cardinality(Unused \ {x}) = Cardinality(Unused) - 1
        BY <2>8, <4>7, FS_RemoveElement
      <4>10. Cardinality(Unused') =< Cardinality(Unused) - 1
        BY <4>8, <4>9, FS_Subset
      <4> QED
        BY <2>8, <2>11, <3>1, <4>2, <4>10
    <3> QED
      BY <3>2, <3>3
  <2>13. \A q \in Proc : pc'[q] = "checked" =>
            pc[q] = "checked" /\ tgt'[q] = tgt[q] /\ wset'[q] = wset[q]
    BY <1>5, <2>6 DEF log_write
  <2> QED
    BY <2>7, <2>12, <2>13
<1>6. ASSUME NEW p \in Proc, end_op(p) PROVE BudgetInv'
  <2>1. InOp' = InOp \ {p} /\ wset' = wset /\ lh' = lh
    BY <1>6 DEF end_op
  <2> HIDE DEF InOp
  <2>2. IsFiniteSet(Unused) /\ Cardinality(Unused) \in Nat
    <3>1. Unused = UnusedOf(InOp, wset)
      BY DEF Unused, UnusedOf
    <3> QED
      BY <1>0, <3>1, UnusedAtMost
  <2>3. Unused' \in SUBSET Unused
    BY <2>1 DEF Unused
  <2>4. Cardinality(Unused') =< Cardinality(Unused) /\ Cardinality(Unused') \in Nat
    BY <2>2, <2>3, FS_Subset, FS_CardinalityType
  <2>5. \A q \in Proc : pc'[q] = "checked" => pc[q] = "checked" /\ tgt'[q] = tgt[q]
    BY <1>6 DEF end_op
  <2>6. InOp' # {} => InOp # {}
    BY <2>1
  <2> QED
    BY <2>1, <2>2, <2>4, <2>5, <2>6
<1>7. ASSUME NEW p \in Proc, end_op_commit(p) PROVE BudgetInv'
  <2>1. InOp' = {}
    BY <1>7, <1>a DEF end_op_commit
  <2>2. \A q \in Proc : pc'[q] # "checked"
    BY <2>1
  <2> HIDE DEF InOp
  <2> QED
    BY <2>1, <2>2
<1>8. ASSUME write_log PROVE BudgetInv'
  BY <1>8 DEF write_log, bufVars, logVars, procVars
<1>9. ASSUME write_log_done PROVE BudgetInv'
  BY <1>9 DEF write_log_done, diskVars, logVars, bufVars, procVars
<1>10. ASSUME write_head PROVE BudgetInv'
  BY <1>10 DEF write_head, logVars, bufVars, procVars
<1>11. ASSUME install_trans PROVE BudgetInv'
  BY <1>11 DEF install_trans, logVars, procVars
<1>12. ASSUME install_trans_done PROVE BudgetInv'
  BY <1>12 DEF install_trans_done, diskVars, logVars, bufVars, procVars
<1>13. ASSUME write_head_clear PROVE BudgetInv'
  BY <1>13 DEF write_head_clear, bufVars, procVars
<1>14. ASSUME NEW p \in Proc, end_op_finish(p) PROVE BudgetInv'
  <2>1. InOp' = InOp /\ wset' = wset /\ lh' = lh
    BY <1>14 DEF end_op_finish
  <2>2. Unused' = Unused
    BY <2>1 DEF Unused
  <2>3. \A q \in Proc : pc'[q] = "checked" => pc[q] = "checked" /\ tgt'[q] = tgt[q]
    BY <1>14 DEF end_op_finish
  <2> HIDE DEF InOp
  <2> QED
    BY <2>1, <2>2, <2>3
<1>15. ASSUME read_head PROVE BudgetInv'
  BY <1>15 DEF read_head, diskVars, bufVars, procVars
<1>16. ASSUME initlog_done PROVE BudgetInv'
  BY <1>16 DEF initlog_done, diskVars, logVars, bufVars, procVars
<1>17. ASSUME NEW b \in Block, bread(b) PROVE BudgetInv'
  <2>1. InOp' = InOp /\ wset' = wset /\ lh' = lh
    BY <1>17 DEF bread, logVars, procVars
  <2>2. Unused' = Unused
    BY <2>1 DEF Unused
  <2>3. \A q \in Proc : pc'[q] = "checked" => pc[q] = "checked" /\ tgt'[q] = tgt[q]
    BY <1>17 DEF bread, logVars, procVars
  <2> HIDE DEF InOp
  <2> QED
    BY <2>1, <2>2, <2>3
<1>18. ASSUME NEW b \in Block, bget_recycle(b) PROVE BudgetInv'
  <2>1. InOp' = InOp /\ wset' = wset /\ lh' = lh
    BY <1>18 DEF bget_recycle, logVars, procVars
  <2>2. Unused' = Unused
    BY <2>1 DEF Unused
  <2>3. \A q \in Proc : pc'[q] = "checked" => pc[q] = "checked" /\ tgt'[q] = tgt[q]
    BY <1>18 DEF bget_recycle, logVars, procVars
  <2> HIDE DEF InOp
  <2> QED
    BY <2>1, <2>2, <2>3
<1>19. ASSUME Crash PROVE BudgetInv'
  BY <1>19 DEF Crash, diskVars
<1>20. ASSUME UNCHANGED vars PROVE BudgetInv'
  <2>1. InOp' = InOp /\ wset' = wset /\ lh' = lh
    BY <1>20 DEF vars
  <2>2. Unused' = Unused
    BY <2>1 DEF Unused
  <2>3. \A q \in Proc : pc'[q] = "checked" => pc[q] = "checked" /\ tgt'[q] = tgt[q]
    BY <1>20 DEF vars
  <2> HIDE DEF InOp
  <2> QED
    BY <2>1, <2>2, <2>3
<1> HIDE DEF BudgetInv
<1> QED BY <1>1, <1>2, <1>3, <1>4, <1>5, <1>6, <1>7, <1>8, <1>9, <1>10, <1>11,
       <1>12, <1>13, <1>14, <1>15, <1>16, <1>17, <1>18, <1>19, <1>20 DEF Next,
       Syscall, Commit, Boot

\* The headers agree with the phase, and the log on disk has room for them.
LEMMA HeadStep ==
  ASSUME LogRoom
  PROVE  LogInv /\ [Next]_vars => HeadInv'
<1> SUFFICES ASSUME LogInv, [Next]_vars PROVE HeadInv'
  OBVIOUS
<1>0. IsFiniteSet(InOp) /\ outstanding \in Nat /\ (outstanding = 0 <=> InOp = {})
  BY InOpFacts
<1>a. BudgetInv'
  BY BudgetStep
<1>c. TypeOK'
  BY TypeStep DEF LogInv
<1> USE LogConstants DEF LogInv, TypeOK, HeadInv, ProcInv, InOp
<1>1. ASSUME NEW p \in Proc, Call(p) PROVE HeadInv'
  BY <1>1 DEF Call, diskVars, logVars, bufVars, stepVars
<1>2. ASSUME NEW p \in Proc, begin_op_sleep(p) PROVE HeadInv'
  BY <1>2 DEF begin_op_sleep, diskVars, logVars, bufVars, stepVars
<1>3. ASSUME NEW p \in Proc, begin_op(p) PROVE HeadInv'
  BY <1>3 DEF begin_op, diskVars, bufVars, stepVars
<1>4. ASSUME NEW p \in Proc, NEW b \in Block, NEW v \in Data,
             log_write_check(p, b, v)
      PROVE HeadInv'
  BY <1>4 DEF log_write_check, diskVars, logVars, stepVars
<1>5. ASSUME NEW p \in Proc, log_write(p) PROVE HeadInv'
  <2>1. InOp' = InOp /\ p \in InOp /\ tgt[p] \in Block
    BY <1>5 DEF log_write
  <2>2. Distinct(lh')
    BY <1>5, <2>1, DistinctAppend DEF log_write
  <2>3. ~committing /\ mode # "boot"
    BY <1>5, <2>1 DEF log_write
  <2>4. phase = "none" /\ dhead = <<>>
    BY <2>3
  <2>5. Len(lh') =< NLOG - 1
    <3> HIDE DEF InOp
    <3>1. Cardinality(wset'[p]) =< OPWRITES
      BY <1>a, <2>1 DEF BudgetInv
    <3>2. Cardinality(wset'[p]) \in Nat
      BY <1>c, FS_Subset, FS_CardinalityType
    <3>3. Unused' = UnusedOf(InOp', wset')
      BY DEF Unused, UnusedOf
    <3>4. IsFiniteSet(InOp')
      BY <1>0, <2>1
    <3>5. Cardinality(Unused') >= MAXOPBLOCKS - OPWRITES
      BY <2>1, <3>1, <3>2, <3>3, <3>4, UnusedAtLeast
    <3>6. Cardinality(Unused') \in Nat
      BY <3>3, <3>4, UnusedAtMost
    <3>7. Len(lh') + Cardinality(Unused') =< LOGSIZE
      BY <1>a, <2>1 DEF BudgetInv
    <3> QED
      BY <1>c, <3>5, <3>6, <3>7 DEF LogRoom
  <2> HIDE DEF InOp
  <2> QED
    BY <1>5, <2>1, <2>2, <2>3, <2>4, <2>5 DEF log_write, diskVars, stepVars
<1>6. ASSUME NEW p \in Proc, end_op(p) PROVE HeadInv'
  <2>1. p \in InOp /\ ~committing /\ phase = "none"
    BY <1>6 DEF end_op
  <2>2. InOp' # {}
    <3>1. InOp' = InOp \ {p}
      BY <1>6 DEF end_op
    <3> HIDE DEF InOp
    <3>2. /\ Cardinality(InOp \ {p}) = Cardinality(InOp) - 1
      BY <1>0, <2>1, FS_RemoveElement
    <3>3. Cardinality(InOp') # 0
      BY <1>0, <1>6, <3>1, <3>2 DEF end_op
    <3> QED
      BY <3>3, FS_EmptySet
  <2> HIDE DEF InOp
  <2> QED
    BY <1>6, <2>1, <2>2 DEF end_op, diskVars, stepVars
<1>7. ASSUME NEW p \in Proc, end_op_commit(p) PROVE HeadInv'
  BY <1>7 DEF end_op_commit, diskVars, bufVars
<1>8. ASSUME write_log PROVE HeadInv'
  BY <1>8 DEF write_log, bufVars, logVars, procVars
<1>9. ASSUME write_log_done PROVE HeadInv'
  BY <1>9 DEF write_log_done, diskVars, logVars, bufVars, procVars
<1>10. ASSUME write_head PROVE HeadInv'
  BY <1>10 DEF write_head, logVars, bufVars, procVars
<1>11. ASSUME install_trans PROVE HeadInv'
  BY <1>11 DEF install_trans, logVars, procVars
<1>12. ASSUME install_trans_done PROVE HeadInv'
  BY <1>12 DEF install_trans_done, diskVars, logVars, bufVars, procVars
<1>13. ASSUME write_head_clear PROVE HeadInv'
  BY <1>13 DEF write_head_clear, bufVars, procVars, Distinct
<1>14. ASSUME NEW p \in Proc, end_op_finish(p) PROVE HeadInv'
  BY <1>14 DEF end_op_finish, diskVars, bufVars
<1>15. ASSUME read_head PROVE HeadInv'
  BY <1>15 DEF read_head, diskVars, bufVars, procVars
<1>16. ASSUME initlog_done PROVE HeadInv'
  BY <1>16 DEF initlog_done, diskVars, logVars, bufVars, procVars
<1>17. ASSUME NEW b \in Block, bread(b) PROVE HeadInv'
  BY <1>17 DEF bread, diskVars, logVars, procVars, stepVars
<1>18. ASSUME NEW b \in Block, bget_recycle(b) PROVE HeadInv'
  BY <1>18 DEF bget_recycle, diskVars, logVars, procVars, stepVars
<1>19. ASSUME Crash PROVE HeadInv'
  BY <1>19 DEF Crash, diskVars, Distinct
<1>20. ASSUME UNCHANGED vars PROVE HeadInv'
  BY <1>20 DEF vars
<1> HIDE DEF HeadInv
<1> QED BY <1>1, <1>2, <1>3, <1>4, <1>5, <1>6, <1>7, <1>8, <1>9, <1>10, <1>11,
       <1>12, <1>13, <1>14, <1>15, <1>16, <1>17, <1>18, <1>19, <1>20 DEF Next,
       Syscall, Commit, Boot

\* A buffer that is neither pinned nor locked agrees with the disk.
LEMMA CacheStep == LogInv /\ [Next]_vars => CacheInv'
<1> SUFFICES ASSUME LogInv, [Next]_vars PROVE CacheInv'
  OBVIOUS
<1> USE LogConstants DEF LogInv, TypeOK, CacheInv, HeadInv, ProcInv, Locked,
          InOp, Entries
<1>1. ASSUME NEW p \in Proc, Call(p) PROVE CacheInv'
  <2>1. Locked' = Locked
    BY <1>1 DEF Call
  <2> HIDE DEF Locked
  <2> QED
    BY <1>1, <2>1 DEF Call, bufVars, diskVars, logVars, stepVars
<1>2. ASSUME NEW p \in Proc, begin_op_sleep(p) PROVE CacheInv'
  <2>1. Locked' = Locked
    BY <1>2 DEF begin_op_sleep
  <2> HIDE DEF Locked
  <2> QED
    BY <1>2, <2>1 DEF begin_op_sleep, bufVars, diskVars, logVars, stepVars
<1>3. ASSUME NEW p \in Proc, begin_op(p) PROVE CacheInv'
  BY <1>3 DEF begin_op, diskVars, bufVars, stepVars
<1>4. ASSUME NEW p \in Proc, NEW b \in Block, NEW v \in Data,
             log_write_check(p, b, v)
      PROVE CacheInv'
  <2>1. Locked' = Locked \cup {b}
    BY <1>4 DEF log_write_check
  <2> HIDE DEF Locked
  <2> QED
    BY <1>4, <2>1 DEF log_write_check, diskVars, logVars, stepVars
<1>5. ASSUME NEW p \in Proc, log_write(p) PROVE CacheInv'
  <2> DEFINE t == tgt[p]
  <2>1. t \in Block /\ t \in Locked /\ Locked' = Locked \ {t}
    BY <1>5 DEF log_write
  <2> HIDE DEF Entries
  <2>2. Entries(lh') = Entries(lh) \cup {t}
    BY <1>5, <2>1, EntriesAppend DEF log_write
  <2>3. mode' = mode /\ mode # "boot" /\ phase = "none" /\ phase' = phase
    BY <1>5 DEF log_write, stepVars
  <2>4. dirty' = dirty \cup {t} /\ buf' = buf /\ home' = home
    BY <1>5 DEF log_write, diskVars
  <2>5. dirty = Entries(lh)
    BY <2>3
  <2>6. dirty' = Entries(lh')
    BY <2>2, <2>4, <2>5
  <2> HIDE DEF Locked, Entries, t
  <2>7. \A c \in Block \ (dirty' \cup Locked') : buf'[c] \in {NoData, home'[c]}
    BY <2>1, <2>4
  <2>8. \A c \in dirty' \cup Locked' : buf'[c] # NoData
    BY <2>1, <2>4
  <2> QED
    BY <2>3, <2>6, <2>7, <2>8
<1>6. ASSUME NEW p \in Proc, end_op(p) PROVE CacheInv'
  <2>1. Locked' = Locked
    BY <1>6 DEF end_op
  <2> HIDE DEF Locked
  <2> QED
    BY <1>6, <2>1 DEF end_op, bufVars, diskVars, logVars, stepVars
<1>7. ASSUME NEW p \in Proc, end_op_commit(p) PROVE CacheInv'
  <2>1. Locked' = Locked
    BY <1>7 DEF end_op_commit
  <2>2. p \in InOp /\ ~committing /\ phase = "none"
    BY <1>7 DEF end_op_commit
  <2>3. dirty' = Entries(lh')
    BY <1>7, <2>2 DEF end_op_commit, bufVars
  <2>4. mode' # "boot" /\ phase' \in {"writelog", "finish"}
    BY <1>7 DEF end_op_commit
  <2> HIDE DEF Locked, InOp, Entries
  <2> QED
    BY <1>7, <2>1, <2>3, <2>4 DEF end_op_commit, bufVars, diskVars
<1>8. ASSUME write_log PROVE CacheInv'
  <2>1. Locked' = Locked
    BY <1>8 DEF write_log, procVars
  <2>2. tail \in Slot
    BY <1>8 DEF write_log
  <2>3. /\ UNCHANGED <<home, buf, dirty, lh, phase, mode>>
    BY <1>8, <2>2 DEF write_log, bufVars, logVars
  <2>4. phase = "writelog"
    BY <1>8 DEF write_log
  <2> HIDE DEF Locked
  <2> QED
    BY <2>1, <2>3, <2>4
<1>9. ASSUME write_log_done PROVE CacheInv'
  BY <1>9 DEF write_log_done, diskVars, logVars, bufVars, procVars
<1>10. ASSUME write_head PROVE CacheInv'
  BY <1>10 DEF write_head, logVars, bufVars, procVars
<1>11. ASSUME install_trans PROVE CacheInv'
  <2> DEFINE t == lh[tail]
             d == IF tail \in Slot THEN dlog[tail] ELSE Bread(AfterLog)
  <2>1. Locked' = Locked /\ Locked = {}
    BY <1>11 DEF install_trans, procVars
  <2>2. tail \in Slot /\ t \in Block
    BY <1>11 DEF install_trans
  <2>3. d \in Data /\ d # NoData
    BY <2>2
  <2>4. home' = [home EXCEPT ![t] = d] /\ buf' = [buf EXCEPT ![t] = d]
    BY <1>11 DEF install_trans
  <2>5. dirty' = dirty \ {t}
    BY <1>11 DEF install_trans
  <2>6. lh' = lh /\ tail' = tail + 1 /\ phase = "install" /\ phase' = "install"
        /\ mode' = mode /\ tail =< Len(lh)
    BY <1>11 DEF install_trans, logVars
  <2>7. dirty' = IF mode' = "boot" THEN {} ELSE {lh'[i] : i \in tail'..Len(lh')}
    <3>1. CASE mode = "boot"
      BY <2>5, <2>6, <3>1
    <3>2. CASE mode # "boot"
      <4>1. dirty = {lh[i] : i \in tail..Len(lh)}
        BY <2>6, <3>2
      <4>2. \A i \in (tail + 1)..Len(lh) : lh[i] # t
        BY <2>6 DEF Distinct
      <4>3. \A i \in tail..Len(lh) : i # tail => i \in (tail + 1)..Len(lh)
        BY <2>6
      <4> QED
        BY <2>5, <2>6, <3>2, <4>1, <4>2, <4>3
    <3> QED
      BY <3>1, <3>2
  <2> HIDE DEF Locked, t, d
  <2>8. \A c \in Block \ dirty' : buf'[c] \in {NoData, home'[c]}
    BY <2>1, <2>2, <2>3, <2>4, <2>5
  <2>9. \A c \in dirty' : buf'[c] # NoData
    BY <2>1, <2>2, <2>3, <2>4, <2>5
  <2> QED
    BY <2>1, <2>6, <2>7, <2>8, <2>9
<1>12. ASSUME install_trans_done PROVE CacheInv'
  BY <1>12 DEF install_trans_done, diskVars, logVars, bufVars, procVars
<1>13. ASSUME write_head_clear PROVE CacheInv'
  BY <1>13 DEF write_head_clear, bufVars, procVars
<1>14. ASSUME NEW p \in Proc, end_op_finish(p) PROVE CacheInv'
  <2>1. Locked' = Locked
    BY <1>14 DEF end_op_finish
  <2> HIDE DEF Locked
  <2> QED
    BY <1>14, <2>1 DEF end_op_finish, bufVars, diskVars, logVars, stepVars
<1>15. ASSUME read_head PROVE CacheInv'
  BY <1>15 DEF read_head, diskVars, bufVars, procVars
<1>16. ASSUME initlog_done PROVE CacheInv'
  BY <1>16 DEF initlog_done, diskVars, logVars, bufVars, procVars
<1>17. ASSUME NEW b \in Block, bread(b) PROVE CacheInv'
  BY <1>17 DEF bread, diskVars, logVars, procVars, stepVars
<1>18. ASSUME NEW b \in Block, bget_recycle(b) PROVE CacheInv'
  BY <1>18 DEF bget_recycle, diskVars, logVars, procVars, stepVars
<1>19. ASSUME Crash PROVE CacheInv'
  BY <1>19 DEF Crash, diskVars
<1>20. ASSUME UNCHANGED vars PROVE CacheInv'
  BY <1>20 DEF vars
<1> HIDE DEF CacheInv
<1> QED BY <1>1, <1>2, <1>3, <1>4, <1>5, <1>6, <1>7, <1>8, <1>9, <1>10, <1>11,
       <1>12, <1>13, <1>14, <1>15, <1>16, <1>17, <1>18, <1>19, <1>20 DEF Next,
       Syscall, Commit, Boot

\* The copies from cache to log and from log to home do not overtake.
LEMMA CopyStep == LogInv /\ [Next]_vars => CopyInv'
<1> SUFFICES ASSUME LogInv, [Next]_vars PROVE CopyInv'
  OBVIOUS
<1> USE LogConstants DEF LogInv, TypeOK, CopyInv, CacheInv, HeadInv, ProcInv,
          Locked, InOp, Entries
<1>1. ASSUME NEW p \in Proc, Call(p) PROVE CopyInv'
  BY <1>1 DEF Call, diskVars, logVars, bufVars, stepVars
<1>2. ASSUME NEW p \in Proc, begin_op_sleep(p) PROVE CopyInv'
  BY <1>2 DEF begin_op_sleep, diskVars, logVars, bufVars, stepVars
<1>3. ASSUME NEW p \in Proc, begin_op(p) PROVE CopyInv'
  BY <1>3 DEF begin_op, diskVars, bufVars, stepVars
<1>4. ASSUME NEW p \in Proc, NEW b \in Block, NEW v \in Data,
             log_write_check(p, b, v)
      PROVE CopyInv'
  BY <1>4 DEF log_write_check, diskVars, logVars, stepVars
<1>5. ASSUME NEW p \in Proc, log_write(p) PROVE CopyInv'
  BY <1>5 DEF log_write, diskVars, stepVars
<1>6. ASSUME NEW p \in Proc, end_op(p) PROVE CopyInv'
  BY <1>6 DEF end_op, diskVars, bufVars, stepVars
<1>7. ASSUME NEW p \in Proc, end_op_commit(p) PROVE CopyInv'
  BY <1>7 DEF end_op_commit, diskVars, bufVars
<1>8. ASSUME write_log PROVE CopyInv'
  <2>1. tail \in Slot /\ tail =< Len(lh) /\ lh[tail] \in Block
    BY <1>8 DEF write_log
  <2>2. lh[tail] \in dirty
    BY <1>8, <2>1 DEF write_log
  <2>3. Bread(lh[tail]) = buf[lh[tail]]
    BY <2>2 DEF Bread
  <2>4. /\ dlog' = [dlog EXCEPT ![tail] = buf[lh[tail]]]
        /\ UNCHANGED <<home, buf, lh, mode, phase>>
        /\ tail' = tail + 1
        /\ phase = "writelog"
    BY <1>8, <2>1, <2>3 DEF write_log, bufVars, logVars
  <2>5. \A i \in 1..(tail' - 1) : dlog'[i] = buf'[lh'[i]]
    <3>1. \A i \in 1..(tail - 1) : dlog[i] = buf[lh[i]] /\ i # tail /\ i \in Slot
      BY <2>1, <2>4
    <3>2. \A i \in 1..(tail' - 1) : i = tail \/ i \in 1..(tail - 1)
      BY <2>4
    <3> QED
      BY <2>1, <2>4, <3>1, <3>2
  <2> QED
    BY <2>4, <2>5
<1>9. ASSUME write_log_done PROVE CopyInv'
  BY <1>9 DEF write_log_done, diskVars, logVars, bufVars, procVars
<1>10. ASSUME write_head PROVE CopyInv'
  BY <1>10 DEF write_head, logVars, bufVars, procVars
<1>11. ASSUME install_trans PROVE CopyInv'
  <2>1. tail \in Slot /\ tail =< Len(lh) /\ lh[tail] \in Block
    BY <1>11 DEF install_trans
  <2>2. /\ home' = [home EXCEPT ![lh[tail]] = dlog[tail]]
        /\ buf' = [buf EXCEPT ![lh[tail]] = dlog[tail]]
        /\ UNCHANGED <<dlog, lh, mode, phase>>
        /\ tail' = tail + 1
        /\ phase = "install"
    BY <1>11, <2>1 DEF install_trans, logVars
  <2>3. \A i \in 1..Len(lh) : i # tail => lh[i] # lh[tail] /\ lh[i] \in Block
    BY <2>1 DEF Distinct
  <2>4. \A i \in 1..(tail' - 1) : home'[lh'[i]] = dlog'[i]
    <3>1. \A i \in 1..(tail' - 1) : i = tail \/ i \in 1..(tail - 1)
      BY <2>2
    <3>2. \A i \in 1..(tail - 1) : i \in 1..Len(lh) /\ i # tail
      BY <2>1
    <3> QED
      BY <2>1, <2>2, <2>3, <3>1, <3>2
  <2>5. mode' # "boot" => \A i \in tail'..Len(lh') : buf'[lh'[i]] = dlog'[i]
    <3>1. \A i \in (tail + 1)..Len(lh) : i \in 1..Len(lh) /\ i # tail
                                         /\ i \in tail..Len(lh)
      BY <2>1
    <3> QED
      BY <2>1, <2>2, <2>3, <3>1
  <2> QED
    BY <2>2, <2>4, <2>5
<1>12. ASSUME install_trans_done PROVE CopyInv'
  BY <1>12 DEF install_trans_done, diskVars, logVars, bufVars, procVars
<1>13. ASSUME write_head_clear PROVE CopyInv'
  BY <1>13 DEF write_head_clear, bufVars, procVars
<1>14. ASSUME NEW p \in Proc, end_op_finish(p) PROVE CopyInv'
  BY <1>14 DEF end_op_finish, diskVars, bufVars
<1>15. ASSUME read_head PROVE CopyInv'
  BY <1>15 DEF read_head, diskVars, bufVars, procVars
<1>16. ASSUME initlog_done PROVE CopyInv'
  BY <1>16 DEF initlog_done, diskVars, logVars, bufVars, procVars
<1>17. ASSUME NEW b \in Block, bread(b) PROVE CopyInv'
  BY <1>17 DEF bread, diskVars, logVars, procVars, stepVars
<1>18. ASSUME NEW b \in Block, bget_recycle(b) PROVE CopyInv'
  BY <1>18 DEF bget_recycle, diskVars, logVars, procVars, stepVars
<1>19. ASSUME Crash PROVE CopyInv'
  BY <1>19 DEF Crash, diskVars
<1>20. ASSUME UNCHANGED vars PROVE CopyInv'
  BY <1>20 DEF vars
<1> HIDE DEF CopyInv
<1> QED BY <1>1, <1>2, <1>3, <1>4, <1>5, <1>6, <1>7, <1>8, <1>9, <1>10, <1>11,
       <1>12, <1>13, <1>14, <1>15, <1>16, <1>17, <1>18, <1>19, <1>20 DEF Next,
       Syscall, Commit, Boot

--------------------------------------------------------------------------------
(* The invariant, and what follows from it. *)

LEMMA LogInitially == Init => LogInv
<1> SUFFICES ASSUME Init PROVE LogInv
  OBVIOUS
<1> USE LogConstants DEF Init
<1>1. InOp = {} /\ Locked = {} /\ Entries(lh) = {}
  BY DEF InOp, Locked, Entries
<1>2. Cardinality(InOp) = 0
  BY <1>1, FS_EmptySet
<1>3. TypeOK
  BY TypeInit
<1>4. ProcInv
  <2>1. outstanding = Cardinality(InOp)
    BY <1>2
  <2> QED
    BY <1>1, <2>1 DEF ProcInv
<1>5. SleeperHasWaker
  BY DEF SleeperHasWaker
<1>6. HeadInv
  BY <1>1 DEF HeadInv, Distinct
<1>7. CacheInv
  BY <1>1 DEF CacheInv
<1>8. CopyInv
  BY DEF CopyInv
<1>9. BudgetInv
  BY <1>1 DEF BudgetInv
<1> QED
  BY <1>3, <1>4, <1>5, <1>6, <1>7, <1>8, <1>9 DEF LogInv

LEMMA LogInvStep ==
  ASSUME LogRoom
  PROVE  LogInv /\ [Next]_vars => LogInv'
<1> SUFFICES ASSUME LogInv, [Next]_vars PROVE LogInv'
  OBVIOUS
<1>1. TypeOK'
  BY TypeStep DEF LogInv
<1>2. ProcInv' /\ SleeperHasWaker' /\ BudgetInv'
  BY ProcStep, SleeperStep, BudgetStep
<1>3. HeadInv' /\ CacheInv' /\ CopyInv'
  BY HeadStep, CacheStep, CopyStep
<1> QED
  BY <1>1, <1>2, <1>3 DEF LogInv

\* In any layout in which admitted calls cannot overrun the log on disk, for any
\* number of processes and blocks: who is where, what the headers say, which
\* buffers are pinned, how far the copies have come and how much of the log is
\* reserved stay consistent across calls, commits, crashes and recoveries.
THEOREM LogInvariant ==
  ASSUME LogRoom
  PROVE  Spec => []LogInv
<1>1. Init => LogInv
  BY LogInitially
<1>2. LogInv /\ [Next]_vars => LogInv'
  BY LogInvStep
<1> QED
  BY <1>1, <1>2, PTL DEF Spec

\* Nobody sleeps in begin_op() without a call or a commit that will wake it.
THEOREM LogSleepers ==
  ASSUME LogRoom
  PROVE  Spec => []SleeperHasWaker
<1>1. LogInv => SleeperHasWaker
  BY DEF LogInv
<1> QED
  BY <1>1, LogInvariant, PTL

\* The header in memory never outgrows the log on disk, although log_write()
\* tests its size before it takes log.lock (log.c:218, 223).
THEOREM LogNeverOverrun ==
  ASSUME LogRoom
  PROVE  Spec => []LogFits
<1>1. LogInv => LogFits
  BY DEF LogInv, HeadInv, LogFits
<1> QED
  BY <1>1, LogInvariant, PTL

\* A block's home location is written only while the header on disk names the
\* block (log.c:193-202).
THEOREM LogWriteAhead ==
  ASSUME LogRoom
  PROVE  Spec => WriteAhead
<1>1. LogInv /\ [Next]_vars => [HomeWriteNamed]_vars
  <2> SUFFICES ASSUME LogInv, Next PROVE HomeWriteNamed
    OBVIOUS
  <2> USE LogConstants DEF LogInv, TypeOK, HeadInv, HomeWriteNamed
  <2>1. CASE write_log
    BY <2>1 DEF write_log, Slot
  <2>2. CASE install_trans
    <3>1. tail \in 1..Len(dhead) /\ dhead = lh /\ lh[tail] \in Block
      BY <2>2 DEF install_trans
    <3>2. lh[tail] \in Entries(dhead)
      BY <3>1 DEF Entries
    <3>3. \A b \in Block : b # lh[tail] => home'[b] = home[b]
      BY <2>2, <3>1 DEF install_trans
    <3> QED
      BY <3>2, <3>3
  <2>3. CASE ~write_log /\ ~install_trans
    <3>1. home' = home
      BY <2>3 DEF Next, Syscall, Commit, Boot, Call, begin_op_sleep, begin_op,
            log_write_check, log_write, end_op, end_op_commit, write_log_done,
            write_head, install_trans_done, write_head_clear, end_op_finish,
            read_head, initlog_done, bread, bget_recycle, Crash, diskVars
    <3> QED
      BY <3>1
  <2> QED
    BY <2>1, <2>2, <2>3
<1> QED
  BY <1>1, LogInvariant, PTL DEF Spec, WriteAhead

\* If calls leave at least one block of their reservation unused, and two where
\* the log on disk is as short as mkfs makes it, no call reaches a panic() of
\* log.c: not "too big a transaction", not "log_write outside of trans", not
\* "log.committing" (log.c:152, 218-221).
THEOREM LogNoPanic ==
  ASSUME PanicRoom
  PROVE  Spec => []NoPanic
<1>0. LogRoom
  BY LogConstants DEF PanicRoom, LogRoom
<1>1. Init => NoPanic
  BY DEF Init, NoPanic
<1>2. LogInv /\ NoPanic /\ [Next]_vars => NoPanic'
  <2> SUFFICES ASSUME LogInv, NoPanic, [Next]_vars PROVE NoPanic'
    OBVIOUS
  <2>1. ASSUME NEW p \in Proc, NEW b \in Block, NEW v \in Data,
               log_write_check(p, b, v)
        PROVE NoPanic'
    <3>1. p \in InOp
      BY <2>1 DEF log_write_check, InOp
    <3>2. IsFiniteSet(InOp) /\ outstanding \in Nat /\ outstanding # 0
      BY <3>1, InOpFacts
    <3>3. wset[p] \in SUBSET Block /\ Cardinality(wset[p]) =< OPWRITES
      BY <3>1 DEF LogInv, TypeOK, BudgetInv
    <3>4. Cardinality(wset[p]) \in Nat
      BY <3>3, LogConstants, FS_Subset, FS_CardinalityType
    <3>5. /\ Cardinality(UnusedOf(InOp, wset)) >= MAXOPBLOCKS - OPWRITES
          /\ Cardinality(UnusedOf(InOp, wset)) \in Nat
      BY <3>1, <3>2, <3>3, <3>4, UnusedAtLeast, UnusedAtMost
    <3>6. Len(lh) + Cardinality(UnusedOf(InOp, wset)) =< LOGSIZE
      <4>1. UnusedOf(InOp, wset) = Unused
        BY DEF Unused, UnusedOf
      <4> QED
        BY <3>1, <4>1 DEF LogInv, BudgetInv
    <3>7. Len(lh) \in Nat
      BY DEF LogInv, TypeOK
    <3>8. Len(lh) < LOGSIZE /\ Len(lh) < NLOG - 1 /\ outstanding >= 1
      BY <3>2, <3>5, <3>6, <3>7, LogConstants DEF PanicRoom
    <3>9. mode' = mode
      BY <2>1, <3>2, <3>7, <3>8, LogConstants DEF log_write_check, PanicIf
    <3> QED
      BY <3>9 DEF NoPanic
  <2>2. ASSUME NEW p \in Proc, end_op(p) \/ end_op_commit(p) PROVE NoPanic'
    <3>1. p \in InOp
      BY <2>2 DEF end_op, end_op_commit, InOp
    <3>2. ~committing
      BY <3>1 DEF LogInv, ProcInv
    <3> QED
      BY <2>2, <3>2 DEF end_op, end_op_commit, PanicIf, NoPanic
  <2>3. CASE \A p \in Proc : /\ ~end_op(p) /\ ~end_op_commit(p)
                             /\ \A b \in Block, v \in Data :
                                  ~log_write_check(p, b, v)
    BY <2>3 DEF Next, Syscall, Commit, Boot, Call, begin_op_sleep, begin_op,
          log_write, write_log, write_log_done, write_head, install_trans,
          install_trans_done, write_head_clear, end_op_finish, read_head,
          initlog_done, bread, bget_recycle, Crash, vars, NoPanic
  <2> QED
    BY <2>1, <2>2, <2>3
<1> QED
  BY <1>0, <1>1, <1>2, LogInvariant, PTL DEF Spec

--------------------------------------------------------------------------------
(* log.c implements AtomicFs. *)

LEMMA RecoveredEmpty ==
  ASSUME TypeOK, dhead = <<>>
  PROVE  Recovered = home
<1>1. Entries(dhead) = {}
  BY DEF Entries
<1> QED
  BY <1>1 DEF Recovered, TypeOK

\* Once nothing is pinned or locked, the kernel sees what is on disk.
LEMMA CleanView ==
  ASSUME LogInv, dirty = {}, Locked = {}
  PROVE  \A b \in Block : Bread(b) = home[b]
  BY DEF LogInv, CacheInv, Bread

LEMMA LogStepRefines ==
  ASSUME LogInv, LogInv', [Next]_vars
  PROVE  [Abs!ANext]_(Abs!avars)
<1> USE LogConstants DEF LogInv, TypeOK
<1> DEFINE Stutter == UNCHANGED <<View, Recovered, InOp>>
<1>a. ASSUME UNCHANGED diskVars PROVE UNCHANGED Recovered
  BY <1>a DEF diskVars, Recovered
<1>b. ASSUME UNCHANGED <<home, buf>>, mode # "boot", mode' # "boot"
      PROVE UNCHANGED View
  BY <1>b DEF View, Bread
<1>c. ASSUME UNCHANGED Recovered, mode = "boot", mode' = "boot"
      PROVE UNCHANGED View
  BY <1>c DEF View
<1>d. ASSUME UNCHANGED pc PROVE UNCHANGED InOp
  BY <1>d DEF InOp
<1>1. ASSUME NEW p \in Proc, Call(p) PROVE Stutter
  <2>1. UNCHANGED Recovered
    BY <1>1, <1>a DEF Call
  <2>2. UNCHANGED View
    BY <1>1, <1>b DEF Call, diskVars, bufVars
  <2>3. UNCHANGED InOp
    BY <1>1 DEF Call, Goto, InOp
  <2> QED
    BY <2>1, <2>2, <2>3
<1>2. ASSUME NEW p \in Proc, begin_op_sleep(p) PROVE Stutter
  <2>1. UNCHANGED Recovered
    BY <1>2, <1>a DEF begin_op_sleep
  <2>2. UNCHANGED View
    BY <1>2, <1>b DEF begin_op_sleep, diskVars, bufVars
  <2>3. UNCHANGED InOp
    BY <1>2 DEF begin_op_sleep, Goto, InOp
  <2> QED
    BY <2>1, <2>2, <2>3
<1>3. ASSUME NEW p \in Proc, begin_op(p) PROVE Abs!ABegin(p)
  <2>1. UNCHANGED Recovered
    BY <1>3, <1>a DEF begin_op
  <2>2. UNCHANGED View
    BY <1>3, <1>b DEF begin_op, diskVars, bufVars
  <2>3. p \notin InOp /\ InOp' = InOp \cup {p}
    BY <1>3 DEF begin_op, Goto, InOp
  <2>4. ASSUME InOp = {} PROVE View = Recovered
    <3>1. mode # "boot" /\ phase = "none"
      BY <1>3 DEF begin_op, MustWait, HeadInv
    <3>2. lh = <<>> /\ dhead = <<>>
      BY <2>4, <3>1 DEF HeadInv
    <3>3. dirty = {} /\ Locked = {}
      BY <2>4, <3>1, <3>2 DEF CacheInv, Entries, Locked, InOp
    <3>4. Recovered = home
      BY <3>2, RecoveredEmpty
    <3>5. \A b \in Block : Bread(b) = home[b]
      BY <3>3, CleanView
    <3> QED
      BY <3>1, <3>4, <3>5 DEF View
  <2> QED
    BY <2>1, <2>2, <2>3, <2>4 DEF Abs!ABegin
<1>4. ASSUME NEW p \in Proc, NEW b \in Block, NEW v \in Data,
             log_write_check(p, b, v)
      PROVE Abs!AWrite(p, b, v)
  <2>1. UNCHANGED Recovered
    BY <1>4, <1>a DEF log_write_check
  <2>2. p \in InOp /\ InOp' = InOp
    BY <1>4 DEF log_write_check, Goto, InOp
  <2>3. mode # "boot" /\ mode' # "boot" /\ home' = home
        /\ buf' = [buf EXCEPT ![b] = v] /\ v # NoData
    BY <1>4 DEF log_write_check, PanicIf, diskVars
  <2>4. View' = [View EXCEPT ![b] = v]
    BY <2>3 DEF View, Bread
  <2> QED
    BY <2>1, <2>2, <2>4 DEF Abs!AWrite
<1>5. ASSUME NEW p \in Proc, log_write(p) PROVE Stutter
  <2>1. UNCHANGED Recovered
    BY <1>5, <1>a DEF log_write
  <2>2. UNCHANGED View
    BY <1>5, <1>b DEF log_write, diskVars
  <2>3. UNCHANGED InOp
    BY <1>5 DEF log_write, Goto, InOp
  <2> QED
    BY <2>1, <2>2, <2>3
<1>6. ASSUME NEW p \in Proc, end_op(p) \/ end_op_commit(p) PROVE Abs!AEnd(p)
  <2>1. UNCHANGED Recovered
    BY <1>6, <1>a DEF end_op, end_op_commit
  <2>2. UNCHANGED View
    BY <1>6, <1>b DEF end_op, end_op_commit, PanicIf, diskVars, bufVars
  <2>3. p \in InOp /\ InOp' = InOp \ {p}
    BY <1>6 DEF end_op, end_op_commit, Goto, Wakeup, InOp
  <2> QED
    BY <2>1, <2>2, <2>3 DEF Abs!AEnd
<1>8. ASSUME write_log PROVE Stutter
  <2>1. tail \in Slot /\ mode # "boot" /\ dhead = <<>>
    BY <1>8 DEF write_log, HeadInv, Slot
  <2>2. UNCHANGED <<home, buf, dhead, mode, pc>>
    BY <1>8, <2>1 DEF write_log, bufVars, procVars
  <2>3. Recovered = home /\ Recovered' = home'
    <3>1. Recovered = home
      BY <2>1, RecoveredEmpty
    <3>2. Entries(dhead') = {}
      BY <2>1, <2>2 DEF Entries
    <3>3. Recovered' = home'
      BY <2>2, <3>2 DEF Recovered, Entries
    <3> QED
      BY <3>1, <3>3
  <2> QED
    BY <1>b, <1>d, <2>1, <2>2, <2>3
<1>9. ASSUME write_log_done PROVE Stutter
  <2>1. UNCHANGED <<home, buf, mode, pc>> /\ UNCHANGED Recovered /\ mode # "boot"
    BY <1>9, <1>a DEF write_log_done, HeadInv, diskVars, bufVars, procVars
  <2> QED
    BY <2>1, <1>b, <1>d
<1>10. ASSUME write_head PROVE Abs!ACommit
  <2>1. mode # "boot" /\ UNCHANGED <<home, buf, dlog, mode, pc>> /\ dhead' = lh
        /\ phase = "writehead"
    BY <1>10 DEF write_head, HeadInv, bufVars, procVars
  <2>2. InOp = {}
    BY <2>1 DEF HeadInv, ProcInv
  <2>3. Locked = {} /\ dirty = Entries(lh)
    BY <2>1, <2>2 DEF CacheInv, Locked, InOp
  <2>4. ASSUME NEW b \in Block PROVE Recovered'[b] = Bread(b)
    <3>1. CASE b \in Entries(lh)
      <4>1. PICK i \in 1..Len(lh) : lh[i] = b
        BY <3>1 DEF Entries
      <4>2. Index(lh, b) = i
        BY <4>1, IndexOf DEF HeadInv
      <4>3. dlog[i] = buf[b] /\ buf[b] # NoData
        BY <2>1, <2>3, <3>1, <4>1 DEF CopyInv, CacheInv
      <4>4. Recovered'[b] = dlog[Index(lh, b)]
        BY <2>1, <3>1 DEF Recovered, Entries, Index
      <4> QED
        BY <4>2, <4>3, <4>4 DEF Bread
    <3>2. CASE b \notin Entries(lh)
      <4>1. Recovered'[b] = home[b]
        BY <2>1, <3>2 DEF Recovered, Entries, Index
      <4>2. buf[b] \in {NoData, home[b]}
        BY <2>3, <3>2 DEF CacheInv
      <4> QED
        BY <4>1, <4>2 DEF Bread
    <3> QED
      BY <3>1, <3>2
  <2>5. Recovered' = View
    BY <2>1, <2>4 DEF View, Recovered
  <2> QED
    BY <1>b, <1>d, <2>1, <2>2, <2>5 DEF Abs!ACommit
<1>11. ASSUME install_trans PROVE Stutter
  <2> DEFINE t == lh[tail]
  <2>1. /\ tail \in Slot /\ tail \in 1..Len(lh) /\ dhead = lh /\ t \in Block
        /\ phase = "install"
    BY <1>11 DEF install_trans, HeadInv, Slot
  <2>2. /\ home' = [home EXCEPT ![t] = dlog[tail]]
        /\ buf' = [buf EXCEPT ![t] = dlog[tail]]
        /\ UNCHANGED <<dlog, dhead, mode, pc>>
    BY <1>11, <2>1 DEF install_trans, procVars
  <2>3. t \in Entries(dhead) /\ \A b \in Block : b # t => home'[b] = home[b]
    BY <2>1, <2>2 DEF Entries
  <2>4. UNCHANGED Recovered
    BY <2>2, <2>3 DEF Recovered, Entries, Index
  <2>5. mode # "boot" => UNCHANGED View
    <3> SUFFICES ASSUME mode # "boot" PROVE UNCHANGED View
      OBVIOUS
    <3>1. buf[t] = dlog[tail] /\ dlog[tail] # NoData
      BY <2>1 DEF CopyInv
    <3>2. buf' = buf /\ buf[t] # NoData
      BY <2>1, <2>2, <3>1
    <3>3. \A b \in Block : Bread(b)' = Bread(b)
      BY <2>3, <3>2 DEF Bread
    <3> QED
      BY <2>2, <3>3 DEF View
  <2> QED
    BY <1>c, <1>d, <2>2, <2>4, <2>5
<1>12. ASSUME install_trans_done PROVE Stutter
  <2>1. UNCHANGED <<home, buf, mode, pc>> /\ UNCHANGED Recovered
    BY <1>12, <1>a DEF install_trans_done, diskVars, bufVars, procVars
  <2> QED
    BY <2>1, <1>b, <1>c, <1>d
<1>13. ASSUME write_head_clear PROVE Stutter
  <2>1. phase = "clear" /\ dhead = lh /\ dhead' = <<>>
        /\ UNCHANGED <<home, buf, mode, pc>>
    BY <1>13 DEF write_head_clear, HeadInv, bufVars, procVars
  <2>2. ASSUME NEW b \in Block PROVE Recovered[b] = home[b]
    <3>1. CASE b \in Entries(dhead)
      <4>1. PICK i \in 1..Len(lh) : lh[i] = b
        BY <2>1, <3>1 DEF Entries
      <4>2. Index(dhead, b) = i
        BY <2>1, <4>1, IndexOf DEF HeadInv
      <4>3. home[b] = dlog[i]
        BY <2>1, <4>1 DEF CopyInv
      <4> QED
        BY <3>1, <4>2, <4>3 DEF Recovered
    <3>2. CASE b \notin Entries(dhead)
      BY <3>2 DEF Recovered
    <3> QED
      BY <3>1, <3>2
  <2>3. Recovered = home
    BY <2>2 DEF Recovered
  <2>4. Recovered' = home'
    BY <2>1 DEF Recovered, Entries
  <2> QED
    BY <1>b, <1>c, <1>d, <2>1, <2>3, <2>4
<1>14. ASSUME NEW p \in Proc, end_op_finish(p) PROVE Stutter
  <2>1. UNCHANGED Recovered
    BY <1>14, <1>a DEF end_op_finish
  <2>2. UNCHANGED View
    BY <1>14, <1>b DEF end_op_finish, diskVars, bufVars
  <2>3. UNCHANGED InOp
    BY <1>14 DEF end_op_finish, Wakeup, InOp
  <2> QED
    BY <2>1, <2>2, <2>3
<1>15. ASSUME read_head PROVE Stutter
  <2>1. UNCHANGED Recovered /\ UNCHANGED <<mode, pc>> /\ mode = "boot"
    BY <1>15, <1>a DEF read_head, procVars
  <2> QED
    BY <1>c, <1>d, <2>1
<1>16. ASSUME initlog_done PROVE Stutter
  <2>1. /\ mode = "boot" /\ mode' = "up" /\ phase = "finish"
        /\ UNCHANGED <<home, buf, pc>> /\ UNCHANGED Recovered
    BY <1>16, <1>a DEF initlog_done, diskVars, bufVars, procVars
  <2>2. dirty = {} /\ Locked = {} /\ dhead = <<>>
    BY <2>1 DEF HeadInv, CacheInv, ProcInv, Locked
  <2>3. Recovered = home
    BY <2>2, RecoveredEmpty
  <2>4. \A b \in Block : Bread(b) = home[b]
    BY <2>2, CleanView
  <2>5. UNCHANGED View
    BY <2>1, <2>3, <2>4 DEF View, Bread
  <2> QED
    BY <1>d, <2>1, <2>5
<1>17. ASSUME NEW b \in Block, bread(b) \/ bget_recycle(b) PROVE Stutter
  <2>1. UNCHANGED Recovered /\ UNCHANGED <<home, mode, pc>>
    BY <1>17, <1>a DEF bread, bget_recycle, diskVars, procVars
  <2>2. \A c \in Block : Bread(c)' = Bread(c)
    BY <1>17, <2>1 DEF bread, bget_recycle, CacheInv, Bread
  <2>3. UNCHANGED View
    BY <2>1, <2>2 DEF View
  <2> QED
    BY <1>d, <2>1, <2>3
<1>19. ASSUME Crash PROVE Abs!ACrash
  <2>1. UNCHANGED Recovered
    BY <1>19, <1>a DEF Crash
  <2>2. InOp' = {} /\ mode' = "boot"
    BY <1>19 DEF Crash, InOp
  <2>3. View' = Recovered'
    BY <2>2 DEF View, Recovered
  <2> QED
    BY <2>1, <2>2, <2>3 DEF Abs!ACrash
<1>20. ASSUME UNCHANGED vars PROVE Stutter
  BY <1>20 DEF vars, View, Recovered, InOp, Bread
<1>21. Stutter => UNCHANGED Abs!avars
  BY DEF Abs!avars
<1> HIDE DEF Stutter, LogInv
<1> QED
  BY <1>1, <1>2, <1>3, <1>4, <1>5, <1>6, <1>8, <1>9, <1>10, <1>11, <1>12,
     <1>13, <1>14, <1>15, <1>16, <1>17, <1>19, <1>20, <1>21
     DEF Next, Syscall, Commit, Boot, Abs!ANext

\* log.c implements the atomic file system, for any number of processes, blocks
\* and values: a crash at any point, of commit() or of recovery itself, brings
\* back exactly the state of a moment at which no call was in progress.
THEOREM LogCrashAtomic ==
  ASSUME LogRoom
  PROVE  Spec => CrashAtomic
<1>1. Init => Abs!AInit
  <2> SUFFICES ASSUME Init PROVE Abs!AInit
    OBVIOUS
  <2>1. TypeOK /\ dhead = <<>>
    BY TypeInit DEF Init
  <2>2. Recovered = home
    BY <2>1, RecoveredEmpty
  <2>3. View = Recovered
    BY DEF Init, View, Recovered
  <2>4. InOp = {}
    BY DEF Init, InOp
  <2> QED
    BY <2>1, <2>2, <2>3, <2>4 DEF Abs!AInit, TypeOK
<1>2. LogInv /\ LogInv' /\ [Next]_vars => [Abs!ANext]_(Abs!avars)
  BY LogStepRefines
<1> QED
  BY <1>1, <1>2, LogInvariant, PTL DEF Spec, CrashAtomic, Abs!ASpec

================================================================================
