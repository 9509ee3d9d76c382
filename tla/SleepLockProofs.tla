----------------------------- MODULE SleepLockProofs -----------------------------
(* Proofs about SleepLock, for any number of processes. *)
EXTENDS SleepLock, TLAPS

USE DEF Step, acquire_lk, release_lk, acquire_pt, release_pt, wakeup1, Label

LEMMA SleepInit == Init => SleepInv
  BY SleepLockConstants DEF Init, SleepInv, TypeOK, LockInv, NoLostWakeup

\* One step per operation of sleeplock.c, sleep() and wakeup().
LEMMA SleepStep == SleepInv /\ [Next]_vars => SleepInv'
<1> SUFFICES ASSUME SleepInv, [Next]_vars PROVE SleepInv'
  OBVIOUS
<1> USE SleepLockConstants DEF SleepInv, TypeOK, LockInv, NoLostWakeup
<1>1. ASSUME NEW p \in Proc, Enter(p) PROVE SleepInv'
  BY <1>1 DEF Enter
<1>2. ASSUME NEW p \in Proc, acquiresleep_lock(p) PROVE SleepInv'
  BY <1>2 DEF acquiresleep_lock
<1>3. ASSUME NEW p \in Proc, acquiresleep_busy(p) PROVE SleepInv'
  BY <1>3 DEF acquiresleep_busy
<1>4. ASSUME NEW p \in Proc, acquiresleep_take(p) PROVE SleepInv'
  BY <1>4 DEF acquiresleep_take
<1>5. ASSUME NEW p \in Proc, sleep_lock(p) PROVE SleepInv'
  BY <1>5 DEF sleep_lock
<1>6. ASSUME NEW p \in Proc, sleep_sched(p) PROVE SleepInv'
  BY <1>6 DEF sleep_sched
<1>7. ASSUME NEW p \in Proc, sleep_resume(p) PROVE SleepInv'
  BY <1>7 DEF sleep_resume
<1>8. ASSUME NEW p \in Proc, sleep_end(p) PROVE SleepInv'
  BY <1>8 DEF sleep_end
<1>9. ASSUME NEW p \in Proc, Leave(p) PROVE SleepInv'
  BY <1>9 DEF Leave
<1>10. ASSUME NEW p \in Proc, releasesleep_lock(p) PROVE SleepInv'
  BY <1>10 DEF releasesleep_lock
<1>11. ASSUME NEW p \in Proc, releasesleep_clear(p) PROVE SleepInv'
  BY <1>11 DEF releasesleep_clear
<1>12. ASSUME NEW p \in Proc, wakeup_lock(p) PROVE SleepInv'
  BY <1>12 DEF wakeup_lock
<1>13. ASSUME NEW p \in Proc, wakeup(p) PROVE SleepInv'
  BY <1>13 DEF wakeup
<1>14. ASSUME NEW p \in Proc, releasesleep_end(p) PROVE SleepInv'
  BY <1>14 DEF releasesleep_end
<1>15. ASSUME NEW p \in Proc, kill(p) PROVE SleepInv'
  BY <1>15 DEF kill
<1>16. ASSUME UNCHANGED vars PROVE SleepInv'
  BY <1>16 DEF vars
<1> HIDE DEF SleepInv
<1> QED
  BY <1>1, <1>2, <1>3, <1>4, <1>5, <1>6, <1>7, <1>8, <1>9, <1>10, <1>11,
     <1>12, <1>13, <1>14, <1>15, <1>16 DEF Next, Run, Spin

\* Whatever the number of processes, sleeplock.c keeps its invariant.
THEOREM SleepInvariant == Spec => []SleepInv
  BY SleepInit, SleepStep, PTL DEF Spec

\* The sleep-lock excludes, for any number of processes.
THEOREM SleepMutex == Spec => []Mutex
<1>1. SleepInv => Mutex
  BY DEF SleepInv, LockInv, TypeOK, Mutex
<1> QED
  BY <1>1, SleepInvariant, PTL

\* sleep() loses no wakeup(), for any number of processes.
THEOREM SleepNoLostWakeup == Spec => []NoLostWakeup
<1>1. SleepInv => NoLostWakeup
  BY DEF SleepInv
<1> QED
  BY <1>1, SleepInvariant, PTL
================================================================================
