-------------------------- MODULE AsyncMutexProofs --------------------------
(***************************************************************************)
(* Proofs about AsyncMutex, for any set of tasks and any number of CPUs.   *)
(***************************************************************************)
EXTENDS AsyncMutex, TLAPS

(***************************************************************************)
(* The variables keep their types: in particular count never leaves {0,1}, *)
(* although acquire writes count + 1 (async_mutex.rs:67).                  *)
(***************************************************************************)
THEOREM TypeCorrect == Spec => []TypeOK
<1>1. Init => TypeOK
  BY DEF Init, TypeOK, Points
<1>2. TypeOK /\ [Next]_vars => TypeOK'
  <2> SUFFICES ASSUME TypeOK, [Next]_vars
               PROVE  TypeOK'
    OBVIOUS
  <2> USE DEF TypeOK, Points, Goto, GetCpu
  <2>0. cpus' = cpus
    BY DEF Next, vars
  <2>1. ASSUME NEW t \in Tasks, lock(t)        PROVE TypeOK'
    BY <2>0, <2>1 DEF lock
  <2>2. ASSUME NEW t \in Tasks, try_lock(t)    PROVE TypeOK'
    BY <2>0, <2>2 DEF try_lock
  <2>3. ASSUME NEW t \in Tasks, PollLoad(t)    PROVE TypeOK'
    BY <2>0, <2>3 DEF PollLoad
  <2>4. ASSUME NEW t \in Tasks, register(t)    PROVE TypeOK'
    BY <2>0, <2>4 DEF register
  <2>5. ASSUME NEW t \in Tasks, DropLocker(t)  PROVE TypeOK'
    BY <2>0, <2>5 DEF DropLocker
  <2>6. ASSUME NEW t \in Tasks, DropHandle(t)  PROVE TypeOK'
    BY <2>0, <2>6 DEF DropHandle
  <2>7. ASSUME NEW t \in Tasks, AcquireLoad(t) PROVE TypeOK'
    BY <2>0, <2>7 DEF AcquireLoad, AcquireFailed
  <2>8. ASSUME NEW t \in Tasks, AcquireCas(t)  PROVE TypeOK'
    BY <2>0, <2>8 DEF AcquireCas, AcquireFailed
  <2>9. ASSUME NEW t \in Tasks, Release(t)     PROVE TypeOK'
    BY <2>0, <2>9 DEF Release
  <2>10. ASSUME NEW t \in Tasks, notify_one(t) PROVE TypeOK'
    BY <2>0, <2>10 DEF notify_one
  <2>11. ASSUME NEW t \in Tasks, PollAgain(t)  PROVE TypeOK'
    BY <2>0, <2>11 DEF PollAgain
  <2>12. ASSUME NEW t \in Tasks, Suspend(t)    PROVE TypeOK'
    BY <2>0, <2>12 DEF Suspend
  <2>13. ASSUME NEW t \in Tasks, Resume(t)     PROVE TypeOK'
    BY <2>0, <2>13 DEF Resume
  <2>14. CASE UNCHANGED vars
    BY <2>0, <2>14 DEF vars
  <2>15. QED
    BY <2>1, <2>2, <2>3, <2>4, <2>5, <2>6, <2>7, <2>8, <2>9, <2>10, <2>11,
       <2>12, <2>13, <2>14 DEF Next, Step
<1>3. QED
  BY <1>1, <1>2, PTL DEF Spec

(***************************************************************************)
(* Mutual exclusion is not inductive alone: the compare_exchange of        *)
(* acquire is safe only because count tells whether a guard exists.  The   *)
(* two together are.                                                       *)
(***************************************************************************)
GuardInv == MutualExclusion /\ CountMatchesGuard

(***************************************************************************)
(* Only the compare_exchange creates a guard and only MutexGuard::drop     *)
(* ends one, and both keep count in step with the guards.                  *)
(***************************************************************************)
LEMMA GuardStep == TypeOK /\ GuardInv /\ [Next]_vars => GuardInv'
<1> SUFFICES ASSUME TypeOK, GuardInv, [Next]_vars
             PROVE  GuardInv'
  OBVIOUS
<1> USE DEF TypeOK, GuardInv, MutualExclusion, CountMatchesGuard, Goto, GetCpu
<1>1. ASSUME NEW t \in Tasks, lock(t)        PROVE GuardInv'
  BY <1>1 DEF lock
<1>2. ASSUME NEW t \in Tasks, try_lock(t)    PROVE GuardInv'
  BY <1>2 DEF try_lock
<1>3. ASSUME NEW t \in Tasks, PollLoad(t)    PROVE GuardInv'
  BY <1>3 DEF PollLoad
<1>4. ASSUME NEW t \in Tasks, register(t)    PROVE GuardInv'
  BY <1>4 DEF register
<1>5. ASSUME NEW t \in Tasks, DropLocker(t)  PROVE GuardInv'
  BY <1>5 DEF DropLocker
<1>6. ASSUME NEW t \in Tasks, DropHandle(t)  PROVE GuardInv'
  BY <1>6 DEF DropHandle
<1>7. ASSUME NEW t \in Tasks, AcquireLoad(t) PROVE GuardInv'
  BY <1>7 DEF AcquireLoad, AcquireFailed
<1>8. ASSUME NEW t \in Tasks, AcquireCas(t)  PROVE GuardInv'
  <2>1. CASE count = 0
    BY <1>8, <2>1 DEF AcquireCas
  <2>2. CASE count # 0
    BY <1>8, <2>2 DEF AcquireCas, AcquireFailed
  <2>3. QED
    BY <2>1, <2>2
<1>9. ASSUME NEW t \in Tasks, Release(t)     PROVE GuardInv'
  BY <1>9 DEF Release
<1>10. ASSUME NEW t \in Tasks, notify_one(t) PROVE GuardInv'
  BY <1>10 DEF notify_one
<1>11. ASSUME NEW t \in Tasks, PollAgain(t)  PROVE GuardInv'
  BY <1>11 DEF PollAgain
<1>12. ASSUME NEW t \in Tasks, Suspend(t)    PROVE GuardInv'
  BY <1>12 DEF Suspend
<1>13. ASSUME NEW t \in Tasks, Resume(t)     PROVE GuardInv'
  BY <1>13 DEF Resume
<1>14. CASE UNCHANGED vars
  BY <1>14 DEF vars
<1>15. QED
  BY <1>1, <1>2, <1>3, <1>4, <1>5, <1>6, <1>7, <1>8, <1>9, <1>10, <1>11,
     <1>12, <1>13, <1>14 DEF Next, Step

(***************************************************************************)
(* No two guards of the mutex coexist ("Should be guaranteed that only 1   *)
(* thread made it through", async_mutex.rs:73), on any number of CPUs.     *)
(***************************************************************************)
THEOREM MutexExclusion == Spec => []MutualExclusion
<1>1. Init => GuardInv
  BY DEF Init, GuardInv, MutualExclusion, CountMatchesGuard
<1>2. GuardInv => MutualExclusion
  BY DEF GuardInv
<1>3. QED
  BY <1>1, <1>2, GuardStep, TypeCorrect, PTL DEF Spec

(***************************************************************************)
(* count is 1 exactly while a guard exists.                                *)
(***************************************************************************)
THEOREM CountCorrect == Spec => []CountMatchesGuard
<1>1. Init => GuardInv
  BY DEF Init, GuardInv, MutualExclusion, CountMatchesGuard
<1>2. GuardInv => CountMatchesGuard
  BY DEF GuardInv
<1>3. QED
  BY <1>1, <1>2, GuardStep, TypeCorrect, PTL DEF Spec

(***************************************************************************)
(* A task suspended in lock() keeps its entry in the waker list until it   *)
(* is polled again, and no other task has one (register, and the drop of   *)
(* the list handle in waker_list.rs).                                      *)
(***************************************************************************)
THEOREM WaitersListed == Spec => []WaitersAreListed
<1>1. Init => WaitersAreListed
  BY DEF Init, WaitersAreListed
<1>2. TypeOK /\ WaitersAreListed /\ [Next]_vars => WaitersAreListed'
  <2> SUFFICES ASSUME TypeOK, WaitersAreListed, [Next]_vars
               PROVE  WaitersAreListed'
    OBVIOUS
  <2> USE DEF TypeOK, WaitersAreListed, Goto, GetCpu
  <2>1. ASSUME NEW t \in Tasks, register(t)   PROVE WaitersAreListed'
    BY <2>1 DEF register
  <2>2. ASSUME NEW t \in Tasks, DropLocker(t) PROVE WaitersAreListed'
    BY <2>2 DEF DropLocker
  <2>3. ASSUME NEW t \in Tasks, DropHandle(t) PROVE WaitersAreListed'
    BY <2>3 DEF DropHandle
  <2>4. ASSUME NEW t \in Tasks, lock(t) \/ try_lock(t) \/ PollAgain(t)
        PROVE  WaitersAreListed'
    BY <2>4 DEF lock, try_lock, PollAgain
  <2>5. ASSUME NEW t \in Tasks, PollLoad(t)   PROVE WaitersAreListed'
    BY <2>5 DEF PollLoad
  <2>6. ASSUME NEW t \in Tasks, AcquireLoad(t) \/ AcquireCas(t)
        PROVE  WaitersAreListed'
    BY <2>6 DEF AcquireLoad, AcquireCas, AcquireFailed
  <2>7. ASSUME NEW t \in Tasks, Release(t) \/ notify_one(t)
        PROVE  WaitersAreListed'
    BY <2>7 DEF Release, notify_one
  <2>8. ASSUME NEW t \in Tasks, Suspend(t) \/ Resume(t)
        PROVE  WaitersAreListed'
    BY <2>8 DEF Suspend, Resume
  <2>9. CASE UNCHANGED vars
    BY <2>9 DEF vars
  <2>10. QED
    BY <2>1, <2>2, <2>3, <2>4, <2>5, <2>6, <2>7, <2>8, <2>9 DEF Next, Step
<1>3. QED
  BY <1>1, <1>2, TypeCorrect, PTL DEF Spec

(***************************************************************************)
(* The mutex implements the abstract lock: every step acquires it for one  *)
(* task when nobody has it, releases it, or leaves the owner alone.        *)
(***************************************************************************)
THEOREM MutexImplementsLock == Spec => ImplementsLock
<1> DEFINE Owners == {t \in Tasks : pc[t] = "held"}
<1>1. Init => L!Init
  BY DEF Init, L!Init
<1>2. TypeOK /\ GuardInv /\ [Next]_vars => [L!Next]_Owners
  <2> SUFFICES ASSUME TypeOK, GuardInv, [Next]_vars
               PROVE  L!Next \/ Owners' = Owners
    OBVIOUS
  <2> USE DEF TypeOK, GuardInv, MutualExclusion, CountMatchesGuard, Goto, GetCpu
  <2>1. ASSUME NEW t \in Tasks, AcquireCas(t)
        PROVE  L!Next \/ Owners' = Owners
    <3>1. CASE count = 0
      <4>1. Owners = {} /\ Owners' = {t}
        BY <2>1, <3>1 DEF AcquireCas
      <4>2. QED
        BY <4>1 DEF L!Next, L!Acquire
    <3>2. CASE count # 0
      BY <2>1, <3>2 DEF AcquireCas, AcquireFailed
    <3>3. QED
      BY <3>1, <3>2
  <2>2. ASSUME NEW t \in Tasks, Release(t)
        PROVE  L!Next \/ Owners' = Owners
    <3>1. Owners = {t} /\ Owners' = {}
      BY <2>2 DEF Release
    <3>2. QED
      BY <3>1 DEF L!Next, L!Release
  <2>3. ASSUME NEW t \in Tasks, lock(t) \/ try_lock(t) \/ PollAgain(t)
        PROVE  Owners' = Owners
    BY <2>3 DEF lock, try_lock, PollAgain
  <2>4. ASSUME NEW t \in Tasks, PollLoad(t) \/ register(t)
        PROVE  Owners' = Owners
    BY <2>4 DEF PollLoad, register
  <2>5. ASSUME NEW t \in Tasks, DropLocker(t) \/ DropHandle(t) \/ notify_one(t)
        PROVE  Owners' = Owners
    BY <2>5 DEF DropLocker, DropHandle, notify_one
  <2>6. ASSUME NEW t \in Tasks, AcquireLoad(t)
        PROVE  Owners' = Owners
    BY <2>6 DEF AcquireLoad, AcquireFailed
  <2>7. ASSUME NEW t \in Tasks, Suspend(t) \/ Resume(t)
        PROVE  Owners' = Owners
    BY <2>7 DEF Suspend, Resume
  <2>8. CASE UNCHANGED vars
    BY <2>8 DEF vars
  <2>9. QED
    BY <2>1, <2>2, <2>3, <2>4, <2>5, <2>6, <2>7, <2>8 DEF Next, Step
<1>3. Init => GuardInv
  BY DEF Init, GuardInv, MutualExclusion, CountMatchesGuard
<1>4. QED
  BY <1>1, <1>2, <1>3, GuardStep, TypeCorrect, PTL
     DEF Spec, ImplementsLock, L!Spec

=============================================================================
