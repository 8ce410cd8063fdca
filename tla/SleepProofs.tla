---------------------------- MODULE SleepProofs ----------------------------
(***************************************************************************)
(* A sleeper is listed, for any tasks, durations and number of CPUs.       *)
(* SleeperIsListed is not inductive: it says nothing of a task that is     *)
(* about to be polled.  What is kept from the push on (Posted) is that the *)
(* entry of the task is listed or its tick has come.                       *)
(***************************************************************************)
EXTENDS Sleep, TLAPS

Entry(t) == [end |-> end[t], task |-> t]

Posted ==
  \A t \in Tasks : pc[t] \in {"get", "wake", "unlock", "poll", "asleep"} =>
    Entry(t) \in posted \cup visible \/ end[t] <= time

SleepIInv == TypeOK /\ Posted /\ SleeperIsListed

(* The initial state is well formed and nobody sleeps (WakeupService::new). *)
LEMMA SleepInitially == Init => SleepIInv
<1> SUFFICES ASSUME Init PROVE SleepIInv
  OBVIOUS
<1>0. MaxTime \in Nat /\ MaxSleeps \in Nat
  BY SleepAssumption DEF SleepAssumption
<1>1. TypeOK
  <2>1. time \in 0 .. MaxTime + 1 /\ end \in [Tasks -> 0 .. MaxTime] /\ sleeps \in [Tasks -> 0 .. MaxSleeps]
    BY <1>0 DEF Init
  <2>2. pc \in [Tasks -> Points] /\ ref \in [Tasks -> {"none", "live", "freed"}]
    BY DEF Init, Points
  <2>3. service \in ServicePoints /\ cell \in BOOLEAN /\ uaf \in BOOLEAN /\ owner \in Tasks \cup {"none"}
    BY DEF Init, ServicePoints
  <2>4. posted \subseteq Entries /\ visible \subseteq Entries /\ woken \subseteq Tasks \cup {"service"}
    BY DEF Init
  <2> QED
    BY <2>1, <2>2, <2>3, <2>4 DEF TypeOK
<1>2. \A t \in Tasks : pc[t] = "idle"
  BY DEF Init
<1>3. Posted /\ SleeperIsListed
  BY <1>2 DEF Posted, SleeperIsListed
<1> QED
  BY <1>1, <1>3 DEF SleepIInv

(* Every step keeps the state well formed (sleep.rs, atomic_cell.rs). *)
LEMMA SleepTypes == TypeOK /\ [Next]_vars => TypeOK'
<1> SUFFICES ASSUME TypeOK, [Next]_vars PROVE TypeOK'
  OBVIOUS
<1> USE SleepAssumption DEF SleepAssumption, TypeOK, Points, ServicePoints, Entries
<1>1. ASSUME NEW t \in Tasks, NEW d \in Durations, sleep(t, d) PROVE TypeOK'
  BY <1>1 DEF sleep, Goto, end_tick
<1>2. ASSUME NEW t \in Tasks, Lock(t) PROVE TypeOK'
  BY <1>2 DEF Lock, Goto
<1>3. ASSUME NEW t \in Tasks, Push(t) PROVE TypeOK'
  BY <1>3 DEF Push, push, Goto
<1>4. ASSUME NEW t \in Tasks, Get(t) PROVE TypeOK'
  BY <1>4 DEF Get, Goto
<1>5. ASSUME NEW t \in Tasks, Wake(t) PROVE TypeOK'
  BY <1>5 DEF Wake, service_woken, Goto
<1>6. ASSUME NEW t \in Tasks, Unlock(t) \/ Poll(t) \/ Repoll(t) \/ Cancel(t) PROVE TypeOK'
  BY <1>6 DEF Unlock, Poll, Repoll, Cancel, Goto
<1>7. ASSUME RunService PROVE TypeOK'
  BY <1>7 DEF RunService, ServiceStart, Store, freed, TryLock, time_waiter, Drain
<1>8. ASSUME Tick PROVE TypeOK'
  BY <1>8 DEF Tick, is_due
<1>9. ASSUME UNCHANGED vars PROVE TypeOK'
  BY <1>9 DEF vars
<1> QED
  BY <1>1, <1>2, <1>3, <1>4, <1>5, <1>6, <1>7, <1>8, <1>9 DEF Next, Run

(* An entry leaves the lists only when its tick has come, and a task goes  *)
(* to sleep only before it (sleep.rs:99-106, 163).                         *)
LEMMA SleepStep == SleepIInv /\ [Next]_vars => Posted' /\ SleeperIsListed'
<1> SUFFICES ASSUME SleepIInv, [Next]_vars PROVE Posted' /\ SleeperIsListed'
  OBVIOUS
<1> USE SleepAssumption DEF SleepAssumption, SleepIInv, TypeOK, Points, ServicePoints, Posted,
    SleeperIsListed, Entry
<1> DEFINE Kept == Posted' /\ SleeperIsListed'
<1>1. ASSUME NEW t \in Tasks, NEW d \in Durations, sleep(t, d) PROVE Kept
  BY <1>1 DEF sleep, Goto
<1>2. ASSUME NEW t \in Tasks, Lock(t) PROVE Kept
  BY <1>2 DEF Lock, Goto
<1>3. ASSUME NEW t \in Tasks, Push(t) PROVE Kept
  BY <1>3 DEF Push, push, Goto
<1>4. ASSUME NEW t \in Tasks, Get(t) PROVE Kept
  BY <1>4 DEF Get, Goto
<1>5. ASSUME NEW t \in Tasks, Wake(t) PROVE Kept
  BY <1>5 DEF Wake, service_woken, Goto
<1>6. ASSUME NEW t \in Tasks, Unlock(t) \/ Cancel(t) PROVE Kept
  BY <1>6 DEF Unlock, Cancel, Goto
<1>7. ASSUME NEW t \in Tasks, Poll(t) PROVE Kept
  BY <1>7 DEF Poll, Goto
<1>8. ASSUME NEW t \in Tasks, Repoll(t) PROVE Kept
  BY <1>8 DEF Repoll, Goto
<1>9. ASSUME RunService PROVE Kept
  BY <1>9 DEF RunService, ServiceStart, Store, TryLock, Drain
<1>10. ASSUME Tick PROVE Kept
  <2> DEFINE now == IF time <= MaxTime THEN time + 1 ELSE time
             due == {e \in visible : is_due(e, now)}
  <2>1. time' = now /\ time <= now /\ visible' = visible \ due
        /\ woken' = woken \cup {e.task : e \in due} /\ UNCHANGED <<pc, end, posted>>
    BY <1>10 DEF Tick
  <2>2. ASSUME NEW t \in Tasks, Entry(t) \in visible, Entry(t) \notin visible'
        PROVE  end[t] <= time' /\ t \in woken'
    BY <2>1, <2>2 DEF is_due
  <2> QED
    BY <2>1, <2>2
<1>11. ASSUME UNCHANGED vars PROVE Kept
  BY <1>11 DEF vars
<1> QED
  BY <1>1, <1>2, <1>3, <1>4, <1>5, <1>6, <1>7, <1>8, <1>9, <1>10, <1>11 DEF Next, Run

(* The inductive invariant holds of every behaviour (sleep.rs). *)
LEMMA SleepInvariant == Spec => []SleepIInv
<1>1. SleepIInv /\ [Next]_vars => SleepIInv'
  BY SleepTypes, SleepStep DEF SleepIInv
<1> QED
  BY SleepInitially, <1>1, PTL DEF Spec

(* A task that is asleep and has not been woken is listed for its tick,    *)
(* although SleepFuture::poll leaves no waker: for any number of tasks and *)
(* CPUs, and while the timer interrupts at every step.                     *)
THEOREM SleepersListed == Spec => []SleeperIsListed
<1>1. SleepIInv => SleeperIsListed
  BY DEF SleepIInv
<1> QED
  BY SleepInvariant, <1>1, PTL

=============================================================================
