------------------------------- MODULE Sleep -------------------------------
(***************************************************************************)
(* Sleeping (src/sleep.rs): a task posts the tick it wants to be woken at  *)
(* and wakes the wakeup service; the service moves what was posted to a    *)
(* map the timer interrupt can see; every tick wakes the tasks that are    *)
(* due.  The service's waker lives in an AtomicCell                        *)
(* (src/util/atomic_cell.rs), whose store frees the value it replaces.     *)
(*                                                                         *)
(* NumCpus polls can be in progress at once; with one CPU a poll is        *)
(* interleaved only with the timer interrupt.  The waits for the mutex of  *)
(* posted_wakeup_times are those of module AsyncMutex: lock().await gets   *)
(* the mutex in the end, a lock() dropped inside a poll is forgotten.      *)
(***************************************************************************)
EXTENDS Naturals, FiniteSets

CONSTANTS
  Tasks,     \* tasks that sleep
  Durations, \* ticks a task may sleep
  MaxTime,   \* last tick a task may ask for; later ones are not told apart
  MaxSleeps, \* bound on the sleeps of a task
  NumCpus

ASSUME SleepAssumption ==
  /\ {MaxTime, MaxSleeps} \subseteq Nat /\ NumCpus \in Nat \ {0}
  /\ Durations \subseteq Nat /\ {"service", "none"} \cap Tasks = {}

VARIABLES
  time,     \* MonotonicTime
  pc,       \* program point of each task
  end,      \* end_tick of its SleepFuture
  sleeps,   \* how many sleeps it has begun
  ref,      \* what its service_waker.get() refers to: "none", "live", "freed"
  service,  \* program point of WakeupService::service
  cell,     \* whether service_waker holds a waker
  posted,   \* posted_wakeup_times: set of [end, task]
  owner,    \* holder of its mutex, or "none"
  visible,  \* interrupt_visible_wakeup_times
  woken,    \* tasks, and "service", that have been woken
  uaf       \* a freed waker was used: nothing is known from here on

vars == <<time, pc, end, sleeps, ref, service, cell, posted, owner, visible, woken, uaf>>

Points == {"idle", "lock", "push", "get", "wake", "unlock", "poll", "asleep"}
ServicePoints == {"store", "trylock", "drain", "wait"}

Init ==
  /\ time = 0
  /\ pc = [t \in Tasks |-> "idle"] /\ end = [t \in Tasks |-> 0]
  /\ sleeps = [t \in Tasks |-> 0]
  /\ ref = [t \in Tasks |-> "none"]
  /\ service = "wait" /\ cell = FALSE
  /\ posted = {} /\ owner = "none" /\ visible = {}
  /\ woken = {"service"} /\ uaf = FALSE

(* What has begun a poll and not reached the next await. *)
OnCpu == {t \in Tasks : pc[t] \in {"push", "get", "wake", "unlock", "poll"}}
           \cup (IF service \in {"store", "trylock"} THEN {"service"} ELSE {})

CpuIsFree == ~uaf /\ Cardinality(OnCpu) < NumCpus

Goto(t, from, to) == ~uaf /\ pc[t] = from /\ pc' = [pc EXCEPT ![t] = to]

-----------------------------------------------------------------------------
end_tick(d) == time + d

(* SleepFuture::new up to the lock in register_wakeup_time. *)
sleep(t, d) ==
  /\ CpuIsFree /\ Goto(t, "idle", "lock")
  /\ time + d <= MaxTime /\ sleeps[t] < MaxSleeps
  /\ sleeps' = [sleeps EXCEPT ![t] = @ + 1]
  /\ end' = [end EXCEPT ![t] = end_tick(d)]
  /\ UNCHANGED <<time, ref, service, cell, posted, owner, visible, woken, uaf>>

Lock(t) ==
  /\ CpuIsFree /\ Goto(t, "lock", "push") /\ owner = "none"
  /\ owner' = t
  /\ UNCHANGED <<time, end, sleeps, ref, service, cell, posted, visible, woken, uaf>>

Bug_push(t) == posted

push(t) == posted \cup {[end |-> end[t], task |-> t]}

Push(t) ==
  /\ Goto(t, "push", "get") /\ posted' = push(t)
  /\ UNCHANGED <<time, end, sleeps, ref, service, cell, owner, visible, woken, uaf>>

(* AtomicCell::get *)
Get(t) ==
  /\ Goto(t, "get", "wake")
  /\ ref' = [ref EXCEPT ![t] = IF cell THEN "live" ELSE "none"]
  /\ UNCHANGED <<time, end, sleeps, service, cell, posted, owner, visible, woken, uaf>>

service_woken(t) == IF ref[t] = "live" THEN {"service"} ELSE {}

(* wake_by_ref *)
Wake(t) ==
  /\ Goto(t, "wake", "unlock")
  /\ uaf' = (ref[t] = "freed")
  /\ woken' = woken \cup service_woken(t)
  /\ ref' = [ref EXCEPT ![t] = "none"]
  /\ UNCHANGED <<time, end, sleeps, service, cell, posted, owner, visible>>

(* The drop of the mutex guard. *)
Unlock(t) ==
  /\ Goto(t, "unlock", "poll") /\ owner' = "none"
  /\ UNCHANGED <<time, end, sleeps, ref, service, cell, posted, visible, woken, uaf>>

(* SleepFuture::poll leaves no waker behind. *)
Poll(t) ==
  /\ Goto(t, "poll", IF time < end[t] THEN "asleep" ELSE "idle")
  /\ UNCHANGED <<time, end, sleeps, ref, service, cell, posted, owner, visible, woken, uaf>>

Repoll(t) ==
  /\ CpuIsFree /\ Goto(t, "asleep", "poll") /\ t \in woken
  /\ woken' = woken \ {t}
  /\ UNCHANGED <<time, end, sleeps, ref, service, cell, posted, owner, visible, uaf>>

(* The other arm of a select ends first and the sleep is dropped; what was *)
(* posted stays.                                                           *)
Cancel(t) ==
  /\ CpuIsFree /\ Goto(t, "asleep", "idle")
  /\ UNCHANGED <<time, end, sleeps, ref, service, cell, posted, owner, visible, woken, uaf>>

Run(t) == Lock(t) \/ Push(t) \/ Get(t) \/ Wake(t) \/ Unlock(t) \/ Poll(t) \/ Repoll(t)

-----------------------------------------------------------------------------
ServiceStart ==
  /\ CpuIsFree /\ service = "wait" /\ "service" \in woken
  /\ service' = "store" /\ woken' = woken \ {"service"}
  /\ UNCHANGED <<time, pc, end, sleeps, ref, cell, posted, owner, visible, uaf>>

freed(t) == IF ref[t] = "live" THEN "freed" ELSE ref[t]

(* AtomicCell::store frees the waker that was there. *)
Store ==
  /\ ~uaf /\ service = "store"
  /\ service' = "trylock" /\ cell' = TRUE
  /\ ref' = [t \in Tasks |-> freed(t)]
  /\ UNCHANGED <<time, pc, end, sleeps, posted, owner, visible, woken, uaf>>

(* The rest of TimeWaiter::poll. *)
time_waiter == IF owner # "none" \/ posted = {} THEN "wait" ELSE "drain"

TryLock ==
  /\ ~uaf /\ service = "trylock"
  /\ service' = time_waiter
  /\ UNCHANGED <<time, pc, end, sleeps, ref, cell, posted, owner, visible, woken, uaf>>

(* Everything posted becomes visible, with interrupts masked, and the loop *)
(* begins again.                                                           *)
Drain ==
  /\ CpuIsFree /\ service = "drain" /\ owner = "none"
  /\ service' = "store" /\ posted' = {} /\ visible' = visible \cup posted
  /\ UNCHANGED <<time, pc, end, sleeps, ref, cell, owner, woken, uaf>>

RunService == ServiceStart \/ Store \/ TryLock \/ Drain

Bug_is_due(e, now) == e.end = now

is_due(e, now) == ~(e.end > now)

(* The timer interrupt: on_tick and wakeup_if_neccessary. *)
Tick ==
  LET now == IF time <= MaxTime THEN time + 1 ELSE time
      due == {e \in visible : is_due(e, now)}
  IN  /\ ~uaf
      /\ time' = now
      /\ visible' = visible \ due
      /\ woken' = woken \cup {e.task : e \in due}
      /\ UNCHANGED <<pc, end, sleeps, ref, service, cell, posted, owner, uaf>>

Next ==
  \/ \E t \in Tasks : Run(t) \/ Cancel(t) \/ \E d \in Durations : sleep(t, d)
  \/ RunService \/ Tick

Spec == Init /\ [][Next]_vars

(* The timer never stops, woken tasks are polled, and a task that waits    *)
(* for the mutex gets it though others keep taking it (it is handed on by  *)
(* notify_one, module AsyncMutex).                                         *)
FairSpec ==
  /\ Spec /\ WF_vars(Tick) /\ SF_vars(RunService)
  /\ \A t \in Tasks : SF_vars(Run(t))

-----------------------------------------------------------------------------
Entries == [end : 0 .. MaxTime, task : Tasks]

(* The state is well formed; in particular a tick that is asked for is one  *)
(* that comes (bound MaxTime).                                             *)
TypeOK ==
  /\ time \in 0 .. MaxTime + 1 /\ pc \in [Tasks -> Points] /\ end \in [Tasks -> 0 .. MaxTime]
  /\ sleeps \in [Tasks -> 0 .. MaxSleeps]
  /\ ref \in [Tasks -> {"none", "live", "freed"}] /\ service \in ServicePoints
  /\ cell \in BOOLEAN /\ uaf \in BOOLEAN /\ owner \in Tasks \cup {"none"}
  /\ posted \subseteq Entries /\ visible \subseteq Entries
  /\ woken \subseteq Tasks \cup {"service"}

(* A task that is asleep and has not been woken is still listed for the    *)
(* tick it asked for: SleepFuture::poll keeps no waker (sleep.rs:163), so  *)
(* the entry made before it is all there is.                               *)
SleeperIsListed ==
  \A t \in Tasks : pc[t] = "asleep" /\ t \notin woken =>
    [end |-> end[t], task |-> t] \in posted \cup visible

(* A sleep ends. *)
SleepEnds == \A t \in Tasks : pc[t] = "asleep" ~> pc[t] = "idle"

=============================================================================
