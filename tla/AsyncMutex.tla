----------------------------- MODULE AsyncMutex -----------------------------
(***************************************************************************)
(* The async mutex of src/util/async_mutex.rs together with the waker list *)
(* (src/util/waker_list.rs) it parks its waiters in.                       *)
(*                                                                         *)
(* A task is a future the executor polls on some CPU.  Within a poll every *)
(* atomic access to `count' and every critical section of the waker list's *)
(* spin lock is a step of its own, so polls running on different CPUs      *)
(* interleave at that grain; on a machine with one CPU a poll runs without *)
(* interleaving.  A guard may be kept across an await, so its owner need   *)
(* not be on a CPU.                                                        *)
(***************************************************************************)
EXTENDS Naturals, FiniteSets

CONSTANTS
  Tasks,        \* the tasks that use the mutex
  PollLockers,  \* those that build a lock() future inside a poll and drop it
                \* when it is pending (e.g. async_channel.rs:44-48)
  NumCpus       \* most CPUs a machine may have

ASSUME MutexAssumption ==
  /\ PollLockers \subseteq Tasks
  /\ NumCpus \in Nat \ {0}

VARIABLES
  cpus,     \* CPUs of this machine: how many polls can be in progress at once
  count,    \* Mutex::count
  wakers,   \* tasks with an entry in WakeupListInner::wakers
  ready,    \* tasks whose id has been pushed on the executor's queue
  onCpu,    \* tasks being polled
  via,      \* the call a task is making: "lock" or "try_lock"
  pc        \* where each task is in that call

vars == <<cpus, count, wakers, ready, onCpu, via, pc>>

(***************************************************************************)
(* Program points.                                                         *)
(*   idle       not using the mutex                                        *)
(*   poll       MutexLocker::poll, before count is loaded                  *)
(*   register   count was nonzero, before the waker is registered          *)
(*   park       registered by a PollLocker, before its lock() is dropped   *)
(*   wait       the poll returned Pending; the task is suspended           *)
(*   unhandle   the MutexLocker is done, before its list handle is dropped *)
(*   load, cas  the two accesses of acquire                                *)
(*   held       the caller has a MutexGuard                                *)
(*   notify     the guard stored count = 0, before notify_one              *)
(***************************************************************************)
Points == {"idle", "poll", "register", "park", "wait", "unhandle",
           "load", "cas", "held", "notify"}

Init ==
  /\ cpus \in 1 .. NumCpus
  /\ count = 0
  /\ wakers = {}
  /\ ready = {}
  /\ onCpu = {}
  /\ via = [t \in Tasks |-> "lock"]
  /\ pc = [t \in Tasks |-> "idle"]

GetCpu(t) ==
  /\ t \notin onCpu
  /\ Cardinality(onCpu) < cpus
  /\ onCpu' = onCpu \cup {t}

Goto(t, p) == pc' = [pc EXCEPT ![t] = p]

-----------------------------------------------------------------------------
(* lock(): a fresh list handle, then the MutexLocker is polled. *)
lock(t) ==
  /\ pc[t] = "idle"
  /\ GetCpu(t)
  /\ Goto(t, "poll")
  /\ via' = [via EXCEPT ![t] = "lock"]
  /\ UNCHANGED <<count, wakers, ready>>

(* try_lock(): straight to acquire. *)
try_lock(t) ==
  /\ pc[t] = "idle"
  /\ GetCpu(t)
  /\ Goto(t, "load")
  /\ via' = [via EXCEPT ![t] = "try_lock"]
  /\ UNCHANGED <<count, wakers, ready>>

is_lock_free(c) == c = 0

(* MutexLocker::poll reads count once ... *)
PollLoad(t) ==
  /\ t \in onCpu /\ pc[t] = "poll"
  /\ Goto(t, IF is_lock_free(count) THEN "unhandle" ELSE "register")
  /\ UNCHANGED <<count, wakers, ready, onCpu, via>>

(* ... and registers the waker later, whatever count is by then. *)
register(t) ==
  /\ t \in onCpu /\ pc[t] = "register"
  /\ wakers' = wakers \cup {t}
  /\ IF t \in PollLockers
       THEN Goto(t, "park") /\ UNCHANGED onCpu
       ELSE Goto(t, "wait") /\ onCpu' = onCpu \ {t}
  /\ UNCHANGED <<count, ready, via>>

(* The pending lock() future of a PollLocker is dropped with its handle:   *)
(* the task is suspended outside the mutex and nothing here will wake it.  *)
DropLocker(t) ==
  /\ t \in onCpu /\ pc[t] = "park"
  /\ wakers' = wakers \ {t}
  /\ Goto(t, "idle")
  /\ onCpu' = onCpu \ {t}
  /\ UNCHANGED <<count, ready, via>>

(* The executor polls a suspended waiter whose id it drained. *)
PollAgain(t) ==
  /\ pc[t] = "wait"
  /\ t \in ready
  /\ GetCpu(t)
  /\ ready' = ready \ {t}
  /\ Goto(t, "poll")
  /\ UNCHANGED <<count, wakers, via>>

(* The finished MutexLocker drops its handle before acquire is called. *)
DropHandle(t) ==
  /\ t \in onCpu /\ pc[t] = "unhandle"
  /\ wakers' = wakers \ {t}
  /\ Goto(t, "load")
  /\ UNCHANGED <<count, ready, onCpu, via>>

(* acquire returned None: lock() loops with a new handle, try_lock() gives *)
(* the answer to its caller.                                               *)
AcquireFailed(t) ==
  IF via[t] = "lock"
    THEN Goto(t, "poll") /\ UNCHANGED onCpu
    ELSE Goto(t, "idle") /\ onCpu' = onCpu \ {t}

AcquireLoad(t) ==
  /\ t \in onCpu /\ pc[t] = "load"
  /\ IF count # 0 THEN AcquireFailed(t)
                  ELSE Goto(t, "cas") /\ UNCHANGED onCpu
  /\ UNCHANGED <<count, wakers, ready, via>>

Bug_AcquireCas(t) ==
  /\ t \in onCpu /\ pc[t] = "cas"
  /\ count' = count + 1
  /\ Goto(t, "held")
  /\ UNCHANGED <<wakers, ready, onCpu, via>>

(* compare_exchange(0, 1): only one of the tasks that loaded 0 wins. *)
AcquireCas(t) ==
  /\ t \in onCpu /\ pc[t] = "cas"
  /\ IF count = 0
       THEN count' = 1 /\ Goto(t, "held") /\ UNCHANGED onCpu
       ELSE AcquireFailed(t) /\ UNCHANGED count
  /\ UNCHANGED <<wakers, ready, via>>

(* The owner awaits something else with the guard alive, and comes back. *)
Suspend(t) ==
  /\ t \in onCpu /\ pc[t] = "held"
  /\ onCpu' = onCpu \ {t}
  /\ UNCHANGED <<count, wakers, ready, via, pc>>

Resume(t) ==
  /\ pc[t] = "held"
  /\ GetCpu(t)
  /\ UNCHANGED <<count, wakers, ready, via, pc>>

(* MutexGuard::drop, first statement. *)
Release(t) ==
  /\ t \in onCpu /\ pc[t] = "held"
  /\ count' = 0
  /\ Goto(t, "notify")
  /\ UNCHANGED <<wakers, ready, onCpu, via>>

Bug_notify_one(t) ==
  /\ t \in onCpu /\ pc[t] = "notify"
  /\ Goto(t, "idle")
  /\ onCpu' = onCpu \ {t}
  /\ UNCHANGED <<count, wakers, ready, via>>

(* Second statement: wake the first waker the hash map yields, if any; the *)
(* entry stays in the map.                                                 *)
notify_one(t) ==
  /\ t \in onCpu /\ pc[t] = "notify"
  /\ IF wakers = {} THEN UNCHANGED ready
                    ELSE \E w \in wakers : ready' = ready \cup {w}
  /\ Goto(t, "idle")
  /\ onCpu' = onCpu \ {t}
  /\ UNCHANGED <<count, wakers, via>>

-----------------------------------------------------------------------------
Step(t) ==
  \/ PollLoad(t) \/ register(t) \/ DropLocker(t) \/ DropHandle(t)
  \/ AcquireLoad(t) \/ AcquireCas(t) \/ Release(t) \/ notify_one(t)

Next ==
  /\ UNCHANGED cpus
  /\ \E t \in Tasks :
       lock(t) \/ try_lock(t) \/ Step(t) \/ PollAgain(t) \/ Suspend(t) \/ Resume(t)

Spec == Init /\ [][Next]_vars

(* A CPU keeps executing the poll it is in; the executor polls every id it *)
(* drains, once per round, and so does the service that resumes an owner.  *)
Fairness ==
  \A t \in Tasks : /\ WF_vars(Step(t) /\ UNCHANGED cpus)
                   /\ SF_vars(PollAgain(t) /\ UNCHANGED cpus)
                   /\ SF_vars(Resume(t) /\ UNCHANGED cpus)

-----------------------------------------------------------------------------
TypeOK ==
  /\ cpus \in 1 .. NumCpus
  /\ count \in {0, 1}
  /\ wakers \subseteq Tasks
  /\ ready \subseteq Tasks
  /\ onCpu \subseteq Tasks
  /\ via \in [Tasks -> {"lock", "try_lock"}]
  /\ pc \in [Tasks -> Points]

(* "Should be guaranteed that only 1 thread made it through"               *)
(* (async_mutex.rs:73): two MutexGuards never exist at the same time.      *)
MutualExclusion ==
  \A s, t \in Tasks : pc[s] = "held" /\ pc[t] = "held" => s = t

(* count is 1 exactly while a guard exists, so a free mutex can be taken   *)
(* and a taken one cannot (acquire, MutexGuard::drop).                     *)
CountMatchesGuard == count = 1 <=> \E t \in Tasks : pc[t] = "held"

(* A suspended waiter keeps its entry in the waker list until it is polled *)
(* again, so the next guard drop can find it, and a task that left the     *)
(* waiting states leaves no entry behind for notify_one to be spent on.    *)
WaitersAreListed ==
  \A t \in Tasks :
    /\ pc[t] = "wait" => t \in wakers
    /\ t \in wakers => pc[t] \in {"wait", "poll", "register", "park", "unhandle"}

(* The mutex implements the abstract lock: ownership never passes from one *)
(* task to another without the mutex being free in between.                *)
L == INSTANCE Lock WITH Clients <- Tasks,
                        owners <- {t \in Tasks : pc[t] = "held"}

ImplementsLock == L!Spec

(* On a machine with one CPU a free mutex with a sleeping waiter is always *)
(* taken again: the lock() loop, notify_one and the executor together      *)
(* never forget it.  (With more, MutexLocker::poll can register its waker  *)
(* after the notify_one that should have woken it.)                        *)
FreeMutexIsTaken ==
  cpus = 1 => ((count = 0 /\ \E t \in Tasks : pc[t] = "wait") ~> count = 1)

=============================================================================
