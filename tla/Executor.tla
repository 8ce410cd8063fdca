------------------------------ MODULE Executor ------------------------------
(***************************************************************************)
(* The executor (src/future.rs) and the processors it hands polls to       *)
(* (CpuFnDispatcher and ap_startup, src/multiprocessing.rs).               *)
(*                                                                         *)
(* The boot processor runs Executor::run: it drains the queue of woken     *)
(* ids, takes each task out of the map, sends its poll to a secondary      *)
(* processor that is free or polls it itself, and waits for all of them.   *)
(* A secondary processor executes one closure per wake-up of hlt, with the *)
(* lock of its closure queue held.  The task Service is                    *)
(* CpuFnDispatcher::service, which adds the processors that booted.        *)
(***************************************************************************)
EXTENDS Naturals, Sequences, FiniteSets

CONSTANTS
  Tasks,    \* the ids of the spawned tasks
  Service,  \* the task that registers processors (it need not be spawned)
  Aps,      \* secondary processors
  Bsp,      \* the boot processor
  None      \* no task

ASSUME ExecutorAssumption == Bsp \notin Aps /\ None \notin Tasks

Cpus == Aps \cup {Bsp}

VARIABLES
  tasks,     \* ids in Executor::tasks
  runq,      \* ids in the queue to_run that pop can return
  late,      \* ids in it that no push has published yet
  done,      \* tasks whose future returned Ready and was dropped
  pc,        \* where the boot processor is in Executor::run
  toRun,     \* ids drained and not yet looked at in this round
  cur,       \* the task taken out of the map
  snap,      \* processors of this round
  scan,      \* those the dispatch loop has not looked at
  target,    \* the one it chose
  flags,     \* processors whose currently_executing is set
  poll,      \* the task each processor is polling
  fnq,       \* each processor's closure queue (the task a closure polls)
  qlock,     \* who holds its lock: "free", "ap" or "bsp"
  cpusLock,  \* TRUE while execute holds CpuFnDispatcher::cpus
  ipi,       \* processors with an undelivered wake-up interrupt
  apc,       \* where each secondary processor is in ap_startup
  cpus,      \* CpuFnDispatcher::cpus
  bootq,     \* BOOT_INFO_QUEUE
  waker,     \* WAKER has been stored
  missed     \* history: processors whose interrupt came just before their hlt

queueVars == <<runq, late>>
bspVars == <<pc, toRun, cur, snap, scan, target>>
apVars == <<fnq, qlock, ipi, apc, missed>>
bootVars == <<cpus, bootq, waker>>
vars == <<tasks, queueVars, done, bspVars, flags, poll, apVars, cpusLock, bootVars>>

(* new, and every task spawned. *)
Init ==
  /\ tasks = Tasks /\ runq = Tasks /\ late = {} /\ done = {}
  /\ pc = "start" /\ toRun = {} /\ cur = None
  /\ snap = {} /\ scan = {} /\ target = Bsp /\ flags = {}
  /\ poll = [x \in Cpus |-> None]
  /\ fnq = [c \in Aps |-> <<>>]
  /\ qlock = [c \in Aps |-> "free"]
  /\ cpusLock = FALSE
  /\ ipi = {}
  /\ apc = [c \in Aps |-> "off"]
  /\ cpus = {} /\ bootq = {} /\ waker = FALSE
  /\ missed = {}

-----------------------------------------------------------------------------
(* One round of Executor::run. *)
StartRound ==
  /\ pc = "start"
  /\ IF tasks = {}
       THEN pc' = "returned" /\ UNCHANGED <<snap, flags>>
       ELSE pc' = "drain" /\ snap' = cpus /\ flags' = {}
  /\ UNCHANGED <<tasks, queueVars, done, toRun, cur, scan, target, poll, apVars,
                 cpusLock, bootVars>>

Bug_Drain ==
  /\ pc = "drain"
  /\ IF runq = {}
       THEN /\ pc' = IF toRun = {} THEN "hlt" ELSE "pick"
            /\ UNCHANGED <<runq, toRun>>
       ELSE \E t \in runq : runq' = {} /\ toRun' = {t} /\ pc' = "pick"
  /\ UNCHANGED <<tasks, late, done, cur, snap, scan, target, flags, poll, apVars,
                 cpusLock, bootVars>>

Drain ==
  /\ pc = "drain"
  /\ IF runq = {}
       THEN /\ pc' = IF toRun = {} THEN "hlt" ELSE "pick"
            /\ UNCHANGED <<runq, toRun>>
       ELSE \E t \in runq : /\ runq' = runq \ {t}
                            /\ toRun' = toRun \cup {t}
                            /\ UNCHANGED pc
  /\ UNCHANGED <<tasks, late, done, cur, snap, scan, target, flags, poll, apVars,
                 cpusLock, bootVars>>

Halt ==
  /\ pc = "hlt"
  /\ pc' = "halted"
  /\ UNCHANGED <<tasks, queueVars, done, toRun, cur, snap, scan, target, flags, poll,
                 apVars, cpusLock, bootVars>>

(* The next id; one that is not in the map is logged and skipped. *)
Pick ==
  /\ pc = "pick" /\ toRun # {}
  /\ \E t \in toRun :
       /\ toRun' = toRun \ {t}
       /\ tasks' = tasks \ {t}
       /\ IF t \in tasks
            THEN cur' = t /\ scan' = snap /\ pc' = "dispatch"
            ELSE UNCHANGED <<cur, scan, pc>>
  /\ UNCHANGED <<queueVars, done, snap, target, flags, poll, apVars, cpusLock, bootVars>>

busy(c) == c \in flags

(* The dispatch loop looks at the processors one after the other, ... *)
Dispatch ==
  /\ pc = "dispatch" /\ scan # {}
  /\ \E c \in scan :
       IF busy(c)
         THEN scan' = scan \ {c} /\ UNCHANGED <<flags, target, pc>>
         ELSE /\ flags' = flags \cup {c}
              /\ target' = c
              /\ pc' = "execute"
              /\ UNCHANGED scan
  /\ UNCHANGED <<tasks, queueVars, done, toRun, cur, snap, poll, apVars, cpusLock, bootVars>>

(* ... sends the closure to the first free one (execute), ... *)
ExecuteLockCpus ==
  /\ pc = "execute"
  /\ cpusLock' = TRUE
  /\ pc' = "enqueue"
  /\ UNCHANGED <<tasks, queueVars, done, toRun, cur, snap, scan, target, flags, poll,
                 apVars, bootVars>>

ExecuteEnqueue ==
  /\ pc = "enqueue" /\ qlock[target] = "free"
  /\ qlock' = [qlock EXCEPT ![target] = "bsp"]
  /\ fnq' = [fnq EXCEPT ![target] = Append(@, cur)]
  /\ ipi' = ipi \cup {target}
  /\ cur' = None
  /\ pc' = "unlock"
  /\ UNCHANGED <<tasks, queueVars, done, toRun, snap, scan, target, flags, poll, apc,
                 missed, cpusLock, bootVars>>

ExecuteUnlock ==
  /\ pc = "unlock"
  /\ qlock' = [qlock EXCEPT ![target] = "free"]
  /\ cpusLock' = FALSE
  /\ pc' = "pick"
  /\ UNCHANGED <<tasks, queueVars, done, toRun, cur, snap, scan, target, flags, poll,
                 fnq, ipi, apc, missed, bootVars>>

(* ... or polls the task itself when all are busy. *)
PollInline ==
  /\ pc = "dispatch" /\ scan = {}
  /\ poll' = [poll EXCEPT ![Bsp] = cur]
  /\ cur' = None
  /\ pc' = "polling"
  /\ UNCHANGED <<tasks, queueVars, done, toRun, snap, scan, target, flags, apVars,
                 cpusLock, bootVars>>

Bug_all_completed == TRUE

all_completed == flags = {}

(* The wait for all outgoing tasks. *)
Barrier ==
  /\ pc = "pick" /\ toRun = {}
  /\ all_completed
  /\ pc' = "start"
  /\ UNCHANGED <<tasks, queueVars, done, toRun, cur, snap, scan, target, flags, poll,
                 apVars, cpusLock, bootVars>>

-----------------------------------------------------------------------------
(* Another processor may be in the middle of a push: it polls, boots, or   *)
(* is the one that takes the interrupts.                                   *)
Overlap(x) == x # Bsp \/ \E c \in Aps : poll[c] # None \/ apc[c] = "off"

(* KernelWaker::wake for the tasks T, not empty, on processor x.  A push   *)
(* publishes all that is valid at the tail of the queue, what an earlier   *)
(* one left there and its own id; but of two that overlap on different     *)
(* processors each may miss what the other stored (module LockFreeQueue),  *)
(* and then an id stays where it is until the next push.                   *)
push(x, T) ==
  \/ runq' = runq \cup late \cup T /\ late' = {}
  \/ Overlap(x) /\ runq' = runq \cup late /\ late' = T

(* What a poll does, on any processor: it wakes tasks, ... *)
Wake(x, t) ==
  /\ poll[x] # None
  /\ push(x, {t})
  /\ UNCHANGED <<tasks, done, bspVars, flags, poll, apVars, cpusLock, bootVars>>

(* ... the service moves a processor that booted to the map, ... *)
Register(x, c) ==
  /\ poll[x] = Service /\ c \in bootq
  /\ ~cpusLock
  /\ bootq' = bootq \ {c}
  /\ cpus' = cpus \cup {c}
  /\ UNCHANGED <<tasks, queueVars, done, bspVars, flags, poll, apVars, cpusLock, waker>>

AfterPoll(x) ==
  /\ poll' = [poll EXCEPT ![x] = None]
  /\ IF x = Bsp THEN pc' = "pick" /\ UNCHANGED apc
                ELSE apc' = [apc EXCEPT ![x] = "clear"] /\ UNCHANGED pc

Bug_Pending(x) ==
  /\ poll[x] # None
  /\ AfterPoll(x)
  /\ UNCHANGED <<tasks, queueVars, done, waker, toRun, cur, snap, scan, target, flags,
                 fnq, qlock, ipi, missed, cpusLock, cpus, bootq>>

(* ... and it returns Pending, which puts the task back into the map (the  *)
(* service does so when the boot queue is empty, and leaves its waker), or *)
(* Ready, which drops it.                                                  *)
Pending(x) ==
  /\ poll[x] # None
  /\ poll[x] = Service => bootq = {}
  /\ tasks' = tasks \cup {poll[x]}
  /\ waker' = (waker \/ poll[x] = Service)
  /\ AfterPoll(x)
  /\ UNCHANGED <<queueVars, done, toRun, cur, snap, scan, target, flags, fnq, qlock,
                 ipi, missed, cpusLock, cpus, bootq>>

Ready(x) ==
  /\ poll[x] \notin {None, Service}
  /\ done' = done \cup {poll[x]}
  /\ AfterPoll(x)
  /\ UNCHANGED <<tasks, queueVars, toRun, cur, snap, scan, target, flags, fnq, qlock,
                 ipi, missed, cpusLock, bootVars>>

-----------------------------------------------------------------------------
(* ap_startup: a processor boots and queues its boot information. *)
Boot(c) ==
  /\ apc[c] = "off"
  /\ apc' = [apc EXCEPT ![c] = "lock"]
  /\ bootq' = bootq \cup {c}
  /\ IF waker THEN push(c, {Service}) ELSE UNCHANGED queueVars
  /\ UNCHANGED <<tasks, done, bspVars, flags, poll, fnq, qlock, ipi, missed, cpusLock,
                 cpus, waker>>

(* One turn of its loop: at most one closure, run under the queue lock. *)
ApTake(c) ==
  /\ apc[c] = "lock" /\ qlock[c] = "free"
  /\ qlock' = [qlock EXCEPT ![c] = "ap"]
  /\ IF fnq[c] = <<>>
       THEN apc' = [apc EXCEPT ![c] = "unlock"] /\ UNCHANGED <<fnq, poll>>
       ELSE /\ poll' = [poll EXCEPT ![c] = Head(fnq[c])]
            /\ fnq' = [fnq EXCEPT ![c] = Tail(@)]
            /\ apc' = [apc EXCEPT ![c] = "poll"]
  /\ UNCHANGED <<tasks, queueVars, done, bspVars, flags, ipi, missed, cpusLock, bootVars>>

ApClear(c) ==
  /\ apc[c] = "clear"
  /\ flags' = flags \ {c}
  /\ apc' = [apc EXCEPT ![c] = "unlock"]
  /\ UNCHANGED <<tasks, queueVars, done, bspVars, poll, fnq, qlock, ipi, missed, cpusLock,
                 bootVars>>

ApUnlock(c) ==
  /\ apc[c] = "unlock"
  /\ qlock' = [qlock EXCEPT ![c] = "free"]
  /\ apc' = [apc EXCEPT ![c] = "hlt"]
  /\ UNCHANGED <<tasks, queueVars, done, bspVars, flags, poll, fnq, ipi, missed, cpusLock,
                 bootVars>>

ApHalt(c) ==
  /\ apc[c] = "hlt"
  /\ apc' = [apc EXCEPT ![c] = "halted"]
  /\ UNCHANGED <<tasks, queueVars, done, bspVars, flags, poll, fnq, qlock, ipi, missed, cpusLock,
                 bootVars>>

(* The wake-up interrupt ends a hlt that is being executed and nothing     *)
(* else; one that arrives just before the hlt is spent.                    *)
Ipi(c) ==
  /\ c \in ipi
  /\ ipi' = ipi \ {c}
  /\ apc' = IF apc[c] = "halted" THEN [apc EXCEPT ![c] = "lock"] ELSE apc
  /\ missed' = IF apc[c] = "hlt" /\ fnq[c] # <<>> THEN missed \cup {c} ELSE missed
  /\ UNCHANGED <<tasks, queueVars, done, bspVars, flags, poll, fnq, qlock, cpusLock, bootVars>>

-----------------------------------------------------------------------------
(* An interrupt on the boot processor whose handler wakes T.  The timer    *)
(* (Tick) interrupts it again and again whether or not it wakes anybody.   *)
Interrupt(T) ==
  /\ pc # "returned"
  /\ IF T = {} THEN UNCHANGED queueVars ELSE push(Bsp, T)
  /\ pc' = IF pc = "halted" THEN "start" ELSE pc
  /\ UNCHANGED <<tasks, done, toRun, cur, snap, scan, target, flags, poll, apVars,
                 cpusLock, bootVars>>

Tick == Interrupt({})

-----------------------------------------------------------------------------
Round ==
  \/ StartRound \/ Drain \/ Halt \/ Pick \/ Dispatch \/ ExecuteLockCpus
  \/ ExecuteEnqueue \/ ExecuteUnlock \/ PollInline \/ Barrier

EndPoll(x) == Pending(x) \/ Ready(x)

ApLoop(c) == ApTake(c) \/ ApClear(c) \/ ApUnlock(c) \/ ApHalt(c)

Next ==
  \/ Round
  \/ \E x \in Cpus : \/ \E t \in Tasks : Wake(x, t)
                     \/ \E c \in Aps : Register(x, c)
                     \/ EndPoll(x)
  \/ \E c \in Aps : Boot(c) \/ ApLoop(c) \/ Ipi(c)
  \/ \E t \in Tasks : Interrupt({t})
  \/ Tick

Spec == Init /\ [][Next]_vars

(* Processors keep executing, every poll ends (the service after it has    *)
(* emptied the boot queue), interrupts are delivered, and the RTC ticks    *)
(* 256 times a second.                                                     *)
FairSpec ==
  /\ Spec
  /\ WF_vars(Round) /\ WF_vars(Tick)
  /\ \A x \in Cpus : /\ WF_vars(EndPoll(x))
                     /\ \A c \in Aps : SF_vars(Register(x, c))
  /\ \A c \in Aps : WF_vars(ApLoop(c)) /\ WF_vars(Ipi(c))

-----------------------------------------------------------------------------
(* The places outside the map in which a task that is not done can be. *)
Carriers(t) ==
  {<<"cur", x>> : x \in {y \in {Bsp} : cur = t}}
    \cup {<<"poll", x>> : x \in {y \in Cpus : poll[y] = t}}
    \cup {<<"fnq", c>> : c \in {d \in Aps : \E i \in DOMAIN fnq[d] : fnq[d][i] = t}}

(* A task is in the map, or done, or in exactly one other place: it is     *)
(* never lost and never polled by two processors at once (Executor::run    *)
(* removes it from the map before the poll and inserts it after it).       *)
OnePlace ==
  \A t \in Tasks :
    /\ Cardinality(Carriers(t)) <= 1
    /\ (Carriers(t) = {}) <=> (t \in tasks \cup done)
    /\ t \notin tasks \cap done

Outstanding(c) == fnq[c] # <<>> \/ poll[c] # None

(* "guaranteeing that we do not exit this loop until all outgoing tasks    *)
(* have completed" (future.rs:115-118): between rounds and after run       *)
(* returned no processor has or runs a closure with its 'static lie.       *)
NoTaskOutlivesRound ==
  pc \in {"start", "drain", "hlt", "halted", "returned"} =>
    \A c \in Aps : ~Outstanding(c)

(* Interrupts do not refill the queue faster than run drains it. *)
DrainsEnd == []<>(pc # "drain")

(* An id that a push left unpublished is published by a later one: there   *)
(* is a later one (the game wakes itself in every frame).                  *)
LateEnds == \A t \in Tasks : []<>(t \notin late)

(* A woken task is polled (or has completed), whichever race between the   *)
(* wake-up, the publication of its id, the drain and hlt happens           *)
(* (future.rs:26-28, 92-102), unless a processor missed its own wake-up.   *)
(* With one processor no id is ever late.                                  *)
WokenIsPolled ==
  DrainsEnd /\ LateEnds => \A t \in Tasks : t \in (runq \cup late) \ done ~>
    \/ \E x \in Cpus : poll[x] = t
    \/ t \in done
    \/ \E c \in Aps : c \in missed

=============================================================================
