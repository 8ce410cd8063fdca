--------------------------- MODULE LockFreeQueue ---------------------------
(***************************************************************************)
(* The bounded multi-producer, single-consumer ring buffer of              *)
(* src/util/lock_free_queue.rs: the executor's queue of runnable tasks,    *)
(* the log queue and the queue of UHCI wakers.                             *)
(*                                                                         *)
(* Every access to a shared atomic is a step.  A `valid' flag is stored    *)
(* without a fence and x86 lets the loads that follow overtake it, so the  *)
(* store waits in the store buffer of its CPU until it drains; the other   *)
(* stores that another CPU could miss are locked instructions or are       *)
(* published by one.                                                       *)
(*                                                                         *)
(* The k-th successful reservation pushes the element k, so the elements   *)
(* are popped in FIFO order iff they come out as 1, 2, 3, ...              *)
(***************************************************************************)
EXTENDS Naturals, FiniteSets

CONSTANTS
  N,          \* num_elems
  Producers,  \* contexts that push
  Bsp,        \* the one that runs on the consumer's CPU, in its thread
  Irq,        \* the one that interrupts that CPU and runs to completion
  Overlap,    \* TRUE: pops and pushes overlap freely (log and UHCI queues).
              \* FALSE: only an interrupt pushes during a pop (executor queue:
              \* run() waits for every poll before it drains the queue)
  MaxPush     \* bound on the number of pushes

ASSUME QueueAssumption ==
  /\ N \in Nat \ {0}
  /\ MaxPush \in Nat
  /\ Overlap \in BOOLEAN

Slots == 0 .. N - 1
Uninit == 0  \* an uninitialised slot

VARIABLES
  secondary,  \* tasks are also polled on other CPUs, so these push too
  elements, valid, head, tail, reserved,  \* Storage
  buffered,   \* slots whose valid flag is still in a CPU's store buffer
  pc, lhead, idx, ltail, elem,            \* producers: point and locals
  cpc, chead, data,                       \* consumer: point and locals
  claimed,    \* number of successful reservations
  popped      \* number of elements taken out

storage == <<elements, valid, head, tail, reserved>>
plocals == <<pc, lhead, idx, ltail, elem>>
clocals == <<cpc, chead, data>>
vars == <<secondary, storage, buffered, plocals, clocals, claimed, popped>>

wrapping_increment(i) == (i + 1) % N

(* channel() *)
Init ==
  /\ secondary \in BOOLEAN
  /\ elements = [i \in Slots |-> Uninit]
  /\ valid = [i \in Slots |-> FALSE]
  /\ head = 0 /\ tail = 0 /\ reserved = 0
  /\ buffered = [p \in Producers |-> {}]
  /\ pc = [p \in Producers |-> "idle"]
  /\ lhead = [p \in Producers |-> 0]
  /\ idx = [p \in Producers |-> 0]
  /\ ltail = [p \in Producers |-> 0]
  /\ elem = [p \in Producers |-> 0]
  /\ cpc = "idle" /\ chead = 0 /\ data = Uninit
  /\ claimed = 0 /\ popped = 0

-----------------------------------------------------------------------------
(* Which contexts share a CPU, and which of them is running. *)
SameCpu(p) == {q \in Producers : q = p \/ {p, q} = {Bsp, Irq}}

InInterrupt == \E p \in Producers : p = Irq /\ pc[p] # "idle"

Runs(p) == p = Bsp => ~InInterrupt

ConsumerRuns == Overlap \/ ~InInterrupt

(* A CPU sees its own buffered stores; a locked instruction drains them. *)
SeesValid(p, i) == valid[i] \/ \E q \in SameCpu(p) : i \in buffered[q]

Drained(p) == \A q \in SameCpu(p) : buffered[q] = {}

Flush(p) ==
  /\ buffered[p] # {}
  /\ valid' = [i \in Slots |-> valid[i] \/ i \in buffered[p]]
  /\ buffered' = [buffered EXCEPT ![p] = {}]
  /\ UNCHANGED <<elements, head, tail, reserved, plocals, clocals, claimed, popped>>

Goto(p, l) == pc' = [pc EXCEPT ![p] = l]

-----------------------------------------------------------------------------
(* Pushes that will still reserve a slot. *)
Reserving == Cardinality({p \in Producers : pc[p] \in {"reserve", "cas"}})

LeavesRoom == claimed - popped + Reserving < N - 1

(* How full the executor's queue gets.  With pushes on several CPUs it     *)
(* never takes the last free slot; with one CPU, no interrupt takes it     *)
(* between the store of head and the reload of tail in pop.                *)
InUse == ~Overlap /\ (secondary \/ cpc = "reload") => LeavesRoom

(* Sender::push: head is loaded once. *)
PushHead(p) ==
  /\ pc[p] = "idle" /\ Runs(p)
  /\ p \notin {Bsp, Irq} => secondary
  /\ claimed + Reserving < MaxPush
  /\ Overlap \/ p = Irq \/ cpc = "idle"
  /\ InUse
  /\ lhead' = [lhead EXCEPT ![p] = head]
  /\ Goto(p, "reserve")
  /\ UNCHANGED <<storage, buffered, idx, ltail, elem, clocals, claimed, popped>>

(* The reservation loop. *)
PushLoadReserved(p) ==
  /\ pc[p] = "reserve" /\ Runs(p)
  /\ idx' = [idx EXCEPT ![p] = reserved]
  /\ Goto(p, IF reserved = N THEN "idle" ELSE "cas")    \* N: Err(())
  /\ UNCHANGED <<storage, buffered, lhead, ltail, elem, clocals, claimed, popped>>

(* The position after i, or N when that is where the head was. *)
advance(i, h) == IF wrapping_increment(i) = h THEN N ELSE wrapping_increment(i)

new_reserved(i, h) == advance(i, h)

Bug_reserve_ok(p) == TRUE

reserve_ok(p) == reserved = idx[p]

PushReserve(p) ==
  /\ pc[p] = "cas" /\ Runs(p) /\ Drained(p)
  /\ IF reserve_ok(p)
       THEN /\ reserved' = new_reserved(idx[p], lhead[p])
            /\ claimed' = claimed + 1
            /\ elem' = [elem EXCEPT ![p] = claimed + 1]
            /\ Goto(p, "write")
       ELSE Goto(p, "reserve") /\ UNCHANGED <<reserved, claimed, elem>>
  /\ UNCHANGED <<elements, valid, head, tail, buffered, lhead, idx, ltail,
                 clocals, popped>>

PushWrite(p) ==
  /\ pc[p] = "write" /\ Runs(p)
  /\ elements' = [elements EXCEPT ![idx[p]] = elem[p]]
  /\ Goto(p, "valid")
  /\ UNCHANGED <<valid, head, tail, reserved, buffered, lhead, idx, ltail, elem,
                 clocals, claimed, popped>>

PushValid(p) ==
  /\ pc[p] = "valid" /\ Runs(p)
  /\ buffered' = [buffered EXCEPT ![p] = @ \cup {idx[p]}]
  /\ Goto(p, "tail")
  /\ UNCHANGED <<storage, lhead, idx, ltail, elem, clocals, claimed, popped>>

(* The loop that publishes every valid element by moving tail over it. *)
PushLoadTail(p) ==
  /\ pc[p] = "tail" /\ Runs(p)
  /\ ltail' = [ltail EXCEPT ![p] = tail]
  /\ Goto(p, "check")
  /\ UNCHANGED <<storage, buffered, lhead, idx, elem, clocals, claimed, popped>>

PushCheckValid(p) ==
  /\ pc[p] = "check" /\ Runs(p)
  /\ Goto(p, IF ltail[p] # N /\ ~SeesValid(p, ltail[p]) THEN "idle" ELSE "publish")
  /\ UNCHANGED <<storage, buffered, lhead, idx, ltail, elem, clocals, claimed, popped>>

Bug_stops(next) == TRUE

stops(next) == next = N

PushPublish(p) ==
  /\ pc[p] = "publish" /\ Runs(p) /\ Drained(p)
  /\ tail' = IF tail = ltail[p] THEN advance(ltail[p], lhead[p]) ELSE tail
  /\ Goto(p, IF stops(advance(ltail[p], lhead[p])) THEN "idle" ELSE "tail")
  /\ UNCHANGED <<elements, valid, head, reserved, buffered, lhead, idx, ltail, elem,
                 clocals, claimed, popped>>

-----------------------------------------------------------------------------
(* Receiver::pop; an empty queue is None. *)
PopLoad ==
  /\ cpc = "idle" /\ ConsumerRuns
  /\ Overlap \/ \A p \in Producers : pc[p] = "idle" /\ buffered[p] = {}
  /\ chead' = head
  /\ cpc' = IF head = tail THEN "idle" ELSE "swap"
  /\ UNCHANGED <<storage, buffered, plocals, data, claimed, popped>>

PopSwap ==
  /\ cpc = "swap" /\ ConsumerRuns
  /\ data' = elements[chead]
  /\ elements' = [elements EXCEPT ![chead] = Uninit]
  /\ popped' = popped + 1
  /\ cpc' = "invalidate"
  /\ UNCHANGED <<valid, head, tail, reserved, buffered, plocals, chead, claimed>>

Bug_invalidated(v, i) == v

invalidated(v, i) == [v EXCEPT ![i] = FALSE]

PopInvalidate ==
  /\ cpc = "invalidate" /\ ConsumerRuns
  /\ valid' = invalidated(valid, chead)
  /\ cpc' = "head"
  /\ UNCHANGED <<elements, head, tail, reserved, buffered, plocals, chead, data,
                 claimed, popped>>

PopHead ==
  /\ cpc = "head" /\ ConsumerRuns
  /\ head' = wrapping_increment(chead)
  /\ cpc' = "reload"
  /\ UNCHANGED <<elements, valid, tail, reserved, buffered, plocals, chead, data,
                 claimed, popped>>

was_full(t) == t = N

PopReload ==
  /\ cpc = "reload" /\ ConsumerRuns
  /\ cpc' = IF was_full(tail) THEN "unfull" ELSE "idle"
  /\ UNCHANGED <<storage, buffered, plocals, chead, data, claimed, popped>>

(* The queue was full: the freed slot becomes the next push position.  A   *)
(* failed assertion stops the consumer.                                    *)
PopTail ==
  /\ cpc = "unfull" /\ ConsumerRuns
  /\ IF tail = N THEN tail' = chead /\ cpc' = "reserved"
                 ELSE cpc' = "panic135" /\ UNCHANGED tail
  /\ UNCHANGED <<elements, valid, head, reserved, buffered, plocals, chead, data,
                 claimed, popped>>

PopLoadReserved ==
  /\ cpc = "reserved" /\ ConsumerRuns
  /\ cpc' = IF reserved = N THEN "unreserve" ELSE "panic138"
  /\ UNCHANGED <<storage, buffered, plocals, chead, data, claimed, popped>>

PopReserved ==
  /\ cpc = "unreserve" /\ ConsumerRuns
  /\ IF reserved = N THEN reserved' = chead /\ cpc' = "idle"
                     ELSE cpc' = "panic146" /\ UNCHANGED reserved
  /\ UNCHANGED <<elements, valid, head, tail, buffered, plocals, chead, data,
                 claimed, popped>>

-----------------------------------------------------------------------------
Push(p) ==
  \/ PushLoadReserved(p) \/ PushReserve(p) \/ PushWrite(p) \/ PushValid(p)
  \/ PushLoadTail(p) \/ PushCheckValid(p) \/ PushPublish(p)

Pop ==
  \/ PopLoad \/ PopSwap \/ PopInvalidate \/ PopHead \/ PopReload
  \/ PopTail \/ PopLoadReserved \/ PopReserved

Next ==
  /\ UNCHANGED secondary
  /\ \/ \E p \in Producers : PushHead(p) \/ Push(p) \/ Flush(p)
     \/ Pop

Spec == Init /\ [][Next]_vars

(* CPUs keep executing, also between two interrupts, store buffers drain,  *)
(* and run() keeps popping.                                                *)
FairSpec ==
  /\ Spec
  /\ SF_vars(Pop /\ UNCHANGED secondary)
  /\ \A p \in Producers : /\ SF_vars(Push(p) /\ UNCHANGED secondary)
                          /\ WF_vars(Flush(p) /\ UNCHANGED secondary)

-----------------------------------------------------------------------------
Quiescent ==
  /\ cpc = "idle"
  /\ \A p \in Producers : pc[p] = "idle" /\ buffered[p] = {}

(* pop returns the elements in the order of their reservations: none is    *)
(* lost, duplicated, torn or read before it is written.                    *)
PopsAreFifo == cpc \notin {"idle", "swap"} => data = popped

(* Pushes on several CPUs can all stop short of an element whose valid     *)
(* flag they did not see.  Such an element is only late: it is valid at    *)
(* tail, where the publishing loop of the next push finds it.              *)
LateIsFound == Quiescent => tail = reserved \/ (tail # N /\ valid[tail])

(* On a machine with one CPU every element that was pushed is popped, so   *)
(* no wake-up of a task is lost.  (With more CPUs an element can stay      *)
(* unpublished until the next push: LateIsFound.)                          *)
EveryPushPopped ==
  ~secondary => \A k \in 1 .. MaxPush : claimed >= k ~> popped >= k

(* "We should be the only modifiers of tail in this case"                  *)
(* (lock_free_queue.rs:134): the exchange of a full tail never fails.      *)
OnlyModifierOfTail == cpc # "panic135"

=============================================================================
