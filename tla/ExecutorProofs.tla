--------------------------- MODULE ExecutorProofs ---------------------------
(***************************************************************************)
(* No closure outlives the round that sent it, and no task is lost or      *)
(* polled twice at once, for every number of tasks and of processors.      *)
(*                                                                         *)
(* The argument: a processor whose flag is clear is quiet (it has no       *)
(* closure, polls nothing and will not clear the flag of a later closure), *)
(* and the loop of run only sends a closure to a quiet one.                *)
(***************************************************************************)
EXTENDS Executor, FiniteSetTheorems, TLAPS

Closures == {<<>>} \cup {<<t>> : t \in Tasks}

Types ==
  /\ flags \subseteq Aps /\ snap \subseteq Aps /\ scan \subseteq Aps
  /\ cpus \subseteq Aps /\ bootq \subseteq Aps
  /\ tasks \subseteq Tasks /\ done \subseteq Tasks
  /\ cur \in Tasks \cup {None}
  /\ poll \in [Cpus -> Tasks \cup {None}]
  /\ fnq \in [Aps -> Closures]
  /\ apc \in [Aps -> {"off", "lock", "poll", "clear", "unlock", "hlt", "halted"}]

Quiet(c) == fnq[c] = <<>> /\ poll[c] = None /\ apc[c] # "clear"

FlagInv ==
  \A c \in Aps :
    /\ c \notin flags => Quiet(c)
    /\ apc[c] = "poll" <=> poll[c] # None
    /\ apc[c] \in {"poll", "clear"} => fnq[c] = <<>>

RunInv ==
  /\ pc \in {"execute", "enqueue"} => target \in Aps /\ target \in flags /\ Quiet(target)
  /\ pc \in {"dispatch", "execute", "enqueue"} <=> cur # None
  /\ pc = "polling" <=> poll[Bsp] # None
  /\ pc \in {"start", "drain", "hlt", "halted", "returned"} => flags = {}

EInv == Types /\ FlagInv /\ RunInv

LEMMA ExecutorInitially == Init => EInv
<1> SUFFICES ASSUME Init PROVE EInv
  OBVIOUS
<1> USE DEF Init, Cpus
<1>1. Types
  BY DEF Types, Closures
<1>2. FlagInv
  BY DEF FlagInv, Quiet
<1>3. RunInv
  BY DEF RunInv
<1> QED
  BY <1>1, <1>2, <1>3 DEF EInv

(* A turn of run keeps the invariant, action by action. *)
LEMMA RoundStep ==
  ASSUME EInv, Round
  PROVE  EInv'
<1> USE ExecutorAssumption DEF ExecutorAssumption, Cpus
<1>1. Types /\ FlagInv /\ RunInv
  BY DEF EInv
<1>2. CASE StartRound
  BY <1>1, <1>2 DEF StartRound, apVars, bootVars, EInv, Types, FlagInv, RunInv, Quiet
<1>3. CASE Drain
  BY <1>1, <1>3 DEF Drain, apVars, bootVars, EInv, Types, FlagInv, RunInv, Quiet
<1>4. CASE Halt
  BY <1>1, <1>4 DEF Halt, apVars, bootVars, EInv, Types, FlagInv, RunInv, Quiet
<1>5. CASE Pick
  BY <1>1, <1>5 DEF Pick, apVars, bootVars, EInv, Types, FlagInv, RunInv, Quiet
<1>6. CASE Dispatch
  BY <1>1, <1>6 DEF Dispatch, busy, apVars, bootVars, EInv, Types, FlagInv, RunInv, Quiet
<1>7. CASE ExecuteLockCpus
  BY <1>1, <1>7 DEF ExecuteLockCpus, apVars, bootVars, EInv, Types, FlagInv, RunInv, Quiet
<1>8. CASE ExecuteEnqueue
  <2>1. /\ target \in Aps /\ target \in flags /\ Quiet(target)
        /\ cur \in Tasks /\ pc' = "unlock" /\ cur' = None
        /\ UNCHANGED <<tasks, done, snap, scan, flags, poll, apc, bootVars>>
    BY <1>1, <1>8 DEF ExecuteEnqueue, RunInv, Types
  <2>2. Append(fnq[target], cur) = <<cur>>
    BY <2>1 DEF Quiet
  <2>3. fnq' = [fnq EXCEPT ![target] = <<cur>>]
    BY <1>8, <2>2 DEF ExecuteEnqueue
  <2>4. Types'
    BY <1>1, <2>1, <2>3 DEF Types, Closures, bootVars
  <2>5. FlagInv'
    BY <1>1, <2>1, <2>3 DEF FlagInv, Quiet, Types
  <2>6. RunInv'
    BY <1>1, <1>8, <2>1 DEF RunInv, ExecuteEnqueue
  <2> QED
    BY <2>4, <2>5, <2>6 DEF EInv
<1>9. CASE ExecuteUnlock
  BY <1>1, <1>9 DEF ExecuteUnlock, apVars, bootVars, EInv, Types, FlagInv, RunInv, Quiet
<1>10. CASE PollInline
  <2>1. cur \in Tasks /\ cur' = None /\ pc' = "polling" /\ poll' = [poll EXCEPT ![Bsp] = cur]
        /\ pc = "dispatch"
        /\ UNCHANGED <<tasks, done, snap, scan, flags, fnq, apc, bootVars>>
    BY <1>1, <1>10 DEF PollInline, RunInv, Types, apVars
  <2>2. Types'
    BY <1>1, <2>1 DEF Types, bootVars
  <2>3. FlagInv'
    BY <1>1, <2>1 DEF FlagInv, Quiet, Types
  <2>4. RunInv'
    BY <1>1, <2>1 DEF RunInv, Types
  <2> QED
    BY <2>2, <2>3, <2>4 DEF EInv
<1>11. CASE Barrier
  BY <1>1, <1>11 DEF Barrier, all_completed, apVars, bootVars, EInv, Types, FlagInv, RunInv, Quiet
<1> QED
  BY <1>2, <1>3, <1>4, <1>5, <1>6, <1>7, <1>8, <1>9, <1>10, <1>11 DEF Round

(* The end of a poll, on the boot processor or on another, keeps it. *)
LEMMA EndPollStep ==
  ASSUME EInv, NEW x \in Cpus, EndPoll(x)
  PROVE  EInv'
<1> USE ExecutorAssumption DEF ExecutorAssumption, Cpus
<1>1. Types /\ FlagInv /\ RunInv
  BY DEF EInv
<1>2. /\ poll[x] \in Tasks /\ AfterPoll(x)
      /\ UNCHANGED <<cur, snap, scan, target, flags, fnq, cpus, bootq>>
  BY <1>1 DEF EndPoll, Pending, Ready, Types, bootVars
<1>3. tasks' \subseteq Tasks /\ done' \subseteq Tasks
  BY <1>1, <1>2 DEF EndPoll, Pending, Ready, Types
<1>4. CASE x = Bsp
  <2>1. pc = "polling" /\ pc' = "pick" /\ poll' = [poll EXCEPT ![Bsp] = None] /\ apc' = apc
    BY <1>1, <1>2, <1>4 DEF AfterPoll, RunInv
  <2>2. Types'
    BY <1>1, <1>2, <1>3, <2>1 DEF Types
  <2>3. FlagInv'
    BY <1>1, <1>2, <2>1 DEF FlagInv, Quiet, Types
  <2>4. RunInv'
    BY <1>1, <1>2, <2>1 DEF RunInv, Types
  <2> QED
    BY <2>2, <2>3, <2>4 DEF EInv
<1>5. CASE x # Bsp
  <2>1. /\ x \in Aps /\ pc' = pc /\ poll' = [poll EXCEPT ![x] = None]
        /\ apc' = [apc EXCEPT ![x] = "clear"]
    BY <1>2, <1>5 DEF AfterPoll
  <2>2. x \in flags /\ apc[x] = "poll"
    BY <1>1, <1>2, <2>1 DEF FlagInv, Quiet
  <2>3. Types'
    BY <1>1, <1>2, <1>3, <2>1 DEF Types
  <2>4. FlagInv'
    BY <1>1, <1>2, <2>1, <2>2 DEF FlagInv, Quiet, Types
  <2>5. RunInv'
    BY <1>1, <1>2, <2>1, <2>2, <1>5 DEF RunInv, Types, Quiet
  <2> QED
    BY <2>3, <2>4, <2>5 DEF EInv
<1> QED
  BY <1>4, <1>5

(* A turn of the loop of ap_startup keeps it. *)
LEMMA ApLoopStep ==
  ASSUME EInv, NEW c \in Aps, ApLoop(c)
  PROVE  EInv'
<1> USE ExecutorAssumption DEF ExecutorAssumption, Cpus
<1>1. Types /\ FlagInv /\ RunInv
  BY DEF EInv
<1>2. CASE ApTake(c)
  <2>1. /\ apc[c] = "lock"
        /\ UNCHANGED <<tasks, done, pc, cur, snap, scan, target, flags, cpus, bootq>>
    BY <1>2 DEF ApTake, bspVars, bootVars
  <2>2. CASE fnq[c] = <<>>
    <3>1. apc' = [apc EXCEPT ![c] = "unlock"] /\ fnq' = fnq /\ poll' = poll
      BY <1>2, <2>2 DEF ApTake
    <3> QED
      BY <1>1, <2>1, <3>1 DEF EInv, Types, FlagInv, RunInv, Quiet
  <2>3. CASE fnq[c] # <<>>
    <3>1. PICK t \in Tasks : fnq[c] = <<t>>
      BY <1>1, <2>3 DEF Types, Closures
    <3>2. Head(<<t>>) = t /\ Tail(<<t>>) = <<>>
      OBVIOUS
    <3>3. /\ apc' = [apc EXCEPT ![c] = "poll"] /\ fnq' = [fnq EXCEPT ![c] = <<>>]
          /\ poll' = [poll EXCEPT ![c] = t]
      BY <1>2, <2>3, <3>1, <3>2 DEF ApTake
    <3>4. t # None /\ c # Bsp
      OBVIOUS
    <3>5. Types'
      BY <1>1, <2>1, <3>3 DEF Types, Closures
    <3>6. FlagInv'
      BY <1>1, <2>1, <2>3, <3>3, <3>4 DEF FlagInv, Quiet, Types
    <3>7. RunInv'
      BY <1>1, <2>1, <2>3, <3>3, <3>4 DEF RunInv, Quiet, Types
    <3> QED
      BY <3>5, <3>6, <3>7 DEF EInv
  <2> QED
    BY <2>2, <2>3
<1>3. CASE ApClear(c)
  <2>1. /\ apc[c] = "clear" /\ flags' = flags \ {c} /\ apc' = [apc EXCEPT ![c] = "unlock"]
        /\ UNCHANGED <<tasks, done, pc, cur, snap, scan, target, poll, fnq, cpus, bootq>>
    BY <1>3 DEF ApClear, bspVars, bootVars
  <2>2. Types'
    BY <1>1, <2>1 DEF Types
  <2>3. FlagInv'
    BY <1>1, <2>1 DEF FlagInv, Quiet, Types
  <2>4. RunInv'
    BY <1>1, <2>1 DEF RunInv, Quiet, Types
  <2> QED
    BY <2>2, <2>3, <2>4 DEF EInv
<1>4. CASE ApUnlock(c) \/ ApHalt(c)
  BY <1>1, <1>4 DEF ApUnlock, ApHalt, bspVars, bootVars, EInv, Types, FlagInv, RunInv, Quiet
<1> QED
  BY <1>2, <1>3, <1>4 DEF ApLoop

LEMMA ExecutorStep == EInv /\ [Next]_vars => EInv'
<1> SUFFICES ASSUME EInv, [Next]_vars PROVE EInv'
  OBVIOUS
<1> USE DEF Cpus
<1>1. Types /\ FlagInv /\ RunInv
  BY DEF EInv
<1>2. ASSUME NEW x \in Cpus, NEW t \in Tasks, Wake(x, t) PROVE EInv'
  BY <1>1, <1>2 DEF Wake, bspVars, apVars, bootVars, EInv, Types, FlagInv, RunInv, Quiet
<1>3. ASSUME NEW x \in Cpus, NEW c \in Aps, Register(x, c) PROVE EInv'
  BY <1>1, <1>3 DEF Register, bspVars, apVars, EInv, Types, FlagInv, RunInv, Quiet
<1>4. ASSUME NEW c \in Aps, Boot(c) PROVE EInv'
  BY <1>1, <1>4 DEF Boot, bspVars, EInv, Types, FlagInv, RunInv, Quiet
<1>5. ASSUME NEW c \in Aps, Ipi(c) PROVE EInv'
  BY <1>1, <1>5 DEF Ipi, bspVars, bootVars, EInv, Types, FlagInv, RunInv, Quiet
<1>6. ASSUME NEW T, Interrupt(T) PROVE EInv'
  BY <1>1, <1>6 DEF Interrupt, apVars, bootVars, EInv, Types, FlagInv, RunInv, Quiet
<1>7. CASE UNCHANGED vars
  BY <1>1, <1>7 DEF vars, bspVars, apVars, bootVars, EInv, Types, FlagInv, RunInv, Quiet
<1> QED
  BY <1>2, <1>3, <1>4, <1>5, <1>6, <1>7, RoundStep, EndPollStep, ApLoopStep DEF Next, Tick

LEMMA ExecutorInvariant == Spec => []EInv
BY ExecutorInitially, ExecutorStep, PTL DEF Spec

(* Executor::run lets no closure outlive the round that sent it            *)
(* (future.rs:115-118), however many processors poll.                      *)
THEOREM ClosuresEnd == Spec => []NoTaskOutlivesRound
<1>1. EInv => NoTaskOutlivesRound
  BY DEF EInv, FlagInv, RunInv, Quiet, NoTaskOutlivesRound, Outstanding
<1> QED
  BY <1>1, ExecutorInvariant, PTL

-----------------------------------------------------------------------------
(* Two carriers never carry the same task, and a task is carried exactly   *)
(* while it is neither in the map nor done.                                *)
Carried(t) ==
  \/ cur = t
  \/ \E x \in Cpus : poll[x] = t
  \/ \E c \in Aps : fnq[c] = <<t>>

PlaceInv ==
  /\ \A t \in Tasks : Carried(t) <=> t \notin tasks /\ t \notin done
  /\ \A t \in tasks : t \notin done
  /\ \A x, y \in Cpus : poll[x] # None /\ poll[x] = poll[y] => x = y
  /\ \A c, d \in Aps : fnq[c] # <<>> /\ fnq[c] = fnq[d] => c = d
  /\ \A x \in Cpus, c \in Aps : poll[x] # None => fnq[c] # <<poll[x]>>
  /\ cur # None => /\ \A x \in Cpus : poll[x] # cur
                   /\ \A c \in Aps : fnq[c] # <<cur>>

placeVars == <<tasks, done, cur, poll, fnq>>

LEMMA PlacesInitially == Init => PlaceInv
BY ExecutorAssumption DEF ExecutorAssumption, Init, PlaceInv, Carried, Cpus

(* The steps that move a task: out of the map, into a closure queue, to    *)
(* the processor that polls it, and back into the map or away.             *)
LEMMA PlacesStep == EInv /\ EInv' /\ PlaceInv /\ [Next]_vars => PlaceInv'
<1> SUFFICES ASSUME EInv, EInv', PlaceInv, [Next]_vars PROVE PlaceInv'
  OBVIOUS
<1> USE ExecutorAssumption DEF ExecutorAssumption, Cpus
<1>1. Types /\ FlagInv /\ RunInv
  BY DEF EInv
<1>2. CASE UNCHANGED placeVars
  BY <1>2 DEF placeVars, PlaceInv, Carried
<1>3. CASE Pick
  <2>1. cur = None /\ poll' = poll /\ fnq' = fnq /\ done' = done
    BY <1>1, <1>3 DEF Pick, RunInv, apVars
  <2>2. PICK t \in toRun : /\ tasks' = tasks \ {t}
                           /\ IF t \in tasks THEN cur' = t ELSE cur' = cur
    BY <1>3 DEF Pick
  <2>3. CASE t \notin tasks
    BY <2>1, <2>2, <2>3 DEF PlaceInv, Carried
  <2>4. CASE t \in tasks
    <3>1. t \in Tasks /\ ~Carried(t) /\ t \notin done /\ cur' = t
      BY <1>1, <2>2, <2>4 DEF PlaceInv, Types
    <3> QED
      BY <2>1, <2>2, <3>1 DEF PlaceInv, Carried
  <2> QED
    BY <2>3, <2>4
<1>4. CASE ExecuteEnqueue
  <2>1. /\ target \in Aps /\ fnq[target] = <<>> /\ cur \in Tasks /\ cur' = None
        /\ UNCHANGED <<tasks, done, poll>>
    BY <1>1, <1>4 DEF ExecuteEnqueue, RunInv, Types, Quiet
  <2>2. fnq' = [fnq EXCEPT ![target] = <<cur>>]
    BY <1>4, <2>1 DEF ExecuteEnqueue
  <2>3. \A c \in Aps : fnq'[c] = IF c = target THEN <<cur>> ELSE fnq[c]
    BY <1>1, <2>2 DEF Types
  <2>4. \A t \in Tasks : Carried(t)' <=> Carried(t)
    BY <2>1, <2>3 DEF Carried
  <2> QED
    BY <2>1, <2>3, <2>4 DEF PlaceInv
<1>5. CASE PollInline
  <2>1. /\ cur \in Tasks /\ cur' = None /\ poll[Bsp] = None
        /\ UNCHANGED <<tasks, done, fnq>>
    BY <1>1, <1>5 DEF PollInline, RunInv, Types, apVars
  <2>2. \A x \in Cpus : poll'[x] = IF x = Bsp THEN cur ELSE poll[x]
    BY <1>1, <1>5 DEF PollInline, Types
  <2>3. \A t \in Tasks : Carried(t)' <=> Carried(t)
    BY <2>1, <2>2 DEF Carried
  <2> QED
    BY <2>1, <2>2, <2>3 DEF PlaceInv
<1>6. ASSUME NEW c \in Aps, ApTake(c) PROVE PlaceInv'
  <2>1. CASE fnq[c] = <<>>
    BY <1>2, <1>6, <2>1 DEF ApTake, bspVars, placeVars
  <2>2. CASE fnq[c] # <<>>
    <3>1. PICK t \in Tasks : fnq[c] = <<t>>
      BY <1>1, <2>2 DEF Types, Closures
    <3>2. poll[c] = None /\ UNCHANGED <<tasks, done, cur>>
      BY <1>1, <1>6 DEF ApTake, FlagInv, bspVars
    <3>3. Head(<<t>>) = t /\ Tail(<<t>>) = <<>>
      OBVIOUS
    <3>4. poll' = [poll EXCEPT ![c] = t] /\ fnq' = [fnq EXCEPT ![c] = <<>>]
      BY <1>6, <2>2, <3>1, <3>3 DEF ApTake
    <3>5. /\ \A x \in Cpus : poll'[x] = IF x = c THEN t ELSE poll[x]
          /\ \A d \in Aps : fnq'[d] = IF d = c THEN <<>> ELSE fnq[d]
      BY <1>1, <3>4 DEF Types
    <3>6. \A u \in Tasks : Carried(u)' <=> Carried(u)
      BY <3>1, <3>2, <3>5 DEF Carried
    <3> QED
      BY <3>1, <3>2, <3>5, <3>6 DEF PlaceInv
  <2> QED
    BY <2>1, <2>2
<1>7. ASSUME NEW x \in Cpus, EndPoll(x) PROVE PlaceInv'
  <2>1. poll[x] \in Tasks /\ poll' = [poll EXCEPT ![x] = None] /\ UNCHANGED <<cur, fnq>>
    BY <1>1, <1>7 DEF EndPoll, Pending, Ready, AfterPoll, Types
  <2>2. \A y \in Cpus : poll'[y] = IF y = x THEN None ELSE poll[y]
    BY <1>1, <2>1 DEF Types
  <2>3. poll[x] \notin tasks /\ poll[x] \notin done
    BY <2>1 DEF PlaceInv, Carried
  <2>4. \/ tasks' = tasks \cup {poll[x]} /\ done' = done
        \/ tasks' = tasks /\ done' = done \cup {poll[x]}
    BY <1>7 DEF EndPoll, Pending, Ready
  <2>5. \A t \in Tasks : Carried(t)' <=> Carried(t) /\ t # poll[x]
    BY <2>1, <2>2 DEF Carried, PlaceInv
  <2> QED
    BY <2>1, <2>2, <2>3, <2>4, <2>5 DEF PlaceInv
<1>8. CASE StartRound \/ Drain \/ Halt \/ Dispatch \/ ExecuteLockCpus \/ ExecuteUnlock \/ Barrier
  <2>1. UNCHANGED placeVars
    BY <1>8 DEF StartRound, Drain, Halt, Dispatch, ExecuteLockCpus, ExecuteUnlock, Barrier,
                apVars, placeVars
  <2> QED
    BY <1>2, <2>1
<1>9. ASSUME NEW x \in Cpus, NEW t \in Tasks, Wake(x, t) PROVE PlaceInv'
  BY <1>2, <1>9 DEF Wake, bspVars, apVars, placeVars
<1>10. ASSUME NEW x \in Cpus, NEW c \in Aps, Register(x, c) PROVE PlaceInv'
  BY <1>2, <1>10 DEF Register, bspVars, apVars, placeVars
<1>11. ASSUME NEW c \in Aps, Boot(c) \/ ApClear(c) \/ ApUnlock(c) \/ ApHalt(c) \/ Ipi(c)
       PROVE  PlaceInv'
  BY <1>2, <1>11 DEF Boot, ApClear, ApUnlock, ApHalt, Ipi, bspVars, placeVars
<1>12. ASSUME NEW T, Interrupt(T) PROVE PlaceInv'
  BY <1>2, <1>12 DEF Interrupt, apVars, placeVars
<1>13. CASE UNCHANGED vars
  BY <1>2, <1>13 DEF vars, bspVars, apVars, placeVars
<1> QED
  BY <1>3, <1>4, <1>5, <1>6, <1>7, <1>8, <1>9, <1>10, <1>11, <1>12, <1>13
  DEF Next, Round, ApLoop, Tick

(* A task is in the map, or done, or in exactly one other place, however   *)
(* many tasks and processors there are: Executor::run loses none and no    *)
(* two processors poll it at once.                                         *)
THEOREM TasksHaveOnePlace == Spec => []OnePlace
<1>1. EInv /\ PlaceInv => OnePlace
  <2> SUFFICES ASSUME EInv, PlaceInv, NEW t \in Tasks
               PROVE  /\ Cardinality(Carriers(t)) <= 1
                      /\ (Carriers(t) = {}) <=> (t \in tasks \cup done)
                      /\ t \notin tasks \cap done
    BY DEF OnePlace
  <2>1. \A c \in Aps : (\E i \in DOMAIN fnq[c] : fnq[c][i] = t) <=> fnq[c] = <<t>>
    <3> SUFFICES ASSUME NEW c \in Aps
                 PROVE  (\E i \in DOMAIN fnq[c] : fnq[c][i] = t) <=> fnq[c] = <<t>>
      OBVIOUS
    <3>1. fnq[c] \in Closures
      BY DEF EInv, Types
    <3>2. CASE fnq[c] = <<>>
      BY <3>2
    <3>3. ASSUME NEW u \in Tasks, fnq[c] = <<u>>
          PROVE  (\E i \in DOMAIN fnq[c] : fnq[c][i] = t) <=> fnq[c] = <<t>>
      BY <3>3
    <3> QED
      BY <3>1, <3>2, <3>3 DEF Closures
  <2>2. \A p : p \in Carriers(t) <=>
          \/ p = <<"cur", Bsp>> /\ cur = t
          \/ \E x \in Cpus : p = <<"poll", x>> /\ poll[x] = t
          \/ \E c \in Aps : p = <<"fnq", c>> /\ fnq[c] = <<t>>
    BY <2>1 DEF Carriers
  <2>3. Carriers(t) # {} <=> Carried(t)
    BY <2>2 DEF Carried
  <2>4. \A p, q \in Carriers(t) : p = q
    BY <2>2, ExecutorAssumption DEF PlaceInv, ExecutorAssumption
  <2>5. Cardinality(Carriers(t)) <= 1
    <3>1. CASE Carriers(t) = {}
      BY <3>1, FS_EmptySet
    <3>2. CASE Carriers(t) # {}
      <4>1. PICK p : Carriers(t) = {p}
        BY <2>4, <3>2
      <4> QED
        BY <4>1, FS_Singleton
    <3> QED
      BY <3>1, <3>2
  <2> QED
    BY <2>3, <2>5 DEF PlaceInv
<1> QED
  BY <1>1, ExecutorInvariant, PlacesInitially, PlacesStep, PTL DEF Spec

=============================================================================
