------------------------ MODULE InterruptGuardProofs ------------------------
(***************************************************************************)
(* Proofs about InterruptGuard, for any number of secondary processors and *)
(* any nesting of guards and of interrupt handlers.                        *)
(***************************************************************************)
EXTENDS InterruptGuard, FiniteSetTheorems, TLAPS

(***************************************************************************)
(* The type invariant.  That NUM_GUARDS stays a natural number, i.e. that  *)
(* fetch_sub never wraps, needs the counting argument, so it is proved     *)
(* with the rest below.                                                    *)
(***************************************************************************)
GuardIInv ==
  /\ GuardTypeOK
  /\ GuardMasksInterrupts
  /\ GuardCount
  /\ StackShape

(***************************************************************************)
(* Pending is finite and gains or loses exactly the running context.       *)
(***************************************************************************)
LEMMA PendingFinite == IsFiniteSet(Pending) /\ Cardinality(Pending) \in Nat
<1>1. IsFiniteSet(Depths)
  BY GuardAssumption, FS_Interval DEF Depths
<1>2. Pending \in SUBSET Depths
  BY DEF Pending
<1>3. QED
  BY <1>1, <1>2, FS_Subset, FS_CardinalityType

(***************************************************************************)
(* A step that moves the running context between two points other than     *)
(* "cli" leaves Pending alone.                                             *)
(***************************************************************************)
LEMMA PendingSame ==
  ASSUME GuardTypeOK, NEW p \in BspPoints, BspGoto(p), (bpc[depth] = "cli") = (p = "cli")
  PROVE  Pending' = Pending
BY DEF GuardTypeOK, BspGoto, Pending

(***************************************************************************)
(* Initially interrupt_guarded_init owns the only guard.                   *)
(***************************************************************************)
LEMMA GuardInitially == GuardInit => GuardIInv
<1> SUFFICES ASSUME GuardInit
             PROVE  GuardIInv
  OBVIOUS
<1>1. 1 \in Depths
  BY GuardAssumption DEF Depths
<1>2. GuardTypeOK
  BY <1>1 DEF GuardInit, GuardTypeOK, BspPoints, ApPoints
<1>3. GuardMasksInterrupts
  BY DEF GuardInit, GuardMasksInterrupts
<1>4. Pending = {}
  BY DEF GuardInit, Pending
<1>5. GuardCount
  BY <1>1, <1>4, FS_EmptySet DEF GuardInit, GuardCount
<1>6. StackShape
  BY <1>1 DEF GuardInit, StackShape, Depths
<1>7. QED
  BY <1>2, <1>3, <1>5, <1>6 DEF GuardIInv

(***************************************************************************)
(* Every step of a context, a handler or another processor preserves it.   *)
(***************************************************************************)
LEMMA GuardStep == GuardIInv /\ [GuardNext]_guardVars => GuardIInv'
<1> SUFFICES ASSUME GuardIInv, [GuardNext]_guardVars
             PROVE  GuardIInv'
  OBVIOUS
<1> USE DEF GuardIInv
<1>0. Depths \subseteq Nat /\ 1 \in Depths
  BY GuardAssumption DEF Depths
<1>1. CASE LockCount
  <2>1. GuardTypeOK'
    BY <1>1, <1>0 DEF LockCount, GuardTypeOK, BspGoto, BspPoints
  <2>2. GuardMasksInterrupts'
    BY <1>1 DEF LockCount, GuardMasksInterrupts, GuardTypeOK
  <2>3. Pending' = Pending \cup {depth} /\ depth \notin Pending
    BY <1>1 DEF LockCount, Pending, BspGoto, GuardTypeOK
  <2>4. Cardinality(Pending') = Cardinality(Pending) + 1
    BY <2>3, PendingFinite, FS_AddElement
  <2>5. GuardCount'
    BY <1>1, <2>4, PendingFinite DEF LockCount, GuardCount, GuardTypeOK
  <2>6. StackShape'
    BY <1>1, <1>0 DEF LockCount, StackShape, BspGoto, GuardTypeOK
  <2>7. QED
    BY <2>1, <2>2, <2>5, <2>6
<1>2. CASE LockCli
  <2> PICK p \in {"run", "spin"} : BspGoto(p)
    BY <1>2 DEF LockCli
  <2>0. held[depth] + 1 \in Nat /\ p \in BspPoints
    BY DEF GuardTypeOK, BspPoints
  <2>1. GuardTypeOK'
    BY <1>2, <2>0 DEF LockCli, GuardTypeOK, BspGoto
  <2>2. GuardMasksInterrupts'
    BY <1>2, <1>0 DEF LockCli, GuardMasksInterrupts, StackShape, GuardTypeOK
  <2>3. Pending' = Pending \ {depth} /\ depth \in Pending
    BY <1>2 DEF LockCli, Pending, BspGoto, GuardTypeOK
  <2>4. Cardinality(Pending') = Cardinality(Pending) - 1
    BY <2>3, PendingFinite, FS_RemoveElement
  <2>5. GuardCount'
    BY <1>2, <2>4, PendingFinite DEF LockCli, GuardCount, GuardTypeOK
  <2>6. StackShape'
    BY <1>2, <1>0 DEF LockCli, StackShape, BspGoto, GuardTypeOK
  <2>7. QED
    BY <2>1, <2>2, <2>5, <2>6
<1>3. CASE DropCount
  <2> DEFINE q == IF last_guard(NUM_GUARDS) THEN "sti" ELSE "run"
  <2>1. held[depth] \in Nat /\ held[depth] > 0 /\ ~enabled /\ BspGoto(q)
    BY <1>3 DEF DropCount, GuardTypeOK, GuardMasksInterrupts
  <2>2. NUM_GUARDS' \in Nat
    BY <1>3, <2>1, PendingFinite DEF DropCount, GuardTypeOK, GuardCount
  <2>3. GuardTypeOK'
    BY <1>3, <2>1, <2>2, <1>0 DEF DropCount, GuardTypeOK, BspGoto, BspPoints
  <2>4. GuardMasksInterrupts'
    BY <1>3, <1>0 DEF DropCount, GuardMasksInterrupts, GuardTypeOK
  <2>5. Pending' = Pending
    BY <1>3, <2>1, PendingSame DEF DropCount, BspPoints
  <2>6. GuardCount'
    BY <1>3, <2>1, <2>5, PendingFinite DEF DropCount, GuardCount, GuardTypeOK
  <2>7. q = "run" /\ held'[depth] = 0 => Pending # {}
    <3> SUFFICES ASSUME q = "run", held'[depth] = 0, Pending = {}
                 PROVE  FALSE
      OBVIOUS
    <3>1. held[depth] = 1
      BY <1>3, <2>1 DEF DropCount, GuardTypeOK
    <3>2. NUM_GUARDS = 1
      BY <3>1, FS_EmptySet DEF GuardCount
    <3>3. QED
      BY <3>2 DEF last_guard
  <2>8. q = "sti" => held'[depth] = 0
    BY <1>3, <2>1, PendingFinite DEF DropCount, GuardCount, last_guard, GuardTypeOK
  <2>9. StackShape'
    BY <1>3, <1>0, <2>1, <2>5, <2>7, <2>8 DEF DropCount, StackShape, BspGoto, GuardTypeOK
  <2>10. QED
    BY <2>3, <2>4, <2>6, <2>9
<1>4. CASE DropSti
  <2>1. GuardTypeOK'
    BY <1>4 DEF DropSti, GuardTypeOK, BspGoto, BspPoints
  <2>2. Pending' = Pending
    BY <1>4, PendingSame DEF DropSti, BspPoints
  <2>3. GuardMasksInterrupts'
    BY <1>4, <1>0 DEF DropSti, GuardMasksInterrupts, StackShape, GuardTypeOK
  <2>4. GuardCount'
    BY <1>4, <2>2 DEF DropSti, GuardCount
  <2>5. StackShape'
    BY <1>4, <1>0, <2>2 DEF DropSti, StackShape, BspGoto, GuardTypeOK
  <2>6. QED
    BY <2>1, <2>3, <2>4, <2>5
<1>5. CASE Interrupt
  <2>1. depth + 1 \in Depths /\ depth \in Nat
    BY <1>5, GuardAssumption DEF Interrupt, GuardTypeOK, Depths
  <2>2. GuardTypeOK'
    BY <1>5, <2>1 DEF Interrupt, GuardTypeOK
  <2>3. \A d \in Depths : held[d] = 0
    BY <1>5 DEF Interrupt, GuardMasksInterrupts, GuardTypeOK
  <2>4. Pending' = Pending
    BY <1>5 DEF Interrupt, Pending
  <2>5. GuardMasksInterrupts' /\ GuardCount'
    BY <1>5, <2>1, <2>3, <2>4 DEF Interrupt, GuardMasksInterrupts, GuardCount, GuardTypeOK
  <2>6. bpc[depth] \in {"run", "cli"}
    BY <1>5, <2>3 DEF Interrupt, StackShape, GuardTypeOK, BspPoints
  <2>7. StackShape'
    BY <1>5, <1>0, <2>1, <2>3, <2>4, <2>6 DEF Interrupt, StackShape, GuardTypeOK
  <2>8. QED
    BY <2>2, <2>5, <2>7
<1>6. CASE Iret
  <2>1. depth - 1 \in Depths /\ depth \in Nat
    BY <1>6, GuardAssumption DEF Iret, GuardTypeOK, Depths
  <2>2. GuardTypeOK'
    BY <1>6, <2>1 DEF Iret, GuardTypeOK
  <2>3. \A d \in Depths : held[d] = 0
    BY <1>6, <1>0 DEF Iret, StackShape, GuardTypeOK
  <2>4. Pending' = Pending
    BY <1>6 DEF Iret, Pending
  <2>5. GuardMasksInterrupts' /\ GuardCount'
    BY <1>6, <2>1, <2>3, <2>4 DEF Iret, GuardMasksInterrupts, GuardCount, GuardTypeOK
  <2>6. \A d \in Depths : bpc[d] \in {"run", "cli"}
    BY <1>6, <1>0 DEF Iret, StackShape, GuardTypeOK
  <2>7. StackShape'
    BY <1>6, <1>0, <2>1, <2>3, <2>6 DEF Iret, StackShape, GuardTypeOK
  <2>8. QED
    BY <2>2, <2>5, <2>7
<1>7. CASE SpinAcquire \/ SpinRelease
  <2> PICK p \in {"run", "crit"} : BspGoto(p) /\ (p = "run" => bpc[depth] = "crit")
                                           /\ (p = "crit" => bpc[depth] = "spin")
    BY <1>7 DEF SpinAcquire, SpinRelease
  <2>1. held[depth] > 0 /\ p \in BspPoints
    BY DEF StackShape, GuardTypeOK, BspPoints
  <2>2. GuardTypeOK'
    BY <1>7, <2>1 DEF SpinAcquire, SpinRelease, GuardTypeOK, BspGoto
  <2>3. Pending' = Pending
    BY <2>1, PendingSame
  <2>4. GuardMasksInterrupts' /\ GuardCount'
    BY <1>7, <2>3 DEF SpinAcquire, SpinRelease, GuardMasksInterrupts, GuardCount
  <2>5. StackShape'
    BY <1>7, <1>0, <2>1, <2>3 DEF SpinAcquire, SpinRelease, StackShape, BspGoto, GuardTypeOK
  <2>6. QED
    BY <2>2, <2>4, <2>5
<1>8. ASSUME NEW a \in Aps, ApNext(a)
      PROVE  GuardIInv'
  <2>1. UNCHANGED <<NUM_GUARDS, enabled, depth, held, bpc>>
    BY <1>8 DEF ApNext, ApWant, ApAcquire, ApRelease
  <2>2. GuardTypeOK'
    BY <1>8, <2>1 DEF ApNext, ApWant, ApAcquire, ApRelease, GuardTypeOK, ApPoints
  <2>3. QED
    BY <2>1, <2>2 DEF GuardMasksInterrupts, GuardCount, StackShape, Pending
<1>9. CASE UNCHANGED guardVars
  BY <1>9 DEF guardVars, GuardTypeOK, GuardMasksInterrupts, GuardCount, StackShape, Pending
<1>10. QED
  BY <1>1, <1>2, <1>3, <1>4, <1>5, <1>6, <1>7, <1>8, <1>9 DEF GuardNext, BspNext

(***************************************************************************)
(* The type invariant; in particular fetch_sub never takes NUM_GUARDS      *)
(* below 0 (interrupt_guard.rs:16-26).                                     *)
(***************************************************************************)
THEOREM GuardTypeCorrect == GuardSpec => []GuardTypeOK
BY GuardInitially, GuardStep, PTL DEF GuardSpec, GuardIInv

(***************************************************************************)
(* No interrupt handler runs inside a guarded section of the boot          *)
(* processor (interrupt_guard.rs:53-67).                                   *)
(***************************************************************************)
THEOREM GuardsMask == GuardSpec => []GuardMasksInterrupts
BY GuardInitially, GuardStep, PTL DEF GuardSpec, GuardIInv

(***************************************************************************)
(* The static counter is exactly the number of guards that exist or are    *)
(* being created (interrupt_guard.rs:16-26, 53-67).                        *)
(***************************************************************************)
THEOREM GuardsCounted == GuardSpec => []GuardCount
BY GuardInitially, GuardStep, PTL DEF GuardSpec, GuardIInv

(***************************************************************************)
(* The kernel's thread never runs outside all guarded sections with        *)
(* interrupts left off: at the bottom of the stack nothing is below that   *)
(* could be stopped between fetch_add and cli (interrupt_guard.rs:16-26).  *)
(***************************************************************************)
THEOREM InterruptsReturn == GuardSpec => []InterruptsComeBack
<1>1. GuardIInv => InterruptsComeBack
  <2> SUFFICES ASSUME GuardIInv, depth = 1, bpc[1] = "run", held[1] = 0, ~enabled
               PROVE  FALSE
    BY DEF InterruptsComeBack, GuardIInv
  <2>1. PICK d \in Depths : bpc[d] = "cli"
    BY DEF GuardIInv, StackShape, Pending
  <2>2. d > depth
    BY <2>1 DEF Depths
  <2>3. QED
    BY <2>1, <2>2 DEF GuardIInv, StackShape
<1>2. QED
  BY <1>1, GuardInitially, GuardStep, PTL DEF GuardSpec

(***************************************************************************)
(* The spin lock's flag and its owners, over all processors.               *)
(***************************************************************************)
SpinInv ==
  /\ available => SpinOwners = {}
  /\ ~available => \E o \in ({"bsp"} \X Depths) \cup ({"ap"} \X Aps) : SpinOwners = {o}

(***************************************************************************)
(* Every step acquires the spin lock for one owner when it is free,        *)
(* releases it, or leaves its owner alone.                                 *)
(***************************************************************************)
LEMMA SpinStep ==
  ASSUME GuardTypeOK, SpinInv, [GuardNext]_guardVars
  PROVE  SpinInv' /\ [SL!Next]_SpinOwners
<1> USE DEF SpinInv, GuardTypeOK
<1>1. CASE SpinAcquire
  <2>1. SpinOwners = {} /\ SpinOwners' = SpinOwners \cup {<<"bsp", depth>>}
    BY <1>1 DEF SpinAcquire, SpinOwners, BspGoto
  <2>2. <<"bsp", depth>> \in {"bsp"} \X Depths
    OBVIOUS
  <2>3. QED
    BY <1>1, <2>1, <2>2 DEF SpinAcquire, SL!Next, SL!Acquire
<1>2. CASE SpinRelease
  <2>1. <<"bsp", depth>> \in SpinOwners
    BY <1>2 DEF SpinRelease, SpinOwners
  <2>2. SpinOwners' = SpinOwners \ {<<"bsp", depth>>}
    BY <1>2 DEF SpinRelease, SpinOwners, BspGoto
  <2>3. SpinOwners = {<<"bsp", depth>>} /\ SpinOwners' = {}
    BY <2>1, <2>2
  <2>4. QED
    BY <1>2, <2>3 DEF SpinRelease, SL!Next, SL!Release
<1>3. ASSUME NEW a \in Aps, ApAcquire(a)
      PROVE  SpinInv' /\ [SL!Next]_SpinOwners
  <2>1. SpinOwners = {} /\ SpinOwners' = SpinOwners \cup {<<"ap", a>>}
    BY <1>3 DEF ApAcquire, SpinOwners
  <2>2. <<"ap", a>> \in {"ap"} \X Aps
    OBVIOUS
  <2>3. QED
    BY <1>3, <2>1, <2>2 DEF ApAcquire, SL!Next, SL!Acquire
<1>4. ASSUME NEW a \in Aps, ApRelease(a)
      PROVE  SpinInv' /\ [SL!Next]_SpinOwners
  <2>1. <<"ap", a>> \in SpinOwners
    BY <1>4 DEF ApRelease, SpinOwners
  <2>2. SpinOwners' = SpinOwners \ {<<"ap", a>>}
    BY <1>4 DEF ApRelease, SpinOwners
  <2>3. SpinOwners = {<<"ap", a>>} /\ SpinOwners' = {}
    BY <2>1, <2>2
  <2>4. QED
    BY <1>4, <2>3 DEF ApRelease, SL!Next, SL!Release
<1>5. ASSUME UNCHANGED available, SpinOwners' = SpinOwners
      PROVE  SpinInv' /\ [SL!Next]_SpinOwners
  BY <1>5
<1>6. CASE LockCount \/ LockCli \/ DropCount \/ DropSti
  <2>1. bpc[depth] # "crit" /\ UNCHANGED <<available, apc>>
        /\ \E p \in {"run", "cli", "spin", "sti"} : BspGoto(p)
    BY <1>6 DEF LockCount, LockCli, DropCount, DropSti
  <2>2. SpinOwners' = SpinOwners
    BY <2>1 DEF SpinOwners, BspGoto
  <2>3. QED
    BY <2>1, <2>2, <1>5
<1>7. CASE Interrupt \/ Iret \/ UNCHANGED guardVars
  BY <1>7, <1>5 DEF Interrupt, Iret, guardVars, SpinOwners
<1>8. ASSUME NEW a \in Aps, ApWant(a)
      PROVE  SpinInv' /\ [SL!Next]_SpinOwners
  <2>1. SpinOwners' = SpinOwners
    BY <1>8 DEF ApWant, SpinOwners
  <2>2. QED
    BY <1>8, <2>1, <1>5 DEF ApWant
<1>9. QED
  BY <1>1, <1>2, <1>3, <1>4, <1>6, <1>7, <1>8 DEF GuardNext, BspNext, ApNext

(***************************************************************************)
(* SpinLock implements the abstract lock over all processors and contexts  *)
(* (spinlock.rs:12-16, 45-60).                                             *)
(***************************************************************************)
THEOREM SpinLockCorrect == GuardSpec => SpinLockImplementsLock
<1>1. GuardInit => SpinInv /\ SL!Init
  BY DEF GuardInit, SpinInv, SpinOwners, SL!Init
<1>2. GuardTypeOK /\ SpinInv /\ [GuardNext]_guardVars => SpinInv' /\ [SL!Next]_SpinOwners
  BY SpinStep
<1>3. QED
  BY <1>1, <1>2, GuardTypeCorrect, PTL DEF GuardSpec, SpinLockImplementsLock, SL!Spec

(***************************************************************************)
(* The boot processor never spins on a lock that it owns itself, which no  *)
(* later step could release (spinlock.rs:45-60 under interrupt_guard.rs).  *)
(***************************************************************************)
THEOREM SpinNeverOnItself == GuardSpec => []NoSelfDeadlock
<1>1. GuardIInv /\ SpinInv => NoSelfDeadlock
  <2> SUFFICES ASSUME GuardIInv, SpinInv
               PROVE  NoSelfDeadlock
    OBVIOUS
  <2>1. ASSUME NEW d \in Depths, bpc[d] = "crit"
        PROVE  d = depth /\ ~enabled
    BY <2>1 DEF GuardIInv, StackShape, GuardMasksInterrupts
  <2>2. ASSUME bpc[depth] = "spin", ~available
        PROVE  \E a \in Aps : apc[a] = "crit"
    <3>1. PICK o : o \in SpinOwners
      BY <2>2 DEF SpinInv
    <3>2. ~ \E e \in Depths : bpc[e] = "crit"
      BY <2>1, <2>2
    <3>3. QED
      BY <3>1, <3>2 DEF SpinOwners
  <2>3. QED
    BY <2>1, <2>2 DEF NoSelfDeadlock
<1>2. GuardInit => SpinInv
  BY DEF GuardInit, SpinInv, SpinOwners
<1>3. GuardTypeOK /\ SpinInv /\ [GuardNext]_guardVars => SpinInv'
  BY SpinStep
<1>4. QED
  BY <1>1, <1>2, <1>3, GuardInitially, GuardStep, GuardTypeCorrect, PTL DEF GuardSpec

=============================================================================
