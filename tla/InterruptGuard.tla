--------------------------- MODULE InterruptGuard ---------------------------
(***************************************************************************)
(* InterruptGuarded (src/util/interrupt_guard.rs) and SpinLock             *)
(* (src/util/spinlock.rs) as the kernel combines them: a section that an   *)
(* interrupt handler may also enter is protected by an interrupt guard on  *)
(* the boot processor and by a spin lock against the other processors (the *)
(* allocator, src/allocator.rs:168-170), and guarded sections contain      *)
(* others (every allocation made under a guard).                           *)
(*                                                                         *)
(* The boot processor runs a stack of contexts: context 1 is the thread    *)
(* that runs the kernel, a higher one an interrupt handler that            *)
(* interrupted the context below it.  Gates are trap gates                 *)
(* (interrupts.rs:354), so a handler starts with interrupts enabled and    *)
(* can itself be interrupted.  The secondary processors run one thread     *)
(* each; on them a guard does nothing.                                     *)
(***************************************************************************)
EXTENDS Naturals, FiniteSets

CONSTANTS
  Aps,        \* secondary processors
  MaxDepth,   \* bound on nested contexts of the boot processor
  MaxGuards   \* bound on the guards one context nests

ASSUME GuardAssumption ==
  /\ MaxDepth \in Nat \ {0}
  /\ MaxGuards \in Nat \ {0}

Depths == 1 .. MaxDepth

VARIABLES
  NUM_GUARDS,  \* the static counter
  enabled,     \* EFLAGS.IF of the boot processor
  depth,       \* the context that is running
  held,        \* guards each context owns (its cli has been executed)
  bpc,          \* program point of each context
  apc,         \* program point of each secondary processor
  available    \* SpinLock::available

guardVars == <<NUM_GUARDS, enabled, depth, held, bpc, apc, available>>

(***************************************************************************)
(*   run    ordinary code, inside as many guarded sections as held says    *)
(*   cli    fetch_add done, before cli                                     *)
(*   spin   in SpinLock::lock, before the exchange succeeds                *)
(*   crit   owns the spin lock                                             *)
(*   sti    fetch_sub returned 1, before sti                               *)
(***************************************************************************)
BspPoints == {"run", "cli", "spin", "crit", "sti"}
ApPoints == {"run", "spin", "crit"}

(* The kernel has just entered interrupt_guarded_init (main.rs:111-115). *)
GuardInit ==
  /\ NUM_GUARDS = 1
  /\ enabled = FALSE
  /\ depth = 1
  /\ held = [d \in Depths |-> IF d = 1 THEN 1 ELSE 0]
  /\ bpc = [d \in Depths |-> "run"]
  /\ apc = [a \in Aps |-> "run"]
  /\ available = TRUE

BspGoto(p) == bpc' = [bpc EXCEPT ![depth] = p]

-----------------------------------------------------------------------------
(* InterruptGuarded::lock on the boot processor. *)
LockCount ==
  /\ bpc[depth] = "run"
  /\ held[depth] < MaxGuards
  /\ NUM_GUARDS' = NUM_GUARDS + 1
  /\ BspGoto("cli")
  /\ UNCHANGED <<enabled, depth, held, apc, available>>

Bug_LockCli ==
  /\ bpc[depth] = "cli"
  /\ held' = [held EXCEPT ![depth] = @ + 1]
  /\ \E p \in {"run", "spin"} : BspGoto(p)
  /\ UNCHANGED <<NUM_GUARDS, enabled, depth, apc, available>>

(* The guarded section then either runs on or enters the spin lock. *)
LockCli ==
  /\ bpc[depth] = "cli"
  /\ enabled' = FALSE
  /\ held' = [held EXCEPT ![depth] = @ + 1]
  /\ \E p \in {"run", "spin"} : BspGoto(p)
  /\ UNCHANGED <<NUM_GUARDS, depth, apc, available>>

last_guard(n) == n = 1

(* InterruptGuard::drop: only the drop that took the counter to 0 goes on  *)
(* to enable interrupts.                                                   *)
DropCount ==
  /\ bpc[depth] = "run"
  /\ held[depth] > 0
  /\ NUM_GUARDS' = NUM_GUARDS - 1
  /\ held' = [held EXCEPT ![depth] = @ - 1]
  /\ BspGoto(IF last_guard(NUM_GUARDS) THEN "sti" ELSE "run")
  /\ UNCHANGED <<enabled, depth, apc, available>>

DropSti ==
  /\ bpc[depth] = "sti"
  /\ enabled' = TRUE
  /\ BspGoto("run")
  /\ UNCHANGED <<NUM_GUARDS, depth, held, apc, available>>

-----------------------------------------------------------------------------
(* A device interrupt, taken between any two instructions. *)
Interrupt ==
  /\ enabled
  /\ depth < MaxDepth
  /\ depth' = depth + 1
  /\ UNCHANGED <<NUM_GUARDS, enabled, held, bpc, apc, available>>

(* iret restores the flags of the interrupted context, whose IF was set. *)
Iret ==
  /\ depth > 1
  /\ bpc[depth] = "run"
  /\ held[depth] = 0
  /\ depth' = depth - 1
  /\ enabled' = TRUE
  /\ UNCHANGED <<NUM_GUARDS, held, bpc, apc, available>>

-----------------------------------------------------------------------------
(* SpinLock::lock and the drop of its guard, on the boot processor ... *)
SpinAcquire ==
  /\ bpc[depth] = "spin"
  /\ available
  /\ available' = FALSE
  /\ BspGoto("crit")
  /\ UNCHANGED <<NUM_GUARDS, enabled, depth, held, apc>>

SpinRelease ==
  /\ bpc[depth] = "crit"
  /\ available' = TRUE
  /\ BspGoto("run")
  /\ UNCHANGED <<NUM_GUARDS, enabled, depth, held, apc>>

(* ... and on a secondary processor, where lock and drop of the interrupt  *)
(* guard around it test cpuid() and do nothing.                            *)
ApWant(a) ==
  /\ apc[a] = "run"
  /\ apc' = [apc EXCEPT ![a] = "spin"]
  /\ UNCHANGED <<NUM_GUARDS, enabled, depth, held, bpc, available>>

ApAcquire(a) ==
  /\ apc[a] = "spin"
  /\ available
  /\ available' = FALSE
  /\ apc' = [apc EXCEPT ![a] = "crit"]
  /\ UNCHANGED <<NUM_GUARDS, enabled, depth, held, bpc>>

ApRelease(a) ==
  /\ apc[a] = "crit"
  /\ available' = TRUE
  /\ apc' = [apc EXCEPT ![a] = "run"]
  /\ UNCHANGED <<NUM_GUARDS, enabled, depth, held, bpc>>

-----------------------------------------------------------------------------
BspNext ==
  \/ LockCount \/ LockCli \/ DropCount \/ DropSti
  \/ Interrupt \/ Iret \/ SpinAcquire \/ SpinRelease

ApNext(a) == ApWant(a) \/ ApAcquire(a) \/ ApRelease(a)

GuardNext == BspNext \/ \E a \in Aps : ApNext(a)

GuardSpec == GuardInit /\ [][GuardNext]_guardVars

-----------------------------------------------------------------------------
GuardTypeOK ==
  /\ NUM_GUARDS \in Nat
  /\ enabled \in BOOLEAN
  /\ depth \in Depths
  /\ held \in [Depths -> Nat]
  /\ bpc \in [Depths -> BspPoints]
  /\ apc \in [Aps -> ApPoints]
  /\ available \in BOOLEAN

(* The contexts that have counted a guard they do not own yet. *)
Pending == {d \in Depths : bpc[d] = "cli"}

(* A context that owns a guard is the one that runs, with interrupts off:  *)
(* no handler runs inside a guarded section, however the sections of       *)
(* threads and handlers nest and wherever inside lock or drop an interrupt *)
(* arrives.  (gdt::init asserts the same at boot, gdt.rs:166-170.)         *)
GuardMasksInterrupts ==
  \A d \in Depths : held[d] > 0 => d = depth /\ ~enabled

(* NUM_GUARDS counts the guards of the running context and the locks that  *)
(* were interrupted between fetch_add and cli; nothing else.               *)
GuardCount == NUM_GUARDS = held[depth] + Cardinality(Pending)

(* Outside every guarded section the kernel's thread runs with interrupts  *)
(* enabled: no interleaving of lock, drop and handlers leaves them off.    *)
InterruptsComeBack ==
  (depth = 1 /\ bpc[1] = "run" /\ held[1] = 0) => enabled

(* The spin lock's owner on the boot processor is never suspended by a     *)
(* handler, so a context that spins waits for another processor and not    *)
(* for itself.                                                             *)
NoSelfDeadlock ==
  /\ \A d \in Depths : bpc[d] = "crit" => d = depth /\ ~enabled
  /\ bpc[depth] = "spin" /\ ~available => \E a \in Aps : apc[a] = "crit"

(* What an interrupt can find on the stack: a suspended context owns       *)
(* nothing and was stopped in ordinary code or between fetch_add and cli,  *)
(* and a running one outside every section has interrupts off only while a *)
(* context below it was stopped there.                                     *)
StackShape ==
  /\ \A d \in Depths :
       /\ d < depth => bpc[d] \in {"run", "cli"} /\ held[d] = 0
       /\ d > depth => bpc[d] = "run" /\ held[d] = 0
       /\ bpc[d] \in {"spin", "crit"} => held[d] > 0
       /\ bpc[d] = "sti" => ~enabled /\ held[d] = 0
  /\ bpc[depth] = "run" /\ held[depth] = 0 /\ ~enabled => Pending # {}

(* SpinLock (and the assertion at spinlock.rs:52) over all processors and  *)
(* contexts: it implements the abstract lock.                              *)
SpinOwners == {<<"bsp", d>> : d \in {e \in Depths : bpc[e] = "crit"}}
                \cup {<<"ap", a>> : a \in {b \in Aps : apc[b] = "crit"}}

SL == INSTANCE Lock
       WITH Clients <- ({"bsp"} \X Depths) \cup ({"ap"} \X Aps),
            owners <- SpinOwners

SpinLockImplementsLock == SL!Spec

=============================================================================
