----------------------------- MODULE Interrupts -----------------------------
(***************************************************************************)
(* Interrupt delivery on the boot processor: the two cascaded 8259         *)
(* controllers, generic_interrupt_handler and InterruptHandlerData         *)
(* (src/interrupts.rs), and the thread that registers the handlers while   *)
(* it initialises the devices (src/main.rs).                               *)
(*                                                                         *)
(* Every gate is a trap gate, so an interrupt does not clear IF: a handler *)
(* is itself interrupted until it has taken the guard of the handler       *)
(* table, and again after it has dropped it.  Interrupt guards are taken   *)
(* in one step here; module InterruptGuard has the steps within.           *)
(*                                                                         *)
(* Lines 0 .. 7 belong to the first controller and 8 .. 15 to the second,  *)
(* whose output is line 2 of the first.  Line 16 stands for the wake-up    *)
(* vector that only the local APICs of secondary processors see.           *)
(***************************************************************************)
EXTENDS Integers, Sequences, FiniteSets, FiniteSetsExt

CONSTANTS
  Order,      \* devices in the order in which their handlers are registered
  Line,       \* the line of each device
  Level,      \* level-triggered lines (set up by the firmware)
  Early,      \* devices that are set up before their handler is registered
  Polled,     \* devices whose handler only wakes the task that reads them
  MaxRaises   \* bound on the interrupts of each device

Devices == {Order[i] : i \in DOMAIN Order}
Pic1 == 0 .. 7
Pic2 == 8 .. 15
Cascade == 2
Wakeup == 16
Lines == Pic1 \cup Pic2 \cup {Wakeup}

ASSUME InterruptsAssumption ==
  /\ Line \in [Devices -> Lines \ {Cascade}]
  /\ Level \subseteq Lines /\ Early \cup Polled \subseteq Devices /\ MaxRaises \in Nat
  /\ \A d \in Early \cup Polled : Line[d] \notin Level
  /\ \A d, e \in Devices : d # e /\ Line[d] = Line[e] => Line[d] \in Level

VARIABLES
  pc,        \* program point of the kernel thread
  next,      \* index into Order of the next device to register
  handlers,  \* registered handlers of each line
  mask,      \* masked lines
  irr,       \* latched edges
  isr,       \* lines in service
  asserted,  \* devices that hold their line
  raises,    \* how often each device has raised its line
  guards,    \* NUM_GUARDS
  enabled,   \* EFLAGS.IF
  stack,     \* the interrupts being handled, the last on top
  ap,        \* a secondary processor: "off", "on", "handler"
  panic

vars == <<pc, next, handlers, mask, irr, isr, asserted, raises, guards, enabled, stack, ap, panic>>
pic == <<mask, irr, isr>>
world == <<asserted, raises>>

(* interrupt_guarded_init has just taken its guard; the masks are the      *)
(* firmware's.                                                             *)
Start(point) ==
  /\ pc = point /\ next = 1 /\ handlers = [l \in Lines |-> <<>>]
  /\ mask \in {{}, Pic1 \cup Pic2} /\ irr = {} /\ isr = {}
  /\ asserted = {} /\ raises = [d \in Devices |-> 0]
  /\ guards = 1 /\ enabled = FALSE /\ stack = <<>> /\ ap = "off" /\ panic = FALSE

Init == Start("remap")

Top == Len(stack)
Thread(from, to) == stack = <<>> /\ ~panic /\ pc = from /\ pc' = to
Handler(from, to) ==
  /\ Top > 0 /\ ~panic /\ stack[Top].pc = from
  /\ stack' = [stack EXCEPT ![Top].pc = to]
Take == guards' = guards + 1 /\ enabled' = FALSE

(* The last guard to go enables interrupts. *)
Drop == guards' = guards - 1 /\ enabled' = (enabled \/ guards = 1)

-----------------------------------------------------------------------------
(* ICW1 forgets latched edges and lines in service; the masks are saved    *)
(* and restored.                                                           *)
pic_remap ==
  /\ Thread("remap", "disable")
  /\ irr' = {} /\ isr' = {}
  /\ UNCHANGED <<next, handlers, mask, world, guards, enabled, stack, ap, panic>>

(* Line 2 is left open: the second controller is fully masked. *)
masked_lines == (Pic1 \cup Pic2) \ {Cascade}

pic_disable_interrupts ==
  /\ Thread("disable", "tables")
  /\ mask' = masked_lines
  /\ UNCHANGED <<next, handlers, irr, isr, world, guards, enabled, stack, ap, panic>>

(* load_idt, InterruptHandlerData::init, and the end of                    *)
(* interrupt_guarded_init, which drops its guard.                          *)
InitTables ==
  /\ Thread("tables", "register")
  /\ Drop
  /\ UNCHANGED <<next, handlers, pic, world, stack, ap, panic>>

Device == Order[next]

Bug_RegisterLock ==
  /\ Thread("register", "push") /\ next <= Len(Order)
  /\ guards' = guards + 1
  /\ UNCHANGED <<next, handlers, pic, world, enabled, stack, ap, panic>>

(* register: the guard of pic_io is held to the end. *)
RegisterLock ==
  /\ Thread("register", "push") /\ next <= Len(Order)
  /\ Take
  /\ UNCHANGED <<next, handlers, pic, world, stack, ap, panic>>

RegisterPush ==
  /\ Thread("push", "unmask")
  /\ handlers' = [handlers EXCEPT ![Line[Device]] = Append(@, Device)]
  /\ UNCHANGED <<next, pic, world, guards, enabled, stack, ap, panic>>

Bug_unmasked == {Line[Device] % 8}

unmasked == {Line[Device]}

RegisterUnmask ==
  /\ Thread("unmask", "unlock")
  /\ mask' = mask \ unmasked
  /\ UNCHANGED <<next, handlers, irr, isr, world, guards, enabled, stack, ap, panic>>

RegisterUnlock ==
  /\ Thread("unlock", "register")
  /\ next' = next + 1 /\ Drop
  /\ UNCHANGED <<handlers, pic, world, stack, ap, panic>>

(* When all are registered the other processors are started. *)
boot_all_cpus ==
  /\ Thread("register", "run") /\ next > Len(Order)
  /\ ap' = "on"
  /\ UNCHANGED <<next, handlers, pic, world, guards, enabled, stack, panic>>

(* The thread runs guarded sections of its own (Rtc::read). *)
GuardTake ==
  /\ Thread("run", "guarded") /\ Take
  /\ UNCHANGED <<next, handlers, pic, world, stack, ap, panic>>

GuardDrop ==
  /\ Thread("guarded", "run") /\ Drop
  /\ UNCHANGED <<next, handlers, pic, world, stack, ap, panic>>

(* Ps2Keyboard::read takes the byte, and the device lets go of its line. *)
ReadData(d) ==
  /\ Thread("run", "run") /\ d \in Polled \cap asserted
  /\ asserted' = asserted \ {d}
  /\ UNCHANGED <<next, handlers, pic, raises, guards, enabled, stack, ap, panic>>

-----------------------------------------------------------------------------
Registered == {Order[i] : i \in 1 .. next - 1}

(* A device raises its line, which it holds until it is served; the edge   *)
(* is latched also while the line is masked.  Devices are silent until the *)
(* kernel sets them up; PCI devices are set up after they are registered.  *)
Raise(d) ==
  /\ ~panic /\ pc \notin {"remap", "disable", "tables"} /\ d \in Early \cup Registered
  /\ d \notin asserted /\ Line[d] # Wakeup /\ raises[d] < MaxRaises
  /\ asserted' = asserted \cup {d} /\ raises' = [raises EXCEPT ![d] = @ + 1]
  /\ irr' = irr \cup {Line[d]}
  /\ UNCHANGED <<pc, next, handlers, mask, isr, guards, enabled, stack, ap, panic>>

Requested == {l \in irr \ mask : l \in Level => \E d \in asserted : Line[d] = l}

(* Priority: the second controller's lines come where line 2 is. *)
Rank(l) == IF l \in Pic2 THEN <<Cascade, l>> ELSE <<l, 0>>
Before(l, m) == Rank(l)[1] < Rank(m)[1] \/ (Rank(l)[1] = Rank(m)[1] /\ Rank(l)[2] < Rank(m)[2])

(* A line in service keeps its controller from passing on the lines of its *)
(* own or lower priority.                                                  *)
Passes(l) ==
  /\ \A k \in isr \cap Pic1 : IF l \in Pic1 THEN l < k ELSE Cascade < k
  /\ \A k \in isr \cap Pic2 : l \in Pic2 => l < k
  /\ l \in Pic2 => Cascade \notin mask

(* 0b1111 is a 32-bit trap gate. *)
gate_clears_if == FALSE

Deliver(l) ==
  /\ enabled /\ ~panic /\ l \in Requested /\ Passes(l)
  /\ \A m \in Requested : Passes(m) => ~Before(m, l)
  /\ irr' = IF l \in Level THEN irr ELSE irr \ {l}
  /\ isr' = isr \cup {l} \cup (IF l \in Pic2 THEN {Cascade} ELSE {})
  /\ stack' = Append(stack, [line |-> l, pc |-> "lock", todo |-> <<>>])
  /\ enabled' = (enabled /\ ~gate_clears_if)
  /\ UNCHANGED <<pc, next, handlers, mask, world, guards, ap, panic>>

-----------------------------------------------------------------------------
(* generic_interrupt_handler: a line that has no handlers is a panic. *)
HandlerLock ==
  /\ Top > 0 /\ ~panic /\ stack[Top].pc = "lock"
  /\ stack' = [stack EXCEPT ![Top].pc = "run", ![Top].todo = handlers[stack[Top].line]]
  /\ panic' = (handlers[stack[Top].line] = <<>>)
  /\ Take
  /\ UNCHANGED <<pc, next, handlers, pic, world, ap>>

(* Each handler serves its device, if that has raised the line. *)
HandlerRun ==
  /\ Top > 0 /\ ~panic /\ stack[Top].pc = "run" /\ stack[Top].todo # <<>>
  /\ asserted' = asserted \ ({Head(stack[Top].todo)} \ Polled)
  /\ stack' = [stack EXCEPT ![Top].todo = Tail(@)]
  /\ UNCHANGED <<pc, next, handlers, pic, raises, guards, enabled, ap, panic>>

First(S) == IF S = {} THEN {} ELSE {Min(S)}

(* The command 0x20 names no line: a controller ends the service of its    *)
(* line of highest priority.                                               *)
eoi(l) == First(isr \cap Pic1) \cup (IF l \in Pic2 THEN First(isr \cap Pic2) ELSE {})

HandlerEoi ==
  /\ Handler("run", "unlock") /\ stack[Top].todo = <<>>
  /\ isr' = isr \ eoi(stack[Top].line)
  /\ UNCHANGED <<pc, next, handlers, mask, irr, world, guards, enabled, ap, panic>>

HandlerUnlock ==
  /\ Handler("unlock", "iret") /\ Drop
  /\ UNCHANGED <<pc, next, handlers, pic, world, ap, panic>>

(* iret restores the flags of code that could be interrupted. *)
HandlerReturn ==
  /\ Top > 0 /\ ~panic /\ stack[Top].pc = "iret"
  /\ stack' = SubSeq(stack, 1, Top - 1) /\ enabled' = TRUE
  /\ UNCHANGED <<pc, next, handlers, pic, world, guards, ap, panic>>

(* On a secondary processor the guard does nothing, and the end of the     *)
(* interrupt goes to the local APIC.                                       *)
ApHandler ==
  /\ ap = "on" /\ ~panic
  /\ ap' = "handler" /\ panic' = (handlers[Wakeup] = <<>>)
  /\ UNCHANGED <<pc, next, handlers, pic, world, guards, enabled, stack>>

ApEoi ==
  /\ ap = "handler" /\ ~panic
  /\ ap' = "on"
  /\ UNCHANGED <<pc, next, handlers, pic, world, guards, enabled, stack, panic>>

KernelThread ==
  \/ pic_remap \/ pic_disable_interrupts \/ InitTables \/ RegisterLock \/ RegisterPush
  \/ RegisterUnmask \/ RegisterUnlock \/ boot_all_cpus \/ GuardDrop

InterruptHandler == HandlerLock \/ HandlerRun \/ HandlerEoi \/ HandlerUnlock \/ HandlerReturn

Next ==
  \/ KernelThread \/ GuardTake \/ InterruptHandler \/ ApHandler \/ ApEoi
  \/ \E d \in Devices : Raise(d) \/ ReadData(d)
  \/ \E l \in Lines : Deliver(l)

Spec == Init /\ [][Next]_vars

(* The processor runs, takes interrupts that it lets through, and the task *)
(* that reads a polled device runs once its handler has woken it.          *)
Fairness ==
  /\ WF_vars(KernelThread) /\ WF_vars(InterruptHandler)
  /\ SF_vars(\E l \in Lines : Deliver(l))
  /\ SF_vars(\E d \in Devices : ReadData(d))

-----------------------------------------------------------------------------
InTable(i) == stack[i].pc \in {"run", "unlock"}

(* The handlers are FnMut closures behind a guard that hands out a &mut    *)
(* (interrupt_guard.rs:64): while one context uses the table nothing else  *)
(* runs on the processor, although every gate is a trap gate.              *)
HandlersAreExclusive ==
  /\ \A i \in 1 .. Top : InTable(i) => i = Top
  /\ Top > 0 => pc \notin {"push", "unmask", "unlock", "guarded"}
  /\ pc \in {"push", "unmask"} => ap = "off"

(* A device that raises its line after its handler has been registered is  *)
(* served.                                                                 *)
RaisedIsServed == \A d \in Devices : d \in asserted ~> d \notin asserted

=============================================================================
