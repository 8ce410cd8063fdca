-------------------------------- MODULE Rtc --------------------------------
(***************************************************************************)
(* The real-time clock (src/io/rtc.rs).  Its registers are reached through *)
(* an index and a data port, which the code that reads and writes the date *)
(* shares with the handler of the periodic interrupt.                      *)
(*                                                                         *)
(* An InterruptGuarded keeps the two apart on the boot processor; on a     *)
(* secondary one, where the executor may poll the task that reads the date *)
(* (init_demo, src/main.rs), it does nothing.  Of the eight registers of a *)
(* date two are modelled.                                                  *)
(***************************************************************************)
EXTENDS Integers, Sequences

CONSTANTS
  Secs, Mins,   \* values of the two registers: 0 .. Secs - 1, 0 .. Mins - 1
  MaxUpdates,   \* bound on the updates of the clock
  NumCores      \* most processors a machine may have

ASSUME RtcAssumption ==
  /\ {Secs, Mins, NumCores} \subseteq Nat \ {0} /\ MaxUpdates \in Nat

A == 10  \* status registers: rate and update-in-progress,
B == 11  \* format and interrupt enable (0x8b, too, with the NMI masked)
C == 12  \* pending interrupts, cleared when read
SEC == 0
MIN == 2

VARIABLES
  cores,    \* processors of this machine
  cpu,      \* the one the code runs on: "bsp" or "ap"
  calls,    \* number of the call in Calls
  step,     \* "idle", "before", "body", "after" or "unlock"
  k,        \* next access of the body
  selected, \* the index of the next access has been written
  held,     \* interrupts of the boot processor are off
  index,    \* the index register
  clock,    \* the date: Secs * minutes + seconds
  phase,    \* "quiet", "soon" (an update is announced), "update"
  updates,
  format, rate, enabled_irq,  \* what Rtc::new sets in registers B and A
  flag,     \* register C has an interrupt pending
  line,     \* the interrupt controller has latched it
  hstep,    \* the handler: "idle", "tick", "select", "read"
  got,      \* the date read, or to be written
  during    \* history: dates the clock showed since the body began

rtcVars == <<cores, cpu, calls, step, k, selected, held, index, clock, phase, updates, format, rate,
             enabled_irq, flag, line, hstep, got, during>>
device == <<clock, phase, updates, format, rate, enabled_irq, flag, line>>

(* c is the first call that is made. *)
RtcStart(c) ==
  /\ cores \in 1 .. NumCores /\ cpu = "bsp"
  /\ calls = c /\ step = "idle" /\ k = 1 /\ selected = FALSE /\ held = FALSE
  /\ index = SEC /\ clock = Secs - 1 /\ phase = "quiet" /\ updates = 0
  /\ format = FALSE /\ rate = FALSE /\ enabled_irq = FALSE
  /\ flag = FALSE /\ line = FALSE /\ hstep = "idle"
  /\ got = [sec |-> 0, min |-> 0] /\ during = {}

(* Kernel::init, then init_demo. *)
Calls == <<"new", "read", "read", "write", "read">>
Call == Calls[calls]

(* The registers a call accesses: set_data_format, set_interrupt_rate and  *)
(* enable_interrupts, or the registers of the date.                        *)
Body ==
  IF Call = "new"
    THEN <<[op |-> "read", reg |-> B], [op |-> "format", reg |-> B],
           [op |-> "read", reg |-> A], [op |-> "rate", reg |-> A],
           [op |-> "read", reg |-> B], [op |-> "enable", reg |-> B]>>
    ELSE <<[op |-> Call, reg |-> SEC], [op |-> Call, reg |-> MIN]>>

RtcRunning == calls <= Len(Calls) /\ (cpu = "bsp" => hstep = "idle")
RtcStep(from, to) == RtcRunning /\ step = from /\ step' = to

(* InterruptGuarded::lock does nothing on a secondary processor. *)
mask_irqs == cpu' = "bsp"

(* The demo's calls are made in one poll, on a processor of the executor's *)
(* choice.                                                                 *)
RtcLock ==
  /\ RtcStep("idle", IF Call = "new" THEN "body" ELSE "before")
  /\ cpu' \in (IF calls = 3 /\ cores > 1 THEN {"bsp", "ap"} ELSE {cpu})
  /\ cpu' = "bsp" => hstep = "idle"
  /\ held' = mask_irqs
  /\ k' = 1 /\ selected' = FALSE
  /\ got' = IF Call = "write" THEN [got EXCEPT !.min = (@ + 1) % Mins] ELSE got
  /\ UNCHANGED <<cores, calls, index, device, hstep, during>>

(* select_reg *)
SelectReg ==
  /\ RtcRunning /\ step \in {"before", "body", "after"} /\ ~selected
  /\ index' = IF step = "body" THEN Body[k].reg ELSE A
  /\ selected' = TRUE
  /\ UNCHANGED <<cores, cpu, calls, step, k, held, device, hstep, got, during>>

(* What a read of register i may return. *)
Values(i) ==
  CASE i = SEC /\ phase # "update" -> {clock % Secs}
    [] i = MIN /\ phase # "update" -> {clock \div Secs}
    [] OTHER -> 0 .. Secs - 1

in_progress_set == IF index = A THEN {phase # "quiet"} ELSE BOOLEAN

(* The loop of update_guarded_op, before its body ... *)
CheckBefore ==
  /\ RtcRunning /\ step = "before" /\ selected
  /\ \E busy \in in_progress_set :
       /\ step' = IF busy THEN "before" ELSE "body"
       /\ during' = IF busy THEN during ELSE {clock}
  /\ selected' = FALSE /\ k' = 1
  /\ UNCHANGED <<cores, cpu, calls, held, index, device, hstep, got>>

next_access == /\ k' = k + 1 /\ selected' = FALSE
          /\ step' = IF k < Len(Body) THEN step ELSE IF Call = "new" THEN "unlock" ELSE "after"

RegAccess(op) == RtcRunning /\ step = "body" /\ selected /\ Body[k].op = op /\ next_access

(* read_cmos_reg *)
ReadReg ==
  /\ RegAccess("read")
  /\ \E v \in Values(index) :
       got' = CASE Body[k].reg = SEC -> [got EXCEPT !.sec = v]
                [] Body[k].reg = MIN -> [got EXCEPT !.min = v]
                [] OTHER -> got
  /\ flag' = (flag /\ index # C)
  /\ UNCHANGED <<cores, cpu, calls, held, index, clock, phase, updates, format, rate, enabled_irq,
                 line, hstep, during>>

(* write_cmos_reg, of the date ... *)
WriteReg ==
  /\ RegAccess("write")
  /\ clock' = CASE index = SEC -> Secs * (clock \div Secs) + got.sec
                [] index = MIN -> Secs * got.min + (clock % Secs)
                [] OTHER -> clock
  /\ during' = during \cup {clock'}
  /\ UNCHANGED <<cores, cpu, calls, held, index, phase, updates, format, rate, enabled_irq, flag,
                 line, hstep, got>>

(* ... and of the status registers. *)
WriteStatus ==
  /\ \E op \in {"format", "rate", "enable"} :
       /\ RegAccess(op)
       /\ format' = (format \/ op = "format") /\ rate' = (rate \/ op = "rate")
       /\ enabled_irq' = (enabled_irq \/ op = "enable")
  /\ UNCHANGED <<cores, cpu, calls, held, index, clock, phase, updates, flag, line, hstep, got,
                 during>>

Bug_again == {FALSE}

again == in_progress_set

(* ... and after it. *)
CheckAfter ==
  /\ RtcRunning /\ step = "after" /\ selected
  /\ \E busy \in again : step' = IF busy THEN "before" ELSE "unlock"
  /\ selected' = FALSE
  /\ UNCHANGED <<cores, cpu, calls, k, held, index, device, hstep, got, during>>

RtcUnlock ==
  /\ RtcStep("unlock", "idle")
  /\ held' = FALSE /\ calls' = calls + 1
  /\ UNCHANGED <<cores, cpu, k, selected, index, device, hstep, got, during>>

-----------------------------------------------------------------------------
TickRegistered == calls > 1

(* The periodic interrupt: no other follows until register C is read. *)
Periodic ==
  /\ enabled_irq /\ rate /\ ~flag
  /\ flag' = TRUE /\ line' = TRUE
  /\ UNCHANGED <<cores, cpu, calls, step, k, selected, held, index, clock, phase, updates, format,
                 rate, enabled_irq, hstep, got, during>>

(* The handler that Rtc::new registers: on_tick, then clear_interrupt_mask. *)
HandlerStep(from, to) ==
  /\ hstep = from /\ hstep' = to
  /\ UNCHANGED <<cores, cpu, calls, step, k, selected, held, clock, phase, updates, format, rate,
                 enabled_irq, got, during>>

TickDeliver ==
  /\ HandlerStep("idle", "tick") /\ line /\ ~held /\ TickRegistered
  /\ line' = FALSE
  /\ UNCHANGED <<index, flag>>

on_tick == HandlerStep("tick", "select") /\ UNCHANGED <<index, flag, line>>

Bug_pending_reg == B

pending_reg == C

ClearSelect == HandlerStep("select", "read") /\ index' = pending_reg /\ UNCHANGED <<flag, line>>

ClearRead ==
  /\ HandlerStep("read", "idle")
  /\ flag' = (flag /\ index # C)
  /\ UNCHANGED <<index, line>>

-----------------------------------------------------------------------------
ClockStep(from, to) ==
  /\ phase = from /\ phase' = to
  /\ UNCHANGED <<cores, cpu, calls, step, k, selected, held, index, format, rate, enabled_irq,
                 flag, line, hstep, got>>

UpdateSoon == ClockStep("quiet", "soon") /\ updates < MaxUpdates /\ UNCHANGED <<clock, updates, during>>

UpdateStart == ClockStep("soon", "update") /\ UNCHANGED <<clock, updates, during>>

(* An update lasts longer than the few accesses between the two checks of  *)
(* update_guarded_op.                                                      *)
UpdateEnd ==
  /\ ClockStep("update", "quiet") /\ step \notin {"body", "after"}
  /\ clock' = (clock + 1) % (Secs * Mins) /\ updates' = updates + 1
  /\ UNCHANGED during

Code == RtcLock \/ SelectReg \/ CheckBefore \/ ReadReg \/ WriteReg \/ WriteStatus \/ CheckAfter \/ RtcUnlock
TickHandler == on_tick \/ ClearSelect \/ ClearRead
Clock == UpdateSoon \/ UpdateStart \/ UpdateEnd

RtcNext == Code \/ TickHandler \/ TickDeliver \/ Periodic \/ Clock

(* Processors execute, and the clock goes on. *)
RtcFairness ==
  /\ WF_rtcVars(Code) /\ WF_rtcVars(TickHandler) /\ WF_rtcVars(TickDeliver)
  /\ WF_rtcVars(Periodic) /\ WF_rtcVars(UpdateStart \/ UpdateEnd)

-----------------------------------------------------------------------------
DateOf(d) == Secs * d.min + d.sec

(* On a machine with one processor the date that Rtc::read returns is one  *)
(* the clock has shown, and the one that Rtc::write leaves is the one it   *)
(* was given, although the clock is updated and the tick handler moves the *)
(* index register (rtc.rs:115, 171).                                       *)
DateIsWhole ==
  cores = 1 /\ step = "unlock" /\ Call # "new" => DateOf(got) \in during

(* On a machine with one processor, once Rtc::new has enabled them ticks go *)
(* on for ever: every one is acknowledged by a read of register C (rtc.rs:111).   *)
(* With more, a task that selects a register between the two accesses of   *)
(* clear_interrupt_mask stops the clock of the kernel.                     *)
TicksGoOn == cores = 1 => [](enabled_irq => <>(hstep = "tick"))

=============================================================================
