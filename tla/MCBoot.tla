------------------------------- MODULE MCBoot -------------------------------
(* Booting, three ways: interrupts and their handlers, the real-time clock, *)
(* or the search for hardware.  A behaviour is one of the three.            *)
EXTENDS Interrupts, Rtc, Boot

VARIABLE which  \* bound: the part that moves

(* A part that does not move is at a point after its last. *)
MCInit ==
  /\ which \in {"interrupts", "rtc", "boot"}
  /\ Start(IF which = "interrupts" THEN "remap" ELSE "off")
  /\ RtcStart(IF which = "rtc" THEN 1 ELSE Len(Calls) + 1)
  /\ BootStart(IF which = "boot" THEN "early" ELSE "off")
  /\ which # "interrupts" => mask = {}
  /\ which # "rtc" => cores = 1
  /\ which # "boot" => machine = 1

MCNext ==
  \/ which = "interrupts" /\ Next /\ UNCHANGED <<rtcVars, bootVars, which>>
  \/ which = "rtc" /\ RtcNext /\ UNCHANGED <<vars, bootVars, which>>
  \/ which = "boot" /\ BootNext /\ UNCHANGED <<vars, rtcVars, which>>

MCSpec ==
  MCInit /\ [][MCNext]_<<vars, rtcVars, bootVars, which>> /\ Fairness /\ RtcFairness /\ BootFairness

Devs == <<"wakeup", "rtl8139", "uhci", "ps2">>
Irqs == [wakeup |-> 16, rtl8139 |-> 11, uhci |-> 11, ps2 |-> 1]

Dev(kind, io, base) ==
  [kind |-> kind, header |-> 0, irq |-> 11, bars |-> <<[io |-> io, base |-> base]>>]
Typed(dev, header) == [dev EXCEPT !.header = header]
Tags == <<[typ |-> 21, size |-> 12, data |-> "load"], [typ |-> 6, size |-> 40, data |-> "mmap"],
          [typ |-> 8, size |-> 38, data |-> "framebuffer"], [typ |-> 14, size |-> 28, data |-> "rsdp"],
          [typ |-> 0, size |-> 8, data |-> "end"]>>
Apic(id) == [typ |-> 0, id |-> id]
IoApic == [typ |-> 1, id |-> 0]

(* Slot 1 of bus 0 has several functions.  The ports of the UHCI card are  *)
(* a multiple of 32, as PCI has it.                                        *)
PC(bar, madt) ==
  [tags |-> Tags, rsdp |-> <<200, 50, 6>>, rsdt |-> <<"FACP", "APIC">>, madt |-> madt,
   pci |-> (<<0, 0, 0>> :> Typed(Dev("other", FALSE, 0), 1))
        @@ (<<0, 1, 0>> :> Typed(Dev("other", FALSE, 0), 128)) @@ (<<0, 1, 1>> :> Dev("other", FALSE, 0))
        @@ (<<1, 0, 0>> :> Typed(Dev("other", FALSE, 0), 2))
        @@ (<<0, 3, 0>> :> Dev("rtl8139", FALSE, 64)) @@ (<<1, 2, 0>> :> Dev("uhci", TRUE, bar))]

Madt == <<Apic(0), Apic(1), Apic(5), Apic(2), IoApic, Apic(3)>>
PCs ==
  <<PC(1024, Madt), PC(96, Madt), PC(32, Madt), PC(1024, <<>>),
    [PC(1024, Madt) EXCEPT !.rsdp = <<1>>], [PC(1024, Madt) EXCEPT !.tags = Tail(Tail(@))],
    [PC(1024, Madt) EXCEPT !.pci[<<0, 3, 0>>].irq = 255],
    [PC(1024, Madt) EXCEPT !.pci[<<0, 3, 0>>].header = 128]>>
=============================================================================
