-------------------------------- MODULE Boot --------------------------------
(***************************************************************************)
(* Kernel::init (src/main.rs), the parts of it that find the hardware: the *)
(* drivers request their ports (module IoAllocator), the tags of the boot  *)
(* loader are searched (src/multiboot2.rs), PCI is scanned (src/io/pci.rs),*)
(* the ACPI tables are searched (src/acpi.rs), and the processors they     *)
(* list are started with interrupts sent through the local APIC            *)
(* (src/multiprocessing.rs, src/gdt.rs).  The interrupt side of the same   *)
(* code is module Interrupts.                                              *)
(***************************************************************************)
EXTENDS IoAllocator, Bits, FiniteSets, SequencesExt

CONSTANTS
  Machines,      \* sequence: the hardware and tables the kernel may find
  Buses, Slots, Functions,  \* 256, 32 and 8: sizes of the PCI address space
  max_num_cpus,  \* stacks that boot.s reserves
  WaitTicks      \* ticks in 0.1 s

ASSUME PortAssumption == W > 3320 /\ {1, 2, 8, 20} \subseteq Lengths

(* The address of the boot processor, which no id of another may equal. *)
BSP_ID == 0

VARIABLES
  machine,     \* index of the one that is booted
  at,          \* program point
  bus_num, device_num, function, finished_iterating,  \* PciDeviceIter
  allocated_devs,
  pci_devices, \* addresses of the general devices, in the order found
  found,       \* drivers that have been constructed
  record,      \* index of the next record of the MADT
  left,        \* ticks until busy_wait ends
  icr_high, icr_low,  \* the interrupt command register, as sets of bits
  cpu_state,   \* of the other processors
  boot_panic

bootVars == <<ioVars, machine, at, bus_num, device_num, function, finished_iterating,
              allocated_devs, pci_devices, found, record, left, icr_high, icr_low, cpu_state,
              boot_panic>>
iter == <<bus_num, device_num, function, finished_iterating, allocated_devs, pci_devices>>
icr == <<icr_high, icr_low>>
aps == <<record, left, icr, cpu_state>>

This == Machines[machine]
ApIds == 0 .. 7

BootStart(point) ==
  /\ IoInit /\ machine \in DOMAIN Machines /\ at = point
  /\ bus_num = 0 /\ device_num = 0 /\ function = 0 /\ finished_iterating = FALSE
  /\ allocated_devs = {} /\ pci_devices = <<>> /\ found = {}
  /\ record = 1 /\ left = 0 /\ icr_high = {} /\ icr_low = {}
  /\ cpu_state = [id \in ApIds |-> "off"] /\ boot_panic = FALSE

BootInit == BootStart("early")

Thread_at(from, to) == ~boot_panic /\ ~io_panic /\ at = from /\ at' = to

(* request_io_range(..).expect(..) *)
expect_range(r) == request_io_range(r.addr, r.length) /\ boot_panic' = (granted' = granted)

Port(addr, length) == [addr |-> addr, length |-> length]

-----------------------------------------------------------------------------
(* TagIterator::next, from loc on: the first tag of the wanted type.  The  *)
(* boot loader puts every tag at the next multiple of 8.                   *)
round_up(size) == 8 * ((size + 7) \div 8)

total_size == FoldSeq(LAMBDA t, n : n + 8 * ((t.size + 7) \div 8), 8, This.tags)

tag_at(loc) ==
  CHOOSE i \in DOMAIN This.tags :
    8 + FoldSeq(LAMBDA t, n : n + 8 * ((t.size + 7) \div 8), 0, SubSeq(This.tags, 1, i - 1)) = loc

find_tag(typ) ==
  LET scan[loc \in 0 .. total_size] ==
        IF loc = total_size THEN "none"
        ELSE LET tag == This.tags[tag_at(loc)]
             IN  IF tag.typ = 0 THEN "none"
                 ELSE IF tag.typ = typ THEN tag.data ELSE scan[loc + round_up(tag.size)]
  IN  scan[8]

(* Serial::new, interrupts::init, io::init_late, Rtc::new and Pci::new     *)
(* request their ports in this order.  Before them allocator::init needs   *)
(* the memory map.                                                         *)
EarlyPorts == <<Port(1016, 8), Port(32, 2), Port(160, 2), Port(244, 1), Port(112, 2), Port(3320, 8)>>

RequestEarly ==
  LET i == Len(granted) + 1
  IN  /\ Thread_at("early", IF i = Len(EarlyPorts) THEN "scan" ELSE "early")
      /\ IF find_tag(6) = "none"
           THEN boot_panic' = TRUE /\ UNCHANGED ioVars
           ELSE expect_range(EarlyPorts[i])
      /\ UNCHANGED <<machine, iter, found, aps>>

-----------------------------------------------------------------------------
select_pci_address(bus, slot, func, offset) ==
  set_bit(set_bits(set_bits(set_bits(bits(offset), 8, 3, func), 11, 5, slot), 16, 8, bus), 31, TRUE)

NoDevice == [kind |-> "nothing", header |-> 255]

(* The host bridge: what answers to an address, and the vendor 0xffff when *)
(* nothing does.                                                           *)
Answering(word) ==
  LET a == <<get_bits(word, 16, 8), get_bits(word, 11, 5), get_bits(word, 8, 3)>>
  IN  IF get_bit(word, 31) /\ a \in DOMAIN This.pci THEN This.pci[a] ELSE NoDevice

Here == <<bus_num, device_num, function>>
config_read(offset) == Answering(select_pci_address(bus_num, device_num, function, offset))

(* Register 0 has the vendor, bits 16 to 23 of register 3 the header type. *)
present == config_read(0).kind # "nothing"
header_type == config_read(12).header

Bug_increment_iter ==
  /\ function' = (function + 1) % Functions
  /\ device_num' = IF function' = 0 THEN (device_num + 1) % Slots ELSE device_num
  /\ bus_num' = IF device_num' = 0 THEN (bus_num + 1) % Buses ELSE bus_num
  /\ finished_iterating' = (function' = 0 /\ device_num' = 0 /\ bus_num' = 0)

increment_iter ==
  LET carry1 == (function + 1) % Functions = 0
      carry2 == carry1 /\ (device_num + 1) % Slots = 0
  IN  /\ function' = (function + 1) % Functions
      /\ device_num' = IF carry1 THEN (device_num + 1) % Slots ELSE device_num
      /\ bus_num' = IF carry2 THEN (bus_num + 1) % Buses ELSE bus_num
      /\ finished_iterating' = (carry2 /\ (bus_num + 1) % Buses = 0)

Upgraded == {0, 1, 2}

(* upgrade: the types of header it knows are those of a general device, of *)
(* a PCI bridge and of a CardBus bridge.  All eight bits are compared, so  *)
(* that a type with bit 7 set (the slot has several functions) is none of  *)
(* them.                                                                   *)
upgrade ==
  IF header_type \notin Upgraded THEN "InvalidHeaderError"
  ELSE IF header_type = 0 THEN "General" ELSE "bridge"

(* PciDeviceIter::next, once round its loop; a device is marked as in use  *)
(* before its type is looked at, and Kernel::init drops all but the        *)
(* general ones, errors too.                                               *)
Scan ==
  /\ Thread_at("scan", "scan") /\ ~finished_iterating
  /\ allocated_devs' = IF present THEN allocated_devs \cup {Here} ELSE allocated_devs
  /\ boot_panic' = (present /\ Here \in allocated_devs)
  /\ pci_devices' = IF present /\ upgrade = "General" THEN Append(pci_devices, Here) ELSE pci_devices
  /\ increment_iter
  /\ UNCHANGED <<ioVars, machine, found, aps>>

ScanDone ==
  /\ Thread_at("scan", "drivers") /\ finished_iterating
  /\ UNCHANGED <<ioVars, machine, iter, found, aps, boot_panic>>

(* find_io_base and find_mmap_range: the first base address register of    *)
(* the right kind that is set.                                             *)
set_bars(dev, io) == {i \in DOMAIN dev.bars : dev.bars[i].io = io /\ dev.bars[i].base > 0}
first_bar(dev, io) == dev.bars[Min(set_bars(dev, io))].base

(* get_irq_num *)
valid_irq(dev) == dev.irq < 16

(* Kernel::init's loop over the devices: Rtl8139::new maps its registers,  *)
(* Uhci::new requests its ports; both unwrap what they need.               *)
Driver ==
  /\ Thread_at("drivers", "drivers") /\ pci_devices # <<>>
  /\ LET dev == This.pci[Head(pci_devices)]
     IN  CASE dev.kind = "uhci" /\ valid_irq(dev) /\ set_bars(dev, TRUE) # {} ->
                /\ \E base \in 0 .. W - 1 :  \* as u16
                     base = first_bar(dev, TRUE) % W /\ expect_range(Port(base, 20))
                /\ found' = found \cup {"uhci"}
           [] dev.kind = "rtl8139" /\ valid_irq(dev) /\ set_bars(dev, FALSE) # {} ->
                found' = found \cup {"rtl8139"} /\ UNCHANGED <<ioVars, boot_panic>>
           [] OTHER -> boot_panic' = (dev.kind # "other") /\ UNCHANGED <<ioVars, found>>
  /\ pci_devices' = Tail(pci_devices)
  /\ UNCHANGED <<machine, bus_num, device_num, function, finished_iterating, allocated_devs, aps>>

DriversDone ==
  /\ Thread_at("drivers", "data") /\ pci_devices = <<>>
  /\ boot_panic' = (found # {"uhci", "rtl8139"} \/ find_tag(8) = "none")
  /\ UNCHANGED <<ioVars, machine, iter, found, aps>>

(* Ps2Keyboard::new *)
Ps2Data ==
  /\ Thread_at("data", "command") /\ expect_range(Port(96, 1))
  /\ UNCHANGED <<machine, iter, found, aps>>

Ps2Command ==
  /\ Thread_at("command", "acpi") /\ expect_range(Port(100, 1))
  /\ UNCHANGED <<machine, iter, found, aps>>

-----------------------------------------------------------------------------
validate_checksum(bytes) == FoldSeq(LAMBDA b, acc : (acc + b) % 256, 0, bytes) = 0

(* get_rsdp, and the search of the RSDT for the MADT. *)
Acpi ==
  /\ Thread_at("acpi", "madt")
  /\ boot_panic' = \/ find_tag(14) = "none" \/ ~validate_checksum(This.rsdp)
                   \/ ~Contains(This.rsdt, "APIC")
  /\ UNCHANGED <<ioVars, machine, iter, found, aps>>

(* MadtEntryIter::next: a record of another type ends the iteration.       *)
more_entries == record <= Len(This.madt) /\ This.madt[record].typ = 0
apic_id == This.madt[record].id

to_boot(id) == id < max_num_cpus /\ id # BSP_ID

(* The loop of boot_all_cpus. *)
NextCpu ==
  /\ at = "madt"
  /\ \/ ~more_entries /\ Thread_at("madt", "done") /\ UNCHANGED record
     \/ more_entries /\ ~to_boot(apic_id) /\ Thread_at("madt", "madt") /\ record' = record + 1
     \/ more_entries /\ to_boot(apic_id) /\ Thread_at("madt", "init") /\ UNCHANGED record
  /\ UNCHANGED <<ioVars, machine, iter, found, left, icr, cpu_state, boot_panic>>

INIT == 5
STARTUP == 6

(* InterruptCommand::to_u32: idle, physical, no shorthand. *)
to_u32(word, vector, delivery_mode, level, trigger) ==
  LET a == set_bits(set_bits(word, 0, 8, vector), 8, 3, delivery_mode)
      b == set_bits(set_bits(a, 11, 1, 0), 12, 1, 0)
  IN  set_bits(set_bits(set_bits(b, 14, 1, level), 15, 1, trigger), 18, 2, 0)

select_ap(id) == icr_high' = set_bits(icr_high, 24, 8, id)

(* A write of the low half sends the interrupt: bit 12 is set until it is  *)
(* delivered.                                                              *)
send(vector, delivery_mode, level, trigger) ==
  icr_low' = set_bit(to_u32(icr_low, vector, delivery_mode, level, trigger), 12, TRUE)

Pending == get_bit(icr_low, 12)
bootRest == <<ioVars, machine, iter, found, record, cpu_state, boot_panic>>

send_init_ipi ==
  /\ Thread_at("init", "deinit") /\ select_ap(apic_id) /\ send(0, INIT, 1, 1)
  /\ UNCHANGED <<bootRest, left>>

(* wait_ipi_delivered comes between the two. *)
send_deinit_ipi ==
  /\ Thread_at("deinit", "wait") /\ ~Pending /\ select_ap(apic_id) /\ send(0, INIT, 0, 1)
  /\ UNCHANGED <<bootRest, left>>

Bug_wait_ticks == 0

wait_ticks == WaitTicks

BusyWait ==
  /\ ~Pending /\ Thread_at("wait", "startup") /\ left' = wait_ticks
  /\ UNCHANGED <<bootRest, icr>>

send_startup_ipi ==
  /\ left = 0 /\ Thread_at("startup", "wait again") /\ select_ap(apic_id) /\ send(8, STARTUP, 0, 0)
  /\ UNCHANGED <<bootRest, left>>

BusyWaitAgain ==
  /\ Thread_at("wait again", "startup again") /\ left' = wait_ticks
  /\ UNCHANGED <<bootRest, icr>>

(* After the second startup interrupt comes the next processor. *)
send_startup_again ==
  /\ left = 0 /\ Thread_at("startup again", "madt")
  /\ select_ap(apic_id) /\ send(8, STARTUP, 0, 0) /\ record' = record + 1
  /\ UNCHANGED <<ioVars, machine, iter, found, left, cpu_state, boot_panic>>

-----------------------------------------------------------------------------
world_rest == <<ioVars, machine, at, iter, found, record, icr_high, boot_panic>>

(* A tick.  It is longer than the delivery of an interrupt takes, and a    *)
(* processor takes that long to come out of its reset.                     *)
BootTick ==
  /\ ~Pending /\ left > 0 /\ left' = left - 1
  /\ cpu_state' = [id \in ApIds |-> IF cpu_state[id] = "reset" THEN "waiting" ELSE cpu_state[id]]
  /\ UNCHANGED <<world_rest, icr_low>>

(* The interrupt arrives.  A startup interrupt is lost on a processor that *)
(* does not wait for it.                                                   *)
Delivered ==
  LET id == get_bits(icr_high, 24, 8)
      mode == get_bits(icr_low, 8, 3)
      asserted_level == get_bit(icr_low, 14)
  IN  /\ Pending /\ icr_low' = set_bit(icr_low, 12, FALSE)
      /\ cpu_state' =
           CASE mode = INIT /\ asserted_level -> [cpu_state EXCEPT ![id] = "reset"]
             [] mode = STARTUP /\ cpu_state[id] = "waiting" ->
                  [cpu_state EXCEPT ![id] = IF get_bits(icr_low, 0, 8) = 8 THEN "trampoline" ELSE "lost"]
             [] OTHER -> cpu_state
      /\ UNCHANGED <<world_rest, left>>

(* GdtSegment::new; base and limit are 0 and the largest word.  A byte of  *)
(* flags is given as a value.                                              *)
gen_access_byte(e, rw) ==
  value(set_bit(set_bit(set_bit(set_bit(set_bits(set_bit({}, 7, TRUE), 5, 2, 0), 4, TRUE), 3, e), 1, rw), 0, TRUE))

Ones(n) == 2 ^ n - 1

GdtSegment(base, low, high, acc, flags) ==
  LET a == set_bits(set_bits({}, 0, 16, low), 48, 4, high)
      b == set_bits(set_bits(a, 16, 24, base), 56, 8, 0)
  IN  set_bits(set_bits(b, 40, 8, acc), 52, 4, flags)

get_gdt_vals ==
  <<{}, GdtSegment(0, Ones(16), Ones(4), gen_access_byte(TRUE, FALSE), 12),
    GdtSegment(0, Ones(16), Ones(4), gen_access_byte(FALSE, TRUE), 12)>>

(* The processor runs only on a flat 32-bit segment that is present. *)
flat(seg) ==
  /\ get_bits(seg, 16, 24) = 0 /\ get_bits(seg, 56, 8) = 0
  /\ get_bits(seg, 0, 16) = Ones(16) /\ get_bits(seg, 48, 4) = Ones(4)
  /\ get_bit(seg, 47) /\ get_bit(seg, 44) /\ get_bit(seg, 54) /\ get_bit(seg, 55)

(* ap_startup, up to its entry in the queue of booted processors. *)
ap_startup(id) ==
  /\ cpu_state[id] = "trampoline"
  /\ cpu_state' = [cpu_state EXCEPT ![id] =
       IF /\ flat(get_gdt_vals[2]) /\ get_bit(get_gdt_vals[2], 43)
          /\ flat(get_gdt_vals[3]) /\ get_bit(get_gdt_vals[3], 41)
       THEN "booted" ELSE "fault"]
  /\ UNCHANGED <<world_rest, icr_low, left>>

BootThread ==
  \/ RequestEarly \/ Scan \/ ScanDone \/ Driver \/ DriversDone \/ Ps2Data \/ Ps2Command \/ Acpi
  \/ NextCpu \/ send_init_ipi \/ send_deinit_ipi \/ BusyWait \/ send_startup_ipi
  \/ BusyWaitAgain \/ send_startup_again

Hardware == BootTick \/ Delivered \/ \E id \in ApIds : ap_startup(id)

BootNext == BootThread \/ Hardware

BootSpec == BootInit /\ [][BootNext]_bootVars

(* The boot processor runs, and so do the clock, the bus of the APICs and  *)
(* the processors that have been started.                                  *)
BootFairness ==
  /\ WF_bootVars(BootThread) /\ WF_bootVars(BootTick) /\ WF_bootVars(Delivered)
  /\ \A id \in ApIds : WF_bootVars(ap_startup(id))

-----------------------------------------------------------------------------
(* The devices whose header type is 0 in all eight bits. *)
General == {a \in DOMAIN This.pci : This.pci[a].header = 0}

(* The scan ends with every general device that is there, on whatever bus, *)
(* slot and function, each once and nothing else, and never takes one for  *)
(* a device already in use (pci.rs:24, 167).  A general device that also   *)
(* says that its slot has several functions (0x80) is not among them: the  *)
(* code skips it (pci.rs:172-177, main.rs:259-262).                        *)
ScanFindsAll ==
  /\ at = "scan" => ~boot_panic
  /\ at = "scan" /\ finished_iterating =>
       ToSet(pci_devices) = General /\ Len(pci_devices) = Cardinality(General)

(* The processors the MADT lists before a record of another type. *)
Listed ==
  {This.madt[i].id : i \in {j \in DOMAIN This.madt :
                                 \A m \in 1 .. j : This.madt[m].typ = 0}}

(* When the boot has come to the MADT, every processor listed in it for    *)
(* which boot.s has a stack is started, and no other                       *)
(* (multiprocessing.rs:439): each gets a startup interrupt, addressed to   *)
(* it, once it is out of its reset.                                        *)
EveryListedCpuStarts ==
  at = "madt" /\ ~boot_panic ~>
    at = "done" /\ \A id \in ApIds :
      cpu_state[id] = IF id \in Listed /\ to_boot(id) THEN "booted" ELSE "off"

=============================================================================
