------------------------------ MODULE UsbWire ------------------------------
(***************************************************************************)
(* What the USB stack says to the card and to a device, bit by bit: the    *)
(* registers and the transfer descriptors (src/usb/uhci.rs), the requests  *)
(* and the descriptors (src/usb/mod.rs), and how usb_driver_dispatch       *)
(* (src/main.rs) and the mouse driver (src/mouse.rs) read them.  Module    *)
(* Usb has the waiting and the waking; here a request is one step.         *)
(*                                                                         *)
(* Words are sets of bits (module Bits), data are sequences of octets, and *)
(* the TD of index i is at address 64 * i, its data at 64 * i + 32.  The   *)
(* card and the device, external, decode what they are given by the        *)
(* layouts of UHCI and USB.  One device is plugged in: a second one would  *)
(* be given the address of the first (usb/mod.rs:242).                     *)
(***************************************************************************)
EXTENDS Bits, Sequences

CONSTANT Devices  \* [port, descriptors, endpoint (0: not a mouse), reports]

VARIABLES
  plugged,   \* the device
  at,        \* program point; "off" when unused
  after,     \* and where it goes on when the work is done
  slot,      \* the port being enumerated
  announced, \* the device has been sent to usb_driver_dispatch
  regs,      \* [cmd, intr, frames] of the card
  portsc,    \* status register of each port
  dev,       \* [address, configured, setup, toggle, told] of the device
  head,      \* element link of the queue head
  chain,     \* TDs of the current work
  rest,      \* descriptors not yet looked at
  relevant,  \* in_relevant_interface
  endpoint,
  data_toggle,
  moves      \* movements sent to the cursor

wireVars == <<plugged, at, after, slot, announced, regs, portsc, dev, head, chain, rest, relevant, endpoint,
              data_toggle, moves>>
hardware == <<regs, portsc, dev>>
work == <<head, chain>>
mouse == <<rest, relevant, endpoint, data_toggle, moves>>

-----------------------------------------------------------------------------
set_link_pointer(word, kind, ptr) ==
  CASE kind = "None" -> set_bit(word, 0, TRUE)
    [] kind = "TD" -> set_bits(set_bit(set_bit(word, 0, FALSE), 1, FALSE), 4, 28, ptr \div 16)
    [] kind = "QH" -> set_bits(set_bit(set_bit(word, 0, FALSE), 1, TRUE), 4, 28, ptr \div 16)

get_link_pointer(word) ==
  IF get_bit(word, 0) THEN [kind |-> "None", ptr |-> 0]
  ELSE [kind |-> IF get_bit(word, 1) THEN "QH" ELSE "TD", ptr |-> value(word \ 0 .. 3)]

set_maxlen(word, len) == set_bits(word, 21, 11, IF len = 0 THEN 2047 ELSE len - 1)
set_data_toggle(word, val) == set_bit(word, 19, val)
set_endpoint(word, val) == set_bits(word, 15, 4, val)
set_address(word, val) == set_bits(word, 8, 7, val)
set_pid(word, val) == set_bits(word, 0, 8, val)
set_low_speed(word, val) == set_bit(word, 26, val)
set_interrupt_on_complete(word, val) == set_bit(word, 24, val)
set_status(word, val) == set_bits(word, 16, 8, val)

Pid == [setup |-> 45, out |-> 225, in |-> 105]

generate_td(i, packet) ==
  [link |-> set_link_pointer({}, "None", 0),
   control |-> set_status(set_low_speed({}, TRUE), 128),
   token |-> set_data_toggle(set_pid(set_endpoint(set_address(set_maxlen({}, Len(packet.data)),
               packet.address), packet.endpoint), Pid[packet.pid]), packet.data_toggle),
   data |-> bits(64 * i + 32), buf |-> packet.data]

chain_tds(s) ==
  [i \in DOMAIN s |->
     IF i = Len(s) THEN [s[i] EXCEPT !.control = set_interrupt_on_complete(@, TRUE)]
     ELSE [s[i] EXCEPT !.link = set_link_pointer(@, "TD", 64 * (i + 1))]]

(* UhciFuture::poll looks at bit 23 of every TD. *)
some_td_active == \E i \in DOMAIN chain : get_bit(chain[i].control, 23)

-----------------------------------------------------------------------------
le(n) == <<n % 256, n \div 256>>
from_le(s, i) == s[i + 1] + 256 * s[i + 2]

Packet(pid, address, ep, toggle, data) ==
  [pid |-> pid, address |-> address, endpoint |-> ep, data_toggle |-> toggle, data |-> data]

(* UsbPacket::setup, and the accessors of UsbSetupRequest. *)
setup(address, request_type, request, val, length) ==
  Packet("setup", address, 0, FALSE, <<request_type, request>> \o le(val) \o le(0) \o le(length))

zeroed(n) == [i \in 1 .. n |-> 0]

set_address_work(address) ==
  <<setup(0, 0, 5, address, 0), Packet("in", 0, 0, TRUE, <<>>)>>

(* The acknowledgement is asked of address 0 (usb/mod.rs:222). *)
set_configuration_work(address, config) ==
  <<setup(address, 0, 9, config, 0), Packet("in", 0, 0, TRUE, <<>>)>>

generate_get_configuration_descriptor(address, size) ==
  <<setup(address, 128, 6, 2 * 256, size), Packet("in", address, 0, FALSE, zeroed(size)),
    Packet("out", address, 0, FALSE, <<>>)>>

read_packet == Packet("in", 1, endpoint, data_toggle, zeroed(8))

-----------------------------------------------------------------------------
WireStart(point) ==
  /\ plugged \in Devices /\ at = point /\ after = "off" /\ slot = 1 /\ announced = FALSE
  /\ regs = [cmd |-> {}, intr |-> {}, frames |-> {0}]
  /\ portsc = [p \in 1 .. 2 |-> IF p = plugged.port THEN {0, 1, 8} ELSE {}]
  /\ dev = [address |-> 7, configured |-> FALSE, setup |-> <<>>, toggle |-> FALSE, told |-> 0]
  /\ head = {0} /\ chain = <<>>
  /\ rest = <<>> /\ relevant = FALSE /\ endpoint = 0 /\ data_toggle = FALSE /\ moves = <<>>

Goto(from, to) == at = from /\ at' = to /\ UNCHANGED plugged

(* A device that is reset listens at address 0. *)
DeviceReset == [dev EXCEPT !.address = 0, !.configured = FALSE, !.setup = <<>>, !.toggle = FALSE]

CmdBits == <<"run", "host_controller_reset", "global_reset", "global_suspend", "global_resume",
             "software_debug", "configure", "max_packet">>
to_u16(cmd) == {b \in 0 .. 7 : CmdBits[b + 1] \in cmd}

(* A write of the command register.  Either reset disables the ports; the  *)
(* global one resets the devices too.                                      *)
Command(cmd) ==
  /\ regs' = [regs EXCEPT !.cmd = to_u16(cmd)]
  /\ dev' = IF 2 \in regs'.cmd THEN DeviceReset ELSE dev
  /\ portsc' = IF {1, 2} \cap regs'.cmd = {} THEN portsc ELSE [p \in 1 .. 2 |-> portsc[p] \ {2}]
  /\ UNCHANGED <<after, slot, announced, work, mouse>>

(* Uhci::reset, with a sleep between the steps. *)
GlobalReset == Goto("reset", "unreset") /\ Command({"global_reset"})
Unreset == Goto("unreset", "host_reset") /\ Command({})
HostReset == Goto("host_reset", "init") /\ Command({"host_controller_reset"})

(* The rest of Uhci::init, and no sleep.  Every entry of the frame list is  *)
(* a link to the queue head.                                               *)
QueueHead == 4096

StartCard ==
  /\ Goto("init", "port")
  /\ regs' = [cmd |-> to_u16({"max_packet", "configure", "run"}), intr |-> {2},
              frames |-> set_link_pointer({}, "QH", QueueHead)]
  /\ UNCHANGED <<after, slot, announced, portsc, dev, work, mouse>>

-----------------------------------------------------------------------------
(* A write to the port: 1 and 3 are cleared by a one, 0, 4, 5 and 8 are    *)
(* read only, and a port is enabled only with a device and out of reset.   *)
Written(old, new) ==
  LET kept == (old \cap {0, 4, 5, 8}) \cup ((old \cap {1, 3}) \ new)
      set == new \cap {2, 6, 9, 12}
  IN kept \cup IF 0 \in old /\ 9 \notin new THEN set ELSE set \ {2}

WritePort(new) ==
  /\ portsc' = [portsc EXCEPT ![slot] = Written(@, new)]
  /\ dev' = IF 9 \in new /\ slot = plugged.port THEN DeviceReset ELSE dev
  /\ UNCHANGED <<after, slot, announced, regs, work, mouse>>

set_all(word, shifts, val) == IF val THEN word \cup shifts ELSE word \ shifts

(* reset_port: reset on; off, leaving the change bits alone; enable. *)
PortReset == slot <= 2 /\ Goto("port", "release") /\ WritePort(set_bit(portsc[slot], 9, TRUE))
PortRelease ==
  Goto("release", "enable") /\ WritePort(set_all(portsc[slot], {1, 2, 3, 6, 8, 9}, FALSE))

(* Two writes in a row: the second value keeps the bit of the first. *)
PortEnable ==
  LET first == set_bit(portsc[slot], 1, TRUE) IN
  /\ Goto("enable", "check")
  /\ portsc' = [portsc EXCEPT ![slot] = Written(Written(@, first), set_bit(first, 2, TRUE))]
  /\ UNCHANGED <<after, slot, announced, regs, dev, work, mouse>>

PortCheck ==
  LET up == get_bit(portsc[slot], 2) /\ get_bit(portsc[slot], 0) IN
  /\ Goto("check", IF up THEN "set_address" ELSE "port")
  /\ slot' = IF up THEN slot ELSE slot + 1
  /\ UNCHANGED <<after, announced, hardware, work, mouse>>

(* The requests of usb_driver_dispatch are served after the last port. *)
SlotsDone ==
  /\ slot > 2 /\ Goto("port", IF announced THEN "head" ELSE "no_device")
  /\ UNCHANGED <<after, slot, announced, hardware, work, mouse>>

-----------------------------------------------------------------------------
(* append_work, on a queue whose earlier TDs have been taken out. *)
Append_work(from, packets, next) ==
  /\ Goto(from, "busy") /\ after' = next
  /\ chain' = chain_tds([i \in DOMAIN packets |-> generate_td(i, packets[i])])
  /\ head' = set_link_pointer(head, "TD", 64)
  /\ UNCHANGED <<slot, announced, hardware>>

SetAddress == Append_work("set_address", set_address_work(1), "set_configuration") /\ UNCHANGED mouse
SetConfiguration ==
  Append_work("set_configuration", set_configuration_work(1, 1), "announce") /\ UNCHANGED mouse

(* get_configuration_descriptors asks for the first descriptor, and then   *)
(* for as many octets as it says there are; usb_driver_dispatch does so,   *)
(* and the mouse driver again.                                             *)
GetHead(from, next) ==
  Append_work(from, generate_get_configuration_descriptor(1, 9), next) /\ UNCHANGED mouse

total_length(descriptor) == from_le(descriptor, 2)

GetAll(from, next) ==
  /\ Append_work(from, generate_get_configuration_descriptor(1, total_length(rest)), next)
  /\ UNCHANGED mouse

ReadMouse ==
  /\ Append_work("read", <<read_packet>>, "report") /\ data_toggle' = ~data_toggle
  /\ UNCHANGED <<rest, relevant, endpoint, moves>>

(* No TD is active: the buffers are handed back and the TDs freed.  The    *)
(* answer to a request of three packets is in the second.                  *)
WorkDone ==
  /\ at = "busy" /\ ~some_td_active /\ at' = after
  /\ chain' = <<>> /\ rest' = chain[IF Len(chain) = 1 THEN 1 ELSE 2].buf
  /\ UNCHANGED <<plugged, after, slot, announced, hardware, head, relevant, endpoint, data_toggle, moves>>

Announce ==
  /\ Goto("announce", "port") /\ announced' = TRUE /\ slot' = slot + 1
  /\ UNCHANGED <<after, hardware, work, mouse>>

-----------------------------------------------------------------------------
(* The card serves the TD that the queue head names.                       *)
Current == get_link_pointer(head).ptr \div 64
Buffer(ptr) == {i \in DOMAIN chain : 64 * i + 32 = ptr}
Field(td, shift, length) == get_bits(td.token, shift, length)
MaxLen(td) == (Field(td, 21, 11) + 1) % 2048

Upto(s, n) == SubSeq(s, 1, IF n < Len(s) THEN n ELSE Len(s))

(* What the device answers to an IN: to a request for its descriptors, in  *)
(* the status stage of another, or at the endpoint of the mouse, when its  *)
(* data toggle is the one expected.                                        *)
Answer(td) ==
  CASE Field(td, 15, 4) = 0 /\ dev.setup[2] = 6 -> Upto(plugged.descriptors, from_le(dev.setup, 6))
    [] Field(td, 15, 4) = 0 /\ dev.setup[2] # 6 -> <<>>
    [] OTHER -> LET r == plugged.reports[dev.told + 1] IN <<0, r[1] % 256, r[2] % 256>>

Heard(td) ==
  /\ 2 \in portsc[plugged.port] /\ Field(td, 8, 7) = dev.address
  /\ Field(td, 15, 4) = 0 \/ (Field(td, 15, 4) = plugged.endpoint
                              /\ (19 \in td.token) = dev.toggle)
Has(td) == Field(td, 15, 4) = 0 \/ dev.told < Len(plugged.reports)

Told(td) ==
  CASE Field(td, 0, 8) = 45 -> [dev EXCEPT !.setup = td.buf]
    [] Field(td, 0, 8) = 105 /\ Field(td, 15, 4) # 0 -> [dev EXCEPT !.told = @ + 1, !.toggle = ~@]
    [] Field(td, 0, 8) = 105 /\ Field(td, 15, 4) = 0 /\ dev.setup[2] = 5 ->
         [dev EXCEPT !.address = from_le(dev.setup, 2)]
    [] Field(td, 0, 8) = 105 /\ Field(td, 15, 4) = 0 /\ dev.setup[2] = 9 -> [dev EXCEPT !.configured = TRUE]
    [] OTHER -> dev

Filled(td, s) == [i \in DOMAIN td.buf |-> IF i <= Len(s) THEN s[i] ELSE td.buf[i]]

CardRuns ==
  LET td == chain[Current] IN
  /\ at = "busy" /\ 0 \in regs.cmd /\ 2 \in regs.intr
  /\ get_link_pointer(regs.frames) = [kind |-> "QH", ptr |-> QueueHead]
  /\ 0 \notin head /\ Current \in DOMAIN chain /\ 23 \in td.control
  /\ IF Heard(td)
     THEN /\ Has(td) /\ dev' = Told(td) /\ head' = td.link
          /\ chain' = [chain EXCEPT ![Current].control = @ \ {23},
               ![CHOOSE i \in Buffer(value(td.data)) : TRUE].buf =
                 IF Field(td, 0, 8) = 105 THEN Filled(td, Upto(Answer(td), MaxLen(td))) ELSE @]
     ELSE /\ chain' = [chain EXCEPT ![Current].control = (@ \ {23}) \cup {18}]
          /\ UNCHANGED <<dev, head>>
  /\ UNCHANGED <<plugged, at, after, slot, announced, regs, portsc, mouse>>

-----------------------------------------------------------------------------
(* Class 3, subclass 1, protocol 2. *)
boot_mouse(intf) == intf[6] = 3 /\ intf[7] = 1 /\ intf[8] = 2

(* UsbDescriptorIterator::next. *)
More == Len(rest) >= 2
split == [first |-> SubSeq(rest, 1, rest[1]), second |-> SubSeq(rest, rest[1] + 1, Len(rest))]
is_interface(d) == d[2] = 4
is_endpoint(d) == d[2] = 5

(* usb_driver_dispatch: the first interface of a mouse starts the driver. *)
Dispatch ==
  /\ \/ /\ More /\ rest' = split.second
        /\ Goto("dispatch", IF is_interface(split.first) /\ boot_mouse(split.first)
                            THEN "mouse_head" ELSE "dispatch")
     \/ ~More /\ Goto("dispatch", "no_mouse") /\ UNCHANGED rest
  /\ UNCHANGED <<after, slot, announced, hardware, work, relevant, endpoint, data_toggle, moves>>

in_relevant_interface == IF is_interface(split.first) THEN boot_mouse(split.first) ELSE relevant
transfer_type(d) == get_bits(bits(d[4]), 0, 2)
is_in(d) == get_bit(bits(d[3]), 7)
endpoint_number(d) == get_bits(bits(d[3]), 0, 4)

(* find_appropriate_endpoint: an IN endpoint for interrupts of a mouse. *)
Find ==
  LET d == split.first
      suits == in_relevant_interface /\ is_endpoint(d) /\ transfer_type(d) = 3 /\ is_in(d) IN
  /\ \/ /\ More /\ Goto("find", IF suits THEN "read" ELSE "find")
        /\ rest' = split.second /\ relevant' = in_relevant_interface
        /\ endpoint' = IF suits THEN endpoint_number(d) ELSE endpoint
     \/ ~More /\ Goto("find", "panic") /\ UNCHANGED <<rest, relevant, endpoint>>
  /\ UNCHANGED <<after, slot, announced, hardware, work, data_toggle, moves>>

Bug_as_i8(n) == n

as_i8(n) == IF n > 127 THEN n - 256 ELSE n

Report ==
  /\ Goto("report", "read")
  /\ moves' = Append(moves, <<as_i8(rest[2]), as_i8(rest[3])>>)
  /\ UNCHANGED <<after, slot, announced, hardware, work, rest, relevant, endpoint, data_toggle>>

WireNext ==
  \/ GlobalReset \/ Unreset \/ HostReset \/ StartCard
  \/ PortReset \/ PortRelease \/ PortEnable \/ PortCheck \/ SlotsDone
  \/ SetAddress \/ SetConfiguration \/ Announce
  \/ GetHead("head", "all") \/ GetAll("all", "dispatch") \/ Dispatch
  \/ GetHead("mouse_head", "mouse_all") \/ GetAll("mouse_all", "find") \/ Find
  \/ ReadMouse \/ Report \/ WorkDone \/ CardRuns

(* Sleeps end, tasks are polled and the card runs. *)
WireFairness == WF_wireVars(WireNext)

-----------------------------------------------------------------------------
(* Whatever the port it is on and whatever other interfaces and endpoints  *)
(* it has, a mouse is reset, addressed and found among its descriptors,    *)
(* and its movements, negative ones included, are sent on once each and in *)
(* order.  Every register, TD and request in between must say what the     *)
(* hardware expects.                                                       *)
MouseIsHeard == plugged.endpoint # 0 /\ at = "reset" ~> moves = plugged.reports

=============================================================================
