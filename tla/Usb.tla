-------------------------------- MODULE Usb --------------------------------
(***************************************************************************)
(* The USB stack: Usb::service enumerates the ports and then serves packet *)
(* requests one at a time (src/usb/mod.rs); the UHCI driver chains the     *)
(* transfer descriptors (TDs) of a request and waits for the card to clear *)
(* their active bits (src/usb/uhci.rs); usb_driver_dispatch (src/main.rs)  *)
(* and the mouse (src/mouse.rs) make the requests and await a oneshot.     *)
(*                                                                         *)
(* The card is modelled from how the driver uses it: it runs the TD that   *)
(* the queue head's element link names, clears its active bit, then moves  *)
(* the link on; the last TD of a chain raises the interrupt.  A TD that    *)
(* fails is made inactive and the link stays.                              *)
(***************************************************************************)
EXTENDS Integers, Sequences

CONSTANTS
  Ports,        \* 1 .. 2
  QueueSize,    \* capacity of the waker queue (50)
  MaxRequests,  \* bound on requests of the driver task
  MaxStale      \* bound on wakeups left over from the sleeps of port resets

ASSUME UsbAssumption ==
  /\ Ports \in Nat /\ QueueSize \in Nat \ {0} /\ {MaxRequests, MaxStale} \subseteq Nat

VARIABLES
  rough,     \* the interrupt may come in the middle of a poll, the card may be seen
             \* between clearing the bit and moving the link, and TDs may fail
  service,   \* program point of Usb::service
  port,      \* the port it is enumerating
  job,       \* what the current work is for: "address", "configure", "client"
  tds,       \* and how many TDs it has
  bufs,      \* TDs of the current work: the active bits; the last has IOC set
  element,   \* element link of the queue head: index into bufs, 0 is None
  moving,    \* the link the card will move to once it has cleared the bit, or -1
  status,    \* bit 0 of the status register
  irq,       \* interrupt handler: "off", "pop", "clear"
  waker_queue, \* wakers in the lock-free queue
  woken,     \* the service has been woken
  stale,     \* wakeups left over from sleeps that ended before their tick
  left,      \* how many have been left over in all
  recv_waker, \* the packet channel has the service's waker
  devices,   \* device channel: addresses
  packets,   \* packet channel: number of TDs of each request
  oneshot,   \* the reply of the outstanding request has been sent
  client,    \* program point of usb_driver_dispatch
  requests,  \* how many requests it has made for this device
  toggles,   \* data toggles: [driver, device]
  panic

vars == <<rough, service, port, job, tds, bufs, element, moving, status, irq, waker_queue, woken,
          stale, left, recv_waker, devices, packets, oneshot, client, requests, toggles, panic>>
card == <<element, moving, status>>
channels == <<left, recv_waker, devices, packets, oneshot>>
plan == <<port, job, tds>>
driver == <<client, requests, toggles, panic>>

Init ==
  /\ rough \in BOOLEAN
  /\ service = "init" /\ port = 1 /\ job = "address" /\ tds = 2 /\ bufs = <<>>
  /\ element = 0 /\ moving = -1 /\ status = FALSE
  /\ irq = "off" /\ waker_queue = 0 /\ woken = FALSE /\ stale = 0 /\ left = 0 /\ recv_waker = FALSE
  /\ devices = <<>> /\ packets = <<>> /\ oneshot = FALSE
  /\ client = "device" /\ requests = 0 /\ toggles = [driver |-> FALSE, device |-> FALSE]
  /\ panic = FALSE

Step(from, to) ==
  /\ ~panic /\ service = from /\ service' = to
  /\ irq = "off" \/ rough

-----------------------------------------------------------------------------
(* A sleep that ended before the tick it had posted leaves a wakeup.       *)
AfterSleep == left' \in left .. MaxStale /\ stale' = stale + left' - left

(* Uhci::init: reset, frame list, run, interrupts. *)
UhciInit ==
  /\ Step("init", "port") /\ AfterSleep
  /\ UNCHANGED <<plan, bufs, card, irq, waker_queue, woken, recv_waker, devices, packets, oneshot, driver>>

(* reset_port tells whether a device is connected and enabled. *)
ResetPort ==
  /\ port <= Ports /\ AfterSleep
  /\ \/ Step("port", "append") /\ job' = "address" /\ tds' = 2 /\ UNCHANGED port
     \/ Step("port", "port") /\ port' = port + 1 /\ UNCHANGED <<job, tds>>
  /\ UNCHANGED <<bufs, card, irq, waker_queue, woken, recv_waker, devices, packets, oneshot, driver>>

PortsDone ==
  /\ Step("port", "recv") /\ port > Ports
  /\ UNCHANGED <<plan, bufs, card, irq, waker_queue, woken, stale, channels, driver>>

StaleWake ==
  /\ stale > 0 /\ ~panic
  /\ stale' = stale - 1 /\ woken' = TRUE
  /\ UNCHANGED <<service, plan, bufs, card, irq, waker_queue, channels, driver>>

(* generate_td: every TD starts active. *)
generate_tds == [i \in 1 .. tds |-> TRUE]

(* append_work: the new TDs go to the queue head when the queue is empty   *)
(* or its last TD has been served, else to the last TD's link, which leads *)
(* the card there in its turn.                                             *)
new_element == IF bufs = <<>> \/ ~bufs[Len(bufs)] THEN 1 ELSE element

append_work ==
  /\ Step("append", "poll")
  /\ bufs' = bufs \o generate_tds /\ element' = new_element
  /\ UNCHANGED <<plan, moving, status, irq, waker_queue, woken, stale, channels, driver>>

some_active == \E i \in DOMAIN bufs : bufs[i]

(* UhciFuture::poll: an active TD is met before the waker is pushed ... *)
PollActive ==
  /\ Step("poll", "push") /\ some_active
  /\ UNCHANGED <<plan, bufs, card, irq, waker_queue, woken, stale, channels, driver>>

PushWaker ==
  /\ Step("push", "wait")
  /\ panic' = (waker_queue = QueueSize)
  /\ waker_queue' = IF waker_queue = QueueSize THEN waker_queue ELSE waker_queue + 1
  /\ UNCHANGED <<plan, bufs, card, irq, woken, stale, channels, client, requests, toggles>>

Repoll ==
  /\ Step("wait", "poll") /\ woken
  /\ woken' = FALSE
  /\ UNCHANGED <<plan, bufs, card, irq, waker_queue, stale, channels, driver>>

(* ... or all have been served, and the buffers are taken out and freed. *)
bufs_left == <<>>

PollReady ==
  /\ Step("poll", "done") /\ ~some_active
  /\ bufs' = bufs_left
  /\ UNCHANGED <<plan, card, irq, waker_queue, woken, stale, channels, driver>>

(* What service does with finished work. *)
AddressSet ==
  /\ Step("done", "append") /\ job = "address"
  /\ job' = "configure"
  /\ UNCHANGED <<port, tds, bufs, card, irq, waker_queue, woken, stale, channels, driver>>

(* Usb::next_usb_addr is never changed. *)
next_usb_addr == 1

Configured ==
  /\ Step("done", "port") /\ job = "configure"
  /\ devices' = Append(devices, next_usb_addr) /\ port' = port + 1
  /\ UNCHANGED <<job, tds, bufs, card, irq, waker_queue, woken, stale, left, recv_waker, packets, oneshot, driver>>

Reply ==
  /\ Step("done", "recv") /\ job = "client"
  /\ oneshot' = TRUE
  /\ UNCHANGED <<plan, bufs, card, irq, waker_queue, woken, stale, left, recv_waker, devices, packets, driver>>

(* The channel has the service's waker from its first recv on, and keeps   *)
(* it: send wakes it without taking it (async_channel.rs:27-29).           *)
Recv ==
  /\ recv_waker' = TRUE
  /\ \/ /\ Step("recv", "append") /\ packets # <<>>
        /\ packets' = Tail(packets) /\ job' = "client" /\ tds' = Head(packets)
     \/ Step("recv", "recv_wait") /\ packets = <<>> /\ UNCHANGED <<packets, job, tds>>
  /\ UNCHANGED <<port, bufs, card, irq, waker_queue, woken, stale, left, devices, oneshot, driver>>

RecvAgain ==
  /\ Step("recv_wait", "recv") /\ woken
  /\ woken' = FALSE
  /\ UNCHANGED <<plan, bufs, card, irq, waker_queue, stale, channels, driver>>

Service ==
  \/ UhciInit \/ ResetPort \/ PortsDone \/ append_work \/ PollActive \/ PushWaker
  \/ Repoll \/ PollReady \/ AddressSet \/ Configured \/ Reply \/ Recv \/ RecvAgain

-----------------------------------------------------------------------------
(* The interrupt handler looks at the status, wakes every waker in the     *)
(* queue, then clears the status.                                          *)
IrqEnter ==
  /\ ~panic /\ irq = "off" /\ status /\ (rough \/ service # "push")
  /\ irq' = "pop"
  /\ UNCHANGED <<service, plan, bufs, card, waker_queue, woken, stale, channels, driver>>

Bug_pop_wakers == waker_queue

pop_wakers == 0

IrqPop ==
  /\ irq = "pop" /\ ~panic
  /\ irq' = "clear" /\ waker_queue' = pop_wakers
  /\ woken' = (woken \/ waker_queue > 0)
  /\ UNCHANGED <<service, plan, bufs, card, stale, channels, driver>>

IrqClear ==
  /\ irq = "clear" /\ ~panic
  /\ irq' = "off" /\ status' = FALSE
  /\ UNCHANGED <<service, plan, bufs, element, moving, waker_queue, woken, stale, channels, driver>>

-----------------------------------------------------------------------------
Served == [bufs EXCEPT ![element] = FALSE]
link == IF element = Len(bufs) THEN 0 ELSE element + 1
IsRead == job = "client" /\ tds = 1

(* The card runs frames of a millisecond: its last interrupt has been      *)
(* handled before it serves more.                                          *)
CanServe == ~panic /\ ~status /\ moving = -1 /\ element \in DOMAIN bufs /\ bufs[element]

(* chain_tds sets the bit on the last TD of the chain. *)
interrupt_on_complete == element = Len(bufs)

(* The card serves the TD at the element link; a read of the mouse's       *)
(* endpoint moves the device's data toggle on.                             *)
CardServes ==
  /\ CanServe /\ bufs' = Served
  /\ IF rough THEN moving' = link /\ UNCHANGED element
              ELSE element' = link /\ UNCHANGED moving
  /\ status' = (status \/ interrupt_on_complete)
  /\ toggles' = IF IsRead THEN [toggles EXCEPT !.device = ~@] ELSE toggles
  /\ UNCHANGED <<service, plan, irq, waker_queue, woken, stale, channels, client, requests, panic>>

CardMoves ==
  /\ moving >= 0 /\ ~panic
  /\ element' = moving /\ moving' = -1
  /\ UNCHANGED <<service, plan, bufs, status, irq, waker_queue, woken, stale, channels, driver>>

CardFails ==
  /\ rough /\ CanServe
  /\ bufs' = Served /\ status' = (status \/ interrupt_on_complete)
  /\ UNCHANGED <<service, plan, element, moving, irq, waker_queue, woken, stale, channels, driver>>

-----------------------------------------------------------------------------
(* usb_driver_dispatch: for each device two requests for its descriptors;  *)
(* a mouse asks for them again and then reads for ever.                    *)
GetDevice ==
  /\ client = "device" /\ devices # <<>> /\ ~panic
  /\ devices' = Tail(devices) /\ client' = "request" /\ requests' = 0
  /\ UNCHANGED <<service, plan, bufs, card, irq, waker_queue, woken, stale, left, recv_waker, packets,
                 oneshot, toggles, panic>>

NotAMouse ==
  /\ client = "request" /\ requests = 2 /\ ~panic
  /\ client' = "device"
  /\ UNCHANGED <<service, plan, bufs, card, irq, waker_queue, woken, stale, channels, requests,
                 toggles, panic>>

flip(toggle) == ~toggle

(* oneshot::channel: every request has a channel of its own. *)
new_oneshot == FALSE

Bug_service_woken == woken

(* Sender::send wakes the receiver through its stored waker. *)
service_woken == woken \/ recv_waker

(* queue_work: the packets of get_configuration_descriptors, then reads.   *)
queue_work ==
  LET n == IF requests < 4 THEN 3 ELSE 1 IN
  /\ client = "request" /\ requests < MaxRequests /\ ~panic
  /\ client' = "reply" /\ requests' = requests + 1
  /\ packets' = Append(packets, n) /\ oneshot' = new_oneshot
  /\ woken' = service_woken
  /\ toggles' = IF n = 1 THEN [toggles EXCEPT !.driver = flip(@)] ELSE toggles
  /\ UNCHANGED <<service, plan, bufs, card, irq, waker_queue, stale, left, recv_waker, devices, panic>>

ReceiveReply ==
  /\ client = "reply" /\ oneshot /\ ~panic
  /\ client' = "request"
  /\ UNCHANGED <<service, plan, bufs, card, irq, waker_queue, woken, stale, channels, requests,
                 toggles, panic>>

Client == GetDevice \/ NotAMouse \/ queue_work \/ ReceiveReply

Irq == IrqEnter \/ IrqPop \/ IrqClear

Next ==
  /\ UNCHANGED rough
  /\ Service \/ StaleWake \/ Irq \/ CardServes \/ CardMoves \/ CardFails \/ Client

Spec == Init /\ [][Next]_vars

(* Woken tasks are polled, an asserted interrupt is taken, and the card    *)
(* serves what it is given.                                                *)
Fairness ==
  /\ SF_vars(Service /\ UNCHANGED rough) /\ SF_vars(IrqEnter /\ UNCHANGED rough)
  /\ WF_vars(IrqPop /\ UNCHANGED rough) /\ WF_vars(IrqClear /\ UNCHANGED rough)
  /\ WF_vars(CardServes /\ UNCHANGED rough) /\ WF_vars(CardMoves /\ UNCHANGED rough)
  /\ WF_vars(Client /\ UNCHANGED rough)

-----------------------------------------------------------------------------
(* Pushing a waker never finds the queue full (uhci.rs:176).  The queue    *)
(* stays short however many requests there are: a poll that pushes was     *)
(* caused by a request, by a pop or by one of the few stale wakeups, and   *)
(* the handler pops them all.                                              *)
WakerQueueFits == waker_queue <= 4 + MaxStale /\ ~panic

(* Every request is answered, on a machine where no TD fails and a poll is *)
(* not interrupted between seeing an active TD and pushing its waker       *)
(* (uhci.rs:173-176).                                                      *)
RequestIsAnswered == ~rough => (client = "reply" ~> client = "request")

=============================================================================
