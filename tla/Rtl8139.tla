------------------------------ MODULE Rtl8139 ------------------------------
(***************************************************************************)
(* The network card driver (src/rtl8139.rs): tasks that write packets and  *)
(* one that reads them share the card under an async mutex; waiters leave  *)
(* a waker in waker_list; the interrupt handler wakes the service, whose   *)
(* poll wakes every waiter.  The card is modelled from how the driver uses *)
(* it: a transmit descriptor's own bit, the interrupt status, and a        *)
(* receive ring of R bytes in which every packet starts on a dword.        *)
(***************************************************************************)
EXTENDS Naturals, Sequences, FiniteSets, FiniteSetsExt

CONSTANTS
  Tasks, Reader,  \* the tasks that use the card; Reader runs recv_loop
  R,              \* size of the receive ring (2^16)
  Off,            \* CAPR holds the reader's offset less this (16)
  Lens,           \* packet lengths the card writes in headers
  MaxPackets,     \* bound on received packets
  MaxWrites,      \* bound on calls of write
  CallsGetMac,    \* tasks also call get_mac
  SharedLine      \* another device raises the same interrupt line

ASSUME RtlAssumption ==
  /\ Reader \in Tasks
  /\ {R, Off, MaxPackets, MaxWrites} \subseteq Nat \ {0} /\ R % 4 = 0 /\ Off % 4 = 0
  /\ Lens \subseteq Nat /\ \A l \in Lens : l + 7 < R
  /\ {CallsGetMac, SharedLine} \subseteq BOOLEAN

VARIABLES
  pc,            \* program point of each task
  id,            \* future_id of the waiter each task has made
  woken,         \* tasks, and "service", that have been woken
  owner,         \* holder of Inner's mutex, or "none"
  future_id, transmit_idx,
  waker_list,    \* HashMap from future_id to task
  service_waker, \* whether service has stored its waker
  irq,           \* interrupt handler: "off", or what it read: "fired" or "quiet"
  own,           \* own bit of the four transmit descriptors
  isr,           \* interrupt status: subset of {"rok", "tok"}
  capr, cbr,     \* read offset less Off, and write offset of the ring
  ring,          \* header at each offset: [len, nr], or NoPacket
  received, reads, writes, panic

vars == <<pc, id, woken, owner, future_id, transmit_idx, waker_list, service_waker, irq,
          own, isr, capr, cbr, ring, received, reads, writes, panic>>
card == <<own, isr, cbr, ring, received>>
driver == <<owner, future_id, transmit_idx, capr>>

NoPacket == [len |-> 0, nr |-> 0]
Offsets == {o \in 0 .. R - 1 : o % 4 = 0}

init_capr == (R - (Off % R)) % R

Init ==
  /\ pc = [t \in Tasks |-> "idle"] /\ id = [t \in Tasks |-> 0] /\ woken = {"service"}
  /\ owner = "none" /\ future_id = 0 /\ transmit_idx = 0 /\ waker_list = <<>>
  /\ service_waker = FALSE /\ irq = "off"
  /\ own = [d \in 0 .. 3 |-> TRUE] /\ isr = {}
  /\ capr = init_capr /\ cbr = 0 /\ ring = [o \in Offsets |-> NoPacket]
  /\ received = 0 /\ reads = 0 /\ writes = 0 /\ panic = FALSE

Goto(t, from, to) == ~panic /\ pc[t] = from /\ pc' = [pc EXCEPT ![t] = to]

Insert(t) == waker_list' = [i \in DOMAIN waker_list \cup {id[t]} |->
                              IF i = id[t] THEN t ELSE waker_list[i]]

(* The Drop of a waiter. *)
Remove(t) == waker_list' = [i \in DOMAIN waker_list \ {id[t]} |-> waker_list[i]]

-----------------------------------------------------------------------------
(* Calls: every task may write, Reader also loops on read. *)

CallWrite(t) ==
  /\ Goto(t, "idle", "lock_write") /\ writes < MaxWrites
  /\ writes' = writes + 1
  /\ UNCHANGED <<id, woken, driver, waker_list, service_waker, irq, card, reads, panic>>

CallRead(t) ==
  /\ t = Reader /\ Goto(t, "idle", "lock_read")
  /\ UNCHANGED <<id, woken, driver, waker_list, service_waker, irq, card, reads, writes, panic>>

(* get_mac expects the mutex to be free. *)
get_mac(t) ==
  /\ CallsGetMac /\ pc[t] = "idle" /\ ~panic
  /\ panic' = (owner # "none")
  /\ UNCHANGED <<pc, id, woken, driver, waker_list, service_waker, irq, card, reads, writes>>

next_id == future_id + 1

(* The own bit of the descriptor is cleared to start the transmission. *)
transmit_data_and_wait == own' = [own EXCEPT ![transmit_idx] = FALSE]

(* write: take the lock and an id, hand the packet to the card. *)
Transmit(t) ==
  /\ Goto(t, "lock_write", "tx_insert") /\ owner = "none"
  /\ owner' = t /\ id' = [id EXCEPT ![t] = future_id] /\ future_id' = next_id
  /\ transmit_data_and_wait
  /\ UNCHANGED <<woken, transmit_idx, capr, waker_list, service_waker, irq, isr, cbr,
                 ring, received, reads, writes, panic>>

(* read: the lock is held only to take an id. *)
TakeId(t) ==
  /\ Goto(t, "lock_read", "rx_insert") /\ owner = "none"
  /\ id' = [id EXCEPT ![t] = future_id] /\ future_id' = next_id
  /\ UNCHANGED <<woken, owner, transmit_idx, capr, waker_list, service_waker, irq, card,
                 reads, writes, panic>>

(* The polls of TransmissionWaiter and ReceiverWaiter: the waker goes into *)
(* the list before the card is looked at.                                  *)
InsertWaker(t) ==
  /\ \/ Goto(t, "tx_insert", "tx_check")
     \/ Goto(t, "rx_insert", "rx_check")
  /\ Insert(t)
  /\ UNCHANGED <<id, woken, driver, service_waker, irq, card, reads, writes, panic>>

Pend(t, from, to) ==
  /\ Goto(t, from, to)
  /\ UNCHANGED <<id, woken, driver, waker_list, service_waker, irq, card, reads, writes, panic>>

TxDone == own[transmit_idx]

(* The end of write: the waiter is dropped and the lock released. *)
TxCheck(t) ==
  \/ ~TxDone /\ Pend(t, "tx_check", "tx_wait")
  \/ /\ TxDone /\ Goto(t, "tx_check", "idle")
     /\ Remove(t) /\ owner' = "none" /\ transmit_idx' = (transmit_idx + 1) % 4
     /\ UNCHANGED <<id, woken, future_id, capr, service_waker, irq, card, reads, writes, panic>>

RxEmpty == (capr + Off) % R = cbr

RxCheck(t) ==
  \/ RxEmpty /\ Pend(t, "rx_check", "rx_wait")
  \/ /\ ~RxEmpty /\ Goto(t, "rx_check", "try_lock") /\ Remove(t)
     /\ UNCHANGED <<id, woken, driver, service_waker, irq, card, reads, writes, panic>>

(* A waiter that was woken is polled again. *)
Repoll(t) ==
  /\ \/ Goto(t, "tx_wait", "tx_insert")
     \/ Goto(t, "rx_wait", "rx_insert")
  /\ t \in woken
  /\ woken' = woken \ {t}
  /\ UNCHANGED <<id, driver, waker_list, service_waker, irq, card, reads, writes, panic>>

get_packet == ring[(capr + Off) % R]

Bug_increment_capr == LET c == capr + get_packet.len + 4 IN (c - (c % 4)) % R

(* increment_capr: past the header, and up to the next dword. *)
increment_capr == LET c == capr + get_packet.len + 4 + 3 IN (c - (c % 4)) % R

TryLock(t) ==
  \/ owner # "none" /\ Pend(t, "try_lock", "lock_read")
  \/ /\ owner = "none" /\ Goto(t, "try_lock", "idle")
     /\ reads' = reads + 1
     /\ capr' = increment_capr
     /\ UNCHANGED <<id, woken, owner, future_id, transmit_idx, waker_list, service_waker,
                    irq, card, writes, panic>>

Run(t) ==
  \/ CallWrite(t) \/ CallRead(t) \/ Transmit(t) \/ TakeId(t) \/ InsertWaker(t)
  \/ TxCheck(t) \/ RxCheck(t) \/ Repoll(t) \/ TryLock(t)

-----------------------------------------------------------------------------
Bug_woken_by_service == {waker_list[i] : i \in {j \in DOMAIN waker_list : j + 1 = future_id}}

woken_by_service == {waker_list[i] : i \in DOMAIN waker_list}

(* Service::poll *)
service ==
  /\ ~panic /\ "service" \in woken
  /\ service_waker' = TRUE
  /\ woken' = (woken \ {"service"}) \cup woken_by_service
  /\ UNCHANGED <<pc, id, driver, waker_list, irq, card, reads, writes, panic>>

(* The interrupt handler: clear_interrupt reads the status, then clears    *)
(* every bit, also those set since; the service is woken only if the       *)
(* status was not zero when it was read.                                   *)
IrqRead ==
  /\ ~panic /\ irq = "off" /\ (SharedLine \/ isr # {})
  /\ irq' = IF isr = {} THEN "quiet" ELSE "fired"
  /\ UNCHANGED <<pc, id, woken, driver, waker_list, service_waker, card, reads, writes, panic>>

IrqClear ==
  /\ ~panic /\ irq # "off"
  /\ irq' = "off" /\ isr' = {}
  /\ woken' = IF irq = "fired" /\ service_waker THEN woken \cup {"service"} ELSE woken
  /\ UNCHANGED <<pc, id, driver, waker_list, service_waker, own, cbr, ring, received,
                 reads, writes, panic>>

(* The card. *)
CardTransmits ==
  \E d \in 0 .. 3 :
    /\ ~own[d]
    /\ own' = [own EXCEPT ![d] = TRUE] /\ isr' = isr \cup {"tok"}
    /\ UNCHANGED <<pc, id, woken, driver, waker_list, service_waker, irq, cbr, ring,
                   received, reads, writes, panic>>

Total(len) == LET n == len + 4 + 3 IN n - (n % 4)

CardReceives(len) ==
  LET used == (cbr + R - ((capr + Off) % R)) % R IN
  /\ received < MaxPackets /\ used + Total(len) < R
  /\ ring' = [ring EXCEPT ![cbr] = [len |-> len, nr |-> received + 1]]
  /\ cbr' = (cbr + Total(len)) % R
  /\ received' = received + 1 /\ isr' = isr \cup {"rok"}
  /\ UNCHANGED <<pc, id, woken, driver, waker_list, service_waker, irq, own, reads, writes, panic>>

Card == CardTransmits \/ \E len \in Lens : CardReceives(len)

Next ==
  \/ \E t \in Tasks : Run(t) \/ get_mac(t)
  \/ service \/ IrqRead \/ IrqClear \/ Card

Spec == Init /\ [][Next]_vars

(* Woken tasks are polled, an asserted interrupt is taken, the card sends  *)
(* what it was given, and a task waiting for the mutex gets it.            *)
FairSpec ==
  /\ Spec
  /\ \A t \in Tasks : SF_vars(Run(t))
  /\ WF_vars(service) /\ WF_vars(IrqRead) /\ WF_vars(IrqClear) /\ WF_vars(CardTransmits)

-----------------------------------------------------------------------------
(* The header the reader would look at is that of the oldest unread        *)
(* packet, and the ring looks empty exactly when all have been read: the   *)
(* two sides agree on padding and wrap-around (rtl8139.rs:378, 430).       *)
ReaderIsAligned ==
  IF received = reads THEN RxEmpty ELSE ~RxEmpty /\ get_packet.nr = reads + 1

(* A waiter that sleeps is woken, or will be: if what it waits for has     *)
(* happened, then a wakeup is on its way.  (With no other device on the    *)
(* line: clear_interrupt for another device's interrupt can wipe a status  *)
(* bit it did not read, rtl8139.rs:130.)                                   *)
NoLostWakeup ==
  \A t \in Tasks :
    \/ pc[t] = "tx_wait" /\ own[transmit_idx]
    \/ pc[t] = "rx_wait" /\ ~RxEmpty
    => t \in woken \/ "service" \in woken \/ isr # {} \/ irq = "fired"

(* Every packet that was received is read, unless get_mac's unwrap stopped *)
(* the kernel.                                                             *)
ReceivedIsRead == \A n \in 1 .. MaxPackets : received >= n ~> (reads >= n \/ panic)

=============================================================================
