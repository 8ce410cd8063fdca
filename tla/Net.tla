-------------------------------- MODULE Net --------------------------------
(***************************************************************************)
(* The tasks of src/main.rs that join the network card, ARP and TCP: the   *)
(* receive loop, send_udp, which resolves an address and waits for it with *)
(* a timeout, and tcp_service, which sends what TCP has queued.            *)
(*                                                                         *)
(* A host has an IP address and one or more MAC addresses (its card may be *)
(* replaced), and may send any of its frames at any time; the wire may     *)
(* lose, duplicate, delay and reorder them, so that which one it is is     *)
(* settled when it is read, and nothing sent need be answered.             *)
(* The card is behind a mutex that write holds until the frame has left,   *)
(* and get_mac panics when it is taken.  ArpReadyFuture leaves no waker in *)
(* the table when the address is missing: a task that waits for it runs    *)
(* again only when something else wakes it.                                *)
(***************************************************************************)
EXTENDS Naturals, FiniteSets

CONSTANTS
  Peers,           \* the IP addresses of the other hosts
  MacOf,           \* the MACs of each of them
  Remote,          \* REMOTE_IP, the one that send_udp talks to
  Us, Mac,         \* STATIC_IP, and the MAC of the card
  Zero, Broadcast, \* the MACs [0; 6] and [0xff; 6]
  NoMac,           \* no entry in the table
  NumCpus          \* 1, or 2 when tasks are polled on secondary processors

PeerMacs == UNION {MacOf[p] : p \in Peers}

ASSUME NetAssumption ==
  /\ Remote \in Peers /\ Us \notin Peers /\ NumCpus \in {1, 2}
  /\ {Mac, Zero, Broadcast, NoMac} \cap PeerMacs = {} /\ Cardinality({Mac, Zero, Broadcast, NoMac}) = 4
  /\ \A p, q \in Peers : p # q => MacOf[p] \cap MacOf[q] = {}

Tasks == {"recv", "udp", "svc"}
Free == "free"

VARIABLES
  cpus,       \* processors that poll tasks
  arrived,    \* the receive buffer holds a frame
  table,      \* ArpTable
  entry,      \* what the receive loop is about to insert
  at,         \* program point of each task
  woken,      \* tasks that are to be polled, or are running
  frame,      \* the frame each task has made, or NoFrame
  card,       \* who holds the mutex of the card
  due,        \* the sleep of send_udp has ended
  output,     \* hosts that TCP has data for
  net_panic

vars == <<cpus, arrived, table, entry, at, woken, frame, card, due, output, net_panic>>

NoFrame == [none |-> TRUE]
NoEntry == [ip |-> Us, mac |-> NoMac]
ArpOut(dest, a) == [dest |-> dest, kind |-> "arp", arp |-> a]
IpOut(dest, kind, ip) == [dest |-> dest, kind |-> kind, ip |-> ip]

generate_arp_request(remote) ==
  [op |-> "request", sha |-> Mac, spa |-> Us, tha |-> Zero, tpa |-> remote]

Init ==
  /\ cpus \in 1 .. NumCpus
  /\ arrived = FALSE /\ table = [p \in Peers |-> NoMac] /\ entry = NoEntry
  /\ at = [recv |-> "start", udp |-> "start", svc |-> "poll"] /\ woken = Tasks
  /\ frame = [recv |-> NoFrame, udp |-> ArpOut(Broadcast, generate_arp_request(Remote)),
              svc |-> NoFrame]
  /\ card = Free /\ due = FALSE /\ output = {} /\ net_panic = FALSE

-----------------------------------------------------------------------------
(* At these points a task is in the middle of a poll; at the others it has *)
(* returned Pending, or has not begun.  One processor polls one task at a  *)
(* time.                                                                   *)
MidPoll == {"lock", "get_mac", "insert"}

Runs(t) == ~net_panic /\ (cpus = 1 => \A u \in Tasks \ {t} : at[u] \notin MidPoll)
Polled(t, point) == Runs(t) /\ at[t] = point /\ t \in woken

Goto(t, point) == at' = [at EXCEPT ![t] = point]
Makes(t, f) == frame' = [frame EXCEPT ![t] = f]
Sleeps(t) == woken' = woken \ {t}

Waiting == {t \in Tasks : at[t] = "waiting"}

(* Task t drops a guard of the mutex of the card and goes on: notify_one   *)
(* wakes one of those that wait for it.                                    *)
notify_one(t) ==
  LET others == Waiting \ {t}
  IN  {woken \cup {t, w} : w \in IF others = {} THEN {t} ELSE others}

Drop(t) == woken' \in notify_one(t)

(* Rtl8139::get_mac.  The mutex may be held by a task that awaits the end  *)
(* of a transmission or, on another processor, by one that only looks at   *)
(* the card (read, log_mac, get_mac).                                      *)
GetMac(t) ==
  /\ Polled(t, "start") \/ Polled(t, "get_mac")
  /\ \/ card = Free /\ Goto(t, "lock") /\ Drop(t) /\ UNCHANGED net_panic
     \/ (card # Free \/ cpus > 1) /\ net_panic' = TRUE /\ UNCHANGED <<at, woken>>
  /\ UNCHANGED <<cpus, arrived, table, entry, frame, card, due, output>>

(* The lock().await of Rtl8139::write, and that of Rtl8139::read, which    *)
(* has no frame to write and drops the guard at once.                      *)
Lock(t) ==
  /\ Polled(t, "lock") \/ Polled(t, "waiting")
  /\ IF card # Free THEN Goto(t, "waiting") /\ Sleeps(t) /\ UNCHANGED card
     ELSE IF frame[t] = NoFrame THEN Goto(t, "read") /\ Drop(t) /\ UNCHANGED card
     ELSE Goto(t, "send") /\ card' = t /\ UNCHANGED woken
  /\ UNCHANGED <<cpus, arrived, table, entry, frame, due, output, net_panic>>

NextPoint(t) ==
  CASE t = "recv" -> "lock"
    [] t = "svc" -> "poll"
    [] t = "udp" -> IF frame[t].kind = "arp" THEN "lookup" ELSE "sent"

(* The card has sent the frame and the task is polled (module Rtl8139);    *)
(* write drops the guard and returns.  send_udp goes on to its datagram.   *)
Transmitted(t) ==
  /\ Runs(t) /\ at[t] = "send"
  /\ card' = Free /\ Goto(t, NextPoint(t)) /\ Drop(t)
  /\ Makes(t, IF at'[t] = "lookup" THEN IpOut(NoMac, "udp", Remote) ELSE NoFrame)
  /\ UNCHANGED <<cpus, arrived, table, entry, due, output, net_panic>>

-----------------------------------------------------------------------------
(* What the others send: requests for us or for another, answers (also     *)
(* unasked), operations we do not know, TCP segments.                      *)
ArpOf(p, mac) ==
  {[op |-> o.op, sha |-> mac, spa |-> p, tha |-> o.tha, tpa |-> o.tpa] :
     o \in [op : {"request", "unknown"}, tha : {Zero, Mac}, tpa : {Us, p}]
           \cup [op : {"reply"}, tha : {Mac}, tpa : {Us}]}

FramesOf(p) ==
  UNION {[kind : {"arp"}, source_mac : {mac}, arp : ArpOf(p, mac)] : mac \in MacOf[p]}
  \cup [kind : {"tcp"}, source_mac : MacOf[p], source_ip : {p}]

(* A frame reaches the card. *)
Arrive ==
  /\ ~net_panic /\ ~arrived /\ arrived' = TRUE
  /\ UNCHANGED <<cpus, table, entry, at, woken, frame, card, due, output, net_panic>>

(* The frames that parse as the given kind.  The receive loop drops, with  *)
(* no effect, those that do not parse or are of another kind.              *)
parse_packet(kind) == {f \in UNION {FramesOf(p) : p \in Peers} : f.kind = kind}

(* Rtl8139::read has found a packet and tries to lock the card; when that  *)
(* fails, it starts over with lock().await.                                *)
Reading == Runs("recv") /\ at["recv"] = "read" /\ arrived

ReadLater ==
  /\ Reading /\ card # Free
  /\ Goto("recv", "waiting") /\ Sleeps("recv")
  /\ UNCHANGED <<cpus, arrived, table, entry, frame, card, due, output, net_panic>>

(* handle_arp_frame swaps the addresses, then puts ours in. *)
arp_response(a) == [op |-> "reply", sha |-> Mac, spa |-> Us, tha |-> a.sha, tpa |-> a.spa]

arp_for_us(a) == a.op = "request" /\ (a.tha = Mac \/ a.tpa = Us)

Bug_learnt(a) == [ip |-> a.spa, mac |-> a.tha]

learnt(a) == [ip |-> a.spa, mac |-> a.sha]

ReceiveArp ==
  /\ Reading /\ card = Free
  /\ \E f \in parse_packet("arp") :
       CASE f.arp.op = "reply" ->
              entry' = learnt(f.arp) /\ Goto("recv", "insert") /\ UNCHANGED frame
         [] arp_for_us(f.arp) ->
              /\ Makes("recv", ArpOut(f.arp.sha, arp_response(f.arp)))
              /\ Goto("recv", "lock") /\ UNCHANGED entry
         [] OTHER -> Goto("recv", "lock") /\ UNCHANGED <<entry, frame>>
  /\ arrived' \in BOOLEAN /\ Drop("recv")
  /\ UNCHANGED <<cpus, table, card, due, output, net_panic>>

(* write_mac, with the mutex of the table held. *)
WriteMac ==
  /\ Runs("recv") /\ at["recv"] = "insert"
  /\ table' = [table EXCEPT ![entry.ip] = entry.mac] /\ entry' = NoEntry
  /\ Goto("recv", "lock")
  /\ UNCHANGED <<cpus, arrived, woken, frame, card, due, output, net_panic>>

(* Tcp::handle_frame may answer the segment, and wakes the service unless  *)
(* it delivered data; the application may then have something to send.     *)
ReceiveTcp ==
  /\ Reading /\ card = Free
  /\ \E f \in parse_packet("tcp") :
       /\ \/ Makes("recv", IpOut(f.source_mac, "tcp", f.source_ip)) /\ Goto("recv", "get_mac")
          \/ Goto("recv", "lock") /\ UNCHANGED frame
       /\ output' \in {output, output \cup {f.source_ip}}
  /\ arrived' \in BOOLEAN
  /\ \E w \in notify_one("recv") : woken' \in {w, w \cup {"svc"}}
  /\ output' # output => "svc" \in woken'
  /\ UNCHANGED <<cpus, table, entry, card, due, net_panic>>

-----------------------------------------------------------------------------
Bug_SleepEnds ==
  /\ at["udp"] = "lookup" /\ ~due /\ ~net_panic
  /\ due' = TRUE
  /\ UNCHANGED <<cpus, arrived, table, entry, at, woken, frame, card, output, net_panic>>

(* A second passes, and the sleep wakes the task (module Sleep). *)
SleepEnds ==
  /\ at["udp"] = "lookup" /\ ~due /\ ~net_panic
  /\ due' = TRUE /\ woken' = woken \cup {"udp"}
  /\ UNCHANGED <<cpus, arrived, table, entry, at, frame, card, output, net_panic>>

(* ArpReadyFuture::poll: a mutex that is taken counts as a missing entry.  *)
resolved(ip) == at["recv"] # "insert" /\ table[ip] # NoMac

(* tcp_service waits for the address only; send_udp selects between the    *)
(* address, which is looked at first, and the sleep.                       *)
Lookup(t) ==
  /\ Polled(t, "lookup")
  /\ IF resolved(frame[t].ip)
       THEN Makes(t, [frame[t] EXCEPT !.dest = table[frame[t].ip]]) /\ Goto(t, "get_mac") /\ UNCHANGED woken
       ELSE IF t = "udp" /\ due THEN Goto(t, "failed") /\ Makes(t, NoFrame) /\ UNCHANGED woken
       ELSE Sleeps(t) /\ UNCHANGED <<at, frame>>
  /\ UNCHANGED <<cpus, arrived, table, entry, card, due, output, net_panic>>

(* tcp_service takes a packet from Tcp::service. *)
TakeOutput ==
  /\ Polled("svc", "poll")
  /\ IF output = {} THEN Sleeps("svc") /\ UNCHANGED <<at, frame, output>>
     ELSE \E h \in output : /\ Makes("svc", IpOut(NoMac, "tcp", h)) /\ Goto("svc", "lookup")
                             /\ output' = output \ {h} /\ UNCHANGED woken
  /\ UNCHANGED <<cpus, arrived, table, entry, card, due, net_panic>>

-----------------------------------------------------------------------------
Uses(t) == GetMac(t) \/ Lock(t) \/ Transmitted(t)
Receive == ReadLater \/ ReceiveArp \/ WriteMac \/ ReceiveTcp

Task(t) ==
  \/ Uses(t)
  \/ t = "recv" /\ Receive
  \/ t \in {"udp", "svc"} /\ Lookup(t)
  \/ t = "svc" /\ TakeOutput

Next == (\E t \in Tasks : Task(t)) \/ SleepEnds \/ Arrive

Spec == Init /\ [][Next]_vars

(* Tasks that are woken are polled, the card sends, and time passes. *)
NetFairness == (\A t \in Tasks : WF_vars(Task(t))) /\ WF_vars(SleepEnds)

-----------------------------------------------------------------------------
Right(f) ==
  IF f.kind # "arp" THEN f.dest \in MacOf[f.ip]
  ELSE /\ f.arp.sha = Mac /\ f.arp.spa = Us
       /\ IF f.arp.op = "request" THEN f.dest = Broadcast ELSE f.dest = f.arp.tha /\ f.dest \in MacOf[f.arp.tpa]

(* Whatever is lost, duplicated, reordered or changed meanwhile, each      *)
(* frame that is handed to the card goes to a MAC that the host it is for  *)
(* has had: an IP packet to one that this host announced, although         *)
(* tcp_service and send_udp made the packet long before they knew the      *)
(* address and wait for the card long after it (main.rs:398, 472); an ARP  *)
(* answer to the host that asked, with our own addresses (main.rs:650-672).*)
PacketsReachTheirHost == \A t \in Tasks : at[t] = "send" => Right(frame[t])

(* The other hosts do not send for ever. *)
TrafficEnds == <>[]~arrived

(* send_udp ends although ArpReadyFuture leaves no waker in the table (the *)
(* sleep it is raced with wakes the task) and although it has to wait for  *)
(* the card while others use it, unless get_mac meets one of them and      *)
(* panics (main.rs:383, 418).  This is for one CPU, and for traffic that   *)
(* ends: the mutex of the card is not fair, and a receive loop that never  *)
(* runs out of requests could keep it.                                     *)
UdpEnds ==
  cpus = 1 /\ TrafficEnds => <>(at["udp"] \in {"sent", "failed"} \/ net_panic)

=============================================================================
