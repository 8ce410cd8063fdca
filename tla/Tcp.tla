-------------------------------- MODULE Tcp --------------------------------
(***************************************************************************)
(* The TCP server (src/net/tcp.rs) and one remote peer, whose frames may   *)
(* be lost, duplicated and reordered.  handle_frame holds the tcp_states   *)
(* lock from Receive to the step that answers the frame.  The task         *)
(* tcp_service (src/main.rs) polls OutgoingPoller whenever it was woken,   *)
(* and sends the packet it gets when the ARP table has the peer's address. *)
(*                                                                         *)
(* A byte is its position in the stream it belongs to.  Sequence numbers   *)
(* are words: an addition that reaches W panics, as the build checks it.   *)
(* FIN, RST and the window are read by no branch, so frames leave them out.*)
(***************************************************************************)
EXTENDS Naturals, Sequences, SequencesExt

CONSTANTS
  W,          \* 2^32
  ServerIss,  \* what rng may return
  PeerIss,    \* initial sequence numbers of the peer
  PeerBytes,  \* length of the stream the peer sends
  Writes,     \* bound on the bytes the application writes
  Lens,       \* lengths of the payloads it writes
  Freq,       \* tick_freq
  MaxTime,    \* bound on the ticks of a handshake
  MaxDup      \* where dup_ack_counter saturates

ASSUME TcpAssumption ==
  /\ {W, Freq} \subseteq Nat \ {0} /\ MaxTime \in Nat /\ MaxDup \in Nat \ {0, 1}
  /\ ServerIss \cup PeerIss \subseteq 0 .. W - 1
  /\ {PeerBytes, Writes} \subseteq Nat /\ Lens \subseteq Nat \ {0}

VARIABLES
  writer,     \* bound: which of two cases is explored.  TRUE: the application
              \* writes, tasks are polled on one CPU.  FALSE: the peer sends, its
              \* address is known, and on a second CPU the service may poll during
              \* handle_frame
  conn,       \* TcpState of the connection
  busy,       \* the frame handle_frame is working on, or NoFrame
  listening,  \* the listener is registered
  accepted,   \* connections handed to the listener
  time,       \* MonotonicTime
  service,    \* tcp_service: where it awaits ("poll", "mac", "card"), whether it is
              \* woken, and where its waker is registered
  out,        \* the packet it has taken and not sent, or NoFrame
  known,      \* the ARP table has the address of the peer
  chan,       \* payloads written and not yet received by the poller
  written,    \* bytes written so far
  app,        \* bytes the application can read
  wire,       \* frames sent to the peer
  peer,       \* [iss, up, next, rcv]: handshake done, next byte, stream
  acks,       \* acknowledgement numbers the peer has sent
  history,    \* [unpushed, shuffled]
  panic

sender == <<out, known>>
vars == <<writer, conn, busy, listening, accepted, time, service, sender, chan, written, app,
          wire, peer, acks, history, panic>>

NoFrame == [none |-> TRUE]
Uninit == [st |-> "Uninit"]

Init ==
  /\ writer \in BOOLEAN
  /\ conn = Uninit /\ busy = NoFrame /\ listening = FALSE /\ accepted = 0
  /\ time = 0 /\ chan = <<>> /\ written = 0 /\ app = <<>> /\ wire = {} /\ acks = {}
  /\ service = [at |-> "poll", woken |-> TRUE, stored |-> FALSE, recv |-> FALSE]
  /\ peer \in [iss : PeerIss, up : {FALSE}, next : {0}, rcv : {<<>>}]
  /\ history = [unpushed |-> FALSE, shuffled |-> FALSE]
  /\ out = NoFrame /\ known \in {TRUE, ~writer} /\ panic = FALSE

-----------------------------------------------------------------------------
Bytes(i, l) == [k \in 1 .. l |-> i + k]

(* What generate_tcp_frame is given; ACK is always set.  Module Frames has *)
(* the octets.                                                             *)
Frame(syn, seq, ack, data) == [syn |-> syn, seq |-> seq, ack_num |-> ack, data |-> data]

(* What may arrive from the peer: its SYN; a frame without ACK (a reset of *)
(* an earlier attempt) before it is connected; and afterwards any segment  *)
(* of its stream with any acknowledgement it has reached.                  *)
PeerFrames ==
  LET Sent == IF writer THEN 0 ELSE PeerBytes
      In(syn, ack, psh, seq, a, data) ==
        [syn |-> syn, ack |-> ack, psh |-> psh, seq |-> seq % W, ack_num |-> a, data |-> data]
  IN  {In(TRUE, FALSE, FALSE, peer.iss, 0, <<>>)}
      \cup (IF peer.up THEN {} ELSE {In(FALSE, FALSE, FALSE, peer.iss + 1, 0, <<>>)})
      \cup {In(FALSE, TRUE, psh, peer.iss + 1 + i, a, Bytes(i, l)) :
              psh \in BOOLEAN, a \in acks,
              <<i, l>> \in {p \in (0 .. Sent) \X (0 .. Sent) : p[1] + p[2] <= Sent}}

PeerConnects ==
  \E f \in wire :
    /\ f.syn /\ ~peer.up /\ f.ack_num = (peer.iss + 1) % W
    /\ peer' = [peer EXCEPT !.up = TRUE, !.next = (f.seq + 1) % W]
    /\ acks' = {(f.seq + 1) % W}
    /\ UNCHANGED <<sender, conn, busy, listening, accepted, time, service, chan, written, app,
                   wire, history, panic>>

PeerReceives ==
  \E f \in wire :
    /\ peer.up /\ ~f.syn
    /\ f.seq <= peer.next /\ peer.next < f.seq + Len(f.data)
    /\ peer' = [peer EXCEPT !.next = f.seq + Len(f.data),
                            !.rcv = @ \o SubSeq(f.data, peer.next - f.seq + 1, Len(f.data))]
    /\ acks' = acks \cup {f.seq + Len(f.data)}
    /\ UNCHANGED <<sender, conn, busy, listening, accepted, time, service, chan, written, app,
                   wire, history, panic>>

-----------------------------------------------------------------------------
listen ==
  /\ ~panic /\ ~listening
  /\ listening' = TRUE
  /\ UNCHANGED <<sender, conn, busy, accepted, time, service, chan, written, app, wire, peer,
                 acks, history, panic>>

(* TcpConnection::write: the channel wakes the poller that waits on it. *)
write(l) ==
  /\ writer /\ ~panic /\ accepted > 0 /\ written + l <= Writes
  /\ chan' = Append(chan, Bytes(written, l))
  /\ written' = written + l
  /\ service' = [service EXCEPT !.woken = @ \/ service.recv]
  /\ UNCHANGED <<sender, conn, busy, listening, accepted, time, app, wire, peer, acks, history, panic>>

(* A tick.  The wakeup that handle_frame registers for the SYN-ACK timeout *)
(* carries the waker of the task that receives frames, not the service's.  *)
(* Only that timeout looks at the clock.                                   *)
Tick ==
  /\ ~panic /\ time < MaxTime /\ conn.st # "Connected"
  /\ time' = time + 1
  /\ UNCHANGED <<sender, conn, busy, listening, accepted, service, chan, written, app, wire,
                 peer, acks, history, panic>>

-----------------------------------------------------------------------------
(* handle_frame *)

Receive ==
  /\ ~panic /\ busy = NoFrame
  /\ busy' \in PeerFrames
  /\ UNCHANGED <<sender, conn, listening, accepted, time, service, chan, written, app, wire,
                 peer, acks, history, panic>>

matches(f) == f.seq = conn.outgoing_ack_num

(* The branches that return None at once, without waking the service. *)
refused(f) ==
  \/ conn.st = "Uninit" /\ ~f.syn
  \/ /\ conn.st = "SynAckSent" /\ ~f.syn
     /\ f.psh \/ ~f.ack \/ f.seq # conn.ack_num \/ ~listening
  \/ conn.st = "Connected" /\ ~matches(f)

Refuse ==
  /\ ~panic /\ busy # NoFrame /\ refused(busy)
  /\ busy' = NoFrame
  /\ UNCHANGED <<sender, conn, listening, accepted, time, service, chan, written, app, wire,
                 peer, acks, history, panic>>

(* Lines 572 to 574, which every other branch but the one for PSH reaches. *)
Finish ==
  /\ busy' = NoFrame
  /\ service' = [service EXCEPT !.woken = @ \/ service.stored]

Overflows(a, b) == a + b >= W

Panics ==
  /\ panic' = TRUE
  /\ UNCHANGED <<sender, conn, busy, listening, accepted, time, service, chan, written, app,
                 wire, peer, acks, history>>

AnswerSyn ==
  LET f == busy IN
  /\ ~panic /\ f # NoFrame /\ conn.st = "Uninit" /\ f.syn
  /\ \E seq_num \in ServerIss :
       IF Overflows(f.seq, 1) THEN Panics
       ELSE /\ conn' = [st |-> "SynAckSent", seq_num |-> seq_num, ack_num |-> f.seq + 1,
                        timeout |-> time + Freq]
            /\ wire' = wire \cup {Frame(TRUE, seq_num, f.seq + 1, <<>>)}
            /\ Finish
            /\ UNCHANGED <<sender, listening, accepted, time, chan, written, app, peer, acks,
                           history, panic>>

resets(f) == conn.st = "SynAckSent" /\ f.syn

(* The reset drops the lock and calls handle_frame again on the frame. *)
ResetOnSyn ==
  /\ ~panic /\ busy # NoFrame /\ resets(busy)
  /\ conn' = Uninit
  /\ UNCHANGED <<sender, busy, listening, accepted, time, service, chan, written, app, wire,
                 peer, acks, history, panic>>

(* Whether data was acknowledged that PSH does not hand over. *)
Arrives(f) ==
  history' = [history EXCEPT !.unpushed = @ \/ (~f.psh /\ f.data # <<>>)]

(* The state and the hand-over to the listener that end the handshake. *)
after_handshake(f) ==
  [accepted |-> accepted + 1,
   conn |-> [st |-> "Connected", seq_num |-> conn.seq_num + 1,
             outgoing_ack_num |-> conn.ack_num + Len(f.data),
             incoming_ack_num |-> f.ack_num, dup_ack_counter |-> 0,
             unacknowledged |-> <<>>, to_send |-> <<>>]]

Establish ==
  LET f == busy IN
  /\ ~panic /\ f # NoFrame /\ conn.st = "SynAckSent" /\ ~f.syn /\ ~refused(f)
  /\ IF Overflows(conn.seq_num, 1) \/ Overflows(conn.ack_num, Len(f.data)) THEN Panics
     ELSE /\ conn' = after_handshake(f).conn
          /\ accepted' = after_handshake(f).accepted
          /\ Arrives(f) /\ Finish
          /\ UNCHANGED <<sender, listening, time, chan, written, app, wire, peer, acks, panic>>

(* At most the first packet is dropped from unacknowledged. *)
acknowledge(f, unacked) ==
  IF unacked # <<>> /\ Head(unacked).seq < f.ack_num THEN Tail(unacked) ELSE unacked

Bug_delivers(f) == FALSE

delivers(f) == f.psh

Accept ==
  LET f == busy
      ack == f.seq + Len(f.data)
      dup == IF f.ack_num # conn.incoming_ack_num THEN 0
             ELSE IF conn.dup_ack_counter < MaxDup THEN conn.dup_ack_counter + 1
             ELSE MaxDup
  IN
  /\ ~panic /\ f # NoFrame /\ conn.st = "Connected" /\ matches(f)
  /\ IF Overflows(f.seq, Len(f.data)) THEN Panics
     ELSE /\ conn' = [conn EXCEPT !.outgoing_ack_num = ack,
                                  !.incoming_ack_num = f.ack_num,
                                  !.dup_ack_counter = dup,
                                  !.unacknowledged = acknowledge(f, @)]
          /\ Arrives(f)
          /\ app' = IF delivers(f) THEN app \o f.data ELSE app
          /\ IF f.psh
               THEN /\ wire' = wire \cup {Frame(FALSE, conn.seq_num, ack, <<>>)}
                    /\ busy' = NoFrame /\ UNCHANGED service
               ELSE Finish /\ UNCHANGED wire
          /\ UNCHANGED <<sender, listening, accepted, time, chan, written, peer, acks, panic>>

handle_frame == Refuse \/ AnswerSyn \/ ResetOnSyn \/ Establish \/ Accept

-----------------------------------------------------------------------------
(* OutgoingPoller::poll.  A poll that returns Pending leaves the task to   *)
(* its wakers; with a packet the task goes on in the same poll.            *)

PolledAt(point) == ~panic /\ service.woken /\ service.at = point
Polls == PolledAt("poll")

Sleeps(recv) ==
  service' = [service EXCEPT !.woken = FALSE, !.stored = TRUE, !.recv = @ \/ recv]

Takes(p, recv) ==
  /\ out' = p
  /\ service' = [service EXCEPT !.at = "mac", !.stored = TRUE, !.recv = @ \/ recv]

PollContended ==
  /\ Polls /\ ~writer /\ busy # NoFrame
  /\ Sleeps(FALSE)
  /\ UNCHANGED <<sender, conn, busy, listening, accepted, time, chan, written, app, wire, peer,
                 acks, history, panic>>

Retransmits ==
  conn.st = "Connected" /\ conn.dup_ack_counter >= 2 /\ conn.unacknowledged # <<>>

(* The packets behind the one retransmitted go to the back of to_send. *)
requeue(rest, to_send) == to_send \o [i \in DOMAIN rest |-> rest[i].data]

PollRetransmit ==
  /\ Polls /\ busy = NoFrame /\ Retransmits
  /\ LET p == Head(conn.unacknowledged)
         rest == Tail(conn.unacknowledged)
     IN  /\ conn' = [conn EXCEPT !.seq_num = p.seq + Len(p.data),
                                 !.unacknowledged = <<>>,
                                 !.to_send = requeue(rest, @)]
         /\ Takes(p, FALSE)
         /\ history' = [history EXCEPT !.shuffled =
                          @ \/ (rest # <<>> /\ conn.to_send # <<>>)]
  /\ UNCHANGED <<known, busy, listening, accepted, time, chan, written, app, wire, peer, acks,
                 panic>>

HasData == conn.to_send # <<>> \/ chan # <<>>

Bug_next_data == IF chan # <<>> THEN Head(chan) ELSE Head(conn.to_send)

next_data == IF conn.to_send # <<>> THEN Head(conn.to_send) ELSE Head(chan)

generate_tcp_push(data) == Frame(FALSE, conn.seq_num, conn.outgoing_ack_num, data)

write_request_to_outgoing_packet(data) ==
  [conn EXCEPT !.seq_num = @ + Len(data),
               !.unacknowledged = Append(@, generate_tcp_push(data))]

PollSend ==
  /\ Polls /\ busy = NoFrame /\ conn.st = "Connected" /\ ~Retransmits /\ HasData
  /\ LET requeued == conn.to_send # <<>>
         data == next_data
     IN  IF Overflows(conn.seq_num, Len(data)) THEN Panics
         ELSE /\ conn' = [write_request_to_outgoing_packet(data) EXCEPT
                            !.to_send = IF requeued THEN Tail(@) ELSE @]
              /\ chan' = IF requeued THEN chan ELSE Tail(chan)
              /\ Takes(generate_tcp_push(data), ~requeued)
              /\ UNCHANGED <<known, busy, listening, accepted, time, written, app, wire, peer,
                             acks, history, panic>>

TimedOut == conn.st = "SynAckSent" /\ time > conn.timeout

PollResend ==
  /\ Polls /\ busy = NoFrame /\ TimedOut
  /\ conn' = [conn EXCEPT !.timeout = @ + Freq]
  /\ Takes(Frame(TRUE, conn.seq_num, conn.ack_num, <<>>), FALSE)
  /\ UNCHANGED <<known, busy, listening, accepted, time, chan, written, app, wire, peer, acks, history,
                 panic>>

Bug_Idle == Polls /\ busy = NoFrame /\ Sleeps(FALSE)

(* Nothing to send: the poller has polled the channel of a connection. *)
Idle == Polls /\ busy = NoFrame /\ Sleeps(conn.st = "Connected")

PollIdle ==
  /\ ~Retransmits /\ ~(conn.st = "Connected" /\ HasData) /\ ~TimedOut
  /\ Idle
  /\ UNCHANGED <<sender, conn, busy, listening, accepted, time, chan, written, app, wire, peer,
                 acks, history, panic>>

poll == PollContended \/ PollRetransmit \/ PollSend \/ PollResend \/ PollIdle

-----------------------------------------------------------------------------
(* tcp_service, with a packet.  wait_for leaves no waker when the table    *)
(* has no entry for the peer, and nothing asks for one: the task goes on   *)
(* when it happens to be woken later.  With an entry, get_mac panics if    *)
(* somebody has the card.                                                  *)
AwaitMac ==
  /\ PolledAt("mac")
  /\ IF known
       THEN \/ service' = [service EXCEPT !.at = "card"] /\ UNCHANGED panic
            \/ panic' = TRUE /\ UNCHANGED service
       ELSE service' = [service EXCEPT !.woken = FALSE] /\ UNCHANGED panic
  /\ UNCHANGED <<sender, conn, busy, listening, accepted, time, chan, written, app, wire, peer,
                 acks, history>>

(* Rtl8139::write ends (module Net has the wait for the card), and the     *)
(* task is woken.                                                          *)
Write ==
  /\ ~panic /\ service.at = "card"
  /\ wire' = wire \cup {out} /\ out' = NoFrame
  /\ service' = [service EXCEPT !.at = "poll", !.woken = TRUE]
  /\ UNCHANGED <<known, conn, busy, listening, accepted, time, chan, written, app, peer, acks,
                 history, panic>>

(* The receive loop learns the address; ArpTable wakes nobody. *)
WriteMac ==
  /\ ~panic /\ ~known /\ known' = TRUE
  /\ UNCHANGED <<out, conn, busy, listening, accepted, time, service, chan, written, app, wire,
                 peer, acks, history, panic>>

tcp_service == poll \/ AwaitMac

Next ==
  /\ UNCHANGED writer
  /\ \/ PeerConnects \/ PeerReceives
     \/ listen \/ (\E l \in Lens : write(l)) \/ Tick
     \/ Receive \/ handle_frame
     \/ tcp_service \/ Write \/ WriteMac

Spec == Init /\ [][Next]_vars

(* The executor polls every woken task in each round, so tcp_service gets  *)
(* its turn, once woken, between frames however many arrive (strong        *)
(* fairness); a frame being handled is finished, the clock ticks, and      *)
(* write ends: it gets the card, which other tasks give back, and the card *)
(* sends.  Nothing is assumed of the peer, nor that its address is ever    *)
(* learnt.                                                                 *)
FairSpec ==
  /\ Spec
  /\ SF_vars(tcp_service /\ UNCHANGED writer) /\ WF_vars(Write /\ UNCHANGED writer)
  /\ WF_vars(handle_frame /\ UNCHANGED writer) /\ WF_vars(Tick /\ UNCHANGED writer)

-----------------------------------------------------------------------------
Connected == conn.st = "Connected"

(* If the peer pushes everything it sends, every byte that was             *)
(* acknowledged reaches the application.                                   *)
AckedIsDelivered ==
  Connected /\ ~history.unpushed =>
    app = Bytes(0, conn.outgoing_ack_num - (peer.iss + 1))

TotalLen(s) == Len(FlattenSeq(s))

(* Every byte written is either below seq_num or still queued: no payload  *)
(* is dropped or counted twice by a retransmission.                        *)
EveryByteIsPlaced ==
  Connected =>
    \E iss \in {f.seq : f \in {g \in wire : g.syn}} :
      conn.seq_num + TotalLen(conn.to_send) + TotalLen(chan) = iss + 1 + written

(* What the peer receives is what the application wrote, in order, as the  *)
(* test of retransmission expects of the payloads (tcp.rs:966, 987).       *)
PeerStreamIsWritten == peer.rcv = Bytes(0, Len(peer.rcv))

(* A retransmission rewinds seq_num and requeues what followed             *)
(* (tcp.rs:612-619) without losing a byte or counting one twice, and the   *)
(* peer gets the stream in order as long as no retransmission put packets  *)
(* behind others that were already waiting in to_send.                     *)
StreamIntactUntilShuffled ==
  /\ EveryByteIsPlaced
  /\ ~history.shuffled => PeerStreamIsWritten

(* tcp_service sleeps on an address that came after it had looked. *)
Forgotten == service.at = "mac" /\ ~service.woken

(* Once the connection is accepted and the ARP table has the peer, what    *)
(* the application writes is taken by tcp_service: the task does not sleep *)
(* on a payload, except for one it took before the address came            *)
(* (main.rs:470-472); the next write or frame wakes it from that.  get_mac *)
(* may panic (main.rs:473).  This is for one CPU: a poll that finds        *)
(* tcp_states locked by handle_frame on another drops its lock() and may   *)
(* sleep on a payload (tcp.rs:602-607).                                    *)
WrittenIsSent == chan # <<>> /\ known ~> (chan = <<>> \/ panic \/ Forgotten)

=============================================================================
