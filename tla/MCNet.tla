------------------------------- MODULE MCNet -------------------------------
(* The network tasks, with the host that send_udp talks to and another; or  *)
(* the octets of one frame.  A behaviour is one of the two.                 *)
EXTENDS Net, Frames, TLC

CONSTANTS remote, client, r1, r2, c1

(* The host that send_udp talks to has had two cards. *)
Cards == (remote :> {r1, r2}) @@ (client :> {c1})

VARIABLE which  \* bound: the part that moves

MCInit ==
  /\ which \in {"net", "frames"}
  /\ Init /\ FramesStart(IF which = "frames" THEN "ready" ELSE "off")
  /\ IF which = "net" THEN message = CHOOSE m \in Messages : TRUE ELSE cpus = 1

MCNext ==
  \/ which = "net" /\ Next /\ UNCHANGED <<frameVars, which>>
  \/ which = "frames" /\ FramesNext /\ UNCHANGED <<vars, which>>

MCSpec == MCInit /\ [][MCNext]_<<vars, frameVars, which>> /\ NetFairness

(* Data that is not confused with padding at the start, and is at the end. *)
Data == {[i \in 1 .. n |-> (b + 85 * (n - i)) % 256] : n \in {0, 1, 6, 7, 17, 18, 19}, b \in {0, 255}}
Mac1 == <<82, 84, 0, 18, 52, 86>>
Mac2 == <<255, 255, 255, 255, 255, 255>>
Ip1 == <<192, 168, 122, 55>>
Ip2 == <<255, 255, 255, 254>>
Longs == {<<0, 1>>, <<65535, 65535>>}

(* Lengths of data around the one at which padding ends: 6 for TCP, 18 for  *)
(* UDP; every flag the stack sets, and all of them; numbers that carry.     *)
TestMessages ==
  [kind : {"arp"}, operation : {"request", "reply"}, sha : {Mac1, Mac2}, spa : {Ip1, Ip2},
   tha : {Mac1, Mac2, zeros(6)}, tpa : {Ip1, Ip2}]
  \cup [kind : {"udp"}, source_ip : {Ip1, Ip2}, dest_ip : {Ip1, Ip2}, dest_port : {6000, 65535}, data : Data]
  \cup [kind : {"tcp"}, source_ip : {Ip1, Ip2}, dest_ip : {Ip1}, source_port : {80, 65535},
        dest_port : {33024}, seq_num : Longs, ack_num : Longs, window_size : {512},
        flags : {{"ack"}, {"syn", "ack"}, {"fin", "ack"}, ToSet(Flags)}, data : Data,
        options : {<<>>, <<2, 4, 5, 180>>}]

=============================================================================
