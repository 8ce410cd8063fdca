------------------------------- MODULE Frames -------------------------------
(***************************************************************************)
(* The octets of a frame (src/net/mod.rs, src/net/tcp.rs): what the stack  *)
(* generates, what the card and the network add, and what it parses.       *)
(*                                                                         *)
(* A message is a record of what a frame says; the octets are a sequence   *)
(* of 0 .. 255.  A 32-bit number is the pair of its halves.                *)
(***************************************************************************)
EXTENDS Bits, SequencesExt

CONSTANTS
  Messages,   \* what may be sent
  OurMac, PeerMac

VARIABLES
  stage,      \* "ready", "made", "wire", "read"; "off" when unused
  message,    \* what is sent
  octets,     \* its frame
  understood  \* what parsing found

frameVars == <<stage, message, octets, understood>>

FramesStart(s) == stage = s /\ message \in Messages /\ octets = <<>> /\ understood = <<>>

-----------------------------------------------------------------------------
(* u16 and u32::to_be_bytes, and u16 and u32::from_be_bytes of what is at  *)
(* an offset.                                                              *)
to_be_bytes(n) == <<n \div 256, n % 256>>
long_bytes(n) == to_be_bytes(n[1]) \o to_be_bytes(n[2])
from_be_bytes(s, at) == 256 * s[at + 1] + s[at + 2]
long_from(s, at) == <<from_be_bytes(s, at), from_be_bytes(s, at + 2)>>

slice(s, from, to) == SubSeq(s, from + 1, to)
put(s, at, n) == [s EXCEPT ![at + 1] = n \div 256, ![at + 2] = n % 256]
chunks(s) == [i \in 1 .. Len(s) \div 2 |-> from_be_bytes(s, 2 * (i - 1))]
zeros(n) == [i \in 1 .. n |-> 0]

Bug_calculate_ipv4_checksum(data) ==
  65535 - FoldLeft(LAMBDA sum, n : (sum + n) % 65536, 0, chunks(data))

calculate_ipv4_checksum(data) ==
  65535 - FoldLeft(LAMBDA sum, n : IF sum + n > 65535 THEN sum + n - 65536 + 1 ELSE sum + n,
                   0, chunks(data))

Flags == <<"fin", "syn", "rst", "psh", "ack", "urg", "ece", "cwr">>
generate_tcp_flags(params) == value({b \in 0 .. 7 : Flags[b + 1] \in params})

pseudo_header(m, length) == m.source_ip \o m.dest_ip \o <<0, 6>> \o to_be_bytes(length)
even(s) == IF Len(s) % 2 # 0 THEN Append(s, 0) ELSE s

generate_tcp_frame(m) ==
  LET ret == to_be_bytes(m.source_port) \o to_be_bytes(m.dest_port) \o long_bytes(m.seq_num)
             \o long_bytes(m.ack_num) \o <<(20 \div 4) * 16, generate_tcp_flags(m.flags)>>
             \o to_be_bytes(m.window_size) \o <<0, 0>> \o <<0, 0>> \o m.data
  IN put(ret, 16, calculate_ipv4_checksum(even(pseudo_header(m, Len(ret)) \o ret)))

generate_udp_frame(m) ==
  <<0, 0>> \o to_be_bytes(m.dest_port) \o to_be_bytes(8 + Len(m.data)) \o <<0, 0>> \o m.data

generate_ipv4_frame(m, protocol, payload) ==
  LET ret == <<69, 0>> \o to_be_bytes(20 + Len(payload)) \o <<0, 0>> \o <<0, 0>>
             \o <<64, protocol>> \o <<0, 0>> \o m.source_ip \o m.dest_ip
  IN put(ret, 10, calculate_ipv4_checksum(ret)) \o payload

generate_arp_frame(m) ==
  to_be_bytes(1) \o to_be_bytes(2048) \o <<6, 4>>
  \o to_be_bytes(IF m.operation = "request" THEN 1 ELSE 2) \o m.sha \o m.spa \o m.tha \o m.tpa

generate_ethernet_frame(ether_type, payload) ==
  LET ret == PeerMac \o OurMac \o to_be_bytes(ether_type) \o payload
  IN IF Len(ret) < 60 THEN ret \o zeros(60 - Len(ret)) ELSE ret

-----------------------------------------------------------------------------
has_dot1q(f) == from_be_bytes(f, 12) = 33024
ether_type_offset(f) == IF has_dot1q(f) THEN 16 ELSE 12
ether_type(f) == from_be_bytes(f, ether_type_offset(f))
payload_offset(f) == ether_type_offset(f) + 2
ethernet_payload(f) == slice(f, payload_offset(f), Len(f) - 4)

EthernetFrame_new(f) ==
  ~(Len(f) < 14 \/ (has_dot1q(f) /\ Len(f) < 18) \/ Len(f) - 4 <= payload_offset(f))

ArpFrame_new(p) == Len(p) >= 28

ArpOperation(n) == CASE n = 1 -> "request" [] n = 2 -> "reply" [] OTHER -> "unknown"

ArpFrameParams(p) ==
  [kind |-> "arp", operation |-> ArpOperation(from_be_bytes(p, 6)),
   sha |-> slice(p, 8, 14), spa |-> slice(p, 14, 18), tha |-> slice(p, 18, 24), tpa |-> slice(p, 24, 28)]

total_length(p) == from_be_bytes(p, 2)
header_length(p) == get_bits(bits(p[1]), 0, 4) * 4

Ipv4Frame_new(p) == p # <<>> /\ header_length(p) <= Len(p) /\ total_length(p) <= Len(p)

ipv4_payload(p) == slice(p, header_length(p), total_length(p))

UdpFrame_new(p) == Len(p) >= 8 /\ Len(p) >= from_be_bytes(p, 4)
UdpFrame(p) == [kind |-> "udp", data |-> slice(p, 8, from_be_bytes(p, 4))]

TcpFlags(byte) == {Flags[b + 1] : b \in bits(byte)}
data_offset_bytes(p) == get_bits(bits(p[13]), 4, 4) * 4

SegmentOf(p, source_ip) ==
  [kind |-> "tcp", source_ip |-> source_ip, source_port |-> from_be_bytes(p, 0),
   dest_port |-> from_be_bytes(p, 2), seq_num |-> long_from(p, 4), ack_num |-> long_from(p, 8),
   flags |-> TcpFlags(p[14]), window_size |-> from_be_bytes(p, 14),
   data |-> slice(p, data_offset_bytes(p), Len(p))]

Invalid == [kind |-> "invalid"]
Unknown == [kind |-> "unknown"]

parse_ipv4(p) ==
  CASE p[10] = 17 -> IF UdpFrame_new(ipv4_payload(p)) THEN UdpFrame(ipv4_payload(p)) ELSE Invalid
    [] p[10] = 6  -> SegmentOf(ipv4_payload(p), slice(p, 12, 16))
    [] OTHER      -> Unknown

parsed_payload(type, p) ==
  CASE type = 2054 -> IF ArpFrame_new(p) THEN ArpFrameParams(p) ELSE Invalid
    [] type = 2048 -> IF Ipv4Frame_new(p) THEN parse_ipv4(p) ELSE Invalid
    [] OTHER       -> Unknown

handle_packet(f) ==
  IF EthernetFrame_new(f) THEN parsed_payload(ether_type(f), ethernet_payload(f)) ELSE Invalid

-----------------------------------------------------------------------------
(* A peer's TCP puts options between the header and the data. *)
with_options(m, segment) ==
  [slice(segment, 0, 20) EXCEPT ![13] = (5 + Len(m.options) \div 4) * 16]
  \o m.options \o slice(segment, 20, Len(segment))

frame_of(m) ==
  CASE m.kind = "arp" -> generate_ethernet_frame(2054, generate_arp_frame(m))
    [] m.kind = "udp" -> generate_ethernet_frame(2048, generate_ipv4_frame(m, 17, generate_udp_frame(m)))
    [] m.kind = "tcp" -> generate_ethernet_frame(2048,
                           generate_ipv4_frame(m, 6, with_options(m, generate_tcp_frame(m))))

Make ==
  /\ stage = "ready"
  /\ stage' = "made" /\ octets' = frame_of(message)
  /\ UNCHANGED <<message, understood>>

(* The card appends the CRC; a switch may tag the frame with its VLAN. *)
Travel ==
  /\ stage = "made"
  /\ \E tag \in {<<>>, <<129, 0, 0, 7>>}, crc \in {zeros(4), <<222, 173, 190, 239>>} :
       octets' = slice(octets, 0, 12) \o tag \o slice(octets, 12, Len(octets)) \o crc
  /\ stage' = "wire" /\ UNCHANGED <<message, understood>>

Read ==
  /\ stage = "wire"
  /\ stage' = "read" /\ understood' = handle_packet(octets)
  /\ UNCHANGED <<message, octets>>

FramesNext == Make \/ Travel \/ Read

-----------------------------------------------------------------------------
(* The rule of RFC 1071: what carries its own checksum sums up to zero in  *)
(* one's complement, which is a multiple of 65535.                         *)
Verifies(s) == FoldLeft(+, 0, chunks(even(s))) % 65535 = 0

(* What the stack generates carries checksums that a peer accepts, by the  *)
(* rule and not by the code's own sum: that of the IPv4 header, and that   *)
(* of a segment, odd lengths and carries at every addition included; and   *)
(* a frame reads as it was written, although it was padded to the minimal  *)
(* length, tagged, given options and a CRC on its way.                     *)
FramesKeepTheirMeaning ==
  /\ stage = "made" /\ message.kind # "arp" => Verifies(slice(octets, 14, 34))
  /\ stage = "made" /\ message.kind = "tcp" /\ message.options = <<>> =>
       LET segment == slice(octets, 34, 14 + total_length(slice(octets, 14, 34)))
       IN Verifies(pseudo_header(message, Len(segment)) \o segment)
  /\ stage = "read" => \A field \in DOMAIN understood : understood[field] = message[field]

=============================================================================
