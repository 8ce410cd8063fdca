---------------------------- MODULE IoAllocator ----------------------------
(***************************************************************************)
(* The allocator of I/O port ranges (src/io/io_allocator.rs).  A driver    *)
(* requests a range once, at start-up, and then reads and writes ports at  *)
(* offsets into it.  Ports and offsets are u16: with overflow checks on, a *)
(* sum that does not fit panics.                                           *)
(***************************************************************************)
EXTENDS Integers, Sequences

CONSTANTS
  W,        \* 2^16
  Lengths,  \* lengths requested
  Widths,   \* bytes per access: 1, 2 and 4
  MaxRanges \* bound on granted ranges

ASSUME IoAssumption ==
  /\ W \in Nat /\ MaxRanges \in Nat
  /\ Lengths \subseteq 0 .. W - 1
  /\ Widths \subseteq Nat \ {0}

VARIABLES
  allocated_ranges, \* sequence of [start, end], both inclusive
  granted,          \* the IoRanges handed out, [addr, length], in order
  access,           \* the last access: who made it, and the ports it used
  io_panic

ioVars == <<allocated_ranges, granted, access, io_panic>>

NoAccess == [by |-> 0, ports |-> {}]

IoInit ==
  /\ allocated_ranges = <<>> /\ granted = <<>>
  /\ access = NoAccess /\ io_panic = FALSE

Bug_ranges_overlap(range, new_range) ==
  \/ new_range.start >= range.start /\ new_range.start <= range.end

ranges_overlap(range, new_range) ==
  \/ range.start >= new_range.start /\ range.start <= new_range.end
  \/ range.end >= new_range.start /\ range.end <= new_range.end

range_already_allocated(new_range) ==
  \E i \in DOMAIN allocated_ranges : ranges_overlap(allocated_ranges[i], new_range)

new_range(addr, length) == [start |-> addr, end |-> addr + length - 1]

(* addr + length - 1 is computed from the left. *)
range_fits(addr, length) == addr + length < W /\ addr + length > 0

request_io_range(addr, length) ==
  /\ ~io_panic /\ Len(granted) < MaxRanges
  /\ io_panic' = ~range_fits(addr, length)
  /\ IF range_fits(addr, length) /\ ~range_already_allocated(new_range(addr, length))
     THEN /\ allocated_ranges' = Append(allocated_ranges, new_range(addr, length))
          /\ granted' = Append(granted, [addr |-> addr, length |-> length])
     ELSE UNCHANGED <<allocated_ranges, granted>>
  /\ UNCHANGED access

offset_ok(length, offset, num_bytes) == offset + num_bytes <= length

(* read_u8 ... write_32: verify_offset may panic or return an error; the   *)
(* port instruction reaches num_bytes consecutive ports.                   *)
Access(i, offset, num_bytes) ==
  LET r == granted[i] IN
  /\ ~io_panic
  /\ io_panic' = ~(offset + num_bytes < W)
  /\ access' = IF offset + num_bytes < W /\ offset_ok(r.length, offset, num_bytes)
               THEN [by |-> i, ports |-> (r.addr + offset) .. (r.addr + offset + num_bytes - 1)]
               ELSE access
  /\ UNCHANGED <<allocated_ranges, granted>>

IoNext ==
  \/ \E addr \in 0 .. W - 1, length \in Lengths : request_io_range(addr, length)
  \/ \E i \in DOMAIN granted, offset \in 0 .. W - 1, n \in Widths : Access(i, offset, n)

IoSpec == IoInit /\ [][IoNext]_ioVars

-----------------------------------------------------------------------------
IoRange == [addr : 0 .. W - 1, length : 0 .. W - 1]
PortRange == [start : 0 .. W - 1, end : -1 .. W - 1]

IoTypeOK ==
  /\ allocated_ranges \in Seq(PortRange)
  /\ granted \in Seq(IoRange)
  /\ Len(granted) = Len(allocated_ranges)
  /\ \A i \in DOMAIN granted :
       allocated_ranges[i] = new_range(granted[i].addr, granted[i].length)
  /\ access \in [by : Nat, ports : SUBSET (0 .. W - 1)]
  /\ io_panic \in BOOLEAN

Ports(r) == r.start .. r.end

(* What range_already_allocated achieves: two granted ranges share no      *)
(* port, unless the later one lies strictly inside the earlier one         *)
(* (io_allocator.rs:4).                                                    *)
OverlapMeansNested ==
  \A i, j \in DOMAIN allocated_ranges : i < j =>
    LET a == allocated_ranges[i]
        b == allocated_ranges[j]
    IN  \/ Ports(a) \cap Ports(b) = {}
        \/ a.start < b.start /\ b.end < a.end

(* A driver only reaches ports of a range it was granted, for every width  *)
(* of access: verify_offset, and the sum addr + offset, which never        *)
(* overflows (io_allocator.rs:68).                                         *)
AccessIsGranted ==
  access = NoAccess \/
  /\ access.by \in DOMAIN granted
  /\ access.ports # {}
  /\ access.ports \subseteq Ports(allocated_ranges[access.by])

(* "Check that range is not used" (io_allocator.rs:14): no port belongs to *)
(* two drivers.  It holds of requests that are not nested, such as those   *)
(* of the kernel (module Boot).                                            *)
RangesAreDisjoint ==
  \A i, j \in DOMAIN allocated_ranges :
    i # j => Ports(allocated_ranges[i]) \cap Ports(allocated_ranges[j]) = {}

=============================================================================
