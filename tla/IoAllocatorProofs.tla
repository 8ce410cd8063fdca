------------------------- MODULE IoAllocatorProofs -------------------------
(***************************************************************************)
(* The granted port ranges are disjoint or nested, and accesses stay       *)
(* inside them, for ports of any width and any number of drivers.          *)
(***************************************************************************)
EXTENDS IoAllocator, TLAPS

(* Types are preserved by every step: a range is pushed only when its end  *)
(* fits in a u16 (io_allocator.rs:35).                                     *)
LEMMA IoTypes == IoTypeOK /\ [IoNext]_ioVars => IoTypeOK'
<1> SUFFICES ASSUME IoTypeOK, [IoNext]_ioVars PROVE IoTypeOK'
  OBVIOUS
<1> USE IoAssumption DEF IoAssumption
<1>1. ASSUME NEW addr \in 0 .. W - 1, NEW length \in Lengths, request_io_range(addr, length)
      PROVE  IoTypeOK'
  <2>1. CASE range_fits(addr, length) /\ ~range_already_allocated(new_range(addr, length))
    <3> DEFINE r == new_range(addr, length)
               g == [addr |-> addr, length |-> length]
    <3>1. allocated_ranges' = Append(allocated_ranges, r) /\ granted' = Append(granted, g)
      BY <1>1, <2>1 DEF request_io_range
    <3>2. r \in PortRange /\ g \in IoRange
      BY <2>1 DEF new_range, range_fits, PortRange, IoRange
    <3>3. /\ allocated_ranges' \in Seq(PortRange)
          /\ granted' \in Seq(IoRange)
          /\ Len(granted') = Len(allocated_ranges')
      BY <3>1, <3>2 DEF IoTypeOK
    <3>4. \A i \in DOMAIN granted' :
            allocated_ranges'[i] = new_range(granted'[i].addr, granted'[i].length)
      BY <3>1, <3>2 DEF IoTypeOK, new_range
    <3>5. access' = access /\ io_panic' \in BOOLEAN
      BY <1>1 DEF request_io_range
    <3> QED
      BY <3>3, <3>4, <3>5 DEF IoTypeOK, new_range
  <2>2. CASE ~(range_fits(addr, length) /\ ~range_already_allocated(new_range(addr, length)))
    BY <1>1, <2>2 DEF request_io_range, IoTypeOK, new_range
  <2> QED
    BY <2>1, <2>2
<1>2. ASSUME NEW i \in DOMAIN granted, NEW offset \in 0 .. W - 1, NEW n \in Widths,
             Access(i, offset, n)
      PROVE  IoTypeOK'
  <2>0. i \in Nat /\ n \in Nat /\ granted[i] \in IoRange
    BY DEF IoTypeOK
  <2>1. granted[i].addr \in 0 .. W - 1 /\ granted[i].length \in 0 .. W - 1
    BY <2>0 DEF IoRange
  <2>2. /\ allocated_ranges[i] = new_range(granted[i].addr, granted[i].length)
        /\ allocated_ranges[i] \in PortRange
    BY DEF IoTypeOK
  <2>3. granted[i].addr + granted[i].length - 1 \in -1 .. W - 1
    BY <2>2 DEF PortRange, new_range
  <2> DEFINE p == (granted[i].addr + offset) .. (granted[i].addr + offset + n - 1)
  <2>5. ASSUME offset + n <= granted[i].length PROVE p \in SUBSET (0 .. W - 1)
    BY <2>0, <2>1, <2>3, <2>5
  <2>6. access' = access \/ (offset + n <= granted[i].length /\ access' = [by |-> i, ports |-> p])
    BY <1>2 DEF Access, offset_ok
  <2> HIDE DEF p
  <2>4. access' \in [by : Nat, ports : SUBSET (0 .. W - 1)]
    BY <2>0, <2>5, <2>6 DEF IoTypeOK
  <2> QED
    BY <1>2, <2>4 DEF Access, IoTypeOK, new_range
<1>3. CASE UNCHANGED ioVars
  BY <1>3 DEF ioVars, IoTypeOK, new_range
<1> QED
  BY <1>1, <1>2, <1>3 DEF IoNext

(* Nothing is granted or accessed at first. *)
LEMMA IoInitially == IoInit => IoTypeOK
<1> SUFFICES ASSUME IoInit PROVE IoTypeOK
  OBVIOUS
<1>1. allocated_ranges = <<>> /\ granted = <<>> /\ io_panic = FALSE
  BY DEF IoInit
<1>2. access \in [by : Nat, ports : SUBSET (0 .. W - 1)]
  BY DEF IoInit, NoAccess
<1>3. allocated_ranges \in Seq(PortRange) /\ granted \in Seq(IoRange)
  BY <1>1
<1>4. Len(granted) = Len(allocated_ranges) /\ DOMAIN granted = {}
  BY <1>1
<1> QED
  BY <1>1, <1>2, <1>3, <1>4 DEF IoTypeOK

(* The type invariant of the port allocator. *)
THEOREM IoTypeCorrect == IoSpec => []IoTypeOK
  BY IoInitially, IoTypes, PTL DEF IoSpec

(* ranges_overlap misses nothing but nesting: a new range that shares a    *)
(* port with an old one, and that ranges_overlap lets pass, is strictly    *)
(* inside it (io_allocator.rs:4).                                          *)
LEMMA MissedIsNested ==
  ASSUME NEW a \in PortRange, NEW b \in PortRange, ~ranges_overlap(a, b)
  PROVE  Ports(a) \cap Ports(b) = {} \/ (a.start < b.start /\ b.end < a.end)
BY IoAssumption DEF PortRange, ranges_overlap, Ports

(* Two granted ranges share no port or the later is nested in the earlier  *)
(* (io_allocator.rs:34), for any sequence of requests.                     *)
THEOREM RangesNest == IoSpec => []OverlapMeansNested
<1>1. IoInit => OverlapMeansNested
  BY DEF IoInit, OverlapMeansNested
<1>2. IoTypeOK /\ OverlapMeansNested /\ [IoNext]_ioVars => OverlapMeansNested'
  <2> SUFFICES ASSUME IoTypeOK, OverlapMeansNested, [IoNext]_ioVars,
                      NEW i \in DOMAIN allocated_ranges', NEW j \in DOMAIN allocated_ranges',
                      i < j
               PROVE  \/ Ports(allocated_ranges'[i]) \cap Ports(allocated_ranges'[j]) = {}
                      \/ /\ allocated_ranges'[i].start < allocated_ranges'[j].start
                         /\ allocated_ranges'[j].end < allocated_ranges'[i].end
    BY DEF OverlapMeansNested, Ports
  <2>1. CASE UNCHANGED allocated_ranges
    BY <2>1 DEF OverlapMeansNested
  <2>2. CASE ~UNCHANGED allocated_ranges
    <3>1. PICK addr \in 0 .. W - 1, length \in Lengths : request_io_range(addr, length)
      BY <2>2 DEF IoNext, Access, ioVars
    <3> DEFINE r == new_range(addr, length)
    <3>2. /\ range_fits(addr, length) /\ ~range_already_allocated(r)
          /\ allocated_ranges' = Append(allocated_ranges, r)
      BY <2>2, <3>1 DEF request_io_range
    <3>3. r \in PortRange
      BY <3>2, IoAssumption DEF new_range, range_fits, PortRange, IoRange
    <3>4. i \in DOMAIN allocated_ranges /\ allocated_ranges'[i] = allocated_ranges[i]
      BY <3>2, <3>3 DEF IoTypeOK
    <3>5. CASE j \in DOMAIN allocated_ranges
      <4>1. allocated_ranges'[j] = allocated_ranges[j]
        BY <3>2, <3>3, <3>5 DEF IoTypeOK
      <4> QED
        BY <3>4, <3>5, <4>1 DEF OverlapMeansNested
    <3>6. CASE j \notin DOMAIN allocated_ranges
      <4>1. allocated_ranges'[j] = r
        BY <3>2, <3>3, <3>6 DEF IoTypeOK
      <4>2. allocated_ranges[i] \in PortRange /\ ~ranges_overlap(allocated_ranges[i], r)
        BY <3>2, <3>4 DEF IoTypeOK, range_already_allocated
      <4> HIDE DEF r
      <4> QED
        BY <3>3, <3>4, <4>1, <4>2, MissedIsNested
    <3> QED
      BY <3>5, <3>6
  <2> QED
    BY <2>1, <2>2
<1> QED
  BY <1>1, <1>2, IoTypeCorrect, PTL DEF IoSpec

(* The ports of an access that passes verify_offset are ports of its range *)
(* (io_allocator.rs:68).                                                   *)
LEMMA PartOfRange ==
  ASSUME NEW a \in Nat, NEW l \in Nat, NEW offset \in Nat, NEW n \in Nat \ {0}, offset + n <= l
  PROVE  /\ (a + offset) .. (a + offset + n - 1) \subseteq a .. (a + l - 1)
         /\ a + offset \in (a + offset) .. (a + offset + n - 1)
  OBVIOUS

(* A driver reaches only ports of its own range (io_allocator.rs:68).      *)
THEOREM AccessesGranted == IoSpec => []AccessIsGranted
<1>1. IoInit => AccessIsGranted
  BY DEF IoInit, AccessIsGranted
<1>2. IoTypeOK /\ AccessIsGranted /\ [IoNext]_ioVars => AccessIsGranted'
  <2> SUFFICES ASSUME IoTypeOK, AccessIsGranted, [IoNext]_ioVars PROVE AccessIsGranted'
    OBVIOUS
  <2> USE IoAssumption DEF IoAssumption
  <2>1. ASSUME NEW addr \in 0 .. W - 1, NEW length \in Lengths, request_io_range(addr, length)
        PROVE  AccessIsGranted'
    <3>1. CASE UNCHANGED <<allocated_ranges, granted>>
      BY <2>1, <3>1 DEF request_io_range, AccessIsGranted
    <3>2. CASE ~UNCHANGED <<allocated_ranges, granted>>
      <4> DEFINE r == new_range(addr, length)
                 g == [addr |-> addr, length |-> length]
      <4>1. /\ allocated_ranges' = Append(allocated_ranges, r) /\ granted' = Append(granted, g)
            /\ range_fits(addr, length) /\ access' = access
        BY <2>1, <3>2 DEF request_io_range
      <4>2. r \in PortRange /\ g \in IoRange
        BY <4>1 DEF new_range, range_fits, PortRange, IoRange
      <4>3. \A k \in DOMAIN granted : k \in DOMAIN granted'
                                      /\ allocated_ranges'[k] = allocated_ranges[k]
        BY <4>1, <4>2 DEF IoTypeOK
      <4> QED
        BY <4>1, <4>3 DEF AccessIsGranted
    <3> QED
      BY <3>1, <3>2
  <2>2. ASSUME NEW i \in DOMAIN granted, NEW offset \in 0 .. W - 1, NEW n \in Widths,
               Access(i, offset, n)
        PROVE  AccessIsGranted'
    <3>1. CASE access' = access
      BY <2>2, <3>1 DEF Access, AccessIsGranted
    <3>2. CASE access' # access
      <4> DEFINE g == granted[i]
                 p == (g.addr + offset) .. (g.addr + offset + n - 1)
      <4>1. offset + n <= g.length /\ access' = [by |-> i, ports |-> p]
        BY <2>2, <3>2 DEF Access, offset_ok
      <4>0. g \in IoRange
        BY DEF IoTypeOK
      <4>2. g.addr \in Nat /\ g.length \in Nat /\ n \in Nat \ {0} /\ offset \in Nat
        BY <4>0 DEF IoRange
      <4>6. allocated_ranges[i] = new_range(g.addr, g.length)
        BY DEF IoTypeOK
      <4>3. Ports(allocated_ranges[i]) = g.addr .. (g.addr + g.length - 1)
        BY <4>6 DEF new_range, Ports
      <4>4. p \subseteq g.addr .. (g.addr + g.length - 1) /\ g.addr + offset \in p
        BY <4>1, <4>2, PartOfRange
      <4>5. granted' = granted /\ allocated_ranges' = allocated_ranges
        BY <2>2 DEF Access
      <4> QED
        BY <4>1, <4>3, <4>4, <4>5 DEF AccessIsGranted
    <3> QED
      BY <3>1, <3>2
  <2>3. CASE UNCHANGED ioVars
    BY <2>3 DEF ioVars, AccessIsGranted
  <2> QED
    BY <2>1, <2>2, <2>3 DEF IoNext
<1> QED
  BY <1>1, <1>2, IoTypeCorrect, PTL DEF IoSpec

=============================================================================
