----------------------------- MODULE BootProofs -----------------------------
(***************************************************************************)
(* Booting uses the port allocator as module IoAllocator says, whatever    *)
(* hardware it finds, so what is proved of the allocator holds of it.      *)
(***************************************************************************)
EXTENDS Boot, IoAllocatorProofs

(* A request that Kernel::init makes is one of the allocator's. *)
LEMMA RequestIsIoStep ==
  ASSUME NEW a \in 0 .. W - 1, NEW n \in {1, 2, 8, 20}, expect_range(Port(a, n))
  PROVE  IoNext
<1>1. request_io_range(a, n)
  BY DEF expect_range, Port
<1>2. n \in Lengths
  BY PortAssumption DEF PortAssumption
<1> QED
  BY <1>1, <1>2 DEF IoNext

(* The ports that are requested before the scan of PCI fit in their word. *)
LEMMA EarlyPortsFit ==
  ASSUME NEW i \in 1 .. 6
  PROVE  \E a \in 0 .. W - 1, n \in {1, 2, 8, 20} : EarlyPorts[i] = Port(a, n)
<1>1. /\ {1016, 32, 160, 244, 112, 3320} \subseteq 0 .. W - 1
  BY IoAssumption, PortAssumption DEF IoAssumption, PortAssumption
<1>2. i \in {1, 2, 3, 4, 5, 6}
  OBVIOUS
<1> QED
  BY <1>1, <1>2 DEF EarlyPorts

(* RequestEarly ends with the last of its ports, so that the next index is *)
(* never past them.                                                        *)
EarlyIsShort == at = "early" => Len(granted) < 6

LEMMA EarlyStaysShort ==
  ASSUME IoTypeOK, EarlyIsShort, [BootNext]_bootVars
  PROVE  EarlyIsShort'
<1>0. granted \in Seq(IoRange)
  BY DEF IoTypeOK
<1>1. CASE RequestEarly
  <2>1. CASE at' = "early"
    <3>1. at = "early" /\ Len(granted) + 1 # Len(EarlyPorts)
      BY <1>1, <2>1 DEF RequestEarly, Thread_at
    <3>2. Len(granted) < 6 /\ Len(granted) + 1 # 6
      BY <3>1 DEF EarlyIsShort, EarlyPorts
    <3>3. granted' = granted \/ \E g : granted' = Append(granted, g)
      BY <1>1 DEF RequestEarly, expect_range, request_io_range, ioVars
    <3>4. Len(granted') < 6
      BY <1>0, <3>2, <3>3
    <3> QED
      BY <3>4 DEF EarlyIsShort
  <2>2. CASE at' # "early"
    BY <2>2 DEF EarlyIsShort
  <2> QED
    BY <2>1, <2>2
<1>2. CASE UNCHANGED bootVars
  BY <1>2 DEF bootVars, ioVars, EarlyIsShort
<1>3. CASE Hardware
  <2>1. UNCHANGED <<at, granted>>
    BY <1>3 DEF Hardware, BootTick, Delivered, ap_startup, world_rest, ioVars
  <2> QED
    BY <2>1 DEF EarlyIsShort
<1>4. CASE BootThread /\ ~RequestEarly
  <2>1. at' # "early"
    BY <1>4 DEF BootThread, Scan, ScanDone, Driver, DriversDone, Ps2Data, Ps2Command, Acpi,
       NextCpu, send_init_ipi, send_deinit_ipi, BusyWait, send_startup_ipi, BusyWaitAgain,
       send_startup_again, Thread_at
  <2> QED
    BY <2>1 DEF EarlyIsShort
<1> QED
  BY <1>1, <1>2, <1>3, <1>4 DEF BootNext

(* Every step of the boot is a step of the allocator, or leaves it alone. *)
LEMMA BootStepIsIoStep ==
  IoTypeOK /\ EarlyIsShort /\ [BootNext]_bootVars => [IoNext]_ioVars
<1> SUFFICES ASSUME IoTypeOK, EarlyIsShort, [BootNext]_bootVars
             PROVE  IoNext \/ UNCHANGED ioVars
  OBVIOUS
<1>1. CASE RequestEarly
  <2>1. CASE UNCHANGED ioVars
    BY <2>1
  <2>2. CASE expect_range(EarlyPorts[Len(granted) + 1])
    <3>1. granted \in Seq(IoRange) /\ Len(granted) < 6
      BY <1>1 DEF RequestEarly, Thread_at, EarlyIsShort, IoTypeOK
    <3>2. Len(granted) \in Nat
      BY <3>1
    <3>3. Len(granted) + 1 \in 1 .. 6
      BY <3>1, <3>2
    <3>4. PICK a \in 0 .. W - 1, n \in {1, 2, 8, 20} : EarlyPorts[Len(granted) + 1] = Port(a, n)
      BY <3>3, EarlyPortsFit
    <3> QED
      BY <2>2, <3>4, RequestIsIoStep
  <2> QED
    BY <1>1, <2>1, <2>2 DEF RequestEarly
<1>2. CASE Driver
  <2>1. ASSUME NEW base \in 0 .. W - 1, expect_range(Port(base, 20))
        PROVE  IoNext
    BY <2>1, RequestIsIoStep
  <2>2. (\E base \in 0 .. W - 1 : expect_range(Port(base, 20))) \/ UNCHANGED ioVars
    BY <1>2, Zenon DEF Driver
  <2> QED
    BY <2>1, <2>2
<1>3. CASE Ps2Data \/ Ps2Command
  <2>1. {96, 100} \subseteq 0 .. W - 1
    BY IoAssumption, PortAssumption DEF IoAssumption, PortAssumption
  <2>2. expect_range(Port(96, 1)) \/ expect_range(Port(100, 1))
    BY <1>3 DEF Ps2Data, Ps2Command
  <2> QED
    BY <2>1, <2>2, RequestIsIoStep
<1>5. CASE UNCHANGED bootVars
  BY <1>5 DEF bootVars
<1>6. CASE Hardware
  BY <1>6 DEF Hardware, BootTick, Delivered, ap_startup, world_rest
<1>7. CASE Scan \/ ScanDone \/ DriversDone \/ Acpi \/ NextCpu
  BY <1>7 DEF Scan, ScanDone, DriversDone, Acpi, NextCpu
<1>8. CASE \/ send_init_ipi \/ send_deinit_ipi \/ BusyWait \/ send_startup_ipi
            \/ BusyWaitAgain \/ send_startup_again
  BY <1>8 DEF send_init_ipi, send_deinit_ipi, BusyWait, send_startup_ipi, BusyWaitAgain,
     send_startup_again, bootRest
<1> QED
  BY <1>1, <1>2, <1>3, <1>5, <1>6, <1>7, <1>8 DEF BootNext, BootThread

(* Whatever devices, tables and processors Kernel::init finds, the drivers *)
(* it starts use the port allocator as IoSpec says (io_allocator.rs:34).   *)
THEOREM BootUsesAllocator == BootSpec => IoSpec
<1>1. BootInit => IoInit /\ IoTypeOK /\ EarlyIsShort
  <2>1. BootInit => IoInit
    BY DEF BootInit, BootStart
  <2>2. IoInit => IoTypeOK
    BY IoInitially
  <2>3. IoInit => EarlyIsShort
    BY DEF IoInit, EarlyIsShort
  <2> QED
    BY <2>1, <2>2, <2>3
<1>2. IoTypeOK /\ EarlyIsShort /\ [BootNext]_bootVars => IoTypeOK' /\ EarlyIsShort' /\ [IoNext]_ioVars
  BY BootStepIsIoStep, EarlyStaysShort, IoTypes
<1> QED
  BY <1>1, <1>2, PTL DEF BootSpec, IoSpec

(* So no two drivers of a booted kernel hold ranges that overlap, unless   *)
(* one range is strictly inside the other (io_allocator.rs:4).             *)
THEOREM BootRangesNest == BootSpec => []OverlapMeansNested
  BY BootUsesAllocator, RangesNest, PTL

=============================================================================
