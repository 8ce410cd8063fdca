# A TLA+ model of stream-os

stream-os is a 32-bit x86 kernel in Rust. It boots on one processor (the BSP), starts
the others (the APs), and runs everything else as async tasks that an executor polls on
all of them; device interrupts go to the BSP. This directory models it from the search for
hardware to the game: locks, queues, the executor, the drivers and their wake-ups, the
network, and the words and octets that are exchanged with cards and peers. Source paths
below are relative to `src/src/`.

## The system

| part | state | operations | what is hard |
|---|---|---|---|
| async mutex, waker list (`util/async_mutex.rs`, `util/waker_list.rs`) | `count`, wakers | `lock`, `try_lock`, guard drop | release between the test and the registration of a waiter |
| interrupt guard, spin lock (`util/interrupt_guard.rs`, `util/spinlock.rs`) | `NUM_GUARDS`, IF, `available` | `lock`, drop | interrupts inside `lock` and `drop`, nesting |
| lock-free queue (`util/lock_free_queue.rs`) | ring, `head`, `tail`, `reserved`, `valid` | `push`, `pop` | interrupted pushes, store buffers, full queue |
| executor (`future.rs`, `multiprocessing.rs`) | task map, run queue, closure queues | `run`, `wake`, `execute`, the AP loop | wake-ups racing `hlt`, closures that outlive a round |
| allocator (`allocator.rs`) | free list | `alloc`, `dealloc` | splitting, alignment, coalescing |
| TCP (`net/tcp.rs`) | connection state | `handle_frame`, `OutgoingPoller::poll`, `write` | loss, duplicates, retransmission, end of the sequence space |
| RTL8139 (`rtl8139.rs`) | waker map, ring offsets | `read`, `write`, `service`, handler | wake-ups racing the card, ring wrap |
| sleep (`sleep.rs`, `util/atomic_cell.rs`) | posted and visible wakeups | `sleep`, `service`, tick | late posts, cancelled sleeps |
| USB (`usb/`, `mouse.rs`, `util/oneshot.rs`) | descriptors, waker queue, channels | enumeration, `append_work`, handler | interrupts in mid-poll, failing descriptors |
| interrupts (`interrupts.rs`) | handler table, PIC masks | `register`, dispatch, EOI | nesting through trap gates, cascading |
| network tasks (`main.rs`, `net/mod.rs`) | ARP table, mutex of the card | receive loop, `send_udp`, `tcp_service` | lost answers, futures without wakers, a card that is taken |
| frames (`net/mod.rs`, `net/tcp.rs`) | octets | `generate_*`, the parsers | carries, odd lengths, padding, tags |
| clock (`io/rtc.rs`) | index register, status registers | `new`, `read`, `write`, tick | torn dates, a tick that is not acknowledged |
| boot (`main.rs`, `io/pci.rs`, `acpi.rs`, `multiboot2.rs`, `multiprocessing.rs`, `gdt.rs`) | scan position, ports, APIC command register | `Kernel::init` | carries of the scan, lost startup interrupts |
| I/O ports (`io/io_allocator.rs`) | granted ranges | `request_io_range`, accesses | overlap, overflow |
| logger, serial port (`logger.rs`, `io/serial.rs`) | log queue, waker cell, port | `log!`, `service`, `write_byte` | pushes racing the poll, a waker freed in use |
| desktop (`cursor.rs`, `util/updated_val.rs`, `util/async_channel.rs`, `io/ps2.rs`, `game.rs`) | channel, position, key | `send`, `recv`, `read`, `write`, `wait`, the game's loop | nested selects, two locks for one update |
| game (`game.rs`) | ball, paddle, bricks | `update` | several bounces in a frame |

How they interact: interrupt handlers wake tasks through the lock-free queue; the
executor polls them, possibly on an AP; tasks share drivers through the async mutex and
wait in per-driver waker lists; every allocation takes an interrupt guard and then a spin
lock. `PROJECT.json` lists all parts, the unmodelled ones included, the hazards with
their lines, and the source lines of every definition.

## Modules

`Lock` is the abstract lock; `AsyncMutex` and the spin lock of `InterruptGuard` implement
it. `LockFreeQueue`, `Executor`, `Allocator`, `Tcp`, `Rtl8139`, `Sleep`, `Usb`,
`Interrupts`, `Rtc`, `IoAllocator`, `Logger` and `Game` model one part each. Modules that
compose parts: `Net` (receive loop, ARP, UDP and TCP tasks), `Desktop` (mouse, cursor,
keyboard and the loop of the game) and `Boot`, which extends `IoAllocator` and is shown to
use it as its specification says. `Frames` and `UsbWire` have the data that `Tcp`, `Net`
and `Usb` leave out, octet by octet and bit by bit, on the words of `Bits`.

A part relies on what is checked of another through an abstraction. `Executor` takes the
run queue as two sets of ids, those published and those `late`: of two pushes that overlap
on different CPUs each may miss the other's element, which then waits for the next push
(`util/lock_free_queue.rs:56-67`). `Logger`, whose queue is popped while other CPUs push,
takes a push in three steps (load `head`, take a slot, publish) and a pop in two (take,
reload `tail`), and records what goes wrong at a full queue in `log_fault`. `Sleep`,
`Rtl8139` and `Desktop` take a mutex as a variable `owner`; in `Net` the mutex of the card
has its holder, the tasks that wait for it, and `notify_one`. `Tcp` takes the wait for the
card as one step that ends (`Write`), and the ARP table as whether the peer is in it. Cards, the clock, the interrupt controller,
the APIC, the serial chip, peers and USB devices are external: they are modelled from how
the code uses them, and marked so in `PROJECT.json`.

`MC*` instantiate modules for TLC. Where one instantiates several that share no state,
each behaviour is one of a single part (`which`, chosen in `MCInit`); it is no
composition. `*Proofs` hold the theorems.

Definitions have the source's names where they can (`notify_one`, `handle_frame`); one
function split into several actions has an action per atomic step (`PollLoad`,
`register`). Program counters name the points between them. Operators `Bug_*` are
plausible mistakes in the operator that follows; no specification uses them.

Several modules choose the machine or the case once, in `Init`: `cpus` in `AsyncMutex`
(one to `NumCpus` processors), `secondary` in `LockFreeQueue` (other CPUs push), `writer`
in `Tcp` (the application writes, or the peer sends while a second CPU polls), `rough` in
`Usb` (interrupts inside a poll, non-atomic card, failing descriptors), `cpus` in
`Desktop` and `Net`, `cores` in `Rtc`, `machine` in `Boot` (one of eight, with faulty
tables, ports that collide, an invalid interrupt line, bridges, and a network card in a
slot with several functions among them). A property that
the code guarantees in one case only is an implication from that variable.

## Runs

All but the last pass.

| run | instance | shows |
|---|---|---|
| locks | 3 tasks, one of which drops pending `lock()`s, 1 to 3 CPUs; or 2 APs, 4 contexts, 3 nested guards | refinement of `Lock`; on one CPU a free mutex with a waiter is taken again; no spinning on oneself |
| queue | 3 slots, 4 pushes by thread, interrupt and AP | FIFO without loss or duplication; a late element is found by the next push; on one CPU all are popped |
| executor | 3 tasks (one the dispatcher's service), 1 AP that boots later, pushes that are published late | a task is in one place, none outlives its round, a woken one is polled |
| allocator | 26-byte first segment, 4 layouts, 5 live allocations; or 2 logs each of a task and a handler, 2 CPUs, queue of 3 | segments tile the heap; a refusal means nothing fits; what is logged and published leaves the serial port whole and in order |
| tcp | 5-bit sequence numbers, 3 bytes each way, a peer in the ARP table from the start or later | acknowledged data is delivered, no written byte is lost, the stream stays in order, what is written is taken and sent |
| rtl | 24-byte ring, 3 packets of 2 lengths, 1 write | reader and card agree on offsets, no lost wake-up, packets are read |
| sleep | 2 tasks, 2 sleeps each, 1 CPU | a sleeper stays listed, sleeps end |
| usb | 2 ports, up to 7 requests; or 8 devices on the wire | the waker queue stays short; requests are answered if not `rough`; a mouse is found and its movements are heard |
| boot | 4 devices, 2 on one level line, 2 raises each; or one clock update during 5 calls, 1 or 2 processors; or 8 machines with a PCI space of 2 x 4 x 2 | handlers are exclusive, raised interrupts are served; dates are whole and ticks go on; the scan finds all general devices, ports are disjoint, listed processors start |
| net | 2 peers, one with 2 MACs, 1 or 2 CPUs; or one frame of each kind and critical length | every frame goes to its host; on one CPU `send_udp` ends; checksums verify and frames read as written |
| desktop | 2 movements, 1 key, 1 or 2 CPUs; or the game on a field of 24 with 2 bricks | movements are applied once and in order, nobody sleeps on news, keys are read, frames go on; the ball stays in the field, the paddle lets go |
| queue_assert | 2 slots, 2 APs, pops and pushes overlap | **violated**: see the finding |

Bounds: the queue has more pushes than slots, so indices wrap and it fills; the heap
holds several segments, so both neighbours of a freed one can be free; three
packets of the longer length exceed the receive ring, so it wraps; the peer's third byte reaches the end of the sequence
word, and one server sequence number is its last value; guards and handlers nest deeper
than two; the log queue can fill; the PCI scan carries into every digit; frames have the
lengths around which padding starts and ends, odd ones, and numbers that carry at every
addition. The field of the game is smaller than in the code, with the same order of
sizes (`GameAssumption`); the proof covers all sizes. In `Net` a host may send any of its
frames at any time, and which one it is is settled when it is read, so loss, repetition
and reordering need no bound. The three bytes of `tcp` do not suffice for a shuffle of
requeued packets, which takes four payloads. No symmetry is used. Deadlock is not
checked where the system may stop, by itself or at a bound (allocator, tcp, rtl, usb,
boot, net).

**Fairness.** A processor keeps executing (weak fairness of the steps inside a poll). The
executor polls every drained id in each round, so polls of a woken task have strong
fairness where other tasks can disable them. The RTC ticks 256 times a second, interrupts
that are let through are taken, store buffers drain, and the modelled cards serve what
they are given. Nothing is assumed of network peers. A task that awaits a mutex gets it
though others keep taking it (strong fairness in `Sleep` and `Desktop`): `notify_one` hands
it on, which `FreeMutexIsTaken` shows for one CPU, and is an assumption for two.
In `Tcp`, `write` ends (weak fairness of `Write`): the card is given back, and a task that
awaits it gets it. `Net` does not assume this but has the mutex itself, which is not fair.
There the tasks have weak fairness only, and `UdpEnds` is for traffic that ends.
`WokenIsPolled` further assumes that interrupts do not refill the run queue faster than it
is drained (`DrainsEnd`), and that an id that was left unpublished is followed by another
push (`LateEnds`), as when the timer wakes the game for its next frame; `EveryListedCpuStarts` assumes that a tick is longer than a reset of a processor, and
`DateIsWhole` that an update of the clock outlasts the few accesses between two checks.

**Restrictions.** Some properties are narrower than one would wish, because the code does
not give more:
 - `FreeMutexIsTaken`, `WrittenIsSent`, `UdpEnds`, `EveryPushPopped`, `NobodySleepsOnNews`,
   `DateIsWhole` and `TicksGoOn` are for one CPU; `Sleep` is run with one. `Executor` is
   run with a single AP.
 - `WokenIsPolled` allows for an AP that misses its interrupt just before `hlt`
   (`multiprocessing.rs:344`), and assumes a later push after a late publication.
 - `queue` does not fill the last slot from other CPUs, nor from an interrupt in the middle
   of a pop (`InUse`); the code does not prevent either.
 - `AckedIsDelivered` is for peers that set PSH on all data; `StreamIntactUntilShuffled`
   ends at the first retransmission that requeues behind waiting data (`net/tcp.rs:617`).
 - `NoLostWakeup` is for an unshared line; `ReceivedIsRead` allows for the panic of
   `get_mac` (`rtl8139.rs:682`). `RequestIsAnswered` excludes `rough`.
 - `LoggedIsPrinted` leaves out a log that two CPUs left unpublished, for as long as it
   is, and everything after the queue was filled up (the panic at `logger.rs:184`, the
   assertion of the finding, a ring that a stale `head` corrupts) or after a wake-up was
   lost through a waker that another CPU has freed (`util/atomic_cell.rs:21`).
 - `WrittenIsSent` is for a peer whose address `tcp_service` finds when it looks. Without
   one it sleeps with no waker and no timeout, and nobody asks for the address
   (`main.rs:470-472`), so what was written may never be sent. Both `WrittenIsSent` and
   `UdpEnds` allow for the panic of `get_mac` (`main.rs:383`, `418`, `473`).
 - `PacketsReachTheirHost` allows for a MAC that the host has had and no longer has: the
   table forgets nothing.
 - `ScanFindsAll` is about devices whose header type is 0. `upgrade` compares all eight
   bits, so function 0 of a slot with several functions (type 0x80) is dropped
   (`io/pci.rs:171`, `main.rs:259`).
 - `SleeperIsListed` and `SleepEnds` say nothing once a freed waker was used (`uaf`).
 - `MouseIsHeard` is for one device: a second gets the same address (`usb/mod.rs:242`).
 - `FramesGoOn` takes drawing to end within a frame; otherwise `game.rs:218` panics.
 - `EveryListedCpuStarts` counts the processors that the MADT lists before its first
   record of another kind, since `MadtEntryIter` ends there (`acpi.rs:80`).
 - A sum of sequence numbers that overflows is a panic of the model, as in the checked
   build; the properties allow for it.

## Finding

`lock_free_queue.rs:134` says "We should be the only modifiers of tail in this case". With
pops and pushes on different CPUs, as for the log queue, a push that loaded a full tail
skips the valid check (line 65) and exchanges tail first; the assertion then fails. The
run `queue_assert` shows it.

Other weaknesses met in the code are hazards with a note in `PROJECT.json`, or are listed
here only: the SYN-ACK timeout that wakes the wrong task (`net/tcp.rs:437`), pointer
wrap-around for requests larger than an address (`allocator.rs:107`), `wake` panicking on
a full run queue (`future.rs:27`) and lengths cut to 16 bits (`net/mod.rs:440`). No run
claims anything about them.

## Proofs

`AsyncMutexProofs`, for any set of tasks and any `NumCpus`: type correctness,
`MutualExclusion`, `CountMatchesGuard`, `WaitersAreListed` and the refinement of `Lock`.
Exclusion is not inductive alone, since nothing would tie `count` to the owners; together
with `CountMatchesGuard` (`count = 1` exactly while a guard exists) it is: only a task
that exchanges `count = 0` becomes an owner. The same invariant makes each step an
`Acquire`, a `Release` or a stutter of `Lock`.

`InterruptGuardProofs`, for any APs, depth and nesting: type correctness,
`GuardMasksInterrupts`, `GuardCount`, `InterruptsComeBack`, the refinement of `Lock` by
the spin lock, and `NoSelfDeadlock`. The inductive invariant `GuardIInv` adds that
`NUM_GUARDS` is the running context's guards plus the `lock` calls that were interrupted
between `fetch_add` and `cli`, and `StackShape`, what an interrupted context can look
like. `SpinInv` ties `available` to one owner. Assumptions: `MutexAssumption` and
`GuardAssumption` (bounds are positive, `PollLockers` are tasks).

`IoAllocatorProofs`, for any word size, lengths and widths: types, `OverlapMeansNested`
(the overlap test misses exactly a request inside a granted range; lemma
`MissedIsNested`) and `AccessIsGranted`. `BootProofs` shows `BootSpec => IoSpec`: with
every machine, each step of `Kernel::init` is a request or leaves the allocator alone, so
`OverlapMeansNested` holds of the kernel. That its ranges are disjoint is model-checked on
the eight machines and not proved: it depends on where PCI puts the card.

`ExecutorProofs`, for any tasks and any APs: `NoTaskOutlivesRound` and `OnePlace`. The
inductive invariant `EInv` says that an AP whose flag is clear is quiet (no closure, no
poll, and not about to clear the flag of a later closure) and that `run` sends only to a
quiet one; `PlaceInv` adds that a task is carried by at most one carrier, and exactly
while it is neither in the map nor done.

`SleepProofs`, for any tasks, durations and CPUs: `SleeperIsListed`, which is not
inductive, since it is silent about a task about to be polled. `Posted` keeps the entry,
or the fact that its tick has come, from the push on.

`GameProofs`, for all sizes that `GameAssumption` allows and all inputs:
`BallStaysInField`. `BallInv` adds the types; a coordinate can only leave the field in
the direction it moves in, which is what the assertions ask (`BounceStaysInside`).

Assumptions are the named `ASSUME`s of the modules, all evaluated by TLC in the runs.
Only model-checked: all liveness, and every other property in the table of runs.

## Not modelled

 - Effects with no state to check: `io::exit`, `print!` outside the logger,
   formatting, `libc.rs`, the unused histogram, the test harness. `rng.rs` is an arbitrary
   choice of the initial sequence number.
 - Register set-up of the RTL8139 and the PS/2 controller, bus mastering, `boot.s` and the
   copy of the trampoline: straight-line writes whose correctness is the data sheet's.
 - `echo_tcp`, the HTTP pages, and the datagram that ends the kernel.
 - Drawing and the frame buffer. `set_pixel` writes four bytes whatever the size of a pixel
   (`framebuffer.rs:43`), which is a hazard below 32 bits per pixel; with 32, staying on the
   screen is the clamp in `draw_rect` and no more.
 - Rounding of `f32`: the game is exact on a grid.
 - The capacity of the run queue, gate descriptors and the publication of the handler
   table (`load_idt`), six of the eight registers of a date, one coordinate of the cursor.
 - Two CPUs in `Sleep` and two APs in `Executor` are admitted by the modules and covered by
   the proofs of their safety, but not by the runs. Not proved: `HeapIsTiled`,
   `HandlersAreExclusive`, `StreamIntactUntilShuffled`, the order of the queue.
