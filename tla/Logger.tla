------------------------------- MODULE Logger -------------------------------
(***************************************************************************)
(* The logger (src/logger.rs), from the log! macro to the serial port      *)
(* (src/io/serial.rs).  Tasks and interrupt handlers push logs and wake    *)
(* the service, whose waker lives in an AtomicCell; the service pops them  *)
(* and writes them octet by octet.                                         *)
(*                                                                         *)
(* A push takes a slot and then publishes; a pop takes a log out and then  *)
(* looks whether the ring was full.  Module LockFreeQueue has the steps in *)
(* between, and here each does what that module shows it may do.  The      *)
(* mutex of the receiver has one user, the service, and is always free.    *)
(***************************************************************************)
EXTENDS Naturals, SequencesExt

CONSTANTS
  Levels,       \* LogLevel by module: the map given to logger::init
  Modules,      \* modules that log
  LogCapacity,  \* of the queue
  MaxLogs,      \* bound on the logs of each context
  LogCpus       \* processors

ASSUME LoggerAssumption ==
  {LogCapacity, MaxLogs} \subseteq Nat \ {0} /\ LogCpus \in 1 .. 2

Contexts == {"task", "handler"}

VARIABLES
  logged,    \* logs each context has begun
  lpc,       \* program point of each context: "idle", "push", "publish", "get", "wake"
  lcpu,      \* where the task and the service are polled
  entry,     \* the Log of each context
  queue,     \* log_tx, log_rx: from head to reserved
  ready,     \* how many of them are published: from head to tail
  full,      \* reserved has the value that means full
  since,     \* logs popped since each context, in a push, loaded head
  has_waker, \* AtomicCell holds a waker
  stale,     \* contexts whose waker has been freed since they got it
  lost,      \* history: the last wake-up was one through a freed waker, and did nothing
  spc,       \* the service: "boot", "wait", "store", "pop", "reload", "print"
  log_woken,
  text,      \* octets the service has still to write
  port,      \* serial port: [dlab, loopback, received, thr]
  terminal,  \* octets that have left the port
  pushed,    \* history: logs in the order of their pushes
  log_fault  \* "none", or why nothing more is said: a panic or a corrupt ring

loggers == <<logged, lpc, entry>>
ring == <<queue, ready, full, since>>
cell == <<has_waker, stale, lost>>
logVars == <<loggers, lcpu, ring, cell, spc, log_woken, text, port, terminal, pushed, log_fault>>

-----------------------------------------------------------------------------
(* What a write to a register of the serial port does. *)
Chip(p, w) ==
  CASE w.reg = 3 -> [p EXCEPT !.dlab = w.val >= 128]
    [] w.reg = 4 -> [p EXCEPT !.loopback = (w.val \div 16) % 2 = 1]
    [] w.reg = 0 /\ ~p.dlab -> IF p.loopback THEN [p EXCEPT !.received = w.val]
                                             ELSE [p EXCEPT !.thr = <<w.val>>]
    [] OTHER -> p

Reg(reg, val) == [reg |-> reg, val |-> val]

(* Serial::new up to the test of the port ... *)
SetUp == <<Reg(1, 2), Reg(3, 128), Reg(0, 0), Reg(1, 2), Reg(3, 3), Reg(2, 199), Reg(4, 11),
           Reg(4, 30), Reg(0, 174)>>

(* ... and after it. *)
NormalMode(p) == Chip(p, Reg(4, 15))

Bug_is_transmit_ready == TRUE

is_transmit_ready == port.thr = <<>>

LogStart(point) ==
  /\ logged = [c \in Contexts |-> 0] /\ lpc = [c \in Contexts |-> "idle"]
  /\ lcpu = [task |-> "bsp", service |-> "bsp"]
  /\ entry = [c \in Contexts |-> <<>>]
  /\ queue = <<>> /\ ready = 0 /\ full = FALSE /\ since = [c \in Contexts |-> 0]
  /\ has_waker = FALSE /\ stale = {} /\ lost = FALSE /\ spc = point /\ log_woken = TRUE
  /\ text = <<>> /\ terminal = <<>> /\ pushed = <<>> /\ log_fault = "none"
  /\ port \in [dlab : {FALSE}, loopback : {FALSE}, received : {0}, thr : {<<>>}]

(* logger::init and Serial::new, with interrupts off; a port that does not *)
(* answer the test is the end (expect).                                    *)
SerialNew ==
  /\ spc = "boot"
  /\ LET tested == FoldLeft(Chip, port, SetUp)
     IN  \E answer \in {tested.received, 0} :
           IF answer = 174
             THEN port' = NormalMode(tested) /\ spc' = "wait" /\ UNCHANGED log_fault
             ELSE port' = tested /\ log_fault' = "serial" /\ UNCHANGED spc
  /\ UNCHANGED <<loggers, lcpu, ring, cell, log_woken, text, terminal, pushed>>

-----------------------------------------------------------------------------
Debug == 0
Info == 1
Error == 3

get_level(m) == IF m \in DOMAIN Levels THEN Levels[m] ELSE Info

Serving == spc \in {"store", "pop", "reload", "print"}

(* An interrupt handler ends before what it interrupted on the boot        *)
(* processor goes on, and one processor polls one task at a time.          *)
HandlerRuns == lpc["handler"] # "idle"
Interrupted(x) == HandlerRuns /\ x = "bsp"
CpuOf(c) == IF c = "task" THEN lcpu.task ELSE "bsp"

LogStep(c, from, to) == log_fault = "none" /\ lpc[c] = from /\ lpc' = [lpc EXCEPT ![c] = to]
LogGoto(c, from, to) == LogStep(c, from, to) /\ (c = "task" => ~Interrupted(lcpu.task))

(* Where a task was polled is forgotten when the poll is over. *)
Returns(c, to) == lcpu' = IF c = "task" /\ to = "idle" THEN [lcpu EXCEPT !.task = "bsp"] ELSE lcpu

Cpus == IF LogCpus = 1 THEN {"bsp"} ELSE {"bsp", "ap"}

(* log!: the task is polled on a processor that the service is not on.     *)
(* push loads head.                                                        *)
Log(c, m, level) ==
  /\ logged[c] < MaxLogs /\ spc # "boot"
  /\ get_level(m) <= level
  /\ LogStep(c, "idle", "push")
  /\ IF c = "handler" THEN UNCHANGED lcpu
     ELSE \E x \in Cpus : /\ ~Interrupted(x) /\ ~(Serving /\ x = lcpu.service)
                          /\ lcpu' = [lcpu EXCEPT !.task = x]
  /\ logged' = [logged EXCEPT ![c] = @ + 1]
  /\ entry' = [entry EXCEPT ![c] = <<c, logged'[c]>>]
  /\ UNCHANGED <<ring, cell, spc, log_woken, text, port, terminal, pushed, log_fault>>

(* push_log takes a slot; a full queue is a panic.  Whether its slot is    *)
(* the last one the push tells by the head it loaded: once logs were       *)
(* popped meanwhile, it may take the ring for full when it is not, or not  *)
(* see that it is.                                                         *)
PushLog(c) ==
  /\ LogGoto(c, "push", "publish")
  /\ LET used == Len(queue) + 1 + since[c]
     IN  IF full
           THEN log_fault' = "dropped" /\ UNCHANGED <<queue, full, pushed>>
           ELSE /\ queue' = Append(queue, entry[c]) /\ pushed' = Append(pushed, entry[c])
                /\ full' = (used >= LogCapacity)
                /\ log_fault' = IF full' /\ since[c] > 0 THEN "corrupt" ELSE "none"
  /\ UNCHANGED <<logged, entry, lcpu, ready, since, cell, spc, log_woken, text, port, terminal>>

(* The log that context d is pushing may not be valid to a push of c: it   *)
(* is not stored yet, or another processor has not made its store visible. *)
Missed(c, d) ==
  /\ d # c
  /\ \/ lpc[d] = "publish"
     \/ lpc[d] \in {"get", "wake"} /\ CpuOf(d) # CpuOf(c)

(* Its log becomes valid, and tail moves over all that are, as far as the  *)
(* push sees.  It stops at the slot before the head it loaded.             *)
Publish(c) ==
  /\ LogGoto(c, "publish", "get")
  /\ ready' \in {Len(queue)} \cup
       {i - 1 : i \in {j \in ready + 1 .. Len(queue) :
                          \E d \in Contexts : Missed(c, d) /\ queue[j] = entry[d]}}
  /\ log_fault' = IF since[c] > 0 /\ ready' + since[c] >= LogCapacity THEN "corrupt" ELSE "none"
  /\ since' = [since EXCEPT ![c] = 0]
  /\ UNCHANGED <<logged, entry, lcpu, queue, full, cell, spc, log_woken, text, port,
                 terminal, pushed>>

(* Then the waker is looked up ... *)
GetWaker(c) ==
  /\ LogGoto(c, "get", IF has_waker THEN "wake" ELSE "idle")
  /\ Returns(c, lpc'[c])
  /\ UNCHANGED <<logged, entry, ring, cell, spc, log_woken, text, port, terminal,
                 pushed, log_fault>>

(* ... and used.  If store has freed it meanwhile, it may do nothing.      *)
WakeLogger(c) ==
  /\ LogGoto(c, "wake", "idle") /\ Returns(c, "idle")
  /\ \/ log_woken' = TRUE /\ lost' = FALSE
     \/ c \in stale /\ lost' = TRUE /\ UNCHANGED log_woken
  /\ stale' = stale \ {c}
  /\ UNCHANGED <<logged, entry, ring, has_waker, spc, text, port, terminal,
                 pushed, log_fault>>

-----------------------------------------------------------------------------
ServiceStep(from, to) == log_fault = "none" /\ spc = from /\ spc' = to
ServiceGoto(from, to) == ServiceStep(from, to) /\ ~Interrupted(lcpu.service)

(* The executor polls the service. *)
PollService ==
  /\ ServiceStep("wait", "store")
  /\ log_woken /\ log_woken' = FALSE
  /\ \E x \in Cpus : /\ ~Interrupted(x) /\ ~(lpc["task"] # "idle" /\ x = lcpu.task)
                     /\ lcpu' = [lcpu EXCEPT !.service = x]
  /\ UNCHANGED <<loggers, ring, cell, text, port, terminal, pushed, log_fault>>

(* LogWaiter::poll stores its waker, which frees the one before, ... *)
StoreWaker ==
  /\ ServiceGoto("store", "pop")
  /\ has_waker' = TRUE /\ stale' = {c \in Contexts : lpc[c] = "wake"}
  /\ UNCHANGED <<loggers, lcpu, ring, lost, log_woken, text, port, terminal, pushed, log_fault>>

(* A text is one octet for the log and one for the end of its line. *)
newline == <<"newline", 0>>

(* ... and then looks at the queue. *)
PopLog ==
  /\ IF ready = 0
       THEN /\ ServiceGoto("pop", "wait") /\ lcpu' = [lcpu EXCEPT !.service = "bsp"]
            /\ UNCHANGED <<queue, ready, since, text>>
       ELSE /\ ServiceGoto("pop", "reload")
            /\ queue' = Tail(queue) /\ ready' = ready - 1 /\ text' = <<Head(queue), newline>>
            /\ since' = [c \in Contexts |-> since[c] + IF lpc[c] \in {"push", "publish"} THEN 1 ELSE 0]
            /\ UNCHANGED lcpu
  /\ UNCHANGED <<loggers, full, cell, log_woken, port, terminal, pushed, log_fault>>

OthersPublish == \E c \in Contexts : lpc[c] = "publish" /\ CpuOf(c) # lcpu.service

(* pop loads tail once more.  If that says that the ring is full, the slot *)
(* it emptied is the one that is free.  This is wrong when the last slot   *)
(* was filled since pop moved head; and a push of another processor that   *)
(* publishes may change tail before the exchange, whose assertion then     *)
(* fails.                                                                  *)
ReloadTail ==
  /\ ServiceGoto("reload", "print")
  /\ IF full /\ ready = Len(queue)
       THEN \/ /\ Len(queue) < LogCapacity
               /\ full' = FALSE /\ UNCHANGED log_fault
            \/ /\ Len(queue) = LogCapacity \/ OthersPublish
               /\ log_fault' = IF OthersPublish THEN "assert" ELSE "corrupt"
               /\ UNCHANGED full
       ELSE UNCHANGED <<full, log_fault>>
  /\ UNCHANGED <<loggers, lcpu, queue, ready, since, cell, log_woken, text, port, terminal, pushed>>

(* Serial::write_byte, and the service goes on when all are written. *)
WriteByte ==
  /\ ServiceGoto("print", IF Len(text) = 1 THEN "store" ELSE "print") /\ is_transmit_ready
  /\ port' = Chip(port, Reg(0, Head(text))) /\ text' = Tail(text)
  /\ UNCHANGED <<loggers, lcpu, ring, cell, log_woken, terminal, pushed, log_fault>>

(* The port sends what it was given. *)
Transmit ==
  /\ port.thr # <<>>
  /\ terminal' = terminal \o port.thr /\ port' = [port EXCEPT !.thr = <<>>]
  /\ UNCHANGED <<loggers, lcpu, ring, cell, spc, log_woken, text, pushed, log_fault>>

-----------------------------------------------------------------------------
LogCall(c) == PushLog(c) \/ Publish(c) \/ GetWaker(c) \/ WakeLogger(c)
LogService == PollService \/ StoreWaker \/ PopLog \/ ReloadTail \/ WriteByte

LogNext ==
  \/ SerialNew \/ LogService \/ Transmit
  \/ \E c \in Contexts : \/ LogCall(c)
                         \/ \E m \in Modules, level \in Debug .. Error : Log(c, m, level)

(* Processors execute, a woken service is polled, and the port sends. *)
LogFairness ==
  /\ WF_logVars(SerialNew) /\ WF_logVars(Transmit) /\ WF_logVars(LogService)
  /\ \A c \in Contexts : WF_logVars(LogCall(c))

(* The i-th log lies in the queue unpublished and nobody is pushing.  Only *)
(* pushes on two processors leave one so, until the next push.             *)
LeftBehind(i) ==
  i > Len(pushed) - Len(queue) + ready /\ \A c \in Contexts : lpc[c] = "idle"

(* Every log that push_log queued reaches the terminal, whole and in the   *)
(* order of the pushes, whichever race there is between a push and the     *)
(* poll that stores its waker and finds the queue empty (logger.rs:142,    *)
(* 153).  Left out are the logs that two processors leave unpublished      *)
(* (lock_free_queue.rs:65), until a push publishes them; and all after the *)
(* queue was filled up (a panic at logger.rs:184; a failed assertion at    *)
(* lock_free_queue.rs:135 or a corrupt ring when a pop runs meanwhile), or *)
(* after a waker was used that another processor had freed                 *)
(* (atomic_cell.rs:21).                                                    *)
LoggedIsPrinted ==
  \A i \in 1 .. 2 * MaxLogs :
    Len(pushed) >= i ~>
      \/ Len(terminal) >= 2 * i /\ SubSeq(terminal, 2 * i - 1, 2 * i) = <<pushed[i], newline>>
      \/ LeftBehind(i)
      \/ log_fault # "none" \/ lost

=============================================================================
