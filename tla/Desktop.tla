------------------------------ MODULE Desktop ------------------------------
(***************************************************************************)
(* From the devices to the game: Mouse::service sends movements over an    *)
(* async channel (src/util/async_channel.rs), Cursor::service adds them to *)
(* the position in an UpdatedVal (src/util/updated_val.rs), the keyboard   *)
(* interrupts (src/io/ps2.rs), and the loop of Game::run (src/game.rs)     *)
(* waits for either in a select that its frame timer ends.                 *)
(*                                                                         *)
(* The channel and the UpdatedVal live under async mutexes (module         *)
(* AsyncMutex).  A service that awaits lock() gets it in the end;          *)
(* ReceiverWaiter and Waiter build a lock() in every poll and drop it when *)
(* it is pending.  The two coordinates of the cursor are treated alike,    *)
(* and one of them is modelled.  What update makes of its input is module  *)
(* Game, how the timer wakes the game is module Sleep.                     *)
(***************************************************************************)
EXTENDS Integers, Sequences, FiniteSets

CONSTANTS
  Movements,   \* what the mouse may report
  Span,        \* positions are clamped to 0 .. Span
  MaxSent,     \* bound on movements
  MaxKeys,     \* bound on keys
  FrameTicks,  \* ticks of a frame
  NumCpus      \* most CPUs a machine may have

ASSUME DesktopAssumption ==
  /\ {Span, MaxSent, MaxKeys} \subseteq Nat /\ Movements \subseteq Int
  /\ {FrameTicks, NumCpus} \subseteq Nat \ {0}

VARIABLES
  cpus,       \* CPUs of this machine: how many polls can be in progress at once
  pc,         \* program points of "mouse", "cursor" and "game"
  woken,      \* tasks that have been woken
  owner,      \* holders of the mutexes "channel" and "val", or "none"
  queue,      \* movements in the channel
  waker,      \* whether the receiver has left its waker in the channel
  val, generation,
  wakers,     \* whether the game's waker is in the UpdatedVal
  got, pos,   \* Cursor::service's locals
  stage,      \* the game's wait(): before ("lock") or after ("waiter") the generation
  queued,     \* it is in the waker list of the UpdatedVal's mutex
  start,      \* start_generation of its Waiter
  input,      \* Game::run's local: "none", "key" or "mouse"
  elapsed,    \* ticks since the frame began
  key, irq,   \* the keyboard has a byte; its interrupt is to be taken
  kwaker,     \* Ps2Keyboard::waker holds the game's waker
  keys,       \* keys pressed so far
  sent        \* history: all movements sent

desktopVars == <<cpus, pc, woken, owner, queue, waker, val, generation, wakers, got, pos, stage,
                 queued, start, input, elapsed, key, irq, kwaker, keys, sent>>
channel == <<queue, waker, sent>>
updated == <<val, generation, wakers>>
waiting == <<stage, queued, start>>
keyboard == <<key, irq, kwaker, keys>>
loop == <<waiting, input, elapsed>>
cursorLocals == <<got, pos>>

Actors == {"mouse", "cursor", "game"}

DesktopInit ==
  /\ cpus \in 1 .. NumCpus
  /\ pc = [mouse |-> "idle", cursor |-> "recv", game |-> "update"]
  /\ woken = {}
  /\ owner = [channel |-> "none", val |-> "none"]
  /\ queue = <<>> /\ waker = FALSE /\ sent = <<>>
  /\ val = Span \div 2 /\ generation = 0 /\ wakers = FALSE
  /\ got = 0 /\ pos = 0
  /\ stage = "lock" /\ queued = FALSE /\ start = 0 /\ input = "none" /\ elapsed = 0
  /\ key = FALSE /\ irq = FALSE /\ kwaker = FALSE /\ keys = 0

(* Points at which a task is in an await, or about to be polled. *)
Suspended == {"idle", "recv", "recv_wait", "read", "write", "asleep"}
OneMoreFits == Cardinality({t \in Actors : pc[t] \notin Suspended}) < cpus

Goto(t, from, to) ==
  /\ pc[t] = from /\ pc' = [pc EXCEPT ![t] = to]
  /\ from \in Suspended => OneMoreFits

Take(m, t) == owner[m] = "none" /\ owner' = [owner EXCEPT ![m] = t]
Free(m) == owner' = [owner EXCEPT ![m] = "none"]

-----------------------------------------------------------------------------
(* Sender::send, called by Mouse::service. *)
Send(m) ==
  /\ Goto("mouse", "idle", "push") /\ Len(sent) < MaxSent
  /\ Take("channel", "mouse")
  /\ queue' = Append(queue, m) /\ sent' = Append(sent, m)
  /\ UNCHANGED <<woken, waker, updated, cursorLocals, loop, keyboard>>

receiver_woken == IF waker THEN {"cursor"} ELSE {}

SendWake ==
  /\ Goto("mouse", "push", "unlock")
  /\ woken' = woken \cup receiver_woken
  /\ UNCHANGED <<owner, channel, updated, cursorLocals, loop, keyboard>>

SendUnlock ==
  /\ Goto("mouse", "unlock", "idle") /\ Free("channel")
  /\ UNCHANGED <<woken, channel, updated, cursorLocals, loop, keyboard>>

-----------------------------------------------------------------------------
pop_front == IF queue = <<>> THEN queue ELSE Tail(queue)

store_waker == TRUE

(* ReceiverWaiter::poll *)
Recv ==
  /\ \/ /\ Goto("cursor", "recv", "recv_wait") /\ owner["channel"] # "none"
        /\ UNCHANGED <<channel, got>>
     \/ /\ Goto("cursor", "recv", IF queue = <<>> THEN "recv_wait" ELSE "read")
        /\ owner["channel"] = "none"
        /\ waker' = store_waker /\ queue' = pop_front
        /\ got' = IF queue = <<>> THEN got ELSE Head(queue)
        /\ UNCHANGED sent
  /\ UNCHANGED <<woken, owner, updated, pos, loop, keyboard>>

RecvAgain ==
  /\ Goto("cursor", "recv_wait", "recv") /\ "cursor" \in woken
  /\ woken' = woken \ {"cursor"}
  /\ UNCHANGED <<owner, channel, updated, cursorLocals, loop, keyboard>>

clamped(x) == IF x < 0 THEN 0 ELSE IF x > Span THEN Span ELSE x

Bug_moved == clamped(pos + got)

moved == clamped(val + got)

(* The rest of Cursor::service's loop: UpdatedVal::read, then write. *)
Read ==
  /\ Goto("cursor", "read", "write") /\ owner["val"] = "none"
  /\ pos' = moved
  /\ UNCHANGED <<woken, owner, channel, updated, got, loop, keyboard>>

Write ==
  /\ Goto("cursor", "write", "notify") /\ Take("val", "cursor")
  /\ val' = pos /\ generation' = generation + 1
  /\ UNCHANGED <<woken, channel, wakers, cursorLocals, loop, keyboard>>

waiters_woken == IF wakers THEN {"game"} ELSE {}

Notify ==
  /\ Goto("cursor", "notify", "written")
  /\ woken' = woken \cup waiters_woken /\ wakers' = FALSE
  /\ UNCHANGED <<owner, channel, val, generation, cursorLocals, loop, keyboard>>

WriteUnlock ==
  /\ Goto("cursor", "written", "recv") /\ Free("val")
  /\ woken' = woken \cup (IF queued THEN {"game"} ELSE {})
  /\ UNCHANGED <<channel, updated, cursorLocals, loop, keyboard>>

-----------------------------------------------------------------------------
(* The keyboard puts a byte in its buffer and interrupts; the handler      *)
(* wakes whoever reads.                                                    *)
KeyPress ==
  /\ ~key /\ keys < MaxKeys
  /\ key' = TRUE /\ irq' = TRUE /\ keys' = keys + 1
  /\ UNCHANGED <<pc, woken, owner, channel, updated, cursorLocals, loop, kwaker>>

reader_woken == IF kwaker THEN {"game"} ELSE {}

KeyIrq ==
  /\ irq
  /\ irq' = FALSE /\ woken' = woken \cup reader_woken
  /\ UNCHANGED <<pc, owner, channel, updated, cursorLocals, loop, key, kwaker, keys>>

(* A tick, and with the last one of the frame the wakeup of the sleep.     *)
(* Drawing a frame is taken to end within the frame: later than that,      *)
(* next_frame_time - now is negative and panics (game.rs:218).             *)
Tick ==
  /\ elapsed < FrameTicks
  /\ elapsed' = elapsed + 1
  /\ woken' = IF elapsed' = FrameTicks THEN woken \cup {"game"} ELSE woken
  /\ UNCHANGED <<pc, owner, channel, updated, cursorLocals, waiting, input, keyboard>>

-----------------------------------------------------------------------------
(* update takes the input; the next wait_for_input begins. *)
Update ==
  /\ Goto("game", "update", "key")
  /\ input' = "none" /\ stage' = "lock" /\ queued' = FALSE
  /\ UNCHANGED <<woken, owner, channel, updated, cursorLocals, start, elapsed, keyboard>>

(* PollReadFut::poll leaves its waker, then looks at the status; select    *)
(* goes on to the mouse only if there is no byte.                          *)
KeyPoll ==
  /\ Goto("game", "key", "status") /\ kwaker' = TRUE
  /\ UNCHANGED <<woken, owner, channel, updated, cursorLocals, loop, key, irq, keys>>

Bug_status == irq

status == key

KeyStatus ==
  /\ \/ /\ status /\ Goto("game", "status", "key")
        /\ key' = FALSE /\ input' = "key" /\ stage' = "lock" /\ queued' = FALSE
     \/ /\ ~status /\ Goto("game", "status", "wait")
        /\ UNCHANGED <<key, input, stage, queued>>
  /\ UNCHANGED <<woken, owner, channel, updated, cursorLocals, start, elapsed, irq, kwaker, keys>>

(* UpdatedVal::wait takes the mutex to read the generation ... *)
Wait ==
  /\ stage = "lock"
  /\ \/ /\ Goto("game", "wait", "timer") /\ owner["val"] # "none"
        /\ queued' = TRUE /\ UNCHANGED <<stage, start>>
     \/ /\ Goto("game", "wait", "wait") /\ owner["val"] = "none"
        /\ queued' = FALSE /\ stage' = "waiter" /\ start' = generation
  /\ UNCHANGED <<woken, owner, channel, updated, cursorLocals, input, elapsed, keyboard>>

is_newer == start # generation

Bug_left_waker == wakers

left_waker == wakers \/ ~is_newer

(* ... and Waiter::poll to compare it. *)
WaitPoll ==
  /\ stage = "waiter"
  /\ \/ /\ Goto("game", "wait", "timer") /\ owner["val"] # "none"
        /\ UNCHANGED <<wakers, stage, input>>
     \/ /\ Goto("game", "wait", IF is_newer THEN "key" ELSE "timer") /\ owner["val"] = "none"
        /\ wakers' = left_waker
        /\ stage' = IF is_newer THEN "lock" ELSE stage
        /\ input' = IF is_newer THEN "mouse" ELSE input
  /\ UNCHANGED <<woken, owner, channel, val, generation, cursorLocals, queued, start, elapsed,
                 keyboard>>

frame_over == elapsed >= FrameTicks

Bug_Timer ==
  /\ Goto("game", "timer", "asleep")
  /\ elapsed' = IF frame_over THEN 0 ELSE elapsed
  /\ UNCHANGED <<woken, owner, channel, updated, cursorLocals, waiting, input, keyboard>>

(* The other arm of the outer select: the sleep.  When it is over the wait *)
(* for input is dropped, and the next frame starts.                        *)
Timer ==
  /\ Goto("game", "timer", IF frame_over THEN "update" ELSE "asleep")
  /\ elapsed' = IF frame_over THEN 0 ELSE elapsed
  /\ UNCHANGED <<woken, owner, channel, updated, cursorLocals, waiting, input, keyboard>>

GameAgain ==
  /\ Goto("game", "asleep", "key") /\ "game" \in woken
  /\ woken' = woken \ {"game"}
  /\ UNCHANGED <<owner, channel, updated, cursorLocals, loop, keyboard>>

MouseStep == (\E m \in Movements : Send(m)) \/ SendWake \/ SendUnlock
CursorStep == Recv \/ RecvAgain \/ Read \/ Write \/ Notify \/ WriteUnlock
GameStep == Update \/ KeyPoll \/ KeyStatus \/ Wait \/ WaitPoll \/ Timer \/ GameAgain

DesktopNext == (MouseStep \/ CursorStep \/ GameStep \/ KeyPress \/ KeyIrq \/ Tick) /\ UNCHANGED cpus

(* Woken tasks are polled and polls end, a task that awaits a mutex gets   *)
(* it although others keep taking it, and interrupts are taken.            *)
DesktopFairness ==
  /\ WF_desktopVars((SendWake \/ SendUnlock) /\ UNCHANGED cpus)
  /\ SF_desktopVars(CursorStep /\ UNCHANGED cpus) /\ SF_desktopVars(GameStep /\ UNCHANGED cpus)
  /\ WF_desktopVars(KeyIrq /\ UNCHANGED cpus) /\ WF_desktopVars(Tick /\ UNCHANGED cpus)

-----------------------------------------------------------------------------
(* The position after n movements. *)
PosAfter[n \in 0 .. MaxSent] ==
  IF n = 0 THEN Span \div 2 ELSE clamped(PosAfter[n - 1] + sent[n])

(* Every movement is applied once and in the order it was sent, although   *)
(* Cursor::service reads and writes the position under two locks           *)
(* (cursor.rs:41, 47), and generation counts them.                         *)
PosFollowsMovements ==
  /\ val = PosAfter[generation]
  /\ pc["cursor"] = "write" => pos = PosAfter[generation + 1]
  /\ Len(sent) = generation + Len(queue) + (IF pc["cursor"] \in {"read", "write"} THEN 1 ELSE 0)

(* On one CPU nobody sleeps on news: a receiver whose channel holds a      *)
(* movement, and a game whose position has changed since it began to wait  *)
(* or whose keyboard has a byte, has been woken or is about to be          *)
(* (async_channel.rs:27, 50; updated_val.rs:38, 80; ps2.rs:82, 45).        *)
NobodySleepsOnNews ==
  cpus = 1 =>
    /\ pc["cursor"] = "recv_wait" /\ queue # <<>> => "cursor" \in woken \/ pc["mouse"] = "push"
    /\ pc["game"] = "asleep" /\ stage = "waiter" /\ start # generation =>
         "game" \in woken \/ pc["cursor"] = "notify"
    /\ pc["game"] = "asleep" /\ key => "game" \in woken \/ irq

(* A byte of the keyboard is read, whatever interrupts whatever. *)
KeyIsRead == key ~> ~key

(* Frames keep coming: keys and movements, which the select of Game::run   *)
(* prefers to the timer (game.rs:228), delay them only while they last.    *)
FramesGoOn == []<>(pc["game"] = "update")

=============================================================================
