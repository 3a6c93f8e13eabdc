---------------------------------- MODULE Sys ----------------------------------
(***************************************************************************)
(* The run loop: the main queue (main.c, breakout.c), the dispatch of its  *)
(* messages and the queue of log messages (sys.c), the error that a full   *)
(* queue raises (breakout.c) and the watchdog.                             *)
(*                                                                         *)
(* Three contexts run: the loop and the timer interrupt, which share core  *)
(* 0 so that the loop stands still during an interrupt, and core 1.  Each  *)
(* has the calls that it is still to make, as a stack: a message is the    *)
(* push of that message.  The log messages are numbered in the order in    *)
(* which they enter the log; Mark is the "..." that stands for lost ones.  *)
(***************************************************************************)
EXTENDS Integers, Sequences

CONSTANTS
  QueueSize,        \* slots of the main queue
  RingSize,         \* PRINT_QUEUE_SIZE
  Count, Interval,  \* .count and .interval of ERR_QUEUE
  Timeout,          \* WATCHDOG_TIMEOUT, in ticks
  Mode,             \* the mode that the firmware is built for
  MaxLoad           \* bound: messages and log messages of other parts, per boot

ASSUME SizesAssumption == QueueSize \in Nat \ {0} /\ RingSize \in Nat \ (0 .. 2)
\* The contexts that find the error unreported at the same time do not wrap the counter.
ASSUME CountersAssumption == Count \in Nat \ (0 .. 3) /\ Interval \in Nat
ASSUME TimeoutAssumption == Timeout \in Nat \ {0}
ASSUME ModeAssumption == Mode \in {"NONE", "LOG", "UNKNOWN"}
ASSUME LoadAssumption == MaxLoad \in Nat

Contexts == {"main", "irq", "core1"}

\* MSG_TTY carries input of the terminal; OTHER is any message whose handler
\* does nothing to this state other than to log.
Messages == {"TICK", "LOG", "WATCHDOG", "TTY", "OTHER"}
Calls == Messages \cup {"print", "write", "flush", "emit", "report", "return",
                        "connect", "syserr_tick"}
Mark == 0
Slots == 0 .. RingSize - 1

VARIABLES
  queue,            \* the main queue
  todo,             \* the calls that each context has yet to make
  list, head, tail, lock,     \* SYSTEM.queue
  connected, mode, reboot,    \* SYSTEM.queue.connected, .mode, .reboot
  counter, timer,             \* of ERR_QUEUE
  logged, shown,    \* the last message that entered the log, that was written out
  age,              \* ticks since the last watchdog_update
  late, refused, rested,      \* of these ticks, those whose second was troubled;
                    \* this second: a TICK or WATCHDOG was refused, the loop was idle
  load              \* for the bound

log == <<list, head, tail, lock, logged, shown>>
terminal == <<connected, mode, reboot>>
errors == <<counter, timer>>
watchdog == <<age, late, refused, rested>>
vars == <<queue, todo, log, terminal, errors, watchdog, load>>

-----------------------------------------------------------------------------
\* The state after a reset; the log messages and the POR event of main are due.
Start == [queue |-> <<>>,
          todo  |-> [c \in Contexts |-> IF c = "main" THEN <<"print", "OTHER">> ELSE <<>>]]

Init ==
  /\ queue = Start.queue /\ todo = Start.todo
  /\ list = [s \in Slots |-> Mark] /\ head = 0 /\ tail = 0 /\ lock = "none"
  /\ logged = 0 /\ shown = 0
  /\ connected = FALSE /\ mode = Mode /\ reboot = FALSE
  /\ counter = 0 /\ timer = 0
  /\ age = 0 /\ late = 0 /\ refused = FALSE /\ rested = FALSE
  /\ load = 0

Idle(c) == todo[c] = <<>>

\* An interrupt on core 0 suspends the loop.
Runs(c) == c = "main" => Idle("irq")

\* Context c makes its next call, which leads to these calls first.
Then(c, calls) == todo' = [todo EXCEPT ![c] = calls \o Tail(@)]

Calling(c, call) == Runs(c) /\ ~Idle(c) /\ Head(todo[c]) = call

-----------------------------------------------------------------------------
\* Mutant: the error can be reported again while it is being reported.
Repeatable == timer = 0
\* syserr_set: loggable
Loggable == counter = 0 /\ timer = 0

\* push: a full queue refuses the message and raises ERR_QUEUE.
push(c) ==
  \E m \in Messages :
    /\ Calling(c, m)
    /\ IF Len(queue) < QueueSize
       THEN queue' = Append(queue, m) /\ Then(c, <<>>) /\ UNCHANGED refused
       ELSE /\ refused' = (refused \/ m \in {"TICK", "WATCHDOG"})
            /\ Then(c, IF Loggable THEN <<"report">> ELSE <<>>)
            /\ UNCHANGED queue
    /\ UNCHANGED <<log, terminal, errors, age, late, rested, load>>

\* The rest of syserr_set, which another context may run at the same time.
syserr_set(c) ==
  /\ Calling(c, "report")
  /\ counter' = (counter + 1) % Count /\ timer' = Interval
  /\ Then(c, <<"print", "return">>)
  /\ UNCHANGED <<queue, log, terminal, watchdog, load>>

return(c) ==
  /\ Calling(c, "return") /\ Then(c, <<>>)
  /\ UNCHANGED <<queue, log, terminal, errors, watchdog, load>>

syserr_tick(c) ==
  /\ Calling(c, "syserr_tick")
  /\ timer' = (IF timer > 0 THEN timer - 1 ELSE 0)
  /\ Then(c, <<>>)
  /\ UNCHANGED <<queue, log, terminal, counter, watchdog, load>>

-----------------------------------------------------------------------------
Following(s) == (s + 1) % RingSize

\* print and _push up to the lock: without it the message is dropped.
print(c) ==
  /\ Calling(c, "print")
  /\ IF mode # "NONE" /\ lock = "none"
     THEN lock' = c /\ Then(c, <<"write", "LOG">>)
     ELSE Then(c, IF mode = "NONE" THEN <<>> ELSE <<"LOG">>) /\ UNCHANGED lock
  /\ UNCHANGED <<queue, list, head, tail, logged, shown, terminal, errors, watchdog, load>>

\* Mutant: a single slot is given up, without a mark.
Unmarked == /\ list' = [list EXCEPT ![tail] = Mark, ![head] = logged + 1]
            /\ tail' = Following(tail)
\* The log is full: the two oldest messages give way to a mark and the new one.
Overwrite == /\ list' = [list EXCEPT ![tail] = Mark, ![Following(tail)] = Mark,
                                     ![head] = logged + 1]
             /\ tail' = Following(tail)

Advance == /\ head' = Following(head) /\ logged' = logged + 1

\* _push under the lock
write(c) ==
  /\ Calling(c, "write")
  /\ IF Following(head) = tail
     THEN Overwrite
     ELSE list' = [list EXCEPT ![head] = logged + 1] /\ UNCHANGED tail
  /\ Advance
  /\ lock' = "none" /\ Then(c, <<>>)
  /\ UNCHANGED <<queue, shown, terminal, errors, watchdog, load>>

Ready == mode \in {"LOG", "CLI"} /\ connected

\* _flush up to the lock; SYSTEM.guard is only ever taken by the loop.
flush(c) ==
  /\ Calling(c, "flush")
  /\ IF Ready /\ lock = "none"
     THEN lock' = c /\ Then(c, <<"emit">>)
     ELSE Then(c, <<>>) /\ UNCHANGED lock
  /\ UNCHANGED <<queue, list, head, tail, logged, shown, terminal, errors, watchdog, load>>

\* _flush under the lock: all that is in the log is written out.
emit(c) ==
  /\ Calling(c, "emit")
  /\ shown' = (IF tail = head THEN shown ELSE list[(head - 1) % RingSize])
  /\ tail' = head
  /\ lock' = "none" /\ Then(c, <<>>)
  /\ UNCHANGED <<queue, list, head, logged, terminal, errors, watchdog, load>>

\* usb_tick and stdout_connected, after the log message of usb_tick.
stdout_connected(c) ==
  /\ Calling(c, "connect")
  /\ connected' = ~connected
  /\ Then(c, IF connected THEN <<>> ELSE <<"print">>)
  /\ UNCHANGED <<queue, log, mode, reboot, errors, watchdog, load>>

Call(c) == push(c) \/ syserr_set(c) \/ return(c) \/ syserr_tick(c) \/ print(c) \/ write(c)
             \/ flush(c) \/ emit(c) \/ stdout_connected(c)

-----------------------------------------------------------------------------
Begin(c, calls) == Idle(c) /\ Runs(c) /\ todo' = [todo EXCEPT ![c] = calls]

\* The tick, every second.
_tick ==
  /\ Begin("irq", <<"TICK", "syserr_tick">>)
  /\ age < Timeout
  /\ age' = age + 1
  /\ late' = (IF rested /\ ~refused THEN late ELSE late + 1)
  /\ refused' = FALSE /\ rested' = FALSE
  /\ UNCHANGED <<queue, log, terminal, errors, load>>

\* The other timers and the USB driver, and core 1.
Activity ==
  /\ load < MaxLoad /\ load' = load + 1
  /\ \/ \E calls \in {<<"OTHER">>, <<"TTY">>, <<"print", "connect">>} : Begin("irq", calls)
     \/ \E calls \in {<<"OTHER">>, <<"print">>} : Begin("core1", calls)
  /\ UNCHANGED <<queue, log, terminal, errors, watchdog>>

\* queue_remove_blocking on an empty queue
Wait ==
  /\ Idle("main") /\ Idle("irq") /\ queue = <<>>
  /\ ~rested /\ rested' = TRUE
  /\ UNCHANGED <<queue, todo, log, terminal, errors, age, late, refused, load>>

\* queue_remove_blocking and dispatch
Handle(m, calls) ==
  /\ queue # <<>> /\ Head(queue) = m /\ queue' = Tail(queue)
  /\ Begin("main", calls)
  /\ UNCHANGED <<log, errors, load>>

\* Mutant: the log is not bumped.
NoBump == IF reboot THEN <<>> ELSE <<"WATCHDOG">>
\* Mutant: an error stops the watchdog.
OnError == IF reboot \/ counter > 0 THEN <<"LOG">> ELSE <<"WATCHDOG", "LOG">>
\* Mutant: a requested reboot does not stop the watchdog.
Regardless == <<"WATCHDOG", "LOG">>
\* MSG_TICK: syscheck, and the log is bumped.
TickCalls == IF reboot THEN <<"LOG">> ELSE <<"WATCHDOG", "LOG">>

\* The terminal that has not answered for MODE_CLI_TIMEOUT is given up.
MSG_TICK ==
  /\ Handle("TICK", TickCalls)
  /\ mode' \in (IF mode = "CLI" THEN {"CLI", "UNKNOWN"} ELSE {mode})
  /\ UNCHANGED <<connected, reboot, watchdog>>

MSG_LOG == Handle("LOG", <<"flush">>) /\ UNCHANGED <<terminal, watchdog>>

MSG_WATCHDOG == Handle("WATCHDOG", <<>>) /\ age' = 0 /\ late' = 0
                  /\ UNCHANGED <<terminal, refused, rested>>

\* Input that is echoed or logged, or nothing.
MSG_OTHER ==
  /\ \E m \in {"TTY", "OTHER"}, calls \in {<<>>, <<"print">>} : Handle(m, calls)
  /\ UNCHANGED <<terminal, watchdog>>

\* A status report of the terminal: set_mode(MODE_CLI).
MSG_TTY ==
  /\ mode \notin {"NONE", "CLI"}
  /\ Handle("TTY", <<"print">>)
  /\ mode' = "CLI"
  /\ UNCHANGED <<connected, reboot, watchdog>>

\* The CLI's reboot command
sys_reboot ==
  /\ Handle("TTY", <<"print">>)
  /\ reboot' = TRUE
  /\ UNCHANGED <<connected, mode, watchdog>>

dispatch == MSG_TICK \/ MSG_LOG \/ MSG_WATCHDOG \/ MSG_OTHER \/ MSG_TTY \/ sys_reboot

\* The watchdog resets the board.
Expire == age = Timeout
  /\ queue' = Start.queue /\ todo' = Start.todo
  /\ list' = [s \in Slots |-> Mark] /\ head' = 0 /\ tail' = 0 /\ lock' = "none"
  /\ logged' = 0 /\ shown' = 0
  /\ connected' = FALSE /\ mode' = Mode /\ reboot' = FALSE
  /\ counter' = 0 /\ timer' = 0
  /\ age' = 0 /\ late' = 0 /\ refused' = FALSE /\ rested' = FALSE
  /\ load' = 0

Next == (\E c \in Contexts : Call(c)) \/ _tick \/ Activity \/ Wait \/ dispatch \/ Expire

Spec == Init /\ [][Next]_vars

\* The contexts run, and the ticks go on.
Running == /\ \A c \in Contexts : SF_vars(Call(c))
           /\ SF_vars(dispatch) /\ SF_vars(_tick) /\ WF_vars(Expire)

\* Bursts end: from some time on, the loop is done with all its work before each
\* tick (a second is long for the loop).
CatchesUp == <>[][_tick => rested]_vars

FairSpec == Spec /\ Running /\ CatchesUp

-----------------------------------------------------------------------------
\* The messages in the log, from the oldest.
Fill == (head - tail) % RingSize
Entry(k) == list[(tail + k) % RingSize]

\* The output of the log is complete up to what the marks say: the log holds the
\* newest messages one after the other, behind those written out before, and
\* begins with a mark exactly if messages between were lost.
InOrder ==
  IF Fill = 0 THEN shown = logged
  ELSE /\ Entry(0) = Mark => Fill > 1 /\ Entry(1) > shown + 2
       /\ Entry(0) # Mark => Entry(0) = shown + 1
       /\ \A k \in 1 .. Fill - 1 : Entry(k) = logged - (Fill - 1 - k)

\* Reporting that the queue is full pushes to the full queue: no context ends up
\* reporting that within its own report.
ErrorPathEnds ==
  \A c \in Contexts : \A i, j \in 1 .. Len(todo[c]) :
    todo[c][i] = "return" /\ todo[c][j] \in {"return", "report"} => i = j

\* The watchdog does not reset a working system: unless a reboot is requested, it
\* only ever counts the seconds in which the queue refused the tick or its
\* message, or in which the loop was never done with its work.
Fed == ~reboot => age <= late + 1

\* A requested reboot happens, whatever is still in the queue.
Reboots == reboot ~> ~reboot

\* What enters the log is written out (or overwritten by what is), although the
\* MSG_LOG for it may be refused and the lock be taken when it is dispatched.
Shown == Fill > 0 ~> Fill = 0 \/ ~Ready
================================================================================
