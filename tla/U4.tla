--------------------------------- MODULE U4 ---------------------------------
(***************************************************************************)
(* The door relays and LEDs of the breakout board (U4.c): a PCAL6416A I/O  *)
(* expander on I2C bus 0.                                                  *)
(*                                                                         *)
(* Three threads of control share the state:                               *)
(*   main   the core 0 main loop, which runs the U4_set/clear/toggle/blink *)
(*          commands for the SSMP and CLI handlers, holding U4x.guard;     *)
(*   isr    the core 0 timer interrupt: U4_tick (10ms) and U3_on_update    *)
(*          (1ms).  It preempts main and is never preempted by it;         *)
(*   core1  I2C0_run, which executes the closures queued in I2C0.queue.    *)
(*                                                                         *)
(* The ISR never touches the device: it queues closures that carry an      *)
(* 'operation' from the mempool, and core 1 frees the operation.  Time is  *)
(* counted in ticks of U4_tick.  A set of output bits stands for the word  *)
(* U4x.outputs, and a relay in the set is energised, i.e. its door is      *)
(* unlocked.                                                               *)
(***************************************************************************)
EXTENDS Naturals, FiniteSets, Sequences

CONSTANTS
  Relays, LEDs,      \* the output bits
  Polarity,          \* the active-low bits (U4x.polarity)
  Chunks,            \* the chunks of the operation mempool
  NoChunk, U3Read,   \* no operation; the closure of U3_on_update
  QueueSize,         \* slots of I2C0.queue
  RelayTicks,        \* doors_unlock's 5000ms, in ticks
  TockTicks,         \* U4_TOCK in ticks
  U3Ticks,           \* U3_on_update interrupts between two U4_ticks
  BlinkTicks,        \* the fixed lead-in of a blink (250ms)
  Blinks,            \* the <<count, interval>> pairs the callers blink with
  MaxBlinks,         \* the clamp on blinks (64)
  MaxCommands,       \* bound: commands of the main loop in a behaviour
  MaxFaults          \* bound: device, bus and event queue faults

Bits == Relays \cup LEDs

ASSUME BitsAssumption == Relays \cap LEDs = {} /\ Polarity \subseteq LEDs
ASSUME PoolAssumption == /\ NoChunk \notin Chunks /\ U3Read \notin Chunks
                         /\ NoChunk # U3Read
ASSUME TimeAssumption == /\ RelayTicks \in Nat \ {0} /\ TockTicks \in Nat
                         /\ U3Ticks \in Nat /\ BlinkTicks \in Nat \ {0}
                         /\ QueueSize \in Nat /\ MaxBlinks \in Nat
                         /\ MaxCommands \in Nat /\ MaxFaults \in Nat
                         /\ Blinks \subseteq Nat \X (Nat \ {0})

VARIABLES
  outputs, write, tock,            \* U4x.outputs, .write, .tock
  timer,                           \* U4x.relays[].timer, in ticks
  ledTimer, blinks, interval,      \* U4x.LEDs[].timer, .blinks, .interval
  guard,                           \* the holder of U4x.guard
  cmd, commands,                   \* main: command in progress, commands so far
  isr, before, phase,              \* U4_tick: next step, local 'outputs';
                                   \* U3_on_updates since the last U4_tick
  heap, queue,                     \* the operation mempool, I2C0.queue
  core1, task, seen,               \* core 1: next step, its closure, U4_write's
                                   \* local 'outputs'
  state, announced,                \* U4x.state; the relays last reported by an
                                   \* event that reached the main queue as open
  device,                          \* the PCAL6416A output register
  syserr, faults                   \* STATE.errors set so far; faults so far

mainVars == <<cmd, commands>>
ledVars == <<ledTimer, blinks, interval>>
u4Vars == <<outputs, write, tock, timer, ledVars>>
isrVars == <<isr, before, phase>>
poolVars == <<heap, queue>>
core1Vars == <<core1, task, seen, state, announced>>
vars == <<u4Vars, guard, mainVars, isrVars, poolVars, core1Vars,
          device, syserr, faults>>

-----------------------------------------------------------------------------
(***************************************************************************)
(* Helpers.                                                                *)
(***************************************************************************)
\* (outputs ^ U4x.polarity) & MASK: the register word for a set of bits.
Wire(bits) == (bits \ Polarity) \cup (Polarity \ bits)

Clamp(v, max) == IF v > max THEN max ELSE v

Operation == [tag : {"write", "healthcheck"}, outputs : SUBSET Bits]
Closures == Chunks \cup {U3Read}
Unallocated == [tag |-> "free", outputs |-> {}]
Free == {c \in Chunks : heap[c] = Unallocated}

Commands ==
       {<<f, r>> : f \in {"set_relay", "clear_relay"}, r \in Relays}
  \cup {<<f, l>> : f \in {"set_LED", "clear_LED", "toggle_LED"}, l \in LEDs}
  \cup {<<"blink_LED", l, b>> : l \in LEDs, b \in Blinks}
NoCommand == << >>

\* RAM and the expander after a reset: U4_init resets the chip and writes the
\* outputs with every door locked.
Init ==
  /\ outputs = {} /\ write = FALSE /\ tock = TockTicks
  /\ timer = [r \in Relays |-> 0]
  /\ ledTimer = [l \in LEDs |-> 0]
  /\ blinks = [l \in LEDs |-> 0]
  /\ interval = [l \in LEDs |-> 0]
  /\ guard = "free"
  /\ cmd = NoCommand /\ commands = 0
  /\ isr = "idle" /\ before = {} /\ phase = 0
  /\ heap = [c \in Chunks |-> Unallocated] /\ queue = << >>
  /\ core1 = "idle" /\ task = NoChunk /\ seen = {}
  /\ state = {} /\ announced = {}
  /\ device = Wire({})
  /\ syserr = {} /\ faults = 0

-----------------------------------------------------------------------------
(***************************************************************************)
(* The main loop.  A command enters the guard (mutex_enter_blocking), then *)
(* changes U4x and leaves it; the ISR may run in between.                  *)
(***************************************************************************)
Enter(c) ==
  /\ isr = "idle" /\ guard = "free" /\ commands < MaxCommands
  /\ guard' = "main" /\ cmd' = c /\ commands' = commands + 1
  /\ UNCHANGED <<u4Vars, isrVars, poolVars, core1Vars, device, syserr, faults>>

\* Mutant: mutex_exit is forgotten.
LeaveLocked ==
  /\ UNCHANGED guard /\ cmd' = NoCommand
  /\ UNCHANGED <<tock, commands, isrVars, poolVars, core1Vars, device, syserr, faults>>

\* The frame of a command body: runs with the guard, and releases it.
Leave ==
  /\ guard' = "free" /\ cmd' = NoCommand
  /\ UNCHANGED <<tock, commands, isrVars, poolVars, core1Vars, device, syserr, faults>>

Holds(f, id) == isr = "idle" /\ guard = "main" /\ cmd[1] = f /\ cmd[2] = id

U4_set(bits) == outputs' = outputs \cup bits /\ write' = TRUE
\* Mutant: nobody is told that there is something to write.
ClearUnwritten(bits) == outputs' = outputs \ bits /\ UNCHANGED write
U4_clear(bits) == outputs' = outputs \ bits /\ write' = TRUE
U4_toggle(bits) == /\ outputs' = (outputs \ bits) \cup (bits \ outputs)
                   /\ write' = TRUE

\* Mutant: the relay's timer is not started.
SetUntimed(r) ==
  /\ Holds("set_relay", r)
  /\ U4_set({r}) /\ UNCHANGED timer
  /\ Leave /\ UNCHANGED ledVars

U4_set_relay(r) ==
  /\ Holds("set_relay", r)
  /\ U4_set({r})
  /\ timer' = [timer EXCEPT ![r] = RelayTicks]
  /\ Leave /\ UNCHANGED ledVars

\* Mutant: the relay's timer keeps running.
ClearTimed(r) ==
  /\ Holds("clear_relay", r)
  /\ U4_clear({r}) /\ UNCHANGED timer
  /\ Leave /\ UNCHANGED ledVars

U4_clear_relay(r) ==
  /\ Holds("clear_relay", r)
  /\ U4_clear({r})
  /\ timer' = [timer EXCEPT ![r] = 0]
  /\ Leave /\ UNCHANGED ledVars

\* The three plain LED commands stop the timer and leave blinks and interval.
U4_LED(l) ==
  /\ \/ Holds("set_LED", l) /\ U4_set({l})
     \/ Holds("clear_LED", l) /\ U4_clear({l})
     \/ Holds("toggle_LED", l) /\ U4_toggle({l})
  /\ ledTimer' = [ledTimer EXCEPT ![l] = 0]
  /\ Leave /\ UNCHANGED <<timer, blinks, interval>>

\* Adds to the blinks still owed; neither the LED nor U4x.write changes yet.
U4_blink_LED(l) ==
  /\ Holds("blink_LED", l)
  /\ ledTimer' = [ledTimer EXCEPT ![l] = BlinkTicks]
  /\ interval' = [interval EXCEPT ![l] = cmd[3][2]]
  /\ blinks' = [blinks EXCEPT ![l] = Clamp(@ + 2 * cmd[3][1], MaxBlinks)]
  /\ Leave /\ UNCHANGED <<outputs, write, timer>>

Body == \/ \E r \in Relays : U4_set_relay(r) \/ U4_clear_relay(r)
        \/ \E l \in LEDs : U4_LED(l) \/ U4_blink_LED(l)
Main == (\E c \in Commands : Enter(c)) \/ Body

-----------------------------------------------------------------------------
(***************************************************************************)
(* The core 0 timer interrupts.                                            *)
(***************************************************************************)
\* operation_alloc, fill in, I2C0_push; operation_free when the queue is full.
\* The pool is asked first: an empty pool panics whatever room the queue has.
Queued(tag) ==
  /\ Len(queue) < QueueSize
  /\ \E c \in Free :
       /\ heap' = [heap EXCEPT ![c] = [tag |-> tag, outputs |-> Wire(outputs)]]
       /\ queue' = Append(queue, c)
  /\ UNCHANGED syserr
\* Mutant: an operation that found the queue full is not freed.
RefusedLeak ==
  /\ Len(queue) >= QueueSize
  /\ \E c \in Free :
       heap' = [heap EXCEPT ![c] = [tag |-> "write", outputs |-> Wire(outputs)]]
  /\ syserr' = syserr \cup {"queue"}
  /\ UNCHANGED queue
Refused ==
  /\ Free # {} /\ Len(queue) >= QueueSize
  /\ syserr' = syserr \cup {"queue"}
  /\ UNCHANGED poolVars
Panic ==
  /\ Free = {} /\ isr' = "panic"
  /\ UNCHANGED <<u4Vars, guard, before, poolVars, syserr>>

\* mutex_try_enter fails: the tick does nothing at all.
TickSkip ==
  /\ isr = "idle" /\ phase = U3Ticks /\ guard # "free"
  /\ phase' = 0
  /\ UNCHANGED <<u4Vars, guard, mainVars, isr, before, poolVars, core1Vars, device, syserr, faults>>

TickEnter ==
  /\ isr = "idle" /\ phase = U3Ticks /\ guard = "free"
  /\ isr' = "health" /\ guard' = "tick" /\ before' = outputs /\ phase' = 0
  /\ UNCHANGED <<u4Vars, mainVars, poolVars, core1Vars, device, syserr, faults>>

TickHealth ==
  /\ isr = "health"
  /\ \/ /\ isr' = "timers"
        /\ \/ /\ tock > 0 /\ tock' = tock - 1
              /\ UNCHANGED <<poolVars, syserr>>
           \/ /\ tock = 0 /\ Queued("healthcheck") /\ tock' = TockTicks
           \/ /\ tock = 0 /\ Refused /\ UNCHANGED tock
        /\ UNCHANGED <<outputs, write, timer, ledVars, guard, before>>
     \/ tock = 0 /\ Panic
  /\ UNCHANGED <<phase, mainVars, core1Vars, device, faults>>

Expired(t) == {x \in DOMAIN t : t[x] = 1}
Blinking == {l \in Expired(ledTimer) : blinks[l] > 0 /\ interval[l] > 0}
\* Mutant: an LED that has no blinks left is not switched off.
NeverDark == {}
Dark == Expired(ledTimer) \ Blinking

TickTimers ==
  /\ isr = "timers" /\ isr' = "write"
  /\ timer' = [r \in Relays |-> IF timer[r] > 0 THEN timer[r] - 1 ELSE 0]
  /\ ledTimer' = [l \in LEDs |-> IF l \in Blinking THEN interval[l]
                                 ELSE IF ledTimer[l] > 0 THEN ledTimer[l] - 1 ELSE 0]
  /\ blinks' = [l \in LEDs |-> IF l \in Blinking THEN blinks[l] - 1 ELSE blinks[l]]
  /\ outputs' = (outputs \ (Expired(timer) \cup Dark \cup Blinking))
                \cup (Blinking \ outputs)
  /\ write' = (write \/ Expired(timer) # {} \/ Expired(ledTimer) # {})
  /\ UNCHANGED <<tock, interval, guard, before, phase, mainVars, poolVars,
                 core1Vars, device, syserr, faults>>

TickWrite ==
  /\ isr = "write"
  /\ \/ /\ isr' = "idle" /\ guard' = "free" /\ before' = {}
        /\ \/ /\ before = outputs /\ ~write
              /\ UNCHANGED <<write, poolVars, syserr>>
           \/ /\ before # outputs \/ write
              /\ Queued("write") /\ write' = FALSE
           \/ /\ before # outputs \/ write
              /\ Refused /\ UNCHANGED write
        /\ UNCHANGED <<outputs, tock, timer, ledVars>>
     \/ (before # outputs \/ write) /\ Panic
  /\ UNCHANGED <<phase, mainVars, core1Vars, device, faults>>

\* The inputs are sampled through the same queue, whether it has room or not.
U3_on_update ==
  /\ isr = "idle" /\ phase < U3Ticks /\ phase' = phase + 1
  /\ \/ /\ Len(queue) < QueueSize
        /\ queue' = Append(queue, U3Read) /\ UNCHANGED syserr
     \/ /\ Len(queue) >= QueueSize
        /\ syserr' = syserr \cup {"queue"} /\ UNCHANGED queue
  /\ UNCHANGED <<u4Vars, guard, mainVars, isr, before, heap, core1Vars, device, faults>>

U4_tick == TickSkip \/ TickEnter \/ TickHealth \/ TickTimers \/ TickWrite

-----------------------------------------------------------------------------
(***************************************************************************)
(* Core 1: I2C0_run and the tasks it executes.                             *)
(***************************************************************************)
core0Vars == <<outputs, tock, timer, ledVars, mainVars, isrVars>>

operation_free(c) == heap' = [heap EXCEPT ![c] = Unallocated]
Idle == core1' = "idle" /\ task' = NoChunk /\ seen' = {}
Fault == faults < MaxFaults /\ faults' = faults + 1
Healthy == UNCHANGED faults

I2C0_run ==
  /\ core1 = "idle" /\ queue # << >>
  /\ task' = Head(queue) /\ queue' = Tail(queue)
  /\ core1' = IF task' = U3Read THEN "U3_read" ELSE heap[task'].tag
  /\ UNCHANGED <<core0Vars, write, guard, heap, seen, state, announced, device, syserr, faults>>

U3_read ==
  /\ core1 = "U3_read" /\ Idle
  /\ UNCHANGED <<core0Vars, write, guard, poolVars, state, announced, device, syserr, faults>>

\* U4_write: PCAL6416A_write.  A failed transfer may or may not have reached
\* the register; the local 'outputs' keeps the value that was to be written.
WriteOutputs ==
  /\ core1 = "write"
  /\ seen' = heap[task].outputs
  /\ \/ /\ Healthy /\ device' = heap[task].outputs
        /\ core1' = "readback" /\ UNCHANGED syserr
     \/ /\ Fault /\ device' \in {device, heap[task].outputs}
        /\ core1' = "finish" /\ syserr' = syserr \cup {"U4"}
  /\ UNCHANGED <<core0Vars, write, guard, poolVars, task, state, announced>>

\* U4_write: PCAL6416A_readback and validate.
WriteReadback ==
  /\ core1 = "readback" /\ core1' = "finish"
  /\ \/ /\ Healthy /\ seen' = device
        /\ syserr' = IF device = heap[task].outputs THEN syserr ELSE syserr \cup {"U4"}
     \/ Fault /\ syserr' = syserr \cup {"U4"} /\ UNCHANGED seen
  /\ UNCHANGED <<core0Vars, write, guard, poolVars, task, state, announced, device>>

\* Mutant: what is asked for now is reported, not what was read back.
FinishAsked ==
  /\ core1 = "finish"
  /\ operation_free(task) /\ Idle
  /\ state' = outputs \cap Relays
  /\ Healthy /\ announced' = state'
  /\ UNCHANGED <<core0Vars, write, guard, queue, device, syserr>>

\* U4_write: free the operation, report the relays that changed.  push drops
\* an event, and raises ERR_QUEUE, when the main queue is full.
WriteFinish ==
  /\ core1 = "finish"
  /\ operation_free(task) /\ Idle
  /\ state' = seen \cap Relays
  /\ LET changed == (state \ state') \cup (state' \ state)
     IN \/ /\ Healthy /\ UNCHANGED syserr
           /\ announced' = (announced \ changed) \cup (changed \cap state')
        \/ \E lost \in (SUBSET changed) \ {{}} :
             /\ Fault /\ syserr' = syserr \cup {"queue"}
             /\ announced' = (announced \ (changed \ lost)) \cup ((changed \ lost) \cap state')
  /\ UNCHANGED <<core0Vars, write, guard, queue, device>>

\* U4_healthcheck: PCAL6416A_readback and compare.
HealthReadback ==
  /\ core1 = "healthcheck"
  /\ \/ /\ Healthy /\ device = heap[task].outputs
        /\ operation_free(task) /\ Idle /\ UNCHANGED syserr
     \/ /\ Healthy /\ device # heap[task].outputs
        /\ core1' = "repair" /\ syserr' = syserr \cup {"U4"}
        /\ UNCHANGED <<heap, task, seen>>
     \/ /\ Fault /\ syserr' = syserr \cup {"U4"}
        /\ operation_free(task) /\ Idle
  /\ UNCHANGED <<core0Vars, write, guard, queue, state, announced, device>>

\* Mutants: no write is asked for; the operation is not freed when the guard is
\* taken.
RepairNothing ==
  /\ core1 = "repair" /\ guard = "free"
  /\ guard' = "core1" /\ core1' = "release"
  /\ UNCHANGED <<core0Vars, write, poolVars, task, seen, state, announced, device, syserr, faults>>
SkipLeak ==
  /\ core1 = "repair" /\ guard # "free"
  /\ Idle
  /\ UNCHANGED <<core0Vars, write, guard, poolVars, state, announced, device, syserr, faults>>

\* U4_healthcheck: ask for a write if the guard can be had without waiting.
RepairEnter ==
  /\ core1 = "repair" /\ guard = "free"
  /\ guard' = "core1" /\ write' = TRUE /\ core1' = "release"
  /\ UNCHANGED <<core0Vars, poolVars, task, seen, state, announced, device, syserr, faults>>
RepairSkip ==
  /\ core1 = "repair" /\ guard # "free"
  /\ operation_free(task) /\ Idle
  /\ UNCHANGED <<core0Vars, write, guard, queue, state, announced, device, syserr, faults>>
RepairExit ==
  /\ core1 = "release" /\ guard' = "free"
  /\ operation_free(task) /\ Idle
  /\ UNCHANGED <<core0Vars, write, queue, state, announced, device, syserr, faults>>

Core1 == \/ I2C0_run \/ U3_read
         \/ WriteOutputs \/ WriteReadback \/ WriteFinish
         \/ HealthReadback \/ RepairEnter \/ RepairSkip \/ RepairExit

\* The expander loses its register (a brown-out, noise on the bus).
Glitch ==
  /\ Fault /\ device' \in (SUBSET Bits) \ {device}
  /\ UNCHANGED <<core0Vars, write, guard, poolVars, core1Vars, syserr>>

\* A reset: the watchdog's after a panic, or a power cycle.  RAM is lost and
\* the relays drop out; what the host was told before is not taken back.
Reboot ==
  /\ IF isr = "panic" THEN Healthy ELSE Fault
  /\ outputs' = {} /\ write' = FALSE /\ tock' = TockTicks
  /\ timer' = [r \in Relays |-> 0]
  /\ ledTimer' = [l \in LEDs |-> 0]
  /\ blinks' = [l \in LEDs |-> 0]
  /\ interval' = [l \in LEDs |-> 0]
  /\ guard' = "free" /\ cmd' = NoCommand
  /\ isr' = "idle" /\ before' = {} /\ phase' = 0
  /\ heap' = [c \in Chunks |-> Unallocated] /\ queue' = << >>
  /\ Idle /\ state' = {} /\ device' = Wire({})
  /\ syserr' = {"restart"}
  /\ UNCHANGED <<commands, announced>>

-----------------------------------------------------------------------------
Next == Main \/ U4_tick \/ U3_on_update \/ Core1 \/ Glitch \/ Reboot

(***************************************************************************)
(* Fairness: interrupts keep firing, the main loop and core 1 keep running,*)
(* and nobody is unlucky for ever.  The guard is held for microseconds, so *)
(* some tick finds it free; core 1 executes a task in about 0.5ms (a       *)
(* transfer of five bytes at 100kHz) and U3 queues one per 1ms, so some    *)
(* tick finds room in the queue; the transfer of a health check outlasts   *)
(* the tick that queued it, so some repair finds the guard free.           *)
(***************************************************************************)
RoomFound == /\ []<>(isr = "health" /\ Len(queue) < QueueSize)
             /\ []<>(isr = "write" /\ Len(queue) < QueueSize)
GuardFound == []<>(core1 = "repair") => []<>(core1 = "release")

Fairness ==
  /\ WF_vars(Body) /\ WF_vars(U3_on_update)
  /\ WF_vars(U4_tick) /\ SF_vars(TickEnter)
  /\ WF_vars(Core1) /\ WF_vars(Reboot /\ isr = "panic")
  /\ RoomFound /\ GuardFound

Spec == Init /\ [][Next]_vars
FairSpec == Spec /\ Fairness
-----------------------------------------------------------------------------
(***************************************************************************)
(* Properties.                                                             *)
(***************************************************************************)
\* The type invariant: every variable of U4.c holds a value of its C type,
\* within the bounds that the code clamps to.
TypeOK ==
  /\ outputs \subseteq Bits /\ write \in BOOLEAN /\ tock \in 0..TockTicks
  /\ timer \in [Relays -> 0..RelayTicks]
  /\ ledTimer \in [LEDs -> Nat] /\ interval \in [LEDs -> Nat]
  /\ blinks \in [LEDs -> 0..MaxBlinks]
  /\ guard \in {"free", "main", "tick", "core1"}
  /\ cmd \in Commands \cup {NoCommand} /\ commands \in Nat
  /\ isr \in {"idle", "health", "timers", "write", "panic"}
  /\ before \subseteq Bits /\ phase \in 0..U3Ticks
  /\ heap \in [Chunks -> Operation \cup {Unallocated}]
  /\ queue \in Seq(Closures) /\ Len(queue) <= QueueSize
  /\ core1 \in {"idle", "U3_read", "write", "readback", "finish",
                "healthcheck", "repair", "release"}
  /\ task \in Closures \cup {NoChunk} /\ seen \subseteq Bits
  /\ state \subseteq Relays /\ announced \subseteq Relays
  /\ device \subseteq Bits
  /\ syserr \subseteq {"U4", "queue", "restart"} /\ faults \in Nat

\* U4x.guard is held by exactly the thread that is inside its critical
\* section, so that the main loop, U4_tick and core 1 never change U4x at once.
GuardHeld ==
  /\ (guard = "main") <=> (cmd # NoCommand)
  /\ (guard = "tick") <=> (isr \in {"health", "timers", "write", "panic"})
  /\ (guard = "core1") <=> (core1 = "release")

\* A door is unlocked exactly while its relay's timer runs: no interleaving of
\* U4_set_relay, U4_clear_relay and U4_tick leaves a relay energised for ever.
RelayTimed == \A r \in Relays : r \in outputs <=> timer[r] > 0

\* Every allocated operation is in I2C0.queue or in the hands of core 1, once:
\* no path (queue full, bus error, guard taken) leaks one or frees one twice.
OperationsOwned ==
  /\ \A c \in Chunks : heap[c] # Unallocated <=>
       c = task \/ \E i \in DOMAIN queue : queue[i] = c
  /\ \A i \in DOMAIN queue : queue[i] = U3Read \/ queue[i] # task
  /\ \A i, j \in DOMAIN queue : queue[i] = queue[j] /\ i # j => queue[i] = U3Read

\* Core 1 executes U4_write on operations tagged as writes and U4_healthcheck
\* on the others: what it holds is never recycled under it.
TaskTagged ==
  /\ core1 \in {"write", "readback", "finish"} =>
       task \in Chunks /\ heap[task].tag = "write"
  /\ core1 \in {"healthcheck", "repair", "release"} =>
       task \in Chunks /\ heap[task].tag = "healthcheck"
  /\ core1 = "idle" <=> task = NoChunk
  /\ core1 = "U3_read" <=> task = U3Read

\* operation_alloc panics only when core 1 is behind with all the pool but one
\* operation at most: neither a refused write nor a transfer that failed, nor the
\* reads of U3 that share the queue, wear the pool down.  With as many chunks as
\* slots, as in the code, one slot at most is then left for a read of U3.
Behind == {i \in DOMAIN queue : queue[i] \in Chunks}
PanicsBehind ==
  [][isr # "panic" /\ isr' = "panic" => Cardinality(Behind) + 1 >= Cardinality(Chunks)]_vars

\* The last write still on its way, or else the device, holds the outputs.
IsWrite(x) == x \in Chunks /\ heap[x].tag = "write"
Settling ==
  \/ \E i \in DOMAIN queue :
       /\ IsWrite(queue[i]) /\ heap[queue[i]].outputs = Wire(outputs)
       /\ \A j \in DOMAIN queue : j > i => ~IsWrite(queue[j])
  \/ /\ \A i \in DOMAIN queue : ~IsWrite(queue[i])
     /\ IF core1 = "write" THEN heap[task].outputs = Wire(outputs)
                           ELSE device = Wire(outputs)

\* Without faults no change of the outputs is ever lost between the main loop,
\* the tick and core 1: unless a write is due (U4x.write), the device has the
\* outputs or is about to be given them.
NoLostUpdate == faults = 0 /\ ~write => Settling

\* Between tasks of core 1 the events sent agree with U4x.state, and without
\* faults with the device: a host that lost track of a door, by a dropped event
\* or by a reset, finds ERR_QUEUE or ERR_RESTART raised.
EventsAgree ==
  core1 = "idle" =>
    /\ announced = state \/ syserr \cap {"queue", "restart"} # {}
    /\ faults = 0 => state = device \cap Relays

\* A blink that runs out leaves the LED off and no blinks owed, whatever
\* commands were interleaved with it.
BlinkEndsDark ==
  [][\A l \in LEDs : TickTimers /\ ledTimer[l] > 0 /\ ledTimer'[l] = 0
       => l \notin outputs' /\ blinks'[l] = 0]_vars

\* Every door that is unlocked is locked again, and every blinking LED stops,
\* once the commands have ceased.
Relocks == <>[](outputs \cap Relays = {} /\ \A l \in LEDs : ledTimer[l] = 0)

\* The device settles on the outputs, whatever faults preceded: write errors,
\* bad readbacks and corrupted registers are repaired by the health check.
Converges == <>[](device = Wire(outputs))
=============================================================================
