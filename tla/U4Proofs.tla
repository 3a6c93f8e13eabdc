------------------------------ MODULE U4Proofs ------------------------------
(***************************************************************************)
(* Theorems about U4, for any number of relays, LEDs, mempool chunks and   *)
(* queue slots, any delays and any number of commands, faults and resets;  *)
(* and that U4 implements DoorLocks.                                       *)
(***************************************************************************)
EXTENDS U4Refinement, SequenceTheorems, FiniteSetTheorems, TLAPS

USE BitsAssumption, PoolAssumption, TimeAssumption

-----------------------------------------------------------------------------
(***************************************************************************)
(* Type correctness.                                                       *)
(***************************************************************************)
LEMMA WireType == \A bits \in SUBSET Bits : Wire(bits) \in SUBSET Bits
  BY DEF Wire, Bits

LEMMA HeapType ==
  ASSUME TypeOK, NEW c \in Chunks
  PROVE  /\ heap[c].outputs \in SUBSET Bits
         /\ heap[c] # Unallocated => heap[c].tag \in {"write", "healthcheck"}
  BY DEF TypeOK, Operation, Unallocated

\* What appending a closure to I2C0.queue and removing the oldest one do.
LEMMA AppendQueue ==
  ASSUME TypeOK, NEW x \in Closures, queue' = Append(queue, x)
  PROVE  /\ queue' \in Seq(Closures) /\ Len(queue') = Len(queue) + 1
         /\ DOMAIN queue = 1..Len(queue) /\ Len(queue) \in Nat
         /\ DOMAIN queue' = 1..Len(queue) + 1
         /\ \A i \in DOMAIN queue : queue'[i] = queue[i]
         /\ queue'[Len(queue) + 1] = x
<1>1. queue \in Seq(Closures)
  BY DEF TypeOK
<1>2. Append(queue, x) \in Seq(Closures)
  BY <1>1, AppendProperties
<1> QED
  BY <1>1, <1>2, AppendProperties, LenProperties

LEMMA RemoveQueue ==
  ASSUME TypeOK, queue # << >>, queue' = Tail(queue)
  PROVE  /\ queue' \in Seq(Closures) /\ Len(queue') = Len(queue) - 1
         /\ DOMAIN queue = 1..Len(queue) /\ Len(queue) \in Nat \ {0}
         /\ DOMAIN queue' = 1..Len(queue) - 1
         /\ \A i \in DOMAIN queue' : queue'[i] = queue[i + 1]
         /\ Head(queue) = queue[1] /\ Head(queue) \in Closures
<1>1. queue \in Seq(Closures)
  BY DEF TypeOK
<1>2. Tail(queue) \in Seq(Closures) /\ Len(queue) \in Nat \ {0}
  BY <1>1, HeadTailProperties, EmptySeq
<1> QED
  BY <1>1, <1>2, HeadTailProperties, LenProperties

LEMMA InitTypeOK == Init => TypeOK
<1> SUFFICES ASSUME Init PROVE TypeOK
  OBVIOUS
<1>1. device \subseteq Bits
  BY WireType DEF Init
<1>2. << >> \in Seq(Closures) /\ Len(<< >>) <= QueueSize
  BY EmptySeq
<1>3. timer \in [Relays -> 0..RelayTicks] /\ blinks \in [LEDs -> 0..MaxBlinks]
  BY DEF Init
<1>4. heap \in [Chunks -> Operation \cup {Unallocated}]
  BY DEF Init
<1>5. tock \in 0..TockTicks /\ phase \in 0..U3Ticks
  BY DEF Init
<1> QED
  BY <1>1, <1>2, <1>3, <1>4, <1>5 DEF Init, TypeOK

\* A command is in progress only under the guard, so its parameters can be
\* told from its name; hence the two invariants are proved together.
LEMMA BlinkParameters ==
  ASSUME TypeOK, GuardHeld, NEW l \in LEDs, U4_blink_LED(l)
  PROVE  cmd[3][1] \in Nat /\ cmd[3][2] \in Nat \ {0}
<1>1. cmd \in Commands /\ cmd[1] = "blink_LED"
  BY DEF U4_blink_LED, Holds, TypeOK, GuardHeld
<1>2. PICK m \in LEDs, b \in Blinks : cmd = <<"blink_LED", m, b>>
  BY <1>1 DEF Commands
<1> QED
  BY <1>2

LEMMA MainTypeOK == TypeOK /\ GuardHeld /\ Main => TypeOK'
<1> SUFFICES ASSUME TypeOK, GuardHeld, Main PROVE TypeOK'
  OBVIOUS
<1> USE DEF TypeOK, u4Vars, ledVars, isrVars, poolVars, core1Vars
<1>1. ASSUME NEW c \in Commands, Enter(c) PROVE TypeOK'
  BY <1>1 DEF Enter
<1>2. ASSUME NEW r \in Relays, U4_set_relay(r) PROVE TypeOK'
  BY <1>2 DEF U4_set_relay, Leave, U4_set, Bits
<1>3. ASSUME NEW r \in Relays, U4_clear_relay(r) PROVE TypeOK'
  BY <1>3 DEF U4_clear_relay, Leave, U4_clear, Bits
<1>4. ASSUME NEW l \in LEDs, U4_LED(l) PROVE TypeOK'
  BY <1>4 DEF U4_LED, Leave, U4_set, U4_clear, U4_toggle, Bits
<1>5. ASSUME NEW l \in LEDs, U4_blink_LED(l) PROVE TypeOK'
  <2>1. interval' \in [LEDs -> Nat]
    BY <1>5, BlinkParameters DEF U4_blink_LED
  <2>2. blinks' \in [LEDs -> 0..MaxBlinks]
    <3>1. \A m, n \in Nat : Clamp(m + 2 * n, MaxBlinks) \in 0..MaxBlinks
      BY DEF Clamp
    <3>2. blinks[l] \in Nat /\ cmd[3][1] \in Nat
      BY <1>5, BlinkParameters
    <3>4. Clamp(blinks[l] + 2 * cmd[3][1], MaxBlinks) \in 0..MaxBlinks
      BY <3>1, <3>2
    <3>3. blinks' = [blinks EXCEPT ![l] = Clamp(blinks[l] + 2 * cmd[3][1], MaxBlinks)]
      BY <1>5 DEF U4_blink_LED
    <3> QED
      BY <3>3, <3>4
  <2> QED
    BY <1>5, <2>1, <2>2 DEF U4_blink_LED, Leave
<1> QED
  BY <1>1, <1>2, <1>3, <1>4, <1>5 DEF Main, Body

\* What U4_tick does with the operation pool and the queue.
LEMMA QueuedType ==
  ASSUME TypeOK, NEW tag \in {"write", "healthcheck"}, Queued(tag)
  PROVE  /\ heap' \in [Chunks -> Operation \cup {Unallocated}]
         /\ queue' \in Seq(Closures) /\ Len(queue') <= QueueSize
         /\ syserr' = syserr
<1>1. PICK c \in Free :
        /\ heap' = [heap EXCEPT ![c] = [tag |-> tag, outputs |-> Wire(outputs)]]
        /\ queue' = Append(queue, c)
  BY DEF Queued
<1>2. [tag |-> tag, outputs |-> Wire(outputs)] \in Operation
  BY WireType DEF TypeOK, Operation
<1>3. c \in Closures
  BY DEF Free, Closures
<1>4. queue' \in Seq(Closures) /\ Len(queue') <= QueueSize
  BY <1>1, <1>3, AppendQueue DEF Queued
<1> QED
  BY <1>1, <1>2, <1>4 DEF TypeOK, Queued, Free

LEMMA TickTypeOK == TypeOK /\ U4_tick => TypeOK'
<1> SUFFICES ASSUME TypeOK, U4_tick PROVE TypeOK'
  OBVIOUS
<1> USE DEF u4Vars, ledVars, mainVars, isrVars, poolVars, core1Vars
<1>1. CASE TickSkip
  BY <1>1 DEF TickSkip, TypeOK
<1>2. CASE TickEnter
  BY <1>2 DEF TickEnter, TypeOK
<1>3. CASE TickHealth
  <2>1. /\ heap' \in [Chunks -> Operation \cup {Unallocated}]
        /\ queue' \in Seq(Closures) /\ Len(queue') <= QueueSize
        /\ syserr' \subseteq {"U4", "queue", "restart"}
    BY <1>3, QueuedType DEF TickHealth, Refused, Panic, TypeOK
  <2> QED
    BY <1>3, <2>1 DEF TickHealth, Panic, TypeOK
<1>4. CASE TickTimers
  <2>1. outputs' \subseteq Bits
    BY <1>4 DEF TickTimers, TypeOK, Bits, Blinking, Dark, Expired
  <2>2. timer' \in [Relays -> 0..RelayTicks]
    BY <1>4 DEF TickTimers, TypeOK
  <2>3. ledTimer' \in [LEDs -> Nat]
    BY <1>4 DEF TickTimers, TypeOK
  <2>4. blinks' \in [LEDs -> 0..MaxBlinks]
    BY <1>4 DEF TickTimers, TypeOK, Blinking
  <2>5. write' \in BOOLEAN
    BY <1>4 DEF TickTimers
  <2> QED
    BY <1>4, <2>1, <2>2, <2>3, <2>4, <2>5 DEF TickTimers, TypeOK
<1>5. CASE TickWrite
  <2>1. /\ heap' \in [Chunks -> Operation \cup {Unallocated}]
        /\ queue' \in Seq(Closures) /\ Len(queue') <= QueueSize
        /\ syserr' \subseteq {"U4", "queue", "restart"}
    BY <1>5, QueuedType DEF TickWrite, Refused, Panic, TypeOK
  <2> QED
    BY <1>5, <2>1 DEF TickWrite, Panic, TypeOK
<1> QED
  BY <1>1, <1>2, <1>3, <1>4, <1>5 DEF U4_tick

LEMMA U3TypeOK == TypeOK /\ U3_on_update => TypeOK'
<1> SUFFICES ASSUME TypeOK, U3_on_update PROVE TypeOK'
  OBVIOUS
<1>1. phase' \in 0..U3Ticks
  BY DEF U3_on_update, TypeOK
<1>2. CASE queue' = Append(queue, U3Read) /\ Len(queue) < QueueSize
  <2>1. queue' \in Seq(Closures) /\ Len(queue') <= QueueSize
    BY <1>2, AppendQueue DEF Closures, TypeOK
  <2> QED
    BY <1>1, <1>2, <2>1 DEF U3_on_update, TypeOK, u4Vars, ledVars, mainVars, core1Vars
<1>3. CASE queue' = queue
  BY <1>1, <1>3 DEF U3_on_update, TypeOK, u4Vars, ledVars, mainVars, core1Vars
<1> QED
  BY <1>2, <1>3 DEF U3_on_update

\* An action of core 1 raises at most one error and has at most one fault.
LEMMA ErrorsType ==
  ASSUME TypeOK, NEW e \in {"U4", "queue"},
         syserr' = syserr \/ syserr' = syserr \cup {e}, Healthy \/ Fault
  PROVE  syserr' \subseteq {"U4", "queue", "restart"} /\ faults' \in Nat
<1>1. syserr' \subseteq {"U4", "queue", "restart"}
  BY DEF TypeOK
<1>2. faults \in Nat /\ (faults' = faults \/ faults' = faults + 1)
  BY DEF TypeOK, Healthy, Fault
<1> QED
  BY <1>1, <1>2

LEMMA Core1TypeOK == TypeOK /\ TaskTagged /\ OperationsOwned /\ Core1 => TypeOK'
<1> SUFFICES ASSUME TypeOK, TaskTagged, OperationsOwned, Core1 PROVE TypeOK'
  OBVIOUS
<1> USE DEF ledVars, mainVars, isrVars, poolVars, core0Vars, Idle
<1>1. CASE I2C0_run
  <2>1. /\ queue' \in Seq(Closures) /\ Len(queue') <= QueueSize
        /\ Head(queue) \in Closures /\ 1 \in DOMAIN queue /\ Head(queue) = queue[1]
    BY <1>1, RemoveQueue DEF I2C0_run, TypeOK
  <2>2. Head(queue) # U3Read => heap[Head(queue)].tag \in {"write", "healthcheck"}
    BY <2>1, HeapType DEF OperationsOwned, Closures
  <2>3. core1' \in {"U3_read", "write", "healthcheck"} /\ task' \in Closures
    BY <1>1, <2>1, <2>2 DEF I2C0_run
  <2> QED
    BY <1>1, <2>1, <2>3 DEF I2C0_run, TypeOK
<1>2. CASE U3_read
  BY <1>2 DEF U3_read, TypeOK
<1>3. CASE WriteOutputs
  <2>1. task \in Chunks
    BY <1>3 DEF WriteOutputs, TaskTagged
  <2>2. heap[task].outputs \in SUBSET Bits
    BY <2>1, HeapType
  <2>3. device' \in {device, heap[task].outputs} /\ seen' = heap[task].outputs
    BY <1>3 DEF WriteOutputs
  <2>6. device' \in SUBSET Bits /\ seen' \in SUBSET Bits
    BY <2>2, <2>3 DEF TypeOK
  <2>4. syserr' \subseteq {"U4", "queue", "restart"} /\ faults' \in Nat
    BY <1>3, ErrorsType DEF WriteOutputs
  <2>5. core1' \in {"readback", "finish"}
    BY <1>3 DEF WriteOutputs
  <2> QED
    BY <1>3, <2>4, <2>5, <2>6 DEF WriteOutputs, TypeOK
<1>4. CASE WriteReadback
  <2>1. syserr' \subseteq {"U4", "queue", "restart"} /\ faults' \in Nat
    BY <1>4, ErrorsType DEF WriteReadback
  <2>2. core1' = "finish" /\ seen' \in {seen, device}
    BY <1>4 DEF WriteReadback
  <2> QED
    BY <1>4, <2>1, <2>2 DEF WriteReadback, TypeOK
<1>5. CASE WriteFinish
  <2>1. announced' \subseteq Relays /\ state' \subseteq Relays
    <3>1. state' \subseteq Relays /\ announced \subseteq Relays
      BY <1>5 DEF WriteFinish, TypeOK
    <3>2. \E told : announced' = (announced \ told) \cup (told \cap state')
      BY <1>5, Zenon DEF WriteFinish
    <3> QED
      BY <3>1, <3>2
  <2>2. heap' \in [Chunks -> Operation \cup {Unallocated}]
    <3>1. heap' = [heap EXCEPT ![task] = Unallocated]
      BY <1>5 DEF WriteFinish, operation_free
    <3> QED
      BY <3>1 DEF TypeOK
  <2>3. syserr' \subseteq {"U4", "queue", "restart"} /\ faults' \in Nat
    <3>1. Healthy \/ Fault
      BY <1>5 DEF WriteFinish
    <3>2. syserr' = syserr \/ syserr' = syserr \cup {"queue"}
      BY <1>5 DEF WriteFinish
    <3> QED
      BY <3>1, <3>2, ErrorsType
  <2> QED
    BY <1>5, <2>1, <2>2, <2>3 DEF WriteFinish, TypeOK
<1>6. CASE HealthReadback
  <2>1. heap' \in [Chunks -> Operation \cup {Unallocated}]
    <3>1. heap' = heap \/ heap' = [heap EXCEPT ![task] = Unallocated]
      BY <1>6 DEF HealthReadback, operation_free
    <3> QED
      BY <3>1 DEF TypeOK
  <2>2. syserr' \subseteq {"U4", "queue", "restart"} /\ faults' \in Nat
    BY <1>6, ErrorsType DEF HealthReadback
  <2>3. core1' \in {"idle", "repair"} /\ task' \in {task, NoChunk} /\ seen' \in {seen, {}}
    BY <1>6 DEF HealthReadback
  <2> QED
    BY <1>6, <2>1, <2>2, <2>3 DEF HealthReadback, TypeOK
<1>7. CASE RepairEnter \/ RepairSkip \/ RepairExit
  <2>1. heap' \in [Chunks -> Operation \cup {Unallocated}]
    BY <1>7 DEF RepairEnter, RepairSkip, RepairExit, operation_free, TypeOK
  <2> QED
    BY <1>7, <2>1 DEF RepairEnter, RepairSkip, RepairExit, TypeOK
<1> QED
  BY <1>1, <1>2, <1>3, <1>4, <1>5, <1>6, <1>7 DEF Core1

LEMMA FaultTypeOK == TypeOK /\ (Glitch \/ Reboot) => TypeOK'
<1> SUFFICES ASSUME TypeOK, Glitch \/ Reboot PROVE TypeOK'
  OBVIOUS
<1> USE DEF Fault, Healthy, Idle
<1>1. CASE Glitch
  BY <1>1 DEF Glitch, TypeOK, core0Vars, ledVars, mainVars, isrVars, poolVars, core1Vars
<1>2. CASE Reboot
  <2>1. device' \subseteq Bits
    BY <1>2, WireType DEF Reboot
  <2>2. << >> \in Seq(Closures) /\ Len(<< >>) <= QueueSize
    BY EmptySeq
  <2>3. timer' \in [Relays -> 0..RelayTicks] /\ blinks' \in [LEDs -> 0..MaxBlinks]
    BY <1>2 DEF Reboot
  <2>4. tock' \in 0..TockTicks /\ phase' \in 0..U3Ticks /\ faults' \in Nat
    BY <1>2 DEF Reboot, TypeOK
  <2> QED
    BY <1>2, <2>1, <2>2, <2>3, <2>4 DEF Reboot, TypeOK
<1> QED
  BY <1>1, <1>2

-----------------------------------------------------------------------------
(***************************************************************************)
(* The guard: each thread is inside its critical section exactly while it  *)
(* is recorded as the holder.                                              *)
(***************************************************************************)
LEMMA CommandsNonempty == NoCommand \notin Commands
<1>1. \A c \in Commands : c # << >>
  <2> SUFFICES ASSUME NEW c \in Commands PROVE c # << >>
    OBVIOUS
  <2>1. (\E f, r : c = <<f, r>>) \/ (\E l, b : c = <<"blink_LED", l, b>>)
    BY DEF Commands
  <2> QED
    BY <2>1
<1> QED
  BY <1>1 DEF NoCommand

LEMMA GuardHeldStep == TypeOK /\ GuardHeld /\ Next => GuardHeld'
<1> SUFFICES ASSUME TypeOK, GuardHeld, Next PROVE GuardHeld'
  OBVIOUS
<1> USE DEF GuardHeld, u4Vars, ledVars, mainVars, isrVars, poolVars, core1Vars,
            core0Vars, Idle
<1>1. ASSUME NEW c \in Commands, Enter(c) PROVE GuardHeld'
  BY <1>1, CommandsNonempty DEF Enter
<1>2. CASE Body
  <2>1. guard = "main" /\ isr = "idle" /\ Leave
    BY <1>2 DEF Body, U4_set_relay, U4_clear_relay, U4_LED, U4_blink_LED, Holds
  <2> QED
    BY <2>1 DEF Leave
<1>3. CASE U4_tick
  <2>1. CASE TickSkip \/ TickEnter \/ TickTimers
    BY <2>1 DEF TickSkip, TickEnter, TickTimers
  <2>2. CASE TickHealth
    BY <2>2 DEF TickHealth, Queued, Refused, Panic
  <2>3. CASE TickWrite
    BY <2>3 DEF TickWrite, Queued, Refused, Panic
  <2> QED
    BY <1>3, <2>1, <2>2, <2>3 DEF U4_tick
<1>4. CASE U3_on_update
  BY <1>4 DEF U3_on_update
<1>5. CASE Core1
  <2>1. CASE I2C0_run
    <3>1. core1' # "release"
      <4>1. Head(queue) \in Closures
        BY <2>1, RemoveQueue DEF I2C0_run
      <4>2. Head(queue) \in Chunks =>
              heap[Head(queue)].tag \in {"write", "healthcheck", "free"}
        BY HeapType DEF Unallocated
      <4> QED
        BY <2>1, <4>1, <4>2 DEF I2C0_run, Closures
    <3> QED
      BY <2>1, <3>1 DEF I2C0_run
  <2>2. CASE U3_read \/ WriteOutputs \/ WriteReadback \/ WriteFinish \/ HealthReadback
    BY <2>2 DEF U3_read, WriteOutputs, WriteReadback, WriteFinish, HealthReadback
  <2>3. CASE RepairEnter \/ RepairSkip \/ RepairExit
    BY <2>3 DEF RepairEnter, RepairSkip, RepairExit
  <2> QED
    BY <1>5, <2>1, <2>2, <2>3 DEF Core1
<1>6. CASE Glitch
  BY <1>6 DEF Glitch
<1>7. CASE Reboot
  BY <1>7 DEF Reboot
<1> QED
  BY <1>1, <1>2, <1>3, <1>4, <1>5, <1>6, <1>7 DEF Next, Main

-----------------------------------------------------------------------------
(***************************************************************************)
(* The operations: allocation, queue and core 1 agree on who owns them.    *)
(***************************************************************************)
Owned == OperationsOwned /\ TaskTagged

\* Appending a chunk that was free and is now allocated keeps the ownership.
LEMMA AllocateOwned ==
  ASSUME TypeOK, Owned, NEW tag \in {"write", "healthcheck"}, Queued(tag),
         UNCHANGED <<core1, task>>
  PROVE  Owned'
<1>1. PICK c \in Free :
        /\ heap' = [heap EXCEPT ![c] = [tag |-> tag, outputs |-> Wire(outputs)]]
        /\ queue' = Append(queue, c)
  BY DEF Queued
<1>2. c \in Chunks /\ heap[c] = Unallocated /\ c \in Closures
  BY DEF Free, Closures
<1>3. c # task /\ \A i \in DOMAIN queue : queue[i] # c
  BY <1>2 DEF Owned, OperationsOwned
<1>4. /\ DOMAIN queue = 1..Len(queue) /\ Len(queue) \in Nat
      /\ DOMAIN queue' = 1..Len(queue) + 1
      /\ \A i \in DOMAIN queue : queue'[i] = queue[i]
      /\ queue'[Len(queue) + 1] = c
  BY <1>1, <1>2, AppendQueue
<1>5. heap'[c] # Unallocated /\ \A d \in Chunks \ {c} : heap'[d] = heap[d]
  BY <1>1, <1>2 DEF TypeOK, Unallocated
<1>6. \A d : (\E i \in DOMAIN queue' : queue'[i] = d)
               <=> d = c \/ \E i \in DOMAIN queue : queue[i] = d
  BY <1>4
<1>7. OperationsOwned'
  <2>1. \A d \in Chunks : heap'[d] # Unallocated <=>
          d = task' \/ \E i \in DOMAIN queue' : queue'[i] = d
    BY <1>2, <1>3, <1>5, <1>6 DEF Owned, OperationsOwned
  <2>2. \A i \in DOMAIN queue' : queue'[i] = U3Read \/ queue'[i] # task'
    BY <1>3, <1>4 DEF Owned, OperationsOwned
  <2>3. \A i, j \in DOMAIN queue' :
          queue'[i] = queue'[j] /\ i # j => queue'[i] = U3Read
    BY <1>3, <1>4 DEF Owned, OperationsOwned
  <2> QED
    BY <2>1, <2>2, <2>3 DEF OperationsOwned
<1>8. TaskTagged'
  BY <1>3, <1>5 DEF Owned, TaskTagged
<1> QED
  BY <1>7, <1>8 DEF Owned

\* Freeing the operation core 1 has finished with keeps the ownership.
LEMMA FreeOwned ==
  ASSUME TypeOK, Owned, task \in Chunks, operation_free(task), Idle, UNCHANGED queue
  PROVE  Owned'
<1>1. /\ heap'[task] = Unallocated
      /\ \A c \in Chunks \ {task} : heap'[c] = heap[c]
  BY DEF operation_free, TypeOK
<1>2. \A i \in DOMAIN queue : queue[i] # task
  BY DEF Owned, OperationsOwned
<1>3. queue \in Seq(Closures)
  BY DEF TypeOK
<1>4. \A i \in DOMAIN queue : queue[i] # NoChunk
  BY <1>3 DEF Closures
<1>5. OperationsOwned'
  <2>1. \A c \in Chunks : heap'[c] # Unallocated <=>
          c = task' \/ \E i \in DOMAIN queue' : queue'[i] = c
    BY <1>1, <1>2 DEF Owned, OperationsOwned, Idle
  <2> QED
    BY <2>1, <1>4 DEF Owned, OperationsOwned, Idle
<1>6. TaskTagged'
  BY DEF Idle, TaskTagged
<1> QED
  BY <1>5, <1>6 DEF Owned

\* Core 1 takes over the oldest closure of the queue.
LEMMA RunOwned == TypeOK /\ Owned /\ I2C0_run => Owned'
<1> SUFFICES ASSUME TypeOK, Owned, I2C0_run PROVE Owned'
  OBVIOUS
<1>1. /\ DOMAIN queue = 1..Len(queue) /\ Len(queue) \in Nat \ {0}
      /\ DOMAIN queue' = 1..Len(queue) - 1
      /\ \A i \in DOMAIN queue' : queue'[i] = queue[i + 1]
      /\ task' = queue[1] /\ task' \in Closures /\ heap' = heap
  BY RemoveQueue DEF I2C0_run
<1>2. task = NoChunk
  BY DEF I2C0_run, Owned, TaskTagged
<1>3. \A d : (\E i \in DOMAIN queue : queue[i] = d)
               <=> d = task' \/ \E i \in DOMAIN queue' : queue'[i] = d
  <2> SUFFICES ASSUME NEW d
               PROVE  (\E i \in DOMAIN queue : queue[i] = d)
                        <=> d = task' \/ \E i \in DOMAIN queue' : queue'[i] = d
    OBVIOUS
  <2>1. ASSUME NEW i \in DOMAIN queue, queue[i] = d
        PROVE  d = task' \/ \E j \in DOMAIN queue' : queue'[j] = d
    <3>1. CASE i = 1
      BY <1>1, <2>1, <3>1
    <3>2. CASE i # 1
      <4>1. i - 1 \in DOMAIN queue' /\ queue'[i - 1] = queue[i]
        BY <1>1, <3>2
      <4> QED
        BY <2>1, <4>1
    <3> QED
      BY <3>1, <3>2
  <2>2. ASSUME NEW j \in DOMAIN queue', queue'[j] = d
        PROVE  \E i \in DOMAIN queue : queue[i] = d
    <3>1. j + 1 \in DOMAIN queue /\ queue[j + 1] = d
      BY <1>1, <2>2
    <3> QED
      BY <3>1
  <2>3. 1 \in DOMAIN queue
    BY <1>1
  <2> QED
    BY <1>1, <2>1, <2>2, <2>3
<1>4. \A i \in DOMAIN queue' : i + 1 \in DOMAIN queue /\ i + 1 # 1
  BY <1>1
<1>5. OperationsOwned'
  <2>1. \A c \in Chunks : heap'[c] # Unallocated <=>
          c = task' \/ \E i \in DOMAIN queue' : queue'[i] = c
    BY <1>1, <1>2, <1>3 DEF Owned, OperationsOwned
  <2>2. \A i \in DOMAIN queue' : queue'[i] = U3Read \/ queue'[i] # task'
    <3> SUFFICES ASSUME NEW i \in DOMAIN queue', queue'[i] = task'
                 PROVE  queue'[i] = U3Read
      OBVIOUS
    <3>1. queue[i + 1] = queue[1] /\ 1 \in DOMAIN queue
      BY <1>1
    <3> QED
      BY <1>1, <1>4, <3>1 DEF Owned, OperationsOwned
  <2>3. \A i, j \in DOMAIN queue' :
          queue'[i] = queue'[j] /\ i # j => queue'[i] = U3Read
    <3> SUFFICES ASSUME NEW i \in DOMAIN queue', NEW j \in DOMAIN queue',
                        queue'[i] = queue'[j], i # j
                 PROVE  queue'[i] = U3Read
      OBVIOUS
    <3>1. i + 1 # j + 1
      BY <1>1
    <3> QED
      BY <1>1, <1>4, <3>1 DEF Owned, OperationsOwned
  <2> QED
    BY <2>1, <2>2, <2>3 DEF OperationsOwned
<1>6. TaskTagged'
  <2>1. CASE task' = U3Read
    BY <2>1 DEF I2C0_run, TaskTagged
  <2>2. CASE task' \in Chunks
    <3>1. heap[task'] # Unallocated
      BY <1>1, <1>3, <2>2 DEF Owned, OperationsOwned
    <3>2. core1' = heap[task'].tag /\ core1' \in {"write", "healthcheck"}
      BY <2>2, <3>1, HeapType DEF I2C0_run
    <3> QED
      BY <1>1, <2>2, <3>2 DEF TaskTagged
  <2> QED
    BY <1>1, <2>1, <2>2 DEF Closures
<1> QED
  BY <1>5, <1>6 DEF Owned

\* Sampling the inputs occupies the queue but no operation.
LEMMA U3Owned == TypeOK /\ Owned /\ U3_on_update => Owned'
<1> SUFFICES ASSUME TypeOK, Owned, U3_on_update PROVE Owned'
  OBVIOUS
<1>1. heap' = heap /\ core1' = core1 /\ task' = task
  BY DEF U3_on_update, core1Vars
<1>2. CASE queue' = queue
  BY <1>1, <1>2 DEF Owned, OperationsOwned, TaskTagged
<1>3. CASE queue' = Append(queue, U3Read)
  <2>1. /\ DOMAIN queue = 1..Len(queue) /\ Len(queue) \in Nat
        /\ DOMAIN queue' = 1..Len(queue) + 1
        /\ \A i \in DOMAIN queue : queue'[i] = queue[i]
        /\ queue'[Len(queue) + 1] = U3Read
    BY <1>3, AppendQueue DEF Closures
  <2>2. \A d : (\E i \in DOMAIN queue' : queue'[i] = d)
                 <=> d = U3Read \/ \E i \in DOMAIN queue : queue[i] = d
    BY <2>1
  <2>3. \A c \in Chunks : heap'[c] # Unallocated <=>
          c = task' \/ \E i \in DOMAIN queue' : queue'[i] = c
    BY <1>1, <2>2 DEF Owned, OperationsOwned
  <2>4. \A i \in DOMAIN queue' : queue'[i] = U3Read \/ queue'[i] # task'
    BY <1>1, <2>1 DEF Owned, OperationsOwned
  <2>5. \A i, j \in DOMAIN queue' :
          queue'[i] = queue'[j] /\ i # j => queue'[i] = U3Read
    BY <2>1 DEF Owned, OperationsOwned
  <2> QED
    BY <1>1, <2>3, <2>4, <2>5 DEF Owned, OperationsOwned, TaskTagged
<1> QED
  BY <1>2, <1>3 DEF U3_on_update

LEMMA OwnedStep == TypeOK /\ Owned /\ Next => Owned'
<1> SUFFICES ASSUME TypeOK, Owned, Next PROVE Owned'
  OBVIOUS
<1>1. ASSUME UNCHANGED <<heap, queue, core1, task>> PROVE Owned'
  BY <1>1 DEF Owned, OperationsOwned, TaskTagged
<1>2. CASE Main
  BY <1>1, <1>2 DEF Main, Body, Enter, U4_set_relay, U4_clear_relay, U4_LED,
                    U4_blink_LED, Leave, poolVars, core1Vars
<1>3. CASE U4_tick
  <2>1. CASE TickSkip \/ TickEnter \/ TickTimers
    BY <1>1, <2>1 DEF TickSkip, TickEnter, TickTimers, poolVars, core1Vars
  <2>2. CASE TickHealth
    <3>1. Queued("healthcheck") \/ UNCHANGED poolVars
      BY <2>2 DEF TickHealth, Refused, Panic
    <3>2. UNCHANGED <<core1, task>>
      BY <2>2 DEF TickHealth, core1Vars
    <3> QED
      BY <1>1, <3>1, <3>2, AllocateOwned DEF poolVars
  <2>3. CASE TickWrite
    <3>1. Queued("write") \/ UNCHANGED poolVars
      BY <2>3 DEF TickWrite, Refused, Panic
    <3>2. UNCHANGED <<core1, task>>
      BY <2>3 DEF TickWrite, core1Vars
    <3> QED
      BY <1>1, <3>1, <3>2, AllocateOwned DEF poolVars
  <2> QED
    BY <1>3, <2>1, <2>2, <2>3 DEF U4_tick
<1>4. CASE U3_on_update
  BY <1>4, U3Owned
<1>5. CASE Core1
  <2>1. CASE I2C0_run
    BY <2>1, RunOwned
  <2>2. CASE U3_read
    <3>1. queue \in Seq(Closures) /\ task = U3Read /\ task' = NoChunk
          /\ core1' = "idle" /\ UNCHANGED <<heap, queue>>
      BY <2>2 DEF U3_read, Idle, poolVars, Owned, TaskTagged, TypeOK
    <3>2. \A i \in DOMAIN queue : queue[i] # NoChunk
      BY <3>1 DEF Closures
    <3>3. OperationsOwned'
      BY <3>1, <3>2 DEF Owned, OperationsOwned
    <3>4. TaskTagged'
      BY <3>1 DEF TaskTagged
    <3> QED
      BY <3>3, <3>4 DEF Owned
  <2>3. CASE WriteOutputs \/ WriteReadback
    <3>1. UNCHANGED <<heap, queue, task>> /\ core1' \in {"readback", "finish"}
          /\ core1 \in {"write", "readback"}
      BY <2>3 DEF WriteOutputs, WriteReadback, poolVars
    <3>2. OperationsOwned'
      BY <3>1 DEF Owned, OperationsOwned
    <3>3. TaskTagged'
      BY <3>1 DEF Owned, TaskTagged
    <3> QED
      BY <3>2, <3>3 DEF Owned
  <2>4. CASE HealthReadback \/ RepairEnter
    <3>1. CASE operation_free(task) /\ Idle /\ UNCHANGED queue
      BY <2>4, <3>1, FreeOwned DEF HealthReadback, RepairEnter, Owned, TaskTagged
    <3>2. CASE UNCHANGED <<heap, queue, task>> /\ core1' \in {"repair", "release"}
               /\ core1 \in {"healthcheck", "repair"}
      <4>1. OperationsOwned'
        BY <3>2 DEF Owned, OperationsOwned
      <4>2. TaskTagged'
        BY <3>2 DEF Owned, TaskTagged
      <4> QED
        BY <4>1, <4>2 DEF Owned
    <3> QED
      BY <2>4, <3>1, <3>2 DEF HealthReadback, RepairEnter, poolVars
  <2>5. CASE WriteFinish \/ RepairSkip \/ RepairExit
    <3>1. operation_free(task) /\ Idle /\ UNCHANGED queue
      BY <2>5 DEF WriteFinish, RepairSkip, RepairExit
    <3>2. task \in Chunks
      BY <2>5 DEF WriteFinish, RepairSkip, RepairExit, Owned, TaskTagged
    <3> QED
      BY <3>1, <3>2, FreeOwned
  <2> QED
    BY <1>5, <2>1, <2>2, <2>3, <2>4, <2>5 DEF Core1
<1>6. CASE Glitch
  BY <1>1, <1>6 DEF Glitch, poolVars, core1Vars
<1>7. CASE Reboot
  BY <1>7 DEF Reboot, Idle, Owned, OperationsOwned, TaskTagged
<1> QED
  BY <1>2, <1>3, <1>4, <1>5, <1>6, <1>7 DEF Next

-----------------------------------------------------------------------------
(***************************************************************************)
(* The relays and their timers.                                            *)
(***************************************************************************)
LEMMA RelayTimedTick == TypeOK /\ RelayTimed /\ TickTimers => RelayTimed'
<1> SUFFICES ASSUME TypeOK, RelayTimed, TickTimers, NEW r \in Relays
             PROVE  r \in outputs' <=> timer'[r] > 0
  BY DEF RelayTimed
<1>1. timer[r] \in Nat /\ DOMAIN timer = Relays /\ DOMAIN ledTimer = LEDs
  BY DEF TypeOK
<1>2. timer'[r] = IF timer[r] > 0 THEN timer[r] - 1 ELSE 0
  BY DEF TickTimers
<1>3. r \notin Dark /\ r \notin Blinking
  BY <1>1 DEF Dark, Blinking, Expired
<1>4. r \in Expired(timer) <=> timer[r] = 1
  BY <1>1 DEF Expired
<1>5. r \in outputs' <=> r \in outputs /\ timer[r] # 1
  BY <1>3, <1>4 DEF TickTimers
<1> QED
  BY <1>1, <1>2, <1>5 DEF RelayTimed

LEMMA RelayTimedStep == TypeOK /\ RelayTimed /\ Next => RelayTimed'
<1> SUFFICES ASSUME TypeOK, RelayTimed, Next PROVE RelayTimed'
  OBVIOUS
<1>1. ASSUME UNCHANGED <<outputs, timer>> PROVE RelayTimed'
  BY <1>1 DEF RelayTimed
<1>2. CASE Main
  <2>1. ASSUME NEW c \in Commands, Enter(c) PROVE RelayTimed'
    BY <1>1, <2>1 DEF Enter, u4Vars
  <2>2. ASSUME NEW r \in Relays, U4_set_relay(r) PROVE RelayTimed'
    BY <2>2 DEF U4_set_relay, U4_set, RelayTimed, TypeOK
  <2>3. ASSUME NEW r \in Relays, U4_clear_relay(r) PROVE RelayTimed'
    BY <2>3 DEF U4_clear_relay, U4_clear, RelayTimed, TypeOK
  <2>4. ASSUME NEW l \in LEDs, U4_LED(l) PROVE RelayTimed'
    <3>1. timer' = timer /\ \A r \in Relays : r \in outputs' <=> r \in outputs
      BY <2>4 DEF U4_LED, U4_set, U4_clear, U4_toggle
    <3> QED
      BY <3>1 DEF RelayTimed
  <2>5. ASSUME NEW l \in LEDs, U4_blink_LED(l) PROVE RelayTimed'
    BY <1>1, <2>5 DEF U4_blink_LED
  <2> QED
    BY <1>2, <2>1, <2>2, <2>3, <2>4, <2>5 DEF Main, Body
<1>3. CASE U4_tick
  <2>1. CASE TickTimers
    BY <2>1, RelayTimedTick
  <2>2. CASE TickSkip \/ TickEnter
    BY <1>1, <2>2 DEF TickSkip, TickEnter, u4Vars
  <2>3. CASE TickHealth \/ TickWrite
    BY <1>1, <2>3 DEF TickHealth, TickWrite, Panic, u4Vars
  <2> QED
    BY <1>3, <2>1, <2>2, <2>3 DEF U4_tick
<1>4. CASE U3_on_update \/ Core1 \/ Glitch
  BY <1>1, <1>4 DEF U3_on_update, Glitch, Core1, I2C0_run, U3_read, WriteOutputs,
       WriteReadback, WriteFinish, HealthReadback, RepairEnter, RepairSkip,
       RepairExit, core0Vars, u4Vars
<1>5. CASE Reboot
  BY <1>5 DEF Reboot, RelayTimed
<1> QED
  BY <1>2, <1>3, <1>4, <1>5 DEF Next

-----------------------------------------------------------------------------
(***************************************************************************)
(* Nothing is lost between U4x.outputs and the device.                     *)
(***************************************************************************)
\* Nothing that bears on the last write changes.
LEMMA SettlingFrame ==
  ASSUME Settling, queue' = queue, outputs' = outputs, device' = device,
         \A i \in DOMAIN queue : queue[i] \in Chunks => heap'[queue[i]] = heap[queue[i]],
         core1' = "write" <=> core1 = "write",
         core1 = "write" => task' = task /\ heap'[task] = heap[task]
  PROVE  Settling'
<1>1. \A i \in DOMAIN queue : IsWrite(queue[i])' <=> IsWrite(queue[i])
  BY DEF IsWrite
<1>2. Wire(outputs)' = Wire(outputs)
  BY DEF Wire
<1>3. \A i \in DOMAIN queue : IsWrite(queue[i]) => heap'[queue[i]] = heap[queue[i]]
  BY DEF IsWrite
<1> QED
  BY <1>1, <1>2, <1>3 DEF Settling

\* A health check or a U3 read joins the queue.
LEMMA SettlingAppend ==
  ASSUME TypeOK, Settling, NEW x \in Closures, queue' = Append(queue, x),
         UNCHANGED <<outputs, device, core1, task>>, ~IsWrite(x)',
         \A i \in DOMAIN queue : queue[i] \in Chunks => heap'[queue[i]] = heap[queue[i]],
         core1 = "write" => heap'[task] = heap[task]
  PROVE  Settling'
<1>0. PICK n : n = Len(queue) + 1
  OBVIOUS
<1>1. /\ DOMAIN queue = 1..Len(queue) /\ Len(queue) \in Nat
      /\ DOMAIN queue' = 1..n
      /\ \A i \in DOMAIN queue : queue'[i] = queue[i]
      /\ queue'[n] = x
  BY <1>0, AppendQueue
<1>2. \A i \in DOMAIN queue : IsWrite(queue[i])' <=> IsWrite(queue[i])
  BY <1>1 DEF IsWrite
<1>3. ~IsWrite(queue[n])'
  BY <1>1 DEF IsWrite
<1>4. Wire(outputs)' = Wire(outputs)
  BY DEF Wire
<1>5. CASE \A i \in DOMAIN queue : ~IsWrite(queue[i])
  <2>1. \A i \in DOMAIN queue' : ~IsWrite(queue[i])'
    BY <1>0, <1>1, <1>2, <1>3, <1>5
  <2> QED
    BY <1>4, <1>5, <2>1 DEF Settling
<1>6. CASE \E i \in DOMAIN queue : IsWrite(queue[i])
  <2>1. PICK i \in DOMAIN queue :
          /\ IsWrite(queue[i]) /\ heap[queue[i]].outputs = Wire(outputs)
          /\ \A j \in DOMAIN queue : j > i => ~IsWrite(queue[j])
    BY <1>6 DEF Settling
  <2>2. i \in DOMAIN queue' /\ queue'[i] = queue[i]
    BY <1>0, <1>1
  <2>3. IsWrite(queue[i])' /\ heap'[queue[i]] = heap[queue[i]]
    BY <1>2, <2>1, <2>2 DEF IsWrite
  <2>5. (heap[queue[i]].outputs = Wire(outputs))'
    BY <1>4, <2>1, <2>2, <2>3
  <2>4. \A j \in DOMAIN queue' : j > i => ~IsWrite(queue[j])'
    BY <1>0, <1>1, <1>2, <1>3, <2>1
  <2> QED
    BY <2>2, <2>3, <2>4, <2>5 DEF Settling
<1> QED
  BY <1>5, <1>6

\* U4_tick queues a write of the current outputs.
LEMMA SettlingWrite ==
  ASSUME TypeOK, Queued("write"), outputs' = outputs
  PROVE  Settling'
<1>0. PICK n : n = Len(queue) + 1
  OBVIOUS
<1>1. PICK c \in Free :
        /\ heap' = [heap EXCEPT ![c] = [tag |-> "write", outputs |-> Wire(outputs)]]
        /\ queue' = Append(queue, c)
  BY DEF Queued
<1>2. c \in Chunks /\ c \in Closures
  BY DEF Free, Closures
<1>3. heap'[c] = [tag |-> "write", outputs |-> Wire(outputs)]
  BY <1>1, <1>2 DEF TypeOK
<1>4. /\ Len(queue) \in Nat /\ DOMAIN queue' = 1..n /\ queue'[n] = c
  BY <1>0, <1>1, <1>2, AppendQueue
<1>5. Wire(outputs)' = Wire(outputs)
  BY DEF Wire
<1>6. IsWrite(queue[n])'
  BY <1>2, <1>3, <1>4 DEF IsWrite
<1>7. (heap[queue[n]].outputs = Wire(outputs))'
  BY <1>3, <1>4, <1>5
<1>8. /\ n \in DOMAIN queue'
      /\ \A j \in DOMAIN queue' : ~(j > n)
  BY <1>0, <1>4
<1> QED
  BY <1>6, <1>7, <1>8 DEF Settling

\* Core 1 takes the oldest closure: a write among them stays the last one.
LEMMA SettlingRun == TypeOK /\ Owned /\ Settling /\ I2C0_run => Settling'
<1> SUFFICES ASSUME TypeOK, Owned, Settling, I2C0_run PROVE Settling'
  OBVIOUS
<1>1. /\ DOMAIN queue = 1..Len(queue) /\ Len(queue) \in Nat \ {0}
      /\ DOMAIN queue' = 1..Len(queue) - 1
      /\ \A i \in DOMAIN queue' : queue'[i] = queue[i + 1]
      /\ task' = queue[1] /\ task' \in Closures
  BY RemoveQueue DEF I2C0_run
<1>2. heap' = heap /\ outputs' = outputs /\ device' = device
  BY DEF I2C0_run, core0Vars, poolVars
<1>3. \A i \in DOMAIN queue' : /\ i + 1 \in DOMAIN queue
                               /\ IsWrite(queue[i])' <=> IsWrite(queue[i + 1])
  BY <1>1, <1>2 DEF IsWrite
<1>4. Wire(outputs)' = Wire(outputs)
  BY <1>2 DEF Wire
<1>5. core1' = "write" <=> IsWrite(queue[1])
  <2>1. CASE task' = U3Read
    BY <1>1, <2>1 DEF I2C0_run, IsWrite
  <2>2. CASE task' \in Chunks
    BY <1>1, <2>2 DEF I2C0_run, IsWrite
  <2> QED
    BY <1>1, <2>1, <2>2 DEF Closures
<1>6. ASSUME NEW i \in DOMAIN queue, i # 1,
             IsWrite(queue[i]), heap[queue[i]].outputs = Wire(outputs),
             \A j \in DOMAIN queue : j > i => ~IsWrite(queue[j])
      PROVE  Settling'
  <2>1. i - 1 \in DOMAIN queue' /\ queue'[i - 1] = queue[i]
    BY <1>1, <1>6
  <2>2. IsWrite(queue[i - 1])' /\ (heap[queue[i - 1]].outputs = Wire(outputs))'
    BY <1>2, <1>4, <1>6, <2>1 DEF IsWrite
  <2>3. \A j \in DOMAIN queue' : j > i - 1 => ~IsWrite(queue[j])'
    BY <1>1, <1>3, <1>6
  <2> QED
    BY <2>1, <2>2, <2>3 DEF Settling
<1>7. ASSUME IsWrite(queue[1]), heap[queue[1]].outputs = Wire(outputs),
             \A j \in DOMAIN queue : j > 1 => ~IsWrite(queue[j])
      PROVE  Settling'
  <2>1. \A i \in DOMAIN queue' : ~IsWrite(queue[i])'
    BY <1>1, <1>3, <1>7
  <2> QED
    BY <1>1, <1>2, <1>4, <1>5, <1>7, <2>1 DEF Settling
<1>8. ASSUME \A i \in DOMAIN queue : ~IsWrite(queue[i]) PROVE Settling'
  <2>1. core1 # "write" /\ 1 \in DOMAIN queue
    BY <1>1 DEF I2C0_run
  <2>2. \A i \in DOMAIN queue' : ~IsWrite(queue[i])'
    BY <1>1, <1>3, <1>8
  <2> QED
    BY <1>2, <1>4, <1>5, <1>8, <2>1, <2>2 DEF Settling
<1> QED
  BY <1>6, <1>7, <1>8 DEF Settling

LEMMA NoLostMain == TypeOK /\ NoLostUpdate /\ Main => NoLostUpdate'
<1> SUFFICES ASSUME TypeOK, NoLostUpdate, Main, faults' = 0, ~write' PROVE Settling'
  BY DEF NoLostUpdate
<1>1. UNCHANGED <<queue, outputs, device, heap, core1, task, write, faults>>
  <2>1. ASSUME NEW c \in Commands, Enter(c)
        PROVE  UNCHANGED <<queue, outputs, device, heap, core1, task, write, faults>>
    BY <2>1 DEF Enter, u4Vars, poolVars, core1Vars
  <2>2. CASE Body
    <3>1. PICK l \in LEDs : U4_blink_LED(l)
      BY <2>2 DEF Body, U4_set_relay, U4_clear_relay, U4_LED, U4_set, U4_clear, U4_toggle
    <3> QED
      BY <3>1 DEF U4_blink_LED, Leave, poolVars, core1Vars
  <2> QED
    BY <2>1, <2>2 DEF Main
<1> QED
  BY <1>1, SettlingFrame DEF NoLostUpdate

LEMMA NoLostTick == TypeOK /\ Owned /\ NoLostUpdate /\ U4_tick => NoLostUpdate'
<1> SUFFICES ASSUME TypeOK, Owned, NoLostUpdate, U4_tick, faults' = 0, ~write'
             PROVE  Settling'
  BY DEF NoLostUpdate
<1> USE DEF u4Vars, mainVars, isrVars, poolVars, core1Vars
<1>1. ASSUME UNCHANGED <<queue, outputs, device, heap, core1, task, write, faults>>
      PROVE  Settling'
  BY <1>1, SettlingFrame DEF NoLostUpdate
<1>2. CASE TickSkip \/ TickEnter
  BY <1>1, <1>2 DEF TickSkip, TickEnter
<1>3. CASE TickHealth
  <2>1. UNCHANGED <<outputs, device, core1, task, write, faults>>
    BY <1>3 DEF TickHealth, Panic
  <2>2. CASE UNCHANGED poolVars
    BY <1>1, <2>1, <2>2
  <2>3. CASE Queued("healthcheck")
    <3>1. PICK c \in Free :
            /\ heap' = [heap EXCEPT ![c] = [tag |-> "healthcheck", outputs |-> Wire(outputs)]]
            /\ queue' = Append(queue, c)
      BY <2>3 DEF Queued
    <3>2. c \in Chunks /\ c \in Closures /\ heap[c] = Unallocated
      BY DEF Free, Closures
    <3>3. heap'[c].tag = "healthcheck" /\ \A d \in Chunks \ {c} : heap'[d] = heap[d]
      BY <3>1, <3>2 DEF TypeOK
    <3>4. c # task /\ \A i \in DOMAIN queue : queue[i] # c
      BY <3>2 DEF Owned, OperationsOwned
    <3>5. ~IsWrite(c)'
      BY <3>3 DEF IsWrite
    <3>6. Settling
      BY <2>1 DEF NoLostUpdate
    <3>7. core1 = "write" => task \in Chunks
      BY DEF Owned, TaskTagged
    <3> QED
      BY <2>1, <3>1, <3>2, <3>3, <3>4, <3>5, <3>6, <3>7, SettlingAppend
  <2> QED
    BY <1>3, <2>2, <2>3 DEF TickHealth, Refused, Panic
<1>4. CASE TickTimers
  <2>1. Expired(timer) = {} /\ Expired(ledTimer) = {}
    BY <1>4 DEF TickTimers
  <2>2. outputs' = outputs
    BY <1>4, <2>1 DEF TickTimers, Dark, Blinking
  <2> QED
    BY <1>1, <1>4, <2>1, <2>2 DEF TickTimers, TypeOK
<1>5. CASE TickWrite
  <2>1. UNCHANGED <<outputs, device, core1, task, faults>>
    BY <1>5 DEF TickWrite, Panic
  <2>2. CASE Queued("write")
    BY <2>1, <2>2, SettlingWrite
  <2>3. CASE UNCHANGED poolVars /\ write' = write
    BY <1>1, <2>1, <2>3
  <2> QED
    BY <1>5, <2>2, <2>3 DEF TickWrite, Refused, Panic
<1> QED
  BY <1>2, <1>3, <1>4, <1>5 DEF U4_tick

LEMMA NoLostU3 == TypeOK /\ NoLostUpdate /\ U3_on_update => NoLostUpdate'
<1> SUFFICES ASSUME TypeOK, NoLostUpdate, U3_on_update, faults' = 0, ~write'
             PROVE  Settling'
  BY DEF NoLostUpdate
<1>1. UNCHANGED <<outputs, device, core1, task, heap, write, faults>>
  BY DEF U3_on_update, u4Vars, core1Vars
<1>2. Settling
  BY <1>1 DEF NoLostUpdate
<1>3. CASE queue' = queue
  BY <1>1, <1>2, <1>3, SettlingFrame
<1>4. CASE queue' = Append(queue, U3Read)
  <2>1. U3Read \in Closures /\ ~IsWrite(U3Read)'
    BY DEF Closures, IsWrite
  <2> QED
    BY <1>1, <1>2, <1>4, <2>1, SettlingAppend
<1> QED
  BY <1>3, <1>4 DEF U3_on_update

LEMMA NoLostCore1 == TypeOK /\ Owned /\ NoLostUpdate /\ Core1 => NoLostUpdate'
<1> SUFFICES ASSUME TypeOK, Owned, NoLostUpdate, Core1, faults' = 0, ~write'
             PROVE  Settling'
  BY DEF NoLostUpdate
<1> USE DEF core0Vars, poolVars
<1>1. faults = 0 /\ ~write /\ outputs' = outputs
  BY DEF Core1, I2C0_run, U3_read, WriteOutputs, WriteReadback, WriteFinish,
         HealthReadback, RepairEnter, RepairSkip, RepairExit, Healthy, Fault, TypeOK
<1>2. Settling
  BY <1>1 DEF NoLostUpdate
<1>3. CASE I2C0_run
  BY <1>2, <1>3, SettlingRun
<1>4. CASE WriteOutputs
  <2>1. /\ device' = heap[task].outputs /\ core1' # "write"
        /\ UNCHANGED <<heap, queue, outputs>>
    BY <1>1, <1>4 DEF WriteOutputs, Fault, TypeOK
  <2>2. /\ \A i \in DOMAIN queue : IsWrite(queue[i])' <=> IsWrite(queue[i])
        /\ Wire(outputs)' = Wire(outputs)
    BY <2>1 DEF IsWrite, Wire
  <2> QED
    BY <1>2, <1>4, <2>1, <2>2 DEF Settling, WriteOutputs
<1>5. CASE ~I2C0_run /\ ~WriteOutputs
  <2>1. UNCHANGED <<queue, device>> /\ core1 # "write" /\ core1' # "write"
    BY <1>5 DEF Core1, U3_read, WriteReadback, WriteFinish, HealthReadback,
         RepairEnter, RepairSkip, RepairExit, Idle
  <2>2. \/ heap' = heap
        \/ heap' = [heap EXCEPT ![task] = Unallocated] /\ task \in Chunks
    <3>1. CASE U3_read \/ WriteReadback \/ RepairEnter
      BY <3>1 DEF U3_read, WriteReadback, RepairEnter
    <3>2. CASE WriteFinish \/ HealthReadback \/ RepairSkip \/ RepairExit
      <4>1. task \in Chunks
        BY <3>2 DEF WriteFinish, HealthReadback, RepairSkip, RepairExit, Owned, TaskTagged
      <4>2. heap' = heap \/ operation_free(task)
        BY <3>2 DEF WriteFinish, HealthReadback, RepairSkip, RepairExit
      <4> QED
        BY <4>1, <4>2 DEF operation_free
    <3> QED
      BY <1>5, <3>1, <3>2 DEF Core1
  <2>3. \A i \in DOMAIN queue : queue[i] = task => task \notin Chunks
    BY DEF Owned, OperationsOwned
  <2>4. \A i \in DOMAIN queue : queue[i] \in Chunks => heap'[queue[i]] = heap[queue[i]]
    BY <2>2, <2>3 DEF TypeOK
  <2> QED
    BY <1>1, <1>2, <2>1, <2>4, SettlingFrame
<1> QED
  BY <1>3, <1>4, <1>5

LEMMA NoLostStep == TypeOK /\ Owned /\ NoLostUpdate /\ Next => NoLostUpdate'
<1> SUFFICES ASSUME TypeOK, Owned, NoLostUpdate, Next PROVE NoLostUpdate'
  OBVIOUS
<1>1. CASE Glitch
  BY <1>1 DEF Glitch, Fault, NoLostUpdate, TypeOK
<1>2. CASE Reboot
  <2>1. queue' = << >> /\ core1' = "idle" /\ device' = Wire(outputs')
    BY <1>2 DEF Reboot, Idle
  <2> QED
    BY <2>1 DEF NoLostUpdate, Settling, Wire
<1> QED
  BY <1>1, <1>2, NoLostMain, NoLostTick, NoLostU3, NoLostCore1 DEF Next

-----------------------------------------------------------------------------
(***************************************************************************)
(* The inductive invariant.  Types alone are not inductive: the parameters *)
(* of a command are known only while the main loop holds the guard, and    *)
(* the operation core 1 works on only if nobody has freed it meanwhile.    *)
(***************************************************************************)
IInv == TypeOK /\ GuardHeld /\ Owned /\ RelayTimed /\ NoLostUpdate

THEOREM InitIInv == Init => IInv
<1> SUFFICES ASSUME Init PROVE IInv
  OBVIOUS
<1>1. TypeOK
  BY InitTypeOK
<1>2. GuardHeld
  BY DEF Init, GuardHeld
<1>3. Owned
  BY DEF Init, Owned, OperationsOwned, TaskTagged
<1>4. RelayTimed
  BY DEF Init, RelayTimed
<1>5. NoLostUpdate
  BY DEF Init, NoLostUpdate, Settling
<1> QED
  BY <1>1, <1>2, <1>3, <1>4, <1>5 DEF IInv

THEOREM StepIInv == IInv /\ [Next]_vars => IInv'
<1> SUFFICES ASSUME IInv, [Next]_vars PROVE IInv'
  OBVIOUS
<1>1. CASE UNCHANGED vars
  BY <1>1 DEF vars, u4Vars, ledVars, mainVars, isrVars, poolVars, core1Vars, IInv,
       TypeOK, GuardHeld, Owned, OperationsOwned, TaskTagged, RelayTimed,
       NoLostUpdate, Settling, IsWrite, Wire
<1>2. CASE Next
  <2>1. TypeOK'
    BY <1>2, MainTypeOK, TickTypeOK, U3TypeOK, Core1TypeOK, FaultTypeOK
       DEF Next, IInv, Owned
  <2> QED
    BY <1>2, <2>1, GuardHeldStep, OwnedStep, RelayTimedStep, NoLostStep DEF IInv
<1> QED
  BY <1>1, <1>2

THEOREM Invariance == Spec => []IInv
BY InitIInv, StepIInv, PTL DEF Spec

\* Every variable keeps its type.
THEOREM TypeCorrect == Spec => []TypeOK
<1>1. IInv => TypeOK
  BY DEF IInv
<1> QED
  BY <1>1, Invariance, PTL

\* The main loop, U4_tick and core 1 never change U4x at the same time.
THEOREM MutualExclusion == Spec => []GuardHeld
<1>1. IInv => GuardHeld
  BY DEF IInv
<1> QED
  BY <1>1, Invariance, PTL

\* No door stays unlocked without a timer that will lock it.
THEOREM RelaysTimed == Spec => []RelayTimed
<1>1. IInv => RelayTimed
  BY DEF IInv
<1> QED
  BY <1>1, Invariance, PTL

\* Without faults every change of the outputs reaches the device, or is due to.
THEOREM NothingLost == Spec => []NoLostUpdate
<1>1. IInv => NoLostUpdate
  BY DEF IInv
<1> QED
  BY <1>1, Invariance, PTL

\* No operation of the mempool is leaked, freed twice or recycled in use.
THEOREM PoolSound == Spec => [](OperationsOwned /\ TaskTagged)
<1>1. IInv => OperationsOwned /\ TaskTagged
  BY DEF IInv, Owned
<1> QED
  BY <1>1, Invariance, PTL

-----------------------------------------------------------------------------
(***************************************************************************)
(* The operation mempool.  Its chunks are in the queue or with core 1, so  *)
(* it is empty only when all of them but one at most are in the queue.     *)
(***************************************************************************)
LEMMA EmptyWhenBehind ==
  ASSUME IsFiniteSet(Chunks), TypeOK, OperationsOwned, Free = {}
  PROVE  Cardinality(Behind) + 1 >= Cardinality(Chunks)
<1> DEFINE held == {queue[i] : i \in Behind}
<1>1. queue \in Seq(Closures) /\ DOMAIN queue = 1..Len(queue) /\ Len(queue) \in Nat
  BY LenProperties DEF TypeOK
<1>2. IsFiniteSet(Behind)
  <2>1. Behind \subseteq 1..Len(queue)
    BY <1>1 DEF Behind
  <2>2. IsFiniteSet(1..Len(queue))
    BY <1>1, FS_Interval
  <2> QED
    BY <2>1, <2>2, FS_Subset
<1>3. IsFiniteSet(held) /\ Cardinality(held) <= Cardinality(Behind)
  <2>1. [i \in Behind |-> queue[i]] \in Surjection(Behind, held)
    BY DEF Surjection
  <2> HIDE DEF held
  <2> QED
    BY <1>2, <2>1, FS_Surjection
<1>4. Chunks \subseteq held \cup {task}
  BY DEF Free, OperationsOwned, Behind
<1>5. IsFiniteSet(held \cup {task}) /\ Cardinality(held \cup {task}) <= Cardinality(held) + 1
  <2> HIDE DEF held
  <2>1. Cardinality(held) \in Nat
    BY <1>3, FS_CardinalityType
  <2>2. /\ IsFiniteSet(held \cup {task})
        /\ Cardinality(held \cup {task}) =
             IF task \in held THEN Cardinality(held) ELSE Cardinality(held) + 1
    BY <1>3, FS_AddElement
  <2> QED
    BY <2>1, <2>2
<1>6. Cardinality(Chunks) <= Cardinality(held \cup {task})
  BY <1>4, <1>5, FS_Subset
<1>7. /\ Cardinality(Behind) \in Nat /\ Cardinality(held) \in Nat
      /\ Cardinality(Chunks) \in Nat /\ Cardinality(held \cup {task}) \in Nat
  BY <1>2, <1>3, <1>5, FS_CardinalityType
<1> QED
  BY <1>3, <1>5, <1>6, <1>7

\* Whatever the sizes of pool and queue, and through all refusals, faults and
\* resets, operation_alloc panics only when core 1 is that far behind.
THEOREM PanicsWhenBehind == ASSUME IsFiniteSet(Chunks) PROVE Spec => PanicsBehind
<1>1. IInv /\ [Next]_vars =>
        [isr # "panic" /\ isr' = "panic" => Cardinality(Behind) + 1 >= Cardinality(Chunks)]_vars
  <2> SUFFICES ASSUME IInv, Next, isr # "panic", isr' = "panic"
               PROVE  Cardinality(Behind) + 1 >= Cardinality(Chunks)
    OBVIOUS
  <2>1. isr' # isr
    OBVIOUS
  <2>2. CASE U4_tick
    <3>1. Free = {}
      BY <2>1, <2>2 DEF U4_tick, TickSkip, TickEnter, TickHealth, TickTimers, TickWrite, Panic
    <3> QED
      BY <3>1, EmptyWhenBehind DEF IInv, Owned
  <2>3. CASE Reboot
    BY <2>3 DEF Reboot
  <2>4. CASE Main \/ U3_on_update \/ Core1 \/ Glitch
    BY <2>1, <2>4 DEF Main, Body, Enter, U4_set_relay, U4_clear_relay, U4_LED,
         U4_blink_LED, Leave, U3_on_update, Glitch, Core1, I2C0_run, U3_read,
         WriteOutputs, WriteReadback, WriteFinish, HealthReadback, RepairEnter,
         RepairSkip, RepairExit, core0Vars, isrVars
  <2> QED
    BY <2>2, <2>3, <2>4 DEF Next
<1> QED
  BY <1>1, Invariance, PTL DEF Spec, PanicsBehind
-----------------------------------------------------------------------------
(***************************************************************************)
(* Events.  EventsAgree is strengthened to every moment: while a write is  *)
(* being executed U4x.state lags the device, but then what was read back   *)
(* (and is about to be reported) does not.                                 *)
(***************************************************************************)
Told == announced = state \/ syserr \cap {"queue", "restart"} # {}
ReadBack ==
  faults = 0 =>
    /\ core1 \notin {"readback", "finish"} => state = device \cap Relays
    /\ core1 = "finish" => seen = device

LEMMA ReportedChanges ==
  ASSUME NEW old, NEW new, NEW changed,
         changed = (old \ new) \cup (new \ old)
  PROVE  (old \ changed) \cup (changed \cap new) = new
  OBVIOUS

LEMMA ToldStep == Told /\ Next => Told'
<1> SUFFICES ASSUME Told, Next PROVE Told'
  OBVIOUS
<1>1. CASE WriteFinish
  <2> DEFINE changed == (state \ state') \cup (state' \ state)
  <2>1. CASE /\ Healthy /\ UNCHANGED syserr
             /\ announced' = (announced \ changed) \cup (changed \cap state')
    <3>1. CASE announced = state
      <4>1. announced' = state'
        BY <2>1, <3>1, ReportedChanges
      <4> QED
        BY <4>1 DEF Told
    <3>2. CASE syserr \cap {"queue", "restart"} # {}
      BY <2>1, <3>2 DEF Told
    <3> QED
      BY <3>1, <3>2 DEF Told
  <2>2. CASE "queue" \in syserr'
    BY <2>2 DEF Told
  <2> QED
    BY <1>1, <2>1, <2>2 DEF WriteFinish
<1>2. CASE Reboot
  BY <1>2 DEF Reboot, Told
<1>3. CASE UNCHANGED <<announced, state>> /\ syserr \subseteq syserr'
  BY <1>3 DEF Told
<1> USE DEF core1Vars, core0Vars, isrVars, poolVars
<1>4. CASE Main
  BY <1>3, <1>4 DEF Main, Body, Enter, U4_set_relay, U4_clear_relay, U4_LED,
       U4_blink_LED, Leave
<1>5. CASE U4_tick \/ U3_on_update
  BY <1>3, <1>5 DEF U4_tick, TickSkip, TickEnter, TickHealth, TickTimers, TickWrite,
       U3_on_update, Queued, Refused, Panic
<1>6. CASE Glitch \/ I2C0_run \/ U3_read \/ WriteOutputs \/ WriteReadback
           \/ HealthReadback \/ RepairEnter \/ RepairSkip \/ RepairExit
  BY <1>3, <1>6 DEF Glitch, I2C0_run, U3_read, WriteOutputs, WriteReadback,
       HealthReadback, RepairEnter, RepairSkip, RepairExit
<1> QED
  BY <1>1, <1>2, <1>4, <1>5, <1>6 DEF Next, Core1

LEMMA ReadBackStep == TypeOK /\ TaskTagged /\ ReadBack /\ Next => ReadBack'
<1> SUFFICES ASSUME TypeOK, TaskTagged, ReadBack, Next, faults' = 0 PROVE ReadBack'
  BY DEF ReadBack
<1> USE DEF core0Vars, isrVars, poolVars, core1Vars
<1>1. ~Fault /\ faults = 0
  <2>1. faults \in Nat
    BY DEF TypeOK
  <2>2. ~Fault
    BY <2>1 DEF Fault
  <2>3. faults' = faults
    BY <2>2 DEF Next, Main, Body, Enter, U4_set_relay, U4_clear_relay, U4_LED,
         U4_blink_LED, Leave, U4_tick, TickSkip, TickEnter, TickHealth, TickTimers,
         TickWrite, U3_on_update, Core1, I2C0_run, U3_read, WriteOutputs,
         WriteReadback, WriteFinish, HealthReadback, RepairEnter, RepairSkip,
         RepairExit, Glitch, Reboot, Healthy
  <2> QED
    BY <2>2, <2>3
<1>2. CASE UNCHANGED <<core1, state, device, seen>>
  BY <1>1, <1>2 DEF ReadBack
<1>3. CASE Main
  BY <1>2, <1>3 DEF Main, Body, Enter, U4_set_relay, U4_clear_relay, U4_LED,
       U4_blink_LED, Leave
<1>4. CASE U4_tick \/ U3_on_update
  BY <1>2, <1>4 DEF U4_tick, TickSkip, TickEnter, TickHealth, TickTimers, TickWrite,
       U3_on_update
<1>5. CASE I2C0_run
  <2>1. core1 = "idle" /\ core1' \notin {"readback", "finish"}
    <3>1. CASE task' = U3Read
      BY <1>5, <3>1 DEF I2C0_run
    <3>2. CASE task' # U3Read
      <4>1. task' \in Chunks
        BY <1>5, <3>2, RemoveQueue DEF I2C0_run, Closures
      <4>2. heap[task'].tag \in {"write", "healthcheck", "free"}
        BY <4>1 DEF TypeOK, Operation, Unallocated
      <4> QED
        BY <1>5, <3>2, <4>2 DEF I2C0_run
    <3> QED
      BY <3>1, <3>2
  <2> QED
    BY <1>1, <1>5, <2>1 DEF I2C0_run, ReadBack
<1>6. CASE WriteOutputs
  BY <1>1, <1>6 DEF WriteOutputs, ReadBack
<1>7. CASE WriteReadback
  BY <1>1, <1>7 DEF WriteReadback, ReadBack
<1>8. CASE WriteFinish
  BY <1>1, <1>8 DEF WriteFinish, ReadBack, Idle
<1>9. CASE U3_read \/ HealthReadback \/ RepairEnter \/ RepairSkip \/ RepairExit
  BY <1>1, <1>9 DEF U3_read, HealthReadback, RepairEnter, RepairSkip, RepairExit,
       ReadBack, Idle
<1>10. CASE Glitch
  BY <1>1, <1>10 DEF Glitch
<1>11. CASE Reboot
  <2>1. Wire({}) \cap Relays = {}
    BY DEF Wire
  <2> QED
    BY <1>11, <2>1 DEF Reboot, Idle, ReadBack
<1> QED
  BY <1>3, <1>4, <1>5, <1>6, <1>7, <1>8, <1>9, <1>10, <1>11 DEF Next, Core1

\* The events sent agree with U4x.state, or else ERR_QUEUE or ERR_RESTART was
\* raised, and without faults they agree with the relays between two tasks.
THEOREM EventsTruthful == Spec => []EventsAgree
<1>1. Init => Told /\ ReadBack
  BY DEF Init, Told, ReadBack, Wire
<1>2. IInv /\ Told /\ ReadBack /\ [Next]_vars => (Told /\ ReadBack)'
  <2> SUFFICES ASSUME IInv, Told, ReadBack, [Next]_vars PROVE (Told /\ ReadBack)'
    OBVIOUS
  <2>1. CASE Next
    BY <2>1, ToldStep, ReadBackStep DEF IInv, Owned
  <2>2. CASE UNCHANGED vars
    BY <2>2 DEF vars, core1Vars, Told, ReadBack
  <2> QED
    BY <2>1, <2>2
<1>3. Told /\ ReadBack => EventsAgree
  BY DEF Told, ReadBack, EventsAgree
<1> QED
  BY <1>1, <1>2, <1>3, Invariance, PTL DEF Spec

-----------------------------------------------------------------------------
(***************************************************************************)
(* Blinks.  An LED goes dark with no blinks owed because blinks are only   *)
(* ever owed together with an interval to time them with.                  *)
(***************************************************************************)
Paced == \A l \in LEDs : blinks[l] > 0 => interval[l] > 0

LEMMA PacedStep == TypeOK /\ GuardHeld /\ Paced /\ [Next]_vars => Paced'
<1> SUFFICES ASSUME TypeOK, GuardHeld, Paced, [Next]_vars PROVE Paced'
  OBVIOUS
<1> USE DEF u4Vars, ledVars, core0Vars
<1>1. CASE UNCHANGED <<blinks, interval>>
  BY <1>1 DEF Paced
<1>2. ASSUME NEW l \in LEDs, U4_blink_LED(l) PROVE Paced'
  <2>1. interval' = [interval EXCEPT ![l] = cmd[3][2]] /\ cmd[3][2] \in Nat \ {0}
    BY <1>2, BlinkParameters DEF U4_blink_LED
  <2>2. \A m \in LEDs : m # l => blinks'[m] = blinks[m]
    BY <1>2 DEF U4_blink_LED, TypeOK
  <2> QED
    BY <2>1, <2>2 DEF Paced, TypeOK
<1>3. CASE TickTimers
  <2>1. \A l \in LEDs : blinks'[l] <= blinks[l] /\ interval' = interval
    BY <1>3 DEF TickTimers, TypeOK
  <2>2. \A l \in LEDs : blinks[l] \in Nat /\ blinks'[l] \in Int
    BY <1>3 DEF TickTimers, TypeOK
  <2> QED
    BY <2>1, <2>2 DEF Paced
<1>4. CASE Reboot
  BY <1>4 DEF Reboot, Paced
<1>5. CASE \/ \E c \in Commands : Enter(c)
           \/ \E r \in Relays : U4_set_relay(r) \/ U4_clear_relay(r)
           \/ \E l \in LEDs : U4_LED(l)
  BY <1>1, <1>5 DEF Enter, U4_set_relay, U4_clear_relay, U4_LED
<1>6. CASE TickSkip \/ TickEnter \/ TickHealth \/ TickWrite \/ U3_on_update
  BY <1>1, <1>6 DEF TickSkip, TickEnter, TickHealth, TickWrite, U3_on_update, Panic
<1>7. CASE Core1 \/ Glitch
  BY <1>1, <1>7 DEF Core1, I2C0_run, U3_read, WriteOutputs, WriteReadback,
       WriteFinish, HealthReadback, RepairEnter, RepairSkip, RepairExit, Glitch
<1>8. CASE UNCHANGED vars
  BY <1>1, <1>8 DEF vars
<1> QED
  BY <1>2, <1>3, <1>4, <1>5, <1>6, <1>7, <1>8 DEF Next, Main, Body, U4_tick

LEMMA DarkStep ==
  ASSUME TypeOK, Paced, TickTimers, NEW l \in LEDs,
         ledTimer[l] > 0, ledTimer'[l] = 0
  PROVE  l \notin outputs' /\ blinks'[l] = 0
<1>1. l \notin Blinking
  BY DEF TickTimers, TypeOK, Blinking
<1>2. ledTimer[l] = 1
  BY <1>1 DEF TickTimers, TypeOK
<1>3. l \in Expired(ledTimer)
  BY <1>2 DEF Expired, TypeOK
<1>4. blinks[l] = 0
  BY <1>1, <1>3 DEF Blinking, Paced, TypeOK
<1> QED
  BY <1>1, <1>3, <1>4 DEF TickTimers, Dark

\* A blink that runs out leaves its LED dark and nothing owed, always.
THEOREM BlinksEnd == Spec => BlinkEndsDark
<1>1. Init => Paced
  BY DEF Init, Paced
<1>2. IInv /\ Paced /\ [Next]_vars => Paced'
  BY PacedStep DEF IInv
<1>3. IInv /\ Paced /\ [Next]_vars =>
        [\A l \in LEDs : TickTimers /\ ledTimer[l] > 0 /\ ledTimer'[l] = 0
           => l \notin outputs' /\ blinks'[l] = 0]_vars
  BY DarkStep DEF IInv
<1> QED
  BY <1>1, <1>2, <1>3, Invariance, PTL DEF Spec, BlinkEndsDark
-----------------------------------------------------------------------------
(***************************************************************************)
(* The safety part of U4 implementing DoorLocks: the initial states map to *)
(* initial states, and every step of U4 maps to a step of DoorLocks or     *)
(* changes none of its variables.                                          *)
(***************************************************************************)
Loads == SUBSET SUBSET Relays    \* what an element of the pipe can be

-----------------------------------------------------------------------------
(***************************************************************************)
(* The sequences Transit and Pipe.                                         *)
(***************************************************************************)
LEMMA Prepended ==
  ASSUME NEW q \in Seq(Closures), NEW t \in Closures
  PROVE  /\ <<t>> \o q \in Seq(Closures) /\ Len(<<t>> \o q) = Len(q) + 1
         /\ (<<t>> \o q)[1] = t
         /\ \A i \in 1..Len(q) : (<<t>> \o q)[i + 1] = q[i]
         /\ <<t>> \o q # << >>
         /\ Head(<<t>> \o q) = t /\ Tail(<<t>> \o q) = q
<1>1. <<t>> \in Seq(Closures) /\ Len(<<t>>) = 1 /\ <<t>>[1] = t
  OBVIOUS
<1>2. Len(q) \in Nat
  BY LenProperties
<1> DEFINE p == <<t>> \o q
<1>3. /\ p \in Seq(Closures) /\ Len(p) = Len(q) + 1
      /\ \A i \in 1..Len(q) + 1 : p[i] = IF i <= 1 THEN t ELSE q[i - 1]
  BY <1>1, <1>2, ConcatProperties
<1> HIDE DEF p
<1>4. p # << >>
  BY <1>2, <1>3, EmptySeq
<1>5. p[1] = t /\ \A i \in 1..Len(q) : p[i + 1] = q[i]
  BY <1>2, <1>3
<1>6. Head(p) = t
  BY <1>3, <1>4, <1>5
<1>7. Tail(p) \in Seq(Closures) /\ Len(Tail(p)) = Len(q)
      /\ \A i \in 1..Len(q) : Tail(p)[i] = q[i]
  BY <1>2, <1>3, <1>4, <1>5, HeadTailProperties
<1>8. Tail(p) = q
  BY <1>7, SeqEqual
<1> QED
  BY <1>3, <1>4, <1>5, <1>6, <1>8 DEF p

LEMMA TransitType ==
  ASSUME TypeOK, TaskTagged
  PROVE  /\ Transit \in Seq(Closures) /\ Len(Transit) \in Nat
         /\ DOMAIN Transit = 1..Len(Transit)
<1>1. queue \in Seq(Closures)
  BY DEF TypeOK
<1>2. core1 = "write" => task \in Closures
  BY DEF TaskTagged, Closures
<1>3. Transit \in Seq(Closures)
  BY <1>1, <1>2, Prepended DEF Transit
<1> QED
  BY <1>3, LenProperties

LEMMA SnapshotType == \A x : Snapshot(x) \in Loads
  BY DEF Snapshot, Loads

LEMMA PipeType ==
  ASSUME TypeOK, TaskTagged
  PROVE  /\ Pipe \in Seq(Loads) /\ Len(Pipe) = Len(Transit)
         /\ DOMAIN Pipe = 1..Len(Transit)
         /\ \A i \in 1..Len(Transit) : Pipe[i] = Snapshot(Transit[i])
<1>1. Len(Transit) \in Nat /\ DOMAIN Transit = 1..Len(Transit)
  BY TransitType
<1>2. Pipe \in [1..Len(Transit) -> Loads]
  BY <1>1, SnapshotType DEF Pipe
<1>3. Pipe \in Seq(Loads)
  BY <1>1, <1>2, SeqDef
<1>4. DOMAIN Pipe = 1..Len(Transit) /\ DOMAIN Pipe = 1..Len(Pipe) /\ Len(Pipe) \in Nat
  BY <1>2, <1>3, LenProperties
<1> QED
  BY <1>1, <1>3, <1>4 DEF Pipe

\* A step that leaves the closures in transit and their operations alone.
LEMMA PipeSame ==
  ASSUME Transit' = Transit,
         \A i \in DOMAIN Transit : Transit[i] \in Chunks => heap'[Transit[i]] = heap[Transit[i]]
  PROVE  Pipe' = Pipe
<1>1. \A i \in DOMAIN Transit : Snapshot(Transit[i])' = Snapshot(Transit[i])
  BY DEF Snapshot, IsWrite
<1> QED
  BY <1>1 DEF Pipe

\* A step in which a closure joins the queue.
LEMMA PipeAppend ==
  ASSUME TypeOK, TaskTagged, NEW x \in Closures, queue' = Append(queue, x),
         UNCHANGED <<core1, task>>,
         \A i \in DOMAIN Transit : Transit[i] \in Chunks => heap'[Transit[i]] = heap[Transit[i]]
  PROVE  Pipe' = Append(Pipe, Snapshot(x)')
<1>1. queue \in Seq(Closures) /\ queue' \in Seq(Closures) /\ Len(queue) \in Nat
      /\ Len(queue') = Len(queue) + 1
  BY AppendQueue DEF TypeOK
<1>2. \A i \in 1..Len(queue') : queue'[i] = IF i <= Len(queue) THEN queue[i] ELSE x
  BY <1>1, AppendQueue
<1>3. Transit \in Seq(Closures) /\ Len(Transit) \in Nat /\ DOMAIN Transit = 1..Len(Transit)
  BY TransitType
<1> PICK n : n = Len(Transit)
  OBVIOUS
<1>4. Transit' = Append(Transit, x)
  <2>1. CASE core1 # "write"
    BY <2>1 DEF Transit
  <2>2. CASE core1 = "write"
    <3>1. task \in Closures
      BY <2>2 DEF TaskTagged, Closures
    <3>2. /\ Transit' = <<task>> \o queue' /\ Transit' \in Seq(Closures)
          /\ Len(Transit') = Len(queue) + 2 /\ Transit'[1] = task
          /\ \A i \in 1..Len(queue') : Transit'[i + 1] = queue'[i]
      BY <1>1, <2>2, <3>1, Prepended DEF Transit
    <3>3. /\ Len(Transit) = Len(queue) + 1 /\ Transit[1] = task
          /\ \A i \in 1..Len(queue) : /\ Transit[i + 1] = queue[i]
                                       /\ i + 1 \in 1..Len(Transit)
      BY <1>1, <2>2, <3>1, Prepended DEF Transit
    <3>4. /\ Append(Transit, x) \in Seq(Closures)
          /\ Len(Append(Transit, x)) = Len(Transit) + 1
          /\ \A i \in 1..Len(Transit) : Append(Transit, x)[i] = Transit[i]
          /\ Append(Transit, x)[Len(Transit) + 1] = x
      BY <1>3, AppendProperties
    <3>5. ASSUME NEW i \in 1..Len(Transit') PROVE Transit'[i] = Append(Transit, x)[i]
      <4>1. CASE i = 1
        <5>1. 1 \in 1..Len(Transit)
          BY <1>1, <3>3
        <5> QED
          BY <3>2, <3>3, <3>4, <4>1, <5>1
      <4>2. CASE i # 1
        <5>1. PICK j \in 1..Len(queue') : i = j + 1
          BY <1>1, <3>2, <4>2
        <5>2. Transit'[i] = queue'[j]
          BY <3>2, <5>1
        <5>3. CASE j <= Len(queue)
          BY <1>1, <1>2, <3>3, <3>4, <5>1, <5>2, <5>3
        <5>4. CASE j = Len(queue) + 1
          BY <1>1, <1>2, <3>3, <3>4, <5>1, <5>2, <5>4
        <5>5. j <= Len(queue) \/ j = Len(queue) + 1
          <6>1. j \in 1..Len(queue) + 1
            BY <1>1, <5>1
          <6> QED
            BY <1>1, <6>1
        <5> QED
          BY <5>3, <5>4, <5>5
      <4> QED
        BY <4>1, <4>2
    <3> QED
      BY <1>1, <3>2, <3>3, <3>4, <3>5, SeqEqual
  <2> QED
    BY <2>1, <2>2
<1>5. /\ Transit' \in Seq(Closures) /\ Len(Transit') = n + 1 /\ DOMAIN Transit' = 1..n + 1
      /\ \A i \in 1..n : Transit'[i] = Transit[i]
      /\ Transit'[n + 1] = x
  BY <1>3, <1>4, AppendProperties, LenProperties
<1>6. Pipe \in Seq(Loads) /\ Len(Pipe) = n /\ \A i \in 1..n : Pipe[i] = Snapshot(Transit[i])
  BY PipeType
<1>7. \A i \in 1..n : Snapshot(Transit[i])' = Pipe[i]
  BY <1>3, <1>5, <1>6 DEF Snapshot, IsWrite
<1>8. Snapshot(x)' \in Loads
  BY DEF Snapshot, Loads
<1>9. /\ Append(Pipe, Snapshot(x)') \in Seq(Loads)
      /\ Len(Append(Pipe, Snapshot(x)')) = n + 1
      /\ \A i \in 1..n : Append(Pipe, Snapshot(x)')[i] = Pipe[i]
      /\ Append(Pipe, Snapshot(x)')[n + 1] = Snapshot(x)'
  BY <1>6, <1>8, AppendProperties
<1>10. /\ DOMAIN Pipe' = 1..n + 1 /\ Pipe' = [i \in 1..n + 1 |-> Snapshot(Transit[i])']
  BY <1>5 DEF Pipe
<1>11. \A i \in 1..n + 1 : Pipe'[i] = Append(Pipe, Snapshot(x)')[i]
  <2>1. \A i \in 1..n : Pipe'[i] = Pipe[i]
    BY <1>3, <1>7, <1>10
  <2>2. Pipe'[n + 1] = Snapshot(x)'
    <3>1. n + 1 \in 1..n + 1
      BY <1>3
    <3>2. Snapshot(Transit[n + 1])' = Snapshot(x)'
      BY <1>5 DEF Snapshot, IsWrite
    <3> QED
      BY <1>10, <3>1, <3>2
  <2> QED
    BY <1>3, <1>9, <2>1, <2>2
<1>12. Pipe' \in Seq(Loads) /\ Len(Pipe') = n + 1
  <2>1. \A i \in 1..n + 1 : Snapshot(Transit[i])' \in Loads
    BY DEF Snapshot, Loads
  <2>2. Pipe' \in [1..n + 1 -> Loads]
    BY <1>10, <2>1
  <2>3. Pipe' \in Seq(Loads)
    BY <1>3, <2>2, SeqDef
  <2> QED
    BY <1>3, <1>10, <2>3, LenProperties
<1> QED
  BY <1>9, <1>11, <1>12, SeqEqual
\* A step in which the oldest closure in transit is done with.
LEMMA PipeTail ==
  ASSUME TypeOK, TaskTagged, Transit # << >>, Transit' = Tail(Transit), heap' = heap
  PROVE  /\ Pipe # << >> /\ Pipe' = Tail(Pipe)
         /\ Head(Pipe) = Snapshot(Transit[1])
<1> PICK n : n = Len(Transit)
  OBVIOUS
<1>1. Transit \in Seq(Closures) /\ n \in Nat \ {0}
  BY TransitType, EmptySeq
<1>2. /\ Transit' \in Seq(Closures) /\ Len(Transit') = n - 1 /\ DOMAIN Transit' = 1..n - 1
      /\ \A i \in 1..n - 1 : Transit'[i] = Transit[i + 1]
  BY <1>1, HeadTailProperties, LenProperties
<1>3. Pipe \in Seq(Loads) /\ Len(Pipe) = n /\ \A i \in 1..n : Pipe[i] = Snapshot(Transit[i])
  BY PipeType
<1>4. Pipe # << >> /\ Head(Pipe) = Snapshot(Transit[1])
  BY <1>1, <1>3, EmptySeq
<1>5. /\ Tail(Pipe) \in Seq(Loads) /\ Len(Tail(Pipe)) = n - 1
      /\ \A i \in 1..n - 1 : Tail(Pipe)[i] = Pipe[i + 1]
  BY <1>3, <1>4, HeadTailProperties
<1>6. ASSUME NEW i \in 1..n - 1 PROVE Snapshot(Transit[i])' = Pipe[i + 1]
  <2>1. Transit'[i] = Transit[i + 1] /\ i + 1 \in 1..n
    BY <1>1, <1>2
  <2>2. Snapshot(Transit[i])' = Snapshot(Transit[i + 1])
    BY <2>1 DEF Snapshot, IsWrite
  <2> QED
    BY <1>3, <2>1, <2>2
<1>7. Pipe' = [i \in 1..n - 1 |-> Snapshot(Transit[i])']
  BY <1>2 DEF Pipe
<1>8. Pipe' \in Seq(Loads) /\ Len(Pipe') = n - 1
  <2>1. \A i \in 1..n - 1 : Snapshot(Transit[i])' \in Loads
    BY DEF Snapshot, Loads
  <2>2. Pipe' \in [1..n - 1 -> Loads] /\ n - 1 \in Nat
    BY <1>1, <1>7, <2>1
  <2>3. Pipe' \in Seq(Loads)
    BY <2>2, SeqDef
  <2> QED
    BY <1>7, <2>2, <2>3, LenProperties
<1>9. \A i \in 1..n - 1 : Pipe'[i] = Tail(Pipe)[i]
  BY <1>5, <1>6, <1>7
<1>10. Pipe' = Tail(Pipe)
  BY <1>5, <1>8, <1>9, SeqEqual
<1> QED
  BY <1>4, <1>10

-----------------------------------------------------------------------------
(***************************************************************************)
(* What the steps of U4 do to the pipe.                                    *)
(***************************************************************************)
\* Operations are freed only when core 1 has left "write", so what it frees is
\* not in transit; everything else leaves the heap and the queue alone.
LEMMA PipeKept ==
  ASSUME TypeOK, Owned, queue' = queue, core1' = "write" <=> core1 = "write",
         core1 = "write" => task' = task,
         \/ heap' = heap
         \/ core1 # "write" /\ task \in Chunks /\ operation_free(task)
  PROVE  Pipe' = Pipe
<1>1. Transit' = Transit
  BY DEF Transit
<1>2. CASE heap' = heap
  BY <1>1, <1>2, PipeSame
<1>3. CASE core1 # "write" /\ task \in Chunks /\ operation_free(task)
  <2>1. \A i \in DOMAIN queue : queue[i] # task
    BY <1>3 DEF Owned, OperationsOwned
  <2>2. \A c \in Chunks \ {task} : heap'[c] = heap[c]
    BY <1>3 DEF operation_free, TypeOK
  <2> QED
    BY <1>1, <1>3, <2>1, <2>2, PipeSame DEF Transit
<1> QED
  BY <1>2, <1>3

LEMMA PipeQueued ==
  ASSUME TypeOK, Owned, NEW tag \in {"write", "healthcheck"}, Queued(tag),
         UNCHANGED <<core1, task>>
  PROVE  Pipe' = Append(Pipe, IF tag = "write" THEN {outputs \cap Relays} ELSE {})
<1>1. PICK c \in Free :
        /\ heap' = [heap EXCEPT ![c] = [tag |-> tag, outputs |-> Wire(outputs)]]
        /\ queue' = Append(queue, c)
  BY DEF Queued
<1>2. c \in Chunks /\ heap[c] = Unallocated /\ c \in Closures
  BY DEF Free, Closures
<1>3. c # task /\ \A i \in DOMAIN queue : queue[i] # c
  BY <1>2 DEF Owned, OperationsOwned
<1>4. \A i \in DOMAIN Transit : Transit[i] # c
  <2>1. CASE core1 # "write"
    BY <1>3, <2>1 DEF Transit
  <2>2. CASE core1 = "write"
    <3>1. task \in Closures /\ queue \in Seq(Closures)
      BY <2>2 DEF Owned, TaskTagged, Closures, TypeOK
    <3>2. /\ Len(Transit) = Len(queue) + 1 /\ Transit[1] = task
          /\ \A i \in 1..Len(queue) : Transit[i + 1] = queue[i]
          /\ Len(queue) \in Nat /\ DOMAIN queue = 1..Len(queue)
      BY <2>2, <3>1, Prepended, LenProperties DEF Transit
    <3>3. DOMAIN Transit = 1..Len(queue) + 1
      BY <3>2, TransitType DEF Owned
    <3> SUFFICES ASSUME NEW i \in DOMAIN Transit PROVE Transit[i] # c
      OBVIOUS
    <3>4. CASE i = 1
      BY <1>3, <3>2, <3>4
    <3>5. CASE i # 1
      <4>1. i - 1 \in 1..Len(queue) /\ Transit[(i - 1) + 1] = queue[i - 1] /\ (i - 1) + 1 = i
        BY <3>2, <3>3, <3>5
      <4> QED
        BY <1>3, <3>2, <4>1
    <3> QED
      BY <3>4, <3>5
  <2> QED
    BY <2>1, <2>2
<1>5. \A d \in Chunks \ {c} : heap'[d] = heap[d]
  BY <1>1 DEF TypeOK
<1>6. Pipe' = Append(Pipe, Snapshot(c)')
  BY <1>1, <1>2, <1>4, <1>5, PipeAppend DEF Owned
<1>7. heap'[c] = [tag |-> tag, outputs |-> Wire(outputs)]
  BY <1>1, <1>2 DEF TypeOK
<1>8. Wire(outputs) \cap Relays = outputs \cap Relays
  BY DEF Wire
<1>9. Snapshot(c)' = IF tag = "write" THEN {outputs \cap Relays} ELSE {}
  <2>1. heap'[c].outputs = Wire(outputs) /\ heap'[c].tag = tag
    BY <1>7
  <2>2. IsWrite(c)' <=> tag = "write"
    BY <1>2, <2>1 DEF IsWrite
  <2>3. Snapshot(c)' = IF IsWrite(c)' THEN {heap'[c].outputs \cap Relays} ELSE {}
    BY DEF Snapshot, IsWrite
  <2> QED
    BY <1>8, <2>1, <2>2, <2>3
<1> QED
  BY <1>6, <1>9

\* Core 1 takes a closure: a write stays in transit, anything else is skipped.
LEMMA PipeRun ==
  ASSUME TypeOK, Owned, I2C0_run
  PROVE  \/ Pipe' = Pipe
         \/ Pipe # << >> /\ Head(Pipe) = {} /\ Pipe' = Tail(Pipe)
<1>1. /\ Transit = queue /\ queue # << >> /\ heap' = heap
      /\ queue' = Tail(queue) /\ task' = Head(queue)
  BY DEF I2C0_run, Transit
<1>2. queue \in Seq(Closures) /\ task' \in Closures /\ task' = queue[1]
  BY <1>1, RemoveQueue DEF TypeOK
<1>3. core1' = "write" <=> IsWrite(queue[1])
  <2>1. CASE task' = U3Read
    BY <1>2, <2>1 DEF I2C0_run, IsWrite
  <2>2. CASE task' \in Chunks
    BY <1>2, <2>2 DEF I2C0_run, IsWrite
  <2> QED
    BY <1>2, <2>1, <2>2 DEF Closures
<1>4. CASE core1' = "write"
  <2>1. Transit' = <<task'>> \o Tail(queue)
    BY <1>1, <1>4 DEF Transit
  <2>2. <<task'>> \o Tail(queue) = queue
    <3>1. /\ Tail(queue) \in Seq(Closures) /\ Len(Tail(queue)) = Len(queue) - 1
          /\ Len(queue) \in Nat \ {0}
          /\ \A i \in 1..Len(queue) - 1 : Tail(queue)[i] = queue[i + 1]
      BY <1>1, <1>2, HeadTailProperties, EmptySeq
    <3> DEFINE p == <<task'>> \o Tail(queue)
    <3>2. /\ p \in Seq(Closures) /\ Len(p) = Len(queue) /\ p[1] = task'
          /\ \A i \in 1..Len(queue) - 1 : p[i + 1] = queue[i + 1]
      BY <1>2, <3>1, Prepended
    <3> HIDE DEF p
    <3>3. ASSUME NEW i \in 1..Len(queue) PROVE p[i] = queue[i]
      <4>1. CASE i = 1
        BY <1>2, <3>2, <4>1
      <4>2. CASE i # 1
        <5>1. i - 1 \in 1..Len(queue) - 1 /\ (i - 1) + 1 = i
          BY <3>1, <4>2
        <5> QED
          BY <3>2, <5>1
      <4> QED
        BY <4>1, <4>2
    <3>4. p = queue
      BY <1>2, <3>2, <3>3, SeqEqual
    <3> QED
      BY <3>4 DEF p
  <2> QED
    BY <1>1, <2>1, <2>2, PipeSame
<1>5. CASE core1' # "write"
  <2>1. Transit' = Tail(Transit)
    BY <1>1, <1>5 DEF Transit
  <2>2. Snapshot(Transit[1]) = {}
    BY <1>1, <1>3, <1>5 DEF Snapshot
  <2> QED
    BY <1>1, <2>1, <2>2, PipeTail DEF Owned
<1> QED
  BY <1>4, <1>5

\* Core 1 transfers a write, or fails to.
LEMMA PipeWritten ==
  ASSUME TypeOK, Owned, WriteOutputs
  PROVE  /\ Pipe # << >> /\ Pipe' = Tail(Pipe)
         /\ Head(Pipe) = {heap[task].outputs \cap Relays}
<1>1. core1 = "write" /\ core1' # "write" /\ queue' = queue /\ heap' = heap
  BY DEF WriteOutputs, poolVars
<1>2. task \in Chunks /\ IsWrite(task) /\ task \in Closures /\ queue \in Seq(Closures)
  BY <1>1 DEF Owned, TaskTagged, IsWrite, Closures, TypeOK
<1>3. /\ Transit # << >> /\ Tail(Transit) = queue /\ Transit[1] = task
      /\ Transit' = queue
  BY <1>1, <1>2, Prepended DEF Transit
<1> QED
  BY <1>1, <1>2, <1>3, PipeTail DEF Owned, Snapshot
-----------------------------------------------------------------------------
(***************************************************************************)
(* The reports.  While nothing is broken they agree with U4x.state.  This  *)
(* is stronger than Told, which excuses them once a full queue made the    *)
(* tick raise ERR_QUEUE.                                                   *)
(***************************************************************************)
Reported == ~Broken => announced = state

RInv == IInv /\ ReadBack /\ Reported

LEMMA ReportedStep == TypeOK /\ Reported /\ Next => Reported'
<1> SUFFICES ASSUME TypeOK, Reported, Next, ~Broken' PROVE announced' = state'
  BY DEF Reported
<1>1. faults \in Nat /\ ~Fault
  BY DEF TypeOK, Fault, Broken
<1>2. CASE WriteFinish
  <2> DEFINE changed == (state \ state') \cup (state' \ state)
  <2>1. /\ announced' = (announced \ changed) \cup (changed \cap state')
        /\ faults' = faults /\ syserr' = syserr
    BY <1>1, <1>2 DEF WriteFinish, Healthy
  <2>2. announced = state
    BY <2>1 DEF Reported, Broken
  <2> QED
    BY <2>1, <2>2, ReportedChanges
<1>3. CASE Reboot
  BY <1>3 DEF Reboot, Broken
<1>4. CASE UNCHANGED <<announced, state, faults>> /\ syserr \subseteq syserr'
  BY <1>4 DEF Reported, Broken
<1> USE DEF core1Vars, core0Vars, isrVars, poolVars
<1>5. CASE Main
  BY <1>4, <1>5 DEF Main, Body, Enter, U4_set_relay, U4_clear_relay, U4_LED,
       U4_blink_LED, Leave
<1>6. CASE U4_tick \/ U3_on_update
  BY <1>4, <1>6 DEF U4_tick, TickSkip, TickEnter, TickHealth, TickTimers, TickWrite,
       U3_on_update, Queued, Refused, Panic
<1>7. CASE Glitch \/ I2C0_run \/ U3_read \/ WriteOutputs \/ WriteReadback
           \/ HealthReadback \/ RepairEnter \/ RepairSkip \/ RepairExit
  BY <1>1, <1>4, <1>7 DEF Glitch, I2C0_run, U3_read, WriteOutputs, WriteReadback,
       HealthReadback, RepairEnter, RepairSkip, RepairExit, Healthy
<1> QED
  BY <1>2, <1>3, <1>5, <1>6, <1>7 DEF Next, Core1

-----------------------------------------------------------------------------
(***************************************************************************)
(* The simulation, one lemma for each group of steps.                      *)
(***************************************************************************)
Step == Locks!Next \/ UNCHANGED Locks!vars

\* A step that changes none of the mapped variables but, perhaps, breaks.
LEMMA QuietStep ==
  ASSUME TypeOK', Pipe' = Pipe, UNCHANGED <<outputs, device, announced>>,
         Broken' \/ Broken' = Broken
  PROVE  Step
<1>1. announced' \subseteq Relays
  BY DEF TypeOK
<1>2. CASE Broken'
  BY <1>1, <1>2 DEF Step, Locks!Next, Locks!Misreport, Locks!Breaks
<1>3. CASE Broken' = Broken
  BY <1>3 DEF Step, Locks!vars
<1> QED
  BY <1>2, <1>3

LEMMA MainStep == TypeOK /\ TypeOK' /\ Owned /\ Main => Step
<1> SUFFICES ASSUME TypeOK, TypeOK', Owned, Main PROVE Step
  OBVIOUS
<1> USE DEF u4Vars, isrVars, poolVars, core1Vars
<1>1. /\ UNCHANGED <<heap, queue, core1, task>>
      /\ UNCHANGED <<device, announced, faults, syserr>>
  BY DEF Main, Body, Enter, U4_set_relay, U4_clear_relay, U4_LED, U4_blink_LED, Leave
<1>2. Pipe' = Pipe /\ Broken' = Broken
  BY <1>1, PipeKept DEF Broken
<1>3. ASSUME NEW r \in Relays, U4_set_relay(r) PROVE Step
  <2>1. Locks!Unlock(r)
    BY <1>1, <1>2, <1>3 DEF U4_set_relay, U4_set, Locks!Unlock
  <2> QED
    BY <2>1 DEF Step, Locks!Next
<1>4. ASSUME NEW r \in Relays, U4_clear_relay(r) PROVE Step
  <2>1. Locks!Lock({r})
    BY <1>1, <1>2, <1>4 DEF U4_clear_relay, U4_clear, Locks!Lock
  <2> QED
    BY <2>1 DEF Step, Locks!Next
<1>5. ASSUME NEW l \in LEDs, U4_LED(l) \/ U4_blink_LED(l) PROVE Step
  <2>1. outputs' \cap Relays = outputs \cap Relays
    BY <1>5 DEF U4_LED, U4_blink_LED, U4_set, U4_clear, U4_toggle
  <2> QED
    BY <1>1, <1>2, <2>1 DEF Step, Locks!vars
<1>6. ASSUME NEW c \in Commands, Enter(c) PROVE Step
  BY <1>1, <1>2, <1>6, QuietStep DEF Enter
<1> QED
  BY <1>3, <1>4, <1>5, <1>6 DEF Main, Body

LEMMA CoreZeroStep == TypeOK /\ TypeOK' /\ Owned /\ (U4_tick \/ U3_on_update) => Step
<1> SUFFICES ASSUME TypeOK, TypeOK', Owned, U4_tick \/ U3_on_update PROVE Step
  OBVIOUS
<1> USE DEF u4Vars, isrVars, poolVars, core1Vars, mainVars
<1>1. /\ UNCHANGED <<core1, task, device, announced, faults>>
      /\ syserr' \in {syserr, syserr \cup {"queue"}}
  BY DEF U4_tick, TickSkip, TickEnter, TickHealth, TickTimers, TickWrite,
       U3_on_update, Queued, Refused, Panic
<1>2. Broken' = Broken
  BY <1>1 DEF Broken
<1>3. CASE UNCHANGED <<heap, queue, outputs>>
  <2>1. Pipe' = Pipe
    BY <1>1, <1>3, PipeKept
  <2> QED
    BY <1>1, <1>2, <1>3, <2>1, QuietStep
<1>4. CASE Queued("healthcheck") /\ outputs' = outputs
  <2>1. Locks!Traffic
    BY <1>1, <1>2, <1>4, PipeQueued DEF Locks!Traffic
  <2> QED
    BY <2>1 DEF Step, Locks!Next
<1>5. CASE Queued("write") /\ outputs' = outputs
  <2>1. Locks!Send
    BY <1>1, <1>2, <1>5, PipeQueued DEF Locks!Send
  <2> QED
    BY <2>1 DEF Step, Locks!Next
<1>6. CASE TickTimers
  <2>1. Pipe' = Pipe
    BY <1>1, <1>6, PipeKept DEF TickTimers
  <2>2. outputs' \cap Relays = (outputs \cap Relays) \ Expired(timer)
    BY <1>6 DEF TickTimers, Dark, Blinking, Expired, TypeOK
  <2>3. Expired(timer) \in SUBSET Relays
    BY DEF Expired, TypeOK
  <2>4. Locks!Lock(Expired(timer))
    BY <1>1, <1>2, <2>1, <2>2 DEF Locks!Lock
  <2> QED
    BY <2>3, <2>4 DEF Step, Locks!Next
<1>7. CASE UNCHANGED <<heap, outputs>> /\ queue' = Append(queue, U3Read)
  <2>1. U3Read \in Closures /\ U3Read \notin Chunks
    BY DEF Closures
  <2>2. Pipe' = Append(Pipe, Snapshot(U3Read)')
    BY <1>1, <1>7, <2>1, PipeAppend DEF Owned
  <2>3. Snapshot(U3Read)' = {}
    BY <2>1 DEF Snapshot, IsWrite
  <2>4. Locks!Traffic
    BY <1>1, <1>2, <1>7, <2>2, <2>3 DEF Locks!Traffic
  <2> QED
    BY <2>4 DEF Step, Locks!Next
<1>8. CASE TickSkip \/ TickEnter
  BY <1>3, <1>8 DEF TickSkip, TickEnter
<1>9. CASE TickHealth
  BY <1>3, <1>4, <1>9 DEF TickHealth, Refused, Panic
<1>10. CASE TickWrite
  BY <1>3, <1>5, <1>10 DEF TickWrite, Refused, Panic
<1>11. CASE U3_on_update
  BY <1>3, <1>7, <1>11 DEF U3_on_update
<1> QED
  BY <1>6, <1>8, <1>9, <1>10, <1>11 DEF U4_tick
\* A transfer: the register changes and the operation is no longer in transit.
LEMMA TransferStep == TypeOK /\ TypeOK' /\ Owned /\ WriteOutputs => Step
<1> SUFFICES ASSUME TypeOK, TypeOK', Owned, WriteOutputs PROVE Step
  OBVIOUS
<1>1. /\ Pipe # << >> /\ Pipe' = Tail(Pipe)
      /\ Head(Pipe) = {heap[task].outputs \cap Relays}
  BY PipeWritten
<1>2. UNCHANGED <<outputs, announced>>
  BY DEF WriteOutputs, core0Vars
<1>3. CASE Healthy /\ device' = heap[task].outputs /\ UNCHANGED syserr
  <2>1. Broken' = Broken
    BY <1>3 DEF Healthy, Broken
  <2>2. Locks!Drive
    BY <1>1, <1>2, <1>3, <2>1 DEF Locks!Drive
  <2> QED
    BY <2>2 DEF Step, Locks!Next
<1>4. CASE Fault /\ device' \in {device, heap[task].outputs}
  <2>1. Broken'
    BY <1>4 DEF Fault, Broken, TypeOK
  <2>2. device' \cap Relays \in {device \cap Relays} \cup Head(Pipe)
    BY <1>1, <1>4
  <2>3. Locks!Lose
    BY <1>1, <1>2, <2>1, <2>2 DEF Locks!Lose, Locks!Breaks
  <2> QED
    BY <2>3 DEF Step, Locks!Next
<1> QED
  BY <1>3, <1>4 DEF WriteOutputs

\* The report: what was read back is what the device shows, unless a fault or a
\* restart has come between.
LEMMA FinishStep == RInv /\ TypeOK' /\ WriteFinish => Step
<1> SUFFICES ASSUME RInv, TypeOK', WriteFinish PROVE Step
  OBVIOUS
<1> USE DEF RInv, IInv
<1>1. /\ UNCHANGED <<outputs, device, queue>> /\ task \in Chunks /\ core1 = "finish"
      /\ operation_free(task) /\ core1' = "idle" /\ state' = seen \cap Relays
  BY DEF WriteFinish, core0Vars, Idle, Owned, TaskTagged
<1>2. Pipe' = Pipe
  BY <1>1, PipeKept
<1>3. announced' \subseteq Relays
  BY DEF TypeOK
<1>4. CASE Broken'
  BY <1>1, <1>2, <1>3, <1>4 DEF Step, Locks!Next, Locks!Misreport, Locks!Breaks
<1>5. CASE ~Broken'
  <2> DEFINE changed == (state \ state') \cup (state' \ state)
  <2>1. ~Fault
    BY <1>5 DEF Fault, Broken, TypeOK
  <2>2. /\ announced' = (announced \ changed) \cup (changed \cap state')
        /\ faults' = faults /\ syserr' = syserr
    BY <2>1 DEF WriteFinish, Healthy
  <2>3. ~Broken /\ faults = 0
    BY <1>5, <2>2 DEF Broken, TypeOK
  <2>4. announced = state /\ state' = device \cap Relays
    BY <1>1, <2>3 DEF Reported, ReadBack
  <2>5. announced' = device \cap Relays
    BY <2>2, <2>4, ReportedChanges
  <2>6. Broken' = Broken
    BY <2>2 DEF Broken
  <2>7. Locks!Report
    BY <1>1, <1>2, <2>5, <2>6 DEF Locks!Report
  <2> QED
    BY <2>7 DEF Step, Locks!Next
<1> QED
  BY <1>4, <1>5

LEMMA RunStep == TypeOK /\ TypeOK' /\ Owned /\ I2C0_run => Step
<1> SUFFICES ASSUME TypeOK, TypeOK', Owned, I2C0_run PROVE Step
  OBVIOUS
<1>1. UNCHANGED <<outputs, device, announced>> /\ Broken' = Broken
  BY DEF I2C0_run, core0Vars, Broken
<1>2. CASE Pipe' = Pipe
  BY <1>1, <1>2, QuietStep
<1>3. CASE Pipe # << >> /\ Head(Pipe) = {} /\ Pipe' = Tail(Pipe)
  <2>1. Locks!Drive
    BY <1>1, <1>3 DEF Locks!Drive
  <2> QED
    BY <2>1 DEF Step, Locks!Next
<1> QED
  BY <1>2, <1>3, PipeRun

\* The other tasks of core 1 free an operation at most.
LEMMA OtherTaskStep ==
  /\ TypeOK /\ TypeOK' /\ Owned
  /\ \/ U3_read \/ WriteReadback \/ HealthReadback
     \/ RepairEnter \/ RepairSkip \/ RepairExit
  => Step
<1> SUFFICES ASSUME TypeOK, TypeOK', Owned,
                    \/ U3_read \/ WriteReadback \/ HealthReadback
                    \/ RepairEnter \/ RepairSkip \/ RepairExit
             PROVE  Step
  OBVIOUS
<1>1. /\ UNCHANGED <<outputs, device, announced, queue>>
      /\ core1 # "write" /\ core1' # "write"
      /\ heap' = heap \/ (task \in Chunks /\ operation_free(task))
  BY DEF U3_read, WriteReadback, HealthReadback, RepairEnter, RepairSkip, RepairExit,
       core0Vars, poolVars, Idle, Owned, TaskTagged
<1>2. Pipe' = Pipe
  BY <1>1, PipeKept
<1>3. Broken' \/ Broken' = Broken
  BY DEF U3_read, WriteReadback, HealthReadback, RepairEnter, RepairSkip, RepairExit,
       Healthy, Fault, Broken, TypeOK
<1> QED
  BY <1>1, <1>2, <1>3, QuietStep

LEMMA FaultStep == TypeOK /\ TypeOK' /\ Owned /\ (Glitch \/ Reboot) => Step
<1> SUFFICES ASSUME TypeOK, TypeOK', Owned, Glitch \/ Reboot PROVE Step
  OBVIOUS
<1>1. CASE Glitch
  <2>1. Broken' /\ UNCHANGED <<outputs, announced, heap, queue, core1, task>>
    BY <1>1 DEF Glitch, Fault, Broken, TypeOK, core0Vars, poolVars, core1Vars
  <2>2. Pipe' = Pipe
    BY <2>1, PipeKept
  <2>3. device' \cap Relays \in SUBSET Relays
    OBVIOUS
  <2> QED
    BY <2>1, <2>2, <2>3 DEF Step, Locks!Next, Locks!Corrupt, Locks!Breaks
<1>2. CASE Reboot
  <2>1. Broken' /\ outputs' = {} /\ announced' = announced /\ device' = Wire({})
    BY <1>2 DEF Reboot, Broken
  <2>2. Transit' = << >>
    BY <1>2 DEF Reboot, Idle, Transit
  <2>3. Pipe' = << >>
    BY <2>2 DEF Pipe
  <2>4. Wire({}) \cap Relays = {}
    BY DEF Wire
  <2>5. Locks!Restart
    BY <2>1, <2>3, <2>4 DEF Locks!Restart, Locks!Breaks
  <2> QED
    BY <2>5 DEF Step, Locks!Next
<1> QED
  BY <1>1, <1>2

-----------------------------------------------------------------------------
LEMMA Simulation == RInv /\ TypeOK' /\ [Next]_vars => Step
<1> SUFFICES ASSUME RInv, TypeOK', [Next]_vars PROVE Step
  OBVIOUS
<1>1. TypeOK /\ Owned
  BY DEF RInv, IInv
<1>2. CASE UNCHANGED vars
  <2>1. UNCHANGED <<outputs, device, announced, heap, queue, core1, task, faults, syserr>>
    BY <1>2 DEF vars, u4Vars, poolVars, core1Vars
  <2>2. Pipe' = Pipe /\ Broken' = Broken
    BY <1>1, <2>1, PipeKept DEF Broken
  <2> QED
    BY <2>1, <2>2, QuietStep
<1>3. CASE Next
  BY <1>1, <1>3, MainStep, CoreZeroStep, TransferStep, FinishStep, RunStep,
     OtherTaskStep, FaultStep DEF Next, Core1
<1> QED
  BY <1>2, <1>3

LEMMA InitialLocks == Init => Locks!Init
<1> SUFFICES ASSUME Init PROVE Locks!Init
  OBVIOUS
<1>1. Transit = << >>
  BY DEF Init, Transit
<1>2. Pipe = << >>
  BY <1>1 DEF Pipe
<1>3. Wire({}) \cap Relays = {}
  BY DEF Wire
<1> QED
  BY <1>2, <1>3 DEF Init, Locks!Init, Broken

\* Without faults and restarts what is reported is what was read back.
THEOREM ReportsInvariant == Spec => []RInv
<1>1. Init => ReadBack /\ Reported
  BY DEF Init, ReadBack, Reported, Wire
<1>2. IInv /\ ReadBack /\ Reported /\ [Next]_vars => (ReadBack /\ Reported)'
  <2> SUFFICES ASSUME IInv, ReadBack, Reported, [Next]_vars PROVE (ReadBack /\ Reported)'
    OBVIOUS
  <2>1. CASE Next
    BY <2>1, ReadBackStep, ReportedStep DEF IInv, Owned
  <2>2. CASE UNCHANGED vars
    BY <2>2 DEF vars, core1Vars, ReadBack, Reported, Broken
  <2> QED
    BY <2>1, <2>2
<1> QED
  BY <1>1, <1>2, Invariance, PTL DEF Spec, RInv

\* U4 implements DoorLocks: whatever the interleaving of commands, ticks and
\* core 1, and whatever faults and resets, the relays only ever show states that
\* were asked for, in that order, and are reported as the device has them.
THEOREM RefinesDoorLocks == Spec => Locks!Safety
<1>1. RInv /\ RInv' /\ [Next]_vars => [Locks!Next]_(Locks!vars)
  BY Simulation DEF RInv, IInv, Step
<1> QED
  BY <1>1, InitialLocks, ReportsInvariant, PTL DEF Spec, Locks!Safety
=============================================================================
