----------------------------- MODULE ClockProofs -----------------------------
(***************************************************************************)
(* Theorems about Clock, for any moments to set, any chunks and slots and  *)
(* any number of requests, faults and restarts.                            *)
(***************************************************************************)
EXTENDS Clock, SequenceTheorems, WellFoundedInduction, TLAPS

USE ClockAssumption

-----------------------------------------------------------------------------
(***************************************************************************)
(* The parts of the inductive invariant (IInv, at the end).                *)
(***************************************************************************)
Queueable == {Setup, Read} \cup {Write(c) : c \in Chunks}
Shape ==
  /\ queue \in Seq(Queueable) /\ core.task \in {NoTask} \cup Queueable
  /\ core = [task |-> core.task, got |-> core.got, step |-> core.step] /\ core.step \in 0 .. 2
  /\ allocated \subseteq Chunks

\* RTC_setup is still to come at most once, and then nothing else has used the
\* chip: no write or read finds it initialised, and the clock is not ready.  Of
\* the updates, a read makes it ready at once, and a write not ready.
SettingUp == {i \in DOMAIN queue : queue[i].f = "setup"}
Once ==
  /\ alarm => SettingUp = {} /\ core.task.f # "setup"
  /\ \A i, j \in SettingUp : i = j
  /\ core.task.f = "setup" => SettingUp = {}
  /\ alarm \/ SettingUp # {} \/ core.task.f = "setup" => ~initialised
  /\ ~initialised => ~ready
  /\ core.got # <<>> => initialised /\ core.task.f \in {"read", "write"}
  /\ core.step # 0 => core.got # <<>> /\ (ready <=> core.task.f = "read")

\* What core 1 has read is what the chip still has.
Current == core.task.f = "read" /\ core.got # <<>> => core.got = regs

\* The clock runs: what the interrupt has read and will write back is as good as
\* the epoch, and neither this interrupt nor the next adds anything in excess.
Near(e) == e # Zero /\ ~Far(e, Chip)
Running ==
  /\ ready /\ Near(epoch) /\ last_tick \in {Never, 0}
  /\ tick = NoTick \/ tick.added \/ (Near(tick.from) /\ tick.delta \in {Never, 0})
\* Or nothing is left of it.
Cleared == epoch = Zero /\ last_tick = Never /\ tick = NoTick
\* One of the two, unless RTC_write is between them or left in doubt.
Harmless ==
  \/ doubt
  \/ Between /\ core.step < 2
  \/ Between /\ core.step = 2 /\ epoch = Zero /\ tick = NoTick
  \/ ~Between /\ Running
  \/ ~Between /\ Cleared /\ (ready => core.step = 1)

-----------------------------------------------------------------------------
(***************************************************************************)
(* The queue and what is far.                                              *)
(***************************************************************************)
\* What queueing a task and taking the oldest one do.
LEMMA AppendQueue ==
  ASSUME Shape, NEW x \in Queueable, queue' = Append(queue, x)
  PROVE  /\ queue' \in Seq(Queueable)
         /\ DOMAIN queue = 1..Len(queue) /\ Len(queue) \in Nat
         /\ DOMAIN queue' = 1..Len(queue) + 1
         /\ \A i \in DOMAIN queue : queue'[i] = queue[i]
         /\ queue'[Len(queue) + 1] = x
<1>1. queue \in Seq(Queueable)
  BY DEF Shape
<1>2. Append(queue, x) \in Seq(Queueable)
  BY <1>1, AppendProperties
<1> QED
  BY <1>1, <1>2, AppendProperties, LenProperties

LEMMA RemoveQueue ==
  ASSUME Shape, queue # << >>, queue' = Tail(queue)
  PROVE  /\ queue' \in Seq(Queueable)
         /\ DOMAIN queue = 1..Len(queue) /\ Len(queue) \in Nat \ {0}
         /\ DOMAIN queue' = 1..Len(queue) - 1
         /\ \A i \in DOMAIN queue' : queue'[i] = queue[i + 1]
         /\ Head(queue) = queue[1] /\ Head(queue) \in Queueable
<1>1. queue \in Seq(Queueable)
  BY DEF Shape
<1>2. Tail(queue) \in Seq(Queueable) /\ Len(queue) \in Nat \ {0}
  BY <1>1, HeadTailProperties, EmptySeq
<1> QED
  BY <1>1, <1>2, HeadTailProperties, LenProperties

\* Every task in the queue is one of its kind.
LEMMA Queued ==
  ASSUME Shape
  PROVE  \A i \in DOMAIN queue : queue[i] \in Queueable
  BY DEF Shape

LEMMA TaskKinds ==
  /\ Setup \in Queueable /\ Read \in Queueable /\ \A c \in Chunks : Write(c) \in Queueable
  /\ NoTask.f = "none" /\ Setup.f = "setup" /\ Read.f = "read"
  /\ NoTask.chunk = NoChunk
  /\ \A c \in Chunks : Write(c).f = "write" /\ Write(c).chunk = c
  /\ \A x \in Queueable : /\ x.f \in {"setup", "read", "write"}
                          /\ x.f = "write" => x.chunk \in Chunks
                          /\ x.f # "write" => x.chunk = NoChunk
<1>1. Setup \in Queueable /\ Read \in Queueable
  BY DEF Queueable
<1>2. \A c \in Chunks : Write(c) \in Queueable
  BY DEF Queueable
<1>3. /\ NoTask.f = "none" /\ Setup.f = "setup" /\ Read.f = "read"
      /\ NoTask.chunk = NoChunk /\ Setup.chunk = NoChunk /\ Read.chunk = NoChunk
      /\ \A c \in Chunks : Write(c).f = "write" /\ Write(c).chunk = c
  BY DEF Setup, Read, Write, NoTask
<1>4. ASSUME NEW x \in Queueable
      PROVE  /\ x.f \in {"setup", "read", "write"}
             /\ x.f = "write" => x.chunk \in Chunks
             /\ x.f # "write" => x.chunk = NoChunk
  <2>1. x = Setup \/ x = Read \/ \E c \in Chunks : x = Write(c)
    BY DEF Queueable
  <2> QED
    BY <1>3, <2>1
<1> QED
  BY <1>1, <1>2, <1>3, <1>4

\* A time is not far from itself, nor from one that is not far from it.
LEMMA FarSymmetric == \A a, b : ~Far(a, a) /\ (Far(a, b) <=> Far(b, a))
  BY DEF Far

-----------------------------------------------------------------------------
(***************************************************************************)
(* What a step of core 1, of the queue and of the pool preserve.           *)
(***************************************************************************)
\* A task that owns no chunk joins the queue.
LEMMA JoinOwned ==
  ASSUME Shape, Owned, NEW x \in {Setup, Read}, queue' = Append(queue, x),
         UNCHANGED <<core, allocated>>
  PROVE  Shape' /\ Owned'
<1>1. x \in Queueable /\ x.f # "write"
  BY TaskKinds
<1>2. /\ queue' \in Seq(Queueable)
      /\ DOMAIN queue = 1..Len(queue) /\ Len(queue) \in Nat
      /\ DOMAIN queue' = 1..Len(queue) + 1
      /\ \A i \in DOMAIN queue : queue'[i] = queue[i]
      /\ queue'[Len(queue) + 1] = x
  BY <1>1, AppendQueue
<1>3. Writes' = Writes /\ \A i \in Writes : queue'[i] = queue[i]
  BY <1>1, <1>2 DEF Writes
<1>4. {queue'[i].chunk : i \in Writes'} = {queue[i].chunk : i \in Writes}
  BY <1>3
<1>5. Shape'
  BY <1>2 DEF Shape
<1>6. allocated' = {queue'[i].chunk : i \in Writes'}
                   \cup IF core'.task.f = "write" THEN {core'.task.chunk} ELSE {}
  BY <1>4 DEF Owned
<1>7. \A i \in Writes' : /\ core'.task.chunk # queue'[i].chunk
                         /\ \A j \in Writes' : queue'[i].chunk = queue'[j].chunk => i = j
  <2>1. core' = core
    OBVIOUS
  <2>2. TAKE i \in Writes'
  <2>3. i \in Writes /\ queue'[i] = queue[i]
    BY <1>3
  <2>4. core.task.chunk # queue[i].chunk
    BY <2>3 DEF Owned
  <2>5. ASSUME NEW j \in Writes', queue'[i].chunk = queue'[j].chunk PROVE i = j
    <3>1. j \in Writes /\ queue'[j] = queue[j]
      BY <1>3
    <3> QED
      BY <2>3, <2>5, <3>1 DEF Owned
  <2> QED
    BY <2>1, <2>3, <2>4, <2>5
<1> QED
  BY <1>5, <1>6, <1>7 DEF Owned

\* Core 1 takes the oldest task, with the chunk of a write.
LEMMA TakeOwned ==
  ASSUME Shape, Owned, I2C0_run
  PROVE  Shape' /\ Owned'
<1>1. /\ queue' \in Seq(Queueable)
      /\ DOMAIN queue = 1..Len(queue) /\ Len(queue) \in Nat \ {0}
      /\ DOMAIN queue' = 1..Len(queue) - 1
      /\ \A i \in DOMAIN queue' : queue'[i] = queue[i + 1]
      /\ Head(queue) = queue[1] /\ Head(queue) \in Queueable
  BY RemoveQueue DEF I2C0_run
<1>2. core' = [task |-> queue[1], got |-> <<>>, step |-> 0] /\ UNCHANGED allocated
  BY <1>1 DEF I2C0_run, Free, pool
<1>3. Shape'
  BY <1>1, <1>2 DEF Shape
<1>4. core.task.f # "write"
  BY TaskKinds DEF I2C0_run
<1>5. \A i : i \in Writes' <=> i \in 1..Len(queue) - 1 /\ i + 1 \in Writes
  BY <1>1 DEF Writes
<1>6. \A i \in Writes' : queue'[i] = queue[i + 1]
  BY <1>1 DEF Writes
<1>7. \A i \in Writes : i = 1 \/ i - 1 \in Writes'
  BY <1>1, <1>5 DEF Writes
<1>8. allocated = {queue[i].chunk : i \in Writes}
  BY <1>4 DEF Owned
<1>9. 1 \in Writes <=> core'.task.f = "write"
  BY <1>1, <1>2 DEF Writes
<1>10. allocated' = {queue'[i].chunk : i \in Writes'}
                    \cup IF core'.task.f = "write" THEN {core'.task.chunk} ELSE {}
  <2>1. ASSUME NEW i \in Writes
        PROVE  queue[i].chunk \in {queue'[j].chunk : j \in Writes'}
                                  \cup IF core'.task.f = "write" THEN {core'.task.chunk} ELSE {}
    <3>1. CASE i = 1
      BY <1>2, <1>9, <2>1, <3>1
    <3>2. CASE i # 1
      <4>1. i - 1 \in Writes' /\ (i - 1) + 1 = i
        BY <1>1, <1>7, <2>1, <3>2 DEF Writes
      <4> QED
        BY <1>6, <4>1
    <3> QED
      BY <3>1, <3>2
  <2>2. ASSUME NEW j \in Writes' PROVE queue'[j].chunk \in allocated
    BY <1>5, <1>6, <1>8, <2>2
  <2>3. core'.task.f = "write" => core'.task.chunk \in allocated
    BY <1>2, <1>8, <1>9
  <2> QED
    BY <1>2, <1>8, <2>1, <2>2, <2>3
<1>11. \A i \in Writes' : core'.task.chunk # queue'[i].chunk
  <2> SUFFICES ASSUME NEW i \in Writes' PROVE queue[1].chunk # queue[i + 1].chunk
    BY <1>2, <1>6
  <2>1. i + 1 \in Writes /\ i + 1 # 1 /\ queue[i + 1].chunk \in Chunks
    BY <1>1, <1>5, Queued, TaskKinds DEF Writes
  <2>2. CASE 1 \in Writes
    BY <2>1, <2>2 DEF Owned
  <2>3. CASE 1 \notin Writes
    BY <1>1, <2>1, <2>3, TaskKinds DEF Writes
  <2> QED
    BY <2>2, <2>3
<1>12. \A i, j \in Writes' : queue'[i].chunk = queue'[j].chunk => i = j
  BY <1>1, <1>5, <1>6 DEF Owned, Writes
<1> QED
  BY <1>3, <1>10, <1>11, <1>12 DEF Owned

\* Core 1 ends a task, and with it frees the chunk of a write.
LEMMA EndOwned ==
  ASSUME Shape, Owned, Done, UNCHANGED queue,
         \/ core.task.f # "write" /\ UNCHANGED allocated
         \/ core.task.f = "write" /\ datetime_free
  PROVE  Shape' /\ Owned'
<1>1. core' = [task |-> NoTask, got |-> <<>>, step |-> 0] /\ NoTask.f # "write" /\ NoTask.chunk = NoChunk
  BY TaskKinds DEF Done, Free
<1>2. allocated' = {queue[i].chunk : i \in Writes} /\ allocated' \subseteq Chunks
  <2>1. CASE core.task.f # "write"
    BY <2>1 DEF Owned, Shape
  <2>2. CASE core.task.f = "write"
    <3>1. \A i \in Writes : core.task.chunk # queue[i].chunk
      BY DEF Owned
    <3>2. allocated = {queue[i].chunk : i \in Writes} \cup {core.task.chunk}
      BY <2>2 DEF Owned
    <3>3. allocated' = allocated \ {core.task.chunk}
      BY <2>2 DEF datetime_free
    <3> QED
      BY <3>1, <3>2, <3>3 DEF Shape
  <2> QED
    BY <2>1, <2>2
<1>3. \A i \in Writes : queue[i].chunk \in Chunks
  BY Queued, TaskKinds DEF Writes
<1>4. Writes' = Writes
  BY DEF Writes
<1> QED
  BY <1>1, <1>2, <1>3, <1>4 DEF Shape, Owned

\* Nothing happens to the queue, the chunks and the task of core 1.
LEMMA KeepOwned ==
  ASSUME Shape, Owned, UNCHANGED <<queue, allocated>>,
         \/ core' = core \/ \E r : core' = [core EXCEPT !.got = r]
         \/ core.step \in 0 .. 1 /\ core' = [core EXCEPT !.step = core.step + 1]
  PROVE  Shape' /\ Owned'
<1>1. /\ core'.task = core.task /\ core'.step \in 0 .. 2
      /\ core' = [task |-> core'.task, got |-> core'.got, step |-> core'.step]
  BY DEF Shape
<1>2. Shape'
  BY <1>1 DEF Shape
<1>3. Owned'
  BY <1>1 DEF Owned, Writes
<1> QED
  BY <1>2, <1>3

\* A write joins the queue with a chunk that was free.
LEMMA WriteOwned ==
  ASSUME Shape, Owned, NEW c \in Chunks \ allocated, queue' = Append(queue, Write(c)),
         allocated' = allocated \cup {c}, UNCHANGED core
  PROVE  Shape' /\ Owned'
<1>1. Write(c) \in Queueable /\ Write(c).f = "write" /\ Write(c).chunk = c
  BY TaskKinds
<1>2. /\ queue' \in Seq(Queueable)
      /\ DOMAIN queue = 1..Len(queue) /\ Len(queue) \in Nat
      /\ DOMAIN queue' = 1..Len(queue) + 1
      /\ \A i \in DOMAIN queue : queue'[i] = queue[i]
      /\ queue'[Len(queue) + 1] = Write(c)
  BY <1>1, AppendQueue
<1>3. Writes' = Writes \cup {Len(queue) + 1} /\ \A i \in Writes : queue'[i] = queue[i]
  BY <1>1, <1>2 DEF Writes
<1>4. {queue'[i].chunk : i \in Writes'} = {queue[i].chunk : i \in Writes} \cup {c}
  BY <1>1, <1>2, <1>3
<1>5. Shape'
  BY <1>2 DEF Shape
<1>6. allocated' = {queue'[i].chunk : i \in Writes'}
                   \cup IF core'.task.f = "write" THEN {core'.task.chunk} ELSE {}
  BY <1>4 DEF Owned
<1>7. /\ core.task.chunk # c
      /\ \A i \in Writes : queue[i].chunk # c
  <2>1. \A i \in Writes : queue[i].chunk \in allocated
    BY DEF Owned
  <2>2. core.task.f = "write" => core.task.chunk \in allocated
    BY DEF Owned
  <2>3. core.task.f # "write" => core.task.chunk = NoChunk
    BY TaskKinds DEF Shape
  <2> QED
    BY <2>1, <2>2, <2>3
<1>8. \A i \in Writes' : core'.task.chunk # queue'[i].chunk
  <2> TAKE i \in Writes'
  <2>1. CASE i = Len(queue) + 1
    BY <1>1, <1>2, <1>7, <2>1
  <2>2. CASE i # Len(queue) + 1
    <3>1. i \in Writes /\ queue'[i] = queue[i]
      BY <1>3, <2>2
    <3> QED
      BY <3>1 DEF Owned
  <2> QED
    BY <2>1, <2>2
<1>9. \A i, j \in Writes' : queue'[i].chunk = queue'[j].chunk => i = j
  <2> SUFFICES ASSUME NEW i \in Writes', NEW j \in Writes', queue'[i].chunk = queue'[j].chunk
               PROVE  i = j
    OBVIOUS
  <2>1. \A k \in Writes' : \/ k = Len(queue) + 1 /\ queue'[k].chunk = c
                           \/ k \in Writes /\ queue'[k] = queue[k] /\ queue[k].chunk # c
    BY <1>1, <1>2, <1>3, <1>7
  <2>2. \A k, l \in Writes : queue[k].chunk = queue[l].chunk => k = l
    BY DEF Owned
  <2> QED
    BY <2>1, <2>2
<1> QED
  BY <1>5, <1>6, <1>8, <1>9 DEF Owned

LEMMA OwnedStep == Shape /\ Owned /\ [Next]_vars => Shape' /\ Owned'
<1> SUFFICES ASSUME Shape, Owned, [Next]_vars PROVE Shape' /\ Owned'
  OBVIOUS
<1>1. CASE RTC_on_setup
  <2>1. CASE HasRoom
    BY <1>1, <2>1, JoinOwned DEF RTC_on_setup, pool
  <2>2. CASE ~HasRoom
    BY <1>1, <2>2, KeepOwned DEF RTC_on_setup, pool
  <2> QED
    BY <2>1, <2>2
<1>2. CASE RTC_on_update
  BY <1>2, JoinOwned DEF RTC_on_update, I2C0_push, pool
<1>3. CASE RTC_on_tick \/ TickAdds \/ TickEnds \/ Waited \/ \E e \in Readable : RTC_get_datetime(e)
  BY <1>3, KeepOwned DEF RTC_on_tick, TickAdds, TickEnds, RTC_get_datetime, Waited, pool
<1>4. CASE I2C0_run
  BY <1>4, TakeOwned
<1>5. CASE RTC_setup \/ RTC_read \/ RTC_write
  <2>1. CASE GoesOn /\ core.step \in 0 .. 1
    BY <1>5, <2>1, KeepOwned DEF RTC_setup, RTC_read, RTC_write, GoesOn, Transfer, Done, Free, pool
  <2>2. CASE Done
    BY <1>5, <2>2, EndOwned DEF RTC_setup, RTC_read, RTC_write, Update, Transfer, GoesOn, Done, Free, Shape, pool
  <2> QED
    BY <1>5, <2>1, <2>2 DEF RTC_setup, RTC_read, RTC_write, Update
<1>6. CASE ReadChip
  <2>1. CASE Done
    BY <1>6, <2>1, EndOwned DEF ReadChip, Transfer, pool
  <2>2. CASE core' = [core EXCEPT !.got = regs]
    BY <1>6, <2>2, KeepOwned DEF ReadChip, pool
  <2> QED
    BY <1>6, <2>1, <2>2 DEF ReadChip
<1>7. CASE WriteChip
  <2>1. CASE Done /\ datetime_free
    BY <1>7, <2>1, EndOwned DEF WriteChip, Transfer
  <2>2. CASE UNCHANGED pool /\ \E r : core' = [core EXCEPT !.got = r]
    BY <1>7, <2>2, KeepOwned DEF WriteChip, pool
  <2> QED
    BY <1>7, <2>1, <2>2 DEF WriteChip
<1>8. CASE PushWrite
  <2> DEFINE c == CHOOSE x \in Chunks : x \notin allocated
  <2>1. CASE UNCHANGED <<queue, allocated>>
    BY <1>8, <2>1, KeepOwned DEF PushWrite
  <2>2. CASE allocated # Chunks /\ I2C0_push(Write(c)) /\ allocated' = allocated \cup {c}
    <3>1. c \in Chunks \ allocated
      BY <2>2 DEF Shape
    <3> QED
      BY <1>8, <2>2, <3>1, WriteOwned DEF PushWrite, I2C0_push
  <2> QED
    BY <1>8, <2>1, <2>2 DEF PushWrite, Returned, pool
<1>9. CASE PushRead
  <2>1. CASE I2C0_push(Read)
    BY <1>9, <2>1, JoinOwned DEF PushRead, I2C0_push, pool
  <2>2. CASE UNCHANGED queue
    BY <1>9, <2>2, KeepOwned DEF PushRead, pool
  <2> QED
    BY <1>9, <2>1, <2>2 DEF PushRead
<1>10. CASE Restart
  <2>1. queue' = <<Read>> /\ core' = [task |-> NoTask, got |-> <<>>, step |-> 0] /\ allocated' = {}
    BY <1>10 DEF Restart, Free
  <2>2. Shape'
    BY <2>1, TaskKinds DEF Shape
  <2>3. Writes' = {}
    BY <2>1, TaskKinds DEF Writes
  <2> QED
    BY <2>1, <2>2, <2>3, TaskKinds DEF Owned
<1>11. CASE UNCHANGED <<queue, core, allocated>>
  BY <1>11, KeepOwned
<1> QED
  BY <1>1, <1>2, <1>3, <1>4, <1>5, <1>6, <1>7, <1>8, <1>9, <1>10, <1>11
     DEF Next, Interrupt, Core1, Loop, Begin, Resume, vars, pool

-----------------------------------------------------------------------------
(***************************************************************************)
(* The chip is set up at most once.                                        *)
(***************************************************************************)
\* A task that joins the queue and is no RTC_setup leaves those that are.
LEMMA JoinSettingUp ==
  ASSUME Shape, NEW x \in Queueable, queue' = Append(queue, x), x.f # "setup"
  PROVE  SettingUp' = SettingUp
<1>1. /\ DOMAIN queue = 1..Len(queue) /\ Len(queue) \in Nat
      /\ DOMAIN queue' = 1..Len(queue) + 1
      /\ \A i \in DOMAIN queue : queue'[i] = queue[i]
      /\ queue'[Len(queue) + 1] = x
  BY AppendQueue
<1> QED
  BY <1>1 DEF SettingUp

LEMMA SetupStep == ASSUME Shape, Once, RTC_on_setup PROVE Once'
<1>1. SettingUp = {} /\ core.task.f # "setup" /\ ~initialised
  BY DEF RTC_on_setup, Once
<1>2. \A i, j \in SettingUp' : i = j
  <2>1. CASE HasRoom
    <3>1. /\ DOMAIN queue = 1..Len(queue) /\ Len(queue) \in Nat
          /\ DOMAIN queue' = 1..Len(queue) + 1
          /\ \A i \in DOMAIN queue : queue'[i] = queue[i]
      BY <2>1, TaskKinds, AppendQueue DEF RTC_on_setup
    <3>2. SettingUp' \subseteq {Len(queue) + 1}
      BY <1>1, <3>1 DEF SettingUp
    <3> QED
      BY <3>2
  <2>2. CASE ~HasRoom
    BY <1>1, <2>2 DEF RTC_on_setup, SettingUp
  <2> QED
    BY <2>1, <2>2
<1> QED
  BY <1>1, <1>2 DEF RTC_on_setup, Once, rtcVars

LEMMA TakeOnce == ASSUME Shape, Once, I2C0_run PROVE Once'
<1>1. /\ DOMAIN queue = 1..Len(queue) /\ Len(queue) \in Nat \ {0}
      /\ DOMAIN queue' = 1..Len(queue) - 1
      /\ \A i \in DOMAIN queue' : queue'[i] = queue[i + 1]
      /\ Head(queue) = queue[1]
  BY RemoveQueue DEF I2C0_run
<1>2. core' = [task |-> queue[1], got |-> <<>>, step |-> 0] /\ UNCHANGED <<alarm, initialised, ready>>
  BY <1>1 DEF I2C0_run, Free, rtcVars
<1>3. \A i \in SettingUp' : i + 1 \in SettingUp /\ i \in Nat \ {0}
  BY <1>1 DEF SettingUp
<1>4. core'.task.f = "setup" => 1 \in SettingUp
  BY <1>1, <1>2 DEF SettingUp
<1>5. \A i, j \in SettingUp' : i = j
  BY <1>3 DEF Once
<1>6. core'.task.f = "setup" => SettingUp' = {}
  BY <1>3, <1>4 DEF Once
<1>7. alarm' => SettingUp' = {} /\ core'.task.f # "setup"
  BY <1>2, <1>3, <1>4 DEF Once
<1>8. alarm' \/ SettingUp' # {} \/ core'.task.f = "setup" => ~initialised'
  BY <1>2, <1>3, <1>4 DEF Once
<1> QED
  BY <1>2, <1>5, <1>6, <1>7, <1>8 DEF Once

\* What else core 1 does only ends a task or has it read the chip.
LEMMA CoreOnce ==
  ASSUME Shape, Once, RTC_setup \/ ReadChip \/ RTC_read \/ WriteChip \/ RTC_write
  PROVE  Once'
<1>1. NoTask.f = "none" /\ Free = [task |-> NoTask, got |-> <<>>, step |-> 0]
  BY TaskKinds DEF Free
<1>2. SettingUp' = SettingUp /\ UNCHANGED alarm
  BY DEF RTC_setup, ReadChip, RTC_read, WriteChip, RTC_write, SettingUp
<1>3. CASE RTC_setup
  <2>1. /\ ~alarm /\ SettingUp = {} /\ core' = Free
        /\ (UNCHANGED <<initialised, ready>> \/ (initialised' = TRUE /\ ready' = FALSE))
    BY <1>3 DEF RTC_setup, Transfer, Done, Once
  <2> QED
    BY <1>1, <1>2, <2>1 DEF Once
<1>4. CASE ReadChip
  <2>1. /\ UNCHANGED <<initialised, ready>> /\ core.task.f = "read"
        /\ \/ core' = Free
           \/ initialised /\ core' = [core EXCEPT !.got = regs]
    BY <1>4 DEF ReadChip, Transfer, Done, rtcVars
  <2>2. CASE core' = Free
    BY <1>1, <1>2, <2>1, <2>2 DEF Once
  <2>3. CASE initialised /\ core' = [core EXCEPT !.got = regs]
    <3>1. core'.task = core.task /\ core'.step = core.step
      BY <2>3 DEF Shape
    <3>2. core.step = 0
      BY <1>4 DEF ReadChip, WriteChip, Transfer, Once
    <3> QED
      BY <1>2, <2>1, <2>3, <3>1, <3>2 DEF Once
  <2> QED
    BY <2>1, <2>2, <2>3
<1>5. CASE RTC_read
  <2>1. initialised /\ UNCHANGED initialised /\ core.task.f = "read" /\ core.got # <<>>
    BY <1>5 DEF RTC_read, Update, Once
  <2>2. CASE core' = Free
    BY <1>1, <1>2, <2>1, <2>2 DEF Once
  <2>3. CASE GoesOn /\ ready'
    <3>1. core'.task = core.task /\ core'.got = core.got
      BY <2>3 DEF GoesOn, Shape
    <3> QED
      BY <1>2, <2>1, <2>3, <3>1 DEF Once
  <2> QED
    BY <1>5, <2>2, <2>3 DEF RTC_read, Done
<1>6. CASE WriteChip
  <2>1. /\ UNCHANGED <<initialised, ready>> /\ core.task.f = "write"
        /\ \/ core' = Free
           \/ initialised /\ \E r : core' = [core EXCEPT !.got = r]
    BY <1>6 DEF WriteChip, Transfer, Done, rtcVars
  <2>2. CASE core' = Free
    BY <1>1, <1>2, <2>1, <2>2 DEF Once
  <2>3. CASE initialised /\ \E r : core' = [core EXCEPT !.got = r]
    <3>1. core'.task = core.task /\ core'.step = core.step
      BY <2>3 DEF Shape
    <3>2. core.step = 0
      BY <1>6 DEF ReadChip, WriteChip, Transfer, Once
    <3> QED
      BY <1>2, <2>1, <2>3, <3>1, <3>2 DEF Once
  <2> QED
    BY <2>1, <2>2, <2>3
<1>7. CASE RTC_write
  <2>1. initialised /\ UNCHANGED initialised /\ core.task.f = "write" /\ core.got # <<>>
    BY <1>7 DEF RTC_write, Update, Once
  <2>2. CASE core' = Free
    BY <1>1, <1>2, <2>1, <2>2 DEF Once
  <2>3. CASE GoesOn
    <3>1. core'.task = core.task /\ core'.got = core.got
      BY <2>3 DEF GoesOn, Shape
    <3>2. ~ready'
      <4>1. \/ core.step = 0 /\ ready' = FALSE
            \/ core.step = 1 /\ UNCHANGED ready
            \/ core.step = 2 /\ Done
        BY <1>7 DEF RTC_write, Update
      <4>2. core.step = 2 => core'.step # 0
        BY <2>3 DEF GoesOn, Shape
      <4> QED
        BY <1>1, <2>1, <4>1, <4>2 DEF Once, Done
    <3> QED
      BY <1>2, <2>1, <3>1, <3>2 DEF Once
  <2> QED
    BY <1>7, <2>2, <2>3 DEF RTC_write, Done
<1> QED
  BY <1>3, <1>4, <1>5, <1>6, <1>7

\* The loop and the interrupts queue reads and writes.
LEMMA OnceStep == Shape /\ Once /\ [Next]_vars => Once'
<1> SUFFICES ASSUME Shape, Once, [Next]_vars PROVE Once'
  OBVIOUS
<1>1. CASE SettingUp' = SettingUp /\ UNCHANGED <<alarm, core, initialised, ready>>
  BY <1>1 DEF Once
<1>2. CASE UNCHANGED <<queue, alarm, core, initialised, ready>>
  BY <1>1, <1>2 DEF SettingUp
<1>3. CASE RTC_on_update
  BY <1>1, <1>3, JoinSettingUp, TaskKinds DEF RTC_on_update, I2C0_push, rtcVars
<1>4. CASE PushWrite
  <2> DEFINE c == CHOOSE x \in Chunks : x \notin allocated
  <2>1. UNCHANGED <<alarm, core, initialised, ready>>
    BY <1>4 DEF PushWrite, rtcVars
  <2>2. CASE UNCHANGED queue
    BY <1>2, <2>1, <2>2
  <2>3. CASE allocated # Chunks /\ queue' = Append(queue, Write(c))
    <3>1. c \in Chunks
      BY <2>3 DEF Shape
    <3>2. Write(c) \in Queueable /\ Write(c).f # "setup"
      BY <3>1, TaskKinds
    <3> QED
      BY <1>1, <2>1, <2>3, <3>2, JoinSettingUp
  <2> QED
    BY <1>4, <2>2, <2>3 DEF PushWrite, I2C0_push
<1>5. CASE PushRead
  BY <1>1, <1>2, <1>5, JoinSettingUp, TaskKinds DEF PushRead, I2C0_push, rtcVars
<1>6. CASE Restart
  <2>1. /\ queue' = <<Read>> /\ core' = [task |-> NoTask, got |-> <<>>, step |-> 0]
        /\ ~(initialised' /\ alarm') /\ ready' = FALSE
    BY <1>6 DEF Restart, Free
  <2>2. SettingUp' = {}
    BY <2>1, TaskKinds DEF SettingUp
  <2> QED
    BY <2>1, <2>2, TaskKinds DEF Once
<1> QED
  BY <1>2, <1>3, <1>4, <1>5, <1>6, SetupStep, TakeOnce, CoreOnce
     DEF Next, Interrupt, Core1, Loop, Begin, Resume, RTC_on_tick, TickAdds, TickEnds,
         RTC_get_datetime, Waited, vars, rtcVars

-----------------------------------------------------------------------------
(***************************************************************************)
(* The clock in memory and the one of the chip.                            *)
(***************************************************************************)
LEMMA CurrentStep == Shape /\ Current /\ [Next]_vars => Current'
<1> SUFFICES ASSUME Shape, Current, [Next]_vars PROVE Current'
  OBVIOUS
<1>1. CASE core' = Free \/ core'.got = <<>>
  BY <1>1 DEF Current, Free
<1>2. CASE ReadChip
  <2>1. CASE Done
    BY <1>1, <2>1 DEF Done
  <2>2. CASE core' = [core EXCEPT !.got = regs]
    <3>1. core'.got = regs /\ regs' = regs
      BY <1>2, <2>2 DEF ReadChip, Shape, chip
    <3> QED
      BY <3>1 DEF Current
  <2> QED
    BY <1>2, <2>1, <2>2 DEF ReadChip
<1>3. CASE WriteChip
  <2>1. core'.task.f = "write" \/ core' = Free
    BY <1>3 DEF WriteChip, Transfer, Done, Shape
  <2> QED
    BY <1>1, <2>1 DEF Current
<1>4. CASE UNCHANGED <<core, regs>>
  BY <1>4 DEF Current
<1>5. CASE RTC_read \/ RTC_write
  <2>1. CASE Done
    BY <1>1, <2>1 DEF Done
  <2>2. CASE GoesOn
    <3>1. core'.task = core.task /\ core'.got = core.got /\ regs' = regs
      BY <1>5, <2>2 DEF RTC_read, RTC_write, GoesOn, Shape
    <3> QED
      BY <3>1 DEF Current
  <2> QED
    BY <1>5, <2>1, <2>2 DEF RTC_read, RTC_write
<1>6. CASE I2C0_run \/ RTC_setup \/ Restart
  BY <1>1, <1>6 DEF I2C0_run, RTC_setup, Restart, Done, Free
<1> QED
  BY <1>2, <1>3, <1>4, <1>5, <1>6
     DEF Next, Interrupt, Core1, Loop, Begin, Resume, RTC_on_setup, RTC_on_update, RTC_on_tick,
         TickAdds, TickEnds, RTC_get_datetime, PushWrite, PushRead, Waited, vars, chip

\* What follows needs no more of the epochs than this: a second more or less is
\* none, and the chip's time is an epoch.
Whole == Chip # Zero /\ \A e \in {epoch, tick.from} : e # Zero => Plus(e, 0) = e

\* A step that changes neither the clocks nor the interrupt, nor what core 1 is at.
LEMMA Undisturbing ==
  ASSUME Harmless, UNCHANGED <<rtcVars, tick, chip>>,
         \/ UNCHANGED core
         \/ core.step = 0 /\ core'.step = 0 /\ ~Between /\ ~Between'
  PROVE  Harmless'
<1>1. Chip' = Chip /\ UNCHANGED <<ready, epoch, last_tick, tick, doubt>>
  BY DEF Chip, chip, rtcVars
<1>2. (Running' <=> Running) /\ (Cleared' <=> Cleared)
  BY <1>1 DEF Running, Cleared, Near
<1>3. Between' <=> Between
  BY DEF Between
<1> QED
  BY <1>1, <1>2, <1>3 DEF Harmless

LEMMA TickHarmless ==
  ASSUME Shape, Once, Harmless, Whole, RTC_on_tick \/ TickAdds \/ TickEnds
  PROVE  Harmless'
<1>1. UNCHANGED <<ready, core, doubt>> /\ Chip' = Chip /\ (Between' <=> Between)
  BY DEF RTC_on_tick, TickAdds, TickEnds, Chip, Between, rtcVars, chip
<1>2. CASE doubt \/ (Between /\ core.step < 2)
  BY <1>1, <1>2 DEF Harmless
<1>3. CASE RTC_on_tick
  <2>1. ready /\ epoch # Zero /\ UNCHANGED <<epoch, last_tick>>
        /\ tick' = [from |-> epoch, delta |-> last_tick, added |-> FALSE]
    BY <1>3 DEF RTC_on_tick, rtcVars
  <2>2. CASE ~Between /\ Running
    <3>1. tick'.from = epoch /\ tick'.delta = last_tick
      BY <2>1
    <3> QED
      BY <1>1, <2>1, <2>2, <3>1 DEF Harmless, Running, Near
  <2> QED
    BY <1>2, <2>1, <2>2 DEF Harmless, Cleared
<1>4. CASE TickAdds
  <2>1. /\ tick # NoTick /\ ~tick.added /\ tick' = [NoTick EXCEPT !.added = TRUE] /\ UNCHANGED last_tick
        /\ \/ tick.delta # Never /\ epoch' \in {Plus(e, tick.delta) : e \in {tick.from, epoch}}
           \/ UNCHANGED epoch
    BY <1>4 DEF TickAdds
  <2>2. CASE ~Between /\ Running
    <3>1. Near(tick.from) /\ tick.delta \in {Never, 0} /\ Near(epoch)
      BY <2>1, <2>2 DEF Running
    <3>2. epoch' = tick.from \/ epoch' = epoch
      BY <2>1, <3>1 DEF Whole, Near
    <3>3. Near(epoch)'
      BY <1>1, <3>1, <3>2 DEF Near
    <3>4. tick'.added
      BY <2>1 DEF NoTick
    <3> QED
      BY <1>1, <2>1, <2>2, <3>3, <3>4 DEF Harmless, Running
  <2> QED
    BY <1>2, <2>1, <2>2 DEF Harmless, Cleared
<1>5. CASE TickEnds
  <2>1. tick # NoTick /\ tick' = NoTick /\ last_tick' = 0 /\ UNCHANGED epoch
    BY <1>5 DEF TickEnds, NoTick
  <2>2. CASE ~Between /\ Running
    BY <1>1, <2>1, <2>2 DEF Harmless, Running, Near
  <2> QED
    BY <1>2, <2>1, <2>2 DEF Harmless, Cleared
<1> QED
  BY <1>3, <1>4, <1>5

\* RTC_read makes a cleared clock ready, then brings the epoch back to the chip's.
\* What an interrupt writes over it is as near to the chip.
LEMMA ReadHarmless ==
  ASSUME Shape, Once, Current, Harmless, Whole, RTC_read
  PROVE  Harmless'
<1>1. Chip' = Chip /\ UNCHANGED tick /\ core.task.f = "read" /\ core.got # <<>> /\ ~Between /\ core.step \in {0, 1}
  BY DEF RTC_read, Update, Chip, Between
<1>2. ~Between'
  <2>1. core'.task.f # "write"
    BY <1>1, TaskKinds DEF RTC_read, GoesOn, Done, Free, Shape
  <2> QED
    BY <2>1 DEF Between
<1>3. CASE Update("read", 0)
  <2>1. /\ core.step = 0 /\ ready' /\ UNCHANGED doubt /\ core'.step = 1
        /\ \/ ready /\ UNCHANGED <<epoch, last_tick>>
           \/ ~ready /\ (last_tick = Never => last_tick' = Never) /\ (epoch = Zero => epoch' = Zero)
    BY <1>3 DEF RTC_read, Update, GoesOn, Shape, Lagging
  <2>2. CASE Running
    BY <1>1, <1>2, <2>1, <2>2 DEF Harmless, Running, Near
  <2>3. CASE Cleared /\ ~ready
    BY <1>1, <1>2, <2>1, <2>3 DEF Harmless, Cleared
  <2> QED
    BY <1>1, <2>1, <2>2, <2>3 DEF Harmless
<1>4. CASE Update("read", 1)
  <2>1. /\ ready /\ ready' /\ UNCHANGED last_tick
        /\ Adjust(datetime_to_epoch(RX8900SA_get_datetime(core.got)))
        /\ doubt' = (doubt /\ (tick # NoTick \/ last_tick \notin {Never, 0}))
    BY <1>1, <1>4 DEF RTC_read, Update, Once
  <2>2. datetime_to_epoch(RX8900SA_get_datetime(core.got)) = Chip
    BY <1>1 DEF Current, Chip
  <2>3. Near(epoch)'
    <3>1. epoch' = Chip \/ (epoch' = epoch /\ epoch # Zero /\ ~Far(Chip, epoch))
      BY <2>1, <2>2 DEF Adjust
    <3> QED
      BY <1>1, <3>1, FarSymmetric DEF Near, Whole
  <2>4. CASE ~doubt'
    <3>1. Running \/ (tick = NoTick /\ last_tick \in {Never, 0})
      BY <1>1, <2>1, <2>4 DEF Harmless, Cleared
    <3> QED
      BY <1>1, <1>2, <2>1, <2>3, <3>1 DEF Harmless, Running, Near
  <2> QED
    BY <2>4 DEF Harmless
<1> QED
  BY <1>3, <1>4 DEF RTC_read

LEMMA ChipHarmless == ASSUME Shape, Once, Harmless, WriteChip PROVE Harmless'
<1>1. tick = NoTick /\ core.task.f = "write" /\ core.got = <<>> /\ core.step = 0 /\ ~Between
  BY DEF WriteChip, Transfer, Once, Between
<1>2. CASE UNCHANGED chip /\ core' = Free
  <2>1. ~Between' /\ core'.step = 0
    BY <1>2 DEF Between, Free
  <2> QED
    BY <1>1, <1>2, <2>1, Undisturbing DEF WriteChip
<1>3. CASE doubt'
  BY <1>3 DEF Harmless
<1>4. CASE core' = [core EXCEPT !.got = RX8900SA_set_datetime(content[core.task.chunk])]
  <2>1. core'.task.f = "write" /\ core'.got # <<>> /\ core'.step = 0
    BY <1>1, <1>4 DEF Shape, RX8900SA_set_datetime
  <2> QED
    BY <2>1 DEF Harmless, Between
<1> QED
  BY <1>2, <1>3, <1>4 DEF WriteChip, Done, chip

\* RTC_write clears all three, or leaves the clock in doubt.
LEMMA WriteHarmless == ASSUME Shape, Once, Harmless, RTC_write PROVE Harmless'
<1>1. Between /\ UNCHANGED tick
  BY DEF RTC_write, Update, Between
<1>2. CASE GoesOn /\ core.step \in {0, 1}
  <2>1. core'.step = core.step + 1 /\ Between'
    BY <1>1, <1>2 DEF GoesOn, Shape, Between
  <2>2. core.step = 1 => epoch' = Zero /\ doubt' = (doubt \/ tick # NoTick)
    BY DEF RTC_write, Update
  <2>3. core.step = 1 => doubt' \/ tick' = NoTick
    BY <1>1, <2>2
  <2>4. core.step = 1 => core'.step = 2
    BY <2>1
  <2>5. core.step = 0 => core'.step < 2
    BY <2>1
  <2> QED
    BY <1>2, <2>1, <2>2, <2>3, <2>4, <2>5 DEF Harmless
<1>3. CASE Update("write", 2)
  <2>1. /\ core.step = 2 /\ core' = Free /\ last_tick' = Never /\ UNCHANGED <<ready, epoch>>
        /\ doubt' = (doubt \/ tick # NoTick)
    BY <1>3 DEF RTC_write, Update, Done, Forgets
  <2>2. ~Between' /\ ~ready
    BY <1>1, <2>1, TaskKinds DEF Free, Between, Once
  <2>3. doubt' \/ (~doubt /\ tick = NoTick)
    BY <2>1
  <2>4. ~doubt => epoch = Zero
    BY <1>1, <2>1 DEF Harmless
  <2> QED
    BY <1>1, <2>1, <2>2, <2>3, <2>4 DEF Harmless, Cleared
<1> QED
  BY <1>2, <1>3 DEF RTC_write, Update

LEMMA HarmlessStep == Shape /\ Once /\ Current /\ Harmless /\ Whole /\ [Next]_vars => Harmless'
<1> SUFFICES ASSUME Shape, Once, Current, Harmless, Whole, [Next]_vars PROVE Harmless'
  OBVIOUS
<1>1. CASE I2C0_run
  <2>1. core.step = 0 /\ ~Between /\ core' = [task |-> Head(queue), got |-> <<>>, step |-> 0]
    BY <1>1, TaskKinds DEF I2C0_run, Once, Between, Free
  <2>2. core'.step = 0 /\ ~Between'
    BY <2>1 DEF Between
  <2> QED
    BY <1>1, <2>1, <2>2, Undisturbing DEF I2C0_run
<1>2. CASE RTC_setup
  <2>1. /\ ~ready /\ ~ready' /\ ~Between /\ core' = Free /\ UNCHANGED <<doubt, epoch, last_tick, tick>>
    BY <1>2 DEF RTC_setup, Transfer, Done, Once, Between
  <2>2. ~Between'
    BY <2>1 DEF Free, Between
  <2> QED
    BY <2>1, <2>2 DEF Harmless, Running, Cleared
<1>3. CASE ReadChip
  <2>1. core.step = 0 /\ ~Between /\ core.task.f = "read"
    BY <1>3 DEF ReadChip, Transfer, Once, Between
  <2>2. core'.step = 0 /\ ~Between'
    BY <1>3, <2>1 DEF ReadChip, Done, Free, Shape, Between
  <2> QED
    BY <1>3, <2>1, <2>2, Undisturbing DEF ReadChip
<1>4. CASE UNCHANGED <<rtcVars, tick, chip, core>>
  BY <1>4, Undisturbing
<1>5. CASE Restart
  <2>1. /\ ready' = FALSE /\ epoch' = Zero /\ last_tick' = Never /\ tick' = NoTick /\ core' = Free
    BY <1>5 DEF Restart
  <2>2. ~Between'
    BY <2>1 DEF Free, Between
  <2> QED
    BY <2>1, <2>2 DEF Harmless, Cleared
<1> QED
  BY <1>1, <1>2, <1>3, <1>4, <1>5, TickHarmless, ReadHarmless, ChipHarmless, WriteHarmless
     DEF Next, Interrupt, Core1, Loop, Begin, Resume, RTC_on_setup, RTC_on_update,
         RTC_get_datetime, PushWrite, PushRead, Waited, vars

-----------------------------------------------------------------------------
(***************************************************************************)
(* The calendar.                                                           *)
(***************************************************************************)
Leap(y) == IF is_leap(y) THEN 1 ELSE 0

LEMMA Multiples ==
  ASSUME NEW y \in Nat \ {0}
  PROVE  /\ y \div 4 = (y - 1) \div 4 + IF y % 4 = 0 THEN 1 ELSE 0
         /\ y \div 100 = (y - 1) \div 100 + IF y % 100 = 0 THEN 1 ELSE 0
         /\ y \div 400 = (y - 1) \div 400 + IF y % 400 = 0 THEN 1 ELSE 0
         /\ y % 400 = 0 => y % 100 = 0
         /\ y % 100 = 0 => y % 4 = 0
<1>1. y \div 4 = (y - 1) \div 4 + IF y % 4 = 0 THEN 1 ELSE 0
  OBVIOUS
<1>2. y \div 100 = (y - 1) \div 100 + IF y % 100 = 0 THEN 1 ELSE 0
  OBVIOUS
<1>3. y \div 400 = (y - 1) \div 400 + IF y % 400 = 0 THEN 1 ELSE 0
  OBVIOUS
<1>4. y % 400 = 0 => y % 100 = 0
  OBVIOUS
<1>5. y % 100 = 0 => y % 4 = 0
  OBVIOUS
<1> QED
  BY <1>1, <1>2, <1>3, <1>4, <1>5

LEMMA YearLength ==
  ASSUME NEW y \in Nat \ {0}
  PROVE  Years(y) \in Int /\ Years(y + 1) = Years(y) + 365 + Leap(y) /\ Leap(y) \in {0, 1}
<1>1. LeapsBefore(y + 1) = LeapsBefore(y) + Leap(y)
  <2>1. LeapsBefore(y + 1) = (y \div 4) - (y \div 100) + (y \div 400)
    BY DEF LeapsBefore
  <2> QED
    BY <2>1, Multiples DEF LeapsBefore, Leap, is_leap
<1>2. LeapsBefore(y) \in Int /\ LeapsBefore(1970) \in Int
  BY DEF LeapsBefore
<1>3. Leap(y) \in {0, 1}
  BY DEF Leap
<1> HIDE DEF LeapsBefore, Leap
<1> QED
  BY <1>1, <1>2, <1>3 DEF Years

LEMMA Centuries ==
  Years(1970) = 0 /\ Years(2000) = 10957 /\ Years(2100) = 47482 /\ Years(2101) = 47847
  BY DEF Years, LeapsBefore

\* A value at or above the first of some steps and below the last is between two.
LEMMA BetweenSteps ==
  ASSUME NEW n \in Nat, NEW f \in [Nat -> Int], NEW d \in Int, f[0] <= d, d < f[n + 1]
  PROVE  \E k \in 0 .. n : f[k] <= d /\ d < f[k + 1]
<1> DEFINE R == {ss \in Nat \X Nat : ss[1] < ss[2]}
           B == {k \in Nat : d < f[k + 1]}
<1>1. IsWellFoundedOn(R, Nat)
  BY NatLessThanWellFounded DEF OpToRel
<1>2. \A k, l \in Nat : k < l => <<k, l>> \in R
  OBVIOUS
<1> HIDE DEF R
<1>3. PICK k \in B : \A l \in B : <<l, k>> \notin R
  <2>1. B \subseteq Nat /\ B # {}
    OBVIOUS
  <2> QED
    BY <1>1, <2>1, WFMin
<1>4. k \in Nat /\ d < f[k + 1] /\ f[k] \in Int
  BY <1>3
<1>5. ASSUME NEW l \in Nat, l < k PROVE ~(d < f[l + 1])
  <2>1. l \notin B
    BY <1>2, <1>3, <1>4, <1>5
  <2> QED
    BY <2>1
<1>6. k <= n
  BY <1>4, <1>5
<1>7. CASE k = 0
  BY <1>4, <1>6, <1>7
<1>8. CASE k # 0
  <2>1. k - 1 \in Nat /\ k - 1 < k /\ (k - 1) + 1 = k
    BY <1>4, <1>8
  <2>2. ~(d < f[k])
    BY <1>5, <2>1
  <2> QED
    BY <1>4, <1>6, <2>2
<1> QED
  BY <1>7, <1>8

\* The year of a day.
LEMMA YearExists ==
  ASSUME NEW d \in Int, Years(1970) <= d, d < Years(2101)
  PROVE  \E y \in 1970 .. 2100 : Years(y) <= d /\ d < Years(y + 1)
<1> DEFINE f == [k \in Nat |-> Years(1970 + k)]
<1>1. f \in [Nat -> Int] /\ \A k \in Nat : f[k] = Years(1970 + k)
  BY YearLength
<1> HIDE DEF f
<1>2. f[0] = Years(1970) /\ f[130 + 1] = Years(2101)
  <2>1. 0 \in Nat /\ 130 + 1 \in Nat /\ 1970 + 0 = 1970 /\ 1970 + (130 + 1) = 2101
    OBVIOUS
  <2>2. f[0] = Years(1970 + 0) /\ f[130 + 1] = Years(1970 + (130 + 1))
    BY <1>1, <2>1
  <2> QED
    BY <2>1, <2>2
<1>3. PICK k \in 0 .. 130 : f[k] <= d /\ d < f[k + 1]
  BY <1>1, <1>2, BetweenSteps
<1>4. 1970 + k \in 1970 .. 2100 /\ k \in Nat /\ k + 1 \in Nat /\ 1970 + (k + 1) = (1970 + k) + 1
  BY <1>3
<1>5. f[k] = Years(1970 + k) /\ f[k + 1] = Years((1970 + k) + 1)
  BY <1>1, <1>4
<1> QED
  BY <1>3, <1>4, <1>5

LEMMA MonthTable ==
  ASSUME NEW y
  PROVE  /\ Months(y, 1) = 0 /\ Months(y, 2) = 31
         /\ Months(y, 3) = 59 + Leap(y) /\ Months(y, 4) = 90 + Leap(y)
         /\ Months(y, 5) = 120 + Leap(y) /\ Months(y, 6) = 151 + Leap(y)
         /\ Months(y, 7) = 181 + Leap(y) /\ Months(y, 8) = 212 + Leap(y)
         /\ Months(y, 9) = 243 + Leap(y) /\ Months(y, 10) = 273 + Leap(y)
         /\ Months(y, 11) = 304 + Leap(y) /\ Months(y, 12) = 334 + Leap(y)
         /\ Months(y, 13) = 365 + Leap(y)
  BY DEF Months, Leap

\* The month of a day, which is one of its first 31.
LEMMA MonthExists ==
  ASSUME NEW y, Leap(y) \in {0, 1}, NEW n \in Nat, n < 365 + Leap(y)
  PROVE  /\ \E m \in 1 .. 12 : Months(y, m) <= n /\ n < Months(y, m + 1)
         /\ \A m \in 1 .. 12 : /\ Months(y, m) \in 0 .. 335
                               /\ Months(y, m + 1) <= Months(y, m) + 31
<1> HIDE DEF Months, Leap
<1>1. \A m \in 1 .. 12 : m \in {1, 2, 3, 4, 5, 6, 7, 8, 9, 10, 11, 12}
  OBVIOUS
<1>2. \E m \in {1, 2, 3, 4, 5, 6, 7, 8, 9, 10, 11, 12} : Months(y, m) <= n /\ n < Months(y, m + 1)
  BY MonthTable
<1>3. \A m \in {1, 2, 3, 4, 5, 6, 7, 8, 9, 10, 11, 12} :
        Months(y, m) \in 0 .. 335 /\ Months(y, m + 1) <= Months(y, m) + 31
  BY MonthTable
<1> QED
  BY <1>1, <1>2, <1>3

\* The months as dow counts them, January and February after December.
LEMMA MonthDays ==
  ASSUME NEW y
  PROVE  /\ \A m \in 3 .. 12 : Months(y, m) = Leap(y) + ((31 * (m - 2)) \div 12) + 28 * m - 27
         /\ \A m \in 1 .. 2 : Months(y, m) = ((31 * ((m + 12) - 2)) \div 12) + 28 * m - 56
<1> HIDE DEF Months, Leap
<1>1. \A m \in 3 .. 12 : m \in {3, 4, 5, 6, 7, 8, 9, 10, 11, 12}
  OBVIOUS
<1>2. \A m \in {3, 4, 5, 6, 7, 8, 9, 10, 11, 12} :
        Months(y, m) = Leap(y) + ((31 * (m - 2)) \div 12) + 28 * m - 27
  BY MonthTable DEF Leap
<1>3. \A m \in 1 .. 2 : m = 1 \/ m = 2
  OBVIOUS
<1>4. \A m \in 1 .. 2 : Months(y, m) = ((31 * ((m + 12) - 2)) \div 12) + 28 * m - 56
  BY <1>3, MonthTable
<1> QED
  BY <1>1, <1>2, <1>4

\* The years of this century.
LEMMA ThisCentury ==
  ASSUME NEW a \in 0 .. 99
  PROVE  /\ Years(2000 + a) = 10957 + 365 * a + ((a + 3) \div 4)
         /\ Leap(2000 + a) = IF a % 4 = 0 THEN 1 ELSE 0
         /\ (2000 + a) % 100 = a
<1>1. (2000 + a) % 100 = a
  OBVIOUS
<1>2. LeapsBefore(2000 + a) = 484 + ((a + 3) \div 4)
  <2>1. (2000 + a - 1) \div 4 = 499 + ((a + 3) \div 4)
    OBVIOUS
  <2>2. (2000 + a - 1) \div 100 = IF a = 0 THEN 19 ELSE 20
    OBVIOUS
  <2>3. (2000 + a - 1) \div 400 = IF a = 0 THEN 4 ELSE 5
    OBVIOUS
  <2>4. a # 0 => a + 3 \in Nat /\ (a + 3) \div 4 \in Nat
    OBVIOUS
  <2> QED
    BY <2>1, <2>2, <2>3, <2>4 DEF LeapsBefore
<1>3. LeapsBefore(1970) = 477
  BY DEF LeapsBefore
<1>4. Leap(2000 + a) = IF a % 4 = 0 THEN 1 ELSE 0
  <2>1. (2000 + a) % 4 = a % 4 /\ ((2000 + a) % 400 = 0 <=> a = 0)
    OBVIOUS
  <2>2. a = 0 => a % 4 = 0
    OBVIOUS
  <2> QED
    BY <1>1, <2>1, <2>2 DEF Leap, is_leap
<1> QED
  BY <1>1, <1>2, <1>3, <1>4 DEF Years

LEMMA Weeks ==
  ASSUME NEW n \in Nat, NEW k \in Nat
  PROVE  (n + 7 * k) % 7 = n % 7
  OBVIOUS

\* dow is the day of the week, but in January and February 2000 it is a day late.
THEOREM DayOfWeek ==
  ASSUME NEW t, t.year \in 2000 .. 2099, t.month \in 1 .. 12, t.day \in 1 .. 31
  PROVE  LET e == datetime_to_epoch(t) IN
         dow(t) = IF t.year = 2000 /\ t.month < 3 THEN Weekday(<<e[1] + 1, 0>>) ELSE Weekday(e)
<1> DEFINE a == t.year - 2000
           q == t.day
           n == t.month
           d == Years(t.year) + Months(t.year, n) + q - 1
           Y == IF n < 3 THEN a - 1 ELSE a
           m == IF n < 3 THEN n + 12 ELSE n
           leaps == IF Y < 0 THEN 0 ELSE Y \div 4
           h == q + ((31 * (m - 2)) \div 12) + Y + leaps
<1>1. datetime_to_epoch(t)[1] = d
  BY DEF datetime_to_epoch
<1>2. a \in 0 .. 99 /\ t.year = 2000 + a /\ q \in 1 .. 31 /\ n \in 1 .. 12
  OBVIOUS
<1>3. /\ Years(t.year) = 10957 + 365 * a + ((a + 3) \div 4)
      /\ Leap(t.year) = IF a % 4 = 0 THEN 1 ELSE 0
      /\ t.year % 100 = a
  BY <1>2, ThisCentury
<1>4. dow(t) = weekdays[(h % 7) + 1]
  BY <1>3 DEF dow
<1>5. /\ n >= 3 => Months(t.year, n) = Leap(t.year) + ((31 * (n - 2)) \div 12) + 28 * n - 27
      /\ n < 3 => Months(t.year, n) = ((31 * ((n + 12) - 2)) \div 12) + 28 * n - 56
  BY <1>2, MonthDays
<1> HIDE DEF a, q, n
<1>6. CASE n >= 3
  <2> DEFINE k == (31 * (n - 2)) \div 12
  <2>1. k \in Nat /\ (a + 3) \div 4 + (IF a % 4 = 0 THEN 1 ELSE 0) = (a \div 4) + 1 /\ a \div 4 \in Nat
    BY <1>2, <1>6
  <2>2. h = q + k + a + (a \div 4)
    BY <1>2, <1>6
  <2>3. d + 4 = q + 10957 + 365 * a + (a \div 4) + 1 + k + 28 * n - 27 - 1 + 4
    <3> HIDE DEF k
    <3> QED
      BY <1>2, <1>3, <1>5, <1>6, <2>1 DEF k
  <2>4. d + 4 = h + 7 * (1562 + 52 * a + 4 * n)
    <3> HIDE DEF k, h, d
    <3> QED
      BY <1>2, <2>1, <2>2, <2>3
  <2>5. h \in Nat /\ 1562 + 52 * a + 4 * n \in Nat
    BY <1>2, <2>1, <2>2
  <2>6. (d + 4) % 7 = h % 7
    <3> HIDE DEF h, d
    <3> QED
      BY <2>4, <2>5, Weeks
  <2> QED
    BY <1>1, <1>4, <1>6, <2>6 DEF Weekday, n
<1>7. CASE n < 3 /\ a # 0
  <2> DEFINE k == (31 * ((n + 12) - 2)) \div 12
  <2>1. k \in Nat /\ (a + 3) \div 4 = ((a - 1) \div 4) + 1 /\ (a - 1) \div 4 \in Nat
    BY <1>2, <1>7
  <2>2. h = q + k + (a - 1) + ((a - 1) \div 4)
    BY <1>2, <1>7
  <2>3. d + 4 = q + 10957 + 365 * a + ((a - 1) \div 4) + 1 + k + 28 * n - 56 - 1 + 4
    <3> HIDE DEF k
    <3> QED
      BY <1>2, <1>3, <1>5, <1>7, <2>1 DEF k
  <2>4. d + 4 = h + 7 * (1558 + 52 * a + 4 * n)
    <3> HIDE DEF k, h, d
    <3> QED
      BY <1>2, <2>1, <2>2, <2>3
  <2>5. h \in Nat /\ 1558 + 52 * a + 4 * n \in Nat
    <3> HIDE DEF k, h
    <3> QED
      BY <1>2, <1>7, <2>1, <2>2
  <2>6. (d + 4) % 7 = h % 7
    <3> HIDE DEF h, d
    <3> QED
      BY <2>4, <2>5, Weeks
  <2>7. ~(t.year = 2000)
    BY <1>2, <1>7
  <2> QED
    BY <1>1, <1>4, <2>6, <2>7 DEF Weekday
<1>8. CASE n < 3 /\ a = 0
  <2> DEFINE k == (31 * ((n + 12) - 2)) \div 12
  <2>1. k \in Nat /\ k >= 1
    BY <1>2, <1>8
  <2>2. h = q + k - 1
    BY <1>2, <1>8, <2>1
  <2>3. (d + 1) + 4 = q + 10957 + k + 28 * n - 56 + 4
    <3>1. (a + 3) \div 4 = 0 /\ 365 * a = 0
      BY <1>8
    <3> HIDE DEF k
    <3> QED
      BY <1>2, <1>3, <1>5, <1>8, <2>1, <3>1 DEF k
  <2>4. (d + 1) + 4 = h + 7 * (1558 + 4 * n)
    <3> HIDE DEF k, h, d
    <3> QED
      BY <1>2, <2>1, <2>2, <2>3
  <2>5. h \in Nat /\ 1558 + 4 * n \in Nat
    <3> HIDE DEF k, h
    <3> QED
      BY <1>2, <2>1, <2>2
  <2>6. ((d + 1) + 4) % 7 = h % 7
    <3> HIDE DEF h, d
    <3> QED
      BY <2>4, <2>5, Weeks
  <2>7. t.year = 2000 /\ t.month < 3
    BY <1>2, <1>8 DEF n
  <2> QED
    BY <1>1, <1>4, <2>6, <2>7 DEF Weekday
<1> QED
  BY <1>2, <1>6, <1>7, <1>8

InDay(s) == s \in Nat /\ s < 86400
Epochs == {e \in Nat \X Nat : e[1] < Years(2101) /\ InDay(e[2])}
IsDate(date) == date.year \in 1970 .. 2100 /\ date.month \in 1 .. 12 /\ date.day \in 1 .. 31
IsTime(time) == time.hour \in 0 .. 23 /\ time.minute \in 0 .. 59 /\ time.second \in 0 .. 59

\* One day, split into its year, month and day, and its second into a time.
DayOf(y, m, d, s) ==
  [year |-> y, month |-> m, day |-> d - Years(y) - Months(y, m) + 1,
   hour |-> s \div 3600, minute |-> (s % 3600) \div 60, second |-> s % 60, dow |-> 0]
InYear(y, d) == y \in 1970 .. 2100 /\ Years(y) \in Int /\ Years(y) <= d /\ d < Years(y + 1)
InMonth(y, m, n) ==
  /\ m \in 1 .. 12
  /\ Months(y, m) \in Int /\ Months(y, m + 1) \in Int /\ Months(y, m + 1) <= Months(y, m) + 31
  /\ Months(y, m) <= n /\ n < Months(y, m + 1)

LEMMA DayFields ==
  ASSUME NEW y, NEW m, NEW d, NEW s, NEW t, t = DayOf(y, m, d, s)
  PROVE  /\ t.year = y /\ t.month = m /\ t.day = d - Years(y) - Months(y, m) + 1
         /\ t.hour = s \div 3600 /\ t.minute = (s % 3600) \div 60 /\ t.second = s % 60
         /\ "dow" \in DOMAIN t
  BY DEF DayOf

LEMMA Division ==
  ASSUME NEW n \in Nat, NEW k \in Nat \ {0}
  PROVE  /\ n \div k \in Nat /\ n % k \in Nat /\ n % k < k
         /\ n = k * (n \div k) + (n % k)
  OBVIOUS

LEMMA SecondSplit ==
  ASSUME NEW s \in Nat, s < 86400
  PROVE  /\ s \div 3600 \in 0 .. 23 /\ (s % 3600) \div 60 \in 0 .. 59 /\ s % 60 \in 0 .. 59
         /\ 3600 * (s \div 3600) + 60 * ((s % 3600) \div 60) + (s % 60) = s
<1> DEFINE h == s \div 3600
           r == s % 3600
           m == r \div 60
           z == r % 60
<1>1. h \in Nat /\ r \in Nat /\ r < 3600 /\ s = 3600 * h + r
  BY Division
<1>2. m \in Nat /\ z \in Nat /\ z < 60 /\ r = 60 * m + z
  BY <1>1, Division
<1>3. s % 60 = z
  OBVIOUS
<1> HIDE DEF h, r, m, z
<1>4. h <= 23 /\ m <= 59
  BY <1>1, <1>2
<1>5. 3600 * h + 60 * m + z = s
  BY <1>1, <1>2
<1> QED
  BY <1>1, <1>2, <1>3, <1>4, <1>5 DEF h, r, m

LEMMA DaySplit ==
  ASSUME NEW d \in Int, NEW s, InDay(s), NEW y, InYear(y, d), NEW m, InMonth(y, m, d - Years(y)),
         NEW t, t = DayOf(y, m, d, s)
  PROVE  /\ IsDate(t) /\ IsTime(t) /\ datetime_to_epoch(t) = <<d, s>> /\ "dow" \in DOMAIN t
         /\ d - Years(t.year) < Months(t.year, t.month + 1)
<1>1. /\ t.year = y /\ t.month = m /\ t.day = d - Years(y) - Months(y, m) + 1
      /\ t.hour = s \div 3600 /\ t.minute = (s % 3600) \div 60 /\ t.second = s % 60
      /\ "dow" \in DOMAIN t
  BY DayFields
<1>2. /\ s \div 3600 \in 0 .. 23 /\ (s % 3600) \div 60 \in 0 .. 59 /\ s % 60 \in 0 .. 59
      /\ 3600 * (s \div 3600) + 60 * ((s % 3600) \div 60) + (s % 60) = s
  BY SecondSplit DEF InDay
<1>3. /\ y \in 1970 .. 2100 /\ m \in 1 .. 12
      /\ d - Years(y) - Months(y, m) + 1 \in 1 .. 31
      /\ Years(y) + Months(y, m) + (d - Years(y) - Months(y, m) + 1) - 1 = d
  <2>1. y \in 1970 .. 2100 /\ Years(y) \in Int
    BY DEF InYear
  <2>2. /\ m \in 1 .. 12 /\ Months(y, m) \in Int /\ Months(y, m + 1) \in Int
        /\ Months(y, m + 1) <= Months(y, m) + 31
        /\ Months(y, m) <= d - Years(y) /\ d - Years(y) < Months(y, m + 1)
    BY DEF InMonth
  <2>3. \A Y, M, N \in Int : M <= d - Y /\ d - Y < N /\ N <= M + 31
                             => d - Y - M + 1 \in 1 .. 31 /\ Y + M + (d - Y - M + 1) - 1 = d
    OBVIOUS
  <2> QED
    BY <2>1, <2>2, <2>3
<1>4. IsDate(t)
  BY <1>1, <1>3 DEF IsDate
<1>5. IsTime(t)
  BY <1>1, <1>2 DEF IsTime
<1>6. Years(t.year) + Months(t.year, t.month) + t.day - 1 = d
  BY <1>1, <1>3
<1>7. 3600 * t.hour + 60 * t.minute + t.second = s
  BY <1>1, <1>2
<1>8. d - Years(t.year) < Months(t.year, t.month + 1)
  BY <1>1 DEF InMonth
<1> QED
  BY <1>1, <1>4, <1>5, <1>6, <1>7, <1>8 DEF datetime_to_epoch

LEMMA YearIn ==
  ASSUME NEW d \in Nat, d < Years(2101)
  PROVE  /\ YearOf(d) # {}
         /\ \A y \in YearOf(d) : /\ InYear(y, d)
                                 /\ d - Years(y) \in Nat /\ d - Years(y) < 365 + Leap(y)
                                 /\ Leap(y) \in {0, 1}
<1>1. YearOf(d) # {}
  <2>1. Years(1970) <= d /\ d < Years(2101) /\ d \in Int
    BY Centuries
  <2> QED
    BY <2>1, YearExists DEF YearOf
<1>2. ASSUME NEW y \in YearOf(d)
      PROVE  /\ InYear(y, d)
             /\ d - Years(y) \in Nat /\ d - Years(y) < 365 + Leap(y)
             /\ Leap(y) \in {0, 1}
  <2>1. y \in 1970 .. 2100 /\ y \in Nat \ {0} /\ Years(y) <= d /\ d < Years(y + 1)
    BY DEF YearOf
  <2>2. Years(y) \in Int /\ Years(y + 1) = Years(y) + 365 + Leap(y) /\ Leap(y) \in {0, 1}
    BY <2>1, YearLength
  <2> QED
    BY <2>1, <2>2 DEF InYear
<1> QED
  BY <1>1, <1>2

LEMMA MonthIn ==
  ASSUME NEW y, Leap(y) \in {0, 1}, NEW n \in Nat, n < 365 + Leap(y)
  PROVE  /\ MonthOf(y, n) # {}
         /\ \A m \in MonthOf(y, n) : InMonth(y, m, n)
<1>1. /\ \E m \in 1 .. 12 : Months(y, m) <= n /\ n < Months(y, m + 1)
      /\ \A m \in 1 .. 12 : /\ Months(y, m) \in 0 .. 335
                            /\ Months(y, m + 1) <= Months(y, m) + 31
  BY MonthExists
<1>2. ASSUME NEW m \in 1 .. 12 PROVE Months(y, m + 1) \in Int
  <2>1. CASE m = 12
    <3>1. Months(y, 13) \in Int
      BY MonthTable
    <3> QED
      BY <2>1, <3>1
  <2>2. CASE m # 12
    <3>1. m + 1 \in 1 .. 12
      BY <2>2
    <3>2. Months(y, m + 1) \in 0 .. 335
      BY <1>1, <3>1
    <3> QED
      BY <3>2
  <2> QED
    BY <2>1, <2>2
<1>3. MonthOf(y, n) # {}
  BY <1>1 DEF MonthOf
<1>4. ASSUME NEW m \in MonthOf(y, n) PROVE InMonth(y, m, n)
  <2>1. m \in 1 .. 12 /\ Months(y, m) <= n /\ n < Months(y, m + 1)
    BY DEF MonthOf
  <2>2. Months(y, m) \in Int /\ Months(y, m + 1) <= Months(y, m) + 31
    BY <1>1, <2>1
  <2> QED
    BY <1>2, <2>1, <2>2 DEF InMonth
<1> QED
  BY <1>3, <1>4

\* Back and forth: from an epoch to a date and time and back.
THEOREM RoundTrip ==
  ASSUME NEW e \in Epochs, NEW t, t = epoch_to_datetime(e)
  PROVE  /\ datetime_to_epoch(t) = e
         /\ IsDate(t) /\ IsTime(t) /\ "dow" \in DOMAIN t
         /\ e[1] - Years(t.year) < Months(t.year, t.month + 1)
<1> DEFINE d == e[1]
           s == e[2]
           D == UNION {DayIn(y, d - Years(y), s) : y \in YearOf(d)}
<1>1. d \in Nat /\ d \in Int /\ d < Years(2101) /\ InDay(s) /\ e = <<d, s>>
  BY DEF Epochs
<1>2. epoch_to_datetime(e) = CHOOSE u \in D : TRUE
  BY DEF epoch_to_datetime
<1> HIDE DEF d, s
<1>3. \A y : DayIn(y, d - Years(y), s) = {DayOf(y, m, d, s) : m \in MonthOf(y, d - Years(y))}
  BY DEF DayIn, DayOf
<1>4. \A y \in YearOf(d) : /\ InYear(y, d)
                           /\ d - Years(y) \in Nat /\ d - Years(y) < 365 + Leap(y)
                           /\ Leap(y) \in {0, 1}
  BY <1>1, YearIn
<1>5. \A y \in YearOf(d) : /\ MonthOf(y, d - Years(y)) # {}
                           /\ \A m \in MonthOf(y, d - Years(y)) : InMonth(y, m, d - Years(y))
  BY <1>4, MonthIn
<1>6. D # {}
  <2>1. PICK y \in YearOf(d) : TRUE
    BY <1>1, YearIn
  <2>2. PICK m \in MonthOf(y, d - Years(y)) : TRUE
    BY <1>5, <2>1
  <2>3. DayOf(y, m, d, s) \in D
    BY <1>3, <2>1, <2>2
  <2> QED
    BY <2>3
<1>7. ASSUME NEW u \in D
      PROVE  /\ IsDate(u) /\ IsTime(u) /\ datetime_to_epoch(u) = <<d, s>> /\ "dow" \in DOMAIN u
             /\ d - Years(u.year) < Months(u.year, u.month + 1)
  <2>1. PICK y \in YearOf(d) : u \in DayIn(y, d - Years(y), s)
    BY <1>7
  <2>2. PICK m \in MonthOf(y, d - Years(y)) : u = DayOf(y, m, d, s)
    BY <1>3, <2>1
  <2>3. InYear(y, d) /\ InMonth(y, m, d - Years(y))
    BY <1>4, <1>5, <2>1, <2>2
  <2> HIDE DEF D
  <2> QED
    BY <1>1, <2>2, <2>3, DaySplit
<1> HIDE DEF D
<1>8. t \in D
  BY <1>2, <1>6
<1> QED
  BY <1>1, <1>7, <1>8 DEF d

LEMMA MonthStart ==
  ASSUME NEW y, NEW m \in 1 .. 12
  PROVE  Leap(y) \in {0, 1} /\ Months(y, m) \in Nat /\ Months(y, m) <= 334 + Leap(y)
<1>1. Leap(y) \in {0, 1}
  BY DEF Leap
<1>2. m \in {1, 2, 3, 4, 5, 6, 7, 8, 9, 10, 11, 12}
  OBVIOUS
<1> HIDE DEF Leap, Months
<1> QED
  BY <1>1, <1>2, MonthTable

\* The days of this century.
Century == {e \in Nat \X Nat : Years(2000) <= e[1] /\ e[1] < Years(2100) /\ InDay(e[2])}

LEMMA CenturyEpochs == Century \subseteq Epochs
  BY Centuries DEF Century, Epochs

LEMMA YearInCentury ==
  ASSUME NEW y \in 2000 .. 2099
  PROVE  Years(y) \in Nat /\ Years(2000) <= Years(y) /\ Years(y) + 365 + Leap(y) <= Years(2100)
<1> DEFINE a == y - 2000
<1>1. a \in 0 .. 99 /\ y = 2000 + a
  OBVIOUS
<1>2. Years(y) = 10957 + 365 * a + ((a + 3) \div 4) /\ Leap(y) = IF a % 4 = 0 THEN 1 ELSE 0
  BY <1>1, ThisCentury
<1> HIDE DEF a
<1>3. /\ (a + 3) \div 4 \in Nat
      /\ 10957 + 365 * a + ((a + 3) \div 4) + 365 + (IF a % 4 = 0 THEN 1 ELSE 0) <= 47482
  BY <1>1
<1> QED
  BY <1>1, <1>2, <1>3, Centuries

\* A date and time of this century has an epoch in it.
LEMMA ValidEpoch ==
  ASSUME NEW t, Valid(t)
  PROVE  datetime_to_epoch(t) \in Century
<1>1. Years(t.year) \in Nat /\ Years(2000) <= Years(t.year) /\ Years(t.year) + 365 + Leap(t.year) <= Years(2100)
  BY YearInCentury DEF Valid
<1>2. /\ Leap(t.year) \in {0, 1} /\ Months(t.year, t.month) \in Nat
      /\ Months(t.year, t.month) <= 334 + Leap(t.year)
  BY MonthStart DEF Valid
<1>3. t.day \in 1 .. 31
  BY DEF Valid
<1>4. InDay(3600 * t.hour + 60 * t.minute + t.second)
  <2>1. t.hour \in 0 .. 23 /\ t.minute \in 0 .. 59 /\ t.second \in 0 .. 59
    BY DEF Valid
  <2>2. \A h, m, s \in Nat : h <= 23 /\ m <= 59 /\ s <= 59 => 3600 * h + 60 * m + s < 86400
    BY SMT
  <2>3. \A h, m, s \in Nat : 3600 * h + 60 * m + s \in Nat
    BY SMT
  <2>4. /\ t.hour \in Nat /\ t.minute \in Nat /\ t.second \in Nat
        /\ t.hour <= 23 /\ t.minute <= 59 /\ t.second <= 59
    BY <2>1
  <2> QED
    BY <2>2, <2>3, <2>4 DEF InDay
<1>5. Years(2000) \in Nat /\ Years(2100) \in Nat
  BY Centuries
<1> DEFINE d == Years(t.year) + Months(t.year, t.month) + t.day - 1
<1>6. d \in Nat /\ Years(2000) <= d /\ d < Years(2100)
  BY <1>1, <1>2, <1>3, <1>5
<1>7. datetime_to_epoch(t) = <<d, 3600 * t.hour + 60 * t.minute + t.second>>
  BY DEF datetime_to_epoch
<1> QED
  BY <1>4, <1>6, <1>7 DEF Century, InDay

\* And an epoch in it is of a date and time of this century.
LEMMA CenturyYear ==
  ASSUME NEW e \in Century, NEW t, IsDate(t), datetime_to_epoch(t) = e
  PROVE  t.year \in 2000 .. 2099
<1> DEFINE y == t.year
           k == Months(y, t.month) + t.day - 1
<1>1. y \in 1970 .. 2100 /\ t.month \in 1 .. 12 /\ t.day \in 1 .. 31
  BY DEF IsDate
<1>2. Leap(y) \in {0, 1} /\ k \in Nat /\ k < 365 + Leap(y)
  BY <1>1, MonthStart
<1>3. /\ Years(y) \in Int /\ Years(y + 1) = Years(y) + 365 + Leap(y)
  BY <1>1, YearLength
<1>4. Years(y) + k = e[1]
  <2>1. e[1] = Years(y) + Months(y, t.month) + t.day - 1
    BY DEF datetime_to_epoch
  <2>2. Months(y, t.month) \in Nat
    BY <1>1, MonthStart
  <2> QED
    BY <1>1, <1>3, <2>1, <2>2
<1>5. Years(2000) <= e[1] /\ e[1] < Years(2100) /\ e[1] \in Int
  BY DEF Century
<1> HIDE DEF y, k
<1>6. ASSUME y <= 1999 PROVE FALSE
  <2>1. y \in 1970 .. 1999
    BY <1>1, <1>6
  <2>2. LeapsBefore(y + 1) = (y \div 4) - 19 + 4 /\ y \div 4 <= 499 /\ y \div 4 \in Int
    <3>1. (y + 1) - 1 = y /\ y \div 100 = 19 /\ y \div 400 = 4 /\ y \div 4 <= 499 /\ y \div 4 \in Int
      BY <2>1
    <3> QED
      BY <2>1, <3>1 DEF LeapsBefore
  <2>3. LeapsBefore(1970) = 477
    BY DEF LeapsBefore
  <2>4. Years(y + 1) = 365 * (y + 1 - 1970) + LeapsBefore(y + 1) - 477
    BY <2>1, <2>2, <2>3 DEF Years
  <2>5. Years(y + 1) <= 10957
    BY <2>1, <2>2, <2>4
  <2> QED
    BY <1>2, <1>3, <1>4, <1>5, <2>5, Centuries
<1>7. ASSUME y = 2100 PROVE FALSE
  BY <1>2, <1>3, <1>4, <1>5, <1>7
<1> QED
  BY <1>1, <1>6, <1>7 DEF y

\* What is told of an epoch of this century.
LEMMA CenturyTold ==
  ASSUME NEW e \in Century, NEW t, t = epoch_to_datetime(e)
  PROVE  Early2000(e) \/ dow(t) = Weekday(e)
<1>1. /\ datetime_to_epoch(t) = e /\ IsDate(t)
      /\ e[1] - Years(t.year) < Months(t.year, t.month + 1)
  BY CenturyEpochs, RoundTrip
<1>2. t.year \in 2000 .. 2099 /\ t.month \in 1 .. 12 /\ t.day \in 1 .. 31
  BY <1>1, CenturyYear DEF IsDate
<1>3. CASE ~(t.year = 2000 /\ t.month < 3)
  <2>1. dow(t) = IF t.year = 2000 /\ t.month < 3
                 THEN Weekday(<<datetime_to_epoch(t)[1] + 1, 0>>) ELSE Weekday(datetime_to_epoch(t))
    BY <1>2, DayOfWeek
  <2> QED
    BY <1>1, <1>3, <2>1
<1>4. CASE t.year = 2000 /\ t.month < 3
  <2>1. Months(2000, 2) = 31 /\ Months(2000, 3) = 60
    BY DEF Months, is_leap
  <2>2. t.month + 1 = 2 \/ t.month + 1 = 3
    BY <1>2, <1>4
  <2>3. e[1] - Years(2000) < 60
    BY <1>1, <1>4, <2>1, <2>2, Centuries DEF Century
  <2> QED
    BY <2>3, Centuries DEF Early2000, Century
<1> QED
  BY <1>3, <1>4

LEMMA Bcd ==
  ASSUME NEW n \in 0 .. 99
  PROVE  bcd2dec(dec2bcd(n)) = n
<1>1. n % 100 = n
  OBVIOUS
<1>2. PICK q \in 0 .. 9, z \in 0 .. 9 : n = 10 * q + z /\ n \div 10 = q /\ n % 10 = z
  <2>1. n \div 10 \in 0 .. 9 /\ n % 10 \in 0 .. 9 /\ n = 10 * (n \div 10) + (n % 10)
    OBVIOUS
  <2> QED
    BY <2>1
<1>3. dec2bcd(n) = 16 * q + z
  BY <1>1, <1>2 DEF dec2bcd
<1>4. (16 * q + z) \div 16 = q /\ (16 * q + z) % 16 = z
  BY <1>2
<1> QED
  BY <1>2, <1>3, <1>4 DEF bcd2dec

\* What is written to the chip is valid when it is read, in this century.
LEMMA Written ==
  ASSUME NEW t, IsDate(t), IsTime(t)
  PROVE  Valid(RX8900SA_get_datetime(RX8900SA_set_datetime(t)))
<1> DEFINE r == RX8900SA_set_datetime(t)
           u == RX8900SA_get_datetime(r)
<1>1. /\ t.month \in 1 .. 12 /\ t.day \in 1 .. 31
      /\ t.hour \in 0 .. 23 /\ t.minute \in 0 .. 59 /\ t.second \in 0 .. 59
      /\ t.year % 100 \in 0 .. 99
  <2>1. t.year \in 1970 .. 2100 => t.year % 100 \in 0 .. 99
    OBVIOUS
  <2> QED
    BY <2>1 DEF IsDate, IsTime
<1>2. /\ t.month \in 0 .. 99 /\ t.day \in 0 .. 99 /\ t.hour \in 0 .. 99
      /\ t.minute \in 0 .. 99 /\ t.second \in 0 .. 99
  BY <1>1
<1>3. /\ r[1] = dec2bcd(t.second) /\ r[2] = dec2bcd(t.minute) /\ r[3] = dec2bcd(t.hour)
      /\ r[5] = dec2bcd(t.day) /\ r[6] = dec2bcd(t.month) /\ r[7] = dec2bcd(t.year % 100)
  BY DEF RX8900SA_set_datetime
<1>4. /\ u.year = 2000 + bcd2dec(r[7]) /\ u.month = bcd2dec(r[6]) /\ u.day = bcd2dec(r[5])
      /\ u.hour = bcd2dec(r[3]) /\ u.minute = bcd2dec(r[2]) /\ u.second = bcd2dec(r[1])
  BY DEF RX8900SA_get_datetime
<1> HIDE DEF r, u
<1>5. /\ u.year = 2000 + (t.year % 100) /\ u.month = t.month /\ u.day = t.day
      /\ u.hour = t.hour /\ u.minute = t.minute /\ u.second = t.second
  BY <1>1, <1>2, <1>3, <1>4, Bcd
<1>6. 2000 + (t.year % 100) \in 2000 .. 2099
  BY <1>1
<1>7. Valid(u)
  BY <1>1, <1>5, <1>6 DEF Valid
<1> QED
  BY <1>7 DEF r, u

LEMMA SetupValid == Valid(RX8900SA_get_datetime(RX8900SA_setup))
<1> DEFINE u == RX8900SA_get_datetime(RX8900SA_setup)
<1>1. /\ u.year = 2000 + bcd2dec(37) /\ u.month = bcd2dec(1) /\ u.day = bcd2dec(1)
      /\ u.hour = bcd2dec(0) /\ u.minute = bcd2dec(0) /\ u.second = bcd2dec(0)
  BY DEF RX8900SA_get_datetime, RX8900SA_setup
<1>2. bcd2dec(37) = 25 /\ bcd2dec(1) = 1 /\ bcd2dec(0) = 0
  BY DEF bcd2dec
<1> QED
  BY <1>1, <1>2 DEF Valid

-----------------------------------------------------------------------------
(***************************************************************************)
(* The dates and times that are set, kept and told.                        *)
(***************************************************************************)
\* What the loop is to set is a date and a time as soon as it is to write it.
Requested ==
  /\ op = [kind |-> op.kind, step |-> op.step, date |-> op.date, time |-> op.time]
  /\ op.step = "write" => IsDate(op.date) /\ IsTime(op.time)
  /\ op.step = "get" => \/ op.kind \in {"get", "ssmp"}
                        \/ op.kind = "date" /\ IsDate(op.date)
                        \/ op.kind = "time" /\ IsTime(op.time)
  /\ op.step = "wait" => op.kind = "ssmp"
Stored ==
  /\ content = [c \in Chunks |-> content[c]]
  /\ \A c \in allocated : IsDate(content[c]) /\ IsTime(content[c])
Span == {e \in Nat \X Nat : e[1] < Years(2100) /\ InDay(e[2])}
Ticks == {Never} \cup Nat
Kept ==
  /\ epoch \in Span /\ tick.from \in Span /\ last_tick \in Ticks /\ tick.delta \in Ticks
  /\ Valid(RX8900SA_get_datetime(regs))

Dated == Requested /\ Stored /\ Kept /\ faults \in Nat

LEMMA IdleRequested ==
  /\ \A o : o = Idle \/ o = Panicked =>
       /\ o = [kind |-> o.kind, step |-> o.step, date |-> o.date, time |-> o.time]
       /\ o.step = "none"
  BY DEF Idle, Panicked

\* The parts of a datetime.
LEMMA Parts ==
  ASSUME NEW t
  PROVE  /\ IsDate(t) <=> IsDate(DateOf(t))
         /\ IsTime(t) <=> IsTime(TimeOf(t))
         /\ \A date, time : /\ IsDate(date) => IsDate(Datetime(date, time))
                            /\ IsTime(time) => IsTime(Datetime(date, time))
         /\ Valid(t) => IsDate(t) /\ IsTime(t)
<1>1. IsDate(t) <=> IsDate(DateOf(t))
  BY DEF IsDate, DateOf
<1>2. IsTime(t) <=> IsTime(TimeOf(t))
  BY DEF IsTime, TimeOf
<1>3. \A date, time : IsDate(date) => IsDate(Datetime(date, time))
  BY DEF IsDate, Datetime
<1>4. \A date, time : IsTime(time) => IsTime(Datetime(date, time))
  BY DEF IsTime, Datetime
<1>5. Valid(t) => IsDate(t) /\ IsTime(t)
  BY DEF Valid, IsDate, IsTime
<1> QED
  BY <1>1, <1>2, <1>3, <1>4, <1>5

\* What the loop begins.
LEMMA BeginRequested ==
  ASSUME NEW kind, NEW date, NEW time, Begin(kind, date, time),
         \/ kind = "get"
         \/ kind = "date" /\ IsDate(date)
         \/ kind = "time" /\ IsTime(time)
         \/ kind \in {"datetime", "ssmp"} /\ IsDate(date) /\ IsTime(time)
  PROVE  Requested'
<1>1. op' = [kind |-> kind, date |-> date, time |-> time,
             step |-> IF kind \in {"datetime", "ssmp"} THEN "write" ELSE "get"]
  BY DEF Begin
<1>2. /\ op' = [kind |-> op'.kind, step |-> op'.step, date |-> op'.date, time |-> op'.time]
      /\ op'.kind = kind /\ op'.date = date /\ op'.time = time
      /\ op'.step = IF kind \in {"datetime", "ssmp"} THEN "write" ELSE "get"
  BY <1>1
<1> QED
  BY <1>2 DEF Requested

\* What the interrupt adds, and what has passed without it, keep an epoch in bounds.
LEMMA Spanned ==
  /\ Zero \in Span /\ NoTick.from = Zero /\ NoTick.delta = Never /\ <<0, 1>> \in Span
  /\ Century \subseteq Span
  /\ \A e \in Span : /\ e = <<e[1], e[2]>> /\ e[1] \in Nat /\ e[2] \in Nat
                      /\ e[1] < 47482 /\ e[2] < 86400
  BY Centuries DEF Span, Zero, Century, InDay, NoTick

LEMMA ShiftSpan ==
  ASSUME NEW e \in Span, NEW n \in Int
  PROVE  Within(e, Shift(e, n)) \in Span
<1>1. e[2] + n \in Int /\ e[1] \in Int
  BY Spanned
<1>2. \A z \in Int : z \div 86400 \in Int /\ z % 86400 \in Nat /\ z % 86400 < 86400
  BY SMT
<1>3. CASE Shift(e, n)[1] \in 0 .. Years(2100) - 1
  <2> DEFINE d == e[1] + ((e[2] + n) \div 86400)
             t == (e[2] + n) % 86400
  <2>1. Shift(e, n) = <<d, t>>
    BY DEF Shift
  <2>2. d \in Int /\ t \in Nat /\ t < 86400
    BY <1>1, <1>2
  <2> HIDE DEF d, t
  <2>3. d \in Nat /\ d < Years(2100)
    BY <1>3, <2>1, <2>2, Centuries
  <2>4. <<d, t>> \in Span
    BY <2>2, <2>3 DEF Span, InDay
  <2> QED
    BY <2>1, <2>4 DEF Within
<1>4. CASE Shift(e, n)[1] \notin 0 .. Years(2100) - 1
  BY <1>4 DEF Within
<1> QED
  BY <1>3, <1>4

LEMMA PlusSpan ==
  ASSUME NEW e \in Span, NEW n \in Nat
  PROVE  Plus(e, n) \in Span /\ Lagging(e, n) \in Span
<1>1. n \in Int /\ -n \in Int
  OBVIOUS
<1> QED
  BY <1>1, ShiftSpan, Spanned DEF Plus, Lagging

LEMMA KeptWhole == Kept => Whole
<1> SUFFICES ASSUME Kept PROVE Whole
  OBVIOUS
<1>1. Chip \in Century
  BY ValidEpoch DEF Kept, Chip
<1>2. Chip # Zero
  BY <1>1, Centuries DEF Century, Zero
<1>3. ASSUME NEW e \in Span, e # Zero PROVE Plus(e, 0) = e
  <2>1. e = <<e[1], e[2]>> /\ e[1] \in Nat /\ e[2] \in Nat /\ e[2] < 86400
    BY Spanned
  <2>2. \A z \in Nat : z < 86400 => (z + 0) \div 86400 = 0 /\ (z + 0) % 86400 = z
    BY SMT
  <2>3. Shift(e, 0) = e
    BY <2>1, <2>2 DEF Shift
  <2> QED
    BY <1>3, <2>3 DEF Plus, Within
<1> QED
  BY <1>2, <1>3 DEF Whole, Kept

\* What the clock tells is a date and a time, torn or not.
LEMMA TornEpochs ==
  ASSUME Kept, NEW e \in Readable
  PROVE  e \in Epochs
<1>1. /\ epoch[1] \in Nat /\ epoch[1] < 47482 /\ epoch[2] \in Nat /\ epoch[2] < 86400
      /\ epoch = <<epoch[1], epoch[2]>>
  BY Spanned DEF Kept
<1>2. CASE e = epoch
  BY <1>1, <1>2, Centuries DEF Epochs, InDay
<1>3. CASE e \in Torn(epoch)
  <2>1. PICK n \in {-4295, 4295} : e = Shift(epoch, n)
    BY <1>3 DEF Torn
  <2>2. e[1] \in Nat /\ e[2] \in Nat
    BY <1>3 DEF Torn
  <2>4. e[1] = epoch[1] + ((epoch[2] + n) \div 86400) /\ e[2] = (epoch[2] + n) % 86400
        /\ e = <<e[1], e[2]>>
    BY <2>1 DEF Shift
  <2>5. /\ (epoch[2] + n) \div 86400 <= 1 /\ (epoch[2] + n) % 86400 < 86400
        /\ (epoch[2] + n) \div 86400 \in Int
    <3>1. epoch[2] + n \in Int /\ epoch[2] + n < 100000
      BY <1>1, <2>1
    <3>2. \A z \in Int : z < 100000 => z \div 86400 <= 1 /\ z % 86400 < 86400 /\ z \div 86400 \in Int
      BY SMT
    <3> QED
      BY <3>1, <3>2
  <2>6. e[1] < Years(2101)
    BY <1>1, <2>2, <2>4, <2>5, Centuries
  <2> QED
    BY <2>2, <2>4, <2>5, <2>6 DEF Epochs, InDay
<1> QED
  BY <1>2, <1>3 DEF Readable

LEMMA ToldDate ==
  ASSUME Kept, NEW e \in Readable
  PROVE  /\ IsDate(Tells(e)) /\ IsTime(Tells(e)) /\ Tells(e).dow = dow(epoch_to_datetime(e))
         /\ datetime_to_epoch(Tells(e)) = e
<1> DEFINE t == epoch_to_datetime(e)
           u == [t EXCEPT !.dow = dow(t)]
<1>1. datetime_to_epoch(t) = e /\ IsDate(t) /\ IsTime(t) /\ "dow" \in DOMAIN t
  BY TornEpochs, RoundTrip
<1>2. Tells(e) = u
  BY DEF Tells
<1> HIDE DEF t
<1>3. /\ u.year = t.year /\ u.month = t.month /\ u.day = t.day
      /\ u.hour = t.hour /\ u.minute = t.minute /\ u.second = t.second
  OBVIOUS
<1>4. u.dow = dow(t)
  BY <1>1
<1> HIDE DEF u
<1>5. IsDate(u) /\ IsTime(u)
  BY <1>1, <1>3 DEF IsDate, IsTime
<1>6. datetime_to_epoch(u) = datetime_to_epoch(t)
  BY <1>3 DEF datetime_to_epoch
<1> QED
  BY <1>1, <1>2, <1>4, <1>5, <1>6 DEF t

LEMMA GetRequested ==
  ASSUME Dated, NEW e \in Readable, RTC_get_datetime(e)
  PROVE  Requested'
<1>1. IsDate(Tells(e)) /\ IsTime(Tells(e))
  BY ToldDate DEF Dated
<1>2. IsDate(DateOf(Tells(e))) /\ IsTime(TimeOf(Tells(e)))
  BY <1>1, Parts
<1>3. \/ op.kind \in {"get", "ssmp"}
      \/ op.kind = "date" /\ IsDate(op.date)
      \/ op.kind = "time" /\ IsTime(op.time)
  BY DEF Dated, Requested, RTC_get_datetime
<1>4. /\ op.kind = "date" => op' = [op EXCEPT !.step = "write", !.time = TimeOf(Tells(e))]
      /\ op.kind = "time" => op' = [op EXCEPT !.step = "write", !.date = DateOf(Tells(e))]
      /\ op.kind \in {"get", "ssmp"} => op' = Idle
  BY DEF RTC_get_datetime
<1>5. op = [kind |-> op.kind, step |-> op.step, date |-> op.date, time |-> op.time]
  BY DEF Dated, Requested
<1>6. CASE op.kind = "date"
  <2>1. op' = [kind |-> op.kind, step |-> "write", date |-> op.date, time |-> TimeOf(Tells(e))]
    BY <1>4, <1>5, <1>6
  <2> QED
    BY <1>2, <1>3, <1>6, <2>1 DEF Requested
<1>7. CASE op.kind = "time"
  <2>1. op' = [kind |-> op.kind, step |-> "write", date |-> DateOf(Tells(e)), time |-> op.time]
    BY <1>4, <1>5, <1>7
  <2> QED
    BY <1>2, <1>3, <1>7, <2>1 DEF Requested
<1>8. CASE op.kind \in {"get", "ssmp"}
  BY <1>4, <1>8, IdleRequested DEF Requested
<1> QED
  BY <1>3, <1>6, <1>7, <1>8

LEMMA RequestedStep == Dated /\ [Next]_vars => Requested'
<1> SUFFICES ASSUME Dated, [Next]_vars PROVE Requested'
  OBVIOUS
<1>0. Requested
  BY DEF Dated
<1>1. CASE UNCHANGED op
  BY <1>0, <1>1 DEF Requested
<1>2. CASE op' = Idle \/ op' = Panicked
  BY <1>2, IdleRequested DEF Requested
<1>3. op = [kind |-> op.kind, step |-> op.step, date |-> op.date, time |-> op.time]
  BY <1>0 DEF Requested
<1>4. CASE PushWrite
  <2>1. CASE op' = [Idle EXCEPT !.kind = op.kind, !.step = "read"]
    <3>1. op' = [kind |-> op'.kind, step |-> "read", date |-> op'.date, time |-> op'.time]
      BY <2>1 DEF Idle
    <3> QED
      BY <3>1 DEF Requested
  <2> QED
    BY <1>2, <1>4, <2>1 DEF PushWrite
<1>5. CASE PushRead
  <2>1. CASE op.kind = "ssmp" /\ op' = [op EXCEPT !.step = "wait"]
    <3>1. op' = [kind |-> op.kind, step |-> "wait", date |-> op.date, time |-> op.time]
      BY <1>3, <2>1
    <3> QED
      BY <2>1, <3>1 DEF Requested
  <2> QED
    BY <1>2, <1>5, <2>1 DEF PushRead
<1>6. CASE Waited
  <2>1. CASE op' = [op EXCEPT !.step = "get"]
    <3>1. op' = [kind |-> op.kind, step |-> "get", date |-> op.date, time |-> op.time]
      BY <1>3, <2>1
    <3>2. op.kind = "ssmp"
      BY <1>0, <1>6 DEF Waited, Requested
    <3> QED
      BY <3>1, <3>2 DEF Requested
  <2> QED
    BY <1>2, <1>6, <2>1 DEF Waited
<1>7. CASE Begin("get", DateOf(Nought), TimeOf(Nought))
  BY <1>7, BeginRequested
<1>8. ASSUME NEW t \in Moments,
             \/ Begin("date", DateOf(t), TimeOf(Nought)) \/ Begin("time", DateOf(Nought), TimeOf(t))
             \/ \E kind \in {"datetime", "ssmp"} : Begin(kind, DateOf(t), TimeOf(t))
      PROVE  Requested'
  <2>1. IsDate(DateOf(t)) /\ IsTime(TimeOf(t))
    BY MomentsAssumption, Parts
  <2> QED
    BY <1>8, <2>1, BeginRequested
<1>9. CASE Interrupt \/ Core1 \/ UNCHANGED vars
  BY <1>1, <1>9
     DEF Interrupt, Core1, RTC_on_setup, RTC_on_update, RTC_on_tick, TickAdds, TickEnds, I2C0_run,
         RTC_setup, ReadChip, RTC_read, WriteChip, RTC_write, vars
<1>10. CASE Restart
  BY <1>2, <1>10 DEF Restart
<1> QED
  BY <1>4, <1>5, <1>6, <1>7, <1>8, <1>9, <1>10, GetRequested DEF Next, Loop, Resume

LEMMA StoredStep == Shape /\ Dated /\ [Next]_vars => Stored'
<1> SUFFICES ASSUME Shape, Dated, [Next]_vars PROVE Stored'
  OBVIOUS
<1>0. Stored
  BY DEF Dated
<1>1. CASE UNCHANGED pool
  BY <1>0, <1>1 DEF Stored, pool
<1>2. CASE datetime_free
  <2>1. \A c \in allocated' : c \in allocated /\ c \in Chunks /\ content'[c] = content[c]
    BY <1>0, <1>2 DEF datetime_free, Stored, Shape
  <2>2. content' = [c \in Chunks |-> content'[c]]
    BY <1>0, <1>2 DEF datetime_free, Stored
  <2> QED
    BY <1>0, <2>1, <2>2 DEF Stored
<1>3. CASE PushWrite
  <2> DEFINE c == CHOOSE x \in Chunks : x \notin allocated
  <2>1. CASE allocated # Chunks /\ allocated' = allocated \cup {c}
             /\ content' = [content EXCEPT ![c] = Datetime(op.date, op.time)]
    <3>1. c \in Chunks \ allocated
      BY <2>1 DEF Shape
    <3>2. IsDate(Datetime(op.date, op.time)) /\ IsTime(Datetime(op.date, op.time))
      BY <1>3, Parts DEF PushWrite, Dated, Requested
    <3> HIDE DEF c
    <3>3. content' = [x \in Chunks |-> content'[x]] /\ content'[c] = Datetime(op.date, op.time)
          /\ \A x \in allocated : content'[x] = content[x]
      BY <1>0, <2>1, <3>1 DEF Stored, Shape
    <3> QED
      BY <1>0, <2>1, <3>2, <3>3 DEF Stored
  <2>2. CASE UNCHANGED pool
    BY <1>1, <2>2
  <2> QED
    BY <1>3, <2>1, <2>2 DEF PushWrite, Returned, pool
<1>4. CASE Restart
  BY <1>4 DEF Restart, Stored
<1>5. CASE WriteChip \/ RTC_write
  BY <1>1, <1>2, <1>5 DEF WriteChip, RTC_write
<1>6. CASE UNCHANGED vars
  BY <1>1, <1>6 DEF vars
<1> QED
  BY <1>1, <1>3, <1>4, <1>5, <1>6
     DEF Next, Interrupt, Core1, Loop, Resume, Begin, RTC_on_setup, RTC_on_update, RTC_on_tick, TickAdds,
         TickEnds, I2C0_run, RTC_setup, ReadChip, RTC_read, RTC_get_datetime, PushRead, Waited

LEMMA KeptStep == Shape /\ Owned /\ Current /\ Dated /\ [Next]_vars => Kept'
<1> SUFFICES ASSUME Shape, Owned, Current, Dated, [Next]_vars PROVE Kept'
  OBVIOUS
<1>0. Kept
  BY DEF Dated
<1>1. CASE UNCHANGED <<epoch, last_tick, tick, regs>>
  BY <1>0, <1>1 DEF Kept
<1>2. CASE RTC_on_tick \/ TickEnds
  <2>1. /\ tick'.from \in {epoch, Zero} /\ tick'.delta \in {last_tick, Never}
        /\ last_tick' \in {last_tick, 0} /\ UNCHANGED <<epoch, regs>>
    BY <1>2, Spanned DEF RTC_on_tick, TickEnds, rtcVars, chip
  <2> QED
    BY <1>0, <2>1, Spanned DEF Kept, Ticks
<1>3. CASE TickAdds
  <2>1. /\ tick'.from = Zero /\ tick'.delta = Never /\ UNCHANGED <<last_tick, regs>>
        /\ \/ tick.delta # Never /\ epoch' \in {Plus(e, tick.delta) : e \in {tick.from, epoch}}
           \/ UNCHANGED epoch
    BY <1>3 DEF TickAdds, NoTick, chip
  <2>2. epoch' \in Span
    <3>1. CASE tick.delta # Never /\ epoch' \in {Plus(e, tick.delta) : e \in {tick.from, epoch}}
      <4>1. tick.delta \in Nat /\ epoch \in Span /\ tick.from \in Span
        BY <1>0, <3>1 DEF Kept, Ticks
      <4> QED
        BY <3>1, <4>1, PlusSpan
    <3> QED
      BY <1>0, <2>1, <3>1 DEF Kept
  <2> QED
    BY <1>0, <2>1, <2>2, Spanned DEF Kept, Ticks
<1>4. CASE RTC_read
  <2>1. datetime_to_epoch(RX8900SA_get_datetime(core.got)) \in Span
    BY <1>0, <1>4, ValidEpoch, Spanned DEF RTC_read, Update, Current, Kept
  <2>2. UNCHANGED <<tick, regs>>
    BY <1>4 DEF RTC_read
  <2>3. CASE UNCHANGED <<epoch, last_tick>>
    BY <1>1, <2>2, <2>3
  <2>4. ASSUME NEW n \in Lapses, epoch' = Lagging(epoch, n),
               last_tick' = IF last_tick = Never THEN Never ELSE last_tick + n
        PROVE  Kept'
    <3>1. n \in Nat
      BY ClockAssumption
    <3>2. epoch' \in Span
      BY <1>0, <2>4, <3>1, PlusSpan DEF Kept
    <3>3. last_tick' \in Ticks
      BY <1>0, <2>4, <3>1 DEF Kept, Ticks
    <3> QED
      BY <1>0, <2>2, <3>2, <3>3 DEF Kept
  <2>5. CASE Adjust(datetime_to_epoch(RX8900SA_get_datetime(core.got))) /\ UNCHANGED last_tick
    <3>1. epoch' \in {epoch, datetime_to_epoch(RX8900SA_get_datetime(core.got))}
      BY <2>5 DEF Adjust
    <3> QED
      BY <1>0, <2>1, <2>2, <2>5, <3>1 DEF Kept
  <2> QED
    BY <1>4, <2>3, <2>4, <2>5 DEF RTC_read
<1>5. CASE WriteChip
  <2>1. core.task.chunk \in allocated
    BY <1>5 DEF WriteChip, Transfer, Owned
  <2>2. Valid(RX8900SA_get_datetime(RX8900SA_set_datetime(content[core.task.chunk])))
    BY <2>1, Written DEF Dated, Stored
  <2>3. UNCHANGED <<epoch, last_tick, tick>>
        /\ (regs' = regs \/ regs' = RX8900SA_set_datetime(content[core.task.chunk]))
    BY <1>5 DEF WriteChip, rtcVars, chip
  <2> QED
    BY <1>0, <2>2, <2>3 DEF Kept
<1>6. CASE RTC_write
  <2>1. epoch' \in {epoch, Zero} /\ last_tick' \in {last_tick, Never} /\ UNCHANGED <<tick, regs>>
    BY <1>6 DEF RTC_write, Forgets
  <2> QED
    BY <1>0, <2>1, Spanned DEF Kept, Ticks
<1>7. CASE Restart
  <2>1. epoch' = Zero /\ last_tick' = Never /\ tick' = NoTick /\ UNCHANGED regs
    BY <1>7 DEF Restart, chip
  <2> QED
    BY <1>0, <2>1, Spanned DEF Kept, Ticks
<1>8. CASE RTC_setup
  <2>1. UNCHANGED <<epoch, last_tick, tick>> /\ regs' \in {regs, RX8900SA_setup}
    BY <1>8 DEF RTC_setup
  <2> QED
    BY <1>0, <2>1, SetupValid DEF Kept
<1> QED
  BY <1>1, <1>2, <1>3, <1>4, <1>5, <1>6, <1>7, <1>8
     DEF Next, Interrupt, Core1, Loop, Resume, Begin, RTC_on_setup, RTC_on_update,
         I2C0_run, ReadChip, RTC_get_datetime, PushWrite, PushRead, Waited, vars, rtcVars, chip

LEMMA FaultsStep == faults \in Nat /\ [Next]_vars => faults' \in Nat
<1> SUFFICES ASSUME faults \in Nat, [Next]_vars PROVE faults' \in Nat
  OBVIOUS
<1>1. CASE MayFail \/ UNCHANGED faults
  BY <1>1 DEF MayFail
<1>3. CASE Core1
  BY <1>1, <1>3 DEF Core1, I2C0_run, RTC_setup, ReadChip, RTC_read, WriteChip, RTC_write
<1>4. CASE Restart
  BY <1>1, <1>4 DEF Restart
<1>5. ASSUME NEW e \in Readable, RTC_get_datetime(e) PROVE faults' \in Nat
  BY <1>1, <1>5 DEF RTC_get_datetime
<1>2. CASE UNCHANGED faults
  BY <1>2
<1> QED
  BY <1>2, <1>3, <1>4, <1>5
     DEF Next, Interrupt, Loop, Resume, Begin, RTC_on_setup, RTC_on_update, RTC_on_tick, TickAdds,
         TickEnds, PushWrite, PushRead, Waited, vars

LEMMA InitDated == Init => Dated
<1> SUFFICES ASSUME Init PROVE Dated
  OBVIOUS
<1>1. Requested
  BY IdleRequested DEF Init, Requested
<1>2. Stored
  BY DEF Init, Stored
<1>3. Kept
  BY MomentsAssumption, Spanned DEF Init, Kept, Ticks
<1> QED
  BY <1>1, <1>2, <1>3 DEF Init, Dated

-----------------------------------------------------------------------------
(***************************************************************************)
(* The theorems.                                                           *)
(***************************************************************************)
IInv == Shape /\ Owned /\ Once /\ Current /\ Harmless /\ Dated

LEMMA InitIInv == Init => IInv
<1> SUFFICES ASSUME Init PROVE IInv
  OBVIOUS
<1>1. queue = <<Read>> /\ core = [task |-> NoTask, got |-> <<>>, step |-> 0] /\ allocated = {}
  BY DEF Init, Free
<1>2. Shape
  BY <1>1, TaskKinds DEF Shape
<1>3. Writes = {} /\ SettingUp = {}
  BY <1>1, TaskKinds DEF Writes, SettingUp
<1>4. Owned
  BY <1>1, <1>3, TaskKinds DEF Owned
<1>5. Once
  <2>1. core.got = <<>> /\ core.task.f = "none" /\ core.step = 0
    BY <1>1, TaskKinds
  <2>2. (alarm => ~initialised) /\ ready = FALSE
    BY DEF Init
  <2> QED
    BY <1>3, <2>1, <2>2 DEF Once
<1>6. Current /\ Harmless
  BY <1>1 DEF Init, Current, Harmless, Cleared, Between
<1> QED
  BY <1>2, <1>4, <1>5, <1>6, InitDated DEF IInv

\* The threads of RTC.c keep the invariant, whatever moments are set and however
\* often transfers fail and the controller restarts: RTC.c's epoch, last_tick and
\* ready are those of a clock that runs with the chip or of one that is cleared,
\* at each point of the interrupt and of the updates of core 1, but for the two
\* cases in doubt; and all that is set, kept and told is a date and a time.
THEOREM ClockInvariance == Spec => []IInv
<1>1. IInv /\ [Next]_vars => IInv'
  <2>1. IInv /\ [Next]_vars => Shape' /\ Owned' /\ Once' /\ Current' /\ Harmless'
    BY OwnedStep, OnceStep, CurrentStep, HarmlessStep, KeptWhole DEF IInv, Dated
  <2>2. IInv /\ [Next]_vars => Dated'
    BY RequestedStep, StoredStep, KeptStep, FaultsStep DEF IInv, Dated
  <2> QED
    BY <2>1, <2>2 DEF IInv
<1> QED
  BY <1>1, InitIInv, PTL DEF Spec

\* Every datetime in use belongs to one write, queued or running: the pool is
\* neither leaked (a full queue, a failed transfer) nor freed twice.
THEOREM ChunksOwned == Spec => []Owned
<1>1. IInv => Owned
  BY DEF IInv
<1> QED
  BY <1>1, ClockInvariance, PTL

LEMMA SettledNear == IInv /\ Settled => Near(epoch)
  BY DEF IInv, Harmless, Running, Settled

\* When the clock is ready its time is that of the chip, wherever the interrupt
\* meets an update of core 1 and whatever is queued or refused, unless a failed
\* write or an interrupt during RTC_write has left it in doubt and no read has
\* yet mended it.
THEOREM ClocksAgree == Spec => []Coherent
<1>1. IInv => Coherent
  BY SettledNear DEF Coherent, Near
<1> QED
  BY <1>1, ClockInvariance, PTL

\* What is told of an epoch not far from the chip.
LEMMA ReportedNear ==
  ASSUME IInv, Near(epoch)
  PROVE  Reported(Tells(epoch))
<1>1. Kept /\ epoch \in Readable
  BY DEF IInv, Dated, Readable
<1>2. Tells(epoch).dow = dow(epoch_to_datetime(epoch)) /\ datetime_to_epoch(Tells(epoch)) = epoch
  BY <1>1, ToldDate
<1>3. Early2000(epoch) \/ epoch \in Century
  <2>1. epoch \in Nat \X Nat /\ epoch[1] \in Nat /\ epoch[1] < Years(2100) /\ InDay(epoch[2])
    BY <1>1 DEF Kept, Span
  <2>2. epoch[1] < Years(2000) + 60 \/ Years(2000) <= epoch[1]
    BY <2>1, Centuries
  <2> QED
    BY <2>1, <2>2 DEF Early2000, Century
<1>4. Early2000(epoch) \/ dow(epoch_to_datetime(epoch)) = Weekday(epoch)
  BY <1>3, CenturyTold
<1> QED
  BY <1>2, <1>4 DEF Reported, Near

\* Whatever the order of requests, transfers and interrupts, RTC_get_datetime
\* returns the date, the time and the day of the week the chip has, or the
\* beginning of 1970 when RTC_write has cleared the clock since it was seen to be
\* ready; the same cases in doubt, and a read the interrupt tears, left out.
THEOREM ToldHolds == Spec => Told
<1>1. ASSUME IInv, NEW e \in Readable, RTC_get_datetime(e), faults' = faults, ~Between, ~doubt
      PROVE  IF ready THEN Reported(Tells(e)) ELSE e = Zero
  <2>1. e = epoch /\ core.step = 0
    BY <1>1 DEF RTC_get_datetime, MayFail, IInv, Dated
  <2>2. CASE ready
    <3>1. Near(epoch)
      BY <1>1, <2>1, <2>2, SettledNear DEF Settled
    <3> QED
      BY <1>1, <2>1, <2>2, <3>1, ReportedNear
  <2>3. CASE ~ready
    BY <1>1, <2>1, <2>3 DEF IInv, Harmless, Running, Cleared
  <2> QED
    BY <2>2, <2>3
<1> DEFINE Tell == \A e \in Readable : RTC_get_datetime(e) /\ faults' = faults /\ ~Between /\ ~doubt =>
                     IF ready THEN Reported(Tells(e)) ELSE e = Zero
<1>2. IInv => Tell
  BY <1>1
<1>3. IInv => [Tell]_vars
  BY <1>2
<1> QED
  BY <1>3, ClockInvariance, PTL DEF Told
=============================================================================
