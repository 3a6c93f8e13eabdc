--------------------------------- MODULE Clock ---------------------------------
(***************************************************************************)
(* The clock: RTC.c over the RX8900SA chip (RX8900SA.c).  The time is kept *)
(* twice: in the registers of the chip, which core 1 reads and writes as   *)
(* tasks of the I2C0 queue, and in memory (RTC.epoch), which a timer       *)
(* interrupt advances and a task every 15 s brings back to the chip's.     *)
(* The main loop reads the one in memory and sets the other: it queues a   *)
(* task that writes the registers and a task that reads them back.         *)
(*                                                                         *)
(* Times are relative to the time that has passed since a start: both      *)
(* clocks stand still while the interrupt keeps up.  RTC.last_tick is then *)
(* what the next interrupt adds in excess: nothing when the last was the   *)
(* one before, and the whole time the clock was not ready when it was not. *)
(***************************************************************************)
EXTENDS Integers, Sequences

CONSTANTS
  Moments,       \* what the clock is set to
  Initial,       \* the registers at first
  QueueSize,     \* the I2C0 queue (32)
  Chunks,        \* the datetime pool (8)
  NoChunk,       \* none of them
  Lapses,        \* seconds the clock may be left not ready (a read comes every 15)
  MaxSets,       \* bound: requests to set the clock
  MaxFaults      \* bound: I2C errors, torn reads and restarts

Zero == <<0, 0>>   \* an epoch: days and seconds since 1970; 0 when there is none
Never == -1        \* last_tick when there is none, 0 in C
NoTick == [from |-> Zero, delta |-> Never, added |-> FALSE]
NoTask == [f |-> "none", chunk |-> NoChunk]
Setup == [f |-> "setup", chunk |-> NoChunk]
Read == [f |-> "read", chunk |-> NoChunk]
Write(c) == [f |-> "write", chunk |-> c]

ASSUME ClockAssumption ==
  NoChunk \notin Chunks /\ QueueSize \in Nat \ {0} /\ Lapses \subseteq Nat
  /\ MaxSets \in Nat /\ MaxFaults \in Nat

VARIABLES
  initialised, ready, epoch, last_tick,  \* RTC
  tick,     \* what RTC_on_tick has read and how far it is, or NoTick
  alarm,    \* RTC_on_setup is to be called
  queue,    \* I2C0.queue
  core,     \* core 1: the task, what it has read and how far it is in its update
  regs,     \* the registers of the chip
  doubt,    \* a write that failed has set them, or an interrupt may have brought back
            \* what RTC_write cleared; until a read that finds nothing left of either
  allocated, content,  \* the chunks in use, the datetime in each chunk
  op,       \* what the main loop is doing
  sets, faults

rtcVars == <<initialised, ready, epoch, last_tick>>
chip == <<regs, doubt>>
pool == <<allocated, content>>
vars == <<rtcVars, tick, alarm, queue, core, chip, pool, op, sets, faults>>
-----------------------------------------------------------------------------
(***************************************************************************)
(* Dates and times.                                                        *)
(***************************************************************************)
DateOf(t) == [year |-> t.year, month |-> t.month, day |-> t.day]
TimeOf(t) == [hour |-> t.hour, minute |-> t.minute, second |-> t.second]
Datetime(date, time) ==
  [year |-> date.year, month |-> date.month, day |-> date.day,
   hour |-> time.hour, minute |-> time.minute, second |-> time.second, dow |-> 0]

dec2bcd(n) == 16 * ((n % 100) \div 10) + (n % 10)
bcd2dec(b) == 10 * (b \div 16) + (b % 16)

is_leap(y) == y % 4 = 0 /\ (y % 100 # 0 \/ y % 400 = 0)
\* The days from 1970 to a year, and from the first of a year to a month.
LeapsBefore(y) == ((y - 1) \div 4) - ((y - 1) \div 100) + ((y - 1) \div 400)
Years(y) == 365 * (y - 1970) + LeapsBefore(y) - LeapsBefore(1970)
Months(y, m) == <<0, 31, 59, 90, 120, 151, 181, 212, 243, 273, 304, 334, 365>>[m]
                  + IF m > 2 /\ is_leap(y) THEN 1 ELSE 0

datetime_to_epoch(t) ==
  <<Years(t.year) + Months(t.year, t.month) + t.day - 1, 3600 * t.hour + 60 * t.minute + t.second>>
\* The year and the month a day is in, each as a set of one.
YearOf(d) == {y \in 1970 .. 2100 : Years(y) <= d /\ d < Years(y + 1)}
MonthOf(y, d) == {m \in 1 .. 12 : Months(y, m) <= d /\ d < Months(y, m + 1)}
DayIn(y, d, s) ==
  {[year |-> y, month |-> m, day |-> d - Months(y, m) + 1,
    hour |-> s \div 3600, minute |-> (s % 3600) \div 60, second |-> s % 60, dow |-> 0] : m \in MonthOf(y, d)}
epoch_to_datetime(e) == CHOOSE t \in UNION {DayIn(y, e[1] - Years(y), e[2]) : y \in YearOf(e[1])} : TRUE

\* SUNDAY is bit 0 and SATURDAY bit 6.  The year is taken without its century.
weekdays == <<1, 2, 4, 8, 16, 32, 64>>
\* Mutant: January and February are months of their own year.
OwnYear(t) ==
  LET m == IF t.month < 3 THEN t.month + 12 ELSE t.month
      h == (t.day + ((31 * (m - 2)) \div 12) + (t.year % 100) + ((t.year % 100) \div 4)) % 7
  IN  weekdays[h + 1]
dow(t) ==
  LET Y == IF t.month < 3 THEN (t.year % 100) - 1 ELSE t.year % 100
      m == IF t.month < 3 THEN t.month + 12 ELSE t.month
      leaps == IF Y < 0 THEN 0 ELSE Y \div 4
      h == (t.day + ((31 * (m - 2)) \div 12) + Y + leaps) % 7
  IN  weekdays[h + 1]

\* Far from one another: more than the RTC_MAX_ERROR of five seconds.
RTC_MAX_ERROR == 5
Later(a, b, n) == \/ a[1] = b[1] /\ b[2] \in a[2] .. a[2] + n
                  \/ a[1] + 1 = b[1] /\ 86400 + b[2] \in a[2] .. a[2] + n
Far(a, b) == a # b /\ ~Later(a, b, RTC_MAX_ERROR) /\ ~Later(b, a, RTC_MAX_ERROR)

\* The registers: second, minute, hour, weekday, day, month and year.
RX8900SA_set_datetime(t) ==
  <<dec2bcd(t.second), dec2bcd(t.minute), dec2bcd(t.hour), dow(t),
    dec2bcd(t.day), dec2bcd(t.month), dec2bcd(t.year % 100)>>
RX8900SA_get_datetime(r) ==
  [year |-> 2000 + bcd2dec(r[7]), month |-> bcd2dec(r[6]), day |-> bcd2dec(r[5]),
   hour |-> bcd2dec(r[3]), minute |-> bcd2dec(r[2]), second |-> bcd2dec(r[1]), dow |-> 0]
\* 2025-01-01, a Monday for the chip.
RX8900SA_setup == <<0, 0, 0, 2, 1, 1, 37>>
Chip == datetime_to_epoch(RX8900SA_get_datetime(regs))

\* The chip keeps two digits of the year.  No request is checked any further
\* than this: what is set, and what the chip has kept, is a date and a time.
Valid(t) ==
  /\ t.year \in 2000 .. 2099 /\ t.month \in 1 .. 12 /\ t.day \in 1 .. 31
  /\ t.hour \in 0 .. 23 /\ t.minute \in 0 .. 59 /\ t.second \in 0 .. 59
ASSUME MomentsAssumption ==
  Valid(RX8900SA_get_datetime(Initial)) /\ \A t \in Moments : Valid(t)
-----------------------------------------------------------------------------
Free == [task |-> NoTask, got |-> <<>>, step |-> 0]
Nought == Datetime([year |-> 0, month |-> 0, day |-> 0], [hour |-> 0, minute |-> 0, second |-> 0])
Idle == [kind |-> "none", step |-> "none", date |-> DateOf(Nought), time |-> TimeOf(Nought)]
Panicked == [Idle EXCEPT !.kind = "panic"]

\* One more fault.
MayFail == faults < MaxFaults /\ faults' = faults + 1

\* RTC_init: the chip is in order, has lost its power (VLF: with alarm) or did
\* not answer.  RTC_start queues the first read.
Init ==
  /\ initialised \in BOOLEAN /\ alarm \in BOOLEAN /\ ~(initialised /\ alarm)
  /\ ready = FALSE /\ epoch = Zero /\ last_tick = Never /\ tick = NoTick
  /\ queue = <<Read>> /\ core = Free /\ op = Idle
  /\ allocated = {} /\ content = [c \in Chunks |-> Nought]
  /\ regs = Initial /\ doubt = FALSE /\ sets = 0 /\ faults = 0

\* A watchdog reset after a panic, or a power cut: the chip goes on.
Restart ==
  /\ IF op = Panicked THEN UNCHANGED faults ELSE MayFail
  /\ initialised' \in BOOLEAN /\ alarm' \in BOOLEAN /\ ~(initialised' /\ alarm')
  /\ ready' = FALSE /\ epoch' = Zero /\ last_tick' = Never /\ tick' = NoTick
  /\ queue' = <<Read>> /\ core' = Free /\ op' = Idle
  /\ allocated' = {} /\ content' = [c \in Chunks |-> Nought]
  /\ UNCHANGED <<chip, sets>>

\* I2C0_push: a full queue refuses.
HasRoom == Len(queue) < QueueSize
I2C0_push(task) == HasRoom /\ queue' = Append(queue, task)
-----------------------------------------------------------------------------
(***************************************************************************)
(* The interrupts, all of core 0: none interrupts another.                 *)
(***************************************************************************)
\* After tSTA; nothing tries again if the queue is full.
RTC_on_setup ==
  /\ alarm /\ alarm' = FALSE /\ tick = NoTick
  /\ queue' = IF HasRoom THEN Append(queue, Setup) ELSE queue
  /\ UNCHANGED <<rtcVars, tick, core, chip, pool, op, sets, faults>>

RTC_on_update ==
  /\ tick = NoTick /\ I2C0_push(Read)
  /\ UNCHANGED <<rtcVars, tick, alarm, core, chip, pool, op, sets, faults>>

\* An epoch some seconds later or earlier; bound: no clock leaves 1970 .. 2099.
\* What is added to no epoch at all is some instant of 1970.
Shift(e, n) == <<e[1] + ((e[2] + n) \div 86400), (e[2] + n) % 86400>>
Within(e, f) == IF f[1] \in 0 .. Years(2100) - 1 /\ f # Zero THEN f ELSE e
Plus(e, n) == IF e = Zero THEN <<0, 1>> ELSE Within(e, Shift(e, n))
Lagging(e, n) == IF e = Zero THEN Zero ELSE Within(e, Shift(e, -n))

\* RTC_write has set the chip and not yet cleared the clock in memory.
Between == core.task.f = "write" /\ core.got # <<>>
\* It does not take the guard: core 1 may update RTC between its test, its sum
\* and what it stores.  When core 1 is not about to, and neither the first tick is
\* still to come nor this one late, it changes nothing and is left out.
RTC_on_tick ==
  /\ tick = NoTick /\ initialised /\ ready /\ epoch # Zero
  /\ Between \/ core.step = 1 \/ last_tick # 0
  /\ tick' = [from |-> epoch, delta |-> last_tick, added |-> FALSE]
  /\ UNCHANGED <<rtcVars, alarm, queue, core, chip, pool, op, sets, faults>>
\* RTC.epoch += dt, where both may be read before or after core 1 has cleared them.
TickAdds ==
  /\ tick # NoTick /\ ~tick.added /\ tick' = [NoTick EXCEPT !.added = TRUE]
  /\ \/ tick.delta # Never /\ epoch' \in {Plus(e, tick.delta) : e \in {tick.from, epoch}}
     \/ last_tick = Never /\ UNCHANGED epoch
  /\ UNCHANGED <<initialised, ready, last_tick, alarm, queue, core, chip, pool, op, sets, faults>>
TickEnds ==
  /\ tick.added /\ tick' = NoTick /\ last_tick' = 0
  /\ UNCHANGED <<initialised, ready, epoch, alarm, queue, core, chip, pool, op, sets, faults>>
-----------------------------------------------------------------------------
(***************************************************************************)
(* Core 1: I2C0_run takes a task, the task transfers, then updates RTC     *)
(* under its guard, in the order of the source.  A transfer takes longer   *)
(* than RTC_on_tick.                                                       *)
(***************************************************************************)
I2C0_run ==
  /\ core.task = NoTask /\ queue # <<>>
  /\ core' = [Free EXCEPT !.task = Head(queue)] /\ queue' = Tail(queue)
  /\ UNCHANGED <<rtcVars, tick, alarm, chip, pool, op, sets, faults>>

Done == core' = Free
Transfer(f) == core.task.f = f /\ core.got = <<>> /\ tick = NoTick
Update(f, n) == core.task.f = f /\ core.got # <<>> /\ core.step = n
GoesOn == core' = [core EXCEPT !.step = core.step + 1]

RTC_setup ==
  /\ Transfer("setup") /\ Done
  /\ \/ regs' = RX8900SA_setup /\ initialised' = TRUE /\ ready' = FALSE /\ UNCHANGED faults
     \/ MayFail /\ regs' \in {regs, RX8900SA_setup} /\ UNCHANGED <<initialised, ready>>
  /\ UNCHANGED <<doubt, epoch, last_tick, tick, alarm, queue, pool, op, sets>>

ReadChip ==
  /\ Transfer("read")
  /\ \/ initialised /\ core' = [core EXCEPT !.got = regs] /\ UNCHANGED faults
     \/ ~initialised /\ Done /\ UNCHANGED faults
     \/ initialised /\ MayFail /\ Done
  /\ UNCHANGED <<rtcVars, tick, alarm, queue, chip, pool, op, sets>>
\* Small differences are made up for by k, in time; larger ones at once.
\* Mutant: a difference of any size is left to k.
Slewed(t) == epoch' \in IF epoch = Zero THEN {t} ELSE {epoch, t}
Adjust(t) == epoch' \in IF epoch = Zero \/ Far(t, epoch) THEN {t} ELSE {epoch, t}
RTC_read ==
  /\ \/ /\ Update("read", 0) /\ GoesOn /\ ready' = TRUE /\ UNCHANGED doubt
        /\ \/ ready /\ UNCHANGED <<epoch, last_tick>>
           \/ ~ready /\ \E n \in Lapses :
                /\ epoch' = Lagging(epoch, n)
                /\ last_tick' = IF last_tick = Never THEN Never ELSE last_tick + n
     \/ /\ Update("read", 1) /\ Done /\ UNCHANGED <<ready, last_tick>>
        /\ Adjust(datetime_to_epoch(RX8900SA_get_datetime(core.got)))
        /\ doubt' = (doubt /\ (tick # NoTick \/ last_tick \notin {Never, 0}))
  /\ UNCHANGED <<initialised, tick, alarm, queue, regs, pool, op, sets, faults>>

\* Comes last, also if the chip refused.  What is in a free chunk counts for nothing.
datetime_free ==
  allocated' = allocated \ {core.task.chunk} /\ content' = [content EXCEPT ![core.task.chunk] = Nought]
\* A transfer that fails (one of its bytes is not acknowledged) may yet have set
\* the registers.
WriteChip ==
  /\ Transfer("write")
  /\ LET new == RX8900SA_set_datetime(content[core.task.chunk]) IN
       \/ /\ initialised /\ regs' = new /\ core' = [core EXCEPT !.got = new]
          /\ UNCHANGED <<doubt, pool, faults>>
       \/ /\ initialised /\ MayFail /\ Done /\ datetime_free
          /\ \/ regs' = new /\ doubt' = TRUE
             \/ UNCHANGED chip
       \/ ~initialised /\ Done /\ datetime_free /\ UNCHANGED <<chip, faults>>
  /\ UNCHANGED <<rtcVars, tick, alarm, queue, op, sets>>
\* Mutant: the time of the last tick outlives the epoch it belongs to.
Remembers == UNCHANGED last_tick
Forgets == last_tick' = Never
RTC_write ==
  /\ \/ /\ Update("write", 0) /\ GoesOn /\ ready' = FALSE
        /\ UNCHANGED <<epoch, last_tick, doubt, pool>>
     \/ /\ Update("write", 1) /\ GoesOn /\ epoch' = Zero /\ doubt' = (doubt \/ tick # NoTick)
        /\ UNCHANGED <<ready, last_tick, pool>>
     \/ /\ Update("write", 2) /\ Done /\ Forgets /\ doubt' = (doubt \/ tick # NoTick)
        /\ datetime_free /\ UNCHANGED <<ready, epoch>>
  /\ UNCHANGED <<initialised, tick, alarm, queue, regs, op, sets, faults>>
-----------------------------------------------------------------------------
(***************************************************************************)
(* The main loop: GET and SET of SSMP and the commands of the CLI.         *)
(***************************************************************************)
\* RTC_get_datetime, RTC_set_date, RTC_set_time and RTC_set_datetime as far as
\* the first wait.  All but the last, and the SET of SSMP, need the clock ready.
Begin(kind, date, time) ==
  /\ op = Idle /\ tick = NoTick /\ initialised /\ (kind = "datetime" \/ ready)
  /\ IF kind = "get" THEN UNCHANGED sets
     ELSE sets < MaxSets /\ sets' = sets + 1
  /\ op' = [kind |-> kind, date |-> date, time |-> time,
            step |-> IF kind \in {"datetime", "ssmp"} THEN "write" ELSE "get"]
  /\ UNCHANGED <<rtcVars, tick, alarm, queue, core, chip, pool, faults>>

\* Under the guard, which the interrupt does not take: it may advance the epoch
\* between the halves of its 64 bits (2^32 us, or 4295 s, apart).  That the clock
\* is ready has been seen before: it may be cleared by now.
Torn(e) == {Shift(e, -4295), Shift(e, 4295)} \cap ((Nat \ {0}) \X Nat)
Readable == {epoch} \cup Torn(epoch)
Tells(e) == LET t == epoch_to_datetime(e) IN [t EXCEPT !.dow = dow(t)]
RTC_get_datetime(e) ==
  /\ op.step = "get" /\ tick = NoTick /\ core.step = 0
  /\ IF e = epoch THEN UNCHANGED faults ELSE MayFail
  /\ op' = CASE op.kind = "date" -> [op EXCEPT !.step = "write", !.time = TimeOf(Tells(e))]
             [] op.kind = "time" -> [op EXCEPT !.step = "write", !.date = DateOf(Tells(e))]
             [] op.kind \in {"get", "ssmp"} -> Idle
  /\ UNCHANGED <<rtcVars, tick, alarm, queue, core, chip, pool, sets>>

\* datetime_alloc, which panics when all chunks are in use; a full queue has the
\* chunk returned and the request refused.
\* Mutant: the chunk is not returned.
Leaked(c) == allocated \cup {c}
Returned(c) == allocated
PushWrite ==
  /\ op.step = "write" /\ tick = NoTick
  /\ \/ allocated = Chunks /\ op' = Panicked /\ UNCHANGED <<queue, pool>>
     \/ allocated # Chunks /\ LET c == CHOOSE x \in Chunks : x \notin allocated IN
          \/ /\ I2C0_push(Write(c)) /\ allocated' = allocated \cup {c}
             /\ content' = [content EXCEPT ![c] = Datetime(op.date, op.time)]
             /\ op' = [Idle EXCEPT !.kind = op.kind, !.step = "read"]
          \/ ~HasRoom /\ allocated' = Returned(c) /\ op' = Idle /\ UNCHANGED <<queue, content>>
  /\ UNCHANGED <<rtcVars, tick, alarm, core, chip, sets, faults>>

\* If this is refused so is the request, although the write stays queued.  SSMP
\* waits 5 ms and answers with the time it then is, if it is the one asked for.
PushRead ==
  /\ op.step = "read" /\ tick = NoTick
  /\ \/ I2C0_push(Read) /\ op' = IF op.kind = "ssmp" THEN [op EXCEPT !.step = "wait"] ELSE Idle
     \/ ~HasRoom /\ op' = Idle /\ UNCHANGED queue
  /\ UNCHANGED <<rtcVars, tick, alarm, core, chip, pool, sets, faults>>
Waited ==
  /\ op.step = "wait" /\ tick = NoTick
  /\ op' = IF initialised /\ ready THEN [op EXCEPT !.step = "get"] ELSE Idle
  /\ UNCHANGED <<rtcVars, tick, alarm, queue, core, chip, pool, sets, faults>>
-----------------------------------------------------------------------------
Interrupt == RTC_on_setup \/ RTC_on_update \/ RTC_on_tick \/ TickAdds \/ TickEnds
Core1 == I2C0_run \/ RTC_setup \/ ReadChip \/ RTC_read \/ WriteChip \/ RTC_write
\* What the loop has begun.
Resume == (\E e \in Readable : RTC_get_datetime(e)) \/ PushWrite \/ PushRead \/ Waited
Loop ==
  \/ Begin("get", DateOf(Nought), TimeOf(Nought))
  \/ \E t \in Moments :
       \/ Begin("date", DateOf(t), TimeOf(Nought)) \/ Begin("time", DateOf(Nought), TimeOf(t))
       \/ \E kind \in {"datetime", "ssmp"} : Begin(kind, DateOf(t), TimeOf(t))
  \/ Resume

Next == Interrupt \/ Core1 \/ Loop \/ Restart

\* Core 1 runs, the timer goes on and an interrupt ends.  The interrupt (some
\* instructions each 100 ms) does not fall on the update of every single read
\* (some instructions each 15 s).  Nothing is asked of the loop.
Undisturbed == RTC_read /\ core.step = 1 /\ tick = NoTick
Fairness ==
  /\ WF_vars(RTC_on_update) /\ WF_vars(TickAdds \/ TickEnds) /\ WF_vars(Core1)
  /\ SF_vars(Undisturbed)
Spec == Init /\ [][Next]_vars /\ Fairness
-----------------------------------------------------------------------------
(***************************************************************************)
(* Properties.                                                             *)
(***************************************************************************)
\* Each chunk in use is that of one write, queued or running: none is lost when
\* a queue refuses or a transfer fails, and none is freed under its task.
Writes == {i \in DOMAIN queue : queue[i].f = "write"}
Owned ==
  /\ allocated = {queue[i].chunk : i \in Writes} \cup IF core.task.f = "write" THEN {core.task.chunk} ELSE {}
  /\ \A i \in Writes : core.task.chunk # queue[i].chunk /\ \A j \in Writes : queue[i].chunk = queue[j].chunk => i = j

\* When ready, and no core is updating it, the clock in memory is that of the
\* chip, however the interrupt and core 1 have met.  Two cases are left out, until
\* a read mends them: a write that failed and has set the chip all the same, and
\* an interrupt under way while RTC_write clears RTC.  It brings back the epoch
\* (RTC.c:192) or last_tick (RTC.c:195), and the tick that follows the next read
\* adds all the time the clock was not ready.
Settled == ready /\ ~Between /\ ~doubt /\ core.step = 0
Coherent == Settled => ~Far(epoch, Chip)

\* And what RTC_get_datetime then returns is the chip's time and the right day
\* of the week (1970-01-01 was a Thursday), unless the interrupt tears it.  But
\* before March 2000 dow is out: in January and February Y is -1, and Y / 4 is 0
\* in C.  If the clock was cleared since it was seen to be ready, it is the
\* beginning of 1970 that is returned, and not a part of what was there before.
Weekday(e) == weekdays[((e[1] + 4) % 7) + 1]
Early2000(e) == e[1] < Years(2000) + 60
Reported(t) ==
  LET e == datetime_to_epoch(t) IN ~Far(e, Chip) /\ (Early2000(e) \/ t.dow = Weekday(e))
Told == [][\A e \in Readable : RTC_get_datetime(e) /\ faults' = faults /\ ~Between /\ ~doubt =>
             IF ready THEN Reported(Tells(e)) ELSE e = Zero]_vars

\* After the last request and the last fault both clocks agree, and go on doing so.
Synchronised == <>[](initialised => ready /\ ~Far(epoch, Chip))
=============================================================================
