# TLA+ models of the uhppoted-breakout firmware

uhppoted-breakout is the firmware of an access controller board (RP2350, two
cores, C) and the Linux services beside it (Go): four doors, each with a relay,
a contact, a button, a card reader and a keypad. This directory models the parts
whose correctness depends on order, interleaving, refusal and resets; TLC checks
small instances and TLAPS proves the main results for all of them.

All source paths below are under `src/Rev.0/`; *firmware* is `firmware/core/src/`.

## 1. Inventory

### How the firmware runs

* **Loop** (core 0, `tiny-usb/src/main.c`): takes a message from the *main queue*
  (64 slots) and runs its handler to the end (`breakout.c` `dispatch`).
* **Timer interrupts** (core 0): callbacks of the pico repeating timers (the
  1 s tick, U4's 10 ms tick, U3's 1 ms reads, keypad ticks), the PIO interrupt of
  the readers and the USB callbacks. They interrupt the loop and stop it while
  they run. They push messages.
* **Core 1** (`I2C0.c`, `I2C1.c`): takes closures from `I2C0.queue` (32 slots) and
  runs the transfers to the I/O expanders and the clock. It pushes messages too.
* `push` never waits: a full queue refuses the message, and the refusal raises an
  error that is itself logged through the same queue.
* Timer interrupts, the log and core 1's repair try a guard (`mutex_try_enter`) and skip what they
  were about to do if it is taken. Commands of the loop, core 1's updates of the clock and the readers'
  interrupt wait for theirs (`mutex_enter_blocking`: `U4.c:385`, `RTC.c:218`, `309`, `430`, `U2.c:307`).
  The tick of the clock takes none.

### Components

| Component | State | Operations | Hard behaviour | What makes it correct |
|---|---|---|---|---|
| **U4 relays and LEDs** (`U4.c`, `mempool.c`, `I2C0.c`, `PCAL6416A.c`) | desired outputs, write flag, relay and LED timers, guard, operation mempool, `I2C0.queue`, the device's register | set/clear relay, LED on/off/blink commands; `U4_tick` (health check, timers, write); on core 1 write, readback, health check and repair | commands, tick and core 1 interleave; the tick tries the guard and the commands wait for it; pool and queue run out; bus faults midway; resets lose the timers | no lost update, timer and output agree, doors lock again, device follows, events tell the truth, no chunk leaked or freed twice |
| **U3 inputs** (`U3.c`) | filter state per input, input bits | 1 ms read, filter, thresholds, events | bounce, lost readings, resets, refused events | debounced, follows the contact, an error says when the events may be wrong |
| **Doors** (`doors.c`, `MIB/set.c`, `cli.c`) | relays and contacts as read, interlock, modes | unlock request with mode and interlock check, settings, CLI unlock | the check reads the doors one after the other while they change | no two interlocked doors, permission holds when the unlock commits |
| **Settings** (`settings.c`) | settings in RAM, version, two flash sectors | `settings_set`, `MSG_SAVE`, `flash_write` | resets within erase and program, version wrap, coalesced and refused saves | a save survives, the newest is restored |
| **Run loop** (`breakout.c`, `sys.c`, `usb.c`, `main.c`) | main queue, log ring, lock, terminal mode, `ERR_QUEUE`, watchdog | `push`, `dispatch`, `print`, flush, `syserr_set`, watchdog tick | the error of a full queue uses the queue; log shared by three contexts; watchdog fed by messages | log in order, error path ends, no spurious reset, requested reset happens |
| **U2 readers and keypads** (`U2.c`, `PCAL6408A.c`) | bits and timers per reader, code and timers per keypad, latched lines, swipe mempool | pulse interrupt, `U2_wio`, `U2_tick`, cards and codes, swipe to host | bits are messages that may be refused, timeouts and locks race the bits, swipes go from an interrupt to the loop, a blocking guard | a card or key reported is the one sent, everything ends, pool sound |
| **RTC** (`RTC.c`, `RX8900SA.c`) | time in memory, registers of the chip, queued transfers, datetime mempool | set and get through core 1, tick and update interrupts, start-up | a write queued and its read refused, an interrupt without a guard that undoes an update, a torn 64-bit read | memory and chip agree when ready, and in the end always; pool sound |
| **SSMP server** (`SSMP.c`, `bisync.c`, `buffer.c`, `usb.c`) | circular buffer, decoder, answer being written | receive, frame, answer, trap | bytes lost in five ways, nested callbacks, `MSG_RX` refused | a request is acted on once and in order; no frame swallows the next |
| **MIB, auth, ASN.1** (`MIB/`, `auth.c`, `encoding/ASN.1`) | table of objects, public community | GET and SET, codecs of both sides | two encoders and decoders written apart | what one side writes the other reads; a refused SET changes nothing |
| **rpcd** (`zero2w/rpcd`) | pending requests, connections | get/set with timeout, traps to listeners, reconnects | late answers, timeouts in queue, several goroutines | an answer goes to its own request, nothing waits for ever |
| **ut0311** (`zero2w/ut0311`) | pending swipes with PIN timers, state cache, listeners | swipe decision, PIN, traps, UT0311 protocol | PIN timer against PIN, stale cache, a goroutine per trap | an unlock follows a permitted swipe; state ends up as the board's |
| **dbd** (`zero2w/dbd`) | SQLite tables of cards and events | put/get | index of an event against its row | events numbered without gaps or repeats |

`PROJECT.json` lists every component with what is modelled of it, and under
`hazards` each point of the code where something can go wrong that a test would
hardly reach, with the properties that watch it.

### Interactions

* U3 readings, U4 operations and the clock's transfers share `I2C0.queue`: a U3 reading
  occupies a slot that a U4 write would need (in `U4`, `U3_on_update`). In `Clock` the
  others' tasks are the smaller queue.
* `doors.c` reads U4's outputs and U3's inputs without their guards (`Doors`).
* Everybody pushes to the main queue and logs (`Sys`); what a refused push loses is
  in the module of the component that pushed (`announced` in `U4`, `pending` and
  `dropped` in `Settings`, `Mistaken` in `U3`).
* The host's view of a door consists of the events that U3 and U4 send, as traps of
  `Link`; a swipe of `Readers` is another trap, and starts a handler of `Access`.
* `Link` composes the modules of the line: its messages are `Packets`, which each side writes and
  reads in its own way (`BER`), in frames of `Bisync`, and what they ask is answered by `MIB`.

## 2. Modules

| Module | Models | Reads |
|---|---|---|
| `U4` | relays, LEDs, tick, mempool, I2C queue, core 1, device | |
| `DoorLocks` | abstract: what U4 promises of the relays | |
| `U4Refinement` | the mapping of `U4` to `DoorLocks` | `U4`, `DoorLocks` |
| `Settings` | settings, save message, two flash sectors | |
| `U3` | one filter and event table per input | |
| `Doors` | unlock requests and interlocks over relays, contacts and settings | |
| `Sys` | main queue, log, error path, watchdog | |
| `Access` | ut0311's decision on a swipe, with PINs, cached states and recorded swipes | |
| `Packets` | the packets of SSMP as each side has them in memory | |
| `BER` | their encoding in ASN.1, on both sides | `Packets` |
| `CRC` | the CRC-16/DNP of a frame | |
| `Bisync` | frames and escapes, the decoders as automata over bytes, for any checksum | |
| `MIB` | the objects, GET and SET, the public community | `Packets` |
| `Link` | host, line, circular buffer and SSMP server, from the bytes up, for any encoding | `MIB`, `Bisync` |
| `Clock` | the clock in memory, the chip, the transfers between them | |
| `Readers` | card readers and keypads, from the pulse to the swipe | |
| `U4Proofs`, `SettingsProofs`, `SysProofs`, `AccessProofs`, `ClockProofs`, `ReadersProofs`, `LinkProofs` | theorems | their module (`LinkProofs` also `BER`) |
| `DoorsProofs` | theorems | `Doors`, `U3` |
| `MCLink` | TLC instance | `Link`, `BER`, `CRC` |
| `MCU4`, `MCSettings`, `MCU3`, `MCDoors`, `MCSys`, `MCAccess`, `MCClock`, `MCReaders` | TLC instances | their module |

### U4 (`U4.c`, `mempool.c`, `I2C0.c`)

`outputs`, `write`, `timer`, `ledTimer`, `blinks`, `interval` are the fields of
`U4x`; `guard` its mutex. `cmd` is the command the loop is inside; it is two
steps (`Enter`, which waits for the guard, and a body such as `U4_set_relay`, which changes the outputs and
leaves the guard with `Leave`), since a tick that comes between them finds the guard taken and skips. The
interrupt is `TickSkip`/`TickEnter`, `TickHealth`, `TickTimers`, `TickWrite`:
each is one pass through a region of `U4_tick` in which nothing but core 1 runs.
`heap` and `queue` are the mempool and `I2C0.queue`; `Panic` is the empty pool,
after which only `Reboot` is possible. Core 1 takes an operation with `I2C0_run`
and runs it in the steps in which the tick can intervene (`WriteOutputs`,
`WriteReadback`, `WriteFinish`; `HealthReadback`, `RepairEnter`/`RepairSkip`,
`RepairExit`). `device` is the chip's register, with the polarity of active-low
LEDs (`Wire`). `Fault` is a failed transfer, `Glitch` a register that changes by
itself, `Reboot` a watchdog or power reset, after which outputs are as at power on
(the chip is not reset, `U4_init` writes it).

`DoorLocks` is the abstraction: sets of relays wanted, on their way (between the traffic of others, which
is all that a health check or a read of U3 is to it), driven and reported.
Without faults the relays driven are the ones wanted, in order and each change
reported. `broken` (a fault or a restart has happened; `faults > 0` or the restart error
in `U4`) allows the steps `Lose`, `Corrupt`, `Misreport` and `Restart`, and takes the
fairness of `Report` away, but not that of `Send` and `Drive`: through faults and restarts
the relays still end up where they are wanted.

### Settings (`settings.c`)

`version` and `doors` are the RAM settings, `pending` the `MSG_SAVE`s in the queue
(`Room` of its slots are free for them), `flash` the two sectors, `op` and `page`
the point within `flash_write`, which erases and then programs. `Tear` is a reset
within either, which leaves any mixture that the CRC rejects or, by luck, the
intended content (`Torn`). An erased sector reads version `MaxVersion - 1`, as all
ones do in the code. `Reset` is one between.

### U3 (`U3.c`)

The first-order filter is in fixed point with the code's coefficients scaled by
`Scale`; `x` and `y` are the last sample and output, `inputs` the debounced bits.
`Contact` moves a contact, `U3_process` is one reading with its events, each of
which the full queue may refuse: it is not sent again, but raises `ERR_QUEUE` (`Raised`), as does a reading
that is refused (`U3_read`). `announced` is the last event of an input that was sent, `syserr` the errors `ERR_QUEUE` and
`ERR_RESTART` that stand. `Mistaken` are the inputs of which the events have left the host with the wrong idea, and
`known` those of them that it could know of when it last cleared the errors (`clear_errors`, from the CLI or by a SET). The
states of a contact are named by their events; the getter names them the other way round (section 5).
`since` counts samples since an input changed.

### Doors (`doors.c`, `MIB/set.c`, `cli.c`)

`MIB_set_door_unlock` starts a request; `ReadDoor` reads one door of its group, as
the `for` loop does; `Refuse` and `Commit` end it. `U4_tick`, `U3_get_door` (a contact's state changes),
`Blink` and the CLI's `unlock_door` act in between; `sysinit` is a reset. `U4_get_relay` is
modelled as the C precedence makes it: see the findings.

### Sys (`breakout.c`, `sys.c`, `usb.c`, `main.c`)

Each context has a stack `todo` of calls still to make. A push that a full queue
refuses prefixes the calls of the error path (`report`, then `print`, then
another push), so that re-entry is visible as a stack that holds `return` twice. The
log is the ring of `SYSTEM.queue` with its head, tail and lock; its messages are
numbered so that what is lost and in which order is visible. `late` counts the
seconds in which the queue refused the tick's or the watchdog's message or the
loop was never idle: what the watchdog may legitimately count.

### Access (`zero2w/ut0311/UT0311/swipe.go`, `state/state.go`, dbd's swipes)

`Trap` is rpcd's call, which starts a goroutine: the handler `h`, at the place `at[h]`.
A handler is cut wherever it calls another process or touches what handlers share:
`swiped` (take a pending swipe away, card record, permissions, door mode),
`interlocked` (one read of the cached door states, repeated while `unread[h]` is not
empty), `antipassbacked` (dbd's last swipe, then unlock or wait for a PIN), `keyed`
(load the pending swipe), `digit` or `code` (the timer and the entry), `unlock` (rpcd),
`granted`. `timeout` is the PIN timer, `PutSwipe` the goroutine that records a granted
swipe. `pending` is the `sync.Map`, with a swipe named by the number of its handler. A swipe whose answer from
the board is lost is denied although the door is unlocked, as in the code. `Restart`
is the end of the process, which two goroutines that write the map of `state.go` at
once can cause, and its next start. Cards and settings are constants: they do not change
while a swipe is decided on. `Permitted` stands for the dates, the permission
and the door mode. `outcome`, `passed` and `orderly` are history.

### Link, Packets, Bisync, CRC, BER, MIB (`SSMP.c`, `usb.c`, `buffer.c`, `bisync.c`, `rpcd`)

`down` and `up` are the bytes in transit, `ring` and `rx` the circular buffer and the
`MSG_RX`s, `codec` and `decoder` the two decoders. `Write`, `Flush` and `Read` are the host's
serial driver, `tud_cdc_rx_cb` the callback that fills the buffer, `Nested` the same
within `usb1_write` (`tud_task` called by both the loop and the interrupt), `SSMP_rx` one run of
`buffer_flush` up to the next answer: `buffer->head` is read at each byte, `buffer->tail` moves
at the end. Messages are real bytes: the frames are those of `bisync_encode` with their CRC, over
the BER of each side, so that an id or a value that looks like a control character is escaped,
padded and cut as in the code. `Link` and `Bisync` take the encoding and the checksum as
constants (`HostEncode`, `DeviceDecode`, .., `Checksum`), which `MCLink` defines as the code's, from `BER`
and `CRC`: what they have to do with each other is `CodecAssumption`, that each side reads what the other
writes, for the requests, answers and traps there can be. In `BER` the loops over digits, bytes and fields are
recursive functions or folds, so that the two sides' codecs can be proved about (`CodecHolds`); the OIDs are sequences
of numbers, as both sides handle them, and a sequence is unpacked where its fields are asked for. Bytes are lost where the code loses them (flush, full ring, giving up a
write, nested callback, refused `MSG_RX`), at the points of `Cuts`. `said` and `did` are history.

### Clock (`RTC.c`, `RX8900SA.c`)

`epoch`, `last_tick` and `ready` are the clock in memory, `regs` the chip's registers, in BCD. Times are relative to
the time passed: the chip and a clock that keeps up stand still, and `last_tick` is what the next tick adds in
excess, nothing when the last was the one before, up to 15 s (`Lapses`) when the clock has not been ready since.
The tick interrupt takes no guard. It is three steps, the reads (`RTC_on_tick`), the sum stored in `epoch`
(`TickAdds`) and `last_tick` (`TickEnds`); core 1's task is a transfer (`ReadChip`, `WriteChip`) and an update in the order of the
source: `RTC_read` makes the clock ready and then sets the epoch, `RTC_write` clears `ready`, `epoch` and
`last_tick` one after the other. The loop's requests are cut
at each push: `Begin`, `RTC_get_datetime`, `PushWrite`, `PushRead`, `Waited`.
`Torn` is the read of 64 bits in two halves around a carry; stores of 64 bits are one step. A tick that changes nothing
(it is neither late nor meets an update) is left out, as is the integrator, which only chooses
between keeping and correcting the epoch. `doubt` is history and marks the two cases in which the clock may differ from
the chip although it is ready, until a read mends them: a transfer that failed and has set the registers all the
same, which the code cannot know of, and a tick under way while `RTC_write` clears the clock, which brings back
the epoch or `last_tick` (section 5).

### Readers (`U2.c`, `PCAL6408A.c`, `I2C1.c`)

`out` is what a reader has yet to send, `lines` what has pulsed since the last interrupt, `u2` the
readers and keypads, `io` the main queue and the swipe pool. `Pulse`, `U2_on_interrupt`, `MSG_WIO` are the
way of a bit to `u2`; `U2_tick` is one tick over all doors, which takes cards and keys, ends codes
and locks; `MSG_SWIPE` and `Trap` the way of a swipe to the host. `I2C1_scan` is the CLI's scan of the
bus, whose guard the interrupt waits for: `stuck`, which only the watchdog resolves. `disturbed` is
history: bits of the last transmission are lost, or are taken in more than one part.

## 3. Runs

| Run | Instance | Shows |
|---|---|---|
| `u4` | 2 relays, 1 active-low LED, 2 chunks (symmetric) for a queue of 2, as many as slots like the code's 32 for 32, relay timer 2 ticks, health check every tick, 2 commands, 1 fault | all safety of U4 under every interleaving, the panic of an empty pool included |
| `u4_live` | 1 relay, 1 LED, 2 chunks (fewer than are needed), queue of 1, 2 commands, 1 fault | doors are locked again, the device converges and `U4` implements `DoorLocks`, liveness included, through faults, panic and reset |
| `settings` | 2 settings, 4 versions, room for 2 saves, 5 changes, 1 reset and 2 torn writes | no save is lost to a reset, the newest is restored |
| `u3` | one input, the real coefficients × 1000 | debounced, follows the contact, no event is lost without an error to tell, whatever is refused, reset or cleared |
| `doors` | 4 doors, interlocks 0,1,2,3,4,8, doors 1 and 2 normally closed, 1 reset | exclusion for the groups without door 1; checks hold at commit |
| `doors_interlock` | interlock of doors 1 and 2, no reset | *violation*: finding 1 |
| `sys` | queue of 3, log of 3, watchdog of 2 ticks, 1 other message per boot | log in order, error path ends, watchdog fed, reboots happen, log is shown |
| `access` | doors 1 and 3, anti-passback 1:(2,3), interlock (1,2,3), a card with a PIN that may use only door 1 and one without, 3 traps, 1 failed call or restart | a door is only unlocked for who earned it, sides alternate, every swipe is decided on |
| `access_pairs` | doors 1 and 3, anti-passback 1:2; 3:4, one card, 2 traps | *violation*: finding 2 |
| `link` | 2 of three requests (GET and SET of a delay, one SET out of range), 1 trap, ring of 97 bytes, 1 loss at any of 3 cuts | requests are acted on once and in order, the host understands what was said, the next frame is always taken, settings obey |
| `clock` | a leap year's last day, set by each of the four requests, 2 requests, queue of 2, 2 chunks, a clock not ready for 0 or 15 s, 1 failed transfer, torn read or restart | pool sound, the ready clock is the chip's, both agree in the end |
| `readers` | 2 doors, a card of 6 bits whose halves would be keys, keys of 4 bits, PINs of 2, 2 transmissions, queue of 2, 2 chunks, 1 disturbance | what is reported is what was sent, pool sound, all ends |

**Why the bounds are enough.** Two relays show that a command on one does not
disturb the other's bit; more relays are only more independent bits. A
queue of two is full with one U3 reading and one write, or with two writes and the pool
of two then empty: the panic happens in `u4`, and in `u4_live` with a queue of one. Two commands are needed for unlock-then-lock and
blink-then-blink; a third adds no new pair of concurrent activities since the loop
runs one at a time. Four versions wrap twice in five changes, which is what
makes `Rank` and the sector choice matter; two settings let one change
while another is being saved. One input suffices in `U3` because no operation
reads two of them (and the theorems hold for any set). A log of three is the
least for which overwriting two messages leaves a third. Counters that would
grow without bound (`commands`, `faults`, `changes`, `boots`, `resets`, `tears`, `load`, `sets`, `sent`)
are bounded by the constants of the same name; the proofs do not bound them
beyond being constants.

In `link` a ring of 97 is full after a request and a half, so that bytes are refused within a frame; ids
from 149 on are written as two bytes, one of them a control character for one of the two
requests. Two requests and a trap are a frame, the one it is cut into or joined with, and another writer.
In `clock` the queue of 2 refuses the read that follows a write. Two requests are a write
and another that finds it queued, half done or undone; three are what the panic of the pool of two takes, which the run does not
reach (`ClockInvariance` covers it). 15 s is the interval of the reads, which ends a lapse. In `readers` one tick more than `READ_TIMEOUT` ends
a card; the locks and timeouts keep the order of the code's (10 ms, 1.25 s, 1.25 s, 2.5 s). Two
transmissions are the two of one reader, one after the other, or one each of two readers at once.

Three traps are a swipe, the swipe
or code that meets it, and one that comes after both; four traps without failures were
checked for safety once, with the same result. The tables of the other anti-passback
settings are proved (`SidesAgree`).

`settings`, `access` and `link` have no deadlock check: after its last change and reset, its
last trap or its last request, the bounded model stops. All others do check deadlock.

**Fairness.** U4: the interrupt, core 1 and the loop's current command
go on (`WF`): the hardware timer keeps firing and neither core stops, except by a
panic, whose watchdog reset happens. Two assumptions are about contention,
not scheduling: `RoomFound` (when the tick finds a write due, `I2C0.queue` has room
infinitely often: core 1 needs about 0.5 ms for an operation and U3 queues one per millisecond) and
`GuardFound` (a repair that keeps being attempted some time finds the guard
free: the guard is held for microseconds of a 10 ms period). They are needed: a tick
that always finds the queue full never writes. No fairness is assumed of commands,
faults and glitches. U3: readings go on (`WF`); bouncing need not stop, `Settles` has
the stable contact as its hypothesis. Sys: the contexts, the dispatch and the tick
run, and `CatchesUp`: bursts end, so that from some time the loop is idle once
between two ticks. It is what the `MaxLoad` bound approximates; without it a
saturated queue refuses the watchdog's messages for ever, and the board resets.
Access: goroutines run and timers fire (`WF` of every handler's next step and of every running
timer); nothing is assumed of traps, failures, restarts or of `PutSwipe`. Calls of other
processes return, with an answer or an error; `net/rpc` has no timeout here, so a
dbd that hangs without closing its connection is outside the model.
Clock: the update timer fires, an interrupt ends and core 1 runs (`WF`); nothing is asked of the loop.
`Undisturbed` (`SF`): a read that is made again and again is some time not interrupted at the very
update, some instructions every 15 s against some instructions every 100 ms. Readers: timer, pulse
interrupt, loop and reader go on (`WF`), and the watchdog restarts what is stuck or has panicked.
`Link` states safety only: after a loss nothing is repeated, so there is nothing that must happen.

**Mutants.** Each property has a mutation of a modelled definition (the operators
commented "Mutant:") that breaks it, a plausible mistake at that point: a missing clamp, a
leaked chunk, a clear without the write flag, an unrefused error.

## 4. Proofs

For every value of the constants that satisfies the named assumptions.

* **`U4Proofs`.** `Invariance` proves the inductive invariant `TypeOK /\ GuardHeld
  /\ Owned /\ RelayTimed /\ NoLostUpdate`, one step per action. *GuardHeld* ties the
  guard to the place each of the three actors is at; without it *RelayTimed* (a relay is
  energised exactly if its timer runs) fails in the middle of a command. *Owned*
  says that every allocated chunk is in exactly one place (queue, core 1 or the
  tick's hand): `NoLostUpdate`, which says that the last write on its way carries the
  current outputs, is not inductive without it since a chunk in two places could be
  overwritten. Results: `TypeCorrect`, `MutualExclusion`, `RelaysTimed`, `NothingLost`,
  `PoolSound`, and `PanicsWhenBehind`, by counting the chunks in the places that *Owned* names: whatever
  the sizes of pool and queue, the pool is only empty when all its operations but the one core 1 runs are
  queued for it. With 32 chunks for 32 slots this can happen (hazard at `mempool.c:113`), and the pool
  panics before the queue refuses. `EventsTruthful` needs that what was read back is what the
  device shows (`ReadBack`), since U4x.state lags it during a write; `BlinksEnd`, that no
  blinks are owed without an interval (`Paced`).
  `RefinesDoorLocks`: `Spec => Locks!Safety`, one lemma per group of steps. The
  pipe of `DoorLocks` is the queue with the write that core 1 has taken but not transferred in front
  (`PipeQueued`, `PipeRun`, `PipeWritten` and `PipeKept` say what each step does to it). *Owned* is needed
  once more: an operation that is freed or allocated is not in the pipe. `Reported` is stronger than
  `EventsAgree`: while nothing is broken the events are true even if the tick once found the queue full.
* **`SettingsProofs`.** `SettingsInvariance` adds to the types that the newest valid
  sector holds the last save or a request (`HoldsRequested`), that a
  write in progress spares it (`Spared`), and how versions relate (`Kept`, `Counted`).
  Results: `SurvivesResets`, `WritesElsewhere`, `RestoresLatest`, `PersistsChanges`.
* **`DoorsProofs`.** What the doors report and what is done to them. Of `U3`: `FiltersBounded` (the filter stays in its range: the fixed point
  of the gain and the decay), `EventsTellState` (the events are right or an error has told so), `NeverLate`. `DebouncedHolds`, for any number of inputs and
  any coefficients: what a bouncing contact can do to the filter in n samples is bounded by
  the two worst cases, the recursive functions `Fall` and `Rise`, which start at the threshold just crossed and
  are fed the worst samples; `Slow` says that an input that changed n samples ago is within them. It needs the
  sample that made the change too: that one is known, all the later ones are not. `SpacingAssumption` says that
  neither worst case reaches the other threshold. It is about numbers only: TLC evaluates it for the
  code's coefficients, and it is tight, true for the 14 of `MCU3.cfg` and false for 15. That such functions exist
  is itself proved (`Recursion`, from `Induction`).
  Of `Doors`: `ExclusiveBehindDoor1` (interlocks hold between doors 2 to 4
  whatever happens between the reads) and `ChecksHoldAtCommit`.
* **`AccessProofs`.** `AccessInvariance`: the types, with `Stage`, which ties each
  place of a handler to the checks that come before it, and `Waits`, which says that a swipe that
  waits for its PIN has passed them. Without `Waits` a code could unlock for
  a swipe that nobody checked. Results: `AccessTypeCorrect`, `OnlyEarned`, `SidesAgree`.
  `SidesAlternate` adds `Begun` (a swipe is checked before it passes, waits or is unlocked for) and
  `Undisturbed`, which speaks of swipes in order and calls that are answered: one swipe at most is active
  (`Alone`), so a card's last passage is recorded or still on its way to dbd (`Recorded`, `Newest`), and what
  was read at the anti-passback check still stands at the unlock, however late (`Checked`); with
  `SidesAgree` each passage is then at another side than the one before (`Apart`).
* **`SysProofs`.** `SysInvariance`, for any sizes of the main queue and the log and any watchdog
  timeout, in four parts. `Reported`: each context reports the error at most
  once, and the counter plus the reports begun is at most 3, the number of contexts, so that a counter of at
  least four never wraps to 0: `ErrorPathEnds` alone says nothing of
  the counter. `Watched`: if the watchdog has counted one second more than the troubled ones, then the
  message of this second is still on its way and the loop has not been idle. `Newest`: the slots between
  tail and head hold consecutive messages and, unless the first is a mark, continue
  what was written out. `Shape`: types. Results: `LogInOrder`, `ReportEnds`, `WatchdogFed`.
* **`ClockProofs`.** `ClockInvariance`. *Owned* ties every datetime in use to one queued or running
  write. *Once*: the set-up of the chip is still to come at most once, and before it nothing is ready.
  *Current*: what core 1 has read is what the chip still has, as core 1 is the only one to write it.
  *Harmless*: at each point of the tick and of core 1's updates, what the tick has read, `epoch`, `last_tick` and `ready`
  are together those of a clock that runs with the chip or of one that is cleared, unless in doubt. The order of the source's
  stores matters: `ready` falls before `epoch` and `last_tick` are cleared, and rises before the epoch is set. Only
  together do they give `Coherent`. Results: `ChunksOwned`, `ClocksAgree`. What is excepted is excepted because
  the code does not promise it: with the tick under way while `RTC_write` clears, a ready clock can be 15 s off.
  `ToldHolds` is about the conversions, for every date the chip can keep, where the run sets one. `RoundTrip`:
  `epoch_to_datetime`, which counts down years and then months, is the inverse of `datetime_to_epoch`, across
  leap years and years of centuries (`YearExists`, `MonthExists`: the search ends, and at
  one place only). `DayOfWeek`: `dow` is the weekday counted from 1970-01-01, a Thursday, except
  that it is a day late in the first two months of 2000 (finding below). `Dated` is the invariant that
  carries this through the queue and the chip: what a request, a datetime in use and the registers
  hold is a date and a time. `MomentsAssumption` is where that starts: the chip keeps two digits of the
  year and nobody checks what is set any further (`cli.c:562`, `MIB/set.c:65`), so that for 2100 or a 13th month
  there is nothing for the two clocks to agree on. Day 31 of a shorter month is within it.
* **`ReadersProofs`.** A tick folds over the doors and a message over its bits, so the recursive functions of
  the model come first: `Induction` over the natural numbers, from their well-foundedness, `Recursion`, that what
  is defined step by step exists, and from these what `Queued` says of a queue that grows or shrinks
  (`QueuedAppend`, `QueuedTail`) and what a tick does to each door (`TicksFold`; `Keeps` and `Justifies`).
  `OwnedHolds`: a chunk is with one message, one door or the pool. `AssembledHolds`: the bits on their way
  and those collected are, door by door, what the reader has sent (`Sound`), up to the loss that has
  been noted; that transmissions have at most 64 bits is needed, or the 64-bit shift would cut one. `GenuineHolds`
  follows from it and from what made the tick report the card or the code; the code lock has to outlast a
  tick, as else the keypad could report in the tick that unlocks it.
* **`LinkProofs`**, for any requests, events, checksum and encoding of packets, buffers of any size and any losses.
  First what the decoders, recursive functions over bytes, make of two sequences joined (`Induction` and `Recursion`
  as in `ReadersProofs`), then what they make of a frame. `FrameTaken`: whatever a decoder heard
  before, a frame is taken, of any packet up to 512 bytes: the first SYN may be the last byte of a CRC or be
  escaped, the second starts over, and no byte of the packet or of its CRC is taken for a control character.
  `ResyncsHolds` is that for every state a decoder can be left in, thus under losses; as lost bytes may make
  a packet that nobody sent, which a checksum need not notice, its hypothesis `Encodes` says that the device can
  write an answer to whatever it can read (`BytesHold` below). Left out is what the host does with a byte beyond
the 512 of its buffers: it also drops what it had read together with that byte (`bisync.go:143`), here the next byte starts
over; the escaped bytes, which it takes without a limit, are as in the code (`Amass`).
  While nothing is lost, `LinkInv` describes the whole line from one end to the other (`Line`): with what is in transit, in the
  ring, and in the unsent rest of a frame, a decoder will have heard exactly the packets that were sent (`Lines`), and
  is then as at first; bytes in the ring are announced by an `MSG_RX` or being taken (`Announced`: one message may
  use up the bytes of the next, but then it takes them all); each request received is answered
  (`Responded`). Results: `DeliveredHolds`, the
  device has received the first of the requests and the host the first of what was said, each once and in order, and
  `ServedHolds`, that nothing is left unanswered when the line is idle; `FaithfulHolds` and `UnderstoodHolds` restate
  the first for what the run checks under losses.
  `SettingsHold` needs no such restriction: whatever is lost, the settings are those that the requests received ask
  for. One more request either sets an object's value or leaves it (`ForceMore`), and `MIB_set` and `MIB_get` do the
  same with the setting (`AnswersObey`): the objects differ from one another by the numbers of their OIDs (`StoredApart`), so that
  no SET reaches the setting of another. Of bytes that nobody sent it assumes, besides `Encodes`, that an
  integer read from them is a number (`Reads`). With that the answers are true when they are given
  (`Truthful`); that the host can tell by its identifier which request one answers (`Counts`) is `ObeyedHolds`, again
  without losses: a frame forged by a loss could bring an identifier a second time.

  The second half of the module is about `BER`: what `Link` assumes of its codec holds of the source's.
  `CodecHolds` is `CodecAssumption` for the encoders and decoders of the source: any request of the host is read back by the
  device as it was written, and any answer and trap of the device by the host. It goes up from the digits. The bytes of
  `pack_integer` add up to the integer again, sign and all (`IntegerRead`), those of `pack_varint` to the number
  (`VarintsRead`), those of `pack_OID` to the OID (`OIDRead`, the root 0 that is skipped included); a field is read as it was packed and
  leaves the bytes after it (`FieldsUnpacked`), thus a list of them, the limit of 16 on the device
  included (`ListRead`), and the levels of a packet follow one in the other (`MessageRead`, `RequestRead`, `AnswerRead`,
  `TrapRead`). Since `pack_varint` and `unpack_length` agree only up to 127, each level needs a bound on its
  length, and this is what the hypothesis `Roomy` gives: identifiers and integers of 32 bits, as in the code, OIDs of up to
  13 bytes and texts of up to 30. Every OID of the MIB is one (`OIDsLegible`), and so are the requests of the run;
  a packet of those is at most 129 bytes long, frames take 512.
  `BytesHold` is for the bytes that nobody sent: whatever the device finds in them, the value has the type of
  its tag (`FieldsType`, `ReceivedType`), and the answers to it are bytes (`AnswerType`). With it the hypotheses `Encodes` and
  `Reads` of `ResyncsHolds` and `SettingsHold` hold of the source's codec; of the checksum it takes only that it gives bytes.

A variable's type is proved where there is a proof module (`TypeOK`, or `Shape` in `SysProofs`,
`ClockProofs` and `ReadersProofs`) and is not checked again by a run.

**Only model-checked**: everything temporal under fairness (`Relocks`, `Converges`,
`Settles`, `Reboots`, `Shown`, `Answered`, `Synchronised`, `Quiesces`) and the liveness
that `ImplementsDoorLocks` adds to `RefinesDoorLocks`, both beyond the prover; `Faithful`,
`Understood` and `Obeyed` of `Link` under losses: they hold because no loss of the instance leaves a frame with a
right CRC-16, which is not so of every loss. Without losses they are proved (`FaithfulHolds`, `UnderstoodHolds`, `ObeyedHolds`). `CRC`
is a recursive operator over bits, which is only run: the theorems hold for any checksum of two bytes.

## 5. Findings

1. **The interlock does not see doors 2 to 4** (run `doors_interlock`).
   `U4_get_relay` returns `r->mask & U4x.outputs != 0`, that is `r->mask & 1` if
   anything is on (`U4.c:377`).
2. **The reader pairs of the anti-passback are not independent** (run `access_pairs`).
   `constants.go:59` says `readers 1:2; 3:4 (independently)`; dbd keeps one last door per
   card, so that a card that was last used at one pair is denied at the other (`swipe.go:159`).

Not settled by the model: **which state of a contact is open**. The events have an input whose bit turns 0 as OPEN
and one whose bit turns 1 as CLOSE (`U3.c:236`), and the host is told `MIB_DOOR_n_OPEN` true and false with them
(`SSMP.c:67`). The comment of `U3_get_door` says "Returns true if the door is open" of the bit 1 (`U3.c:284`), and a GET of
the same object (`MIB/get.c:300`) and the interlock (`doors.c:87`) take it so; `TODO.md:16` notes "door open/closed seems to be
inverted". So the trap and the GET of one object contradict each other, and one of them is wrong; which, depends on how the
contacts are wired. `U3` names the states by the events, `Doors` by the getter, and
`EventsFollow` is about events that are missing, not about their names.

Met on the way, without a document that says otherwise: settings are not restored after a
reset (`sys.c:114` has `// FIXME settings_restore();`), so that versions restart from 0 and a save after
a reset may rank below the one before it (`LatestRestored` therefore speaks of no reset); the health check
captures the outputs before a queued write is done, so it may report a mismatch that is
none and repair it; `lock` requests too are refused by the interlock; the relay or an LED of
a door blocks doors that share a group with door 1; the CLI's `unlock` ignores mode and
interlock; `ERR_QUEUE` is logged once per boot, as its counter never
returns to 0; a refused event of U3 is
never repeated, and the state of the inputs is not sent after a reset, so that the host knows only by the error;
the pool of 32 operations panics before the queue of 32 refuses; CLI mode is given up every 15 s whatever the terminal answers. In `swipe.go`: with
anti-passback 1:(2,3) door 4 denies everyone; a `GetSwipe` that fails lets the card
pass; a PIN that comes after its timeout, before another swipe, still unlocks the door that was denied; two
complete codes may both act on one swipe; a swipe overtaken by another at the
same door while it is decided on may be recorded in either order (`Alternates` therefore
speaks of swipes that do not overlap). The door states that the interlock of
`swipe.go` reads are cached and as old as the last trap; nothing promises otherwise.

In the clock: `dow` is a day late in January and February 2000, as its year is then -1 and C divides -1 by 4 to
0 (`RTC.c:526`; found by the proof of `DayOfWeek`, and excepted in `Told` as `Early2000`; only the CLI and the
chip's own register show it); a request that a full queue refuses after its write was queued still sets the chip, and
the CLI prints `ok` whatever the result; setting the date and at once the time loses the date,
since the time is completed from a clock that is not valid yet or not read back;
`RTC_get_datetime` checks `ready` before it takes the guard (`RTC.c:429`): if a write clears the clock in
between it returns 1970, with which a `set-date` writes the time 00:00:00 and a `set-time` the year 70, that is 2070, to
the chip; a tick under way while `RTC_write` clears the clock stores `last_tick` (`RTC.c:195` after `312`) or the
epoch (`RTC.c:192` after `311`) again: if the read that follows is refused, the clock is not ready until the next one, up to
15 s later, and then the first tick adds all that time, so that the clock is ready and up to 15 s off until the read after
that; likewise `RTC_read` is `ready` (`RTC.c:220`) before it sets the epoch (`RTC.c:233`), and if an epoch has come
back in this way, a tick between the two takes it up once more; a chip set up anew says 2025-01-01 is a
Monday; a comment says 60 s where the interval is 15 s (`RTC.c:151`); the pool of 8 datetimes is
smaller than the queue of 32, so that it panics before the queue refuses; `RTC_reset` is never called.
At the readers: the end of a lock in the middle of a card clears its first bits, and the rest may count
as a key; the scan of the bus holds a guard that the interrupt waits for, for ever; the branch at
`U2.c:259` is unreachable. On the link: lengths from 128 on are written as a varint and read as BER's long form,
on either side, which no packet reaches; the second comparison with `ERR_DEBUG` in `get.c` makes the flag 11
unknown; a request is refused only if its community is not authorised *and* its validation succeeds
(`SSMP.c:277`, and the same for GET), so that the answer `NO_ACCESS` is given to `public` alone (`MIB` has it as it is); the value in
the answer to a refused SET is uninitialised (`SSMP.c:332`): `Garbage` has it as nothing, a number, a boolean or any of the
texts, but not as a text without an address.

## 6. Order

`U4` with its abstraction came first, since it drives the doors; then what decides
about them (`Doors`), what they report (`U3`), what survives a reset (`Settings`) and
what carries it all (`Sys`); at the other end the host's decision (`Access`), the line between the two
(`Link`), and what starts and dates it all (`Readers`, `Clock`). What would come next:

1. **rpcd's pending requests**: the goroutines of its callers, their timeouts, the table of handlers and the
   reconnection. Properties: no handler stays registered; an answer goes to its own request, whatever
   times out; a SET that its caller has given up.
2. **Events**: traps handled concurrently, the state cache and dbd's numbering.

## 7. Not modelled

The goroutines of rpcd's callers, with their timeouts and the table of pending requests (`ssmp.go`): `Link`
sends each request once, as the serial driver does in the end. ut0311's protocol and dbd's tables: single calls
without state of their own beyond what `Access` has. Cryptography (functions of long bit strings, which no
request calls); register layout and bus timing of the I²C chips other than the clock's (a transfer is one
step that works or fails); the second filter `U3x.stable`, which nothing reads; the
padded decimal form of a card number; formatting, line editing and
traces; the UART variant, whose `main.c` pushes the same messages; daemonising, command
line tools and the logger; hardware files. `U4_init` failing at start is not
modelled: its state is the initial state of `U4`.
