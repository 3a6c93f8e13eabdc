-------------------------------- MODULE Readers --------------------------------
(***************************************************************************)
(* The card readers and keypads of U2.c.  A reader sends a card or a key   *)
(* as pulses on two lines; each pulse raises an interrupt (U2_read) that   *)
(* pushes a MSG_WIO with the lines that pulsed; the main loop (U2_wio)     *)
(* collects the bits, and a timer interrupt of 1 ms (U2_tick) takes them   *)
(* for a card or a key when no bit has come for a while.  What it makes    *)
(* of them is a swipe: a chunk of a pool that goes through the same queue  *)
(* to the loop, which reports it to the host and frees it.                 *)
(*                                                                         *)
(* Counts of bits and times in ticks are constants, small ones for TLC.    *)
(***************************************************************************)
EXTENDS Integers, Sequences, FiniteSets

CONSTANTS
  N,             \* doors (4)
  Transmissions, \* what the readers send: pairs of a door and a sequence of bits
  CardBits, KeyBits, MaxBits,                          \* 26, {4, 8}, 64
  READ_TIMEOUT, CODE_TIMEOUT, CARD_LOCK, CODE_LOCK,    \* 10, 2500, 1250, 1250
  PINSIZE,       \* 6
  QueueSize,     \* the main queue (64)
  Chunks,        \* the pool of swipes (16)
  MaxSent,       \* bound: transmissions
  MaxFaults      \* bound: lost bits, stalls, scans, failed transfers and restarts

Doors == 1 .. N
ASSUME ReadersAssumption ==
  /\ {N, CardBits, READ_TIMEOUT, CODE_TIMEOUT, CARD_LOCK, CODE_LOCK, CODE_LOCK - 1, PINSIZE} \cup KeyBits
       \subseteq Nat \ {0}
  /\ {MaxBits, QueueSize, MaxSent, MaxFaults} \subseteq Nat
  /\ Transmissions \subseteq Doors \X (Seq({0, 1}) \ {<<>>}) /\ CardBits \notin KeyBits
  /\ \A t \in Transmissions : Len(t[2]) <= MaxBits

VARIABLES
  out,       \* what each reader has yet to send
  sent,      \* how many transmissions have begun, and the last of each reader
  disturbed, \* whether bits of the last transmission are lost, or not all taken together
  lines,     \* the lines that have pulsed since the last U2_read: <<door, bit>>
  u2,        \* U2x: the readers and the keypads
  io,        \* the main queue, the swipes in the pool, and whether the pool panicked
  hand,      \* what the main loop is doing
  stuck,     \* the interrupt waits for a guard that the loop it interrupted holds
  faults

vars == <<out, sent, disturbed, lines, u2, io, hand, stuck, faults>>
environment == <<out, sent>>
-----------------------------------------------------------------------------
Empty == <<>>
Reader == [bits |-> <<>>, timer |-> 0, locked |-> 0]
Keypad == [code |-> <<>>, timer |-> 0, locked |-> 0]
IdleU2 == [readers |-> [d \in Doors |-> Reader], keypads |-> [d \in Doors |-> Keypad]]
IdleIO == [queue |-> <<>>, pool |-> [c \in Chunks |-> Empty], panic |-> FALSE]
Nothing == [m |-> "none"]
Scanning == [m |-> "scan"]

Init ==
  /\ out = [d \in Doors |-> <<>>] /\ sent = [n |-> 0, bits |-> [d \in Doors |-> <<>>]]
  /\ disturbed = [d \in Doors |-> FALSE] /\ lines = {} /\ u2 = IdleU2 /\ io = IdleIO
  /\ hand = Nothing /\ stuck = FALSE /\ faults = 0

Running == ~stuck /\ ~io.panic
MayFail == faults < MaxFaults /\ faults' = faults + 1

HasRoom(q) == Len(q.queue) < QueueSize
Put(q, msg) == IF HasRoom(q) THEN [q EXCEPT !.queue = Append(@, msg)] ELSE q
-----------------------------------------------------------------------------
(***************************************************************************)
(* Cards and keycodes.                                                     *)
(***************************************************************************)
Ones(bits) == Cardinality({i \in DOMAIN bits : bits[i] = 1})
\* Even parity over the first half of the bits, odd parity over the second.
Parity(bits) ==
  LET half == Len(bits) \div 2 IN
  Ones(SubSeq(bits, 1, half)) % 2 = 0 /\ Ones(SubSeq(bits, half + 1, Len(bits))) % 2 = 1
\* The facility code and the number of the card.
Card(bits) == SubSeq(bits, 2, Len(bits) - 1)

Value(bits) == LET f[i \in 0 .. Len(bits)] == IF i = 0 THEN 0 ELSE 2 * f[i - 1] + bits[i] IN f[Len(bits)]
STAR == 10
HASH == 11
\* As 4 bits, or as 8 of which the first half is the complement: a set of one or none.
KEYCODES(v) == {k \in 0 .. HASH : v = k \/ v = 16 * (15 - k) + k}

\* swipe_alloc panics when no chunk is free; a swipe the queue refuses is freed.
\* Mutant: it is not.
Kept(q, c, x) == [q EXCEPT !.pool[c] = x]
Freed(q, c, x) == q
Post(q, m, x) ==
  IF \A c \in Chunks : q.pool[c] # Empty THEN [q EXCEPT !.panic = TRUE]
  ELSE LET c == CHOOSE c \in Chunks : q.pool[c] = Empty IN
       IF HasRoom(q) THEN Put([q EXCEPT !.pool[c] = x], [m |-> m, chunk |-> c]) ELSE Freed(q, c, x)

\* The rest of the tick works on a state [u2, io].  A card ends the code of its keypad.
U2_on_card_read(s, d) ==
  LET t == [s EXCEPT !.u2.keypads[d] = Keypad]
      bits == s.u2.readers[d].bits
  IN  IF s.u2.readers[d].locked > 0 THEN t
      ELSE [t EXCEPT !.u2.readers[d].locked = CARD_LOCK,
                     !.io = IF Parity(bits) THEN Post(@, "swipe", [door |-> d, card |-> Card(bits)]) ELSE @]

U2_on_keycode(s, d, code) == [s EXCEPT !.io = Post(@, "keycode", [door |-> d, code |-> code])]
\* The code is reported and the keypad locked.
EndCode(s, d, code) ==
  [U2_on_keycode(s, d, code) EXCEPT !.u2.keypads[d] = [Keypad EXCEPT !.locked = CODE_LOCK]]

\* A code is reported as it grows, but not while the keypad is locked.
U2_on_keypad_digit(s, d, k) ==
  LET code == Append(s.u2.keypads[d].code, k)
      t == [s EXCEPT !.u2.keypads[d].code = code]
  IN  IF Len(code) >= PINSIZE THEN EndCode(t, d, Append(SubSeq(code, 1, PINSIZE), HASH))
      ELSE IF k \in {STAR, HASH} THEN EndCode(t, d, code)
      ELSE IF s.u2.keypads[d].locked = 0 THEN [U2_on_keycode(t, d, code) EXCEPT !.u2.keypads[d].timer = 0]
      ELSE t
-----------------------------------------------------------------------------
(***************************************************************************)
(* The timer interrupt.                                                    *)
(***************************************************************************)
\* The end of a lock clears the reader, or the keypad.
Unlock(r, idle) == IF r.locked = 1 THEN idle ELSE [r EXCEPT !.locked = IF @ > 0 THEN @ - 1 ELSE 0]
Advance(r, active) == IF active THEN [r EXCEPT !.timer = @ + 1] ELSE r

Ticked(r) == LET t == Unlock(r, Reader) IN Advance(t, t.bits # <<>>)
\* Mutant: what is neither a card nor a key stays.
OnlyTaken(s, d) ==
  IF Len(s.u2.readers[d].bits) \in KeyBits \cup {CardBits}
  THEN [s EXCEPT !.u2.readers[d] = [@ EXCEPT !.bits = <<>>, !.timer = 0]]
  ELSE [s EXCEPT !.u2.readers[d].timer = 0]
Clear(s, d) == [s EXCEPT !.u2.readers[d] = [@ EXCEPT !.bits = <<>>, !.timer = 0]]
\* Mutant: a tick too early.
Early(r) == r.timer >= READ_TIMEOUT
Expired(r) == r.timer > READ_TIMEOUT
U2_tick_reader(s, d) ==
  LET r == Ticked(s.u2.readers[d])
      t == [s EXCEPT !.u2.readers[d] = r]
      keys == KEYCODES(Value(r.bits))
  IN  IF ~Expired(r) THEN t
      ELSE Clear(IF Len(r.bits) = CardBits THEN U2_on_card_read(t, d)
                 ELSE IF Len(r.bits) \in KeyBits /\ keys # {} THEN U2_on_keypad_digit(t, d, CHOOSE k \in keys : TRUE)
                 ELSE t, d)

U2_tick_keypad(s, d) ==
  LET unlocked == Unlock(s.u2.keypads[d], Keypad)
      k == Advance(unlocked, unlocked.code # <<>>)
      t == [s EXCEPT !.u2.keypads[d] = k]
  IN  IF k.code # <<>> /\ k.timer >= CODE_TIMEOUT THEN EndCode(t, d, Append(k.code, HASH)) ELSE t

\* Door after door: a set of one state.
Ticks ==
  LET f[d \in 0 .. N] ==
        IF d = 0 THEN {[u2 |-> u2, io |-> io]}
        ELSE {U2_tick_keypad(s, d) : s \in {U2_tick_reader(r, d) : r \in f[d - 1]}}
  IN  f[N]

\* The bits of a door on their way: in the lines, then in the queue.
Latched(d) == {l \in lines : l[1] = d}
Waiting(d) == {i \in DOMAIN io.queue : io.queue[i].m = "wio" /\ \E l \in io.queue[i].lines : l[1] = d}
UnderWay(d) == out[d] # <<>> \/ Latched(d) # {} \/ Waiting(d) # {}

\* The door whose bits a tick takes before all have come: the lock ended, or the
\* loop or the reader has stalled, which is a fault.
Partial(d) == u2.readers[d].bits # <<>> /\ UnderWay(d)
CutShort(d) == Partial(d) /\ u2.readers[d].locked = 1
Stalled(d) == Partial(d) /\ ~CutShort(d) /\ Ticked(u2.readers[d]).timer > READ_TIMEOUT
Disturb(doors) == disturbed' = [d \in Doors |-> disturbed[d] \/ d \in doors]

\* It finds the guard free: else nothing happens.
U2_tick ==
  /\ Running
  /\ IF \E d \in Doors : Stalled(d) THEN MayFail ELSE UNCHANGED faults
  /\ Disturb({d \in Doors : Stalled(d) \/ CutShort(d)})
  /\ \E s \in Ticks : u2' = s.u2 /\ io' = s.io
  /\ UNCHANGED <<environment, lines, hand, stuck>>
-----------------------------------------------------------------------------
(***************************************************************************)
(* The interrupt of the PCAL6408A.                                         *)
(***************************************************************************)
\* I2C1_run waits for the guard of the bus, which a scan of the loop holds.
\* What cannot be read stays latched, and the interrupt comes again.
U2_on_interrupt ==
  /\ Running /\ lines # {}
  /\ IF hand = Scanning THEN stuck' = TRUE /\ UNCHANGED <<lines, io, disturbed, faults>>
     ELSE \E read \in SUBSET lines :
            \* The ISR register was not read: it stands for any lines.
            /\ IF read = lines THEN UNCHANGED faults ELSE MayFail
            /\ lines' = {} /\ io' = Put(io, [m |-> "wio", lines |-> read])
            /\ Disturb({l[1] : l \in IF HasRoom(io) THEN lines \ read ELSE lines})
            /\ UNCHANGED stuck
  /\ UNCHANGED <<environment, u2, hand>>
-----------------------------------------------------------------------------
(***************************************************************************)
(* The main loop.                                                          *)
(***************************************************************************)
Last(bits) == IF Len(bits) > MaxBits THEN SubSeq(bits, Len(bits) - MaxBits + 1, Len(bits)) ELSE bits
Of(d, ls) == (IF <<d, 0>> \in ls THEN <<0>> ELSE <<>>) \o (IF <<d, 1>> \in ls THEN <<1>> ELSE <<>>)
\* Mutant: the readers after one with a bit are passed over.
FirstOnly(ls) == [d \in Doors |-> IF \E l \in ls : l[1] < d THEN <<>> ELSE Of(d, ls)]
Bits(ls) == [d \in Doors |-> Of(d, ls)]
\* Every reader starts to wait anew.
U2_wio(ls) ==
  u2' = [u2 EXCEPT !.readers = [d \in Doors |-> [u2.readers[d] EXCEPT !.bits = Last(@ \o Bits(ls)[d]), !.timer = 0]]]

MSG_WIO ==
  /\ Running /\ hand = Nothing /\ io.queue # <<>> /\ Head(io.queue).m = "wio"
  /\ U2_wio(Head(io.queue).lines) /\ io' = [io EXCEPT !.queue = Tail(@)]
  /\ UNCHANGED <<environment, disturbed, lines, hand, stuck, faults>>

MSG_SWIPE ==
  /\ Running /\ hand = Nothing /\ io.queue # <<>> /\ Head(io.queue).m \in {"swipe", "keycode"}
  /\ hand' = Head(io.queue) /\ io' = [io EXCEPT !.queue = Tail(@)]
  /\ UNCHANGED <<environment, disturbed, lines, u2, stuck, faults>>
\* SSMP_trap, and swipe_free.
Trap ==
  /\ Running /\ hand.m \in {"swipe", "keycode"}
  /\ hand' = Nothing /\ io' = [io EXCEPT !.pool[hand.chunk] = Empty]
  /\ UNCHANGED <<environment, disturbed, lines, u2, stuck, faults>>

\* The command of the CLI.
I2C1_scan ==
  /\ Running /\ hand = Nothing /\ MayFail /\ hand' = Scanning
  /\ UNCHANGED <<environment, disturbed, lines, u2, io, stuck>>
ScanEnds ==
  /\ Running /\ hand = Scanning /\ hand' = Nothing
  /\ UNCHANGED <<environment, disturbed, lines, u2, io, stuck, faults>>

\* The watchdog, or a power cut.
Restart ==
  /\ IF Running THEN MayFail ELSE UNCHANGED faults
  /\ u2' = IdleU2 /\ io' = IdleIO /\ hand' = Nothing /\ stuck' = FALSE /\ lines' = {}
  /\ disturbed' = [d \in Doors |-> out[d] # <<>>] /\ UNCHANGED environment
-----------------------------------------------------------------------------
(***************************************************************************)
(* The readers.                                                            *)
(***************************************************************************)
\* A transmission begins when the one before it has been taken: else the two may
\* be taken together.
Present ==
  \E d \in Doors, bits \in {t[2] : t \in Transmissions} :
    /\ <<d, bits>> \in Transmissions /\ out[d] = <<>> /\ sent.n < MaxSent
    /\ out' = [out EXCEPT ![d] = bits] /\ sent' = [sent EXCEPT !.n = @ + 1, !.bits[d] = bits]
    /\ LET early == UnderWay(d) \/ u2.readers[d].bits # <<>> IN
         /\ disturbed' = [disturbed EXCEPT ![d] = early]
         /\ IF early THEN MayFail ELSE UNCHANGED faults
    /\ UNCHANGED <<lines, u2, io, hand, stuck>>

\* A pulse before the one before it has been read makes two bits one, or swaps them.
Pulse ==
  \E d \in Doors :
    /\ out[d] # <<>> /\ out' = [out EXCEPT ![d] = Tail(@)]
    /\ lines' = lines \cup {<<d, Head(out[d])>>}
    /\ IF Latched(d) = {} THEN UNCHANGED <<disturbed, faults>> ELSE MayFail /\ Disturb({d})
    /\ UNCHANGED <<sent, u2, io, hand, stuck>>
-----------------------------------------------------------------------------
Loop == MSG_WIO \/ MSG_SWIPE \/ Trap \/ ScanEnds
Next == U2_tick \/ U2_on_interrupt \/ Loop \/ I2C1_scan \/ Restart \/ Present \/ Pulse

\* The timers and the loop run, a pulse is noticed, a reader sends what it has
\* begun, and the watchdog restarts what stands still.
Fairness ==
  /\ WF_vars(U2_tick) /\ WF_vars(U2_on_interrupt) /\ WF_vars(Loop) /\ WF_vars(Pulse)
  /\ WF_vars(~Running /\ Restart)
Spec == Init /\ [][Next]_vars /\ Fairness
-----------------------------------------------------------------------------
(***************************************************************************)
(* Properties.                                                             *)
(***************************************************************************)
\* Each swipe in use is in one message, queued or in hand: none is lost when the
\* queue refuses it, and none is reported twice or after it is freed.
Swipes == {i \in DOMAIN io.queue : io.queue[i].m # "wio"}
InUse == {c \in Chunks : io.pool[c] # Empty}
Owned ==
  /\ InUse = {io.queue[i].chunk : i \in Swipes} \cup IF hand.m \in {"swipe", "keycode"} THEN {hand.chunk} ELSE {}
  /\ \A i, j \in Swipes : io.queue[i].chunk = io.queue[j].chunk => i = j
  /\ \A i \in Swipes : hand.m \in {"swipe", "keycode"} => io.queue[i].chunk # hand.chunk

\* While a transmission has not been disturbed its bits are where they should be:
\* those collected, those queued, the one latched and those to come are the
\* transmission, whatever came before it and whatever the other readers send.
Carried(msg, d) == IF msg.m = "wio" THEN Of(d, msg.lines) ELSE <<>>
Queued(q, d) ==
  LET f[i \in 0 .. Len(q)] == IF i = 0 THEN <<>> ELSE f[i - 1] \o Carried(q[i], d)
  IN  f[Len(q)]
Whole(d) == u2.readers[d].bits \o Queued(io.queue, d) \o Of(d, lines) \o out[d]
Assembled == \A d \in Doors : disturbed[d] \/ Whole(d) \in {<<>>, sent.bits[d]}

\* So what is reported for a door is what its reader sent last: the card, or the
\* key that ends the code, or a code ended by its timeout.
New(c) == io.pool[c] = Empty /\ io'.pool[c] # Empty
Right(x, bits) ==
  IF "card" \in DOMAIN x THEN Len(bits) = CardBits /\ Parity(bits) /\ x.card = Card(bits)
  ELSE \/ u2'.keypads[x.door].locked > 0 /\ x.code[Len(x.code)] = HASH
       \/ Len(bits) \in KeyBits /\ x.code[Len(x.code)] \in KEYCODES(Value(bits))
Genuine == [][\A c \in Chunks : New(c) => LET x == io'.pool[c] IN
                disturbed'[x.door] \/ Right(x, sent.bits[x.door])]_vars

\* All that has been sent is done with: no bit, code, lock or swipe stays for ever,
\* and nothing waits for ever for a guard.
Quiesces == <>[](u2 = IdleU2 /\ io = IdleIO /\ hand = Nothing /\ ~stuck /\ lines = {})
=============================================================================
