--------------------------------- MODULE Access ---------------------------------
(***************************************************************************)
(* The decision about a card swipe (ut0311/UT0311/swipe.go): permissions,  *)
(* interlock over cached door states, anti-passback over the recorded      *)
(* swipes, and the PIN that some cards need.                               *)
(*                                                                         *)
(* Every trap of the board has a goroutine of its own (ut0311/rpcd/rpcd.go *)
(* Trap), so handlers of swipes and of key codes overlap and overtake each *)
(* other wherever they call another process, as do the PIN timers and the  *)
(* goroutines that record granted swipes.  A swipe is named by the number  *)
(* of its handler.                                                         *)
(***************************************************************************)
EXTENDS Integers, Sequences

CONSTANTS
  Doors,            \* a subset of 1 .. 4
  Cards,
  Permitted,        \* pairs of a card and a door that it may use: the record is
                    \* valid today and the door is not normally closed
  WithPIN,          \* the cards that need a PIN
  AntiPassbacks, Interlocks,   \* the settings to consider
  MaxTraps,         \* bound: swipes and key codes
  MaxFaults         \* bound: calls of other processes that fail

ASSUME DoorsAssumption == Doors \subseteq 1 .. 4
ASSUME CardsAssumption == Permitted \subseteq Cards \X Doors /\ WithPIN \subseteq Cards
ASSUME SettingsAssumption ==
  AntiPassbacks \subseteq {"none", "12_34", "13_24", "1_23", "1_234"} /\ Interlocks \subseteq 0 .. 8
ASSUME BoundsAssumption == MaxTraps \in Nat /\ MaxFaults \in Nat

Handlers == 1 .. MaxTraps
None == 0

\* A key code names the card whose PIN it is, if any; the code of a digit that
\* is not the last one is no PIN at all.
Partial == "partial"
Wrong == "wrong"
Codes == WithPIN \cup {Partial, Wrong}

VARIABLES
  antipassback, interlock,
  traps,            \* the traps so far: [kind, door, what]
  at, swipe,        \* where each handler is; the swipe that it decides about
  unread,           \* the door states that it is still to read for the interlock
  pending,          \* swipes.pending: the swipe that waits for its PIN, by door
  timers,           \* the swipes whose PIN timer runs
  cached,           \* the door states of state.go that are TRUE: <<door, "open" or "unlocked">>
  last,             \* Swipes of dbd: the door of a card's last recorded swipe
  recording,        \* the swipes that PutSwipe is still to record
  outcome,          \* what became of each swipe
  passed,           \* the swipes that unlocked their door, in order
  orderly,          \* no swipe began while another was being dealt with
  faults

settings == <<antipassback, interlock>>
threads == <<traps, at, swipe, unread>>
pins == <<pending, timers>>
history == <<outcome, passed, orderly>>
vars == <<settings, threads, pins, cached, last, recording, history, faults>>

-----------------------------------------------------------------------------
Init ==
  /\ antipassback \in AntiPassbacks /\ interlock \in Interlocks
  /\ traps = <<>>
  /\ at = [h \in Handlers |-> "none"] /\ swipe = [h \in Handlers |-> None]
  /\ unread = [h \in Handlers |-> {}]
  /\ pending = [d \in Doors |-> None] /\ timers = {}
  /\ cached = {} /\ last = [c \in Cards |-> None] /\ recording = {}
  /\ outcome = [h \in Handlers |-> {}] /\ passed = <<>> /\ orderly = TRUE
  /\ faults = 0

Started == 1 .. Len(traps)
Door(s) == traps[s].door
Card(s) == traps[s].what
IsSwipe(s) == s \in Started /\ traps[s].kind = "swipe"

Goto(h, step) == at' = [at EXCEPT ![h] = step]
Decided(s, o) == outcome' = [outcome EXCEPT ![s] = @ \cup {o}]
denied(h, s) == Goto(h, "done") /\ Decided(s, "denied")

\* A call of dbd or rpcd that fails.
Fault == faults < MaxFaults /\ faults' = faults + 1

-----------------------------------------------------------------------------
\* What a trap is about, by its kind: a card, a code or a new state of the door.
About == [swipe |-> Cards, keycode |-> Codes, state |-> {"open", "closed", "unlocked", "locked"}]

\* Trap: a goroutine for each.
Trap(kind, d, what) ==
  /\ Len(traps) < MaxTraps
  /\ LET h == Len(traps) + 1 IN
       /\ traps' = Append(traps, [kind |-> kind, door |-> d, what |-> what])
       /\ Goto(h, kind)
       /\ swipe' = [swipe EXCEPT ![h] = IF kind = "swipe" THEN h ELSE None]
  /\ UNCHANGED <<settings, unread, pins, cached, last, recording, history, faults>>

\* state.Update
Update(h) ==
  /\ at[h] = "state" /\ Goto(h, "done")
  /\ cached' = LET d == Door(h) IN
       CASE traps[h].what \in {"open", "unlocked"} -> cached \cup {<<d, traps[h].what>>}
         [] traps[h].what = "closed" -> cached \ {<<d, "open">>}
         [] traps[h].what = "locked" -> cached \ {<<d, "unlocked">>}
  /\ UNCHANGED <<settings, traps, swipe, unread, pins, last, recording, history, faults>>

-----------------------------------------------------------------------------
(* swipe() *)

\* The swipe takes the place of one that still waits for a PIN, whose timer stops.
Supersede(d) ==
  /\ pending' = [pending EXCEPT ![d] = None]
  /\ timers' = timers \ {pending[d]}

Superseded(d) ==
  [s \in Handlers |-> IF s = pending[d] THEN outcome[s] \cup {"superseded"} ELSE outcome[s]]

\* The doors that are interlocked with door d.
Interlocked(d) ==
  (CASE interlock \in {1, 3} /\ d \in {1, 2} -> {1, 2}
     [] interlock \in {2, 3} /\ d \in {3, 4} -> {3, 4}
     [] interlock = 4 /\ d \in {1, 2, 3} -> {1, 2, 3}
     [] interlock = 8 -> 1 .. 4
     [] OTHER -> {}) \ {d}

\* GetCard, validate, GetDoor and GetInterlock
swiped(h) ==
  LET d == Door(h) IN
  /\ at[h] = "swipe" /\ Supersede(d)
  /\ \/ /\ <<Card(h), d>> \in Permitted /\ UNCHANGED faults
        /\ Goto(h, "interlock") /\ outcome' = Superseded(d)
        /\ unread' = [unread EXCEPT ![h] = (Interlocked(d) \cap Doors) \X {"open", "unlocked"}]
     \/ /\ \/ <<Card(h), d>> \notin Permitted /\ UNCHANGED faults
           \/ Fault
        /\ Goto(h, "done") /\ outcome' = [Superseded(d) EXCEPT ![h] = {"denied"}]
        /\ UNCHANGED unread
  /\ orderly' = (/\ orderly /\ recording = {} /\ \A e \in Doors : pending[e] = None
                 /\ \A g \in Started \ {h} : at[g] = "done")
  /\ UNCHANGED <<settings, traps, swipe, cached, last, recording, passed>>

\* get(): one state after the other, by door, and a door's "open" before "unlocked".
Following(reads) == CHOOSE r \in reads : \A q \in reads :
  r[1] < q[1] \/ (r[1] = q[1] /\ (r[2] = "open" \/ q = r))

interlocked(h) ==
  /\ at[h] = "interlock"
  /\ \/ /\ unread[h] = {} /\ Goto(h, "passback") /\ UNCHANGED <<unread, outcome>>
     \/ /\ unread[h] # {} /\ Following(unread[h]) \notin cached
        /\ unread' = [unread EXCEPT ![h] = @ \ {Following(@)}] /\ UNCHANGED <<at, outcome>>
     \/ /\ unread[h] # {} /\ Following(unread[h]) \in cached
        /\ denied(h, h) /\ unread' = [unread EXCEPT ![h] = {}]
  /\ UNCHANGED <<settings, traps, swipe, pins, cached, last, recording, passed, orderly, faults>>

\* Mutant: the reader itself instead of its counterparts.
SameReader(d) == {0, d}
\* The doors that a card may have been used at last, to be used at door d.
Before(d) ==
  CASE antipassback = "none" -> 0 .. 4
    [] antipassback = "12_34" ->
         {0} \cup (CASE d = 1 -> {2} [] d = 2 -> {1} [] d = 3 -> {4} [] d = 4 -> {3})
    [] antipassback = "13_24" -> {0} \cup (IF d \in {1, 3} THEN {2, 4} ELSE {1, 3})
    [] antipassback = "1_23" -> (CASE d = 1 -> {0, 2, 3} [] d \in {2, 3} -> {0, 1} [] d = 4 -> {})
    [] antipassback = "1_234" -> {0} \cup (IF d = 1 THEN {2, 3, 4} ELSE {1})

\* Mutant: no timer for the PIN.
Untimed(h) == /\ pending' = [pending EXCEPT ![Door(h)] = h]
              /\ UNCHANGED timers
AwaitPIN(h) == /\ pending' = [pending EXCEPT ![Door(h)] = h]
               /\ timers' = timers \cup {h}

\* GetAntiPassback and GetSwipe; a GetSwipe that fails lets the card pass.
antipassbacked(h) ==
  /\ at[h] = "passback"
  /\ \/ /\ \/ last[Card(h)] \in Before(Door(h)) /\ UNCHANGED faults
           \/ Fault
        /\ IF Card(h) \in WithPIN
           THEN AwaitPIN(h) /\ Goto(h, "done")
           ELSE UNCHANGED pins /\ Goto(h, "unlock")
        /\ UNCHANGED outcome
     \/ /\ last[Card(h)] \notin Before(Door(h)) /\ UNCHANGED faults
        /\ denied(h, h) /\ UNCHANGED pins
     \/ /\ Fault /\ denied(h, h) /\ UNCHANGED pins
  /\ UNCHANGED <<settings, traps, swipe, unread, cached, last, recording, passed, orderly>>

-----------------------------------------------------------------------------
(* keyCode() *)

\* pending.Load
keyed(h) ==
  /\ at[h] = "keycode"
  /\ swipe' = [swipe EXCEPT ![h] = pending[Door(h)]]
  /\ Goto(h, IF pending[Door(h)] = None THEN "done" ELSE "code")
  /\ UNCHANGED <<settings, traps, unread, pins, cached, last, recording, history, faults>>

\* Mutant: a digit stops the timer without starting it again.
Halted(h) == timers' = timers \ {swipe[h]}
\* A digit starts the timer again.
Reset(h) == timers' = timers \cup {swipe[h]}

digit(h) ==
  /\ at[h] = "code" /\ traps[h].what = Partial
  /\ Reset(h) /\ Goto(h, "done")
  /\ UNCHANGED <<settings, traps, swipe, unread, pending, cached, last, recording, history, faults>>

\* Mutant: a complete code is taken for the PIN.
Complete(h) == traps[h].what # Partial
Correct(h) == traps[h].what = Card(swipe[h])

\* A complete code: Stop and Delete, then the comparison.
code(h) ==
  /\ at[h] = "code" /\ traps[h].what # Partial
  /\ timers' = timers \ {swipe[h]}
  /\ pending' = [pending EXCEPT ![Door(h)] = None]
  /\ IF Correct(h) THEN Goto(h, "unlock") /\ UNCHANGED outcome ELSE denied(h, swipe[h])
  /\ UNCHANGED <<settings, traps, swipe, unread, cached, last, recording, passed, orderly, faults>>

\* time.AfterFunc: the swipe stays pending.
timeout(s) ==
  /\ s \in timers /\ timers' = timers \ {s}
  /\ Decided(s, "denied")
  /\ UNCHANGED <<settings, threads, pending, cached, last, recording, passed, orderly, faults>>

-----------------------------------------------------------------------------
\* unlock() with UnlockDoor: the board unlocks the door or refuses, or it unlocks
\* the door and its answer is lost.
unlock(h) ==
  LET s == swipe[h] IN
  /\ at[h] = "unlock"
  /\ \/ Goto(h, "granted") /\ passed' = Append(passed, s) /\ UNCHANGED outcome
        /\ UNCHANGED faults
     \/ denied(h, s) /\ UNCHANGED <<passed, faults>>
     \/ Fault /\ passed' = Append(passed, s) /\ denied(h, s)
  /\ UNCHANGED <<settings, traps, swipe, unread, pins, cached, last, recording, orderly>>

\* granted(): the swipe is recorded by a goroutine, the state cached at once.
granted(h) ==
  LET s == swipe[h] IN
  /\ at[h] = "granted" /\ Goto(h, "done") /\ Decided(s, "granted")
  /\ recording' = recording \cup {s}
  /\ cached' = cached \cup {<<Door(s), "unlocked">>}
  /\ UNCHANGED <<settings, traps, swipe, unread, pins, last, passed, orderly, faults>>

\* The goroutine of granted(): PutSwipe
PutSwipe(s) ==
  /\ s \in recording /\ recording' = recording \ {s}
  /\ \/ last' = [last EXCEPT ![Card(s)] = Door(s)] /\ UNCHANGED faults
     \/ Fault /\ UNCHANGED last
  /\ UNCHANGED <<settings, threads, pins, cached, history>>

-----------------------------------------------------------------------------
\* The daemon ends and is started again (state.go: a map that goroutines write
\* without a lock ends the process).  Only dbd and the door are as they were.
Restart ==
  /\ Fault
  /\ at' = [h \in Handlers |-> IF at[h] = "none" THEN "none" ELSE "done"]
  /\ outcome' = [h \in Handlers |->
       IF IsSwipe(h) /\ outcome[h] = {} THEN {"lost"} ELSE outcome[h]]
  /\ pending' = [d \in Doors |-> None] /\ timers' = {} /\ recording' = {} /\ cached' = {}
  /\ unread' = [h \in Handlers |-> {}]
  /\ UNCHANGED <<settings, traps, swipe, last, passed, orderly>>

Handler(h) == \/ Update(h) \/ swiped(h) \/ interlocked(h) \/ antipassbacked(h)
              \/ keyed(h) \/ digit(h) \/ code(h) \/ unlock(h) \/ granted(h)

Next ==
  \/ \E kind \in DOMAIN About, d \in Doors : \E what \in About[kind] : Trap(kind, d, what)
  \/ \E h \in Handlers : Handler(h) \/ timeout(h) \/ PutSwipe(h)
  \/ Restart

Spec == Init /\ [][Next]_vars

\* Goroutines run and timers fire.
FairSpec == Spec /\ \A h \in Handlers : WF_vars(Handler(h)) /\ WF_vars(timeout(h))

-----------------------------------------------------------------------------
SettingsOK == antipassback \in AntiPassbacks /\ interlock \in Interlocks
TrapsOK ==
  /\ traps \in Seq([kind : DOMAIN About, door : Doors, what : UNION {About[k] : k \in DOMAIN About}])
  /\ Len(traps) <= MaxTraps /\ \A h \in Started : traps[h].what \in About[traps[h].kind]
Places == {"none", "state", "swipe", "interlock", "passback", "keycode", "code", "unlock",
           "granted", "done"}
HandlersOK ==
  /\ at \in [Handlers -> Places] /\ swipe \in [Handlers -> Handlers \cup {None}]
  /\ unread \in [Handlers -> SUBSET (Doors \X {"open", "unlocked"})]
  /\ \A h \in Handlers : swipe[h] # None => IsSwipe(swipe[h])
PinsOK ==
  /\ pending \in [Doors -> Handlers \cup {None}] /\ timers \subseteq Started
  /\ \A d \in Doors : pending[d] # None => IsSwipe(pending[d]) /\ Door(pending[d]) = d
RecordsOK ==
  /\ cached \subseteq Doors \X {"open", "unlocked"}
  /\ recording \subseteq {h \in Started : IsSwipe(h)} /\ last \in [Cards -> Doors \cup {None}]
  /\ outcome \in [Handlers -> SUBSET {"granted", "denied", "superseded", "lost"}]
  /\ passed \in Seq(Handlers) /\ orderly \in BOOLEAN /\ faults \in 0 .. MaxFaults

\* Every variable has its type; what is pending at a door is a swipe at that door.
TypeOK == SettingsOK /\ TrapsOK /\ HandlersOK /\ PinsOK /\ RecordsOK

\* A door is only unlocked for a card that may use it and, if the card needs a
\* PIN, for a complete and correct one that was keyed in at that door, however
\* swipes and codes overlap.
Earned ==
  \A i \in 1 .. Len(passed) : LET s == passed[i] IN
    /\ <<Card(s), Door(s)>> \in Permitted
    /\ Card(s) \in WithPIN => \E h \in Started :
         traps[h].kind = "keycode" /\ Door(h) = Door(s) /\ traps[h].what = Card(s)

\* The two sides of the readers (ut0311/system/constants.go).
Sides ==
  CASE antipassback = "none" -> {}
    [] antipassback = "12_34" -> {{1}, {2}, {3}, {4}}
    [] antipassback = "13_24" -> {{1, 3}, {2, 4}}
    [] antipassback = "1_23" -> {{1}, {2, 3}}
    [] antipassback = "1_234" -> {{1}, {2, 3, 4}}

\* The i-th and the j-th passage are two swipes of a card with none between them.
Successive(i, j) ==
  /\ i < j /\ passed[i] # passed[j] /\ Card(passed[i]) = Card(passed[j])
  /\ \A k \in i + 1 .. j - 1 : Card(passed[k]) # Card(passed[i])

\* As long as each swipe is dealt with and recorded before the next one begins
\* and all calls are answered, no card passes the same side twice in a row, however late a
\* PIN is keyed in.
Alternates ==
  orderly /\ faults = 0 => \A i, j \in 1 .. Len(passed) :
    Successive(i, j) => \A side \in Sides : ~({Door(passed[i]), Door(passed[j])} \subseteq side)

\* Every swipe is granted, denied or followed by another one at its door, unless
\* the daemon ends: no one waits at a reader for ever, whatever happens to the PIN,
\* its timer and the calls of other processes.
Answered == \A s \in Handlers :
  IsSwipe(s) ~> outcome[s] # {}

\* system/constants.go, "readers 1:2; 3:4 (independently)": with one pair of
\* readers used last, a card is not denied at the other pair.
Independent ==
  antipassback = "12_34" => \A h \in Handlers :
    at[h] = "passback" /\ {last[Card(h)], Door(h)} \in {{1, 3}, {1, 4}, {2, 3}, {2, 4}}
      => last[Card(h)] \in Before(Door(h))
================================================================================
