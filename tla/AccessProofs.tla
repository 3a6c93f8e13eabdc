------------------------------ MODULE AccessProofs ------------------------------
(***************************************************************************)
(* Proofs about Access: its types, that every unlocked door was earned, and *)
(* that a card alternates between the sides of its readers.                 *)
(* Stage ties each place in the code to the checks that come before it,     *)
(* and Waits says that a swipe that waits for its PIN has passed them: this *)
(* is what makes Passed, of which Earned is a part, inductive; AInv, below, *)
(* adds what makes Alternates inductive.                                    *)
(***************************************************************************)
EXTENDS Access, TLAPS

Allowed(s) ==
  /\ IsSwipe(s) /\ <<Card(s), Door(s)>> \in Permitted
  /\ Card(s) \in WithPIN => \E h \in Started :
       traps[h].kind = "keycode" /\ Door(h) = Door(s) /\ traps[h].what = Card(s)

Deciding(h) ==
  /\ at[h] = "state" => h \in Started /\ traps[h].kind = "state"
  /\ at[h] \in {"swipe", "interlock", "passback"} => IsSwipe(h) /\ swipe[h] = h
  /\ at[h] \in {"interlock", "passback"} => <<Card(h), Door(h)>> \in Permitted

Keying(h) ==
  /\ at[h] \in {"keycode", "code"} => h \in Started /\ traps[h].kind = "keycode"
  /\ at[h] = "code" => LET s == swipe[h] IN
       s # None /\ Door(s) = Door(h) /\ <<Card(s), Door(s)>> \in Permitted

Unlocking(h) == at[h] \in {"unlock", "granted"} => Allowed(swipe[h])

Stage(h) == Deciding(h) /\ Keying(h) /\ Unlocking(h)
Waits == \A d \in Doors : pending[d] # None => <<Card(pending[d]), d>> \in Permitted
Passed == \A i \in 1 .. Len(passed) : Allowed(passed[i])

IInv == TypeOK /\ (\A h \in Handlers : Stage(h)) /\ Waits /\ Passed

-----------------------------------------------------------------------------
(* Traps *)

LEMMA AppendFacts ==
  ASSUME NEW S, NEW q \in Seq(S), NEW e \in S
  PROVE  /\ Append(q, e) \in Seq(S) /\ Len(Append(q, e)) = Len(q) + 1
         /\ \A i \in 1 .. Len(q) : Append(q, e)[i] = q[i]
         /\ Append(q, e)[Len(q) + 1] = e
OBVIOUS

LEMMA AboutFacts ==
  /\ DOMAIN About = {"swipe", "keycode", "state"}
  /\ About["swipe"] = Cards /\ About["keycode"] = Codes
  /\ About["state"] = {"open", "closed", "unlocked", "locked"}
BY DEF About

LEMMA TrapFacts ==
  ASSUME TrapsOK, NEW h \in Started
  PROVE  /\ h \in Handlers /\ h # None /\ Door(h) \in Doors
         /\ traps[h].what \in About[traps[h].kind]
<1> DEFINE T == [kind : DOMAIN About, door : Doors, what : UNION {About[k] : k \in DOMAIN About}]
<1>1. traps \in Seq(T) /\ Len(traps) <= MaxTraps  BY DEF TrapsOK
<1>2. traps[h] \in T /\ h \in Handlers /\ h # None
  <2> HIDE DEF T
  <2> QED  BY <1>1, BoundsAssumption DEF Started, Handlers, None
<1> QED  BY <1>2 DEF Door, TrapsOK

LEMMA SwipeFacts ==
  ASSUME TrapsOK, NEW s, IsSwipe(s)
  PROVE  s \in Started /\ s \in Handlers /\ s # None /\ Door(s) \in Doors /\ Card(s) \in Cards
BY TrapFacts, AboutFacts DEF IsSwipe, Card

\* Without a new trap, what is true of the traps stays true.
LEMMA TrapsKept ==
  ASSUME traps' = traps
  PROVE  /\ Started' = Started
         /\ \A s : IsSwipe(s)' <=> IsSwipe(s)
         /\ \A s : Card(s)' = Card(s) /\ Door(s)' = Door(s)
         /\ \A s : Allowed(s)' <=> Allowed(s)
BY DEF Started, IsSwipe, Card, Door, Allowed

LEMMA TrapAdded ==
  ASSUME TrapsOK, NEW kind \in DOMAIN About, NEW d \in Doors, NEW what \in About[kind],
         Trap(kind, d, what)
  PROVE  /\ TrapsOK' /\ Started' = Started \cup {Len(traps) + 1}
         /\ Len(traps) + 1 \in Handlers
         /\ \A s \in Started : traps'[s] = traps[s]
         /\ traps'[Len(traps) + 1] = [kind |-> kind, door |-> d, what |-> what]
<1> DEFINE T == [kind : DOMAIN About, door : Doors, what : UNION {About[k] : k \in DOMAIN About}]
           e == [kind |-> kind, door |-> d, what |-> what]
<1>1. e \in T  OBVIOUS
<1>2. traps \in Seq(T) /\ Len(traps) \in Nat  BY DEF TrapsOK
<1>3. traps' = Append(traps, e) /\ Len(traps) < MaxTraps  BY DEF Trap
<1>4. /\ traps' \in Seq(T) /\ Len(traps') = Len(traps) + 1
      /\ \A i \in 1 .. Len(traps) : traps'[i] = traps[i]
      /\ traps'[Len(traps) + 1] = e
  <2> HIDE DEF T, e
  <2> QED  BY <1>1, <1>2, <1>3, AppendFacts
<1>5. Started' = Started \cup {Len(traps) + 1} /\ Len(traps) + 1 \in Handlers
  BY <1>2, <1>3, <1>4, BoundsAssumption DEF Started, Handlers
<1>6. \A s \in Started : traps'[s] = traps[s]  BY <1>4 DEF Started
<1>7. TrapsOK'
  <2>1. \A h \in Started' : traps'[h].what \in About[traps'[h].kind]
    BY <1>4, <1>5, <1>6 DEF TrapsOK
  <2>2. Len(traps') <= MaxTraps  BY <1>2, <1>3, <1>4, BoundsAssumption
  <2> QED  BY <1>4, <2>1, <2>2 DEF TrapsOK, About
<1> QED  BY <1>4, <1>5, <1>6, <1>7

\* With one more trap, what was true of the earlier ones stays true.
LEMMA GrowthKeeps ==
  ASSUME NEW n, Started' = Started \cup {n}, \A s \in Started : traps'[s] = traps[s]
  PROVE  /\ \A s : IsSwipe(s) => IsSwipe(s)'
         /\ \A s \in Started : Card(s)' = Card(s) /\ Door(s)' = Door(s)
         /\ \A s : Allowed(s) => Allowed(s)'
<1>1. \A s \in Started : Card(s)' = Card(s) /\ Door(s)' = Door(s)  BY DEF Card, Door
<1>2. \A s : IsSwipe(s) => IsSwipe(s)'  BY DEF IsSwipe
<1>3. ASSUME NEW s, Allowed(s) PROVE Allowed(s)'
  <2>1. IsSwipe(s)' /\ s \in Started  BY <1>2, <1>3 DEF Allowed, IsSwipe
  <2>2. (<<Card(s), Door(s)>> \in Permitted)'  BY <1>1, <1>3, <2>1 DEF Allowed
  <2>3. ASSUME (Card(s) \in WithPIN)'
        PROVE  (\E h \in Started : traps[h].kind = "keycode" /\ Door(h) = Door(s)
                                     /\ traps[h].what = Card(s))'
    <3>1. PICK h \in Started : traps[h].kind = "keycode" /\ Door(h) = Door(s)
                                 /\ traps[h].what = Card(s)
      BY <1>1, <1>3, <2>1, <2>3 DEF Allowed
    <3> QED  BY <3>1, <1>1, <2>1
  <2> QED  BY <2>1, <2>2, <2>3 DEF Allowed
<1> QED  BY <1>1, <1>2, <1>3

-----------------------------------------------------------------------------
(* What an action leaves alone *)

LEMMA KeptPins ==
  ASSUME PinsOK, Waits, traps' = traps, pending' = pending, timers' \subseteq Started
  PROVE  PinsOK' /\ Waits'
BY TrapsKept DEF PinsOK, Waits

LEMMA KeptPassed ==
  ASSUME Passed, traps' = traps, passed' = passed
  PROVE  Passed'
BY TrapsKept DEF Passed

LEMMA KeptTraps ==
  ASSUME SettingsOK, TrapsOK, traps' = traps, UNCHANGED settings
  PROVE  SettingsOK' /\ TrapsOK'
BY DEF SettingsOK, TrapsOK, Started, settings

\* A handler goes on: only its own stage is to be shown.
LEMMA GoesOn ==
  ASSUME HandlersOK, \A g \in Handlers : Stage(g), traps' = traps,
         NEW h \in Handlers, NEW step \in Places, Goto(h, step),
         \A g \in Handlers \ {h} : swipe'[g] = swipe[g],
         at'[h] = step => Stage(h)'
  PROVE  at' \in [Handlers -> Places] /\ \A g \in Handlers : Stage(g)'
<1>1. at' \in [Handlers -> Places] /\ at'[h] = step /\ \A g \in Handlers \ {h} : at'[g] = at[g]
  BY DEF Goto, HandlersOK
<1>2. ASSUME NEW g \in Handlers \ {h} PROVE Stage(g)'
  BY <1>1, <1>2, TrapsKept DEF Stage, Deciding, Keying, Unlocking
<1> QED  BY <1>1, <1>2

LEMMA Ends ==
  ASSUME HandlersOK, \A g \in Handlers : Stage(g), traps' = traps, swipe' = swipe,
         NEW h \in Handlers, Goto(h, "done")
  PROVE  at' \in [Handlers -> Places] /\ \A g \in Handlers : Stage(g)'
<1>1. at'[h] = "done"  BY DEF Goto, HandlersOK
<1>2. Stage(h)'  BY <1>1 DEF Stage, Deciding, Keying, Unlocking
<1> QED  BY <1>2, GoesOn DEF Places

LEMMA KeptHandlers ==
  ASSUME HandlersOK, traps' = traps, swipe' = swipe, unread' = unread, at' \in [Handlers -> Places]
  PROVE  HandlersOK'
BY TrapsKept DEF HandlersOK

LEMMA CountedFault ==
  ASSUME faults \in 0 .. MaxFaults, Fault \/ UNCHANGED faults
  PROVE  faults' \in 0 .. MaxFaults
BY BoundsAssumption DEF Fault

-----------------------------------------------------------------------------
(* The actions *)

LEMMA StepTrap ==
  ASSUME IInv, NEW kind \in DOMAIN About, NEW d \in Doors, NEW what \in About[kind],
         Trap(kind, d, what)
  PROVE  IInv'
<1> USE DEF IInv, TypeOK
<1>0. PICK n : n = Len(traps) + 1  OBVIOUS
<1>1. /\ TrapsOK' /\ Started' = Started \cup {n} /\ n \in Handlers /\ n # None
      /\ \A s \in Started : traps'[s] = traps[s]
      /\ traps'[n] = [kind |-> kind, door |-> d, what |-> what]
  BY <1>0, TrapAdded DEF None, Handlers
<1>2. /\ \A s : IsSwipe(s) => IsSwipe(s)'
      /\ \A s \in Started : Card(s)' = Card(s) /\ Door(s)' = Door(s)
      /\ \A s : Allowed(s) => Allowed(s)'
  BY <1>1, GrowthKeeps
<1>3. kind \in {"swipe", "keycode", "state"}  BY AboutFacts
<1>4. /\ at'[n] = kind /\ swipe'[n] = (IF kind = "swipe" THEN n ELSE None)
      /\ \A h \in Handlers \ {n} : at'[h] = at[h] /\ swipe'[h] = swipe[h]
      /\ at' \in [Handlers -> Places] /\ swipe' \in [Handlers -> Handlers \cup {None}]
  BY <1>0, <1>1, <1>3 DEF Trap, Goto, HandlersOK, Places
<1>5. SettingsOK' /\ UNCHANGED <<unread, pins, cached, last, recording, history, faults>>
  BY DEF Trap, SettingsOK, settings
<1>6. HandlersOK'
  <2>1. (\A h \in Handlers : swipe[h] # None => IsSwipe(swipe[h]))'
    BY <1>1, <1>2, <1>4 DEF HandlersOK, IsSwipe
  <2> QED  BY <1>4, <1>5, <2>1 DEF HandlersOK
<1>7. PinsOK' /\ Waits'
  BY <1>1, <1>2, <1>5 DEF PinsOK, Waits, pins, IsSwipe
<1>8. RecordsOK'
  BY <1>1, <1>2, <1>5 DEF RecordsOK, history
<1>9. Stage(n)'
  <2>1. (n \in Started /\ traps[n].kind = kind /\ at[n] = kind)'  BY <1>1, <1>4
  <2>2. kind = "swipe" => (IsSwipe(n) /\ swipe[n] = n)'  BY <1>4, <2>1 DEF IsSwipe
  <2>3. Deciding(n)'  BY <1>3, <2>1, <2>2 DEF Deciding
  <2>4. Keying(n)'  BY <1>3, <2>1 DEF Keying
  <2>5. Unlocking(n)'  BY <1>3, <2>1 DEF Unlocking
  <2> QED  BY <2>3, <2>4, <2>5 DEF Stage
<1>10. ASSUME NEW h \in Handlers \ {n} PROVE Stage(h)'
  <2>1. Deciding(h)'
    BY <1>1, <1>2, <1>4, <1>10 DEF Stage, Deciding, IsSwipe
  <2>2. Keying(h)'
    <3>1. (at[h] = "code" => h \in Started /\ swipe[h] \in Started)
          /\ at'[h] = at[h] /\ swipe'[h] = swipe[h] /\ Keying(h)
      BY <1>4, <1>10 DEF Stage, Keying, HandlersOK, IsSwipe
    <3>2. ASSUME at[h] = "code"
          PROVE  (Door(swipe[h]) = Door(h) /\ <<Card(swipe[h]), Door(swipe[h])>> \in Permitted)'
      <4>1. PICK s : s = swipe[h] /\ s \in Started  BY <3>1, <3>2
      <4>2. Card(s)' = Card(s) /\ Door(s)' = Door(s) /\ Door(h)' = Door(h)  BY <1>2, <3>1, <3>2, <4>1
      <4> QED  BY <3>1, <3>2, <4>1, <4>2 DEF Keying
    <3>3. at[h] \in {"keycode", "code"} => (h \in Started /\ traps[h].kind = "keycode")'
      BY <1>1, <3>1 DEF Keying
    <3> QED  BY <3>1, <3>2, <3>3 DEF Keying
  <2>3. Unlocking(h)'
    BY <1>2, <1>4, <1>10 DEF Stage, Unlocking
  <2> QED  BY <2>1, <2>2, <2>3 DEF Stage
<1>11. Passed'
  BY <1>2, <1>5 DEF Passed, history
<1> QED  BY <1>1, <1>5, <1>6, <1>7, <1>8, <1>9, <1>10, <1>11

LEMMA StepUpdate ==
  ASSUME IInv, NEW h \in Handlers, Update(h)
  PROVE  IInv'
<1> USE DEF IInv, TypeOK
<1>1. /\ at[h] = "state" /\ Goto(h, "done") /\ traps' = traps
      /\ UNCHANGED <<settings, swipe, unread, pins, last, recording, history, faults>>
  BY DEF Update
<1>2. h \in Started /\ traps[h].kind = "state"  BY <1>1 DEF Stage, Deciding
<1>3. Door(h) \in Doors /\ traps[h].what \in {"open", "closed", "unlocked", "locked"}
  BY <1>2, TrapFacts, AboutFacts
<1>4. cached' \subseteq Doors \X {"open", "unlocked"}
  BY <1>3 DEF Update, RecordsOK
<1>5. RecordsOK'  BY <1>1, <1>4, TrapsKept DEF RecordsOK, history
<1>6. at' \in [Handlers -> Places] /\ \A g \in Handlers : Stage(g)'  BY <1>1, Ends
<1> QED  BY <1>1, <1>5, <1>6, KeptTraps, KeptHandlers, KeptPins, KeptPassed, TrapsKept
         DEF PinsOK, pins, history

LEMMA Stepswiped ==
  ASSUME IInv, NEW h \in Handlers, swiped(h)
  PROVE  IInv'
<1> USE DEF IInv, TypeOK
<1>1. /\ at[h] = "swipe" /\ traps' = traps
      /\ UNCHANGED <<settings, swipe, cached, last, recording, passed>>
  BY DEF swiped
<1>2. IsSwipe(h) /\ swipe[h] = h  BY <1>1 DEF Stage, Deciding
<1>3. PinsOK' /\ Waits'
  BY <1>1, TrapsKept DEF swiped, Supersede, PinsOK, Waits, None
<1>4. Superseded(Door(h)) \in [Handlers -> SUBSET {"granted", "denied", "superseded", "lost"}]
  BY DEF Superseded, RecordsOK
<1>5. outcome' \in [Handlers -> SUBSET {"granted", "denied", "superseded", "lost"}]
  BY <1>4 DEF swiped
<1>6. orderly' \in BOOLEAN  BY DEF swiped, RecordsOK
<1>7. faults' \in 0 .. MaxFaults  BY CountedFault DEF swiped, RecordsOK
<1>8. RecordsOK'  BY <1>1, <1>5, <1>6, <1>7, TrapsKept DEF RecordsOK
<1>9. unread' \in [Handlers -> SUBSET (Doors \X {"open", "unlocked"})]
  BY DEF swiped, HandlersOK
<1>10. at' \in [Handlers -> Places] /\ \A g \in Handlers : Stage(g)'
  <2>1. CASE Goto(h, "done")  BY <1>1, <2>1, Ends
  <2>2. CASE Goto(h, "interlock") /\ <<Card(h), Door(h)>> \in Permitted
    <3>1. at'[h] = "interlock" => Stage(h)'
      BY <1>1, <1>2, <2>2, TrapsKept DEF Stage, Deciding, Keying, Unlocking
    <3> QED  BY <1>1, <2>2, <3>1, GoesOn DEF Places
  <2> QED  BY <2>1, <2>2 DEF swiped
<1> QED  BY <1>1, <1>3, <1>8, <1>9, <1>10, KeptTraps, KeptPassed, TrapsKept DEF HandlersOK

LEMMA Stepinterlocked ==
  ASSUME IInv, NEW h \in Handlers, interlocked(h)
  PROVE  IInv'
<1> USE DEF IInv, TypeOK
<1>1. /\ at[h] = "interlock" /\ traps' = traps
      /\ UNCHANGED <<settings, swipe, pins, cached, last, recording, passed, orderly, faults>>
  BY DEF interlocked
<1>2. IsSwipe(h) /\ swipe[h] = h /\ <<Card(h), Door(h)>> \in Permitted
  BY <1>1 DEF Stage, Deciding
<1>3. unread' \in [Handlers -> SUBSET (Doors \X {"open", "unlocked"})]
  BY DEF interlocked, HandlersOK
<1>4. outcome' \in [Handlers -> SUBSET {"granted", "denied", "superseded", "lost"}]
  BY DEF interlocked, denied, Decided, RecordsOK
<1>5. RecordsOK'  BY <1>1, <1>4, TrapsKept DEF RecordsOK
<1>6. at' \in [Handlers -> Places] /\ \A g \in Handlers : Stage(g)'
  <2>1. CASE Goto(h, "done")  BY <1>1, <2>1, Ends
  <2>2. CASE Goto(h, "passback")
    <3>1. at'[h] = "passback" => Stage(h)'
      BY <1>1, <1>2, TrapsKept DEF Stage, Deciding, Keying, Unlocking
    <3> QED  BY <1>1, <2>2, <3>1, GoesOn DEF Places
  <2>3. CASE at' = at
    BY <1>1, <2>3, TrapsKept DEF HandlersOK, Stage, Deciding, Keying, Unlocking
  <2> QED  BY <2>1, <2>2, <2>3 DEF interlocked, denied
<1> QED  BY <1>1, <1>3, <1>5, <1>6, KeptTraps, KeptPins, KeptPassed, TrapsKept
         DEF HandlersOK, PinsOK, pins

LEMMA Stepantipassbacked ==
  ASSUME IInv, NEW h \in Handlers, antipassbacked(h)
  PROVE  IInv'
<1> USE DEF IInv, TypeOK
<1>1. /\ at[h] = "passback" /\ traps' = traps
      /\ UNCHANGED <<settings, swipe, unread, cached, last, recording, passed, orderly>>
  BY DEF antipassbacked
<1>2. IsSwipe(h) /\ swipe[h] = h /\ <<Card(h), Door(h)>> \in Permitted
  BY <1>1 DEF Stage, Deciding
<1>3. PinsOK' /\ Waits'
  <2>1. CASE UNCHANGED pins  BY <1>1, <2>1, KeptPins, TrapsKept DEF PinsOK, pins
  <2>2. CASE AwaitPIN(h)
    BY <1>1, <1>2, <2>2, SwipeFacts, TrapsKept DEF AwaitPIN, PinsOK, Waits
  <2> QED  BY <2>1, <2>2 DEF antipassbacked
<1>4. outcome' \in [Handlers -> SUBSET {"granted", "denied", "superseded", "lost"}]
  BY DEF antipassbacked, denied, Decided, RecordsOK
<1>5. faults' \in 0 .. MaxFaults  BY CountedFault DEF antipassbacked, RecordsOK
<1>6. RecordsOK'  BY <1>1, <1>4, <1>5, TrapsKept DEF RecordsOK
<1>7. at' \in [Handlers -> Places] /\ \A g \in Handlers : Stage(g)'
  <2>1. CASE Goto(h, "done")  BY <1>1, <2>1, Ends
  <2>2. CASE Goto(h, "unlock") /\ Card(h) \notin WithPIN
    <3>1. Allowed(h)  BY <1>2, <2>2 DEF Allowed
    <3>2. at'[h] = "unlock" => Stage(h)'
      BY <1>1, <1>2, <3>1, TrapsKept DEF Stage, Deciding, Keying, Unlocking
    <3> QED  BY <1>1, <2>2, <3>2, GoesOn DEF Places
  <2> QED  BY <2>1, <2>2 DEF antipassbacked, denied
<1> QED  BY <1>1, <1>3, <1>6, <1>7, KeptTraps, KeptHandlers, KeptPassed

LEMMA Stepkeyed ==
  ASSUME IInv, NEW h \in Handlers, keyed(h)
  PROVE  IInv'
<1> USE DEF IInv, TypeOK
<1>1. /\ at[h] = "keycode" /\ traps' = traps
      /\ UNCHANGED <<settings, unread, pins, cached, last, recording, history, faults>>
  BY DEF keyed
<1>2. h \in Started /\ traps[h].kind = "keycode" /\ Door(h) \in Doors
  BY <1>1, TrapFacts DEF Stage, Keying
<1>3. /\ \A g \in Handlers \ {h} : swipe'[g] = swipe[g]
      /\ swipe'[h] = pending[Door(h)] /\ swipe' \in [Handlers -> Handlers \cup {None}]
  BY <1>2 DEF keyed, HandlersOK, PinsOK
<1>4. pending[Door(h)] # None =>
        /\ IsSwipe(pending[Door(h)]) /\ Door(pending[Door(h)]) = Door(h)
        /\ <<Card(pending[Door(h)]), Door(h)>> \in Permitted
  BY <1>2 DEF PinsOK, Waits
<1>5. PICK step : step = IF pending[Door(h)] = None THEN "done" ELSE "code"  OBVIOUS
<1>6. at'[h] = step => Stage(h)'
  BY <1>2, <1>3, <1>4, <1>5, <1>1, TrapsKept DEF Stage, Deciding, Keying, Unlocking
<1>7. at' \in [Handlers -> Places] /\ \A g \in Handlers : Stage(g)'
  BY <1>1, <1>3, <1>5, <1>6, GoesOn DEF keyed, Places
<1>8. HandlersOK'
  <2>1. \A g \in Handlers : swipe'[g] # None => IsSwipe(swipe'[g])
    BY <1>3, <1>4 DEF HandlersOK
  <2> QED  BY <1>1, <1>3, <1>7, <2>1, TrapsKept DEF HandlersOK
<1>9. RecordsOK'  BY <1>1, TrapsKept DEF RecordsOK, history
<1> QED  BY <1>1, <1>7, <1>8, <1>9, KeptTraps, KeptPins, KeptPassed, TrapsKept
         DEF PinsOK, pins, history

LEMMA Stepdigit ==
  ASSUME IInv, NEW h \in Handlers, digit(h)
  PROVE  IInv'
<1> USE DEF IInv, TypeOK
<1>1. /\ at[h] = "code" /\ Goto(h, "done") /\ Reset(h) /\ traps' = traps
      /\ UNCHANGED <<settings, swipe, unread, pending, cached, last, recording, history, faults>>
  BY DEF digit
<1>2. swipe[h] \in Started  BY <1>1 DEF Stage, Keying, HandlersOK, IsSwipe
<1>3. timers' \subseteq Started  BY <1>1, <1>2 DEF Reset, PinsOK
<1>4. at' \in [Handlers -> Places] /\ \A g \in Handlers : Stage(g)'  BY <1>1, Ends
<1>5. RecordsOK'  BY <1>1, TrapsKept DEF RecordsOK, history
<1> QED  BY <1>1, <1>3, <1>4, <1>5, KeptTraps, KeptHandlers, KeptPins, KeptPassed DEF history

LEMMA Stepcode ==
  ASSUME IInv, NEW h \in Handlers, code(h)
  PROVE  IInv'
<1> USE DEF IInv, TypeOK
<1>1. /\ at[h] = "code" /\ traps' = traps /\ timers' = timers \ {swipe[h]}
      /\ pending' = [pending EXCEPT ![Door(h)] = None]
      /\ UNCHANGED <<settings, swipe, unread, cached, last, recording, passed, orderly, faults>>
  BY DEF code
<1>2. PICK s : s = swipe[h]  OBVIOUS
<1>3. /\ h \in Started /\ traps[h].kind = "keycode" /\ IsSwipe(s) /\ Door(s) = Door(h)
      /\ <<Card(s), Door(s)>> \in Permitted
  BY <1>1, <1>2 DEF Stage, Keying, HandlersOK
<1>4. PinsOK' /\ Waits'  BY <1>1, TrapsKept DEF PinsOK, Waits, None
<1>5. outcome' \in [Handlers -> SUBSET {"granted", "denied", "superseded", "lost"}]
  BY DEF code, denied, Decided, RecordsOK
<1>6. RecordsOK'  BY <1>1, <1>5, TrapsKept DEF RecordsOK
<1>7. at' \in [Handlers -> Places] /\ \A g \in Handlers : Stage(g)'
  <2>1. CASE Goto(h, "done")  BY <1>1, <2>1, Ends
  <2>2. CASE Goto(h, "unlock") /\ Correct(h)
    <3>1. Allowed(s)  BY <1>2, <1>3, <2>2 DEF Allowed, Correct
    <3>2. at'[h] = "unlock" => Stage(h)'
      BY <1>1, <1>2, <3>1, TrapsKept DEF Stage, Deciding, Keying, Unlocking
    <3> QED  BY <1>1, <2>2, <3>2, GoesOn DEF Places
  <2> QED  BY <2>1, <2>2 DEF code, denied
<1> QED  BY <1>1, <1>4, <1>6, <1>7, KeptTraps, KeptHandlers, KeptPassed

LEMMA Steptimeout ==
  ASSUME IInv, NEW s \in Handlers, timeout(s)
  PROVE  IInv'
<1> USE DEF IInv, TypeOK
<1>1. /\ UNCHANGED <<settings, threads, pending, cached, last, recording, passed, orderly, faults>>
      /\ traps' = traps /\ at' = at /\ swipe' = swipe /\ unread' = unread
      /\ timers' = timers \ {s}
  BY DEF timeout, threads
<1>2. outcome' \in [Handlers -> SUBSET {"granted", "denied", "superseded", "lost"}]
  BY DEF timeout, Decided, RecordsOK
<1>3. RecordsOK'  BY <1>1, <1>2, TrapsKept DEF RecordsOK
<1>4. PinsOK' /\ Waits'  BY <1>1, KeptPins DEF PinsOK
<1>5. HandlersOK' /\ \A g \in Handlers : Stage(g)'
  BY <1>1, TrapsKept DEF HandlersOK, Stage, Deciding, Keying, Unlocking
<1> QED  BY <1>1, <1>3, <1>4, <1>5, KeptTraps, KeptPassed

LEMMA Stepunlock ==
  ASSUME IInv, NEW h \in Handlers, unlock(h)
  PROVE  IInv'
<1> USE DEF IInv, TypeOK
<1>1. /\ at[h] = "unlock" /\ traps' = traps
      /\ UNCHANGED <<settings, swipe, unread, pins, cached, last, recording, orderly>>
  BY DEF unlock
<1>2. PICK s : s = swipe[h]  OBVIOUS
<1>3. Allowed(s) /\ s \in Handlers  BY <1>1, <1>2, SwipeFacts DEF Stage, Unlocking, Allowed
<1>4. outcome' \in [Handlers -> SUBSET {"granted", "denied", "superseded", "lost"}]
  BY DEF unlock, denied, Decided, RecordsOK
<1>5. faults' \in 0 .. MaxFaults  BY CountedFault DEF unlock, RecordsOK
<1>6. passed \in Seq(Handlers) /\ (passed' = passed \/ passed' = Append(passed, s))
  BY <1>2 DEF unlock, RecordsOK
<1>7. passed' \in Seq(Handlers) /\ \A i \in 1 .. Len(passed') : Allowed(passed'[i])
  <2>1. CASE passed' = passed  BY <1>6, <2>1 DEF Passed
  <2>2. CASE passed' = Append(passed, s)
    <3>1. /\ passed' \in Seq(Handlers) /\ Len(passed') = Len(passed) + 1
          /\ \A i \in 1 .. Len(passed) : passed'[i] = passed[i]
          /\ passed'[Len(passed) + 1] = s
      BY <1>3, <1>6, <2>2, AppendFacts
    <3> QED  BY <1>3, <1>6, <3>1 DEF Passed
  <2> QED  BY <1>6, <2>1, <2>2
<1>8. Passed'  BY <1>1, <1>7, TrapsKept DEF Passed
<1>9. RecordsOK'  BY <1>1, <1>4, <1>5, <1>7, TrapsKept DEF RecordsOK
<1>10. at' \in [Handlers -> Places] /\ \A g \in Handlers : Stage(g)'
  <2>1. CASE Goto(h, "done")  BY <1>1, <2>1, Ends
  <2>2. CASE Goto(h, "granted")
    <3>1. at'[h] = "granted" => Stage(h)'
      BY <1>1, <1>2, <1>3, TrapsKept DEF Stage, Deciding, Keying, Unlocking
    <3> QED  BY <1>1, <2>2, <3>1, GoesOn DEF Places
  <2> QED  BY <2>1, <2>2 DEF unlock, denied
<1> QED  BY <1>1, <1>8, <1>9, <1>10, KeptTraps, KeptHandlers, KeptPins, TrapsKept
         DEF PinsOK, pins

LEMMA Stepgranted ==
  ASSUME IInv, NEW h \in Handlers, granted(h)
  PROVE  IInv'
<1> USE DEF IInv, TypeOK
<1>1. /\ at[h] = "granted" /\ Goto(h, "done") /\ traps' = traps
      /\ UNCHANGED <<settings, swipe, unread, pins, last, passed, orderly, faults>>
  BY DEF granted
<1>2. PICK s : s = swipe[h]  OBVIOUS
<1>3. IsSwipe(s) /\ s \in Started /\ Door(s) \in Doors
  BY <1>1, <1>2, SwipeFacts DEF Stage, Unlocking, Allowed
<1>4. outcome' \in [Handlers -> SUBSET {"granted", "denied", "superseded", "lost"}]
  BY DEF granted, Decided, RecordsOK
<1>5. /\ recording' \subseteq {g \in Started : IsSwipe(g)}
      /\ cached' \subseteq Doors \X {"open", "unlocked"}
  BY <1>2, <1>3 DEF granted, RecordsOK
<1>6. RecordsOK'  BY <1>1, <1>4, <1>5, TrapsKept DEF RecordsOK
<1>7. at' \in [Handlers -> Places] /\ \A g \in Handlers : Stage(g)'  BY <1>1, Ends
<1> QED  BY <1>1, <1>6, <1>7, KeptTraps, KeptHandlers, KeptPins, KeptPassed, TrapsKept
         DEF PinsOK, pins

LEMMA StepPutSwipe ==
  ASSUME IInv, NEW s \in Handlers, PutSwipe(s)
  PROVE  IInv'
<1> USE DEF IInv, TypeOK
<1>1. /\ UNCHANGED <<settings, threads, pins, cached, history>>
      /\ traps' = traps /\ at' = at /\ swipe' = swipe /\ unread' = unread
  BY DEF PutSwipe, threads
<1>2. Door(s) \in Doors  BY SwipeFacts DEF PutSwipe, RecordsOK
<1>3. last' \in [Cards -> Doors \cup {None}] /\ recording' \subseteq recording
  BY <1>2 DEF PutSwipe, RecordsOK
<1>4. faults' \in 0 .. MaxFaults  BY CountedFault DEF PutSwipe, RecordsOK
<1>5. RecordsOK'  BY <1>1, <1>3, <1>4, TrapsKept DEF RecordsOK, history
<1>6. HandlersOK' /\ \A g \in Handlers : Stage(g)'
  BY <1>1, TrapsKept DEF HandlersOK, Stage, Deciding, Keying, Unlocking
<1> QED  BY <1>1, <1>5, <1>6, KeptTraps, KeptPins, KeptPassed, TrapsKept DEF PinsOK, pins, history

LEMMA StepRestart ==
  ASSUME IInv, Restart
  PROVE  IInv'
<1> USE DEF IInv, TypeOK
<1>1. /\ traps' = traps /\ UNCHANGED <<settings, swipe, last, passed, orderly>>
      /\ pending' = [d \in Doors |-> None] /\ timers' = {} /\ recording' = {} /\ cached' = {}
      /\ unread' = [h \in Handlers |-> {}]
  BY DEF Restart
<1>2. outcome' \in [Handlers -> SUBSET {"granted", "denied", "superseded", "lost"}]
  BY DEF Restart, RecordsOK
<1>3. faults' \in 0 .. MaxFaults  BY CountedFault DEF Restart, RecordsOK
<1>4. at' \in [Handlers -> {"none", "done"}]  BY DEF Restart
<1>5. RecordsOK'  BY <1>1, <1>2, <1>3 DEF RecordsOK
<1>6. HandlersOK'  BY <1>1, <1>4, TrapsKept DEF HandlersOK, Places
<1>7. PinsOK' /\ Waits'  BY <1>1 DEF PinsOK, Waits, None
<1>8. \A g \in Handlers : Stage(g)'  BY <1>4 DEF Stage, Deciding, Keying, Unlocking
<1> QED  BY <1>1, <1>5, <1>6, <1>7, <1>8, KeptTraps, KeptPassed

-----------------------------------------------------------------------------
(* The results *)

LEMMA InitIInv == Init => IInv
<1> SUFFICES ASSUME Init PROVE IInv  OBVIOUS
<1>1. TrapsOK
  <2>1. traps = <<>> /\ Len(traps) = 0  BY DEF Init
  <2>2. Started = {}  BY <2>1 DEF Started
  <2> QED  BY <2>1, <2>2, BoundsAssumption DEF TrapsOK
<1>2. HandlersOK /\ \A h \in Handlers : Stage(h)
  BY DEF Init, HandlersOK, Places, Stage, Deciding, Keying, Unlocking
<1>3. SettingsOK /\ PinsOK /\ Waits  BY DEF Init, SettingsOK, PinsOK, Waits
<1>4. RecordsOK  BY BoundsAssumption DEF Init, RecordsOK
<1>5. Passed  BY DEF Init, Passed
<1> QED  BY <1>1, <1>2, <1>3, <1>4, <1>5 DEF IInv, TypeOK

LEMMA StepIInv == IInv /\ [Next]_vars => IInv'
<1> SUFFICES ASSUME IInv, [Next]_vars PROVE IInv'  OBVIOUS
<1>1. CASE \E kind \in DOMAIN About, d \in Doors : \E what \in About[kind] : Trap(kind, d, what)
  BY <1>1, StepTrap
<1>2. ASSUME NEW h \in Handlers, Handler(h) PROVE IInv'
  BY <1>2, StepUpdate, Stepswiped, Stepinterlocked, Stepantipassbacked, Stepkeyed, Stepdigit,
     Stepcode, Stepunlock, Stepgranted DEF Handler
<1>3. ASSUME NEW h \in Handlers, timeout(h) PROVE IInv'  BY <1>3, Steptimeout
<1>4. ASSUME NEW h \in Handlers, PutSwipe(h) PROVE IInv'  BY <1>4, StepPutSwipe
<1>5. CASE Restart  BY <1>5, StepRestart
<1>6. CASE UNCHANGED vars
  <2>1. /\ traps' = traps /\ at' = at /\ swipe' = swipe /\ unread' = unread
        /\ UNCHANGED <<settings, pins, cached, last, recording, history, faults>>
    BY <1>6 DEF vars, threads
  <2>2. HandlersOK' /\ \A h \in Handlers : Stage(h)'
    BY <2>1, TrapsKept DEF IInv, TypeOK, HandlersOK, Stage, Deciding, Keying, Unlocking
  <2>3. RecordsOK'  BY <2>1, TrapsKept DEF IInv, TypeOK, RecordsOK, history
  <2> QED  BY <2>1, <2>2, <2>3, KeptTraps, KeptPins, KeptPassed, TrapsKept
           DEF IInv, TypeOK, PinsOK, pins, history
<1> QED  BY <1>1, <1>2, <1>3, <1>4, <1>5, <1>6 DEF Next

\* The inductive invariant of the swipe handlers (swipe.go).
THEOREM AccessInvariance == Spec => []IInv
BY InitIInv, StepIInv, PTL DEF Spec

\* Every variable keeps its type, whatever the cards, doors and settings.
THEOREM AccessTypeCorrect == Spec => []TypeOK
<1>1. IInv => TypeOK  BY DEF IInv
<1> QED  BY <1>1, AccessInvariance, PTL

\* Whatever swipes, codes, timers, failed calls and restarts do to each other,
\* swipe() and keyCode() unlock no door that was not earned.
THEOREM OnlyEarned == Spec => []Earned
<1>1. IInv => Earned  BY DEF IInv, Passed, Allowed, Earned
<1> QED  BY <1>1, AccessInvariance, PTL

\* The anti-passback tables of antipassbacked() agree with the sides of the
\* settings (constants.go): a card that was last used at a door of some side is
\* not let pass at a door of that side, whatever the setting.
THEOREM SidesAgree ==
  ASSUME antipassback \in {"none", "12_34", "13_24", "1_23", "1_234"},
         NEW side \in Sides, NEW d \in side
  PROVE  Before(d) \cap side = {}
<1>1. CASE antipassback = "none"  BY <1>1 DEF Sides, Before
<1>2. CASE antipassback = "12_34"  BY <1>2 DEF Sides, Before
<1>3. CASE antipassback = "13_24"  BY <1>3 DEF Sides, Before
<1>4. CASE antipassback = "1_23"  BY <1>4 DEF Sides, Before
<1>5. CASE antipassback = "1_234"  BY <1>5 DEF Sides, Before
<1> QED  BY <1>1, <1>2, <1>3, <1>4, <1>5
-----------------------------------------------------------------------------
(***************************************************************************)
(* Alternates.  A swipe is active from its first check until it is         *)
(* recorded; as long as nothing disturbs this, one swipe at most is active *)
(* (Alone), so the last passage of each card is the one that is recorded   *)
(* (Recorded) and what a swipe was checked against still stands when its   *)
(* door is unlocked at last (Checked).                                     *)
(***************************************************************************)
Undecided == {"swipe", "interlock", "passback"}

\* Swipes are checked once, before they pass, wait for a PIN or are unlocked for.
Begun ==
  /\ \A h \in Handlers : at[h] # "none" => h \in Started
  /\ \A i \in 1 .. Len(passed) : at[passed[i]] \notin Undecided
  /\ \A d \in Doors : pending[d] # None => at[pending[d]] \notin Undecided
  /\ \A h \in Handlers : at[h] \in {"code", "unlock", "granted"} => at[swipe[h]] \notin Undecided

Busy == {"interlock", "passback", "code", "unlock", "granted"}
Active(s) == \/ s \in recording \/ \E d \in Doors : pending[d] = s
             \/ \E h \in Handlers : at[h] \in Busy /\ swipe[h] = s
Cleared(s) == \/ \E d \in Doors : pending[d] = s
              \/ \E h \in Handlers : at[h] \in {"code", "unlock"} /\ swipe[h] = s
Gone(s) == s \in recording \/ \E h \in Handlers : at[h] = "granted" /\ swipe[h] = s

Alone == \A s, t \in Handlers : Active(s) /\ Active(t) => s = t
Newest == \A s \in Handlers : Gone(s) => Len(passed) > 0 /\ passed[Len(passed)] = s

\* The i-th passage is the last one of its card.
Final(i) == \A k \in i + 1 .. Len(passed) : Card(passed[k]) # Card(passed[i])
Recorded == \A i \in 1 .. Len(passed) : Final(i) =>
  last[Card(passed[i])] = Door(passed[i]) \/ Gone(passed[i])

\* The i-th passage is the last one of the card of s before s itself.
Preceding(i, s) ==
  /\ passed[i] # s /\ Card(passed[i]) = Card(s)
  /\ \A k \in i + 1 .. Len(passed) : Card(passed[k]) = Card(s) => passed[k] = s
Checked == \A s \in Handlers : Cleared(s) => \A i \in 1 .. Len(passed) :
  Preceding(i, s) => Door(passed[i]) \in Before(Door(s))
Apart == \A i, j \in 1 .. Len(passed) :
  Successive(i, j) => Door(passed[i]) \in Before(Door(passed[j]))

Orderly == orderly /\ faults = 0
Undisturbed == Orderly => Alone /\ Newest /\ Recorded /\ Checked /\ Apart

AInv == IInv /\ Begun /\ Undisturbed

LEMMA PassedFacts ==
  ASSUME IInv
  PROVE  /\ passed \in Seq(Handlers) /\ Len(passed) \in Nat
         /\ \A i \in 1 .. Len(passed) : passed[i] \in Handlers /\ passed[i] \in Started
<1>1. TrapsOK /\ passed \in Seq(Handlers)  BY DEF IInv, TypeOK, RecordsOK
<1>2. \A i \in 1 .. Len(passed) : IsSwipe(passed[i])  BY DEF IInv, Passed, Allowed
<1> QED  BY <1>1, <1>2, SwipeFacts

LEMMA SwipeOfHandler ==
  ASSUME IInv, NEW h \in Handlers
  PROVE  /\ at[h] \in Busy => swipe[h] \in Handlers /\ swipe[h] \in Started
         /\ at[h] \in {"swipe", "interlock", "passback"} => swipe[h] = h
<1>1. swipe[h] # None => IsSwipe(swipe[h])  BY DEF IInv, TypeOK, HandlersOK
<1>2. at[h] \in Busy => IsSwipe(swipe[h])
  <2>1. Stage(h)  BY DEF IInv
  <2>2. CASE at[h] \in {"interlock", "passback"}  BY <2>1, <2>2 DEF Stage, Deciding
  <2>3. CASE at[h] = "code"  BY <1>1, <2>1, <2>3 DEF Stage, Keying
  <2>4. CASE at[h] \in {"unlock", "granted"}  BY <2>1, <2>4 DEF Stage, Unlocking, Allowed
  <2> QED  BY <2>2, <2>3, <2>4 DEF Busy
<1> QED  BY <1>2, SwipeFacts DEF IInv, TypeOK, Stage, Deciding

LEMMA PendingFacts ==
  ASSUME IInv, NEW d \in Doors, pending[d] # None
  PROVE  pending[d] \in Handlers /\ pending[d] \in Started
BY SwipeFacts DEF IInv, TypeOK, PinsOK

\* What keeps Begun: no handler returns to a check.
LEMMA BegunFrame ==
  ASSUME IInv, Begun, Started \subseteq Started',
         \A g \in Handlers : at'[g] # "none" => at[g] # "none" \/ g \in Started',
         \A g \in Started : at'[g] \in Undecided => at[g] \in Undecided,
         \A i \in 1 .. Len(passed') : \/ i \in 1 .. Len(passed) /\ passed'[i] = passed[i]
                                      \/ at'[passed'[i]] \notin Undecided,
         \A d \in Doors : \/ pending'[d] \in {None, pending[d]}
                          \/ at'[pending'[d]] \notin Undecided,
         \A g \in Handlers : at'[g] \in {"code", "unlock", "granted"} =>
           \/ at[g] \in {"code", "unlock", "granted"} /\ swipe'[g] = swipe[g]
           \/ at'[swipe'[g]] \notin Undecided
  PROVE  Begun'
<1>1. (\A h \in Handlers : at[h] # "none" => h \in Started)'  BY DEF Begun
<1>2. \A i \in 1 .. Len(passed') : at'[passed'[i]] \notin Undecided
  BY PassedFacts DEF Begun
<1>3. \A d \in Doors : pending'[d] # None => at'[pending'[d]] \notin Undecided
  BY PendingFacts DEF Begun
<1>4. \A h \in Handlers : at'[h] \in {"code", "unlock", "granted"} =>
        at'[swipe'[h]] \notin Undecided
  BY SwipeOfHandler DEF Begun, Busy
<1> QED  BY <1>1, <1>2, <1>3, <1>4 DEF Begun

\* A step without a passage keeps what is said of the passages.
LEMMA PassagesFrame ==
  ASSUME IInv, Newest, Recorded, Apart, UNCHANGED <<passed, last, antipassback>>,
         \A s \in Started : Card(s)' = Card(s) /\ Door(s)' = Door(s),
         \A s \in Handlers : Gone(s)' <=> Gone(s)
  PROVE  Newest' /\ Recorded' /\ Apart'
<1>1. \A i \in 1 .. Len(passed) : /\ passed[i] \in Handlers
                                  /\ Card(passed[i])' = Card(passed[i])
                                  /\ Door(passed[i])' = Door(passed[i])
  BY PassedFacts DEF Card, Door
<1>2. Newest'  BY DEF Newest
<1>3. ASSUME NEW i \in 1 .. Len(passed), Final(i)'
      PROVE  (last[Card(passed[i])] = Door(passed[i]) \/ Gone(passed[i]))'
  <2>1. Final(i)
    <3>1. \A k \in i + 1 .. Len(passed) : k \in 1 .. Len(passed)  BY PassedFacts
    <3> QED  BY <1>1, <1>3, <3>1 DEF Final
  <2>2. last[Card(passed[i])] = Door(passed[i]) \/ Gone(passed[i])
    BY <2>1 DEF Recorded
  <2>3. Gone(passed[i])' <=> Gone(passed[i])  BY <1>1 DEF Gone
  <2> QED  BY <1>1, <2>2, <2>3
<1>4. Recorded'  BY <1>3 DEF Recorded
<1>5. \A i, j \in 1 .. Len(passed) : Successive(i, j)' => Successive(i, j)
  BY <1>1, PassedFacts DEF Successive
<1>6. \A d : Before(d)' = Before(d)  BY DEF Before
<1>7. Apart'  BY <1>1, <1>5, <1>6 DEF Apart
<1> QED  BY <1>2, <1>4, <1>7

LEMMA ClearedFacts ==
  ASSUME IInv, NEW s \in Handlers, Cleared(s)
  PROVE  s \in Started /\ Active(s)
<1>1. s # None  BY BoundsAssumption DEF Handlers, None
<1> QED  BY <1>1, PendingFacts, SwipeOfHandler DEF Cleared, Active, Busy

\* A swipe that was cleared before the step still agrees with its predecessor.
LEMMA CheckedKept ==
  ASSUME IInv, Checked, UNCHANGED <<passed, antipassback>>,
         \A s \in Started : Card(s)' = Card(s) /\ Door(s)' = Door(s),
         NEW s \in Handlers, Cleared(s), NEW i \in 1 .. Len(passed), Preceding(i, s)'
  PROVE  (Door(passed[i]) \in Before(Door(s)))'
<1>1. \A k \in 1 .. Len(passed) : /\ passed[k] \in Handlers
                                  /\ Card(passed[k])' = Card(passed[k])
                                  /\ Door(passed[k])' = Door(passed[k])
  BY PassedFacts DEF Card, Door
<1>2. Card(s)' = Card(s) /\ Door(s)' = Door(s)  BY ClearedFacts
<1>3. \A k \in i + 1 .. Len(passed) : k \in 1 .. Len(passed)  BY PassedFacts
<1>4. Preceding(i, s)  BY <1>1, <1>2, <1>3 DEF Preceding
<1>5. Door(passed[i]) \in Before(Door(s))  BY <1>4 DEF Checked
<1>6. \A d : Before(d)' = Before(d)  BY DEF Before
<1> QED  BY <1>1, <1>2, <1>5, <1>6

\* What keeps Undisturbed: no swipe becomes active or cleared.
LEMMA UndisturbedFrame ==
  ASSUME IInv, Undisturbed, Orderly' => Orderly, UNCHANGED <<passed, last, antipassback>>,
         \A s \in Started : Card(s)' = Card(s) /\ Door(s)' = Door(s),
         \A s \in Handlers : Gone(s)' <=> Gone(s),
         \A s \in Handlers : s \in recording' => Active(s),
         \A d \in Doors : pending'[d] \in {None, pending[d]},
         \A g \in Handlers : at'[g] \in Busy => Active(swipe'[g]),
         \A g \in Handlers : at'[g] \in {"code", "unlock"} => Cleared(swipe'[g])
  PROVE  Undisturbed'
<1> SUFFICES ASSUME Orderly' PROVE (Alone /\ Newest /\ Recorded /\ Checked /\ Apart)'
  BY DEF Undisturbed
<1>1. Alone /\ Newest /\ Recorded /\ Checked /\ Apart  BY DEF Undisturbed
<1>2. \A s \in Handlers : s # None  BY BoundsAssumption DEF Handlers, None
<1>3. \A s \in Handlers : Active(s)' => Active(s)  BY <1>2 DEF Active
<1>4. \A s \in Handlers : Cleared(s)' => Cleared(s)  BY <1>2 DEF Cleared
<1>5. Alone'  BY <1>1, <1>3 DEF Alone
<1>6. Newest' /\ Recorded' /\ Apart'  BY <1>1, PassagesFrame
<1>7. ASSUME NEW s \in Handlers, Cleared(s)', NEW i \in 1 .. Len(passed), Preceding(i, s)'
      PROVE  (Door(passed[i]) \in Before(Door(s)))'
  BY <1>1, <1>4, <1>7, CheckedKept
<1>8. Checked'  BY <1>7 DEF Checked
<1> QED  BY <1>5, <1>6, <1>8

LEMMA GoneKept ==
  ASSUME recording' = recording,
         \A g \in Handlers : at'[g] = "granted" <=> at[g] = "granted",
         \A g \in Handlers : at[g] = "granted" => swipe'[g] = swipe[g]
  PROVE  \A s \in Handlers : Gone(s)' <=> Gone(s)
BY DEF Gone

\* One handler moves on, within what its swipe was already: checks, entries of
\* codes, refusals.
LEMMA MovesOn ==
  ASSUME IInv, Undisturbed, traps' = traps, Orderly' => Orderly,
         UNCHANGED <<passed, last, antipassback, recording>>,
         \A d \in Doors : pending'[d] \in {None, pending[d]},
         NEW h \in Handlers, \A g \in Handlers \ {h} : at'[g] = at[g] /\ swipe'[g] = swipe[g],
         at[h] # "granted", at'[h] # "granted",
         at'[h] \in Busy => Active(swipe'[h]),
         at'[h] \in {"code", "unlock"} => Cleared(swipe'[h])
  PROVE  Undisturbed'
<1>1. \A s \in Handlers : Gone(s)' <=> Gone(s)  BY GoneKept
<1>2. \A s \in Started : Card(s)' = Card(s) /\ Door(s)' = Door(s)  BY TrapsKept
<1>3. \A s \in Handlers : s \in recording' => Active(s)  BY DEF Active
<1>4. \A g \in Handlers : at'[g] \in Busy => Active(swipe'[g])  BY DEF Active
<1>5. \A g \in Handlers : at'[g] \in {"code", "unlock"} => Cleared(swipe'[g])  BY DEF Cleared
<1> QED  BY <1>1, <1>2, <1>3, <1>4, <1>5, UndisturbedFrame

-----------------------------------------------------------------------------
(* The actions again, for Begun and Undisturbed *)

LEMMA AlternatesTrap ==
  ASSUME AInv, NEW kind \in DOMAIN About, NEW d \in Doors, NEW what \in About[kind],
         Trap(kind, d, what)
  PROVE  Begun' /\ Undisturbed'
<1> USE DEF AInv
<1> PICK n : n = Len(traps) + 1  OBVIOUS
<1>1. /\ Started' = Started \cup {n} /\ n \in Handlers
      /\ \A s \in Started : traps'[s] = traps[s]
  BY TrapAdded DEF IInv, TypeOK
<1>2. n \notin Started
  <2>1. Len(traps) \in Nat  BY DEF IInv, TypeOK, TrapsOK
  <2> QED  BY <2>1 DEF Started
<1>3. at[n] = "none"  BY <1>1, <1>2 DEF Begun
<1>4. /\ at'[n] = kind /\ \A g \in Handlers \ {n} : at'[g] = at[g] /\ swipe'[g] = swipe[g]
      /\ UNCHANGED <<settings, unread, pins, cached, last, recording, history, faults>>
  BY <1>1 DEF Trap, Goto, IInv, TypeOK, HandlersOK
<1>5. kind \in {"swipe", "keycode", "state"}  BY AboutFacts
<1>6. Begun'
  <2>1. \A g \in Started : g \in Handlers /\ g # n /\ at'[g] = at[g]
    BY <1>2, <1>4, TrapFacts DEF IInv, TypeOK
  <2>2. \A g \in Handlers : at'[g] # "none" => at[g] # "none" \/ g \in Started'
    BY <1>1, <1>4
  <2>3. \A g \in Handlers : at'[g] \in {"code", "unlock", "granted"} =>
          at[g] \in {"code", "unlock", "granted"} /\ swipe'[g] = swipe[g]
    BY <1>4, <1>5
  <2>4. passed' = passed /\ pending' = pending  BY <1>4 DEF pins, history
  <2> QED  BY <1>1, <2>1, <2>2, <2>3, <2>4, BegunFrame
<1>7. \A s \in Started : Card(s)' = Card(s) /\ Door(s)' = Door(s)
  BY <1>1, GrowthKeeps
<1>8. \A s \in Handlers : Gone(s)' <=> Gone(s)  BY <1>3, <1>4, <1>5, GoneKept
<1>9. \A g \in Handlers : at'[g] \in Busy => Active(swipe'[g])
  BY <1>4, <1>5 DEF Active, Busy
<1>10. \A g \in Handlers : at'[g] \in {"code", "unlock"} => Cleared(swipe'[g])
  BY <1>4, <1>5 DEF Cleared
<1>11. \A s \in Handlers : s \in recording' => Active(s)  BY <1>4 DEF Active
<1>12. Undisturbed'
  BY <1>4, <1>7, <1>8, <1>9, <1>10, <1>11, UndisturbedFrame DEF pins, history, settings, Orderly
<1> QED  BY <1>6, <1>12

\* What every step of a handler does.
LEMMA HandlerFacts ==
  ASSUME IInv, NEW h \in Handlers, Handler(h)
  PROVE  /\ traps' = traps /\ Started' = Started /\ UNCHANGED antipassback
         /\ at[h] \notin {"none", "done"}
         /\ \A g \in Handlers \ {h} : at'[g] = at[g] /\ swipe'[g] = swipe[g]
         /\ faults' = faults \/ faults' = faults + 1
<1>2. \A g \in Handlers \ {h} : at'[g] = at[g]
  BY DEF Handler, Update, swiped, interlocked, antipassbacked, keyed, digit, code, unlock,
     granted, Goto, denied, IInv, TypeOK, HandlersOK
<1>3. \A g \in Handlers \ {h} : swipe'[g] = swipe[g]
  BY DEF Handler, Update, swiped, interlocked, antipassbacked, keyed, digit, code, unlock,
     granted, IInv, TypeOK, HandlersOK
<1>4. traps' = traps /\ UNCHANGED antipassback /\ at[h] \notin {"none", "done"}
  BY DEF Handler, Update, swiped, interlocked, antipassbacked, keyed, digit, code, unlock,
     granted, settings
<1>5. faults' = faults \/ faults' = faults + 1
  BY DEF Handler, Update, swiped, interlocked, antipassbacked, keyed, digit, code, unlock,
     granted, Fault
<1> QED  BY <1>2, <1>3, <1>4, <1>5, TrapsKept
LEMMA MoveBegun ==
  ASSUME IInv, Begun, NEW h \in Handlers, Handler(h), at'[h] \in Undecided => at[h] \in Undecided,
         \A i \in 1 .. Len(passed') : \/ i \in 1 .. Len(passed) /\ passed'[i] = passed[i]
                                      \/ at'[passed'[i]] \notin Undecided,
         \A d \in Doors : \/ pending'[d] \in {None, pending[d]}
                          \/ at'[pending'[d]] \notin Undecided,
         at'[h] \in {"code", "unlock", "granted"} =>
           \/ at[h] \in {"code", "unlock", "granted"} /\ swipe'[h] = swipe[h]
           \/ at'[swipe'[h]] \notin Undecided
  PROVE  Begun'
<1>1. /\ Started' = Started /\ at[h] # "none"
      /\ \A g \in Handlers \ {h} : at'[g] = at[g] /\ swipe'[g] = swipe[g]
  BY HandlerFacts
<1>2. \A g \in Started : at'[g] \in Undecided => at[g] \in Undecided
  BY <1>1, TrapFacts DEF IInv, TypeOK
<1>3. \A g \in Handlers : at'[g] # "none" => at[g] # "none"  BY <1>1
<1>4. \A g \in Handlers : at'[g] \in {"code", "unlock", "granted"} =>
        \/ at[g] \in {"code", "unlock", "granted"} /\ swipe'[g] = swipe[g]
        \/ at'[swipe'[g]] \notin Undecided
  BY <1>1
<1> QED  BY <1>1, <1>2, <1>3, <1>4, BegunFrame

LEMMA HandlerBegun == ASSUME AInv, NEW h \in Handlers, Handler(h) PROVE Begun'
<1> USE DEF AInv, Undecided
<1>0. at \in [Handlers -> Places] /\ swipe \in [Handlers -> Handlers \cup {None}]
      /\ pending \in [Doors -> Handlers \cup {None}]
  BY DEF IInv, TypeOK, HandlersOK, PinsOK
<1>1. CASE Update(h) \/ digit(h)
  BY <1>0, <1>1, MoveBegun DEF Update, digit, Goto, pins, history
<1>2. CASE swiped(h)
  <2>1. /\ at[h] = "swipe" /\ passed' = passed /\ at'[h] \in {"interlock", "done"}
        /\ \A d \in Doors : pending'[d] \in {None, pending[d]}
    BY <1>0, <1>2 DEF swiped, Goto, Supersede
  <2> QED  BY <2>1, MoveBegun
<1>3. CASE interlocked(h)
  <2>1. /\ at[h] = "interlock" /\ passed' = passed /\ pending' = pending
        /\ at'[h] \in {"interlock", "passback", "done"}
    BY <1>0, <1>3 DEF interlocked, Goto, denied, pins
  <2> QED  BY <2>1, MoveBegun
<1>4. CASE antipassbacked(h)
  <2>1. /\ at[h] = "passback" /\ passed' = passed /\ swipe' = swipe
        /\ at'[h] \in {"unlock", "done"} /\ swipe[h] = h
        /\ \A d \in Doors : pending'[d] \in {h, pending[d]}
    BY <1>0, <1>4, SwipeOfHandler DEF antipassbacked, Goto, denied, pins, AwaitPIN
  <2> QED  BY <2>1, MoveBegun
<1>5. CASE keyed(h)
  <2>1. h \in Started /\ Door(h) \in Doors /\ at[h] = "keycode"
    BY <1>5, TrapFacts DEF keyed, IInv, TypeOK, Stage, Keying
  <2>2. /\ passed' = passed /\ pending' = pending /\ swipe'[h] = pending[Door(h)]
        /\ at'[h] = IF pending[Door(h)] = None THEN "done" ELSE "code"
    BY <1>0, <1>5 DEF keyed, Goto, pins, history
  <2>3. pending[Door(h)] # None =>
          pending[Door(h)] \in Handlers /\ at[pending[Door(h)]] \notin Undecided
    BY <2>1, PendingFacts DEF Begun
  <2>4. at'[h] \in {"code", "unlock", "granted"} => at'[swipe'[h]] \notin Undecided
    <3>1. \A g \in Handlers \ {h} : at'[g] = at[g]  BY <1>5, HandlerFacts
    <3> QED  BY <2>2, <2>3, <3>1
  <2> QED  BY <2>1, <2>2, <2>4, MoveBegun
<1>6. CASE code(h)
  <2>1. /\ at[h] = "code" /\ passed' = passed /\ swipe' = swipe /\ at'[h] \in {"unlock", "done"}
        /\ \A d \in Doors : pending'[d] \in {None, pending[d]}
    BY <1>0, <1>6 DEF code, Goto, denied
  <2> QED  BY <2>1, MoveBegun
<1>7. CASE unlock(h)
  <2> PICK s : s = swipe[h]  OBVIOUS
  <2>1. /\ at[h] = "unlock" /\ swipe' = swipe /\ pending' = pending
        /\ at'[h] \in {"granted", "done"}
        /\ passed' = passed \/ passed' = Append(passed, s)
    BY <1>0, <1>7 DEF unlock, Goto, denied, pins
  <2>2. s \in Handlers /\ at[s] \notin Undecided
    BY <2>1, SwipeOfHandler DEF Begun, Busy
  <2>3. at'[s] \notin Undecided
    <3>1. \A g \in Handlers \ {h} : at'[g] = at[g]  BY <1>7, HandlerFacts
    <3> QED  BY <2>1, <2>2, <3>1
  <2>4. \A i \in 1 .. Len(passed') : \/ i \in 1 .. Len(passed) /\ passed'[i] = passed[i]
                                     \/ passed'[i] = s
    BY <2>1, <2>2, PassedFacts, AppendFacts
  <2> QED  BY <2>1, <2>3, <2>4, MoveBegun
<1>8. CASE granted(h)
  BY <1>0, <1>8, MoveBegun DEF granted, Goto, pins
<1> QED  BY <1>1, <1>2, <1>3, <1>4, <1>5, <1>6, <1>7, <1>8 DEF Handler
\* A swipe begins in order only when nothing at all is going on.
LEMMA AlternatesSwiped == ASSUME AInv, NEW h \in Handlers, swiped(h) PROVE Undisturbed'
<1> SUFFICES ASSUME Orderly' PROVE (Alone /\ Newest /\ Recorded /\ Checked /\ Apart)'
  BY DEF Undisturbed
<1> USE DEF AInv
<1>1. /\ at[h] = "swipe" /\ traps' = traps /\ Supersede(Door(h))
      /\ at'[h] \in {"interlock", "done"} /\ \A g \in Handlers \ {h} : at'[g] = at[g]
      /\ UNCHANGED <<settings, swipe, last, recording, passed>>
  BY DEF swiped, Goto, IInv, TypeOK, HandlersOK
<1>2. /\ orderly /\ recording = {} /\ \A d \in Doors : pending[d] = None
      /\ \A g \in Started \ {h} : at[g] = "done"
  BY DEF swiped, Orderly
<1>3. \A g \in Handlers \ {h} : at[g] \in {"none", "done"}
  BY <1>2 DEF Begun
<1>4. \A d \in Doors : pending'[d] = None
  BY <1>1, <1>2 DEF Supersede, IInv, TypeOK, PinsOK
<1>5. Orderly
  <2>1. faults = 0
    BY CountedFault DEF Orderly, swiped, Fault, IInv, TypeOK, RecordsOK
  <2> QED  BY <1>2, <2>1 DEF Orderly
<1>6. swipe[h] = h  BY <1>1, SwipeOfHandler
<1>7. \A s \in Handlers : s # None  BY BoundsAssumption DEF Handlers, None
<1>8. \A s \in Handlers : (Active(s)' => s = h) /\ ~Cleared(s)' /\ ~Gone(s)' /\ ~Gone(s)
  BY <1>1, <1>2, <1>3, <1>4, <1>6, <1>7 DEF Active, Cleared, Gone, Busy
<1>9. Newest' /\ Recorded' /\ Apart'
  BY <1>1, <1>5, <1>8, TrapsKept, PassagesFrame DEF Undisturbed, settings
<1> QED  BY <1>8, <1>9 DEF Alone, Checked

\* A swipe is checked against what is recorded, and all that has passed is.
LEMMA AlternatesPassback == ASSUME AInv, NEW h \in Handlers, antipassbacked(h) PROVE Undisturbed'
<1> SUFFICES ASSUME Orderly' PROVE Undisturbed'
  BY DEF Undisturbed
<1> USE DEF AInv
<1>1. /\ at[h] = "passback" /\ traps' = traps
      /\ UNCHANGED <<settings, swipe, last, recording, passed, orderly>>
      /\ at'[h] \in {"unlock", "done"} /\ \A g \in Handlers \ {h} : at'[g] = at[g]
  BY DEF antipassbacked, Goto, denied, IInv, TypeOK, HandlersOK
<1>2. ~Fault /\ UNCHANGED faults
  <2>1. ~Fault  BY DEF Fault, Orderly, IInv, TypeOK, RecordsOK
  <2> QED  BY <2>1 DEF antipassbacked
<1>3. Orderly  BY <1>1, <1>2 DEF Orderly
<1>4. Alone /\ Newest /\ Recorded /\ Checked /\ Apart  BY <1>3 DEF Undisturbed
<1>5. CASE last[Card(h)] \notin Before(Door(h))
  BY <1>1, <1>2, <1>3, <1>5, MovesOn
     DEF antipassbacked, denied, Goto, pins, settings, Busy, IInv, TypeOK, HandlersOK
<1>6. CASE last[Card(h)] \in Before(Door(h))
  <2>1. swipe[h] = h /\ Active(h)
    BY <1>1, SwipeOfHandler DEF Active, Busy
  <2>2. \A d \in Doors : pending'[d] \in {h, pending[d]}
    BY DEF antipassbacked, AwaitPIN, pins, IInv, TypeOK, PinsOK
  <2>3. \A s \in Handlers : (Active(s)' => Active(s)) /\ (Cleared(s)' => Cleared(s) \/ s = h)
    BY <1>1, <2>1, <2>2 DEF Active, Cleared, Busy
  <2>4. \A s \in Handlers : Gone(s)' <=> Gone(s)  BY <1>1, GoneKept
  <2>5. \A s \in Started : Card(s)' = Card(s) /\ Door(s)' = Door(s)  BY <1>1, TrapsKept
  <2>6. Newest' /\ Recorded' /\ Apart'
    BY <1>1, <1>4, <2>4, <2>5, PassagesFrame DEF settings
  <2>7. Alone'  BY <1>4, <2>3 DEF Alone
  <2>8. ASSUME NEW i \in 1 .. Len(passed), Preceding(i, h)'
        PROVE  (Door(passed[i]) \in Before(Door(h)))'
    <3>1. \A s : Card(s)' = Card(s) /\ Door(s)' = Door(s)  BY <1>1, TrapsKept
    <3>2. /\ passed[i] # h /\ Card(passed[i]) = Card(h)
          /\ \A k \in i + 1 .. Len(passed) : Card(passed[k]) = Card(h) => passed[k] = h
      BY <1>1, <2>8, <3>1 DEF Preceding
    <3>3. \A k \in 1 .. Len(passed) : passed[k] \in Handlers /\ passed[k] # h
      BY <1>1, PassedFacts DEF Begun, Undecided
    <3>4. \A k \in i + 1 .. Len(passed) : k \in 1 .. Len(passed)  BY PassedFacts
    <3>5. Final(i)  BY <3>2, <3>3, <3>4 DEF Final
    <3>6. ~Gone(passed[i])
      <4>1. Gone(passed[i]) => Active(passed[i])  BY DEF Gone, Active, Busy
      <4> QED  BY <1>4, <2>1, <3>2, <3>3, <4>1 DEF Alone
    <3>7. Door(passed[i]) \in Before(Door(h))
      BY <1>4, <1>6, <3>2, <3>5, <3>6 DEF Recorded
    <3>8. \A d : Before(d)' = Before(d)  BY <1>1 DEF Before, settings
    <3>9. Door(passed[i])' = Door(passed[i])  BY <1>1 DEF Door
    <3> QED  BY <3>1, <3>7, <3>8, <3>9
  <2>9. ASSUME NEW s \in Handlers, Cleared(s)', NEW i \in 1 .. Len(passed), Preceding(i, s)'
        PROVE  (Door(passed[i]) \in Before(Door(s)))'
    BY <1>1, <1>4, <2>3, <2>5, <2>8, <2>9, CheckedKept DEF settings
  <2>10. Checked'  BY <1>1, <2>9 DEF Checked
  <2> QED  BY <2>6, <2>7, <2>10 DEF Undisturbed
<1> QED  BY <1>5, <1>6

\* The door is unlocked for the one swipe that is active.
LEMMA AlternatesUnlock == ASSUME AInv, NEW h \in Handlers, unlock(h) PROVE Undisturbed'
<1> SUFFICES ASSUME Orderly' PROVE Undisturbed'
  BY DEF Undisturbed
<1> USE DEF AInv
<1> PICK s : s = swipe[h]  OBVIOUS
<1> PICK n : n = Len(passed)  OBVIOUS
<1>1. /\ at[h] = "unlock" /\ traps' = traps /\ \A g \in Handlers \ {h} : at'[g] = at[g]
      /\ UNCHANGED <<settings, swipe, pins, last, recording, orderly>>
  BY DEF unlock, Goto, denied, IInv, TypeOK, HandlersOK
<1>2. ~Fault  BY DEF Fault, Orderly, IInv, TypeOK, RecordsOK
<1>3. UNCHANGED faults  BY <1>2 DEF unlock
<1>4. Orderly  BY <1>1, <1>3 DEF Orderly
<1>5. Alone /\ Newest /\ Recorded /\ Checked /\ Apart  BY <1>4 DEF Undisturbed
<1>6. CASE denied(h, s) /\ UNCHANGED passed
  <2>1. at'[h] = "done"  BY <1>6 DEF denied, Goto, IInv, TypeOK, HandlersOK
  <2> QED  BY <1>1, <1>4, <1>6, <2>1, MovesOn DEF pins, settings, Busy
<1>7. CASE Goto(h, "granted") /\ passed' = Append(passed, s)
  <2>1. at'[h] = "granted"  BY <1>7 DEF Goto, IInv, TypeOK, HandlersOK
  <2>2. s \in Handlers /\ Active(s) /\ Cleared(s)
    BY <1>1, SwipeOfHandler DEF Active, Cleared, Busy
  <2>3. /\ n \in Nat /\ Len(passed') = n + 1 /\ passed'[n + 1] = s
        /\ \A i \in 1 .. n : passed'[i] = passed[i] /\ passed[i] \in Handlers
    BY <1>7, <2>2, PassedFacts, AppendFacts
  <2>4. \A t : Card(t)' = Card(t) /\ Door(t)' = Door(t)  BY <1>1, TrapsKept
  <2>5. \A d : Before(d)' = Before(d)  BY <1>1 DEF Before, settings
  <2>6. \A t \in Handlers : /\ Active(t)' => Active(t)
                            /\ Cleared(t)' => Active(t)
                            /\ Gone(t)' => Active(t)
                            /\ Gone(t) => Gone(t)'
    BY <1>1, <2>1 DEF Active, Cleared, Gone, Busy, pins
  <2>7. \A t \in Handlers : Active(t) => t = s  BY <1>5, <2>2 DEF Alone
  <2>8. Alone'  BY <2>6, <2>7 DEF Alone
  <2>9. Newest'  BY <2>3, <2>6, <2>7 DEF Newest
  <2>10. Gone(s)'  BY <1>1, <2>1 DEF Gone
  <2>11. ASSUME NEW i \in 1 .. n + 1, Final(i)'
         PROVE  (last[Card(passed[i])] = Door(passed[i]) \/ Gone(passed[i]))'
    <3>1. CASE i = n + 1
      BY <2>3, <2>10, <3>1 DEF Gone
    <3>2. CASE i \in 1 .. n
      <4>1. \A k \in i + 1 .. n : k \in i + 1 .. n + 1 /\ k \in 1 .. n
        BY <2>3, <3>2
      <4>2. \A k \in i + 1 .. n + 1 : Card(passed'[k]) # Card(passed'[i])
        BY <2>3, <2>4, <2>11 DEF Final, Card
      <4>3. Final(i)  BY <2>3, <3>2, <4>1, <4>2 DEF Final
      <4>4. last[Card(passed[i])] = Door(passed[i]) \/ Gone(passed[i])
        BY <1>5, <3>2, <4>3 DEF Recorded
      <4>5. Gone(passed[i]) => Gone(passed[i])'
        BY <2>3, <2>6, <3>2 DEF Gone
      <4>6. /\ passed'[i] = passed[i] /\ last' = last
            /\ Card(passed[i])' = Card(passed[i]) /\ Door(passed[i])' = Door(passed[i])
        BY <1>1, <2>3, <3>2 DEF Card, Door
      <4> QED  BY <4>4, <4>5, <4>6
    <3> QED  BY <2>3, <3>1, <3>2
  <2>12. Recorded'  BY <2>3, <2>11 DEF Recorded
  <2>13. ASSUME NEW i \in 1 .. n, passed[i] # s, Card(passed[i]) = Card(s),
                \A k \in i + 1 .. n : Card(passed[k]) = Card(s) => passed[k] = s
         PROVE  (Door(passed[i]) \in Before(Door(s)))'
    <3>1. Preceding(i, s)  BY <2>13 DEF Preceding
    <3>2. Door(passed[i]) \in Before(Door(s))  BY <1>5, <2>2, <2>13, <3>1 DEF Checked
    <3>3. Door(passed[i])' = Door(passed[i])  BY <1>1, <2>3 DEF Door
    <3> QED  BY <2>4, <2>5, <3>2, <3>3
  <2>14. ASSUME NEW t \in Handlers, Cleared(t)', NEW i \in 1 .. n + 1, Preceding(i, t)'
         PROVE  (Door(passed[i]) \in Before(Door(t)))'
    <3>1. t = s  BY <2>6, <2>7, <2>14
    <3>2. /\ passed'[i] # s /\ Card(passed'[i]) = Card(s)
          /\ \A k \in i + 1 .. n + 1 : Card(passed'[k]) = Card(s) => passed'[k] = s
      BY <1>1, <2>3, <2>14, <3>1 DEF Preceding, Card
    <3>3. i \in 1 .. n  BY <2>3, <3>2
    <3>4. \A k \in i + 1 .. n : k \in i + 1 .. n + 1 /\ k \in 1 .. n  BY <2>3, <3>3
    <3>5. (Door(passed[i]) \in Before(Door(s)))'
      BY <2>3, <2>13, <3>2, <3>3, <3>4
    <3> QED  BY <3>1, <3>5
  <2>15. Checked'  BY <2>3, <2>14 DEF Checked
  <2>16. ASSUME NEW i \in 1 .. n + 1, NEW j \in 1 .. n + 1, Successive(i, j)'
         PROVE  (Door(passed[i]) \in Before(Door(passed[j])))'
    <3>1. /\ i < j /\ passed'[i] # passed'[j] /\ Card(passed'[i]) = Card(passed'[j])
          /\ \A k \in i + 1 .. j - 1 : Card(passed'[k]) # Card(passed'[i])
      BY <1>1, <2>16 DEF Successive, Card
    <3>2. i \in 1 .. n /\ \A k \in i + 1 .. j - 1 : k \in 1 .. n
      BY <2>3, <3>1
    <3>3. CASE j \in 1 .. n
      <4>1. Successive(i, j)  BY <2>3, <3>1, <3>2, <3>3 DEF Successive
      <4>2. Door(passed[i]) \in Before(Door(passed[j]))  BY <1>5, <3>2, <3>3, <4>1 DEF Apart
      <4>3. /\ Door(passed[i])' = Door(passed[i]) /\ Door(passed[j])' = Door(passed[j])
        BY <1>1, <2>3, <3>2, <3>3 DEF Door
      <4> QED  BY <2>5, <4>2, <4>3
    <3>4. CASE j = n + 1
      <4>1. passed'[j] = s  BY <2>3, <3>4
      <4>2. \A k \in i + 1 .. n : k \in i + 1 .. j - 1 /\ k \in 1 .. n  BY <2>3, <3>2, <3>4
      <4>3. (Door(passed[i]) \in Before(Door(s)))'
        <5>1. \A k \in i + 1 .. n : Card(passed[k]) # Card(passed[i])
          BY <2>3, <3>1, <4>2
        <5>2. passed[i] # s /\ Card(passed[i]) = Card(s)  BY <2>3, <3>1, <3>2, <4>1
        <5> QED  BY <2>13, <3>2, <5>1, <5>2
      <4>4. Door(passed[j])' = Door(s)'  BY <4>1 DEF Door
      <4> QED  BY <4>3, <4>4
    <3> QED  BY <2>3, <3>3, <3>4
  <2>17. Apart'  BY <2>3, <2>16 DEF Apart
  <2> QED  BY <2>8, <2>9, <2>12, <2>15, <2>17 DEF Undisturbed
<1> QED  BY <1>2, <1>6, <1>7 DEF unlock

\* The swipe goes over from its handler to the goroutine that records it.
LEMMA AlternatesGranted == ASSUME AInv, NEW h \in Handlers, granted(h) PROVE Undisturbed'
<1> USE DEF AInv
<1>1. /\ at[h] = "granted" /\ at'[h] = "done" /\ traps' = traps /\ swipe' = swipe
      /\ \A g \in Handlers \ {h} : at'[g] = at[g]
      /\ pending' = pending /\ recording' = recording \cup {swipe[h]}
      /\ UNCHANGED <<passed, last, antipassback, orderly, faults>>
  BY DEF granted, Goto, pins, settings, IInv, TypeOK, HandlersOK
<1>2. \A s \in Handlers : Gone(s)' <=> Gone(s)  BY <1>1 DEF Gone
<1>3. \A s \in Handlers : s \in recording' => Active(s)  BY <1>1 DEF Active, Busy
<1>4. \A g \in Handlers : at'[g] \in Busy => Active(swipe'[g])  BY <1>1 DEF Active, Busy
<1>5. \A g \in Handlers : at'[g] \in {"code", "unlock"} => Cleared(swipe'[g])
  BY <1>1 DEF Cleared
<1> QED  BY <1>1, <1>2, <1>3, <1>4, <1>5, TrapsKept, UndisturbedFrame DEF Orderly

\* The last passage of the card is recorded.
LEMMA AlternatesPutSwipe == ASSUME AInv, NEW s \in Handlers, PutSwipe(s) PROVE Undisturbed'
<1> SUFFICES ASSUME Orderly' PROVE (Alone /\ Newest /\ Recorded /\ Checked /\ Apart)'
  BY DEF Undisturbed
<1> USE DEF AInv
<1> PICK n : n = Len(passed)  OBVIOUS
<1>1. /\ s \in recording /\ recording' = recording \ {s} /\ traps' = traps
      /\ UNCHANGED <<at, swipe, pending, passed, antipassback, orderly>>
  BY DEF PutSwipe, threads, pins, history, settings
<1>2. last' = [last EXCEPT ![Card(s)] = Door(s)] /\ UNCHANGED faults
  <2>1. ~Fault  BY DEF Fault, Orderly, IInv, TypeOK, RecordsOK
  <2> QED  BY <2>1 DEF PutSwipe
<1>3. Alone /\ Newest /\ Recorded /\ Checked /\ Apart
  BY <1>1, <1>2 DEF Undisturbed, Orderly
<1>4. \A t : Card(t)' = Card(t) /\ Door(t)' = Door(t)  BY <1>1, TrapsKept
<1>5. Card(s) \in Cards  BY <1>1, SwipeFacts DEF IInv, TypeOK, RecordsOK
<1>6. \A t \in Handlers : /\ Active(t)' => Active(t)
                          /\ Cleared(t)' => Cleared(t)
                          /\ Gone(t)' => Gone(t)
                          /\ Gone(t) => Active(t)
  BY <1>1 DEF Active, Cleared, Gone, Busy
<1>7. Gone(s) /\ \A t \in Handlers : Gone(t) => t = s
  BY <1>1, <1>3, <1>6 DEF Gone, Alone
<1>8. n \in Nat /\ n > 0 /\ passed[n] = s  BY <1>3, <1>7, PassedFacts DEF Newest
<1>9. Alone'  BY <1>3, <1>6 DEF Alone
<1>10. Newest'  BY <1>1, <1>3, <1>6 DEF Newest
<1>11. ASSUME NEW i \in 1 .. n, Final(i)' PROVE last'[Card(passed[i])] = Door(passed[i])
  <2>1. Final(i)  BY <1>1, <1>11 DEF Final, Card
  <2>2. passed[i] \in Handlers  BY PassedFacts
  <2>3. CASE Card(passed[i]) = Card(s)
    <3>1. i = n
      <4>1. n \notin i + 1 .. n  BY <1>8, <2>1, <2>3 DEF Final
      <4> QED  BY <1>8, <4>1
    <3> QED  BY <1>2, <1>5, <1>8, <3>1 DEF IInv, TypeOK, RecordsOK
  <2>4. CASE Card(passed[i]) # Card(s)
    <3>1. passed[i] # s  BY <2>4
    <3>2. last[Card(passed[i])] = Door(passed[i])
      BY <1>3, <1>7, <2>1, <2>2, <3>1 DEF Recorded
    <3>3. Card(passed[i]) \in Cards
      BY SwipeFacts DEF IInv, TypeOK, Passed, Allowed
    <3> QED  BY <1>2, <2>4, <3>2, <3>3 DEF IInv, TypeOK, RecordsOK
  <2> QED  BY <2>3, <2>4
<1>12. Recorded'
  <2>1. ASSUME NEW i \in 1 .. n, Final(i)'
        PROVE  (last[Card(passed[i])] = Door(passed[i]) \/ Gone(passed[i]))'
    BY <1>1, <1>11, <2>1 DEF Card, Door
  <2> QED  BY <1>1, <2>1 DEF Recorded
<1>13. ASSUME NEW t \in Handlers, Cleared(t)', NEW i \in 1 .. n, Preceding(i, t)'
       PROVE  (Door(passed[i]) \in Before(Door(t)))'
  BY <1>1, <1>3, <1>4, <1>6, <1>13, CheckedKept
<1>14. Checked'  BY <1>1, <1>13 DEF Checked
<1>15. Apart'
  <2>1. \A d : Before(d)' = Before(d)  BY <1>1 DEF Before
  <2>2. \A i, j : Successive(i, j)' => Successive(i, j)  BY <1>1 DEF Successive, Card
  <2>3. \A i : Door(passed[i])' = Door(passed[i])  BY <1>1 DEF Door
  <2> QED  BY <1>1, <1>3, <2>1, <2>2, <2>3 DEF Apart
<1> QED  BY <1>9, <1>10, <1>12, <1>14, <1>15

\* The other steps of a handler move it on within what its swipe was.
LEMMA AlternatesHandler == ASSUME AInv, NEW h \in Handlers, Handler(h) PROVE Undisturbed'
<1> USE DEF AInv
<1>0. /\ at \in [Handlers -> Places] /\ swipe \in [Handlers -> Handlers \cup {None}]
      /\ pending \in [Doors -> Handlers \cup {None}]
  BY DEF IInv, TypeOK, HandlersOK, PinsOK
<1>1. /\ traps' = traps /\ UNCHANGED antipassback
      /\ \A g \in Handlers \ {h} : at'[g] = at[g] /\ swipe'[g] = swipe[g]
  BY HandlerFacts
<1>2. CASE Update(h) \/ digit(h)
  <2>1. /\ at[h] \in {"state", "code"} /\ at'[h] = "done" /\ pending' = pending
        /\ UNCHANGED <<passed, last, recording, orderly, faults>>
    BY <1>0, <1>2 DEF Update, digit, Goto, pins, history
  <2> QED  BY <1>1, <2>1, MovesOn DEF Busy, Orderly
<1>3. CASE interlocked(h)
  <2>1. /\ at[h] = "interlock" /\ at'[h] \in {"interlock", "passback", "done"}
        /\ swipe' = swipe /\ pending' = pending
        /\ UNCHANGED <<passed, last, recording, orderly, faults>>
    BY <1>0, <1>3 DEF interlocked, Goto, denied, pins
  <2>2. Active(swipe[h])  BY <2>1 DEF Active, Busy
  <2> QED  BY <1>1, <2>1, <2>2, MovesOn DEF Orderly
<1>4. CASE keyed(h)
  <2>1. h \in Started /\ Door(h) \in Doors /\ at[h] = "keycode"
    BY <1>4, TrapFacts DEF keyed, IInv, TypeOK, Stage, Keying
  <2>2. /\ pending' = pending /\ swipe'[h] = pending[Door(h)]
        /\ at'[h] = IF pending[Door(h)] = None THEN "done" ELSE "code"
        /\ UNCHANGED <<passed, last, recording, orderly, faults>>
    BY <1>0, <1>4 DEF keyed, Goto, pins, history
  <2>3. Active(pending[Door(h)]) /\ Cleared(pending[Door(h)])
    BY <2>1 DEF Active, Cleared
  <2> QED  BY <1>1, <2>1, <2>2, <2>3, MovesOn DEF Orderly, Busy
<1>5. CASE code(h)
  <2>1. /\ at[h] = "code" /\ at'[h] \in {"unlock", "done"} /\ swipe' = swipe
        /\ \A d \in Doors : pending'[d] \in {None, pending[d]}
        /\ UNCHANGED <<passed, last, recording, orderly, faults>>
    BY <1>0, <1>5 DEF code, Goto, denied
  <2>2. Active(swipe[h]) /\ Cleared(swipe[h])  BY <2>1 DEF Active, Cleared, Busy
  <2> QED  BY <1>1, <2>1, <2>2, MovesOn DEF Orderly
<1> QED
  BY <1>2, <1>3, <1>4, <1>5, AlternatesSwiped, AlternatesPassback, AlternatesUnlock,
     AlternatesGranted DEF Handler

\* Between the steps of handlers: a timer fires, or nothing that matters changes.
LEMMA AlternatesIdle ==
  ASSUME AInv, traps' = traps, UNCHANGED <<antipassback, at, swipe, pending, last, recording>>,
         UNCHANGED <<passed, orderly, faults>>
  PROVE  Begun' /\ Undisturbed'
<1> USE DEF AInv
<1>1. Started' = Started  BY TrapsKept
<1>2. Begun'  BY <1>1 DEF Begun
<1>3. \A s \in Handlers : Gone(s)' <=> Gone(s)  BY DEF Gone
<1>4. \A s \in Handlers : s \in recording' => Active(s)  BY DEF Active
<1>5. \A g \in Handlers : at'[g] \in Busy => Active(swipe'[g])  BY DEF Active
<1>6. \A g \in Handlers : at'[g] \in {"code", "unlock"} => Cleared(swipe'[g])  BY DEF Cleared
<1> QED  BY <1>2, <1>3, <1>4, <1>5, <1>6, TrapsKept, UndisturbedFrame DEF Orderly

LEMMA InitAInv == Init => AInv
<1> SUFFICES ASSUME Init PROVE Begun /\ Undisturbed  BY InitIInv DEF AInv
<1>1. Len(passed) = 0  BY DEF Init
<1>2. Begun  BY <1>1 DEF Init, Begun
<1>3. \A s \in Handlers : ~Active(s) /\ ~Cleared(s) /\ ~Gone(s)
  BY BoundsAssumption DEF Init, Active, Cleared, Gone, Busy, Handlers, None
<1>4. Undisturbed
  BY <1>1, <1>3 DEF Undisturbed, Alone, Newest, Recorded, Checked, Apart
<1> QED  BY <1>2, <1>4

LEMMA StepAInv == AInv /\ [Next]_vars => AInv'
<1> SUFFICES ASSUME AInv, [Next]_vars PROVE Begun' /\ Undisturbed'
  BY StepIInv DEF AInv
<1>1. CASE \E kind \in DOMAIN About, d \in Doors : \E what \in About[kind] : Trap(kind, d, what)
  BY <1>1, AlternatesTrap
<1>2. ASSUME NEW h \in Handlers, Handler(h) PROVE Begun' /\ Undisturbed'
  BY <1>2, HandlerBegun, AlternatesHandler
<1>3. ASSUME NEW h \in Handlers, timeout(h) PROVE Begun' /\ Undisturbed'
  BY <1>3, AlternatesIdle DEF timeout, threads, settings
<1>4. ASSUME NEW h \in Handlers, PutSwipe(h) PROVE Begun' /\ Undisturbed'
  <2>1. /\ traps' = traps /\ UNCHANGED <<at, swipe, pending, passed>>
    BY <1>4 DEF PutSwipe, threads, pins, history
  <2>2. Begun'  BY <2>1, TrapsKept DEF AInv, Begun
  <2> QED  BY <1>4, <2>2, AlternatesPutSwipe
<1>5. CASE Restart
  <2>1. /\ traps' = traps /\ passed' = passed /\ pending' = [d \in Doors |-> None]
        /\ at' = [h \in Handlers |-> IF at[h] = "none" THEN "none" ELSE "done"]
        /\ faults' = faults + 1
    BY <1>5 DEF Restart, Fault
  <2>2. /\ \A h \in Handlers : at'[h] \in {"none", "done"} /\ (at'[h] # "none" => at[h] # "none")
    BY <2>1
  <2>3. Begun'
    BY <2>1, <2>2, TrapsKept, PassedFacts DEF AInv, Begun, Undecided
  <2>4. ~Orderly'  BY <2>1 DEF Orderly, AInv, IInv, TypeOK, RecordsOK
  <2> QED  BY <2>3, <2>4 DEF Undisturbed
<1>6. CASE UNCHANGED vars
  BY <1>6, AlternatesIdle DEF vars, settings, threads, pins, history
<1> QED  BY <1>1, <1>2, <1>3, <1>4, <1>5, <1>6 DEF Next

\* The anti-passback of swipe.go works as long as swipes do not overlap and no
\* call fails: what antipassbacked() checked is still the last passage of the card
\* when keyCode() or swipe() unlocks the door, so a card never passes the same side
\* twice in a row, whatever the cards, doors, settings and delays.
THEOREM SidesAlternate == Spec => []Alternates
<1>1. Spec => []AInv  BY InitAInv, StepAInv, PTL DEF Spec
<1>2. ASSUME AInv PROVE Alternates
  <2> SUFFICES ASSUME Orderly, NEW i \in 1 .. Len(passed), NEW j \in 1 .. Len(passed),
                      Successive(i, j), NEW side \in Sides,
                      {Door(passed[i]), Door(passed[j])} \subseteq side
               PROVE  FALSE
    BY DEF Alternates, Orderly
  <2>1. antipassback \in {"none", "12_34", "13_24", "1_23", "1_234"}
    BY <1>2, SettingsAssumption DEF AInv, IInv, TypeOK, SettingsOK
  <2>2. Door(passed[i]) \in Before(Door(passed[j]))
    BY <1>2 DEF AInv, Undisturbed, Apart
  <2>3. Before(Door(passed[j])) \cap side = {}  BY <2>1, SidesAgree
  <2> QED  BY <2>2, <2>3
<1> QED  BY <1>1, <1>2, PTL
================================================================================
