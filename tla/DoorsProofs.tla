------------------------------ MODULE DoorsProofs ------------------------------
(***************************************************************************)
(* Theorems about the doors.  Their contacts and buttons (U3): for any     *)
(* inputs, any coefficients whose sum is 1.0 and any thresholds on the two *)
(* sides of 0.5 that are Spacing apart.  Their locks (Doors): for any      *)
(* interlocks and modes and any number of requests, interrupts and resets. *)
(***************************************************************************)
EXTENDS Doors, U3, WellFoundedInduction, TLAPS

USE FilterAssumption, ThresholdAssumption, BoundsAssumption

-----------------------------------------------------------------------------
(***************************************************************************)
(* The filter.                                                             *)
(***************************************************************************)
LEMMA Product ==
  ASSUME NEW a \in Nat, NEW b \in Nat, NEW c \in Nat, a <= b
  PROVE  c * a <= c * b /\ c * a \in Nat /\ c * b \in Nat
  OBVIOUS

LEMMA Division ==
  ASSUME NEW n \in Nat, NEW d \in Nat \ {0}
  PROVE  n \div d \in Nat /\ (n \div d) * d <= n /\ n < (n \div d + 1) * d
  OBVIOUS

LEMMA Cancel ==
  ASSUME NEW a \in Int, NEW b \in Int, NEW d \in Nat \ {0}, a * d < b * d
  PROVE  a < b
  OBVIOUS

Past(v) == (Decay * v) \div Scale

\* The share of the past in a filter.
LEMMA PastBounds ==
  ASSUME NEW v \in 0 .. Scale
  PROVE  /\ Past(v) \in 0 .. Decay
         /\ v <= High => Past(v) + Gain <= High
         /\ v >= Low => Low <= Past(v) + Gain
<1>1. Decay * v \in Nat /\ Decay * v <= Decay * Scale
  BY Product
<1>2. /\ Past(v) \in Nat /\ Past(v) * Scale <= Decay * v
      /\ Decay * v < (Past(v) + 1) * Scale
  BY <1>1, Division DEF Past
<1> HIDE DEF Past
<1>3. Past(v) <= Decay
  <2>1. Past(v) * Scale < (Decay + 1) * Scale
    BY <1>1, <1>2
  <2> QED
    BY <1>2, <2>1, Cancel
<1>4. ASSUME v <= High PROVE Past(v) + Gain <= High
  <2>1. Decay * v <= Decay * High
    BY <1>4, Product
  <2>2. Decay * High = Scale * High - 2 * (Gain * High)
    OBVIOUS
  <2>3. Gain * Scale <= 2 * (Gain * High)
    <3>1. Gain * Scale <= Gain * (2 * High)
      BY Product
    <3> QED
      BY <3>1
  <2>4. Past(v) * Scale < (High - Gain + 1) * Scale
    BY <1>2, <2>1, <2>2, <2>3
  <2>5. Past(v) < High - Gain + 1
    BY <1>2, <2>4, Cancel
  <2> QED
    BY <1>2, <2>5
<1>5. ASSUME v >= Low PROVE Low <= Past(v) + Gain
  <2>1. Decay * Low <= Decay * v
    BY <1>5, Product
  <2>2. Decay * Low = Scale * Low - 2 * (Gain * Low)
    OBVIOUS
  <2>3. 2 * (Gain * Low) <= Gain * Scale
    <3>1. Gain * (2 * Low) <= Gain * Scale
      BY Product
    <3> QED
      BY <3>1
  <2>4. (Low - Gain) * Scale < (Past(v) + 1) * Scale
    BY <1>2, <2>1, <2>2, <2>3
  <2>5. Low - Gain < Past(v) + 1
    BY <1>2, <2>4, Cancel
  <2> QED
    BY <1>2, <2>5
<1> QED
  BY <1>2, <1>3, <1>4, <1>5

\* Between two states a filter has not gone beyond the threshold that would
\* have changed the state.
Lagging == \A i \in Inputs : IF i \in inputs THEN y[i] >= Low ELSE y[i] <= High

IInv == TypeOK /\ Lagging /\ EventsFollow

LEMMA FilterBounds ==
  ASSUME TypeOK, Lagging, NEW i \in Inputs
  PROVE  /\ lpf(i) \in 0 .. Scale
         /\ lpf(i) > High /\ i \notin inputs => i \in level
         /\ lpf(i) < Low /\ i \in inputs => i \notin level
<1>1. lpf(i) = Gain * (Sampled(i) + x[i]) + Past(y[i])
  BY DEF lpf, Past
<1>2. y[i] \in 0 .. Scale /\ x[i] \in {0, 1} /\ Sampled(i) \in {0, 1}
  BY DEF TypeOK, Sampled
<1>3. /\ Past(y[i]) \in 0 .. Decay
      /\ y[i] <= High => Past(y[i]) + Gain <= High
      /\ y[i] >= Low => Low <= Past(y[i]) + Gain
  BY <1>2, PastBounds
<1>4. Gain * 0 = 0 /\ Gain * 1 = Gain /\ Gain * 2 = Gain + Gain
  OBVIOUS
<1> HIDE DEF lpf, Past
<1>5. lpf(i) \in 0 .. Scale
  BY <1>1, <1>2, <1>3, <1>4
<1>6. ASSUME i \notin level, i \notin inputs PROVE lpf(i) <= High
  BY <1>1, <1>2, <1>3, <1>4, <1>6 DEF Lagging, Sampled
<1>7. ASSUME i \in level, i \in inputs PROVE lpf(i) >= Low
  BY <1>1, <1>2, <1>3, <1>4, <1>7 DEF Lagging, Sampled
<1> QED
  BY <1>5, <1>6, <1>7

-----------------------------------------------------------------------------
(***************************************************************************)
(* The inductive invariant.                                                *)
(***************************************************************************)
LEMMA InitIInv == Init => IInv
  BY DEF Init, IInv, TypeOK, Lagging, EventsFollow

LEMMA ProcessIInv ==
  ASSUME IInv, U3_process
  PROVE  IInv'
<1> USE DEF IInv
<1>1. \A i \in Inputs : lpf(i) \in 0 .. Scale
  BY FilterBounds
<1>2. /\ x' \in [Inputs -> {0, 1}] /\ y' \in [Inputs -> 0 .. Scale]
      /\ \A i \in Inputs : y'[i] = lpf(i)
  BY <1>1 DEF U3_process, Sampled
<1>3. inputs' = Filtered /\ inputs' \subseteq Inputs
  BY DEF U3_process, Filtered
<1>4. Lagging'
  <2> SUFFICES ASSUME NEW i \in Inputs PROVE (IF i \in inputs' THEN y'[i] >= Low ELSE y'[i] <= High)
    BY DEF Lagging
  <2>1. i \in inputs' <=> lpf(i) > High \/ (i \in inputs /\ lpf(i) >= Low)
    BY <1>3 DEF Filtered
  <2>2. lpf(i) \in 0 .. Scale /\ y'[i] = lpf(i)
    BY <1>1, <1>2
  <2> HIDE DEF lpf
  <2> QED
    BY <2>1, <2>2
<1> DEFINE flipped == (inputs \ inputs') \cup (inputs' \ inputs)
<1>5. PICK refused \in SUBSET flipped :
        /\ announced' = [i \in Inputs |->
                           IF i \in flipped \ refused THEN Event(i) ELSE announced[i]]
        /\ syserr' = Raised(refused)
  BY DEF U3_process
<1>6. flipped \subseteq Inputs
  BY <1>3 DEF TypeOK
<1>7. since' \in [Inputs -> 0 .. Spacing]
  <2>1. since' = [i \in Inputs |-> IF i \in flipped THEN 0
                                   ELSE IF since[i] < Spacing THEN since[i] + 1
                                   ELSE Spacing]
    BY DEF U3_process
  <2> HIDE DEF flipped
  <2> QED
    BY <2>1 DEF TypeOK
<1>8. /\ level' \subseteq Inputs /\ boots' \in Nat
      /\ known' = known \ flipped /\ known' \subseteq Inputs
      /\ announced' \in [Inputs -> {"none", "open", "closed"}]
      /\ syserr' \subseteq {"queue", "restart"}
  BY <1>5, <1>6 DEF U3_process, TypeOK, Event, Raised
<1>9. TypeOK'
  BY <1>2, <1>3, <1>7, <1>8 DEF TypeOK
<1>10. EventsFollow'
  <2> SUFFICES ASSUME syserr' \cap {"queue", "restart"} = {}, NEW i \in Mistaken'
               PROVE  i \in known'
    BY DEF EventsFollow
  <2>1. refused = {} /\ syserr' = syserr
    BY <1>5 DEF Raised
  <2>2. Mistaken \subseteq known
    BY <2>1 DEF EventsFollow
  <2>3. CASE i \in flipped
    <3>1. announced'[i] = Event(i) /\ i \in Inputs
      BY <1>5, <1>6, <2>1, <2>3
    <3> QED
      BY <3>1 DEF Mistaken, Event
  <2>4. CASE i \notin flipped
    <3>1. i \in Inputs /\ announced'[i] = announced[i] /\ (i \in inputs <=> i \in inputs')
      BY <1>5, <2>4 DEF Mistaken
    <3>2. i \in Mistaken
      BY <3>1 DEF Mistaken
    <3> QED
      BY <1>8, <2>2, <2>4, <3>2
  <2> QED
    BY <2>3, <2>4
<1> QED
  BY <1>4, <1>9, <1>10

LEMMA StepIInv == IInv /\ [Next]_vars => IInv'
<1> SUFFICES ASSUME IInv, [Next]_vars PROVE IInv'
  OBVIOUS
<1> USE DEF IInv
<1>1. ASSUME NEW i \in Inputs, Contact(i) PROVE IInv'
  BY <1>1 DEF Contact, TypeOK, Lagging, EventsFollow, Mistaken, filters, events
<1>2. CASE Reboot
  BY <1>2 DEF Reboot, TypeOK, Lagging, EventsFollow
<1>3. CASE UNCHANGED vars
  BY <1>3 DEF vars, filters, events, TypeOK, Lagging, EventsFollow, Mistaken
<1>4. CASE U3_read
  BY <1>4 DEF U3_read, filters, TypeOK, Lagging, EventsFollow
<1>5. CASE clear_errors
  BY <1>5 DEF clear_errors, filters, TypeOK, Lagging, EventsFollow, Mistaken
<1> QED
  BY <1>1, <1>2, <1>3, <1>4, <1>5, ProcessIInv DEF Next

THEOREM U3Invariance == Spec => []IInv
  BY InitIInv, StepIInv, PTL DEF Spec

\* The filters stay between 0.0 and 1.0, whatever is sampled.
THEOREM FiltersBounded == Spec => []TypeOK
<1>1. IInv => TypeOK
  BY DEF IInv
<1> QED
  BY <1>1, U3Invariance, PTL

\* For any inputs, and whatever is refused, reset and cleared: if the host is
\* mistaken about an input, an error tells so or told so when it was cleared.
THEOREM EventsTellState == Spec => []EventsFollow
<1>1. IInv => EventsFollow
  BY DEF IInv
<1> QED
  BY <1>1, U3Invariance, PTL

\* The thresholds are far enough apart that the filter's memory never changes
\* an input against its present level.
THEOREM NeverLate == Spec => FlipsToLevel
<1>1. ASSUME IInv, [Next]_vars, boots' = boots, NEW i \in Inputs
      PROVE  /\ i \in inputs' \ inputs => i \in level
             /\ i \in inputs \ inputs' => i \notin level
  <2>1. CASE U3_process
    <3>1. i \in inputs' <=> lpf(i) > High \/ (i \in inputs /\ lpf(i) >= Low)
      BY <2>1 DEF U3_process, Filtered
    <3>2. /\ lpf(i) \in 0 .. Scale
          /\ lpf(i) > High /\ i \notin inputs => i \in level
          /\ lpf(i) < Low /\ i \in inputs => i \notin level
      BY <1>1, FilterBounds DEF IInv
    <3> HIDE DEF lpf
    <3> QED
      BY <3>1, <3>2
  <2>2. CASE Reboot
    BY <1>1, <2>2 DEF Reboot, IInv, TypeOK
  <2>3. CASE UNCHANGED inputs
    BY <2>3
  <2> QED
    BY <1>1, <2>1, <2>2, <2>3 DEF Next, Contact, U3_read, clear_errors, vars
<1>2. IInv /\ [Next]_vars =>
        [boots' = boots => \A i \in Inputs : /\ i \in inputs' \ inputs => i \in level
                                             /\ i \in inputs \ inputs' => i \notin level]_vars
  BY <1>1
<1> QED
  BY <1>2, U3Invariance, PTL DEF Spec, FlipsToLevel

-----------------------------------------------------------------------------
(***************************************************************************)
(* Induction, with a set of numbers for the property.                      *)
(***************************************************************************)
LEMMA Induction ==
  ASSUME NEW S \in SUBSET Nat, 0 \in S, \A n \in S : n + 1 \in S
  PROVE  S = Nat
<1> DEFINE R == {ss \in Nat \X Nat : ss[1] < ss[2]}
<1>1. IsWellFoundedOn(R, Nat)
  BY NatLessThanWellFounded DEF OpToRel
<1>2. \A p \in Nat : p # 0 => <<p - 1, p>> \in R /\ p - 1 \in Nat
  OBVIOUS
<1> HIDE DEF R
<1>3. ASSUME Nat \ S # {} PROVE FALSE
  <2>1. PICK p \in Nat \ S : \A q \in Nat \ S : <<q, p>> \notin R
    BY <1>1, <1>3, WFMin
  <2>2. p \in Nat /\ p # 0 /\ (p - 1) + 1 = p
    BY <2>1
  <2>3. p - 1 \in S
    BY <1>2, <2>1, <2>2
  <2> QED
    BY <2>1, <2>2, <2>3
<1> QED
  BY <1>3

\* A function can be defined step by step: F starts with x0, and G[i] makes F[i]
\* of the value before it.
Stepwise(G, n, X) == G \in [1 .. n -> [X -> X]]
Unfolds(F, G, n, X, x0) ==
  F \in [0 .. n -> X] /\ F[0] = x0 /\ \A i \in 1 .. n : F[i] = G[i][F[i - 1]]

LEMMA Recursion ==
  ASSUME NEW n \in Nat, NEW X, NEW x0 \in X, NEW G, Stepwise(G, n, X)
  PROVE  \E F : Unfolds(F, G, n, X, x0)
<1>0. G \in [1 .. n -> [X -> X]]
  BY DEF Stepwise
<1> DEFINE Up(F, k) == F \in [0 .. k -> X] /\ F[0] = x0 /\ \A i \in 1 .. k : F[i] = G[i][F[i - 1]]
           S == {k \in Nat : k <= n => \E F : Up(F, k)}
<1>1. 0 \in S
  <2>1. Up([i \in 0 .. 0 |-> x0], 0)
    OBVIOUS
  <2> QED
    BY <2>1
<1>2. ASSUME NEW k \in S PROVE k + 1 \in S
  <2> SUFFICES ASSUME k + 1 <= n PROVE \E F : Up(F, k + 1)
    <3> HIDE DEF Up
    <3> QED
      BY <1>2
  <2>1. k \in Nat /\ k <= n /\ k + 1 \in 1 .. n
    BY <1>2
  <2>2. PICK F : Up(F, k)
    BY <1>2, <2>1
  <2> DEFINE top == G[k + 1][F[k]]
             H == [i \in 0 .. k + 1 |-> IF i <= k THEN F[i] ELSE top]
  <2>3. top \in X
    BY <1>0, <2>1, <2>2
  <2>4. /\ H \in [0 .. k + 1 -> X]
        /\ \A i \in 0 .. k : H[i] = F[i]
        /\ H[k + 1] = top
    <3> HIDE DEF top
    <3> QED
      BY <2>1, <2>2, <2>3
  <2> HIDE DEF H
  <2>5. ASSUME NEW i \in 1 .. k + 1 PROVE H[i] = G[i][H[i - 1]]
    <3>1. CASE i <= k
      <4>1. i \in 1 .. k /\ i \in 0 .. k /\ i - 1 \in 0 .. k
        BY <2>1, <3>1
      <4> QED
        BY <2>2, <2>4, <4>1
    <3>2. CASE i = k + 1
      <4>1. i - 1 = k /\ k \in 0 .. k
        BY <2>1, <3>2
      <4> QED
        BY <2>4, <3>2, <4>1
    <3> QED
      BY <2>1, <3>1, <3>2
  <2>6. H[0] = x0
    BY <2>1, <2>2, <2>4
  <2> WITNESS H
  <2> QED
    BY <2>4, <2>5, <2>6
<1>3. S = Nat
  <2> HIDE DEF Up
  <2> QED
    BY <1>1, <1>2, Induction
<1>4. n \in S
  BY <1>3
<1> QED
  BY <1>4 DEF Unfolds

-----------------------------------------------------------------------------
(***************************************************************************)
(* The worst cases.                                                        *)
(***************************************************************************)
\* From x0, with add[i] at sample i.
Decays(F, add, x0) ==
  /\ F \in [0 .. Spacing -> Nat] /\ F[0] = x0
  /\ \A i \in 1 .. Spacing : F[i] = add[i] + Past(F[i - 1])

LEMMA PastNat ==
  ASSUME NEW v \in Nat
  PROVE  Past(v) \in Nat
<1>1. Decay * v \in Nat
  OBVIOUS
<1> QED
  BY <1>1, Division DEF Past

LEMMA PastMonotonic ==
  ASSUME NEW v \in Nat, NEW w \in Nat, v <= w
  PROVE  Past(v) <= Past(w)
<1>1. Decay * v <= Decay * w /\ Decay * v \in Nat /\ Decay * w \in Nat
  BY Product
<1>2. /\ Past(v) \in Nat /\ Past(v) * Scale <= Decay * v
      /\ Past(w) \in Nat /\ Decay * w < (Past(w) + 1) * Scale
  BY <1>1, Division DEF Past
<1> HIDE DEF Past
<1>3. Past(v) * Scale < (Past(w) + 1) * Scale
  BY <1>1, <1>2
<1>4. Past(v) < Past(w) + 1
  BY <1>2, <1>3, Cancel
<1> QED
  BY <1>2, <1>4

LEMMA DecayExists ==
  ASSUME NEW add \in [1 .. Spacing -> Nat], NEW x0 \in Nat
  PROVE  \E F : Decays(F, add, x0)
<1> DEFINE G == [i \in 1 .. Spacing |-> [v \in Nat |-> add[i] + Past(v)]]
<1>1. \A i \in 1 .. Spacing, v \in Nat : add[i] + Past(v) \in Nat
  BY PastNat
<1>2. /\ G \in [1 .. Spacing -> [Nat -> Nat]]
      /\ \A i \in 1 .. Spacing, v \in Nat : G[i][v] = add[i] + Past(v)
  <2> HIDE DEF Past
  <2> QED
    BY <1>1
<1> HIDE DEF G
<1>3. PICK F : Unfolds(F, G, Spacing, Nat, x0)
  <2>1. Stepwise(G, Spacing, Nat)
    BY <1>2 DEF Stepwise
  <2> QED
    BY <2>1, Recursion
<1>4. /\ F \in [0 .. Spacing -> Nat] /\ F[0] = x0
      /\ \A i \in 1 .. Spacing : F[i] = G[i][F[i - 1]]
  BY <1>3 DEF Unfolds
<1>5. \A i \in 1 .. Spacing : F[i - 1] \in Nat
  BY <1>4
<1>6. \A i \in 1 .. Spacing : F[i] = add[i] + Past(F[i - 1])
  <2> HIDE DEF Past
  <2> QED
    BY <1>2, <1>4, <1>5
<1> QED
  BY <1>4, <1>6 DEF Decays

\* The values of such a function.
LEMMA Decaying ==
  ASSUME NEW f, NEW add \in [1 .. Spacing -> Nat], NEW x0 \in Nat,
         f[0] = x0, \A i \in 1 .. Spacing : f[i] = add[i] + Past(f[i - 1])
  PROVE  \A n \in 0 .. Spacing : f[n] \in Nat
<1> DEFINE T == {n \in Nat : n <= Spacing => f[n] \in Nat}
<1>1. 0 \in T
  OBVIOUS
<1>2. ASSUME NEW k \in T PROVE k + 1 \in T
  <2> SUFFICES ASSUME k + 1 <= Spacing PROVE f[k + 1] \in Nat
    BY <1>2
  <2>1. k + 1 \in 1 .. Spacing /\ (k + 1) - 1 = k /\ f[k] \in Nat
    BY <1>2
  <2>2. f[k + 1] = add[k + 1] + Past(f[k])
    BY <2>1
  <2>3. Past(f[k]) \in Nat /\ add[k + 1] \in Nat
    BY <2>1, PastNat
  <2> HIDE DEF Past
  <2> QED
    BY <2>2, <2>3
<1>3. T = Nat
  BY <1>1, <1>2, Induction
<1>4. \A n \in 0 .. Spacing : n \in T /\ n <= Spacing
  <2> HIDE DEF T
  <2> QED
    BY <1>3
<1> QED
  BY <1>4

\* The least and the most a sample adds: the one that made the change is known.
FallAdds == [i \in 1 .. Spacing |-> IF i = 1 THEN Gain ELSE 0]
RiseAdds == [i \in 1 .. Spacing |-> IF i = 1 THEN Gain ELSE 2 * Gain]

LEMMA FallDecays == Decays(Fall, FallAdds, High + 1)
<1> DEFINE Step(f) == [n \in 0 .. Spacing |->
                         IF n = 0 THEN High + 1
                         ELSE (IF n = 1 THEN Gain ELSE 0) + (Decay * f[n - 1]) \div Scale]
<1>1. FallAdds \in [1 .. Spacing -> Nat] /\ High + 1 \in Nat
  BY DEF FallAdds
<1>2. PICK F : Decays(F, FallAdds, High + 1)
  BY <1>1, DecayExists
<1>3. F = Step(F)
  BY <1>2 DEF Decays, FallAdds, Past
<1>4. Fall = Step(Fall)
  <2>1. Fall = CHOOSE f : f = Step(f)
    BY DEF Fall
  <2> HIDE DEF Step
  <2> QED
    BY <1>3, <2>1
<1>5. /\ Fall[0] = High + 1
      /\ \A i \in 1 .. Spacing : Fall[i] = FallAdds[i] + Past(Fall[i - 1])
  <2>1. \A n \in 0 .. Spacing : Fall[n] = Step(Fall)[n]
    <3> HIDE DEF Step
    <3> QED
      BY <1>4
  <2> HIDE DEF Fall
  <2> QED
    BY <2>1 DEF FallAdds, Past
<1>6. \A n \in 0 .. Spacing : Fall[n] \in Nat
  <2> HIDE DEF Fall, Past
  <2> QED
    BY <1>1, <1>5, Decaying
<1>7. Fall \in [0 .. Spacing -> Nat]
  <2>1. Fall = [n \in 0 .. Spacing |-> Fall[n]]
    BY <1>4
  <2> HIDE DEF Fall
  <2> QED
    BY <1>6, <2>1
<1> QED
  BY <1>5, <1>7 DEF Decays

LEMMA RiseDecays == Decays(Rise, RiseAdds, Low)
<1> DEFINE Step(f) == [n \in 0 .. Spacing |->
                         IF n = 0 THEN Low
                         ELSE (IF n = 1 THEN Gain ELSE 2 * Gain) + (Decay * f[n - 1]) \div Scale]
<1>1. RiseAdds \in [1 .. Spacing -> Nat] /\ Low \in Nat
  BY DEF RiseAdds
<1>2. PICK F : Decays(F, RiseAdds, Low)
  BY <1>1, DecayExists
<1>3. F = Step(F)
  BY <1>2 DEF Decays, RiseAdds, Past
<1>4. Rise = Step(Rise)
  <2>1. Rise = CHOOSE f : f = Step(f)
    BY DEF Rise
  <2> HIDE DEF Step
  <2> QED
    BY <1>3, <2>1
<1>5. /\ Rise[0] = Low
      /\ \A i \in 1 .. Spacing : Rise[i] = RiseAdds[i] + Past(Rise[i - 1])
  <2>1. \A n \in 0 .. Spacing : Rise[n] = Step(Rise)[n]
    <3> HIDE DEF Step
    <3> QED
      BY <1>4
  <2> HIDE DEF Rise
  <2> QED
    BY <2>1 DEF RiseAdds, Past
<1>6. \A n \in 0 .. Spacing : Rise[n] \in Nat
  <2> HIDE DEF Rise, Past
  <2> QED
    BY <1>1, <1>5, Decaying
<1>7. Rise \in [0 .. Spacing -> Nat]
  <2>1. Rise = [n \in 0 .. Spacing |-> Rise[n]]
    BY <1>4
  <2> HIDE DEF Rise
  <2> QED
    BY <1>6, <2>1
<1> QED
  BY <1>5, <1>7 DEF Decays

-----------------------------------------------------------------------------
(***************************************************************************)
(* Bounces.                                                                *)
(***************************************************************************)
\* The filter of an input that has changed lately is within the worst case.
Slow ==
  \A i \in Inputs : since[i] < Spacing =>
    IF i \in inputs
    THEN y[i] >= Fall[since[i]] /\ (since[i] = 0 => x[i] = 1)
    ELSE y[i] <= Rise[since[i]] /\ (since[i] = 0 => x[i] = 0)

LEMMA SlowBounds ==
  ASSUME TypeOK, Slow, NEW i \in Inputs, since[i] < Spacing
  PROVE  /\ since[i] \in 0 .. Spacing /\ since[i] + 1 \in 1 .. Spacing
         /\ Fall[since[i] + 1] \in Nat /\ Rise[since[i] + 1] \in Nat
         /\ i \in inputs => lpf(i) >= Fall[since[i] + 1]
         /\ i \notin inputs => lpf(i) <= Rise[since[i] + 1]
<1> DEFINE n == since[i]
<1>1. /\ n \in Nat /\ n \in 0 .. Spacing /\ n + 1 \in 1 .. Spacing
      /\ (n + 1) - 1 = n /\ n + 1 \in 0 .. Spacing
  BY DEF TypeOK
<1>2. y[i] \in Nat /\ x[i] \in {0, 1} /\ Sampled(i) \in {0, 1}
  BY DEF TypeOK, Sampled
<1>3. lpf(i) = Gain * (Sampled(i) + x[i]) + Past(y[i])
  BY DEF lpf, Past
<1>4. Gain * 0 = 0 /\ Gain * 1 = Gain /\ Gain * 2 = 2 * Gain
  OBVIOUS
<1>5. /\ Fall[n] \in Nat /\ Fall[n + 1] \in Nat
      /\ Fall[n + 1] = (IF n = 0 THEN Gain ELSE 0) + Past(Fall[n])
  BY <1>1, FallDecays DEF Decays, FallAdds
<1>6. /\ Rise[n] \in Nat /\ Rise[n + 1] \in Nat
      /\ Rise[n + 1] = (IF n = 0 THEN Gain ELSE 2 * Gain) + Past(Rise[n])
  BY <1>1, RiseDecays DEF Decays, RiseAdds
<1>7. Past(y[i]) \in Nat /\ Past(Fall[n]) \in Nat /\ Past(Rise[n]) \in Nat
  BY <1>2, <1>5, <1>6, PastNat
<1> HIDE DEF lpf, Past, n, Fall, Rise
<1>8. ASSUME i \in inputs PROVE lpf(i) >= Fall[n + 1]
  <2>1. Fall[n] <= y[i] /\ (n = 0 => x[i] = 1)
    BY <1>2, <1>5, <1>8 DEF Slow, n
  <2>2. Past(Fall[n]) <= Past(y[i])
    BY <1>2, <1>5, <2>1, PastMonotonic
  <2> QED
    BY <1>2, <1>3, <1>4, <1>5, <1>7, <2>1, <2>2
<1>9. ASSUME i \notin inputs PROVE lpf(i) <= Rise[n + 1]
  <2>1. y[i] <= Rise[n] /\ (n = 0 => x[i] = 0)
    BY <1>2, <1>6, <1>9 DEF Slow, n
  <2>2. Past(y[i]) <= Past(Rise[n])
    BY <1>2, <1>6, <2>1, PastMonotonic
  <2> QED
    BY <1>2, <1>3, <1>4, <1>6, <1>7, <2>1, <2>2
<1> QED
  BY <1>1, <1>5, <1>6, <1>8, <1>9 DEF n

\* What a sample does to one input.
LEMMA SampleStep ==
  ASSUME TypeOK, U3_process, NEW i \in Inputs
  PROVE  /\ x'[i] = Sampled(i) /\ y'[i] = lpf(i)
         /\ i \in inputs' <=> lpf(i) > High \/ (i \in inputs /\ lpf(i) >= Low)
         /\ since'[i] = IF i \in inputs <=> i \in inputs'
                        THEN IF since[i] < Spacing THEN since[i] + 1 ELSE Spacing
                        ELSE 0
  BY DEF U3_process, Filtered, TypeOK

\* No input changes within Spacing samples of a change.
LEMMA NoBounce ==
  ASSUME TypeOK, Slow, U3_process, NEW i \in Inputs, since[i] < Spacing, lpf(i) \in Nat
  PROVE  i \in inputs <=> i \in inputs'
<1> DEFINE n == since[i] + 1
<1>1. n \in 1 .. Spacing /\ Fall[n] \in Nat /\ Rise[n] \in Nat
  BY SlowBounds
<1>2. Low <= Fall[n] /\ Rise[n] <= High
  BY <1>1, SpacingAssumption
<1>3. /\ i \in inputs => lpf(i) >= Fall[n]
      /\ i \notin inputs => lpf(i) <= Rise[n]
  BY SlowBounds
<1>4. i \in inputs' <=> lpf(i) > High \/ (i \in inputs /\ lpf(i) >= Low)
  BY SampleStep
<1> HIDE DEF n, lpf, Fall, Rise
<1> QED
  BY <1>1, <1>2, <1>3, <1>4

LEMMA SlowInit == Init => Slow
<1>1. 0 < Spacing => 0 \in 0 .. Spacing /\ Rise[0] = Low
  BY RiseDecays DEF Decays
<1> HIDE DEF Rise, Fall
<1> QED
  BY <1>1 DEF Init, Slow

LEMMA SlowProcess ==
  ASSUME IInv, Slow, U3_process
  PROVE  Slow'
<1> SUFFICES ASSUME NEW i \in Inputs, since'[i] < Spacing
             PROVE  IF i \in inputs'
                    THEN y'[i] >= Fall[since'[i]] /\ (since'[i] = 0 => x'[i] = 1)
                    ELSE y'[i] <= Rise[since'[i]] /\ (since'[i] = 0 => x'[i] = 0)
  BY DEF Slow
<1>1. TypeOK /\ Lagging
  BY DEF IInv
<1>2. /\ lpf(i) \in Nat
      /\ lpf(i) > High /\ i \notin inputs => i \in level
      /\ lpf(i) < Low /\ i \in inputs => i \notin level
  BY <1>1, FilterBounds
<1>3. /\ x'[i] = Sampled(i) /\ y'[i] = lpf(i)
      /\ i \in inputs' <=> lpf(i) > High \/ (i \in inputs /\ lpf(i) >= Low)
      /\ since'[i] = IF i \in inputs <=> i \in inputs'
                     THEN IF since[i] < Spacing THEN since[i] + 1 ELSE Spacing
                     ELSE 0
  BY <1>1, SampleStep
<1>4. since[i] \in 0 .. Spacing
  BY <1>1 DEF TypeOK
<1>5. CASE i \in inputs <=> i \in inputs'
  <2>1. since[i] < Spacing /\ since'[i] = since[i] + 1 /\ since'[i] # 0
    BY <1>3, <1>4, <1>5
  <2>2. /\ i \in inputs => lpf(i) >= Fall[since[i] + 1]
        /\ i \notin inputs => lpf(i) <= Rise[since[i] + 1]
    BY <1>1, <2>1, SlowBounds
  <2> HIDE DEF lpf, Fall, Rise
  <2> QED
    BY <1>3, <1>5, <2>1, <2>2
<1>6. CASE ~(i \in inputs <=> i \in inputs')
  <2>1. since'[i] = 0
    BY <1>3, <1>6
  <2>2. 0 \in 0 .. Spacing /\ Fall[0] = High + 1 /\ Rise[0] = Low
    BY FallDecays, RiseDecays DEF Decays
  <2> HIDE DEF lpf, Fall, Rise
  <2>3. CASE i \in inputs'
    BY <1>2, <1>3, <1>6, <2>1, <2>2, <2>3 DEF Sampled
  <2>4. CASE i \notin inputs'
    BY <1>2, <1>3, <1>6, <2>1, <2>2, <2>4 DEF Sampled
  <2> QED
    BY <2>3, <2>4
<1> QED
  BY <1>5, <1>6

LEMMA SlowStep == IInv /\ Slow /\ [Next]_vars => Slow'
<1> SUFFICES ASSUME IInv, Slow, [Next]_vars PROVE Slow'
  OBVIOUS
<1> HIDE DEF Fall, Rise
<1>1. ASSUME NEW i \in Inputs, Contact(i) PROVE Slow'
  BY <1>1 DEF Contact, Slow, filters
<1>2. CASE Reboot
  <2>1. 0 < Spacing => Rise[0] = Low
    BY RiseDecays DEF Decays
  <2> QED
    BY <1>2, <2>1 DEF Reboot, Slow
<1>3. CASE UNCHANGED vars
  BY <1>3 DEF vars, filters, Slow
<1>4. CASE U3_read \/ clear_errors
  BY <1>4 DEF U3_read, clear_errors, filters, Slow
<1> QED
  BY <1>1, <1>2, <1>3, <1>4, SlowProcess DEF Next

LEMMA SlowHolds == Spec => [](IInv /\ Slow)
  BY InitIInv, StepIInv, SlowInit, SlowStep, PTL DEF Spec

\* However a contact bounces, an input changes again only when its filter has
\* had the time to cross from one threshold to the other.
THEOREM DebouncedHolds == Spec => Debounced
<1>1. ASSUME IInv, Slow, [Next]_vars, NEW i \in Inputs, i \in inputs <=> i \notin inputs'
      PROVE  since[i] >= Spacing \/ boots' # boots
  <2>1. TypeOK /\ Lagging
    BY <1>1 DEF IInv
  <2>2. CASE U3_process
    <3>1. lpf(i) \in Nat
      BY <2>1, FilterBounds
    <3>2. ~(since[i] < Spacing)
      BY <1>1, <2>1, <2>2, <3>1, NoBounce
    <3> QED
      BY <2>1, <3>2 DEF TypeOK
  <2>3. CASE Reboot
    BY <2>1, <2>3 DEF Reboot, TypeOK
  <2>4. CASE UNCHANGED inputs
    BY <1>1, <2>4
  <2> QED
    BY <1>1, <2>2, <2>3, <2>4 DEF Next, Contact, U3_read, clear_errors, vars
<1>2. IInv /\ Slow /\ [Next]_vars =>
        [\A i \in Inputs : (i \in inputs <=> i \notin inputs')
           => since[i] >= Spacing \/ boots' # boots]_vars
  BY <1>1
<1> QED
  BY <1>2, SlowHolds, PTL DEF Spec, Debounced

-----------------------------------------------------------------------------
(***************************************************************************)
(* The locks and interlocks.                                               *)
(***************************************************************************)
USE InterlockAssumption, ModeAssumption, ResetsAssumption

\* The doors that a request has read so far and that it excludes were locked
\* and closed, and still are: nothing but the main loop opens or unlocks one.
\* For the relays the check only tells anything about door 1.
Checked ==
  \A j \in Doors : j < step /\ ~blocked /\ j \in Mask(door) =>
    j \notin open /\ (j = 1 => outputs = {})

\* The mode of a door is not changed in the middle of a request.
Allowed == ~Idle /\ unlock => door \notin closed

DoorsInv == DoorsTypeOK /\ Checked /\ Allowed /\ OthersExclusive

-----------------------------------------------------------------------------
LEMMA GroupsAre ==
  /\ \A g \in Groups(interlock) : g \subseteq Doors
  /\ interlock = 0 => Groups(interlock) = {}
<1>1. {1, 2} \subseteq Doors /\ {3, 4} \subseteq Doors /\ {1, 2, 3} \subseteq Doors
      /\ {1, 2, 3, 4} \subseteq Doors
  BY DEF Doors
<1>2. \A g \in Groups(interlock) : g \in {{1, 2}, {3, 4}, {1, 2, 3}, {1, 2, 3, 4}}
  BY DEF Groups
<1>3. interlock = 0 => Groups(interlock) = {}
  BY DEF Groups
<1> QED
  BY <1>1, <1>2, <1>3

\* The mask of a door holds the other doors of its group.
LEMMA MaskIs ==
  ASSUME DoorsTypeOK, NEW g \in Groups(interlock), NEW d \in g, NEW e \in g, d # e
  PROVE  e \in Mask(d)
<1>1. g \in {h \in Groups(interlock) : d \in h}
  OBVIOUS
<1>2. e \in UNION {h \in Groups(interlock) : d \in h}
  BY <1>1
<1> QED
  BY <1>2 DEF Mask

LEMMA NoInterlock == ASSUME interlock = 0 PROVE \A d : Mask(d) = {}
  BY DEF Mask, Groups

LEMMA RequestType ==
  ASSUME DoorsTypeOK
  PROVE  /\ Idle <=> step = 0
         /\ unlock \in BOOLEAN /\ (~Idle => door \in Doors)
         /\ step \in Doors \/ step = 0 \/ step = 5
  BY DEF DoorsTypeOK, Idle, Doors

LEMMA Bounds == 0 \in 0 .. 4 /\ {0, 1, 5} \subseteq 0 .. 5 /\ Doors \subseteq 0 .. 4 /\ 0 \notin Doors
  BY DEF Doors

LEMMA DoorsInitInv == DoorsInit => DoorsInv
<1> SUFFICES ASSUME DoorsInit PROVE DoorsInv
  OBVIOUS
<1>1. DoorsTypeOK
  BY Bounds DEF DoorsInit, DoorsTypeOK, Idle
<1>2. Groups(interlock) = {}
  BY <1>1, GroupsAre DEF DoorsInit
<1> QED
  BY <1>1, <1>2 DEF DoorsInit, DoorsInv, Checked, Allowed, OthersExclusive, Idle, Doors

\* Every step has to keep the handler's view (Checked, Allowed) and the doors'.
LEMMA RequestInv ==
  ASSUME DoorsInv, NEW d \in Doors, NEW u \in BOOLEAN, MIB_set_door_unlock(d, u)
  PROVE  DoorsInv'
<1> USE DEF DoorsInv, MIB_set_door_unlock
<1>1. ~Idle' /\ door' = d /\ unlock' = u /\ door' \in 0 .. 4
  BY DEF Idle, Doors
<1>2. DoorsTypeOK'
  <2>1. step' \in 0 .. 5 /\ step' # 0
    BY Bounds
  <2> QED
    BY <1>1, <2>1 DEF DoorsTypeOK, u4Vars, settingsVars
<1>3. Mask(d)' = Mask(d) /\ (interlock = 0 => Mask(d) = {})
  BY NoInterlock DEF Mask, settingsVars
<1>4. Checked'
  <2>1. CASE interlock = 0
    BY <1>1, <1>3, <2>1 DEF Checked
  <2>2. CASE interlock # 0
    BY <1>1, <2>2 DEF Checked, Doors
  <2> QED
    BY <2>1, <2>2
<1>5. Allowed' /\ OthersExclusive'
  BY <1>1 DEF Allowed, ModeAllows, OthersExclusive, u4Vars, settingsVars
<1> QED
  BY <1>2, <1>4, <1>5

LEMMA ReadInv ==
  ASSUME DoorsInv, ReadDoor
  PROVE  DoorsInv'
<1> USE DEF DoorsInv, ReadDoor
<1>1. DoorsTypeOK'
  BY DEF DoorsTypeOK, u4Vars, settingsVars, Idle, Doors, Conflict
<1>2. Mask(door)' = Mask(door)
  BY DEF Mask, settingsVars
<1>3. Checked'
  <2> SUFFICES ASSUME NEW j \in Doors, j < step', ~blocked', j \in Mask(door)'
               PROVE  j \notin open' /\ (j = 1 => outputs' = {})
    BY DEF Checked
  <2>1. ~blocked /\ ~Conflict /\ UNCHANGED <<open, outputs>>
    BY DEF u4Vars, DoorsTypeOK
  <2>2. CASE j < step
    BY <1>2, <2>1, <2>2 DEF Checked
  <2>3. CASE j = step
    BY <1>2, <2>1, <2>3 DEF Conflict, U4_get_relay
  <2>4. j < step \/ j = step
    BY DEF Doors
  <2> QED
    BY <2>2, <2>3, <2>4
<1>4. Allowed' /\ OthersExclusive'
  BY DEF Allowed, OthersExclusive, u4Vars, settingsVars, Idle
<1> QED
  BY <1>1, <1>3, <1>4

LEMMA DoneIs ==
  ASSUME Done
  PROVE  /\ Idle' /\ door' \in 0 .. 4 /\ unlock' \in BOOLEAN
         /\ step' = 0 /\ step' \in 0 .. 5 /\ blocked' \in BOOLEAN
         /\ Checked' /\ Allowed'
<1>1. Idle' /\ Allowed' /\ step' = 0 /\ door' = 0 /\ unlock' = FALSE /\ blocked' = FALSE
  BY DEF Done, Idle, Allowed
<1>2. \A j \in Doors : ~(j < 0)
  BY DEF Doors
<1>3. Checked'
  BY <1>1, <1>2 DEF Checked
<1> QED
  BY <1>1, <1>3, Bounds

LEMMA CommitInv ==
  ASSUME DoorsInv, Commit
  PROVE  DoorsInv'
<1> USE DEF DoorsInv, Commit
<1>1. door \in Doors /\ unlock \in BOOLEAN /\ step = 5
  BY RequestType
<1>2. DoorsTypeOK'
  BY <1>1, DoneIs DEF DoorsTypeOK, settingsVars
<1>3. OthersExclusive'
  <2> SUFFICES ASSUME NEW g \in Groups(interlock), 1 \in g,
                      NEW d \in g \ {1}, NEW e \in g \ {1}, d # e,
                      {d, e} \subseteq outputs'
               PROVE  {d, e} \cap ungoverned' # {}
    BY DEF OthersExclusive, settingsVars
  <2>1. g \subseteq Doors
    BY GroupsAre
  <2>2. CASE {d, e} \subseteq outputs /\ door \notin {d, e}
    BY <2>1, <2>2 DEF OthersExclusive
  <2>3. CASE door \in {d, e} /\ unlock
    <3>1. 1 \in Mask(door)
      BY <2>3, MaskIs
    <3>2. outputs = {}
      BY <1>1, <3>1 DEF Checked, Doors
    <3> QED
      BY <2>3, <3>2
  <2>4. CASE door \in {d, e} /\ ~unlock
    BY <2>4
  <2> QED
    BY <1>1, <2>2, <2>3, <2>4
<1> QED
  BY <1>2, <1>3, DoneIs

LEMMA DoorsStepInv == DoorsInv /\ [DoorsNext]_doorsVars => DoorsInv'
<1> SUFFICES ASSUME DoorsInv, [DoorsNext]_doorsVars PROVE DoorsInv'
  OBVIOUS
<1> USE DEF DoorsInv
<1>1. ASSUME NEW d \in Doors, unlock_door(d) PROVE DoorsInv'
  <2>1. DoorsTypeOK'
    BY <1>1 DEF unlock_door, DoorsTypeOK, settingsVars, handlerVars, Idle
  <2>2. Checked' /\ Allowed'
    BY <1>1, RequestType
    DEF unlock_door, Checked, Allowed, settingsVars, handlerVars, Idle, Doors
  <2>3. OthersExclusive'
    BY <1>1 DEF unlock_door, OthersExclusive, settingsVars
  <2> QED
    BY <2>1, <2>2, <2>3
<1>2. ASSUME NEW d \in Doors, U3_get_door(d) PROVE DoorsInv'
  <2>1. DoorsTypeOK' /\ OthersExclusive'
    BY <1>2 DEF U3_get_door, DoorsTypeOK, OthersExclusive, u4Vars, settingsVars, handlerVars, Idle
  <2>2. Checked' /\ Allowed'
    BY <1>2, RequestType
    DEF U3_get_door, Checked, Allowed, settingsVars, handlerVars, Idle, Doors
  <2> QED
    BY <2>1, <2>2
<1>3. ASSUME NEW d \in Doors, U4_tick(d) PROVE DoorsInv'
  <2>1. DoorsTypeOK' /\ Allowed' /\ OthersExclusive'
    BY <1>3 DEF U4_tick, DoorsTypeOK, Allowed, OthersExclusive, settingsVars, handlerVars, Idle
  <2>2. Checked'
    BY <1>3 DEF U4_tick, Checked, Mask, settingsVars, handlerVars
  <2> QED
    BY <2>1, <2>2
<1>4. ASSUME NEW d \in NormallyClosed, MIB_set_door_mode(d) PROVE DoorsInv'
  <2>1. DoorsTypeOK' /\ OthersExclusive'
    BY <1>4 DEF MIB_set_door_mode, DoorsTypeOK, OthersExclusive, u4Vars, handlerVars, Idle
  <2>2. Checked' /\ Allowed'
    BY <1>4, RequestType DEF MIB_set_door_mode, Checked, Allowed, u4Vars, handlerVars, Idle, Doors
  <2> QED
    BY <2>1, <2>2
<1>5. ASSUME NEW k \in Interlocks, MIB_set_doors_interlock(k) PROVE DoorsInv'
  <2>1. DoorsTypeOK' /\ OthersExclusive'
    BY <1>5 DEF MIB_set_doors_interlock, DoorsTypeOK, OthersExclusive, u4Vars, handlerVars, Idle
  <2>2. Checked' /\ Allowed'
    BY <1>5, RequestType
    DEF MIB_set_doors_interlock, Checked, Allowed, u4Vars, handlerVars, Idle, Doors
  <2> QED
    BY <2>1, <2>2
<1>6. CASE Refuse
  BY <1>6, DoneIs DEF Refuse, DoorsTypeOK, OthersExclusive, u4Vars, settingsVars
<1>7. CASE Blink
  BY <1>7 DEF Blink, DoorsTypeOK, Checked, Allowed, OthersExclusive, Mask, settingsVars,
              handlerVars, Idle
<1>8. CASE sysinit
  <2>1. resets' \in Nat
    BY <1>8 DEF sysinit, DoorsTypeOK
  <2>2. DoorsTypeOK'
    BY <1>8, <2>1, DoneIs DEF sysinit, DoorsTypeOK
  <2>3. OthersExclusive'
    BY <1>8 DEF sysinit, OthersExclusive
  <2> QED
    BY <1>8, <2>2, <2>3, DoneIs DEF sysinit
<1>9. CASE UNCHANGED doorsVars
  BY <1>9 DEF doorsVars, DoorsTypeOK, Checked, Allowed, OthersExclusive, Mask, u4Vars, settingsVars,
              handlerVars, Idle
<1> QED
  BY <1>1, <1>2, <1>3, <1>4, <1>5, <1>6, <1>7, <1>8, <1>9, RequestInv, ReadInv, CommitInv
  DEF DoorsNext

THEOREM DoorsInvariance == DoorsSpec => []DoorsInv
  BY DoorsInitInv, DoorsStepInv, PTL DEF DoorsSpec

-----------------------------------------------------------------------------
\* Of doors that exclude each other and door 1, a host never has two unlocked.
THEOREM ExclusiveBehindDoor1 == DoorsSpec => []OthersExclusive
<1>1. DoorsInv => OthersExclusive
  BY DEF DoorsInv
<1> QED
  BY <1>1, DoorsInvariance, PTL

\* What doors_interlocked and the mode check found still holds when the relay
\* is set.
THEOREM ChecksHoldAtCommit == DoorsSpec => UnlockPermitted
<1>1. ASSUME DoorsInv, [DoorsNext]_doorsVars, NEW d \in outputs' \ (outputs \cup ungoverned')
      PROVE  d \notin closed /\ Mask(d) \cap (open \cup (outputs \cap {1})) = {}
  <2>1. Commit /\ door = d /\ unlock
    BY <1>1 DEF DoorsNext, doorsVars, MIB_set_door_unlock, ReadDoor, Refuse, Commit, unlock_door,
                U3_get_door, U4_tick, MIB_set_door_mode, MIB_set_doors_interlock, Blink,
                sysinit, u4Vars
  <2>2. d \in Doors /\ ~Idle /\ step = 5 /\ ~blocked
    BY <1>1, <2>1, RequestType DEF DoorsInv, Commit
  <2>3. \A j \in Mask(d) : j \in Doors
    BY <1>1, GroupsAre DEF DoorsInv, Mask
  <2> QED
    BY <1>1, <2>1, <2>2, <2>3 DEF DoorsInv, Allowed, Checked, Doors
<1>2. DoorsInv /\ [DoorsNext]_doorsVars =>
        [\A d \in outputs' \ (outputs \cup ungoverned') :
           d \notin closed /\ Mask(d) \cap (open \cup (outputs \cap {1})) = {}]_doorsVars
  BY <1>1
<1> QED
  BY <1>2, DoorsInvariance, PTL DEF DoorsSpec, UnlockPermitted
=============================================================================
