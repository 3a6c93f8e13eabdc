---------------------------------- MODULE U3 ----------------------------------
(***************************************************************************)
(* The door contacts and pushbuttons (U3.c): eight inputs of a PCAL6408A,  *)
(* sampled every millisecond and debounced with a low pass filter each.    *)
(*                                                                         *)
(* A sample is read by core 1 and reaches the filters in a MSG_U3, in the  *)
(* order of the readings; a reading that fails is a step that changes      *)
(* nothing here (it raises ERR_U3).  A set of inputs stands for the byte   *)
(* U3x.inputs.state.  The filters are computed in fixed point: Scale       *)
(* stands for 1.0.                                                         *)
(*                                                                         *)
(* The states of a contact have the names of their events: CLOSE when its  *)
(* bit has become 1 (U3.c:236).  The comment of U3_get_door, which answers *)
(* a GET, takes the same bit for an open door (U3.c:284), and TODO.md:16   *)
(* has "door open/closed seems to be inverted".  Which of the two the      *)
(* contacts agree with depends on how they are wired.                      *)
(***************************************************************************)
EXTENDS Integers, FiniteSets

CONSTANTS
  Inputs,           \* the door contacts S1..S4 and the pushbuttons PB1..PB4
  Scale,            \* 1.0
  Gain, Decay,      \* b0 (which is b1) and -a1 of LPF1
  High, Low,        \* the thresholds 0.9 and 0.1
  Spacing,          \* samples between two changes of an input
  MaxBoots          \* bound: resets in a behaviour

ASSUME FilterAssumption == /\ Scale \in Nat \ {0} /\ Gain \in Nat /\ Decay \in Nat
                           /\ 2 * Gain + Decay = Scale
ASSUME ThresholdAssumption == /\ High \in Nat /\ Low \in Nat
                              /\ 2 * Low <= Scale /\ Scale <= 2 * High
ASSUME BoundsAssumption == Spacing \in Nat /\ MaxBoots \in Nat

\* How low the filter of an input can be n samples after the input has become
\* 1, and how high after it has become 0: the sample that changed it is the
\* last one the contact need have read as.
Fall[n \in 0 .. Spacing] ==
  IF n = 0 THEN High + 1 ELSE (IF n = 1 THEN Gain ELSE 0) + (Decay * Fall[n - 1]) \div Scale
Rise[n \in 0 .. Spacing] ==
  IF n = 0 THEN Low ELSE (IF n = 1 THEN Gain ELSE 2 * Gain) + (Decay * Rise[n - 1]) \div Scale

\* In Spacing samples neither can reach the other threshold.
ASSUME SpacingAssumption == \A n \in 1 .. Spacing : Low <= Fall[n] /\ Rise[n] <= High

VARIABLES
  level,            \* the inputs that read as 1
  x, y,             \* U3x.inputs.lpf[].x1, .y1
  inputs,           \* U3x.inputs.state
  announced,        \* the last event of an input that reached the main queue
  syserr,           \* STATE.errors: ERR_QUEUE and ERR_RESTART
  known,            \* the inputs of which the host was mistaken when it last
                    \* cleared the errors, until their next event
  since, boots      \* samples since the input last changed; resets so far

filters == <<x, y>>
events == <<announced, syserr, known>>
vars == <<level, filters, inputs, events, since, boots>>

-----------------------------------------------------------------------------
Init ==
  /\ level \in SUBSET Inputs
  /\ x = [i \in Inputs |-> 0] /\ y = [i \in Inputs |-> 0]
  /\ inputs = {}
  /\ announced = [i \in Inputs |-> "none"] /\ known = {} /\ syserr = {"restart"}
  /\ since = [i \in Inputs |-> 0] /\ boots = 0

\* A contact opens, closes or bounces.
Contact(i) ==
  /\ level' = (level \ {i}) \cup ({i} \ level)
  /\ UNCHANGED <<filters, inputs, events, since, boots>>

Sampled(i) == IF i \in level THEN 1 ELSE 0

\* Mutant: the last sample is not remembered.
Forgotten(i) == Gain * Sampled(i) + (Decay * y[i]) \div Scale
\* Mutant: every sample is taken at once, with nothing of the past.
Unfiltered(i) == Scale * Sampled(i)
lpf(i) == Gain * (Sampled(i) + x[i]) + (Decay * y[i]) \div Scale

\* U3x.inputs.state after the sample: between the thresholds it does not change.
Filtered == {i \in Inputs : lpf(i) > High \/ (i \in inputs /\ lpf(i) >= Low)}

\* The table of events: a contact or button whose bit turns 0 is reported as
\* open or released, one whose bit turns 1 as closed or pressed.
Event(i) == IF i \in inputs' THEN "closed" ELSE "open"

\* push: what the full main queue refuses is not sent again.
\* Mutant: a refusal goes unnoticed.
Unnoticed(refused) == syserr
Raised(refused) == IF refused = {} THEN syserr ELSE syserr \cup {"queue"}

\* U3_on_update or U3_read find a queue full.
U3_read ==
  /\ syserr' = syserr \cup {"queue"}
  /\ UNCHANGED <<level, filters, inputs, announced, known, since, boots>>

\* A reading in its MSG_U3.  The main queue may refuse any of the events.
U3_process ==
  /\ x' = [i \in Inputs |-> Sampled(i)]
  /\ y' = [i \in Inputs |-> lpf(i)]
  /\ inputs' = Filtered
  /\ LET flipped == (inputs \ inputs') \cup (inputs' \ inputs)
     IN  /\ \E refused \in SUBSET flipped :
              /\ announced' = [i \in Inputs |->
                                 IF i \in flipped \ refused THEN Event(i) ELSE announced[i]]
              /\ syserr' = Raised(refused)
         /\ known' = known \ flipped
         /\ since' = [i \in Inputs |-> IF i \in flipped THEN 0
                                       ELSE IF since[i] < Spacing THEN since[i] + 1
                                       ELSE Spacing]
  /\ UNCHANGED <<level, boots>>

\* The host is wrong about an input: its last event is not that of the debounced
\* bit (an input that is 0 since the start has had none).
Mistaken == {i \in Inputs : ~(announced[i] = "closed" <=> i \in inputs)}

\* The CLI's clear_errors, or a SET, which leaves ERR_RESTART.  Who clears them
\* has seen them, and can ask for the state of the inputs.
clear_errors ==
  /\ syserr' \in {{}, syserr \cap {"restart"}} /\ known' = Mistaken
  /\ UNCHANGED <<level, filters, inputs, announced, since, boots>>

\* A reset: the filters start from 0, and nothing is sent for an input that is
\* 0 then, whatever the host was last told.  main raises ERR_RESTART.
Reboot ==
  /\ boots < MaxBoots /\ boots' = boots + 1
  /\ x' = [i \in Inputs |-> 0] /\ y' = [i \in Inputs |-> 0]
  /\ inputs' = {}
  /\ syserr' = {"restart"} /\ known' = {}
  /\ since' = [i \in Inputs |-> 0]
  /\ UNCHANGED <<level, announced>>

Next == (\E i \in Inputs : Contact(i)) \/ U3_read \/ U3_process \/ clear_errors \/ Reboot

Spec == Init /\ [][Next]_vars

\* The inputs are sampled by a timer; not every sample can be lost.
FairSpec == Spec /\ WF_vars(U3_process)

-----------------------------------------------------------------------------
\* Every variable has its type: the filters stay between 0.0 and 1.0.
TypeOK ==
  /\ level \subseteq Inputs /\ inputs \subseteq Inputs /\ known \subseteq Inputs
  /\ x \in [Inputs -> {0, 1}] /\ y \in [Inputs -> 0 .. Scale]
  /\ announced \in [Inputs -> {"none", "open", "closed"}]
  /\ syserr \subseteq {"queue", "restart"}
  /\ since \in [Inputs -> 0 .. Spacing] /\ boots \in Nat

\* When the events have left the host mistaken about an input, because one was
\* refused (it is never repeated) or by a reset, the error that tells of it is
\* raised, until somebody clears it: no sequence of bounces, refusals, resets and
\* cleared errors makes the host wrong without notice.
EventsFollow == syserr \cap {"queue", "restart"} = {} => Mistaken \subseteq known

\* Bounces are filtered: however a contact bounces, its state does not change
\* again within Spacing samples of a change (or of the start).
Debounced ==
  [][\A i \in Inputs : (i \in inputs <=> i \notin inputs')
        => since[i] >= Spacing \/ boots' # boots]_vars

\* A state changes only to what the contact reads as at that time: the filter's
\* delay never reports a contact after it has turned back.
FlipsToLevel ==
  [][boots' = boots => \A i \in Inputs : /\ i \in inputs' \ inputs => i \in level
                                         /\ i \in inputs \ inputs' => i \notin level]_vars

\* A contact that stays as it is in the end has that state in the end.
Settles ==
  \A i \in Inputs : /\ <>[](i \in level) => <>[](i \in inputs)
                    /\ <>[](i \notin level) => <>[](i \notin inputs)
=============================================================================
