------------------------------ MODULE DoorLocks ------------------------------
(***************************************************************************)
(* What U4.c promises to the rest of the firmware about the door relays:   *)
(* the relays that are driven are the ones asked for, after a delay but in *)
(* order, and every change of the driven relays is reported.  Once a fault *)
(* or a restart has happened the reports may be wrong for good, and single *)
(* snapshots may be lost, but the relays still end up where they should.   *)
(* The bus to the device is shared: Traffic of others delays a snapshot.   *)
(* No thread, tick, timer, guard or mempool chunk appears.                 *)
(***************************************************************************)
EXTENDS Naturals, Sequences

CONSTANT Relays

VARIABLES
  wanted,    \* the relays that commands and timers want energised
  pipe,      \* what is on its way to the device: {s} for a snapshot s of
             \* wanted, {} for the traffic of others
  actual,    \* the relays the device energises
  reported,  \* the relays reported energised by events
  broken     \* a fault or a restart has happened

vars == <<wanted, pipe, actual, reported, broken>>

Init == wanted = {} /\ pipe = << >> /\ actual = {} /\ reported = {} /\ broken = FALSE

Unlock(r) == wanted' = wanted \cup {r} /\ UNCHANGED <<pipe, actual, reported, broken>>

\* A command locks one door, a tick all the doors whose time is up.
Lock(doors) == wanted' = wanted \ doors /\ UNCHANGED <<pipe, actual, reported, broken>>

Send == pipe' = Append(pipe, {wanted}) /\ UNCHANGED <<wanted, actual, reported, broken>>

Traffic == pipe' = Append(pipe, {}) /\ UNCHANGED <<wanted, actual, reported, broken>>

Drive ==
  /\ pipe # << >> /\ pipe' = Tail(pipe)
  /\ actual' \in IF Head(pipe) = {} THEN {actual} ELSE Head(pipe)
  /\ UNCHANGED <<wanted, reported, broken>>

Report == reported' = actual /\ UNCHANGED <<wanted, pipe, actual, broken>>

(***************************************************************************)
(* Faults: a transfer fails, having reached the device or not; the device  *)
(* loses its state; an event is lost or tells what was meant instead of    *)
(* what is; everything starts again with the doors locked.                 *)
(***************************************************************************)
Breaks == broken' = TRUE

Lose ==
  /\ Breaks /\ pipe # << >> /\ pipe' = Tail(pipe)
  /\ actual' \in {actual} \cup Head(pipe)
  /\ UNCHANGED <<wanted, reported>>

Corrupt == Breaks /\ actual' \in SUBSET Relays /\ UNCHANGED <<wanted, pipe, reported>>

Misreport == Breaks /\ reported' \in SUBSET Relays /\ UNCHANGED <<wanted, pipe, actual>>

Restart ==
  /\ Breaks /\ wanted' = {} /\ pipe' = << >> /\ actual' = {}
  /\ UNCHANGED reported

Next == \/ \E r \in Relays : Unlock(r)
        \/ \E doors \in SUBSET Relays : Lock(doors)
        \/ Send \/ Traffic \/ Drive \/ Report
        \/ Lose \/ Corrupt \/ Misreport \/ Restart

Snapshots == {i \in DOMAIN pipe : pipe[i] # {}}

\* The device shows what is wanted once everything in the pipe has arrived.
Settled ==
  \/ Snapshots = {} /\ actual = wanted
  \/ \E i \in Snapshots : pipe[i] = {wanted} /\ \A j \in Snapshots : j <= i

Fairness == /\ WF_vars(Send /\ ~Settled)
            /\ WF_vars(Drive) /\ WF_vars(Report /\ ~broken)

Safety == Init /\ [][Next]_vars
Spec == Safety /\ Fairness
=============================================================================
