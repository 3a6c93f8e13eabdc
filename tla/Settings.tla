------------------------------- MODULE Settings -------------------------------
(***************************************************************************)
(* The door settings and their copy in the onboard flash (settings.c).     *)
(*                                                                         *)
(* A change is made in RAM by the SSMP SET handlers and queues MSG_SAVE;   *)
(* the main loop, which runs both, later writes the settings to one of two *)
(* flash sectors.  A sector is first erased and then programmed, with the  *)
(* interrupts of core 0 off, so that the only thing that can happen in     *)
(* between is a reset.  After a reset the RAM has its defaults again:      *)
(* sysinit does not call settings_restore.                                 *)
(***************************************************************************)
EXTENDS Naturals, Integers, FiniteSets

CONSTANTS
  Tags,          \* the settings: INTERLOCK, DOOR1_MODE, DOOR1_DELAY, ...
  Accepts,       \* the values doors_set_* accepts for each of them
  Defaults,      \* the initializer of SETTINGS
  None,          \* no settings
  MaxVersion,    \* MAX_VERSION (16384)
  Room,          \* bound: MSG_SAVEs in the main queue
  MaxChanges,    \* bound: changed settings in a behaviour
  MaxBoots,      \* bound: resets outside of a flash write
  MaxTears       \* bound: resets in the middle of a flash write

Doors == {d \in [Tags -> UNION {Accepts[t] : t \in Tags}] :
            \A t \in Tags : d[t] \in Accepts[t]}

ASSUME SettingsAssumption == Defaults \in Doors /\ None \notin Doors
ASSUME VersionAssumption == MaxVersion \in Nat \ {0}
ASSUME BoundsAssumption == /\ Room \in Nat /\ MaxChanges \in Nat
                           /\ MaxBoots \in Nat /\ MaxTears \in Nat

VARIABLES
  version, doors,        \* SETTINGS
  pending, dropped,      \* MSG_SAVEs in the main queue; whether one was lost
  flash,                 \* the two sectors
  op, page,              \* flash_write: next step, the sector it writes
  saved, requested,      \* the settings last saved; all that were ever written
  changed,               \* a setting was changed since the last reset
  changes, boots, tears  \* how many so far

ram == <<version, doors, pending, dropped, changed>>
vars == <<ram, flash, op, page, saved, requested, changes, boots, tears>>

-----------------------------------------------------------------------------
(***************************************************************************)
(* The sectors.  'valid' stands for the magic word, a version below        *)
(* MAX_VERSION and a CRC that fits; the version is the word modulo         *)
(* MAX_VERSION, which on an erased sector is the largest.                  *)
(***************************************************************************)
Pages == {0, 1}
Versions == 0 .. MaxVersion - 1
Erased == [valid |-> FALSE, version |-> MaxVersion - 1, doors |-> None]

\* What a reset may leave of a sector with contents d that was being erased or
\* programmed: the version is not covered by the CRC.
Torn(d) == {f \in [valid : BOOLEAN, version : Versions, doors : {d, None}] :
              f.valid <=> f.doors # None}

\* Mutant: version 0, which follows MAX_VERSION - 1, ranks lowest.
Unwrapped(v) == v
Rank(v) == IF v = 0 THEN MaxVersion ELSE v

Other(p) == 1 - p
Newest == IF Rank(flash[1].version) > Rank(flash[0].version) THEN 1 ELSE 0

\* flash_get_current_page
CurrentPage ==
  IF flash[Newest].valid THEN Newest
  ELSE IF flash[Other(Newest)].valid THEN Other(Newest)
  ELSE -1

\* What flash_read makes of the sectors.
Restored == IF CurrentPage = -1 THEN None ELSE flash[CurrentPage].doors

\* Mutant: the sector with the newest settings is written over.
InPlace == IF CurrentPage = -1 THEN 0 ELSE CurrentPage
\* Mutant: the version alone decides, whether the sector is valid or not.
ByVersion == Other(Newest)
TargetPage == IF CurrentPage = -1 THEN 0 ELSE (CurrentPage + 1) % 2

-----------------------------------------------------------------------------
Init ==
  /\ version = 0 /\ doors = Defaults
  /\ pending = 0 /\ dropped = FALSE /\ changed = FALSE
  /\ flash = [p \in Pages |-> Erased]
  /\ op = "idle" /\ page = 0
  /\ saved = None /\ requested = {}
  /\ changes = 0 /\ boots = 0 /\ tears = 0

\* push of a MSG_SAVE: the queue may be full of other messages.
Push == \/ pending < Room /\ pending' = pending + 1 /\ UNCHANGED dropped
        \/ dropped' = TRUE /\ UNCHANGED pending

\* Mutant: a change of the settings back to the defaults is not saved.
Forgetful == IF doors' = Defaults THEN UNCHANGED <<pending, dropped>> ELSE Push
PushSave == Push

NextVersion == (version + 1) % MaxVersion

\* doors_set_*: settings_set for a value that differs; an equal one leaves all
\* as it was.
settings_set(t, v) ==
  /\ op = "idle" /\ changes < MaxChanges
  /\ v \in Accepts[t] /\ doors[t] # v
  /\ doors' = [doors EXCEPT ![t] = v]
  /\ version' = NextVersion
  /\ changed' = TRUE /\ changes' = changes + 1
  /\ PushSave
  /\ UNCHANGED <<flash, op, page, saved, requested, boots, tears>>

\* MSG_SAVE is dispatched: flash_write chooses the sector.
settings_save ==
  /\ op = "idle" /\ pending > 0
  /\ pending' = pending - 1
  /\ op' = "erase" /\ page' = TargetPage
  /\ requested' = requested \cup {doors}
  /\ UNCHANGED <<version, doors, dropped, changed, flash, saved, changes, boots, tears>>

flash_range_erase ==
  /\ op = "erase"
  /\ op' = "program"
  /\ flash' = [flash EXCEPT ![page] = Erased]
  /\ UNCHANGED <<ram, page, saved, requested, changes, boots, tears>>

flash_range_program ==
  /\ op = "program"
  /\ op' = "idle"
  /\ flash' = [flash EXCEPT ![page] =
                 [valid |-> TRUE, version |-> version, doors |-> doors]]
  /\ saved' = doors /\ dropped' = FALSE
  /\ UNCHANGED <<version, doors, pending, changed, page, requested, changes, boots, tears>>

\* The RAM after a reset.
Restart ==
  /\ version' = 0 /\ doors' = Defaults
  /\ pending' = 0 /\ dropped' = FALSE /\ changed' = FALSE
  /\ UNCHANGED <<page, saved, requested, changes>>

\* The watchdog or a power cycle, while flash_write is not at work.
Reset == op = "idle" /\ boots < MaxBoots /\ Restart /\ boots' = boots + 1
           /\ UNCHANGED <<flash, op, tears>>

\* A reset in the middle of an erase or of a program.
Tear ==
  /\ tears < MaxTears
  /\ op # "idle"
  /\ \E f \in Torn(IF op = "erase" THEN flash[page].doors ELSE doors) :
       flash' = [flash EXCEPT ![page] = f]
  /\ op' = "idle" /\ Restart /\ tears' = tears + 1
  /\ UNCHANGED boots

Next ==
  \/ \E t \in Tags : \E v \in Accepts[t] : settings_set(t, v)
  \/ settings_save \/ flash_range_erase \/ flash_range_program
  \/ Reset \/ Tear

Spec == Init /\ [][Next]_vars

-----------------------------------------------------------------------------
Sector == {f \in [valid : BOOLEAN, version : Versions, doors : Doors \cup {None}] :
             f.valid <=> f.doors # None}

\* Every variable has its type, and just the valid sectors hold settings.
TypeOK ==
  /\ version \in Versions /\ doors \in Doors
  /\ pending \in 0 .. Room /\ dropped \in BOOLEAN /\ changed \in BOOLEAN
  /\ flash \in [Pages -> Sector]
  /\ op \in {"idle", "erase", "program"} /\ page \in Pages
  /\ saved \in Doors \cup {None} /\ requested \subseteq Doors
  /\ changes \in Nat /\ boots \in Nat /\ tears \in Nat

\* Once a save has completed there are always settings to restore, through any
\* sequence of resets, also in the middle of a write, and they are settings
\* that were once saved: never a blend, never those of an erased sector.
CrashSafe == saved # None => CurrentPage # -1 /\ Restored \in requested

\* Neither the erase nor the program ever touches the sector that would be
\* restored (flash_write's alternation of the sectors).
WriteElsewhere ==
  [][op # "idle" => \A p \in Pages : flash'[p] # flash[p] => p # CurrentPage]_vars

\* While no reset intervenes and the version has not gone round more than once,
\* the settings that would be restored are those of the last save, also with
\* version 0 and with two saves of one version.
LatestRestored ==
  boots = 0 /\ tears = 0 /\ changes <= MaxVersion /\ op = "idle" => Restored = saved

\* Settings that were changed are saved, still waiting for a MSG_SAVE, or had
\* their MSG_SAVE refused by a full main queue: coalescing loses none.
Persisted ==
  changed /\ op = "idle" /\ pending = 0 /\ ~dropped => saved = doors
=============================================================================
