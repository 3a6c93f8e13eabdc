--------------------------------- MODULE Doors ---------------------------------
(***************************************************************************)
(* Locking, unlocking and interlocking the doors (doors.c and the handlers *)
(* of MIB/set.c), above the relays of U4 and the contacts of U3.           *)
(*                                                                         *)
(* The handlers run one at a time in the main loop, which also updates the *)
(* contacts; but they read U4x.outputs without its guard while the U4_tick *)
(* interrupt locks the doors again and blinks the LEDs.                    *)
(***************************************************************************)
EXTENDS Naturals, FiniteSets

CONSTANTS
  Interlocks,      \* the interlocks that are set
  NormallyClosed,  \* the doors whose mode is changed to NORMALLY_CLOSED and back
  MaxResets        \* bound: resets in a behaviour

Doors == 1 .. 4

ASSUME InterlockAssumption == Interlocks \subseteq {0, 1, 2, 3, 4, 8}
ASSUME ModeAssumption == NormallyClosed \subseteq Doors
ASSUME ResetsAssumption == MaxResets \in Nat

VARIABLES
  outputs, lit,      \* the relays in U4x.outputs; whether an LED bit is set there
  open,              \* the doors that U3_get_door reports as open
  interlock, closed, \* SETTINGS: the interlock; the doors in mode NORMALLY_CLOSED
  door, unlock, step,\* MIB_set_door_unlock: its door (0: idle) and value, next step
  blocked,           \* mask & (unlocked | open) so far
  ungoverned,        \* doors whose unlocking was not checked against the
                     \* present interlock
  resets             \* resets so far

u4Vars == <<outputs, lit>>
settingsVars == <<interlock, closed>>
handlerVars == <<door, unlock, step, blocked>>
doorsVars == <<u4Vars, open, settingsVars, handlerVars, ungoverned, resets>>

-----------------------------------------------------------------------------
(***************************************************************************)
(* The interlocks.                                                         *)
(***************************************************************************)
\* The doors of an interlock that exclude each other.
Groups(k) == (IF k \in {1, 3} THEN {{1, 2}} ELSE {})
        \cup (IF k \in {2, 3} THEN {{3, 4}} ELSE {})
        \cup (IF k = 4 THEN {{1, 2, 3}} ELSE {})
        \cup (IF k = 8 THEN {{1, 2, 3, 4}} ELSE {})

\* Mutant: door 1 is missing from the masks.
WithoutDoor1(d) == (UNION {g \in Groups(interlock) : d \in g}) \ {1, d}
\* The mask of the table 'interlocks'.
Mask(d) == (UNION {g \in Groups(interlock) : d \in g}) \ {d}

\* r->mask & U4x.outputs != 0 is r->mask & (U4x.outputs != 0): true for relay 1,
\* the lowest bit, while any output is set, and never for the others.
U4_get_relay(d) == d = 1 /\ (outputs # {} \/ lit)

Idle == door = 0

DoorsInit ==
  /\ outputs = {} /\ lit = FALSE /\ open = {}
  /\ interlock = 0 /\ closed = {}
  /\ door = 0 /\ unlock = FALSE /\ step = 0 /\ blocked = FALSE
  /\ ungoverned = {} /\ resets = 0

-----------------------------------------------------------------------------
(***************************************************************************)
(* MIB_set_door_unlock.  Steps 1 to 4 read the relay and the contact of    *)
(* that door, step 5 sets or clears the relay.                             *)
(***************************************************************************)
\* The mode is checked for an unlock only; without an interlock nothing is read.
\* Mutant: the mode is not checked.
AnyMode(d, u) == TRUE
ModeAllows(d, u) == u => d \notin closed

MIB_set_door_unlock(d, u) ==
  /\ Idle /\ ModeAllows(d, u)
  /\ door' = d /\ unlock' = u
  /\ step' = IF interlock = 0 THEN 5 ELSE 1
  /\ blocked' = FALSE
  /\ UNCHANGED <<u4Vars, open, settingsVars, ungoverned, resets>>

\* doors_interlocked's loop over the doors.
\* Mutant: a door that is open does not count.
UnlockedOnly == step \in Mask(door) /\ U4_get_relay(step)
Conflict == step \in Mask(door) /\ (U4_get_relay(step) \/ step \in open)

ReadDoor ==
  /\ step \in Doors
  /\ step' = step + 1
  /\ blocked' = (blocked \/ Conflict)
  /\ UNCHANGED <<u4Vars, open, settingsVars, door, unlock, ungoverned, resets>>

Done == door' = 0 /\ unlock' = FALSE /\ step' = 0 /\ blocked' = FALSE

\* INVALID_STATE, for an unlock and for a lock alike.
Refuse ==
  /\ step = 5 /\ blocked
  /\ Done
  /\ UNCHANGED <<u4Vars, open, settingsVars, ungoverned, resets>>

\* doors_unlock or doors_lock.
Commit ==
  /\ step = 5 /\ ~blocked
  /\ outputs' = IF unlock THEN outputs \cup {door} ELSE outputs \ {door}
  /\ ungoverned' = ungoverned \ {door}
  /\ Done
  /\ UNCHANGED <<lit, open, settingsVars, resets>>

-----------------------------------------------------------------------------
(***************************************************************************)
(* The other handlers of the main loop.                                    *)
(***************************************************************************)
\* MIB_set_doors_interlock: the doors that are unlocked stay so.
MIB_set_doors_interlock(k) ==
  /\ Idle /\ k # interlock
  /\ interlock' = k
  /\ ungoverned' = outputs
  /\ UNCHANGED <<u4Vars, open, closed, handlerVars, resets>>

MIB_set_door_mode(d) ==
  /\ Idle
  /\ closed' = (closed \ {d}) \cup ({d} \ closed)
  /\ UNCHANGED <<u4Vars, open, interlock, handlerVars, ungoverned, resets>>

\* The CLI's 'unlock door': neither the mode nor the interlock is checked.
unlock_door(d) ==
  /\ Idle
  /\ outputs' = outputs \cup {d}
  /\ ungoverned' = ungoverned \cup {d}
  /\ UNCHANGED <<lit, open, settingsVars, handlerVars, resets>>

\* The debounced contact of a door changes.
U3_get_door(d) ==
  /\ Idle
  /\ open' = (open \ {d}) \cup ({d} \ open)
  /\ UNCHANGED <<u4Vars, settingsVars, handlerVars, ungoverned, resets>>

-----------------------------------------------------------------------------
(***************************************************************************)
(* The interrupts, and a reset.                                            *)
(***************************************************************************)
\* A relay's timer has run out.
U4_tick(d) ==
  /\ d \in outputs
  /\ outputs' = outputs \ {d}
  /\ ungoverned' = ungoverned \ {d}
  /\ UNCHANGED <<lit, open, settingsVars, handlerVars, resets>>

\* An LED is switched on or off.
Blink ==
  /\ lit' = ~lit
  /\ UNCHANGED <<outputs, open, settingsVars, handlerVars, ungoverned, resets>>

\* All doors are locked, and the settings have their defaults again.
sysinit ==
  /\ resets < MaxResets /\ resets' = resets + 1
  /\ outputs' = {} /\ lit' = FALSE /\ open' = {}
  /\ interlock' = 0 /\ closed' = {} /\ ungoverned' = {}
  /\ Done

DoorsNext ==
  \/ \E d \in Doors : \/ \E u \in BOOLEAN : MIB_set_door_unlock(d, u)
                      \/ unlock_door(d) \/ U3_get_door(d) \/ U4_tick(d)
  \/ \E d \in NormallyClosed : MIB_set_door_mode(d)
  \/ \E k \in Interlocks : MIB_set_doors_interlock(k)
  \/ ReadDoor \/ Refuse \/ Commit \/ Blink \/ sysinit

DoorsSpec == DoorsInit /\ [][DoorsNext]_doorsVars

-----------------------------------------------------------------------------
\* Every variable has its type, and only a door that is unlocked is ungoverned.
DoorsTypeOK ==
  /\ outputs \subseteq Doors /\ lit \in BOOLEAN /\ open \subseteq Doors
  /\ interlock \in Interlocks \cup {0} /\ closed \subseteq Doors
  /\ door \in 0 .. 4 /\ unlock \in BOOLEAN
  /\ step \in 0 .. 5 /\ (step = 0 <=> Idle) /\ blocked \in BOOLEAN
  /\ ungoverned \subseteq outputs /\ resets \in Nat

\* The doors that exclude each other and door 1 are never unlocked together,
\* once the interlock is set and unless the CLI unlocks them: the check of
\* doors_interlocked outlives the interrupts between it and the unlocking.
OthersExclusive ==
  \A g \in Groups(interlock) : 1 \in g =>
    \A d, e \in g \ {1} : d # e /\ {d, e} \subseteq outputs => {d, e} \cap ungoverned # {}

\* A door that a host unlocks is, when it does unlock, not NORMALLY_CLOSED, no
\* door that it excludes is seen open, and door 1 is locked if it excludes that.
UnlockPermitted ==
  [][\A d \in outputs' \ (outputs \cup ungoverned') :
       d \notin closed /\ Mask(d) \cap (open \cup (outputs \cap {1})) = {}]_doorsVars

\* Interlocked doors are never unlocked at the same time (doors.h:12-19).
InterlockHolds ==
  \A g \in Groups(interlock) : Cardinality((g \cap outputs) \ ungoverned) <= 1
=============================================================================
