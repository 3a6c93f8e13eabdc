---------------------------------- MODULE MIB ----------------------------------
(***************************************************************************)
(* The objects the device offers (MIB.c), what GET and SET do with them    *)
(* (get.c, set.c) and which of them are public (auth.c).                   *)
(*                                                                         *)
(* Of the device only what SET changes and GET returns is a state here:    *)
(* the interlock, the modes and the delays.  What else can be read, the    *)
(* clock, the error flags, the relays, contacts and buttons, changes at    *)
(* any time and may have any value; setting the clock or a relay is queued *)
(* for another part and does not change it at once.                        *)
(***************************************************************************)
EXTENDS Packets

CONSTANTS
  Texts,   \* OCTETS: the date and time, the board's identifier, a release
  Masks    \* the error flags

NONE == 0
NO_SUCH_OBJECT == 2
BAD_VALUE == 3
READONLY == 4
NO_ACCESS == 6
WRONG_TYPE == 7
COMMIT_FAILED == 14
NOT_WRITABLE == 17
INVALID_STATE == 254
Codes == {NONE, NO_SUCH_OBJECT, BAD_VALUE, READONLY, NO_ACCESS, WRONG_TYPE, COMMIT_FAILED,
          NOT_WRITABLE, INVALID_STATE}

Doors == 1 .. 4
Base == <<0, 1, 3, 6, 1, 4, 1, 65536>>
BOARD_ID == Base \o <<1, 1>>
CONTROLLER(k) == Base \o <<2, k>>
ID == CONTROLLER(1)
VERSION == CONTROLLER(2)
RELEASED == CONTROLLER(3)
DATETIME == CONTROLLER(8)
SYSERROR == CONTROLLER(9)
SYSINFO == CONTROLLER(10)
ALARM(k) == Base \o <<4, k>>
INTERLOCK == Base \o <<3, 0, 1>>
DOOR(k) == {Base \o <<3, d, k>> : d \in Doors}
MODES == DOOR(1)
DELAYS == DOOR(2)
UNLOCKED == DOOR(4)
OPEN == DOOR(5)
BUTTONS == DOOR(6)
SWIPES == DOOR(7)
KEYCODES == DOOR(8)
ACCESS == DOOR(9)
DoorOf(oid) == oid[Len(Base) + 2]

\* SYSERROR.RESTART (1) to SYSERROR.UNKNOWN (11).
FLAG(e) == SYSERROR \o <<e>>
FLAGS == {FLAG(e) : e \in 1 .. 11}

Gettable == {BOARD_ID, ID, VERSION, RELEASED, DATETIME, SYSERROR, SYSINFO, INTERLOCK, ALARM(1), ALARM(2)}
            \cup FLAGS \cup MODES \cup DELAYS \cup UNLOCKED \cup OPEN \cup BUTTONS
Settable == {DATETIME, SYSERROR, INTERLOCK} \cup FLAGS \cup MODES \cup DELAYS \cup UNLOCKED \cup ACCESS
OIDs == Gettable \cup Settable \cup SWIPES \cup KEYCODES

MIB_has(oid) == oid \in Gettable \cup Settable

\* PUBLIC of auth.c.  (The host is never of the private community.)
PublicGets == Gettable \ {BOARD_ID, FLAG(1)}
PublicSets == {DATETIME, INTERLOCK} \cup MODES \cup DELAYS \cup UNLOCKED \cup ACCESS
auth_authorised(community, tag, oid) ==
  community = Public /\ oid \in IF tag = GET THEN PublicGets ELSE PublicSets
auth_validate(community) == community = Public
-----------------------------------------------------------------------------
Settings == [interlock : {0, 1, 2, 3, 4, 8}, mode : [Doors -> 1 .. 3], delay : [Doors -> 1 .. 60]]

Boolean(b) == Field(BOOL, b)
Number(n) == Field(INT, n)
Strings == {Field(OCTETS, t) : t \in Texts}
Booleans == {Boolean(b) : b \in BOOLEAN}
\* What an answer can tell, besides the value of the request.
Answerable == Strings \cup Booleans \cup {Nothing}
              \cup {Number(n) : n \in Masks \cup 0 .. 60 \cup {255, 405419896}}

\* An outcome: the error and, if it is NONE, the value.
Outcome(e, v) == [error |-> e, value |-> v]
Values(vs) == {Outcome(NONE, v) : v \in vs}
MIB_get_controller_syserror(oid) ==
  IF oid = SYSERROR THEN Values({Number(n) : n \in Masks})
  ELSE IF oid \in {FLAG(1), FLAG(11)} THEN {Outcome(NO_SUCH_OBJECT, Nothing)}
  ELSE Values(Booleans)
MIB_get_door(oid, s) ==
  CASE oid = INTERLOCK -> Values({Number(s.interlock)})
    [] oid \in MODES   -> Values({Number(s.mode[DoorOf(oid)])})
    [] oid \in DELAYS  -> Values({Number(s.delay[DoorOf(oid)])})
    [] oid \in {ALARM(1), ALARM(2)} -> Values({Boolean(FALSE)})
    [] OTHER           -> Values(Booleans)
MIB_get(oid, s) ==
  CASE oid \notin Gettable -> {Outcome(NO_SUCH_OBJECT, Nothing)}
    [] oid \in {BOARD_ID, RELEASED} -> Values(Strings)
    [] oid = DATETIME      -> Values(Strings \cup {Nothing})
    [] oid = ID            -> Values({Number(405419896)})
    [] oid = VERSION       -> Values({Number(1)})
    [] oid = SYSINFO       -> Values({Number(0)})
    [] oid \in FLAGS \cup {SYSERROR} -> MIB_get_controller_syserror(oid)
    [] OTHER               -> MIB_get_door(oid, s)
-----------------------------------------------------------------------------
(***************************************************************************)
(* SET: the settings after it and its outcomes.  After an error the value  *)
(* of the answer is uninitialised (SSMP.c:332): the encoder takes it for   *)
(* what its tag happens to say, and an unknown tag for NULL.  (A text of   *)
(* no address at all, which stops the board, is left out.)                 *)
(***************************************************************************)
Garbage == {Nothing, Number(7), Boolean(TRUE)} \cup Strings
Errors(s, es) == {[settings |-> s, error |-> e, value |-> v] : e \in es, v \in Garbage}
Done(s, outcomes) == {[settings |-> s, error |-> o.error, value |-> o.value] : o \in outcomes}

\* The clock refuses or has not the new time yet, or the text is no date.
MIB_set_controller_datetime(u, s) ==
  IF u.tag # OCTETS THEN Errors(s, {WRONG_TYPE})
  ELSE Errors(s, {NOT_WRITABLE, BAD_VALUE, COMMIT_FAILED}) \cup Done(s, Values({u}))
MIB_set_controller_syserror(oid, u, s) ==
  IF u.tag # BOOL THEN Errors(s, {WRONG_TYPE})
  ELSE IF u.value THEN Errors(s, {BAD_VALUE})
  ELSE Done(s, MIB_get_controller_syserror(oid))
MIB_set_doors_interlock(u, s) ==
  IF u.tag # INT THEN Errors(s, {WRONG_TYPE})
  ELSE IF u.value \notin {0, 1, 2, 3, 4, 8} THEN Errors(s, {BAD_VALUE})
  ELSE Done([s EXCEPT !.interlock = u.value], Values({u}))
MIB_set_door_mode(oid, u, s) ==
  IF u.tag # INT THEN Errors(s, {WRONG_TYPE})
  ELSE IF u.value \notin 1 .. 3 THEN Errors(s, {BAD_VALUE})
  ELSE Done([s EXCEPT !.mode[DoorOf(oid)] = u.value], Values({u}))
\* Mutant: any delay.
AnyDelay(oid, u, s) ==
  IF u.tag # INT THEN Errors(s, {WRONG_TYPE})
  ELSE Done([s EXCEPT !.delay[DoorOf(oid)] = u.value % 256], Values({Number(u.value % 256)}))
\* The value is cut to eight bits.
MIB_set_door_delay(oid, u, s) ==
  LET delay == u.value % 256
  IN  IF u.tag # INT THEN Errors(s, {WRONG_TYPE})
      ELSE IF delay \notin 1 .. 60 THEN Errors(s, {COMMIT_FAILED})
      ELSE Done([s EXCEPT !.delay[DoorOf(oid)] = delay], Values({Number(delay)}))
MIB_set_door_unlock(u, s) ==
  IF u.tag # BOOL THEN Errors(s, {WRONG_TYPE})
  ELSE Errors(s, {INVALID_STATE}) \cup Done(s, Values(Booleans))
\* Blinks an LED, and answers the value if it is 1 or 255.
MIB_set_door_access(u, s) ==
  IF u.tag # INT THEN Errors(s, {WRONG_TYPE})
  ELSE Done(s, Values({Number(IF u.value % 256 \in {1, 255} THEN u.value % 256 ELSE 0)}))

MIB_set(oid, u, s) ==
  CASE oid \notin OIDs     -> Errors(s, {NO_SUCH_OBJECT})
    [] oid \in OIDs \ Settable -> Errors(s, {READONLY})
    [] oid = DATETIME      -> MIB_set_controller_datetime(u, s)
    [] oid \in FLAGS \cup {SYSERROR} -> MIB_set_controller_syserror(oid, u, s)
    [] oid = INTERLOCK     -> MIB_set_doors_interlock(u, s)
    [] oid \in MODES       -> MIB_set_door_mode(oid, u, s)
    [] oid \in DELAYS      -> MIB_set_door_delay(oid, u, s)
    [] oid \in UNLOCKED    -> MIB_set_door_unlock(u, s)
    [] oid \in ACCESS      -> MIB_set_door_access(u, s)
=============================================================================
