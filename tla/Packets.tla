-------------------------------- MODULE Packets --------------------------------
(***************************************************************************)
(* The packets of the SSMP protocol, as both sides have them in memory: a  *)
(* request, the answer to it, a trap.                                      *)
(*                                                                         *)
(* A field is a record of a tag and a value: a BOOLEAN, an INTEGER, the    *)
(* bytes of OCTETS, the numbers of an OID, or the fields of a SEQUENCE or  *)
(* of a PDU.  BER has their bytes, which are 0 .. 255.                     *)
(***************************************************************************)
EXTENDS Integers, Sequences, SequencesExt

Byte == 0 .. 255
BOOL == 1
INT == 2
OCTETS == 4
NULL == 5
OID == 6
SEQUENCE == 48
GET == 160
RESPONSE == 162
SET == 163
TRAP == 164
Constructed == {SEQUENCE, GET, RESPONSE, SET, TRAP}

Field(t, v) == [tag |-> t, value |-> v]
Nothing == Field(NULL, <<>>)

-----------------------------------------------------------------------------
(***************************************************************************)
(* A request or response carries one variable, an OID and its value; so    *)
(* does a trap.                                                            *)
(***************************************************************************)
Public == <<112, 117, 98, 108, 105, 99>>
Request(tag, id, oid, value) ==
  [tag |-> tag, community |-> Public, id |-> id, oid |-> oid, value |-> value]
Reply(rq, error, value) ==
  [tag |-> RESPONSE, community |-> rq.community, id |-> rq.id, error |-> error,
   index |-> IF error = 0 THEN 0 ELSE 1, oid |-> rq.oid, value |-> value]

\* What is no packet.
Undecodable == [tag |-> 0]
=============================================================================
