---------------------------------- MODULE BER ----------------------------------
(***************************************************************************)
(* The encoding of the packets of the SSMP protocol in ASN.1 BER, as the   *)
(* firmware (encoding/ASN.1, encoding/ssmp) and the host                   *)
(* (zero2w/rpcd/encoding/ASN.1) write and read them.                       *)
(***************************************************************************)
EXTENDS Packets

Sides == {"device", "host"}
-----------------------------------------------------------------------------
(***************************************************************************)
(* Encoding: the same on both sides but for TRUE.                          *)
(***************************************************************************)
\* n, and what is left of it after each of its digits to a base.
Quotients(n, base, digits) ==
  LET q[i \in 0 .. digits] == IF i = 0 THEN n ELSE q[i - 1] \div base IN q

\* Digits, base 128, all but the last marked: five have the 32 bits.
pack_varint(n) ==
  LET q == Quotients(n, 128, 5)
      k == Min({i \in 1 .. 5 : i = 5 \/ q[i - 1] < 128})
  IN  [i \in 1 .. k |-> (q[k - i] % 128) + IF i < k THEN 128 ELSE 0]

\* A field of the tag with these bytes for its contents.
Pack(tag, c) == <<tag>> \o pack_varint(Len(c)) \o c

\* The shortest two's complement of n, most significant byte first.
Complement(n) ==
  LET q == Quotients(n, 256, 8)
      k == Min({i \in 1 .. 8 : i = 8 \/ q[i - 1] \in -128 .. 127})
  IN  [i \in 1 .. k |-> q[k - i] % 256]
pack_integer(n) == Pack(INT, Complement(n))

\* TRUE as the device and as the host write it.
TrueOf(side) == IF side = "device" THEN 255 ELSE 1
pack_boolean(side, b) == Pack(BOOL, <<IF b THEN TrueOf(side) ELSE 0>>)
pack_octets(s) == Pack(OCTETS, s)
pack_null == Pack(NULL, <<>>)

\* The root 0 is skipped and the next two numbers share a byte.
Varints(s) == FlattenSeq([i \in DOMAIN s |-> pack_varint(s[i])])
Numbering(oid) ==
  LET o == IF oid # <<>> /\ oid[1] = 0 THEN Tail(oid) ELSE oid
      second == IF Len(o) > 1 THEN o[2] ELSE 0
  IN  IF o = <<>> THEN <<>>
      ELSE <<(40 * o[1] + second) % 256>> \o Varints(SubSeq(o, 3, Len(o)))
pack_OID(oid) == Pack(OID, Numbering(oid))

\* Of fields already packed.
pack_sequence(fields) == Pack(SEQUENCE, FlattenSeq(fields))
pack_pdu(tag, fields) == Pack(tag, FlattenSeq(fields))

BER_encode(side, f) ==
  CASE f.tag = BOOL   -> pack_boolean(side, f.value)
    [] f.tag = INT    -> pack_integer(f.value)
    [] f.tag = OCTETS -> pack_octets(f.value)
    [] f.tag = NULL   -> pack_null
-----------------------------------------------------------------------------
(***************************************************************************)
(* Decoding.  Unlike pack_varint, unpack_length takes a first byte above   *)
(* 127 for the number of bytes of the length: the two agree up to 127.     *)
(***************************************************************************)
\* The bytes c as the digits that follow a.
Base256(a, c) ==
  LET v[i \in 0 .. Len(c)] == IF i = 0 THEN a ELSE 256 * v[i - 1] + c[i] IN v[Len(c)]

\* The length, the bytes after it, and whether all of its own were there.
unpack_length(side, b) ==
  IF b = <<>> THEN [n |-> 0, rest |-> b, ok |-> FALSE]
  ELSE IF b[1] < 128 THEN [n |-> b[1], rest |-> Tail(b), ok |-> TRUE]
  ELSE LET skip == IF side = "host" THEN 2 ELSE 1     \* the host drops a byte
           tail == SubSeq(b, skip + 1, Len(b))
           k    == Min({b[1] - 128, Len(tail)})
       IN  [n    |-> Base256(0, SubSeq(tail, 1, k)),
            rest |-> SubSeq(tail, k + 1, Len(tail)), ok |-> k = b[1] - 128]

\* The contents of a field: the device takes what follows if it is less.
Contents(l) == SubSeq(l.rest, 1, Min({l.n, Len(l.rest)}))

unpack_integer(c) ==
  IF c = <<>> \/ Len(c) > 8 THEN 0 ELSE Base256(IF c[1] > 127 THEN -1 ELSE 0, c)

\* The device takes the integer 1 for TRUE and all else for FALSE.
unpack_boolean(side, c) == IF side = "device" THEN unpack_integer(c) = 1 ELSE c[1] = 255

\* The bytes of an OID: the number begun and the numbers before it.
Sub(o, b) ==
  LET n == 128 * o.n + (b % 128)
  IN  IF b < 128 THEN [n |-> 0, oid |-> Append(o.oid, n)] ELSE [o EXCEPT !.n = n]
Subs(start, c) ==
  LET o[i \in 0 .. Len(c)] == IF i = 0 THEN [n |-> 0, oid |-> start]
                              ELSE CHOOSE z \in {Sub(y, c[i]) : y \in {o[i - 1]}} : TRUE
  IN  o
unpack_OID(c) ==
  IF c = <<>> THEN <<0>> ELSE Subs(<<0, c[1] \div 40, c[1] % 40>>, Tail(c))[Len(c) - 1].oid

\* What the host gives up on: a field longer than what follows, an integer of
\* more than eight bytes, a boolean that is neither 255 nor 0.
Refused(side, tag, l) ==
  /\ side = "host"
  /\ \/ ~l.ok \/ l.n > Len(l.rest)
     \/ tag \in {BOOL, INT} /\ l.n > 8
     \/ tag = BOOL /\ (l.n = 0 \/ l.rest[1] \notin {0, 255})

\* The value of a field; the contents of a sequence or a PDU are unpacked where
\* its fields are asked for.
Value(side, tag, c) ==
  CASE tag = BOOL -> unpack_boolean(side, c)
    [] tag = INT  -> unpack_integer(c)
    [] tag = NULL -> <<>>
    [] tag = OID  -> unpack_OID(c)
    [] tag \in {OCTETS} \cup Constructed -> c

Known(side) == {BOOL, INT, OCTETS, NULL, OID, SEQUENCE, GET, SET}
               \cup (IF side = "host" THEN {RESPONSE, TRAP} ELSE {})
MAX_FIELDS == 16
Limit(side, b) == IF side = "device" THEN MAX_FIELDS - 1 ELSE Len(b)

\* The next field.  An unknown tag ends the fields (and the host gives up on
\* the packet: it then lacks the field its decoder asks for next).
unpack_field(side, u) ==
  LET tag == u.rest[1]
      l   == unpack_length(side, Tail(u.rest))
  IN  IF u.rest = <<>> THEN u
      ELSE IF tag \notin Known(side) \/ Refused(side, tag, l) THEN [u EXCEPT !.rest = <<>>]
      ELSE [rest   |-> SubSeq(l.rest, l.n + 1, Len(l.rest)),
            fields |-> Append(u.fields, Field(tag, Value(side, tag, Contents(l))))]
Unpacking(side, b) ==
  LET u[i \in 0 .. Limit(side, b)] ==
        IF i = 0 THEN [rest |-> b, fields |-> <<>>]
        ELSE CHOOSE z \in {unpack_field(side, y) : y \in {u[i - 1]}} : TRUE
  IN  u
unpack(side, b) == Unpacking(side, b)[Limit(side, b)].fields
BER_decode(side, b) == unpack(side, b)
-----------------------------------------------------------------------------
(***************************************************************************)
(* Packets.  A request or response carries one variable, an OID and its    *)
(* value; so does a trap.                                                  *)
(***************************************************************************)
Variable(side, p) == pack_sequence(<<pack_sequence(<<pack_OID(p.oid), BER_encode(side, p.value)>>)>>)
Message(p, fields) ==
  pack_sequence(<<pack_integer(0), pack_octets(p.community), pack_pdu(p.tag, fields)>>)

EncodeRequest(p) ==
  Message(p, <<pack_integer(p.id), pack_integer(0), pack_integer(0), Variable("host", p)>>)
ssmp_encode_response(p) ==
  Message(p, <<pack_integer(p.id), pack_integer(p.error), pack_integer(p.index), Variable("device", p)>>)
ssmp_encode_trap(p) ==
  Message(p, <<pack_OID(p.enterprise), pack_integer(p.id), pack_integer(p.category),
               pack_integer(p.event), pack_octets(p.timestamp), Variable("device", p)>>)
ssmp_encode(p) == IF p.tag = RESPONSE THEN ssmp_encode_response(p) ELSE ssmp_encode_trap(p)

\* The value of field i if it is there and has the tag, and the fields of one.
At(fields, i, tag, default) ==
  IF i <= Len(fields) /\ fields[i].tag = tag THEN fields[i].value ELSE default
Inside(fields, i) == unpack("device", At(fields, i, SEQUENCE, <<>>))

\* What is missing or has another type keeps its default.
Binding(pdu) == Inside(Inside(pdu, 4), 1)
ssmp_decode_get(community, pdu) ==
  [tag |-> GET, community |-> community, id |-> At(pdu, 1, INT, 0),
   oid |-> At(Binding(pdu), 1, OID, <<>>), value |-> Nothing]
ssmp_decode_set(community, pdu) ==
  LET rq == Binding(pdu)
      typed == Len(rq) > 1 /\ rq[2].tag \in {BOOL, INT, OCTETS}
  IN  [ssmp_decode_get(community, pdu) EXCEPT !.tag = SET, !.value = IF typed THEN rq[2] ELSE @]
ssmp_decode(fields) ==
  LET message == Inside(fields, 1)
      community == At(message, 2, OCTETS, <<>>)
      pdu == unpack("device", message[3].value)
  IN  IF Len(message) > 2 /\ message[3].tag = GET THEN ssmp_decode_get(community, pdu)
      ELSE IF Len(message) > 2 /\ message[3].tag = SET THEN ssmp_decode_set(community, pdu)
      ELSE Undecodable

\* Has fields of these types: the host refuses the packet otherwise.
Typed(fields, tags) == Len(fields) >= Len(tags) /\ \A i \in DOMAIN tags : fields[i].tag = tags[i]

\* The variables in a list of them.
Bindings(c) ==
  LET list == unpack("host", c)
  IN  [i \in DOMAIN list |-> IF list[i].tag = SEQUENCE THEN unpack("host", list[i].value) ELSE <<>>]
Bound(list) ==
  list # <<>> /\ \A i \in DOMAIN list : Len(list[i]) > 1 /\ list[i][1].tag = OID
decode_PDU(community, f) ==
  IF ~Typed(f, <<INT, INT, INT, SEQUENCE>>) THEN Undecodable
  ELSE LET v == Bindings(f[4].value)
       IN  IF Bound(v)
           THEN [tag |-> RESPONSE, community |-> community, id |-> f[1].value, error |-> f[2].value,
                 index |-> f[3].value, oid |-> v[1][1].value, value |-> v[1][2]]
           ELSE Undecodable
decode_TRAP(community, f) ==
  IF ~Typed(f, <<OID, INT, INT, INT, OCTETS, SEQUENCE>>) THEN Undecodable
  ELSE LET v == Bindings(f[6].value)
       IN  IF Bound(v)
           THEN [tag |-> TRAP, community |-> community, enterprise |-> f[1].value, id |-> f[2].value,
                 category |-> f[3].value, event |-> f[4].value, timestamp |-> f[5].value,
                 oid |-> v[1][1].value, value |-> v[1][2]]
           ELSE Undecodable
Decode(b) ==
  LET message == unpack("host", At(BER_decode("host", b), 1, SEQUENCE, <<>>))
      pdu == unpack("host", message[3].value)
  IN  IF ~Typed(message, <<INT, OCTETS>>) \/ Len(message) < 3 THEN Undecodable
      ELSE IF message[3].tag = RESPONSE THEN decode_PDU(message[2].value, pdu)
      ELSE IF message[3].tag = TRAP THEN decode_TRAP(message[2].value, pdu)
      ELSE Undecodable
=============================================================================
