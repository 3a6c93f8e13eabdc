--------------------------------- MODULE Link ---------------------------------
(***************************************************************************)
(* The serial line between the host (zero2w/rpcd) and the device, from the *)
(* bytes up: the host writes requests and reads answers and traps; the     *)
(* timer interrupt of the device (usb.c) moves the bytes received to a     *)
(* circular buffer and queues MSG_RX; the main loop (SSMP.c) takes them    *)
(* out of the buffer, and answers while it does.                           *)
(*                                                                         *)
(* Bytes are lost where the code loses them: the host discards what is in  *)
(* transit after each request (Flush of serial.go), the circular buffer is *)
(* full, the device gives up writing, or its main queue refuses MSG_RX.    *)
(***************************************************************************)
EXTENDS MIB, Bisync, FiniteSets

CONSTANTS
  HostEncode(_), HostDecode(_),      \* EncodeRequest and Decode: packets to
                                     \* bytes and back
  DeviceEncode(_), DeviceDecode(_),  \* ssmp_encode, BER_decode with ssmp_decode
  Requests,    \* what the host may send: tag, OID and value
  Events,      \* those of the events that happen
  FirstId,     \* the identifier of the first request
  RingSize,    \* sizeof(circular_buffer.bytes) (256)
  PacketSize,  \* CFG_TUD_CDC_RX_BUFSIZE and _TX_BUFSIZE (64)
  Initial,     \* the settings at first
  Cuts,        \* where bytes are lost: how many of those in transit, or of a
               \* write, still arrive, counted from the end
  MaxSent,     \* bound: requests in a behaviour
  MaxTraps,    \* bound: traps in a behaviour
  MaxFaults    \* bound: flushes, refusals and writes that lose something

\* The TRAPs of the device: OID and value.
TRAPS == [oid : {FLAG(1), FLAG(9)}, value : {Boolean(TRUE)}]
         \cup [oid : OPEN \cup BUTTONS \cup UNLOCKED, value : Booleans]
         \cup [oid : SWIPES \cup KEYCODES, value : Strings]

ASSUME LinkAssumption ==
  /\ Events \subseteq TRAPS
  /\ {FirstId, RingSize, PacketSize, MaxSent, MaxTraps, MaxFaults} \cup Cuts \subseteq Nat
  /\ Initial \in Settings /\ RingSize > 1 /\ PacketSize > 0
  /\ \A r \in Requests : r.value.tag = INT => r.value = Number(r.value.value) /\ r.value.value \in Int

\* The requests that the host sends, the answers to them and the traps: each
\* side reads what the other writes.
Asked == {Request(r.tag, FirstId + n, r.oid, r.value) : r \in Requests, n \in 0 .. MaxSent - 1}
Trap(e, t) ==
  [tag |-> TRAP, community |-> Public, enterprise |-> Base, id |-> 405419896,
   category |-> 6, event |-> 0, timestamp |-> t, oid |-> e.oid, value |-> e.value]
Answered(rq) == {Reply(rq, e, v) : e \in Codes, v \in Answerable \cup {rq.value}}
Fits(packet) == packet \in Seq(Byte) /\ Len(packet) <= DATA_SIZE
ASSUME CodecAssumption ==
  /\ \A p \in Asked : Fits(HostEncode(p)) /\ DeviceDecode(HostEncode(p)) = p
  /\ \A p \in (UNION {Answered(rq) : rq \in Asked}) \cup {Trap(e, t) : e \in Events, t \in Texts} :
       Fits(DeviceEncode(p)) /\ HostDecode(DeviceEncode(p)) = p

VARIABLES
  sent, unflushed, decoder, got,  \* the host: requests written, whether the
                                  \* last is to be flushed, codec, packets read
  down, up,                       \* bytes on their way to the device, to the host
  ring, rx,                       \* the buffer; MSG_RXs in the main queue
  codec, flushing, at,            \* SSMP: codec; buffer_flush: running, tail - buffer->tail
  out,                            \* what usb1_write has still to write
  settings,                       \* what SET changes
  did, said,                      \* requests received, packets written (or begun)
  faults                          \* losses so far

hostVars == <<sent, unflushed, decoder, got>>
ringVars == <<ring, rx>>
loopVars == <<codec, flushing, at, out, settings, did, said>>
vars == <<hostVars, down, up, ringVars, loopVars, faults>>

Init ==
  /\ sent = <<>> /\ unflushed = FALSE /\ decoder = Reset /\ got = <<>>
  /\ down = <<>> /\ up = <<>> /\ ring = <<>> /\ rx = 0
  /\ codec = Reset /\ flushing = FALSE /\ at = 0 /\ out = <<>>
  /\ settings = Initial /\ did = <<>> /\ said = <<>> /\ faults = 0

First(s, n) == SubSeq(s, 1, IF n < Len(s) THEN n ELSE Len(s))
From(s, n) == SubSeq(s, n + 1, Len(s))
\* One more loss.
MayFail == faults < MaxFaults /\ faults' = faults + 1
-----------------------------------------------------------------------------
(***************************************************************************)
(* The host.                                                               *)
(***************************************************************************)
Get(r) == Request(r.tag, FirstId + Len(sent), r.oid, r.value)

\* Serial.Run: a request is written ...
Write(r) ==
  /\ Len(sent) < MaxSent /\ ~unflushed
  /\ sent' = Append(sent, Get(r)) /\ unflushed' = TRUE
  /\ \E packet \in {HostEncode(Get(r))} : down' = down \o bisync_encode(packet)
  /\ UNCHANGED <<decoder, got, up, ringVars, loopVars, faults>>

\* ... and what has neither been transmitted nor been read yet is discarded.
Flush ==
  /\ unflushed /\ unflushed' = FALSE
  /\ \/ UNCHANGED <<down, up, faults>>
     \/ /\ MayFail
        /\ \E k \in Cuts, u \in {0, Len(up)} :
             /\ down' = First(down, Len(down) - k) /\ up' = First(up, u)
             /\ <<down', up'>> # <<down, up>>
  /\ UNCHANGED <<sent, decoder, got, ringVars, loopVars>>

\* The host decodes what has arrived, and drops what is no packet.
Packets(ps) ==
  LET d[i \in 0 .. Len(ps)] == IF i = 0 THEN <<>>
                               ELSE IF HostDecode(ps[i]) = Undecodable THEN d[i - 1]
                               ELSE Append(d[i - 1], HostDecode(ps[i]))
  IN  d
\* Mutant: what has been read is read again.
ReadAgain ==
  /\ up # <<>>
  /\ \E h \in {Heard("host", decoder, up)} :
       decoder' = h.codec /\ got' = got \o Packets(h.packets)[Len(h.packets)]
  /\ UNCHANGED <<sent, unflushed, down, up, ringVars, loopVars, faults>>
Read ==
  /\ up # <<>> /\ up' = <<>>
  /\ \E h \in {Heard("host", decoder, up)} :
       decoder' = h.codec /\ got' = got \o Packets(h.packets)[Len(h.packets)]
  /\ UNCHANGED <<sent, unflushed, down, ringVars, loopVars, faults>>
-----------------------------------------------------------------------------
(***************************************************************************)
(* Receiving: tud_cdc_rx_cb, called by tud_task.                           *)
(***************************************************************************)
\* buffer_push of each byte: one place stays free, bytes beyond it are lost.
buffer_push(bytes) == First(ring \o bytes, RingSize - 1)

\* In the timer interrupt, or while usb1_write waits.  A full main queue
\* refuses MSG_RX: the bytes wait for the next.
tud_cdc_rx_cb ==
  LET b == First(down, PacketSize)
      full == Len(ring) + Len(b) > RingSize - 1
  IN  /\ down # <<>> /\ down' = From(down, PacketSize)
      /\ ring' = buffer_push(b)
      /\ \/ rx' = rx + 1 /\ faults' = IF full THEN faults + 1 ELSE faults
         \/ rx' = rx /\ MayFail
      /\ UNCHANGED <<hostVars, up, loopVars>>

\* The interrupt comes while usb1_write, waiting, is in tud_cdc_rx_cb: between
\* two bytes, or in buffer_push, where what the interrupt adds is overwritten.
Nested ==
  LET b == First(down, PacketSize)
      c == First(From(down, PacketSize), PacketSize)
  IN  /\ out # <<>> /\ c # <<>> /\ MayFail
      /\ down' = From(down, 2 * PacketSize) /\ rx' = rx + 2
      /\ \/ ring' = buffer_push(b)
         \/ \E k \in Cuts : ring' = buffer_push(First(b, k) \o c \o From(b, k))
      /\ UNCHANGED <<hostVars, up, loopVars>>
-----------------------------------------------------------------------------
(***************************************************************************)
(* The main loop.                                                          *)
(***************************************************************************)
\* SSMP_received: what becomes of the settings, and the answer.
Answers(rq) ==
  LET err(e) == {[settings |-> settings, error |-> e, value |-> Nothing]}
  IN  IF ~MIB_has(rq.oid) THEN err(NO_SUCH_OBJECT)
      ELSE IF ~auth_authorised(rq.community, rq.tag, rq.oid) /\ auth_validate(rq.community)
      THEN err(NO_ACCESS)
      ELSE IF rq.tag = SET THEN MIB_set(rq.oid, rq.value, settings)
      ELSE UNION {IF o.error = NONE THEN Done(settings, {o}) ELSE err(o.error) : o \in MIB_get(rq.oid, settings)}

SSMP_write(p) ==
  said' = Append(said, p) /\ \E packet \in {DeviceEncode(p)} : out' = bisync_encode(packet)

SSMP_received(rq) ==
  IF rq = Undecodable THEN UNCHANGED <<out, settings, did, said>>
  ELSE /\ did' = Append(did, rq)
       /\ \E a \in Answers(rq) : settings' = a.settings /\ SSMP_write(Reply(rq, a.error, a.value))

\* Bytes up to the first that completes a packet or enquires.
Eat(e, b) == IF e.event # Quiet THEN e
             ELSE LET n == bisync_decode(e.codec, b)
                  IN  [codec |-> n.codec, event |-> n.event, data |-> n.data, n |-> e.n + 1]
Eating(c, s) ==
  LET e[i \in 0 .. Len(s)] == IF i = 0 THEN [codec |-> c, event |-> Quiet, data |-> <<>>, n |-> 0]
                              ELSE CHOOSE z \in {Eat(y, s[i]) : y \in {e[i - 1]}} : TRUE
  IN  e

\* buffer_flush, from one answer to the next: buffer->head is read at each
\* byte, buffer->tail only moves after the last.
SSMP_rx ==
  /\ out = <<>> /\ (flushing \/ rx > 0)
  /\ rx' = IF flushing THEN rx ELSE rx - 1
  /\ \E bytes \in {From(ring, at)} :
     \E e \in {Eating(codec, bytes)[Len(bytes)]} :
       /\ codec' = e.codec
       /\ \/ /\ e.event = Quiet /\ flushing' = FALSE /\ at' = 0 /\ ring' = From(ring, at + e.n)
             /\ UNCHANGED <<out, settings, did, said>>
          \/ /\ e.event # Quiet /\ flushing' = TRUE /\ at' = at + e.n /\ ring' = ring
             /\ \/ /\ e.event = Enquired /\ out' = SYN_SYN_ACK
                   /\ UNCHANGED <<settings, did, said>>
                \/ /\ e.event = Received
                   /\ \E rq \in {DeviceDecode(e.data)} : SSMP_received(rq)
  /\ UNCHANGED <<hostVars, down, up, faults>>

\* An event, with the time if the clock is ready.
SSMP_trap(e) ==
  /\ out = <<>> /\ ~flushing
  /\ Cardinality({i \in DOMAIN said : said[i].tag = TRAP}) < MaxTraps
  /\ \E t \in Texts : SSMP_write(Trap(e, t))
  /\ UNCHANGED <<hostVars, down, up, ringVars, codec, flushing, at, settings, did, faults>>

\* usb1_write: as many bytes as fit, or none for too long, and the rest is
\* given up; all of it if the host is not connected.
usb1_write ==
  /\ out # <<>>
  /\ \/ /\ up' = up \o First(out, PacketSize) /\ out' = From(out, PacketSize)
        /\ UNCHANGED faults
     \/ /\ MayFail /\ out' = <<>>
        /\ \E k \in Cuts \ {0} : up' = up \o First(out, Len(out) - k)
  /\ UNCHANGED <<hostVars, down, ringVars, codec, flushing, at, settings, did, said>>
-----------------------------------------------------------------------------
Next ==
  \/ \E r \in Requests : Write(r)
  \/ Flush
  \/ Read
  \/ tud_cdc_rx_cb
  \/ Nested
  \/ SSMP_rx
  \/ \E e \in Events : SSMP_trap(e)
  \/ usb1_write

Spec == Init /\ [][Next]_vars
-----------------------------------------------------------------------------
(***************************************************************************)
(* Properties.                                                             *)
(***************************************************************************)
\* The elements of s are elements of t, each another one, in their order.
Among(s, t) ==
  \E f \in [DOMAIN s -> DOMAIN t] :
    /\ \A i \in DOMAIN s : s[i] = t[f[i]]
    /\ \A i, j \in DOMAIN s : i < j => f[i] < f[j]

\* However bytes are lost, the device acts on no request that was not sent, not
\* twice on one, and in the order they were sent (bisync_decode, buffer.c).
Faithful == Among(did, sent)

\* And what the host understands is what the device said, in that order.
Understood == Among(got, said)

\* Whatever a decoder has been left with by lost bytes, it takes the next
\* frame: nothing of the frames before can swallow it (the SYNs of bisync_encode).
Probe == <<NULL, 0>>
Frame == bisync_encode(Probe)
Takes(side, codec0) ==
  LET h == Heard(side, codec0, Frame) IN h.event = Received /\ h.packets[Len(h.packets)] = Probe
Resyncs == Takes("device", codec) /\ Takes("host", decoder)

\* When nothing is on its way and nothing was lost, every request has been
\* answered: no byte waits in the buffer for a MSG_RX that does not come.
Served ==
  faults = 0 /\ down = <<>> /\ up = <<>> /\ rx = 0 /\ ~flushing /\ out = <<>> =>
    \A r \in ToSet(sent) : \E p \in ToSet(got) : p.tag = RESPONSE /\ p.id = r.id /\ p.oid = r.oid

\* The setting of an object, and what a request sets it to, if it does: a delay
\* is cut to eight bits.
Stored == {INTERLOCK} \cup MODES \cup DELAYS
Setting(s, oid) == IF oid \in MODES THEN s.mode[DoorOf(oid)]
                   ELSE IF oid \in DELAYS THEN s.delay[DoorOf(oid)] ELSE s.interlock
Valid(oid) == IF oid \in MODES THEN 1 .. 3 ELSE IF oid \in DELAYS THEN 1 .. 60 ELSE {0, 1, 2, 3, 4, 8}
Wanted(rq) == IF rq.oid \in DELAYS THEN rq.value.value % 256 ELSE rq.value.value
Sets(rq, oid) == rq.tag = SET /\ rq.oid = oid /\ rq.value.tag = INT /\ Wanted(rq) \in Valid(oid)

\* What the first i of the requests rqs make of it.
InForce(rqs, oid, i) ==
  LET sets == {j \in 1 .. i : Sets(rqs[j], oid)}
  IN  IF sets = {} THEN Setting(Initial, oid) ELSE Wanted(rqs[Max(sets)])

\* However bytes are lost, the settings are those of the requests received: a
\* refused one changes nothing (MIB_set of set.c).
SettingsObeyed == \A oid \in Stored : Setting(settings, oid) = InForce(did, oid, Len(did))

\* And each answer that the host has without an error tells the value in force
\* when it was given (SSMP_get, SSMP_set).
Obeyed ==
  /\ SettingsObeyed
  /\ \A p \in ToSet(got), i \in DOMAIN did :
       p.tag = RESPONSE /\ p.id = did[i].id /\ p.error = NONE /\ p.oid \in Stored =>
         p.value = Number(InForce(did, p.oid, i))
=============================================================================
