-------------------------------- MODULE Bisync --------------------------------
(***************************************************************************)
(* The framing of the packets on the serial line (encoding/bisync of the   *)
(* firmware and of zero2w/rpcd):                                           *)
(*     SYN SYN STX <packet, control bytes escaped with DLE> ETX <CRC-16>   *)
(* A frame may have a header, SOH <header>, before STX; neither side sends *)
(* one.  The decoders are automata over single bytes.                      *)
(***************************************************************************)
EXTENDS Integers, Sequences

CONSTANT Checksum(_, _)  \* of a header and a packet: CRC16

SOH == 1
STX == 2
ETX == 3
ENQ == 5
ACK == 6
DLE == 16
SYN == 22
Controls == {SOH, STX, ETX, ENQ, ACK, DLE, SYN}

HEADER_SIZE == 128
DATA_SIZE == 512
-----------------------------------------------------------------------------
\* The CRC, as its high and its low byte.
CRC(header, data) == LET c == Checksum(header, data) IN <<c \div 256, c % 256>>

\* Mutant: ACK is not escaped.
NoAck(data) ==
  LET e[i \in 0 .. Len(data)] ==
        IF i = 0 THEN <<>>
        ELSE e[i - 1] \o IF data[i] \in Controls \ {ACK} THEN <<DLE, data[i]>> ELSE <<data[i]>>
  IN  e[Len(data)]
Escaped(data) ==
  LET e[i \in 0 .. Len(data)] ==
        IF i = 0 THEN <<>>
        ELSE e[i - 1] \o IF data[i] \in Controls THEN <<DLE, data[i]>> ELSE <<data[i]>>
  IN  e
Escape(data) == Escaped(data)[Len(data)]
\* Mutant: one SYN.
OneSyn(data) == <<SYN, STX>> \o Escape(data) \o <<ETX>> \o CRC(<<>>, data)
bisync_encode(data) == <<SYN, SYN, STX>> \o Escape(data) \o <<ETX>> \o CRC(<<>>, data)

SYN_SYN_ACK == <<SYN, SYN, ACK>>
-----------------------------------------------------------------------------
Reset == [header |-> <<>>, data |-> <<>>, crc |-> <<>>,
          DLE |-> FALSE, SOH |-> FALSE, STX |-> FALSE, CRC |-> FALSE]

\* What a byte does: the decoder's next state, and the packet it completes
\* (received), or an enquiry (enq).
Quiet == "quiet"
Received == "received"
Enquired == "enq"
Step(codec) == [codec |-> codec, event |-> Quiet, data |-> <<>>]

\* Mutant: the CRC is not compared.
Unchecked(codec, b) ==
  IF codec.crc = <<>> THEN Step([codec EXCEPT !.crc = <<b>>])
  ELSE [codec |-> Reset, data |-> codec.data, event |-> Received]
\* After ETX: the two bytes of the CRC, whatever they are.
Check(codec, b) ==
  IF codec.crc = <<>> THEN Step([codec EXCEPT !.crc = <<b>>])
  ELSE [codec |-> Reset, data |-> codec.data,
        event |-> IF codec.crc \o <<b>> = CRC(codec.header, codec.data) THEN Received ELSE Quiet]

\* A byte of the header or of the packet; one too many starts over.
Accumulate(codec, b) ==
  IF codec.SOH THEN IF Len(codec.header) < HEADER_SIZE
                    THEN [codec EXCEPT !.header = Append(@, b)] ELSE Reset
  ELSE IF codec.STX THEN IF Len(codec.data) < DATA_SIZE
                         THEN [codec EXCEPT !.data = Append(@, b)] ELSE Reset
  ELSE codec

\* The firmware's decoder.
bisync_decode(codec, b) ==
  CASE codec.CRC -> Check(codec, b)
    [] ~codec.CRC /\ codec.DLE -> Step(Accumulate([codec EXCEPT !.DLE = FALSE], b))
    [] ~codec.CRC /\ ~codec.DLE ->
      (CASE b = SYN -> Step(Reset)
         [] b = ENQ -> [Step(Reset) EXCEPT !.event = Enquired]
         [] b = SOH -> Step([Reset EXCEPT !.SOH = TRUE])
         [] b = STX -> Step([codec EXCEPT !.SOH = FALSE, !.STX = TRUE])
         [] b = ETX -> Step([codec EXCEPT !.STX = FALSE, !.CRC = TRUE])
         [] b = DLE -> Step([codec EXCEPT !.DLE = TRUE])
         [] OTHER   -> Step(Accumulate(codec, b)))

\* After DLE the host adds the byte whatever the limit.
Amass(codec, b) ==
  [codec EXCEPT !.DLE = FALSE,
                !.header = IF codec.SOH THEN Append(codec.header, b) ELSE codec.header,
                !.data = IF codec.STX THEN Append(codec.data, b) ELSE codec.data]

\* The host's decoder: SOH does not start over, ENQ and ACK do.  (Its callbacks
\* for ENQ and ACK are empty.)  A byte too many also drops what has been read
\* with it (bisync.go:143), which is left out: here the next byte starts over.
decode(codec, b) ==
  CASE codec.CRC -> Check(codec, b)
    [] ~codec.CRC /\ codec.DLE -> Step(Amass(codec, b))
    [] ~codec.CRC /\ ~codec.DLE ->
      (CASE b \in {SYN, ENQ, ACK} -> Step(Reset)
         [] b = SOH -> Step([codec EXCEPT !.SOH = TRUE, !.STX = FALSE])
         [] b = STX -> Step([codec EXCEPT !.SOH = FALSE, !.STX = TRUE])
         [] b = ETX -> Step([codec EXCEPT !.STX = FALSE, !.CRC = TRUE])
         [] b = DLE -> Step([codec EXCEPT !.DLE = TRUE])
         [] OTHER   -> Step(Accumulate(codec, b)))
-----------------------------------------------------------------------------
(***************************************************************************)
(* What a side makes of bytes: its codec after the first i of them, what   *)
(* the last of these did, and the packets so far.                          *)
(***************************************************************************)
Decode1(side, codec, b) == IF side = "device" THEN bisync_decode(codec, b) ELSE decode(codec, b)

Hear(side, h, b) ==
  LET n == Decode1(side, h.codec, b)
  IN  [codec |-> n.codec, event |-> n.event,
       packets |-> IF n.event = Received THEN Append(h.packets, n.data) ELSE h.packets]
Hearing(side, codec, s) ==
  LET h[i \in 0 .. Len(s)] == IF i = 0 THEN [codec |-> codec, event |-> Quiet, packets |-> <<>>]
                              ELSE CHOOSE z \in {Hear(side, y, s[i]) : y \in {h[i - 1]}} : TRUE
  IN  h
Heard(side, codec, s) == Hearing(side, codec, s)[Len(s)]
=============================================================================
