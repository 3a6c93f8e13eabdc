------------------------------ MODULE LinkProofs ------------------------------
(***************************************************************************)
(* Theorems about Link, for any requests and events, any buffers, packets  *)
(* and losses, any encoding of packets that can be decoded, and any        *)
(* checksum; and that the encoding of the source (BER) is one that can.    *)
(***************************************************************************)
EXTENDS Link, BER, SequenceTheorems, WellFoundedInduction, TLAPS

-----------------------------------------------------------------------------
(***************************************************************************)
(* Induction, with a set of numbers for the property.                      *)
(***************************************************************************)
LEMMA Induction ==
  ASSUME NEW S \in SUBSET Nat, 0 \in S, \A n \in S : n + 1 \in S
  PROVE  S = Nat
<1> DEFINE R == {ss \in Nat \X Nat : ss[1] < ss[2]}
<1>1. IsWellFoundedOn(R, Nat)
  BY NatLessThanWellFounded DEF OpToRel
<1>2. \A x \in Nat : x # 0 => <<x - 1, x>> \in R /\ x - 1 \in Nat
  OBVIOUS
<1> HIDE DEF R
<1>3. ASSUME Nat \ S # {} PROVE FALSE
  <2>1. PICK x \in Nat \ S : \A y \in Nat \ S : <<y, x>> \notin R
    BY <1>1, <1>3, WFMin
  <2>2. x \in Nat /\ x # 0 /\ (x - 1) + 1 = x
    BY <2>1
  <2>3. x - 1 \in S
    BY <1>2, <2>1, <2>2
  <2> QED
    BY <2>1, <2>2, <2>3
<1> QED
  BY <1>3

\* A function can be defined step by step: F starts with x0, and G[i] makes F[i]
\* of the value before it.
Stepwise(G, n, X) == G \in [1 .. n -> [X -> X]]
Unfolds(F, G, n, X, x0) ==
  F \in [0 .. n -> X] /\ F[0] = x0 /\ \A i \in 1 .. n : F[i] = G[i][F[i - 1]]

LEMMA Recursion ==
  ASSUME NEW n \in Nat, NEW X, NEW x0 \in X, NEW G, Stepwise(G, n, X)
  PROVE  \E F : Unfolds(F, G, n, X, x0)
<1>0. G \in [1 .. n -> [X -> X]]
  BY DEF Stepwise
<1> DEFINE Up(F, k) == F \in [0 .. k -> X] /\ F[0] = x0 /\ \A i \in 1 .. k : F[i] = G[i][F[i - 1]]
           S == {k \in Nat : k <= n => \E F : Up(F, k)}
<1>1. 0 \in S
  <2>1. Up([i \in 0 .. 0 |-> x0], 0)
    OBVIOUS
  <2> QED
    BY <2>1
<1>2. ASSUME NEW k \in S PROVE k + 1 \in S
  <2> SUFFICES ASSUME k + 1 <= n PROVE \E F : Up(F, k + 1)
    <3> HIDE DEF Up
    <3> QED
      BY <1>2
  <2>1. k \in Nat /\ k <= n /\ k + 1 \in 1 .. n
    BY <1>2
  <2>2. PICK F : Up(F, k)
    BY <1>2, <2>1
  <2> DEFINE y == G[k + 1][F[k]]
             H == [i \in 0 .. k + 1 |-> IF i <= k THEN F[i] ELSE y]
  <2>3. y \in X
    BY <1>0, <2>1, <2>2
  <2>4. /\ H \in [0 .. k + 1 -> X]
        /\ \A i \in 0 .. k : H[i] = F[i]
        /\ H[k + 1] = y
    <3> HIDE DEF y
    <3> QED
      BY <2>1, <2>2, <2>3
  <2> HIDE DEF H
  <2>5. ASSUME NEW i \in 1 .. k + 1 PROVE H[i] = G[i][H[i - 1]]
    <3>1. CASE i <= k
      <4>1. i \in 1 .. k /\ i \in 0 .. k /\ i - 1 \in 0 .. k
        BY <2>1, <3>1
      <4> QED
        BY <2>2, <2>4, <4>1
    <3>2. CASE i = k + 1
      <4>1. i - 1 = k /\ k \in 0 .. k
        BY <2>1, <3>2
      <4> QED
        BY <2>4, <3>2, <4>1
    <3> QED
      BY <2>1, <3>1, <3>2
  <2>6. H[0] = x0
    BY <2>1, <2>2, <2>4
  <2> WITNESS H
  <2> QED
    BY <2>4, <2>5, <2>6
<1>3. S = Nat
  <2> HIDE DEF Up
  <2> QED
    BY <1>1, <1>2, Induction
<1>4. n \in S
  BY <1>3
<1> QED
  BY <1>4 DEF Unfolds

\* A set that has the empty sequence and every extension of its members has
\* all sequences.
LEMMA SeqInduction ==
  ASSUME NEW S, NEW P \in SUBSET Seq(S), <<>> \in P, \A s \in P, e \in S : Append(s, e) \in P
  PROVE  P = Seq(S)
<1> DEFINE N == {n \in Nat : \A s \in Seq(S) : Len(s) = n => s \in P}
<1>1. 0 \in N
  <2>1. \A s \in Seq(S) : Len(s) = 0 => s = <<>>
    BY EmptySeq
  <2> QED
    BY <2>1
<1>2. ASSUME NEW n \in N PROVE n + 1 \in N
  <2> SUFFICES ASSUME NEW s \in Seq(S), Len(s) = n + 1 PROVE s \in P
    BY <1>2
  <2>1. s # <<>>
    BY <1>2, EmptySeq
  <2>2. PICK t \in Seq(S), e \in S : s = Append(t, e)
    BY <2>1, SequenceEmptyOrAppend
  <2>3. Len(t) = n
    BY <1>2, <2>2, AppendProperties, LenProperties
  <2> QED
    BY <1>2, <2>2, <2>3
<1>3. N = Nat
  BY <1>1, <1>2, Induction
<1>4. \A s \in Seq(S) : Len(s) \in N
  BY <1>3, LenProperties
<1> QED
  BY <1>4

-----------------------------------------------------------------------------
(***************************************************************************)
(* Folds: F goes through the sequence s, from x0, and g makes a value of   *)
(* the one before it and of a member of s.                                 *)
(***************************************************************************)
Steps(g, S, X) == g \in [X \X S -> X]
Folding(F, g, X, x0, s) ==
  /\ F \in [0 .. Len(s) -> X] /\ F[0] = x0
  /\ \A i \in 1 .. Len(s) : F[i] = g[<<F[i - 1], s[i]>>]

LEMMA FoldExists ==
  ASSUME NEW S, NEW s \in Seq(S), NEW X, NEW x0 \in X, NEW g, Steps(g, S, X)
  PROVE  \E F : Folding(F, g, X, x0, s)
<1> DEFINE n == Len(s)
           G == [i \in 1 .. n |-> [x \in X |-> g[<<x, s[i]>>]]]
<1>1. n \in Nat /\ \A i \in 1 .. n : s[i] \in S
  BY LenProperties, ElementOfSeq
<1> HIDE DEF n
<1>2. \A x \in X, i \in 1 .. n : g[<<x, s[i]>>] \in X
  BY <1>1 DEF Steps
<1>3. Stepwise(G, n, X)
  BY <1>2 DEF Stepwise
<1>4. \A i \in 1 .. n, x \in X : G[i][x] = g[<<x, s[i]>>]
  OBVIOUS
<1> HIDE DEF G
<1>5. PICK F : Unfolds(F, G, n, X, x0)
  BY <1>1, <1>3, Recursion
<1>6. F \in [0 .. n -> X] /\ F[0] = x0 /\ \A i \in 1 .. n : F[i] = G[i][F[i - 1]]
  BY <1>5 DEF Unfolds
<1>7. \A i \in 1 .. n : F[i - 1] \in X
  BY <1>1, <1>6
<1> QED
  BY <1>4, <1>6, <1>7 DEF Folding, n

\* A longer sequence is folded the same way, up to its end.
LEMMA FoldSame ==
  ASSUME NEW S, NEW s \in Seq(S), NEW t \in Seq(S), NEW n \in Nat, n <= Len(s), n <= Len(t),
         \A i \in 1 .. n : s[i] = t[i],
         NEW X, NEW x0, NEW g, NEW F, NEW H, Folding(F, g, X, x0, s), Folding(H, g, X, x0, t)
  PROVE  F[n] = H[n]
<1> DEFINE K == {k \in Nat : k <= n => F[k] = H[k]}
<1>1. Len(s) \in Nat /\ Len(t) \in Nat
  BY LenProperties
<1>2. 0 \in K
  BY DEF Folding
<1>3. ASSUME NEW k \in K PROVE k + 1 \in K
  <2> SUFFICES ASSUME k + 1 <= n PROVE F[k + 1] = H[k + 1]
    BY <1>3
  <2>1. /\ k + 1 \in 1 .. n /\ k + 1 \in 1 .. Len(s) /\ k + 1 \in 1 .. Len(t)
        /\ (k + 1) - 1 = k /\ F[k] = H[k]
    BY <1>1, <1>3
  <2> QED
    BY <2>1 DEF Folding
<1>4. K = Nat
  BY <1>2, <1>3, Induction
<1>5. n \in K
  BY <1>4
<1> QED
  BY <1>5

LEMMA FoldEmpty ==
  ASSUME NEW X, NEW x0, NEW g, NEW F, Folding(F, g, X, x0, <<>>)
  PROVE  F[Len(<<>>)] = x0
  BY EmptySeq DEF Folding

Extends(S, t, s, e) ==
  /\ s \in Seq(S) /\ t \in Seq(S) /\ e \in S
  /\ Len(t) = Len(s) + 1 /\ t[Len(s) + 1] = e
  /\ \A i \in 1 .. Len(s) : t[i] = s[i]

LEMMA AppendExtends ==
  ASSUME NEW S, NEW s \in Seq(S), NEW e \in S
  PROVE  Extends(S, Append(s, e), s, e)
  BY AppendProperties DEF Extends

\* <<a, b>> is <<a>> and then b.
LEMMA Pairs ==
  ASSUME NEW S, NEW a \in S, NEW b \in S
  PROVE  Append(<<a>>, b) = <<a, b>> /\ <<a>> \o <<b>> = <<a, b>>
<1> DEFINE s == <<a>>
           t == <<a, b>>
           u == Append(s, b)
<1>1. s \in Seq(S) /\ Len(s) = 1 /\ s[1] = a /\ t \in Seq(S) /\ Len(t) = 2 /\ t[1] = a /\ t[2] = b
  OBVIOUS
<1>2. u = s \o <<b>>
  BY <1>1, AppendIsConcat
<1> HIDE DEF s, t
<1>3. Extends(S, u, s, b)
  BY <1>1, AppendExtends
<1> HIDE DEF u
<1>4. u \in Seq(S) /\ Len(u) = Len(t) /\ \A i \in 1 .. Len(u) : u[i] = t[i]
  BY <1>1, <1>3 DEF Extends
<1>5. u = t
  BY <1>1, <1>4, SeqEqual
<1> QED
  BY <1>2, <1>5 DEF s, t, u

LEMMA FoldAppend ==
  ASSUME NEW S, NEW s, NEW t, NEW e, Extends(S, t, s, e),
         NEW X, NEW x0, NEW g, NEW F, NEW H, Folding(F, g, X, x0, s), Folding(H, g, X, x0, t)
  PROVE  F[Len(s)] \in X /\ H[Len(t)] = g[<<F[Len(s)], e>>]
<1> DEFINE n == Len(s)
<1>1. n \in Nat /\ Len(t) = n + 1 /\ (\A i \in 1 .. n : t[i] = s[i]) /\ t[n + 1] = e
  BY LenProperties DEF Extends
<1>2. n <= Len(s) /\ n <= Len(t) /\ n + 1 \in 1 .. Len(t) /\ (n + 1) - 1 = n /\ n \in 0 .. Len(s)
  BY <1>1
<1> HIDE DEF n
<1>4. F[n] = H[n]
  <2>1. s \in Seq(S) /\ t \in Seq(S)
    BY DEF Extends
  <2> QED
    BY <1>1, <1>2, <2>1, FoldSame
<1>5. H[n + 1] = g[<<H[n], t[n + 1]>>]
  BY <1>2 DEF Folding
<1>6. F[n] \in X
  BY <1>2 DEF Folding
<1> QED
  BY <1>1, <1>4, <1>5, <1>6 DEF n

\* Functions that start alike, and go on alike as long as they are, are equal.
Agrees(n, X, F, f) ==
  /\ n \in Nat /\ F \in [0 .. n -> X] /\ f = [i \in 0 .. n |-> f[i]]
  /\ f[0] = F[0] /\ \A i \in 1 .. n : f[i - 1] = F[i - 1] => f[i] = F[i]

LEMMA Agreeing ==
  ASSUME NEW n, NEW X, NEW F, NEW f, Agrees(n, X, F, f)
  PROVE  f = F
<1> DEFINE K == {k \in Nat : k <= n => f[k] = F[k]}
<1>0. /\ n \in Nat /\ F \in [0 .. n -> X] /\ f = [i \in 0 .. n |-> f[i]]
      /\ f[0] = F[0] /\ \A i \in 1 .. n : f[i - 1] = F[i - 1] => f[i] = F[i]
  BY Zenon DEF Agrees
<1>1. 0 \in K
  BY <1>0
<1>2. ASSUME NEW k \in K PROVE k + 1 \in K
  <2> SUFFICES ASSUME k + 1 <= n PROVE f[k + 1] = F[k + 1]
    BY <1>2
  <2>1. k + 1 \in 1 .. n /\ (k + 1) - 1 = k /\ f[k] = F[k]
    BY <1>0, <1>2
  <2> QED
    BY <1>0, <2>1
<1>3. K = Nat
  BY <1>1, <1>2, Induction
<1>4. \A k \in 0 .. n : f[k] = F[k]
  BY <1>0, <1>3
<1> QED
  BY <1>0, <1>4

-----------------------------------------------------------------------------
(***************************************************************************)
(* The decoders, over the bytes 0 .. 255 and whatever the checksum makes.  *)
(***************************************************************************)
Bytes == Byte \cup {CRC(<<>>, d)[i] : d \in Seq(Byte), i \in {1, 2}}
Codecs == [header : Seq(Bytes), data : Seq(Bytes), crc : Seq(Bytes),
           DLE : BOOLEAN, SOH : BOOLEAN, STX : BOOLEAN, CRC : BOOLEAN]
Outcomes == [codec : Codecs, event : {Quiet, Received, Enquired}, data : Seq(Bytes)]

LEMMA BytesAre ==
  /\ Byte \subseteq Bytes /\ Controls \subseteq Bytes
  /\ \A d \in Seq(Byte) : CRC(<<>>, d)[1] \in Bytes /\ CRC(<<>>, d)[2] \in Bytes
<1>1. Controls \subseteq Byte
  BY DEF Controls, Byte, SOH, STX, ETX, ENQ, ACK, DLE, SYN
<1> QED
  BY <1>1 DEF Bytes

LEMMA Singles ==
  ASSUME NEW b \in Bytes
  PROVE  <<>> \in Seq(Bytes) /\ <<b>> \in Seq(Bytes)
  OBVIOUS

LEMMA ResetType == Reset \in Codecs
  BY EmptySeq DEF Reset, Codecs

LEMMA StepType ==
  ASSUME NEW c \in Codecs
  PROVE  Step(c) \in Outcomes /\ [Step(c) EXCEPT !.event = Enquired] \in Outcomes
  BY EmptySeq DEF Step, Outcomes

LEMMA CheckType ==
  ASSUME NEW c \in Codecs, NEW b \in Bytes
  PROVE  Check(c, b) \in Outcomes
<1>1. c.data \in Seq(Bytes)
  BY DEF Codecs
<1>2. CASE c.crc = <<>>
  <2>1. [c EXCEPT !.crc = <<b>>] \in Codecs
    BY Singles DEF Codecs
  <2> QED
    BY <1>2, <2>1, StepType DEF Check
<1>3. CASE c.crc # <<>>
  BY <1>1, <1>3, ResetType DEF Check, Outcomes
<1> QED
  BY <1>2, <1>3

LEMMA AccumulateType ==
  ASSUME NEW c \in Codecs, NEW b \in Bytes
  PROVE  Accumulate(c, b) \in Codecs
<1>1. Append(c.header, b) \in Seq(Bytes) /\ Append(c.data, b) \in Seq(Bytes)
  BY AppendProperties DEF Codecs
<1>2. /\ [c EXCEPT !.header = Append(@, b)] \in Codecs
      /\ [c EXCEPT !.data = Append(@, b)] \in Codecs
  BY <1>1 DEF Codecs
<1> QED
  BY <1>2, ResetType DEF Accumulate

LEMMA AmassType ==
  ASSUME NEW c \in Codecs, NEW b \in Bytes
  PROVE  Amass(c, b) \in Codecs
<1>1. Append(c.header, b) \in Seq(Bytes) /\ Append(c.data, b) \in Seq(Bytes)
  BY AppendProperties DEF Codecs
<1> QED
  BY <1>1 DEF Amass, Codecs

LEMMA DecodeType ==
  ASSUME NEW side, NEW c \in Codecs, NEW b \in Bytes
  PROVE  Decode1(side, c, b) \in Outcomes
<1>1. /\ [c EXCEPT !.DLE = FALSE] \in Codecs /\ [c EXCEPT !.DLE = TRUE] \in Codecs
      /\ [Reset EXCEPT !.SOH = TRUE] \in Codecs /\ [c EXCEPT !.SOH = TRUE, !.STX = FALSE] \in Codecs
      /\ [c EXCEPT !.SOH = FALSE, !.STX = TRUE] \in Codecs
      /\ [c EXCEPT !.STX = FALSE, !.CRC = TRUE] \in Codecs
  BY ResetType DEF Codecs
<1>2. c.CRC \in BOOLEAN /\ c.DLE \in BOOLEAN
  BY DEF Codecs
<1>3. /\ Accumulate([c EXCEPT !.DLE = FALSE], b) \in Codecs /\ Accumulate(c, b) \in Codecs
      /\ Check(c, b) \in Outcomes /\ Amass(c, b) \in Codecs
  BY <1>1, AccumulateType, CheckType, AmassType
<1>4. bisync_decode(c, b) \in Outcomes
  <2>1. CASE c.CRC
    BY <1>3, <2>1 DEF bisync_decode
  <2>2. CASE ~c.CRC /\ c.DLE
    BY <1>3, <2>2, StepType DEF bisync_decode
  <2>3. CASE ~c.CRC /\ ~c.DLE
    BY <1>1, <1>3, <2>3, ResetType, StepType DEF bisync_decode
  <2> QED
    BY <1>2, <2>1, <2>2, <2>3
<1>5. decode(c, b) \in Outcomes
  <2>1. CASE c.CRC
    BY <1>3, <2>1 DEF decode
  <2>2. CASE ~c.CRC /\ c.DLE
    BY <1>3, <2>2, StepType DEF decode
  <2>3. CASE ~c.CRC /\ ~c.DLE
    BY <1>1, <1>3, <2>3, ResetType, StepType DEF decode
  <2> QED
    BY <1>2, <2>1, <2>2, <2>3
<1> QED
  BY <1>4, <1>5 DEF Decode1

-----------------------------------------------------------------------------
(***************************************************************************)
(* What a side has heard, byte by byte.                                    *)
(***************************************************************************)
Ears == [codec : Codecs, event : {Quiet, Received, Enquired}, packets : Seq(Seq(Bytes))]
Start(c) == [codec |-> c, event |-> Quiet, packets |-> <<>>]
HearStep(side) == [p \in Ears \X Bytes |-> Hear(side, p[1], p[2])]

LEMMA HearType ==
  ASSUME NEW side, NEW h \in Ears, NEW b \in Bytes
  PROVE  Hear(side, h, b) \in Ears
<1> DEFINE n == Decode1(side, h.codec, b)
<1>1. h.codec \in Codecs /\ h.packets \in Seq(Seq(Bytes))
  BY DEF Ears
<1>2. n \in Outcomes
  BY <1>1, DecodeType
<1> HIDE DEF n
<1>3. n.codec \in Codecs /\ n.event \in {Quiet, Received, Enquired} /\ n.data \in Seq(Bytes)
  BY <1>2 DEF Outcomes
<1>4. Append(h.packets, n.data) \in Seq(Seq(Bytes))
  BY <1>1, <1>3, AppendProperties
<1>5. Hear(side, h, b) = [codec |-> n.codec, event |-> n.event,
                          packets |-> IF n.event = Received THEN Append(h.packets, n.data) ELSE h.packets]
  BY DEF Hear, n
<1> QED
  BY <1>1, <1>3, <1>4, <1>5 DEF Ears

LEMMA HearingFolds ==
  ASSUME NEW side, NEW c \in Codecs, NEW s \in Seq(Bytes)
  PROVE  Folding(Hearing(side, c, s), HearStep(side), Ears, Start(c), s)
<1> DEFINE n == Len(s)
           Next1(x, i) == CHOOSE z \in {Hear(side, y, s[i]) : y \in {x}} : TRUE
           Eq(h) == [i \in 0 .. n |-> IF i = 0 THEN Start(c) ELSE Next1(h[i - 1], i)]
           f == CHOOSE h : h = Eq(h)
<1>1. Hearing(side, c, s) = f
  BY DEF Hearing, Start
<1>2. n \in Nat /\ \A i \in 1 .. n : s[i] \in Bytes
  BY LenProperties, ElementOfSeq
<1>3. \A x, i : Next1(x, i) = Hear(side, x, s[i])
  OBVIOUS
<1> HIDE DEF Next1
<1>4. Start(c) \in Ears /\ Steps(HearStep(side), Bytes, Ears)
  <2>1. Start(c) \in Ears
    BY EmptySeq DEF Start, Ears
  <2> QED
    BY <2>1, HearType DEF Steps, HearStep
<1>5. PICK F : Folding(F, HearStep(side), Ears, Start(c), s)
  BY <1>4, FoldExists
<1>6. /\ F \in [0 .. n -> Ears] /\ F[0] = Start(c)
      /\ \A i \in 1 .. n : F[i] = Next1(F[i - 1], i)
  <2>1. /\ F \in [0 .. n -> Ears] /\ F[0] = Start(c)
        /\ \A i \in 1 .. n : F[i] = HearStep(side)[<<F[i - 1], s[i]>>]
    BY <1>5 DEF Folding
  <2>2. \A i \in 1 .. n : F[i - 1] \in Ears
    BY <1>2, <2>1
  <2>3. \A i \in 1 .. n : HearStep(side)[<<F[i - 1], s[i]>>] = Hear(side, F[i - 1], s[i])
    BY <1>2, <2>2 DEF HearStep
  <2> QED
    BY <1>3, <2>1, <2>3
<1> HIDE DEF n
<1>7. F = Eq(F)
  <2>1. \A i \in 0 .. n : F[i] = IF i = 0 THEN Start(c) ELSE Next1(F[i - 1], i)
    BY <1>2, <1>6
  <2>2. F = [i \in 0 .. n |-> F[i]]
    BY <1>6
  <2> QED
    BY <2>1, <2>2
<1>8. f = Eq(f)
  <2> HIDE DEF Eq
  <2> QED
    BY <1>7
<1> HIDE DEF f
<1>9. f = F
  <2>1. f = [i \in 0 .. n |-> f[i]]
    BY <1>8
  <2>2. f[0] = Start(c) /\ \A i \in 1 .. n : f[i] = Next1(f[i - 1], i)
    <3>1. \A i \in 0 .. n : f[i] = Eq(f)[i]
      <4> HIDE DEF Eq
      <4> QED
        BY <1>8
    <3> QED
      BY <1>2, <3>1
  <2>3. f[0] = F[0] /\ \A i \in 1 .. n : f[i - 1] = F[i - 1] => f[i] = F[i]
    BY <1>6, <2>2
  <2>4. n \in Nat /\ F \in [0 .. n -> Ears]
    BY <1>2, <1>6
  <2>5. Agrees(n, Ears, F, f)
    BY <2>1, <2>3, <2>4, Zenon DEF Agrees
  <2> QED
    BY <2>5, Agreeing
<1> QED
  BY <1>1, <1>5, <1>9

LEMMA HeardEmpty ==
  ASSUME NEW side, NEW c \in Codecs
  PROVE  Heard(side, c, <<>>) = Start(c)
<1>1. <<>> \in Seq(Bytes)
  BY EmptySeq
<1>2. Folding(Hearing(side, c, <<>>), HearStep(side), Ears, Start(c), <<>>)
  BY <1>1, HearingFolds
<1> QED
  BY <1>2, FoldEmpty DEF Heard

LEMMA HeardAppend ==
  ASSUME NEW side, NEW c \in Codecs, NEW s \in Seq(Bytes), NEW b \in Bytes
  PROVE  /\ Heard(side, c, s) \in Ears
         /\ Heard(side, c, Append(s, b)) = Hear(side, Heard(side, c, s), b)
<1>1. Append(s, b) \in Seq(Bytes)
  BY AppendProperties
<1>2. /\ Folding(Hearing(side, c, s), HearStep(side), Ears, Start(c), s)
      /\ Folding(Hearing(side, c, Append(s, b)), HearStep(side), Ears, Start(c), Append(s, b))
  BY <1>1, HearingFolds
<1>3. /\ Heard(side, c, s) \in Ears
      /\ Heard(side, c, Append(s, b)) = HearStep(side)[<<Heard(side, c, s), b>>]
  <2> DEFINE F == Hearing(side, c, s)
             H == Hearing(side, c, Append(s, b))
             g == HearStep(side)
             x0 == Start(c)
             t == Append(s, b)
  <2>1. /\ Folding(F, g, Ears, x0, s) /\ Folding(H, g, Ears, x0, t)
        /\ Extends(Bytes, t, s, b)
    BY <1>2, AppendExtends
  <2> HIDE DEF F, H, g, x0, t
  <2>2. F[Len(s)] \in Ears /\ H[Len(t)] = g[<<F[Len(s)], b>>]
    BY <2>1, FoldAppend
  <2> QED
    BY <2>2 DEF Heard, F, H, g, t
<1>4. \A x \in Ears : HearStep(side)[<<x, b>>] = Hear(side, x, b)
  BY DEF HearStep
<1> QED
  BY <1>3, <1>4

LEMMA HeardType ==
  ASSUME NEW side, NEW c \in Codecs, NEW s \in Seq(Bytes)
  PROVE  /\ Heard(side, c, s) \in Ears
         /\ Heard(side, c, s).codec \in Codecs /\ Heard(side, c, s).packets \in Seq(Seq(Bytes))
<1>1. 0 \in Byte /\ 0 \in Bytes
  BY BytesAre DEF Byte
<1> QED
  BY <1>1, HeardAppend DEF Ears

\* To hear s and then t is to hear both, one after the other.
Cat(s, t) == s \o t

LEMMA CatAppend ==
  ASSUME NEW S, NEW s \in Seq(S), NEW t \in Seq(S), NEW e \in S
  PROVE  /\ Cat(s, t) \in Seq(S) /\ Cat(s, <<>>) = s /\ Cat(<<>>, s) = s
         /\ Cat(s, Append(t, e)) = Append(Cat(s, t), e)
<1>1. <<e>> \in Seq(S)
  OBVIOUS
<1>2. Append(t, e) = t \o <<e>> /\ s \o t \in Seq(S)
  BY AppendIsConcat, ConcatProperties
<1>3. Append(s \o t, e) = (s \o t) \o <<e>>
  BY <1>2, AppendIsConcat
<1>4. (s \o t) \o <<e>> = s \o (t \o <<e>>)
  BY <1>1, ConcatAssociative
<1>5. s \o <<>> = s /\ <<>> \o s = s
  BY ConcatEmptySeq
<1> QED
  BY <1>2, <1>3, <1>4, <1>5, Zenon DEF Cat

LEMMA CatAt ==
  ASSUME NEW S, NEW s \in Seq(S), NEW t \in Seq(S)
  PROVE  /\ Cat(s, t) \in Seq(S) /\ Len(Cat(s, t)) = Len(s) + Len(t)
         /\ \A i \in 1 .. Len(s) + Len(t) : Cat(s, t)[i] = IF i <= Len(s) THEN s[i] ELSE t[i - Len(s)]
  BY ConcatProperties, Zenon DEF Cat

LEMMA HeardCat ==
  ASSUME NEW side, NEW c \in Codecs, NEW s \in Seq(Bytes), NEW t \in Seq(Bytes)
  PROVE  LET h == Heard(side, c, s)
             k == Heard(side, h.codec, t)
         IN  /\ Heard(side, c, Cat(s, t)).codec = k.codec
             /\ Heard(side, c, Cat(s, t)).packets = Cat(h.packets, k.packets)
<1> DEFINE h == Heard(side, c, s)
           Both(u) == /\ Heard(side, c, Cat(s, u)).codec = Heard(side, h.codec, u).codec
                      /\ Heard(side, c, Cat(s, u)).packets = Cat(h.packets, Heard(side, h.codec, u).packets)
           P == {u \in Seq(Bytes) : Both(u)}
<1>1. h.codec \in Codecs /\ h.packets \in Seq(Seq(Bytes))
  BY HeardType
<1> HIDE DEF h
<1>2. <<>> \in P
  <2>1. Cat(s, <<>>) = s /\ Heard(side, h.codec, <<>>) = Start(h.codec) /\ <<>> \in Seq(Bytes)
    BY <1>1, HeardEmpty, EmptySeq, ConcatEmptySeq DEF Cat
  <2>2. Cat(h.packets, <<>>) = h.packets
    BY <1>1, ConcatEmptySeq DEF Cat
  <2>3. Heard(side, c, s).codec = h.codec /\ Heard(side, c, s).packets = h.packets
    BY DEF h
  <2> QED
    BY <2>1, <2>2, <2>3 DEF Start
<1>3. ASSUME NEW u \in P, NEW b \in Bytes PROVE Append(u, b) \in P
  <2>1. u \in Seq(Bytes) /\ Append(u, b) \in Seq(Bytes) /\ Both(u)
    BY <1>3, AppendProperties
  <2> HIDE DEF P
  <2>2. Cat(s, u) \in Seq(Bytes) /\ Cat(s, Append(u, b)) = Append(Cat(s, u), b)
    BY <2>1, CatAppend
  <2> DEFINE x == Heard(side, c, Cat(s, u))
             y == Heard(side, h.codec, u)
             n == Decode1(side, x.codec, b)
  <2>3. /\ Heard(side, c, Cat(s, Append(u, b))) = Hear(side, x, b)
        /\ Heard(side, h.codec, Append(u, b)) = Hear(side, y, b)
    BY <1>1, <2>1, <2>2, HeardAppend
  <2>4. x.codec = y.codec /\ x.packets = Cat(h.packets, y.packets) /\ y.packets \in Seq(Seq(Bytes))
        /\ x.codec \in Codecs
    BY <1>1, <2>1, <2>2, HeardType
  <2>5. n.data \in Seq(Bytes)
    BY <2>4, DecodeType DEF Outcomes
  <2> HIDE DEF x, y
  <2>6. Cat(h.packets, Append(y.packets, n.data)) = Append(Cat(h.packets, y.packets), n.data)
    <3> HIDE DEF n
    <3> QED
      BY <1>1, <2>4, <2>5, CatAppend
  <2>7. /\ Hear(side, x, b).codec = n.codec /\ Hear(side, y, b).codec = n.codec
        /\ Hear(side, x, b).packets = IF n.event = Received THEN Append(x.packets, n.data) ELSE x.packets
        /\ Hear(side, y, b).packets = IF n.event = Received THEN Append(y.packets, n.data) ELSE y.packets
    BY <2>4 DEF Hear
  <2> HIDE DEF n
  <2>8. Both(Append(u, b))
    BY <2>3, <2>4, <2>6, <2>7
  <2> HIDE DEF Both
  <2> QED
    BY <2>1, <2>8 DEF P
<1>4. P = Seq(Bytes)
  <2>1. P \in SUBSET Seq(Bytes)
    OBVIOUS
  <2> HIDE DEF P
  <2> QED
    BY <1>2, <1>3, <2>1, SeqInduction
<1>5. Both(t)
  BY <1>4
<1> QED
  BY <1>5 DEF h

-----------------------------------------------------------------------------
(***************************************************************************)
(* Frames.                                                                 *)
(***************************************************************************)
Masked(b) == IF b \in Controls THEN <<DLE, b>> ELSE <<b>>
EscapeStep == [p \in Seq(Bytes) \X Byte |-> Cat(p[1], Masked(p[2]))]

LEMMA MaskedType ==
  ASSUME NEW b \in Byte
  PROVE  Masked(b) \in Seq(Bytes)
<1>1. DLE \in Bytes /\ b \in Bytes
  BY BytesAre DEF Controls
<1>2. <<DLE, b>> \in Seq(Bytes) /\ <<b>> \in Seq(Bytes)
  BY <1>1
<1> QED
  BY <1>2 DEF Masked

LEMMA EscapedFolds ==
  ASSUME NEW s \in Seq(Byte)
  PROVE  Folding(Escaped(s), EscapeStep, Seq(Bytes), <<>>, s)
<1> DEFINE n == Len(s)
           Next1(x, i) == Cat(x, Masked(s[i]))
           Eq(h) == [i \in 0 .. n |-> IF i = 0 THEN <<>> ELSE Next1(h[i - 1], i)]
           f == CHOOSE h : h = Eq(h)
<1>1. Escaped(s) = f
  BY DEF Escaped, Cat, Masked
<1>2. n \in Nat /\ \A i \in 1 .. n : s[i] \in Byte
  BY LenProperties, ElementOfSeq
<1>4. <<>> \in Seq(Bytes) /\ Steps(EscapeStep, Byte, Seq(Bytes))
  <2>1. ASSUME NEW x \in Seq(Bytes), NEW b \in Byte PROVE Cat(x, Masked(b)) \in Seq(Bytes)
    BY MaskedType, ConcatProperties DEF Cat
  <2> QED
    BY <2>1, EmptySeq DEF Steps, EscapeStep
<1>5. PICK F : Folding(F, EscapeStep, Seq(Bytes), <<>>, s)
  BY <1>4, FoldExists
<1>6. /\ F \in [0 .. n -> Seq(Bytes)] /\ F[0] = <<>>
      /\ \A i \in 1 .. n : F[i] = Next1(F[i - 1], i)
  <2>1. /\ F \in [0 .. n -> Seq(Bytes)] /\ F[0] = <<>>
        /\ \A i \in 1 .. n : F[i] = EscapeStep[<<F[i - 1], s[i]>>]
    BY <1>5 DEF Folding
  <2>2. \A i \in 1 .. n : F[i - 1] \in Seq(Bytes)
    BY <1>2, <2>1
  <2>3. \A i \in 1 .. n : EscapeStep[<<F[i - 1], s[i]>>] = Cat(F[i - 1], Masked(s[i]))
    BY <1>2, <2>2 DEF EscapeStep
  <2> QED
    BY <2>1, <2>3
<1> HIDE DEF n, Next1
<1>7. F = Eq(F)
  <2>1. \A i \in 0 .. n : F[i] = IF i = 0 THEN <<>> ELSE Next1(F[i - 1], i)
    BY <1>2, <1>6
  <2>2. F = [i \in 0 .. n |-> F[i]]
    BY <1>6
  <2> QED
    BY <2>1, <2>2
<1>8. f = Eq(f)
  <2> HIDE DEF Eq
  <2> QED
    BY <1>7
<1> HIDE DEF f
<1>9. f = F
  <2>1. f = [i \in 0 .. n |-> f[i]]
    BY <1>8
  <2>2. f[0] = <<>> /\ \A i \in 1 .. n : f[i] = Next1(f[i - 1], i)
    <3>1. \A i \in 0 .. n : f[i] = Eq(f)[i]
      <4> HIDE DEF Eq
      <4> QED
        BY <1>8
    <3> QED
      BY <1>2, <3>1
  <2> DEFINE X == Seq(Bytes)
  <2>3. n \in Nat /\ F \in [0 .. n -> X]
    BY <1>2, <1>6
  <2>4. f[0] = F[0] /\ \A i \in 1 .. n : f[i - 1] = F[i - 1] => f[i] = F[i]
    BY <1>6, <2>2
  <2> HIDE DEF X
  <2>5. Agrees(n, X, F, f)
    BY <2>1, <2>3, <2>4, Zenon DEF Agrees
  <2> QED
    BY <2>5, Agreeing
<1> QED
  BY <1>1, <1>5, <1>9

LEMMA EscapeEmpty == Escape(<<>>) = <<>>
<1>1. <<>> \in Seq(Byte)
  BY EmptySeq
<1>2. Folding(Escaped(<<>>), EscapeStep, Seq(Bytes), <<>>, <<>>)
  BY <1>1, EscapedFolds
<1> QED
  BY <1>2, FoldEmpty DEF Escape

LEMMA EscapeAppend ==
  ASSUME NEW s \in Seq(Byte), NEW b \in Byte
  PROVE  Escape(s) \in Seq(Bytes) /\ Escape(Append(s, b)) = Cat(Escape(s), Masked(b))
<1> DEFINE t == Append(s, b)
           F == Escaped(s)
           H == Escaped(t)
           x0 == <<>>
           X == Seq(Bytes)
<1>1. Extends(Byte, t, s, b) /\ t \in Seq(Byte)
  BY AppendExtends, AppendProperties
<1>2. Folding(F, EscapeStep, X, x0, s) /\ Folding(H, EscapeStep, X, x0, t)
  BY <1>1, EscapedFolds
<1>3. Escape(s) = F[Len(s)] /\ Escape(t) = H[Len(t)]
  BY DEF Escape
<1> HIDE DEF t, F, H, x0, X
<1>4. F[Len(s)] \in X /\ H[Len(t)] = EscapeStep[<<F[Len(s)], b>>]
  BY <1>1, <1>2, FoldAppend
<1>5. \A x \in X : EscapeStep[<<x, b>>] = Cat(x, Masked(b))
  BY DEF EscapeStep, X
<1> QED
  BY <1>3, <1>4, <1>5 DEF t, X

\* A frame is open, and its packet is d so far.
Within(c, d) ==
  /\ c \in Codecs /\ c.header = <<>> /\ c.data = d /\ c.crc = <<>>
  /\ ~c.SOH /\ c.STX /\ ~c.CRC
Opened(c, d) == Within(c, d) /\ ~c.DLE
Escaping(c, d) == Within(c, d) /\ c.DLE
\* It is closed, and q is what there is of its CRC.
Closed(c, d, q) == c \in Codecs /\ c.header = <<>> /\ c.data = d /\ c.crc = q /\ c.CRC

\* Two SYNs start over, whatever was before; STX opens a frame.
LEMMA SynStep ==
  ASSUME NEW side, NEW c \in Codecs
  PROVE  LET n == Decode1(side, c, SYN).codec
         IN  /\ n \in Codecs
             /\ Decode1(side, n, SYN).codec = Reset
             /\ c = Reset => Decode1(side, c, SYN) = Step(Reset)
<1> DEFINE n == Decode1(side, c, SYN).codec
           d == [c EXCEPT !.DLE = FALSE]
<1>1. /\ c.CRC \in BOOLEAN /\ c.DLE \in BOOLEAN /\ SYN \in Bytes
      /\ d \in Codecs /\ d.CRC = c.CRC /\ d.DLE = FALSE
  BY BytesAre DEF Codecs, Controls
<1>2. n \in Codecs
  BY <1>1, DecodeType DEF Outcomes
<1>3. ASSUME NEW k, ~k.CRC, ~k.DLE PROVE Decode1(side, k, SYN) = Step(Reset)
  BY <1>3 DEF Decode1, bisync_decode, decode, SOH, STX, ETX, ENQ, ACK, DLE, SYN
<1>4. Step(Reset).codec = Reset /\ ~Reset.CRC /\ ~Reset.DLE /\ Decode1(side, Reset, SYN) = Step(Reset)
  <2>1. Step(Reset).codec = Reset /\ ~Reset.CRC /\ ~Reset.DLE
    BY DEF Step, Reset
  <2> QED
    BY <1>3, <2>1
<1>5. CASE c.CRC
  <2>1. Decode1(side, c, SYN) = Check(c, SYN)
    BY <1>5 DEF Decode1, bisync_decode, decode
  <2>2. CASE c.crc = <<>>
    <3>1. n = [c EXCEPT !.crc = <<SYN>>]
      BY <2>1, <2>2 DEF Check, Step
    <3>2. n.CRC /\ n.crc # <<>>
      BY <1>5, <3>1 DEF Codecs
    <3>3. Decode1(side, n, SYN) = Check(n, SYN)
      <4> HIDE DEF n
      <4> QED
        BY <3>2 DEF Decode1, bisync_decode, decode
    <3>4. Check(n, SYN).codec = Reset
      <4> HIDE DEF n
      <4> QED
        BY <3>2 DEF Check
    <3> QED
      BY <1>2, <1>4, <3>3, <3>4
  <2>3. CASE c.crc # <<>>
    <3>1. n = Reset
      BY <2>1, <2>3 DEF Check
    <3> QED
      BY <1>2, <1>4, <3>1
  <2> QED
    BY <2>2, <2>3
<1>6. CASE ~c.CRC /\ c.DLE
  <2>1. n = Accumulate(d, SYN) \/ n = Amass(c, SYN)
    BY <1>6 DEF Decode1, bisync_decode, decode, Step
  <2>2. n = Reset \/ (n.CRC = d.CRC /\ n.DLE = d.DLE)
    <3> HIDE DEF n
    <3>1. CASE n = Accumulate(d, SYN)
      <4> HIDE DEF d
      <4> QED
        BY <1>1, <3>1 DEF Accumulate, Codecs
    <3>2. CASE n = Amass(c, SYN)
      BY <1>1, <3>2 DEF Amass, Codecs
    <3> QED
      BY <2>1, <3>1, <3>2
  <2> QED
    BY <1>1, <1>2, <1>3, <1>4, <1>6, <2>2
<1>7. CASE ~c.CRC /\ ~c.DLE
  BY <1>2, <1>3, <1>4, <1>7
<1> QED
  BY <1>1, <1>5, <1>6, <1>7

LEMMA OpenStep ==
  ASSUME NEW side
  PROVE  LET n == Decode1(side, Reset, STX) IN n.event = Quiet /\ Opened(n.codec, <<>>)
<1> DEFINE k == [Reset EXCEPT !.SOH = FALSE, !.STX = TRUE]
<1>1. ~Reset.CRC /\ ~Reset.DLE
  BY DEF Reset
<1>2. k \in Codecs
  BY ResetType DEF Codecs
<1>3. k.header = <<>> /\ k.data = <<>> /\ k.crc = <<>> /\ ~k.SOH /\ k.STX /\ ~k.CRC /\ ~k.DLE
  BY DEF Reset
<1>4. Decode1(side, Reset, STX) = Step(k)
  <2> HIDE DEF k
  <2>1. bisync_decode(Reset, STX) = Step([Reset EXCEPT !.SOH = FALSE, !.STX = TRUE])
    BY <1>1 DEF bisync_decode, SOH, STX, ETX, ENQ, ACK, DLE, SYN
  <2>2. decode(Reset, STX) = Step([Reset EXCEPT !.SOH = FALSE, !.STX = TRUE])
    BY <1>1 DEF decode, SOH, STX, ETX, ENQ, ACK, DLE, SYN
  <2> QED
    BY <2>1, <2>2 DEF Decode1, k
<1> HIDE DEF k
<1>5. Step(k).codec = k /\ Step(k).event = Quiet
  BY DEF Step
<1> QED
  BY <1>2, <1>3, <1>4, <1>5 DEF Opened, Within

\* A byte of the packet, escaped if it must be, is added to it.
LEMMA Added ==
  ASSUME NEW c, NEW d, Opened(c, d), Len(d) < DATA_SIZE, NEW b \in Byte
  PROVE  LET n == Step(Accumulate(c, b)) IN n.event = Quiet /\ Opened(n.codec, Append(d, b))
<1> DEFINE k == Accumulate(c, b)
<1>1. k = [c EXCEPT !.data = Append(d, b)]
  BY DEF Opened, Within, Accumulate
<1>2. k \in Codecs
  BY AccumulateType, BytesAre DEF Opened, Within
<1>3. /\ k.header = <<>> /\ k.data = Append(d, b) /\ k.crc = <<>>
      /\ ~k.SOH /\ k.STX /\ ~k.CRC /\ ~k.DLE
  BY <1>1 DEF Opened, Within, Codecs
<1> HIDE DEF k
<1>4. Step(k).codec = k /\ Step(k).event = Quiet
  BY DEF Step
<1> QED
  BY <1>2, <1>3, <1>4 DEF Opened, Within, k

LEMMA AddStep ==
  ASSUME NEW side, NEW c, NEW d, Opened(c, d), Len(d) < DATA_SIZE, NEW b \in Byte \ Controls
  PROVE  LET n == Decode1(side, c, b) IN n.event = Quiet /\ Opened(n.codec, Append(d, b))
<1>1. ~c.CRC /\ ~c.DLE
  BY DEF Opened, Within
<1>2. bisync_decode(c, b) = Step(Accumulate(c, b)) /\ decode(c, b) = Step(Accumulate(c, b))
  BY <1>1 DEF bisync_decode, decode, Controls
<1> QED
  BY <1>2, Added DEF Decode1

LEMMA EscapeHeard ==
  ASSUME NEW side, NEW c, NEW d, Opened(c, d)
  PROVE  LET n == Decode1(side, c, DLE) IN n.event = Quiet /\ Escaping(n.codec, d)
<1> DEFINE k == [c EXCEPT !.DLE = TRUE]
<1>1. ~c.CRC /\ ~c.DLE
  BY DEF Opened, Within
<1>2. bisync_decode(c, DLE) = Step(k)
  BY <1>1 DEF bisync_decode, SOH, STX, ETX, ENQ, ACK, DLE, SYN
<1>3. decode(c, DLE) = Step(k)
  BY <1>1 DEF decode, SOH, STX, ETX, ENQ, ACK, DLE, SYN
<1>4. k \in Codecs
  BY DEF Opened, Within, Codecs
<1>5. /\ k.header = <<>> /\ k.data = d /\ k.crc = <<>>
      /\ ~k.SOH /\ k.STX /\ ~k.CRC /\ k.DLE
  BY DEF Opened, Within, Codecs
<1> HIDE DEF k
<1>6. Step(k).codec = k /\ Step(k).event = Quiet
  BY DEF Step
<1> QED
  BY <1>2, <1>3, <1>4, <1>5, <1>6 DEF Decode1, Escaping, Within

LEMMA EscapedStep ==
  ASSUME NEW side, NEW c, NEW d, Escaping(c, d), Len(d) < DATA_SIZE, NEW b \in Byte
  PROVE  LET n == Decode1(side, c, b) IN n.event = Quiet /\ Opened(n.codec, Append(d, b))
<1> DEFINE k == [c EXCEPT !.DLE = FALSE]
<1>1. ~c.CRC /\ c.DLE
  BY DEF Escaping, Within
<1>2. bisync_decode(c, b) = Step(Accumulate(k, b)) /\ decode(c, b) = Step(Amass(c, b))
  BY <1>1 DEF bisync_decode, decode
<1>3. k \in Codecs
  BY DEF Escaping, Within, Codecs
<1>4. /\ k.header = <<>> /\ k.data = d /\ k.crc = <<>>
      /\ ~k.SOH /\ k.STX /\ ~k.CRC /\ ~k.DLE
  BY DEF Escaping, Within, Codecs
<1>5. Amass(c, b) = Accumulate(k, b)
  BY DEF Amass, Accumulate, Escaping, Within, Codecs
<1> HIDE DEF k
<1>6. Opened(k, d)
  BY <1>3, <1>4 DEF Opened, Within
<1> QED
  BY <1>2, <1>5, <1>6, Added DEF Decode1

\* ETX closes it, and the two bytes of its CRC complete it.
LEMMA CloseStep ==
  ASSUME NEW side, NEW c, NEW d, Opened(c, d)
  PROVE  LET n == Decode1(side, c, ETX) IN n.event = Quiet /\ Closed(n.codec, d, <<>>)
<1> DEFINE k == [c EXCEPT !.STX = FALSE, !.CRC = TRUE]
<1>1. ~c.CRC /\ ~c.DLE
  BY DEF Opened, Within
<1>2. bisync_decode(c, ETX) = Step(k)
  BY <1>1 DEF bisync_decode, SOH, STX, ETX, ENQ, ACK, DLE, SYN
<1>3. decode(c, ETX) = Step(k)
  BY <1>1 DEF decode, SOH, STX, ETX, ENQ, ACK, DLE, SYN
<1>4. k \in Codecs
  BY DEF Opened, Within, Codecs
<1>5. k.header = <<>> /\ k.data = d /\ k.crc = <<>> /\ k.CRC
  BY DEF Opened, Within, Codecs
<1> HIDE DEF k
<1>6. Step(k).codec = k /\ Step(k).event = Quiet
  BY DEF Step
<1> QED
  BY <1>2, <1>3, <1>4, <1>5, <1>6 DEF Decode1, Closed

LEMMA ChecksumStep ==
  ASSUME NEW side, NEW c, NEW d, Closed(c, d, <<>>), NEW b \in Bytes
  PROVE  LET n == Decode1(side, c, b) IN n.event = Quiet /\ Closed(n.codec, d, <<b>>)
<1> DEFINE k == [c EXCEPT !.crc = <<b>>]
<1>1. bisync_decode(c, b) = Step(k) /\ decode(c, b) = Step(k)
  <2>1. c.CRC /\ Check(c, b) = Step(k)
    BY DEF Closed, Check
  <2> QED
    BY <2>1 DEF bisync_decode, decode
<1>2. k \in Codecs
  BY Singles DEF Closed, Codecs
<1>3. k.header = <<>> /\ k.data = d /\ k.crc = <<b>> /\ k.CRC
  BY DEF Closed, Codecs
<1> HIDE DEF k
<1>4. Step(k).codec = k /\ Step(k).event = Quiet
  BY DEF Step
<1> QED
  BY <1>1, <1>2, <1>3, <1>4 DEF Decode1, Closed

LEMMA LastStep ==
  ASSUME NEW side, NEW c, NEW d, Closed(c, d, <<CRC(<<>>, d)[1]>>)
  PROVE  Decode1(side, c, CRC(<<>>, d)[2]) = [codec |-> Reset, data |-> d, event |-> Received]
<1> DEFINE x == CRC(<<>>, d)
<1>1. <<x[1]>> \o <<x[2]>> = x /\ <<x[1]>> # <<>>
  <2>1. x = <<Checksum(<<>>, d) \div 256, Checksum(<<>>, d) % 256>>
    BY DEF CRC
  <2> DEFINE hi == Checksum(<<>>, d) \div 256
             lo == Checksum(<<>>, d) % 256
  <2>2. x = <<hi, lo>>
    BY <2>1
  <2> HIDE DEF x, hi, lo
  <2>3. x[1] = hi /\ x[2] = lo
    BY <2>2
  <2>4. <<hi>> \o <<lo>> = <<hi, lo>>
    <3>1. hi \in {hi, lo} /\ lo \in {hi, lo}
      OBVIOUS
    <3> QED
      BY <3>1, Pairs, Zenon
  <2>5. <<hi>> # <<>>
    OBVIOUS
  <2> QED
    BY <2>2, <2>3, <2>4, <2>5, Zenon
<1>2. c.CRC /\ c.header = <<>> /\ c.data = d /\ c.crc = <<x[1]>> /\ x = CRC(<<>>, d)
  BY DEF Closed
<1> HIDE DEF x
<1>3. Check(c, x[2]) = [codec |-> Reset, data |-> d, event |-> Received]
  BY <1>1, <1>2 DEF Check
<1>4. bisync_decode(c, x[2]) = Check(c, x[2]) /\ decode(c, x[2]) = Check(c, x[2])
  BY <1>2 DEF bisync_decode, decode
<1> QED
  BY <1>3, <1>4 DEF Decode1, x

LEMMA Triples ==
  ASSUME NEW S, NEW a \in S, NEW b \in S, NEW c \in S
  PROVE  Append(<<a, b>>, c) = <<a, b, c>>
<1> DEFINE s == <<a, b>>
           t == <<a, b, c>>
           u == Append(s, c)
<1>1. /\ s \in Seq(S) /\ Len(s) = 2 /\ s[1] = a /\ s[2] = b
      /\ t \in Seq(S) /\ Len(t) = 3 /\ t[1] = a /\ t[2] = b /\ t[3] = c
  OBVIOUS
<1> HIDE DEF s, t
<1>2. Extends(S, u, s, c)
  BY <1>1, AppendExtends
<1> HIDE DEF u
<1>3. u \in Seq(S) /\ Len(u) = Len(t) /\ \A i \in 1 .. Len(u) : u[i] = t[i]
  BY <1>1, <1>2 DEF Extends
<1>4. u = t
  BY <1>1, <1>3, SeqEqual
<1> QED
  BY <1>4 DEF s, t, u

\* The first byte, and a byte that completes nothing.
LEMMA HeardOne ==
  ASSUME NEW side, NEW c \in Codecs, NEW b \in Bytes
  PROVE  Heard(side, c, <<b>>) = Hear(side, Start(c), b)
<1>1. <<>> \in Seq(Bytes) /\ Append(<<>>, b) = <<b>>
  OBVIOUS
<1>2. Heard(side, c, Append(<<>>, b)) = Hear(side, Heard(side, c, <<>>), b)
  BY <1>1, HeardAppend
<1> QED
  BY <1>1, <1>2, HeardEmpty

LEMMA HearQuiet ==
  ASSUME NEW side, NEW h, NEW b, Decode1(side, h.codec, b).event = Quiet
  PROVE  /\ Hear(side, h, b).codec = Decode1(side, h.codec, b).codec
         /\ Hear(side, h, b).packets = h.packets
  BY DEF Hear, Quiet, Received

LEMMA MaskedHeard ==
  ASSUME NEW side, NEW c, NEW d, Opened(c, d), Len(d) < DATA_SIZE, NEW b \in Byte
  PROVE  LET h == Heard(side, c, Masked(b))
         IN  h.packets = <<>> /\ Opened(h.codec, Append(d, b))
<1>1. c \in Codecs /\ b \in Bytes /\ DLE \in Bytes
  BY BytesAre DEF Opened, Within, Controls
<1>2. Start(c).codec = c /\ Start(c).packets = <<>>
  BY DEF Start
<1>3. CASE b \notin Controls
  <2> DEFINE h == Heard(side, c, <<b>>)
  <2>1. h = Hear(side, Start(c), b)
    BY <1>1, HeardOne
  <2> HIDE DEF h
  <2>2. Decode1(side, c, b).event = Quiet /\ Opened(Decode1(side, c, b).codec, Append(d, b))
    BY <1>3, AddStep
  <2>3. h.packets = <<>> /\ Opened(h.codec, Append(d, b))
    BY <1>2, <2>1, <2>2, HearQuiet
  <2> QED
    BY <1>3, <2>3 DEF Masked, h
<1>4. CASE b \in Controls
  <2> DEFINE g == Heard(side, c, <<DLE>>)
             h == Heard(side, c, <<DLE, b>>)
  <2>1. g = Hear(side, Start(c), DLE)
    BY <1>1, HeardOne
  <2>2. h = Hear(side, g, b)
    <3>1. <<DLE>> \in Seq(Bytes)
      BY <1>1, Singles
    <3>2. Append(<<DLE>>, b) = <<DLE, b>>
      BY <1>1, Pairs
    <3>3. Heard(side, c, Append(<<DLE>>, b)) = Hear(side, g, b)
      BY <1>1, <3>1, HeardAppend
    <3> QED
      BY <3>2, <3>3
  <2> HIDE DEF g, h
  <2>3. Decode1(side, c, DLE).event = Quiet /\ Escaping(Decode1(side, c, DLE).codec, d)
    BY EscapeHeard
  <2>4. g.packets = <<>> /\ Escaping(g.codec, d)
    BY <1>2, <2>1, <2>3, HearQuiet
  <2>5. Decode1(side, g.codec, b).event = Quiet /\ Opened(Decode1(side, g.codec, b).codec, Append(d, b))
    BY <2>4, EscapedStep
  <2>6. h.packets = <<>> /\ Opened(h.codec, Append(d, b))
    BY <2>2, <2>4, <2>5, HearQuiet
  <2> QED
    BY <1>4, <2>6 DEF Masked, h
<1> QED
  BY <1>3, <1>4

LEMMA EscapeType ==
  ASSUME NEW d \in Seq(Byte)
  PROVE  Escape(d) \in Seq(Bytes)
<1>1. 0 \in Byte
  BY DEF Byte
<1> QED
  BY <1>1, EscapeAppend

\* The packet, escaped, is heard as it was.
LEMMA EscapeTaken ==
  ASSUME NEW side, NEW c, Opened(c, <<>>), NEW d \in Seq(Byte), Len(d) <= DATA_SIZE
  PROVE  LET h == Heard(side, c, Escape(d)) IN h.packets = <<>> /\ Opened(h.codec, d)
<1> DEFINE Taken(x) == /\ Heard(side, c, Escape(x)).packets = <<>>
                       /\ Opened(Heard(side, c, Escape(x)).codec, x)
           P == {x \in Seq(Byte) : Len(x) <= DATA_SIZE => Taken(x)}
<1>1. c \in Codecs
  BY DEF Opened, Within
<1>2. <<>> \in P
  <2>1. Heard(side, c, Escape(<<>>)) = Start(c)
    BY <1>1, EscapeEmpty, HeardEmpty
  <2>2. Taken(<<>>)
    BY <2>1 DEF Start
  <2> HIDE DEF Taken
  <2> QED
    BY <2>2, EmptySeq
<1>3. ASSUME NEW x \in P, NEW b \in Byte PROVE Append(x, b) \in P
  <2> HIDE DEF Taken
  <2>1. x \in Seq(Byte) /\ Append(x, b) \in Seq(Byte) /\ Len(Append(x, b)) = Len(x) + 1 /\ Len(x) \in Nat
    BY <1>3, AppendProperties, LenProperties
  <2>2. Len(x) <= DATA_SIZE => Taken(x)
    BY <1>3
  <2> HIDE DEF P
  <2> SUFFICES ASSUME Len(Append(x, b)) <= DATA_SIZE PROVE Taken(Append(x, b))
    BY <2>1 DEF P
  <2>3. Len(x) < DATA_SIZE /\ Taken(x)
    BY <2>1, <2>2 DEF DATA_SIZE
  <2> DEFINE h == Heard(side, c, Escape(x))
             k == Heard(side, h.codec, Masked(b))
             y == Append(x, b)
  <2>4. h.packets = <<>> /\ Opened(h.codec, x)
    BY <2>3 DEF Taken
  <2>5. k.packets = <<>> /\ Opened(k.codec, y)
    <3> HIDE DEF h
    <3> QED
      BY <2>3, <2>4, MaskedHeard
  <2>6. Escape(x) \in Seq(Bytes) /\ Masked(b) \in Seq(Bytes) /\ Escape(y) = Cat(Escape(x), Masked(b))
    BY <2>1, EscapeAppend, MaskedType
  <2>7. /\ Heard(side, c, Cat(Escape(x), Masked(b))).codec = k.codec
        /\ Heard(side, c, Cat(Escape(x), Masked(b))).packets = Cat(h.packets, k.packets)
    BY <1>1, <2>6, HeardCat
  <2> HIDE DEF h, k, y
  <2>8. Cat(<<>>, <<>>) = <<>>
    BY EmptySeq, ConcatEmptySeq DEF Cat
  <2>9. Heard(side, c, Escape(y)).packets = <<>> /\ Opened(Heard(side, c, Escape(y)).codec, y)
    BY <2>4, <2>5, <2>6, <2>7, <2>8
  <2> QED
    BY <2>9 DEF Taken, y
<1>4. P = Seq(Byte)
  <2>1. P \in SUBSET Seq(Byte)
    OBVIOUS
  <2> HIDE DEF P
  <2> QED
    BY <1>2, <1>3, <2>1, SeqInduction
<1> HIDE DEF Taken
<1>5. Taken(d)
  BY <1>4
<1> QED
  BY <1>5 DEF Taken

\* The head of a frame opens it, whatever was before.
Preamble == <<SYN, SYN, STX>>
LEMMA PreambleHeard ==
  ASSUME NEW side, NEW c \in Codecs
  PROVE  LET h == Heard(side, c, Preamble)
         IN  /\ Preamble \in Seq(Bytes) /\ h.packets \in Seq(Seq(Bytes)) /\ Opened(h.codec, <<>>)
             /\ c = Reset => h.packets = <<>>
<1> DEFINE f == Heard(side, c, <<SYN>>)
           g == Heard(side, c, <<SYN, SYN>>)
           h == Heard(side, c, Preamble)
<1>1. SYN \in Bytes /\ STX \in Bytes
  BY BytesAre DEF Controls
<1>2. <<SYN>> \in Seq(Bytes) /\ <<SYN, SYN>> \in Seq(Bytes) /\ Preamble \in Seq(Bytes)
  BY <1>1 DEF Preamble
<1>3. f = Hear(side, Start(c), SYN) /\ g = Hear(side, f, SYN) /\ h = Hear(side, g, STX)
  <2>1. Append(<<SYN>>, SYN) = <<SYN, SYN>> /\ Append(<<SYN, SYN>>, STX) = Preamble
    BY <1>1, Pairs, Triples DEF Preamble
  <2>2. /\ Heard(side, c, Append(<<SYN>>, SYN)) = Hear(side, f, SYN)
        /\ Heard(side, c, Append(<<SYN, SYN>>, STX)) = Hear(side, g, STX)
    BY <1>1, <1>2, HeardAppend
  <2> QED
    BY <1>1, <2>1, <2>2, HeardOne
<1>4. h.packets \in Seq(Seq(Bytes))
  BY <1>2, HeardType
<1> HIDE DEF f, g, h
<1>5. Start(c).codec = c /\ Start(c).packets = <<>>
  BY DEF Start
<1>6. f.codec = Decode1(side, c, SYN).codec /\ g.codec = Decode1(side, f.codec, SYN).codec
  BY <1>3, <1>5 DEF Hear
<1>7. g.codec = Reset
  BY <1>6, SynStep
<1>8. Decode1(side, Reset, STX).event = Quiet /\ Opened(Decode1(side, Reset, STX).codec, <<>>)
  BY OpenStep
<1>9. Opened(h.codec, <<>>) /\ h.packets = g.packets
  BY <1>3, <1>7, <1>8, HearQuiet
<1>10. c = Reset => h.packets = <<>>
  <2> SUFFICES ASSUME c = Reset PROVE g.packets = <<>>
    BY <1>9
  <2>1. Decode1(side, Reset, SYN) = Step(Reset)
    BY ResetType, SynStep
  <2>2. Step(Reset).event = Quiet /\ Step(Reset).codec = Reset
    BY DEF Step
  <2>3. f.codec = Reset /\ f.packets = <<>>
    BY <1>3, <1>5, <2>1, <2>2, HearQuiet
  <2> QED
    BY <1>3, <2>1, <2>2, <2>3, HearQuiet
<1> QED
  BY <1>2, <1>4, <1>9, <1>10 DEF h

\* A frame, byte after byte.
Body(d) == Append(Cat(Preamble, Escape(d)), ETX)
LEMMA FrameBytes ==
  ASSUME NEW d \in Seq(Byte)
  PROVE  LET hi == CRC(<<>>, d)[1]
             lo == CRC(<<>>, d)[2]
         IN  /\ hi \in Bytes /\ lo \in Bytes /\ Cat(Preamble, Escape(d)) \in Seq(Bytes)
             /\ Body(d) \in Seq(Bytes) /\ Append(Body(d), hi) \in Seq(Bytes)
             /\ bisync_encode(d) = Append(Append(Body(d), hi), lo)
             /\ bisync_encode(d) \in Seq(Bytes)
<1> DEFINE x == CRC(<<>>, d)
           hi == x[1]
           lo == x[2]
           e == Escape(d)
           s == Cat(Preamble, e)
           t == Body(d)
<1>1. hi \in Bytes /\ lo \in Bytes /\ ETX \in Bytes /\ SYN \in Bytes /\ STX \in Bytes
  BY BytesAre DEF Controls
<1>2. x = <<hi, lo>>
  BY DEF CRC
<1>3. bisync_encode(d) = ((Preamble \o e) \o <<ETX>>) \o x
  BY DEF bisync_encode, Preamble
<1>4. e \in Seq(Bytes) /\ Preamble \in Seq(Bytes)
  BY <1>1, EscapeType DEF Preamble
<1>5. t = Append(s, ETX) /\ s = Preamble \o e
  BY DEF Body, Cat
<1> HIDE DEF x, hi, lo, e, s, t
<1>6. s \in Seq(Bytes)
  BY <1>4, <1>5, ConcatProperties
<1>7. t \in Seq(Bytes) /\ t = s \o <<ETX>>
  BY <1>1, <1>5, <1>6, AppendProperties, AppendIsConcat
<1> DEFINE u == Append(t, hi)
           v == Append(u, lo)
<1>8. u \in Seq(Bytes) /\ u = t \o <<hi>>
  BY <1>1, <1>7, AppendProperties, AppendIsConcat
<1> HIDE DEF u
<1>9. v \in Seq(Bytes) /\ v = u \o <<lo>>
  BY <1>1, <1>8, AppendProperties, AppendIsConcat
<1> HIDE DEF v
<1>10. <<hi>> \in Seq(Bytes) /\ <<lo>> \in Seq(Bytes) /\ <<hi>> \o <<lo>> = x
  BY <1>1, <1>2, Pairs
<1>11. (t \o <<hi>>) \o <<lo>> = t \o (<<hi>> \o <<lo>>)
  BY <1>7, <1>10, ConcatAssociative
<1>12. v = bisync_encode(d)
  BY <1>3, <1>5, <1>7, <1>8, <1>9, <1>10, <1>11, Zenon
<1> QED
  BY <1>1, <1>5, <1>6, <1>7, <1>8, <1>9, <1>12 DEF x, hi, lo, e, s, t, u, v

\* A frame, heard by either side whatever it heard before, leaves it as at first:
\* the last packet it has then is that of the frame, and the only one if it
\* was as at first when the frame came (bisync_encode and bisync_decode of
\* bisync.c, Encode and Decode of bisync.go).
THEOREM FrameTaken ==
  ASSUME NEW side, NEW c \in Codecs, NEW d \in Seq(Byte), Len(d) <= DATA_SIZE
  PROVE  LET h == Heard(side, c, bisync_encode(d))
         IN  /\ h.codec = Reset /\ h.event = Received
             /\ \E p \in Seq(Seq(Bytes)) : h.packets = Append(p, d) /\ (c = Reset => p = <<>>)
<1> DEFINE hi == CRC(<<>>, d)[1]
           lo == CRC(<<>>, d)[2]
           s == Cat(Preamble, Escape(d))
           t == Body(d)
           u == Append(t, hi)
           k == Heard(side, c, s)
           k1 == Heard(side, c, t)
           k2 == Heard(side, c, u)
           h == Heard(side, c, bisync_encode(d))
<1>1. /\ hi \in Bytes /\ lo \in Bytes /\ ETX \in Bytes
      /\ s \in Seq(Bytes) /\ t \in Seq(Bytes) /\ u \in Seq(Bytes)
      /\ bisync_encode(d) = Append(u, lo) /\ t = Append(s, ETX)
  BY FrameBytes, BytesAre DEF Body, Controls
<1>2. k1 = Hear(side, k, ETX) /\ k2 = Hear(side, k1, hi) /\ h = Hear(side, k2, lo)
  <2> HIDE DEF s, t, hi, lo
  <2>1. k1 = Hear(side, k, ETX)
    BY <1>1, HeardAppend
  <2>2. k2 = Hear(side, k1, hi)
    BY <1>1, HeardAppend
  <2> HIDE DEF u
  <2>3. h = Hear(side, k2, lo)
    BY <1>1, HeardAppend
  <2> QED
    BY <2>1, <2>2, <2>3
<1>3. Opened(k.codec, d) /\ k.packets \in Seq(Seq(Bytes)) /\ (c = Reset => k.packets = <<>>)
  <2> DEFINE f == Heard(side, c, Preamble)
             g == Heard(side, f.codec, Escape(d))
  <2>1. /\ Preamble \in Seq(Bytes) /\ f.packets \in Seq(Seq(Bytes)) /\ Opened(f.codec, <<>>)
        /\ c = Reset => f.packets = <<>>
    BY PreambleHeard
  <2>2. Escape(d) \in Seq(Bytes)
    BY EscapeType
  <2>3. k.codec = g.codec /\ k.packets = Cat(f.packets, g.packets)
    BY <2>1, <2>2, HeardCat
  <2> HIDE DEF f, k
  <2>4. g.packets = <<>> /\ Opened(g.codec, d)
    BY <2>1, EscapeTaken
  <2> HIDE DEF g
  <2>5. Cat(f.packets, <<>>) = f.packets
    BY <2>1, ConcatEmptySeq DEF Cat
  <2> QED
    BY <2>1, <2>3, <2>4, <2>5
<1> HIDE DEF k, k1, k2, h
<1>4. Closed(k1.codec, d, <<>>) /\ k1.packets = k.packets
  <2>1. Decode1(side, k.codec, ETX).event = Quiet /\ Closed(Decode1(side, k.codec, ETX).codec, d, <<>>)
    BY <1>3, CloseStep
  <2> QED
    BY <1>2, <2>1, HearQuiet
<1>5. Closed(k2.codec, d, <<hi>>) /\ k2.packets = k.packets
  <2> HIDE DEF hi
  <2>1. /\ Decode1(side, k1.codec, hi).event = Quiet
        /\ Closed(Decode1(side, k1.codec, hi).codec, d, <<hi>>)
    BY <1>1, <1>4, ChecksumStep
  <2> QED
    BY <1>2, <1>4, <2>1, HearQuiet
<1>6. Decode1(side, k2.codec, lo) = [codec |-> Reset, data |-> d, event |-> Received]
  BY <1>5, LastStep
<1> HIDE DEF lo
<1>7. h.codec = Reset /\ h.event = Received /\ h.packets = Append(k.packets, d)
  <2> DEFINE n == Decode1(side, k2.codec, lo)
  <2>1. n.codec = Reset /\ n.data = d /\ n.event = Received
    BY <1>6
  <2>2. /\ h.codec = n.codec /\ h.event = n.event
        /\ h.packets = IF n.event = Received THEN Append(k2.packets, n.data) ELSE k2.packets
    BY <1>2 DEF Hear
  <2> HIDE DEF n
  <2> QED
    BY <1>5, <2>1, <2>2
<1> QED
  BY <1>3, <1>7 DEF h

-----------------------------------------------------------------------------
(***************************************************************************)
(* What the device answers.                                                *)
(***************************************************************************)
Tells(outcomes, V) == \A o \in outcomes : o.error \in Codes /\ o.value \in V
Leaves(answers, V) == \A a \in answers : a.settings \in Settings /\ a.error \in Codes /\ a.value \in V

LEMMA ValuesTell ==
  ASSUME NEW V, NEW vs \in SUBSET V
  PROVE  Tells(Values(vs), V)
<1>1. \A v \in vs : Outcome(NONE, v).error \in Codes /\ Outcome(NONE, v).value \in V
  BY DEF Outcome, Codes
<1> QED
  BY <1>1 DEF Tells, Values

LEMMA DoneLeaves ==
  ASSUME NEW s \in Settings, NEW V, NEW outcomes, Tells(outcomes, V)
  PROVE  Leaves(Done(s, outcomes), V)
<1>1. ASSUME NEW o \in outcomes
      PROVE  LET a == [settings |-> s, error |-> o.error, value |-> o.value]
             IN  a.settings \in Settings /\ a.error \in Codes /\ a.value \in V
  BY DEF Tells
<1> QED
  BY <1>1 DEF Leaves, Done

Numbers == Masks \cup 0 .. 60 \cup {255, 405419896}
LEMMA NumbersAre ==
  /\ \A n \in 0 .. 60 : n \in Numbers
  /\ 7 \in Numbers /\ 255 \in Numbers /\ 405419896 \in Numbers /\ 0 \in Numbers /\ 1 \in Numbers
  BY SMT DEF Numbers

LEMMA AnswerableAre ==
  /\ Nothing \in Answerable /\ Strings \subseteq Answerable /\ Booleans \subseteq Answerable
  /\ Boolean(FALSE) \in Answerable /\ Garbage \subseteq Answerable
  /\ \A n \in Numbers : Number(n) \in Answerable
<1>1. Boolean(FALSE) \in Booleans /\ Boolean(TRUE) \in Booleans
  BY DEF Booleans
<1>2. \A n \in Numbers : Number(n) \in Answerable
  BY SMT DEF Answerable, Numbers
<1>3. Number(7) \in Answerable
  BY <1>2, NumbersAre, SMT
<1>4. Nothing \in Answerable /\ Strings \subseteq Answerable /\ Booleans \subseteq Answerable
  BY SMT DEF Answerable
<1> QED
  BY <1>1, <1>2, <1>3, <1>4 DEF Garbage

LEMMA ErrorsLeave ==
  ASSUME NEW s \in Settings, NEW es \in SUBSET Codes, NEW V, Answerable \subseteq V
  PROVE  Leaves(Errors(s, es), V)
<1>1. \A e \in es, v \in Garbage :
        LET a == [settings |-> s, error |-> e, value |-> v]
        IN  a.settings \in Settings /\ a.error \in Codes /\ a.value \in V
  BY AnswerableAre
<1> QED
  BY <1>1 DEF Leaves, Errors

\* The door of an object of a door.
LEMMA DoorOfDoor ==
  ASSUME NEW k, NEW oid \in DOOR(k)
  PROVE  DoorOf(oid) \in Doors
<1>1. PICK d \in Doors : oid = Base \o <<3, d, k>>
  BY DEF DOOR
<1> DEFINE s == <<3, d, k>>
           S == Nat \cup {k}
<1>2. d \in S /\ k \in S /\ 3 \in S
  BY SMT DEF Doors
<1>3. Base \in Seq(S)
  <2>1. 0 \in S /\ 1 \in S /\ 3 \in S /\ 4 \in S /\ 6 \in S /\ 65536 \in S
    BY SMT
  <2> HIDE DEF S
  <2> QED
    BY <2>1, SMT DEF Base
<1> HIDE DEF S
<1>4. Len(Base) = 8
  BY SMT DEF Base
<1>5. s \in Seq(S) /\ Len(s) = 3 /\ s[2] = d
  BY <1>2, SMT
<1> HIDE DEF s
<1> DEFINE c == Cat(Base, s)
<1>6. \A i \in 1 .. Len(Base) + Len(s) : c[i] = IF i <= Len(Base) THEN Base[i] ELSE s[i - Len(Base)]
  BY <1>3, <1>5, CatAt
<1>7. c[10] = d
  <2> HIDE DEF c
  <2>1. 10 \in 1 .. Len(Base) + Len(s) /\ 10 - Len(Base) = 2 /\ ~(10 <= Len(Base))
    BY <1>4, <1>5
  <2> QED
    BY <1>5, <1>6, <2>1
<1>8. oid = c
  BY <1>1 DEF s, Cat
<1> HIDE DEF c
<1>9. DoorOf(oid) = oid[10]
  BY <1>4 DEF DoorOf
<1> QED
  BY <1>7, <1>8, <1>9

LEMMA SettingTold ==
  ASSUME NEW s \in Settings, NEW oid
  PROVE  /\ Number(s.interlock) \in Answerable
         /\ oid \in MODES => s.mode[DoorOf(oid)] \in 1 .. 3 /\ Number(s.mode[DoorOf(oid)]) \in Answerable
         /\ oid \in DELAYS => s.delay[DoorOf(oid)] \in 1 .. 60 /\ Number(s.delay[DoorOf(oid)]) \in Answerable
<1>1. s.interlock \in 0 .. 60
  BY DEF Settings
<1>2. oid \in MODES \cup DELAYS => DoorOf(oid) \in Doors
  BY DoorOfDoor DEF MODES, DELAYS
<1>3. oid \in MODES => s.mode[DoorOf(oid)] \in 1 .. 3
  BY <1>2 DEF Settings
<1>4. oid \in DELAYS => s.delay[DoorOf(oid)] \in 1 .. 60
  BY <1>2 DEF Settings
<1>5. \A n \in 0 .. 60 : Number(n) \in Answerable
  BY AnswerableAre, NumbersAre, SMT
<1>6. (\A n \in 1 .. 3 : n \in 0 .. 60) /\ (\A n \in 1 .. 60 : n \in 0 .. 60)
  OBVIOUS
<1> QED
  BY <1>1, <1>3, <1>4, <1>5, <1>6, Zenon

LEMMA SyserrorTells == ASSUME NEW oid PROVE Tells(MIB_get_controller_syserror(oid), Answerable)
<1>1. {Number(n) : n \in Masks} \subseteq Answerable /\ Booleans \subseteq Answerable
  <2>1. \A n \in Masks : n \in Numbers
    BY SMT DEF Numbers
  <2> QED
    BY <2>1, AnswerableAre
<1>2. Tells(Values({Number(n) : n \in Masks}), Answerable) /\ Tells(Values(Booleans), Answerable)
  BY <1>1, ValuesTell
<1>3. Tells({Outcome(NO_SUCH_OBJECT, Nothing)}, Answerable)
  BY AnswerableAre DEF Tells, Outcome, Codes
<1> QED
  BY <1>2, <1>3 DEF MIB_get_controller_syserror

LEMMA GetTells ==
  ASSUME NEW s \in Settings, NEW oid
  PROVE  Tells(MIB_get(oid, s), Answerable)
<1>1. /\ Number(405419896) \in Answerable /\ Number(1) \in Answerable /\ Number(0) \in Answerable
      /\ Strings \cup {Nothing} \subseteq Answerable
  BY AnswerableAre, NumbersAre, SMT
<1>2. \A v \in Answerable : Tells(Values({v}), Answerable)
  BY ValuesTell
<1>3. /\ Tells(Values(Strings), Answerable) /\ Tells(Values(Strings \cup {Nothing}), Answerable)
      /\ Tells(Values(Booleans), Answerable)
  BY <1>1, AnswerableAre, ValuesTell
<1>4. Tells({Outcome(NO_SUCH_OBJECT, Nothing)}, Answerable)
  BY AnswerableAre DEF Tells, Outcome, Codes
<1>5. Tells(MIB_get_door(oid, s), Answerable)
  <2>1. /\ Tells(Values({Number(s.interlock)}), Answerable)
        /\ oid \in MODES => Tells(Values({Number(s.mode[DoorOf(oid)])}), Answerable)
        /\ oid \in DELAYS => Tells(Values({Number(s.delay[DoorOf(oid)])}), Answerable)
        /\ Tells(Values({Boolean(FALSE)}), Answerable)
    BY <1>2, SettingTold, AnswerableAre
  <2> QED
    BY <1>3, <2>1 DEF MIB_get_door
<1> QED
  BY <1>1, <1>2, <1>3, <1>4, <1>5, SyserrorTells, SMT DEF MIB_get

LEMMA SetLeaves ==
  ASSUME NEW s \in Settings, NEW u, NEW oid \in OIDs
  PROVE  Leaves(MIB_set(oid, u, s), Answerable \cup {u})
<1> DEFINE V == Answerable \cup {u}
<1>1. \A es \in SUBSET Codes : Leaves(Errors(s, es), V)
  BY ErrorsLeave
<1>2. \A e \in Codes : Leaves(Errors(s, {e}), V)
  BY <1>1
<1>3. /\ {NO_SUCH_OBJECT, READONLY, WRONG_TYPE, BAD_VALUE, COMMIT_FAILED, INVALID_STATE} \subseteq Codes
      /\ {NOT_WRITABLE, BAD_VALUE, COMMIT_FAILED} \subseteq Codes
  BY DEF Codes
<1>4. \A s1 \in Settings, v \in V : Leaves(Done(s1, Values({v})), V)
  BY ValuesTell, DoneLeaves
<1>5. \A X, Y : Leaves(X, V) /\ Leaves(Y, V) => Leaves(X \cup Y, V)
  BY DEF Leaves
<1>6. u \in V /\ Answerable \subseteq V
  OBVIOUS
<1> HIDE DEF V
<1>7. Leaves(MIB_set_controller_datetime(u, s), V)
  BY <1>1, <1>2, <1>3, <1>4, <1>5, <1>6 DEF MIB_set_controller_datetime
<1>8. Leaves(MIB_set_controller_syserror(oid, u, s), V)
  <2>1. Tells(MIB_get_controller_syserror(oid), V)
    BY <1>6, SyserrorTells DEF Tells
  <2> QED
    BY <1>2, <1>3, <2>1, DoneLeaves DEF MIB_set_controller_syserror
<1>9. Leaves(MIB_set_doors_interlock(u, s), V)
  <2>1. u.value \in {0, 1, 2, 3, 4, 8} => [s EXCEPT !.interlock = u.value] \in Settings
    BY DEF Settings
  <2> QED
    BY <1>2, <1>3, <1>4, <1>6, <2>1 DEF MIB_set_doors_interlock
<1>10. Leaves(MIB_set_door_mode(oid, u, s), V)
  <2>1. u.value \in 1 .. 3 => [s EXCEPT !.mode[DoorOf(oid)] = u.value] \in Settings
    BY DEF Settings
  <2> QED
    BY <1>2, <1>3, <1>4, <1>6, <2>1 DEF MIB_set_door_mode
<1>11. Leaves(MIB_set_door_delay(oid, u, s), V)
  <2>1. \A n \in 1 .. 60 : [s EXCEPT !.delay[DoorOf(oid)] = n] \in Settings
    BY DEF Settings
  <2>2. \A n \in 1 .. 60 : Number(n) \in V
    BY <1>6, AnswerableAre, NumbersAre, SMT
  <2> QED
    BY <1>2, <1>3, <1>4, <2>1, <2>2 DEF MIB_set_door_delay
<1>12. Leaves(MIB_set_door_unlock(u, s), V)
  <2>1. Tells(Values(Booleans), V)
    BY <1>6, AnswerableAre, ValuesTell
  <2> QED
    BY <1>2, <1>3, <1>5, <2>1, DoneLeaves DEF MIB_set_door_unlock
<1>13. Leaves(MIB_set_door_access(u, s), V)
  <2> DEFINE n == IF u.value % 256 \in {1, 255} THEN u.value % 256 ELSE 0
  <2>1. n \in Numbers
    BY NumbersAre, SMT
  <2>2. MIB_set_door_access(u, s)
          = IF u.tag # INT THEN Errors(s, {WRONG_TYPE}) ELSE Done(s, Values({Number(n)}))
    BY DEF MIB_set_door_access
  <2> HIDE DEF n
  <2>3. Number(n) \in V
    BY <1>6, <2>1, AnswerableAre, NumbersAre, SMT
  <2> QED
    BY <1>2, <1>3, <1>4, <2>2, <2>3
<1>14. CASE oid \in Settable
  BY <1>2, <1>3, <1>7, <1>8, <1>9, <1>10, <1>11, <1>12, <1>13, <1>14 DEF MIB_set, Settable, V
<1>15. CASE oid \notin Settable
  <2>1. /\ oid # DATETIME /\ oid # INTERLOCK /\ oid \notin FLAGS \cup {SYSERROR}
        /\ oid \notin MODES /\ oid \notin DELAYS /\ oid \notin UNLOCKED /\ oid \notin ACCESS
    BY <1>15 DEF Settable
  <2> QED
    BY <1>2, <1>3, <1>15, <2>1 DEF MIB_set, V
<1> QED
  BY <1>14, <1>15

LEMMA AnswersLeave ==
  ASSUME NEW rq, settings \in Settings, NEW a \in Answers(rq)
  PROVE  /\ a.settings \in Settings
         /\ Reply(rq, a.error, a.value) \in Answered(rq)
<1> DEFINE V == Answerable \cup {rq.value}
           Err(e) == {[settings |-> settings, error |-> e, value |-> Nothing]}
           Got(o) == IF o.error = NONE THEN Done(settings, {o}) ELSE Err(o.error)
<1>1. \A e \in Codes : Leaves(Err(e), V)
  BY AnswerableAre DEF Leaves
<1>2. NO_SUCH_OBJECT \in Codes /\ NO_ACCESS \in Codes
  BY DEF Codes
<1>3. ASSUME NEW o, o.error \in Codes, o.value \in Answerable PROVE Leaves(Got(o), V)
  <2>1. Tells({o}, V)
    BY <1>3 DEF Tells
  <2> QED
    BY <1>1, <1>3, <2>1, DoneLeaves
<1>4. Leaves(UNION {Got(o) : o \in MIB_get(rq.oid, settings)}, V)
  <2>1. \A o \in MIB_get(rq.oid, settings) : Leaves(Got(o), V)
    BY <1>3, GetTells DEF Tells
  <2> HIDE DEF Got
  <2> QED
    BY <2>1 DEF Leaves
<1>5. rq.oid \in OIDs => Leaves(MIB_set(rq.oid, rq.value, settings), V)
  BY SetLeaves
<1>6. \/ a \in Err(NO_SUCH_OBJECT) \/ a \in Err(NO_ACCESS)
      \/ rq.oid \in OIDs /\ a \in MIB_set(rq.oid, rq.value, settings)
      \/ a \in UNION {Got(o) : o \in MIB_get(rq.oid, settings)}
  <2>1. MIB_has(rq.oid) => rq.oid \in OIDs
    BY DEF MIB_has, OIDs
  <2> QED
    BY <2>1 DEF Answers
<1> HIDE DEF V, Err, Got
<1>7. a.settings \in Settings /\ a.error \in Codes /\ a.value \in V
  BY <1>1, <1>2, <1>4, <1>5, <1>6 DEF Leaves
<1> QED
  BY <1>7 DEF Answered, V

-----------------------------------------------------------------------------
(***************************************************************************)
(* The beginning and the rest of a sequence.                               *)
(***************************************************************************)
LEMMA FirstIs ==
  ASSUME NEW S, NEW s \in Seq(S), NEW n \in Int
  PROVE  /\ First(s, n) \in Seq(S)
         /\ Len(First(s, n)) = IF n < 0 THEN 0 ELSE IF n < Len(s) THEN n ELSE Len(s)
         /\ \A i \in 1 .. Len(First(s, n)) : First(s, n)[i] = s[i]
<1> DEFINE m == IF n < Len(s) THEN n ELSE Len(s)
<1>1. Len(s) \in Nat /\ \A i \in 1 .. Len(s) : s[i] \in S
  BY LenProperties, ElementOfSeq
<1>2. m \in Int /\ \A i \in 1 .. m : s[i] \in S
  BY <1>1
<1>3. First(s, n) = SubSeq(s, 1, m)
  BY DEF First
<1>4. m = IF n < Len(s) THEN n ELSE Len(s)
  OBVIOUS
<1> HIDE DEF m
<1> DEFINE t == SubSeq(s, 1, m)
<1>5. /\ t \in Seq(S) /\ Len(t) = IF 1 <= m THEN m - 1 + 1 ELSE 0
      /\ \A i \in 1 .. m - 1 + 1 : t[i] = s[1 + i - 1]
  BY <1>2, SubSeqProperties
<1> HIDE DEF t
<1>6. /\ t \in Seq(S) /\ Len(t) = (IF n < 0 THEN 0 ELSE IF n < Len(s) THEN n ELSE Len(s))
      /\ \A i \in 1 .. Len(t) : t[i] = s[i]
  BY <1>1, <1>2, <1>4, <1>5
<1> QED
  BY <1>3, <1>6 DEF t

LEMMA FromIs ==
  ASSUME NEW S, NEW s \in Seq(S), NEW n \in Nat
  PROVE  /\ From(s, n) \in Seq(S)
         /\ Len(From(s, n)) = IF n < Len(s) THEN Len(s) - n ELSE 0
         /\ \A i \in 1 .. Len(From(s, n)) : From(s, n)[i] = s[n + i]
<1> DEFINE l == Len(s)
           t == SubSeq(s, n + 1, l)
<1>1. l \in Nat /\ \A i \in 1 .. l : s[i] \in S
  BY LenProperties, ElementOfSeq
<1>2. From(s, n) = t
  BY DEF From
<1>3. /\ t \in Seq(S) /\ Len(t) = IF n + 1 <= l THEN l - (n + 1) + 1 ELSE 0
      /\ \A i \in 1 .. l - (n + 1) + 1 : t[i] = s[n + 1 + i - 1]
  <2> HIDE DEF l
  <2>1. n + 1 \in Int /\ l \in Int /\ \A i \in n + 1 .. l : s[i] \in S
    BY <1>1
  <2> QED
    BY <2>1, SubSeqProperties
<1> HIDE DEF t
<1>4. /\ Len(t) = (IF n < l THEN l - n ELSE 0)
      /\ \A i \in 1 .. Len(t) : t[i] = s[n + i]
  <2> HIDE DEF l
  <2> QED
    BY <1>1, <1>3
<1> QED
  BY <1>2, <1>3, <1>4 DEF t, l

LEMMA Halves ==
  ASSUME NEW S, NEW s \in Seq(S), NEW n \in Nat
  PROVE  Cat(First(s, n), From(s, n)) = s
<1> DEFINE a == First(s, n)
           b == From(s, n)
           c == Cat(a, b)
<1>1. /\ a \in Seq(S) /\ Len(a) = (IF n < 0 THEN 0 ELSE IF n < Len(s) THEN n ELSE Len(s))
      /\ \A i \in 1 .. Len(a) : a[i] = s[i]
  BY FirstIs
<1>2. /\ b \in Seq(S) /\ Len(b) = (IF n < Len(s) THEN Len(s) - n ELSE 0)
      /\ \A i \in 1 .. Len(b) : b[i] = s[n + i]
  BY FromIs
<1> HIDE DEF a, b
<1>3. /\ c \in Seq(S) /\ Len(c) = Len(a) + Len(b)
      /\ \A i \in 1 .. Len(a) + Len(b) : c[i] = IF i <= Len(a) THEN a[i] ELSE b[i - Len(a)]
  BY <1>1, <1>2, CatAt
<1> HIDE DEF c
<1>4. Len(s) \in Nat
  BY LenProperties
<1>5. Len(c) = Len(s)
  <2>0. Len(c) = Len(a) + Len(b)
    BY <1>3
  <2>1. CASE n < Len(s)
    <3>1. ~(n < 0) /\ Len(a) = n
      BY <1>1, <2>1
    <3>2. Len(b) = Len(s) - n
      BY <1>2, <2>1
    <3> QED
      BY <1>4, <2>0, <3>1, <3>2
  <2>2. CASE ~(n < Len(s))
    <3>1. ~(n < 0) /\ Len(a) = Len(s)
      BY <1>1, <2>2
    <3>2. Len(b) = 0
      BY <1>2, <2>2
    <3> QED
      BY <1>4, <2>0, <3>1, <3>2
  <2> QED
    BY <2>1, <2>2
<1>6. ASSUME NEW i \in 1 .. Len(c) PROVE c[i] = s[i]
  <2>1. CASE i <= Len(a)
    <3>1. i \in 1 .. Len(a) /\ i \in 1 .. Len(a) + Len(b)
      BY <1>1, <1>3, <1>4, <1>5, <2>1
    <3> QED
      BY <1>1, <1>3, <2>1, <3>1
  <2>2. CASE ~(i <= Len(a))
    <3>1. n < Len(s) /\ Len(a) = n
      BY <1>1, <1>4, <1>5, <2>2
    <3>2. i - Len(a) \in 1 .. Len(b) /\ i \in 1 .. Len(a) + Len(b) /\ n + (i - Len(a)) = i
      BY <1>1, <1>2, <1>3, <1>4, <2>2, <3>1
    <3> QED
      BY <1>2, <1>3, <2>2, <3>1, <3>2
  <2> QED
    BY <2>1, <2>2
<1>7. c = s
  BY <1>3, <1>5, <1>6, SeqEqual
<1> QED
  BY <1>7 DEF a, b, c

LEMMA FromCat ==
  ASSUME NEW S, NEW s \in Seq(S), NEW t \in Seq(S), NEW n \in 0 .. Len(s)
  PROVE  From(Cat(s, t), n) = Cat(From(s, n), t)
<1> DEFINE a == Cat(s, t)
           b == From(s, n)
           u == From(a, n)
           v == Cat(b, t)
<1>1. Len(s) \in Nat /\ Len(t) \in Nat /\ n \in Nat /\ n <= Len(s)
  BY LenProperties
<1>2. /\ a \in Seq(S) /\ Len(a) = Len(s) + Len(t)
      /\ \A i \in 1 .. Len(s) + Len(t) : a[i] = IF i <= Len(s) THEN s[i] ELSE t[i - Len(s)]
  BY CatAt
<1>3. /\ b \in Seq(S) /\ Len(b) = Len(s) - n
      /\ \A i \in 1 .. Len(b) : b[i] = s[n + i]
  BY <1>1, FromIs
<1> HIDE DEF a, b
<1>4. /\ u \in Seq(S) /\ Len(u) = Len(s) + Len(t) - n
      /\ \A i \in 1 .. Len(u) : u[i] = a[n + i]
  <2>1. /\ u \in Seq(S) /\ Len(u) = (IF n < Len(a) THEN Len(a) - n ELSE 0)
        /\ \A i \in 1 .. Len(u) : u[i] = a[n + i]
    <3>1. a \in Seq(S) /\ n \in Nat
      BY <1>1, <1>2
    <3> QED
      BY <3>1, FromIs
  <2> HIDE DEF u
  <2>2. CASE n < Len(a)
    BY <1>1, <1>2, <2>1, <2>2
  <2>3. CASE ~(n < Len(a))
    <3>1. Len(s) + Len(t) - n = 0
      BY <1>1, <1>2, <2>3
    <3> QED
      BY <2>1, <2>3, <3>1
  <2> QED
    BY <2>2, <2>3
<1>5. /\ v \in Seq(S) /\ Len(v) = Len(b) + Len(t)
      /\ \A i \in 1 .. Len(b) + Len(t) : v[i] = IF i <= Len(b) THEN b[i] ELSE t[i - Len(b)]
  BY <1>3, CatAt
<1> HIDE DEF u, v
<1>6. Len(u) = Len(v)
  BY <1>1, <1>3, <1>4, <1>5
<1>7. ASSUME NEW i \in 1 .. Len(u) PROVE u[i] = v[i]
  <2>1. u[i] = a[n + i] /\ n + i \in 1 .. Len(s) + Len(t) /\ i \in 1 .. Len(b) + Len(t)
    BY <1>1, <1>3, <1>4
  <2>2. CASE i <= Len(b)
    <3>1. i \in 1 .. Len(b) /\ n + i <= Len(s)
      BY <1>1, <1>3, <2>2
    <3> QED
      BY <1>2, <1>3, <1>5, <2>1, <2>2, <3>1
  <2>3. CASE ~(i <= Len(b))
    <3>1. ~(n + i <= Len(s)) /\ n + i - Len(s) = i - Len(b)
      BY <1>1, <1>3, <2>3
    <3> QED
      BY <1>2, <1>5, <2>1, <2>3, <3>1
  <2> QED
    BY <2>2, <2>3
<1>8. u = v
  BY <1>4, <1>5, <1>6, <1>7, SeqEqual
<1> QED
  BY <1>8 DEF a, b, u, v

LEMMA FromFrom ==
  ASSUME NEW S, NEW s \in Seq(S), NEW m \in Nat, NEW n \in Nat, m + n <= Len(s)
  PROVE  From(From(s, m), n) = From(s, m + n)
<1> DEFINE a == From(s, m)
           u == From(a, n)
           v == From(s, m + n)
<1>1. Len(s) \in Nat /\ m + n \in Nat
  BY LenProperties
<1>2. a \in Seq(S) /\ Len(a) = Len(s) - m /\ \A i \in 1 .. Len(a) : a[i] = s[m + i]
  BY <1>1, FromIs
<1>3. v \in Seq(S) /\ Len(v) = Len(s) - (m + n) /\ \A i \in 1 .. Len(v) : v[i] = s[m + n + i]
  BY <1>1, FromIs
<1> HIDE DEF a, v
<1>4. u \in Seq(S) /\ Len(u) = Len(a) - n /\ \A i \in 1 .. Len(u) : u[i] = a[n + i]
  <2>1. /\ u \in Seq(S) /\ Len(u) = (IF n < Len(a) THEN Len(a) - n ELSE 0)
        /\ \A i \in 1 .. Len(u) : u[i] = a[n + i]
    <3>1. a \in Seq(S) /\ n \in Nat
      BY <1>1, <1>2
    <3> QED
      BY <3>1, FromIs
  <2> HIDE DEF u
  <2> QED
    BY <1>1, <1>2, <2>1
<1> HIDE DEF u
<1>5. Len(u) = Len(v) /\ \A i \in 1 .. Len(u) : n + i \in 1 .. Len(a) /\ m + (n + i) = m + n + i
  BY <1>1, <1>2, <1>3, <1>4
<1>6. \A i \in 1 .. Len(u) : u[i] = v[i]
  BY <1>2, <1>3, <1>4, <1>5
<1>7. u = v
  BY <1>3, <1>4, <1>5, <1>6, SeqEqual
<1> QED
  BY <1>7 DEF a, u, v

LEMMA FirstAll ==
  ASSUME NEW S, NEW s \in Seq(S)
  PROVE  First(s, Len(s)) = s
<1> DEFINE a == First(s, Len(s))
<1>1. Len(s) \in Nat
  BY LenProperties
<1>2. a \in Seq(S) /\ Len(a) = Len(s) /\ \A i \in 1 .. Len(a) : a[i] = s[i]
  BY <1>1, FirstIs
<1> HIDE DEF a
<1>3. a = s
  BY <1>2, SeqEqual
<1> QED
  BY <1>3 DEF a

LEMMA FirstAppend ==
  ASSUME NEW S, NEW s \in Seq(S), NEW b \in S, NEW n \in 0 .. Len(s)
  PROVE  First(Append(s, b), n) = First(s, n)
<1> DEFINE t == Append(s, b)
           u == First(t, n)
           v == First(s, n)
<1>1. Len(s) \in Nat /\ n \in Nat /\ n \in Int /\ n <= Len(s)
  BY LenProperties
<1>2. Extends(S, t, s, b)
  BY AppendExtends
<1> HIDE DEF t
<1>3. t \in Seq(S) /\ Len(t) = Len(s) + 1 /\ \A i \in 1 .. Len(s) : t[i] = s[i]
  BY <1>2 DEF Extends
<1>4. /\ u \in Seq(S) /\ Len(u) = (IF n < 0 THEN 0 ELSE IF n < Len(t) THEN n ELSE Len(t))
      /\ \A i \in 1 .. Len(u) : u[i] = t[i]
  BY <1>1, <1>3, FirstIs
<1>5. /\ v \in Seq(S) /\ Len(v) = (IF n < 0 THEN 0 ELSE IF n < Len(s) THEN n ELSE Len(s))
      /\ \A i \in 1 .. Len(v) : v[i] = s[i]
  BY <1>1, FirstIs
<1> HIDE DEF u, v
<1>6. Len(u) = n /\ Len(v) = n
  BY <1>1, <1>3, <1>4, <1>5
<1>7. \A i \in 1 .. Len(u) : u[i] = v[i]
  BY <1>1, <1>3, <1>4, <1>5, <1>6
<1>8. u = v
  BY <1>4, <1>5, <1>6, <1>7, SeqEqual
<1> QED
  BY <1>8 DEF t, u, v

-----------------------------------------------------------------------------
(***************************************************************************)
(* The main loop takes the bytes up to the first that completes a packet.  *)
(***************************************************************************)
Meals == [codec : Codecs, event : {Quiet, Received, Enquired}, data : Seq(Bytes), n : Nat]
Fasting(c) == [codec |-> c, event |-> Quiet, data |-> <<>>, n |-> 0]
EatStep == [p \in Meals \X Bytes |-> Eat(p[1], p[2])]
Eaten(c, s) == Eating(c, s)[Len(s)]

LEMMA EatType ==
  ASSUME NEW e \in Meals, NEW b \in Bytes
  PROVE  Eat(e, b) \in Meals
<1> DEFINE n == Decode1("device", e.codec, b)
<1>1. e.codec \in Codecs /\ e.n \in Nat
  BY DEF Meals
<1>2. n \in Outcomes
  BY <1>1, DecodeType
<1>3. n = bisync_decode(e.codec, b)
  BY DEF Decode1
<1> HIDE DEF n
<1>4. n.codec \in Codecs /\ n.event \in {Quiet, Received, Enquired} /\ n.data \in Seq(Bytes)
  BY <1>2 DEF Outcomes
<1>5. Eat(e, b) = IF e.event # Quiet THEN e
                  ELSE [codec |-> n.codec, event |-> n.event, data |-> n.data, n |-> e.n + 1]
  BY <1>3 DEF Eat
<1> QED
  BY <1>1, <1>4, <1>5 DEF Meals

LEMMA EatingFolds ==
  ASSUME NEW c \in Codecs, NEW s \in Seq(Bytes)
  PROVE  Folding(Eating(c, s), EatStep, Meals, Fasting(c), s)
<1> DEFINE n == Len(s)
           Next1(x, i) == CHOOSE z \in {Eat(y, s[i]) : y \in {x}} : TRUE
           Eq(h) == [i \in 0 .. n |-> IF i = 0 THEN Fasting(c) ELSE Next1(h[i - 1], i)]
           f == CHOOSE h : h = Eq(h)
<1>1. Eating(c, s) = f
  BY DEF Eating, Fasting
<1>2. n \in Nat /\ \A i \in 1 .. n : s[i] \in Bytes
  BY LenProperties, ElementOfSeq
<1>3. \A x, i : Next1(x, i) = Eat(x, s[i])
  OBVIOUS
<1> HIDE DEF Next1
<1>4. Fasting(c) \in Meals /\ Steps(EatStep, Bytes, Meals)
  <2>1. Fasting(c) \in Meals
    BY EmptySeq DEF Fasting, Meals
  <2> QED
    BY <2>1, EatType DEF Steps, EatStep
<1>5. PICK F : Folding(F, EatStep, Meals, Fasting(c), s)
  BY <1>4, FoldExists
<1>6. /\ F \in [0 .. n -> Meals] /\ F[0] = Fasting(c)
      /\ \A i \in 1 .. n : F[i] = Next1(F[i - 1], i)
  <2>1. /\ F \in [0 .. n -> Meals] /\ F[0] = Fasting(c)
        /\ \A i \in 1 .. n : F[i] = EatStep[<<F[i - 1], s[i]>>]
    BY <1>5 DEF Folding
  <2>2. \A i \in 1 .. n : F[i - 1] \in Meals
    BY <1>2, <2>1
  <2>3. \A i \in 1 .. n : EatStep[<<F[i - 1], s[i]>>] = Eat(F[i - 1], s[i])
    BY <1>2, <2>2 DEF EatStep
  <2> QED
    BY <1>3, <2>1, <2>3
<1> HIDE DEF n
<1>7. F = Eq(F)
  <2>1. \A i \in 0 .. n : F[i] = IF i = 0 THEN Fasting(c) ELSE Next1(F[i - 1], i)
    BY <1>2, <1>6
  <2>2. F = [i \in 0 .. n |-> F[i]]
    BY <1>6
  <2> QED
    BY <2>1, <2>2
<1>8. f = Eq(f)
  <2> HIDE DEF Eq
  <2> QED
    BY <1>7
<1> HIDE DEF f
<1>9. f = F
  <2>1. f = [i \in 0 .. n |-> f[i]]
    BY <1>8
  <2>2. f[0] = Fasting(c) /\ \A i \in 1 .. n : f[i] = Next1(f[i - 1], i)
    <3>1. \A i \in 0 .. n : f[i] = Eq(f)[i]
      <4> HIDE DEF Eq
      <4> QED
        BY <1>8
    <3> QED
      BY <1>2, <3>1
  <2>3. f[0] = F[0] /\ \A i \in 1 .. n : f[i - 1] = F[i - 1] => f[i] = F[i]
    BY <1>6, <2>2
  <2>4. n \in Nat /\ F \in [0 .. n -> Meals]
    BY <1>2, <1>6
  <2>5. Agrees(n, Meals, F, f)
    BY <2>1, <2>3, <2>4, Zenon DEF Agrees
  <2> QED
    BY <2>5, Agreeing
<1> QED
  BY <1>1, <1>5, <1>9

LEMMA EatenEmpty ==
  ASSUME NEW c \in Codecs
  PROVE  Eaten(c, <<>>) = Fasting(c)
<1>1. <<>> \in Seq(Bytes)
  BY EmptySeq
<1>2. Folding(Eating(c, <<>>), EatStep, Meals, Fasting(c), <<>>)
  BY <1>1, EatingFolds
<1> QED
  BY <1>2, FoldEmpty DEF Eaten

LEMMA EatenAppend ==
  ASSUME NEW c \in Codecs, NEW s \in Seq(Bytes), NEW b \in Bytes
  PROVE  /\ Eaten(c, s) \in Meals
         /\ Eaten(c, Append(s, b)) = Eat(Eaten(c, s), b)
<1> DEFINE F == Eating(c, s)
           H == Eating(c, Append(s, b))
           g == EatStep
           x0 == Fasting(c)
           t == Append(s, b)
<1>1. t \in Seq(Bytes) /\ Extends(Bytes, t, s, b)
  BY AppendProperties, AppendExtends
<1>2. Folding(F, g, Meals, x0, s) /\ Folding(H, g, Meals, x0, t)
  BY <1>1, EatingFolds
<1>3. Eaten(c, s) = F[Len(s)] /\ Eaten(c, t) = H[Len(t)]
  BY DEF Eaten
<1> HIDE DEF F, H, g, x0, t
<1>4. F[Len(s)] \in Meals /\ H[Len(t)] = g[<<F[Len(s)], b>>]
  BY <1>1, <1>2, FoldAppend
<1>5. \A x \in Meals : g[<<x, b>>] = Eat(x, b)
  BY DEF EatStep, g
<1> QED
  BY <1>3, <1>4, <1>5 DEF t

LEMMA EatenType ==
  ASSUME NEW c \in Codecs, NEW s \in Seq(Bytes)
  PROVE  Eaten(c, s) \in Meals
<1>1. 0 \in Bytes
  BY BytesAre DEF Byte
<1> QED
  BY <1>1, EatenAppend

\* What is eaten is what would be heard of it.
Consumed(c, s, e) ==
  LET h == Heard("device", c, First(s, e.n))
  IN  /\ e.n <= Len(s) /\ (e.event = Quiet => e.n = Len(s))
      /\ h.codec = e.codec
      /\ h.packets = IF e.event = Received THEN <<e.data>> ELSE <<>>

LEMMA EatenHeard ==
  ASSUME NEW c \in Codecs, NEW s \in Seq(Bytes)
  PROVE  Consumed(c, s, Eaten(c, s))
<1> DEFINE P == {u \in Seq(Bytes) : Consumed(c, u, Eaten(c, u))}
<1>1. <<>> \in P
  <2>1. Eaten(c, <<>>) = Fasting(c)
    BY EatenEmpty
  <2>2. <<>> \in Seq(Bytes) /\ Len(<<>>) = 0 /\ First(<<>>, 0) = <<>>
    <3>1. <<>> \in Seq(Bytes) /\ Len(<<>>) = 0
      BY EmptySeq
    <3> QED
      BY <3>1, FirstAll
  <2>3. Heard("device", c, First(<<>>, 0)) = Start(c)
    BY <2>2, HeardEmpty
  <2>4. /\ Fasting(c).n = 0 /\ Fasting(c).event = Quiet /\ Fasting(c).codec = c
        /\ Start(c).codec = c /\ Start(c).packets = <<>> /\ Quiet # Received
    BY DEF Fasting, Start, Quiet, Received
  <2>5. Consumed(c, <<>>, Fasting(c))
    BY <2>2, <2>3, <2>4 DEF Consumed
  <2> QED
    BY <2>1, <2>2, <2>5
<1>2. ASSUME NEW u \in P, NEW b \in Bytes PROVE Append(u, b) \in P
  <2> DEFINE t == Append(u, b)
             e == Eaten(c, u)
  <2>1. u \in Seq(Bytes) /\ Consumed(c, u, e) /\ t \in Seq(Bytes) /\ Len(t) = Len(u) + 1 /\ Len(u) \in Nat
    BY <1>2, AppendProperties, LenProperties
  <2>2. e \in Meals /\ Eaten(c, t) = Eat(e, b)
    BY <2>1, EatenAppend
  <2> HIDE DEF P, e
  <2>3. e.n \in Nat /\ e.codec \in Codecs
    BY <2>2 DEF Meals
  <2>4. Consumed(c, t, Eat(e, b))
    <3>1. CASE e.event # Quiet
      <4>1. Eat(e, b) = e
        BY <3>1 DEF Eat
      <4>2. e.n \in 0 .. Len(u)
        BY <2>1, <2>3 DEF Consumed
      <4>3. First(t, e.n) = First(u, e.n)
        BY <2>1, <4>2, FirstAppend
      <4> HIDE DEF t
      <4>4. e.n <= Len(t)
        BY <2>1, <4>2
      <4> QED
        BY <2>1, <3>1, <4>1, <4>3, <4>4 DEF Consumed
    <3>2. CASE e.event = Quiet
      <4> DEFINE n == Decode1("device", e.codec, b)
                 k == Eat(e, b)
                 h == Heard("device", c, u)
      <4>1. e.n = Len(u) /\ First(u, Len(u)) = u /\ First(t, Len(t)) = t
        BY <2>1, <3>2, FirstAll DEF Consumed
      <4>2. h.codec = e.codec /\ h.packets = <<>>
        BY <2>1, <3>2, <4>1 DEF Consumed, Quiet, Received
      <4>3. Heard("device", c, t) = Hear("device", h, b)
        BY <2>1, HeardAppend
      <4>4. n = bisync_decode(e.codec, b)
        BY DEF Decode1
      <4> HIDE DEF n
      <4>5. k = [codec |-> n.codec, event |-> n.event, data |-> n.data, n |-> e.n + 1]
        BY <3>2, <4>4 DEF Eat
      <4>6. k.codec = n.codec /\ k.event = n.event /\ k.data = n.data /\ k.n = e.n + 1
        BY <4>5
      <4> HIDE DEF h, k, t
      <4>7. k.n = Len(t)
        BY <2>1, <4>1, <4>6
      <4> DEFINE g == Heard("device", c, t)
      <4>8. g.codec = n.codec /\ g.packets = IF n.event = Received THEN Append(<<>>, n.data) ELSE <<>>
        BY <4>2, <4>3 DEF Hear, n
      <4>9. Append(<<>>, n.data) = <<n.data>>
        OBVIOUS
      <4>10. Heard("device", c, First(t, k.n)) = g
        BY <4>1, <4>7
      <4> HIDE DEF g
      <4>11. Consumed(c, t, k)
        BY <2>1, <4>6, <4>7, <4>8, <4>9, <4>10 DEF Consumed
      <4> QED
        BY <4>11 DEF k
    <3> QED
      BY <3>1, <3>2
  <2> QED
    BY <2>1, <2>2, <2>4 DEF P
<1>3. P = Seq(Bytes)
  <2>1. P \in SUBSET Seq(Bytes)
    OBVIOUS
  <2> HIDE DEF P
  <2> QED
    BY <1>1, <1>2, <2>1, SeqInduction
<1> QED
  BY <1>3

-----------------------------------------------------------------------------
(***************************************************************************)
(* The types, as far as they do not depend on what is decoded.  Whatever   *)
(* the device decodes, it can encode an answer to it: that is assumed for  *)
(* any bytes, since bytes are lost and a checksum need not notice.         *)
(***************************************************************************)
Encodes ==
  \A b \in Seq(Bytes) :
    DeviceDecode(b) # Undecodable =>
      \A a \in Answered(DeviceDecode(b)) : DeviceEncode(a) \in Seq(Byte)

\* So it can encode what it is about to answer.
Encodable ==
  LET e == Eaten(codec, From(ring, at))
  IN  e.event = Received /\ DeviceDecode(e.data) # Undecodable =>
        \A a \in Answered(DeviceDecode(e.data)) : DeviceEncode(a) \in Seq(Byte)

LinkType ==
  /\ codec \in Codecs /\ decoder \in Codecs
  /\ down \in Seq(Bytes) /\ up \in Seq(Bytes) /\ ring \in Seq(Bytes) /\ out \in Seq(Bytes)
  /\ at \in Nat /\ settings \in Settings /\ sent \in Seq(Asked)

LEMMA ConstantsAre ==
  /\ PacketSize \in Nat /\ 2 * PacketSize \in Nat /\ RingSize - 1 \in Nat /\ MaxSent \in Nat /\ FirstId \in Nat
  /\ Cuts \subseteq Nat /\ Initial \in Settings
<1>1. {FirstId, RingSize, PacketSize, MaxSent, MaxTraps, MaxFaults} \cup Cuts \subseteq Nat
  BY LinkAssumption
<1>2. RingSize > 1 /\ Initial \in Settings
  BY LinkAssumption
<1>3. FirstId \in Nat /\ RingSize \in Nat /\ PacketSize \in Nat /\ MaxSent \in Nat /\ Cuts \subseteq Nat
  BY <1>1
<1> QED
  BY <1>2, <1>3

LEMMA LinkTypeInit == Init => LinkType
<1> SUFFICES ASSUME Init PROVE LinkType
  OBVIOUS
<1>1. <<>> \in Seq(Bytes) /\ <<>> \in Seq(Asked)
  BY EmptySeq
<1> QED
  BY <1>1, ResetType, ConstantsAre DEF Init, LinkType

\* What the host writes.
LEMMA WriteType ==
  ASSUME sent \in Seq(Asked), NEW r \in Requests, Len(sent) < MaxSent
  PROVE  /\ Get(r) \in Asked /\ Append(sent, Get(r)) \in Seq(Asked)
         /\ HostEncode(Get(r)) \in Seq(Byte) /\ Len(HostEncode(Get(r))) <= DATA_SIZE
         /\ DeviceDecode(HostEncode(Get(r))) = Get(r)
         /\ bisync_encode(HostEncode(Get(r))) \in Seq(Bytes)
<1>1. Len(sent) \in 0 .. MaxSent - 1
  BY LenProperties, ConstantsAre
<1>2. Get(r) \in Asked
  BY <1>1 DEF Asked, Get
<1>3. Append(sent, Get(r)) \in Seq(Asked)
  BY <1>2, AppendProperties
<1>4. Fits(HostEncode(Get(r))) /\ DeviceDecode(HostEncode(Get(r))) = Get(r)
  BY <1>2, CodecAssumption
<1>5. HostEncode(Get(r)) \in Seq(Byte) /\ Len(HostEncode(Get(r))) <= DATA_SIZE
  BY <1>4 DEF Fits
<1> QED
  BY <1>2, <1>3, <1>4, <1>5, FrameBytes

LEMMA TrapFits ==
  ASSUME NEW e \in Events, NEW t \in Texts
  PROVE  /\ DeviceEncode(Trap(e, t)) \in Seq(Byte) /\ Len(DeviceEncode(Trap(e, t))) <= DATA_SIZE
         /\ HostDecode(DeviceEncode(Trap(e, t))) = Trap(e, t)
<1> DEFINE p == Trap(e, t)
<1>1. p \in (UNION {Answered(rq) : rq \in Asked}) \cup {Trap(f, x) : f \in Events, x \in Texts}
  OBVIOUS
<1> HIDE DEF p
<1>2. Fits(DeviceEncode(p)) /\ HostDecode(DeviceEncode(p)) = p
  BY <1>1, CodecAssumption
<1> QED
  BY <1>2 DEF Fits, p

LEMMA ReplyFits ==
  ASSUME NEW rq \in Asked, NEW p \in Answered(rq)
  PROVE  /\ DeviceEncode(p) \in Seq(Byte) /\ Len(DeviceEncode(p)) <= DATA_SIZE
         /\ HostDecode(DeviceEncode(p)) = p
<1>1. p \in (UNION {Answered(x) : x \in Asked}) \cup {Trap(f, x) : f \in Events, x \in Texts}
  OBVIOUS
<1>2. Fits(DeviceEncode(p)) /\ HostDecode(DeviceEncode(p)) = p
  BY <1>1, CodecAssumption
<1> QED
  BY <1>2 DEF Fits

LEMMA AckBytes == SYN_SYN_ACK \in Seq(Bytes)
<1>1. SYN \in Bytes /\ ACK \in Bytes
  BY BytesAre DEF Controls
<1> QED
  BY <1>1 DEF SYN_SYN_ACK

LEMMA LinkTypeNext ==
  ASSUME Encodable, LinkType, [Next]_vars
  PROVE  LinkType'
<1> USE DEF LinkType
<1>0. PacketSize \in Int /\ PacketSize \in Nat /\ 2 * PacketSize \in Nat /\ RingSize - 1 \in Int /\ Cuts \subseteq Int
  BY ConstantsAre
<1>1. ASSUME NEW s \in Seq(Bytes), NEW t \in Seq(Bytes) PROVE s \o t \in Seq(Bytes)
  BY ConcatProperties
<1>2. ASSUME NEW s \in Seq(Bytes), NEW n \in Int PROVE First(s, n) \in Seq(Bytes)
  BY FirstIs
<1>3. ASSUME NEW s \in Seq(Bytes), NEW n \in Nat PROVE From(s, n) \in Seq(Bytes)
  BY FromIs
<1>4. Len(down) \in Nat /\ Len(up) \in Nat /\ Len(out) \in Nat
  BY LenProperties
<1>5. \A b \in Seq(Bytes) : buffer_push(b) \in Seq(Bytes)
  BY <1>0, <1>1, <1>2 DEF buffer_push
<1>6. ASSUME NEW p \in Seq(Byte) PROVE bisync_encode(p) \in Seq(Bytes)
  BY FrameBytes
<1>7. CASE UNCHANGED vars
  BY <1>7 DEF vars, hostVars, ringVars, loopVars
<1>8. ASSUME NEW r \in Requests, Write(r) PROVE LinkType'
  <2>1. /\ sent' = Append(sent, Get(r)) /\ down' = down \o bisync_encode(HostEncode(Get(r)))
        /\ UNCHANGED <<decoder, up, ring, codec, at, out, settings>> /\ Len(sent) < MaxSent
    BY <1>8 DEF Write, ringVars, loopVars
  <2>2. Append(sent, Get(r)) \in Seq(Asked) /\ bisync_encode(HostEncode(Get(r))) \in Seq(Bytes)
    BY <2>1, WriteType
  <2> DEFINE f == bisync_encode(HostEncode(Get(r)))
  <2> HIDE DEF f
  <2>3. down' \in Seq(Bytes)
    BY <1>1, <2>1, <2>2 DEF f
  <2> QED
    BY <2>1, <2>2, <2>3
<1>9. ASSUME Flush PROVE LinkType'
  <2>1. UNCHANGED <<sent, decoder, ring, codec, at, out, settings>>
    BY <1>9 DEF Flush, ringVars, loopVars
  <2>2. down' \in Seq(Bytes) /\ up' \in Seq(Bytes)
    <3>1. CASE UNCHANGED <<down, up, faults>>
      BY <3>1
    <3>2. CASE ~UNCHANGED <<down, up, faults>>
      <4>1. PICK k \in Cuts, u \in {0, Len(up)} : down' = First(down, Len(down) - k) /\ up' = First(up, u)
        BY <1>9, <3>2 DEF Flush
      <4>2. Len(down) - k \in Int /\ u \in Int
        BY <1>0, <1>4
      <4> QED
        BY <1>2, <4>1, <4>2
    <3> QED
      BY <3>1, <3>2
  <2> QED
    BY <2>1, <2>2
<1>10. ASSUME Read PROVE LinkType'
  <2>1. /\ decoder' = Heard("host", decoder, up).codec /\ up' = <<>>
        /\ UNCHANGED <<sent, down, ring, codec, at, out, settings>>
    BY <1>10 DEF Read, ringVars, loopVars
  <2>2. Heard("host", decoder, up).codec \in Codecs /\ <<>> \in Seq(Bytes)
    BY HeardType, EmptySeq
  <2> QED
    BY <2>1, <2>2
<1>11. ASSUME tud_cdc_rx_cb PROVE LinkType'
  <2>1. /\ down' = From(down, PacketSize) /\ ring' = buffer_push(First(down, PacketSize))
        /\ UNCHANGED <<sent, decoder, up, codec, at, out, settings>>
    BY <1>11 DEF tud_cdc_rx_cb, hostVars, loopVars
  <2> QED
    BY <1>0, <1>2, <1>3, <1>5, <2>1
<1>12. ASSUME Nested PROVE LinkType'
  <2> DEFINE b == First(down, PacketSize)
             c == First(From(down, PacketSize), PacketSize)
  <2>1. /\ down' = From(down, 2 * PacketSize)
        /\ ring' = buffer_push(b) \/ \E k \in Cuts : ring' = buffer_push(First(b, k) \o c \o From(b, k))
        /\ UNCHANGED <<sent, decoder, up, codec, at, out, settings>>
    BY <1>12 DEF Nested, hostVars, loopVars
  <2>2. b \in Seq(Bytes) /\ c \in Seq(Bytes)
    BY <1>0, <1>2, <1>3
  <2> HIDE DEF b, c
  <2>3. ASSUME NEW k \in Cuts PROVE buffer_push(First(b, k) \o c \o From(b, k)) \in Seq(Bytes)
    <3>1. First(b, k) \in Seq(Bytes) /\ From(b, k) \in Seq(Bytes)
      BY <1>0, <1>2, <1>3, <2>2, ConstantsAre
    <3>2. First(b, k) \o c \in Seq(Bytes)
      BY <1>1, <2>2, <3>1
    <3>3. (First(b, k) \o c) \o From(b, k) \in Seq(Bytes)
      BY <1>1, <3>1, <3>2
    <3> QED
      BY <1>5, <3>3
  <2>4. ring' \in Seq(Bytes)
    BY <1>5, <2>1, <2>2, <2>3
  <2>5. down' \in Seq(Bytes)
    BY <1>0, <1>3, <2>1
  <2> QED
    BY <2>1, <2>4, <2>5
<1>13. ASSUME SSMP_rx PROVE LinkType'
  <2> DEFINE bytes == From(ring, at)
             e == Eaten(codec, bytes)
  <2>1. e = Eating(codec, bytes)[Len(bytes)]
    BY DEF Eaten
  <2>2. e \in Meals
    BY <1>3, EatenType
  <2>3. e.codec \in Codecs /\ e.data \in Seq(Bytes) /\ e.n \in Nat
    BY <2>2 DEF Meals
  <2> HIDE DEF e
  <2>4. /\ codec' = e.codec /\ UNCHANGED <<sent, decoder, down, up>>
        /\ \/ at' = 0 /\ ring' = From(ring, at + e.n) /\ UNCHANGED <<out, settings>>
           \/ /\ at' = at + e.n /\ ring' = ring
              /\ \/ out' = SYN_SYN_ACK /\ UNCHANGED settings
                 \/ e.event = Received /\ SSMP_received(DeviceDecode(e.data))
    <3>1. /\ codec' = e.codec /\ UNCHANGED <<hostVars, down, up, faults>>
          /\ \/ /\ e.event = Quiet /\ flushing' = FALSE /\ at' = 0 /\ ring' = From(ring, at + e.n)
                /\ UNCHANGED <<out, settings, did, said>>
             \/ /\ e.event # Quiet /\ flushing' = TRUE /\ at' = at + e.n /\ ring' = ring
                /\ \/ /\ e.event = Enquired /\ out' = SYN_SYN_ACK
                      /\ UNCHANGED <<settings, did, said>>
                   \/ /\ e.event = Received
                      /\ \E rq \in {DeviceDecode(e.data)} : SSMP_received(rq)
      <4> HIDE DEF LinkType
      <4> QED
        BY <1>13, <2>1 DEF SSMP_rx
    <3> HIDE DEF LinkType
    <3> QED
      BY <3>1 DEF hostVars
  <2>5. ASSUME NEW rq, rq = DeviceDecode(e.data), e.event = Received, SSMP_received(rq)
        PROVE  out' \in Seq(Bytes) /\ settings' \in Settings
    <3>1. CASE rq = Undecodable
      BY <2>5, <3>1 DEF SSMP_received
    <3>2. CASE rq # Undecodable
      <4>1. PICK a \in Answers(rq) : settings' = a.settings /\ SSMP_write(Reply(rq, a.error, a.value))
        BY <2>5, <3>2 DEF SSMP_received
      <4>2. a.settings \in Settings /\ Reply(rq, a.error, a.value) \in Answered(rq)
        BY AnswersLeave
      <4>3. DeviceEncode(Reply(rq, a.error, a.value)) \in Seq(Byte)
        BY <2>5, <3>2, <4>2 DEF Encodable, e
      <4>4. out' = bisync_encode(DeviceEncode(Reply(rq, a.error, a.value)))
        BY <4>1 DEF SSMP_write
      <4> QED
        BY <1>6, <4>1, <4>2, <4>3, <4>4
    <3> QED
      BY <3>1, <3>2
  <2>6. at + e.n \in Nat /\ 0 \in Nat /\ From(ring, at + e.n) \in Seq(Bytes)
    <3>1. at + e.n \in Nat
      BY <2>3
    <3> QED
      BY <1>3, <3>1
  <2> QED
    BY <2>3, <2>4, <2>5, <2>6, AckBytes
<1>14. ASSUME NEW e \in Events, SSMP_trap(e) PROVE LinkType'
  <2>1. PICK t \in Texts : SSMP_write(Trap(e, t))
    <3> HIDE DEF LinkType
    <3> QED
      BY <1>14 DEF SSMP_trap
  <2>2. out' = bisync_encode(DeviceEncode(Trap(e, t)))
    BY <2>1 DEF SSMP_write
  <2>3. DeviceEncode(Trap(e, t)) \in Seq(Byte)
    BY TrapFits
  <2>4. UNCHANGED <<sent, decoder, down, up, ring, codec, at, settings>>
    BY <1>14 DEF SSMP_trap, hostVars, ringVars
  <2> QED
    BY <1>6, <2>2, <2>3, <2>4
<1>15. ASSUME usb1_write PROVE LinkType'
  <2>1. UNCHANGED <<sent, decoder, down, ring, codec, at, settings>>
    BY <1>15 DEF usb1_write, hostVars, ringVars
  <2>2. \/ up' = up \o First(out, PacketSize) /\ out' = From(out, PacketSize)
        \/ out' = <<>> /\ \E k \in Cuts : up' = up \o First(out, Len(out) - k)
    BY <1>15 DEF usb1_write
  <2>3. First(out, PacketSize) \in Seq(Bytes) /\ From(out, PacketSize) \in Seq(Bytes) /\ <<>> \in Seq(Bytes)
    BY <1>0, <1>2, <1>3, EmptySeq
  <2>4. \A k \in Cuts : First(out, Len(out) - k) \in Seq(Bytes)
    <3>1. \A k \in Cuts : Len(out) - k \in Int
      BY <1>0, <1>4
    <3> QED
      BY <1>2, <3>1
  <2>5. up' \in Seq(Bytes) /\ out' \in Seq(Bytes)
    BY <1>1, <2>2, <2>3, <2>4
  <2> QED
    BY <2>1, <2>5
<1> QED
  BY <1>7, <1>8, <1>9, <1>10, <1>11, <1>12, <1>13, <1>14, <1>15 DEF Next

LEMMA EncodesAnswers == Encodes /\ LinkType => Encodable
<1> SUFFICES ASSUME Encodes, LinkType PROVE Encodable
  OBVIOUS
<1> DEFINE bytes == From(ring, at)
           e == Eaten(codec, bytes)
<1>1. bytes \in Seq(Bytes) /\ codec \in Codecs
  BY FromIs DEF LinkType
<1> HIDE DEF bytes
<1>2. e \in Meals
  BY <1>1, EatenType
<1> HIDE DEF e
<1>3. e.data \in Seq(Bytes)
  BY <1>2 DEF Meals
<1> QED
  BY <1>3 DEF Encodes, Encodable, e, bytes

LEMMA ProbeFits == Probe \in Seq(Byte) /\ Len(Probe) <= DATA_SIZE
<1>1. NULL \in Byte /\ 0 \in Byte
  BY DEF NULL, Byte
<1> QED
  BY <1>1 DEF Probe, DATA_SIZE

\* A decoder that has been left with anything by lost bytes takes the next frame
\* (Resyncs of Link: the SYNs of bisync_encode, bisync.c).
THEOREM ResyncsHolds ==
  ASSUME Encodes
  PROVE  Spec => []Resyncs
<1>1. LinkType => Resyncs
  <2>1. ASSUME NEW side, NEW c \in Codecs PROVE Takes(side, c)
    <3> DEFINE h == Heard(side, c, Frame)
    <3>1. /\ h.event = Received
          /\ \E p \in Seq(Seq(Bytes)) : h.packets = Append(p, Probe)
      BY ProbeFits, FrameTaken DEF Frame
    <3> HIDE DEF h
    <3>2. PICK p \in Seq(Seq(Bytes)) : h.packets = Append(p, Probe)
      BY <3>1
    <3> DEFINE S == Seq(Bytes) \cup {Probe}
               t == Append(p, Probe)
    <3>3. p \in Seq(S) /\ Probe \in S
      <4>1. \A i \in 1 .. Len(p) : p[i] \in S
        BY ElementOfSeq
      <4> QED
        BY <4>1, LenProperties
    <3> HIDE DEF S
    <3>4. Len(t) = Len(p) + 1 /\ t[Len(p) + 1] = Probe
      BY <3>3, AppendProperties
    <3> HIDE DEF t
    <3>5. h.packets[Len(h.packets)] = Probe
      BY <3>2, <3>4 DEF t
    <3> QED
      BY <3>1, <3>5 DEF Takes, h
  <2> QED
    BY <2>1 DEF LinkType, Resyncs
<1> QED
  <2>1. Encodes /\ LinkType /\ [Next]_vars => LinkType'
    BY EncodesAnswers, LinkTypeNext
  <2> QED
    BY <1>1, <2>1, LinkTypeInit, PTL DEF Spec

-----------------------------------------------------------------------------
(***************************************************************************)
(* Nothing is lost, and nothing comes twice: what is done, and then what   *)
(* dec makes of the packets p that are still to come, is all there is.     *)
(***************************************************************************)
Continues(done, p, all, dec) ==
  /\ Len(all) = Len(done) + Len(p)
  /\ \A i \in 1 .. Len(done) : all[i] = done[i]
  /\ \A i \in 1 .. Len(p) : all[Len(done) + i] = dec[p[i]]

LEMMA ContinuesAppend ==
  ASSUME NEW A, NEW done \in Seq(A), NEW all \in Seq(A), NEW S, NEW p \in Seq(S), NEW dec,
         Continues(done, p, all, dec), NEW d \in S, NEW x \in A, dec[d] = x
  PROVE  Continues(done, Append(p, d), Append(all, x), dec)
<1> DEFINE q == Append(p, d)
           t == Append(all, x)
<1>1. Extends(S, q, p, d) /\ Extends(A, t, all, x)
  BY AppendExtends
<1> HIDE DEF q, t
<1>2. /\ Len(q) = Len(p) + 1 /\ q[Len(p) + 1] = d /\ (\A i \in 1 .. Len(p) : q[i] = p[i])
      /\ Len(t) = Len(all) + 1 /\ t[Len(all) + 1] = x /\ (\A i \in 1 .. Len(all) : t[i] = all[i])
  BY <1>1 DEF Extends
<1>3. Len(p) \in Nat /\ Len(done) \in Nat /\ Len(all) \in Nat
  BY LenProperties
<1>4. /\ Len(all) = Len(done) + Len(p)
      /\ \A i \in 1 .. Len(done) : all[i] = done[i]
      /\ \A i \in 1 .. Len(p) : all[Len(done) + i] = dec[p[i]]
  BY DEF Continues
<1>5. Len(t) = Len(done) + Len(q)
  BY <1>2, <1>3, <1>4
<1>6. ASSUME NEW i \in 1 .. Len(done) PROVE t[i] = done[i]
  <2>1. i \in 1 .. Len(all)
    BY <1>3, <1>4
  <2> QED
    BY <1>2, <1>4, <2>1
<1>7. ASSUME NEW i \in 1 .. Len(q) PROVE t[Len(done) + i] = dec[q[i]]
  <2>1. CASE i <= Len(p)
    <3>1. i \in 1 .. Len(p) /\ Len(done) + i \in 1 .. Len(all)
      BY <1>2, <1>3, <1>4, <2>1
    <3> QED
      BY <1>2, <1>4, <3>1
  <2>2. CASE ~(i <= Len(p))
    <3>1. i = Len(p) + 1 /\ Len(done) + i = Len(all) + 1
      BY <1>2, <1>3, <1>4, <2>2
    <3> QED
      BY <1>2, <3>1
  <2> QED
    BY <2>1, <2>2
<1>8. Continues(done, q, t, dec)
  BY <1>5, <1>6, <1>7 DEF Continues
<1> QED
  BY <1>8 DEF q, t

LEMMA ContinuesTake ==
  ASSUME NEW A, NEW done \in Seq(A), NEW all \in Seq(A), NEW S, NEW q \in Seq(S), NEW dec,
         NEW d \in S, Continues(done, Cat(<<d>>, q), all, dec)
  PROVE  /\ dec[d] \in A /\ \E i \in 1 .. Len(all) : dec[d] = all[i]
         /\ Append(done, dec[d]) \in Seq(A)
         /\ Continues(Append(done, dec[d]), q, all, dec)
<1> DEFINE h == <<d>>
           p == Cat(h, q)
           x == dec[d]
           t == Append(done, x)
<1>1. h \in Seq(S) /\ Len(h) = 1 /\ h[1] = d
  OBVIOUS
<1> HIDE DEF h
<1>2. /\ p \in Seq(S) /\ Len(p) = Len(h) + Len(q)
      /\ \A i \in 1 .. Len(h) + Len(q) : p[i] = IF i <= Len(h) THEN h[i] ELSE q[i - Len(h)]
  BY <1>1, CatAt
<1>3. Continues(done, p, all, dec)
  BY DEF h
<1> HIDE DEF p
<1>4. /\ Len(all) = Len(done) + Len(p)
      /\ \A i \in 1 .. Len(done) : all[i] = done[i]
      /\ \A i \in 1 .. Len(p) : all[Len(done) + i] = dec[p[i]]
  BY <1>3 DEF Continues
<1>5. Len(q) \in Nat /\ Len(done) \in Nat /\ Len(all) \in Nat /\ \A i \in 1 .. Len(all) : all[i] \in A
  BY LenProperties, ElementOfSeq
<1>6. Len(p) = 1 + Len(q) /\ p[1] = d /\ \A i \in 1 .. Len(q) : p[1 + i] = q[i]
  <2>1. Len(p) = 1 + Len(q) /\ \A i \in 1 .. 1 + Len(q) : p[i] = IF i <= 1 THEN h[i] ELSE q[i - 1]
    BY <1>1, <1>2
  <2>2. p[1] = d
    BY <1>1, <1>5, <2>1
  <2>3. ASSUME NEW i \in 1 .. Len(q) PROVE p[1 + i] = q[i]
    <3>1. 1 + i \in 1 .. 1 + Len(q) /\ ~(1 + i <= 1) /\ 1 + i - 1 = i
      BY <1>5
    <3> QED
      BY <2>1, <3>1
  <2> QED
    BY <2>1, <2>2, <2>3
<1>7. all[Len(done) + 1] = x /\ Len(done) + 1 \in 1 .. Len(all)
  <2>1. 1 \in 1 .. Len(p) /\ Len(done) + 1 \in 1 .. Len(all)
    BY <1>4, <1>5, <1>6
  <2> QED
    BY <1>4, <1>6, <2>1
<1>8. x \in A /\ Extends(A, t, done, x) /\ t \in Seq(A)
  BY <1>5, <1>7, AppendExtends, AppendProperties
<1> HIDE DEF t, x
<1>9. Len(t) = Len(done) + 1 /\ t[Len(done) + 1] = x /\ \A i \in 1 .. Len(done) : t[i] = done[i]
  BY <1>8 DEF Extends
<1>10. Len(all) = Len(t) + Len(q)
  BY <1>4, <1>5, <1>6, <1>9
<1>11. ASSUME NEW i \in 1 .. Len(t) PROVE all[i] = t[i]
  <2>1. CASE i = Len(done) + 1
    BY <1>7, <1>9, <2>1
  <2>2. CASE i # Len(done) + 1
    <3>1. i \in 1 .. Len(done)
      BY <1>5, <1>9, <2>2
    <3> QED
      BY <1>4, <1>9, <3>1
  <2> QED
    BY <2>1, <2>2
<1>12. ASSUME NEW i \in 1 .. Len(q) PROVE all[Len(t) + i] = dec[q[i]]
  <2>1. 1 + i \in 1 .. Len(p)
    BY <1>5, <1>6
  <2>2. Len(done) + (1 + i) = Len(t) + i
    <3>1. Len(t) = Len(done) + 1
      BY <1>9
    <3> QED
      BY <1>5, <3>1
  <2> QED
    BY <1>4, <1>6, <2>1, <2>2
<1>13. Continues(t, q, all, dec)
  BY <1>10, <1>11, <1>12 DEF Continues
<1> QED
  BY <1>7, <1>8, <1>13 DEF t, x

LEMMA ContinuesEmpty ==
  ASSUME NEW A, NEW done \in Seq(A), NEW all \in Seq(A), NEW dec, Continues(done, <<>>, all, dec)
  PROVE  all = done
<1>1. Len(<<>>) = 0 /\ Len(done) \in Nat
  BY EmptySeq, LenProperties
<1>2. Len(all) = Len(done) /\ \A i \in 1 .. Len(all) : all[i] = done[i]
  BY <1>1 DEF Continues
<1> QED
  BY <1>2, SeqEqual

LEMMA ContinuesStart ==
  ASSUME NEW dec
  PROVE  Continues(<<>>, <<>>, <<>>, dec)
<1>1. Len(<<>>) = 0
  BY EmptySeq
<1> QED
  BY <1>1 DEF Continues

LEMMA CatAssociative ==
  ASSUME NEW S, NEW s \in Seq(S), NEW t \in Seq(S), NEW u \in Seq(S)
  PROVE  Cat(Cat(s, t), u) = Cat(s, Cat(t, u))
<1>1. (s \o t) \o u = s \o (t \o u)
  BY ConcatAssociative
<1> QED
  BY <1>1, Zenon DEF Cat

-----------------------------------------------------------------------------
(***************************************************************************)
(* What is told, and what is made of the packets.                          *)
(***************************************************************************)
Told == (UNION {Answered(rq) : rq \in Asked}) \cup {Trap(e, t) : e \in Events, t \in Texts}
Messages == {HostDecode(b) : b \in Seq(Bytes)}
HD == [b \in Seq(Bytes) |-> HostDecode(b)]
DD == [b \in Seq(Bytes) |-> DeviceDecode(b)]
Unpack(ms, b) == IF HostDecode(b) = Undecodable THEN ms ELSE Append(ms, HostDecode(b))
UnpackStep == [p \in Seq(Messages) \X Seq(Bytes) |-> Unpack(p[1], p[2])]
Unpacked(ps) == Packets(ps)[Len(ps)]

LEMMA TellsAre ==
  /\ Undecodable \notin Told /\ Undecodable \notin Asked
  /\ \A rq \in Asked : Answered(rq) \subseteq Told
  /\ \A e \in Events, t \in Texts : Trap(e, t) \in Told
<1>1. \A rq, e, v : Reply(rq, e, v) # Undecodable
  <2> SUFFICES ASSUME NEW rq, NEW e, NEW v PROVE Reply(rq, e, v) # Undecodable
    OBVIOUS
  <2>1. Reply(rq, e, v).tag = 162 /\ Undecodable.tag = 0
    BY DEF Reply, Undecodable, RESPONSE
  <2> QED
    BY <2>1
<1>2. \A e, t : Trap(e, t) # Undecodable
  <2> SUFFICES ASSUME NEW e, NEW t PROVE Trap(e, t) # Undecodable
    OBVIOUS
  <2>1. Trap(e, t).tag = TRAP /\ Undecodable.tag = 0
    BY SMT DEF Trap, Undecodable
  <2> QED
    BY <2>1 DEF TRAP
<1>3. \A tag, id, oid, value : Request(tag, id, oid, value) # Undecodable
  <2> SUFFICES ASSUME NEW tag, NEW id, NEW oid, NEW value PROVE Request(tag, id, oid, value) # Undecodable
    OBVIOUS
  <2>1. "oid" \in DOMAIN Request(tag, id, oid, value)
    BY DEF Request
  <2>2. "oid" \notin DOMAIN Undecodable
    BY DEF Undecodable
  <2> QED
    BY <2>1, <2>2
<1>4. Undecodable \notin Asked
  BY <1>3 DEF Asked
<1>5. Undecodable \notin Told
  BY <1>1, <1>2 DEF Told, Answered
<1> QED
  BY <1>4, <1>5 DEF Told

LEMMA UnpackType ==
  ASSUME NEW ms \in Seq(Messages), NEW b \in Seq(Bytes)
  PROVE  Unpack(ms, b) \in Seq(Messages)
<1>1. HostDecode(b) \in Messages
  BY DEF Messages
<1>2. Append(ms, HostDecode(b)) \in Seq(Messages)
  BY <1>1, AppendProperties
<1> QED
  BY <1>2 DEF Unpack

LEMMA PacketsFolds ==
  ASSUME NEW s \in Seq(Seq(Bytes))
  PROVE  Folding(Packets(s), UnpackStep, Seq(Messages), <<>>, s)
<1> DEFINE n == Len(s)
           X == Seq(Messages)
           x0 == <<>>
           Next1(x, i) == IF HostDecode(s[i]) = Undecodable THEN x ELSE Append(x, HostDecode(s[i]))
           Eq(h) == [i \in 0 .. n |-> IF i = 0 THEN x0 ELSE Next1(h[i - 1], i)]
           f == CHOOSE h : h = Eq(h)
<1>1. Packets(s) = f
  BY DEF Packets
<1>2. n \in Nat /\ \A i \in 1 .. n : s[i] \in Seq(Bytes)
  BY LenProperties, ElementOfSeq
<1>3. \A x, i : Next1(x, i) = Unpack(x, s[i])
  BY DEF Unpack
<1> HIDE DEF Next1
<1>4. x0 \in X /\ Steps(UnpackStep, Seq(Bytes), X)
  BY EmptySeq, UnpackType DEF Steps, UnpackStep
<1> HIDE DEF x0
<1>5. PICK F : Folding(F, UnpackStep, X, x0, s)
  <2> HIDE DEF X
  <2> QED
    BY <1>4, FoldExists
<1>6. /\ F \in [0 .. n -> X] /\ F[0] = x0
      /\ \A i \in 1 .. n : F[i] = Next1(F[i - 1], i)
  <2>1. /\ F \in [0 .. n -> X] /\ F[0] = x0
        /\ \A i \in 1 .. n : F[i] = UnpackStep[<<F[i - 1], s[i]>>]
    BY <1>5 DEF Folding
  <2>2. \A i \in 1 .. n : F[i - 1] \in X
    <3> HIDE DEF X
    <3> QED
      BY <1>2, <2>1
  <2>3. \A i \in 1 .. n : UnpackStep[<<F[i - 1], s[i]>>] = Unpack(F[i - 1], s[i])
    BY <1>2, <2>2 DEF UnpackStep
  <2> HIDE DEF X
  <2> QED
    BY <1>3, <2>1, <2>3
<1> HIDE DEF n, X
<1>7. F = Eq(F)
  <2>1. \A i \in 0 .. n : F[i] = IF i = 0 THEN x0 ELSE Next1(F[i - 1], i)
    BY <1>2, <1>6
  <2>2. F = [i \in 0 .. n |-> F[i]]
    BY <1>6
  <2> QED
    BY <2>1, <2>2
<1>8. f = Eq(f)
  <2> HIDE DEF Eq
  <2> QED
    BY <1>7
<1> HIDE DEF f
<1>9. f = F
  <2>1. f = [i \in 0 .. n |-> f[i]]
    BY <1>8
  <2>2. f[0] = x0 /\ \A i \in 1 .. n : f[i] = Next1(f[i - 1], i)
    <3>1. \A i \in 0 .. n : f[i] = Eq(f)[i]
      <4> HIDE DEF Eq
      <4> QED
        BY <1>8
    <3> QED
      BY <1>2, <3>1
  <2>3. f[0] = F[0] /\ \A i \in 1 .. n : f[i - 1] = F[i - 1] => f[i] = F[i]
    BY <1>6, <2>2
  <2>4. n \in Nat /\ F \in [0 .. n -> X]
    BY <1>2, <1>6
  <2> QED
    <3>1. Agrees(n, X, F, f)
      BY <2>1, <2>3, <2>4, Zenon DEF Agrees
    <3> QED
      BY <3>1, Agreeing
<1> QED
  BY <1>1, <1>5, <1>9 DEF X, x0

LEMMA UnpackedEmpty == Unpacked(<<>>) = <<>>
<1>1. <<>> \in Seq(Seq(Bytes))
  BY EmptySeq
<1>2. Folding(Packets(<<>>), UnpackStep, Seq(Messages), <<>>, <<>>)
  BY <1>1, PacketsFolds
<1> QED
  BY <1>2, FoldEmpty DEF Unpacked

LEMMA UnpackedAppend ==
  ASSUME NEW s \in Seq(Seq(Bytes)), NEW b \in Seq(Bytes)
  PROVE  Unpacked(Append(s, b)) = Unpack(Unpacked(s), b)
<1> DEFINE t == Append(s, b)
           F == Packets(s)
           H == Packets(t)
           x0 == <<>>
           X == Seq(Messages)
           S == Seq(Bytes)
<1>1. Extends(S, t, s, b) /\ t \in Seq(S)
  BY AppendExtends, AppendProperties
<1>2. Folding(F, UnpackStep, X, x0, s) /\ Folding(H, UnpackStep, X, x0, t)
  BY <1>1, PacketsFolds
<1>3. Unpacked(s) = F[Len(s)] /\ Unpacked(t) = H[Len(t)]
  BY DEF Unpacked
<1> HIDE DEF t, F, H, x0, X, S
<1>4. F[Len(s)] \in X /\ H[Len(t)] = UnpackStep[<<F[Len(s)], b>>]
  BY <1>1, <1>2, FoldAppend
<1>5. \A x \in X : UnpackStep[<<x, b>>] = Unpack(x, b)
  BY DEF UnpackStep, X
<1> QED
  BY <1>3, <1>4, <1>5 DEF t, X

\* What the host reads is the next of what is told.
LEMMA ContinuesRead ==
  ASSUME NEW done \in Seq(Told), NEW all \in Seq(Told),
         NEW q \in Seq(Seq(Bytes)), NEW r \in Seq(Seq(Bytes)), Continues(done, Cat(q, r), all, HD)
  PROVE  /\ Cat(done, Unpacked(q)) \in Seq(Told)
         /\ Continues(Cat(done, Unpacked(q)), r, all, HD)
<1> DEFINE B == Seq(Bytes)
           Good(p) == \A u \in Seq(B) :
                        Continues(done, Cat(p, u), all, HD) =>
                          /\ Unpacked(p) \in Seq(Told)
                          /\ Continues(Cat(done, Unpacked(p)), u, all, HD)
           P == {p \in Seq(B) : Good(p)}
<1> HIDE DEF B
<1>1. <<>> \in P
  <2>1. <<>> \in Seq(B) /\ <<>> \in Seq(Told) /\ Cat(done, <<>>) = done
    BY EmptySeq, ConcatEmptySeq DEF Cat
  <2>2. \A u \in Seq(B) : Cat(<<>>, u) = u
    BY ConcatEmptySeq DEF Cat
  <2>3. Good(<<>>)
    BY <2>1, <2>2, UnpackedEmpty
  <2> HIDE DEF Good
  <2> QED
    BY <2>1, <2>3
<1>2. ASSUME NEW p \in P, NEW b \in B PROVE Append(p, b) \in P
  <2> DEFINE t == Append(p, b)
             h == <<b>>
             up1 == Unpacked(p)
             x == HD[b]
  <2>1. p \in Seq(B) /\ t \in Seq(B) /\ h \in Seq(B) /\ t = Cat(p, h) /\ Good(p)
    <3>1. p \in Seq(B) /\ Good(p)
      BY <1>2
    <3>2. <<b>> \in Seq(B)
      OBVIOUS
    <3> HIDE DEF Good
    <3> QED
      BY <3>1, <3>2, AppendProperties, AppendIsConcat DEF Cat
  <2>2. x = HostDecode(b) /\ Unpacked(t) = Unpack(up1, b)
    BY <2>1, UnpackedAppend DEF HD, B
  <2> HIDE DEF P, t, h, up1, x
  <2> SUFFICES ASSUME NEW u \in Seq(B), Continues(done, Cat(t, u), all, HD)
               PROVE  Unpacked(t) \in Seq(Told) /\ Continues(Cat(done, Unpacked(t)), u, all, HD)
    BY <2>1 DEF P, t
  <2>3. Cat(t, u) = Cat(p, Cat(h, u)) /\ Cat(h, u) \in Seq(B)
    BY <2>1, CatAssociative, CatAt
  <2>4. up1 \in Seq(Told) /\ Continues(Cat(done, up1), Cat(h, u), all, HD)
    BY <2>1, <2>3 DEF up1
  <2>5. Cat(done, up1) \in Seq(Told)
    BY <2>4, CatAt
  <2> DEFINE d1 == Cat(done, up1)
  <2>6. d1 \in Seq(Told) /\ Continues(d1, Cat(<<b>>, u), all, HD)
    BY <2>4, <2>5 DEF h
  <2> HIDE DEF d1
  <2>7. x \in Told /\ Continues(Append(d1, x), u, all, HD)
    BY <2>6, ContinuesTake DEF x
  <2>8. Unpacked(t) = Append(up1, x)
    BY <2>2, <2>7, TellsAre DEF Unpack
  <2>9. Append(up1, x) \in Seq(Told) /\ Cat(done, Append(up1, x)) = Append(Cat(done, up1), x)
    BY <2>4, <2>7, AppendProperties, CatAppend
  <2> QED
    BY <2>7, <2>8, <2>9 DEF d1
<1>3. P = Seq(B)
  <2>1. P \in SUBSET Seq(B)
    OBVIOUS
  <2> HIDE DEF P
  <2> QED
    BY <1>1, <1>2, <2>1, SeqInduction
<1>4. q \in Seq(B) /\ r \in Seq(B)
  BY DEF B
<1>5. Unpacked(q) \in Seq(Told) /\ Continues(Cat(done, Unpacked(q)), r, all, HD)
  BY <1>3, <1>4
<1> QED
  BY <1>5, CatAt

-----------------------------------------------------------------------------
(***************************************************************************)
(* A line from one side to the other: its decoder, the bytes it has still  *)
(* to hear, and the packets that it has taken of all those that were sent. *)
(***************************************************************************)
Line(side, c, s, done, all, dec) ==
  /\ c \in Codecs /\ s \in Seq(Bytes)
  /\ Heard(side, c, s).codec = Reset
  /\ Continues(done, Heard(side, c, s).packets, all, dec)

\* A frame more.
LEMMA LineWrite ==
  ASSUME NEW side, NEW c, NEW s, NEW A, NEW done \in Seq(A), NEW all \in Seq(A), NEW dec,
         Line(side, c, s, done, all, dec),
         NEW d \in Seq(Byte), Len(d) <= DATA_SIZE, dec[d] \in A
  PROVE  Line(side, c, Cat(s, bisync_encode(d)), done, Append(all, dec[d]), dec)
<1> DEFINE f == bisync_encode(d)
           h == Heard(side, c, s)
           k == Heard(side, Reset, f)
           g == Heard(side, c, Cat(s, f))
           B == Seq(Bytes)
           x == dec[d]
<1>1. /\ c \in Codecs /\ s \in Seq(Bytes) /\ h.codec = Reset
      /\ Continues(done, h.packets, all, dec)
  BY DEF Line
<1>2. f \in Seq(Bytes)
  BY FrameBytes
<1>3. /\ k.codec = Reset /\ \E p \in Seq(Seq(Bytes)) : k.packets = Append(p, d) /\ p = <<>>
  BY ResetType, FrameTaken
<1> HIDE DEF f
<1>4. g.codec = Heard(side, h.codec, f).codec /\ g.packets = Cat(h.packets, Heard(side, h.codec, f).packets)
  BY <1>1, <1>2, HeardCat
<1>5. Cat(s, f) \in Seq(Bytes) /\ h.packets \in Seq(B) /\ d \in B
  <2>1. d \in Seq(Bytes)
    <3>1. Byte \subseteq Bytes
      BY DEF Bytes
    <3>2. \A i \in 1 .. Len(d) : d[i] \in Bytes
      BY <3>1, ElementOfSeq
    <3> QED
      BY <3>2, LenProperties
  <2> QED
    BY <1>1, <1>2, <2>1, CatAt, HeardType
<1> HIDE DEF h, g, k, B
<1>6. k.packets = <<d>>
  <2>1. Append(<<>>, d) = <<d>>
    OBVIOUS
  <2> QED
    BY <1>3, <2>1
<1>7. g.codec = Reset /\ g.packets = Append(h.packets, d)
  <2>1. Heard(side, h.codec, f) = k
    BY <1>1 DEF k
  <2>2. Cat(h.packets, <<d>>) = Append(h.packets, d)
    BY <1>5, AppendIsConcat DEF Cat
  <2> QED
    BY <1>3, <1>4, <1>6, <2>1, <2>2
<1>8. Continues(done, Append(h.packets, d), Append(all, x), dec)
  <2> HIDE DEF x
  <2>1. x \in A /\ dec[d] = x
    BY DEF x
  <2> QED
    BY <1>1, <1>5, <2>1, ContinuesAppend
<1> QED
  BY <1>1, <1>5, <1>7, <1>8 DEF Line, f, g

\* Bytes that are heard first.
LEMMA LineHear ==
  ASSUME NEW side, NEW c \in Codecs, NEW s \in Seq(Bytes), NEW t \in Seq(Bytes),
         NEW done, NEW all, NEW dec, Line(side, c, Cat(s, t), done, all, dec)
  PROVE  LET h == Heard(side, c, s)
             k == Heard(side, h.codec, t)
         IN  /\ h.codec \in Codecs /\ k.codec = Reset
             /\ h.packets \in Seq(Seq(Bytes)) /\ k.packets \in Seq(Seq(Bytes))
             /\ Continues(done, Cat(h.packets, k.packets), all, dec)
<1> DEFINE h == Heard(side, c, s)
           k == Heard(side, h.codec, t)
           g == Heard(side, c, Cat(s, t))
<1>1. g.codec = k.codec /\ g.packets = Cat(h.packets, k.packets)
  BY HeardCat
<1>2. h.codec \in Codecs /\ h.packets \in Seq(Seq(Bytes))
  BY HeardType
<1>3. k.packets \in Seq(Seq(Bytes))
  <2> HIDE DEF h
  <2> QED
    BY <1>2, HeardType
<1>4. g.codec = Reset /\ Continues(done, g.packets, all, dec)
  BY DEF Line
<1> HIDE DEF g, h, k
<1>5. k.codec = Reset /\ Continues(done, Cat(h.packets, k.packets), all, dec)
  BY <1>1, <1>4
<1> QED
  BY <1>2, <1>3, <1>5 DEF h, k

\* The host reads what has arrived.
LEMMA LineRead ==
  ASSUME NEW c \in Codecs, NEW s \in Seq(Bytes), NEW t \in Seq(Bytes),
         NEW done \in Seq(Told), NEW all \in Seq(Told), Line("host", c, Cat(s, t), done, all, HD)
  PROVE  LET h == Heard("host", c, s)
             now == Cat(done, Unpacked(h.packets))
         IN  now \in Seq(Told) /\ Line("host", h.codec, t, now, all, HD)
<1> DEFINE h == Heard("host", c, s)
           k == Heard("host", h.codec, t)
           q == h.packets
           r == k.packets
<1>1. h.codec \in Codecs /\ k.codec = Reset /\ q \in Seq(Seq(Bytes)) /\ r \in Seq(Seq(Bytes))
      /\ Continues(done, Cat(q, r), all, HD)
  BY LineHear
<1> HIDE DEF q, r
<1>2. Cat(done, Unpacked(q)) \in Seq(Told) /\ Continues(Cat(done, Unpacked(q)), r, all, HD)
  BY <1>1, ContinuesRead
<1> QED
  BY <1>1, <1>2 DEF Line, q, r

\* The device takes the bytes up to the first that completes a packet: there is
\* none, or it is the next of all.
LEMMA LineEat ==
  ASSUME NEW c \in Codecs, NEW s \in Seq(Bytes), NEW t \in Seq(Bytes), NEW A,
         NEW done \in Seq(A), NEW all \in Seq(A), NEW dec, Line("device", c, Cat(s, t), done, all, dec)
  PROVE  LET e == Eaten(c, s)
             rest == Cat(From(s, e.n), t)
             now == IF e.event = Received THEN Append(done, dec[e.data]) ELSE done
         IN  /\ e.event = Received => dec[e.data] \in A
             /\ now \in Seq(A) /\ Line("device", e.codec, rest, now, all, dec)
<1> DEFINE e == Eaten(c, s)
           a == First(s, e.n)
           b == From(s, e.n)
           rest == Cat(b, t)
           h == Heard("device", c, a)
           k == Heard("device", h.codec, rest)
           now == IF e.event = Received THEN Append(done, dec[e.data]) ELSE done
<1>1. e \in Meals /\ Consumed(c, s, e)
  BY EatenType, EatenHeard
<1> HIDE DEF e
<1>2. e.n \in Nat /\ e.codec \in Codecs /\ e.data \in Seq(Bytes)
  BY <1>1 DEF Meals
<1>3. a \in Seq(Bytes) /\ b \in Seq(Bytes) /\ Cat(a, b) = s
  <2> DEFINE n == e.n
  <2>1. n \in Nat /\ n \in Int
    BY <1>2
  <2> HIDE DEF n
  <2>2. First(s, n) \in Seq(Bytes)
    BY <2>1, FirstIs
  <2>3. From(s, n) \in Seq(Bytes)
    BY <2>1, FromIs
  <2>4. Cat(First(s, n), From(s, n)) = s
    BY <2>1, Halves
  <2> QED
    BY <2>2, <2>3, <2>4 DEF n
<1>4. h.codec = e.codec /\ h.packets = IF e.event = Received THEN <<e.data>> ELSE <<>>
  BY <1>1 DEF Consumed
<1> HIDE DEF a, b
<1>5. rest \in Seq(Bytes) /\ Cat(a, rest) = Cat(s, t)
  BY <1>3, CatAt, CatAssociative
<1> HIDE DEF rest
<1>6. /\ k.codec = Reset /\ k.packets \in Seq(Seq(Bytes))
      /\ Continues(done, Cat(h.packets, k.packets), all, dec)
  BY <1>3, <1>5, LineHear
<1> DEFINE q == k.packets
<1>7. q \in Seq(Seq(Bytes)) /\ Continues(done, Cat(h.packets, q), all, dec)
  BY <1>6
<1> HIDE DEF h, q
<1>8. /\ e.event = Received => dec[e.data] \in A
      /\ now \in Seq(A) /\ Continues(now, q, all, dec)
  <2>1. CASE e.event = Received
    <3> DEFINE d == e.data
               B == Seq(Bytes)
    <3>1. d \in B /\ q \in Seq(B) /\ Continues(done, Cat(<<d>>, q), all, dec)
      BY <1>2, <1>4, <1>7, <2>1
    <3> HIDE DEF d, B
    <3>2. /\ dec[d] \in A /\ Append(done, dec[d]) \in Seq(A)
          /\ Continues(Append(done, dec[d]), q, all, dec)
      BY <3>1, ContinuesTake
    <3> QED
      BY <2>1, <3>2 DEF d
  <2>2. CASE e.event # Received
    <3>1. Cat(<<>>, q) = q
      BY <1>7, ConcatEmptySeq DEF Cat
    <3> QED
      BY <1>4, <1>7, <2>2, <3>1
  <2> QED
    BY <2>1, <2>2
<1> HIDE DEF now
<1>9. Line("device", e.codec, rest, now, all, dec)
  BY <1>2, <1>4, <1>5, <1>6, <1>8 DEF Line, q
<1> QED
  BY <1>8, <1>9 DEF rest, now, b, e

\* SYN SYN ACK is nothing to the host.
LEMMA LineAck ==
  ASSUME NEW c, NEW s, NEW done, NEW all, NEW dec, Line("host", c, s, done, all, dec)
  PROVE  Line("host", c, Cat(s, SYN_SYN_ACK), done, all, dec)
<1> DEFINE f == SYN_SYN_ACK
           h == Heard("host", c, s)
           g == Heard("host", c, Cat(s, f))
           k == Heard("host", Reset, f)
<1>1. /\ c \in Codecs /\ s \in Seq(Bytes) /\ h.codec = Reset
      /\ Continues(done, h.packets, all, dec) /\ f \in Seq(Bytes)
  BY AckBytes DEF Line
<1>2. k.codec = Reset /\ k.packets = <<>>
  <2> DEFINE s1 == <<SYN>>
             s2 == Append(s1, SYN)
             k1 == Heard("host", Reset, s1)
             k2 == Heard("host", Reset, s2)
  <2>1. SYN \in Bytes /\ ACK \in Bytes /\ s1 \in Seq(Bytes)
    <3>1. SYN \in Bytes /\ ACK \in Bytes
      BY BytesAre DEF Controls
    <3> QED
      BY <3>1
  <2>2. s1 = Append(<<>>, SYN) /\ <<>> \in Seq(Bytes) /\ f = Append(s2, ACK)
    BY DEF SYN_SYN_ACK
  <2>3. s2 \in Seq(Bytes)
    BY <2>1, AppendProperties
  <2>4. k1 = Hear("host", Start(Reset), SYN)
    BY <2>1, ResetType, HeardOne
  <2> HIDE DEF s1
  <2>5. k2 = Hear("host", k1, SYN)
    BY <2>1, ResetType, HeardAppend
  <2> HIDE DEF s2
  <2>6. k = Hear("host", k2, ACK)
    BY <2>1, <2>2, <2>3, ResetType, HeardAppend
  <2>7. /\ decode(Reset, SYN).codec = Reset /\ decode(Reset, SYN).event = Quiet
        /\ decode(Reset, ACK).codec = Reset /\ decode(Reset, ACK).event = Quiet
    <3>1. ~Reset.CRC /\ ~Reset.DLE
      BY DEF Reset
    <3>2. decode(Reset, SYN) = Step(Reset) /\ decode(Reset, ACK) = Step(Reset)
      BY <3>1 DEF decode, SYN, ENQ, ACK, SOH, STX, ETX, DLE
    <3> QED
      BY <3>2 DEF Step
  <2>8. /\ Decode1("host", Reset, SYN) = decode(Reset, SYN)
        /\ Decode1("host", Reset, ACK) = decode(Reset, ACK)
    BY DEF Decode1
  <2>9. Quiet # Received /\ Start(Reset).codec = Reset /\ Start(Reset).packets = <<>>
    BY DEF Quiet, Received, Start
  <2> HIDE DEF k1, k2, k
  <2>10. k1.codec = Reset /\ k1.packets = <<>>
    BY <2>4, <2>7, <2>8, <2>9, HearQuiet
  <2>11. k2.codec = Reset /\ k2.packets = <<>>
    BY <2>5, <2>7, <2>8, <2>10, HearQuiet
  <2> QED
    BY <2>6, <2>7, <2>8, <2>11, HearQuiet
<1> HIDE DEF f
<1>3. g.codec = Heard("host", h.codec, f).codec /\ g.packets = Cat(h.packets, Heard("host", h.codec, f).packets)
  BY <1>1, HeardCat
<1>4. Cat(s, f) \in Seq(Bytes) /\ h.packets \in Seq(Seq(Bytes))
  BY <1>1, CatAt, HeardType
<1> HIDE DEF h, g
<1>5. g.codec = Reset /\ g.packets = h.packets
  <2>1. Heard("host", h.codec, f) = k
    BY <1>1
  <2> HIDE DEF k
  <2>2. Cat(h.packets, <<>>) = h.packets
    BY <1>4, ConcatEmptySeq DEF Cat
  <2> QED
    BY <1>2, <1>3, <2>1, <2>2
<1> QED
  BY <1>1, <1>4, <1>5 DEF Line, f, g

LEMMA Decoded ==
  /\ Seq(Byte) \subseteq Seq(Bytes)
  /\ \A b \in Seq(Bytes) : DD[b] = DeviceDecode(b) /\ HD[b] = HostDecode(b)
<1>1. Byte \subseteq Bytes
  BY DEF Bytes
<1>2. ASSUME NEW s \in Seq(Byte) PROVE s \in Seq(Bytes)
  <2>1. \A i \in 1 .. Len(s) : s[i] \in Bytes
    BY <1>1, ElementOfSeq
  <2> QED
    BY <2>1, LenProperties
<1> QED
  BY <1>2 DEF DD, HD

-----------------------------------------------------------------------------
(***************************************************************************)
(* While nothing is lost: both lines are in order, every request that the  *)
(* device has taken is answered, and bytes in the buffer are announced.    *)
(***************************************************************************)
Down == Cat(From(ring, at), down)
Up == Cat(up, out)
Lines ==
  /\ Line("device", codec, Down, did, sent, DD)
  /\ Line("host", decoder, Up, got, said, HD)
Responds(p, r) == p.tag = RESPONSE /\ p.id = r.id /\ p.oid = r.oid
Response(ds, ss) == \A i \in 1 .. Len(ds) : \E j \in 1 .. Len(ss) : Responds(ss[j], ds[i])
Responded == Response(did, said)
Announced ==
  /\ at <= Len(ring) /\ rx \in Nat /\ flushing \in BOOLEAN
  /\ ~flushing => at = 0
  /\ ring # <<>> => rx > 0 \/ flushing
Histories == did \in Seq(Asked) /\ said \in Seq(Told) /\ got \in Seq(Told)
Intact == LinkType /\ Announced /\ Histories /\ Lines /\ Responded

LinkInv == faults \in Nat /\ (faults = 0 => Intact)

LEMMA FromEmpty == From(<<>>, 0) = <<>>
<1> DEFINE s == <<>>
<1>1. s \in Seq(Bytes) /\ Len(s) = 0 /\ 0 \in Nat
  BY EmptySeq
<1> HIDE DEF s
<1>2. From(s, 0) \in Seq(Bytes) /\ Len(From(s, 0)) = IF 0 < Len(s) THEN Len(s) - 0 ELSE 0
  BY <1>1, FromIs
<1>3. From(s, 0) \in Seq(Bytes) /\ Len(From(s, 0)) = 0
  BY <1>1, <1>2
<1>4. From(s, 0) = <<>>
  BY <1>3, EmptySeq
<1> QED
  BY <1>4 DEF s

LEMMA LinkInvInit == Init => LinkInv
<1> SUFFICES ASSUME Init PROVE LinkInv
  OBVIOUS
<1>1. /\ ring = <<>> /\ at = 0 /\ rx = 0 /\ flushing = FALSE /\ down = <<>> /\ up = <<>> /\ out = <<>>
      /\ codec = Reset /\ decoder = Reset /\ did = <<>> /\ said = <<>> /\ got = <<>> /\ sent = <<>>
      /\ faults = 0
  BY DEF Init
<1>2. LinkType
  BY LinkTypeInit
<1>3. <<>> \in Seq(Bytes) /\ <<>> \in Seq(Asked) /\ <<>> \in Seq(Told) /\ Len(<<>>) = 0
  BY EmptySeq
<1>4. Announced /\ Histories /\ Responded
  <2>1. Announced
    <3>1. Len(ring) = 0
      BY <1>1, <1>3
    <3>2. at <= Len(ring) /\ rx \in Nat /\ at = 0 /\ ring = <<>>
      BY <1>1, <3>1
    <3>3. flushing \in BOOLEAN
      BY <1>1
    <3> QED
      BY <3>2, <3>3, Zenon DEF Announced
  <2>2. Histories
    BY <1>1, <1>3 DEF Histories
  <2>3. Responded
    <3>1. Len(did) = 0
      BY <1>1, <1>3
    <3> QED
      BY <3>1 DEF Responded, Response
  <2> QED
    BY <2>1, <2>2, <2>3
<1>5. Down = <<>> /\ Up = <<>>
  <2>2. From(<<>>, 0) = <<>>
    BY FromEmpty
  <2>3. Cat(<<>>, <<>>) = <<>>
    BY <1>3, ConcatEmptySeq DEF Cat
  <2> QED
    BY <1>1, <2>2, <2>3 DEF Down, Up
<1>6. \A side, dec : Line(side, Reset, <<>>, <<>>, <<>>, dec)
  <2> SUFFICES ASSUME NEW side, NEW dec PROVE Line(side, Reset, <<>>, <<>>, <<>>, dec)
    OBVIOUS
  <2>1. Heard(side, Reset, <<>>) = Start(Reset) /\ Start(Reset).codec = Reset /\ Start(Reset).packets = <<>>
    BY ResetType, HeardEmpty DEF Start
  <2> QED
    BY <1>3, <2>1, ResetType, ContinuesStart DEF Line
<1>7. Lines
  BY <1>1, <1>5, <1>6 DEF Lines
<1> QED
  BY <1>1, <1>2, <1>4, <1>7 DEF LinkInv, Intact

LEMMA WriteIntact ==
  ASSUME Intact, NEW r \in Requests, Write(r), LinkType'
  PROVE  Intact'
<1> DEFINE d == HostEncode(Get(r))
           f == bisync_encode(d)
           b == From(ring, at)
<1>1. /\ sent' = Append(sent, Get(r)) /\ down' = down \o f /\ Len(sent) < MaxSent
      /\ UNCHANGED <<decoder, got, up, ring, rx, codec, flushing, at, out, settings, did, said, faults>>
  BY DEF Write, ringVars, loopVars
<1>2. /\ Get(r) \in Asked /\ d \in Seq(Byte) /\ Len(d) <= DATA_SIZE
      /\ DeviceDecode(d) = Get(r) /\ f \in Seq(Bytes)
  BY <1>1, WriteType DEF Intact, LinkType
<1>3. b \in Seq(Bytes) /\ down \in Seq(Bytes) /\ sent \in Seq(Asked) /\ did \in Seq(Asked)
  BY FromIs DEF Intact, LinkType, Histories
<1> DEFINE x == DD[d]
<1>4. x = Get(r)
  BY <1>2, Decoded
<1> HIDE DEF x, d
<1>5. Line("device", codec, Cat(Cat(b, down), f), did, Append(sent, x), DD)
  <2>1. Line("device", codec, Cat(b, down), did, sent, DD) /\ x \in Asked
    BY <1>2, <1>4 DEF Intact, Lines, Down
  <2> HIDE DEF b
  <2>2. Line("device", codec, Cat(Cat(b, down), bisync_encode(d)), did, Append(sent, DD[d]), DD)
    BY <1>2, <1>3, <2>1, LineWrite DEF x
  <2> QED
    BY <2>2 DEF x
<1> HIDE DEF f
<1>6. Cat(Cat(b, down), f) = Down'
  <2>1. Cat(Cat(b, down), f) = Cat(b, Cat(down, f))
    BY <1>2, <1>3, CatAssociative
  <2>2. Cat(down, f) = down' /\ b = From(ring', at')
    BY <1>1 DEF Cat
  <2> HIDE DEF b
  <2> QED
    BY <2>1, <2>2 DEF Down
<1>7. Line("device", codec', Down', did', sent', DD)
  BY <1>1, <1>4, <1>5, <1>6
<1>8. Line("host", decoder', Up', got', said', HD)
  BY <1>1 DEF Intact, Lines, Up
<1>9. Announced' /\ Histories' /\ Responded'
  BY <1>1 DEF Intact, Announced, Histories, Responded
<1> QED
  BY <1>7, <1>8, <1>9 DEF Intact, Lines

LEMMA ReadIntact ==
  ASSUME Intact, Read, LinkType'
  PROVE  Intact'
<1> DEFINE h == Heard("host", decoder, up)
           u == Unpacked(h.packets)
<1>1. /\ decoder' = h.codec /\ got' = Cat(got, u) /\ up' = <<>>
      /\ UNCHANGED <<sent, down, ring, rx, codec, flushing, at, out, settings, did, said, faults>>
  BY DEF Read, ringVars, loopVars, Cat, Unpacked
<1>2. decoder \in Codecs /\ up \in Seq(Bytes) /\ out \in Seq(Bytes) /\ got \in Seq(Told) /\ said \in Seq(Told)
  BY DEF Intact, LinkType, Histories
<1>3. Line("host", decoder, Cat(up, out), got, said, HD)
  BY DEF Intact, Lines, Up
<1>4. Cat(got, u) \in Seq(Told) /\ Line("host", h.codec, out, Cat(got, u), said, HD)
  BY <1>2, <1>3, LineRead
<1> HIDE DEF h, u
<1>5. Up' = out
  <2>1. Cat(<<>>, out) = out
    BY <1>2, ConcatEmptySeq DEF Cat
  <2> QED
    BY <1>1, <2>1 DEF Up
<1>6. Line("host", decoder', Up', got', said', HD)
  BY <1>1, <1>4, <1>5
<1>7. Line("device", codec', Down', did', sent', DD)
  BY <1>1 DEF Intact, Lines, Down
<1>8. Announced' /\ Histories' /\ Responded'
  BY <1>1, <1>4 DEF Intact, Announced, Histories, Responded
<1> QED
  BY <1>6, <1>7, <1>8 DEF Intact, Lines

LEMMA CallbackIntact ==
  ASSUME Intact, tud_cdc_rx_cb, faults' = 0, faults \in Nat, LinkType'
  PROVE  Intact'
<1> DEFINE b == First(down, PacketSize)
           c == From(down, PacketSize)
           rest == From(ring, at)
<1>1. /\ down' = c /\ ring' = buffer_push(b) /\ rx' = rx + 1 /\ ~(Len(ring) + Len(b) > RingSize - 1)
      /\ UNCHANGED <<sent, decoder, got, up, codec, flushing, at, out, settings, did, said>>
  BY DEF tud_cdc_rx_cb, MayFail, hostVars, loopVars
<1>2. down \in Seq(Bytes) /\ ring \in Seq(Bytes) /\ at \in 0 .. Len(ring) /\ PacketSize \in Nat
  BY ConstantsAre, LenProperties DEF Intact, LinkType, Announced
<1>3. b \in Seq(Bytes) /\ c \in Seq(Bytes) /\ rest \in Seq(Bytes) /\ Cat(b, c) = down
  <2>1. b \in Seq(Bytes)
    BY <1>2, FirstIs
  <2>2. c \in Seq(Bytes) /\ rest \in Seq(Bytes)
    BY <1>2, FromIs
  <2>3. Cat(b, c) = down
    BY <1>2, Halves
  <2> QED
    BY <2>1, <2>2, <2>3
<1> HIDE DEF b, c
<1>4. ring' = Cat(ring, b)
  <2> DEFINE s == Cat(ring, b)
             n == RingSize - 1
  <2>1. s \in Seq(Bytes) /\ Len(s) = Len(ring) + Len(b)
    BY <1>2, <1>3, CatAt
  <2>2. ring' = First(s, n) /\ n \in Int /\ ~(Len(ring) + Len(b) > n)
    BY <1>1, ConstantsAre DEF buffer_push, Cat
  <2> HIDE DEF s, n
  <2>3. Len(s) \in Nat /\ ~(Len(s) > n)
    BY <2>1, <2>2, LenProperties
  <2> DEFINE t == First(s, n)
  <2>4. /\ t \in Seq(Bytes) /\ Len(t) = (IF n < 0 THEN 0 ELSE IF n < Len(s) THEN n ELSE Len(s))
        /\ \A i \in 1 .. Len(t) : t[i] = s[i]
    BY <2>1, <2>2, FirstIs
  <2> HIDE DEF t
  <2>5. Len(t) = Len(s)
    BY <2>2, <2>3, <2>4
  <2>6. t = s
    BY <2>1, <2>4, <2>5, SeqEqual
  <2> QED
    BY <2>2, <2>6 DEF t, s
<1>5. Down' = Down
  <2>1. From(Cat(ring, b), at) = Cat(rest, b)
    BY <1>2, <1>3, FromCat
  <2>2. Cat(Cat(rest, b), c) = Cat(rest, Cat(b, c))
    BY <1>3, CatAssociative
  <2>3. Down' = Cat(From(Cat(ring, b), at), c)
    BY <1>1, <1>4 DEF Down
  <2> QED
    BY <1>3, <2>1, <2>2, <2>3 DEF Down
<1>6. Lines'
  BY <1>1, <1>5 DEF Intact, Lines, Up
<1>7. Announced'
  <2>1. Len(ring') = Len(ring) + Len(b) /\ Len(b) \in Nat /\ Len(ring) \in Nat
    BY <1>2, <1>3, <1>4, CatAt, LenProperties
  <2> QED
    BY <1>1, <1>2, <2>1 DEF Intact, Announced
<1>8. Histories' /\ Responded'
  BY <1>1 DEF Intact, Histories, Responded
<1> QED
  BY <1>6, <1>7, <1>8 DEF Intact

LEMMA ResponseMore ==
  ASSUME NEW A, NEW ds \in Seq(A), NEW ss \in Seq(Told), NEW p \in Told, Response(ds, ss)
  PROVE  /\ Response(ds, Append(ss, p))
         /\ \A r \in A : Responds(p, r) => Response(Append(ds, r), Append(ss, p))
<1> DEFINE st == Append(ss, p)
<1>1. Extends(Told, st, ss, p)
  BY AppendExtends
<1>2. Len(ss) \in Nat /\ Len(ds) \in Nat
  BY LenProperties
<1> HIDE DEF st
<1>3. /\ Len(st) = Len(ss) + 1 /\ st[Len(ss) + 1] = p
      /\ \A j \in 1 .. Len(ss) : j \in 1 .. Len(st) /\ st[j] = ss[j]
  BY <1>1, <1>2 DEF Extends
<1>4. \A i \in 1 .. Len(ds) : \E j \in 1 .. Len(st) : Responds(st[j], ds[i])
  <2> SUFFICES ASSUME NEW i \in 1 .. Len(ds) PROVE \E j \in 1 .. Len(st) : Responds(st[j], ds[i])
    OBVIOUS
  <2>1. PICK j \in 1 .. Len(ss) : Responds(ss[j], ds[i])
    BY DEF Response
  <2> QED
    BY <1>3, <2>1
<1>5. ASSUME NEW r \in A, Responds(p, r) PROVE Response(Append(ds, r), st)
  <2> DEFINE dt == Append(ds, r)
  <2>1. Extends(A, dt, ds, r)
    BY AppendExtends
  <2> HIDE DEF dt
  <2>2. Len(dt) = Len(ds) + 1 /\ dt[Len(ds) + 1] = r /\ \A i \in 1 .. Len(ds) : dt[i] = ds[i]
    BY <2>1 DEF Extends
  <2>3. ASSUME NEW i \in 1 .. Len(dt) PROVE \E j \in 1 .. Len(st) : Responds(st[j], dt[i])
    <3>1. CASE i = Len(ds) + 1
      <4>1. Len(ss) + 1 \in 1 .. Len(st)
        BY <1>2, <1>3
      <4>2. Responds(st[Len(ss) + 1], dt[i])
        BY <1>3, <1>5, <2>2, <3>1
      <4> QED
        BY <4>1, <4>2
    <3>2. CASE i # Len(ds) + 1
      <4>1. i \in 1 .. Len(ds)
        BY <1>2, <2>2, <3>2
      <4> QED
        BY <1>4, <2>2, <4>1
    <3> QED
      BY <3>1, <3>2
  <2> QED
    BY <2>3 DEF Response, dt
<1> QED
  BY <1>4, <1>5 DEF Response, st

\* The device says something: the host has its frame to hear.
LEMMA SaidMore ==
  ASSUME Intact, out = <<>>, NEW p \in Told
  PROVE  LET f == bisync_encode(DeviceEncode(p))
         IN  /\ f \in Seq(Bytes) /\ Append(said, p) \in Seq(Told)
             /\ Line("host", decoder, Cat(up, f), got, Append(said, p), HD)
<1> DEFINE d == DeviceEncode(p)
           f == bisync_encode(d)
           x == HD[d]
<1>1. d \in Seq(Byte) /\ Len(d) <= DATA_SIZE /\ HostDecode(d) = p
  <2>1. Fits(d) /\ HostDecode(d) = p
    <3>1. p \in (UNION {Answered(rq) : rq \in Asked}) \cup {Trap(e, t) : e \in Events, t \in Texts}
      BY DEF Told
    <3> QED
      BY <3>1, CodecAssumption
  <2> QED
    BY <2>1 DEF Fits
<1> HIDE DEF d
<1>2. x = p /\ f \in Seq(Bytes)
  BY <1>1, Decoded, FrameBytes
<1>3. up \in Seq(Bytes) /\ said \in Seq(Told) /\ got \in Seq(Told)
  BY DEF Intact, LinkType, Histories
<1>4. Cat(up, <<>>) = up
  BY <1>3, ConcatEmptySeq DEF Cat
<1>5. Line("host", decoder, up, got, said, HD)
  BY <1>4 DEF Intact, Lines, Up
<1> HIDE DEF x
<1>6. x \in Told
  BY <1>2
<1>7. Line("host", decoder, Cat(up, bisync_encode(d)), got, Append(said, HD[d]), HD)
  BY <1>1, <1>3, <1>5, <1>6, LineWrite DEF x
<1>8. Append(said, p) \in Seq(Told)
  BY <1>3, AppendProperties
<1> QED
  BY <1>2, <1>7, <1>8 DEF d, x

\* What is left of the bytes to the device after it has taken some, and what that does.
LEMMA EatIntact ==
  ASSUME Intact
  PROVE  LET e == Eaten(codec, From(ring, at))
             now == IF e.event = Received THEN Append(did, DD[e.data]) ELSE did
         IN  /\ e \in Meals /\ at + e.n \in 0 .. Len(ring)
             /\ e.event = Quiet => From(ring, at + e.n) = <<>>
             /\ e.event = Received => DD[e.data] \in Asked /\ DeviceDecode(e.data) = DD[e.data]
             /\ now \in Seq(Asked)
             /\ Line("device", e.codec, Cat(From(ring, at + e.n), down), now, sent, DD)
<1> DEFINE bytes == From(ring, at)
           e == Eaten(codec, bytes)
           now == IF e.event = Received THEN Append(did, DD[e.data]) ELSE did
<1>1. /\ codec \in Codecs /\ ring \in Seq(Bytes) /\ down \in Seq(Bytes) /\ at \in Nat /\ at <= Len(ring)
      /\ Len(ring) \in Nat /\ did \in Seq(Asked) /\ sent \in Seq(Asked)
  BY LenProperties DEF Intact, LinkType, Announced, Histories
<1>2. /\ bytes \in Seq(Bytes) /\ Len(bytes) = IF at < Len(ring) THEN Len(ring) - at ELSE 0
  BY <1>1, FromIs
<1>3. Line("device", codec, Cat(bytes, down), did, sent, DD)
  BY DEF Intact, Lines, Down
<1> HIDE DEF bytes
<1>4. e \in Meals /\ Consumed(codec, bytes, e)
  BY <1>1, <1>2, EatenType, EatenHeard
<1>5. e.n \in Nat /\ e.data \in Seq(Bytes)
  BY <1>4 DEF Meals
<1>6. e.n <= Len(bytes) /\ (e.event = Quiet => e.n = Len(bytes))
  BY <1>4 DEF Consumed
<1>7. /\ e.event = Received => DD[e.data] \in Asked
      /\ now \in Seq(Asked) /\ Line("device", e.codec, Cat(From(bytes, e.n), down), now, sent, DD)
  <2> HIDE DEF e, now
  <2>1. LET y == Eaten(codec, bytes)
            rest == Cat(From(bytes, y.n), down)
            z == IF y.event = Received THEN Append(did, DD[y.data]) ELSE did
        IN  /\ y.event = Received => DD[y.data] \in Asked
            /\ z \in Seq(Asked) /\ Line("device", y.codec, rest, z, sent, DD)
    BY <1>1, <1>2, <1>3, LineEat
  <2> QED
    BY <2>1 DEF e, now
<1>8. e.event = Received => DeviceDecode(e.data) = DD[e.data]
  BY <1>5, Decoded
<1> HIDE DEF e, now
<1>9. at + e.n \in 0 .. Len(ring) /\ at + e.n \in Nat /\ at + e.n <= Len(ring)
      /\ (e.event = Quiet => at + e.n = Len(ring))
  BY <1>1, <1>2, <1>5, <1>6
<1>10. From(bytes, e.n) = From(ring, at + e.n)
  <2> DEFINE n == e.n
  <2>1. n \in Nat /\ at + n <= Len(ring)
    BY <1>5, <1>9
  <2> HIDE DEF n
  <2>2. From(From(ring, at), n) = From(ring, at + n)
    BY <1>1, <2>1, FromFrom
  <2> QED
    BY <2>2 DEF n, bytes
<1>11. e.event = Quiet => From(ring, at + e.n) = <<>>
  <2> SUFFICES ASSUME e.event = Quiet PROVE From(ring, at + e.n) = <<>>
    OBVIOUS
  <2> DEFINE n == at + e.n
  <2>1. n \in Nat /\ n = Len(ring)
    BY <1>9
  <2> HIDE DEF n
  <2>2. From(ring, n) \in Seq(Bytes) /\ Len(From(ring, n)) = IF n < Len(ring) THEN Len(ring) - n ELSE 0
    BY <1>1, <2>1, FromIs
  <2>3. From(ring, n) \in Seq(Bytes) /\ Len(From(ring, n)) = 0
    BY <1>1, <2>1, <2>2
  <2>4. From(ring, n) = <<>>
    BY <2>3, EmptySeq
  <2> QED
    BY <2>4 DEF n
<1> QED
  BY <1>4, <1>7, <1>8, <1>9, <1>10, <1>11 DEF now, e, bytes

LEMMA IntactEncodes == Intact => Encodable
<1> SUFFICES ASSUME Intact PROVE Encodable
  OBVIOUS
<1> DEFINE e == Eaten(codec, From(ring, at))
           rq == DeviceDecode(e.data)
<1>1. e.event = Received => rq \in Asked
  BY EatIntact
<1>2. rq \in Asked => \A a \in Answered(rq) : DeviceEncode(a) \in Seq(Byte)
  BY ReplyFits
<1> HIDE DEF rq, e
<1>3. e.event = Received => \A a \in Answered(rq) : DeviceEncode(a) \in Seq(Byte)
  BY <1>1, <1>2
<1> QED
  BY <1>3 DEF Encodable, rq, e

LEMMA ReceiveIntact ==
  ASSUME Intact, SSMP_rx, LinkType'
  PROVE  Intact'
<1> DEFINE e == Eaten(codec, From(ring, at))
           rq == DeviceDecode(e.data)
           n == at + e.n
           now == IF e.event = Received THEN Append(did, DD[e.data]) ELSE did
<1>1. /\ n \in 0 .. Len(ring)
      /\ e.event = Quiet => From(ring, n) = <<>>
      /\ e.event = Received => rq \in Asked /\ rq = DD[e.data]
      /\ now \in Seq(Asked)
      /\ Line("device", e.codec, Cat(From(ring, n), down), now, sent, DD)
  BY EatIntact
<1>2. /\ out = <<>> /\ (flushing \/ rx > 0) /\ rx' = (IF flushing THEN rx ELSE rx - 1) /\ codec' = e.codec
      /\ UNCHANGED <<sent, decoder, got, down, up, faults>>
      /\ \/ /\ e.event = Quiet /\ flushing' = FALSE /\ at' = 0 /\ ring' = From(ring, n)
            /\ UNCHANGED <<out, settings, did, said>>
         \/ /\ e.event # Quiet /\ flushing' = TRUE /\ at' = n /\ ring' = ring
            /\ \/ /\ e.event = Enquired /\ out' = SYN_SYN_ACK
                  /\ UNCHANGED <<settings, did, said>>
               \/ e.event = Received /\ SSMP_received(rq)
  <2>1. e = Eating(codec, From(ring, at))[Len(From(ring, at))]
    BY DEF Eaten
  <2> HIDE DEF e
  <2> QED
    BY <2>1 DEF SSMP_rx, hostVars
<1> HIDE DEF e, rq, n, now
<1>3. /\ ring \in Seq(Bytes) /\ down \in Seq(Bytes) /\ up \in Seq(Bytes) /\ did \in Seq(Asked)
      /\ said \in Seq(Told) /\ got \in Seq(Told) /\ Response(did, said)
  BY DEF Intact, LinkType, Histories, Responded
<1>4. /\ Line("device", codec', Down', now, sent', DD)
      /\ Announced'
  <2>0. Len(ring) \in Nat /\ rx \in Nat /\ flushing \in BOOLEAN
    BY <1>3, LenProperties DEF Intact, Announced
  <2>1. CASE e.event = Quiet
    <3>1. flushing' = FALSE /\ at' = 0 /\ ring' = <<>>
      BY <1>1, <1>2, <2>1
    <3>2. Down' = Cat(From(ring, n), down)
      <4>1. From(ring', at') = From(ring, n)
        BY <1>1, <2>1, <3>1, FromEmpty
      <4> QED
        BY <1>2, <4>1 DEF Down
    <3>3. rx' \in Nat
      BY <1>2, <2>0
    <3>4. Len(ring') = 0
      BY <3>1, EmptySeq
    <3>5. at' <= Len(ring')
      BY <3>1, <3>4
    <3> QED
      BY <1>1, <1>2, <3>1, <3>2, <3>3, <3>5 DEF Announced
  <2>2. CASE e.event # Quiet
    <3>1. flushing' = TRUE /\ at' = n /\ ring' = ring
      BY <1>2, <2>2
    <3>2. Down' = Cat(From(ring, n), down)
      BY <1>2, <3>1 DEF Down
    <3>3. rx' \in Nat
      BY <1>2, <2>0
    <3>4. at' <= Len(ring')
      BY <1>1, <2>0, <3>1
    <3> QED
      BY <1>1, <1>2, <3>1, <3>2, <3>3, <3>4 DEF Announced
  <2> QED
    BY <2>1, <2>2
<1>5. ASSUME UNCHANGED <<did, said>>, e.event # Received, Line("host", decoder', Up', got', said', HD)
      PROVE  Intact'
  <2>1. did' = now
    BY <1>5 DEF now
  <2>2. Histories'
    BY <1>2, <1>3, <1>5 DEF Histories
  <2>3. Responded'
    BY <1>3, <1>5 DEF Responded
  <2>4. Lines'
    BY <1>4, <1>5, <2>1 DEF Lines
  <2> QED
    BY <1>4, <2>2, <2>3, <2>4 DEF Intact
<1>6. CASE e.event = Quiet
  <2>1. UNCHANGED <<out, did, said>> /\ e.event # Received
    BY <1>2, <1>6 DEF Quiet, Received
  <2>2. Line("host", decoder', Up', got', said', HD)
    BY <1>2, <2>1 DEF Intact, Lines, Up
  <2> QED
    BY <1>5, <2>1, <2>2
<1>7. CASE e.event = Enquired
  <2>1. UNCHANGED <<did, said>> /\ e.event # Received /\ out' = SYN_SYN_ACK
    BY <1>2, <1>7 DEF Quiet, Received, Enquired
  <2>2. Line("host", decoder, up, got, said, HD)
    <3>1. Cat(up, <<>>) = up
      BY <1>3, ConcatEmptySeq DEF Cat
    <3> QED
      BY <1>2, <3>1 DEF Intact, Lines, Up
  <2>3. Line("host", decoder, Cat(up, SYN_SYN_ACK), got, said, HD)
    BY <2>2, LineAck
  <2>4. Line("host", decoder', Up', got', said', HD)
    BY <1>2, <2>1, <2>3 DEF Up
  <2> QED
    BY <1>5, <2>1, <2>4
<1>8. CASE e.event = Received
  <2>1. SSMP_received(rq) /\ rq \in Asked /\ now = Append(did, rq)
    BY <1>1, <1>2, <1>8 DEF Quiet, Received, Enquired, now
  <2>2. rq # Undecodable
    BY <2>1, TellsAre
  <2>3. PICK a \in Answers(rq) : did' = Append(did, rq) /\ SSMP_write(Reply(rq, a.error, a.value))
    BY <2>1, <2>2 DEF SSMP_received
  <2> DEFINE p == Reply(rq, a.error, a.value)
  <2>4. p \in Told /\ Responds(p, rq)
    <3>1. settings \in Settings
      BY DEF Intact, LinkType
    <3>2. p \in Answered(rq)
      BY <3>1, AnswersLeave
    <3>3. p.tag = RESPONSE /\ p.id = rq.id /\ p.oid = rq.oid
      BY DEF Reply
    <3> HIDE DEF p
    <3> QED
      BY <2>1, <3>2, <3>3, TellsAre DEF Responds
  <2>5. said' = Append(said, p) /\ out' = bisync_encode(DeviceEncode(p))
    BY <2>3 DEF SSMP_write
  <2> HIDE DEF p
  <2> DEFINE f == bisync_encode(DeviceEncode(p))
  <2>6. Append(said, p) \in Seq(Told) /\ Line("host", decoder, Cat(up, f), got, Append(said, p), HD)
    BY <1>2, <2>4, SaidMore
  <2> HIDE DEF f
  <2>7. Line("host", decoder', Up', got', said', HD)
    BY <1>2, <2>5, <2>6 DEF Up, f
  <2>8. Response(Append(did, rq), Append(said, p))
    BY <1>3, <2>1, <2>4, ResponseMore
  <2>9. Responded'
    BY <2>3, <2>5, <2>8 DEF Responded
  <2>10. Histories'
    BY <1>1, <1>2, <1>3, <2>1, <2>3, <2>5, <2>6 DEF Histories
  <2>11. Lines'
    BY <1>4, <2>1, <2>3, <2>7 DEF Lines
  <2> QED
    BY <1>4, <2>9, <2>10, <2>11 DEF Intact
<1> QED
  BY <1>2, <1>6, <1>7, <1>8

LEMMA TrapIntact ==
  ASSUME Intact, NEW ev \in Events, SSMP_trap(ev), LinkType'
  PROVE  Intact'
<1>1. /\ out = <<>>
      /\ UNCHANGED <<sent, decoder, got, down, up, ring, rx, codec, flushing, at, settings, did, faults>>
  BY DEF SSMP_trap, hostVars, ringVars
<1>2. PICK t \in Texts : SSMP_write(Trap(ev, t))
  BY DEF SSMP_trap
<1> DEFINE p == Trap(ev, t)
           f == bisync_encode(DeviceEncode(p))
<1>3. said' = Append(said, p) /\ out' = f /\ p \in Told
  BY <1>2, TellsAre DEF SSMP_write
<1> HIDE DEF p
<1>4. Append(said, p) \in Seq(Told) /\ Line("host", decoder, Cat(up, f), got, Append(said, p), HD)
  BY <1>1, <1>3, SaidMore
<1> HIDE DEF f
<1>5. Line("host", decoder', Up', got', said', HD)
  BY <1>1, <1>3, <1>4 DEF Up
<1>6. Line("device", codec', Down', did', sent', DD)
  BY <1>1 DEF Intact, Lines, Down
<1>7. did \in Seq(Asked) /\ said \in Seq(Told) /\ Response(did, said)
  BY DEF Intact, Histories, Responded
<1>8. Response(did, Append(said, p))
  BY <1>3, <1>7, ResponseMore
<1>9. Responded'
  BY <1>1, <1>3, <1>8 DEF Responded
<1>10. Histories'
  BY <1>1, <1>3, <1>4 DEF Intact, Histories
<1>11. Announced'
  BY <1>1 DEF Intact, Announced
<1> QED
  BY <1>5, <1>6, <1>9, <1>10, <1>11 DEF Intact, Lines

LEMMA FlowIntact ==
  ASSUME Intact, usb1_write \/ Flush \/ UNCHANGED vars, faults' = 0, faults \in Nat, LinkType'
  PROVE  Intact'
<1>1. /\ UNCHANGED <<sent, decoder, got, down, ring, rx, codec, flushing, at, settings, did, said>>
      /\ \/ UNCHANGED <<up, out>>
         \/ up' = up \o First(out, PacketSize) /\ out' = From(out, PacketSize)
  BY DEF usb1_write, Flush, vars, MayFail, hostVars, ringVars, loopVars
<1>2. Up' = Up
  <2>1. CASE UNCHANGED <<up, out>>
    BY <2>1 DEF Up
  <2>2. CASE ~UNCHANGED <<up, out>>
    <3> DEFINE a == First(out, PacketSize)
               b == From(out, PacketSize)
    <3>1. out \in Seq(Bytes) /\ up \in Seq(Bytes) /\ PacketSize \in Nat /\ PacketSize \in Int
      BY ConstantsAre DEF Intact, LinkType
    <3>2. a \in Seq(Bytes)
      BY <3>1, FirstIs
    <3>3. b \in Seq(Bytes)
      BY <3>1, FromIs
    <3>4. Cat(a, b) = out
      BY <3>1, Halves
    <3>5. up' = Cat(up, a) /\ out' = b
      BY <1>1, <2>2 DEF Cat
    <3> HIDE DEF a, b
    <3>6. Cat(Cat(up, a), b) = Cat(up, Cat(a, b))
      BY <3>1, <3>2, <3>3, CatAssociative
    <3> QED
      BY <3>4, <3>5, <3>6 DEF Up
  <2> QED
    BY <2>1, <2>2
<1>3. Lines'
  BY <1>1, <1>2 DEF Intact, Lines, Down
<1>4. Announced' /\ Histories' /\ Responded'
  BY <1>1 DEF Intact, Announced, Histories, Responded
<1> QED
  BY <1>3, <1>4 DEF Intact

LEMMA FaultsCount ==
  ASSUME faults \in Nat, [Next]_vars
  PROVE  faults' \in Nat /\ (faults' = 0 => faults = 0 /\ ~Nested)
<1>1. MayFail => faults' = faults + 1
  BY DEF MayFail
<1>2. ASSUME NEW r \in Requests, Write(r) PROVE faults' = faults
  BY <1>2 DEF Write
<1>3. Flush => faults' = faults \/ faults' = faults + 1
  BY <1>1 DEF Flush
<1>4. Read => faults' = faults
  BY DEF Read
<1>5. tud_cdc_rx_cb => faults' = faults \/ faults' = faults + 1
  BY <1>1 DEF tud_cdc_rx_cb
<1>6. Nested => faults' = faults + 1
  BY <1>1 DEF Nested
<1>7. SSMP_rx => faults' = faults
  BY DEF SSMP_rx
<1>8. ASSUME NEW e \in Events, SSMP_trap(e) PROVE faults' = faults
  BY <1>8 DEF SSMP_trap
<1>9. usb1_write => faults' = faults \/ faults' = faults + 1
  BY <1>1 DEF usb1_write
<1>10. UNCHANGED vars => faults' = faults
  BY DEF vars
<1>11. faults' = faults \/ faults' = faults + 1
  BY <1>2, <1>3, <1>4, <1>5, <1>6, <1>7, <1>8, <1>9, <1>10 DEF Next
<1> QED
  BY <1>6, <1>11

LEMMA LinkInvNext ==
  ASSUME LinkInv, [Next]_vars
  PROVE  LinkInv'
<1>1. faults \in Nat /\ faults' \in Nat /\ (faults' = 0 => faults = 0 /\ ~Nested)
  BY FaultsCount DEF LinkInv
<1>2. ASSUME faults' = 0 PROVE Intact'
  <2>1. faults = 0 /\ Intact /\ ~Nested
    BY <1>1, <1>2 DEF LinkInv
  <2>2. LinkType'
    <3>1. LinkType /\ Encodable
      BY <2>1, IntactEncodes DEF Intact
    <3> QED
      BY <3>1, LinkTypeNext
  <2>3. ASSUME NEW r \in Requests, Write(r) PROVE Intact'
    BY <2>1, <2>2, <2>3, WriteIntact
  <2>4. Read => Intact'
    BY <2>1, <2>2, ReadIntact
  <2>5. tud_cdc_rx_cb => Intact'
    BY <1>1, <1>2, <2>1, <2>2, CallbackIntact
  <2>6. SSMP_rx => Intact'
    BY <2>1, <2>2, ReceiveIntact
  <2>7. ASSUME NEW e \in Events, SSMP_trap(e) PROVE Intact'
    BY <2>1, <2>2, <2>7, TrapIntact
  <2>8. usb1_write \/ Flush \/ UNCHANGED vars => Intact'
    BY <1>1, <1>2, <2>1, <2>2, FlowIntact
  <2> QED
    BY <2>1, <2>3, <2>4, <2>5, <2>6, <2>7, <2>8 DEF Next
<1> QED
  BY <1>1, <1>2 DEF LinkInv

\* As long as nothing is lost the device has the first of the requests, each
\* once and in order, and the host the first of what the device said
\* (bisync.c, buffer.c, usb.c).
Delivered ==
  faults = 0 =>
    /\ Len(did) <= Len(sent) /\ \A i \in 1 .. Len(did) : did[i] = sent[i]
    /\ Len(got) <= Len(said) /\ \A i \in 1 .. Len(got) : got[i] = said[i]
THEOREM DeliveredHolds == Spec => []Delivered
<1>1. LinkInv => Delivered
  <2> SUFFICES ASSUME LinkInv, faults = 0
               PROVE  /\ Len(did) <= Len(sent) /\ \A i \in 1 .. Len(did) : did[i] = sent[i]
                      /\ Len(got) <= Len(said) /\ \A i \in 1 .. Len(got) : got[i] = said[i]
    BY DEF Delivered
  <2>1. Intact
    BY DEF LinkInv
  <2>2. ASSUME NEW side, NEW c, NEW s, NEW A, NEW done \in Seq(A), NEW all, NEW dec,
               Line(side, c, s, done, all, dec)
        PROVE  Len(done) <= Len(all) /\ \A i \in 1 .. Len(done) : all[i] = done[i]
    <3> DEFINE p == Heard(side, c, s).packets
    <3>1. p \in Seq(Seq(Bytes)) /\ Continues(done, p, all, dec)
      BY <2>2, HeardType DEF Line
    <3> HIDE DEF p
    <3>2. Len(p) \in Nat /\ Len(done) \in Nat
      BY <3>1, LenProperties
    <3> QED
      BY <3>1, <3>2 DEF Continues
  <2>3. did \in Seq(Asked) /\ Line("device", codec, Down, did, sent, DD)
    BY <2>1 DEF Intact, Histories, Lines
  <2>4. got \in Seq(Told) /\ Line("host", decoder, Up, got, said, HD)
    BY <2>1 DEF Intact, Histories, Lines
  <2>5. Len(did) <= Len(sent) /\ \A i \in 1 .. Len(did) : sent[i] = did[i]
    BY <2>2, <2>3
  <2>6. Len(got) <= Len(said) /\ \A i \in 1 .. Len(got) : said[i] = got[i]
    BY <2>2, <2>4
  <2> QED
    BY <2>5, <2>6
<1> QED
  BY <1>1, LinkInvInit, LinkInvNext, PTL DEF Spec

\* When nothing is on its way and nothing was lost, every request is answered
\* (Served of Link: buffer.c, usb.c and SSMP.c announce and take every byte).
THEOREM ServedHolds == Spec => []Served
<1>1. LinkInv => Served
  <2> SUFFICES ASSUME LinkInv, faults = 0, down = <<>>, up = <<>>, rx = 0, ~flushing, out = <<>>,
                      NEW r \in ToSet(sent)
               PROVE  \E p \in ToSet(got) : p.tag = RESPONSE /\ p.id = r.id /\ p.oid = r.oid
    BY DEF Served
  <2>1. Intact
    BY DEF LinkInv
  <2>2. /\ codec \in Codecs /\ decoder \in Codecs /\ did \in Seq(Asked) /\ sent \in Seq(Asked)
        /\ got \in Seq(Told) /\ said \in Seq(Told) /\ Response(did, said)
        /\ ring = <<>> /\ at = 0
    BY <2>1 DEF Intact, LinkType, Histories, Announced, Responded
  <2>3. Down = <<>> /\ Up = <<>>
    <3>1. Cat(<<>>, <<>>) = <<>>
      BY ConcatEmptySeq, EmptySeq DEF Cat
    <3> QED
      BY <2>2, <3>1, FromEmpty DEF Down, Up
  <2>4. sent = did
    <3>1. Heard("device", codec, <<>>).packets = <<>>
      BY <2>2, HeardEmpty DEF Start
    <3>2. Continues(did, <<>>, sent, DD)
      BY <2>1, <2>3, <3>1 DEF Intact, Lines, Line
    <3> QED
      BY <2>2, <3>2, ContinuesEmpty
  <2>5. said = got
    <3>1. Heard("host", decoder, <<>>).packets = <<>>
      BY <2>2, HeardEmpty DEF Start
    <3>2. Continues(got, <<>>, said, HD)
      BY <2>1, <2>3, <3>1 DEF Intact, Lines, Line
    <3> QED
      BY <2>2, <3>2, ContinuesEmpty
  <2>6. PICK i \in 1 .. Len(did) : r = did[i]
    BY <2>2, <2>4, LenProperties DEF ToSet
  <2>7. PICK j \in 1 .. Len(got) : Responds(got[j], r)
    BY <2>2, <2>5, <2>6 DEF Response
  <2>8. got[j] \in ToSet(got)
    BY <2>2, <2>7, LenProperties DEF ToSet
  <2> QED
    BY <2>7, <2>8 DEF Responds
<1> QED
  BY <1>1, LinkInvInit, LinkInvNext, PTL DEF Spec

-----------------------------------------------------------------------------
(***************************************************************************)
(* The objects that hold a setting, by their numbers: they differ from one *)
(* another and from all the others that can be set.                        *)
(***************************************************************************)
\* An object of the board.
LEMMA Numbered ==
  ASSUME NEW s \in Seq(Nat)
  PROVE  /\ Base \o s \in Seq(Nat) /\ Len(Base \o s) = 8 + Len(s)
         /\ \A i \in 1 .. Len(s) : (Base \o s)[8 + i] = s[i]
<1> DEFINE c == Cat(Base, s)
<1>1. Base \in Seq(Nat) /\ Len(Base) = 8
  BY SMT DEF Base
<1>2. /\ c \in Seq(Nat) /\ Len(c) = Len(Base) + Len(s)
      /\ \A i \in 1 .. Len(Base) + Len(s) : c[i] = IF i <= Len(Base) THEN Base[i] ELSE s[i - Len(Base)]
  BY <1>1, CatAt
<1> HIDE DEF c
<1>3. Len(s) \in Nat
  BY LenProperties
<1>4. ASSUME NEW i \in 1 .. Len(s) PROVE c[8 + i] = s[i]
  <2>1. 8 + i \in 1 .. Len(Base) + Len(s) /\ ~(8 + i <= Len(Base)) /\ (8 + i) - Len(Base) = i
    BY <1>1, <1>3
  <2> QED
    BY <1>2, <2>1
<1>5. Base \o s = c
  BY DEF c, Cat
<1> QED
  BY <1>1, <1>2, <1>4, <1>5

LEMMA Pair == ASSUME NEW x \in Nat, NEW y \in Nat
              PROVE  /\ <<x, y>> \in Seq(Nat) /\ Len(<<x, y>>) = 2 /\ <<x, y>>[1] = x
  BY SMT
LEMMA Triple == ASSUME NEW x \in Nat, NEW y \in Nat, NEW z \in Nat
                PROVE  /\ <<x, y, z>> \in Seq(Nat) /\ Len(<<x, y, z>>) = 3
                       /\ <<x, y, z>>[1] = x /\ <<x, y, z>>[2] = y /\ <<x, y, z>>[3] = z
  BY SMT

\* Three numbers after those of the board.
Leaf(oid, x, y, z) == Len(oid) = 11 /\ oid[9] = x /\ oid[10] = y /\ oid[11] = z
LEMMA LeafIs ==
  ASSUME NEW x \in Nat, NEW y \in Nat, NEW z \in Nat
  PROVE  Leaf(Base \o <<x, y, z>>, x, y, z)
<1> DEFINE s == <<x, y, z>>
           c == Base \o s
<1>1. s \in Seq(Nat) /\ Len(s) = 3 /\ s[1] = x /\ s[2] = y /\ s[3] = z
  BY Triple
<1> HIDE DEF s
<1>2. Len(c) = 8 + Len(s) /\ \A i \in 1 .. Len(s) : c[8 + i] = s[i]
  BY <1>1, Numbered
<1> HIDE DEF c
<1>3. 1 \in 1 .. Len(s) /\ 2 \in 1 .. Len(s) /\ 3 \in 1 .. Len(s) /\ Len(c) = 11
  BY <1>1, <1>2
<1>4. c[8 + 1] = x /\ c[8 + 2] = y /\ c[8 + 3] = z
  BY <1>1, <1>2, <1>3, Zenon
<1>5. c[9] = x /\ c[10] = y /\ c[11] = z
  BY <1>4
<1> QED
  BY <1>3, <1>5 DEF Leaf, c, s

LEMMA DoorIs ==
  ASSUME NEW k \in Nat, NEW oid \in DOOR(k)
  PROVE  /\ Leaf(oid, 3, oid[10], k) /\ oid[10] \in Doors /\ DoorOf(oid) = oid[10]
         /\ oid = Base \o <<3, oid[10], k>>
<1>1. PICK d \in Doors : oid = Base \o <<3, d, k>>
  BY DEF DOOR
<1>2. d \in Nat
  BY DEF Doors
<1>3. Leaf(oid, 3, d, k)
  BY <1>1, <1>2, LeafIs
<1>4. oid[10] = d
  BY <1>3 DEF Leaf
<1>5. Len(Base) + 2 = 10
  BY SMT DEF Base
<1> QED
  BY <1>1, <1>3, <1>4, <1>5 DEF DoorOf

LEMMA StoredApart ==
  /\ INTERLOCK \notin MODES \cup DELAYS /\ MODES \cap DELAYS = {}
  /\ \A oid \in Stored : /\ oid \in OIDs /\ oid \in Settable /\ oid \in PublicSets /\ oid # DATETIME
                         /\ oid \notin FLAGS \cup {SYSERROR}
  /\ \A oid \in Stored : /\ oid \in Gettable /\ oid \notin {BOARD_ID, RELEASED, ID, VERSION, SYSINFO}
                         /\ oid \notin {ALARM(1), ALARM(2)}
<1>1. Leaf(INTERLOCK, 3, 0, 1)
  BY LeafIs DEF INTERLOCK
<1>2. \A oid \in MODES : Leaf(oid, 3, oid[10], 1) /\ oid[10] \in Doors
  BY DoorIs DEF MODES
<1>3. \A oid \in DELAYS : Leaf(oid, 3, oid[10], 2) /\ oid[10] \in Doors
  BY DoorIs DEF DELAYS
<1>4. 0 \notin Doors /\ Doors \subseteq Nat
  BY DEF Doors
<1>5. \A oid \in Stored : Len(oid) = 11 /\ oid[9] = 3
  BY <1>1, <1>2, <1>3 DEF Stored, Leaf
<1>6. ASSUME NEW x \in Nat, NEW y \in Nat PROVE Len(Base \o <<x, y>>) = 10
  <2> DEFINE s == <<x, y>>
  <2>1. s \in Seq(Nat) /\ Len(s) = 2
    BY Pair
  <2> HIDE DEF s
  <2>2. Len(Base \o s) = 8 + Len(s)
    BY <2>1, Numbered
  <2>3. Len(Base \o s) = 10
    BY <2>1, <2>2
  <2> QED
    BY <2>3 DEF s
<1>7. Len(SYSERROR) = 10 /\ Len(DATETIME) = 10 /\ \A k \in Nat : Len(CONTROLLER(k)) = 10 /\ Len(ALARM(k)) = 10
  BY <1>6 DEF SYSERROR, DATETIME, CONTROLLER, ALARM
<1>8. Len(BOARD_ID) = 10
  BY <1>6 DEF BOARD_ID
<1>9. ASSUME NEW f \in FLAGS PROVE Len(f) = 11 /\ f[9] = 2
  <2>1. PICK e \in 1 .. 11 : f = SYSERROR \o <<e>>
    BY <1>9 DEF FLAGS, FLAG
  <2> DEFINE s == <<e>>
             b == <<2, 9>>
             c == Cat(SYSERROR, s)
  <2>2. e \in Nat /\ s \in Seq(Nat) /\ Len(s) = 1
    BY <2>1
  <2>3. b \in Seq(Nat) /\ Len(b) = 2 /\ b[1] = 2
    BY Pair
  <2> HIDE DEF s, b
  <2>4. SYSERROR = Base \o b
    BY DEF SYSERROR, CONTROLLER, b
  <2>5. SYSERROR \in Seq(Nat) /\ SYSERROR[8 + 1] = 2
    <3>1. 1 \in 1 .. Len(b)
      BY <2>3
    <3> QED
      BY <2>3, <2>4, <3>1, Numbered
  <2>6. /\ Len(c) = Len(SYSERROR) + Len(s)
        /\ \A i \in 1 .. Len(SYSERROR) + Len(s) :
             c[i] = IF i <= Len(SYSERROR) THEN SYSERROR[i] ELSE s[i - Len(SYSERROR)]
    BY <2>2, <2>5, CatAt
  <2> HIDE DEF c
  <2>7. Len(c) = 11 /\ c[9] = SYSERROR[9]
    BY <1>7, <2>2, <2>6
  <2>8. f = c
    BY <2>1 DEF c, Cat, s
  <2> QED
    BY <2>5, <2>7, <2>8
<1>10. INTERLOCK \notin MODES \cup DELAYS /\ MODES \cap DELAYS = {}
  BY <1>1, <1>2, <1>3, <1>4 DEF Leaf
<1>11. /\ Stored \subseteq Settable /\ Stored \subseteq Gettable /\ Stored \subseteq PublicSets
       /\ Stored \subseteq OIDs
  BY DEF Stored, Settable, Gettable, PublicSets, OIDs
<1>12. ASSUME NEW oid \in Stored
       PROVE  /\ oid # DATETIME /\ oid # SYSERROR /\ oid # BOARD_ID /\ oid # RELEASED /\ oid # ID
              /\ oid # VERSION /\ oid # SYSINFO /\ oid # ALARM(1) /\ oid # ALARM(2) /\ oid \notin FLAGS
  <2>1. Len(RELEASED) = 10 /\ Len(ID) = 10 /\ Len(VERSION) = 10 /\ Len(SYSINFO) = 10
    BY <1>7 DEF RELEASED, ID, VERSION, SYSINFO
  <2>2. Len(ALARM(1)) = 10 /\ Len(ALARM(2)) = 10
    BY <1>7
  <2>3. Len(oid) = 11 /\ oid[9] = 3
    BY <1>5
  <2>4. oid \notin FLAGS
    BY <1>9, <2>3
  <2>5. \A x : Len(x) = 10 => oid # x
    BY <2>3
  <2> QED
    BY <1>7, <1>8, <2>1, <2>2, <2>4, <2>5
<1> QED
  BY <1>10, <1>11, <1>12

-----------------------------------------------------------------------------
(***************************************************************************)
(* What the requests make of a setting: one more either sets it or leaves  *)
(* it as it was.                                                           *)
(***************************************************************************)
LEMMA Greatest ==
  ASSUME NEW n \in Nat, NEW T \in SUBSET (1 .. n), T # {}
  PROVE  Max(T) \in T /\ \A k \in T : Max(T) >= k
<1> DEFINE Has(U) == \E j \in U : \A k \in U : j >= k
           S == {m \in Nat : \A U \in SUBSET (1 .. m) : U # {} => Has(U)}
<1>1. 0 \in S
  <2>1. 1 .. 0 = {}
    OBVIOUS
  <2>2. \A U \in SUBSET (1 .. 0) : U = {}
    BY <2>1
  <2> HIDE DEF Has
  <2> QED
    BY <2>2
<1>2. ASSUME NEW m \in S PROVE m + 1 \in S
  <2> SUFFICES ASSUME NEW U \in SUBSET (1 .. m + 1), U # {} PROVE Has(U)
    BY <1>2
  <2>1. CASE m + 1 \in U
    <3>1. \A k \in U : m + 1 >= k
      OBVIOUS
    <3> QED
      BY <2>1, <3>1
  <2>2. CASE m + 1 \notin U
    <3>1. U \in SUBSET (1 .. m)
      BY <1>2, <2>2
    <3> QED
      BY <1>2, <3>1
  <2> QED
    BY <2>1, <2>2
<1> HIDE DEF S
<1>3. S = Nat
  <2>1. S \in SUBSET Nat
    BY DEF S
  <2> QED
    BY <1>1, <1>2, <2>1, Induction
<1>4. Has(T)
  BY <1>3 DEF S
<1> QED
  BY <1>4 DEF Max

Setters(rqs, oid, i) == {j \in 1 .. i : Sets(rqs[j], oid)}

LEMMA ForceMore ==
  ASSUME NEW A, NEW ds \in Seq(A), NEW rq \in A, NEW oid
  PROVE  /\ \A i \in 0 .. Len(ds) : InForce(Append(ds, rq), oid, i) = InForce(ds, oid, i)
         /\ InForce(Append(ds, rq), oid, Len(ds) + 1)
              = IF Sets(rq, oid) THEN Wanted(rq) ELSE InForce(ds, oid, Len(ds))
<1> DEFINE et == Append(ds, rq)
           n == Len(ds)
<1>1. n \in Nat /\ Extends(A, et, ds, rq)
  BY AppendExtends, LenProperties
<1>2. et[n + 1] = rq /\ \A j \in 1 .. n : et[j] = ds[j]
  BY <1>1 DEF Extends
<1> HIDE DEF et, n
<1>3. \A rqs, i : InForce(rqs, oid, i) = IF Setters(rqs, oid, i) = {} THEN Setting(Initial, oid)
                                       ELSE Wanted(rqs[Max(Setters(rqs, oid, i))])
  BY Zenon DEF InForce, Setters
<1>4. ASSUME NEW i \in 0 .. n, NEW T, T = Setters(ds, oid, i), T # {}
      PROVE  et[Max(T)] = ds[Max(T)]
  <2>1. T \in SUBSET (1 .. i) /\ i \in Nat
    BY <1>1, <1>4 DEF Setters
  <2>2. Max(T) \in 1 .. i
    BY <1>4, <2>1, Greatest
  <2>3. Max(T) \in 1 .. n
    BY <1>1, <2>1, <2>2
  <2> QED
    BY <1>2, <2>3
<1>5. \A i \in 0 .. n : Setters(et, oid, i) = Setters(ds, oid, i)
  BY <1>1, <1>2 DEF Setters
<1>6. ASSUME NEW i \in 0 .. n PROVE InForce(et, oid, i) = InForce(ds, oid, i)
  BY <1>3, <1>4, <1>5
<1>7. CASE Sets(rq, oid)
  <2> DEFINE T == Setters(et, oid, n + 1)
  <2>1. n + 1 \in T
    <3>1. n + 1 \in 1 .. n + 1
      BY <1>1
    <3>2. Sets(et[n + 1], oid)
      BY <1>2, <1>7
    <3> QED
      BY <3>1, <3>2, Zenon DEF Setters
  <2>2. T \in SUBSET (1 .. n + 1) /\ n + 1 \in Nat
    BY <1>1 DEF Setters
  <2> HIDE DEF T
  <2>3. Max(T) \in T /\ Max(T) >= n + 1
    BY <2>1, <2>2, Greatest
  <2> DEFINE x == Max(T)
  <2>4. x = n + 1
    <3>1. x \in 1 .. n + 1 /\ x >= n + 1
      BY <2>2, <2>3
    <3> HIDE DEF x
    <3> QED
      BY <1>1, <3>1
  <2> HIDE DEF x
  <2>5. T # {} /\ et[Max(T)] = rq
    BY <1>2, <2>1, <2>4 DEF x
  <2>6. InForce(et, oid, n + 1) = IF T = {} THEN Setting(Initial, oid) ELSE Wanted(et[Max(T)])
    BY <1>3 DEF T
  <2> QED
    BY <1>6, <1>7, <2>5, <2>6 DEF et, n
<1>8. CASE ~Sets(rq, oid)
  <2>1. Setters(et, oid, n + 1) = Setters(ds, oid, n)
    BY <1>1, <1>2, <1>8 DEF Setters
  <2>2. n \in 0 .. n
    BY <1>1
  <2>3. InForce(et, oid, n + 1) = InForce(ds, oid, n)
    BY <1>3, <1>4, <2>1, <2>2
  <2> QED
    BY <1>6, <1>8, <2>3 DEF et, n
<1> QED
  BY <1>7, <1>8

LEMMA ForceNone == ASSUME NEW oid PROVE InForce(<<>>, oid, 0) = Setting(Initial, oid)
  BY DEF InForce

-----------------------------------------------------------------------------
(***************************************************************************)
(* What an answer makes of a setting, and what it tells of it.             *)
(***************************************************************************)
\* An integer value is a number.
Numeric(u) == u.tag = INT => u = Number(u.value) /\ u.value \in Int

LEMMA SameDoor ==
  ASSUME NEW k \in Nat, NEW o \in DOOR(k), NEW oid \in DOOR(k), DoorOf(o) = DoorOf(oid)
  PROVE  o = oid
<1>1. DoorOf(o) = o[10] /\ o = Base \o <<3, o[10], k>>
  BY DoorIs
<1>2. DoorOf(oid) = oid[10] /\ oid = Base \o <<3, oid[10], k>>
  BY DoorIs
<1> QED
  BY <1>1, <1>2, Zenon

WithSetting(s, o, v) ==
  IF o \in MODES THEN [s EXCEPT !.mode[DoorOf(o)] = v]
  ELSE IF o \in DELAYS THEN [s EXCEPT !.delay[DoorOf(o)] = v] ELSE [s EXCEPT !.interlock = v]

LEMMA SettingSet ==
  ASSUME NEW s \in Settings, NEW o \in Stored, NEW oid \in Stored, NEW v
  PROVE  Setting(WithSetting(s, o, v), oid) = IF oid = o THEN v ELSE Setting(s, oid)
<1> DEFINE t == WithSetting(s, o, v)
<1>1. /\ s = [interlock |-> s.interlock, mode |-> s.mode, delay |-> s.delay]
      /\ s.mode \in [Doors -> 1 .. 3] /\ s.delay \in [Doors -> 1 .. 60]
  BY DEF Settings
<1>2. INTERLOCK \notin MODES /\ INTERLOCK \notin DELAYS /\ \A x \in DELAYS : x \notin MODES
  BY StoredApart
<1>3. \A x \in Stored : x = INTERLOCK \/ x \in MODES \/ x \in DELAYS
  BY DEF Stored
<1>4. CASE o \in MODES
  <2> DEFINE d == DoorOf(o)
  <2>1. d \in Doors
    BY <1>4, DoorOfDoor DEF MODES
  <2>2. t = [s EXCEPT !.mode[d] = v]
    BY <1>4, SMT DEF WithSetting
  <2>3. \A x \in MODES : x # o => DoorOf(x) # d
    BY <1>4, SameDoor DEF MODES
  <2> HIDE DEF t, d
  <2>4. t.mode = [s.mode EXCEPT ![d] = v] /\ t.delay = s.delay /\ t.interlock = s.interlock
    BY <1>1, <2>2, SMT
  <2>5. t.mode[d] = v /\ \A x : x # d => t.mode[x] = s.mode[x]
    <3>1. t.mode = [x \in Doors |-> IF x = d THEN v ELSE s.mode[x]]
      BY <1>1, <2>4
    <3>2. t.mode[d] = v
      BY <2>1, <3>1
    <3>3. \A x \in Doors : x # d => t.mode[x] = s.mode[x]
      BY <3>1
    <3>4. \A x : x \notin Doors => t.mode[x] = s.mode[x]
      BY <1>1, <2>1, <2>4
    <3> QED
      BY <3>2, <3>3, <3>4
  <2> QED
    BY <1>2, <1>3, <1>4, <2>3, <2>4, <2>5 DEF Setting, t, d
<1>5. CASE o \in DELAYS
  <2> DEFINE d == DoorOf(o)
  <2>1. d \in Doors
    BY <1>5, DoorOfDoor DEF DELAYS
  <2>2. t = [s EXCEPT !.delay[d] = v]
    BY <1>2, <1>5, SMT DEF WithSetting
  <2>3. \A x \in DELAYS : x # o => DoorOf(x) # d
    BY <1>5, SameDoor DEF DELAYS
  <2> HIDE DEF t, d
  <2>4. t.delay = [s.delay EXCEPT ![d] = v] /\ t.mode = s.mode /\ t.interlock = s.interlock
    BY <1>1, <2>2, SMT
  <2>5. t.delay[d] = v /\ \A x \in Doors : x # d => t.delay[x] = s.delay[x]
    BY <1>1, <2>1, <2>4
  <2>6. \A x \in DELAYS : DoorOf(x) \in Doors
    BY DoorOfDoor DEF DELAYS
  <2> QED
    BY <1>2, <1>3, <1>5, <2>3, <2>4, <2>5, <2>6 DEF Setting, t, d
<1>6. CASE o = INTERLOCK
  <2>1. t = [s EXCEPT !.interlock = v]
    BY <1>2, <1>6 DEF WithSetting
  <2> HIDE DEF t
  <2>2. t.interlock = v /\ t.mode = s.mode /\ t.delay = s.delay
    BY <1>1, <2>1
  <2> QED
    BY <1>2, <1>3, <1>6, <2>2 DEF Setting, t
<1> QED
  BY <1>3, <1>4, <1>5, <1>6

\* The value that a request asks for.
Asking(o, u) == IF o \in DELAYS THEN u.value % 256 ELSE u.value
Accepts(o, u) == u.tag = INT /\ Asking(o, u) \in Valid(o)

LEMMA SetStored ==
  ASSUME NEW s \in Settings, NEW o \in Stored, NEW u, Numeric(u)
  PROVE  /\ Accepts(o, u) =>
              MIB_set(o, u, s) = Done(WithSetting(s, o, Asking(o, u)), Values({Number(Asking(o, u))}))
         /\ ~Accepts(o, u) => \E e \in Codes \ {NONE} : MIB_set(o, u, s) = Errors(s, {e})
<1>1. /\ o \in OIDs /\ o \in Settable /\ o # DATETIME /\ o \notin FLAGS \cup {SYSERROR}
      /\ INTERLOCK \notin MODES /\ INTERLOCK \notin DELAYS /\ \A x \in DELAYS : x \notin MODES
  BY StoredApart
<1>2. o \notin UNLOCKED /\ o \notin ACCESS
  <2>1. Leaf(INTERLOCK, 3, 0, 1)
    BY LeafIs DEF INTERLOCK
  <2>2. \A x \in MODES : Leaf(x, 3, x[10], 1)
    BY DoorIs DEF MODES
  <2>3. \A x \in DELAYS : Leaf(x, 3, x[10], 2)
    BY DoorIs DEF DELAYS
  <2>4. \A x \in UNLOCKED : Leaf(x, 3, x[10], 4)
    BY DoorIs DEF UNLOCKED
  <2>5. \A x \in ACCESS : Leaf(x, 3, x[10], 9)
    BY DoorIs DEF ACCESS
  <2>6. o[11] \in {1, 2}
    BY <2>1, <2>2, <2>3 DEF Stored, Leaf
  <2> QED
    BY <2>4, <2>5, <2>6 DEF Leaf
<1>3. \A e \in {WRONG_TYPE, BAD_VALUE, COMMIT_FAILED} : e \in Codes \ {NONE}
  BY DEF Codes, WRONG_TYPE, BAD_VALUE, COMMIT_FAILED, NONE
<1>4. u.tag = INT => u = Number(u.value) /\ u.value \in Int
  BY DEF Numeric
<1>5. CASE o = INTERLOCK
  <2>1. MIB_set(o, u, s) = MIB_set_doors_interlock(u, s)
    BY <1>1, <1>2, <1>5 DEF MIB_set
  <2>2. Asking(o, u) = u.value /\ Valid(o) = {0, 1, 2, 3, 4, 8}
    BY <1>1, <1>5 DEF Asking, Valid
  <2>3. WithSetting(s, o, u.value) = [s EXCEPT !.interlock = u.value]
    BY <1>1, <1>5 DEF WithSetting
  <2>4. CASE Accepts(o, u)
    <3>1. u.tag = INT /\ u.value \in {0, 1, 2, 3, 4, 8} /\ u = Number(u.value)
      BY <1>4, <2>2, <2>4 DEF Accepts
    <3>2. MIB_set_doors_interlock(u, s) = Done([s EXCEPT !.interlock = u.value], Values({u}))
      BY <3>1 DEF MIB_set_doors_interlock
    <3> QED
      BY <2>1, <2>2, <2>3, <2>4, <3>1, <3>2
  <2>5. CASE ~Accepts(o, u)
    <3>1. ~(u.tag = INT /\ u.value \in {0, 1, 2, 3, 4, 8})
      BY <2>2, <2>5 DEF Accepts
    <3>2. \/ MIB_set_doors_interlock(u, s) = Errors(s, {WRONG_TYPE})
          \/ MIB_set_doors_interlock(u, s) = Errors(s, {BAD_VALUE})
      BY <3>1 DEF MIB_set_doors_interlock
    <3> QED
      BY <1>3, <2>1, <2>5, <3>2
  <2> QED
    BY <2>4, <2>5
<1>6. CASE o \in MODES
  <2>1. MIB_set(o, u, s) = MIB_set_door_mode(o, u, s)
    BY <1>1, <1>2, <1>6 DEF MIB_set
  <2>2. Asking(o, u) = u.value /\ Valid(o) = 1 .. 3
    BY <1>1, <1>6 DEF Asking, Valid
  <2>4. CASE Accepts(o, u)
    <3>1. u.tag = INT /\ u.value \in 1 .. 3 /\ u = Number(u.value)
      BY <1>4, <2>2, <2>4 DEF Accepts
    <3>2. MIB_set_door_mode(o, u, s) = Done(WithSetting(s, o, u.value), Values({u}))
      BY <1>6, <3>1, SMT DEF MIB_set_door_mode, WithSetting
    <3> QED
      BY <2>1, <2>2, <2>4, <3>1, <3>2
  <2>5. CASE ~Accepts(o, u)
    <3>1. ~(u.tag = INT /\ u.value \in 1 .. 3)
      BY <2>2, <2>5 DEF Accepts
    <3>2. \/ MIB_set_door_mode(o, u, s) = Errors(s, {WRONG_TYPE})
          \/ MIB_set_door_mode(o, u, s) = Errors(s, {BAD_VALUE})
      BY <3>1, SMT DEF MIB_set_door_mode
    <3> QED
      BY <1>3, <2>1, <2>5, <3>2
  <2> QED
    BY <2>4, <2>5
<1>7. CASE o \in DELAYS
  <2> DEFINE n == u.value % 256
  <2>1. MIB_set(o, u, s) = MIB_set_door_delay(o, u, s)
    BY <1>1, <1>2, <1>7 DEF MIB_set
  <2>2. Asking(o, u) = n /\ Valid(o) = 1 .. 60
    BY <1>1, <1>7 DEF Asking, Valid
  <2>4. MIB_set_door_delay(o, u, s) =
          IF u.tag # INT THEN Errors(s, {WRONG_TYPE})
          ELSE IF n \notin 1 .. 60 THEN Errors(s, {COMMIT_FAILED})
          ELSE Done(WithSetting(s, o, n), Values({Number(n)}))
    BY <1>1, <1>7, SMT DEF MIB_set_door_delay, WithSetting
  <2> HIDE DEF n
  <2>5. CASE Accepts(o, u)
    <3>1. u.tag = INT /\ n \in 1 .. 60
      BY <2>2, <2>5 DEF Accepts
    <3> QED
      BY <2>1, <2>2, <2>4, <2>5, <3>1
  <2>6. CASE ~Accepts(o, u)
    <3>1. ~(u.tag = INT /\ n \in 1 .. 60)
      BY <2>2, <2>6 DEF Accepts
    <3> QED
      BY <1>3, <2>1, <2>4, <2>6, <3>1
  <2> QED
    BY <2>5, <2>6
<1> QED
  BY <1>5, <1>6, <1>7 DEF Stored

\* What sets no setting leaves them all.
Untouched(answers, s) == \A a \in answers : a.settings = s
LEMMA SetOthers ==
  ASSUME NEW s, NEW u, NEW o, o \notin Stored
  PROVE  Untouched(MIB_set(o, u, s), s)
<1>1. \A es : Untouched(Errors(s, es), s)
  BY DEF Untouched, Errors
<1>2. \A os : Untouched(Done(s, os), s)
  BY DEF Untouched, Done
<1>3. \A X, Y : Untouched(X, s) /\ Untouched(Y, s) => Untouched(X \cup Y, s)
  BY DEF Untouched
<1>4. o # INTERLOCK /\ o \notin MODES /\ o \notin DELAYS
  BY DEF Stored
<1>5. Untouched(MIB_set_controller_datetime(u, s), s)
  BY <1>1, <1>2, <1>3 DEF MIB_set_controller_datetime
<1>6. Untouched(MIB_set_controller_syserror(o, u, s), s)
  BY <1>1, <1>2 DEF MIB_set_controller_syserror
<1>7. Untouched(MIB_set_door_unlock(u, s), s)
  BY <1>1, <1>2, <1>3 DEF MIB_set_door_unlock
<1>8. Untouched(MIB_set_door_access(u, s), s)
  <2> DEFINE n == IF u.value % 256 \in {1, 255} THEN u.value % 256 ELSE 0
  <2>1. MIB_set_door_access(u, s)
          = IF u.tag # INT THEN Errors(s, {WRONG_TYPE}) ELSE Done(s, Values({Number(n)}))
    BY DEF MIB_set_door_access
  <2> HIDE DEF n
  <2> QED
    BY <1>1, <1>2, <2>1
<1>9. CASE o \in Settable
  <2>1. o \in OIDs /\ ~(o \in OIDs \ Settable)
    BY <1>9 DEF OIDs
  <2>2. o = DATETIME \/ o \in FLAGS \cup {SYSERROR} \/ o \in UNLOCKED \/ o \in ACCESS
    BY <1>4, <1>9 DEF Settable
  <2> QED
    BY <1>4, <1>5, <1>6, <1>7, <1>8, <2>1, <2>2 DEF MIB_set
<1>10. CASE o \notin Settable
  <2>1. /\ o # DATETIME /\ o \notin FLAGS \cup {SYSERROR} /\ o \notin UNLOCKED /\ o \notin ACCESS
    BY <1>10 DEF Settable
  <2> QED
    BY <1>1, <1>4, <1>10, <2>1 DEF MIB_set
<1> QED
  BY <1>9, <1>10

LEMMA GetStored ==
  ASSUME NEW s, NEW oid \in Stored
  PROVE  MIB_get(oid, s) = Values({Number(Setting(s, oid))})
<1>1. /\ oid \in Gettable /\ oid # DATETIME /\ oid \notin FLAGS \cup {SYSERROR}
      /\ oid \notin {BOARD_ID, RELEASED} /\ oid # ID /\ oid # VERSION /\ oid # SYSINFO
      /\ oid \notin {ALARM(1), ALARM(2)}
  BY StoredApart
<1>2. MIB_get(oid, s) = MIB_get_door(oid, s)
  BY <1>1, SMT DEF MIB_get
<1>3. INTERLOCK \notin MODES /\ INTERLOCK \notin DELAYS /\ \A x \in DELAYS : x \notin MODES
  BY StoredApart
<1>4. oid = INTERLOCK \/ oid \in MODES \/ oid \in DELAYS
  BY DEF Stored
<1> QED
  BY <1>1, <1>2, <1>3, <1>4 DEF MIB_get_door, Setting

LEMMA DoneIs ==
  ASSUME NEW s, NEW v, NEW a \in Done(s, Values({v}))
  PROVE  a.settings = s /\ a.error = NONE /\ a.value = v
  BY DEF Done, Values, Outcome

LEMMA ErrorIs ==
  ASSUME NEW s, NEW e, NEW a \in Errors(s, {e})
  PROVE  a.settings = s /\ a.error = e
  BY DEF Errors

\* An answer comes of the MIB unless it refuses.
LEMMA AnswersAre ==
  ASSUME NEW rq, NEW a \in Answers(rq)
  PROVE  \/ /\ a.settings = settings /\ a.error # NONE
            /\ ~(rq.tag = SET /\ rq.oid \in Stored)
         \/ rq.tag = SET /\ a \in MIB_set(rq.oid, rq.value, settings)
         \/ rq.tag # SET /\ \E o \in MIB_get(rq.oid, settings) :
                              /\ a.settings = settings
                              /\ a.error = o.error /\ (a.error = NONE => a.value = o.value)
<1> DEFINE Err(e) == {[settings |-> settings, error |-> e, value |-> Nothing]}
           Got(o) == IF o.error = NONE THEN Done(settings, {o}) ELSE Err(o.error)
<1>1. \A e, x : x \in Err(e) => x.settings = settings /\ x.error = e
  OBVIOUS
<1>2. \A o, x : x \in Got(o) =>
        x.settings = settings /\ x.error = o.error /\ (x.error = NONE => x.value = o.value)
  BY <1>1 DEF Done
<1>3. NO_SUCH_OBJECT # NONE /\ NO_ACCESS # NONE /\ SET # GET
  BY DEF NO_SUCH_OBJECT, NO_ACCESS, NONE, SET, GET
<1>4. rq.oid \in Stored => MIB_has(rq.oid) /\ rq.oid \in PublicSets
  BY StoredApart DEF MIB_has
<1>5. rq.tag = SET /\ rq.oid \in Stored /\ auth_validate(rq.community)
        => auth_authorised(rq.community, rq.tag, rq.oid)
  BY <1>3, <1>4 DEF auth_validate, auth_authorised
<1>6. \/ a \in Err(NO_SUCH_OBJECT) /\ ~MIB_has(rq.oid)
      \/ /\ a \in Err(NO_ACCESS)
         /\ ~auth_authorised(rq.community, rq.tag, rq.oid) /\ auth_validate(rq.community)
      \/ rq.tag = SET /\ a \in MIB_set(rq.oid, rq.value, settings)
      \/ rq.tag # SET /\ a \in UNION {Got(o) : o \in MIB_get(rq.oid, settings)}
  BY DEF Answers
<1>7. a \in UNION {Got(o) : o \in MIB_get(rq.oid, settings)}
        => \E o \in MIB_get(rq.oid, settings) : a \in Got(o)
  OBVIOUS
<1> HIDE DEF Err, Got
<1>8. CASE a \in Err(NO_SUCH_OBJECT) /\ ~MIB_has(rq.oid)
  BY <1>1, <1>3, <1>4, <1>8
<1>9. CASE /\ a \in Err(NO_ACCESS)
           /\ ~auth_authorised(rq.community, rq.tag, rq.oid) /\ auth_validate(rq.community)
  BY <1>1, <1>3, <1>5, <1>9
<1>10. CASE rq.tag # SET /\ a \in UNION {Got(o) : o \in MIB_get(rq.oid, settings)}
  BY <1>2, <1>7, <1>10
<1> QED
  BY <1>6, <1>8, <1>9, <1>10

LEMMA AnswersObey ==
  ASSUME NEW rq, Numeric(rq.value), settings \in Settings, NEW a \in Answers(rq), NEW oid \in Stored
  PROVE  /\ Setting(a.settings, oid) = IF Sets(rq, oid) THEN Wanted(rq) ELSE Setting(settings, oid)
         /\ rq.oid = oid /\ a.error = NONE => a.value = Number(Setting(a.settings, oid))
<1> DEFINE w == Asking(rq.oid, rq.value)
<1>1. /\ Sets(rq, oid) <=> rq.tag = SET /\ rq.oid = oid /\ Accepts(rq.oid, rq.value)
      /\ rq.oid = oid => Wanted(rq) = w
  BY DEF Sets, Wanted, Accepts, Asking
<1> HIDE DEF w
<1>2. CASE a.settings = settings /\ a.error # NONE /\ ~(rq.tag = SET /\ rq.oid \in Stored)
  BY <1>1, <1>2
<1>3. CASE rq.tag = SET /\ a \in MIB_set(rq.oid, rq.value, settings) /\ rq.oid \in Stored
  <2>1. CASE Accepts(rq.oid, rq.value)
    <3>1. a \in Done(WithSetting(settings, rq.oid, w), Values({Number(w)}))
      BY <1>3, <2>1, SetStored DEF w
    <3>2. a.settings = WithSetting(settings, rq.oid, w) /\ a.value = Number(w)
      BY <3>1, DoneIs
    <3>3. Setting(a.settings, oid) = IF oid = rq.oid THEN w ELSE Setting(settings, oid)
      BY <1>3, <3>2, SettingSet
    <3> QED
      BY <1>1, <1>3, <2>1, <3>2, <3>3
  <2>2. CASE ~Accepts(rq.oid, rq.value)
    <3>1. PICK e \in Codes \ {NONE} : MIB_set(rq.oid, rq.value, settings) = Errors(settings, {e})
      BY <1>3, <2>2, SetStored
    <3>2. a.settings = settings /\ a.error = e
      <4>1. a \in Errors(settings, {e})
        BY <1>3, <3>1, Zenon
      <4> QED
        BY <4>1, ErrorIs
    <3>3. ~Sets(rq, oid) /\ a.error # NONE
      <4>1. e # NONE
        OBVIOUS
      <4> QED
        BY <1>1, <2>2, <3>2, <4>1
    <3> QED
      BY <3>2, <3>3
  <2> QED
    BY <2>1, <2>2
<1>4. CASE rq.tag = SET /\ a \in MIB_set(rq.oid, rq.value, settings) /\ rq.oid \notin Stored
  <2>1. a.settings = settings
    BY <1>4, SetOthers DEF Untouched
  <2> QED
    BY <1>1, <1>4, <2>1
<1>5. CASE rq.tag # SET /\ \E o \in MIB_get(rq.oid, settings) :
                             /\ a.settings = settings
                             /\ a.error = o.error /\ (a.error = NONE => a.value = o.value)
  <2>1. PICK o \in MIB_get(rq.oid, settings) :
          a.settings = settings /\ a.error = o.error /\ (a.error = NONE => a.value = o.value)
    BY <1>5
  <2>2. rq.oid = oid => o.value = Number(Setting(settings, oid))
    <3>1. rq.oid = oid => MIB_get(rq.oid, settings) = Values({Number(Setting(settings, oid))})
      BY GetStored
    <3>2. \A v : o \in Values({v}) => o.value = v
      BY DEF Values, Outcome
    <3> QED
      BY <3>1, <3>2
  <2> QED
    BY <1>1, <1>5, <2>1, <2>2
<1> QED
  BY <1>2, <1>3, <1>4, <1>5, AnswersAre

-----------------------------------------------------------------------------
(***************************************************************************)
(* Settings and answers, as the device takes requests.                     *)
(***************************************************************************)
\* The settings are those of ds, as far as this rq makes s of them.
Stores(s, ds) == \A oid \in Stored : Setting(s, oid) = InForce(ds, oid, Len(ds))

\* Each answer without an error tells the value in force when it was given.
Tells1(p, ds, i) ==
  p.id = ds[i].id /\ (p.error = NONE /\ p.oid \in Stored => p.value = Number(InForce(ds, p.oid, i)))
Truthful(ds, ss) ==
  \A j \in 1 .. Len(ss) : ss[j].tag = RESPONSE => \E i \in 1 .. Len(ds) : Tells1(ss[j], ds, i)

LEMMA StoresMore ==
  ASSUME NEW A, NEW ds \in Seq(A), NEW rq \in A, Numeric(rq.value),
         settings \in Settings, Stores(settings, ds), NEW a \in Answers(rq)
  PROVE  /\ Stores(a.settings, Append(ds, rq))
         /\ Tells1(Reply(rq, a.error, a.value), Append(ds, rq), Len(ds) + 1)
<1> DEFINE et == Append(ds, rq)
           n == Len(ds) + 1
           p == Reply(rq, a.error, a.value)
<1>1. Len(et) = n /\ et[n] = rq
  <2>1. Extends(A, et, ds, rq)
    BY AppendExtends
  <2> QED
    BY <2>1 DEF Extends
<1>2. ASSUME NEW oid \in Stored
      PROVE  /\ Setting(a.settings, oid) = InForce(et, oid, n)
             /\ rq.oid = oid /\ a.error = NONE => a.value = Number(Setting(a.settings, oid))
  <2>1. InForce(et, oid, n) = IF Sets(rq, oid) THEN Wanted(rq) ELSE InForce(ds, oid, Len(ds))
    BY ForceMore
  <2>2. Setting(settings, oid) = InForce(ds, oid, Len(ds))
    BY DEF Stores
  <2>3. /\ Setting(a.settings, oid) = IF Sets(rq, oid) THEN Wanted(rq) ELSE Setting(settings, oid)
        /\ rq.oid = oid /\ a.error = NONE => a.value = Number(Setting(a.settings, oid))
    BY AnswersObey
  <2> QED
    BY <2>1, <2>2, <2>3
<1>3. p.id = rq.id /\ p.error = a.error /\ p.oid = rq.oid /\ p.value = a.value
  BY DEF Reply
<1> HIDE DEF et, n, p
<1>4. p.error = NONE /\ p.oid \in Stored => p.value = Number(InForce(et, p.oid, n))
  BY <1>2, <1>3
<1>5. Stores(a.settings, et)
  BY <1>1, <1>2 DEF Stores
<1>6. Tells1(p, et, n)
  BY <1>1, <1>3, <1>4 DEF Tells1
<1> QED
  BY <1>5, <1>6 DEF et, n, p

LEMMA TruthfulMore ==
  ASSUME NEW A, NEW ds \in Seq(A), NEW B, NEW ss \in Seq(B), NEW p \in B, Truthful(ds, ss)
  PROVE  /\ p.tag # RESPONSE => Truthful(ds, Append(ss, p))
         /\ \A r \in A : Tells1(p, Append(ds, r), Len(ds) + 1) => Truthful(Append(ds, r), Append(ss, p))
<1> DEFINE st == Append(ss, p)
<1>1. Len(st) = Len(ss) + 1 /\ st[Len(ss) + 1] = p /\ \A j \in 1 .. Len(ss) : st[j] = ss[j]
  <2>1. Extends(B, st, ss, p)
    BY AppendExtends
  <2> QED
    BY <2>1 DEF Extends
<1>2. Len(ss) \in Nat /\ Len(ds) \in Nat
  BY LenProperties
<1> HIDE DEF st
<1>3. \A j \in 1 .. Len(st) :
        \/ j = Len(ss) + 1 /\ st[j] = p
        \/ j \in 1 .. Len(ss) /\ st[j] = ss[j]
  BY <1>1, <1>2
<1>4. ASSUME p.tag # RESPONSE PROVE Truthful(ds, st)
  <2>1. ASSUME NEW j \in 1 .. Len(st), st[j].tag = RESPONSE
        PROVE  \E i \in 1 .. Len(ds) : Tells1(st[j], ds, i)
    <3>1. j \in 1 .. Len(ss) /\ st[j] = ss[j]
      BY <1>3, <1>4, <2>1
    <3> QED
      BY <2>1, <3>1 DEF Truthful
  <2> QED
    BY <2>1 DEF Truthful
<1>5. ASSUME NEW r \in A, Tells1(p, Append(ds, r), Len(ds) + 1) PROVE Truthful(Append(ds, r), st)
  <2> DEFINE et == Append(ds, r)
             n == Len(ds) + 1
  <2>1. Len(et) = n /\ \A i \in 1 .. Len(ds) : et[i] = ds[i]
    <3>1. Extends(A, et, ds, r)
      BY AppendExtends
    <3> QED
      BY <3>1 DEF Extends
  <2>2. \A oid, i : i \in 1 .. Len(ds) => InForce(et, oid, i) = InForce(ds, oid, i)
    <3>1. \A i : i \in 1 .. Len(ds) => i \in 0 .. Len(ds)
      BY <1>2
    <3>2. ASSUME NEW oid PROVE \A i \in 0 .. Len(ds) : InForce(et, oid, i) = InForce(ds, oid, i)
      BY ForceMore
    <3> HIDE DEF et
    <3> QED
      BY <3>1, <3>2
  <2>3. n \in 1 .. n /\ \A i : i \in 1 .. Len(ds) => i \in 1 .. n
    BY <1>2
  <2>4. Tells1(p, et, n)
    BY <1>5
  <2> HIDE DEF et, n
  <2>5. \A q, i : i \in 1 .. Len(ds) /\ Tells1(q, ds, i) => Tells1(q, et, i)
    BY <2>1, <2>2 DEF Tells1
  <2>6. ASSUME NEW j \in 1 .. Len(st), st[j].tag = RESPONSE
        PROVE  \E i \in 1 .. Len(et) : Tells1(st[j], et, i)
    <3>1. CASE st[j] = p
      BY <2>1, <2>3, <2>4, <3>1
    <3>2. CASE j \in 1 .. Len(ss) /\ st[j] = ss[j]
      <4>1. PICK i \in 1 .. Len(ds) : Tells1(st[j], ds, i)
        BY <2>6, <3>2 DEF Truthful
      <4>2. i \in 1 .. Len(et) /\ Tells1(st[j], et, i)
        BY <2>1, <2>3, <2>5, <4>1
      <4> QED
        BY <4>2
    <3> QED
      BY <1>3, <3>1, <3>2
  <2> QED
    BY <2>6 DEF Truthful, et
<1> QED
  BY <1>4, <1>5 DEF st

\* Only a request that has been decoded changes settings and adds to did.
Taken ==
  LET e == Eaten(codec, From(ring, at))
      rq == DeviceDecode(e.data)
  IN  /\ SSMP_rx /\ e.event = Received /\ rq # Undecodable
      /\ did' = Append(did, rq)
      /\ \E a \in Answers(rq) :
           settings' = a.settings /\ said' = Append(said, Reply(rq, a.error, a.value))

LEMMA TakenOrNot ==
  ASSUME [Next]_vars
  PROVE  \/ Taken
         \/ UNCHANGED <<settings, did, said>>
         \/ \E ev \in Events, t \in Texts :
              UNCHANGED <<settings, did>> /\ said' = Append(said, Trap(ev, t))
<1>1. ASSUME SSMP_rx PROVE Taken \/ UNCHANGED <<settings, did, said>>
  <2> DEFINE e == Eaten(codec, From(ring, at))
             rq == DeviceDecode(e.data)
  <2>0. e = Eating(codec, From(ring, at))[Len(From(ring, at))]
    BY DEF Eaten
  <2> HIDE DEF e
  <2>1. \/ UNCHANGED <<out, settings, did, said>> \/ UNCHANGED <<settings, did, said>>
        \/ e.event = Received /\ SSMP_received(rq)
    BY <1>1, <2>0 DEF SSMP_rx
  <2> HIDE DEF rq
  <2>2. CASE e.event = Received /\ SSMP_received(rq) /\ rq # Undecodable
    <3>1. PICK a \in Answers(rq) :
            did' = Append(did, rq) /\ settings' = a.settings /\ SSMP_write(Reply(rq, a.error, a.value))
      BY <2>2 DEF SSMP_received
    <3>2. said' = Append(said, Reply(rq, a.error, a.value))
      BY <3>1 DEF SSMP_write
    <3> QED
      BY <1>1, <2>2, <3>1, <3>2 DEF Taken, e, rq
  <2>3. CASE SSMP_received(rq) /\ rq = Undecodable
    BY <2>3 DEF SSMP_received
  <2> QED
    BY <2>1, <2>2, <2>3
<1>2. ASSUME NEW ev \in Events, SSMP_trap(ev)
      PROVE  \E t \in Texts : UNCHANGED <<settings, did>> /\ said' = Append(said, Trap(ev, t))
  BY <1>2 DEF SSMP_trap, SSMP_write
<1>3. ASSUME NEW r \in Requests, Write(r) PROVE UNCHANGED <<settings, did, said>>
  BY <1>3 DEF Write, loopVars
<1>4. Flush \/ Read \/ tud_cdc_rx_cb \/ Nested \/ usb1_write \/ UNCHANGED vars
        => UNCHANGED <<settings, did, said>>
  BY DEF Flush, Read, tud_cdc_rx_cb, Nested, usb1_write, vars, loopVars
<1> QED
  BY <1>1, <1>2, <1>3, <1>4 DEF Next

\* While nothing has been done the settings are the first.
LEMMA StoresInit == Init => Stores(settings, did) /\ Truthful(did, said)
<1> SUFFICES ASSUME Init PROVE Stores(settings, did) /\ Truthful(did, said)
  OBVIOUS
<1>1. settings = Initial /\ did = <<>> /\ said = <<>> /\ Len(<<>>) = 0
  BY EmptySeq DEF Init
<1> QED
  BY <1>1, ForceNone DEF Stores, Truthful

-----------------------------------------------------------------------------
(***************************************************************************)
(* Under any losses.  An integer that the device decodes is a number:      *)
(* assumed, like Encodes, for any bytes (BER_decode_integer).              *)
(***************************************************************************)
Reads == \A b \in Seq(Bytes) : DeviceDecode(b) # Undecodable => Numeric(DeviceDecode(b).value)
Readable == {DeviceDecode(b) : b \in Seq(Bytes)}
Kept == did \in Seq(Readable) /\ Stores(settings, did)

LEMMA KeptNext ==
  ASSUME Reads, LinkType, Kept, [Next]_vars
  PROVE  Kept'
<1> DEFINE bytes == From(ring, at)
           e == Eaten(codec, bytes)
           rq == DeviceDecode(e.data)
<1>1. CASE Taken
  <2>1. PICK a \in Answers(rq) : settings' = a.settings
    BY <1>1 DEF Taken
  <2>2. did' = Append(did, rq) /\ rq # Undecodable
    BY <1>1 DEF Taken
  <2>3. e.data \in Seq(Bytes)
    <3>1. bytes \in Seq(Bytes) /\ codec \in Codecs
      BY FromIs DEF LinkType
    <3> HIDE DEF bytes
    <3>2. e \in Meals
      BY <3>1, EatenType
    <3> QED
      BY <3>2 DEF Meals
  <2> HIDE DEF e
  <2>4. rq \in Readable /\ Numeric(rq.value)
    BY <2>2, <2>3 DEF Readable, Reads
  <2> HIDE DEF rq
  <2>5. did \in Seq(Readable) /\ settings \in Settings /\ Stores(settings, did)
    BY DEF Kept, LinkType
  <2>6. Stores(a.settings, Append(did, rq))
    BY <2>4, <2>5, StoresMore
  <2>7. Append(did, rq) \in Seq(Readable)
    BY <2>4, <2>5, AppendProperties
  <2> QED
    BY <2>1, <2>2, <2>6, <2>7 DEF Kept
<1>2. CASE UNCHANGED <<settings, did>>
  BY <1>2 DEF Kept, Stores, InForce
<1> QED
  BY <1>1, <1>2, TakenOrNot

\* The settings are those that the requests received ask for: one that is
\* refused changes nothing, and nothing else changes them, whatever is lost
\* (SettingsObeyed of Link: MIB_set of set.c, SSMP_received of SSMP.c).
THEOREM SettingsHold ==
  ASSUME Encodes, Reads
  PROVE  Spec => []SettingsObeyed
<1>1. Init => LinkType /\ Kept
  <2> SUFFICES ASSUME Init PROVE LinkType /\ Kept
    OBVIOUS
  <2>1. did = <<>> /\ <<>> \in Seq(Readable)
    BY EmptySeq DEF Init
  <2> QED
    BY <2>1, LinkTypeInit, StoresInit DEF Kept
<1>2. Encodes /\ Reads /\ LinkType /\ Kept /\ [Next]_vars => LinkType' /\ Kept'
  BY EncodesAnswers, LinkTypeNext, KeptNext
<1>3. Kept => SettingsObeyed
  BY DEF Kept, Stores, SettingsObeyed
<1> QED
  BY <1>1, <1>2, <1>3, PTL DEF Spec

-----------------------------------------------------------------------------
(***************************************************************************)
(* While nothing is lost.                                                  *)
(***************************************************************************)
\* Each request has the identifier after the one before it.
Counts(rqs) == \A i \in 1 .. Len(rqs) : rqs[i].id = FirstId + (i - 1)
Honest == Stores(settings, did) /\ Truthful(did, said)
ObeyInv == LinkInv /\ (faults = 0 => Honest /\ Counts(sent))

LEMMA AskedNumeric == ASSUME NEW rq \in Asked PROVE Numeric(rq.value)
<1>1. PICK r \in Requests, n \in 0 .. MaxSent - 1 : rq = Request(r.tag, FirstId + n, r.oid, r.value)
  BY DEF Asked
<1>2. rq.value = r.value
  BY <1>1 DEF Request
<1> QED
  BY <1>2, LinkAssumption DEF Numeric

LEMMA CountsNext ==
  ASSUME LinkType, Counts(sent), [Next]_vars
  PROVE  Counts(sent')
<1>1. ASSUME NEW r \in Requests, Write(r) PROVE Counts(sent')
  <2> DEFINE x == Get(r)
  <2>1. sent' = Append(sent, x) /\ Len(sent) < MaxSent /\ sent \in Seq(Asked)
    BY <1>1 DEF Write, LinkType
  <2>2. x \in Asked
    BY <2>1, WriteType
  <2>3. x.id = FirstId + Len(sent)
    BY DEF Get, Request
  <2> HIDE DEF x
  <2>4. /\ Len(sent') = Len(sent) + 1 /\ sent'[Len(sent) + 1] = x
        /\ \A i \in 1 .. Len(sent) : sent'[i] = sent[i]
    <3>1. Extends(Asked, Append(sent, x), sent, x)
      BY <2>1, <2>2, AppendExtends
    <3> QED
      BY <2>1, <3>1 DEF Extends
  <2>5. Len(sent) \in Nat
    BY <2>1, LenProperties
  <2>6. ASSUME NEW i \in 1 .. Len(sent') PROVE sent'[i].id = FirstId + (i - 1)
    <3>1. CASE i = Len(sent) + 1
      <4>1. i - 1 = Len(sent)
        BY <2>5, <3>1
      <4> QED
        BY <2>3, <2>4, <3>1, <4>1
    <3>2. CASE i # Len(sent) + 1
      <4>1. i \in 1 .. Len(sent)
        BY <2>4, <2>5, <3>2
      <4> QED
        BY <2>4, <4>1 DEF Counts
    <3> QED
      BY <3>1, <3>2
  <2> QED
    BY <2>6 DEF Counts
<1>2. SSMP_rx \/ Flush \/ Read \/ tud_cdc_rx_cb \/ Nested \/ usb1_write \/ UNCHANGED vars => sent' = sent
  BY DEF SSMP_rx, Flush, Read, tud_cdc_rx_cb, Nested, usb1_write, vars, hostVars
<1>3. ASSUME NEW ev \in Events, SSMP_trap(ev) PROVE sent' = sent
  BY <1>3 DEF SSMP_trap, hostVars
<1> QED
  BY <1>1, <1>2, <1>3 DEF Next, Counts

LEMMA HonestNext ==
  ASSUME Intact, Honest, [Next]_vars
  PROVE  Honest'
<1>1. /\ did \in Seq(Asked) /\ said \in Seq(Told) /\ settings \in Settings
      /\ Stores(settings, did) /\ Truthful(did, said)
  BY DEF Intact, Histories, LinkType, Honest
<1>2. CASE Taken
  <2> DEFINE e == Eaten(codec, From(ring, at))
             rq == DeviceDecode(e.data)
  <2>1. PICK a \in Answers(rq) :
          settings' = a.settings /\ said' = Append(said, Reply(rq, a.error, a.value))
    BY <1>2 DEF Taken
  <2>2. did' = Append(did, rq) /\ e.event = Received
    BY <1>2 DEF Taken
  <2>3. rq \in Asked
    BY <2>2, EatIntact
  <2> HIDE DEF e, rq
  <2> DEFINE p == Reply(rq, a.error, a.value)
  <2>4. p \in Told
    BY <1>1, <2>3, AnswersLeave, TellsAre
  <2>5. Stores(a.settings, Append(did, rq)) /\ Tells1(p, Append(did, rq), Len(did) + 1)
    BY <1>1, <2>3, AskedNumeric, StoresMore
  <2> HIDE DEF p
  <2>6. Truthful(Append(did, rq), Append(said, p))
    BY <1>1, <2>3, <2>4, <2>5, TruthfulMore
  <2>7. said' = Append(said, p)
    BY <2>1 DEF p
  <2> QED
    BY <2>1, <2>2, <2>5, <2>6, <2>7 DEF Honest
<1>3. CASE UNCHANGED <<settings, did, said>>
  BY <1>1, <1>3 DEF Honest
<1>4. ASSUME NEW ev \in Events, NEW t \in Texts, UNCHANGED <<settings, did>>,
             said' = Append(said, Trap(ev, t))
      PROVE  Honest'
  <2> DEFINE p == Trap(ev, t)
  <2>1. p \in Told /\ p.tag # RESPONSE
    <3>1. p.tag = TRAP
      BY SMT DEF Trap
    <3> QED
      BY <3>1, TellsAre DEF TRAP, RESPONSE
  <2> HIDE DEF p
  <2>2. Truthful(did, Append(said, p))
    BY <1>1, <2>1, TruthfulMore
  <2> QED
    BY <1>1, <1>4, <2>2 DEF Honest, p
<1> QED
  BY <1>2, <1>3, <1>4, TakenOrNot

LEMMA ObeyInvInit == Init => ObeyInv
<1> SUFFICES ASSUME Init PROVE ObeyInv
  OBVIOUS
<1>1. sent = <<>> /\ Len(<<>>) = 0
  BY EmptySeq DEF Init
<1>2. Counts(sent)
  BY <1>1 DEF Counts
<1> QED
  BY <1>2, LinkInvInit, StoresInit DEF ObeyInv, Honest

LEMMA ObeyInvNext ==
  ASSUME ObeyInv, [Next]_vars
  PROVE  ObeyInv'
<1>1. LinkInv'
  BY LinkInvNext DEF ObeyInv
<1>2. ASSUME faults' = 0 PROVE Honest' /\ Counts(sent')
  <2>1. faults = 0
    BY <1>2, FaultsCount DEF ObeyInv, LinkInv
  <2>2. Intact /\ Honest /\ Counts(sent)
    BY <2>1 DEF ObeyInv, LinkInv
  <2>3. Counts(sent')
    BY <2>2, CountsNext DEF Intact
  <2> QED
    BY <2>2, <2>3, HonestNext
<1> QED
  BY <1>1, <1>2 DEF ObeyInv, Counts

\* As long as nothing is lost, every answer that the host has without an error
\* tells the value in force when the request it answers was done, and the
\* settings are those asked for (Obeyed of Link: SSMP_get and SSMP_set, set.c).
THEOREM ObeyedHolds == Spec => [](faults = 0 => Obeyed)
<1>1. ObeyInv /\ Delivered => (faults = 0 => Obeyed)
  <2> SUFFICES ASSUME ObeyInv, Delivered, faults = 0 PROVE Obeyed
    OBVIOUS
  <2>1. Intact /\ Stores(settings, did) /\ Truthful(did, said) /\ Counts(sent)
    BY DEF ObeyInv, LinkInv, Honest
  <2>2. SettingsObeyed
    BY <2>1 DEF Stores, SettingsObeyed
  <2>3. /\ did \in Seq(Asked) /\ got \in Seq(Told) /\ said \in Seq(Told) /\ sent \in Seq(Asked)
        /\ Len(did) <= Len(sent) /\ \A i \in 1 .. Len(did) : did[i] = sent[i]
        /\ Len(got) <= Len(said) /\ \A i \in 1 .. Len(got) : got[i] = said[i]
    BY <2>1 DEF Intact, Histories, LinkType, Delivered
  <2>4. Len(did) \in Nat /\ Len(got) \in Nat /\ Len(said) \in Nat /\ Len(sent) \in Nat /\ FirstId \in Nat
    BY <2>3, LenProperties, ConstantsAre
  <2>5. \A i \in 1 .. Len(did) : did[i].id = FirstId + (i - 1)
    <3>1. \A i \in 1 .. Len(did) : i \in 1 .. Len(sent)
      BY <2>3, <2>4
    <3> QED
      BY <2>1, <2>3, <3>1 DEF Counts
  <2>6. ASSUME NEW p \in ToSet(got), NEW i \in DOMAIN did,
               p.tag = RESPONSE, p.id = did[i].id, p.error = NONE, p.oid \in Stored
        PROVE  p.value = Number(InForce(did, p.oid, i))
    <3>1. i \in 1 .. Len(did)
      BY <2>3, LenProperties
    <3>2. PICK k \in 1 .. Len(got) : p = got[k]
      BY <2>3, LenProperties DEF ToSet
    <3>3. k \in 1 .. Len(said) /\ said[k] = p
      BY <2>3, <2>4, <3>2
    <3>4. PICK m \in 1 .. Len(did) : Tells1(p, did, m)
      BY <2>1, <2>6, <3>3 DEF Truthful
    <3>5. m = i
      <4>1. FirstId + (m - 1) = FirstId + (i - 1)
        BY <2>5, <2>6, <3>1, <3>4 DEF Tells1
      <4> QED
        BY <2>4, <3>1, <4>1
    <3> QED
      BY <2>6, <3>4, <3>5 DEF Tells1
  <2> QED
    BY <2>2, <2>6 DEF Obeyed
<1> QED
  BY <1>1, ObeyInvInit, ObeyInvNext, DeliveredHolds, PTL DEF Spec

\* A beginning of a sequence is among it.
LEMMA BeginningIsAmong ==
  ASSUME NEW A, NEW s \in Seq(A), NEW B, NEW t \in Seq(B),
         Len(s) <= Len(t), \A i \in 1 .. Len(s) : s[i] = t[i]
  PROVE  Among(s, t)
<1>1. Len(s) \in Nat /\ Len(t) \in Nat /\ DOMAIN s = 1 .. Len(s) /\ DOMAIN t = 1 .. Len(t)
  BY LenProperties
<1> DEFINE f == [i \in DOMAIN s |-> i]
<1>2. f \in [DOMAIN s -> DOMAIN t]
  BY <1>1
<1>3. (\A i \in DOMAIN s : s[i] = t[f[i]]) /\ \A i, j \in DOMAIN s : i < j => f[i] < f[j]
  BY <1>1
<1> HIDE DEF f
<1> QED
  BY <1>2, <1>3 DEF Among

\* What was done and heard, as long as nothing was lost.
LEMMA NothingLost ==
  ASSUME LinkInv, Delivered, faults = 0
  PROVE  Faithful /\ Understood
<1>1. /\ did \in Seq(Asked) /\ got \in Seq(Told) /\ said \in Seq(Told) /\ sent \in Seq(Asked)
      /\ Len(did) <= Len(sent) /\ \A i \in 1 .. Len(did) : did[i] = sent[i]
      /\ Len(got) <= Len(said) /\ \A i \in 1 .. Len(got) : got[i] = said[i]
  BY DEF LinkInv, Intact, Histories, LinkType, Delivered
<1> QED
  BY <1>1, BeginningIsAmong DEF Faithful, Understood

\* The device does nothing that was not sent, or out of order, or twice, as long
\* as no byte is lost (Faithful of Link: bisync_decode, buffer.c).
THEOREM FaithfulHolds == Spec => [](faults = 0 => Faithful)
<1>1. LinkInv /\ Delivered => (faults = 0 => Faithful)
  BY NothingLost
<1> QED
  BY <1>1, LinkInvInit, LinkInvNext, DeliveredHolds, PTL DEF Spec

\* Nor does the host hear what was not said, or out of order, or twice
\* (Understood of Link: usb1_write, serial.go).
THEOREM UnderstoodHolds == Spec => [](faults = 0 => Understood)
<1>1. LinkInv /\ Delivered => (faults = 0 => Understood)
  BY NothingLost
<1> QED
  BY <1>1, LinkInvInit, LinkInvNext, DeliveredHolds, PTL DEF Spec

-----------------------------------------------------------------------------
(***************************************************************************)
(* The codec: numbers.                                                     *)
(***************************************************************************)
\* The least of some numbers is one of them.
LEMMA MinIs ==
  ASSUME NEW S \in SUBSET Nat, NEW e \in S
  PROVE  Min(S) \in S /\ \A x \in S : Min(S) <= x
<1> DEFINE R == {ss \in Nat \X Nat : ss[1] < ss[2]}
<1>1. IsWellFoundedOn(R, Nat)
  BY NatLessThanWellFounded DEF OpToRel
<1>2. \A x, y \in Nat : x < y => <<x, y>> \in R
  OBVIOUS
<1> HIDE DEF R
<1>3. PICK x \in S : \A y \in S : <<y, x>> \notin R
  BY <1>1, WFMin
<1>4. ASSUME NEW y \in S PROVE x <= y
  <2>1. x \in Nat /\ y \in Nat /\ ~(y < x)
    BY <1>2, <1>3
  <2> QED
    BY <2>1
<1> QED
  BY <1>4 DEF Min

LEMMA MinOfTwo ==
  ASSUME NEW m \in Nat, NEW n \in Nat
  PROVE  Min({m, n}) = IF m <= n THEN m ELSE n
<1> DEFINE S == {m, n}
<1>1. S \in SUBSET Nat /\ m \in S /\ n \in S
  OBVIOUS
<1>2. Min(S) \in S /\ \A x \in S : Min(S) <= x
  BY <1>1, MinIs
<1>3. (Min(S) = m \/ Min(S) = n) /\ Min(S) <= m /\ Min(S) <= n
  BY <1>1, <1>2
<1> QED
  BY <1>3

\* What is left of n after each digit.
Quotes(q, n, base, digits) ==
  /\ q \in [0 .. digits -> Int] /\ q[0] = n
  /\ \A i \in 1 .. digits : q[i] = q[i - 1] \div base

LEMMA QuotientsAre ==
  ASSUME NEW n \in Int, NEW base \in Nat \ {0}, NEW digits \in Nat
  PROVE  Quotes(Quotients(n, base, digits), n, base, digits)
<1> DEFINE G == [i \in 1 .. digits |-> [x \in Int |-> x \div base]]
           Eq(h) == [i \in 0 .. digits |-> IF i = 0 THEN n ELSE h[i - 1] \div base]
           q == CHOOSE h : h = Eq(h)
<1>1. Quotients(n, base, digits) = q
  BY DEF Quotients
<1>2. Stepwise(G, digits, Int)
  <2>1. \A x \in Int : x \div base \in Int
    OBVIOUS
  <2> QED
    BY <2>1 DEF Stepwise
<1>3. \A i \in 1 .. digits, x \in Int : G[i][x] = x \div base
  OBVIOUS
<1> HIDE DEF G
<1>4. PICK F : Unfolds(F, G, digits, Int, n)
  BY <1>2, Recursion
<1>5. F \in [0 .. digits -> Int] /\ F[0] = n /\ \A i \in 1 .. digits : F[i] = G[i][F[i - 1]]
  BY <1>4 DEF Unfolds
<1>6. \A i \in 1 .. digits : F[i - 1] \in Int
  BY <1>5
<1>7. \A i \in 1 .. digits : F[i] = F[i - 1] \div base
  BY <1>3, <1>5, <1>6
<1>8. F = Eq(F)
  <2>1. \A i \in 0 .. digits : i = 0 \/ i \in 1 .. digits
    OBVIOUS
  <2> QED
    BY <1>5, <1>7, <2>1
<1>9. q = Eq(q)
  BY <1>8
<1> HIDE DEF q
<1>10. Agrees(digits, Int, F, q)
  <2>1. q = [i \in 0 .. digits |-> q[i]]
    BY <1>9
  <2>2. 0 \in 0 .. digits /\ \A i \in 1 .. digits : i \in 0 .. digits /\ i # 0
    OBVIOUS
  <2>3. q[0] = n /\ \A i \in 1 .. digits : q[i] = q[i - 1] \div base
    BY <1>9, <2>2
  <2> QED
    BY <1>5, <1>7, <2>1, <2>3 DEF Agrees
<1>11. q = F
  BY <1>10, Agreeing
<1> QED
  BY <1>1, <1>5, <1>7, <1>11 DEF Quotes

\* A varint has the digits of n, at most five, all but the last marked.
Marked(q, k) == [i \in 1 .. k |-> (q[k - i] % 128) + IF i < k THEN 128 ELSE 0]
VarintOf(q, k, n) ==
  /\ k \in 1 .. 5 /\ q \in [0 .. 5 -> Nat] /\ Quotes(q, n, 128, 5)
  /\ (\A i \in 1 .. k - 1 : q[i - 1] >= 128) /\ (k = 5 \/ q[k - 1] < 128)

LEMMA VarintIs ==
  ASSUME NEW n \in Nat
  PROVE  \E k, q : VarintOf(q, k, n) /\ pack_varint(n) = Marked(q, k)
<1> DEFINE q == Quotients(n, 128, 5)
           S == {i \in 1 .. 5 : i = 5 \/ q[i - 1] < 128}
           k == Min(S)
<1>0. Quotes(q, n, 128, 5)
  <2>1. n \in Int /\ 128 \in Nat \ {0} /\ 5 \in Nat
    OBVIOUS
  <2> QED
    BY <2>1, QuotientsAre
<1>2. pack_varint(n) = Marked(q, k)
  BY DEF pack_varint, Marked
<1> HIDE DEF q
<1>1. q \in [0 .. 5 -> Int] /\ q[0] = n /\ \A i \in 1 .. 5 : q[i] = q[i - 1] \div 128
  BY <1>0 DEF Quotes
<1>3. q \in [0 .. 5 -> Nat]
  <2>1. \A x \in Nat : x \div 128 \in Nat
    OBVIOUS
  <2>2. q[0] \in Nat
    BY <1>1
  <2>3. q[1] \in Nat
    <3>1. q[1] = q[0] \div 128
      BY <1>1
    <3> QED
      BY <2>1, <2>2, <3>1
  <2>4. q[2] \in Nat
    <3>1. q[2] = q[1] \div 128
      BY <1>1
    <3> QED
      BY <2>1, <2>3, <3>1
  <2>5. q[3] \in Nat
    <3>1. q[3] = q[2] \div 128
      BY <1>1
    <3> QED
      BY <2>1, <2>4, <3>1
  <2>6. q[4] \in Nat
    <3>1. q[4] = q[3] \div 128
      BY <1>1
    <3> QED
      BY <2>1, <2>5, <3>1
  <2>7. q[5] \in Nat
    <3>1. q[5] = q[4] \div 128
      BY <1>1
    <3> QED
      BY <2>1, <2>6, <3>1
  <2>8. \A i \in 0 .. 5 : i = 0 \/ i = 1 \/ i = 2 \/ i = 3 \/ i = 4 \/ i = 5
    OBVIOUS
  <2>9. \A i \in 0 .. 5 : q[i] \in Nat
    BY <2>2, <2>3, <2>4, <2>5, <2>6, <2>7, <2>8, Zenon
  <2> QED
    BY <1>1, <2>9
<1>4. S \in SUBSET Nat /\ 5 \in S
  OBVIOUS
<1>5. k \in S /\ \A x \in S : k <= x
  <2> HIDE DEF S
  <2> QED
    BY <1>4, MinIs
<1>6. k \in 1 .. 5 /\ (k = 5 \/ q[k - 1] < 128)
  <2> HIDE DEF k
  <2> QED
    BY <1>5
<1>7. ASSUME NEW i \in 1 .. k - 1 PROVE q[i - 1] >= 128
  <2> HIDE DEF k
  <2>1. i \in 1 .. 5 /\ i \notin S /\ i - 1 \in 0 .. 5
    BY <1>5, <1>6
  <2> QED
    BY <1>3, <2>1
<1> HIDE DEF k
<1>8. VarintOf(q, k, n)
  BY <1>0, <1>3, <1>6, <1>7 DEF VarintOf
<1> QED
  BY <1>2, <1>8

LEMMA VarintType ==
  ASSUME NEW n \in Nat
  PROVE  pack_varint(n) \in Seq(Byte) /\ Len(pack_varint(n)) \in 1 .. 5
<1>0. PICK k, q : VarintOf(q, k, n) /\ pack_varint(n) = Marked(q, k)
  BY VarintIs
<1>1. k \in 1 .. 5 /\ q \in [0 .. 5 -> Nat]
  BY <1>0 DEF VarintOf
<1>2. \A i \in 1 .. k : (q[k - i] % 128) + (IF i < k THEN 128 ELSE 0) \in Byte
  <2>1. \A x \in Nat : (x % 128) + 128 \in Byte /\ (x % 128) + 0 \in Byte
    BY DEF Byte
  <2>2. \A i \in 1 .. k : q[k - i] \in Nat
    BY <1>1
  <2> QED
    BY <2>1, <2>2
<1> DEFINE d == [i \in 1 .. k |-> (q[k - i] % 128) + IF i < k THEN 128 ELSE 0]
<1>3. d \in [1 .. k -> Byte]
  BY <1>2
<1>4. k \in Nat
  BY <1>1
<1> HIDE DEF d
<1>5. d \in Seq(Byte) /\ Len(d) = k
  BY <1>3, <1>4
<1> QED
  BY <1>0, <1>1, <1>5 DEF d, Marked

LEMMA VarintSmall ==
  ASSUME NEW n \in 0 .. 127
  PROVE  pack_varint(n) = <<n>>
<1>1. PICK k, q : VarintOf(q, k, n) /\ pack_varint(n) = Marked(q, k)
  BY VarintIs
<1>2. k \in 1 .. 5 /\ q[0] = n /\ \A i \in 1 .. k - 1 : q[i - 1] >= 128
  BY <1>1 DEF VarintOf, Quotes
<1>3. k = 1
  <2>1. SUFFICES ASSUME k > 1 PROVE FALSE
    BY <1>2
  <2>2. 1 \in 1 .. k - 1 /\ 1 - 1 = 0
    BY <1>2, <2>1
  <2>3. q[0] >= 128
    BY <1>2, <2>2
  <2> QED
    BY <1>2, <2>3
<1>4. \A i \in 1 .. 1 : (q[1 - i] % 128) + (IF i < 1 THEN 128 ELSE 0) = n
  BY <1>2
<1>5. Marked(q, 1) = [i \in 1 .. 1 |-> n]
  BY <1>4 DEF Marked
<1> QED
  BY <1>1, <1>3, <1>5

\* The bytes c as digits that follow a.
Places(F, a, c, X) ==
  /\ F \in [0 .. Len(c) -> X] /\ F[0] = a
  /\ \A i \in 1 .. Len(c) : F[i] = 256 * F[i - 1] + c[i]

LEMMA Base256Is ==
  ASSUME NEW S, NEW c \in Seq(S), NEW a, NEW X, NEW F, Places(F, a, c, X)
  PROVE  Base256(a, c) = F[Len(c)]
<1> DEFINE n == Len(c)
           Eq(h) == [i \in 0 .. n |-> IF i = 0 THEN a ELSE 256 * h[i - 1] + c[i]]
           v == CHOOSE h : h = Eq(h)
<1>1. Base256(a, c) = v[n]
  BY DEF Base256
<1>2. n \in Nat
  BY LenProperties
<1>3. F \in [0 .. n -> X] /\ F[0] = a /\ \A i \in 1 .. n : F[i] = 256 * F[i - 1] + c[i]
  BY DEF Places
<1> HIDE DEF n
<1>4. F = Eq(F)
  <2>1. \A i \in 0 .. n : i = 0 \/ i \in 1 .. n
    OBVIOUS
  <2> QED
    BY <1>3, <2>1
<1>5. v = Eq(v)
  BY <1>4
<1> HIDE DEF v
<1>6. Agrees(n, X, F, v)
  <2>1. v = [i \in 0 .. n |-> v[i]]
    BY <1>5
  <2>2. 0 \in 0 .. n /\ \A i \in 1 .. n : i \in 0 .. n /\ i # 0
    BY <1>2
  <2>3. v[0] = a /\ \A i \in 1 .. n : v[i] = 256 * v[i - 1] + c[i]
    BY <1>5, <2>2
  <2>4. ASSUME NEW i \in 1 .. n, v[i - 1] = F[i - 1] PROVE v[i] = F[i]
    <3>1. v[i] = 256 * v[i - 1] + c[i] /\ F[i] = 256 * F[i - 1] + c[i]
      BY <1>3, <2>3
    <3> QED
      BY <2>4, <3>1, Zenon
  <2>5. v[0] = F[0]
    BY <1>3, <2>3
  <2> QED
    BY <1>2, <1>3, <2>1, <2>4, <2>5, Zenon DEF Agrees
<1>7. v = F
  BY <1>6, Agreeing
<1> QED
  BY <1>1, <1>7 DEF n

LEMMA Base256Type ==
  ASSUME NEW X, X = Int \/ X = Nat, NEW a \in X, NEW c \in Seq(Byte)
  PROVE  Base256(a, c) \in X
<1> DEFINE n == Len(c)
           G == [i \in 1 .. n |-> [x \in X |-> 256 * x + c[i]]]
<1>1. n \in Nat /\ \A i \in 1 .. n : c[i] \in Byte
  BY LenProperties, ElementOfSeq
<1> HIDE DEF n
<1>2. \A x \in X, b \in Byte : 256 * x + b \in X
  <2>1. \A x, b \in Int : 256 * x + b \in Int
    OBVIOUS
  <2>2. \A x, b \in Nat : 256 * x + b \in Nat
    OBVIOUS
  <2>3. Byte \subseteq Nat /\ Byte \subseteq Int
    BY DEF Byte
  <2> QED
    BY <2>1, <2>2, <2>3
<1>3. Stepwise(G, n, X)
  BY <1>1, <1>2 DEF Stepwise
<1>4. \A i \in 1 .. n, x \in X : G[i][x] = 256 * x + c[i]
  OBVIOUS
<1> HIDE DEF G
<1>5. PICK F : Unfolds(F, G, n, X, a)
  BY <1>1, <1>3, Recursion
<1>6. F \in [0 .. n -> X] /\ F[0] = a /\ \A i \in 1 .. n : F[i] = G[i][F[i - 1]]
  BY <1>5 DEF Unfolds
<1>7. \A i \in 1 .. n : F[i - 1] \in X
  <2>1. \A i \in 1 .. n : i - 1 \in 0 .. n
    BY <1>1
  <2> QED
    BY <1>6, <2>1
<1>8. Places(F, a, c, X)
  BY <1>4, <1>6, <1>7 DEF Places, n
<1>9. Base256(a, c) = F[n]
  BY <1>8, Base256Is DEF n
<1>10. n \in 0 .. n
  BY <1>1
<1> QED
  BY <1>6, <1>9, <1>10

\* An integer has the least bytes that tell its sign.
Octets(q, k) == [i \in 1 .. k |-> q[k - i] % 256]
ComplementOf(q, k, n) ==
  /\ k \in 1 .. 8 /\ q \in [0 .. 8 -> Int] /\ Quotes(q, n, 256, 8)
  /\ (\A i \in 1 .. k - 1 : q[i - 1] \notin -128 .. 127) /\ (k = 8 \/ q[k - 1] \in -128 .. 127)

LEMMA ComplementIs ==
  ASSUME NEW n \in Int
  PROVE  \E k, q : ComplementOf(q, k, n) /\ Complement(n) = Octets(q, k)
<1> DEFINE q == Quotients(n, 256, 8)
           S == {i \in 1 .. 8 : i = 8 \/ q[i - 1] \in -128 .. 127}
           k == Min(S)
<1>1. Quotes(q, n, 256, 8)
  <2>1. 256 \in Nat \ {0} /\ 8 \in Nat
    OBVIOUS
  <2> QED
    BY <2>1, QuotientsAre
<1>2. Complement(n) = Octets(q, k)
  BY DEF Complement, Octets
<1> HIDE DEF q
<1>3. q \in [0 .. 8 -> Int]
  BY <1>1 DEF Quotes
<1>4. S \in SUBSET Nat /\ 8 \in S
  OBVIOUS
<1>5. k \in S /\ \A x \in S : k <= x
  <2> HIDE DEF S
  <2> QED
    BY <1>4, MinIs
<1>6. k \in 1 .. 8 /\ (k = 8 \/ q[k - 1] \in -128 .. 127)
  <2> HIDE DEF k
  <2> QED
    BY <1>5
<1>7. ASSUME NEW i \in 1 .. k - 1 PROVE q[i - 1] \notin -128 .. 127
  <2> HIDE DEF k
  <2>1. i \in 1 .. 8 /\ i \notin S
    BY <1>5, <1>6
  <2> QED
    BY <2>1
<1> HIDE DEF k
<1>8. ComplementOf(q, k, n)
  BY <1>1, <1>3, <1>6, <1>7 DEF ComplementOf
<1> QED
  BY <1>2, <1>8

LEMMA OctetsType ==
  ASSUME NEW q, NEW k, NEW n, ComplementOf(q, k, n)
  PROVE  Octets(q, k) \in Seq(Byte) /\ Len(Octets(q, k)) = k
<1>1. k \in 1 .. 8 /\ q \in [0 .. 8 -> Int]
  BY DEF ComplementOf
<1> DEFINE d == Octets(q, k)
<1>2. \A x \in Int : x % 256 \in Byte
  BY DEF Byte
<1>3. \A i \in 1 .. k : q[k - i] \in Int
  BY <1>1
<1>4. d \in [1 .. k -> Byte]
  BY <1>2, <1>3 DEF Octets
<1>5. k \in Nat
  BY <1>1
<1> HIDE DEF d
<1>6. d \in Seq(Byte) /\ Len(d) = k
  BY <1>4, <1>5
<1> QED
  BY <1>6 DEF d

LEMMA ComplementType ==
  ASSUME NEW n \in Int
  PROVE  Complement(n) \in Seq(Byte) /\ Len(Complement(n)) \in 1 .. 8
<1>1. PICK k, q : ComplementOf(q, k, n) /\ Complement(n) = Octets(q, k)
  BY ComplementIs
<1>2. k \in 1 .. 8
  BY <1>1 DEF ComplementOf
<1> QED
  BY <1>1, <1>2, OctetsType

\* The last byte of an integer of 64 bits, and of one of 32 bits.
Int64 == {n \in Int : n \div 36028797018963968 \in -256 .. 255}
Word == {n \in Nat : n < 65536 * 65536}

LEMMA LastOctet ==
  ASSUME NEW n \in Int64, NEW q, NEW k, ComplementOf(q, k, n)
  PROVE  q[k - 1] \in -128 .. 127
<1>0. Quotes(q, n, 256, 8) /\ k \in 1 .. 8 /\ q \in [0 .. 8 -> Int] /\ (k = 8 \/ q[k - 1] \in -128 .. 127)
  BY DEF ComplementOf
<1>1. q[0] = n
  BY <1>0 DEF Quotes
<1>21. q[1] = q[0] \div 256
  BY <1>0 DEF Quotes
<1>22. q[2] = q[1] \div 256
  BY <1>0 DEF Quotes
<1>23. q[3] = q[2] \div 256
  BY <1>0 DEF Quotes
<1>24. q[4] = q[3] \div 256
  BY <1>0 DEF Quotes
<1>25. q[5] = q[4] \div 256
  BY <1>0 DEF Quotes
<1>26. q[6] = q[5] \div 256
  BY <1>0 DEF Quotes
<1>27. q[7] = q[6] \div 256
  BY <1>0 DEF Quotes
<1>3. \A i \in 0 .. 7 : q[i] \in Int
  BY <1>0
<1> DEFINE h == n \div 36028797018963968
<1>4. h \in -256 .. 255 /\ 36028797018963968 * h <= q[0] /\ q[0] < 36028797018963968 * h + 36028797018963968
  <2>1. n \in Int /\ h \in -256 .. 255
    BY DEF Int64
  <2>2. \A x \in Int : /\ 36028797018963968 * (x \div 36028797018963968) <= x
                     /\ x < 36028797018963968 * (x \div 36028797018963968) + 36028797018963968
    OBVIOUS
  <2> QED
    BY <1>1, <2>1, <2>2
<1> HIDE DEF h
<1>5. 140737488355328 * h <= q[1] /\ q[1] < 140737488355328 * h + 140737488355328
  <2>1. \A x, y \in Int : 36028797018963968 * y <= x /\ x < 36028797018963968 * y + 36028797018963968 => 140737488355328 * y <= x \div 256 /\ x \div 256 < 140737488355328 * y + 140737488355328
    OBVIOUS
  <2>2. q[0] \in Int /\ h \in Int
    BY <1>3, <1>4
  <2> QED
    BY <1>4, <1>21, <2>1, <2>2
<1>6. 549755813888 * h <= q[2] /\ q[2] < 549755813888 * h + 549755813888
  <2>1. \A x, y \in Int : 140737488355328 * y <= x /\ x < 140737488355328 * y + 140737488355328 => 549755813888 * y <= x \div 256 /\ x \div 256 < 549755813888 * y + 549755813888
    OBVIOUS
  <2>2. q[1] \in Int /\ h \in Int
    BY <1>3, <1>4
  <2> QED
    BY <1>5, <1>22, <2>1, <2>2
<1>7. 2147483648 * h <= q[3] /\ q[3] < 2147483648 * h + 2147483648
  <2>1. \A x, y \in Int : 549755813888 * y <= x /\ x < 549755813888 * y + 549755813888 => 2147483648 * y <= x \div 256 /\ x \div 256 < 2147483648 * y + 2147483648
    OBVIOUS
  <2>2. q[2] \in Int /\ h \in Int
    BY <1>3, <1>4
  <2> QED
    BY <1>6, <1>23, <2>1, <2>2
<1>8. 8388608 * h <= q[4] /\ q[4] < 8388608 * h + 8388608
  <2>1. \A x, y \in Int : 2147483648 * y <= x /\ x < 2147483648 * y + 2147483648 => 8388608 * y <= x \div 256 /\ x \div 256 < 8388608 * y + 8388608
    OBVIOUS
  <2>2. q[3] \in Int /\ h \in Int
    BY <1>3, <1>4
  <2> QED
    BY <1>7, <1>24, <2>1, <2>2
<1>9. 32768 * h <= q[5] /\ q[5] < 32768 * h + 32768
  <2>1. \A x, y \in Int : 8388608 * y <= x /\ x < 8388608 * y + 8388608 => 32768 * y <= x \div 256 /\ x \div 256 < 32768 * y + 32768
    OBVIOUS
  <2>2. q[4] \in Int /\ h \in Int
    BY <1>3, <1>4
  <2> QED
    BY <1>8, <1>25, <2>1, <2>2
<1>10. 128 * h <= q[6] /\ q[6] < 128 * h + 128
  <2>1. \A x, y \in Int : 32768 * y <= x /\ x < 32768 * y + 32768 => 128 * y <= x \div 256 /\ x \div 256 < 128 * y + 128
    OBVIOUS
  <2>2. q[5] \in Int /\ h \in Int
    BY <1>3, <1>4
  <2> QED
    BY <1>9, <1>26, <2>1, <2>2
<1>11. q[7] \in -128 .. 127
  <2>1. \A x \in Int, y \in -256 .. 255 : 128 * y <= x /\ x < 128 * y + 128 => x \div 256 \in -128 .. 127
    OBVIOUS
  <2>2. q[6] \in Int
    BY <1>3
  <2> QED
    BY <1>4, <1>10, <1>27, <2>1, <2>2
<1> QED
  BY <1>0, <1>11

\* An integer comes back as it was.
LEMMA IntegerRead ==
  ASSUME NEW n \in Int64
  PROVE  unpack_integer(Complement(n)) = n
<1>1. PICK k, q : ComplementOf(q, k, n) /\ Complement(n) = Octets(q, k)
  <2>1. n \in Int
    BY DEF Int64
  <2> QED
    BY <2>1, ComplementIs
<1> DEFINE c == Octets(q, k)
           a == IF c[1] > 127 THEN -1 ELSE 0
           F == [i \in 0 .. k |-> IF i = 0 THEN a ELSE q[k - i]]
<1>2. k \in 1 .. 8 /\ q \in [0 .. 8 -> Int] /\ q[0] = n
  BY <1>1 DEF ComplementOf, Quotes
<1>20. \A i \in 1 .. 8 : q[i] = q[i - 1] \div 256
  BY <1>1 DEF ComplementOf, Quotes
<1>3. q[k - 1] \in -128 .. 127
  BY <1>1, LastOctet
<1>4. c \in Seq(Byte) /\ Len(c) = k
  BY <1>1, OctetsType
<1>5. \A i \in 1 .. k : c[i] = q[k - i] % 256
  BY DEF Octets
<1> HIDE DEF c
<1>6. q[k - 1] = 256 * a + c[1]
  <2>1. \A x \in -128 .. 127 : IF x % 256 > 127 THEN x = -256 + (x % 256) ELSE x = x % 256
    OBVIOUS
  <2>2. 1 \in 1 .. k
    BY <1>2
  <2>3. c[1] = q[k - 1] % 256
    BY <1>5, <2>2
  <2> QED
    BY <1>3, <2>1, <2>3
<1>7. ASSUME NEW i \in 1 .. k PROVE F[i] = 256 * F[i - 1] + c[i]
  <2>1. CASE i = 1
    BY <1>2, <1>6, <2>1
  <2>2. CASE i # 1
    <3>1. i - 1 \in 1 .. k /\ k - (i - 1) = (k - i) + 1 /\ (k - i) + 1 \in 1 .. 8 /\ k - i \in 0 .. 8
      BY <1>2, <2>2
    <3>2. F[i] = q[k - i] /\ F[i - 1] = q[(k - i) + 1]
      BY <3>1
    <3>3. q[(k - i) + 1] = q[k - i] \div 256 /\ q[k - i] \in Int
      <4>1. ((k - i) + 1) - 1 = k - i
        BY <1>2
      <4> QED
        BY <1>2, <1>20, <3>1, <4>1
    <3>4. \A x \in Int : x = 256 * (x \div 256) + (x % 256)
      OBVIOUS
    <3> QED
      BY <1>5, <3>2, <3>3, <3>4
  <2> QED
    BY <2>1, <2>2
<1>8. F \in [0 .. k -> Int] /\ F[0] = a
  <2>1. \A i \in 0 .. k : i # 0 => q[k - i] \in Int
    BY <1>2
  <2>2. a \in Int
    OBVIOUS
  <2> HIDE DEF a
  <2>3. \A i \in 0 .. k : F[i] \in Int
    BY <2>1, <2>2
  <2>4. 0 \in 0 .. k
    BY <1>2
  <2> QED
    BY <2>3, <2>4
<1>9. F[k] = n
  <2> HIDE DEF a
  <2>1. k \in 0 .. k /\ k # 0 /\ k - k = 0
    BY <1>2
  <2> QED
    BY <1>2, <2>1
<1> HIDE DEF F, a
<1>10. Places(F, a, c, Int)
  BY <1>4, <1>7, <1>8 DEF Places
<1>11. Base256(a, c) = n
  BY <1>4, <1>9, <1>10, Base256Is
<1>12. c # <<>> /\ ~(Len(c) > 8)
  <2>1. Len(c) # 0 /\ ~(Len(c) > 8)
    BY <1>2, <1>4
  <2> QED
    BY <2>1, EmptySeq
<1> QED
  BY <1>1, <1>11, <1>12 DEF unpack_integer, c, a

\* One of 32 bits has at most five bytes.
LEMMA WordShort ==
  ASSUME NEW n \in Word
  PROVE  n \in Int64 /\ Complement(n) \in Seq(Byte) /\ Len(Complement(n)) \in 1 .. 5
<1>0. n \in Int
  BY SMT DEF Word
<1>1. PICK k, q : ComplementOf(q, k, n) /\ Complement(n) = Octets(q, k)
  BY <1>0, ComplementIs
<1>2. k \in 1 .. 8 /\ q \in [0 .. 8 -> Int] /\ Quotes(q, n, 256, 8)
  BY <1>1 DEF ComplementOf
<1>3. \A i \in 1 .. k - 1 : q[i - 1] \notin -128 .. 127
  BY <1>1 DEF ComplementOf
<1>4. q[0] = n
  BY <1>2 DEF Quotes
<1>21. q[1] = q[0] \div 256
  BY <1>2 DEF Quotes
<1>22. q[2] = q[1] \div 256
  BY <1>2 DEF Quotes
<1>23. q[3] = q[2] \div 256
  BY <1>2 DEF Quotes
<1>24. q[4] = q[3] \div 256
  BY <1>2 DEF Quotes
<1>5. \A i \in 0 .. 4 : q[i] \in Int
  BY <1>2
<1>6. 0 <= q[0] /\ q[0] < 65536 * 65536
  BY <1>4, SMT DEF Word
<1>7. 0 <= q[1] /\ q[1] < 16777216
  <2>1. \A x \in Int : 0 <= x /\ x < 65536 * 65536 => 0 <= x \div 256 /\ x \div 256 < 16777216
    OBVIOUS
  <2>2. q[0] \in Int
    BY <1>5
  <2> QED
    BY <1>6, <1>21, <2>1, <2>2
<1>8. 0 <= q[2] /\ q[2] < 65536
  <2>1. \A x \in Int : 0 <= x /\ x < 16777216 => 0 <= x \div 256 /\ x \div 256 < 65536
    OBVIOUS
  <2>2. q[1] \in Int
    BY <1>5
  <2> QED
    BY <1>7, <1>22, <2>1, <2>2
<1>9. 0 <= q[3] /\ q[3] < 256
  <2>1. \A x \in Int : 0 <= x /\ x < 65536 => 0 <= x \div 256 /\ x \div 256 < 256
    OBVIOUS
  <2>2. q[2] \in Int
    BY <1>5
  <2> QED
    BY <1>8, <1>23, <2>1, <2>2
<1>10. 0 <= q[4] /\ q[4] < 1
  <2>1. \A x \in Int : 0 <= x /\ x < 256 => 0 <= x \div 256 /\ x \div 256 < 1
    OBVIOUS
  <2>2. q[3] \in Int
    BY <1>5
  <2> QED
    BY <1>9, <1>24, <2>1, <2>2
<1>11. q[4] \in -128 .. 127
  <2>1. q[4] \in Int
    BY <1>5
  <2> QED
    BY <1>10, <2>1
<1>12. k <= 5
  <2>1. SUFFICES ASSUME k > 5 PROVE FALSE
    BY <1>2
  <2>2. 5 \in 1 .. k - 1 /\ 5 - 1 = 4
    BY <1>2, <2>1
  <2> QED
    BY <1>3, <1>11, <2>2
<1>13. n \in Int64
  <2>1. n \in Nat /\ n < 65536 * 65536
    BY DEF Word
  <2>2. n \div 36028797018963968 = 0
    BY <2>1
  <2> QED
    BY <1>0, <2>2 DEF Int64
<1>14. k \in 1 .. 5
  BY <1>2, <1>12
<1> QED
  BY <1>1, <1>13, <1>14, OctetsType

LEMMA PackType ==
  ASSUME NEW tag \in Byte, NEW c \in Seq(Byte)
  PROVE  Pack(tag, c) \in Seq(Byte) /\ Len(Pack(tag, c)) >= 2 + Len(c)
<1> DEFINE v == pack_varint(Len(c))
           t == <<tag>>
           b == (t \o v) \o c
<1>1. Len(c) \in Nat
  BY LenProperties
<1>2. v \in Seq(Byte) /\ Len(v) \in 1 .. 5
  BY <1>1, VarintType
<1>3. t \in Seq(Byte) /\ Len(t) = 1
  OBVIOUS
<1>4. Pack(tag, c) = b
  BY Zenon DEF Pack
<1> HIDE DEF v, t
<1>5. t \o v \in Seq(Byte) /\ Len(t \o v) = Len(t) + Len(v)
  BY <1>2, <1>3, ConcatProperties
<1>6. b \in Seq(Byte) /\ Len(b) = Len(t \o v) + Len(c)
  BY <1>5, ConcatProperties
<1> HIDE DEF b
<1>7. Len(b) >= 2 + Len(c)
  BY <1>1, <1>2, <1>3, <1>5, <1>6
<1> QED
  BY <1>4, <1>6, <1>7

\* The tag, the length in one byte and the contents.
LEMMA PackShort ==
  ASSUME NEW tag \in Byte, NEW c \in Seq(Byte), Len(c) <= 127
  PROVE  /\ Pack(tag, c) = Cat(<<tag>>, Cat(<<Len(c)>>, c)) /\ Pack(tag, c) \in Seq(Byte)
         /\ Len(Pack(tag, c)) = 2 + Len(c) /\ <<Len(c)>> \in Seq(Byte) /\ <<tag>> \in Seq(Byte)
<1> DEFINE l == Len(c)
           n == <<l>>
           t == <<tag>>
<1>1. l \in 0 .. 127
  <2>1. l \in Nat /\ l <= 127
    BY LenProperties
  <2>2. \A x \in Nat : x <= 127 => x \in 0 .. 127
    OBVIOUS
  <2> QED
    BY <2>1, <2>2, Zenon
<1>2. pack_varint(l) = n
  BY <1>1, VarintSmall
<1>3. Pack(tag, c) = Cat(Cat(t, n), c)
  BY <1>2, Zenon DEF Pack, Cat
<1>4. t \in Seq(Byte) /\ Len(t) = 1
  OBVIOUS
<1>5. n \in Seq(Byte) /\ Len(n) = 1
  <2>1. l \in Byte
    BY <1>1 DEF Byte
  <2>2. \A x \in Byte : <<x>> \in Seq(Byte) /\ Len(<<x>>) = 1
    OBVIOUS
  <2> QED
    BY <2>1, <2>2, Zenon
<1> HIDE DEF t, n
<1>6. Cat(Cat(t, n), c) = Cat(t, Cat(n, c))
  BY <1>4, <1>5, CatAssociative
<1>7. Cat(n, c) \in Seq(Byte) /\ Len(Cat(n, c)) = Len(n) + Len(c)
  BY <1>5, CatAt
<1>8. Cat(t, Cat(n, c)) \in Seq(Byte) /\ Len(Cat(t, Cat(n, c))) = Len(t) + Len(Cat(n, c))
  BY <1>4, <1>7, CatAt
<1>9. Len(t) + Len(Cat(n, c)) = 2 + Len(c)
  BY <1>1, <1>4, <1>5, <1>7
<1> QED
  BY <1>3, <1>4, <1>5, <1>6, <1>8, <1>9 DEF n, t, l

\* What is in front of a sequence, and what follows.
LEMMA FrontOf ==
  ASSUME NEW S, NEW x \in S, NEW s \in Seq(S)
  PROVE  /\ Cat(<<x>>, s) # <<>> /\ Cat(<<x>>, s)[1] = x /\ Tail(Cat(<<x>>, s)) = s
<1> DEFINE t == Cat(<<x>>, s)
           u == Tail(t)
           f == <<x>>
<1>0. t = Cat(f, s)
  OBVIOUS
<1>1. f \in Seq(S) /\ Len(f) = 1 /\ f[1] = x
  OBVIOUS
<1> HIDE DEF f
<1>2. t \in Seq(S) /\ Len(t) = 1 + Len(s) /\ \A i \in 1 .. 1 + Len(s) : t[i] = IF i <= 1 THEN f[i] ELSE s[i - 1]
  <2> HIDE DEF t
  <2>1. /\ t \in Seq(S) /\ Len(t) = Len(f) + Len(s)
        /\ \A i \in 1 .. Len(f) + Len(s) : t[i] = IF i <= Len(f) THEN f[i] ELSE s[i - Len(f)]
    BY <1>0, <1>1, CatAt
  <2> QED
    BY <1>1, <2>1
<1> HIDE DEF t
<1>3. Len(s) \in Nat
  BY LenProperties
<1>4. t # <<>> /\ t[1] = x
  <2>1. 1 \in 1 .. 1 + Len(s) /\ Len(t) # 0
    BY <1>2, <1>3
  <2> QED
    BY <1>1, <1>2, <2>1, EmptySeq
<1>5. u \in Seq(S) /\ Len(u) = Len(t) - 1 /\ \A i \in 1 .. Len(u) : u[i] = t[i + 1]
  BY <1>2, <1>4, HeadTailProperties
<1> HIDE DEF u
<1>6. Len(u) = Len(s)
  BY <1>2, <1>3, <1>5
<1>7. ASSUME NEW i \in 1 .. Len(u) PROVE u[i] = s[i]
  <2>1. i + 1 \in 1 .. 1 + Len(s) /\ ~(i + 1 <= 1) /\ (i + 1) - 1 = i
    BY <1>3, <1>6
  <2> QED
    BY <1>2, <1>5, <2>1
<1>8. u = s
  BY <1>5, <1>6, <1>7, SeqEqual
<1> QED
  BY <1>4, <1>8 DEF t, u, f

LEMMA HalvesOf ==
  ASSUME NEW S, NEW s \in Seq(S), NEW t \in Seq(S)
  PROVE  /\ SubSeq(Cat(s, t), 1, Len(s)) = s
         /\ SubSeq(Cat(s, t), Len(s) + 1, Len(s) + Len(t)) = t
<1> DEFINE m == Len(s)
           n == Len(t)
           b == Cat(s, t)
           u == SubSeq(b, 1, m)
           w == SubSeq(b, m + 1, m + n)
<1>1. m \in Nat /\ n \in Nat
  BY LenProperties
<1>2. b \in Seq(S) /\ Len(b) = m + n /\ \A i \in 1 .. m + n : b[i] = IF i <= m THEN s[i] ELSE t[i - m]
  BY CatAt
<1> HIDE DEF b
<1>3. \A i \in 1 .. m + n : b[i] \in S
  BY <1>2, ElementOfSeq
<1>4. u \in Seq(S) /\ Len(u) = m /\ \A i \in 1 .. m : u[i] = s[i]
  <2> HIDE DEF m, n
  <2>1. \A i \in 1 .. m : b[i] \in S
    BY <1>1, <1>3
  <2>2. /\ u \in Seq(S) /\ Len(u) = IF 1 <= m THEN m - 1 + 1 ELSE 0
        /\ \A i \in 1 .. m - 1 + 1 : u[i] = b[1 + i - 1]
    BY <1>1, <2>1, SubSeqProperties
  <2> HIDE DEF u
  <2>3. \A i \in 1 .. m : i \in 1 .. m - 1 + 1 /\ 1 + i - 1 = i /\ i \in 1 .. m + n /\ i <= m
    BY <1>1
  <2>4. Len(u) = m
    BY <1>1, <2>2
  <2> QED
    BY <1>2, <2>2, <2>3, <2>4
<1>5. w \in Seq(S) /\ Len(w) = n /\ \A i \in 1 .. n : w[i] = t[i]
  <2> HIDE DEF m, n
  <2>1. \A i \in m + 1 .. m + n : b[i] \in S
    BY <1>1, <1>3
  <2>0. m + 1 \in Int /\ m + n \in Int
    BY <1>1
  <2>2. /\ w \in Seq(S) /\ Len(w) = IF m + 1 <= m + n THEN (m + n) - (m + 1) + 1 ELSE 0
        /\ \A i \in 1 .. (m + n) - (m + 1) + 1 : w[i] = b[(m + 1) + i - 1]
    BY <2>0, <2>1, SubSeqProperties
  <2> HIDE DEF w
  <2>3. \A i \in 1 .. n : /\ i \in 1 .. (m + n) - (m + 1) + 1 /\ (m + 1) + i - 1 = m + i
                          /\ m + i \in 1 .. m + n /\ ~(m + i <= m) /\ (m + i) - m = i
    BY <1>1
  <2>4. Len(w) = n
    BY <1>1, <2>2
  <2> QED
    BY <1>2, <2>2, <2>3, <2>4
<1> HIDE DEF u, w
<1>6. u = s /\ w = t
  <2>1. Len(u) = Len(s) /\ Len(w) = Len(t)
    BY <1>4, <1>5
  <2>2. (\A i \in 1 .. Len(u) : u[i] = s[i]) /\ \A i \in 1 .. Len(w) : w[i] = t[i]
    BY <1>4, <1>5
  <2> QED
    BY <1>4, <1>5, <2>1, <2>2, SeqEqual
<1> QED
  BY <1>6 DEF u, w, b, m, n

\* Sequences one after the other, as a fold.
Joins(S) == [z \in Seq(S) \X Seq(S) |-> Cat(z[1], z[2])]

LEMMA JoinsType ==
  ASSUME NEW S
  PROVE  /\ Steps(Joins(S), Seq(S), Seq(S)) /\ <<>> \in Seq(S)
         /\ \A s, t \in Seq(S) : Joins(S)[<<s, t>>] = Cat(s, t)
<1>1. \A s, t \in Seq(S) : Cat(s, t) \in Seq(S)
  BY CatAt
<1>2. <<>> \in Seq(S)
  BY EmptySeq
<1> QED
  BY <1>1, <1>2 DEF Joins, Steps

LEMMA FlattenFolds ==
  ASSUME NEW S, NEW ss \in Seq(Seq(S)), NEW F, Folding(F, Joins(S), Seq(S), <<>>, ss)
  PROVE  FlattenSeq(ss) = F[Len(ss)]
<1> DEFINE n == Len(ss)
           Eq(h) == [i \in 1 .. n |-> IF i = 1 THEN ss[i] ELSE h[i - 1] \o ss[i]]
           v == CHOOSE h : h = Eq(h)
           E == [i \in 1 .. n |-> F[i]]
<1>1. n \in Nat /\ \A i \in 1 .. n : ss[i] \in Seq(S)
  BY LenProperties, ElementOfSeq
<1>2. CASE n = 0
  <2>1. ss = <<>>
    BY <1>2, EmptySeq
  <2>2. FlattenSeq(ss) = ss
    BY <1>2, Zenon DEF FlattenSeq
  <2>3. F[Len(<<>>)] = <<>>
    BY <2>1, FoldEmpty
  <2> QED
    BY <2>1, <2>2, <2>3
<1>3. CASE n # 0
  <2>1. FlattenSeq(ss) = v[n]
    BY <1>3, Zenon DEF FlattenSeq
  <2> HIDE DEF n
  <2>2. F \in [0 .. n -> Seq(S)] /\ F[0] = <<>> /\ \A i \in 1 .. n : F[i] = Joins(S)[<<F[i - 1], ss[i]>>]
    BY DEF Folding, n
  <2>3. \A i \in 1 .. n : i - 1 \in 0 .. n /\ i \in 0 .. n
    BY <1>1
  <2>4. \A i \in 1 .. n : F[i - 1] \in Seq(S) /\ ss[i] \in Seq(S)
    BY <1>1, <2>2, <2>3
  <2>5. ASSUME NEW i \in 1 .. n PROVE F[i] = F[i - 1] \o ss[i]
    <3>1. F[i] = Cat(F[i - 1], ss[i])
      BY <2>2, <2>4, JoinsType
    <3> QED
      BY <3>1, Zenon DEF Cat
  <2>6. \A i \in 1 .. n : F[i] = IF i = 1 THEN ss[i] ELSE F[i - 1] \o ss[i]
    <3> SUFFICES ASSUME NEW i \in 1 .. n, i = 1 PROVE F[i] = ss[i]
      BY <2>5
    <3>1. F[i - 1] = <<>>
      BY <2>2
    <3>2. <<>> \o ss[i] = ss[i]
      BY <1>1, ConcatEmptySeq
    <3> QED
      BY <2>5, <3>1, <3>2
  <2> DEFINE G(i) == IF i = 1 THEN ss[i] ELSE F[i - 1] \o ss[i]
  <2>7. E = Eq(E)
    <3>1. \A i \in 1 .. n : i # 1 => i - 1 \in 1 .. n
      BY <1>1
    <3>2. \A i \in 1 .. n : E[i] = IF i = 1 THEN ss[i] ELSE E[i - 1] \o ss[i]
      BY <2>6, <3>1
    <3> HIDE DEF E
    <3>3. E = [i \in 1 .. n |-> E[i]]
      BY DEF E
    <3> QED
      BY <3>2, <3>3, Zenon
  <2>8. v = Eq(v)
    BY <2>7, Zenon
  <2> HIDE DEF v
  <2> DEFINE K == {k \in Nat : k + 1 <= n => v[k + 1] = F[k + 1]}
  <2>9. \A i \in 1 .. n : v[i] = IF i = 1 THEN ss[i] ELSE v[i - 1] \o ss[i]
    BY <2>8, Zenon
  <2>10. 0 \in K
    BY <2>6, <2>9
  <2>11. ASSUME NEW k \in K PROVE k + 1 \in K
    <3> SUFFICES ASSUME (k + 1) + 1 <= n PROVE v[(k + 1) + 1] = F[(k + 1) + 1]
      BY <2>11
    <3>1. (k + 1) + 1 \in 1 .. n /\ (k + 1) + 1 # 1 /\ ((k + 1) + 1) - 1 = k + 1 /\ v[k + 1] = F[k + 1]
      BY <1>1, <2>11
    <3>2. v[(k + 1) + 1] = v[k + 1] \o ss[(k + 1) + 1]
      BY <2>9, <3>1
    <3>3. F[(k + 1) + 1] = F[k + 1] \o ss[(k + 1) + 1]
      BY <2>6, <3>1
    <3> QED
      BY <3>1, <3>2, <3>3, Zenon
  <2>12. K = Nat
    <3> HIDE DEF K
    <3>1. K \in SUBSET Nat
      BY DEF K
    <3> QED
      BY <2>10, <2>11, <3>1, Induction
  <2>13. n - 1 \in Nat /\ (n - 1) + 1 = n /\ (n - 1) + 1 <= n
    BY <1>1, <1>3 DEF n
  <2>14. v[n] = F[n]
    BY <2>12, <2>13
  <2> QED
    BY <2>1, <2>14 DEF n
<1> QED
  BY <1>2, <1>3

LEMMA FlattenType ==
  ASSUME NEW S, NEW ss \in Seq(Seq(S))
  PROVE  FlattenSeq(ss) \in Seq(S) /\ FlattenSeq(<<>>) = <<>>
<1>1. PICK F : Folding(F, Joins(S), Seq(S), <<>>, ss)
  BY JoinsType, FoldExists
<1>2. FlattenSeq(ss) = F[Len(ss)]
  BY <1>1, FlattenFolds
<1>3. Len(ss) \in 0 .. Len(ss)
  BY LenProperties
<1>4. FlattenSeq(<<>>) = <<>>
  <2>1. Len(<<>>) = 0
    BY EmptySeq
  <2> QED
    BY <2>1, Zenon DEF FlattenSeq
<1> QED
  BY <1>1, <1>2, <1>3, <1>4 DEF Folding

LEMMA FlattenAppend ==
  ASSUME NEW S, NEW ss \in Seq(Seq(S)), NEW s \in Seq(S)
  PROVE  FlattenSeq(Append(ss, s)) = Cat(FlattenSeq(ss), s)
<1> DEFINE tt == Append(ss, s)
<1>1. tt \in Seq(Seq(S)) /\ Extends(Seq(S), tt, ss, s)
  BY AppendProperties, AppendExtends
<1> HIDE DEF tt
<1>2. PICK F : Folding(F, Joins(S), Seq(S), <<>>, ss)
  BY JoinsType, FoldExists
<1>3. PICK H : Folding(H, Joins(S), Seq(S), <<>>, tt)
  BY <1>1, JoinsType, FoldExists
<1>4. FlattenSeq(ss) = F[Len(ss)] /\ FlattenSeq(tt) = H[Len(tt)]
  BY <1>1, <1>2, <1>3, FlattenFolds
<1>5. F[Len(ss)] \in Seq(S) /\ H[Len(tt)] = Joins(S)[<<F[Len(ss)], s>>]
  <2> DEFINE T == Seq(S)
             g == Joins(S)
             e == <<>>
  <2>1. Extends(T, tt, ss, s) /\ Folding(F, g, T, e, ss) /\ Folding(H, g, T, e, tt)
    BY <1>1, <1>2, <1>3
  <2> HIDE DEF T, g, e
  <2>2. F[Len(ss)] \in T /\ H[Len(tt)] = g[<<F[Len(ss)], s>>]
    BY <2>1, FoldAppend
  <2> QED
    BY <2>2 DEF T, g
<1> QED
  BY <1>4, <1>5, JoinsType DEF tt

\* The first sequence is in front of the others.
LEMMA FlattenFirst ==
  ASSUME NEW S, NEW s \in Seq(S), NEW ss \in Seq(Seq(S))
  PROVE  FlattenSeq(Cat(<<s>>, ss)) = Cat(s, FlattenSeq(ss))
<1> DEFINE f == <<s>>
           P == {tt \in Seq(Seq(S)) : FlattenSeq(Cat(f, tt)) = Cat(s, FlattenSeq(tt))}
<1>0. f \in Seq(Seq(S)) /\ <<>> \in Seq(Seq(S)) /\ <<>> \in Seq(S)
  BY EmptySeq
<1>1. <<>> \in P
  <2>1. f = Append(<<>>, s)
    OBVIOUS
  <2> HIDE DEF f
  <2>2. FlattenSeq(f) = Cat(FlattenSeq(<<>>), s) /\ FlattenSeq(<<>>) = <<>>
    BY <1>0, <2>1, FlattenAppend, FlattenType
  <2>3. Cat(<<>>, s) = s /\ Cat(s, <<>>) = s
    BY ConcatEmptySeq, Zenon DEF Cat
  <2>4. Cat(f, <<>>) = f
    BY <1>0, ConcatEmptySeq, Zenon DEF Cat
  <2> QED
    BY <1>0, <2>2, <2>3, <2>4
<1> HIDE DEF f
<1>2. ASSUME NEW tt \in P, NEW t \in Seq(S) PROVE Append(tt, t) \in P
  <2>1. tt \in Seq(Seq(S)) /\ FlattenSeq(Cat(f, tt)) = Cat(s, FlattenSeq(tt))
    BY <1>2
  <2>2. Cat(f, Append(tt, t)) = Append(Cat(f, tt), t) /\ Cat(f, tt) \in Seq(Seq(S)) /\ Append(tt, t) \in Seq(Seq(S))
    BY <1>0, <2>1, CatAppend, AppendProperties
  <2>3. FlattenSeq(Append(Cat(f, tt), t)) = Cat(FlattenSeq(Cat(f, tt)), t)
    BY <2>2, FlattenAppend
  <2>4. FlattenSeq(Append(tt, t)) = Cat(FlattenSeq(tt), t) /\ FlattenSeq(tt) \in Seq(S)
    BY <2>1, FlattenAppend, FlattenType
  <2>5. Cat(Cat(s, FlattenSeq(tt)), t) = Cat(s, Cat(FlattenSeq(tt), t))
    BY <2>4, CatAssociative
  <2> QED
    BY <2>1, <2>2, <2>3, <2>4, <2>5
<1>3. P = Seq(Seq(S))
  <2>1. P \in SUBSET Seq(Seq(S))
    OBVIOUS
  <2> HIDE DEF P
  <2> QED
    BY <1>1, <1>2, <2>1, SeqInduction
<1> QED
  BY <1>3 DEF f

\* None of them is empty.
LEMMA FlattenLength ==
  ASSUME NEW S, NEW ss \in Seq(Seq(S)), \A i \in 1 .. Len(ss) : Len(ss[i]) >= 1
  PROVE  Len(FlattenSeq(ss)) >= Len(ss)
<1> DEFINE Q(tt) == (\A i \in 1 .. Len(tt) : Len(tt[i]) >= 1) => Len(FlattenSeq(tt)) >= Len(tt)
           P == {tt \in Seq(Seq(S)) : Q(tt)}
<1>1. <<>> \in P
  BY EmptySeq, FlattenType
<1>2. ASSUME NEW tt \in P, NEW t \in Seq(S) PROVE Append(tt, t) \in P
  <2> DEFINE uu == Append(tt, t)
  <2>1. tt \in Seq(Seq(S)) /\ Q(tt)
    BY <1>2
  <2>2. /\ uu \in Seq(Seq(S)) /\ Len(uu) = Len(tt) + 1 /\ uu[Len(tt) + 1] = t
        /\ \A i \in 1 .. Len(tt) : uu[i] = tt[i]
    BY <2>1, AppendProperties
  <2>3. FlattenSeq(uu) = Cat(FlattenSeq(tt), t) /\ FlattenSeq(tt) \in Seq(S)
    BY <2>1, FlattenAppend, FlattenType
  <2> HIDE DEF uu
  <2>4. Len(FlattenSeq(uu)) = Len(FlattenSeq(tt)) + Len(t)
    BY <2>3, CatAt
  <2>5. Len(tt) \in Nat /\ Len(t) \in Nat /\ Len(FlattenSeq(tt)) \in Nat
    BY <2>1, <2>3, LenProperties
  <2>6. ASSUME \A i \in 1 .. Len(uu) : Len(uu[i]) >= 1 PROVE Len(FlattenSeq(uu)) >= Len(uu)
    <3>1. Len(t) >= 1
      BY <2>2, <2>5, <2>6
    <3>2. \A i \in 1 .. Len(tt) : Len(tt[i]) >= 1
      <4>1. \A i \in 1 .. Len(tt) : i \in 1 .. Len(uu)
        BY <2>2, <2>5
      <4> QED
        BY <2>2, <2>6, <4>1
    <3>3. Len(FlattenSeq(tt)) >= Len(tt)
      BY <2>1, <3>2
    <3> QED
      BY <2>2, <2>4, <2>5, <3>1, <3>3
  <2> QED
    BY <2>2, <2>6 DEF uu
<1>3. P = Seq(Seq(S))
  <2>1. P \in SUBSET Seq(Seq(S))
    OBVIOUS
  <2> HIDE DEF P
  <2> QED
    BY <1>1, <1>2, <2>1, SeqInduction
<1> QED
  BY <1>3

-----------------------------------------------------------------------------
(***************************************************************************)
(* The codec: fields.                                                      *)
(***************************************************************************)
\* A side reads the field with the tag and the contents c, at most 127 bytes, as f.
Item(side, tag, c, f) ==
  /\ tag \in Known(side) /\ tag \in Byte /\ c \in Seq(Byte) /\ Len(c) <= 127
  /\ f = Field(tag, Value(side, tag, c))
  /\ side = "host" => (tag \in {BOOL, INT} => Len(c) <= 8) /\ (tag = BOOL => Len(c) > 0 /\ c[1] \in {0, 255})
Packs(side, s, f) == \E tag, c : Item(side, tag, c, f) /\ s = Pack(tag, c)

LEMMA PacksType ==
  ASSUME NEW side, NEW s, NEW f, Packs(side, s, f)
  PROVE  s \in Seq(Byte) /\ Len(s) >= 1
<1>1. PICK tag, c : Item(side, tag, c, f) /\ s = Pack(tag, c)
  BY DEF Packs
<1>2. tag \in Byte /\ c \in Seq(Byte)
  BY <1>1 DEF Item
<1>3. s \in Seq(Byte) /\ Len(s) >= 2 + Len(c)
  BY <1>1, <1>2, PackType
<1>4. Len(s) \in Nat /\ Len(c) \in Nat
  BY <1>2, <1>3, LenProperties
<1> QED
  BY <1>3, <1>4

\* The length and what follows it.
LEMMA LengthRead ==
  ASSUME NEW side, NEW n \in 0 .. 127, NEW e \in Seq(Byte)
  PROVE  unpack_length(side, Cat(<<n>>, e)) = [n |-> n, rest |-> e, ok |-> TRUE]
<1> DEFINE d == Cat(<<n>>, e)
<1>1. n \in Byte /\ n < 128
  BY DEF Byte
<1>2. d # <<>> /\ d[1] = n /\ Tail(d) = e
  BY <1>1, FrontOf
<1> HIDE DEF d
<1>3. d # <<>> /\ d[1] < 128
  BY <1>1, <1>2
<1>4. unpack_length(side, d) = [n |-> d[1], rest |-> Tail(d), ok |-> TRUE]
  BY <1>3, Zenon DEF unpack_length
<1> QED
  BY <1>2, <1>4 DEF d

\* A field is read off the front of what is left.
Left(r, fs) == [rest |-> r, fields |-> fs]
LEMMA Peel ==
  ASSUME NEW side, NEW s, NEW f, Packs(side, s, f), NEW r \in Seq(Byte), NEW fs
  PROVE  unpack_field(side, Left(Cat(s, r), fs)) = Left(r, Append(fs, f))
<1>1. PICK tag, c : Item(side, tag, c, f) /\ s = Pack(tag, c)
  BY DEF Packs
<1> DEFINE n == Len(c)
           e == Cat(c, r)
           t == <<tag>>
           m == <<n>>
           d == Cat(m, e)
           b == Cat(t, d)
           u == [rest |-> b, fields |-> fs]
           l == [n |-> n, rest |-> e, ok |-> TRUE]
<1>2. tag \in Known(side) /\ tag \in Byte /\ c \in Seq(Byte) /\ n <= 127 /\ f = Field(tag, Value(side, tag, c))
  BY <1>1 DEF Item
<1>3. n \in Nat /\ n \in 0 .. 127
  <2>1. n \in Nat
    BY <1>2, LenProperties
  <2>2. \A x \in Nat : x <= 127 => x \in 0 .. 127
    OBVIOUS
  <2> QED
    BY <1>2, <2>1, <2>2, Zenon
<1>4. Pack(tag, c) = Cat(t, Cat(m, c)) /\ m \in Seq(Byte) /\ t \in Seq(Byte)
  BY <1>2, PackShort
<1>5. /\ e \in Seq(Byte) /\ Len(e) = n + Len(r) /\ Len(r) \in Nat
      /\ \A i \in 1 .. n + Len(r) : e[i] = IF i <= n THEN c[i] ELSE r[i - n]
  BY <1>2, CatAt, LenProperties
<1>6. Cat(s, r) = b
  <2> HIDE DEF t, m
  <2>1. Cat(m, c) \in Seq(Byte)
    BY <1>2, <1>4, CatAt
  <2>2. Cat(Cat(t, Cat(m, c)), r) = Cat(t, Cat(Cat(m, c), r))
    BY <1>4, <2>1, CatAssociative
  <2>3. Cat(Cat(m, c), r) = Cat(m, Cat(c, r))
    BY <1>2, <1>4, CatAssociative
  <2> QED
    BY <1>1, <1>4, <2>2, <2>3, Zenon
<1>7. d \in Seq(Byte)
  <2> HIDE DEF m, e
  <2> QED
    BY <1>4, <1>5, CatAt
<1>8. b # <<>> /\ b[1] = tag /\ Tail(b) = d
  <2> HIDE DEF d
  <2> QED
    BY <1>2, <1>7, FrontOf
<1>9. unpack_length(side, d) = l
  <2> HIDE DEF e, n
  <2> QED
    BY <1>3, <1>5, LengthRead, Zenon
<1>10. SubSeq(e, 1, n) = c /\ SubSeq(e, n + 1, n + Len(r)) = r
  BY <1>2, HalvesOf
<1>11. Min({n, Len(e)}) = n
  <2> HIDE DEF e, n
  <2>1. Len(e) \in Nat /\ n <= Len(e)
    BY <1>3, <1>5
  <2> QED
    BY <1>3, <2>1, MinOfTwo
<1>12. Contents(l) = c
  BY <1>10, <1>11, Zenon DEF Contents
<1>13. SubSeq(l.rest, l.n + 1, Len(l.rest)) = r
  BY <1>5, <1>10, Zenon
<1>14. ~Refused(side, tag, l)
  <2> SUFFICES ASSUME side = "host" PROVE ~Refused(side, tag, l)
    BY DEF Refused
  <2>1. (tag \in {BOOL, INT} => n <= 8) /\ (tag = BOOL => n > 0 /\ c[1] \in {0, 255})
    BY <1>1 DEF Item
  <2> HIDE DEF e, n
  <2>2. tag \in {BOOL, INT} => ~(n > 8)
    BY <1>3, <2>1
  <2>3. ~(n > Len(e))
    BY <1>3, <1>5
  <2>4. ASSUME tag = BOOL PROVE ~(n = 0 \/ e[1] \notin {0, 255})
    <3>1. 1 \in 1 .. n + Len(r) /\ 1 <= n /\ n # 0
      BY <1>3, <1>5, <2>1, <2>4
    <3> QED
      BY <1>5, <2>1, <2>4, <3>1
  <2>5. l.ok = TRUE /\ l.n = n /\ l.rest = e
    OBVIOUS
  <2> HIDE DEF l
  <2> QED
    BY <2>2, <2>3, <2>4, <2>5, Zenon DEF Refused
<1> HIDE DEF l, d, b
<1>15. unpack_field(side, u) = [rest |-> r, fields |-> Append(fs, Field(tag, Value(side, tag, c)))]
  <2>1. u.rest = b /\ u.fields = fs
    OBVIOUS
  <2> HIDE DEF u
  <2>2. u.rest # <<>> /\ ~(u.rest[1] \notin Known(side) \/ Refused(side, u.rest[1], unpack_length(side, Tail(u.rest))))
    BY <1>2, <1>8, <1>9, <1>14, <2>1, Zenon
  <2>3. unpack_field(side, u) =
          [rest   |-> SubSeq(unpack_length(side, Tail(u.rest)).rest, unpack_length(side, Tail(u.rest)).n + 1,
                             Len(unpack_length(side, Tail(u.rest)).rest)),
           fields |-> Append(u.fields, Field(u.rest[1], Value(side, u.rest[1], Contents(unpack_length(side, Tail(u.rest))))))]
    BY <2>2, Zenon DEF unpack_field
  <2> QED
    BY <1>8, <1>9, <1>12, <1>13, <2>1, <2>3, Zenon
<1> QED
  BY <1>2, <1>6, <1>15, Zenon DEF Left

\* The fields are read one by one, from b.
Reading(side, b, U, X) ==
  /\ U \in [0 .. Limit(side, b) -> X] /\ U[0] = [rest |-> b, fields |-> <<>>]
  /\ \A i \in 1 .. Limit(side, b) : U[i] = unpack_field(side, U[i - 1])

LEMMA UnpackingIs ==
  ASSUME NEW side, NEW b, NEW U, NEW X, Reading(side, b, U, X), Limit(side, b) \in Nat
  PROVE  unpack(side, b) = U[Limit(side, b)].fields
<1> DEFINE n == Limit(side, b)
           Eq(h) == [i \in 0 .. n |-> IF i = 0 THEN [rest |-> b, fields |-> <<>>]
                                      ELSE CHOOSE z \in {unpack_field(side, y) : y \in {h[i - 1]}} : TRUE]
           v == CHOOSE h : h = Eq(h)
<1>1. unpack(side, b) = v[n].fields
  BY Zenon DEF unpack, Unpacking
<1>2. /\ U \in [0 .. n -> X] /\ U[0] = [rest |-> b, fields |-> <<>>]
      /\ \A i \in 1 .. n : U[i] = unpack_field(side, U[i - 1])
  BY Zenon DEF Reading
<1>3. \A x : (CHOOSE z \in {unpack_field(side, y) : y \in {x}} : TRUE) = unpack_field(side, x)
  OBVIOUS
<1>0. n \in Nat
  OBVIOUS
<1> HIDE DEF n
<1>4. U = Eq(U)
  <2>1. \A i \in 0 .. n : i = 0 \/ i \in 1 .. n
    BY <1>0
  <2>2. \A i \in 0 .. n : U[i] = IF i = 0 THEN [rest |-> b, fields |-> <<>>]
                                 ELSE CHOOSE z \in {unpack_field(side, y) : y \in {U[i - 1]}} : TRUE
    BY <1>2, <1>3, <2>1, Zenon
  <2>3. U = [i \in 0 .. n |-> U[i]]
    BY <1>2
  <2> QED
    BY <2>2, <2>3, Zenon
<1>5. v = Eq(v)
  BY <1>4, Zenon
<1> HIDE DEF v
<1>6. Agrees(n, X, U, v)
  <2>1. v = [i \in 0 .. n |-> v[i]]
    BY <1>5, Zenon
  <2>2. 0 \in 0 .. n /\ \A i \in 1 .. n : i \in 0 .. n /\ i # 0
    BY <1>0
  <2>3. v[0] = [rest |-> b, fields |-> <<>>]
    BY <1>5, <2>2, Zenon
  <2>4. ASSUME NEW i \in 1 .. n, v[i - 1] = U[i - 1] PROVE v[i] = U[i]
    <3>1. v[i] = CHOOSE z \in {unpack_field(side, y) : y \in {v[i - 1]}} : TRUE
      BY <1>5, <2>2, Zenon
    <3> QED
      BY <1>2, <1>3, <2>4, <3>1, Zenon
  <2> QED
    BY <1>0, <1>2, <2>1, <2>3, <2>4, Zenon DEF Agrees
<1>7. v = U
  BY <1>6, Agreeing
<1> QED
  BY <1>1, <1>7, Zenon DEF n

\* Fields that are packed one after the other are read as they were.
LEMMA FieldsUnpacked ==
  ASSUME NEW side \in Sides, NEW ss \in Seq(Seq(Byte)), NEW X, NEW fs \in Seq(X), Len(fs) = Len(ss), Len(ss) <= 15,
         \A i \in 1 .. Len(ss) : Packs(side, ss[i], fs[i])
  PROVE  unpack(side, FlattenSeq(ss)) = fs
<1> DEFINE n == Len(ss)
           b == FlattenSeq(ss)
           N == Limit(side, b)
           R == [i \in 0 .. n |-> FlattenSeq(SubSeq(ss, i + 1, n))]
           G == [i \in 0 .. n |-> SubSeq(fs, 1, i)]
           U == [i \in 0 .. N |-> IF i <= n THEN [rest |-> R[i], fields |-> G[i]]
                                  ELSE [rest |-> <<>>, fields |-> fs]]
           Y == {U[i] : i \in 0 .. N}
<1>1. /\ n \in Nat /\ b \in Seq(Byte)
      /\ \A i \in 1 .. n : ss[i] \in Seq(Byte) /\ Len(ss[i]) >= 1
      /\ \A i \in 1 .. n : fs[i] \in X
  <2>1. n \in Nat /\ b \in Seq(Byte)
    BY LenProperties, FlattenType
  <2>2. \A i \in 1 .. n : ss[i] \in Seq(Byte) /\ Len(ss[i]) >= 1
    BY PacksType
  <2>3. \A i \in 1 .. n : fs[i] \in X
    BY ElementOfSeq
  <2> QED
    BY <2>1, <2>2, <2>3
<1>2. N \in Nat /\ n <= N
  <2>1. Len(b) >= n
    BY <1>1, FlattenLength
  <2>2. Len(b) \in Nat
    BY <1>1, LenProperties
  <2> HIDE DEF b
  <2>3. N = IF side = "device" THEN 15 ELSE Len(b)
    BY DEF Limit, MAX_FIELDS
  <2> HIDE DEF N
  <2> QED
    BY <1>1, <2>1, <2>2, <2>3
<1>3. \A i \in 0 .. n : SubSeq(ss, i + 1, n) \in Seq(Seq(Byte))
  <2> HIDE DEF n
  <2> SUFFICES ASSUME NEW i \in 0 .. n PROVE SubSeq(ss, i + 1, n) \in Seq(Seq(Byte))
    OBVIOUS
  <2>1. i + 1 \in Int /\ n \in Int /\ \A j \in i + 1 .. n : ss[j] \in Seq(Byte)
    BY <1>1
  <2> QED
    BY <2>1, SubSeqProperties
<1>4. \A i \in 0 .. n : R[i] \in Seq(Byte)
  <2>1. \A i \in 0 .. n : FlattenSeq(SubSeq(ss, i + 1, n)) \in Seq(Byte)
    BY <1>3, FlattenType
  <2> QED
    BY <2>1
<1>5. ASSUME NEW i \in 1 .. n PROVE R[i - 1] = Cat(ss[i], R[i])
  <2>1. i \in 1 .. Len(ss) /\ n \in i .. Len(ss) /\ i - 1 \in 0 .. n /\ i \in 0 .. n /\ (i - 1) + 1 = i
    BY <1>1
  <2>2. SubSeq(ss, i, n) = <<ss[i]>> \o SubSeq(ss, i + 1, n)
    BY <2>1, SubSeqRecursiveFirst
  <2>3. FlattenSeq(Cat(<<ss[i]>>, SubSeq(ss, i + 1, n))) = Cat(ss[i], FlattenSeq(SubSeq(ss, i + 1, n)))
    BY <1>1, <1>3, <2>1, FlattenFirst
  <2>4. R[i - 1] = FlattenSeq(SubSeq(ss, i, n)) /\ R[i] = FlattenSeq(SubSeq(ss, i + 1, n))
    BY <2>1, Zenon
  <2> QED
    BY <2>2, <2>3, <2>4, Zenon DEF Cat
<1>6. R[0] = b /\ R[n] = <<>>
  <2>1. 0 \in 0 .. n /\ n \in 0 .. n /\ 0 + 1 = 1 /\ n < n + 1 /\ n + 1 \in Int /\ n \in Int
    BY <1>1
  <2>2. R[0] = FlattenSeq(SubSeq(ss, 1, n)) /\ R[n] = FlattenSeq(SubSeq(ss, n + 1, n))
    BY <2>1, Zenon
  <2>3. SubSeq(ss, 1, n) = ss
    BY SubSeqFull
  <2>4. SubSeq(ss, n + 1, n) = <<>>
    BY <2>1, SubSeqEmpty
  <2>5. FlattenSeq(<<>>) = <<>>
    BY FlattenType
  <2> QED
    BY <2>2, <2>3, <2>4, <2>5, Zenon
<1>7. G[0] = <<>> /\ G[n] = fs /\ \A i \in 1 .. n : G[i] = Append(G[i - 1], fs[i])
  <2>1. 0 \in 0 .. n /\ n \in 0 .. n /\ 0 < 1 /\ 0 \in Int /\ 1 \in Int
    BY <1>1
  <2>2. G[0] = SubSeq(fs, 1, 0) /\ G[n] = SubSeq(fs, 1, n)
    BY <2>1, Zenon
  <2>3. SubSeq(fs, 1, n) = fs
    BY SubSeqFull
  <2>4. SubSeq(fs, 1, 0) = <<>>
    BY <2>1, SubSeqEmpty
  <2>5. ASSUME NEW i \in 1 .. n PROVE G[i] = Append(G[i - 1], fs[i])
    <3>1. 1 \in 1 .. Len(fs) /\ i \in 1 .. Len(fs) /\ i - 1 \in 0 .. n /\ i \in 0 .. n
      BY <1>1
    <3>2. SubSeq(fs, 1, i) = SubSeq(fs, 1, i - 1) \o <<fs[i]>>
      BY <3>1, SubSeqRecursiveSecond
    <3>3. SubSeq(fs, 1, i - 1) \in Seq(X)
      <4>1. i - 1 \in Int /\ 1 \in Int /\ \A j \in 1 .. i - 1 : fs[j] \in X
        BY <1>1
      <4> QED
        BY <4>1, SubSeqProperties
    <3>4. Append(SubSeq(fs, 1, i - 1), fs[i]) = SubSeq(fs, 1, i - 1) \o <<fs[i]>>
      BY <1>1, <3>3, AppendIsConcat
    <3>5. G[i] = SubSeq(fs, 1, i) /\ G[i - 1] = SubSeq(fs, 1, i - 1)
      BY <3>1, Zenon
    <3> QED
      BY <3>2, <3>4, <3>5, Zenon
  <2> QED
    BY <2>2, <2>3, <2>4, <2>5
<1>8. \A i \in 1 .. n : Packs(side, ss[i], fs[i])
  OBVIOUS
<1> HIDE DEF R, G, n, N, b
<1>9. U[0] = [rest |-> b, fields |-> <<>>]
  BY <1>1, <1>2, <1>6, <1>7
<1>10. ASSUME NEW i \in 1 .. N PROVE U[i] = unpack_field(side, U[i - 1])
  <2>0. i \in 0 .. N /\ i - 1 \in 0 .. N
    BY <1>2
  <2>1. CASE i <= n
    <3>1. i \in 1 .. n /\ i \in 0 .. n /\ i - 1 <= n
      BY <1>1, <2>1
    <3>2. U[i] = [rest |-> R[i], fields |-> G[i]] /\ U[i - 1] = [rest |-> R[i - 1], fields |-> G[i - 1]]
      BY <2>0, <2>1, <3>1, Zenon
    <3>3. R[i - 1] = Cat(ss[i], R[i]) /\ G[i] = Append(G[i - 1], fs[i]) /\ R[i] \in Seq(Byte)
      BY <1>4, <1>5, <1>7, <3>1
    <3>4. unpack_field(side, [rest |-> Cat(ss[i], R[i]), fields |-> G[i - 1]])
            = [rest |-> R[i], fields |-> Append(G[i - 1], fs[i])]
      <4>1. Packs(side, ss[i], fs[i]) /\ R[i] \in Seq(Byte)
        BY <1>8, <3>1, <3>3, Zenon
      <4> HIDE DEF U, Y
      <4> DEFINE s == ss[i]
                 f == fs[i]
                 r == R[i]
                 g == G[i - 1]
      <4>2. Packs(side, s, f) /\ r \in Seq(Byte)
        BY <4>1
      <4> HIDE DEF s, f, r, g
      <4>3. unpack_field(side, Left(Cat(s, r), g)) = Left(r, Append(g, f))
        BY <4>2, Peel
      <4> QED
        BY <4>3, Zenon DEF s, f, r, g, Left
    <3> QED
      BY <3>2, <3>3, <3>4, Zenon
  <2>2. CASE ~(i <= n)
    <3>1. U[i] = [rest |-> <<>>, fields |-> fs]
      BY <2>0, <2>2, Zenon
    <3>2. U[i - 1] = [rest |-> <<>>, fields |-> fs]
      <4>1. CASE i - 1 <= n
        <5>1. i - 1 = n
          BY <1>1, <2>2, <4>1
        <5> QED
          BY <1>6, <1>7, <2>0, <4>1, <5>1, Zenon
      <4>2. CASE ~(i - 1 <= n)
        BY <2>0, <4>2, Zenon
      <4> QED
        BY <4>1, <4>2
    <3> DEFINE u == [rest |-> <<>>, fields |-> fs]
    <3>3. u.rest = <<>>
      OBVIOUS
    <3> HIDE DEF u
    <3>4. unpack_field(side, u) = u
      BY <3>3, Zenon DEF unpack_field
    <3> QED
      BY <3>1, <3>2, <3>4, Zenon DEF u
  <2> QED
    BY <2>1, <2>2
<1>11. U[N].fields = fs
  <2>0. N \in 0 .. N
    BY <1>2
  <2>1. CASE N = n
    <3>1. N <= n
      BY <1>1, <2>1
    <3>2. U[N] = [rest |-> R[N], fields |-> G[N]]
      BY <2>0, <3>1, Zenon
    <3>3. U[N].fields = G[N]
      <4> HIDE DEF U
      <4> QED
        BY <3>2
    <3> QED
      BY <1>7, <2>1, <3>3, Zenon
  <2>2. CASE N # n
    <3>1. ~(N <= n)
      BY <1>1, <1>2, <2>2
    <3>2. U[N] = [rest |-> <<>>, fields |-> fs]
      BY <2>0, <3>1, Zenon
    <3> HIDE DEF U
    <3> QED
      BY <3>2
  <2> QED
    BY <2>1, <2>2
<1>12. U \in [0 .. N -> Y]
  <2>1. \A i \in 0 .. N : U[i] \in Y
    OBVIOUS
  <2>2. U = [i \in 0 .. N |-> U[i]]
    BY Zenon
  <2> HIDE DEF Y, U
  <2> QED
    BY <2>1, <2>2
<1> HIDE DEF U, Y
<1>13. Reading(side, b, U, Y)
  BY <1>9, <1>10, <1>12, Zenon DEF Reading, N
<1> QED
  BY <1>2, <1>11, <1>13, UnpackingIs, Zenon DEF N, b

-----------------------------------------------------------------------------
(***************************************************************************)
(* The codec: OIDs.                                                        *)
(***************************************************************************)
\* The number begun and the numbers before it, byte by byte.
Begun(n, oid) == [n |-> n, oid |-> oid]
Partial == [n : Nat, oid : Seq(Nat)]
SubSteps == [z \in Partial \X Byte |-> Sub(z[1], z[2])]

LEMMA SubIs ==
  ASSUME NEW n \in Nat, NEW w \in Seq(Nat), NEW b \in Byte
  PROVE  /\ Begun(n, w) \in Partial
         /\ Sub(Begun(n, w), b) = IF b < 128 THEN Begun(0, Append(w, 128 * n + (b % 128)))
                                  ELSE Begun(128 * n + (b % 128), w)
         /\ Sub(Begun(n, w), b) \in Partial
<1> DEFINE m == 128 * n + (b % 128)
           o == Begun(n, w)
<1>1. m \in Nat
  BY DEF Byte
<1>2. o \in Partial /\ o.n = n /\ o.oid = w
  BY DEF Begun, Partial
<1>3. Append(w, m) \in Seq(Nat)
  BY <1>1, AppendProperties
<1>4. [o EXCEPT !.n = m] = Begun(m, w)
  <2> HIDE DEF m
  <2> QED
    BY DEF Begun
<1>5. Sub(o, b) = IF b < 128 THEN Begun(0, Append(w, m)) ELSE Begun(m, w)
  <2>1. 128 * o.n + (b % 128) = m
    BY <1>2
  <2> HIDE DEF m, o
  <2> QED
    BY <1>2, <1>4, <2>1, Zenon DEF Sub, Begun
<1> HIDE DEF m, o
<1>6. Begun(0, Append(w, m)) \in Partial /\ Begun(m, w) \in Partial
  BY <1>1, <1>3 DEF Begun, Partial
<1> QED
  BY <1>2, <1>5, <1>6, Zenon DEF m, o

LEMMA SubStepsType ==
  /\ Steps(SubSteps, Byte, Partial)
  /\ \A x \in Partial, b \in Byte : SubSteps[<<x, b>>] = Sub(x, b)
<1>1. ASSUME NEW x \in Partial, NEW b \in Byte PROVE Sub(x, b) \in Partial
  <2>1. x = Begun(x.n, x.oid) /\ x.n \in Nat /\ x.oid \in Seq(Nat)
    BY DEF Partial, Begun
  <2>2. Sub(Begun(x.n, x.oid), b) \in Partial
    BY <2>1, SubIs
  <2> QED
    BY <2>1, <2>2
<1> QED
  BY <1>1 DEF SubSteps, Steps

LEMMA SubsFolds ==
  ASSUME NEW w, NEW c \in Seq(Byte), NEW F, Folding(F, SubSteps, Partial, Begun(0, w), c)
  PROVE  Subs(w, c) = F
<1> DEFINE n == Len(c)
           x0 == [n |-> 0, oid |-> w]
           Eq(h) == [i \in 0 .. n |-> IF i = 0 THEN x0
                                      ELSE CHOOSE z \in {Sub(y, c[i]) : y \in {h[i - 1]}} : TRUE]
           v == CHOOSE h : h = Eq(h)
<1>1. Subs(w, c) = v
  BY Zenon DEF Subs
<1>0. n \in Nat /\ \A i \in 1 .. n : c[i] \in Byte
  BY LenProperties, ElementOfSeq
<1> HIDE DEF n, x0
<1>2. F \in [0 .. n -> Partial] /\ F[0] = x0 /\ \A i \in 1 .. n : F[i] = SubSteps[<<F[i - 1], c[i]>>]
  BY DEF Folding, n, x0, Begun
<1>3. \A x, b : (CHOOSE z \in {Sub(y, b) : y \in {x}} : TRUE) = Sub(x, b)
  OBVIOUS
<1>4. \A i \in 1 .. n : F[i] = Sub(F[i - 1], c[i])
  <2>1. \A i \in 1 .. n : i - 1 \in 0 .. n
    BY <1>0
  <2> QED
    BY <1>0, <1>2, <2>1, SubStepsType
<1>5. F = Eq(F)
  <2>1. \A i \in 0 .. n : i = 0 \/ i \in 1 .. n
    BY <1>0
  <2>2. \A i \in 0 .. n : F[i] = IF i = 0 THEN x0 ELSE CHOOSE z \in {Sub(y, c[i]) : y \in {F[i - 1]}} : TRUE
    BY <1>2, <1>3, <1>4, <2>1, Zenon
  <2>3. F = [i \in 0 .. n |-> F[i]]
    BY <1>2
  <2> QED
    BY <2>2, <2>3, Zenon
<1>6. v = Eq(v)
  BY <1>5, Zenon
<1> HIDE DEF v
<1>7. Agrees(n, Partial, F, v)
  <2>1. v = [i \in 0 .. n |-> v[i]]
    BY <1>6, Zenon
  <2>2. 0 \in 0 .. n /\ \A i \in 1 .. n : i \in 0 .. n /\ i # 0
    BY <1>0
  <2>3. v[0] = x0
    BY <1>6, <2>2, Zenon
  <2>4. ASSUME NEW i \in 1 .. n, v[i - 1] = F[i - 1] PROVE v[i] = F[i]
    <3>1. v[i] = CHOOSE z \in {Sub(y, c[i]) : y \in {v[i - 1]}} : TRUE
      BY <1>6, <2>2, Zenon
    <3> QED
      BY <1>3, <1>4, <2>4, <3>1, Zenon
  <2> QED
    BY <1>0, <1>2, <2>1, <2>3, <2>4, Zenon DEF Agrees
<1>8. v = F
  BY <1>7, Agreeing
<1> QED
  BY <1>1, <1>8

\* A sequence that begins with another is folded like it, and then goes on.
LEMMA FoldCat ==
  ASSUME NEW S, NEW t \in Seq(S), NEW u \in Seq(S), NEW X, NEW x0, NEW g, NEW F, NEW H,
         Folding(F, g, X, x0, t), Folding(H, g, X, x0, Cat(t, u))
  PROVE  /\ H[Len(t)] = F[Len(t)] /\ Len(Cat(t, u)) = Len(t) + Len(u)
         /\ \A j \in 1 .. Len(u) : H[Len(t) + j] = g[<<H[Len(t) + (j - 1)], u[j]>>]
<1> DEFINE s == Cat(t, u)
           m == Len(t)
           n == Len(u)
<1>1. m \in Nat /\ n \in Nat
  BY LenProperties
<1>2. s \in Seq(S) /\ Len(s) = m + n /\ \A i \in 1 .. m + n : s[i] = IF i <= m THEN t[i] ELSE u[i - m]
  BY CatAt
<1>3. Folding(H, g, X, x0, s)
  OBVIOUS
<1> HIDE DEF s
<1>4. H[m] = F[m]
  <2>1. m <= Len(t) /\ m <= Len(s) /\ \A i \in 1 .. m : t[i] = s[i]
    <3> HIDE DEF n
    <3>1. \A i \in 1 .. m : i \in 1 .. m + n /\ i <= m
      BY <1>1
    <3> QED
      BY <1>1, <1>2, <3>1
  <2>0. Folding(F, g, X, x0, t) /\ m \in Nat /\ s \in Seq(S)
    BY <1>1, <1>2
  <2> HIDE DEF m, n
  <2>2. F[m] = H[m]
    BY <1>3, <2>0, <2>1, FoldSame
  <2> QED
    BY <2>2
<1>5. ASSUME NEW j \in 1 .. n PROVE H[m + j] = g[<<H[m + (j - 1)], u[j]>>]
  <2> HIDE DEF m, n
  <2>1. m + j \in 1 .. m + n /\ ~(m + j <= m) /\ (m + j) - m = j /\ (m + j) - 1 = m + (j - 1)
    BY <1>1
  <2>2. \A i \in 1 .. m + n : H[i] = g[<<H[i - 1], s[i]>>]
    BY <1>2, <1>3 DEF Folding
  <2> QED
    BY <1>2, <2>1, <2>2
<1> QED
  BY <1>2, <1>4, <1>5 DEF s, m, n

\* Nothing is left of a number of 32 bits after its digits.
LEMMA VarintEnd ==
  ASSUME NEW n \in Word, NEW q, NEW k, VarintOf(q, k, n)
  PROVE  q[k - 1] < 128 /\ q[k] = 0
<1>0. Quotes(q, n, 128, 5) /\ k \in 1 .. 5 /\ q \in [0 .. 5 -> Nat] /\ (k = 5 \/ q[k - 1] < 128)
  BY DEF VarintOf
<1>1. q[0] = n
  BY <1>0 DEF Quotes
<1>21. q[1] = q[0] \div 128
  BY <1>0 DEF Quotes
<1>22. q[2] = q[1] \div 128
  BY <1>0 DEF Quotes
<1>23. q[3] = q[2] \div 128
  BY <1>0 DEF Quotes
<1>24. q[4] = q[3] \div 128
  BY <1>0 DEF Quotes
<1>3. \A i \in 0 .. 5 : q[i] \in Nat
  BY <1>0
<1>4. q[0] < 65536 * 65536
  BY <1>1 DEF Word
<1>5. q[1] < 33554432
  <2>1. \A x \in Nat : x < 65536 * 65536 => x \div 128 < 33554432
    OBVIOUS
  <2> QED
    BY <1>3, <1>4, <1>21, <2>1
<1>6. q[2] < 262144
  <2>1. \A x \in Nat : x < 33554432 => x \div 128 < 262144
    OBVIOUS
  <2> QED
    BY <1>3, <1>5, <1>22, <2>1
<1>7. q[3] < 2048
  <2>1. \A x \in Nat : x < 262144 => x \div 128 < 2048
    OBVIOUS
  <2> QED
    BY <1>3, <1>6, <1>23, <2>1
<1>8. q[4] < 16
  <2>1. \A x \in Nat : x < 2048 => x \div 128 < 16
    OBVIOUS
  <2> QED
    BY <1>3, <1>7, <1>24, <2>1
<1>9. q[k - 1] < 128
  <2>1. CASE k = 5
    <3>1. k - 1 = 4 /\ q[4] \in Nat
      BY <1>3, <2>1
    <3> QED
      BY <1>8, <3>1
  <2> QED
    BY <1>0, <2>1
<1>10. q[k] = 0
  <2>1. k \in 1 .. 5 /\ k - 1 \in 0 .. 5
    BY <1>0
  <2>2. q[k] = q[k - 1] \div 128 /\ q[k - 1] \in Nat
    BY <1>0, <2>1 DEF Quotes
  <2>3. \A x \in Nat : x < 128 => x \div 128 = 0
    OBVIOUS
  <2> QED
    BY <1>9, <2>2, <2>3
<1> QED
  BY <1>9, <1>10

\* A varint adds its number.
LEMMA SubsVarint ==
  ASSUME NEW v \in Word, NEW w \in Seq(Nat), NEW x0, NEW t \in Seq(Byte), NEW F, NEW H,
         Folding(F, SubSteps, Partial, x0, t), F[Len(t)] = Begun(0, w),
         Folding(H, SubSteps, Partial, x0, Cat(t, pack_varint(v)))
  PROVE  H[Len(Cat(t, pack_varint(v)))] = Begun(0, Append(w, v))
<1> DEFINE u == pack_varint(v)
           m == Len(t)
<1>0. v \in Nat
  BY DEF Word
<1>1. PICK k, q : VarintOf(q, k, v) /\ u = Marked(q, k)
  BY <1>0, VarintIs
<1>2. u \in Seq(Byte)
  BY <1>0, VarintType
<1>3. k \in 1 .. 5 /\ q \in [0 .. 5 -> Nat] /\ Quotes(q, v, 128, 5) /\ q[0] = v
  BY <1>1 DEF VarintOf, Quotes
<1>4. q[k - 1] < 128 /\ q[k] = 0
  BY <1>1, VarintEnd
<1>5. Len(u) = k /\ \A j \in 1 .. k : u[j] = (q[k - j] % 128) + IF j < k THEN 128 ELSE 0
  <2>1. Marked(q, k) = [i \in 1 .. k |-> (q[k - i] % 128) + IF i < k THEN 128 ELSE 0]
    BY Zenon DEF Marked
  <2>2. DOMAIN u = 1 .. Len(u) /\ Len(u) \in Nat
    BY <1>2, LenProperties
  <2>3. DOMAIN u = 1 .. k
    BY <1>1, <2>1
  <2>4. Len(u) = k
    <3> DEFINE l == Len(u)
    <3>1. l \in Nat /\ 1 .. l = 1 .. k
      BY <2>2, <2>3
    <3> HIDE DEF l
    <3>2. k \in 1 .. l /\ (l > k => l \in 1 .. k)
      BY <1>3, <3>1
    <3>3. l = k
      BY <1>3, <3>1, <3>2
    <3> QED
      BY <3>3 DEF l
  <2>5. \A j \in 1 .. k : u[j] = (q[k - j] % 128) + IF j < k THEN 128 ELSE 0
    BY <1>1, <2>1, Zenon
  <2> QED
    BY <2>4, <2>5
<1> HIDE DEF u
<1>6. /\ H[m] = Begun(0, w) /\ Len(Cat(t, u)) = m + k
      /\ \A j \in 1 .. k : H[m + j] = SubSteps[<<H[m + (j - 1)], u[j]>>]
  <2>1. Folding(H, SubSteps, Partial, x0, Cat(t, u))
    BY DEF u
  <2>2. /\ H[Len(t)] = F[Len(t)] /\ Len(Cat(t, u)) = Len(t) + Len(u)
        /\ \A j \in 1 .. Len(u) : H[Len(t) + j] = SubSteps[<<H[Len(t) + (j - 1)], u[j]>>]
    BY <1>2, <2>1, FoldCat
  <2> QED
    BY <1>5, <2>2
<1>7. m \in Nat
  BY LenProperties
<1> HIDE DEF m
<1>8. ASSUME NEW j \in 1 .. k, H[m + (j - 1)] = Begun(q[k - (j - 1)], w)
      PROVE  H[m + j] = IF j < k THEN Begun(q[k - j], w) ELSE Begun(0, Append(w, q[k - j]))
  <2> DEFINE x == q[k - j]
             y == q[k - (j - 1)]
             b == u[j]
  <2>1. /\ k - j \in 0 .. 5 /\ k - (j - 1) \in 1 .. 5 /\ (k - (j - 1)) - 1 = k - j
        /\ k - (j - 1) \in 0 .. 5 /\ j \in 1 .. Len(u)
    <3>1. k \in 1 .. 5
      BY <1>3
    <3>2. j \in 1 .. Len(u)
      BY <1>5
    <3> HIDE DEF x, y, b
    <3> QED
      BY <3>1, <3>2
  <2>2. x \in Nat /\ y \in Nat
    BY <1>3, <2>1
  <2>3. y = x \div 128
    BY <1>3, <2>1 DEF Quotes
  <2>4. b = (x % 128) + IF j < k THEN 128 ELSE 0
    BY <1>5, Zenon
  <2>5. b \in Byte
    BY <1>2, <2>1, ElementOfSeq
  <2>6. H[m + j] = SubSteps[<<Begun(y, w), b>>]
    BY <1>6, <1>8, Zenon
  <2> HIDE DEF x, y, b
  <2>7. \A z \in Nat : 128 * (z \div 128) + (z % 128) = z /\ z % 128 \in 0 .. 127
    OBVIOUS
  <2>8. \A z \in 0 .. 127 : (z + 128) % 128 = z /\ (z + 0) % 128 = z /\ ~(z + 128 < 128) /\ z + 0 < 128
    OBVIOUS
  <2>9. 128 * y + (b % 128) = x
    BY <2>2, <2>3, <2>4, <2>7, <2>8
  <2>10. (b < 128) = ~(j < k)
    BY <2>2, <2>4, <2>7, <2>8
  <2>11. /\ Begun(y, w) \in Partial
         /\ Sub(Begun(y, w), b) = IF b < 128 THEN Begun(0, Append(w, 128 * y + (b % 128)))
                                  ELSE Begun(128 * y + (b % 128), w)
    BY <2>2, <2>5, SubIs
  <2>12. H[m + j] = Sub(Begun(y, w), b)
    BY <2>5, <2>6, <2>11, SubStepsType
  <2>13. H[m + j] = IF j < k THEN Begun(x, w) ELSE Begun(0, Append(w, x))
    BY <2>9, <2>10, <2>11, <2>12, Zenon
  <2> QED
    BY <2>13 DEF x
<1> DEFINE K == {j \in Nat : j < k => H[m + j] = Begun(q[k - j], w)}
<1>9. 0 \in K
  <2>1. k - 0 = k /\ m + 0 = m
    BY <1>3, <1>7
  <2> QED
    BY <1>4, <1>6, <2>1
<1>10. ASSUME NEW j \in K PROVE j + 1 \in K
  <2> SUFFICES ASSUME j + 1 < k PROVE H[m + (j + 1)] = Begun(q[k - (j + 1)], w)
    BY <1>10
  <2>1. j + 1 \in 1 .. k /\ (j + 1) - 1 = j /\ j < k /\ H[m + j] = Begun(q[k - j], w)
    BY <1>3, <1>10
  <2>2. H[m + ((j + 1) - 1)] = Begun(q[k - ((j + 1) - 1)], w)
    BY <2>1
  <2> QED
    BY <1>8, <2>1, <2>2
<1>11. K = Nat
  <2>1. K \in SUBSET Nat
    OBVIOUS
  <2> HIDE DEF K
  <2> QED
    BY <1>9, <1>10, <2>1, Induction
<1>12. H[m + (k - 1)] = Begun(q[k - (k - 1)], w)
  <2>1. k - 1 \in Nat /\ k - 1 < k
    BY <1>3
  <2> QED
    BY <1>11, <2>1
<1>13. H[m + k] = Begun(0, Append(w, q[0]))
  <2>1. k \in 1 .. k /\ ~(k < k) /\ k - k = 0
    BY <1>3
  <2>2. H[m + k] = IF k < k THEN Begun(q[k - k], w) ELSE Begun(0, Append(w, q[k - k]))
    BY <1>8, <1>12, <2>1
  <2> QED
    BY <2>1, <2>2
<1> QED
  BY <1>3, <1>6, <1>13 DEF u

LEMMA VarintsType ==
  ASSUME NEW s \in Seq(Nat)
  PROVE  /\ Varints(s) \in Seq(Byte) /\ Varints(<<>>) = <<>>
         /\ \A v \in Nat : Varints(Append(s, v)) = Cat(Varints(s), pack_varint(v))
<1> DEFINE T == Seq(Byte)
           M(r) == [i \in DOMAIN r |-> pack_varint(r[i])]
<1>1. \A r \in Seq(Nat) : M(r) \in Seq(T) /\ Len(M(r)) = Len(r) /\ \A i \in 1 .. Len(r) : M(r)[i] = pack_varint(r[i])
  <2> SUFFICES ASSUME NEW r \in Seq(Nat)
               PROVE  M(r) \in Seq(T) /\ Len(M(r)) = Len(r) /\ \A i \in 1 .. Len(r) : M(r)[i] = pack_varint(r[i])
    OBVIOUS
  <2> DEFINE n == Len(r)
             d == [i \in 1 .. n |-> pack_varint(r[i])]
  <2>1. n \in Nat /\ DOMAIN r = 1 .. n /\ \A i \in 1 .. n : r[i] \in Nat
    BY LenProperties, ElementOfSeq
  <2>2. M(r) = d
    BY <2>1
  <2> HIDE DEF n
  <2>3. \A i \in 1 .. n : pack_varint(r[i]) \in T
    BY <2>1, VarintType
  <2> HIDE DEF T
  <2>4. d \in [1 .. n -> T] /\ \A i \in 1 .. n : d[i] = pack_varint(r[i])
    BY <2>3
  <2> HIDE DEF d
  <2>5. d \in Seq(T) /\ Len(d) = n
    BY <2>1, <2>4
  <2> HIDE DEF M
  <2> QED
    BY <2>2, <2>4, <2>5, Zenon DEF n
<1>2. \A r \in Seq(Nat) : Varints(r) = FlattenSeq(M(r))
  BY Zenon DEF Varints
<1> HIDE DEF M
<1>3. Varints(s) \in Seq(Byte)
  <2>1. M(s) \in Seq(Seq(Byte))
    BY <1>1
  <2> QED
    BY <1>2, <2>1, FlattenType
<1>4. Varints(<<>>) = <<>>
  <2>1. <<>> \in Seq(Nat) /\ Len(<<>>) = 0
    BY EmptySeq
  <2>2. M(<<>>) \in Seq(T) /\ Len(M(<<>>)) = 0
    BY <1>1, <2>1
  <2>3. M(<<>>) = <<>>
    BY <2>2, EmptySeq
  <2>4. FlattenSeq(<<>>) = <<>>
    BY <1>1, FlattenType
  <2> QED
    BY <1>2, <2>1, <2>3, <2>4, Zenon
<1>5. ASSUME NEW v \in Nat PROVE Varints(Append(s, v)) = Cat(Varints(s), pack_varint(v))
  <2> DEFINE r == Append(s, v)
             e == pack_varint(v)
             z == M(s)
             y == M(r)
             x == Append(z, e)
  <2>1. r \in Seq(Nat) /\ Len(r) = Len(s) + 1 /\ (\A i \in 1 .. Len(s) : r[i] = s[i]) /\ r[Len(s) + 1] = v
    BY AppendProperties
  <2>2. e \in T
    BY VarintType
  <2>3. z \in Seq(T) /\ Len(z) = Len(s) /\ \A i \in 1 .. Len(s) : z[i] = pack_varint(s[i])
    BY <1>1
  <2>4. y \in Seq(T) /\ Len(y) = Len(r) /\ \A i \in 1 .. Len(r) : y[i] = pack_varint(r[i])
    BY <1>1, <2>1
  <2> HIDE DEF T, e, z, y
  <2>5. x \in Seq(T) /\ Len(x) = Len(z) + 1 /\ (\A i \in 1 .. Len(z) : x[i] = z[i]) /\ x[Len(z) + 1] = e
    BY <2>2, <2>3, AppendProperties
  <2> HIDE DEF r, x
  <2>6. Len(s) \in Nat
    BY LenProperties
  <2>7. ASSUME NEW i \in 1 .. Len(y) PROVE y[i] = x[i]
    <3>1. CASE i = Len(s) + 1
      BY <2>1, <2>3, <2>4, <2>5, <2>6, <2>7, <3>1 DEF e
    <3>2. CASE i # Len(s) + 1
      <4>1. i \in 1 .. Len(s) /\ i \in 1 .. Len(r)
        BY <2>1, <2>4, <2>6, <3>2
      <4> QED
        BY <2>1, <2>3, <2>4, <2>5, <4>1
    <3> QED
      BY <3>1, <3>2
  <2>8. y = x
    BY <2>1, <2>3, <2>4, <2>5, <2>7, SeqEqual
  <2>9. FlattenSeq(Append(z, e)) = Cat(FlattenSeq(z), e)
    BY <2>2, <2>3, FlattenAppend DEF T
  <2> QED
    BY <1>2, <2>1, <2>8, <2>9, Zenon DEF r, x, y, z, e
<1> QED
  BY <1>3, <1>4, <1>5

\* The varints of some numbers add them.
LEMMA VarintsRead ==
  ASSUME NEW w \in Seq(Nat), NEW s \in Seq(Word), NEW F,
         Folding(F, SubSteps, Partial, Begun(0, w), Varints(s))
  PROVE  F[Len(Varints(s))] = Begun(0, Cat(w, s))
<1> DEFINE x0 == Begun(0, w)
           Q(r) == \A H : Folding(H, SubSteps, Partial, x0, Varints(r)) => H[Len(Varints(r))] = Begun(0, Cat(w, r))
           P == {r \in Seq(Word) : Q(r)}
<1>0. x0 \in Partial /\ Word \subseteq Nat
  BY DEF Begun, Partial, Word
<1>1. <<>> \in P
  <2>1. <<>> \in Seq(Word) /\ <<>> \in Seq(Nat)
    BY EmptySeq
  <2>2. Varints(<<>>) = <<>>
    BY <2>1, VarintsType
  <2>3. Cat(w, <<>>) = w
    BY ConcatEmptySeq, Zenon DEF Cat
  <2>4. ASSUME NEW H, Folding(H, SubSteps, Partial, x0, <<>>) PROVE H[Len(<<>>)] = x0
    <3> HIDE DEF x0
    <3> QED
      BY <2>4, FoldEmpty
  <2> QED
    BY <2>1, <2>2, <2>3, <2>4
<1>2. ASSUME NEW r \in P, NEW v \in Word PROVE Append(r, v) \in P
  <2>1. r \in Seq(Word) /\ Q(r)
    BY <1>2
  <2>2. r \in Seq(Nat) /\ v \in Nat
    BY <1>0, <2>1, SeqMonotonic
  <2> DEFINE t == Varints(r)
             u == Varints(Append(r, v))
             wr == Cat(w, r)
  <2>3. t \in Seq(Byte) /\ u = Cat(t, pack_varint(v))
    BY <2>2, VarintsType
  <2>4. wr \in Seq(Nat) /\ Cat(w, Append(r, v)) = Append(wr, v)
    <3>1. Cat(w, r) \in Seq(Nat)
      BY <2>2, CatAt
    <3>2. Cat(w, Append(r, v)) = Append(Cat(w, r), v)
      BY <2>2, CatAppend
    <3> QED
      BY <3>1, <3>2
  <2>5. PICK F1 : Folding(F1, SubSteps, Partial, x0, t)
    BY <1>0, <2>3, SubStepsType, FoldExists
  <2>6. F1[Len(t)] = Begun(0, wr)
    BY <2>1, <2>5
  <2>7. ASSUME NEW H, Folding(H, SubSteps, Partial, x0, u) PROVE H[Len(u)] = Begun(0, Append(wr, v))
    <3> HIDE DEF x0, t, u, wr
    <3>1. Folding(H, SubSteps, Partial, x0, Cat(t, pack_varint(v)))
      BY <2>3, <2>7
    <3>2. H[Len(Cat(t, pack_varint(v)))] = Begun(0, Append(wr, v))
      BY <2>3, <2>4, <2>5, <2>6, <3>1, SubsVarint
    <3> QED
      BY <2>3, <3>2
  <2>8. Append(r, v) \in Seq(Word)
    BY <2>1, AppendProperties
  <2>9. Q(Append(r, v))
    BY <2>4, <2>7, Zenon
  <2> HIDE DEF Q
  <2> QED
    BY <2>8, <2>9
<1>3. P = Seq(Word)
  <2>1. P \in SUBSET Seq(Word)
    OBVIOUS
  <2> HIDE DEF P
  <2> QED
    BY <1>1, <1>2, <2>1, SeqInduction
<1>4. Q(s)
  <2> HIDE DEF Q
  <2> QED
    BY <1>3
<1> QED
  BY <1>4

\* An OID that both sides can tell: under the root 0, the next two numbers in a byte.
Proper(oid) ==
  /\ oid \in Seq(Word) /\ Len(oid) >= 3 /\ oid[1] = 0 /\ oid[3] < 40 /\ 40 * oid[2] + oid[3] < 256

LEMMA NumberingIs ==
  ASSUME NEW oid, Proper(oid)
  PROVE  \E s \in Seq(Word) :
           /\ oid = Cat(<<0, oid[2], oid[3]>>, s) /\ Len(s) = Len(oid) - 3
           /\ Numbering(oid) = Cat(<<40 * oid[2] + oid[3]>>, Varints(s))
           /\ \A i \in 1 .. Len(s) : s[i] = oid[i + 3]
<1> DEFINE n == Len(oid)
           o == Tail(oid)
           s == SubSeq(o, 3, Len(o))
           a == oid[2]
           b == oid[3]
           f == <<0, a, b>>
           x == 40 * a + b
<1>1. oid \in Seq(Word) /\ n \in Nat /\ n >= 3 /\ oid[1] = 0 /\ oid # <<>>
  <2>1. oid \in Seq(Word) /\ n >= 3 /\ oid[1] = 0
    BY DEF Proper
  <2>2. n \in Nat
    BY <2>1, LenProperties
  <2>3. oid # <<>>
    BY <2>1, EmptySeq
  <2> QED
    BY <2>1, <2>2, <2>3
<1>2. \A i \in 1 .. n : oid[i] \in Word
  BY <1>1, ElementOfSeq
<1>3. o \in Seq(Word) /\ Len(o) = n - 1 /\ \A i \in 1 .. n - 1 : o[i] = oid[i + 1]
  BY <1>1, HeadTailProperties
<1> HIDE DEF n, o
<1>4. o[1] = a /\ o[2] = b /\ o # <<>> /\ Len(o) > 1
  <2>1. 1 \in 1 .. n - 1 /\ 2 \in 1 .. n - 1 /\ 1 + 1 = 2 /\ 2 + 1 = 3 /\ n - 1 > 1 /\ n - 1 # 0
    BY <1>1
  <2>2. Len(o) # 0 /\ Len(o) > 1
    BY <1>3, <2>1
  <2> QED
    BY <1>3, <2>1, <2>2, EmptySeq
<1>5. a \in Word /\ b \in Word /\ a \in Nat /\ b \in Nat /\ x \in Nat /\ x < 256
  <2>1. a \in Word /\ b \in Word
    BY <1>1, <1>2
  <2>2. a \in Nat /\ b \in Nat
    BY <2>1 DEF Word
  <2>3. x < 256
    BY DEF Proper
  <2> HIDE DEF a, b
  <2> QED
    BY <2>1, <2>2, <2>3
<1>6. s \in Seq(Word) /\ Len(s) = n - 3 /\ \A i \in 1 .. n - 3 : s[i] = oid[i + 3]
  <2>1. 3 \in Int /\ n - 1 \in Int /\ \A i \in 3 .. n - 1 : o[i] \in Word
    <3>1. \A i \in 3 .. n - 1 : i \in 1 .. n - 1
      BY <1>1
    <3> QED
      BY <1>1, <1>3, <3>1, ElementOfSeq
  <2>2. s = SubSeq(o, 3, n - 1)
    BY <1>3
  <2> HIDE DEF s
  <2>3. /\ s \in Seq(Word) /\ Len(s) = IF 3 <= n - 1 THEN (n - 1) - 3 + 1 ELSE 0
        /\ \A i \in 1 .. (n - 1) - 3 + 1 : s[i] = o[3 + i - 1]
    BY <2>1, <2>2, SubSeqProperties
  <2>4. Len(s) = n - 3
    BY <1>1, <2>3
  <2>5. ASSUME NEW i \in 1 .. n - 3 PROVE s[i] = oid[i + 3]
    <3>1. i \in 1 .. (n - 1) - 3 + 1 /\ 3 + i - 1 \in 1 .. n - 1 /\ (3 + i - 1) + 1 = i + 3
      BY <1>1
    <3> QED
      BY <1>3, <2>3, <3>1
  <2> QED
    BY <2>3, <2>4, <2>5
<1>7. Numbering(oid) = <<x % 256>> \o Varints(s)
  <2>1. (IF oid # <<>> /\ oid[1] = 0 THEN Tail(oid) ELSE oid) = o
    BY <1>1, Zenon DEF o
  <2>2. (IF Len(o) > 1 THEN o[2] ELSE 0) = b
    BY <1>4, Zenon
  <2> QED
    BY <1>4, <2>1, <2>2, Zenon DEF Numbering
<1>8. x % 256 = x
  <2> HIDE DEF x
  <2> QED
    BY <1>5
<1> HIDE DEF s
<1>9. oid = Cat(f, s)
  <2>1. f \in Seq(Word) /\ Len(f) = 3 /\ f[1] = 0 /\ f[2] = a /\ f[3] = b
    <3> HIDE DEF a, b
    <3>1. 0 \in Word
      BY DEF Word
    <3> QED
      BY <1>5, <3>1
  <2> DEFINE u == Cat(f, s)
  <2> HIDE DEF f
  <2>2. u \in Seq(Word) /\ Len(u) = Len(f) + Len(s) /\ \A i \in 1 .. Len(f) + Len(s) : u[i] = IF i <= Len(f) THEN f[i] ELSE s[i - Len(f)]
    <3>1. f \in Seq(Word) /\ s \in Seq(Word)
      BY <1>6, <2>1
    <3> QED
      BY <3>1, CatAt
  <2> HIDE DEF u
  <2>3. Len(u) = n
    BY <1>1, <1>6, <2>1, <2>2
  <2>4. ASSUME NEW i \in 1 .. n PROVE oid[i] = u[i]
    <3>1. i \in 1 .. Len(f) + Len(s)
      BY <1>1, <1>6, <2>1
    <3>2. CASE i <= 3
      <4>1. i = 1 \/ i = 2 \/ i = 3
        BY <1>1, <3>2
      <4>2. u[i] = f[i]
        BY <2>1, <2>2, <3>1, <3>2
      <4> QED
        BY <1>1, <2>1, <4>1, <4>2
    <3>3. CASE ~(i <= 3)
      <4>1. i - 3 \in 1 .. n - 3 /\ (i - 3) + 3 = i
        BY <1>1, <3>3
      <4>2. u[i] = s[i - 3]
        BY <2>1, <2>2, <3>1, <3>3
      <4> QED
        BY <1>6, <4>1, <4>2
    <3> QED
      BY <3>2, <3>3
  <2>5. Len(oid) = Len(u) /\ \A i \in 1 .. Len(oid) : oid[i] = u[i]
    BY <2>3, <2>4 DEF n
  <2>6. oid = u
    BY <1>1, <2>2, <2>5, SeqEqual
  <2> QED
    BY <2>6 DEF u
<1>10. Numbering(oid) = Cat(<<x>>, Varints(s))
  BY <1>7, <1>8, Zenon DEF Cat
<1>11. \A i \in 1 .. Len(s) : s[i] = oid[i + 3]
  BY <1>6
<1> QED
  BY <1>6, <1>9, <1>10, <1>11 DEF n

\* An OID comes back as it was.
LEMMA OIDRead ==
  ASSUME NEW oid, Proper(oid)
  PROVE  unpack_OID(Numbering(oid)) = oid
<1> DEFINE a == oid[2]
           b == oid[3]
           x == 40 * a + b
           f == <<0, a, b>>
<1>1. PICK s \in Seq(Word) : oid = Cat(f, s) /\ Numbering(oid) = Cat(<<x>>, Varints(s))
  BY NumberingIs
<1> DEFINE t == Varints(s)
           c == Cat(<<x>>, t)
<1>2. a \in Nat /\ b \in Nat /\ b < 40 /\ x \in Byte
  <2>1. oid \in Seq(Word) /\ Len(oid) >= 3 /\ b < 40 /\ x < 256
    BY DEF Proper
  <2>2. Len(oid) \in Nat
    BY <2>1, LenProperties
  <2>3. 2 \in 1 .. Len(oid) /\ 3 \in 1 .. Len(oid)
    BY <2>1, <2>2
  <2>4. a \in Word /\ b \in Word
    BY <2>1, <2>3, ElementOfSeq
  <2>5. a \in Nat /\ b \in Nat
    BY <2>4 DEF Word
  <2> HIDE DEF a, b
  <2> QED
    BY <2>1, <2>5 DEF Byte
<1>3. s \in Seq(Nat)
  <2>1. Word \subseteq Nat
    BY DEF Word
  <2> QED
    BY <2>1, SeqMonotonic
<1>4. t \in Seq(Byte)
  BY <1>3, VarintsType
<1>5. x \div 40 = a /\ x % 40 = b
  <2> HIDE DEF a, b
  <2>1. \A y \in Nat, z \in 0 .. 39 : (40 * y + z) \div 40 = y /\ (40 * y + z) % 40 = z
    OBVIOUS
  <2> QED
    BY <1>2, <2>1
<1> HIDE DEF x, t
<1>6. c # <<>> /\ c[1] = x /\ Tail(c) = t
  BY <1>2, <1>4, FrontOf
<1>7. c \in Seq(Byte)
  <2> DEFINE g == <<x>>
  <2>1. g \in Seq(Byte)
    BY <1>2
  <2> HIDE DEF g
  <2>2. Cat(g, t) \in Seq(Byte)
    BY <1>4, <2>1, CatAt
  <2> QED
    BY <2>2 DEF g
<1> HIDE DEF c
<1>8. Len(t) = Len(c) - 1
  BY <1>6, <1>7, HeadTailProperties
<1>9. unpack_OID(c) = Subs(f, t)[Len(t)].oid
  <2>1. unpack_OID(c) = Subs(<<0, c[1] \div 40, c[1] % 40>>, Tail(c))[Len(c) - 1].oid
    BY <1>6, Zenon DEF unpack_OID
  <2> QED
    BY <1>5, <1>6, <1>8, <2>1, Zenon
<1>10. f \in Seq(Nat)
  <2> HIDE DEF a, b
  <2> QED
    BY <1>2
<1> HIDE DEF f
<1>11. Begun(0, f) \in Partial
  BY <1>10 DEF Begun, Partial
<1>12. PICK F : Folding(F, SubSteps, Partial, Begun(0, f), t)
  BY <1>4, <1>11, SubStepsType, FoldExists
<1>13. Subs(f, t) = F
  BY <1>4, <1>12, SubsFolds
<1>14. F[Len(t)] = Begun(0, Cat(f, s))
  BY <1>10, <1>12, VarintsRead DEF t
<1>15. Begun(0, Cat(f, s)).oid = Cat(f, s)
  BY DEF Begun
<1> QED
  BY <1>1, <1>9, <1>13, <1>14, <1>15, Zenon DEF c, t

-----------------------------------------------------------------------------
(***************************************************************************)
(* The codec: what each side reads of the other.                           *)
(***************************************************************************)
LEMMA ComplementSmall ==
  ASSUME NEW n \in 0 .. 127
  PROVE  Complement(n) = <<n>>
<1>1. PICK k, q : ComplementOf(q, k, n) /\ Complement(n) = Octets(q, k)
  BY ComplementIs
<1>2. k \in 1 .. 8 /\ q[0] = n /\ \A i \in 1 .. k - 1 : q[i - 1] \notin -128 .. 127
  BY <1>1 DEF ComplementOf, Quotes
<1>3. k = 1
  <2>1. SUFFICES ASSUME k > 1 PROVE FALSE
    BY <1>2
  <2>2. 1 \in 1 .. k - 1 /\ 1 - 1 = 0
    BY <1>2, <2>1
  <2>3. q[0] \notin -128 .. 127
    BY <1>2, <2>2
  <2> QED
    BY <1>2, <2>3
<1>4. \A i \in 1 .. 1 : q[1 - i] % 256 = n
  BY <1>2
<1>5. Octets(q, 1) = [i \in 1 .. 1 |-> n]
  BY <1>4 DEF Octets
<1> QED
  BY <1>1, <1>3, <1>5

LEMMA SmallInt64 == \A n \in 0 .. 255 : n \in Word /\ n \in Int64
<1> SUFFICES ASSUME NEW n \in 0 .. 255 PROVE n \in Word /\ n \in Int64
  OBVIOUS
<1>1. n \in Word
  BY DEF Word
<1> QED
  BY <1>1, WordShort

\* What the tags stand for.
LEMMA ValuesAre ==
  ASSUME NEW side, NEW c
  PROVE  /\ Value(side, BOOL, c) = unpack_boolean(side, c) /\ Value(side, INT, c) = unpack_integer(c)
         /\ Value(side, NULL, c) = <<>> /\ Value(side, OID, c) = unpack_OID(c) /\ Value(side, OCTETS, c) = c
         /\ \A tag \in Constructed : Value(side, tag, c) = c
<1>1. Value(side, BOOL, c) = unpack_boolean(side, c)
  BY DEF Value, BOOL, INT, NULL, OID, OCTETS, Constructed, SEQUENCE, GET, RESPONSE, SET, TRAP
<1>2. Value(side, INT, c) = unpack_integer(c)
  BY DEF Value, BOOL, INT, NULL, OID, OCTETS, Constructed, SEQUENCE, GET, RESPONSE, SET, TRAP
<1>3. Value(side, NULL, c) = <<>>
  BY DEF Value, BOOL, INT, NULL, OID, OCTETS, Constructed, SEQUENCE, GET, RESPONSE, SET, TRAP
<1>4. Value(side, OID, c) = unpack_OID(c)
  BY DEF Value, BOOL, INT, NULL, OID, OCTETS, Constructed, SEQUENCE, GET, RESPONSE, SET, TRAP
<1>5. Value(side, OCTETS, c) = c
  BY DEF Value, BOOL, INT, NULL, OID, OCTETS, Constructed, SEQUENCE, GET, RESPONSE, SET, TRAP
<1>6. ASSUME NEW tag \in Constructed PROVE Value(side, tag, c) = c
  BY <1>6 DEF Value, BOOL, INT, NULL, OID, OCTETS, Constructed, SEQUENCE, GET, RESPONSE, SET, TRAP
<1> QED
  BY <1>1, <1>2, <1>3, <1>4, <1>5, <1>6

LEMMA Tags ==
  /\ {BOOL, INT, OCTETS, NULL, OID} \cup Constructed \subseteq Byte
  /\ \A side : {BOOL, INT, OCTETS, NULL, OID, SEQUENCE, GET, SET} \subseteq Known(side)
  /\ {RESPONSE, TRAP} \subseteq Known("host")
  /\ INT # BOOL /\ OCTETS \notin {BOOL, INT} /\ NULL \notin {BOOL, INT} /\ OID \notin {BOOL, INT}
  /\ \A tag \in Constructed : tag \notin {BOOL, INT}
  BY DEF Known, Byte, BOOL, INT, NULL, OID, OCTETS, Constructed, SEQUENCE, GET, RESPONSE, SET, TRAP

\* Contents of fields.
Short == {c \in Seq(Byte) : Len(c) <= 127}

LEMMA PacksPlain ==
  ASSUME NEW side, NEW tag \in {OCTETS, NULL, OID} \cup Constructed, tag \in Known(side), NEW c \in Short
  PROVE  /\ Packs(side, Pack(tag, c), Field(tag, Value(side, tag, c)))
         /\ Len(Pack(tag, c)) = 2 + Len(c)
<1>1. tag \in Byte /\ tag \notin {BOOL, INT}
  BY Tags
<1>2. c \in Seq(Byte) /\ Len(c) <= 127
  BY DEF Short
<1>3. Item(side, tag, c, Field(tag, Value(side, tag, c)))
  BY <1>1, <1>2 DEF Item
<1>4. Len(Pack(tag, c)) = 2 + Len(c)
  BY <1>1, <1>2, PackShort
<1> QED
  BY <1>3, <1>4 DEF Packs

LEMMA PacksInteger ==
  ASSUME NEW side, NEW n \in Word
  PROVE  /\ Packs(side, pack_integer(n), Field(INT, n)) /\ Len(pack_integer(n)) <= 7
         /\ n \in 0 .. 127 => Len(pack_integer(n)) = 3
<1> DEFINE c == Complement(n)
<1>1. n \in Int64 /\ c \in Seq(Byte) /\ Len(c) \in 1 .. 5
  BY WordShort
<1>2. unpack_integer(c) = n
  BY <1>1, IntegerRead
<1>3. n \in 0 .. 127 => Len(c) = 1
  <2> SUFFICES ASSUME n \in 0 .. 127 PROVE Len(c) = 1
    OBVIOUS
  <2>1. c = <<n>>
    BY ComplementSmall
  <2> HIDE DEF c
  <2> QED
    BY <2>1
<1>4. pack_integer(n) = Pack(INT, c)
  BY DEF pack_integer
<1> HIDE DEF c
<1>5. INT \in Byte /\ INT \in Known(side) /\ INT # BOOL /\ Value(side, INT, c) = n
  BY <1>2, Tags, ValuesAre
<1>6. Len(c) <= 127 /\ Len(c) <= 8 /\ 2 + Len(c) <= 7
  <2>1. \A x \in 1 .. 5 : x <= 127 /\ x <= 8 /\ 2 + x <= 7
    OBVIOUS
  <2> QED
    BY <1>1, <2>1, Zenon
<1>7. Item(side, INT, c, Field(INT, n))
  BY <1>1, <1>5, <1>6 DEF Item
<1>8. Len(Pack(INT, c)) = 2 + Len(c)
  BY <1>1, <1>5, <1>6, PackShort
<1>9. Len(Pack(INT, c)) <= 7 /\ (n \in 0 .. 127 => Len(Pack(INT, c)) = 3)
  <2>1. \A x : x = 1 => 2 + x = 3
    OBVIOUS
  <2> QED
    BY <1>3, <1>6, <1>8, <2>1, Zenon
<1> QED
  BY <1>4, <1>7, <1>9 DEF Packs

\* TRUE is 1 from the host, and what the device reads for TRUE; it is 255 from
\* the device, and what the host reads.
LEMMA PacksBoolean ==
  ASSUME NEW b \in BOOLEAN
  PROVE  /\ Packs("device", pack_boolean("host", b), Field(BOOL, b)) /\ Len(pack_boolean("host", b)) = 3
         /\ Packs("host", pack_boolean("device", b), Field(BOOL, b)) /\ Len(pack_boolean("device", b)) = 3
<1> DEFINE x == IF b THEN 1 ELSE 0
           y == IF b THEN 255 ELSE 0
           c == <<x>>
           d == <<y>>
<1>1. pack_boolean("host", b) = Pack(BOOL, c) /\ pack_boolean("device", b) = Pack(BOOL, d)
  <2>1. TrueOf("host") = 1 /\ TrueOf("device") = 255
    BY DEF TrueOf
  <2> QED
    BY <2>1, Zenon DEF pack_boolean
<1>2. x \in 0 .. 127 /\ y \in {0, 255} /\ y \in Byte /\ x \in Byte
  BY DEF Byte
<1>3. (x = 1) = b /\ (y = 255) = b
  OBVIOUS
<1> HIDE DEF x, y
<1>4. c \in Seq(Byte) /\ Len(c) = 1 /\ d \in Seq(Byte) /\ Len(d) = 1 /\ d[1] = y
  BY <1>2
<1>5. c = Complement(x) /\ x \in Int64
  BY <1>2, ComplementSmall, SmallInt64
<1> HIDE DEF c, d
<1>6. unpack_integer(c) = x
  BY <1>5, IntegerRead
<1>7. unpack_boolean("device", c) = b /\ unpack_boolean("host", d) = b
  BY <1>3, <1>4, <1>6, Zenon DEF unpack_boolean
<1>8. BOOL \in Byte /\ BOOL \in Known("device") /\ BOOL \in Known("host")
  BY Tags
<1>9. Value("device", BOOL, c) = b /\ Value("host", BOOL, d) = b
  BY <1>7, ValuesAre
<1>10. Item("device", BOOL, c, Field(BOOL, b)) /\ Item("host", BOOL, d, Field(BOOL, b))
  BY <1>2, <1>4, <1>8, <1>9 DEF Item
<1>11. Len(Pack(BOOL, c)) = 3 /\ Len(Pack(BOOL, d)) = 3
  <2>1. Len(c) <= 127 /\ Len(d) <= 127
    BY <1>4
  <2>2. Len(Pack(BOOL, c)) = 2 + Len(c) /\ Len(Pack(BOOL, d)) = 2 + Len(d)
    BY <1>4, <1>8, <2>1, PackShort
  <2> QED
    BY <1>4, <2>2
<1> QED
  BY <1>1, <1>10, <1>11 DEF Packs

\* The values that a packet carries: none, a boolean, a number of 32 bits, a text.
Texts30 == {t \in Seq(Byte) : Len(t) <= 30}
Plain == {Nothing} \cup {Field(BOOL, b) : b \in BOOLEAN} \cup {Field(INT, n) : n \in Word}
         \cup {Field(OCTETS, t) : t \in Texts30}

LEMMA PacksValue ==
  ASSUME NEW v \in Plain
  PROVE  /\ Packs("device", BER_encode("host", v), v) /\ Len(BER_encode("host", v)) <= 32
         /\ Packs("host", BER_encode("device", v), v) /\ Len(BER_encode("device", v)) <= 32
<1>0. BOOL # INT /\ BOOL # OCTETS /\ BOOL # NULL /\ INT # OCTETS /\ INT # NULL /\ OCTETS # NULL
  BY DEF BOOL, INT, OCTETS, NULL
<1>1. ASSUME NEW b \in BOOLEAN, v = Field(BOOL, b)
      PROVE  BER_encode("host", v) = pack_boolean("host", b) /\ BER_encode("device", v) = pack_boolean("device", b)
  BY <1>0, <1>1 DEF BER_encode, Field
<1>2. ASSUME NEW n, v = Field(INT, n)
      PROVE  BER_encode("host", v) = pack_integer(n) /\ BER_encode("device", v) = pack_integer(n)
  BY <1>0, <1>2 DEF BER_encode, Field
<1>3. ASSUME NEW t, v = Field(OCTETS, t)
      PROVE  BER_encode("host", v) = Pack(OCTETS, t) /\ BER_encode("device", v) = Pack(OCTETS, t)
  BY <1>0, <1>3 DEF BER_encode, Field, pack_octets
<1>4. ASSUME v = Nothing
      PROVE  BER_encode("host", v) = Pack(NULL, <<>>) /\ BER_encode("device", v) = Pack(NULL, <<>>)
  BY <1>0, <1>4 DEF BER_encode, Field, Nothing, pack_null
<1>5. CASE v = Nothing
  <2>1. <<>> \in Short /\ Len(<<>>) = 0
    BY EmptySeq DEF Short
  <2>2. NULL \in Known("host") /\ NULL \in Known("device")
    BY Tags
  <2>3. Value("host", NULL, <<>>) = <<>> /\ Value("device", NULL, <<>>) = <<>>
    BY ValuesAre
  <2>4. /\ Packs("host", Pack(NULL, <<>>), v) /\ Packs("device", Pack(NULL, <<>>), v)
        /\ Len(Pack(NULL, <<>>)) = 2 + Len(<<>>)
    BY <1>5, <2>1, <2>2, <2>3, PacksPlain DEF Nothing
  <2>5. Len(Pack(NULL, <<>>)) <= 32
    <3>1. \A x : x = 0 => 2 + x <= 32
      OBVIOUS
    <3> QED
      BY <2>1, <2>4, <3>1, Zenon
  <2> QED
    BY <1>4, <1>5, <2>4, <2>5
<1>6. ASSUME NEW b \in BOOLEAN, v = Field(BOOL, b) PROVE
         /\ Packs("device", BER_encode("host", v), v) /\ Len(BER_encode("host", v)) <= 32
         /\ Packs("host", BER_encode("device", v), v) /\ Len(BER_encode("device", v)) <= 32
  <2>1. \A x : x = 3 => x <= 32
    OBVIOUS
  <2> QED
    BY <1>1, <1>6, <2>1, PacksBoolean
<1>7. ASSUME NEW n \in Word, v = Field(INT, n) PROVE
         /\ Packs("device", BER_encode("host", v), v) /\ Len(BER_encode("host", v)) <= 32
         /\ Packs("host", BER_encode("device", v), v) /\ Len(BER_encode("device", v)) <= 32
  <2>1. Packs("device", pack_integer(n), v) /\ Packs("host", pack_integer(n), v) /\ Len(pack_integer(n)) <= 7
    BY <1>7, PacksInteger
  <2>2. Len(pack_integer(n)) \in Nat
    <3>1. pack_integer(n) \in Seq(Byte)
      BY <2>1, PacksType
    <3> QED
      BY <3>1, LenProperties
  <2>3. \A x \in Nat : x <= 7 => x <= 32
    OBVIOUS
  <2> QED
    BY <1>2, <1>7, <2>1, <2>2, <2>3
<1>8. ASSUME NEW t \in Texts30, v = Field(OCTETS, t) PROVE
         /\ Packs("device", BER_encode("host", v), v) /\ Len(BER_encode("host", v)) <= 32
         /\ Packs("host", BER_encode("device", v), v) /\ Len(BER_encode("device", v)) <= 32
  <2>0. t \in Seq(Byte) /\ Len(t) <= 30
    BY DEF Texts30
  <2>1. Len(t) \in Nat
    BY <2>0, LenProperties
  <2>2. t \in Short /\ 2 + Len(t) <= 32
    BY <2>0, <2>1 DEF Short
  <2>3. OCTETS \in Known("host") /\ OCTETS \in Known("device") /\ OCTETS \in {OCTETS, NULL, OID} \cup Constructed
    BY Tags
  <2>4. Value("host", OCTETS, t) = t /\ Value("device", OCTETS, t) = t
    BY ValuesAre
  <2>5. Packs("host", Pack(OCTETS, t), v) /\ Packs("device", Pack(OCTETS, t), v) /\ Len(Pack(OCTETS, t)) = 2 + Len(t)
    BY <1>8, <2>2, <2>3, <2>4, PacksPlain
  <2> QED
    BY <1>3, <1>8, <2>2, <2>5
<1> QED
  BY <1>5, <1>6, <1>7, <1>8 DEF Plain

\* A field of at most m bytes, and a list of fields of at most n.
Carries(side, X, s, f, m) == Packs(side, s, f) /\ f \in X /\ m \in Nat /\ Len(s) <= m
Lists(side, X, ss, fs, n) ==
  /\ ss \in Seq(Seq(Byte)) /\ fs \in Seq(X) /\ Len(fs) = Len(ss)
  /\ \A i \in 1 .. Len(ss) : Packs(side, ss[i], fs[i])
  /\ n \in Nat /\ Len(FlattenSeq(ss)) <= n

LEMMA ListMore ==
  ASSUME NEW side, NEW X, NEW ss, NEW fs, NEW n, Lists(side, X, ss, fs, n),
         NEW s, NEW f, NEW m, Carries(side, X, s, f, m)
  PROVE  Lists(side, X, Append(ss, s), Append(fs, f), n + m)
<1> DEFINE tt == Append(ss, s)
           gs == Append(fs, f)
           T == Seq(Byte)
<1>1. ss \in Seq(T) /\ fs \in Seq(X) /\ Len(fs) = Len(ss) /\ Len(ss) \in Nat /\ n \in Nat /\ Len(FlattenSeq(ss)) <= n
  BY LenProperties DEF Lists
<1>2. \A i \in 1 .. Len(ss) : Packs(side, ss[i], fs[i])
  BY DEF Lists
<1>3. Packs(side, s, f) /\ f \in X /\ m \in Nat /\ Len(s) <= m
  BY DEF Carries
<1>4. s \in T
  BY <1>3, PacksType
<1>5. /\ tt \in Seq(T) /\ Len(tt) = Len(ss) + 1 /\ (\A i \in 1 .. Len(ss) : tt[i] = ss[i]) /\ tt[Len(ss) + 1] = s
  BY <1>1, <1>4, AppendProperties
<1>6. /\ gs \in Seq(X) /\ Len(gs) = Len(fs) + 1 /\ (\A i \in 1 .. Len(fs) : gs[i] = fs[i]) /\ gs[Len(fs) + 1] = f
  BY <1>1, <1>3, AppendProperties
<1>7. FlattenSeq(tt) = Cat(FlattenSeq(ss), s) /\ FlattenSeq(ss) \in T
  BY <1>1, <1>4, FlattenAppend, FlattenType
<1> HIDE DEF tt, gs
<1>8. Len(FlattenSeq(tt)) = Len(FlattenSeq(ss)) + Len(s) /\ Len(FlattenSeq(ss)) \in Nat /\ Len(s) \in Nat
  BY <1>4, <1>7, CatAt, LenProperties
<1> HIDE DEF T
<1>9. Len(FlattenSeq(tt)) <= n + m
  BY <1>1, <1>3, <1>8
<1>10. ASSUME NEW i \in 1 .. Len(tt) PROVE Packs(side, tt[i], gs[i])
  <2>1. CASE i = Len(ss) + 1
    BY <1>1, <1>3, <1>5, <1>6, <2>1
  <2>2. CASE i # Len(ss) + 1
    <3>1. i \in 1 .. Len(ss) /\ i \in 1 .. Len(fs)
      BY <1>1, <1>5, <2>2
    <3>2. tt[i] = ss[i] /\ gs[i] = fs[i]
      BY <1>5, <1>6, <3>1
    <3> QED
      BY <1>2, <3>1, <3>2
  <2> QED
    BY <2>1, <2>2
<1>11. Len(gs) = Len(tt) /\ n + m \in Nat
  BY <1>1, <1>3, <1>5, <1>6
<1> QED
  BY <1>5, <1>6, <1>9, <1>10, <1>11, Zenon DEF Lists, tt, gs, T

LEMMA ListRead ==
  ASSUME NEW side \in Sides, NEW X, NEW ss, NEW fs, NEW n, Lists(side, X, ss, fs, n), Len(ss) <= 15
  PROVE  unpack(side, FlattenSeq(ss)) = fs /\ FlattenSeq(ss) \in Seq(Byte) /\ Len(FlattenSeq(ss)) <= n
<1>1. /\ ss \in Seq(Seq(Byte)) /\ fs \in Seq(X) /\ Len(fs) = Len(ss) /\ Len(FlattenSeq(ss)) <= n
      /\ \A i \in 1 .. Len(ss) : Packs(side, ss[i], fs[i])
  BY DEF Lists
<1>2. unpack(side, FlattenSeq(ss)) = fs
  BY <1>1, FieldsUnpacked
<1> QED
  BY <1>1, <1>2, FlattenType

\* Lists of one to six fields.
LEMMA List1 ==
  ASSUME NEW side, NEW X, NEW s1, NEW f1, NEW m1, Carries(side, X, s1, f1, m1)
  PROVE  Lists(side, X, <<s1>>, <<f1>>, m1)
<1>1. Len(<<>>) = 0 /\ FlattenSeq(<<>>) = <<>> /\ <<>> \in Seq(Seq(Byte)) /\ <<>> \in Seq(X)
  <2>1. <<>> \in Seq(Seq(Byte)) /\ <<>> \in Seq(X)
    BY EmptySeq
  <2> QED
    BY <2>1, EmptySeq, FlattenType
<1>2. Lists(side, X, <<>>, <<>>, 0)
  <2>1. Len(FlattenSeq(<<>>)) <= 0
    BY <1>1
  <2> QED
    BY <1>1, <2>1 DEF Lists
<1>3. Lists(side, X, Append(<<>>, s1), Append(<<>>, f1), 0 + m1)
  BY <1>2, ListMore
<1>4. Append(<<>>, s1) = <<s1>> /\ Append(<<>>, f1) = <<f1>>
  OBVIOUS
<1>5. 0 + m1 = m1
  BY DEF Carries
<1> QED
  BY <1>3, <1>4, <1>5

LEMMA List2 ==
  ASSUME NEW side, NEW X, NEW s1, NEW f1, NEW n,
         Lists(side, X, <<s1>>, <<f1>>, n),
         NEW s2, NEW f2, NEW m, Carries(side, X, s2, f2, m)
  PROVE  Lists(side, X, <<s1, s2>>, <<f1, f2>>, n + m)
<1>1. <<s1, s2>> = Append(<<s1>>, s2)
  OBVIOUS
<1>2. <<f1, f2>> = Append(<<f1>>, f2)
  OBVIOUS
<1>3. Lists(side, X, Append(<<s1>>, s2), Append(<<f1>>, f2), n + m)
  BY ListMore
<1> QED
  BY <1>1, <1>2, <1>3

LEMMA List3 ==
  ASSUME NEW side, NEW X, NEW s1, NEW s2, NEW f1, NEW f2, NEW n,
         Lists(side, X, <<s1, s2>>, <<f1, f2>>, n),
         NEW s3, NEW f3, NEW m, Carries(side, X, s3, f3, m)
  PROVE  Lists(side, X, <<s1, s2, s3>>, <<f1, f2, f3>>, n + m)
<1>1. <<s1, s2, s3>> = Append(<<s1, s2>>, s3)
  OBVIOUS
<1>2. <<f1, f2, f3>> = Append(<<f1, f2>>, f3)
  OBVIOUS
<1>3. Lists(side, X, Append(<<s1, s2>>, s3), Append(<<f1, f2>>, f3), n + m)
  BY ListMore
<1> QED
  BY <1>1, <1>2, <1>3

LEMMA List4 ==
  ASSUME NEW side, NEW X, NEW s1, NEW s2, NEW s3, NEW f1, NEW f2, NEW f3, NEW n,
         Lists(side, X, <<s1, s2, s3>>, <<f1, f2, f3>>, n),
         NEW s4, NEW f4, NEW m, Carries(side, X, s4, f4, m)
  PROVE  Lists(side, X, <<s1, s2, s3, s4>>, <<f1, f2, f3, f4>>, n + m)
<1>1. <<s1, s2, s3, s4>> = Append(<<s1, s2, s3>>, s4)
  OBVIOUS
<1>2. <<f1, f2, f3, f4>> = Append(<<f1, f2, f3>>, f4)
  OBVIOUS
<1>3. Lists(side, X, Append(<<s1, s2, s3>>, s4), Append(<<f1, f2, f3>>, f4), n + m)
  BY ListMore
<1> QED
  BY <1>1, <1>2, <1>3

LEMMA List5 ==
  ASSUME NEW side, NEW X, NEW s1, NEW s2, NEW s3, NEW s4, NEW f1, NEW f2, NEW f3, NEW f4, NEW n,
         Lists(side, X, <<s1, s2, s3, s4>>, <<f1, f2, f3, f4>>, n),
         NEW s5, NEW f5, NEW m, Carries(side, X, s5, f5, m)
  PROVE  Lists(side, X, <<s1, s2, s3, s4, s5>>, <<f1, f2, f3, f4, f5>>, n + m)
<1>1. <<s1, s2, s3, s4, s5>> = Append(<<s1, s2, s3, s4>>, s5)
  OBVIOUS
<1>2. <<f1, f2, f3, f4, f5>> = Append(<<f1, f2, f3, f4>>, f5)
  OBVIOUS
<1>3. Lists(side, X, Append(<<s1, s2, s3, s4>>, s5), Append(<<f1, f2, f3, f4>>, f5), n + m)
  BY ListMore
<1> QED
  BY <1>1, <1>2, <1>3

LEMMA List6 ==
  ASSUME NEW side, NEW X, NEW s1, NEW s2, NEW s3, NEW s4, NEW s5, NEW f1, NEW f2, NEW f3, NEW f4, NEW f5, NEW n,
         Lists(side, X, <<s1, s2, s3, s4, s5>>, <<f1, f2, f3, f4, f5>>, n),
         NEW s6, NEW f6, NEW m, Carries(side, X, s6, f6, m)
  PROVE  Lists(side, X, <<s1, s2, s3, s4, s5, s6>>, <<f1, f2, f3, f4, f5, f6>>, n + m)
<1>1. <<s1, s2, s3, s4, s5, s6>> = Append(<<s1, s2, s3, s4, s5>>, s6)
  OBVIOUS
<1>2. <<f1, f2, f3, f4, f5, f6>> = Append(<<f1, f2, f3, f4, f5>>, f6)
  OBVIOUS
<1>3. Lists(side, X, Append(<<s1, s2, s3, s4, s5>>, s6), Append(<<f1, f2, f3, f4, f5>>, f6), n + m)
  BY ListMore
<1> QED
  BY <1>1, <1>2, <1>3

\* An OID that takes at most 13 bytes.
Legible(oid) == Proper(oid) /\ Len(Numbering(oid)) <= 13

LEMMA NumberingType ==
  ASSUME NEW oid, Proper(oid)
  PROVE  Numbering(oid) \in Seq(Byte)
<1> DEFINE x == 40 * oid[2] + oid[3]
           g == <<x>>
<1>1. PICK s \in Seq(Word) : Numbering(oid) = Cat(g, Varints(s))
  BY NumberingIs
<1>2. x \in Byte
  <2>1. oid \in Seq(Word) /\ Len(oid) >= 3 /\ x < 256
    BY DEF Proper
  <2>2. Len(oid) \in Nat
    BY <2>1, LenProperties
  <2>3. 2 \in 1 .. Len(oid) /\ 3 \in 1 .. Len(oid)
    BY <2>1, <2>2
  <2>4. oid[2] \in Word /\ oid[3] \in Word
    BY <2>1, <2>3, ElementOfSeq
  <2>5. oid[2] \in Nat /\ oid[3] \in Nat
    BY <2>4 DEF Word
  <2>6. \A y, z \in Nat : 40 * y + z < 256 => 40 * y + z \in Byte
    BY DEF Byte
  <2> QED
    BY <2>1, <2>5, <2>6, Zenon
<1>3. Varints(s) \in Seq(Byte)
  <2>1. Word \subseteq Nat
    BY DEF Word
  <2>2. s \in Seq(Nat)
    BY <2>1, SeqMonotonic
  <2> QED
    BY <2>2, VarintsType
<1> HIDE DEF x
<1>4. g \in Seq(Byte)
  BY <1>2
<1> HIDE DEF g
<1> QED
  BY <1>1, <1>3, <1>4, CatAt

\* What a list of fields can carry.
LEMMA CarriesInteger ==
  ASSUME NEW side, NEW X, NEW n \in Word, Field(INT, n) \in X
  PROVE  /\ Carries(side, X, pack_integer(n), Field(INT, n), 7)
         /\ n \in 0 .. 127 => Carries(side, X, pack_integer(n), Field(INT, n), 3)
<1>1. \A x : x = 3 => x <= 3
  OBVIOUS
<1>2. 7 \in Nat /\ 3 \in Nat
  OBVIOUS
<1> QED
  BY <1>1, <1>2, PacksInteger, Zenon DEF Carries

LEMMA CarriesOctets ==
  ASSUME NEW side, NEW X, NEW t \in Texts30, Field(OCTETS, t) \in X
  PROVE  Carries(side, X, pack_octets(t), Field(OCTETS, t), 2 + Len(t)) /\ Len(t) \in Nat
<1>1. t \in Seq(Byte) /\ Len(t) <= 30 /\ Len(t) \in Nat
  BY LenProperties DEF Texts30
<1>2. t \in Short
  BY <1>1 DEF Short
<1>3. OCTETS \in Known(side) /\ OCTETS \in {OCTETS, NULL, OID} \cup Constructed /\ Value(side, OCTETS, t) = t
  BY Tags, ValuesAre
<1>4. Packs(side, Pack(OCTETS, t), Field(OCTETS, t)) /\ Len(Pack(OCTETS, t)) = 2 + Len(t)
  BY <1>2, <1>3, PacksPlain
<1>5. 2 + Len(t) \in Nat /\ 2 + Len(t) <= 2 + Len(t)
  BY <1>1
<1> QED
  BY <1>1, <1>4, <1>5 DEF Carries, pack_octets

LEMMA CarriesOID ==
  ASSUME NEW side, NEW X, NEW oid, Legible(oid), Field(OID, oid) \in X
  PROVE  Carries(side, X, pack_OID(oid), Field(OID, oid), 15)
<1> DEFINE c == Numbering(oid)
<1>1. c \in Seq(Byte) /\ Len(c) <= 13
  BY NumberingType DEF Legible
<1>2. Len(c) \in Nat
  BY <1>1, LenProperties
<1>3. unpack_OID(c) = oid
  BY OIDRead DEF Legible
<1>4. pack_OID(oid) = Pack(OID, c)
  BY DEF pack_OID
<1> HIDE DEF c
<1>5. c \in Short /\ 2 + Len(c) <= 15
  BY <1>1, <1>2 DEF Short
<1>6. OID \in Known(side) /\ OID \in {OCTETS, NULL, OID} \cup Constructed /\ Value(side, OID, c) = oid
  BY <1>3, Tags, ValuesAre
<1>7. Packs(side, Pack(OID, c), Field(OID, oid)) /\ Len(Pack(OID, c)) = 2 + Len(c)
  BY <1>5, <1>6, PacksPlain
<1> QED
  BY <1>4, <1>5, <1>7 DEF Carries

\* What is carried in a sequence, or a PDU, of at most 127 bytes.
LEMMA CarriesFields ==
  ASSUME NEW side \in Sides, NEW X, NEW tag \in Constructed, tag \in Known(side),
         NEW Y, NEW ss, NEW fs, NEW n, Lists(side, Y, ss, fs, n), Len(ss) <= 15, n <= 127,
         Field(tag, FlattenSeq(ss)) \in X
  PROVE  /\ Carries(side, X, Pack(tag, FlattenSeq(ss)), Field(tag, FlattenSeq(ss)), n + 2)
         /\ unpack(side, FlattenSeq(ss)) = fs
<1> DEFINE c == FlattenSeq(ss)
<1>1. unpack(side, c) = fs /\ c \in Seq(Byte) /\ Len(c) <= n
  BY ListRead
<1>2. n \in Nat
  BY DEF Lists
<1> HIDE DEF c
<1>3. Len(c) \in Nat
  BY <1>1, LenProperties
<1>4. c \in Short /\ 2 + Len(c) <= n + 2 /\ n + 2 \in Nat
  <2>1. Len(c) <= 127
    BY <1>1, <1>2, <1>3
  <2> QED
    BY <1>1, <1>2, <1>3, <2>1 DEF Short
<1>5. tag \in {OCTETS, NULL, OID} \cup Constructed /\ Value(side, tag, c) = c
  BY ValuesAre
<1>6. Packs(side, Pack(tag, c), Field(tag, c)) /\ Len(Pack(tag, c)) = 2 + Len(c)
  BY <1>4, <1>5, PacksPlain
<1>7. Carries(side, X, Pack(tag, c), Field(tag, c), n + 2)
  BY <1>4, <1>6 DEF Carries, c
<1> QED
  BY <1>1, <1>7 DEF c

\* The variable that one side packs is read by the other.
LEMMA VariableRead ==
  ASSUME NEW w \in Sides, NEW r \in Sides, w # r, NEW p, Legible(p.oid), p.value \in Plain
  PROVE  \E v, b : /\ \A X : Field(SEQUENCE, v) \in X => Carries(r, X, Variable(w, p), Field(SEQUENCE, v), 51)
                   /\ unpack(r, v) = <<Field(SEQUENCE, b)>>
                   /\ unpack(r, b) = <<Field(OID, p.oid), p.value>>
<1> DEFINE f == Field(OID, p.oid)
           g == p.value
           s == pack_OID(p.oid)
           t == BER_encode(w, p.value)
           X == {f, g}
           ss == <<s, t>>
           fs == <<f, g>>
           b == FlattenSeq(ss)
           u == pack_sequence(ss)
           h == Field(SEQUENCE, b)
           Y == {h}
           uu == <<u>>
           hs == <<h>>
           v == FlattenSeq(uu)
           z == Field(SEQUENCE, v)
           n1 == 15 + 32
           n2 == n1 + 2
<1>0. SEQUENCE \in Constructed /\ SEQUENCE \in Known(r)
  BY Tags DEF Constructed
<1>1. Carries(r, X, s, f, 15)
  BY CarriesOID
<1>2. Carries(r, X, t, g, 32)
  <2>1. (w = "host" /\ r = "device") \/ (w = "device" /\ r = "host")
    BY DEF Sides
  <2>2. Packs(r, t, g) /\ Len(t) <= 32
    BY <2>1, PacksValue
  <2> QED
    BY <2>2 DEF Carries
<1>3. u = Pack(SEQUENCE, b) /\ Variable(w, p) = Pack(SEQUENCE, v)
  BY Zenon DEF Variable, pack_sequence
<1>4. Lists(r, X, ss, fs, n1)
  <2> HIDE DEF s, t, f, g, X
  <2> QED
    BY <1>1, <1>2, List1, List2
<1>5. Len(ss) <= 15 /\ Len(uu) <= 15
  <2> HIDE DEF s, t, u
  <2> QED
    OBVIOUS
<1>6. n1 <= 127 /\ n2 <= 127 /\ n2 + 2 = 51
  OBVIOUS
<1>7. h \in Y /\ h = Field(SEQUENCE, FlattenSeq(ss))
  OBVIOUS
<1> HIDE DEF ss, fs, X, Y, n1, h, n2
<1>8. Carries(r, Y, Pack(SEQUENCE, FlattenSeq(ss)), Field(SEQUENCE, FlattenSeq(ss)), n1 + 2) /\ unpack(r, FlattenSeq(ss)) = fs
  BY <1>0, <1>4, <1>5, <1>6, <1>7, CarriesFields
<1>9. Carries(r, Y, u, h, n2)
  BY <1>3, <1>7, <1>8 DEF n2
<1> HIDE DEF u
<1>10. Lists(r, Y, uu, hs, n2)
  BY <1>9, List1
<1> HIDE DEF uu, hs
<1>11. ASSUME NEW Z, z \in Z
      PROVE  Carries(r, Z, Variable(w, p), z, 51) /\ unpack(r, v) = hs
  <2>1. Carries(r, Z, Pack(SEQUENCE, FlattenSeq(uu)), Field(SEQUENCE, FlattenSeq(uu)), n2 + 2) /\ unpack(r, FlattenSeq(uu)) = hs
    BY <1>0, <1>5, <1>6, <1>10, <1>11, CarriesFields
  <2> QED
    BY <1>3, <1>6, <2>1
<1>12. unpack(r, v) = hs
  <2>1. z \in {z}
    OBVIOUS
  <2> QED
    BY <1>11, <2>1
<1>13. unpack(r, b) = fs
  BY <1>8
<1> HIDE DEF v, b
<1>14. hs = <<Field(SEQUENCE, b)>> /\ fs = <<Field(OID, p.oid), p.value>>
  BY DEF hs, h, fs, f, g
<1> QED
  BY <1>11, <1>12, <1>13, <1>14

\* A message is read as the fields of its PDU.
LEMMA MessageRead ==
  ASSUME NEW r \in Sides, NEW p, p.community = Public, p.tag \in Constructed, p.tag \in Known(r),
         NEW Y, NEW ss, NEW fs, NEW n, Lists(r, Y, ss, fs, n), Len(ss) <= 15, n <= 114
  PROVE  /\ Message(p, ss) \in Seq(Byte) /\ Len(Message(p, ss)) <= n + 15
         /\ \E c, e : /\ unpack(r, Message(p, ss)) = <<Field(SEQUENCE, c)>>
                      /\ unpack(r, c) = <<Field(INT, 0), Field(OCTETS, Public), Field(p.tag, e)>>
                      /\ unpack(r, e) = fs
<1> DEFINE e == FlattenSeq(ss)
           f1 == Field(INT, 0)
           f2 == Field(OCTETS, Public)
           f3 == Field(p.tag, e)
           s1 == pack_integer(0)
           s2 == pack_octets(Public)
           s3 == pack_pdu(p.tag, ss)
           X == {f1, f2, f3}
           mm == <<s1, s2, s3>>
           gs == <<f1, f2, f3>>
           c == FlattenSeq(mm)
           u == Message(p, ss)
           h == Field(SEQUENCE, c)
           uu == <<u>>
           hs == <<h>>
           Z == {h}
           k == 3 + 8 + (n + 2)
<1>0. /\ SEQUENCE \in Constructed /\ SEQUENCE \in Known(r) /\ n \in Nat /\ n <= 127
  <2>1. n \in Nat
    BY DEF Lists
  <2> QED
    BY <2>1, Tags DEF Constructed
<1>1. Carries(r, X, s1, f1, 3)
  <2>1. 0 \in Word /\ 0 \in 0 .. 127 /\ f1 \in X
    BY SmallInt64
  <2> HIDE DEF X
  <2> QED
    BY <2>1, CarriesInteger
<1>2. Carries(r, X, s2, f2, 8)
  <2>1. Public \in Texts30 /\ 2 + Len(Public) = 8
    <3>1. Public \in Seq(Byte) /\ Len(Public) = 6
      BY DEF Public, Byte
    <3>2. \A x : x = 6 => x <= 30 /\ 2 + x = 8
      OBVIOUS
    <3>3. Len(Public) <= 30 /\ 2 + Len(Public) = 8
      BY <3>1, <3>2, Zenon
    <3> QED
      BY <3>1, <3>3, Zenon DEF Texts30
  <2>2. f2 \in X
    OBVIOUS
  <2> HIDE DEF X
  <2> QED
    BY <2>1, <2>2, CarriesOctets
<1>3. Carries(r, X, s3, f3, n + 2) /\ unpack(r, e) = fs
  <2>1. f3 \in X
    OBVIOUS
  <2> HIDE DEF X
  <2>2. Carries(r, X, Pack(p.tag, FlattenSeq(ss)), Field(p.tag, FlattenSeq(ss)), n + 2) /\ unpack(r, FlattenSeq(ss)) = fs
    BY <1>0, <2>1, CarriesFields
  <2> QED
    BY <2>2 DEF pack_pdu
<1>4. Lists(r, X, mm, gs, k)
  <2> HIDE DEF X, s1, s2, s3, f1, f2, f3
  <2>1. Lists(r, X, <<s1>>, <<f1>>, 3)
    BY <1>1, List1
  <2>2. Lists(r, X, <<s1, s2>>, <<f1, f2>>, 3 + 8)
    BY <1>2, <2>1, List2
  <2> QED
    BY <1>3, <2>2, List3
<1>5. Len(mm) <= 15 /\ Len(uu) <= 15
  <2> HIDE DEF s1, s2, s3, u
  <2> QED
    OBVIOUS
<1>6. k <= 127 /\ k + 2 = n + 15
  BY <1>0
<1>7. h \in Z /\ h = Field(SEQUENCE, FlattenSeq(mm)) /\ u = Pack(SEQUENCE, FlattenSeq(mm))
  BY DEF Message, pack_sequence
<1>8. gs = <<Field(INT, 0), Field(OCTETS, Public), Field(p.tag, e)>>
  OBVIOUS
<1> HIDE DEF mm, gs, X, Z, k, h, u, e
<1>9. Carries(r, Z, Pack(SEQUENCE, FlattenSeq(mm)), Field(SEQUENCE, FlattenSeq(mm)), k + 2) /\ unpack(r, FlattenSeq(mm)) = gs
  BY <1>0, <1>4, <1>5, <1>6, <1>7, CarriesFields
<1>10. Carries(r, Z, u, h, n + 15)
  BY <1>6, <1>7, <1>9
<1>11. Lists(r, Z, uu, hs, n + 15)
  BY <1>10, List1
<1> HIDE DEF uu, hs
<1>12. unpack(r, FlattenSeq(uu)) = hs /\ FlattenSeq(uu) \in Seq(Byte) /\ Len(FlattenSeq(uu)) <= n + 15
  BY <1>5, <1>11, ListRead
<1>13. FlattenSeq(uu) = u
  <2>1. u \in Seq(Byte)
    <3>1. Packs(r, u, h)
      BY <1>10 DEF Carries
    <3> QED
      BY <3>1, PacksType
  <2>2. <<>> \in Seq(Seq(Byte)) /\ uu = Append(<<>>, u) /\ FlattenSeq(<<>>) = <<>>
    <3>1. uu = Append(<<>>, u)
      BY DEF uu
    <3>2. <<>> \in Seq(Seq(Byte))
      BY EmptySeq
    <3>3. FlattenSeq(<<>>) = <<>>
      BY <3>2, FlattenType
    <3> QED
      BY <3>1, <3>2, <3>3
  <2>3. FlattenSeq(uu) = Cat(<<>>, u)
    BY <2>1, <2>2, FlattenAppend
  <2>4. Cat(<<>>, u) = u
    BY <2>1, ConcatEmptySeq, Zenon DEF Cat
  <2> QED
    BY <2>3, <2>4
<1>14. unpack(r, u) = <<Field(SEQUENCE, c)>> /\ u \in Seq(Byte) /\ Len(u) <= n + 15
  BY <1>12, <1>13 DEF hs, h
<1>15. unpack(r, c) = gs
  BY <1>9
<1> HIDE DEF c
<1> QED
  BY <1>3, <1>8, <1>14, <1>15, Zenon DEF u

\* The fields of a request as the device reads them.
LEMMA AtIs ==
  ASSUME NEW fields, NEW i, i <= Len(fields), NEW tag, NEW x, fields[i] = Field(tag, x), NEW default
  PROVE  At(fields, i, tag, default) = x
  BY DEF At, Field

LEMMA BindingIs ==
  ASSUME NEW pdu, Len(pdu) >= 4, NEW v, pdu[4] = Field(SEQUENCE, v),
         NEW b, unpack("device", v) = <<Field(SEQUENCE, b)>>,
         NEW f, NEW g, unpack("device", b) = <<f, g>>
  PROVE  Binding(pdu) = <<f, g>>
<1> DEFINE one == <<Field(SEQUENCE, b)>>
<1>1. At(pdu, 4, SEQUENCE, <<>>) = v
  BY AtIs, SMT
<1>2. Inside(pdu, 4) = one
  BY <1>1 DEF Inside
<1>3. 1 <= Len(one) /\ one[1] = Field(SEQUENCE, b)
  OBVIOUS
<1> HIDE DEF one
<1>4. At(one, 1, SEQUENCE, <<>>) = b
  BY <1>3, AtIs, Zenon
<1>5. Inside(one, 1) = unpack("device", b)
  BY <1>4 DEF Inside
<1> QED
  BY <1>2, <1>5 DEF Binding

\* What the device makes of a packet with these fields.
LEMMA RequestIs ==
  ASSUME NEW tag \in {GET, SET}, NEW community, NEW id, NEW oid, NEW value,
         tag = GET => value = Nothing, value \in Plain,
         NEW x, NEW y, NEW z, NEW c, NEW e, NEW v, NEW b,
         unpack("device", c) = <<x, Field(OCTETS, community), Field(tag, e)>>,
         unpack("device", e) = <<Field(INT, id), y, z, Field(SEQUENCE, v)>>,
         unpack("device", v) = <<Field(SEQUENCE, b)>>,
         unpack("device", b) = <<Field(OID, oid), value>>
  PROVE  ssmp_decode(<<Field(SEQUENCE, c)>>)
         = [tag |-> tag, community |-> community, id |-> id, oid |-> oid, value |-> value]
<1> DEFINE one == <<Field(SEQUENCE, c)>>
           message == <<x, Field(OCTETS, community), Field(tag, e)>>
           pdu == <<Field(INT, id), y, z, Field(SEQUENCE, v)>>
           rq == <<Field(OID, oid), value>>
<1>1. 1 <= Len(one) /\ one[1] = Field(SEQUENCE, c)
  OBVIOUS
<1>2. Len(message) > 2 /\ 2 <= Len(message) /\ message[2] = Field(OCTETS, community) /\ message[3] = Field(tag, e)
  OBVIOUS
<1>3. Len(pdu) >= 4 /\ 1 <= Len(pdu) /\ pdu[1] = Field(INT, id) /\ pdu[4] = Field(SEQUENCE, v)
  OBVIOUS
<1>4. Len(rq) > 1 /\ 1 <= Len(rq) /\ rq[1] = Field(OID, oid) /\ rq[2] = value
  OBVIOUS
<1>5. Binding(pdu) = rq
  BY <1>3, BindingIs
<1> HIDE DEF one, message, pdu, rq
<1>6. Inside(one, 1) = message
  <2>1. At(one, 1, SEQUENCE, <<>>) = c
    BY <1>1, AtIs, Zenon
  <2> QED
    BY <2>1 DEF Inside, message
<1>7. At(message, 2, OCTETS, <<>>) = community
  BY <1>2, AtIs, Zenon
<1>8. message[3].tag = tag /\ message[3].value = e /\ unpack("device", message[3].value) = pdu
  BY <1>2 DEF Field, pdu
<1>9. At(pdu, 1, INT, 0) = id
  BY <1>3, AtIs, Zenon
<1>10. At(rq, 1, OID, <<>>) = oid
  BY <1>4, AtIs, Zenon
<1>11. ssmp_decode_get(community, pdu)
       = [tag |-> GET, community |-> community, id |-> id, oid |-> oid, value |-> Nothing]
  BY <1>5, <1>9, <1>10 DEF ssmp_decode_get
<1>12. CASE tag = GET
  <2>1. ssmp_decode(one) = ssmp_decode_get(community, pdu)
    BY <1>2, <1>6, <1>7, <1>8, <1>12 DEF ssmp_decode
  <2> QED
    BY <1>11, <1>12, <2>1 DEF one
<1>13. CASE tag = SET
  <2>1. GET # SET
    BY DEF GET, SET
  <2>2. ssmp_decode(one) = ssmp_decode_set(community, pdu)
    BY <1>2, <1>6, <1>7, <1>8, <1>13, <2>1 DEF ssmp_decode
  <2>3. value = Nothing \/ value.tag \in {BOOL, INT, OCTETS}
    BY DEF Plain, Field
  <2>4. value = Nothing => value.tag \notin {BOOL, INT, OCTETS}
    BY DEF Nothing, Field, NULL, BOOL, INT, OCTETS
  <2>5. ssmp_decode_set(community, pdu)
        = [tag |-> SET, community |-> community, id |-> id, oid |-> oid, value |-> value]
    <3> DEFINE g == [tag |-> GET, community |-> community, id |-> id, oid |-> oid, value |-> Nothing]
               typed == Len(rq) > 1 /\ rq[2].tag \in {BOOL, INT, OCTETS}
               w == IF typed THEN rq[2] ELSE Nothing
    <3>1. ssmp_decode_set(community, pdu) = [g EXCEPT !.tag = SET, !.value = IF typed THEN rq[2] ELSE @]
      BY <1>5, <1>11, Zenon DEF ssmp_decode_set
    <3>2. w = value
      BY <1>4, <2>3, <2>4
    <3>3. [g EXCEPT !.tag = SET, !.value = IF typed THEN rq[2] ELSE @]
          = [tag |-> SET, community |-> community, id |-> id, oid |-> oid, value |-> w]
      <4> HIDE DEF typed
      <4>0. g.value = Nothing
          OBVIOUS
      <4>2. g = [tag |-> GET, community |-> community, id |-> id, oid |-> oid, value |-> Nothing]
        OBVIOUS
      <4> HIDE DEF g
      <4>1. [g EXCEPT !.tag = SET, !.value = IF typed THEN rq[2] ELSE @] = [g EXCEPT !.tag = SET, !.value = w]
        BY <4>0
      <4> HIDE DEF w
      <4> DEFINE h == [tag |-> SET, community |-> community, id |-> id, oid |-> oid, value |-> w]
                 F == {"tag", "community", "id", "oid", "value"}
      <4>3. [g EXCEPT !.tag = SET, !.value = w]
            = [f \in DOMAIN g |-> IF f = "tag" THEN SET ELSE IF f = "value" THEN w ELSE g[f]]
        OBVIOUS
      <4>4. DOMAIN g = F /\ g["community"] = community /\ g["id"] = id /\ g["oid"] = oid
        BY <4>2
      <4>5. /\ DOMAIN h = F /\ h["tag"] = SET /\ h["community"] = community /\ h["id"] = id
            /\ h["oid"] = oid /\ h["value"] = w
        OBVIOUS
      <4>6. h = [f \in DOMAIN h |-> h[f]]
        OBVIOUS
      <4> HIDE DEF h
      <4>7. [g EXCEPT !.tag = SET, !.value = w] = h
        BY <4>3, <4>4, <4>5, <4>6
      <4> QED
        BY <4>1, <4>7 DEF h
    <3> HIDE DEF w
    <3> QED
      BY <3>1, <3>2, <3>3, Zenon
  <2> QED
    BY <1>13, <2>2, <2>5 DEF one
<1> QED
  BY <1>12, <1>13

\* What the host asks for, the device reads.
LEMMA RequestRead ==
  ASSUME NEW tag \in {GET, SET}, NEW id \in Word, NEW oid, Legible(oid), NEW value \in Plain,
         tag = GET => value = Nothing
  PROVE  /\ EncodeRequest(Request(tag, id, oid, value)) \in Seq(Byte)
         /\ Len(EncodeRequest(Request(tag, id, oid, value))) <= 129
         /\ ssmp_decode(BER_decode("device", EncodeRequest(Request(tag, id, oid, value))))
            = Request(tag, id, oid, value)
<1> DEFINE p == Request(tag, id, oid, value)
           r == "device"
<1>1. /\ p.tag = tag /\ p.community = Public /\ p.id = id /\ p.oid = oid /\ p.value = value
      /\ p = [tag |-> tag, community |-> Public, id |-> id, oid |-> oid, value |-> value]
  BY DEF Request
<1>2. r \in Sides /\ "host" \in Sides /\ "host" # r
  BY DEF Sides
<1>3. tag \in Constructed /\ tag \in Known(r)
  BY DEF Constructed, Known
<1> HIDE DEF p, r
<1>4. PICK v, b : /\ \A X : Field(SEQUENCE, v) \in X => Carries(r, X, Variable("host", p), Field(SEQUENCE, v), 51)
                  /\ unpack(r, v) = <<Field(SEQUENCE, b)>>
                  /\ unpack(r, b) = <<Field(OID, p.oid), p.value>>
  BY <1>1, <1>2, VariableRead
<1> DEFINE s1 == pack_integer(p.id)
           s2 == pack_integer(0)
           s4 == Variable("host", p)
           f1 == Field(INT, p.id)
           f2 == Field(INT, 0)
           f4 == Field(SEQUENCE, v)
           X == {f1, f2, f4}
           ss == <<s1, s2, s2, s4>>
           fs == <<f1, f2, f2, f4>>
           n == 7 + 3 + 3 + 51
<1>5. f1 \in X /\ f2 \in X /\ f4 \in X
  OBVIOUS
<1>6. EncodeRequest(p) = Message(p, ss)
  BY Zenon DEF EncodeRequest
<1>7. p.id \in Word /\ 0 \in Word /\ 0 \in 0 .. 127
  BY <1>1, SmallInt64
<1> HIDE DEF X
<1>8. Carries(r, X, s1, f1, 7) /\ Carries(r, X, s2, f2, 3) /\ Carries(r, X, s4, f4, 51)
  BY <1>4, <1>5, <1>7, CarriesInteger
<1>9. Lists(r, X, ss, fs, n)
  <2> HIDE DEF s1, s2, s4, f1, f2, f4
  <2>1. Lists(r, X, <<s1>>, <<f1>>, 7)
    BY <1>8, List1
  <2>2. Lists(r, X, <<s1, s2>>, <<f1, f2>>, 7 + 3)
    BY <1>8, <2>1, List2
  <2>3. Lists(r, X, <<s1, s2, s2>>, <<f1, f2, f2>>, 7 + 3 + 3)
    BY <1>8, <2>2, List3
  <2> QED
    BY <1>8, <2>3, List4
<1>10. Len(ss) <= 15
  <2> HIDE DEF s1, s2, s4
  <2> QED
    OBVIOUS
<1>11. n <= 114 /\ n + 15 <= 129 /\ \A x \in Nat : x <= n + 15 => x <= 129
  OBVIOUS
<1> HIDE DEF ss, n
<1>12. p.community = Public /\ p.tag \in Constructed /\ p.tag \in Known(r)
  BY <1>1, <1>3
<1> HIDE DEF fs
<1>13. /\ Message(p, ss) \in Seq(Byte) /\ Len(Message(p, ss)) <= n + 15
       /\ \E c, e : /\ unpack(r, Message(p, ss)) = <<Field(SEQUENCE, c)>>
                    /\ unpack(r, c) = <<Field(INT, 0), Field(OCTETS, Public), Field(p.tag, e)>>
                    /\ unpack(r, e) = fs
  BY <1>2, <1>9, <1>10, <1>11, <1>12, MessageRead
<1>14. PICK c, e : /\ unpack(r, Message(p, ss)) = <<Field(SEQUENCE, c)>>
                   /\ unpack(r, c) = <<Field(INT, 0), Field(OCTETS, Public), Field(tag, e)>>
                   /\ unpack(r, e) = fs
  BY <1>1, <1>13
<1>15. ssmp_decode(<<Field(SEQUENCE, c)>>) = p
  <2>1. unpack("device", e) = <<Field(INT, id), Field(INT, 0), Field(INT, 0), Field(SEQUENCE, v)>>
    BY <1>1, <1>14 DEF r, fs
  <2>2. unpack("device", c) = <<Field(INT, 0), Field(OCTETS, Public), Field(tag, e)>>
    BY <1>14 DEF r
  <2>3. unpack("device", v) = <<Field(SEQUENCE, b)>> /\ unpack("device", b) = <<Field(OID, oid), value>>
    BY <1>1, <1>4 DEF r
  <2>4. ssmp_decode(<<Field(SEQUENCE, c)>>)
        = [tag |-> tag, community |-> Public, id |-> id, oid |-> oid, value |-> value]
    BY <2>1, <2>2, <2>3, RequestIs
  <2> QED
    BY <1>1, <2>4
<1>16. Len(Message(p, ss)) \in Nat
  BY <1>13, LenProperties
<1>17. EncodeRequest(p) \in Seq(Byte) /\ Len(EncodeRequest(p)) <= 129
  BY <1>6, <1>11, <1>13, <1>16
<1>18. ssmp_decode(BER_decode("device", EncodeRequest(p))) = p
  BY <1>6, <1>14, <1>15 DEF BER_decode, r
<1> QED
  BY <1>17, <1>18 DEF p

\* The fields of an answer or of a trap as the host reads them.
LEMMA BoundIs ==
  ASSUME NEW v, NEW b, unpack("host", v) = <<Field(SEQUENCE, b)>>,
         NEW oid, NEW value, unpack("host", b) = <<Field(OID, oid), value>>
  PROVE  Bound(Bindings(v)) /\ Bindings(v)[1][1].value = oid /\ Bindings(v)[1][2] = value
<1> DEFINE list == <<Field(SEQUENCE, b)>>
           rq == <<Field(OID, oid), value>>
           w == [i \in DOMAIN list |-> IF list[i].tag = SEQUENCE THEN unpack("host", list[i].value) ELSE <<>>]
<1>1. Bindings(v) = w
  BY Zenon DEF Bindings
<1>2. DOMAIN list = {1} /\ list[1].tag = SEQUENCE /\ list[1].value = b
  BY DEF Field
<1>3. Len(rq) > 1 /\ rq[1].tag = OID /\ rq[1].value = oid /\ rq[2] = value
  BY DEF Field
<1>4. unpack("host", b) = rq
  OBVIOUS
<1> HIDE DEF list, rq
<1>5. DOMAIN w = {1} /\ w[1] = rq
  BY <1>2, <1>4
<1> HIDE DEF w
<1>6. w # <<>>
  <2>1. DOMAIN <<>> = {}
    OBVIOUS
  <2> QED
    BY <1>5, <2>1
<1>7. Bound(w)
  BY <1>3, <1>5, <1>6 DEF Bound
<1> QED
  BY <1>1, <1>3, <1>5, <1>7

LEMMA HeardIs ==
  ASSUME NEW m, NEW c, unpack("host", m) = <<Field(SEQUENCE, c)>>,
         NEW community, NEW tag, NEW e,
         unpack("host", c) = <<Field(INT, 0), Field(OCTETS, community), Field(tag, e)>>,
         NEW fs, unpack("host", e) = fs
  PROVE  /\ tag = RESPONSE => Decode(m) = decode_PDU(community, fs)
         /\ tag = TRAP => Decode(m) = decode_TRAP(community, fs)
<1> DEFINE one == <<Field(SEQUENCE, c)>>
           message == <<Field(INT, 0), Field(OCTETS, community), Field(tag, e)>>
           tags == <<INT, OCTETS>>
<1>1. 1 <= Len(one) /\ one[1] = Field(SEQUENCE, c)
  OBVIOUS
<1>2. Len(message) = 3 /\ message[1] = Field(INT, 0) /\ message[2] = Field(OCTETS, community) /\ message[3] = Field(tag, e)
  OBVIOUS
<1>3. Len(tags) = 2 /\ DOMAIN tags = {1, 2} /\ tags[1] = INT /\ tags[2] = OCTETS
  OBVIOUS
<1>4. unpack("host", m) = one /\ unpack("host", c) = message
  OBVIOUS
<1> HIDE DEF one, message, tags
<1>5. At(BER_decode("host", m), 1, SEQUENCE, <<>>) = c
  BY <1>1, <1>4, AtIs, Zenon DEF BER_decode
<1>6. message[1].tag = INT /\ message[2].tag = OCTETS /\ message[2].value = community /\ message[3].tag = tag /\ message[3].value = e
  BY <1>2 DEF Field
<1>7. Typed(message, tags) /\ ~(Len(message) < 3)
  BY <1>2, <1>3, <1>6 DEF Typed
<1>8. Decode(m) = IF message[3].tag = RESPONSE THEN decode_PDU(message[2].value, unpack("host", message[3].value))
                  ELSE IF message[3].tag = TRAP THEN decode_TRAP(message[2].value, unpack("host", message[3].value))
                  ELSE Undecodable
  BY <1>4, <1>5, <1>7, Zenon DEF Decode, tags
<1>9. RESPONSE # TRAP
  BY DEF RESPONSE, TRAP
<1> QED
  BY <1>6, <1>8, <1>9

LEMMA AnswerIs ==
  ASSUME NEW community, NEW id, NEW error, NEW index,
         NEW v, NEW b, unpack("host", v) = <<Field(SEQUENCE, b)>>,
         NEW oid, NEW value, unpack("host", b) = <<Field(OID, oid), value>>
  PROVE  decode_PDU(community, <<Field(INT, id), Field(INT, error), Field(INT, index), Field(SEQUENCE, v)>>)
         = [tag |-> RESPONSE, community |-> community, id |-> id, error |-> error, index |-> index,
            oid |-> oid, value |-> value]
<1> DEFINE f == <<Field(INT, id), Field(INT, error), Field(INT, index), Field(SEQUENCE, v)>>
           tags == <<INT, INT, INT, SEQUENCE>>
<1>1. Len(f) = 4 /\ f[1] = Field(INT, id) /\ f[2] = Field(INT, error) /\ f[3] = Field(INT, index) /\ f[4] = Field(SEQUENCE, v)
  OBVIOUS
<1>2. Len(tags) = 4 /\ DOMAIN tags = 1 .. 4 /\ tags[1] = INT /\ tags[2] = INT /\ tags[3] = INT /\ tags[4] = SEQUENCE
  OBVIOUS
<1> HIDE DEF f, tags
<1>3. /\ f[1].tag = INT /\ f[2].tag = INT /\ f[3].tag = INT /\ f[4].tag = SEQUENCE
      /\ f[1].value = id /\ f[2].value = error /\ f[3].value = index /\ f[4].value = v
  BY <1>1 DEF Field
<1>4. Typed(f, tags)
  BY <1>1, <1>2, <1>3 DEF Typed
<1>5. Bound(Bindings(v)) /\ Bindings(v)[1][1].value = oid /\ Bindings(v)[1][2] = value
  BY BoundIs
<1>6. decode_PDU(community, f)
      = [tag |-> RESPONSE, community |-> community, id |-> f[1].value, error |-> f[2].value,
         index |-> f[3].value, oid |-> Bindings(v)[1][1].value, value |-> Bindings(v)[1][2]]
  BY <1>3, <1>4, <1>5, Zenon DEF decode_PDU, tags
<1> QED
  BY <1>3, <1>5, <1>6, Zenon DEF f

LEMMA TrapIs ==
  ASSUME NEW community, NEW enterprise, NEW id, NEW category, NEW event, NEW timestamp,
         NEW v, NEW b, unpack("host", v) = <<Field(SEQUENCE, b)>>,
         NEW oid, NEW value, unpack("host", b) = <<Field(OID, oid), value>>
  PROVE  decode_TRAP(community, <<Field(OID, enterprise), Field(INT, id), Field(INT, category), Field(INT, event),
                                  Field(OCTETS, timestamp), Field(SEQUENCE, v)>>)
         = [tag |-> TRAP, community |-> community, enterprise |-> enterprise, id |-> id, category |-> category,
            event |-> event, timestamp |-> timestamp, oid |-> oid, value |-> value]
<1> DEFINE f == <<Field(OID, enterprise), Field(INT, id), Field(INT, category), Field(INT, event),
                  Field(OCTETS, timestamp), Field(SEQUENCE, v)>>
           tags == <<OID, INT, INT, INT, OCTETS, SEQUENCE>>
<1>1. /\ Len(f) = 6 /\ f[1] = Field(OID, enterprise) /\ f[2] = Field(INT, id) /\ f[3] = Field(INT, category)
      /\ f[4] = Field(INT, event) /\ f[5] = Field(OCTETS, timestamp) /\ f[6] = Field(SEQUENCE, v)
  OBVIOUS
<1>2. /\ Len(tags) = 6 /\ DOMAIN tags = 1 .. 6 /\ tags[1] = OID /\ tags[2] = INT /\ tags[3] = INT
      /\ tags[4] = INT /\ tags[5] = OCTETS /\ tags[6] = SEQUENCE
  OBVIOUS
<1> HIDE DEF f, tags
<1>3. /\ f[1].tag = OID /\ f[2].tag = INT /\ f[3].tag = INT /\ f[4].tag = INT /\ f[5].tag = OCTETS /\ f[6].tag = SEQUENCE
      /\ f[1].value = enterprise /\ f[2].value = id /\ f[3].value = category /\ f[4].value = event
      /\ f[5].value = timestamp /\ f[6].value = v
  BY <1>1 DEF Field
<1>4. Typed(f, tags)
  BY <1>1, <1>2, <1>3 DEF Typed
<1>5. Bound(Bindings(v)) /\ Bindings(v)[1][1].value = oid /\ Bindings(v)[1][2] = value
  BY BoundIs
<1>6. decode_TRAP(community, f)
      = [tag |-> TRAP, community |-> community, enterprise |-> f[1].value, id |-> f[2].value,
         category |-> f[3].value, event |-> f[4].value, timestamp |-> f[5].value,
         oid |-> Bindings(v)[1][1].value, value |-> Bindings(v)[1][2]]
  BY <1>3, <1>4, <1>5, Zenon DEF decode_TRAP, tags
<1> QED
  BY <1>3, <1>5, <1>6, Zenon DEF f

\* What the device answers, the host reads.
LEMMA AnswerRead ==
  ASSUME NEW id \in Word, NEW error \in 0 .. 255, NEW oid, Legible(oid), NEW value \in Plain,
         NEW rq, rq.community = Public, rq.id = id, rq.oid = oid
  PROVE  /\ ssmp_encode(Reply(rq, error, value)) \in Seq(Byte)
         /\ Len(ssmp_encode(Reply(rq, error, value))) <= 129
         /\ Decode(ssmp_encode(Reply(rq, error, value))) = Reply(rq, error, value)
<1> DEFINE p == Reply(rq, error, value)
           r == "host"
           x == IF error = 0 THEN 0 ELSE 1
<1>1. /\ p.tag = RESPONSE /\ p.community = Public /\ p.id = id /\ p.error = error /\ p.index = x
      /\ p.oid = oid /\ p.value = value
      /\ p = [tag |-> RESPONSE, community |-> Public, id |-> id, error |-> error, index |-> x, oid |-> oid, value |-> value]
  BY DEF Reply
<1>2. r \in Sides /\ "device" \in Sides /\ "device" # r
  BY DEF Sides
<1>3. p.tag \in Constructed /\ p.tag \in Known(r)
  BY <1>1 DEF Constructed, Known
<1> HIDE DEF p, r
<1>4. PICK v, b : /\ \A X : Field(SEQUENCE, v) \in X => Carries(r, X, Variable("device", p), Field(SEQUENCE, v), 51)
                  /\ unpack(r, v) = <<Field(SEQUENCE, b)>>
                  /\ unpack(r, b) = <<Field(OID, p.oid), p.value>>
  BY <1>1, <1>2, VariableRead
<1> DEFINE s1 == pack_integer(p.id)
           s2 == pack_integer(p.error)
           s3 == pack_integer(p.index)
           s4 == Variable("device", p)
           f1 == Field(INT, p.id)
           f2 == Field(INT, p.error)
           f3 == Field(INT, p.index)
           f4 == Field(SEQUENCE, v)
           X == {f1, f2, f3, f4}
           ss == <<s1, s2, s3, s4>>
           fs == <<f1, f2, f3, f4>>
           n == 7 + 7 + 3 + 51
<1>5. f1 \in X /\ f2 \in X /\ f3 \in X /\ f4 \in X
  OBVIOUS
<1>6. ssmp_encode(p) = Message(p, ss)
  BY <1>1, Zenon DEF ssmp_encode, ssmp_encode_response
<1>7. p.id \in Word /\ p.error \in Word /\ p.index \in Word /\ p.index \in 0 .. 127
  <2>1. x \in 0 .. 127 /\ x \in 0 .. 255
    OBVIOUS
  <2> HIDE DEF x
  <2> QED
    BY <1>1, <2>1, SmallInt64
<1> HIDE DEF X
<1>8. Carries(r, X, s1, f1, 7) /\ Carries(r, X, s2, f2, 7) /\ Carries(r, X, s3, f3, 3) /\ Carries(r, X, s4, f4, 51)
  BY <1>4, <1>5, <1>7, CarriesInteger
<1>9. Lists(r, X, ss, fs, n)
  <2> HIDE DEF s1, s2, s3, s4, f1, f2, f3, f4
  <2>1. Lists(r, X, <<s1>>, <<f1>>, 7)
    BY <1>8, List1
  <2>2. Lists(r, X, <<s1, s2>>, <<f1, f2>>, 7 + 7)
    BY <1>8, <2>1, List2
  <2>3. Lists(r, X, <<s1, s2, s3>>, <<f1, f2, f3>>, 7 + 7 + 3)
    BY <1>8, <2>2, List3
  <2> QED
    BY <1>8, <2>3, List4
<1>10. Len(ss) <= 15
  <2> HIDE DEF s1, s2, s3, s4
  <2> QED
    OBVIOUS
<1>11. n <= 114 /\ \A y \in Nat : y <= n + 15 => y <= 129
  OBVIOUS
<1> HIDE DEF ss, n
<1>12. p.community = Public /\ p.tag \in Constructed /\ p.tag \in Known(r)
  BY <1>1, <1>3
<1> HIDE DEF fs
<1>13. /\ Message(p, ss) \in Seq(Byte) /\ Len(Message(p, ss)) <= n + 15
       /\ \E c, e : /\ unpack(r, Message(p, ss)) = <<Field(SEQUENCE, c)>>
                    /\ unpack(r, c) = <<Field(INT, 0), Field(OCTETS, Public), Field(p.tag, e)>>
                    /\ unpack(r, e) = fs
  BY <1>2, <1>9, <1>10, <1>11, <1>12, MessageRead
<1>14. PICK c, e : /\ unpack(r, Message(p, ss)) = <<Field(SEQUENCE, c)>>
                   /\ unpack(r, c) = <<Field(INT, 0), Field(OCTETS, Public), Field(RESPONSE, e)>>
                   /\ unpack(r, e) = fs
  BY <1>1, <1>13
<1>15. Decode(Message(p, ss)) = p
  <2>1. fs = <<Field(INT, id), Field(INT, error), Field(INT, x), Field(SEQUENCE, v)>>
    BY <1>1 DEF fs
  <2>2. Decode(Message(p, ss)) = decode_PDU(Public, fs)
    BY <1>14, HeardIs DEF r
  <2>3. unpack("host", v) = <<Field(SEQUENCE, b)>> /\ unpack("host", b) = <<Field(OID, oid), value>>
    BY <1>1, <1>4 DEF r
  <2> HIDE DEF x
  <2>4. decode_PDU(Public, <<Field(INT, id), Field(INT, error), Field(INT, x), Field(SEQUENCE, v)>>)
        = [tag |-> RESPONSE, community |-> Public, id |-> id, error |-> error, index |-> x, oid |-> oid, value |-> value]
    BY <2>3, AnswerIs
  <2> QED
    BY <1>1, <2>1, <2>2, <2>4, Zenon
<1>16. Len(Message(p, ss)) \in Nat
  BY <1>13, LenProperties
<1>17. ssmp_encode(p) \in Seq(Byte) /\ Len(ssmp_encode(p)) <= 129
  BY <1>6, <1>11, <1>13, <1>16
<1>18. Decode(ssmp_encode(p)) = p
  BY <1>6, <1>15
<1> QED
  BY <1>17, <1>18 DEF p

\* And the traps.
LEMMA TrapRead ==
  ASSUME NEW enterprise, Legible(enterprise), NEW id \in Word, NEW category \in 0 .. 127, NEW event \in 0 .. 127,
         NEW timestamp \in Texts30, NEW oid, Legible(oid), NEW value \in Plain,
         NEW p, p = [tag |-> TRAP, community |-> Public, enterprise |-> enterprise, id |-> id, category |-> category,
                     event |-> event, timestamp |-> timestamp, oid |-> oid, value |-> value]
  PROVE  ssmp_encode(p) \in Seq(Byte) /\ Len(ssmp_encode(p)) <= 129 /\ Decode(ssmp_encode(p)) = p
<1> DEFINE r == "host"
<1>1. /\ p.tag = TRAP /\ p.community = Public /\ p.enterprise = enterprise /\ p.id = id /\ p.category = category
      /\ p.event = event /\ p.timestamp = timestamp /\ p.oid = oid /\ p.value = value
  OBVIOUS
<1>2. r \in Sides /\ "device" \in Sides /\ "device" # r
  BY DEF Sides
<1>3. p.tag \in Constructed /\ p.tag \in Known(r)
  BY <1>1 DEF Constructed, Known
<1> HIDE DEF r
<1>4. PICK v, b : /\ \A X : Field(SEQUENCE, v) \in X => Carries(r, X, Variable("device", p), Field(SEQUENCE, v), 51)
                  /\ unpack(r, v) = <<Field(SEQUENCE, b)>>
                  /\ unpack(r, b) = <<Field(OID, p.oid), p.value>>
  BY <1>1, <1>2, VariableRead
<1> DEFINE s1 == pack_OID(p.enterprise)
           s2 == pack_integer(p.id)
           s3 == pack_integer(p.category)
           s4 == pack_integer(p.event)
           s5 == pack_octets(p.timestamp)
           s6 == Variable("device", p)
           f1 == Field(OID, p.enterprise)
           f2 == Field(INT, p.id)
           f3 == Field(INT, p.category)
           f4 == Field(INT, p.event)
           f5 == Field(OCTETS, p.timestamp)
           f6 == Field(SEQUENCE, v)
           X == {f1, f2, f3, f4, f5, f6}
           ss == <<s1, s2, s3, s4, s5, s6>>
           fs == <<f1, f2, f3, f4, f5, f6>>
           n == 15 + 7 + 3 + 3 + 32 + 51
<1>5. f1 \in X /\ f2 \in X /\ f3 \in X /\ f4 \in X /\ f5 \in X /\ f6 \in X
  OBVIOUS
<1>6. ssmp_encode(p) = Message(p, ss)
  <2>1. TRAP # RESPONSE
    BY DEF TRAP, RESPONSE
  <2> QED
    BY <1>1, <2>1, Zenon DEF ssmp_encode, ssmp_encode_trap
<1>7. /\ p.id \in Word /\ p.category \in Word /\ p.category \in 0 .. 127
      /\ p.event \in Word /\ p.event \in 0 .. 127
  <2>1. category \in 0 .. 255 /\ event \in 0 .. 255
    OBVIOUS
  <2> QED
    BY <1>1, <2>1, SmallInt64, Zenon
<1> HIDE DEF X
<1>8. Carries(r, X, s2, f2, 7) /\ Carries(r, X, s3, f3, 3) /\ Carries(r, X, s4, f4, 3) /\ Carries(r, X, s6, f6, 51)
  BY <1>4, <1>5, <1>7, CarriesInteger
<1>8a. Carries(r, X, s1, f1, 15)
  BY <1>1, <1>5, CarriesOID
<1>8b. Carries(r, X, s5, f5, 32)
  <2>1. timestamp \in Texts30 /\ p.timestamp = timestamp /\ Len(timestamp) <= 30
    BY <1>1 DEF Texts30
  <2>2. Carries(r, X, s5, f5, 2 + Len(timestamp)) /\ Len(timestamp) \in Nat
    BY <1>5, <2>1, CarriesOctets
  <2>3. Len(s5) \in Nat
    <3>1. Packs(r, s5, f5)
      BY <2>2 DEF Carries
    <3>2. s5 \in Seq(Byte)
      BY <3>1, PacksType
    <3> QED
      BY <3>2, LenProperties
  <2>4. \A x, y \in Nat : x <= 30 /\ y <= 2 + x => y <= 32
    OBVIOUS
  <2>5. Len(s5) <= 32
    BY <2>1, <2>2, <2>3, <2>4, Zenon DEF Carries
  <2>6. 32 \in Nat
    OBVIOUS
  <2> QED
    BY <2>2, <2>5, <2>6, Zenon DEF Carries
<1>9. Lists(r, X, ss, fs, n)
  <2> HIDE DEF s1, s2, s3, s4, s5, s6, f1, f2, f3, f4, f5, f6
  <2>1. Lists(r, X, <<s1>>, <<f1>>, 15)
    BY <1>8a, List1
  <2>2. Lists(r, X, <<s1, s2>>, <<f1, f2>>, 15 + 7)
    BY <1>8, <2>1, List2
  <2>3. Lists(r, X, <<s1, s2, s3>>, <<f1, f2, f3>>, 15 + 7 + 3)
    BY <1>8, <2>2, List3
  <2>4. Lists(r, X, <<s1, s2, s3, s4>>, <<f1, f2, f3, f4>>, 15 + 7 + 3 + 3)
    BY <1>8, <2>3, List4
  <2>5. Lists(r, X, <<s1, s2, s3, s4, s5>>, <<f1, f2, f3, f4, f5>>, 15 + 7 + 3 + 3 + 32)
    BY <1>8b, <2>4, List5
  <2> QED
    BY <1>8, <2>5, List6
<1>10. Len(ss) <= 15
  <2> HIDE DEF s1, s2, s3, s4, s5, s6
  <2> QED
    OBVIOUS
<1>11. n <= 114 /\ \A y \in Nat : y <= n + 15 => y <= 129
  OBVIOUS
<1> HIDE DEF ss, n
<1>12. p.community = Public /\ p.tag \in Constructed /\ p.tag \in Known(r)
  BY <1>1, <1>3
<1> HIDE DEF fs
<1>13. /\ Message(p, ss) \in Seq(Byte) /\ Len(Message(p, ss)) <= n + 15
       /\ \E c, e : /\ unpack(r, Message(p, ss)) = <<Field(SEQUENCE, c)>>
                    /\ unpack(r, c) = <<Field(INT, 0), Field(OCTETS, Public), Field(p.tag, e)>>
                    /\ unpack(r, e) = fs
  BY <1>2, <1>9, <1>10, <1>11, <1>12, MessageRead
<1>14. PICK c, e : /\ unpack(r, Message(p, ss)) = <<Field(SEQUENCE, c)>>
                   /\ unpack(r, c) = <<Field(INT, 0), Field(OCTETS, Public), Field(TRAP, e)>>
                   /\ unpack(r, e) = fs
  BY <1>1, <1>13
<1>15. Decode(Message(p, ss)) = p
  <2>1. fs = <<Field(OID, enterprise), Field(INT, id), Field(INT, category), Field(INT, event),
               Field(OCTETS, timestamp), Field(SEQUENCE, v)>>
    BY <1>1 DEF fs
  <2>2. Decode(Message(p, ss)) = decode_TRAP(Public, fs)
    BY <1>14, HeardIs DEF r
  <2>3. unpack("host", v) = <<Field(SEQUENCE, b)>> /\ unpack("host", b) = <<Field(OID, oid), value>>
    BY <1>1, <1>4 DEF r
  <2>4. decode_TRAP(Public, <<Field(OID, enterprise), Field(INT, id), Field(INT, category), Field(INT, event),
                              Field(OCTETS, timestamp), Field(SEQUENCE, v)>>)
        = [tag |-> TRAP, community |-> Public, enterprise |-> enterprise, id |-> id, category |-> category,
           event |-> event, timestamp |-> timestamp, oid |-> oid, value |-> value]
    BY <2>3, TrapIs
  <2> QED
    BY <2>1, <2>2, <2>4, Zenon
<1>16. Len(Message(p, ss)) \in Nat
  BY <1>13, LenProperties
<1>17. ssmp_encode(p) \in Seq(Byte) /\ Len(ssmp_encode(p)) <= 129
  BY <1>6, <1>11, <1>13, <1>16
<1> QED
  BY <1>6, <1>15, <1>17

\* An OID under 0.1.3 whose other numbers take at most 12 bytes.
Takes12(s, k) == s \in Seq(Word) /\ Varints(s) \in Seq(Byte) /\ Len(Varints(s)) <= k

LEMMA TakesMore ==
  ASSUME NEW s, NEW k \in Nat, Takes12(s, k), NEW v \in 0 .. 127
  PROVE  Takes12(Append(s, v), k + 1)
<1>1. s \in Seq(Word) /\ Varints(s) \in Seq(Byte) /\ Len(Varints(s)) <= k /\ v \in Word /\ v \in Nat /\ v \in Byte
  <2>1. v \in 0 .. 255 /\ v \in Nat
    OBVIOUS
  <2>2. v \in Word
    BY <2>1, SmallInt64, Zenon
  <2>3. v \in Byte
    BY <2>1 DEF Byte
  <2> QED
    BY <2>1, <2>2, <2>3, Zenon DEF Takes12
<1>2. s \in Seq(Nat)
  <2>1. Word \subseteq Nat
    BY DEF Word
  <2> QED
    BY <1>1, <2>1, SeqMonotonic
<1> DEFINE one == <<v>>
<1>3. pack_varint(v) = one
  BY VarintSmall
<1>4. one \in Seq(Byte) /\ Len(one) = 1
  BY <1>1
<1>5. Varints(Append(s, v)) = Cat(Varints(s), one)
  BY <1>1, <1>2, <1>3, VarintsType
<1> HIDE DEF one
<1>6. Cat(Varints(s), one) \in Seq(Byte) /\ Len(Cat(Varints(s), one)) = Len(Varints(s)) + 1
  BY <1>1, <1>4, CatAt
<1>7. Len(Varints(s)) \in Nat
  BY <1>1, LenProperties
<1>8. \A x \in Nat : x <= k => x + 1 <= k + 1
  OBVIOUS
<1>9. Append(s, v) \in Seq(Word)
  BY <1>1, AppendProperties
<1> QED
  BY <1>1, <1>5, <1>6, <1>7, <1>8, <1>9, Zenon DEF Takes12

LEMMA LegibleOID ==
  ASSUME NEW s, Takes12(s, 12), NEW oid, oid = <<0, 1, 3>> \o s
  PROVE  Legible(oid)
<1> DEFINE a == <<0, 1, 3>>
<1>1. s \in Seq(Word) /\ Varints(s) \in Seq(Byte) /\ Len(Varints(s)) <= 12
  BY DEF Takes12
<1>2. a \in Seq(Word) /\ Len(a) = 3 /\ a[1] = 0 /\ a[2] = 1 /\ a[3] = 3
  <2>1. 0 \in 0 .. 255 /\ 1 \in 0 .. 255 /\ 3 \in 0 .. 255
    OBVIOUS
  <2>2. 0 \in Word /\ 1 \in Word /\ 3 \in Word
    BY <2>1, SmallInt64
  <2> QED
    BY <2>2
<1>3. oid = Cat(a, s)
  BY DEF Cat
<1> HIDE DEF a
<1>4. /\ oid \in Seq(Word) /\ Len(oid) = 3 + Len(s) /\ Len(s) \in Nat
      /\ \A i \in 1 .. 3 + Len(s) : oid[i] = IF i <= 3 THEN a[i] ELSE s[i - 3]
  <2>1. /\ Cat(a, s) \in Seq(Word) /\ Len(Cat(a, s)) = Len(a) + Len(s)
        /\ \A i \in 1 .. Len(a) + Len(s) : Cat(a, s)[i] = IF i <= Len(a) THEN a[i] ELSE s[i - Len(a)]
    BY <1>1, <1>2, CatAt, Zenon
  <2> QED
    BY <1>1, <1>2, <1>3, <2>1, LenProperties, Zenon
<1>5. oid[1] = 0 /\ oid[2] = 1 /\ oid[3] = 3
  <2>1. 1 \in 1 .. 3 + Len(s) /\ 2 \in 1 .. 3 + Len(s) /\ 3 \in 1 .. 3 + Len(s)
    BY <1>4
  <2>2. 1 <= 3 /\ 2 <= 3 /\ 3 <= 3
    OBVIOUS
  <2> QED
    BY <1>2, <1>4, <2>1, <2>2
<1>6. Proper(oid)
  <2>1. Len(oid) >= 3
    BY <1>4
  <2>2. 40 * oid[2] + oid[3] < 256 /\ oid[3] < 40
    BY <1>5
  <2> QED
    BY <1>4, <1>5, <2>1, <2>2 DEF Proper
<1>7. PICK t \in Seq(Word) : /\ oid = Cat(<<0, oid[2], oid[3]>>, t) /\ Len(t) = Len(oid) - 3
                             /\ Numbering(oid) = Cat(<<40 * oid[2] + oid[3]>>, Varints(t))
                             /\ \A i \in 1 .. Len(t) : t[i] = oid[i + 3]
  BY <1>6, NumberingIs
<1>8. t = s
  <2>1. Len(t) = Len(s)
    BY <1>4, <1>7
  <2>2. ASSUME NEW i \in 1 .. Len(s) PROVE t[i] = s[i]
    <3>1. i + 3 \in 1 .. 3 + Len(s) /\ ~(i + 3 <= 3) /\ (i + 3) - 3 = i
      BY <1>4
    <3> QED
      BY <1>4, <1>7, <2>1, <3>1
  <2> QED
    BY <1>1, <1>7, <2>1, <2>2, SeqEqual
<1> DEFINE g == <<43>>
<1>9. Numbering(oid) = Cat(g, Varints(s))
  BY <1>5, <1>7, <1>8
<1>10. g \in Seq(Byte) /\ Len(g) = 1
  BY DEF Byte
<1> HIDE DEF g
<1>11. Len(Numbering(oid)) = 1 + Len(Varints(s)) /\ Len(Varints(s)) \in Nat
  BY <1>1, <1>9, <1>10, CatAt, LenProperties
<1>12. \A x \in Nat : x <= 12 => 1 + x <= 13
  OBVIOUS
<1> QED
  BY <1>1, <1>6, <1>11, <1>12, Zenon DEF Legible

\* So are those of the device, which are under Base.
LEMMA UnderBase ==
  ASSUME NEW a \in 0 .. 127, NEW b \in 0 .. 127, NEW c \in 0 .. 127
  PROVE  Legible(Base) /\ Legible(Base \o <<a, b>>) /\ Legible(Base \o <<a, b, c>>)
<1> DEFINE H == <<6, 1, 4, 1, 65536>>
           A == <<6, 1, 4, 1, 65536, a>>
           B == <<6, 1, 4, 1, 65536, a, b>>
           C == <<6, 1, 4, 1, 65536, a, b, c>>
           Z == <<0, 1, 3>>
<1>1. Takes12(H, 9)
  <2>1. Takes12(<<>>, 0)
    <3>1. <<>> \in Seq(Nat) /\ <<>> \in Seq(Word) /\ <<>> \in Seq(Byte) /\ Len(<<>>) = 0
      BY EmptySeq
    <3>2. Varints(<<>>) = <<>>
      BY <3>1, VarintsType
    <3>3. Len(Varints(<<>>)) <= 0
      BY <3>1, <3>2
    <3> QED
      BY <3>1, <3>2, <3>3 DEF Takes12
  <2>2. Takes12(Append(<<>>, 6), 1)
    <3>1. 0 \in Nat /\ 6 \in 0 .. 127 /\ 0 + 1 = 1
      OBVIOUS
    <3>2. Takes12(Append(<<>>, 6), 0 + 1)
      BY <2>1, <3>1, TakesMore, Zenon
    <3> QED
      BY <3>1, <3>2, Zenon
  <2> DEFINE s1 == <<6>>
             s2 == <<6, 1>>
             s3 == <<6, 1, 4>>
             s4 == <<6, 1, 4, 1>>
             w == 65536
  <2>3. s1 = Append(<<>>, 6) /\ s2 = Append(s1, 1) /\ s3 = Append(s2, 4) /\ s4 = Append(s3, 1) /\ H = Append(s4, w)
    OBVIOUS
  <2>8. w \in Word /\ w \in Nat
    BY DEF Word
  <2> HIDE DEF s1, s2, s3, s4, H, w
  <2>4. Takes12(s1, 1)
    BY <2>2, <2>3
  <2>5. Takes12(s2, 1 + 1)
    BY <2>3, <2>4, TakesMore
  <2>6. Takes12(s3, 2 + 1)
    BY <2>3, <2>5, TakesMore
  <2>7. Takes12(s4, 3 + 1)
    BY <2>3, <2>6, TakesMore
  <2>9. /\ s4 \in Seq(Word) /\ Varints(s4) \in Seq(Byte) /\ Len(Varints(s4)) <= 4 /\ Len(Varints(s4)) \in Nat
    BY <2>7, LenProperties DEF Takes12
  <2>10. s4 \in Seq(Nat)
    <3>1. Word \subseteq Nat
      BY DEF Word
    <3> QED
      BY <2>9, <3>1, SeqMonotonic
  <2>11. pack_varint(w) \in Seq(Byte) /\ Len(pack_varint(w)) \in 1 .. 5
    BY <2>8, VarintType
  <2>12. Varints(H) = Cat(Varints(s4), pack_varint(w))
    <3>1. Varints(Append(s4, w)) = Cat(Varints(s4), pack_varint(w))
      BY <2>8, <2>10, VarintsType, Zenon
    <3> QED
      BY <2>3, <3>1, Zenon
  <2>13. Varints(H) \in Seq(Byte) /\ Len(Varints(H)) = Len(Varints(s4)) + Len(pack_varint(w))
    BY <2>9, <2>11, <2>12, CatAt
  <2>14. \A x \in Nat, y \in 1 .. 5 : x <= 4 => x + y <= 9
    OBVIOUS
  <2>15. H \in Seq(Word)
    BY <2>3, <2>8, <2>9, AppendProperties
  <2>16. Len(Varints(s4)) + Len(pack_varint(w)) <= 9
    BY <2>9, <2>11, <2>14, Zenon
  <2> QED
    BY <2>13, <2>15, <2>16, Zenon DEF Takes12
<1>2. A = Append(H, a) /\ B = Append(A, b) /\ C = Append(B, c)
  OBVIOUS
<1>3. Base = Z \o H /\ Base \o <<a, b>> = Z \o B /\ Base \o <<a, b, c>> = Z \o C
  BY DEF Base
<1> HIDE DEF H, A, B, C, Z
<1>0. 9 \in Nat /\ 10 \in Nat /\ 11 \in Nat /\ 9 + 1 = 10 /\ 10 + 1 = 11 /\ 11 + 1 = 12
  OBVIOUS
<1>4. Takes12(A, 9 + 1)
  BY <1>0, <1>1, <1>2, TakesMore, Zenon
<1>5. Takes12(B, 10 + 1)
  BY <1>0, <1>2, <1>4, TakesMore, Zenon
<1>6. Takes12(C, 11 + 1)
  BY <1>0, <1>2, <1>5, TakesMore, Zenon
<1>7. ASSUME NEW s, NEW k \in 0 .. 12, Takes12(s, k) PROVE Takes12(s, 12)
  <2>1. Len(Varints(s)) \in Nat
    BY <1>7, LenProperties DEF Takes12
  <2>2. \A x \in Nat : x <= k => x <= 12
    OBVIOUS
  <2> QED
    BY <1>7, <2>1, <2>2, Zenon DEF Takes12
<1>8. Takes12(H, 12) /\ Takes12(B, 12) /\ Takes12(C, 12)
  <2>1. 9 \in 0 .. 12 /\ 11 \in 0 .. 12
    OBVIOUS
  <2> QED
    BY <1>0, <1>1, <1>5, <1>6, <1>7, <2>1, Zenon
<1> QED
  BY <1>3, <1>8, LegibleOID DEF Z

LEMMA OIDsLegible == \A oid \in OIDs \cup {Base} : Legible(oid)
<1>1. ASSUME NEW a \in 0 .. 127, NEW b \in 0 .. 127, NEW c \in 0 .. 127
      PROVE  (Base \o <<a, b>>) \o <<c>> = Base \o <<a, b, c>>
  BY DEF Base
<1>2. \A k \in 1 .. 11 : Legible(CONTROLLER(k))
  <2> SUFFICES ASSUME NEW k \in 1 .. 11 PROVE Legible(CONTROLLER(k))
    OBVIOUS
  <2>1. 2 \in 0 .. 127 /\ k \in 0 .. 127
    OBVIOUS
  <2> QED
    BY <2>1, UnderBase, Zenon DEF CONTROLLER
<1>3. \A e \in 1 .. 11 : Legible(FLAG(e))
  <2> SUFFICES ASSUME NEW e \in 1 .. 11 PROVE Legible(FLAG(e))
    OBVIOUS
  <2>1. 2 \in 0 .. 127 /\ 9 \in 0 .. 127 /\ e \in 0 .. 127
    OBVIOUS
  <2>2. FLAG(e) = Base \o <<2, 9, e>>
    BY <1>1, <2>1, Zenon DEF FLAG, SYSERROR, CONTROLLER
  <2> QED
    BY <2>1, <2>2, UnderBase, Zenon
<1>4. \A k \in 1 .. 9 : \A oid \in DOOR(k) : Legible(oid)
  <2> SUFFICES ASSUME NEW k \in 1 .. 9, NEW d \in Doors PROVE Legible(Base \o <<3, d, k>>)
    BY DEF DOOR
  <2>1. 3 \in 0 .. 127 /\ d \in 0 .. 127 /\ k \in 0 .. 127
    BY DEF Doors
  <2> QED
    BY <2>1, UnderBase, Zenon
<1>5. Legible(BOARD_ID) /\ Legible(INTERLOCK) /\ Legible(ALARM(1)) /\ Legible(ALARM(2)) /\ Legible(Base)
  <2>1. 0 \in 0 .. 127 /\ 1 \in 0 .. 127 /\ 2 \in 0 .. 127 /\ 3 \in 0 .. 127 /\ 4 \in 0 .. 127
    OBVIOUS
  <2> QED
    BY <2>1, UnderBase, Zenon DEF BOARD_ID, INTERLOCK, ALARM
<1>6. {ID, VERSION, RELEASED, DATETIME, SYSERROR, SYSINFO} \subseteq {CONTROLLER(k) : k \in 1 .. 11}
  <2>1. 1 \in 1 .. 11 /\ 2 \in 1 .. 11 /\ 3 \in 1 .. 11 /\ 8 \in 1 .. 11 /\ 9 \in 1 .. 11 /\ 10 \in 1 .. 11
    OBVIOUS
  <2> QED
    BY <2>1, Zenon DEF ID, VERSION, RELEASED, DATETIME, SYSERROR, SYSINFO
<1>7. \A oid \in MODES \cup DELAYS \cup UNLOCKED \cup OPEN \cup BUTTONS \cup SWIPES \cup KEYCODES \cup ACCESS : Legible(oid)
  <2>1. 1 \in 1 .. 9 /\ 2 \in 1 .. 9 /\ 4 \in 1 .. 9 /\ 5 \in 1 .. 9 /\ 6 \in 1 .. 9 /\ 7 \in 1 .. 9 /\ 8 \in 1 .. 9 /\ 9 \in 1 .. 9
    OBVIOUS
  <2> QED
    BY <1>4, <2>1, Zenon DEF MODES, DELAYS, UNLOCKED, OPEN, BUTTONS, SWIPES, KEYCODES, ACCESS
<1>8. \A oid \in {ID, VERSION, RELEASED, DATETIME, SYSERROR, SYSINFO} : Legible(oid)
  BY <1>2, <1>6
<1>9. \A oid \in FLAGS : Legible(oid)
  BY <1>3, Zenon DEF FLAGS
<1>10. \A oid \in {BOARD_ID, INTERLOCK, ALARM(1), ALARM(2), Base} : Legible(oid)
  BY <1>5
<1>11. Gettable \subseteq {ID, VERSION, RELEASED, DATETIME, SYSERROR, SYSINFO} \cup FLAGS
         \cup {BOARD_ID, INTERLOCK, ALARM(1), ALARM(2), Base}
         \cup (MODES \cup DELAYS \cup UNLOCKED \cup OPEN \cup BUTTONS \cup SWIPES \cup KEYCODES \cup ACCESS)
  BY Zenon DEF Gettable
<1>12. Settable \subseteq {ID, VERSION, RELEASED, DATETIME, SYSERROR, SYSINFO} \cup FLAGS
         \cup {BOARD_ID, INTERLOCK, ALARM(1), ALARM(2), Base}
         \cup (MODES \cup DELAYS \cup UNLOCKED \cup OPEN \cup BUTTONS \cup SWIPES \cup KEYCODES \cup ACCESS)
  BY Zenon DEF Settable
<1> QED
  BY <1>7, <1>8, <1>9, <1>10, <1>11, <1>12 DEF OIDs

\* What the requests are for the theorem: those the host can make, of numbers
\* and texts the packets have room for.
Writable(r) ==
  /\ r.tag \in {GET, SET} /\ Legible(r.oid) /\ r.value \in Plain
  /\ r.tag = GET => r.value = Nothing
Roomy ==
  /\ \A r \in Requests : Writable(r)
  /\ FirstId + MaxSent <= 65536 * 65536 /\ Texts \subseteq Texts30 /\ Masks \subseteq Word

LEMMA FitsIs ==
  ASSUME NEW s \in Seq(Byte), Len(s) <= 129
  PROVE  Fits(s)
<1>1. Len(s) \in Nat
  BY LenProperties
<1>2. Len(s) <= DATA_SIZE
  BY <1>1 DEF DATA_SIZE
<1> QED
  BY <1>2 DEF Fits

LEMMA AnswerableIsPlain == Roomy => Answerable \subseteq Plain /\ Codes \subseteq 0 .. 255
<1> SUFFICES ASSUME Roomy PROVE Answerable \subseteq Plain /\ Codes \subseteq 0 .. 255
  OBVIOUS
<1>1. Strings \subseteq Plain
  BY DEF Roomy, Strings, Plain
<1>2. Booleans \subseteq Plain
  BY DEF Booleans, Boolean, Plain
<1>3. {Nothing} \subseteq Plain
  BY DEF Plain
<1>4. Masks \cup 0 .. 60 \cup {255, 405419896} \subseteq Word
  <2>1. 405419896 \in Word
    BY DEF Word
  <2>2. 0 .. 60 \subseteq 0 .. 255 /\ 255 \in 0 .. 255
    OBVIOUS
  <2>3. 0 .. 60 \subseteq Word /\ 255 \in Word
    BY <2>2, SmallInt64
  <2> QED
    BY <2>1, <2>3 DEF Roomy
<1>5. {Number(n) : n \in Masks \cup 0 .. 60 \cup {255, 405419896}} \subseteq Plain
  <2> SUFFICES ASSUME NEW n \in Masks \cup 0 .. 60 \cup {255, 405419896} PROVE Number(n) \in Plain
    OBVIOUS
  <2>1. n \in Word
    BY <1>4
  <2> QED
    BY <2>1 DEF Number, Plain
<1>6. Codes \subseteq 0 .. 255
  BY DEF Codes, NONE, NO_SUCH_OBJECT, BAD_VALUE, READONLY, NO_ACCESS, WRONG_TYPE, COMMIT_FAILED, NOT_WRITABLE,
         INVALID_STATE
<1> QED
  BY <1>1, <1>2, <1>3, <1>5, <1>6 DEF Answerable

\* Encoding and decoding of the source are what Link asks of its own
\* (CodecAssumption): a request the host encodes fits a packet, and the device
\* decodes it to the same request; and so with the answers and the traps that
\* the device encodes and the host decodes (encoding/ASN.1, encoding/ssmp,
\* zero2w/rpcd/encoding/ASN.1).
THEOREM CodecHolds ==
  ASSUME Roomy
  PROVE  /\ \A p \in Asked : Fits(EncodeRequest(p)) /\ ssmp_decode(BER_decode("device", EncodeRequest(p))) = p
         /\ \A p \in (UNION {Answered(rq) : rq \in Asked}) \cup {Trap(e, t) : e \in Events, t \in Texts} :
              Fits(ssmp_encode(p)) /\ Decode(ssmp_encode(p)) = p
<1>1. ASSUME NEW r \in Requests, NEW n \in 0 .. MaxSent - 1
      PROVE  /\ FirstId + n \in Word /\ r.tag \in {GET, SET} /\ Legible(r.oid) /\ r.value \in Plain
             /\ r.tag = GET => r.value = Nothing
  <2>1. FirstId \in Nat /\ MaxSent \in Nat /\ FirstId + MaxSent <= 65536 * 65536
    BY LinkAssumption DEF Roomy
  <2>2. FirstId + n \in Nat /\ FirstId + n < 65536 * 65536
    BY <2>1
  <2>3. FirstId + n \in Word
    BY <2>2 DEF Word
  <2> QED
    BY <2>3 DEF Roomy, Writable
<1>2. ASSUME NEW p \in Asked
      PROVE  \E r \in Requests : \E n \in 0 .. MaxSent - 1 : p = Request(r.tag, FirstId + n, r.oid, r.value)
  BY <1>2 DEF Asked
<1>3. ASSUME NEW p \in Asked
      PROVE  Fits(EncodeRequest(p)) /\ ssmp_decode(BER_decode("device", EncodeRequest(p))) = p
  <2>1. PICK r \in Requests, n \in 0 .. MaxSent - 1 : p = Request(r.tag, FirstId + n, r.oid, r.value)
    BY <1>2, <1>3
  <2> DEFINE id == FirstId + n
             tag == r.tag
             oid == r.oid
             value == r.value
  <2>2. id \in Word /\ tag \in {GET, SET} /\ Legible(oid) /\ value \in Plain /\ (tag = GET => value = Nothing)
    BY <1>1
  <2>3. p = Request(tag, id, oid, value)
    BY <2>1
  <2> HIDE DEF id, tag, oid, value
  <2>4. /\ EncodeRequest(Request(tag, id, oid, value)) \in Seq(Byte)
        /\ Len(EncodeRequest(Request(tag, id, oid, value))) <= 129
        /\ ssmp_decode(BER_decode("device", EncodeRequest(Request(tag, id, oid, value))))
           = Request(tag, id, oid, value)
    BY <2>2, RequestRead
  <2> QED
    BY <2>3, <2>4, FitsIs
<1>4. ASSUME NEW rq \in Asked, NEW p \in Answered(rq)
      PROVE  Fits(ssmp_encode(p)) /\ Decode(ssmp_encode(p)) = p
  <2>1. PICK r \in Requests, n \in 0 .. MaxSent - 1 : rq = Request(r.tag, FirstId + n, r.oid, r.value)
    BY <1>2, <1>4
  <2>2. rq.community = Public /\ rq.id = FirstId + n /\ rq.oid = r.oid /\ rq.value = r.value
    BY <2>1 DEF Request
  <2>3. PICK error \in Codes, value \in Answerable \cup {rq.value} : p = Reply(rq, error, value)
    BY <1>4 DEF Answered
  <2>4. error \in 0 .. 255 /\ value \in Plain
    BY <1>1, <2>2, <2>3, AnswerableIsPlain
  <2> DEFINE id == FirstId + n
             oid == r.oid
  <2>5. rq.id = id /\ id \in Word /\ rq.oid = oid /\ Legible(oid)
    BY <1>1, <2>2
  <2> HIDE DEF id, oid
  <2>6. /\ ssmp_encode(Reply(rq, error, value)) \in Seq(Byte)
        /\ Len(ssmp_encode(Reply(rq, error, value))) <= 129
        /\ Decode(ssmp_encode(Reply(rq, error, value))) = Reply(rq, error, value)
    <3>1. /\ id \in Word /\ error \in 0 .. 255 /\ Legible(oid) /\ value \in Plain
          /\ rq.community = Public /\ rq.id = id /\ rq.oid = oid
      BY <2>2, <2>4, <2>5
    <3> QED
      BY <3>1, AnswerRead
  <2> QED
    BY <2>3, <2>6, FitsIs
<1>5. ASSUME NEW e \in Events, NEW t \in Texts
      PROVE  Fits(ssmp_encode(Trap(e, t))) /\ Decode(ssmp_encode(Trap(e, t))) = Trap(e, t)
  <2> DEFINE p == Trap(e, t)
             id == 405419896
  <2>1. t \in Texts30 /\ id \in Word
    BY DEF Roomy, Word
  <2>2. Legible(e.oid) /\ e.value \in Plain
    <3>1. e \in TRAPS
      BY LinkAssumption
    <3>2. e.oid \in OIDs /\ e.value \in Strings \cup Booleans
      <4>1. {FLAG(1), FLAG(9)} \subseteq FLAGS
        BY DEF FLAGS
      <4>2. Boolean(TRUE) \in Booleans
        BY DEF Booleans
      <4>3. e.oid \in FLAGS \cup OPEN \cup BUTTONS \cup UNLOCKED \cup SWIPES \cup KEYCODES
        BY <3>1, <4>1 DEF TRAPS
      <4>4. e.value \in Strings \cup Booleans
        BY <3>1, <4>2 DEF TRAPS
      <4> QED
        BY <4>3, <4>4 DEF OIDs, Gettable
    <3> QED
      BY <3>2, OIDsLegible, AnswerableIsPlain DEF Answerable
  <2>3. Legible(Base)
    BY OIDsLegible
  <2> HIDE DEF id
  <2>4. p = [tag |-> TRAP, community |-> Public, enterprise |-> Base, id |-> id, category |-> 6,
             event |-> 0, timestamp |-> t, oid |-> e.oid, value |-> e.value]
    BY DEF Trap, id
  <2>5. 6 \in 0 .. 127 /\ 0 \in 0 .. 127
    OBVIOUS
  <2> HIDE DEF p
  <2>6. ssmp_encode(p) \in Seq(Byte) /\ Len(ssmp_encode(p)) <= 129 /\ Decode(ssmp_encode(p)) = p
    <3> DEFINE oid == e.oid
               value == e.value
    <3>1. Legible(oid) /\ value \in Plain
      BY <2>2
    <3>2. p = [tag |-> TRAP, community |-> Public, enterprise |-> Base, id |-> id, category |-> 6,
               event |-> 0, timestamp |-> t, oid |-> oid, value |-> value]
      BY <2>4
    <3> HIDE DEF oid, value
    <3> QED
      BY <2>1, <2>3, <2>5, <3>1, <3>2, TrapRead
  <2>7. Fits(ssmp_encode(p)) /\ Decode(ssmp_encode(p)) = p
    BY <2>6, FitsIs
  <2> QED
    BY <2>7 DEF p
<1> QED
  BY <1>3, <1>4, <1>5

-----------------------------------------------------------------------------
(***************************************************************************)
(* The types of what the device makes of any bytes.                        *)
(***************************************************************************)
LEMMA SliceType ==
  ASSUME NEW S, NEW s \in Seq(S), NEW i \in Nat, NEW n \in Nat, n <= Len(s)
  PROVE  SubSeq(s, i + 1, n) \in Seq(S)
<1>1. Len(s) \in Nat /\ \A k \in 1 .. Len(s) : s[k] \in S
  BY LenProperties, ElementOfSeq
<1>2. i + 1 \in Int /\ n \in Int /\ \A k \in i + 1 .. n : s[k] \in S
  BY <1>1
<1> QED
  BY <1>2, SubSeqProperties

LEMMA LengthType ==
  ASSUME NEW b \in Seq(Byte)
  PROVE  /\ unpack_length("device", b).n \in Nat /\ unpack_length("device", b).rest \in Seq(Byte)
<1>1. CASE b = <<>>
  BY <1>1 DEF unpack_length
<1>2. CASE b # <<>>
  <2>1. Tail(b) \in Seq(Byte) /\ b[1] \in Byte /\ Len(b) \in Nat
    BY <1>2, HeadTailProperties, LenProperties
  <2>2. CASE b[1] < 128
    <3>1. unpack_length("device", b) = [n |-> b[1], rest |-> Tail(b), ok |-> TRUE]
      BY <1>2, <2>2, Zenon DEF unpack_length
    <3>2. \A x \in Byte : x \in Nat
      BY DEF Byte
    <3>3. b[1] \in Nat
      BY <2>1, <3>2, Zenon
    <3> QED
      BY <2>1, <3>1, <3>3
  <2>3. CASE ~(b[1] < 128)
    <3> DEFINE tail == SubSeq(b, 1 + 1, Len(b))
               m == b[1] - 128
               k == Min({m, Len(tail)})
               c == SubSeq(tail, 1, k)
    <3>1. tail \in Seq(Byte)
      BY <2>1, SliceType
    <3>2. m \in Nat
      <4>1. \A x \in Byte : ~(x < 128) => x - 128 \in Nat
        BY DEF Byte
      <4> QED
        BY <2>1, <2>3, <4>1, Zenon
    <3>3. unpack_length("device", b).n = Base256(0, c) /\ unpack_length("device", b).rest = SubSeq(tail, k + 1, Len(tail))
      <4>1. unpack_length("device", b) =
              [n |-> Base256(0, c), rest |-> SubSeq(tail, k + 1, Len(tail)), ok |-> k = m]
        <5>1. "device" # "host"
          OBVIOUS
        <5> QED
          BY <1>2, <2>3, <5>1, Zenon DEF unpack_length
      <4> HIDE DEF tail, c, k, m
      <4> QED
        BY <4>1
    <3> HIDE DEF m, tail
    <3>4. Len(tail) \in Nat
      BY <3>1, LenProperties
    <3>5. k = IF m <= Len(tail) THEN m ELSE Len(tail)
      BY <3>2, <3>4, MinOfTwo
    <3> HIDE DEF k
    <3>6. k \in Nat /\ k <= Len(tail)
      BY <3>2, <3>4, <3>5
    <3>7. SubSeq(tail, k + 1, Len(tail)) \in Seq(Byte)
      BY <3>1, <3>4, <3>6, SliceType
    <3>8. c \in Seq(Byte)
      <4>1. SubSeq(tail, 0 + 1, k) \in Seq(Byte)
        BY <3>1, <3>6, SliceType
      <4> QED
        BY <4>1
    <3> HIDE DEF c
    <3>9. Base256(0, c) \in Nat
      <4>1. 0 \in Nat
        OBVIOUS
      <4> QED
        BY <3>8, <4>1, Base256Type
    <3> QED
      BY <3>3, <3>7, <3>9
  <2> QED
    BY <2>2, <2>3
<1> QED
  BY <1>1, <1>2

LEMMA ContentsType ==
  ASSUME NEW l, l.n \in Nat, l.rest \in Seq(Byte)
  PROVE  /\ Contents(l) \in Seq(Byte)
         /\ SubSeq(l.rest, l.n + 1, Len(l.rest)) \in Seq(Byte)
<1> DEFINE k == Min({l.n, Len(l.rest)})
<1>1. Len(l.rest) \in Nat
  BY LenProperties
<1>2. k = IF l.n <= Len(l.rest) THEN l.n ELSE Len(l.rest)
  BY <1>1, MinOfTwo
<1>3. Contents(l) = SubSeq(l.rest, 0 + 1, k)
  BY DEF Contents
<1> HIDE DEF k
<1>4. k \in Nat /\ k <= Len(l.rest) /\ 0 \in Nat
  BY <1>1, <1>2
<1>5. SubSeq(l.rest, 0 + 1, k) \in Seq(Byte)
  BY <1>4, SliceType
<1>6. SubSeq(l.rest, l.n + 1, Len(l.rest)) \in Seq(Byte)
  BY <1>1, SliceType
<1> QED
  BY <1>3, <1>5, <1>6

\* The numbers of an OID, whatever its bytes.
LEMMA OIDType ==
  ASSUME NEW c \in Seq(Byte)
  PROVE  unpack_OID(c) \in Seq(Nat)
<1>1. CASE c = <<>>
  <2>1. <<0>> \in Seq(Nat)
    OBVIOUS
  <2> QED
    BY <1>1, <2>1 DEF unpack_OID
<1>2. CASE c # <<>>
  <2> DEFINE w == <<0, c[1] \div 40, c[1] % 40>>
             t == Tail(c)
  <2>1. t \in Seq(Byte) /\ c[1] \in Byte /\ Len(t) = Len(c) - 1 /\ Len(c) \in Nat
    BY <1>2, HeadTailProperties, LenProperties
  <2>2. unpack_OID(c) = Subs(w, t)[Len(c) - 1].oid
    BY <1>2, Zenon DEF unpack_OID
  <2>3. w \in Seq(Nat)
    <3>0. \A b \in Byte : b \div 40 \in Nat
      BY DEF Byte
    <3>5. \A b \in Byte : b % 40 \in Nat
      BY DEF Byte
    <3>1. c[1] \div 40 \in Nat
      BY <2>1, <3>0, Zenon
    <3>2. c[1] % 40 \in Nat
      BY <2>1, <3>5, Zenon
    <3> DEFINE x == c[1] \div 40
               y == c[1] % 40
    <3> HIDE DEF x, y
    <3>3. x \in Nat /\ y \in Nat
      BY <3>1, <3>2 DEF x, y
    <3>4. <<0, x, y>> \in Seq(Nat)
      BY <3>3
    <3> QED
      BY <3>4 DEF x, y
  <2> HIDE DEF w, t
  <2>4. Begun(0, w) \in Partial
    BY <2>3 DEF Begun, Partial
  <2>5. PICK F : Folding(F, SubSteps, Partial, Begun(0, w), t)
    BY <2>1, <2>4, SubStepsType, FoldExists
  <2>6. Subs(w, t) = F
    BY <2>1, <2>5, SubsFolds
  <2>7. F[Len(t)] \in Partial
    <3>1. F \in [0 .. Len(t) -> Partial] /\ Len(t) \in Nat
      BY <2>1, <2>5, LenProperties DEF Folding
    <3>2. Len(t) \in 0 .. Len(t)
      BY <3>1
    <3> QED
      BY <3>1, <3>2
  <2> QED
    BY <2>1, <2>2, <2>6, <2>7 DEF Partial
<1> QED
  BY <1>1, <1>2

\* A field of any type that the device knows.
Shaped == UNION {{Field(BOOL, v) : v \in BOOLEAN}, {Field(INT, v) : v \in Int}, {Nothing},
                 {Field(OID, v) : v \in Seq(Nat)},
                 {Field(t, v) : t \in {OCTETS} \cup Constructed, v \in Seq(Byte)}}

LEMMA ShapedValue ==
  ASSUME NEW tag \in Known("device"), NEW c \in Seq(Byte)
  PROVE  Field(tag, Value("device", tag, c)) \in Shaped
<1>1. tag \in {BOOL, INT, NULL, OID, OCTETS} \cup Constructed
  <2>1. "device" # "host"
    OBVIOUS
  <2> QED
    BY <2>1 DEF Known, Constructed
<1>2. CASE tag = BOOL
  <2>1. unpack_boolean("device", c) \in BOOLEAN
    BY Zenon DEF unpack_boolean
  <2> QED
    BY <1>2, <2>1, ValuesAre DEF Shaped
<1>3. CASE tag = INT
  <2> DEFINE a == IF c[1] > 127 THEN -1 ELSE 0
  <2>1. a \in Int /\ 0 \in Int
    OBVIOUS
  <2>2. unpack_integer(c) = IF c = <<>> \/ Len(c) > 8 THEN 0 ELSE Base256(a, c)
    BY Zenon DEF unpack_integer
  <2> HIDE DEF a
  <2>3. Base256(a, c) \in Int
    BY <2>1, Base256Type
  <2>4. unpack_integer(c) \in Int
    BY <2>1, <2>2, <2>3
  <2> QED
    BY <1>3, <2>4, ValuesAre DEF Shaped
<1>4. CASE tag = NULL
  BY <1>4, ValuesAre DEF Shaped, Nothing
<1>5. CASE tag = OID
  BY <1>5, OIDType, ValuesAre DEF Shaped
<1>6. CASE tag = OCTETS
  BY <1>6, ValuesAre DEF Shaped
<1>7. CASE tag \in Constructed
  <2>1. Value("device", tag, c) = c
    BY <1>7, ValuesAre
  <2>2. tag \in {OCTETS} \cup Constructed
    BY <1>7
  <2> QED
    BY <2>1, <2>2 DEF Shaped
<1> QED
  BY <1>1, <1>2, <1>3, <1>4, <1>5, <1>6, <1>7

\* What is unpacked: fields, whatever the bytes.
Unread == [rest : Seq(Byte), fields : Seq(Shaped)]

LEMMA FieldType ==
  ASSUME NEW u \in Unread
  PROVE  unpack_field("device", u) \in Unread
<1> DEFINE tag == u.rest[1]
           l == unpack_length("device", Tail(u.rest))
           f == Field(tag, Value("device", tag, Contents(l)))
           r == SubSeq(l.rest, l.n + 1, Len(l.rest))
<1>1. u.rest \in Seq(Byte) /\ u.fields \in Seq(Shaped) /\ u = [rest |-> u.rest, fields |-> u.fields]
  BY DEF Unread
<1>2. CASE u.rest = <<>>
  BY <1>2, Zenon DEF unpack_field
<1>3. CASE u.rest # <<>> /\ tag \notin Known("device")
  <2>1. unpack_field("device", u) = [u EXCEPT !.rest = <<>>]
    BY <1>3, Zenon DEF unpack_field
  <2>2. <<>> \in Seq(Byte)
    BY EmptySeq
  <2> QED
    BY <1>1, <2>1, <2>2 DEF Unread
<1>4. CASE u.rest # <<>> /\ tag \in Known("device")
  <2>1. Tail(u.rest) \in Seq(Byte)
    BY <1>1, <1>4, HeadTailProperties
  <2>2. l.n \in Nat /\ l.rest \in Seq(Byte)
    BY <2>1, LengthType
  <2>3. "device" # "host"
    OBVIOUS
  <2>4. ~Refused("device", tag, l)
    BY <2>3, Zenon DEF Refused
  <2>5. unpack_field("device", u) = [rest |-> r, fields |-> Append(u.fields, f)]
    BY <1>4, <2>4, Zenon DEF unpack_field
  <2> HIDE DEF l
  <2>6. r \in Seq(Byte) /\ Contents(l) \in Seq(Byte)
    BY <2>2, ContentsType
  <2>7. f \in Shaped
    BY <1>4, <2>6, ShapedValue
  <2> HIDE DEF r, f
  <2>8. Append(u.fields, f) \in Seq(Shaped)
    BY <1>1, <2>7, AppendProperties
  <2> DEFINE y == Append(u.fields, f)
  <2> HIDE DEF y
  <2>9. y \in Seq(Shaped) /\ unpack_field("device", u) = [rest |-> r, fields |-> y]
    BY <2>5, <2>8 DEF y
  <2> QED
    BY <2>6, <2>9 DEF Unread
<1> QED
  BY <1>2, <1>3, <1>4

LEMMA FieldsType ==
  ASSUME NEW b \in Seq(Byte)
  PROVE  unpack("device", b) \in Seq(Shaped)
<1> DEFINE n == Limit("device", b)
           u0 == [rest |-> b, fields |-> <<>>]
           G == [i \in 1 .. n |-> [u \in Unread |-> unpack_field("device", u)]]
<1>1. n = 15
  BY DEF Limit, MAX_FIELDS
<1>2. u0 \in Unread
  <2>1. <<>> \in Seq(Shaped)
    BY EmptySeq
  <2> QED
    BY <2>1 DEF Unread
<1> HIDE DEF n
<1>3. Stepwise(G, n, Unread)
  BY FieldType DEF Stepwise
<1>4. \A i \in 1 .. n, u \in Unread : G[i][u] = unpack_field("device", u)
  OBVIOUS
<1> HIDE DEF G, u0
<1>5. n \in Nat
  BY <1>1
<1>6. PICK U : Unfolds(U, G, n, Unread, u0)
  BY <1>2, <1>3, <1>5, Recursion
<1>7. U \in [0 .. n -> Unread] /\ U[0] = u0 /\ \A i \in 1 .. n : U[i] = G[i][U[i - 1]]
  BY <1>6 DEF Unfolds
<1>8. \A i \in 1 .. n : i - 1 \in 0 .. n
  BY <1>5
<1>9. \A i \in 1 .. n : U[i] = unpack_field("device", U[i - 1])
  BY <1>4, <1>7, <1>8
<1>10. Reading("device", b, U, Unread)
  BY <1>7, <1>9, Zenon DEF Reading, n, u0
<1>11. unpack("device", b) = U[n].fields
  BY <1>5, <1>10, UnpackingIs DEF n
<1>12. n \in 0 .. n
  BY <1>5
<1>13. U[n] \in Unread
  BY <1>7, <1>12
<1> QED
  BY <1>11, <1>13 DEF Unread

LEMMA ShapedIs ==
  ASSUME NEW f \in Shaped
  PROVE  /\ f = Field(f.tag, f.value)
         /\ f.tag = INT => f.value \in Int
         /\ f.tag = BOOL => f.value \in BOOLEAN
         /\ f.tag = OID => f.value \in Seq(Nat)
         /\ f.tag \in {OCTETS} \cup Constructed => f.value \in Seq(Byte)
<1>1. /\ BOOL # INT /\ BOOL # OID /\ INT # OID /\ NULL \notin {BOOL, INT, OID}
      /\ {BOOL, INT, OID, NULL} \cap ({OCTETS} \cup Constructed) = {}
  BY DEF BOOL, INT, NULL, OID, OCTETS, Constructed, SEQUENCE, GET, RESPONSE, SET, TRAP
<1>2. \A t, v : Field(t, v).tag = t /\ Field(t, v).value = v
  BY DEF Field
<1>3. \/ \E v \in BOOLEAN : f = Field(BOOL, v)
      \/ \E v \in Int : f = Field(INT, v)
      \/ f = Nothing
      \/ \E v \in Seq(Nat) : f = Field(OID, v)
      \/ \E t \in {OCTETS} \cup Constructed, v \in Seq(Byte) : f = Field(t, v)
  BY DEF Shaped
<1>4. CASE \E v \in BOOLEAN : f = Field(BOOL, v)
  BY <1>1, <1>2, <1>4
<1>5. CASE \E v \in Int : f = Field(INT, v)
  BY <1>1, <1>2, <1>5
<1>6. CASE f = Nothing
  BY <1>1, <1>2, <1>6 DEF Nothing
<1>7. CASE \E v \in Seq(Nat) : f = Field(OID, v)
  BY <1>1, <1>2, <1>7
<1>8. CASE \E t \in {OCTETS} \cup Constructed, v \in Seq(Byte) : f = Field(t, v)
  <2>1. PICK t \in {OCTETS} \cup Constructed, v \in Seq(Byte) : f = Field(t, v)
    BY <1>8
  <2>2. f.tag = t /\ f.value = v
    BY <1>2, <2>1
  <2>3. t \notin {BOOL, INT, OID, NULL}
    BY <1>1, <2>1
  <2> QED
    BY <2>1, <2>2, <2>3
<1> QED
  BY <1>3, <1>4, <1>5, <1>6, <1>7, <1>8

LEMMA AtType ==
  ASSUME NEW fs \in Seq(Shaped), NEW i \in Nat \ {0}
  PROVE  /\ At(fs, i, INT, 0) \in Int
         /\ At(fs, i, OID, <<>>) \in Seq(Nat)
         /\ At(fs, i, OCTETS, <<>>) \in Seq(Byte)
         /\ Inside(fs, i) \in Seq(Shaped)
<1>1. <<>> \in Seq(Nat) /\ <<>> \in Seq(Byte) /\ 0 \in Int
  <2>1. <<>> \in Seq(Nat) /\ <<>> \in Seq(Byte)
    BY EmptySeq
  <2> QED
    BY <2>1
<1>2. ASSUME i <= Len(fs) PROVE fs[i] \in Shaped
  <2>1. i \in 1 .. Len(fs)
    BY <1>2, LenProperties
  <2> QED
    BY <2>1, ElementOfSeq
<1>3. \A tag, d : At(fs, i, tag, d) = d \/ (i <= Len(fs) /\ fs[i].tag = tag /\ At(fs, i, tag, d) = fs[i].value)
  BY Zenon DEF At
<1>4. ASSUME NEW tag, NEW X, NEW d \in X, \A f \in Shaped : f.tag = tag => f.value \in X
      PROVE  At(fs, i, tag, d) \in X
  <2>1. At(fs, i, tag, d) = d \/ (i <= Len(fs) /\ fs[i].tag = tag /\ At(fs, i, tag, d) = fs[i].value)
    BY <1>3
  <2>2. CASE At(fs, i, tag, d) = d
    BY <1>4, <2>2
  <2>3. CASE i <= Len(fs) /\ fs[i].tag = tag /\ At(fs, i, tag, d) = fs[i].value
    BY <1>2, <1>4, <2>3
  <2> QED
    BY <2>1, <2>2, <2>3
<1>5. At(fs, i, INT, 0) \in Int /\ At(fs, i, OID, <<>>) \in Seq(Nat)
  <2>1. \A f \in Shaped : f.tag = INT => f.value \in Int
    BY ShapedIs
  <2>2. \A f \in Shaped : f.tag = OID => f.value \in Seq(Nat)
    BY ShapedIs
  <2> QED
    BY <1>1, <1>4, <2>1, <2>2, Zenon
<1>6. \A f \in Shaped : f.tag = OCTETS \/ f.tag = SEQUENCE => f.value \in Seq(Byte)
  <2>1. OCTETS \in {OCTETS} \cup Constructed /\ SEQUENCE \in {OCTETS} \cup Constructed
    BY DEF Constructed
  <2> QED
    BY <2>1, ShapedIs
<1>7. At(fs, i, OCTETS, <<>>) \in Seq(Byte)
  BY <1>1, <1>4, <1>6, Zenon
<1>8. At(fs, i, SEQUENCE, <<>>) \in Seq(Byte)
  BY <1>1, <1>4, <1>6, Zenon
<1> QED
  BY <1>5, <1>7, <1>8, FieldsType DEF Inside

\* A request that the device can have decoded.
LEMMA ReceivedType ==
  ASSUME NEW b \in Seq(Byte), NEW p, p = ssmp_decode(BER_decode("device", b)), p # Undecodable
  PROVE  /\ p.community \in Seq(Byte) /\ p.id \in Int /\ p.oid \in Seq(Nat) /\ p.value \in Shaped
         /\ p.value = Nothing \/ p.value.tag \in {BOOL, INT, OCTETS}
<1> DEFINE fields == BER_decode("device", b)
           message == Inside(fields, 1)
           community == At(message, 2, OCTETS, <<>>)
           pdu == unpack("device", message[3].value)
           bd == Binding(pdu)
           id == At(pdu, 1, INT, 0)
           oid == At(bd, 1, OID, <<>>)
<1>0. 1 \in Nat \ {0} /\ 2 \in Nat \ {0} /\ 3 \in Nat \ {0} /\ 4 \in Nat \ {0}
  OBVIOUS
<1>1. fields \in Seq(Shaped)
  BY FieldsType DEF BER_decode
<1>2. message \in Seq(Shaped)
  BY <1>0, <1>1, AtType
<1>3. community \in Seq(Byte)
  BY <1>0, <1>2, AtType
<1>4. p = IF Len(message) > 2 /\ message[3].tag = GET THEN ssmp_decode_get(community, pdu)
          ELSE IF Len(message) > 2 /\ message[3].tag = SET THEN ssmp_decode_set(community, pdu)
          ELSE Undecodable
  BY Zenon DEF ssmp_decode
<1>5. Len(message) > 2 /\ message[3].tag \in {GET, SET}
  BY <1>4
<1>6. message[3].value \in Seq(Byte)
  <2> HIDE DEF message
  <2>1. Len(message) \in Nat
    BY <1>2, LenProperties
  <2>2. 3 \in 1 .. Len(message)
    BY <1>5, <2>1
  <2>3. message[3] \in Shaped
    BY <1>2, <2>2, ElementOfSeq
  <2>4. message[3].tag \in {OCTETS} \cup Constructed
    BY <1>5 DEF Constructed
  <2> QED
    BY <2>3, <2>4, ShapedIs
<1> HIDE DEF message
<1>7. pdu \in Seq(Shaped)
  BY <1>6, FieldsType
<1> HIDE DEF pdu
<1>8. bd \in Seq(Shaped)
  <2>1. Inside(pdu, 4) \in Seq(Shaped)
    BY <1>0, <1>7, AtType
  <2>2. Inside(Inside(pdu, 4), 1) \in Seq(Shaped)
    BY <1>0, <2>1, AtType
  <2> QED
    BY <2>2 DEF Binding
<1> HIDE DEF bd
<1>9. id \in Int /\ oid \in Seq(Nat)
  BY <1>0, <1>7, <1>8, AtType
<1> HIDE DEF community
<1> DEFINE g == [tag |-> GET, community |-> community, id |-> id, oid |-> oid, value |-> Nothing]
           typed == Len(bd) > 1 /\ bd[2].tag \in {BOOL, INT, OCTETS}
           w == IF typed THEN bd[2] ELSE Nothing
<1>10. ssmp_decode_get(community, pdu) = g
  BY Zenon DEF ssmp_decode_get, bd
<1> HIDE DEF id, oid
<1>11. Nothing \in Shaped
  BY DEF Shaped
<1>12. CASE p = g
  BY <1>3, <1>9, <1>11, <1>12
<1>13. CASE p = [g EXCEPT !.tag = SET, !.value = w]
  <2>1. p.community = community /\ p.id = id /\ p.oid = oid /\ p.value = w
    <3> HIDE DEF w
    <3> QED
      BY <1>13
  <2>2. w \in Shaped /\ (w = Nothing \/ w.tag \in {BOOL, INT, OCTETS})
    <3>1. CASE typed
      <4>1. Len(bd) \in Nat
        BY <1>8, LenProperties
      <4>2. 2 \in 1 .. Len(bd)
        BY <3>1, <4>1
      <4>3. bd[2] \in Shaped
        BY <1>8, <4>2, ElementOfSeq
      <4> QED
        BY <3>1, <4>3
    <3>2. CASE ~typed
      <4>1. w = Nothing
        BY <3>2
      <4> QED
        BY <1>11, <4>1
    <3> QED
      BY <3>1, <3>2
  <2> HIDE DEF w
  <2> QED
    BY <1>3, <1>9, <2>1, <2>2
<1>14. p = g \/ p = [g EXCEPT !.tag = SET, !.value = w]
  <2>1. ssmp_decode_set(community, pdu) = [g EXCEPT !.tag = SET, !.value = IF typed THEN bd[2] ELSE @]
    BY <1>10, Zenon DEF ssmp_decode_set, bd
  <2>2. g.value = Nothing
    OBVIOUS
  <2> HIDE DEF g
  <2>3. [g EXCEPT !.tag = SET, !.value = IF typed THEN bd[2] ELSE @] = [g EXCEPT !.tag = SET, !.value = w]
    <3> HIDE DEF typed
    <3> QED
      BY <2>2
  <2>4. p = ssmp_decode_get(community, pdu) \/ p = ssmp_decode_set(community, pdu)
    BY <1>4, <1>5, Zenon DEF community
  <2> QED
    BY <1>10, <2>1, <2>3, <2>4
<1> QED
  BY <1>12, <1>13, <1>14

\* And the types of what is encoded.
LEMMA PackedTypes ==
  /\ \A n \in Int : pack_integer(n) \in Seq(Byte)
  /\ \A t \in Seq(Byte) : pack_octets(t) \in Seq(Byte)
  /\ pack_null \in Seq(Byte)
  /\ \A b \in BOOLEAN : pack_boolean("device", b) \in Seq(Byte)
<1>1. INT \in Byte /\ OCTETS \in Byte /\ NULL \in Byte /\ BOOL \in Byte
  BY Tags
<1>2. \A n \in Int : pack_integer(n) \in Seq(Byte)
  BY <1>1, ComplementType, PackType DEF pack_integer
<1>3. \A t \in Seq(Byte) : pack_octets(t) \in Seq(Byte)
  BY <1>1, PackType DEF pack_octets
<1>4. pack_null \in Seq(Byte)
  <2>1. <<>> \in Seq(Byte)
    BY EmptySeq
  <2> QED
    BY <1>1, <2>1, PackType DEF pack_null
<1>5. ASSUME NEW b \in BOOLEAN PROVE pack_boolean("device", b) \in Seq(Byte)
  <2> DEFINE y == IF b THEN TrueOf("device") ELSE 0
             c == <<y>>
  <2>1. y \in Byte
    BY DEF TrueOf, Byte
  <2> HIDE DEF y
  <2>2. c \in Seq(Byte)
    BY <2>1
  <2>3. pack_boolean("device", b) = Pack(BOOL, c)
    BY Zenon DEF pack_boolean, y
  <2> HIDE DEF c
  <2> QED
    BY <1>1, <2>2, <2>3, PackType
<1> QED
  BY <1>2, <1>3, <1>4, <1>5

LEMMA NumbersType ==
  ASSUME NEW oid \in Seq(Nat)
  PROVE  pack_OID(oid) \in Seq(Byte)
<1> DEFINE o == IF oid # <<>> /\ oid[1] = 0 THEN Tail(oid) ELSE oid
           second == IF Len(o) > 1 THEN o[2] ELSE 0
           x == (40 * o[1] + second) % 256
           s == SubSeq(o, 3, Len(o))
           c == IF o = <<>> THEN <<>> ELSE <<x>> \o Varints(s)
<1>1. Numbering(oid) = c
  BY Zenon DEF Numbering
<1>2. o \in Seq(Nat)
  BY HeadTailProperties
<1> HIDE DEF o
<1>3. c \in Seq(Byte)
  <2>1. CASE o = <<>>
    <3>1. <<>> \in Seq(Byte)
      BY EmptySeq
    <3> QED
      BY <2>1, <3>1
  <2>2. CASE o # <<>>
    <3>1. Len(o) \in Nat \ {0}
      BY <1>2, <2>2, EmptySeq
    <3>2. o[1] \in Nat
      <4>1. 1 \in 1 .. Len(o)
        BY <3>1
      <4> QED
        BY <1>2, <4>1, ElementOfSeq
    <3>3. second \in Nat
      <4>1. CASE Len(o) > 1
        <5>1. 2 \in 1 .. Len(o)
          BY <3>1, <4>1
        <5>2. o[2] \in Nat
          BY <1>2, <5>1, ElementOfSeq
        <5> QED
          BY <4>1, <5>2
      <4>2. CASE ~(Len(o) > 1)
        BY <4>2
      <4> QED
        BY <4>1, <4>2
    <3> HIDE DEF second
    <3>4. \A m, n \in Nat : (40 * m + n) % 256 \in Byte
      <4>1. \A n \in Nat : n % 256 \in Byte
        BY DEF Byte
      <4>2. \A m, n \in Nat : 40 * m + n \in Nat
        OBVIOUS
      <4> QED
        BY <4>1, <4>2, Zenon
    <3>5. x \in Byte
      BY <3>2, <3>3, <3>4, Zenon
    <3> HIDE DEF x
    <3> DEFINE g == <<x>>
    <3>6. g \in Seq(Byte)
      BY <3>5
    <3> HIDE DEF g
    <3>7. s \in Seq(Nat)
      <4>1. SubSeq(o, 2 + 1, Len(o)) \in Seq(Nat)
        <5>1. 2 \in Nat /\ Len(o) \in Nat /\ Len(o) <= Len(o)
          BY <3>1
        <5> QED
          BY <1>2, <5>1, SliceType, Zenon
      <4>2. 2 + 1 = 3
        OBVIOUS
      <4> QED
        BY <4>1, <4>2, Zenon
    <3> HIDE DEF s
    <3>8. Varints(s) \in Seq(Byte)
      BY <3>7, VarintsType
    <3>9. g \o Varints(s) \in Seq(Byte)
      BY <3>6, <3>8, ConcatProperties
    <3> QED
      BY <2>2, <3>9 DEF g
  <2> QED
    BY <2>1, <2>2
<1> HIDE DEF c
<1>4. OID \in Byte
  BY Tags
<1> QED
  BY <1>1, <1>3, <1>4, PackType DEF pack_OID

LEMMA EncodedType ==
  ASSUME NEW v \in Shaped, v = Nothing \/ v.tag \in {BOOL, INT, OCTETS}
  PROVE  BER_encode("device", v) \in Seq(Byte)
<1>1. BOOL # INT /\ BOOL # OCTETS /\ BOOL # NULL /\ INT # OCTETS /\ INT # NULL /\ OCTETS # NULL
  BY DEF BOOL, INT, OCTETS, NULL
<1>2. CASE v.tag = BOOL
  <2>1. BER_encode("device", v) = pack_boolean("device", v.value)
    BY <1>1, <1>2 DEF BER_encode
  <2> QED
    BY <1>2, <2>1, ShapedIs, PackedTypes
<1>3. CASE v.tag = INT
  <2>1. BER_encode("device", v) = pack_integer(v.value)
    BY <1>1, <1>3 DEF BER_encode
  <2> QED
    BY <1>3, <2>1, ShapedIs, PackedTypes
<1>4. CASE v.tag = OCTETS
  <2>1. BER_encode("device", v) = pack_octets(v.value)
    BY <1>1, <1>4 DEF BER_encode
  <2>2. v.value \in Seq(Byte)
    BY <1>4, ShapedIs
  <2> QED
    BY <2>1, <2>2, PackedTypes
<1>5. CASE v = Nothing
  <2>1. v.tag = NULL
    BY <1>5 DEF Nothing, Field
  <2>2. BER_encode("device", v) = pack_null
    BY <1>1, <2>1 DEF BER_encode
  <2> QED
    BY <2>2, PackedTypes
<1> QED
  BY <1>2, <1>3, <1>4, <1>5

LEMMA AnswerType ==
  ASSUME NEW p, p.tag = RESPONSE, p.community \in Seq(Byte), p.id \in Int, p.error \in Int, p.index \in Int,
         p.oid \in Seq(Nat), p.value \in Shaped, p.value = Nothing \/ p.value.tag \in {BOOL, INT, OCTETS}
  PROVE  ssmp_encode(p) \in Seq(Byte)
<1> DEFINE T == Seq(Byte)
           s1 == pack_integer(p.id)
           s2 == pack_integer(p.error)
           s3 == pack_integer(p.index)
           t1 == pack_OID(p.oid)
           t2 == BER_encode("device", p.value)
           tt == <<t1, t2>>
           u1 == pack_sequence(tt)
           uu == <<u1>>
           s4 == Variable("device", p)
           ss == <<s1, s2, s3, s4>>
           z1 == pack_integer(0)
           z2 == pack_octets(p.community)
           z3 == pack_pdu(p.tag, ss)
           zz == <<z1, z2, z3>>
<1>0. SEQUENCE \in Byte /\ p.tag \in Byte
  BY Tags DEF Constructed
<1>1. s1 \in T /\ s2 \in T /\ s3 \in T /\ z1 \in T /\ z2 \in T
  <2>1. 0 \in Int
    OBVIOUS
  <2> QED
    BY <2>1, PackedTypes
<1>2. t1 \in T /\ t2 \in T
  BY NumbersType, EncodedType
<1>3. ASSUME NEW ff \in Seq(T), NEW tag \in Byte PROVE Pack(tag, FlattenSeq(ff)) \in T
  BY <1>3, FlattenType, PackType
<1> HIDE DEF t1, t2
<1>4. tt \in Seq(T)
  <2> HIDE DEF T
  <2> QED
    BY <1>2
<1> HIDE DEF tt
<1>5. u1 \in T
  BY <1>0, <1>3, <1>4 DEF pack_sequence
<1> HIDE DEF u1
<1>6. uu \in Seq(T)
  <2> HIDE DEF T
  <2> QED
    BY <1>5
<1>7. s4 = pack_sequence(uu)
  BY Zenon DEF Variable, uu, u1, tt, t1, t2
<1> HIDE DEF uu
<1>8. s4 \in T
  BY <1>0, <1>3, <1>6, <1>7 DEF pack_sequence
<1> HIDE DEF s1, s2, s3, s4
<1>9. ss \in Seq(T)
  <2> HIDE DEF T
  <2> QED
    BY <1>1, <1>8
<1> HIDE DEF ss
<1>10. z3 \in T
  BY <1>0, <1>3, <1>9 DEF pack_pdu
<1> HIDE DEF z1, z2, z3
<1>11. zz \in Seq(T)
  <2> HIDE DEF T
  <2> QED
    BY <1>1, <1>10
<1>12. ssmp_encode(p) = pack_sequence(zz)
  BY Zenon DEF ssmp_encode, ssmp_encode_response, Message, zz, z1, z2, z3, ss, s1, s2, s3, s4
<1> HIDE DEF zz
<1> QED
  BY <1>0, <1>3, <1>11, <1>12 DEF pack_sequence

\* The codec of the device, and checks of two bytes.
Coded ==
  /\ \A p : DeviceEncode(p) = ssmp_encode(p)
  /\ \A b : DeviceDecode(b) = ssmp_decode(BER_decode("device", b))
  /\ \A d \in Seq(Byte), i \in {1, 2} : CRC(<<>>, d)[i] \in Byte

\* Whatever bytes the device decodes to a request, it can encode the answers to
\* it, and an integer in it is a number: what the theorems about any codec take
\* for granted holds of the device's (BER_decode, ssmp_decode, ssmp_encode).
THEOREM BytesHold ==
  ASSUME Coded, Texts \subseteq Seq(Byte), Masks \subseteq Int
  PROVE  Encodes /\ Reads
<1>1. Bytes = Byte
  BY DEF Bytes, Coded
<1> SUFFICES ASSUME NEW b \in Seq(Byte), DeviceDecode(b) # Undecodable
             PROVE  /\ Numeric(DeviceDecode(b).value)
                    /\ \A a \in Answered(DeviceDecode(b)) : DeviceEncode(a) \in Seq(Byte)
  BY <1>1 DEF Encodes, Reads
<1> DEFINE p == DeviceDecode(b)
<1>2. p = ssmp_decode(BER_decode("device", b)) /\ p # Undecodable
  BY DEF Coded
<1> HIDE DEF p
<1>3. /\ p.community \in Seq(Byte) /\ p.id \in Int /\ p.oid \in Seq(Nat) /\ p.value \in Shaped
      /\ p.value = Nothing \/ p.value.tag \in {BOOL, INT, OCTETS}
  BY <1>2, ReceivedType
<1>4. Numeric(p.value)
  BY <1>3, ShapedIs DEF Numeric, Number
<1>5. ASSUME NEW v \in Answerable PROVE v \in Shaped /\ (v = Nothing \/ v.tag \in {BOOL, INT, OCTETS})
  <2>1. CASE v \in Strings
    BY <2>1 DEF Strings, Shaped, Field
  <2>2. CASE v \in Booleans
    BY <2>2 DEF Booleans, Boolean, Shaped, Field
  <2>3. CASE v = Nothing
    BY <2>3 DEF Shaped
  <2>4. CASE v \in {Number(n) : n \in Masks \cup 0 .. 60 \cup {255, 405419896}}
    <3> DEFINE ns == Masks \cup 0 .. 60 \cup {255, 405419896}
    <3>0. ns \subseteq Int
      BY SMT
    <3> HIDE DEF ns
    <3>2. \E n \in ns : v = Number(n)
      BY <2>4 DEF ns
    <3>1. PICK n \in Int : v = Number(n)
      BY <3>0, <3>2
    <3> QED
      BY <3>1 DEF Number, Shaped, Field
  <2> QED
    BY <2>1, <2>2, <2>3, <2>4 DEF Answerable
<1>6. ASSUME NEW a \in Answered(p) PROVE DeviceEncode(a) \in Seq(Byte)
  <2>1. PICK e \in Codes, v \in Answerable \cup {p.value} : a = Reply(p, e, v)
    BY <1>6 DEF Answered
  <2>2. v \in Shaped /\ (v = Nothing \/ v.tag \in {BOOL, INT, OCTETS})
    BY <1>3, <1>5, <2>1
  <2>3. e \in Int
    BY DEF Codes, NONE, NO_SUCH_OBJECT, BAD_VALUE, READONLY, NO_ACCESS, WRONG_TYPE, COMMIT_FAILED, NOT_WRITABLE,
           INVALID_STATE
  <2>4. /\ a.tag = RESPONSE /\ a.community = p.community /\ a.id = p.id /\ a.error = e /\ a.index \in Int
        /\ a.oid = p.oid /\ a.value = v
    BY <2>1 DEF Reply
  <2>5. ssmp_encode(a) \in Seq(Byte)
    BY <1>3, <2>2, <2>3, <2>4, AnswerType
  <2> QED
    BY <2>5 DEF Coded
<1> QED
  BY <1>4, <1>6 DEF p
=============================================================================
