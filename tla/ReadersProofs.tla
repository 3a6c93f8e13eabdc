---------------------------- MODULE ReadersProofs ----------------------------
(***************************************************************************)
(* Theorems about Readers, for any number of doors, any cards and keys and *)
(* any sizes, times, losses and restarts.                                  *)
(***************************************************************************)
EXTENDS Readers, SequenceTheorems, WellFoundedInduction, TLAPS

-----------------------------------------------------------------------------
(***************************************************************************)
(* Induction, with a set of numbers for the property.                      *)
(***************************************************************************)
LEMMA Induction ==
  ASSUME NEW S \in SUBSET Nat, 0 \in S, \A n \in S : n + 1 \in S
  PROVE  S = Nat
<1> DEFINE R == {ss \in Nat \X Nat : ss[1] < ss[2]}
<1>1. IsWellFoundedOn(R, Nat)
  BY NatLessThanWellFounded DEF OpToRel
<1>2. \A x \in Nat : x # 0 => <<x - 1, x>> \in R /\ x - 1 \in Nat
  OBVIOUS
<1> HIDE DEF R
<1>3. ASSUME Nat \ S # {} PROVE FALSE
  <2>1. PICK x \in Nat \ S : \A y \in Nat \ S : <<y, x>> \notin R
    BY <1>1, <1>3, WFMin
  <2>2. x \in Nat /\ x # 0 /\ (x - 1) + 1 = x
    BY <2>1
  <2>3. x - 1 \in S
    BY <1>2, <2>1, <2>2
  <2> QED
    BY <2>1, <2>2, <2>3
<1> QED
  BY <1>3

\* A function can be defined step by step: F starts with x0, and G[i] makes F[i]
\* of the value before it.
Stepwise(G, n, X) == G \in [1 .. n -> [X -> X]]
Unfolds(F, G, n, X, x0) ==
  F \in [0 .. n -> X] /\ F[0] = x0 /\ \A i \in 1 .. n : F[i] = G[i][F[i - 1]]

LEMMA Recursion ==
  ASSUME NEW n \in Nat, NEW X, NEW x0 \in X, NEW G, Stepwise(G, n, X)
  PROVE  \E F : Unfolds(F, G, n, X, x0)
<1>0. G \in [1 .. n -> [X -> X]]
  BY DEF Stepwise
<1> DEFINE Up(F, k) == F \in [0 .. k -> X] /\ F[0] = x0 /\ \A i \in 1 .. k : F[i] = G[i][F[i - 1]]
           S == {k \in Nat : k <= n => \E F : Up(F, k)}
<1>1. 0 \in S
  <2>1. Up([i \in 0 .. 0 |-> x0], 0)
    OBVIOUS
  <2> QED
    BY <2>1
<1>2. ASSUME NEW k \in S PROVE k + 1 \in S
  <2> SUFFICES ASSUME k + 1 <= n PROVE \E F : Up(F, k + 1)
    <3> HIDE DEF Up
    <3> QED
      BY <1>2
  <2>1. k \in Nat /\ k <= n /\ k + 1 \in 1 .. n
    BY <1>2
  <2>2. PICK F : Up(F, k)
    BY <1>2, <2>1
  <2> DEFINE y == G[k + 1][F[k]]
             H == [i \in 0 .. k + 1 |-> IF i <= k THEN F[i] ELSE y]
  <2>3. y \in X
    BY <1>0, <2>1, <2>2
  <2>4. /\ H \in [0 .. k + 1 -> X]
        /\ \A i \in 0 .. k : H[i] = F[i]
        /\ H[k + 1] = y
    <3> HIDE DEF y
    <3> QED
      BY <2>1, <2>2, <2>3
  <2> HIDE DEF H
  <2>5. ASSUME NEW i \in 1 .. k + 1 PROVE H[i] = G[i][H[i - 1]]
    <3>1. CASE i <= k
      <4>1. i \in 1 .. k /\ i \in 0 .. k /\ i - 1 \in 0 .. k
        BY <2>1, <3>1
      <4> QED
        BY <2>2, <2>4, <4>1
    <3>2. CASE i = k + 1
      <4>1. i - 1 = k /\ k \in 0 .. k
        BY <2>1, <3>2
      <4> QED
        BY <2>4, <3>2, <4>1
    <3> QED
      BY <2>1, <3>1, <3>2
  <2>6. H[0] = x0
    BY <2>1, <2>2, <2>4
  <2> WITNESS H
  <2> QED
    BY <2>4, <2>5, <2>6
<1>3. S = Nat
  <2> HIDE DEF Up
  <2> QED
    BY <1>1, <1>2, Induction
<1>4. n \in S
  BY <1>3
<1> QED
  BY <1>4 DEF Unfolds

-----------------------------------------------------------------------------
(***************************************************************************)
(* The bits that are queued.                                               *)
(***************************************************************************)
Bit == {0, 1}
Message == [m : {"wio"}, lines : SUBSET (Doors \X Bit)]
           \cup [m : {"swipe", "keycode"}, chunk : Chunks]

LEMMA OfType ==
  ASSUME NEW d, NEW ls
  PROVE  Of(d, ls) \in Seq(Bit)
<1>1. <<>> \in Seq(Bit) /\ <<0>> \in Seq(Bit) /\ <<1>> \in Seq(Bit)
  BY DEF Bit
<1> QED
  BY <1>1, ConcatProperties DEF Of

LEMMA CarriedType ==
  ASSUME NEW d, NEW msg
  PROVE  Carried(msg, d) \in Seq(Bit)
BY OfType, EmptySeq DEF Carried

\* F counts up the bits of door d in the first messages of q.
Counts(F, q, d) ==
  /\ F \in [0 .. Len(q) -> Seq(Bit)] /\ F[0] = <<>>
  /\ \A i \in 1 .. Len(q) : F[i] = F[i - 1] \o Carried(q[i], d)

\* The equation of Queued has a solution.
LEMMA QueuedFold ==
  ASSUME NEW M, NEW q \in Seq(M), NEW d
  PROVE  \E F : Counts(F, q, d) /\ Queued(q, d) = F[Len(q)]
<1> DEFINE n == Len(q)
           B == Seq(Bit)
           Add(x, i) == x \o Carried(q[i], d)
           Step(g) == [i \in 0 .. n |-> IF i = 0 THEN <<>> ELSE Add(g[i - 1], i)]
           f == CHOOSE g : g = Step(g)
           G == [i \in 1 .. n |-> [x \in B |-> Add(x, i)]]
<1>1. n \in Nat /\ <<>> \in B
  BY LenProperties, EmptySeq
<1>2. \A i \in 1 .. n, x \in B : Add(x, i) \in B
  BY CarriedType, ConcatProperties
<1>3. Queued(q, d) = f[n]
  BY DEF Queued
<1> HIDE DEF n, Add, B
<1>4. G \in [1 .. n -> [B -> B]] /\ \A i \in 1 .. n, x \in B : G[i][x] = Add(x, i)
  BY <1>2
<1> HIDE DEF G
<1>5. PICK F \in [0 .. n -> B] : F[0] = <<>> /\ \A i \in 1 .. n : F[i] = G[i][F[i - 1]]
  <2>1. Stepwise(G, n, B)
    BY <1>4 DEF Stepwise
  <2>2. \E F : Unfolds(F, G, n, B, <<>>)
    BY <1>1, <2>1, Recursion
  <2> QED
    BY <2>2 DEF Unfolds
<1>6. \A i \in 1 .. n : F[i] = Add(F[i - 1], i)
  BY <1>1, <1>4, <1>5
<1>7. F = Step(F)
  BY <1>1, <1>5, <1>6
<1>8. f = Step(f)
  <2> HIDE DEF Step
  <2> QED
    BY <1>7
<1> HIDE DEF f
<1>9. f[0] = <<>> /\ \A i \in 1 .. n : f[i] = Add(f[i - 1], i)
  BY <1>1, <1>8
<1> DEFINE T == {k \in Nat : k <= n => f[k] = F[k]}
<1>10. T = Nat
  <2>1. 0 \in T
    BY <1>5, <1>9
  <2>2. ASSUME NEW k \in T PROVE k + 1 \in T
    <3> SUFFICES ASSUME k + 1 <= n PROVE f[k + 1] = F[k + 1]
      BY <2>2
    <3>1. f[k] = F[k] /\ k + 1 \in 1 .. n /\ (k + 1) - 1 = k
      BY <1>1, <2>2
    <3> QED
      BY <1>6, <1>9, <3>1
  <2> QED
    BY <2>1, <2>2, Induction
<1>11. f[n] = F[n]
  <2>1. n \in T
    BY <1>1, <1>10
  <2> QED
    BY <1>1, <2>1
<1>12. Counts(F, q, d)
  BY <1>5, <1>6 DEF Counts, Add, B, n
<1> QED
  BY <1>3, <1>11, <1>12 DEF n

\* Sequences of bits, joined.
Bits01 == Seq(Bit)
Join(s, t) == s \o t

LEMMA Joining ==
  /\ <<>> \in Bits01
  /\ \A s, t \in Bits01 : Join(s, t) \in Bits01
  /\ \A s \in Bits01 : Join(s, <<>>) = s /\ Join(<<>>, s) = s
<1>1. <<>> \in Bits01
  BY EmptySeq DEF Bits01
<1>2. \A s, t \in Bits01 : Join(s, t) \in Bits01
  BY ConcatProperties DEF Bits01, Join
<1>3. \A s \in Bits01 : Join(s, <<>>) = s /\ Join(<<>>, s) = s
  BY ConcatEmptySeq DEF Bits01, Join
<1> QED
  BY <1>1, <1>2, <1>3

LEMMA Rejoining ==
  ASSUME NEW s \in Bits01, NEW t \in Bits01, NEW u \in Bits01
  PROVE  Join(Join(s, t), u) = Join(s, Join(t, u))
BY ConcatAssociative DEF Bits01, Join

LEMMA Counting ==
  ASSUME NEW q, NEW d, NEW F, Counts(F, q, d)
  PROVE  /\ F \in [0 .. Len(q) -> Bits01] /\ F[0] = <<>>
         /\ \A i \in 1 .. Len(q) : F[i] = Join(F[i - 1], Carried(q[i], d))
BY DEF Counts, Bits01, Join

\* None are queued in an empty queue.
LEMMA QueuedNone ==
  ASSUME NEW d
  PROVE  Queued(<<>>, d) = <<>>
<1>1. <<>> \in Seq({}) /\ Len(<<>>) = 0
  BY EmptySeq
<1>2. PICK F : Counts(F, <<>>, d) /\ Queued(<<>>, d) = F[Len(<<>>)]
  BY <1>1, QueuedFold
<1> QED
  BY <1>1, <1>2, Counting

LEMMA QueuedType ==
  ASSUME NEW M, NEW q \in Seq(M), NEW d
  PROVE  Queued(q, d) \in Bits01
<1>1. Len(q) \in Nat
  BY LenProperties
<1>2. PICK F : Counts(F, q, d) /\ Queued(q, d) = F[Len(q)]
  BY QueuedFold
<1>3. F \in [0 .. Len(q) -> Bits01]
  BY <1>2, Counting
<1> QED
  BY <1>1, <1>2, <1>3

\* A message adds its own bits.
LEMMA QueuedAppend ==
  ASSUME NEW M, NEW q \in Seq(M), NEW msg \in M, NEW d
  PROVE  Queued(Append(q, msg), d) = Join(Queued(q, d), Carried(msg, d))
<1> DEFINE p == Append(q, msg)
           n == Len(q)
           B == Bits01
<1>1. /\ n \in Nat /\ p \in Seq(M) /\ Len(p) = n + 1
      /\ \A i \in 1 .. n : p[i] = q[i]
      /\ p[n + 1] = msg
  BY LenProperties, AppendProperties
<1> HIDE DEF p, n, B
<1>2. PICK F : Counts(F, q, d) /\ Queued(q, d) = F[n]
  BY QueuedFold DEF n
<1>3. PICK H : Counts(H, p, d) /\ Queued(p, d) = H[n + 1]
  BY <1>1, QueuedFold
<1>4. F[0] = <<>> /\ \A i \in 1 .. n : F[i] = Join(F[i - 1], Carried(q[i], d))
  BY <1>2, Counting DEF n
<1>5. H[0] = <<>> /\ \A i \in 1 .. n + 1 : H[i] = Join(H[i - 1], Carried(p[i], d))
  <2>1. H[0] = <<>> /\ \A i \in 1 .. Len(p) : H[i] = Join(H[i - 1], Carried(p[i], d))
    BY <1>3, Counting
  <2> QED
    BY <1>1, <2>1
<1> DEFINE T == {k \in Nat : k <= n => H[k] = F[k]}
<1>6. T = Nat
  <2>1. 0 \in T
    BY <1>4, <1>5
  <2>2. ASSUME NEW k \in T PROVE k + 1 \in T
    <3> SUFFICES ASSUME k + 1 <= n PROVE H[k + 1] = F[k + 1]
      BY <2>2
    <3>1. H[k] = F[k] /\ k + 1 \in 1 .. n /\ k + 1 \in 1 .. n + 1 /\ (k + 1) - 1 = k
      BY <1>1, <2>2
    <3>2. F[k + 1] = Join(F[k], Carried(q[k + 1], d)) /\ H[k + 1] = Join(H[k], Carried(p[k + 1], d))
      BY <1>4, <1>5, <3>1
    <3> QED
      BY <1>1, <3>1, <3>2
  <2> QED
    BY <2>1, <2>2, Induction
<1>7. H[n] = F[n]
  <2>1. n \in T
    BY <1>1, <1>6
  <2> QED
    BY <1>1, <2>1
<1>8. H[n + 1] = Join(H[n], Carried(p[n + 1], d))
  <2>1. n + 1 \in 1 .. n + 1 /\ (n + 1) - 1 = n
    BY <1>1
  <2> QED
    BY <1>5, <2>1
<1> QED
  BY <1>1, <1>2, <1>3, <1>7, <1>8 DEF p

\* The first message comes first.
LEMMA QueuedTail ==
  ASSUME NEW M, NEW q \in Seq(M), NEW d, q # <<>>
  PROVE  Queued(q, d) = Join(Carried(Head(q), d), Queued(Tail(q), d))
<1> DEFINE t == Tail(q)
           n == Len(t)
           c == Carried(Head(q), d)
<1>1. /\ n \in Nat /\ t \in Seq(M) /\ Len(q) = n + 1 /\ Head(q) = q[1]
      /\ \A i \in 1 .. n : t[i] = q[i + 1]
  <2>1. t \in Seq(M) /\ n = Len(q) - 1 /\ \A i \in 1 .. n : t[i] = q[i + 1]
    BY HeadTailProperties
  <2>2. Len(q) \in Nat /\ n \in Nat
    BY <2>1, LenProperties
  <2>3. Head(q) = q[1]
    OBVIOUS
  <2> HIDE DEF n
  <2> QED
    BY <2>1, <2>2, <2>3
<1> HIDE DEF t, n
<1>2. PICK F : Counts(F, q, d) /\ Queued(q, d) = F[n + 1]
  BY <1>1, QueuedFold
<1>3. PICK H : Counts(H, t, d) /\ Queued(t, d) = H[n]
  BY <1>1, QueuedFold DEF n
<1>4. F[0] = <<>> /\ \A i \in 1 .. n + 1 : F[i] = Join(F[i - 1], Carried(q[i], d))
  BY <1>1, <1>2, Counting
<1>5. /\ H \in [0 .. n -> Bits01] /\ H[0] = <<>>
      /\ \A i \in 1 .. n : H[i] = Join(H[i - 1], Carried(t[i], d))
  BY <1>3, Counting DEF n
<1>6. c \in Bits01 /\ \A m : Carried(m, d) \in Bits01
  BY CarriedType DEF Bits01
<1>7. F[1] = c
  <2>1. F[1] = Join(F[0], Carried(q[1], d))
    <3>1. 1 \in 1 .. n + 1 /\ 1 - 1 = 0
      BY <1>1
    <3> QED
      BY <1>4, <3>1
  <2> QED
    BY <1>1, <1>4, <1>6, <2>1, Joining
<1> HIDE DEF c
<1> DEFINE T == {k \in Nat : k <= n => F[k + 1] = Join(c, H[k])}
<1>8. T = Nat
  <2>1. 0 \in T
    <3>1. F[0 + 1] = Join(c, H[0])
      BY <1>5, <1>6, <1>7, Joining
    <3> QED
      BY <3>1
  <2>2. ASSUME NEW k \in T PROVE k + 1 \in T
    <3> SUFFICES ASSUME k + 1 <= n PROVE F[(k + 1) + 1] = Join(c, H[k + 1])
      BY <2>2
    <3>1. /\ F[k + 1] = Join(c, H[k]) /\ k + 1 \in 1 .. n /\ k + 2 \in 1 .. n + 1
          /\ (k + 1) - 1 = k /\ (k + 2) - 1 = k + 1 /\ k \in 0 .. n /\ (k + 1) + 1 = k + 2
      BY <1>1, <2>2
    <3>2. F[k + 2] = Join(F[k + 1], Carried(q[k + 2], d))
      BY <1>4, <3>1
    <3>3. H[k + 1] = Join(H[k], Carried(t[k + 1], d))
      BY <1>5, <3>1
    <3>4. t[k + 1] = q[k + 2] /\ H[k] \in Bits01
      BY <1>1, <1>5, <3>1
    <3>5. Join(Join(c, H[k]), Carried(t[k + 1], d)) = Join(c, Join(H[k], Carried(t[k + 1], d)))
      BY <1>6, <3>4, Rejoining
    <3>6. F[k + 2] = Join(Join(c, H[k]), Carried(t[k + 1], d))
      BY <3>1, <3>2, <3>4
    <3>7. F[k + 2] = Join(c, H[k + 1])
      BY <3>3, <3>5, <3>6
    <3> QED
      BY <3>1, <3>7
  <2> QED
    BY <2>1, <2>2, Induction
<1>9. F[n + 1] = Join(c, H[n])
  <2>1. n \in T
    BY <1>1, <1>8
  <2> QED
    BY <1>1, <2>1
<1> QED
  BY <1>2, <1>3, <1>9 DEF t, c

-----------------------------------------------------------------------------
(***************************************************************************)
(* Types.                                                                  *)
(***************************************************************************)
Key == 0 .. HASH
Code == Seq(Key) \ {<<>>}
ReaderType == [bits : Seq(Bit), timer : Nat, locked : Nat]
KeypadType == [code : Seq(Key), timer : Nat, locked : Nat]
U2Type == [readers : [Doors -> ReaderType], keypads : [Doors -> KeypadType]]
Report == [door : Doors, card : Seq(Bit)] \cup [door : Doors, code : Code]
IOType == [queue : Seq(Message), pool : [Chunks -> {Empty} \cup Report], panic : BOOLEAN]
State == [u2 : U2Type, io : IOType]

LEMMA Constants ==
  /\ N \in Nat /\ N > 0 /\ CODE_LOCK \in Nat /\ CODE_LOCK > 1 /\ PINSIZE \in Nat /\ PINSIZE > 0
  /\ CARD_LOCK \in Nat /\ MaxBits \in Nat /\ HASH = 11 /\ STAR = 10
<1>1. N \in Nat \ {0} /\ PINSIZE \in Nat \ {0} /\ CARD_LOCK \in Nat /\ MaxBits \in Nat
  BY ReadersAssumption
<1>2. CODE_LOCK \in Nat \ {0} /\ CODE_LOCK - 1 \in Nat \ {0}
  BY ReadersAssumption
<1> QED
  BY <1>1, <1>2 DEF HASH, STAR

LEMMA ReportNotEmpty ==
  ASSUME NEW x \in Report
  PROVE  x # Empty
<1>1. DOMAIN Empty = {}
  BY DEF Empty
<1>2. "door" \in DOMAIN x
  BY DEF Report
<1> QED
  BY <1>1, <1>2

-----------------------------------------------------------------------------
(***************************************************************************)
(* What Post does: nothing but a panic, or a swipe in a free chunk and a   *)
(* message with the chunk.                                                 *)
(***************************************************************************)
Posts(q, p, x) ==
  /\ p \in IOType
  /\ \/ p.queue = q.queue /\ p.pool = q.pool
     \/ \E c \in Chunks, m \in {"swipe", "keycode"} :
          /\ q.pool[c] = Empty /\ p.pool = [q.pool EXCEPT ![c] = x]
          /\ p.queue = Append(q.queue, [m |-> m, chunk |-> c])

LEMMA PostPosts ==
  ASSUME NEW q \in IOType, NEW m \in {"swipe", "keycode"}, NEW x \in Report
  PROVE  Posts(q, Post(q, m, x), x)
<1>1. CASE \A c \in Chunks : q.pool[c] # Empty
  <2>1. Post(q, m, x) = [q EXCEPT !.panic = TRUE]
    BY <1>1 DEF Post
  <2> QED
    BY <2>1 DEF Posts, IOType
<1>2. CASE ~\A c \in Chunks : q.pool[c] # Empty
  <2> DEFINE c == CHOOSE c \in Chunks : q.pool[c] = Empty
             msg == [m |-> m, chunk |-> c]
  <2>1. c \in Chunks /\ q.pool[c] = Empty
    BY <1>2
  <2>2. Post(q, m, x) = IF HasRoom(q) THEN Put([q EXCEPT !.pool[c] = x], msg) ELSE q
    BY <1>2 DEF Post, Freed
  <2>3. CASE ~HasRoom(q)
    BY <2>2, <2>3 DEF Posts, IOType
  <2>4. CASE HasRoom(q)
    <3>1. HasRoom([q EXCEPT !.pool[c] = x])
      BY <2>4 DEF HasRoom, IOType
    <3>2. Post(q, m, x) = [[q EXCEPT !.pool[c] = x] EXCEPT !.queue = Append(@, msg)]
      BY <2>2, <2>4, <3>1 DEF Put
    <3>3. msg \in Message
      BY <2>1 DEF Message
    <3> HIDE DEF c, msg
    <3>4. Append(q.queue, msg) \in Seq(Message)
      BY <3>3, AppendProperties DEF IOType
    <3> DEFINE p == [queue |-> Append(q.queue, msg), pool |-> [q.pool EXCEPT ![c] = x], panic |-> q.panic]
    <3>5. Post(q, m, x) = p
      BY <3>2 DEF IOType
    <3>6. p \in IOType
      BY <2>1, <3>4 DEF IOType
    <3>7. p.queue = Append(q.queue, msg) /\ p.pool = [q.pool EXCEPT ![c] = x]
      OBVIOUS
    <3> HIDE DEF p
    <3> QED
      BY <2>1, <3>5, <3>6, <3>7 DEF Posts, msg
  <2> QED
    BY <2>3, <2>4
<1> QED
  BY <1>1, <1>2

\* Owned, of any queue and pool.
SwipesOf(q) == {i \in DOMAIN q : q[i].m # "wio"}
InHand(h) == IF h.m \in {"swipe", "keycode"} THEN {h.chunk} ELSE {}
OwnedOf(q, pool, h) ==
  /\ {c \in Chunks : pool[c] # Empty} = {q[i].chunk : i \in SwipesOf(q)} \cup InHand(h)
  /\ \A i, j \in SwipesOf(q) : q[i].chunk = q[j].chunk => i = j
  /\ \A i \in SwipesOf(q) : q[i].chunk \notin InHand(h)

LEMMA OwnedIs ==
  Owned <=> OwnedOf(io.queue, io.pool, hand)
BY DEF Owned, OwnedOf, SwipesOf, Swipes, InUse, InHand

LEMMA PostedIsOwned ==
  ASSUME NEW q \in IOType, NEW p, NEW x \in Report, NEW h, Posts(q, p, x),
         OwnedOf(q.queue, q.pool, h)
  PROVE  OwnedOf(p.queue, p.pool, h)
<1>1. CASE p.queue = q.queue /\ p.pool = q.pool
  BY <1>1
<1>2. CASE \E c \in Chunks, m \in {"swipe", "keycode"} :
          /\ q.pool[c] = Empty /\ p.pool = [q.pool EXCEPT ![c] = x]
          /\ p.queue = Append(q.queue, [m |-> m, chunk |-> c])
  <2>1. PICK c \in Chunks, m \in {"swipe", "keycode"} :
          /\ q.pool[c] = Empty /\ p.pool = [q.pool EXCEPT ![c] = x]
          /\ p.queue = Append(q.queue, [m |-> m, chunk |-> c])
    BY <1>2
  <2> DEFINE n == Len(q.queue)
             msg == [m |-> m, chunk |-> c]
             a == q.queue
             b == p.queue
  <2>2. /\ n \in Nat /\ DOMAIN a = 1 .. n /\ DOMAIN b = 1 .. n + 1
        /\ \A i \in 1 .. n : b[i] = a[i]
        /\ b[n + 1] = msg
    <3>1. msg \in Message /\ q.queue \in Seq(Message)
      BY DEF Message, IOType
    <3> HIDE DEF msg
    <3>2. p.queue \in Seq(Message) /\ Len(p.queue) = n + 1
      BY <2>1, <3>1, AppendProperties DEF msg
    <3>3. \A i \in 1 .. n : b[i] = a[i]
      BY <2>1, <3>1, AppendProperties DEF msg
    <3>4. b[n + 1] = msg
      BY <2>1, <3>1, AppendProperties DEF msg
    <3> QED
      BY <3>1, <3>2, <3>3, <3>4, LenProperties
  <2>3. msg.chunk = c /\ msg.m # "wio"
    OBVIOUS
  <2> HIDE DEF n, msg
  <2>4. SwipesOf(b) = SwipesOf(a) \cup {n + 1} /\ SwipesOf(a) \subseteq 1 .. n
    <3> HIDE DEF a, b
    <3> QED
      BY <2>2, <2>3 DEF SwipesOf
  <2>5. {b[i].chunk : i \in SwipesOf(b)} = {a[i].chunk : i \in SwipesOf(a)} \cup {c}
    <3> HIDE DEF a, b
    <3> QED
      BY <2>2, <2>3, <2>4
  <2>6. {k \in Chunks : p.pool[k] # Empty} = {k \in Chunks : q.pool[k] # Empty} \cup {c}
    BY <2>1, ReportNotEmpty DEF IOType
  <2>7. c \notin {a[i].chunk : i \in SwipesOf(a)} \cup InHand(h)
    <3>1. c \notin {k \in Chunks : q.pool[k] # Empty}
      BY <2>1
    <3>2. {k \in Chunks : q.pool[k] # Empty} = {a[i].chunk : i \in SwipesOf(a)} \cup InHand(h)
      BY DEF OwnedOf
    <3> QED
      BY <3>1, <3>2
  <2>8. \A i \in SwipesOf(b) : (i = n + 1 /\ b[i].chunk = c) \/ (i \in SwipesOf(a) /\ b[i].chunk = a[i].chunk)
    <3> HIDE DEF a, b
    <3> QED
      BY <2>2, <2>3, <2>4
  <2>9. \A i \in SwipesOf(a) : a[i].chunk # c
    <3> HIDE DEF a, b
    <3> QED
      BY <2>7
  <2> HIDE DEF b
  <2>10. \A i, j \in SwipesOf(b) : b[i].chunk = b[j].chunk => i = j
    BY <2>8, <2>9 DEF OwnedOf
  <2>11. \A i \in SwipesOf(b) : b[i].chunk \notin InHand(h)
    BY <2>7, <2>8 DEF OwnedOf
  <2>12. {k \in Chunks : p.pool[k] # Empty} = {b[i].chunk : i \in SwipesOf(b)} \cup InHand(h)
    BY <2>5, <2>6 DEF OwnedOf
  <2> QED
    BY <2>10, <2>11, <2>12 DEF OwnedOf, b
<1> QED
  BY <1>1, <1>2 DEF Posts

LEMMA PostedCarries ==
  ASSUME NEW q \in IOType, NEW p, NEW x, Posts(q, p, x), NEW d
  PROVE  Queued(p.queue, d) = Queued(q.queue, d)
<1>1. CASE p.queue = q.queue
  BY <1>1
<1>2. ASSUME NEW c \in Chunks, NEW m \in {"swipe", "keycode"},
             p.queue = Append(q.queue, [m |-> m, chunk |-> c])
      PROVE  Queued(p.queue, d) = Queued(q.queue, d)
  <2> DEFINE msg == [m |-> m, chunk |-> c]
  <2>1. msg \in Message /\ q.queue \in Seq(Message)
    BY DEF Message, IOType
  <2>2. Carried(msg, d) = <<>>
    BY DEF Carried
  <2> HIDE DEF msg
  <2>3. Queued(p.queue, d) = Join(Queued(q.queue, d), <<>>)
    BY <1>2, <2>1, <2>2, QueuedAppend DEF msg
  <2> QED
    BY <2>1, <2>3, QueuedType, Joining
<1> QED
  BY <1>1, <1>2 DEF Posts

LEMMA PostedKeeps ==
  ASSUME NEW q \in IOType, NEW p, NEW x \in Report, Posts(q, p, x), NEW c \in Chunks
  PROVE  /\ q.pool[c] # Empty => p.pool[c] = q.pool[c]
         /\ q.pool[c] = Empty => p.pool[c] \in {Empty, x}
BY DEF Posts, IOType

-----------------------------------------------------------------------------
(***************************************************************************)
(* The tick of one door.                                                   *)
(***************************************************************************)
\* What justifies the report x: the bits of the reader r, or the end of a code.
JustCard(x, r) ==
  Expired(r) /\ Len(r.bits) = CardBits /\ Parity(r.bits) /\ x.card = Card(r.bits)
JustKey(x, r) ==
  Expired(r) /\ Len(r.bits) \in KeyBits /\ x.code[Len(x.code)] \in KEYCODES(Value(r.bits))
JustEnd(x, least, k) ==
  k.locked > least /\ x.code[Len(x.code)] = HASH
Just(x, r, least, k) ==
  IF "card" \in DOMAIN x THEN JustCard(x, r) ELSE JustEnd(x, least, k) \/ JustKey(x, r)

\* The tick takes s to t: at door d, and it posts no more than one report, with
\* the door, that the bits of r justify.
OneDoor(s, t, d) ==
  \A e \in Doors : e # d => t.u2.readers[e] = s.u2.readers[e] /\ t.u2.keypads[e] = s.u2.keypads[e]
Reports(s, t, d, r, least) ==
  \/ t.io = s.io
  \/ \E x \in Report : Posts(s.io, t.io, x) /\ x.door = d /\ Just(x, r, least, t.u2.keypads[d])

LEMMA TypeReader ==
  ASSUME NEW r \in ReaderType
  PROVE  /\ Ticked(r) \in ReaderType
         /\ Ticked(r).bits = IF r.locked = 1 THEN <<>> ELSE r.bits
         /\ r.bits = <<>> => Ticked(r).bits = <<>>
<1>1. Reader \in ReaderType
  BY EmptySeq DEF Reader, ReaderType
<1>2. Unlock(r, Reader) \in ReaderType
  BY <1>1 DEF Unlock, ReaderType
<1>3. Unlock(r, Reader).bits = IF r.locked = 1 THEN <<>> ELSE r.bits
  BY DEF Unlock, Reader, ReaderType
<1> DEFINE u == Unlock(r, Reader)
<1> HIDE DEF u
<1>4. \A v \in ReaderType, b \in BOOLEAN : Advance(v, b) \in ReaderType /\ Advance(v, b).bits = v.bits
  BY DEF Advance, ReaderType
<1>5. u \in ReaderType /\ Ticked(r) = Advance(u, u.bits # <<>>)
  BY <1>2 DEF Ticked, u
<1>6. Ticked(r) \in ReaderType /\ Ticked(r).bits = u.bits
  BY <1>4, <1>5
<1> QED
  BY <1>3, <1>6 DEF u

LEMMA TypeKeypad ==
  ASSUME NEW k \in KeypadType
  PROVE  LET v == Unlock(k, Keypad) IN
         /\ v \in KeypadType
         /\ \A b \in BOOLEAN : Advance(v, b) \in KeypadType /\ Advance(v, b).locked = v.locked
         /\ k.locked > 1 => v.locked > 0
<1>1. Keypad \in KeypadType
  BY EmptySeq DEF Keypad, KeypadType
<1>2. Unlock(k, Keypad) \in KeypadType
  BY <1>1 DEF Unlock, KeypadType
<1>3. k.locked > 1 => Unlock(k, Keypad).locked > 0
  BY DEF Unlock, Keypad, KeypadType
<1>4. \A v \in KeypadType, b \in BOOLEAN : Advance(v, b) \in KeypadType /\ Advance(v, b).locked = v.locked
  BY DEF Advance, KeypadType
<1> QED
  BY <1>2, <1>3, <1>4

\* The end of a code.
LEMMA Ending ==
  ASSUME NEW s \in State, NEW d \in Doors, NEW code \in Code
  PROVE  LET t == EndCode(s, d, code) IN
         /\ t \in State /\ t.u2.readers = s.u2.readers
         /\ \A e \in Doors : e # d => t.u2.keypads[e] = s.u2.keypads[e]
         /\ t.u2.keypads[d].locked = CODE_LOCK
         /\ Posts(s.io, t.io, [door |-> d, code |-> code])
         /\ [door |-> d, code |-> code] \in Report
<1> DEFINE x == [door |-> d, code |-> code]
           p == Post(s.io, "keycode", x)
           k == [Keypad EXCEPT !.locked = CODE_LOCK]
           t == EndCode(s, d, code)
<1>1. x \in Report
  BY DEF Report
<1>2. s.io \in IOType /\ s.u2 \in U2Type
  BY DEF State
<1>3. Posts(s.io, p, x)
  BY <1>1, <1>2, PostPosts
<1>4. p \in IOType
  BY <1>3 DEF Posts
<1>5. k \in KeypadType /\ k.locked = CODE_LOCK
  BY Constants, EmptySeq DEF Keypad, KeypadType
<1> HIDE DEF p, k, x
<1>6. t = [[s EXCEPT !.io = p] EXCEPT !.u2.keypads[d] = k]
  BY DEF EndCode, U2_on_keycode, p, k, x
<1>7. t = [u2 |-> [readers |-> s.u2.readers, keypads |-> [s.u2.keypads EXCEPT ![d] = k]], io |-> p]
  BY <1>2, <1>6 DEF State, U2Type
<1> HIDE DEF t
<1>8. t.io = p /\ t.u2.readers = s.u2.readers /\ t.u2.keypads = [s.u2.keypads EXCEPT ![d] = k]
  BY <1>7
<1>9. t \in State
  BY <1>2, <1>4, <1>5, <1>7 DEF State, U2Type
<1>10. t.u2.keypads[d] = k /\ \A e \in Doors : e # d => t.u2.keypads[e] = s.u2.keypads[e]
  BY <1>2, <1>8 DEF U2Type
<1> QED
  BY <1>1, <1>3, <1>5, <1>8, <1>9, <1>10 DEF t, x

\* A digit.
LEMMA Digit ==
  ASSUME NEW s \in State, NEW d \in Doors, NEW k \in Key
  PROVE  LET t == U2_on_keypad_digit(s, d, k) IN
         /\ t \in State /\ t.u2.readers = s.u2.readers
         /\ \A e \in Doors : e # d => t.u2.keypads[e] = s.u2.keypads[e]
         /\ \/ t.io = s.io
            \/ \E x \in Report :
                 /\ Posts(s.io, t.io, x) /\ x.door = d /\ "card" \notin DOMAIN x
                 /\ \/ JustEnd(x, 1, t.u2.keypads[d])
                    \/ x.code[Len(x.code)] = k
<1> DEFINE code == Append(s.u2.keypads[d].code, k)
           kt == [s.u2.keypads[d] EXCEPT !.code = code]
           t == [s EXCEPT !.u2.keypads[d].code = code]
           long == Append(SubSeq(code, 1, PINSIZE), HASH)
           r == U2_on_keypad_digit(s, d, k)
<1>1. s.io \in IOType /\ s.u2 \in U2Type /\ s.u2.keypads[d] \in KeypadType
  BY DEF State, U2Type
<1>2. code \in Code /\ code \in Seq(Key) /\ code[Len(code)] = k
  <2> DEFINE before == s.u2.keypads[d].code
  <2>1. before \in Seq(Key)
    BY <1>1 DEF KeypadType
  <2> HIDE DEF before
  <2>2. Append(before, k) \in Seq(Key) /\ Append(before, k) # <<>>
    BY <2>1, AppendProperties
  <2>3. Len(Append(before, k)) = Len(before) + 1 /\ Append(before, k)[Len(before) + 1] = k
    BY <2>1, AppendProperties
  <2> QED
    BY <2>2, <2>3 DEF before, Code
<1> HIDE DEF code
<1>3. t = [u2 |-> [readers |-> s.u2.readers, keypads |-> [s.u2.keypads EXCEPT ![d] = kt]], io |-> s.io]
  <2>1. t = [s EXCEPT !.u2.keypads[d] = kt]
    OBVIOUS
  <2> HIDE DEF kt, t
  <2> QED
    BY <1>1, <2>1 DEF State, U2Type
<1>4. kt \in KeypadType
  BY <1>1, <1>2 DEF KeypadType
<1> HIDE DEF kt, t, code
<1>5. t \in State
  BY <1>1, <1>3, <1>4 DEF State, U2Type
<1>6. /\ t.io = s.io /\ t.u2.readers = s.u2.readers
      /\ \A e \in Doors : e # d => t.u2.keypads[e] = s.u2.keypads[e]
  BY <1>1, <1>3 DEF U2Type
<1>7. \A c \in Code : "card" \notin DOMAIN [door |-> d, code |-> c]
  OBVIOUS
<1>8. CASE Len(code) >= PINSIZE
  <2>1. r = EndCode(t, d, long)
    BY <1>8 DEF U2_on_keypad_digit, code, t
  <2>2. long \in Code /\ long[Len(long)] = HASH
    <3> DEFINE first == SubSeq(code, 1, PINSIZE)
    <3>1. first \in Seq(Key)
      <4>1. \A i \in 1 .. PINSIZE : code[i] \in Key
        BY <1>2, <1>8, Constants, LenProperties
      <4> QED
        BY <4>1, Constants, SubSeqProperties
    <3>2. HASH \in Key
      BY Constants DEF Key
    <3> HIDE DEF first
    <3> QED
      BY <3>1, <3>2, AppendProperties, LenProperties DEF first, Code
  <2> HIDE DEF long, r
  <2> DEFINE x == [door |-> d, code |-> long]
  <2>3. /\ r \in State /\ r.u2.readers = t.u2.readers
        /\ \A e \in Doors : e # d => r.u2.keypads[e] = t.u2.keypads[e]
        /\ r.u2.keypads[d].locked = CODE_LOCK
        /\ Posts(t.io, r.io, x) /\ x \in Report
    BY <1>5, <2>1, <2>2, Ending
  <2>4. x.door = d /\ "card" \notin DOMAIN x /\ x.code = long
    BY <1>7, <2>2
  <2>5. JustEnd(x, 1, r.u2.keypads[d])
    BY <2>2, <2>3, <2>4, Constants DEF JustEnd
  <2> HIDE DEF x
  <2> QED
    BY <1>6, <2>3, <2>4, <2>5 DEF r
<1>9. CASE ~(Len(code) >= PINSIZE) /\ k \in {STAR, HASH}
  <2>1. r = EndCode(t, d, code)
    BY <1>9 DEF U2_on_keypad_digit, code, t
  <2> HIDE DEF r
  <2> DEFINE x == [door |-> d, code |-> code]
  <2>2. /\ r \in State /\ r.u2.readers = t.u2.readers
        /\ \A e \in Doors : e # d => r.u2.keypads[e] = t.u2.keypads[e]
        /\ Posts(t.io, r.io, x) /\ x \in Report
    BY <1>2, <1>5, <2>1, Ending
  <2>3. x.door = d /\ "card" \notin DOMAIN x /\ x.code[Len(x.code)] = k
    BY <1>2, <1>7
  <2> HIDE DEF x
  <2> QED
    BY <1>6, <2>2, <2>3 DEF r
<1>10. CASE ~(Len(code) >= PINSIZE) /\ k \notin {STAR, HASH} /\ s.u2.keypads[d].locked = 0
  <2> DEFINE x == [door |-> d, code |-> code]
             p == Post(t.io, "keycode", x)
             kp == [t.u2.keypads[d] EXCEPT !.timer = 0]
  <2>1. r = [[t EXCEPT !.io = p] EXCEPT !.u2.keypads[d].timer = 0]
    BY <1>10 DEF U2_on_keypad_digit, U2_on_keycode, code, t
  <2>2. x \in Report /\ x.door = d /\ "card" \notin DOMAIN x /\ x.code[Len(x.code)] = k
    BY <1>2, <1>7 DEF Report
  <2>3. t.io \in IOType /\ t.u2 \in U2Type /\ t.u2.keypads[d] \in KeypadType
    BY <1>5 DEF State, U2Type
  <2> HIDE DEF x
  <2>4. Posts(t.io, p, x)
    BY <2>2, <2>3, PostPosts
  <2>5. p \in IOType
    BY <2>4 DEF Posts
  <2> HIDE DEF p, r
  <2>6. r = [u2 |-> [readers |-> t.u2.readers, keypads |-> [t.u2.keypads EXCEPT ![d] = kp]], io |-> p]
    BY <1>5, <2>1, <2>3 DEF State, U2Type, KeypadType
  <2>7. kp \in KeypadType
    BY <2>3 DEF KeypadType
  <2> HIDE DEF kp
  <2>8. r \in State
    BY <2>3, <2>5, <2>6, <2>7 DEF State, U2Type
  <2>9. /\ r.io = p /\ r.u2.readers = t.u2.readers
        /\ \A e \in Doors : e # d => r.u2.keypads[e] = t.u2.keypads[e]
    BY <2>3, <2>6 DEF U2Type
  <2> QED
    BY <1>6, <2>2, <2>4, <2>8, <2>9 DEF r
<1>11. CASE ~(Len(code) >= PINSIZE) /\ k \notin {STAR, HASH} /\ s.u2.keypads[d].locked # 0
  <2>1. r = t
    BY <1>11 DEF U2_on_keypad_digit, code, t
  <2> QED
    BY <1>5, <1>6, <2>1
<1> QED
  BY <1>8, <1>9, <1>10, <1>11

\* A card.
LEMMA CardRead ==
  ASSUME NEW s \in State, NEW d \in Doors, Expired(s.u2.readers[d]),
         Len(s.u2.readers[d].bits) = CardBits
  PROVE  LET t == U2_on_card_read(s, d) IN
         /\ t \in State
         /\ \A e \in Doors : e # d => t.u2.readers[e] = s.u2.readers[e] /\ t.u2.keypads[e] = s.u2.keypads[e]
         /\ \/ t.io = s.io
            \/ \E x \in Report :
                 /\ Posts(s.io, t.io, x) /\ x.door = d /\ "card" \in DOMAIN x
                 /\ JustCard(x, s.u2.readers[d])
<1> DEFINE bits == s.u2.readers[d].bits
           x == [door |-> d, card |-> Card(bits)]
           p == IF Parity(bits) THEN Post(s.io, "swipe", x) ELSE s.io
           t == [s EXCEPT !.u2.keypads[d] = Keypad]
           rd == [s.u2.readers[d] EXCEPT !.locked = CARD_LOCK]
           r == U2_on_card_read(s, d)
<1>1. s.io \in IOType /\ s.u2 \in U2Type /\ s.u2.readers[d] \in ReaderType
  BY DEF State, U2Type
<1>2. bits \in Seq(Bit)
  BY <1>1 DEF ReaderType
<1>3. x \in Report
  <2>1. Len(bits) \in Nat /\ \A i \in 2 .. Len(bits) - 1 : bits[i] \in Bit
    BY <1>2, LenProperties
  <2> HIDE DEF bits
  <2>2. SubSeq(bits, 2, Len(bits) - 1) \in Seq(Bit)
    BY <2>1, SubSeqProperties
  <2> QED
    BY <2>2 DEF Report, Card
<1>4. x.door = d /\ "card" \in DOMAIN x /\ x.card = Card(bits)
  OBVIOUS
<1>5. t = [u2 |-> [readers |-> s.u2.readers, keypads |-> [s.u2.keypads EXCEPT ![d] = Keypad]], io |-> s.io]
  BY <1>1 DEF State, U2Type
<1>6. Keypad \in KeypadType /\ rd \in ReaderType
  BY <1>1, EmptySeq, Constants DEF Keypad, KeypadType, ReaderType
<1> HIDE DEF x, rd, t
<1>7. CASE s.u2.readers[d].locked > 0
  <2>1. r = t
    BY <1>7 DEF U2_on_card_read, t
  <2>2. t \in State
    BY <1>1, <1>5, <1>6 DEF State, U2Type
  <2>3. /\ t.io = s.io
        /\ \A e \in Doors : e # d => t.u2.readers[e] = s.u2.readers[e] /\ t.u2.keypads[e] = s.u2.keypads[e]
    BY <1>1, <1>5 DEF U2Type
  <2> QED
    BY <2>1, <2>2, <2>3
<1>8. CASE ~(s.u2.readers[d].locked > 0)
  <2>1. p \in IOType /\ (p = s.io \/ (Parity(bits) /\ Posts(s.io, p, x)))
    <3>1. Posts(s.io, Post(s.io, "swipe", x), x)
      BY <1>1, <1>3, PostPosts
    <3> QED
      BY <1>1, <3>1 DEF Posts
  <2>2. r = [t EXCEPT !.u2.readers[d].locked = CARD_LOCK,
                      !.io = IF Parity(bits) THEN Post(@, "swipe", x) ELSE @]
    BY <1>8 DEF U2_on_card_read, t, x
  <2>3. t.io = s.io
    BY <1>5
  <2>4. r = [u2 |-> [readers |-> [s.u2.readers EXCEPT ![d] = rd],
                     keypads |-> [s.u2.keypads EXCEPT ![d] = Keypad]], io |-> p]
    <3>1. r = [t EXCEPT !.u2.readers[d].locked = CARD_LOCK, !.io = p]
      <4> HIDE DEF r, bits
      <4> QED
        BY <1>5, <2>2, <2>3
    <3> HIDE DEF p, r, bits
    <3> QED
      BY <1>1, <1>5, <3>1 DEF U2Type, ReaderType, rd
  <2> HIDE DEF p, r
  <2>5. r \in State
    BY <1>1, <1>6, <2>1, <2>4 DEF State, U2Type
  <2>6. /\ r.io = p
        /\ \A e \in Doors : e # d => r.u2.readers[e] = s.u2.readers[e] /\ r.u2.keypads[e] = s.u2.keypads[e]
    BY <1>1, <2>4 DEF U2Type
  <2>7. Parity(bits) => JustCard(x, s.u2.readers[d])
    BY <1>4 DEF JustCard
  <2> QED
    BY <1>3, <1>4, <2>1, <2>5, <2>6, <2>7 DEF r
<1> QED
  BY <1>7, <1>8

\* The bits are done with.
LEMMA Clearing ==
  ASSUME NEW s \in State, NEW d \in Doors
  PROVE  LET t == Clear(s, d) IN
         /\ t \in State /\ t.io = s.io /\ t.u2.keypads = s.u2.keypads
         /\ \A e \in Doors : e # d => t.u2.readers[e] = s.u2.readers[e]
         /\ t.u2.readers[d].bits = <<>>
<1> DEFINE r == [s.u2.readers[d] EXCEPT !.bits = <<>>, !.timer = 0]
           t == Clear(s, d)
<1>1. s.io \in IOType /\ s.u2 \in U2Type /\ s.u2.readers[d] \in ReaderType
  BY DEF State, U2Type
<1>2. r \in ReaderType /\ r.bits = <<>>
  BY <1>1, EmptySeq DEF ReaderType
<1>3. t = [s EXCEPT !.u2.readers[d] = r]
  BY DEF Clear
<1> HIDE DEF r, t
<1>4. t = [u2 |-> [readers |-> [s.u2.readers EXCEPT ![d] = r], keypads |-> s.u2.keypads], io |-> s.io]
  BY <1>1, <1>3 DEF State, U2Type
<1>5. t \in State
  BY <1>1, <1>2, <1>4 DEF State, U2Type
<1>6. /\ t.io = s.io /\ t.u2.keypads = s.u2.keypads /\ t.u2.readers[d] = r
      /\ \A e \in Doors : e # d => t.u2.readers[e] = s.u2.readers[e]
  BY <1>1, <1>4 DEF U2Type
<1> QED
  BY <1>2, <1>5, <1>6 DEF t

LEMMA ReaderTick ==
  ASSUME NEW s \in State, NEW d \in Doors
  PROVE  LET t == U2_tick_reader(s, d)
             r == Ticked(s.u2.readers[d]) IN
         /\ t \in State /\ OneDoor(s, t, d) /\ Reports(s, t, d, r, 1)
         /\ t.u2.readers[d].bits = IF Expired(r) THEN <<>> ELSE r.bits
<1> DEFINE r == Ticked(s.u2.readers[d])
           t == [s EXCEPT !.u2.readers[d] = r]
           keys == KEYCODES(Value(r.bits))
           key == CHOOSE k \in keys : TRUE
           w == U2_tick_reader(s, d)
<1>1. s.io \in IOType /\ s.u2 \in U2Type /\ s.u2.readers[d] \in ReaderType
  BY DEF State, U2Type
<1>2. r \in ReaderType
  BY <1>1, TypeReader
<1>3. keys \subseteq Key
  BY DEF KEYCODES, Key
<1> HIDE DEF r
<1>4. t = [u2 |-> [readers |-> [s.u2.readers EXCEPT ![d] = r], keypads |-> s.u2.keypads], io |-> s.io]
  BY <1>1 DEF State, U2Type
<1> HIDE DEF t, keys
<1>5. t \in State
  BY <1>1, <1>2, <1>4 DEF State, U2Type
<1>6. /\ t.io = s.io /\ t.u2.keypads = s.u2.keypads /\ t.u2.readers[d] = r
      /\ \A e \in Doors : e # d => t.u2.readers[e] = s.u2.readers[e]
  BY <1>1, <1>4 DEF U2Type
<1>7. w = IF ~Expired(r) THEN t
          ELSE Clear(IF Len(r.bits) = CardBits THEN U2_on_card_read(t, d)
                     ELSE IF Len(r.bits) \in KeyBits /\ keys # {} THEN U2_on_keypad_digit(t, d, key)
                     ELSE t, d)
  BY DEF U2_tick_reader, r, t, keys
<1> HIDE DEF w, key
<1>8. CASE ~Expired(r)
  BY <1>5, <1>6, <1>7, <1>8 DEF OneDoor, Reports, w, r
<1>9. ASSUME Expired(r), NEW v \in State, w = Clear(v, d), OneDoor(s, v, d), Reports(s, v, d, r, 1)
      PROVE  w \in State /\ OneDoor(s, w, d) /\ Reports(s, w, d, r, 1) /\ w.u2.readers[d].bits = <<>>
  <2>1. /\ w \in State /\ w.io = v.io /\ w.u2.keypads = v.u2.keypads
        /\ \A e \in Doors : e # d => w.u2.readers[e] = v.u2.readers[e]
        /\ w.u2.readers[d].bits = <<>>
    BY <1>9, Clearing
  <2> QED
    BY <1>9, <2>1 DEF OneDoor, Reports
<1>10. CASE Expired(r) /\ Len(r.bits) = CardBits
  <2> DEFINE v == U2_on_card_read(t, d)
  <2>1. /\ v \in State
        /\ \A e \in Doors : e # d => v.u2.readers[e] = t.u2.readers[e] /\ v.u2.keypads[e] = t.u2.keypads[e]
        /\ \/ v.io = t.io
           \/ \E x \in Report :
                /\ Posts(t.io, v.io, x) /\ x.door = d /\ "card" \in DOMAIN x
                /\ JustCard(x, r)
    BY <1>5, <1>6, <1>10, CardRead
  <2>2. w = Clear(v, d)
    BY <1>7, <1>10
  <2> HIDE DEF v
  <2>3. OneDoor(s, v, d) /\ Reports(s, v, d, r, 1)
    BY <1>6, <2>1 DEF OneDoor, Reports, Just
  <2>4. w \in State /\ OneDoor(s, w, d) /\ Reports(s, w, d, r, 1) /\ w.u2.readers[d].bits = <<>>
    BY <1>9, <1>10, <2>1, <2>2, <2>3
  <2> QED
    BY <1>10, <2>4 DEF w, r
<1>11. CASE Expired(r) /\ Len(r.bits) # CardBits /\ Len(r.bits) \in KeyBits /\ keys # {}
  <2> DEFINE v == U2_on_keypad_digit(t, d, key)
  <2>1. key \in keys
    BY <1>11 DEF key
  <2>2. key \in Key
    BY <1>3, <2>1
  <2>3. /\ v \in State /\ v.u2.readers = t.u2.readers
        /\ \A e \in Doors : e # d => v.u2.keypads[e] = t.u2.keypads[e]
        /\ \/ v.io = t.io
           \/ \E x \in Report :
                /\ Posts(t.io, v.io, x) /\ x.door = d /\ "card" \notin DOMAIN x
                /\ JustEnd(x, 1, v.u2.keypads[d]) \/ x.code[Len(x.code)] = key
    BY <1>5, <2>2, Digit
  <2>4. w = Clear(v, d)
    BY <1>7, <1>11
  <2> HIDE DEF v
  <2>5. OneDoor(s, v, d)
    BY <1>6, <2>3 DEF OneDoor
  <2>6. Reports(s, v, d, r, 1)
    <3>1. CASE v.io = t.io
      BY <1>6, <3>1 DEF Reports
    <3>2. ASSUME NEW x \in Report, Posts(t.io, v.io, x), x.door = d, "card" \notin DOMAIN x,
                 JustEnd(x, 1, v.u2.keypads[d]) \/ x.code[Len(x.code)] = key
          PROVE  Reports(s, v, d, r, 1)
      <4>1. JustEnd(x, 1, v.u2.keypads[d]) \/ JustKey(x, r)
        BY <1>11, <2>1, <3>2 DEF JustKey, keys
      <4> QED
        BY <1>6, <3>2, <4>1 DEF Reports, Just
    <3> QED
      BY <2>3, <3>1, <3>2
  <2>7. w \in State /\ OneDoor(s, w, d) /\ Reports(s, w, d, r, 1) /\ w.u2.readers[d].bits = <<>>
    BY <1>9, <1>11, <2>3, <2>4, <2>5, <2>6
  <2> QED
    BY <1>11, <2>7 DEF w, r
<1>12. CASE Expired(r) /\ Len(r.bits) # CardBits /\ ~(Len(r.bits) \in KeyBits /\ keys # {})
  <2>1. w = Clear(t, d)
    BY <1>7, <1>12
  <2>2. OneDoor(s, t, d) /\ Reports(s, t, d, r, 1)
    BY <1>6 DEF OneDoor, Reports
  <2>3. w \in State /\ OneDoor(s, w, d) /\ Reports(s, w, d, r, 1) /\ w.u2.readers[d].bits = <<>>
    BY <1>5, <1>9, <1>12, <2>1, <2>2
  <2> QED
    BY <1>12, <2>3 DEF w, r
<1> QED
  BY <1>8, <1>10, <1>11, <1>12

LEMMA KeypadTick ==
  ASSUME NEW s \in State, NEW d \in Doors
  PROVE  LET t == U2_tick_keypad(s, d) IN
         /\ t \in State /\ t.u2.readers = s.u2.readers
         /\ \A e \in Doors : e # d => t.u2.keypads[e] = s.u2.keypads[e]
         /\ s.u2.keypads[d].locked > 1 => t.u2.keypads[d].locked > 0
         /\ \/ t.io = s.io
            \/ \E x \in Report :
                 /\ Posts(s.io, t.io, x) /\ x.door = d /\ "card" \notin DOMAIN x
                 /\ JustEnd(x, 0, t.u2.keypads[d])
<1> DEFINE v == Unlock(s.u2.keypads[d], Keypad)
           k == Advance(v, v.code # <<>>)
           t == [s EXCEPT !.u2.keypads[d] = k]
           long == Append(k.code, HASH)
           w == U2_tick_keypad(s, d)
<1>1. s.io \in IOType /\ s.u2 \in U2Type /\ s.u2.keypads[d] \in KeypadType
  BY DEF State, U2Type
<1>2. k \in KeypadType /\ (s.u2.keypads[d].locked > 1 => k.locked > 0)
  BY <1>1, TypeKeypad
<1>3. w = IF k.code # <<>> /\ k.timer >= CODE_TIMEOUT THEN EndCode(t, d, long) ELSE t
  BY DEF U2_tick_keypad
<1> HIDE DEF k, w, long
<1>4. t = [u2 |-> [readers |-> s.u2.readers, keypads |-> [s.u2.keypads EXCEPT ![d] = k]], io |-> s.io]
  BY <1>1 DEF State, U2Type
<1> HIDE DEF t
<1>5. t \in State
  BY <1>1, <1>2, <1>4 DEF State, U2Type
<1>6. /\ t.io = s.io /\ t.u2.readers = s.u2.readers /\ t.u2.keypads[d] = k
      /\ \A e \in Doors : e # d => t.u2.keypads[e] = s.u2.keypads[e]
  BY <1>1, <1>4 DEF U2Type
<1>7. CASE ~(k.code # <<>> /\ k.timer >= CODE_TIMEOUT)
  BY <1>2, <1>3, <1>5, <1>6, <1>7 DEF w
<1>8. CASE k.code # <<>> /\ k.timer >= CODE_TIMEOUT
  <2> DEFINE x == [door |-> d, code |-> long]
  <2>1. long \in Code /\ long[Len(long)] = HASH
    <3> DEFINE before == k.code
    <3>1. before \in Seq(Key) /\ HASH \in Key
      BY <1>2, Constants DEF KeypadType, Key
    <3> HIDE DEF before
    <3> DEFINE a == Append(before, HASH)
    <3>2. a \in Seq(Key) /\ a # <<>> /\ Len(a) = Len(before) + 1 /\ a[Len(before) + 1] = HASH
      BY <3>1, AppendProperties
    <3> QED
      BY <3>2 DEF before, long, Code
  <2>2. /\ w \in State /\ w.u2.readers = t.u2.readers
        /\ \A e \in Doors : e # d => w.u2.keypads[e] = t.u2.keypads[e]
        /\ w.u2.keypads[d].locked = CODE_LOCK
        /\ Posts(t.io, w.io, x) /\ x \in Report
    BY <1>3, <1>5, <1>8, <2>1, Ending
  <2>3. x.door = d /\ "card" \notin DOMAIN x /\ x.code = long
    OBVIOUS
  <2>4. JustEnd(x, 0, w.u2.keypads[d])
    BY <2>1, <2>2, <2>3, Constants DEF JustEnd
  <2> HIDE DEF x
  <2> QED
    BY <1>6, <2>2, <2>3, <2>4, Constants DEF w
<1> QED
  BY <1>7, <1>8

\* The reader, then the keypad.
Tick(s, d) == U2_tick_keypad(U2_tick_reader(s, d), d)

\* From s to t no report is lost, and each new one is justified by a door of doors:
\* what its reader had at the start of the tick, and what its keypad has now.
Keeps(s, t) ==
  /\ \A h : OwnedOf(s.io.queue, s.io.pool, h) => OwnedOf(t.io.queue, t.io.pool, h)
  /\ \A d : Queued(t.io.queue, d) = Queued(s.io.queue, d)
  /\ \A c \in Chunks : s.io.pool[c] # Empty => t.io.pool[c] = s.io.pool[c]
Justified(x, s, t) ==
  /\ x \in Report /\ Just(x, Ticked(s.u2.readers[x.door]), 0, t.u2.keypads[x.door])
Justifies(s, t, doors) ==
  \A c \in Chunks : s.io.pool[c] = Empty /\ t.io.pool[c] # Empty =>
    t.io.pool[c].door \in doors /\ Justified(t.io.pool[c], s, t)
After(r) == IF Expired(Ticked(r)) THEN <<>> ELSE Ticked(r).bits

LEMMA KeepsPosted ==
  ASSUME NEW s \in State, NEW t,
         t.io = s.io \/ \E x \in Report : Posts(s.io, t.io, x)
  PROVE  Keeps(s, t)
<1>1. s.io \in IOType
  BY DEF State
<1>2. CASE t.io = s.io
  BY <1>2 DEF Keeps
<1>3. ASSUME NEW x \in Report, Posts(s.io, t.io, x) PROVE Keeps(s, t)
  <2>1. \A h : OwnedOf(s.io.queue, s.io.pool, h) => OwnedOf(t.io.queue, t.io.pool, h)
    BY <1>1, <1>3, PostedIsOwned
  <2>2. \A d : Queued(t.io.queue, d) = Queued(s.io.queue, d)
    BY <1>1, <1>3, PostedCarries
  <2>3. \A c \in Chunks : s.io.pool[c] # Empty => t.io.pool[c] = s.io.pool[c]
    BY <1>1, <1>3, PostedKeeps
  <2> QED
    BY <2>1, <2>2, <2>3 DEF Keeps
<1> QED
  BY <1>2, <1>3

LEMMA DoorTick ==
  ASSUME NEW s \in State, NEW d \in Doors
  PROVE  LET t == Tick(s, d) IN
         /\ t \in State /\ OneDoor(s, t, d) /\ Keeps(s, t) /\ Justifies(s, t, {d})
         /\ t.u2.readers[d].bits = After(s.u2.readers[d])
<1> DEFINE v == U2_tick_reader(s, d)
           t == Tick(s, d)
           r == Ticked(s.u2.readers[d])
<1>1. /\ v \in State /\ OneDoor(s, v, d) /\ Reports(s, v, d, r, 1)
      /\ v.u2.readers[d].bits = After(s.u2.readers[d])
  BY ReaderTick DEF After
<1> HIDE DEF v, r
<1>2. /\ t \in State /\ t.u2.readers = v.u2.readers
      /\ \A e \in Doors : e # d => t.u2.keypads[e] = v.u2.keypads[e]
      /\ v.u2.keypads[d].locked > 1 => t.u2.keypads[d].locked > 0
      /\ \/ t.io = v.io
         \/ \E x \in Report :
              /\ Posts(v.io, t.io, x) /\ x.door = d /\ "card" \notin DOMAIN x
              /\ JustEnd(x, 0, t.u2.keypads[d])
  BY <1>1, KeypadTick DEF Tick, v
<1> HIDE DEF t
<1>3. OneDoor(s, t, d) /\ t.u2.readers[d].bits = After(s.u2.readers[d])
  BY <1>1, <1>2 DEF OneDoor
<1>4. Keeps(s, v) /\ Keeps(v, t)
  BY <1>1, <1>2, KeepsPosted DEF Reports
<1>5. Keeps(s, t)
  <2>1. \A c \in Chunks : s.io.pool[c] # Empty => t.io.pool[c] = s.io.pool[c]
    BY <1>4 DEF Keeps
  <2> QED
    BY <1>4, <2>1 DEF Keeps
<1>6. v.u2.keypads[d] \in KeypadType /\ t.u2.keypads[d] \in KeypadType
  BY <1>1, <1>2 DEF State, U2Type
<1>7. ASSUME NEW c \in Chunks, s.io.pool[c] = Empty, t.io.pool[c] # Empty
      PROVE  t.io.pool[c].door = d /\ Justified(t.io.pool[c], s, t)
  <2>1. CASE v.io.pool[c] # Empty
    <3>1. t.io.pool[c] = v.io.pool[c]
      BY <1>4, <2>1 DEF Keeps
    <3>2. PICK x \in Report : Posts(s.io, v.io, x) /\ x.door = d /\ Just(x, r, 1, v.u2.keypads[d])
      BY <1>1, <1>7, <2>1 DEF Reports
    <3>3. v.io.pool[c] = x
      BY <1>7, <2>1, <3>2, PostedKeeps DEF State
    <3>4. Just(x, r, 0, t.u2.keypads[d])
      BY <1>2, <3>2 DEF Just, JustEnd
    <3> QED
      BY <3>1, <3>2, <3>3, <3>4 DEF Justified, r
  <2>2. CASE v.io.pool[c] = Empty
    <3>1. PICK x \in Report : /\ Posts(v.io, t.io, x) /\ x.door = d /\ "card" \notin DOMAIN x
                              /\ JustEnd(x, 0, t.u2.keypads[d])
      BY <1>2, <1>7, <2>2
    <3>2. t.io.pool[c] = x
      BY <1>1, <1>7, <2>2, <3>1, PostedKeeps DEF State
    <3> QED
      BY <3>1, <3>2 DEF Justified, Just
  <2> QED
    BY <2>1, <2>2
<1>8. Justifies(s, t, {d})
  BY <1>7 DEF Justifies
<1> QED
  BY <1>2, <1>3, <1>5, <1>8 DEF t

-----------------------------------------------------------------------------
(***************************************************************************)
(* The tick of every door in turn.                                         *)
(***************************************************************************)
LEMMA TicksSteps ==
  ASSUME NEW s0 \in State
  PROVE  \E F \in [0 .. N -> State] : F[0] = s0 /\ \A i \in 1 .. N : F[i] = Tick(F[i - 1], i)
<1> DEFINE G == [i \in 1 .. N |-> [s \in State |-> Tick(s, i)]]
           X == State
<1>1. N \in Nat
  BY Constants
<1>2. \A i \in 1 .. N, s \in X : Tick(s, i) \in X
  BY DoorTick DEF Doors
<1> HIDE DEF X
<1>3. G \in [1 .. N -> [X -> X]] /\ \A i \in 1 .. N, s \in X : G[i][s] = Tick(s, i)
  BY <1>2 DEF X
<1>4. s0 \in X
  BY DEF X
<1> HIDE DEF G
<1>5. PICK F \in [0 .. N -> X] : F[0] = s0 /\ \A i \in 1 .. N : F[i] = G[i][F[i - 1]]
  <2>1. Stepwise(G, N, X)
    BY <1>3 DEF Stepwise
  <2>2. \E F : Unfolds(F, G, N, X, s0)
    BY <1>1, <1>4, <2>1, Recursion
  <2> QED
    BY <2>2 DEF Unfolds
<1>6. \A i \in 1 .. N : F[i] = Tick(F[i - 1], i)
  BY <1>1, <1>3, <1>5
<1> QED
  BY <1>5, <1>6 DEF X

LEMMA TicksFold ==
  ASSUME [u2 |-> u2, io |-> io] \in State
  PROVE  \E F \in [0 .. N -> State] :
           /\ F[0] = [u2 |-> u2, io |-> io]
           /\ \A i \in 1 .. N : F[i] = Tick(F[i - 1], i)
           /\ Ticks = {F[N]}
<1> DEFINE s0 == [u2 |-> u2, io |-> io]
           T(d, S) == {U2_tick_keypad(s, d) : s \in {U2_tick_reader(r, d) : r \in S}}
           Step(g) == [d \in 0 .. N |-> IF d = 0 THEN {s0} ELSE T(d, g[d - 1])]
           f == CHOOSE g : g = Step(g)
<1>1. N \in Nat
  BY Constants
<1>3. Ticks = f[N]
  BY DEF Ticks
<1>4. \A i, s : T(i, {s}) = {Tick(s, i)}
  BY DEF Tick
<1> HIDE DEF T
<1>7. PICK F \in [0 .. N -> State] : F[0] = s0 /\ \A i \in 1 .. N : F[i] = Tick(F[i - 1], i)
  BY TicksSteps
<1> HIDE DEF s0
<1>8. \A i \in 1 .. N : F[i] = Tick(F[i - 1], i)
  BY <1>7
<1> DEFINE H == [i \in 0 .. N |-> {F[i]}]
<1>9. H = Step(H)
  <2>1. \A i \in 0 .. N : H[i] = IF i = 0 THEN {s0} ELSE T(i, H[i - 1])
    <3>1. H[0] = {s0}
      BY <1>1, <1>7
    <3>2. ASSUME NEW i \in 0 .. N, i # 0 PROVE H[i] = T(i, H[i - 1])
      <4>1. i \in 1 .. N /\ i - 1 \in 0 .. N
        BY <1>1, <3>2
      <4>2. H[i] = {F[i]} /\ H[i - 1] = {F[i - 1]}
        BY <4>1
      <4> HIDE DEF H
      <4> QED
        BY <1>4, <1>8, <4>1, <4>2
    <3> HIDE DEF H
    <3> QED
      BY <3>1, <3>2
  <2>2. H = [i \in 0 .. N |-> H[i]]
    OBVIOUS
  <2> HIDE DEF H
  <2> QED
    BY <2>1, <2>2
<1>10. f = Step(f)
  <2> HIDE DEF Step, H
  <2> QED
    BY <1>9
<1> HIDE DEF f, H
<1>11. f[0] = {s0} /\ \A i \in 1 .. N : f[i] = T(i, f[i - 1])
  <2>1. 0 \in 0 .. N /\ \A i \in 1 .. N : i \in 0 .. N /\ i # 0
    BY <1>1
  <2>2. \A i \in 0 .. N : f[i] = IF i = 0 THEN {s0} ELSE T(i, f[i - 1])
    BY <1>10
  <2> HIDE DEF Step
  <2> QED
    BY <2>1, <2>2
<1> DEFINE K == {k \in Nat : k <= N => f[k] = {F[k]}}
<1>12. K = Nat
  <2>1. 0 \in K
    BY <1>7, <1>11
  <2>2. ASSUME NEW k \in K PROVE k + 1 \in K
    <3> SUFFICES ASSUME k + 1 <= N PROVE f[k + 1] = {F[k + 1]}
      BY <2>2
    <3>1. f[k] = {F[k]} /\ k + 1 \in 1 .. N /\ (k + 1) - 1 = k
      BY <1>1, <2>2
    <3>2. f[k + 1] = T(k + 1, {F[k]})
      BY <1>11, <3>1
    <3> QED
      BY <1>4, <1>8, <3>1, <3>2
  <2> QED
    BY <2>1, <2>2, Induction
<1>13. f[N] = {F[N]}
  <2>1. N \in K
    BY <1>1, <1>12
  <2> QED
    BY <1>1, <2>1
<1> QED
  BY <1>3, <1>7, <1>8, <1>13 DEF s0

LEMMA KeepsOn ==
  ASSUME NEW r, NEW s, NEW t, Keeps(r, s), Keeps(s, t)
  PROVE  Keeps(r, t)
<1>1. \A c \in Chunks : r.io.pool[c] # Empty => t.io.pool[c] = r.io.pool[c]
  BY DEF Keeps
<1> QED
  BY <1>1 DEF Keeps

\* After k doors.
LEMMA Ticking ==
  ASSUME NEW s0 \in State, NEW F \in [0 .. N -> State], F[0] = s0,
         \A i \in 1 .. N : F[i] = Tick(F[i - 1], i)
  PROVE  /\ F[N] \in State /\ Keeps(s0, F[N]) /\ Justifies(s0, F[N], Doors)
         /\ \A d \in Doors : F[N].u2.readers[d].bits = After(s0.u2.readers[d])
<1> DEFINE Done(k, e) == F[k].u2.readers[e].bits = After(s0.u2.readers[e])
           Todo(k, e) == /\ F[k].u2.readers[e] = s0.u2.readers[e]
                         /\ F[k].u2.keypads[e] = s0.u2.keypads[e]
           P(k) == /\ Keeps(s0, F[k]) /\ Justifies(s0, F[k], 1 .. k)
                   /\ \A e \in Doors : IF e <= k THEN Done(k, e) ELSE Todo(k, e)
           S == {k \in Nat : k <= N => P(k)}
<1>1. N \in Nat /\ Doors = 1 .. N
  BY Constants DEF Doors
<1>2. P(0)
  <2>1. Keeps(s0, F[0]) /\ Justifies(s0, F[0], 1 .. 0)
    BY DEF Keeps, Justifies
  <2>2. \A e \in Doors : ~(e <= 0) /\ Todo(0, e)
    BY <1>1
  <2> QED
    BY <2>1, <2>2
<1>3. ASSUME NEW k \in Nat, k + 1 <= N, P(k) PROVE P(k + 1)
  <2> DEFINE d == k + 1
             s == F[k]
             t == F[k + 1]
  <2>1. d \in Doors /\ d - 1 = k /\ d \in 1 .. N /\ k \in 0 .. N
    BY <1>1, <1>3
  <2>2. s \in State /\ t = Tick(s, d)
    BY <2>1
  <2> HIDE DEF s, t
  <2>3. /\ t \in State /\ OneDoor(s, t, d) /\ Keeps(s, t) /\ Justifies(s, t, {d})
        /\ t.u2.readers[d].bits = After(s.u2.readers[d])
    BY <2>1, <2>2, DoorTick
  <2>4. /\ Keeps(s0, s) /\ Justifies(s0, s, 1 .. k)
        /\ \A e \in Doors : IF e <= k THEN Done(k, e) ELSE Todo(k, e)
    BY <1>3 DEF s
  <2> HIDE DEF d
  <2>5. d \in Nat /\ d = k + 1
    BY <1>3 DEF d
  <2>6. s.u2.readers[d] = s0.u2.readers[d] /\ s.u2.keypads[d] = s0.u2.keypads[d]
    BY <1>3, <2>1, <2>4, <2>5 DEF s
  <2>7. \A e \in Doors : IF e <= k + 1 THEN Done(k + 1, e) ELSE Todo(k + 1, e)
    <3> SUFFICES ASSUME NEW e \in Doors
                 PROVE  IF e <= k + 1 THEN Done(k + 1, e) ELSE Todo(k + 1, e)
      OBVIOUS
    <3>1. CASE e = d
      BY <2>3, <2>5, <2>6, <3>1 DEF t
    <3>2. CASE e # d
      <4>1. t.u2.readers[e] = s.u2.readers[e] /\ t.u2.keypads[e] = s.u2.keypads[e]
        BY <2>3, <3>2 DEF OneDoor
      <4>2. IF e <= k THEN Done(k, e) ELSE Todo(k, e)
        BY <2>4
      <4>3. e \in Nat /\ (e <= k + 1 <=> e <= k)
        BY <1>1, <1>3, <2>5, <3>2
      <4> QED
        BY <4>1, <4>2, <4>3 DEF s, t
    <3> QED
      BY <3>1, <3>2
  <2>8. Keeps(s0, t)
    BY <2>3, <2>4, KeepsOn
  <2>9. Justifies(s0, t, 1 .. k + 1)
    <3> SUFFICES ASSUME NEW c \in Chunks, s0.io.pool[c] = Empty, t.io.pool[c] # Empty
                 PROVE  t.io.pool[c].door \in 1 .. k + 1 /\ Justified(t.io.pool[c], s0, t)
      BY DEF Justifies
    <3>1. CASE s.io.pool[c] # Empty
      <4>1. t.io.pool[c] = s.io.pool[c]
        BY <2>3, <3>1 DEF Keeps
      <4> DEFINE x == s.io.pool[c]
      <4>2. x.door \in 1 .. k /\ Justified(x, s0, s)
        BY <2>4, <3>1 DEF Justifies
      <4> HIDE DEF x
      <4>3. x.door # d /\ x.door \in 1 .. k + 1 /\ x.door \in Doors
        BY <1>1, <1>3, <2>5, <4>2
      <4>4. t.u2.keypads[x.door] = s.u2.keypads[x.door]
        BY <2>3, <4>3 DEF OneDoor
      <4>5. Justified(x, s0, t)
        BY <4>2, <4>4 DEF Justified
      <4> QED
        BY <4>1, <4>3, <4>5 DEF x
    <3>2. CASE s.io.pool[c] = Empty
      <4> DEFINE x == t.io.pool[c]
      <4>1. x.door = d /\ Justified(x, s, t)
        BY <2>3, <3>2 DEF Justifies
      <4> HIDE DEF x
      <4>2. Justified(x, s0, t)
        BY <2>6, <4>1 DEF Justified
      <4> QED
        BY <2>5, <4>1, <4>2 DEF x
    <3> QED
      BY <3>1, <3>2
  <2> QED
    BY <2>7, <2>8, <2>9 DEF t
<1> HIDE DEF P
<1>4. S = Nat
  <2>1. 0 \in S
    BY <1>2
  <2>2. ASSUME NEW k \in S PROVE k + 1 \in S
    <3>1. k + 1 <= N => k <= N
      BY <1>1
    <3> QED
      BY <1>3, <3>1
  <2> QED
    BY <2>1, <2>2, Induction
<1>5. P(N)
  <2>1. N \in S
    BY <1>1, <1>4
  <2> QED
    BY <1>1, <2>1
<1>6. F[N] \in State
  BY <1>1
<1> QED
  BY <1>1, <1>5, <1>6 DEF P

LEMMA TicksFacts ==
  ASSUME [u2 |-> u2, io |-> io] \in State, NEW s \in Ticks
  PROVE  /\ s \in State /\ Keeps([u2 |-> u2, io |-> io], s) /\ Justifies([u2 |-> u2, io |-> io], s, Doors)
         /\ \A d \in Doors : s.u2.readers[d].bits = After(u2.readers[d])
<1> DEFINE s0 == [u2 |-> u2, io |-> io]
<1>1. PICK F \in [0 .. N -> State] :
        F[0] = s0 /\ (\A i \in 1 .. N : F[i] = Tick(F[i - 1], i)) /\ Ticks = {F[N]}
  BY TicksFold
<1>2. s = F[N] /\ s0.u2 = u2
  BY <1>1
<1> HIDE DEF s0
<1>3. /\ F[N] \in State /\ Keeps(s0, F[N]) /\ Justifies(s0, F[N], Doors)
      /\ \A d \in Doors : F[N].u2.readers[d].bits = After(s0.u2.readers[d])
  BY <1>1, Ticking DEF s0
<1> QED
  BY <1>2, <1>3 DEF s0

-----------------------------------------------------------------------------
(***************************************************************************)
(* The types of the state.                                                 *)
(***************************************************************************)
Hand == {Nothing, Scanning} \cup [m : {"swipe", "keycode"}, chunk : Chunks]
Lines == SUBSET (Doors \X Bit)
Sent == [n : Nat, bits : [Doors -> {b \in Seq(Bit) : Len(b) <= MaxBits}]]
Shape ==
  /\ u2 \in U2Type /\ io \in IOType
  /\ hand \in Hand /\ lines \in Lines
  /\ out \in [Doors -> Seq(Bit)] /\ sent \in Sent
  /\ disturbed \in [Doors -> BOOLEAN]

LEMMA ShapeState ==
  Shape => [u2 |-> u2, io |-> io] \in State
BY DEF Shape, State

LEMMA LastBits ==
  ASSUME NEW b \in Seq(Bit)
  PROVE  Last(b) \in Seq(Bit) /\ (Len(b) <= MaxBits => Last(b) = b)
<1>1. MaxBits \in Nat /\ Len(b) \in Nat /\ \A i \in 1 .. Len(b) : b[i] \in Bit
  BY Constants, LenProperties
<1>2. ASSUME Len(b) > MaxBits PROVE SubSeq(b, Len(b) - MaxBits + 1, Len(b)) \in Seq(Bit)
  <2>1. \A i \in Len(b) - MaxBits + 1 .. Len(b) : b[i] \in Bit
    BY <1>1, <1>2
  <2> QED
    BY <1>1, <2>1, SubSeqProperties
<1> QED
  BY <1>1, <1>2 DEF Last

LEMMA IdleTypes ==
  IdleU2 \in U2Type /\ IdleIO \in IOType
<1>1. <<>> \in Seq(Bit) /\ <<>> \in Seq(Key) /\ <<>> \in Seq(Message)
  BY EmptySeq
<1>2. Reader \in ReaderType /\ Keypad \in KeypadType
  BY <1>1 DEF Reader, Keypad, ReaderType, KeypadType
<1> QED
  BY <1>1, <1>2 DEF IdleU2, IdleIO, U2Type, IOType

LEMMA PutType ==
  ASSUME NEW q \in IOType, NEW msg \in Message
  PROVE  /\ Put(q, msg) \in IOType /\ Put(q, msg).pool = q.pool
         /\ Put(q, msg).queue = IF HasRoom(q) THEN Append(q.queue, msg) ELSE q.queue
<1>1. Append(q.queue, msg) \in Seq(Message)
  BY AppendProperties DEF IOType
<1>2. [q EXCEPT !.queue = Append(@, msg)]
        = [queue |-> Append(q.queue, msg), pool |-> q.pool, panic |-> q.panic]
  BY DEF IOType
<1> QED
  BY <1>1, <1>2 DEF Put, IOType

LEMMA WioType ==
  ASSUME NEW ls
  PROVE  \A read \in SUBSET ls : ls \in Lines => [m |-> "wio", lines |-> read] \in Message
BY DEF Message, Lines

\* What the loop adds to the bits of every reader.
LEMMA WioBits ==
  ASSUME u2 \in U2Type, NEW ls, U2_wio(ls)
  PROVE  /\ u2' \in U2Type /\ u2'.keypads = u2.keypads
         /\ \A d \in Doors : u2'.readers[d].bits = Last(Join(u2.readers[d].bits, Of(d, ls)))
<1> DEFINE more(d) == Last(u2.readers[d].bits \o Bits(ls)[d])
           after == [d \in Doors |-> [u2.readers[d] EXCEPT !.bits = more(d), !.timer = 0]]
<1>0. u2' = [u2 EXCEPT !.readers = after]
  BY DEF U2_wio
<1> HIDE DEF more
<1>1. u2' = [readers |-> after, keypads |-> u2.keypads]
  <2> HIDE DEF after
  <2> QED
    BY <1>0 DEF U2Type
<1>2. ASSUME NEW d \in Doors
      PROVE  after[d].bits = Last(Join(u2.readers[d].bits, Of(d, ls))) /\ after[d] \in ReaderType
  <2>1. u2.readers[d] \in ReaderType /\ u2.readers[d].bits \in Seq(Bit) /\ Of(d, ls) \in Seq(Bit)
    BY OfType DEF U2Type, ReaderType
  <2>2. Bits(ls)[d] = Of(d, ls)
    BY DEF Bits
  <2>3. more(d) \in Seq(Bit)
    BY <2>1, <2>2, ConcatProperties, LastBits DEF more
  <2>4. more(d) = Last(Join(u2.readers[d].bits, Of(d, ls)))
    BY <2>2 DEF Join, more
  <2>5. after[d] = [u2.readers[d] EXCEPT !.bits = more(d), !.timer = 0]
    OBVIOUS
  <2> HIDE DEF after
  <2>6. after[d] \in ReaderType /\ after[d].bits = more(d)
    <3> DEFINE r == u2.readers[d]
               w == after[d]
               b == more(d)
    <3>1. r \in ReaderType /\ b \in Seq(Bit) /\ w = [r EXCEPT !.bits = b, !.timer = 0]
      BY <2>1, <2>3, <2>5
    <3> HIDE DEF r, w, b
    <3>2. w \in ReaderType /\ w.bits = b
      BY <3>1 DEF ReaderType
    <3> QED
      BY <3>2 DEF w, b
  <2> QED
    BY <2>4, <2>6
<1>3. after \in [Doors -> ReaderType]
  <2>1. after = [d \in Doors |-> after[d]]
    OBVIOUS
  <2> HIDE DEF after
  <2> QED
    BY <1>2, <2>1
<1> HIDE DEF after
<1> QED
  BY <1>1, <1>2, <1>3 DEF U2Type

LEMMA ShapeStep ==
  ASSUME Shape, [Next]_vars
  PROVE  Shape'
<1> USE DEF Shape
<1>1. CASE U2_tick
  <2>1. PICK s \in Ticks : u2' = s.u2 /\ io' = s.io
    BY <1>1 DEF U2_tick
  <2>2. u2' \in U2Type /\ io' \in IOType
    BY <2>1, ShapeState, TicksFacts DEF State
  <2> QED
    BY <1>1, <2>2 DEF U2_tick, Disturb, environment
<1>2. CASE U2_on_interrupt
  <2>1. CASE hand = Scanning
    BY <1>2, <2>1 DEF U2_on_interrupt, environment
  <2>2. CASE hand # Scanning
    <3>1. PICK read \in SUBSET lines : io' = Put(io, [m |-> "wio", lines |-> read])
      BY <1>2, <2>2 DEF U2_on_interrupt
    <3>2. [m |-> "wio", lines |-> read] \in Message
      BY WioType
    <3>3. io' \in IOType
      BY <3>1, <3>2, PutType
    <3>4. lines' \in Lines /\ disturbed' \in [Doors -> BOOLEAN]
      BY <1>2, <2>2 DEF U2_on_interrupt, Lines, Disturb
    <3> QED
      BY <1>2, <3>3, <3>4 DEF U2_on_interrupt, environment
  <2> QED
    BY <2>1, <2>2
<1>3. CASE MSG_WIO
  <2>1. u2' \in U2Type
    BY <1>3, WioBits DEF MSG_WIO
  <2>2. Tail(io.queue) \in Seq(Message)
    BY <1>3, HeadTailProperties DEF MSG_WIO, IOType
  <2>3. io' \in IOType
    BY <1>3, <2>2 DEF MSG_WIO, IOType
  <2> QED
    BY <1>3, <2>1, <2>3 DEF MSG_WIO, environment
<1>4. CASE MSG_SWIPE
  <2>1. Tail(io.queue) \in Seq(Message) /\ Head(io.queue) \in Message
    BY <1>4, HeadTailProperties DEF MSG_SWIPE, IOType
  <2>2. io' \in IOType
    BY <1>4, <2>1 DEF MSG_SWIPE, IOType
  <2>3. hand' \in Hand
    BY <1>4, <2>1 DEF MSG_SWIPE, Message, Hand
  <2> QED
    BY <1>4, <2>2, <2>3 DEF MSG_SWIPE, environment
<1>5. CASE Trap
  BY <1>5 DEF Trap, environment, IOType, Hand
<1>6. CASE I2C1_scan \/ ScanEnds
  BY <1>6 DEF I2C1_scan, ScanEnds, environment, Hand
<1>7. CASE Restart
  BY <1>7, IdleTypes DEF Restart, environment, Hand, Lines
<1>8. CASE Present
  <2>1. PICK d \in Doors, bits \in {t[2] : t \in Transmissions} :
          /\ <<d, bits>> \in Transmissions
          /\ out' = [out EXCEPT ![d] = bits] /\ sent' = [sent EXCEPT !.n = @ + 1, !.bits[d] = bits]
          /\ disturbed' = [disturbed EXCEPT ![d] = UnderWay(d) \/ u2.readers[d].bits # <<>>]
          /\ UNCHANGED <<lines, u2, io, hand, stuck>>
    BY <1>8 DEF Present
  <2>2. bits \in Seq(Bit) /\ Len(bits) <= MaxBits
    BY <2>1, ReadersAssumption DEF Bit
  <2>3. out' \in [Doors -> Seq(Bit)] /\ sent' \in Sent
    <3>1. sent' = [n |-> sent.n + 1, bits |-> [sent.bits EXCEPT ![d] = bits]]
      BY <2>1 DEF Sent
    <3>2. sent' \in Sent
      BY <2>2, <3>1 DEF Sent
    <3> QED
      BY <2>1, <2>2, <3>2
  <2>4. disturbed' \in [Doors -> BOOLEAN]
    BY <2>1
  <2> QED
    BY <2>1, <2>3, <2>4
<1>9. CASE Pulse
  <2> DEFINE first(d) == Head(out[d])
             rest(d) == Tail(out[d])
  <2>1. PICK d \in Doors :
          /\ out[d] # <<>> /\ out' = [out EXCEPT ![d] = rest(d)]
          /\ lines' = lines \cup {<<d, first(d)>>}
          /\ UNCHANGED <<sent, u2, io, hand, stuck>>
          /\ (disturbed' = disturbed) \/ Disturb({d})
    BY <1>9 DEF Pulse
  <2>2. first(d) \in Bit /\ rest(d) \in Seq(Bit)
    <3> DEFINE o == out[d]
    <3>1. o \in Seq(Bit) /\ o # <<>>
      BY <2>1
    <3> HIDE DEF o
    <3>2. Head(o) \in Bit /\ Tail(o) \in Seq(Bit)
      BY <3>1, HeadTailProperties
    <3> QED
      BY <3>2 DEF o
  <2> HIDE DEF first, rest
  <2>3. out' \in [Doors -> Seq(Bit)] /\ lines' \in Lines
    BY <2>1, <2>2 DEF Lines
  <2>4. disturbed' \in [Doors -> BOOLEAN]
    BY <2>1 DEF Disturb
  <2> QED
    BY <2>1, <2>3, <2>4
<1>10. CASE UNCHANGED vars
  BY <1>10 DEF vars
<1> QED
  BY <1>1, <1>2, <1>3, <1>4, <1>5, <1>6, <1>7, <1>8, <1>9, <1>10 DEF Next, Loop

LEMMA ShapeInit ==
  Init => Shape
<1>1. <<>> \in Seq(Bit) /\ Len(<<>>) = 0 /\ 0 <= MaxBits
  BY EmptySeq, Constants
<1> QED
  BY <1>1, IdleTypes DEF Init, Shape, Hand, Lines, Sent

\* Every variable keeps its type: a swipe is a card or a code of a door, and each
\* message and the hand name a chunk of the pool.
THEOREM ShapeHolds == Spec => []Shape
BY ShapeInit, ShapeStep, PTL DEF Spec

-----------------------------------------------------------------------------
(***************************************************************************)
(* Owned.                                                                  *)
(***************************************************************************)
\* The lines that pulsed own no chunk.
LEMMA WioIsOwned ==
  ASSUME NEW q \in Seq(Message), NEW msg \in Message, msg.m = "wio", NEW pool, NEW h,
         OwnedOf(q, pool, h)
  PROVE  OwnedOf(Append(q, msg), pool, h)
<1> DEFINE b == Append(q, msg)
           n == Len(q)
<1>1. /\ n \in Nat /\ DOMAIN q = 1 .. n /\ DOMAIN b = 1 .. n + 1
      /\ \A i \in 1 .. n : b[i] = q[i]
      /\ b[n + 1] = msg
  <2>1. b \in Seq(Message) /\ Len(b) = n + 1 /\ (\A i \in 1 .. n : b[i] = q[i]) /\ b[n + 1] = msg
    BY AppendProperties
  <2> HIDE DEF b
  <2>2. n \in Nat /\ DOMAIN q = 1 .. n /\ DOMAIN b = 1 .. Len(b)
    BY <2>1, LenProperties
  <2> QED
    BY <2>1, <2>2
<1> HIDE DEF b, n
<1>2. SwipesOf(b) = SwipesOf(q) /\ \A i \in SwipesOf(q) : b[i] = q[i]
  BY <1>1 DEF SwipesOf
<1>3. {b[i].chunk : i \in SwipesOf(b)} = {q[i].chunk : i \in SwipesOf(q)}
  BY <1>2
<1> QED
  BY <1>2, <1>3 DEF OwnedOf, b

\* The first message passes what it owns to the hand.
LEMMA TakenIsOwned ==
  ASSUME NEW q \in Seq(Message), q # <<>>, NEW pool, NEW h, InHand(h) = {}, OwnedOf(q, pool, h),
         NEW g, InHand(g) = IF Head(q).m = "wio" THEN {} ELSE {Head(q).chunk}
  PROVE  OwnedOf(Tail(q), pool, g)
<1> DEFINE t == Tail(q)
           n == Len(t)
           msg == Head(q)
<1>1. /\ n \in Nat /\ DOMAIN t = 1 .. n /\ DOMAIN q = 1 .. n + 1
      /\ \A i \in 1 .. n : t[i] = q[i + 1]
      /\ q[1] = msg
  <2>1. t \in Seq(Message) /\ n = Len(q) - 1 /\ \A i \in 1 .. n : t[i] = q[i + 1]
    BY HeadTailProperties
  <2>2. Len(q) \in Nat /\ n \in Nat /\ DOMAIN t = 1 .. n /\ DOMAIN q = 1 .. Len(q)
    BY <2>1, LenProperties
  <2>3. q[1] = msg
    OBVIOUS
  <2> HIDE DEF n
  <2> QED
    BY <2>1, <2>2, <2>3
<1> HIDE DEF t, n, msg
<1>2. \A i \in SwipesOf(t) : i \in 1 .. n /\ i + 1 \in SwipesOf(q) /\ i + 1 # 1 /\ t[i].chunk = q[i + 1].chunk
  BY <1>1 DEF SwipesOf
<1>3. \A i \in SwipesOf(q) : i # 1 => i - 1 \in SwipesOf(t) /\ t[i - 1].chunk = q[i].chunk
  <2>1. ASSUME NEW i \in SwipesOf(q), i # 1
        PROVE  i - 1 \in 1 .. n /\ t[i - 1] = q[i] /\ q[i].m # "wio"
    BY <1>1, <2>1 DEF SwipesOf
  <2> QED
    BY <1>1, <2>1 DEF SwipesOf
<1>4. 1 \in SwipesOf(q) <=> msg.m # "wio"
  BY <1>1 DEF SwipesOf
<1>5. InHand(g) = IF 1 \in SwipesOf(q) THEN {q[1].chunk} ELSE {}
  BY <1>1, <1>4 DEF msg
<1>6. {q[i].chunk : i \in SwipesOf(q)} = {t[i].chunk : i \in SwipesOf(t)} \cup InHand(g)
  <2>1. ASSUME NEW i \in SwipesOf(q) PROVE q[i].chunk \in {t[j].chunk : j \in SwipesOf(t)} \cup InHand(g)
    BY <1>3, <1>5
  <2>2. ASSUME NEW i \in SwipesOf(t) PROVE t[i].chunk \in {q[j].chunk : j \in SwipesOf(q)}
    BY <1>2
  <2>3. InHand(g) \subseteq {q[j].chunk : j \in SwipesOf(q)}
    BY <1>5
  <2> QED
    BY <2>1, <2>2, <2>3
<1>7. \A i, j \in SwipesOf(q) : q[i].chunk = q[j].chunk => i = j
  BY DEF OwnedOf
<1>8. \A i, j \in SwipesOf(t) : t[i].chunk = t[j].chunk => i = j
  <2> SUFFICES ASSUME NEW i \in SwipesOf(t), NEW j \in SwipesOf(t), t[i].chunk = t[j].chunk PROVE i = j
    OBVIOUS
  <2>1. i + 1 = j + 1
    BY <1>2, <1>7
  <2> QED
    BY <1>1, <1>2, <2>1
<1>9. \A i \in SwipesOf(t) : t[i].chunk \notin InHand(g)
  BY <1>2, <1>5, <1>7
<1>10. {c \in Chunks : pool[c] # Empty} = {q[i].chunk : i \in SwipesOf(q)} \cup InHand(h)
  BY DEF OwnedOf
<1> QED
  BY <1>6, <1>8, <1>9, <1>10 DEF OwnedOf, t

LEMMA InHands ==
  /\ InHand(Nothing) = {} /\ InHand(Scanning) = {}
  /\ \A h : h.m \in {"swipe", "keycode"} => InHand(h) = {h.chunk}
BY DEF InHand, Nothing, Scanning

LEMMA OwnedStep ==
  ASSUME Shape, Owned, [Next]_vars
  PROVE  Owned'
<1>1. OwnedOf(io.queue, io.pool, hand)
  BY OwnedIs
<1>2. SUFFICES OwnedOf(io'.queue, io'.pool, hand')
  BY DEF Owned, OwnedOf, SwipesOf, Swipes, InUse, InHand
<1>3. io \in IOType /\ io.queue \in Seq(Message) /\ hand \in Hand /\ lines \in Lines
  BY DEF Shape, IOType
<1>4. CASE U2_tick
  <2>1. PICK s \in Ticks : u2' = s.u2 /\ io' = s.io
    BY <1>4 DEF U2_tick
  <2> DEFINE s0 == [u2 |-> u2, io |-> io]
  <2>2. Keeps(s0, s) /\ s0.io = io
    BY ShapeState, TicksFacts
  <2> HIDE DEF s0
  <2> QED
    BY <1>1, <1>4, <2>1, <2>2 DEF U2_tick, Keeps
<1>5. CASE U2_on_interrupt
  <2>1. CASE hand = Scanning
    BY <1>1, <1>5, <2>1 DEF U2_on_interrupt
  <2>2. CASE hand # Scanning
    <3> DEFINE msg(r) == [m |-> "wio", lines |-> r]
    <3>1. PICK read \in SUBSET lines : io' = Put(io, msg(read))
      BY <1>5, <2>2 DEF U2_on_interrupt
    <3>2. msg(read) \in Message /\ msg(read).m = "wio"
      BY <1>3, WioType
    <3> HIDE DEF msg
    <3>3. io'.pool = io.pool /\ io'.queue \in {io.queue, Append(io.queue, msg(read))}
      BY <1>3, <3>1, <3>2, PutType
    <3>4. OwnedOf(Append(io.queue, msg(read)), io.pool, hand)
      BY <1>1, <1>3, <3>2, WioIsOwned
    <3>5. hand' = hand
      BY <1>5 DEF U2_on_interrupt
    <3> QED
      BY <1>1, <3>3, <3>4, <3>5
  <2> QED
    BY <2>1, <2>2
<1>6. CASE MSG_WIO
  <2>1. /\ io.queue # <<>> /\ Head(io.queue).m = "wio" /\ hand = Nothing /\ hand' = hand
        /\ io' = [io EXCEPT !.queue = Tail(@)]
    BY <1>6 DEF MSG_WIO
  <2>2. io'.queue = Tail(io.queue) /\ io'.pool = io.pool
    BY <1>3, <2>1 DEF IOType
  <2>3. InHand(hand) = {}
    BY <2>1, InHands
  <2>4. OwnedOf(Tail(io.queue), io.pool, hand)
    BY <1>1, <1>3, <2>1, <2>3, TakenIsOwned
  <2> QED
    BY <2>1, <2>2, <2>4
<1>7. CASE MSG_SWIPE
  <2>1. /\ io.queue # <<>> /\ Head(io.queue).m \in {"swipe", "keycode"} /\ hand = Nothing
        /\ hand' = Head(io.queue) /\ io' = [io EXCEPT !.queue = Tail(@)]
    BY <1>7 DEF MSG_SWIPE
  <2>2. io'.queue = Tail(io.queue) /\ io'.pool = io.pool
    BY <1>3, <2>1 DEF IOType
  <2> DEFINE msg == Head(io.queue)
  <2>3. InHand(hand) = {} /\ InHand(msg) = {msg.chunk} /\ msg.m # "wio" /\ hand' = msg
    BY <2>1, InHands
  <2>4. OwnedOf(Tail(io.queue), io.pool, msg)
    BY <1>1, <1>3, <2>1, <2>3, TakenIsOwned
  <2> QED
    BY <2>2, <2>3, <2>4
<1>8. CASE Trap
  <2>1. /\ hand.m \in {"swipe", "keycode"} /\ hand' = Nothing
        /\ io' = [io EXCEPT !.pool[hand.chunk] = Empty]
    BY <1>8 DEF Trap
  <2>2. InHand(hand) = {hand.chunk} /\ InHand(hand') = {}
    BY <2>1, InHands
  <2>3. hand.chunk \in Chunks
    BY <1>1, <2>2 DEF OwnedOf
  <2>4. io'.queue = io.queue /\ io'.pool = [io.pool EXCEPT ![hand.chunk] = Empty]
    BY <1>3, <2>1 DEF IOType
  <2>5. io.pool \in [Chunks -> {Empty} \cup Report]
    BY <1>3 DEF IOType
  <2>6. {c \in Chunks : io'.pool[c] # Empty} = {c \in Chunks : io.pool[c] # Empty} \ {hand.chunk}
    BY <2>3, <2>4, <2>5
  <2> DEFINE queued == {io.queue[i].chunk : i \in SwipesOf(io.queue)}
  <2>7. hand.chunk \notin queued /\ {c \in Chunks : io.pool[c] # Empty} = queued \cup {hand.chunk}
    BY <1>1, <2>2 DEF OwnedOf
  <2>8. {c \in Chunks : io'.pool[c] # Empty} = queued
    <3> HIDE DEF queued
    <3> QED
      BY <2>6, <2>7
  <2> QED
    BY <1>1, <2>2, <2>4, <2>8 DEF OwnedOf
<1>9. CASE I2C1_scan \/ ScanEnds
  <2>1. io' = io /\ InHand(hand) = {} /\ InHand(hand') = {}
    BY <1>9, InHands DEF I2C1_scan, ScanEnds
  <2> QED
    BY <1>1, <2>1 DEF OwnedOf
<1>10. CASE Restart
  <2>1. io' = IdleIO /\ hand' = Nothing
    BY <1>10 DEF Restart
  <2>2. io'.queue = <<>> /\ SwipesOf(<<>>) = {} /\ {c \in Chunks : io'.pool[c] # Empty} = {}
    BY <2>1 DEF IdleIO, SwipesOf
  <2>3. InHand(hand') = {}
    BY <2>1, InHands
  <2> QED
    BY <2>2, <2>3 DEF OwnedOf
<1>11. CASE Present \/ Pulse \/ UNCHANGED vars
  <2>1. io' = io /\ hand' = hand
    BY <1>11 DEF Present, Pulse, vars
  <2> QED
    BY <1>1, <2>1
<1> QED
  BY <1>4, <1>5, <1>6, <1>7, <1>8, <1>9, <1>10, <1>11 DEF Next, Loop

LEMMA OwnedInit ==
  Init => Owned
<1> SUFFICES ASSUME Init PROVE Owned
  OBVIOUS
<1>1. io.queue = <<>> /\ SwipesOf(<<>>) = {} /\ {c \in Chunks : io.pool[c] # Empty} = {}
  BY DEF Init, IdleIO, SwipesOf
<1>2. InHand(hand) = {}
  BY InHands DEF Init
<1>3. OwnedOf(io.queue, io.pool, hand)
  BY <1>1, <1>2 DEF OwnedOf
<1> QED
  BY <1>3, OwnedIs

\* Owned, for any number of chunks, any queue and any losses: the interrupt allocates
\* a swipe, and the loop frees it exactly once.
THEOREM OwnedHolds == Spec => []Owned
<1>1. Init => Shape /\ Owned
  BY ShapeInit, OwnedInit
<1>2. (Shape /\ Owned) /\ [Next]_vars => (Shape /\ Owned)'
  BY ShapeStep, OwnedStep
<1> QED
  BY <1>1, <1>2, PTL DEF Spec

-----------------------------------------------------------------------------
(***************************************************************************)
(* Assembled.                                                              *)
(***************************************************************************)
\* None are queued when no message carries any.
LEMMA QueuedNothing ==
  ASSUME NEW q \in Seq(Message), NEW d, \A i \in DOMAIN q : Carried(q[i], d) = <<>>
  PROVE  Queued(q, d) = <<>>
<1> DEFINE n == Len(q)
<1>1. n \in Nat /\ DOMAIN q = 1 .. n
  BY LenProperties
<1>2. PICK F : Counts(F, q, d) /\ Queued(q, d) = F[n]
  BY QueuedFold
<1>3. F[0] = <<>> /\ \A i \in 1 .. n : F[i] = Join(F[i - 1], Carried(q[i], d))
  BY <1>2, Counting
<1> HIDE DEF n
<1> DEFINE T == {k \in Nat : k <= n => F[k] = <<>>}
<1>4. T = Nat
  <2>1. 0 \in T
    BY <1>3
  <2>2. ASSUME NEW k \in T PROVE k + 1 \in T
    <3> SUFFICES ASSUME k + 1 <= n PROVE F[k + 1] = <<>>
      BY <2>2
    <3>1. F[k] = <<>> /\ k + 1 \in 1 .. n /\ (k + 1) - 1 = k
      BY <1>1, <2>2
    <3>2. F[k + 1] = Join(<<>>, <<>>)
      BY <1>1, <1>3, <3>1
    <3> QED
      BY <3>2, Joining
  <2> QED
    BY <2>1, <2>2, Induction
<1>5. n \in T
  BY <1>1, <1>4
<1> QED
  BY <1>1, <1>2, <1>5

LEMMA OfNone ==
  ASSUME NEW d, NEW ls, \A l \in ls : l[1] # d
  PROVE  Of(d, ls) = <<>>
<1>1. <<d, 0>> \notin ls /\ <<d, 1>> \notin ls
  OBVIOUS
<1>2. <<>> \in Bits01
  BY EmptySeq DEF Bits01
<1>3. Of(d, ls) = Join(<<>>, <<>>)
  BY <1>1 DEF Of, Join
<1> QED
  BY <1>2, <1>3, Joining

\* The parts of the whole.
Total(b, q, l, o) == Join(Join(Join(b, q), l), o)

LEMMA WholeIs ==
  ASSUME Shape, NEW d \in Doors
  PROVE  /\ Whole(d) = Total(u2.readers[d].bits, Queued(io.queue, d), Of(d, lines), out[d])
         /\ u2.readers[d].bits \in Bits01 /\ Queued(io.queue, d) \in Bits01
         /\ Of(d, lines) \in Bits01 /\ out[d] \in Bits01
<1>1. Whole(d) = Total(u2.readers[d].bits, Queued(io.queue, d), Of(d, lines), out[d])
  BY DEF Whole, Total, Join
<1>2. u2.readers[d].bits \in Bits01 /\ out[d] \in Bits01
  BY DEF Shape, U2Type, ReaderType, Bits01
<1>3. Queued(io.queue, d) \in Bits01
  BY QueuedType DEF Shape, IOType
<1>4. Of(d, lines) \in Bits01
  BY OfType DEF Bits01
<1> QED
  BY <1>1, <1>2, <1>3, <1>4

\* Nothing is under way: all there is has been collected.
LEMMA Collected ==
  ASSUME Shape, NEW d \in Doors, ~UnderWay(d)
  PROVE  /\ Queued(io.queue, d) = <<>> /\ Of(d, lines) = <<>> /\ out[d] = <<>>
         /\ Whole(d) = u2.readers[d].bits
<1>1. out[d] = <<>> /\ Latched(d) = {} /\ Waiting(d) = {}
  BY DEF UnderWay
<1>2. Of(d, lines) = <<>>
  BY <1>1, OfNone DEF Latched
<1>3. \A i \in DOMAIN io.queue : Carried(io.queue[i], d) = <<>>
  <2> SUFFICES ASSUME NEW i \in DOMAIN io.queue, io.queue[i].m = "wio"
               PROVE  Of(d, io.queue[i].lines) = <<>>
    BY DEF Carried
  <2>1. \A l \in io.queue[i].lines : l[1] # d
    BY <1>1 DEF Waiting
  <2> QED
    BY <2>1, OfNone
<1>4. Queued(io.queue, d) = <<>>
  BY <1>3, QueuedNothing DEF Shape, IOType
<1>5. Whole(d) = u2.readers[d].bits
  BY <1>1, <1>2, <1>4, WholeIs, Joining DEF Total
<1> QED
  BY <1>1, <1>2, <1>4, <1>5

\* One door's part of Assembled.
Sound(d) == disturbed[d] \/ Whole(d) \in {<<>>, sent.bits[d]}

\* The bits of an undisturbed door are taken when nothing is under way.
LEMMA TakenWhole ==
  ASSUME Shape, NEW d \in Doors, ~Stalled(d), ~CutShort(d), u2.readers[d].bits # <<>>,
         u2.readers[d].locked = 1 \/ Expired(Ticked(u2.readers[d]))
  PROVE  ~UnderWay(d)
BY DEF Stalled, CutShort, Partial, Expired

LEMMA AfterBits ==
  ASSUME Shape, NEW d \in Doors
  PROVE  LET r == u2.readers[d] IN
         IF r.bits # <<>> /\ (r.locked = 1 \/ Expired(Ticked(r))) THEN After(r) = <<>>
         ELSE After(r) = r.bits
<1>1. u2.readers[d] \in ReaderType
  BY DEF Shape, U2Type
<1> QED
  BY <1>1, TypeReader DEF After

LEMMA SoundTick ==
  ASSUME Shape, NEW d \in Doors, Sound(d), U2_tick, Shape'
  PROVE  Sound(d)'
<1> SUFFICES ASSUME ~disturbed'[d] PROVE Whole(d)' \in {<<>>, sent.bits[d]}
  BY DEF Sound, U2_tick, environment
<1>1. ~disturbed[d] /\ ~Stalled(d) /\ ~CutShort(d)
  BY DEF U2_tick, Disturb
<1>2. PICK s \in Ticks : u2' = s.u2 /\ io' = s.io
  BY DEF U2_tick
<1> DEFINE s0 == [u2 |-> u2, io |-> io]
<1>3. Keeps(s0, s) /\ s0.io = io /\ s.u2.readers[d].bits = After(u2.readers[d])
  BY ShapeState, TicksFacts
<1> HIDE DEF s0
<1>4. Queued(io'.queue, d) = Queued(io.queue, d) /\ u2'.readers[d].bits = After(u2.readers[d])
  BY <1>2, <1>3 DEF Keeps
<1>5. lines' = lines /\ out' = out
  BY DEF U2_tick, environment
<1>6. Whole(d)' = Total(u2'.readers[d].bits, Queued(io'.queue, d), Of(d, lines'), out'[d])
  BY DEF Whole, Total, Join
<1>7. CASE u2.readers[d].bits # <<>> /\ (u2.readers[d].locked = 1 \/ Expired(Ticked(u2.readers[d])))
  <2>1. ~UnderWay(d)
    BY <1>1, <1>7, TakenWhole
  <2>2. Queued(io.queue, d) = <<>> /\ Of(d, lines) = <<>> /\ out[d] = <<>>
    BY <2>1, Collected
  <2>3. After(u2.readers[d]) = <<>>
    BY <1>7, AfterBits
  <2> QED
    BY <1>4, <1>5, <1>6, <2>2, <2>3, Joining DEF Total
<1>8. CASE ~(u2.readers[d].bits # <<>> /\ (u2.readers[d].locked = 1 \/ Expired(Ticked(u2.readers[d]))))
  <2>1. After(u2.readers[d]) = u2.readers[d].bits
    BY <1>8, AfterBits
  <2>2. Whole(d)' = Whole(d)
    BY <1>4, <1>5, <1>6, <2>1, WholeIs
  <2> QED
    BY <1>1, <2>2 DEF Sound
<1> QED
  BY <1>7, <1>8

LEMMA OfSame ==
  ASSUME NEW d, NEW ls, NEW ms, \A l : l[1] = d => (l \in ls <=> l \in ms)
  PROVE  Of(d, ls) = Of(d, ms)
<1>1. <<d, 0>>[1] = d /\ <<d, 1>>[1] = d
  OBVIOUS
<1>2. (<<d, 0>> \in ls <=> <<d, 0>> \in ms) /\ (<<d, 1>> \in ls <=> <<d, 1>> \in ms)
  BY <1>1
<1> QED
  BY <1>2 DEF Of

LEMMA SoundInterrupt ==
  ASSUME Shape, NEW d \in Doors, Sound(d), U2_on_interrupt
  PROVE  Sound(d)'
<1> SUFFICES ASSUME ~disturbed'[d] PROVE Whole(d)' \in {<<>>, sent.bits[d]}
  BY DEF Sound, U2_on_interrupt, environment
<1>1. u2' = u2 /\ out' = out
  BY DEF U2_on_interrupt, environment
<1>2. Whole(d)' = Total(u2'.readers[d].bits, Queued(io'.queue, d), Of(d, lines'), out'[d])
  BY DEF Whole, Total, Join
<1>3. CASE hand = Scanning
  <2>1. lines' = lines /\ io' = io /\ disturbed' = disturbed
    BY <1>3 DEF U2_on_interrupt
  <2> QED
    BY <1>1, <1>2, <2>1, WholeIs DEF Sound
<1>4. CASE hand # Scanning
  <2> DEFINE msg(r) == [m |-> "wio", lines |-> r]
  <2>1. PICK read \in SUBSET lines :
          /\ lines' = {} /\ io' = Put(io, msg(read))
          /\ Disturb({l[1] : l \in IF HasRoom(io) THEN lines \ read ELSE lines})
    BY <1>4 DEF U2_on_interrupt
  <2>2. msg(read) \in Message /\ Carried(msg(read), d) = Of(d, read)
    BY WioType DEF Shape, Carried
  <2> HIDE DEF msg
  <2>3. io'.queue = IF HasRoom(io) THEN Append(io.queue, msg(read)) ELSE io.queue
    BY <2>1, <2>2, PutType DEF Shape
  <2>4. ~disturbed[d] /\ \A l \in IF HasRoom(io) THEN lines \ read ELSE lines : l[1] # d
    BY <2>1 DEF Disturb
  <2>5. Of(d, lines') = <<>>
    BY <2>1, OfNone
  <2> DEFINE b == u2.readers[d].bits
             q == Queued(io.queue, d)
             l == Of(d, lines)
             o == out[d]
  <2>6. /\ Whole(d) = Total(b, q, l, o) /\ b \in Bits01 /\ q \in Bits01 /\ l \in Bits01 /\ o \in Bits01
    BY WholeIs
  <2>7. Queued(io'.queue, d) = Join(q, l)
    <3>1. CASE HasRoom(io)
      <4>1. Of(d, read) = l
        BY <2>1, <2>4, <3>1, OfSame
      <4>2. io.queue \in Seq(Message)
        BY DEF Shape, IOType
      <4> HIDE DEF l
      <4>3. Queued(Append(io.queue, msg(read)), d) = Join(q, Carried(msg(read), d))
        BY <2>2, <4>2, QueuedAppend
      <4> QED
        BY <2>2, <2>3, <3>1, <4>1, <4>3
    <3>2. CASE ~HasRoom(io)
      <4>1. l = <<>>
        BY <2>4, <3>2, OfNone
      <4> QED
        BY <2>3, <2>6, <3>2, <4>1, Joining
    <3> QED
      BY <3>1, <3>2
  <2>8. Whole(d)' = Total(b, Join(q, l), <<>>, o)
    BY <1>1, <1>2, <2>5, <2>7
  <2> HIDE DEF b, q, l, o
  <2>9. Join(b, Join(q, l)) \in Bits01 /\ Join(b, Join(q, l)) = Join(Join(b, q), l)
    BY <2>6, Joining, Rejoining
  <2>10. Whole(d)' = Whole(d)
    BY <2>6, <2>8, <2>9, Joining DEF Total
  <2> QED
    BY <2>4, <2>10 DEF Sound
<1> QED
  BY <1>3, <1>4

\* No transmission is longer than what a reader holds.
LEMMA Fits ==
  ASSUME Shape, NEW d \in Doors, Sound(d), ~disturbed[d], NEW a \in Bits01, NEW z \in Bits01,
         Whole(d) = Join(a, z)
  PROVE  Last(a) = a
<1>1. Whole(d) \in Seq(Bit) /\ Len(Whole(d)) <= MaxBits
  <2>1. <<>> \in Seq(Bit) /\ Len(<<>>) <= MaxBits
    BY EmptySeq, Constants
  <2>2. sent.bits[d] \in Seq(Bit) /\ Len(sent.bits[d]) <= MaxBits
    BY DEF Shape, Sent
  <2> QED
    BY <2>1, <2>2 DEF Sound
<1>2. Len(Join(a, z)) = Len(a) + Len(z)
  BY ConcatProperties DEF Join, Bits01
<1>3. Len(a) \in Nat /\ Len(z) \in Nat /\ a \in Seq(Bit)
  BY LenProperties DEF Bits01
<1>4. Len(a) <= MaxBits
  BY <1>1, <1>2, <1>3, Constants
<1> QED
  BY <1>3, <1>4, LastBits

LEMMA SoundWio ==
  ASSUME Shape, NEW d \in Doors, Sound(d), MSG_WIO
  PROVE  Sound(d)'
<1> SUFFICES ASSUME ~disturbed[d] PROVE Whole(d)' = Whole(d)
  BY DEF Sound, MSG_WIO, environment
<1> DEFINE b == u2.readers[d].bits
           c == Of(d, Head(io.queue).lines)
           t == Queued(Tail(io.queue), d)
           q == Queued(io.queue, d)
           l == Of(d, lines)
           o == out[d]
<1>1. /\ io.queue # <<>> /\ Head(io.queue).m = "wio" /\ U2_wio(Head(io.queue).lines)
      /\ io' = [io EXCEPT !.queue = Tail(@)] /\ lines' = lines /\ out' = out
  BY DEF MSG_WIO, environment
<1>2. io.queue \in Seq(Message) /\ io'.queue = Tail(io.queue)
  BY <1>1 DEF Shape, IOType
<1>3. Tail(io.queue) \in Seq(Message)
  BY <1>1, <1>2, HeadTailProperties
<1>4. /\ Whole(d) = Total(b, q, l, o) /\ b \in Bits01 /\ q \in Bits01 /\ l \in Bits01 /\ o \in Bits01
      /\ t \in Bits01 /\ c \in Bits01
  BY <1>3, WholeIs, QueuedType, OfType DEF Bits01
<1>5. q = Join(c, t)
  BY <1>1, <1>2, QueuedTail DEF Carried
<1>6. u2'.readers[d].bits = Last(Join(b, c))
  BY <1>1, WioBits DEF Shape
<1>7. Whole(d)' = Total(u2'.readers[d].bits, Queued(io'.queue, d), Of(d, lines'), out'[d])
  BY DEF Whole, Total, Join
<1>8. Whole(d)' = Total(Last(Join(b, c)), t, l, o)
  BY <1>1, <1>2, <1>6, <1>7
<1> HIDE DEF b, c, t, q, l, o
<1>9. Join(b, q) = Join(Join(b, c), t) /\ Join(b, c) \in Bits01
  BY <1>4, <1>5, Joining, Rejoining
<1>10. Whole(d) = Total(Join(b, c), t, l, o)
  BY <1>4, <1>9 DEF Total
<1>11. Join(t, l) \in Bits01 /\ Join(Join(t, l), o) \in Bits01 /\ Join(Join(b, c), t) \in Bits01
  BY <1>4, <1>9, Joining
<1>12. Total(Join(b, c), t, l, o) = Join(Join(b, c), Join(Join(t, l), o))
  <2> DEFINE a == Join(b, c)
  <2>1. a \in Bits01
    BY <1>9
  <2> HIDE DEF a
  <2>2. Join(Join(a, t), l) = Join(a, Join(t, l))
    BY <1>4, <2>1, Rejoining
  <2>3. Join(Join(a, Join(t, l)), o) = Join(a, Join(Join(t, l), o))
    BY <1>4, <1>11, <2>1, Rejoining
  <2>4. Total(a, t, l, o) = Join(a, Join(Join(t, l), o))
    BY <2>2, <2>3 DEF Total
  <2> QED
    BY <2>4 DEF a
<1>13. Last(Join(b, c)) = Join(b, c)
  BY <1>9, <1>10, <1>11, <1>12, Fits
<1> QED
  BY <1>8, <1>10, <1>13

LEMMA SoundSwipe ==
  ASSUME Shape, NEW d \in Doors, Sound(d), MSG_SWIPE
  PROVE  Sound(d)'
<1>1. /\ io.queue # <<>> /\ Head(io.queue).m \in {"swipe", "keycode"}
      /\ io' = [io EXCEPT !.queue = Tail(@)] /\ lines' = lines /\ out' = out /\ u2' = u2
      /\ disturbed' = disturbed /\ sent' = sent
  BY DEF MSG_SWIPE, environment
<1>2. io.queue \in Seq(Message) /\ io'.queue = Tail(io.queue)
  BY <1>1 DEF Shape, IOType
<1>3. Tail(io.queue) \in Seq(Message)
  BY <1>1, <1>2, HeadTailProperties
<1>4. Carried(Head(io.queue), d) = <<>>
  BY <1>1 DEF Carried
<1>5. Queued(io.queue, d) = Join(<<>>, Queued(Tail(io.queue), d))
  BY <1>1, <1>2, <1>4, QueuedTail
<1>6. Queued(io.queue, d) = Queued(io'.queue, d)
  BY <1>2, <1>3, <1>5, QueuedType, Joining
<1>7. Whole(d)' = Total(u2'.readers[d].bits, Queued(io'.queue, d), Of(d, lines'), out'[d])
  BY DEF Whole, Total, Join
<1>8. Whole(d)' = Whole(d)
  BY <1>1, <1>6, <1>7, WholeIs
<1> QED
  BY <1>1, <1>8 DEF Sound

LEMMA SoundStill ==
  ASSUME Shape, NEW d \in Doors, Sound(d),
         u2' = u2, io'.queue = io.queue, lines' = lines, out'[d] = out[d],
         disturbed'[d] = disturbed[d], sent'.bits[d] = sent.bits[d]
  PROVE  Sound(d)'
<1>1. Whole(d)' = Total(u2'.readers[d].bits, Queued(io'.queue, d), Of(d, lines'), out'[d])
  BY DEF Whole, Total, Join
<1>2. Whole(d)' = Whole(d)
  BY <1>1, WholeIs
<1> QED
  BY <1>2 DEF Sound

LEMMA SoundRestart ==
  ASSUME Shape, NEW d \in Doors, Restart
  PROVE  Sound(d)'
<1> SUFFICES ASSUME ~disturbed'[d] PROVE Whole(d)' = <<>>
  BY DEF Sound
<1>1. /\ u2'.readers[d].bits = <<>> /\ io'.queue = <<>> /\ lines' = {} /\ out'[d] = <<>>
  BY DEF Restart, environment, IdleU2, IdleIO, Reader
<1>2. Whole(d)' = Total(u2'.readers[d].bits, Queued(io'.queue, d), Of(d, lines'), out'[d])
  BY DEF Whole, Total, Join
<1>3. Of(d, lines') = <<>>
  BY <1>1, OfNone
<1>4. Queued(io'.queue, d) = <<>>
  BY <1>1, QueuedNone
<1> QED
  BY <1>1, <1>2, <1>3, <1>4, Joining DEF Total

LEMMA SoundPresent ==
  ASSUME Shape, NEW d \in Doors, Sound(d), Present
  PROVE  Sound(d)'
<1>1. PICK e \in Doors, bits \in {t[2] : t \in Transmissions} :
        /\ <<e, bits>> \in Transmissions /\ out[e] = <<>>
        /\ out' = [out EXCEPT ![e] = bits] /\ sent' = [sent EXCEPT !.n = @ + 1, !.bits[e] = bits]
        /\ disturbed' = [disturbed EXCEPT ![e] = UnderWay(e) \/ u2.readers[e].bits # <<>>]
        /\ UNCHANGED <<lines, u2, io, hand, stuck>>
  BY DEF Present
<1>2. sent'.bits = [sent.bits EXCEPT ![e] = bits] /\ bits \in Bits01
  BY <1>1, ReadersAssumption DEF Shape, Sent, Bit, Bits01
<1>3. out \in [Doors -> Seq(Bit)] /\ sent.bits \in [Doors -> {b \in Seq(Bit) : Len(b) <= MaxBits}]
      /\ disturbed \in [Doors -> BOOLEAN]
  BY DEF Shape, Sent
<1>4. CASE d # e
  <2>1. out'[d] = out[d] /\ disturbed'[d] = disturbed[d] /\ sent'.bits[d] = sent.bits[d]
    BY <1>1, <1>2, <1>3, <1>4
  <2> QED
    BY <1>1, <2>1, SoundStill
<1>5. CASE d = e
  <2> SUFFICES ASSUME ~disturbed'[d] PROVE Whole(d)' = sent'.bits[d]
    BY DEF Sound
  <2>1. ~UnderWay(d) /\ u2.readers[d].bits = <<>> /\ out'[d] = bits /\ sent'.bits[d] = bits
    BY <1>1, <1>2, <1>3, <1>5
  <2>2. Queued(io.queue, d) = <<>> /\ Of(d, lines) = <<>>
    BY <2>1, Collected
  <2>3. Whole(d)' = Total(u2'.readers[d].bits, Queued(io'.queue, d), Of(d, lines'), out'[d])
    BY DEF Whole, Total, Join
  <2> QED
    BY <1>1, <1>2, <2>1, <2>2, <2>3, Joining DEF Total
<1> QED
  BY <1>4, <1>5

LEMMA SoundPulse ==
  ASSUME Shape, NEW d \in Doors, Sound(d), Pulse
  PROVE  Sound(d)'
<1> DEFINE first(e) == Head(out[e])
           rest(e) == Tail(out[e])
<1>1. PICK e \in Doors :
        /\ out[e] # <<>> /\ out' = [out EXCEPT ![e] = rest(e)]
        /\ lines' = lines \cup {<<e, first(e)>>}
        /\ UNCHANGED <<sent, u2, io, hand, stuck>>
        /\ (Latched(e) = {} /\ disturbed' = disturbed) \/ Disturb({e})
  BY DEF Pulse
<1>2. out \in [Doors -> Seq(Bit)] /\ disturbed \in [Doors -> BOOLEAN]
  BY DEF Shape
<1>3. first(e) \in Bit /\ rest(e) \in Bits01 /\ out[e] = Join(<<first(e)>>, rest(e))
  <2> DEFINE o == out[e]
  <2>1. o \in Seq(Bit) /\ o # <<>>
    BY <1>1, <1>2
  <2> HIDE DEF o
  <2>2. Head(o) \in Bit /\ Tail(o) \in Seq(Bit)
    BY <2>1, HeadTailProperties
  <2>3. o = <<Head(o)>> \o Tail(o)
    <3>1. Len(o) \in Nat /\ Len(o) > 0 /\ Head(o) = o[1]
      BY <2>1, EmptySeq
    <3>2. SubSeq(o, 1, Len(o)) = <<o[1]>> \o SubSeq(o, 1 + 1, Len(o))
      BY <2>1, <3>1, SubSeqRecursiveFirst
    <3>3. SubSeq(o, 1, Len(o)) = o
      BY <2>1, SubSeqFull
    <3>4. Tail(o) = SubSeq(o, 2, Len(o))
      BY <2>1, TailIsSubSeq
    <3>5. 1 + 1 = 2
      OBVIOUS
    <3> QED
      BY <3>1, <3>2, <3>3, <3>4, <3>5
  <2> QED
    BY <2>2, <2>3 DEF o, Join, Bits01
<1> HIDE DEF first, rest
<1>4. Whole(d)' = Total(u2'.readers[d].bits, Queued(io'.queue, d), Of(d, lines'), out'[d])
  BY DEF Whole, Total, Join
<1>5. CASE d # e
  <2>1. out'[d] = out[d] /\ disturbed'[d] = disturbed[d]
    BY <1>1, <1>2, <1>5 DEF Disturb
  <2>2. Of(d, lines') = Of(d, lines)
    <3>1. \A l : l[1] = d => (l \in lines' <=> l \in lines)
      BY <1>1, <1>5
    <3> QED
      BY <3>1, OfSame
  <2>3. Whole(d)' = Whole(d)
    BY <1>1, <1>4, <2>1, <2>2, WholeIs
  <2> QED
    BY <1>1, <2>1, <2>3 DEF Sound
<1>6. CASE d = e
  <2> SUFFICES ASSUME ~disturbed'[d] PROVE Whole(d)' = Whole(d) /\ ~disturbed[d]
    BY <1>1 DEF Sound
  <2>1. ~disturbed[d] /\ Latched(d) = {}
    BY <1>1, <1>6 DEF Disturb
  <2>2. Of(d, lines) = <<>>
    BY <2>1, OfNone DEF Latched
  <2>3. \A l \in lines : l[1] # d
    BY <2>1 DEF Latched
  <2>4. Of(d, lines') = <<first(d)>>
    <3>1. <<d, 0>> \notin lines /\ <<d, 1>> \notin lines
      BY <2>3
    <3>2. CASE first(d) = 0
      <4>1. <<d, 0>> \in lines' /\ <<d, 1>> \notin lines'
        BY <1>1, <1>6, <3>1, <3>2
      <4>2. Of(d, lines') = <<0>> \o <<>>
        BY <4>1 DEF Of
      <4>3. <<0>> \in Seq(Bit)
        BY DEF Bit
      <4> QED
        BY <3>2, <4>2, <4>3, ConcatEmptySeq
    <3>3. CASE first(d) = 1
      <4>1. <<d, 1>> \in lines' /\ <<d, 0>> \notin lines'
        BY <1>1, <1>6, <3>1, <3>3
      <4>2. Of(d, lines') = <<>> \o <<1>>
        BY <4>1 DEF Of
      <4>3. <<1>> \in Seq(Bit)
        BY DEF Bit
      <4> QED
        BY <3>3, <4>2, <4>3, ConcatEmptySeq
    <3> QED
      BY <1>3, <1>6, <3>2, <3>3 DEF Bit
  <2> DEFINE b == u2.readers[d].bits
             q == Queued(io.queue, d)
             f == <<first(d)>>
             r == rest(d)
  <2>5. /\ Whole(d) = Total(b, q, <<>>, Join(f, r)) /\ b \in Bits01 /\ q \in Bits01
        /\ r \in Bits01 /\ f \in Bits01
    <3>1. f \in Bits01 /\ r \in Bits01 /\ out[d] = Join(f, r)
      BY <1>3, <1>6 DEF Bits01
    <3> HIDE DEF f, r
    <3>2. /\ Whole(d) = Total(b, q, Of(d, lines), out[d])
          /\ b \in Bits01 /\ q \in Bits01
      BY WholeIs
    <3> QED
      BY <2>2, <3>1, <3>2
  <2>6. Whole(d)' = Total(b, q, f, r)
    BY <1>1, <1>2, <1>4, <1>6, <2>4
  <2> HIDE DEF b, q, f, r
  <2>7. Join(b, q) \in Bits01 /\ Join(Join(b, q), <<>>) = Join(b, q)
    BY <2>5, Joining
  <2>8. Join(Join(Join(b, q), f), r) = Join(Join(b, q), Join(f, r))
    BY <2>5, <2>7, Rejoining
  <2> QED
    BY <2>1, <2>5, <2>6, <2>7, <2>8 DEF Total
<1> QED
  BY <1>5, <1>6

LEMMA AssembledIs ==
  Assembled <=> \A d \in Doors : Sound(d)
BY DEF Assembled, Sound

LEMMA AssembledStep ==
  ASSUME Shape, Assembled, [Next]_vars
  PROVE  Assembled'
<1>1. SUFFICES ASSUME NEW d \in Doors PROVE Sound(d)'
  BY DEF Assembled, Sound
<1>2. Sound(d) /\ Shape'
  BY AssembledIs, ShapeStep
<1>3. CASE U2_tick
  BY <1>2, <1>3, SoundTick
<1>4. CASE U2_on_interrupt
  BY <1>2, <1>4, SoundInterrupt
<1>5. CASE MSG_WIO
  BY <1>2, <1>5, SoundWio
<1>6. CASE MSG_SWIPE
  BY <1>2, <1>6, SoundSwipe
<1>7. CASE Trap \/ I2C1_scan \/ ScanEnds \/ UNCHANGED vars
  <2>1. /\ u2' = u2 /\ io'.queue = io.queue /\ lines' = lines /\ out'[d] = out[d]
        /\ disturbed'[d] = disturbed[d] /\ sent'.bits[d] = sent.bits[d]
    BY <1>7 DEF Trap, I2C1_scan, ScanEnds, vars, environment, Shape, IOType
  <2> QED
    BY <1>2, <2>1, SoundStill
<1>8. CASE Restart
  BY <1>8, SoundRestart
<1>9. CASE Present
  BY <1>2, <1>9, SoundPresent
<1>10. CASE Pulse
  BY <1>2, <1>10, SoundPulse
<1> QED
  BY <1>3, <1>4, <1>5, <1>6, <1>7, <1>8, <1>9, <1>10 DEF Next, Loop

LEMMA AssembledInit ==
  Init => Assembled
<1> SUFFICES ASSUME Init, NEW d \in Doors PROVE Whole(d) = <<>>
  BY DEF Assembled
<1>1. u2.readers[d].bits = <<>> /\ io.queue = <<>> /\ lines = {} /\ out[d] = <<>>
  BY DEF Init, IdleU2, IdleIO, Reader
<1>2. Of(d, lines) = <<>> /\ Queued(io.queue, d) = <<>>
  BY <1>1, OfNone, QueuedNone
<1>3. Whole(d) = Total(<<>>, <<>>, <<>>, <<>>)
  BY <1>1, <1>2 DEF Whole, Total, Join
<1> QED
  BY <1>3, Joining DEF Total

\* Assembled, for any doors, transmissions and sizes: whatever the other readers send
\* and in whatever order the interrupts, the loop and the ticks run, the bits of an
\* undisturbed transmission are neither lost nor moved, doubled or mixed.
THEOREM AssembledHolds == Spec => []Assembled
<1>1. Init => Shape /\ Assembled
  BY ShapeInit, AssembledInit
<1>2. (Shape /\ Assembled) /\ [Next]_vars => (Shape /\ Assembled)'
  BY ShapeStep, AssembledStep
<1> QED
  BY <1>1, <1>2, PTL DEF Spec

-----------------------------------------------------------------------------
(***************************************************************************)
(* Genuine.                                                                *)
(***************************************************************************)
LEMMA NewOnlyInTick ==
  ASSUME Shape, [Next]_vars, NEW c \in Chunks, New(c)
  PROVE  U2_tick
<1>1. io \in IOType
  BY DEF Shape
<1>2. CASE U2_on_interrupt
  <2>1. CASE hand = Scanning
    BY <1>2, <2>1 DEF U2_on_interrupt, New
  <2>2. CASE hand # Scanning
    <3> DEFINE msg(r) == [m |-> "wio", lines |-> r]
    <3>1. PICK read \in SUBSET lines : io' = Put(io, msg(read))
      BY <1>2, <2>2 DEF U2_on_interrupt
    <3>2. msg(read) \in Message
      BY WioType DEF Shape
    <3> HIDE DEF msg
    <3>3. io'.pool = io.pool
      BY <1>1, <3>1, <3>2, PutType
    <3> QED
      BY <3>3 DEF New
  <2> QED
    BY <2>1, <2>2
<1>3. CASE MSG_WIO \/ MSG_SWIPE
  <2>1. io'.pool = io.pool
    BY <1>1, <1>3 DEF MSG_WIO, MSG_SWIPE, IOType
  <2> QED
    BY <2>1 DEF New
<1>4. CASE Trap
  <2>1. io'.pool = [io.pool EXCEPT ![hand.chunk] = Empty] /\ io.pool \in [Chunks -> {Empty} \cup Report]
    BY <1>1, <1>4 DEF Trap, IOType
  <2> QED
    BY <2>1 DEF New
<1>5. CASE Restart
  BY <1>5 DEF Restart, IdleIO, New
<1>6. CASE I2C1_scan \/ ScanEnds \/ Present \/ Pulse \/ UNCHANGED vars
  BY <1>6 DEF I2C1_scan, ScanEnds, Present, Pulse, vars, New
<1> QED
  BY <1>2, <1>3, <1>4, <1>5, <1>6 DEF Next, Loop

\* The bits the reader was taken to have are all that was sent.
LEMMA TakenIsSent ==
  ASSUME Shape, NEW d \in Doors, Sound(d), U2_tick, ~disturbed'[d],
         NEW bits, bits = Ticked(u2.readers[d]).bits, bits # <<>>,
         Expired(Ticked(u2.readers[d]))
  PROVE  bits = sent.bits[d]
<1>1. u2.readers[d] \in ReaderType
  BY DEF Shape, U2Type
<1>2. u2.readers[d].bits = bits
  BY <1>1, TypeReader
<1>3. ~disturbed[d] /\ ~Stalled(d) /\ ~CutShort(d)
  BY DEF U2_tick, Disturb
<1>4. ~UnderWay(d)
  BY <1>2, <1>3, TakenWhole
<1>5. Whole(d) = bits
  BY <1>2, <1>4, Collected
<1> QED
  BY <1>3, <1>5 DEF Sound

LEMMA GenuineStep ==
  ASSUME Shape, Assembled, [Next]_vars, NEW c \in Chunks, New(c)
  PROVE  LET x == io'.pool[c] IN disturbed'[x.door] \/ Right(x, sent.bits[x.door])
<1> DEFINE x == io'.pool[c]
           d == x.door
           r == Ticked(u2.readers[d])
           s0 == [u2 |-> u2, io |-> io]
<1>1. U2_tick
  BY NewOnlyInTick
<1>2. PICK s \in Ticks : u2' = s.u2 /\ io' = s.io
  BY <1>1 DEF U2_tick
<1>3. s \in State /\ Justifies(s0, s, Doors) /\ s0.io = io /\ s0.u2 = u2
  BY ShapeState, TicksFacts
<1>4. s0.io.pool[c] = Empty /\ s.io.pool[c] # Empty /\ s.io.pool[c] = x
  BY <1>2, <1>3 DEF New
<1> HIDE DEF x, s0
<1>5. d \in Doors /\ Justified(x, s0, s)
  BY <1>3, <1>4 DEF Justifies
<1>6. x \in Report /\ Just(x, r, 0, u2'.keypads[d])
  BY <1>2, <1>3, <1>5 DEF Justified
<1>7. SUFFICES ASSUME ~disturbed'[d] PROVE Right(x, sent.bits[d])
  BY DEF x
<1>8. Sound(d)
  BY <1>5, AssembledIs
<1>9. <<>> \in Seq(Bit) /\ Len(<<>>) = 0
  BY EmptySeq
<1>10. ASSUME Expired(r), Len(r.bits) \in KeyBits \cup {CardBits} PROVE r.bits = sent.bits[d]
  <2>1. r.bits # <<>>
    BY <1>9, <1>10, ReadersAssumption
  <2> QED
    BY <1>1, <1>5, <1>7, <1>8, <1>10, <2>1, TakenIsSent
<1>11. CASE "card" \in DOMAIN x
  <2>1. JustCard(x, r)
    BY <1>6, <1>11 DEF Just
  <2>2. r.bits = sent.bits[d]
    BY <1>10, <2>1 DEF JustCard
  <2> QED
    BY <1>11, <2>1, <2>2 DEF JustCard, Right
<1>12. CASE "card" \notin DOMAIN x
  <2>1. JustEnd(x, 0, u2'.keypads[d]) \/ JustKey(x, r)
    BY <1>6, <1>12 DEF Just
  <2>2. CASE JustEnd(x, 0, u2'.keypads[d])
    BY <1>12, <2>2 DEF JustEnd, Right
  <2>3. CASE JustKey(x, r)
    <3>1. r.bits = sent.bits[d]
      BY <1>10, <2>3 DEF JustKey
    <3> QED
      BY <1>12, <2>3, <3>1 DEF JustKey, Right
  <2> QED
    BY <2>1, <2>2, <2>3
<1> QED
  BY <1>11, <1>12

\* Genuine, for any cards, keys, codes, times and losses: no card is reported that its
\* reader did not send last, and no key either, unless a code has timed out.
THEOREM GenuineHolds == Spec => Genuine
<1> DEFINE Honest == \A c \in Chunks : New(c) => LET x == io'.pool[c] IN
                       disturbed'[x.door] \/ Right(x, sent.bits[x.door])
<1>1. Init => Shape /\ Assembled
  BY ShapeInit, AssembledInit
<1>2. (Shape /\ Assembled) /\ [Next]_vars => (Shape /\ Assembled)'
  BY ShapeStep, AssembledStep
<1>3. (Shape /\ Assembled) /\ [Next]_vars => [Honest]_vars
  BY GenuineStep
<1> QED
  BY <1>1, <1>2, <1>3, PTL DEF Spec, Genuine
=============================================================================
