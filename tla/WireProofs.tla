------------------------------ MODULE WireProofs ------------------------------
(***************************************************************************)
(* The byte stream: the parser's buffer is large enough for every stream,  *)
(* and every iteration of its loop but the last makes the buffer shorter;  *)
(* the two programs' codecs are inverse to each other on every frame that  *)
(* is accepted and on every message; what the receiver cuts out and acts   *)
(* upon is what the stream holds, whatever is in it and however it is      *)
(* read; and what a sender wrote arrives once and in order.                *)
(***************************************************************************)
EXTENDS Wire, WellFoundedInduction, SequenceTheorems, TLAPS

-----------------------------------------------------------------------------
(* The parser alone.                                                        *)

Largest == HeaderLength + MaximumPayloadLength

\* Between two reads there is less than one largest frame in the buffer.
ParserInv ==
  /\ ParserTypeOK
  /\ phase # "parsing" => Len(buffer) < Largest

\* A set of numbers that is not empty has a smallest member.
LEMMA SmallestMember ==
  ASSUME NEW S, S \subseteq Nat, S # {}
  PROVE  \E m \in S : \A k \in S : m <= k
<1>1. PICK m \in S : \A k \in S : <<k, m>> \notin OpToRel(<, Nat)
  BY NatLessThanWellFounded, WFMin
<1>2. \A k \in S : ~(k < m)
  BY <1>1 DEF OpToRel
<1>. QED
  BY <1>2

LEMMA MagicIs == Magic[1] = 65 /\ Magic[2] = 83
  BY DEF Magic

\* Discarding leaves bytes, and not more of them.
LEMMA DiscardedType ==
  ASSUME NEW b \in Seq(Bytes)
  PROVE  Discarded(b) \in Seq(Bytes) /\ Len(Discarded(b)) <= Len(b)
<1>1. CASE \E i \in DOMAIN b : MagicAt(b, i)
  <2> DEFINE First(i) == MagicAt(b, i) /\ \A j \in DOMAIN b : MagicAt(b, j) => i <= j
             first == CHOOSE i \in DOMAIN b : First(i)
  <2>1. \E i \in DOMAIN b : First(i)
    <3> DEFINE S == {i \in DOMAIN b : MagicAt(b, i)}
    <3>1. S \subseteq Nat /\ S # {}
      BY <1>1
    <3>2. PICK m \in S : \A j \in S : m <= j
      BY <3>1, SmallestMember
    <3>. QED
      BY <3>2
  <2>2. first \in DOMAIN b
    BY <2>1
  <2>3. Discarded(b) = SubSeq(b, first, Len(b))
    BY <1>1 DEF Discarded
  <2>4. first \in 1..Len(b)
    BY <2>2
  <2> HIDE DEF first
  <2>. QED
    BY <2>3, <2>4
<1>2. CASE ~ \E i \in DOMAIN b : MagicAt(b, i)
  <2>1. CASE b # <<>> /\ b[Len(b)] = Magic[1]
    <3>1. Len(b) \in Nat /\ Len(b) >= 1
      BY <2>1
    <3>2. 65 \in Bytes
      BY FrameAssumption DEF Bytes
    <3>. QED
      BY <1>2, <2>1, <3>1, <3>2, MagicIs DEF Discarded
  <2>2. CASE ~(b # <<>> /\ b[Len(b)] = Magic[1])
    BY <1>2, <2>2 DEF Discarded
  <2>. QED
    BY <2>1, <2>2
<1>. QED
  BY <1>1, <1>2

\* The announced length of a header is a number.
LEMMA AnnouncedType ==
  ASSUME NEW b \in Seq(Bytes), ~Short(b)
  PROVE  Announced(b) \in Nat /\ b[3] \in Bytes /\ b[4] \in Bytes
<1>1. /\ Len(b) >= 6 /\ DOMAIN b = 1..Len(b)
      /\ b[3] \in Bytes /\ b[4] \in Bytes /\ b[5] \in Bytes /\ b[6] \in Bytes
  BY DEF Short, HeaderLength
<1>2. \A x, y \in Bytes : x + y * Base \in Nat
  <2> SUFFICES ASSUME NEW x \in Bytes, NEW y \in Bytes PROVE x + y * Base \in Nat
    OBVIOUS
  <2>1. x \in Nat /\ y \in Nat /\ Base \in Nat
    BY FrameAssumption DEF Bytes
  <2>2. y * Base \in Nat
    BY <2>1
  <2>. QED
    BY <2>1, <2>2
<1>. QED
  BY <1>1, <1>2 DEF Announced

LEMMA EmptyType ==
  <<>> \in Seq(Bytes) /\ <<>> \in Seq(Frame) /\ Len(<<>>) = 0
  OBVIOUS

LEMMA LargestType == Largest \in Nat /\ 0 < Largest
  BY FrameAssumption DEF Largest, HeaderLength

LEMMA InitParserInv == ParserInit => ParserInv
  BY EmptyType, LargestType DEF ParserInit, ParserInv, ParserTypeOK

LEMMA PushInv ==
  ASSUME ParserInv, NEW bytes \in Seq(Bytes), Push(bytes)
  PROVE  ParserInv'
<1>1. buffer \o bytes \in Seq(Bytes)
  BY DEF ParserInv, ParserTypeOK
<1>2. flawed' \in BOOLEAN /\ batch' = <<>> /\ phase' \in {"parsing", "parsed"}
  BY DEF Push, Overflows
<1>3. CASE Overflows(bytes)
  <2>1. buffer' = <<>>
    BY <1>3 DEF Push
  <2>. QED
    BY <1>2, <2>1, EmptyType, LargestType DEF ParserInv, ParserTypeOK
<1>4. CASE ~Overflows(bytes)
  <2>1. buffer' = buffer \o bytes /\ phase' = "parsing"
    BY <1>4 DEF Push
  <2>. QED
    BY <1>1, <1>2, <2>1, EmptyType DEF ParserInv, ParserTypeOK
<1>. QED
  BY <1>3, <1>4

LEMMA AwaitInv == ASSUME ParserInv, Await PROVE ParserInv'
<1> DEFINE b == Discarded(buffer)
<1>1. b \in Seq(Bytes)
  BY DiscardedType DEF ParserInv, ParserTypeOK
<1>2. Len(b) < Largest
  <2>1. CASE Short(b)
    BY <1>1, <2>1, FrameAssumption DEF Short, Largest, HeaderLength
  <2>2. CASE ~Short(b)
    <3>1. Announced(b) <= MaximumPayloadLength /\ Len(b) < HeaderLength + Announced(b)
      BY <1>1, <2>2, AnnouncedType, FrameAssumption DEF Await, Oversized, Incomplete
    <3>. QED
      BY <1>1, <2>2, <3>1, AnnouncedType, FrameAssumption DEF Largest, HeaderLength
  <2>. QED
    BY <2>1, <2>2
<1>3. buffer' = b /\ phase' = "parsed" /\ batch' = batch /\ flawed' = flawed
  BY DEF Await
<1> HIDE DEF b
<1>. QED
  BY <1>1, <1>2, <1>3 DEF ParserInv, ParserTypeOK

LEMMA SkipInv == ASSUME ParserInv, Skip PROVE ParserInv' /\ Len(buffer') < Len(buffer)
<1> DEFINE b == Discarded(buffer)
<1>1. b \in Seq(Bytes) /\ Len(b) <= Len(buffer)
  BY DiscardedType DEF ParserInv, ParserTypeOK
<1>2. b # <<>>
  BY <1>1 DEF Skip, Short, HeaderLength
<1>3. /\ buffer' = Tail(b) /\ flawed' = TRUE
      /\ phase = "parsing" /\ phase' = phase /\ batch' = batch
  BY DEF Skip
<1> HIDE DEF b
<1>4. Tail(b) \in Seq(Bytes) /\ Len(Tail(b)) = Len(b) - 1
  BY <1>1, <1>2
<1>. QED
  BY <1>1, <1>3, <1>4 DEF ParserInv, ParserTypeOK

LEMMA TakeInv == ASSUME ParserInv, Take PROVE ParserInv' /\ Len(buffer') < Len(buffer)
<1> DEFINE b     == Discarded(buffer)
           end   == HeaderLength + Announced(b)
           frame == [version |-> b[3], type |-> b[4],
                     payload |-> SubSeq(b, HeaderLength + 1, end)]
           rest  == SubSeq(b, end + 1, Len(b))
<1>1. b \in Seq(Bytes) /\ Len(b) <= Len(buffer) /\ Len(buffer) \in Nat
  BY DiscardedType DEF ParserInv, ParserTypeOK
<1>2. ~Short(b) /\ ~Incomplete(b)
  BY DEF Take
<1>3. Announced(b) \in Nat /\ b[3] \in Bytes /\ b[4] \in Bytes
  BY <1>1, <1>2, AnnouncedType
<1>4. end \in Nat /\ end >= 6 /\ end <= Len(b)
  BY <1>1, <1>2, <1>3 DEF Incomplete, HeaderLength
<1>5. SubSeq(b, HeaderLength + 1, end) \in Seq(Bytes)
  <2> HIDE DEF b, end
  <2>. QED
    BY <1>1, <1>4 DEF HeaderLength
<1>6. rest \in Seq(Bytes) /\ Len(rest) < Len(b)
  <2> HIDE DEF b, end
  <2>. QED
    BY <1>1, <1>4
<1>7. frame \in Frame
  BY <1>3, <1>5 DEF Frame
<1>8. /\ batch' = Append(batch, frame) /\ buffer' = rest
      /\ phase = "parsing" /\ phase' = phase /\ flawed' = flawed
  BY DEF Take
<1> HIDE DEF b, end, frame, rest
<1>. QED
  BY <1>1, <1>6, <1>7, <1>8 DEF ParserInv, ParserTypeOK

LEMMA ConsumedInv == ASSUME ParserInv, Consumed PROVE ParserInv'
  BY EmptyType DEF ParserInv, ParserTypeOK, Consumed

LEMMA ReadType ==
  ASSUME NEW bytes \in UNION {[1..n -> Bytes] : n \in 1..ReadLength}
  PROVE  bytes \in Seq(Bytes) /\ Len(bytes) <= ReadLength
<1>1. PICK n \in 1..ReadLength : bytes \in [1..n -> Bytes]
  OBVIOUS
<1>2. n \in Nat /\ n <= ReadLength
  BY ParserAssumption
<1>3. bytes \in Seq(Bytes)
  BY <1>1, <1>2
<1>4. Len(bytes) = n
  BY <1>1, <1>2, <1>3
<1>. QED
  BY <1>2, <1>3, <1>4

LEMMA ParserStep == ParserInv /\ [ParserNext]_parserVars => ParserInv'
<1> SUFFICES ASSUME ParserInv, [ParserNext]_parserVars PROVE ParserInv'
  OBVIOUS
<1>1. ASSUME NEW bytes \in UNION {[1..n -> Bytes] : n \in 1..ReadLength}, Push(bytes)
      PROVE  ParserInv'
  BY <1>1, ReadType, PushInv
<1>2. CASE Await
  BY <1>2, AwaitInv
<1>3. CASE Skip
  BY <1>3, SkipInv
<1>4. CASE Take
  BY <1>4, TakeInv
<1>5. CASE Consumed
  BY <1>5, ConsumedInv
<1>6. CASE UNCHANGED parserVars
  BY <1>6 DEF parserVars, ParserInv, ParserTypeOK
<1>. QED
  BY <1>1, <1>2, <1>3, <1>4, <1>5, <1>6 DEF ParserNext, Parse

LEMMA ParserInvariance == ParserSpec => []ParserInv
  BY InitParserInv, ParserStep, PTL DEF ParserSpec

\* The parser holds bytes and gives frames, whatever is read.
THEOREM ParserTypeCorrect == ParserSpec => []ParserTypeOK
<1>1. ParserInv => ParserTypeOK
  BY DEF ParserInv
<1>. QED
  BY <1>1, ParserInvariance, PTL

\* With the buffer, payload and read sizes of the code, or any that satisfy
\* ParserAssumption, no read ever finds the buffer too full.
THEOREM BufferSuffices == ParserSpec => []NextReadFits
<1>1. ParserInv => NextReadFits
  <2> SUFFICES ASSUME ParserInv, phase # "parsing"
               PROVE  Len(buffer) + ReadLength <= ReceiveBufferLength
    BY DEF NextReadFits
  <2>1. Len(buffer) \in Nat /\ Len(buffer) < Largest
    BY DEF ParserInv, ParserTypeOK
  <2>. QED
    BY <2>1, FrameAssumption, ParserAssumption DEF Largest, HeaderLength
<1>. QED
  BY <1>1, ParserInvariance, PTL

\* The loop of push cannot go on for ever: what is not its last iteration
\* shortens the buffer.
THEOREM LoopShrinksBuffer ==
  ParserSpec => [][Parse /\ phase' = "parsing" => Len(buffer') < Len(buffer)]_parserVars
<1>1. ParserInv /\ [ParserNext]_parserVars =>
        [Parse /\ phase' = "parsing" => Len(buffer') < Len(buffer)]_parserVars
  <2> SUFFICES ASSUME ParserInv, Parse, phase' = "parsing"
               PROVE  Len(buffer') < Len(buffer)
    OBVIOUS
  <2>. QED
    BY SkipInv, TakeInv DEF Parse, Await
<1>. QED
  BY <1>1, ParserInvariance, PTL DEF ParserSpec

-----------------------------------------------------------------------------
(* Numbers and their bytes.                                                 *)

\* Induction up to a bound, over the members of a set.
LEMMA CountUp ==
  ASSUME NEW S, NEW N \in Nat, 0 \in S, \A n \in 0..(N - 1) : n \in S => n + 1 \in S
  PROVE  \A n \in 0..N : n \in S
<1> SUFFICES ASSUME NEW bad \in 0..N, bad \notin S PROVE FALSE
  OBVIOUS
<1> DEFINE T == {n \in 0..N : n \notin S}
<1>1. PICK m \in T : \A k \in T : m <= k
  <2>1. T \subseteq Nat /\ T # {}
    OBVIOUS
  <2>. QED
    BY <2>1, SmallestMember
<1>2. m \in 1..N /\ m \notin S
  BY <1>1
<1>3. m - 1 \in 0..(N - 1) /\ m - 1 \in 0..N /\ (m - 1) + 1 = m
  BY <1>2
<1>4. m - 1 \notin T
  <2>1. ~(m <= m - 1)
    BY <1>2
  <2>. QED
    BY <1>1, <2>1
<1>5. m - 1 \in S
  BY <1>3, <1>4
<1>6. (m - 1) + 1 \in S
  BY <1>3, <1>5, Zenon
<1>. QED
  BY <1>2, <1>3, <1>6

IsPower(f) == f = [k \in 0..4 |-> IF k = 0 THEN 1 ELSE Base * f[k - 1]]

LEMMA PowerIs == IsPower(Power)
<1> DEFINE b1 == Base
           b2 == Base * b1
           b3 == Base * b2
           b4 == Base * b3
           f == [k \in 0..4 |-> IF k = 0 THEN 1 ELSE IF k = 1 THEN b1
                                ELSE IF k = 2 THEN b2 ELSE IF k = 3 THEN b3 ELSE b4]
<1>1. IsPower(f)
  <2>1. b1 = Base * 1
    BY FrameAssumption
  <2>2. b1 = Base * 1 /\ b2 = Base * b1 /\ b3 = Base * b2 /\ b4 = Base * b3
    BY <2>1
  <2> HIDE DEF b1, b2, b3, b4
  <2>3. \A k \in 0..4 : f[k] = IF k = 0 THEN 1 ELSE Base * f[k - 1]
    <3> SUFFICES ASSUME NEW k \in 0..4 PROVE f[k] = IF k = 0 THEN 1 ELSE Base * f[k - 1]
      OBVIOUS
    <3>1. f[0] = 1 /\ f[1] = b1 /\ f[2] = b2 /\ f[3] = b3 /\ f[4] = b4
      OBVIOUS
    <3>2. k = 0 \/ k = 1 \/ k = 2 \/ k = 3 \/ k = 4
      OBVIOUS
    <3>. QED
      BY <2>2, <3>1, <3>2
  <2>4. f = [k \in 0..4 |-> f[k]]
    OBVIOUS
  <2> HIDE DEF f
  <2>. QED
    BY <2>3, <2>4, Zenon DEF IsPower
<1>2. Power = CHOOSE g : IsPower(g)
  BY Zenon DEF Power, IsPower
<1>. QED
  BY <1>1, <1>2, Zenon

LEMMA Powers ==
  /\ Base \in Nat /\ Base > 127
  /\ Power[0] = 1 /\ Power[1] = Base /\ Power[2] = Base * Base
  /\ Power[3] = Base * Power[2] /\ Power[4] = Base * Power[3]
  /\ \A k \in 0..4 : Power[k] \in Nat /\ Power[k] > 0
<1>0. Base \in Nat /\ Base > 127
  BY FrameAssumption
<1>1. \A k \in 0..4 : Power[k] = IF k = 0 THEN 1 ELSE Base * Power[k - 1]
  BY PowerIs DEF IsPower
<1>2. Power[0] = 1 /\ Power[1] = Base * Power[0] /\ Power[2] = Base * Power[1]
      /\ Power[3] = Base * Power[2] /\ Power[4] = Base * Power[3]
  <2>1. 0 \in 0..4 /\ 1 \in 0..4 /\ 2 \in 0..4 /\ 3 \in 0..4 /\ 4 \in 0..4
    OBVIOUS
  <2>. QED
    BY <1>1, <2>1
<1>3. \A x \in Nat : x > 0 => Base * x \in Nat /\ Base * x > 0
  BY <1>0
<1>4. Power[0] \in Nat /\ Power[0] > 0
  BY <1>2
<1>5. Power[1] \in Nat /\ Power[1] > 0 /\ Power[1] = Base
  BY <1>2, <1>0
<1>6. Power[2] \in Nat /\ Power[2] > 0 /\ Power[2] = Base * Base
  BY <1>2, <1>3, <1>5
<1>7. Power[3] \in Nat /\ Power[3] > 0
  BY <1>2, <1>3, <1>6
<1>8. Power[4] \in Nat /\ Power[4] > 0
  BY <1>2, <1>3, <1>7
<1>9. \A k \in 0..4 : k = 0 \/ k = 1 \/ k = 2 \/ k = 3 \/ k = 4
  OBVIOUS
<1>10. \A k \in 0..4 : Power[k] \in Nat /\ Power[k] > 0
  BY <1>4, <1>5, <1>6, <1>7, <1>8, <1>9
<1>. QED
  BY <1>0, <1>2, <1>5, <1>6, <1>10

LEMMA Division ==
  ASSUME NEW p \in Nat, p > 0, NEW high \in Nat, NEW low \in Nat, low < p
  PROVE  (high * p + low) \div p = high /\ (high * p + low) % p = low
  OBVIOUS

\* The value of a number is the sum of its bytes, each with its weight.
IsValue(f, p, x) ==
  f = [k \in 0..x.width |->
        IF k = 0 THEN 0 ELSE f[k - 1] + p[x.offset + k] * Power[k - 1]]

LEMMA ValueIs ==
  ASSUME NEW p, NEW x, NEW f, IsValue(f, p, x)
  PROVE  \E g : IsValue(g, p, x) /\ Value(p, x) = g[x.width]
<1> DEFINE c == CHOOSE g : IsValue(g, p, x)
<1>1. IsValue(c, p, x)
  BY Zenon
<1>2. Value(p, x) = c[x.width]
  BY Zenon DEF Value, IsValue
<1> HIDE DEF c
<1>. QED
  BY <1>1, <1>2

Widths == {1, 2, 4}

LEMMA ValueIsSum ==
  ASSUME NEW p \in Seq(Bytes), NEW x, x.width \in Widths, x.offset \in Nat,
         x.offset + x.width <= Len(p)
  PROVE  \E f : /\ Value(p, x) = f[x.width] /\ f[0] = 0
                /\ \A k \in 1..x.width :
                     f[k] = f[k - 1] + p[x.offset + k] * Power[k - 1]
<1> DEFINE o == x.offset
           w == x.width
           f0 == 0
           f1 == f0 + p[o + 1] * Power[0]
           f2 == f1 + p[o + 2] * Power[1]
           f3 == f2 + p[o + 3] * Power[2]
           f4 == f3 + p[o + 4] * Power[3]
           f == [k \in 0..w |-> IF k = 0 THEN f0 ELSE IF k = 1 THEN f1
                                ELSE IF k = 2 THEN f2 ELSE IF k = 3 THEN f3 ELSE f4]
<1>1. IsValue(f, p, x)
  <2>0. w \in {1, 2, 4}
    BY DEF Widths
  <2>1. f0 = 0 /\ f1 = f0 + p[o + 1] * Power[0] /\ f2 = f1 + p[o + 2] * Power[1]
        /\ f3 = f2 + p[o + 3] * Power[2] /\ f4 = f3 + p[o + 4] * Power[3]
    OBVIOUS
  <2> HIDE DEF f0, f1, f2, f3, f4, w, o
  <2>2. \A k \in 0..w : f[k] = IF k = 0 THEN 0 ELSE f[k - 1] + p[o + k] * Power[k - 1]
    <3> SUFFICES ASSUME NEW k \in 0..w
                 PROVE  f[k] = IF k = 0 THEN 0 ELSE f[k - 1] + p[o + k] * Power[k - 1]
      OBVIOUS
    <3>1. k = 0 \/ (k = 1 /\ 0 \in 0..w) \/ (k = 2 /\ 1 \in 0..w)
          \/ (k = 3 /\ 2 \in 0..w) \/ (k = 4 /\ 3 \in 0..w)
      BY <2>0
    <3>. QED
      BY <2>1, <3>1
  <2>3. f = [k \in 0..w |-> f[k]]
    OBVIOUS
  <2> HIDE DEF f
  <2>4. f = [k \in 0..w |-> IF k = 0 THEN 0 ELSE f[k - 1] + p[o + k] * Power[k - 1]]
    BY <2>2, <2>3, Zenon
  <2>. QED
    BY <2>4, Zenon DEF IsValue, o, w
<1> HIDE DEF f
<1>2. PICK g : IsValue(g, p, x) /\ Value(p, x) = g[x.width]
  BY <1>1, ValueIs, Zenon
<1>3. x.width \in 0..x.width /\ 0 \in 0..x.width
        /\ \A k \in 1..x.width : k \in 0..x.width /\ k # 0
  BY DEF Widths
<1>4. \A k \in 0..x.width : g[k] = IF k
        = 0 THEN 0 ELSE g[k - 1] + p[x.offset + k] * Power[k - 1]
  BY <1>2 DEF IsValue
<1>. QED
  BY <1>2, <1>3, <1>4, Zenon

Value1(b1) == b1
Value2(b1, b2) == b1 + b2 * Base
Value4(b1, b2, b3, b4) == b1 + b2 * Base + b3 * Power[2] + b4 * Power[3]

LEMMA ValueByWidth ==
  ASSUME NEW p \in Seq(Bytes), NEW x, x.width \in Widths, x.offset \in Nat,
         x.offset + x.width <= Len(p)
  PROVE  /\ \A k \in 1..x.width : p[x.offset + k] \in Bytes
         /\ x.width = 1 => Value(p, x) = Value1(p[x.offset + 1])
         /\ x.width = 2 => Value(p, x) = Value2(p[x.offset + 1], p[x.offset + 2])
         /\ x.width = 4 => Value(p, x) = Value4(p[x.offset + 1], p[x.offset + 2],
                                                p[x.offset + 3], p[x.offset + 4])
<1> DEFINE o == x.offset
           w == x.width
           b(k) == p[o + k]
<1>0. w \in {1, 2, 4} /\ o \in Nat
  BY DEF Widths
<1>1. \A k \in 1..w : b(k) \in Bytes
  BY <1>0
<1>2. PICK f : /\ Value(p, x) = f[w] /\ f[0] = 0
               /\ \A k \in 1..w : f[k] = f[k - 1] + b(k) * Power[k - 1]
  BY ValueIsSum, Zenon
<1> HIDE DEF b, o, w
<1>3. \A k \in 1..w : b(k) \in Nat
  BY <1>1, Powers DEF Bytes
<1>4. Base \in Nat /\ Power[0] = 1 /\ Power[1] = Base /\ Power[2] \in Nat
        /\ Power[3] \in Nat
  BY Powers
<1>5. f[1] = b(1)
  <2>1. 1 \in 1..w /\ 1 - 1 = 0
    BY <1>0
  <2>2. f[1] = f[0] + b(1) * Power[0]
    BY <1>2, <2>1
  <2>. QED
    BY <1>2, <1>3, <1>4, <2>1, <2>2
<1>6. w # 1 => f[2] = b(1) + b(2) * Base /\ b(2) \in Nat
  <2> SUFFICES ASSUME w # 1 PROVE f[2] = b(1) + b(2) * Base /\ b(2) \in Nat
    OBVIOUS
  <2>1. 2 \in 1..w /\ 2 - 1 = 1
    BY <1>0
  <2>2. f[2] = f[1] + b(2) * Power[1]
    BY <1>2, <2>1
  <2>. QED
    BY <1>3, <1>4, <1>5, <2>1, <2>2
<1>7. w = 4 => f[4] = b(1) + b(2) * Base + b(3) * Power[2] + b(4) * Power[3]
  <2> SUFFICES ASSUME w = 4
               PROVE  f[4] = b(1) + b(2) * Base + b(3) * Power[2] + b(4) * Power[3]
    OBVIOUS
  <2>1. 3 \in 1..w /\ 4 \in 1..w /\ 3 - 1 = 2 /\ 4 - 1 = 3
    OBVIOUS
  <2>2. f[3] = f[2] + b(3) * Power[2] /\ f[4] = f[3] + b(4) * Power[3]
    BY <1>2, <2>1
  <2>. QED
    BY <1>6, <2>2
<1>8. /\ w = 1 => Value(p, x) = Value1(b(1))
      /\ w = 2 => Value(p, x) = Value2(b(1), b(2))
      /\ w = 4 => Value(p, x) = Value4(b(1), b(2), b(3), b(4))
  BY <1>2, <1>5, <1>6, <1>7 DEF Value1, Value2, Value4
<1>. QED
  BY <1>1, <1>8 DEF b, o, w

\* The bytes of a number of four bytes; the shorter ones have none of the rest.
HasBytes(v, b1, b2, b3, b4) ==
  /\ v \in 0..(Power[4] - 1)
  /\ ByteOf(v, 1) = b1 /\ ByteOf(v, 2) = b2 /\ ByteOf(v, 3) = b3 /\ ByteOf(v, 4) = b4

LEMMA BytesOfSum ==
  ASSUME NEW b1 \in Bytes, NEW b2 \in Bytes, NEW b3 \in Bytes, NEW b4 \in Bytes
  PROVE  HasBytes(Value4(b1, b2, b3, b4), b1, b2, b3, b4)
<1> DEFINE v  == Value4(b1, b2, b3, b4)
           B  == Base
           P2 == Power[2]
           P3 == Power[3]
           h2 == b3 + b4 * B
           h1 == b2 + h2 * B
           l2 == b1 + b2 * B
           l3 == l2 + b3 * P2
<1>1. /\ B \in Nat /\ B > 127 /\ P2 = B * B /\ P3 = B * P2 /\ Power[4] = B * P3
      /\ P2 \in Nat /\ P2 > 0 /\ P3 \in Nat /\ P3 > 0
      /\ Power[0] = 1 /\ Power[1] = B
  BY Powers
<1>2. /\ b1 \in Nat /\ b2 \in Nat /\ b3 \in Nat /\ b4 \in Nat
      /\ b1 < B /\ b2 < B /\ b3 < B /\ b4 < B
  BY <1>1 DEF Bytes
<1> HIDE DEF B, P2, P3, v
<1>3. h2 \in Nat /\ l2 \in Nat
  BY <1>1, <1>2
<1>4. h1 \in Nat /\ l3 \in Nat
  BY <1>1, <1>2, <1>3
<1>5. v = h1 * B + b1
  <2>1. v = b1 + b2 * B + b3 * P2 + b4 * P3
    BY DEF v, Value4, B, P2, P3
  <2>2. h1 * B = b2 * B + (b3 + b4 * B) * B * B
    BY <1>1, <1>2
  <2>3. (b3 + b4 * B) * B * B = b3 * P2 + b4 * P3
    BY <1>1, <1>2
  <2> HIDE DEF h1
  <2>. QED
    BY <1>1, <1>2, <1>4, <2>1, <2>2, <2>3
<1>6. h1 = h2 * B + b2
  BY <1>1, <1>2, <1>3
<1>7. h2 = b4 * B + b3
  BY <1>1, <1>2
<1>8. v = h2 * P2 + l2 /\ l2 < P2
  <2>1. v = (h2 * B + b2) * B + b1
    BY <1>5, <1>6
  <2>2. (h2 * B + b2) * B = h2 * P2 + b2 * B
    <3> HIDE DEF h2
    <3>. QED
      BY <1>1, <1>2, <1>3
  <2>3. b2 * B <= (B - 1) * B
    BY <1>1, <1>2
  <2>4. (B - 1) * B = P2 - B
    BY <1>1
  <2> HIDE DEF h2
  <2>. QED
    BY <1>1, <1>2, <1>3, <2>1, <2>2, <2>3, <2>4
<1>9. v = b4 * P3 + l3 /\ l3 < P3
  <2>1. v = (b4 * B + b3) * P2 + l2
    BY <1>7, <1>8
  <2>2. (b4 * B + b3) * P2 = b4 * P3 + b3 * P2
    BY <1>1, <1>2
  <2>3. b3 * P2 <= (B - 1) * P2
    BY <1>1, <1>2
  <2>4. (B - 1) * P2 = P3 - P2
    BY <1>1
  <2> HIDE DEF l2
  <2>. QED
    BY <1>1, <1>2, <1>3, <1>8, <2>1, <2>2, <2>3, <2>4
<1>10. v < Power[4] /\ v \in Nat
  <2>1. b4 * P3 <= (B - 1) * P3
    BY <1>1, <1>2
  <2>2. (B - 1) * P3 = Power[4] - P3
    BY <1>1
  <2> HIDE DEF l3
  <2>. QED
    BY <1>1, <1>2, <1>4, <1>9, <2>1, <2>2
<1> HIDE DEF h1, h2, l2, l3
<1>11. ByteOf(v, 1) = b1
  <2>1. v \div 1 = v
    BY <1>10
  <2>2. v % B = b1
    BY <1>1, <1>2, <1>4, <1>5, Division
  <2>. QED
    BY <1>1, <2>1, <2>2 DEF ByteOf, B
<1>12. ByteOf(v, 2) = b2
  <2>1. v \div B = h1
    BY <1>1, <1>2, <1>4, <1>5, Division
  <2>2. h1 % B = b2
    BY <1>1, <1>2, <1>3, <1>6, Division
  <2>. QED
    BY <1>1, <2>1, <2>2 DEF ByteOf, B
<1>13. ByteOf(v, 3) = b3
  <2>1. v \div P2 = h2
    BY <1>1, <1>3, <1>8, Division
  <2>2. h2 % B = b3
    BY <1>1, <1>2, <1>7, Division
  <2>. QED
    BY <1>1, <2>1, <2>2 DEF ByteOf, B, P2
<1>14. ByteOf(v, 4) = b4
  <2>1. v \div P3 = b4
    BY <1>1, <1>2, <1>4, <1>9, Division
  <2>2. b4 % B = b4
    BY <1>1, <1>2
  <2>. QED
    BY <1>1, <2>1, <2>2 DEF ByteOf, B, P3
<1>15. Power[4] \in Nat
  BY Powers
<1>16. v \in 0..(Power[4] - 1)
  BY <1>10, <1>15
<1>. QED
  BY <1>11, <1>12, <1>13, <1>14, <1>16 DEF HasBytes, v

\* Encoding what was decoded gives the same bytes.
LEMMA ByteOfValue ==
  ASSUME NEW p \in Seq(Bytes), NEW x, x.width \in Widths, x.offset \in Nat,
         x.offset + x.width <= Len(p)
  PROVE  /\ Value(p, x) \in Nat
         /\ \A k \in 1..x.width : ByteOf(Value(p, x), k) = p[x.offset + k]
<1> DEFINE o == x.offset
           w == x.width
           b(k) == p[o + k]
           v == Value(p, x)
<1>0. w \in {1, 2, 4}
  BY DEF Widths
<1>1. /\ \A k \in 1..w : b(k) \in Bytes
      /\ w = 1 => v = Value1(b(1))
      /\ w = 2 => v = Value2(b(1), b(2))
      /\ w = 4 => v = Value4(b(1), b(2), b(3), b(4))
  BY ValueByWidth
<1> HIDE DEF b, o, w, v
<1>2. 0 \in Bytes /\ Base \in Nat /\ Power[2] \in Nat /\ Power[3] \in Nat
        /\ Power[4] \in Nat
  BY Powers DEF Bytes
<1>3. \A y \in Bytes : y \in Nat
  BY <1>2 DEF Bytes
<1>4. CASE w = 1
  <2>1. b(1) \in Bytes
    BY <1>1, <1>4
  <2>2. v = Value4(b(1), 0, 0, 0)
    BY <1>1, <1>2, <1>3, <1>4, <2>1 DEF Value1, Value4
  <2>3. HasBytes(v, b(1), 0, 0, 0)
    BY <1>2, <2>1, <2>2, BytesOfSum, Zenon
  <2>. QED
    BY <1>2, <1>4, <2>3 DEF HasBytes, b, o, w, v
<1>5. CASE w = 2
  <2>1. b(1) \in Bytes /\ b(2) \in Bytes
    BY <1>1, <1>5
  <2>2. v = Value4(b(1), b(2), 0, 0)
    BY <1>1, <1>2, <1>3, <1>5, <2>1 DEF Value2, Value4
  <2>3. HasBytes(v, b(1), b(2), 0, 0)
    BY <1>2, <2>1, <2>2, BytesOfSum, Zenon
  <2>4. \A k \in 1..w : k = 1 \/ k = 2
    BY <1>5
  <2>. QED
    BY <1>2, <2>3, <2>4, SMTT(60) DEF HasBytes, b, o, w, v
<1>6. CASE w = 4
  <2>1. b(1) \in Bytes /\ b(2) \in Bytes /\ b(3) \in Bytes /\ b(4) \in Bytes
    BY <1>1, <1>6
  <2>2. v = Value4(b(1), b(2), b(3), b(4))
    BY <1>1, <1>6
  <2>3. HasBytes(v, b(1), b(2), b(3), b(4))
    BY <2>1, <2>2, BytesOfSum, Zenon
  <2>4. \A k \in 1..w : k = 1 \/ k = 2 \/ k = 3 \/ k = 4
    BY <1>6
  <2>5. v \in Nat
    BY <1>2, <2>3 DEF HasBytes
  <2>6. \A k \in 1..w : ByteOf(v, k) = b(k)
    BY <2>3, <2>4, Zenon DEF HasBytes
  <2>. QED
    BY <2>5, <2>6 DEF b, o, w, v
<1>. QED
  BY <1>0, <1>4, <1>5, <1>6

-----------------------------------------------------------------------------
(* Layouts without gaps and overlaps.                                       *)

IsNumber(u) == u.width \in Widths /\ u.least \in Nat /\ u.most \in Int

IsEnd(f, us) == f = [i \in 0..Len(us) |-> IF i = 0 THEN 0 ELSE f[i - 1] + us[i].width]

\* Every byte of the payload's head belongs to one number.
WellLaid(l) ==
  /\ l = Layout(l.size, l.fields)
  /\ l.size \in Nat /\ Len(l.fields) \in Nat /\ DOMAIN l.fields = 1..Len(l.fields)
  /\ \A i \in DOMAIN l.fields :
       /\ l.fields[i].width \in Widths /\ l.fields[i].offset \in Nat
       /\ l.fields[i].offset + l.fields[i].width <= l.size
  /\ \A k \in 1..l.size :
       \E i \in DOMAIN l.fields : k - l.fields[i].offset \in 1..l.fields[i].width
  /\ \A k \in 1..l.size : \A i, j \in DOMAIN l.fields :
       /\ k - l.fields[i].offset \in 1..l.fields[i].width
       /\ k - l.fields[j].offset \in 1..l.fields[j].width
       => i = j

LEMMA EndIs ==
  ASSUME NEW us, NEW n \in Nat, Len(us) = n, \A i \in 1..n : us[i].width \in Widths
  PROVE  \E f : /\ IsEnd(f, us) /\ f \in [0..n -> Nat]
                /\ OneAfterTheOther(us) = Layout(f[n], [i \in 1..n |-> At(f[i - 1], us[i])])
<1> DEFINE Upto(m, f) == f = [i \in 0..m |-> IF i = 0 THEN 0 ELSE f[i - 1] + us[i].width]
           S == {m \in 0..n : \E f \in [0..m -> Nat] : Upto(m, f)}
<1>1. 0 \in S
  <2> DEFINE f == [i \in 0..0 |-> 0]
  <2>1. f \in [0..0 -> Nat]
    OBVIOUS
  <2>2. Upto(0, f)
    OBVIOUS
  <2>3. 0 \in 0..n
    OBVIOUS
  <2> HIDE DEF Upto, f
  <2>. QED
    BY <2>1, <2>2, <2>3, Zenon
<1>2. ASSUME NEW m \in 0..(n - 1), m \in S PROVE m + 1 \in S
  <2>1. PICK f \in [0..m -> Nat] : Upto(m, f)
    BY <1>2
  <2> DEFINE w == us[m + 1].width
             g == [i \in 0..(m + 1) |-> IF i = m + 1 THEN f[m] + w ELSE f[i]]
  <2>2. w \in Nat /\ f[m] \in Nat
    BY DEF Widths
  <2>3. g \in [0..(m + 1) -> Nat]
    BY <2>2
  <2>4. \A i \in 0..m : f[i] = IF i = 0 THEN 0 ELSE f[i - 1] + us[i].width
    BY <2>1
  <2>5. \A i \in 0..(m + 1) : g[i] = IF i = 0 THEN 0 ELSE g[i - 1] + us[i].width
    <3> SUFFICES ASSUME NEW i \in 0..(m + 1)
                 PROVE  g[i] = IF i = 0 THEN 0 ELSE g[i - 1] + us[i].width
      OBVIOUS
    <3>1. CASE i = m + 1
      BY <3>1
    <3>2. CASE i # m + 1
      <4>1. i \in 0..m /\ (i # 0 => i - 1 \in 0..m)
        BY <3>2
      <4>. QED
        BY <2>4, <4>1
    <3>. QED
      BY <3>1, <3>2
  <2>6. g = [i \in 0..(m + 1) |-> g[i]]
    OBVIOUS
  <2> HIDE DEF g
  <2>7. Upto(m + 1, g)
    BY <2>5, <2>6, Zenon
  <2>8. m + 1 \in 0..n
    OBVIOUS
  <2> HIDE DEF Upto
  <2>. QED
    BY <2>3, <2>7, <2>8, Zenon
<1> HIDE DEF S
<1>3. n \in S
  <2>1. \A m \in 0..n : m \in S
    BY <1>1, <1>2, CountUp
  <2>. QED
    BY <2>1
<1>4. \E f : IsEnd(f, us)
  BY <1>3 DEF S, IsEnd
<1> DEFINE c == CHOOSE f : IsEnd(f, us)
<1>5. IsEnd(c, us)
  BY <1>4, Zenon
<1>6. OneAfterTheOther(us) = Layout(c[n], [i \in 1..n |-> At(c[i - 1], us[i])])
  BY Zenon DEF OneAfterTheOther, IsEnd
<1> HIDE DEF c
<1>7. \A m \in 0..n : c[m] \in Nat
  <2> DEFINE T == {m \in 0..n : c[m] \in Nat}
  <2>0. \A i \in 0..n : c[i] = IF i = 0 THEN 0 ELSE c[i - 1] + us[i].width
    BY <1>5 DEF IsEnd
  <2>1. 0 \in T
    BY <2>0
  <2>2. ASSUME NEW m \in 0..(n - 1), m \in T PROVE m + 1 \in T
    <3>1. m + 1 \in 1..n /\ (m + 1) - 1 = m
      OBVIOUS
    <3>2. us[m + 1].width \in Nat /\ c[m] \in Nat
      BY <2>2, <3>1 DEF Widths
    <3>3. c[m + 1] = c[m] + us[m + 1].width
      BY <2>0, <3>1
    <3>. QED
      BY <3>1, <3>2, <3>3
  <2> HIDE DEF T
  <2>3. \A m \in 0..n : m \in T
    BY <2>1, <2>2, CountUp
  <2>. QED
    BY <2>3 DEF T
<1>8. c \in [0..n -> Nat]
  BY <1>5, <1>7 DEF IsEnd
<1>. QED
  BY <1>5, <1>6, <1>8

LEMMA Within ==
  ASSUME NEW k \in Int, NEW a \in Nat, NEW w \in Nat, k - a \in 1..w
  PROVE  a < k /\ k <= a + w
  OBVIOUS

\* Numbers written one after the other leave no gap and do not overlap.
LEMMA LaidOut ==
  ASSUME NEW us, NEW n \in Nat, Len(us) = n, \A i \in 1..n : us[i].width \in Widths
  PROVE  WellLaid(OneAfterTheOther(us))
<1>1. PICK f \in [0..n -> Nat] :
        /\ IsEnd(f, us)
        /\ OneAfterTheOther(us) = Layout(f[n], [i \in 1..n |-> At(f[i - 1], us[i])])
  BY EndIs, Zenon
<1> DEFINE fields == [i \in 1..n |-> At(f[i - 1], us[i])]
           l == Layout(f[n], fields)
<1>2. f[0] = 0 /\ \A i \in 1..n : f[i] = f[i - 1] + us[i].width
  <2>1. \A i \in 0..n : f[i] = IF i = 0 THEN 0 ELSE f[i - 1] + us[i].width
    BY <1>1 DEF IsEnd
  <2>. QED
    BY <2>1
<1>3. \A i \in 1..n : us[i].width \in Nat /\ us[i].width > 0
  BY DEF Widths
<1>4. \A i \in 0..n : f[i] \in Nat
  BY <1>1
<1>5. \A i, j \in 0..n : i <= j => f[i] <= f[j]
  <2> SUFFICES ASSUME NEW i \in 0..n PROVE \A j \in 0..n : i <= j => f[i] <= f[j]
    OBVIOUS
  <2> DEFINE S == {j \in 0..n : i <= j => f[i] <= f[j]}
  <2>1. 0 \in S
    BY <1>4
  <2>2. ASSUME NEW m \in 0..(n - 1), m \in S PROVE m + 1 \in S
    <3>1. m + 1 \in 1..n /\ m + 1 \in 0..n /\ (m + 1) - 1 = m /\ m \in 0..n
      OBVIOUS
    <3>2. f[m + 1] = f[m] + us[m + 1].width
      BY <1>2, <3>1
    <3>3. f[m] <= f[m + 1]
      BY <1>3, <1>4, <3>1, <3>2
    <3>4. CASE i <= m
      <4>1. f[i] <= f[m]
        BY <2>2, <3>4
      <4>. QED
        BY <1>4, <3>1, <3>3, <4>1
    <3>5. CASE ~(i <= m)
      <4>1. i <= m + 1 => i = m + 1
        BY <3>5
      <4>. QED
        BY <1>4, <3>1, <4>1
    <3>. QED
      BY <3>4, <3>5
  <2> HIDE DEF S
  <2>3. \A m \in 0..n : m \in S
    BY <2>1, <2>2, CountUp
  <2>. QED
    BY <2>3 DEF S
<1>6. /\ l.size = f[n] /\ l.fields = fields /\ DOMAIN fields = 1..n /\ Len(fields) = n
      /\ l = Layout(l.size, l.fields)
  BY DEF Layout
<1>7. \A i \in 1..n : fields[i].offset = f[i - 1] /\ fields[i].width = us[i].width
                      /\ f[i] = fields[i].offset + fields[i].width
                      /\ i - 1 \in 0..n /\ i \in 0..n
  BY <1>2 DEF At
<1> HIDE DEF l, fields
<1>8. ASSUME NEW k \in 1..f[n]
      PROVE  \E i \in 1..n : k - fields[i].offset \in 1..fields[i].width
  <2> DEFINE S == {i \in 0..n : k <= f[i]}
  <2>1. S \subseteq Nat /\ n \in S
    BY <1>4
  <2>2. PICK i \in S : \A j \in S : i <= j
    BY <2>1, SmallestMember
  <2>3. i \in 0..n /\ k <= f[i] /\ i # 0
    BY <1>2, <2>2
  <2>4. i \in 1..n /\ i - 1 \in 0..n
    BY <2>3
  <2>5. ~(k <= f[i - 1])
    BY <2>2, <2>4
  <2>6. /\ fields[i].offset = f[i - 1] /\ f[i] = f[i - 1] + fields[i].width
        /\ f[i - 1] \in Nat /\ f[i] \in Nat /\ fields[i].width \in Nat
    BY <1>3, <1>4, <1>7, <2>4
  <2>7. k - fields[i].offset \in 1..fields[i].width
    BY <2>3, <2>5, <2>6, SMTT(60)
  <2>. QED
    BY <2>4, <2>7
<1>9. ASSUME NEW k \in 1..f[n], NEW i \in 1..n, NEW j \in 1..n,
             k - fields[i].offset \in 1..fields[i].width,
             k - fields[j].offset \in 1..fields[j].width
      PROVE  ~(i < j)
  <2>0. /\ fields[i].offset = f[i - 1] /\ f[i] = f[i - 1] + fields[i].width
        /\ fields[j].offset = f[j - 1]
        /\ f[i - 1] \in Nat /\ fields[i].width \in Nat /\ f[j - 1] \in Nat
        /\ fields[j].width \in Nat
    BY <1>3, <1>4, <1>7
  <2>1. k <= f[i] /\ f[j - 1] < k
    <3>1. k \in Int
      BY <1>4
    <3>2. k - f[i - 1] \in 1..fields[i].width /\ k - f[j - 1] \in 1..fields[j].width
      BY <1>9, <2>0, Zenon
    <3>3. k <= f[i - 1] + fields[i].width
      BY <2>0, <3>1, <3>2, Within, Zenon
    <3>4. f[j - 1] < k
      BY <2>0, <3>1, <3>2, Within, Zenon
    <3>. QED
      BY <2>0, <3>3, <3>4
  <2>2. i < j => f[i] <= f[j - 1]
    BY <1>5, <1>7
  <2>. QED
    BY <1>4, <1>7, <2>1, <2>2
<1>10. ASSUME NEW i \in 1..n
       PROVE  /\ fields[i].width \in Widths /\ fields[i].offset \in Nat
              /\ fields[i].offset + fields[i].width <= f[n]
  <2>1. f[i] <= f[n]
    BY <1>5, <1>7
  <2>. QED
    BY <1>4, <1>7, <2>1
<1>11. \A k \in 1..f[n] : \A i, j \in 1..n :
         /\ k - fields[i].offset \in 1..fields[i].width
         /\ k - fields[j].offset \in 1..fields[j].width
         => i = j
  <2> SUFFICES ASSUME NEW k \in 1..f[n], NEW i \in 1..n, NEW j \in 1..n,
                      k - fields[i].offset \in 1..fields[i].width,
                      k - fields[j].offset \in 1..fields[j].width
               PROVE  i = j
    BY Zenon
  <2>1. ~(i < j) /\ ~(j < i)
    BY <1>9
  <2>. QED
    BY <2>1
<1>12. f[n] \in Nat
  BY <1>4
<1>13. WellLaid(l)
  BY <1>6, <1>8, <1>10, <1>11, <1>12, Zenon DEF WellLaid
<1>. QED
  BY <1>1, <1>13 DEF l, fields

-----------------------------------------------------------------------------
(* What a decoder takes for a message is what an encoder makes of it.       *)

LEMMA WrittenAsRead ==
  ASSUME NEW l, WellLaid(l), NEW p \in Seq(Bytes), l.size <= Len(p), NEW m,
         \A i \in DOMAIN l.fields : m.fields[i] = Value(p, l.fields[i]),
         m.text = SubSeq(p, l.size + 1, Len(p))
  PROVE  Written(m, l) = p
<1> DEFINE Holds(i, k) == k - l.fields[i].offset \in 1..l.fields[i].width
           owner(k) == CHOOSE i \in DOMAIN l.fields : Holds(i, k)
           head == [k \in 1..l.size |->
                      ByteOf(m.fields[owner(k)], k - l.fields[owner(k)].offset)]
<1>1. \A k \in 1..l.size : owner(k) \in DOMAIN l.fields /\ Holds(owner(k), k)
  <2> SUFFICES ASSUME NEW k \in 1..l.size
               PROVE  owner(k) \in DOMAIN l.fields /\ Holds(owner(k), k)
    OBVIOUS
  <2>1. \E i \in DOMAIN l.fields : Holds(i, k)
    BY DEF WellLaid
  <2>. QED
    BY <2>1, Zenon
<1>2. Written(m, l) = head \o m.text
  BY DEF Written
<1>3. \A k \in 1..l.size : head[k] = p[k]
  <2> SUFFICES ASSUME NEW k \in 1..l.size PROVE head[k] = p[k]
    OBVIOUS
  <2> DEFINE i == owner(k)
             x == l.fields[i]
  <2>1. i \in DOMAIN l.fields /\ Holds(i, k)
    BY <1>1
  <2>2. head[k] = ByteOf(m.fields[i], k - x.offset)
    OBVIOUS
  <2> HIDE DEF i, head
  <2>3. x.width \in Widths /\ x.offset \in Nat /\ x.offset + x.width <= Len(p)
    <3>1. x.width \in Widths /\ x.offset \in Nat /\ x.offset + x.width <= l.size
      BY <2>1, Zenon DEF WellLaid
    <3>2. x.width \in Nat
      BY <3>1 DEF Widths
    <3>3. l.size \in Nat /\ Len(p) \in Nat
      BY DEF WellLaid
    <3> HIDE DEF x
    <3>. QED
      BY <3>1, <3>2, <3>3
  <2>4. m.fields[i] = Value(p, x)
    BY <2>1
  <2>5. k - x.offset \in 1..x.width
    BY <2>1
  <2> HIDE DEF x
  <2>6. ByteOf(Value(p, x), k - x.offset) = p[x.offset + (k - x.offset)]
    BY <2>3, <2>5, ByteOfValue
  <2>7. x.offset + (k - x.offset) = k
    BY <2>3
  <2>. QED
    BY <2>2, <2>4, <2>6, <2>7 DEF x
<1>4. l.size \in Nat
  BY DEF WellLaid
<1>5. head = [k \in 1..l.size |-> head[k]]
  OBVIOUS
<1> HIDE DEF head
<1>6. head = [k \in 1..l.size |-> p[k]]
  BY <1>3, <1>5
<1>7. [k \in 1..l.size |-> p[k]] = SubSeq(p, 1, l.size)
  BY <1>4
<1>8. SubSeq(p, 1, l.size) \o SubSeq(p, l.size + 1, Len(p)) = p
  <2> DEFINE n == l.size
  <2>1. n \in Nat /\ n <= Len(p) /\ Len(p) \in Nat
    BY <1>4
  <2> HIDE DEF n
  <2>2. SubSeq(p, 1, n) \o SubSeq(p, n + 1, Len(p)) = SubSeq(p, 1, Len(p))
    <3>1. 1 \in 1..(Len(p) + 1) /\ n \in (1 - 1)..Len(p) /\ Len(p) \in n..Len(p)
      BY <2>1
    <3>. QED
      BY <3>1, ConcatAdjacentSubSeq
  <2>3. SubSeq(p, 1, Len(p)) = p
    BY SubSeqFull
  <2>. QED
    BY <2>2, <2>3 DEF n
<1>. QED
  BY <1>2, <1>6, <1>7, <1>8

\* A layout is that of numbers written one after the other if each starts where
\* the one before it ends.
Chained(l, us) ==
  /\ l = Layout(l.size, l.fields)
  /\ Len(us) \in Nat \ {0}
  /\ l.fields = [i \in 1..Len(us) |-> At(l.fields[i].offset, us[i])]
  /\ \A i \in 1..Len(us) : us[i].width \in Widths
  /\ l.fields[1].offset = 0
  /\ \A i \in 1..(Len(us) - 1) :
       l.fields[i + 1].offset = l.fields[i].offset + us[i].width
  /\ l.size = l.fields[Len(us)].offset + us[Len(us)].width

LEMMA ChainedIsLaidOut ==
  ASSUME NEW l, NEW us, Chained(l, us)
  PROVE  l = OneAfterTheOther(us) /\ WellLaid(l)
<1> DEFINE n == Len(us)
           o(i) == l.fields[i].offset
<1>1. n \in Nat \ {0} /\ \A i \in 1..n : us[i].width \in Widths
  BY DEF Chained
<1> HIDE DEF n, o
<1>2. PICK f \in [0..n -> Nat] :
        /\ IsEnd(f, us)
        /\ OneAfterTheOther(us) = Layout(f[n], [i \in 1..n |-> At(f[i - 1], us[i])])
  BY <1>1, EndIs, Zenon DEF n
<1>3. \A i \in 0..n : f[i] = IF i = 0 THEN 0 ELSE f[i - 1] + us[i].width
  BY <1>2 DEF IsEnd, n
<1>4. /\ o(1) = 0 /\ \A i \in 1..(n - 1) : o(i + 1) = o(i) + us[i].width
      /\ l.size = o(n) + us[n].width
  BY Zenon DEF Chained, o, n
<1> DEFINE S == {i \in 0..(n - 1) : f[i] = o(i + 1)}
<1>5. 0 \in S
  BY <1>1, <1>3, <1>4
<1>6. ASSUME NEW i \in 0..((n - 1) - 1), i \in S PROVE i + 1 \in S
  <2>1. i + 1 \in 1..(n - 1) /\ i + 1 \in 0..n /\ (i + 1) - 1 = i
    BY <1>1
  <2>2. f[i + 1] = f[i] + us[i + 1].width
    BY <1>3, <2>1
  <2>3. o((i + 1) + 1) = o(i + 1) + us[i + 1].width
    BY <1>4, <2>1
  <2>4. f[i] = o(i + 1)
    BY <1>6
  <2>. QED
    BY <2>1, <2>2, <2>3, <2>4
<1> HIDE DEF S
<1>7. \A i \in 0..(n - 1) : i \in S
  <2>1. n - 1 \in Nat
    BY <1>1
  <2>. QED
    BY <1>5, <1>6, <2>1, CountUp
<1>8. \A i \in 1..n : f[i - 1] = o(i)
  <2> SUFFICES ASSUME NEW i \in 1..n PROVE f[i - 1] = o(i)
    OBVIOUS
  <2>1. i - 1 \in 0..(n - 1) /\ (i - 1) + 1 = i
    BY <1>1
  <2>2. f[i - 1] = o((i - 1) + 1)
    BY <1>7, <2>1 DEF S
  <2>. QED
    BY <2>1, <2>2
<1>9. f[n] = l.size
  <2>1. f[n] = f[n - 1] + us[n].width
    BY <1>1, <1>3
  <2>2. f[n - 1] = o(n)
    BY <1>1, <1>8
  <2>. QED
    BY <1>4, <2>1, <2>2
<1>10. l.fields = [i \in 1..n |-> At(f[i - 1], us[i])]
  <2>1. l.fields = [i \in 1..n |-> At(o(i), us[i])]
    BY Zenon DEF Chained, n, o
  <2>2. \A i \in 1..n : At(o(i), us[i]) = At(f[i - 1], us[i])
    BY <1>8
  <2>. QED
    BY <2>1, <2>2
<1>11. l = OneAfterTheOther(us)
  BY <1>2, <1>9, <1>10, Zenon DEF Chained
<1>12. WellLaid(OneAfterTheOther(us))
  BY <1>1, LaidOut DEF n
<1>. QED
  BY <1>11, <1>12, Zenon

LEMMA Chain1 ==
  ASSUME NEW a,
         a.width \in Widths,
         NEW o1 \in Nat,
         o1 = a.width
  PROVE  /\ Layout(o1, <<At(0, a)>>) = OneAfterTheOther(<<a>>)
         /\ WellLaid(Layout(o1, <<At(0, a)>>))
<1> DEFINE us == <<a>>
           fs == <<At(0, a)>>
           l  == Layout(o1, fs)
<1>1. Len(us) = 1 /\ us[1] = a
  OBVIOUS
<1>2. fs[1].offset = 0
  BY DEF At
<1>3. fs = [i \in 1..1 |-> At(fs[i].offset, us[i])]
  BY DEF At
<1>4. l.size = o1 /\ l.fields = fs /\ l = Layout(l.size, l.fields)
  BY DEF Layout
<1> HIDE DEF us, fs, l
<1>5. \A i \in 1..1 : us[i].width \in Widths
  <2>1. \A i \in 1..1 : i = 1
    OBVIOUS
  <2>. QED
    BY <1>1, <2>1, Zenon
<1>6. \A i \in 1..(1 - 1) : fs[i + 1].offset = fs[i].offset + us[i].width
  OBVIOUS
<1>7. o1 = fs[1].offset + us[1].width
  BY <1>1, <1>2 DEF Widths
<1>8. Chained(l, us)
  BY <1>1, <1>2, <1>3, <1>4, <1>5, <1>6, <1>7 DEF Chained
<1>. QED
  BY <1>8, ChainedIsLaidOut DEF l, fs, us

LEMMA Chain3 ==
  ASSUME NEW a, NEW b, NEW c,
         a.width \in Widths, b.width \in Widths, c.width \in Widths,
         NEW o1 \in Nat, NEW o2 \in Nat, NEW o3 \in Nat,
         o1 = a.width, o2 = o1 + b.width, o3 = o2 + c.width
  PROVE  /\ Layout(o3, <<At(0, a), At(o1, b), At(o2, c)>>) = OneAfterTheOther(<<a, b, c>>)
         /\ WellLaid(Layout(o3, <<At(0, a), At(o1, b), At(o2, c)>>))
<1> DEFINE us == <<a, b, c>>
           fs == <<At(0, a), At(o1, b), At(o2, c)>>
           l  == Layout(o3, fs)
<1>1. Len(us) = 3 /\ us[1] = a /\ us[2] = b /\ us[3] = c
  OBVIOUS
<1>2. fs[1].offset = 0 /\ fs[2].offset = o1 /\ fs[3].offset = o2
  BY DEF At
<1>3. fs = [i \in 1..3 |-> At(fs[i].offset, us[i])]
  BY DEF At
<1>4. l.size = o3 /\ l.fields = fs /\ l = Layout(l.size, l.fields)
  BY DEF Layout
<1> HIDE DEF us, fs, l
<1>5. \A i \in 1..3 : us[i].width \in Widths
  <2>1. \A i \in 1..3 : i = 1 \/ i = 2 \/ i = 3
    OBVIOUS
  <2>. QED
    BY <1>1, <2>1, Zenon
<1>6. \A i \in 1..(3 - 1) : fs[i + 1].offset = fs[i].offset + us[i].width
  <2>1. \A i \in 1..(3 - 1) : i = 1 \/ i = 2
    OBVIOUS
  <2>2. fs[2].offset = fs[1].offset + us[1].width
          /\ fs[3].offset = fs[2].offset + us[2].width
    BY <1>1, <1>2 DEF Widths
  <2>. QED
    BY <2>1, <2>2
<1>7. o3 = fs[3].offset + us[3].width
  BY <1>1, <1>2 DEF Widths
<1>8. Chained(l, us)
  BY <1>1, <1>2, <1>3, <1>4, <1>5, <1>6, <1>7 DEF Chained
<1>. QED
  BY <1>8, ChainedIsLaidOut DEF l, fs, us

LEMMA Chain4 ==
  ASSUME NEW a, NEW b, NEW c, NEW d,
         a.width \in Widths, b.width \in Widths, c.width \in Widths, d.width \in Widths,
         NEW o1 \in Nat, NEW o2 \in Nat, NEW o3 \in Nat, NEW o4 \in Nat,
         o1 = a.width, o2 = o1 + b.width, o3 = o2 + c.width, o4 = o3 + d.width
  PROVE  /\ Layout(o4, <<At(0, a), At(o1, b), At(o2, c), At(o3, d)>>)
              = OneAfterTheOther(<<a, b, c, d>>)
         /\ WellLaid(Layout(o4, <<At(0, a), At(o1, b), At(o2, c), At(o3, d)>>))
<1> DEFINE us == <<a, b, c, d>>
           fs == <<At(0, a), At(o1, b), At(o2, c), At(o3, d)>>
           l  == Layout(o4, fs)
<1>1. Len(us) = 4 /\ us[1] = a /\ us[2] = b /\ us[3] = c /\ us[4] = d
  OBVIOUS
<1>2. fs[1].offset = 0 /\ fs[2].offset = o1 /\ fs[3].offset = o2 /\ fs[4].offset = o3
  BY DEF At
<1>3. fs = [i \in 1..4 |-> At(fs[i].offset, us[i])]
  BY DEF At
<1>4. l.size = o4 /\ l.fields = fs /\ l = Layout(l.size, l.fields)
  BY DEF Layout
<1> HIDE DEF us, fs, l
<1>5. \A i \in 1..4 : us[i].width \in Widths
  <2>1. \A i \in 1..4 : i = 1 \/ i = 2 \/ i = 3 \/ i = 4
    OBVIOUS
  <2>. QED
    BY <1>1, <2>1, Zenon
<1>6. \A i \in 1..(4 - 1) : fs[i + 1].offset = fs[i].offset + us[i].width
  <2>1. \A i \in 1..(4 - 1) : i = 1 \/ i = 2 \/ i = 3
    OBVIOUS
  <2>2. fs[2].offset = fs[1].offset + us[1].width
          /\ fs[3].offset = fs[2].offset + us[2].width
          /\ fs[4].offset = fs[3].offset + us[3].width
    BY <1>1, <1>2 DEF Widths
  <2>. QED
    BY <2>1, <2>2
<1>7. o4 = fs[4].offset + us[4].width
  BY <1>1, <1>2 DEF Widths
<1>8. Chained(l, us)
  BY <1>1, <1>2, <1>3, <1>4, <1>5, <1>6, <1>7 DEF Chained
<1>. QED
  BY <1>8, ChainedIsLaidOut DEF l, fs, us

LEMMA Chain5 ==
  ASSUME NEW a, NEW b, NEW c, NEW d, NEW e,
         a.width \in Widths, b.width \in Widths, c.width \in Widths, d.width \in Widths,
           e.width \in Widths,
         NEW o1 \in Nat, NEW o2 \in Nat, NEW o3 \in Nat, NEW o4 \in Nat, NEW o5 \in Nat,
         o1 = a.width, o2 = o1 + b.width, o3 = o2 + c.width, o4 = o3 + d.width,
           o5 = o4 + e.width
  PROVE  /\ Layout(o5, <<At(0, a), At(o1, b), At(o2, c), At(o3, d), At(o4, e)>>)
              = OneAfterTheOther(<<a, b, c, d, e>>)
         /\ WellLaid(Layout(o5, <<At(0, a), At(o1, b), At(o2, c), At(o3, d), At(o4, e)>>))
<1> DEFINE us == <<a, b, c, d, e>>
           fs == <<At(0, a), At(o1, b), At(o2, c), At(o3, d), At(o4, e)>>
           l  == Layout(o5, fs)
<1>1. Len(us) = 5 /\ us[1] = a /\ us[2] = b /\ us[3] = c /\ us[4] = d /\ us[5] = e
  OBVIOUS
<1>2. fs[1].offset = 0 /\ fs[2].offset = o1 /\ fs[3].offset = o2 /\ fs[4].offset = o3
        /\ fs[5].offset = o4
  BY DEF At
<1>3. fs = [i \in 1..5 |-> At(fs[i].offset, us[i])]
  BY DEF At
<1>4. l.size = o5 /\ l.fields = fs /\ l = Layout(l.size, l.fields)
  BY DEF Layout
<1> HIDE DEF us, fs, l
<1>5. \A i \in 1..5 : us[i].width \in Widths
  <2>1. \A i \in 1..5 : i = 1 \/ i = 2 \/ i = 3 \/ i = 4 \/ i = 5
    OBVIOUS
  <2>. QED
    BY <1>1, <2>1, Zenon
<1>6. \A i \in 1..(5 - 1) : fs[i + 1].offset = fs[i].offset + us[i].width
  <2>1. \A i \in 1..(5 - 1) : i = 1 \/ i = 2 \/ i = 3 \/ i = 4
    OBVIOUS
  <2>2. fs[2].offset = fs[1].offset + us[1].width
          /\ fs[3].offset = fs[2].offset + us[2].width
          /\ fs[4].offset = fs[3].offset + us[3].width
          /\ fs[5].offset = fs[4].offset + us[4].width
    BY <1>1, <1>2 DEF Widths
  <2>. QED
    BY <2>1, <2>2
<1>7. o5 = fs[5].offset + us[5].width
  BY <1>1, <1>2 DEF Widths
<1>8. Chained(l, us)
  BY <1>1, <1>2, <1>3, <1>4, <1>5, <1>6, <1>7 DEF Chained
<1>. QED
  BY <1>8, ChainedIsLaidOut DEF l, fs, us

LEMMA Chain8 ==
  ASSUME NEW a, NEW b, NEW c, NEW d, NEW e, NEW f, NEW g, NEW h,
         a.width \in Widths, b.width \in Widths, c.width \in Widths, d.width \in Widths,
           e.width \in Widths, f.width \in Widths, g.width \in Widths, h.width \in Widths,
         NEW o1 \in Nat, NEW o2 \in Nat, NEW o3 \in Nat, NEW o4 \in Nat, NEW o5 \in Nat,
           NEW o6 \in Nat, NEW o7 \in Nat, NEW o8 \in Nat,
         o1 = a.width, o2 = o1 + b.width, o3 = o2 + c.width, o4 = o3 + d.width,
           o5 = o4 + e.width, o6 = o5 + f.width, o7 = o6 + g.width, o8 = o7 + h.width
  PROVE  /\ Layout(o8, <<At(0, a), At(o1, b), At(o2, c), At(o3, d), At(o4, e), At(o5, f),
              At(o6, g), At(o7, h)>>) = OneAfterTheOther(<<a, b, c, d, e, f, g, h>>)
         /\ WellLaid(Layout(o8, <<At(0, a), At(o1, b), At(o2, c), At(o3, d), At(o4, e),
              At(o5, f), At(o6, g), At(o7, h)>>))
<1> DEFINE us == <<a, b, c, d, e, f, g, h>>
           fs == <<At(0, a), At(o1, b), At(o2, c), At(o3, d), At(o4, e), At(o5, f),
             At(o6, g), At(o7, h)>>
           l  == Layout(o8, fs)
<1>1. Len(us) = 8 /\ us[1] = a /\ us[2] = b /\ us[3] = c /\ us[4] = d /\ us[5] = e
        /\ us[6] = f /\ us[7] = g /\ us[8] = h
  OBVIOUS
<1>2. fs[1].offset = 0 /\ fs[2].offset = o1 /\ fs[3].offset = o2 /\ fs[4].offset = o3
        /\ fs[5].offset = o4 /\ fs[6].offset = o5 /\ fs[7].offset = o6
        /\ fs[8].offset = o7
  BY DEF At
<1>3. fs = [i \in 1..8 |-> At(fs[i].offset, us[i])]
  BY DEF At
<1>4. l.size = o8 /\ l.fields = fs /\ l = Layout(l.size, l.fields)
  BY DEF Layout
<1> HIDE DEF us, fs, l
<1>5. \A i \in 1..8 : us[i].width \in Widths
  <2>1. \A i \in 1..8 : i = 1 \/ i = 2 \/ i = 3 \/ i = 4 \/ i = 5 \/ i = 6 \/ i = 7 \/ i = 8
    OBVIOUS
  <2>. QED
    BY <1>1, <2>1, Zenon
<1>6. \A i \in 1..(8 - 1) : fs[i + 1].offset = fs[i].offset + us[i].width
  <2>1. \A i \in 1..(8 - 1) : i = 1 \/ i = 2 \/ i = 3 \/ i = 4 \/ i = 5 \/ i = 6 \/ i = 7
    OBVIOUS
  <2>2. fs[2].offset = fs[1].offset + us[1].width
          /\ fs[3].offset = fs[2].offset + us[2].width
          /\ fs[4].offset = fs[3].offset + us[3].width
          /\ fs[5].offset = fs[4].offset + us[4].width
          /\ fs[6].offset = fs[5].offset + us[5].width
          /\ fs[7].offset = fs[6].offset + us[6].width
          /\ fs[8].offset = fs[7].offset + us[7].width
    BY <1>1, <1>2 DEF Widths
  <2>. QED
    BY <2>1, <2>2
<1>7. o8 = fs[8].offset + us[8].width
  BY <1>1, <1>2 DEF Widths
<1>8. Chained(l, us)
  <2>1. Len(us) = 8 /\ Len(us) \in Nat \ {0} /\ fs[1].offset = 0
    BY <1>1, <1>2
  <2>2. fs = [i \in 1..Len(us) |-> At(fs[i].offset, us[i])]
    BY <1>3, <2>1, Zenon
  <2>3. \A i \in 1..Len(us) : us[i].width \in Widths
    BY <1>5, <2>1, Zenon
  <2>4. \A i \in 1..(Len(us) - 1) : fs[i + 1].offset = fs[i].offset + us[i].width
    BY <1>6, <2>1, Zenon
  <2>5. l.size = fs[Len(us)].offset + us[Len(us)].width
    BY <1>4, <1>7, <2>1, Zenon
  <2>. QED
    BY <1>4, <2>1, <2>2, <2>3, <2>4, <2>5, Zenon DEF Chained
<1>. QED
  BY <1>8, ChainedIsLaidOut DEF l, fs, us


LEMMA NumberWidths ==
  /\ U8.width = 1 /\ U16.width = 2 /\ U32.width = 4
  /\ NonZero(U16).width = 2 /\ NonZero(U32).width = 4
  /\ \A n : UpTo(U8, n).width = 1 /\ UpTo(U16, n).width = 2
  /\ Reserved(U8).width = 1 /\ Reserved(U16).width = 2
  /\ \A m, n : Between(U16, m, n).width = 2
  BY DEF U8, U16, U32, Number, NonZero, UpTo, Between, Reserved

LEMMA TypesAre ==
  Types = {"HelloRequest", "HelloResponse", "SyncRequest", "SyncBegin", "OutputEndpoint",
    "InputEndpoint", "CurrentOutput", "CurrentInput", "SyncEnd", "SetOutputRequest",
    "SetInputRequest", "SetResult", "Ping", "Pong", "Error"}
  BY DEF Types, MessageType

LEMMA HelloRequestLaid ==
  /\ Layout(12, <<At(0, U8), At(1, U8), At(2, U32), At(6, U32), At(10, Reserved(U16))>>)
       = OneAfterTheOther(<<U8, U8, U32, U32, Reserved(U16)>>)
  /\ WellLaid(Layout(12, <<At(0, U8), At(1, U8), At(2, U32), At(6, U32), At(10,
       Reserved(U16))>>))
<1> DEFINE u1 == U8
           u2 == U8
           u3 == U32
           u4 == U32
           u5 == Reserved(U16)
<1>1. u1.width = 1 /\ u2.width = 1 /\ u3.width = 4 /\ u4.width = 4 /\ u5.width = 2
  BY NumberWidths
<1> HIDE DEF u1, u2, u3, u4, u5
<1>2. /\ u1.width \in Widths /\ u2.width \in Widths /\ u3.width \in Widths
           /\ u4.width \in Widths /\ u5.width \in Widths
      /\ 1 \in Nat /\ 2 \in Nat /\ 6 \in Nat /\ 10 \in Nat /\ 12 \in Nat
      /\ 1 = u1.width /\ 2 = 1 + u2.width /\ 6 = 2 + u3.width /\ 10 = 6 + u4.width
           /\ 12 = 10 + u5.width
  BY <1>1 DEF Widths
<1>3. /\ Layout(12, <<At(0, u1), At(1, u2), At(2, u3), At(6, u4), At(10, u5)>>)
        = OneAfterTheOther(<<u1, u2, u3, u4, u5>>)
      /\ WellLaid(Layout(12, <<At(0, u1), At(1, u2), At(2, u3), At(6, u4), At(10, u5)>>))
  BY <1>2, Chain5, Zenon
<1>. QED
  BY <1>3, Zenon DEF u1, u2, u3, u4, u5

LEMMA HelloResponseLaid ==
  /\ Layout(20, <<At(0, U8), At(1, U8), At(2, U16), At(4, U16), At(6, U16), At(8, U32),
       At(12, U32), At(16, U32)>>)
       = OneAfterTheOther(<<U8, U8, U16, U16, U16, U32, U32, U32>>)
  /\ WellLaid(Layout(20, <<At(0, U8), At(1, U8), At(2, U16), At(4, U16), At(6, U16),
       At(8, U32), At(12, U32), At(16, U32)>>))
<1> DEFINE u1 == U8
           u2 == U8
           u3 == U16
           u4 == U16
           u5 == U16
           u6 == U32
           u7 == U32
           u8 == U32
<1>1. u1.width = 1 /\ u2.width = 1 /\ u3.width = 2 /\ u4.width = 2 /\ u5.width = 2
        /\ u6.width = 4 /\ u7.width = 4 /\ u8.width = 4
  BY NumberWidths
<1> HIDE DEF u1, u2, u3, u4, u5, u6, u7, u8
<1>2. /\ u1.width \in Widths /\ u2.width \in Widths /\ u3.width \in Widths
           /\ u4.width \in Widths /\ u5.width \in Widths /\ u6.width \in Widths
           /\ u7.width \in Widths /\ u8.width \in Widths
      /\ 1 \in Nat /\ 2 \in Nat /\ 4 \in Nat /\ 6 \in Nat /\ 8 \in Nat /\ 12 \in Nat
           /\ 16 \in Nat /\ 20 \in Nat
      /\ 1 = u1.width /\ 2 = 1 + u2.width /\ 4 = 2 + u3.width /\ 6 = 4 + u4.width
           /\ 8 = 6 + u5.width /\ 12 = 8 + u6.width /\ 16 = 12 + u7.width
           /\ 20 = 16 + u8.width
  BY <1>1 DEF Widths
<1>3. /\ Layout(20, <<At(0, u1), At(1, u2), At(2, u3), At(4, u4), At(6, u5), At(8, u6),
           At(12, u7), At(16, u8)>>)
        = OneAfterTheOther(<<u1, u2, u3, u4, u5, u6, u7, u8>>)
      /\ WellLaid(Layout(20, <<At(0, u1), At(1, u2), At(2, u3), At(4, u4), At(6, u5),
           At(8, u6), At(12, u7), At(16, u8)>>))
  BY <1>2, Chain8, Zenon
<1>. QED
  BY <1>3, Zenon DEF u1, u2, u3, u4, u5, u6, u7, u8

LEMMA SyncRequestLaid ==
  /\ Layout(1, <<At(0, UpTo(U8, 2))>>)
       = OneAfterTheOther(<<UpTo(U8, 2)>>)
  /\ WellLaid(Layout(1, <<At(0, UpTo(U8, 2))>>))
<1> DEFINE u1 == UpTo(U8, 2)
<1>1. u1.width = 1
  BY NumberWidths
<1> HIDE DEF u1
<1>2. /\ u1.width \in Widths
      /\ 1 \in Nat
      /\ 1 = u1.width
  BY <1>1 DEF Widths
<1>3. /\ Layout(1, <<At(0, u1)>>)
        = OneAfterTheOther(<<u1>>)
      /\ WellLaid(Layout(1, <<At(0, u1)>>))
  BY <1>2, Chain1, Zenon
<1>. QED
  BY <1>3, Zenon DEF u1

LEMMA SyncBeginLaid ==
  /\ Layout(8, <<At(0, NonZero(U32)), At(4, UpTo(U16, 64)), At(6, UpTo(U16, 64))>>)
       = OneAfterTheOther(<<NonZero(U32), UpTo(U16, 64), UpTo(U16, 64)>>)
  /\ WellLaid(Layout(8, <<At(0, NonZero(U32)), At(4, UpTo(U16, 64)), At(6, UpTo(U16,
       64))>>))
<1> DEFINE u1 == NonZero(U32)
           u2 == UpTo(U16, 64)
           u3 == UpTo(U16, 64)
<1>1. u1.width = 4 /\ u2.width = 2 /\ u3.width = 2
  BY NumberWidths
<1> HIDE DEF u1, u2, u3
<1>2. /\ u1.width \in Widths /\ u2.width \in Widths /\ u3.width \in Widths
      /\ 4 \in Nat /\ 6 \in Nat /\ 8 \in Nat
      /\ 4 = u1.width /\ 6 = 4 + u2.width /\ 8 = 6 + u3.width
  BY <1>1 DEF Widths
<1>3. /\ Layout(8, <<At(0, u1), At(4, u2), At(6, u3)>>)
        = OneAfterTheOther(<<u1, u2, u3>>)
      /\ WellLaid(Layout(8, <<At(0, u1), At(4, u2), At(6, u3)>>))
  BY <1>2, Chain3, Zenon
<1>. QED
  BY <1>3, Zenon DEF u1, u2, u3

LEMMA EndpointLaid ==
  /\ Layout(8, <<At(0, NonZero(U32)), At(4, NonZero(U16)), At(6, Between(U16, 1,
       MaximumText))>>)
       = OneAfterTheOther(<<NonZero(U32), NonZero(U16), Between(U16, 1, MaximumText)>>)
  /\ WellLaid(Layout(8, <<At(0, NonZero(U32)), At(4, NonZero(U16)), At(6, Between(U16, 1,
       MaximumText))>>))
<1> DEFINE u1 == NonZero(U32)
           u2 == NonZero(U16)
           u3 == Between(U16, 1, MaximumText)
<1>1. u1.width = 4 /\ u2.width = 2 /\ u3.width = 2
  BY NumberWidths
<1> HIDE DEF u1, u2, u3
<1>2. /\ u1.width \in Widths /\ u2.width \in Widths /\ u3.width \in Widths
      /\ 4 \in Nat /\ 6 \in Nat /\ 8 \in Nat
      /\ 4 = u1.width /\ 6 = 4 + u2.width /\ 8 = 6 + u3.width
  BY <1>1 DEF Widths
<1>3. /\ Layout(8, <<At(0, u1), At(4, u2), At(6, u3)>>)
        = OneAfterTheOther(<<u1, u2, u3>>)
      /\ WellLaid(Layout(8, <<At(0, u1), At(4, u2), At(6, u3)>>))
  BY <1>2, Chain3, Zenon
<1>. QED
  BY <1>3, Zenon DEF u1, u2, u3

LEMMA RolesLaid ==
  /\ Layout(10, <<At(0, NonZero(U32)), At(4, U16), At(6, U16), At(8, U16)>>)
       = OneAfterTheOther(<<NonZero(U32), U16, U16, U16>>)
  /\ WellLaid(Layout(10, <<At(0, NonZero(U32)), At(4, U16), At(6, U16), At(8, U16)>>))
<1> DEFINE u1 == NonZero(U32)
           u2 == U16
           u3 == U16
           u4 == U16
<1>1. u1.width = 4 /\ u2.width = 2 /\ u3.width = 2 /\ u4.width = 2
  BY NumberWidths
<1> HIDE DEF u1, u2, u3, u4
<1>2. /\ u1.width \in Widths /\ u2.width \in Widths /\ u3.width \in Widths
           /\ u4.width \in Widths
      /\ 4 \in Nat /\ 6 \in Nat /\ 8 \in Nat /\ 10 \in Nat
      /\ 4 = u1.width /\ 6 = 4 + u2.width /\ 8 = 6 + u3.width /\ 10 = 8 + u4.width
  BY <1>1 DEF Widths
<1>3. /\ Layout(10, <<At(0, u1), At(4, u2), At(6, u3), At(8, u4)>>)
        = OneAfterTheOther(<<u1, u2, u3, u4>>)
      /\ WellLaid(Layout(10, <<At(0, u1), At(4, u2), At(6, u3), At(8, u4)>>))
  BY <1>2, Chain4, Zenon
<1>. QED
  BY <1>3, Zenon DEF u1, u2, u3, u4

LEMMA SyncEndLaid ==
  /\ Layout(4, <<At(0, NonZero(U32))>>)
       = OneAfterTheOther(<<NonZero(U32)>>)
  /\ WellLaid(Layout(4, <<At(0, NonZero(U32))>>))
<1> DEFINE u1 == NonZero(U32)
<1>1. u1.width = 4
  BY NumberWidths
<1> HIDE DEF u1
<1>2. /\ u1.width \in Widths
      /\ 4 \in Nat
      /\ 4 = u1.width
  BY <1>1 DEF Widths
<1>3. /\ Layout(4, <<At(0, u1)>>)
        = OneAfterTheOther(<<u1>>)
      /\ WellLaid(Layout(4, <<At(0, u1)>>))
  BY <1>2, Chain1, Zenon
<1>. QED
  BY <1>3, Zenon DEF u1

LEMMA SetRequestLaid ==
  /\ Layout(10, <<At(0, NonZero(U32)), At(4, NonZero(U32)), At(8, NonZero(U16))>>)
       = OneAfterTheOther(<<NonZero(U32), NonZero(U32), NonZero(U16)>>)
  /\ WellLaid(Layout(10, <<At(0, NonZero(U32)), At(4, NonZero(U32)), At(8, NonZero(U16))>>))
<1> DEFINE u1 == NonZero(U32)
           u2 == NonZero(U32)
           u3 == NonZero(U16)
<1>1. u1.width = 4 /\ u2.width = 4 /\ u3.width = 2
  BY NumberWidths
<1> HIDE DEF u1, u2, u3
<1>2. /\ u1.width \in Widths /\ u2.width \in Widths /\ u3.width \in Widths
      /\ 4 \in Nat /\ 8 \in Nat /\ 10 \in Nat
      /\ 4 = u1.width /\ 8 = 4 + u2.width /\ 10 = 8 + u3.width
  BY <1>1 DEF Widths
<1>3. /\ Layout(10, <<At(0, u1), At(4, u2), At(8, u3)>>)
        = OneAfterTheOther(<<u1, u2, u3>>)
      /\ WellLaid(Layout(10, <<At(0, u1), At(4, u2), At(8, u3)>>))
  BY <1>2, Chain3, Zenon
<1>. QED
  BY <1>3, Zenon DEF u1, u2, u3

LEMMA SetResultLaid ==
  /\ Layout(12, <<At(0, NonZero(U32)), At(4, UpTo(U8, 1)), At(5, UpTo(U8, 4)), At(6,
       U16), At(8, NonZero(U32))>>)
       = OneAfterTheOther(<<NonZero(U32), UpTo(U8, 1), UpTo(U8, 4), U16, NonZero(U32)>>)
  /\ WellLaid(Layout(12, <<At(0, NonZero(U32)), At(4, UpTo(U8, 1)), At(5, UpTo(U8, 4)),
       At(6, U16), At(8, NonZero(U32))>>))
<1> DEFINE u1 == NonZero(U32)
           u2 == UpTo(U8, 1)
           u3 == UpTo(U8, 4)
           u4 == U16
           u5 == NonZero(U32)
<1>1. u1.width = 4 /\ u2.width = 1 /\ u3.width = 1 /\ u4.width = 2 /\ u5.width = 4
  BY NumberWidths
<1> HIDE DEF u1, u2, u3, u4, u5
<1>2. /\ u1.width \in Widths /\ u2.width \in Widths /\ u3.width \in Widths
           /\ u4.width \in Widths /\ u5.width \in Widths
      /\ 4 \in Nat /\ 5 \in Nat /\ 6 \in Nat /\ 8 \in Nat /\ 12 \in Nat
      /\ 4 = u1.width /\ 5 = 4 + u2.width /\ 6 = 5 + u3.width /\ 8 = 6 + u4.width
           /\ 12 = 8 + u5.width
  BY <1>1 DEF Widths
<1>3. /\ Layout(12, <<At(0, u1), At(4, u2), At(5, u3), At(6, u4), At(8, u5)>>)
        = OneAfterTheOther(<<u1, u2, u3, u4, u5>>)
      /\ WellLaid(Layout(12, <<At(0, u1), At(4, u2), At(5, u3), At(6, u4), At(8, u5)>>))
  BY <1>2, Chain5, Zenon
<1>. QED
  BY <1>3, Zenon DEF u1, u2, u3, u4, u5

LEMMA PingLaid ==
  /\ Layout(4, <<At(0, U32)>>)
       = OneAfterTheOther(<<U32>>)
  /\ WellLaid(Layout(4, <<At(0, U32)>>))
<1> DEFINE u1 == U32
<1>1. u1.width = 4
  BY NumberWidths
<1> HIDE DEF u1
<1>2. /\ u1.width \in Widths
      /\ 4 \in Nat
      /\ 4 = u1.width
  BY <1>1 DEF Widths
<1>3. /\ Layout(4, <<At(0, u1)>>)
        = OneAfterTheOther(<<u1>>)
      /\ WellLaid(Layout(4, <<At(0, u1)>>))
  BY <1>2, Chain1, Zenon
<1>. QED
  BY <1>3, Zenon DEF u1

LEMMA ErrorLaid ==
  /\ Layout(10, <<At(0, Between(U16, 1, 16)), At(2, U8), At(3, Reserved(U8)), At(4, U32),
       At(8, UpTo(U16, MaximumText))>>)
       = OneAfterTheOther(<<Between(U16, 1, 16), U8, Reserved(U8), U32, UpTo(U16,
         MaximumText)>>)
  /\ WellLaid(Layout(10, <<At(0, Between(U16, 1, 16)), At(2, U8), At(3, Reserved(U8)),
       At(4, U32), At(8, UpTo(U16, MaximumText))>>))
<1> DEFINE u1 == Between(U16, 1, 16)
           u2 == U8
           u3 == Reserved(U8)
           u4 == U32
           u5 == UpTo(U16, MaximumText)
<1>1. u1.width = 2 /\ u2.width = 1 /\ u3.width = 1 /\ u4.width = 4 /\ u5.width = 2
  BY NumberWidths
<1> HIDE DEF u1, u2, u3, u4, u5
<1>2. /\ u1.width \in Widths /\ u2.width \in Widths /\ u3.width \in Widths
           /\ u4.width \in Widths /\ u5.width \in Widths
      /\ 2 \in Nat /\ 3 \in Nat /\ 4 \in Nat /\ 8 \in Nat /\ 10 \in Nat
      /\ 2 = u1.width /\ 3 = 2 + u2.width /\ 4 = 3 + u3.width /\ 8 = 4 + u4.width
           /\ 10 = 8 + u5.width
  BY <1>1 DEF Widths
<1>3. /\ Layout(10, <<At(0, u1), At(2, u2), At(3, u3), At(4, u4), At(8, u5)>>)
        = OneAfterTheOther(<<u1, u2, u3, u4, u5>>)
      /\ WellLaid(Layout(10, <<At(0, u1), At(2, u2), At(3, u3), At(4, u4), At(8, u5)>>))
  BY <1>2, Chain5, Zenon
<1>. QED
  BY <1>3, Zenon DEF u1, u2, u3, u4, u5

Agree(t) ==
  /\ HostReads[t] = OneAfterTheOther(HostWrites[t])
  /\ FirmwareReads[t] = OneAfterTheOther(HostWrites[t])
  /\ WellLaid(OneAfterTheOther(HostWrites[t]))

\* The four tables are one: what either program writes is laid out as the other
\* reads it.
LEMMA TablesAgree == \A t \in Types : Agree(t)
<1>1. Agree("HelloRequest")
  <2>1. /\ HostReads["HelloRequest"] = Layout(12, <<At(0, U8), At(1, U8), At(2, U32),
             At(6, U32), At(10, Reserved(U16))>>)
        /\ FirmwareReads["HelloRequest"] = Layout(12, <<At(0, U8), At(1, U8), At(2, U32),
             At(6, U32), At(10, Reserved(U16))>>)
        /\ HostWrites["HelloRequest"] = <<U8, U8, U32, U32, Reserved(U16)>>
    BY DEF HostReads, FirmwareReads, HostWrites, HostReadsEndpoint, HostReadsRoles,
      HostReadsSetRequest, HostWritesEndpoint, HostWritesRoles, HostWritesSetRequest,
      FirmwareEndpoint, MaximumEndpoints
  <2>. QED
    BY <2>1, HelloRequestLaid, Zenon DEF Agree
<1>2. Agree("HelloResponse")
  <2>1. /\ HostReads["HelloResponse"] = Layout(20, <<At(0, U8), At(1, U8), At(2, U16),
             At(4, U16), At(6, U16), At(8, U32), At(12, U32), At(16, U32)>>)
        /\ FirmwareReads["HelloResponse"] = Layout(20, <<At(0, U8), At(1, U8), At(2,
             U16), At(4, U16), At(6, U16), At(8, U32), At(12, U32), At(16, U32)>>)
        /\ HostWrites["HelloResponse"] = <<U8, U8, U16, U16, U16, U32, U32, U32>>
    BY DEF HostReads, FirmwareReads, HostWrites, HostReadsEndpoint, HostReadsRoles,
      HostReadsSetRequest, HostWritesEndpoint, HostWritesRoles, HostWritesSetRequest,
      FirmwareEndpoint, MaximumEndpoints
  <2>. QED
    BY <2>1, HelloResponseLaid, Zenon DEF Agree
<1>3. Agree("SyncRequest")
  <2>1. /\ HostReads["SyncRequest"] = Layout(1, <<At(0, UpTo(U8, 2))>>)
        /\ FirmwareReads["SyncRequest"] = Layout(1, <<At(0, UpTo(U8, 2))>>)
        /\ HostWrites["SyncRequest"] = <<UpTo(U8, 2)>>
    BY DEF HostReads, FirmwareReads, HostWrites, HostReadsEndpoint, HostReadsRoles,
      HostReadsSetRequest, HostWritesEndpoint, HostWritesRoles, HostWritesSetRequest,
      FirmwareEndpoint, MaximumEndpoints
  <2>. QED
    BY <2>1, SyncRequestLaid, Zenon DEF Agree
<1>4. Agree("SyncBegin")
  <2>1. /\ HostReads["SyncBegin"] = Layout(8, <<At(0, NonZero(U32)), At(4, UpTo(U16,
             64)), At(6, UpTo(U16, 64))>>)
        /\ FirmwareReads["SyncBegin"] = Layout(8, <<At(0, NonZero(U32)), At(4, UpTo(U16,
             64)), At(6, UpTo(U16, 64))>>)
        /\ HostWrites["SyncBegin"] = <<NonZero(U32), UpTo(U16, 64), UpTo(U16, 64)>>
    BY DEF HostReads, FirmwareReads, HostWrites, HostReadsEndpoint, HostReadsRoles,
      HostReadsSetRequest, HostWritesEndpoint, HostWritesRoles, HostWritesSetRequest,
      FirmwareEndpoint, MaximumEndpoints
  <2>. QED
    BY <2>1, SyncBeginLaid, Zenon DEF Agree
<1>5. Agree("OutputEndpoint")
  <2>1. /\ HostReads["OutputEndpoint"] = Layout(8, <<At(0, NonZero(U32)), At(4,
             NonZero(U16)), At(6, Between(U16, 1, MaximumText))>>)
        /\ FirmwareReads["OutputEndpoint"] = Layout(8, <<At(0, NonZero(U32)), At(4,
             NonZero(U16)), At(6, Between(U16, 1, MaximumText))>>)
        /\ HostWrites["OutputEndpoint"] = <<NonZero(U32), NonZero(U16), Between(U16, 1,
             MaximumText)>>
    BY DEF HostReads, FirmwareReads, HostWrites, HostReadsEndpoint, HostReadsRoles,
      HostReadsSetRequest, HostWritesEndpoint, HostWritesRoles, HostWritesSetRequest,
      FirmwareEndpoint, MaximumEndpoints
  <2>. QED
    BY <2>1, EndpointLaid, Zenon DEF Agree
<1>6. Agree("InputEndpoint")
  <2>1. /\ HostReads["InputEndpoint"] = Layout(8, <<At(0, NonZero(U32)), At(4,
             NonZero(U16)), At(6, Between(U16, 1, MaximumText))>>)
        /\ FirmwareReads["InputEndpoint"] = Layout(8, <<At(0, NonZero(U32)), At(4,
             NonZero(U16)), At(6, Between(U16, 1, MaximumText))>>)
        /\ HostWrites["InputEndpoint"] = <<NonZero(U32), NonZero(U16), Between(U16, 1,
             MaximumText)>>
    BY DEF HostReads, FirmwareReads, HostWrites, HostReadsEndpoint, HostReadsRoles,
      HostReadsSetRequest, HostWritesEndpoint, HostWritesRoles, HostWritesSetRequest,
      FirmwareEndpoint, MaximumEndpoints
  <2>. QED
    BY <2>1, EndpointLaid, Zenon DEF Agree
<1>7. Agree("CurrentOutput")
  <2>1. /\ HostReads["CurrentOutput"] = Layout(10, <<At(0, NonZero(U32)), At(4, U16),
             At(6, U16), At(8, U16)>>)
        /\ FirmwareReads["CurrentOutput"] = Layout(10, <<At(0, NonZero(U32)), At(4, U16),
             At(6, U16), At(8, U16)>>)
        /\ HostWrites["CurrentOutput"] = <<NonZero(U32), U16, U16, U16>>
    BY DEF HostReads, FirmwareReads, HostWrites, HostReadsEndpoint, HostReadsRoles,
      HostReadsSetRequest, HostWritesEndpoint, HostWritesRoles, HostWritesSetRequest,
      FirmwareEndpoint, MaximumEndpoints
  <2>. QED
    BY <2>1, RolesLaid, Zenon DEF Agree
<1>8. Agree("CurrentInput")
  <2>1. /\ HostReads["CurrentInput"] = Layout(10, <<At(0, NonZero(U32)), At(4, U16),
             At(6, U16), At(8, U16)>>)
        /\ FirmwareReads["CurrentInput"] = Layout(10, <<At(0, NonZero(U32)), At(4, U16),
             At(6, U16), At(8, U16)>>)
        /\ HostWrites["CurrentInput"] = <<NonZero(U32), U16, U16, U16>>
    BY DEF HostReads, FirmwareReads, HostWrites, HostReadsEndpoint, HostReadsRoles,
      HostReadsSetRequest, HostWritesEndpoint, HostWritesRoles, HostWritesSetRequest,
      FirmwareEndpoint, MaximumEndpoints
  <2>. QED
    BY <2>1, RolesLaid, Zenon DEF Agree
<1>9. Agree("SyncEnd")
  <2>1. /\ HostReads["SyncEnd"] = Layout(4, <<At(0, NonZero(U32))>>)
        /\ FirmwareReads["SyncEnd"] = Layout(4, <<At(0, NonZero(U32))>>)
        /\ HostWrites["SyncEnd"] = <<NonZero(U32)>>
    BY DEF HostReads, FirmwareReads, HostWrites, HostReadsEndpoint, HostReadsRoles,
      HostReadsSetRequest, HostWritesEndpoint, HostWritesRoles, HostWritesSetRequest,
      FirmwareEndpoint, MaximumEndpoints
  <2>. QED
    BY <2>1, SyncEndLaid, Zenon DEF Agree
<1>10. Agree("SetOutputRequest")
  <2>1. /\ HostReads["SetOutputRequest"] = Layout(10, <<At(0, NonZero(U32)), At(4,
             NonZero(U32)), At(8, NonZero(U16))>>)
        /\ FirmwareReads["SetOutputRequest"] = Layout(10, <<At(0, NonZero(U32)), At(4,
             NonZero(U32)), At(8, NonZero(U16))>>)
        /\ HostWrites["SetOutputRequest"] = <<NonZero(U32), NonZero(U32), NonZero(U16)>>
    BY DEF HostReads, FirmwareReads, HostWrites, HostReadsEndpoint, HostReadsRoles,
      HostReadsSetRequest, HostWritesEndpoint, HostWritesRoles, HostWritesSetRequest,
      FirmwareEndpoint, MaximumEndpoints
  <2>. QED
    BY <2>1, SetRequestLaid, Zenon DEF Agree
<1>11. Agree("SetInputRequest")
  <2>1. /\ HostReads["SetInputRequest"] = Layout(10, <<At(0, NonZero(U32)), At(4,
             NonZero(U32)), At(8, NonZero(U16))>>)
        /\ FirmwareReads["SetInputRequest"] = Layout(10, <<At(0, NonZero(U32)), At(4,
             NonZero(U32)), At(8, NonZero(U16))>>)
        /\ HostWrites["SetInputRequest"] = <<NonZero(U32), NonZero(U32), NonZero(U16)>>
    BY DEF HostReads, FirmwareReads, HostWrites, HostReadsEndpoint, HostReadsRoles,
      HostReadsSetRequest, HostWritesEndpoint, HostWritesRoles, HostWritesSetRequest,
      FirmwareEndpoint, MaximumEndpoints
  <2>. QED
    BY <2>1, SetRequestLaid, Zenon DEF Agree
<1>12. Agree("SetResult")
  <2>1. /\ HostReads["SetResult"] = Layout(12, <<At(0, NonZero(U32)), At(4, UpTo(U8, 1)),
             At(5, UpTo(U8, 4)), At(6, U16), At(8, NonZero(U32))>>)
        /\ FirmwareReads["SetResult"] = Layout(12, <<At(0, NonZero(U32)), At(4, UpTo(U8,
             1)), At(5, UpTo(U8, 4)), At(6, U16), At(8, NonZero(U32))>>)
        /\ HostWrites["SetResult"] = <<NonZero(U32), UpTo(U8, 1), UpTo(U8, 4), U16,
             NonZero(U32)>>
    BY DEF HostReads, FirmwareReads, HostWrites, HostReadsEndpoint, HostReadsRoles,
      HostReadsSetRequest, HostWritesEndpoint, HostWritesRoles, HostWritesSetRequest,
      FirmwareEndpoint, MaximumEndpoints
  <2>. QED
    BY <2>1, SetResultLaid, Zenon DEF Agree
<1>13. Agree("Ping")
  <2>1. /\ HostReads["Ping"] = Layout(4, <<At(0, U32)>>)
        /\ FirmwareReads["Ping"] = Layout(4, <<At(0, U32)>>)
        /\ HostWrites["Ping"] = <<U32>>
    BY DEF HostReads, FirmwareReads, HostWrites, HostReadsEndpoint, HostReadsRoles,
      HostReadsSetRequest, HostWritesEndpoint, HostWritesRoles, HostWritesSetRequest,
      FirmwareEndpoint, MaximumEndpoints
  <2>. QED
    BY <2>1, PingLaid, Zenon DEF Agree
<1>14. Agree("Pong")
  <2>1. /\ HostReads["Pong"] = Layout(4, <<At(0, U32)>>)
        /\ FirmwareReads["Pong"] = Layout(4, <<At(0, U32)>>)
        /\ HostWrites["Pong"] = <<U32>>
    BY DEF HostReads, FirmwareReads, HostWrites, HostReadsEndpoint, HostReadsRoles,
      HostReadsSetRequest, HostWritesEndpoint, HostWritesRoles, HostWritesSetRequest,
      FirmwareEndpoint, MaximumEndpoints
  <2>. QED
    BY <2>1, PingLaid, Zenon DEF Agree
<1>15. Agree("Error")
  <2>1. /\ HostReads["Error"] = Layout(10, <<At(0, Between(U16, 1, 16)), At(2, U8), At(3,
             Reserved(U8)), At(4, U32), At(8, UpTo(U16, MaximumText))>>)
        /\ FirmwareReads["Error"] = Layout(10, <<At(0, Between(U16, 1, 16)), At(2, U8),
             At(3, Reserved(U8)), At(4, U32), At(8, UpTo(U16, MaximumText))>>)
        /\ HostWrites["Error"] = <<Between(U16, 1, 16), U8, Reserved(U8), U32, UpTo(U16,
             MaximumText)>>
    BY DEF HostReads, FirmwareReads, HostWrites, HostReadsEndpoint, HostReadsRoles,
      HostReadsSetRequest, HostWritesEndpoint, HostWritesRoles, HostWritesSetRequest,
      FirmwareEndpoint, MaximumEndpoints
  <2>. QED
    BY <2>1, ErrorLaid, Zenon DEF Agree
<1>. QED
  BY <1>1, <1>2, <1>3, <1>4, <1>5, <1>6, <1>7, <1>8, <1>9, <1>10, <1>11, <1>12, <1>13,
       <1>14, <1>15, TypesAre

LEMMA DecodedIsEncoded ==
  ASSUME NEW frame \in Frame, Len(frame.payload) <= MaximumPayloadLength,
         NEW Layouts, \A t \in Types : WellLaid(Layouts[t]),
         NEW m, m = Decode(frame, Layouts), m # NoMessage
  PROVE  m.type \in Types /\ Encode(m, Layouts[m.type]) = frame
<1> DEFINE known  == {t \in Types : MessageType[t] = frame.type}
           type   == CHOOSE t \in known : TRUE
           l      == Layouts[type]
           p      == frame.payload
           values == [i \in DOMAIN l.fields |-> Value(p, l.fields[i])]
           text   == SubSeq(p, l.size + 1, Len(p))
           sound  == /\ frame.version = Version /\ known # {}
                     /\ Len(p) >= l.size
                     /\ Len(text) = TextLength(type, values)
                     /\ Valid(type, values, l) /\ WellFormed(text)
<1>1. Decode(frame, Layouts) = IF sound THEN [type |-> type, fields |-> values,
        text |-> text]
                               ELSE NoMessage
  BY DEF Decode
<1>2. sound /\ m = [type |-> type, fields |-> values, text |-> text]
  <2> HIDE DEF sound, type, values, text
  <2>. QED
    BY <1>1
<1>3. type \in Types /\ MessageType[type] = frame.type
  <2>1. \E t : t \in known
    BY <1>2
  <2>. QED
    BY <2>1, Zenon
<1>4. p \in Seq(Bytes) /\ frame = [version |-> frame.version, type |-> frame.type,
        payload |-> p]
  BY DEF Frame
<1> HIDE DEF known, type, p
<1>5. m.type = type /\ m.fields = values /\ m.text = text
  <2> HIDE DEF sound, values, text
  <2>. QED
    BY <1>2
<1>6. WellLaid(l) /\ l.size <= Len(p)
  <2>1. WellLaid(l)
    BY <1>3
  <2>2. l.size \in Nat /\ Len(p) \in Nat
    BY <1>4, <2>1 DEF WellLaid
  <2>. QED
    BY <1>2, <2>1, <2>2
<1>7. \A i \in DOMAIN l.fields : m.fields[i] = Value(p, l.fields[i])
  BY <1>5
<1> HIDE DEF values, l
<1>8. Written(m, l) = p
  BY <1>4, <1>5, <1>6, <1>7, WrittenAsRead, Zenon
<1> HIDE DEF text
<1>9. Encode(m, l) = Framed(Version, MessageType[m.type], p)
  <2>1. Valid(m.type, m.fields, l) /\ WellFormed(m.text)
        /\ Len(m.text) = TextLength(m.type, m.fields)
    BY <1>2, <1>5, Zenon
  <2>. QED
    BY <1>8, <2>1, Zenon DEF Encode
<1>10. Framed(Version, MessageType[m.type], p) = frame
  <2>1. ~(Len(p) > MaximumPayloadLength)
    BY <1>4, FrameAssumption DEF p
  <2>. QED
    BY <1>2, <1>3, <1>4, <1>5, <2>1 DEF Framed
<1>. QED
  BY <1>3, <1>5, <1>9, <1>10, Zenon DEF l

\* For any frame at all.
LEMMA FramesComeBack ==
  ASSUME NEW frame \in Frame, Len(frame.payload) <= MaximumPayloadLength
  PROVE  /\ HostDecode(frame) # NoMessage => FirmwareEncode(HostDecode(frame)) = frame
         /\ FirmwareDecode(frame) # NoMessage => HostEncode(FirmwareDecode(frame)) = frame
<1>1. ASSUME HostDecode(frame) # NoMessage
      PROVE  FirmwareEncode(HostDecode(frame)) = frame
  <2> DEFINE m == HostDecode(frame)
  <2>1. \A t \in Types : WellLaid(HostReads[t])
    BY TablesAgree, Zenon DEF Agree
  <2>2. m.type \in Types /\ Encode(m, HostReads[m.type]) = frame
    BY <1>1, <2>1, DecodedIsEncoded, Zenon DEF HostDecode
  <2> HIDE DEF m
  <2>3. Agree(m.type)
    BY <2>2, TablesAgree
  <2>4. HostReads[m.type] = FirmwareReads[m.type]
    BY <2>3, Zenon DEF Agree
  <2>. QED
    BY <2>2, <2>4, Zenon DEF FirmwareEncode, FirmwareWrites, m
<1>2. ASSUME FirmwareDecode(frame) # NoMessage
      PROVE  HostEncode(FirmwareDecode(frame)) = frame
  <2> DEFINE m == FirmwareDecode(frame)
  <2>1. \A t \in Types : WellLaid(FirmwareReads[t])
    BY TablesAgree, Zenon DEF Agree
  <2>2. m.type \in Types /\ Encode(m, FirmwareReads[m.type]) = frame
    BY <1>2, <2>1, DecodedIsEncoded, Zenon DEF FirmwareDecode
  <2> HIDE DEF m
  <2>3. Agree(m.type)
    BY <2>2, TablesAgree
  <2>. QED
    BY <2>2, <2>3, Zenon DEF Agree, HostEncode, m
<1>. QED
  BY <1>1, <1>2

\* Frames whose length the header can say and the parser believes.
Sized(frame) == frame \in Frame /\ Len(frame.payload) <= MaximumPayloadLength

LEMMA SmallBytes ==
  /\ \A n \in 0..127 : n \in Bytes
  /\ \A v \in Int : v % Base \in Bytes
  /\ \A n \in Nat : n <= MaximumPayloadLength => n \div Base \in Bytes
<1>1. Base \in Nat /\ Base > 127
  BY FrameAssumption
<1>2. ASSUME NEW n \in Nat, n <= MaximumPayloadLength PROVE n \div Base \in Bytes
  <2> DEFINE q == n \div Base
             r == n % Base
  <2>1. n = Base * q + r /\ r \in 0..(Base - 1) /\ q \in Nat
    BY <1>1
  <2>2. Base * q < Base * Base
    <3> HIDE DEF q, r
    <3>1. Base * q \in Nat /\ Base * Base \in Nat
      BY <1>1, <2>1
    <3>. QED
      BY <1>1, <1>2, <2>1, <3>1, FrameAssumption
  <2>3. q < Base
    <3> HIDE DEF q, r
    <3>1. q >= Base => Base * q >= Base * Base
      BY <1>1, <2>1
    <3>. QED
      BY <1>1, <2>1, <2>2, <3>1
  <2>. QED
    BY <1>1, <2>1, <2>3 DEF Bytes
<1>. QED
  BY <1>1, <1>2 DEF Bytes

LEMMA HeadType ==
  ASSUME NEW l, WellLaid(l), NEW m, Valid(m.type, m.fields, l), m.text \in Seq(Bytes)
  PROVE  Written(m, l) \in Seq(Bytes)
<1> DEFINE Holds(i, k) == k - l.fields[i].offset \in 1..l.fields[i].width
           owner(k) == CHOOSE i \in DOMAIN l.fields : Holds(i, k)
           head == [k \in 1..l.size |->
                      ByteOf(m.fields[owner(k)], k - l.fields[owner(k)].offset)]
<1>1. \A k \in 1..l.size : owner(k) \in DOMAIN l.fields /\ Holds(owner(k), k)
  <2> SUFFICES ASSUME NEW k \in 1..l.size
               PROVE  owner(k) \in DOMAIN l.fields /\ Holds(owner(k), k)
    OBVIOUS
  <2>1. \E i \in DOMAIN l.fields : Holds(i, k)
    BY DEF WellLaid
  <2>. QED
    BY <2>1, Zenon
<1>2. \A k \in 1..l.size : head[k] \in Bytes
  <2> SUFFICES ASSUME NEW k \in 1..l.size PROVE head[k] \in Bytes
    OBVIOUS
  <2> DEFINE i == owner(k)
             j == k - l.fields[i].offset
             v == m.fields[i]
  <2>1. i \in DOMAIN l.fields /\ j \in 1..l.fields[i].width
    BY <1>1
  <2>2. head[k] = ByteOf(v, j)
    OBVIOUS
  <2> HIDE DEF i, head, j
  <2>3. l.fields[i].width \in Widths
    BY <2>1 DEF WellLaid
  <2>4. v \in Int
    <3>1. v \in l.fields[i].least..l.fields[i].most
      BY <2>1, Zenon DEF Valid
    <3>. QED
      BY <3>1
  <2>5. j - 1 \in 0..3
    BY <2>1, <2>3 DEF Widths
  <2>6. Power[j - 1] \in Nat /\ Power[j - 1] > 0
    <3>1. j - 1 \in 0..4
      BY <2>5
    <3>. QED
      BY <3>1, Powers, Zenon
  <2> HIDE DEF v
  <2>7. v \div Power[j - 1] \in Int
    BY <2>4, <2>6
  <2>. QED
    BY <2>2, <2>7, SmallBytes DEF ByteOf
<1>3. l.size \in Nat
  BY DEF WellLaid
<1>4. Written(m, l) = head \o m.text
  BY DEF Written
<1>5. head = [k \in 1..l.size |-> head[k]]
  OBVIOUS
<1> HIDE DEF head
<1>6. head \in Seq(Bytes)
  <2>1. head \in [1..l.size -> Bytes]
    BY <1>2, <1>5
  <2>. QED
    BY <1>3, <2>1
<1>. QED
  BY <1>4, <1>6

LEMMA EncodedIsSized ==
  ASSUME NEW m, m.type \in Types, m.text \in Seq(Bytes), NEW l, WellLaid(l)
  PROVE  Sized(Encode(m, l))
<1>1. Sized(NoFrame)
  <2>1. 0 \in Bytes
    BY SmallBytes
  <2>2. NoFrame = [version |-> 0, type |-> 0, payload |-> <<>>]
    BY DEF NoFrame
  <2>. QED
    BY <2>1, <2>2, EmptyType, FrameAssumption DEF Sized, Frame
<1>2. MessageType[m.type] \in Bytes /\ Version \in Bytes
  <2>1. /\ MessageType["HelloRequest"] = 1 /\ MessageType["HelloResponse"] = 2
        /\ MessageType["SyncRequest"] = 16 /\ MessageType["SyncBegin"] = 17
        /\ MessageType["OutputEndpoint"] = 18 /\ MessageType["InputEndpoint"] = 19
        /\ MessageType["CurrentOutput"] = 20 /\ MessageType["CurrentInput"] = 21
        /\ MessageType["SyncEnd"] = 22 /\ MessageType["SetOutputRequest"] = 32
        /\ MessageType["SetInputRequest"] = 33 /\ MessageType["SetResult"] = 34
        /\ MessageType["Ping"] = 48 /\ MessageType["Pong"] = 49
        /\ MessageType["Error"] = 127
    BY DEF MessageType
  <2>2. PICK n \in {1, 2, 16, 17, 18, 19, 20, 21, 22, 32, 33, 34, 48, 49, 127} :
          MessageType[m.type] = n
    <3>1. MessageType[m.type] \in {MessageType[t] : t \in Types}
      OBVIOUS
    <3>2. {MessageType[t] : t \in Types}
            \subseteq {1, 2, 16, 17, 18, 19, 20, 21, 22, 32, 33, 34, 48, 49, 127}
      BY <2>1, TypesAre
    <3>. QED
      BY <3>1, <3>2, ZenonT(60)
  <2>3. MessageType[m.type] \in Bytes
    <3>1. n \in 0..127
      OBVIOUS
    <3>2. n \in Bytes
      BY <3>1, SmallBytes, Zenon
    <3>. QED
      BY <2>2, <3>2, Zenon
  <2>4. 1 \in Bytes
    BY SmallBytes
  <2>. QED
    BY <2>3, <2>4 DEF Version
<1>3. ASSUME NEW p \in Seq(Bytes) PROVE Sized(Framed(Version, MessageType[m.type], p))
  <2>1. CASE Len(p) > MaximumPayloadLength
    BY <1>1, <2>1 DEF Framed
  <2>2. CASE ~(Len(p) > MaximumPayloadLength)
    <3> DEFINE frame == [version |-> Version, type |-> MessageType[m.type], payload |-> p]
    <3>1. Framed(Version, MessageType[m.type], p) = frame
      BY <2>2 DEF Framed
    <3>2. frame \in Frame /\ frame.payload = p
      BY <1>2 DEF Frame
    <3>3. Len(p) <= MaximumPayloadLength
      BY <2>2, FrameAssumption
    <3> HIDE DEF frame
    <3>. QED
      BY <3>1, <3>2, <3>3 DEF Sized
  <2>. QED
    BY <2>1, <2>2
<1>4. CASE Valid(m.type, m.fields, l) /\ WellFormed(m.text)
           /\ Len(m.text) = TextLength(m.type, m.fields)
  <2>1. Written(m, l) \in Seq(Bytes)
    BY <1>4, HeadType
  <2>2. Encode(m, l) = Framed(Version, MessageType[m.type], Written(m, l))
    BY <1>4 DEF Encode
  <2>. QED
    BY <1>3, <2>1, <2>2, Zenon
<1>5. CASE ~(Valid(m.type, m.fields, l) /\ WellFormed(m.text)
             /\ Len(m.text) = TextLength(m.type, m.fields))
  <2>1. Encode(m, l) = NoFrame
    BY <1>5 DEF Encode
  <2>. QED
    BY <1>1, <2>1
<1>. QED
  BY <1>4, <1>5

LEMMA FrameBytesType ==
  ASSUME NEW frame, Sized(frame)
  PROVE  FrameBytes(frame) \in Seq(Bytes)
<1> DEFINE n == Len(frame.payload)
           header == <<frame.version, frame.type, n % Base, n \div Base>>
<1>1. frame.version \in Bytes /\ frame.type \in Bytes /\ frame.payload \in Seq(Bytes)
  BY DEF Sized, Frame
<1>2. n \in Nat /\ n <= MaximumPayloadLength
  BY <1>1 DEF Sized
<1>3. n % Base \in Bytes /\ n \div Base \in Bytes
  <2> HIDE DEF n
  <2>1. n \in Int
    BY <1>2
  <2>. QED
    BY <1>2, <2>1, SmallBytes, Zenon
<1>4. header \in Seq(Bytes)
  <2> HIDE DEF n
  <2>. QED
    BY <1>1, <1>3
<1>5. Magic \in Seq(Bytes)
  <2>1. 65 \in Bytes /\ 83 \in Bytes
    BY SmallBytes
  <2>. QED
    BY <2>1 DEF Magic
<1>6. FrameBytes(frame) = Magic \o header \o frame.payload
  BY DEF FrameBytes
<1> HIDE DEF header
<1>7. Magic \o header \in Seq(Bytes)
  BY <1>4, <1>5
<1>. QED
  BY <1>1, <1>6, <1>7

\* What either program writes of a message is a sequence of bytes.
LEMMA SentType ==
  ASSUME NEW m \in Messages, NEW side
  PROVE  Sent(side, m) \in Seq(Bytes)
<1>1. m.type \in Types /\ m.text \in Seq(Bytes)
  BY WireAssumption
<1>2. Agree(m.type)
  BY <1>1, TablesAgree
<1>3. Sized(FirmwareEncode(m))
  BY <1>1, <1>2, EncodedIsSized DEF Agree, FirmwareEncode, FirmwareWrites
<1>4. Sized(HostEncode(m))
  BY <1>1, <1>2, EncodedIsSized DEF Agree, HostEncode
<1>. QED
  BY <1>3, <1>4, FrameBytesType DEF Sent

-----------------------------------------------------------------------------
(* The state of the receiver.                                               *)

WireInv ==
  /\ ParserInv
  /\ receiver \in {"host", "device"}
  /\ open \in BOOLEAN
  /\ stream \in Seq(Bytes) /\ position \in 0..Len(stream)
  /\ taken \in Seq(Frame)
  /\ \A i \in DOMAIN taken : Sized(taken[i])
  /\ \A i \in DOMAIN batch : Sized(batch[i])

LEMMA WireInitially == WireInit => WireInv
<1> SUFFICES ASSUME WireInit PROVE WireInv
  OBVIOUS
<1>1. ParserInv
  BY InitParserInv DEF WireInit
<1>2. stream \in Seq(Bytes)
  <2>1. PICK m \in Followers :
       \/ \E first \in Messages :
            StreamInit(Sent(receiver, first), Sent(receiver, m), <<first, m>>, FALSE)
       \/ \E noise \in Noise :
            StreamInit(noise, Sent(receiver, m), <<m>>, ~Quiet(noise))
       \/ \E first \in Messages, slip \in Slips :
            \E i \in DOMAIN Sent(receiver, first) :
              /\ Sent(receiver, first)[i] # slip
              /\ StreamInit([Sent(receiver, first) EXCEPT ![i] = slip],
                            Sent(receiver, m), <<m>>, TRUE)
    BY DEF WireInit
  <2>2. Sent(receiver, m) \in Seq(Bytes)
    BY SentType, WireAssumption
  <2>3. \E first \in Seq(Bytes) : stream = first \o Sent(receiver, m)
    <3>1. CASE \E first \in Messages :
                 StreamInit(Sent(receiver, first), Sent(receiver, m), <<first, m>>, FALSE)
      BY <3>1, SentType, Zenon DEF StreamInit
    <3>2. CASE \E noise \in Noise :
                 StreamInit(noise, Sent(receiver, m), <<m>>, ~Quiet(noise))
      <4>1. \A noise \in Noise : noise \in Seq(Bytes)
        BY WireAssumption
      <4>. QED
        BY <3>2, <4>1, Zenon DEF StreamInit
    <3>3. CASE \E first \in Messages, slip \in Slips :
                 \E i \in DOMAIN Sent(receiver, first) :
                   /\ Sent(receiver, first)[i] # slip
                   /\ StreamInit([Sent(receiver, first) EXCEPT ![i] = slip],
                                 Sent(receiver, m), <<m>>, TRUE)
      <4>1. PICK first \in Messages, slip \in Slips :
                 \E i \in DOMAIN Sent(receiver, first) :
                   StreamInit([Sent(receiver, first) EXCEPT ![i] = slip],
                              Sent(receiver, m), <<m>>, TRUE)
        BY <3>3, Zenon
      <4> DEFINE s == Sent(receiver, first)
      <4>2. PICK i \in DOMAIN s : StreamInit([s EXCEPT ![i] = slip],
                                             Sent(receiver, m), <<m>>, TRUE)
        BY <4>1
      <4>3. s \in Seq(Bytes) /\ slip \in Bytes
        BY SentType, WireAssumption
      <4> HIDE DEF s
      <4>4. [s EXCEPT ![i] = slip] \in Seq(Bytes)
        <5>1. i \in 1..Len(s)
          BY <4>3
        <5>. QED
          BY <4>3, <5>1, ExceptSeq
      <4>. QED
        BY <4>2, <4>4, Zenon DEF StreamInit
    <3>. QED
      BY <2>1, <3>1, <3>2, <3>3, Zenon
  <2>. QED
    BY <2>2, <2>3
<1>3. position \in 0..Len(stream)
  BY <1>2 DEF WireInit
<1>4. taken = <<>> /\ batch = <<>>
  BY DEF WireInit, ParserInit
<1>. QED
  BY <1>1, <1>2, <1>3, <1>4, EmptyType DEF WireInit, WireInv

Piece(n) == SubSeq(stream, position + 1,
                   IF position + n < Len(stream) THEN position + n ELSE Len(stream))

\* A read gives the next bytes of the stream.
LEMMA ReadGives ==
  ASSUME WireInv, Read
  PROVE  /\ position' \in 0..Len(stream) /\ position < position'
         /\ \E bytes \in Seq(Bytes) :
              /\ bytes = SubSeq(stream, position + 1, position')
              /\ Push(bytes) /\ Len(bytes) <= ReadLength
<1>1. PICK n \in ReadSizes :
        LET end == IF position + n < Len(stream) THEN position + n ELSE Len(stream)
        IN  Push(SubSeq(stream, position + 1, end)) /\ position' = end
  BY DEF Read
<1> DEFINE end == IF position + n < Len(stream) THEN position + n ELSE Len(stream)
<1>2. position' = end /\ Push(SubSeq(stream, position + 1, position'))
  BY <1>1
<1>3. /\ n \in Nat /\ n > 0 /\ n <= ReadLength
      /\ stream \in Seq(Bytes) /\ position \in Nat /\ Len(stream) \in Nat
      /\ position < Len(stream) /\ ReadLength \in Nat
  BY WireAssumption, ParserAssumption DEF Read, WireInv
<1>4. end \in 0..Len(stream) /\ position < end /\ end - position <= ReadLength
  BY <1>3
<1> HIDE DEF end
<1>5. /\ SubSeq(stream, position + 1, end) \in Seq(Bytes)
      /\ Len(SubSeq(stream, position + 1, end)) = end - position
  BY <1>3, <1>4
<1>. QED
  BY <1>2, <1>4, <1>5

LEMMA TakenIsSized ==
  ASSUME ParserInv, Take, \A i \in DOMAIN batch : Sized(batch[i])
  PROVE  \A i \in DOMAIN batch' : Sized(batch'[i])
<1> DEFINE b     == Discarded(buffer)
           end   == HeaderLength + Announced(b)
           frame == [version |-> b[3], type |-> b[4],
                     payload |-> SubSeq(b, HeaderLength + 1, end)]
<1>1. b \in Seq(Bytes)
  BY DiscardedType DEF ParserInv, ParserTypeOK
<1>2. ~Short(b) /\ ~Incomplete(b) /\ ~Oversized(b) /\ batch' = Append(batch, frame)
  BY DEF Take
<1>3. Announced(b) \in Nat /\ b[3] \in Bytes /\ b[4] \in Bytes
  BY <1>1, <1>2, AnnouncedType
<1>4. Announced(b) <= MaximumPayloadLength
  BY <1>2, <1>3, FrameAssumption DEF Oversized
<1>5. end \in Nat /\ end = 6 + Announced(b) /\ end <= Len(b) /\ HeaderLength + 1 = 7
  BY <1>1, <1>2, <1>3 DEF Incomplete, HeaderLength
<1>6. /\ SubSeq(b, HeaderLength + 1, end) \in Seq(Bytes)
      /\ Len(SubSeq(b, HeaderLength + 1, end)) = Announced(b)
  <2> HIDE DEF b, end
  <2>. QED
    BY <1>1, <1>3, <1>5
<1>7. Sized(frame)
  <2>1. frame \in Frame
    BY <1>3, <1>6 DEF Frame
  <2>2. Len(frame.payload) = Announced(b)
    BY <1>6
  <2>. QED
    BY <1>4, <2>1, <2>2 DEF Sized
<1>8. batch \in Seq(Frame)
  BY DEF ParserInv, ParserTypeOK
<1> HIDE DEF frame
<1>9. frame \in Frame
  BY <1>7 DEF Sized
<1>. QED
  BY <1>2, <1>7, <1>8, <1>9

LEMMA ConsumedIsTyped ==
  ASSUME WireInv, Consumed, taken' = taken \o batch
  PROVE  /\ taken' \in Seq(Frame) /\ \A i \in DOMAIN taken' : Sized(taken'[i])
         /\ \A i \in DOMAIN batch' : Sized(batch'[i])
<1>1. taken \in Seq(Frame) /\ batch \in Seq(Frame)
  BY DEF WireInv, ParserInv, ParserTypeOK
<1>2. batch' = <<>>
  BY DEF Consumed
<1>3. /\ taken \o batch \in Seq(Frame)
      /\ \A i \in DOMAIN (taken \o batch) :
           (taken \o batch)[i] \in {taken[k] : k \in DOMAIN taken}
                                     \cup {batch[k] : k \in DOMAIN batch}
  BY <1>1
<1>. QED
  BY <1>2, <1>3, EmptyType DEF WireInv

LEMMA WireStep == WireInv /\ [WireNext]_wireVars => WireInv'
<1> SUFFICES ASSUME WireInv, [WireNext]_wireVars PROVE WireInv'
  OBVIOUS
<1>0. ParserInv
  BY DEF WireInv
<1>1. CASE Read
  <2>1. PICK bytes \in Seq(Bytes) : Push(bytes)
    BY <1>1, ReadGives
  <2>2. ParserInv' /\ batch' = <<>>
    BY <1>0, <2>1, PushInv DEF Push
  <2>3. position' \in 0..Len(stream)
    BY <1>1, ReadGives
  <2>4. UNCHANGED <<receiver, stream, taken, open>>
    BY <1>1 DEF Read
  <2>. QED
    BY <2>2, <2>3, <2>4, EmptyType DEF WireInv
<1>2. CASE Cut
  <2>1. UNCHANGED <<receiver, stream, position, taken, open>>
    BY <1>2 DEF Cut
  <2>2. ParserInv'
    BY <1>0, <1>2, AwaitInv, SkipInv, TakeInv DEF Cut, Parse
  <2>3. \A i \in DOMAIN batch' : Sized(batch'[i])
    <3>1. CASE Take
      BY <1>0, <3>1, TakenIsSized DEF WireInv
    <3>2. CASE Await \/ Skip
      <4>1. batch' = batch
        BY <3>2 DEF Await, Skip
      <4>. QED
        BY <4>1 DEF WireInv
    <3>. QED
      BY <1>2, <3>1, <3>2 DEF Cut, Parse
  <2>. QED
    BY <2>1, <2>2, <2>3 DEF WireInv
<1>3. CASE HostActs
  <2>1. /\ Consumed /\ taken' = taken \o batch /\ open' \in BOOLEAN
        /\ UNCHANGED <<receiver, stream, position>>
    BY <1>3 DEF HostActs
  <2>2. ParserInv'
    BY <1>0, <2>1, ConsumedInv
  <2>. QED
    BY <2>1, <2>2, ConsumedIsTyped DEF WireInv
<1>4. CASE DeviceActs
  <2>1. /\ Consumed /\ taken' = taken \o batch
        /\ UNCHANGED <<receiver, stream, position, open>>
    BY <1>4 DEF DeviceActs
  <2>2. ParserInv'
    BY <1>0, <2>1, ConsumedInv
  <2>. QED
    BY <2>1, <2>2, ConsumedIsTyped DEF WireInv
<1>5. CASE UNCHANGED wireVars
  BY <1>5 DEF wireVars, parserVars, WireInv, ParserInv, ParserTypeOK
<1>. QED
  BY <1>1, <1>2, <1>3, <1>4, <1>5 DEF WireNext

LEMMA WireInvariance == WireSpec => []WireInv
  BY WireInitially, WireStep, PTL DEF WireSpec

\* A frame either program acts upon is what the other writes for that message,
\* for every message, any damage and any cut of the stream (decode and encode of
\* message.rs and message.cpp).
THEOREM NothingIsMadeUp == WireSpec => []AcceptedIsEncoded
<1>1. WireInv => AcceptedIsEncoded
  <2> SUFFICES ASSUME WireInv, NEW i \in DOMAIN taken
               PROVE  /\ HostDecode(taken[i]) # NoMessage =>
                           FirmwareEncode(HostDecode(taken[i])) = taken[i]
                      /\ FirmwareDecode(taken[i]) # NoMessage =>
                           HostEncode(FirmwareDecode(taken[i])) = taken[i]
    BY Zenon DEF AcceptedIsEncoded
  <2>1. taken[i] \in Frame /\ Len(taken[i].payload) <= MaximumPayloadLength
    BY DEF WireInv, Sized
  <2>. QED
    BY <2>1, FramesComeBack, Zenon
<1>. QED
  BY <1>1, WireInvariance, PTL

-----------------------------------------------------------------------------
(* What the receiver acted upon.                                            *)

IsAmong(f, s) ==
  f = [n \in 0..Len(s) |-> IF n = 0 THEN <<>>
                           ELSE IF s[n] = NoMessage THEN f[n - 1]
                           ELSE Append(f[n - 1], s[n])]

LEMMA AcceptedIs ==
  ASSUME NEW S, NEW s \in Seq(S)
  PROVE  \E f \in [0..Len(s) -> Seq(S)] :
           /\ Accepted(s) = f[Len(s)] /\ f[0] = <<>>
           /\ \A n \in 1..Len(s) :
                f[n] = IF s[n] = NoMessage THEN f[n - 1] ELSE Append(f[n - 1], s[n])
<1> DEFINE N == Len(s)
           Next1(g, n) == IF s[n] = NoMessage THEN g ELSE Append(g, s[n])
           First(m, f) == f = [n \in 0..m |-> IF n = 0 THEN <<>>
                                              ELSE IF s[n] = NoMessage THEN f[n - 1]
                                              ELSE Append(f[n - 1], s[n])]
           T == {m \in 0..N : \E f \in [0..m -> Seq(S)] : First(m, f)}
<1>0. N \in Nat
  OBVIOUS
<1>1. 0 \in T
  <2> DEFINE f == [n \in 0..0 |-> <<>>]
  <2>1. f \in [0..0 -> Seq(S)]
    OBVIOUS
  <2>2. f = [n \in 0..0 |-> IF n = 0 THEN <<>> ELSE IF s[n] = NoMessage THEN f[n - 1]
                            ELSE Append(f[n - 1], s[n])]
    OBVIOUS
  <2>3. 0 \in 0..N
    BY <1>0
  <2> HIDE DEF f
  <2>. QED
    BY <2>1, <2>2, <2>3, Zenon
<1>2. ASSUME NEW m \in 0..(N - 1), m \in T PROVE m + 1 \in T
  <2>1. PICK f \in [0..m -> Seq(S)] : First(m, f)
    BY <1>2
  <2> DEFINE e == Next1(f[m], m + 1)
             g == [n \in 0..(m + 1) |-> IF n = m + 1 THEN e ELSE f[n]]
  <2>2. e \in Seq(S)
    <3>1. f[m] \in Seq(S) /\ s[m + 1] \in S
      BY <1>0
    <3>. QED
      BY <3>1
  <2>3. g \in [0..(m + 1) -> Seq(S)]
    <3> HIDE DEF e
    <3>. QED
      BY <2>2
  <2>4. \A n \in 0..m : f[n] = IF n = 0 THEN <<>> ELSE Next1(f[n - 1], n)
    BY <2>1
  <2>5. \A n \in 0..(m + 1) : g[n] = IF n = 0 THEN <<>> ELSE Next1(g[n - 1], n)
    <3> SUFFICES ASSUME NEW n \in 0..(m + 1)
                 PROVE  g[n] = IF n = 0 THEN <<>> ELSE Next1(g[n - 1], n)
      OBVIOUS
    <3> HIDE DEF Next1
    <3>1. CASE n = m + 1
      <4>1. g[n] = e /\ g[n - 1] = f[m] /\ n # 0
        BY <3>1
      <4>. QED
        BY <3>1, <4>1
    <3>2. CASE n # m + 1
      <4>1. n \in 0..m /\ (n # 0 => n - 1 \in 0..m)
        BY <3>2
      <4>2. g[n] = f[n] /\ (n # 0 => g[n - 1] = f[n - 1])
        BY <3>2, <4>1
      <4>. QED
        BY <2>4, <4>1, <4>2
    <3>. QED
      BY <3>1, <3>2
  <2>6. g = [n \in 0..(m + 1) |-> g[n]]
    OBVIOUS
  <2> HIDE DEF g, e
  <2>7. First(m + 1, g)
    BY <2>5, <2>6, Zenon
  <2>8. m + 1 \in 0..N
    BY <1>0
  <2> HIDE DEF First
  <2>. QED
    BY <2>3, <2>7, <2>8, Zenon
<1> HIDE DEF T
<1>3. N \in T
  <2>1. \A m \in 0..N : m \in T
    BY <1>0, <1>1, <1>2, CountUp
  <2>. QED
    BY <1>0, <2>1
<1>4. \E f : IsAmong(f, s)
  BY <1>3 DEF T, IsAmong
<1> DEFINE c == CHOOSE f : IsAmong(f, s)
<1>5. IsAmong(c, s)
  BY <1>4, Zenon
<1>6. Accepted(s) = c[N]
  BY Zenon DEF Accepted, IsAmong
<1> HIDE DEF c
<1>7. \A n \in 0..N : c[n] = IF n = 0 THEN <<>> ELSE Next1(c[n - 1], n)
  BY <1>5 DEF IsAmong
<1>8. \A n \in 0..N : c[n] \in Seq(S)
  <2> DEFINE U == {n \in 0..N : c[n] \in Seq(S)}
  <2>1. 0 \in U
    <3>1. c[0] = <<>> /\ 0 \in 0..N
      BY <1>0, <1>7
    <3>2. <<>> \in Seq(S)
      OBVIOUS
    <3>. QED
      BY <3>1, <3>2
  <2>2. ASSUME NEW m \in 0..(N - 1), m \in U PROVE m + 1 \in U
    <3>1. m + 1 \in 0..N /\ m + 1 # 0 /\ (m + 1) - 1 = m /\ m + 1 \in 1..Len(s)
      BY <1>0
    <3>2. s[m + 1] \in S /\ c[m] \in Seq(S)
      BY <2>2, <3>1
    <3>3. c[m + 1] = Next1(c[m], m + 1)
      BY <1>7, <3>1
    <3>4. Next1(c[m], m + 1) \in Seq(S)
      BY <3>2
    <3>. QED
      BY <3>1, <3>3, <3>4
  <2> HIDE DEF U
  <2>3. \A m \in 0..N : m \in U
    BY <1>0, <2>1, <2>2, CountUp
  <2>. QED
    BY <2>3 DEF U
<1>9. c \in [0..N -> Seq(S)]
  <2>1. c = [n \in 0..N |-> c[n]]
    BY <1>5 DEF IsAmong
  <2>. QED
    BY <1>8, <2>1
<1>10. c[0] = <<>> /\ \A n \in 1..N : c[n] = Next1(c[n - 1], n)
  BY <1>0, <1>7
<1>. QED
  BY <1>6, <1>9, <1>10

LEMMA AcceptedJoins ==
  ASSUME NEW S, NEW a \in Seq(S), NEW b \in Seq(S)
  PROVE  Accepted(a \o b) = Accepted(a) \o Accepted(b)
<1> DEFINE A == Len(a)
           B == Len(b)
           t == a \o b
           Then(g, m) == IF m = NoMessage THEN g ELSE Append(g, m)
<1>1. A \in Nat /\ B \in Nat /\ t \in Seq(S) /\ Len(t) = A + B
  OBVIOUS
<1>2. /\ \A n \in 1..A : t[n] = a[n]
      /\ \A n \in 1..B : t[A + n] = b[n]
  OBVIOUS
<1>3. PICK f \in [0..A -> Seq(S)] :
        /\ Accepted(a) = f[A] /\ f[0] = <<>>
        /\ \A n \in 1..A : f[n] = Then(f[n - 1], a[n])
  BY AcceptedIs
<1>4. PICK g \in [0..B -> Seq(S)] :
        /\ Accepted(b) = g[B] /\ g[0] = <<>>
        /\ \A n \in 1..B : g[n] = Then(g[n - 1], b[n])
  BY AcceptedIs
<1> HIDE DEF A, B, t
<1>5. PICK h \in [0..Len(t) -> Seq(S)] :
        /\ Accepted(t) = h[Len(t)] /\ h[0] = <<>>
        /\ \A n \in 1..Len(t) : h[n] = Then(h[n - 1], t[n])
  BY <1>1, AcceptedIs
<1>6. h[A] = f[A]
  <2> DEFINE U == {n \in 0..A : h[n] = f[n]}
  <2>1. 0 \in U
    BY <1>1, <1>3, <1>5
  <2>2. ASSUME NEW m \in 0..(A - 1), m \in U PROVE m + 1 \in U
    <3>1. m + 1 \in 1..A /\ m + 1 \in 1..Len(t) /\ (m + 1) - 1 = m /\ m + 1 \in 0..A
      BY <1>1
    <3>2. h[m + 1] = Then(h[m], t[m + 1]) /\ f[m + 1] = Then(f[m], a[m + 1])
      BY <1>3, <1>5, <3>1
    <3>3. h[m] = f[m] /\ t[m + 1] = a[m + 1]
      BY <1>2, <2>2, <3>1
    <3>. QED
      BY <3>1, <3>2, <3>3
  <2> HIDE DEF U
  <2>3. \A m \in 0..A : m \in U
    BY <1>1, <2>1, <2>2, CountUp
  <2>. QED
    BY <1>1, <2>3 DEF U
<1>7. \A n \in 0..B : h[A + n] = f[A] \o g[n]
  <2> DEFINE U == {n \in 0..B : h[A + n] = f[A] \o g[n]}
  <2>0. f[A] \in Seq(S)
    BY <1>1
  <2>1. 0 \in U
    <3>1. h[A + 0] = f[A] /\ 0 \in 0..B
      BY <1>1, <1>6
    <3>2. f[A] \o <<>> = f[A]
      BY <2>0
    <3>. QED
      BY <1>4, <3>1, <3>2
  <2>2. ASSUME NEW m \in 0..(B - 1), m \in U PROVE m + 1 \in U
    <3>1. /\ m + 1 \in 1..B /\ A + (m + 1) \in 1..Len(t)
          /\ (A + (m + 1)) - 1 = A + m /\ (m + 1) - 1 = m /\ m + 1 \in 0..B /\ m \in 0..B
      BY <1>1
    <3>2. h[A + (m + 1)] = Then(h[A + m], t[A + (m + 1)])
      BY <1>5, <3>1
    <3>3. g[m + 1] = Then(g[m], b[m + 1])
      BY <1>4, <3>1
    <3>4. h[A + m] = f[A] \o g[m] /\ t[A + (m + 1)] = b[m + 1]
      BY <1>2, <2>2, <3>1
    <3>5. g[m] \in Seq(S)
      BY <3>1
    <3>6. b[m + 1] \in S
      BY <3>1 DEF B
    <3>7. Append(f[A] \o g[m], b[m + 1]) = f[A] \o Append(g[m], b[m + 1])
      <4> DEFINE x == f[A]
                 y == g[m]
                 z == b[m + 1]
      <4>1. x \in Seq(S) /\ y \in Seq(S) /\ z \in S
        BY <2>0, <3>5, <3>6
      <4> HIDE DEF x, y, z
      <4>2. Append(x \o y, z) = x \o Append(y, z)
        <5>1. x \o y \in Seq(S) /\ <<z>> \in Seq(S)
          BY <4>1
        <5>2. Append(x \o y, z) = (x \o y) \o <<z>>
          BY <4>1, <5>1, AppendIsConcat, Zenon
        <5>3. Append(y, z) = y \o <<z>>
          BY <4>1, AppendIsConcat, Zenon
        <5>4. (x \o y) \o <<z>> = x \o (y \o <<z>>)
          BY <4>1, <5>1, SMTT(60)
        <5>. QED
          BY <5>2, <5>3, <5>4, Zenon
      <4>. QED
        BY <4>2 DEF x, y, z
    <3>8. h[A + (m + 1)] = f[A] \o g[m + 1]
      BY <3>2, <3>3, <3>4, <3>7
    <3>. QED
      BY <3>1, <3>8
  <2> HIDE DEF U
  <2>3. \A m \in 0..B : m \in U
    BY <1>1, <2>1, <2>2, CountUp
  <2>. QED
    BY <2>3 DEF U
<1>8. h[A + B] = f[A] \o g[B]
  <2>1. B \in 0..B
    BY <1>1
  <2>. QED
    BY <1>7, <2>1, Zenon
<1>. QED
  BY <1>1, <1>3, <1>4, <1>5, <1>8 DEF t

\* Nothing is left out of messages that were all understood.
LEMMA AllAccepted ==
  ASSUME NEW S, NEW s \in Seq(S), \A i \in DOMAIN s : s[i] # NoMessage
  PROVE  Accepted(s) = s
<1> DEFINE N == Len(s)
<1>1. PICK f \in [0..N -> Seq(S)] :
        /\ Accepted(s) = f[N] /\ f[0] = <<>>
        /\ \A n \in 1..N : f[n] = IF s[n] = NoMessage THEN f[n - 1] ELSE Append(f[n - 1],
             s[n])
  BY AcceptedIs
<1>2. N \in Nat /\ DOMAIN s = 1..N
  OBVIOUS
<1> DEFINE U == {n \in 0..N : f[n] = SubSeq(s, 1, n)}
<1> HIDE DEF N
<1>3. 0 \in U
  <2>1. SubSeq(s, 1, 0) = <<>>
    OBVIOUS
  <2>. QED
    BY <1>1, <1>2, <2>1
<1>4. ASSUME NEW m \in 0..(N - 1), m \in U PROVE m + 1 \in U
  <2>1. m + 1 \in 1..N /\ m + 1 \in 0..N /\ (m + 1) - 1 = m
    BY <1>2
  <2>2. f[m + 1] = Append(f[m], s[m + 1]) /\ f[m] = SubSeq(s, 1, m)
    BY <1>1, <1>2, <1>4, <2>1
  <2>3. Append(SubSeq(s, 1, m), s[m + 1]) = SubSeq(s, 1, m + 1)
    BY <1>2, <2>1 DEF N
  <2>. QED
    BY <2>1, <2>2, <2>3
<1> HIDE DEF U
<1>5. \A m \in 0..N : m \in U
  BY <1>2, <1>3, <1>4, CountUp
<1>6. f[N] = SubSeq(s, 1, N)
  <2>1. N \in U
    BY <1>2, <1>5
  <2>. QED
    BY <2>1, Zenon DEF U
<1>7. SubSeq(s, 1, N) = s
  BY DEF N
<1>. QED
  BY <1>1, <1>6, <1>7

Understanding(side, frames) == [i \in DOMAIN frames |-> Received(side, frames[i])]
Meanings(side) == {Received(side, f) : f \in Frame}

LEMMA UnderstandingType ==
  ASSUME NEW side, NEW a \in Seq(Frame)
  PROVE  /\ Understanding(side, a) \in Seq(Meanings(side))
         /\ Len(Understanding(side, a)) = Len(a)
         /\ \A i \in 1..Len(a) : Understanding(side, a)[i] = Received(side, a[i])
<1> DEFINE u == Understanding(side, a)
<1>1. u = [i \in 1..Len(a) |-> Received(side, a[i])] /\ Len(a) \in Nat
  BY DEF Understanding
<1>2. \A i \in 1..Len(a) : u[i] = Received(side, a[i]) /\ u[i] \in Meanings(side)
  BY <1>1 DEF Meanings
<1>3. u \in [1..Len(a) -> Meanings(side)]
  BY <1>1, <1>2
<1> HIDE DEF u
<1>4. u \in Seq(Meanings(side))
  BY <1>1, <1>3
<1>5. Len(u) = Len(a)
  BY <1>1, <1>3, <1>4
<1>. QED
  BY <1>2, <1>4, <1>5 DEF u

LEMMA UnderstandingJoins ==
  ASSUME NEW side, NEW a \in Seq(Frame), NEW b \in Seq(Frame)
  PROVE  Understanding(side, a \o b) = Understanding(side, a) \o Understanding(side, b)
<1> DEFINE S == Meanings(side)
           u == Understanding(side, a)
           v == Understanding(side, b)
           w == Understanding(side, a \o b)
<1>1. a \o b \in Seq(Frame) /\ Len(a \o b) = Len(a) + Len(b)
      /\ Len(a) \in Nat /\ Len(b) \in Nat
  OBVIOUS
<1>2. /\ u \in Seq(S) /\ Len(u) = Len(a) /\ \A i \in 1..Len(a) : u[i] = Received(side, a[i])
      /\ v \in Seq(S) /\ Len(v) = Len(b) /\ \A i \in 1..Len(b) : v[i] = Received(side, b[i])
      /\ w \in Seq(S) /\ Len(w) = Len(a) + Len(b)
      /\ \A i \in 1..(Len(a) + Len(b)) : w[i] = Received(side, (a \o b)[i])
  BY <1>1, UnderstandingType
<1> HIDE DEF S, u, v, w
<1>3. \A i \in 1..(Len(a) + Len(b)) : w[i] = (u \o v)[i]
  <2> SUFFICES ASSUME NEW i \in 1..(Len(a) + Len(b)) PROVE w[i] = (u \o v)[i]
    OBVIOUS
  <2>1. CASE i <= Len(a)
    <3>1. (u \o v)[i] = u[i] /\ (a \o b)[i] = a[i] /\ i \in 1..Len(a)
      BY <1>1, <1>2, <2>1
    <3>. QED
      BY <1>2, <3>1
  <2>2. CASE ~(i <= Len(a))
    <3>1. /\ (u \o v)[i] = v[i - Len(a)] /\ (a \o b)[i] = b[i - Len(a)]
          /\ i - Len(a) \in 1..Len(b)
      BY <1>1, <1>2, <2>2
    <3>. QED
      BY <1>2, <3>1
  <2>. QED
    BY <2>1, <2>2
<1>4. u \o v \in Seq(S) /\ Len(u \o v) = Len(a) + Len(b)
  <2>1. u \in Seq(S) /\ v \in Seq(S)
    BY <1>2
  <2>2. u \o v \in Seq(S) /\ Len(u \o v) = Len(u) + Len(v)
    BY <2>1
  <2>. QED
    BY <1>2, <2>2
<1>5. w = u \o v
  BY <1>1, <1>2, <1>3, <1>4, SeqEqual
<1>. QED
  BY <1>5 DEF u, v, w

\* The messages acted upon are those understood of the frames taken; a host that
\* goes on has understood all.
DeliveredInv ==
  /\ ~open => receiver = "host" /\ phase = "idle"
  /\ receiver = "device" => delivered = Accepted(Understanding("device", taken))
  /\ receiver = "host" /\ open =>
       /\ delivered = Understanding("host", taken)
       /\ \A i \in DOMAIN delivered : delivered[i] # NoMessage
  /\ receiver = "host" =>
       /\ Len(delivered) \in 0..Len(taken)
       /\ delivered = SubSeq(Understanding("host", taken), 1, Len(delivered))

LEMMA DeliveredInitially == WireInit => DeliveredInv
<1> SUFFICES ASSUME WireInit PROVE DeliveredInv
  OBVIOUS
<1>1. taken = <<>> /\ delivered = <<>> /\ open
  BY DEF WireInit
<1>2. \A side : Understanding(side, <<>>) = <<>>
  BY DEF Understanding
<1>3. Accepted(<<>>) = <<>>
  <2>1. <<>> \in Seq(Frame) /\ \A i \in DOMAIN <<>> : <<>>[i] # NoMessage
    OBVIOUS
  <2>. QED
    BY <2>1, AllAccepted, Zenon
<1>4. SubSeq(<<>>, 1, 0) = <<>>
  OBVIOUS
<1>. QED
  BY <1>1, <1>2, <1>3, <1>4 DEF DeliveredInv

LEMMA DeviceDelivers ==
  ASSUME WireInv, DeliveredInv, DeviceActs
  PROVE  DeliveredInv'
<1>1. /\ receiver = "device" /\ receiver' = "device" /\ taken' = taken \o batch
      /\ open' = open
      /\ delivered' = delivered \o Accepted(Understanding("device", batch))
  BY DEF DeviceActs, Decoded, Understanding
<1>2. taken \in Seq(Frame) /\ batch \in Seq(Frame)
  BY DEF WireInv, ParserInv, ParserTypeOK
<1>3. Accepted(Understanding("device", taken \o batch))
        = Accepted(Understanding("device", taken)) \o Accepted(Understanding("device",
          batch))
  <2> DEFINE u == Understanding("device", taken)
             v == Understanding("device", batch)
             S == Meanings("device")
  <2>1. u \in Seq(S) /\ v \in Seq(S)
    BY <1>2, UnderstandingType
  <2>2. Understanding("device", taken \o batch) = u \o v
    BY <1>2, UnderstandingJoins
  <2> HIDE DEF u, v, S
  <2>3. Accepted(u \o v) = Accepted(u) \o Accepted(v)
    BY <2>1, AcceptedJoins, Zenon
  <2>. QED
    BY <2>2, <2>3, Zenon DEF u, v
<1>. QED
  BY <1>1, <1>3 DEF DeliveredInv

LEMMA HostDelivers ==
  ASSUME WireInv, DeliveredInv, HostActs
  PROVE  DeliveredInv'
<1> DEFINE sound == ~flawed /\ \A i \in DOMAIN Decoded : Decoded[i] # NoMessage
           u == Understanding("host", taken)
           v == Understanding("host", batch)
           S == Meanings("host")
<1>1. /\ receiver = "host" /\ receiver' = "host" /\ taken' = taken \o batch
      /\ open' = sound /\ Decoded = v
      /\ delivered' = IF sound THEN delivered \o v ELSE delivered
  BY DEF HostActs, Decoded, Understanding
<1>2. taken \in Seq(Frame) /\ batch \in Seq(Frame) /\ Len(taken) \in Nat
        /\ Len(batch) \in Nat
  BY DEF WireInv, ParserInv, ParserTypeOK
<1>3. /\ u \in Seq(S) /\ v \in Seq(S) /\ Len(u) = Len(taken) /\ Len(v) = Len(batch)
      /\ Understanding("host", taken \o batch) = u \o v
      /\ Len(taken \o batch) = Len(taken) + Len(batch)
  BY <1>2, UnderstandingType, UnderstandingJoins
<1>4. open /\ delivered = u /\ \A i \in 1..Len(u) : u[i] # NoMessage
  <2>1. open
    BY DEF HostActs, Consumed, DeliveredInv
  <2>2. delivered = u /\ \A i \in DOMAIN u : u[i] # NoMessage
    BY <1>1, <2>1 DEF DeliveredInv
  <2>3. DOMAIN u = 1..Len(u)
    BY <1>3
  <2>. QED
    BY <2>1, <2>2, <2>3
<1>5. phase' = "idle"
  BY DEF HostActs, Consumed
<1> HIDE DEF u, v, S
<1>6. CASE sound
  <2>1. delivered' = u \o v /\ Len(u \o v) = Len(u) + Len(v) /\ u \o v \in Seq(S)
    <3>1. u \o v \in Seq(S) /\ Len(u \o v) = Len(u) + Len(v)
      <4>1. u \in Seq(S) /\ v \in Seq(S)
        BY <1>3, Zenon
      <4>. QED
        BY <4>1
    <3>. QED
      BY <1>1, <1>4, <1>6, <3>1, Zenon
  <2>2. \A i \in DOMAIN (u \o v) : (u \o v)[i] # NoMessage
    <3>1. DOMAIN v = 1..Len(v) /\ \A i \in 1..Len(v) : v[i] # NoMessage
      BY <1>1, <1>3, <1>6
    <3>. QED
      BY <1>3, <1>4, <3>1
  <2>3. SubSeq(u \o v, 1, Len(u \o v)) = u \o v
    BY <2>1, SubSeqFull, Zenon
  <2>4. Len(u \o v) \in 0..Len(taken \o batch)
    BY <1>2, <1>3, <2>1
  <2>. QED
    BY <1>1, <1>3, <1>5, <1>6, <2>1, <2>2, <2>3, <2>4 DEF DeliveredInv
<1>7. CASE ~sound
  <2>1. delivered' = u /\ ~open'
    BY <1>1, <1>4, <1>7
  <2>2. SubSeq(u \o v, 1, Len(u)) = u
    BY <1>3
  <2>3. Len(u) \in 0..Len(taken \o batch)
    BY <1>2, <1>3
  <2>. QED
    BY <1>1, <1>3, <1>5, <2>1, <2>2, <2>3 DEF DeliveredInv
<1>. QED
  BY <1>6, <1>7

LEMMA DeliveredStep == WireInv /\ DeliveredInv /\ [WireNext]_wireVars => DeliveredInv'
<1> SUFFICES ASSUME WireInv, DeliveredInv, [WireNext]_wireVars PROVE DeliveredInv'
  OBVIOUS
<1>1. CASE Read
  <2>1. open /\ UNCHANGED <<receiver, taken, delivered, open>>
    BY <1>1 DEF Read
  <2>. QED
    BY <2>1 DEF DeliveredInv
<1>2. CASE Cut
  <2>1. phase = "parsing" /\ UNCHANGED <<receiver, taken, delivered, open>>
    BY <1>2 DEF Cut, Parse, Await, Skip, Take
  <2>. QED
    BY <2>1 DEF DeliveredInv
<1>3. CASE UNCHANGED wireVars
  BY <1>3 DEF wireVars, parserVars, DeliveredInv
<1>. QED
  BY <1>1, <1>2, <1>3, HostDelivers, DeviceDelivers DEF WireNext

LEMMA DeliveredInvariance == WireSpec => []DeliveredInv
  BY WireInvariance, DeliveredInitially, DeliveredStep, PTL DEF WireSpec

\* A program acts upon every frame it understands, once and in order, as long as
\* it goes on; one that stopped acted upon nothing behind a frame it did not
\* understand: for every stream and every cut of it (handleProtocolFrame,
\* receive_messages).
THEOREM UnderstoodFramesCount == WireSpec => []UnderstoodIsActedUpon
<1>1. WireInv /\ DeliveredInv => UnderstoodIsActedUpon
  <2> SUFFICES ASSUME WireInv, DeliveredInv PROVE UnderstoodIsActedUpon
    OBVIOUS
  <2>0. taken \in Seq(Frame)
    BY DEF WireInv
  <2>1. CASE receiver = "device"
    <3>1. open /\ delivered = Accepted(Understanding("device", taken))
      BY <2>1 DEF DeliveredInv
    <3>. QED
      BY <2>1, <3>1 DEF UnderstoodIsActedUpon, Understanding
  <2>2. CASE receiver = "host" /\ open
    <3> DEFINE u == Understanding("host", taken)
    <3>1. delivered = u /\ \A i \in DOMAIN u : u[i] # NoMessage
      BY <2>2 DEF DeliveredInv
    <3>2. u \in Seq(Meanings("host"))
      BY <2>0, UnderstandingType
    <3>3. Accepted(u) = u
      BY <3>1, <3>2, AllAccepted
    <3>. QED
      BY <2>2, <3>1, <3>3 DEF UnderstoodIsActedUpon, Understanding
  <2>3. CASE receiver = "host" /\ ~open
    <3>1. delivered = SubSeq(Understanding("host", taken), 1, Len(delivered))
      BY <2>3 DEF DeliveredInv
    <3>. QED
      BY <2>3, <3>1 DEF UnderstoodIsActedUpon, Understanding
  <2>. QED
    BY <2>1, <2>2, <2>3 DEF WireInv
<1>. QED
  BY <1>1, WireInvariance, DeliveredInvariance, PTL

-----------------------------------------------------------------------------
(* The frames of a stream, from any place in it.                            *)

HeaderAt(c, i) == MagicAt(c, i) /\ i + HeaderLength - 1 <= Len(c)
LengthAt(c, i) == c[i + 4] + c[i + 5] * Base
EndAt(c, i)    == i + HeaderLength + LengthAt(c, i) - 1
MayCut(c, i)   == HeaderAt(c, i) /\ LengthAt(c, i) <= MaximumPayloadLength
FrameAt(c, i)  ==
  [version |-> c[i + 2], type |-> c[i + 3],
   payload |-> SubSeq(c, i + HeaderLength, EndAt(c, i))]

\* The frames of the last k bytes, if f gives them of fewer.
FromHere(c, f, k) ==
  LET i == Len(c) - k + 1 IN
  IF k = 0 THEN <<>>
  ELSE IF MayCut(c, i)
  THEN IF EndAt(c, i) > Len(c) THEN <<>>
       ELSE <<FrameAt(c, i)>> \o f[Len(c) - EndAt(c, i)]
  ELSE IF MagicAt(c, i) /\ ~HeaderAt(c, i) THEN <<>>
  ELSE f[k - 1]

IsFrom(f, c) == f = [k \in 0..Len(c) |-> FromHere(c, f, k)]

LEMMA FramesOfIs == ASSUME NEW c PROVE FramesOf(c) = (CHOOSE f : IsFrom(f, c))[Len(c)]
  BY Zenon DEF FramesOf, IsFrom, FromHere, MayCut, HeaderAt, LengthAt, EndAt, FrameAt

LEMMA CutFacts ==
  ASSUME NEW c \in Seq(Bytes), NEW i \in 1..Len(c), MayCut(c, i)
  PROVE  /\ LengthAt(c, i) \in Nat /\ EndAt(c, i) \in Nat /\ EndAt(c, i) >= i + 5
         /\ i + 5 \in 1..Len(c)
         /\ EndAt(c, i) <= Len(c) => FrameAt(c, i) \in Frame
<1>1. /\ i + 2 \in 1..Len(c) /\ i + 3 \in 1..Len(c) /\ i + 4 \in 1..Len(c)
      /\ i + 5 \in 1..Len(c) /\ Len(c) \in Nat
  BY DEF MayCut, HeaderAt, HeaderLength
<1>2. c[i + 2] \in Bytes /\ c[i + 3] \in Bytes /\ c[i + 4] \in Bytes /\ c[i + 5] \in Bytes
  BY <1>1
<1>3. \A x, y \in Bytes : x + y * Base \in Nat
  <2> SUFFICES ASSUME NEW x \in Bytes, NEW y \in Bytes PROVE x + y * Base \in Nat
    OBVIOUS
  <2>1. x \in Nat /\ y \in Nat /\ Base \in Nat
    BY FrameAssumption DEF Bytes
  <2>2. y * Base \in Nat
    BY <2>1
  <2>. QED
    BY <2>1, <2>2
<1>4. LengthAt(c, i) \in Nat
  BY <1>2, <1>3 DEF LengthAt
<1> DEFINE e == EndAt(c, i)
<1>5. e \in Nat /\ e >= i + 5
  BY <1>4 DEF EndAt, HeaderLength
<1>6. ASSUME e <= Len(c) PROVE FrameAt(c, i) \in Frame
  <2> DEFINE p == SubSeq(c, i + HeaderLength, e)
  <2>1. p \in Seq(Bytes)
    <3> HIDE DEF e
    <3>. QED
      BY <1>1, <1>5, <1>6 DEF HeaderLength
  <2>2. FrameAt(c, i) = [version |-> c[i + 2], type |-> c[i + 3], payload |-> p]
    BY DEF FrameAt
  <2> HIDE DEF p
  <2>. QED
    BY <1>2, <2>1, <2>2 DEF Frame
<1>. QED
  BY <1>1, <1>4, <1>5, <1>6

LEMMA FromIsLocal ==
  ASSUME NEW c \in Seq(Bytes), NEW k \in 0..Len(c), NEW f, NEW g,
         \A j \in 0..(k - 1) : f[j] = g[j]
  PROVE  FromHere(c, f, k) = FromHere(c, g, k)
<1> DEFINE i == Len(c) - k + 1
<1>1. CASE k = 0
  BY <1>1 DEF FromHere
<1>2. CASE k # 0 /\ MayCut(c, i) /\ EndAt(c, i) <= Len(c)
  <2>1. i \in 1..Len(c) /\ Len(c) \in Nat /\ k \in Nat
    BY <1>2
  <2>2. EndAt(c, i) \in Nat /\ EndAt(c, i) >= i + 5
    BY <1>2, <2>1, CutFacts
  <2>3. Len(c) - EndAt(c, i) \in 0..(k - 1)
    BY <1>2, <2>1, <2>2
  <2>4. f[Len(c) - EndAt(c, i)] = g[Len(c) - EndAt(c, i)]
    BY <2>3
  <2>. QED
    BY <2>4 DEF FromHere
<1>3. CASE k # 0 /\ ~(MayCut(c, i) /\ EndAt(c, i) <= Len(c))
  <2>1. f[k - 1] = g[k - 1]
    BY <1>3
  <2>2. ~(EndAt(c, i) > Len(c)) /\ MayCut(c, i) => FALSE
    <3> SUFFICES ASSUME MayCut(c, i), ~(EndAt(c, i) > Len(c)) PROVE FALSE
      OBVIOUS
    <3>1. i \in 1..Len(c) /\ Len(c) \in Nat
      BY <1>3
    <3>2. EndAt(c, i) \in Nat
      BY <3>1, CutFacts
    <3>. QED
      BY <1>3, <3>1, <3>2
  <2>. QED
    BY <2>1, <2>2 DEF FromHere
<1>. QED
  BY <1>1, <1>2, <1>3

LEMMA FromType ==
  ASSUME NEW c \in Seq(Bytes), NEW k \in 0..Len(c), NEW f,
         \A j \in 0..(k - 1) : f[j] \in Seq(Frame)
  PROVE  FromHere(c, f, k) \in Seq(Frame)
<1> DEFINE i == Len(c) - k + 1
<1>1. CASE k = 0
  BY <1>1, EmptyType DEF FromHere
<1>2. CASE k # 0 /\ MayCut(c, i) /\ ~(EndAt(c, i) > Len(c))
  <2>1. i \in 1..Len(c) /\ Len(c) \in Nat /\ k \in Nat
    BY <1>2
  <2>2. EndAt(c, i) \in Nat /\ EndAt(c, i) >= i + 5
        /\ (EndAt(c, i) <= Len(c) => FrameAt(c, i) \in Frame)
    BY <1>2, <2>1, CutFacts
  <2>3. Len(c) - EndAt(c, i) \in 0..(k - 1) /\ EndAt(c, i) <= Len(c)
    BY <1>2, <2>1, <2>2
  <2> DEFINE r == f[Len(c) - EndAt(c, i)]
             e == FrameAt(c, i)
  <2>4. r \in Seq(Frame) /\ e \in Frame
    BY <2>2, <2>3
  <2>5. FromHere(c, f, k) = <<e>> \o r
    BY <1>2 DEF FromHere
  <2> HIDE DEF r, e
  <2>6. <<e>> \in Seq(Frame)
    BY <2>4
  <2>. QED
    BY <2>4, <2>5, <2>6
<1>3. CASE k # 0 /\ ~(MayCut(c, i) /\ ~(EndAt(c, i) > Len(c)))
  <2>1. f[k - 1] \in Seq(Frame)
    BY <1>3
  <2>2. FromHere(c, f, k) = <<>> \/ FromHere(c, f, k) = f[k - 1]
    BY <1>3 DEF FromHere
  <2>. QED
    BY <2>1, <2>2, EmptyType
<1>. QED
  BY <1>1, <1>2, <1>3

LEMMA SubSeqOfSuffix ==
  ASSUME NEW c \in Seq(Bytes), NEW s \in 0..Len(c), NEW d,
         d = SubSeq(c, s + 1, Len(c)), NEW a \in 1..(Len(c) - s + 1),
         NEW e \in 0..(Len(c) - s)
  PROVE  SubSeq(d, a, e) = SubSeq(c, a + s, e + s)
  OBVIOUS

LEMMA SuffixIs ==
  ASSUME NEW c \in Seq(Bytes), NEW s \in 0..Len(c)
  PROVE  /\ SubSeq(c, s + 1, Len(c)) \in Seq(Bytes)
         /\ Len(SubSeq(c, s + 1, Len(c))) = Len(c) - s
         /\ \A n \in 1..(Len(c) - s) : SubSeq(c, s + 1, Len(c))[n] = c[n + s]
<1> DEFINE N == Len(c)
<1>1. N \in Nat /\ s \in Nat /\ s + 1 \in 1..(N + 1) /\ N \in 0..N
  OBVIOUS
<1>2. SubSeq(c, s + 1, N) \in Seq(Bytes)
  BY <1>1
<1>3. Len(SubSeq(c, s + 1, N)) = N - s
  BY <1>1
<1>4. \A n \in 1..(N - s) : SubSeq(c, s + 1, N)[n] = c[n + s]
  BY <1>1
<1>. QED
  BY <1>2, <1>3, <1>4

\* A reader that starts later finds the same from there on.
LEMMA FromSuffix ==
  ASSUME NEW c \in Seq(Bytes), NEW m \in 0..Len(c), NEW k \in 0..m, NEW f
  PROVE  FromHere(SubSeq(c, Len(c) - m + 1, Len(c)), f, k) = FromHere(c, f, k)
<1> DEFINE N == Len(c)
           s == N - m
           d == SubSeq(c, s + 1, N)
           i == N - k + 1
           j == m - k + 1
<1>0. N \in Nat /\ s \in 0..N /\ m \in Nat /\ k \in Nat /\ m = N - s /\ k <= m
  OBVIOUS
<1>1. /\ N \in Nat /\ s \in 0..N /\ s \in Nat /\ m \in Nat /\ k \in Nat /\ m = N - s
      /\ d \in Seq(Bytes) /\ Len(d) = m /\ Len(c) = N
      /\ \A n \in 1..m : d[n] = c[n + s]
  <2> HIDE DEF s
  <2>1. s \in 0..Len(c)
    BY <1>0
  <2>2. /\ d \in Seq(Bytes) /\ Len(d) = N - s
        /\ \A n \in 1..(N - s) : d[n] = c[n + s]
    BY <2>1, SuffixIs, Zenon
  <2>. QED
    BY <1>0, <2>2
<1>2. /\ i = j + s /\ j \in 1..(m + 1) /\ i \in Nat /\ j \in Nat
      /\ (k # 0 => j \in 1..m /\ i \in 1..N)
  BY <1>0
<1>3. DOMAIN c = 1..N /\ DOMAIN d = 1..m
  <2> HIDE DEF d
  <2>. QED
    BY <1>1
<1> HIDE DEF d, s, i, j, N
<1>4. CASE k = 0
  BY <1>4 DEF FromHere, d, s, N
<1>5. CASE k # 0
  <2>0. j \in 1..m /\ i \in 1..N
    BY <1>2, <1>5
  <2>1. MagicAt(d, j) <=> MagicAt(c, i)
    <3>1. j + 1 \in 1..m <=> i + 1 \in 1..N
      BY <1>1, <1>2, <1>5
    <3>2. j + 1 \in 1..m => d[j] = c[i] /\ d[j + 1] = c[i + 1]
      <4>1. j + s = i /\ (j + 1) + s = i + 1
        BY <1>1, <1>2
      <4>2. d[j] = c[j + s] /\ (j + 1 \in 1..m => d[j + 1] = c[(j + 1) + s])
        BY <1>1, <2>0
      <4>. QED
        BY <4>1, <4>2
    <3>. QED
      BY <1>3, <3>1, <3>2 DEF MagicAt
  <2>2. HeaderAt(d, j) <=> HeaderAt(c, i)
    <3>1. (j + HeaderLength - 1 <= Len(d)) <=> (i + HeaderLength - 1 <= Len(c))
      BY <1>1, <1>2 DEF HeaderLength
    <3>. QED
      BY <2>1, <3>1 DEF HeaderAt
  <2>3. HeaderAt(d, j) => /\ LengthAt(d, j) = LengthAt(c, i)
                          /\ d[j + 2] = c[i + 2] /\ d[j + 3] = c[i + 3]
    <3> SUFFICES ASSUME HeaderAt(d, j)
                 PROVE  /\ LengthAt(d, j) = LengthAt(c, i)
                        /\ d[j + 2] = c[i + 2] /\ d[j + 3] = c[i + 3]
      OBVIOUS
    <3>1. /\ j + 2 \in 1..m /\ j + 3 \in 1..m /\ j + 4 \in 1..m /\ j + 5 \in 1..m
          /\ (j + 2) + s = i + 2 /\ (j + 3) + s = i + 3
          /\ (j + 4) + s = i + 4 /\ (j + 5) + s = i + 5
      <4>1. j + 5 <= m
        BY <1>1, <1>2 DEF HeaderAt, HeaderLength
      <4>. QED
        BY <1>0, <1>2, <2>0, <4>1
    <3>2. /\ d[j + 2] = c[(j + 2) + s] /\ d[j + 3] = c[(j + 3) + s]
          /\ d[j + 4] = c[(j + 4) + s] /\ d[j + 5] = c[(j + 5) + s]
      BY <1>1, <3>1
    <3>. QED
      BY <3>1, <3>2 DEF LengthAt
  <2>4. MayCut(d, j) <=> MayCut(c, i)
    BY <2>2, <2>3 DEF MayCut
  <2>5. CASE MayCut(c, i)
    <3>1. /\ EndAt(c, i) \in Nat /\ EndAt(c, i) >= i + 5
          /\ LengthAt(c, i) \in Nat
      BY <1>2, <1>5, <2>5, CutFacts DEF N
    <3>2. EndAt(d, j) \in Nat /\ EndAt(d, j) >= j + 5
      BY <1>1, <1>2, <1>5, <2>4, <2>5, CutFacts
    <3>3. EndAt(c, i) = EndAt(d, j) + s
      <4>1. LengthAt(d, j) = LengthAt(c, i) /\ LengthAt(c, i) \in Nat
        BY <2>2, <2>3, <2>5, <3>1 DEF MayCut
      <4> DEFINE l == LengthAt(c, i)
      <4>2. EndAt(d, j) = j + HeaderLength + l - 1 /\ EndAt(c, i) = i + HeaderLength + l - 1
        BY <4>1 DEF EndAt
      <4>3. l \in Nat
        BY <4>1
      <4> HIDE DEF l
      <4>. QED
        BY <1>0, <1>2, <4>2, <4>3 DEF HeaderLength
    <3>4. (EndAt(d, j) > m) <=> (EndAt(c, i) > N)
      BY <1>1, <3>1, <3>2, <3>3
    <3>5. m - EndAt(d, j) = N - EndAt(c, i)
      BY <1>1, <3>1, <3>2, <3>3
    <3>6. ASSUME ~(EndAt(d, j) > m) PROVE FrameAt(d, j) = FrameAt(c, i)
      <4> DEFINE e == EndAt(d, j)
                 a == j + HeaderLength
      <4>0. /\ a \in 1..(m + 1) /\ e \in 0..m /\ e \in Nat
            /\ i + HeaderLength = a + s
        <5>1. j + 5 <= e /\ e <= m
          BY <1>1, <3>2, <3>6
        <5>. QED
          BY <1>1, <1>2, <3>2, <5>1 DEF HeaderLength
      <4> HIDE DEF e, a
      <4>1. SubSeq(d, a, e) = SubSeq(c, a + s, e + s)
        BY <1>0, <1>1, <4>0, SubSeqOfSuffix
      <4>2. HeaderAt(d, j)
        BY <2>2, <2>5 DEF MayCut
      <4>3. SubSeq(d, j + HeaderLength, EndAt(d, j)) = SubSeq(c, i + HeaderLength,
              EndAt(c, i))
        BY <3>3, <4>0, <4>1 DEF a, e
      <4>. QED
        BY <2>3, <4>2, <4>3 DEF FrameAt
    <3>7. MayCut(d, j)
      BY <2>4, <2>5
    <3>8. CASE EndAt(c, i) > N
      BY <1>1, <1>5, <2>5, <3>4, <3>7, <3>8 DEF FromHere, d, s, i, j, N
    <3>9. CASE ~(EndAt(c, i) > N)
      <4>1. /\ ~(EndAt(d, j) > Len(d)) /\ FrameAt(d, j) = FrameAt(c, i)
            /\ f[Len(d) - EndAt(d, j)] = f[N - EndAt(c, i)]
        BY <1>1, <3>4, <3>5, <3>6, <3>9
      <4>2. FromHere(d, f, k) = <<FrameAt(d, j)>> \o f[Len(d) - EndAt(d, j)]
        BY <1>1, <1>5, <3>7, <4>1 DEF FromHere, j
      <4>3. FromHere(c, f, k) = <<FrameAt(c, i)>> \o f[N - EndAt(c, i)]
        BY <1>5, <2>5, <3>9 DEF FromHere, i, N
      <4>. QED
        BY <4>1, <4>2, <4>3 DEF d, s, N
    <3>. QED
      BY <3>8, <3>9
  <2>6. CASE ~MayCut(c, i)
    <3>1. FromHere(d, f, k) = IF MagicAt(d, j) /\ ~HeaderAt(d, j) THEN <<>> ELSE f[k - 1]
      BY <1>1, <1>5, <2>4, <2>6 DEF FromHere, j
    <3>2. FromHere(c, f, k) = IF MagicAt(c, i) /\ ~HeaderAt(c, i) THEN <<>> ELSE f[k - 1]
      BY <1>5, <2>6 DEF FromHere, i, N
    <3>. QED
      BY <2>1, <2>2, <3>1, <3>2 DEF d, s, N
  <2>. QED
    BY <2>5, <2>6
<1>. QED
  BY <1>4, <1>5

\* f gives the frames of the last 0, 1, ... m bytes of c.
FromGives(c, m, f) ==
  /\ f \in [0..m -> Seq(Frame)]
  /\ \A k \in 0..m : f[k] = FromHere(c, f, k)

LEMMA FromExtends ==
  ASSUME NEW c \in Seq(Bytes), NEW m \in 0..(Len(c) - 1), NEW f, FromGives(c, m, f)
  PROVE  \E g : FromGives(c, m + 1, g)
<1> DEFINE e == FromHere(c, f, m + 1)
           g == [k \in 0..(m + 1) |-> IF k = m + 1 THEN e ELSE f[k]]
<1>1. /\ m \in Nat /\ m \in 0..Len(c) /\ m + 1 \in 0..Len(c)
      /\ (m + 1) - 1 = m /\ m + 1 \in 0..(m + 1) /\ Len(c) \in Nat
  OBVIOUS
<1>2. e \in Seq(Frame)
  <2>1. \A j \in 0..((m + 1) - 1) : f[j] \in Seq(Frame)
    BY <1>1 DEF FromGives
  <2>. QED
    BY <1>1, <2>1, FromType
<1>3. g \in [0..(m + 1) -> Seq(Frame)]
  <2> HIDE DEF e
  <2>. QED
    BY <1>1, <1>2 DEF FromGives
<1>4. ASSUME NEW k \in 0..(m + 1) PROVE g[k] = FromHere(c, g, k)
  <2> HIDE DEF e
  <2>1. \A j \in 0..m : g[j] = f[j]
    OBVIOUS
  <2>2. k \in 0..Len(c) /\ \A j \in 0..(k - 1) : j \in 0..m
    BY <1>1
  <2>3. g[k] = FromHere(c, f, k)
    <3>1. CASE k = m + 1
      BY <3>1 DEF e
    <3>2. CASE k # m + 1
      BY <2>1, <3>2 DEF FromGives
    <3>. QED
      BY <3>1, <3>2
  <2> HIDE DEF g
  <2>4. \A j \in 0..(k - 1) : f[j] = g[j]
    BY <2>1, <2>2
  <2>5. FromHere(c, f, k) = FromHere(c, g, k)
    BY <2>2, <2>4, FromIsLocal
  <2>. QED
    BY <2>3, <2>5
<1> HIDE DEF g, e
<1>5. FromGives(c, m + 1, g)
  BY <1>3, <1>4 DEF FromGives
<1>. QED
  BY <1>5

LEMMA FromExists ==
  ASSUME NEW c \in Seq(Bytes)
  PROVE  \E f : FromGives(c, Len(c), f)
<1> DEFINE S == {m \in 0..Len(c) : \E f : FromGives(c, m, f)}
<1>0. Len(c) \in Nat /\ 0 \in 0..Len(c) /\ Len(c) \in 0..Len(c)
  OBVIOUS
<1>1. 0 \in S
  <2> DEFINE f == [k \in 0..0 |-> <<>>]
  <2>1. f \in [0..0 -> Seq(Frame)] /\ f[0] = <<>>
    BY EmptyType
  <2>2. \A k \in 0..0 : f[k] = FromHere(c, f, k)
    BY DEF FromHere
  <2> HIDE DEF f
  <2>3. FromGives(c, 0, f)
    BY <2>1, <2>2 DEF FromGives
  <2>. QED
    BY <1>0, <2>3
<1>2. ASSUME NEW m \in 0..(Len(c) - 1), m \in S PROVE m + 1 \in S
  <2>1. PICK f : FromGives(c, m, f)
    BY <1>2
  <2>2. \E g : FromGives(c, m + 1, g)
    BY <2>1, FromExtends
  <2>3. m + 1 \in 0..Len(c)
    BY <1>0
  <2>. QED
    BY <2>2, <2>3
<1> HIDE DEF S
<1>3. \A m \in 0..Len(c) : m \in S
  BY <1>0, <1>1, <1>2, CountUp
<1>. QED
  BY <1>0, <1>3 DEF S

LEMMA FromUnique ==
  ASSUME NEW c \in Seq(Bytes), NEW f, FromGives(c, Len(c), f)
  PROVE  FramesOf(c) = f[Len(c)]
<1> DEFINE g == CHOOSE h : IsFrom(h, c)
           S == {n \in 0..Len(c) : \A k \in 0..n : g[k] = f[k]}
<1>0. Len(c) \in Nat /\ 0 \in 0..Len(c) /\ Len(c) \in 0..Len(c)
  OBVIOUS
<1>1. IsFrom(g, c)
  <2>1. f = [k \in 0..Len(c) |-> FromHere(c, f, k)]
    BY DEF FromGives
  <2>2. IsFrom(f, c)
    BY <2>1, Zenon DEF IsFrom
  <2>. QED
    BY <2>2
<1> HIDE DEF g
<1>2. \A k \in 0..Len(c) : g[k] = FromHere(c, g, k)
  <2>1. g = [k \in 0..Len(c) |-> FromHere(c, g, k)]
    BY <1>1, Zenon DEF IsFrom
  <2> DEFINE F(k) == FromHere(c, g, k)
  <2>2. g = [k \in 0..Len(c) |-> F(k)]
    BY <2>1, Zenon
  <2> HIDE DEF F
  <2>3. \A k \in 0..Len(c) : g[k] = F(k)
    BY <2>2
  <2>. QED
    BY <2>3 DEF F
<1>3. ASSUME NEW k \in 0..Len(c), \A j \in 0..(k - 1) : g[j] = f[j] PROVE g[k] = f[k]
  <2>1. FromHere(c, g, k) = FromHere(c, f, k)
    BY <1>3, FromIsLocal
  <2>. QED
    BY <1>2, <2>1 DEF FromGives
<1>4. 0 \in S
  <2>1. \A j \in 0..(0 - 1) : g[j] = f[j]
    OBVIOUS
  <2>2. g[0] = f[0]
    BY <1>0, <1>3, <2>1
  <2>. QED
    BY <1>0, <2>2
<1>5. ASSUME NEW n \in 0..(Len(c) - 1), n \in S PROVE n + 1 \in S
  <2>1. \A k \in 0..n : g[k] = f[k]
    BY <1>5
  <2>2. n + 1 \in 0..Len(c) /\ (n + 1) - 1 = n /\ n \in Nat
    BY <1>0
  <2>3. g[n + 1] = f[n + 1]
    BY <1>3, <2>1, <2>2
  <2>4. \A k \in 0..(n + 1) : k \in 0..n \/ k = n + 1
    BY <2>2
  <2>5. \A k \in 0..(n + 1) : g[k] = f[k]
    BY <2>1, <2>3, <2>4, Zenon
  <2>. QED
    BY <2>2, <2>5
<1> HIDE DEF S
<1>6. \A n \in 0..Len(c) : n \in S
  BY <1>0, <1>4, <1>5, CountUp
<1>7. Len(c) \in S
  BY <1>0, <1>6
<1>8. g[Len(c)] = f[Len(c)]
  BY <1>0, <1>7 DEF S
<1>9. FramesOf(c) = g[Len(c)]
  BY FramesOfIs, Zenon DEF g
<1>. QED
  BY <1>8, <1>9

\* The reference reader is given with what it finds in every later part.
LEMMA FromOfSuffix ==
  ASSUME NEW c \in Seq(Bytes), NEW f, FromGives(c, Len(c), f), NEW m \in 0..Len(c)
  PROVE  FramesOf(SubSeq(c, Len(c) - m + 1, Len(c))) = f[m]
<1> DEFINE s == Len(c) - m
           d == SubSeq(c, s + 1, Len(c))
           g == [k \in 0..m |-> f[k]]
<1>0. Len(c) \in Nat /\ m \in Nat /\ s \in 0..Len(c) /\ Len(c) - s = m
  OBVIOUS
<1>1. d \in Seq(Bytes) /\ Len(d) = m
  <2> HIDE DEF s
  <2>1. d \in Seq(Bytes) /\ Len(d) = Len(c) - s
    BY <1>0, SuffixIs, Zenon
  <2>. QED
    BY <1>0, <2>1
<1>2. \A k \in 0..m : k \in 0..Len(c) /\ g[k] = f[k]
  BY <1>0
<1>3. g \in [0..m -> Seq(Frame)]
  BY <1>2 DEF FromGives
<1> HIDE DEF g
<1>4. ASSUME NEW k \in 0..m PROVE g[k] = FromHere(d, g, k)
  <2>1. g[k] = FromHere(c, f, k)
    BY <1>2 DEF FromGives
  <2>2. FromHere(d, f, k) = FromHere(c, f, k)
    BY FromSuffix
  <2>3. FromHere(d, f, k) = FromHere(d, g, k)
    <3>1. k \in 0..Len(d)
      BY <1>1
    <3>2. \A j \in 0..(k - 1) : f[j] = g[j]
      BY <1>0, <1>2
    <3> HIDE DEF d
    <3>. QED
      BY <1>1, <3>1, <3>2, FromIsLocal
  <2>. QED
    BY <2>1, <2>2, <2>3
<1> HIDE DEF d
<1>5. FromGives(d, Len(d), g)
  BY <1>1, <1>3, <1>4 DEF FromGives
<1>6. FramesOf(d) = g[m]
  BY <1>1, <1>5, FromUnique
<1>7. g[m] = f[m]
  BY <1>0, <1>2
<1>. QED
  BY <1>6, <1>7 DEF d, s

LEMMA FramesType ==
  ASSUME NEW c \in Seq(Bytes)
  PROVE  FramesOf(c) \in Seq(Frame)
<1>1. PICK f : FromGives(c, Len(c), f)
  BY FromExists
<1>2. FramesOf(c) = f[Len(c)]
  BY <1>1, FromUnique
<1>3. Len(c) \in 0..Len(c)
  OBVIOUS
<1>. QED
  BY <1>1, <1>2, <1>3 DEF FromGives

LEMMA FramesOfNothing == FramesOf(<<>>) = <<>>
<1> DEFINE c == <<>>
<1>1. c \in Seq(Bytes) /\ Len(c) = 0
  OBVIOUS
<1> HIDE DEF c
<1>2. PICK f : FromGives(c, Len(c), f)
  BY <1>1, FromExists
<1>3. FramesOf(c) = f[0]
  BY <1>1, <1>2, FromUnique
<1>4. f[0] = FromHere(c, f, 0)
  BY <1>1, <1>2 DEF FromGives
<1>5. FromHere(c, f, 0) = <<>>
  BY DEF FromHere
<1>. QED
  BY <1>3, <1>4, <1>5 DEF c

Rest(c, i) == SubSeq(c, i, Len(c))

\* What the reference finds in bytes that are there: a frame, nothing yet, or
\* what it finds without the first of them.
LEMMA FramesStep ==
  ASSUME NEW c \in Seq(Bytes), c # <<>>
  PROVE  FramesOf(c) =
           IF MayCut(c, 1)
           THEN IF EndAt(c, 1) > Len(c) THEN <<>>
                ELSE <<FrameAt(c, 1)>> \o FramesOf(Rest(c, EndAt(c, 1) + 1))
           ELSE IF MagicAt(c, 1) /\ ~HeaderAt(c, 1) THEN <<>>
           ELSE FramesOf(Rest(c, 2))
<1> DEFINE N == Len(c)
<1>0. N \in Nat /\ N >= 1 /\ N \in 0..Len(c) /\ N - N + 1 = 1 /\ 1 \in 1..Len(c)
      /\ N - 1 \in 0..Len(c) /\ N - (N - 1) + 1 = 2 /\ N # 0
  OBVIOUS
<1>1. PICK f : FromGives(c, N, f)
  BY FromExists
<1>2. FramesOf(c) = FromHere(c, f, N)
  <2>1. FramesOf(c) = f[N]
    BY <1>1, FromUnique
  <2>. QED
    BY <1>0, <1>1, <2>1 DEF FromGives
<1>3. f[N - 1] = FramesOf(Rest(c, 2))
  <2>1. FramesOf(SubSeq(c, N - (N - 1) + 1, N)) = f[N - 1]
    BY <1>0, <1>1, FromOfSuffix
  <2>. QED
    BY <1>0, <2>1 DEF Rest
<1>4. MayCut(c, 1) /\ ~(EndAt(c, 1) > N) =>
        f[N - EndAt(c, 1)] = FramesOf(Rest(c, EndAt(c, 1) + 1))
  <2> SUFFICES ASSUME MayCut(c, 1), ~(EndAt(c, 1) > N)
               PROVE  f[N - EndAt(c, 1)] = FramesOf(Rest(c, EndAt(c, 1) + 1))
    OBVIOUS
  <2> DEFINE e == EndAt(c, 1)
  <2>1. e \in Nat /\ e >= 6
    BY <1>0, CutFacts
  <2> HIDE DEF e
  <2>2. N - e \in 0..Len(c) /\ N - (N - e) + 1 = e + 1
    BY <1>0, <2>1 DEF e
  <2>3. FramesOf(SubSeq(c, N - (N - e) + 1, N)) = f[N - e]
    BY <1>1, <2>2, FromOfSuffix
  <2>. QED
    BY <2>2, <2>3 DEF Rest, e
<1> HIDE DEF N
<1>5. FromHere(c, f, N) =
           IF MayCut(c, 1)
           THEN IF EndAt(c, 1) > N THEN <<>>
                ELSE <<FrameAt(c, 1)>> \o f[N - EndAt(c, 1)]
           ELSE IF MagicAt(c, 1) /\ ~HeaderAt(c, 1) THEN <<>>
           ELSE f[N - 1]
  <2>1. N = Len(c) /\ N # 0 /\ N - N + 1 = 1
    BY <1>0 DEF N
  <2>. QED
    BY <2>1 DEF FromHere
<1>. QED
  BY <1>2, <1>3, <1>4, <1>5 DEF N

-----------------------------------------------------------------------------
(* What push does to its buffer takes nothing from what the reference finds *)
(* in the buffer and whatever comes after it.                               *)

LEMMA RestIs ==
  ASSUME NEW c \in Seq(Bytes), NEW m \in 1..(Len(c) + 1)
  PROVE  /\ Rest(c, m) \in Seq(Bytes) /\ Len(Rest(c, m)) = Len(c) + 1 - m
         /\ \A n \in 1..(Len(c) + 1 - m) : Rest(c, m)[n] = c[n + (m - 1)]
<1> DEFINE s == m - 1
<1>1. s \in 0..Len(c) /\ s + 1 = m /\ Len(c) - s = Len(c) + 1 - m
  OBVIOUS
<1> HIDE DEF s
<1>2. /\ SubSeq(c, s + 1, Len(c)) \in Seq(Bytes)
      /\ Len(SubSeq(c, s + 1, Len(c))) = Len(c) - s
      /\ \A n \in 1..(Len(c) - s) : SubSeq(c, s + 1, Len(c))[n] = c[n + s]
  BY <1>1, SuffixIs, Zenon
<1>3. SubSeq(c, s + 1, Len(c)) = Rest(c, m)
  BY <1>1 DEF Rest
<1>4. /\ Rest(c, m) \in Seq(Bytes) /\ Len(Rest(c, m)) = Len(c) + 1 - m
      /\ \A n \in 1..(Len(c) + 1 - m) : Rest(c, m)[n] = c[n + s]
  BY <1>1, <1>2, <1>3, Zenon
<1>. QED
  BY <1>4 DEF s

LEMMA RestOfRest ==
  ASSUME NEW c \in Seq(Bytes), NEW n \in 1..Len(c)
  PROVE  Rest(Rest(c, n), 2) = Rest(c, n + 1)
<1>1. SubSeq(c, n, Len(c)) \in Seq(Bytes) /\ Len(SubSeq(c, n, Len(c))) = Len(c) + 1 - n
  BY RestIs DEF Rest
<1>2. /\ n - 1 \in 0..Len(c) /\ (n - 1) + 1 = n /\ 2 + (n - 1) = n + 1
      /\ Len(c) - (n - 1) = Len(c) + 1 - n
      /\ Len(c) + 1 - n + (n - 1) = Len(c)
      /\ 2 \in 1..(Len(c) - (n - 1) + 1) /\ Len(c) + 1 - n \in 0..(Len(c) - (n - 1))
  OBVIOUS
<1> DEFINE s == n - 1
           e == Len(c) + 1 - n
           d == SubSeq(c, n, Len(c))
<1> HIDE DEF s, e, d
<1>3. SubSeq(d, 2, e) = SubSeq(c, 2 + s, e + s)
  <2>1. d = SubSeq(c, s + 1, Len(c))
    BY <1>2 DEF d, s
  <2>2. s \in 0..Len(c) /\ 2 \in 1..(Len(c) - s + 1) /\ e \in 0..(Len(c) - s)
    BY <1>2 DEF s, e
  <2>. QED
    BY <2>1, <2>2, SubSeqOfSuffix
<1>4. SubSeq(d, 2, Len(d)) = SubSeq(c, n + 1, Len(c))
  BY <1>1, <1>2, <1>3 DEF s, e, d
<1>. QED
  BY <1>4 DEF Rest, d

\* Where there is no magic, the reference moves on.
LEMMA Skipping ==
  ASSUME NEW c \in Seq(Bytes), NEW m \in 1..(Len(c) + 1),
         \A j \in 1..(m - 1) : ~MagicAt(c, j)
  PROVE  FramesOf(c) = FramesOf(Rest(c, m))
<1> DEFINE S == {n \in 0..(m - 1) : FramesOf(c) = FramesOf(Rest(c, n + 1))}
<1>0. Len(c) \in Nat /\ m \in Nat /\ m - 1 \in Nat /\ (m - 1) + 1 = m
        /\ m - 1 \in 0..(m - 1)
  OBVIOUS
<1>1. 0 \in S
  <2>1. Rest(c, 0 + 1) = c
    BY DEF Rest
  <2>. QED
    BY <1>0, <2>1
<1>2. ASSUME NEW n \in 0..((m - 1) - 1), n \in S PROVE n + 1 \in S
  <2> DEFINE d == Rest(c, n + 1)
  <2>0. n + 1 \in 1..Len(c) /\ n + 1 \in 1..(Len(c) + 1) /\ n + 1 \in 1..(m - 1)
        /\ n + 1 \in 0..(m - 1) /\ n \in Nat
    BY <1>0
  <2>1. /\ d \in Seq(Bytes) /\ Len(d) = Len(c) + 1 - (n + 1)
        /\ \A j \in 1..(Len(c) + 1 - (n + 1)) : d[j] = c[j + ((n + 1) - 1)]
    <3> DEFINE k == n + 1
    <3>1. k \in 1..(Len(c) + 1)
      BY <2>0
    <3> HIDE DEF k
    <3>2. /\ Rest(c, k) \in Seq(Bytes) /\ Len(Rest(c, k)) = Len(c) + 1 - k
          /\ \A j \in 1..(Len(c) + 1 - k) : Rest(c, k)[j] = c[j + (k - 1)]
      BY <3>1, RestIs, Zenon
    <3>. QED
      BY <3>2 DEF k
  <2> HIDE DEF d
  <2>2. d # <<>> /\ Len(d) = Len(c) - n /\ Len(d) >= 1
    BY <1>0, <2>0, <2>1
  <2>3. ~MagicAt(d, 1)
    <3> SUFFICES ASSUME MagicAt(d, 1) PROVE FALSE
      OBVIOUS
    <3>1. DOMAIN d = 1..Len(d) /\ DOMAIN c = 1..Len(c)
      BY <2>1
    <3>2. /\ 1 \in 1..(Len(c) + 1 - (n + 1)) /\ 2 \in 1..(Len(c) + 1 - (n + 1))
          /\ (n + 1) + 1 \in 1..Len(c)
          /\ 1 + ((n + 1) - 1) = n + 1 /\ 2 + ((n + 1) - 1) = (n + 1) + 1
      BY <1>0, <2>0, <2>2, <3>1 DEF MagicAt
    <3>3. d[1] = c[n + 1] /\ d[2] = c[(n + 1) + 1]
      <4>1. d[1] = c[1 + ((n + 1) - 1)] /\ d[2] = c[2 + ((n + 1) - 1)]
        BY <2>1, <3>2
      <4>. QED
        BY <3>2, <4>1
    <3>4. MagicAt(c, n + 1)
      BY <3>1, <3>2, <3>3 DEF MagicAt
    <3>. QED
      BY <2>0, <3>4
  <2>4. FramesOf(d) = FramesOf(Rest(d, 2))
    BY <2>1, <2>2, <2>3, FramesStep DEF MayCut, HeaderAt
  <2>5. Rest(d, 2) = Rest(c, (n + 1) + 1)
    BY <2>0, RestOfRest DEF d
  <2>6. FramesOf(c) = FramesOf(d)
    BY <1>2 DEF d
  <2>. QED
    BY <2>0, <2>4, <2>5, <2>6
<1> HIDE DEF S
<1>3. m - 1 \in S
  <2>1. \A n \in 0..(m - 1) : n \in S
    BY <1>0, <1>1, <1>2, CountUp
  <2>. QED
    BY <1>0, <2>1
<1>. QED
  BY <1>0, <1>3 DEF S

LEMMA Joined ==
  ASSUME NEW b \in Seq(Bytes), NEW x \in Seq(Bytes)
  PROVE  /\ b \o x \in Seq(Bytes) /\ Len(b \o x) = Len(b) + Len(x)
         /\ DOMAIN (b \o x) = 1..(Len(b) + Len(x)) /\ DOMAIN b = 1..Len(b)
         /\ Len(b) \in Nat /\ Len(x) \in Nat
         /\ \A i \in 1..Len(b) : (b \o x)[i] = b[i]
  OBVIOUS

LEMMA JoinedPart ==
  ASSUME NEW b \in Seq(Bytes), NEW x \in Seq(Bytes),
         NEW a \in 1..(Len(b) + 1), NEW e \in 0..Len(b)
  PROVE  SubSeq(b \o x, a, e) = SubSeq(b, a, e)
  OBVIOUS

LEMMA JoinedRest ==
  ASSUME NEW b \in Seq(Bytes), NEW x \in Seq(Bytes), NEW m \in 1..(Len(b) + 1)
  PROVE  Rest(b \o x, m) = Rest(b, m) \o x
  BY DEF Rest

\* In the bytes of b a magic stands where it stands in b.
LEMMA MagicOfJoined ==
  ASSUME NEW b \in Seq(Bytes), NEW x \in Seq(Bytes), NEW j \in Nat, 1 <= j, j < Len(b)
  PROVE  MagicAt(b \o x, j) <=> MagicAt(b, j)
<1>1. j \in 1..Len(b) /\ j + 1 \in 1..Len(b) /\ j + 1 \in 1..(Len(b) + Len(x))
  BY Joined
<1>2. (b \o x)[j] = b[j] /\ (b \o x)[j + 1] = b[j + 1]
  BY <1>1, Joined
<1>3. j + 1 \in DOMAIN b /\ j + 1 \in DOMAIN (b \o x)
  BY <1>1, Joined
<1>. QED
  BY <1>2, <1>3 DEF MagicAt

\* discard_before_magic, and that what it keeps starts with a magic if it is more
\* than the half of one.
LEMMA DiscardingKeeps ==
  ASSUME NEW b \in Seq(Bytes)
  PROVE  /\ \A x \in Seq(Bytes) : FramesOf(Discarded(b) \o x) = FramesOf(b \o x)
         /\ \/ Discarded(b) = <<>> \/ Discarded(b) = <<65>>
            \/ MagicAt(Discarded(b), 1)
<1>0. Len(b) \in Nat /\ DOMAIN b = 1..Len(b)
  OBVIOUS
<1>1. CASE \E i \in DOMAIN b : MagicAt(b, i)
  <2> DEFINE First(i) == MagicAt(b, i) /\ \A j \in DOMAIN b : MagicAt(b, j) => i <= j
             first == CHOOSE i \in DOMAIN b : First(i)
  <2>1. \E i \in DOMAIN b : First(i)
    <3> DEFINE S == {i \in DOMAIN b : MagicAt(b, i)}
    <3>1. S \subseteq Nat /\ S # {}
      BY <1>1
    <3>2. PICK m \in S : \A j \in S : m <= j
      BY <3>1, SmallestMember
    <3>. QED
      BY <3>2
  <2>2. first \in DOMAIN b /\ First(first)
    BY <2>1
  <2>3. Discarded(b) = SubSeq(b, first, Len(b))
    BY <1>1 DEF Discarded
  <2> HIDE DEF first
  <2>4. /\ first \in Nat /\ first \in 1..Len(b) /\ first + 1 \in 1..Len(b)
        /\ first \in 1..(Len(b) + 1)
    BY <1>0, <2>2 DEF MagicAt
  <2>5. Discarded(b) = Rest(b, first)
    BY <2>3 DEF Rest
  <2>6. MagicAt(Rest(b, first), 1)
    <3>1. /\ Rest(b, first) \in Seq(Bytes) /\ Len(Rest(b, first)) = Len(b) + 1 - first
          /\ \A n \in 1..(Len(b) + 1 - first) : Rest(b, first)[n] = b[n + (first - 1)]
      BY <2>4, RestIs
    <3>2. /\ 1 \in 1..(Len(b) + 1 - first) /\ 2 \in 1..(Len(b) + 1 - first)
          /\ 1 + (first - 1) = first /\ 2 + (first - 1) = first + 1
      BY <1>0, <2>4
    <3>3. Rest(b, first)[1] = b[first] /\ Rest(b, first)[2] = b[first + 1]
      <4>1. /\ Rest(b, first)[1] = b[1 + (first - 1)]
            /\ Rest(b, first)[2] = b[2 + (first - 1)]
        BY <3>1, <3>2
      <4>. QED
        BY <3>2, <4>1
    <3>4. 1 + 1 \in DOMAIN Rest(b, first)
      BY <3>1, <3>2
    <3>. QED
      BY <2>2, <3>3, <3>4 DEF MagicAt
  <2>7. ASSUME NEW x \in Seq(Bytes) PROVE FramesOf(Discarded(b) \o x) = FramesOf(b \o x)
    <3>1. first \in 1..(Len(b \o x) + 1) /\ b \o x \in Seq(Bytes)
      BY <1>0, <2>4, Joined
    <3>2. ASSUME NEW j \in 1..(first - 1) PROVE ~MagicAt(b \o x, j)
      <4>1. j \in Nat /\ 1 <= j /\ j < Len(b) /\ ~(first <= j) /\ j \in 1..Len(b)
        BY <1>0, <2>4
      <4>2. ~MagicAt(b, j)
        BY <1>0, <2>2, <4>1
      <4>. QED
        BY <4>1, <4>2, MagicOfJoined
    <3>3. FramesOf(b \o x) = FramesOf(Rest(b \o x, first))
      <4> DEFINE c == b \o x
      <4> HIDE DEF c
      <4>1. FramesOf(c) = FramesOf(Rest(c, first))
        BY <3>1, <3>2, Skipping DEF c
      <4>. QED
        BY <4>1 DEF c
    <3>. QED
      BY <2>4, <2>5, <3>3, JoinedRest
  <2>. QED
    BY <2>5, <2>6, <2>7
<1>2. CASE ~ \E i \in DOMAIN b : MagicAt(b, i)
  <2>0. ASSUME NEW x \in Seq(Bytes), NEW j \in 1..(Len(b) - 1) PROVE ~MagicAt(b \o x, j)
    <3>1. j \in Nat /\ 1 <= j /\ j < Len(b) /\ j \in DOMAIN b
      BY <1>0
    <3>. QED
      BY <1>2, <3>1, MagicOfJoined
  <2>1. CASE b # <<>> /\ b[Len(b)] = Magic[1]
    <3>1. Discarded(b) = <<65>>
      BY <1>2, <2>1, MagicIs DEF Discarded
    <3>2. Len(b) \in 1..(Len(b) + 1) /\ Len(b) \in 1..Len(b)
      BY <1>0, <2>1
    <3>3. Rest(b, Len(b)) = <<65>>
      <4> DEFINE r == Rest(b, Len(b))
      <4>1. /\ r \in Seq(Bytes) /\ Len(r) = Len(b) + 1 - Len(b)
            /\ \A n \in 1..(Len(b) + 1 - Len(b)) : r[n] = b[n + (Len(b) - 1)]
        BY <3>2, RestIs
      <4>2. /\ Len(b) + 1 - Len(b) = 1 /\ 1 + (Len(b) - 1) = Len(b)
            /\ 1 \in 1..(Len(b) + 1 - Len(b))
        BY <1>0
      <4>3. r[1] = 65 /\ Len(r) = 1
        <5>1. r[1] = b[1 + (Len(b) - 1)]
          BY <4>1, <4>2
        <5>. QED
          BY <2>1, <4>1, <4>2, <5>1, MagicIs
      <4> HIDE DEF r
      <4>4. r = <<65>>
        BY <4>1, <4>3
      <4>. QED
        BY <4>4 DEF r
    <3>4. ASSUME NEW x \in Seq(Bytes) PROVE FramesOf(Discarded(b) \o x) = FramesOf(b \o x)
      <4> DEFINE c == b \o x
                 m == Len(b)
      <4>1. c \in Seq(Bytes) /\ m \in 1..(Len(c) + 1)
              /\ \A j \in 1..(m - 1) : ~MagicAt(c, j)
        BY <1>0, <2>0, <3>2, Joined
      <4> HIDE DEF c, m
      <4>2. FramesOf(c) = FramesOf(Rest(c, m))
        BY <4>1, Skipping
      <4>3. Rest(c, m) = Rest(b, m) \o x
        BY <3>2, JoinedRest DEF c, m
      <4>. QED
        BY <3>1, <3>3, <4>2, <4>3 DEF c, m
    <3>. QED
      BY <3>1, <3>4
  <2>2. CASE ~(b # <<>> /\ b[Len(b)] = Magic[1])
    <3>1. Discarded(b) = <<>>
      BY <1>2, <2>2 DEF Discarded
    <3>2. ASSUME NEW x \in Seq(Bytes) PROVE FramesOf(Discarded(b) \o x) = FramesOf(b \o x)
      <4> DEFINE c == b \o x
                 m == Len(b) + 1
      <4>1. c \in Seq(Bytes) /\ m \in 1..(Len(c) + 1) /\ m \in 1..(Len(b) + 1)
        BY <1>0, Joined
      <4>2. ASSUME NEW j \in 1..(m - 1) PROVE ~MagicAt(c, j)
        <5>1. CASE j = Len(b)
          <6>1. Len(b) \in 1..Len(b) /\ b # <<>>
            BY <1>0, <5>1
          <6>2. c[Len(b)] = b[Len(b)]
            BY <6>1, Joined
          <6>. QED
            BY <2>2, <5>1, <6>1, <6>2 DEF MagicAt
        <5>2. CASE j # Len(b)
          <6>1. \A n \in Nat : \A k \in 1..((n + 1) - 1) : k # n => k \in 1..(n - 1)
            OBVIOUS
          <6>2. j \in 1..(Len(b) - 1)
            BY <1>0, <5>2, <6>1
          <6>. QED
            BY <2>0, <6>2
        <5>. QED
          BY <5>1, <5>2
      <4> HIDE DEF c, m
      <4>3. FramesOf(c) = FramesOf(Rest(c, m))
        BY <4>1, <4>2, Skipping
      <4>4. Rest(c, m) = Rest(b, m) \o x
        BY <4>1, JoinedRest DEF c
      <4>5. Rest(b, m) = <<>>
        BY <1>0 DEF Rest, m
      <4>. QED
        BY <3>1, <4>3, <4>4, <4>5 DEF c
    <3>. QED
      BY <3>1, <3>2
  <2>. QED
    BY <2>1, <2>2
<1>. QED
  BY <1>1, <1>2

\* A header that push looks at is one the reference looks at.
LEMMA HeaderOfJoined ==
  ASSUME NEW d \in Seq(Bytes), NEW x \in Seq(Bytes), ~Short(d), MagicAt(d, 1)
  PROVE  /\ d \o x \in Seq(Bytes) /\ d \o x # <<>>
         /\ MagicAt(d \o x, 1) /\ HeaderAt(d \o x, 1)
         /\ LengthAt(d \o x, 1) = Announced(d) /\ Announced(d) \in Nat
         /\ EndAt(d \o x, 1) = HeaderLength + Announced(d)
         /\ (d \o x)[1 + 2] = d[3] /\ (d \o x)[1 + 3] = d[4]
<1> DEFINE c == d \o x
<1>1. /\ c \in Seq(Bytes) /\ Len(c) = Len(d) + Len(x)
      /\ Len(d) \in Nat /\ Len(x) \in Nat /\ \A i \in 1..Len(d) : c[i] = d[i]
  BY Joined
<1>2. Len(d) >= 6
  BY <1>1 DEF Short, HeaderLength
<1> HIDE DEF c
<1>3. /\ c[3] = d[3] /\ c[4] = d[4] /\ c[5] = d[5] /\ c[6] = d[6]
  BY <1>1, <1>2
<1>4. Announced(d) \in Nat
  BY AnnouncedType
<1>5. MagicAt(c, 1)
  <2>1. 1 \in Nat /\ 1 <= 1 /\ 1 < Len(d)
    BY <1>1, <1>2
  <2>. QED
    BY <2>1, MagicOfJoined DEF c
<1>6. Len(c) >= 6 /\ Len(c) \in Nat
  BY <1>1, <1>2
<1>7. HeaderAt(c, 1) /\ c # <<>>
  BY <1>5, <1>6 DEF HeaderAt, HeaderLength
<1>8. LengthAt(c, 1) = Announced(d)
  <2>1. 1 + 4 = 5 /\ 1 + 5 = 6
    OBVIOUS
  <2>. QED
    BY <1>3, <2>1 DEF LengthAt, Announced
<1>9. EndAt(c, 1) = HeaderLength + Announced(d)
  BY <1>4, <1>8 DEF EndAt, HeaderLength
<1>10. c[1 + 2] = d[3] /\ c[1 + 3] = d[4]
  <2>1. 1 + 2 = 3 /\ 1 + 3 = 4
    OBVIOUS
  <2>. QED
    BY <1>3, <2>1
<1>. QED
  BY <1>1, <1>4, <1>5, <1>7, <1>8, <1>9, <1>10 DEF c

LEMMA LongStartsWithMagic ==
  ASSUME NEW b \in Seq(Bytes), ~Short(Discarded(b))
  PROVE  MagicAt(Discarded(b), 1)
<1> DEFINE d == Discarded(b)
<1>1. ~Short(d)
  OBVIOUS
<1> HIDE DEF d
<1>2. d # <<>> /\ d # <<65>>
  <2>1. Short(<<>>) /\ Short(<<65>>)
    <3>1. Len(<<>>) = 0 /\ Len(<<65>>) = 1 /\ 0 < 6 /\ 1 < 6
      OBVIOUS
    <3>. QED
      BY <3>1, Zenon DEF Short, HeaderLength
  <2>. QED
    BY <1>1, <2>1, Zenon
<1> USE DEF d
<1>. QED
  BY <1>2, DiscardingKeeps

\* What waits for the next read holds no frame.
LEMMA WaitingHoldsNone ==
  ASSUME NEW b \in Seq(Bytes), ~Short(Discarded(b)) => /\ ~Oversized(Discarded(b))
                                                       /\ Incomplete(Discarded(b))
  PROVE  FramesOf(Discarded(b)) = <<>>
<1> DEFINE d == Discarded(b)
<1>1. d \in Seq(Bytes)
  BY DiscardedType
<1>2. d = <<>> \/ d = <<65>> \/ MagicAt(d, 1)
  BY DiscardingKeeps
<1>3. /\ ~Short(d) => ~Oversized(d) /\ Incomplete(d)
      /\ ~Short(d) => MagicAt(d, 1)
  BY LongStartsWithMagic
<1> HIDE DEF d
<1>4. CASE d = <<>>
  BY <1>4, FramesOfNothing DEF d
<1>5. CASE d = <<65>>
  <2>1. d # <<>> /\ ~MagicAt(d, 1)
    BY <1>5 DEF MagicAt
  <2>2. Rest(d, 2) = <<>>
    BY <1>5 DEF Rest
  <2>3. FramesOf(d) = FramesOf(Rest(d, 2))
    BY <1>1, <2>1, FramesStep DEF MayCut, HeaderAt
  <2>. QED
    BY <2>2, <2>3, FramesOfNothing DEF d
<1>6. CASE MagicAt(d, 1) /\ Short(d)
  <2>1. d # <<>> /\ ~HeaderAt(d, 1)
    <3>1. Len(d) < 6 /\ Len(d) \in Nat /\ Len(d) # 0
      BY <1>1, <1>6 DEF Short, HeaderLength, MagicAt
    <3>. QED
      BY <3>1 DEF HeaderAt, HeaderLength
  <2>2. FramesOf(d) = <<>>
    BY <1>1, <1>6, <2>1, FramesStep DEF MayCut
  <2>. QED
    BY <2>2 DEF d
<1>7. CASE ~Short(d)
  <2>1. /\ HeaderAt(d, 1) /\ LengthAt(d, 1) = Announced(d) /\ Announced(d) \in Nat
        /\ EndAt(d, 1) = HeaderLength + Announced(d) /\ d # <<>>
    <3>1. d \o <<>> = d
      BY <1>1
    <3>2. <<>> \in Seq(Bytes)
      OBVIOUS
    <3>. QED
      BY <1>1, <1>3, <1>7, <3>1, <3>2, HeaderOfJoined
  <2>2. MayCut(d, 1)
    BY <1>3, <1>7, <2>1, FrameAssumption DEF MayCut, Oversized
  <2>3. EndAt(d, 1) > Len(d)
    BY <1>1, <1>3, <1>7, <2>1 DEF Incomplete, HeaderLength
  <2>4. FramesOf(d) = <<>>
    BY <1>1, <2>1, <2>2, <2>3, FramesStep
  <2>. QED
    BY <2>4 DEF d
<1>. QED
  BY <1>2, <1>4, <1>5, <1>6, <1>7

\* A header that cannot be hides no frame.
LEMMA SkippingKeeps ==
  ASSUME NEW b \in Seq(Bytes), ~Short(Discarded(b)), Oversized(Discarded(b)),
         NEW x \in Seq(Bytes)
  PROVE  FramesOf(Tail(Discarded(b)) \o x) = FramesOf(b \o x)
<1> DEFINE d == Discarded(b)
           c == d \o x
<1>1. d \in Seq(Bytes) /\ MagicAt(d, 1) /\ ~Short(d) /\ Oversized(d)
  BY DiscardedType, LongStartsWithMagic
<1>2. FramesOf(c) = FramesOf(b \o x)
  BY DiscardingKeeps
<1> HIDE DEF d
<1>3. /\ c \in Seq(Bytes) /\ c # <<>> /\ HeaderAt(c, 1)
      /\ LengthAt(c, 1) = Announced(d) /\ Announced(d) \in Nat
  BY <1>1, HeaderOfJoined
<1>4. ~MayCut(c, 1)
  BY <1>1, <1>3, FrameAssumption DEF MayCut, Oversized
<1>5. FramesOf(c) = FramesOf(Rest(c, 2))
  <2> HIDE DEF c
  <2>. QED
    BY <1>3, <1>4, FramesStep
<1>6. Rest(c, 2) = Tail(d) \o x
  <2>1. 2 \in 1..(Len(d) + 1)
    BY <1>1 DEF Short, HeaderLength
  <2>2. Rest(c, 2) = Rest(d, 2) \o x
    BY <1>1, <2>1, JoinedRest
  <2>3. Rest(d, 2) = Tail(d)
    BY <1>1 DEF Rest
  <2>. QED
    BY <2>2, <2>3
<1>. QED
  BY <1>2, <1>5, <1>6 DEF d

\* What push takes off the buffer is the first frame the reference finds.
LEMMA TakingKeeps ==
  ASSUME NEW b \in Seq(Bytes), NEW x \in Seq(Bytes), NEW d, d = Discarded(b),
         ~Short(d), ~Oversized(d), ~Incomplete(d)
  PROVE  FramesOf(b \o x) =
           <<[version |-> d[3], type |-> d[4],
              payload |-> SubSeq(d, HeaderLength + 1, HeaderLength + Announced(d))]>>
           \o FramesOf(SubSeq(d, HeaderLength + Announced(d) + 1, Len(d)) \o x)
<1> DEFINE c == d \o x
           e == HeaderLength + Announced(d)
<1>1. d \in Seq(Bytes) /\ MagicAt(d, 1)
  BY DiscardedType, LongStartsWithMagic
<1>2. FramesOf(c) = FramesOf(b \o x)
  BY DiscardingKeeps
<1>3. /\ c \in Seq(Bytes) /\ c # <<>> /\ HeaderAt(c, 1)
      /\ LengthAt(c, 1) = Announced(d) /\ Announced(d) \in Nat /\ EndAt(c, 1) = e
      /\ c[1 + 2] = d[3] /\ c[1 + 3] = d[4]
  BY <1>1, HeaderOfJoined
<1>4. MayCut(c, 1)
  BY <1>3, FrameAssumption DEF MayCut, Oversized
<1>5. /\ e \in Nat /\ e <= Len(d) /\ e >= 6 /\ Len(d) \in Nat
      /\ Len(c) = Len(d) + Len(x) /\ Len(x) \in Nat
  BY <1>1, <1>3, Joined DEF Incomplete, HeaderLength
<1> HIDE DEF e
<1>6. ~(EndAt(c, 1) > Len(c))
  <2>1. e <= Len(c) /\ Len(c) \in Nat
    BY <1>5
  <2> HIDE DEF c
  <2>. QED
    BY <1>3, <1>5, <2>1
<1>7. FramesOf(c) = <<FrameAt(c, 1)>> \o FramesOf(Rest(c, e + 1))
  <2> HIDE DEF c
  <2>. QED
    BY <1>3, <1>4, <1>6, FramesStep
<1>8. Rest(c, e + 1) = SubSeq(d, e + 1, Len(d)) \o x
  <2> DEFINE m == e + 1
  <2>1. m \in 1..(Len(d) + 1)
    BY <1>5
  <2> HIDE DEF m
  <2>2. Rest(c, m) = Rest(d, m) \o x
    BY <1>1, <2>1, JoinedRest
  <2>. QED
    BY <2>2 DEF Rest, m
<1>9. FrameAt(c, 1) = [version |-> d[3], type |-> d[4],
                       payload |-> SubSeq(d, HeaderLength + 1, e)]
  <2>1. SubSeq(c, 1 + HeaderLength, EndAt(c, 1)) = SubSeq(d, HeaderLength + 1, e)
    <3> DEFINE a == HeaderLength + 1
    <3>1. a \in 1..(Len(d) + 1) /\ e \in 0..Len(d) /\ 1 + HeaderLength = a
      BY <1>5 DEF HeaderLength
    <3> HIDE DEF a
    <3>2. SubSeq(c, a, e) = SubSeq(d, a, e)
      BY <1>1, <3>1, JoinedPart
    <3>. QED
      BY <1>3, <3>1, <3>2 DEF a
  <2> HIDE DEF c
  <2>. QED
    BY <1>3, <2>1 DEF FrameAt
<1> HIDE DEF c
<1>. QED
  BY <1>2, <1>7, <1>8, <1>9 DEF e

-----------------------------------------------------------------------------
(* What was cut out, and what the reference finds in the buffer and in      *)
(* whatever follows it, is what it finds in the stream.                     *)

ReadSoFar == SubSeq(stream, 1, position)

CutInv ==
  /\ phase # "parsing" => FramesOf(buffer) = <<>>
  /\ phase = "idle" => batch = <<>>
  /\ \A x \in Seq(Bytes) :
       FramesOf(ReadSoFar \o x) = (taken \o batch) \o FramesOf(buffer \o x)

\* The equation, for a parser that has buffer b and frames f out of it.
CutTo(read, frames, b) ==
  \A x \in Seq(Bytes) : FramesOf(read \o x) = frames \o FramesOf(b \o x)

LEMMA CutInitially == WireInit => CutInv
<1> SUFFICES ASSUME WireInit PROVE CutInv
  OBVIOUS
<1>1. buffer = <<>> /\ batch = <<>> /\ taken = <<>> /\ position = 0
  BY DEF WireInit, ParserInit
<1>2. ReadSoFar = <<>>
  <2>1. SubSeq(stream, 1, 0) = <<>>
    OBVIOUS
  <2>. QED
    BY <1>1, <2>1 DEF ReadSoFar
<1>3. ASSUME NEW x \in Seq(Bytes)
      PROVE  FramesOf(ReadSoFar \o x) = (taken \o batch) \o FramesOf(buffer \o x)
  <2>1. <<>> \o x = x /\ <<>> \o <<>> = <<>>
    OBVIOUS
  <2>2. FramesOf(x) \in Seq(Frame)
    BY FramesType
  <2>3. <<>> \o FramesOf(x) = FramesOf(x)
    BY <2>2
  <2>. QED
    BY <1>1, <1>2, <2>1, <2>3
<1>. QED
  BY <1>1, <1>3, FramesOfNothing DEF CutInv

LEMMA CutAtRead == ASSUME WireInv, CutInv, Read PROVE CutInv'
<1>1. /\ stream \in Seq(Bytes) /\ position \in 0..Len(stream) /\ buffer \in Seq(Bytes)
      /\ Len(buffer) \in Nat /\ ParserInv /\ phase = "idle"
  BY DEF WireInv, ParserInv, ParserTypeOK, Read, Push
<1>2. PICK bytes \in Seq(Bytes) :
        /\ bytes = SubSeq(stream, position + 1, position')
        /\ Push(bytes) /\ Len(bytes) <= ReadLength
  BY ReadGives
<1>3. position' \in 0..Len(stream) /\ position < position'
  BY ReadGives
<1>4. ~Overflows(bytes)
  <2>1. Len(buffer) < HeaderLength + MaximumPayloadLength
    BY <1>1 DEF ParserInv, Largest
  <2>2. Len(bytes) \in Nat /\ Len(bytes) <= ReadLength
    BY <1>2
  <2>. QED
    BY <1>1, <2>1, <2>2, FrameAssumption, ParserAssumption DEF Overflows, HeaderLength
<1>5. /\ buffer' = buffer \o bytes /\ phase' = "parsing" /\ batch' = <<>>
      /\ stream' = stream /\ taken' = taken /\ batch = <<>>
  BY <1>1, <1>2, <1>4 DEF Push, Read, CutInv
<1>6. ReadSoFar \o bytes = ReadSoFar'
  <2> DEFINE p == position
             q == position'
  <2>1. p \in Nat /\ q \in Nat /\ p <= q /\ p \in 0..Len(stream) /\ q \in 0..Len(stream)
    BY <1>1, <1>3
  <2> HIDE DEF p, q
  <2>2. SubSeq(stream, 1, p) \o SubSeq(stream, p + 1, q) = SubSeq(stream, 1, q)
    BY <1>1, <2>1
  <2>. QED
    BY <1>2, <1>5, <2>2 DEF ReadSoFar, p, q
<1>7. ReadSoFar \in Seq(Bytes)
  BY <1>1 DEF ReadSoFar
<1>8. ASSUME NEW x \in Seq(Bytes)
      PROVE  FramesOf(ReadSoFar' \o x) = (taken' \o batch') \o FramesOf(buffer' \o x)
  <2>1. bytes \o x \in Seq(Bytes)
    BY Joined
  <2>2. FramesOf(ReadSoFar \o (bytes \o x)) =
          (taken \o batch) \o FramesOf(buffer \o (bytes \o x))
    BY <2>1 DEF CutInv
  <2>3. \A s \in Seq(Bytes) : s \o (bytes \o x) = (s \o bytes) \o x
    OBVIOUS
  <2>4. /\ ReadSoFar \o (bytes \o x) = ReadSoFar' \o x
        /\ buffer \o (bytes \o x) = buffer' \o x
    <3>1. /\ ReadSoFar \o (bytes \o x) = (ReadSoFar \o bytes) \o x
          /\ buffer \o (bytes \o x) = (buffer \o bytes) \o x
      BY <1>1, <1>7, <2>3, Zenon
    <3>. QED
      BY <1>5, <1>6, <3>1, Zenon
  <2>5. taken' \o batch' = taken \o batch
    BY <1>5
  <2>. QED
    BY <2>2, <2>4, <2>5, Zenon
<1>. QED
  BY <1>5, <1>8 DEF CutInv

LEMMA CutAtParse == ASSUME WireInv, CutInv, Cut PROVE CutInv'
<1> DEFINE d == Discarded(buffer)
<1>1. buffer \in Seq(Bytes) /\ taken \in Seq(Frame) /\ batch \in Seq(Frame)
  BY DEF WireInv, ParserInv, ParserTypeOK
<1>2. /\ taken' = taken /\ ReadSoFar' = ReadSoFar /\ phase = "parsing"
  BY DEF Cut, Parse, Await, Skip, Take, ReadSoFar
<1>3. \A x \in Seq(Bytes) :
        FramesOf(ReadSoFar \o x) = (taken \o batch) \o FramesOf(buffer \o x)
  BY DEF CutInv
<1>4. CASE Await
  <2>1. /\ buffer' = d /\ batch' = batch /\ phase' = "parsed"
        /\ ~Short(d) => ~Oversized(d) /\ Incomplete(d)
    BY <1>4 DEF Await
  <2>2. FramesOf(d) = <<>>
    BY <1>1, <2>1, WaitingHoldsNone
  <2>3. \A x \in Seq(Bytes) : FramesOf(d \o x) = FramesOf(buffer \o x)
    BY <1>1, DiscardingKeeps
  <2> HIDE DEF d
  <2>4. \A x \in Seq(Bytes) :
          FramesOf(ReadSoFar' \o x) = (taken' \o batch') \o FramesOf(buffer' \o x)
    BY <1>2, <1>3, <2>1, <2>3, Zenon
  <2>. QED
    BY <2>1, <2>2, <2>4 DEF CutInv
<1>5. CASE Skip
  <2>1. /\ buffer' = Tail(d) /\ batch' = batch /\ phase' = phase
        /\ ~Short(d) /\ Oversized(d)
    BY <1>5 DEF Skip
  <2>2. \A x \in Seq(Bytes) : FramesOf(Tail(d) \o x) = FramesOf(buffer \o x)
    BY <1>1, <2>1, SkippingKeeps
  <2> HIDE DEF d
  <2>3. \A x \in Seq(Bytes) :
          FramesOf(ReadSoFar' \o x) = (taken' \o batch') \o FramesOf(buffer' \o x)
    BY <1>2, <1>3, <2>1, <2>2, Zenon
  <2>. QED
    BY <1>2, <2>1, <2>3 DEF CutInv
<1>6. CASE Take
  <2> DEFINE frame == [version |-> d[3], type |-> d[4],
                       payload |-> SubSeq(d, HeaderLength + 1, HeaderLength + Announced(d))]
             rest  == SubSeq(d, HeaderLength + Announced(d) + 1, Len(d))
  <2>1. /\ buffer' = rest /\ batch' = Append(batch, frame) /\ phase' = phase
        /\ ~Short(d) /\ ~Oversized(d) /\ ~Incomplete(d)
    BY <1>6 DEF Take
  <2>2. \A x \in Seq(Bytes) : FramesOf(buffer \o x) = <<frame>> \o FramesOf(rest \o x)
    <3> SUFFICES ASSUME NEW x \in Seq(Bytes)
                 PROVE  FramesOf(buffer \o x) = <<frame>> \o FramesOf(rest \o x)
      OBVIOUS
    <3>. QED
      BY <1>1, <2>1, TakingKeeps
  <2>3. ParserInv'
    BY <1>6, TakeInv DEF WireInv
  <2>4. rest \in Seq(Bytes) /\ frame \in Frame
    <3> HIDE DEF frame, rest
    <3>1. batch' \in Seq(Frame) /\ buffer' \in Seq(Bytes)
      BY <2>3 DEF ParserInv, ParserTypeOK
    <3>2. /\ Len(batch') = Len(batch) + 1 /\ batch'[Len(batch) + 1] = frame
          /\ Len(batch) + 1 \in 1..(Len(batch) + 1)
      BY <1>1, <2>1
    <3>3. batch'[Len(batch) + 1] \in Frame
      BY <3>1, <3>2
    <3>. QED
      BY <2>1, <3>1, <3>2, <3>3
  <2> HIDE DEF frame, rest, d
  <2>5. ASSUME NEW x \in Seq(Bytes)
        PROVE  FramesOf(ReadSoFar' \o x) = (taken' \o batch') \o FramesOf(buffer' \o x)
    <3> DEFINE r == FramesOf(rest \o x)
    <3>1. r \in Seq(Frame)
      BY <2>4, Joined, FramesType
    <3> HIDE DEF r
    <3>2. (taken \o batch) \o (<<frame>> \o r) = (taken \o Append(batch, frame)) \o r
      <4>1. taken \o batch \in Seq(Frame) /\ <<frame>> \in Seq(Frame)
        BY <1>1, <2>4
      <4>2. (taken \o batch) \o (<<frame>> \o r) = ((taken \o batch) \o <<frame>>) \o r
        BY <3>1, <4>1
      <4>3. (taken \o batch) \o <<frame>> = taken \o Append(batch, frame)
        <5>1. Append(batch, frame) = batch \o <<frame>>
          BY <1>1, <2>4, AppendIsConcat
        <5>2. (taken \o batch) \o <<frame>> = taken \o (batch \o <<frame>>)
          BY <1>1, <4>1
        <5>. QED
          BY <5>1, <5>2
      <4>. QED
        BY <4>2, <4>3
    <3>3. FramesOf(ReadSoFar \o x) = (taken \o batch) \o (<<frame>> \o r)
      BY <1>3, <2>2 DEF r
    <3>. QED
      BY <1>2, <2>1, <3>2, <3>3 DEF r
  <2>. QED
    BY <1>2, <2>1, <2>5 DEF CutInv
<1>. QED
  BY <1>4, <1>5, <1>6 DEF Cut, Parse

LEMMA CutAtConsumed ==
  ASSUME WireInv, CutInv, Consumed, taken' = taken \o batch, UNCHANGED <<stream, position>>
  PROVE  CutInv'
<1>1. /\ taken \in Seq(Frame) /\ batch \in Seq(Frame)
      /\ batch' = <<>> /\ buffer' = buffer /\ phase = "parsed" /\ ReadSoFar' = ReadSoFar
  BY DEF WireInv, ParserInv, ParserTypeOK, Consumed, ReadSoFar
<1>2. (taken \o batch) \o <<>> = taken \o batch
  BY <1>1
<1>3. taken' \o batch' = taken \o batch
  BY <1>1, <1>2
<1>. QED
  BY <1>1, <1>3 DEF CutInv

LEMMA CutStep == WireInv /\ CutInv /\ [WireNext]_wireVars => CutInv'
<1> SUFFICES ASSUME WireInv, CutInv, [WireNext]_wireVars PROVE CutInv'
  OBVIOUS
<1>1. CASE HostActs
  BY <1>1, CutAtConsumed DEF HostActs
<1>2. CASE DeviceActs
  BY <1>2, CutAtConsumed DEF DeviceActs
<1>3. CASE UNCHANGED wireVars
  BY <1>3 DEF wireVars, parserVars, CutInv, ReadSoFar
<1>. QED
  BY <1>1, <1>2, <1>3, CutAtRead, CutAtParse DEF WireNext

LEMMA CutInvariance == WireSpec => []CutInv
  BY WireInvariance, CutInitially, CutStep, PTL DEF WireSpec

\* However the radio cuts the stream into reads, the frames cut out of it are
\* those of the stream, for every stream and every length of a read that the
\* assumptions allow (push).
THEOREM EveryCutGivesTheSame == WireSpec => []CutDoesNotMatter
<1>1. WireInv /\ CutInv => CutDoesNotMatter
  <2> SUFFICES ASSUME WireInv, CutInv, phase = "idle"
               PROVE  taken = FramesOf(SubSeq(stream, 1, position))
    BY DEF CutDoesNotMatter
  <2>1. /\ taken \in Seq(Frame) /\ buffer \in Seq(Bytes)
        /\ stream \in Seq(Bytes) /\ position \in 0..Len(stream)
    BY DEF WireInv, ParserInv, ParserTypeOK
  <2>2. batch = <<>> /\ FramesOf(buffer) = <<>>
    BY DEF CutInv
  <2>3. ReadSoFar \in Seq(Bytes)
    BY <2>1 DEF ReadSoFar
  <2>4. FramesOf(ReadSoFar \o <<>>) = (taken \o batch) \o FramesOf(buffer \o <<>>)
    BY EmptyType DEF CutInv
  <2>5. ReadSoFar \o <<>> = ReadSoFar /\ buffer \o <<>> = buffer
    BY <2>1, <2>3
  <2>6. (taken \o <<>>) \o <<>> = taken
    BY <2>1
  <2>7. FramesOf(ReadSoFar) = taken
    BY <2>2, <2>4, <2>5, <2>6
  <2>. QED
    BY <2>7 DEF ReadSoFar
<1>. QED
  BY <1>1, WireInvariance, CutInvariance, PTL

-----------------------------------------------------------------------------
(* The other way round: what was encoded is decoded to the same message.    *)

LEMMA Digits ==
  ASSUME NEW B \in Nat, B > 0, NEW n \in Nat
  PROVE  /\ n \div B \in Nat /\ n % B \in Nat /\ n % B < B
         /\ n = (n \div B) * B + (n % B)
  OBVIOUS

LEMMA QuotientIs ==
  ASSUME NEW p \in Nat, p > 0, NEW v, NEW high \in Nat, NEW low \in Nat, low < p,
         v = high * p + low
  PROVE  v \div p = high
  BY Division

LEMMA Below ==
  ASSUME NEW B \in Nat, B > 0, NEW n \in Nat, NEW P \in Nat, n * P < B * P
  PROVE  n < B
<1>1. ASSUME n >= B PROVE FALSE
  <2>1. PICK d \in Nat : n = B + d
    <3>1. n - B \in Nat /\ n = B + (n - B)
      BY <1>1
    <3>. QED
      BY <3>1
  <2>2. n * P = B * P + d * P /\ d * P \in Nat /\ B * P \in Nat
    BY <2>1
  <2>. QED
    BY <2>2
<1>. QED
  BY <1>1

\* A number that fits its bytes is the value of those bytes.
LEMMA ValueOfBytes ==
  ASSUME NEW p \in Seq(Bytes), NEW x, x.width \in Widths, x.offset \in Nat,
         x.offset + x.width <= Len(p), NEW v \in 0..(Power[x.width] - 1),
         \A k \in 1..x.width : p[x.offset + k] = ByteOf(v, k)
  PROVE  Value(p, x) = v
<1> DEFINE B  == Base
           h1 == v \div B
           h2 == h1 \div B
           h3 == h2 \div B
           b1 == v % B
           b2 == h1 % B
           b3 == h2 % B
           b4 == h3 % B
<1>1. /\ B \in Nat /\ B > 127
      /\ Power[0] = 1 /\ Power[1] = B /\ Power[2] = B * B /\ Power[3] = B * Power[2]
      /\ Power[4] = B * Power[3] /\ Power[2] \in Nat /\ Power[2] > 0
      /\ Power[3] \in Nat /\ Power[3] > 0 /\ Power[4] \in Nat
  BY Powers
<1>2. v \in Nat
  <2>1. Power[x.width] \in Nat
    BY <1>1 DEF Widths
  <2>. QED
    BY <2>1
<1> HIDE DEF B
<1>3. /\ h1 \in Nat /\ b1 \in 0..(B - 1) /\ v = B * h1 + b1
      /\ h2 \in Nat /\ b2 \in 0..(B - 1) /\ h1 = B * h2 + b2
      /\ h3 \in Nat /\ b3 \in 0..(B - 1) /\ h2 = B * h3 + b3
      /\ b4 \in 0..(B - 1)
  <2>1. \A n \in Nat : n \div B \in Nat /\ n % B \in 0..(B - 1)
          /\ n = B * (n \div B) + (n % B)
    <3> SUFFICES ASSUME NEW n \in Nat
                 PROVE  n \div B \in Nat /\ n % B \in 0..(B - 1)
                        /\ n = B * (n \div B) + (n % B)
      OBVIOUS
    <3>1. B \in Nat /\ B > 0
      BY <1>1
    <3>2. n \div B \in Nat /\ n % B \in Nat /\ n % B < B
          /\ n = (n \div B) * B + (n % B)
      BY <3>1, Digits
    <3>3. \A q \in Nat : q * B = B * q
      BY <3>1
    <3>. QED
      BY <3>1, <3>2, <3>3
  <2>2. h1 \in Nat /\ b1 \in 0..(B - 1) /\ v = B * h1 + b1
    BY <1>2, <2>1, Zenon
  <2> HIDE DEF h1
  <2>3. h2 \in Nat /\ b2 \in 0..(B - 1) /\ h1 = B * h2 + b2
    BY <2>1, <2>2, Zenon
  <2> HIDE DEF h2
  <2>4. h3 \in Nat /\ b3 \in 0..(B - 1) /\ h2 = B * h3 + b3
    BY <2>1, <2>3, Zenon
  <2> HIDE DEF h3
  <2>5. b4 \in 0..(B - 1)
    BY <2>1, <2>4, Zenon
  <2>. QED
    BY <2>2, <2>3, <2>4, <2>5
<1>4. \A n \in 0..(B - 1) : n % B = n
  BY <1>1, SMTT(60)
<1>5. CASE x.width = 1
  <2>1. ByteOf(v, 1) = v
    <3>1. v \in 0..(B - 1)
      BY <1>1, <1>5
    <3>2. v \div 1 = v /\ 1 - 1 = 0
      BY <1>2
    <3>. QED
      BY <1>1, <1>4, <3>1, <3>2, Zenon DEF ByteOf, B
  <2>2. p[x.offset + 1] = ByteOf(v, 1)
    <3>1. 1 \in 1..x.width
      BY <1>5
    <3>. QED
      BY <3>1, Zenon
  <2>. QED
    BY <1>5, <2>1, <2>2, ValueByWidth, Zenon DEF Value1
<1>6. CASE x.width = 2
  <2>1. ByteOf(v, 1) = b1 /\ ByteOf(v, 2) = h1 % B
    <3>1. v \div 1 = v /\ 1 - 1 = 0 /\ 2 - 1 = 1
      BY <1>2
    <3>. QED
      BY <1>1, <3>1, Zenon DEF ByteOf, B
  <2> HIDE DEF h1, b1
  <2>2. h1 \in 0..(B - 1)
    <3>1. v < B * B
      BY <1>1, <1>6
    <3>2. B * h1 = h1 * B /\ h1 * B \in Nat /\ B * B \in Nat
      BY <1>1, <1>3
    <3>3. h1 * B < B * B
      BY <1>3, <3>1, <3>2
    <3>4. h1 < B
      BY <1>1, <1>3, <3>3, Below
    <3>. QED
      BY <1>1, <1>3, <3>4
  <2>3. p[x.offset + 1] = ByteOf(v, 1) /\ p[x.offset + 2] = ByteOf(v, 2)
    <3>1. 1 \in 1..x.width /\ 2 \in 1..x.width
      BY <1>6
    <3>. QED
      BY <3>1, Zenon
  <2>4. Value(p, x) = b1 + h1 * B
    <3>1. h1 % B = h1
      BY <1>4, <2>2, Zenon
    <3>2. Value(p, x) = Value2(p[x.offset + 1], p[x.offset + 2])
      BY <1>6, ValueByWidth, Zenon
    <3>. QED
      BY <2>1, <2>3, <3>1, <3>2, Zenon DEF Value2, B
  <2>. QED
    BY <1>1, <1>3, <2>4
<1>7. CASE x.width = 4
  <2>1. ByteOf(v, 1) = b1 /\ ByteOf(v, 2) = b2
    <3>1. v \div 1 = v /\ 1 - 1 = 0 /\ 2 - 1 = 1
      BY <1>2
    <3>. QED
      BY <1>1, <3>1, Zenon DEF ByteOf, B
  <2> HIDE DEF b1, b2, b3, b4, h1, h2, h3
  <2>2. v = h2 * Power[2] + (b2 * B + b1) /\ b2 * B + b1 \in Nat /\ b2 * B + b1 < Power[2]
    <3>1. v = B * (B * h2 + b2) + b1
      BY <1>3
    <3>2. B * (B * h2 + b2) = h2 * (B * B) + b2 * B
      BY <1>1, <1>3
    <3>3. b2 * B <= (B - 1) * B /\ (B - 1) * B = B * B - B
      BY <1>1, <1>3
    <3>4. b2 * B \in Nat /\ B * B \in Nat /\ h2 * (B * B) \in Nat
      BY <1>1, <1>3
    <3> DEFINE s == b2 * B
               t == B * B
               u == h2 * t
    <3>5. /\ v = (u + s) + b1 /\ s <= t - B /\ s \in Nat /\ t \in Nat /\ u \in Nat
          /\ b1 \in 0..(B - 1) /\ B \in Nat
      BY <1>1, <1>3, <3>1, <3>2, <3>3, <3>4
    <3>6. Power[2] = t
      BY <1>1
    <3> HIDE DEF s, u
    <3>7. s + b1 \in Nat /\ s + b1 < t
      <4> HIDE DEF t
      <4>. QED
        BY <3>5
    <3>8. v = u + (s + b1)
      <4> HIDE DEF t
      <4>. QED
        BY <3>5
    <3>. QED
      BY <3>6, <3>7, <3>8, Zenon DEF s, u
  <2>3. v \div Power[2] = h2
    <3> DEFINE low == b2 * B + b1
    <3> HIDE DEF low
    <3>1. v = h2 * Power[2] + low /\ low \in Nat /\ low < Power[2]
      BY <2>2 DEF low
    <3>2. Power[2] \in Nat /\ Power[2] > 0 /\ h2 \in Nat
      BY <1>1, <1>3
    <3>. QED
      BY <3>1, <3>2, QuotientIs, Zenon
  <2>4. v = h3 * Power[3] + (b3 * Power[2] + (b2 * B + b1))
        /\ b3 * Power[2] + (b2 * B + b1) \in Nat
        /\ b3 * Power[2] + (b2 * B + b1) < Power[3]
    <3> DEFINE low == b2 * B + b1
               P2 == Power[2]
    <3>1. P2 \in Nat /\ Power[3] = B * P2 /\ v = h2 * P2 + low /\ low \in Nat /\ low < P2
          /\ h2 = B * h3 + b3
      BY <1>1, <1>3, <2>2
    <3> HIDE DEF low, P2
    <3>2. h2 * P2 = h3 * (B * P2) + b3 * P2
      <4>1. (B * h3 + b3) * P2 = h3 * (B * P2) + b3 * P2
        BY <1>1, <1>3, <3>1
      <4>. QED
        BY <3>1, <4>1
    <3>3. b3 * P2 <= (B - 1) * P2 /\ (B - 1) * P2 = B * P2 - P2
      BY <1>1, <1>3, <3>1
    <3>4. b3 * P2 \in Nat /\ B * P2 \in Nat /\ h3 * (B * P2) \in Nat
      BY <1>1, <1>3, <3>1
    <3>5. v = h3 * Power[3] + (b3 * P2 + low)
      BY <3>1, <3>2, <3>4
    <3>6. b3 * P2 + low \in Nat /\ b3 * P2 + low < Power[3]
      <4> DEFINE q == b3 * P2
                 r == B * P2
      <4>1. q \in Nat /\ r \in Nat /\ q <= r - P2
        BY <3>3, <3>4
      <4> HIDE DEF q, r
      <4>2. q + low \in Nat /\ q + low < r
        BY <3>1, <4>1
      <4>. QED
        BY <3>1, <4>2 DEF q, r
    <3>. QED
      BY <3>5, <3>6 DEF low, P2
  <2>5. v \div Power[3] = h3 /\ h3 \in 0..(B - 1)
    <3> DEFINE low == b3 * Power[2] + (b2 * B + b1)
               P3 == Power[3]
    <3>1. v = h3 * P3 + low /\ low \in Nat /\ low < P3 /\ P3 \in Nat /\ P3 > 0
          /\ v < B * P3
      BY <1>1, <1>7, <2>4
    <3> HIDE DEF low, P3
    <3>2. h3 \in Nat
      BY <1>3
    <3>3. v \div P3 = h3
      BY <3>1, <3>2, QuotientIs, Zenon
    <3>4. h3 * P3 \in Nat /\ B * P3 \in Nat
      BY <1>1, <3>1, <3>2
    <3>5. h3 * P3 < B * P3
      <4> DEFINE q == h3 * P3
                 r == B * P3
      <4> HIDE DEF q, r
      <4>. QED
        BY <3>1, <3>4 DEF q, r
    <3>6. h3 < B
      BY <1>1, <3>1, <3>2, <3>5, Below
    <3>7. h3 \in 0..(B - 1)
      BY <1>1, <3>2, <3>6
    <3>. QED
      BY <3>3, <3>7 DEF P3
  <2>6. ByteOf(v, 3) = b3 /\ ByteOf(v, 4) = h3
    <3>1. 3 - 1 = 2 /\ 4 - 1 = 3
      OBVIOUS
    <3>2. ByteOf(v, 3) = (v \div Power[2]) % B
      BY <3>1, Zenon DEF ByteOf, B
    <3>3. ByteOf(v, 4) = (v \div Power[3]) % B
      BY <3>1, Zenon DEF ByteOf, B
    <3>4. b3 = h2 % B
      BY DEF b3
    <3>. QED
      BY <1>4, <2>3, <2>5, <3>2, <3>3, <3>4, Zenon
  <2>7. /\ p[x.offset + 1] = ByteOf(v, 1) /\ p[x.offset + 2] = ByteOf(v, 2)
        /\ p[x.offset + 3] = ByteOf(v, 3) /\ p[x.offset + 4] = ByteOf(v, 4)
    <3>1. 1 \in 1..x.width /\ 2 \in 1..x.width /\ 3 \in 1..x.width /\ 4 \in 1..x.width
      BY <1>7
    <3>. QED
      BY <3>1, Zenon
  <2>8. Value(p, x) = b1 + b2 * B + b3 * Power[2] + h3 * Power[3]
    BY <1>7, <2>1, <2>6, <2>7, ValueByWidth, Zenon DEF Value4, B
  <2>9. b2 * B \in Nat /\ b3 * Power[2] \in Nat /\ h3 * Power[3] \in Nat
    BY <1>1, <1>3
  <2>. QED
    <3> DEFINE q == b2 * B
               r == b3 * Power[2]
               u == h3 * Power[3]
    <3>1. /\ v = u + (r + (q + b1)) /\ Value(p, x) = b1 + q + r + u
          /\ q \in Nat /\ r \in Nat /\ u \in Nat /\ b1 \in Nat
      BY <1>3, <2>4, <2>8, <2>9
    <3> HIDE DEF q, r, u
    <3>. QED
      BY <3>1
<1>. QED
  BY <1>5, <1>6, <1>7 DEF Widths

\* Every value a number may have fits its bytes.
Fits(u) == u.width \in Widths /\ u.least \in Nat /\ u.most \in Int
  /\ u.most < Power[u.width]

LEMMA NumbersFit ==
  /\ Fits(U8) /\ Fits(U16) /\ Fits(U32) /\ Fits(NonZero(U16)) /\ Fits(NonZero(U32))
  /\ \A n \in 0..64 : Fits(UpTo(U8, n)) /\ Fits(UpTo(U16, n))
  /\ Fits(Reserved(U8)) /\ Fits(Reserved(U16))
  /\ Fits(UpTo(U16, MaximumText)) /\ Fits(Between(U16, 1, MaximumText))
  /\ Fits(Between(U16, 1, 16))
<1>1. /\ Base \in Nat /\ Base > 127 /\ Power[1] = Base /\ Power[2] = Base * Base
      /\ Power[2] \in Nat /\ Power[4] \in Nat
  BY Powers
<1>2. Power[2] > 127 /\ MaximumText \in Nat /\ MaximumText < Power[2]
  <2>1. Base * Base >= 127 * Base
    BY <1>1
  <2>. QED
    BY <1>1, <2>1, CodecAssumption
<1>3. /\ U8 = [width |-> 1, least |-> 0, most |-> Power[1] - 1]
      /\ U16 = [width |-> 2, least |-> 0, most |-> Power[2] - 1]
      /\ U32 = [width |-> 4, least |-> 0, most |-> Power[4] - 1]
  BY DEF U8, U16, U32, Number
<1>4. Fits(U8) /\ Fits(U16) /\ Fits(U32)
  BY <1>1, <1>3 DEF Fits, Widths
<1>5. /\ NonZero(U16) = [width |-> 2, least |-> 1, most |-> Power[2] - 1]
      /\ NonZero(U32) = [width |-> 4, least |-> 1, most |-> Power[4] - 1]
  BY <1>3 DEF NonZero
<1>6. Fits(NonZero(U16)) /\ Fits(NonZero(U32))
  BY <1>1, <1>5 DEF Fits, Widths
<1>7. \A n \in Int : /\ UpTo(U8, n) = [width |-> 1, least |-> 0, most |-> n]
                     /\ UpTo(U16, n) = [width |-> 2, least |-> 0, most |-> n]
                     /\ \A m \in Int : Between(U16, m, n) = [width |-> 2, least |-> m,
                          most |-> n]
  <2> SUFFICES ASSUME NEW n \in Int
               PROVE  /\ UpTo(U8, n) = [width |-> 1, least |-> 0, most |-> n]
                      /\ UpTo(U16, n) = [width |-> 2, least |-> 0, most |-> n]
                      /\ \A m \in Int : Between(U16, m, n)
                                         = [width |-> 2, least |-> m, most |-> n]
    OBVIOUS
  <2>1. UpTo(U8, n) = [width |-> 1, least |-> 0, most |-> n]
    BY <1>3 DEF UpTo
  <2>2. UpTo(U16, n) = [width |-> 2, least |-> 0, most |-> n]
    BY <1>3 DEF UpTo
  <2>3. ASSUME NEW m \in Int
        PROVE  Between(U16, m, n) = [width |-> 2, least |-> m, most |-> n]
    <3> DEFINE one == [U16 EXCEPT !.least = m]
    <3>1. one = [width |-> 2, least |-> m, most |-> Power[2] - 1]
      BY <1>3
    <3>2. Between(U16, m, n) = [one EXCEPT !.most = n]
      BY DEF Between
    <3> HIDE DEF one
    <3>. QED
      BY <3>1, <3>2
  <2>. QED
    BY <2>1, <2>2, <2>3
<1>8. \A n \in Int : n < 127 => Fits(UpTo(U8, n)) /\ Fits(UpTo(U16, n))
  BY <1>1, <1>2, <1>7 DEF Fits, Widths
<1>9. \A n \in Int : n < Power[2] => Fits(UpTo(U16, n)) /\ Fits(Between(U16, 1, n))
  BY <1>1, <1>7 DEF Fits, Widths
<1>10. \A n \in 0..64 : n \in Int /\ n < 127
  OBVIOUS
<1>11. Fits(Reserved(U8)) /\ Fits(Reserved(U16))
  <2>1. 0 \in 0..64
    OBVIOUS
  <2>. QED
    BY <1>8, <1>10, <2>1, Zenon DEF Reserved
<1>12. 16 \in Int /\ 16 < Power[2] /\ MaximumText \in Int
  BY <1>1, <1>2
<1>. QED
  BY <1>2, <1>4, <1>6, <1>8, <1>9, <1>10, <1>11, <1>12, Zenon

LEMMA TableFits ==
  ASSUME NEW t \in Types
  PROVE  /\ Len(HostWrites[t]) \in Nat
         /\ \A i \in 1..Len(HostWrites[t]) : Fits(HostWrites[t][i])
<1> DEFINE Good(us) == Len(us) \in Nat /\ \A i \in 1..Len(us) : Fits(us[i])
<1>1. ASSUME NEW a, Fits(a) PROVE Good(<<a>>)
  BY <1>1
<1>2. ASSUME NEW a, NEW b, NEW c, Fits(a), Fits(b), Fits(c) PROVE Good(<<a, b, c>>)
  BY <1>2
<1>3. ASSUME NEW a, NEW b, NEW c, NEW d, Fits(a), Fits(b), Fits(c), Fits(d)
      PROVE  Good(<<a, b, c, d>>)
  BY <1>3
<1>4. ASSUME NEW a, NEW b, NEW c, NEW d, NEW e, Fits(a), Fits(b), Fits(c), Fits(d), Fits(e)
      PROVE  Good(<<a, b, c, d, e>>)
  BY <1>4
<1>5. ASSUME NEW a, NEW b, NEW c, NEW d, NEW e, NEW f, NEW g, NEW h, Fits(a), Fits(b),
             Fits(c), Fits(d), Fits(e), Fits(f), Fits(g), Fits(h)
      PROVE  Good(<<a, b, c, d, e, f, g, h>>)
  BY <1>5
<1> HIDE DEF Good
<1>6. Fits(UpTo(U8, 1)) /\ Fits(UpTo(U8, 2)) /\ Fits(UpTo(U8, 4))
      /\ Fits(UpTo(U16, MaximumEndpoints))
  <2>1. 1 \in 0..64 /\ 2 \in 0..64 /\ 4 \in 0..64 /\ 64 \in 0..64
    OBVIOUS
  <2>. QED
    BY <2>1, NumbersFit, Zenon DEF MaximumEndpoints
<1>7. /\ HostWrites["HelloRequest"] = <<U8, U8, U32, U32, Reserved(U16)>>
      /\ HostWrites["HelloResponse"] = <<U8, U8, U16, U16, U16, U32, U32, U32>>
      /\ HostWrites["SyncRequest"] = <<UpTo(U8, 2)>>
      /\ HostWrites["SyncBegin"] = <<NonZero(U32), UpTo(U16, MaximumEndpoints),
                                     UpTo(U16, MaximumEndpoints)>>
      /\ HostWrites["OutputEndpoint"] = HostWritesEndpoint
      /\ HostWrites["InputEndpoint"] = HostWritesEndpoint
      /\ HostWrites["CurrentOutput"] = HostWritesRoles
      /\ HostWrites["CurrentInput"] = HostWritesRoles
      /\ HostWrites["SyncEnd"] = <<NonZero(U32)>>
      /\ HostWrites["SetOutputRequest"] = HostWritesSetRequest
      /\ HostWrites["SetInputRequest"] = HostWritesSetRequest
      /\ HostWrites["SetResult"] = <<NonZero(U32), UpTo(U8, 1), UpTo(U8, 4), U16,
           NonZero(U32)>>
      /\ HostWrites["Ping"] = <<U32>>
      /\ HostWrites["Pong"] = <<U32>>
      /\ HostWrites["Error"] = <<Between(U16, 1, 16), U8, Reserved(U8), U32,
                                 UpTo(U16, MaximumText)>>
  BY DEF HostWrites
<1>8. /\ Good(<<U32>>) /\ Good(<<NonZero(U32)>>) /\ Good(<<UpTo(U8, 2)>>)
  BY <1>1, <1>6, NumbersFit, Zenon
<1>9. /\ Good(HostWritesEndpoint) /\ Good(HostWritesSetRequest)
      /\ Good(<<NonZero(U32), UpTo(U16, MaximumEndpoints), UpTo(U16, MaximumEndpoints)>>)
  BY <1>2, <1>6, NumbersFit, Zenon DEF HostWritesEndpoint, HostWritesSetRequest
<1>10. Good(HostWritesRoles)
  BY <1>3, NumbersFit, Zenon DEF HostWritesRoles
<1>11. /\ Good(<<U8, U8, U32, U32, Reserved(U16)>>)
       /\ Good(<<NonZero(U32), UpTo(U8, 1), UpTo(U8, 4), U16, NonZero(U32)>>)
       /\ Good(<<Between(U16, 1, 16), U8, Reserved(U8), U32, UpTo(U16, MaximumText)>>)
  BY <1>4, <1>6, NumbersFit, Zenon
<1>12. Good(<<U8, U8, U16, U16, U16, U32, U32, U32>>)
  BY <1>5, NumbersFit, Zenon
<1>13. Good(HostWrites[t])
  BY <1>7, <1>8, <1>9, <1>10, <1>11, <1>12, TypesAre
<1>. QED
  BY <1>13 DEF Good

LEMMA LayoutFits ==
  ASSUME NEW t \in Types, NEW l, l = OneAfterTheOther(HostWrites[t])
  PROVE  /\ Len(l.fields) = Len(HostWrites[t])
         /\ \A i \in DOMAIN l.fields : Fits(l.fields[i])
<1> DEFINE us == HostWrites[t]
           n  == Len(us)
<1>1. n \in Nat /\ \A i \in 1..n : Fits(us[i])
  BY TableFits
<1>2. \A i \in 1..n : us[i].width \in Widths
  BY <1>1, Zenon DEF Fits
<1> HIDE DEF us
<1>3. PICK f : l = Layout(f[n], [i \in 1..n |-> At(f[i - 1], us[i])])
  <2>1. Len(us) = n
    OBVIOUS
  <2> HIDE DEF n
  <2>2. l = OneAfterTheOther(us)
    BY DEF us
  <2>3. \E f : /\ IsEnd(f, us) /\ f \in [0..n -> Nat]
               /\ OneAfterTheOther(us) = Layout(f[n], [i \in 1..n |-> At(f[i - 1], us[i])])
    BY <1>1, <1>2, <2>1, EndIs
  <2>. QED
    BY <2>2, <2>3, Zenon
<1> HIDE DEF n
<1>4. l.fields = [i \in 1..n |-> At(f[i - 1], us[i])]
  BY <1>3 DEF Layout
<1>5. DOMAIN l.fields = 1..n /\ Len(l.fields) = n
  BY <1>1, <1>4
<1>6. ASSUME NEW i \in 1..n PROVE Fits(l.fields[i])
  <2>1. l.fields[i] = At(f[i - 1], us[i])
    BY <1>4
  <2>2. Fits(us[i])
    BY <1>1
  <2>. QED
    BY <2>1, <2>2 DEF At, Fits
<1>. QED
  BY <1>5, <1>6 DEF us, n

LEMMA TypesDiffer ==
  ASSUME NEW t \in Types, NEW s \in Types, MessageType[t] = MessageType[s]
  PROVE  t = s
<1>1. /\ MessageType["HelloRequest"] = 1 /\ MessageType["HelloResponse"] = 2
      /\ MessageType["SyncRequest"] = 16 /\ MessageType["SyncBegin"] = 17
      /\ MessageType["OutputEndpoint"] = 18 /\ MessageType["InputEndpoint"] = 19
      /\ MessageType["CurrentOutput"] = 20 /\ MessageType["CurrentInput"] = 21
      /\ MessageType["SyncEnd"] = 22 /\ MessageType["SetOutputRequest"] = 32
      /\ MessageType["SetInputRequest"] = 33 /\ MessageType["SetResult"] = 34
      /\ MessageType["Ping"] = 48 /\ MessageType["Pong"] = 49
      /\ MessageType["Error"] = 127
  BY DEF MessageType
<1>. QED
  BY <1>1, TypesAre

\* The byte of a number is found where the layout puts it.
LEMMA WrittenIs ==
  ASSUME NEW l, WellLaid(l), NEW m, Valid(m.type, m.fields, l), m.text \in Seq(Bytes)
  PROVE  /\ Written(m, l) \in Seq(Bytes)
         /\ Len(Written(m, l)) = l.size + Len(m.text)
         /\ SubSeq(Written(m, l), l.size + 1, Len(Written(m, l))) = m.text
         /\ \A i \in DOMAIN l.fields : \A k \in 1..l.fields[i].width :
              Written(m, l)[l.fields[i].offset + k] = ByteOf(m.fields[i], k)
<1> DEFINE Holds(i, k) == k - l.fields[i].offset \in 1..l.fields[i].width
           owner(k) == CHOOSE i \in DOMAIN l.fields : Holds(i, k)
           head == [k \in 1..l.size |->
                      ByteOf(m.fields[owner(k)], k - l.fields[owner(k)].offset)]
           W == Written(m, l)
<1>1. W = head \o m.text
  BY DEF Written
<1>2. W \in Seq(Bytes)
  BY HeadType
<1>3. l.size \in Nat
  BY DEF WellLaid
<1>4. head \in [1..l.size -> Bytes]
  <2>1. ASSUME NEW k \in 1..l.size PROVE head[k] \in Bytes
    <3>1. owner(k) \in DOMAIN l.fields /\ Holds(owner(k), k)
      <4>1. \E i \in DOMAIN l.fields : Holds(i, k)
        BY DEF WellLaid
      <4>. QED
        BY <4>1, Zenon
    <3> DEFINE i == owner(k)
               j == k - l.fields[i].offset
               v == m.fields[i]
    <3>2. i \in DOMAIN l.fields /\ j \in 1..l.fields[i].width
      BY <3>1
    <3>3. head[k] = ByteOf(v, j)
      OBVIOUS
    <3> HIDE DEF i, head, j
    <3>4. l.fields[i].width \in Widths
      BY <3>2 DEF WellLaid
    <3>5. v \in Int
      <4>1. v \in l.fields[i].least..l.fields[i].most
        BY <3>2, Zenon DEF Valid
      <4>. QED
        BY <4>1
    <3>6. j - 1 \in 0..3
      BY <3>2, <3>4 DEF Widths
    <3>7. Power[j - 1] \in Nat /\ Power[j - 1] > 0
      <4>1. j - 1 \in 0..4
        BY <3>6
      <4>. QED
        BY <4>1, Powers, Zenon
    <3> HIDE DEF v
    <3>8. v \div Power[j - 1] \in Int
      BY <3>5, <3>7
    <3>. QED
      BY <3>3, <3>8, SmallBytes DEF ByteOf
  <2>2. head = [k \in 1..l.size |-> head[k]]
    OBVIOUS
  <2> HIDE DEF head
  <2>. QED
    BY <2>1, <2>2
<1>5. ASSUME NEW i \in DOMAIN l.fields, NEW k \in 1..l.fields[i].width
      PROVE  /\ l.fields[i].offset + k \in 1..l.size
             /\ head[l.fields[i].offset + k] = ByteOf(m.fields[i], k)
  <2> DEFINE o == l.fields[i].offset
             j == o + k
  <2>1. l.fields[i].width \in Widths /\ o \in Nat /\ o + l.fields[i].width <= l.size
    BY DEF WellLaid
  <2>2. j \in 1..l.size /\ j - o = k /\ k \in 1..l.fields[i].width
    BY <1>3, <2>1, SMTT(60) DEF Widths
  <2>3. Holds(i, j)
    BY <2>2
  <2>4. owner(j) = i
    <3>1. owner(j) \in DOMAIN l.fields /\ Holds(owner(j), j)
      <4> HIDE DEF j
      <4>. QED
        BY <2>3, Zenon
    <3> DEFINE other == owner(j)
    <3>2. other \in DOMAIN l.fields
            /\ j - l.fields[other].offset \in 1..l.fields[other].width
      BY <3>1
    <3> HIDE DEF other, j
    <3>3. j - l.fields[i].offset \in 1..l.fields[i].width
      BY <2>3
    <3>4. \A n \in 1..l.size : \A a, b \in DOMAIN l.fields :
            /\ n - l.fields[a].offset \in 1..l.fields[a].width
            /\ n - l.fields[b].offset \in 1..l.fields[b].width
            => a = b
      BY DEF WellLaid
    <3>5. other = i
      BY <2>2, <3>2, <3>3, <3>4, Zenon
    <3>. QED
      BY <3>5 DEF other
  <2> HIDE DEF j
  <2>5. head[j] = ByteOf(m.fields[owner(j)], j - l.fields[owner(j)].offset)
    BY <2>2
  <2> HIDE DEF head
  <2>6. head[j] = ByteOf(m.fields[i], k)
    BY <2>2, <2>4, <2>5
  <2>. QED
    BY <2>2, <2>6 DEF j
<1> HIDE DEF head, W
<1>6. head \in Seq(Bytes) /\ Len(head) = l.size
  BY <1>3, <1>4
<1>7. /\ Len(W) = l.size + Len(m.text)
      /\ SubSeq(W, l.size + 1, Len(W)) = m.text
      /\ \A n \in 1..l.size : W[n] = head[n]
  <2> DEFINE x == m.text
             n == l.size
  <2>1. /\ W = head \o x /\ head \in Seq(Bytes) /\ x \in Seq(Bytes)
        /\ Len(head) = n /\ n \in Nat
    BY <1>1, <1>3, <1>6
  <2> HIDE DEF x, n
  <2>2. Len(W) = n + Len(x) /\ \A k \in 1..n : W[k] = head[k]
    <3>1. Len(head \o x) = Len(head) + Len(x)
            /\ \A k \in 1..Len(head) : (head \o x)[k] = head[k]
      BY <2>1, Joined
    <3>. QED
      BY <2>1, <3>1
  <2>3. SubSeq(W, n + 1, Len(W)) = x
    <3>1. n + 1 \in 1..(Len(head) + 1)
      BY <2>1
    <3>2. Rest(W, n + 1) = Rest(head, n + 1) \o x
      BY <2>1, <3>1, JoinedRest
    <3>3. Rest(head, n + 1) \in Seq(Bytes)
            /\ Len(Rest(head, n + 1)) = Len(head) + 1 - (n + 1)
      BY <2>1, <3>1, RestIs
    <3>4. Rest(head, n + 1) = <<>>
      BY <2>1, <3>3
    <3>5. <<>> \o x = x
      BY <2>1
    <3>. QED
      BY <3>2, <3>4, <3>5 DEF Rest
  <2>. QED
    BY <2>2, <2>3 DEF x, n
<1>8. \A i \in DOMAIN l.fields : \A k \in 1..l.fields[i].width :
        W[l.fields[i].offset + k] = ByteOf(m.fields[i], k)
  BY <1>5, <1>7, Zenon
<1>. QED
  BY <1>2, <1>7, <1>8 DEF W

\* Messages as the senders hand them to the encoder.
Message == [type : Types, fields : Seq(Nat), text : Seq(Bytes)]

LEMMA EncodedIsDecoded ==
  ASSUME NEW m \in Message, NEW Layouts, NEW l, l = Layouts[m.type],
         WellLaid(l), \A i \in DOMAIN l.fields : Fits(l.fields[i]),
         Len(m.fields) = Len(l.fields), Encode(m, l) # NoFrame
  PROVE  Decode(Encode(m, l), Layouts) = m
<1> DEFINE frame == Encode(m, l)
           p     == Written(m, l)
<1>1. m.type \in Types /\ m.fields \in Seq(Nat) /\ m.text \in Seq(Bytes)
      /\ m = [type |-> m.type, fields |-> m.fields, text |-> m.text]
  BY DEF Message
<1>2. /\ Valid(m.type, m.fields, l) /\ WellFormed(m.text)
      /\ Len(m.text) = TextLength(m.type, m.fields)
      /\ frame = Framed(Version, MessageType[m.type], p)
  BY Zenon DEF Encode
<1>3. frame = [version |-> Version, type |-> MessageType[m.type], payload |-> p]
  <2>1. frame # NoFrame
    OBVIOUS
  <2> HIDE DEF frame, p
  <2>. QED
    BY <1>2, <2>1 DEF Framed
<1>4. /\ p \in Seq(Bytes) /\ Len(p) = l.size + Len(m.text)
      /\ SubSeq(p, l.size + 1, Len(p)) = m.text
      /\ \A i \in DOMAIN l.fields : \A k \in 1..l.fields[i].width :
           p[l.fields[i].offset + k] = ByteOf(m.fields[i], k)
  <2>1. WellLaid(l) /\ Valid(m.type, m.fields, l) /\ m.text \in Seq(Bytes)
    BY <1>1, <1>2
  <2> HIDE DEF frame
  <2>. QED
    BY <2>1, WrittenIs, SMTT(60)
<1> HIDE DEF p
<1>5. l.size \in Nat /\ DOMAIN l.fields = 1..Len(l.fields) /\ Len(l.fields) \in Nat
      /\ Len(m.text) \in Nat
  BY <1>1 DEF WellLaid
<1>6. l.size <= Len(p)
  BY <1>4, <1>5
<1>7. ASSUME NEW i \in DOMAIN l.fields PROVE Value(p, l.fields[i]) = m.fields[i]
  <2> DEFINE x == l.fields[i]
             v == m.fields[i]
  <2>1. x.width \in Widths /\ x.offset \in Nat /\ x.offset + x.width <= Len(p)
    <3>1. x.width \in Widths /\ x.offset \in Nat /\ x.offset + x.width <= l.size
      BY DEF WellLaid
    <3> HIDE DEF x
    <3>. QED
      BY <1>4, <1>5, <1>6, <3>1, SMTT(60) DEF Widths
  <2>2. v \in 0..(Power[x.width] - 1)
    <3>1. v \in x.least..x.most
      BY <1>2, Zenon DEF Valid
    <3>2. Fits(x)
      OBVIOUS
    <3> HIDE DEF x, v
    <3>3. x.width \in 0..4
      BY <2>1 DEF Widths
    <3>4. Power[x.width] \in Nat
      BY <3>3, Powers, Zenon
    <3>. QED
      BY <3>1, <3>2, <3>4 DEF Fits
  <2>3. \A k \in 1..x.width : p[x.offset + k] = ByteOf(v, k)
    BY <1>4
  <2> HIDE DEF x, v
  <2>4. Value(p, x) = v
    BY <1>4, <2>1, <2>2, <2>3, ValueOfBytes, SMTT(60)
  <2>. QED
    BY <2>4 DEF x, v
<1> DEFINE known  == {t \in Types : MessageType[t] = frame.type}
           type   == CHOOSE t \in known : TRUE
           layout == Layouts[type]
           values == [i \in DOMAIN layout.fields |-> Value(frame.payload, layout.fields[i])]
           text   == SubSeq(frame.payload, layout.size + 1, Len(frame.payload))
           sound  == /\ frame.version = Version /\ known # {}
                     /\ Len(frame.payload) >= layout.size
                     /\ Len(text) = TextLength(type, values)
                     /\ Valid(type, values, layout) /\ WellFormed(text)
<1>8. Decode(frame, Layouts) = IF sound THEN [type |-> type, fields |-> values,
        text |-> text]
                               ELSE NoMessage
  BY DEF Decode
<1>9. frame.version = Version /\ frame.type = MessageType[m.type] /\ frame.payload = p
  BY <1>3
<1> HIDE DEF frame
<1>10. m.type \in known
  BY <1>1, <1>9
<1>11. type = m.type
  <2>1. type \in known
    BY <1>10, Zenon
  <2> HIDE DEF type
  <2>2. type \in Types /\ MessageType[type] = MessageType[m.type]
    BY <1>9, <2>1
  <2>. QED
    BY <1>1, <2>2, TypesDiffer
<1>12. layout = l
  BY <1>11
<1>13. known # {}
  BY <1>10
<1> HIDE DEF known, type, layout
<1>14. values = m.fields
  <2>1. values = [i \in DOMAIN l.fields |-> Value(p, l.fields[i])]
    BY <1>9, <1>12
  <2>2. values = [i \in DOMAIN l.fields |-> m.fields[i]]
    <3> HIDE DEF values
    <3>. QED
      BY <1>7, <2>1
  <2>3. DOMAIN l.fields = DOMAIN m.fields
    BY <1>1, <1>5
  <2>4. m.fields = [i \in DOMAIN m.fields |-> m.fields[i]]
    BY <1>1
  <2> HIDE DEF values
  <2>. QED
    BY <2>2, <2>3, <2>4
<1>15. text = m.text
  BY <1>4, <1>9, <1>12
<1> HIDE DEF values, text
<1>16. sound
  <2>1. Len(frame.payload) >= layout.size
    BY <1>4, <1>5, <1>9, <1>12
  <2>. QED
    BY <1>2, <1>9, <1>11, <1>12, <1>13, <1>14, <1>15, <2>1, Zenon
<1>17. Decode(frame, Layouts) = [type |-> type, fields |-> values, text |-> text]
  <2> HIDE DEF sound
  <2>. QED
    BY <1>8, <1>16
<1>. QED
  BY <1>1, <1>11, <1>14, <1>15, <1>17, Zenon DEF frame

\* Every message that one program encodes the other decodes to the same message,
\* in both directions (Message::encode, Message::decode; encodeMessage,
\* decodeMessage).
THEOREM MessagesComeBack ==
  ASSUME NEW m \in Messages
  PROVE  /\ Received("host", FirmwareEncode(m)) = m /\ Received("device", HostEncode(m)) = m
         /\ FirmwareEncode(m) # NoFrame /\ HostEncode(m) # NoFrame
<1> DEFINE l == OneAfterTheOther(HostWrites[m.type])
<1>1. m \in Message /\ Len(m.fields) = Len(HostWrites[m.type]) /\ HostEncode(m) # NoFrame
  BY WireAssumption, Zenon DEF Message
<1>2. m.type \in Types
  BY <1>1 DEF Message
<1>3. HostReads[m.type] = l /\ FirmwareReads[m.type] = l /\ WellLaid(l)
  BY <1>2, TablesAgree, Zenon DEF Agree
<1>4. Len(m.fields) = Len(l.fields) /\ \A i \in DOMAIN l.fields : Fits(l.fields[i])
  <2>1. Len(l.fields) = Len(HostWrites[m.type])
          /\ \A i \in DOMAIN l.fields : Fits(l.fields[i])
    BY <1>2, LayoutFits
  <2>. QED
    BY <1>1, <2>1, Zenon
<1>5. HostEncode(m) = Encode(m, l) /\ FirmwareEncode(m) = Encode(m, l)
  BY <1>3, Zenon DEF HostEncode, FirmwareEncode, FirmwareWrites
<1>6. Encode(m, l) # NoFrame
  BY <1>1, <1>5, Zenon
<1> HIDE DEF l
<1>7. HostDecode(Encode(m, l)) = m
  BY <1>1, <1>3, <1>4, <1>6, EncodedIsDecoded DEF HostDecode
<1>8. FirmwareDecode(Encode(m, l)) = m
  BY <1>1, <1>3, <1>4, <1>6, EncodedIsDecoded DEF FirmwareDecode
<1>. QED
  BY <1>5, <1>6, <1>7, <1>8 DEF Received

-----------------------------------------------------------------------------
(* A stream that holds what a sender wrote, behind bytes without a magic.   *)

LEMMA QuietRest ==
  ASSUME NEW q \in Seq(Bytes), Quiet(q), NEW m \in 1..(Len(q) + 1)
  PROVE  Rest(q, m) \in Seq(Bytes) /\ Quiet(Rest(q, m))
<1> DEFINE r == Rest(q, m)
<1>1. /\ r \in Seq(Bytes) /\ Len(r) = Len(q) + 1 - m
      /\ \A n \in 1..(Len(q) + 1 - m) : r[n] = q[n + (m - 1)]
      /\ Len(q) \in Nat
  <2>1. Len(q) \in Nat
    OBVIOUS
  <2>. QED
    BY <2>1, RestIs
<1> HIDE DEF r
<1>2. ASSUME NEW i \in DOMAIN r, MagicAt(r, i) PROVE FALSE
  <2>1. i \in 1..(Len(q) + 1 - m) /\ i + 1 \in 1..(Len(q) + 1 - m)
    BY <1>1, <1>2 DEF MagicAt
  <2>2. r[i] = q[i + (m - 1)] /\ r[i + 1] = q[(i + 1) + (m - 1)]
    BY <1>1, <2>1
  <2> DEFINE j == i + (m - 1)
  <2>3. j \in 1..Len(q) /\ j + 1 \in 1..Len(q) /\ (i + 1) + (m - 1) = j + 1
    <3> DEFINE n == Len(q)
    <3>1. n \in Nat /\ m \in 1..(n + 1) /\ i \in 1..(n + 1 - m) /\ i + 1 \in 1..(n + 1 - m)
      BY <1>1, <2>1
    <3> HIDE DEF n
    <3>2. i + (m - 1) \in 1..n /\ (i + (m - 1)) + 1 \in 1..n
          /\ (i + 1) + (m - 1) = (i + (m - 1)) + 1
      BY <3>1
    <3>. QED
      BY <3>2 DEF n
  <2> HIDE DEF j
  <2>4. MagicAt(q, j)
    BY <1>2, <2>2, <2>3 DEF MagicAt, j
  <2>. QED
    BY <2>3, <2>4 DEF Quiet
<1>. QED
  BY <1>1, <1>2 DEF Quiet, r

\* What follows quiet bytes is nothing, or starts with a magic.
Starts(left) == left = <<>> \/ MagicAt(left, 1)

\* The first magic is where the frames start.
LEMMA MagicBehindQuiet ==
  ASSUME NEW q \in Seq(Bytes), Quiet(q), NEW left \in Seq(Bytes), Starts(left)
  PROVE  /\ \A j \in 1..Len(q) : ~MagicAt(q \o left, j)
         /\ left # <<>> => /\ MagicAt(q \o left, Len(q) + 1)
                           /\ (q \o left)[Len(q) + 1] = 65
<1> DEFINE w == q \o left
           L == Len(q)
<1>1. /\ L \in Nat /\ Len(left) \in Nat /\ DOMAIN w = 1..(L + Len(left))
      /\ \A i \in 1..L : w[i] = q[i]
  BY Joined
<1>2. \A i \in 1..Len(left) : w[L + i] = left[i]
  OBVIOUS
<1>3. left # <<>> => 1 \in 1..Len(left) /\ 2 \in 1..Len(left) /\ left[1] = 65
        /\ left[2] = 83
  BY DEF Starts, MagicAt, Magic
<1>4. left = <<>> => Len(left) = 0
  OBVIOUS
<1> HIDE DEF w, L
<1>5. ASSUME NEW j \in 1..L, MagicAt(w, j) PROVE FALSE
  <2>0. DOMAIN q = 1..L
    BY DEF L
  <2>1. CASE j < L
    <3>1. j \in 1..L /\ j + 1 \in 1..L
      BY <1>1, <2>1
    <3>2. MagicAt(q, j)
      BY <1>1, <1>5, <2>0, <3>1 DEF MagicAt
    <3>. QED
      BY <2>0, <3>1, <3>2 DEF Quiet
  <2>2. CASE j = L
    <3>1. L + 1 \in DOMAIN w /\ w[L + 1] = 83
      BY <1>5, <2>2, MagicIs DEF MagicAt
    <3>2. left # <<>>
      BY <1>1, <1>4, <3>1
    <3>3. w[L + 1] = 65
      BY <1>2, <1>3, <3>2
    <3>. QED
      BY <3>1, <3>3
  <2>. QED
    BY <1>1, <2>1, <2>2
<1>6. ASSUME left # <<>> PROVE MagicAt(w, L + 1) /\ w[L + 1] = 65
  <2>1. w[L + 1] = 65 /\ w[L + 2] = 83
    BY <1>2, <1>3, <1>6
  <2>2. (L + 1) + 1 = L + 2 /\ L + 2 \in 1..(L + Len(left))
    BY <1>1, <1>3, <1>6
  <2>. QED
    BY <1>1, <2>1, <2>2, MagicIs DEF MagicAt
<1>. QED
  BY <1>5, <1>6 DEF w, L

\* Two ways to cut the same bytes in two.
Same(b, x, q, left) == b \o x = q \o left

\* Discarding takes quiet bytes and nothing of a frame: also when the read ends
\* within the magic.
LEMMA DiscardingQuiet ==
  ASSUME NEW b \in Seq(Bytes), NEW x \in Seq(Bytes), NEW q \in Seq(Bytes), Quiet(q),
         NEW left \in Seq(Bytes), Starts(left), Same(b, x, q, left)
  PROVE  \E r \in Seq(Bytes) :
           /\ Quiet(r) /\ Same(Discarded(b), x, r, left)
           /\ MagicAt(Discarded(b), 1) => r = <<>> /\ left # <<>>
<1> DEFINE w == q \o left
           L == Len(q)
           d == Discarded(b)
<1>0. b \o x = w
  BY DEF Same
<1>1. /\ L \in Nat /\ Len(left) \in Nat /\ Len(b) \in Nat /\ Len(x) \in Nat
      /\ DOMAIN w = 1..(L + Len(left)) /\ DOMAIN b = 1..Len(b)
      /\ Len(b) + Len(x) = L + Len(left)
      /\ \A i \in 1..Len(b) : w[i] = b[i]
  <2>1. Len(w) = L + Len(left) /\ L \in Nat /\ Len(left) \in Nat
        /\ DOMAIN w = 1..(L + Len(left))
    BY Joined
  <2>2. /\ Len(b \o x) = Len(b) + Len(x) /\ Len(b) \in Nat /\ Len(x) \in Nat
        /\ DOMAIN b = 1..Len(b) /\ \A i \in 1..Len(b) : (b \o x)[i] = b[i]
    BY Joined
  <2>. QED
    BY <1>0, <2>1, <2>2
<1>2. /\ \A j \in 1..L : ~MagicAt(w, j)
      /\ left # <<>> => MagicAt(w, L + 1) /\ w[L + 1] = 65
  BY MagicBehindQuiet
<1>3. \A j \in Nat : 1 <= j /\ j < Len(b) => (MagicAt(w, j) <=> MagicAt(b, j))
  <2> SUFFICES ASSUME NEW j \in Nat, 1 <= j, j < Len(b)
               PROVE  MagicAt(w, j) <=> MagicAt(b, j)
    OBVIOUS
  <2>1. MagicAt(b \o x, j) <=> MagicAt(b, j)
    BY MagicOfJoined
  <2>. QED
    BY <1>0, <2>1
<1>4. left = <<>> <=> Len(left) = 0
  OBVIOUS
<1>5. ASSUME NEW k \in 1..(L + 1), k <= Len(b) + 1, d = Rest(b, k)
      PROVE  d \o x = Rest(q, k) \o left /\ Rest(q, k) \in Seq(Bytes) /\ Quiet(Rest(q, k))
  <2>1. Rest(b \o x, k) = Rest(b, k) \o x
    <3>1. k \in 1..(Len(b) + 1)
      BY <1>1, <1>5
    <3>. QED
      BY <3>1, JoinedRest
  <2>2. Rest(q \o left, k) = Rest(q, k) \o left
    BY JoinedRest
  <2>3. Rest(q, k) \in Seq(Bytes) /\ Quiet(Rest(q, k))
    BY QuietRest
  <2>. QED
    BY <1>0, <1>5, <2>1, <2>2, <2>3, Zenon
<1>6. CASE \E i \in DOMAIN b : MagicAt(b, i)
  <2> DEFINE First(i) == MagicAt(b, i) /\ \A j \in DOMAIN b : MagicAt(b, j) => i <= j
             first == CHOOSE i \in DOMAIN b : First(i)
  <2>1. \E i \in DOMAIN b : First(i)
    <3> DEFINE S == {i \in DOMAIN b : MagicAt(b, i)}
    <3>1. S \subseteq Nat /\ S # {}
      BY <1>1, <1>6
    <3> HIDE DEF S
    <3>2. \E m \in S : \A k \in S : m <= k
      BY <3>1, SmallestMember
    <3>. QED
      BY <3>2 DEF S
  <2>2. first \in DOMAIN b /\ First(first)
    <3> HIDE DEF First
    <3>. QED
      BY <2>1, Zenon
  <2>3. d = SubSeq(b, first, Len(b))
    BY <1>6 DEF Discarded
  <2> HIDE DEF first
  <2>4. first \in Nat /\ 1 <= first /\ first < Len(b) /\ MagicAt(b, first)
    BY <1>1, <2>2 DEF MagicAt
  <2>5. MagicAt(w, first)
    BY <1>3, <2>4
  <2>6. first > L
    BY <1>1, <1>2, <2>4, <2>5
  <2>7. left # <<>>
    BY <1>1, <1>4, <2>4, <2>6
  <2>8. MagicAt(b, L + 1) /\ L + 1 \in DOMAIN b
    <3>1. L + 1 \in Nat /\ 1 <= L + 1 /\ L + 1 < Len(b)
      BY <1>1, <2>4, <2>6
    <3>. QED
      BY <1>1, <1>2, <1>3, <2>7, <3>1
  <2>9. first = L + 1
    <3>1. first <= L + 1
      BY <2>2, <2>8
    <3>. QED
      BY <1>1, <2>4, <2>6, <3>1
  <2>10. d = Rest(b, L + 1) /\ L + 1 \in 1..(L + 1) /\ L + 1 <= Len(b) + 1
    BY <1>1, <2>3, <2>4, <2>9 DEF Rest
  <2>11. Rest(q, L + 1) = <<>>
    <3>1. Rest(q, L + 1) \in Seq(Bytes) /\ Len(Rest(q, L + 1)) = L + 1 - (L + 1)
      BY <2>10, RestIs
    <3>. QED
      BY <1>1, <3>1
  <2>12. d \o x = Rest(q, L + 1) \o left /\ Rest(q, L + 1) \in Seq(Bytes)
         /\ Quiet(Rest(q, L + 1))
    <3> HIDE DEF d, L, w
    <3>. QED
      BY <1>5, <2>10, Zenon
  <2>. QED
    BY <2>7, <2>11, <2>12, Zenon DEF Same
<1>7. CASE ~(\E i \in DOMAIN b : MagicAt(b, i))
  <2>1. Len(b) <= L + 1
    <3> SUFFICES ASSUME L + 1 < Len(b) PROVE FALSE
      BY <1>1
    <3>1. left # <<>> /\ L + 1 \in DOMAIN b
      BY <1>1, <1>4
    <3>2. MagicAt(b, L + 1)
      <4>1. L + 1 \in Nat /\ 1 <= L + 1
        BY <1>1
      <4>. QED
        BY <1>2, <1>3, <3>1, <4>1
    <3>. QED
      BY <1>7, <3>1, <3>2
  <2>2. CASE b # <<>> /\ b[Len(b)] = 65
    <3>1. d = <<65>>
      BY <1>7, <2>2, MagicIs DEF Discarded
    <3>2. Len(b) \in 1..(L + 1) /\ Len(b) <= Len(b) + 1
      BY <1>1, <2>1, <2>2
    <3>3. Rest(b, Len(b)) = <<65>>
      <4>1. /\ Rest(b, Len(b)) \in Seq(Bytes) /\ Len(Rest(b, Len(b))) = Len(b) + 1 - Len(b)
            /\ \A n \in 1..(Len(b) + 1 - Len(b)) : Rest(b, Len(b))[n] = b[n + (Len(b) - 1)]
        <5>1. Len(b) \in 1..(Len(b) + 1)
          BY <1>1, <3>2
        <5>. QED
          BY <5>1, RestIs
      <4> DEFINE r == Rest(b, Len(b))
      <4>2. r \in Seq(Bytes) /\ Len(r) = 1 /\ r[1] = 65
        <5>1. Len(b) + 1 - Len(b) = 1 /\ 1 + (Len(b) - 1) = Len(b) /\ 1 \in 1..1
          BY <1>1
        <5>. QED
          BY <2>2, <4>1, <5>1
      <4> HIDE DEF r
      <4>3. r = <<65>>
        BY <4>2
      <4>. QED
        BY <4>3 DEF r
    <3>4. d \o x = Rest(q, Len(b)) \o left /\ Rest(q, Len(b)) \in Seq(Bytes)
          /\ Quiet(Rest(q, Len(b)))
      BY <1>5, <3>1, <3>2, <3>3
    <3>5. ~MagicAt(d, 1)
      BY <3>1 DEF MagicAt
    <3>. QED
      BY <3>4, <3>5, Zenon DEF Same
  <2>3. CASE ~(b # <<>> /\ b[Len(b)] = 65)
    <3>1. d = <<>>
      BY <1>7, <2>3, MagicIs DEF Discarded
    <3>2. Len(b) <= L
      <4>1. ASSUME Len(b) = L + 1 PROVE FALSE
        <5>1. left # <<>> /\ b # <<>> /\ L + 1 \in 1..Len(b)
          BY <1>1, <1>4, <4>1
        <5>2. b[L + 1] = 65
          BY <1>1, <1>2, <5>1
        <5>. QED
          BY <2>3, <4>1, <5>1, <5>2
      <4>2. L \in Nat /\ Len(b) \in Nat /\ Len(b) # L + 1
        BY <1>1, <4>1
      <4> HIDE DEF L
      <4>. QED
        BY <2>1, <4>2
    <3> DEFINE k == Len(b) + 1
    <3>3. k \in 1..(L + 1) /\ k <= Len(b) + 1 /\ k \in 1..(Len(b) + 1)
      BY <1>1, <3>2
    <3>4. Rest(b, k) = <<>>
      <4>1. Rest(b, k) \in Seq(Bytes) /\ Len(Rest(b, k)) = Len(b) + 1 - k
        BY <3>3, RestIs
      <4>2. Len(b) + 1 - k = 0
        BY <1>1
      <4> HIDE DEF k
      <4>. QED
        BY <4>1, <4>2
    <3>5. d \o x = Rest(q, k) \o left /\ Rest(q, k) \in Seq(Bytes) /\ Quiet(Rest(q, k))
      <4> HIDE DEF k, d, L, w
      <4>. QED
        BY <1>5, <3>1, <3>3, <3>4, Zenon
    <3>6. ~MagicAt(d, 1)
      BY <3>1 DEF MagicAt
    <3>. QED
      BY <3>5, <3>6, Zenon DEF Same
  <2>. QED
    BY <2>2, <2>3
<1>. QED
  BY <1>6, <1>7

LEMMA RestOfAll ==
  ASSUME NEW b \in Seq(Bytes), NEW x \in Seq(Bytes)
  PROVE  Rest(b \o x, Len(b) + 1) = x
<1>1. Len(b) \in Nat /\ Len(b) + 1 \in 1..(Len(b) + 1) /\ Len(b) + 1 - (Len(b) + 1) = 0
  OBVIOUS
<1>2. Rest(b, Len(b) + 1) \in Seq(Bytes) /\ Len(Rest(b, Len(b) + 1)) = 0
  BY <1>1, RestIs
<1>3. Rest(b, Len(b) + 1) = <<>>
  BY <1>2
<1>4. Rest(b \o x, Len(b) + 1) = Rest(b, Len(b) + 1) \o x
  BY <1>1, JoinedRest
<1>5. <<>> \o x = x
  OBVIOUS
<1>. QED
  BY <1>3, <1>4, <1>5

LEMMA FrameBytesIs ==
  ASSUME NEW f, Sized(f), NEW F, F = FrameBytes(f)
  PROVE  /\ F \in Seq(Bytes) /\ Len(F) = HeaderLength + Len(f.payload)
         /\ MagicAt(F, 1) /\ F[3] = f.version /\ F[4] = f.type
         /\ F[5] + F[6] * Base = Len(f.payload)
         /\ Rest(F, HeaderLength + 1) = f.payload
<1> DEFINE p == f.payload
           n == Len(p)
           low == n % Base
           high == n \div Base
           rest == <<f.version, f.type, low, high>>
           header == Magic \o rest
<1>1. f.version \in Bytes /\ f.type \in Bytes /\ p \in Seq(Bytes)
  BY DEF Sized, Frame
<1>2. n \in Nat /\ n <= MaximumPayloadLength
  BY <1>1 DEF Sized
<1>3. low \in Bytes /\ high \in Bytes
  <2> HIDE DEF n
  <2>1. n \in Int
    BY <1>2
  <2>. QED
    BY <1>2, <2>1, SmallBytes, Zenon
<1>4. low + high * Base = n
  <2>1. Base \in Nat /\ Base > 0
    BY FrameAssumption
  <2> HIDE DEF n
  <2>2. high \in Nat /\ low \in Nat /\ n = high * Base + low
    BY <1>2, <2>1, Digits
  <2>3. high * Base \in Nat
    BY <2>1, <2>2
  <2> HIDE DEF low, high
  <2>. QED
    BY <2>2, <2>3
<1> HIDE DEF low, high
<1>6. F = header \o p
  BY DEF FrameBytes, low, high
<1> HIDE DEF header
<1>7. /\ header \in Seq(Bytes) /\ Len(header) = 6
      /\ header[1] = 65 /\ header[2] = 83 /\ header[3] = f.version /\ header[4] = f.type
      /\ header[5] = low /\ header[6] = high
  <2>1. Magic \in Seq(Bytes) /\ Len(Magic) = 2 /\ Magic[1] = 65 /\ Magic[2] = 83
    <3>1. 65 \in Bytes /\ 83 \in Bytes
      BY SmallBytes
    <3>. QED
      BY <3>1 DEF Magic
  <2>2. /\ rest \in Seq(Bytes) /\ Len(rest) = 4 /\ rest[1] = f.version /\ rest[2] = f.type
        /\ rest[3] = low /\ rest[4] = high
    BY <1>1, <1>3
  <2> HIDE DEF rest
  <2>3. header \in Seq(Bytes) /\ Len(header) = 2 + 4
        /\ \A i \in 1..2 : header[i] = Magic[i]
    <3>1. /\ Magic \o rest \in Seq(Bytes) /\ Len(Magic \o rest) = Len(Magic) + Len(rest)
          /\ \A i \in 1..Len(Magic) : (Magic \o rest)[i] = Magic[i]
      <4>1. Magic \in Seq(Bytes) /\ rest \in Seq(Bytes)
        BY <2>1, <2>2
      <4>. QED
        BY <4>1, Joined
    <3>. QED
      BY <2>1, <2>2, <3>1 DEF header
  <2>4. \A i \in 1..4 : header[2 + i] = rest[i]
    <3>1. \A i \in 1..Len(rest) : (Magic \o rest)[Len(Magic) + i] = rest[i]
      <4>1. Magic \in Seq(Bytes) /\ rest \in Seq(Bytes)
        BY <2>1, <2>2
      <4>. QED
        BY <4>1
    <3>2. Len(Magic) = 2 /\ Len(rest) = 4
      BY <2>1, <2>2, Zenon
    <3>3. \A i \in 1..4 : (Magic \o rest)[2 + i] = rest[i]
      BY <3>1, <3>2, Zenon
    <3>. QED
      BY <3>3, Zenon DEF header
  <2>5. 1 \in 1..2 /\ 2 \in 1..2 /\ 2 + 1 = 3 /\ 2 + 2 = 4 /\ 2 + 3 = 5 /\ 2 + 4 = 6
    OBVIOUS
  <2>. QED
    BY <2>1, <2>2, <2>3, <2>4, <2>5
<1>8. /\ F \in Seq(Bytes) /\ Len(F) = 6 + n /\ DOMAIN F = 1..(6 + n)
      /\ \A i \in 1..6 : F[i] = header[i]
  <2>1. /\ header \o p \in Seq(Bytes) /\ Len(header \o p) = Len(header) + Len(p)
        /\ DOMAIN (header \o p) = 1..(Len(header) + Len(p))
        /\ \A i \in 1..Len(header) : (header \o p)[i] = header[i]
    <3>1. header \in Seq(Bytes) /\ p \in Seq(Bytes)
      BY <1>1, <1>7
    <3> HIDE DEF p
    <3>. QED
      BY <3>1, Joined
  <2>. QED
    BY <1>6, <1>7, <2>1 DEF n
<1>9. F[1] = 65 /\ F[2] = 83 /\ F[3] = f.version /\ F[4] = f.type /\ F[5] = low
        /\ F[6] = high
  BY <1>7, <1>8
<1>10. MagicAt(F, 1)
  <2>1. 1 + 1 \in DOMAIN F
    BY <1>2, <1>8
  <2>. QED
    BY <1>9, <2>1, MagicIs DEF MagicAt
<1>11. Rest(F, 7) = p
  <2>1. Rest(header \o p, Len(header) + 1) = p
    BY <1>1, <1>7, RestOfAll
  <2>2. 6 + 1 = 7
    OBVIOUS
  <2>. QED
    BY <1>6, <1>7, <2>1, <2>2
<1>12. HeaderLength = 6 /\ HeaderLength + 1 = 7
  BY DEF HeaderLength
<1>. QED
  BY <1>4, <1>8, <1>9, <1>10, <1>11, <1>12 DEF n, p

\* What the parser reads in the header is what the sender wrote there, and what
\* it takes off the buffer is the frame.
LEMMA TakingFrame ==
  ASSUME NEW d \in Seq(Bytes), NEW x \in Seq(Bytes), NEW y \in Seq(Bytes),
         NEW f, Sized(f), Same(d, x, FrameBytes(f), y), ~Short(d)
  PROVE  /\ ~Oversized(d)
         /\ ~Incomplete(d) =>
              /\ [version |-> d[3], type |-> d[4],
                  payload |-> SubSeq(d, HeaderLength + 1, HeaderLength + Announced(d))] = f
              /\ SubSeq(d, HeaderLength + Announced(d) + 1, Len(d)) \o x = y
<1> DEFINE F == FrameBytes(f)
           n == Len(f.payload)
           e == 6 + n
<1>0. d \o x = F \o y
  BY DEF Same
<1>1. /\ F \in Seq(Bytes) /\ Len(F) = e /\ F[3] = f.version /\ F[4] = f.type
      /\ F[5] + F[6] * Base = n /\ Rest(F, 7) = f.payload
  BY FrameBytesIs DEF HeaderLength
<1>2. n \in Nat /\ n <= MaximumPayloadLength
      /\ f = [version |-> f.version, type |-> f.type, payload |-> f.payload]
  BY DEF Sized, Frame
<1> HIDE DEF F, n
<1>3. Len(d) \in Nat /\ Len(d) >= 6
  BY DEF Short, HeaderLength
<1>4. \A i \in 1..6 : d[i] = F[i]
  <2> SUFFICES ASSUME NEW i \in 1..6 PROVE d[i] = F[i]
    OBVIOUS
  <2>1. (d \o x)[i] = d[i]
    <3>1. i \in 1..Len(d)
      BY <1>3
    <3>. QED
      BY <3>1, Joined
  <2>2. (F \o y)[i] = F[i]
    <3>1. i \in 1..Len(F)
      BY <1>1, <1>2
    <3>. QED
      BY <1>1, <3>1, Joined
  <2>. QED
    BY <1>0, <2>1, <2>2
<1>5. Announced(d) = n
  BY <1>1, <1>4 DEF Announced
<1>6. ~Oversized(d)
  BY <1>2, <1>5, FrameAssumption DEF Oversized
<1>7. HeaderLength = 6 /\ HeaderLength + 1 = 7 /\ HeaderLength + Announced(d) = e
  BY <1>5 DEF HeaderLength
<1>8. ASSUME ~Incomplete(d)
      PROVE  /\ d[3] = f.version /\ d[4] = f.type /\ SubSeq(d, 7, e) = f.payload
             /\ SubSeq(d, e + 1, Len(d)) \o x = y
  <2>1. e <= Len(d)
    BY <1>2, <1>3, <1>5, <1>8 DEF Incomplete, HeaderLength
  <2>2. 7 \in 1..(Len(d) + 1) /\ e \in 0..Len(d) /\ 7 \in 1..(Len(F) + 1) /\ e \in 0..Len(F)
        /\ e + 1 \in 1..(Len(d) + 1) /\ e \in Nat
    BY <1>1, <1>2, <1>3, <2>1
  <2> HIDE DEF e
  <2>3. SubSeq(d \o x, 7, e) = SubSeq(d, 7, e)
    BY <2>2, JoinedPart
  <2>4. SubSeq(F \o y, 7, e) = SubSeq(F, 7, e)
    BY <1>1, <2>2, JoinedPart
  <2>5. SubSeq(d, 7, e) = f.payload
    BY <1>0, <1>1, <2>3, <2>4 DEF Rest
  <2>6. Rest(d \o x, e + 1) = Rest(d, e + 1) \o x
    BY <2>2, JoinedRest
  <2>7. Rest(F \o y, e + 1) = y
    BY <1>1, RestOfAll
  <2>8. Rest(d, e + 1) \o x = y
    BY <1>0, <2>6, <2>7
  <2>9. d[3] = f.version /\ d[4] = f.type
    BY <1>1, <1>4
  <2>. QED
    BY <2>5, <2>8, <2>9, Zenon DEF Rest
<1>9. ASSUME ~Incomplete(d)
      PROVE  /\ [version |-> d[3], type |-> d[4],
                 payload |-> SubSeq(d, HeaderLength + 1, HeaderLength + Announced(d))] = f
             /\ SubSeq(d, HeaderLength + Announced(d) + 1, Len(d)) \o x = y
  <2>1. /\ d[3] = f.version /\ d[4] = f.type /\ SubSeq(d, 7, e) = f.payload
        /\ SubSeq(d, e + 1, Len(d)) \o x = y
    BY <1>8, <1>9
  <2> HIDE DEF e
  <2>2. SubSeq(d, HeaderLength + 1, HeaderLength + Announced(d)) = f.payload
    BY <1>7, <2>1
  <2>3. SubSeq(d, HeaderLength + Announced(d) + 1, Len(d)) \o x = y
    BY <1>7, <2>1
  <2>. QED
    BY <1>2, <2>1, <2>2, <2>3, Zenon
<1>. QED
  BY <1>6, <1>9

\* What a sender still has in the stream when n of its messages are out of it.
Left(side, messages, n) ==
  IF n >= Len(messages) THEN <<>>
  ELSE IF n + 1 = Len(messages) THEN Sent(side, messages[n + 1])
  ELSE Sent(side, messages[n + 1]) \o Sent(side, messages[n + 2])

Sendable(messages) == messages \in Seq(Messages) /\ Len(messages) \in {1, 2}

LEMMA SentIs ==
  ASSUME NEW m \in Messages, NEW side \in {"host", "device"}
  PROVE  \E f : Sized(f) /\ Sent(side, m) = FrameBytes(f) /\ Received(side, f) = m
<1>1. Sized(FirmwareEncode(m)) /\ Sized(HostEncode(m))
  <2>1. m.type \in Types /\ m.text \in Seq(Bytes)
    BY WireAssumption
  <2>2. Agree(m.type)
    BY <2>1, TablesAgree
  <2>3. Sized(FirmwareEncode(m))
    BY <2>1, <2>2, EncodedIsSized DEF Agree, FirmwareEncode, FirmwareWrites
  <2>4. Sized(HostEncode(m))
    BY <2>1, <2>2, EncodedIsSized DEF Agree, HostEncode
  <2>. QED
    BY <2>3, <2>4
<1>2. Received("host", FirmwareEncode(m)) = m /\ Received("device", HostEncode(m)) = m
  BY MessagesComeBack
<1>3. CASE side = "host"
  <2>1. Sent(side, m) = FrameBytes(FirmwareEncode(m))
    BY <1>3 DEF Sent
  <2>. QED
    BY <1>1, <1>2, <1>3, <2>1, Zenon
<1>4. CASE side = "device"
  <2>1. Sent(side, m) = FrameBytes(HostEncode(m))
    BY <1>4 DEF Sent
  <2>. QED
    BY <1>1, <1>2, <1>4, <2>1, Zenon
<1>. QED
  BY <1>3, <1>4

LEMMA MagicOfSent ==
  ASSUME NEW f, Sized(f), NEW x \in Seq(Bytes)
  PROVE  MagicAt(FrameBytes(f) \o x, 1) /\ FrameBytes(f) \o x \in Seq(Bytes)
<1> DEFINE F == FrameBytes(f)
<1>1. F \in Seq(Bytes) /\ MagicAt(F, 1)
  BY FrameBytesIs
<1> HIDE DEF F
<1>2. 1 \in Nat /\ 1 <= 1 /\ 1 < Len(F)
  BY <1>1 DEF MagicAt
<1>3. MagicAt(F \o x, 1) <=> MagicAt(F, 1)
  BY <1>1, <1>2, MagicOfJoined
<1>4. F \o x \in Seq(Bytes)
  BY <1>1
<1>. QED
  BY <1>1, <1>3, <1>4 DEF F

LEMMA LeftIs ==
  ASSUME NEW side \in {"host", "device"}, NEW ms, Sendable(ms), NEW n \in 0..Len(ms)
  PROVE  /\ Left(side, ms, n) \in Seq(Bytes) /\ Starts(Left(side, ms, n))
         /\ Left(side, ms, n) # <<>> => n < Len(ms)
         /\ n < Len(ms) =>
              \E f : /\ Sized(f) /\ Received(side, f) = ms[n + 1]
                     /\ Left(side, ms, n) = FrameBytes(f) \o Left(side, ms, n + 1)
<1> DEFINE N == Len(ms)
<1>1. N \in {1, 2} /\ \A i \in 1..N : ms[i] \in Messages
  BY DEF Sendable
<1>2. \A k \in Nat : k >= N => Left(side, ms, k) = <<>>
  BY DEF Left
<1>3. ASSUME NEW k \in 0..N, k + 1 = N
      PROVE  Left(side, ms, k) \in Seq(Bytes)
             /\ \E f : /\ Sized(f) /\ Received(side, f) = ms[k + 1]
                       /\ Left(side, ms, k) = FrameBytes(f) \o Left(side, ms, k + 1)
  <2>1. ms[k + 1] \in Messages /\ ~(k >= N)
    BY <1>1, <1>3
  <2>2. PICK f : Sized(f) /\ Sent(side, ms[k + 1]) = FrameBytes(f)
                 /\ Received(side, f) = ms[k + 1]
    BY <2>1, SentIs
  <2>3. Left(side, ms, k) = FrameBytes(f)
    BY <1>3, <2>1, <2>2 DEF Left
  <2>4. Left(side, ms, k + 1) = <<>>
    <3>1. k + 1 \in Nat /\ k + 1 >= N
      BY <1>1, <1>3
    <3>. QED
      BY <1>2, <3>1
  <2>5. FrameBytes(f) \in Seq(Bytes)
    BY <2>2, FrameBytesIs
  <2>6. FrameBytes(f) \o <<>> = FrameBytes(f)
    BY <2>5
  <2>. QED
    BY <2>2, <2>3, <2>4, <2>5, <2>6, Zenon
<1>4. ASSUME NEW k \in 0..N, k + 2 = N
      PROVE  \E f : /\ Sized(f) /\ Received(side, f) = ms[k + 1]
                    /\ Left(side, ms, k) = FrameBytes(f) \o Left(side, ms, k + 1)
  <2>1. ms[k + 1] \in Messages /\ ~(k >= N) /\ k + 1 # N /\ (k + 1) + 1 = k + 2
        /\ ~(k + 1 >= N) /\ (k + 1) + 1 = N
    BY <1>1, <1>4
  <2>2. PICK f : Sized(f) /\ Sent(side, ms[k + 1]) = FrameBytes(f)
                 /\ Received(side, f) = ms[k + 1]
    BY <2>1, SentIs
  <2>3. Left(side, ms, k) = FrameBytes(f) \o Sent(side, ms[k + 2])
    BY <2>1, <2>2 DEF Left
  <2>4. Left(side, ms, k + 1) = Sent(side, ms[k + 2])
    BY <2>1 DEF Left
  <2>. QED
    BY <2>2, <2>3, <2>4, Zenon
<1> HIDE DEF N
<1>5. CASE n = N
  <2>1. Left(side, ms, n) = <<>>
    BY <1>1, <1>2, <1>5
  <2>. QED
    BY <1>1, <1>5, <2>1 DEF Starts, N
<1>6. CASE n + 1 = N
  <2>1. n \in 0..N /\ n < N
    BY <1>1, <1>6 DEF N
  <2>2. PICK f : /\ Sized(f) /\ Received(side, f) = ms[n + 1]
                 /\ Left(side, ms, n) = FrameBytes(f) \o Left(side, ms, n + 1)
    BY <1>3, <1>6, <2>1
  <2>3. Left(side, ms, n + 1) \in Seq(Bytes)
    <3>1. n + 1 \in Nat /\ n + 1 >= N
      BY <1>1, <1>6, <2>1
    <3>. QED
      BY <1>2, <3>1, EmptyType
  <2>4. Left(side, ms, n) \in Seq(Bytes) /\ MagicAt(Left(side, ms, n), 1)
    BY <2>2, <2>3, MagicOfSent
  <2>. QED
    BY <2>1, <2>2, <2>4, Zenon DEF Starts, N
<1>7. CASE n + 2 = N
  <2>1. n \in 0..N /\ n < N /\ n + 1 \in 0..N /\ (n + 1) + 1 = N
    BY <1>1, <1>7 DEF N
  <2>2. PICK f : /\ Sized(f) /\ Received(side, f) = ms[n + 1]
                 /\ Left(side, ms, n) = FrameBytes(f) \o Left(side, ms, n + 1)
    BY <1>4, <1>7, <2>1
  <2>3. Left(side, ms, n + 1) \in Seq(Bytes)
    BY <1>3, <2>1
  <2>4. Left(side, ms, n) \in Seq(Bytes) /\ MagicAt(Left(side, ms, n), 1)
    BY <2>2, <2>3, MagicOfSent
  <2>. QED
    BY <2>1, <2>2, <2>4, Zenon DEF Starts, N
<1>8. n = N \/ n + 1 = N \/ n + 2 = N
  BY <1>1 DEF N
<1>. QED
  BY <1>5, <1>6, <1>7, <1>8

\* The frames cut out of the stream are the first of the sender's, and buffer and
\* unread bytes hold the others, behind quiet bytes.
OnTrack(side, messages, frames, b, x) ==
  /\ Len(frames) <= Len(messages)
  /\ \A i \in 1..Len(frames) : Received(side, frames[i]) = messages[i]
  /\ \E q \in Seq(Bytes) : Quiet(q) /\ Same(b, x, q, Left(side, messages, Len(frames)))

LEMMA DiscardOnTrack ==
  ASSUME NEW side \in {"host", "device"}, NEW ms, Sendable(ms), NEW frames \in Seq(Frame),
         NEW b \in Seq(Bytes), NEW x \in Seq(Bytes), OnTrack(side, ms, frames, b, x)
  PROVE  /\ OnTrack(side, ms, frames, Discarded(b), x)
         /\ ~Short(Discarded(b)) =>
              /\ Len(frames) < Len(ms)
              /\ Discarded(b) \o x = Left(side, ms, Len(frames))
<1> DEFINE n    == Len(frames)
           left == Left(side, ms, n)
           d    == Discarded(b)
<1>1. n \in 0..Len(ms)
  BY DEF OnTrack, Sendable
<1>2. left \in Seq(Bytes) /\ Starts(left) /\ (left # <<>> => n < Len(ms))
  BY <1>1, LeftIs
<1>3. PICK q \in Seq(Bytes) : Quiet(q) /\ Same(b, x, q, left)
  BY DEF OnTrack
<1> HIDE DEF left
<1>4. PICK r \in Seq(Bytes) : /\ Quiet(r) /\ Same(Discarded(b), x, r, left)
                              /\ MagicAt(Discarded(b), 1) => r = <<>> /\ left # <<>>
  BY <1>2, <1>3, DiscardingQuiet
<1>5. OnTrack(side, ms, frames, Discarded(b), x)
  BY <1>4 DEF OnTrack, left
<1>6. ASSUME ~Short(Discarded(b))
      PROVE  n < Len(ms) /\ Discarded(b) \o x = left
  <2>1. MagicAt(Discarded(b), 1)
    BY <1>6, LongStartsWithMagic
  <2>2. <<>> \o left = left
    BY <1>2
  <2>. QED
    BY <1>2, <1>4, <2>1, <2>2 DEF Same
<1>. QED
  BY <1>5, <1>6 DEF left

LEMMA TakeOnTrack ==
  ASSUME NEW side \in {"host", "device"}, NEW ms, Sendable(ms), NEW frames \in Seq(Frame),
         NEW b \in Seq(Bytes), NEW x \in Seq(Bytes), OnTrack(side, ms, frames, b, x),
         NEW d, d = Discarded(b), ~Short(d),
         NEW f, f = [version |-> d[3], type |-> d[4],
                     payload |-> SubSeq(d, HeaderLength + 1, HeaderLength + Announced(d))]
  PROVE  /\ ~Oversized(d)
         /\ ~Incomplete(d) =>
              OnTrack(side, ms, Append(frames, f),
                      SubSeq(d, HeaderLength + Announced(d) + 1, Len(d)), x)
<1> DEFINE n    == Len(frames)
           left == Left(side, ms, n)
           next == Left(side, ms, n + 1)
<1>1. d \in Seq(Bytes)
  BY DiscardedType
<1>2. n < Len(ms) /\ d \o x = left
  BY DiscardOnTrack
<1>3. n \in Nat /\ n \in 0..Len(ms) /\ n + 1 \in 0..Len(ms) /\ Len(ms) \in Nat
  BY <1>2 DEF Sendable
<1>4. PICK g : Sized(g) /\ Received(side, g) = ms[n + 1] /\ left = FrameBytes(g) \o next
  BY <1>2, <1>3, LeftIs
<1>5. next \in Seq(Bytes)
  BY <1>3, LeftIs
<1> HIDE DEF left, next
<1>6. Same(d, x, FrameBytes(g), next)
  BY <1>2, <1>4 DEF Same
<1>7. ~Oversized(d)
  BY <1>1, <1>4, <1>5, <1>6, TakingFrame
<1>8. ASSUME ~Incomplete(d)
      PROVE  OnTrack(side, ms, Append(frames, f),
                     SubSeq(d, HeaderLength + Announced(d) + 1, Len(d)), x)
  <2> DEFINE e == SubSeq(d, HeaderLength + Announced(d) + 1, Len(d))
  <2>1. f = g /\ e \o x = next
    <3>1. /\ [version |-> d[3], type |-> d[4],
              payload |-> SubSeq(d, HeaderLength + 1, HeaderLength + Announced(d))] = g
          /\ e \o x = next
      BY <1>1, <1>4, <1>5, <1>6, <1>8, TakingFrame
    <3> HIDE DEF e
    <3>. QED
      BY <3>1
  <2> HIDE DEF e
  <2>2. /\ Len(Append(frames, f)) = n + 1 /\ Append(frames, f)[n + 1] = f
        /\ \A i \in 1..n : Append(frames, f)[i] = frames[i]
    BY <1>3
  <2>3. \A i \in 1..(n + 1) : Received(side, Append(frames, f)[i]) = ms[i]
    <3> SUFFICES ASSUME NEW i \in 1..(n + 1)
                 PROVE  Received(side, Append(frames, f)[i]) = ms[i]
      OBVIOUS
    <3>1. CASE i = n + 1
      BY <1>4, <2>1, <2>2, <3>1
    <3>2. CASE i # n + 1
      <4>1. i \in 1..n
        BY <1>3, <3>2
      <4>. QED
        BY <2>2, <4>1 DEF OnTrack
    <3>. QED
      BY <3>1, <3>2
  <2>4. <<>> \in Seq(Bytes) /\ Quiet(<<>>) /\ <<>> \o next = next
    <3>1. <<>> \in Seq(Bytes) /\ <<>> \o next = next
      BY <1>5
    <3>2. Quiet(<<>>)
      BY DEF Quiet
    <3>. QED
      BY <3>1, <3>2
  <2>5. n + 1 <= Len(ms)
    BY <1>3
  <2>6. e \o x = <<>> \o Left(side, ms, n + 1)
    BY <2>1, <2>4 DEF next
  <2>. QED
    BY <2>2, <2>3, <2>4, <2>5, <2>6 DEF OnTrack, Same, e
<1>. QED
  BY <1>7, <1>8

Unread == Rest(stream, position + 1)

\* As long as the stream is what a sender wrote, the parser is on its track.
TrackInv ==
  /\ Sendable(sent)
  /\ ~disturbed => /\ ~flawed /\ open
                   /\ OnTrack(receiver, sent, taken \o batch, buffer, Unread)

LEMMA TrackInitially == WireInit => TrackInv
<1> SUFFICES ASSUME WireInit PROVE TrackInv
  OBVIOUS
<1>1. /\ buffer = <<>> /\ batch = <<>> /\ taken = <<>> /\ position = 0 /\ flawed = FALSE
      /\ open = TRUE /\ receiver \in {"host", "device"}
  BY DEF WireInit, ParserInit
<1>2. stream \in Seq(Bytes)
  BY WireInitially DEF WireInv
<1>3. taken \o batch = <<>> /\ Len(<<>>) = 0
  BY <1>1
<1>4. buffer \o Unread = stream
  <2>1. Rest(stream, 0 + 1) = stream
    BY <1>2 DEF Rest
  <2>. QED
    BY <1>1, <1>2, <2>1 DEF Unread
<1>5. /\ Sendable(sent)
      /\ ~disturbed => \E q \in Seq(Bytes) : Quiet(q)
           /\ stream = q \o Left(receiver, sent, 0)
  <2>1. PICK m \in Followers :
          \/ \E first \in Messages :
               StreamInit(Sent(receiver, first), Sent(receiver, m), <<first, m>>, FALSE)
          \/ \E noise \in Noise :
               StreamInit(noise, Sent(receiver, m), <<m>>, ~Quiet(noise))
          \/ \E first \in Messages, slip \in Slips :
               \E i \in DOMAIN Sent(receiver, first) :
                 /\ Sent(receiver, first)[i] # slip
                 /\ StreamInit([Sent(receiver, first) EXCEPT ![i] = slip],
                               Sent(receiver, m), <<m>>, TRUE)
    BY DEF WireInit
  <2>2. m \in Messages
    BY WireAssumption
  <2>3. CASE \E first \in Messages :
               StreamInit(Sent(receiver, first), Sent(receiver, m), <<first, m>>, FALSE)
    <3>1. PICK first \in Messages :
            StreamInit(Sent(receiver, first), Sent(receiver, m), <<first, m>>, FALSE)
      BY <2>3
    <3>2. stream = Sent(receiver, first) \o Sent(receiver, m) /\ sent = <<first, m>>
      BY <3>1 DEF StreamInit
    <3>3. Sendable(sent)
      BY <2>2, <3>2 DEF Sendable
    <3>4. Left(receiver, sent, 0) = Sent(receiver, first) \o Sent(receiver, m)
      <4>1. /\ Len(sent) = 2 /\ sent[0 + 1] = first /\ sent[0 + 2] = m
            /\ ~(0 >= Len(sent)) /\ 0 + 1 # Len(sent)
        BY <3>2
      <4>. QED
        BY <4>1 DEF Left
    <3>5. <<>> \in Seq(Bytes) /\ Quiet(<<>>) /\ <<>> \o stream = stream
      <4>1. <<>> \in Seq(Bytes) /\ <<>> \o stream = stream
        BY <1>2
      <4>2. Quiet(<<>>)
        BY DEF Quiet
      <4>. QED
        BY <4>1, <4>2
    <3>. QED
      BY <3>2, <3>3, <3>4, <3>5
  <2>4. CASE \E noise \in Noise :
               StreamInit(noise, Sent(receiver, m), <<m>>, ~Quiet(noise))
    <3>1. PICK noise \in Noise : StreamInit(noise, Sent(receiver, m), <<m>>, ~Quiet(noise))
      BY <2>4
    <3>2. stream = noise \o Sent(receiver, m) /\ sent = <<m>> /\ disturbed = ~Quiet(noise)
      BY <3>1 DEF StreamInit
    <3>3. Sendable(sent)
      BY <2>2, <3>2 DEF Sendable
    <3>4. Left(receiver, sent, 0) = Sent(receiver, m)
      <4>1. /\ Len(sent) = 1 /\ sent[0 + 1] = m /\ ~(0 >= Len(sent)) /\ 0 + 1 = Len(sent)
        BY <3>2
      <4>. QED
        BY <4>1 DEF Left
    <3>5. noise \in Seq(Bytes)
      BY WireAssumption
    <3>. QED
      BY <3>2, <3>3, <3>4, <3>5
  <2>5. CASE \E first \in Messages, slip \in Slips :
               \E i \in DOMAIN Sent(receiver, first) :
                 /\ Sent(receiver, first)[i] # slip
                 /\ StreamInit([Sent(receiver, first) EXCEPT ![i] = slip],
                               Sent(receiver, m), <<m>>, TRUE)
    <3>1. sent = <<m>> /\ disturbed = TRUE
      BY <2>5 DEF StreamInit
    <3>2. Sendable(sent)
      BY <2>2, <3>1 DEF Sendable
    <3>. QED
      BY <3>1, <3>2
  <2>. QED
    BY <2>1, <2>3, <2>4, <2>5
<1>6. ASSUME ~disturbed PROVE OnTrack(receiver, sent, taken \o batch, buffer, Unread)
  <2>1. PICK q \in Seq(Bytes) : Quiet(q) /\ stream = q \o Left(receiver, sent, 0)
    BY <1>5, <1>6
  <2>2. Same(buffer, Unread, q, Left(receiver, sent, Len(taken \o batch)))
    BY <1>3, <1>4, <2>1, Zenon DEF Same
  <2>3. Len(taken \o batch) = 0 /\ Len(sent) \in {1, 2}
    BY <1>3, <1>5 DEF Sendable
  <2>4. Len(taken \o batch) <= Len(sent) /\ \A i \in 1..Len(taken \o batch) : FALSE
    BY <2>3
  <2>. QED
    BY <2>1, <2>2, <2>4, Zenon DEF OnTrack
<1>. QED
  BY <1>1, <1>5, <1>6 DEF TrackInv

LEMMA TrackAtRead == ASSUME WireInv, CutInv, TrackInv, Read PROVE TrackInv'
<1>1. /\ stream \in Seq(Bytes) /\ position \in 0..Len(stream) /\ buffer \in Seq(Bytes)
      /\ Len(buffer) \in Nat /\ ParserInv /\ phase = "idle"
  BY DEF WireInv, ParserInv, ParserTypeOK, Read, Push
<1>2. PICK bytes \in Seq(Bytes) :
        /\ bytes = SubSeq(stream, position + 1, position')
        /\ Push(bytes) /\ Len(bytes) <= ReadLength
  BY ReadGives
<1>3. position' \in 0..Len(stream) /\ position < position'
  BY ReadGives
<1>4. ~Overflows(bytes)
  <2>1. Len(buffer) < HeaderLength + MaximumPayloadLength
    BY <1>1 DEF ParserInv, Largest
  <2>2. Len(bytes) \in Nat /\ Len(bytes) <= ReadLength
    BY <1>2
  <2>. QED
    BY <1>1, <2>1, <2>2, FrameAssumption, ParserAssumption DEF Overflows, HeaderLength
<1>5. /\ buffer' = buffer \o bytes /\ batch' = batch /\ ~flawed'
      /\ UNCHANGED <<receiver, sent, disturbed, stream, taken, open>>
  <2>1. UNCHANGED <<receiver, sent, disturbed, stream, taken, open>>
    BY DEF Read
  <2>2. buffer' = buffer \o bytes /\ batch' = batch
    BY <1>1, <1>2, <1>4 DEF Push, CutInv
  <2>3. ~flawed'
    BY <1>2, <1>4, Zenon DEF Push
  <2>. QED
    BY <2>1, <2>2, <2>3
<1>6. bytes \o Unread' = Unread /\ Unread' \in Seq(Bytes)
  <2> DEFINE p == position
             q == position'
             N == Len(stream)
  <2>1. p \in Nat /\ q \in Nat /\ p <= q /\ q <= N /\ N \in Nat
    BY <1>1, <1>3
  <2> HIDE DEF p, q
  <2>2. SubSeq(stream, p + 1, q) \o SubSeq(stream, q + 1, N) = SubSeq(stream, p + 1, N)
    <3>1. p + 1 \in 1..(Len(stream) + 1) /\ q \in (p + 1) - 1..Len(stream)
            /\ N \in q..Len(stream)
      BY <2>1
    <3>. QED
      BY <1>1, <3>1, ConcatAdjacentSubSeq
  <2>3. SubSeq(stream, q + 1, N) \in Seq(Bytes)
    BY <1>1, <2>1
  <2>. QED
    BY <1>2, <1>5, <2>2, <2>3 DEF Unread, Rest, p, q
<1>7. buffer \o Unread = buffer' \o Unread'
  <2>1. \A s \in Seq(Bytes) : s \o (bytes \o Unread') = (s \o bytes) \o Unread'
    <3> DEFINE u == Unread'
    <3>1. u \in Seq(Bytes)
      BY <1>6
    <3> HIDE DEF u
    <3>2. \A s \in Seq(Bytes) : s \o (bytes \o u) = (s \o bytes) \o u
      BY <3>1
    <3>. QED
      BY <3>2 DEF u
  <2>. QED
    BY <1>1, <1>5, <1>6, <2>1, Zenon
<1>8. ASSUME ~disturbed
      PROVE  OnTrack(receiver, sent, taken \o batch, buffer', Unread')
  <2>1. OnTrack(receiver, sent, taken \o batch, buffer, Unread)
    BY <1>8 DEF TrackInv
  <2>2. \A q, left : Same(buffer, Unread, q, left) => Same(buffer', Unread', q, left)
    BY <1>7, Zenon DEF Same
  <2>. QED
    BY <2>1, <2>2, Zenon DEF OnTrack
<1>9. ASSUME ~disturbed
      PROVE  OnTrack(receiver', sent', taken' \o batch', buffer', Unread')
  BY <1>5, <1>8, <1>9
<1>10. Sendable(sent') /\ (~disturbed' => ~flawed' /\ open')
  BY <1>5 DEF TrackInv
<1>11. disturbed' = disturbed
  BY <1>5
<1>. QED
  BY <1>9, <1>10, <1>11 DEF TrackInv

LEMMA TrackAtParse == ASSUME WireInv, TrackInv, Cut PROVE TrackInv'
<1> DEFINE d == Discarded(buffer)
           frames == taken \o batch
           f == [version |-> d[3], type |-> d[4],
                 payload |-> SubSeq(d, HeaderLength + 1, HeaderLength + Announced(d))]
           rest == SubSeq(d, HeaderLength + Announced(d) + 1, Len(d))
<1>1. /\ buffer \in Seq(Bytes) /\ taken \in Seq(Frame) /\ batch \in Seq(Frame)
      /\ frames \in Seq(Frame) /\ Unread \in Seq(Bytes) /\ receiver \in {"host", "device"}
  <2>1. /\ buffer \in Seq(Bytes) /\ taken \in Seq(Frame) /\ batch \in Seq(Frame)
        /\ receiver \in {"host", "device"} /\ stream \in Seq(Bytes)
        /\ position \in 0..Len(stream)
    BY DEF WireInv, ParserInv, ParserTypeOK
  <2>2. frames \in Seq(Frame)
    BY <2>1
  <2>3. position + 1 \in 1..(Len(stream) + 1)
    BY <2>1
  <2>4. Unread \in Seq(Bytes)
    BY <2>1, <2>3, RestIs DEF Unread
  <2>. QED
    BY <2>1, <2>2, <2>4
<1>2. /\ Unread' = Unread /\ Sendable(sent)
      /\ UNCHANGED <<receiver, sent, disturbed, taken, open>>
  BY DEF Cut, Unread, TrackInv
<1>3. CASE disturbed
  BY <1>2, <1>3 DEF TrackInv
<1>4. CASE ~disturbed
  <2>1. /\ OnTrack(receiver, sent, frames, buffer, Unread) /\ ~flawed /\ open
        /\ ~disturbed' /\ open' /\ Sendable(sent')
    BY <1>2, <1>4 DEF TrackInv
  <2>2. OnTrack(receiver, sent, frames, d, Unread)
    BY <1>1, <1>2, <2>1, DiscardOnTrack
  <2>3. ~Short(d) => /\ ~Oversized(d)
                     /\ ~Incomplete(d) =>
                          OnTrack(receiver, sent, Append(frames, f), rest, Unread)
    BY <1>1, <1>2, <2>1, TakeOnTrack
  <2>4. CASE Await
    <3>1. buffer' = d /\ batch' = batch /\ flawed' = flawed
      BY <2>4 DEF Await
    <3> HIDE DEF d
    <3>. QED
      BY <1>2, <2>1, <2>2, <3>1 DEF TrackInv
  <2>5. CASE Skip
    <3>1. ~Short(d) /\ Oversized(d)
      BY <2>5 DEF Skip
    <3>. QED
      BY <2>3, <3>1
  <2>6. CASE Take
    <3>1. ~Short(d) /\ ~Oversized(d) /\ ~Incomplete(d)
      BY <2>6 DEF Take
    <3>2. batch' = Append(batch, f) /\ buffer' = rest /\ flawed' = flawed
      BY <2>6 DEF Take
    <3>3. taken \o Append(batch, f) = Append(taken \o batch, f)
      <4> HIDE DEF f
      <4>1. Append(batch, f) = batch \o <<f>>
              /\ Append(taken \o batch, f) = (taken \o batch) \o <<f>>
        BY <1>1, AppendIsConcat
      <4> DEFINE S == Frame \cup {f}
      <4>2. taken \in Seq(S) /\ batch \in Seq(S) /\ <<f>> \in Seq(S)
        <5>1. \A s \in Seq(Frame) : s \in Seq(S)
          OBVIOUS
        <5>2. <<f>> \in Seq(S)
          OBVIOUS
        <5>. QED
          BY <1>1, <5>1, <5>2
      <4> HIDE DEF S
      <4>3. taken \o (batch \o <<f>>) = (taken \o batch) \o <<f>>
        BY <4>2
      <4>. QED
        BY <4>1, <4>3
    <3>4. OnTrack(receiver, sent, Append(frames, f), rest, Unread)
      BY <2>3, <3>1
    <3> HIDE DEF f, rest, d
    <3>5. taken' \o batch' = Append(frames, f)
      BY <1>2, <3>2, <3>3
    <3> HIDE DEF frames
    <3>. QED
      BY <1>2, <2>1, <3>2, <3>4, <3>5 DEF TrackInv
  <2>. QED
    BY <2>4, <2>5, <2>6 DEF Cut, Parse
<1>. QED
  BY <1>3, <1>4

LEMMA OnTrackFacts ==
  ASSUME WireInv, TrackInv, ~disturbed
  PROVE  /\ Len(taken) \in Nat /\ Len(batch) \in Nat /\ Len(taken) + Len(batch) <= Len(sent)
         /\ \A i \in 1..Len(taken) : Received(receiver, taken[i]) = sent[i]
         /\ \A i \in 1..Len(batch) : Received(receiver, batch[i]) = sent[Len(taken) + i]
         /\ \A i \in 1..Len(sent) : sent[i] \in Messages /\ sent[i] # NoMessage
<1>1. /\ taken \in Seq(Frame) /\ batch \in Seq(Frame)
  BY DEF WireInv, ParserInv, ParserTypeOK
<1> DEFINE frames == taken \o batch
<1>2. /\ Len(taken) \in Nat /\ Len(batch) \in Nat /\ Len(frames) = Len(taken) + Len(batch)
      /\ \A i \in 1..Len(taken) : frames[i] = taken[i]
      /\ \A i \in 1..Len(batch) : frames[Len(taken) + i] = batch[i]
  BY <1>1
<1> HIDE DEF frames
<1>3. /\ Len(frames) <= Len(sent)
      /\ \A i \in 1..Len(frames) : Received(receiver, frames[i]) = sent[i]
  BY DEF TrackInv, OnTrack, frames
<1>4. \A i \in 1..Len(taken) : Received(receiver, taken[i]) = sent[i]
  BY <1>2, <1>3
<1>5. \A i \in 1..Len(batch) : Received(receiver, batch[i]) = sent[Len(taken) + i]
  BY <1>2, <1>3
<1>6. ASSUME NEW i \in 1..Len(sent) PROVE sent[i] \in Messages /\ sent[i] # NoMessage
  <2>1. sent[i] \in Messages
    BY DEF TrackInv, Sendable
  <2>2. sent[i].type \in Types
    BY <2>1, WireAssumption
  <2>3. NoMessage.type = "none" /\ "none" \notin Types
    BY TypesAre DEF NoMessage
  <2>. QED
    BY <2>1, <2>2, <2>3
<1>. QED
  BY <1>2, <1>3, <1>4, <1>5, <1>6

LEMMA TrackAtConsumed ==
  ASSUME WireInv, DeliveredInv, TrackInv, HostActs \/ DeviceActs
  PROVE  TrackInv'
<1>1. /\ taken' = taken \o batch /\ batch' = <<>> /\ flawed' = FALSE /\ buffer' = buffer
      /\ UNCHANGED <<receiver, sent, disturbed, stream, position>>
  BY DEF HostActs, DeviceActs, Consumed
<1>2. taken \in Seq(Frame) /\ batch \in Seq(Frame)
  BY DEF WireInv, ParserInv, ParserTypeOK
<1>3. taken' \o batch' = taken \o batch
  BY <1>1, <1>2
<1>4. Unread' = Unread
  BY <1>1 DEF Unread
<1>5. ASSUME ~disturbed PROVE open'
  <2>1. CASE DeviceActs
    BY <1>5, <2>1 DEF DeviceActs, TrackInv
  <2>2. CASE HostActs
    <3>1. receiver = "host" /\ ~flawed
      BY <1>5, <2>2 DEF HostActs, TrackInv
    <3>2. \A i \in DOMAIN Decoded : Decoded[i] # NoMessage
      <4> SUFFICES ASSUME NEW i \in DOMAIN batch PROVE Received(receiver,
            batch[i]) # NoMessage
        BY DEF Decoded
      <4>1. i \in 1..Len(batch)
        BY <1>2
      <4>2. /\ Received(receiver, batch[i]) = sent[Len(taken) + i]
            /\ Len(taken) \in Nat /\ Len(batch) \in Nat
                 /\ Len(taken) + Len(batch) <= Len(sent)
            /\ \A k \in 1..Len(sent) : sent[k] # NoMessage
        BY <1>5, <4>1, OnTrackFacts
      <4>3. Len(sent) \in Nat
        BY DEF TrackInv, Sendable
      <4>4. Len(taken) + i \in 1..Len(sent)
        BY <4>1, <4>2, <4>3
      <4>. QED
        BY <4>2, <4>4
    <3>. QED
      BY <2>2, <3>1, <3>2 DEF HostActs
  <2>. QED
    BY <2>1, <2>2
<1>. QED
  BY <1>1, <1>3, <1>4, <1>5 DEF TrackInv

LEMMA TrackStep ==
  WireInv /\ CutInv /\ DeliveredInv /\ TrackInv /\ [WireNext]_wireVars => TrackInv'
<1> SUFFICES ASSUME WireInv, CutInv, DeliveredInv, TrackInv, [WireNext]_wireVars
             PROVE  TrackInv'
  OBVIOUS
<1>1. CASE UNCHANGED wireVars
  BY <1>1 DEF wireVars, parserVars, TrackInv, Unread
<1>. QED
  BY <1>1, TrackAtRead, TrackAtParse, TrackAtConsumed DEF WireNext

LEMMA TrackInvariance == WireSpec => []TrackInv
  BY WireInvariance, CutInvariance, DeliveredInvariance, TrackInitially, TrackStep, PTL
     DEF WireSpec

\* Of an undisturbed stream, what was acted upon is the first of what was sent.
InOrder ==
  ~disturbed => /\ open
                /\ Len(taken) \in Nat /\ Len(taken) <= Len(sent)
                /\ delivered = SubSeq(sent, 1, Len(taken)) /\ Len(delivered) = Len(taken)

LEMMA OnTrackInOrder == WireInv /\ DeliveredInv /\ TrackInv => InOrder
<1> SUFFICES ASSUME WireInv, DeliveredInv, TrackInv, ~disturbed PROVE InOrder
  BY DEF InOrder
<1> DEFINE n == Len(taken)
           u == Understanding(receiver, taken)
           S == Meanings(receiver)
           s == SubSeq(sent, 1, n)
<1>1. open /\ receiver \in {"host", "device"} /\ taken \in Seq(Frame)
  BY DEF TrackInv, WireInv
<1>2. /\ n \in Nat /\ Len(batch) \in Nat /\ n + Len(batch) <= Len(sent)
      /\ \A i \in 1..n : Received(receiver, taken[i]) = sent[i]
      /\ \A i \in 1..Len(sent) : sent[i] \in Messages /\ sent[i] # NoMessage
  BY OnTrackFacts
<1>3. sent \in Seq(Messages) /\ Len(sent) \in Nat
  BY DEF TrackInv, Sendable
<1>4. n <= Len(sent)
  BY <1>2, <1>3
<1>5. u \in Seq(S) /\ Len(u) = n /\ \A i \in 1..n : u[i] = Received(receiver, taken[i])
  BY <1>1, UnderstandingType
<1>6. s \in Seq(Messages) /\ Len(s) = n /\ \A i \in 1..n : s[i] = sent[i]
  <2> HIDE DEF n
  <2>. QED
    BY <1>2, <1>3, <1>4
<1> HIDE DEF n, u, S, s
<1>7. u = s
  <2>1. \A i \in 1..n : u[i] = s[i]
    BY <1>2, <1>5, <1>6
  <2>2. u = [i \in 1..n |-> u[i]]
    BY <1>2, <1>5
  <2>3. s = [i \in 1..n |-> s[i]]
    BY <1>2, <1>6
  <2>. QED
    BY <2>1, <2>2, <2>3
<1>8. \A i \in DOMAIN u : u[i] # NoMessage
  <2>1. DOMAIN u = 1..n /\ \A i \in 1..n : i \in 1..Len(sent)
    BY <1>2, <1>3, <1>4, <1>5
  <2>. QED
    BY <1>2, <1>5, <2>1
<1>9. Accepted(u) = u
  BY <1>5, <1>8, AllAccepted
<1>10. delivered = u
  <2>1. CASE receiver = "host"
    BY <1>1, <2>1 DEF DeliveredInv, u
  <2>2. CASE receiver = "device"
    BY <1>9, <2>2 DEF DeliveredInv, u
  <2>. QED
    BY <1>1, <2>1, <2>2
<1>11. delivered = s /\ Len(delivered) = n
  BY <1>6, <1>7, <1>10
<1>. QED
  BY <1>1, <1>2, <1>4, <1>11 DEF InOrder, n, s

\* On any other stream nothing that was acted upon is taken back.
LEMMA NothingTakenBack ==
  ASSUME WireInv, DeliveredInv, HostActs \/ DeviceActs
  PROVE  SubSeq(delivered', 1, Len(delivered)) = delivered /\ (open' => open)
<1> DEFINE S == Meanings(receiver)
<1>1. taken \in Seq(Frame) /\ batch \in Seq(Frame) /\ receiver \in {"host", "device"}
  BY DEF WireInv, ParserInv, ParserTypeOK
<1>2. Understanding(receiver, taken) \in Seq(S) /\ Understanding(receiver, batch) \in Seq(S)
      /\ Len(Understanding(receiver, taken)) = Len(taken)
  BY <1>1, UnderstandingType
<1>3. Decoded = Understanding(receiver, batch)
  BY DEF Decoded, Understanding
<1>4. \A a \in Seq(S) : Accepted(a) \in Seq(S)
  <2> SUFFICES ASSUME NEW a \in Seq(S) PROVE Accepted(a) \in Seq(S)
    OBVIOUS
  <2>1. PICK f \in [0..Len(a) -> Seq(S)] : Accepted(a) = f[Len(a)]
    BY AcceptedIs
  <2>2. Len(a) \in 0..Len(a)
    BY LenProperties
  <2>. QED
    BY <2>1, <2>2
<1> DEFINE v == Understanding(receiver, batch)
           u == Understanding(receiver, taken)
<1>5. delivered \in Seq(S)
  <2>1. CASE receiver = "device"
    BY <1>2, <1>4, <2>1 DEF DeliveredInv
  <2>2. CASE receiver = "host"
    <3>1. /\ delivered = SubSeq(Understanding("host", taken), 1, Len(delivered))
          /\ Len(delivered) \in 0..Len(taken)
      BY <2>2 DEF DeliveredInv
    <3>2. u \in Seq(S) /\ Len(u) = Len(taken) /\ Understanding("host", taken) = u
      BY <1>2, <2>2
    <3> HIDE DEF u, S
    <3>3. SubSeq(u, 1, Len(delivered)) \in Seq(S)
      <4> DEFINE n == Len(delivered)
      <4>1. n \in 0..Len(u)
        BY <3>1, <3>2
      <4> HIDE DEF n
      <4>2. SubSeq(u, 1, n) \in Seq(S)
        BY <3>2, <4>1
      <4>. QED
        BY <4>2 DEF n
    <3>. QED
      BY <3>1, <3>2, <3>3
  <2>. QED
    BY <1>1, <2>1, <2>2
<1> HIDE DEF S
<1>6. \A x \in Seq(S) : SubSeq(delivered \o x, 1, Len(delivered)) = delivered
  BY <1>5
<1>7. SubSeq(delivered, 1, Len(delivered)) = delivered
  BY <1>5
<1>8. CASE DeviceActs
  <2>1. delivered' = delivered \o Accepted(v) /\ open' = open
    BY <1>3, <1>8 DEF DeviceActs
  <2>2. Accepted(v) \in Seq(S)
    BY <1>2, <1>4
  <2>. QED
    BY <1>6, <2>1, <2>2
<1>9. CASE HostActs
  <2>1. delivered' = delivered \o v \/ delivered' = delivered
    BY <1>3, <1>9 DEF HostActs
  <2>2. open
    BY <1>9 DEF HostActs, Consumed, DeliveredInv
  <2>3. v \in Seq(S)
    BY <1>2
  <2>. QED
    BY <1>6, <1>7, <2>1, <2>2, <2>3, Zenon
<1>. QED
  BY <1>8, <1>9

LEMMA ChannelStep ==
  ASSUME WireInv, WireInv', DeliveredInv, TrackInv, InOrder, InOrder', [WireNext]_wireVars
  PROVE  [Promise!Deliver \/ Promise!Misread]_(Promise!channelVars)
<1>1. CASE Read \/ Cut \/ UNCHANGED wireVars
  BY <1>1 DEF Read, Cut, wireVars, Promise!channelVars
<1>2. ASSUME HostActs \/ DeviceActs, disturbed
      PROVE  Promise!Misread
  <2>1. UNCHANGED <<sent, disturbed>>
    BY <1>2 DEF HostActs, DeviceActs
  <2>. QED
    BY <1>2, <2>1, NothingTakenBack DEF Promise!Misread
<1>3. ASSUME HostActs \/ DeviceActs, ~disturbed
      PROVE  Promise!Deliver \/ UNCHANGED Promise!channelVars
  <2>1. UNCHANGED <<sent, disturbed>> /\ taken' = taken \o batch
    BY <1>3 DEF HostActs, DeviceActs
  <2>2. /\ open /\ Len(taken) \in Nat /\ Len(delivered) = Len(taken)
        /\ delivered = SubSeq(sent, 1, Len(taken))
    BY <1>3 DEF InOrder
  <2>3. /\ open' /\ Len(taken') \in Nat /\ Len(taken') <= Len(sent)
        /\ delivered' = SubSeq(sent, 1, Len(taken'))
    BY <1>3, <2>1 DEF InOrder
  <2>4. open' = open
    BY <2>2, <2>3 DEF WireInv
  <2>5. taken \in Seq(Frame) /\ batch \in Seq(Frame)
    BY DEF WireInv, ParserInv, ParserTypeOK
  <2>6. Len(taken') = Len(taken) + Len(batch) /\ Len(batch) \in Nat
    BY <2>1, <2>5
  <2>7. CASE Len(batch) = 0
    <3>1. Len(taken') = Len(taken)
      BY <2>2, <2>6, <2>7
    <3>2. delivered' = delivered
      BY <2>2, <2>3, <3>1, Zenon
    <3>. QED
      BY <2>1, <2>4, <3>2 DEF Promise!channelVars
  <2>8. CASE Len(batch) > 0
    <3>1. Len(sent) \in Nat
      BY DEF TrackInv, Sendable
    <3> DEFINE n == Len(taken')
    <3>2. n \in Len(delivered) + 1..Len(sent)
      BY <2>2, <2>3, <2>6, <2>8, <3>1
    <3>3. delivered' = SubSeq(sent, 1, n)
      BY <2>3
    <3> HIDE DEF n
    <3>. QED
      BY <1>3, <2>1, <2>4, <3>2, <3>3 DEF Promise!Deliver
  <2>. QED
    BY <2>6, <2>7, <2>8
<1>. QED
  BY <1>1, <1>2, <1>3 DEF WireNext

\* The messages of a stream that is what the other program wrote, behind noise
\* without a magic or not, arrive once, in order and unchanged, whatever is read at
\* a time, and nothing acted upon is ever taken back (push, Message::decode,
\* decodeMessage against the encoders of the other side).
THEOREM MessagesArriveInOrder == WireSpec => Promise!ChannelSafety
<1>1. WireInit => Promise!ChannelInit
  BY DEF WireInit, Promise!ChannelInit
<1>2. WireInv /\ WireInv' /\ DeliveredInv /\ TrackInv /\ InOrder /\ InOrder'
      /\ [WireNext]_wireVars
      => [Promise!Deliver \/ Promise!Misread]_(Promise!channelVars)
  BY ChannelStep
<1>. QED
  BY <1>1, <1>2, WireInvariance, DeliveredInvariance, TrackInvariance, OnTrackInOrder, PTL
     DEF WireSpec, Promise!ChannelSafety
=============================================================================
