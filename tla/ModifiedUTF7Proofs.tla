------------------------- MODULE ModifiedUTF7Proofs -------------------------
(***************************************************************************)
(* The codec of ModifiedUTF7 proved for every name and every accumulator:  *)
(* it keeps to its strings, what it writes is well formed, and what it     *)
(* wrote it reads back.                                                    *)
(***************************************************************************)
EXTENDS ModifiedUTF7, SequenceLemmas, TLAPS

Unit      == {u \in Nat : u <= 65535}
Character == {Alphabet[v] : v \in 0..63}

-----------------------------------------------------------------------------
(* The alphabet and the accumulator.                                       *)

\* A character is printable, opens and closes no block, and stands for one value.
LEMMA Characters ==
  /\ \A v \in 0..63 : /\ Alphabet[v] \in Character /\ Alphabet[v] \in 32..126
                      /\ Alphabet[v] # Amp /\ Alphabet[v] # Minus
                      /\ InAlphabet(Alphabet[v]) /\ Value(Alphabet[v]) = v
  /\ \A c : InAlphabet(c) <=> c \in Character
  /\ \A c \in Character : Value(c) \in 0..63 /\ Alphabet[Value(c)] = c
<1>1. \A v \in 0..63 : Alphabet[v] = IF v <= 25 THEN 65 + v
                                     ELSE IF v <= 51 THEN 71 + v
                                     ELSE IF v <= 61 THEN v - 4
                                     ELSE IF v = 62 THEN 43 ELSE 44
  BY DEF Alphabet
<1> HIDE DEF Alphabet
<1>2. \A v \in 0..63 : Alphabet[v] \in 32..126 /\ Alphabet[v] # 38 /\ Alphabet[v] # 45
  BY <1>1
<1>3. \A v, w \in 0..63 : Alphabet[v] = Alphabet[w] => v = w
  <2> TAKE v, w \in 0..63
  <2> DEFINE a == Alphabet[v]
             b == Alphabet[w]
  <2>1. a = IF v <= 25 THEN 65 + v ELSE IF v <= 51 THEN 71 + v
            ELSE IF v <= 61 THEN v - 4 ELSE IF v = 62 THEN 43 ELSE 44
    BY <1>1
  <2>2. b = IF w <= 25 THEN 65 + w ELSE IF w <= 51 THEN 71 + w
            ELSE IF w <= 61 THEN w - 4 ELSE IF w = 62 THEN 43 ELSE 44
    BY <1>1
  <2> HIDE DEF a, b
  <2>3. a = b => v = w
    BY <2>1, <2>2
  <2> QED BY <2>3 DEF a, b
<1>4. \A c : InAlphabet(c) <=> c \in Character
  BY DEF InAlphabet, Character
<1>5. \A c \in Character : Value(c) \in 0..63 /\ Alphabet[Value(c)] = c
  BY DEF Value, Character
<1>6. \A v \in 0..63 : Alphabet[v] \in Character /\ Value(Alphabet[v]) = v
  <2>1. \A v \in 0..63 : Alphabet[v] \in Character
    BY DEF Character
  <2> QED BY <1>3, <1>5, <2>1
<1> QED BY <1>2, <1>4, <1>5, <1>6 DEF Amp, Minus

\* What falls out of the accumulator is a multiple of 2^14.
Wraps(a, s) == s \in 0 .. AccValues - 1 /\ \E t \in Nat : a = s + 16384 * t

LEMMA Wrap == ASSUME NEW a \in Nat PROVE Wraps(a, a % AccValues)
<1>1. AccValues \in Nat \ {0} /\ AccValues % 16384 = 0
  BY WidthAssumption, SMT
<1> DEFINE c == AccValues \div 16384
           d == a \div AccValues
<1>2. c \in Nat /\ AccValues = 16384 * c
  BY <1>1
<1>3. d \in Nat /\ a = AccValues * d + (a % AccValues) /\ a % AccValues \in 0 .. AccValues - 1
  BY <1>1
<1> HIDE DEF c, d
<1>4. c * d \in Nat /\ AccValues * d = 16384 * (c * d)
  BY <1>2, <1>3
<1> QED BY <1>1, <1>3, <1>4 DEF Wraps

\* Sextets cut from the accumulator after a byte x is shifted in.
AfterByte(a, x, s) ==
  /\ s \in 0 .. AccValues - 1
  /\ (s \div 4) % 64  = x \div 4
  /\ (s \div 16) % 64 = (a % 4) * 16 + x \div 16
  /\ (s \div 64) % 64 = (a % 16) * 4 + x \div 64
  /\ s % 64 = x % 64 /\ s % 16 = x % 16 /\ s % 4 = x % 4

LEMMA ByteIn ==
  ASSUME NEW a \in Nat, NEW x \in Byte
  PROVE  AfterByte(a, x, (a * 256 + x) % AccValues)
<1> DEFINE w == a * 256 + x
           s == w % AccValues
<1>1. w \in Nat /\ x \in Nat /\ x <= 255
  BY DEF Byte
<1>2. Wraps(w, s)
  BY <1>1, Wrap
<1> HIDE DEF s
<1> USE DEF Wraps
<1>3. s \in Nat
  BY <1>2, WidthAssumption, SMT
<1>4. PICK t \in Nat : w = s + 16384 * t
  BY <1>2
<1>5. s % 64 = x % 64 /\ s % 16 = x % 16 /\ s % 4 = x % 4
  BY <1>1, <1>3, <1>4
<1>6. (s \div 4) % 64  = x \div 4
  BY <1>1, <1>3, <1>4
<1>7. (s \div 16) % 64 = (a % 4) * 16 + x \div 16
  BY <1>1, <1>3, <1>4
<1>8. (s \div 64) % 64 = (a % 16) * 4 + x \div 64
  BY <1>1, <1>3, <1>4
<1> QED BY <1>2, <1>5, <1>6, <1>7, <1>8 DEF s, w, AfterByte

\* Bytes cut from it after a sextet v is shifted in.
AfterSextet(a, v, s) ==
  /\ s \in 0 .. AccValues - 1
  /\ (s \div 16) % 256 = (a % 64) * 4 + v \div 16
  /\ (s \div 4) % 256  = (a % 16) * 16 + v \div 4
  /\ s % 256 = (a % 4) * 64 + v
  /\ s % 64 = v /\ s % 16 = v % 16 /\ s % 4 = v % 4

LEMMA SextetIn ==
  ASSUME NEW a \in Nat, NEW v \in 0..63
  PROVE  AfterSextet(a, v, (a * 64 + v) % AccValues)
<1> DEFINE w == a * 64 + v
           s == w % AccValues
<1>1. w \in Nat
  OBVIOUS
<1>2. Wraps(w, s)
  BY <1>1, Wrap
<1> HIDE DEF s
<1> USE DEF Wraps
<1>3. s \in Nat
  BY <1>2, WidthAssumption, SMT
<1>4. PICK t \in Nat : w = s + 16384 * t
  BY <1>2
<1>5. s % 64 = v /\ s % 16 = v % 16 /\ s % 4 = v % 4
  BY <1>3, <1>4
<1>6. s % 256 = (a % 4) * 64 + v
  BY <1>3, <1>4
<1>7. (s \div 4) % 256  = (a % 16) * 16 + v \div 4
  BY <1>3, <1>4
<1>8. (s \div 16) % 256 = (a % 64) * 4 + v \div 16
  BY <1>3, <1>4
<1> QED BY <1>2, <1>5, <1>6, <1>7, <1>8 DEF s, w, AfterSextet

LEMMA Padding ==
  ASSUME NEW a \in Nat
  PROVE  (a * 16) % 64 = (a % 4) * 16 /\ (a * 4) % 64 = (a % 16) * 4
OBVIOUS

LEMMA Powers == /\ 2^0 = 1 /\ 2^2 = 4 /\ 2^4 = 16 /\ 2^6 = 64 /\ 2^8 = 256
OBVIOUS

-----------------------------------------------------------------------------
(* UTF-16: what utf16.Encode makes of a run, utf16.Decode turns back.       *)

UnitsOfRune  == [r \in Rune |-> Units(r)]
InUnits(run) == Each(UnitsOfRune, run)

Single(r, u)  == u = <<r>> /\ r \in Unit /\ ~ IsHigh(r) /\ ~ IsLow(r)
Paired(r, h, l) ==
  /\ h \in Unit /\ l \in Unit /\ IsHigh(h) /\ IsLow(l)
  /\ 65536 + (h - 55296) * 1024 + l - 56320 = r

LEMMA OneOrTwoUnits ==
  ASSUME NEW r \in Rune
  PROVE  Single(r, Units(r)) \/ \E h, l : Units(r) = <<h, l>> /\ Paired(r, h, l)
<1>1. CASE r < 65536
  <2>1. Units(r) = <<r>>
    BY <1>1, SMT DEF Units
  <2>2. r \in Unit /\ ~ IsHigh(r) /\ ~ IsLow(r)
    BY <1>1, SMT DEF Rune, Unit
  <2> QED BY <2>1, <2>2 DEF Single
<1>2. CASE r >= 65536
  <2> DEFINE h == 55296 + (r - 65536) \div 1024
             l == 56320 + ((r - 65536) % 1024)
  <2>1. Units(r) = <<h, l>>
    BY <1>2, SMT DEF Units, Rune
  <2>2. Paired(r, h, l)
    BY <1>2, SMT DEF Paired, Unit, Rune, IsHigh, IsLow
  <2> HIDE DEF h, l
  <2> QED BY <2>1, <2>2
<1>3. r < 65536 \/ r >= 65536
  BY SMT DEF Rune
<1> QED BY <1>1, <1>2, <1>3

LEMMA UnitsType ==
  /\ UnitsOfRune \in [Rune -> Seq(Unit)]
  /\ \A r \in Rune : Units(r) \in Seq(Unit) /\ Units(r) # <<>> /\ UnitsOfRune[r] = Units(r)
<1>1. ASSUME NEW r \in Rune PROVE Units(r) \in Seq(Unit) /\ Units(r) # <<>>
  <2>1. CASE Single(r, Units(r))
    BY <2>1 DEF Single
  <2>2. ASSUME NEW h, NEW l, Units(r) = <<h, l>>, Paired(r, h, l)
        PROVE  Units(r) \in Seq(Unit) /\ Units(r) # <<>>
    <3>1. h \in Unit /\ l \in Unit
      BY <2>2 DEF Paired
    <3> QED BY <2>2, <3>1
  <2> QED BY <2>1, <2>2, OneOrTwoUnits
<1> QED BY <1>1 DEF UnitsOfRune

LEMMA InUnitsType ==
  ASSUME NEW run \in Seq(Rune)
  PROVE  InUnits(run) \in Seq(Unit)
BY UnitsType, EachType DEF InUnits

LEMMA InUnitsAppend ==
  ASSUME NEW run \in Seq(Rune), NEW r \in Rune
  PROVE  InUnits(Append(run, r)) = InUnits(run) \o Units(r)
<1>1. Extended(UnitsOfRune, run, r)
  BY UnitsType, EachAppend
<1> QED BY <1>1, UnitsType DEF InUnits, Extended

\* The bytes of a run are those of its units, and give the units again.
LEMMA BytesOfUnits ==
  ASSUME NEW run \in Seq(Rune)
  PROVE  /\ BytesOf(run) \in Seq(Byte) /\ Len(BytesOf(run)) = 2 * Len(InUnits(run))
         /\ UnitsOf(BytesOf(run)) = InUnits(run)
<1> DEFINE u  == InUnits(run)
           bs == [m \in 1 .. 2 * Len(u) |-> IF m % 2 = 1 THEN u[(m+1) \div 2] \div 256
                                                         ELSE u[m \div 2] % 256]
<1>1. BytesOf(run) = bs
  <2>1. \A k \in 1..Len(run) : UnitsOfRune[run[k]] = Units(run[k])
    <3>1. \A k \in 1..Len(run) : run[k] \in Rune
      OBVIOUS
    <3> QED BY <3>1, UnitsType
  <2>2. [k \in 1..Len(run) |-> UnitsOfRune[run[k]]] = [k \in 1..Len(run) |-> Units(run[k])]
    BY <2>1
  <2>3. u = FlattenSeq([k \in 1..Len(run) |-> Units(run[k])])
    BY <2>2 DEF InUnits, Each
  <2> HIDE DEF u
  <2> QED BY <2>3 DEF BytesOf
<1>2. u \in Seq(Unit)
  BY InUnitsType
<1> HIDE DEF u
<1>3. Len(u) \in Nat /\ \A k \in 1..Len(u) : u[k] \in Nat /\ u[k] <= 65535
  BY <1>2, SMT DEF Unit
<1>4. \A m \in 1 .. 2 * Len(u) : /\ m % 2 = 1 => (m+1) \div 2 \in 1..Len(u)
                                 /\ m % 2 # 1 => m \div 2 \in 1..Len(u)
  BY <1>3, SMT
<1>5. \A m \in 1 .. 2 * Len(u) : bs[m] \in Byte
  <2> TAKE m \in 1 .. 2 * Len(u)
  <2>1. CASE m % 2 = 1
    <3> DEFINE w == u[(m+1) \div 2]
    <3>1. w \in Nat /\ w <= 65535
      BY <1>3, <1>4, <2>1
    <3>2. bs[m] = w \div 256
      BY <2>1
    <3> HIDE DEF w, bs
    <3> QED BY <3>1, <3>2, SMT DEF Byte
  <2>2. CASE m % 2 # 1
    <3> DEFINE w == u[m \div 2]
    <3>1. w \in Nat /\ w <= 65535
      BY <1>3, <1>4, <2>2
    <3>2. bs[m] = w % 256
      BY <2>2
    <3> HIDE DEF w, bs
    <3> QED BY <3>1, <3>2, SMT DEF Byte
  <2> QED BY <2>1, <2>2
<1>6. bs \in Seq(Byte) /\ Len(bs) = 2 * Len(u)
  <2>1. bs \in [1 .. 2 * Len(u) -> Byte] /\ 2 * Len(u) \in Nat
    BY <1>3, <1>5
  <2> HIDE DEF bs
  <2> QED BY <2>1
<1>7. \A k \in 1..Len(u) : bs[2*k-1] * 256 + bs[2*k] = u[k]
  <2> TAKE k \in 1..Len(u)
  <2>1. /\ 2*k-1 \in 1 .. 2 * Len(u) /\ (2*k-1) % 2 = 1 /\ (2*k-1+1) \div 2 = k
        /\ 2*k \in 1 .. 2 * Len(u) /\ (2*k) % 2 # 1 /\ (2*k) \div 2 = k
    BY <1>3, SMT
  <2>2. bs[2*k-1] = u[k] \div 256 /\ bs[2*k] = u[k] % 256
    BY <2>1
  <2> DEFINE w == u[k]
             a == bs[2*k-1]
             b == bs[2*k]
  <2>3. w \in Nat /\ w <= 65535 /\ a = w \div 256 /\ b = w % 256
    BY <1>3, <2>2
  <2> HIDE DEF w, a, b
  <2>4. a * 256 + b = w
    BY <2>3, SMT
  <2> QED BY <2>4 DEF w, a, b
<1> HIDE DEF bs
<1>8. UnitsOf(bs) = [k \in 1..Len(u) |-> u[k]]
  <2>1. Len(bs) \div 2 = Len(u)
    BY <1>3, <1>6
  <2> QED BY <1>7, <2>1 DEF UnitsOf
<1>9. [k \in 1..Len(u) |-> u[k]] = u
  BY <1>2
<1> USE DEF u
<1> QED BY <1>1, <1>6, <1>8, <1>9

LEMMA UnitsOfType ==
  ASSUME NEW bs \in Seq(Byte)
  PROVE  UnitsOf(bs) \in Seq(Unit)
<1>1. \A k \in 1 .. Len(bs) \div 2 : bs[2*k-1] \in 0..255 /\ bs[2*k] \in 0..255
  <2>1. Len(bs) \in Nat /\ \A m \in 1..Len(bs) : bs[m] \in 0..255
    <3>1. Len(bs) \in Nat /\ \A m \in 1..Len(bs) : bs[m] \in Byte
      OBVIOUS
    <3> QED BY <3>1 DEF Byte
  <2>2. \A k \in 1 .. Len(bs) \div 2 : 2*k-1 \in 1..Len(bs) /\ 2*k \in 1..Len(bs)
    BY <2>1
  <2> QED BY <2>1, <2>2
<1>2. \A k \in 1 .. Len(bs) \div 2 : bs[2*k-1] * 256 + bs[2*k] \in Unit
  <2> TAKE k \in 1 .. Len(bs) \div 2
  <2> DEFINE x == bs[2*k-1]
             y == bs[2*k]
  <2>1. x \in 0..255 /\ y \in 0..255
    BY <1>1
  <2> HIDE DEF x, y
  <2>2. x * 256 + y \in Unit
    BY <2>1, SMT DEF Unit
  <2> QED BY <2>2 DEF x, y
<1>3. Len(bs) \div 2 \in Nat
  OBVIOUS
<1> DEFINE f == UnitsOf(bs)
<1>4. f \in [1 .. Len(bs) \div 2 -> Unit]
  BY <1>2 DEF UnitsOf
<1> HIDE DEF f
<1>5. f \in Seq(Unit)
  BY <1>3, <1>4
<1> QED BY <1>5 DEF f

\* What one unit adds to the code points of a string.
At(u, k) ==
  IF IsPair(u, k) THEN <<65536 + (u[k] - 55296) * 1024 + u[k+1] - 56320>>
  ELSE IF IsPair(u, k-1) THEN <<>>
  ELSE IF IsHigh(u[k]) \/ IsLow(u[k]) THEN <<65533>>
  ELSE <<u[k]>>
Pieces(u) == [k \in 1..Len(u) |-> At(u, k)]

LEMMA CodePointsArePieces == \A u : CodePoints(u) = FlattenSeq(Pieces(u))
BY DEF CodePoints, Pieces, At

LEMMA PiecesType ==
  ASSUME NEW u \in Seq(Unit)
  PROVE  Pieces(u) \in Seq(Seq(Rune)) /\ Len(Pieces(u)) = Len(u)
<1>1. Len(u) \in Nat /\ \A k \in 1..Len(u) : u[k] \in Unit
  OBVIOUS
<1>2. ASSUME NEW k \in 1..Len(u) PROVE At(u, k) \in Seq(Rune)
  <2> DEFINE x == u[k]
             y == u[k+1]
             r == 65536 + (x - 55296) * 1024 + y - 56320
  <2>1. x \in Unit
    BY <1>1
  <2>2. CASE IsPair(u, k)
    <3>1. k+1 \in 1..Len(u) /\ IsHigh(x) /\ IsLow(y)
      BY <1>1, <2>2 DEF IsPair
    <3>2. y \in Unit
      BY <1>1, <3>1
    <3> HIDE DEF x, y
    <3>3. r \in Rune
      BY <2>1, <3>1, <3>2, SMT DEF Unit, Rune, IsHigh, IsLow
    <3>4. At(u, k) = <<r>>
      BY <2>2 DEF At, x, y
    <3> HIDE DEF r
    <3> QED BY <3>3, <3>4
  <2>3. CASE ~ IsPair(u, k) /\ IsPair(u, k-1)
    <3>1. At(u, k) = <<>>
      BY <2>3 DEF At
    <3> QED BY <3>1
  <2>4. CASE ~ IsPair(u, k) /\ ~ IsPair(u, k-1) /\ (IsHigh(x) \/ IsLow(x))
    <3> DEFINE q == 65533
    <3>1. At(u, k) = <<q>>
      BY <2>4 DEF At
    <3>2. q \in Rune
      BY SMT DEF Rune, IsHigh, IsLow
    <3> HIDE DEF q
    <3> QED BY <3>1, <3>2
  <2>5. CASE ~ IsPair(u, k) /\ ~ IsPair(u, k-1) /\ ~ (IsHigh(x) \/ IsLow(x))
    <3>1. At(u, k) = <<x>>
      BY <2>5 DEF At
    <3> HIDE DEF x
    <3>2. x \in Rune
      BY <2>1, <2>5, SMT DEF Unit, Rune
    <3> QED BY <3>1, <3>2
  <2> QED BY <2>2, <2>3, <2>4, <2>5
<1> DEFINE f == Pieces(u)
<1>3. f \in [1..Len(u) -> Seq(Rune)]
  BY <1>2 DEF Pieces
<1> HIDE DEF f
<1>4. f \in Seq(Seq(Rune)) /\ Len(f) = Len(u)
  BY <1>1, <1>3
<1> QED BY <1>4 DEF f

LEMMA CodePointsType ==
  ASSUME NEW u \in Seq(Unit)
  PROVE  CodePoints(u) \in Seq(Rune)
BY PiecesType, CodePointsArePieces, FlattenType

\* Units that begin no pair in front leave what is in front as it was.
Closed(u) == u # <<>> => ~ IsHigh(u[Len(u)])

LEMMA PiecesInFront ==
  ASSUME NEW u \in Seq(Unit), NEW v \in Seq(Unit), Closed(u)
  PROVE  /\ \A k \in 1..Len(u) : At(u \o v, k) = At(u, k)
         /\ ~ IsPair(u \o v, Len(u))
<1> DEFINE w == u \o v
<1>1. /\ Len(u) \in Nat /\ Len(v) \in Nat /\ Len(w) = Len(u) + Len(v)
      /\ \A k \in 1..Len(u) : w[k] = u[k]
  OBVIOUS
<1> HIDE DEF w
<1>2. ~ IsPair(w, Len(u))
  <2> SUFFICES ASSUME IsPair(w, Len(u)) PROVE FALSE
    OBVIOUS
  <2>1. Len(u) \in 1..Len(u) /\ IsHigh(w[Len(u)])
    BY <1>1 DEF IsPair
  <2> QED BY <1>1, <2>1 DEF Closed
<1>3. \A k \in 1 .. Len(u)-1 : IsPair(w, k) <=> IsPair(u, k)
  <2> TAKE k \in 1 .. Len(u)-1
  <2>1. w[k] = u[k] /\ w[k+1] = u[k+1] /\ k \in 1 .. Len(w)-1
    BY <1>1
  <2> QED BY <2>1 DEF IsPair
<1>4. ~ IsPair(u, Len(u)) /\ ~ IsPair(u, 0) /\ ~ IsPair(w, 0)
  BY <1>1 DEF IsPair
<1>5. ASSUME NEW k \in 1..Len(u) PROVE At(w, k) = At(u, k)
  <2>1. IsPair(w, k) <=> IsPair(u, k)
    BY <1>1, <1>2, <1>3, <1>4
  <2>2. IsPair(w, k-1) <=> IsPair(u, k-1)
    BY <1>1, <1>3, <1>4
  <2>3. w[k] = u[k]
    BY <1>1
  <2>4. IsPair(u, k) => w[k+1] = u[k+1]
    BY <1>1 DEF IsPair
  <2> QED BY <2>1, <2>2, <2>3, <2>4 DEF At
<1> QED BY <1>2, <1>5 DEF w

\* The units of one more rune add this rune.
LEMMA OneMoreRune ==
  ASSUME NEW u \in Seq(Unit), NEW r \in Rune, Closed(u)
  PROVE  /\ CodePoints(u \o Units(r)) = CodePoints(u) \o <<r>>
         /\ Closed(u \o Units(r))
<1> DEFINE v == Units(r)
           w == u \o v
           n == Len(u)
           f == Pieces(u)
           g == Pieces(w)
<1>1. v \in Seq(Unit) /\ u \in Seq(Unit) /\ n \in Nat
  BY UnitsType
<1>2. w \in Seq(Unit) /\ Len(w) = n + Len(v) /\ \A k \in 1..Len(v) : w[n+k] = v[k]
  <2> HIDE DEF v
  <2> QED BY <1>1
<1>3. (\A k \in 1..n : At(w, k) = At(u, k)) /\ ~ IsPair(w, n)
  <2> HIDE DEF v
  <2> QED BY <1>1, PiecesInFront
<1>4. f \in Seq(Seq(Rune)) /\ Len(f) = n /\ g \in Seq(Seq(Rune)) /\ Len(g) = Len(w)
  <2> HIDE DEF w
  <2> QED BY <1>1, <1>2, PiecesType
<1>5. \A k \in 1..n : g[k] = f[k]
  <2>1. \A k \in 1..n : k \in 1..Len(w)
    BY <1>1, <1>2
  <2> HIDE DEF w, v
  <2> QED BY <1>3, <2>1 DEF Pieces
<1>6. <<r>> \in Seq(Rune) /\ <<>> \in Seq(Rune)
  OBVIOUS
<1>7. CodePoints(u) = FlattenSeq(f) /\ CodePoints(w) = FlattenSeq(g) /\ FlattenSeq(f) \in Seq(Rune)
  <2>1. FlattenSeq(f) \in Seq(Rune)
    <3> HIDE DEF f
    <3> QED BY <1>4, FlattenType
  <2> QED BY <2>1, CodePointsArePieces
<1>8. \A k : g = [m \in 1..Len(w) |-> At(w, m)]
  BY DEF Pieces
<1>9. CASE Single(r, v)
  <2>1. v = <<r>> /\ Len(v) = 1 /\ v[1] = r /\ ~ IsHigh(r) /\ ~ IsLow(r)
    BY <1>9 DEF Single
  <2>2. Len(w) = n+1 /\ w[n+1] = r
    <3> HIDE DEF v, w
    <3> QED BY <1>1, <1>2, <2>1
  <2> HIDE DEF v, w, n
  <2>3. ~ IsPair(w, n+1) /\ n+1-1 = n
    BY <1>1, <2>2 DEF IsPair
  <2>4. At(w, n+1) = <<r>>
    <3> DEFINE k == n+1
    <3>1. ~ IsPair(w, k) /\ w[k] = r /\ k-1 = n
      BY <1>1, <2>2, <2>3
    <3> HIDE DEF k
    <3>3. ~ IsPair(w, k-1)
      BY <1>3, <3>1
    <3>4. At(w, k) = <<r>>
      BY <2>1, <3>1, <3>3 DEF At
    <3> QED BY <3>4 DEF k
  <2>5. g[n+1] = <<r>>
    BY <1>1, <1>8, <2>2, <2>4
  <2> HIDE DEF f, g
  <2>6. g = Append(f, <<r>>)
    <3> DEFINE h == Append(f, <<r>>)
    <3>1. h \in Seq(Seq(Rune)) /\ Len(h) = n+1 /\ h[n+1] = <<r>> /\ \A k \in 1..n : h[k] = f[k]
      BY <1>1, <1>4, <1>6
    <3>2. \A k \in 1 .. n+1 : k \in 1..n \/ k = n+1
      BY <1>1
    <3> HIDE DEF h
    <3>3. \A k \in 1 .. n+1 : h[k] = g[k]
      BY <1>5, <2>5, <3>1, <3>2
    <3>4. h = g
      BY <1>4, <2>2, <3>1, <3>3, SeqEqual
    <3> QED BY <3>4 DEF h
  <2>7. FlattenSeq(g) = FlattenSeq(f) \o <<r>>
    BY <1>4, <1>6, <2>6, FlattenAppend
  <2>8. Closed(w)
    BY <2>1, <2>2 DEF Closed
  <2> QED BY <1>7, <2>7, <2>8 DEF w, v
<1>10. ASSUME NEW a, NEW b, v = <<a, b>>, Paired(r, a, b)
       PROVE  CodePoints(w) = CodePoints(u) \o <<r>> /\ Closed(w)
  <2>1. Len(v) = 2 /\ v[1] = a /\ v[2] = b
    BY <1>10
  <2>2. Len(w) = n+2 /\ w[n+1] = a /\ w[n+2] = b
    <3> HIDE DEF v, w
    <3> QED BY <1>1, <1>2, <2>1
  <2>3. /\ IsHigh(a) /\ IsLow(b) /\ ~ IsHigh(b)
        /\ 65536 + (a - 55296) * 1024 + b - 56320 = r
    <3>1. IsHigh(a) /\ IsLow(b) /\ 65536 + (a - 55296) * 1024 + b - 56320 = r /\ b \in Unit
      BY <1>10 DEF Paired
    <3>2. ~ IsHigh(b)
      BY <3>1, SMT DEF Unit, IsHigh, IsLow
    <3> QED BY <3>1, <3>2
  <2> HIDE DEF v, w, n
  <2>4. /\ IsPair(w, n+1) /\ ~ IsPair(w, n+2) /\ (n+2)-1 = n+1 /\ (n+1)+1 = n+2
    BY <1>1, <2>2, <2>3 DEF IsPair
  <2>5. At(w, n+1) = <<r>>
    BY <2>2, <2>3, <2>4 DEF At
  <2>6. At(w, n+2) = <<>>
    BY <2>4 DEF At
  <2>7. g[n+1] = <<r>> /\ g[n+2] = <<>>
    <3>1. n+1 \in 1..Len(w) /\ n+2 \in 1..Len(w)
      BY <1>1, <2>2
    <3> QED BY <1>8, <2>5, <2>6, <3>1
  <2> HIDE DEF f, g
  <2> DEFINE e == Append(f, <<r>>)
             h == Append(e, <<>>)
  <2>8. e \in Seq(Seq(Rune)) /\ Len(e) = n+1 /\ e[n+1] = <<r>> /\ \A k \in 1..n : e[k] = f[k]
    BY <1>1, <1>4, <1>6
  <2>9. FlattenSeq(e) = FlattenSeq(f) \o <<r>>
    BY <1>4, <1>6, FlattenAppend
  <2> HIDE DEF e
  <2>10. /\ h \in Seq(Seq(Rune)) /\ Len(h) = n+2 /\ h[n+2] = <<>>
         /\ \A k \in 1 .. n+1 : h[k] = e[k]
    BY <1>1, <1>6, <2>8
  <2>11. FlattenSeq(h) = FlattenSeq(e) \o <<>>
    BY <1>6, <2>8, FlattenAppend
  <2> HIDE DEF h
  <2>12. \A k \in 1 .. n+2 : k \in 1..n \/ k = n+1 \/ k = n+2
    BY <1>1
  <2>13. \A k \in 1 .. n+2 : h[k] = g[k]
    <3>1. \A k \in 1..n : h[k] = g[k]
      <4>1. \A k \in 1..n : k \in 1 .. n+1
        BY <1>1
      <4> QED BY <1>5, <2>8, <2>10, <4>1
    <3>2. h[n+1] = g[n+1] /\ h[n+2] = g[n+2]
      BY <1>1, <2>7, <2>8, <2>10
    <3> QED BY <2>12, <3>1, <3>2
  <2>14. h = g
    BY <1>4, <2>2, <2>10, <2>13, SeqEqual
  <2>15. FlattenSeq(e) \o <<>> = FlattenSeq(e)
    <3>1. FlattenSeq(e) \in Seq(Rune)
      BY <2>8, FlattenType
    <3> QED BY <3>1, ConcatEmptySeq
  <2>16. FlattenSeq(g) = FlattenSeq(f) \o <<r>>
    BY <2>9, <2>11, <2>14, <2>15
  <2>17. Closed(w)
    BY <2>2, <2>3 DEF Closed
  <2> QED BY <1>7, <2>16, <2>17
<1> QED BY <1>9, <1>10, OneOrTwoUnits

\* What is decoded from the units of a text is the text.
LEMMA CodePointsOfUnits ==
  ASSUME NEW run \in Seq(Rune)
  PROVE  CodePoints(InUnits(run)) = run /\ (run # <<>> => InUnits(run) # <<>>)
<1> DEFINE Good(s) == /\ CodePoints(InUnits(s)) = s /\ Closed(InUnits(s))
                      /\ s # <<>> => InUnits(s) # <<>>
           S == {n \in Nat : \A s \in Seq(Rune) : Len(s) = n => Good(s)}
<1>1. 0 \in S
  <2>1. InUnits(<<>>) = <<>>
    BY EachEmpty DEF InUnits
  <2>2. Pieces(<<>>) = <<>>
    BY DEF Pieces
  <2>3. CodePoints(<<>>) = <<>>
    BY <2>2, CodePointsArePieces, FlattenEmpty
  <2>4. Good(<<>>)
    BY <2>1, <2>3 DEF Closed
  <2>5. \A s \in Seq(Rune) : Len(s) = 0 => s = <<>>
    OBVIOUS
  <2> HIDE DEF Good
  <2> QED BY <2>4, <2>5
<1>2. ASSUME NEW n \in Nat, n \in S PROVE n+1 \in S
  <2> SUFFICES ASSUME NEW s \in Seq(Rune), Len(s) = n+1 PROVE Good(s)
    OBVIOUS
  <2> DEFINE t == SubSeq(s, 1, n)
             r == s[n+1]
             u == InUnits(t)
  <2>1. t \in Seq(Rune) /\ Len(t) = n /\ r \in Rune /\ s = Append(t, r)
    BY CutLast
  <2> HIDE DEF t, r
  <2>2. CodePoints(u) = t /\ Closed(u)
    BY <1>2, <2>1
  <2>3. InUnits(s) = u \o Units(r)
    BY <2>1, InUnitsAppend
  <2>4. u \in Seq(Unit)
    BY <2>1, InUnitsType
  <2> HIDE DEF u
  <2>5. CodePoints(u \o Units(r)) = CodePoints(u) \o <<r>> /\ Closed(u \o Units(r))
    BY <2>1, <2>2, <2>4, OneMoreRune
  <2>6. t \o <<r>> = s
    BY <2>1
  <2>7. u \o Units(r) # <<>>
    BY <2>1, <2>4, UnitsType
  <2> QED BY <2>2, <2>3, <2>5, <2>6, <2>7
<1>3. \A n \in Nat : n \in S
  <2> HIDE DEF S
  <2> QED BY <1>1, <1>2, Induction
<1>4. Len(run) \in S
  BY <1>3
<1>5. Good(run)
  BY <1>4
<1> QED BY <1>5

LEMMA DecodedRun ==
  ASSUME NEW run \in Seq(Rune)
  PROVE  /\ BytesOf(run) \in Seq(Byte)
         /\ CodePoints(UnitsOf(BytesOf(run))) = run
         /\ run # <<>> => Len(BytesOf(run)) >= 2
<1>1. BytesOf(run) \in Seq(Byte) /\ UnitsOf(BytesOf(run)) = InUnits(run)
      /\ Len(BytesOf(run)) = 2 * Len(InUnits(run))
  BY BytesOfUnits
<1>2. CodePoints(InUnits(run)) = run /\ (run # <<>> => InUnits(run) # <<>>)
  BY CodePointsOfUnits
<1>3. InUnits(run) \in Seq(Unit)
  BY InUnitsType
<1>4. InUnits(run) # <<>> => Len(InUnits(run)) >= 1
  BY <1>3
<1> QED BY <1>1, <1>2, <1>3, <1>4

-----------------------------------------------------------------------------
(* One step of the two loops over an accumulator.                          *)

\* The characters that EncodeByte writes for the byte x.
Written(a, b, x) ==
  IF b = 0 THEN <<Alphabet[x \div 4]>>
  ELSE IF b = 2 THEN <<Alphabet[(a % 4) * 16 + x \div 16]>>
  ELSE <<Alphabet[(a % 16) * 4 + x \div 64], Alphabet[x % 64]>>

LEMMA EncodedByte ==
  ASSUME EncodeByte, acc \in Nat, bits \in {0, 2, 4}, NEW x \in Byte, Head(block) = x
  PROVE  /\ encoded' = encoded \o Written(acc, bits, x)
         /\ acc' \in 0 .. AccValues - 1
         /\ bits' = IF bits = 4 THEN 0 ELSE bits + 2
         /\ acc' % 16 = x % 16 /\ acc' % 4 = x % 4
<1> DEFINE s == (acc * 256 + x) % AccValues
           f(b) == [k \in 1 .. (b + 8) \div 6 |-> Alphabet[(s \div 2^(b + 8 - 6 * k)) % 64]]
<1>1. acc' = s /\ bits' = (bits + 8) % 6 /\ encoded' = encoded \o f(bits)
  BY Powers DEF EncodeByte, ShiftIn, Shifted
<1>2. /\ s \in 0 .. AccValues - 1 /\ (s \div 4) % 64  = x \div 4
      /\ (s \div 16) % 64 = (acc % 4) * 16 + x \div 16
      /\ (s \div 64) % 64 = (acc % 16) * 4 + x \div 64
      /\ s % 64 = x % 64 /\ s % 16 = x % 16 /\ s % 4 = x % 4
  BY ByteIn DEF AfterByte
<1>3. s \in Nat
  BY <1>2, WidthAssumption
<1> DEFINE w(b) == Written(acc, b, x)
<1>4. ASSUME bits = 0 PROVE f(bits) = w(bits)
  <2>1. (0 + 8) \div 6 = 1 /\ 0 + 8 - 6 * 1 = 2
    OBVIOUS
  <2>2. f(0) = <<Alphabet[(s \div 4) % 64]>>
    <3> HIDE DEF s
    <3>1. f(0) = [k \in 1..1 |-> Alphabet[(s \div 2^2) % 64]]
      BY <2>1
    <3> QED BY <3>1, Powers
  <2>3. w(0) = <<Alphabet[x \div 4]>>
    BY DEF Written
  <2>4. f(0) = w(0)
    <3> HIDE DEF f, w, s
    <3> QED BY <1>2, <2>2, <2>3
  <2> HIDE DEF f, w, s
  <2> QED BY <1>4, <2>4
<1>5. ASSUME bits = 2 PROVE f(bits) = w(bits)
  <2>1. (2 + 8) \div 6 = 1 /\ 2 + 8 - 6 * 1 = 4
    OBVIOUS
  <2>2. f(2) = <<Alphabet[(s \div 16) % 64]>>
    <3> HIDE DEF s
    <3>1. f(2) = [k \in 1..1 |-> Alphabet[(s \div 2^4) % 64]]
      BY <2>1
    <3> QED BY <3>1, Powers
  <2>3. w(2) = <<Alphabet[(acc % 4) * 16 + x \div 16]>>
    BY DEF Written
  <2>4. f(2) = w(2)
    <3> HIDE DEF f, w, s
    <3> QED BY <1>2, <2>2, <2>3
  <2> HIDE DEF f, w, s
  <2> QED BY <1>5, <2>4
<1>6. ASSUME bits = 4 PROVE f(bits) = w(bits)
  <2>1. (4 + 8) \div 6 = 2 /\ 4 + 8 - 6 * 1 = 6 /\ 4 + 8 - 6 * 2 = 0
    OBVIOUS
  <2>2. f(4) = <<Alphabet[(s \div 64) % 64], Alphabet[s % 64]>>
    <3> DEFINE a == Alphabet[(s \div 64) % 64]
               b == Alphabet[s % 64]
               e(k) == Alphabet[(s \div 2^(4 + 8 - 6 * k)) % 64]
    <3>1. e(1) = a
      BY <2>1, Powers
    <3>2. e(2) = b
      <4>1. s \div 1 = s
        <5> HIDE DEF s
        <5> QED BY <1>3
      <4> QED BY <2>1, <4>1, Powers
    <3>3. f(4) = [k \in 1..2 |-> e(k)]
      BY <2>1
    <3> HIDE DEF e, a, b
    <3>4. [k \in 1..2 |-> e(k)] = <<a, b>>
      BY <3>1, <3>2
    <3> QED BY <3>3, <3>4 DEF a, b
  <2>3. w(4) = <<Alphabet[(acc % 16) * 4 + x \div 64], Alphabet[x % 64]>>
    BY DEF Written
  <2>4. f(4) = w(4)
    <3> HIDE DEF f, w, s
    <3> QED BY <1>2, <2>2, <2>3
  <2> HIDE DEF f, w, s
  <2> QED BY <1>6, <2>4
<1> HIDE DEF f, w, s
<1>7. f(bits) = w(bits)
  BY <1>4, <1>5, <1>6
<1>8. encoded' = encoded \o Written(acc, bits, x)
  BY <1>1, <1>7 DEF w
<1>9. (bits + 8) % 6 = IF bits = 4 THEN 0 ELSE bits + 2
  OBVIOUS
<1> QED BY <1>1, <1>2, <1>8, <1>9

WrittenAs(a, b, x, w) ==
  /\ w \in Seq(Character)
  /\ Len(w) = IF b = 4 THEN 2 ELSE 1
  /\ b = 0 => Value(w[1]) = x \div 4
  /\ b = 2 => Value(w[1]) = (a % 4) * 16 + x \div 16
  /\ b = 4 => Value(w[1]) = (a % 16) * 4 + x \div 64 /\ Value(w[2]) = x % 64

LEMMA WrittenType ==
  ASSUME NEW a \in Nat, NEW b \in {0, 2, 4}, NEW x \in Byte
  PROVE  WrittenAs(a, b, x, Written(a, b, x))
<1>1. /\ x \div 4 \in 0..63 /\ (a % 4) * 16 + x \div 16 \in 0..63
      /\ (a % 16) * 4 + x \div 64 \in 0..63 /\ x % 64 \in 0..63
  BY DEF Byte
<1>2. \A v \in 0..63 : Alphabet[v] \in Character /\ Value(Alphabet[v]) = v
  BY Characters
<1> DEFINE p == x \div 4
           q == (a % 4) * 16 + x \div 16
           r == (a % 16) * 4 + x \div 64
           t == x % 64
<1>3. p \in 0..63 /\ q \in 0..63 /\ r \in 0..63 /\ t \in 0..63
  BY <1>1
<1>4. Written(a, b, x) = IF b = 0 THEN <<Alphabet[p]>> ELSE IF b = 2 THEN <<Alphabet[q]>>
                         ELSE <<Alphabet[r], Alphabet[t]>>
  BY DEF Written
<1> HIDE DEF p, q, r, t
<1>5. CASE b = 0
  BY <1>2, <1>3, <1>4, <1>5 DEF p, WrittenAs
<1>6. CASE b = 2
  BY <1>2, <1>3, <1>4, <1>6 DEF q, WrittenAs
<1>7. CASE b = 4
  BY <1>2, <1>3, <1>4, <1>7 DEF r, t, WrittenAs
<1> QED BY <1>5, <1>6, <1>7

\* What EndRun writes for the pending bits.
Flushed(rest) ==
  /\ encoded' = (encoded \o rest) \o <<Minus>>
  /\ Len(rest) = IF bits = 0 THEN 0 ELSE 1
  /\ bits = 2 => Value(rest[1]) = (acc % 4) * 16
  /\ bits = 4 => Value(rest[1]) = (acc % 16) * 4

LEMMA EncodedRest ==
  ASSUME EndRun, acc \in Nat, bits \in {0, 2, 4}
  PROVE  \E rest \in Seq(Character) : Flushed(rest)
<1> DEFINE v == (acc * 2^(6 - bits)) % 64
           rest == IF bits > 0 THEN <<Alphabet[v]>> ELSE <<>>
<1>1. encoded' = (encoded \o rest) \o <<Minus>>
  BY DEF EndRun
<1>2. \A u \in 0..63 : Alphabet[u] \in Character /\ Value(Alphabet[u]) = u
  BY Characters
<1>3. CASE bits = 0
  <2>1. rest = <<>>
    BY <1>3
  <2>2. rest \in Seq(Character) /\ Len(rest) = 0
    BY <2>1
  <2> HIDE DEF rest
  <2>3. Flushed(rest)
    BY <1>1, <1>3, <2>2 DEF Flushed
  <2> QED BY <2>2, <2>3
<1>4. CASE bits = 2
  <2>1. v = (acc % 4) * 16 /\ v \in 0..63
    <3>1. v = (acc * 2^4) % 64
      BY <1>4
    <3>2. v = (acc * 16) % 64
      BY <3>1, Powers
    <3>3. v = (acc % 4) * 16
      <4> HIDE DEF v
      <4> QED BY <3>2, Padding
    <3> HIDE DEF v
    <3> QED BY <3>3
  <2>2. rest = <<Alphabet[v]>>
    BY <1>4
  <2> HIDE DEF rest, v
  <2>3. rest \in Seq(Character) /\ Len(rest) = 1 /\ Value(rest[1]) = v
    BY <1>2, <2>1, <2>2
  <2>4. Flushed(rest)
    BY <1>1, <1>4, <2>1, <2>3 DEF Flushed
  <2> QED BY <2>3, <2>4
<1>5. CASE bits = 4
  <2>1. v = (acc % 16) * 4 /\ v \in 0..63
    <3>1. v = (acc * 2^2) % 64
      BY <1>5
    <3>2. v = (acc * 4) % 64
      BY <3>1, Powers
    <3>3. v = (acc % 16) * 4
      <4> HIDE DEF v
      <4> QED BY <3>2, Padding
    <3> HIDE DEF v
    <3> QED BY <3>3
  <2>2. rest = <<Alphabet[v]>>
    BY <1>5
  <2> HIDE DEF rest, v
  <2>3. rest \in Seq(Character) /\ Len(rest) = 1 /\ Value(rest[1]) = v
    BY <1>2, <2>1, <2>2
  <2>4. Flushed(rest)
    BY <1>1, <1>5, <2>1, <2>3 DEF Flushed
  <2> QED BY <2>3, <2>4
<1> QED BY <1>3, <1>4, <1>5

\* The byte that DecodeSextet completes with the value v, if any.
LEMMA DecodedSextet ==
  ASSUME DecodeSextet, acc \in Nat, bits \in {0, 2, 4, 6}, bytes \in Seq(Byte),
         NEW c \in Character, Head(block) = c
  PROVE  /\ acc' \in 0 .. AccValues - 1
         /\ bits' = IF bits = 0 THEN 6 ELSE bits - 2
         /\ acc' % 64 = Value(c) /\ acc' % 16 = Value(c) % 16 /\ acc' % 4 = Value(c) % 4
         /\ bits = 0 => bytes' = bytes
         /\ bits = 6 => bytes' = Append(bytes, (acc % 64) * 4 + Value(c) \div 16)
         /\ bits = 4 => bytes' = Append(bytes, (acc % 16) * 16 + Value(c) \div 4)
         /\ bits = 2 => bytes' = Append(bytes, (acc % 4) * 64 + Value(c))
<1> DEFINE v == Value(c)
           s == (acc * 64 + v) % AccValues
<1>1. v \in 0..63
  BY Characters
<1>2. /\ acc' = s /\ bits' = IF bits + 6 >= 8 THEN bits - 2 ELSE bits + 6
      /\ bytes' = IF bits + 6 >= 8 THEN Append(bytes, (s \div 2^(bits')) % 256) ELSE bytes
  BY Powers DEF DecodeSextet, ShiftIn, Shifted
<1>3. /\ s \in 0 .. AccValues - 1
      /\ (s \div 16) % 256 = (acc % 64) * 4 + v \div 16
      /\ (s \div 4) % 256  = (acc % 16) * 16 + v \div 4
      /\ s % 256 = (acc % 4) * 64 + v
      /\ s % 64 = v /\ s % 16 = v % 16 /\ s % 4 = v % 4
  <2>1. AfterSextet(acc, v, s)
    <3> HIDE DEF v
    <3> QED BY <1>1, SextetIn
  <2> HIDE DEF s, v
  <2> QED BY <2>1 DEF AfterSextet
<1>4. s \in Nat
  BY <1>3, WidthAssumption
<1> HIDE DEF s, v
<1>5. CASE bits = 0
  BY <1>2, <1>3, <1>5 DEF v
<1>6. CASE bits = 6
  <2>1. bits' = 4 /\ bytes' = Append(bytes, (s \div 2^4) % 256)
    BY <1>2, <1>6
  <2>2. bytes' = Append(bytes, (acc % 64) * 4 + v \div 16)
    BY <1>3, <2>1, Powers
  <2> QED BY <1>2, <1>3, <1>6, <2>1, <2>2 DEF v
<1>7. CASE bits = 4
  <2>1. bits' = 2 /\ bytes' = Append(bytes, (s \div 2^2) % 256)
    BY <1>2, <1>7
  <2>2. bytes' = Append(bytes, (acc % 16) * 16 + v \div 4)
    BY <1>3, <2>1, Powers
  <2> QED BY <1>2, <1>3, <1>7, <2>1, <2>2 DEF v
<1>8. CASE bits = 2
  <2>1. bits' = 0 /\ bytes' = Append(bytes, (s \div 2^0) % 256)
    BY <1>2, <1>8
  <2>2. s \div 2^0 = s
    BY <1>4, Powers
  <2>3. bytes' = Append(bytes, (acc % 4) * 64 + v)
    BY <1>3, <2>1, <2>2
  <2> QED BY <1>2, <1>3, <1>8, <2>1, <2>3 DEF v
<1> QED BY <1>5, <1>6, <1>7, <1>8

-----------------------------------------------------------------------------
(* Types: the indices stay in their strings, and what is built are bytes,  *)
(* ASCII and code points.                                                  *)

\* The first place from a on that holds an element of P, or the end.
FirstFrom(s, a, P, j) ==
  /\ j \in a .. Len(s) + 1
  /\ \A k \in a .. j-1 : s[k] \notin P
  /\ j <= Len(s) => s[j] \in P

LEMMA FirstExists ==
  ASSUME NEW E, NEW s \in Seq(E), NEW a \in 1 .. Len(s) + 1, NEW P
  PROVE  \E j \in a .. Len(s) + 1 : FirstFrom(s, a, P, j)
<1> DEFINE S == {j \in Nat : j >= a /\ j <= Len(s) + 1 /\ (j <= Len(s) => s[j] \in P)}
<1>1. Len(s) \in Nat /\ Len(s) + 1 \in S
  OBVIOUS
<1>2. PICK m \in S : \A k \in S : m <= k
  <2> HIDE DEF S
  <2>1. S \subseteq Nat
    BY DEF S
  <2> QED BY <1>1, <2>1, HasLeast
<1>3. m \in a .. Len(s) + 1 /\ (m <= Len(s) => s[m] \in P)
  BY <1>1
<1>4. \A k \in a .. m-1 : s[k] \notin P
  <2> TAKE k \in a .. m-1
  <2>1. k \in Nat /\ k >= a /\ k <= Len(s) + 1 /\ ~ m <= k
    BY <1>1, <1>3
  <2> QED BY <1>2, <2>1
<1> QED BY <1>3, <1>4 DEF FirstFrom

PrintableRunes == {r \in Rune : Printable(r)}

LEMMA RunEndFound ==
  ASSUME name \in Seq(Rune), i \in 1..Len(name), ~ Printable(name[i])
  PROVE  /\ RunEnd \in i+1 .. Len(name) + 1
         /\ RunEnd <= Len(name) => Printable(name[RunEnd])
<1>1. Len(name) \in Nat /\ \A k \in 1..Len(name) : name[k] \in PrintableRunes <=> Printable(name[k])
  <2>1. Len(name) \in Nat /\ \A k \in 1..Len(name) : name[k] \in Rune
    OBVIOUS
  <2> QED BY <2>1 DEF PrintableRunes
<1>2. PICK j \in i .. Len(name) + 1 : FirstFrom(name, i, PrintableRunes, j)
  <2>1. i \in 1 .. Len(name) + 1
    BY <1>1
  <2> QED BY <2>1, FirstExists
<1> DEFINE Ends(e) == /\ \A k \in i .. e-1 : ~ Printable(name[k])
                      /\ e <= Len(name) => Printable(name[e])
<1>3. Ends(j)
  <2>1. \A k \in i .. j-1 : k \in 1..Len(name)
    BY <1>1
  <2>2. j <= Len(name) => j \in 1..Len(name)
    BY <1>1
  <2> QED BY <1>1, <1>2, <2>1, <2>2 DEF FirstFrom
<1>4. RunEnd = CHOOSE e \in i .. Len(name) + 1 : Ends(e)
  BY DEF RunEnd
<1>5. RunEnd \in i .. Len(name) + 1 /\ Ends(RunEnd)
  <2> HIDE DEF Ends
  <2> QED BY <1>3, <1>4
<1>6. RunEnd # i
  BY <1>5
<1> QED BY <1>1, <1>5, <1>6

LEMMA BlockEndFound ==
  ASSUME encoded \in Seq(Ascii), i \in 1..Len(encoded)
  PROVE  /\ BlockEnd \in i+1 .. Len(encoded) + 1
         /\ \A k \in i+1 .. BlockEnd - 1 : encoded[k] # Minus
         /\ BlockEnd <= Len(encoded) => encoded[BlockEnd] = Minus
<1>1. Len(encoded) \in Nat /\ i+1 \in 1 .. Len(encoded) + 1
  OBVIOUS
<1>2. PICK j \in i+1 .. Len(encoded) + 1 : FirstFrom(encoded, i+1, {Minus}, j)
  BY <1>1, FirstExists
<1> DEFINE Ends(e) == /\ \A k \in i+1 .. e-1 : encoded[k] # Minus
                      /\ e <= Len(encoded) => encoded[e] = Minus
<1>3. Ends(j)
  BY <1>1, <1>2 DEF FirstFrom
<1>4. BlockEnd = CHOOSE e \in i+1 .. Len(encoded) + 1 : Ends(e)
  BY DEF BlockEnd
<1>5. BlockEnd \in i+1 .. Len(encoded) + 1 /\ Ends(BlockEnd)
  <2> HIDE DEF Ends
  <2> QED BY <1>3, <1>4
<1> QED BY <1>5

LEMMA CharactersAreAscii == Character \subseteq Ascii /\ \A r : Printable(r) => r \in Ascii
<1>1. \A c \in Character : c \in 32..126
  <2>1. \A v \in 0..63 : Alphabet[v] \in 32..126
    BY Characters
  <2> QED BY <2>1 DEF Character
<1> QED BY <1>1 DEF Ascii, Printable

LEMMA AsciiAreRunes == Ascii \subseteq Rune /\ Seq(Ascii) \subseteq Seq(Byte) /\ Seq(Character) \subseteq Seq(Ascii)
<1>1. Ascii \subseteq Rune
  BY SMT DEF Ascii, Rune, IsHigh, IsLow
<1>2. Ascii \subseteq Byte
  BY DEF Ascii, Byte
<1>3. Seq(Ascii) \subseteq Seq(Byte) /\ Seq(Character) \subseteq Seq(Ascii)
  BY <1>2, CharactersAreAscii, SeqMonotonic
<1> QED BY <1>1, <1>3

LEMMA Part ==
  ASSUME NEW E, NEW s \in Seq(E), NEW a \in 1 .. Len(s) + 1, NEW b \in a-1 .. Len(s)
  PROVE  SubSeq(s, a, b) \in Seq(E) /\ Len(SubSeq(s, a, b)) = b - a + 1
         /\ \A k \in 1 .. b - a + 1 : SubSeq(s, a, b)[k] = s[a + k - 1]
<1>1. \A k \in a..b : s[k] \in E
  OBVIOUS
<1> QED BY <1>1, SubSeqProperties

\* Only an even number of bits is ever pending.
BitsInv ==
  /\ pc = "shift"   => bits \in {0, 2, 4}
  /\ pc = "unshift" => bits \in {0, 2, 4, 6}

LEMMA InitType == Init => TypeOK /\ BitsInv
<1> SUFFICES ASSUME Init PROVE TypeOK /\ BitsInv
  OBVIOUS
<1>1. acc \in 0 .. AccValues - 1
  BY WidthAssumption DEF Init
<1>2. block \in Seq(Byte) /\ bytes \in Seq(Byte) /\ decoded \in Seq(Rune) /\ bits \in 0..7
  BY DEF Init
<1>3. CASE name \in Names /\ own = TRUE /\ encoded = <<>> /\ pc = "encode"
  <2>1. name \in Seq(Rune) /\ encoded \in Seq(Ascii)
    BY <1>3, InputAssumption
  <2>2. i \in 1 .. Len(name) + 1
    BY <2>1 DEF Init
  <2> QED BY <1>1, <1>2, <1>3, <2>1, <2>2 DEF TypeOK, BitsInv
<1>4. CASE name = <<>> /\ own = FALSE /\ encoded \in Foreign /\ pc = "decode"
  <2>1. name \in Seq(Rune) /\ encoded \in Seq(Ascii)
    BY <1>4, InputAssumption
  <2>2. i \in 1 .. Len(encoded) + 1
    BY <2>1 DEF Init
  <2> QED BY <1>1, <1>2, <1>4, <2>1, <2>2 DEF TypeOK, BitsInv
<1> QED BY <1>3, <1>4 DEF Init

LEMMA NextType == TypeOK /\ BitsInv /\ [Next]_vars => TypeOK' /\ BitsInv'
<1> SUFFICES ASSUME TypeOK, BitsInv, [Next]_vars PROVE TypeOK' /\ BitsInv'
  OBVIOUS
<1>1. /\ name \in Seq(Rune) /\ own \in BOOLEAN /\ block \in Seq(Byte) /\ acc \in Nat
      /\ acc \in 0 .. AccValues - 1 /\ 0 \in 0 .. AccValues - 1
      /\ encoded \in Seq(Ascii) /\ bytes \in Seq(Byte) /\ decoded \in Seq(Rune)
      /\ Len(name) \in Nat /\ Len(encoded) \in Nat
  BY WidthAssumption DEF TypeOK
<1>2. CASE EncodeOne
  <2>1. (IF name[i] = Amp THEN <<Amp, Minus>> ELSE <<name[i]>>) \in Seq(Ascii)
    <3>1. name[i] \in Ascii
      BY <1>2, CharactersAreAscii DEF EncodeOne
    <3>2. Amp \in Ascii /\ Minus \in Ascii
      BY DEF Amp, Minus, Ascii
    <3> QED BY <3>1, <3>2
  <2>2. encoded' \in Seq(Ascii)
    BY <1>1, <1>2, <2>1 DEF EncodeOne
  <2>3. pc = "encode" /\ pc' = "encode" /\ name' = name /\ i' \in 1 .. Len(name) + 1
    BY <1>1, <1>2 DEF EncodeOne, TypeOK
  <2> QED BY <1>2, <2>2, <2>3 DEF EncodeOne, TypeOK, BitsInv
<1>3. CASE BeginRun
  <2>1. i \in 1..Len(name) /\ pc = "encode"
    BY <1>1, <1>3 DEF BeginRun, TypeOK
  <2>2. RunEnd \in i+1 .. Len(name) + 1
    BY <1>1, <1>3, <2>1, RunEndFound DEF BeginRun
  <2>3. SubSeq(name, i, RunEnd - 1) \in Seq(Rune)
    <3>1. i \in 1 .. Len(name) + 1 /\ RunEnd - 1 \in i-1 .. Len(name)
      BY <1>1, <2>1, <2>2
    <3> QED BY <1>1, <3>1, Part
  <2>4. block' \in Seq(Byte)
    BY <1>3, <2>3, DecodedRun DEF BeginRun
  <2>5. encoded' \in Seq(Ascii)
    BY <1>1, <1>3 DEF BeginRun, Amp, Ascii
  <2>6. i' \in 1 .. Len(name) + 1 /\ name' = name /\ pc' = "shift"
    BY <1>1, <1>3, <2>1, <2>2 DEF BeginRun
  <2> QED BY <1>1, <1>3, <2>4, <2>5, <2>6 DEF BeginRun, TypeOK, BitsInv
<1>4. CASE EncodeByte
  <2> DEFINE x == Head(block)
  <2>1. x \in Byte /\ bits \in {0, 2, 4} /\ pc = "shift"
    BY <1>1, <1>4 DEF EncodeByte, BitsInv
  <2>2. /\ encoded' = encoded \o Written(acc, bits, x) /\ acc' \in 0 .. AccValues - 1
        /\ bits' = IF bits = 4 THEN 0 ELSE bits + 2
    <3> HIDE DEF x
    <3>1. Head(block) = x
      BY DEF x
    <3> QED BY <1>1, <1>4, <2>1, <3>1, EncodedByte
  <2>3. Written(acc, bits, x) \in Seq(Ascii)
    <3> HIDE DEF x
    <3> QED BY <1>1, <2>1, WrittenType, AsciiAreRunes DEF WrittenAs
  <2>4. encoded' \in Seq(Ascii)
    BY <1>1, <2>2, <2>3
  <2>5. bits' \in {0, 2, 4} /\ bits' \in 0..7 /\ block' \in Seq(Byte)
    <3>1. block' \in Seq(Byte)
      BY <1>1, <1>4 DEF EncodeByte
    <3>2. bits' \in {0, 2, 4}
      BY <2>1, <2>2
    <3> QED BY <3>1, <3>2
  <2> QED BY <1>4, <2>1, <2>2, <2>4, <2>5 DEF EncodeByte, TypeOK, BitsInv
<1>5. CASE EndRun
  <2>1. pc = "shift" /\ bits \in {0, 2, 4}
    BY <1>5 DEF EndRun, BitsInv
  <2>2. PICK rest \in Seq(Character) : Flushed(rest)
    BY <1>1, <1>5, <2>1, EncodedRest
  <2>3. rest \in Seq(Ascii) /\ Minus \in Ascii
    BY AsciiAreRunes DEF Minus, Ascii
  <2>4. encoded' \in Seq(Ascii)
    BY <1>1, <2>2, <2>3 DEF Flushed
  <2> QED BY <1>5, <2>1, <2>4 DEF EndRun, TypeOK, BitsInv
<1>6. CASE EndEncode \/ EndDecode
  BY <1>1, <1>6 DEF EndEncode, EndDecode, TypeOK, BitsInv
<1>7. CASE DecodeOne
  <2>1. i \in 1..Len(encoded)
    BY <1>1, <1>7 DEF DecodeOne, TypeOK
  <2>2. encoded[i] \in Rune
    BY <1>1, <2>1, AsciiAreRunes
  <2>3. decoded' \in Seq(Rune) /\ i' \in 1 .. Len(encoded) + 1
    BY <1>1, <1>7, <2>1, <2>2 DEF DecodeOne
  <2> QED BY <1>7, <2>3 DEF DecodeOne, TypeOK, BitsInv
<1>8. CASE DecodeAmp
  <2>1. i \in 1..Len(encoded) /\ pc = "decode"
    BY <1>1, <1>8 DEF DecodeAmp, TypeOK
  <2>2. BlockEnd \in i+1 .. Len(encoded) + 1
    BY <1>1, <2>1, BlockEndFound
  <2>3. i' \in 1 .. Len(encoded) + 1 /\ encoded' = encoded /\ name' = name /\ own' = own
    BY <1>1, <1>8, <2>1, <2>2 DEF DecodeAmp, AfterBlock
  <2>4. CASE BlockEnd = i+1
    <3>1. Amp \in Rune
      BY AsciiAreRunes DEF Amp, Ascii
    <3>2. decoded' \in Seq(Rune) /\ UNCHANGED <<pc, block, acc, bits, bytes>>
      <4>1. ~ BlockEnd > i+1
        BY <2>1, <2>4
      <4>2. decoded' = Append(decoded, Amp) /\ UNCHANGED <<pc, block, acc, bits, bytes>>
        BY <1>8, <4>1 DEF DecodeAmp
      <4> QED BY <1>1, <3>1, <4>2
    <3> QED BY <2>1, <2>3, <3>2 DEF TypeOK, BitsInv
  <2>5. CASE BlockEnd > i+1
    <3>1. SubSeq(encoded, i+1, BlockEnd - 1) \in Seq(Ascii)
      <4>1. i+1 \in 1 .. Len(encoded) + 1 /\ BlockEnd - 1 \in (i+1)-1 .. Len(encoded)
        BY <1>1, <2>1, <2>2
      <4> QED BY <1>1, <4>1, Part
    <3>2. /\ block' \in Seq(Byte) /\ acc' = 0 /\ bits' = 0 /\ bytes' = <<>> /\ pc' = "unshift"
          /\ decoded' = decoded
      <4>1. BlockEnd # i+1
        BY <2>1, <2>2, <2>5
      <4>2. /\ block' = SubSeq(encoded, i+1, BlockEnd - 1) /\ acc' = 0 /\ bits' = 0
            /\ bytes' = <<>> /\ pc' = "unshift" /\ decoded' = decoded
        BY <1>8, <4>1 DEF DecodeAmp
      <4> QED BY <3>1, <4>2, AsciiAreRunes
    <3> QED BY <1>1, <2>1, <2>3, <3>2 DEF TypeOK, BitsInv
  <2> QED BY <2>1, <2>2, <2>4, <2>5
<1>9. CASE DecodeSextet
  <2> DEFINE c == Head(block)
  <2>1. c \in Character /\ bits \in {0, 2, 4, 6} /\ pc = "unshift"
    BY <1>9, Characters DEF DecodeSextet, BitsInv
  <2>2. Head(block) = c
    OBVIOUS
  <2> HIDE DEF c
  <2> DEFINE v == Value(c)
  <2>3. v \in 0..63
    BY <2>1, Characters
  <2>4. /\ acc' \in 0 .. AccValues - 1 /\ bits' = IF bits = 0 THEN 6 ELSE bits - 2
        /\ bits = 0 => bytes' = bytes
        /\ bits = 6 => bytes' = Append(bytes, (acc % 64) * 4 + v \div 16)
        /\ bits = 4 => bytes' = Append(bytes, (acc % 16) * 16 + v \div 4)
        /\ bits = 2 => bytes' = Append(bytes, (acc % 4) * 64 + v)
    BY <1>1, <1>9, <2>1, <2>2, DecodedSextet
  <2> HIDE DEF v
  <2>5. /\ (acc % 64) * 4 + v \div 16 \in Byte /\ (acc % 16) * 16 + v \div 4 \in Byte
        /\ (acc % 4) * 64 + v \in Byte
    BY <1>1, <2>3 DEF Byte
  <2>6. bytes' \in Seq(Byte)
    <3>1. bytes' = bytes \/ \E b \in Byte : bytes' = Append(bytes, b)
      BY <2>1, <2>4, <2>5
    <3>2. \A b \in Byte : Append(bytes, b) \in Seq(Byte)
      BY <1>1
    <3> QED BY <1>1, <3>1, <3>2
  <2>7. bits' \in {0, 2, 4, 6} /\ bits' \in 0..7 /\ block' \in Seq(Byte)
    BY <1>1, <1>9, <2>1, <2>4 DEF DecodeSextet
  <2> QED BY <1>9, <2>1, <2>4, <2>6, <2>7 DEF DecodeSextet, TypeOK, BitsInv
<1>10. CASE SkipCharacter
  <2>1. block' \in Seq(Byte)
    BY <1>1, <1>10 DEF SkipCharacter
  <2> QED BY <1>10, <2>1 DEF SkipCharacter, TypeOK, BitsInv
<1>11. CASE EndBlock
  <2>1. CodePoints(UnitsOf(bytes)) \in Seq(Rune)
    BY <1>1, UnitsOfType, CodePointsType
  <2>2. decoded' \in Seq(Rune)
    BY <1>1, <1>11, <2>1 DEF EndBlock
  <2> QED BY <1>11, <2>2 DEF EndBlock, TypeOK, BitsInv
<1>12. CASE UNCHANGED vars
  BY <1>12 DEF vars, TypeOK, BitsInv
<1> QED BY <1>2, <1>3, <1>4, <1>5, <1>6, <1>7, <1>8, <1>9, <1>10, <1>11, <1>12
        DEF Next, Terminated

\* The cursor of each loop stays in its string, the accumulator in its width,
\* and what comes out is ASCII in one direction and code points, none of them
\* half a pair, in the other, also for names from elsewhere (utf7.go).
THEOREM TypeCorrect == Spec => []TypeOK
<1>1. Init => TypeOK /\ BitsInv
  BY InitType
<1>2. (TypeOK /\ BitsInv) /\ [Next]_vars => (TypeOK /\ BitsInv)'
  BY NextType
<1> QED BY <1>1, <1>2, PTL DEF Spec

-----------------------------------------------------------------------------
(* Well-formed names: what one more character or one more block adds.      *)

BlocksOf(s) ==
  {b \in (1..Len(s)) \X (1..Len(s)) :
     /\ b[1] < b[2]
     /\ s[b[1]] = Amp /\ s[b[2]] = Minus
     /\ \A k \in b[1]+1 .. b[2]-1 : s[k] # Minus}

Short(b) == b[2] = b[1] + 1

WellFormedName(s) ==
  /\ \A k \in 1..Len(s) : Printable(s[k])
  /\ \A k \in 1..Len(s) : s[k] = Amp =>
       \E b \in BlocksOf(s) : b[1] = k /\ \A m \in k+1 .. b[2]-1 : InAlphabet(s[m])
  /\ \A b, c \in BlocksOf(s) : c[1] = b[2] + 1 => Short(b) \/ Short(c)

\* Another block of base64 may not follow.
EndsInBlock(s) == \E b \in BlocksOf(s) : b[2] = Len(s) /\ ~ Short(b)

Shift(q) == (<<Amp>> \o q) \o <<Minus>>

LEMMA ShiftIs ==
  ASSUME NEW q \in Seq(Character)
  PROVE  /\ Shift(q) \in Seq(Ascii) /\ Len(Shift(q)) = Len(q) + 2
         /\ Shift(q)[1] = Amp /\ Shift(q)[Len(q) + 2] = Minus
         /\ \A k \in 2 .. Len(q) + 1 : Shift(q)[k] = q[k-1] /\ Shift(q)[k] \in Character
<1>1. q \in Seq(Ascii) /\ Len(q) \in Nat /\ \A k \in 1..Len(q) : q[k] \in Character
  BY AsciiAreRunes
<1>2. Amp \in Ascii /\ Minus \in Ascii
  BY DEF Amp, Minus, Ascii
<1> DEFINE s == <<Amp>> \o q
<1>3. /\ s \in Seq(Ascii) /\ Len(s) = Len(q) + 1 /\ s[1] = Amp
      /\ \A k \in 2 .. Len(q) + 1 : s[k] = q[k-1]
  BY <1>1, <1>2
<1> HIDE DEF s
<1>4. /\ s \o <<Minus>> \in Seq(Ascii) /\ Len(s \o <<Minus>>) = Len(q) + 2
      /\ (s \o <<Minus>>)[Len(q) + 2] = Minus
      /\ \A k \in 1 .. Len(q) + 1 : (s \o <<Minus>>)[k] = s[k]
  BY <1>1, <1>2, <1>3
<1>5. \A k \in 2 .. Len(q) + 1 : k \in 1 .. Len(q) + 1 /\ k-1 \in 1..Len(q)
  BY <1>1
<1>6. 1 \in 1 .. Len(q) + 1
  BY <1>1
<1> QED BY <1>1, <1>3, <1>4, <1>5, <1>6 DEF Shift, s

\* One more place of a name, in front or in what was added.
Joined(s, c, t) ==
  /\ t \in Seq(Ascii) /\ Len(t) = Len(s) + Len(c)
  /\ Len(s) \in Nat /\ Len(c) \in Nat
  /\ \A k \in 1..Len(s) : t[k] = s[k]
  /\ \A k \in Len(s)+1 .. Len(s) + Len(c) : k - Len(s) \in 1..Len(c) /\ t[k] = c[k - Len(s)]

LEMMA Places ==
  ASSUME NEW s \in Seq(Ascii), NEW c \in Seq(Ascii)
  PROVE  Joined(s, c, s \o c)
BY DEF Joined

\* A block that begins in front is a block of what is in front.
LEMMA BlocksInFront ==
  ASSUME NEW s \in Seq(Ascii), NEW c \in Seq(Ascii), WellFormedName(s)
  PROVE  \A b : b \in BlocksOf(s \o c) /\ b[1] <= Len(s) <=> b \in BlocksOf(s)
<1> DEFINE t == s \o c
<1>1. /\ t \in Seq(Ascii) /\ Len(t) = Len(s) + Len(c) /\ Len(s) \in Nat /\ Len(c) \in Nat
      /\ \A k \in 1..Len(s) : t[k] = s[k]
  <2>1. Joined(s, c, t)
    BY Places
  <2> QED BY <2>1 DEF Joined
<1> HIDE DEF t
<1>2. ASSUME NEW b \in BlocksOf(s) PROVE b \in BlocksOf(t) /\ b[1] <= Len(s)
  <2>1. /\ b \in (1..Len(s)) \X (1..Len(s)) /\ b[1] < b[2] /\ s[b[1]] = Amp /\ s[b[2]] = Minus
        /\ \A k \in b[1]+1 .. b[2]-1 : s[k] # Minus
    BY DEF BlocksOf
  <2>2. /\ b \in (1..Len(t)) \X (1..Len(t)) /\ t[b[1]] = Amp /\ t[b[2]] = Minus
        /\ \A k \in b[1]+1 .. b[2]-1 : k \in 1..Len(s)
    BY <1>1, <2>1
  <2> QED BY <1>1, <2>1, <2>2 DEF BlocksOf
<1>3. ASSUME NEW b \in BlocksOf(t), b[1] <= Len(s) PROVE b \in BlocksOf(s)
  <2>1. /\ b \in (1..Len(t)) \X (1..Len(t)) /\ b[1] < b[2] /\ t[b[1]] = Amp /\ t[b[2]] = Minus
        /\ \A k \in b[1]+1 .. b[2]-1 : t[k] # Minus
    BY DEF BlocksOf
  <2>2. b[1] \in 1..Len(s) /\ s[b[1]] = Amp
    BY <1>1, <1>3, <2>1
  <2>3. PICK d \in BlocksOf(s) : d[1] = b[1]
    BY <2>2 DEF WellFormedName
  <2>4. /\ d \in (1..Len(s)) \X (1..Len(s)) /\ d[1] < d[2] /\ s[d[2]] = Minus
        /\ \A k \in d[1]+1 .. d[2]-1 : s[k] # Minus
    BY DEF BlocksOf
  <2>5. t[d[2]] = Minus /\ \A k \in d[1]+1 .. d[2]-1 : t[k] # Minus
    <3>1. d[2] \in 1..Len(s) /\ \A k \in d[1]+1 .. d[2]-1 : k \in 1..Len(s)
      BY <1>1, <2>4
    <3> QED BY <1>1, <2>4, <3>1
  <2>6. ~ d[2] < b[2]
    <3> SUFFICES ASSUME d[2] < b[2] PROVE FALSE
      OBVIOUS
    <3>1. d[2] \in b[1]+1 .. b[2]-1
      BY <1>1, <2>1, <2>3, <2>4
    <3> QED BY <2>1, <2>5, <3>1
  <2>7. ~ b[2] < d[2]
    <3> SUFFICES ASSUME b[2] < d[2] PROVE FALSE
      OBVIOUS
    <3>1. b[2] \in d[1]+1 .. d[2]-1
      BY <1>1, <2>1, <2>3, <2>4
    <3> QED BY <2>1, <2>5, <3>1
  <2>8. b[1] = d[1] /\ b[2] = d[2]
    BY <1>1, <2>1, <2>3, <2>4, <2>6, <2>7
  <2>9. b = d
    <3>1. b = <<b[1], b[2]>> /\ d = <<d[1], d[2]>>
      BY <2>1, <2>4
    <3> QED BY <2>8, <3>1
  <2> QED BY <2>9
<1> QED BY <1>2, <1>3 DEF t

\* A printable character that opens no block.
LEMMA PlainAdded ==
  ASSUME NEW s \in Seq(Ascii), WellFormedName(s), NEW r \in Ascii, Printable(r), r # Amp
  PROVE  WellFormedName(s \o <<r>>) /\ ~ EndsInBlock(s \o <<r>>)
<1> DEFINE c == <<r>>
           t == s \o c
<1>1. c \in Seq(Ascii) /\ Len(c) = 1 /\ c[1] = r
  OBVIOUS
<1> HIDE DEF c
<1>2. /\ Len(t) = Len(s) + 1 /\ Len(s) \in Nat /\ t[Len(s)+1] = r
      /\ \A k \in 1..Len(s) : t[k] = s[k]
  <2>1. Len(s)+1 \in Len(s)+1 .. Len(s) + Len(c) /\ (Len(s)+1) - Len(s) = 1
    BY <1>1
  <2>2. Joined(s, c, t)
    BY <1>1, Places
  <2> HIDE DEF t
  <2> QED BY <1>1, <2>1, <2>2 DEF Joined
<1>3. \A b : b \in BlocksOf(t) /\ b[1] <= Len(s) <=> b \in BlocksOf(s)
  BY <1>1, BlocksInFront
<1> HIDE DEF t
<1>4. \A b \in BlocksOf(t) : b[1] \in 1..Len(t) /\ b[2] \in 1..Len(t) /\ t[b[1]] = Amp
  BY DEF BlocksOf
<1>5. \A b : b \in BlocksOf(t) <=> b \in BlocksOf(s)
  <2>1. \A b \in BlocksOf(t) : b[1] <= Len(s)
    BY <1>2, <1>4
  <2> QED BY <1>3, <2>1
<1>6. \A b \in BlocksOf(s) : b[1] \in 1..Len(s) /\ b[2] \in 1..Len(s)
  BY DEF BlocksOf
<1>7. \A k \in 1..Len(t) : k \in 1..Len(s) \/ k = Len(s)+1
  BY <1>2
<1>8. \A k \in 1..Len(t) : Printable(t[k])
  BY <1>2, <1>7 DEF WellFormedName
<1>9. ASSUME NEW k \in 1..Len(t), t[k] = Amp
      PROVE  \E b \in BlocksOf(t) : b[1] = k /\ \A m \in k+1 .. b[2]-1 : InAlphabet(t[m])
  <2>1. k \in 1..Len(s) /\ s[k] = Amp
    BY <1>2, <1>7, <1>9
  <2>2. PICK b \in BlocksOf(s) : b[1] = k /\ \A m \in k+1 .. b[2]-1 : InAlphabet(s[m])
    BY <2>1 DEF WellFormedName
  <2>3. \A m \in k+1 .. b[2]-1 : m \in 1..Len(s)
    BY <1>6, <2>1, <2>2
  <2>4. \A m \in k+1 .. b[2]-1 : InAlphabet(t[m])
    BY <1>2, <2>2, <2>3
  <2> QED BY <1>5, <2>2, <2>4
<1>10. ~ EndsInBlock(t)
  BY <1>2, <1>5, <1>6 DEF EndsInBlock
<1>11. \A b, d \in BlocksOf(t) : d[1] = b[2] + 1 => Short(b) \/ Short(d)
  BY <1>5 DEF WellFormedName
<1> QED BY <1>8, <1>9, <1>10, <1>11 DEF WellFormedName, t, c

\* A block, which may hold base64 only where the name does not end in such a block.
LEMMA BlockAdded ==
  ASSUME NEW s \in Seq(Ascii), WellFormedName(s), NEW q \in Seq(Character),
         q = <<>> \/ ~ EndsInBlock(s)
  PROVE  WellFormedName(s \o Shift(q)) /\ (q = <<>> => ~ EndsInBlock(s \o Shift(q)))
<1> DEFINE c == Shift(q)
           t == s \o c
           n == Len(s)
           z == Len(s) + Len(q) + 2
<1>1. /\ c \in Seq(Ascii) /\ Len(c) = Len(q) + 2 /\ c[1] = Amp /\ c[Len(q) + 2] = Minus
      /\ \A k \in 2 .. Len(q) + 1 : c[k] \in Character
  BY ShiftIs
<1>2. Len(q) \in Nat /\ n \in Nat /\ z \in Nat /\ z = n + Len(q) + 2
  OBVIOUS
<1> HIDE DEF c
<1>3. /\ Len(t) = z /\ \A k \in 1..n : t[k] = s[k]
      /\ \A k \in n+1 .. z : k - n \in 1 .. Len(q) + 2 /\ t[k] = c[k - n]
  <2>1. Joined(s, c, t)
    BY <1>1, Places
  <2> HIDE DEF t
  <2> QED BY <1>1, <1>2, <2>1 DEF Joined
<1>4. \A b : b \in BlocksOf(t) /\ b[1] <= n <=> b \in BlocksOf(s)
  BY <1>1, BlocksInFront
<1> HIDE DEF t, n, z
<1>5. t[n+1] = Amp /\ t[z] = Minus /\ \A k \in n+2 .. z-1 : t[k] \in Character
  <2>1. n+1 \in n+1 .. z /\ (n+1) - n = 1 /\ z \in n+1 .. z /\ z - n = Len(q) + 2
    BY <1>2
  <2>2. \A k \in n+2 .. z-1 : k \in n+1 .. z /\ k - n \in 2 .. Len(q) + 1
    BY <1>2
  <2> QED BY <1>1, <1>3, <2>1, <2>2
<1>6. \A k \in n+2 .. z-1 : t[k] # Amp /\ t[k] # Minus /\ Printable(t[k]) /\ InAlphabet(t[k])
  <2>1. \A x \in Character : x # Amp /\ x # Minus /\ Printable(x) /\ InAlphabet(x)
    <3>1. \A v \in 0..63 : /\ Alphabet[v] # Amp /\ Alphabet[v] # Minus /\ Printable(Alphabet[v])
                            /\ InAlphabet(Alphabet[v])
      BY Characters DEF Printable
    <3> QED BY <3>1 DEF Character
  <2> QED BY <1>5, <2>1
<1> DEFINE new == <<n+1, z>>
<1>7. new \in BlocksOf(t)
  <2>1. n+1 \in 1..Len(t) /\ z \in 1..Len(t) /\ n+1 < z
    BY <1>2, <1>3
  <2>2. new \in (1..Len(t)) \X (1..Len(t)) /\ new[1] = n+1 /\ new[2] = z
    BY <2>1
  <2>3. \A k \in (n+1)+1 .. z-1 : k \in n+2 .. z-1
    BY <1>2
  <2>4. \A k \in new[1]+1 .. new[2]-1 : t[k] # Minus
    BY <1>6, <2>2, <2>3
  <2> HIDE DEF new
  <2> QED BY <1>5, <2>1, <2>2, <2>4 DEF BlocksOf
<1>8. ASSUME NEW b \in BlocksOf(t) PROVE b \in BlocksOf(s) \/ b = new
  <2>1. /\ b \in (1..Len(t)) \X (1..Len(t)) /\ b[1] < b[2] /\ t[b[1]] = Amp /\ t[b[2]] = Minus
        /\ \A k \in b[1]+1 .. b[2]-1 : t[k] # Minus
    BY DEF BlocksOf
  <2>2. CASE b[1] <= n
    BY <1>4, <2>2
  <2>3. CASE b[1] > n
    <3>1. Minus # Amp
      BY DEF Minus, Amp
    <3>2. b[1] \in n+1 .. z /\ b[2] \in n+2 .. z
      BY <1>2, <1>3, <2>1, <2>3
    <3>3. b[1] = n+1
      BY <1>2, <1>5, <1>6, <2>1, <3>1, <3>2
    <3>4. b[2] = z
      BY <1>2, <1>6, <2>1, <3>2
    <3>5. b = <<b[1], b[2]>>
      BY <2>1
    <3> QED BY <3>3, <3>4, <3>5
  <2>4. b[1] <= n \/ b[1] > n
    BY <1>2, <1>3, <2>1
  <2> QED BY <2>2, <2>3, <2>4
<1>9. new[1] = n+1 /\ new[2] = z
  OBVIOUS
<1> HIDE DEF new
<1>10. \A b \in BlocksOf(s) : b[1] \in 1..n /\ b[2] \in 1..n
  BY DEF BlocksOf, n
<1>11. \A k \in 1..Len(t) : k \in 1..n \/ k = n+1 \/ k \in n+2 .. z-1 \/ k = z
  BY <1>2, <1>3
<1>12. \A k \in 1..Len(t) : Printable(t[k])
  <2>1. Printable(Amp) /\ Printable(Minus)
    BY DEF Printable, Amp, Minus
  <2>2. \A k \in 1..n : Printable(s[k])
    BY DEF WellFormedName, n
  <2> QED BY <1>3, <1>5, <1>6, <1>11, <2>1, <2>2
<1>13. ASSUME NEW k \in 1..Len(t), t[k] = Amp
       PROVE  \E b \in BlocksOf(t) : b[1] = k /\ \A m \in k+1 .. b[2]-1 : InAlphabet(t[m])
  <2>1. k \in 1..n \/ k = n+1
    <3>1. Minus # Amp
      BY DEF Minus, Amp
    <3> QED BY <1>5, <1>6, <1>11, <1>13, <3>1
  <2>2. CASE k \in 1..n
    <3>1. s[k] = Amp /\ k \in 1..Len(s)
      BY <1>3, <1>13, <2>2 DEF n
    <3>2. PICK b \in BlocksOf(s) : b[1] = k /\ \A m \in k+1 .. b[2]-1 : InAlphabet(s[m])
      BY <3>1 DEF WellFormedName
    <3>3. \A m \in k+1 .. b[2]-1 : m \in 1..n
      BY <1>2, <1>10, <2>2, <3>2
    <3>4. \A m \in k+1 .. b[2]-1 : InAlphabet(t[m])
      BY <1>3, <3>2, <3>3
    <3> QED BY <1>4, <3>2, <3>4
  <2>3. CASE k = n+1
    <3>1. \A m \in k+1 .. z-1 : m \in n+2 .. z-1
      BY <1>2, <2>3
    <3> QED BY <1>6, <1>7, <1>9, <2>3, <3>1
  <2> QED BY <2>1, <2>2, <2>3
<1>14. Short(new) <=> q = <<>>
  <2>1. Short(new) <=> Len(q) = 0
    BY <1>2, <1>9 DEF Short
  <2> QED BY <2>1
<1>15. ASSUME NEW b \in BlocksOf(t), NEW d \in BlocksOf(t), d[1] = b[2] + 1
       PROVE  Short(b) \/ Short(d)
  <2>1. CASE b = new
    <3>1. d[1] \in 1..z
      <4>1. d[1] \in 1..Len(t)
        BY DEF BlocksOf
      <4> QED BY <1>3, <4>1
    <3> QED BY <1>2, <1>9, <1>15, <2>1, <3>1
  <2>2. CASE b \in BlocksOf(s) /\ d \in BlocksOf(s)
    BY <1>15, <2>2 DEF WellFormedName
  <2>3. CASE b \in BlocksOf(s) /\ d = new
    <3>1. b[2] = n
      BY <1>2, <1>9, <1>10, <1>15, <2>3
    <3>2. q # <<>> => Short(b)
      BY <2>3, <3>1 DEF EndsInBlock, n
    <3> QED BY <1>14, <2>3, <3>2
  <2> QED BY <1>8, <2>1, <2>2, <2>3
<1>16. q = <<>> => ~ EndsInBlock(t)
  <2> SUFFICES ASSUME q = <<>>, NEW b \in BlocksOf(t), b[2] = Len(t) PROVE Short(b)
    BY DEF EndsInBlock
  <2>1. b \notin BlocksOf(s)
    BY <1>2, <1>3, <1>10
  <2> QED BY <1>8, <1>14, <2>1
<1> QED BY <1>12, <1>13, <1>15, <1>16 DEF WellFormedName, t, c

(* The name under construction: the blocks in front are whole, and the open *)
(* one holds characters only.                                              *)

\* Between an open block and the closed one, only the grouping differs.
LEMMA ShiftGrows ==
  ASSUME NEW s \in Seq(Ascii), NEW q \in Seq(Character), NEW more \in Seq(Character)
  PROVE  /\ (s \o (<<Amp>> \o q)) \o more = s \o (<<Amp>> \o (q \o more))
         /\ ((s \o (<<Amp>> \o q)) \o more) \o <<Minus>> = s \o Shift(q \o more)
         /\ q \o more \in Seq(Character)
         /\ <<Amp>> \o q \in Seq(Ascii)
<1>1. q \in Seq(Ascii) /\ more \in Seq(Ascii) /\ <<Amp>> \in Seq(Ascii) /\ <<Minus>> \in Seq(Ascii)
  <2>1. Amp \in Ascii /\ Minus \in Ascii
    BY DEF Amp, Minus, Ascii
  <2> QED BY <2>1, AsciiAreRunes
<1> DEFINE a == <<Amp>>
           m == <<Minus>>
           x == a \o q
           y == q \o more
           z == a \o y
<1>2. q \o more \in Seq(Character)
  OBVIOUS
<1>3. a \in Seq(Ascii) /\ m \in Seq(Ascii)
  BY <1>1
<1>4. Shift(q \o more) = z \o m
  BY DEF Shift
<1> HIDE DEF a, m
<1>5. x \in Seq(Ascii) /\ y \in Seq(Ascii)
  BY <1>1, <1>3
<1>6. z \in Seq(Ascii)
  BY <1>3, <1>5
<1>7. Associates(a, q, more) /\ Associates(s, x, more) /\ Associates(s, z, m)
  <2> HIDE DEF x, z
  <2> QED BY <1>1, <1>3, <1>5, <1>6, ConcatOfThree
<1>8. x \o more = z
  BY <1>7 DEF Associates
<1>9. (s \o x) \o more = s \o z
  <2> HIDE DEF x, z
  <2> QED BY <1>7, <1>8 DEF Associates
<1>10. ((s \o x) \o more) \o m = s \o (z \o m)
  <2> HIDE DEF x, z
  <2> QED BY <1>7, <1>9 DEF Associates
<1> QED BY <1>2, <1>4, <1>5, <1>9, <1>10 DEF a, m

LEMMA ShiftOfNothing == <<Amp, Minus>> = Shift(<<>>)
<1>1. <<Amp>> \o <<>> = <<Amp>> /\ <<Amp>> \o <<Minus>> = <<Amp, Minus>>
  <2>1. Amp \in Ascii /\ Minus \in Ascii
    BY DEF Amp, Minus, Ascii
  <2>2. <<Amp>> \o <<Minus>> = <<Amp, Minus>>
    BY <2>1, ConcatOfTuples
  <2>3. <<Amp>> \o <<>> = <<Amp>>
    <3>1. <<Amp>> \in Seq(Ascii)
      BY <2>1
    <3> QED BY <3>1, ConcatEmptySeq
  <2> QED BY <2>2, <2>3
<1> QED BY <1>1 DEF Shift

MayShift == i <= Len(name) => Printable(name[i])

Opened(s, q) ==
  /\ encoded = s \o (<<Amp>> \o q)
  /\ WellFormedName(s) /\ ~ EndsInBlock(s)
  /\ MayShift

FormInv ==
  own =>
    /\ pc = "encode" => WellFormedName(encoded) /\ (EndsInBlock(encoded) => MayShift)
    /\ pc = "shift" => \E s \in Seq(Ascii), q \in Seq(Character) : Opened(s, q)
    /\ pc \in {"decode", "unshift", "done"} => WellFormedName(encoded)

LEMMA FormInit == Init => FormInv
<1> SUFFICES ASSUME Init, own PROVE FormInv
  BY DEF FormInv
<1>1. pc = "encode" /\ encoded = <<>>
  BY DEF Init
<1>2. BlocksOf(<<>>) = {}
  BY DEF BlocksOf
<1>3. WellFormedName(encoded) /\ ~ EndsInBlock(encoded)
  BY <1>1, <1>2 DEF WellFormedName, EndsInBlock
<1> QED BY <1>1, <1>3 DEF FormInv

LEMMA FormNext == TypeOK /\ BitsInv /\ FormInv /\ [Next]_vars => FormInv'
<1> SUFFICES ASSUME TypeOK, BitsInv, FormInv, [Next]_vars, own' PROVE FormInv'
  BY DEF FormInv
<1>1. encoded \in Seq(Ascii) /\ name \in Seq(Rune) /\ acc \in Nat /\ Len(name) \in Nat
      /\ block \in Seq(Byte)
  BY WidthAssumption DEF TypeOK
<1>2. CASE EncodeOne
  <2>1. own /\ pc = "encode" /\ pc' = "encode"
    BY <1>2 DEF EncodeOne
  <2>2. WellFormedName(encoded)
    BY <2>1 DEF FormInv
  <2>3. CASE name[i] = Amp
    <3>1. encoded' = encoded \o Shift(<<>>)
      BY <1>2, <2>3, ShiftOfNothing DEF EncodeOne
    <3>2. <<>> \in Seq(Character)
      OBVIOUS
    <3>3. WellFormedName(encoded \o Shift(<<>>)) /\ ~ EndsInBlock(encoded \o Shift(<<>>))
      BY <1>1, <2>2, <3>2, BlockAdded
    <3> QED BY <2>1, <3>1, <3>3 DEF FormInv
  <2>4. CASE name[i] # Amp
    <3> DEFINE r == name[i]
    <3>1. encoded' = encoded \o <<r>> /\ Printable(r) /\ r \in Ascii /\ r # Amp
      BY <1>2, <2>4, CharactersAreAscii DEF EncodeOne
    <3> HIDE DEF r
    <3>2. WellFormedName(encoded \o <<r>>) /\ ~ EndsInBlock(encoded \o <<r>>)
      BY <1>1, <2>2, <3>1, PlainAdded
    <3> QED BY <2>1, <3>1, <3>2 DEF FormInv
  <2> QED BY <2>3, <2>4
<1>3. CASE BeginRun
  <2>1. own /\ pc = "encode" /\ pc' = "shift" /\ i \in 1..Len(name) /\ ~ Printable(name[i])
    BY <1>1, <1>3 DEF BeginRun, TypeOK
  <2>2. WellFormedName(encoded) /\ ~ EndsInBlock(encoded)
    BY <2>1 DEF FormInv, MayShift
  <2>3. MayShift'
    <3>1. name' = name /\ i' = RunEnd
      BY <1>3 DEF BeginRun
    <3> QED BY <1>1, <2>1, <3>1, RunEndFound DEF MayShift
  <2>4. encoded' = encoded \o (<<Amp>> \o <<>>)
    <3>1. Amp \in Ascii
      BY DEF Amp, Ascii
    <3>2. <<Amp>> \o <<>> = <<Amp>>
      <4>1. <<Amp>> \in Seq(Ascii)
        BY <3>1
      <4> QED BY <4>1, ConcatEmptySeq
    <3>3. Append(encoded, Amp) = encoded \o <<Amp>>
      BY <1>1, <3>1
    <3> QED BY <1>3, <3>2, <3>3 DEF BeginRun
  <2>5. \E s2 \in Seq(Ascii), q2 \in Seq(Character) :
          encoded' = s2 \o (<<Amp>> \o q2) /\ WellFormedName(s2) /\ ~ EndsInBlock(s2)
    <3>1. <<>> \in Seq(Character)
      OBVIOUS
    <3> QED BY <1>1, <2>2, <2>4, <3>1
  <2> QED BY <2>1, <2>3, <2>5 DEF FormInv, Opened
<1>4. CASE EncodeByte
  <2> DEFINE x == Head(block)
  <2>1. own /\ pc = "shift" /\ pc' = "shift" /\ bits \in {0, 2, 4} /\ x \in Byte
    BY <1>1, <1>4 DEF EncodeByte, BitsInv
  <2>2. PICK s \in Seq(Ascii), q \in Seq(Character) : Opened(s, q)
    BY <2>1 DEF FormInv
  <2> DEFINE w == Written(acc, bits, x)
  <2>3. encoded' = encoded \o w /\ w \in Seq(Character)
    <3>1. Head(block) = x
      OBVIOUS
    <3> HIDE DEF x
    <3> QED BY <1>1, <1>4, <2>1, <3>1, EncodedByte, WrittenType DEF WrittenAs
  <2> HIDE DEF w
  <2>4. (s \o (<<Amp>> \o q)) \o w = s \o (<<Amp>> \o (q \o w)) /\ q \o w \in Seq(Character)
    BY <2>3, ShiftGrows
  <2>5. encoded' = s \o (<<Amp>> \o (q \o w))
    BY <2>2, <2>3, <2>4 DEF Opened
  <2>6. MayShift' <=> MayShift
    BY <1>4 DEF MayShift, EncodeByte
  <2>7. WellFormedName(s) /\ ~ EndsInBlock(s) /\ MayShift
    BY <2>2 DEF Opened
  <2> DEFINE p == q \o w
  <2>8. encoded' = s \o (<<Amp>> \o p) /\ p \in Seq(Character)
    BY <2>4, <2>5
  <2> HIDE DEF p
  <2>9. \E s2 \in Seq(Ascii), q2 \in Seq(Character) :
          encoded' = s2 \o (<<Amp>> \o q2) /\ WellFormedName(s2) /\ ~ EndsInBlock(s2)
    BY <2>7, <2>8
  <2> QED BY <2>1, <2>6, <2>7, <2>9 DEF FormInv, Opened
<1>5. CASE EndRun
  <2>1. own /\ pc = "shift" /\ pc' = "encode" /\ bits \in {0, 2, 4}
    BY <1>5 DEF EndRun, BitsInv
  <2>2. PICK s \in Seq(Ascii), q \in Seq(Character) : Opened(s, q)
    BY <2>1 DEF FormInv
  <2>3. PICK rest \in Seq(Character) : Flushed(rest)
    BY <1>1, <1>5, <2>1, EncodedRest
  <2> DEFINE p == q \o rest
  <2>4. ((s \o (<<Amp>> \o q)) \o rest) \o <<Minus>> = s \o Shift(p) /\ p \in Seq(Character)
    BY <2>3, ShiftGrows
  <2>5. encoded' = s \o Shift(p)
    BY <2>2, <2>3, <2>4 DEF Opened, Flushed
  <2> HIDE DEF p
  <2>6. WellFormedName(s \o Shift(p))
    BY <2>2, <2>4, BlockAdded DEF Opened
  <2>7. MayShift'
    BY <1>5, <2>2 DEF Opened, MayShift, EndRun
  <2> QED BY <2>1, <2>5, <2>6, <2>7 DEF FormInv
<1>6. CASE EndEncode
  BY <1>6 DEF EndEncode, FormInv
<1>7. CASE DecodeOne \/ DecodeSextet \/ SkipCharacter \/ EndBlock \/ EndDecode
  BY <1>7 DEF DecodeOne, DecodeSextet, SkipCharacter, EndBlock, EndDecode, FormInv
<1>8. CASE DecodeAmp
  <2>1. own /\ pc = "decode" /\ encoded' = encoded /\ pc' \in {"decode", "unshift"}
    BY <1>8 DEF DecodeAmp
  <2> QED BY <2>1 DEF FormInv
<1>9. CASE UNCHANGED vars
  BY <1>9 DEF vars, FormInv, Opened, MayShift
<1> QED BY <1>2, <1>3, <1>4, <1>5, <1>6, <1>7, <1>8, <1>9 DEF Next, Terminated

\* What EncodeUTF7 returns is printable, closes every block it opens and never
\* writes two blocks of base64 in a row, so that a mailbox has one name only.
THEOREM AlwaysWellFormed == Spec => []WellFormed
<1>1. Init => TypeOK /\ BitsInv /\ FormInv
  BY InitType, FormInit
<1>2. (TypeOK /\ BitsInv /\ FormInv) /\ [Next]_vars => (TypeOK /\ BitsInv /\ FormInv)'
  BY NextType, FormNext
<1>3. FormInv => WellFormed
  <2> SUFFICES ASSUME FormInv, pc \in {"decode", "done"}, own
               PROVE  /\ \A k \in 1..Len(encoded) : Printable(encoded[k])
                      /\ \A k \in 1..Len(encoded) : encoded[k] = Amp =>
                           \E b \in Blocks : b[1] = k /\ \A m \in k+1 .. b[2]-1 : InAlphabet(encoded[m])
                      /\ \A b, c \in Blocks : c[1] = b[2] + 1 => b[2] = b[1] + 1 \/ c[2] = c[1] + 1
    BY DEF WellFormed
  <2>1. WellFormedName(encoded)
    BY DEF FormInv
  <2>2. BlocksOf(encoded) = Blocks
    BY DEF BlocksOf, Blocks
  <2> QED BY <2>1, <2>2 DEF WellFormedName, Short
<1> QED BY <1>1, <1>2, <1>3, PTL DEF Spec

-----------------------------------------------------------------------------
(* Base64: the sextets of a run of bytes, written and read back.            *)

\* A byte, zeros after the last one.
ByteAt(bs, j) == IF j <= Len(bs) THEN bs[j] ELSE 0

\* Four sextets carry three bytes.
Sextet(bs, g, c) ==
  IF c = 1 THEN ByteAt(bs, 3*g + 1) \div 4
  ELSE IF c = 2 THEN (ByteAt(bs, 3*g + 1) % 4) * 16 + ByteAt(bs, 3*g + 2) \div 16
  ELSE IF c = 3 THEN (ByteAt(bs, 3*g + 2) % 16) * 4 + ByteAt(bs, 3*g + 3) \div 64
  ELSE ByteAt(bs, 3*g + 3) % 64

Carries(q, bs) ==
  \A g \in Nat, c \in 1..4 : 4*g + c <= Len(q) => Value(q[4*g + c]) = Sextet(bs, g, c)

\* No sextet is missing, and none is more than the last byte needs.
Filled(q, bs) ==
  \E g \in Nat, m \in 0..2 : /\ Len(bs) = 3*g + m
                             /\ Len(q) = IF m = 0 THEN 4*g ELSE 4*g + m + 1

LEMMA OnesAppended ==
  ASSUME NEW E, NEW q \in Seq(E), NEW w \in Seq(E)
  PROVE  /\ q \o w \in Seq(E) /\ Len(q \o w) = Len(q) + Len(w)
         /\ Len(w) = 0 => q \o w = q
         /\ Len(w) = 1 => w[1] \in E /\ q \o w = Append(q, w[1])
         /\ Len(w) = 2 => w[1] \in E /\ w[2] \in E /\ q \o w = Append(Append(q, w[1]), w[2])
<1>1. /\ q \o w \in Seq(E) /\ Len(q \o w) = Len(q) + Len(w)
      /\ \A k \in 1..Len(q) : (q \o w)[k] = q[k]
      /\ \A k \in 1..Len(w) : (q \o w)[Len(q) + k] = w[k]
      /\ Len(q) \in Nat /\ \A k \in 1..Len(w) : w[k] \in E
  OBVIOUS
<1>2. Len(w) = 0 => q \o w = q
  OBVIOUS
<1> DEFINE u == q \o w
<1> HIDE DEF u
<1>3. ASSUME NEW a \in E
      PROVE  /\ Append(q, a) \in Seq(E) /\ Len(Append(q, a)) = Len(q) + 1
             /\ Append(q, a)[Len(q) + 1] = a /\ \A k \in 1..Len(q) : Append(q, a)[k] = q[k]
  OBVIOUS
<1>4. ASSUME Len(w) = 1 PROVE w[1] \in E /\ u = Append(q, w[1])
  <2> DEFINE p == Append(q, w[1])
  <2>1. w[1] \in E
    BY <1>1, <1>4
  <2>2. p \in Seq(E) /\ Len(p) = Len(u) /\ \A k \in 1..Len(u) : p[k] = u[k]
    BY <1>1, <1>3, <1>4, <2>1 DEF u
  <2>3. u \in Seq(E)
    BY <1>1 DEF u
  <2> HIDE DEF p
  <2>4. u = p
    BY <2>2, <2>3, SeqEqual
  <2> QED BY <2>1, <2>4 DEF p
<1>5. ASSUME Len(w) = 2 PROVE w[1] \in E /\ w[2] \in E /\ u = Append(Append(q, w[1]), w[2])
  <2> DEFINE p == Append(q, w[1])
             r == Append(p, w[2])
  <2>1. w[1] \in E /\ w[2] \in E
    BY <1>1, <1>5
  <2>2. p \in Seq(E) /\ Len(p) = Len(q) + 1 /\ p[Len(q) + 1] = w[1] /\ \A k \in 1..Len(q) : p[k] = q[k]
    BY <1>3, <2>1
  <2> HIDE DEF p
  <2>3. r \in Seq(E) /\ Len(r) = Len(p) + 1 /\ r[Len(p) + 1] = w[2] /\ \A k \in 1..Len(p) : r[k] = p[k]
    BY <2>1, <2>2
  <2> HIDE DEF r
  <2>4. Len(r) = Len(u) /\ \A k \in 1..Len(u) : r[k] = u[k]
    <3>1. \A k \in 1..Len(u) : k \in 1..Len(q) \/ k = Len(q) + 1 \/ k = Len(q) + 2
      BY <1>1, <1>5 DEF u
    <3>2. u[Len(q) + 1] = w[1] /\ u[Len(q) + 2] = w[2] /\ Len(u) = Len(q) + 2
      BY <1>1, <1>5 DEF u
    <3>3. \A k \in 1..Len(q) : u[k] = q[k]
      BY <1>1 DEF u
    <3>4. r[Len(q) + 1] = w[1] /\ r[Len(q) + 2] = w[2] /\ \A k \in 1..Len(q) : r[k] = q[k]
      BY <1>1, <2>2, <2>3
    <3> QED BY <1>1, <2>2, <2>3, <3>1, <3>2, <3>3, <3>4
  <2>5. u \in Seq(E)
    BY <1>1 DEF u
  <2>6. u = r
    BY <2>3, <2>4, <2>5, SeqEqual
  <2> QED BY <2>1, <2>6 DEF p, r
<1> QED BY <1>1, <1>2, <1>4, <1>5 DEF u

LEMMA OneMoreSextet ==
  ASSUME NEW q \in Seq(Character), NEW bs, Carries(q, bs), NEW e \in Character,
         NEW g \in Nat, NEW c \in 1..4, Len(q) + 1 = 4*g + c, Value(e) = Sextet(bs, g, c)
  PROVE  Carries(Append(q, e), bs)
<1> DEFINE p == Append(q, e)
<1>1. Len(q) \in Nat /\ Len(p) = Len(q) + 1 /\ p[Len(q) + 1] = e
      /\ \A k \in 1..Len(q) : p[k] = q[k]
  OBVIOUS
<1> HIDE DEF p
<1>2. ASSUME NEW h \in Nat, NEW d \in 1..4, 4*h + d <= Len(p)
      PROVE  Value(p[4*h + d]) = Sextet(bs, h, d)
  <2>1. CASE 4*h + d <= Len(q)
    <3>1. 4*h + d \in 1..Len(q)
      BY <1>1, <2>1
    <3>2. p[4*h + d] = q[4*h + d]
      BY <1>1, <3>1
    <3> QED BY <2>1, <3>2 DEF Carries
  <2>2. CASE 4*h + d = Len(q) + 1
    <3>1. h = g /\ d = c
      BY <2>2
    <3> QED BY <1>1, <2>2, <3>1
  <2> QED BY <1>1, <1>2, <2>1, <2>2
<1> QED BY <1>2 DEF Carries, p

\* q holds the sextets of the bytes of bs that are out of block.
WritingAt(q, bs, g, m) ==
  /\ bits = 2*m /\ Len(q) = 4*g + m
  /\ Len(bs) = 3*g + m + Len(block)
  /\ \A k \in 1..Len(block) : block[k] = bs[3*g + m + k]
  /\ m = 1 => acc % 4  = ByteAt(bs, 3*g + 1) % 4
  /\ m = 2 => acc % 16 = ByteAt(bs, 3*g + 2) % 16

Writing(q, bs) == \E g \in Nat, m \in 0..2 : WritingAt(q, bs, g, m)

LEMMA ByteWritten ==
  ASSUME EncodeByte, acc \in Nat, block \in Seq(Byte), NEW q \in Seq(Character), NEW bs \in Seq(Byte),
         Carries(q, bs), Writing(q, bs)
  PROVE  \E w \in Seq(Character) : /\ encoded' = encoded \o w
                                   /\ Carries(q \o w, bs) /\ Writing(q \o w, bs)'
<1>12. PICK g \in Nat, m \in 0..2 : WritingAt(q, bs, g, m)
  BY DEF Writing
<1>1. /\ bits = 2*m /\ Len(q) = 4*g + m
      /\ Len(bs) = 3*g + m + Len(block)
      /\ \A k \in 1..Len(block) : block[k] = bs[3*g + m + k]
      /\ m = 1 => acc % 4  = ByteAt(bs, 3*g + 1) % 4
      /\ m = 2 => acc % 16 = ByteAt(bs, 3*g + 2) % 16
  BY <1>12 DEF WritingAt
<1> DEFINE x == block[1]
           t == Tail(block)
<1>2. /\ x \in Byte /\ Head(block) = x /\ block' = t
      /\ Len(block) \in Nat /\ Len(t) = Len(block) - 1 /\ Len(t) \in Nat
      /\ \A k \in 1..Len(t) : t[k] = block[k+1]
  BY DEF EncodeByte
<1> HIDE DEF x, t
<1>3. bits \in {0, 2, 4}
  BY <1>1
<1>14. WrittenAs(acc, bits, x, Written(acc, bits, x))
  BY <1>2, <1>3, WrittenType
<1>15. PICK w : w = Written(acc, bits, x)
  OBVIOUS
<1>4. /\ encoded' = encoded \o w
      /\ bits' = IF bits = 4 THEN 0 ELSE bits + 2
      /\ acc' % 16 = x % 16 /\ acc' % 4 = x % 4
  BY <1>2, <1>3, <1>15, EncodedByte
<1>5. /\ w \in Seq(Character) /\ Len(w) = IF bits = 4 THEN 2 ELSE 1
      /\ bits = 0 => Value(w[1]) = x \div 4
      /\ bits = 2 => Value(w[1]) = (acc % 4) * 16 + x \div 16
      /\ bits = 4 => /\ Value(w[1]) = (acc % 16) * 4 + x \div 64
                     /\ Value(w[2]) = x % 64
  BY <1>14, <1>15 DEF WrittenAs
<1>13. /\ Len(q \o w) = Len(q) + Len(w)
       /\ Len(w) = 1 => w[1] \in Character /\ q \o w = Append(q, w[1])
       /\ Len(w) = 2 => /\ w[1] \in Character /\ w[2] \in Character
                        /\ q \o w = Append(Append(q, w[1]), w[2])
  <2>1. w \in Seq(Character)
    BY <1>5
  <2> QED BY <2>1, OnesAppended
<1>6. 3*g + m + 1 <= Len(bs) /\ ByteAt(bs, 3*g + m + 1) = x
  <2>1. 1 \in 1..Len(block) /\ 3*g + m + 1 <= Len(bs)
    BY <1>1, <1>2
  <2>2. x = bs[3*g + m + 1]
    BY <1>1, <2>1 DEF x
  <2> QED BY <2>1, <2>2 DEF ByteAt
<1>7. \A k \in 1..Len(t) : t[k] = bs[3*g + m + 1 + k]
  <2> TAKE k \in 1..Len(t)
  <2>1. k+1 \in 1..Len(block) /\ 3*g + m + (k+1) = 3*g + m + 1 + k
    BY <1>2
  <2> QED BY <1>1, <1>2, <2>1
<1>8. Len(bs) = 3*g + m + 1 + Len(t)
  BY <1>1, <1>2
<1>9. CASE bits = 4
  <2>1. m = 2 /\ Len(w) = 2 /\ bits' = 0
    BY <1>1, <1>4, <1>5, <1>9
  <2>2. /\ 3*g + 3 = 3*g + m + 1 /\ ByteAt(bs, 3*g + 3) = x /\ 3*(g+1) + 0 = 3*g + m + 1
        /\ Len(q) + 1 = 4*g + 3 /\ g+1 \in Nat
    BY <1>1, <1>6, <2>1
  <2> DEFINE a == w[1]
             b == w[2]
             p == Append(q, a)
  <2>3. a \in Character /\ b \in Character
    BY <1>13, <2>1
  <2>4. Value(a) = Sextet(bs, g, 3)
    <3>1. Value(a) = (ByteAt(bs, 3*g + 2) % 16) * 4 + ByteAt(bs, 3*g + 3) \div 64
      BY <1>1, <1>5, <1>9, <2>1, <2>2
    <3> QED BY <3>1 DEF Sextet
  <2>5. Value(b) = Sextet(bs, g, 4)
    <3>1. Value(b) = ByteAt(bs, 3*g + 3) % 64
      BY <1>5, <1>9, <2>2
    <3> QED BY <3>1 DEF Sextet
  <2>6. q \o w = Append(p, b)
    BY <1>13, <2>1
  <2> HIDE DEF a, b
  <2>7. Carries(p, bs)
    BY <2>2, <2>3, <2>4, OneMoreSextet
  <2>8. p \in Seq(Character) /\ Len(p) + 1 = 4*g + 4
    BY <2>2, <2>3
  <2> HIDE DEF p
  <2>9. Carries(Append(p, b), bs)
    BY <2>3, <2>5, <2>7, <2>8, OneMoreSextet
  <2>10. Len(q \o w) = 4*(g+1) + 0
    BY <1>13, <1>1, <2>1
  <2>11. Writing(q \o w, bs)'
    <3> DEFINE r == q \o w
    <3>1. /\ bits' = 2*0 /\ Len(r) = 4*(g+1) + 0
          /\ Len(bs) = 3*(g+1) + 0 + Len(block')
          /\ \A k \in 1..Len(block') : block'[k] = bs[3*(g+1) + 0 + k]
      BY <1>2, <1>7, <1>8, <2>1, <2>2, <2>10
    <3> HIDE DEF r
    <3>2. WritingAt(r, bs, g+1, 0)'
      BY <3>1 DEF WritingAt
    <3>3. Writing(r, bs)'
      BY <2>2, <3>2 DEF Writing
    <3> QED BY <3>3 DEF r
  <2> HIDE DEF p
  <2> QED BY <1>4, <1>5, <2>6, <2>9, <2>11
<1>10. CASE bits # 4
  <2>1. m \in 0..1 /\ m+1 \in 0..2 /\ Len(w) = 1 /\ bits' = 2*(m+1)
    BY <1>1, <1>4, <1>5, <1>10
  <2> DEFINE a == w[1]
  <2>2. a \in Character /\ q \o w = Append(q, a)
    BY <1>13, <2>1
  <2>3. Value(a) = Sextet(bs, g, m+1)
    <3>1. CASE m = 0
      <4>1. Value(a) = ByteAt(bs, 3*g + 1) \div 4
        BY <1>1, <1>5, <1>6, <3>1
      <4> QED BY <3>1, <4>1 DEF Sextet
    <3>2. CASE m = 1
      <4>1. ByteAt(bs, 3*g + 2) = x
        BY <1>6, <3>2
      <4>2. Value(a) = (ByteAt(bs, 3*g + 1) % 4) * 16 + ByteAt(bs, 3*g + 2) \div 16
        BY <1>1, <1>5, <3>2, <4>1
      <4> QED BY <3>2, <4>2 DEF Sextet
    <3> QED BY <2>1, <3>1, <3>2
  <2>4. q \o w = Append(q, a)
    BY <2>2
  <2>5. Len(q) + 1 = 4*g + (m+1) /\ m+1 \in 1..4
    BY <1>1, <2>1
  <2> HIDE DEF a
  <2>6. Carries(Append(q, a), bs)
    BY <2>2, <2>3, <2>5, OneMoreSextet
  <2>7. Len(q \o w) = 4*g + (m+1)
    BY <1>13, <2>1, <2>5
  <2>8. Writing(q \o w, bs)'
    <3> DEFINE r == q \o w
               n == m+1
    <3>1. /\ bits' = 2*n /\ Len(r) = 4*g + n
          /\ Len(bs) = 3*g + n + Len(block')
          /\ \A k \in 1..Len(block') : block'[k] = bs[3*g + n + k]
      BY <1>2, <1>7, <1>8, <2>1, <2>7
    <3>2. /\ n = 1 => acc' % 4  = ByteAt(bs, 3*g + 1) % 4
          /\ n = 2 => acc' % 16 = ByteAt(bs, 3*g + 2) % 16
      <4>1. ByteAt(bs, 3*g + n) = x
        <5>1. 3*g + n = 3*g + m + 1
          BY <2>1
        <5> HIDE DEF n
        <5> QED BY <1>6, <5>1
      <4> HIDE DEF n
      <4> QED BY <1>4, <4>1
    <3>3. n \in 0..2
      BY <2>1
    <3> HIDE DEF r, n
    <3>4. WritingAt(r, bs, g, n)'
      BY <3>1, <3>2 DEF WritingAt
    <3>5. Writing(r, bs)'
      BY <3>3, <3>4 DEF Writing
    <3> QED BY <3>5 DEF r
  <2> QED BY <1>4, <1>5, <2>4, <2>6, <2>8
<1> QED BY <1>9, <1>10

\* The padded bits make the block whole.
LEMMA RestWritten ==
  ASSUME EndRun, acc \in Nat, NEW q \in Seq(Character), NEW bs \in Seq(Byte),
         Carries(q, bs), Writing(q, bs)
  PROVE  \E w \in Seq(Character) : /\ encoded' = (encoded \o w) \o <<Minus>>
                                   /\ Carries(q \o w, bs) /\ Filled(q \o w, bs)
<1>12. PICK g \in Nat, m \in 0..2 : WritingAt(q, bs, g, m)
  BY DEF Writing
<1>1. /\ bits = 2*m /\ Len(q) = 4*g + m
      /\ Len(bs) = 3*g + m + Len(block)
      /\ m = 1 => acc % 4  = ByteAt(bs, 3*g + 1) % 4
      /\ m = 2 => acc % 16 = ByteAt(bs, 3*g + 2) % 16
  BY <1>12 DEF WritingAt
<1>2. Len(bs) = 3*g + m
  <2>1. Len(block) = 0
    BY DEF EndRun
  <2> QED BY <1>1, <2>1
<1>3. bits \in {0, 2, 4}
  BY <1>1
<1>4. PICK w \in Seq(Character) : Flushed(w)
  BY <1>3, EncodedRest
<1>5. /\ encoded' = (encoded \o w) \o <<Minus>>
      /\ Len(w) = IF bits = 0 THEN 0 ELSE 1
      /\ bits = 2 => Value(w[1]) = (acc % 4) * 16
      /\ bits = 4 => Value(w[1]) = (acc % 16) * 4
  BY <1>4 DEF Flushed
<1>6. CASE m = 0
  <2>1. Len(w) = 0
    BY <1>1, <1>5, <1>6
  <2>2. q \o w = q
    BY <2>1, OnesAppended
  <2>3. Filled(q, bs)
    BY <1>1, <1>2, <1>6 DEF Filled
  <2> QED BY <1>5, <2>2, <2>3
<1>7. CASE m # 0
  <2> DEFINE a == w[1]
  <2>9. Len(w) = 1
    BY <1>1, <1>5, <1>7
  <2>1. a \in Character
    BY <2>9, OnesAppended
  <2>2. q \o w = Append(q, a)
    BY <2>9, OnesAppended
  <2>3. ByteAt(bs, 3*g + m + 1) = 0
    BY <1>2 DEF ByteAt
  <2>4. Value(a) = Sextet(bs, g, m+1)
    <3>1. CASE m = 1
      <4>1. ByteAt(bs, 3*g + 2) = 0
        BY <2>3, <3>1
      <4>2. Value(a) = (ByteAt(bs, 3*g + 1) % 4) * 16 + ByteAt(bs, 3*g + 2) \div 16
        BY <1>1, <1>5, <3>1, <4>1
      <4> QED BY <3>1, <4>2 DEF Sextet
    <3>2. CASE m = 2
      <4>1. ByteAt(bs, 3*g + 3) = 0
        BY <2>3, <3>2
      <4>2. Value(a) = (ByteAt(bs, 3*g + 2) % 16) * 4 + ByteAt(bs, 3*g + 3) \div 64
        BY <1>1, <1>5, <3>2, <4>1
      <4> QED BY <3>2, <4>2 DEF Sextet
    <3> QED BY <1>7, <3>1, <3>2
  <2>5. Len(q) + 1 = 4*g + (m+1) /\ m+1 \in 1..4
    BY <1>1
  <2>6. Len(Append(q, a)) = 4*g + m + 1
    BY <1>1
  <2> HIDE DEF a
  <2>7. Carries(Append(q, a), bs)
    BY <2>1, <2>4, <2>5, OneMoreSextet
  <2>8. Filled(Append(q, a), bs)
    BY <1>2, <1>7, <2>6 DEF Filled
  <2> QED BY <1>5, <2>2, <2>7, <2>8
<1> QED BY <1>6, <1>7
\* bytes holds what the sextets of q that are out of block carry in full.
ReadingAt(q, bs, g, c) ==
  /\ 4*g + c + Len(block) = Len(q)
  /\ \A j \in 1..Len(block) : block[j] = q[4*g + c + j]
  /\ bits = IF c = 0 THEN 0 ELSE 8 - 2*c
  /\ Len(bytes) = IF c = 0 THEN 3*g ELSE 3*g + c - 1
  /\ \A j \in 1..Len(bytes) : bytes[j] = ByteAt(bs, j)
  /\ c = 1 => acc % 64 = Sextet(bs, g, 1)
  /\ c = 2 => acc % 16 = Sextet(bs, g, 2) % 16
  /\ c = 3 => acc % 4  = Sextet(bs, g, 3) % 4

Reading(q, bs) == \E g \in Nat, c \in 0..3 : ReadingAt(q, bs, g, c)

LEMMA ByteAtType ==
  ASSUME NEW bs \in Seq(Byte), NEW j \in Nat \ {0}
  PROVE  ByteAt(bs, j) \in 0..255
<1>1. Len(bs) \in Nat /\ \A k \in 1..Len(bs) : bs[k] \in Byte
  OBVIOUS
<1>2. j <= Len(bs) => j \in 1..Len(bs)
  BY <1>1
<1> QED BY <1>1, <1>2 DEF ByteAt, Byte

\* Two sextets give the byte they share.
LEMMA ByteOfSextets ==
  ASSUME NEW bs \in Seq(Byte), NEW g \in Nat
  PROVE  /\ \A a \in Nat : a % 64 = Sextet(bs, g, 1) =>
              (a % 64) * 4 + Sextet(bs, g, 2) \div 16 = ByteAt(bs, 3*g + 1)
         /\ \A a \in Nat : a % 16 = Sextet(bs, g, 2) % 16 =>
              (a % 16) * 16 + Sextet(bs, g, 3) \div 4 = ByteAt(bs, 3*g + 2)
         /\ \A a \in Nat : a % 4 = Sextet(bs, g, 3) % 4 =>
              (a % 4) * 64 + Sextet(bs, g, 4) = ByteAt(bs, 3*g + 3)
<1> DEFINE x == ByteAt(bs, 3*g + 1)
           y == ByteAt(bs, 3*g + 2)
           z == ByteAt(bs, 3*g + 3)
<1>1. x \in 0..255 /\ y \in 0..255 /\ z \in 0..255
  BY ByteAtType
<1>2. /\ Sextet(bs, g, 1) = x \div 4 /\ Sextet(bs, g, 2) = (x % 4) * 16 + y \div 16
      /\ Sextet(bs, g, 3) = (y % 16) * 4 + z \div 64 /\ Sextet(bs, g, 4) = z % 64
  BY DEF Sextet
<1> HIDE DEF x, y, z
<1>3. (x \div 4) * 4 + ((x % 4) * 16 + y \div 16) \div 16 = x
  BY <1>1
<1>4. ((((x % 4) * 16 + y \div 16) % 16) * 16) + ((y % 16) * 4 + z \div 64) \div 4 = y
  BY <1>1
<1>5. (((y % 16) * 4 + z \div 64) % 4) * 64 + (z % 64) = z
  BY <1>1
<1> QED BY <1>2, <1>3, <1>4, <1>5 DEF x, y, z

LEMMA SextetRead ==
  ASSUME DecodeSextet, acc \in Nat, bytes \in Seq(Byte), block \in Seq(Byte),
         NEW q \in Seq(Character), NEW bs \in Seq(Byte), Carries(q, bs), Reading(q, bs)
  PROVE  Reading(q, bs)'
<1>1. PICK g \in Nat, c \in 0..3 : ReadingAt(q, bs, g, c)
  BY DEF Reading
<1>2. /\ 4*g + c + Len(block) = Len(q)
      /\ \A j \in 1..Len(block) : block[j] = q[4*g + c + j]
      /\ bits = IF c = 0 THEN 0 ELSE 8 - 2*c
      /\ Len(bytes) = IF c = 0 THEN 3*g ELSE 3*g + c - 1
      /\ \A j \in 1..Len(bytes) : bytes[j] = ByteAt(bs, j)
      /\ c = 1 => acc % 64 = Sextet(bs, g, 1)
      /\ c = 2 => acc % 16 = Sextet(bs, g, 2) % 16
      /\ c = 3 => acc % 4  = Sextet(bs, g, 3) % 4
  BY <1>1 DEF ReadingAt
<1> DEFINE e == block[1]
           t == Tail(block)
<1>3. /\ Head(block) = e /\ block' = t
      /\ Len(block) \in Nat /\ Len(t) = Len(block) - 1 /\ Len(t) \in Nat
      /\ \A k \in 1..Len(t) : t[k] = block[k+1]
  BY DEF DecodeSextet
<1> HIDE DEF e, t
<1>4. 4*g + c + 1 \in 1..Len(q) /\ e = q[4*g + c + 1] /\ e \in Character
  <2>1. 1 \in 1..Len(block) /\ 4*g + c + 1 \in 1..Len(q)
    BY <1>2, <1>3
  <2>2. e = q[4*g + c + 1]
    BY <1>2, <2>1 DEF e
  <2> QED BY <2>1, <2>2
<1> DEFINE v == Value(e)
<1>5. v = Sextet(bs, g, c+1) /\ v \in 0..63
  <2>1. c+1 \in 1..4 /\ 4*g + (c+1) = 4*g + c + 1
    OBVIOUS
  <2>2. 4*g + (c+1) <= Len(q) /\ q[4*g + (c+1)] = e
    BY <1>4, <2>1
  <2>3. v = Sextet(bs, g, c+1)
    BY <2>1, <2>2 DEF Carries
  <2> QED BY <1>4, <2>3, Characters
<1>6. bits \in {0, 2, 4, 6}
  BY <1>2
<1>7. /\ bits' = IF bits = 0 THEN 6 ELSE bits - 2
      /\ acc' % 64 = v /\ acc' % 16 = v % 16 /\ acc' % 4 = v % 4
      /\ bits = 0 => bytes' = bytes
      /\ bits = 6 => bytes' = Append(bytes, (acc % 64) * 4 + v \div 16)
      /\ bits = 4 => bytes' = Append(bytes, (acc % 16) * 16 + v \div 4)
      /\ bits = 2 => bytes' = Append(bytes, (acc % 4) * 64 + v)
  BY <1>3, <1>4, <1>6, DecodedSextet
<1> HIDE DEF v
<1>8. \A k \in 1..Len(t) : t[k] = q[4*g + c + 1 + k]
  <2> TAKE k \in 1..Len(t)
  <2>1. k+1 \in 1..Len(block) /\ 4*g + c + (k+1) = 4*g + c + 1 + k
    BY <1>3
  <2> QED BY <1>2, <1>3, <2>1
<1>9. Len(q) = 4*g + c + 1 + Len(t)
  <2>1. 4*g + c + Len(block) = Len(q)
    BY <1>2
  <2>2. Len(block) \in Nat /\ Len(t) = Len(block) - 1
    BY <1>3
  <2> QED BY <2>1, <2>2
<1>10. ASSUME NEW b, bytes' = Append(bytes, b), b = ByteAt(bs, Len(bytes) + 1)
       PROVE  Len(bytes') = Len(bytes) + 1 /\ \A j \in 1..Len(bytes') : bytes'[j] = ByteAt(bs, j)
  <2> DEFINE r == Append(bytes, b)
  <2>1. Len(bytes) + 1 \in Nat \ {0}
    OBVIOUS
  <2>2. b \in Byte
    BY <1>10, <2>1, ByteAtType DEF Byte
  <2>3. /\ Len(bytes) \in Nat /\ Len(r) = Len(bytes) + 1 /\ r[Len(bytes) + 1] = b
        /\ \A j \in 1..Len(bytes) : r[j] = bytes[j]
    BY <2>2
  <2> HIDE DEF r
  <2>4. \A j \in 1..Len(r) : j \in 1..Len(bytes) \/ j = Len(bytes) + 1
    BY <2>3
  <2>5. \A j \in 1..Len(r) : r[j] = ByteAt(bs, j)
    BY <1>2, <1>10, <2>3, <2>4
  <2> QED BY <1>10, <2>3, <2>5 DEF r
<1>11. CASE c = 0
  <2>1. bits' = 6 /\ bytes' = bytes /\ acc' % 64 = Sextet(bs, g, 1)
    BY <1>2, <1>5, <1>7, <1>11
  <2>2. ReadingAt(q, bs, g, 1)'
    BY <1>2, <1>3, <1>8, <1>9, <1>11, <2>1 DEF ReadingAt
  <2> QED BY <2>2 DEF Reading
<1>12. CASE c = 1
  <2>1. bytes' = Append(bytes, (acc % 64) * 4 + v \div 16) /\ bits' = 4
    BY <1>2, <1>7, <1>12
  <2>2. (acc % 64) * 4 + v \div 16 = ByteAt(bs, 3*g + 1)
    BY <1>2, <1>5, <1>12, ByteOfSextets
  <2>3. Len(bytes) + 1 = 3*g + 1
    BY <1>2, <1>12
  <2>4. Len(bytes') = 3*g + 1 /\ \A j \in 1..Len(bytes') : bytes'[j] = ByteAt(bs, j)
    BY <1>10, <2>1, <2>2, <2>3
  <2>5. acc' % 16 = Sextet(bs, g, 2) % 16
    BY <1>5, <1>7, <1>12
  <2>6. ReadingAt(q, bs, g, 2)'
    BY <1>3, <1>8, <1>9, <1>12, <2>1, <2>4, <2>5 DEF ReadingAt
  <2> QED BY <2>6 DEF Reading
<1>13. CASE c = 2
  <2>1. bytes' = Append(bytes, (acc % 16) * 16 + v \div 4) /\ bits' = 2
    BY <1>2, <1>7, <1>13
  <2>2. (acc % 16) * 16 + v \div 4 = ByteAt(bs, 3*g + 2)
    BY <1>2, <1>5, <1>13, ByteOfSextets
  <2>3. Len(bytes) + 1 = 3*g + 2
    BY <1>2, <1>13
  <2>4. Len(bytes') = 3*g + 2 /\ \A j \in 1..Len(bytes') : bytes'[j] = ByteAt(bs, j)
    BY <1>10, <2>1, <2>2, <2>3
  <2>5. acc' % 4 = Sextet(bs, g, 3) % 4
    BY <1>5, <1>7, <1>13
  <2>6. ReadingAt(q, bs, g, 3)'
    BY <1>3, <1>8, <1>9, <1>13, <2>1, <2>4, <2>5 DEF ReadingAt
  <2> QED BY <2>6 DEF Reading
<1>14. CASE c = 3
  <2>1. bytes' = Append(bytes, (acc % 4) * 64 + v) /\ bits' = 0
    BY <1>2, <1>7, <1>14
  <2>2. (acc % 4) * 64 + v = ByteAt(bs, 3*g + 3)
    BY <1>2, <1>5, <1>14, ByteOfSextets
  <2>3. Len(bytes) + 1 = 3*g + 3
    BY <1>2, <1>14
  <2>4. Len(bytes') = 3*g + 3 /\ \A j \in 1..Len(bytes') : bytes'[j] = ByteAt(bs, j)
    BY <1>10, <2>1, <2>2, <2>3
  <2>5. /\ g+1 \in Nat /\ 4*g + c + 1 = 4*(g+1) + 0 /\ 3*g + 3 = 3*(g+1)
        /\ \A k : 4*g + c + 1 + k = 4*(g+1) + 0 + k
    BY <1>14
  <2> DEFINE h == g+1
  <2>6. /\ 4*h + 0 + Len(t) = Len(q)
        /\ \A j \in 1..Len(t) : t[j] = q[4*h + 0 + j]
        /\ Len(bytes') = 3*h
    BY <1>8, <1>9, <2>4, <2>5
  <2> HIDE DEF h
  <2>7. ReadingAt(q, bs, h, 0)'
    BY <1>3, <2>1, <2>4, <2>6 DEF ReadingAt
  <2> QED BY <2>5, <2>7 DEF Reading, h
<1> QED BY <1>11, <1>12, <1>13, <1>14

\* The block holds characters only, and in the end every byte has been read.
LEMMA AllRead ==
  ASSUME block \in Seq(Byte), bytes \in Seq(Byte),
         NEW q \in Seq(Character), NEW bs \in Seq(Byte), Reading(q, bs)
  PROVE  /\ block # <<>> => InAlphabet(Head(block))
         /\ block = <<>> /\ Filled(q, bs) => bytes = bs
<1>1. PICK g \in Nat, c \in 0..3 : ReadingAt(q, bs, g, c)
  BY DEF Reading
<1> DEFINE Count(a, d) == 4*a + d
<1>4. \A a, b \in Nat, d, e \in 0..3 : Count(a, d) = Count(b, e) => a = b /\ d = e
  <2> TAKE a, b \in Nat, d, e \in 0..3
  <2> SUFFICES ASSUME 4*a + d = 4*b + e PROVE a = b /\ d = e
    OBVIOUS
  <2>1. ~ a < b /\ ~ b < a
    OBVIOUS
  <2>2. a = b
    BY <2>1
  <2> QED BY <2>2
<1> HIDE DEF Count
<1>2. ASSUME block # <<>> PROVE InAlphabet(Head(block))
  <2>1. 1 \in 1..Len(block) /\ Head(block) = block[1]
    BY <1>2
  <2>2. Head(block) = q[4*g + c + 1] /\ 4*g + c + 1 \in 1..Len(q)
    BY <1>1, <2>1 DEF ReadingAt
  <2>3. q[4*g + c + 1] \in Character
    BY <2>2
  <2> QED BY <2>2, <2>3, Characters
<1>3. ASSUME block = <<>>, Filled(q, bs) PROVE bytes = bs
  <2>1. PICK h \in Nat, m \in 0..2 : /\ Len(bs) = 3*h + m
                                     /\ Len(q) = IF m = 0 THEN 4*h ELSE 4*h + m + 1
    BY <1>3 DEF Filled
  <2>2. 4*g + c = Len(q)
    <3>1. Len(block) = 0
      BY <1>3
    <3> QED BY <1>1, <3>1 DEF ReadingAt
  <2>3. g = h /\ (c = IF m = 0 THEN 0 ELSE m+1)
    <3>1. CASE m = 0
      <4>1. Len(q) = 4*h + 0
        BY <2>1, <3>1
      <4>2. Count(g, c) = Count(h, 0)
        BY <2>2, <4>1 DEF Count
      <4>3. g = h /\ c = 0
        BY <1>4, <4>2
      <4> QED BY <3>1, <4>3
    <3>2. CASE m # 0
      <4>1. Len(q) = 4*h + (m+1) /\ m+1 \in 1..3
        BY <2>1, <3>2
      <4>2. Count(g, c) = Count(h, m+1)
        BY <2>2, <4>1 DEF Count
      <4>3. g = h /\ c = m+1
        <5>1. m+1 \in 0..3
          BY <4>1
        <5> QED BY <1>4, <4>2, <5>1
      <4> QED BY <3>2, <4>3
    <3> QED BY <3>1, <3>2
  <2>4. Len(bytes) = Len(bs)
    <3>1. Len(bytes) = IF c = 0 THEN 3*g ELSE 3*g + c - 1
      BY <1>1 DEF ReadingAt
    <3> QED BY <2>1, <2>3, <3>1
  <2>5. \A j \in 1..Len(bytes) : bytes[j] = bs[j]
    <3>1. \A j \in 1..Len(bytes) : bytes[j] = ByteAt(bs, j)
      BY <1>1 DEF ReadingAt
    <3>2. \A j \in 1..Len(bytes) : j <= Len(bs)
      BY <2>4
    <3> QED BY <3>1, <3>2 DEF ByteAt
  <2> QED BY <2>4, <2>5, SeqEqual
<1> QED BY <1>2, <1>3
-----------------------------------------------------------------------------
(* An encoded name as a sequence of pieces: the text each one stands for,  *)
(* and its code.                                                           *)

IsPlain(p) == \E r \in Ascii : r # Amp /\ p.text = <<r>> /\ p.code = <<r>>

Holds(q, run) == q # <<>> /\ Carries(q, BytesOf(run)) /\ Filled(q, BytesOf(run))

IsShift(p) == \E q \in Seq(Character) :
                /\ p.code = Shift(q)
                /\ (q = <<>> /\ p.text = <<Amp>>) \/ Holds(q, p.text)

Piece == {p \in [text : Seq(Rune), code : Seq(Ascii)] : IsPlain(p) \/ IsShift(p)}

TextOf == [p \in Piece |-> p.text]
CodeOf == [p \in Piece |-> p.code]
Text(ps) == Each(TextOf, ps)
Code(ps) == Each(CodeOf, ps)

LEMMA PieceType ==
  /\ TextOf \in [Piece -> Seq(Rune)] /\ CodeOf \in [Piece -> Seq(Ascii)]
  /\ \A p \in Piece : TextOf[p] = p.text /\ CodeOf[p] = p.code
  /\ \A p \in Piece : p.text \in Seq(Rune) /\ p.code \in Seq(Ascii)
<1>1. \A p \in Piece : p.text \in Seq(Rune) /\ p.code \in Seq(Ascii)
  BY DEF Piece
<1> QED BY <1>1 DEF TextOf, CodeOf

LEMMA PiecesStrings ==
  ASSUME NEW ps \in Seq(Piece)
  PROVE  Text(ps) \in Seq(Rune) /\ Code(ps) \in Seq(Ascii)
<1>1. Each(TextOf, ps) \in Seq(Rune)
  BY PieceType, EachType
<1>2. Each(CodeOf, ps) \in Seq(Ascii)
  BY PieceType, EachType
<1> QED BY <1>1, <1>2 DEF Text, Code

\* One more piece behind.
Added(ps, p) ==
  /\ Append(ps, p) \in Seq(Piece)
  /\ Text(Append(ps, p)) = Text(ps) \o p.text
  /\ Code(Append(ps, p)) = Code(ps) \o p.code

LEMMA PieceAdded ==
  ASSUME NEW ps \in Seq(Piece), NEW p \in Piece
  PROVE  Added(ps, p)
<1>1. Extended(TextOf, ps, p) /\ Extended(CodeOf, ps, p)
  BY PieceType, EachAppend
<1>2. TextOf[p] = p.text /\ CodeOf[p] = p.code
  BY PieceType
<1>3. Append(ps, p) \in Seq(Piece)
  OBVIOUS
<1> QED BY <1>1, <1>2, <1>3 DEF Added, Extended, Text, Code

\* The piece in front.
Taken(ps, p, rest) ==
  /\ p \in Piece /\ rest \in Seq(Piece)
  /\ Text(ps) = p.text \o Text(rest)
  /\ Code(ps) = p.code \o Code(rest)

LEMMA PieceTaken ==
  ASSUME NEW ps \in Seq(Piece), ps # <<>>
  PROVE  Taken(ps, ps[1], Tail(ps))
<1> DEFINE p == ps[1]
           rest == Tail(ps)
           one == <<p>>
<1>1. p \in Piece /\ rest \in Seq(Piece) /\ ps = one \o rest
  BY CutFirst
<1> HIDE DEF p, rest
<1>2. one \in Seq(Piece)
  BY <1>1
<1>3. Each(TextOf, one) = p.text /\ Each(CodeOf, one) = p.code
  <2> USE DEF one
  <2>3. TextOf \in [Piece -> Seq(Rune)] /\ CodeOf \in [Piece -> Seq(Ascii)] /\ p \in Piece
    BY <1>1, PieceType
  <2>1. Each(TextOf, one) = TextOf[p]
    BY <2>3, EachOne
  <2>2. Each(CodeOf, one) = CodeOf[p]
    BY <2>3, EachOne
  <2> QED BY <1>1, <2>1, <2>2, PieceType
<1> HIDE DEF one
<1>4. Distributes(TextOf, one, rest) /\ Distributes(CodeOf, one, rest)
  BY <1>1, <1>2, PieceType, EachConcat
<1>5. Text(ps) = p.text \o Text(rest) /\ Code(ps) = p.code \o Code(rest)
  BY <1>1, <1>3, <1>4 DEF Distributes, Text, Code
<1> QED BY <1>1, <1>5 DEF Taken, p, rest

LEMMA NoPieces == Text(<<>>) = <<>> /\ Code(<<>>) = <<>>
BY EachEmpty DEF Text, Code

\* A piece is told by its first character.
LEMMA FirstOfPiece ==
  ASSUME NEW p \in Piece
  PROVE  /\ p.code # <<>> /\ Len(p.code) \in Nat \ {0}
         /\ p.code[1] # Amp => p.text = <<p.code[1]>> /\ p.code = <<p.code[1]>>
         /\ p.code[1] = Amp => IsShift(p)
<1>1. CASE IsPlain(p)
  BY <1>1 DEF IsPlain
<1>2. CASE IsShift(p)
  <2>1. PICK q \in Seq(Character) : p.code = Shift(q)
    BY <1>2 DEF IsShift
  <2>2. Len(p.code) = Len(q) + 2 /\ p.code[1] = Amp /\ Len(q) \in Nat
    BY <2>1, ShiftIs
  <2>3. p.code # <<>>
    <3>1. p.code \in Seq(Ascii)
      BY PieceType
    <3> QED BY <2>2, <3>1
  <2> QED BY <1>2, <2>2, <2>3
<1> QED BY <1>1, <1>2 DEF Piece

\* A string cut at two places.
LEMMA CutTwice ==
  ASSUME NEW E, NEW s \in Seq(E), NEW a \in 1 .. Len(s) + 1, NEW b \in a .. Len(s) + 1
  PROVE  SubSeq(s, 1, b-1) = SubSeq(s, 1, a-1) \o SubSeq(s, a, b-1)
<1> DEFINE u == SubSeq(s, 1, b-1)
           v == SubSeq(s, 1, a-1)
           w == SubSeq(s, a, b-1)
<1>1. Len(s) \in Nat /\ a \in Nat /\ b \in Nat /\ a-1 \in 0..Len(s) /\ b-1 \in 0..Len(s)
      /\ 1 \in 1 .. Len(s) + 1 /\ b-1 \in a-1 .. Len(s)
  OBVIOUS
<1>2. u \in Seq(E) /\ Len(u) = b-1 /\ \A k \in 1 .. b-1 : u[k] = s[k]
  <2>1. /\ SubSeq(s, 1, b-1) \in Seq(E) /\ Len(SubSeq(s, 1, b-1)) = (b-1) - 1 + 1
        /\ \A k \in 1 .. (b-1) - 1 + 1 : SubSeq(s, 1, b-1)[k] = s[1 + k - 1]
    BY <1>1, Part
  <2>2. (b-1) - 1 + 1 = b-1 /\ \A k \in 1 .. b-1 : 1 + k - 1 = k
    BY <1>1
  <2> QED BY <2>1, <2>2
<1>3. v \in Seq(E) /\ Len(v) = a-1 /\ \A k \in 1 .. a-1 : v[k] = s[k]
  <2>1. /\ SubSeq(s, 1, a-1) \in Seq(E) /\ Len(SubSeq(s, 1, a-1)) = (a-1) - 1 + 1
        /\ \A k \in 1 .. (a-1) - 1 + 1 : SubSeq(s, 1, a-1)[k] = s[1 + k - 1]
    BY <1>1, Part
  <2>2. (a-1) - 1 + 1 = a-1 /\ \A k \in 1 .. a-1 : 1 + k - 1 = k
    BY <1>1
  <2> QED BY <2>1, <2>2
<1>4. w \in Seq(E) /\ Len(w) = b - a /\ \A k \in 1 .. b - a : w[k] = s[a + k - 1]
  <2>1. /\ SubSeq(s, a, b-1) \in Seq(E) /\ Len(SubSeq(s, a, b-1)) = (b-1) - a + 1
        /\ \A k \in 1 .. (b-1) - a + 1 : SubSeq(s, a, b-1)[k] = s[a + k - 1]
    BY <1>1, Part
  <2>2. (b-1) - a + 1 = b - a
    BY <1>1
  <2> QED BY <2>1, <2>2
<1> HIDE DEF u, v, w
<1> DEFINE x == v \o w
<1>5. /\ x \in Seq(E) /\ Len(x) = b-1
      /\ \A k \in 1 .. a-1 : x[k] = v[k]
      /\ \A k \in a .. b-1 : x[k] = w[k - (a-1)]
  <2>1. x \in Seq(E) /\ Len(x) = Len(v) + Len(w)
    BY <1>3, <1>4
  <2>2. \A k \in 1..Len(v) : x[k] = v[k]
    BY <1>3, <1>4
  <2>3. \A k \in 1..Len(w) : x[Len(v) + k] = w[k]
    BY <1>3, <1>4
  <2>4. \A k \in a .. b-1 : k - (a-1) \in 1..Len(w) /\ Len(v) + (k - (a-1)) = k
    <3>1. Len(v) = a-1 /\ Len(w) = b-a /\ a \in Nat /\ b \in Nat
      BY <1>1, <1>3, <1>4
    <3> QED BY <3>1
  <2> HIDE DEF x
  <2>5. \A k \in a .. b-1 : x[k] = w[k - (a-1)]
    BY <2>3, <2>4
  <2> QED BY <1>1, <1>3, <1>4, <2>1, <2>2, <2>5
<1> HIDE DEF x
<1>6. \A k \in 1 .. b-1 : x[k] = u[k]
  <2> TAKE k \in 1 .. b-1
  <2>1. CASE k \in 1 .. a-1
    BY <1>2, <1>3, <1>5, <2>1
  <2>2. CASE k \in a .. b-1
    <3>1. k - (a-1) \in 1 .. b - a /\ a + (k - (a-1)) - 1 = k
      BY <1>1, <2>2
    <3>2. w[k - (a-1)] = s[k]
      BY <1>4, <3>1
    <3> QED BY <1>2, <1>5, <2>2, <3>2
  <2> QED BY <1>1, <2>1, <2>2
<1>7. x = u
  BY <1>2, <1>5, <1>6, SeqEqual
<1> QED BY <1>7 DEF u, v, w, x
-----------------------------------------------------------------------------
(* The name that is encoded comes back.                                    *)

\* The name up to i is in encoded.
Encoded(ps) == encoded = Code(ps) /\ SubSeq(name, 1, i-1) = Text(ps)

\* The name up to i is in encoded but for the last run, whose block is open.
Encoding(ps, q, run) ==
  /\ encoded = Code(ps) \o (<<Amp>> \o q)
  /\ SubSeq(name, 1, i-1) = Text(ps) \o run
  /\ run # <<>> /\ Carries(q, BytesOf(run)) /\ Writing(q, BytesOf(run))

\* The pieces from i on are still to be decoded.
Ahead(front, ps) == encoded = front \o Code(ps) /\ i = Len(front) + 1

Decoding(front, ps) == Ahead(front, ps) /\ name = decoded \o Text(ps)

\* So is the run in the block.
Unshifting(front, ps, q, run) ==
  /\ Ahead(front, ps)
  /\ name = decoded \o (run \o Text(ps))
  /\ Holds(q, run) /\ Reading(q, BytesOf(run))

NameInv ==
  own =>
    /\ pc \in {"encode", "shift"} => decoded = <<>>
    /\ pc = "encode" => \E ps \in Seq(Piece) : Encoded(ps)
    /\ pc = "shift" => \E ps \in Seq(Piece), q \in Seq(Character), run \in Seq(Rune) :
                         Encoding(ps, q, run)
    /\ pc = "decode" => \E front \in Seq(Ascii), ps \in Seq(Piece) : Decoding(front, ps)
    /\ pc = "unshift" => \E front \in Seq(Ascii), ps \in Seq(Piece),
                            q \in Seq(Character), run \in Seq(Rune) :
                           Unshifting(front, ps, q, run)
    /\ pc = "done" => decoded = name

LEMMA NameInit == Init => NameInv
<1> SUFFICES ASSUME Init, own PROVE NameInv
  BY DEF NameInv
<1>1. pc = "encode" /\ encoded = <<>> /\ decoded = <<>> /\ i = 1 /\ name \in Seq(Rune)
  BY InputAssumption DEF Init
<1>2. SubSeq(name, 1, i-1) = <<>>
  <2>1. SubSeq(name, 1, 0) = <<>>
    BY <1>1
  <2>2. i-1 = 0
    BY <1>1
  <2> QED BY <2>1, <2>2
<1>3. Encoded(<<>>)
  BY <1>1, <1>2, NoPieces DEF Encoded
<1>4. <<>> \in Seq(Piece)
  OBVIOUS
<1> QED BY <1>1, <1>3, <1>4 DEF NameInv

\* One more piece of the name is encoded, and the index is behind it.
LEMMA OneMorePiece ==
  ASSUME NEW ps \in Seq(Piece), NEW p \in Piece, encoded' = Code(ps) \o p.code,
         SubSeq(name', 1, i'-1) = Text(ps) \o p.text
  PROVE  \E more \in Seq(Piece) : Encoded(more)'
<1>1. Added(ps, p)
  BY PieceAdded
<1> DEFINE more == Append(ps, p)
<1>2. more \in Seq(Piece) /\ Text(more) = Text(ps) \o p.text /\ Code(more) = Code(ps) \o p.code
  BY <1>1 DEF Added
<1> HIDE DEF more
<1>3. Encoded(more)'
  BY <1>2 DEF Encoded
<1> QED BY <1>2, <1>3

LEMMA NameEncoded ==
  ASSUME TypeOK, BitsInv, NameInv, EncodeOne \/ BeginRun \/ EncodeByte \/ EndRun \/ EndEncode
  PROVE  NameInv'
<1> SUFFICES ASSUME own' PROVE NameInv'
  BY DEF NameInv
<1>1. encoded \in Seq(Ascii) /\ name \in Seq(Rune) /\ acc \in Nat /\ Len(name) \in Nat
      /\ block \in Seq(Byte) /\ i \in Nat
  BY WidthAssumption DEF TypeOK
<1>2. own /\ decoded' = <<>> /\ decoded = <<>> /\ name' = name
  BY DEF NameInv, EncodeOne, BeginRun, EncodeByte, EndRun, EndEncode
<1>3. pc = "encode" => i \in 1 .. Len(name) + 1
  BY DEF TypeOK
<1>4. CASE EncodeOne
  <2> DEFINE r == name[i]
  <2>1. pc = "encode" /\ pc' = "encode" /\ i \in 1..Len(name) /\ i' = i+1 /\ r \in Rune
    BY <1>1, <1>3, <1>4 DEF EncodeOne
  <2>2. PICK ps \in Seq(Piece) : Encoded(ps)
    BY <1>2, <2>1 DEF NameInv
  <2> DEFINE c == IF r = Amp THEN <<Amp, Minus>> ELSE <<r>>
  <2>3. encoded' = encoded \o c /\ Printable(r)
    BY <1>4 DEF EncodeOne
  <2>4. SubSeq(name', 1, i'-1) = SubSeq(name, 1, i-1) \o <<r>>
    <3>1. SubSeq(name, 1, (i+1)-1) = SubSeq(name, 1, i-1) \o SubSeq(name, i, (i+1)-1)
      <4>1. i \in 1 .. Len(name) + 1 /\ i+1 \in i .. Len(name) + 1
        BY <1>1, <2>1
      <4> QED BY <1>1, <4>1, CutTwice
    <3>2. (i+1)-1 = i
      BY <1>1
    <3>3. SubSeq(name, i, i) = <<r>>
      BY <1>1, <2>1, CutOne
    <3> QED BY <1>2, <2>1, <3>1, <3>2, <3>3
  <2> HIDE DEF r
  <2> DEFINE p == [text |-> <<r>>, code |-> c]
  <2>5. p \in Piece
    <3>1. CASE r = Amp
      <4>1. c = Shift(<<>>)
        BY <3>1, ShiftOfNothing
      <4>2. <<>> \in Seq(Character)
        OBVIOUS
      <4>5. Shift(<<>>) \in Seq(Ascii)
        BY <4>2, ShiftIs
      <4>3. Shift(<<>>) \in Seq(Ascii) /\ <<r>> \in Seq(Rune)
        BY <2>1, <4>5
      <4> HIDE DEF c
      <4>4. IsShift(p)
        BY <3>1, <4>1, <4>2 DEF IsShift
      <4> QED BY <4>1, <4>3, <4>4 DEF Piece
    <3>2. CASE r # Amp
      <4>1. r \in Ascii
        BY <2>3, CharactersAreAscii
      <4>2. c = <<r>>
        BY <3>2
      <4>3. <<r>> \in Seq(Ascii) /\ <<r>> \in Seq(Rune)
        BY <2>1, <4>1
      <4> HIDE DEF c
      <4>4. IsPlain(p)
        BY <3>2, <4>1, <4>2 DEF IsPlain
      <4> QED BY <4>2, <4>3, <4>4 DEF Piece
    <3> QED BY <3>1, <3>2
  <2>6. p.text = <<r>> /\ p.code = c
    OBVIOUS
  <2> HIDE DEF p, c
  <2>7. encoded' = Code(ps) \o p.code /\ SubSeq(name', 1, i'-1) = Text(ps) \o p.text
    BY <2>2, <2>3, <2>4, <2>6 DEF Encoded
  <2>8. \E more \in Seq(Piece) : Encoded(more)'
    BY <2>5, <2>7, OneMorePiece
  <2> QED BY <1>2, <2>1, <2>8 DEF NameInv
<1>5. CASE BeginRun
  <2>1. pc = "encode" /\ pc' = "shift" /\ i \in 1..Len(name) /\ i' = RunEnd /\ ~ Printable(name[i])
    BY <1>1, <1>3, <1>5 DEF BeginRun
  <2>2. RunEnd \in i+1 .. Len(name) + 1
    BY <1>1, <2>1, RunEndFound
  <2>3. PICK ps \in Seq(Piece) : Encoded(ps)
    BY <1>2, <2>1 DEF NameInv
  <2>4. PICK run : run = SubSeq(name, i, RunEnd - 1)
    OBVIOUS
  <2>5. run \in Seq(Rune) /\ run # <<>>
    <3>1. i \in 1 .. Len(name) + 1 /\ RunEnd - 1 \in i-1 .. Len(name) /\ RunEnd - 1 - i + 1 > 0
      BY <1>1, <2>1, <2>2
    <3>2. SubSeq(name, i, RunEnd - 1) \in Seq(Rune) /\ Len(SubSeq(name, i, RunEnd - 1)) = RunEnd - 1 - i + 1
      BY <1>1, <3>1, Part
    <3>3. run \in Seq(Rune) /\ Len(run) > 0
      BY <2>4, <3>1, <3>2
    <3> QED BY <3>3
  <2>6. SubSeq(name', 1, i'-1) = Text(ps) \o run
    <3>1. SubSeq(name, 1, RunEnd - 1) = SubSeq(name, 1, i-1) \o SubSeq(name, i, RunEnd - 1)
      <4>1. i \in 1 .. Len(name) + 1 /\ RunEnd \in i .. Len(name) + 1
        BY <1>1, <2>1, <2>2
      <4> QED BY <1>1, <4>1, CutTwice
    <3> QED BY <1>2, <2>1, <2>3, <2>4, <3>1 DEF Encoded
  <2>7. encoded' = Code(ps) \o (<<Amp>> \o <<>>)
    <3>1. Amp \in Ascii
      BY DEF Amp, Ascii
    <3>2. <<Amp>> \o <<>> = <<Amp>>
      <4>1. <<Amp>> \in Seq(Ascii)
        BY <3>1
      <4> QED BY <4>1, ConcatEmptySeq
    <3>3. Append(encoded, Amp) = encoded \o <<Amp>>
      BY <1>1, <3>1
    <3> QED BY <1>5, <2>3, <3>2, <3>3 DEF BeginRun, Encoded
  <2> DEFINE bs == BytesOf(run)
  <2>8. block' = bs /\ bits' = 0 /\ bs \in Seq(Byte)
    BY <1>5, <2>4, <2>5, DecodedRun DEF BeginRun
  <2> HIDE DEF bs
  <2>9. Carries(<<>>, bs)
    <3>1. \A g \in Nat, c \in 1..4 : ~ 4*g + c <= Len(<<>>)
      OBVIOUS
    <3> QED BY <3>1 DEF Carries
  <2>10. Writing(<<>>, bs)'
    <3>1. WritingAt(<<>>, bs, 0, 0)'
      BY <2>8 DEF WritingAt
    <3> QED BY <3>1 DEF Writing
  <2>11. Encoding(ps, <<>>, run)'
    BY <2>5, <2>6, <2>7, <2>9, <2>10 DEF Encoding, bs
  <2>12. <<>> \in Seq(Character)
    OBVIOUS
  <2> QED BY <1>2, <2>1, <2>5, <2>11, <2>12 DEF NameInv
<1>6. CASE EncodeByte
  <2>1. pc = "shift" /\ pc' = "shift" /\ i' = i
    BY <1>6 DEF EncodeByte
  <2>2. PICK ps \in Seq(Piece), q \in Seq(Character), run \in Seq(Rune) : Encoding(ps, q, run)
    BY <1>2, <2>1 DEF NameInv
  <2> DEFINE bs == BytesOf(run)
             s == Code(ps)
  <2>3. bs \in Seq(Byte) /\ s \in Seq(Ascii)
    BY DecodedRun, PiecesStrings
  <2>4. encoded = s \o (<<Amp>> \o q) /\ Carries(q, bs) /\ Writing(q, bs)
    BY <2>2 DEF Encoding
  <2> HIDE DEF bs, s
  <2>5. PICK w \in Seq(Character) : encoded' = encoded \o w /\ Carries(q \o w, bs) /\ Writing(q \o w, bs)'
    BY <1>1, <1>6, <2>3, <2>4, ByteWritten
  <2> DEFINE p == q \o w
  <2>6. (s \o (<<Amp>> \o q)) \o w = s \o (<<Amp>> \o p) /\ p \in Seq(Character)
    BY <2>3, ShiftGrows
  <2>7. encoded' = s \o (<<Amp>> \o p) /\ Carries(p, bs) /\ Writing(p, bs)'
    BY <2>4, <2>5, <2>6
  <2> HIDE DEF p
  <2>8. Encoding(ps, p, run)'
    BY <1>2, <2>1, <2>2, <2>7 DEF Encoding, bs, s
  <2> QED BY <1>2, <2>1, <2>6, <2>8 DEF NameInv
<1>7. CASE EndRun
  <2>1. pc = "shift" /\ pc' = "encode" /\ i' = i
    BY <1>7 DEF EndRun
  <2>2. PICK ps \in Seq(Piece), q \in Seq(Character), run \in Seq(Rune) : Encoding(ps, q, run)
    BY <1>2, <2>1 DEF NameInv
  <2> DEFINE bs == BytesOf(run)
             s == Code(ps)
  <2>3. bs \in Seq(Byte) /\ s \in Seq(Ascii) /\ Len(bs) >= 2
    BY <2>2, DecodedRun, PiecesStrings DEF Encoding
  <2>4. encoded = s \o (<<Amp>> \o q) /\ Carries(q, bs) /\ Writing(q, bs)
    BY <2>2 DEF Encoding
  <2> HIDE DEF bs, s
  <2>5. PICK w \in Seq(Character) :
          encoded' = (encoded \o w) \o <<Minus>> /\ Carries(q \o w, bs) /\ Filled(q \o w, bs)
    BY <1>1, <1>7, <2>3, <2>4, RestWritten
  <2> DEFINE p == q \o w
  <2>6. ((s \o (<<Amp>> \o q)) \o w) \o <<Minus>> = s \o Shift(p) /\ p \in Seq(Character)
    BY <2>3, ShiftGrows
  <2>7. encoded' = s \o Shift(p) /\ Carries(p, bs) /\ Filled(p, bs)
    BY <2>4, <2>5, <2>6
  <2> HIDE DEF p
  <2>8. p # <<>>
    <3>1. Len(p) > 0
      BY <2>3, <2>7 DEF Filled
    <3> QED BY <3>1
  <2> DEFINE piece == [text |-> run, code |-> Shift(p)]
  <2>9. piece \in Piece
    <3>1. Shift(p) \in Seq(Ascii)
      BY <2>6, ShiftIs
    <3>2. Holds(p, run)
      BY <2>7, <2>8 DEF Holds, bs
    <3>3. IsShift(piece)
      BY <2>6, <3>2 DEF IsShift
    <3> QED BY <3>1, <3>3 DEF Piece
  <2>10. piece.text = run /\ piece.code = Shift(p)
    OBVIOUS
  <2> HIDE DEF piece
  <2>11. encoded' = Code(ps) \o piece.code /\ SubSeq(name', 1, i'-1) = Text(ps) \o piece.text
    BY <1>2, <2>1, <2>2, <2>7, <2>10 DEF Encoding, s
  <2>12. \E more \in Seq(Piece) : Encoded(more)'
    BY <2>9, <2>11, OneMorePiece
  <2> QED BY <1>2, <2>1, <2>12 DEF NameInv
<1>8. CASE EndEncode
  <2>1. pc = "encode" /\ pc' = "decode" /\ i' = 1 /\ encoded' = encoded /\ i = Len(name) + 1
    BY <1>1, <1>3, <1>8 DEF EndEncode
  <2>2. PICK ps \in Seq(Piece) : Encoded(ps)
    BY <1>2, <2>1 DEF NameInv
  <2>3. name = Text(ps)
    <3>1. SubSeq(name, 1, Len(name)) = name
      BY <1>1
    <3> QED BY <1>1, <2>1, <2>2, <3>1 DEF Encoded
  <2>4. Text(ps) \in Seq(Rune) /\ Code(ps) \in Seq(Ascii)
    BY PiecesStrings
  <2>5. <<>> \o Text(ps) = Text(ps) /\ <<>> \o Code(ps) = Code(ps)
    BY <2>4, ConcatEmptySeq
  <2>6. Decoding(<<>>, ps)'
    BY <1>2, <2>1, <2>2, <2>3, <2>5 DEF Decoding, Ahead, Encoded
  <2>7. <<>> \in Seq(Ascii)
    OBVIOUS
  <2> QED BY <1>2, <2>1, <2>6, <2>7 DEF NameInv
<1> QED BY <1>4, <1>5, <1>6, <1>7, <1>8

\* The piece that begins at i.
InFront(front, ps, p, rest) ==
  /\ Taken(ps, p, rest)
  /\ encoded = (front \o p.code) \o Code(rest)
  /\ front \o p.code \in Seq(Ascii) /\ Len(front \o p.code) = Len(front) + Len(p.code)
  /\ \A k \in 1..Len(p.code) : i + k - 1 \in 1..Len(encoded) /\ encoded[i + k - 1] = p.code[k]

LEMMA PieceAtIndex ==
  ASSUME NEW front \in Seq(Ascii), NEW ps \in Seq(Piece), Ahead(front, ps)
  PROVE  /\ ps = <<>> => i = Len(encoded) + 1
         /\ ps # <<>> => /\ i \in 1..Len(encoded)
                         /\ \E p \in Piece, rest \in Seq(Piece) : InFront(front, ps, p, rest)
<1>1. encoded = front \o Code(ps) /\ i = Len(front) + 1 /\ Len(front) \in Nat
  BY DEF Ahead
<1>2. ASSUME ps = <<>> PROVE i = Len(encoded) + 1
  <2>1. encoded = front
    <3>1. Code(ps) = <<>>
      BY <1>2, NoPieces
    <3> QED BY <1>1, <3>1, ConcatEmptySeq
  <2> QED BY <1>1, <2>1
<1>3. ASSUME ps # <<>>
      PROVE  /\ i \in 1..Len(encoded)
             /\ \E p \in Piece, rest \in Seq(Piece) : InFront(front, ps, p, rest)
  <2> DEFINE p == ps[1]
             rest == Tail(ps)
  <2>1. Taken(ps, p, rest)
    BY <1>3, PieceTaken
  <2> HIDE DEF p, rest
  <2> DEFINE c == p.code
             d == Code(rest)
  <2>2. p \in Piece /\ rest \in Seq(Piece) /\ Code(ps) = c \o d
    BY <2>1 DEF Taken
  <2>3. c \in Seq(Ascii) /\ d \in Seq(Ascii) /\ Len(c) \in Nat \ {0}
    BY <2>2, PieceType, PiecesStrings, FirstOfPiece
  <2> HIDE DEF c, d
  <2>4. Associates(front, c, d)
    BY <2>3, ConcatOfThree
  <2> DEFINE u == front \o c
  <2>5. /\ u \in Seq(Ascii) /\ Len(u) = Len(front) + Len(c)
        /\ \A k \in 1..Len(c) : u[Len(front) + k] = c[k]
    BY <2>3
  <2>6. encoded = u \o d
    BY <1>1, <2>2, <2>4 DEF Associates
  <2> HIDE DEF u
  <2>7. Len(encoded) = Len(u) + Len(d) /\ Len(d) \in Nat /\ \A k \in 1..Len(u) : encoded[k] = u[k]
    <3>1. u \in Seq(Ascii) /\ d \in Seq(Ascii)
      BY <2>3, <2>5
    <3>2. Len(u \o d) = Len(u) + Len(d) /\ Len(d) \in Nat /\ \A k \in 1..Len(u) : (u \o d)[k] = u[k]
      BY <3>1
    <3> QED BY <2>6, <3>2
  <2>8. \A k \in 1..Len(c) : i + k - 1 \in 1..Len(encoded) /\ encoded[i + k - 1] = c[k]
    <3> TAKE k \in 1..Len(c)
    <3>1. i + k - 1 = Len(front) + k /\ i + k - 1 \in 1..Len(u) /\ i + k - 1 \in 1..Len(encoded)
      BY <1>1, <2>3, <2>5, <2>7
    <3> QED BY <2>5, <2>7, <3>1
  <2>9. i \in 1..Len(encoded)
    BY <1>1, <2>3, <2>5, <2>7
  <2>10. InFront(front, ps, p, rest)
    BY <2>1, <2>5, <2>6, <2>8 DEF InFront, c, d, u
  <2> QED BY <2>2, <2>9, <2>10
<1> QED BY <1>2, <1>3

\* A block ends where its piece does, and holds the sextets of the piece.
LEMMA BlockOfPiece ==
  ASSUME encoded \in Seq(Ascii), NEW q \in Seq(Character), i \in 1..Len(encoded),
         \A k \in 1 .. Len(q) + 2 : /\ i + k - 1 \in 1..Len(encoded)
                                    /\ encoded[i + k - 1] = Shift(q)[k]
  PROVE  /\ BlockEnd = i + Len(q) + 1 /\ AfterBlock = i + Len(q) + 2
         /\ SubSeq(encoded, i+1, BlockEnd - 1) \in Seq(Ascii)
         /\ Len(SubSeq(encoded, i+1, BlockEnd - 1)) = Len(q)
         /\ \A k \in 1..Len(q) : SubSeq(encoded, i+1, BlockEnd - 1)[k] = q[k]
<1> DEFINE n == Len(q)
           e == BlockEnd
<1>1. /\ Len(encoded) \in Nat /\ i \in Nat /\ n \in Nat
      /\ e \in i+1 .. Len(encoded) + 1
      /\ \A k \in i+1 .. e-1 : encoded[k] # Minus
      /\ e <= Len(encoded) => encoded[e] = Minus
  BY BlockEndFound
<1>2. /\ Shift(q)[n+2] = Minus
      /\ \A k \in 2 .. n+1 : Shift(q)[k] = q[k-1] /\ Shift(q)[k] # Minus
  <2>1. Shift(q)[n+2] = Minus /\ \A k \in 2 .. n+1 : Shift(q)[k] = q[k-1] /\ Shift(q)[k] \in Character
    BY ShiftIs
  <2>2. \A c \in Character : c # Minus
    <3>1. \A v \in 0..63 : Alphabet[v] # Minus
      BY Characters
    <3> QED BY <3>1 DEF Character
  <2> QED BY <2>1, <2>2
<1> DEFINE z == i + n + 1
<1>3. z \in 1..Len(encoded) /\ encoded[z] = Minus /\ z \in Nat
  <2>1. n+2 \in 1 .. Len(q) + 2 /\ i + (n+2) - 1 = z
    BY <1>1
  <2> QED BY <1>1, <1>2, <2>1
<1>4. \A k \in 1..n : encoded[i+k] = q[k] /\ encoded[i+k] # Minus
  <2> TAKE k \in 1..n
  <2>1. k+1 \in 2 .. n+1 /\ k+1 \in 1 .. Len(q) + 2 /\ i + (k+1) - 1 = i+k /\ (k+1) - 1 = k
    BY <1>1
  <2> QED BY <1>2, <2>1
<1> HIDE DEF e
<1>5. e = z
  <2>1. ~ e < z
    <3> SUFFICES ASSUME e < z PROVE FALSE
      OBVIOUS
    <3>1. e - i \in 1..n /\ i + (e - i) = e /\ e <= Len(encoded)
      BY <1>1, <1>3
    <3> QED BY <1>1, <1>4, <3>1
  <2>2. ~ z < e
    <3> SUFFICES ASSUME z < e PROVE FALSE
      OBVIOUS
    <3>1. z \in i+1 .. e-1
      BY <1>1
    <3> QED BY <1>1, <1>3, <3>1
  <2> QED BY <1>1, <1>3, <2>1, <2>2
<1>6. AfterBlock = i + n + 2
  <2>1. ~ e > Len(encoded)
    BY <1>1, <1>3, <1>5
  <2>2. AfterBlock = e + 1
    BY <2>1 DEF AfterBlock, e
  <2> QED BY <1>1, <1>5, <2>2
<1> DEFINE b == SubSeq(encoded, i+1, e-1)
<1>7. /\ b \in Seq(Ascii) /\ Len(b) = (e-1) - (i+1) + 1
      /\ \A k \in 1 .. (e-1) - (i+1) + 1 : b[k] = encoded[(i+1) + k - 1]
  <2>1. i+1 \in 1 .. Len(encoded) + 1 /\ e-1 \in (i+1)-1 .. Len(encoded)
    BY <1>1, <1>3, <1>5
  <2> QED BY <2>1, Part
<1>8. (e-1) - (i+1) + 1 = n /\ \A k \in 1..n : (i+1) + k - 1 = i+k
  BY <1>1, <1>5
<1> HIDE DEF b
<1>9. b \in Seq(Ascii) /\ Len(b) = n /\ \A k \in 1..n : b[k] = q[k]
  BY <1>4, <1>7, <1>8
<1> QED BY <1>5, <1>6, <1>9 DEF b, e

LEMMA NameDecoded ==
  ASSUME TypeOK, BitsInv, NameInv,
         DecodeOne \/ DecodeAmp \/ DecodeSextet \/ SkipCharacter \/ EndBlock \/ EndDecode
  PROVE  NameInv'
<1> SUFFICES ASSUME own' PROVE NameInv'
  BY DEF NameInv
<1>1. /\ encoded \in Seq(Ascii) /\ name \in Seq(Rune) /\ acc \in Nat /\ Len(encoded) \in Nat
      /\ block \in Seq(Byte) /\ bytes \in Seq(Byte) /\ decoded \in Seq(Rune)
  BY WidthAssumption DEF TypeOK
<1>2. own /\ encoded' = encoded /\ name' = name
  BY DEF DecodeOne, DecodeAmp, DecodeSextet, SkipCharacter, EndBlock, EndDecode
<1>3. ASSUME pc = "decode"
      PROVE  \E front \in Seq(Ascii), ps \in Seq(Piece) : Decoding(front, ps)
  BY <1>2, <1>3 DEF NameInv
<1>4. ASSUME NEW p \in Piece, NEW rest \in Seq(Piece)
      PROVE  Associates(decoded, p.text, Text(rest))
  <2>1. p.text \in Seq(Rune) /\ Text(rest) \in Seq(Rune)
    BY PieceType, PiecesStrings
  <2> QED BY <1>1, <2>1, ConcatOfThree
<1>5. CASE DecodeOne
  <2>1. pc = "decode" /\ pc' = "decode" /\ i <= Len(encoded) /\ i' = i+1 /\ encoded[i] # Amp
        /\ decoded' = Append(decoded, encoded[i])
    BY <1>5 DEF DecodeOne
  <2>2. PICK front \in Seq(Ascii), ps \in Seq(Piece) : Decoding(front, ps)
    BY <1>3, <2>1
  <2>3. Ahead(front, ps) /\ name = decoded \o Text(ps) /\ i = Len(front) + 1 /\ i \in Nat
    BY <2>2 DEF Decoding, Ahead
  <2>4. ps # <<>>
    BY <1>1, <2>1, <2>3, PieceAtIndex
  <2>5. PICK p \in Piece, rest \in Seq(Piece) : InFront(front, ps, p, rest)
    BY <2>3, <2>4, PieceAtIndex
  <2>6. Len(p.code) \in Nat \ {0}
    BY FirstOfPiece
  <2>7. p.code[1] = encoded[i]
    <3>1. 1 \in 1..Len(p.code) /\ i + 1 - 1 = i
      BY <2>3, <2>6
    <3> QED BY <2>5, <3>1 DEF InFront
  <2>8. p.text = <<encoded[i]>> /\ Len(p.code) = 1
    <3>1. p.text = <<p.code[1]>> /\ p.code = <<p.code[1]>>
      BY <2>1, <2>7, FirstOfPiece
    <3>2. Len(<<p.code[1]>>) = 1
      OBVIOUS
    <3> QED BY <2>7, <3>1, <3>2
  <2>9. decoded' = decoded \o p.text
    <3> DEFINE r == encoded[i]
    <3>1. r \in Rune
      <4>1. i \in 1..Len(encoded)
        BY <1>1, <2>1, <2>3
      <4> QED BY <1>1, <4>1, AsciiAreRunes
    <3>2. Append(decoded, r) = decoded \o <<r>>
      <4> HIDE DEF r
      <4> QED BY <1>1, <3>1
    <3> QED BY <2>1, <2>8, <3>2
  <2>10. Decoding(front \o p.code, rest)'
    <3>1. name = (decoded \o p.text) \o Text(rest)
      <4>1. Text(ps) = p.text \o Text(rest)
        BY <2>5 DEF InFront, Taken
      <4>2. Associates(decoded, p.text, Text(rest))
        BY <1>4
      <4> QED BY <2>3, <4>1, <4>2 DEF Associates
    <3>2. encoded = (front \o p.code) \o Code(rest) /\ i' = Len(front \o p.code) + 1
      <4>1. encoded = (front \o p.code) \o Code(rest) /\ Len(front \o p.code) = Len(front) + Len(p.code)
        BY <2>5 DEF InFront
      <4> QED BY <2>1, <2>3, <2>8, <4>1
    <3> QED BY <1>2, <2>9, <3>1, <3>2 DEF Decoding, Ahead
  <2>11. front \o p.code \in Seq(Ascii)
    BY <2>5 DEF InFront
  <2> DEFINE f == front \o p.code
  <2>12. f \in Seq(Ascii) /\ Decoding(f, rest)'
    BY <2>10, <2>11
  <2> HIDE DEF f
  <2> QED BY <1>2, <2>1, <2>12 DEF NameInv
<1>6. CASE DecodeAmp
  <2>1. pc = "decode" /\ i <= Len(encoded) /\ i' = AfterBlock /\ encoded[i] = Amp
    BY <1>6 DEF DecodeAmp
  <2>2. PICK front \in Seq(Ascii), ps \in Seq(Piece) : Decoding(front, ps)
    BY <1>3, <2>1
  <2>3. Ahead(front, ps) /\ name = decoded \o Text(ps) /\ i = Len(front) + 1 /\ i \in Nat
    BY <2>2 DEF Decoding, Ahead
  <2>4. ps # <<>>
    BY <1>1, <2>1, <2>3, PieceAtIndex
  <2>5. PICK p \in Piece, rest \in Seq(Piece) : InFront(front, ps, p, rest)
    BY <2>3, <2>4, PieceAtIndex
  <2>6. Len(p.code) \in Nat \ {0} /\ (p.code[1] = Amp => IsShift(p))
    BY FirstOfPiece
  <2>7. p.code[1] = encoded[i]
    <3>1. 1 \in 1..Len(p.code) /\ i + 1 - 1 = i
      BY <2>3, <2>6
    <3> QED BY <2>5, <3>1 DEF InFront
  <2>8. PICK q \in Seq(Character) :
          /\ p.code = Shift(q)
          /\ (q = <<>> /\ p.text = <<Amp>>) \/ Holds(q, p.text)
    BY <2>1, <2>6, <2>7 DEF IsShift
  <2>9. Len(p.code) = Len(q) + 2 /\ Len(q) \in Nat
    BY <2>8, ShiftIs
  <2> DEFINE f == front \o p.code
             b == SubSeq(encoded, i+1, BlockEnd - 1)
  <2>10. /\ BlockEnd = i + Len(q) + 1 /\ AfterBlock = i + Len(q) + 2
         /\ b \in Seq(Ascii) /\ Len(b) = Len(q) /\ \A k \in 1..Len(q) : b[k] = q[k]
    <3>1. \A k \in 1 .. Len(q) + 2 : /\ i + k - 1 \in 1..Len(encoded)
                                     /\ encoded[i + k - 1] = Shift(q)[k]
      BY <2>5, <2>8, <2>9 DEF InFront
    <3>2. i \in 1..Len(encoded)
      BY <1>1, <2>1, <2>3
    <3> QED BY <1>1, <3>1, <3>2, BlockOfPiece
  <2> HIDE DEF b
  <2>11. /\ f \in Seq(Ascii) /\ encoded = f \o Code(rest) /\ i' = Len(f) + 1
         /\ Text(ps) = p.text \o Text(rest)
    <3>1. /\ f \in Seq(Ascii) /\ encoded = f \o Code(rest) /\ Len(f) = Len(front) + Len(p.code)
          /\ Text(ps) = p.text \o Text(rest)
      BY <2>5 DEF InFront, Taken
    <3> HIDE DEF f
    <3> QED BY <2>1, <2>3, <2>9, <2>10, <3>1
  <2> HIDE DEF f
  <2>12. Ahead(f, rest)'
    BY <1>2, <2>11 DEF Ahead
  <2>13. CASE q = <<>>
    <3>1. p.text = <<Amp>> /\ BlockEnd = i+1
      <4>1. Len(q) = 0
        BY <2>13
      <4> QED BY <2>3, <2>8, <2>10, <2>13, <4>1 DEF Holds
    <3>2. decoded' = Append(decoded, Amp) /\ pc' = "decode"
      <4>1. ~ BlockEnd > i+1
        BY <2>3, <3>1
      <4> QED BY <1>6, <2>1, <4>1 DEF DecodeAmp
    <3>3. decoded' = decoded \o p.text
      <4>1. Amp \in Rune
        BY AsciiAreRunes DEF Amp, Ascii
      <4>2. Append(decoded, Amp) = decoded \o <<Amp>>
        BY <1>1, <4>1
      <4> QED BY <3>1, <3>2, <4>2
    <3>4. name = (decoded \o p.text) \o Text(rest)
      <4>1. Associates(decoded, p.text, Text(rest))
        BY <1>4
      <4> QED BY <2>3, <2>11, <4>1 DEF Associates
    <3>5. Decoding(f, rest)'
      BY <1>2, <2>12, <3>3, <3>4 DEF Decoding
    <3> QED BY <1>2, <2>11, <3>2, <3>5 DEF NameInv
  <2>14. CASE q # <<>>
    <3>1. Holds(q, p.text)
      BY <2>8, <2>14
    <3>2. BlockEnd > i+1
      <4>1. Len(q) > 0
        BY <2>9, <2>14
      <4> QED BY <2>3, <2>9, <2>10, <4>1
    <3>3. /\ block' = b /\ bits' = 0 /\ bytes' = <<>> /\ decoded' = decoded /\ pc' = "unshift"
      <4>1. BlockEnd # i+1
        BY <2>3, <3>2
      <4> QED BY <1>6, <4>1 DEF DecodeAmp, b
    <3> DEFINE bs == BytesOf(p.text)
    <3>4. Reading(q, bs)'
      <4> HIDE DEF bs
      <4>1. ReadingAt(q, bs, 0, 0)'
        BY <2>9, <2>10, <3>3 DEF ReadingAt
      <4> QED BY <4>1 DEF Reading
    <3>5. name' = decoded' \o (p.text \o Text(rest))
      BY <1>2, <2>3, <2>11, <3>3
    <3>6. Unshifting(f, rest, q, p.text)'
      BY <2>12, <3>1, <3>4, <3>5 DEF Unshifting
    <3>7. p.text \in Seq(Rune)
      BY PieceType
    <3> DEFINE run == p.text
    <3>8. run \in Seq(Rune) /\ Unshifting(f, rest, q, run)'
      BY <3>6, <3>7
    <3> HIDE DEF run
    <3> QED BY <1>2, <2>11, <3>3, <3>8 DEF NameInv
  <2> QED BY <2>13, <2>14
<1>7. ASSUME pc = "unshift"
      PROVE  \E front \in Seq(Ascii), ps \in Seq(Piece), q \in Seq(Character), run \in Seq(Rune) :
               Unshifting(front, ps, q, run)
  BY <1>2, <1>7 DEF NameInv
<1>8. CASE DecodeSextet
  <2>1. pc = "unshift" /\ pc' = "unshift" /\ decoded' = decoded /\ i' = i
    BY <1>8 DEF DecodeSextet
  <2>2. PICK front \in Seq(Ascii), ps \in Seq(Piece), q \in Seq(Character), run \in Seq(Rune) :
          Unshifting(front, ps, q, run)
    BY <1>7, <2>1
  <2> DEFINE bs == BytesOf(run)
  <2>3. bs \in Seq(Byte)
    BY DecodedRun
  <2>4. Carries(q, bs) /\ Reading(q, bs)
    BY <2>2 DEF Unshifting, Holds
  <2> HIDE DEF bs
  <2>5. Reading(q, bs)'
    BY <1>1, <1>8, <2>3, <2>4, SextetRead
  <2>6. Unshifting(front, ps, q, run)'
    BY <1>2, <2>1, <2>2, <2>5 DEF Unshifting, Ahead, bs
  <2> QED BY <1>2, <2>1, <2>6 DEF NameInv
<1>9. CASE SkipCharacter
  <2>1. pc = "unshift" /\ block # <<>> /\ ~ InAlphabet(Head(block))
    BY <1>9 DEF SkipCharacter
  <2>2. PICK front \in Seq(Ascii), ps \in Seq(Piece), q \in Seq(Character), run \in Seq(Rune) :
          Unshifting(front, ps, q, run)
    BY <1>7, <2>1
  <2>3. BytesOf(run) \in Seq(Byte) /\ Reading(q, BytesOf(run))
    BY <2>2, DecodedRun DEF Unshifting
  <2> QED BY <1>1, <2>1, <2>3, AllRead
<1>10. CASE EndBlock
  <2>1. pc = "unshift" /\ pc' = "decode" /\ block = <<>> /\ i' = i
        /\ decoded' = decoded \o CodePoints(UnitsOf(bytes))
    BY <1>10 DEF EndBlock
  <2>2. PICK front \in Seq(Ascii), ps \in Seq(Piece), q \in Seq(Character), run \in Seq(Rune) :
          Unshifting(front, ps, q, run)
    BY <1>7, <2>1
  <2>3. /\ BytesOf(run) \in Seq(Byte) /\ Reading(q, BytesOf(run)) /\ Filled(q, BytesOf(run))
        /\ CodePoints(UnitsOf(BytesOf(run))) = run
    BY <2>2, DecodedRun DEF Unshifting, Holds
  <2>4. bytes = BytesOf(run)
    BY <1>1, <2>1, <2>3, AllRead
  <2>5. decoded' = decoded \o run
    BY <2>1, <2>3, <2>4
  <2>6. name = (decoded \o run) \o Text(ps)
    <3>1. Associates(decoded, run, Text(ps))
      <4>1. Text(ps) \in Seq(Rune)
        BY PiecesStrings
      <4> QED BY <1>1, <4>1, ConcatOfThree
    <3> QED BY <2>2, <3>1 DEF Unshifting, Associates
  <2>7. Decoding(front, ps)'
    BY <1>2, <2>1, <2>2, <2>5, <2>6 DEF Decoding, Unshifting, Ahead
  <2> QED BY <1>2, <2>1, <2>7 DEF NameInv
<1>11. CASE EndDecode
  <2>1. pc = "decode" /\ pc' = "done" /\ decoded' = decoded /\ i > Len(encoded)
    BY <1>11 DEF EndDecode
  <2>2. PICK front \in Seq(Ascii), ps \in Seq(Piece) : Decoding(front, ps)
    BY <1>3, <2>1
  <2>3. Ahead(front, ps) /\ name = decoded \o Text(ps)
    BY <2>2 DEF Decoding
  <2>4. ps = <<>>
    <3>1. ps # <<>> => i \in 1..Len(encoded)
      BY <2>3, PieceAtIndex
    <3> QED BY <1>1, <2>1, <3>1
  <2>5. name = decoded
    <3>1. Text(ps) = <<>>
      BY <2>4, NoPieces
    <3> QED BY <1>1, <2>3, <3>1, ConcatEmptySeq
  <2> QED BY <1>2, <2>1, <2>5 DEF NameInv
<1> QED BY <1>5, <1>6, <1>8, <1>9, <1>10, <1>11

\* A name survives the way to the server and back, whatever the mix of runs,
\* surrogate pairs, "&" and "-", for every name and every accumulator of at
\* least 14 bits (utf7.go EncodeUTF7 and DecodeUTF7).
THEOREM NamesSurvive == Spec => []RoundTrip
<1>1. Init => TypeOK /\ BitsInv /\ NameInv
  BY InitType, NameInit
<1>2. (TypeOK /\ BitsInv /\ NameInv) /\ [Next]_vars => (TypeOK /\ BitsInv /\ NameInv)'
  <2> SUFFICES ASSUME TypeOK, BitsInv, NameInv, [Next]_vars
               PROVE  TypeOK' /\ BitsInv' /\ NameInv'
    OBVIOUS
  <2>1. TypeOK' /\ BitsInv'
    BY NextType
  <2>2. NameInv'
    <3>1. CASE UNCHANGED vars
      <4>1. \A q, bs : /\ Writing(q, bs)' <=> Writing(q, bs)
                       /\ Reading(q, bs)' <=> Reading(q, bs)
        BY <3>1 DEF vars, Writing, WritingAt, Reading, ReadingAt
      <4>2. \A front, ps, q, run : /\ Encoded(ps)' <=> Encoded(ps)
                                   /\ Encoding(ps, q, run)' <=> Encoding(ps, q, run)
        BY <3>1, <4>1 DEF vars, Encoded, Encoding
      <4>5. \A front, ps : /\ Ahead(front, ps)' <=> Ahead(front, ps)
                           /\ Decoding(front, ps)' <=> Decoding(front, ps)
        BY <3>1 DEF vars, Decoding, Ahead
      <4>3. \A front, ps, q, run : Unshifting(front, ps, q, run)' <=> Unshifting(front, ps, q, run)
        BY <3>1, <4>1, <4>5 DEF vars, Unshifting
      <4>4. own' = own /\ pc' = pc /\ decoded' = decoded /\ name' = name
        BY <3>1 DEF vars
      <4> QED BY <4>2, <4>3, <4>4, <4>5 DEF NameInv
    <3>2. CASE EncodeOne \/ BeginRun \/ EncodeByte \/ EndRun \/ EndEncode
      BY <3>2, NameEncoded
    <3>3. CASE DecodeOne \/ DecodeAmp \/ DecodeSextet \/ SkipCharacter \/ EndBlock \/ EndDecode
      BY <3>3, NameDecoded
    <3> QED BY <3>1, <3>2, <3>3 DEF Next, Terminated
  <2> QED BY <2>1, <2>2
<1>3. NameInv => RoundTrip
  BY DEF NameInv, RoundTrip
<1> QED BY <1>1, <1>2, <1>3, PTL DEF Spec
=============================================================================
