------------------------ MODULE ResponseReaderProofs ------------------------
(***************************************************************************)
(* The reader of ResponseReader proved, for every set of replies and every *)
(* way of cutting the connection off, to lose nothing and to implement     *)
(* ResponseChannel.                                                        *)
(***************************************************************************)
EXTENDS ResponseReader, SequenceLemmas

-----------------------------------------------------------------------------
(* Numbers and markers. *)

LEMMA DigitValues == \A d \in Digits : DigitValue[d] \in 0..9
<1> DEFINE row == <<"0", "1", "2", "3", "4", "5", "6", "7", "8", "9">>
           val == [d \in Digits |-> CHOOSE i \in 0..9 : row[i+1] = d]
<1>1. \A d \in Digits : \E i \in 0..9 : row[i+1] = d
  BY DEF Digits
<1> HIDE DEF row
<1>2. \A d \in Digits : val[d] \in 0..9
  BY <1>1
<1>3. DigitValue = val
  BY DEF DigitValue, row
<1> HIDE DEF val
<1> QED BY <1>2, <1>3

LEMMA NumberSteps ==
  ASSUME NEW s \in Seq(Digits)
  PROVE  \E f \in [0..Len(s) -> Nat] :
           /\ f[0] = 0
           /\ \A i \in 1..Len(s) : f[i] = 10 * f[i-1] + DigitValue[s[i]]
           /\ Number(s) = f[Len(s)]
<1> DEFINE l == Len(s)
           step == [i \in 1..l |-> [v \in Nat |-> 10 * v + DigitValue[s[i]]]]
           F(f) == f = [i \in 0..l |-> IF i = 0 THEN 0 ELSE 10 * f[i-1] + DigitValue[s[i]]]
           value == CHOOSE f : F(f)
<1>1. l \in Nat /\ \A i \in 1..l : DigitValue[s[i]] \in Nat
  BY DigitValues
<1>2. step \in [1..l -> [Nat -> Nat]] /\ \A i \in 1..l, v \in Nat : step[i][v] = 10 * v + DigitValue[s[i]]
  BY <1>1
<1> HIDE DEF step, l
<1>3. PICK f \in [0..l -> Nat] : Follows(f, l, 0, step)
  BY <1>1, <1>2, Recursion
<1>4. f[0] = 0 /\ \A i \in 1..l : f[i] = 10 * f[i-1] + DigitValue[s[i]]
  <2>1. \A i \in 1..l : i-1 \in 0..l
    BY <1>1
  <2> QED BY <1>2, <1>3, <2>1 DEF Follows
<1>5. F(f)
  BY <1>4
<1>6. F(value)
  <2> HIDE DEF F
  <2> QED BY <1>5
<1> HIDE DEF value
<1>7. value = f
  <2> DEFINE S == {i \in Nat : i \in 0..l => value[i] = f[i]}
  <2>1. \A i \in 0..l : value[i] = IF i = 0 THEN 0 ELSE 10 * value[i-1] + DigitValue[s[i]]
    BY <1>6
  <2>2. 0 \in S
    BY <1>4, <2>1
  <2>3. ASSUME NEW i \in Nat, i \in S PROVE i+1 \in S
    <3> SUFFICES ASSUME i+1 \in 0..l PROVE value[i+1] = f[i+1]
      OBVIOUS
    <3>1. i+1 \in 1..l /\ i+1 # 0 /\ (i+1)-1 = i /\ i \in 0..l
      BY <1>1
    <3>2. value[i] = f[i]
      BY <2>3, <3>1
    <3>3. value[i+1] = 10 * value[(i+1)-1] + DigitValue[s[i+1]]
      BY <2>1, <3>1
    <3>4. f[i+1] = 10 * f[(i+1)-1] + DigitValue[s[i+1]]
      BY <1>4, <3>1
    <3> QED BY <3>1, <3>2, <3>3, <3>4
  <2>4. \A i \in Nat : i \in S
    <3> HIDE DEF S
    <3> QED BY <2>2, <2>3, Induction
  <2>5. \A i \in 0..l : value[i] = f[i]
    BY <1>1, <2>4
  <2>6. value = [i \in 0..l |-> value[i]]
    BY <1>6
  <2> QED BY <2>5, <2>6
<1>8. Number(s) = value[l]
  BY DEF Number, value, l
<1> QED BY <1>4, <1>7, <1>8 DEF l

LEMMA NumberType ==
  ASSUME NEW s \in Seq(Digits)
  PROVE  Number(s) \in Nat
BY NumberSteps

LEMMA TrailingDigitsOfText ==
  ASSUME NEW s \in Seq(Octet)
  PROVE  /\ TrailingDigits(s) \in 0..Len(s)
         /\ \A i \in Len(s) - TrailingDigits(s) + 1 .. Len(s) : s[i] \in Digits
         /\ TrailingDigits(s) < Len(s) => s[Len(s) - TrailingDigits(s)] \notin Digits
<1> DEFINE l == Len(s)
           Ends == {k \in 0..l : k < l => s[l-k] \notin Digits}
<1>1. l \in Nat
  OBVIOUS
<1> HIDE DEF l
<1>2. l \in Ends /\ Ends \subseteq Nat
  BY <1>1
<1>3. PICK k \in Ends : \A j \in Ends : k <= j
  BY <1>2, HasLeast
<1>4. ASSUME NEW i \in l-k+1 .. l PROVE s[i] \in Digits
  <2>1. l-i \in 0..l /\ l-i < k /\ l-i < l /\ l-(l-i) = i /\ k \in 0..l
    BY <1>1, <1>3
  <2>2. l-i \notin Ends
    <3> HIDE DEF Ends
    <3>1. ~ (k <= l-i)
      BY <1>1, <2>1
    <3> QED BY <1>3, <3>1
  <2>3. s[l-(l-i)] \in Digits
    BY <2>1, <2>2
  <2> QED BY <2>1, <2>3
<1>5. \E e \in 0..l : /\ \A i \in l-e+1 .. l : s[i] \in Digits
                      /\ e < l => s[l-e] \notin Digits
  BY <1>3, <1>4
<1> QED BY <1>5 DEF TrailingDigits, l

\* literalSize answers "no marker" or a number that fits an int.
LEMMA LiteralSizeType ==
  ASSUME NEW text \in Seq(Octet)
  PROVE  LiteralSize(text) \in 0..MaxInt \union {-1}
<1> DEFINE l      == Len(text)
           inside == SubSeq(text, 1, l-2)
           k      == TrailingDigits(inside)
           digits == SubSeq(text, l-1-k, l-2)
<1> SUFFICES ASSUME l >= 4, Number(digits) <= MaxInt
             PROVE  Number(digits) \in 0..MaxInt
  BY DEF LiteralSize
<1>1. l \in Nat /\ \A i \in 1..l : text[i] \in Octet
  OBVIOUS
<1>2. inside \in Seq(Octet) /\ Len(inside) = l-2 /\ \A i \in 1 .. l-2 : inside[i] = text[i]
  BY <1>1
<1> HIDE DEF inside, l
<1>3. k \in 0 .. l-2 /\ \A i \in (l-2)-k+1 .. l-2 : text[i] \in Digits
  <2>1. k \in 0 .. l-2 /\ \A i \in (l-2)-k+1 .. l-2 : inside[i] \in Digits
    BY <1>2, TrailingDigitsOfText
  <2> HIDE DEF k
  <2>2. \A i \in (l-2)-k+1 .. l-2 : i \in 1 .. l-2
    BY <1>1, <2>1
  <2> QED BY <1>2, <2>1, <2>2
<1> HIDE DEF k
<1>4. digits \in Seq(Digits)
  <2>1. \A i \in l-1-k .. l-2 : text[i] \in Digits
    BY <1>1, <1>3
  <2>2. l-1-k \in Int /\ l-2 \in Int
    BY <1>1, <1>3
  <2> QED BY <2>1, <2>2, SubSeqProperties
<1> HIDE DEF digits
<1>5. MaxInt \in Nat /\ Number(digits) \in Nat
  BY <1>4, NumberType, BoundsAssumption
<1> QED BY <1>5

LEMMA OctetsConcat ==
  ASSUME NEW s \in Seq(Octet), NEW t \in Seq(Octet)
  PROVE  /\ s \o t \in Seq(Octet) /\ Len(s \o t) = Len(s) + Len(t) /\ Len(s) \in Nat /\ Len(t) \in Nat
         /\ \A i \in 1 .. Len(s) + Len(t) : (s \o t)[i] = IF i <= Len(s) THEN s[i] ELSE t[i - Len(s)]
<1> HIDE DEF Octet
<1> QED BY ConcatProperties

LEMMA OctetsCut ==
  ASSUME NEW s \in Seq(Octet), NEW a \in Nat \ {0}, NEW b \in Nat, a <= b, b <= Len(s)
  PROVE  /\ SubSeq(s, a, b) \in Seq(Octet) /\ Len(SubSeq(s, a, b)) = b-a+1
         /\ \A i \in 1 .. b-a+1 : SubSeq(s, a, b)[i] = s[a+i-1]
<1>1. \A i \in a..b : s[i] \in Octet
  <2>1. \A i \in 1..Len(s) : s[i] \in Octet
    OBVIOUS
  <2>2. \A i \in a..b : i \in 1..Len(s)
    OBVIOUS
  <2> QED BY <2>1, <2>2
<1>2. a \in Int /\ b \in Int
  OBVIOUS
<1>3. /\ SubSeq(s, a, b) \in Seq(Octet)
      /\ Len(SubSeq(s, a, b)) = IF a <= b THEN b-a+1 ELSE 0
      /\ \A i \in 1 .. b-a+1 : SubSeq(s, a, b)[i] = s[a+i-1]
  BY <1>1, <1>2, SubSeqProperties
<1> QED BY <1>3

LEMMA MarkerOctets ==
  ASSUME NEW size \in Seq(Digits)
  PROVE  /\ Marker(size) \in Seq(Octet) /\ Len(Marker(size)) = Len(size) + 3
         /\ Marker(size)[1] = LBrace
         /\ \A i \in 1..Len(size) : Marker(size)[i+1] = size[i]
         /\ Marker(size)[Len(size) + 2] = RBrace /\ Marker(size)[Len(size) + 3] = "CRLF"
<1> DEFINE head == <<LBrace>>
           tail == <<RBrace, "CRLF">>
           d    == Len(size)
<1>1. /\ head \in Seq(Octet) /\ Len(head) = 1 /\ head[1] = LBrace
      /\ tail \in Seq(Octet) /\ Len(tail) = 2 /\ tail[1] = RBrace /\ tail[2] = "CRLF"
  BY DEF Octet
<1>2. size \in Seq(Octet) /\ d \in Nat
  BY SeqMonotonic DEF Octet
<1>3. Marker(size) = (head \o size) \o tail
  BY DEF Marker
<1> HIDE DEF head, tail, d
<1> DEFINE front == head \o size
<1>4. /\ front \in Seq(Octet) /\ Len(front) = 1 + d
      /\ \A i \in 1 .. 1 + d : front[i] = IF i <= 1 THEN head[i] ELSE size[i-1]
  <2>1. Len(size) = d
    BY DEF d
  <2>2. /\ front \in Seq(Octet) /\ Len(front) = Len(head) + Len(size)
        /\ \A i \in 1 .. Len(head) + Len(size) :
             front[i] = IF i <= Len(head) THEN head[i] ELSE size[i - Len(head)]
    <3>1. head \in Seq(Octet) /\ size \in Seq(Octet)
      BY <1>1, <1>2
    <3> QED BY <3>1, OctetsConcat
  <2> HIDE DEF front
  <2>3. Len(front) = 1 + d /\ \A i \in 1 .. 1 + d : front[i] = IF i <= 1 THEN head[i] ELSE size[i-1]
    <3>1. Len(head) = 1
      BY <1>1
    <3> QED BY <2>1, <2>2, <3>1
  <2> QED BY <2>2, <2>3
<1> HIDE DEF front
<1>5. /\ Marker(size) \in Seq(Octet) /\ Len(Marker(size)) = (1 + d) + 2
      /\ \A i \in 1 .. (1 + d) + 2 :
           Marker(size)[i] = IF i <= 1 + d THEN front[i] ELSE tail[i - (1 + d)]
  <2>1. Marker(size) = front \o tail
    BY <1>3 DEF front
  <2>2. /\ front \o tail \in Seq(Octet) /\ Len(front \o tail) = Len(front) + Len(tail)
        /\ \A i \in 1 .. Len(front) + Len(tail) :
             (front \o tail)[i] = IF i <= Len(front) THEN front[i] ELSE tail[i - Len(front)]
    <3>1. front \in Seq(Octet) /\ tail \in Seq(Octet)
      BY <1>1, <1>4
    <3> QED BY <3>1, OctetsConcat
  <2>3. Len(front) = 1 + d /\ Len(tail) = 2
    BY <1>1, <1>4
  <2> QED BY <2>1, <2>2, <2>3
<1>6. Marker(size)[1] = LBrace
  <2>1. 1 \in 1 .. (1 + d) + 2 /\ 1 <= 1 + d /\ 1 \in 1 .. 1 + d
    BY <1>2
  <2> QED BY <1>1, <1>4, <1>5, <2>1
<1>7. ASSUME NEW i \in 1..d PROVE Marker(size)[i+1] = size[i]
  <2>1. i+1 \in 1 .. (1 + d) + 2 /\ i+1 <= 1 + d /\ i+1 \in 1 .. 1 + d /\ ~ (i+1 <= 1) /\ (i+1)-1 = i
    BY <1>2
  <2> QED BY <1>4, <1>5, <2>1
<1>8. Marker(size)[d + 2] = RBrace
  <2>1. d + 2 \in 1 .. (1 + d) + 2 /\ ~ (d + 2 <= 1 + d) /\ (d + 2) - (1 + d) = 1
    BY <1>2
  <2> QED BY <1>1, <1>5, <2>1
<1>9. Marker(size)[d + 3] = "CRLF"
  <2>1. d + 3 \in 1 .. (1 + d) + 2 /\ ~ (d + 3 <= 1 + d) /\ (d + 3) - (1 + d) = 2
    BY <1>2
  <2> QED BY <1>1, <1>5, <2>1
<1>10. Len(Marker(size)) = d + 3
  BY <1>2, <1>5
<1> QED BY <1>5, <1>6, <1>7, <1>8, <1>9, <1>10 DEF d

LEMMA NoBraceIsDigit == LBrace \notin Digits /\ RBrace \notin Digits /\ "CRLF" \notin Digits
BY DEF Digits, LBrace, RBrace

\* literalSize finds the marker that a text ends with.
LEMMA LiteralSizeOfMarker ==
  ASSUME NEW s \in Seq(Octet), NEW size \in Seq(Digits), size # <<>>, Number(size) \in 0..MaxInt
  PROVE  LiteralSize(s \o Marker(size)) = Number(size)
<1> DEFINE m      == Marker(size)
           d      == Len(size)
           text   == s \o m
           l      == Len(text)
           inside == SubSeq(text, 1, l-2)
           k      == TrailingDigits(inside)
<1>1. /\ m \in Seq(Octet) /\ Len(m) = d + 3 /\ m[1] = LBrace
      /\ \A i \in 1..d : m[i+1] = size[i]
      /\ m[d + 2] = RBrace /\ m[d + 3] = "CRLF"
  BY MarkerOctets
<1>2. d \in Nat \ {0} /\ \A i \in 1..d : size[i] \in Digits
  BY EmptySeq
<1> HIDE DEF m, d
<1>3. /\ text \in Seq(Octet) /\ l \in Nat /\ l >= d + 3 /\ Len(s) = l - (d + 3)
      /\ \A i \in 1 .. d + 3 : text[l - (d + 3) + i] = m[i]
  <2>1. text \in Seq(Octet) /\ Len(text) = Len(s) + Len(m) /\ Len(s) \in Nat
    BY <1>1, OctetsConcat
  <2>2. \A i \in 1 .. Len(s) + Len(m) : text[i] = IF i <= Len(s) THEN s[i] ELSE m[i - Len(s)]
    BY <1>1, OctetsConcat
  <2>3. l = Len(s) + (d + 3)
    BY <1>1, <2>1
  <2> HIDE DEF text
  <2>4. ASSUME NEW i \in 1 .. d + 3 PROVE text[Len(s) + i] = m[i]
    <3>1. Len(s) + i \in 1 .. Len(s) + (d + 3) /\ ~ (Len(s) + i <= Len(s)) /\ (Len(s) + i) - Len(s) = i
      BY <1>2, <2>1
    <3> QED BY <1>1, <2>2, <3>1
  <2> HIDE DEF l
  <2>5. l \in Nat /\ l >= d + 3 /\ Len(s) = l - (d + 3)
    BY <1>2, <2>1, <2>3
  <2> QED BY <2>1, <2>4, <2>5
<1> HIDE DEF text, l
<1>4. /\ text[l] = "CRLF" /\ text[l-1] = RBrace /\ text[l-2-d] = LBrace
      /\ \A i \in 1..d : text[l-2-d+i] = size[i]
  <2>1. text[l] = m[d + 3]
    <3>1. d + 3 \in 1 .. d + 3 /\ l - (d + 3) + (d + 3) = l
      BY <1>2, <1>3
    <3> QED BY <1>3, <3>1
  <2>2. text[l-1] = m[d + 2]
    <3>1. d + 2 \in 1 .. d + 3 /\ l - (d + 3) + (d + 2) = l-1
      BY <1>2, <1>3
    <3> QED BY <1>3, <3>1
  <2>3. text[l-2-d] = m[1]
    <3>1. 1 \in 1 .. d + 3 /\ l - (d + 3) + 1 = l-2-d
      BY <1>2, <1>3
    <3> QED BY <1>3, <3>1
  <2>4. ASSUME NEW i \in 1..d PROVE text[l-2-d+i] = size[i]
    <3>1. i+1 \in 1 .. d + 3 /\ l - (d + 3) + (i+1) = l-2-d+i
      BY <1>2, <1>3
    <3> QED BY <1>1, <1>3, <3>1
  <2> QED BY <1>1, <2>1, <2>2, <2>3, <2>4
<1>5. /\ inside \in Seq(Octet) /\ Len(inside) = l-2
      /\ \A i \in 1 .. l-2 : inside[i] = text[i]
  BY <1>2, <1>3 DEF l
<1> HIDE DEF inside
<1>6. k = d
  <2> DEFINE h == l-2
  <2>1. h \in Nat /\ h >= d + 1
    BY <1>2, <1>3
  <2>2. /\ k \in 0..h /\ \A i \in h-k+1 .. h : inside[i] \in Digits
        /\ k < h => inside[h-k] \notin Digits
    BY <1>5, TrailingDigitsOfText
  <2>3. ASSUME NEW i \in 0 .. d-1 PROVE inside[h-i] \in Digits
    <3>1. d-i \in 1..d /\ l-2-d+(d-i) = h-i /\ h-i \in 1 .. l-2
      BY <1>2, <2>1
    <3> QED BY <1>2, <1>4, <1>5, <3>1
  <2>4. inside[h-d] \notin Digits
    <3>1. l-2-d = h-d /\ h-d \in 1 .. l-2
      BY <1>2, <2>1
    <3> QED BY <1>4, <1>5, <3>1, NoBraceIsDigit
  <2> HIDE DEF h, k
  <2>5. ~ (k < d)
    <3> SUFFICES ASSUME k < d PROVE FALSE
      OBVIOUS
    <3>1. k \in 0 .. d-1 /\ k < h
      BY <1>2, <2>1, <2>2
    <3> QED BY <2>2, <2>3, <3>1
  <2>6. ~ (k > d)
    <3> SUFFICES ASSUME k > d PROVE FALSE
      OBVIOUS
    <3>1. h-d \in h-k+1 .. h
      BY <1>2, <2>1, <2>2
    <3> QED BY <2>2, <2>4, <3>1
  <2> QED BY <1>2, <2>1, <2>2, <2>5, <2>6
<1>7. SubSeq(text, l-1-d, l-2) = size
  <2> DEFINE cut == SubSeq(text, l-1-d, l-2)
  <2>1. l-1-d \in 1..l /\ l-2 \in 1..l /\ l-1-d <= l-2 /\ (l-2) - (l-1-d) + 1 = d
    BY <1>2, <1>3
  <2>2. cut \in Seq(Octet) /\ Len(cut) = d /\ \A i \in 1..d : cut[i] = text[(l-1-d) + i - 1]
    <3>1. l-1-d \in Nat \ {0} /\ l-2 \in Nat /\ l-1-d <= l-2 /\ l-2 <= l
      <4>1. l \in Nat
        BY <1>3
      <4>2. d \in Nat
        BY <1>2
      <4> QED BY <2>1, <4>1, <4>2
    <3>2. l = Len(text)
      BY DEF l
    <3>3. /\ cut \in Seq(Octet) /\ Len(cut) = (l-2) - (l-1-d) + 1
          /\ \A i \in 1 .. (l-2) - (l-1-d) + 1 : cut[i] = text[(l-1-d) + i - 1]
      <4> DEFINE a == l-1-d
                 b == l-2
      <4>1. a \in Nat \ {0} /\ b \in Nat /\ a <= b /\ b <= Len(text) /\ text \in Seq(Octet)
        BY <1>3, <3>1, <3>2
      <4> HIDE DEF a, b
      <4>2. /\ SubSeq(text, a, b) \in Seq(Octet) /\ Len(SubSeq(text, a, b)) = b-a+1
            /\ \A i \in 1 .. b-a+1 : SubSeq(text, a, b)[i] = text[a+i-1]
        BY <4>1, OctetsCut
      <4> QED BY <4>2 DEF a, b
    <3> QED BY <2>1, <3>3
  <2> HIDE DEF cut
  <2>3. \A i \in 1..d : cut[i] = size[i]
    <3> TAKE i \in 1..d
    <3>1. (l-1-d) + i - 1 = l-2-d+i
      BY <1>2, <1>3
    <3> QED BY <1>4, <2>2, <3>1
  <2>4. size \in Seq(Octet) /\ Len(size) = d
    BY SeqMonotonic DEF Octet, d
  <2> QED BY <2>2, <2>3, <2>4, SeqEqual DEF cut
<1>8. LiteralSize(text) =
        IF /\ l >= 4
           /\ text[l] = "CRLF" /\ text[l-1] = RBrace
           /\ k > 0 /\ k < Len(inside) /\ text[l-2-k] = LBrace
           /\ Number(SubSeq(text, l-1-k, l-2)) <= MaxInt
        THEN Number(SubSeq(text, l-1-k, l-2)) ELSE -1
  BY DEF LiteralSize, l, inside
<1>9. d > 0 /\ d < l-2 /\ l >= 4 /\ Number(size) <= MaxInt
  BY <1>2, <1>3, BoundsAssumption
<1> HIDE DEF k
<1>10. LiteralSize(text) = Number(size)
  BY <1>4, <1>5, <1>6, <1>7, <1>8, <1>9
<1> QED BY <1>10 DEF text, m

-----------------------------------------------------------------------------
(* Encodings, piece by piece. *)

\* A text, the marker of the literal behind it, and the literal.
Piece(r, i) == r.texts[i] \o Marker(r.sizes[i]) \o r.literals[i]

\* What comes before the k-th text.
Before(r, k) == FlattenSeq([i \in 1 .. k-1 |-> Piece(r, i)])

\* The line that the k-th text begins.
Line(r, k) ==
  r.texts[k] \o (IF k = Len(r.texts) THEN <<"CRLF">> ELSE Marker(r.sizes[k]))

LEMMA ReplyTypes ==
  ASSUME NEW r \in Replies
  PROVE  /\ Len(r.literals) \in Nat /\ Len(r.texts) = Len(r.literals) + 1
         /\ \A i \in 1..Len(r.texts) : /\ r.texts[i] \in Seq(Octet)
                                       /\ \A j \in 1..Len(r.texts[i]) : r.texts[i][j] # "CRLF"
         /\ \A i \in 1..Len(r.literals) :
              /\ r.literals[i] \in Seq(Octet)
              /\ r.sizes[i] \in Seq(Digits) /\ r.sizes[i] # <<>>
              /\ Number(r.sizes[i]) = Len(r.literals[i]) /\ Len(r.literals[i]) \in 0..MaxInt
<1> DEFINE Plain == Octet \ {"CRLF"}
<1>1. /\ r.texts \in Seq(Seq(Plain)) /\ r.literals \in Seq(Seq(Octet)) /\ r.sizes \in Seq(Seq(Digits))
      /\ Len(r.texts) = Len(r.literals) + 1 /\ Len(r.sizes) = Len(r.literals)
      /\ \A i \in 1..Len(r.literals) :
           r.sizes[i] # <<>> /\ Number(r.sizes[i]) = Len(r.literals[i]) /\ Len(r.literals[i]) <= MaxInt
  BY RepliesAssumption
<1>2. Plain \subseteq Octet /\ "CRLF" \notin Plain
  OBVIOUS
<1> HIDE DEF Plain
<1>3. \A t \in Seq(Plain) : t \in Seq(Octet) /\ \A j \in 1..Len(t) : t[j] # "CRLF"
  BY <1>2, SeqMonotonic
<1>4. \A i \in 1..Len(r.texts) : r.texts[i] \in Seq(Plain)
  BY <1>1
<1>5. \A i \in 1..Len(r.literals) :
        r.literals[i] \in Seq(Octet) /\ Len(r.literals[i]) \in Nat /\ r.sizes[i] \in Seq(Digits)
  <2>1. \A i \in 1..Len(r.literals) : r.literals[i] \in Seq(Octet)
    BY <1>1
  <2>2. \A i \in 1..Len(r.sizes) : r.sizes[i] \in Seq(Digits)
    BY <1>1
  <2>3. \A t \in Seq(Octet) : Len(t) \in Nat
    OBVIOUS
  <2>4. Len(r.sizes) = Len(r.literals)
    BY <1>1
  <2> QED BY <2>1, <2>2, <2>3, <2>4
<1>6. Len(r.literals) \in Nat /\ Len(r.texts) = Len(r.literals) + 1
  BY <1>1
<1>7. \A i \in 1..Len(r.literals) : Len(r.literals[i]) \in 0..MaxInt
  <2> TAKE i \in 1..Len(r.literals)
  <2> DEFINE size == Len(r.literals[i])
  <2>1. size \in Nat /\ size <= MaxInt
    BY <1>1, <1>5
  <2> HIDE DEF size
  <2>2. size \in 0..MaxInt
    BY <2>1, BoundsAssumption
  <2> QED BY <2>2 DEF size
<1>8. \A i \in 1..Len(r.texts) : r.texts[i] \in Seq(Octet) /\ \A j \in 1..Len(r.texts[i]) : r.texts[i][j] # "CRLF"
  BY <1>3, <1>4
<1> QED BY <1>1, <1>5, <1>6, <1>7, <1>8

LEMMA PieceType ==
  ASSUME NEW r \in Replies, NEW i \in 1..Len(r.literals)
  PROVE  Piece(r, i) \in Seq(Octet)
<1>1. /\ r.texts[i] \in Seq(Octet) /\ r.literals[i] \in Seq(Octet)
      /\ r.sizes[i] \in Seq(Digits)
  <2>1. i \in 1..Len(r.texts)
    BY ReplyTypes
  <2> QED BY <2>1, ReplyTypes
<1>2. Marker(r.sizes[i]) \in Seq(Octet)
  BY <1>1, MarkerOctets
<1> QED BY <1>1, <1>2 DEF Piece

LEMMA PiecesType ==
  ASSUME NEW r \in Replies, NEW k \in 0..Len(r.literals)
  PROVE  /\ [i \in 1..k |-> Piece(r, i)] \in Seq(Seq(Octet))
         /\ Len([i \in 1..k |-> Piece(r, i)]) = k
<1>1. k \in Nat /\ \A i \in 1..k : Piece(r, i) \in Seq(Octet)
  BY PieceType, ReplyTypes
<1> QED BY <1>1

LEMMA BeforeSteps ==
  ASSUME NEW r \in Replies
  PROVE  /\ Before(r, 1) = <<>>
         /\ \A k \in 1..Len(r.texts) : Before(r, k) \in Seq(Octet)
         /\ \A k \in 1..Len(r.literals) : Before(r, k+1) = Before(r, k) \o Piece(r, k)
<1> DEFINE Pieces(k) == [i \in 1..k |-> Piece(r, i)]
<1>1. Len(r.literals) \in Nat /\ Len(r.texts) = Len(r.literals) + 1
  BY ReplyTypes
<1>2. Before(r, 1) = <<>>
  <2>1. [i \in 1 .. 1-1 |-> Piece(r, i)] = <<>>
    OBVIOUS
  <2> QED BY <2>1, FlattenEmpty DEF Before
<1>3. ASSUME NEW k \in 1..Len(r.texts) PROVE Before(r, k) \in Seq(Octet)
  <2>1. k-1 \in 0..Len(r.literals)
    BY <1>1
  <2>2. Pieces(k-1) \in Seq(Seq(Octet))
    BY <2>1, PiecesType
  <2> HIDE DEF Pieces
  <2>3. FlattenSeq(Pieces(k-1)) \in Seq(Octet)
    BY <2>2, FlattenType
  <2> QED BY <2>3 DEF Before, Pieces
<1>4. ASSUME NEW k \in 1..Len(r.literals)
      PROVE  Before(r, k+1) = Before(r, k) \o Piece(r, k)
  <2>1. k-1 \in 0..Len(r.literals) /\ k \in Nat /\ (k+1)-1 = k
    BY <1>1
  <2>2. Pieces(k-1) \in Seq(Seq(Octet)) /\ Len(Pieces(k-1)) = k-1 /\ Piece(r, k) \in Seq(Octet)
    BY <2>1, PiecesType, PieceType
  <2>3. Pieces(k) = Append(Pieces(k-1), Piece(r, k))
    BY <2>1, <2>2
  <2> HIDE DEF Pieces
  <2>4. FlattenSeq(Pieces(k)) = FlattenSeq(Pieces(k-1)) \o Piece(r, k)
    BY <2>2, <2>3, FlattenAppend
  <2>5. Before(r, k) = FlattenSeq(Pieces(k-1)) /\ Before(r, k+1) = FlattenSeq(Pieces((k+1)-1))
    BY DEF Before, Pieces
  <2> QED BY <2>1, <2>4, <2>5
<1> QED BY <1>2, <1>3, <1>4

LEMMA EncodingFrom ==
  ASSUME NEW r \in Replies
  PROVE  /\ Encoding(r) \in Seq(Octet)
         /\ Encoding(r) = Before(r, Len(r.texts)) \o Line(r, Len(r.texts))
         /\ \A k \in 1..Len(r.literals) :
              \E rest \in Seq(Octet) : Encoding(r) = Before(r, k+1) \o rest
<1> DEFINE L == Len(r.literals)
           Pieces(k) == [i \in 1..k |-> Piece(r, i)]
           last == r.texts[L+1]
           end  == <<"CRLF">>
<1>1. L \in Nat /\ Len(r.texts) = L+1 /\ last \in Seq(Octet)
  <2>1. L \in Nat /\ Len(r.texts) = L+1
    BY ReplyTypes
  <2>2. L+1 \in 1..Len(r.texts)
    BY <2>1
  <2> QED BY <2>1, <2>2, ReplyTypes
<1>2. end \in Seq(Octet)
  BY DEF Octet
<1>3. ASSUME NEW k \in 0..L
      PROVE  /\ Pieces(k) \in Seq(Seq(Octet)) /\ Len(Pieces(k)) = k
             /\ FlattenSeq(Pieces(k)) \in Seq(Octet) /\ Before(r, k+1) = FlattenSeq(Pieces(k))
  <2>1. Pieces(k) \in Seq(Seq(Octet)) /\ Len(Pieces(k)) = k
    BY PiecesType
  <2>2. Before(r, k+1) = FlattenSeq(Pieces((k+1)-1)) /\ (k+1)-1 = k
    BY <1>1 DEF Before
  <2> HIDE DEF Pieces
  <2> QED BY <2>1, <2>2, FlattenType
<1>4. Encoding(r) = FlattenSeq(Pieces(L)) \o last \o end
  BY <1>1 DEF Encoding, Piece
<1>5. Line(r, L+1) = last \o end
  BY <1>1 DEF Line
<1>6. ASSUME NEW k \in 1..L
      PROVE  \E more \in Seq(Octet) : FlattenSeq(Pieces(L)) = FlattenSeq(Pieces(k)) \o more
  <2> DEFINE front == SubSeq(Pieces(L), 1, k)
             back  == SubSeq(Pieces(L), k+1, L)
  <2>1. k \in 0..L /\ L \in 0..L /\ Pieces(L) \in Seq(Seq(Octet)) /\ Len(Pieces(L)) = L
    <3>1. k \in 0..L /\ L \in 0..L
      BY <1>1
    <3> HIDE DEF Pieces
    <3> QED BY <1>3, <3>1
  <2>2. front = Pieces(k)
    BY <2>1
  <2>3. front \in Seq(Seq(Octet)) /\ back \in Seq(Seq(Octet)) /\ Pieces(L) = front \o back
    <3> HIDE DEF Pieces
    <3> QED BY <2>1, CutAt
  <2> HIDE DEF Pieces, front, back
  <2>4. FlattenSeq(Pieces(L)) = FlattenSeq(front) \o FlattenSeq(back)
    BY <2>3, FlattenConcat
  <2>5. FlattenSeq(back) \in Seq(Octet)
    BY <2>3, FlattenType
  <2> QED BY <2>2, <2>4, <2>5
<1> HIDE DEF Pieces, last, end, L
<1>7. Encoding(r) = Before(r, L+1) \o (last \o end) /\ Encoding(r) \in Seq(Octet)
  <2> DEFINE pre == FlattenSeq(Pieces(L))
  <2>1. L \in 0..L
    BY <1>1
  <2>2. pre \in Seq(Octet) /\ Before(r, L+1) = pre /\ Encoding(r) = (pre \o last) \o end
    BY <1>3, <1>4, <2>1
  <2> HIDE DEF pre
  <2>3. (pre \o last) \o end = pre \o (last \o end) /\ pre \o (last \o end) \in Seq(Octet)
    BY <1>1, <1>2, <2>2, ConcatAssociative
  <2> QED BY <2>2, <2>3
<1>8. ASSUME NEW k \in 1..L
      PROVE  \E rest \in Seq(Octet) : Encoding(r) = Before(r, k+1) \o rest
  <2>1. k \in 0..L /\ FlattenSeq(Pieces(k)) \in Seq(Octet)
    BY <1>1, <1>3
  <2>2. PICK more \in Seq(Octet) : FlattenSeq(Pieces(L)) = FlattenSeq(Pieces(k)) \o more
    BY <1>6
  <2>3. more \o (last \o end) \in Seq(Octet)
    BY <1>1, <1>2
  <2>4. Encoding(r) = FlattenSeq(Pieces(k)) \o (more \o (last \o end))
    <3> DEFINE pre == FlattenSeq(Pieces(k))
               rear == last \o end
    <3>1. pre \in Seq(Octet) /\ rear \in Seq(Octet) /\ Before(r, L+1) = pre \o more
      <4>1. L \in 0..L
        BY <1>1
      <4>2. Before(r, L+1) = FlattenSeq(Pieces(L))
        BY <1>3, <4>1
      <4>3. last \o end \in Seq(Octet)
        BY <1>1, <1>2
      <4> QED BY <2>1, <2>2, <4>2, <4>3
    <3> HIDE DEF pre, rear
    <3>2. (pre \o more) \o rear = pre \o (more \o rear)
      BY <3>1, ConcatAssociative
    <3> QED BY <1>7, <3>1, <3>2 DEF pre, rear
  <2>5. Before(r, k+1) = FlattenSeq(Pieces(k))
    BY <1>3, <2>1
  <2> QED BY <2>3, <2>4, <2>5
<1> QED BY <1>1, <1>5, <1>7, <1>8 DEF L

\* A line ends at its line end, and nowhere before.
LEMMA LineOctets ==
  ASSUME NEW r \in Replies, NEW k \in 1..Len(r.texts)
  PROVE  /\ Line(r, k) \in Seq(Octet) /\ Len(Line(r, k)) > 0
         /\ Line(r, k)[Len(Line(r, k))] = "CRLF"
         /\ \A j \in 1 .. Len(Line(r, k)) - 1 : Line(r, k)[j] # "CRLF"
<1> DEFINE t   == r.texts[k]
           end == IF k = Len(r.texts) THEN <<"CRLF">> ELSE Marker(r.sizes[k])
           s   == t \o end
<1>1. t \in Seq(Octet) /\ \A j \in 1..Len(t) : t[j] # "CRLF"
  BY ReplyTypes
<1>2. /\ end \in Seq(Octet) /\ Len(end) > 0 /\ end[Len(end)] = "CRLF"
      /\ \A j \in 1 .. Len(end) - 1 : end[j] # "CRLF"
  <2>1. CASE k = Len(r.texts)
    <3> DEFINE one == <<"CRLF">>
    <3>1. one \in Seq(Octet) /\ Len(one) = 1 /\ one[1] = "CRLF"
      BY DEF Octet
    <3>2. end = one
      BY <2>1
    <3> HIDE DEF one, end
    <3>3. one[Len(one)] = "CRLF" /\ \A j \in 1 .. Len(one) - 1 : one[j] # "CRLF"
      BY <3>1
    <3>4. Len(one) > 0
      BY <3>1
    <3> QED BY <3>1, <3>2, <3>3, <3>4
  <2>2. CASE k # Len(r.texts)
    <3> DEFINE m == Marker(r.sizes[k])
               d == Len(r.sizes[k])
    <3>1. k \in 1..Len(r.literals)
      BY <2>2, ReplyTypes
    <3>2. r.sizes[k] \in Seq(Digits) /\ d \in Nat /\ \A j \in 1..d : r.sizes[k][j] \in Digits
      BY <3>1, ReplyTypes
    <3>3. /\ m \in Seq(Octet) /\ Len(m) = d + 3 /\ m[d + 3] = "CRLF"
          /\ m[1] = LBrace /\ m[d + 2] = RBrace
          /\ \A j \in 1..d : m[j+1] = r.sizes[k][j]
      BY <3>2, MarkerOctets
    <3>4. LBrace # "CRLF" /\ RBrace # "CRLF" /\ "CRLF" \notin Digits
      BY NoBraceIsDigit, Zenon DEF LBrace, RBrace
    <3> HIDE DEF m, d
    <3>5. ASSUME NEW j \in 1 .. d + 2 PROVE m[j] # "CRLF"
      <4>1. CASE j \in 2 .. d + 1
        <5>1. j-1 \in 1..d /\ (j-1)+1 = j
          BY <3>2, <4>1
        <5>2. m[j] \in Digits
          BY <3>2, <3>3, <5>1
        <5> QED BY <3>4, <5>2
      <4>2. CASE j = 1 \/ j = d + 2
        BY <3>3, <3>4, <4>2
      <4> QED BY <3>2, <4>1, <4>2
    <3>6. end = m
      BY <2>2 DEF m
    <3> HIDE DEF end
    <3>7. m[Len(m)] = "CRLF" /\ \A j \in 1 .. Len(m) - 1 : m[j] # "CRLF"
      <4>1. Len(m) - 1 = d + 2
        BY <3>2, <3>3
      <4> QED BY <3>3, <3>5, <4>1
    <3>8. Len(m) > 0
      BY <3>2, <3>3
    <3> QED BY <3>3, <3>6, <3>7, <3>8
  <2> QED BY <2>1, <2>2
<1> HIDE DEF t, end
<1>3. s \in Seq(Octet) /\ Len(s) = Len(t) + Len(end) /\ Len(t) \in Nat /\ Len(end) \in Nat \ {0}
  BY <1>1, <1>2
<1>4. \A i \in 1 .. Len(t) + Len(end) : s[i] = IF i <= Len(t) THEN t[i] ELSE end[i - Len(t)]
  BY <1>1, <1>2, ConcatProperties
<1> HIDE DEF s
<1>5. s[Len(s)] = "CRLF"
  BY <1>2, <1>3, <1>4
<1>6. ASSUME NEW j \in 1 .. Len(s) - 1 PROVE s[j] # "CRLF"
  <2>1. CASE j <= Len(t)
    BY <1>1, <1>3, <1>4, <2>1
  <2>2. CASE ~ (j <= Len(t))
    <3>1. j - Len(t) \in 1 .. Len(end) - 1 /\ j \in 1 .. Len(t) + Len(end)
      BY <1>3, <2>2
    <3> QED BY <1>2, <1>4, <2>2, <3>1
  <2> QED BY <2>1, <2>2
<1>7. Line(r, k) = s
  BY DEF Line, s, t, end
<1> QED BY <1>3, <1>5, <1>6, <1>7

-----------------------------------------------------------------------------
(* What the two callbacks return. *)

LEMMA FirstLineType ==
  ASSUME stream \in Seq(Octet), LineEnds # {}
  PROVE  /\ FirstLine \in LineEnds /\ FirstLine \in 1..Len(stream)
         /\ \A j \in LineEnds : FirstLine <= j
<1>1. LineEnds \subseteq 1..Len(stream) /\ LineEnds \subseteq Nat
  BY DEF LineEnds
<1>2. \E i \in LineEnds : \A j \in LineEnds : i <= j
  BY <1>1, HasLeast
<1> QED BY <1>1, <1>2 DEF FirstLine

LEMMA FirstLineFound ==
  ASSUME stream \in Seq(Octet), NEW line \in Seq(Octet), NEW rest \in Seq(Octet),
         stream = line \o rest, Len(line) > 0, line[Len(line)] = "CRLF",
         \A j \in 1 .. Len(line) - 1 : line[j] # "CRLF"
  PROVE  /\ LineEnds # {}
         /\ SubSeq(stream, 1, FirstLine) = line
         /\ SubSeq(stream, FirstLine + 1, Len(stream)) = rest
<1> DEFINE l == Len(line)
<1>1. l \in Nat \ {0} /\ l \in 1..Len(stream) /\ Len(stream) \in Nat /\ \A j \in 1..l : stream[j] = line[j]
  BY ConcatProperties
<1>2. l \in LineEnds
  BY <1>1 DEF LineEnds
<1>3. \A j \in LineEnds : ~ (j < l)
  BY <1>1 DEF LineEnds
<1> HIDE DEF l
<1>4. FirstLine = l
  BY <1>1, <1>2, <1>3, FirstLineType
<1> QED BY <1>2, <1>4, CutOfConcat DEF l

-----------------------------------------------------------------------------
(* Type correctness. *)

LEMMA WholeType == \A e \in Whole : e \in Seq(Octet)
BY EncodingFrom DEF Whole

LEMMA FragmentType == \A f \in Fragments : f \in Seq(Octet)
<1> SUFFICES ASSUME NEW e \in Whole, NEW k \in 0 .. Len(e) - 1
             PROVE  SubSeq(e, 1, k) \in Seq(Octet)
  BY DEF Fragments
<1>1. e \in Seq(Octet) /\ k \in 0..Len(e)
  BY WholeType
<1> QED BY <1>1, CutAt

LEMMA TypeInit == Init => TypeOK
<1>1. 0 \in 0..MaxInt
  BY BoundsAssumption
<1>2. <<>> \in Seq(Octet) /\ <<>> \in Seq(Whole) /\ <<>> \in Seq(Seq(Octet))
  OBVIOUS
<1> QED BY <1>1, <1>2 DEF Init, TypeOK

LEMMA TypeNext == TypeOK /\ [Next]_vars => TypeOK'
<1> SUFFICES ASSUME TypeOK, [Next]_vars PROVE TypeOK'
  OBVIOUS
<1> USE DEF TypeOK
<1>1. ASSUME NEW response \in Whole, Send(response) PROVE TypeOK'
  <2>1. response \in Seq(Octet)
    BY WholeType
  <2> QED BY <1>1, <2>1 DEF Send
<1>2. ASSUME NEW fragment \in Fragments, Close(fragment) PROVE TypeOK'
  <2>1. fragment \in Seq(Octet)
    BY FragmentType
  <2> QED BY <1>2, <2>1 DEF Close
<1>3. CASE Call
  BY <1>3 DEF Call
<1>4. CASE ReadLine
  <2> DEFINE line  == SubSeq(stream, 1, FirstLine)
             whole == buf \o line
  <2>1. line \in Seq(Octet) /\ SubSeq(stream, FirstLine + 1, Len(stream)) \in Seq(Octet)
    <3>1. FirstLine \in 0..Len(stream)
      BY <1>4, FirstLineType DEF ReadLine
    <3> QED BY <3>1, CutAt
  <2>2. whole \in Seq(Octet)
    BY <2>1
  <2>3. LiteralSize(whole) \in 0..MaxInt \union {-1}
    BY <2>2, LiteralSizeType
  <2> HIDE DEF whole
  <2>4. stream' \in Seq(Octet) /\ closed' = closed /\ sent' = sent
    BY <1>4, <2>1 DEF ReadLine
  <2>5. \/ LiteralSize(whole) >= 0 /\ pc' = "readLiteral" /\ buf' = whole /\ n' = LiteralSize(whole)
           /\ delivered' = delivered
        \/ pc' = "idle" /\ buf' = <<>> /\ delivered' = Append(delivered, whole) /\ n' = n
    BY <1>4 DEF ReadLine, whole
  <2>6. n' \in 0..MaxInt
    <3>1. LiteralSize(whole) >= 0 => LiteralSize(whole) \in 0..MaxInt
      BY <2>3
    <3> QED BY <2>5, <3>1
  <2>7. buf' \in Seq(Octet) /\ pc' \in {"idle", "readLine", "readLiteral"}
    <3>1. pc' \in {"idle", "readLine", "readLiteral"}
      BY <2>5
    <3>2. CASE buf' = whole
      BY <2>2, <3>1, <3>2
    <3>3. CASE buf' = <<>>
      BY <3>1, <3>3
    <3> QED BY <2>5, <3>2, <3>3
  <2>8. delivered' \in Seq(Seq(Octet))
    <3>1. CASE delivered' = delivered
      BY <3>1
    <3>2. CASE delivered' = Append(delivered, whole)
      BY <2>2, <3>2, AppendProperties
    <3> QED BY <2>5, <3>1, <3>2
  <2> QED BY <2>4, <2>6, <2>7, <2>8
<1>5. CASE ReadLiteral
  <2>1. SubSeq(stream, 1, n) \in Seq(Octet) /\ SubSeq(stream, n + 1, Len(stream)) \in Seq(Octet)
    <3>1. n \in 0..Len(stream)
      BY <1>5, BoundsAssumption DEF ReadLiteral
    <3> QED BY <3>1, CutAt
  <2> QED BY <1>5, <2>1 DEF ReadLiteral
<1>6. CASE EndOfStream
  BY <1>6 DEF EndOfStream
<1>7. CASE UNCHANGED vars
  BY <1>7 DEF vars
<1> QED BY <1>1, <1>2, <1>3, <1>4, <1>5, <1>6, <1>7 DEF Next, Server, Reader

\* What ReadBuffer keeps between its callbacks is well-typed: in particular the
\* size it reads is one that fits an int (reader.go literalSize).
THEOREM TypeCorrect == Spec => []TypeOK
<1>1. Init => TypeOK
  BY TypeInit
<1>2. TypeOK /\ [Next]_vars => TypeOK'
  BY TypeNext
<1> QED BY <1>1, <1>2, PTL DEF Spec

-----------------------------------------------------------------------------
(* Nothing is lost, whatever the replies look like. *)

\* Between two calls nothing is being assembled.
IdleInv == pc = "idle" => buf = <<>>

LEMMA IdleNext == IdleInv /\ [Next]_vars => IdleInv'
BY DEF IdleInv, Next, Server, Reader, Send, Close, Call, ReadLine, ReadLiteral, EndOfStream, vars

LEMMA NothingLostNext == TypeOK /\ IdleInv /\ NothingLost /\ [Next]_vars => NothingLost'
<1> SUFFICES ASSUME TypeOK, IdleInv, NothingLost, [Next]_vars, ~ closed'
             PROVE  (FlattenSeq(delivered) \o buf \o stream = FlattenSeq(sent))'
  BY DEF NothingLost
<1> DEFINE done == FlattenSeq(delivered)
           all  == FlattenSeq(sent)
<1>1. /\ stream \in Seq(Octet) /\ buf \in Seq(Octet)
      /\ sent \in Seq(Seq(Octet)) /\ delivered \in Seq(Seq(Octet))
  <2>1. Whole \subseteq Seq(Octet)
    BY WholeType
  <2> QED BY <2>1, SeqMonotonic DEF TypeOK
<1>2. done \in Seq(Octet) /\ all \in Seq(Octet)
  BY <1>1, FlattenType
<1>3. ~ closed
  BY DEF TypeOK, Next, Server, Reader, Send, Close, Call, ReadLine, ReadLiteral, EndOfStream, vars
<1>4. (done \o buf) \o stream = all
  BY <1>3 DEF NothingLost
<1>5. ASSUME NEW response \in Whole, Send(response)
      PROVE  (FlattenSeq(delivered) \o buf \o stream = FlattenSeq(sent))'
  <2>1. response \in Seq(Octet)
    BY WholeType
  <2>2. FlattenSeq(Append(sent, response)) = all \o response
    BY <1>1, <2>1, FlattenAppend
  <2>3. (done \o buf) \o (stream \o response) = ((done \o buf) \o stream) \o response
    <3> DEFINE both == done \o buf
    <3> HIDE DEF done
    <3>1. both \in Seq(Octet)
      BY <1>1, <1>2
    <3> HIDE DEF both
    <3>2. (both \o stream) \o response = both \o (stream \o response)
      <4>1. Associates(both, stream, response)
        BY <1>1, <2>1, <3>1, ConcatOfThree
      <4> QED BY <4>1 DEF Associates
    <3> QED BY <3>2 DEF both
  <2> QED BY <1>4, <1>5, <2>2, <2>3 DEF Send
<1>6. ASSUME NEW fragment \in Fragments, Close(fragment) PROVE FALSE
  BY <1>6 DEF Close
<1>7. CASE Call
  <2>1. buf = <<>>
    BY <1>7 DEF Call, IdleInv
  <2> QED BY <1>4, <1>7, <2>1 DEF Call
<1>8. CASE ReadLine
  <2> DEFINE line  == SubSeq(stream, 1, FirstLine)
             rest  == SubSeq(stream, FirstLine + 1, Len(stream))
             whole == buf \o line
  <2>1. line \in Seq(Octet) /\ rest \in Seq(Octet) /\ stream = line \o rest
    <3>1. FirstLine \in 0..Len(stream)
      BY <1>1, <1>8, FirstLineType DEF ReadLine
    <3> QED BY <1>1, <3>1, CutAt
  <2>2. /\ stream' = rest /\ sent' = sent
        /\ \/ buf' = whole /\ delivered' = delivered
           \/ buf' = <<>> /\ delivered' = Append(delivered, whole)
    BY <1>8 DEF ReadLine
  <2> HIDE DEF line, rest, done
  <2>3. (done \o buf) \o (line \o rest) = (done \o whole) \o rest
    <3>1. done \o buf \in Seq(Octet)
      BY <1>1, <1>2
    <3>2. Associates(done \o buf, line, rest)
      BY <2>1, <3>1, ConcatOfThree
    <3>3. Associates(done, buf, line)
      BY <1>1, <1>2, <2>1, ConcatOfThree
    <3> QED BY <3>2, <3>3 DEF Associates
  <2>4. CASE buf' = whole /\ delivered' = delivered
    BY <1>4, <2>1, <2>2, <2>3, <2>4 DEF done
  <2>5. CASE buf' = <<>> /\ delivered' = Append(delivered, whole)
    <3>1. whole \in Seq(Octet)
      BY <1>1, <2>1
    <3> HIDE DEF whole
    <3>2. FlattenSeq(Append(delivered, whole)) = done \o whole
      BY <1>1, <3>1, FlattenAppend DEF done
    <3>3. (done \o whole) \o <<>> = done \o whole
      BY <1>2, <3>1
    <3> QED BY <1>4, <2>1, <2>2, <2>3, <2>5, <3>2, <3>3
  <2> QED BY <2>2, <2>4, <2>5
<1>9. CASE ReadLiteral
  <2> DEFINE payload == SubSeq(stream, 1, n)
             rest    == SubSeq(stream, n + 1, Len(stream))
  <2>1. payload \in Seq(Octet) /\ rest \in Seq(Octet) /\ stream = payload \o rest
    <3>1. n \in 0..Len(stream)
      BY <1>9, BoundsAssumption DEF ReadLiteral, TypeOK
    <3> QED BY <1>1, <3>1, CutAt
  <2>2. stream' = rest /\ sent' = sent /\ buf' = buf \o payload /\ delivered' = delivered
    BY <1>9 DEF ReadLiteral
  <2> HIDE DEF payload, rest, done
  <2>3. (done \o buf) \o (payload \o rest) = (done \o (buf \o payload)) \o rest
    <3>1. done \o buf \in Seq(Octet)
      BY <1>1, <1>2
    <3>2. Associates(done \o buf, payload, rest)
      BY <2>1, <3>1, ConcatOfThree
    <3>3. Associates(done, buf, payload)
      BY <1>1, <1>2, <2>1, ConcatOfThree
    <3> QED BY <3>2, <3>3 DEF Associates
  <2> QED BY <1>4, <2>1, <2>2, <2>3 DEF done
<1>10. CASE EndOfStream
  BY <1>3, <1>10 DEF EndOfStream
<1>11. CASE UNCHANGED vars
  BY <1>4, <1>11 DEF vars
<1> QED BY <1>5, <1>6, <1>7, <1>8, <1>9, <1>10, <1>11 DEF Next, Server, Reader

\* ReadBuffer splices lines and literals without loss or duplication, whatever
\* the server sends and wherever a line seems to announce a literal.
THEOREM NothingIsLost == Spec => []NothingLost
<1>1. Init => TypeOK /\ IdleInv /\ NothingLost
  <2>1. Init => IdleInv
    BY DEF Init, IdleInv
  <2>2. Init => NothingLost
    BY FlattenEmpty DEF Init, NothingLost
  <2> QED BY <2>1, <2>2, TypeInit
<1>2. TypeOK /\ IdleInv /\ NothingLost /\ [Next]_vars => (TypeOK /\ IdleInv /\ NothingLost)'
  BY TypeNext, IdleNext, NothingLostNext
<1> QED BY <1>1, <1>2, PTL DEF Spec

-----------------------------------------------------------------------------
(* Replies come whole and in order. *)

\* No reply looks, as a whole, as if a literal followed it.
Clear == \A r \in Replies : LiteralSize(Encoding(r)) = -1

\* The reply that is being read: the first of those sent in full and not yet
\* delivered, or else the one that was cut off.
Upcoming(r, pending, tail) ==
  IF pending # <<>> THEN pending[1] = Encoding(r)
  ELSE \E missing \in Seq(Octet) : missing # <<>> /\ tail \o missing = Encoding(r)

\* ReadBuffer stands before a text of that reply, or before a literal.
BeforeText(r, pending, tail) ==
  Upcoming(r, pending, tail) /\ \E k \in 1..Len(r.texts) : buf = Before(r, k)

BeforeLiteral(r, pending, tail) ==
  /\ Upcoming(r, pending, tail)
  /\ \E k \in 1..Len(r.literals) :
       buf = Before(r, k) \o Line(r, k) /\ n = Len(r.literals[k])

Parts(pending, tail) ==
  /\ sent = delivered \o pending
  /\ buf \o stream = FlattenSeq(pending) \o tail
  /\ tail # <<>> => closed /\ tail \in Fragments
  /\ pc = "idle" => buf = <<>>
  /\ pc = "readLine" /\ buf # <<>> => \E r \in Replies : BeforeText(r, pending, tail)
  /\ pc = "readLiteral" => \E r \in Replies : BeforeLiteral(r, pending, tail)

\* What was sent is what was delivered, what is still to come in full, and the
\* beginning of one reply at most, which only the end of the connection cuts off.
InOrder == \E pending \in Seq(Whole), tail \in Seq(Octet) : Parts(pending, tail)

LEMMA PendingType ==
  ASSUME NEW pending \in Seq(Whole)
  PROVE  pending \in Seq(Seq(Octet)) /\ FlattenSeq(pending) \in Seq(Octet)
<1>1. Whole \subseteq Seq(Octet)
  BY WholeType
<1>2. pending \in Seq(Seq(Octet))
  BY <1>1, SeqMonotonic
<1> QED BY <1>2, FlattenType

LEMMA PendingFirst ==
  ASSUME NEW pending \in Seq(Whole), pending # <<>>
  PROVE  /\ Tail(pending) \in Seq(Whole) /\ pending[1] \in Whole /\ pending[1] \in Seq(Octet)
         /\ pending = <<pending[1]>> \o Tail(pending)
         /\ FlattenSeq(pending) = pending[1] \o FlattenSeq(Tail(pending))
         /\ FlattenSeq(Tail(pending)) \in Seq(Octet)
<1> DEFINE e    == pending[1]
           rest == Tail(pending)
<1>1. rest \in Seq(Whole) /\ e \in Whole /\ pending = <<e>> \o rest
  BY CutFirst
<1> HIDE DEF e, rest
<1>2. e \in Seq(Octet) /\ rest \in Seq(Seq(Octet)) /\ FlattenSeq(rest) \in Seq(Octet)
  BY <1>1, WholeType, PendingType
<1>3. FlattenSeq(<<e>> \o rest) = e \o FlattenSeq(rest)
  BY <1>2, FlattenCons
<1> QED BY <1>1, <1>2, <1>3 DEF e, rest

\* A fragment is the beginning of some reply, and not all of it.
LEMMA FragmentOfReply ==
  ASSUME NEW f \in Fragments
  PROVE  \E r \in Replies : \E missing \in Seq(Octet) : missing # <<>> /\ f \o missing = Encoding(r)
<1>1. PICK e \in Whole : \E k \in 0 .. Len(e) - 1 : f = SubSeq(e, 1, k)
  BY DEF Fragments
<1>2. PICK k \in 0 .. Len(e) - 1 : f = SubSeq(e, 1, k)
  BY <1>1
<1>3. PICK r \in Replies : e = Encoding(r)
  BY DEF Whole
<1> DEFINE missing == SubSeq(e, k+1, Len(e))
<1>4. e \in Seq(Octet) /\ k \in 0..Len(e)
  BY WholeType
<1>5. missing \in Seq(Octet) /\ Len(missing) = Len(e) - k /\ e = f \o missing
  BY <1>2, <1>4, CutAt
<1> HIDE DEF missing
<1>6. missing # <<>>
  <2>1. Len(e) - k > 0
    BY <1>4
  <2> QED BY <1>5, <2>1
<1> QED BY <1>3, <1>5, <1>6

\* Either the reply being read has arrived in full, or part of it is missing.
LEMMA Arrived ==
  ASSUME TypeOK, NEW pending \in Seq(Whole), NEW tail \in Seq(Octet), Parts(pending, tail),
         NEW r \in Replies, Upcoming(r, pending, tail)
  PROVE  \E z \in Seq(Octet) :
           \/ pending # <<>> /\ buf \o stream = Encoding(r) \o z
           \/ pending = <<>> /\ z # <<>> /\ (buf \o stream) \o z = Encoding(r)
<1>1. buf \o stream = FlattenSeq(pending) \o tail
  BY DEF Parts
<1>2. CASE pending # <<>>
  <2> DEFINE rest == FlattenSeq(Tail(pending))
             e    == pending[1]
  <2>1. e \in Seq(Octet) /\ rest \in Seq(Octet) /\ FlattenSeq(pending) = e \o rest
    BY <1>2, PendingFirst
  <2>2. e = Encoding(r)
    BY <1>2 DEF Upcoming
  <2> HIDE DEF rest, e
  <2>3. Associates(e, rest, tail)
    BY <2>1, ConcatOfThree
  <2>4. rest \o tail \in Seq(Octet)
    BY <2>1
  <2> QED BY <1>1, <1>2, <2>1, <2>2, <2>3, <2>4 DEF Associates
<1>3. CASE pending = <<>>
  <2>1. PICK missing \in Seq(Octet) : missing # <<>> /\ tail \o missing = Encoding(r)
    BY <1>3 DEF Upcoming
  <2>2. buf \o stream = tail
    BY <1>1, <1>3, FlattenEmpty
  <2> QED BY <1>3, <2>1, <2>2
<1> QED BY <1>2, <1>3

\* What is left of a reply: the line, and what follows it.
LEMMA RestOfReply ==
  ASSUME NEW r \in Replies, NEW k \in 1..Len(r.texts)
  PROVE  \E rest \in Seq(Octet) :
           /\ Encoding(r) = Before(r, k) \o (Line(r, k) \o rest)
           /\ k = Len(r.texts) => rest = <<>>
<1>1. Before(r, k) \in Seq(Octet) /\ Line(r, k) \in Seq(Octet)
  BY BeforeSteps, LineOctets
<1>2. CASE k = Len(r.texts)
  <2>1. Line(r, k) \o <<>> = Line(r, k)
    BY <1>1
  <2>2. <<>> \in Seq(Octet)
    OBVIOUS
  <2> QED BY <1>2, <2>1, <2>2, EncodingFrom
<1>3. CASE k # Len(r.texts)
  <2> DEFINE pre  == Before(r, k)
             line == Line(r, k)
             lit  == r.literals[k]
  <2>1. k \in 1..Len(r.literals)
    BY <1>3, ReplyTypes
  <2>2. PICK rest \in Seq(Octet) : Encoding(r) = Before(r, k+1) \o rest
    BY <2>1, EncodingFrom
  <2>3. lit \in Seq(Octet) /\ pre \in Seq(Octet) /\ line \in Seq(Octet)
    BY <1>1, <2>1, ReplyTypes
  <2>4. Piece(r, k) = line \o lit
    BY <1>3 DEF Piece, Line
  <2>5. Before(r, k+1) = pre \o Piece(r, k)
    BY <2>1, BeforeSteps
  <2> HIDE DEF pre, line, lit
  <2>6. Associative(pre, line, lit, rest) /\ lit \o rest \in Seq(Octet)
    BY <2>3, ConcatOfFour
  <2> QED BY <1>3, <2>2, <2>4, <2>5, <2>6 DEF Associative, pre, line
<1> QED BY <1>2, <1>3

\* A line that can be read is the one the reply has at this place, and the last
\* line of a reply can be read only of one that was sent in full.
LEMMA LineArrives ==
  ASSUME TypeOK, NEW pending \in Seq(Whole), NEW tail \in Seq(Octet), Parts(pending, tail),
         pc = "readLine", LineEnds # {} \/ pending # <<>>
  PROVE  /\ LineEnds # {}
         /\ \E r \in Replies : /\ Upcoming(r, pending, tail)
                               /\ \E k \in 1..Len(r.texts) :
                                    /\ buf = Before(r, k)
                                    /\ SubSeq(stream, 1, FirstLine) = Line(r, k)
                                    /\ k = Len(r.texts) => pending # <<>>
<1>1. stream \in Seq(Octet) /\ buf \in Seq(Octet)
  BY DEF TypeOK
<1>2. \E r \in Replies : BeforeText(r, pending, tail)
  <2>1. CASE buf # <<>>
    BY <2>1 DEF Parts
  <2>2. CASE buf = <<>>
    <3>1. \A r \in Replies : Upcoming(r, pending, tail) => BeforeText(r, pending, tail)
      <4> SUFFICES ASSUME NEW r \in Replies PROVE \E k \in 1..Len(r.texts) : buf = Before(r, k)
        BY DEF BeforeText
      <4>1. 1 \in 1..Len(r.texts) /\ Before(r, 1) = <<>>
        BY ReplyTypes, BeforeSteps
      <4> QED BY <2>2, <4>1
    <3>2. CASE pending # <<>>
      <4>1. PICK r \in Replies : pending[1] = Encoding(r)
        BY <3>2, PendingFirst DEF Whole
      <4> QED BY <3>1, <3>2, <4>1 DEF Upcoming
    <3>3. CASE pending = <<>>
      <4>1. stream = tail
        BY <1>1, <2>2, <3>3, FlattenEmpty DEF Parts
      <4>2. tail # <<>>
        BY <3>3, <4>1 DEF LineEnds
      <4>3. tail \in Fragments
        BY <4>2 DEF Parts
      <4> QED BY <3>1, <3>3, <4>3, FragmentOfReply DEF Upcoming
    <3> QED BY <3>2, <3>3
  <2> QED BY <2>1, <2>2
<1>3. PICK r \in Replies : BeforeText(r, pending, tail)
  BY <1>2
<1>4. PICK k \in 1..Len(r.texts) : buf = Before(r, k)
  BY <1>3 DEF BeforeText
<1>5. Upcoming(r, pending, tail)
  BY <1>3 DEF BeforeText
<1>6. PICK rest \in Seq(Octet) : /\ Encoding(r) = Before(r, k) \o (Line(r, k) \o rest)
                                 /\ k = Len(r.texts) => rest = <<>>
  BY RestOfReply
<1>7. PICK z \in Seq(Octet) :
           \/ pending # <<>> /\ buf \o stream = Encoding(r) \o z
           \/ pending = <<>> /\ z # <<>> /\ (buf \o stream) \o z = Encoding(r)
  BY <1>5, Arrived
<1> DEFINE line == Line(r, k)
<1>8. /\ line \in Seq(Octet) /\ Len(line) > 0 /\ line[Len(line)] = "CRLF"
      /\ \A j \in 1 .. Len(line) - 1 : line[j] # "CRLF"
  BY LineOctets
<1> HIDE DEF line
<1>9. Encoding(r) = buf \o (line \o rest)
  BY <1>4, <1>6 DEF line
<1>10. CASE pending # <<>>
  <2>1. buf \o stream = (buf \o (line \o rest)) \o z
    BY <1>7, <1>9, <1>10
  <2>2. rest \o z \in Seq(Octet)
    OBVIOUS
  <2>3. BehindWhole(buf, stream, line, rest, z)
    BY <1>1, <1>8, WholeBehind
  <2>4. stream = line \o (rest \o z)
    BY <2>1, <2>3 DEF BehindWhole
  <2>5. LineEnds # {} /\ SubSeq(stream, 1, FirstLine) = line
    <3> DEFINE more == rest \o z
    <3> HIDE DEF more
    <3> QED BY <1>1, <1>8, <2>2, <2>4, FirstLineFound DEF more
  <2> QED BY <1>4, <1>5, <1>10, <2>5 DEF line
<1>11. CASE pending = <<>>
  <2>1. PICK p \in LineEnds : TRUE
    BY <1>11
  <2>2. stream \o z = line \o rest
    <3>1. (buf \o stream) \o z = buf \o (line \o rest)
      BY <1>7, <1>9, <1>11
    <3>2. BehindPart(buf, stream, line, rest, z)
      BY <1>1, <1>8, PartBehind
    <3> QED BY <3>1, <3>2 DEF BehindPart
  <2>3. Len(line) <= Len(stream)
    <3> SUFFICES ASSUME Len(stream) < Len(line) PROVE FALSE
      BY <1>1, <1>8
    <3>1. p \in 1..Len(stream) /\ stream[p] = "CRLF"
      BY <2>1 DEF LineEnds
    <3>2. p \in 1 .. Len(line) - 1 /\ Len(line) \in Nat /\ Len(rest) \in Nat /\ Len(z) \in Nat
          /\ Len(stream) \in Nat
      BY <1>1, <1>8, <3>1
    <3>3. (stream \o z)[p] = stream[p]
      <4>1. stream \in Seq(Octet) /\ z \in Seq(Octet)
        BY <1>1, <1>8
      <4>2. p \in 1 .. Len(stream) + Len(z) /\ p <= Len(stream)
        BY <3>1, <3>2
      <4> QED BY <4>1, <4>2, OctetsConcat
    <3>4. (line \o rest)[p] = line[p]
      <4>1. line \in Seq(Octet) /\ rest \in Seq(Octet)
        BY <1>1, <1>8
      <4>2. p \in 1 .. Len(line) + Len(rest) /\ p <= Len(line)
        BY <3>2
      <4> QED BY <4>1, <4>2, OctetsConcat
    <3> QED BY <1>8, <2>2, <3>1, <3>2, <3>3, <3>4
  <2>4. PICK w \in Seq(Octet) : stream = line \o w /\ rest = w \o z
    <3>1. line \o rest = stream \o z
      BY <2>2
    <3>2. stream \in Seq(Octet) /\ line \in Seq(Octet)
      BY <1>1, <1>8
    <3>3. Overlap(Octet, line, rest, stream, z)
      BY <3>2, Overlaps
    <3> QED BY <2>3, <3>1, <3>3 DEF Overlap
  <2>5. LineEnds # {} /\ SubSeq(stream, 1, FirstLine) = line
    BY <1>1, <1>8, <2>4, FirstLineFound
  <2>6. k # Len(r.texts)
    <3> SUFFICES ASSUME rest = <<>> PROVE FALSE
      BY <1>6
    <3>1. z = <<>>
      <4>1. w \o z = <<>>
        BY <2>4
      <4> QED BY <4>1, ConcatEqualIffEmpty
    <3> QED BY <1>7, <1>11, <3>1
  <2> QED BY <1>4, <1>5, <2>5, <2>6 DEF line
<1> QED BY <1>10, <1>11

\* A literal that can be read is the one the reply has at this place.
LEMMA LiteralArrives ==
  ASSUME TypeOK, NEW pending \in Seq(Whole), NEW tail \in Seq(Octet), Parts(pending, tail),
         pc = "readLiteral", Len(stream) >= n \/ pending # <<>>
  PROVE  /\ Len(stream) >= n
         /\ \E r \in Replies : /\ Upcoming(r, pending, tail)
                               /\ \E k \in 1..Len(r.literals) :
                                    buf \o SubSeq(stream, 1, n) = Before(r, k+1)
<1>1. stream \in Seq(Octet) /\ buf \in Seq(Octet)
  BY DEF TypeOK
<1>2. PICK r \in Replies : BeforeLiteral(r, pending, tail)
  BY DEF Parts
<1>3. PICK k \in 1..Len(r.literals) : buf = Before(r, k) \o Line(r, k) /\ n = Len(r.literals[k])
  BY <1>2 DEF BeforeLiteral
<1>4. Upcoming(r, pending, tail)
  BY <1>2 DEF BeforeLiteral
<1> DEFINE lit  == r.literals[k]
           pre  == Before(r, k)
           line == Line(r, k)
<1>5. k \in 1..Len(r.texts) /\ k # Len(r.texts) /\ lit \in Seq(Octet)
  <2>1. Len(r.literals) \in Nat /\ Len(r.texts) = Len(r.literals) + 1
    BY ReplyTypes
  <2>2. lit \in Seq(Octet)
    BY ReplyTypes
  <2> QED BY <2>1, <2>2
<1>6. Before(r, k+1) = buf \o lit
  <2>1. pre \in Seq(Octet) /\ line \in Seq(Octet)
    BY <1>5, BeforeSteps, LineOctets
  <2>2. Piece(r, k) = line \o lit
    BY <1>5 DEF Piece, Line
  <2>3. Before(r, k+1) = pre \o Piece(r, k)
    BY BeforeSteps
  <2>4. buf = pre \o line
    BY <1>3
  <2> HIDE DEF pre, line, lit
  <2>5. Associates(pre, line, lit)
    BY <1>5, <2>1, ConcatOfThree
  <2> QED BY <2>2, <2>3, <2>4, <2>5 DEF Associates
<1>7. PICK rest \in Seq(Octet) : Encoding(r) = Before(r, k+1) \o rest
  BY EncodingFrom
<1>8. n = Len(lit)
  BY <1>3
<1> HIDE DEF lit
<1>9. Encoding(r) = buf \o (lit \o rest)
  <2>1. Associates(buf, lit, rest)
    BY <1>1, <1>5, ConcatOfThree
  <2> QED BY <1>6, <1>7, <2>1 DEF Associates
<1>10. PICK z \in Seq(Octet) :
           \/ pending # <<>> /\ buf \o stream = Encoding(r) \o z
           \/ pending = <<>> /\ z # <<>> /\ (buf \o stream) \o z = Encoding(r)
  BY <1>4, Arrived
<1>11. \E w \in Seq(Octet) : stream = lit \o w
  <2>1. CASE pending # <<>>
    <3>1. buf \o stream = (buf \o (lit \o rest)) \o z
      BY <1>9, <1>10, <2>1
    <3>2. rest \o z \in Seq(Octet)
      OBVIOUS
    <3>3. BehindWhole(buf, stream, lit, rest, z)
      BY <1>1, <1>5, WholeBehind
    <3>4. stream = lit \o (rest \o z)
      BY <3>1, <3>3 DEF BehindWhole
    <3> QED BY <3>2, <3>4
  <2>2. CASE pending = <<>>
    <3>1. (buf \o stream) \o z = buf \o (lit \o rest)
      BY <1>9, <1>10, <2>2
    <3>2. lit \o rest = stream \o z
      <4>1. BehindPart(buf, stream, lit, rest, z)
        BY <1>1, <1>5, PartBehind
      <4> QED BY <3>1, <4>1 DEF BehindPart
    <3>3. Len(lit) <= Len(stream)
      BY <1>1, <1>5, <1>8, <2>2
    <3>4. stream \in Seq(Octet) /\ lit \in Seq(Octet)
      BY <1>1, <1>5
    <3>5. Overlap(Octet, lit, rest, stream, z)
      BY <3>4, Overlaps
    <3> QED BY <3>2, <3>3, <3>5 DEF Overlap
  <2> QED BY <2>1, <2>2
<1>12. PICK w \in Seq(Octet) : stream = lit \o w
  BY <1>11
<1>13. SubSeq(stream, 1, n) = lit
  BY <1>5, <1>8, <1>12, CutOfConcat
<1>14. Len(stream) >= n
  BY <1>5, <1>8, <1>12, ConcatProperties
<1> QED BY <1>4, <1>6, <1>13, <1>14

\* A line read either completes the reply, which is then delivered, or announces
\* its next literal.
LEMMA LineCompletesOrAnnounces ==
  ASSUME Clear, TypeOK, NEW pending \in Seq(Whole), NEW tail \in Seq(Octet),
         Parts(pending, tail), ReadLine
  PROVE  /\ buf \o stream = (buf \o SubSeq(stream, 1, FirstLine)) \o stream'
         /\ \/ /\ pending # <<>> /\ pending[1] = buf \o SubSeq(stream, 1, FirstLine)
               /\ pc' = "idle" /\ buf' = <<>>
               /\ delivered' = Append(delivered, pending[1])
            \/ /\ pc' = "readLiteral" /\ delivered' = delivered
               /\ buf' = buf \o SubSeq(stream, 1, FirstLine)
               /\ \E r \in Replies :
                    /\ Upcoming(r, pending, tail)
                    /\ \E k \in 1..Len(r.literals) :
                         buf' = Before(r, k) \o Line(r, k) /\ n' = Len(r.literals[k])
<1> DEFINE line  == SubSeq(stream, 1, FirstLine)
           whole == buf \o line
<1>1. stream \in Seq(Octet) /\ buf \in Seq(Octet)
  BY DEF TypeOK
<1>2. LineEnds # {} /\ pc = "readLine" /\ stream' = SubSeq(stream, FirstLine + 1, Len(stream))
  BY DEF ReadLine
<1>3. line \in Seq(Octet) /\ stream' \in Seq(Octet) /\ stream = line \o stream'
  <2>1. FirstLine \in 0..Len(stream)
    BY <1>1, <1>2, FirstLineType
  <2> QED BY <1>1, <1>2, <2>1, CutAt
<1>4. PICK r \in Replies : /\ Upcoming(r, pending, tail)
                           /\ \E k \in 1..Len(r.texts) :
                                /\ buf = Before(r, k)
                                /\ line = Line(r, k)
                                /\ k = Len(r.texts) => pending # <<>>
  BY <1>2, LineArrives
<1>5. PICK k \in 1..Len(r.texts) : /\ buf = Before(r, k)
                                   /\ line = Line(r, k)
                                   /\ k = Len(r.texts) => pending # <<>>
  BY <1>4
<1>6. buf \o stream = whole \o stream'
  <2> HIDE DEF line
  <2>1. Associates(buf, line, stream')
    BY <1>1, <1>3, ConcatOfThree
  <2> QED BY <1>3, <2>1 DEF Associates
<1>7. \/ LiteralSize(whole) >= 0 /\ pc' = "readLiteral" /\ buf' = whole /\ n' = LiteralSize(whole)
         /\ delivered' = delivered
      \/ LiteralSize(whole) < 0 /\ pc' = "idle" /\ buf' = <<>> /\ delivered' = Append(delivered, whole)
  BY DEF ReadLine
<1>8. CASE k = Len(r.texts)
  <2>1. whole = Encoding(r)
    BY <1>5, <1>8, EncodingFrom
  <2>2. LiteralSize(whole) = -1
    BY <2>1 DEF Clear
  <2>3. pending # <<>> /\ pending[1] = whole
    BY <1>4, <1>5, <1>8, <2>1 DEF Upcoming
  <2> HIDE DEF whole, line
  <2>4. ~ (LiteralSize(whole) >= 0)
    BY <2>2
  <2>5. pc' = "idle" /\ buf' = <<>> /\ delivered' = Append(delivered, pending[1])
    BY <1>7, <2>3, <2>4
  <2> QED BY <1>6, <2>3, <2>5 DEF whole, line
<1>9. CASE k # Len(r.texts)
  <2> DEFINE size == r.sizes[k]
             len  == Len(r.literals[k])
             t    == r.texts[k]
  <2>1. /\ k \in 1..Len(r.literals) /\ size \in Seq(Digits) /\ size # <<>> /\ t \in Seq(Octet)
        /\ Number(size) = len /\ len \in 0..MaxInt
    <3>1. k \in 1..Len(r.literals)
      BY <1>9, ReplyTypes
    <3> QED BY <3>1, ReplyTypes
  <2>2. line = t \o Marker(size)
    BY <1>5, <1>9 DEF Line
  <2>3. Marker(size) \in Seq(Octet)
    BY <2>1, MarkerOctets
  <2> HIDE DEF size, len, t, line
  <2>4. whole = (buf \o t) \o Marker(size) /\ buf \o t \in Seq(Octet)
    <3>1. Associates(buf, t, Marker(size))
      BY <1>1, <2>1, <2>3, ConcatOfThree
    <3>2. buf \o t \in Seq(Octet)
      BY <1>1, <2>1
    <3> QED BY <2>2, <3>1, <3>2 DEF Associates
  <2>5. LiteralSize(whole) = len /\ len >= 0
    <3> DEFINE front == buf \o t
    <3> HIDE DEF whole, front
    <3>1. LiteralSize(front \o Marker(size)) = Number(size)
      BY <2>1, <2>4, LiteralSizeOfMarker DEF front
    <3> QED BY <2>1, <2>4, <3>1 DEF front
  <2> HIDE DEF whole
  <2>6. pc' = "readLiteral" /\ buf' = whole /\ n' = len /\ delivered' = delivered
    BY <1>7, <2>1, <2>5
  <2>7. whole = Before(r, k) \o Line(r, k)
    BY <1>5 DEF whole, line
  <2> QED BY <1>4, <1>6, <2>1, <2>6, <2>7 DEF whole, line, len
<1> QED BY <1>8, <1>9

LEMMA InOrderInit == Init => InOrder
<1> SUFFICES ASSUME Init PROVE Parts(<<>>, <<>>)
  <2>1. <<>> \in Seq(Whole) /\ <<>> \in Seq(Octet)
    OBVIOUS
  <2> QED BY <2>1 DEF InOrder
<1> QED BY FlattenEmpty DEF Init, Parts

\* Something arrives behind what has not been read.
LEMMA InOrderArrives ==
  ASSUME TypeOK, NEW pending \in Seq(Whole), Parts(pending, <<>>),
         NEW more \in Seq(Whole), NEW tail \in Seq(Octet),
         UNCHANGED <<pc, buf, n, delivered>>,
         sent' = sent \o more,
         stream' = stream \o (FlattenSeq(more) \o tail),
         tail # <<>> => closed' /\ tail \in Fragments
  PROVE  InOrder'
<1> DEFINE new   == FlattenSeq(more)
           old   == FlattenSeq(pending)
           later == pending \o more
<1>1. /\ stream \in Seq(Octet) /\ buf \in Seq(Octet) /\ delivered \in Seq(Seq(Octet))
      /\ new \in Seq(Octet) /\ old \in Seq(Octet) /\ later \in Seq(Whole)
      /\ pending \in Seq(Seq(Octet)) /\ more \in Seq(Seq(Octet))
  BY PendingType DEF TypeOK
<1>2. buf \o stream = old
  BY <1>1 DEF Parts
<1>3. FlattenSeq(later) = old \o new
  BY <1>1, FlattenConcat
<1>4. sent' = delivered' \o later
  <2>1. sent = delivered \o pending /\ delivered' = delivered
    BY DEF Parts
  <2>2. Associates(delivered, pending, more)
    BY <1>1, ConcatOfThree
  <2> QED BY <2>1, <2>2 DEF Associates
<1> HIDE DEF new, old
<1>5. buf' \o stream' = FlattenSeq(later) \o tail
  <2>1. buf \o (stream \o (new \o tail)) = (buf \o stream) \o (new \o tail)
    <3> DEFINE nt == new \o tail
    <3>1. nt \in Seq(Octet)
      BY <1>1
    <3> HIDE DEF nt
    <3>2. Associates(buf, stream, nt)
      BY <1>1, <3>1, ConcatOfThree
    <3> QED BY <3>2 DEF Associates, nt
  <2>2. Associates(old, new, tail)
    BY <1>1, ConcatOfThree
  <2> QED BY <1>2, <1>3, <2>1, <2>2 DEF Associates, new
<1>6. ASSUME NEW r \in Replies, Upcoming(r, pending, <<>>), buf # <<>>
      PROVE  Upcoming(r, later, tail)
  <2>1. pending # <<>>
    <3> SUFFICES ASSUME pending = <<>> PROVE FALSE
      OBVIOUS
    <3>1. buf \o stream = <<>>
      BY <1>2, FlattenEmpty DEF old
    <3> QED BY <1>1, <1>6, <3>1, ConcatEqualIffEmpty
  <2>2. later # <<>> /\ later[1] = pending[1]
    BY <2>1
  <2> QED BY <1>6, <2>1, <2>2 DEF Upcoming
<1>7. pc' = "readLine" /\ buf' # <<>> => \E r \in Replies : BeforeText(r, later, tail)'
  <2> SUFFICES ASSUME pc = "readLine", buf # <<>>
               PROVE  \E r \in Replies : BeforeText(r, later, tail)'
    OBVIOUS
  <2>1. PICK r \in Replies : BeforeText(r, pending, <<>>)
    BY DEF Parts
  <2> HIDE DEF later
  <2> QED BY <1>6, <2>1 DEF BeforeText, Upcoming
<1>8. pc' = "readLiteral" => \E r \in Replies : BeforeLiteral(r, later, tail)'
  <2> SUFFICES ASSUME pc = "readLiteral" PROVE \E r \in Replies : BeforeLiteral(r, later, tail)'
    OBVIOUS
  <2>1. PICK r \in Replies : BeforeLiteral(r, pending, <<>>)
    BY DEF Parts
  <2>2. PICK k \in 1..Len(r.literals) : buf = Before(r, k) \o Line(r, k) /\ n = Len(r.literals[k])
    BY <2>1 DEF BeforeLiteral
  <2>3. buf # <<>>
    <3>1. k \in 1..Len(r.texts)
      BY ReplyTypes
    <3>2. Before(r, k) \in Seq(Octet) /\ Line(r, k) \in Seq(Octet) /\ Len(Line(r, k)) > 0
      BY <3>1, BeforeSteps, LineOctets
    <3>3. Line(r, k) # <<>>
      BY <3>2
    <3> QED BY <2>2, <3>2, <3>3, ConcatEqualIffEmpty
  <2> HIDE DEF later
  <2> QED BY <1>6, <2>1, <2>3 DEF BeforeLiteral, Upcoming
<1>9. pc' = "idle" => buf' = <<>>
  BY DEF Parts
<1> HIDE DEF later
<1>10. Parts(later, tail)'
  BY <1>4, <1>5, <1>7, <1>8, <1>9 DEF Parts
<1> QED BY <1>1, <1>10 DEF InOrder

\* The first reply leaves the queue.
LEMMA InOrderDelivers ==
  ASSUME TypeOK, NEW pending \in Seq(Whole), NEW tail \in Seq(Octet), Parts(pending, tail),
         pending # <<>>, buf \o stream = pending[1] \o stream', stream' \in Seq(Octet),
         delivered' = Append(delivered, pending[1]), pc' = "idle", buf' = <<>>,
         UNCHANGED <<closed, sent>>
  PROVE  InOrder'
<1> DEFINE e    == pending[1]
           rest == Tail(pending)
           old  == FlattenSeq(rest)
           one  == <<e>>
<1>1. /\ rest \in Seq(Whole) /\ e \in Seq(Octet) /\ old \in Seq(Octet)
      /\ pending = one \o rest /\ FlattenSeq(pending) = e \o old
  BY PendingFirst
<1>2. one \in Seq(Seq(Octet)) /\ rest \in Seq(Seq(Octet)) /\ delivered \in Seq(Seq(Octet))
  BY <1>1, PendingType DEF TypeOK
<1>3. sent' = delivered' \o rest
  <2>1. Append(delivered, e) = delivered \o one
    BY <1>1, <1>2, AppendIsConcat
  <2> HIDE DEF one, rest, e
  <2>2. Associates(delivered, one, rest)
    BY <1>2, ConcatOfThree
  <2>3. sent = delivered \o (one \o rest)
    BY <1>1 DEF Parts
  <2> QED BY <2>1, <2>2, <2>3 DEF Associates, e
<1>4. buf' \o stream' = old \o tail
  <2> HIDE DEF old
  <2>1. Associates(e, old, tail)
    BY <1>1, ConcatOfThree
  <2>2. e \o stream' = e \o (old \o tail)
    BY <1>1, <2>1 DEF Parts, Associates
  <2>3. old \o tail \in Seq(Octet)
    BY <1>1
  <2> HIDE DEF e
  <2>4. stream' = old \o tail
    BY <1>1, <2>2, <2>3, ConcatSimplifications
  <2> QED BY <2>3, <2>4
<1>5. tail # <<>> => closed' /\ tail \in Fragments
  BY DEF Parts
<1> HIDE DEF e, rest, old, one
<1>6. Parts(rest, tail)'
  BY <1>3, <1>4, <1>5 DEF Parts, old
<1> QED BY <1>1, <1>6 DEF InOrder

\* A line or a literal moves from what has arrived to what is being assembled.
LEMMA InOrderReads ==
  ASSUME TypeOK, NEW pending \in Seq(Whole), NEW tail \in Seq(Octet), Parts(pending, tail),
         buf' \o stream' = buf \o stream, UNCHANGED <<closed, sent, delivered>>,
         \/ pc' = "readLine" /\ \E r \in Replies : BeforeText(r, pending, tail)'
         \/ pc' = "readLiteral" /\ \E r \in Replies : BeforeLiteral(r, pending, tail)'
  PROVE  InOrder'
<1>1. Parts(pending, tail)'
  BY DEF Parts
<1> QED BY <1>1 DEF InOrder

LEMMA InOrderNext == Clear /\ TypeOK /\ InOrder /\ [Next]_vars => InOrder'
<1> SUFFICES ASSUME Clear, TypeOK, [Next]_vars,
                    NEW pending \in Seq(Whole), NEW tail \in Seq(Octet), Parts(pending, tail)
             PROVE  InOrder'
  BY DEF InOrder
<1>1. TypeOK'
  BY TypeNext
<1>2. /\ stream \in Seq(Octet) /\ stream' \in Seq(Octet) /\ buf \in Seq(Octet)
      /\ sent \in Seq(Whole)
  BY <1>1 DEF TypeOK
<1>3. ASSUME NEW response \in Whole, Send(response) PROVE InOrder'
  <2> DEFINE one == <<response>>
  <2>1. tail = <<>>
    BY <1>3 DEF Send, Parts
  <2>2. response \in Seq(Octet)
    BY WholeType
  <2>3. one \in Seq(Whole) /\ FlattenSeq(one) = response
    BY <2>2, FlattenOne
  <2>4. response \o <<>> = response
    BY <2>2
  <2>5. sent' = sent \o one
    BY <1>2, <1>3, AppendIsConcat DEF Send
  <2>6. stream' = stream \o (FlattenSeq(one) \o <<>>)
    BY <1>3, <2>3, <2>4 DEF Send
  <2>7. UNCHANGED <<pc, buf, n, delivered>>
    BY <1>3 DEF Send
  <2> HIDE DEF one
  <2>8. <<>> \in Seq(Octet) /\ Parts(pending, <<>>)
    BY <2>1
  <2> QED BY <2>3, <2>5, <2>6, <2>7, <2>8, InOrderArrives
<1>4. ASSUME NEW fragment \in Fragments, Close(fragment) PROVE InOrder'
  <2>1. tail = <<>>
    BY <1>4 DEF Close, Parts
  <2>2. fragment \in Seq(Octet)
    BY FragmentType
  <2>3. <<>> \in Seq(Whole) /\ <<>> \o fragment = fragment
    BY <2>2
  <2>4. sent' = sent \o <<>>
    BY <1>2, <1>4 DEF Close
  <2>5. stream' = stream \o (FlattenSeq(<<>>) \o fragment)
    BY <1>4, <2>3, FlattenEmpty DEF Close
  <2>6. UNCHANGED <<pc, buf, n, delivered>> /\ closed'
    BY <1>4 DEF Close
  <2>7. Parts(pending, <<>>)
    BY <2>1
  <2> QED BY <2>2, <2>3, <2>4, <2>5, <2>6, <2>7, InOrderArrives
<1>5. CASE Call
  <2>1. Parts(pending, tail)'
    BY <1>5 DEF Call, Parts
  <2> QED BY <2>1 DEF InOrder
<1>6. CASE ReadLine
  <2> DEFINE whole == buf \o SubSeq(stream, 1, FirstLine)
  <2>1. /\ buf \o stream = whole \o stream'
        /\ \/ /\ pending # <<>> /\ pending[1] = whole
              /\ pc' = "idle" /\ buf' = <<>>
              /\ delivered' = Append(delivered, pending[1])
           \/ /\ pc' = "readLiteral" /\ delivered' = delivered /\ buf' = whole
              /\ \E r \in Replies :
                   /\ Upcoming(r, pending, tail)
                   /\ \E k \in 1..Len(r.literals) :
                        buf' = Before(r, k) \o Line(r, k) /\ n' = Len(r.literals[k])
    BY <1>6, LineCompletesOrAnnounces
  <2>2. UNCHANGED <<closed, sent>>
    BY <1>6 DEF ReadLine
  <2> HIDE DEF whole
  <2>3. CASE pc' = "idle"
    BY <1>2, <2>1, <2>2, <2>3, InOrderDelivers
  <2>4. CASE pc' = "readLiteral"
    <3>1. \E r \in Replies : BeforeLiteral(r, pending, tail)'
      BY <2>1, <2>4 DEF BeforeLiteral, Upcoming
    <3> QED BY <2>1, <2>2, <2>4, <3>1, InOrderReads
  <2> QED BY <2>1, <2>3, <2>4
<1>7. CASE ReadLiteral
  <2>1. pc = "readLiteral" /\ Len(stream) >= n
    BY <1>7 DEF ReadLiteral
  <2>2. PICK r \in Replies : /\ Upcoming(r, pending, tail)
                             /\ \E k \in 1..Len(r.literals) :
                                  buf \o SubSeq(stream, 1, n) = Before(r, k+1)
    BY <2>1, LiteralArrives
  <2>3. PICK k \in 1..Len(r.literals) : buf \o SubSeq(stream, 1, n) = Before(r, k+1)
    BY <2>2
  <2>4. /\ pc' = "readLine" /\ buf' = buf \o SubSeq(stream, 1, n)
        /\ stream' = SubSeq(stream, n + 1, Len(stream))
        /\ UNCHANGED <<closed, sent, delivered>>
    BY <1>7 DEF ReadLiteral
  <2>5. k+1 \in 1..Len(r.texts)
    BY ReplyTypes
  <2>6. BeforeText(r, pending, tail)'
    <3>1. Upcoming(r, pending, tail)'
      BY <2>2 DEF Upcoming
    <3> QED BY <2>3, <2>4, <2>5, <3>1 DEF BeforeText
  <2>7. buf' \o stream' = buf \o stream
    <3> DEFINE lit == SubSeq(stream, 1, n)
    <3>1. n \in 0..Len(stream)
      BY <1>2, <2>1, BoundsAssumption DEF TypeOK
    <3>2. lit \in Seq(Octet) /\ stream = lit \o stream'
      BY <1>2, <2>4, <3>1, CutAt
    <3> HIDE DEF lit
    <3>3. Associates(buf, lit, stream')
      BY <1>2, <3>2, ConcatOfThree
    <3> QED BY <2>4, <3>2, <3>3 DEF Associates, lit
  <2> QED BY <2>4, <2>6, <2>7, InOrderReads
<1>8. CASE EndOfStream
  <2>1. pending = <<>>
    <3> SUFFICES ASSUME pending # <<>> PROVE FALSE
      OBVIOUS
    <3>1. CASE pc = "readLine" /\ LineEnds = {}
      BY <3>1, LineArrives
    <3>2. CASE pc = "readLiteral" /\ Len(stream) < n
      <4>1. Len(stream) >= n
        BY <3>2, LiteralArrives
      <4>2. Len(stream) \in Nat /\ n \in Int
        BY <1>2, BoundsAssumption DEF TypeOK
      <4> QED BY <3>2, <4>1, <4>2
    <3> QED BY <1>8, <3>1, <3>2 DEF EndOfStream
  <2>2. sent' = delivered' \o <<>>
    BY <1>8, <2>1 DEF EndOfStream, Parts
  <2>3. pc' = "idle" /\ buf' = <<>> /\ stream' = <<>>
    BY <1>8 DEF EndOfStream
  <2>4. Parts(<<>>, <<>>)'
    BY <2>2, <2>3, FlattenEmpty DEF Parts
  <2>5. <<>> \in Seq(Whole) /\ <<>> \in Seq(Octet)
    OBVIOUS
  <2> QED BY <2>4, <2>5 DEF InOrder
<1>9. CASE UNCHANGED vars
  <2>1. Parts(pending, tail)'
    BY <1>9 DEF vars, Parts, BeforeText, BeforeLiteral, Upcoming
  <2> QED BY <2>1 DEF InOrder
<1> QED BY <1>3, <1>4, <1>5, <1>6, <1>7, <1>8, <1>9 DEF Next, Server, Reader

-----------------------------------------------------------------------------
(* The reader implements the channel. *)

LEMMA StepImplementsChannel ==
  Clear /\ TypeOK /\ InOrder /\ [Next]_vars => [Channel!Next]_(Channel!vars)
<1> SUFFICES ASSUME Clear, TypeOK, [Next]_vars,
                    NEW pending \in Seq(Whole), NEW tail \in Seq(Octet), Parts(pending, tail)
             PROVE  [Channel!Next]_(Channel!vars)
  BY DEF InOrder
<1>1. ASSUME NEW response \in Whole, Send(response) PROVE Channel!Send
  BY <1>1 DEF Send, Channel!Send
<1>2. CASE ReadLine
  <2>1. \/ pending # <<>> /\ delivered' = Append(delivered, pending[1])
        \/ delivered' = delivered
    BY <1>2, LineCompletesOrAnnounces
  <2>2. sent' = sent
    BY <1>2 DEF ReadLine
  <2>3. CASE pending # <<>> /\ delivered' = Append(delivered, pending[1])
    <3>1. delivered \in Seq(Seq(Octet)) /\ pending \in Seq(Seq(Octet)) /\ sent = delivered \o pending
      BY PendingType DEF TypeOK, Parts
    <3>2. Len(delivered) < Len(sent) /\ sent[Len(delivered) + 1] = pending[1]
      <4>1. Len(delivered) \in Nat /\ Len(pending) \in Nat \ {0} /\ Len(sent) = Len(delivered) + Len(pending)
        BY <2>3, <3>1
      <4>2. sent[Len(delivered) + 1] = pending[Len(delivered) + 1 - Len(delivered)]
        BY <3>1, <4>1, ConcatProperties
      <4>3. Len(delivered) + 1 - Len(delivered) = 1
        BY <4>1
      <4> QED BY <4>1, <4>2, <4>3
    <3> QED BY <2>2, <2>3, <3>2 DEF Channel!Next, Channel!Deliver
  <2>4. CASE delivered' = delivered
    BY <2>2, <2>4 DEF Channel!vars
  <2> QED BY <2>1, <2>3, <2>4
<1>3. CASE ReadLiteral \/ EndOfStream \/ Call \/ UNCHANGED vars
  BY <1>3 DEF ReadLiteral, EndOfStream, Call, vars, Channel!vars
<1>4. ASSUME NEW fragment \in Fragments, Close(fragment) PROVE UNCHANGED Channel!vars
  BY <1>4 DEF Close, Channel!vars
<1> QED BY <1>1, <1>2, <1>3, <1>4 DEF Next, Server, Reader, Channel!Next

\* ReadBuffer hands over the replies of the server whole, one per call and in the
\* order they were sent, wherever the connection ends, provided that none of them
\* ends, as a whole, like a line that announces a literal (reader.go ReadBuffer:
\* literalSize looks at all of what was assembled).
THEOREM ReaderImplementsChannel == ASSUME Clear PROVE Spec => ImplementsChannel
<1>1. Init => TypeOK /\ InOrder /\ Channel!Init
  BY TypeInit, InOrderInit DEF Init, Channel!Init
<1>2. TypeOK /\ InOrder /\ [Next]_vars => (TypeOK /\ InOrder)'
  BY TypeNext, InOrderNext
<1>3. TypeOK /\ InOrder /\ [Next]_vars => [Channel!Next]_(Channel!vars)
  BY StepImplementsChannel
<1> QED BY <1>1, <1>2, <1>3, PTL DEF Spec, ImplementsChannel, Channel!Spec
=============================================================================
