--------------------------- MODULE SequenceLemmas ---------------------------
(***************************************************************************)
(* Sequences cut and put together, and what FlattenSeq computes, for every *)
(* sequence of sequences.                                                  *)
(***************************************************************************)
EXTENDS NumberLemmas, SequenceTheorems, SequencesExt


-----------------------------------------------------------------------------
(* Cutting. *)

LEMMA CutAt ==
  ASSUME NEW E, NEW s \in Seq(E), NEW k \in 0..Len(s)
  PROVE  /\ SubSeq(s, 1, k) \in Seq(E) /\ SubSeq(s, k+1, Len(s)) \in Seq(E)
         /\ Len(SubSeq(s, 1, k)) = k /\ Len(SubSeq(s, k+1, Len(s))) = Len(s) - k
         /\ s = SubSeq(s, 1, k) \o SubSeq(s, k+1, Len(s))
<1> DEFINE l == Len(s)
<1>1. l \in Nat /\ \A i \in 1..l : s[i] \in E
  OBVIOUS
<1>2. 1 \in 1 .. l+1 /\ k \in 1-1 .. l /\ l \in k..l /\ k \in Int /\ k+1 \in Int
  BY <1>1
<1>3. SubSeq(s, 1, k) \in Seq(E) /\ Len(SubSeq(s, 1, k)) = k
  BY <1>1, <1>2, SubSeqProperties
<1>4. SubSeq(s, k+1, l) \in Seq(E) /\ Len(SubSeq(s, k+1, l)) = l - k
  <2>1. \A i \in k+1 .. l : s[i] \in E
    BY <1>1, <1>2
  <2> HIDE DEF l
  <2> QED BY <1>1, <1>2, <2>1, SubSeqProperties
<1>5. SubSeq(s, 1, k) \o SubSeq(s, k+1, l) = SubSeq(s, 1, l)
  BY <1>2, ConcatAdjacentSubSeq
<1>6. SubSeq(s, 1, l) = s
  BY SubSeqFull
<1> QED BY <1>3, <1>4, <1>5, <1>6

LEMMA CutOfConcat ==
  ASSUME NEW E, NEW s \in Seq(E), NEW t \in Seq(E)
  PROVE  SubSeq(s \o t, 1, Len(s)) = s /\ SubSeq(s \o t, Len(s)+1, Len(s \o t)) = t
<1> DEFINE u == s \o t
<1>1. u \in Seq(E) /\ Len(u) = Len(s) + Len(t) /\ Len(s) \in 0..Len(u)
      /\ \A i \in 1..Len(s) : u[i] = s[i]
  BY ConcatProperties
<1> DEFINE front == SubSeq(u, 1, Len(s))
           back  == SubSeq(u, Len(s)+1, Len(u))
<1>2. front \in Seq(E) /\ back \in Seq(E) /\ Len(front) = Len(s) /\ u = front \o back
  <2> HIDE DEF u
  <2> QED BY <1>1, CutAt
<1>3. \A i \in 1..Len(s) : front[i] = s[i]
  <2> HIDE DEF u
  <2> QED BY <1>1
<1> HIDE DEF front, back
<1>4. front = s
  BY <1>2, <1>3, SeqEqual
<1>5. s \o t = s \o back
  BY <1>2, <1>4
<1>6. t = back
  BY <1>2, <1>5, ConcatSimplifications
<1> QED BY <1>4, <1>6 DEF front, back

LEMMA CutOne ==
  ASSUME NEW E, NEW s \in Seq(E), NEW i \in 1..Len(s)
  PROVE  SubSeq(s, i, i) = <<s[i]>>
<1> DEFINE one == <<s[i]>>
<1>1. one \in Seq(E) /\ Len(one) = 1 /\ one[1] = s[i]
  OBVIOUS
<1>2. SubSeq(s, i, i) \in Seq(E) /\ Len(SubSeq(s, i, i)) = 1 /\ SubSeq(s, i, i)[1] = s[i]
  OBVIOUS
<1> HIDE DEF one
<1>3. SubSeq(s, i, i) = one
  BY <1>1, <1>2, SeqEqual
<1> QED BY <1>3 DEF one

(***************************************************************************)
(* The laws of concatenation are named, so that citing one for given       *)
(* sequences does not leave the provers to search through concatenations.  *)
(***************************************************************************)
Overlap(E, s, t, u, v) ==
  s \o t = u \o v /\ Len(s) <= Len(u) => \E w \in Seq(E) : u = s \o w /\ t = w \o v
BehindWhole(s, t, u, v, w) == s \o t = (s \o (u \o v)) \o w => t = u \o (v \o w)
BehindPart(s, t, u, v, w)  == (s \o t) \o w = s \o (u \o v) => t \o w = u \o v
Associates(s, t, u)        == (s \o t) \o u = s \o (t \o u)
Associative(s, t, u, v)    == (s \o (t \o u)) \o v = s \o (t \o (u \o v))

LEMMA ConcatOfThree ==
  ASSUME NEW E, NEW s \in Seq(E), NEW t \in Seq(E), NEW u \in Seq(E)
  PROVE  Associates(s, t, u)
BY DEF Associates

\* Of two ways to cut the same sequence, the shorter front begins the longer.
LEMMA Overlaps ==
  ASSUME NEW E, NEW s \in Seq(E), NEW t \in Seq(E), NEW u \in Seq(E), NEW v \in Seq(E)
  PROVE  Overlap(E, s, t, u, v)
<1> DEFINE k     == Len(s)
           front == SubSeq(u, 1, k)
           rest  == SubSeq(u, k+1, Len(u))
<1>1. k \in Nat /\ Len(u) \in Nat
  OBVIOUS
<1> HIDE DEF k
<1>2. ASSUME k <= Len(u)
      PROVE  /\ front \in Seq(E) /\ rest \in Seq(E) /\ Len(front) = k
             /\ u = front \o rest /\ Len(rest) = Len(u) - k
  <2>1. k \in 0..Len(u)
    BY <1>1, <1>2
  <2>2. u = front \o rest
    BY <2>1, CutAt, Zenon
  <2>3. front \in Seq(E) /\ rest \in Seq(E) /\ Len(front) = k /\ Len(rest) = Len(u) - k
    BY <2>1, CutAt
  <2> HIDE DEF front, rest
  <2> QED BY <2>2, <2>3
<1> USE DEF k
<1> SUFFICES ASSUME s \o t = u \o v, Len(s) <= Len(u)
             PROVE  \E w \in Seq(E) : u = s \o w /\ t = w \o v
  BY DEF Overlap
<1>3. \A i \in 1..Len(s) : (s \o t)[i] = s[i] /\ (u \o v)[i] = u[i] /\ front[i] = u[i]
  <2>1. \A i \in 1..Len(s) : (s \o t)[i] = s[i]
    OBVIOUS
  <2>2. \A i \in 1..Len(s) : (u \o v)[i] = u[i] /\ front[i] = u[i]
    BY <1>1
  <2> QED BY <2>1, <2>2
<1> HIDE DEF front, rest
<1>4. front = s
  <2>1. \A i \in 1..Len(s) : front[i] = s[i]
    BY <1>3
  <2> QED BY <1>2, <2>1, SeqEqual
<1>5. u \o v = s \o (rest \o v) /\ rest \o v \in Seq(E)
  <2>1. u = s \o rest /\ rest \in Seq(E)
    BY <1>2, <1>4
  <2>2. (s \o rest) \o v = s \o (rest \o v)
    <3>1. Associates(s, rest, v)
      BY <2>1, ConcatOfThree
    <3> QED BY <3>1 DEF Associates
  <2> QED BY <2>1, <2>2
<1>6. t = rest \o v
  BY <1>5, ConcatSimplifications
<1>7. rest \in Seq(E) /\ u = s \o rest /\ t = rest \o v
  BY <1>2, <1>4, <1>6
<1> QED BY <1>7

\* What is behind a common front, when all that follows it is there, and when
\* only a part of it is.
LEMMA WholeBehind ==
  ASSUME NEW E, NEW s \in Seq(E), NEW t \in Seq(E), NEW u \in Seq(E), NEW v \in Seq(E),
         NEW w \in Seq(E)
  PROVE  BehindWhole(s, t, u, v, w)
<1> DEFINE uv == u \o v
<1>1. uv \in Seq(E)
  OBVIOUS
<1>2. uv \o w = u \o (v \o w)
  <2>1. Associates(u, v, w)
    BY ConcatOfThree
  <2> QED BY <2>1 DEF Associates
<1> HIDE DEF uv
<1>3. (s \o uv) \o w = s \o (uv \o w)
  <2>1. Associates(s, uv, w)
    BY <1>1, ConcatOfThree
  <2> QED BY <2>1 DEF Associates
<1>4. uv \o w \in Seq(E)
  BY <1>1
<1>5. ASSUME s \o t = s \o (uv \o w) PROVE t = uv \o w
  BY <1>4, <1>5, ConcatSimplifications
<1> QED BY <1>2, <1>3, <1>5 DEF BehindWhole, uv

LEMMA PartBehind ==
  ASSUME NEW E, NEW s \in Seq(E), NEW t \in Seq(E), NEW u \in Seq(E), NEW v \in Seq(E),
         NEW w \in Seq(E)
  PROVE  BehindPart(s, t, u, v, w)
<1> DEFINE uv == u \o v
           tw == t \o w
<1>1. uv \in Seq(E) /\ tw \in Seq(E)
  OBVIOUS
<1>2. (s \o t) \o w = s \o tw
  <2>1. Associates(s, t, w)
    BY ConcatOfThree
  <2> QED BY <2>1 DEF Associates
<1> HIDE DEF uv, tw
<1>3. ASSUME s \o tw = s \o uv PROVE tw = uv
  BY <1>1, <1>3, ConcatSimplifications
<1> QED BY <1>2, <1>3 DEF BehindPart, uv, tw

LEMMA ConcatOfFour ==
  ASSUME NEW E, NEW s \in Seq(E), NEW t \in Seq(E), NEW u \in Seq(E), NEW v \in Seq(E)
  PROVE  Associative(s, t, u, v)
BY DEF Associative

SameAppended(s, e, t, f) == Append(s, e) = Append(t, f) => s = t /\ e = f

LEMMA AppendedAlike ==
  ASSUME NEW E, NEW s \in Seq(E), NEW e \in E, NEW t \in Seq(E), NEW f \in E
  PROVE  SameAppended(s, e, t, f)
BY AppendInjective DEF SameAppended

LEMMA CutFirst ==
  ASSUME NEW E, NEW s \in Seq(E), s # <<>>
  PROVE  /\ s[1] \in E /\ Tail(s) \in Seq(E) /\ s = <<s[1]>> \o Tail(s)
         /\ Len(Tail(s)) = Len(s) - 1
<1>1. Len(s) \in Nat \ {0}
  OBVIOUS
<1>2. SubSeq(s, 1, Len(s)) = <<s[1]>> \o SubSeq(s, 2, Len(s))
  BY <1>1, SubSeqRecursiveFirst
<1>3. SubSeq(s, 1, Len(s)) = s /\ Tail(s) = SubSeq(s, 2, Len(s))
  BY SubSeqFull, TailIsSubSeq
<1> QED BY <1>1, <1>2, <1>3

LEMMA ConcatOfTuples ==
  ASSUME NEW E, NEW a \in E, NEW b \in E, NEW c \in E
  PROVE  <<a>> \o <<b>> = <<a, b>> /\ <<a, b>> \o <<c>> = <<a, b, c>>
<1>1. <<a>> \in Seq(E) /\ <<b>> \in Seq(E) /\ <<c>> \in Seq(E) /\ <<a, b>> \in Seq(E) /\ <<a, b, c>> \in Seq(E)
  OBVIOUS
<1>2. <<a>> \o <<b>> \in Seq(E) /\ Len(<<a>> \o <<b>>) = 2 /\ (<<a>> \o <<b>>)[1] = a /\ (<<a>> \o <<b>>)[2] = b
  BY <1>1
<1>3. /\ <<a, b>> \o <<c>> \in Seq(E) /\ Len(<<a, b>> \o <<c>>) = 3
      /\ (<<a, b>> \o <<c>>)[1] = a /\ (<<a, b>> \o <<c>>)[2] = b /\ (<<a, b>> \o <<c>>)[3] = c
  BY <1>1
<1>4. <<a>> \o <<b>> = <<a, b>>
  <2> DEFINE s == <<a>> \o <<b>>
             t == <<a, b>>
  <2>1. t \in Seq(E) /\ Len(t) = 2 /\ t[1] = a /\ t[2] = b
    BY <1>1
  <2> HIDE DEF s, t
  <2>2. \A i \in 1..2 : s[i] = t[i]
    BY <1>2, <2>1 DEF s
  <2> QED BY <1>2, <2>1, <2>2, SeqEqual DEF s, t
<1>5. <<a, b>> \o <<c>> = <<a, b, c>>
  <2> DEFINE s == <<a, b>> \o <<c>>
             t == <<a, b, c>>
  <2>1. t \in Seq(E) /\ Len(t) = 3 /\ t[1] = a /\ t[2] = b /\ t[3] = c
    BY <1>1
  <2> HIDE DEF s, t
  <2>2. \A i \in 1..3 : s[i] = t[i]
    BY <1>3, <2>1 DEF s
  <2>3. s \in Seq(E) /\ Len(s) = 3
    BY <1>3 DEF s
  <2> QED BY <2>1, <2>2, <2>3, SeqEqual DEF s, t
<1> QED BY <1>4, <1>5

LEMMA CutLast ==
  ASSUME NEW E, NEW s \in Seq(E), NEW n \in Nat, Len(s) = n+1
  PROVE  /\ SubSeq(s, 1, n) \in Seq(E) /\ Len(SubSeq(s, 1, n)) = n /\ s[n+1] \in E
         /\ s = Append(SubSeq(s, 1, n), s[n+1])
<1> DEFINE front == SubSeq(s, 1, n)
           last == s[n+1]
<1>1. front \in Seq(E) /\ Len(front) = n /\ last \in E /\ s = Append(front, last)
  OBVIOUS
<1> QED BY <1>1

-----------------------------------------------------------------------------
(* FlattenSeq. *)

\* What FlattenSeq computes step by step.
Flattening(seqs) ==
  CHOOSE f : f = [i \in 1..Len(seqs) |-> IF i = 1 THEN seqs[i] ELSE f[i-1] \o seqs[i]]

\* It exists: every value is a sequence, made from the one before.
LEMMA FlatteningExists ==
  ASSUME NEW E, NEW seqs \in Seq(Seq(E))
  PROVE  Flattening(seqs) =
           [i \in 1..Len(seqs) |-> IF i = 1 THEN seqs[i] ELSE Flattening(seqs)[i-1] \o seqs[i]]
<1> DEFINE n == Len(seqs)
           V == Seq(E)
           step == [i \in 1..n |-> [s \in V |-> s \o seqs[i]]]
<1>1. n \in Nat /\ \A i \in 1..n : seqs[i] \in V
  OBVIOUS
<1>2. step \in [1..n -> [V -> V]]
  BY <1>1
<1>3. <<>> \in V
  OBVIOUS
<1>4. \A i \in 1..n, s \in V : step[i][s] = s \o seqs[i]
  OBVIOUS
<1>5. \A s \in V : <<>> \o s = s
  OBVIOUS
<1> HIDE DEF step, V, n
<1>6. PICK f \in [0..n -> V] : f[0] = <<>> /\ \A i \in 1..n : f[i] = step[i][f[i-1]]
  <2> DEFINE start == <<>>
  <2>1. n \in Nat /\ start \in V
    BY <1>1, <1>3
  <2> HIDE DEF start
  <2>2. PICK f \in [0..n -> V] : Follows(f, n, start, step)
    BY <1>2, <2>1, Recursion
  <2> QED BY <2>2 DEF Follows, start
<1> DEFINE g == [i \in 1..n |-> f[i]]
<1>7. ASSUME NEW i \in 1..n
      PROVE  f[i] = IF i = 1 THEN seqs[i] ELSE f[i-1] \o seqs[i]
  <2>1. i-1 \in 0..n /\ f[i-1] \in V
    BY <1>1, <1>6
  <2>2. f[i] = f[i-1] \o seqs[i]
    BY <1>4, <1>6, <2>1
  <2>3. i = 1 => f[i-1] = <<>>
    BY <1>6
  <2> QED BY <1>1, <1>5, <2>2, <2>3
<1>8. \A i \in 1..n : i # 1 => i-1 \in 1..n
  BY <1>1
<1>9. \A i \in 1..n : g[i] = IF i = 1 THEN seqs[i] ELSE g[i-1] \o seqs[i]
  BY <1>7, <1>8
<1>10. g = [i \in 1..n |-> g[i]]
  OBVIOUS
<1> HIDE DEF g
<1>11. g = [i \in 1..n |-> IF i = 1 THEN seqs[i] ELSE g[i-1] \o seqs[i]]
  BY <1>9, <1>10
<1> QED BY <1>11 DEF Flattening, n

LEMMA FlatteningStep ==
  ASSUME NEW E, NEW seqs \in Seq(Seq(E))
  PROVE  /\ Len(seqs) > 0 => Flattening(seqs)[1] = seqs[1]
         /\ \A i \in 1 .. Len(seqs)-1 :
              Flattening(seqs)[i+1] = Flattening(seqs)[i] \o seqs[i+1]
<1> DEFINE n == Len(seqs)
           f == Flattening(seqs)
<1>1. f = [i \in 1..n |-> IF i = 1 THEN seqs[i] ELSE f[i-1] \o seqs[i]]
  BY FlatteningExists
<1>2. n \in Nat
  OBVIOUS
<1> HIDE DEF f, n
<1>3. \A i \in 1..n : f[i] = IF i = 1 THEN seqs[i] ELSE f[i-1] \o seqs[i]
  BY <1>1
<1>4. n > 0 => f[1] = seqs[1]
  BY <1>2, <1>3
<1>5. ASSUME NEW i \in 1 .. n-1 PROVE f[i+1] = f[i] \o seqs[i+1]
  <2>1. i+1 \in 1..n /\ i+1 # 1 /\ (i+1)-1 = i
    BY <1>2
  <2>2. f[i+1] = f[(i+1)-1] \o seqs[i+1]
    BY <1>3, <2>1
  <2> QED BY <2>1, <2>2
<1> QED BY <1>4, <1>5 DEF f, n

LEMMA FlattenByFlattening ==
  ASSUME NEW E, NEW seqs \in Seq(Seq(E)), Len(seqs) > 0
  PROVE  FlattenSeq(seqs) = Flattening(seqs)[Len(seqs)]
BY DEF FlattenSeq, Flattening

LEMMA FlattenEmpty == FlattenSeq(<<>>) = <<>>
BY DEF FlattenSeq

LEMMA FlattenAppend ==
  ASSUME NEW E, NEW seqs \in Seq(Seq(E)), NEW s \in Seq(E)
  PROVE  FlattenSeq(Append(seqs, s)) = FlattenSeq(seqs) \o s
<1> DEFINE more == Append(seqs, s)
           n == Len(seqs)
           f == Flattening(seqs)
           g == Flattening(more)
           S == {i \in Nat : i+1 \in 1..n => f[i+1] = g[i+1]}
<1>1. more \in Seq(Seq(E)) /\ n \in Nat /\ Len(more) = n+1 /\ more[n+1] = s
      /\ \A i \in 1..n : more[i] = seqs[i]
  OBVIOUS
<1>2. n > 0 => f[1] = seqs[1]
  BY FlatteningStep
<1>3. \A i \in 1 .. n-1 : f[i+1] = f[i] \o seqs[i+1]
  BY FlatteningStep
<1>4. g[1] = more[1] /\ \A i \in 1..n : g[i+1] = g[i] \o more[i+1]
  <2> HIDE DEF more
  <2>1. Len(more) > 0 /\ Len(more)-1 = n
    BY <1>1
  <2> QED BY <1>1, <2>1, FlatteningStep
<1>5. FlattenSeq(more) = g[n+1]
  <2> HIDE DEF more
  <2> QED BY <1>1, FlattenByFlattening
<1>6. n > 0 => FlattenSeq(seqs) = f[n]
  BY FlattenByFlattening
<1> HIDE DEF f, g, more
<1>7. \A i \in Nat : i \in S
  <2>1. 0 \in S
    BY <1>1, <1>2, <1>4
  <2>2. ASSUME NEW i \in Nat, i \in S PROVE i+1 \in S
    <3> DEFINE j == i+1
    <3> SUFFICES ASSUME j+1 \in 1..n PROVE f[j+1] = g[j+1]
      OBVIOUS
    <3>1. j \in 1 .. n-1 /\ j \in 1..n /\ j+1 \in 1..n
      BY <1>1
    <3>2. f[j] = g[j]
      BY <2>2, <3>1
    <3> HIDE DEF j
    <3>3. f[j+1] = f[j] \o seqs[j+1]
      BY <1>3, <3>1
    <3>4. g[j+1] = g[j] \o more[j+1]
      BY <1>4, <3>1
    <3>5. more[j+1] = seqs[j+1]
      BY <1>1, <3>1
    <3> QED BY <3>2, <3>3, <3>4, <3>5
  <2> HIDE DEF S
  <2> QED BY <2>1, <2>2, Induction
<1>8. CASE n = 0
  <2>1. seqs = <<>>
    BY <1>8
  <2>2. FlattenSeq(more) = s
    BY <1>1, <1>4, <1>5, <1>8
  <2> QED BY <2>1, <2>2, FlattenEmpty DEF more
<1>9. CASE n > 0
  <2> DEFINE k == n-1
  <2>1. k \in Nat /\ k+1 = n /\ n \in 1..n
    BY <1>1, <1>9
  <2>2. f[n] = g[n]
    <3> HIDE DEF k
    <3>1. f[k+1] = g[k+1]
      BY <1>7, <2>1
    <3> QED BY <2>1, <3>1
  <2>3. g[n+1] = g[n] \o s
    BY <1>1, <1>4, <2>1
  <2> QED BY <1>5, <1>6, <1>9, <2>2, <2>3 DEF more
<1> QED BY <1>1, <1>8, <1>9

LEMMA FlattenType ==
  ASSUME NEW E, NEW seqs \in Seq(Seq(E))
  PROVE  FlattenSeq(seqs) \in Seq(E)
<1> DEFINE S == {k \in Nat : \A t \in Seq(Seq(E)) : Len(t) = k => FlattenSeq(t) \in Seq(E)}
<1>1. 0 \in S
  <2>1. \A t \in Seq(Seq(E)) : Len(t) = 0 => t = <<>>
    OBVIOUS
  <2>2. <<>> \in Seq(E)
    OBVIOUS
  <2> QED BY <2>1, <2>2, FlattenEmpty
<1>2. ASSUME NEW k \in Nat, k \in S PROVE k+1 \in S
  <2> SUFFICES ASSUME NEW t \in Seq(Seq(E)), Len(t) = k+1 PROVE FlattenSeq(t) \in Seq(E)
    OBVIOUS
  <2> DEFINE front == SubSeq(t, 1, k)
             last == t[k+1]
  <2>1. front \in Seq(Seq(E)) /\ Len(front) = k /\ last \in Seq(E) /\ t = Append(front, last)
    OBVIOUS
  <2> HIDE DEF front, last
  <2>2. FlattenSeq(front) \in Seq(E)
    BY <1>2, <2>1
  <2>3. FlattenSeq(t) = FlattenSeq(front) \o last
    BY <2>1, FlattenAppend
  <2> QED BY <2>1, <2>2, <2>3
<1>3. \A k \in Nat : k \in S
  <2> HIDE DEF S
  <2> QED BY <1>1, <1>2, Induction
<1> QED BY <1>3

LEMMA FlattenConcat ==
  ASSUME NEW E, NEW seqs \in Seq(Seq(E)), NEW more \in Seq(Seq(E))
  PROVE  FlattenSeq(seqs \o more) = FlattenSeq(seqs) \o FlattenSeq(more)
<1> DEFINE S == {k \in Nat : \A t \in Seq(Seq(E)) :
                   Len(t) = k => FlattenSeq(seqs \o t) = FlattenSeq(seqs) \o FlattenSeq(t)}
<1>1. 0 \in S
  <2>1. \A t \in Seq(Seq(E)) : Len(t) = 0 => t = <<>>
    OBVIOUS
  <2>2. seqs \o <<>> = seqs /\ FlattenSeq(seqs) \o <<>> = FlattenSeq(seqs)
    BY FlattenType
  <2> QED BY <2>1, <2>2, FlattenEmpty
<1>2. ASSUME NEW k \in Nat, k \in S PROVE k+1 \in S
  <2> SUFFICES ASSUME NEW t \in Seq(Seq(E)), Len(t) = k+1
               PROVE  FlattenSeq(seqs \o t) = FlattenSeq(seqs) \o FlattenSeq(t)
    OBVIOUS
  <2> DEFINE front == SubSeq(t, 1, k)
             last == t[k+1]
  <2>1. front \in Seq(Seq(E)) /\ Len(front) = k /\ last \in Seq(E) /\ t = Append(front, last)
    OBVIOUS
  <2> HIDE DEF front, last
  <2>2. FlattenSeq(seqs \o front) = FlattenSeq(seqs) \o FlattenSeq(front)
    BY <1>2, <2>1
  <2>3. FlattenSeq(t) = FlattenSeq(front) \o last
    BY <2>1, FlattenAppend
  <2>4. seqs \o front \in Seq(Seq(E)) /\ seqs \o t = Append(seqs \o front, last)
    BY <2>1
  <2>5. FlattenSeq(seqs \o t) = FlattenSeq(seqs \o front) \o last
    BY <2>1, <2>4, FlattenAppend
  <2>6. FlattenSeq(seqs) \in Seq(E) /\ FlattenSeq(front) \in Seq(E)
    BY <2>1, FlattenType
  <2>7. Associates(FlattenSeq(seqs), FlattenSeq(front), last)
    BY <2>1, <2>6, ConcatOfThree
  <2> QED BY <2>2, <2>3, <2>5, <2>7 DEF Associates
<1>3. \A k \in Nat : k \in S
  <2> HIDE DEF S
  <2> QED BY <1>1, <1>2, Induction
<1>4. more \in Seq(Seq(E)) /\ Len(more) \in Nat
  OBVIOUS
<1> QED BY <1>3, <1>4

\* A sequence with one element comes out as that element.
LEMMA FlattenOne ==
  ASSUME NEW E, NEW s \in Seq(E)
  PROVE  FlattenSeq(<<s>>) = s
<1>1. <<>> \in Seq(Seq(E)) /\ <<s>> = Append(<<>>, s) /\ <<>> \o s = s
  OBVIOUS
<1> QED BY <1>1, FlattenAppend, FlattenEmpty

LEMMA FlattenCons ==
  ASSUME NEW E, NEW s \in Seq(E), NEW seqs \in Seq(Seq(E))
  PROVE  FlattenSeq(<<s>> \o seqs) = s \o FlattenSeq(seqs)
<1> DEFINE one == <<s>>
<1>1. one \in Seq(Seq(E)) /\ FlattenSeq(one) = s
  BY FlattenOne
<1> HIDE DEF one
<1>2. FlattenSeq(one \o seqs) = FlattenSeq(one) \o FlattenSeq(seqs)
  BY <1>1, FlattenConcat
<1> QED BY <1>1, <1>2 DEF one

-----------------------------------------------------------------------------
(* Replacing every element by a sequence. *)

Each(f, s) == FlattenSeq([i \in 1..Len(s) |-> f[s[i]]])

LEMMA EachPieces ==
  ASSUME NEW E, NEW F, NEW f \in [E -> Seq(F)], NEW s \in Seq(E)
  PROVE  /\ [i \in 1..Len(s) |-> f[s[i]]] \in Seq(Seq(F))
         /\ Len([i \in 1..Len(s) |-> f[s[i]]]) = Len(s)
<1>1. \A i \in 1..Len(s) : f[s[i]] \in Seq(F)
  OBVIOUS
<1> QED BY <1>1

LEMMA EachType ==
  ASSUME NEW E, NEW F, NEW f \in [E -> Seq(F)], NEW s \in Seq(E)
  PROVE  Each(f, s) \in Seq(F)
<1> DEFINE pieces == [i \in 1..Len(s) |-> f[s[i]]]
<1>1. pieces \in Seq(Seq(F))
  BY EachPieces
<1> HIDE DEF pieces
<1>2. FlattenSeq(pieces) \in Seq(F)
  BY <1>1, FlattenType
<1> QED BY <1>2 DEF Each, pieces

LEMMA EachOne ==
  ASSUME NEW E, NEW F, NEW f \in [E -> Seq(F)], NEW e \in E
  PROVE  Each(f, <<e>>) = f[e]
<1>1. [i \in 1..Len(<<e>>) |-> f[<<e>>[i]]] = <<f[e]>>
  OBVIOUS
<1>2. f[e] \in Seq(F)
  OBVIOUS
<1> QED BY <1>1, <1>2, FlattenOne DEF Each

Distributes(f, s, t) == Each(f, s \o t) = Each(f, s) \o Each(f, t)

LEMMA EachConcat ==
  ASSUME NEW E, NEW F, NEW f \in [E -> Seq(F)], NEW s \in Seq(E), NEW t \in Seq(E)
  PROVE  Distributes(f, s, t)
<1> DEFINE G    == Seq(F)
           both == s \o t
           fs   == [i \in 1..Len(s) |-> f[s[i]]]
           ft   == [i \in 1..Len(t) |-> f[t[i]]]
           fb   == [i \in 1..Len(both) |-> f[both[i]]]
<1>1. /\ both \in Seq(E) /\ Len(both) = Len(s) + Len(t) /\ Len(s) \in Nat /\ Len(t) \in Nat
      /\ \A i \in 1 .. Len(s) + Len(t) : both[i] = IF i <= Len(s) THEN s[i] ELSE t[i - Len(s)]
  BY ConcatProperties
<1> HIDE DEF both
<1>2. /\ fs \in Seq(G) /\ ft \in Seq(G) /\ fb \in Seq(G)
      /\ Len(fs) = Len(s) /\ Len(ft) = Len(t) /\ Len(fb) = Len(s) + Len(t)
  <2>1. fs \in Seq(Seq(F)) /\ Len(fs) = Len(s)
    BY EachPieces
  <2>2. ft \in Seq(Seq(F)) /\ Len(ft) = Len(t)
    BY EachPieces
  <2>3. fb \in Seq(Seq(F)) /\ Len(fb) = Len(both)
    <3>1. both \in Seq(E)
      BY <1>1
    <3> QED BY <3>1, EachPieces
  <2> HIDE DEF fs, ft, fb
  <2> QED BY <1>1, <2>1, <2>2, <2>3
<1>3. /\ \A i \in 1..Len(s) : fs[i] = f[s[i]]
      /\ \A i \in 1..Len(t) : ft[i] = f[t[i]]
      /\ \A i \in 1 .. Len(s) + Len(t) : fb[i] = f[both[i]]
  BY <1>1
<1> HIDE DEF fs, ft, fb, G
<1>4. \A i \in 1 .. Len(s) + Len(t) : fb[i] = IF i <= Len(s) THEN fs[i] ELSE ft[i - Len(s)]
  <2> TAKE i \in 1 .. Len(s) + Len(t)
  <2>1. CASE i <= Len(s)
    <3>1. i \in 1..Len(s)
      BY <1>1, <2>1
    <3>3. both[i] = s[i]
      BY <1>1, <2>1
    <3>2. fb[i] = f[both[i]] /\ fs[i] = f[s[i]]
      BY <1>3, <3>1
    <3> QED BY <2>1, <3>2, <3>3
  <2>2. CASE ~ (i <= Len(s))
    <3>1. i - Len(s) \in 1..Len(t)
      BY <1>1, <2>2
    <3>3. both[i] = t[i - Len(s)]
      BY <1>1, <2>2
    <3>2. fb[i] = f[both[i]] /\ ft[i - Len(s)] = f[t[i - Len(s)]]
      BY <1>3, <3>1
    <3> QED BY <2>2, <3>2, <3>3
  <2> QED BY <2>1, <2>2
<1>5. fb = fs \o ft
  <2> DEFINE fc == fs \o ft
  <2>1. fc \in Seq(G) /\ Len(fc) = Len(fs) + Len(ft)
    BY <1>2, ConcatProperties
  <2>4. \A i \in 1 .. Len(fs) + Len(ft) : fc[i] = IF i <= Len(fs) THEN fs[i] ELSE ft[i - Len(fs)]
    BY <1>2
  <2> HIDE DEF fc
  <2>2. \A i \in 1..Len(fb) : fb[i] = fc[i]
    BY <1>2, <1>4, <2>4
  <2>3. fb = fc
    BY <1>2, <2>1, <2>2, SeqEqual
  <2> QED BY <2>3 DEF fc
<1>6. FlattenSeq(fs \o ft) = FlattenSeq(fs) \o FlattenSeq(ft)
  BY <1>2, FlattenConcat DEF G
<1> QED BY <1>5, <1>6 DEF Distributes, Each, fs, ft, fb, both

LEMMA EachEmpty ==
  ASSUME NEW f
  PROVE  Each(f, <<>>) = <<>>
<1>1. [i \in 1..Len(<<>>) |-> f[<<>>[i]]] = <<>>
  OBVIOUS
<1> QED BY <1>1, FlattenEmpty DEF Each

Extended(f, s, e) == Each(f, Append(s, e)) = Each(f, s) \o f[e]

LEMMA EachAppend ==
  ASSUME NEW E, NEW F, NEW f \in [E -> Seq(F)], NEW s \in Seq(E), NEW e \in E
  PROVE  Extended(f, s, e)
<1>1. <<e>> \in Seq(E) /\ Append(s, e) = s \o <<e>>
  OBVIOUS
<1>2. Distributes(f, s, <<e>>)
  BY <1>1, EachConcat
<1>3. Each(f, <<e>>) = f[e]
  BY EachOne
<1> QED BY <1>1, <1>2, <1>3 DEF Distributes, Extended

\* One replacement after the other.
Composes(E, f, g, h) == \A e \in E : Each(g, f[e]) = h[e]
Composed(f, g, h, s) == Each(g, Each(f, s)) = Each(h, s)

LEMMA EachOfEach ==
  ASSUME NEW E, NEW F, NEW G, NEW f \in [E -> Seq(F)], NEW g \in [F -> Seq(G)],
         NEW h \in [E -> Seq(G)], Composes(E, f, g, h)
  PROVE  \A s \in Seq(E) : Composed(f, g, h, s)
<1> USE DEF Composed
<1> DEFINE S == {k \in Nat : \A s \in Seq(E) : Len(s) = k => Each(g, Each(f, s)) = Each(h, s)}
<1>1. 0 \in S
  <2>1. \A s \in Seq(E) : Len(s) = 0 => s = <<>>
    OBVIOUS
  <2> QED BY <2>1, EachEmpty
<1>2. ASSUME NEW k \in Nat, k \in S PROVE k+1 \in S
  <2> SUFFICES ASSUME NEW s \in Seq(E), Len(s) = k+1
               PROVE  Each(g, Each(f, s)) = Each(h, s)
    OBVIOUS
  <2> DEFINE front == SubSeq(s, 1, k)
             last  == s[k+1]
  <2>1. front \in Seq(E) /\ Len(front) = k /\ last \in E /\ s = Append(front, last)
    BY CutLast
  <2> HIDE DEF front, last
  <2>2. Each(g, Each(f, front)) = Each(h, front)
    BY <1>2, <2>1
  <2>3. Each(f, s) = Each(f, front) \o f[last]
    <3>1. front \in Seq(E) /\ last \in E
      BY <2>1
    <3>2. Extended(f, front, last)
      BY <3>1, EachAppend
    <3> QED BY <2>1, <3>2 DEF Extended
  <2>4. Each(h, s) = Each(h, front) \o h[last]
    <3>1. front \in Seq(E) /\ last \in E
      BY <2>1
    <3>2. Extended(h, front, last)
      BY <3>1, EachAppend
    <3> QED BY <2>1, <3>2 DEF Extended
  <2>5. Each(f, front) \in Seq(F) /\ f[last] \in Seq(F)
    BY <2>1, EachType
  <2>6. Distributes(g, Each(f, front), f[last])
    BY <2>5, EachConcat
  <2>7. Each(g, f[last]) = h[last]
    BY <2>1 DEF Composes
  <2> QED BY <2>2, <2>3, <2>4, <2>6, <2>7 DEF Distributes
<1>3. \A k \in Nat : k \in S
  <2> HIDE DEF S
  <2> QED BY <1>1, <1>2, Induction
<1>4. ASSUME NEW s \in Seq(E) PROVE Each(g, Each(f, s)) = Each(h, s)
  <2>1. Len(s) \in Nat
    OBVIOUS
  <2> QED BY <1>3, <2>1
<1> QED BY <1>4

\* Replacing every element by one element.
Singly(E, f, g) == \A e \in E : f[e] = <<g[e]>>
Mapped(f, g, s) == Each(f, s) = [i \in 1..Len(s) |-> g[s[i]]]

LEMMA EachByOne ==
  ASSUME NEW E, NEW F, NEW f \in [E -> Seq(F)], NEW g \in [E -> F], Singly(E, f, g)
  PROVE  \A s \in Seq(E) : Mapped(f, g, s)
<1> USE DEF Singly, Mapped
<1> DEFINE Map(s) == [i \in 1..Len(s) |-> g[s[i]]]
           S == {k \in Nat : \A s \in Seq(E) : Len(s) = k => Each(f, s) = Map(s)}
<1>1. 0 \in S
  <2>1. \A s \in Seq(E) : Len(s) = 0 => s = <<>>
    OBVIOUS
  <2>2. Map(<<>>) = <<>>
    OBVIOUS
  <2> QED BY <2>1, <2>2, EachEmpty
<1>2. ASSUME NEW k \in Nat, k \in S PROVE k+1 \in S
  <2> SUFFICES ASSUME NEW s \in Seq(E), Len(s) = k+1
               PROVE  Each(f, s) = Map(s)
    OBVIOUS
  <2> DEFINE front == SubSeq(s, 1, k)
             last  == s[k+1]
  <2>1. front \in Seq(E) /\ Len(front) = k /\ last \in E /\ s = Append(front, last)
    BY CutLast
  <2>2. \A i \in 1..k : s[i] = front[i]
    BY <2>1
  <2>3. s[k+1] = last
    OBVIOUS
  <2> HIDE DEF front, last
  <2>4. Each(f, front) = Map(front)
    BY <1>2, <2>1
  <2>5. Each(f, s) = Each(f, front) \o f[last]
    <3>1. Extended(f, front, last)
      <4>1. front \in Seq(E) /\ last \in E
        BY <2>1
      <4> QED BY <4>1, EachAppend
    <3> QED BY <2>1, <3>1 DEF Extended
  <2>6. f[last] = <<g[last]>> /\ g[last] \in F
    BY <2>1
  <2>7. Map(front) \in Seq(F) /\ Len(Map(front)) = k /\ \A i \in 1..k : Map(front)[i] = g[front[i]]
    BY <2>1
  <2>8. Map(s) \in Seq(F) /\ Len(Map(s)) = k+1 /\ \A i \in 1 .. k+1 : Map(s)[i] = g[s[i]]
    OBVIOUS
  <2> DEFINE ms == Map(s)
             mf == Map(front)
             l  == g[last]
  <2> HIDE DEF Map
  <2>9. ms = mf \o <<l>>
    <3> DEFINE mc == mf \o <<l>>
    <3>1. /\ ms \in Seq(F) /\ mf \in Seq(F) /\ Len(ms) = k+1 /\ Len(mf) = k /\ l \in F
          /\ \A i \in 1..k : ms[i] = mf[i]
          /\ ms[k+1] = l
      <4>1. ms \in Seq(F) /\ mf \in Seq(F) /\ Len(ms) = k+1 /\ Len(mf) = k /\ l \in F
        BY <2>6, <2>7, <2>8
      <4>2. ms[k+1] = l
        <5>1. k+1 \in 1 .. k+1
          OBVIOUS
        <5> QED BY <2>3, <2>8, <5>1
      <4>3. ASSUME NEW i \in 1..k PROVE ms[i] = mf[i]
        <5>1. i \in 1 .. k+1
          OBVIOUS
        <5>2. ms[i] = g[s[i]] /\ mf[i] = g[front[i]]
          BY <2>7, <2>8, <5>1
        <5> QED BY <2>2, <5>2
      <4> QED BY <4>1, <4>2, <4>3
    <3> HIDE DEF ms, mf, l
    <3>2. mc \in Seq(F) /\ Len(mc) = k+1 /\ (\A i \in 1..k : mc[i] = mf[i]) /\ mc[k+1] = l
      BY <3>1
    <3> HIDE DEF mc
    <3>3. \A i \in 1..Len(ms) : ms[i] = mc[i]
      BY <3>1, <3>2
    <3>4. ms = mc
      BY <3>1, <3>2, <3>3, SeqEqual
    <3> QED BY <3>4 DEF mc
  <2> QED BY <2>4, <2>5, <2>6, <2>9
<1>3. \A k \in Nat : k \in S
  <2> HIDE DEF S
  <2> QED BY <1>1, <1>2, Induction
<1>4. ASSUME NEW s \in Seq(E) PROVE Each(f, s) = Map(s)
  <2>1. Len(s) \in Nat
    OBVIOUS
  <2> QED BY <1>3, <2>1
<1> QED BY <1>4

-----------------------------------------------------------------------------
(* Sequences cut behind the elements of a set. *)

FreeOf(C, s)  == \A i \in 1..Len(s) : s[i] \notin C
EndedBy(C, s) == s # <<>> /\ \A i \in 1..Len(s) : s[i] \in C <=> i = Len(s)

LEMMA FreeOfConcat ==
  ASSUME NEW C, NEW E, NEW s \in Seq(E), NEW t \in Seq(E)
  PROVE  FreeOf(C, s \o t) <=> FreeOf(C, s) /\ FreeOf(C, t)
<1> DEFINE u == s \o t
<1>1. /\ Len(s) \in Nat /\ Len(t) \in Nat /\ Len(u) = Len(s) + Len(t)
      /\ \A i \in 1 .. Len(s) + Len(t) : u[i] = IF i <= Len(s) THEN s[i] ELSE t[i - Len(s)]
  BY ConcatProperties
<1> HIDE DEF u
<1>2. ASSUME FreeOf(C, u) PROVE FreeOf(C, s) /\ FreeOf(C, t)
  <2>1. ASSUME NEW i \in 1..Len(s) PROVE s[i] \notin C
    <3>1. i \in 1..Len(u) /\ u[i] = s[i]
      BY <1>1
    <3> QED BY <1>2, <3>1 DEF FreeOf
  <2>2. ASSUME NEW i \in 1..Len(t) PROVE t[i] \notin C
    <3>1. Len(s) + i \in 1..Len(u) /\ ~ (Len(s) + i <= Len(s)) /\ (Len(s) + i) - Len(s) = i
      BY <1>1
    <3>2. u[Len(s) + i] = t[i]
      BY <1>1, <3>1
    <3> QED BY <1>2, <3>1, <3>2 DEF FreeOf
  <2> QED BY <2>1, <2>2 DEF FreeOf
<1>3. ASSUME FreeOf(C, s), FreeOf(C, t) PROVE FreeOf(C, u)
  <2>1. ASSUME NEW i \in 1..Len(u) PROVE u[i] \notin C
    <3>1. CASE i <= Len(s)
      <4>1. i \in 1..Len(s) /\ u[i] = s[i]
        BY <1>1, <3>1
      <4> QED BY <1>3, <4>1 DEF FreeOf
    <3>2. CASE ~ (i <= Len(s))
      <4>1. i - Len(s) \in 1..Len(t) /\ u[i] = t[i - Len(s)]
        BY <1>1, <3>2
      <4> QED BY <1>3, <4>1 DEF FreeOf
    <3> QED BY <3>1, <3>2
  <2> QED BY <2>1 DEF FreeOf
<1> QED BY <1>2, <1>3 DEF u

LEMMA EndedNotFree ==
  ASSUME NEW C, NEW E, NEW s \in Seq(E), EndedBy(C, s)
  PROVE  ~ FreeOf(C, s)
<1>1. Len(s) \in 1..Len(s)
  BY DEF EndedBy
<1> QED BY <1>1 DEF EndedBy, FreeOf

LEMMA EndedConcat ==
  ASSUME NEW C, NEW E, NEW s \in Seq(E), NEW t \in Seq(E), FreeOf(C, s), EndedBy(C, t)
  PROVE  EndedBy(C, s \o t)
<1> DEFINE u == s \o t
<1>1. /\ Len(s) \in Nat /\ Len(t) \in Nat /\ Len(u) = Len(s) + Len(t)
      /\ \A i \in 1 .. Len(s) + Len(t) : u[i] = IF i <= Len(s) THEN s[i] ELSE t[i - Len(s)]
  BY ConcatProperties
<1>2. u \in Seq(E) /\ Len(t) > 0
  BY DEF EndedBy
<1> HIDE DEF u
<1>3. ASSUME NEW i \in 1..Len(u) PROVE u[i] \in C <=> i = Len(u)
  <2>1. CASE i <= Len(s)
    <3>1. i \in 1..Len(s) /\ u[i] = s[i] /\ i # Len(u)
      BY <1>1, <1>2, <2>1
    <3> QED BY <3>1 DEF FreeOf
  <2>2. CASE ~ (i <= Len(s))
    <3>1. i - Len(s) \in 1..Len(t) /\ u[i] = t[i - Len(s)] /\ (i = Len(u) <=> i - Len(s) = Len(t))
      BY <1>1, <2>2
    <3> QED BY <3>1 DEF EndedBy
  <2> QED BY <2>1, <2>2
<1>4. u # <<>>
  BY <1>1, <1>2
<1> QED BY <1>3, <1>4 DEF EndedBy, u

LEMMA EndedFront ==
  ASSUME NEW C, NEW E, NEW s \in Seq(E), NEW t \in Seq(E), t # <<>>, EndedBy(C, s \o t)
  PROVE  FreeOf(C, s) /\ EndedBy(C, t)
<1> DEFINE u == s \o t
<1>1. /\ Len(s) \in Nat /\ Len(t) \in Nat /\ Len(u) = Len(s) + Len(t)
      /\ \A i \in 1 .. Len(s) + Len(t) : u[i] = IF i <= Len(s) THEN s[i] ELSE t[i - Len(s)]
  BY ConcatProperties
<1>2. Len(t) > 0
  OBVIOUS
<1>3. EndedBy(C, u)
  OBVIOUS
<1> HIDE DEF u
<1>4. ASSUME NEW i \in 1..Len(s) PROVE s[i] \notin C
  <2>1. i \in 1..Len(u) /\ u[i] = s[i] /\ i # Len(u)
    BY <1>1, <1>2
  <2> QED BY <1>3, <2>1 DEF EndedBy
<1>5. ASSUME NEW i \in 1..Len(t) PROVE t[i] \in C <=> i = Len(t)
  <2>1. Len(s) + i \in 1..Len(u) /\ ~ (Len(s) + i <= Len(s)) /\ (Len(s) + i) - Len(s) = i
        /\ (Len(s) + i = Len(u) <=> i = Len(t))
    BY <1>1
  <2>2. u[Len(s) + i] = t[i]
    BY <1>1, <2>1
  <2> QED BY <1>3, <2>1, <2>2 DEF EndedBy
<1> QED BY <1>4, <1>5 DEF FreeOf, EndedBy

\* Two ways to begin the same sequence with a part that is so ended are one.
Aligned(C, s, t, u, v) ==
  s \o t = u \o v /\ EndedBy(C, s) /\ EndedBy(C, u) => s = u /\ t = v

LEMMA EndsAlign ==
  ASSUME NEW C, NEW E, NEW s \in Seq(E), NEW t \in Seq(E), NEW u \in Seq(E), NEW v \in Seq(E)
  PROVE  Aligned(C, s, t, u, v)
<1>1. ASSUME NEW a \in Seq(E), NEW b \in Seq(E), NEW c \in Seq(E), NEW d \in Seq(E),
             a \o b = c \o d, EndedBy(C, a), EndedBy(C, c), Len(a) <= Len(c)
      PROVE  a = c /\ b = d
  <2>1. Overlap(E, a, b, c, d)
    BY Overlaps
  <2>2. PICK w \in Seq(E) : c = a \o w /\ b = w \o d
    BY <1>1, <2>1 DEF Overlap
  <2>3. w = <<>>
    <3>1. ASSUME w # <<>> PROVE FALSE
      <4>1. EndedBy(C, a \o w)
        BY <1>1, <2>2
      <4>2. FreeOf(C, a)
        BY <3>1, <4>1, EndedFront
      <4> QED BY <1>1, <4>2, EndedNotFree
    <3> QED BY <3>1
  <2>4. a \o <<>> = a /\ <<>> \o d = d
    OBVIOUS
  <2> QED BY <2>2, <2>3, <2>4
<1>2. Len(s) \in Nat /\ Len(u) \in Nat
  OBVIOUS
<1>3. Len(s) <= Len(u) \/ Len(u) <= Len(s)
  BY <1>2
<1> QED BY <1>1, <1>3 DEF Aligned

LEMMA FlattenFirst ==
  ASSUME NEW E, NEW seqs \in Seq(Seq(E)), seqs # <<>>
  PROVE  /\ seqs[1] \in Seq(E) /\ Tail(seqs) \in Seq(Seq(E))
         /\ FlattenSeq(seqs) = seqs[1] \o FlattenSeq(Tail(seqs))
<1> DEFINE S     == Seq(E)
           first == seqs[1]
           rest  == Tail(seqs)
<1> HIDE DEF S
<1>1. seqs \in Seq(S)
  BY DEF S
<1>2. first \in S /\ rest \in Seq(S) /\ seqs = <<first>> \o rest
  BY <1>1, CutFirst
<1> HIDE DEF first, rest
<1>3. FlattenSeq(<<first>> \o rest) = first \o FlattenSeq(rest)
  BY <1>2, FlattenCons DEF S
<1> QED BY <1>2, <1>3 DEF S, first, rest

\* Parts that are so ended leave no sequence free of ends.
LEMMA PartsNotFree ==
  ASSUME NEW C, NEW E, NEW seqs \in Seq(Seq(E)), NEW s \in Seq(E),
         \A j \in 1..Len(seqs) : EndedBy(C, seqs[j]),
         FreeOf(C, FlattenSeq(seqs) \o s)
  PROVE  seqs = <<>>
<1> SUFFICES ASSUME seqs # <<>> PROVE FALSE
  OBVIOUS
<1> DEFINE first == seqs[1]
           rest  == FlattenSeq(Tail(seqs))
<1>1. first \in Seq(E) /\ Tail(seqs) \in Seq(Seq(E))
  BY FlattenFirst
<1>2. FlattenSeq(seqs) = first \o rest
  BY FlattenFirst
<1>3. rest \in Seq(E)
  BY <1>1, FlattenType
<1>4. EndedBy(C, first)
  <2>1. 1 \in 1..Len(seqs)
    OBVIOUS
  <2> QED BY <2>1
<1> HIDE DEF first, rest
<1>5. first \o rest \in Seq(E)
  BY <1>1, <1>3
<1>6. FreeOf(C, first \o rest)
  BY <1>2, <1>5, FreeOfConcat
<1>7. FreeOf(C, first)
  BY <1>1, <1>3, <1>6, FreeOfConcat
<1> QED BY <1>1, <1>4, <1>7, EndedNotFree
=============================================================================
