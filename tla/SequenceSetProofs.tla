------------------------- MODULE SequenceSetProofs -------------------------
(***************************************************************************)
(* SequenceSet proved for every MaxNum and every argument list.            *)
(***************************************************************************)
EXTENDS SequenceSet, SequenceTheorems, TLAPS

(***************************************************************************)
(* The meaning of an internal range: "*", its last value, names m.         *)
(***************************************************************************)
Covers(r, m, x) == (r.lo <= x /\ x <= r.hi) \/ (r.hi = star /\ x = m)

CoveredBefore(ranges, k, m, x) == \E i \in 1..k-1 : Covers(ranges[i], m, x)
Covered(ranges, m, x) == CoveredBefore(ranges, Len(ranges) + 1, m, x)

\* What is collected so far is the range of each element read so far.
CollectInv ==
  pc = "collect" =>
    /\ entries = <<>>
    /\ Len(raw) = next - 1
    /\ next <= Len(items) + 1
    /\ \A i \in 1..Len(raw) : Acceptable(items[i]) /\ raw[i] = RangeOf(items[i])

\* Once sorting is done, the collected ranges are upright and mean the items.
RawInv ==
  pc \in {"merge", "render", "done"} =>
    /\ \A i \in 1..Len(raw) : raw[i].lo <= raw[i].hi
    /\ \A m \in 1..MaxNum : \A x \in 1..m : Covered(raw, m, x) <=> NamedBy(items, m, x)

\* The merge loop: entries mean the part of raw read so far, and start no
\* later than anything that is still to be read.
MergeInv ==
  pc = "merge" =>
    /\ next <= Len(raw) + 1
    /\ \A i, j \in 1..Len(raw) : i < j => raw[i].lo <= raw[j].lo
    /\ \A i \in 1..Len(entries), j \in next..Len(raw) : entries[i].lo <= raw[j].lo
    /\ \A m \in 1..MaxNum : \A x \in 1..m :
         Covered(entries, m, x) <=> CoveredBefore(raw, next, m, x)

\* After the loop, entries mean the items; after Render, so does the text.
RenderInv ==
  pc \in {"render", "done"} =>
    \A m \in 1..MaxNum : \A x \in 1..m : Covered(entries, m, x) <=> NamedBy(items, m, x)

TextInv ==
  pc = "done" =>
    /\ Len(text) = Len(entries)
    /\ \A i \in 1..Len(entries) :
         text[i] = [lo |-> Written(entries[i].lo), hi |-> Written(entries[i].hi)]

ListInv == items \in ItemLists

IInv ==
  TypeOK /\ ListInv /\ CollectInv /\ RawInv /\ MergeInv /\ RenderInv /\ TextInv /\ Canonical

USE MaxNumAssumption DEF star, Star

-----------------------------------------------------------------------------
(* Facts about single ranges. *)

\* The range of an acceptable element is upright, within the internal bounds,
\* and covers what the element names (command.go NewSequenceSet, seqVal).
LEMMA RangeOfItem ==
  ASSUME NEW item \in Item, Acceptable(item)
  PROVE  /\ RangeOf(item) \in SeqRange
         /\ RangeOf(item).lo <= RangeOf(item).hi
         /\ \A m \in 1..MaxNum : \A x \in 1..m :
              Covers(RangeOf(item), m, x) <=> Names(item, m, x)
<1> USE DEF Item, Acceptable, InRange
<1>1. Internal(item.lo) \in 1..star /\ Internal(item.hi) \in 1..star
  BY DEF Internal
<1>2. RangeOf(item) \in SeqRange /\ RangeOf(item).lo <= RangeOf(item).hi
  BY <1>1 DEF RangeOf, SeqRange
<1>3. ASSUME NEW m \in 1..MaxNum, NEW x \in 1..m
      PROVE  Covers(RangeOf(item), m, x) <=> Names(item, m, x)
  BY DEF Covers, RangeOf, Internal, Names, Resolve
<1>. QED  BY <1>2, <1>3

\* A written range names what the range covers (command.go seqStr).
LEMMA WrittenRange ==
  ASSUME NEW r \in SeqRange, r.lo <= r.hi,
         NEW m \in 1..MaxNum, NEW x \in 1..m
  PROVE  Names([lo |-> Written(r.lo), hi |-> Written(r.hi)], m, x) <=> Covers(r, m, x)
BY DEF SeqRange, Names, Resolve, Written, Covers

\* Two ranges that overlap or touch, in order, cover together what the one
\* range from the lower start to the higher end covers (command.go coalesce).
LEMMA MergedRange ==
  ASSUME NEW r \in SeqRange, NEW s \in SeqRange, r.lo <= r.hi, s.lo <= s.hi,
         r.lo <= s.lo, s.lo <= r.hi + 1,
         NEW m \in 1..MaxNum, NEW x \in 1..m
  PROVE  /\ s.hi > r.hi =>
              (Covers([lo |-> r.lo, hi |-> s.hi], m, x) <=> Covers(r, m, x) \/ Covers(s, m, x))
         /\ ~(s.hi > r.hi) => (Covers(s, m, x) => Covers(r, m, x))
BY DEF SeqRange, Covers

\* The ranges before k + 1 are the ranges before k and the k-th.
LEMMA CoveredStep ==
  ASSUME NEW ranges, NEW k \in Nat \ {0}, NEW m, NEW x
  PROVE  CoveredBefore(ranges, k + 1, m, x) <=>
           CoveredBefore(ranges, k, m, x) \/ Covers(ranges[k], m, x)
<1>1. 1..(k + 1) - 1 = (1..k-1) \union {k}
  OBVIOUS
<1>. QED  BY <1>1 DEF CoveredBefore

-----------------------------------------------------------------------------
(* The inductive invariant. *)

LEMMA InitInv == Init => IInv
BY ItemListsAssumption
   DEF Init, IInv, TypeOK, ListInv, CollectInv, RawInv, MergeInv, RenderInv, TextInv, Canonical

LEMMA CollectStep == IInv /\ Collect => IInv'
<1> SUFFICES ASSUME IInv, Collect PROVE IInv'
  OBVIOUS
<1> USE DEF IInv
<1>1. items[next] \in Item /\ RangeOf(items[next]) \in SeqRange
  BY RangeOfItem DEF Collect, TypeOK
<1>2. raw' \in Seq(SeqRange) /\ Len(raw') = Len(raw) + 1
      /\ \A i \in 1..Len(raw') : raw'[i] = IF i = Len(raw) + 1 THEN RangeOf(items[next]) ELSE raw[i]
  BY <1>1, AppendProperties DEF Collect, TypeOK
<1>3. TypeOK' /\ ListInv'
  BY <1>2 DEF Collect, TypeOK, ListInv
<1>4. CollectInv'
  BY <1>2 DEF Collect, CollectInv, TypeOK
<1>5. RawInv' /\ MergeInv' /\ RenderInv' /\ TextInv' /\ Canonical'
  BY DEF Collect, RawInv, MergeInv, RenderInv, TextInv, Canonical
<1>. QED  BY <1>3, <1>4, <1>5

LEMMA RejectStep == IInv /\ Reject => IInv'
BY DEF IInv, Reject, TypeOK, ListInv, CollectInv, RawInv, MergeInv, RenderInv, TextInv, Canonical

\* Sorting rearranges: what some range covers before, some range covers after.
LEMMA RearrangedCovers ==
  ASSUME NEW s \in Seq(SeqRange), NEW t \in Rearrangements(s)
  PROVE  /\ t \in Seq(SeqRange)
         /\ Len(t) = Len(s)
         /\ \A i \in 1..Len(t) : \E j \in 1..Len(s) : t[i] = s[j]
         /\ \A j \in 1..Len(s) : \E i \in 1..Len(t) : t[i] = s[j]
<1>1. PICK p \in [1..Len(s) -> 1..Len(s)] :
         /\ \A i \in 1..Len(s) : \E j \in 1..Len(s) : p[j] = i
         /\ t = [i \in 1..Len(s) |-> s[p[i]]]
  BY DEF Rearrangements
<1>2. \A i \in 1..Len(s) : s[p[i]] \in SeqRange
  BY <1>1, ElementOfSeq
<1>3. t \in Seq(SeqRange) /\ Len(t) = Len(s)
  BY <1>1, <1>2, LenProperties
<1>. QED  BY <1>1, <1>3

LEMMA SortStep == IInv /\ Sort => IInv'
<1> SUFFICES ASSUME IInv, Sort PROVE IInv'
  OBVIOUS
<1> USE DEF IInv
<1>1. /\ raw' \in Seq(SeqRange)
      /\ Len(raw') = Len(raw)
      /\ \A i \in 1..Len(raw') : \E j \in 1..Len(raw) : raw'[i] = raw[j]
      /\ \A j \in 1..Len(raw) : \E i \in 1..Len(raw') : raw'[i] = raw[j]
  BY RearrangedCovers DEF Sort, TypeOK
<1>2. /\ pc = "collect" /\ pc' = "merge" /\ next' = 1
      /\ items' = items /\ entries' = entries /\ text' = text
      /\ Len(raw) = Len(items) /\ IsSorted(raw') /\ entries = <<>>
  BY DEF Sort, CollectInv, TypeOK
<1>3. \A i \in 1..Len(items) : items[i] \in Item /\ Acceptable(items[i]) /\ raw[i] = RangeOf(items[i])
  BY <1>2 DEF CollectInv, TypeOK
<1>4. TypeOK' /\ ListInv' /\ CollectInv' /\ RenderInv' /\ TextInv' /\ Canonical'
  BY <1>1, <1>2 DEF TypeOK, ListInv, CollectInv, RenderInv, TextInv, Canonical
<1>5. RawInv'
  <2>1. \A j \in 1..Len(raw) : raw[j].lo <= raw[j].hi
    BY <1>2, <1>3, RangeOfItem
  <2>2. ASSUME NEW m \in 1..MaxNum, NEW x \in 1..m
        PROVE  Covered(raw', m, x) <=> NamedBy(items, m, x)
    <3>1. \A i \in 1..Len(items) : Covers(raw[i], m, x) <=> Names(items[i], m, x)
      BY <1>3, RangeOfItem
    <3>2. Covered(raw', m, x) <=> \E i \in 1..Len(raw') : Covers(raw'[i], m, x)
      BY <1>1 DEF Covered, CoveredBefore
    <3>3. (\E i \in 1..Len(raw') : Covers(raw'[i], m, x)) <=> \E j \in 1..Len(raw) : Covers(raw[j], m, x)
      BY <1>1 DEF Covers
    <3>. QED  BY <1>2, <3>1, <3>2, <3>3 DEF NamedBy
  <2>. QED  BY <1>1, <1>2, <2>1, <2>2 DEF RawInv
<1>6. MergeInv'
  <2>1. ASSUME NEW i \in 1..Len(raw'), NEW j \in 1..Len(raw'), i < j
        PROVE  raw'[i].lo <= raw'[j].lo
    <3>1. raw'[i] \in SeqRange /\ raw'[j] \in SeqRange
      BY <1>1, ElementOfSeq
    <3>2. ~ Before(raw'[j], raw'[i])
      BY <1>2, <2>1 DEF IsSorted
    <3>. QED  BY <3>1, <3>2 DEF Before, SeqRange
  <2>2. \A m, x : ~ Covered(<<>>, m, x) /\ ~ CoveredBefore(raw', 1, m, x)
    BY DEF Covered, CoveredBefore
  <2>. QED  BY <1>1, <1>2, <2>1, <2>2 DEF MergeInv
<1>. QED  BY <1>4, <1>5, <1>6

LEMMA MergeStep == IInv /\ MergeRange => IInv'
<1> SUFFICES ASSUME IInv, MergeRange PROVE IInv'
  OBVIOUS
<1> USE DEF IInv
<1> DEFINE r == raw[next]
           n == Len(entries)
<1>1. /\ pc = "merge" /\ pc' = pc /\ next \in 1..Len(raw) /\ next' = next + 1
      /\ items' = items /\ raw' = raw /\ text' = text
  BY DEF MergeRange, TypeOK
<1>2. r \in SeqRange /\ r.lo <= r.hi /\ n \in Nat /\ entries \in [1..n -> SeqRange]
  BY <1>1, ElementOfSeq, LenProperties DEF TypeOK, RawInv
<1>3. RawInv' /\ ListInv' /\ CollectInv' /\ RenderInv' /\ TextInv'
  BY <1>1 DEF RawInv, ListInv, CollectInv, RenderInv, TextInv
<1>4. ASSUME entries' \in Seq(SeqRange),
             Canonical',
             \A i \in 1..Len(entries'), j \in next+1..Len(raw) : entries'[i].lo <= raw[j].lo,
             \A m \in 1..MaxNum : \A x \in 1..m :
               Covered(entries', m, x) <=> Covered(entries, m, x) \/ Covers(r, m, x)
      PROVE  IInv'
  <2>1. TypeOK'
    BY <1>1, <1>4 DEF TypeOK
  <2>2. \A m \in 1..MaxNum : \A x \in 1..m :
          Covered(entries', m, x) <=> CoveredBefore(raw, next + 1, m, x)
    BY <1>1, <1>4, CoveredStep DEF MergeInv, TypeOK
  <2>3. MergeInv'
    BY <1>1, <1>4, <2>2 DEF MergeInv
  <2>. QED  BY <1>3, <1>4, <2>1, <2>3
<1>5. CASE Reaches(r)
  <2>1. n \in Nat \ {0} /\ entries[n] \in SeqRange /\ r.lo <= entries[n].hi + 1
    BY <1>2, <1>5 DEF Reaches, TypeOK
  <2>2. entries[n].lo <= entries[n].hi /\ entries[n].lo <= r.lo
    BY <1>1, <1>2, <2>1 DEF Canonical, MergeInv
  <2>3. CASE ~(r.hi > entries[n].hi)
    <3>1. entries' = entries
      BY <1>5, <2>3 DEF MergeRange
    <3>2. \A m \in 1..MaxNum : \A x \in 1..m : Covers(r, m, x) => Covered(entries, m, x)
      <4> SUFFICES ASSUME NEW m \in 1..MaxNum, NEW x \in 1..m, Covers(r, m, x)
                   PROVE  Covered(entries, m, x)
        OBVIOUS
      <4>1. Covers(entries[n], m, x)
        BY <1>2, <2>1, <2>2, <2>3, MergedRange
      <4>. QED  BY <2>1, <4>1 DEF Covered, CoveredBefore
    <3>3. \A i \in 1..Len(entries), j \in next+1..Len(raw) : entries[i].lo <= raw[j].lo
      BY <1>1 DEF MergeInv
    <3>. QED  BY <1>4, <3>1, <3>2, <3>3 DEF TypeOK, Canonical
  <2>4. CASE r.hi > entries[n].hi
    <3> DEFINE e == [lo |-> entries[n].lo, hi |-> r.hi]
    <3>1. entries' = [entries EXCEPT ![n] = e] /\ e \in SeqRange
      BY <1>2, <1>5, <2>1, <2>4 DEF MergeRange, Reaches, SeqRange
    <3>2. /\ entries' \in Seq(SeqRange)
          /\ Len(entries') = n
          /\ \A i \in 1..n : entries'[i] = IF i = n THEN e ELSE entries[i]
      BY <2>1, <3>1, ExceptSeq DEF TypeOK
    <3>3. Canonical'
      <4>1. \A i \in 1..n : entries'[i].lo = entries[i].lo
        BY <3>2
      <4>2. \A i \in 1..n : i # n => entries'[i].hi = entries[i].hi
        BY <3>2
      <4>3. entries'[n].lo <= entries'[n].hi
        <5>1. n \in 1..n
          BY <2>1
        <5>2. entries'[n] = e
          BY <3>2, <5>1
        <5>3. entries[n].lo \in Int /\ entries[n].hi \in Int /\ r.hi \in Int
          BY <1>2, <2>1 DEF SeqRange
        <5>. QED  BY <2>2, <2>4, <5>2, <5>3
      <4>4. \A i \in 1..n : entries'[i].lo <= entries'[i].hi
        BY <3>2, <4>3 DEF Canonical
      <4>5. \A i, j \in 1..n : i < j => entries'[i].hi + 1 < entries'[j].lo
        BY <2>1, <4>1, <4>2 DEF Canonical
      <4>. QED  BY <3>2, <4>4, <4>5 DEF Canonical
    <3>4. \A i \in 1..Len(entries'), j \in next+1..Len(raw) : entries'[i].lo <= raw[j].lo
      BY <1>1, <1>2, <3>2 DEF MergeInv
    <3>5. ASSUME NEW m \in 1..MaxNum, NEW x \in 1..m
          PROVE  Covered(entries', m, x) <=> Covered(entries, m, x) \/ Covers(r, m, x)
      <4>1. Covers(e, m, x) <=> Covers(entries[n], m, x) \/ Covers(r, m, x)
        BY <1>2, <2>1, <2>2, <2>4, MergedRange
      <4>. QED  BY <2>1, <3>2, <4>1 DEF Covered, CoveredBefore
    <3>. QED  BY <1>4, <3>2, <3>3, <3>4, <3>5
  <2>. QED  BY <2>3, <2>4
<1>6. CASE ~ Reaches(r)
  <2>1. entries' = Append(entries, r)
    BY <1>6 DEF MergeRange
  <2>2. /\ entries' \in Seq(SeqRange)
        /\ Len(entries') = n + 1
        /\ \A i \in 1..n : entries'[i] = entries[i]
        /\ entries'[n+1] = r
    BY <1>2, <2>1, AppendProperties DEF TypeOK
  <2>3. \A i \in 1..n : entries[i].hi + 1 < r.lo
    <3>1. n # 0 => entries # <<>> /\ entries[n] \in SeqRange
      BY <1>2
    <3>2. n # 0 => entries[n].hi + 1 < r.lo
      BY <1>2, <1>6, <3>1 DEF Reaches, SeqRange
    <3>3. \A i \in 1..n : entries[i] \in SeqRange
      BY <1>2
    <3>4. \A i \in 1..n : i < n => entries[i].hi + 1 < entries[n].lo /\ entries[n].lo <= entries[n].hi
      BY <1>2 DEF Canonical
    <3>. QED  BY <1>2, <3>2, <3>3, <3>4 DEF SeqRange
  <2>4. Canonical'
    BY <1>2, <2>2, <2>3 DEF Canonical
  <2>5. \A i \in 1..Len(entries'), j \in next+1..Len(raw) : entries'[i].lo <= raw[j].lo
    BY <1>1, <1>2, <2>2 DEF MergeInv
  <2>6. ASSUME NEW m \in 1..MaxNum, NEW x \in 1..m
        PROVE  Covered(entries', m, x) <=> Covered(entries, m, x) \/ Covers(r, m, x)
    BY <1>2, <2>2 DEF Covered, CoveredBefore
  <2>. QED  BY <1>4, <2>2, <2>4, <2>5, <2>6
<1>. QED  BY <1>5, <1>6

LEMMA EndMergeStep == IInv /\ EndMerge => IInv'
<1> SUFFICES ASSUME IInv, EndMerge PROVE IInv'
  OBVIOUS
<1> USE DEF IInv, EndMerge
<1>1. TypeOK' /\ ListInv' /\ CollectInv' /\ RawInv' /\ MergeInv' /\ TextInv' /\ Canonical'
  BY DEF TypeOK, ListInv, CollectInv, RawInv, MergeInv, TextInv, Canonical
<1>2. next = Len(raw) + 1
  BY DEF MergeInv, TypeOK
<1>3. RenderInv'
  BY <1>2 DEF RenderInv, MergeInv, RawInv, Covered
<1>. QED  BY <1>1, <1>3

LEMMA RenderStep == IInv /\ Render => IInv'
<1> SUFFICES ASSUME IInv, Render PROVE IInv'
  OBVIOUS
<1> USE DEF IInv, Render
<1>1. \A i \in 1..Len(entries) :
        [lo |-> Written(entries[i].lo), hi |-> Written(entries[i].hi)] \in [lo : 0..MaxNum, hi : 0..MaxNum]
  <2> SUFFICES ASSUME NEW i \in 1..Len(entries)
               PROVE  Written(entries[i].lo) \in 0..MaxNum /\ Written(entries[i].hi) \in 0..MaxNum
    OBVIOUS
  <2>1. entries[i] \in SeqRange
    BY ElementOfSeq DEF TypeOK
  <2>. QED  BY <2>1 DEF SeqRange, Written
<1>2. text' \in Seq([lo : 0..MaxNum, hi : 0..MaxNum]) /\ Len(text') = Len(entries)
  BY <1>1, LenProperties DEF TypeOK
<1>3. TypeOK' /\ TextInv'
  BY <1>2 DEF TypeOK, TextInv
<1>4. ListInv' /\ CollectInv' /\ RawInv' /\ MergeInv' /\ RenderInv' /\ Canonical'
  BY DEF ListInv, CollectInv, RawInv, MergeInv, RenderInv, Canonical
<1>. QED  BY <1>3, <1>4

LEMMA StutterStep == IInv /\ UNCHANGED vars => IInv'
BY DEF vars, IInv, TypeOK, ListInv, CollectInv, RawInv, MergeInv, RenderInv, TextInv, Canonical

\* IInv holds in every state of every call.
THEOREM InductiveInvariant == Spec => []IInv
<1>1. IInv /\ [Next]_vars => IInv'
  BY CollectStep, RejectStep, SortStep, MergeStep, EndMergeStep, RenderStep, StutterStep
     DEF Next, Terminated
<1>. QED  BY InitInv, <1>1, PTL DEF Spec

-----------------------------------------------------------------------------
(* The properties. *)

\* Every variable keeps its type: in particular each bound stays within
\* 1..star and each written bound within the grammar's numbers.
THEOREM TypeCorrect == Spec => []TypeOK
BY InductiveInvariant, PTL DEF IInv

\* The merged ranges are upright, ascending and apart at every iteration of
\* the merge loop (command.go, SequenceSet.entries).
THEOREM AlwaysCanonical == Spec => []Canonical
BY InductiveInvariant, PTL DEF IInv

\* The written set names in every mailbox exactly the messages the caller's
\* list names (command.go NewSequenceSet, coalesce and String).
THEOREM AlwaysMeaningPreserved == Spec => []MeaningPreserved
<1>1. IInv => MeaningPreserved
  <2> SUFFICES ASSUME IInv, pc = "done", NEW m \in 1..MaxNum, NEW x \in 1..m
               PROVE  NamedBy(text, m, x) <=> NamedBy(items, m, x)
    BY DEF MeaningPreserved
  <2> USE DEF IInv
  <2>1. \A i \in 1..Len(entries) : Names(text[i], m, x) <=> Covers(entries[i], m, x)
    <3> TAKE i \in 1..Len(entries)
    <3>1. entries[i] \in SeqRange
      BY ElementOfSeq DEF TypeOK
    <3>2. entries[i].lo <= entries[i].hi
      BY DEF Canonical
    <3>3. text[i] = [lo |-> Written(entries[i].lo), hi |-> Written(entries[i].hi)]
      BY DEF TextInv
    <3>. QED  BY <3>1, <3>2, <3>3, WrittenRange
  <2>2. Covered(entries, m, x) <=> NamedBy(items, m, x)
    BY DEF RenderInv
  <2>3. Len(text) = Len(entries) /\ Len(entries) \in Nat
    BY DEF TextInv, TypeOK
  <2>4. Covered(entries, m, x) <=> \E i \in 1..Len(entries) : Covers(entries[i], m, x)
    BY <2>3 DEF Covered, CoveredBefore
  <2>. QED  BY <2>1, <2>2, <2>3, <2>4 DEF NamedBy
<1>. QED  BY InductiveInvariant, <1>1, PTL
=============================================================================
