---------------------------- MODULE SequenceSet ----------------------------
(***************************************************************************)
(* NewSequenceSet, coalesce and SequenceSet.String of command.go, and      *)
(* MessageSet of helpers.go, which is their composition.                   *)
(*                                                                         *)
(* One behaviour is one call: the elements are collected one by one (an    *)
(* element of another type or out of range ends the call with an error),   *)
(* the collected ranges are sorted, the merge loop runs one iteration per  *)
(* step, and the merged ranges are written out.                            *)
(***************************************************************************)
EXTENDS Integers, Sequences

CONSTANTS
  MaxNum,     \* largest number of the grammar, 1<<32-1 in the code
  ItemLists   \* the argument lists of the calls considered

(***************************************************************************)
(* An element of the argument list: an int or int64 ("number", lo = hi), a *)
(* SeqRange ("range"), or a value of any other type.  The exposed value 0  *)
(* is the code's Star.                                                     *)
(***************************************************************************)
Item == [kind : {"number", "range", "other"}, lo : Int, hi : Int]

ASSUME MaxNumAssumption == MaxNum \in Nat \ {0}
ASSUME ItemListsAssumption ==
  \A list \in ItemLists :
    /\ list \in Seq(Item)
    /\ \A i \in 1..Len(list) : list[i].kind = "number" => list[i].lo = list[i].hi

Star == 0               \* the exposed "*"
star == MaxNum + 1      \* its internal value, maxSeq

VARIABLES
  items,    \* the argument list
  pc,       \* "collect", "merge", "render", "done" or "error"
  next,     \* the element of items or of raw that the running loop reads
  raw,      \* the ranges collected, then sorted
  entries,  \* the ranges merged so far
  text      \* the written form, one pair of bounds per range

vars == <<items, pc, next, raw, entries, text>>

-----------------------------------------------------------------------------
SeqRange == [lo : 1..star, hi : 1..star]

\* Defects to be caught: no lower bound; an upper bound one too large.
InRangeNoLowerBound(n)  == n <= MaxNum
InRangeUpToMaxSeq(n)    == n = Star \/ n \in 1..star

\* seqVal rejects what is neither "*" nor a number of the grammar.
InRange(n)  == n = Star \/ n \in 1..MaxNum
Internal(n) == IF n = Star THEN star ELSE n

Acceptable(item) == item.kind # "other" /\ InRange(item.lo) /\ InRange(item.hi)

\* The bounds are swapped after "*" has become the largest value.
RangeOf(item) ==
  LET lo == Internal(item.lo)
      hi == Internal(item.hi)
  IN  IF lo > hi THEN [lo |-> hi, hi |-> lo] ELSE [lo |-> lo, hi |-> hi]

\* The order sort.Slice is given.
Before(r, s) == r.lo < s.lo \/ (r.lo = s.lo /\ r.hi < s.hi)

\* What a sort by Before may leave in place of a list: a rearrangement of it
\* with no element before an earlier one.
Rearrangements(s) ==
  { [i \in 1..Len(s) |-> s[p[i]]] :
      p \in {q \in [1..Len(s) -> 1..Len(s)] : \A i \in 1..Len(s) : \E j \in 1..Len(s) : q[j] = i} }
IsSorted(s) == \A i, j \in 1..Len(s) : i < j => ~ Before(s[j], s[i])

\* seqStr: the text of a bound, 0 standing for the character "*".
Written(n) == IF n = star THEN 0 ELSE n

-----------------------------------------------------------------------------
Init ==
  /\ items \in ItemLists
  /\ pc = "collect"
  /\ next = 1
  /\ raw = <<>>
  /\ entries = <<>>
  /\ text = <<>>

Collect ==
  /\ pc = "collect"
  /\ next <= Len(items)
  /\ Acceptable(items[next])
  /\ raw' = Append(raw, RangeOf(items[next]))
  /\ next' = next + 1
  /\ UNCHANGED <<items, pc, entries, text>>

\* ErrInvalidData, for an unacceptable element or for an empty set.
Reject ==
  /\ pc = "collect"
  /\ \/ next <= Len(items) /\ ~ Acceptable(items[next])
     \/ next > Len(items) /\ raw = <<>>
  /\ pc' = "error"
  /\ UNCHANGED <<items, next, raw, entries, text>>

Sort ==
  /\ pc = "collect"
  /\ next > Len(items)
  /\ raw # <<>>
  /\ raw' \in {s \in Rearrangements(raw) : IsSorted(s)}
  /\ next' = 1
  /\ pc' = "merge"
  /\ UNCHANGED <<items, entries, text>>

\* A defect to be caught: adjacent ranges are not merged.
ReachesOverlapOnly(r) == entries # <<>> /\ r.lo <= entries[Len(entries)].hi

\* The last merged range is overlapped or touched by r.
Reaches(r) == entries # <<>> /\ r.lo <= entries[Len(entries)].hi + 1

MergeRange ==
  /\ pc = "merge"
  /\ next <= Len(raw)
  /\ LET r == raw[next]
         n == Len(entries)
     IN  \/ /\ Reaches(r)
            /\ entries' = IF r.hi > entries[n].hi
                          THEN [entries EXCEPT ![n] = [lo |-> entries[n].lo, hi |-> r.hi]]
                          ELSE entries
         \/ /\ ~ Reaches(r)
            /\ entries' = Append(entries, r)
  /\ next' = next + 1
  /\ UNCHANGED <<items, pc, raw, text>>

EndMerge ==
  /\ pc = "merge"
  /\ next > Len(raw)
  /\ pc' = "render"
  /\ UNCHANGED <<items, next, raw, entries, text>>

\* String.
Render ==
  /\ pc = "render"
  /\ text' = [i \in 1..Len(entries) |->
                [lo |-> Written(entries[i].lo), hi |-> Written(entries[i].hi)]]
  /\ pc' = "done"
  /\ UNCHANGED <<items, next, raw, entries>>

Terminated == pc \in {"done", "error"} /\ UNCHANGED vars

Next == Collect \/ Reject \/ Sort \/ MergeRange \/ EndMerge \/ Render \/ Terminated

Spec == Init /\ [][Next]_vars

-----------------------------------------------------------------------------
(***************************************************************************)
(* Meaning.  In a mailbox whose largest message is m, "*" is m and a range *)
(* names the messages between its bounds, whichever bound is larger (the   *)
(* server's reading, RFC 3501 seq-range).                                  *)
(***************************************************************************)
Resolve(n, m) == IF n = Star THEN m ELSE n

Names(pair, m, x) ==
  LET lo == Resolve(pair.lo, m)
      hi == Resolve(pair.hi, m)
  IN  (lo <= x /\ x <= hi) \/ (hi <= x /\ x <= lo)

NamedBy(pairs, m, x) == \E i \in 1..Len(pairs) : Names(pairs[i], m, x)

TypeOK ==
  /\ items \in Seq(Item)
  /\ pc \in {"collect", "merge", "render", "done", "error"}
  /\ next \in Nat \ {0}
  /\ raw \in Seq(SeqRange)
  /\ entries \in Seq(SeqRange)
  /\ text \in Seq([lo : 0..MaxNum, hi : 0..MaxNum])

\* The set that is sent names, in a mailbox of any size, exactly the messages
\* that the caller's list names: swapping bounds, sorting, merging touching
\* ranges and absorbing numbers into n:* never add or lose a message
\* (command.go coalesce, and the comment on maxSeq).
MeaningPreserved ==
  pc = "done" =>
    \A m \in 1..MaxNum : \A x \in 1..m : NamedBy(text, m, x) <=> NamedBy(items, m, x)

\* The merged ranges are ascending, apart by at least one number and not
\* inverted, at every iteration of the merge loop: "normalised, sorted,
\* de-overlapped" (command.go, SequenceSet.entries).
Canonical ==
  /\ \A i \in 1..Len(entries) : entries[i].lo <= entries[i].hi
  /\ \A i, j \in 1..Len(entries) : i < j => entries[i].hi + 1 < entries[j].lo
=============================================================================
