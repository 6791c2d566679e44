--------------------------- MODULE MCSequenceSet ---------------------------
(* Calls of up to MCMaxItems elements over numbers below, in and above the *)
(* grammar's range.                                                        *)
EXTENDS SequenceSet

CONSTANT MCMaxItems

MCNumbers == {[kind |-> "number", lo |-> n, hi |-> n] : n \in -1 .. MaxNum + 1}
MCRanges  == [kind : {"range"}, lo : 0..MaxNum, hi : 0..MaxNum]
MCBad     == { [kind |-> "range", lo |-> -1, hi |-> 2],
               [kind |-> "range", lo |-> 2, hi |-> MaxNum + 1],
               [kind |-> "other", lo |-> 1, hi |-> 1] }

MCItemLists == UNION {[1..n -> MCNumbers \union MCRanges \union MCBad] : n \in 0..MCMaxItems}
=============================================================================
