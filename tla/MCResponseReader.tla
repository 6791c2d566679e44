-------------------------- MODULE MCResponseReader --------------------------
(* Responses of up to two literals whose texts and payloads hold whole and *)
(* broken markers, line ends and nothing at all.                           *)
EXTENDS ResponseReader

\* Sizes up to 99, written without leading zeros.
Digit(i)      == CHOOSE d \in Digits : DigitValue[d] = i
Decimal(size) == IF size < 10 THEN <<Digit(size)>> ELSE <<Digit(size \div 10), Digit(size % 10)>>

Reply(texts, literals) ==
  [texts |-> texts, literals |-> literals, sizes |-> [i \in 1..Len(literals) |-> Decimal(Len(literals[i]))]]

Word   == <<"x">>
Size1  == <<"{", "1", "}">>
Size2  == <<"{", "2", "}">>
Line   == <<"x", "CRLF">>
Marked == <<"{", "1", "}", "CRLF">>
Long   == Line \o Marked \o Marked          \* of ten octets

\* Responses whose text does not look like a marker to a reader of the whole
\* buffer.  A last literal with nothing after it does not end like a marker.
ClearReplies ==
  { Reply(<<t>>, <<>>) : t \in {<<>>, <<"{", "}">>, <<"1", "}">>, <<"{", "9", "9", "}">>} }
  \union { Reply(<<Word, Word>>, <<p>>) : p \in {<<>>, Line, Marked, Size2, <<"{">>} }
  \union { Reply(<<Word, <<>>>>, <<p>>) : p \in {<<>>, Line, Marked, <<"{">>} }
  \union { Reply(<<<<>>, <<"1", "}">>>>, <<Word>>) }
  \union { Reply(<<<<>>, <<>>, Word>>, <<p, q>>) : p \in {<<>>, Size1}, q \in {Line, Size1} }
  \union { Reply(<<<<>>, <<>>, <<>>>>, <<p, Line>>) : p \in {<<>>, Size1} }
  \union { Reply(<<Word, t>>, <<Long>>) : t \in {<<>>, Word} }
  \union { [Reply(<<Word, <<>>>>, <<Line>>) EXCEPT !.sizes = <<<<"0", "2">>>>] }

\* Fewer, for liveness: no literal, an empty one, one that holds a
\* marker, a long one, two.
FewReplies ==
  { Reply(<<<<"{", "}">>>>, <<>>), Reply(<<Word, <<>>>>, <<<<>>>>),
    Reply(<<Word, Word>>, <<Marked>>), Reply(<<Word, <<>>>>, <<Long>>),
    Reply(<<<<>>, <<>>, Word>>, <<Size1, Line>>) }

\* A last literal that ends like a marker, with nothing but the line end after it.
MarkedReplies == {Reply(<<Word, <<>>>>, <<Size1>>), Reply(<<Word>>, <<>>)}
=============================================================================
