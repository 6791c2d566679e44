--------------------------- MODULE ResponseReader ---------------------------
(***************************************************************************)
(* Reader of reader.go: ReadBuffer assembles one response from the lines   *)
(* and literals that the host's two callbacks read off the connection.     *)
(*                                                                         *)
(* The octets kept apart are those literalSize looks at: braces, digits,   *)
(* the line end CR LF (one octet here) and any other ("x").                *)
(***************************************************************************)
EXTENDS Integers, SequencesExt     \* FlattenSeq

CONSTANTS
  Replies,    \* the responses the server may send
  MaxInt,     \* largest number strconv.Atoi accepts
  MaxSent     \* bound on the number of responses sent

Digits == {"0", "1", "2", "3", "4", "5", "6", "7", "8", "9"}
LBrace == "{"
RBrace == "}"
Octet  == Digits \union {LBrace, RBrace, "x", "CRLF"}

DigitValue ==
  [d \in Digits |->
     CHOOSE i \in 0..9 : <<"0", "1", "2", "3", "4", "5", "6", "7", "8", "9">>[i+1] = d]

Number(s) ==
  LET value[i \in 0..Len(s)] ==
        IF i = 0 THEN 0 ELSE 10 * value[i-1] + DigitValue[s[i]]
  IN  value[Len(s)]

(***************************************************************************)
(* A response as the server means it: texts and literals in turn, beginning*)
(* and ending with a text.  The size announced for a literal is the number *)
(* of its octets, written in decimal, with or without leading zeros.       *)
(***************************************************************************)
ASSUME RepliesAssumption ==
  \A r \in Replies :
    /\ r.texts \in Seq(Seq(Octet \ {"CRLF"}))
    /\ r.literals \in Seq(Seq(Octet))
    /\ r.sizes \in Seq(Seq(Digits))
    /\ Len(r.texts) = Len(r.literals) + 1
    /\ Len(r.sizes) = Len(r.literals)
    /\ \A i \in 1..Len(r.literals) :
         /\ r.sizes[i] # <<>>
         /\ Number(r.sizes[i]) = Len(r.literals[i])
         /\ Len(r.literals[i]) <= MaxInt
ASSUME BoundsAssumption == MaxInt \in Nat /\ MaxSent \in Nat

VARIABLES
  stream,     \* the octets that have arrived and are not yet read
  closed,     \* the server has closed the connection
  pc,         \* ReadBuffer: "idle", or blocked in "readLine" or "readLiteral"
  buf,        \* ReadBuffer's buf
  n,          \* the literal size that ReadBuffer is reading
  sent,       \* the octets of every response sent in full, in order (history)
  delivered   \* the buffers returned, in order (history)

vars == <<stream, closed, pc, buf, n, sent, delivered>>

-----------------------------------------------------------------------------
\* The server's encoding: every literal is announced on the line before it.
Marker(size) == <<LBrace>> \o size \o <<RBrace, "CRLF">>

Encoding(r) ==
  FlattenSeq([i \in 1..Len(r.literals) |->
                r.texts[i] \o Marker(r.sizes[i]) \o r.literals[i]])
  \o r.texts[Len(r.texts)] \o <<"CRLF">>

\* What may arrive: whole responses, and the beginning of one that is cut off.
Whole     == {Encoding(r) : r \in Replies}
Fragments == UNION {{SubSeq(e, 1, k) : k \in 0 .. Len(e) - 1} : e \in Whole}

-----------------------------------------------------------------------------
\* The length of the run of digits that ends s.
TrailingDigits(s) ==
  CHOOSE k \in 0..Len(s) :
    /\ \A i \in Len(s) - k + 1 .. Len(s) : s[i] \in Digits
    /\ k < Len(s) => s[Len(s) - k] \notin Digits

\* A defect to be caught: strconv.Atoi's error is ignored.
LiteralSizeUnbounded(text) ==
  LET l      == Len(text)
      inside == SubSeq(text, 1, l - 2)
      k      == TrailingDigits(inside)
  IN  IF /\ l >= 4
         /\ text[l] = "CRLF" /\ text[l-1] = RBrace
         /\ k > 0 /\ k < Len(inside) /\ text[l - 2 - k] = LBrace
      THEN Number(SubSeq(text, l - 1 - k, l - 2)) ELSE -1

\* literalSize's number: the size when the text ends in a marker, else -1.
\* A number that does not fit an int is no marker.
LiteralSize(text) ==
  LET l      == Len(text)
      inside == SubSeq(text, 1, l - 2)            \* what comes before "}" CRLF
      k      == TrailingDigits(inside)
      size   == Number(SubSeq(text, l - 1 - k, l - 2))
  IN  IF /\ l >= 4
         /\ text[l] = "CRLF" /\ text[l-1] = RBrace
         /\ k > 0 /\ k < Len(inside) /\ text[l - 2 - k] = LBrace
         /\ size <= MaxInt
      THEN size ELSE -1

-----------------------------------------------------------------------------
Init ==
  /\ stream = <<>>
  /\ closed = FALSE
  /\ pc = "idle"
  /\ buf = <<>>
  /\ n = 0
  /\ sent = <<>>
  /\ delivered = <<>>

\* The server sends a response.
Send(response) ==
  /\ ~ closed
  /\ Len(sent) < MaxSent
  /\ stream' = stream \o response
  /\ sent' = Append(sent, response)
  /\ UNCHANGED <<closed, pc, buf, n, delivered>>

\* The connection ends, after the first octets of a response that is cut off.
Close(fragment) ==
  /\ ~ closed
  /\ stream' = stream \o fragment
  /\ closed' = TRUE
  /\ UNCHANGED <<pc, buf, n, sent, delivered>>

\* The host calls ReadResponse, which calls ReadBuffer.
Call ==
  /\ pc = "idle"
  /\ pc' = "readLine"
  /\ buf' = <<>>
  /\ UNCHANGED <<stream, closed, n, sent, delivered>>

\* readLine returns the octets up to and including the first line end.
LineEnds == {i \in 1..Len(stream) : stream[i] = "CRLF"}
FirstLine == CHOOSE i \in LineEnds : \A j \in LineEnds : i <= j

\* A line has been appended: another literal, or the response is complete.
ReadLine ==
  /\ pc = "readLine"
  /\ LineEnds # {}
  /\ LET whole == buf \o SubSeq(stream, 1, FirstLine)
         size  == LiteralSize(whole)
     IN  \/ /\ size >= 0
            /\ pc' = "readLiteral"
            /\ buf' = whole
            /\ n' = size
            /\ UNCHANGED delivered
         \/ /\ size < 0
            /\ pc' = "idle"
            /\ buf' = <<>>
            /\ delivered' = Append(delivered, whole)
            /\ UNCHANGED n
  /\ stream' = SubSeq(stream, FirstLine + 1, Len(stream))
  /\ UNCHANGED <<closed, sent>>

\* A defect to be caught: the payload replaces what was read before it.
ReadLiteralOverwrites ==
  /\ pc = "readLiteral"
  /\ Len(stream) >= n
  /\ buf' = SubSeq(stream, 1, n)
  /\ stream' = SubSeq(stream, n + 1, Len(stream))
  /\ pc' = "readLine"
  /\ UNCHANGED <<closed, n, sent, delivered>>

ReadLiteral ==
  /\ pc = "readLiteral"
  /\ Len(stream) >= n
  /\ buf' = buf \o SubSeq(stream, 1, n)
  /\ stream' = SubSeq(stream, n + 1, Len(stream))
  /\ pc' = "readLine"
  /\ UNCHANGED <<closed, n, sent, delivered>>

\* Defects to be caught: what was assembled is returned; what has arrived is
\* not read once the connection is closed.
EndOfStreamReturnsPart ==
  /\ closed
  /\ \/ pc = "readLine" /\ LineEnds = {}
     \/ pc = "readLiteral" /\ Len(stream) < n
  /\ pc' = "idle"
  /\ buf' = <<>>
  /\ stream' = <<>>
  /\ delivered' = Append(delivered, buf \o stream)
  /\ UNCHANGED <<closed, n, sent>>
EndOfStreamAtOnce ==
  /\ closed
  /\ pc # "idle"
  /\ pc' = "idle"
  /\ buf' = <<>>
  /\ stream' = <<>>
  /\ UNCHANGED <<closed, n, sent, delivered>>

\* A callback fails at the end of the stream: what was assembled is dropped.
EndOfStream ==
  /\ closed
  /\ \/ pc = "readLine" /\ LineEnds = {}
     \/ pc = "readLiteral" /\ Len(stream) < n
  /\ pc' = "idle"
  /\ buf' = <<>>
  /\ stream' = <<>>
  /\ UNCHANGED <<closed, n, sent, delivered>>

Server == (\E response \in Whole : Send(response)) \/ (\E fragment \in Fragments : Close(fragment))
Reader == Call \/ ReadLine \/ ReadLiteral \/ EndOfStream

Next == Server \/ Reader

Spec == Init /\ [][Next]_vars

\* The host goes on calling, and a callback returns once it can.
FairSpec == Spec /\ WF_vars(Reader)

-----------------------------------------------------------------------------
TypeOK ==
  /\ stream \in Seq(Octet)
  /\ closed \in BOOLEAN
  /\ pc \in {"idle", "readLine", "readLiteral"}
  /\ buf \in Seq(Octet)
  /\ n \in 0..MaxInt
  /\ sent \in Seq(Whole)
  /\ delivered \in Seq(Seq(Octet))

\* Every octet is accounted for while no response has been cut off: what was
\* delivered, what is being assembled and what has arrived are, in this order,
\* what was sent (reader.go ReadBuffer splices without loss or duplication).
NothingLost ==
  ~ closed => FlattenSeq(delivered) \o buf \o stream = FlattenSeq(sent)

Channel == INSTANCE ResponseChannel WITH Responses <- Whole

\* Every call returns the next response, whole, or none: nothing is cut short,
\* joined, skipped or returned twice, wherever the connection ends (reader.go
\* ReadBuffer and its error returns).
ImplementsChannel == Channel!Spec

\* Every response sent in full is returned in the end, also when the connection
\* has been closed behind it (reader.go ReadBuffer).
ImplementsFairChannel == Channel!FairSpec

\* The comment on ReadBuffer says that a literal is read while the line just
\* read ends with a marker.
LineDecides ==
  [][ReadLine => (pc' = "readLiteral" <=> LiteralSize(SubSeq(stream, 1, FirstLine)) >= 0)]_vars
=============================================================================
