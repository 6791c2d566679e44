--------------------------- MODULE CommandBuilder ---------------------------
(***************************************************************************)
(* Builder of command.go: NextTag, Command, buildCommand and encodeData.   *)
(*                                                                         *)
(* The recursion of encodeData over lists is the walk of the argument list *)
(* in reading order, one item per step.  Octets are abstracted to tokens;  *)
(* what is kept is where each token goes (the main line or the tail of the *)
(* last literal), where literals are announced, how each argument is       *)
(* written and which bytes with a meaning of their own its text holds.     *)
(***************************************************************************)
EXTENDS Commands, SequencesExt     \* FlattenSeq

CONSTANTS
  Calls,      \* the calls considered, records with fields cmd and args
  MaxNum,     \* largest number of the grammar, 1<<32-1 in the code
  TagBase,    \* 10 in the code: the base tag numbers are written in
  TagWidth,   \* 4 in the code: the width they are padded to
  MaxTag      \* bound on the number of commands built

\* A list is closed behind its elements, so no argument list ends with an opening.
ASSUME CallsAssumption ==
  \A c \in Calls :
    /\ c.args \in Seq(Item)
    /\ c.args # <<>> => c.args[Len(c.args)].k # "open"
ASSUME NumberAssumption ==
  MaxNum \in Nat /\ TagBase \in Nat /\ TagBase > 1 /\ TagWidth \in Nat /\ MaxTag \in Nat

VARIABLES
  tagno,    \* Builder.tagno
  pc,       \* "idle" or "encode"
  call,     \* the call being encoded, or encoded last
  next,     \* the argument item that encodeData reaches next
  main,     \* the tokens of Command.Bytes
  lits,     \* the LiteralSegments, records with fields data and tail
  outcome,  \* how the last call ended: "none", "built", "invalid" or "panic"
  tags      \* the text of every tag generated, in order (history)

vars == <<tagno, pc, call, next, main, lits, outcome, tags>>

-----------------------------------------------------------------------------
(* Tokens.  The heading is "TAG SP CMD"; a marker is "{n}" CRLF.           *)

Heading   == [t |-> "heading"]
SP        == [t |-> "SP"]
CRLF      == [t |-> "CRLF"]
Open      == [t |-> "("]
Close     == [t |-> ")"]
Marker(n) == [t |-> "marker", n |-> n]
Unquoted(item) == [t |-> "unquoted", of |-> item]
Quoted(item)   == [t |-> "quoted", of |-> item]

\* What the grammar lets an argument be.
Sendable ==
  {item \in Item :
     /\ item.k # "other"
     /\ item.k = "number" => item.n \in 0..MaxNum
     /\ item.k = "date"   => item.n \in 1..12
     /\ item.k = "seqset" => item.n # 0}

Token ==
  [t : {"heading", "SP", "CRLF", "(", ")"}] \union [t : {"marker"}, n : Nat]
  \union [t : {"unquoted", "quoted"}, of : Sendable]

Segment == [data : Str, tail : Seq(Token)]

\* A defect to be caught: the quoting test before the multiline test.
StringFormQuotesFirst(s) ==
  IF s.len = 0 THEN "quoted"
  ELSE IF "special" \in s.has THEN "quoted"
  ELSE IF s.has \intersect {"eol", "8bit"} # {} THEN "literal"
  ELSE "unquoted"

\* encodeString's choice, in its order.
StringForm(s) ==
  IF s.len = 0 THEN "quoted"
  ELSE IF "eol" \in s.has THEN "literal"
  ELSE IF "8bit" \in s.has THEN "literal"
  ELSE IF "special" \in s.has THEN "quoted"
  ELSE "unquoted"

\* How encodeData writes an argument.
Form(item) ==
  CASE item.k = "string"             -> StringForm(item.s)
    [] item.k = "literal"            -> "literal"
    [] item.k \in {"quoted", "time"} -> "quoted"
    [] OTHER                         -> "unquoted"

Emitted(item) ==
  CASE item.k = "open"             -> Open
    [] item.k = "close"            -> Close
    [] item.k \notin {"open", "close"} /\ Form(item) = "literal"  -> Marker(item.s.len)
    [] item.k \notin {"open", "close"} /\ Form(item) = "quoted"   -> Quoted(item)
    [] item.k \notin {"open", "close"} /\ Form(item) = "unquoted" -> Unquoted(item)

\* A defect to be caught: the upper bound of a number is not enforced.
InvalidNoUpperBound(item) ==
  \/ item.k = "other"
  \/ item.k = "number" /\ item.n < 0
  \/ item.k = "seqset" /\ item.n = 0

\* ensureNumber, the nil *SequenceSet and the unsupported types.
Invalid(item) ==
  \/ item.k = "other"
  \/ item.k = "number" /\ (item.n < 0 \/ item.n > MaxNum)
  \/ item.k = "seqset" /\ item.n = 0

\* encodeDate indexes monthAbbr with the month.
BadMonth(item) == item.k = "date" /\ item.n \notin 1..12

\* A defect to be caught: a space before the first element of a list.
SpacedInsideList(args, i) == args[i].k # "close"

\* A space goes before every argument and before every list element but the
\* first of its list.
Spaced(args, i) == args[i].k # "close" /\ (i > 1 => args[i-1].k # "open")

\* The digits of a number, and the number padded to TagWidth (fmt's %04d).
Digits[n \in Nat] ==
  IF n < TagBase THEN <<n>> ELSE Append(Digits[n \div TagBase], n % TagBase)

\* A defect to be caught: a number wider than TagWidth loses its front digits.
TagTextTruncated(n) ==
  LET padded == [i \in 1..TagWidth |-> 0] \o Digits[n]
  IN  SubSeq(padded, Len(padded) - TagWidth + 1, Len(padded))
TagText(n) == [i \in 1 .. TagWidth - Len(Digits[n]) |-> 0] \o Digits[n]

-----------------------------------------------------------------------------
NoCall == Call("", <<>>)

Init ==
  /\ tagno = 0
  /\ pc = "idle"
  /\ call = NoCall
  /\ next = 1
  /\ main = <<>>
  /\ lits = <<>>
  /\ outcome = "none"
  /\ tags = <<>>

\* Command: the tag is taken before anything is checked.
Begin(c) ==
  /\ pc = "idle"
  /\ outcome # "panic"
  /\ tagno < MaxTag
  /\ tagno' = tagno + 1
  /\ tags' = Append(tags, TagText(tagno'))
  /\ pc' = "encode"
  /\ call' = c
  /\ next' = 1
  /\ main' = <<Heading>>
  /\ lits' = <<>>
  /\ outcome' = "none"

\* A defect to be caught: what follows a literal goes to the first segment.
EmitTailFirst(tokens) ==
  IF lits = <<>> THEN lits
  ELSE [lits EXCEPT ![1] = [data |-> lits[1].data, tail |-> lits[1].tail \o tokens]]

\* buildCommand's emit: to the tail of the last literal, if there is one.
EmitMain(tokens) == IF lits = <<>> THEN main \o tokens ELSE main
EmitTail(tokens) ==
  LET n == Len(lits) IN
  IF lits = <<>> THEN lits
  ELSE [lits EXCEPT ![n] = [data |-> lits[n].data, tail |-> lits[n].tail \o tokens]]

\* A defect to be caught: no segment for an empty payload.
StartLiteralUnlessEmpty(litsBefore, s) ==
  IF s.len = 0 THEN litsBefore ELSE Append(litsBefore, [data |-> s, tail |-> <<>>])

\* startLiteral: opens a segment for the payload just announced.
StartLiteral(litsBefore, s) == Append(litsBefore, [data |-> s, tail |-> <<>>])

\* One argument, or one parenthesis of a list, with the space before it.
EncodeData ==
  /\ pc = "encode"
  /\ next <= Len(call.args)
  /\ LET item   == call.args[next]
         tokens == IF Spaced(call.args, next) THEN <<SP, Emitted(item)>> ELSE <<Emitted(item)>>
     IN  /\ ~ Invalid(item)
         /\ ~ BadMonth(item)
         /\ main' = EmitMain(tokens)
         /\ lits' = IF Form(item) = "literal" THEN StartLiteral(EmitTail(tokens), item.s)
                                             ELSE EmitTail(tokens)
  /\ next' = next + 1
  /\ UNCHANGED <<tagno, pc, call, outcome, tags>>

\* The caller gets Command{} and ErrInvalidData; what was emitted is dropped.
Fail ==
  /\ pc = "encode"
  /\ next <= Len(call.args)
  /\ Invalid(call.args[next])
  /\ pc' = "idle"
  /\ outcome' = "invalid"
  /\ main' = <<>>
  /\ lits' = <<>>
  /\ UNCHANGED <<tagno, call, next, tags>>

\* An index out of range in encodeDate unwinds the caller.
Panic ==
  /\ pc = "encode"
  /\ next <= Len(call.args)
  /\ BadMonth(call.args[next])
  /\ pc' = "idle"
  /\ outcome' = "panic"
  /\ main' = <<>>
  /\ lits' = <<>>
  /\ UNCHANGED <<tagno, call, next, tags>>

Finish ==
  /\ pc = "encode"
  /\ next > Len(call.args)
  /\ main' = EmitMain(<<CRLF>>)
  /\ lits' = EmitTail(<<CRLF>>)
  /\ pc' = "idle"
  /\ outcome' = "built"
  /\ UNCHANGED <<tagno, call, next, tags>>

Next == (\E c \in Calls : Begin(c)) \/ EncodeData \/ Fail \/ Panic \/ Finish

Spec == Init /\ [][Next]_vars

-----------------------------------------------------------------------------
TypeOK ==
  /\ tagno \in 0..MaxTag
  /\ pc \in {"idle", "encode"}
  /\ call \in Calls \union {NoCall}
  /\ next \in 1 .. Len(call.args) + 1
  /\ main \in Seq(Token)
  /\ lits \in Seq(Segment)
  /\ outcome \in {"none", "built", "invalid", "panic"}
  /\ tags \in Seq({TagText(n) : n \in 1..MaxTag})
  /\ Len(tags) = tagno

\* The line of the command before its k-th literal, or after its last.
Line(k) == IF k = 1 THEN main ELSE lits[k-1].tail

\* What the text of a token does to its line: a line break ends it, and an
\* {n} outside quotes announces a payload when the line ends behind it.
InText(token, what) ==
  /\ token.t \in {"unquoted", "quoted"}
  /\ token.of.k \in Verbatim \union {"string"}
  /\ what \in token.of.s.has

EndsLine(token)         == token.t \in {"marker", "CRLF"} \/ InText(token, "eol")
AnnouncesPayload(token) ==
  token.t = "marker" \/ (token.t = "unquoted" /\ InText(token, "marker"))

Announcements(line) == {i \in 1..Len(line) : AnnouncesPayload(line[i])}

\* Every literal is announced by the line that comes just before its payload,
\* with the payload's length, as the last thing on that line; nothing else is
\* announced, by a string argument in particular.  The host that stops after a
\* line and the server that counts the payload so agree on every boundary, if
\* the caller's verbatim texts hold no announcement (command.go, Command and
\* LiteralSegment: "up to and including the next literal's {n}\r\n").
FramedByLiterals ==
  Clear(call.args) =>
    /\ \A k \in 1..Len(lits) :
         /\ Announcements(Line(k)) = {Len(Line(k))}
         /\ Line(k)[Len(Line(k))].n = lits[k].data.len
    /\ Announcements(Line(Len(lits) + 1)) = {}

Payload(s) == [t |-> "payload", of |-> s]

\* What goes over the wire, each payload in its place.
Wire ==
  main \o FlattenSeq([k \in 1..Len(lits) |-> <<Payload(lits[k].data)>> \o lits[k].tail])

\* What a line says of the arguments, separators aside.
Kept(token) == IF token.t \in {"heading", "SP", "CRLF"} THEN <<>> ELSE <<token>>
Unseparated(line) == FlattenSeq([i \in 1..Len(line) |-> Kept(line[i])])

\* What the first k arguments have to look like.
Sent(item) ==
  IF Form(item) = "literal" THEN <<Marker(item.s.len), Payload(item.s)>> ELSE <<Emitted(item)>>
Expected(k) == FlattenSeq([i \in 1..k |-> Sent(call.args[i])])

\* The bytes of Bytes, Data and Tail put one after the other carry every
\* argument in the order given, across any number of literals and nested
\* lists.  A call returns all of them or nothing, however far it has got.  The
\* line ends once, after the last argument, and before that only where a
\* payload follows, if the caller's verbatim texts hold no line break: no string
\* argument brings one into the line (command.go, Command, buildCommand's emit
\* and its error return, encodeString).
ArgumentsInOrder ==
  /\ pc = "encode" => Unseparated(Wire) = Expected(next - 1)
  /\ pc = "idle" /\ outcome = "built" => Unseparated(Wire) = Expected(Len(call.args))
  /\ pc = "idle" /\ outcome # "built" => Wire = <<>>
  /\ outcome = "built" /\ Clear(call.args) =>
       \A i \in 1..Len(Wire) : EndsLine(Wire[i]) <=> Wire[i].t = "marker" \/ i = Len(Wire)

\* Adjacent arguments never fuse, and no space is where the grammar has none:
\* "TAG SP CMD (SP arg)* CRLF" with lists written "(a b)" (command.go, Command).
WellSeparated ==
  \A i \in 1 .. Len(Wire) - 1 :
    LET before == Wire[i].t
        after  == Wire[i+1].t
    IN  /\ before \in {"heading", "unquoted", "quoted", "payload", ")"}
           => after \in {"SP", ")", "CRLF"}
        /\ before \in {"SP", "("} => after \notin {"SP", "CRLF"}
        /\ before = "SP" => after # ")"

\* What the caller passes as a string argument, and no builder has made raw
\* data, reaches the wire unquoted only if none of its bytes has a meaning of
\* its own, and in quotes only if it has no line break and no 8-bit byte
\* (command.go encodeString).
StringsProtected ==
  \A k \in 1 .. Len(lits) + 1 : \A i \in 1..Len(Line(k)) :
    LET token == Line(k)[i] IN
      /\ token.t = "unquoted" /\ token.of.k = "string" => token.of.s.has = {} /\ token.of.s.len > 0
      /\ token.t = "quoted" /\ token.of.k = "string" => token.of.s.has \intersect {"eol", "8bit"} = {}

\* No two commands share a tag, also past the padded width and after calls
\* that failed (command.go NextTag).
TagsDistinct == \A i, j \in 1..Len(tags) : i # j => tags[i] # tags[j]

\* The comments on Argument, Date and Append say that a date argument is sent
\* as a quoted date.
DatesQuoted ==
  \A k \in 1 .. Len(lits) + 1 : \A i \in 1..Len(Line(k)) :
    LET token == Line(k)[i] IN
      token.t \in {"quoted", "unquoted"} /\ token.of.k = "date" => token.t = "quoted"
=============================================================================
