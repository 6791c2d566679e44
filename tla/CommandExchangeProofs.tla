------------------------ MODULE CommandExchangeProofs ------------------------
(***************************************************************************)
(* CommandExchange proved for every set of calls and every interleaving of *)
(* the host and the server: what the host writes while the server has asked*)
(* for nothing is whole command lines, and the exchange implements the safe*)
(* part of CommandService.                                                 *)
(***************************************************************************)
EXTENDS CommandExchange, SequenceLemmas, TLAPS

\* The theorems about the builder, for the builder of the exchange.
B == INSTANCE CommandBuilderProofs

-----------------------------------------------------------------------------
(* The builder of the exchange is the builder that was proved correct.     *)

\* The builder of the exchange, an instance, is the builder of CommandBuilder.
LEMMA SameItem == B!Item = Item
BY DEF B!Item, Item, B!Kinds, Kinds, B!Str, Str

LEMMA SameTagText == \A n : Builder!TagText(n) = B!TagText(n)
<1>1. Builder!Digits = B!Digits
  BY DEF Builder!Digits, B!Digits
<1> QED BY <1>1 DEF Builder!TagText, B!TagText

LEMMA SameEmitted == \A item : Builder!Emitted(item) = B!Emitted(item) /\ Builder!Form(item) = B!Form(item)
BY DEF Builder!Emitted, B!Emitted, Builder!Form, B!Form, Builder!StringForm, B!StringForm,
       Builder!Open, B!Open, Builder!Close, B!Close, Builder!Marker, B!Marker,
       Builder!Quoted, B!Quoted, Builder!Unquoted, B!Unquoted

LEMMA SameEmit ==
  \A tokens : Builder!EmitMain(tokens) = B!EmitMain(tokens) /\ Builder!EmitTail(tokens) = B!EmitTail(tokens)
BY DEF Builder!EmitMain, B!EmitMain, Builder!EmitTail, B!EmitTail

LEMMA SameInit == Builder!Init <=> B!Init
BY DEF Builder!Init, B!Init, Builder!NoCall, B!NoCall, B!Call, Builder!Call

LEMMA SameBegin == \A c : Builder!Begin(c) <=> B!Begin(c)
BY SameTagText DEF Builder!Begin, B!Begin, Builder!Heading, B!Heading

LEMMA SameEncodeData == Builder!EncodeData <=> B!EncodeData
BY SameEmitted, SameEmit
DEF Builder!EncodeData, B!EncodeData, Builder!Spaced, B!Spaced, Builder!Invalid, B!Invalid,
    Builder!BadMonth, B!BadMonth, Builder!StartLiteral, B!StartLiteral, Builder!SP, B!SP

LEMMA SameFail == Builder!Fail <=> B!Fail
BY DEF Builder!Fail, B!Fail, Builder!Invalid, B!Invalid

LEMMA SamePanic == Builder!Panic <=> B!Panic
BY DEF Builder!Panic, B!Panic, Builder!BadMonth, B!BadMonth

LEMMA SameFinish == Builder!Finish <=> B!Finish
BY SameEmit DEF Builder!Finish, B!Finish, Builder!CRLF, B!CRLF

LEMMA SameTypeOK == Builder!TypeOK <=> B!TypeOK
<1>1. Builder!Token = B!Token
  BY DEF Builder!Token, B!Token, Builder!Sendable, B!Sendable, Builder!Item, B!Item,
         Builder!Kinds, B!Kinds, Builder!Str, B!Str
<1>2. Builder!Segment = B!Segment
  BY <1>1 DEF Builder!Segment, B!Segment, Builder!Str, B!Str
<1>3. Builder!NoCall = B!NoCall
  BY DEF Builder!NoCall, B!NoCall, B!Call, Builder!Call
<1> QED BY <1>1, <1>2, <1>3, SameTagText DEF Builder!TypeOK, B!TypeOK

\* A step of the exchange is a step of the builder or leaves the builder alone.
LEMMA BuilderSteps == [Next]_vars => [B!Next]_(B!vars)
<1> SUFFICES ASSUME [Next]_vars PROVE B!Next \/ UNCHANGED B!vars
  OBVIOUS
<1> USE DEF builderVars, B!vars
<1>1. ASSUME NEW c \in Calls, Builder!Begin(c) PROVE B!Next
  BY <1>1, SameBegin DEF B!Next
<1>2. CASE Begin
  BY <1>1, <1>2 DEF Begin
<1>3. CASE Build
  BY <1>3, SameEncodeData, SameFail, SamePanic, SameFinish DEF Build, B!Next
<1>4. CASE WriteBytes \/ Continued \/ EndIdle \/ Answered \/ Informed \/ Inform
  BY <1>4 DEF WriteBytes, Continued, EndIdle, Answered, Informed, Inform
<1>5. CASE Server
  BY <1>5 DEF Server, ReadLine, Carryout, AcceptLiteral, Refuse, ReadPayload, AcceptIdle, ReadDone,
              Challenge, ReadReply, Authenticated, SendAnswer
<1>6. CASE UNCHANGED vars
  BY <1>6 DEF vars
<1> QED BY <1>2, <1>3, <1>4, <1>5, <1>6 DEF Next, Host

\* What the theorems of CommandBuilderProofs assume.
LEMMA BuilderAssumptions == B!CallsAssumption /\ B!NumberAssumption
BY SameItem, CallsAssumption, NumberAssumption DEF B!CallsAssumption, B!NumberAssumption

BuilderInv == B!IInv /\ B!WireInv /\ B!BuiltInv /\ B!TagsDistinct

\* What CommandBuilderProofs proves of a builder alone, on its lines, its literals
\* and its tags, holds of the builder of the exchange.
THEOREM BuilderInvariant == Spec => []BuilderInv
<1>1. Spec => B!Spec
  BY SameInit, BuilderSteps, PTL DEF Spec, Init, B!Spec
<1>2. B!Spec => [](B!IInv /\ B!WireInv)
  BY SameItem, CallsAssumption, NumberAssumption, B!WireInvariant
<1>3. B!Spec => []B!BuiltInv
  BY SameItem, CallsAssumption, NumberAssumption, B!BuiltInvariant
<1>4. B!Spec => []B!TagsDistinct
  BY SameItem, CallsAssumption, NumberAssumption, B!TagsNeverShared
<1> QED BY <1>1, <1>2, <1>3, <1>4, PTL DEF BuilderInv

-----------------------------------------------------------------------------
(* The tokens of a command on the wire.                                    *)

Wired ==
  [t : {"heading"}, tag : {Builder!TagText(n) : n \in 1..MaxTag}, cmd : {c.cmd : c \in Calls}]
  \union [t : {"heading", "SP", "CRLF", "(", ")"}] \union [t : {"marker"}, n : Nat]
  \union [t : {"unquoted", "quoted"}, of : Item] \union [t : {"payload"}, of : Str]
  \union {Reply, DONE}

\* What ends a line for good.
Ends == {token \in Wired : token.t = "CRLF" \/ Builder!InText(token, "eol")}

\* What the host writes only when it is asked to.
Asked == {"payload", "reply", "DONE"}

LEMMA NotEnds ==
  \A token : token.t \notin {"CRLF", "unquoted", "quoted"} => token \notin Ends
BY DEF Ends, Builder!InText

LEMMA SameFlatten == \A s : B!FlattenSeq(s) = FlattenSeq(s)
BY DEF B!FlattenSeq, FlattenSeq

LEMMA SameStr == B!Str = Str
BY DEF B!Str, Str

LEMMA BuilderTokens ==
  /\ B!Token \subseteq Wired /\ B!WireToken \subseteq Wired
  /\ \A token \in B!Token : token.t \notin Asked
<1>1. B!Sendable \subseteq Item
  BY SameItem DEF B!Sendable
<1>2. B!Token \subseteq Wired
  BY <1>1 DEF B!Token, Wired
<1>3. B!WireToken \subseteq Wired
  BY <1>2, SameStr DEF B!WireToken, Wired
<1>4. \A token \in B!Token : token.t \notin Asked
  BY DEF B!Token, Asked
<1> QED BY <1>2, <1>3, <1>4

LEMMA SequenceOfMore ==
  ASSUME NEW S, NEW T, S \subseteq T
  PROVE  \A s \in Seq(S) : s \in Seq(T)
OBVIOUS

LEMMA PayloadWired == \A s \in Str : Payload(s) \in Wired /\ Payload(s).t = "payload" /\ Payload(s) \notin Ends
BY NotEnds DEF Payload, Wired

LEMMA EmptyPayload ==
  /\ NoText \in Str
  /\ \A s \in Str : s.len = 0 => s = NoText
BY DEF NoText, Str

\* The command that has been built, on its way: its lines and the payloads
\* between them, up to the tail of its k-th literal.
Title      == [t |-> "heading", tag |-> tags[Len(tags)], cmd |-> call.cmd]
Literals   == B!Pieces(lits)
UpTo(k)    == Written(main) \o FlattenSeq(SubSeq(Literals, 1, k))
Requested  == Command(tags[Len(tags)], call.cmd, call.args)
HasBuilt   == BuilderInv /\ outcome = "built" /\ tags # <<>>

LEMMA BuiltTypes ==
  ASSUME HasBuilt
  PROVE  /\ main \in Seq(B!Token) /\ main # <<>> /\ main[1] = B!Heading
         /\ call \in Calls /\ call.args \in Seq(Item) /\ next = Len(call.args) + 1
         /\ lits \in Seq(B!Segment) /\ Len(lits) \in Nat
         /\ \A k \in 1..Len(lits) : lits[k].data \in Str /\ lits[k].tail \in Seq(B!Token)
<1>1. /\ main \in Seq(B!Token) /\ main # <<>> /\ main[1] = B!Heading
      /\ call \in Calls /\ next = Len(call.args) + 1 /\ lits \in Seq(B!Segment)
  BY DEF HasBuilt, BuilderInv, B!IInv, B!TypeOK, B!BuiltInv
<1>2. call.args \in Seq(Item)
  BY <1>1, CallsAssumption
<1>3. \A k \in 1..Len(lits) : lits[k] \in B!Segment
  BY <1>1, ElementOfSeq
<1>4. \A k \in 1..Len(lits) : lits[k].data \in Str /\ lits[k].tail \in Seq(B!Token)
  BY <1>3, SameStr DEF B!Segment
<1> QED BY <1>1, <1>2, <1>4

LEMMA TitleWired ==
  ASSUME HasBuilt
  PROVE  Title \in Wired /\ Title.t = "heading" /\ Title \notin Ends
<1>1. tags \in Seq({Builder!TagText(n) : n \in 1..MaxTag})
  BY SameTagText DEF HasBuilt, BuilderInv, B!IInv, B!TypeOK
<1>2. Len(tags) \in 1..Len(tags)
  BY <1>1 DEF HasBuilt
<1>3. tags[Len(tags)] \in {Builder!TagText(n) : n \in 1..MaxTag}
  BY <1>1, <1>2, ElementOfSeq
<1>4. call.cmd \in {c.cmd : c \in Calls}
  BY BuiltTypes
<1>5. Title \in Wired /\ Title.t = "heading"
  BY <1>3, <1>4 DEF Title, Wired
<1> QED BY <1>5, NotEnds

\* The first line is the main line with the tag and the name in its heading.
LEMMA FirstLine ==
  ASSUME HasBuilt
  PROVE  /\ Written(main) = <<Title>> \o Tail(main) /\ Written(main) \in Seq(Wired)
         /\ main = <<B!Heading>> \o Tail(main) /\ Tail(main) \in Seq(B!Token)
         /\ Written(main) # <<>> /\ Written(main)[1] = Title /\ Len(Written(main)) = Len(main)
         /\ \A i \in 2..Len(main) : Written(main)[i] = main[i]
<1>1. main \in Seq(B!Token) /\ main # <<>> /\ main[1] = B!Heading
  BY BuiltTypes
<1>2. /\ Tail(main) \in Seq(B!Token) /\ main = <<main[1]>> \o Tail(main)
      /\ Len(Tail(main)) = Len(main) - 1
  BY <1>1, CutFirst
<1>3. Written(main) = <<Title>> \o Tail(main)
  BY DEF Written, Title
<1>4. Tail(main) \in Seq(Wired) /\ <<Title>> \in Seq(Wired)
  BY <1>2, BuilderTokens, SequenceOfMore, TitleWired
<1>5. \A i \in 1 .. Len(main)-1 : Tail(main)[i] = main[i+1]
  BY <1>1
<1> DEFINE rest == Tail(main)
           w    == <<Title>> \o rest
<1>6. /\ w \in Seq(Wired) /\ Len(w) = 1 + Len(rest)
      /\ \A i \in 1 .. 1 + Len(rest) : w[i] = IF i <= 1 THEN Title ELSE rest[i-1]
  <2> HIDE DEF rest
  <2> QED BY <1>4 DEF rest
<1>7. Len(main) \in Nat /\ Len(main) >= 1
  BY <1>1
<1>8. w # <<>> /\ w[1] = Title /\ Len(w) = Len(main)
  BY <1>2, <1>6, <1>7
<1>9. ASSUME NEW i \in 2..Len(main) PROVE w[i] = main[i]
  <2>1. i \in 1 .. 1 + Len(rest) /\ ~ (i <= 1) /\ i-1 \in 1 .. Len(main)-1 /\ i-1+1 = i
    BY <1>2, <1>7
  <2>2. w[i] = rest[i-1]
    BY <1>6, <2>1
  <2> QED BY <1>5, <2>1, <2>2
<1> QED BY <1>1, <1>2, <1>3, <1>6, <1>8, <1>9

LEMMA LiteralsType ==
  ASSUME HasBuilt
  PROVE  /\ Literals \in Seq(Seq(Wired)) /\ Len(Literals) = Len(lits)
         /\ \A k \in 1..Len(lits) :
              /\ Literals[k] = <<Payload(lits[k].data)>> \o lits[k].tail
              /\ lits[k].tail \in Seq(Wired) /\ <<Payload(lits[k].data)>> \in Seq(Wired)
<1>1. \A k \in 1..Len(lits) : lits[k].data \in Str /\ lits[k].tail \in Seq(B!Token)
  BY BuiltTypes
<1>2. Literals = [k \in 1..Len(lits) |-> <<Payload(lits[k].data)>> \o lits[k].tail]
  BY DEF Literals, B!Pieces, B!Behind, B!Payload, Payload
<1>3. \A k \in 1..Len(lits) : lits[k].tail \in Seq(Wired) /\ <<Payload(lits[k].data)>> \in Seq(Wired)
  BY <1>1, BuilderTokens, SequenceOfMore, PayloadWired
<1>4. \A k \in 1..Len(lits) : <<Payload(lits[k].data)>> \o lits[k].tail \in Seq(Wired)
  BY <1>3, ConcatProperties
<1>5. Len(lits) \in Nat
  BY BuiltTypes
<1>6. Literals \in Seq(Seq(Wired)) /\ Len(Literals) = Len(lits)
  <2> DEFINE W == Seq(Wired)
  <2> HIDE DEF W
  <2>1. \A k \in 1..Len(lits) : <<Payload(lits[k].data)>> \o lits[k].tail \in W
    BY <1>4 DEF W
  <2>2. Literals \in Seq(W) /\ Len(Literals) = Len(lits)
    BY <1>2, <1>5, <2>1
  <2> QED BY <2>2 DEF W
<1> QED BY <1>2, <1>3, <1>6

\* The command grows by a payload and the line behind it.
LEMMA UpToSteps ==
  ASSUME HasBuilt
  PROVE  /\ UpTo(0) = Written(main)
         /\ \A k \in 0..Len(lits) : UpTo(k) \in Seq(Wired) /\ UpTo(k) # <<>> /\ UpTo(k)[1] = Title
         /\ \A k \in 1..Len(lits) :
              UpTo(k) = UpTo(k-1) \o (<<Payload(lits[k].data)>> \o lits[k].tail)
<1> DEFINE n     == Len(lits)
           L     == Literals
           W     == Seq(Wired)
           first == Written(main)
<1>1. /\ n \in Nat /\ L \in Seq(W) /\ Len(L) = n
      /\ \A k \in 1..n : L[k] = <<Payload(lits[k].data)>> \o lits[k].tail
  BY LiteralsType, BuiltTypes
<1>2. first \in W /\ first # <<>> /\ first[1] = Title
  BY FirstLine
<1> DEFINE P(k) == SubSeq(L, 1, k)
<1>3. \A k \in 0..n : P(k) \in Seq(W) /\ Len(P(k)) = k
  <2> HIDE DEF L, W
  <2> QED BY <1>1, CutAt
<1>4. \A k \in 1..n : P(k) = Append(P(k-1), L[k])
  <2> HIDE DEF L, W
  <2> TAKE k \in 1..n
  <2>1. P(k) \in Seq(W) /\ Len(P(k)) = (k-1) + 1 /\ k-1 \in Nat
    BY <1>1, <1>3
  <2> DEFINE s == P(k)
  <2>2. s = Append(SubSeq(s, 1, k-1), s[(k-1)+1])
    <3> HIDE DEF s, P
    <3> QED BY <2>1, CutLast DEF s
  <2>3. s[(k-1)+1] = L[k]
    BY <1>1
  <2>4. SubSeq(s, 1, k-1) = P(k-1)
    BY <1>1
  <2> HIDE DEF s, P
  <2> QED BY <2>2, <2>3, <2>4 DEF s
<1>5. \A k \in 0..n : FlattenSeq(P(k)) \in W
  <2> HIDE DEF P, L
  <2> QED BY <1>3, FlattenType
<1>6. \A k \in 0..n : UpTo(k) = first \o FlattenSeq(P(k))
  BY DEF UpTo
<1> HIDE DEF P, L, first
<1>7. UpTo(0) = Written(main)
  <2>1. P(0) = <<>>
    <3>1. P(0) \in Seq(W) /\ Len(P(0)) = 0
      BY <1>1, <1>3
    <3> QED BY <3>1
  <2>2. UpTo(0) = first \o <<>>
    <3>1. UpTo(0) = first \o FlattenSeq(P(0))
      <4>1. 0 \in 0..n
        BY <1>1
      <4> QED BY <1>6, <4>1
    <3> QED BY <2>1, <3>1, FlattenEmpty
  <2> QED BY <1>2, <2>2 DEF first
<1>8. \A k \in 0..n : UpTo(k) \in Seq(Wired) /\ UpTo(k) # <<>> /\ UpTo(k)[1] = Title
  <2> TAKE k \in 0..n
  <2> DEFINE f == FlattenSeq(P(k))
  <2>1. f \in W /\ UpTo(k) = first \o f
    BY <1>5, <1>6
  <2> HIDE DEF f
  <2>2. first \o f \in W /\ first \o f # <<>> /\ (first \o f)[1] = first[1]
    BY <1>2, <2>1
  <2> QED BY <1>2, <2>1, <2>2
<1>9. ASSUME NEW k \in 1..n PROVE UpTo(k) = UpTo(k-1) \o L[k]
  <2> DEFINE old == FlattenSeq(P(k-1))
             new == FlattenSeq(P(k))
             one == L[k]
  <2>1. k-1 \in 0..n /\ k \in 0..n
    BY <1>1
  <2>2. old \in W /\ new \in W /\ one \in W
    BY <1>1, <1>5, <2>1, ElementOfSeq
  <2>3. new = old \o one
    <3>1. P(k-1) \in Seq(Seq(Wired)) /\ L[k] \in Seq(Wired)
      BY <1>3, <2>1, <2>2
    <3>2. FlattenSeq(Append(P(k-1), L[k])) = FlattenSeq(P(k-1)) \o L[k]
      BY <3>1, FlattenAppend
    <3> QED BY <1>4, <3>2
  <2>4. UpTo(k) = first \o new /\ UpTo(k-1) = first \o old
    BY <1>6, <2>1
  <2> HIDE DEF old, new, one
  <2>5. Associates(first, old, one)
    BY <1>2, <2>2, ConcatOfThree
  <2> QED BY <2>3, <2>4, <2>5 DEF Associates, one
<1> QED BY <1>1, <1>7, <1>8, <1>9 DEF L

\* All of it is what the builder was asked to put on the wire, but for the
\* heading.
LEMMA AllOfIt ==
  ASSUME HasBuilt
  PROVE  \E rest \in Seq(B!WireToken) :
           B!Wire = <<B!Heading>> \o rest /\ UpTo(Len(lits)) = <<Title>> \o rest
<1> DEFINE f    == FlattenSeq(Literals)
           text == Tail(main)
           rest == text \o f
<1>1. B!Wire = main \o f
  <2>1. B!Wire = main \o FlattenSeq([k \in 1..Len(lits) |-> <<B!Payload(lits[k].data)>> \o lits[k].tail])
    BY SameFlatten DEF B!Wire
  <2> QED BY <2>1 DEF Literals, B!Pieces, B!Behind
<1>2. f \in Seq(B!WireToken)
  <2>1. Literals \in Seq(Seq(B!WireToken))
    <3>1. B!FlattenSeq(Literals) \in Seq(B!WireToken) /\ Literals \in Seq(Seq(B!WireToken))
      BY BuiltTypes, SameItem, CallsAssumption, NumberAssumption, B!PiecesType DEF Literals
    <3> QED BY <3>1
  <2> QED BY <2>1, FlattenType
<1>3. /\ main = <<B!Heading>> \o text /\ text \in Seq(B!Token)
      /\ Written(main) = <<Title>> \o text
  BY FirstLine
<1>4. text \in Seq(B!WireToken) /\ B!Heading \in B!WireToken
  <2>1. B!Token \subseteq B!WireToken
    BY DEF B!WireToken
  <2>2. B!Heading \in B!Token
    BY DEF B!Heading, B!Token
  <2> QED BY <1>3, <2>1, <2>2, SequenceOfMore
<1>5. SubSeq(Literals, 1, Len(lits)) = Literals
  <2>1. Literals \in Seq(Seq(Wired)) /\ Len(Literals) = Len(lits)
    BY LiteralsType
  <2> HIDE DEF Literals
  <2> QED BY <2>1, SubSeqFull
<1>6. UpTo(Len(lits)) = Written(main) \o f
  BY <1>5 DEF UpTo
<1>7. Title \in Wired
  BY TitleWired
<1> HIDE DEF f, text
<1>8. rest \in Seq(B!WireToken)
  BY <1>2, <1>4
<1>9. Associates(<<B!Heading>>, text, f)
  <2>1. <<B!Heading>> \in Seq(B!WireToken)
    BY <1>4
  <2> QED BY <1>2, <1>4, <2>1, ConcatOfThree
<1>10. Associates(<<Title>>, text, f)
  <2>1. <<Title>> \in Seq(Wired)
    BY <1>7
  <2>2. text \in Seq(Wired) /\ f \in Seq(Wired)
    BY <1>2, <1>4, BuilderTokens, SequenceOfMore
  <2> QED BY <2>1, <2>2, ConcatOfThree
<1>11. B!Wire = <<B!Heading>> \o rest /\ UpTo(Len(lits)) = <<Title>> \o rest
  BY <1>1, <1>3, <1>6, <1>9, <1>10 DEF Associates
<1> QED BY <1>8, <1>11

\* No text of the command ends its line: the calls are clear.
LEMMA SameClear == \A args : B!Clear(args) <=> Clear(args)
BY DEF B!Clear, Clear, B!Verbatim, Verbatim

LEMMA SameInText == \A token, what : B!InText(token, what) <=> Builder!InText(token, what)
BY DEF B!InText, Builder!InText, B!Verbatim, Builder!Verbatim

LEMMA WireIsLegible == HasBuilt => B!Wire \in Seq(B!LegibleWire)
<1> SUFFICES ASSUME HasBuilt PROVE B!Wire \in Seq(B!LegibleWire)
  OBVIOUS
<1>1. B!IInv
  BY DEF HasBuilt, BuilderInv
<1>2. B!Clear(call.args)
  BY BuiltTypes, ClearAssumption, SameClear
<1> QED BY <1>1, <1>2, SameItem, CallsAssumption, NumberAssumption, B!LegibleLines

\* The line of the command ends with its last token and there only, so what
\* comes before the end of a payload is not a whole line.
LEMMA LineEndsOnce ==
  ASSUME HasBuilt
  PROVE  /\ EndedBy(Ends, UpTo(Len(lits)))
         /\ \A k \in 1..Len(lits) : FreeOf(Ends, UpTo(k-1) \o <<Payload(lits[k].data)>>)
         /\ \A k \in 0..Len(lits)-1 : FreeOf(Ends, UpTo(k))
<1> DEFINE n == Len(lits)
<1>1. PICK rest \in Seq(B!WireToken) :
        B!Wire = <<B!Heading>> \o rest /\ UpTo(n) = <<Title>> \o rest
  BY AllOfIt
<1>2. B!Heading \in B!WireToken /\ B!Heading \notin Ends
  <2>1. B!Heading \in B!WireToken /\ B!Heading.t = "heading"
    BY DEF B!Heading, B!WireToken, B!Token
  <2> QED BY <2>1, NotEnds
<1>3. rest \in Seq(Wired) /\ <<B!Heading>> \in Seq(Wired) /\ <<Title>> \in Seq(Wired)
  BY <1>2, BuilderTokens, SequenceOfMore, TitleWired
<1>4. EndedBy(Ends, B!Wire)
  <2>1. \A token \in B!LegibleWire \intersect B!WireToken : token \in Ends <=> token = B!CRLF
    <3>1. \A token \in B!WireToken : token.t = "CRLF" <=> token = B!CRLF
      BY DEF B!WireToken, B!Token, B!CRLF
    <3>2. \A token \in B!LegibleWire : ~ Builder!InText(token, "eol")
      BY SameInText, SameItem, CallsAssumption, NumberAssumption, B!LegibleEnds
    <3> QED BY <3>1, <3>2, BuilderTokens DEF Ends
  <2>2. \A i \in 1..Len(B!Wire) : B!Wire[i] = B!CRLF <=> i = Len(B!Wire)
    BY DEF HasBuilt, BuilderInv, B!WireInv
  <2> DEFINE w == <<B!Heading>> \o rest
  <2>3. w \in Seq(B!WireToken) /\ w # <<>>
    BY <1>2
  <2>4. w = B!Wire
    BY <1>1
  <2> HIDE DEF w
  <2>5. \A i \in 1..Len(w) : w[i] \in B!LegibleWire \intersect B!WireToken
    <3>1. B!Wire \in Seq(B!LegibleWire)
      BY WireIsLegible
    <3> QED BY <2>3, <2>4, <3>1, ElementOfSeq
  <2> QED BY <2>1, <2>2, <2>3, <2>4, <2>5 DEF EndedBy
<1>5. rest # <<>>
  <2> SUFFICES ASSUME rest = <<>> PROVE FALSE
    OBVIOUS
  <2>1. B!Wire = <<B!Heading>>
    BY <1>1
  <2> QED BY <1>2, <1>4, <2>1 DEF EndedBy
<1>6. EndedBy(Ends, rest)
  BY <1>1, <1>3, <1>4, <1>5, EndedFront
<1>7. EndedBy(Ends, UpTo(n))
  <2>1. FreeOf(Ends, <<Title>>)
    BY TitleWired DEF FreeOf
  <2>2. EndedBy(Ends, <<Title>> \o rest)
    BY <1>3, <1>6, <2>1, EndedConcat
  <2> QED BY <1>1, <2>2
<1>8. n \in Nat
  BY BuiltTypes
<1>9. ASSUME NEW k \in 1..n PROVE FreeOf(Ends, UpTo(k-1) \o <<Payload(lits[k].data)>>)
  <2> DEFINE L     == Literals
             front == SubSeq(L, 1, k-1)
             back  == SubSeq(L, k, n)
             p     == <<Payload(lits[k].data)>>
             t     == lits[k].tail
             f     == FlattenSeq(Tail(back))
             more  == t \o f
             first == Written(main)
             W     == Seq(Wired)
  <2>1. L \in Seq(Seq(Wired)) /\ Len(L) = n /\ L[k] = p \o t /\ p \in W /\ t \in W
    BY LiteralsType
  <2>2. p # <<>> /\ FreeOf(Ends, p)
    <3>1. lits[k].data \in Str
      BY BuiltTypes
    <3> QED BY <3>1, PayloadWired DEF FreeOf
  <2>3. /\ front \in Seq(Seq(Wired)) /\ back \in Seq(Seq(Wired)) /\ L = front \o back
        /\ Len(back) = n - (k-1)
    <3>1. k-1 \in 0..Len(L) /\ k-1+1 = k
      BY <1>8, <2>1
    <3> DEFINE j == k-1
    <3>2. SubSeq(L, j+1, Len(L)) = back /\ SubSeq(L, 1, j) = front /\ j \in 0..Len(L)
      BY <2>1, <3>1
    <3> HIDE DEF L, W, j, front, back
    <3>3. /\ front \in Seq(Seq(Wired)) /\ back \in Seq(Seq(Wired)) /\ L = front \o back
          /\ Len(back) = n - j
      <4> DEFINE WW == Seq(Wired)
      <4>1. L \in Seq(WW) /\ Len(L) = n /\ j \in 0..Len(L)
        BY <2>1, <3>2
      <4> HIDE DEF WW
      <4>2. /\ SubSeq(L, 1, j) \in Seq(WW) /\ SubSeq(L, j+1, Len(L)) \in Seq(WW)
            /\ Len(SubSeq(L, j+1, Len(L))) = Len(L) - j
            /\ L = SubSeq(L, 1, j) \o SubSeq(L, j+1, Len(L))
        BY <4>1, CutAt
      <4> QED BY <3>2, <4>1, <4>2 DEF WW
    <3> QED BY <3>3 DEF j
  <2>4. back # <<>> /\ back[1] = L[k]
    <3>1. Len(back) = n-k+1 /\ n-k+1 \in Nat \ {0} /\ k \in Nat
      BY <1>8, <2>3
    <3>2. 1 \in 1 .. n-k+1 /\ 1+k-1 = k
      BY <3>1
    <3> HIDE DEF L, W
    <3>3. back[1] = L[k]
      BY <1>8, <2>1, <3>1, <3>2
    <3>4. back # <<>>
      <4> HIDE DEF back
      <4> QED BY <2>3, <3>1
    <3> QED BY <3>3, <3>4
  <2>5. f \in W /\ FlattenSeq(back) = L[k] \o f /\ FlattenSeq(front) \in W
    <3> HIDE DEF front, back
    <3>1. Tail(back) \in Seq(Seq(Wired)) /\ FlattenSeq(back) = back[1] \o FlattenSeq(Tail(back))
      BY <2>3, <2>4, FlattenFirst
    <3> QED BY <2>3, <2>4, <3>1, FlattenType
  <2>6. FlattenSeq(L) = FlattenSeq(front) \o FlattenSeq(back)
    <3> HIDE DEF front, back, L
    <3> QED BY <2>3, FlattenConcat
  <2>7. UpTo(n) = first \o FlattenSeq(L) /\ UpTo(k-1) = first \o FlattenSeq(front) /\ first \in W
    <3>1. SubSeq(L, 1, n) = L
      BY <2>1, SubSeqFull
    <3> QED BY <3>1, FirstLine DEF UpTo
  <2>8. UpTo(k-1) \in W /\ UpTo(n) \in W
    BY <1>8, UpToSteps
  <2> DEFINE ff == FlattenSeq(front)
             fb == FlattenSeq(back)
             u  == UpTo(k-1)
             un == UpTo(n)
  <2>9. fb = (p \o t) \o f /\ fb \in W
    <3>1. fb \in W
      <4> HIDE DEF back
      <4> QED BY <2>3, FlattenType
    <3> QED BY <2>1, <2>5, <3>1
  <2>10. ff \in W /\ first \in W /\ u \in W /\ p \in W /\ t \in W /\ f \in W
    BY <2>1, <2>5, <2>7, <2>8
  <2>11. un = first \o (ff \o fb) /\ u = first \o ff /\ EndedBy(Ends, un)
    BY <1>7, <2>6, <2>7
  <2> HIDE DEF ff, fb, first, p, t, f, u, un, W
  <2>12. un = u \o fb
    <3>1. Associates(first, ff, fb)
      BY <2>9, <2>10, ConcatOfThree DEF W
    <3> QED BY <2>11, <3>1 DEF Associates
  <2>13. fb = p \o more /\ more \in W
    <3>1. Associates(p, t, f)
      BY <2>10, ConcatOfThree DEF W
    <3>2. more \in W
      BY <2>10 DEF W
    <3> QED BY <2>9, <3>1, <3>2 DEF Associates
  <2> HIDE DEF more
  <2>14. un = (u \o p) \o more /\ u \o p \in W
    <3>1. Associates(u, p, more)
      BY <2>10, <2>13, ConcatOfThree DEF W
    <3>2. u \o p \in W
      BY <2>10 DEF W
    <3> QED BY <2>12, <2>13, <3>1, <3>2 DEF Associates
  <2>15. fb \in W /\ fb # <<>>
    BY <2>2, <2>9, <2>10, <2>13 DEF W
  <2>16. FreeOf(Ends, u) /\ EndedBy(Ends, fb)
    <3>1. EndedBy(Ends, u \o fb)
      BY <2>11, <2>12
    <3>2. u \in Seq(Wired) /\ fb \in Seq(Wired)
      BY <2>10, <2>15 DEF W
    <3> QED BY <2>15, <3>1, <3>2, EndedFront
  <2>17. more # <<>>
    <3> SUFFICES ASSUME more = <<>> PROVE FALSE
      OBVIOUS
    <3>1. p \o <<>> = p
      BY <2>10 DEF W
    <3>2. fb = p
      BY <2>13, <3>1
    <3>3. p \in Seq(Wired) /\ EndedBy(Ends, p)
      BY <2>10, <2>16, <3>2 DEF W
    <3> QED BY <2>2, <3>3, EndedNotFree
  <2>18. FreeOf(Ends, u \o p)
    <3>1. u \o p \in Seq(Wired) /\ more \in Seq(Wired)
      BY <2>13, <2>14 DEF W
    <3>2. EndedBy(Ends, (u \o p) \o more)
      BY <2>11, <2>14
    <3> QED BY <2>17, <3>1, <3>2, EndedFront
  <2> QED BY <2>18 DEF u, p
<1>10. ASSUME NEW k \in 0..n-1 PROVE FreeOf(Ends, UpTo(k))
  <2>1. k+1 \in 1..n /\ k+1-1 = k /\ k \in 0..n
    BY <1>8
  <2> DEFINE p == <<Payload(lits[k+1].data)>>
  <2>2. FreeOf(Ends, UpTo(k) \o p)
    BY <1>9, <2>1
  <2>3. UpTo(k) \in Seq(Wired) /\ p \in Seq(Wired)
    BY <2>1, UpToSteps, LiteralsType
  <2> HIDE DEF p
  <2> QED BY <2>2, <2>3, FreeOfConcat
<1> QED BY <1>7, <1>9, <1>10

-----------------------------------------------------------------------------
(* What the server makes of the line.                                      *)

GivenBy == [token \in Wired |-> IF IsArgument(token) THEN <<Argument(token)>> ELSE <<>>]

\* An argument as the server sees it.
Received(item) ==
  IF item.k \in {"open", "close"} THEN Plain(item.k)
  ELSE IF B!Form(item) = "literal" THEN Text("string", item.s) ELSE item
ReceivedBy == [item \in Item |-> <<Received(item)>>]
SentBy     == [item \in Item |-> B!Sent(item)]
KeptBy     == [token \in B!WireToken |-> B!Kept(token)]

LEMMA ReplacementTypes ==
  /\ GivenBy \in [Wired -> Seq(Item)]
  /\ [item \in Item |-> Received(item)] \in [Item -> Item]
  /\ ReceivedBy \in [Item -> Seq(Item)]
  /\ SentBy \in [Item -> Seq(Wired)]
  /\ KeptBy \in [B!WireToken -> Seq(Wired)]
<1>1. ASSUME NEW token \in Wired, IsArgument(token) PROVE Argument(token) \in Item
  <2>1. CASE token.t \in {"(", ")"}
    BY <2>1 DEF Argument, Plain, Item, Kinds, NoText, Str
  <2>2. CASE token.t = "payload"
    <3>1. token.of \in Str
      BY <2>2 DEF Wired, Reply, DONE
    <3> QED BY <2>2, <3>1 DEF Argument, Text, Item, Kinds
  <2>3. CASE token.t \in {"quoted", "unquoted"}
    <3>1. token.of \in Item
      BY <2>3 DEF Wired, Reply, DONE
    <3> QED BY <2>3, <3>1 DEF Argument
  <2> QED BY <1>1, <2>1, <2>2, <2>3 DEF IsArgument
<1>2. GivenBy \in [Wired -> Seq(Item)]
  <2>1. ASSUME NEW token \in Wired
        PROVE  (IF IsArgument(token) THEN <<Argument(token)>> ELSE <<>>) \in Seq(Item)
    BY <1>1
  <2> QED BY <2>1 DEF GivenBy
<1>3. ASSUME NEW item \in Item PROVE Received(item) \in Item
  BY DEF Received, Plain, Text, Item, Kinds, NoText, Str
<1>4. [item \in Item |-> Received(item)] \in [Item -> Item] /\ ReceivedBy \in [Item -> Seq(Item)]
  <2>1. \A item \in Item : <<Received(item)>> \in Seq(Item)
    BY <1>3
  <2> QED BY <1>3, <2>1 DEF ReceivedBy
<1>5. ASSUME NEW item \in Item PROVE B!Sent(item) \in Seq(Wired)
  <2>1. item.s \in Str /\ item.s.len \in Nat
    BY DEF Item, Str
  <2>2. CASE B!Form(item) = "literal"
    <3>1. B!Marker(item.s.len) \in Wired
      BY <2>1 DEF B!Marker, Wired
    <3>2. B!Payload(item.s) \in Wired
      BY <2>1 DEF B!Payload, Wired
    <3> QED BY <2>2, <3>1, <3>2 DEF B!Sent
  <2>3. CASE B!Form(item) # "literal"
    <3>1. B!Emitted(item) \in Wired
      <4>1. B!Form(item) \in {"quoted", "unquoted"}
        BY <2>3 DEF B!Form, B!StringForm
      <4>2. B!Open \in Wired /\ B!Close \in Wired /\ B!Quoted(item) \in Wired /\ B!Unquoted(item) \in Wired
        BY DEF B!Open, B!Close, B!Quoted, B!Unquoted, Wired
      <4> QED BY <4>1, <4>2 DEF B!Emitted
    <3> QED BY <2>3, <3>1 DEF B!Sent
  <2> QED BY <2>2, <2>3
<1>6. SentBy \in [Item -> Seq(Wired)]
  BY <1>5 DEF SentBy
<1>7. KeptBy \in [B!WireToken -> Seq(Wired)]
  <2>1. ASSUME NEW token \in B!WireToken PROVE B!Kept(token) \in Seq(Wired)
    <3>1. token \in Wired
      BY BuilderTokens
    <3> QED BY <3>1 DEF B!Kept
  <2> QED BY <2>1 DEF KeptBy
<1> QED BY <1>2, <1>4, <1>6, <1>7

LEMMA DecodedEach ==
  ASSUME NEW tokens \in Seq(Wired)
  PROVE  Decoded(tokens) =
           Command(HeadingOf(tokens).tag, HeadingOf(tokens).cmd, Each(GivenBy, tokens))
<1>1. \A i \in 1..Len(tokens) :
        GivenBy[tokens[i]] = IF IsArgument(tokens[i]) THEN <<Argument(tokens[i])>> ELSE <<>>
  <2>1. \A i \in 1..Len(tokens) : tokens[i] \in Wired
    OBVIOUS
  <2> QED BY <2>1 DEF GivenBy
<1>2. [i \in 1..Len(tokens) |-> GivenBy[tokens[i]]] =
        [i \in 1..Len(tokens) |-> IF IsArgument(tokens[i]) THEN <<Argument(tokens[i])>> ELSE <<>>]
  BY <1>1
<1> QED BY <1>2 DEF Decoded, Each

\* What the server makes of an argument is the argument it was made of.
LEMMA GivenIsReceived ==
  ASSUME NEW item \in Item
  PROVE  Each(GivenBy, SentBy[item]) = ReceivedBy[item]
<1>1. GivenBy \in [Wired -> Seq(Item)]
  BY ReplacementTypes
<1>2. SentBy[item] = B!Sent(item) /\ ReceivedBy[item] = <<Received(item)>>
  BY DEF SentBy, ReceivedBy
<1>3. item.s \in Str /\ item.s.len \in Nat
  BY DEF Item, Str
<1>4. CASE B!Form(item) = "literal"
  <2> DEFINE m == B!Marker(item.s.len)
             p == B!Payload(item.s)
             r == Text("string", item.s)
  <2>1. B!Sent(item) = <<m, p>>
    BY <1>4 DEF B!Sent
  <2>2. m \in Wired /\ p \in Wired
    BY <1>3 DEF B!Marker, B!Payload, Wired
  <2>3. GivenBy[m] = <<>>
    BY <2>2 DEF GivenBy, IsArgument, B!Marker
  <2>4. GivenBy[p] = <<r>>
    BY <2>2 DEF GivenBy, IsArgument, Argument, B!Payload
  <2>5. Received(item) = r
    <3>1. item.k \in {"string", "literal"}
      BY <1>4 DEF B!Form
    <3> QED BY <1>4, <3>1 DEF Received
  <2>6. r \in Item
    BY <1>3 DEF Text, Item, Kinds
  <2> HIDE DEF m, p, r
  <2>7. Each(GivenBy, <<m>>) = <<>> /\ Each(GivenBy, <<p>>) = <<r>>
    BY <1>1, <2>2, <2>3, <2>4, EachOne
  <2>8. Distributes(GivenBy, <<m>>, <<p>>)
    <3>1. <<m>> \in Seq(Wired) /\ <<p>> \in Seq(Wired)
      BY <2>2
    <3> QED BY <1>1, <3>1, EachConcat
  <2>9. <<m>> \o <<p>> = <<m, p>> /\ <<>> \o <<r>> = <<r>>
    <3>1. <<m>> \o <<p>> = <<m, p>>
      BY <2>2, ConcatOfTuples
    <3>2. <<r>> \in Seq(Item)
      BY <2>6
    <3> QED BY <3>1, <3>2
  <2> QED BY <1>2, <2>1, <2>5, <2>7, <2>8, <2>9 DEF Distributes
<1>5. CASE B!Form(item) # "literal"
  <2> DEFINE e == B!Emitted(item)
  <2>1. B!Sent(item) = <<e>>
    BY <1>5 DEF B!Sent
  <2>2. e \in Wired
    <3>1. SentBy[item] \in Seq(Wired)
      BY ReplacementTypes
    <3>2. <<e>> \in Seq(Wired)
      BY <1>2, <2>1, <3>1
    <3> HIDE DEF e
    <3>3. <<e>>[1] \in Wired
      BY <3>2
    <3> QED BY <3>3
  <2>3. GivenBy[e] = <<Received(item)>>
    <3>1. B!Form(item) \in {"quoted", "unquoted"}
      BY <1>5 DEF B!Form, B!StringForm
    <3>2. GivenBy[e] = IF IsArgument(e) THEN <<Argument(e)>> ELSE <<>>
      BY <2>2 DEF GivenBy
    <3>3. CASE item.k = "open"
      BY <3>2, <3>3 DEF B!Emitted, B!Open, IsArgument, Argument, Received
    <3>4. CASE item.k = "close"
      BY <3>2, <3>4 DEF B!Emitted, B!Close, IsArgument, Argument, Received
    <3>5. CASE item.k \notin {"open", "close"}
      BY <1>5, <3>1, <3>2, <3>5 DEF B!Emitted, B!Quoted, B!Unquoted, IsArgument, Argument, Received
    <3> QED BY <3>3, <3>4, <3>5
  <2> HIDE DEF e
  <2>4. Each(GivenBy, <<e>>) = GivenBy[e]
    BY <1>1, <2>2, EachOne
  <2> QED BY <1>2, <2>1, <2>3, <2>4
<1> QED BY <1>4, <1>5

\* The separators and the heading carry no argument.
LEMMA GivenWithoutSeparators ==
  ASSUME NEW w \in Seq(B!WireToken)
  PROVE  Each(GivenBy, w) = Each(GivenBy, Each(KeptBy, w))
<1> DEFINE G == [token \in B!WireToken |-> GivenBy[token]]
<1>1. B!WireToken \subseteq Wired
  BY BuilderTokens
<1>2. GivenBy \in [Wired -> Seq(Item)] /\ KeptBy \in [B!WireToken -> Seq(Wired)]
  BY ReplacementTypes
<1>3. G \in [B!WireToken -> Seq(Item)]
  BY <1>1, <1>2
<1>4. ASSUME NEW token \in B!WireToken
      PROVE  Each(GivenBy, KeptBy[token]) = G[token]
  <2>1. token \in Wired /\ G[token] = GivenBy[token] /\ KeptBy[token] = B!Kept(token)
    BY <1>1 DEF KeptBy
  <2>2. CASE token.t \in {"heading", "SP", "CRLF"}
    <3>1. GivenBy[token] = <<>>
      BY <2>1, <2>2 DEF GivenBy, IsArgument
    <3>2. B!Kept(token) = <<>>
      BY <2>2 DEF B!Kept
    <3> QED BY <2>1, <3>1, <3>2, EachEmpty
  <2>3. CASE token.t \notin {"heading", "SP", "CRLF"}
    <3>1. B!Kept(token) = <<token>>
      BY <2>3 DEF B!Kept
    <3>2. Each(GivenBy, <<token>>) = GivenBy[token]
      <4>1. token \in Wired /\ GivenBy \in [Wired -> Seq(Item)]
        BY <1>2, <2>1
      <4> DEFINE g == GivenBy
      <4>2. g \in [Wired -> Seq(Item)]
        BY <4>1
      <4> HIDE DEF g
      <4>3. Each(g, <<token>>) = g[token]
        BY <4>1, <4>2, EachOne
      <4> QED BY <4>3 DEF g
    <3> QED BY <2>1, <3>1, <3>2
  <2> QED BY <2>2, <2>3
<1>5. Each(GivenBy, w) = Each(G, w)
  <2>1. \A i \in 1..Len(w) : GivenBy[w[i]] = G[w[i]]
    OBVIOUS
  <2>2. [i \in 1..Len(w) |-> GivenBy[w[i]]] = [i \in 1..Len(w) |-> G[w[i]]]
    BY <2>1
  <2> QED BY <2>2 DEF Each
<1> HIDE DEF G
<1>6. Each(GivenBy, Each(KeptBy, w)) = Each(G, w)
  <2> DEFINE WT == B!WireToken
             fk == KeptBy
             gg == GivenBy
  <2>1. Composes(WT, fk, gg, G)
    BY <1>4 DEF Composes
  <2>2. fk \in [WT -> Seq(Wired)] /\ gg \in [Wired -> Seq(Item)] /\ G \in [WT -> Seq(Item)]
    BY <1>2, <1>3
  <2> HIDE DEF WT, fk, gg
  <2>3. \A s \in Seq(WT) : Composed(fk, gg, G, s)
    BY <2>1, <2>2, EachOfEach
  <2> QED BY <2>3 DEF WT, fk, gg, Composed
<1> QED BY <1>5, <1>6

\* The line of a command reads as the command, with the payloads where they
\* belong and whatever form its strings were written in.
LEMMA ReadsAsRequested ==
  ASSUME HasBuilt
  PROVE  Decoded(UpTo(Len(lits))) = Requested
<1> DEFINE args == call.args
           w    == UpTo(Len(lits))
           wire == B!Wire
<1>1. PICK rest \in Seq(B!WireToken) : wire = <<B!Heading>> \o rest /\ w = <<Title>> \o rest
  BY AllOfIt
<1>2. /\ Title \in Wired /\ B!Heading \in B!WireToken /\ B!Heading \in Wired
      /\ rest \in Seq(Wired) /\ args \in Seq(Item) /\ Len(args) \in Nat
  BY TitleWired, BuiltTypes, BuilderTokens, SequenceOfMore DEF B!Heading, B!WireToken, B!Token
<1>3. wire \in Seq(B!WireToken)
  <2>1. <<B!Heading>> \in Seq(B!WireToken)
    BY <1>2
  <2> HIDE DEF wire
  <2> QED BY <1>1, <2>1
<1>4. w \in Seq(Wired) /\ w # <<>> /\ w[1] = Title
  BY UpToSteps, BuiltTypes
<1>5. GivenBy \in [Wired -> Seq(Item)] /\ SentBy \in [Item -> Seq(Wired)]
      /\ ReceivedBy \in [Item -> Seq(Item)]
  BY ReplacementTypes
<1> HIDE DEF w, wire, args
<1>6. Each(GivenBy, w) = Each(GivenBy, wire)
  <2>1. Each(GivenBy, <<Title>>) = <<>> /\ Each(GivenBy, <<B!Heading>>) = <<>>
    <3>1. GivenBy[Title] = <<>> /\ GivenBy[B!Heading] = <<>>
      BY <1>2 DEF GivenBy, IsArgument, Title, B!Heading
    <3>2. Each(GivenBy, <<Title>>) = GivenBy[Title]
      BY <1>2, <1>5, EachOne
    <3>3. Each(GivenBy, <<B!Heading>>) = GivenBy[B!Heading]
      BY <1>2, <1>5, EachOne
    <3> QED BY <3>1, <3>2, <3>3
  <2>2. <<Title>> \in Seq(Wired) /\ <<B!Heading>> \in Seq(Wired)
    BY <1>2
  <2>3. Distributes(GivenBy, <<Title>>, rest) /\ Distributes(GivenBy, <<B!Heading>>, rest)
    BY <1>2, <1>5, <2>2, EachConcat
  <2> QED BY <1>1, <2>1, <2>3 DEF Distributes
<1>7. Each(KeptBy, wire) = Each(SentBy, args)
  <2>1. Each(KeptBy, wire) = B!Unseparated(wire)
    <3>1. \A i \in 1..Len(wire) : KeptBy[wire[i]] = B!Kept(wire[i])
      <4>1. \A i \in 1..Len(wire) : wire[i] \in B!WireToken
        BY <1>3
      <4> QED BY <4>1 DEF KeptBy
    <3>2. [i \in 1..Len(wire) |-> KeptBy[wire[i]]] = [i \in 1..Len(wire) |-> B!Kept(wire[i])]
      BY <3>1
    <3> QED BY <3>2, SameFlatten DEF Each, B!Unseparated
  <2>2. Each(SentBy, args) = B!SoFar
    <3>1. \A i \in 1..Len(args) : SentBy[args[i]] = B!Sent(args[i])
      <4>1. \A i \in 1..Len(args) : args[i] \in Item
        BY <1>2
      <4> QED BY <4>1 DEF SentBy
    <3>2. [i \in 1..Len(args) |-> SentBy[args[i]]] = [i \in 1..Len(args) |-> B!Sent(args[i])]
      BY <3>1
    <3>3. next-1 = Len(args)
      BY <1>2, BuiltTypes DEF args
    <3> QED BY <3>2, <3>3, SameFlatten DEF Each, B!SoFar, args
  <2>3. B!Unseparated(B!Wire) = B!SoFar
    BY DEF HasBuilt, BuilderInv, B!WireInv
  <2> QED BY <2>1, <2>2, <2>3 DEF wire
<1>8. Each(GivenBy, Each(SentBy, args)) = Each(ReceivedBy, args)
  <2>1. Composes(Item, SentBy, GivenBy, ReceivedBy)
    BY GivenIsReceived DEF Composes
  <2>2. Composed(SentBy, GivenBy, ReceivedBy, args)
    BY <1>2, <1>5, <2>1, EachOfEach
  <2> QED BY <2>2 DEF Composed
<1>9. Each(ReceivedBy, args) = [i \in 1..Len(args) |-> Received(args[i])]
  <2> DEFINE g == [item \in Item |-> Received(item)]
  <2>1. g \in [Item -> Item] /\ \A item \in Item : ReceivedBy[item] = <<g[item]>>
    BY ReplacementTypes DEF ReceivedBy
  <2>2. \A i \in 1..Len(args) : g[args[i]] = Received(args[i])
    BY <1>2
  <2> HIDE DEF g
  <2>3. Mapped(ReceivedBy, g, args)
    <3>1. Singly(Item, ReceivedBy, g)
      BY <2>1 DEF Singly
    <3> QED BY <1>2, <1>5, <2>1, <3>1, EachByOne
  <2> QED BY <2>2, <2>3 DEF Mapped
<1>10. Each(GivenBy, w) = [i \in 1..Len(args) |-> Received(args[i])]
  BY <1>3, <1>6, <1>7, <1>8, <1>9, GivenWithoutSeparators
<1>11. ASSUME NEW i \in 1..Len(args) PROVE Meaning(Received(args[i])) = Meaning(args[i])
  <2>1. args[i] \in Item /\ (args[i].k \in {"open", "close"} => args[i] = Plain(args[i].k))
    BY <1>2, BuiltTypes, CallsAssumption DEF args
  <2> DEFINE item == args[i]
  <2> HIDE DEF item
  <2>2. CASE item.k \in {"open", "close"}
    BY <2>1, <2>2 DEF Received, item
  <2>3. CASE item.k \notin {"open", "close"} /\ B!Form(item) = "literal"
    <3>1. item.k \in {"string", "literal"}
      BY <2>3 DEF B!Form
    <3> QED BY <2>3, <3>1 DEF Received, Meaning, Text, item
  <2>4. CASE item.k \notin {"open", "close"} /\ B!Form(item) # "literal"
    BY <2>4 DEF Received, item
  <2> QED BY <2>2, <2>3, <2>4
<1>12. HeadingOf(w).tag = tags[Len(tags)] /\ HeadingOf(w).cmd = call.cmd
  BY <1>4 DEF HeadingOf, Title
<1>13. Decoded(w) = Command(tags[Len(tags)], call.cmd, [i \in 1..Len(args) |-> Received(args[i])])
  BY <1>4, <1>10, <1>12, DecodedEach
<1> DEFINE r == [i \in 1..Len(args) |-> Received(args[i])]
<1>14. Len(r) = Len(args) /\ \A i \in 1..Len(args) : r[i] = Received(args[i])
  BY <1>2
<1> HIDE DEF r
<1>15. [i \in 1..Len(r) |-> Meaning(r[i])] = [i \in 1..Len(args) |-> Meaning(args[i])]
  BY <1>11, <1>14
<1> QED BY <1>13, <1>15 DEF Command, Requested, r, w, args

-----------------------------------------------------------------------------
(* What may be in a line, and what announces a literal.                    *)

\* A line behind which the payload of a literal is due, or none.
Announces(s, due) ==
  \A i \in 1..Len(s) : s[i].t = "marker" => i = Len(s) /\ due # <<>> /\ s[i].n = due[1].len
Unasked(s) == \A i \in 1..Len(s) : s[i].t \notin Asked
\* The payload behind the k-th line.
Due(k) == IF k <= Len(lits) THEN <<lits[k].data>> ELSE <<>>

\* Each line of a command announces the payload that follows it, if any, and
\* nothing else in it is one the server asks for.
LEMMA LinesOfCommand ==
  ASSUME HasBuilt
  PROVE  /\ Unasked(Written(main)) /\ Announces(Written(main), Due(1))
         /\ \A k \in 1..Len(lits) : Unasked(lits[k].tail) /\ Announces(lits[k].tail, Due(k+1))
<1> DEFINE n == Len(lits)
<1>1. /\ n \in Nat /\ main \in Seq(B!Token) /\ main # <<>>
      /\ \A k \in 1..n : lits[k].tail \in Seq(B!Token)
  BY BuiltTypes
<1>2. \A k \in 1..n : /\ B!Markers(B!Line(k)) = {Len(B!Line(k))}
                      /\ B!Line(k)[Len(B!Line(k))].n = lits[k].data.len
  <2>1. \A k : B!LineIn(main, lits, k) = B!Line(k)
    BY DEF B!LineIn, B!Line
  <2> QED BY <2>1 DEF HasBuilt, BuilderInv, B!IInv, B!FramedLines, B!Announces
<1>3. B!Markers(B!Line(n+1)) = {}
  <2>1. B!LineIn(main, lits, n+1) = B!Line(n+1)
    BY DEF B!LineIn, B!Line
  <2> QED BY <2>1 DEF HasBuilt, BuilderInv, B!IInv, B!FramedLines, B!Silent
<1>4. ASSUME NEW k \in 1..n+1 PROVE Announces(B!Line(k), Due(k))
  <2> DEFINE s == B!Line(k)
  <2> HIDE DEF s
  <2> SUFFICES ASSUME NEW i \in 1..Len(s), s[i].t = "marker"
               PROVE  i = Len(s) /\ Due(k) # <<>> /\ s[i].n = Due(k)[1].len
    BY DEF Announces, s
  <2>1. i \in B!Markers(s)
    BY DEF B!Markers
  <2>2. k <= n
    BY <1>1, <1>3, <2>1 DEF s
  <2>3. k \in 1..n /\ Due(k) = <<lits[k].data>>
    BY <1>1, <2>2 DEF Due
  <2>4. i = Len(s) /\ s[i].n = lits[k].data.len
    BY <1>2, <2>1, <2>3 DEF s
  <2>5. Due(k) # <<>> /\ Due(k)[1] = lits[k].data
    BY <2>3
  <2> QED BY <2>4, <2>5
<1>5. \A s \in Seq(B!Token) : Unasked(s)
  <2>1. \A s \in Seq(B!Token) : \A i \in 1..Len(s) : s[i] \in B!Token
    OBVIOUS
  <2> QED BY <2>1, BuilderTokens DEF Unasked
<1>6. ASSUME NEW k \in 1..n PROVE Unasked(lits[k].tail) /\ Announces(lits[k].tail, Due(k+1))
  <2>1. k+1 \in 1..n+1 /\ k+1 # 1 /\ k+1-1 = k
    BY <1>1
  <2>2. B!Line(k+1) = lits[k].tail
    BY <2>1 DEF B!Line
  <2> QED BY <1>1, <1>4, <1>5, <2>1, <2>2
<1>7. Announces(main, Due(1)) /\ Unasked(main)
  <2>1. 1 \in 1..n+1 /\ B!Line(1) = main
    BY <1>1 DEF B!Line
  <2> QED BY <1>1, <1>4, <1>5, <2>1
<1>8. Announces(Written(main), Due(1)) /\ Unasked(Written(main))
  <2>1. /\ Written(main)[1] = Title /\ Len(Written(main)) = Len(main) /\ Title.t = "heading"
        /\ \A i \in 2..Len(main) : Written(main)[i] = main[i]
    BY FirstLine, TitleWired
  <2>2. \A i \in 1..Len(main) : i = 1 \/ i \in 2..Len(main)
    BY <1>1
  <2> QED BY <1>7, <2>1, <2>2 DEF Announces, Unasked, Asked
<1> QED BY <1>6, <1>8

-----------------------------------------------------------------------------
(* The invariant of the exchange.                                          *)

Open     == {"literal", "exchange", "idling"}
Outcome  == [did : Requests \union {Refused}, status : {"OK", "NO"}]
Response == [k : {"+", "*", "tagged"}, tag : {Builder!TagText(n) : n \in 1..MaxTag} \union {<<>>},
             status : {"OK", "NO", ""}]

Types ==
  /\ host \in {"free", "calling"} \union Open
  /\ mode \in {"command", "announced", "payload", "complete", "idle", "reply"}
  /\ segment \in 1 .. Len(lits) + 1
  /\ asked \in Seq(Requests) /\ served \in Seq(Outcome)
  /\ toServer \in Seq(Wired) /\ line \in Seq(Wired) /\ toClient \in Seq(Response)
  /\ challenges \in 0..MaxChallenges /\ untagged \in 0..MaxUntagged

\* The host is in a command only while the builder is, and in an exchange of the
\* command it wrote last.
HostInv ==
  /\ pc = "encode" => host = "calling"
  /\ host = "calling" => segment = 1 /\ tags # <<>>
  /\ host \in Open => outcome = "built" /\ tags # <<>> /\ asked # <<>> /\ asked[Len(asked)] = Requested
  /\ host = "literal" => segment <= Len(lits)
  /\ host \in {"exchange", "idling"} => call.cmd \in Exchanges

\* The tags of the commands written are tags of the builder, each used once.
TagInv ==
  /\ \A j \in 1..Len(asked) : \E n \in 1..Len(tags) :
       asked[j].tag = tags[n] /\ (host = "calling" => n < Len(tags))
  /\ \A i, j \in 1..Len(asked) : i # j => asked[i].tag # asked[j].tag

\* An answer that is owed, on its way or received is that to a command served.
Answers(tag, status) ==
  \E j \in 1..Len(served) : tag = asked[j].tag /\ status = served[j].status
AnswerInv ==
  /\ Len(served) <= Len(asked)
  /\ DOMAIN answered \subseteq 1..Len(served)
  /\ \A a \in owed : Answers(a.tag, a.status)
  /\ \A i \in 1..Len(toClient) :
       toClient[i].k = "tagged" => Answers(toClient[i].tag, toClient[i].status)

\* All commands but the last have been served.
OneLeft == Len(asked) = Len(served) + 1
\* Whether a continuation request is on its way, and whether it is the only one.
Asks(s) == \E i \in 1..Len(s) : s[i] = Continue
Once(s) == \A i, j \in 1..Len(s) : s[i] = Continue /\ s[j] = Continue => i = j
Awaited == Asks(toClient)
\* The octets announced last.
Size    == line[Len(line)].n

\* What the server has read of the command, and what it waits for.
ModeInv ==
  /\ mode \in {"command", "announced", "payload"} => FreeOf(Ends, line)
  /\ mode \in {"announced", "payload"} => line # <<>> /\ line[Len(line)].t = "marker"
  /\ mode \in {"complete", "idle", "reply"} => EndedBy(Ends, line)
  /\ mode = "announced" => /\ host = "literal" /\ toServer = <<>> /\ OneLeft
                           /\ Size = lits[segment].data.len
  /\ mode = "payload" /\ Size > 0 => Awaited \/ (toServer # <<>> /\ toServer[1].t = "payload")
  /\ mode = "complete" /\ HeadingOf(line).cmd \in Exchanges =>
       host = "exchange" /\ toServer = <<>> /\ OneLeft
  /\ mode = "reply" => host = "exchange" /\ OneLeft /\ (Awaited \/ toServer = <<Reply>>)
  /\ mode = "idle" => Awaited \/ host = "idling" \/ (toServer # <<>> /\ toServer[1] = DONE)

\* A continuation request finds the host at the place it is meant for, with
\* nothing else on its way.
AwaitedInv ==
  /\ Once(toClient)
  /\ Awaited =>
       /\ toServer = <<>> /\ OneLeft
       /\ \/ host = "literal" /\ mode = "payload" /\ Size = lits[segment].data.len
          \/ host = "literal" /\ mode = "command" /\ lits[segment].data.len = 0
          \/ host = "exchange" /\ mode = "reply" /\ call.cmd = "AUTHENTICATE"
          \/ host = "exchange" /\ mode = "idle" /\ call.cmd = "IDLE"
  /\ host = "idling" => toServer = <<>> /\ OneLeft /\ mode = "idle" /\ ~ Awaited

\* A command with an exchange that has not been served is the last one, still
\* under way at the host, or an IDLE whose DONE the server reads next.
ExchangeInv ==
  \A j \in Len(served)+1 .. Len(asked) : asked[j].cmd \in Exchanges =>
    \/ j = Len(asked) /\ host \in Open
    \/ j = Len(served) + 1 /\ mode = "idle" /\ toServer # <<>> /\ toServer[1] = DONE

\* An announcement is the last thing on its way, by a host that waits to write
\* the payload announced.
AnnouncedInv ==
  Announces(toServer, IF host = "literal" THEN <<lits[segment].data>> ELSE <<>>)

UnaskedInv ==
  /\ NothingUnasked
  /\ \A i \in 1..Len(toServer) : toServer[i].t = "payload" => toServer[i].of.len > 0

(* What the server has read and what is on its way is the commands not yet *)
(* served, each whole, and what the host has written of the next.          *)

\* An empty payload is read as soon as it is due and written later.
Early == <<Payload(NoText)>>
Ahead == IF mode = "payload" /\ Size = 0 THEN Early ELSE <<>>
Replied == {Reply, DONE}
Beyond(s) == IF s # <<>> /\ s[1] \in Replied THEN Tail(s) ELSE s
View == (line \o Ahead) \o Beyond(toServer)

Whole(w, request) == EndedBy(Ends, w) /\ w[1].t = "heading" /\ Decoded(w) = request
Partial == host = "literal" /\ Len(served) < Len(asked)
Current ==
  IF Partial
  THEN UpTo(segment-1) \o (IF Awaited /\ lits[segment].data.len = 0 THEN Early ELSE <<>>)
  ELSE <<>>

Parts(old, view, rest, partial, a, s) ==
  /\ view = FlattenSeq(old) \o rest
  /\ Len(old) + (IF partial THEN 1 ELSE 0) = Len(a) - Len(s)
  /\ \A j \in 1..Len(old) : Whole(old[j], a[Len(s) + j])
PartInv == \E old \in Seq(Seq(Wired)) : Parts(old, View, Current, Partial, asked, served)

ExchangeIInv ==
  /\ Types /\ HostInv /\ TagInv /\ AnswerInv /\ ModeInv /\ AwaitedInv /\ ExchangeInv
  /\ AnnouncedInv /\ UnaskedInv /\ PartInv

-----------------------------------------------------------------------------
(* What the invariant says of the tokens.                                  *)

\* While the host waits to write a literal, what it has written of the command
\* is no whole line, nor is it with the payload.
LEMMA LiteralNow ==
  ASSUME Types, HostInv, BuilderInv, host = "literal"
  PROVE  /\ HasBuilt /\ segment \in 1..Len(lits) /\ Len(lits) \in Nat
         /\ lits[segment].data \in Str /\ lits[segment].data.len \in Nat
         /\ lits[segment].data.len = 0 => Payload(lits[segment].data) = Payload(NoText)
         /\ lits[segment].tail \in Seq(Wired)
         /\ UpTo(segment-1) \in Seq(Wired) /\ UpTo(segment-1) # <<>> /\ UpTo(segment-1)[1] = Title
         /\ FreeOf(Ends, UpTo(segment-1))
         /\ FreeOf(Ends, UpTo(segment-1) \o <<Payload(lits[segment].data)>>)
<1>1. HasBuilt
  BY DEF HostInv, HasBuilt, Open
<1>2. Len(lits) \in Nat /\ segment \in 1..Len(lits)
  BY <1>1, BuiltTypes DEF Types, HostInv
<1>3. lits[segment].data \in Str /\ lits[segment].tail \in Seq(Wired)
  BY <1>1, <1>2, BuiltTypes, LiteralsType
<1>4. lits[segment].data.len \in Nat
  BY <1>3 DEF Str
<1>5. segment-1 \in 0..Len(lits) /\ segment-1 \in 0 .. Len(lits)-1
  BY <1>2
<1>6. UpTo(segment-1) \in Seq(Wired) /\ UpTo(segment-1) # <<>> /\ UpTo(segment-1)[1] = Title
  BY <1>1, <1>5, UpToSteps
<1>7. FreeOf(Ends, UpTo(segment-1)) /\ FreeOf(Ends, UpTo(segment-1) \o <<Payload(lits[segment].data)>>)
  BY <1>1, <1>2, <1>5, LineEndsOnce
<1> QED BY <1>1, <1>2, <1>3, <1>4, <1>6, <1>7, EmptyPayload

\* What the host has written of the command it is in is no whole command.
LEMMA CurrentType ==
  ASSUME Types, HostInv, BuilderInv
  PROVE  Current \in Seq(Wired) /\ FreeOf(Ends, Current)
<1>1. CASE ~ Partial
  <2>1. Current = <<>> /\ <<>> \in Seq(Wired)
    BY <1>1 DEF Current
  <2> QED BY <2>1 DEF FreeOf
<1>2. CASE Partial
  <2>1. /\ UpTo(segment-1) \in Seq(Wired) /\ FreeOf(Ends, UpTo(segment-1))
        /\ FreeOf(Ends, UpTo(segment-1) \o <<Payload(lits[segment].data)>>)
        /\ lits[segment].data.len = 0 => Payload(lits[segment].data) = Payload(NoText)
    BY <1>2, LiteralNow DEF Partial
  <2>2. Early \in Seq(Wired)
    BY EmptyPayload, PayloadWired DEF Early
  <2>3. CASE Awaited /\ lits[segment].data.len = 0
    <3>1. Current = UpTo(segment-1) \o <<Payload(lits[segment].data)>> /\ Current = UpTo(segment-1) \o Early
      BY <1>2, <2>1, <2>3 DEF Current, Early
    <3>2. Current \in Seq(Wired)
      <4>1. UpTo(segment-1) \o Early \in Seq(Wired)
        BY <2>1, <2>2
      <4> QED BY <3>1, <4>1
    <3> QED BY <2>1, <3>1, <3>2
  <2>4. CASE ~ (Awaited /\ lits[segment].data.len = 0)
    <3>1. Current = UpTo(segment-1) \o <<>>
      BY <1>2, <2>4 DEF Current
    <3>2. Current = UpTo(segment-1)
      BY <2>1, <3>1
    <3> QED BY <2>1, <3>2
  <2> QED BY <2>3, <2>4
<1> QED BY <1>1, <1>2

\* What the server has read and what is on its way are tokens.
LEMMA ViewType ==
  ASSUME Types
  PROVE  /\ Ahead \in Seq(Wired) /\ Beyond(toServer) \in Seq(Wired) /\ line \in Seq(Wired)
         /\ line \o Ahead \in Seq(Wired) /\ View \in Seq(Wired)
         /\ Ahead = <<>> => View = line \o Beyond(toServer)
<1>1. Ahead \in Seq(Wired)
  <2>1. Early \in Seq(Wired)
    BY EmptyPayload, PayloadWired DEF Early
  <2> QED BY <2>1 DEF Ahead
<1>2. Beyond(toServer) \in Seq(Wired)
  <2>1. toServer \in Seq(Wired)
    BY DEF Types
  <2>2. toServer # <<>> => Tail(toServer) \in Seq(Wired)
    BY <2>1
  <2> QED BY <2>1, <2>2 DEF Beyond
<1>3. line \in Seq(Wired)
  BY DEF Types
<1> HIDE DEF Beyond
<1>4. line \o Ahead \in Seq(Wired)
  BY <1>1, <1>3
<1> DEFINE read == line \o Ahead
<1>5. read \o Beyond(toServer) \in Seq(Wired)
  <2> HIDE DEF read
  <2> QED BY <1>2, <1>4 DEF read
<1>6. Ahead = <<>> => read = line
  BY <1>3
<1> QED BY <1>1, <1>2, <1>3, <1>4, <1>5, <1>6 DEF View

-----------------------------------------------------------------------------
(* Taking the first of the commands not yet served.                        *)

\* What comes before the first end of a command is the first of the parts.
LEMMA FirstOfParts ==
  ASSUME NEW old \in Seq(Seq(Wired)), NEW s \in Seq(Wired), NEW t \in Seq(Wired),
         NEW rest \in Seq(Wired), EndedBy(Ends, s), FreeOf(Ends, rest),
         s \o t = FlattenSeq(old) \o rest,
         \A j \in 1..Len(old) : EndedBy(Ends, old[j])
  PROVE  old # <<>> /\ s = old[1] /\ t = FlattenSeq(Tail(old)) \o rest
<1>1. old # <<>>
  <2> SUFFICES ASSUME old = <<>> PROVE FALSE
    OBVIOUS
  <2>1. FlattenSeq(old) \o rest = rest
    BY FlattenEmpty
  <2>2. FreeOf(Ends, s \o t)
    BY <2>1
  <2>3. FreeOf(Ends, s)
    BY <2>2, FreeOfConcat
  <2> QED BY <2>3, EndedNotFree
<1> DEFINE first == old[1]
           f     == FlattenSeq(Tail(old))
           u     == f \o rest
<1>2. first \in Seq(Wired) /\ Tail(old) \in Seq(Seq(Wired)) /\ FlattenSeq(old) = first \o f
  BY <1>1, FlattenFirst
<1>3. f \in Seq(Wired)
  BY <1>2, FlattenType
<1>4. EndedBy(Ends, first)
  <2>1. 1 \in 1..Len(old)
    BY <1>1
  <2> QED BY <2>1
<1>5. s \o t = (first \o f) \o rest
  BY <1>2
<1> HIDE DEF first, f
<1>6. Associates(first, f, rest)
  BY <1>2, <1>3, ConcatOfThree
<1>7. u \in Seq(Wired)
  BY <1>3
<1>8. s \o t = first \o u
  BY <1>5, <1>6 DEF Associates
<1> HIDE DEF u
<1>9. Aligned(Ends, s, t, first, u)
  BY <1>2, <1>7, EndsAlign
<1>10. s = first /\ t = u
  BY <1>4, <1>8, <1>9 DEF Aligned
<1> QED BY <1>1, <1>10 DEF first, u, f

\* When the first command is served the others are what is left.
LEMMA PartsShift ==
  ASSUME NEW old \in Seq(Seq(Wired)), NEW view, NEW rest, NEW partial \in BOOLEAN, NEW a, NEW s, NEW s2,
         NEW t, Parts(old, view, rest, partial, a, s), old # <<>>, Len(a) \in Nat, Len(s) \in Nat,
         t = FlattenSeq(Tail(old)) \o rest, Len(s2) = Len(s) + 1
  PROVE  Tail(old) \in Seq(Seq(Wired)) /\ Parts(Tail(old), t, rest, partial, a, s2)
<1> DEFINE W == Seq(Wired)
           more == Tail(old)
<1>1. more \in Seq(W) /\ Len(more) = Len(old) - 1 /\ Len(old) \in Nat \ {0}
  <2> HIDE DEF W
  <2>1. old \in Seq(W)
    BY DEF W
  <2> QED BY <2>1
<1>2. \A j \in 1 .. Len(old)-1 : more[j] = old[j+1]
  <2> HIDE DEF W
  <2>1. old \in Seq(W)
    BY DEF W
  <2> QED BY <2>1
<1> HIDE DEF more, W
<1>3. Len(more) + (IF partial THEN 1 ELSE 0) = Len(a) - Len(s2)
  BY <1>1 DEF Parts
<1>4. ASSUME NEW j \in 1..Len(more) PROVE Whole(more[j], a[Len(s2) + j])
  <2>1. j+1 \in 1..Len(old) /\ j \in 1 .. Len(old)-1 /\ Len(s) + (j+1) = Len(s2) + j
    BY <1>1
  <2>2. Whole(old[j+1], a[Len(s) + (j+1)])
    BY <2>1 DEF Parts
  <2> QED BY <1>2, <2>1, <2>2
<1> QED BY <1>1, <1>3, <1>4 DEF Parts, more, W

-----------------------------------------------------------------------------
(* Responses sent and received.                                            *)

LEMMA Sending ==
  ASSUME NEW s \in Seq(Response), NEW r \in Response, NEW t, t = Append(s, r)
  PROVE  /\ t \in Seq(Response) /\ Len(t) = Len(s) + 1 /\ Len(s) \in Nat
         /\ \A i \in 1..Len(s) : t[i] = s[i]
         /\ t[Len(s)+1] = r
         /\ Asks(t) <=> Asks(s) \/ r = Continue
         /\ Once(s) /\ (r = Continue => ~ Asks(s)) => Once(t)
<1>1. /\ t \in Seq(Response) /\ Len(t) = Len(s) + 1 /\ Len(s) \in Nat
      /\ \A i \in 1..Len(s) : t[i] = s[i]
      /\ t[Len(s)+1] = r
  BY AppendProperties
<1>2. \A i \in 1..Len(t) : i \in 1..Len(s) \/ i = Len(s)+1
  BY <1>1
<1>3. Len(s)+1 \in 1..Len(t) /\ \A i \in 1..Len(s) : i \in 1..Len(t)
  BY <1>1
<1>4. Asks(t) <=> Asks(s) \/ r = Continue
  BY <1>1, <1>2, <1>3 DEF Asks
<1>5. Once(s) /\ (r = Continue => ~ Asks(s)) => Once(t)
  BY <1>1, <1>2 DEF Asks, Once
<1> QED BY <1>1, <1>4, <1>5

LEMMA Receiving ==
  ASSUME NEW s \in Seq(Response), s # <<>>, Once(s), NEW t, t = Tail(s)
  PROVE  /\ t \in Seq(Response) /\ Head(s) = s[1] /\ 1 \in 1..Len(s)
         /\ \A i \in 1..Len(t) : i+1 \in 1..Len(s) /\ t[i] = s[i+1]
         /\ Asks(t) <=> Asks(s) /\ Head(s) # Continue
         /\ Once(t)
<1>1. /\ t \in Seq(Response) /\ Len(t) = Len(s) - 1 /\ Len(s) \in Nat \ {0} /\ Head(s) = s[1]
      /\ \A i \in 1 .. Len(s)-1 : t[i] = s[i+1]
  OBVIOUS
<1>2. \A i \in 1..Len(t) : i+1 \in 1..Len(s) /\ i+1 # 1 /\ t[i] = s[i+1]
  BY <1>1
<1>3. \A i \in 1..Len(s) : i = 1 \/ (i-1 \in 1..Len(t) /\ i-1+1 = i)
  BY <1>1
<1>4. \A i \in 1..Len(s) : i = 1 \/ (i-1 \in 1..Len(t) /\ t[i-1] = s[i])
  BY <1>2, <1>3
<1>5. Asks(t) <=> Asks(s) /\ Head(s) # Continue
  <2>1. ASSUME Asks(t) PROVE Asks(s) /\ Head(s) # Continue
    <3>1. PICK i \in 1..Len(t) : t[i] = Continue
      BY <2>1 DEF Asks
    <3>2. i+1 \in 1..Len(s) /\ i+1 # 1 /\ s[i+1] = Continue /\ 1 \in 1..Len(s)
      BY <1>1, <1>2, <3>1
    <3> QED BY <1>1, <3>2 DEF Asks, Once
  <2>2. ASSUME Asks(s), Head(s) # Continue PROVE Asks(t)
    <3>1. PICK i \in 1..Len(s) : s[i] = Continue
      BY <2>2 DEF Asks
    <3>2. i # 1
      BY <1>1, <2>2, <3>1
    <3> QED BY <1>4, <3>1, <3>2 DEF Asks
  <2> QED BY <2>1, <2>2
<1>6. Once(t)
  <2> SUFFICES ASSUME NEW i \in 1..Len(t), NEW j \in 1..Len(t), t[i] = Continue, t[j] = Continue
               PROVE  i = j
    BY DEF Once
  <2>1. i+1 = j+1
    BY <1>2 DEF Once
  <2> QED BY <2>1
<1> QED BY <1>1, <1>2, <1>5, <1>6

LEMMA Responses ==
  /\ Continue \in Response /\ Untagged \in Response /\ Continue.k = "+" /\ Untagged.k = "*"
  /\ \A tag, status : Answer(tag, status).k = "tagged" /\ Answer(tag, status).tag = tag
                      /\ Answer(tag, status).status = status
  /\ \A tag, status : tag \in {Builder!TagText(n) : n \in 1..MaxTag} /\ status \in {"OK", "NO"} =>
       Answer(tag, status) \in Response
BY DEF Continue, Untagged, Answer, Response

\* What the builder has built stays as it is while the builder does not move.
LEMMA SameCommand ==
  ASSUME UNCHANGED builderVars, segment' = segment
  PROVE  /\ UpTo(segment-1)' = UpTo(segment-1) /\ Requested' = Requested /\ Title' = Title
         /\ HasBuilt' <=> (BuilderInv' /\ outcome = "built" /\ tags # <<>>)
         /\ UNCHANGED <<tagno, pc, call, next, main, lits, outcome, tags>>
BY DEF builderVars, UpTo, Requested, Title, Literals, Written, HasBuilt, B!Pieces, B!Behind, B!Payload

\* An action that leaves alone the builder, the host and all that the server
\* has read or reads next keeps what is said of them.
LEMMA OnlyResponses ==
  ASSUME ExchangeIInv, UNCHANGED builderVars, UNCHANGED <<host, segment, asked, served, mode, line, toServer>>,
         Awaited' <=> Awaited, Once(toClient')
  PROVE  HostInv' /\ TagInv' /\ ModeInv' /\ AwaitedInv' /\ ExchangeInv' /\ AnnouncedInv' /\ UnaskedInv' /\ PartInv'
<1>1. /\ UpTo(segment-1)' = UpTo(segment-1) /\ Requested' = Requested
      /\ UNCHANGED <<tagno, pc, call, next, main, lits, outcome, tags>>
  BY SameCommand
<1>2. HostInv' /\ TagInv'
  BY <1>1 DEF ExchangeIInv, HostInv, TagInv
<1>3. ModeInv'
  BY <1>1 DEF ExchangeIInv, ModeInv, Size, OneLeft
<1>4. AwaitedInv'
  BY <1>1 DEF ExchangeIInv, AwaitedInv, Size, OneLeft
<1>5. ExchangeInv' /\ AnnouncedInv' /\ UnaskedInv'
  BY <1>1 DEF ExchangeIInv, ExchangeInv, AnnouncedInv, UnaskedInv, NothingUnasked
<1>6. Current' = Current /\ (Partial' <=> Partial) /\ View' = View
  BY <1>1 DEF Current, Partial, View, Ahead, Size, Beyond
<1>7. PartInv'
  BY <1>6 DEF ExchangeIInv, PartInv, Parts
<1> QED BY <1>2, <1>3, <1>4, <1>5, <1>7

-----------------------------------------------------------------------------
(* The inductive step, action by action.                                   *)

LEMMA Stuttering == ASSUME ExchangeIInv, UNCHANGED vars PROVE ExchangeIInv'
<1>1. UNCHANGED builderVars /\ UNCHANGED hostVars /\ UNCHANGED serverVars /\ UNCHANGED <<toServer, toClient>>
  BY DEF vars
<1>2. UNCHANGED <<host, segment, asked, answered, mode, line, challenges, served, owed, untagged, toServer, toClient>>
  BY <1>1 DEF hostVars, serverVars
<1>3. (Awaited' <=> Awaited) /\ Once(toClient')
  BY <1>2 DEF Awaited, ExchangeIInv, AwaitedInv
<1>4. HostInv' /\ TagInv' /\ ModeInv' /\ AwaitedInv' /\ ExchangeInv' /\ AnnouncedInv' /\ UnaskedInv' /\ PartInv'
  BY <1>1, <1>2, <1>3, OnlyResponses
<1>5. Types'
  BY <1>1, <1>2 DEF ExchangeIInv, Types, builderVars
<1>6. AnswerInv'
  BY <1>2 DEF ExchangeIInv, AnswerInv, Answers
<1> QED BY <1>4, <1>5, <1>6 DEF ExchangeIInv

\* The tag and the status of an answer that may be given.
LEMMA AnswerTypes ==
  ASSUME Types, AnswerInv, NEW tag, NEW status, Answers(tag, status)
  PROVE  tag \in {Builder!TagText(n) : n \in 1..MaxTag} /\ status \in {"OK", "NO"}
<1>1. PICK j \in 1..Len(served) : tag = asked[j].tag /\ status = served[j].status
  BY DEF Answers
<1>2. asked \in Seq(Requests) /\ served \in Seq(Outcome) /\ Len(served) <= Len(asked)
  BY DEF Types, AnswerInv
<1>3. j \in 1..Len(asked)
  BY <1>2
<1>4. asked[j] \in Requests /\ served[j] \in Outcome
  BY <1>2, <1>3, ElementOfSeq
<1>5. asked[j].tag \in {Builder!TagText(n) : n \in 1..MaxTag}
  BY <1>4 DEF Requests, Command
<1>6. served[j].status \in {"OK", "NO"}
  BY <1>4 DEF Outcome
<1> QED BY <1>1, <1>5, <1>6

LEMMA SendAnswerStep == ASSUME ExchangeIInv, SendAnswer PROVE ExchangeIInv'
<1>1. PICK a \in owed : toClient' = Append(toClient, Answer(a.tag, a.status)) /\ owed' = owed \ {a}
  BY DEF SendAnswer
<1>2. /\ UNCHANGED builderVars
      /\ UNCHANGED <<host, segment, asked, answered, mode, line, challenges, served, untagged, toServer>>
  BY DEF SendAnswer, hostVars
<1> DEFINE r == Answer(a.tag, a.status)
<1>3. Types /\ AnswerInv /\ Answers(a.tag, a.status)
  BY DEF ExchangeIInv, AnswerInv
<1>4. r \in Response /\ r.k = "tagged" /\ r.tag = a.tag /\ r.status = a.status
  BY <1>3, AnswerTypes, Responses
<1>5. r # Continue
  BY <1>4, Responses
<1>6. toClient \in Seq(Response) /\ Once(toClient)
  BY DEF ExchangeIInv, Types, AwaitedInv
<1> HIDE DEF r
<1>7. /\ toClient' \in Seq(Response) /\ Len(toClient') = Len(toClient) + 1 /\ Len(toClient) \in Nat
      /\ \A i \in 1..Len(toClient) : toClient'[i] = toClient[i]
      /\ toClient'[Len(toClient)+1] = r
      /\ (Asks(toClient') <=> Asks(toClient)) /\ Once(toClient')
  <2> DEFINE t == Append(toClient, r)
  <2>1. /\ t \in Seq(Response) /\ Len(t) = Len(toClient) + 1 /\ Len(toClient) \in Nat
        /\ \A i \in 1..Len(toClient) : t[i] = toClient[i]
        /\ t[Len(toClient)+1] = r
        /\ (Asks(t) <=> Asks(toClient) \/ r = Continue)
        /\ Once(toClient) /\ (r = Continue => ~ Asks(toClient)) => Once(t)
    BY <1>4, <1>6, Sending
  <2>2. toClient' = t
    BY <1>1 DEF r
  <2> QED BY <1>5, <1>6, <2>1, <2>2
<1>8. HostInv' /\ TagInv' /\ ModeInv' /\ AwaitedInv' /\ ExchangeInv' /\ AnnouncedInv' /\ UnaskedInv' /\ PartInv'
  BY <1>2, <1>7, OnlyResponses DEF Awaited
<1>9. Types'
  BY <1>2, <1>7 DEF ExchangeIInv, Types, builderVars
<1>10. AnswerInv'
  <2>1. \A i \in 1..Len(toClient') : toClient'[i].k = "tagged" => Answers(toClient'[i].tag, toClient'[i].status)
    <3> TAKE i \in 1..Len(toClient')
    <3>1. CASE i \in 1..Len(toClient)
      BY <1>3, <1>7, <3>1 DEF AnswerInv
    <3>2. CASE i = Len(toClient) + 1
      BY <1>3, <1>4, <1>7, <3>2
    <3> QED BY <1>7, <3>1, <3>2
  <2>2. \A tag, status : Answers(tag, status)' <=> Answers(tag, status)
    BY <1>2 DEF Answers
  <2> QED BY <1>1, <1>2, <1>3, <2>1, <2>2 DEF AnswerInv, Answers
<1> QED BY <1>8, <1>9, <1>10 DEF ExchangeIInv

LEMMA InformStep == ASSUME ExchangeIInv, Inform PROVE ExchangeIInv'
<1>1. /\ toClient' = Append(toClient, Untagged) /\ untagged' = untagged + 1 /\ untagged < MaxUntagged
      /\ UNCHANGED builderVars
      /\ UNCHANGED <<host, segment, asked, answered, mode, line, challenges, served, owed, toServer>>
  BY DEF Inform, hostVars
<1>2. Untagged \in Response /\ Untagged # Continue /\ Untagged.k # "tagged"
  BY Responses
<1>3. toClient \in Seq(Response) /\ Once(toClient)
  BY DEF ExchangeIInv, Types, AwaitedInv
<1>4. /\ toClient' \in Seq(Response) /\ Len(toClient') = Len(toClient) + 1 /\ Len(toClient) \in Nat
      /\ \A i \in 1..Len(toClient) : toClient'[i] = toClient[i]
      /\ toClient'[Len(toClient)+1] = Untagged
      /\ (Asks(toClient') <=> Asks(toClient)) /\ Once(toClient')
  <2> DEFINE t == Append(toClient, Untagged)
  <2>1. /\ t \in Seq(Response) /\ Len(t) = Len(toClient) + 1 /\ Len(toClient) \in Nat
        /\ \A i \in 1..Len(toClient) : t[i] = toClient[i]
        /\ t[Len(toClient)+1] = Untagged
        /\ (Asks(t) <=> Asks(toClient) \/ Untagged = Continue)
        /\ Once(toClient) /\ (Untagged = Continue => ~ Asks(toClient)) => Once(t)
    BY <1>2, <1>3, Sending
  <2>2. toClient' = t
    BY <1>1
  <2> QED BY <1>2, <1>3, <2>1, <2>2
<1>5. HostInv' /\ TagInv' /\ ModeInv' /\ AwaitedInv' /\ ExchangeInv' /\ AnnouncedInv' /\ UnaskedInv' /\ PartInv'
  BY <1>1, <1>4, OnlyResponses DEF Awaited
<1>6. untagged' \in 0..MaxUntagged
  BY <1>1, NumberAssumption DEF ExchangeIInv, Types
<1>7. Types'
  BY <1>1, <1>4, <1>6 DEF ExchangeIInv, Types, builderVars
<1>8. AnswerInv'
  <2>1. \A i \in 1..Len(toClient') : toClient'[i].k = "tagged" => Answers(toClient'[i].tag, toClient'[i].status)
    <3> TAKE i \in 1..Len(toClient')
    <3>1. CASE i \in 1..Len(toClient)
      BY <1>4, <3>1 DEF ExchangeIInv, AnswerInv
    <3>2. CASE i = Len(toClient) + 1
      BY <1>2, <1>4, <3>2
    <3> QED BY <1>4, <3>1, <3>2
  <2> QED BY <1>1, <2>1 DEF ExchangeIInv, AnswerInv, Answers
<1> QED BY <1>5, <1>7, <1>8 DEF ExchangeIInv

LEMMA InformedStep == ASSUME ExchangeIInv, Informed PROVE ExchangeIInv'
<1>1. /\ toClient # <<>> /\ Head(toClient) = Untagged /\ toClient' = Tail(toClient)
      /\ UNCHANGED builderVars
      /\ UNCHANGED <<host, segment, asked, answered, mode, line, challenges, served, owed, untagged, toServer>>
  BY DEF Informed, hostVars, serverVars
<1>2. Untagged # Continue
  BY Responses
<1>3. toClient \in Seq(Response) /\ Once(toClient)
  BY DEF ExchangeIInv, Types, AwaitedInv
<1>4. /\ toClient' \in Seq(Response)
      /\ \A i \in 1..Len(toClient') : i+1 \in 1..Len(toClient) /\ toClient'[i] = toClient[i+1]
      /\ (Asks(toClient') <=> Asks(toClient)) /\ Once(toClient')
  BY <1>1, <1>2, <1>3, Receiving
<1>5. HostInv' /\ TagInv' /\ ModeInv' /\ AwaitedInv' /\ ExchangeInv' /\ AnnouncedInv' /\ UnaskedInv' /\ PartInv'
  BY <1>1, <1>4, OnlyResponses DEF Awaited
<1>6. Types'
  BY <1>1, <1>4 DEF ExchangeIInv, Types, builderVars
<1>7. AnswerInv'
  <2>1. \A i \in 1..Len(toClient') : toClient'[i].k = "tagged" => Answers(toClient'[i].tag, toClient'[i].status)
    BY <1>4 DEF ExchangeIInv, AnswerInv
  <2> QED BY <1>1, <2>1 DEF ExchangeIInv, AnswerInv, Answers
<1> QED BY <1>5, <1>6, <1>7 DEF ExchangeIInv

\* When every command written has been served nothing is left of any.
LEMMA NothingLeft ==
  ASSUME Types, PartInv, Len(served) = Len(asked)
  PROVE  /\ View = <<>> /\ ~ Partial
         /\ \A i \in 1..Len(toServer) : toServer[i] \in Replied
<1>1. Len(served) \in Nat /\ Len(asked) \in Nat
  BY DEF Types
<1>2. ~ Partial
  BY <1>1 DEF Partial
<1>3. PICK old \in Seq(Seq(Wired)) : Parts(old, View, Current, Partial, asked, served)
  BY DEF PartInv
<1>4. Len(old) = 0
  <2>1. Len(old) \in Nat /\ Len(old) + 0 = 0
    BY <1>1, <1>2, <1>3 DEF Parts
  <2> QED BY <2>1
<1>5. old = <<>>
  BY <1>3, <1>4
<1>6. View = <<>> \o <<>>
  BY <1>2, <1>3, <1>5, FlattenEmpty DEF Parts, Current
<1>7. View = <<>>
  BY <1>6
<1>8. Beyond(toServer) = <<>>
  <2> DEFINE read == line \o Ahead
             b    == Beyond(toServer)
  <2>1. read \in Seq(Wired) /\ b \in Seq(Wired) /\ read \o b = <<>>
    BY <1>7, ViewType DEF View
  <2> HIDE DEF read, b
  <2>2. b = <<>>
    BY <2>1
  <2> QED BY <2>2 DEF b
<1>9. ASSUME NEW i \in 1..Len(toServer) PROVE toServer[i] \in Replied
  <2>1. toServer \in Seq(Wired) /\ toServer # <<>>
    <3>1. toServer \in Seq(Wired)
      BY DEF Types
    <3> QED BY <3>1
  <2>2. toServer[1] \in Replied /\ Tail(toServer) = <<>>
    BY <1>8, <2>1 DEF Beyond
  <2>3. Len(toServer) = 1
    <3>1. Len(Tail(toServer)) = Len(toServer) - 1 /\ Len(toServer) \in Nat
      BY <2>1, CutFirst
    <3> DEFINE rest == Tail(toServer)
    <3>2. rest = <<>> /\ Len(rest) = Len(toServer) - 1
      BY <2>2, <3>1
    <3> HIDE DEF rest
    <3>3. Len(rest) = 0
      BY <3>2
    <3> QED BY <3>1, <3>2, <3>3
  <2>4. i = 1
    BY <2>3
  <2> QED BY <2>2, <2>4
<1> QED BY <1>2, <1>7, <1>9

LEMMA AnsweredStep == ASSUME ExchangeIInv, Answered PROVE ExchangeIInv'
<1>1. PICK i \in 1..Len(asked) \ DOMAIN answered :
        /\ asked[i].tag = Head(toClient).tag
        /\ answered' = [j \in DOMAIN answered \union {i} |->
                          IF j = i THEN Head(toClient).status ELSE answered[j]]
        /\ host' = IF i = Len(asked) /\ host \in {"literal", "exchange"} THEN "free" ELSE host
  BY DEF Answered
<1>2. /\ toClient # <<>> /\ Head(toClient).k = "tagged" /\ toClient' = Tail(toClient)
      /\ UNCHANGED builderVars
      /\ UNCHANGED <<segment, asked, mode, line, challenges, served, owed, untagged, toServer>>
  BY DEF Answered, serverVars
<1>3. Types /\ AnswerInv /\ TagInv /\ HostInv /\ ModeInv /\ AwaitedInv /\ PartInv
  BY DEF ExchangeIInv
<1>4. toClient \in Seq(Response) /\ Once(toClient) /\ Head(toClient) # Continue
  BY <1>2, <1>3, Responses DEF Types, AwaitedInv
<1>5. /\ toClient' \in Seq(Response) /\ Head(toClient) = toClient[1] /\ 1 \in 1..Len(toClient)
      /\ \A n \in 1..Len(toClient') : n+1 \in 1..Len(toClient) /\ toClient'[n] = toClient[n+1]
      /\ (Asks(toClient') <=> Asks(toClient)) /\ Once(toClient')
  BY <1>2, <1>4, Receiving
<1>6. i \in 1..Len(served)
  <2>1. Answers(Head(toClient).tag, Head(toClient).status)
    BY <1>2, <1>3, <1>5 DEF AnswerInv
  <2>2. PICK j \in 1..Len(served) : asked[j].tag = Head(toClient).tag
    BY <2>1 DEF Answers
  <2>3. j \in 1..Len(asked)
    BY <1>3 DEF AnswerInv, Types
  <2>4. i = j
    BY <1>1, <1>3, <2>2, <2>3 DEF TagInv
  <2> QED BY <2>2, <2>4
<1>7. AnswerInv'
  <2>1. \A n \in 1..Len(toClient') : toClient'[n].k = "tagged" => Answers(toClient'[n].tag, toClient'[n].status)
    BY <1>3, <1>5 DEF AnswerInv
  <2>2. DOMAIN answered' \subseteq 1..Len(served)
    BY <1>1, <1>3, <1>6 DEF AnswerInv
  <2> QED BY <1>2, <1>3, <2>1, <2>2 DEF AnswerInv, Answers
<1>8. Types'
  BY <1>1, <1>2, <1>3, <1>5 DEF Types, builderVars
<1>9. CASE host' = host
  <2>1. HostInv' /\ TagInv' /\ ModeInv' /\ AwaitedInv' /\ ExchangeInv' /\ AnnouncedInv' /\ UnaskedInv' /\ PartInv'
    BY <1>2, <1>5, <1>9, OnlyResponses DEF Awaited
  <2> QED BY <1>7, <1>8, <2>1 DEF ExchangeIInv
<1>10. CASE host' # host
  <2>1. i = Len(asked) /\ host \in {"literal", "exchange"} /\ host' = "free"
    BY <1>1, <1>10
  <2>2. Len(served) = Len(asked) /\ ~ OneLeft /\ Len(served) \in Nat
    BY <1>3, <1>6, <2>1 DEF Types, AnswerInv, OneLeft
  <2>3. ~ Awaited /\ ~ Awaited'
    BY <1>3, <1>5, <2>2 DEF AwaitedInv, Awaited
  <2>4. /\ View = <<>> /\ ~ Partial
        /\ \A n \in 1..Len(toServer) : toServer[n] \in Replied
    BY <1>3, <2>2, NothingLeft
  <2>5. HostInv'
    BY <1>2, <1>3, <2>1 DEF HostInv, Open, builderVars
  <2>6. TagInv'
    BY <1>2, <1>3, <2>1 DEF TagInv, builderVars
  <2>7. ModeInv'
    BY <1>2, <1>3, <2>1, <2>2, <2>3 DEF ModeInv, Size, OneLeft
  <2>8. AwaitedInv'
    BY <1>5, <2>1, <2>3 DEF AwaitedInv
  <2>9. ExchangeInv'
    <3>1. Len(served)' = Len(asked)' /\ Len(served)' \in Nat
      BY <1>2, <2>2
    <3> QED BY <3>1 DEF ExchangeInv
  <2>10. AnnouncedInv'
    <3>1. \A n \in 1..Len(toServer) : toServer[n].t # "marker"
      BY <2>4 DEF Replied, Reply, DONE
    <3> QED BY <1>2, <3>1 DEF AnnouncedInv, Announces
  <2>11. UnaskedInv'
    BY <1>2 DEF ExchangeIInv, UnaskedInv, NothingUnasked
  <2>12. PartInv'
    <3>1. View' = View
      BY <1>2 DEF View, Ahead, Size, Beyond
    <3>2. ~ Partial' /\ Current' = Current
      BY <2>1, <2>4 DEF Partial, Current
    <3> QED BY <1>2, <1>3, <2>4, <3>1, <3>2 DEF PartInv, Parts
  <2> QED BY <1>7, <1>8, <2>5, <2>6, <2>7, <2>8, <2>9, <2>10, <2>11, <2>12 DEF ExchangeIInv
<1> QED BY <1>9, <1>10

\* Between two commands it does not matter what the builder does.
LEMMA BetweenCommands ==
  ASSUME ExchangeIInv, host \notin Open, host' \notin Open,
         UNCHANGED <<asked, answered, mode, line, challenges, served, owed, untagged, toServer, toClient>>
  PROVE  AnswerInv' /\ ModeInv' /\ AwaitedInv' /\ ExchangeInv' /\ AnnouncedInv' /\ UnaskedInv' /\ PartInv'
<1>1. ~ Awaited /\ ~ Awaited'
  BY DEF ExchangeIInv, AwaitedInv, Awaited, Open
<1>2. AnswerInv'
  BY DEF ExchangeIInv, AnswerInv, Answers
<1>3. ModeInv'
  BY <1>1 DEF ExchangeIInv, ModeInv, Size, OneLeft, Open
<1>4. AwaitedInv'
  BY <1>1 DEF ExchangeIInv, AwaitedInv, Open
<1>5. ExchangeInv'
  BY DEF ExchangeIInv, ExchangeInv
<1>6. AnnouncedInv'
  BY DEF ExchangeIInv, AnnouncedInv, Announces, Open
<1>7. UnaskedInv'
  BY DEF ExchangeIInv, UnaskedInv, NothingUnasked
<1>8. PartInv'
  <2>1. View' = View
    BY DEF View, Ahead, Size, Beyond
  <2>2. ~ Partial /\ ~ Partial' /\ Current = <<>> /\ Current' = <<>>
    BY DEF Partial, Current, Open
  <2> QED BY <2>1, <2>2 DEF ExchangeIInv, PartInv, Parts
<1> QED BY <1>2, <1>3, <1>4, <1>5, <1>6, <1>7, <1>8

LEMMA BeginStep == ASSUME ExchangeIInv, BuilderInv, Begin PROVE ExchangeIInv'
<1>1. PICK c \in Calls : B!Begin(c)
  BY SameBegin DEF Begin
<1>2. /\ host = "free" /\ host' = "calling" /\ segment' = 1
      /\ UNCHANGED <<asked, answered, mode, line, challenges, served, owed, untagged, toServer, toClient>>
  BY DEF Begin, serverVars
<1>3. /\ lits' = <<>> /\ tags' = Append(tags, B!TagText(tagno')) /\ Len(<<>>) = 0
  BY <1>1 DEF B!Begin
<1>4. AnswerInv' /\ ModeInv' /\ AwaitedInv' /\ ExchangeInv' /\ AnnouncedInv' /\ UnaskedInv' /\ PartInv'
  BY <1>2, BetweenCommands DEF Open
<1>5. Types'
  <2>1. segment' \in 1 .. Len(lits') + 1
    BY <1>2, <1>3
  <2> QED BY <1>2, <2>1 DEF ExchangeIInv, Types
<1>6. /\ Len(tags) \in Nat /\ Len(tags') = Len(tags) + 1 /\ tags' # <<>>
      /\ \A n \in 1..Len(tags) : tags'[n] = tags[n]
  <2>1. tags \in Seq({B!TagText(n) : n \in 1..MaxTag}) /\ tags' \in Seq({B!TagText(n) : n \in 1..MaxTag})
    <3>1. B!IInv'
      BY <1>1, SameItem, CallsAssumption, NumberAssumption, B!BeginStep DEF BuilderInv
    <3> QED BY <3>1 DEF BuilderInv, B!IInv, B!TypeOK
  <2> DEFINE T == {B!TagText(n) : n \in 1..MaxTag}
             new == B!TagText(tagno')
  <2>2. new \in T
    <3>1. tagno' \in 1..MaxTag
      <4>1. tagno \in 0..MaxTag /\ tagno < MaxTag /\ tagno' = tagno + 1
        BY <1>1 DEF B!Begin, BuilderInv, B!IInv, B!TypeOK
      <4> QED BY <4>1, NumberAssumption
    <3> QED BY <3>1
  <2>3. tags \in Seq(T) /\ tags' = Append(tags, new)
    BY <1>3, <2>1
  <2> HIDE DEF T, new
  <2> QED BY <2>2, <2>3, AppendProperties
<1>7. HostInv'
  BY <1>2, <1>6 DEF HostInv, Open
<1>8. TagInv'
  <2>1. ASSUME NEW j \in 1..Len(asked)
        PROVE  \E n \in 1..Len(tags') : asked[j].tag = tags'[n] /\ n < Len(tags')
    <3>1. PICK n \in 1..Len(tags) : asked[j].tag = tags[n]
      BY DEF ExchangeIInv, TagInv
    <3> QED BY <1>6, <3>1
  <2> QED BY <1>2, <2>1 DEF ExchangeIInv, TagInv
<1> QED BY <1>4, <1>5, <1>7, <1>8 DEF ExchangeIInv

LEMMA BuildStep == ASSUME ExchangeIInv, BuilderInv, BuilderInv', Build PROVE ExchangeIInv'
<1>1. B!EncodeData \/ B!Fail \/ B!Panic \/ B!Finish
  BY SameEncodeData, SameFail, SamePanic, SameFinish DEF Build
<1>2. /\ host' = IF outcome' \in {"invalid", "panic"} THEN "free" ELSE host
      /\ UNCHANGED <<segment, asked, answered, mode, line, challenges, served, owed, untagged, toServer, toClient>>
  BY DEF Build, serverVars
<1>3. pc = "encode" /\ UNCHANGED tags
  BY <1>1 DEF B!EncodeData, B!Fail, B!Panic, B!Finish
<1>4. host = "calling" /\ segment = 1 /\ tags # <<>> /\ outcome = "none"
  BY <1>3 DEF ExchangeIInv, HostInv, BuilderInv, B!WireInv
<1>5. /\ host' \in {"free", "calling"}
      /\ pc' = "encode" => outcome' = "none"
  BY <1>1, <1>2, <1>4 DEF B!EncodeData, B!Fail, B!Panic, B!Finish
<1>6. AnswerInv' /\ ModeInv' /\ AwaitedInv' /\ ExchangeInv' /\ AnnouncedInv' /\ UnaskedInv' /\ PartInv'
  BY <1>2, <1>4, <1>5, BetweenCommands DEF Open
<1>7. Types'
  <2>1. Len(lits)' \in Nat
    BY DEF BuilderInv, B!IInv, B!TypeOK
  <2>2. segment' \in 1 .. Len(lits)' + 1
    BY <1>2, <1>4, <2>1
  <2> QED BY <1>2, <1>5, <2>2 DEF ExchangeIInv, Types
<1>8. HostInv'
  BY <1>2, <1>3, <1>4, <1>5 DEF HostInv, Open
<1>9. TagInv'
  BY <1>2, <1>3, <1>4, <1>5 DEF ExchangeIInv, TagInv
<1> QED BY <1>6, <1>7, <1>8, <1>9 DEF ExchangeIInv

\* What the server does leaves the host where it is.
LEMMA SameHost ==
  ASSUME HostInv, TagInv, UNCHANGED builderVars, UNCHANGED hostVars
  PROVE  /\ HostInv' /\ TagInv' /\ UNCHANGED <<host, segment, asked, answered>>
         /\ UNCHANGED <<tagno, pc, call, next, main, lits, outcome, tags>>
         /\ UpTo(segment-1)' = UpTo(segment-1)
<1>1. UNCHANGED <<host, segment, asked, answered>>
  BY DEF hostVars
<1>2. /\ UpTo(segment-1)' = UpTo(segment-1) /\ Requested' = Requested
      /\ UNCHANGED <<tagno, pc, call, next, main, lits, outcome, tags>>
  BY <1>1, SameCommand
<1> QED BY <1>1, <1>2 DEF HostInv, TagInv

LEMMA WholeHeading ==
  ASSUME NEW w, NEW r, Whole(w, r)
  PROVE  HeadingOf(w).tag = r.tag /\ HeadingOf(w).cmd = r.cmd /\ HeadingOf(w) = w[1]
<1>1. Decoded(w).tag = HeadingOf(w).tag /\ Decoded(w).cmd = HeadingOf(w).cmd
  BY DEF Decoded, Command
<1> QED BY <1>1 DEF Whole, HeadingOf

\* A line of an exchange that the server has read to its end was the last thing
\* the host wrote.
LEMMA ExchangeIsLast ==
  ASSUME ExchangeIInv, BuilderInv, mode = "command",
         NEW s \in Seq(Wired), NEW t \in Seq(Wired), EndedBy(Ends, s), View = s \o t,
         HeadingOf(s).cmd \in Exchanges
  PROVE  host = "exchange" /\ OneLeft /\ t = <<>>
<1>1. Types /\ HostInv /\ AwaitedInv /\ ExchangeInv /\ PartInv
  BY DEF ExchangeIInv
<1>2. PICK old \in Seq(Seq(Wired)) : Parts(old, View, Current, Partial, asked, served)
  BY <1>1 DEF PartInv
<1>3. Current \in Seq(Wired) /\ FreeOf(Ends, Current)
  BY <1>1, CurrentType
<1>4. s \o t = FlattenSeq(old) \o Current /\ \A j \in 1..Len(old) : Whole(old[j], asked[Len(served)+j])
  BY <1>2 DEF Parts
<1>5. old # <<>> /\ s = old[1] /\ t = FlattenSeq(Tail(old)) \o Current
  BY <1>3, <1>4, FirstOfParts DEF Whole
<1>6. Len(old) \in Nat \ {0} /\ 1 \in 1..Len(old)
  BY <1>5
<1>7. Len(asked) \in Nat /\ Len(served) \in Nat
  BY <1>1 DEF Types
<1>8. Len(old) + (IF Partial THEN 1 ELSE 0) = Len(asked) - Len(served)
  BY <1>2 DEF Parts
<1>9. Len(served)+1 \in Len(served)+1 .. Len(asked)
  BY <1>6, <1>7, <1>8
<1>10. asked[Len(served)+1].cmd \in Exchanges
  BY <1>4, <1>5, <1>6, WholeHeading
<1>11. OneLeft /\ host \in Open
  BY <1>1, <1>9, <1>10 DEF ExchangeInv, OneLeft
<1>12. ~ Partial /\ Len(old) = 1
  BY <1>6, <1>7, <1>8, <1>11 DEF OneLeft
<1>13. host # "literal"
  BY <1>7, <1>11, <1>12 DEF Partial, OneLeft
<1>14. host = "exchange"
  BY <1>1, <1>11, <1>13 DEF Open, AwaitedInv
<1>15. t = <<>>
  <2>1. Tail(old) = <<>>
    <3>1. Tail(old) \in Seq(Seq(Wired)) /\ Len(Tail(old)) = Len(old) - 1
      <4> DEFINE W == Seq(Wired)
      <4>1. old \in Seq(W)
        OBVIOUS
      <4> HIDE DEF W
      <4>2. Tail(old) \in Seq(W) /\ Len(Tail(old)) = Len(old) - 1
        BY <1>5, <4>1, CutFirst
      <4> QED BY <4>2 DEF W
    <3> DEFINE more == Tail(old)
               W    == Seq(Wired)
    <3>2. more \in Seq(W) /\ Len(more) = Len(old) - 1
      BY <3>1
    <3> HIDE DEF more, W
    <3>3. Len(more) = 0
      BY <1>12, <3>2
    <3>4. more = <<>>
      BY <3>2, <3>3
    <3> QED BY <3>4 DEF more
  <2>2. t = <<>> \o <<>>
    BY <1>5, <1>12, <2>1, FlattenEmpty DEF Current
  <2> QED BY <2>2
<1> QED BY <1>11, <1>14, <1>15

\* What the server has read and cannot be whole is all there is.
LEMMA UnfinishedIsLast ==
  ASSUME ExchangeIInv, BuilderInv, FreeOf(Ends, View), View # <<>> \/ OneLeft
  PROVE  OneLeft /\ Partial /\ View = Current
<1>1. Types /\ HostInv /\ PartInv
  BY DEF ExchangeIInv
<1>2. PICK old \in Seq(Seq(Wired)) : Parts(old, View, Current, Partial, asked, served)
  BY <1>1 DEF PartInv
<1>3. Current \in Seq(Wired)
  BY <1>1, CurrentType
<1>4. old = <<>>
  <2>1. \A j \in 1..Len(old) : EndedBy(Ends, old[j])
    BY <1>2 DEF Parts, Whole
  <2>2. FreeOf(Ends, FlattenSeq(old) \o Current)
    BY <1>2 DEF Parts
  <2> QED BY <1>3, <2>1, <2>2, PartsNotFree
<1>5. View = <<>> \o Current
  BY <1>2, <1>4, FlattenEmpty DEF Parts
<1>6. View = Current
  BY <1>3, <1>5
<1>7. Partial
  <2> SUFFICES ASSUME ~ Partial PROVE FALSE
    OBVIOUS
  <2>1. OneLeft
    BY <1>6 DEF Current
  <2>2. 0 + 0 = Len(asked) - Len(served)
    BY <1>2, <1>4 DEF Parts
  <2> QED BY <1>1, <2>1, <2>2 DEF Types, OneLeft
<1>8. OneLeft
  <2>1. 0 + 1 = Len(asked) - Len(served)
    BY <1>2, <1>4, <1>7 DEF Parts
  <2> QED BY <1>1, <2>1 DEF Types, OneLeft
<1> QED BY <1>6, <1>7, <1>8

\* Nothing that has to be asked for is on its way while the server reads a
\* command.
LEMMA NothingAsked ==
  ASSUME Types, UnaskedInv, mode \in {"command", "announced", "complete"}
  PROVE  Unasked(toServer) /\ Beyond(toServer) = toServer
<1>1. Unasked(toServer)
  BY DEF UnaskedInv, NothingUnasked, Unasked, Asked
<1>2. Beyond(toServer) = toServer
  <2>1. toServer # <<>> => 1 \in 1..Len(toServer)
    BY DEF Types
  <2>2. toServer # <<>> => toServer[1] \notin Replied
    BY <1>1, <2>1 DEF Unasked, Asked, Replied, Reply, DONE
  <2> QED BY <2>2 DEF Beyond
<1> QED BY <1>1, <1>2

\* What is left of a command at the host is what it was.
LEMMA SameCurrent ==
  ASSUME UNCHANGED builderVars, UNCHANGED <<host, segment, asked, served>>, Awaited' <=> Awaited
  PROVE  Current' = Current /\ (Partial' <=> Partial)
<1>1. UpTo(segment-1)' = UpTo(segment-1) /\ UNCHANGED lits
  BY SameCommand
<1> QED BY <1>1 DEF Current, Partial

\* The server reads on in what was on its way.
LEMMA SameParts ==
  ASSUME PartInv, UNCHANGED builderVars, UNCHANGED <<host, segment, asked, served>>,
         Awaited' <=> Awaited, View' = View
  PROVE  PartInv'
<1>1. Current' = Current /\ (Partial' <=> Partial)
  BY SameCurrent
<1> QED BY <1>1 DEF PartInv, Parts

\* A line that ends at its first end.
LEMMA FirstLineEnd ==
  ASSUME toServer \in Seq(Wired), LineEnds # {}
  PROVE  LET end == CHOOSE i \in LineEnds : \A j \in LineEnds : i <= j
         IN  /\ end \in 1..Len(toServer) /\ (toServer[end].t = "marker" \/ toServer[end] \in Ends)
             /\ \A i \in 1..end-1 : toServer[i] \notin Ends
<1> DEFINE end == CHOOSE i \in LineEnds : \A j \in LineEnds : i <= j
<1>1. LineEnds \subseteq Nat /\ LineEnds \subseteq 1..Len(toServer)
  BY DEF LineEnds
<1>2. \E i \in LineEnds : \A j \in LineEnds : i <= j
  BY <1>1, HasLeast
<1>3. end \in LineEnds /\ \A j \in LineEnds : end <= j
  BY <1>2
<1> HIDE DEF end
<1>4. end \in 1..Len(toServer) /\ (toServer[end].t = "marker" \/ toServer[end] \in Ends)
  <2>1. end \in 1..Len(toServer) /\ Builder!EndsLine(toServer[end])
    BY <1>3 DEF LineEnds
  <2>2. toServer[end] \in Wired
    BY <2>1, ElementOfSeq
  <2> QED BY <2>1, <2>2 DEF Builder!EndsLine, Ends
<1>5. ASSUME NEW i \in 1..end-1 PROVE toServer[i] \notin Ends
  <2>1. i \in 1..Len(toServer) /\ i < end
    BY <1>4
  <2>2. i \notin LineEnds
    BY <1>1, <1>3, <1>4, <2>1
  <2> QED BY <2>1, <2>2 DEF LineEnds, Builder!EndsLine, Ends
<1> QED BY <1>4, <1>5 DEF end

LEMMA ReadLineStep == ASSUME ExchangeIInv, BuilderInv, ReadLine PROVE ExchangeIInv'
<1> DEFINE end   == CHOOSE i \in LineEnds : \A j \in LineEnds : i <= j
           n     == Len(toServer)
           front == SubSeq(toServer, 1, end)
           rest  == SubSeq(toServer, end+1, n)
           more  == line \o front
<1>1. /\ mode = "command" /\ LineEnds # {} /\ toServer' = rest /\ line' = more
      /\ mode' = IF toServer[end].t = "marker" THEN "announced" ELSE "complete"
      /\ UNCHANGED builderVars /\ UNCHANGED hostVars
      /\ UNCHANGED <<challenges, served, owed, untagged, toClient>>
  BY DEF ReadLine
<1>2. /\ Types /\ HostInv /\ TagInv /\ AnswerInv /\ ModeInv /\ AwaitedInv /\ ExchangeInv /\ AnnouncedInv
      /\ UnaskedInv /\ PartInv
  BY DEF ExchangeIInv
<1>3. toServer \in Seq(Wired) /\ line \in Seq(Wired) /\ n \in Nat
  BY <1>2 DEF Types
<1>4. /\ end \in 1..n /\ (toServer[end].t = "marker" \/ toServer[end] \in Ends)
      /\ \A i \in 1..end-1 : toServer[i] \notin Ends
  BY <1>1, <1>3, FirstLineEnd
<1> HIDE DEF end
<1>5. /\ front \in Seq(Wired) /\ rest \in Seq(Wired) /\ Len(front) = end /\ Len(rest) = n - end
      /\ toServer = front \o rest
  <2>1. end \in 0..Len(toServer)
    BY <1>3, <1>4
  <2>2. toServer \in Seq(Wired)
    BY <1>3
  <2>3. /\ SubSeq(toServer, 1, end) \in Seq(Wired) /\ SubSeq(toServer, end+1, Len(toServer)) \in Seq(Wired)
        /\ Len(SubSeq(toServer, 1, end)) = end /\ Len(SubSeq(toServer, end+1, Len(toServer))) = Len(toServer) - end
        /\ toServer = SubSeq(toServer, 1, end) \o SubSeq(toServer, end+1, Len(toServer))
    BY <2>1, <2>2, CutAt
  <2> QED BY <2>3
<1>6. /\ \A i \in 1..end : front[i] = toServer[i]
      /\ \A i \in 1..n-end : rest[i] = toServer[end+i]
  BY <1>3, <1>4
<1>7. end \in Nat /\ n - end \in Nat /\ \A i \in 1..n-end : end+i \in 1..n /\ (end+i = n <=> i = n-end)
  BY <1>3, <1>4
<1> HIDE DEF n, front, rest
<1>8. more \in Seq(Wired)
  BY <1>3, <1>5
<1> HIDE DEF more
<1>9. /\ HostInv' /\ TagInv' /\ UNCHANGED <<host, segment, asked, answered>>
      /\ UNCHANGED <<tagno, pc, call, next, main, lits, outcome, tags>>
  BY <1>1, <1>2, SameHost
<1>10. ~ Awaited /\ ~ Awaited' /\ toServer # <<>>
  <2>1. toServer # <<>>
    BY <1>3, <1>4 DEF n
  <2>2. ~ Awaited
    BY <1>2, <2>1 DEF AwaitedInv
  <2> QED BY <1>1, <2>1, <2>2 DEF Awaited
<1>11. Unasked(toServer) /\ Beyond(toServer) = toServer
  <2>1. Types /\ UnaskedInv /\ mode \in {"command", "announced", "complete"}
    BY <1>1, <1>2
  <2> QED BY <2>1, NothingAsked
<1>12. Unasked(rest) /\ Beyond(rest) = rest
  <2>1. Unasked(rest)
    <3>1. Len(rest) = n - end
      BY <1>5
    <3>2. \A i \in 1..Len(rest) : end+i \in 1..Len(toServer) /\ rest[i] = toServer[end+i]
      BY <1>6, <1>7, <3>1 DEF n
    <3> QED BY <1>11, <3>2 DEF Unasked
  <2>2. rest # <<>> => rest[1] \notin Replied
    <3>1. rest # <<>> => 1 \in 1..Len(rest)
      BY <1>5
    <3> QED BY <2>1, <3>1 DEF Unasked, Asked, Replied, Reply, DONE
  <2> QED BY <2>1, <2>2 DEF Beyond
<1>13. View = more \o rest
  <2>1. Ahead = <<>>
    BY <1>1 DEF Ahead
  <2>2. View = line \o toServer
    BY <1>2, <1>11, <2>1, ViewType
  <2>3. Associates(line, front, rest)
    BY <1>3, <1>5, ConcatOfThree
  <2> QED BY <1>5, <2>2, <2>3 DEF Associates, more
<1>14. View' = more \o rest
  <2>1. Ahead' = <<>>
    BY <1>1 DEF Ahead
  <2>2. View' = (more \o <<>>) \o rest
    BY <1>1, <1>12, <2>1 DEF View
  <2>3. more \o <<>> = more
    BY <1>8
  <2> QED BY <2>2, <2>3
<1>15. PartInv'
  BY <1>1, <1>2, <1>9, <1>10, <1>13, <1>14, SameParts
<1>16. Types'
  BY <1>1, <1>2, <1>5, <1>8, <1>9 DEF Types
<1>17. AnswerInv'
  BY <1>1, <1>2, <1>9 DEF AnswerInv, Answers
<1>18. AwaitedInv'
  <2>1. host # "idling"
    BY <1>1, <1>2 DEF AwaitedInv
  <2> QED BY <1>1, <1>2, <1>9, <1>10, <2>1 DEF AwaitedInv
<1>19. ExchangeInv'
  BY <1>1, <1>2, <1>9 DEF ExchangeInv
<1>20. AnnouncedInv'
  <2> DEFINE due == IF host = "literal" THEN <<lits[segment].data>> ELSE <<>>
  <2>1. Announces(toServer, due)
    BY <1>2 DEF AnnouncedInv
  <2>2. Announces(rest, due)
    <3>1. Len(rest) = n - end
      BY <1>5
    <3>2. \A i \in 1..Len(rest) : /\ end+i \in 1..Len(toServer) /\ rest[i] = toServer[end+i]
                                  /\ end+i = Len(toServer) => i = Len(rest)
      BY <1>6, <1>7, <3>1 DEF n
    <3> QED BY <2>1, <3>2 DEF Announces
  <2>3. due' = due
    BY <1>9
  <2> HIDE DEF due
  <2>4. Announces(rest, due')
    BY <2>2, <2>3
  <2> QED BY <1>1, <2>4 DEF AnnouncedInv, due
<1>21. UnaskedInv'
  BY <1>1, <1>12 DEF UnaskedInv, NothingUnasked, Unasked, Asked
<1>22. FreeOf(Ends, line)
  BY <1>1, <1>2 DEF ModeInv
<1>23. ModeInv'
  <2>1. CASE toServer[end].t = "marker"
    <3>1. FreeOf(Ends, more)
      <4>1. toServer[end] \notin Ends
        BY <2>1, NotEnds
      <4>2. \A i \in 1..end : i = end \/ i \in 1..end-1
        BY <1>7
      <4>3. FreeOf(Ends, front)
        BY <1>4, <1>5, <1>6, <4>1, <4>2 DEF FreeOf
      <4> QED BY <1>3, <1>5, <1>22, <4>3, FreeOfConcat DEF more
    <3>2. more # <<>> /\ more[Len(more)] = toServer[end]
      <4>1. Len(more) = Len(line) + end /\ Len(line) \in Nat
        <5>1. line \in Seq(Wired) /\ front \in Seq(Wired)
          BY <1>3, <1>5
        <5>2. Len(line \o front) = Len(line) + Len(front) /\ Len(line) \in Nat
          BY <5>1
        <5>3. Len(front) = end
          BY <1>5
        <5> QED BY <5>2, <5>3 DEF more
      <4>2. more[Len(line) + end] = front[end]
        BY <1>3, <1>4, <1>5, <1>7 DEF more
      <4>3. front[end] = toServer[end]
        BY <1>4, <1>6
      <4>4. Len(more) # 0
        BY <1>4, <4>1
      <4> QED BY <4>1, <4>2, <4>3, <4>4
    <3>3. host = "literal" /\ end = n /\ toServer[end].n = lits[segment].data.len
      <4> DEFINE due == IF host = "literal" THEN <<lits[segment].data>> ELSE <<>>
      <4>1. end = n /\ due # <<>> /\ toServer[end].n = due[1].len
        BY <1>2, <1>4, <2>1 DEF AnnouncedInv, Announces, n
      <4> QED BY <4>1
    <3>4. rest = <<>>
      <4>1. Len(rest) = 0
        BY <1>3, <1>5, <3>3
      <4> QED BY <1>5, <4>1
    <3>5. OneLeft
      <4>1. View = more
        BY <1>8, <1>13, <3>4
      <4> QED BY <3>1, <3>2, <4>1, UnfinishedIsLast
    <3> QED BY <1>1, <1>9, <2>1, <3>1, <3>2, <3>3, <3>4, <3>5 DEF ModeInv, Size, OneLeft
  <2>2. CASE toServer[end].t # "marker"
    <3>1. EndedBy(Ends, more)
      <4>1. toServer[end] \in Ends
        BY <1>4, <2>2
      <4>2. \A i \in 1..end : i = end \/ i \in 1..end-1
        BY <1>7
      <4>3. \A i \in 1..end-1 : i # end /\ i \in 1..end
        BY <1>7
      <4>4. front # <<>>
        BY <1>4, <1>5
      <4>5. EndedBy(Ends, front)
        BY <1>4, <1>5, <1>6, <4>1, <4>2, <4>3, <4>4 DEF EndedBy
      <4> QED BY <1>3, <1>5, <1>22, <4>5, EndedConcat DEF more
    <3>2. ASSUME HeadingOf(more).cmd \in Exchanges
          PROVE  host = "exchange" /\ rest = <<>> /\ OneLeft
      BY <1>1, <1>5, <1>8, <1>13, <3>1, <3>2, ExchangeIsLast
    <3> QED BY <1>1, <1>9, <2>2, <3>1, <3>2 DEF ModeInv, OneLeft, HeadingOf
  <2> QED BY <1>4, <2>1, <2>2
<1> QED BY <1>9, <1>15, <1>16, <1>17, <1>18, <1>19, <1>20, <1>21, <1>23 DEF ExchangeIInv

-----------------------------------------------------------------------------
(* The server has read the line of a command to its end.                   *)

\* It is the first of the commands not yet served.
LEMMA FirstUnserved ==
  ASSUME ExchangeIInv, BuilderInv, mode \in {"complete", "idle", "reply"}
  PROVE  \E old \in Seq(Seq(Wired)) :
           /\ Parts(old, View, Current, Partial, asked, served)
           /\ old # <<>> /\ line = old[1] /\ Beyond(toServer) = FlattenSeq(Tail(old)) \o Current
           /\ Len(served) \in Nat /\ Len(asked) \in Nat /\ Len(served)+1 \in 1..Len(asked)
           /\ Whole(line, asked[Len(served)+1])
           /\ Partial => Len(served)+1 < Len(asked)
<1>1. Types /\ HostInv /\ ModeInv /\ PartInv
  BY DEF ExchangeIInv
<1>2. PICK old \in Seq(Seq(Wired)) : Parts(old, View, Current, Partial, asked, served)
  BY <1>1 DEF PartInv
<1>3. Current \in Seq(Wired) /\ FreeOf(Ends, Current)
  BY <1>1, CurrentType
<1>4. /\ EndedBy(Ends, line) /\ line \in Seq(Wired) /\ Beyond(toServer) \in Seq(Wired)
      /\ View = line \o Beyond(toServer)
  <2>1. Ahead = <<>>
    BY DEF Ahead
  <2> QED BY <1>1, <2>1, ViewType DEF ModeInv
<1> DEFINE t == Beyond(toServer)
<1> HIDE DEF t
<1>5. line \o t = FlattenSeq(old) \o Current /\ \A j \in 1..Len(old) : Whole(old[j], asked[Len(served)+j])
  BY <1>2, <1>4 DEF Parts, t
<1>6. old # <<>> /\ line = old[1] /\ t = FlattenSeq(Tail(old)) \o Current
  BY <1>3, <1>4, <1>5, FirstOfParts DEF Whole, t
<1>7. Len(old) \in Nat \ {0} /\ 1 \in 1..Len(old)
  BY <1>6
<1>8. Len(asked) \in Nat /\ Len(served) \in Nat
  BY <1>1 DEF Types
<1>9. Len(old) + (IF Partial THEN 1 ELSE 0) = Len(asked) - Len(served)
  BY <1>2 DEF Parts
<1>10. Len(served)+1 \in 1..Len(asked) /\ (Partial => Len(served)+1 < Len(asked))
  BY <1>7, <1>8, <1>9
<1>11. Whole(line, asked[Len(served)+1])
  BY <1>5, <1>6, <1>7
<1> QED BY <1>2, <1>6, <1>8, <1>10, <1>11 DEF t

\* An exchange is that of the command which the host has written last.
LEMMA ExchangeAtServer ==
  ASSUME ExchangeIInv, BuilderInv, mode = "complete", HeadingOf(line).cmd \in Exchanges
  PROVE  /\ HeadingOf(line).cmd = call.cmd /\ ~ Awaited /\ ~ Partial
         /\ host = "exchange" /\ toServer = <<>> /\ OneLeft
<1>1. Types /\ HostInv /\ ModeInv /\ AwaitedInv
  BY DEF ExchangeIInv
<1>2. host = "exchange" /\ toServer = <<>> /\ OneLeft
  BY <1>1 DEF ModeInv
<1>3. ~ Awaited /\ ~ Partial
  BY <1>1, <1>2 DEF AwaitedInv, Partial
<1>4. Whole(line, asked[Len(served)+1])
  BY FirstUnserved
<1>5. asked[Len(served)+1] = Requested
  BY <1>1, <1>2 DEF HostInv, Open, OneLeft
<1>6. HeadingOf(line).cmd = call.cmd
  BY <1>4, <1>5, WholeHeading DEF Requested, Command
<1> QED BY <1>2, <1>3, <1>6

\* What a continuation request leaves as it is.
LEMMA Asking ==
  ASSUME ExchangeIInv, BuilderInv, mode \in {"announced", "complete"}, ~ Awaited,
         NEW m \in {"payload", "idle", "reply"}, Ask(m),
         UNCHANGED builderVars, UNCHANGED hostVars, toServer' = toServer,
         challenges' \in 0..MaxChallenges
  PROVE  /\ Types' /\ HostInv' /\ TagInv' /\ AnswerInv' /\ ExchangeInv' /\ AnnouncedInv' /\ UnaskedInv'
         /\ Awaited' /\ Once(toClient)' /\ mode' = m
         /\ UNCHANGED <<line, served, host, segment, asked>>
         /\ UNCHANGED <<tagno, pc, call, next, main, lits, outcome, tags>>
         /\ UpTo(segment-1)' = UpTo(segment-1) /\ (Partial' <=> Partial) /\ Size' = Size
<1>1. Types /\ HostInv /\ TagInv /\ AnswerInv /\ AwaitedInv /\ ExchangeInv /\ AnnouncedInv /\ UnaskedInv
  BY DEF ExchangeIInv
<1>2. toClient' = Append(toClient, Continue) /\ mode' = m /\ UNCHANGED <<line, served, owed, untagged>>
  BY DEF Ask
<1>3. /\ HostInv' /\ TagInv' /\ UNCHANGED <<host, segment, asked, answered>>
      /\ UNCHANGED <<tagno, pc, call, next, main, lits, outcome, tags>>
      /\ UpTo(segment-1)' = UpTo(segment-1)
  BY <1>1, SameHost
<1>4. /\ toClient' \in Seq(Response) /\ Len(toClient') = Len(toClient) + 1 /\ Len(toClient) \in Nat
      /\ \A i \in 1..Len(toClient) : toClient'[i] = toClient[i]
      /\ toClient'[Len(toClient)+1] = Continue
      /\ Asks(toClient') /\ Once(toClient')
  <2>1. toClient \in Seq(Response) /\ Once(toClient) /\ Continue \in Response
    BY <1>1, Responses DEF Types, AwaitedInv
  <2> DEFINE t == Append(toClient, Continue)
  <2>2. /\ t \in Seq(Response) /\ Len(t) = Len(toClient) + 1 /\ Len(toClient) \in Nat
        /\ \A i \in 1..Len(toClient) : t[i] = toClient[i]
        /\ t[Len(toClient)+1] = Continue
        /\ (Asks(t) <=> Asks(toClient) \/ Continue = Continue)
        /\ Once(toClient) /\ (Continue = Continue => ~ Asks(toClient)) => Once(t)
    BY <2>1, Sending
  <2>3. toClient' = t
    BY <1>2
  <2> QED BY <2>1, <2>2, <2>3 DEF Awaited
<1>5. Types'
  BY <1>1, <1>2, <1>3, <1>4 DEF Types
<1>6. AnswerInv'
  <2>1. \A i \in 1..Len(toClient') : toClient'[i].k = "tagged" => Answers(toClient'[i].tag, toClient'[i].status)
    <3> TAKE i \in 1..Len(toClient')
    <3>1. CASE i \in 1..Len(toClient)
      BY <1>1, <1>4, <3>1 DEF AnswerInv
    <3>2. CASE i = Len(toClient) + 1
      BY <1>4, <3>2, Responses
    <3> QED BY <1>4, <3>1, <3>2
  <2> QED BY <1>1, <1>2, <1>3, <2>1 DEF AnswerInv, Answers
<1>7. ExchangeInv'
  BY <1>1, <1>2, <1>3 DEF ExchangeInv
<1>8. AnnouncedInv'
  BY <1>1, <1>3 DEF AnnouncedInv, Announces
<1>9. UnaskedInv'
  <2>1. Unasked(toServer)
    BY <1>1, NothingAsked
  <2> QED BY <2>1 DEF UnaskedInv, NothingUnasked, Unasked, Asked
<1>10. (Partial' <=> Partial) /\ Size' = Size
  BY <1>2, <1>3 DEF Partial, Size
<1>11. Awaited'
  BY <1>4 DEF Awaited
<1> QED BY <1>2, <1>3, <1>4, <1>5, <1>6, <1>7, <1>8, <1>9, <1>10, <1>11

LEMMA AcceptLiteralStep == ASSUME ExchangeIInv, BuilderInv, AcceptLiteral PROVE ExchangeIInv'
<1>1. /\ mode = "announced" /\ Ask("payload") /\ UNCHANGED builderVars /\ UNCHANGED hostVars
      /\ toServer' = toServer /\ challenges' = challenges
  BY DEF AcceptLiteral
<1>2. Types /\ HostInv /\ ModeInv /\ AwaitedInv
  BY DEF ExchangeIInv
<1>3. /\ host = "literal" /\ toServer = <<>> /\ OneLeft /\ Size = lits[segment].data.len
      /\ FreeOf(Ends, line) /\ line # <<>> /\ line[Len(line)].t = "marker" /\ line \in Seq(Wired)
  BY <1>1, <1>2 DEF ModeInv, Types
<1>4. ~ Awaited /\ challenges' \in 0..MaxChallenges
  BY <1>1, <1>2 DEF AwaitedInv, Types
<1>5. /\ Types' /\ HostInv' /\ TagInv' /\ AnswerInv' /\ ExchangeInv' /\ AnnouncedInv' /\ UnaskedInv'
      /\ Awaited' /\ Once(toClient)' /\ mode' = "payload"
      /\ UNCHANGED <<line, served, host, segment, asked>>
      /\ UNCHANGED <<tagno, pc, call, next, main, lits, outcome, tags>>
      /\ UpTo(segment-1)' = UpTo(segment-1) /\ (Partial' <=> Partial) /\ Size' = Size
  BY <1>1, <1>4, Asking
<1>6. View = line
  <2>1. Ahead = <<>> /\ Beyond(toServer) = <<>>
    BY <1>1, <1>3 DEF Ahead, Beyond
  <2>2. View = line \o <<>>
    BY <1>2, <2>1, ViewType
  <2> QED BY <1>3, <2>2
<1>7. Partial /\ line = Current
  BY <1>3, <1>6, UnfinishedIsLast
<1>8. UpTo(segment-1) \in Seq(Wired)
  BY <1>2, <1>3, LiteralNow
<1>9. line = UpTo(segment-1)
  <2>1. line = UpTo(segment-1) \o <<>>
    BY <1>4, <1>7 DEF Current
  <2> QED BY <1>8, <2>1
<1> DEFINE e == IF Size = 0 THEN Early ELSE <<>>
<1>10. Current' = UpTo(segment-1) \o e
  BY <1>3, <1>5, <1>7 DEF Current
<1>11. View' = Current'
  <2>1. Ahead' = e
    BY <1>5 DEF Ahead
  <2>2. Beyond(toServer') = <<>>
    BY <1>1, <1>3 DEF Beyond
  <2>3. View' = (line \o e) \o <<>>
    BY <1>5, <2>1, <2>2 DEF View
  <2>4. line \o e \in Seq(Wired)
    <3>1. e \in Seq(Wired)
      BY EmptyPayload, PayloadWired DEF Early
    <3> HIDE DEF e
    <3> QED BY <1>3, <3>1
  <2>5. View' = line \o e
    BY <2>3, <2>4
  <2> QED BY <1>9, <1>10, <2>5
<1>12. PartInv'
  <2> DEFINE none == <<>>
  <2>1. none \in Seq(Seq(Wired)) /\ Len(none) = 0
    OBVIOUS
  <2>2. Current' \in Seq(Wired)
    <3>1. e \in Seq(Wired)
      BY EmptyPayload, PayloadWired DEF Early
    <3> HIDE DEF e
    <3>2. UpTo(segment-1) \o e \in Seq(Wired)
      BY <1>8, <3>1
    <3> QED BY <1>10, <3>2 DEF e
  <2>3. View' = FlattenSeq(none) \o Current'
    <3>1. <<>> \o Current' = Current'
      BY <2>2
    <3> QED BY <1>11, <3>1, FlattenEmpty
  <2>4. Len(none) + 1 = Len(asked') - Len(served')
    BY <1>2, <1>3, <1>5, <2>1 DEF OneLeft, Types
  <2>5. Partial'
    BY <1>5, <1>7
  <2>6. Parts(none, View', Current', Partial', asked', served')
    <3>1. \A j \in 1..Len(none) : Whole(none[j], asked'[Len(served')+j])
      BY <2>1
    <3> HIDE DEF none
    <3> QED BY <2>3, <2>4, <2>5, <3>1 DEF Parts
  <2> QED BY <2>1, <2>6 DEF PartInv
<1>13. ModeInv'
  BY <1>3, <1>5 DEF ModeInv
<1>14. AwaitedInv'
  BY <1>1, <1>3, <1>5 DEF AwaitedInv, OneLeft
<1> QED BY <1>5, <1>12, <1>13, <1>14 DEF ExchangeIInv

\* A continuation request within an exchange.
LEMMA ExchangeAsked ==
  ASSUME ExchangeIInv, BuilderInv, mode = "complete", HeadingOf(line).cmd \in Exchanges,
         NEW m \in {"idle", "reply"}, Ask(m),
         UNCHANGED builderVars, UNCHANGED hostVars, toServer' = toServer,
         challenges' \in 0..MaxChallenges,
         m = "idle" => HeadingOf(line).cmd = "IDLE",
         m = "reply" => HeadingOf(line).cmd = "AUTHENTICATE"
  PROVE  ExchangeIInv'
<1>1. Types /\ HostInv /\ ModeInv /\ AwaitedInv /\ PartInv
  BY DEF ExchangeIInv
<1>2. /\ HeadingOf(line).cmd = call.cmd /\ ~ Awaited /\ ~ Partial
      /\ host = "exchange" /\ toServer = <<>> /\ OneLeft
  BY ExchangeAtServer
<1>3. /\ Types' /\ HostInv' /\ TagInv' /\ AnswerInv' /\ ExchangeInv' /\ AnnouncedInv' /\ UnaskedInv'
      /\ Awaited' /\ Once(toClient)' /\ mode' = m
      /\ UNCHANGED <<line, served, host, segment, asked>>
      /\ UNCHANGED <<tagno, pc, call, next, main, lits, outcome, tags>>
      /\ (Partial' <=> Partial) /\ Size' = Size
  BY <1>2, Asking
<1>4. ModeInv'
  <2>1. EndedBy(Ends, line)
    BY <1>1 DEF ModeInv
  <2> QED BY <1>2, <1>3, <2>1 DEF ModeInv, OneLeft
<1>5. AwaitedInv'
  BY <1>2, <1>3 DEF AwaitedInv, OneLeft
<1>6. PartInv'
  <2>1. View' = View
    BY <1>3 DEF View, Ahead, Beyond
  <2>2. Current = <<>> /\ Current' = <<>>
    BY <1>2, <1>3 DEF Current
  <2> QED BY <1>1, <1>3, <2>1, <2>2 DEF PartInv, Parts
<1> QED BY <1>3, <1>4, <1>5, <1>6 DEF ExchangeIInv

LEMMA AcceptIdleStep == ASSUME ExchangeIInv, BuilderInv, AcceptIdle PROVE ExchangeIInv'
<1>1. challenges' \in 0..MaxChallenges
  BY DEF AcceptIdle, ExchangeIInv, Types
<1>2. "IDLE" \in Exchanges
  BY DEF Exchanges
<1> QED BY <1>1, <1>2, ExchangeAsked DEF AcceptIdle

LEMMA ChallengeStep == ASSUME ExchangeIInv, BuilderInv, Challenge PROVE ExchangeIInv'
<1>1. challenges' \in 0..MaxChallenges
  BY NumberAssumption DEF Challenge, ExchangeIInv, Types
<1>2. "AUTHENTICATE" \in Exchanges
  BY DEF Exchanges
<1> QED BY <1>1, <1>2, ExchangeAsked DEF Challenge

-----------------------------------------------------------------------------
(* The server reads what it asked for, and serves.                         *)

\* Nothing the server has to ask for is behind the first token on its way.
LEMMA BehindFirst ==
  ASSUME Types, UnaskedInv, AnnouncedInv, toServer # <<>>
  PROVE  /\ toServer[1] \in Wired /\ Tail(toServer) \in Seq(Wired)
         /\ toServer = <<toServer[1]>> \o Tail(toServer) /\ Head(toServer) = toServer[1]
         /\ Unasked(Tail(toServer)) /\ Beyond(Tail(toServer)) = Tail(toServer)
         /\ Announces(Tail(toServer), IF host = "literal" THEN <<lits[segment].data>> ELSE <<>>)
<1> DEFINE rest == Tail(toServer)
           due  == IF host = "literal" THEN <<lits[segment].data>> ELSE <<>>
<1>1. toServer \in Seq(Wired)
  BY DEF Types
<1>2. /\ toServer[1] \in Wired /\ rest \in Seq(Wired) /\ toServer = <<toServer[1]>> \o rest
      /\ Len(rest) = Len(toServer) - 1
  BY <1>1, CutFirst
<1>3. Len(toServer) \in Nat \ {0} /\ \A i \in 1 .. Len(toServer)-1 : rest[i] = toServer[i+1]
  BY <1>1
<1>4. Head(toServer) = toServer[1]
  BY <1>1
<1> HIDE DEF rest, due
<1>5. \A i \in 1..Len(rest) : i+1 \in 1..Len(toServer) /\ i+1 # 1 /\ rest[i] = toServer[i+1]
  BY <1>2, <1>3
<1>6. Unasked(rest)
  BY <1>5 DEF UnaskedInv, NothingUnasked, Unasked, Asked
<1>7. Beyond(rest) = rest
  <2>1. rest # <<>> => 1 \in 1..Len(rest)
    BY <1>2
  <2>2. rest # <<>> => rest[1] \notin Replied
    BY <1>6, <2>1 DEF Unasked, Asked, Replied, Reply, DONE
  <2> QED BY <2>2 DEF Beyond
<1>8. Announces(rest, due)
  <2>1. Announces(toServer, due)
    BY DEF AnnouncedInv, due
  <2>2. \A i \in 1..Len(rest) : i+1 = Len(toServer) => i = Len(rest)
    BY <1>2, <1>3
  <2> QED BY <1>5, <2>1, <2>2 DEF Announces
<1> QED BY <1>2, <1>4, <1>6, <1>7, <1>8 DEF rest, due

LEMMA ReadPayloadStep == ASSUME ExchangeIInv, BuilderInv, ReadPayload PROVE ExchangeIInv'
<1>1. /\ mode = "payload" /\ mode' = "command" /\ UNCHANGED builderVars /\ UNCHANGED hostVars
      /\ UNCHANGED <<challenges, served, owed, untagged, toClient>>
  BY DEF ReadPayload
<1>2. /\ Types /\ HostInv /\ TagInv /\ AnswerInv /\ ModeInv /\ AwaitedInv /\ ExchangeInv /\ AnnouncedInv
      /\ UnaskedInv /\ PartInv
  BY DEF ExchangeIInv
<1>3. \/ Size = 0 /\ line' = Append(line, Payload(NoText)) /\ toServer' = toServer
      \/ Size > 0 /\ toServer # <<>> /\ line' = Append(line, Head(toServer)) /\ toServer' = Tail(toServer)
  BY DEF ReadPayload, Size
<1>4. /\ line \in Seq(Wired) /\ FreeOf(Ends, line) /\ line # <<>> /\ line[Len(line)].t = "marker"
      /\ toServer \in Seq(Wired)
  BY <1>1, <1>2 DEF ModeInv, Types
<1>5. /\ HostInv' /\ TagInv' /\ UNCHANGED <<host, segment, asked, answered>>
      /\ UNCHANGED <<tagno, pc, call, next, main, lits, outcome, tags>>
  BY <1>1, <1>2, SameHost
<1>6. Awaited' <=> Awaited
  BY <1>1 DEF Awaited
<1>7. AnswerInv'
  BY <1>1, <1>2, <1>5 DEF AnswerInv, Answers
<1>8. ExchangeInv'
  BY <1>1, <1>2, <1>5 DEF ExchangeInv
\* The token it reads, and the rest.
<1>9. ASSUME NEW token \in Wired, token \notin Ends, NEW rest \in Seq(Wired),
             line' = Append(line, token), toServer' = rest,
             Unasked(rest), AnnouncedInv', View = (line \o <<token>>) \o rest,
             Awaited => toServer' = <<>> /\ lits[segment].data.len = 0
      PROVE  ExchangeIInv'
  <2> DEFINE more == line \o <<token>>
  <2>1. <<token>> \in Seq(Wired)
    BY <1>9
  <2>2. more \in Seq(Wired)
    BY <1>4, <2>1
  <2>3. line' = more
    <3>1. Append(line, token) = line \o <<token>>
      BY <1>4, <1>9
    <3> QED BY <1>9, <3>1
  <2>4. FreeOf(Ends, more)
    <3>1. FreeOf(Ends, <<token>>)
      BY <1>9 DEF FreeOf
    <3> QED BY <1>4, <2>1, <3>1, FreeOfConcat
  <2> HIDE DEF more
  <2>5. View' = View
    <3>1. Ahead' = <<>>
      BY <1>1 DEF Ahead
    <3>2. rest # <<>> => rest[1] \notin Replied
      <4>1. rest # <<>> => 1 \in 1..Len(rest)
        BY <1>9
      <4> QED BY <1>9, <4>1 DEF Unasked, Asked, Replied, Reply, DONE
    <3>3. Beyond(toServer') = rest
      BY <1>9, <3>2 DEF Beyond
    <3>4. View' = (more \o <<>>) \o rest
      BY <2>3, <3>1, <3>3 DEF View
    <3>5. more \o <<>> = more
      BY <2>2
    <3> QED BY <1>9, <3>4, <3>5 DEF more
  <2>6. PartInv'
    BY <1>1, <1>2, <1>5, <1>6, <2>5, SameParts
  <2>7. Types'
    BY <1>1, <1>2, <1>5, <1>9, <2>2, <2>3 DEF Types
  <2>8. ModeInv'
    BY <1>1, <2>3, <2>4 DEF ModeInv
  <2>9. AwaitedInv'
    BY <1>1, <1>2, <1>5, <1>6, <1>9 DEF AwaitedInv, OneLeft
  <2>10. UnaskedInv'
    BY <1>9 DEF UnaskedInv, NothingUnasked, Unasked, Asked
  <2> QED BY <1>5, <1>7, <1>8, <1>9, <2>6, <2>7, <2>8, <2>9, <2>10 DEF ExchangeIInv
<1>10. CASE Size = 0 /\ line' = Append(line, Payload(NoText)) /\ toServer' = toServer
  <2>1. Unasked(toServer)
    <3>1. \A i \in 1..Len(toServer) : toServer[i].t # "payload"
      <4> SUFFICES ASSUME NEW i \in 1..Len(toServer), toServer[i].t = "payload" PROVE FALSE
        OBVIOUS
      <4>1. Size = toServer[i].of.len /\ toServer[i].of.len > 0
        BY <1>2 DEF UnaskedInv, NothingUnasked, Size
      <4> QED BY <1>10, <4>1
    <3> QED BY <1>1, <1>2, <3>1 DEF UnaskedInv, NothingUnasked, Unasked, Asked
  <2>2. Payload(NoText) \in Wired /\ Payload(NoText) \notin Ends
    BY EmptyPayload, PayloadWired
  <2>3. View = (line \o <<Payload(NoText)>>) \o toServer
    <3>1. toServer # <<>> => toServer[1] \notin Replied
      <4>1. toServer # <<>> => 1 \in 1..Len(toServer)
        BY <1>4
      <4> QED BY <2>1, <4>1 DEF Unasked, Asked, Replied, Reply, DONE
    <3>2. Ahead = <<Payload(NoText)>> /\ Beyond(toServer) = toServer
      BY <1>1, <1>10, <3>1 DEF Ahead, Early, Beyond
    <3> QED BY <3>2 DEF View
  <2>4. AnnouncedInv'
    BY <1>2, <1>5, <1>10 DEF AnnouncedInv, Announces
  <2>5. Awaited => toServer' = <<>> /\ lits[segment].data.len = 0
    BY <1>1, <1>2, <1>10 DEF AwaitedInv
  <2> QED BY <1>4, <1>9, <1>10, <2>1, <2>2, <2>3, <2>4, <2>5
<1>11. CASE Size > 0 /\ toServer # <<>> /\ line' = Append(line, Head(toServer)) /\ toServer' = Tail(toServer)
  <2> DEFINE token == toServer[1]
             rest  == Tail(toServer)
             due   == IF host = "literal" THEN <<lits[segment].data>> ELSE <<>>
  <2>1. /\ token \in Wired /\ rest \in Seq(Wired) /\ toServer = <<token>> \o rest
        /\ Head(toServer) = token /\ Unasked(rest) /\ Beyond(rest) = rest /\ Announces(rest, due)
    BY <1>2, <1>11, BehindFirst
  <2>2. ~ Awaited
    BY <1>2, <1>11 DEF AwaitedInv
  <2>3. token.t = "payload"
    BY <1>1, <1>2, <1>11, <2>2 DEF ModeInv
  <2>4. token \notin Ends
    BY <2>3, NotEnds
  <2>5. View = (line \o <<token>>) \o rest
    <3>1. Ahead = <<>>
      BY <1>11 DEF Ahead
    <3>2. token \notin Replied
      BY <2>3 DEF Replied, Reply, DONE
    <3>3. Beyond(toServer) = toServer
      BY <3>2 DEF Beyond
    <3>4. View = line \o toServer
      BY <1>2, <3>1, <3>3, ViewType
    <3>5. Associates(line, <<token>>, rest)
      <4>1. <<token>> \in Seq(Wired)
        BY <2>1
      <4> QED BY <1>4, <2>1, <4>1, ConcatOfThree
    <3> QED BY <2>1, <3>4, <3>5 DEF Associates
  <2>6. AnnouncedInv'
    <3>1. due' = due
      BY <1>5
    <3> HIDE DEF due, rest
    <3>2. Announces(rest, due')
      BY <2>1, <3>1
    <3> QED BY <1>11, <3>2 DEF AnnouncedInv, due, rest
  <2>7. line' = Append(line, token) /\ toServer' = rest
    BY <1>11, <2>1
  <2> HIDE DEF token, rest, due
  <2> QED BY <1>9, <2>1, <2>2, <2>4, <2>5, <2>6, <2>7
<1> QED BY <1>3, <1>10, <1>11

LEMMA ReadReplyStep == ASSUME ExchangeIInv, BuilderInv, ReadReply PROVE ExchangeIInv'
<1>1. /\ mode = "reply" /\ toServer # <<>> /\ toServer' = Tail(toServer) /\ mode' = "complete"
      /\ UNCHANGED builderVars /\ UNCHANGED hostVars
      /\ UNCHANGED <<line, challenges, served, owed, untagged, toClient>>
  BY DEF ReadReply
<1>2. /\ Types /\ HostInv /\ TagInv /\ AnswerInv /\ ModeInv /\ AwaitedInv /\ ExchangeInv /\ AnnouncedInv
      /\ UnaskedInv /\ PartInv
  BY DEF ExchangeIInv
<1>3. /\ HostInv' /\ TagInv' /\ UNCHANGED <<host, segment, asked, answered>>
      /\ UNCHANGED <<tagno, pc, call, next, main, lits, outcome, tags>>
  BY <1>1, <1>2, SameHost
<1>4. ~ Awaited /\ ~ Awaited'
  BY <1>1, <1>2 DEF AwaitedInv, Awaited
<1>5. host = "exchange" /\ OneLeft /\ toServer = <<Reply>> /\ EndedBy(Ends, line)
  BY <1>1, <1>2, <1>4 DEF ModeInv
<1>6. toServer' = <<>>
  BY <1>1, <1>5
<1>7. View' = View
  <2>1. Ahead = <<>> /\ Ahead' = <<>>
    BY <1>1 DEF Ahead
  <2>2. Beyond(toServer) = <<>> /\ Beyond(toServer') = <<>>
    BY <1>5, <1>6 DEF Beyond, Replied
  <2> QED BY <1>1, <2>1, <2>2 DEF View
<1>8. PartInv'
  BY <1>1, <1>2, <1>3, <1>4, <1>7, SameParts
<1>9. Types'
  <2>1. toServer' \in Seq(Wired)
    BY <1>6
  <2> QED BY <1>1, <1>2, <1>3, <2>1 DEF Types
<1>10. AnswerInv'
  BY <1>1, <1>2, <1>3 DEF AnswerInv, Answers
<1>11. ModeInv'
  BY <1>1, <1>3, <1>5, <1>6 DEF ModeInv, OneLeft
<1>12. AwaitedInv'
  BY <1>1, <1>2, <1>3, <1>4, <1>5 DEF AwaitedInv
<1>13. ExchangeInv'
  BY <1>1, <1>2, <1>3 DEF ExchangeInv
<1>14. AnnouncedInv' /\ UnaskedInv'
  <2>1. 1..Len(toServer') = {}
    BY <1>6
  <2> QED BY <2>1 DEF AnnouncedInv, Announces, UnaskedInv, NothingUnasked
<1> QED BY <1>3, <1>8, <1>9, <1>10, <1>11, <1>12, <1>13, <1>14 DEF ExchangeIInv

\* The command the server has carried out or refused is owed its answer.
LEMMA Serving ==
  ASSUME Types, AnswerInv, NEW did \in Requests \union {Refused}, NEW status \in {"OK", "NO"},
         Serve(did, status), Len(served) < Len(asked),
         HeadingOf(line).tag = asked[Len(served)+1].tag,
         UNCHANGED <<asked, answered, toClient>>
  PROVE  /\ AnswerInv' /\ served' \in Seq(Outcome) /\ Len(served') = Len(served) + 1
         /\ mode' = "command" /\ line' = <<>> /\ challenges' = 0 /\ UNCHANGED untagged
<1> DEFINE o == [did |-> did, status |-> status]
           n == Len(served)
<1>1. served \in Seq(Outcome) /\ n \in Nat /\ Len(asked) \in Nat /\ o \in Outcome
  BY DEF Types, Outcome
<1>2. /\ served' = Append(served, o)
      /\ owed' = owed \union {[tag |-> HeadingOf(line).tag, status |-> status, n |-> n + 1]}
      /\ mode' = "command" /\ line' = <<>> /\ challenges' = 0 /\ UNCHANGED untagged
  BY DEF Serve
<1>3. /\ served' \in Seq(Outcome) /\ Len(served') = n + 1
      /\ \A i \in 1..n : served'[i] = served[i]
      /\ served'[n+1] = o
  <2> DEFINE t == Append(served, o)
  <2> HIDE DEF o
  <2>1. /\ t \in Seq(Outcome) /\ Len(t) = n + 1
        /\ \A i \in 1..n : t[i] = served[i]
        /\ t[n+1] = o
    BY <1>1, AppendProperties
  <2>2. served' = t
    BY <1>2
  <2> QED BY <2>1, <2>2
<1> DEFINE Known(tag, st) == \E j \in 1..Len(served') : tag = asked'[j].tag /\ st = served'[j].status
<1>4. \A tag, st : Answers(tag, st) => Known(tag, st)
  <2>1. \A j \in 1..n : j \in 1..Len(served')
    BY <1>1, <1>3
  <2> QED BY <1>3, <2>1 DEF Answers
<1>5. Known(HeadingOf(line).tag, status)
  <2>1. n+1 \in 1..Len(served') /\ served'[n+1].status = status
    BY <1>1, <1>3
  <2> QED BY <2>1
<1>6. \A a \in owed' : a \in owed \/ (a.tag = HeadingOf(line).tag /\ a.status = status)
  BY <1>2
<1>7. AnswerInv'
  <2>1. Len(served') <= Len(asked') /\ 1..Len(served) \subseteq 1..Len(served')
    BY <1>1, <1>3
  <2>2. DOMAIN answered' \subseteq 1..Len(served')
    BY <2>1 DEF AnswerInv
  <2> HIDE DEF Known
  <2>3. \A a \in owed' : Known(a.tag, a.status)
    BY <1>4, <1>5, <1>6 DEF AnswerInv
  <2>4. \A i \in 1..Len(toClient') :
          toClient'[i].k = "tagged" => Known(toClient'[i].tag, toClient'[i].status)
    BY <1>4 DEF AnswerInv
  <2> QED BY <2>1, <2>2, <2>3, <2>4 DEF AnswerInv, Answers, Known
<1> QED BY <1>2, <1>3, <1>7

\* A command that the server has read to its end is served in its turn.
LEMMA ServeStep ==
  ASSUME ExchangeIInv, BuilderInv, mode \in {"complete", "idle"}, ~ Awaited, host # "idling",
         NEW did \in {Decoded(line), Refused}, NEW status \in {"OK", "NO"}, Serve(did, status),
         UNCHANGED builderVars, UNCHANGED hostVars, UNCHANGED toClient,
         NEW rest \in Seq(Wired), toServer' = rest, rest = Beyond(toServer),
         Unasked(rest), Beyond(rest) = rest,
         Announces(rest, IF host = "literal" THEN <<lits[segment].data>> ELSE <<>>)
  PROVE  ExchangeIInv'
<1>1. /\ Types /\ HostInv /\ TagInv /\ AnswerInv /\ ModeInv /\ AwaitedInv /\ ExchangeInv
  BY DEF ExchangeIInv
<1>2. PICK old \in Seq(Seq(Wired)) :
        /\ Parts(old, View, Current, Partial, asked, served)
        /\ old # <<>> /\ line = old[1] /\ rest = FlattenSeq(Tail(old)) \o Current
        /\ Len(served) \in Nat /\ Len(asked) \in Nat /\ Len(served)+1 \in 1..Len(asked)
        /\ Whole(line, asked[Len(served)+1])
        /\ Partial => Len(served)+1 < Len(asked)
  BY FirstUnserved
<1>3. /\ HostInv' /\ TagInv' /\ UNCHANGED <<host, segment, asked, answered>>
      /\ UNCHANGED <<tagno, pc, call, next, main, lits, outcome, tags>>
      /\ UpTo(segment-1)' = UpTo(segment-1)
  BY <1>1, SameHost
<1>4. did \in Requests \union {Refused}
  <2>1. asked[Len(served)+1] \in Requests
    BY <1>1, <1>2, ElementOfSeq DEF Types
  <2> QED BY <1>2, <2>1 DEF Whole
<1>5. /\ AnswerInv' /\ served' \in Seq(Outcome) /\ Len(served') = Len(served) + 1
      /\ mode' = "command" /\ line' = <<>> /\ challenges' = 0 /\ UNCHANGED untagged
  <2>1. HeadingOf(line).tag = asked[Len(served)+1].tag
    BY <1>2, WholeHeading
  <2>2. Len(served) < Len(asked)
    BY <1>2
  <2> QED BY <1>1, <1>3, <1>4, <2>1, <2>2, Serving
<1>6. ~ Awaited'
  BY DEF Awaited
<1>7. Types'
  <2>1. 0 \in 0..MaxChallenges
    BY NumberAssumption
  <2> QED BY <1>1, <1>3, <1>5, <2>1 DEF Types
<1>8. ModeInv'
  <2>1. FreeOf(Ends, line')
    BY <1>5 DEF FreeOf
  <2> QED BY <1>5, <2>1 DEF ModeInv
<1>9. AwaitedInv'
  BY <1>1, <1>3, <1>6 DEF AwaitedInv
<1>10. ExchangeInv'
  BY <1>1, <1>2, <1>3, <1>5 DEF ExchangeInv
<1>11. AnnouncedInv'
  <2> DEFINE due == IF host = "literal" THEN <<lits[segment].data>> ELSE <<>>
  <2>1. due' = due
    BY <1>3
  <2> HIDE DEF due
  <2>2. Announces(rest, due')
    BY <2>1 DEF due
  <2> QED BY <2>2 DEF AnnouncedInv, due
<1>12. UnaskedInv'
  BY DEF UnaskedInv, NothingUnasked, Unasked, Asked
<1>13. PartInv'
  <2>1. (Partial' <=> Partial)
    BY <1>2, <1>3, <1>5 DEF Partial
  <2>2. Current' = Current
    BY <1>3, <1>6, <2>1 DEF Current
  <2>3. View' = rest
    <3>1. Ahead' = <<>> /\ Beyond(toServer') = rest
      BY <1>5 DEF Ahead, Beyond
    <3>2. View' = (<<>> \o <<>>) \o rest
      BY <1>5, <3>1 DEF View
    <3>3. <<>> \o <<>> = <<>> /\ <<>> \o rest = rest
      OBVIOUS
    <3> QED BY <3>2, <3>3
  <2> DEFINE v == View
             c == Current
             p == Partial
             more == Tail(old)
  <2>4. p \in BOOLEAN /\ Parts(old, v, c, p, asked, served) /\ rest = FlattenSeq(more) \o c
    BY <1>2 DEF Partial
  <2> HIDE DEF v, c, p
  <2>5. more \in Seq(Seq(Wired)) /\ Parts(more, rest, c, p, asked, served')
    BY <1>2, <1>5, <2>4, PartsShift
  <2> HIDE DEF more
  <2> QED BY <1>3, <2>1, <2>2, <2>3, <2>5 DEF PartInv, Parts, c, p
<1> QED BY <1>3, <1>5, <1>7, <1>8, <1>9, <1>10, <1>11, <1>12, <1>13 DEF ExchangeIInv

\* Served from a line just completed.
LEMMA ServeComplete ==
  ASSUME ExchangeIInv, BuilderInv, mode = "complete",
         NEW did \in {Decoded(line), Refused}, NEW status \in {"OK", "NO"}, Serve(did, status),
         UNCHANGED builderVars, UNCHANGED hostVars, UNCHANGED <<toServer, toClient>>
  PROVE  ExchangeIInv'
<1>1. Types /\ UnaskedInv /\ AwaitedInv /\ AnnouncedInv
  BY DEF ExchangeIInv
<1>2. Unasked(toServer) /\ Beyond(toServer) = toServer /\ toServer \in Seq(Wired)
  BY <1>1, NothingAsked DEF Types
<1>3. ~ Awaited /\ host # "idling"
  BY <1>1 DEF AwaitedInv
<1> DEFINE s == toServer
<1>4. s \in Seq(Wired) /\ s = Beyond(toServer) /\ toServer' = s /\ Unasked(s) /\ Beyond(s) = s
      /\ Announces(s, IF host = "literal" THEN <<lits[segment].data>> ELSE <<>>)
  BY <1>1, <1>2 DEF AnnouncedInv
<1> HIDE DEF s
<1> QED BY <1>3, <1>4, ServeStep

LEMMA CarryoutStep == ASSUME ExchangeIInv, BuilderInv, Carryout PROVE ExchangeIInv'
BY ServeComplete DEF Carryout

LEMMA AuthenticatedStep == ASSUME ExchangeIInv, BuilderInv, Authenticated PROVE ExchangeIInv'
BY ServeComplete DEF Authenticated

LEMMA ReadDoneStep == ASSUME ExchangeIInv, BuilderInv, ReadDone PROVE ExchangeIInv'
<1>1. /\ mode = "idle" /\ toServer # <<>> /\ toServer' = Tail(toServer) /\ Serve(Decoded(line), "OK")
      /\ UNCHANGED builderVars /\ UNCHANGED hostVars /\ UNCHANGED toClient
  BY DEF ReadDone
<1>2. Types /\ UnaskedInv /\ ModeInv /\ AwaitedInv /\ AnnouncedInv
  BY DEF ExchangeIInv
<1>3. ~ Awaited /\ host # "idling"
  BY <1>1, <1>2 DEF AwaitedInv
<1>4. toServer[1] = DONE
  BY <1>1, <1>2, <1>3 DEF ModeInv
<1> DEFINE s == Tail(toServer)
<1>5. s \in Seq(Wired) /\ Unasked(s) /\ Beyond(s) = s
      /\ Announces(s, IF host = "literal" THEN <<lits[segment].data>> ELSE <<>>)
  BY <1>1, <1>2, BehindFirst
<1>6. s = Beyond(toServer) /\ toServer' = s
  BY <1>1, <1>4 DEF Beyond, Replied
<1> HIDE DEF s
<1> QED BY <1>1, <1>3, <1>5, <1>6, ServeStep

LEMMA RefuseStep == ASSUME ExchangeIInv, BuilderInv, Refuse PROVE ExchangeIInv'
<1>1. /\ mode = "announced" \/ mode = "complete"
      /\ Serve(Refused, "NO") /\ UNCHANGED builderVars /\ UNCHANGED hostVars
      /\ UNCHANGED <<toServer, toClient>>
  BY DEF Refuse
<1>2. CASE mode = "complete"
  BY <1>1, <1>2, ServeComplete
<1>3. CASE mode = "announced"
  <2>1. /\ Types /\ HostInv /\ TagInv /\ AnswerInv /\ ModeInv /\ AwaitedInv /\ ExchangeInv
    BY DEF ExchangeIInv
  <2>2. /\ host = "literal" /\ toServer = <<>> /\ OneLeft /\ FreeOf(Ends, line) /\ line # <<>>
        /\ line \in Seq(Wired) /\ ~ Awaited
    BY <1>3, <2>1 DEF ModeInv, AwaitedInv, Types
  <2>3. View = line
    <3>1. Ahead = <<>> /\ Beyond(toServer) = <<>>
      BY <1>3, <2>2 DEF Ahead, Beyond
    <3>2. View = line \o <<>>
      BY <2>1, <3>1, ViewType
    <3> QED BY <2>2, <3>2
  <2>4. Partial /\ line = Current
    BY <2>2, <2>3, UnfinishedIsLast
  <2>5. UpTo(segment-1) \in Seq(Wired) /\ UpTo(segment-1)[1] = Title /\ HasBuilt
    BY <2>1, <2>2, LiteralNow
  <2>6. line = UpTo(segment-1)
    <3>1. line = UpTo(segment-1) \o <<>>
      BY <2>2, <2>4 DEF Current
    <3> QED BY <2>5, <3>1
  <2>7. Len(served) \in Nat /\ Len(asked) \in Nat /\ Len(served) + 1 = Len(asked)
    BY <2>1, <2>2 DEF Types, OneLeft
  <2>8. HeadingOf(line).tag = asked[Len(served)+1].tag
    <3>1. HeadingOf(line) = Title
      BY <2>5, <2>6, TitleWired DEF HeadingOf
    <3>2. asked[Len(served)+1] = Requested
      BY <2>1, <2>2, <2>7 DEF HostInv, Open
    <3> QED BY <3>1, <3>2 DEF Title, Requested, Command
  <2>9. /\ HostInv' /\ TagInv' /\ UNCHANGED <<host, segment, asked, answered>>
        /\ UNCHANGED <<tagno, pc, call, next, main, lits, outcome, tags>>
    BY <1>1, <2>1, SameHost
  <2>10. /\ AnswerInv' /\ served' \in Seq(Outcome) /\ Len(served') = Len(served) + 1
         /\ mode' = "command" /\ line' = <<>> /\ challenges' = 0 /\ UNCHANGED untagged
    <3>1. Len(served) < Len(asked)
      BY <2>7
    <3> QED BY <1>1, <2>1, <2>8, <2>9, <3>1, Serving
  <2>11. ~ Awaited' /\ toServer' = <<>>
    BY <1>1, <2>2 DEF Awaited
  <2>12. Types'
    <3>1. 0 \in 0..MaxChallenges
      BY NumberAssumption
    <3> QED BY <1>1, <2>1, <2>9, <2>10, <3>1 DEF Types
  <2>13. ModeInv'
    <3>1. FreeOf(Ends, line')
      BY <2>10 DEF FreeOf
    <3> QED BY <2>10, <3>1 DEF ModeInv
  <2>14. AwaitedInv'
    BY <1>1, <2>1, <2>2, <2>9, <2>11 DEF AwaitedInv
  <2>15. ExchangeInv'
    BY <2>7, <2>9, <2>10 DEF ExchangeInv
  <2>16. AnnouncedInv' /\ UnaskedInv'
    <3>1. 1..Len(toServer') = {}
      BY <2>11
    <3> QED BY <3>1 DEF AnnouncedInv, Announces, UnaskedInv, NothingUnasked
  <2>17. PartInv'
    <3>1. ~ Partial' /\ Current' = <<>>
      BY <2>7, <2>9, <2>10 DEF Partial, Current
    <3>2. View' = <<>>
      <4>1. Ahead' = <<>> /\ Beyond(toServer') = <<>>
        BY <2>10, <2>11 DEF Ahead, Beyond
      <4>2. View' = (<<>> \o <<>>) \o <<>>
        BY <2>10, <4>1 DEF View
      <4> QED BY <4>2
    <3> DEFINE none == <<>>
    <3>3. none \in Seq(Seq(Wired)) /\ Len(none) = 0
      OBVIOUS
    <3>4. FlattenSeq(none) \o <<>> = <<>>
      BY FlattenEmpty
    <3>5. Len(none) + 0 = Len(asked') - Len(served')
      BY <2>7, <2>9, <2>10, <3>3
    <3>6. Parts(none, View', Current', Partial', asked', served')
      <4>1. \A j \in 1..Len(none) : Whole(none[j], asked'[Len(served')+j])
        BY <3>3
      <4> HIDE DEF none
      <4> QED BY <3>1, <3>2, <3>4, <3>5, <4>1 DEF Parts
    <3> QED BY <3>3, <3>6 DEF PartInv
  <2> QED BY <2>9, <2>10, <2>12, <2>13, <2>14, <2>15, <2>16, <2>17 DEF ExchangeIInv
<1> QED BY <1>1, <1>2, <1>3

-----------------------------------------------------------------------------
(* What the host writes.                                                   *)

\* A line is added to what is on its way.
LEMMA BeyondMore ==
  ASSUME NEW s \in Seq(Wired), NEW w \in Seq(Wired), w # <<>>, w[1] \notin Replied
  PROVE  /\ Beyond(s \o w) = Beyond(s) \o w /\ Beyond(s) \in Seq(Wired)
         /\ s # <<>> => s \o w # <<>> /\ (s \o w)[1] = s[1]
<1>1. CASE s = <<>>
  <2>1. s \o w = w /\ Beyond(s) = <<>> /\ <<>> \o w = w
    BY <1>1 DEF Beyond
  <2>2. Beyond(w) = w
    BY DEF Beyond
  <2> QED BY <1>1, <2>1, <2>2
<1>2. CASE s # <<>>
  <2> DEFINE first == <<s[1]>>
             rest  == Tail(s)
             b     == rest \o w
             u     == s \o w
  <2>1. first \in Seq(Wired) /\ rest \in Seq(Wired) /\ s = first \o rest
    BY <1>2, CutFirst
  <2>2. u \in Seq(Wired) /\ u # <<>> /\ u[1] = s[1]
    BY <1>2
  <2>3. Tail(u) = b
    <3>1. Len(s) \in Nat \ {0} /\ Len(rest) = Len(s) - 1 /\ \A i \in 1 .. Len(s)-1 : rest[i] = s[i+1]
      BY <1>2
    <3>2. /\ Len(u) = Len(s) + Len(w) /\ Len(w) \in Nat
          /\ \A i \in 1 .. Len(s) + Len(w) : u[i] = IF i <= Len(s) THEN s[i] ELSE w[i - Len(s)]
      OBVIOUS
    <3>3. Tail(u) \in Seq(Wired) /\ Len(Tail(u)) = Len(u) - 1 /\ \A i \in 1 .. Len(u)-1 : Tail(u)[i] = u[i+1]
      <4> HIDE DEF u
      <4> QED BY <2>2
    <3>4. /\ b \in Seq(Wired) /\ Len(b) = Len(rest) + Len(w)
          /\ \A i \in 1 .. Len(rest) + Len(w) : b[i] = IF i <= Len(rest) THEN rest[i] ELSE w[i - Len(rest)]
      <4> HIDE DEF rest
      <4> QED BY <2>1
    <3> DEFINE t == Tail(u)
    <3> HIDE DEF t, b, u, rest
    <3>5. Len(t) = Len(b)
      BY <3>1, <3>2, <3>3, <3>4 DEF t
    <3>6. \A i \in 1..Len(t) : t[i] = b[i]
      <4> TAKE i \in 1..Len(t)
      <4>1. i \in 1 .. Len(u)-1 /\ i \in 1 .. Len(rest) + Len(w) /\ i+1 \in 1 .. Len(s) + Len(w)
        BY <3>1, <3>2, <3>3, <3>4 DEF t
      <4>2. t[i] = u[i+1]
        BY <3>3, <4>1 DEF t
      <4>3. CASE i <= Len(rest)
        <5>1. i+1 <= Len(s) /\ i \in 1 .. Len(s)-1
          BY <3>1, <4>1, <4>3
        <5>2. u[i+1] = s[i+1] /\ b[i] = rest[i] /\ rest[i] = s[i+1]
          BY <3>1, <3>2, <3>4, <4>1, <4>3, <5>1
        <5> QED BY <4>2, <5>2
      <4>4. CASE ~ (i <= Len(rest))
        <5>1. ~ (i+1 <= Len(s)) /\ i+1 - Len(s) = i - Len(rest)
          BY <3>1, <4>1, <4>4
        <5>2. u[i+1] = w[i+1 - Len(s)] /\ b[i] = w[i - Len(rest)]
          BY <3>2, <3>4, <4>1, <4>4, <5>1
        <5> QED BY <4>2, <5>1, <5>2
      <4> QED BY <4>3, <4>4
    <3>7. t \in Seq(Wired) /\ b \in Seq(Wired)
      BY <3>3, <3>4 DEF t
    <3>8. t = b
      BY <3>5, <3>6, <3>7, SeqEqual
    <3> QED BY <3>8 DEF t
  <2> HIDE DEF u, b
  <2>4. CASE s[1] \in Replied
    <3>1. Beyond(u) = Tail(u) /\ Beyond(s) = rest
      BY <1>2, <2>2, <2>4 DEF Beyond
    <3>2. Beyond(u) = b /\ Beyond(s) = rest
      BY <2>3, <3>1
    <3> QED BY <2>1, <2>2, <3>2 DEF b, u
  <2>5. CASE s[1] \notin Replied
    <3>1. Beyond(u) = u /\ Beyond(s) = s
      BY <1>2, <2>2, <2>5 DEF Beyond
    <3> QED BY <2>2, <3>1 DEF u
  <2> QED BY <2>4, <2>5
<1> QED BY <1>1, <1>2

LEMMA AnnouncesLater ==
  ASSUME NEW s \in Seq(Wired), NEW w \in Seq(Wired), NEW due,
         \A i \in 1..Len(s) : s[i].t # "marker", Announces(w, due)
  PROVE  Announces(s \o w, due)
<1> DEFINE u == s \o w
<1>1. /\ Len(s) \in Nat /\ Len(w) \in Nat /\ Len(u) = Len(s) + Len(w)
      /\ \A i \in 1 .. Len(s) + Len(w) : u[i] = IF i <= Len(s) THEN s[i] ELSE w[i - Len(s)]
  OBVIOUS
<1> HIDE DEF u
<1>2. \A i \in 1..Len(u) : i \in 1..Len(s) \/ (i - Len(s) \in 1..Len(w) /\ ~ (i <= Len(s)))
  BY <1>1
<1>3. \A i \in 1..Len(u) : (i - Len(s) = Len(w)) => i = Len(u)
  BY <1>1
<1>4. ASSUME NEW i \in 1..Len(u), u[i].t = "marker"
      PROVE  i = Len(u) /\ due # <<>> /\ u[i].n = due[1].len
  <2>1. i \notin 1..Len(s)
    <3> SUFFICES ASSUME i \in 1..Len(s) PROVE FALSE
      OBVIOUS
    <3>1. i <= Len(s) /\ i \in 1 .. Len(s) + Len(w)
      BY <1>1
    <3>2. u[i] = s[i]
      BY <1>1, <3>1
    <3> QED BY <1>4, <3>2
  <2>2. i - Len(s) \in 1..Len(w) /\ ~ (i <= Len(s)) /\ i \in 1 .. Len(s) + Len(w)
    BY <1>1, <1>2, <2>1
  <2>3. u[i] = w[i - Len(s)]
    BY <1>1, <2>2
  <2>4. i - Len(s) = Len(w) /\ due # <<>> /\ w[i - Len(s)].n = due[1].len
    BY <1>4, <2>2, <2>3 DEF Announces
  <2> QED BY <1>3, <2>3, <2>4
<1> QED BY <1>4 DEF Announces, u

LEMMA UnaskedLater ==
  ASSUME NEW s \in Seq(Wired), NEW w \in Seq(Wired), Unasked(w)
  PROVE  \A i \in 1..Len(s \o w) :
           (i \in 1..Len(s) /\ (s \o w)[i] = s[i]) \/ (s \o w)[i].t \notin Asked
<1> DEFINE u == s \o w
<1>1. /\ Len(s) \in Nat /\ Len(w) \in Nat /\ Len(u) = Len(s) + Len(w)
      /\ \A i \in 1 .. Len(s) + Len(w) : u[i] = IF i <= Len(s) THEN s[i] ELSE w[i - Len(s)]
  OBVIOUS
<1> HIDE DEF u
<1>2. ASSUME NEW i \in 1..Len(u)
      PROVE  (i \in 1..Len(s) /\ u[i] = s[i]) \/ u[i].t \notin Asked
  <2>1. i \in 1 .. Len(s) + Len(w)
    BY <1>1
  <2>2. CASE i <= Len(s)
    BY <1>1, <2>1, <2>2
  <2>3. CASE ~ (i <= Len(s))
    <3>1. i - Len(s) \in 1..Len(w) /\ u[i] = w[i - Len(s)]
      BY <1>1, <2>1, <2>3
    <3> QED BY <3>1 DEF Unasked
  <2> QED BY <2>2, <2>3
<1> QED BY <1>2 DEF u

LEMMA EndIdleStep == ASSUME ExchangeIInv, BuilderInv, EndIdle PROVE ExchangeIInv'
<1>1. /\ host = "idling" /\ toServer' = Append(toServer, DONE) /\ host' = "free"
      /\ UNCHANGED builderVars
      /\ UNCHANGED <<segment, asked, answered, mode, line, challenges, served, owed, untagged, toClient>>
  BY DEF EndIdle, serverVars
<1>2. /\ Types /\ HostInv /\ TagInv /\ AnswerInv /\ ModeInv /\ AwaitedInv /\ PartInv
  BY DEF ExchangeIInv
<1>3. toServer = <<>> /\ OneLeft /\ mode = "idle" /\ ~ Awaited /\ ~ Awaited'
  BY <1>1, <1>2 DEF AwaitedInv, Awaited
<1>4. /\ toServer' = <<DONE>> /\ toServer' # <<>> /\ toServer'[1] = DONE /\ Len(toServer') = 1
      /\ DONE \in Wired /\ toServer' \in Seq(Wired)
  <2>1. DONE \in Wired
    BY DEF Wired
  <2> QED BY <1>1, <1>3, <2>1
<1>5. Types'
  BY <1>1, <1>2, <1>4 DEF Types, builderVars
<1>6. HostInv' /\ TagInv'
  BY <1>1, <1>2 DEF HostInv, TagInv, Open, builderVars
<1>7. AnswerInv'
  BY <1>1, <1>2 DEF AnswerInv, Answers
<1>8. ModeInv'
  BY <1>1, <1>2, <1>3, <1>4 DEF ModeInv
<1>9. AwaitedInv'
  BY <1>1, <1>2, <1>3 DEF AwaitedInv
<1>10. ExchangeInv'
  <2>1. Len(served) \in Nat /\ \A j \in Len(served)+1 .. Len(asked) : j = Len(served)+1
    BY <1>2, <1>3 DEF Types, OneLeft
  <2> QED BY <1>1, <1>3, <1>4, <2>1 DEF ExchangeInv
<1>11. AnnouncedInv' /\ UnaskedInv'
  <2>1. \A i \in 1..Len(toServer') : i = 1 /\ toServer'[i].t = "DONE"
    BY <1>4 DEF DONE
  <2> QED BY <1>1, <1>3, <2>1 DEF AnnouncedInv, Announces, UnaskedInv, NothingUnasked
<1>12. PartInv'
  <2>1. View' = View
    <3>1. Beyond(toServer) = <<>> /\ Beyond(toServer') = <<>>
      BY <1>3, <1>4 DEF Beyond, Replied
    <3>2. Ahead' = Ahead
      BY <1>1 DEF Ahead, Size
    <3> QED BY <1>1, <3>1, <3>2 DEF View
  <2>2. ~ Partial /\ ~ Partial' /\ Current = <<>> /\ Current' = <<>>
    BY <1>1 DEF Partial, Current
  <2> QED BY <1>1, <1>2, <2>1, <2>2 DEF PartInv, Parts
<1> QED BY <1>5, <1>6, <1>7, <1>8, <1>9, <1>10, <1>11, <1>12 DEF ExchangeIInv

\* The host has been asked to go on.
LEMMA Prompted ==
  ASSUME ExchangeIInv, Continued
  PROVE  /\ Types /\ HostInv /\ TagInv /\ AnswerInv /\ ModeInv /\ AwaitedInv /\ PartInv
         /\ Awaited /\ toServer = <<>> /\ OneLeft /\ ~ Awaited' /\ Once(toClient')
         /\ toClient' \in Seq(Response) /\ AnswerInv'
         /\ UNCHANGED builderVars
         /\ UNCHANGED <<tagno, pc, call, next, main, lits, outcome, tags>>
         /\ UNCHANGED <<asked, answered, mode, line, challenges, served, owed, untagged>>
         /\ Ahead' = Ahead /\ Size' = Size
<1>1. /\ Types /\ HostInv /\ TagInv /\ AnswerInv /\ ModeInv /\ AwaitedInv /\ PartInv
  BY DEF ExchangeIInv
<1>2. /\ toClient # <<>> /\ Head(toClient) = Continue /\ toClient' = Tail(toClient)
      /\ UNCHANGED builderVars
      /\ UNCHANGED <<asked, answered, mode, line, challenges, served, owed, untagged>>
  BY DEF Continued, serverVars
<1>3. toClient \in Seq(Response) /\ Once(toClient)
  BY <1>1 DEF Types, AwaitedInv
<1>4. /\ toClient' \in Seq(Response) /\ Head(toClient) = toClient[1] /\ 1 \in 1..Len(toClient)
      /\ \A i \in 1..Len(toClient') : i+1 \in 1..Len(toClient) /\ toClient'[i] = toClient[i+1]
      /\ ~ Asks(toClient') /\ Once(toClient')
  <2> DEFINE t == Tail(toClient)
  <2>1. /\ t \in Seq(Response) /\ Head(toClient) = toClient[1] /\ 1 \in 1..Len(toClient)
        /\ \A i \in 1..Len(t) : i+1 \in 1..Len(toClient) /\ t[i] = toClient[i+1]
        /\ (Asks(t) <=> Asks(toClient) /\ Head(toClient) # Continue) /\ Once(t)
    BY <1>2, <1>3, Receiving
  <2>2. toClient' = t /\ Head(toClient) = Continue
    BY <1>2
  <2> QED BY <2>1, <2>2
<1>5. Awaited /\ ~ Awaited'
  BY <1>2, <1>4 DEF Awaited, Asks
<1>6. toServer = <<>> /\ OneLeft
  BY <1>1, <1>5 DEF AwaitedInv
<1>7. AnswerInv'
  <2>1. \A i \in 1..Len(toClient') : toClient'[i].k = "tagged" => Answers(toClient'[i].tag, toClient'[i].status)
    BY <1>1, <1>4 DEF AnswerInv
  <2> QED BY <1>1, <1>2, <2>1 DEF AnswerInv, Answers
<1>8. Ahead' = Ahead /\ Size' = Size
  BY <1>2 DEF Ahead, Size
<1> QED BY <1>1, <1>2, <1>4, <1>5, <1>6, <1>7, <1>8 DEF builderVars

\* It writes the response to a challenge.
LEMMA ReplyStep ==
  ASSUME ExchangeIInv, BuilderInv, Continued, host = "exchange", call.cmd = "AUTHENTICATE",
         toServer' = Append(toServer, Reply), UNCHANGED <<segment, host>>
  PROVE  ExchangeIInv'
<1>1. /\ Types /\ HostInv /\ TagInv /\ AnswerInv /\ ModeInv /\ AwaitedInv /\ PartInv
      /\ Awaited /\ toServer = <<>> /\ OneLeft /\ ~ Awaited' /\ Once(toClient')
      /\ toClient' \in Seq(Response) /\ AnswerInv'
      /\ UNCHANGED builderVars
      /\ UNCHANGED <<tagno, pc, call, next, main, lits, outcome, tags>>
      /\ UNCHANGED <<asked, answered, mode, line, challenges, served, owed, untagged>>
      /\ Ahead' = Ahead /\ Size' = Size
  BY Prompted
<1>2. mode = "reply"
  BY <1>1 DEF AwaitedInv
<1>3. toServer' = <<Reply>> /\ Len(toServer') = 1 /\ toServer'[1] = Reply /\ toServer' \in Seq(Wired)
  <2>1. Reply \in Wired
    BY DEF Wired
  <2> QED BY <1>1, <2>1
<1>4. Types'
  BY <1>1, <1>3 DEF Types
<1>5. HostInv' /\ TagInv'
  <2>1. Requested' = Requested
    BY <1>1, SameCommand
  <2> QED BY <1>1, <2>1 DEF HostInv, TagInv
<1>6. ModeInv'
  BY <1>1, <1>2, <1>3 DEF ModeInv, OneLeft
<1>7. AwaitedInv'
  BY <1>1 DEF AwaitedInv
<1>8. ExchangeInv'
  BY <1>1, <1>2 DEF ExchangeIInv, ExchangeInv
<1>9. AnnouncedInv' /\ UnaskedInv'
  <2>1. \A i \in 1..Len(toServer') : i = 1 /\ toServer'[i].t = "reply"
    BY <1>3 DEF Reply
  <2> QED BY <1>1, <1>2, <2>1 DEF AnnouncedInv, Announces, UnaskedInv, NothingUnasked
<1>10. PartInv'
  <2>1. View' = View
    <3>1. Beyond(toServer) = <<>> /\ Beyond(toServer') = <<>>
      BY <1>1, <1>3 DEF Beyond, Replied
    <3> QED BY <1>1, <3>1 DEF View
  <2>2. ~ Partial /\ ~ Partial' /\ Current = <<>> /\ Current' = <<>>
    BY DEF Partial, Current
  <2> QED BY <1>1, <2>1, <2>2 DEF PartInv, Parts
<1> QED BY <1>1, <1>4, <1>5, <1>6, <1>7, <1>8, <1>9, <1>10 DEF ExchangeIInv

\* It idles.
LEMMA IdlingStep ==
  ASSUME ExchangeIInv, BuilderInv, Continued, host = "exchange", call.cmd = "IDLE",
         host' = "idling", UNCHANGED <<segment, toServer>>
  PROVE  ExchangeIInv'
<1>1. /\ Types /\ HostInv /\ TagInv /\ AnswerInv /\ ModeInv /\ AwaitedInv /\ PartInv
      /\ Awaited /\ toServer = <<>> /\ OneLeft /\ ~ Awaited' /\ Once(toClient')
      /\ toClient' \in Seq(Response) /\ AnswerInv'
      /\ UNCHANGED builderVars
      /\ UNCHANGED <<tagno, pc, call, next, main, lits, outcome, tags>>
      /\ UNCHANGED <<asked, answered, mode, line, challenges, served, owed, untagged>>
      /\ Ahead' = Ahead /\ Size' = Size
  BY Prompted
<1>2. mode = "idle"
  BY <1>1 DEF AwaitedInv
<1>3. Types'
  BY <1>1 DEF Types, Open
<1>4. HostInv' /\ TagInv'
  <2>1. Requested' = Requested
    BY <1>1, SameCommand
  <2> QED BY <1>1, <2>1 DEF HostInv, TagInv, Open
<1>5. ModeInv'
  BY <1>1, <1>2 DEF ModeInv
<1>6. AwaitedInv'
  BY <1>1, <1>2 DEF AwaitedInv, OneLeft
<1>7. ExchangeInv'
  BY <1>1 DEF ExchangeIInv, ExchangeInv, Open
<1>8. AnnouncedInv' /\ UnaskedInv'
  <2>1. 1..Len(toServer') = {}
    BY <1>1
  <2> QED BY <2>1 DEF AnnouncedInv, Announces, UnaskedInv, NothingUnasked
<1>9. PartInv'
  <2>1. View' = View
    BY <1>1 DEF View, Beyond
  <2>2. ~ Partial /\ ~ Partial' /\ Current = <<>> /\ Current' = <<>>
    BY DEF Partial, Current
  <2> QED BY <1>1, <2>1, <2>2 DEF PartInv, Parts
<1> QED BY <1>1, <1>3, <1>4, <1>5, <1>6, <1>7, <1>8, <1>9 DEF ExchangeIInv

\* It writes a literal and the line behind it, which is the rest of what the
\* server has read.
LEMMA LiteralWritten ==
  ASSUME ExchangeIInv, BuilderInv, Continued, host = "literal",
         toServer' = (IF lits[segment].data.len > 0 THEN <<Payload(lits[segment].data)>> ELSE <<>>)
                       \o lits[segment].tail
  PROVE  /\ View' = UpTo(segment) /\ toServer' \in Seq(Wired)
         /\ lits[segment].data.len > 0 => mode = "payload" /\ Size = lits[segment].data.len
<1> DEFINE u    == UpTo(segment-1)
           p    == <<Payload(lits[segment].data)>>
           tail == lits[segment].tail
           len  == lits[segment].data.len
<1>1. /\ Types /\ HostInv /\ ModeInv /\ AwaitedInv
      /\ Awaited /\ toServer = <<>> /\ OneLeft
      /\ UNCHANGED <<mode, line>> /\ Ahead' = Ahead
  BY Prompted
<1>2. /\ HasBuilt /\ segment \in 1..Len(lits) /\ len \in Nat /\ tail \in Seq(Wired)
      /\ lits[segment].data \in Str
      /\ len = 0 => Payload(lits[segment].data) = Payload(NoText)
      /\ u \in Seq(Wired) /\ u # <<>>
  BY <1>1, LiteralNow
<1>3. p \in Seq(Wired) /\ p # <<>> /\ p[1].t = "payload" /\ p[1] \notin Replied
  BY <1>2, PayloadWired DEF Replied, Reply, DONE
<1>4. /\ len > 0 => mode = "payload" /\ Size = len
      /\ len = 0 => mode = "command" \/ (mode = "payload" /\ Size = 0)
      /\ mode \in {"command", "payload"}
  BY <1>1, <1>2 DEF AwaitedInv
<1>5. FreeOf(Ends, line) /\ line \in Seq(Wired)
  BY <1>1, <1>4 DEF ModeInv, Types
<1>6. Ahead \in Seq(Wired) /\ FreeOf(Ends, Ahead) /\ (Ahead = <<>> \/ Ahead = Early)
  <2>1. Early \in Seq(Wired) /\ FreeOf(Ends, Early)
    BY EmptyPayload, PayloadWired DEF Early, FreeOf
  <2>2. FreeOf(Ends, <<>>) /\ <<>> \in Seq(Wired)
    BY DEF FreeOf
  <2> QED BY <2>1, <2>2 DEF Ahead
<1> DEFINE read == line \o Ahead
<1>7. read \in Seq(Wired) /\ FreeOf(Ends, read)
  BY <1>5, <1>6, FreeOfConcat
<1>8. View = read
  <2>1. Beyond(toServer) = <<>>
    BY <1>1 DEF Beyond
  <2>2. View = read \o <<>>
    BY <2>1 DEF View
  <2> HIDE DEF read
  <2> QED BY <1>7, <2>2
<1>9. Partial /\ read = Current
  BY <1>1, <1>7, <1>8, UnfinishedIsLast
<1>10. UpTo(segment) = u \o (p \o tail)
  BY <1>2, UpToSteps
<1> HIDE DEF read, u, p, tail, len
<1>11. Associates(u, p, tail)
  BY <1>2, <1>3, ConcatOfThree
<1>12. CASE len > 0
  <2>1. toServer' = p \o tail
    BY <1>12 DEF p, tail, len
  <2>2. p \o tail \in Seq(Wired) /\ p \o tail # <<>> /\ (p \o tail)[1] = p[1]
    BY <1>2, <1>3
  <2>3. Beyond(toServer') = p \o tail
    BY <1>3, <2>1, <2>2 DEF Beyond
  <2>4. View' = read \o (p \o tail)
    BY <1>1, <2>3 DEF View, read
  <2>5. read = u
    <3>1. ~ (len = 0)
      BY <1>12
    <3>2. Current = u \o <<>>
      BY <1>9, <3>1 DEF Current, u, len
    <3> QED BY <1>2, <1>9, <3>2
  <2> QED BY <1>4, <1>10, <1>12, <2>1, <2>2, <2>4, <2>5 DEF len
<1>13. CASE len = 0
  <2>1. toServer' = <<>> \o tail
    BY <1>13 DEF tail, len
  <2>2. toServer' = tail
    <3>1. <<>> \o tail = tail
      BY <1>2
    <3> QED BY <2>1, <3>1
  <2>3. Beyond(tail) = tail
    <3>1. Unasked(tail)
      BY <1>2, LinesOfCommand DEF tail
    <3>2. tail # <<>> => 1 \in 1..Len(tail)
      BY <1>2
    <3>3. tail # <<>> => tail[1] \notin Replied
      BY <3>1, <3>2 DEF Unasked, Asked, Replied, Reply, DONE
    <3> QED BY <3>3 DEF Beyond
  <2>4. View' = read \o tail
    BY <1>1, <2>2, <2>3 DEF View, read
  <2>5. read = u \o p
    <3>1. Early = p
      BY <1>2, <1>13 DEF Early, p
    <3>2. Current = u \o Early
      BY <1>1, <1>9, <1>13 DEF Current, u, len
    <3> QED BY <1>9, <3>1, <3>2
  <2>6. View' = u \o (p \o tail)
    BY <1>11, <2>4, <2>5 DEF Associates
  <2>7. ~ (len > 0)
    BY <1>13
  <2> QED BY <1>2, <1>10, <2>2, <2>6, <2>7 DEF len
<1>14. len = 0 \/ len > 0
  BY <1>2
<1> QED BY <1>12, <1>13, <1>14

\* The whole command reads as it was requested.
LEMMA WholeWritten ==
  ASSUME HasBuilt
  PROVE  /\ Whole(UpTo(Len(lits)), Requested) /\ UpTo(Len(lits)) \in Seq(Wired)
         /\ Requested \in Requests
<1>1. Len(lits) \in Nat /\ Len(lits) \in 0..Len(lits)
  BY BuiltTypes
<1>2. UpTo(Len(lits)) \in Seq(Wired) /\ UpTo(Len(lits))[1] = Title
  BY <1>1, UpToSteps
<1>3. Whole(UpTo(Len(lits)), Requested)
  BY <1>2, TitleWired, LineEndsOnce, ReadsAsRequested DEF Whole
<1>4. Requested \in Requests
  <2>1. tags \in Seq({Builder!TagText(n) : n \in 1..MaxTag})
    BY SameTagText DEF HasBuilt, BuilderInv, B!IInv, B!TypeOK
  <2>2. Len(tags) \in 1..Len(tags)
    BY <2>1 DEF HasBuilt
  <2>3. tags[Len(tags)] \in {Builder!TagText(n) : n \in 1..MaxTag}
    BY <2>1, <2>2, ElementOfSeq
  <2>4. PICK n \in 1..MaxTag : tags[Len(tags)] = Builder!TagText(n)
    BY <2>3
  <2>5. call \in Calls
    BY BuiltTypes
  <2> QED BY <2>4, <2>5 DEF Requested, Requests
<1> QED BY <1>2, <1>3, <1>4

\* Where the host is when it has written a line of its command.
LEMMA HostAfterLine ==
  ASSUME NEW left \in Nat
  PROVE  /\ AfterLine(left) = "literal" <=> left > 0
         /\ AfterLine(left) = "exchange" <=> left = 0 /\ call.cmd \in Exchanges
         /\ AfterLine(left) = "free" <=> left = 0 /\ call.cmd \notin Exchanges
         /\ AfterLine(left) \in {"literal", "exchange", "free"}
<1>1. left > 0 \/ left = 0
  OBVIOUS
<1>2. CASE left > 0
  <2>1. AfterLine(left) = "literal" /\ left # 0
    BY <1>2 DEF AfterLine
  <2> QED BY <1>2, <2>1
<1>3. CASE left = 0 /\ call.cmd \in Exchanges
  <2>1. AfterLine(left) = "exchange" /\ ~ (left > 0)
    BY <1>3 DEF AfterLine
  <2> QED BY <1>3, <2>1
<1>4. CASE left = 0 /\ call.cmd \notin Exchanges
  <2>1. AfterLine(left) = "free" /\ ~ (left > 0)
    BY <1>4 DEF AfterLine
  <2> QED BY <1>4, <2>1
<1> QED BY <1>1, <1>2, <1>3, <1>4

\* It writes a literal of the command it is in.
LEMMA LiteralStep ==
  ASSUME ExchangeIInv, BuilderInv, BuilderInv', Continued, host = "literal",
         toServer' = (IF lits[segment].data.len > 0 THEN <<Payload(lits[segment].data)>> ELSE <<>>)
                       \o lits[segment].tail,
         segment' = segment + 1, host' = AfterLine(Len(lits) - segment)
  PROVE  ExchangeIInv'
<1> DEFINE len  == lits[segment].data.len
           p    == IF len > 0 THEN <<Payload(lits[segment].data)>> ELSE <<>>
           tail == lits[segment].tail
<1>1. /\ Types /\ HostInv /\ TagInv /\ AnswerInv /\ ModeInv /\ AwaitedInv /\ PartInv
      /\ Awaited /\ toServer = <<>> /\ OneLeft /\ ~ Awaited' /\ Once(toClient')
      /\ toClient' \in Seq(Response) /\ AnswerInv'
      /\ UNCHANGED builderVars
      /\ UNCHANGED <<tagno, pc, call, next, main, lits, outcome, tags>>
      /\ UNCHANGED <<asked, answered, mode, line, challenges, served, owed, untagged>>
      /\ Ahead' = Ahead /\ Size' = Size
  BY Prompted
<1>2. /\ HasBuilt /\ segment \in 1..Len(lits) /\ Len(lits) \in Nat /\ len \in Nat
      /\ lits[segment].data \in Str /\ tail \in Seq(Wired)
  BY <1>1, LiteralNow
<1>3. /\ View' = UpTo(segment) /\ toServer' \in Seq(Wired)
      /\ len > 0 => mode = "payload" /\ Size = len
  BY LiteralWritten
<1>4. /\ host' = "literal" <=> segment < Len(lits)
      /\ host' = "exchange" <=> segment = Len(lits) /\ call.cmd \in Exchanges
      /\ host' \in {"literal", "exchange", "free"}
  <2>1. Len(lits) - segment \in Nat
    BY <1>2
  <2>2. (Len(lits) - segment > 0 <=> segment < Len(lits)) /\ (Len(lits) - segment = 0 <=> segment = Len(lits))
    BY <1>2
  <2> QED BY <2>1, <2>2, HostAfterLine
<1>5. asked # <<>> /\ asked[Len(asked)] = Requested /\ Requested' = Requested
      /\ Len(asked) \in Nat /\ Len(served) \in Nat /\ Len(asked) = Len(served) + 1
  <2>1. asked # <<>> /\ asked[Len(asked)] = Requested
    BY <1>1 DEF HostInv, Open
  <2>2. Requested' = Requested
    BY <1>1 DEF Requested
  <2> QED BY <1>1, <2>1, <2>2 DEF Types, OneLeft
<1>6. Types'
  <2>1. segment' \in 1 .. Len(lits') + 1
    BY <1>1, <1>2
  <2> QED BY <1>1, <1>3, <1>4, <2>1 DEF Types, Open
<1>7. HostInv'
  <2>1. outcome' = "built" /\ tags' # <<>> /\ asked' # <<>> /\ asked'[Len(asked')] = Requested'
    BY <1>1, <1>5 DEF HostInv, Open
  <2>2. host' = "literal" => segment' <= Len(lits')
    BY <1>1, <1>2, <1>4
  <2>3. pc' # "encode" /\ host' # "calling"
    BY <1>1, <1>4 DEF HostInv
  <2> QED BY <1>1, <1>4, <2>1, <2>2, <2>3 DEF HostInv
<1>8. TagInv'
  BY <1>1, <1>4 DEF TagInv
<1>9. len > 0 => toServer' # <<>> /\ toServer'[1] = Payload(lits[segment].data)
  <2> SUFFICES ASSUME len > 0 PROVE toServer' # <<>> /\ toServer'[1] = Payload(lits[segment].data)
    OBVIOUS
  <2> DEFINE one == <<Payload(lits[segment].data)>>
  <2>1. toServer' = one \o tail
    OBVIOUS
  <2>2. one \in Seq(Wired) /\ one # <<>> /\ one[1] = Payload(lits[segment].data)
    BY <1>2, PayloadWired
  <2> HIDE DEF one, tail
  <2>3. one \o tail # <<>> /\ (one \o tail)[1] = one[1]
    BY <1>2, <2>2
  <2> QED BY <2>1, <2>2, <2>3
<1>10. ModeInv'
  <2>1. mode \in {"command", "payload"}
    BY <1>1 DEF AwaitedInv
  <2>2. mode = "payload" /\ Size > 0 => toServer' # <<>> /\ toServer'[1].t = "payload"
    <3>1. mode = "payload" => Size = len
      BY <1>1 DEF AwaitedInv
    <3>2. lits[segment].data \in Str
      BY <1>2
    <3> HIDE DEF len
    <3> QED BY <1>9, <3>1, <3>2, PayloadWired
  <2> QED BY <1>1, <2>1, <2>2 DEF ModeInv
<1>11. AwaitedInv'
  BY <1>1, <1>4 DEF AwaitedInv
<1>12. ExchangeInv'
  <2>1. \A j \in Len(served)+1 .. Len(asked) : j = Len(asked)
    BY <1>5
  <2>2. asked[Len(asked)].cmd = call.cmd
    BY <1>5 DEF Requested, Command
  <2>3. call.cmd \in Exchanges => host' \in Open
    <3>1. segment < Len(lits) \/ segment = Len(lits)
      BY <1>2
    <3> QED BY <1>4, <3>1 DEF Open
  <2> QED BY <1>1, <2>1, <2>2, <2>3 DEF ExchangeInv
<1>13. p \in Seq(Wired) /\ Unasked(tail) /\ Announces(tail, Due(segment+1)) /\ toServer' = p \o tail
       /\ \A i \in 1..Len(p) : i = 1 /\ len > 0 /\ p[i] = Payload(lits[segment].data)
  <2>1. Unasked(tail) /\ Announces(tail, Due(segment+1))
    BY <1>2, LinesOfCommand
  <2>2. CASE len > 0
    <3>1. p = <<Payload(lits[segment].data)>>
      BY <2>2
    <3> QED BY <1>2, <2>1, <2>2, <3>1, PayloadWired
  <2>3. CASE ~ (len > 0)
    <3>1. p = <<>>
      BY <2>3
    <3>2. \A i \in 1..Len(p) : FALSE
      BY <3>1
    <3> QED BY <2>1, <3>1, <3>2
  <2> QED BY <2>2, <2>3
<1> HIDE DEF p, tail
<1>14. AnnouncedInv'
  <2>1. \A i \in 1..Len(p) : p[i].t # "marker"
    BY <1>13 DEF Payload
  <2>2. Announces(p \o tail, Due(segment+1))
    BY <1>2, <1>13, <2>1, AnnouncesLater
  <2>3. Due(segment+1) = IF host' = "literal" THEN <<lits'[segment'].data>> ELSE <<>>
    <3>1. segment+1 <= Len(lits) <=> segment < Len(lits)
      BY <1>2
    <3> QED BY <1>1, <1>4, <3>1 DEF Due
  <2> QED BY <1>13, <2>2, <2>3 DEF AnnouncedInv
<1>15. UnaskedInv'
  <2>1. \A i \in 1..Len(toServer') :
          (i \in 1..Len(p) /\ toServer'[i] = p[i]) \/ toServer'[i].t \notin Asked
    <3>1. \A i \in 1..Len(p \o tail) :
            (i \in 1..Len(p) /\ (p \o tail)[i] = p[i]) \/ (p \o tail)[i].t \notin Asked
      BY <1>2, <1>13, UnaskedLater
    <3> QED BY <1>13, <3>1
  <2>2. ASSUME NEW i \in 1..Len(toServer'), toServer'[i].t \in Asked
        PROVE  /\ i = 1 /\ mode = "payload" /\ Size = toServer'[i].of.len /\ toServer'[i].t = "payload"
               /\ toServer'[i].of.len > 0
    <3>1. i \in 1..Len(p) /\ toServer'[i] = p[i]
      BY <2>1, <2>2
    <3>2. i = 1 /\ len > 0 /\ toServer'[i] = Payload(lits[segment].data)
      BY <1>13, <3>1
    <3>3. toServer'[i].t = "payload" /\ toServer'[i].of = lits[segment].data
      <4>1. \A s : Payload(s).t = "payload" /\ Payload(s).of = s
        BY DEF Payload
      <4> QED BY <3>2, <4>1
    <3>4. toServer'[i].of.len = len
      BY <3>3
    <3> HIDE DEF len
    <3> QED BY <1>3, <3>2, <3>3, <3>4
  <2> QED BY <1>1, <2>2 DEF UnaskedInv, NothingUnasked, Asked, Size
<1>16. PartInv'
  <2> DEFINE w == UpTo(segment)
  <2>1. w \in Seq(Wired)
    <3>1. segment \in 0..Len(lits)
      BY <1>2
    <3> QED BY <1>2, <3>1, UpToSteps
  <2>2. UpTo(segment-1)' = w
    <3>1. Written(main)' = Written(main) /\ Literals' = Literals
      BY <1>1 DEF Written, Literals, B!Pieces, B!Behind, B!Payload
    <3>2. segment' - 1 = segment
      BY <1>2
    <3> QED BY <3>1, <3>2 DEF UpTo
  <2>3. View' = w
    BY <1>3
  <2>4. \A j : asked'[j] = asked[j]
    BY <1>1
  <2> HIDE DEF w
  <2>5. CASE host' = "literal"
    <3>1. Partial'
      BY <1>1, <1>5, <2>5 DEF Partial
    <3>2. Current' = w
      <4>1. Current' = w \o <<>>
        BY <1>1, <2>2, <3>1 DEF Current
      <4> QED BY <2>1, <4>1
    <3> DEFINE none == <<>>
    <3>3. none \in Seq(Seq(Wired)) /\ Len(none) = 0
      OBVIOUS
    <3>4. w = FlattenSeq(none) \o w
      <4>1. <<>> \o w = w
        BY <2>1
      <4> QED BY <4>1, FlattenEmpty
    <3>5. Len(none) + 1 = Len(asked') - Len(served')
      BY <1>1, <1>5, <3>3
    <3>6. Parts(none, View', Current', Partial', asked', served')
      <4>1. \A j \in 1..Len(none) : Whole(none[j], asked'[Len(served')+j])
        BY <3>3
      <4> HIDE DEF none
      <4> QED BY <2>3, <3>1, <3>2, <3>4, <3>5, <4>1 DEF Parts
    <3> QED BY <3>3, <3>6 DEF PartInv
  <2>6. CASE host' # "literal"
    <3>1. segment = Len(lits)
      BY <1>2, <1>4, <2>6
    <3>2. ~ Partial' /\ Current' = <<>>
      BY <2>6 DEF Partial, Current
    <3>3. Whole(w, Requested)
      BY <1>2, <3>1, WholeWritten DEF w
    <3> DEFINE one == <<w>>
    <3>4. one \in Seq(Seq(Wired)) /\ Len(one) = 1 /\ one[1] = w /\ FlattenSeq(one) = w
      <4> DEFINE W == Seq(Wired)
      <4>1. w \in W
        BY <2>1
      <4>2. FlattenSeq(one) = w
        BY <2>1, FlattenOne
      <4> HIDE DEF W
      <4>3. one \in Seq(W) /\ Len(one) = 1 /\ one[1] = w
        BY <4>1
      <4> QED BY <4>2, <4>3 DEF W
    <3> HIDE DEF one
    <3>5. View' = FlattenSeq(one) \o <<>>
      <4>1. w \o <<>> = w
        BY <2>1
      <4> QED BY <2>3, <3>4, <4>1
    <3>6. Len(one) + 0 = Len(asked') - Len(served')
      BY <1>1, <1>5, <3>4
    <3>7. \A j \in 1..Len(one) : Whole(one[j], asked'[Len(served')+j])
      <4>1. \A j \in 1..Len(one) : j = 1
        BY <3>4
      <4>2. asked'[Len(served')+1] = Requested
        BY <1>1, <1>5
      <4> QED BY <3>3, <3>4, <4>1, <4>2
    <3>8. Parts(one, View', Current', Partial', asked', served')
      BY <3>2, <3>5, <3>6, <3>7 DEF Parts
    <3> QED BY <3>4, <3>8 DEF PartInv
  <2> QED BY <2>5, <2>6
<1> QED BY <1>1, <1>6, <1>7, <1>8, <1>10, <1>11, <1>12, <1>14, <1>15, <1>16 DEF ExchangeIInv

LEMMA ContinuedStep == ASSUME ExchangeIInv, BuilderInv, BuilderInv', Continued PROVE ExchangeIInv'
<1>1. \/ /\ host = "literal"
         /\ toServer' = (IF lits[segment].data.len > 0 THEN <<Payload(lits[segment].data)>> ELSE <<>>)
                          \o lits[segment].tail
         /\ segment' = segment + 1 /\ host' = AfterLine(Len(lits) - segment)
      \/ /\ host = "exchange" /\ call.cmd = "AUTHENTICATE"
         /\ toServer' = Append(toServer, Reply) /\ UNCHANGED <<segment, host>>
      \/ /\ host = "exchange" /\ call.cmd = "IDLE"
         /\ host' = "idling" /\ UNCHANGED <<segment, toServer>>
  <2>1. CASE host = "literal"
    <3>1. /\ toServer' = toServer \o (IF lits[segment].data.len > 0 THEN <<Payload(lits[segment].data)>> ELSE <<>>)
                           \o lits[segment].tail
          /\ segment' = segment + 1 /\ host' = AfterLine(Len(lits) - segment)
      BY <2>1 DEF Continued
    <3>2. toServer = <<>>
      BY Prompted
    <3>3. lits[segment].data \in Str
      BY <2>1, LiteralNow DEF ExchangeIInv
    <3> DEFINE p == IF lits[segment].data.len > 0 THEN <<Payload(lits[segment].data)>> ELSE <<>>
    <3>4. p \in Seq(Wired)
      BY <3>3, PayloadWired
    <3>5. <<>> \o p = p
      <4> HIDE DEF p
      <4> QED BY <3>4
    <3> QED BY <2>1, <3>1, <3>2, <3>5
  <2>2. CASE host # "literal"
    BY <2>2 DEF Continued
  <2> QED BY <2>1, <2>2
<1> QED BY <1>1, LiteralStep, ReplyStep, IdlingStep

\* It writes the first line of the next command.
LEMMA WriteBytesStep == ASSUME ExchangeIInv, BuilderInv, WriteBytes PROVE ExchangeIInv'
<1> DEFINE w == Written(main)
<1>1. /\ host = "calling" /\ outcome = "built"
      /\ toServer' = toServer \o w /\ asked' = Append(asked, Requested) /\ host' = AfterLine(Len(lits))
      /\ UNCHANGED builderVars
      /\ UNCHANGED <<segment, answered, mode, line, challenges, served, owed, untagged, toClient>>
  BY DEF WriteBytes, Requested, serverVars
<1>2. UNCHANGED <<tagno, pc, call, next, main, lits, outcome, tags>>
  BY <1>1 DEF builderVars
<1>3. /\ Types /\ HostInv /\ TagInv /\ AnswerInv /\ ModeInv /\ AwaitedInv /\ ExchangeInv /\ AnnouncedInv
      /\ UnaskedInv /\ PartInv
  BY DEF ExchangeIInv
<1>4. HasBuilt /\ segment = 1 /\ Len(lits) \in Nat /\ tags # <<>>
  <2>1. HasBuilt /\ segment = 1 /\ tags # <<>>
    BY <1>1, <1>3 DEF HostInv, HasBuilt
  <2> QED BY <2>1, BuiltTypes
<1>5. /\ w \in Seq(Wired) /\ w # <<>> /\ w[1] = Title /\ Title.t = "heading"
      /\ Unasked(w) /\ Announces(w, Due(1)) /\ w = UpTo(0)
  BY <1>4, FirstLine, TitleWired, LinesOfCommand, UpToSteps
<1> HIDE DEF w
<1>6. w[1] \notin Replied
  BY <1>5 DEF Replied, Reply, DONE
<1>7. /\ host' = "literal" <=> Len(lits) > 0
      /\ host' = "exchange" <=> Len(lits) = 0 /\ call.cmd \in Exchanges
      /\ host' \in {"literal", "exchange", "free"}
  BY <1>1, <1>4, HostAfterLine
<1>8. /\ asked' \in Seq(Requests) /\ Len(asked') = Len(asked) + 1
      /\ \A i \in 1..Len(asked) : asked'[i] = asked[i]
      /\ asked'[Len(asked)+1] = Requested /\ Len(asked) \in Nat /\ Len(served) \in Nat
      /\ Len(served) <= Len(asked) /\ asked' # <<>>
  <2>1. asked \in Seq(Requests) /\ Requested \in Requests /\ Len(served) \in Nat
    BY <1>3, <1>4, WholeWritten DEF Types
  <2> DEFINE r == Requested
             t == Append(asked, r)
  <2> HIDE DEF r
  <2>2. /\ t \in Seq(Requests) /\ Len(t) = Len(asked) + 1 /\ Len(asked) \in Nat
        /\ \A i \in 1..Len(asked) : t[i] = asked[i]
        /\ t[Len(asked)+1] = r
    BY <2>1, AppendProperties DEF r
  <2>3. asked' = t
    BY <1>1 DEF r
  <2>4. asked' # <<>>
    BY <2>2, <2>3
  <2> QED BY <1>3, <2>1, <2>2, <2>3, <2>4 DEF r, AnswerInv
<1>9. ~ Awaited /\ ~ Awaited' /\ toServer \in Seq(Wired)
  BY <1>1, <1>3 DEF AwaitedInv, Awaited, Types
<1>10. /\ Beyond(toServer') = Beyond(toServer) \o w /\ Beyond(toServer) \in Seq(Wired)
       /\ toServer # <<>> => toServer' # <<>> /\ toServer'[1] = toServer[1]
       /\ toServer' \in Seq(Wired)
  <2>1. /\ Beyond(toServer \o w) = Beyond(toServer) \o w /\ Beyond(toServer) \in Seq(Wired)
        /\ toServer # <<>> => toServer \o w # <<>> /\ (toServer \o w)[1] = toServer[1]
    BY <1>5, <1>6, <1>9, BeyondMore
  <2>2. toServer \o w \in Seq(Wired)
    BY <1>5, <1>9
  <2> DEFINE s == toServer \o w
  <2>3. toServer' = s
    BY <1>1
  <2> QED BY <2>1, <2>2, <2>3
<1>11. Types'
  BY <1>1, <1>2, <1>3, <1>7, <1>8, <1>10 DEF Types, Open
<1>12. Requested' = Requested
  BY <1>2 DEF Requested
<1>13. HostInv'
  <2>1. pc # "encode"
    BY <1>1 DEF BuilderInv, B!WireInv
  <2>2. asked'[Len(asked')] = Requested'
    BY <1>8, <1>12
  <2> QED BY <1>1, <1>2, <1>4, <1>7, <1>8, <2>1, <2>2 DEF HostInv
<1>14. TagInv'
  <2>1. Requested.tag = tags[Len(tags)]
    BY DEF Requested, Command
  <2>2. Len(tags) \in Nat /\ Len(tags) \in 1..Len(tags)
    <3>1. tags \in Seq({B!TagText(n) : n \in 1..MaxTag})
      BY DEF BuilderInv, B!IInv, B!TypeOK
    <3> QED BY <1>4, <3>1
  <2>3. \A j \in 1..Len(asked) : \E n \in 1..Len(tags) : asked[j].tag = tags[n] /\ n < Len(tags)
    BY <1>1, <1>3 DEF TagInv
  <2>4. \A j \in 1..Len(asked) : asked[j].tag # Requested.tag
    <3> TAKE j \in 1..Len(asked)
    <3>1. PICK n \in 1..Len(tags) : asked[j].tag = tags[n] /\ n < Len(tags)
      BY <2>3
    <3>2. n # Len(tags)
      BY <2>2, <3>1
    <3>3. tags[n] # tags[Len(tags)]
      BY <2>2, <3>2 DEF BuilderInv, B!TagsDistinct
    <3> QED BY <2>1, <3>1, <3>3
  <2>5. \A j \in 1..Len(asked') : j \in 1..Len(asked) \/ j = Len(asked)+1
    BY <1>8
  <2>6. \A j \in 1..Len(asked') : \E n \in 1..Len(tags) : asked'[j].tag = tags[n]
    BY <1>8, <2>1, <2>2, <2>3, <2>5
  <2>7. \A i, j \in 1..Len(asked') : i # j => asked'[i].tag # asked'[j].tag
    <3>1. \A i, j \in 1..Len(asked) : i # j => asked[i].tag # asked[j].tag
      BY <1>3 DEF TagInv
    <3> QED BY <1>8, <2>4, <2>5, <3>1
  <2> QED BY <1>2, <1>7, <2>6, <2>7 DEF TagInv
<1>15. AnswerInv'
  <2>1. \A j \in 1..Len(served) : j \in 1..Len(asked)
    BY <1>8
  <2> DEFINE Known(tag, status) ==
               \E j \in 1..Len(served) : tag = asked'[j].tag /\ status = served[j].status
  <2>2. \A tag, status : Answers(tag, status) => Known(tag, status)
    BY <1>8, <2>1 DEF Answers
  <2>3. Len(served) <= Len(asked')
    BY <1>8
  <2> HIDE DEF Known
  <2>4. /\ \A a \in owed : Known(a.tag, a.status)
        /\ \A i \in 1..Len(toClient) : toClient[i].k = "tagged" => Known(toClient[i].tag, toClient[i].status)
        /\ DOMAIN answered \subseteq 1..Len(served)
    BY <1>3, <2>2 DEF AnswerInv
  <2> QED BY <1>1, <2>3, <2>4 DEF AnswerInv, Answers, Known
<1>16. ModeInv'
  <2>1. mode \notin {"announced", "reply"} /\ ~ (mode = "complete" /\ HeadingOf(line).cmd \in Exchanges)
    BY <1>1, <1>3 DEF ModeInv
  <2>2. mode = "payload" /\ Size > 0 => toServer' # <<>> /\ toServer'[1].t = "payload"
    BY <1>3, <1>9, <1>10 DEF ModeInv
  <2>3. mode = "idle" => toServer' # <<>> /\ toServer'[1] = DONE
    BY <1>1, <1>3, <1>9, <1>10 DEF ModeInv
  <2> QED BY <1>1, <1>3, <2>1, <2>2, <2>3 DEF ModeInv, Size, HeadingOf
<1>17. AwaitedInv'
  BY <1>1, <1>3, <1>7, <1>9 DEF AwaitedInv
<1>18. ExchangeInv'
  <2> SUFFICES ASSUME NEW j \in Len(served)+1 .. Len(asked'), asked'[j].cmd \in Exchanges
               PROVE  \/ j = Len(asked') /\ host' \in Open
                      \/ j = Len(served) + 1 /\ mode = "idle" /\ toServer' # <<>> /\ toServer'[1] = DONE
    BY <1>1 DEF ExchangeInv
  <2>1. CASE j \in Len(served)+1 .. Len(asked)
    <3>1. j \in 1..Len(asked)
      BY <1>8, <2>1
    <3>2. asked[j].cmd \in Exchanges
      BY <1>8, <3>1
    <3>3. j = Len(served) + 1 /\ mode = "idle" /\ toServer # <<>> /\ toServer[1] = DONE
      BY <1>1, <1>3, <2>1, <3>2 DEF ExchangeInv, Open
    <3> QED BY <1>10, <3>3
  <2>2. CASE j = Len(asked)+1
    <3>1. call.cmd \in Exchanges
      BY <1>8, <2>2 DEF Requested, Command
    <3>2. host' \in Open
      <4>1. Len(lits) > 0 \/ Len(lits) = 0
        BY <1>4
      <4> QED BY <1>7, <3>1, <4>1 DEF Open
    <3> QED BY <1>8, <2>2, <3>2
  <2>3. j \in Len(served)+1 .. Len(asked) \/ j = Len(asked)+1
    BY <1>8
  <2> QED BY <2>1, <2>2, <2>3
<1>19. AnnouncedInv'
  <2>1. \A i \in 1..Len(toServer) : toServer[i].t # "marker"
    BY <1>1, <1>3 DEF AnnouncedInv, Announces
  <2>2. Announces(toServer \o w, Due(1))
    BY <1>5, <1>9, <2>1, AnnouncesLater
  <2>3. Due(1) = IF host' = "literal" THEN <<lits'[segment'].data>> ELSE <<>>
    <3>1. 1 <= Len(lits) <=> Len(lits) > 0
      BY <1>4
    <3> QED BY <1>1, <1>2, <1>4, <1>7, <3>1 DEF Due
  <2> QED BY <1>1, <2>2, <2>3 DEF AnnouncedInv
<1>20. UnaskedInv'
  <2>1. \A i \in 1..Len(toServer') :
          (i \in 1..Len(toServer) /\ toServer'[i] = toServer[i]) \/ toServer'[i].t \notin Asked
    <3>1. \A i \in 1..Len(toServer \o w) :
            (i \in 1..Len(toServer) /\ (toServer \o w)[i] = toServer[i]) \/ (toServer \o w)[i].t \notin Asked
      BY <1>5, <1>9, UnaskedLater
    <3> QED BY <1>1, <3>1
  <2> QED BY <1>1, <1>3, <2>1 DEF UnaskedInv, NothingUnasked, Asked
<1>21. PartInv'
  <2>1. ~ Partial /\ Current = <<>>
    BY <1>1 DEF Partial, Current
  <2>2. PICK old \in Seq(Seq(Wired)) : Parts(old, View, <<>>, Partial, asked, served)
    BY <1>3, <2>1 DEF PartInv
  <2> DEFINE f == FlattenSeq(old)
  <2>3. f \in Seq(Wired) /\ View = f \o <<>> /\ View = f
    <3>1. f \in Seq(Wired)
      BY FlattenType
    <3>2. View = f \o <<>>
      BY <2>2 DEF Parts
    <3> HIDE DEF f
    <3> QED BY <3>1, <3>2
  <2>4. /\ Len(old) + 0 = Len(asked) - Len(served) /\ Len(old) \in Nat
        /\ \A j \in 1..Len(old) : Whole(old[j], asked[Len(served)+j])
    BY <2>1, <2>2 DEF Parts
  <2>5. View' = f \o w
    <3> DEFINE read == line \o Ahead
               b    == Beyond(toServer)
    <3>1. Ahead' = Ahead
      BY <1>1 DEF Ahead, Size
    <3>2. View' = read \o (b \o w) /\ View = read \o b
      BY <1>1, <1>10, <3>1 DEF View
    <3>3. read \in Seq(Wired) /\ b \in Seq(Wired)
      BY <1>3, ViewType
    <3> HIDE DEF read, b
    <3>4. Associates(read, b, w)
      BY <1>5, <3>3, ConcatOfThree
    <3> QED BY <2>3, <3>2, <3>4 DEF Associates
  <2>6. \A j \in 1..Len(old) : Whole(old[j], asked'[Len(served)+j])
    <3>1. \A j \in 1..Len(old) : Len(served)+j \in 1..Len(asked)
      BY <1>8, <2>4
    <3> QED BY <1>8, <2>4, <3>1
  <2> HIDE DEF f
  <2>7. CASE host' = "literal"
    <3>1. Partial'
      BY <1>1, <1>8, <2>7 DEF Partial
    <3>2. Current' = w
      <4>1. UpTo(segment-1)' = UpTo(segment-1) /\ segment-1 = 0
        BY <1>1, <1>4, SameCommand
      <4>2. UpTo(segment-1)' = w
        BY <1>5, <4>1
      <4>3. Current' = w \o <<>>
        BY <1>9, <3>1, <4>2 DEF Current
      <4> QED BY <1>5, <4>3
    <3>3. Len(old) + 1 = Len(asked') - Len(served')
      BY <1>1, <1>8, <2>4
    <3>4. Parts(old, View', Current', Partial', asked', served')
      BY <1>1, <2>5, <2>6, <3>1, <3>2, <3>3 DEF Parts, f
    <3> QED BY <3>4 DEF PartInv
  <2>8. CASE host' # "literal"
    <3>1. ~ Partial' /\ Current' = <<>>
      BY <2>8 DEF Partial, Current
    <3>2. Len(lits) = 0
      BY <1>4, <1>7, <2>8
    <3>3. Whole(w, Requested)
      BY <1>4, <1>5, <3>2, WholeWritten
    <3> DEFINE all == Append(old, w)
    <3>4. /\ all \in Seq(Seq(Wired)) /\ Len(all) = Len(old) + 1
          /\ \A j \in 1..Len(old) : all[j] = old[j]
          /\ all[Len(old)+1] = w /\ FlattenSeq(all) = f \o w
      <4> DEFINE W == Seq(Wired)
      <4>1. w \in W /\ old \in Seq(W)
        BY <1>5
      <4>2. FlattenSeq(all) = f \o w
        BY <1>5, FlattenAppend DEF f
      <4> HIDE DEF W
      <4>3. /\ all \in Seq(W) /\ Len(all) = Len(old) + 1
            /\ \A j \in 1..Len(old) : all[j] = old[j]
            /\ all[Len(old)+1] = w
        BY <4>1, AppendProperties
      <4> QED BY <4>2, <4>3 DEF W
    <3> HIDE DEF all
    <3>5. View' = FlattenSeq(all) \o <<>>
      <4>1. f \o w \in Seq(Wired)
        BY <1>5, <2>3
      <4> DEFINE fw == f \o w
      <4>2. fw \o <<>> = fw
        <5> HIDE DEF fw
        <5> QED BY <4>1 DEF fw
      <4> QED BY <2>5, <3>4, <4>2
    <3>6. Len(all) + 0 = Len(asked') - Len(served')
      BY <1>1, <1>8, <2>4, <3>4
    <3>7. \A j \in 1..Len(all) : Whole(all[j], asked'[Len(served')+j])
      <4> TAKE j \in 1..Len(all)
      <4>1. CASE j \in 1..Len(old)
        BY <1>1, <2>6, <3>4, <4>1
      <4>2. CASE j = Len(old)+1
        <5>1. Len(served') + j = Len(asked)+1
          <6>1. Len(served') = Len(served) /\ Len(served) \in Nat /\ Len(asked) \in Nat
            BY <1>1, <1>8
          <6>2. Len(old) = Len(asked) - Len(served) /\ Len(old) \in Nat
            BY <2>4
          <6> HIDE DEF f
          <6> QED BY <4>2, <6>1, <6>2
        <5> QED BY <1>8, <3>3, <3>4, <4>2, <5>1
      <4>3. j \in 1..Len(old) \/ j = Len(old)+1
        BY <2>4, <3>4
      <4> QED BY <4>1, <4>2, <4>3
    <3>8. Parts(all, View', Current', Partial', asked', served')
      BY <3>1, <3>5, <3>6, <3>7 DEF Parts
    <3> QED BY <3>4, <3>8 DEF PartInv
  <2> QED BY <2>7, <2>8
<1> QED BY <1>11, <1>13, <1>14, <1>15, <1>16, <1>17, <1>18, <1>19, <1>20, <1>21 DEF ExchangeIInv

-----------------------------------------------------------------------------
(* The invariant holds of every behaviour.                                 *)

LEMMA InitStep == Init => ExchangeIInv
<1> SUFFICES ASSUME Init PROVE ExchangeIInv
  OBVIOUS
<1>1. /\ host = "free" /\ segment = 1 /\ asked = <<>> /\ answered = <<>>
      /\ toServer = <<>> /\ toClient = <<>>
      /\ mode = "command" /\ line = <<>> /\ challenges = 0 /\ served = <<>> /\ owed = {} /\ untagged = 0
  BY DEF Init
<1>2. pc = "idle" /\ lits = <<>>
  BY DEF Init, Builder!Init
<1>3. Len(<<>>) = 0 /\ 1..0 = {}
  OBVIOUS
<1>4. ~ Awaited /\ Once(toClient)
  BY <1>1, <1>3 DEF Awaited, Asks, Once
<1>5. Types
  <2>1. segment \in 1 .. Len(lits) + 1
    BY <1>1, <1>2
  <2>2. 0 \in 0..MaxChallenges /\ 0 \in 0..MaxUntagged
    BY NumberAssumption
  <2>3. \A S : <<>> \in Seq(S)
    OBVIOUS
  <2> QED BY <1>1, <2>1, <2>2, <2>3 DEF Types
<1>6. HostInv /\ TagInv
  BY <1>1, <1>2, <1>3 DEF HostInv, TagInv, Open
<1>7. AnswerInv
  <2>1. DOMAIN answered = {}
    BY <1>1
  <2> QED BY <1>1, <1>3, <2>1 DEF AnswerInv
<1>8. ModeInv
  <2>1. FreeOf(Ends, line)
    BY <1>1, <1>3 DEF FreeOf
  <2> QED BY <1>1, <2>1 DEF ModeInv
<1>9. AwaitedInv
  BY <1>1, <1>4 DEF AwaitedInv
<1>10. ExchangeInv
  <2>1. Len(served)+1 .. Len(asked) = {}
    BY <1>1, <1>3
  <2> QED BY <2>1 DEF ExchangeInv
<1>11. AnnouncedInv /\ UnaskedInv
  BY <1>1, <1>3 DEF AnnouncedInv, Announces, UnaskedInv, NothingUnasked
<1>12. PartInv
  <2> DEFINE none == <<>>
  <2>1. none \in Seq(Seq(Wired)) /\ Len(none) = 0
    OBVIOUS
  <2>2. ~ Partial /\ Current = <<>>
    BY <1>1 DEF Partial, Current
  <2>3. View = <<>>
    <3>1. Ahead = <<>> /\ Beyond(toServer) = <<>>
      BY <1>1 DEF Ahead, Beyond
    <3>2. View = (<<>> \o <<>>) \o <<>>
      BY <1>1, <3>1 DEF View
    <3> QED BY <3>2
  <2>4. View = FlattenSeq(none) \o <<>>
    BY <2>3, FlattenEmpty
  <2>5. Len(none) + 0 = Len(asked) - Len(served)
    BY <1>1, <2>1
  <2>6. \A j \in 1..Len(none) : Whole(none[j], asked[Len(served)+j])
    BY <2>1
  <2>7. Parts(none, View, Current, Partial, asked, served)
    <3> HIDE DEF none
    <3> QED BY <2>2, <2>4, <2>5, <2>6 DEF Parts
  <2> QED BY <2>1, <2>7 DEF PartInv
<1> QED BY <1>5, <1>6, <1>7, <1>8, <1>9, <1>10, <1>11, <1>12 DEF ExchangeIInv

LEMMA NextStep == ASSUME ExchangeIInv, BuilderInv, BuilderInv', [Next]_vars PROVE ExchangeIInv'
<1>1. CASE Begin
  BY <1>1, BeginStep
<1>2. CASE Host
  BY <1>2, BuildStep, WriteBytesStep, ContinuedStep, EndIdleStep, AnsweredStep, InformedStep DEF Host
<1>3. CASE Server
  BY <1>3, ReadLineStep, CarryoutStep, AcceptLiteralStep, RefuseStep, ReadPayloadStep, AcceptIdleStep,
     ReadDoneStep, ChallengeStep, ReadReplyStep, AuthenticatedStep, SendAnswerStep DEF Server
<1>4. CASE Inform
  BY <1>4, InformStep
<1>5. CASE UNCHANGED vars
  BY <1>5, Stuttering
<1> QED BY <1>1, <1>2, <1>3, <1>4, <1>5 DEF Next

\* The inductive invariant of the exchange: where the host and the server are in
\* the commands not yet served, and what is on its way between them.
THEOREM ExchangeInvariant == Spec => [](BuilderInv /\ ExchangeIInv)
<1>1. Spec => []BuilderInv
  BY BuilderInvariant
<1>2. Init => ExchangeIInv
  BY InitStep
<1>3. ExchangeIInv /\ BuilderInv /\ BuilderInv' /\ [Next]_vars => ExchangeIInv'
  BY NextStep
<1> QED BY <1>1, <1>2, <1>3, PTL DEF Spec

\* The builder, the host and the server keep to their types, and the host never
\* waits to write a literal that its command does not have.
THEOREM TypeCorrect == Spec => []TypeOK
<1>1. BuilderInv /\ ExchangeIInv => TypeOK
  <2> SUFFICES ASSUME BuilderInv, ExchangeIInv PROVE TypeOK
    OBVIOUS
  <2>1. Builder!TypeOK
    BY SameTypeOK DEF BuilderInv, B!IInv
  <2>2. Types /\ HostInv /\ AnswerInv
    BY DEF ExchangeIInv
  <2>3. DOMAIN answered \subseteq 1..Len(asked)
    BY <2>2 DEF AnswerInv, Types
  <2> QED BY <2>1, <2>2, <2>3 DEF TypeOK, Types, HostInv, Open
<1> QED BY <1>1, ExchangeInvariant, PTL

\* Whatever the host builds and however its writes, the server's refusals and
\* the answers interleave, a payload, a SASL response or a DONE is on its way
\* only to a server that has asked for it and reads it next.
THEOREM NothingEverUnasked == Spec => []NothingUnasked
<1>1. ExchangeIInv => NothingUnasked
  BY DEF ExchangeIInv, UnaskedInv
<1> QED BY <1>1, ExchangeInvariant, PTL

-----------------------------------------------------------------------------
(* The service.                                                            *)

LEMMA WriteBytesAsks == ASSUME ExchangeIInv, BuilderInv, WriteBytes PROVE Service!Ask
<1>1. asked' = Append(asked, Requested) /\ UNCHANGED <<served, answered>>
  BY DEF WriteBytes, Requested, serverVars
<1>2. HasBuilt
  BY DEF WriteBytes, ExchangeIInv, HostInv, HasBuilt
<1>3. Requested \in Requests
  BY <1>2, WholeWritten
<1> QED BY <1>1, <1>3 DEF Service!Ask

\* A command is carried out as it was requested.
LEMMA CompleteServed ==
  ASSUME ExchangeIInv, BuilderInv, mode \in {"complete", "idle"},
         NEW status \in {"OK", "NO"}, Serve(Decoded(line), status), UNCHANGED hostVars
  PROVE  Service!Serve
<1>1. /\ Len(served) \in Nat /\ Len(asked) \in Nat /\ Len(served)+1 \in 1..Len(asked)
      /\ Whole(line, asked[Len(served)+1])
  BY FirstUnserved
<1>2. Len(served) < Len(asked) /\ Decoded(line) = asked[Len(served)+1]
  BY <1>1 DEF Whole
<1>3. served' = Append(served, [did |-> asked[Len(served)+1], status |-> status])
  BY <1>2 DEF Serve
<1> QED BY <1>2, <1>3 DEF Service!Serve, hostVars

LEMMA RefusalServed == ASSUME ExchangeIInv, BuilderInv, Refuse PROVE Service!Serve
<1>1. served' = Append(served, [did |-> Refused, status |-> "NO"]) /\ UNCHANGED <<asked, answered>>
  BY DEF Refuse, Serve, hostVars
<1>2. Len(served) < Len(asked)
  <2>1. CASE mode = "announced"
    BY <2>1 DEF ExchangeIInv, ModeInv, OneLeft, Types
  <2>2. CASE mode = "complete"
    <3>1. Len(served) \in Nat /\ Len(asked) \in Nat /\ Len(served)+1 \in 1..Len(asked)
      BY <2>2, FirstUnserved
    <3> QED BY <3>1
  <2> QED BY <2>1, <2>2 DEF Refuse
<1> QED BY <1>1, <1>2 DEF Service!Serve

LEMMA AnsweredOnce == ASSUME ExchangeIInv, Answered PROVE Service!Answer
<1>1. PICK i \in 1..Len(asked) \ DOMAIN answered :
        /\ asked[i].tag = Head(toClient).tag
        /\ answered' = [j \in DOMAIN answered \union {i} |->
                          IF j = i THEN Head(toClient).status ELSE answered[j]]
  BY DEF Answered
<1>2. toClient # <<>> /\ Head(toClient).k = "tagged" /\ UNCHANGED <<asked, served>>
  BY DEF Answered, serverVars
<1>3. Types /\ AnswerInv /\ TagInv
  BY DEF ExchangeIInv
<1>4. Head(toClient) = toClient[1] /\ 1 \in 1..Len(toClient)
  BY <1>2, <1>3 DEF Types
<1>5. Answers(Head(toClient).tag, Head(toClient).status)
  BY <1>2, <1>3, <1>4 DEF AnswerInv
<1>6. PICK n \in 1..Len(served) : asked[n].tag = Head(toClient).tag /\ served[n].status = Head(toClient).status
  BY <1>5 DEF Answers
<1>7. n \in 1..Len(asked)
  BY <1>3, <1>6 DEF AnswerInv, Types
<1>8. i = n
  BY <1>1, <1>3, <1>6, <1>7 DEF TagInv
<1>9. i \in 1..Len(served) \ DOMAIN answered /\ served[i].status = Head(toClient).status
  BY <1>6, <1>8
<1>10. answered' = [j \in DOMAIN answered \union {i} |-> IF j = i THEN served[i].status ELSE answered[j]]
  BY <1>1, <1>9
<1> QED BY <1>2, <1>9, <1>10 DEF Service!Answer

\* Every step of the exchange is a step of the service or leaves it alone.
LEMMA ServiceSteps ==
  ASSUME ExchangeIInv, BuilderInv, [Next]_vars
  PROVE  [Service!Next]_(Service!vars)
<1> USE DEF Service!vars
<1>1. CASE WriteBytes
  BY <1>1, WriteBytesAsks DEF Service!Next
<1>2. CASE Carryout \/ Authenticated \/ ReadDone
  BY <1>2, CompleteServed DEF Carryout, Authenticated, ReadDone, Service!Next
<1>3. CASE Refuse
  BY <1>3, RefusalServed DEF Service!Next
<1>4. CASE Answered
  BY <1>4, AnsweredOnce DEF Service!Next
<1>5. CASE Begin \/ Build \/ Continued \/ EndIdle \/ Informed \/ Inform
  BY <1>5 DEF Begin, Build, Continued, EndIdle, Informed, Inform, serverVars, hostVars
<1>6. CASE ReadLine \/ AcceptLiteral \/ ReadPayload \/ AcceptIdle \/ Challenge \/ ReadReply \/ SendAnswer
  BY <1>6 DEF ReadLine, AcceptLiteral, ReadPayload, AcceptIdle, Challenge, ReadReply, SendAnswer, Ask, hostVars
<1>7. CASE UNCHANGED vars
  BY <1>7 DEF vars, serverVars, hostVars
<1> QED BY <1>1, <1>2, <1>3, <1>4, <1>5, <1>6, <1>7 DEF Next, Host, Server

\* The safe part of ImplementsService: each command written is carried out or
\* refused once, in order and with the arguments of the call, and its caller
\* gets the answer to it and no other.
THEOREM ServiceImplemented == Spec => Service!Spec
<1>1. Init => Service!Init
  BY DEF Init, Service!Init
<1>2. BuilderInv /\ ExchangeIInv /\ [Next]_vars => [Service!Next]_(Service!vars)
  BY ServiceSteps
<1> QED BY <1>1, <1>2, ExchangeInvariant, PTL DEF Spec, Service!Spec
=============================================================================
