------------------------ MODULE CommandBuilderProofs ------------------------
(***************************************************************************)
(* CommandBuilder proved for every set of calls, every tag width and every *)
(* largest number.                                                         *)
(***************************************************************************)
EXTENDS CommandBuilder, SequenceLemmas

USE NumberAssumption

LEMMA ArgumentsAreItems == \A c \in Calls : c.args \in Seq(Item)
BY CallsAssumption

\* The call being encoded is one of the calls, and what EncodeData reads of it
\* is an item.
CallInv == pc = "encode" => call \in Calls

\* A string in a form in which none of its bytes means something else.
SafeString(token) ==
  /\ token.t = "unquoted" /\ token.of.k = "string" => token.of.s.has = {} /\ token.of.s.len > 0
  /\ token.t = "quoted" /\ token.of.k = "string" => token.of.s.has \intersect {"eol", "8bit"} = {}

\* A text that neither ends its line nor announces a payload.
Legible(token) == ~ InText(token, "eol") /\ ~ (token.t = "unquoted" /\ InText(token, "marker"))

\* What holds of every token of a command with these arguments.
Protected(args, token) == SafeString(token) /\ (Clear(args) => Legible(token))

Markers(line) == {i \in 1..Len(line) : line[i].t = "marker"}

\* A line that announces nothing.
Silent(line) == Markers(line) = {}

\* A line that announces a payload of n bytes, as its last token and only there.
Announces(line, n) == Markers(line) = {Len(line)} /\ line[Len(line)].n = n

\* The text of the line of a command before its k-th literal, for a main line
\* m and literal segments ls.
LineIn(m, ls, k) == IF k = 1 THEN m ELSE ls[k-1].tail

\* Framing and protection, for any main line m and literal segments ls.
FramedLines(m, ls) ==
  /\ \A k \in 1..Len(ls) : Announces(LineIn(m, ls, k), ls[k].data.len)
  /\ Silent(LineIn(m, ls, Len(ls) + 1))
ProtectedLines(args, m, ls) ==
  \A k \in 1 .. Len(ls) + 1 : \A i \in 1..Len(LineIn(m, ls, k)) : Protected(args, LineIn(m, ls, k)[i])

IInv ==
  /\ TypeOK
  /\ CallInv
  /\ FramedLines(main, lits)
  /\ ProtectedLines(call.args, main, lits)

-----------------------------------------------------------------------------
(* What an argument becomes, and what appending does to a line.            *)

\* An argument that EncodeData accepts becomes a well-formed token, which is
\* protected and is a marker only for a literal (command.go encodeData).
LEMMA EmittedToken ==
  ASSUME NEW item \in Item, ~ Invalid(item), ~ BadMonth(item)
  PROVE  /\ Emitted(item) \in Token
         /\ SafeString(Emitted(item))
         /\ Form(item) = "literal" => Emitted(item) = Marker(item.s.len)
         /\ Form(item) # "literal" => Emitted(item).t # "marker"
<1> USE DEF Item
<1>1. CASE item.k \in {"open", "close"}
  BY <1>1 DEF Emitted, Open, Close, Token, SafeString, Form, StringForm
<1>2. CASE item.k \notin {"open", "close"}
  <2>1. item \in Sendable
    BY DEF Sendable, Invalid, BadMonth
  <2>2. CASE Form(item) = "literal"
    <3>1. Emitted(item) = Marker(item.s.len)
      BY <1>2, <2>2 DEF Emitted
    <3>2. item.s.len \in Nat
      BY DEF Str
    <3>3. Marker(item.s.len) \in Token /\ Marker(item.s.len).t = "marker"
      BY <3>2 DEF Marker, Token
    <3>. QED  BY <2>2, <3>1, <3>3 DEF SafeString
  <2>3. CASE Form(item) = "quoted"
    <3>1. Emitted(item) = Quoted(item)
      BY <1>2, <2>3 DEF Emitted
    <3>2. item.k = "string" => item.s.has \intersect {"eol", "8bit"} = {}
      <4>1. item.s.len = 0 => item.s.has = {}
        BY DEF Str
      <4>2. item.k = "string" => StringForm(item.s) = "quoted"
        BY <2>3 DEF Form
      <4>3. item.k = "string" => item.s.has = {} \/ ("eol" \notin item.s.has /\ "8bit" \notin item.s.has)
        BY <4>2 DEF StringForm, Str
      <4>. QED  BY <4>1, <4>3
    <3>. QED  BY <2>1, <2>3, <3>1, <3>2 DEF Quoted, Token, SafeString
  <2>4. CASE Form(item) = "unquoted"
    <3>1. Emitted(item) = Unquoted(item)
      BY <1>2, <2>4 DEF Emitted
    <3>2. item.k = "string" => item.s.has = {} /\ item.s.len > 0
      <4>1. /\ item.s.has \subseteq {"eol", "8bit", "special", "marker"} /\ item.s.len \in Nat
            /\ "marker" \in item.s.has => "special" \in item.s.has
        BY DEF Str
      <4>2. item.k = "string" => StringForm(item.s) = "unquoted"
        BY <2>4 DEF Form
      <4>. QED  BY <4>1, <4>2 DEF StringForm
    <3>. QED  BY <2>1, <2>4, <3>1, <3>2 DEF Unquoted, Token, SafeString
  <2>. QED  BY <2>2, <2>3, <2>4 DEF Form, StringForm
<1>. QED  BY <1>1, <1>2

\* If the verbatim texts are clear, every argument is written legibly.
LEMMA EmittedLegible ==
  ASSUME NEW args \in Seq(Item), NEW i \in 1..Len(args), Clear(args),
         ~ Invalid(args[i]), ~ BadMonth(args[i])
  PROVE  Legible(Emitted(args[i]))
<1>1. args[i] \in Item
  BY ElementOfSeq
<1>2. /\ args[i].k \in Verbatim => "eol" \notin args[i].s.has
      /\ args[i].k \in Verbatim \ {"quoted"} => "marker" \notin args[i].s.has
  BY DEF Clear
<1>3. ASSUME NEW item \in Item, ~ Invalid(item), ~ BadMonth(item),
             item.k \in Verbatim => "eol" \notin item.s.has,
             item.k \in Verbatim \ {"quoted"} => "marker" \notin item.s.has
      PROVE  Legible(Emitted(item))
  <2> DEFINE token == Emitted(item)
  <2>1. SafeString(token)
    BY <1>3, EmittedToken
  <2>2. \/ token.t \notin {"quoted", "unquoted"}
        \/ token = Quoted(item)
        \/ token = Unquoted(item) /\ item.k # "quoted"
    <3>1. CASE item.k = "open"
      BY <3>1 DEF Emitted, Open
    <3>2. CASE item.k = "close"
      BY <3>2 DEF Emitted, Close
    <3>3. CASE item.k \notin {"open", "close"} /\ Form(item) = "literal"
      BY <3>3 DEF Emitted, Marker
    <3>4. CASE item.k \notin {"open", "close"} /\ Form(item) = "quoted"
      BY <3>4 DEF Emitted
    <3>5. CASE item.k \notin {"open", "close"} /\ Form(item) = "unquoted"
      BY <3>5 DEF Emitted, Form
    <3> QED BY <3>1, <3>2, <3>3, <3>4, <3>5 DEF Form, StringForm
  <2> HIDE DEF token
  <2>3. ASSUME token.t \notin {"quoted", "unquoted"} PROVE Legible(token)
    BY <2>3 DEF Legible, InText
  <2>4. ASSUME token = Quoted(item) PROVE Legible(token)
    <3>1. token.t = "quoted" /\ token.of = item
      BY <2>4 DEF Quoted
    <3> QED BY <1>3, <2>1, <3>1 DEF SafeString, Legible, InText
  <2>5. ASSUME token = Unquoted(item), item.k # "quoted" PROVE Legible(token)
    <3>1. token.t = "unquoted" /\ token.of = item
      BY <2>5 DEF Unquoted
    <3> QED BY <1>3, <2>1, <2>5, <3>1 DEF SafeString, Legible, InText
  <2> QED BY <2>2, <2>3, <2>4, <2>5 DEF token
<1> QED BY <1>1, <1>2, <1>3

\* emit extends the last line of the command and leaves every other line and
\* every payload as it is (command.go buildCommand).
LEMMA EmitExtendsLastLine ==
  ASSUME TypeOK, NEW tokens \in Seq(Token),
         NEW m, m = EmitMain(tokens), NEW ls, ls = EmitTail(tokens)
  PROVE  /\ m \in Seq(Token) /\ ls \in Seq(Segment) /\ Len(ls) = Len(lits)
         /\ \A k \in 1..Len(lits) :
              LineIn(m, ls, k) = Line(k) /\ ls[k].data = lits[k].data
         /\ LineIn(m, ls, Len(lits) + 1) = Line(Len(lits) + 1) \o tokens
         /\ \A k \in 1 .. Len(lits) + 1 : Line(k) \in Seq(Token)
<1>1. main \in Seq(Token) /\ lits \in Seq(Segment)
  BY DEF TypeOK
<1>2. \A k \in 1..Len(lits) : lits[k] \in Segment /\ lits[k].tail \in Seq(Token)
  <2>1. \A k \in 1..Len(lits) : lits[k] \in Segment
    BY <1>1, ElementOfSeq
  <2>. QED  BY <2>1 DEF Segment
<1>3. \A k \in 1 .. Len(lits) + 1 : Line(k) \in Seq(Token)
  BY <1>1, <1>2 DEF Line
<1>4. CASE lits = <<>>
  BY <1>1, <1>3, <1>4 DEF EmitMain, EmitTail, LineIn, Line
<1>5. CASE lits # <<>>
  <2> DEFINE n == Len(lits)
             seg == [data |-> lits[n].data, tail |-> lits[n].tail \o tokens]
  <2>1. n \in Nat \ {0} /\ n \in 1..n
    BY <1>1, <1>5, EmptySeq
  <2>2. seg \in Segment
    BY <1>2, <2>1 DEF Segment
  <2>3. m = main /\ ls = [lits EXCEPT ![n] = seg]
    BY <1>5 DEF EmitMain, EmitTail
  <2>4. ls \in Seq(Segment) /\ Len(ls) = n
    BY <1>1, <2>1, <2>2, <2>3
  <2>5. \A k \in 1..n : ls[k] = IF k = n THEN seg ELSE lits[k]
    BY <1>1, <2>1, <2>3
  <2>6. ASSUME NEW k \in 1..n
        PROVE  LineIn(m, ls, k) = Line(k) /\ ls[k].data = lits[k].data
    BY <2>1, <2>3, <2>5 DEF LineIn, Line
  <2>7. LineIn(m, ls, n + 1) = Line(n + 1) \o tokens
    <3>1. n + 1 # 1 /\ n + 1 - 1 = n
      BY <2>1
    <3>2. ls[n].tail = lits[n].tail \o tokens
      BY <2>1, <2>5
    <3>. QED  BY <3>1, <3>2 DEF LineIn, Line
  <2>. QED  BY <1>1, <1>3, <2>3, <2>4, <2>6, <2>7
<1>. QED  BY <1>4, <1>5

\* A silent line stays silent under tokens that are not markers.
LEMMA SilentExtended ==
  ASSUME NEW line \in Seq(Token), NEW tokens \in Seq(Token), Silent(line),
         \A i \in 1..Len(tokens) : tokens[i].t # "marker"
  PROVE  Silent(line \o tokens)
BY DEF Silent, Markers

\* A silent line extended by tokens of which just the last is a marker
\* announces that marker's payload.
LEMMA SilentToAnnounces ==
  ASSUME NEW line \in Seq(Token), NEW tokens \in Seq(Token), Silent(line),
         Len(tokens) > 0,
         \A i \in 1..Len(tokens) : tokens[i].t = "marker" <=> i = Len(tokens)
  PROVE  Announces(line \o tokens, tokens[Len(tokens)].n)
<1> DEFINE both == line \o tokens
<1>1. Len(both) = Len(line) + Len(tokens) /\ Len(line) \in Nat /\ Len(tokens) \in Nat
  OBVIOUS
<1>2. \A i \in 1..Len(both) :
        both[i] = IF i <= Len(line) THEN line[i] ELSE tokens[i - Len(line)]
  OBVIOUS
<1>3. \A i \in 1..Len(line) : line[i].t # "marker"
  BY DEF Silent, Markers
<1>4. both[Len(both)] = tokens[Len(tokens)]
  BY <1>1, <1>2
<1>5. ASSUME NEW i \in 1..Len(both)
      PROVE  both[i].t = "marker" <=> i = Len(both)
  <2>1. CASE i <= Len(line)
    BY <1>1, <1>2, <1>3, <2>1
  <2>2. CASE i > Len(line)
    <3>1. i - Len(line) \in 1..Len(tokens) /\ both[i] = tokens[i - Len(line)]
      BY <1>1, <1>2, <2>2
    <3>2. tokens[i - Len(line)].t = "marker" <=> i - Len(line) = Len(tokens)
      BY <3>1
    <3>. QED  BY <1>1, <3>1, <3>2
  <2>. QED  BY <1>1, <2>1, <2>2
<1>6. Len(both) \in 1..Len(both)
  BY <1>1
<1>. QED  BY <1>4, <1>5, <1>6 DEF Announces, Markers

-----------------------------------------------------------------------------
(* The inductive step, action by action. *)

LEMMA InitInv == Init => IInv
<1> SUFFICES ASSUME Init PROVE IInv
  OBVIOUS
<1>1. TypeOK
  <2>1. call.args = <<>> /\ Len(<<>>) = 0
    BY DEF Init, NoCall, Call
  <2>. QED  BY <2>1, EmptySeq DEF Init, TypeOK
<1>2. Len(lits) = 0 /\ LineIn(main, lits, 1) = <<>>
  BY DEF Init, LineIn
<1>3. FramedLines(main, lits) /\ ProtectedLines(call.args, main, lits)
  BY <1>2 DEF FramedLines, ProtectedLines, Silent, Markers
<1>. QED  BY <1>1, <1>3 DEF IInv, CallInv, Init

\* A command that starts: a heading and nothing else (Builder.Command).
LEMMA BeginStep == ASSUME IInv, NEW c \in Calls, Begin(c) PROVE IInv'
<1> USE DEF Begin
<1>1. Heading \in Token /\ Heading.t = "heading"
  BY DEF Heading, Token
<1>2. tags' \in Seq({TagText(n) : n \in 1..MaxTag}) /\ Len(tags') = tagno'
  <2>1. tagno' \in 1..MaxTag
    BY DEF IInv, TypeOK
  <2>2. TagText(tagno') \in {TagText(n) : n \in 1..MaxTag}
    BY <2>1
  <2> DEFINE TagTexts == {TagText(n) : n \in 1..MaxTag}
  <2>3. tags \in Seq(TagTexts) /\ Len(tags) = tagno
    BY DEF IInv, TypeOK
  <2>4. tags' = Append(tags, TagText(tagno'))
    OBVIOUS
  <2> HIDE DEF TagTexts
  <2>5. TagText(tagno') \in TagTexts
    BY <2>2 DEF TagTexts
  <2>6. tags' \in Seq(TagTexts) /\ Len(tags') = tagno + 1
    BY <2>3, <2>4, <2>5, AppendProperties
  <2>. QED  BY <2>6 DEF TagTexts
<1>3. TypeOK'
  BY <1>1, <1>2 DEF IInv, TypeOK
<1>4. Len(lits') = 0 /\ LineIn(main', lits', 1) = <<Heading>>
  BY DEF LineIn
<1>5. FramedLines(main', lits') /\ ProtectedLines(call'.args, main', lits')
  <2>1. Protected(call'.args, Heading)
    BY <1>1 DEF Protected, SafeString, Legible, InText
  <2> QED BY <1>1, <1>4, <2>1 DEF FramedLines, ProtectedLines, Silent, Markers
<1>. QED  BY <1>3, <1>5 DEF IInv, CallInv

\* A command that fails or panics leaves nothing behind.
LEMMA DropStep == ASSUME IInv, Fail \/ Panic PROVE IInv'
<1> USE DEF Fail, Panic
<1>1. TypeOK'
  <2>1. /\ UNCHANGED <<tagno, call, next, tags>>
        /\ pc' = "idle" /\ main' = <<>> /\ lits' = <<>> /\ outcome' \in {"invalid", "panic"}
    OBVIOUS
  <2>2. main' \in Seq(Token) /\ lits' \in Seq(Segment)
    BY <2>1
  <2>. QED  BY <2>1, <2>2 DEF IInv, TypeOK
<1>2. Len(lits') = 0 /\ LineIn(main', lits', 1) = <<>>
  BY DEF LineIn
<1>3. FramedLines(main', lits') /\ ProtectedLines(call'.args, main', lits')
  BY <1>2 DEF FramedLines, ProtectedLines, Silent, Markers
<1>. QED  BY <1>1, <1>3 DEF IInv, CallInv

\* Emitting protected tokens of which none is a marker keeps the lines framed
\* and protected.
LEMMA EmitQuietly ==
  ASSUME TypeOK, FramedLines(main, lits), ProtectedLines(call.args, main, lits),
         NEW tokens \in Seq(Token),
         \A i \in 1..Len(tokens) : tokens[i].t # "marker" /\ Protected(call.args, tokens[i])
  PROVE  /\ FramedLines(EmitMain(tokens), EmitTail(tokens))
         /\ ProtectedLines(call.args, EmitMain(tokens), EmitTail(tokens))
<1> DEFINE m    == EmitMain(tokens)
           ls   == EmitTail(tokens)
           last == LineIn(main, lits, Len(lits) + 1)
<1>1. /\ Len(ls) = Len(lits)
      /\ \A k \in 1..Len(lits) :
           LineIn(m, ls, k) = LineIn(main, lits, k) /\ ls[k].data = lits[k].data
      /\ LineIn(m, ls, Len(lits) + 1) = last \o tokens
      /\ last \in Seq(Token)
  <2>1. /\ Len(ls) = Len(lits)
        /\ \A k \in 1..Len(lits) : LineIn(m, ls, k) = Line(k) /\ ls[k].data = lits[k].data
        /\ LineIn(m, ls, Len(lits) + 1) = Line(Len(lits) + 1) \o tokens
        /\ \A k \in 1 .. Len(lits) + 1 : Line(k) \in Seq(Token)
    <3> HIDE DEF m, ls
    <3> QED BY EmitExtendsLastLine DEF m, ls
  <2>2. \A k : LineIn(main, lits, k) = Line(k)
    BY DEF LineIn, Line
  <2>3. Len(lits) + 1 \in 1 .. Len(lits) + 1
    BY DEF TypeOK
  <2> HIDE DEF m, ls
  <2>. QED  BY <2>1, <2>2, <2>3
<1>2. Len(lits) \in Nat
  BY DEF TypeOK
<1>3. FramedLines(main, lits) /\ ProtectedLines(call.args, main, lits)
  OBVIOUS
<1> HIDE DEF m, ls, last
<1>4. FramedLines(m, ls)
  <2>1. Silent(last \o tokens)
    BY <1>1, <1>3, SilentExtended DEF FramedLines, last
  <2>. QED  BY <1>1, <1>2, <1>3, <2>1 DEF FramedLines
<1>5. ProtectedLines(call.args, m, ls)
  <2>1. ASSUME NEW i \in 1..Len(last \o tokens)
        PROVE  Protected(call.args, (last \o tokens)[i])
    <3>1. Len(lits) + 1 \in 1 .. Len(lits) + 1
      BY <1>2
    <3>2. \A j \in 1..Len(last) : Protected(call.args, last[j])
      BY <1>3, <3>1 DEF ProtectedLines, last
    <3>3. last \in Seq(Token)
      BY <1>1
    <3> HIDE DEF last
    <3>4. /\ Len(last \o tokens) = Len(last) + Len(tokens)
          /\ (last \o tokens)[i] = IF i <= Len(last) THEN last[i] ELSE tokens[i - Len(last)]
      BY <3>3, ConcatProperties
    <3>5. Len(last) \in Nat /\ Len(tokens) \in Nat
      BY <3>3
    <3>6. CASE i <= Len(last)
      BY <3>2, <3>4, <3>5, <3>6
    <3>7. CASE i > Len(last)
      <4>1. i - Len(last) \in 1..Len(tokens)
        BY <3>4, <3>5, <3>7
      <4>. QED  BY <3>4, <3>5, <3>7, <4>1
    <3>. QED  BY <3>5, <3>6, <3>7
  <2>2. ASSUME NEW k \in 1..Len(lits), NEW i \in 1..Len(LineIn(main, lits, k))
        PROVE  Protected(call.args, LineIn(main, lits, k)[i])
    BY <1>2, <1>3 DEF ProtectedLines
  <2>3. ASSUME NEW k \in 1 .. Len(lits) + 1, NEW i \in 1..Len(LineIn(m, ls, k))
        PROVE  Protected(call.args, LineIn(m, ls, k)[i])
    <3>1. CASE k = Len(lits) + 1
      BY <1>1, <2>1, <3>1
    <3>2. CASE k # Len(lits) + 1
      <4>1. k \in 1..Len(lits)
        BY <1>2, <3>2
      <4>. QED  BY <1>1, <2>2, <4>1
    <3>. QED  BY <3>1, <3>2
  <2>. QED  BY <1>1, <2>3 DEF ProtectedLines
<1>. QED  BY <1>4, <1>5 DEF m, ls

\* An argument that is not a literal (encodeData, with the space before it).
LEMMA EncodePlain ==
  ASSUME IInv, EncodeData, Form(call.args[next]) # "literal"
  PROVE  IInv'
<1> DEFINE item   == call.args[next]
           tokens == IF Spaced(call.args, next) THEN <<SP, Emitted(item)>> ELSE <<Emitted(item)>>
<1>1. /\ item \in Item /\ next \in 1..Len(call.args) /\ call.args \in Seq(Item)
      /\ call' = call /\ ~ Invalid(item) /\ ~ BadMonth(item)
  BY ElementOfSeq, ArgumentsAreItems DEF EncodeData, IInv, TypeOK, CallInv
<1>2. Emitted(item) \in Token /\ Protected(call.args, Emitted(item)) /\ Emitted(item).t # "marker"
  BY <1>1, EmittedToken, EmittedLegible DEF Protected
<1>3. SP \in Token /\ Protected(call.args, SP) /\ SP.t # "marker"
  BY DEF SP, Token, Protected, SafeString, Legible, InText
<1>4. main' = EmitMain(tokens) /\ lits' = EmitTail(tokens)
  BY DEF EncodeData
<1>5. /\ tokens \in Seq(Token)
      /\ \A i \in 1..Len(tokens) : tokens[i].t # "marker" /\ Protected(call.args, tokens[i])
  BY <1>2, <1>3
<1> HIDE DEF tokens
<1>6. EmitMain(tokens) \in Seq(Token) /\ EmitTail(tokens) \in Seq(Segment)
  BY <1>5, EmitExtendsLastLine DEF IInv
<1>7. TypeOK'
  BY <1>1, <1>4, <1>6 DEF EncodeData, IInv, TypeOK
<1>8. FramedLines(main', lits') /\ ProtectedLines(call.args, main', lits')
  BY <1>4, <1>5, EmitQuietly DEF IInv
<1>. QED  BY <1>1, <1>7, <1>8 DEF IInv, CallInv, EncodeData

\* The end of the command: CRLF on its last line (buildCommand).
LEMMA FinishStep == ASSUME IInv, Finish PROVE IInv'
<1>1. <<CRLF>> \in Seq(Token) /\ CRLF.t # "marker" /\ Protected(call.args, CRLF)
  BY DEF CRLF, Token, Protected, SafeString, Legible, InText
<1>2. main' = EmitMain(<<CRLF>>) /\ lits' = EmitTail(<<CRLF>>)
  BY DEF Finish
<1>3. EmitMain(<<CRLF>>) \in Seq(Token) /\ EmitTail(<<CRLF>>) \in Seq(Segment)
  BY <1>1, EmitExtendsLastLine DEF IInv
<1>4. TypeOK'
  BY <1>2, <1>3 DEF Finish, IInv, TypeOK
<1>5. \A i \in 1..Len(<<CRLF>>) : <<CRLF>>[i].t # "marker" /\ Protected(call.args, <<CRLF>>[i])
  BY <1>1
<1> DEFINE tokens == <<CRLF>>
<1> HIDE DEF tokens
<1>6. FramedLines(EmitMain(tokens), EmitTail(tokens)) /\ ProtectedLines(call.args, EmitMain(tokens), EmitTail(tokens))
  BY <1>1, <1>5, EmitQuietly DEF IInv, tokens
<1>7. FramedLines(main', lits') /\ ProtectedLines(call.args, main', lits')
  BY <1>2, <1>6 DEF tokens
<1>. QED  BY <1>4, <1>7 DEF IInv, CallInv, Finish

\* A literal: its marker ends the last line and a segment opens for what
\* follows its payload (encodeData and startLiteral).
LEMMA EncodeLiteral ==
  ASSUME IInv, EncodeData, Form(call.args[next]) = "literal"
  PROVE  IInv'
<1> DEFINE item   == call.args[next]
           marker == Emitted(item)
           tokens == IF Spaced(call.args, next) THEN <<SP, marker>> ELSE <<marker>>
           m      == EmitMain(tokens)
           ls     == EmitTail(tokens)
           seg    == [data |-> item.s, tail |-> <<>>]
           n      == Len(lits)
           last   == LineIn(main, lits, n + 1)
<1>1. /\ item \in Item /\ next \in 1..Len(call.args) /\ call.args \in Seq(Item)
      /\ call' = call /\ ~ Invalid(item) /\ ~ BadMonth(item)
  BY ElementOfSeq, ArgumentsAreItems DEF EncodeData, IInv, TypeOK, CallInv
<1>2. /\ marker \in Token /\ Protected(call.args, marker)
      /\ marker.t = "marker" /\ marker.n = item.s.len
  <2>1. marker \in Token /\ Protected(call.args, marker) /\ marker = Marker(item.s.len)
    BY <1>1, EmittedToken, EmittedLegible DEF Protected
  <2>. QED  BY <2>1 DEF Marker
<1>3. SP \in Token /\ Protected(call.args, SP) /\ SP.t # "marker"
  BY DEF SP, Token, Protected, SafeString, Legible, InText
<1>4. main' = m /\ lits' = Append(ls, seg)
  BY DEF EncodeData, StartLiteral
<1>5. seg \in Segment
  <2>1. item.s \in Str /\ <<>> \in Seq(Token)
    BY <1>1, EmptySeq DEF Item
  <2>. QED  BY <2>1 DEF Segment
<1> HIDE DEF marker
<1>6. /\ tokens \in Seq(Token) /\ Len(tokens) > 0
      /\ \A i \in 1..Len(tokens) : Protected(call.args, tokens[i])
      /\ \A i \in 1..Len(tokens) : tokens[i].t = "marker" <=> i = Len(tokens)
      /\ tokens[Len(tokens)] = marker
  BY <1>2, <1>3
<1> HIDE DEF tokens
<1>7. /\ m \in Seq(Token) /\ ls \in Seq(Segment) /\ Len(ls) = n /\ n \in Nat
      /\ \A k \in 1..n : LineIn(m, ls, k) = LineIn(main, lits, k) /\ ls[k].data = lits[k].data
      /\ LineIn(m, ls, n + 1) = last \o tokens
      /\ last \in Seq(Token)
  <2>1. \A k : Line(k) = LineIn(main, lits, k)
    BY DEF Line, LineIn
  <2>2. n \in Nat
    BY DEF IInv, TypeOK
  <2>3. TypeOK
    BY DEF IInv
  <2>4. /\ m \in Seq(Token) /\ ls \in Seq(Segment) /\ Len(ls) = n
        /\ \A k \in 1..n : LineIn(m, ls, k) = Line(k) /\ ls[k].data = lits[k].data
        /\ LineIn(m, ls, n + 1) = Line(n + 1) \o tokens
        /\ \A k \in 1 .. n + 1 : Line(k) \in Seq(Token)
    BY <1>6, <2>3, EmitExtendsLastLine
  <2>5. n + 1 \in 1 .. n + 1
    BY <2>2
  <2>. QED  BY <2>1, <2>2, <2>4, <2>5
<1> HIDE DEF m, ls, last
<1>8. lits' \in Seq(Segment) /\ Len(lits') = n + 1
  BY <1>4, <1>5, <1>7, AppendProperties
<1>9. \A k \in 1 .. n + 1 : lits'[k] = IF k <= n THEN ls[k] ELSE seg
  BY <1>4, <1>5, <1>7, AppendProperties
<1>10. TypeOK'
  <2>1. main' \in Seq(Token)
    BY <1>4, <1>7
  <2>2. next' = next + 1 /\ UNCHANGED <<tagno, pc, call, outcome, tags>>
    BY DEF EncodeData
  <2> HIDE DEF item, n
  <2>. QED  BY <1>1, <1>8, <2>1, <2>2 DEF IInv, TypeOK
<1>11. FramedLines(main, lits) /\ ProtectedLines(call.args, main, lits)
  BY DEF IInv
<1>12. Announces(last \o tokens, item.s.len)
  BY <1>2, <1>6, <1>7, <1>11, SilentToAnnounces DEF FramedLines, last
<1>13. /\ \A k \in 1..n : LineIn(main', lits', k) = LineIn(main, lits, k)
                           /\ lits'[k].data = lits[k].data
       /\ LineIn(main', lits', n + 1) = last \o tokens /\ lits'[n + 1].data = item.s
       /\ LineIn(main', lits', n + 2) = <<>>
  <2>1. \A k \in 1 .. n + 1 : LineIn(main', lits', k) = LineIn(m, ls, k)
    BY <1>4, <1>7, <1>9 DEF LineIn
  <2>2. lits'[n + 1] = seg
    BY <1>7, <1>9
  <2>3. n + 2 # 1 /\ n + 2 - 1 = n + 1
    BY <1>7
  <2>4. ASSUME NEW k \in 1..n
        PROVE  LineIn(main', lits', k) = LineIn(main, lits, k) /\ lits'[k].data = lits[k].data
    <3>1. k \in 1 .. n + 1 /\ k <= n
      BY <1>7
    <3>2. LineIn(main', lits', k) = LineIn(m, ls, k) /\ lits'[k] = ls[k]
      BY <1>9, <2>1, <3>1
    <3>. QED  BY <1>7, <3>2
  <2>5. LineIn(main', lits', n + 1) = last \o tokens
    BY <1>7, <2>1
  <2>6. lits'[n + 1].data = item.s
    BY <2>2
  <2>7. LineIn(main', lits', n + 2) = <<>>
    BY <2>2, <2>3 DEF LineIn
  <2>. QED  BY <2>4, <2>5, <2>6, <2>7
<1>14. FramedLines(main', lits')
  <2>1. \A k \in 1..n : Announces(LineIn(main', lits', k), lits'[k].data.len)
    BY <1>11, <1>13 DEF FramedLines
  <2>2. Announces(LineIn(main', lits', n + 1), lits'[n + 1].data.len)
    BY <1>12, <1>13
  <2>3. Silent(LineIn(main', lits', n + 2))
    BY <1>13 DEF Silent, Markers
  <2>4. \A k \in 1 .. n + 1 : k \in 1..n \/ k = n + 1
    BY <1>7
  <2>5. Len(lits') + 1 = n + 2
    BY <1>7, <1>8
  <2>. QED  BY <1>8, <2>1, <2>2, <2>3, <2>4, <2>5 DEF FramedLines
<1>15. ProtectedLines(call.args, main', lits')
  <2>1. ASSUME NEW i \in 1..Len(last \o tokens)
        PROVE  Protected(call.args, (last \o tokens)[i])
    BY <1>6, <1>7, <1>11 DEF ProtectedLines, last
  <2>2. ASSUME NEW k \in 1..n, NEW i \in 1..Len(LineIn(main, lits, k))
        PROVE  Protected(call.args, LineIn(main, lits, k)[i])
    <3>1. k \in 1 .. Len(lits) + 1
      BY <1>7
    <3>. QED  BY <1>11, <3>1 DEF ProtectedLines
  <2>3. ASSUME NEW k \in 1 .. n + 2, NEW i \in 1..Len(LineIn(main', lits', k))
        PROVE  Protected(call.args, LineIn(main', lits', k)[i])
    <3>1. CASE k = n + 1
      BY <1>13, <2>1, <3>1
    <3>2. CASE k = n + 2
      <4>1. Len(LineIn(main', lits', k)) = 0
        BY <1>13, <3>2, EmptySeq
      <4>. QED  BY <4>1
    <3>3. CASE k <= n
      <4>1. k \in 1..n
        BY <1>7, <3>3
      <4>2. LineIn(main', lits', k) = LineIn(main, lits, k)
        BY <1>13, <4>1
      <4>3. i \in 1..Len(LineIn(main, lits, k))
        BY <4>2
      <4>4. Protected(call.args, LineIn(main, lits, k)[i])
        BY <2>2, <4>1, <4>3
      <4>. QED  BY <4>2, <4>4
    <3>4. k \in Nat /\ n \in Nat /\ k <= n + 2
      BY <1>7
    <3>5. k = n + 1 \/ k = n + 2 \/ k <= n
      <4> HIDE DEF n
      <4>. QED  BY <3>4
    <3>. QED  BY <3>1, <3>2, <3>3, <3>5
  <2>4. Len(lits') + 1 = n + 2
    BY <1>7, <1>8
  <2>. QED  BY <2>3, <2>4 DEF ProtectedLines
<1>. QED  BY <1>1, <1>10, <1>14, <1>15 DEF IInv, CallInv, EncodeData

LEMMA EncodeStep == ASSUME IInv, EncodeData PROVE IInv'
BY EncodePlain, EncodeLiteral DEF IInv, CallInv, EncodeData

LEMMA StutterStep == ASSUME IInv, UNCHANGED vars PROVE IInv'
<1>1. (TypeOK /\ CallInv)'
  BY DEF vars, IInv, TypeOK, CallInv
<1>2. FramedLines(main', lits') /\ ProtectedLines(call.args, main', lits')
  BY DEF vars, IInv
<1>. QED  BY <1>1, <1>2 DEF vars, IInv

-----------------------------------------------------------------------------
(* The theorems. *)

\* IInv holds in every state of every sequence of calls.
THEOREM InductiveInvariant == Spec => []IInv
<1>1. IInv /\ [Next]_vars => IInv'
  BY BeginStep, EncodeStep, DropStep, FinishStep, StutterStep DEF Next
<1>. QED  BY InitInv, <1>1, PTL DEF Spec

\* Every variable keeps its type: in particular no number, date or sequence
\* set outside the grammar is ever emitted (command.go encodeData).
THEOREM TypeCorrect == Spec => []TypeOK
BY InductiveInvariant, PTL DEF IInv

LEMMA Framed == IInv => FramedByLiterals
<1> SUFFICES ASSUME IInv, Clear(call.args)
             PROVE  /\ \A k \in 1..Len(lits) : /\ Announcements(Line(k)) = {Len(Line(k))}
                                              /\ Line(k)[Len(Line(k))].n = lits[k].data.len
                    /\ Announcements(Line(Len(lits) + 1)) = {}
  BY DEF FramedByLiterals
<1>1. \A k : LineIn(main, lits, k) = Line(k)
  BY DEF LineIn, Line
<1>2. ASSUME NEW k \in 1 .. Len(lits) + 1 PROVE Announcements(Line(k)) = Markers(Line(k))
  <2>1. \A i \in 1..Len(Line(k)) : Legible(Line(k)[i])
    BY <1>1 DEF IInv, ProtectedLines, Protected
  <2> QED BY <2>1 DEF Announcements, AnnouncesPayload, Markers, Legible
<1>3. Len(lits) \in Nat
  BY DEF IInv, TypeOK
<1>4. \A k \in 1..Len(lits) : Announces(Line(k), lits[k].data.len)
  BY <1>1 DEF IInv, FramedLines
<1>5. Silent(Line(Len(lits) + 1))
  BY <1>1 DEF IInv, FramedLines
<1> QED BY <1>2, <1>3, <1>4, <1>5 DEF Announces, Silent

\* Whatever the arguments, each literal is announced just before its payload
\* with its length, and nothing else is announced, if no verbatim text holds an
\* announcement (command.go LiteralSegment).
THEOREM AlwaysFramed == Spec => []FramedByLiterals
BY InductiveInvariant, Framed, PTL

LEMMA StringsSafe == IInv => StringsProtected
BY DEF IInv, ProtectedLines, Protected, SafeString, StringsProtected, LineIn, Line

\* Whatever the caller passes as a string argument, no byte of it is sent where
\* it would mean something else (command.go encodeString).
THEOREM AlwaysProtected == Spec => []StringsProtected
BY InductiveInvariant, StringsSafe, PTL

-----------------------------------------------------------------------------
(* The text of a tag. *)

\* What a number leaves of another one.
Leaves(n, q, r) ==
  /\ q \in Nat /\ r \in Nat
  /\ n < TagBase => q = 0 /\ r = n
  /\ n >= TagBase => q > 0
  /\ n > 0 => q < n
  /\ n = TagBase * q + r

LEMMA Quotient ==
  ASSUME NEW n \in Nat
  PROVE  Leaves(n, n \div TagBase, n % TagBase)
<1> DEFINE q == n \div TagBase
           r == n % TagBase
<1>1. q \in Int /\ r \in 0 .. TagBase-1 /\ n = TagBase * q + r
  OBVIOUS
<1> HIDE DEF q, r
<1>2. TagBase \in Nat /\ TagBase >= 2
  OBVIOUS
<1>3. q >= 0
  <2> SUFFICES ASSUME q <= -1 PROVE FALSE
    BY <1>1
  <2>1. TagBase * q <= TagBase * (-1)
    BY <1>1, <1>2
  <2> QED BY <1>1, <1>2, <2>1
<1>4. q = 0 => n = r
  BY <1>1, <1>2
<1>5. q >= 1 => n >= TagBase
  <2> SUFFICES ASSUME q >= 1 PROVE n >= TagBase
    OBVIOUS
  <2>1. TagBase * q >= TagBase * 1
    BY <1>1, <1>2
  <2> QED BY <1>1, <1>2, <2>1
<1>6. q >= 1 => q < n
  <2> SUFFICES ASSUME q >= 1 PROVE q < n
    OBVIOUS
  <2>1. TagBase * q >= 2 * q
    BY <1>1, <1>2
  <2> QED BY <1>1, <1>2, <2>1
<1>7. q \in Nat /\ r \in Nat
  BY <1>1, <1>3
<1>8. /\ n < TagBase => q = 0 /\ r = n
      /\ n >= TagBase => q > 0
      /\ n > 0 => q < n
  <2>1. q = 0 \/ q >= 1
    BY <1>7
  <2>2. r < TagBase
    BY <1>1, <1>2
  <2> QED BY <1>2, <1>4, <1>5, <1>6, <1>7, <2>1, <2>2
<1>9. Leaves(n, q, r)
  BY <1>1, <1>7, <1>8 DEF Leaves
<1> QED BY <1>9 DEF q, r

LEMMA DigitsOf ==
  ASSUME NEW n \in Nat
  PROVE  /\ Digits[n] \in Seq(Nat) /\ Digits[n] # <<>>
         /\ Digits[n] = IF n < TagBase THEN <<n>>
                        ELSE Append(Digits[n \div TagBase], n % TagBase)
<1> DEFINE V     == Seq(Nat) \ {<<>>}
           small == {m \in Nat : m < TagBase}
           a     == [m \in Nat |-> <<m>>]
           step  == [m \in Nat |-> [s \in V |-> Append(s, m % TagBase)]]
           below == [m \in Nat |-> m \div TagBase]
           F(f)  == f = [m \in Nat |-> IF m < TagBase THEN <<m>>
                                       ELSE Append(f[m \div TagBase], m % TagBase)]
<1>1. a \in [Nat -> V]
  OBVIOUS
<1>2. step \in [Nat -> [V -> V]]
  <2>1. ASSUME NEW m \in Nat, NEW s \in V PROVE Append(s, m % TagBase) \in V
    <3>1. m % TagBase \in Nat
      BY Quotient DEF Leaves
    <3> QED BY <3>1
  <2> HIDE DEF V
  <2> QED BY <2>1
<1>3. below \in [Nat -> Nat] /\ \A m \in Nat : m \notin small => below[m] < m
  <2>1. \A m \in Nat : m \div TagBase \in Nat /\ (m > 0 => m \div TagBase < m)
    BY Quotient DEF Leaves
  <2> QED BY <2>1
<1>4. /\ \A m \in Nat : (m \in small <=> m < TagBase) /\ a[m] = <<m>> /\ below[m] = m \div TagBase
      /\ \A m \in Nat : \A s \in V : step[m][s] = Append(s, m % TagBase)
  OBVIOUS
<1> HIDE DEF V, small, a, step, below
<1>5. PICK f \in [Nat -> V] : Descends(f, small, a, step, below)
  BY <1>1, <1>2, <1>3, Descent
<1>6. \A m \in Nat : f[m] = IF m < TagBase THEN <<m>> ELSE Append(f[m \div TagBase], m % TagBase)
  <2> TAKE m \in Nat
  <2>1. f[m] = IF m \in small THEN a[m] ELSE step[m][f[below[m]]]
    BY <1>5 DEF Descends
  <2>2. m \div TagBase \in Nat
    BY Quotient DEF Leaves
  <2>3. f[m \div TagBase] \in V
    BY <2>2
  <2> QED BY <1>4, <2>1, <2>3
<1>7. F(f)
  BY <1>6
<1>8. Digits = CHOOSE g : F(g)
  BY DEF Digits
<1>9. F(Digits)
  <2> HIDE DEF F
  <2> QED BY <1>7, <1>8
<1>10. \A m \in Nat : Digits[m] = IF m < TagBase THEN <<m>> ELSE Append(Digits[m \div TagBase], m % TagBase)
  BY <1>9
<1>11. \A m \in Nat : Digits[m] = f[m]
  <2> DEFINE S == {m \in Nat : Digits[m] = f[m]}
  <2>1. ASSUME NEW m \in Nat, \A i \in 0 .. m-1 : i \in S PROVE m \in S
    <3>1. CASE m < TagBase
      <4> HIDE DEF F
      <4>1. Digits[m] = <<m>> /\ f[m] = <<m>>
        BY <1>6, <1>10, <3>1
      <4> QED BY <4>1
    <3>2. CASE ~ (m < TagBase)
      <4>1. m \div TagBase \in 0 .. m-1
        BY <3>2, Quotient DEF Leaves
      <4>2. Digits[m \div TagBase] = f[m \div TagBase]
        BY <2>1, <4>1
      <4>3. Digits[m] = Append(Digits[m \div TagBase], m % TagBase) /\ f[m] = Append(f[m \div TagBase], m % TagBase)
        BY <1>6, <1>10, <3>2
      <4> QED BY <4>2, <4>3
    <3> QED BY <3>1, <3>2
  <2>2. \A m \in Nat : m \in S
    <3> HIDE DEF S
    <3> QED BY <2>1, StrongInduction
  <2> QED BY <2>2
<1>12. Digits[n] \in V
  BY <1>11
<1> QED BY <1>10, <1>12 DEF V

\* Only 0 is written with zeros alone.
LEMMA ZeroDigits ==
  ASSUME NEW n \in Nat, \A i \in 1..Len(Digits[n]) : Digits[n][i] = 0
  PROVE  n = 0
<1> DEFINE Zeros(m) == \A i \in 1..Len(Digits[m]) : Digits[m][i] = 0
           S == {m \in Nat : Zeros(m) => m = 0}
<1>1. ASSUME NEW m \in Nat, \A k \in 0 .. m-1 : k \in S PROVE m \in S
  <2> SUFFICES ASSUME Zeros(m) PROVE m = 0
    OBVIOUS
  <2>1. CASE m < TagBase
    <3>1. Digits[m] = <<m>>
      BY <2>1, DigitsOf
    <3> QED BY <3>1
  <2>2. CASE ~ (m < TagBase)
    <3> DEFINE q == m \div TagBase
               r == m % TagBase
    <3>1. q \in 0 .. m-1 /\ q \in Nat /\ q > 0 /\ r \in Nat
      <4>1. Leaves(m, q, r)
        BY Quotient
      <4> HIDE DEF q, r
      <4>2. q \in Nat /\ r \in Nat /\ (m >= TagBase => q > 0) /\ (m > 0 => q < m)
        BY <4>1 DEF Leaves
      <4> QED BY <2>2, <4>2, NumberAssumption
    <3> HIDE DEF q, r
    <3>2. Digits[q] \in Seq(Nat)
      BY <3>1, DigitsOf
    <3>3. Digits[m] = Append(Digits[q], r)
      BY <2>2, DigitsOf DEF q, r
    <3>4. \A i \in 1..Len(Digits[q]) : Digits[q][i] = 0
      <4> TAKE i \in 1..Len(Digits[q])
      <4>1. i \in 1..Len(Digits[m]) /\ Digits[m][i] = Digits[q][i]
        BY <3>1, <3>2, <3>3
      <4> QED BY <4>1
    <3>5. q = 0
      BY <1>1, <3>1, <3>4
    <3> QED BY <3>1, <3>5
  <2> QED BY <2>1, <2>2
<1>2. \A m \in Nat : m \in S
  <2> HIDE DEF S
  <2> QED BY <1>1, StrongInduction
<1> QED BY <1>2

\* Zeros in front leave the number that is written alone.
Padded(k, n) == [i \in 1..k |-> 0] \o Digits[n]

LEMMA PaddedDigits ==
  ASSUME NEW k \in Nat, NEW n \in Nat
  PROVE  /\ Padded(k, n) \in Seq(Nat)
         /\ Len(Padded(k, n)) = k + Len(Digits[n]) /\ Len(Digits[n]) \in Nat \ {0}
         /\ \A i \in 1..k : Padded(k, n)[i] = 0
         /\ \A i \in 1..Len(Digits[n]) : Padded(k, n)[k+i] = Digits[n][i]
<1> DEFINE d == Digits[n]
           z == [i \in 1..k |-> 0]
<1>1. d \in Seq(Nat) /\ d # <<>>
  BY DigitsOf
<1> HIDE DEF d
<1>2. z \in Seq(Nat) /\ Len(z) = k /\ \A i \in 1..k : z[i] = 0
  OBVIOUS
<1> HIDE DEF z
<1>3. /\ z \o d \in Seq(Nat) /\ Len(z \o d) = k + Len(d) /\ Len(d) \in Nat \ {0}
  BY <1>1, <1>2
<1>4. \A i \in 1..k : (z \o d)[i] = 0
  BY <1>1, <1>2
<1>5. \A i \in 1..Len(d) : (z \o d)[k+i] = d[i]
  <2> TAKE i \in 1..Len(d)
  <2>1. k+i \in 1 .. Len(z)+Len(d) /\ ~ (k+i <= Len(z)) /\ (k+i) - Len(z) = i
    BY <1>1, <1>2
  <2>2. (z \o d)[k+i] = d[(k+i) - Len(z)]
    BY <1>1, <1>2, <2>1, ConcatProperties
  <2> QED BY <2>1, <2>2
<1> QED BY <1>3, <1>4, <1>5 DEF Padded, d, z

\* The last digit and what is before it.
LEMMA PaddedLast ==
  ASSUME NEW k \in Nat, NEW n \in Nat
  PROVE  /\ n >= TagBase => Padded(k, n) = Append(Padded(k, n \div TagBase), n % TagBase)
         /\ n < TagBase => Padded(k, n) = Append([i \in 1..k |-> 0], n)
<1> DEFINE z == [i \in 1..k |-> 0]
<1>1. z \in Seq(Nat)
  OBVIOUS
<1>2. CASE n >= TagBase
  <2> DEFINE q == n \div TagBase
             r == n % TagBase
             d == Digits[q]
  <2>1. q \in Nat /\ r \in Nat
    BY Quotient DEF Leaves
  <2>2. Digits[n] = Append(d, r)
    <3>1. ~ (n < TagBase)
      BY <1>2
    <3> QED BY <3>1, DigitsOf
  <2> HIDE DEF q, r
  <2>3. d \in Seq(Nat)
    BY <2>1, DigitsOf
  <2> HIDE DEF d, z
  <2>4. z \o Append(d, r) = Append(z \o d, r)
    BY <1>1, <2>1, <2>3
  <2>5. Padded(k, n) = z \o Append(d, r) /\ Padded(k, q) = z \o d
    BY <2>2 DEF Padded, d, z
  <2>6. Padded(k, n) = Append(Padded(k, q), r)
    BY <2>4, <2>5
  <2> QED BY <1>2, <2>6 DEF q, r
<1>3. CASE n < TagBase
  <2>1. Digits[n] = <<n>>
    BY <1>3, DigitsOf
  <2> HIDE DEF z
  <2>2. z \o <<n>> = Append(z, n)
    BY <1>1
  <2> QED BY <1>3, <2>1, <2>2 DEF Padded, z
<1> QED BY <1>2, <1>3

LEMMA PaddedZeros ==
  ASSUME NEW k \in Nat, NEW j \in Nat, NEW n \in Nat, Padded(j, n) = [i \in 1..k |-> 0]
  PROVE  n = 0
<1> DEFINE d == Digits[n]
           p == Padded(j, n)
<1>1. /\ p \in Seq(Nat) /\ Len(p) = j + Len(d) /\ Len(d) \in Nat
      /\ \A i \in 1..Len(d) : p[j+i] = d[i]
  BY PaddedDigits
<1>2. Len(p) = k /\ \A i \in 1..k : p[i] = 0
  OBVIOUS
<1> HIDE DEF p, d
<1>3. \A i \in 1..Len(d) : d[i] = 0
  <2> TAKE i \in 1..Len(d)
  <2>1. j+i \in 1..k
    BY <1>1, <1>2
  <2> QED BY <1>1, <1>2, <2>1
<1> QED BY <1>3, ZeroDigits DEF d

\* No two numbers are written alike, whatever they are padded with.
LEMMA PaddedDiffer ==
  \A n \in Nat : \A m, j, k \in Nat : Padded(j, n) = Padded(k, m) => n = m
<1> DEFINE S == {n \in Nat : \A m, j, k \in Nat : Padded(j, n) = Padded(k, m) => n = m}
<1>1. ASSUME NEW n \in Nat, \A i \in 0 .. n-1 : i \in S PROVE n \in S
  <2> SUFFICES ASSUME NEW m \in Nat, NEW j \in Nat, NEW k \in Nat, Padded(j, n) = Padded(k, m)
               PROVE  n = m
    OBVIOUS
  <2> DEFINE zj == [i \in 1..j |-> 0]
             zk == [i \in 1..k |-> 0]
             qn == n \div TagBase
             rn == n % TagBase
             qm == m \div TagBase
             rm == m % TagBase
  <2>1. qn \in Nat /\ rn \in Nat /\ qm \in Nat /\ rm \in Nat
    BY Quotient DEF Leaves
  <2>2. zj \in Seq(Nat) /\ zk \in Seq(Nat)
    OBVIOUS
  <2>3. n >= TagBase => Padded(j, n) = Append(Padded(j, qn), rn) /\ qn \in 0 .. n-1 /\ qn # 0
    <3>1. n >= TagBase => qn \in 0 .. n-1 /\ qn # 0
      BY Quotient DEF Leaves
    <3> QED BY <3>1, PaddedLast
  <2>4. m >= TagBase => Padded(k, m) = Append(Padded(k, qm), rm) /\ qm # 0
    <3>1. m >= TagBase => qm # 0
      BY Quotient DEF Leaves
    <3> QED BY <3>1, PaddedLast
  <2>5. n < TagBase => Padded(j, n) = Append(zj, n)
    BY PaddedLast
  <2>6. m < TagBase => Padded(k, m) = Append(zk, m)
    BY PaddedLast
  <2>7. (qn = qm /\ rn = rm) => n = m
    BY Quotient DEF Leaves
  <2>8. Padded(j, qn) = zk => qn = 0
    BY <2>1, PaddedZeros
  <2>9. Padded(k, qm) = zj => qm = 0
    BY <2>1, PaddedZeros
  <2> HIDE DEF zj, zk, qn, rn, qm, rm
  <2>10. Padded(j, qn) \in Seq(Nat) /\ Padded(k, qm) \in Seq(Nat)
    BY <2>1, PaddedDigits
  <2>11. CASE n >= TagBase /\ m >= TagBase
    <3>1. Append(Padded(j, qn), rn) = Append(Padded(k, qm), rm)
      BY <2>3, <2>4, <2>11
    <3>2. SameAppended(Padded(j, qn), rn, Padded(k, qm), rm)
      BY <2>1, <2>10, AppendedAlike
    <3>3. Padded(j, qn) = Padded(k, qm) /\ rn = rm
      BY <3>1, <3>2 DEF SameAppended
    <3>4. qn \in S
      BY <1>1, <2>3, <2>11
    <3> QED BY <2>1, <2>7, <3>3, <3>4
  <2>12. CASE n >= TagBase /\ m < TagBase
    <3>1. Append(Padded(j, qn), rn) = Append(zk, m)
      BY <2>3, <2>6, <2>12
    <3>2. SameAppended(Padded(j, qn), rn, zk, m)
      BY <2>1, <2>2, <2>10, AppendedAlike
    <3>3. Padded(j, qn) = zk
      BY <3>1, <3>2 DEF SameAppended
    <3> QED BY <2>3, <2>8, <2>12, <3>3
  <2>13. CASE n < TagBase /\ m >= TagBase
    <3>1. Append(zj, n) = Append(Padded(k, qm), rm)
      BY <2>4, <2>5, <2>13
    <3>2. SameAppended(zj, n, Padded(k, qm), rm)
      BY <2>1, <2>2, <2>10, AppendedAlike
    <3>3. zj = Padded(k, qm)
      BY <3>1, <3>2 DEF SameAppended
    <3> QED BY <2>4, <2>9, <2>13, <3>3
  <2>14. CASE n < TagBase /\ m < TagBase
    BY <2>2, <2>5, <2>6, <2>14, AppendInjective
  <2>15. (n < TagBase \/ n >= TagBase) /\ (m < TagBase \/ m >= TagBase)
    OBVIOUS
  <2> QED BY <2>11, <2>12, <2>13, <2>14, <2>15
<1>2. \A n \in Nat : n \in S
  <2> HIDE DEF S
  <2> QED BY <1>1, StrongInduction
<1> QED BY <1>2

LEMMA TagTextPadded ==
  ASSUME NEW n \in Nat
  PROVE  \E k \in Nat : TagText(n) = Padded(k, n)
<1> DEFINE w == TagWidth - Len(Digits[n])
<1>1. w \in Int
  BY DigitsOf
<1>2. TagText(n) = [i \in 1..w |-> 0] \o Digits[n]
  BY DEF TagText
<1> HIDE DEF w
<1>3. CASE w >= 0
  BY <1>1, <1>2, <1>3 DEF Padded
<1>4. CASE w < 0
  <2>1. 1..w = 1..0
    BY <1>1, <1>4
  <2> QED BY <1>2, <2>1 DEF Padded
<1> QED BY <1>1, <1>3, <1>4

\* The n-th tag is the text of n (NextTag increments before it formats).
TagsInv == \A i \in 1..Len(tags) : tags[i] = TagText(i)

LEMMA TagsNext == IInv /\ TagsInv /\ [Next]_vars => TagsInv'
<1> SUFFICES ASSUME IInv, TagsInv, [Next]_vars PROVE TagsInv'
  OBVIOUS
<1>1. CASE tags' = tags
  BY <1>1 DEF TagsInv
<1>2. ASSUME NEW c \in Calls, Begin(c) PROVE TagsInv'
  <2> DEFINE TagTexts == {TagText(n) : n \in 1..MaxTag}
             text  == TagText(tagno')
  <2>1. tags \in Seq(TagTexts) /\ Len(tags) = tagno /\ tagno \in Nat
    BY DEF IInv, TypeOK
  <2>2. tags' = Append(tags, text) /\ tagno' = tagno + 1
    BY <1>2 DEF Begin
  <2> HIDE DEF TagTexts, text
  <2>3. Len(tags') = Len(tags) + 1 /\ \A i \in 1..Len(tags) : tags'[i] = tags[i]
    BY <2>1, <2>2
  <2>4. tags'[Len(tags) + 1] = text
    BY <2>1, <2>2
  <2>5. text = TagText(Len(tags) + 1)
    BY <2>1, <2>2 DEF text
  <2>6. \A i \in 1..Len(tags') : i \in 1..Len(tags) \/ i = Len(tags) + 1
    BY <2>1, <2>3
  <2> QED BY <2>3, <2>4, <2>5, <2>6 DEF TagsInv
<1>3. CASE EncodeData \/ Fail \/ Panic \/ Finish \/ UNCHANGED vars
  BY <1>1, <1>3 DEF EncodeData, Fail, Panic, Finish, vars
<1> QED BY <1>2, <1>3 DEF Next

LEMMA TagsFollow == TypeOK /\ TagsInv => TagsDistinct
<1> SUFFICES ASSUME TypeOK, TagsInv, NEW i \in 1..Len(tags), NEW j \in 1..Len(tags), tags[i] = tags[j]
             PROVE  i = j
  BY DEF TagsDistinct
<1>1. i \in Nat /\ j \in Nat
  BY DEF TypeOK
<1>2. TagText(i) = TagText(j)
  BY DEF TagsInv
<1>3. \E k, l \in Nat : Padded(k, i) = Padded(l, j)
  BY <1>1, <1>2, TagTextPadded
<1> QED BY <1>1, <1>3, PaddedDiffer

\* However many commands are built, and whatever the base and the width, no
\* two of them share a tag (command.go NextTag).
THEOREM TagsNeverShared == Spec => []TagsDistinct
<1>1. Init => TagsInv
  BY DEF Init, TagsInv
<1>2. IInv /\ TagsInv => TagsDistinct
  BY TagsFollow DEF IInv
<1> QED BY <1>1, <1>2, TagsNext, InductiveInvariant, PTL DEF Spec

-----------------------------------------------------------------------------
(* What goes over the wire, for any main line m and literal segments ls. *)

WireToken == Token \union [t : {"payload"}, of : Str]

Behind(seg)   == <<Payload(seg.data)>> \o seg.tail
Pieces(ls)    == [k \in 1..Len(ls) |-> Behind(ls[k])]
WireOf(m, ls) == m \o FlattenSeq(Pieces(ls))

LEMMA PayloadType == \A s \in Str : Payload(s) \in WireToken
BY DEF Payload, WireToken

LEMMA TokensOnWire == \A s \in Seq(Token) : s \in Seq(WireToken)
<1>1. Token \subseteq WireToken
  BY DEF WireToken
<1> HIDE DEF WireToken
<1> QED BY <1>1, SeqMonotonic

LEMMA BehindType ==
  ASSUME NEW seg \in Segment
  PROVE  Behind(seg) \in Seq(WireToken)
<1>1. Payload(seg.data) \in WireToken /\ seg.tail \in Seq(WireToken)
  <2>1. seg.data \in Str /\ seg.tail \in Seq(Token)
    BY DEF Segment
  <2> QED BY <2>1, PayloadType, TokensOnWire
<1> QED BY <1>1 DEF Behind

LEMMA PiecesType ==
  ASSUME NEW ls \in Seq(Segment)
  PROVE  /\ Pieces(ls) \in Seq(Seq(WireToken)) /\ Len(Pieces(ls)) = Len(ls)
         /\ FlattenSeq(Pieces(ls)) \in Seq(WireToken)
<1>1. \A k \in 1..Len(ls) : Behind(ls[k]) \in Seq(WireToken)
  BY BehindType
<1>2. Pieces(ls) \in Seq(Seq(WireToken)) /\ Len(Pieces(ls)) = Len(ls)
  BY <1>1 DEF Pieces
<1> QED BY <1>2, FlattenType

LEMMA WireType ==
  ASSUME NEW m \in Seq(Token), NEW ls \in Seq(Segment)
  PROVE  WireOf(m, ls) \in Seq(WireToken)
<1>1. m \in Seq(WireToken)
  BY TokensOnWire
<1> QED BY <1>1, PiecesType DEF WireOf

LEMMA WireIsOf == Wire = WireOf(main, lits) /\ Wire' = WireOf(main', lits')
BY DEF Wire, WireOf, Pieces, Behind

\* A segment that opens puts its payload on the wire.
LEMMA FlattenMore ==
  ASSUME NEW ls \in Seq(Segment), NEW seg \in Segment
  PROVE  FlattenSeq(Pieces(Append(ls, seg))) = FlattenSeq(Pieces(ls)) \o Behind(seg)
<1> DEFINE more == Append(ls, seg)
<1>1. more \in Seq(Segment) /\ Len(more) = Len(ls) + 1 /\ Len(ls) \in Nat
  OBVIOUS
<1>2. \A k \in 1 .. Len(ls) + 1 : more[k] = IF k <= Len(ls) THEN ls[k] ELSE seg
  OBVIOUS
<1> HIDE DEF more
<1>3. Pieces(ls) \in Seq(Seq(WireToken)) /\ Len(Pieces(ls)) = Len(ls)
  BY PiecesType
<1>4. Pieces(more) \in Seq(Seq(WireToken)) /\ Len(Pieces(more)) = Len(ls) + 1
  BY <1>1, PiecesType
<1>5. Behind(seg) \in Seq(WireToken)
  BY BehindType
<1>6. \A k \in 1 .. Len(ls) + 1 : Pieces(more)[k] = IF k <= Len(ls) THEN Pieces(ls)[k] ELSE Behind(seg)
  <2> TAKE k \in 1 .. Len(ls) + 1
  <2>1. Pieces(more)[k] = Behind(more[k])
    BY <1>1 DEF Pieces
  <2>2. k <= Len(ls) => Pieces(ls)[k] = Behind(ls[k])
    BY <1>1 DEF Pieces
  <2> QED BY <1>2, <2>1, <2>2
<1> DEFINE ps == Pieces(ls)
           qs == Pieces(more)
           b  == Behind(seg)
           E  == Seq(WireToken)
<1> HIDE DEF ps, qs, b, E
<1>7. qs = Append(ps, b)
  <2>1. ps \in Seq(E) /\ qs \in Seq(E) /\ b \in E /\ Len(ps) = Len(ls) /\ Len(qs) = Len(ls) + 1
    BY <1>3, <1>4, <1>5 DEF ps, qs, b, E
  <2>2. \A k \in 1 .. Len(ls) + 1 : qs[k] = IF k <= Len(ls) THEN ps[k] ELSE b
    BY <1>6 DEF ps, qs, b
  <2> QED BY <1>1, <2>1, <2>2
<1>8. FlattenSeq(Append(ps, b)) = FlattenSeq(ps) \o b
  BY <1>3, <1>5, FlattenAppend DEF ps, b
<1> QED BY <1>7, <1>8 DEF ps, qs, b, more

LEMMA WireStarted ==
  ASSUME NEW m \in Seq(Token), NEW ls \in Seq(Segment), NEW s \in Str
  PROVE  WireOf(m, StartLiteral(ls, s)) = WireOf(m, ls) \o <<Payload(s)>>
<1> DEFINE seg == [data |-> s, tail |-> <<>>]
           f   == FlattenSeq(Pieces(ls))
           one == <<Payload(s)>>
<1>1. seg \in Segment
  BY EmptySeq DEF Segment
<1>2. one \in Seq(WireToken) /\ Behind(seg) = one
  <2>1. one \in Seq(WireToken)
    BY PayloadType
  <2>2. Behind(seg) = one \o <<>>
    BY DEF Behind
  <2> HIDE DEF one
  <2> QED BY <2>1, <2>2
<1>3. f \in Seq(WireToken) /\ m \in Seq(WireToken)
  BY PiecesType, TokensOnWire
<1>4. WireOf(m, StartLiteral(ls, s)) = m \o (f \o one)
  <2> HIDE DEF one
  <2>1. FlattenSeq(Pieces(Append(ls, seg))) = f \o one
    <3> HIDE DEF seg
    <3> QED BY <1>1, <1>2, FlattenMore
  <2> QED BY <2>1 DEF WireOf, StartLiteral
<1> HIDE DEF f, one
<1>5. Associates(m, f, one)
  BY <1>2, <1>3, ConcatOfThree
<1> QED BY <1>4, <1>5 DEF Associates, WireOf, f, one

\* emit puts its tokens at the end of the wire, wherever it writes them.
LEMMA WireEmitted ==
  ASSUME TypeOK, NEW tokens \in Seq(Token)
  PROVE  WireOf(EmitMain(tokens), EmitTail(tokens)) = WireOf(main, lits) \o tokens
<1>1. main \in Seq(Token) /\ lits \in Seq(Segment) /\ tokens \in Seq(WireToken) /\ main \in Seq(WireToken)
  BY TokensOnWire DEF TypeOK
<1>2. CASE lits = <<>>
  <2>1. EmitTail(tokens) = <<>> /\ EmitMain(tokens) = main \o tokens
    BY <1>2 DEF EmitTail, EmitMain
  <2>2. Pieces(<<>>) = <<>>
    BY DEF Pieces
  <2>3. \A m \in Seq(WireToken) : WireOf(m, <<>>) = m
    BY <2>2, FlattenEmpty DEF WireOf
  <2>4. main \o tokens \in Seq(WireToken)
    BY <1>1
  <2> QED BY <1>1, <1>2, <2>1, <2>3, <2>4
<1>3. CASE lits # <<>>
  <2> DEFINE n     == Len(lits)
             front == SubSeq(lits, 1, n-1)
             last  == lits[n]
             seg   == [data |-> last.data, tail |-> last.tail \o tokens]
             f     == FlattenSeq(Pieces(front))
             b     == Behind(last)
  <2>1. n \in Nat \ {0} /\ last \in Segment
    BY <1>1, <1>3
  <2>2. front \in Seq(Segment) /\ Len(front) = n-1 /\ lits = Append(front, last)
    <3> DEFINE k == n-1
    <3>1. k \in Nat /\ k+1 = n
      BY <2>1
    <3> HIDE DEF k
    <3>2. /\ SubSeq(lits, 1, k) \in Seq(Segment) /\ Len(SubSeq(lits, 1, k)) = k
          /\ lits = Append(SubSeq(lits, 1, k), lits[k+1])
      BY <1>1, <3>1, CutLast
    <3> QED BY <3>1, <3>2 DEF k
  <2>3. last.tail \in Seq(Token) /\ last.data \in Str
    BY <2>1 DEF Segment
  <2>4. seg \in Segment
    BY <2>3 DEF Segment
  <2>5. EmitMain(tokens) = main /\ EmitTail(tokens) = [lits EXCEPT ![n] = seg]
    BY <1>3 DEF EmitMain, EmitTail
  <2>6. EmitTail(tokens) = Append(front, seg)
    <3> HIDE DEF seg, last
    <3>1. \A k \in 1 .. n-1 : front[k] = lits[k]
      BY <1>1, <2>1
    <3> HIDE DEF front
    <3> DEFINE new == [lits EXCEPT ![n] = seg]
    <3>2. new \in Seq(Segment) /\ Len(new) = n /\ \A k \in 1..n : new[k] = IF k = n THEN seg ELSE lits[k]
      BY <1>1, <2>1, <2>4
    <3>3. /\ Append(front, seg) \in Seq(Segment) /\ Len(Append(front, seg)) = n
          /\ \A k \in 1..n : Append(front, seg)[k] = IF k = n THEN seg ELSE front[k]
      BY <2>1, <2>2, <2>4
    <3> HIDE DEF new
    <3>4. \A k \in 1..n : new[k] = Append(front, seg)[k]
      BY <2>1, <3>1, <3>2, <3>3
    <3>5. new = Append(front, seg)
      BY <3>2, <3>3, <3>4, SeqEqual
    <3> QED BY <2>5, <3>5 DEF new
  <2>7. FlattenSeq(Pieces(lits)) = f \o b
    <3> HIDE DEF front, last
    <3> QED BY <2>1, <2>2, FlattenMore
  <2>8. FlattenSeq(Pieces(EmitTail(tokens))) = f \o Behind(seg)
    <3> HIDE DEF front, seg
    <3> QED BY <2>2, <2>4, <2>6, FlattenMore
  <2>9. Behind(seg) = b \o tokens
    <3> DEFINE one == <<Payload(last.data)>>
               t   == last.tail
    <3>1. one \in Seq(WireToken)
      BY <2>3, PayloadType
    <3>2. t \in Seq(WireToken)
      BY <2>3, TokensOnWire
    <3>3. Behind(seg) = one \o (t \o tokens) /\ b = one \o t
      BY DEF Behind
    <3> HIDE DEF one, t, b, seg
    <3>4. Associates(one, t, tokens)
      BY <1>1, <3>1, <3>2, ConcatOfThree
    <3> QED BY <3>3, <3>4 DEF Associates
  <2>10. f \in Seq(WireToken)
    <3> HIDE DEF front
    <3> QED BY <2>2, PiecesType
  <2>11. b \in Seq(WireToken)
    <3> HIDE DEF last
    <3> QED BY <2>1, BehindType
  <2> HIDE DEF f, b, seg
  <2>12. main \o (f \o (b \o tokens)) = (main \o (f \o b)) \o tokens
    <3> DEFINE fb == f \o b
    <3>1. fb \in Seq(WireToken)
      BY <2>10, <2>11
    <3>2. Associates(f, b, tokens)
      BY <1>1, <2>10, <2>11, ConcatOfThree
    <3> HIDE DEF fb
    <3>3. Associates(main, fb, tokens)
      BY <1>1, <3>1, ConcatOfThree
    <3> QED BY <3>2, <3>3 DEF Associates, fb
  <2> QED BY <2>5, <2>7, <2>8, <2>9, <2>12 DEF WireOf
<1> QED BY <1>2, <1>3

-----------------------------------------------------------------------------
(* The separators, and what is left without them. *)

LEMMA KeptType == \A token \in WireToken : Kept(token) \in Seq(WireToken)
<1> TAKE token \in WireToken
<1>1. <<>> \in Seq(WireToken) /\ <<token>> \in Seq(WireToken)
  OBVIOUS
<1> QED BY <1>1 DEF Kept

Keep == [token \in WireToken |-> Kept(token)]

LEMMA KeepType == Keep \in [WireToken -> Seq(WireToken)]
BY KeptType DEF Keep

LEMMA UnseparatedEach ==
  ASSUME NEW s \in Seq(WireToken)
  PROVE  Unseparated(s) = Each(Keep, s)
<1>1. \A i \in 1..Len(s) : Keep[s[i]] = Kept(s[i])
  BY DEF Keep
<1>2. [i \in 1..Len(s) |-> Keep[s[i]]] = [i \in 1..Len(s) |-> Kept(s[i])]
  BY <1>1
<1> QED BY <1>2 DEF Unseparated, Each

LEMMA UnseparatedConcat ==
  ASSUME NEW s \in Seq(WireToken), NEW t \in Seq(WireToken)
  PROVE  Unseparated(s \o t) = Unseparated(s) \o Unseparated(t)
<1> DEFINE both == s \o t
<1>1. both \in Seq(WireToken)
  OBVIOUS
<1> HIDE DEF both
<1>2. Unseparated(s) = Each(Keep, s) /\ Unseparated(t) = Each(Keep, t) /\ Unseparated(both) = Each(Keep, both)
  BY <1>1, UnseparatedEach
<1>3. Distributes(Keep, s, t)
  BY KeepType, EachConcat
<1> QED BY <1>2, <1>3 DEF Distributes, both

LEMMA UnseparatedType ==
  ASSUME NEW s \in Seq(WireToken)
  PROVE  Unseparated(s) \in Seq(WireToken)
BY UnseparatedEach, KeepType, EachType

LEMMA UnseparatedOne ==
  ASSUME NEW token \in WireToken
  PROVE  Unseparated(<<token>>) = Kept(token)
<1>1. <<token>> \in Seq(WireToken) /\ Keep[token] = Kept(token)
  BY DEF Keep
<1>2. Each(Keep, <<token>>) = Keep[token]
  BY KeepType, EachOne
<1> QED BY <1>1, <1>2, UnseparatedEach

\* What may come behind what.
Follow(before, after) ==
  /\ before \in {"heading", "unquoted", "quoted", "payload", ")"} => after \in {"SP", ")", "CRLF"}
  /\ before \in {"SP", "("} => after \notin {"SP", "CRLF"}
  /\ before = "SP" => after # ")"

Separated(line) == \A i \in 1 .. Len(line) - 1 : Follow(line[i].t, line[i+1].t)

Unended(line) == \A i \in 1..Len(line) : line[i].t # "CRLF"

LEMMA SeparatedConcat ==
  ASSUME NEW s \in Seq(WireToken), NEW t \in Seq(WireToken), s # <<>>, t # <<>>,
         Separated(s), Separated(t), Follow(s[Len(s)].t, t[1].t)
  PROVE  Separated(s \o t)
<1> DEFINE both == s \o t
<1>1. /\ Len(both) = Len(s) + Len(t) /\ Len(s) \in Nat \ {0} /\ Len(t) \in Nat \ {0}
      /\ \A i \in 1 .. Len(s) + Len(t) : both[i] = IF i <= Len(s) THEN s[i] ELSE t[i - Len(s)]
  OBVIOUS
<1> HIDE DEF both
<1>2. ASSUME NEW i \in 1 .. Len(both) - 1 PROVE Follow(both[i].t, both[i+1].t)
  <2>1. CASE i < Len(s)
    <3>1. i \in 1 .. Len(s)-1 /\ both[i] = s[i] /\ both[i+1] = s[i+1]
      BY <1>1, <2>1
    <3> QED BY <3>1 DEF Separated
  <2>2. CASE i = Len(s)
    <3>1. both[i] = s[Len(s)] /\ (i+1) - Len(s) = 1 /\ both[i+1] = t[(i+1) - Len(s)]
      BY <1>1, <2>2
    <3> QED BY <3>1
  <2>3. CASE i > Len(s)
    <3> DEFINE j == i - Len(s)
    <3>1. j \in 1 .. Len(t)-1 /\ (i+1) - Len(s) = j+1 /\ both[i] = t[j] /\ both[i+1] = t[(i+1) - Len(s)]
      BY <1>1, <2>3
    <3> HIDE DEF j
    <3> QED BY <3>1 DEF Separated
  <2> QED BY <1>1, <2>1, <2>2, <2>3
<1> QED BY <1>2 DEF Separated, both

LEMMA UnendedConcat ==
  ASSUME NEW s \in Seq(WireToken), NEW t \in Seq(WireToken), Unended(s), Unended(t)
  PROVE  Unended(s \o t)
<1> DEFINE both == s \o t
<1>1. /\ Len(both) = Len(s) + Len(t) /\ Len(s) \in Nat /\ Len(t) \in Nat
      /\ \A i \in 1 .. Len(s) + Len(t) : both[i] = IF i <= Len(s) THEN s[i] ELSE t[i - Len(s)]
  OBVIOUS
<1> HIDE DEF both
<1>2. ASSUME NEW i \in 1..Len(both) PROVE both[i].t # "CRLF"
  <2>1. i <= Len(s) \/ i - Len(s) \in 1..Len(t)
    BY <1>1
  <2> QED BY <1>1, <2>1 DEF Unended
<1> QED BY <1>2 DEF Unended, both

-----------------------------------------------------------------------------
(* What an argument adds. *)

\* The kind of the last token that an argument puts on the wire.
LastOf(item) == IF Form(item) = "literal" THEN "payload" ELSE Emitted(item).t

Spacing(spaced, item) == IF spaced THEN <<SP, Emitted(item)>> ELSE <<Emitted(item)>>
Added(spaced, item) ==
  IF Form(item) = "literal" THEN Spacing(spaced, item) \o <<Payload(item.s)>>
                            ELSE Spacing(spaced, item)

\* The kinds of what encodeData emits.
LEMMA EmittedKind ==
  ASSUME NEW item \in Item
  PROVE  /\ Emitted(item).t \in {"(", ")", "marker", "quoted", "unquoted"}
         /\ Emitted(item).t = "(" <=> item.k = "open"
         /\ Emitted(item).t = ")" <=> item.k = "close"
         /\ Form(item) = "literal" => Emitted(item) = Marker(item.s.len) /\ Emitted(item).t = "marker"
                                      /\ item.k \notin {"open", "close"}
         /\ Form(item) # "literal" => Emitted(item).t # "marker"
<1>1. CASE item.k = "open"
  BY <1>1 DEF Emitted, Open, Form
<1>2. CASE item.k = "close"
  BY <1>2 DEF Emitted, Close, Form
<1>3. CASE item.k \notin {"open", "close"}
  <2>1. Form(item) \in {"literal", "quoted", "unquoted"}
    BY DEF Form, StringForm
  <2>2. CASE Form(item) = "literal"
    <3>1. Emitted(item) = Marker(item.s.len)
      BY <1>3, <2>2 DEF Emitted
    <3> QED BY <1>3, <2>2, <3>1 DEF Marker
  <2>3. CASE Form(item) = "quoted"
    <3>1. Emitted(item) = Quoted(item)
      BY <1>3, <2>3 DEF Emitted
    <3> QED BY <1>3, <2>3, <3>1 DEF Quoted
  <2>4. CASE Form(item) = "unquoted"
    <3>1. Emitted(item) = Unquoted(item)
      BY <1>3, <2>4 DEF Emitted
    <3> QED BY <1>3, <2>4, <3>1 DEF Unquoted
  <2> QED BY <2>1, <2>2, <2>3, <2>4
<1> QED BY <1>1, <1>2, <1>3

LEMMA AddedTokens ==
  ASSUME NEW item \in Item, ~ Invalid(item), ~ BadMonth(item), NEW spaced \in BOOLEAN,
         spaced => item.k # "close"
  PROVE  /\ Spacing(spaced, item) \in Seq(Token)
         /\ Added(spaced, item) \in Seq(WireToken) /\ Added(spaced, item) # <<>>
         /\ Unseparated(Added(spaced, item)) = Sent(item)
         /\ Separated(Added(spaced, item)) /\ Unended(Added(spaced, item))
         /\ Added(spaced, item)[1].t = IF spaced THEN "SP" ELSE Emitted(item).t
         /\ Added(spaced, item)[Len(Added(spaced, item))].t = LastOf(item)
<1> DEFINE e == Emitted(item)
           p == Payload(item.s)
<1>1. e \in Token /\ SP \in Token /\ SP.t = "SP"
  BY EmittedToken DEF SP, Token
<1>2. e \in WireToken /\ SP \in WireToken /\ p \in WireToken /\ p.t = "payload"
  <2>1. item.s \in Str
    BY DEF Item
  <2>2. e \in WireToken /\ SP \in WireToken
    BY <1>1 DEF WireToken
  <2> QED BY <2>1, <2>2, PayloadType DEF Payload
<1>3. /\ e.t \in {"(", ")", "marker", "quoted", "unquoted"} /\ (spaced => e.t # ")")
      /\ (Form(item) = "literal" => e.t = "marker") /\ (Form(item) # "literal" => e.t # "marker")
  BY EmittedKind
<1>4. Kept(e) = <<e>> /\ Kept(p) = <<p>> /\ Kept(SP) = <<>>
  BY <1>1, <1>2, <1>3 DEF Kept
<1>5. Form(item) = "literal" => e = Marker(item.s.len)
  BY EmittedKind
<1>6. Sent(item) = IF Form(item) = "literal" THEN <<e, p>> ELSE <<e>>
  BY <1>5 DEF Sent
<1>7. LastOf(item) = IF Form(item) = "literal" THEN "payload" ELSE e.t
  BY DEF LastOf
<1>8. Added(spaced, item) =
        IF Form(item) = "literal" THEN (IF spaced THEN <<SP, e>> ELSE <<e>>) \o <<p>>
                                  ELSE IF spaced THEN <<SP, e>> ELSE <<e>>
  BY DEF Added, Spacing
<1>9. Spacing(spaced, item) = IF spaced THEN <<SP, e>> ELSE <<e>>
  BY DEF Spacing
<1>10. Emitted(item) = e
  OBVIOUS
<1> HIDE DEF e, p
<1>11. Spacing(spaced, item) \in Seq(Token)
  BY <1>1, <1>9
<1> DEFINE se == <<SP>> \o <<e>>
<1>12. Unseparated(<<e>>) = <<e>> /\ Unseparated(<<p>>) = <<p>> /\ Unseparated(<<SP>>) = <<>>
  BY <1>2, <1>4, UnseparatedOne
<1>13. <<e>> \in Seq(WireToken) /\ <<p>> \in Seq(WireToken) /\ <<SP>> \in Seq(WireToken)
  BY <1>2
<1>14. <<SP, e>> = <<SP>> \o <<e>> /\ <<SP, e>> \in Seq(WireToken)
  BY <1>2
<1>15. Unseparated(<<SP, e>>) = <<e>>
  <2>1. Unseparated(<<SP>> \o <<e>>) = Unseparated(<<SP>>) \o Unseparated(<<e>>)
    BY <1>13, UnseparatedConcat
  <2>2. <<>> \o <<e>> = <<e>>
    OBVIOUS
  <2> QED BY <1>12, <1>14, <2>1, <2>2
<1>16. Unseparated(<<e>> \o <<p>>) = <<e>> \o <<p>> /\ Unseparated(<<SP, e>> \o <<p>>) = <<e>> \o <<p>>
  BY <1>12, <1>13, <1>14, <1>15, UnseparatedConcat
<1>17. <<e>> \o <<p>> = <<e, p>> /\ <<SP, e>> \o <<p>> = <<SP, e, p>>
  BY <1>2, ConcatOfTuples
<1>18. /\ Separated(<<e>>) /\ Unended(<<e>>)
       /\ spaced => Separated(<<SP, e>>) /\ Unended(<<SP, e>>)
       /\ e.t = "marker" => Separated(<<e, p>>) /\ Unended(<<e, p>>)
       /\ e.t = "marker" => Separated(<<SP, e, p>>) /\ Unended(<<SP, e, p>>)
  BY <1>1, <1>2, <1>3 DEF Separated, Unended, Follow
<1>19. CASE Form(item) = "literal" /\ spaced
  <2>1. Added(spaced, item) = <<SP, e, p>>
    BY <1>8, <1>17, <1>19
  <2>2. Unseparated(<<SP, e, p>>) = <<e, p>>
    BY <1>16, <1>17
  <2>3. <<SP, e, p>> \in Seq(WireToken) /\ Len(<<SP, e, p>>) = 3 /\ <<SP, e, p>> # <<>>
    BY <1>2
  <2>4. /\ Added(spaced, item)[1] = SP /\ Len(Added(spaced, item)) = 3
        /\ Added(spaced, item)[Len(Added(spaced, item))] = p
    BY <2>1
  <2>5. Separated(<<SP, e, p>>) /\ Unended(<<SP, e, p>>)
    BY <1>3, <1>18, <1>19
  <2>6. LastOf(item) = "payload" /\ Sent(item) = <<e, p>>
    BY <1>6, <1>7, <1>19
  <2>7. Added(spaced, item)[1].t = "SP" /\ Added(spaced, item)[Len(Added(spaced, item))].t = LastOf(item)
    BY <1>1, <1>2, <2>4, <2>6
  <2> QED BY <1>11, <1>19, <2>1, <2>2, <2>3, <2>5, <2>6, <2>7
<1>20. CASE Form(item) = "literal" /\ ~ spaced
  <2>1. Added(spaced, item) = <<e, p>>
    BY <1>8, <1>17, <1>20
  <2>2. Unseparated(<<e, p>>) = <<e, p>>
    BY <1>16, <1>17
  <2>3. <<e, p>> \in Seq(WireToken) /\ Len(<<e, p>>) = 2 /\ <<e, p>> # <<>>
    BY <1>2
  <2>4. /\ Added(spaced, item)[1] = e /\ Len(Added(spaced, item)) = 2
        /\ Added(spaced, item)[Len(Added(spaced, item))] = p
    BY <2>1
  <2>5. Separated(<<e, p>>) /\ Unended(<<e, p>>)
    BY <1>3, <1>18, <1>20
  <2>6. LastOf(item) = "payload" /\ Sent(item) = <<e, p>>
    BY <1>6, <1>7, <1>20
  <2>7. Added(spaced, item)[1].t = Emitted(item).t /\ Added(spaced, item)[Len(Added(spaced, item))].t = LastOf(item)
    BY <1>2, <1>10, <2>4, <2>6
  <2> QED BY <1>11, <1>20, <2>1, <2>2, <2>3, <2>5, <2>6, <2>7
<1>21. CASE Form(item) # "literal" /\ spaced
  <2>1. Added(spaced, item) = <<SP, e>>
    BY <1>8, <1>21
  <2>2. /\ Added(spaced, item)[1] = SP /\ Len(Added(spaced, item)) = 2
        /\ Added(spaced, item)[Len(Added(spaced, item))] = e /\ <<SP, e>> # <<>>
    BY <2>1
  <2>3. Added(spaced, item)[1].t = "SP" /\ Added(spaced, item)[Len(Added(spaced, item))].t = LastOf(item)
    BY <1>1, <1>7, <1>21, <2>2
  <2>4. Sent(item) = <<e>> /\ Separated(<<SP, e>>) /\ Unended(<<SP, e>>)
    BY <1>6, <1>18, <1>21
  <2> QED BY <1>11, <1>14, <1>15, <1>21, <2>1, <2>2, <2>3, <2>4
<1>22. CASE Form(item) # "literal" /\ ~ spaced
  <2>1. Added(spaced, item) = <<e>>
    BY <1>8, <1>22
  <2>2. /\ Added(spaced, item)[1] = e /\ Len(Added(spaced, item)) = 1
        /\ Added(spaced, item)[Len(Added(spaced, item))] = e /\ <<e>> # <<>>
    BY <2>1
  <2>3. /\ Added(spaced, item)[1].t = Emitted(item).t
        /\ Added(spaced, item)[Len(Added(spaced, item))].t = LastOf(item)
    BY <1>7, <1>22, <1>10, <2>2
  <2>4. Sent(item) = <<e>> /\ Separated(<<e>>) /\ Unended(<<e>>)
    BY <1>6, <1>18, <1>22
  <2> QED BY <1>11, <1>12, <1>13, <1>22, <2>1, <2>2, <2>3, <2>4
<1> QED BY <1>19, <1>20, <1>21, <1>22

-----------------------------------------------------------------------------
(* The wire of a command as it is built. *)

\* What the arguments before the one that encodeData reaches next look like.
SentUpTo(args, k) == FlattenSeq([i \in 1..k |-> Sent(args[i])])

\* The same for the call being encoded.
SoFar == FlattenSeq([i \in 1..next-1 |-> Sent(call.args[i])])

\* How the line ends before that argument.
LastSoFar == IF next = 1 THEN "heading" ELSE LastOf(call.args[next-1])

WireInv ==
  /\ Separated(Wire)
  /\ pc = "encode" \/ outcome = "built" => Unseparated(Wire) = SoFar
  /\ pc = "encode" => /\ outcome = "none" /\ Wire # <<>> /\ Unended(Wire)
                      /\ Wire[Len(Wire)].t = LastSoFar
  /\ outcome = "built" => \A i \in 1..Len(Wire) : Wire[i] = CRLF <=> i = Len(Wire)

LEMMA SentStep ==
  ASSUME NEW args \in Seq(Item), NEW k \in Nat, k < Len(args)
  PROVE  SentUpTo(args, k+1) = SentUpTo(args, k) \o Sent(args[k+1])
<1> DEFINE E    == {Emitted(item) : item \in Item} \union {Marker(item.s.len) : item \in Item}
                   \union {Payload(item.s) : item \in Item}
           old  == [i \in 1..k |-> Sent(args[i])]
           new  == [i \in 1 .. k+1 |-> Sent(args[i])]
           last == Sent(args[k+1])
<1>1. \A item \in Item : Sent(item) \in Seq(E)
  <2> TAKE item \in Item
  <2>1. Emitted(item) \in E /\ Marker(item.s.len) \in E /\ Payload(item.s) \in E
    OBVIOUS
  <2> HIDE DEF E
  <2> QED BY <2>1 DEF Sent
<1>2. \A i \in 1 .. k+1 : args[i] \in Item
  OBVIOUS
<1>3. \A i \in 1 .. k+1 : Sent(args[i]) \in Seq(E)
  <2> HIDE DEF E
  <2> QED BY <1>1, <1>2
<1> HIDE DEF E
<1>4. old \in Seq(Seq(E)) /\ Len(old) = k /\ last \in Seq(E)
  BY <1>3
<1>5. new \in Seq(Seq(E)) /\ Len(new) = k+1
  BY <1>3
<1>6. (\A i \in 1..k : new[i] = old[i]) /\ new[k+1] = last
  OBVIOUS
<1> HIDE DEF old, new, last
<1>7. new = Append(old, last)
  <2> DEFINE app == Append(old, last)
  <2>1. app \in Seq(Seq(E)) /\ Len(app) = k+1 /\ (\A i \in 1..k : app[i] = old[i]) /\ app[k+1] = last
    BY <1>4
  <2> HIDE DEF app
  <2>2. \A i \in 1 .. k+1 : new[i] = app[i]
    BY <1>6, <2>1
  <2>3. new = app
    BY <1>5, <2>1, <2>2, SeqEqual
  <2> QED BY <2>3 DEF app
<1>8. FlattenSeq(Append(old, last)) = FlattenSeq(old) \o last
  BY <1>4, FlattenAppend
<1> QED BY <1>7, <1>8 DEF SentUpTo, old, new, last

LEMMA WireEmpty == \A m \in Seq(Token) : WireOf(m, <<>>) = m
<1> TAKE m \in Seq(Token)
<1>1. Pieces(<<>>) = <<>>
  BY DEF Pieces
<1> QED BY <1>1, FlattenEmpty DEF WireOf

LEMMA WireInit == Init => WireInv
<1> SUFFICES ASSUME Init PROVE WireInv
  OBVIOUS
<1>1. Wire = <<>>
  <2>1. <<>> \in Seq(Token) /\ main = <<>> /\ lits = <<>>
    BY DEF Init
  <2> QED BY <2>1, WireEmpty, WireIsOf
<1>2. Len(<<>>) = 0 /\ 1 .. 0-1 = {} /\ pc = "idle" /\ outcome = "none"
  BY DEF Init
<1> QED BY <1>1, <1>2 DEF WireInv, Separated

LEMMA WireBegin == ASSUME NEW c \in Calls, Begin(c) PROVE WireInv'
<1>1. Heading \in Token /\ Heading \in WireToken /\ Heading.t = "heading" /\ Kept(Heading) = <<>>
  BY DEF Heading, Token, WireToken, Kept
<1>2. main' = <<Heading>> /\ lits' = <<>> /\ next' = 1 /\ pc' = "encode" /\ outcome' = "none"
  BY DEF Begin
<1>3. Wire' = <<Heading>>
  <2>1. <<Heading>> \in Seq(Token)
    BY <1>1
  <2> QED BY <1>2, <2>1, WireEmpty, WireIsOf
<1> DEFINE h == Heading
           w == <<h>>
<1>4. Unseparated(w) = <<>>
  BY <1>1, UnseparatedOne
<1>5. SoFar' = <<>>
  <2>1. 1 .. next'-1 = 1..0
    BY <1>2
  <2> DEFINE sent == [i \in 1 .. next'-1 |-> Sent(call'.args[i])]
  <2>2. SoFar' = FlattenSeq(sent)
    BY DEF SoFar
  <2>3. sent = <<>>
    BY <2>1
  <2> HIDE DEF sent
  <2> QED BY <2>2, <2>3, FlattenEmpty
<1> HIDE DEF h
<1>6. Len(w) = 1 /\ w[1] = h /\ w # <<>>
  OBVIOUS
<1>7. Separated(w) /\ Unended(w)
  BY <1>1, <1>6 DEF Separated, Unended, h
<1>8. LastSoFar' = "heading"
  BY <1>2 DEF LastSoFar
<1> HIDE DEF w
<1>9. Wire' = w /\ w[Len(w)].t = "heading"
  BY <1>1, <1>3, <1>6 DEF w, h
<1> QED BY <1>2, <1>4, <1>5, <1>6, <1>7, <1>8, <1>9 DEF WireInv

LEMMA WireDropped == ASSUME Fail \/ Panic PROVE WireInv'
<1>1. main' = <<>> /\ lits' = <<>> /\ pc' = "idle" /\ outcome' \in {"invalid", "panic"}
  BY DEF Fail, Panic
<1>2. Wire' = <<>>
  <2>1. <<>> \in Seq(Token)
    OBVIOUS
  <2> QED BY <1>1, <2>1, WireEmpty, WireIsOf
<1>3. Separated(<<>>)
  BY DEF Separated
<1> QED BY <1>1, <1>2, <1>3 DEF WireInv

LEMMA WireStutter == ASSUME WireInv, UNCHANGED vars PROVE WireInv'
BY DEF vars, WireInv, Wire, SoFar, LastSoFar

\* An argument goes behind what is already there.
LEMMA WireGrows ==
  ASSUME IInv, EncodeData
  PROVE  LET item == call.args[next] IN Wire' = Wire \o Added(Spaced(call.args, next), item)
<1> DEFINE item   == call.args[next]
           spaced == Spaced(call.args, next)
           tokens == Spacing(spaced, item)
           m      == EmitMain(tokens)
           ls     == EmitTail(tokens)
<1>1. item \in Item /\ ~ Invalid(item) /\ ~ BadMonth(item) /\ spaced \in BOOLEAN
      /\ (spaced => item.k # "close")
  BY ElementOfSeq, ArgumentsAreItems DEF EncodeData, IInv, TypeOK, CallInv, Spaced
<1>2. /\ main' = m
      /\ lits' = IF Form(item) = "literal" THEN StartLiteral(ls, item.s) ELSE ls
  BY DEF EncodeData, Spacing
<1> HIDE DEF item, spaced
<1>3. tokens \in Seq(Token)
  BY <1>1, AddedTokens
<1> HIDE DEF tokens
<1>4. m \in Seq(Token) /\ ls \in Seq(Segment)
  BY <1>3, EmitExtendsLastLine DEF IInv
<1>5. WireOf(m, ls) = Wire \o tokens
  BY <1>3, WireEmitted, WireIsOf DEF IInv
<1> HIDE DEF m, ls
<1>6. CASE Form(item) # "literal"
  <2>1. Added(spaced, item) = tokens
    BY <1>6 DEF Added, tokens
  <2>2. Wire' = WireOf(m, ls)
    BY <1>2, <1>6, WireIsOf
  <2> QED BY <1>5, <2>1, <2>2 DEF item, spaced
<1>7. CASE Form(item) = "literal"
  <2> DEFINE one == <<Payload(item.s)>>
  <2>1. item.s \in Str
    BY <1>1 DEF Item
  <2>2. Added(spaced, item) = tokens \o one
    BY <1>7 DEF Added, tokens
  <2>3. Wire' = WireOf(m, ls) \o one
    BY <1>2, <1>4, <1>7, <2>1, WireStarted, WireIsOf
  <2>4. one \in Seq(WireToken)
    BY <2>1, PayloadType
  <2>5. tokens \in Seq(WireToken)
    BY <1>3, TokensOnWire
  <2>6. Wire \in Seq(WireToken)
    BY WireType, WireIsOf DEF IInv, TypeOK
  <2> HIDE DEF one
  <2>7. Associates(Wire, tokens, one)
    BY <2>4, <2>5, <2>6, ConcatOfThree
  <2> QED BY <1>5, <2>2, <2>3, <2>7 DEF Associates, item, spaced
<1> QED BY <1>6, <1>7

LEMMA WireEncoded == ASSUME IInv, WireInv, EncodeData PROVE WireInv'
<1> DEFINE item   == call.args[next]
           spaced == Spaced(call.args, next)
           added  == Added(spaced, item)
           last   == Wire[Len(Wire)].t
           prev   == call.args[next-1]
<1>1. /\ call.args \in Seq(Item) /\ next \in Nat \ {0} /\ next <= Len(call.args)
      /\ Len(call.args) \in Nat
      /\ pc = "encode" /\ ~ Invalid(item) /\ ~ BadMonth(item)
      /\ pc' = pc /\ call' = call /\ next' = next + 1 /\ outcome' = outcome
  BY ArgumentsAreItems DEF EncodeData, IInv, TypeOK, CallInv
<1>2. item \in Item /\ spaced \in BOOLEAN /\ (spaced => item.k # "close")
  BY <1>1, ElementOfSeq DEF Spaced
<1>3. next # 1 => prev \in Item
  <2>1. next # 1 => next-1 \in 1..Len(call.args)
    BY <1>1
  <2> QED BY <1>1, <2>1, ElementOfSeq
<1>4. spaced = (item.k # "close" /\ (next # 1 => prev.k # "open"))
  BY <1>1 DEF Spaced
<1>5. Wire' = Wire \o added
  BY WireGrows
<1>6. /\ Separated(Wire) /\ Unseparated(Wire) = SoFar /\ outcome = "none"
      /\ Wire # <<>> /\ Unended(Wire) /\ last = LastSoFar
  BY <1>1 DEF WireInv
<1>7. Wire \in Seq(WireToken)
  BY WireType, WireIsOf DEF IInv, TypeOK
<1> HIDE DEF item, spaced
<1>8. /\ added \in Seq(WireToken) /\ added # <<>> /\ Unseparated(added) = Sent(item)
      /\ Separated(added) /\ Unended(added)
      /\ added[1].t = IF spaced THEN "SP" ELSE Emitted(item).t
      /\ added[Len(added)].t = LastOf(item)
  BY <1>1, <1>2, AddedTokens DEF item
<1> HIDE DEF added, prev
<1>9. /\ last \in {"heading", "(", ")", "payload", "quoted", "unquoted"}
      /\ last = "(" <=> next # 1 /\ prev.k = "open"
  <2>1. CASE next = 1
    BY <1>6, <2>1 DEF LastSoFar
  <2>2. CASE next # 1
    <3>1. last = LastOf(prev)
      BY <1>6, <2>2 DEF LastSoFar, prev
    <3>2. /\ Emitted(prev).t \in {"(", ")", "marker", "quoted", "unquoted"}
          /\ Emitted(prev).t = "(" <=> prev.k = "open"
          /\ Form(prev) = "literal" => prev.k # "open"
          /\ Form(prev) # "literal" => Emitted(prev).t # "marker"
      BY <1>3, <2>2, EmittedKind
    <3> HIDE DEF last
    <3> QED BY <2>2, <3>1, <3>2 DEF LastOf
  <2> QED BY <2>1, <2>2
<1>10. /\ Emitted(item).t \in {"(", ")", "marker", "quoted", "unquoted"}
       /\ Emitted(item).t = ")" <=> item.k = "close"
  BY <1>2, EmittedKind
<1> HIDE DEF last
<1>11. Follow(last, added[1].t)
  BY <1>4, <1>8, <1>9, <1>10 DEF Follow
<1>12. Separated(Wire \o added)
  BY <1>6, <1>7, <1>8, <1>11, SeparatedConcat DEF last
<1>13. Unended(Wire \o added)
  BY <1>6, <1>7, <1>8, UnendedConcat
<1>14. Unseparated(Wire \o added) = SoFar \o Sent(item)
  BY <1>6, <1>7, <1>8, UnseparatedConcat
<1>15. SoFar' = SoFar \o Sent(item)
  <2> DEFINE k == next-1
  <2>1. k \in Nat /\ k < Len(call.args) /\ k+1 = next /\ next'-1 = next
    BY <1>1
  <2>2. SoFar = SentUpTo(call.args, k)
    BY DEF SoFar, SentUpTo
  <2>3. SoFar' = SentUpTo(call.args, next)
    BY <1>1, <2>1 DEF SoFar, SentUpTo
  <2> HIDE DEF k
  <2>4. SentUpTo(call.args, k+1) = SentUpTo(call.args, k) \o Sent(call.args[k+1])
    BY <1>1, <2>1, SentStep
  <2> QED BY <2>1, <2>2, <2>3, <2>4 DEF item
<1>16. LastSoFar' = LastOf(item)
  <2>1. next' # 1 /\ next'-1 = next
    BY <1>1
  <2>2. call'.args[next'-1] = item
    BY <1>1, <2>1 DEF item
  <2>3. LastSoFar' = LastOf(call'.args[next'-1])
    BY <2>1 DEF LastSoFar
  <2> QED BY <2>2, <2>3
<1>17. /\ Wire \o added # <<>>
       /\ (Wire \o added)[Len(Wire \o added)].t = LastOf(item)
  <2>1. /\ Len(Wire \o added) = Len(Wire) + Len(added) /\ Len(Wire) \in Nat /\ Len(added) \in Nat \ {0}
        /\ Wire \o added \in Seq(WireToken)
    BY <1>7, <1>8
  <2> DEFINE n == Len(Wire) + Len(added)
  <2>2. n \in 1..n /\ ~ (n <= Len(Wire)) /\ n - Len(Wire) = Len(added)
    BY <2>1
  <2>3. (Wire \o added)[n] = added[n - Len(Wire)]
    BY <1>7, <1>8, <2>2, ConcatProperties
  <2>4. (Wire \o added)[Len(Wire \o added)] = added[Len(added)]
    BY <2>1, <2>2, <2>3
  <2> QED BY <1>8, <2>1, <2>4
<1>18. pc' = "encode" /\ outcome' = "none"
  BY <1>1, <1>6
<1> DEFINE w == Wire \o added
<1> HIDE DEF w
<1>19. /\ Wire' = w /\ Separated(w) /\ Unended(w) /\ Unseparated(w) = SoFar'
       /\ w # <<>> /\ w[Len(w)].t = LastSoFar'
  BY <1>5, <1>12, <1>13, <1>14, <1>15, <1>16, <1>17 DEF w
<1> QED BY <1>18, <1>19 DEF WireInv

LEMMA WireFinished == ASSUME IInv, WireInv, Finish PROVE WireInv'
<1> DEFINE end  == <<CRLF>>
           last == Wire[Len(Wire)].t
           w    == Wire \o end
<1>1. /\ pc = "encode" /\ pc' = "idle" /\ outcome' = "built" /\ call' = call /\ next' = next
      /\ main' = EmitMain(<<CRLF>>) /\ lits' = EmitTail(<<CRLF>>)
  BY DEF Finish
<1>2. /\ call \in Calls /\ call.args \in Seq(Item) /\ Len(call.args) \in Nat
      /\ next = Len(call.args) + 1
  BY ArgumentsAreItems DEF Finish, IInv, TypeOK, CallInv
<1>3. CRLF \in Token /\ CRLF \in WireToken /\ CRLF.t = "CRLF" /\ Kept(CRLF) = <<>>
  BY DEF CRLF, Token, WireToken, Kept
<1>4. end \in Seq(Token) /\ end \in Seq(WireToken) /\ Len(end) = 1 /\ end[1] = CRLF /\ end # <<>>
  BY <1>3
<1>5. Unseparated(end) = <<>>
  BY <1>3, UnseparatedOne
<1> HIDE DEF end
<1>6. Wire' = w
  BY <1>1, <1>4, WireEmitted, WireIsOf DEF IInv, end
<1>7. /\ Separated(Wire) /\ Unseparated(Wire) = SoFar
      /\ Wire # <<>> /\ Unended(Wire) /\ last = LastSoFar
  BY <1>1 DEF WireInv
<1>8. Wire \in Seq(WireToken)
  BY WireType, WireIsOf DEF IInv, TypeOK
<1>9. last \in {"heading", ")", "payload", "quoted", "unquoted"}
  <2>1. CASE next = 1
    BY <1>7, <2>1 DEF LastSoFar
  <2>2. CASE next # 1
    <3> DEFINE prev == call.args[next-1]
    <3>1. next-1 = Len(call.args) /\ Len(call.args) \in 1..Len(call.args) /\ call.args # <<>>
      BY <1>2, <2>2
    <3>2. prev \in Item /\ prev.k # "open"
      BY <1>2, <3>1, CallsAssumption
    <3>3. last = LastOf(prev)
      BY <1>7, <2>2 DEF LastSoFar
    <3> HIDE DEF prev, last
    <3>4. /\ Emitted(prev).t \in {"(", ")", "marker", "quoted", "unquoted"}
          /\ Emitted(prev).t = "(" <=> prev.k = "open"
          /\ Form(prev) # "literal" => Emitted(prev).t # "marker"
      BY <3>2, EmittedKind
    <3> QED BY <3>2, <3>3, <3>4 DEF LastOf
  <2> QED BY <2>1, <2>2
<1> HIDE DEF last
<1>10. Separated(w)
  <2>1. Follow(last, "CRLF")
    BY <1>9 DEF Follow
  <2>2. Separated(end)
    BY <1>4 DEF Separated
  <2>3. end # <<>> /\ end[1].t = "CRLF"
    BY <1>3, <1>4
  <2> QED BY <1>4, <1>7, <1>8, <2>1, <2>2, <2>3, SeparatedConcat DEF last
<1>11. Unseparated(w) = SoFar'
  <2>1. Unseparated(w) = Unseparated(Wire) \o <<>>
    BY <1>4, <1>5, <1>8, UnseparatedConcat
  <2>2. Unseparated(Wire) \in Seq(WireToken)
    BY <1>8, UnseparatedType
  <2>3. SoFar' = SoFar
    BY <1>1 DEF SoFar
  <2> QED BY <1>7, <2>1, <2>2, <2>3
<1>12. \A i \in 1..Len(w) : w[i] = CRLF <=> i = Len(w)
  <2>1. /\ Len(w) = Len(Wire) + 1 /\ Len(Wire) \in Nat /\ w[Len(Wire) + 1] = CRLF
        /\ \A i \in 1..Len(Wire) : w[i] = Wire[i]
    <3>1. Len(w) = Len(Wire) + 1 /\ Len(Wire) \in Nat
      <4>1. Len(w) = Len(Wire) + Len(end)
        BY <1>4, <1>8, ConcatProperties
      <4>2. Len(Wire) \in Nat
        BY <1>8
      <4> QED BY <1>4, <4>1, <4>2
    <3>2. \A i \in 1 .. Len(Wire) + Len(end) : w[i] = IF i <= Len(Wire) THEN Wire[i] ELSE end[i - Len(Wire)]
      BY <1>4, <1>8, ConcatProperties
    <3>3. ~ (Len(Wire) + 1 <= Len(Wire)) /\ Len(Wire) + 1 - Len(Wire) = 1
      BY <3>1
    <3> HIDE DEF w
    <3> QED BY <1>4, <3>1, <3>2, <3>3
  <2>2. \A i \in 1..Len(Wire) : Wire[i] # CRLF
    BY <1>3, <1>7 DEF Unended
  <2> HIDE DEF w
  <2> QED BY <2>1, <2>2
<1> HIDE DEF w
<1> QED BY <1>1, <1>6, <1>10, <1>11, <1>12 DEF WireInv

\* WireInv holds in every state of every sequence of calls.
THEOREM WireInvariant == Spec => [](IInv /\ WireInv)
<1>1. IInv /\ WireInv /\ [Next]_vars => WireInv'
  BY WireBegin, WireEncoded, WireDropped, WireFinished, WireStutter DEF Next
<1> QED BY <1>1, WireInit, InductiveInvariant, PTL DEF Spec

\* No two arguments fuse, and no space is where the grammar has none (command.go
\* encodeData and the lists it writes).
THEOREM AlwaysWellSeparated == Spec => []WellSeparated
<1>1. WireInv => WellSeparated
  BY DEF WireInv, WellSeparated, Separated, Follow
<1> QED BY <1>1, WireInvariant, PTL

-----------------------------------------------------------------------------
(* What a command that has been built is. *)

BuiltInv ==
  /\ outcome = "built" => pc = "idle"
  /\ pc = "encode" \/ outcome = "built" =>
       call \in Calls /\ main # <<>> /\ main[1] = Heading
  /\ outcome = "built" => next = Len(call.args) + 1
  /\ pc = "idle" /\ outcome # "built" => main = <<>> /\ lits = <<>>

LEMMA MainGrows ==
  ASSUME TypeOK, main # <<>>, NEW tokens \in Seq(Token)
  PROVE  EmitMain(tokens) # <<>> /\ EmitMain(tokens)[1] = main[1]
<1>1. main \in Seq(Token)
  BY DEF TypeOK
<1>2. 1 \in 1..Len(main) /\ Len(main \o tokens) = Len(main) + Len(tokens) /\ (main \o tokens)[1] = main[1]
  BY <1>1
<1>3. main \o tokens # <<>>
  BY <1>1, <1>2
<1> QED BY <1>2, <1>3 DEF EmitMain

LEMMA BuiltNext == IInv /\ BuiltInv /\ [Next]_vars => BuiltInv'
<1> SUFFICES ASSUME IInv, BuiltInv, [Next]_vars PROVE BuiltInv'
  OBVIOUS
<1>1. ASSUME NEW c \in Calls, Begin(c) PROVE BuiltInv'
  <2>1. <<Heading>> # <<>> /\ <<Heading>>[1] = Heading
    OBVIOUS
  <2> QED BY <1>1, <2>1 DEF Begin, BuiltInv
<1>2. CASE EncodeData
  <2> DEFINE item   == call.args[next]
             tokens == IF Spaced(call.args, next) THEN <<SP, Emitted(item)>> ELSE <<Emitted(item)>>
  <2>1. item \in Item
    BY <1>2, ElementOfSeq, ArgumentsAreItems DEF EncodeData, IInv, TypeOK, CallInv
  <2>2. Emitted(item) \in Token
    BY <1>2, <2>1, EmittedToken DEF EncodeData
  <2>3. SP \in Token
    BY DEF SP, Token
  <2>4. tokens \in Seq(Token)
    BY <2>2, <2>3
  <2>5. main' = EmitMain(tokens)
    BY <1>2 DEF EncodeData
  <2>6. pc = "encode" /\ UNCHANGED <<pc, call, outcome>>
    BY <1>2 DEF EncodeData
  <2> HIDE DEF tokens
  <2>7. main' # <<>> /\ main'[1] = Heading
    BY <2>4, <2>5, <2>6, MainGrows DEF IInv, BuiltInv
  <2> QED BY <2>6, <2>7 DEF BuiltInv
<1>3. CASE Fail \/ Panic
  BY <1>3 DEF Fail, Panic, BuiltInv
<1>4. CASE Finish
  <2>1. <<CRLF>> \in Seq(Token)
    BY DEF CRLF, Token
  <2>2. /\ pc = "encode" /\ main' = EmitMain(<<CRLF>>) /\ pc' = "idle"
        /\ next > Len(call.args) /\ UNCHANGED <<call, next>> /\ outcome' = "built"
    BY <1>4 DEF Finish
  <2>3. main' # <<>> /\ main'[1] = Heading
    BY <2>1, <2>2, MainGrows DEF IInv, BuiltInv
  <2>4. call.args \in Seq(Item)
    BY <2>2, ArgumentsAreItems DEF IInv, CallInv
  <2>5. next = Len(call.args) + 1
    BY <2>2, <2>4 DEF IInv, TypeOK
  <2> QED BY <2>2, <2>3, <2>5 DEF BuiltInv
<1>5. CASE UNCHANGED vars
  BY <1>5 DEF vars, BuiltInv
<1> QED BY <1>1, <1>2, <1>3, <1>4, <1>5 DEF Next

\* A command is built from a call, whole, and begins with its heading
\* (command.go buildCommand).
THEOREM BuiltInvariant == Spec => []BuiltInv
<1>1. Init => BuiltInv
  BY DEF Init, BuiltInv
<1> QED BY <1>1, BuiltNext, InductiveInvariant, PTL DEF Spec
-----------------------------------------------------------------------------
(* Where the line of a command ends, if its verbatim texts are clear.      *)

LegibleToken == {token \in Token : Legible(token)}
LegibleWire  == LegibleToken \union [t : {"payload"}, of : Str]

\* The pieces of a command are made of the tokens of its lines and of payloads.
LEMMA WireWithin ==
  ASSUME NEW T, [t : {"payload"}, of : Str] \subseteq T, NEW m \in Seq(T), NEW ls \in Seq(Segment),
         \A k \in 1..Len(ls) : ls[k].tail \in Seq(T)
  PROVE  WireOf(m, ls) \in Seq(T)
<1>1. ASSUME NEW k \in 1..Len(ls) PROVE Behind(ls[k]) \in Seq(T)
  <2>1. ls[k].data \in Str
    <3>1. ls[k] \in Segment
      BY ElementOfSeq
    <3> QED BY <3>1 DEF Segment
  <2>2. Payload(ls[k].data) \in T
    BY <2>1 DEF Payload
  <2>3. <<Payload(ls[k].data)>> \in Seq(T) /\ ls[k].tail \in Seq(T)
    BY <2>2
  <2> QED BY <2>3, ConcatProperties DEF Behind
<1>2. Pieces(ls) \in Seq(Seq(T))
  BY <1>1 DEF Pieces
<1>3. FlattenSeq(Pieces(ls)) \in Seq(T)
  BY <1>2, FlattenType
<1> QED BY <1>3, ConcatProperties DEF WireOf

\* No text ends a line or announces a payload.
LEMMA LegibleLines ==
  ASSUME IInv, Clear(call.args)
  PROVE  /\ main \in Seq(LegibleToken)
         /\ \A k \in 1..Len(lits) : lits[k].tail \in Seq(LegibleToken)
         /\ Wire \in Seq(LegibleWire)
<1>1. /\ main \in Seq(Token) /\ lits \in Seq(Segment) /\ Len(lits) \in Nat
      /\ ProtectedLines(call.args, main, lits)
  BY DEF IInv, TypeOK
<1>2. ASSUME NEW line \in Seq(Token), \A i \in 1..Len(line) : Protected(call.args, line[i])
      PROVE  line \in Seq(LegibleToken)
  <2>1. \A i \in 1..Len(line) : line[i] \in LegibleToken
    BY <1>2, ElementOfSeq DEF Protected, LegibleToken
  <2> QED BY <2>1
<1>3. main \in Seq(LegibleToken)
  <2>1. 1 \in 1 .. Len(lits) + 1 /\ LineIn(main, lits, 1) = main
    BY <1>1 DEF LineIn
  <2> QED BY <1>1, <1>2, <2>1 DEF ProtectedLines
<1>4. ASSUME NEW k \in 1..Len(lits) PROVE lits[k].tail \in Seq(LegibleToken)
  <2>1. k + 1 \in 1 .. Len(lits) + 1 /\ LineIn(main, lits, k + 1) = lits[k].tail
    BY <1>1 DEF LineIn
  <2>2. lits[k].tail \in Seq(Token)
    <3>1. lits[k] \in Segment
      BY <1>1, ElementOfSeq
    <3> QED BY <3>1 DEF Segment
  <2>3. \A i \in 1..Len(lits[k].tail) : Protected(call.args, lits[k].tail[i])
    BY <1>1, <2>1 DEF ProtectedLines
  <2> QED BY <1>2, <2>2, <2>3
<1>5. \A line \in Seq(LegibleToken) : line \in Seq(LegibleWire)
  <2>1. LegibleToken \subseteq LegibleWire
    BY DEF LegibleWire
  <2> HIDE DEF LegibleWire
  <2> QED BY <2>1, SeqMonotonic
<1>6. [t : {"payload"}, of : Str] \subseteq LegibleWire
  BY DEF LegibleWire
<1>7. Wire \in Seq(LegibleWire)
  <2> HIDE DEF LegibleWire
  <2> QED BY <1>1, <1>3, <1>4, <1>5, <1>6, WireWithin, WireIsOf
<1> QED BY <1>3, <1>4, <1>7

\* In a legible line nothing but a marker or a CRLF is a line end.
LEMMA LegibleEnds ==
  ASSUME NEW token \in LegibleWire
  PROVE  /\ ~ InText(token, "eol")
         /\ EndsLine(token) <=> token.t = "marker" \/ token = CRLF
BY DEF LegibleWire, LegibleToken, Token, Legible, InText, EndsLine, CRLF

LEMMA InOrder == IInv /\ WireInv /\ BuiltInv => ArgumentsInOrder
<1> SUFFICES ASSUME IInv, WireInv, BuiltInv PROVE ArgumentsInOrder
  OBVIOUS
<1>1. pc = "encode" \/ outcome = "built" => Unseparated(Wire) = Expected(next - 1)
  BY DEF WireInv, SoFar, Expected
<1>2. outcome = "built" => Expected(next - 1) = Expected(Len(call.args))
  <2>1. ASSUME outcome = "built" PROVE next - 1 = Len(call.args)
    <3>1. call \in Calls /\ next = Len(call.args) + 1
      BY <2>1 DEF BuiltInv
    <3>2. Len(call.args) \in Nat
      BY <3>1, ArgumentsAreItems
    <3> QED BY <3>1, <3>2
  <2> QED BY <2>1
<1>3. pc = "idle" /\ outcome # "built" => Wire = <<>>
  <2>1. <<>> \in Seq(Token)
    OBVIOUS
  <2> QED BY <2>1, WireEmpty, WireIsOf DEF BuiltInv
<1>4. ASSUME outcome = "built", Clear(call.args), NEW i \in 1..Len(Wire)
      PROVE  EndsLine(Wire[i]) <=> Wire[i].t = "marker" \/ i = Len(Wire)
  <2>1. Wire[i] \in LegibleWire
    BY <1>4, LegibleLines, ElementOfSeq
  <2>2. Wire[i] = CRLF <=> i = Len(Wire)
    BY <1>4 DEF WireInv
  <2> QED BY <2>1, <2>2, LegibleEnds
<1> QED BY <1>1, <1>2, <1>3, <1>4 DEF ArgumentsInOrder

\* Bytes, Data and Tail put one after the other carry every argument in the
\* order given, whatever the number of literals, or nothing at all; and the line
\* ends once, if no verbatim text holds a line break (command.go buildCommand).
THEOREM ArgumentsAlwaysInOrder == Spec => []ArgumentsInOrder
BY InOrder, WireInvariant, BuiltInvariant, PTL
=============================================================================
