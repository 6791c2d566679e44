-------------------------- MODULE MCResponseParser --------------------------
(* Responses with what they mean, put together side by side; the same cut  *)
(* short or damaged; and all short buffers of a few units, with a reference*)
(* recogniser for each loop of the parser.                                 *)
EXTENDS ResponseParser, TLC

LOCAL INSTANCE SequencesExt

G == INSTANCE ResponseGrammar

CONSTANT MCLength   \* length of the arbitrary part of a buffer

MCGrammar == G!Productions

MCUpper ==
  [w \in {"nil", "inbox", "ok", "flags", "fetch", "messages", "uid", "body", "text", "alert", "x"} |->
     CASE w = "nil" -> "NIL" [] w = "inbox" -> "INBOX" [] w = "ok" -> "OK" [] w = "flags" -> "FLAGS"
       [] w = "fetch" -> "FETCH" [] w = "messages" -> "MESSAGES" [] w = "uid" -> "UID"
       [] w = "body" -> "BODY" [] w = "text" -> "TEXT" [] w = "alert" -> "ALERT" [] w = "x" -> "X"]
MCWords == UNION {DOMAIN MCUpper, {MCUpper[w] : w \in DOMAIN MCUpper},
             {"y", "NO", "BYE", "LIST", "LSUB", "EXPUNGE", "STATUS", "SEARCH", "CAPABILITY", "EXISTS", "UNSEEN",
              "MODSEQ", "INTERNALDATE", "ENVELOPE", "BODYSTRUCTURE", "RFC822", "IMAGE", "MESSAGE",
              "PERMANENTFLAGS", "APPENDUID", "COPYUID", "BADCHARSET", "UIDNEXT", "HEADER"}}
MCValue == "0" :> 0 @@ "1" :> 1 @@ "2" :> 2 @@ "3" :> 3 @@ "7" :> 7 @@ "99" :> 99 @@ "999" :> 999 @@ "1001" :> 1001

-----------------------------------------------------------------------------
(* A piece of a response: its units w, and the values v it stands for.     *)

W(s)        == [w |-> s, v |-> <<>>]
Piece(s, v) == [w |-> s, v |-> <<v>>]
Cat(ps)     == [w |-> FlattenSeq([i \in 1..Len(ps) |-> ps[i].w]),
                v |-> FlattenSeq([i \in 1..Len(ps) |-> ps[i].v])]
N(kind, p)  == [w |-> p.w, v |-> <<Node(kind, p.v)>>]
Spaced(ps)  == Cat([i \in 1..Len(ps) |-> IF i = 1 THEN ps[i] ELSE Cat(<<W(<<" ">>), ps[i]>>)])
Parens(p)   == Cat(<<W(<<"(">>), p, W(<<")">>)>>)
List(kind, ps) == Parens(N(kind, Spaced(ps)))

Atom(s)   == Piece(s, Str(s))
Nil       == Piece(<<"NIL">>, Constant("nil"))
NoString  == Piece(<<"nil">>, Str(<<>>))
Num(u)    == Piece(<<u>>, Leaf("num", <<u>>))
Key(s, u) == Piece(s, Str(<<u>>))
Quoted(s) ==
  Piece(<<"\"">> \o FlattenSeq([i \in 1..Len(s) |-> IF s[i] \in {"\"", "\\"} THEN <<"\\", s[i]>>
                                                   ELSE <<s[i]>>]) \o <<"\"">>, Str(s))
Literal(s) ==
  Piece(<<"{", CHOOSE u \in Numeral : Value[u] = Len(s), "}", "CRLF">> \o s, Str(s))
Pair(key, val) ==
  [w |-> key.w \o <<" ">> \o val.w, v |-> <<[k |-> "pair", s |-> key.v[1].s, l |-> val.v]>>]

X == Atom(<<"x">>)
Strings   == {Quoted(<<"x", " ", "\"">>), Quoted(<<"\\">>), Quoted(<<>>),
              Literal(<<>>), Literal(<<")", "CRLF">>), Literal(<<"\"">>), Literal(<<"}", "CRLF", "x">>)}
NStrings  == Strings \union {NoString}
Mailboxes == Strings \union {X, Atom(<<"x", "7", "[", "y">>), Atom(<<"NIL">>), Piece(<<"inbox">>, Str(<<"INBOX">>)),
                             Piece(<<"\"", "inbox", "\"">>, Str(<<"INBOX">>))}
FlagsOf   == {<<>>, <<X>>, <<Piece(<<"\\", "y">>, Str(<<"y">>)), X>>, <<X, Piece(<<"\\", "*">>, Str(<<"*">>))>>}
FlagLists == {List("flags", f) : f \in FlagsOf}
Numbers   == {<<>>, <<Num("7")>>, <<Num("0"), Num("99")>>}
Led(ps)   == Cat([i \in 1..Len(ps) |-> Cat(<<W(<<" ">>), ps[i]>>)])
Capabilities == {N("capabilities", Led(c)) : c \in {<<>>, <<Key(<<"x">>, "X"), Atom(<<"y", "7", ":">>)>>}}

Code(name, p) == Cat(<<W(<<"[">>), N("code", Cat(<<name, p>>)), W(<<"]">>)>>)
Codes ==
  {Code(Key(<<"alert">>, "ALERT"), W(<<>>)), Code(Atom(<<"UIDNEXT">>), Led(<<Num("7")>>)),
   Code(Atom(<<"APPENDUID">>), Led(<<Num("7"), Atom(<<"1", ":", "*">>)>>)),
   Code(Atom(<<"COPYUID">>), Led(<<Num("7"), Atom(<<"1", ",", "3">>), Atom(<<"2">>)>>)),
   Code(Atom(<<"BADCHARSET">>), W(<<>>)),
   Code(Atom(<<"BADCHARSET">>), Led(<<List("charsets", <<X, Literal(<<")", "]">>), Quoted(<<"]">>)>>)>>)),
   Code(Atom(<<"y", "7">>), W(<<>>)), Code(Atom(<<"y", "7">>), Led(<<Atom(<<"x", " ", "(">>)>>))}
  \union {Code(Atom(<<"PERMANENTFLAGS">>), Led(<<f>>)) : f \in FlagLists}
  \union {Code(Atom(<<"CAPABILITY">>), c) : c \in Capabilities}

NoCode    == Piece(<<>>, Constant("nil"))
RespTexts == {Cat(<<NoCode, Atom(t)>>) : t \in {<<>>, <<"x", " ", "]">>}}
             \union {Cat(<<c, Atom(<<>>)>>) : c \in Codes}
             \union {Cat(<<c, W(<<" ">>), Atom(<<"x", "[">>)>>) : c \in Codes}

-----------------------------------------------------------------------------
Line(kind, head, p) == Cat(<<W(head), N(kind, p), W(<<"CRLF">>)>>)
Untagged(ps)        == Line("untagged", <<"*", " ">>, Spaced(ps))

Addresses == {Piece(<<"NIL">>, Node("addresses", <<>>))}
             \union {Parens(N("addresses", Cat([i \in 1..n |->
                       Parens(N("address", Spaced(<<s, NoString, X2, Literal(<<")">>)>>)))]))) :
                       s \in {NoString, Quoted(<<"(">>)}, X2 \in {Quoted(<<"x">>)}, n \in 1..2}
Envelope(date, a, b) ==
  Parens(N("envelope", Spaced(<<date, Quoted(<<"x">>), a, b, a, a, b, a, NoString, Quoted(<<"y">>)>>)))
Envelopes == {Envelope(d, a, b) : d \in {NoString, Literal(<<"x", "CRLF">>)}, a \in Addresses, b \in Addresses}

Exts == {<<>>, <<Nil>>, <<Num("7"), List("list", <<>>)>>,
         <<List("list", <<Quoted(<<"x">>), Nil, List("list", <<List("list", <<Num("7")>>)>>)>>), Literal(<<")">>)>>}
Params == {Nil, List("params", <<>>), List("params", <<Pair(Quoted(<<"x">>), Literal(<<" ">>)), Pair(Literal(<<"y">>), NoString)>>),
           [w |-> List("params", <<Pair(Quoted(<<"x">>), Quoted(<<"y">>)), Pair(Quoted(<<"x">>), Quoted(<<>>))>>).w,
            v |-> List("params", <<Pair(Quoted(<<"x">>), Quoted(<<>>))>>).v]}
Part(media, lines, params, ext) ==
  Parens(N("singlepart",
    Cat(<<Spaced(<<media, Quoted(<<"x">>), params, NoString, Quoted(<<>>), Quoted(<<"7">>), Num("99")>>),
          lines, N("extension", Led(ext))>>)))
NoLines   == Piece(<<>>, Constant("absent"))
Parts     == {Part(Quoted(<<"IMAGE">>), NoLines, p, e) : p \in Params, e \in Exts}
             \union {Part(t, Led(<<Num("3")>>), Nil, e) : t \in {Quoted(<<"TEXT">>), Literal(<<"text">>)}, e \in Exts}
Few       == {Part(Quoted(<<"IMAGE">>), NoLines, Nil, <<>>), Part(Quoted(<<"text">>), Led(<<Num("0")>>), Nil, <<Nil>>)}
SystemFlag == Piece(<<"\\", "y">>, Str(<<"y">>))
PlainText  == Part(Quoted(<<"TEXT">>), Led(<<Num("3")>>), List("params", <<Pair(Quoted(<<"x">>), NoString), Pair(Quoted(<<"y">>), Quoted(<<"x">>))>>),
                   <<Nil, List("list", <<Num("7"), List("list", <<Quoted(<<"x">>)>>)>>)>>)
PlainImage == Part(Quoted(<<"IMAGE">>), NoLines, Nil, <<>>)
PlainAddresses ==
  Parens(N("addresses", Cat([i \in 1..2 |->
    Parens(N("address", Spaced(<<NoString, Quoted(<<"x">>), Quoted(<<>>), NoString>>)))])))
Multipart(parts, ext) ==
  Parens(N("multipart", Cat(<<N("parts", Cat(parts)), Led(<<Quoted(<<"y">>)>>), N("extension", Led(ext))>>)))
Multiparts == {Multipart(<<p, q>>, e) : p \in Few, q \in Few, e \in Exts}
Bodies     == Parts \union Multiparts \union {Multipart(<<m, p>>, <<>>) : m \in Multiparts, p \in Few}

Section(w, s) == Piece(w, Str(s))
Sections ==
  {Atom(<<"RFC822">>), Atom(<<"body", "[", "]">>), Atom(<<"BODY", "[", "]">>), Atom(<<"BODY", "[", "HEADER", "]", "<", "7", ">">>),
   Section(<<"BODY", "[", "HEADER", " ", "(", "\"", "x", "\"", " ", "\"", "]", "\"", ")", "]">>,
           <<"BODY", "[", "HEADER", " ", "(", "x", " ", "]", ")", "]">>)}
Atts ==
  {Pair(Key(<<"flags">>, "FLAGS"), f) : f \in FlagLists}
  \union {Pair(Atom(<<"MODSEQ">>), Parens(Num("7"))), Pair(Key(<<"uid">>, "UID"), Num("99")),
          Pair(Atom(<<"INTERNALDATE">>), Quoted(<<"x">>))}
  \union {Pair(s, n) : s \in Sections, n \in NStrings}
EnvelopeAtts == {Pair(Atom(<<"ENVELOPE">>), e) : e \in Envelopes}
BodyAtts     == {Pair(Atom(<<"BODYSTRUCTURE">>), b) : b \in Bodies} \union {Pair(Key(<<"body">>, "BODY"), b) : b \in Few}
Fetch(atts)  == Untagged(<<Num("7"), Key(<<"fetch">>, "FETCH"), List("attr", atts)>>)
OtherAtts    == {a \in Atts : a.w[1] # "uid"}
Uid7         == Pair(Atom(<<"UID">>), Num("7"))

Statuses ==
  {List("attr", <<>>), List("attr", <<Pair(Key(<<"messages">>, "MESSAGES"), Num("7")), Pair(Atom(<<"UNSEEN">>), Num("0"))>>)}
  \union {[w |-> List("attr", <<Pair(Key(<<"messages">>, "MESSAGES"), Num("3")), Pair(Atom(<<"UNSEEN">>), Num("0")),
                                 Pair(Atom(<<"MESSAGES">>), Num("7"))>>).w,
           v |-> List("attr", <<Pair(Atom(<<"MESSAGES">>), Num("7")), Pair(Atom(<<"UNSEEN">>), Num("0"))>>).v]}

DataResponses ==
  {Untagged(<<Num("7"), Atom(<<"EXISTS">>)>>)}
  \union {Untagged(<<Atom(<<"FLAGS">>), f>>) : f \in FlagLists}
  \union {Untagged(<<Atom(<<"LIST">>), f, d, m>>) :
            f \in FlagLists, d \in {NoString, Quoted(<<"\"">>)}, m \in Mailboxes}
  \union {Untagged(<<Atom(<<"STATUS">>), m, s>>) : m \in Mailboxes, s \in Statuses}
  \union {Untagged(<<Cat(<<Atom(<<"SEARCH">>), N("numbers", Led(n))>>)>>) : n \in Numbers}
  \union {Untagged(<<Cat(<<Atom(<<"CAPABILITY">>), c>>)>>) : c \in Capabilities}
  \union {Fetch(<<>>)} \union {Fetch(<<a>>) : a \in Atts \union EnvelopeAtts \union BodyAtts}
  \union {Fetch(<<Uid7, a>>) : a \in OtherAtts} \union {Fetch(<<a, Uid7>>) : a \in OtherAtts}

TextResponses ==
  {Untagged(<<n, t>>) : n \in {Key(<<"ok">>, "OK"), Atom(<<"BYE">>)}, t \in RespTexts}
  \union {Line("tagged", <<>>, Spaced(<<Atom(<<"x", "1">>), n, t>>)) : n \in {Key(<<"ok">>, "OK"), Atom(<<"NO">>)}, t \in RespTexts}
  \union {Line("continuation", <<"+", " ">>, t) : t \in RespTexts}
  \union {Line("continuation", <<"+">>, t) : t \in {Cat(<<NoCode, Atom(<<>>)>>), Cat(<<NoCode, Atom(<<"x">>)>>)}}

-----------------------------------------------------------------------------
(* What the parser is given.                                               *)

Means(p)  == [buf |-> p.w, value |-> p.v, expect |-> "value"]
Accept(s) == [buf |-> s, value |-> <<>>, expect |-> "accept"]
Reject(s) == [buf |-> s, value |-> <<>>, expect |-> "reject"]

\* Attributes and status items that the server repeats: the later value, in
\* the place of the earlier one.
Repeated ==
  {[buf |-> Fetch(<<Pair(Key(<<"uid">>, "UID"), Num("99")), Pair(Atom(<<"RFC822">>), a), Uid7>>).w,
    value |-> Fetch(<<Uid7, Pair(Atom(<<"RFC822">>), a)>>).v, expect |-> "value"] : a \in NStrings}

MCResponses == {Means(p) : p \in DataResponses \union TextResponses} \union Repeated

\* One of each kind, whose strings hold nothing that is part of a structure.
PlainAtts ==
  {Pair(Atom(<<"FLAGS">>), f) : f \in {List("flags", <<>>), List("flags", <<SystemFlag, SystemFlag>>)}}
  \union {Pair(Atom(<<"MODSEQ">>), Parens(Num("7"))), Pair(Atom(<<"INTERNALDATE">>), Quoted(<<"x">>)),
          Pair(Atom(<<"RFC822">>), NoString), Pair(Atom(<<"BODY", "[", "]">>), Literal(<<"x", "y">>)),
          Pair(Atom(<<"BODY", "[", "]", "<", "7", ">">>), Quoted(<<>>)),
          Pair(Atom(<<"ENVELOPE">>), Envelope(NoString, PlainAddresses, Piece(<<"NIL">>, Node("addresses", <<>>)))),
          Pair(Atom(<<"BODY">>), Multipart(<<Multipart(<<PlainText, PlainImage>>, <<>>), PlainImage>>, <<Nil>>))}
Plain ==
  {Fetch(<<a>>) : a \in PlainAtts} \union {Fetch(<<a, Uid7>>) : a \in PlainAtts}
  \union {Untagged(<<Num("7"), Atom(<<"EXPUNGE">>)>>),
          Untagged(<<Atom(<<"LSUB">>), List("flags", <<SystemFlag>>), Quoted(<<"x">>), Quoted(<<"y">>)>>),
          Untagged(<<Cat(<<Atom(<<"SEARCH">>), N("numbers", Led(<<Num("7")>>))>>)>>),
          Untagged(<<Cat(<<Atom(<<"CAPABILITY">>), N("capabilities", Led(<<Atom(<<"X">>)>>))>>)>>)}
  \union {Untagged(<<Atom(<<"STATUS">>), X, a>>) : a \in Statuses}

NoAdjacentNumerals(s) == \A i \in 1 .. Len(s) - 1 : ~ {s[i], s[i+1]} \subseteq Numeral
Structural == {" ", "(", ")", "\"", "{", "}", "CRLF"}
Damaged(p) == {s \in {RemoveAt(p.w, i) : i \in {j \in 1..Len(p.w) : p.w[j] \in Structural}} :
                 NoAdjacentNumerals(s)}
Cut(p)     == {SubSeq(p.w, 1, k) : k \in 0 .. Len(p.w) - 1}
Sized(n)   == {<<"*", " ", "LIST", " ", "(", ")", " ", "{", n, "}", "CRLF">> \o s : s \in {<<>>, <<" ", "x", "CRLF">>}}

MCBroken ==
  {Reject(s) : s \in UNION {Cut(p) \union Damaged(p) : p \in Plain} \union UNION {Cut(p) : p \in TextResponses}}
  \union {Reject(s) : s \in Sized("99") \union Sized("999") \union Sized("1001")}

-----------------------------------------------------------------------------
(* All short sequences of a few units where the parser expects a list, a   *)
(* string, or the extension data of a body; and the language, up to the    *)
(* same length, that it may accept there.                                  *)

Short(alphabet, n) == {s \in UNION {[1..k -> alphabet] : k \in 0..n} : NoAdjacentNumerals(s)}
Concat(A, B, n)    == {a \o b : <<a, b>> \in {<<x, y>> \in A \X B : Len(x) + Len(y) <= n}}
Around(l, A, r, n) == {<<l>> \o a \o <<r>> : a \in {x \in A : Len(x) <= n - 2}}

\* item (SP item)*, or nothing
SpacedOf(items, n) ==
  LET more[k \in 0..n] == IF k < 2 THEN items
                          ELSE items \union Concat(items, {<<" ">> \o s : s \in more[k-2]}, n)
  IN  {<<>>} \union more[n]

FlagLanguage(n) ==
  LET keyword == {[i \in 1..k |-> "x"] : k \in 1..n}
      flags   == keyword \union {<<"\\">> \o k : k \in keyword} \union {<<"\\", "*">>}
  IN  Around("(", SpacedOf({f \in flags : Len(f) <= n}, n), ")", n)

QuotedLanguage(n) ==
  LET char == {<<"x">>, <<" ">>} \union {<<"\\", c>> : c \in {"\"", "\\", "x", " "}}
      chars[k \in 0..n] == IF k = 0 THEN {<<>>} ELSE chars[k-1] \union Concat(char, chars[k-1], n)
  IN  Around("\"", chars[n], "\"", n)

LiteralLanguage(n) ==
  UNION {{<<"{", m, "}", "CRLF">> \o s : s \in [1..Value[m] -> {"{", "}", "CRLF", "0", "2", "x"}]} :
           m \in {u \in {"0", "2"} : Value[u] + 4 <= n}}

ExtensionLanguage(n) ==
  LET items[k \in 0..n] ==
        IF k = 0 THEN {} ELSE {<<"7">>, <<"NIL">>} \union Around("(", SpacedOf(items[k-1], n), ")", n)
  IN  SpacedOf(items[n], n) \ {<<>>}

Inside(head, some, language, tail) ==
  {IF s \in language THEN Accept(head \o s \o tail) ELSE Reject(head \o s \o tail) : s \in some}

MCShort ==
  Inside(<<"*", " ", "FLAGS", " ">>, Short({"(", ")", " ", "\\", "*", "x"}, MCLength),
         FlagLanguage(MCLength), <<"CRLF">>)
  \union Inside(<<"*", " ", "LIST", " ", "(", ")", " ">>, Short({"\"", "\\", " ", "x"}, MCLength),
                QuotedLanguage(MCLength), <<" ", "x", "CRLF">>)
  \union Inside(<<"*", " ", "LIST", " ", "(", ")", " ">>, Short({"{", "}", "CRLF", "0", "2", "x"}, MCLength),
                LiteralLanguage(MCLength), <<" ", "x", "CRLF">>)
  \union Inside(<<"*", " ", "7", " ", "FETCH", " ", "(", "BODY", " ", "(", "\"", "\"", " ", "\"", "\"",
                  " ", "NIL", " ", "NIL", " ", "NIL", " ", "NIL", " ", "2", " ">>,
                Short({"(", ")", " ", "7", "NIL"}, MCLength),
                ExtensionLanguage(MCLength), <<")", ")", "CRLF">>)
MCInputs == MCResponses \union MCBroken \union MCShort

-----------------------------------------------------------------------------
(* Responses of the grammar that the parser does not know.                 *)

\* A BODYSTRUCTURE with a MESSAGE/RFC822 part: its envelope, whose addresses are
\* not separated, and its body come before its lines.
MCMessageBodies ==
  {Accept(Fetch(<<Pair(Atom(<<"BODYSTRUCTURE">>),
            Part(Quoted(<<"MESSAGE">>), Led(<<Envelope(NoString, a, PlainAddresses), PlainImage, Num("7")>>), Nil, <<>>))>>).w) :
     a \in Addresses}

\* Mailbox names that are ASTRING-CHARs, of which "]" is one.
MCBracketNames ==
  {Accept(Untagged(<<Atom(<<name>>), List("flags", <<>>), NoString, Atom(m)>>).w) :
     name \in {"LIST", "LSUB"}, m \in {<<"x", "]">>, <<"x", "[", "y", "]">>}}
=============================================================================
