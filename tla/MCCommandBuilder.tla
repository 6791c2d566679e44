-------------------------- MODULE MCCommandBuilder --------------------------
(* Every builder of commands.go, over texts of every form, verbatim ones   *)
(* with a line break or an {n} included, plus argument lists that          *)
(* Builder.Command accepts and no builder makes: nested lists, two         *)
(* literals, and each kind of bad argument before and after a literal.     *)
EXTENDS CommandBuilder

Empty  == [len |-> 0, has |-> {}]
Word   == [len |-> 3, has |-> {}]
Phrase == [len |-> 4, has |-> {"special"}]
Accent == [len |-> 5, has |-> {"8bit", "special"}]
Lines  == [len |-> 6, has |-> {"eol", "special"}]
Ending == [len |-> 7, has |-> {"special", "marker"}]

MCStrings == {Empty, Word, Phrase, Accent, Lines, Ending}

\* The texts of a list: none, a clear one, and two of which the second is not.
MCTexts == {<<>>, <<Word>>, <<Word, Lines>>, <<Word, Ending>>}

BareNames    == {"CAPABILITY", "NOOP", "LOGOUT", "STARTTLS", "EXPUNGE", "CHECK",
                 "CLOSE", "UNSELECT", "IDLE"}
MailboxNames == {"SELECT", "EXAMINE", "CREATE", "DELETE", "SUBSCRIBE", "UNSUBSCRIBE"}
PairNames    == {"LOGIN", "RENAME", "LIST", "LSUB"}

Set     == Value("seqset", 1)
NoSet   == Value("seqset", 0)
June    == Value("date", 6)
NoMonth == Value("date", 0)

MCBuilders ==
  {Bare(c) : c \in BareNames} \union {Authenticate(m) : m \in MCStrings}
  \union {MailboxCommand(c, m) : c \in MailboxNames, m \in MCStrings}
  \union {PairCommand(c, a, b) : c \in PairNames, a \in MCStrings, b \in MCStrings}
  \union {Status(m, attrs) : m \in MCStrings, attrs \in MCTexts}
  \union {Fetch(c, set, atts) : c \in {"FETCH", "UID FETCH"}, set \in {Set, NoSet}, atts \in MCTexts}
  \union {Store(c, set, i, flags) : c \in {"STORE", "UID STORE"}, set \in {Set, NoSet},
                                   i \in {Word, Ending}, flags \in MCTexts}
  \union {Copy(c, set, m) : c \in {"COPY", "UID COPY"}, set \in {Set, NoSet}, m \in MCStrings}
  \union {Search(c, <<Text("string", a), Text("quoted", b), Set>>) :
            c \in {"SEARCH", "UID SEARCH"}, a \in MCStrings, b \in MCStrings}
  \union {AppendCommand(m, f, d, s) : m \in MCStrings, f \in {<<>>, <<Word>>, <<Word, Lines>>},
                                     d \in {<<>>, <<June>>, <<NoMonth>>}, s \in {Empty, Lines}}

MCOthers ==
  { Call("X", <<Text("literal", Word), bad, Text("literal", Lines)>>) :
      bad \in {Value("number", -1), Value("number", 0), Value("number", MaxNum),
               Value("number", MaxNum + 1), Plain("other"), Plain("nil"), Plain("time"),
               Text("atom", Word), Text("atom", Ending), NoMonth, June, Text("string", Accent)} }
  \union
  { Call("X", List(<<a>> \o List(<<>>) \o List(<<b, Text("string", Word)>>)) \o <<a>>) :
      a \in {Text("string", s) : s \in MCStrings}, b \in {Text("string", s) : s \in MCStrings} }

MCCalls == MCBuilders \union MCOthers
=============================================================================
