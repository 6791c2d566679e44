--------------------------- MODULE ResponseParser ---------------------------
(***************************************************************************)
(* ParseResponse of parser.go: a cursor that moves over one buffer.  The   *)
(* calls still to be made are the stack todo of instructions (see          *)
(* ResponseGrammar for their meaning); the lists and structs under         *)
(* construction are the stack vals.                                        *)
(*                                                                         *)
(* A unit of the buffer is an octet the parser looks at, a word of other   *)
(* octets, a maximal run of digits, or CR LF.  The size of a literal counts*)
(* units.                                                                  *)
(***************************************************************************)
EXTENDS Integers, Sequences, FiniteSets

CONSTANTS
  Words,      \* units of atom characters that are neither digits nor punctuation
  Octets,     \* units of other octets that are no atom characters (8-bit, control)
  Upper,      \* the words in lower case, with their upper case
  Value,      \* the runs of digits, with their numbers
  MaxInt,     \* the largest int
  Grammar,    \* the productions
  Inputs      \* the buffers considered

VARIABLES
  input,      \* the call: its buffer and what should become of it
  pos,        \* the cursor, counted from 1
  todo,       \* the instructions still to be executed, the next one first
  vals,       \* the lists under construction, the innermost last
  status      \* "running", "done" (a response), "error" (ErrParse) or "panic"

vars == <<input, pos, todo, vals, status>>

-----------------------------------------------------------------------------
Numeral      == DOMAIN Value
AtomSpecials == {"(", ")", "{", " ", "%", "*", "\"", "\\", "]"}
AtomUnit     == Words \union Numeral \union {"[", "}", "<", ">", "+", ":", ","}
Unit         == AtomUnit \union AtomSpecials \union Octets \union {"CRLF"}

Ops == {"expect", "skip", "copy", "do", "switch", "run", "number", "take", "put",
        "open", "close", "set", "until"}
Instr == [op : Ops, arg : STRING]

ASSUME UnitAssumption ==
  /\ Upper \in [DOMAIN Upper -> Words] /\ DOMAIN Upper \subseteq Words
  /\ Value \in [Numeral -> Nat]
  /\ MaxInt \in Nat
  /\ "eof" \notin Unit
\* A table gives instructions for what may lie ahead; it begins with "skip"
\* only where something does, and no other instruction is one.
NeverSkips(table) == \A case \in DOMAIN table : \A i \in DOMAIN table[case] : table[case][i].op # "skip"
\* A list or struct that a branch begins is ended by the same branch.
Count(op, body, k) == Cardinality({i \in 1..k : body[i].op = op})
Opened(body, k) == Count("open", body, k) - Count("close", body, k)
Balanced(body)  == Opened(body, Len(body)) = 0 /\ \A k \in 1..Len(body) : Opened(body, k) >= 0
\* A literal takes the size that the same branch has just read.
SizeBefore(body, i) ==
  \E j \in 1..i-1 : body[j].op = "number" /\ \A k \in j+1..i-1 : body[k].op = "expect"
ASSUME StartAssumption == "ParseResponse" \in DOMAIN Grammar /\ DOMAIN Grammar \subseteq STRING
ASSUME GrammarAssumption ==
  \A name \in DOMAIN Grammar : \A ahead \in DOMAIN Grammar[name] :
    LET body == Grammar[name][ahead] IN
    /\ body \in Seq(Instr) /\ Balanced(body)
    /\ \A i \in 1..Len(body) :
         /\ body[i].op = "skip" => i = 1 /\ ahead \notin {"else", "eof", "TEXT?"}
         /\ body[i].op = "expect" => body[i].arg # "eof"
         /\ body[i].op = "take" => SizeBefore(body, i)
         /\ body[i].op \in {"do", "switch", "until"} => body[i].arg \in DOMAIN Grammar
         /\ body[i].op = "switch" => NeverSkips(Grammar[body[i].arg])
ASSUME InputAssumption ==
  \A inp \in Inputs :
    /\ inp.buf \in Seq(Unit)
    /\ \A i \in 1 .. Len(inp.buf) - 1 : ~ {inp.buf[i], inp.buf[i+1]} \subseteq Numeral

-----------------------------------------------------------------------------
(* Values: strings and numbers are units, the rest is built of values.     *)

Leaf(kind, s) == [k |-> kind, s |-> s, l |-> <<>>]
Node(kind, l) == [k |-> kind, s |-> <<>>, l |-> l]
Str(s)        == Leaf("str", s)

Constant(name) ==
  CASE name = "empty"  -> Str(<<>>)
    [] name = "star"   -> Str(<<"*">>)
    [] name = "nil"    -> Leaf("nil", <<>>)
    [] name = "absent" -> Leaf("absent", <<>>)

\* A defect to be caught: a repeated key is added a second time.
SetPairAgain(pairs, key, val) == Append(pairs, [k |-> "pair", s |-> key, l |-> <<val>>])
\* OrderedAttr.Set and OrderedInts.Set: a key keeps its place.
SetPair(pairs, key, val) ==
  LET pair == [k |-> "pair", s |-> key, l |-> <<val>>] IN
  IF \E i \in 1..Len(pairs) : pairs[i].s = key
  THEN [i \in 1..Len(pairs) |-> IF pairs[i].s = key THEN pair ELSE pairs[i]]
  ELSE Append(pairs, pair)

upcaseASCII(s) == [i \in 1..Len(s) |-> IF s[i] \in DOMAIN Upper THEN Upper[s[i]] ELSE s[i]]

-----------------------------------------------------------------------------
buf   == input.buf
eof   == pos > Len(buf)
peek  == IF eof THEN "eof" ELSE buf[pos]
Instruction == Head(todo)
Running(op) == status = "running" /\ todo # <<>> /\ Instruction.op = op

top         == vals[Len(vals)]
last        == top[Len(top)]
Push(v)     == [vals EXCEPT ![Len(vals)] = Append(top, v)]
Replace(v)  == [vals EXCEPT ![Len(vals)] = [top EXCEPT ![Len(top)] = v]]

\* NIL in any case, unless an atom goes on after it.
matchNIL == /\ ~ eof /\ upcaseASCII(<<peek>>) = <<"NIL">>
            /\ pos < Len(buf) => buf[pos+1] \notin AtomUnit

Ahead(guard) ==
  CASE guard = "NIL?"   -> matchNIL
    [] guard = "digit?" -> peek \in Numeral
    [] guard = "TEXT?"  -> upcaseASCII(top[1].s) = <<"TEXT">>
    [] guard = "else"   -> FALSE
    [] OTHER            -> peek = guard

\* What lies ahead when a branch may be taken: no two branches of a table share it.
Sees(guard) ==
  CASE guard = "NIL?"   -> {u \in Unit : upcaseASCII(<<u>>) = <<"NIL">>}
    [] guard = "digit?" -> Numeral
    [] guard = "TEXT?"  -> Unit \union {"eof"}
    [] guard = "else"   -> {}
    [] OTHER            -> {guard}
ASSUME ChoiceAssumption ==
  \A name \in DOMAIN Grammar : \A g, h \in DOMAIN Grammar[name] : g # h => Sees(g) \cap Sees(h) = {}

\* The branches of a table that may be taken: by what lies ahead, by the word
\* read last; the default when there is no other.
ElseOr(table, guards) == IF guards # {} THEN guards ELSE DOMAIN table \intersect {"else"}
Branches(table) == ElseOr(table, {g \in DOMAIN table : Ahead(g)})
Cases(table)    == ElseOr(table, {g \in DOMAIN table \ {"else"} : upcaseASCII(last.s) = <<g>>})

\* The maximal run of a class that begins at the cursor.
Class(name) ==
  CASE name \in {"atom", "ATOM"} -> AtomUnit
    [] name = "attName"          -> AtomUnit \ {"["}
    [] name = "uidSet"           -> Numeral \union {":", ",", "*"}
    [] name = "bracketText"      -> Unit \ {"]"}
    [] name = "text"             -> Unit \ {"CRLF"}
RunEnd(class) ==
  CHOOSE j \in pos .. Len(buf) + 1 :
    /\ \A k \in pos .. j-1 : buf[k] \in class
    /\ j <= Len(buf) => buf[j] \notin class
MayBeEmpty == {"uidSet", "bracketText", "text"}

Number == Value[peek]

\* p.pos + int(n), which wraps around.
LiteralEnd ==
  LET end == pos - 1 + Value[last.s[1]] IN
  IF end > MaxInt THEN end - 2 * (MaxInt + 1) ELSE end

-----------------------------------------------------------------------------
Init ==
  /\ input \in Inputs
  /\ pos = 1
  /\ todo = <<[op |-> "do", arg |-> "ParseResponse"]>>
  /\ vals = << <<>> >>
  /\ status = "running"

Return ==
  /\ status = "running"
  /\ todo = <<>>
  /\ status' = "done"
  /\ UNCHANGED <<input, pos, todo, vals>>

Do ==
  /\ Running("do")
  /\ LET table == Grammar[Instruction.arg] IN
     \E g \in Branches(table) : todo' = table[g] \o Tail(todo)
  /\ UNCHANGED <<input, pos, vals, status>>

\* The word that is found is stored in upper case.
Switch ==
  /\ Running("switch")
  /\ LET table == Grammar[Instruction.arg] IN
     \E g \in Cases(table) :
       /\ todo' = table[g] \o Tail(todo)
       /\ vals' = IF g = "else" THEN vals ELSE Replace(Str(<<g>>))
  /\ UNCHANGED <<input, pos, status>>

Expect ==
  /\ Running("expect")
  /\ peek = Instruction.arg
  /\ pos' = pos + 1
  /\ todo' = Tail(todo)
  /\ UNCHANGED <<input, vals, status>>

\* p.pos++, with no test.
Skip ==
  /\ Running("skip")
  /\ pos' = pos + 1
  /\ todo' = Tail(todo)
  /\ UNCHANGED <<input, vals, status>>

\* A defect to be caught: the cursor moves on without a test for the end.
CopyUnchecked ==
  /\ Running("copy")
  /\ vals' = Replace(Str(Append(last.s, peek)))
  /\ pos' = pos + 1
  /\ todo' = Tail(todo)
  /\ UNCHANGED <<input, status>>
\* A defect to be caught: the end of the buffer is a unit like any other.
CopyForever ==
  /\ Running("copy")
  /\ vals' = IF eof THEN vals ELSE Replace(Str(Append(last.s, peek)))
  /\ pos' = IF eof THEN pos ELSE pos + 1
  /\ todo' = Tail(todo)
  /\ UNCHANGED <<input, status>>
Copy ==
  /\ Running("copy")
  /\ ~ eof
  /\ vals' = Replace(Str(Append(last.s, peek)))
  /\ pos' = pos + 1
  /\ todo' = Tail(todo)
  /\ UNCHANGED <<input, status>>

Read ==
  /\ Running("run")
  /\ LET name == Instruction.arg
         end  == RunEnd(Class(name))
         run  == SubSeq(buf, pos, end - 1)
     IN  /\ end > pos \/ name \in MayBeEmpty
         /\ vals' = Push(Str(IF name = "ATOM" THEN upcaseASCII(run) ELSE run))
         /\ pos' = end
  /\ todo' = Tail(todo)
  /\ UNCHANGED <<input, status>>

\* A defect to be caught: the error of strconv.ParseInt is ignored.
ReadNumberUnchecked ==
  /\ Running("number")
  /\ peek \in Numeral
  /\ vals' = Push(Leaf("num", <<peek>>))
  /\ pos' = pos + 1
  /\ todo' = Tail(todo)
  /\ UNCHANGED <<input, status>>
ReadNumber ==
  /\ Running("number")
  /\ peek \in Numeral
  /\ Number <= MaxInt
  /\ vals' = Push(Leaf("num", <<peek>>))
  /\ pos' = pos + 1
  /\ todo' = Tail(todo)
  /\ UNCHANGED <<input, status>>

\* The size read last is replaced by the octets it counts.
TakeLiteral ==
  /\ Running("take")
  /\ LiteralEnd \in pos - 1 .. Len(buf)
  /\ vals' = Replace(Str(SubSeq(buf, pos, LiteralEnd)))
  /\ pos' = LiteralEnd + 1
  /\ todo' = Tail(todo)
  /\ UNCHANGED <<input, status>>

\* The end has wrapped around: a slice that ends before it begins.
Panic ==
  /\ Running("take")
  /\ LiteralEnd < pos - 1
  /\ status' = "panic"
  /\ UNCHANGED <<input, pos, todo, vals>>

\* Values that are put together without looking at the buffer.
Build ==
  /\ \/ /\ Running("put")
        /\ vals' = Push(Constant(Instruction.arg))
     \/ /\ Running("open")
        /\ vals' = Append(vals, <<>>)
     \/ /\ Running("close")
        /\ LET n == Len(vals) - 1 IN
           vals' = [SubSeq(vals, 1, n) EXCEPT ![n] = Append(vals[n], Node(Instruction.arg, top))]
     \/ /\ Running("set")
        /\ LET n == Len(top) IN
           vals' = [vals EXCEPT ![Len(vals)] = SetPair(SubSeq(top, 1, n - 2), top[n-1].s, top[n])]
  /\ todo' = Tail(todo)
  /\ UNCHANGED <<input, pos, status>>

\* A defect to be caught: the elements of a list need not be separated.
UntilUnseparated ==
  /\ Running("until")
  /\ pos' = IF peek = ")" \/ (top # <<>> /\ peek = " ") THEN pos + 1 ELSE pos
  /\ todo' = IF peek = ")" THEN Tail(todo) ELSE <<[op |-> "do", arg |-> Instruction.arg]>> \o todo
  /\ UNCHANGED <<input, vals, status>>
\* One iteration of a loop that only ")" ends.
Until ==
  /\ Running("until")
  /\ \/ /\ peek = ")"
        /\ pos' = pos + 1
        /\ todo' = Tail(todo)
     \/ /\ peek # ")"
        /\ top # <<>> => peek = " "
        /\ pos' = IF top # <<>> THEN pos + 1 ELSE pos
        /\ todo' = <<[op |-> "do", arg |-> Instruction.arg]>> \o todo
  /\ UNCHANGED <<input, vals, status>>

Fail ==
  /\ \/ Running("do")     /\ Branches(Grammar[Instruction.arg]) = {}
     \/ Running("switch") /\ Cases(Grammar[Instruction.arg]) = {}
     \/ Running("expect") /\ peek # Instruction.arg
     \/ Running("copy")   /\ eof
     \/ Running("run")    /\ RunEnd(Class(Instruction.arg)) = pos
                          /\ Instruction.arg \notin MayBeEmpty
     \/ Running("number") /\ (peek \in Numeral => Number > MaxInt)
     \/ Running("take")   /\ LiteralEnd > Len(buf)
     \/ Running("until")  /\ peek \notin {")", " "} /\ top # <<>>
  /\ status' = "error"
  /\ UNCHANGED <<input, pos, todo, vals>>

Terminated == status # "running" /\ UNCHANGED vars

Next ==
  \/ Do \/ Switch \/ Expect \/ Skip \/ Copy \/ Read \/ ReadNumber \/ TakeLiteral \/ Build
  \/ Until \/ Return \/ Fail \/ Panic \/ Terminated

Spec     == Init /\ [][Next]_vars
FairSpec == Spec /\ WF_vars(Next)

-----------------------------------------------------------------------------
TypeOK ==
  /\ buf \in Seq(Unit)
  /\ pos \in 1 .. Len(buf) + 1
  /\ todo \in Seq(Instr)
  /\ status \in {"running", "done", "error", "panic"}

\* A buffer that is no response is never taken for one: one that is cut short,
\* whose lists are not closed, whose separators are missing, or whose literal
\* is shorter than its size (parser.go ParseResponse, "ErrParse is returned
\* when a response buffer does not match the IMAP response grammar").
OnlyGrammar == status = "done" => input.expect # "reject"

\* Every response of the grammar is accepted (parser.go ParseResponse,
\* "byte-faithful to MRI for the IMAP4rev1 response grammar").
WholeGrammar == status \in {"error", "panic"} => input.expect = "reject"

\* What comes out is what the server meant, in the server's order, whatever
\* form each string has and however deep the lists are, and nothing of the
\* buffer is left over (parser.go, fetch.go and body.go; data.go for how each
\* field stands for NIL).
MeaningKept ==
  status = "done" /\ input.expect = "value" =>
    vals = <<input.value>> /\ pos = Len(buf) + 1

\* Every parse ends, also in loops that only ")" ends when there is none
\* (parser.go flagList, astringList and statusResp, fetch.go fetchData, body.go
\* bodyParams and bodyExtItem).
Terminates == <>(status # "running")

\* What does not parse is reported, whatever the size of a literal: a size so
\* large that the end of the literal wraps around is an error like any other
\* (parser.go literal; parser.go ErrParse, "returned (wrapped) when a response
\* buffer does not match the IMAP response grammar").
ErrorsReported == status # "panic"

\* Nowhere else does a parse leave the buffer: a panic is one of literal, whose
\* end is past the largest int, and the size is one that number read without an
\* error (parser.go literal and number).
Overflows(b, i) ==
  \E k \in 1..Len(b) : b[k] \in Numeral /\ Value[b[k]] <= MaxInt /\ i - 1 + Value[b[k]] > MaxInt
OnlyOverflows == status = "panic" => Overflows(buf, pos)
=============================================================================
