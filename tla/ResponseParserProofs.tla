------------------------ MODULE ResponseParserProofs ------------------------
(***************************************************************************)
(* Facts of ResponseParser for every grammar and every buffer: the cursor  *)
(* stays in the buffer, and the stacks of calls and of lists that are under*)
(* construction give what functions that call one another would return.    *)
(***************************************************************************)
EXTENDS ResponseParser, SequenceLemmas, FiniteSetTheorems

(***************************************************************************)
(* Why "skip" needs no test for the end: only the first instruction of a   *)
(* branch is one, and the branch was chosen by the unit that it skips.     *)
(***************************************************************************)
WellFormed(instruction) ==
  /\ instruction.op = "expect" => instruction.arg # "eof"
  /\ instruction.op \in {"do", "switch", "until"} => instruction.arg \in DOMAIN Grammar
  /\ instruction.op = "switch" => NeverSkips(Grammar[instruction.arg])

TodoInv == \A i \in 1..Len(todo) : WellFormed(todo[i]) /\ (todo[i].op = "skip" => i = 1)
SkipInv == status = "running" /\ todo # <<>> /\ todo[1].op = "skip" => ~ eof

IInv == TypeOK /\ TodoInv /\ SkipInv

-----------------------------------------------------------------------------
(* Facts about the operators. *)

\* A maximal run ends in the buffer or just behind it.
LEMMA RunEndInBuffer ==
  ASSUME TypeOK, NEW class
  PROVE  RunEnd(class) \in pos .. Len(buf) + 1
<1> DEFINE Ends == {j \in pos .. Len(buf) + 1 : j <= Len(buf) => buf[j] \notin class}
<1>1. pos \in Nat /\ Len(buf) \in Nat /\ pos <= Len(buf) + 1
  BY DEF TypeOK
<1>2. Ends \subseteq Nat /\ Len(buf) + 1 \in Ends
  BY <1>1
<1>3. PICK j \in Ends : \A k \in Ends : j <= k
  BY <1>2, HasLeast
<1>4. \A k \in pos .. j-1 : buf[k] \in class
  BY <1>1, <1>3
<1>5. \E e \in pos .. Len(buf) + 1 :
        /\ \A k \in pos .. e-1 : buf[k] \in class
        /\ e <= Len(buf) => buf[e] \notin class
  BY <1>3, <1>4
<1> QED BY <1>5 DEF RunEnd

\* The end of the buffer is no unit of it.
LEMMA PeekAtEnd ==
  ASSUME TypeOK
  PROVE  /\ peek = "eof" <=> eof
         /\ ~ eof => peek \in Unit
         /\ ~ eof => pos + 1 \in 1 .. Len(buf) + 1
BY UnitAssumption DEF TypeOK, peek, eof

\* A branch that begins with "skip" was chosen by a unit.
LEMMA SeenBeforeSkip ==
  ASSUME TypeOK, NEW guard, Ahead(guard), guard \notin {"else", "eof", "TEXT?"}
  PROVE  ~ eof
<1>1. CASE guard = "NIL?"
  BY <1>1 DEF Ahead, matchNIL
<1>2. CASE guard = "digit?"
  <2>1. peek \in Numeral
    BY <1>2 DEF Ahead
  <2>2. peek \in Unit
    BY <2>1 DEF Unit, AtomUnit
  <2> QED BY <2>2, PeekAtEnd, UnitAssumption
<1>3. CASE guard \notin {"NIL?", "digit?"}
  <2>1. peek = guard
    BY <1>3 DEF Ahead
  <2> QED BY <2>1, PeekAtEnd
<1> QED BY <1>1, <1>2, <1>3

\* What an instruction list becomes when its first instruction is replaced.
LEMMA Replaced ==
  ASSUME NEW s \in Seq(Instr), NEW t \in Seq(Instr), s # <<>>
  PROVE  /\ t \o Tail(s) \in Seq(Instr)
         /\ \A i \in 1 .. Len(t \o Tail(s)) :
              \/ i \in 1..Len(t) /\ (t \o Tail(s))[i] = t[i]
              \/ i > Len(t) /\ \E j \in 2..Len(s) : (t \o Tail(s))[i] = s[j]
<1>1. /\ Tail(s) \in Seq(Instr) /\ Len(Tail(s)) = Len(s) - 1
      /\ \A i \in 1..Len(Tail(s)) : Tail(s)[i] = s[i+1]
  OBVIOUS
<1>2. Len(s) \in Nat /\ Len(t) \in Nat /\ Len(t \o Tail(s)) = Len(t) + Len(Tail(s))
  BY <1>1
<1>3. ASSUME NEW i \in 1 .. Len(t \o Tail(s))
      PROVE  \/ i \in 1..Len(t) /\ (t \o Tail(s))[i] = t[i]
             \/ i > Len(t) /\ \E j \in 2..Len(s) : (t \o Tail(s))[i] = s[j]
  <2>1. CASE i <= Len(t)
    BY <2>1, <1>1, <1>2
  <2>2. CASE i > Len(t)
    <3>1. (t \o Tail(s))[i] = Tail(s)[i - Len(t)] /\ i - Len(t) \in 1..Len(Tail(s))
      BY <2>2, <1>1, <1>2
    <3>2. Tail(s)[i - Len(t)] = s[i - Len(t) + 1] /\ i - Len(t) + 1 \in 2..Len(s)
      BY <3>1, <1>1, <1>2
    <3> QED BY <3>1, <3>2, <2>2
  <2> QED BY <2>1, <2>2, <1>2
<1> QED BY <1>1, <1>3

-----------------------------------------------------------------------------
(* The invariant is inductive. *)

LEMMA InitIInv == Init => IInv
<1> SUFFICES ASSUME Init PROVE IInv
  OBVIOUS
<1> DEFINE first == [op |-> "do", arg |-> "ParseResponse"]
<1>1. first \in Instr /\ WellFormed(first) /\ first.op # "skip"
  <2>1. first.op = "do" /\ first.arg = "ParseResponse"
    OBVIOUS
  <2>2. first \in Instr
    <3>1. "ParseResponse" \in STRING
      BY StartAssumption
    <3>2. "do" \in Ops
      BY DEF Ops
    <3> QED BY <3>1, <3>2 DEF Instr
  <2> HIDE DEF first
  <2> QED BY <2>1, <2>2, StartAssumption DEF WellFormed
<1>2. todo = <<first>> /\ Len(todo) = 1 /\ todo[1] = first
  BY DEF Init
<1>3. TypeOK
  BY <1>1, <1>2, InputAssumption DEF Init, TypeOK, buf
<1> QED BY <1>1, <1>2, <1>3 DEF IInv, TodoInv, SkipInv

\* The next instruction is gone, and the cursor is anywhere in the buffer.
LEMMA Consumed ==
  ASSUME IInv, todo # <<>>, todo' = Tail(todo), UNCHANGED <<input, status>>,
         pos' \in 1 .. Len(buf) + 1
  PROVE  IInv'
<1> USE DEF IInv
<1>1. /\ Tail(todo) \in Seq(Instr) /\ Len(Tail(todo)) = Len(todo) - 1 /\ Len(todo) \in Nat
      /\ \A i \in 1..Len(Tail(todo)) : Tail(todo)[i] = todo[i+1]
  BY DEF TypeOK
<1>2. TypeOK'
  BY <1>1 DEF TypeOK, buf
<1>3. \A i \in 1..Len(todo') : WellFormed(todo'[i]) /\ todo'[i].op # "skip"
  BY <1>1 DEF TodoInv
<1>4. TodoInv'
  BY <1>3 DEF TodoInv, WellFormed
<1>5. todo' # <<>> => 1 \in 1..Len(todo')
  BY <1>1
<1>6. SkipInv'
  BY <1>3, <1>5 DEF SkipInv
<1> QED BY <1>2, <1>4, <1>6

\* The next instruction is replaced by well-formed ones.
LEMMA Expanded ==
  ASSUME IInv, todo # <<>>, NEW body \in Seq(Instr), todo' = body \o Tail(todo),
         UNCHANGED <<input, pos, status>>,
         \A i \in 1..Len(body) : WellFormed(body[i]) /\ (body[i].op = "skip" => i = 1 /\ ~ eof)
  PROVE  IInv'
<1> USE DEF IInv
<1>1. todo \in Seq(Instr) /\ Len(todo) \in Nat /\ Len(body) \in Nat
  BY DEF TypeOK
<1>2. /\ todo' \in Seq(Instr)
      /\ \A i \in 1..Len(todo') :
           \/ i \in 1..Len(body) /\ todo'[i] = body[i]
           \/ i > Len(body) /\ \E j \in 2..Len(todo) : todo'[i] = todo[j]
  <2>1. body \o Tail(todo) \in Seq(Instr)
    BY <1>1, Replaced, Zenon
  <2>2. \A i \in 1..Len(body \o Tail(todo)) :
          \/ i \in 1..Len(body) /\ (body \o Tail(todo))[i] = body[i]
          \/ i > Len(body) /\ \E j \in 2..Len(todo) : (body \o Tail(todo))[i] = todo[j]
    BY <1>1, Replaced, Zenon
  <2> QED BY <2>1, <2>2, Zenon
<1>3. TypeOK'
  BY <1>2 DEF TypeOK, buf
<1>4. \A i \in 1..Len(todo') :
        WellFormed(todo'[i]) /\ (todo'[i].op = "skip" => i = 1 /\ ~ eof)
  <2>1. \A j \in 2..Len(todo) : WellFormed(todo[j]) /\ todo[j].op # "skip"
    BY <1>1 DEF TodoInv
  <2> QED BY <2>1, <1>2
<1>5. TodoInv'
  BY <1>4 DEF TodoInv, WellFormed
<1>6. todo' # <<>> => 1 \in 1..Len(todo')
  BY <1>2
<1>7. eof' = eof
  BY DEF eof, buf
<1>8. SkipInv'
  BY <1>4, <1>6, <1>7 DEF SkipInv
<1> QED BY <1>3, <1>5, <1>8

\* Only the status changes, and the call is over.
LEMMA Stopped ==
  ASSUME IInv, status' \in {"done", "error", "panic"}, UNCHANGED <<input, pos, todo>>
  PROVE  IInv'
BY DEF IInv, TypeOK, TodoInv, SkipInv, WellFormed, buf

\* What is true of the instruction that is executed.
LEMMA AtHead ==
  ASSUME IInv, todo # <<>>
  PROVE  Instruction = todo[1] /\ Instruction \in Instr /\ WellFormed(Instruction)
<1>1. todo \in Seq(Instr) /\ 1 \in 1..Len(todo) /\ Head(todo) = todo[1]
  BY DEF IInv, TypeOK
<1>2. todo[1] \in Instr
  BY <1>1, ElementOfSeq
<1> QED BY <1>1, <1>2 DEF IInv, TodoInv, Instruction

-----------------------------------------------------------------------------
LEMMA DoIInv == ASSUME IInv, Do PROVE IInv'
<1>1. todo # <<>> /\ Instruction.op = "do"
  BY DEF Do, Running
<1> DEFINE name == Instruction.arg
<1>2. name \in DOMAIN Grammar
  BY <1>1, AtHead DEF WellFormed
<1>3. PICK g \in Branches(Grammar[name]) : todo' = Grammar[name][g] \o Tail(todo)
  BY DEF Do
<1>4. g \in DOMAIN Grammar[name] /\ (g = "else" \/ Ahead(g))
  BY DEF Branches, ElseOr
<1> DEFINE body == Grammar[name][g]
<1>5. /\ body \in Seq(Instr)
      /\ \A i \in 1..Len(body) :
           WellFormed(body[i]) /\ (body[i].op = "skip" => i = 1 /\ g \notin {"else", "eof", "TEXT?"})
  BY <1>2, <1>4, GrammarAssumption DEF WellFormed
<1>6. g \notin {"else", "eof", "TEXT?"} => ~ eof
  BY <1>4, SeenBeforeSkip DEF IInv
<1>7. UNCHANGED <<input, pos, status>>
  BY DEF Do
<1> HIDE DEF name, body
<1>8. todo' = body \o Tail(todo)
  BY <1>3 DEF body
<1> QED BY <1>1, <1>5, <1>6, <1>7, <1>8, Expanded

LEMMA SwitchIInv == ASSUME IInv, Switch PROVE IInv'
<1>1. todo # <<>> /\ Instruction.op = "switch"
  BY DEF Switch, Running
<1> DEFINE name == Instruction.arg
<1>2. name \in DOMAIN Grammar /\ NeverSkips(Grammar[name])
  BY <1>1, AtHead DEF WellFormed
<1>3. PICK g \in Cases(Grammar[name]) : todo' = Grammar[name][g] \o Tail(todo)
  BY DEF Switch
<1>4. g \in DOMAIN Grammar[name]
  BY DEF Cases, ElseOr
<1> DEFINE body == Grammar[name][g]
<1>5. body \in Seq(Instr) /\ \A i \in 1..Len(body) : WellFormed(body[i])
  BY <1>2, <1>4, GrammarAssumption DEF WellFormed
<1>6. \A i \in 1..Len(body) : body[i].op # "skip"
  <2>1. DOMAIN body = 1..Len(body)
    BY <1>5
  <2> QED BY <1>2, <1>4, <2>1 DEF NeverSkips
<1>7. UNCHANGED <<input, pos, status>>
  BY DEF Switch
<1> HIDE DEF name, body
<1>8. todo' = body \o Tail(todo)
  BY <1>3 DEF body
<1> QED BY <1>1, <1>5, <1>6, <1>7, <1>8, Expanded

LEMMA UntilIInv == ASSUME IInv, Until PROVE IInv'
<1>1. todo # <<>> /\ Instruction.op = "until" /\ UNCHANGED <<input, status>>
  BY DEF Until, Running
<1>2. ASSUME peek = ")" \/ peek = " "
      PROVE  pos + 1 \in 1 .. Len(buf) + 1
  BY <1>2, PeekAtEnd DEF IInv
<1>3. CASE peek = ")"
  <2>1. pos' = pos + 1 /\ todo' = Tail(todo)
    BY <1>3 DEF Until
  <2> QED BY <1>1, <1>2, <1>3, <2>1, Consumed
<1>4. CASE peek # ")"
  <2> DEFINE elem == [op |-> "do", arg |-> Instruction.arg]
  <2>1. /\ todo' = <<elem>> \o todo
        /\ pos' = pos \/ (pos' = pos + 1 /\ peek = " ")
    BY <1>4 DEF Until
  <2>2. elem \in Instr /\ WellFormed(elem)
    BY <1>1, AtHead DEF Instr, Ops, WellFormed
  <2> HIDE DEF elem
  <2>3. todo \in Seq(Instr) /\ pos \in 1 .. Len(buf) + 1
    BY DEF IInv, TypeOK
  <2>4. /\ todo' \in Seq(Instr) /\ Len(todo') = Len(todo) + 1 /\ Len(todo) \in Nat
        /\ todo'[1] = elem /\ \A i \in 2..Len(todo') : todo'[i] = todo[i-1] /\ i-1 \in 1..Len(todo)
    <3>1. <<elem>> \in Seq(Instr) /\ Len(<<elem>>) = 1 /\ <<elem>>[1] = elem
      BY <2>2
    <3>2. /\ todo' \in Seq(Instr) /\ Len(todo') = 1 + Len(todo)
          /\ \A i \in 1 .. 1 + Len(todo) : todo'[i] = IF i <= 1 THEN <<elem>>[i] ELSE todo[i-1]
      <4> DEFINE one == <<elem>>
      <4>1. one \in Seq(Instr) /\ Len(one) = 1 /\ todo' = one \o todo
        BY <2>1, <3>1
      <4> HIDE DEF one
      <4>2. /\ one \o todo \in Seq(Instr) /\ Len(one \o todo) = Len(one) + Len(todo)
            /\ \A i \in 1 .. Len(one) + Len(todo) :
                 (one \o todo)[i] = IF i <= Len(one) THEN one[i] ELSE todo[i - Len(one)]
        BY <2>3, <4>1, ConcatProperties
      <4>3. \A i \in 1 .. 1 + Len(todo) : todo'[i] = IF i <= 1 THEN one[i] ELSE todo[i-1]
        BY <4>1, <4>2
      <4> QED BY <4>1, <4>2, <4>3 DEF one
    <3>3. Len(todo) \in Nat
      BY <2>3
    <3> QED BY <3>1, <3>2, <3>3
  <2>5. pos' \in 1 .. Len(buf) + 1
    BY <1>2, <2>1, <2>3
  <2>6. TypeOK'
    BY <1>1, <2>4, <2>5 DEF IInv, TypeOK, buf
  <2>7. todo[1].op # "skip" /\ elem.op # "skip"
    BY <1>1, AtHead DEF elem
  <2>8. \A i \in 1..Len(todo') : WellFormed(todo'[i]) /\ todo'[i].op # "skip"
    <3>1. \A j \in 1..Len(todo) : WellFormed(todo[j]) /\ todo[j].op # "skip"
      BY <2>7 DEF IInv, TodoInv
    <3> QED BY <2>2, <2>4, <2>7, <3>1
  <2>9. TodoInv' /\ SkipInv'
    BY <2>4, <2>8 DEF TodoInv, SkipInv, WellFormed
  <2> QED BY <2>6, <2>9 DEF IInv
<1> QED BY <1>3, <1>4

\* The cursor stays in the buffer: what is consumed has been seen, or counted.
LEMMA CursorIInv ==
  ASSUME IInv, Expect \/ Skip \/ Copy \/ Read \/ ReadNumber \/ TakeLiteral \/ Build
  PROVE  IInv'
<1>1. todo # <<>> /\ todo' = Tail(todo) /\ UNCHANGED <<input, status>>
  BY DEF Expect, Skip, Copy, Read, ReadNumber, TakeLiteral, Build, Running
<1>2. pos \in 1 .. Len(buf) + 1 /\ Len(buf) \in Nat
  BY DEF IInv, TypeOK
<1>3. pos' \in 1 .. Len(buf) + 1
  <2>1. CASE Expect
    <3>1. peek # "eof" /\ pos' = pos + 1
      BY <2>1, <1>1, AtHead DEF Expect, Running, WellFormed
    <3> QED BY <3>1, PeekAtEnd DEF IInv
  <2>2. CASE Skip
    <3>1. ~ eof /\ pos' = pos + 1
      BY <2>2, <1>1, AtHead DEF Skip, Running, IInv, SkipInv
    <3> QED BY <3>1, PeekAtEnd DEF IInv
  <2>3. CASE Copy
    BY <2>3, PeekAtEnd DEF IInv, Copy
  <2>4. CASE Read
    <3>1. pos' = RunEnd(Class(Instruction.arg))
      BY <2>4 DEF Read
    <3>2. pos' \in pos .. Len(buf) + 1
      BY <3>1, RunEndInBuffer DEF IInv
    <3> QED BY <1>2, <3>2
  <2>5. CASE ReadNumber
    <3>1. peek \in Unit /\ pos' = pos + 1
      BY <2>5 DEF ReadNumber, Unit, AtomUnit
    <3> QED BY <3>1, PeekAtEnd, UnitAssumption DEF IInv
  <2>6. CASE TakeLiteral
    <3>1. pos' = LiteralEnd + 1 /\ LiteralEnd \in pos - 1 .. Len(buf)
      BY <2>6 DEF TakeLiteral
    <3> HIDE DEF LiteralEnd
    <3> QED BY <1>2, <3>1
  <2>7. CASE Build
    BY <2>7, <1>2 DEF Build
  <2> QED BY <2>1, <2>2, <2>3, <2>4, <2>5, <2>6, <2>7
<1> QED BY <1>1, <1>3, Consumed

LEMMA NextIInv == ASSUME IInv, [Next]_vars PROVE IInv'
<1>1. CASE Do
  BY <1>1, DoIInv
<1>2. CASE Switch
  BY <1>2, SwitchIInv
<1>3. CASE Until
  BY <1>3, UntilIInv
<1>4. CASE Expect \/ Skip \/ Copy \/ Read \/ ReadNumber \/ TakeLiteral \/ Build
  BY <1>4, CursorIInv
<1>5. CASE Return \/ Fail \/ Panic
  <2>1. status' \in {"done", "error", "panic"} /\ UNCHANGED <<input, pos, todo>>
    BY <1>5 DEF Return, Fail, Panic
  <2> QED BY <2>1, Stopped
<1>6. CASE UNCHANGED vars
  BY <1>6 DEF vars, IInv, TypeOK, TodoInv, SkipInv, WellFormed, buf, eof
<1>7. Terminated => UNCHANGED vars
  BY DEF Terminated
<1> QED BY <1>1, <1>2, <1>3, <1>4, <1>5, <1>6, <1>7 DEF Next

\* Types, well-formed calls, and a unit in front of every bare p.pos++ of
\* parser.go, in every state.
THEOREM IInvInvariant == Spec => []IInv
BY InitIInv, NextIInv, PTL DEF Spec

\* The cursor never leaves the buffer, in any grammar of this form and in any
\* buffer, though several loops and look-aheads of parser.go move it with no
\* test of their own.
THEOREM TypeCorrect == Spec => []TypeOK
<1>1. IInv => TypeOK
  BY DEF IInv
<1> QED BY IInvInvariant, <1>1, PTL

-----------------------------------------------------------------------------
(***************************************************************************)
(* The parser as parser.go has it: functions that call one another, and    *)
(* return what they read.  Nothing here knows of the stacks todo and vals. *)
(***************************************************************************)

UnitAt(b, i) == IF i > Len(b) THEN "eof" ELSE b[i]
NILAt(b, i)  == /\ ~ (i > Len(b)) /\ upcaseASCII(<<UnitAt(b, i)>>) = <<"NIL">>
                /\ i < Len(b) => b[i+1] \notin AtomUnit
AheadAt(b, i, list, guard) ==
  CASE guard = "NIL?"   -> NILAt(b, i)
    [] guard = "digit?" -> UnitAt(b, i) \in Numeral
    [] guard = "TEXT?"  -> upcaseASCII(list[1].s) = <<"TEXT">>
    [] guard = "else"   -> FALSE
    [] OTHER            -> UnitAt(b, i) = guard
BranchesAt(b, i, list, table) == ElseOr(table, {g \in DOMAIN table : AheadAt(b, i, list, g)})
LastOf(list)         == list[Len(list)]
CasesAt(list, table) ==
  ElseOr(table, {g \in DOMAIN table \ {"else"} : upcaseASCII(LastOf(list).s) = <<g>>})
RunEndAt(b, i, class) ==
  CHOOSE j \in i .. Len(b) + 1 :
    /\ \A k \in i .. j-1 : b[k] \in class
    /\ j <= Len(b) => b[j] \notin class
LiteralEndAt(i, list) ==
  LET end == i - 1 + Value[LastOf(list).s[1]] IN
  IF end > MaxInt THEN end - 2 * (MaxInt + 1) ELSE end
Replacing(list, v) == [list EXCEPT ![Len(list)] = v]

\* The instruction ins, executed at i with the list under construction, leads
\* to j with the list m; what is still to be done for it is body.
Chooses(b, ins, i, list, body, j, m) ==
  /\ ins.op = "do" /\ j = i /\ m = list
  /\ \E g \in BranchesAt(b, i, list, Grammar[ins.arg]) : body = Grammar[ins.arg][g]
Selects(b, ins, i, list, body, j, m) ==
  /\ ins.op = "switch" /\ j = i
  /\ \E g \in CasesAt(list, Grammar[ins.arg]) :
       /\ body = Grammar[ins.arg][g]
       /\ m = IF g = "else" THEN list ELSE Replacing(list, Str(<<g>>))
Repeats(b, ins, i, list, body, j, m) ==
  /\ ins.op = "until" /\ m = list
  /\ \/ UnitAt(b, i) = ")" /\ body = <<>> /\ j = i + 1
     \/ /\ UnitAt(b, i) # ")"
        /\ list # <<>> => UnitAt(b, i) = " "
        /\ body = <<[op |-> "do", arg |-> ins.arg], ins>>
        /\ j = IF list # <<>> THEN i + 1 ELSE i
Consumes(b, ins, i, list, body, j, m) ==
  /\ body = <<>>
  /\ \/ ins.op = "expect" /\ UnitAt(b, i) = ins.arg /\ j = i + 1 /\ m = list
     \/ ins.op = "skip" /\ j = i + 1 /\ m = list
     \/ /\ ins.op = "copy" /\ ~ (i > Len(b)) /\ j = i + 1
        /\ m = Replacing(list, Str(Append(LastOf(list).s, UnitAt(b, i))))
     \/ /\ ins.op = "run" /\ j = RunEndAt(b, i, Class(ins.arg))
        /\ j > i \/ ins.arg \in MayBeEmpty
        /\ LET run == SubSeq(b, i, j - 1) IN
           m = Append(list, Str(IF ins.arg = "ATOM" THEN upcaseASCII(run) ELSE run))
     \/ /\ ins.op = "number" /\ UnitAt(b, i) \in Numeral /\ Value[UnitAt(b, i)] <= MaxInt
        /\ j = i + 1 /\ m = Append(list, Leaf("num", <<UnitAt(b, i)>>))
     \/ /\ ins.op = "take" /\ LiteralEndAt(i, list) \in i - 1 .. Len(b)
        /\ j = LiteralEndAt(i, list) + 1
        /\ m = Replacing(list, Str(SubSeq(b, i, LiteralEndAt(i, list))))
     \/ ins.op = "put" /\ j = i /\ m = Append(list, Constant(ins.arg))
     \/ /\ ins.op = "set" /\ j = i
        /\ LET n == Len(list) IN m = SetPair(SubSeq(list, 1, n - 2), list[n-1].s, list[n])
Executes(b, ins, i, list, body, j, m) ==
  \/ Chooses(b, ins, i, list, body, j, m)
  \/ Selects(b, ins, i, list, body, j, m)
  \/ Repeats(b, ins, i, list, body, j, m)
  \/ Consumes(b, ins, i, list, body, j, m)

\* A fact: prog, begun at the unit at with the list under construction, ends
\* at the unit end with the list result.
Fact(prog, at, list, end, result) ==
  [prog |-> prog, at |-> at, list |-> list, end |-> end, result |-> result]
Program == {p \in Seq(Instr) : \A i \in 1..Len(p) : WellFormed(p[i])}

\* Nothing is left to do ...
Ended(c) == c.prog = <<>> /\ c.end = c.at /\ c.result = c.list
\* ... a function is called, and returns before the rest is done ...
CallOf(b, c, known, body, j, m, mid, read) ==
  /\ Executes(b, Head(c.prog), c.at, c.list, body, j, m)
  /\ Fact(body, j, m, mid, read) \in known
  /\ Fact(Tail(c.prog), mid, read, c.end, c.result) \in known
Called(b, c, known) ==
  c.prog # <<>> /\ \E body, j, m, mid, read : CallOf(b, c, known, body, j, m, mid, read)
\* ... or a struct is built from nothing, and joins the list when it is complete.
IsStruct(prog, open, body, close, rest) ==
  /\ open.op = "open" /\ close.op = "close"
  /\ prog = <<open>> \o (body \o (<<close>> \o rest))
StructOf(c, known, open, body, close, rest, mid, fields) ==
  /\ IsStruct(c.prog, open, body, close, rest)
  /\ Fact(body, c.at, <<>>, mid, fields) \in known
  /\ Fact(rest, mid, Append(c.list, Node(close.arg, fields)), c.end, c.result) \in known
Built(c, known) ==
  \E open, close \in Instr : \E body, rest \in Program : \E mid, fields :
    StructOf(c, known, open, body, close, rest, mid, fields)

FollowsFrom(b, c, known) ==
  c.prog \in Program /\ (Ended(c) \/ Called(b, c, known) \/ Built(c, known))
Derivation(b, d, n) == \A k \in 1..n : FollowsFrom(b, d[k], {d[i] : i \in 1 .. k-1})

\* A fact about the buffer b holds if there is a derivation of it.
Derives(b, c) == \E n \in Nat \ {0} : \E d : Derivation(b, d, n) /\ d[n] = c
Start == <<[op |-> "do", arg |-> "ParseResponse"]>>
Reads(b, end, list) == Derives(b, Fact(Start, 1, <<>>, end, list))
-----------------------------------------------------------------------------
(* Derivations put together. *)

LEMMA MoreKnown ==
  ASSUME NEW b, NEW c, NEW known, NEW more, known \subseteq more, FollowsFrom(b, c, known)
  PROVE  FollowsFrom(b, c, more)
<1>1. ASSUME Called(b, c, known) PROVE Called(b, c, more)
  <2>1. PICK body, j, m, mid, read : CallOf(b, c, known, body, j, m, mid, read)
    BY <1>1 DEF Called
  <2>2. CallOf(b, c, more, body, j, m, mid, read)
    BY <2>1 DEF CallOf
  <2> QED BY <1>1, <2>2 DEF Called
<1>2. ASSUME Built(c, known) PROVE Built(c, more)
  <2>1. PICK open \in Instr, close \in Instr, body \in Program, rest \in Program :
          \E mid, fields : StructOf(c, known, open, body, close, rest, mid, fields)
    BY <1>2 DEF Built
  <2>2. PICK mid, fields : StructOf(c, known, open, body, close, rest, mid, fields)
    BY <2>1
  <2>3. StructOf(c, more, open, body, close, rest, mid, fields)
    BY <2>2 DEF StructOf
  <2> QED BY <2>3 DEF Built
<1> QED BY <1>1, <1>2 DEF FollowsFrom

LEMMA DerivesEnded ==
  ASSUME NEW b, NEW i, NEW list
  PROVE  Derives(b, Fact(<<>>, i, list, i, list))
<1> DEFINE c == Fact(<<>>, i, list, i, list)
           d == [k \in 1..1 |-> c]
<1>1. <<>> \in Program
  BY DEF Program
<1>2. FollowsFrom(b, c, {d[k] : k \in 1 .. 0})
  BY <1>1 DEF FollowsFrom, Ended, Fact
<1>3. d[1] = c /\ 1 \in Nat \ {0}
  OBVIOUS
<1>4. Derivation(b, d, 1)
  <2> HIDE DEF c, d
  <2>1. ASSUME NEW k \in 1..1 PROVE FollowsFrom(b, d[k], {d[e] : e \in 1 .. k-1})
    <3>1. k = 1 /\ k - 1 = 0
      OBVIOUS
    <3> QED BY <3>1, <1>2, <1>3
  <2> QED BY <2>1 DEF Derivation
<1> HIDE DEF c, d
<1>5. Derives(b, c)
  BY <1>3, <1>4 DEF Derives
<1> QED BY <1>5 DEF c

\* What follows from two facts that hold, holds.
LEMMA DerivesFrom ==
  ASSUME NEW b, NEW c, NEW x, NEW y, Derives(b, x), Derives(b, y), FollowsFrom(b, c, {x, y})
  PROVE  Derives(b, c)
<1>0. PICK n \in Nat \ {0}, m \in Nat \ {0} :
        (\E d : Derivation(b, d, n) /\ d[n] = x) /\ (\E e : Derivation(b, e, m) /\ e[m] = y)
  BY DEF Derives
<1>1. PICK d : Derivation(b, d, n) /\ d[n] = x
  BY <1>0
<1>2. PICK e : Derivation(b, e, m) /\ e[m] = y
  BY <1>0
<1> DEFINE l == n + m + 1
           f == [k \in 1..l |-> IF k <= n THEN d[k] ELSE IF k <= n + m THEN e[k-n] ELSE c]
           Upto(k) == {f[i] : i \in 1 .. k-1}
<1>3. l \in Nat \ {0} /\ f[l] = c
  OBVIOUS
<1>4. ASSUME NEW k \in 1..l PROVE FollowsFrom(b, f[k], Upto(k))
  <2>1. CASE k <= n
    <3>1. f[k] = d[k] /\ k \in 1..n
      BY <2>1
    <3>2. {d[i] : i \in 1 .. k-1} \subseteq Upto(k)
      <4>1. \A i \in 1 .. k-1 : i \in 1..l /\ f[i] = d[i]
        BY <2>1
      <4> HIDE DEF f, l
      <4> QED BY <4>1
    <3>3. FollowsFrom(b, d[k], {d[i] : i \in 1 .. k-1})
      BY <1>1, <3>1 DEF Derivation
    <3> HIDE DEF f, l, Upto
    <3> QED BY <3>1, <3>2, <3>3, MoreKnown
  <2>2. CASE k > n /\ k <= n + m
    <3>1. f[k] = e[k-n] /\ k-n \in 1..m
      BY <2>2
    <3>2. {e[i] : i \in 1 .. (k-n)-1} \subseteq Upto(k)
      <4>1. \A i \in 1 .. (k-n)-1 : i+n \in 1 .. k-1 /\ f[i+n] = e[i]
        BY <2>2
      <4> HIDE DEF f, l
      <4> QED BY <4>1
    <3>3. FollowsFrom(b, e[k-n], {e[i] : i \in 1 .. (k-n)-1})
      BY <1>2, <3>1 DEF Derivation
    <3> HIDE DEF f, l, Upto
    <3> QED BY <3>1, <3>2, <3>3, MoreKnown
  <2>3. CASE k = l
    <3>1. f[k] = c
      BY <2>3
    <3>2. n \in 1 .. k-1 /\ f[n] = x /\ n+m \in 1 .. k-1 /\ f[n+m] = y
      <4>1. n \in 1..l /\ n <= n /\ n+m \in 1..l /\ ~ (n+m <= n) /\ n+m <= n+m /\ (n+m)-n = m
        OBVIOUS
      <4>2. f[n] = d[n] /\ f[n+m] = e[m]
        BY <4>1
      <4> QED BY <1>1, <1>2, <2>3, <4>2
    <3> HIDE DEF f, l
    <3>3. {x, y} \subseteq Upto(k)
      BY <3>2
    <3> HIDE DEF Upto
    <3> QED BY <3>1, <3>3, MoreKnown
  <2> QED BY <2>1, <2>2, <2>3
<1> HIDE DEF f, l
<1>5. Derivation(b, f, l)
  BY <1>4 DEF Derivation
<1> QED BY <1>3, <1>5 DEF Derives

LEMMA DerivesCall ==
  ASSUME NEW b, NEW prog \in Program, prog # <<>>, NEW i, NEW list,
         NEW body, NEW j, NEW m, Executes(b, Head(prog), i, list, body, j, m),
         NEW mid, NEW read, Derives(b, Fact(body, j, m, mid, read)),
         NEW end, NEW result, Derives(b, Fact(Tail(prog), mid, read, end, result))
  PROVE  Derives(b, Fact(prog, i, list, end, result))
<1> DEFINE c == Fact(prog, i, list, end, result)
           x == Fact(body, j, m, mid, read)
           y == Fact(Tail(prog), mid, read, end, result)
<1>1. c.prog = prog /\ c.at = i /\ c.list = list /\ c.end = end /\ c.result = result
  BY DEF Fact
<1> HIDE DEF c
<1>2. CallOf(b, c, {x, y}, body, j, m, mid, read)
  BY <1>1 DEF CallOf
<1>3. FollowsFrom(b, c, {x, y})
  BY <1>1, <1>2 DEF FollowsFrom, Called
<1>4. Derives(b, c)
  BY <1>3, DerivesFrom
<1> QED BY <1>4 DEF c

LEMMA DerivesStruct ==
  ASSUME NEW b, NEW open \in Instr, NEW close \in Instr, NEW body \in Program, NEW rest \in Program,
         NEW prog \in Program, IsStruct(prog, open, body, close, rest),
         NEW i, NEW list, NEW mid, NEW fields, Derives(b, Fact(body, i, <<>>, mid, fields)),
         NEW end, NEW result,
         Derives(b, Fact(rest, mid, Append(list, Node(close.arg, fields)), end, result))
  PROVE  Derives(b, Fact(prog, i, list, end, result))
<1> DEFINE c == Fact(prog, i, list, end, result)
           x == Fact(body, i, <<>>, mid, fields)
           y == Fact(rest, mid, Append(list, Node(close.arg, fields)), end, result)
<1>1. c.prog = prog /\ c.at = i /\ c.list = list /\ c.end = end /\ c.result = result
  BY DEF Fact
<1> HIDE DEF c
<1>2. StructOf(c, {x, y}, open, body, close, rest, mid, fields)
  BY <1>1 DEF StructOf
<1>3. FollowsFrom(b, c, {x, y})
  BY <1>1, <1>2 DEF FollowsFrom, Built
<1>4. Derives(b, c)
  BY <1>3, DerivesFrom
<1> QED BY <1>4 DEF c

-----------------------------------------------------------------------------
(* Sequences of instructions. *)

LEMMA HeadAndTail ==
  ASSUME NEW p \in Program, p # <<>>
  PROVE  /\ Head(p) \in Instr /\ WellFormed(Head(p)) /\ Tail(p) \in Program
         /\ p = <<Head(p)>> \o Tail(p) /\ <<Head(p)>> \in Program /\ Len(Tail(p)) = Len(p) - 1
<1>1. p \in Seq(Instr) /\ \A i \in 1..Len(p) : WellFormed(p[i])
  BY DEF Program
<1>2. Head(p) = p[1] /\ 1 \in 1..Len(p) /\ Len(p) \in Nat
  BY <1>1
<1>3. Tail(p) \in Seq(Instr) /\ Len(Tail(p)) = Len(p) - 1 /\ \A i \in 1..Len(Tail(p)) : Tail(p)[i] = p[i+1]
  BY <1>1
<1>4. \A i \in 1..Len(Tail(p)) : WellFormed(Tail(p)[i])
  BY <1>1, <1>2, <1>3
<1>5. p[1] \in Instr /\ p = <<p[1]>> \o Tail(p)
  BY <1>1, CutFirst
<1>6. <<p[1]>> \in Program
  <2> DEFINE one == <<p[1]>>
  <2>1. one \in Seq(Instr) /\ Len(one) = 1 /\ one[1] = p[1]
    BY <1>5
  <2> HIDE DEF one
  <2>2. \A i \in 1..Len(one) : WellFormed(one[i])
    BY <2>1, <1>1, <1>2
  <2>3. one \in Program
    BY <2>1, <2>2 DEF Program
  <2> QED BY <2>3 DEF one
<1> QED BY <1>1, <1>2, <1>3, <1>4, <1>5, <1>6 DEF Program

LEMMA ProgramConcat ==
  ASSUME NEW p \in Program, NEW q \in Program
  PROVE  p \o q \in Program
<1>1. p \in Seq(Instr) /\ q \in Seq(Instr)
  BY DEF Program
<1>2. /\ p \o q \in Seq(Instr) /\ Len(p \o q) = Len(p) + Len(q)
      /\ \A i \in 1 .. Len(p) + Len(q) : (p \o q)[i] = IF i <= Len(p) THEN p[i] ELSE q[i - Len(p)]
  BY <1>1, ConcatProperties
<1> DEFINE pq == p \o q
<1> HIDE DEF pq
<1>3. /\ pq \in Seq(Instr) /\ Len(pq) = Len(p) + Len(q) /\ Len(p) \in Nat /\ Len(q) \in Nat
      /\ \A i \in 1 .. Len(p) + Len(q) : pq[i] = IF i <= Len(p) THEN p[i] ELSE q[i - Len(p)]
  BY <1>1, <1>2 DEF pq
<1>4. ASSUME NEW i \in 1..Len(pq) PROVE WellFormed(pq[i])
  <2>1. CASE i <= Len(p)
    <3>1. i \in 1..Len(p) /\ pq[i] = p[i]
      BY <2>1, <1>3
    <3> QED BY <3>1 DEF Program
  <2>2. CASE ~ (i <= Len(p))
    <3>1. i - Len(p) \in 1..Len(q) /\ pq[i] = q[i - Len(p)]
      BY <2>2, <1>3
    <3> QED BY <3>1 DEF Program
  <2> QED BY <2>1, <2>2
<1>5. pq \in Program
  BY <1>3, <1>4 DEF Program
<1> QED BY <1>5 DEF pq

\* An instruction in front of a list of them.
OpensWith(p, first, rest) == p # <<>> /\ Head(p) = first /\ Tail(p) = rest

LEMMA InstructionAndRest ==
  ASSUME NEW first \in Instr, NEW rest \in Seq(Instr), NEW p, p = <<first>> \o rest
  PROVE  OpensWith(p, first, rest)
<1> DEFINE one == <<first>>
<1>1. one \in Seq(Instr) /\ Len(one) = 1 /\ one[1] = first
  OBVIOUS
<1> HIDE DEF one
<1>2. /\ one \o rest \in Seq(Instr) /\ Len(one \o rest) = Len(one) + Len(rest)
      /\ \A i \in 1 .. Len(one) + Len(rest) : (one \o rest)[i] = IF i <= Len(one) THEN one[i] ELSE rest[i - Len(one)]
  BY <1>1, ConcatProperties
<1>3. /\ p \in Seq(Instr) /\ Len(p) = 1 + Len(rest) /\ Len(rest) \in Nat
      /\ \A i \in 1 .. 1 + Len(rest) : p[i] = IF i <= 1 THEN one[i] ELSE rest[i-1]
  <2>1. p = one \o rest
    BY DEF one
  <2> QED BY <1>1, <1>2, <2>1
<1>4. p # <<>> /\ Head(p) = first
  <2>1. 1 \in 1 .. 1 + Len(rest) /\ 1 <= 1
    BY <1>3
  <2>2. p[1] = first
    BY <1>1, <1>3, <2>1
  <2> QED BY <1>3, <2>2
<1>5. Tail(p) \in Seq(Instr) /\ Len(Tail(p)) = Len(p) - 1 /\ \A i \in 1 .. Len(p)-1 : Tail(p)[i] = p[i+1]
  BY <1>3, <1>4
<1>6. \A i \in 1..Len(rest) : p[i+1] = rest[i]
  BY <1>3
<1>7. Tail(p) = rest
  BY <1>3, <1>5, <1>6, SeqEqual
<1> QED BY <1>4, <1>7 DEF OpensWith

\* The first instruction of a concatenation is that of its first part.
HeadOfFirst(p, q) == p \o q # <<>> /\ Head(p \o q) = Head(p) /\ Tail(p \o q) = Tail(p) \o q

LEMMA HeadOfConcat ==
  ASSUME NEW p \in Program, p # <<>>, NEW q \in Program
  PROVE  HeadOfFirst(p, q)
<1> DEFINE h == Head(p)
           t == Tail(p)
           one == <<h>>
           tq == t \o q
           pq == p \o q
<1>1. h \in Instr /\ t \in Seq(Instr) /\ q \in Seq(Instr) /\ one \in Seq(Instr) /\ p = one \o t
  BY HeadAndTail DEF Program
<1>2. tq \in Seq(Instr)
  BY <1>1
<1>3. pq = one \o tq
  <2> HIDE DEF h, t, one
  <2>1. Associates(one, t, q)
    BY <1>1, ConcatOfThree
  <2> QED BY <1>1, <2>1 DEF Associates
<1>4. OpensWith(pq, h, tq)
  <2> HIDE DEF h, tq, pq
  <2> QED BY <1>1, <1>2, <1>3, InstructionAndRest
<1> QED BY <1>4 DEF OpensWith, HeadOfFirst

\* What an instruction leaves to be done is made of well-formed ones.
LEMMA ExecutesProgram ==
  ASSUME NEW b, NEW ins \in Instr, WellFormed(ins), NEW i, NEW list, NEW body, NEW j, NEW m,
         Executes(b, ins, i, list, body, j, m)
  PROVE  body \in Program /\ Balanced(body) /\ ins.op \notin {"open", "close"}
<1>0. WellFormed(ins)
  OBVIOUS
<1>1. ASSUME NEW g, ins.arg \in DOMAIN Grammar, g \in DOMAIN Grammar[ins.arg],
             body = Grammar[ins.arg][g]
      PROVE  body \in Program /\ Balanced(body)
  BY <1>1, GrammarAssumption DEF Program, WellFormed
<1>2. CASE Chooses(b, ins, i, list, body, j, m)
  <2>1. ins.op = "do" /\ ins.arg \in DOMAIN Grammar
    BY <1>2 DEF Chooses, WellFormed
  <2>2. PICK g : g \in BranchesAt(b, i, list, Grammar[ins.arg]) /\ body = Grammar[ins.arg][g]
    BY <1>2 DEF Chooses
  <2>3. g \in DOMAIN Grammar[ins.arg]
    BY <2>2 DEF BranchesAt, ElseOr
  <2> QED BY <2>1, <2>2, <2>3, <1>1
<1>3. CASE Selects(b, ins, i, list, body, j, m)
  <2>1. ins.op = "switch" /\ ins.arg \in DOMAIN Grammar
    BY <1>3 DEF Selects, WellFormed
  <2>2. PICK g : g \in CasesAt(list, Grammar[ins.arg]) /\ body = Grammar[ins.arg][g]
    BY <1>3 DEF Selects
  <2>3. g \in DOMAIN Grammar[ins.arg]
    BY <2>2 DEF CasesAt, ElseOr
  <2> QED BY <2>1, <2>2, <2>3, <1>1
<1>4. <<>> \in Program /\ Balanced(<<>>)
  <2>1. 1 .. 0 = {} /\ Len(<<>>) = 0
    OBVIOUS
  <2>2. \A k \in 1..0 : k \in {}
    OBVIOUS
  <2>3. Opened(<<>>, 0) = 0
    <3>1. \A op : {i_1 \in 1..0 : <<>>[i_1].op = op} = {}
      OBVIOUS
    <3> QED BY <3>1, FS_EmptySet DEF Opened, Count
  <2> QED BY <2>1, <2>3 DEF Program, Balanced
<1>5. CASE Repeats(b, ins, i, list, body, j, m)
  <2>1. CASE body = <<>>
    BY <2>1, <1>4, <1>5 DEF Repeats
  <2>2. CASE body # <<>>
    <3> DEFINE elem == [op |-> "do", arg |-> ins.arg]
    <3>1. body = <<elem, ins>> /\ ins.op = "until"
      BY <2>2, <1>5 DEF Repeats
    <3>2. elem \in Instr /\ WellFormed(elem) /\ elem.op = "do"
      <4>1. elem.op = "do" /\ elem.arg = ins.arg
        OBVIOUS
      <4>2. elem \in Instr
        BY DEF Instr, Ops
      <4> HIDE DEF elem
      <4> QED BY <3>1, <4>1, <4>2 DEF WellFormed
    <3> HIDE DEF elem
    <3>3. body \in Seq(Instr) /\ Len(body) = 2 /\ body[1] = elem /\ body[2] = ins
      BY <3>1, <3>2
    <3>4. body \in Program
      <4>1. WellFormed(body[1]) /\ WellFormed(body[2])
        BY <1>0, <3>2, <3>3
      <4>2. \A e \in 1..Len(body) : e = 1 \/ e = 2
        BY <3>3
      <4>3. \A e \in 1..Len(body) : WellFormed(body[e])
        BY <4>1, <4>2
      <4> QED BY <3>3, <4>3 DEF Program
    <3>5. ASSUME NEW k \in 0..2 PROVE Opened(body, k) = 0
      <4>1. \A e \in 1..k : body[e].op = "do" \/ body[e].op = "until"
        BY <3>1, <3>2, <3>3
      <4>2. {e \in 1..k : body[e].op = "open"} = {} /\ {e \in 1..k : body[e].op = "close"} = {}
        BY <4>1
      <4> QED BY <4>2, FS_EmptySet DEF Opened, Count
    <3> QED BY <3>1, <3>3, <3>4, <3>5 DEF Balanced
  <2> QED BY <2>1, <2>2
<1>6. CASE Consumes(b, ins, i, list, body, j, m)
  BY <1>4, <1>6 DEF Consumes
<1> QED BY <1>2, <1>3, <1>5, <1>6 DEF Executes

LEMMA OneProgram ==
  ASSUME NEW ins \in Instr, WellFormed(ins)
  PROVE  <<ins>> \in Program
<1> DEFINE one == <<ins>>
<1>1. one \in Seq(Instr) /\ Len(one) = 1 /\ one[1] = ins
  OBVIOUS
<1> HIDE DEF one
<1>2. \A i \in 1..Len(one) : WellFormed(one[i])
  <2>1. \A i \in 1..Len(one) : i = 1
    BY <1>1
  <2> QED BY <1>1, <2>1
<1>3. one \in Program
  BY <1>1, <1>2 DEF Program
<1> QED BY <1>3 DEF one

LEMMA MiddleOf ==
  ASSUME NEW s \in Seq(Instr), NEW ins \in Instr, NEW rest \in Seq(Instr)
  PROVE  /\ Len(s) + 1 \in 1..Len(s \o (<<ins>> \o rest))
         /\ (s \o (<<ins>> \o rest))[Len(s) + 1] = ins
<1> DEFINE u == <<ins>> \o rest
           w == s \o u
<1>1. u \in Seq(Instr)
  OBVIOUS
<1>2. OpensWith(u, ins, rest)
  BY InstructionAndRest
<1> HIDE DEF u
<1>3. Len(u) \in Nat \ {0} /\ u[1] = ins
  BY <1>1, <1>2 DEF OpensWith
<1>4. /\ Len(w) = Len(s) + Len(u)
      /\ \A i \in 1 .. Len(s) + Len(u) : w[i] = IF i <= Len(s) THEN s[i] ELSE u[i - Len(s)]
  BY <1>1, ConcatProperties
<1> HIDE DEF w
<1>5. Len(s) \in Nat /\ Len(s) + 1 \in 1 .. Len(s) + Len(u) /\ ~ (Len(s) + 1 <= Len(s)) /\ (Len(s) + 1) - Len(s) = 1
  BY <1>3
<1>6. w[Len(s) + 1] = ins
  BY <1>3, <1>4, <1>5
<1> QED BY <1>4, <1>5, <1>6 DEF w, u

-----------------------------------------------------------------------------
(* A balanced list of instructions. *)

Adds(instruction) == IF instruction.op = "open" THEN 1 ELSE IF instruction.op = "close" THEN -1 ELSE 0

LEMMA CountedOps ==
  ASSUME NEW op, NEW s, NEW k \in Nat
  PROVE  /\ Count(op, s, 0) = 0 /\ Count(op, s, k) \in Nat
         /\ Count(op, s, k+1) = Count(op, s, k) + (IF s[k+1].op = op THEN 1 ELSE 0)
<1> DEFINE C(n) == {i \in 1..n : s[i].op = op}
<1>0. \A n : Count(op, s, n) = Cardinality(C(n))
  BY DEF Count
<1>1. Cardinality(C(0)) = 0
  <2>1. C(0) = {}
    OBVIOUS
  <2> QED BY <2>1, FS_EmptySet
<1>2. IsFiniteSet(C(k)) /\ Cardinality(C(k)) \in Nat
  <2>1. IsFiniteSet(1..k)
    BY FS_Interval
  <2>2. C(k) \subseteq 1..k
    OBVIOUS
  <2> HIDE DEF C
  <2> QED BY <2>1, <2>2, FS_Subset, FS_CardinalityType
<1>3. CASE s[k+1].op = op
  <2>1. C(k+1) = C(k) \union {k+1} /\ k+1 \notin C(k)
    BY <1>3
  <2> HIDE DEF C
  <2>2. Cardinality(C(k+1)) = Cardinality(C(k)) + 1
    BY <1>2, <2>1, FS_AddElement
  <2> QED BY <1>0, <1>1, <1>2, <1>3, <2>2
<1>4. CASE s[k+1].op # op
  <2>1. C(k+1) = C(k)
    BY <1>4
  <2> HIDE DEF C
  <2>2. Count(op, s, k+1) = Count(op, s, k)
    BY <1>0, <2>1
  <2> QED BY <1>0, <1>1, <1>2, <1>4, <2>2
<1> QED BY <1>3, <1>4

LEMMA OpenedStep ==
  ASSUME NEW s, NEW k \in Nat
  PROVE  Opened(s, 0) = 0 /\ Opened(s, k) \in Int /\ Opened(s, k+1) = Opened(s, k) + Adds(s[k+1])
<1>1. \A op : /\ Count(op, s, 0) = 0 /\ Count(op, s, k) \in Nat
              /\ Count(op, s, k+1) = Count(op, s, k) + (IF s[k+1].op = op THEN 1 ELSE 0)
  BY CountedOps
<1> QED BY <1>1 DEF Adds, Opened

\* A part of a list opens what it opens in the list.
Inside(t, s, m, n)      == \A i \in 1..n : t[i] = s[m+i]
OpensInside(t, s, m, n) == \A k \in 0..n : Opened(t, k) = Opened(s, m+k) - Opened(s, m)

LEMMA OpenedInside ==
  ASSUME NEW s, NEW t, NEW m \in Nat, NEW n \in Nat, Inside(t, s, m, n)
  PROVE  OpensInside(t, s, m, n)
<1> USE DEF Inside, OpensInside
<1> DEFINE S == {k \in Nat : k <= n => Opened(t, k) = Opened(s, m+k) - Opened(s, m)}
<1>1. 0 \in S
  <2>1. m + 0 = m /\ Opened(s, m) \in Int
    BY OpenedStep
  <2>2. Opened(t, 0) = 0
    BY OpenedStep
  <2> QED BY <2>1, <2>2
<1>2. ASSUME NEW k \in Nat, k \in S PROVE k+1 \in S
  <2> SUFFICES ASSUME k+1 <= n PROVE Opened(t, k+1) = Opened(s, m+(k+1)) - Opened(s, m)
    OBVIOUS
  <2>1. Opened(t, k+1) = Opened(t, k) + Adds(t[k+1]) /\ Opened(t, k) \in Int
    BY OpenedStep
  <2>2. Opened(s, (m+k)+1) = Opened(s, m+k) + Adds(s[(m+k)+1]) /\ Opened(s, m+k) \in Int
    <3>1. m + k \in Nat
      OBVIOUS
    <3> HIDE DEF S
    <3> QED BY <3>1, OpenedStep
  <2>3. Opened(s, m) \in Int
    BY OpenedStep
  <2>4. t[k+1] = s[(m+k)+1] /\ m+(k+1) = (m+k)+1
    <3>1. k+1 \in 1..n /\ m+(k+1) = (m+k)+1
      OBVIOUS
    <3> HIDE DEF S
    <3> QED BY <3>1
  <2>5. Opened(t, k) = Opened(s, m+k) - Opened(s, m)
    BY <1>2
  <2>6. Adds(s[(m+k)+1]) \in Int
    BY DEF Adds
  <2> HIDE DEF S
  <2> QED BY <2>1, <2>2, <2>3, <2>4, <2>5, <2>6
<1>3. \A k \in Nat : k \in S
  <2> HIDE DEF S
  <2> QED BY <1>1, <1>2, Induction
<1> QED BY <1>3

\* What is behind an instruction that neither opens nor closes.
LEMMA BalancedTail ==
  ASSUME NEW p \in Program, p # <<>>, Balanced(p)
  PROVE  /\ Head(p).op # "close"
         /\ Head(p).op # "open" => Balanced(Tail(p))
<1> DEFINE t == Tail(p)
           n == Len(t)
<1>1. p \in Seq(Instr) /\ n \in Nat /\ Len(p) = n + 1 /\ Head(p) = p[1] /\ \A i \in 1..n : t[i] = p[1+i]
  BY DEF Program
<1>2. Opened(p, 1) = Adds(p[1])
  <2>1. Opened(p, 0) = 0 /\ Opened(p, 0+1) = Opened(p, 0) + Adds(p[0+1])
    BY OpenedStep
  <2>2. 0+1 = 1 /\ Adds(p[1]) \in Int
    BY DEF Adds
  <2> QED BY <2>1, <2>2
<1>3. Opened(p, 1) >= 0 /\ Opened(p, n+1) = 0 /\ \A k \in 1 .. n+1 : Opened(p, k) >= 0
  BY <1>1 DEF Balanced
<1> HIDE DEF t, n
<1>4. Head(p).op # "close"
  BY <1>1, <1>2, <1>3 DEF Adds
<1>5. ASSUME Head(p).op # "open" PROVE Balanced(t)
  <2>1. Opened(p, 1) = 0
    BY <1>1, <1>2, <1>4, <1>5 DEF Adds
  <2>2. \A k \in 0..n : Opened(t, k) = Opened(p, 1+k) - Opened(p, 1)
    <3>1. Inside(t, p, 1, n)
      BY <1>1 DEF Inside
    <3>2. OpensInside(t, p, 1, n)
      BY <1>1, <3>1, OpenedInside
    <3> QED BY <3>2 DEF OpensInside
  <2>3. \A k \in 0..n : Opened(p, 1+k) \in Int
    BY <1>1, OpenedStep
  <2>4. \A k \in 0..n : Opened(t, k) = Opened(p, 1+k)
    BY <2>1, <2>2, <2>3
  <2>5. Opened(t, n) = 0
    <3>1. n \in 0..n /\ 1+n = n+1
      BY <1>1
    <3> QED BY <3>1, <2>4, <1>3
  <2>6. \A k \in 1..n : Opened(t, k) >= 0
    <3>1. \A k \in 1..n : k \in 0..n /\ 1+k \in 1 .. n+1
      BY <1>1
    <3> QED BY <3>1, <2>4, <1>3
  <2> QED BY <2>5, <2>6 DEF Balanced, n
<1> QED BY <1>4, <1>5 DEF t

\* What an instruction opens is closed.
Closed(t, body, close, rest) ==
  /\ close.op = "close" /\ t = body \o (<<close>> \o rest)
  /\ Balanced(body) /\ Balanced(rest)

LEMMA BalancedStruct ==
  ASSUME NEW p \in Program, p # <<>>, Balanced(p), Head(p).op = "open"
  PROVE  \E close \in Instr : \E body, rest \in Program : WellFormed(close) /\ Closed(Tail(p), body, close, rest)
<1> DEFINE t == Tail(p)
           n == Len(t)
<1>1. p \in Seq(Instr) /\ n \in Nat /\ Len(p) = n + 1 /\ Head(p) = p[1]
  BY DEF Program
<1>2. t \in Program /\ t \in Seq(Instr) /\ \A i \in 1..n : t[i] = p[1+i]
  <2>1. t \in Program
    BY HeadAndTail
  <2>2. t \in Seq(Instr) /\ \A i \in 1..n : t[i] = p[1+i]
    BY <1>1
  <2> QED BY <2>1, <2>2
<1>3. Opened(p, 1) = 1
  <2>1. Opened(p, 0) = 0 /\ Opened(p, 0+1) = Opened(p, 0) + Adds(p[0+1])
    BY OpenedStep
  <2> QED BY <1>1, <2>1 DEF Adds
<1>4. Opened(p, n+1) = 0 /\ \A k \in 1 .. n+1 : Opened(p, k) >= 0
  BY <1>1 DEF Balanced
<1> HIDE DEF t, n
<1>5. \A k \in 0..n : Opened(t, k) = Opened(p, 1+k) - Opened(p, 1)
  <2>1. Inside(t, p, 1, n)
    BY <1>2 DEF Inside
  <2>2. OpensInside(t, p, 1, n)
    BY <1>1, <2>1, OpenedInside
  <2> QED BY <2>2 DEF OpensInside
<1>6. \A k \in 0..n : 1+k \in 1 .. n+1 /\ Opened(p, 1+k) \in Int
  <2>1. \A k \in 0..n : 1+k \in Nat /\ 1+k \in 1 .. n+1
    BY <1>1
  <2> QED BY <2>1, OpenedStep
\* Counted in t, the struct ends where there is one less than at the beginning.
<1>7. /\ \A k \in 0..n : Opened(t, k) \in Int /\ Opened(t, k) >= -1
      /\ Opened(t, n) = -1
  <2>1. \A k \in 0..n : Opened(t, k) = Opened(p, 1+k) - 1
    BY <1>3, <1>5
  <2>2. \A k \in 0..n : Opened(p, 1+k) >= 0
    BY <1>4, <1>6
  <2>3. n \in 0..n /\ 1+n = n+1
    BY <1>1
  <2> QED BY <1>4, <1>6, <2>1, <2>2, <2>3
<1> DEFINE Ends == {k \in 0..n : Opened(t, k) = -1}
<1>8. PICK e \in Ends : \A k \in Ends : e <= k
  <2>1. Ends \subseteq Nat /\ n \in Ends
    BY <1>1, <1>7
  <2> HIDE DEF Ends
  <2> QED BY <2>1, HasLeast
<1>9. e \in 0..n /\ Opened(t, e) = -1 /\ Opened(t, 0) = 0
  BY <1>8, OpenedStep
<1>10. e \in 1..n
  BY <1>1, <1>9
<1>11. \A k \in 0 .. e-1 : Opened(t, k) >= 0
  <2>1. ASSUME NEW k \in 0 .. e-1 PROVE Opened(t, k) >= 0
    <3>1. k \in 0..n /\ k < e
      BY <1>1, <1>10
    <3>2. k \notin Ends
      BY <1>8, <3>1
    <3>3. Opened(t, k) # -1
      BY <3>1, <3>2
    <3> QED BY <1>7, <3>1, <3>3
  <2> QED BY <2>1
<1> HIDE DEF Ends
<1>12. t[e].op = "close" /\ Opened(t, e-1) = 0
  <2>1. e-1 \in Nat /\ e-1 \in 0 .. e-1 /\ (e-1)+1 = e /\ e-1 \in 0..n
    BY <1>1, <1>10
  <2>2. Opened(t, (e-1)+1) = Opened(t, e-1) + Adds(t[(e-1)+1])
    BY <2>1, OpenedStep
  <2>3. Opened(t, e-1) \in Int /\ Opened(t, e-1) >= 0
    BY <2>1, <1>7, <1>11
  <2>4. -1 = Opened(t, e-1) + Adds(t[e])
    BY <1>9, <2>1, <2>2
  <2>5. Adds(t[e]) \in {-1, 0, 1} /\ (Adds(t[e]) = -1 => t[e].op = "close")
    BY DEF Adds
  <2> QED BY <2>3, <2>4, <2>5
<1> DEFINE body == SubSeq(t, 1, e-1)
           rest == SubSeq(t, e+1, n)
           close == t[e]
<1>13. /\ body \in Seq(Instr) /\ Len(body) = e-1 /\ \A i \in 1 .. e-1 : body[i] = t[0+i]
       /\ rest \in Seq(Instr) /\ Len(rest) = n-e /\ \A i \in 1 .. n-e : rest[i] = t[e+i]
       /\ close \in Instr
  BY <1>1, <1>2, <1>10 DEF n
<1>14. t = body \o (<<close>> \o rest)
  <2>1. t = SubSeq(t, 1, e-1) \o SubSeq(t, (e-1)+1, Len(t)) /\ SubSeq(t, (e-1)+1, Len(t)) \in Seq(Instr)
        /\ Len(SubSeq(t, (e-1)+1, Len(t))) = Len(t) - (e-1)
    <3>1. e-1 \in 0..Len(t)
      BY <1>1, <1>10 DEF n
    <3> HIDE DEF body, rest, close
    <3> QED BY <1>2, <3>1, CutAt
  <2> DEFINE tail == SubSeq(t, e, n)
  <2>2. (e-1)+1 = e /\ Len(t) = n
    BY <1>1, <1>10 DEF n
  <2>3. t = body \o tail /\ tail \in Seq(Instr) /\ Len(tail) = n-(e-1)
    BY <2>1, <2>2
  <2>4. tail # <<>> /\ tail[1] = close /\ Tail(tail) = rest
    <3>1. tail[1] = t[e] /\ \A i \in 1 .. n-e : tail[i+1] = t[e+i]
      BY <1>1, <1>2, <1>10, <2>2
    <3> HIDE DEF tail, body, rest, close
    <3>2. tail # <<>> /\ Len(tail) \in Nat \ {0}
      BY <1>1, <1>10, <2>3
    <3>3. Tail(tail) \in Seq(Instr) /\ Len(Tail(tail)) = n-e /\ \A i \in 1 .. n-e : Tail(tail)[i] = tail[i+1]
      BY <2>3, <3>2, <1>1, <1>10
    <3>4. \A i \in 1 .. n-e : Tail(tail)[i] = rest[i]
      BY <3>1, <3>3, <1>13
    <3>5. Tail(tail) = rest
      BY <3>3, <3>4, <1>13, SeqEqual
    <3> QED BY <3>1, <3>2, <3>5 DEF close
  <2> HIDE DEF tail, body, rest, close
  <2>5. tail = <<tail[1]>> \o Tail(tail)
    BY <2>3, <2>4, CutFirst
  <2>6. tail = <<close>> \o rest
    BY <2>4, <2>5
  <2> QED BY <2>3, <2>6
<1> HIDE DEF body, rest, close
<1>15. body \in Program /\ rest \in Program /\ WellFormed(close)
  <2>1. \A i \in 1..n : WellFormed(t[i])
    BY <1>2 DEF Program, n
  <2>2. \A i \in 1..Len(body) : 0+i \in 1..n
    BY <1>1, <1>10, <1>13
  <2>3. \A i \in 1..Len(body) : WellFormed(body[i])
    BY <2>1, <2>2, <1>13
  <2>4. \A i \in 1..Len(rest) : e+i \in 1..n
    BY <1>1, <1>10, <1>13
  <2>5. \A i \in 1..Len(rest) : WellFormed(rest[i])
    BY <2>1, <2>4, <1>13
  <2> QED BY <1>10, <1>13, <2>1, <2>3, <2>5 DEF Program, close
<1>16. Balanced(body)
  <2>1. e-1 \in Nat
    BY <1>1, <1>10
  <2>2. \A k \in 0 .. e-1 : Opened(body, k) = Opened(t, 0+k) - Opened(t, 0)
    <3>1. Inside(body, t, 0, e-1)
      BY <1>13 DEF Inside
    <3>2. OpensInside(body, t, 0, e-1)
      BY <2>1, <3>1, OpenedInside
    <3> QED BY <3>2 DEF OpensInside
  <2>3. \A k \in 0 .. e-1 : 0+k = k /\ k \in 0..n
    BY <1>1, <1>10
  <2>4. \A k \in 0 .. e-1 : Opened(body, k) = Opened(t, k)
    BY <1>7, <1>9, <2>2, <2>3
  <2>5. e-1 \in 0 .. e-1 /\ \A k \in 1 .. e-1 : k \in 0 .. e-1
    BY <2>1
  <2> QED BY <1>11, <1>12, <1>13, <2>4, <2>5 DEF Balanced
<1>17. Balanced(rest)
  <2>1. n-e \in Nat /\ e \in Nat
    BY <1>1, <1>10
  <2>2. \A k \in 0 .. n-e : Opened(rest, k) = Opened(t, e+k) - Opened(t, e)
    <3>1. Inside(rest, t, e, n-e)
      BY <1>13 DEF Inside
    <3>2. OpensInside(rest, t, e, n-e)
      BY <2>1, <3>1, OpenedInside
    <3> QED BY <3>2 DEF OpensInside
  <2>3. \A k \in 0 .. n-e : e+k \in 0..n
    BY <1>1, <1>10
  <2>4. \A k \in 0 .. n-e : Opened(rest, k) = Opened(t, e+k) + 1 /\ Opened(rest, k) >= 0
    BY <1>7, <1>9, <2>2, <2>3
  <2>5. n-e \in 0 .. n-e /\ e+(n-e) = n /\ \A k \in 1 .. n-e : k \in 0 .. n-e
    BY <1>1, <2>1
  <2>6. Opened(rest, n-e) = 0
    BY <1>7, <2>4, <2>5
  <2> QED BY <1>13, <2>4, <2>5, <2>6 DEF Balanced
<1>18. Closed(t, body, close, rest)
  BY <1>12, <1>14, <1>16, <1>17 DEF Closed, close
<1> QED BY <1>13, <1>15, <1>18 DEF t

-----------------------------------------------------------------------------
(***************************************************************************)
(* The parser as ResponseParser has it: a configuration is what is still   *)
(* to be executed, the cursor and the stack of lists, and a step executes  *)
(* one instruction.                                                        *)
(***************************************************************************)

Config(prog, at, lists) == [prog |-> prog, at |-> at, lists |-> lists]
\* What "close" makes of the stack: the innermost list joins the one around it.
Joined(lists, kind) ==
  LET n == Len(lists) - 1 IN
  [SubSeq(lists, 1, n) EXCEPT ![n] = Append(lists[n], Node(kind, lists[Len(lists)]))]

StepBy(b, c, d, body, j, m) ==
  /\ Executes(b, Head(c.prog), c.at, c.lists[Len(c.lists)], body, j, m)
  /\ d = Config(body \o Tail(c.prog), j, [c.lists EXCEPT ![Len(c.lists)] = m])
StepExecutes(b, c, d) == \E body, j, m : StepBy(b, c, d, body, j, m)
StepOpens(c, d) ==
  Head(c.prog).op = "open" /\ d = Config(Tail(c.prog), c.at, Append(c.lists, <<>>))
StepCloses(c, d) ==
  Head(c.prog).op = "close" /\ d = Config(Tail(c.prog), c.at, Joined(c.lists, Head(c.prog).arg))
Step(b, c, d) ==
  /\ c.prog \in Program /\ c.prog # <<>>
  /\ StepExecutes(b, c, d) \/ StepOpens(c, d) \/ StepCloses(c, d)

\* Steps that lead from c to f, where nothing is left to be executed; counted backwards.
Trace(b, t, n, c, f) ==
  t[n] = c /\ t[0] = f /\ f.prog = <<>> /\ \A k \in 1..n : Step(b, t[k], t[k-1])
Leads(b, c, f) == \E n \in Nat : \E t : Trace(b, t, n, c, f)

LEMMA LeadsNowhere ==
  ASSUME NEW b, NEW f, f.prog = <<>>
  PROVE  Leads(b, f, f)
<1> DEFINE t == [k \in 0..0 |-> f]
<1>1. t[0] = f /\ \A k \in 1..0 : Step(b, t[k], t[k-1])
  OBVIOUS
<1>2. Trace(b, t, 0, f, f)
  BY <1>1 DEF Trace
<1> HIDE DEF t
<1> QED BY <1>2 DEF Leads

LEMMA LeadsOn ==
  ASSUME NEW b, NEW c, NEW d, NEW f, Step(b, c, d), Leads(b, d, f)
  PROVE  Leads(b, c, f)
<1>1. PICK n \in Nat : \E t : Trace(b, t, n, d, f)
  BY DEF Leads
<1>2. PICK t : Trace(b, t, n, d, f)
  BY <1>1
<1> DEFINE u == [k \in 0 .. n+1 |-> IF k = n+1 THEN c ELSE t[k]]
<1>3. n+1 \in Nat /\ u[n+1] = c /\ u[0] = t[0] /\ u[n] = t[n]
  OBVIOUS
<1>4. ASSUME NEW k \in 1 .. n+1 PROVE Step(b, u[k], u[k-1])
  <2>1. CASE k = n+1
    <3>1. k-1 = n
      BY <2>1
    <3> HIDE DEF u
    <3> QED BY <2>1, <3>1, <1>2, <1>3 DEF Trace
  <2>2. CASE k # n+1
    <3>1. k \in 1..n /\ u[k] = t[k] /\ u[k-1] = t[k-1]
      BY <2>2
    <3> HIDE DEF u
    <3> QED BY <3>1, <1>2 DEF Trace
  <2> QED BY <2>1, <2>2
<1> HIDE DEF u
<1>5. Trace(b, u, n+1, c, f)
  BY <1>2, <1>3, <1>4 DEF Trace
<1> QED BY <1>3, <1>5 DEF Leads

LEMMA LeadsBack ==
  ASSUME NEW b, NEW c, NEW f, Leads(b, c, f)
  PROVE  /\ f.prog = <<>>
         /\ c.prog = <<>> => f = c
         /\ c.prog # <<>> => \E d : Step(b, c, d) /\ Leads(b, d, f)
<1>1. PICK n \in Nat : \E t : Trace(b, t, n, c, f)
  BY DEF Leads
<1>2. PICK t : Trace(b, t, n, c, f)
  BY <1>1
<1>3. CASE n = 0
  BY <1>2, <1>3 DEF Trace
<1>4. CASE n # 0
  <2>1. n \in 1..n /\ n-1 \in Nat /\ \A k \in 1 .. n-1 : k \in 1..n
    BY <1>4
  <2>2. Step(b, c, t[n-1])
    BY <1>2, <2>1 DEF Trace
  <2>3. Trace(b, t, n-1, t[n-1], f)
    BY <1>2, <2>1 DEF Trace
  <2>4. Leads(b, t[n-1], f)
    BY <2>1, <2>3 DEF Leads
  <2> QED BY <1>2, <2>2, <2>4 DEF Trace, Step
<1> QED BY <1>3, <1>4

-----------------------------------------------------------------------------
(* The list on top of a stack. *)

IsStack(us) == \E S : us \in Seq(S)
OnTop(us, list) ==
  /\ IsStack(Append(us, list)) /\ Len(us) \in Nat
  /\ Len(Append(us, list)) = Len(us) + 1 /\ Append(us, list)[Len(us) + 1] = list
  /\ SubSeq(Append(us, list), 1, Len(us)) = us
  /\ \A i \in 1..Len(us) : Append(us, list)[i] = us[i]
ReplacedOnTop(us, list, m) == [Append(us, list) EXCEPT ![Len(us) + 1] = m] = Append(us, m)

LEMMA TopOfStack ==
  ASSUME NEW us, IsStack(us), NEW list
  PROVE  OnTop(us, list)
<1>1. PICK S : us \in Seq(S)
  BY DEF IsStack
<1> DEFINE T == S \union {list}
           all == Append(us, list)
<1>2. us \in Seq(T) /\ list \in T
  <2>1. \A i \in 1..Len(us) : us[i] \in T
    BY <1>1
  <2> HIDE DEF T
  <2>2. us = [i \in 1..Len(us) |-> us[i]] /\ Len(us) \in Nat
    BY <1>1
  <2>3. us \in Seq(T)
    BY <2>1, <2>2, SeqDef
  <2> QED BY <2>3 DEF T
<1> HIDE DEF T
<1>3. /\ all \in Seq(T) /\ Len(us) \in Nat /\ Len(all) = Len(us) + 1 /\ all[Len(us)+1] = list
      /\ \A i \in 1..Len(us) : all[i] = us[i]
  BY <1>2
<1>4. SubSeq(all, 1, Len(us)) = us
  <2>1. SubSeq(all, 1, Len(us)) \in Seq(T) /\ Len(SubSeq(all, 1, Len(us))) = Len(us)
        /\ \A i \in 1..Len(us) : SubSeq(all, 1, Len(us))[i] = all[i]
    BY <1>3
  <2> HIDE DEF all
  <2> QED BY <1>2, <1>3, <2>1, SeqEqual
<1> QED BY <1>3, <1>4 DEF OnTop, IsStack

LEMMA TopReplaced ==
  ASSUME NEW us, IsStack(us), NEW list, NEW m
  PROVE  ReplacedOnTop(us, list, m)
<1>1. PICK S : us \in Seq(S)
  BY DEF IsStack
<1> DEFINE T == S \union {list, m}
           all == Append(us, list)
           new == [all EXCEPT ![Len(us) + 1] = m]
<1>2. us \in Seq(T) /\ list \in T /\ m \in T
  <2>1. \A i \in 1..Len(us) : us[i] \in T
    BY <1>1
  <2> HIDE DEF T
  <2>2. us = [i \in 1..Len(us) |-> us[i]] /\ Len(us) \in Nat
    BY <1>1
  <2>3. us \in Seq(T)
    BY <2>1, <2>2, SeqDef
  <2> QED BY <2>3 DEF T
<1> HIDE DEF T
<1>3. /\ all \in Seq(T) /\ Len(us) \in Nat /\ Len(all) = Len(us) + 1
      /\ \A i \in 1..Len(us) : all[i] = us[i]
  BY <1>2
<1>4. /\ new \in Seq(T) /\ Len(new) = Len(us) + 1 /\ new[Len(us) + 1] = m
      /\ \A i \in 1..Len(us) : new[i] = us[i]
  <2> HIDE DEF all
  <2> QED BY <1>2, <1>3
<1>5. /\ Append(us, m) \in Seq(T) /\ Len(Append(us, m)) = Len(us) + 1
      /\ Append(us, m)[Len(us) + 1] = m /\ \A i \in 1..Len(us) : Append(us, m)[i] = us[i]
  BY <1>2
<1>6. \A i \in 1 .. Len(us) + 1 : new[i] = Append(us, m)[i]
  <2> HIDE DEF new
  <2>1. \A i \in 1 .. Len(us) + 1 : i = Len(us) + 1 \/ i \in 1..Len(us)
    BY <1>3
  <2> QED BY <1>4, <1>5, <2>1
<1>7. new = Append(us, m)
  <2> HIDE DEF new
  <2> QED BY <1>4, <1>5, <1>6, SeqEqual
<1> QED BY <1>7 DEF ReplacedOnTop

LEMMA JoinedOnTop ==
  ASSUME NEW us, IsStack(us), NEW list, NEW fields, NEW kind
  PROVE  Joined(Append(Append(us, list), fields), kind) = Append(us, Append(list, Node(kind, fields)))
<1> DEFINE around == Append(us, list)
           all == Append(around, fields)
           n == Len(us) + 1
           v == Append(list, Node(kind, fields))
<1>1. OnTop(us, list)
  BY TopOfStack
<1>2. IsStack(around) /\ Len(around) = n /\ n \in Nat /\ n \in 1..n /\ around[n] = list
  BY <1>1 DEF OnTop
<1>3. OnTop(around, fields)
  <2> HIDE DEF around
  <2> QED BY <1>2, TopOfStack
<1> HIDE DEF around
<1>4. Len(all) = n+1 /\ all[n+1] = fields /\ SubSeq(all, 1, n) = around /\ all[n] = list
  BY <1>2, <1>3 DEF OnTop
<1>5. [around EXCEPT ![n] = v] = Append(us, v)
  <2>1. ReplacedOnTop(us, list, v)
    BY TopReplaced
  <2> HIDE DEF v
  <2> QED BY <2>1 DEF ReplacedOnTop, around
<1> HIDE DEF all, n
<1>6. Len(all) - 1 = n
  BY <1>2, <1>4
<1>7. Joined(all, kind) = [around EXCEPT ![n] = v]
  BY <1>4, <1>6, <1>2 DEF Joined, v
<1> QED BY <1>5, <1>7 DEF all, around

-----------------------------------------------------------------------------
(* One step, with the list under construction on top of the stack. *)

LEMMA ExecuteOnTop ==
  ASSUME NEW b, NEW prog \in Program, prog # <<>>, NEW i, NEW us, IsStack(us), NEW list,
         NEW body, NEW j, NEW m, Executes(b, Head(prog), i, list, body, j, m)
  PROVE  Step(b, Config(prog, i, Append(us, list)), Config(body \o Tail(prog), j, Append(us, m)))
<1> DEFINE c == Config(prog, i, Append(us, list))
           d == Config(body \o Tail(prog), j, Append(us, m))
<1>1. c.prog = prog /\ c.at = i /\ c.lists = Append(us, list)
  BY DEF Config
<1>2. OnTop(us, list) /\ ReplacedOnTop(us, list, m)
  BY TopOfStack, TopReplaced
<1>3. c.lists[Len(c.lists)] = list /\ [c.lists EXCEPT ![Len(c.lists)] = m] = Append(us, m)
  BY <1>1, <1>2 DEF OnTop, ReplacedOnTop
<1> HIDE DEF c
<1>4. StepBy(b, c, d, body, j, m)
  BY <1>1, <1>3 DEF StepBy
<1>5. Step(b, c, d)
  BY <1>1, <1>4 DEF Step, StepExecutes
<1> QED BY <1>5 DEF c

LEMMA OpenOnTop ==
  ASSUME NEW b, NEW prog \in Program, prog # <<>>, Head(prog).op = "open", NEW i, NEW lists
  PROVE  Step(b, Config(prog, i, lists), Config(Tail(prog), i, Append(lists, <<>>)))
BY DEF Step, StepOpens, Config

LEMMA CloseOnTop ==
  ASSUME NEW b, NEW prog \in Program, prog # <<>>, Head(prog).op = "close", NEW i,
         NEW us, IsStack(us), NEW list, NEW fields
  PROVE  Step(b, Config(prog, i, Append(Append(us, list), fields)),
                 Config(Tail(prog), i, Append(us, Append(list, Node(Head(prog).arg, fields)))))
<1> DEFINE around == Append(Append(us, list), fields)
           kind == Head(prog).arg
<1>1. Joined(around, kind) = Append(us, Append(list, Node(kind, fields)))
  BY JoinedOnTop
<1> HIDE DEF around
<1>2. Step(b, Config(prog, i, around), Config(Tail(prog), i, Joined(around, kind)))
  BY DEF Step, StepCloses, Config
<1> QED BY <1>1, <1>2 DEF around

\* And back: what a step does is one of these.
LEMMA StepOnTop ==
  ASSUME NEW b, NEW prog \in Program, NEW i, NEW us, IsStack(us), NEW list, NEW d,
         Step(b, Config(prog, i, Append(us, list)), d)
  PROVE  /\ Head(prog).op = "open" =>
              d = Config(Tail(prog), i, Append(Append(us, list), <<>>))
         /\ Head(prog).op = "close" =>
              d = Config(Tail(prog), i, Joined(Append(us, list), Head(prog).arg))
         /\ Head(prog).op \notin {"open", "close"} =>
              \E body, j, m : /\ Executes(b, Head(prog), i, list, body, j, m)
                              /\ d = Config(body \o Tail(prog), j, Append(us, m))
<1> DEFINE c == Config(prog, i, Append(us, list))
<1>1. c.prog = prog /\ c.at = i /\ c.lists = Append(us, list)
  BY DEF Config
<1>2. Step(b, c, d)
  OBVIOUS
<1>3. OnTop(us, list)
  BY TopOfStack
<1> HIDE DEF c
<1>4. prog # <<>> /\ (StepExecutes(b, c, d) \/ StepOpens(c, d) \/ StepCloses(c, d))
  BY <1>1, <1>2 DEF Step
<1>5. Head(prog) \in Instr /\ WellFormed(Head(prog))
  BY <1>4, HeadAndTail
<1>6. CASE StepExecutes(b, c, d)
  <2>1. PICK body, j, m : StepBy(b, c, d, body, j, m)
    BY <1>6 DEF StepExecutes
  <2>2. ReplacedOnTop(us, list, m)
    BY TopReplaced
  <2>3. c.lists[Len(c.lists)] = list /\ [c.lists EXCEPT ![Len(c.lists)] = m] = Append(us, m)
    BY <1>1, <1>3, <2>2 DEF OnTop, ReplacedOnTop
  <2>4. Executes(b, Head(prog), i, list, body, j, m)
    BY <1>1, <2>1, <2>3 DEF StepBy
  <2>5. d = Config(body \o Tail(prog), j, Append(us, m))
    BY <1>1, <2>1, <2>3 DEF StepBy
  <2>6. Head(prog).op \notin {"open", "close"}
    BY <1>5, <2>4, ExecutesProgram
  <2> QED BY <2>4, <2>5, <2>6
<1>7. CASE StepOpens(c, d)
  BY <1>1, <1>7 DEF StepOpens
<1>8. CASE StepCloses(c, d)
  BY <1>1, <1>8 DEF StepCloses
<1> QED BY <1>4, <1>6, <1>7, <1>8

-----------------------------------------------------------------------------
(* What the functions read, the steps read: a fact with anything to be     *)
(* executed behind it, and any lists around it.                            *)

LeadsThrough(b, c) ==
  \A q \in Program : \A us, f :
    IsStack(us) /\ Leads(b, Config(q, c.end, Append(us, c.result)), f) =>
      Leads(b, Config(c.prog \o q, c.at, Append(us, c.list)), f)

LEMMA EmptyProgram == <<>> \in Program /\ \A q \in Program : <<>> \o q = q /\ q \o <<>> = q
BY DEF Program

LEMMA CalledLeads ==
  ASSUME NEW b, NEW c, NEW known, \A e \in known : LeadsThrough(b, e), c.prog \in Program,
         Called(b, c, known)
  PROVE  LeadsThrough(b, c)
<1>1. PICK body, j, m, mid, read : CallOf(b, c, known, body, j, m, mid, read)
  BY DEF Called
<1> DEFINE p == c.prog
           t == Tail(p)
           x == Fact(body, j, m, mid, read)
           y == Fact(t, mid, read, c.end, c.result)
<1>2. x.prog = body /\ x.at = j /\ x.list = m /\ x.end = mid /\ x.result = read
  BY DEF Fact
<1>3. y.prog = t /\ y.at = mid /\ y.list = read /\ y.end = c.end /\ y.result = c.result
  BY DEF Fact
<1> HIDE DEF x, y
<1>4. Executes(b, Head(p), c.at, c.list, body, j, m) /\ x \in known /\ y \in known
  BY <1>1 DEF CallOf, x, y
<1>5. p \in Program /\ p # <<>> /\ t \in Program /\ Head(p) \in Instr /\ WellFormed(Head(p))
  BY HeadAndTail DEF Called
<1>6. body \in Program
  BY <1>4, <1>5, ExecutesProgram
<1> HIDE DEF p, t
<1> SUFFICES ASSUME NEW q \in Program, NEW us, NEW f, IsStack(us),
                    Leads(b, Config(q, c.end, Append(us, c.result)), f)
             PROVE  Leads(b, Config(p \o q, c.at, Append(us, c.list)), f)
  BY DEF LeadsThrough, p
<1>7. Leads(b, Config(t \o q, mid, Append(us, read)), f)
  BY <1>3, <1>4 DEF LeadsThrough
<1>8. t \o q \in Program
  BY <1>5, ProgramConcat
<1>9. Leads(b, Config(body \o (t \o q), j, Append(us, m)), f)
  <2> DEFINE tq == t \o q
  <2> HIDE DEF tq
  <2>1. tq \in Program /\ Leads(b, Config(tq, mid, Append(us, read)), f)
    BY <1>7, <1>8 DEF tq
  <2>2. Leads(b, Config(body \o tq, j, Append(us, m)), f)
    BY <1>2, <1>4, <2>1 DEF LeadsThrough
  <2> QED BY <2>2 DEF tq
<1>10. HeadOfFirst(p, q)
  BY <1>5, HeadOfConcat
<1>11. p \o q \in Program
  BY <1>5, ProgramConcat
<1> DEFINE pq == p \o q
<1>12. pq \in Program /\ pq # <<>> /\ Head(pq) = Head(p) /\ Tail(pq) = t \o q
  BY <1>10, <1>11 DEF HeadOfFirst, t
<1> HIDE DEF pq
<1>13. Step(b, Config(pq, c.at, Append(us, c.list)), Config(body \o Tail(pq), j, Append(us, m)))
  BY <1>4, <1>12, ExecuteOnTop
<1>14. Leads(b, Config(body \o Tail(pq), j, Append(us, m)), f)
  BY <1>9, <1>12
<1>15. Leads(b, Config(pq, c.at, Append(us, c.list)), f)
  BY <1>13, <1>14, LeadsOn
<1> QED BY <1>15 DEF pq

LEMMA BuiltLeads ==
  ASSUME NEW b, NEW c, NEW known, \A e \in known : LeadsThrough(b, e), c.prog \in Program,
         Built(c, known)
  PROVE  LeadsThrough(b, c)
<1>1. PICK open \in Instr, close \in Instr, body \in Program, rest \in Program :
        \E mid, fields : StructOf(c, known, open, body, close, rest, mid, fields)
  BY DEF Built
<1>2. PICK mid, fields : StructOf(c, known, open, body, close, rest, mid, fields)
  BY <1>1
<1> DEFINE node == Node(close.arg, fields)
           x == Fact(body, c.at, <<>>, mid, fields)
           y == Fact(rest, mid, Append(c.list, node), c.end, c.result)
           inner == <<close>> \o rest
           t == body \o inner
           p == c.prog
<1>3. x.prog = body /\ x.at = c.at /\ x.list = <<>> /\ x.end = mid /\ x.result = fields
  BY DEF Fact
<1>4. y.prog = rest /\ y.at = mid /\ y.list = Append(c.list, node) /\ y.end = c.end /\ y.result = c.result
  BY DEF Fact
<1> HIDE DEF x, y
<1>5. open.op = "open" /\ close.op = "close" /\ p = <<open>> \o t /\ x \in known /\ y \in known
  BY <1>2 DEF StructOf, IsStruct, x, y
<1> HIDE DEF p, node
<1> SUFFICES ASSUME NEW q \in Program, NEW us, NEW f, IsStack(us),
                    Leads(b, Config(q, c.end, Append(us, c.result)), f)
             PROVE  Leads(b, Config(p \o q, c.at, Append(us, c.list)), f)
  BY DEF LeadsThrough, p
<1>6. p \in Program /\ p # <<>> /\ Head(p) = open /\ Tail(p) = t /\ t \in Program /\ inner \in Program
      /\ <<close>> \in Program
  <2>1. p \in Program
    BY DEF p
  <2>2. body \in Seq(Instr) /\ rest \in Seq(Instr) /\ <<open>> \in Seq(Instr) /\ <<close>> \in Seq(Instr)
    BY DEF Program
  <2>3. inner \in Seq(Instr)
    BY <2>2
  <2>4. t \in Seq(Instr)
    <3> HIDE DEF inner
    <3> QED BY <2>2, <2>3
  <2> HIDE DEF t, inner
  <2>5. p # <<>> /\ Head(p) = open /\ Tail(p) = t
    <3>1. OpensWith(p, open, t)
      BY <2>4, <1>5, InstructionAndRest
    <3> QED BY <3>1 DEF OpensWith
  <2>6. t \in Program
    BY <2>1, <2>5, HeadAndTail
  <2>7. WellFormed(close)
    <3>1. Len(body) + 1 \in 1..Len(t) /\ t[Len(body) + 1] = close
      BY <2>2, <2>3, MiddleOf DEF t, inner
    <3> QED BY <2>6, <3>1 DEF Program
  <2>8. <<close>> \in Program
    BY <2>7, OneProgram
  <2>9. inner \in Program
    BY <2>8, ProgramConcat DEF inner
  <2> QED BY <2>1, <2>5, <2>6, <2>8, <2>9
<1>7. Leads(b, Config(rest \o q, mid, Append(us, Append(c.list, node))), f)
  BY <1>4, <1>5 DEF LeadsThrough
<1> DEFINE rq == rest \o q
           cq == <<close>> \o rq
           lists == Append(us, c.list)
<1>8. rq \in Program /\ cq \in Program
  <2>1. rq \in Program
    BY ProgramConcat
  <2> HIDE DEF rq
  <2> QED BY <1>6, <2>1, ProgramConcat
<1>9. cq # <<>> /\ Head(cq) = close /\ Tail(cq) = rq
  <2>1. rq \in Seq(Instr)
    BY <1>8 DEF Program
  <2> HIDE DEF rq
  <2>2. OpensWith(cq, close, rq)
    BY <2>1, InstructionAndRest
  <2> QED BY <2>2 DEF OpensWith
<1>10. Leads(b, Config(cq, mid, Append(lists, fields)), f)
  <2>1. Leads(b, Config(rq, mid, Append(us, Append(c.list, node))), f)
    BY <1>7
  <2> HIDE DEF rq, cq
  <2>2. Step(b, Config(cq, mid, Append(lists, fields)),
                Config(Tail(cq), mid, Append(us, Append(c.list, Node(Head(cq).arg, fields)))))
    BY <1>5, <1>8, <1>9, CloseOnTop
  <2>3. Config(Tail(cq), mid, Append(us, Append(c.list, Node(Head(cq).arg, fields))))
          = Config(rq, mid, Append(us, Append(c.list, node)))
    BY <1>9 DEF node
  <2> QED BY <2>1, <2>2, <2>3, LeadsOn
<1>11. Leads(b, Config(body \o cq, c.at, Append(lists, <<>>)), f)
  <2>1. IsStack(lists)
    <3>1. OnTop(us, c.list)
      BY TopOfStack
    <3> QED BY <3>1 DEF OnTop
  <2> HIDE DEF cq, lists
  <2> QED BY <1>3, <1>5, <1>8, <1>10, <2>1 DEF LeadsThrough
<1>12. t \o q = body \o cq
  <2>1. body \in Seq(Instr) /\ rest \in Seq(Instr) /\ <<close>> \in Seq(Instr) /\ q \in Seq(Instr)
    BY DEF Program
  <2> DEFINE one == <<close>>
  <2> HIDE DEF one
  <2>2. Associative(body, one, rest, q)
    BY <2>1, ConcatOfFour DEF one
  <2> QED BY <2>2 DEF Associative, one
<1> HIDE DEF t, cq, inner
<1>13. HeadOfFirst(p, q)
  BY <1>6, HeadOfConcat
<1> DEFINE pq == p \o q
<1>14. pq \in Program /\ pq # <<>> /\ Head(pq).op = "open" /\ Tail(pq) = body \o cq
  BY <1>5, <1>6, <1>12, <1>13, ProgramConcat DEF HeadOfFirst
<1> HIDE DEF pq
<1>15. Step(b, Config(pq, c.at, lists), Config(Tail(pq), c.at, Append(lists, <<>>)))
  <2> HIDE DEF lists
  <2> QED BY <1>14, OpenOnTop
<1>16. Leads(b, Config(Tail(pq), c.at, Append(lists, <<>>)), f)
  BY <1>11, <1>14
<1>17. Leads(b, Config(pq, c.at, lists), f)
  BY <1>15, <1>16, LeadsOn
<1> QED BY <1>17 DEF pq

LEMMA DerivesLeads ==
  ASSUME NEW b, NEW c, Derives(b, c)
  PROVE  LeadsThrough(b, c)
<1>1. PICK n \in Nat \ {0} : \E d : Derivation(b, d, n) /\ d[n] = c
  BY DEF Derives
<1>2. PICK d : Derivation(b, d, n) /\ d[n] = c
  BY <1>1
<1> DEFINE S == {k \in Nat : k \in 1..n => LeadsThrough(b, d[k])}
<1>3. ASSUME NEW k \in Nat, \A e \in 0 .. k-1 : e \in S
      PROVE  k \in S
  <2> SUFFICES ASSUME k \in 1..n PROVE LeadsThrough(b, d[k])
    OBVIOUS
  <2> DEFINE known == {d[e] : e \in 1 .. k-1}
  <2>1. \A e \in 1 .. k-1 : LeadsThrough(b, d[e])
    <3>1. \A e \in 1 .. k-1 : e \in 0 .. k-1 /\ e \in 1..n
      OBVIOUS
    <3> QED BY <1>3, <3>1
  <2>2. \A e \in known : LeadsThrough(b, e)
    BY <2>1
  <2>3. FollowsFrom(b, d[k], known)
    BY <1>2 DEF Derivation
  <2> HIDE DEF known
  <2>4. d[k].prog \in Program
    BY <2>3 DEF FollowsFrom
  <2>5. CASE Ended(d[k])
    <3> DEFINE e == d[k]
    <3>1. e.prog = <<>> /\ e.end = e.at /\ e.result = e.list
      BY <2>5 DEF Ended
    <3> HIDE DEF e
    <3>2. \A q \in Program : e.prog \o q = q
      BY <3>1, EmptyProgram
    <3>3. LeadsThrough(b, e)
      BY <3>1, <3>2 DEF LeadsThrough
    <3> QED BY <3>3 DEF e
  <2>6. CASE Called(b, d[k], known)
    BY <2>2, <2>4, <2>6, CalledLeads
  <2>7. CASE Built(d[k], known)
    BY <2>2, <2>4, <2>7, BuiltLeads
  <2> QED BY <2>3, <2>5, <2>6, <2>7 DEF FollowsFrom
<1>4. \A k \in Nat : k \in S
  <2> HIDE DEF S
  <2> QED BY <1>3, StrongInduction
<1> QED BY <1>2, <1>4

-----------------------------------------------------------------------------
(* What the steps read, the functions read: a balanced front of what is to *)
(* be executed ends somewhere on the way, with one list in the place of    *)
(* the one that was under construction.                                    *)

ReadAt(b, t, k, p, q, i, us, list, mid, read) ==
  Derives(b, Fact(p, i, list, mid, read)) /\ t[k] = Config(q, mid, Append(us, read))
ReadsOff(b, t, k) ==
  \A p, q \in Program : \A i, us, list :
    Balanced(p) /\ IsStack(us) /\ t[k] = Config(p \o q, i, Append(us, list)) =>
      \E e \in 0..k : \E mid, read : ReadAt(b, t, e, p, q, i, us, list, mid, read)

LEMMA ReadsOffCall ==
  ASSUME NEW b, NEW t, NEW k \in Nat \ {0}, \A e \in 0 .. k-1 : ReadsOff(b, t, e),
         Step(b, t[k], t[k-1]),
         NEW p \in Program, p # <<>>, NEW q \in Program, Balanced(p), Head(p).op # "open",
         NEW i, NEW us, IsStack(us), NEW list, t[k] = Config(p \o q, i, Append(us, list))
  PROVE  \E e \in 0..k : \E mid, read : ReadAt(b, t, e, p, q, i, us, list, mid, read)
<1> DEFINE h == Head(p)
           r == Tail(p)
           pq == p \o q
           rq == r \o q
<1>1. h \in Instr /\ WellFormed(h) /\ r \in Program /\ h.op \notin {"open", "close"} /\ Balanced(r)
  BY HeadAndTail, BalancedTail
<1>2. pq \in Program /\ rq \in Program
  <2> HIDE DEF r
  <2> QED BY <1>1, ProgramConcat
<1>3. Head(pq) = h /\ Tail(pq) = rq
  BY HeadOfConcat DEF HeadOfFirst
<1> HIDE DEF pq, rq
<1>4. PICK body, j, m : Executes(b, h, i, list, body, j, m) /\ t[k-1] = Config(body \o rq, j, Append(us, m))
  <2>1. Step(b, Config(pq, i, Append(us, list)), t[k-1])
    BY DEF pq
  <2> HIDE DEF h
  <2>2. \E body, j, m : Executes(b, Head(pq), i, list, body, j, m) /\ t[k-1] = Config(body \o Tail(pq), j, Append(us, m))
    BY <1>1, <1>2, <1>3, <2>1, StepOnTop
  <2> QED BY <1>3, <2>2
<1>5. body \in Program /\ Balanced(body)
  BY <1>1, <1>4, ExecutesProgram
<1> HIDE DEF h, r
<1>6. PICK e \in 0 .. k-1 : \E mid, read : ReadAt(b, t, e, body, rq, j, us, m, mid, read)
  <2>1. k-1 \in 0 .. k-1
    OBVIOUS
  <2>2. ReadsOff(b, t, k-1)
    BY <2>1
  <2> QED BY <1>2, <1>4, <1>5, <2>2 DEF ReadsOff
<1>7. PICK mid1, read1 : ReadAt(b, t, e, body, rq, j, us, m, mid1, read1)
  BY <1>6
<1>8. Derives(b, Fact(body, j, m, mid1, read1)) /\ t[e] = Config(r \o q, mid1, Append(us, read1))
  BY <1>7 DEF ReadAt, rq
<1>9. PICK f \in 0..e : \E mid, read : ReadAt(b, t, f, r, q, mid1, us, read1, mid, read)
  <2>1. ReadsOff(b, t, e)
    BY <1>6
  <2> QED BY <1>1, <1>8, <2>1 DEF ReadsOff
<1>10. PICK mid, read : ReadAt(b, t, f, r, q, mid1, us, read1, mid, read)
  BY <1>9
<1>11. Derives(b, Fact(r, mid1, read1, mid, read)) /\ t[f] = Config(q, mid, Append(us, read))
  BY <1>10 DEF ReadAt
<1>12. Derives(b, Fact(p, i, list, mid, read))
  BY <1>4, <1>8, <1>11, DerivesCall DEF h, r
<1>13. ReadAt(b, t, f, p, q, i, us, list, mid, read)
  BY <1>11, <1>12 DEF ReadAt
<1>14. f \in 0..k
  BY <1>6, <1>9
<1> QED BY <1>13, <1>14

LEMMA ReadsOffStruct ==
  ASSUME NEW b, NEW t, NEW k \in Nat \ {0}, \A e \in 0 .. k-1 : ReadsOff(b, t, e),
         \A e \in 1..k : Step(b, t[e], t[e-1]), t[0].prog = <<>>,
         NEW p \in Program, p # <<>>, NEW q \in Program, Balanced(p), Head(p).op = "open",
         NEW i, NEW us, IsStack(us), NEW list, t[k] = Config(p \o q, i, Append(us, list))
  PROVE  \E e \in 0..k : \E mid, read : ReadAt(b, t, e, p, q, i, us, list, mid, read)
<1> DEFINE open == Head(p)
           r == Tail(p)
           pq == p \o q
           rq == r \o q
           lists == Append(us, list)
<1>1. open \in Instr /\ r \in Program /\ p = <<open>> \o r
  BY HeadAndTail
<1>2. PICK close \in Instr, body \in Program, rest \in Program :
        WellFormed(close) /\ Closed(r, body, close, rest)
  BY BalancedStruct
<1> DEFINE one == <<close>>
           tq == rest \o q
           cq == one \o tq
<1>3. /\ close.op = "close" /\ r = body \o (<<close>> \o rest) /\ Balanced(body) /\ Balanced(rest)
      /\ one \in Program
  BY <1>2, OneProgram DEF Closed
<1>4. tq \in Program /\ pq \in Program
  BY ProgramConcat
<1>5. Head(pq) = open /\ Tail(pq) = rq
  BY HeadOfConcat DEF HeadOfFirst
<1>6. rq = body \o cq
  <2>1. body \in Seq(Instr) /\ rest \in Seq(Instr) /\ one \in Seq(Instr) /\ q \in Seq(Instr)
    BY <1>3 DEF Program
  <2>2. r = body \o (one \o rest)
    BY <1>3
  <2> HIDE DEF one, r
  <2>3. Associative(body, one, rest, q)
    BY <2>1, ConcatOfFour
  <2> QED BY <2>2, <2>3 DEF Associative
<1>7. cq \in Program /\ OpensWith(cq, close, tq)
  <2>1. tq \in Seq(Instr)
    BY <1>4 DEF Program
  <2> HIDE DEF tq
  <2>2. OpensWith(cq, close, tq)
    BY <2>1, InstructionAndRest
  <2> HIDE DEF one
  <2>3. cq \in Program
    BY <1>3, <1>4, ProgramConcat DEF tq
  <2> QED BY <2>2, <2>3
<1>8. IsStack(lists)
  <2>1. OnTop(us, list)
    BY TopOfStack
  <2> QED BY <2>1 DEF OnTop
<1> HIDE DEF one, pq, rq, tq, cq
<1>9. t[k-1] = Config(body \o cq, i, Append(lists, <<>>))
  <2>1. k \in 1..k
    OBVIOUS
  <2>2. Step(b, Config(pq, i, Append(us, list)), t[k-1])
    BY <2>1 DEF pq
  <2>3. t[k-1] = Config(Tail(pq), i, Append(Append(us, list), <<>>))
    BY <1>4, <1>5, <2>2, StepOnTop
  <2> QED BY <1>5, <1>6, <2>3
<1> HIDE DEF lists, r, open
<1>10. PICK e \in 0 .. k-1 : \E mid, read : ReadAt(b, t, e, body, cq, i, lists, <<>>, mid, read)
  <2>1. k-1 \in 0 .. k-1
    OBVIOUS
  <2>2. ReadsOff(b, t, k-1)
    BY <2>1
  <2> QED BY <1>3, <1>7, <1>8, <1>9, <2>2 DEF ReadsOff
<1>11. PICK mid1, fields : ReadAt(b, t, e, body, cq, i, lists, <<>>, mid1, fields)
  BY <1>10
<1>12. Derives(b, Fact(body, i, <<>>, mid1, fields)) /\ t[e] = Config(cq, mid1, Append(lists, fields))
  BY <1>11 DEF ReadAt
<1> DEFINE node == Node(close.arg, fields)
<1>13. e \in 1..k /\ e-1 \in 0 .. k-1
  <2>1. t[e].prog = cq /\ cq # <<>>
    BY <1>7, <1>12 DEF Config, OpensWith
  <2>2. e # 0
    BY <2>1
  <2> QED BY <2>2, <1>10
<1>14. t[e-1] = Config(tq, mid1, Append(us, Append(list, node)))
  <2>1. Step(b, Config(cq, mid1, Append(lists, fields)), t[e-1])
    BY <1>12, <1>13
  <2>2. Head(cq) = close /\ Tail(cq) = tq
    BY <1>7 DEF OpensWith
  <2>3. t[e-1] = Config(Tail(cq), mid1, Joined(Append(lists, fields), Head(cq).arg))
    BY <1>3, <1>7, <1>8, <2>1, <2>2, StepOnTop
  <2>4. Joined(Append(lists, fields), close.arg) = Append(us, Append(list, node))
    BY JoinedOnTop DEF lists
  <2> QED BY <2>2, <2>3, <2>4
<1> HIDE DEF node
<1>15. PICK f \in 0 .. e-1 : \E mid, read : ReadAt(b, t, f, rest, q, mid1, us, Append(list, node), mid, read)
  <2>1. ReadsOff(b, t, e-1)
    BY <1>13
  <2>2. t[e-1] = Config(rest \o q, mid1, Append(us, Append(list, node)))
    BY <1>14 DEF tq
  <2> QED BY <1>3, <2>1, <2>2 DEF ReadsOff
<1>16. PICK mid, read : ReadAt(b, t, f, rest, q, mid1, us, Append(list, node), mid, read)
  BY <1>15
<1>17. Derives(b, Fact(rest, mid1, Append(list, node), mid, read)) /\ t[f] = Config(q, mid, Append(us, read))
  BY <1>16 DEF ReadAt
<1>18. Derives(b, Fact(p, i, list, mid, read))
  <2>1. IsStruct(p, open, body, close, rest)
    BY <1>1, <1>3 DEF open, IsStruct
  <2>2. Derives(b, Fact(rest, mid1, Append(list, Node(close.arg, fields)), mid, read))
    BY <1>17 DEF node
  <2> QED BY <1>1, <1>12, <2>1, <2>2, DerivesStruct
<1>19. ReadAt(b, t, f, p, q, i, us, list, mid, read)
  BY <1>17, <1>18 DEF ReadAt
<1>20. f \in 0..k
  BY <1>13, <1>15
<1> QED BY <1>19, <1>20

LEMMA AllReadsOff ==
  ASSUME NEW b, NEW t, NEW n \in Nat, \A k \in 1..n : Step(b, t[k], t[k-1]), t[0].prog = <<>>
  PROVE  ReadsOff(b, t, n)
<1> DEFINE S == {k \in Nat : k <= n => ReadsOff(b, t, k)}
<1>1. ASSUME NEW k \in Nat, \A e \in 0 .. k-1 : e \in S
      PROVE  k \in S
  <2> SUFFICES ASSUME k <= n PROVE ReadsOff(b, t, k)
    OBVIOUS
  <2>1. \A e \in 0 .. k-1 : ReadsOff(b, t, e)
    <3>1. \A e \in 0 .. k-1 : e <= n
      OBVIOUS
    <3> QED BY <1>1, <3>1
  <2>2. \A e \in 1..k : Step(b, t[e], t[e-1])
    OBVIOUS
  <2> HIDE DEF S
  <2> SUFFICES ASSUME NEW p \in Program, NEW q \in Program, NEW i, NEW us, NEW list,
                      Balanced(p), IsStack(us), t[k] = Config(p \o q, i, Append(us, list))
               PROVE  \E e \in 0..k : \E mid, read : ReadAt(b, t, e, p, q, i, us, list, mid, read)
    BY DEF ReadsOff
  <2>3. CASE p = <<>>
    <3>1. t[k] = Config(q, i, Append(us, list))
      BY <2>3, EmptyProgram
    <3>2. Derives(b, Fact(p, i, list, i, list))
      BY <2>3, DerivesEnded
    <3>3. ReadAt(b, t, k, p, q, i, us, list, i, list)
      BY <3>1, <3>2 DEF ReadAt
    <3>4. k \in 0..k
      OBVIOUS
    <3> QED BY <3>3, <3>4
  <2>4. CASE p # <<>>
    <3>1. k # 0
      <4>1. p \o q # <<>>
        BY <2>4, HeadOfConcat DEF HeadOfFirst
      <4>2. t[k].prog # <<>>
        BY <4>1 DEF Config
      <4> QED BY <4>2
    <3>2. k \in Nat \ {0} /\ k \in 1..k
      BY <3>1
    <3>3. CASE Head(p).op = "open"
      BY <2>1, <2>2, <2>4, <3>2, <3>3, ReadsOffStruct
    <3>4. CASE Head(p).op # "open"
      <4>1. Step(b, t[k], t[k-1])
        BY <2>2, <3>2
      <4> QED BY <2>1, <2>4, <3>2, <3>4, <4>1, ReadsOffCall
    <3> QED BY <3>3, <3>4
  <2> QED BY <2>3, <2>4
<1>2. \A k \in Nat : k \in S
  <2> HIDE DEF S
  <2> QED BY <1>1, StrongInduction
<1> QED BY <1>2

-----------------------------------------------------------------------------
\* A call of ParseResponse, and the end of it.
Call          == Config(Start, 1, << <<>> >>)
Final(j, list) == Config(<<>>, j, <<list>>)

LEMMA StartProgram == Start \in Program /\ Balanced(Start)
<1> DEFINE first == [op |-> "do", arg |-> "ParseResponse"]
<1>1. first.op = "do" /\ first.arg = "ParseResponse"
  OBVIOUS
<1>2. first \in Instr
  <2>1. "ParseResponse" \in STRING /\ "do" \in Ops
    BY StartAssumption DEF Ops
  <2> QED BY <2>1 DEF Instr
<1>3. Start = <<first>>
  BY DEF Start
<1> HIDE DEF first
<1>4. WellFormed(first)
  BY <1>1, StartAssumption DEF WellFormed
<1>5. Start \in Program
  BY <1>2, <1>3, <1>4, OneProgram
<1>6. Len(Start) = 1 /\ Start[1] = first
  BY <1>3
<1>7. Opened(Start, 1) = 0
  <2>1. Opened(Start, 0) = 0 /\ Opened(Start, 0+1) = Opened(Start, 0) + Adds(Start[0+1])
    BY OpenedStep
  <2> QED BY <1>1, <1>6, <2>1 DEF Adds
<1> QED BY <1>5, <1>6, <1>7 DEF Balanced

LEMMA NoListsAround == IsStack(<<>>) /\ \A list : Append(<<>>, list) = <<list>>
BY DEF IsStack

\* The two readings of the grammar agree, in what they accept and in what comes out.
LEMMA ReadsIsLeads ==
  ASSUME NEW b
  PROVE  /\ \A j, list : Reads(b, j, list) => Leads(b, Call, Final(j, list))
         /\ \A f : Leads(b, Call, f) => \E j, list : f = Final(j, list) /\ Reads(b, j, list)
<1>1. ASSUME NEW j, NEW list, Reads(b, j, list)
      PROVE  Leads(b, Call, Final(j, list))
  <2> DEFINE c == Fact(Start, 1, <<>>, j, list)
  <2>1. c.prog = Start /\ c.at = 1 /\ c.list = <<>> /\ c.end = j /\ c.result = list
    BY DEF Fact
  <2>2. Derives(b, c)
    BY <1>1 DEF Reads
  <2> HIDE DEF c
  <2>3. LeadsThrough(b, c)
    BY <2>2, DerivesLeads
  <2>4. Leads(b, Final(j, list), Final(j, list))
    <3>1. Final(j, list).prog = <<>>
      BY DEF Final, Config
    <3> QED BY <3>1, LeadsNowhere
  <2>5. Config(<<>>, c.end, Append(<<>>, c.result)) = Final(j, list)
    BY <2>1, NoListsAround DEF Final
  <2>6. Leads(b, Config(c.prog \o <<>>, c.at, Append(<<>>, c.list)), Final(j, list))
    BY <2>3, <2>4, <2>5, EmptyProgram, NoListsAround DEF LeadsThrough
  <2>7. Config(c.prog \o <<>>, c.at, Append(<<>>, c.list)) = Call
    BY <2>1, EmptyProgram, NoListsAround, StartProgram DEF Call
  <2> QED BY <2>6, <2>7
<1>2. ASSUME NEW f, Leads(b, Call, f)
      PROVE  \E j, list : f = Final(j, list) /\ Reads(b, j, list)
  <2>1. PICK n \in Nat : \E t : Trace(b, t, n, Call, f)
    BY <1>2 DEF Leads
  <2>2. PICK t : Trace(b, t, n, Call, f)
    BY <2>1
  <2>3. ReadsOff(b, t, n)
    BY <2>2, AllReadsOff DEF Trace
  <2>4. t[n] = Config(Start \o <<>>, 1, Append(<<>>, <<>>))
    BY <2>2, EmptyProgram, NoListsAround, StartProgram DEF Trace, Call
  <2>5. PICK e \in 0..n : \E mid, read : ReadAt(b, t, e, Start, <<>>, 1, <<>>, <<>>, mid, read)
    BY <2>3, <2>4, StartProgram, EmptyProgram, NoListsAround DEF ReadsOff
  <2>6. PICK mid, read : ReadAt(b, t, e, Start, <<>>, 1, <<>>, <<>>, mid, read)
    BY <2>5
  <2>7. Reads(b, mid, read) /\ t[e] = Final(mid, read)
    BY <2>6, NoListsAround DEF ReadAt, Reads, Final
  <2>8. e = 0
    <3> SUFFICES ASSUME e \in 1..n PROVE FALSE
      OBVIOUS
    <3>1. t[e].prog # <<>>
      BY <2>2 DEF Trace, Step
    <3> QED BY <3>1, <2>7 DEF Final, Config
  <2> QED BY <2>2, <2>7, <2>8 DEF Trace
<1> QED BY <1>1, <1>2

-----------------------------------------------------------------------------
(* The steps are those of ResponseParser. *)

State == Config(todo, pos, vals)

LEMMA ReadersAgree ==
  /\ peek = UnitAt(buf, pos) /\ (eof <=> pos > Len(buf))
  /\ \A table : Branches(table) = BranchesAt(buf, pos, top, table)
  /\ \A table : Cases(table) = CasesAt(top, table)
  /\ \A class : RunEnd(class) = RunEndAt(buf, pos, class)
  /\ LiteralEnd = LiteralEndAt(pos, top)
<1>1. peek = UnitAt(buf, pos) /\ (eof <=> pos > Len(buf))
  BY DEF peek, eof, UnitAt
<1>2. matchNIL <=> NILAt(buf, pos)
  BY <1>1 DEF matchNIL, NILAt, peek, eof, UnitAt
<1>3. ASSUME NEW table PROVE Branches(table) = BranchesAt(buf, pos, top, table)
  <2>1. ASSUME NEW g PROVE Ahead(g) <=> AheadAt(buf, pos, top, g)
    BY <1>1, <1>2 DEF Ahead, AheadAt
  <2>2. {g \in DOMAIN table : Ahead(g)} = {g \in DOMAIN table : AheadAt(buf, pos, top, g)}
    BY <2>1
  <2> QED BY <2>2 DEF Branches, BranchesAt
<1>4. ASSUME NEW table PROVE Cases(table) = CasesAt(top, table)
  BY DEF Cases, CasesAt, last, LastOf
<1>5. ASSUME NEW class PROVE RunEnd(class) = RunEndAt(buf, pos, class)
  BY DEF RunEnd, RunEndAt
<1>6. LiteralEnd = LiteralEndAt(pos, top)
  BY DEF LiteralEnd, LiteralEndAt, last, LastOf
<1> QED BY <1>1, <1>3, <1>4, <1>5, <1>6

OnTopOfVals(m) == [vals EXCEPT ![Len(vals)] = m]

LEMMA Unreplaced == ASSUME IsStack(vals) PROVE OnTopOfVals(top) = vals
<1>1. PICK S : vals \in Seq(S)
  BY DEF IsStack
<1>2. vals = [i \in 1..Len(vals) |-> vals[i]]
  BY <1>1
<1> QED BY <1>2 DEF OnTopOfVals, top

\* An action that executes one instruction is a step.
LEMMA ExecuteIsStep ==
  ASSUME IInv, todo # <<>>, NEW body, NEW j, NEW m, Executes(buf, Instruction, pos, top, body, j, m),
         NEW later, later = body \o Tail(todo), NEW lists, lists = OnTopOfVals(m)
  PROVE  Step(buf, State, Config(later, j, lists))
<1> DEFINE c == State
           d == Config(later, j, lists)
<1>1. c.prog = todo /\ c.at = pos /\ c.lists = vals
  BY DEF State, Config
<1>2. todo \in Program
  BY DEF IInv, TypeOK, TodoInv, Program
<1>3. d = Config(body \o Tail(c.prog), j, [c.lists EXCEPT ![Len(c.lists)] = m])
  BY <1>1 DEF OnTopOfVals
<1>4. Executes(buf, Head(c.prog), c.at, c.lists[Len(c.lists)], body, j, m)
  BY <1>1 DEF Instruction, top
<1> HIDE DEF c, d
<1>5. StepBy(buf, c, d, body, j, m)
  BY <1>3, <1>4 DEF StepBy
<1>6. Step(buf, c, d)
  BY <1>1, <1>2, <1>5 DEF Step, StepExecutes
<1> QED BY <1>6 DEF c, d

LEMMA DoIsStep ==
  ASSUME IInv, IsStack(vals), Do
  PROVE  Step(buf, State, Config(todo', pos', vals'))
<1>1. todo # <<>> /\ Instruction.op = "do" /\ pos' = pos /\ vals' = vals
  BY DEF Do, Running
<1>2. PICK g \in Branches(Grammar[Instruction.arg]) : todo' = Grammar[Instruction.arg][g] \o Tail(todo)
  BY DEF Do
<1> DEFINE body == Grammar[Instruction.arg][g]
<1>3. g \in BranchesAt(buf, pos, top, Grammar[Instruction.arg])
  BY <1>2, ReadersAgree
<1>4. Executes(buf, Instruction, pos, top, body, pos, top)
  BY <1>1, <1>3 DEF Executes, Chooses
<1> HIDE DEF body
<1>5. todo' = body \o Tail(todo)
  BY <1>2 DEF body
<1> QED BY <1>1, <1>4, <1>5, Unreplaced, ExecuteIsStep

LEMMA SwitchIsStep ==
  ASSUME IInv, IsStack(vals), Switch
  PROVE  Step(buf, State, Config(todo', pos', vals'))
<1>1. todo # <<>> /\ Instruction.op = "switch" /\ pos' = pos
  BY DEF Switch, Running
<1>2. PICK g \in Cases(Grammar[Instruction.arg]) :
        /\ todo' = Grammar[Instruction.arg][g] \o Tail(todo)
        /\ vals' = IF g = "else" THEN vals ELSE Replace(Str(<<g>>))
  BY DEF Switch
<1> DEFINE body == Grammar[Instruction.arg][g]
           m == IF g = "else" THEN top ELSE Replacing(top, Str(<<g>>))
<1>3. g \in CasesAt(top, Grammar[Instruction.arg])
  BY <1>2, ReadersAgree
<1>4. Executes(buf, Instruction, pos, top, body, pos, m)
  BY <1>1, <1>3 DEF Executes, Selects
<1>5. vals' = OnTopOfVals(m)
  BY <1>2, Unreplaced DEF Replace, Replacing, OnTopOfVals
<1> HIDE DEF body, m
<1>6. todo' = body \o Tail(todo)
  BY <1>2 DEF body
<1> QED BY <1>1, <1>4, <1>5, <1>6, ExecuteIsStep

LEMMA UntilIsStep ==
  ASSUME IInv, IsStack(vals), Until
  PROVE  Step(buf, State, Config(todo', pos', vals'))
<1>1. todo # <<>> /\ Instruction.op = "until" /\ vals' = vals /\ peek = UnitAt(buf, pos)
  BY ReadersAgree DEF Until, Running
<1>2. todo \in Program /\ todo \in Seq(Instr)
  BY DEF IInv, TypeOK, TodoInv, Program
<1>3. todo = <<Instruction>> \o Tail(todo) /\ Instruction \in Instr /\ Tail(todo) \in Seq(Instr)
  BY <1>1, <1>2, HeadAndTail DEF Instruction, Program
<1>4. CASE peek = ")"
  <2>1. pos' = pos + 1 /\ todo' = Tail(todo)
    BY <1>4 DEF Until
  <2>2. Executes(buf, Instruction, pos, top, <<>>, pos', top)
    BY <1>1, <1>4, <2>1 DEF Executes, Repeats
  <2>3. todo' = <<>> \o Tail(todo)
    BY <1>3, <2>1
  <2> QED BY <1>1, <2>2, <2>3, Unreplaced, ExecuteIsStep
<1>5. CASE peek # ")"
  <2> DEFINE elem == [op |-> "do", arg |-> Instruction.arg]
             body == <<elem, Instruction>>
  <2>1. /\ todo' = <<elem>> \o todo /\ (top # <<>> => peek = " ")
        /\ pos' = IF top # <<>> THEN pos + 1 ELSE pos
    BY <1>5 DEF Until
  <2>2. Executes(buf, Instruction, pos, top, body, pos', top)
    BY <1>1, <1>5, <2>1 DEF Executes, Repeats
  <2>3. elem \in Instr
    BY <1>3 DEF Instr, Ops
  <2> HIDE DEF elem
  <2>4. todo' = body \o Tail(todo)
    <3> DEFINE one == <<elem>>
               two == <<Instruction>>
               r == Tail(todo)
    <3>1. one \in Seq(Instr) /\ two \in Seq(Instr) /\ r \in Seq(Instr)
      BY <1>3, <2>3
    <3>2. one \o two = body
      BY <1>3, <2>3, ConcatOfTuples
    <3>3. todo' = one \o (two \o r)
      BY <1>3, <2>1
    <3> HIDE DEF one, two, r, body
    <3>4. Associates(one, two, r)
      BY <3>1, ConcatOfThree
    <3>5. todo' = body \o r
      BY <3>2, <3>3, <3>4 DEF Associates
    <3> QED BY <3>5 DEF r
  <2> HIDE DEF body
  <2> QED BY <1>1, <2>2, <2>4, Unreplaced, ExecuteIsStep
<1> QED BY <1>4, <1>5

LEMMA ConsumeIsStep ==
  ASSUME IInv, IsStack(vals), Expect \/ Skip \/ Copy \/ Read \/ ReadNumber \/ TakeLiteral
  PROVE  Step(buf, State, Config(todo', pos', vals'))
<1>1. todo # <<>> /\ todo' = Tail(todo) /\ peek = UnitAt(buf, pos) /\ (eof <=> pos > Len(buf))
  BY ReadersAgree DEF Expect, Skip, Copy, Read, ReadNumber, TakeLiteral, Running
<1>2. todo' = <<>> \o Tail(todo)
  <2>1. Tail(todo) \in Seq(Instr)
    BY <1>1 DEF IInv, TypeOK
  <2> QED BY <1>1, <2>1
<1> SUFFICES \E m : vals' = OnTopOfVals(m) /\ Consumes(buf, Instruction, pos, top, <<>>, pos', m)
  <2>1. PICK m : vals' = OnTopOfVals(m) /\ Consumes(buf, Instruction, pos, top, <<>>, pos', m)
    OBVIOUS
  <2>2. Executes(buf, Instruction, pos, top, <<>>, pos', m)
    BY <2>1 DEF Executes
  <2> QED BY <1>1, <1>2, <2>1, <2>2, ExecuteIsStep
<1>3. CASE Expect
  <2>1. Consumes(buf, Instruction, pos, top, <<>>, pos', top)
    BY <1>1, <1>3 DEF Expect, Running, Consumes
  <2>2. vals' = OnTopOfVals(top)
    BY <1>3, Unreplaced DEF Expect
  <2> QED BY <2>1, <2>2
<1>4. CASE Skip
  <2>1. Consumes(buf, Instruction, pos, top, <<>>, pos', top)
    BY <1>4 DEF Skip, Running, Consumes
  <2>2. vals' = OnTopOfVals(top)
    BY <1>4, Unreplaced DEF Skip
  <2> QED BY <2>1, <2>2
<1>5. CASE Copy
  <2> DEFINE m == Replacing(top, Str(Append(LastOf(top).s, UnitAt(buf, pos))))
  <2>1. Consumes(buf, Instruction, pos, top, <<>>, pos', m)
    BY <1>1, <1>5 DEF Copy, Running, Consumes
  <2>2. vals' = OnTopOfVals(m)
    BY <1>1, <1>5 DEF Copy, Replace, Replacing, OnTopOfVals, last, LastOf
  <2> QED BY <2>1, <2>2
<1>6. CASE Read
  <2> DEFINE name == Instruction.arg
             run == SubSeq(buf, pos, pos' - 1)
             m == Append(top, Str(IF name = "ATOM" THEN upcaseASCII(run) ELSE run))
  <2>1. /\ pos' = RunEnd(Class(name)) /\ (pos' > pos \/ name \in MayBeEmpty) /\ Instruction.op = "run"
        /\ vals' = Push(Str(IF name = "ATOM" THEN upcaseASCII(run) ELSE run))
    BY <1>6 DEF Read, Running
  <2>2. pos' = RunEndAt(buf, pos, Class(name))
    BY <2>1, ReadersAgree
  <2>3. Consumes(buf, Instruction, pos, top, <<>>, pos', m)
    BY <2>1, <2>2 DEF Consumes
  <2>4. vals' = OnTopOfVals(m)
    BY <2>1 DEF Push, OnTopOfVals
  <2> QED BY <2>3, <2>4
<1>7. CASE ReadNumber
  <2> DEFINE m == Append(top, Leaf("num", <<UnitAt(buf, pos)>>))
  <2>1. Consumes(buf, Instruction, pos, top, <<>>, pos', m)
    BY <1>1, <1>7 DEF ReadNumber, Running, Number, Consumes
  <2>2. vals' = OnTopOfVals(m)
    BY <1>1, <1>7 DEF ReadNumber, Push, OnTopOfVals
  <2> QED BY <2>1, <2>2
<1>8. CASE TakeLiteral
  <2> DEFINE e == LiteralEndAt(pos, top)
             m == Replacing(top, Str(SubSeq(buf, pos, e)))
  <2>1. LiteralEnd = e
    BY ReadersAgree
  <2> HIDE DEF e
  <2>2. e \in pos - 1 .. Len(buf) /\ pos' = e + 1 /\ Instruction.op = "take"
        /\ vals' = Replace(Str(SubSeq(buf, pos, e)))
    BY <1>8, <2>1 DEF TakeLiteral, Running
  <2>3. Consumes(buf, Instruction, pos, top, <<>>, pos', m)
    BY <2>2 DEF Consumes, e
  <2>4. vals' = OnTopOfVals(m)
    BY <2>2 DEF Replace, Replacing, OnTopOfVals
  <2> QED BY <2>3, <2>4
<1> QED BY <1>3, <1>4, <1>5, <1>6, <1>7, <1>8

LEMMA BuildIsStep ==
  ASSUME IInv, IsStack(vals), Build
  PROVE  Step(buf, State, Config(todo', pos', vals'))
<1>1. todo # <<>> /\ todo' = Tail(todo) /\ pos' = pos
  BY DEF Build, Running
<1>2. todo' = <<>> \o Tail(todo)
  <2>1. Tail(todo) \in Seq(Instr)
    BY <1>1 DEF IInv, TypeOK
  <2> QED BY <1>1, <2>1
<1>3. ASSUME NEW m, vals' = OnTopOfVals(m), Consumes(buf, Instruction, pos, top, <<>>, pos, m)
      PROVE  Step(buf, State, Config(todo', pos', vals'))
  <2>1. Executes(buf, Instruction, pos, top, <<>>, pos, m)
    BY <1>3 DEF Executes
  <2> QED BY <1>1, <1>2, <1>3, <2>1, ExecuteIsStep
<1>4. CASE Running("put") /\ vals' = Push(Constant(Instruction.arg))
  <2> DEFINE m == Append(top, Constant(Instruction.arg))
  <2>1. Consumes(buf, Instruction, pos, top, <<>>, pos, m)
    BY <1>4 DEF Running, Consumes
  <2>2. vals' = OnTopOfVals(m)
    BY <1>4 DEF Push, OnTopOfVals
  <2> HIDE DEF m
  <2> QED BY <2>1, <2>2, <1>3
<1>5. CASE Running("set") /\ LET n == Len(top) IN
             vals' = [vals EXCEPT ![Len(vals)] = SetPair(SubSeq(top, 1, n - 2), top[n-1].s, top[n])]
  <2> DEFINE m == SetPair(SubSeq(top, 1, Len(top) - 2), top[Len(top) - 1].s, top[Len(top)])
  <2>1. Consumes(buf, Instruction, pos, top, <<>>, pos, m)
    BY <1>5 DEF Running, Consumes
  <2>2. vals' = OnTopOfVals(m)
    BY <1>5 DEF OnTopOfVals
  <2> HIDE DEF m
  <2> QED BY <2>1, <2>2, <1>3
<1>6. State.prog = todo /\ State.at = pos /\ State.lists = vals /\ todo \in Program
  BY DEF State, Config, IInv, TypeOK, TodoInv, Program
<1>7. CASE Running("open") /\ vals' = Append(vals, <<>>)
  <2>1. Config(todo', pos', vals') = Config(Tail(todo), pos, Append(vals, <<>>)) /\ Head(todo).op = "open"
    BY <1>1, <1>7 DEF Running, Instruction
  <2>2. StepOpens(State, Config(todo', pos', vals'))
    BY <1>6, <2>1 DEF StepOpens
  <2> QED BY <1>1, <1>6, <2>2 DEF Step
<1>8. CASE Running("close") /\ vals' = Joined(vals, Instruction.arg)
  <2>1. Config(todo', pos', vals') = Config(Tail(todo), pos, Joined(vals, Head(todo).arg)) /\ Head(todo).op = "close"
    BY <1>1, <1>8 DEF Running, Instruction
  <2>2. StepCloses(State, Config(todo', pos', vals'))
    BY <1>6, <2>1 DEF StepCloses
  <2> QED BY <1>1, <1>6, <2>2 DEF Step
<1> QED BY <1>4, <1>5, <1>7, <1>8 DEF Build, Joined, top

-----------------------------------------------------------------------------
(* There is at most one step: the guards of a table exclude one another. *)

LEMMA SeesAhead ==
  ASSUME NEW b \in Seq(Unit), NEW i \in 1 .. Len(b) + 1, NEW list, NEW guard, AheadAt(b, i, list, guard)
  PROVE  UnitAt(b, i) \in Sees(guard)
<1>1. UnitAt(b, i) \in Unit \union {"eof"} /\ (~ (i > Len(b)) => UnitAt(b, i) \in Unit)
  BY DEF UnitAt
<1>2. CASE guard = "NIL?"
  BY <1>1, <1>2 DEF AheadAt, NILAt, Sees
<1>3. CASE guard = "digit?"
  BY <1>3 DEF AheadAt, Sees
<1>4. CASE guard = "TEXT?"
  BY <1>1, <1>4 DEF Sees
<1>5. CASE guard = "else"
  BY <1>5 DEF AheadAt
<1>6. CASE guard \notin {"NIL?", "digit?", "TEXT?", "else"}
  BY <1>6 DEF AheadAt, Sees
<1> QED BY <1>2, <1>3, <1>4, <1>5, <1>6

LEMMA OneBranch ==
  ASSUME NEW b \in Seq(Unit), NEW i \in 1 .. Len(b) + 1, NEW list, NEW name \in DOMAIN Grammar,
         NEW g \in BranchesAt(b, i, list, Grammar[name]), NEW h \in BranchesAt(b, i, list, Grammar[name])
  PROVE  g = h
<1> DEFINE table  == Grammar[name]
           guards == {x \in DOMAIN table : AheadAt(b, i, list, x)}
<1>1. CASE guards = {}
  BY <1>1 DEF BranchesAt, ElseOr
<1>2. CASE guards # {}
  <2>1. g \in guards /\ h \in guards
    BY <1>2 DEF BranchesAt, ElseOr
  <2>2. UnitAt(b, i) \in Sees(g) \intersect Sees(h)
    BY <2>1, SeesAhead
  <2>3. g \in DOMAIN Grammar[name] /\ h \in DOMAIN Grammar[name]
    BY <2>1
  <2> QED BY <2>2, <2>3, ChoiceAssumption
<1> QED BY <1>1, <1>2

LEMMA OneCase ==
  ASSUME NEW list, NEW table, NEW g \in CasesAt(list, table), NEW h \in CasesAt(list, table)
  PROVE  g = h
<1> DEFINE found  == upcaseASCII(LastOf(list).s)
           guards == {x \in DOMAIN table \ {"else"} : found = <<x>>}
<1>1. CASE guards = {}
  BY <1>1 DEF CasesAt, ElseOr
<1>2. CASE guards # {}
  <2>1. g \in guards /\ h \in guards
    BY <1>2 DEF CasesAt, ElseOr
  <2>2. <<g>> = <<h>>
    BY <2>1
  <2> QED BY <2>2
<1> QED BY <1>1, <1>2

LEMMA ExecutesOnce ==
  ASSUME NEW b \in Seq(Unit), NEW i \in 1 .. Len(b) + 1, NEW list,
         NEW ins \in Instr, WellFormed(ins),
         NEW body, NEW j, NEW m, Executes(b, ins, i, list, body, j, m),
         NEW body2, NEW j2, NEW m2, Executes(b, ins, i, list, body2, j2, m2)
  PROVE  body = body2 /\ j = j2 /\ m = m2
<1>1. CASE ins.op = "do"
  <2>1. Chooses(b, ins, i, list, body, j, m) /\ Chooses(b, ins, i, list, body2, j2, m2)
    BY <1>1 DEF Executes, Selects, Repeats, Consumes
  <2>2. ins.arg \in DOMAIN Grammar
    BY <1>1 DEF WellFormed
  <2>3. PICK g \in BranchesAt(b, i, list, Grammar[ins.arg]) : body = Grammar[ins.arg][g]
    BY <2>1 DEF Chooses
  <2>4. PICK h \in BranchesAt(b, i, list, Grammar[ins.arg]) : body2 = Grammar[ins.arg][h]
    BY <2>1 DEF Chooses
  <2>5. g = h
    BY <2>2, OneBranch
  <2> QED BY <2>1, <2>3, <2>4, <2>5 DEF Chooses
<1>2. CASE ins.op = "switch"
  <2>1. Selects(b, ins, i, list, body, j, m) /\ Selects(b, ins, i, list, body2, j2, m2)
    BY <1>2 DEF Executes, Chooses, Repeats, Consumes
  <2>2. PICK g \in CasesAt(list, Grammar[ins.arg]) :
          /\ body = Grammar[ins.arg][g]
          /\ m = IF g = "else" THEN list ELSE Replacing(list, Str(<<g>>))
    BY <2>1 DEF Selects
  <2>3. PICK h \in CasesAt(list, Grammar[ins.arg]) :
          /\ body2 = Grammar[ins.arg][h]
          /\ m2 = IF h = "else" THEN list ELSE Replacing(list, Str(<<h>>))
    BY <2>1 DEF Selects
  <2>4. g = h
    BY OneCase
  <2> QED BY <2>1, <2>2, <2>3, <2>4 DEF Selects
<1>3. CASE ins.op = "until"
  <2>1. Repeats(b, ins, i, list, body, j, m) /\ Repeats(b, ins, i, list, body2, j2, m2)
    BY <1>3 DEF Executes, Chooses, Selects, Consumes
  <2> QED BY <2>1 DEF Repeats
<1>4. CASE ins.op \notin {"do", "switch", "until"}
  <2>1. Consumes(b, ins, i, list, body, j, m) /\ Consumes(b, ins, i, list, body2, j2, m2)
    BY <1>4 DEF Executes, Chooses, Selects, Repeats
  <2>2. body = body2 /\ ins.op \in {"expect", "skip", "copy", "run", "number", "take", "put", "set"}
    BY <2>1 DEF Consumes
  <2>3. CASE ins.op = "expect"
    BY <2>1, <2>2, <2>3 DEF Consumes
  <2>4. CASE ins.op = "skip"
    BY <2>1, <2>2, <2>4 DEF Consumes
  <2>5. CASE ins.op = "copy"
    BY <2>1, <2>2, <2>5 DEF Consumes
  <2>6. CASE ins.op = "run"
    BY <2>1, <2>2, <2>6 DEF Consumes
  <2>7. CASE ins.op = "number"
    BY <2>1, <2>2, <2>7 DEF Consumes
  <2>8. CASE ins.op = "take"
    BY <2>1, <2>2, <2>8 DEF Consumes
  <2>9. CASE ins.op = "put"
    BY <2>1, <2>2, <2>9 DEF Consumes
  <2>10. CASE ins.op = "set"
    BY <2>1, <2>2, <2>10 DEF Consumes
  <2> QED BY <2>2, <2>3, <2>4, <2>5, <2>6, <2>7, <2>8, <2>9, <2>10
<1> QED BY <1>1, <1>2, <1>3, <1>4

LEMMA StepOnce ==
  ASSUME NEW b \in Seq(Unit), NEW c, c.at \in 1 .. Len(b) + 1, NEW d, Step(b, c, d), NEW e, Step(b, c, e)
  PROVE  d = e
<1> DEFINE ins == Head(c.prog)
<1>1. c.prog \in Program /\ ins \in Instr /\ WellFormed(ins)
  BY HeadAndTail DEF Step
<1>2. CASE ins.op = "open" \/ ins.op = "close"
  <2>1. ~ StepExecutes(b, c, d) /\ ~ StepExecutes(b, c, e)
    BY <1>1, <1>2, ExecutesProgram DEF StepExecutes, StepBy
  <2> QED BY <1>2, <2>1 DEF Step, StepOpens, StepCloses
<1>3. CASE ins.op \notin {"open", "close"}
  <2>1. StepExecutes(b, c, d) /\ StepExecutes(b, c, e)
    BY <1>3 DEF Step, StepOpens, StepCloses
  <2>2. PICK body, j, m : StepBy(b, c, d, body, j, m)
    BY <2>1 DEF StepExecutes
  <2>3. PICK body2, j2, m2 : StepBy(b, c, e, body2, j2, m2)
    BY <2>1 DEF StepExecutes
  <2>4. /\ Executes(b, ins, c.at, c.lists[Len(c.lists)], body, j, m)
        /\ Executes(b, ins, c.at, c.lists[Len(c.lists)], body2, j2, m2)
    BY <2>2, <2>3 DEF StepBy
  <2> HIDE DEF ins
  <2>5. body = body2 /\ j = j2 /\ m = m2
    BY <1>1, <2>4, ExecutesOnce
  <2> QED BY <2>2, <2>3, <2>5 DEF StepBy
<1> QED BY <1>2, <1>3

\* Where the parser gives up there is no step.
LEMMA NoStepOnFailure ==
  ASSUME IInv, Fail \/ Panic, NEW d
  PROVE  ~ Step(buf, State, d)
<1> SUFFICES ASSUME Step(buf, State, d) PROVE FALSE
  OBVIOUS
<1>1. State.prog = todo /\ State.at = pos /\ State.lists = vals
  BY DEF State, Config
<1>2. Instruction.op \in {"do", "switch", "expect", "copy", "run", "number", "take", "until"}
  BY DEF Fail, Panic, Running
<1>3. PICK body, j, m : Executes(buf, Instruction, pos, top, body, j, m)
  <2>1. StepExecutes(buf, State, d)
    BY <1>1, <1>2 DEF Step, StepOpens, StepCloses, Instruction
  <2>2. PICK body, j, m : StepBy(buf, State, d, body, j, m)
    BY <2>1 DEF StepExecutes
  <2> QED BY <1>1, <2>2 DEF StepBy, Instruction, top
<1>4. peek = UnitAt(buf, pos) /\ (eof <=> pos > Len(buf)) /\ LiteralEnd = LiteralEndAt(pos, top)
  BY ReadersAgree
<1>5. CASE Instruction.op = "do"
  <2>1. Branches(Grammar[Instruction.arg]) = {}
    BY <1>5 DEF Fail, Panic, Running
  <2>2. \E g \in BranchesAt(buf, pos, top, Grammar[Instruction.arg]) : TRUE
    BY <1>3, <1>5 DEF Executes, Chooses, Selects, Repeats, Consumes
  <2> QED BY <2>1, <2>2, ReadersAgree
<1>6. CASE Instruction.op = "switch"
  <2>1. Cases(Grammar[Instruction.arg]) = {}
    BY <1>6 DEF Fail, Panic, Running
  <2>2. \E g \in CasesAt(top, Grammar[Instruction.arg]) : TRUE
    BY <1>3, <1>6 DEF Executes, Chooses, Selects, Repeats, Consumes
  <2> QED BY <2>1, <2>2, ReadersAgree
<1>7. CASE Instruction.op = "until"
  <2>1. peek \notin {")", " "} /\ top # <<>>
    BY <1>7 DEF Fail, Panic, Running
  <2>2. Repeats(buf, Instruction, pos, top, body, j, m)
    BY <1>3, <1>7 DEF Executes, Chooses, Selects, Consumes
  <2> QED BY <1>4, <2>1, <2>2 DEF Repeats
<1>8. CASE Instruction.op \in {"expect", "copy", "run", "number", "take"}
  <2>1. Consumes(buf, Instruction, pos, top, body, j, m)
    BY <1>3, <1>8 DEF Executes, Chooses, Selects, Repeats
  <2>2. CASE Instruction.op = "expect"
    BY <1>4, <2>1, <2>2 DEF Fail, Panic, Running, Consumes
  <2>3. CASE Instruction.op = "copy"
    BY <1>4, <2>1, <2>3 DEF Fail, Panic, Running, Consumes
  <2>4. CASE Instruction.op = "run"
    <3>1. RunEnd(Class(Instruction.arg)) = pos /\ Instruction.arg \notin MayBeEmpty
      BY <2>4 DEF Fail, Panic, Running
    <3>2. RunEndAt(buf, pos, Class(Instruction.arg)) = pos
      BY <3>1, ReadersAgree
    <3>3. j = pos /\ j > pos
      BY <2>1, <2>4, <3>1, <3>2 DEF Consumes
    <3> QED BY <3>3 DEF IInv, TypeOK
  <2>5. CASE Instruction.op = "number"
    <3>1. peek \in Numeral => Value[peek] > MaxInt
      BY <2>5 DEF Fail, Panic, Running, Number
    <3>2. peek \in Numeral /\ Value[peek] <= MaxInt
      BY <1>4, <2>1, <2>5 DEF Consumes
    <3> QED BY <3>1, <3>2, UnitAssumption
  <2>6. CASE Instruction.op = "take"
    <3> DEFINE e == LiteralEnd
    <3>1. e > Len(buf) \/ e < pos - 1
      BY <2>6 DEF Fail, Panic, Running
    <3>2. e \in pos - 1 .. Len(buf)
      BY <1>4, <2>1, <2>6 DEF Consumes
    <3>3. pos \in Int /\ Len(buf) \in Int
      BY DEF IInv, TypeOK
    <3> HIDE DEF e
    <3> QED BY <3>1, <3>2, <3>3
  <2> QED BY <1>8, <2>2, <2>3, <2>4, <2>5, <2>6
<1> QED BY <1>2, <1>5, <1>6, <1>7, <1>8

-----------------------------------------------------------------------------
(* What is reached in the end agrees with what can be read. *)

LEMMA StackReplaced ==
  ASSUME NEW us, IsStack(us), NEW k, NEW m
  PROVE  IsStack([us EXCEPT ![k] = m])
<1>1. PICK S : us \in Seq(S)
  BY DEF IsStack
<1> DEFINE T == S \union {m}
           new == [us EXCEPT ![k] = m]
<1>2. Len(us) \in Nat /\ us = [i \in 1..Len(us) |-> us[i]] /\ \A i \in 1..Len(us) : us[i] \in T
  BY <1>1
<1>3. new = [i \in 1..Len(us) |-> IF i = k THEN m ELSE us[i]]
  BY <1>2
<1>4. new \in [1..Len(us) -> T]
  BY <1>2, <1>3
<1>5. new \in Seq(T)
  BY <1>2, <1>4, SeqDef
<1> QED BY <1>5 DEF IsStack

LEMMA StackAfterStep ==
  ASSUME NEW b, NEW c, NEW d, IsStack(c.lists), Step(b, c, d)
  PROVE  IsStack(d.lists)
<1>1. CASE StepExecutes(b, c, d)
  <2>1. PICK body, j, m : StepBy(b, c, d, body, j, m)
    BY <1>1 DEF StepExecutes
  <2>2. d.lists = [c.lists EXCEPT ![Len(c.lists)] = m]
    BY <2>1 DEF StepBy, Config
  <2>3. IsStack([c.lists EXCEPT ![Len(c.lists)] = m])
    BY StackReplaced
  <2> QED BY <2>2, <2>3
<1>2. CASE StepOpens(c, d)
  <2>1. d.lists = Append(c.lists, <<>>)
    BY <1>2 DEF StepOpens, Config
  <2>2. IsStack(Append(c.lists, <<>>))
    BY TopOfStack DEF OnTop
  <2> QED BY <2>1, <2>2
<1>3. CASE StepCloses(c, d)
  <2> DEFINE us == c.lists
             n == Len(us) - 1
             around == SubSeq(us, 1, n)
             v == Append(us[n], Node(Head(c.prog).arg, us[Len(us)]))
  <2>1. d.lists = [around EXCEPT ![n] = v]
    BY <1>3 DEF StepCloses, Config, Joined
  <2>2. PICK S : us \in Seq(S)
    BY DEF IsStack
  <2>3. around \in Seq(S)
    BY <2>2
  <2> HIDE DEF around, v, n
  <2>4. IsStack(around)
    BY <2>3 DEF IsStack
  <2>5. IsStack([around EXCEPT ![n] = v])
    BY <2>4, StackReplaced
  <2> QED BY <2>1, <2>5
<1> QED BY <1>1, <1>2, <1>3 DEF Step

\* What the state c leads to is what the call leads to, while the parser runs
\* and when it is done; after an error the call leads nowhere.
Settled(st, b, c) ==
  /\ st \in {"running", "done"} => \A f : Leads(b, Call, f) <=> Leads(b, c, f)
  /\ st \in {"error", "panic"} => \A f : ~ Leads(b, Call, f)
  /\ st = "done" => c.prog = <<>>
ReadInv == IsStack(vals) /\ Settled(status, buf, State)

LEMMA InitReadInv == Init => ReadInv
<1> SUFFICES ASSUME Init PROVE ReadInv
  OBVIOUS
<1>1. State = Call
  BY DEF Init, State, Call, Start
<1>2. << <<>> >> \in Seq({<<>>})
  OBVIOUS
<1>3. IsStack(vals)
  BY <1>2 DEF Init, IsStack
<1>4. status = "running"
  BY DEF Init
<1> QED BY <1>1, <1>3, <1>4 DEF ReadInv, Settled

LEMMA ActionIsStep ==
  ASSUME IInv, IsStack(vals),
         Do \/ Switch \/ Expect \/ Skip \/ Copy \/ Read \/ ReadNumber \/ TakeLiteral \/ Build \/ Until
  PROVE  Step(buf, State, Config(todo', pos', vals'))
BY DoIsStep, SwitchIsStep, UntilIsStep, ConsumeIsStep, BuildIsStep

\* A state that can take one step leads where the next state leads.
LEMMA StepKeepsEnds ==
  ASSUME NEW b \in Seq(Unit), NEW c, c.at \in 1 .. Len(b) + 1, NEW d, Step(b, c, d)
  PROVE  \A f : Leads(b, c, f) <=> Leads(b, d, f)
<1> TAKE f
<1>1. c.prog # <<>>
  BY DEF Step
<1>2. ASSUME Leads(b, c, f) PROVE Leads(b, d, f)
  <2>1. PICK e : Step(b, c, e) /\ Leads(b, e, f)
    BY <1>1, <1>2, LeadsBack
  <2>2. e = d
    BY <2>1, StepOnce
  <2> QED BY <2>1, <2>2
<1>3. ASSUME Leads(b, d, f) PROVE Leads(b, c, f)
  BY <1>3, LeadsOn
<1> QED BY <1>2, <1>3

LEMMA NextReadInv == ASSUME IInv, ReadInv, [Next]_vars PROVE ReadInv'
<1> DEFINE d == Config(todo', pos', vals')
<1>1. /\ buf \in Seq(Unit) /\ pos \in 1 .. Len(buf) + 1 /\ IsStack(vals)
      /\ State.prog = todo /\ State.at = pos /\ State.lists = vals
  BY DEF IInv, TypeOK, ReadInv, State, Config
<1>2. input' = input
  BY DEF Next, vars, Do, Switch, Expect, Skip, Copy, Read, ReadNumber, TakeLiteral, Build, Until,
         Return, Fail, Panic, Terminated
<1>3. buf' = buf /\ State' = d
  BY <1>2 DEF buf, State, Config
<1>4. ASSUME IsStack(vals'), Settled(status', buf, d) PROVE ReadInv'
  BY <1>3, <1>4 DEF ReadInv, IsStack, Settled
<1>5. CASE Do \/ Switch \/ Expect \/ Skip \/ Copy \/ Read \/ ReadNumber \/ TakeLiteral \/ Build \/ Until
  <2>1. Step(buf, State, d)
    BY <1>1, <1>5, ActionIsStep
  <2>2. status = "running" /\ status' = "running"
    BY <1>5 DEF Do, Switch, Expect, Skip, Copy, Read, ReadNumber, TakeLiteral, Build, Until, Running
  <2>3. d.lists = vals'
    BY DEF Config
  <2> HIDE DEF d
  <2>4. IsStack(vals')
    BY <1>1, <2>1, <2>3, StackAfterStep
  <2>5. \A f : Leads(buf, State, f) <=> Leads(buf, d, f)
    BY <1>1, <2>1, StepKeepsEnds
  <2>6. \A f : Leads(buf, Call, f) <=> Leads(buf, State, f)
    BY <2>2 DEF ReadInv, Settled
  <2>7. Settled(status', buf, d)
    BY <2>2, <2>5, <2>6 DEF Settled
  <2> QED BY <1>4, <2>4, <2>7
<1>6. CASE Return
  <2>1. status = "running" /\ status' = "done" /\ d = State /\ vals' = vals /\ State.prog = <<>>
    BY <1>1, <1>6 DEF Return, State
  <2>2. Settled(status', buf, State)
    BY <2>1 DEF ReadInv, Settled
  <2> QED BY <1>1, <1>4, <2>1, <2>2
<1>7. CASE Fail \/ Panic
  <2>1. /\ status = "running" /\ status' \in {"error", "panic"} /\ vals' = vals /\ todo # <<>>
    BY <1>7 DEF Fail, Panic, Running
  <2>2. \A e : ~ Step(buf, State, e)
    BY <1>7, NoStepOnFailure
  <2>3. \A f : ~ Leads(buf, State, f)
    BY <1>1, <2>1, <2>2, LeadsBack
  <2>4. Settled(status', buf, d)
    BY <2>1, <2>3 DEF ReadInv, Settled
  <2> QED BY <1>1, <1>4, <2>1, <2>4
<1>8. CASE UNCHANGED vars
  <2>1. d = State /\ status' = status /\ vals' = vals
    BY <1>8 DEF vars, State
  <2> QED BY <1>1, <1>4, <2>1 DEF ReadInv
<1>9. Terminated => UNCHANGED vars
  BY DEF Terminated
<1> QED BY <1>5, <1>6, <1>7, <1>8, <1>9 DEF Next

\* At every point of a parse, what its stacks lead to is what the call leads
\* to: no choice of a branch is one that parser.go would have to take back.
THEOREM ReadInvInvariant == Spec => []ReadInv
<1>1. IInv /\ ReadInv /\ [Next]_vars => ReadInv'
  BY NextReadInv
<1> QED BY InitReadInv, <1>1, IInvInvariant, PTL DEF Spec

-----------------------------------------------------------------------------
\* What a parse that is done returns is what the functions of the grammar read,
\* and there is nothing else they could have read; a buffer that is refused is
\* one they cannot read, wherever they were to stop.
Faithful ==
  /\ status = "done" =>
       \E list : /\ vals = <<list>> /\ Reads(buf, pos, list)
                 /\ \A j, l : Reads(buf, j, l) => j = pos /\ l = list
  /\ status \in {"error", "panic"} => \A j, l : ~ Reads(buf, j, l)

LEMMA ReadInvFaithful == ReadInv => Faithful
<1> SUFFICES ASSUME ReadInv PROVE Faithful
  OBVIOUS
<1>1. ASSUME status = "done"
      PROVE  \E list : /\ vals = <<list>> /\ Reads(buf, pos, list)
                       /\ \A j, l : Reads(buf, j, l) => j = pos /\ l = list
  <2>1. State.prog = <<>> /\ \A f : Leads(buf, Call, f) <=> Leads(buf, State, f)
    BY <1>1 DEF ReadInv, Settled
  <2>2. Leads(buf, Call, State)
    BY <2>1, LeadsNowhere
  <2>3. PICK j, list : State = Final(j, list) /\ Reads(buf, j, list)
    BY <2>2, ReadsIsLeads
  <2>4. j = pos /\ vals = <<list>>
    BY <2>3 DEF State, Final, Config
  <2>5. ASSUME NEW k, NEW l, Reads(buf, k, l) PROVE k = pos /\ l = list
    <3>1. Leads(buf, State, Final(k, l))
      BY <2>1, <2>5, ReadsIsLeads
    <3>2. Final(k, l) = State
      BY <2>1, <3>1, LeadsBack
    <3>3. k = pos /\ <<l>> = vals
      BY <3>2 DEF State, Final, Config
    <3> QED BY <2>4, <3>3
  <2> QED BY <2>3, <2>4, <2>5
<1>2. ASSUME status \in {"error", "panic"}, NEW j, NEW l, Reads(buf, j, l) PROVE FALSE
  <2>1. Leads(buf, Call, Final(j, l))
    BY <1>2, ReadsIsLeads
  <2> QED BY <1>2, <2>1 DEF ReadInv, Settled
<1> QED BY <1>1, <1>2 DEF Faithful

\* The parser, with its cursor and its explicit stacks, reads what the
\* functions of parser.go, fetch.go and body.go read when each returns to its
\* caller: in every buffer, and in every grammar in which the guards of a table
\* exclude one another and each branch ends the lists it begins.
THEOREM ReadsTheGrammar == Spec => []Faithful
BY ReadInvInvariant, ReadInvFaithful, PTL

LEMMA InputKept == Spec => [](input \in Inputs)
<1>1. Init => input \in Inputs
  BY DEF Init
<1>2. ASSUME input \in Inputs, [Next]_vars PROVE (input \in Inputs)'
  <2>1. input' = input
    BY <1>2 DEF Next, vars, Do, Switch, Expect, Skip, Copy, Read, ReadNumber, TakeLiteral, Build, Until,
                Return, Fail, Panic, Terminated
  <2> QED BY <1>2, <2>1
<1> QED BY <1>1, <1>2, PTL DEF Spec

-----------------------------------------------------------------------------
(* The stack never runs out of lists, and a literal takes a number that was *)
(* read from the buffer.                                                    *)

\* What is to be done after an instruction: its body, in its place.
Spliced(p, body, prog) ==
  /\ Len(p) = Len(body) + Len(prog) - 1
  /\ \A i \in 1..Len(p) : p[i] = IF i <= Len(body) THEN body[i] ELSE prog[i - Len(body) + 1]

LEMMA ConcatSplices ==
  ASSUME NEW body \in Program, NEW prog \in Program, prog # <<>>
  PROVE  Spliced(body \o Tail(prog), body, prog)
<1> DEFINE t == Tail(prog)
           p == body \o t
<1>1. /\ body \in Seq(Instr) /\ prog \in Seq(Instr) /\ t \in Seq(Instr) /\ Len(t) = Len(prog) - 1
      /\ Len(body) \in Nat /\ Len(prog) \in Nat \ {0} /\ \A i \in 1..Len(t) : t[i] = prog[i+1]
  BY DEF Program
<1> HIDE DEF t
<1>2. /\ Len(p) = Len(body) + Len(t)
      /\ \A i \in 1 .. Len(body) + Len(t) : p[i] = IF i <= Len(body) THEN body[i] ELSE t[i - Len(body)]
  BY <1>1, ConcatProperties
<1> HIDE DEF p
<1>3. ASSUME NEW i \in 1..Len(p)
      PROVE  p[i] = IF i <= Len(body) THEN body[i] ELSE prog[i - Len(body) + 1]
  <2>1. CASE i <= Len(body)
    BY <1>1, <1>2, <2>1
  <2>2. CASE ~ (i <= Len(body))
    <3>1. i - Len(body) \in 1..Len(t) /\ p[i] = t[i - Len(body)]
      BY <1>1, <1>2, <2>2
    <3> QED BY <1>1, <2>2, <3>1
  <2> QED BY <2>1, <2>2
<1>4. Spliced(p, body, prog)
  BY <1>1, <1>2, <1>3 DEF Spliced
<1> QED BY <1>4 DEF p, t

LEMMA TailSplices ==
  ASSUME NEW prog \in Program, prog # <<>>
  PROVE  Spliced(Tail(prog), <<>>, prog)
<1>1. <<>> \in Program /\ <<>> \o Tail(prog) = Tail(prog)
  BY HeadAndTail, EmptyProgram
<1>2. Spliced(<<>> \o Tail(prog), <<>>, prog)
  BY <1>1, ConcatSplices
<1> QED BY <1>1, <1>2

\* A literal in what an instruction leaves to be done has its size there.
SizesWithin(body) == \A i \in 1..Len(body) : body[i].op = "take" => SizeBefore(body, i)

LEMMA ExecutesSized ==
  ASSUME NEW b, NEW ins, WellFormed(ins), NEW i, NEW list, NEW body, NEW j, NEW m,
         Executes(b, ins, i, list, body, j, m)
  PROVE  /\ SizesWithin(body)
         /\ ins.op \notin {"do", "switch", "until"} => body = <<>> /\ Consumes(b, ins, i, list, body, j, m)
<1>1. ASSUME NEW g \in DOMAIN Grammar[ins.arg], ins.arg \in DOMAIN Grammar, body = Grammar[ins.arg][g]
      PROVE  SizesWithin(body)
  BY <1>1, GrammarAssumption DEF SizesWithin
<1>2. CASE Chooses(b, ins, i, list, body, j, m)
  <2>1. PICK g \in BranchesAt(b, i, list, Grammar[ins.arg]) : body = Grammar[ins.arg][g]
    BY <1>2 DEF Chooses
  <2>2. g \in DOMAIN Grammar[ins.arg] /\ ins.op = "do"
    BY <1>2 DEF BranchesAt, ElseOr, Chooses
  <2> QED BY <1>1, <2>1, <2>2 DEF WellFormed
<1>3. CASE Selects(b, ins, i, list, body, j, m)
  <2>1. PICK g \in CasesAt(list, Grammar[ins.arg]) : body = Grammar[ins.arg][g]
    BY <1>3 DEF Selects
  <2>2. g \in DOMAIN Grammar[ins.arg] /\ ins.op = "switch"
    BY <1>3 DEF CasesAt, ElseOr, Selects
  <2> QED BY <1>1, <2>1, <2>2 DEF WellFormed
<1>4. CASE Repeats(b, ins, i, list, body, j, m)
  <2>1. ins.op = "until"
    BY <1>4 DEF Repeats
  <2>2. CASE body = <<>>
    BY <2>1, <2>2 DEF SizesWithin
  <2>3. CASE body = <<[op |-> "do", arg |-> ins.arg], ins>>
    <3>1. Len(body) = 2 /\ body[1].op = "do" /\ body[2].op = "until"
      BY <2>1, <2>3
    <3>2. \A k \in 1..Len(body) : body[k].op # "take"
      BY <3>1
    <3> QED BY <2>1, <3>2 DEF SizesWithin
  <2> QED BY <1>4, <2>2, <2>3 DEF Repeats
<1>5. CASE Consumes(b, ins, i, list, body, j, m)
  <2>1. body = <<>>
    BY <1>5 DEF Consumes
  <2> QED BY <1>5, <2>1 DEF SizesWithin
<1> QED BY <1>2, <1>3, <1>4, <1>5 DEF Executes

StepSplices(b, c, d, body) ==
  /\ body \in Program /\ Balanced(body) /\ SizesWithin(body) /\ Spliced(d.prog, body, c.prog)
  /\ d.prog \in Program
  /\ Head(c.prog).op \notin {"do", "switch", "until"} => body = <<>>

LEMMA StepIsSplice ==
  ASSUME NEW b, NEW c, NEW d, Step(b, c, d)
  PROVE  \E body : StepSplices(b, c, d, body)
<1>1. c.prog \in Program /\ c.prog # <<>>
  BY DEF Step
<1>2. Head(c.prog) \in Instr /\ WellFormed(Head(c.prog)) /\ Tail(c.prog) \in Program
  BY <1>1, HeadAndTail
<1>3. CASE StepExecutes(b, c, d)
  <2>1. PICK body, j, m : StepBy(b, c, d, body, j, m)
    BY <1>3 DEF StepExecutes
  <2>2. Executes(b, Head(c.prog), c.at, c.lists[Len(c.lists)], body, j, m) /\ d.prog = body \o Tail(c.prog)
    BY <2>1 DEF StepBy, Config
  <2>3. body \in Program /\ Balanced(body)
    BY <1>2, <2>2, ExecutesProgram
  <2>4. SizesWithin(body) /\ (Head(c.prog).op \notin {"do", "switch", "until"} => body = <<>>)
    BY <1>2, <2>2, ExecutesSized
  <2>5. Spliced(body \o Tail(c.prog), body, c.prog)
    BY <1>1, <2>3, ConcatSplices
  <2>6. body \o Tail(c.prog) \in Program
    BY <1>2, <2>3, ProgramConcat
  <2>7. Spliced(d.prog, body, c.prog) /\ d.prog \in Program
    BY <2>2, <2>5, <2>6
  <2> QED BY <2>3, <2>4, <2>7 DEF StepSplices
<1>4. CASE StepOpens(c, d) \/ StepCloses(c, d)
  <2>1. d.prog = Tail(c.prog)
    <3>1. StepOpens(c, d) => d.prog = Tail(c.prog)
      BY DEF StepOpens, Config
    <3>2. StepCloses(c, d) => d.prog = Tail(c.prog)
      BY DEF StepCloses, Config
    <3> QED BY <1>4, <3>1, <3>2
  <2>2. Spliced(d.prog, <<>>, c.prog)
    BY <1>1, <2>1, TailSplices
  <2>3. <<>> \in Program /\ Balanced(<<>>) /\ SizesWithin(<<>>)
    <3>1. Len(<<>>) = 0 /\ Opened(<<>>, 0) = 0
      BY OpenedStep
    <3> QED BY <3>1, EmptyProgram DEF Balanced, SizesWithin
  <2>4. StepSplices(b, c, d, <<>>)
    BY <1>2, <2>1, <2>2, <2>3 DEF StepSplices
  <2> QED BY <2>4
<1> QED BY <1>3, <1>4 DEF Step

\* At no point does what is to be done end the last list.
Deep(prog, n) == \A k \in 0..Len(prog) : n + Opened(prog, k) >= 1

LEMMA SpliceKeepsDeep ==
  ASSUME NEW prog \in Program, prog # <<>>, NEW body \in Program, Balanced(body), NEW p \in Program,
         Spliced(p, body, prog), NEW n \in Nat, Deep(prog, n)
  PROVE  n + Adds(Head(prog)) >= 1 /\ Deep(p, n + Adds(Head(prog)))
<1> DEFINE a == Adds(Head(prog))
           l == Len(body)
           r == Len(prog) - 1
           t == [i \in 1..r |-> prog[i+1]]
<1>1. l \in Nat /\ r \in Nat /\ Len(p) = l + r /\ Len(prog) = r + 1 /\ Head(prog) = prog[1] /\ a \in Int
  BY DEF Program, Spliced, Adds
<1>2. \A i \in 1..l : body[i] = p[0+i]
  BY <1>1 DEF Spliced
<1>3. \A i \in 1..r : t[i] = prog[1+i] /\ t[i] = p[l+i]
  <2> TAKE i \in 1..r
  <2>1. l + i \in 1..Len(p) /\ ~ (l + i <= l) /\ (l + i) - l + 1 = i + 1
    BY <1>1
  <2>2. p[l+i] = prog[i+1]
    BY <1>1, <2>1 DEF Spliced
  <2> QED BY <2>2
<1>4. Opened(prog, 1) = a /\ Opened(p, 0) = 0 /\ Opened(body, 0) = 0
  <2>1. Opened(prog, 0) = 0 /\ Opened(prog, 0+1) = Opened(prog, 0) + Adds(prog[0+1])
    BY OpenedStep
  <2>2. 0+1 = 1
    OBVIOUS
  <2>3. Opened(p, 0) = 0 /\ Opened(body, 0) = 0
    BY OpenedStep
  <2> QED BY <1>1, <2>1, <2>2, <2>3
<1> HIDE DEF a, l, r, t
<1>5. \A k \in 0..l : Opened(body, k) = Opened(p, 0+k) - Opened(p, 0)
  <2>1. Inside(body, p, 0, l)
    BY <1>2 DEF Inside
  <2>2. OpensInside(body, p, 0, l)
    BY <1>1, <2>1, OpenedInside
  <2> QED BY <2>2 DEF OpensInside
<1>6. \A k \in 0..r : Opened(t, k) = Opened(prog, 1+k) - Opened(prog, 1)
  <2>1. Inside(t, prog, 1, r)
    BY <1>3 DEF Inside
  <2>2. OpensInside(t, prog, 1, r)
    BY <1>1, <2>1, OpenedInside
  <2> QED BY <2>2 DEF OpensInside
<1>7. \A k \in 0..r : Opened(t, k) = Opened(p, l+k) - Opened(p, l)
  <2>1. Inside(t, p, l, r)
    BY <1>3 DEF Inside
  <2>2. OpensInside(t, p, l, r)
    BY <1>1, <2>1, OpenedInside
  <2> QED BY <2>2 DEF OpensInside
<1>8. n + a >= 1
  BY <1>1, <1>4 DEF Deep
<1>9. ASSUME NEW k \in 0..Len(p) PROVE (n + a) + Opened(p, k) >= 1
  <2>1. /\ Opened(p, k) \in Int
        /\ Opened(body, l) = 0 /\ \A e \in 0..l : Opened(body, e) >= 0 /\ Opened(body, e) \in Int
    <3>1. k \in Nat /\ \A e \in 0..l : e \in Nat /\ (e # 0 => e \in 1..Len(body))
      BY <1>1 DEF l
    <3>2. Opened(p, k) \in Int /\ \A e \in 0..l : Opened(body, e) \in Int
      BY <3>1, OpenedStep
    <3>3. Opened(body, l) = 0 /\ \A e \in 1..Len(body) : Opened(body, e) >= 0
      BY DEF Balanced, l
    <3> QED BY <1>4, <3>1, <3>2, <3>3
  <2>2. CASE k <= l
    <3>1. k \in 0..l /\ 0+k = k
      BY <1>1, <2>2
    <3>2. Opened(body, k) = Opened(p, k) - 0
      BY <1>4, <1>5, <3>1
    <3>3. Opened(p, k) >= 0
      BY <2>1, <3>1, <3>2
    <3> QED BY <1>1, <1>8, <2>1, <3>3
  <2>3. CASE ~ (k <= l)
    <3> DEFINE e == k - l
    <3>1. e \in 0..r /\ l + e = k /\ 1 + e \in 0..Len(prog)
      BY <1>1, <2>3
    <3> HIDE DEF e
    <3>2. Opened(p, l) = 0
      <4>1. l \in 0..l /\ 0 + l = l /\ Opened(p, l) \in Int
        BY <1>1, OpenedStep
      <4>2. Opened(body, l) = Opened(p, l) - 0
        BY <1>4, <1>5, <4>1
      <4> QED BY <2>1, <4>1, <4>2
    <3>3. Opened(t, e) = Opened(p, k) - 0
      BY <1>7, <3>1, <3>2
    <3>4. Opened(t, e) = Opened(prog, 1+e) - a
      BY <1>4, <1>6, <3>1
    <3>5. n + Opened(prog, 1+e) >= 1
      BY <3>1 DEF Deep
    <3>6. Opened(prog, 1+e) \in Int
      <4>1. 1 + e \in Nat
        BY <1>1, <3>1
      <4> QED BY <4>1, OpenedStep
    <3> QED BY <1>1, <2>1, <3>3, <3>4, <3>5, <3>6
  <2> QED BY <2>2, <2>3
<1> QED BY <1>8, <1>9 DEF Deep, a

\* A stack of lists.
ListsOf(us) == IsStack(us) /\ \A i \in 1..Len(us) : IsStack(us[i])

LEMMA ListReplaced ==
  ASSUME NEW us, ListsOf(us), NEW k, NEW m, IsStack(m)
  PROVE  ListsOf([us EXCEPT ![k] = m]) /\ Len([us EXCEPT ![k] = m]) = Len(us)
<1> DEFINE new == [us EXCEPT ![k] = m]
<1>1. PICK S : us \in Seq(S)
  BY DEF ListsOf, IsStack
<1>2. Len(us) \in Nat /\ us = [i \in 1..Len(us) |-> us[i]]
  BY <1>1
<1>3. new = [i \in 1..Len(us) |-> IF i = k THEN m ELSE us[i]]
  BY <1>2
<1>4. IsStack(new)
  BY StackReplaced DEF ListsOf
<1>5. Len(new) = Len(us)
  <2>1. PICK T : new \in Seq(T)
    BY <1>4 DEF IsStack
  <2>2. DOMAIN new = 1..Len(new) /\ DOMAIN new = 1..Len(us) /\ Len(new) \in Nat
    BY <1>2, <1>3, <2>1
  <2> QED BY <1>2, <2>2
<1>6. \A i \in 1..Len(new) : IsStack(new[i])
  BY <1>3, <1>5 DEF ListsOf
<1> HIDE DEF new
<1>7. ListsOf(new) /\ Len(new) = Len(us)
  BY <1>4, <1>5, <1>6 DEF ListsOf
<1> QED BY <1>7 DEF new

LEMMA ListAppended ==
  ASSUME NEW list, IsStack(list), NEW v
  PROVE  IsStack(Append(list, v))
BY TopOfStack DEF OnTop

LEMMA SetPairGivesList ==
  ASSUME NEW pairs, IsStack(pairs), NEW key, NEW val
  PROVE  IsStack(SetPair(pairs, key, val))
<1> DEFINE pair == [k |-> "pair", s |-> key, l |-> <<val>>]
           new == [i \in 1..Len(pairs) |-> IF pairs[i].s = key THEN pair ELSE pairs[i]]
<1>1. PICK S : pairs \in Seq(S)
  BY DEF IsStack
<1> HIDE DEF pair
<1>2. new \in [1..Len(pairs) -> S \union {pair}] /\ Len(pairs) \in Nat
  BY <1>1
<1>3. IsStack(new)
  <2> HIDE DEF new
  <2>1. new \in Seq(S \union {pair})
    BY <1>2, SeqDef
  <2> QED BY <2>1 DEF IsStack
<1>4. IsStack(Append(pairs, pair))
  BY ListAppended
<1> QED BY <1>3, <1>4 DEF SetPair, pair

LEMMA ExecutesGivesList ==
  ASSUME NEW b, NEW ins, NEW i, NEW list, IsStack(list), NEW body, NEW j, NEW m,
         Executes(b, ins, i, list, body, j, m)
  PROVE  IsStack(m)
<1>1. \A v : IsStack(Replacing(list, v))
  BY StackReplaced DEF Replacing
<1>2. \A v : IsStack(Append(list, v))
  BY ListAppended
<1>3. \A key, val : IsStack(SetPair(SubSeq(list, 1, Len(list) - 2), key, val))
  <2>1. PICK S : list \in Seq(S)
    BY DEF IsStack
  <2> DEFINE front == SubSeq(list, 1, Len(list) - 2)
  <2>2. front \in Seq(S)
    BY <2>1
  <2> HIDE DEF front
  <2>3. IsStack(front)
    BY <2>2 DEF IsStack
  <2>4. \A key, val : IsStack(SetPair(front, key, val))
    BY <2>3, SetPairGivesList
  <2> QED BY <2>4 DEF front
<1>4. CASE Chooses(b, ins, i, list, body, j, m) \/ Repeats(b, ins, i, list, body, j, m)
  BY <1>4 DEF Chooses, Repeats
<1>5. CASE Selects(b, ins, i, list, body, j, m)
  BY <1>1, <1>5 DEF Selects
<1>6. CASE Consumes(b, ins, i, list, body, j, m)
  BY <1>1, <1>2, <1>3, <1>6 DEF Consumes
<1> QED BY <1>4, <1>5, <1>6 DEF Executes

\* A configuration whose stack lasts for what is to be done.
Supplied(c) == ListsOf(c.lists) /\ Deep(c.prog, Len(c.lists))

LEMMA StepKeepsLists ==
  ASSUME NEW b, NEW c, NEW d, Step(b, c, d), ListsOf(c.lists),
         Len(c.lists) >= 1, Len(c.lists) + Adds(Head(c.prog)) >= 1
  PROVE  ListsOf(d.lists) /\ Len(d.lists) = Len(c.lists) + Adds(Head(c.prog))
<1> DEFINE us == c.lists
           n == Len(us)
<1>1. PICK S : us \in Seq(S)
  BY DEF ListsOf, IsStack
<1>2. n \in Nat \ {0} /\ IsStack(us[n]) /\ Head(c.prog) \in Instr /\ WellFormed(Head(c.prog))
  <2>1. n \in Nat \ {0}
    BY <1>1
  <2>2. IsStack(us[n])
    BY <2>1 DEF ListsOf
  <2> QED BY <2>1, <2>2, HeadAndTail DEF Step
<1>3. CASE StepExecutes(b, c, d)
  <2>1. PICK body, j, m : StepBy(b, c, d, body, j, m)
    BY <1>3 DEF StepExecutes
  <2>2. Executes(b, Head(c.prog), c.at, us[n], body, j, m) /\ d.lists = [us EXCEPT ![n] = m]
    BY <2>1 DEF StepBy, Config
  <2>3. IsStack(m)
    BY <1>2, <2>2, ExecutesGivesList
  <2>4. Head(c.prog).op \notin {"open", "close"}
    BY <1>2, <2>2, ExecutesProgram
  <2>5. ListsOf([us EXCEPT ![n] = m]) /\ Len([us EXCEPT ![n] = m]) = Len(us)
    BY <2>3, ListReplaced
  <2>6. ListsOf(d.lists) /\ Len(d.lists) = n
    BY <2>2, <2>5
  <2>7. Adds(Head(c.prog)) = 0
    BY <2>4 DEF Adds
  <2> QED BY <1>2, <2>6, <2>7
<1>4. CASE StepOpens(c, d)
  <2>1. d.lists = Append(us, <<>>) /\ Adds(Head(c.prog)) = 1
    BY <1>4 DEF StepOpens, Config, Adds
  <2>2. OnTop(us, <<>>)
    BY TopOfStack DEF ListsOf
  <2>3. \A i \in 1 .. n+1 : IsStack(Append(us, <<>>)[i])
    <3>1. IsStack(<<>>)
      BY NoListsAround
    <3> QED BY <1>2, <2>2, <3>1 DEF OnTop, ListsOf
  <2>4. ListsOf(Append(us, <<>>)) /\ Len(Append(us, <<>>)) = n + 1
    BY <2>2, <2>3 DEF OnTop, ListsOf
  <2> QED BY <1>2, <2>1, <2>4
<1>5. CASE StepCloses(c, d)
  <2> DEFINE around == SubSeq(us, 1, n - 1)
             v == Append(us[n - 1], Node(Head(c.prog).arg, us[n]))
  <2>1. d.lists = [around EXCEPT ![n - 1] = v] /\ Adds(Head(c.prog)) = -1
    BY <1>5 DEF StepCloses, Config, Joined, Adds
  <2>2. n >= 2
    BY <1>2, <2>1
  <2>3. IsStack(v)
    <3>1. IsStack(us[n - 1])
      BY <1>2, <2>2 DEF ListsOf
    <3> QED BY <3>1, ListAppended
  <2>4. around \in Seq(S) /\ Len(around) = n - 1 /\ \A i \in 1 .. n-1 : around[i] = us[i]
    BY <1>1, <1>2, <2>2
  <2> HIDE DEF around, v
  <2>5. ListsOf(around)
    BY <1>2, <2>4 DEF ListsOf, IsStack
  <2>6. ListsOf([around EXCEPT ![n - 1] = v]) /\ Len([around EXCEPT ![n - 1] = v]) = Len(around)
    BY <2>3, <2>5, ListReplaced
  <2> QED BY <1>2, <2>1, <2>4, <2>6
<1> QED BY <1>3, <1>4, <1>5 DEF Step

LEMMA StepSupplied ==
  ASSUME NEW b, NEW c, NEW d, Step(b, c, d), Supplied(c)
  PROVE  Supplied(d) /\ Len(c.lists) >= 1
<1>1. c.prog \in Program /\ c.prog # <<>>
  BY DEF Step
<1>2. PICK body : StepSplices(b, c, d, body)
  BY StepIsSplice
<1>3. Len(c.lists) \in Nat
  <2>1. PICK S : c.lists \in Seq(S)
    BY DEF Supplied, ListsOf, IsStack
  <2> QED BY <2>1
<1>4. Len(c.lists) + Adds(Head(c.prog)) >= 1 /\ Deep(d.prog, Len(c.lists) + Adds(Head(c.prog)))
  BY <1>1, <1>2, <1>3, SpliceKeepsDeep DEF StepSplices, Supplied
<1>5. Len(c.lists) >= 1
  <2>1. 0 \in 0..Len(c.prog) /\ Opened(c.prog, 0) = 0
    BY <1>1, OpenedStep DEF Program
  <2> QED BY <1>3, <2>1 DEF Supplied, Deep
<1>6. ListsOf(d.lists) /\ Len(d.lists) = Len(c.lists) + Adds(Head(c.prog))
  BY <1>4, <1>5, StepKeepsLists DEF Supplied
<1> QED BY <1>4, <1>5, <1>6 DEF Supplied

-----------------------------------------------------------------------------
\* The value read last is a number that stands in the buffer.
SizeOnTop(b, lists) ==
  \E k \in 1..Len(b) : /\ b[k] \in Numeral /\ Value[b[k]] <= MaxInt
                       /\ LastOf(lists[Len(lists)]).s = <<b[k]>>
OnlyExpects(prog, i) == \A k \in 1..i-1 : prog[k].op = "expect"
\* A literal has its size in front of it, or already read.
Sized(b, c) ==
  \A i \in 1..Len(c.prog) :
    c.prog[i].op = "take" => SizeBefore(c.prog, i) \/ (OnlyExpects(c.prog, i) /\ SizeOnTop(b, c.lists))

\* Reading a number puts the size on top; what is expected then leaves it there.
LEMMA SizeIsRead ==
  ASSUME NEW b \in Seq(Unit), NEW c, c.at \in 1 .. Len(b) + 1, NEW d, Step(b, c, d), Supplied(c),
         Head(c.prog).op = "number" \/ (Head(c.prog).op = "expect" /\ SizeOnTop(b, c.lists))
  PROVE  SizeOnTop(b, d.lists)
<1> DEFINE us == c.lists
           n == Len(us)
           ins == Head(c.prog)
           list == us[n]
<1>1. WellFormed(ins)
  BY HeadAndTail DEF Step
<1>2. PICK body, j, m : StepBy(b, c, d, body, j, m)
  BY DEF Step, StepOpens, StepCloses, StepExecutes
<1>3. d.lists = [us EXCEPT ![n] = m] /\ Executes(b, ins, c.at, list, body, j, m)
  BY <1>2 DEF StepBy, Config
<1>4. Consumes(b, ins, c.at, list, body, j, m)
  BY <1>1, <1>3, ExecutesSized
<1>5. IsStack(list) /\ n \in Nat \ {0} /\ IsStack(m)
  <2>1. n >= 1 /\ IsStack(us)
    BY StepSupplied DEF Supplied, ListsOf
  <2>2. PICK S : us \in Seq(S)
    BY <2>1 DEF IsStack
  <2>3. n \in Nat \ {0}
    BY <2>1, <2>2
  <2>4. IsStack(list)
    BY <2>3 DEF Supplied, ListsOf
  <2> QED BY <1>3, <2>3, <2>4, ExecutesGivesList
<1>6. d.lists[Len(d.lists)] = m
  <2>1. PICK S : us \in Seq(S)
    BY DEF Supplied, ListsOf, IsStack
  <2>2. Len(d.lists) = n
    BY <1>3, <1>5, ListReplaced DEF Supplied
  <2>3. n \in DOMAIN us
    BY <1>5, <2>1
  <2> QED BY <1>3, <2>2, <2>3
<1> HIDE DEF us, n, list
<1>7. CASE ins.op = "number"
  <2>1. /\ UnitAt(b, c.at) \in Numeral /\ Value[UnitAt(b, c.at)] <= MaxInt
        /\ m = Append(list, Leaf("num", <<UnitAt(b, c.at)>>))
    BY <1>4, <1>7 DEF Consumes
  <2>2. c.at \in 1..Len(b) /\ UnitAt(b, c.at) = b[c.at]
    <3>1. UnitAt(b, c.at) # "eof"
      BY <2>1, UnitAssumption DEF Unit, AtomUnit
    <3> QED BY <3>1 DEF UnitAt
  <2> DEFINE v == Leaf("num", <<UnitAt(b, c.at)>>)
  <2>3. LastOf(m) = v
    <3>1. PICK S : list \in Seq(S)
      BY <1>5 DEF IsStack
    <3> HIDE DEF v
    <3>2. Len(Append(list, v)) = Len(list) + 1 /\ Append(list, v)[Len(list) + 1] = v
      BY <3>1
    <3>3. m = Append(list, v)
      BY <2>1 DEF v
    <3> QED BY <3>2, <3>3 DEF LastOf
  <2>4. LastOf(m).s = <<b[c.at]>>
    BY <2>2, <2>3 DEF Leaf
  <2> QED BY <1>6, <2>1, <2>2, <2>4 DEF SizeOnTop
<1>8. CASE ins.op = "expect" /\ SizeOnTop(b, c.lists)
  <2>1. m = list
    BY <1>4, <1>8 DEF Consumes
  <2> QED BY <1>6, <1>8, <2>1 DEF SizeOnTop, us, n, list
<1> QED BY <1>7, <1>8

LEMMA StepSized ==
  ASSUME NEW b \in Seq(Unit), NEW c, c.at \in 1 .. Len(b) + 1, NEW d, Step(b, c, d), Supplied(c), Sized(b, c)
  PROVE  Sized(b, d)
<1> DEFINE prog == c.prog
           p == d.prog
<1>1. prog \in Program /\ prog # <<>>
  BY DEF Step
<1>2. PICK body : StepSplices(b, c, d, body)
  BY StepIsSplice
<1> DEFINE l == Len(body)
           r == Len(prog)
<1>3. /\ l \in Nat /\ r \in Nat \ {0} /\ Head(prog) = prog[1] /\ Len(p) = l + r - 1
      /\ \A i \in 1..l : p[i] = body[i]
      /\ \A i \in 2..r : p[l + i - 1] = prog[i]
      /\ Head(prog).op \notin {"do", "switch", "until"} => l = 0
  <2>1. /\ l \in Nat /\ r \in Nat \ {0} /\ Head(prog) = prog[1] /\ Len(p) = l + r - 1
        /\ Head(prog).op \notin {"do", "switch", "until"} => l = 0
    BY <1>1, <1>2 DEF StepSplices, Spliced, Program
  <2>2. \A i \in 1..Len(p) : p[i] = IF i <= l THEN body[i] ELSE prog[i - l + 1]
    BY <1>2 DEF StepSplices, Spliced
  <2>3. \A i \in 1..l : p[i] = body[i]
    BY <2>1, <2>2
  <2>4. ASSUME NEW i \in 2..r PROVE p[l + i - 1] = prog[i]
    <3>1. l + i - 1 \in 1..Len(p) /\ ~ (l + i - 1 <= l) /\ (l + i - 1) - l + 1 = i
      BY <2>1
    <3> QED BY <2>2, <3>1
  <2> QED BY <2>1, <2>3, <2>4
<1> SUFFICES ASSUME NEW i \in 1..Len(p), p[i].op = "take"
             PROVE  SizeBefore(p, i) \/ (OnlyExpects(p, i) /\ SizeOnTop(b, d.lists))
  BY DEF Sized
<1> HIDE DEF prog, p, l, r
<1>4. CASE i <= l
  <2>1. i \in 1..Len(body) /\ body[i].op = "take"
    BY <1>3, <1>4 DEF l
  <2>2. SizeBefore(body, i)
    BY <1>2, <2>1 DEF StepSplices, SizesWithin
  <2>3. \A k \in 1..i-1 : p[k] = body[k]
    BY <1>3, <1>4
  <2>4. PICK j \in 1..i-1 : body[j].op = "number" /\ \A k \in j+1 .. i-1 : body[k].op = "expect"
    BY <2>2 DEF SizeBefore
  <2>5. p[j].op = "number" /\ \A k \in j+1 .. i-1 : k \in 1..i-1 /\ p[k].op = "expect"
    BY <2>3, <2>4
  <2> QED BY <2>5 DEF SizeBefore
<1>5. CASE ~ (i <= l)
  <2> DEFINE h == i - l + 1
  <2>1. h \in 2..r /\ l + h - 1 = i /\ prog[h].op = "take"
    BY <1>3, <1>5
  <2> HIDE DEF h
  <2>2. SizeBefore(prog, h) \/ (OnlyExpects(prog, h) /\ SizeOnTop(b, c.lists))
    BY <1>3, <2>1 DEF Sized, prog, r
  <2>3. CASE SizeBefore(prog, h)
    <3>1. PICK j \in 1..h-1 : prog[j].op = "number" /\ \A k \in j+1..h-1 : prog[k].op = "expect"
      BY <2>3 DEF SizeBefore
    <3>2. CASE j = 1
      <4>1. l = 0 /\ Head(c.prog).op = "number"
        BY <1>3, <3>1, <3>2 DEF prog
      <4>2. SizeOnTop(b, d.lists)
        BY <4>1, SizeIsRead
      <4>3. ASSUME NEW k \in 1..i-1 PROVE p[k].op = "expect"
        <5>1. k+1 \in j+1..h-1 /\ k+1 \in 2..r /\ l + (k+1) - 1 = k
          BY <1>3, <2>1, <3>2, <4>1
        <5>2. p[l + (k+1) - 1] = prog[k+1]
          BY <1>3, <5>1
        <5>3. prog[k+1].op = "expect"
          BY <3>1, <5>1
        <5> QED BY <5>1, <5>2, <5>3
      <4> QED BY <4>2, <4>3 DEF OnlyExpects
    <3>3. CASE j # 1
      <4> DEFINE e == l + j - 1
      <4>1. e \in 1..i-1 /\ j \in 2..r
        BY <1>3, <2>1, <3>1, <3>3
      <4>2. p[e].op = "number"
        BY <1>3, <3>1, <4>1
      <4>3. ASSUME NEW k \in e+1..i-1 PROVE p[k].op = "expect"
        <5>1. k-l+1 \in j+1..h-1 /\ k-l+1 \in 2..r /\ l + (k-l+1) - 1 = k
          BY <1>3, <2>1, <3>1, <4>1
        <5>2. p[l + (k-l+1) - 1] = prog[k-l+1]
          BY <1>3, <5>1
        <5>3. prog[k-l+1].op = "expect"
          BY <3>1, <5>1
        <5> QED BY <5>1, <5>2, <5>3
      <4> QED BY <4>1, <4>2, <4>3 DEF SizeBefore
    <3> QED BY <3>2, <3>3
  <2>4. CASE OnlyExpects(prog, h) /\ SizeOnTop(b, c.lists)
    <3>1. l = 0 /\ Head(c.prog).op = "expect"
      <4>1. prog[1].op = "expect"
        BY <1>3, <2>1, <2>4 DEF OnlyExpects
      <4> QED BY <1>3, <4>1 DEF prog
    <3>2. SizeOnTop(b, d.lists)
      BY <2>4, <3>1, SizeIsRead
    <3>3. ASSUME NEW k \in 1..i-1 PROVE p[k].op = "expect"
      <4>1. k+1 \in 1..h-1 /\ k+1 \in 2..r /\ l + (k+1) - 1 = k
        BY <1>3, <2>1, <3>1
      <4>2. p[l + (k+1) - 1] = prog[k+1]
        BY <1>3, <4>1
      <4>3. prog[k+1].op = "expect"
        BY <2>4, <4>1 DEF OnlyExpects
      <4> QED BY <4>1, <4>2, <4>3
    <3> QED BY <3>2, <3>3 DEF OnlyExpects
  <2> QED BY <2>2, <2>3, <2>4
<1> QED BY <1>4, <1>5

-----------------------------------------------------------------------------
SizeInv == Supplied(State) /\ Sized(buf, State)

LEMMA InitSizeInv == Init => SizeInv
<1> SUFFICES ASSUME Init PROVE SizeInv
  OBVIOUS
<1>1. State = Call /\ Call.prog = Start /\ Call.lists = << <<>> >>
  BY DEF Init, State, Call, Start, Config
<1>2. ListsOf(<< <<>> >>) /\ Len(<< <<>> >>) = 1
  <2>1. << <<>> >> \in Seq({<<>>})
    OBVIOUS
  <2> DEFINE all == << <<>> >>
  <2>2. Len(all) = 1 /\ \A i \in 1..1 : all[i] = <<>>
    OBVIOUS
  <2>3. IsStack(all)
    BY <2>1 DEF IsStack
  <2> HIDE DEF all
  <2>4. \A i \in 1..Len(all) : IsStack(all[i])
    BY <2>2, NoListsAround
  <2>5. ListsOf(all) /\ Len(all) = 1
    BY <2>2, <2>3, <2>4 DEF ListsOf
  <2> QED BY <2>5 DEF all
<1>3. Len(Start) = 1 /\ Start[1].op = "do" /\ Start \in Program /\ Balanced(Start)
  BY StartProgram DEF Start
<1>4. Deep(Start, 1)
  <2>1. Opened(Start, 0) = 0 /\ Opened(Start, 1) >= 0 /\ Opened(Start, 1) \in Int
    BY <1>3, OpenedStep DEF Balanced
  <2>2. \A k \in 0..1 : k = 0 \/ k = 1
    OBVIOUS
  <2> QED BY <1>3, <2>1, <2>2 DEF Deep
<1>5. Sized(buf, State)
  BY <1>1, <1>3 DEF Sized
<1> QED BY <1>1, <1>2, <1>4, <1>5 DEF SizeInv, Supplied

LEMMA NextSizeInv == ASSUME IInv, SizeInv, [Next]_vars PROVE SizeInv'
<1> DEFINE d == Config(todo', pos', vals')
<1>1. /\ buf \in Seq(Unit) /\ pos \in 1 .. Len(buf) + 1 /\ IsStack(vals)
      /\ State.prog = todo /\ State.at = pos /\ State.lists = vals
  BY DEF IInv, TypeOK, SizeInv, Supplied, ListsOf, State, Config
<1>2. buf' = buf /\ State' = d
  <2>1. input' = input
    BY DEF Next, vars, Do, Switch, Expect, Skip, Copy, Read, ReadNumber, TakeLiteral, Build, Until,
           Return, Fail, Panic, Terminated
  <2> QED BY <2>1 DEF buf, State, Config
<1>3. ASSUME Supplied(d), Sized(buf, d) PROVE SizeInv'
  BY <1>2, <1>3 DEF SizeInv
<1>4. CASE Do \/ Switch \/ Expect \/ Skip \/ Copy \/ Read \/ ReadNumber \/ TakeLiteral \/ Build \/ Until
  <2>1. Step(buf, State, d)
    BY <1>1, <1>4, ActionIsStep
  <2> HIDE DEF d
  <2>2. Supplied(d)
    BY <2>1, StepSupplied DEF SizeInv
  <2>3. Sized(buf, d)
    BY <1>1, <2>1, StepSized DEF SizeInv
  <2> QED BY <1>3, <2>2, <2>3
<1>5. CASE Return \/ Fail \/ Panic \/ Terminated \/ UNCHANGED vars
  <2>1. d = State
    BY <1>5 DEF Return, Fail, Panic, Terminated, vars, State
  <2> QED BY <1>3, <2>1 DEF SizeInv
<1> QED BY <1>4, <1>5 DEF Next

\* The stack of lists lasts for what is to be done, and a literal (parser.go
\* literal) takes the number that stands in front of it.
THEOREM SizeInvInvariant == Spec => []SizeInv
<1>1. IInv /\ SizeInv /\ [Next]_vars => SizeInv'
  BY NextSizeInv
<1> QED BY InitSizeInv, <1>1, IInvInvariant, PTL DEF Spec

-----------------------------------------------------------------------------
LEMMA PanicOverflows ==
  ASSUME IInv, SizeInv, Panic
  PROVE  Overflows(buf, pos)
<1>1. todo # <<>> /\ Instruction.op = "take" /\ LiteralEnd < pos - 1
  BY DEF Panic, Running
<1>2. todo \in Seq(Instr) /\ pos \in 1 .. Len(buf) + 1
  BY DEF IInv, TypeOK
<1>3. 1 \in 1..Len(todo) /\ todo[1].op = "take" /\ ~ SizeBefore(todo, 1)
  BY <1>1, <1>2 DEF Instruction, SizeBefore
<1>4. SizeOnTop(buf, vals)
  <2>1. State.prog = todo /\ State.lists = vals
    BY DEF State, Config
  <2> QED BY <1>3, <2>1 DEF SizeInv, Sized
<1>5. PICK k \in 1..Len(buf) : /\ buf[k] \in Numeral /\ Value[buf[k]] <= MaxInt
                               /\ last.s = <<buf[k]>>
  BY <1>4 DEF SizeOnTop, LastOf, last, top
<1> DEFINE n == Value[buf[k]]
<1>6. n \in Nat /\ MaxInt \in Nat /\ pos \in Int
  BY <1>2, <1>5, UnitAssumption
<1>7. LiteralEnd = IF pos - 1 + n > MaxInt THEN (pos - 1 + n) - 2 * (MaxInt + 1) ELSE pos - 1 + n
  <2>1. last.s[1] = buf[k]
    BY <1>5
  <2> DEFINE v == Value[last.s[1]]
  <2>2. LiteralEnd = IF pos - 1 + v > MaxInt THEN (pos - 1 + v) - 2 * (MaxInt + 1) ELSE pos - 1 + v
    BY DEF LiteralEnd
  <2>3. v = n
    BY <2>1
  <2> HIDE DEF v, n
  <2> QED BY <2>2, <2>3
<1> HIDE DEF n
<1>8. pos - 1 + n > MaxInt
  BY <1>1, <1>6, <1>7
<1> QED BY <1>5, <1>8 DEF n, Overflows

\* The only reason for a panic of parser.go literal is that p.pos + int(n)
\* wraps around: the size is one that was just read, and nowhere else does the
\* parser leave the buffer.
THEOREM PanicsOnlyOnOverflow == Spec => []OnlyOverflows
<1>1. Init => OnlyOverflows
  BY DEF Init, OnlyOverflows
<1>2. ASSUME IInv, SizeInv, OnlyOverflows, [Next]_vars PROVE OnlyOverflows'
  <2>1. CASE Panic
    <3>1. Overflows(buf, pos)
      BY <1>2, <2>1, PanicOverflows
    <3>2. pos' = pos /\ buf' = buf
      BY <2>1 DEF Panic, buf
    <3> QED BY <3>1, <3>2 DEF OnlyOverflows
  <2>2. CASE Terminated \/ UNCHANGED vars
    <3>1. pos' = pos /\ buf' = buf /\ status' = status
      BY <2>2 DEF Terminated, vars, buf
    <3> QED BY <1>2, <3>1 DEF OnlyOverflows
  <2>3. CASE Do \/ Switch \/ Expect \/ Skip \/ Copy \/ Read \/ ReadNumber \/ TakeLiteral \/ Build \/ Until \/ Return \/ Fail
    <3>1. status' # "panic"
      BY <2>3 DEF Do, Switch, Expect, Skip, Copy, Read, ReadNumber, TakeLiteral, Build, Until, Return, Fail, Running
    <3> QED BY <3>1 DEF OnlyOverflows
  <2> QED BY <1>2, <2>1, <2>2, <2>3 DEF Next
<1>3. IInv /\ SizeInv /\ OnlyOverflows /\ [Next]_vars => OnlyOverflows'
  BY <1>2
<1> QED BY <1>1, <1>3, IInvInvariant, SizeInvInvariant, PTL DEF Spec

\* No number of a buffer comes within its length of the largest int.
RoomForSizes ==
  \A inp \in Inputs : \A k \in 1..Len(inp.buf) :
    inp.buf[k] \in Numeral /\ Value[inp.buf[k]] <= MaxInt => Len(inp.buf) + Value[inp.buf[k]] <= MaxInt

\* With such sizes, what does not parse is reported as ErrParse (parser.go
\* literal): the overflow is the only way to a panic.
THEOREM ReportedUnlessOverflow == ASSUME RoomForSizes PROVE Spec => []ErrorsReported
<1>1. ASSUME TypeOK, OnlyOverflows, input \in Inputs PROVE ErrorsReported
  <2> SUFFICES ASSUME status = "panic" PROVE FALSE
    BY DEF ErrorsReported
  <2>1. PICK k \in 1..Len(buf) : buf[k] \in Numeral /\ Value[buf[k]] <= MaxInt /\ pos - 1 + Value[buf[k]] > MaxInt
    BY <1>1 DEF OnlyOverflows, Overflows
  <2>2. Len(buf) + Value[buf[k]] <= MaxInt
    BY <1>1, <2>1 DEF RoomForSizes, buf
  <2>3. Value[buf[k]] \in Nat /\ MaxInt \in Nat /\ Len(buf) \in Nat /\ pos \in 1 .. Len(buf) + 1
    BY <1>1, <2>1, UnitAssumption DEF TypeOK
  <2> QED BY <2>1, <2>2, <2>3
<1>2. TypeOK /\ OnlyOverflows /\ input \in Inputs => ErrorsReported
  BY <1>1
<1> QED BY <1>2, TypeCorrect, PanicsOnlyOnOverflow, InputKept, PTL
=============================================================================
