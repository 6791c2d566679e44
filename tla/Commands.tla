------------------------------ MODULE Commands ------------------------------
(***************************************************************************)
(* The arguments of a command and the builders of commands.go, each of     *)
(* which is a command name and an argument list handed to Builder.Command. *)
(*                                                                         *)
(* An argument list is written in reading order: a []Argument is an "open" *)
(* item, its elements and a "close" item.  A text is what the encoder and  *)
(* the reader of a line tell apart: its length in bytes and which of the   *)
(* bytes with a meaning of their own occur in it.                          *)
(***************************************************************************)
EXTENDS Integers, Sequences

(* "eol": CR or LF; "8bit": a byte above 0x7f; "special": a byte of        *)
(* needsQuoting's list that is not CR or LF; "marker": the text ends in    *)
(* {n}, whose brace is special.                                            *)
Str == {s \in [len : Nat, has : SUBSET {"eol", "8bit", "special", "marker"}] :
          /\ s.len = 0 => s.has = {}
          /\ "marker" \in s.has => "special" \in s.has}

Kinds == {"nil", "string", "atom", "raw", "quoted", "literal", "flag", "number",
          "time", "date", "seqset", "open", "close", "other"}

(* s is the text of a string, literal or verbatim item; n is the value of  *)
(* a number, the month of a date, and 0 for a nil *SequenceSet.            *)
Item == [k : Kinds, s : Str, n : Int]

NoText == [len |-> 0, has |-> {}]

Plain(k)    == [k |-> k, s |-> NoText, n |-> 1]
Text(k, s)  == [k |-> k, s |-> s, n |-> 1]
Value(k, n) == [k |-> k, s |-> NoText, n |-> n]

List(elements) == <<Plain("open")>> \o elements \o <<Plain("close")>>
Texts(k, strs)  == [i \in 1..Len(strs) |-> Text(k, strs[i])]

Call(cmd, args) == [cmd |-> cmd, args |-> args]

\* The kinds whose text goes into the line as it is, but for the escapes of a
\* quoted one.
Verbatim == {"atom", "raw", "flag", "quoted"}

\* Arguments whose verbatim texts leave the line whole: no line break, and,
\* outside quotes, no {n} for the end of the line to turn into a marker.
Clear(args) ==
  \A i \in 1..Len(args) :
    /\ args[i].k \in Verbatim => "eol" \notin args[i].s.has
    /\ args[i].k \in Verbatim \ {"quoted"} => "marker" \notin args[i].s.has

-----------------------------------------------------------------------------
Bare(cmd)                == Call(cmd, <<>>)
MailboxCommand(cmd, mbx) == Call(cmd, <<Text("string", mbx)>>)
PairCommand(cmd, a, b)   == Call(cmd, <<Text("string", a), Text("string", b)>>)
Authenticate(mechanism)  == Call("AUTHENTICATE", <<Text("raw", mechanism)>>)

\* Status: the attributes, a sequence of texts, are raw atoms in a list.
Status(mbx, attrs) == Call("STATUS", <<Text("string", mbx)>> \o List(Texts("raw", attrs)))

\* fetch, for FETCH and UID FETCH.  set is a seqset item.
Fetch(cmd, set, atts) == Call(cmd, <<set>> \o List(Texts("raw", atts)))

\* store, for STORE and UID STORE.
Store(cmd, set, item, flags) ==
  Call(cmd, <<set, Text("raw", item)>> \o List(Texts("flag", flags)))

\* Copy and UIDCopy.
Copy(cmd, set, mbx) == Call(cmd, <<set, Text("string", mbx)>>)

\* searchCmd: a string key becomes raw data, any other argument is left alone.
Search(cmd, keys) ==
  Call(cmd, [i \in 1..Len(keys) |->
               IF keys[i].k = "string" THEN Text("raw", keys[i].s) ELSE keys[i]])

\* Append: the flag list only when there are flags, the date only when it is
\* given (dates is a sequence of at most one date item), then the message.
AppendCommand(mbx, flags, dates, message) ==
  Call("APPEND", <<Text("string", mbx)>>
                 \o (IF flags # <<>> THEN List(Texts("flag", flags)) ELSE <<>>)
                 \o dates
                 \o <<Text("literal", message)>>)
=============================================================================
