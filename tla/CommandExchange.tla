--------------------------- MODULE CommandExchange ---------------------------
(***************************************************************************)
(* The builder together with a host and a server.  The host does what the  *)
(* comments on Command, LiteralSegment, Idle and Authenticate ask of it:   *)
(* it writes Bytes, writes each Data with its Tail after a continuation    *)
(* request, and matches tagged responses by their tags.  It goes on to the *)
(* next command without waiting for the answer to the last.                *)
(*                                                                         *)
(* The server reads lines and counts payloads.  It may refuse a literal, an*)
(* IDLE or an AUTHENTICATE, answers commands in any order and may send     *)
(* untagged responses between its answers.                                 *)
(***************************************************************************)
EXTENDS Commands, SequencesExt     \* FlattenSeq

CONSTANTS
  Calls, MaxNum, TagBase, TagWidth, MaxTag,   \* see CommandBuilder
  MaxChallenges,    \* bound on the challenges of an AUTHENTICATE
  MaxUntagged       \* bound on the untagged responses

\* A parenthesis carries nothing, and a list is closed behind its elements.
ASSUME CallsAssumption ==
  \A c \in Calls :
    /\ c.args \in Seq(Item)
    /\ c.args # <<>> => c.args[Len(c.args)].k # "open"
    /\ \A i \in 1..Len(c.args) : c.args[i].k \in {"open", "close"} => c.args[i] = Plain(c.args[i].k)
\* What the caller owes: the code writes atoms, raw data, search keys, flags and
\* quoted strings as they are, so a line break or an {n} in one is a line end or
\* an announcement for the server too.
ASSUME ClearAssumption == \A c \in Calls : Clear(c.args)
ASSUME NumberAssumption ==
  /\ MaxNum \in Nat /\ TagBase \in Nat /\ TagBase > 1 /\ TagWidth \in Nat /\ MaxTag \in Nat
  /\ MaxChallenges \in Nat /\ MaxUntagged \in Nat

VARIABLES
  tagno, pc, call, next, main, lits, outcome, tags,   \* see CommandBuilder
  host,         \* "free", "calling", "literal", "exchange" or "idling"
  segment,      \* the literal segment the host writes next
  asked,        \* the commands written, in order
  answered,     \* the status of each command that has been answered
  toServer,     \* the tokens written and not yet read by the server
  toClient,     \* the responses sent and not yet read by the host
  mode,         \* what the server reads next
  line,         \* the tokens of the command the server is reading
  challenges,   \* the challenges it has sent for this command
  served,       \* what it has carried out or refused, in order
  owed,         \* the answers it has still to send
  untagged      \* the number of untagged responses sent

builderVars == <<tagno, pc, call, next, main, lits, outcome, tags>>
hostVars    == <<host, segment, asked, answered>>
serverVars  == <<mode, line, challenges, served, owed, untagged>>
vars        == <<builderVars, hostVars, serverVars, toServer, toClient>>

Builder == INSTANCE CommandBuilder

-----------------------------------------------------------------------------
(* What goes over the wire, and what it means.                             *)

Payload(s) == [t |-> "payload", of |-> s]
Reply      == [t |-> "reply"]             \* an encoded SASL response
DONE       == [t |-> "DONE"]

\* A command as its caller and as the server see it: forms do not matter.
Meaning(item) == IF item.k \in {"string", "literal", "quoted"} THEN Text("string", item.s) ELSE item
Command(tag, cmd, args) ==
  [tag |-> tag, cmd |-> cmd, args |-> [i \in 1..Len(args) |-> Meaning(args[i])]]
Refused == Command(<<>>, "", <<>>)

\* The heading carries the tag and the name.
Written(tokens) ==
  <<[t |-> "heading", tag |-> tags[Len(tags)], cmd |-> call.cmd]>> \o Tail(tokens)

Argument(token) ==
  CASE token.t = "("                      -> Plain("open")
    [] token.t = ")"                      -> Plain("close")
    [] token.t = "payload"                -> Text("string", token.of)
    [] token.t \in {"quoted", "unquoted"} -> token.of
\* A line that does not begin with a tag and a name is no command.
HeadingOf(tokens) ==
  IF tokens[1].t = "heading" THEN tokens[1] ELSE [t |-> "heading", tag |-> <<>>, cmd |-> ""]
IsArgument(token) == token.t \in {"(", ")", "payload", "quoted", "unquoted"}
Decoded(tokens) ==
  LET heading  == HeadingOf(tokens)
      Given(i) == IF IsArgument(tokens[i]) THEN <<Argument(tokens[i])>> ELSE <<>>
  IN  Command(heading.tag, heading.cmd, FlattenSeq([i \in 1..Len(tokens) |-> Given(i)]))

Continue           == [k |-> "+", tag |-> <<>>, status |-> ""]
Untagged           == [k |-> "*", tag |-> <<>>, status |-> ""]
Answer(tag, status) == [k |-> "tagged", tag |-> tag, status |-> status]

-----------------------------------------------------------------------------
Init ==
  /\ Builder!Init
  /\ host = "free" /\ segment = 1 /\ asked = <<>> /\ answered = <<>>
  /\ toServer = <<>> /\ toClient = <<>>
  /\ mode = "command" /\ line = <<>> /\ challenges = 0 /\ served = <<>> /\ owed = {} /\ untagged = 0

-----------------------------------------------------------------------------
(* The host.                                                               *)

\* A method of Builder is called ...
Begin ==
  /\ host = "free"
  /\ \E c \in Calls : Builder!Begin(c)
  /\ host' = "calling"
  /\ segment' = 1
  /\ UNCHANGED <<asked, answered, serverVars, toServer, toClient>>

\* ... and returns.
Build ==
  /\ Builder!EncodeData \/ Builder!Fail \/ Builder!Panic \/ Builder!Finish
  /\ host' = IF outcome' \in {"invalid", "panic"} THEN "free" ELSE host
  /\ UNCHANGED <<segment, asked, answered, serverVars, toServer, toClient>>

Exchanges == {"IDLE", "AUTHENTICATE"}
AfterLine(left) ==
  CASE left > 0                              -> "literal"
    [] left = 0 /\ call.cmd \in Exchanges    -> "exchange"
    [] left = 0 /\ call.cmd \notin Exchanges -> "free"

WriteBytes ==
  /\ host = "calling"
  /\ outcome = "built"
  /\ toServer' = toServer \o Written(main)
  /\ asked' = Append(asked, Command(tags[Len(tags)], call.cmd, call.args))
  /\ host' = AfterLine(Len(lits))
  /\ UNCHANGED <<builderVars, segment, answered, serverVars, toClient>>

\* What a continuation request asks for.
Continued ==
  /\ toClient # <<>> /\ Head(toClient) = Continue
  /\ \/ /\ host = "literal"
        /\ LET data == lits[segment].data IN
           toServer' = toServer \o (IF data.len > 0 THEN <<Payload(data)>> ELSE <<>>) \o lits[segment].tail
        /\ segment' = segment + 1
        /\ host' = AfterLine(Len(lits) - segment)
     \/ /\ host = "exchange" /\ call.cmd = "AUTHENTICATE"
        /\ toServer' = Append(toServer, Reply)
        /\ UNCHANGED <<segment, host>>
     \/ /\ host = "exchange" /\ call.cmd = "IDLE"
        /\ host' = "idling"
        /\ UNCHANGED <<segment, toServer>>
  /\ toClient' = Tail(toClient)
  /\ UNCHANGED <<builderVars, asked, answered, serverVars>>

\* IdleDone.
EndIdle ==
  /\ host = "idling"
  /\ toServer' = Append(toServer, DONE)
  /\ host' = "free"
  /\ UNCHANGED <<builderVars, segment, asked, answered, serverVars, toClient>>

\* The answer to the command that bears its tag; the rest of a command that is
\* answered early is not written.
Answered ==
  /\ toClient # <<>> /\ Head(toClient).k = "tagged"
  /\ \E i \in 1..Len(asked) \ DOMAIN answered :
       /\ asked[i].tag = Head(toClient).tag
       /\ answered' = [j \in DOMAIN answered \union {i} |->
                         IF j = i THEN Head(toClient).status ELSE answered[j]]
       /\ host' = IF i = Len(asked) /\ host \in {"literal", "exchange"} THEN "free" ELSE host
  /\ toClient' = Tail(toClient)
  /\ UNCHANGED <<builderVars, segment, asked, serverVars, toServer>>

Informed ==
  /\ toClient # <<>> /\ Head(toClient) = Untagged
  /\ toClient' = Tail(toClient)
  /\ UNCHANGED <<builderVars, hostVars, serverVars, toServer>>

-----------------------------------------------------------------------------
(* The server.                                                             *)

\* It has carried out the command, or refused it before it was complete.
Serve(did, status) ==
  /\ served' = Append(served, [did |-> did, status |-> status])
  /\ owed' = owed \union {[tag |-> HeadingOf(line).tag, status |-> status, n |-> Len(served) + 1]}
  /\ mode' = "command" /\ line' = <<>> /\ challenges' = 0
  /\ UNCHANGED untagged

Ask(next_mode) ==
  /\ toClient' = Append(toClient, Continue)
  /\ mode' = next_mode
  /\ UNCHANGED <<line, served, owed, untagged>>

LineEnds == {i \in 1..Len(toServer) : Builder!EndsLine(toServer[i])}

\* A line of a command: an announcement ends it, or it is the last.  Any line
\* break ends a line, also one inside a text.
ReadLine ==
  /\ mode = "command"
  /\ LineEnds # {}
  /\ LET end == CHOOSE i \in LineEnds : \A j \in LineEnds : i <= j IN
     /\ toServer' = SubSeq(toServer, end + 1, Len(toServer))
     /\ line' = line \o SubSeq(toServer, 1, end)
     /\ mode' = IF toServer[end].t = "marker" THEN "announced" ELSE "complete"
  /\ UNCHANGED <<builderVars, hostVars, challenges, served, owed, untagged, toClient>>

Carryout ==
  /\ mode = "complete" /\ HeadingOf(line).cmd \notin Exchanges
  /\ \E status \in {"OK", "NO"} : Serve(Decoded(line), status)
  /\ UNCHANGED <<builderVars, hostVars, toServer, toClient>>

AcceptLiteral ==
  /\ mode = "announced"
  /\ Ask("payload")
  /\ UNCHANGED <<builderVars, hostVars, challenges, toServer>>

\* A literal, an IDLE or an AUTHENTICATE is turned down.
Refuse ==
  /\ mode = "announced" \/ (mode = "complete" /\ HeadingOf(line).cmd \in Exchanges)
  /\ Serve(Refused, "NO")
  /\ UNCHANGED <<builderVars, hostVars, toServer, toClient>>

\* The octets that were announced, none for an empty payload.
ReadPayload ==
  /\ mode = "payload"
  /\ LET size == line[Len(line)].n IN
     \/ /\ size = 0
        /\ line' = Append(line, Payload(NoText))
        /\ UNCHANGED toServer
     \/ /\ size > 0 /\ toServer # <<>>
        /\ line' = Append(line, Head(toServer))
        /\ toServer' = Tail(toServer)
  /\ mode' = "command"
  /\ UNCHANGED <<builderVars, hostVars, challenges, served, owed, untagged, toClient>>

AcceptIdle ==
  /\ mode = "complete" /\ HeadingOf(line).cmd = "IDLE"
  /\ Ask("idle")
  /\ UNCHANGED <<builderVars, hostVars, challenges, toServer>>
ReadDone ==
  /\ mode = "idle"
  /\ toServer # <<>>
  /\ toServer' = Tail(toServer)
  /\ Serve(Decoded(line), "OK")
  /\ UNCHANGED <<builderVars, hostVars, toClient>>

Challenge ==
  /\ mode = "complete" /\ HeadingOf(line).cmd = "AUTHENTICATE"
  /\ challenges < MaxChallenges
  /\ challenges' = challenges + 1
  /\ Ask("reply")
  /\ UNCHANGED <<builderVars, hostVars, toServer>>
ReadReply ==
  /\ mode = "reply"
  /\ toServer # <<>>
  /\ toServer' = Tail(toServer)
  /\ mode' = "complete"
  /\ UNCHANGED <<builderVars, hostVars, line, challenges, served, owed, untagged, toClient>>
Authenticated ==
  /\ mode = "complete" /\ HeadingOf(line).cmd = "AUTHENTICATE"
  /\ challenges > 0
  /\ Serve(Decoded(line), "OK")
  /\ UNCHANGED <<builderVars, hostVars, toServer, toClient>>

SendAnswer ==
  /\ \E a \in owed :
       /\ toClient' = Append(toClient, Answer(a.tag, a.status))
       /\ owed' = owed \ {a}
  /\ UNCHANGED <<builderVars, hostVars, mode, line, challenges, served, untagged, toServer>>

Inform ==
  /\ untagged < MaxUntagged
  /\ toClient' = Append(toClient, Untagged)
  /\ untagged' = untagged + 1
  /\ UNCHANGED <<builderVars, hostVars, mode, line, challenges, served, owed, toServer>>

-----------------------------------------------------------------------------
Host   == Build \/ WriteBytes \/ Continued \/ EndIdle \/ Answered \/ Informed
Server == ReadLine \/ Carryout \/ AcceptLiteral \/ Refuse \/ ReadPayload \/ AcceptIdle \/ ReadDone
          \/ Challenge \/ ReadReply \/ Authenticated \/ SendAnswer

Next == Begin \/ Host \/ Server \/ Inform

Spec == Init /\ [][Next]_vars

\* A call that has begun goes on, the host writes and reads what it can, and the
\* server does not stop in the middle of a session.  Nobody need issue a command.
FairSpec == Spec /\ WF_vars(Host) /\ WF_vars(Server)

-----------------------------------------------------------------------------
TypeOK ==
  /\ Builder!TypeOK
  /\ host \in {"free", "calling", "literal", "exchange", "idling"}
  /\ segment \in 1 .. Len(lits) + 1
  /\ host = "literal" => segment <= Len(lits)
  /\ DOMAIN answered \subseteq 1..Len(asked)
  /\ mode \in {"command", "announced", "payload", "complete", "idle", "reply"}
  /\ challenges \in 0..MaxChallenges /\ untagged \in 0..MaxUntagged

\* Nothing but whole command lines is on its way to a server that has not asked
\* for it: a payload, a SASL response or a DONE is the first thing the server
\* reads, in the state in which it expects just that (command.go Command and
\* LiteralSegment, "the host writes each after receiving a continuation
\* request"; commands.go Idle and Authenticate).
NothingUnasked ==
  \A i \in 1..Len(toServer) :
    LET token == toServer[i] IN
    /\ token.t = "payload" =>
         i = 1 /\ mode = "payload" /\ line[Len(line)].n = token.of.len
    /\ token.t = "reply" => i = 1 /\ mode = "reply"
    /\ token.t = "DONE"  => i = 1 /\ mode = "idle"

Requests == {Command(Builder!TagText(n), c.cmd, c.args) : n \in 1..MaxTag, c \in Calls}
Service  == INSTANCE CommandService WITH Nothing <- Refused

\* Each command that is written is carried out or refused once, in order, with
\* the arguments of the call, through literals, refusals and pipelining, and
\* its caller gets the answer to it and no other, once and in the end
\* (command.go Command: the tag "the host must match against the eventual
\* tagged response").
ImplementsService == Service!FairSpec
=============================================================================
