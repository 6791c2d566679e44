# A TLA+ model of net-imap

The Go package `imap` (`src/*.go`) is the deterministic core of an IMAP4rev1
client: it writes command lines and reads response buffers. It opens no
connection. A *host* owns the socket, writes what the builder returns, and
supplies two callbacks from which the reader takes lines and literals. This
directory models that core in TLA+, checks it with TLC and proves parts of it
with TLAPS.

## The system

| Part | Source | State | Operations |
|---|---|---|---|
| Sequence sets | `command.go` 287-414, `helpers.go` 37-51 | the collected and the merged ranges of one call | `NewSequenceSet`, `coalesce`, `String`, `MessageSet` |
| Command builder | `command.go` 16-285, `commands.go` | `tagno`; during a call the main line and the literal segments | `NextTag`, `Command`, 25 builders, `encodeData`, `encodeString` |
| Response reader | `reader.go` | during a call the buffer; the stream belongs to the host | `ReadBuffer`, `ReadResponse`, `literalSize` |
| Response parser | `parser.go`, `data.go` | a cursor over one buffer, ordered maps | `ParseResponse` and a function per production |
| FETCH, ENVELOPE, BODYSTRUCTURE | `fetch.go`, `body.go` | the same cursor | `fetchData`, `envelope`, `bodyStructure`, ... |
| Modified UTF-7 | `utf7.go` | index, accumulator, pending bits | `EncodeUTF7`, `DecodeUTF7` |
| SASL encoders | `sasl.go` | none | five pure functions |
| Dates | `helpers.go`, `command.go` | none | `FormatDate`, `FormatDatetime`, `encodeDate`, `encodeTime` |

How they interact: the host calls a builder and gets a `Command`, writes
`Bytes`, and for each `LiteralSegment` waits for a continuation request (`+`)
before it writes `Data` and then `Tail`. It calls `Reader.ReadResponse`, which
calls back for lines and literals, assembles one buffer and parses it. It
matches a tagged response with the command by `Tag`. Mailbox names pass through
the UTF-7 codec on the way out and on the way in; message sets pass through
`NewSequenceSet`. Nothing is shared between goroutines and nothing persists.

What is hard in this code, and what makes each part correct:

- *Sequence sets.* Four rules meet: `0` means `*`, `*` is the largest number, a
  range may be given either way round, and touching ranges merge. The set sent
  must name, in a mailbox of any size, the messages the caller named.
- *Builder.* A literal splits a command; everything after it, at any depth of
  nesting, belongs to the last segment. The client and the server must agree on
  every boundary, arguments must arrive in order and separated, a call that fails
  half-way must return nothing, no `string` argument may be sent in a form in which
  one of its bytes means something else, and tags must be distinct. What atoms, raw
  data, flags, search keys and a `QuotedString` hold is written as it is, and is the
  caller's affair.
- *Reader.* The boundaries of responses are inferred from the octets, and the
  connection may end at any octet. Each call must return the next whole response
  or none.
- *UTF-7.* Bits are carried across code units and surrogate pairs. A name must
  survive the round trip and be written in one way only.
- *Parser.* The cursor must not run past the buffer, every loop must end on a
  buffer cut short, and what the grammar can say must not be lost.

`PROJECT.json` lists the hazards line by line.

## The modules

**`SequenceSet`** (variables `items`, `pc`, `next`, `raw`, `entries`, `text`).
One behaviour is one call. `Collect` and `Reject` are the loop of
`NewSequenceSet` with its error returns, `Sort` is `sort.Slice` (any
rearrangement that is sorted: the sort is not stable), `MergeRange` is one
iteration of `coalesce`, `Render` is `String`. `MaxNum` is `1<<32-1` and
`star`, its successor, is `maxSeq`. `MCSequenceSet` gives the argument lists.

**`Commands`** has no state: it describes the arguments and turns each function
of `commands.go` into the call of `Builder.Command` that it makes. An argument
list is written in reading order, a `[]Argument` being an `open` item, its
elements and a `close` item, which makes the recursion of `encodeData` a walk.
A text, that of a string as well as that of an atom, a flag, raw data or a
`QuotedString`, is its length and what it holds with a meaning of its own: a
line break, an 8-bit byte, a byte of `needsQuoting`, an `{n}` at the end. A string key of
`Search` becomes raw data with its text. The texts of `Verbatim` items reach the line as they
are; `Clear` says that those of a call bring neither a line break nor an `{n}`
outside quotes into it.

**`CommandBuilder`** (variables `tagno`, `pc`, `call`, `next`, `main`, `lits`,
`outcome`, and the history `tags`). `Begin` is `Command` up to the first
argument, including the tag that is taken before anything is checked;
`EncodeData` encodes one argument or one parenthesis, with the space before it
and with `emit` and `startLiteral`; `Fail` is the return of `ErrInvalidData`,
which drops what was built; `Panic` is the index out of range of `encodeDate`;
`Finish` appends the CRLF. Octets are tokens: what is kept is where each token
goes, where a literal is announced, how each argument is written, and whether its
text ends the line (`EndsLine`) or announces a payload (`AnnouncesPayload`).

**`ResponseReader`** (variables `stream`, `closed`, `pc`, `buf`, `n`, and the
histories `sent` and `delivered`). The server and the host's socket are external:
`Send` puts the octets of a response on the stream, `Close` ends the connection
after the first octets of another. `Call` is `ReadResponse`, `ReadLine` and
`ReadLiteral` are the two halves of the loop of `ReadBuffer`, each with the
callback that feeds it, `EndOfStream` its two error returns. The octets kept
apart are those that `literalSize` looks at, CR LF being one octet. A response
arrives at once: a callback waits for its line or its octets anyway. Parsing
the buffer afterwards does not touch the stream and is left out.

**`ResponseChannel`** is what the reader promises: the responses of the server,
whole, in order, one per call. `ResponseReader` implements it (`Channel`).

**`ModifiedUTF7`** (variables `name`, `own`, `pc`, `i`, `block`, `acc`, `bits`,
`encoded`, `bytes`, `decoded`). One behaviour encodes a name and decodes the
result, or decodes a string from elsewhere; a step is one iteration of one of
the four loops. Runes are code points and the sizes of bytes, sextets and code
units are the real ones. The accumulator has `AccValues` values: 2^32 in the
code, 2^14 in the run, the least the algorithm can do with, so that the
run also shows that what is shifted out never matters. `utf16.Encode` and
`utf16.Decode` are external.

**`ResponseGrammar`** has no state: it writes the functions of `parser.go`,
`fetch.go` and `body.go` as lists of instructions. A function that looks ahead,
or a loop, is a table from what lies ahead to instructions; a function that only
calls others in turn is written where it is called.

**`ResponseParser`** (variables `input`, `pos`, `todo`, `vals`, `status`) executes
them. One behaviour is one call of `ParseResponse`: `pos` is the cursor, `todo`
the calls still to be made, `vals` the lists and structs under construction. An
action is one primitive of the parser: `Do` and `Switch` choose a branch by what
lies ahead or by the word just read, `Expect` is `expect`, `Skip` a bare
`p.pos++`, `Copy` one iteration of a loop that copies octets, `Read` the scan of
an atom, an attribute name, a UID set or a text, `ReadNumber` is `number`,
`TakeLiteral` the slice of `literal`, `Build` what is put together without
looking at the buffer (`Set` being the ordered maps), `Until` one iteration of a
loop that only `)` ends, `Fail` every `return nil, p.errf(...)`, `Panic` a slice
whose end has wrapped around. A unit of the buffer is an octet the parser looks at,
a word of other octets, a maximal run of digits, or CR LF.

**`CommandService`** is what a program relies on: each command is carried out or
refused once, in the order of issue and with the arguments given, and each caller
gets the answer to its own command, once.

**`CommandExchange`** puts `CommandBuilder` (`Builder`, on the same variables)
between a host and a server. The host (`host`, `segment`, `asked`, `answered`) is
not in this repository; it does what the comments on `Command`,
`LiteralSegment`, `Idle` and `Authenticate` ask of it, matches answers by their
tags and does not wait for one before the next command. The server (`mode`,
`line`, `challenges`, `served`, `owed`) reads lines, counts payloads, may refuse a
literal, an IDLE or an AUTHENTICATE, and answers in any order; two queues of
tokens join them. Responses are whole: their framing and parsing are the subject
of the two modules above. It implements `CommandService` (`Service`). A
continuation request that nothing waits for stays where it is, and the exchange
stops there.

Definitions marked "A defect to be caught" are not part of the model: each is a
plausible bug that one of the properties catches when it takes the place of the
definition below it.

## The runs

| Run | Configuration | Shows |
|---|---|---|
| `sequence_set` | `MCSequenceSet.cfg` | `MeaningPreserved`: the set sent means the list given, in every mailbox size. `Canonical`: the merged ranges are upright, ascending and apart at every iteration. |
| `command_builder` | `MCCommandBuilder.cfg` | `FramedByLiterals`: a literal is announced with its length just before its payload, and nothing else is, by a string in particular (if the verbatim texts of the call are clear). `ArgumentsInOrder`: at every step `Bytes`, `Data` and `Tail` in a row carry the arguments encoded so far, in order; a call returns all of them or nothing; and the line ends once, behind the last (the line end again if the verbatim texts are clear). `WellSeparated`: arguments never fuse. `StringsProtected`: a `string` argument is sent as a quoted string only without a line break and an 8-bit byte, and bare only without any special byte; it says nothing of search keys, `QuotedString`s, atoms, flags and raw data. `TagsDistinct`. |
| `response_reader` | `MCResponseReader.cfg` | `NothingLost`: delivered, assembled and unread octets are, in this order, what was sent. `ImplementsChannel`: every call returns the next whole response or none. |
| `response_reader_live` | `MCResponseReaderLive.cfg` | `ImplementsFairChannel`: every response sent in full is returned, also behind a closed connection. |
| `modified_utf7` | `MCModifiedUTF7.cfg` | `RoundTrip`, `WellFormed` (printable, every shift closed, no superfluous shift), `Terminates`, and an index that stays in the string. |
| `response_parser` | `MCResponseParser.cfg` | `MeaningKept`: what comes out is what the server meant, and the whole buffer is consumed. `WholeGrammar`: every response of the grammar is accepted. `OnlyGrammar`: one that is cut short or damaged is not. `OnlyOverflows`: nothing panics but a literal whose end is past the largest int. `Terminates`, and a cursor that stays in the buffer (`TypeOK`). |
| `command_exchange` | `MCCommandExchange.cfg` | `NothingUnasked`: a payload, a SASL response or a `DONE` is under way only to a server that has asked for just that. `ImplementsService`: each command is carried out once, with its arguments, and answered to its own caller, through literals, refusals and pipelining, and in the end. |

Five runs show where the code differs from what is written about it:

| Run | What the run finds |
|---|---|
| `append_date` | The comments on `Argument`, `Date` and `Append` call a date quoted; it is sent bare. |
| `last_literal_marker` | The comment on `ReadBuffer` says it goes on while *the line* it read ends with a marker. It tests the whole buffer, so a response whose last literal ends in `{n}` and is followed by the line end alone makes it read on into the next response. |
| `literal_overflow` | `ErrParse` is documented for what does not parse. A literal size next to the largest `int` wraps `p.pos+int(n)` around, passes the test against the length and panics in the slice. |
| `message_body` | The comments on the body types call the parse complete and loss-free. A MESSAGE/RFC822 part with two addresses in a field of its envelope makes the whole FETCH fail. |
| `bracket_mailbox` | `ParseResponse` is said to be faithful to the grammar. An unquoted mailbox name with `]`, which `needsQuoting` lets the builder send as an atom, cannot be read back from LIST. |

Differences that were seen and have no run: the comment on `maxSeq`
(`command.go` 296-299) says that `*` stays disjoint from smaller numbers, while
`coalesce` merges it with 4294967295 (the meaning is kept); the comment on
`msgAtt` (`fetch.go` 49-50) speaks of canonical names, while an attribute that
`attValue` does not name keeps the server's spelling; `fetch.go` 19 says a value
is `""` only for NIL, while an empty string is `""` too.

### Bounds, and why they are enough

- `MaxNum = 4` with numbers from -1 to 5, ranges over 0..4 and up to three
  elements: adjacent, overlapping, nested, apart and reversed ranges, `*` at
  either end and next to the largest number all occur, and three elements give
  the merge loop a range to absorb, one to extend and one to start. The proofs
  have no bound.
- In the builder, texts of each form `encodeString` tells apart and one that ends in
  `{n}`, as strings and as verbatim texts (mechanisms, attributes, flags, search keys,
  `QuotedString`s, an atom), line breaks included; every builder,
  lists nested two deep with literals inside and after them, and each bad
  argument after an open literal. Tag numbers are written in base 2 and padded to
  2 digits, so that the nine tags (`MaxTag`) outgrow the padding twice.
- In the reader, twenty-three responses with up to two literals: empty payloads,
  payloads that hold a line end, a marker or half of one, one of ten octets, whose size
  has two digits, a size with a leading zero, texts that look like
  markers and are none. Two responses (`MaxSent`) are enough for one to run into
  the next. `MaxInt = 98` makes `{99}` the number that does not fit.
- Names of up to four runes of each kind (`&`, `-`, printable, control, one code
  unit, two code units) and of two runes at every boundary of the tests: four
  one-unit runes are 64 bits, in which the 24-bit pattern of pending bits repeats
  more than twice.

- The parser reads three families of buffers. *Responses with their meaning*: a
  generator puts the units of a response and the value they stand for side by side, for
  every kind of response and response code, every string form in every string
  position, lists of up to two or three elements, ENVELOPEs
  with absent, one and two addresses, BODYSTRUCTUREs nested two deep with and
  without extension data, repeated keys, sections with quoted names. *Damaged ones*:
  each of a sample cut short at every unit or robbed of one
  parenthesis, quote, brace, space or line end, and literals longer than what follows. *Short
  ones*: all strings of up to five units (`MCLength`) over the units each loop of
  the parser tells apart, between a fixed head and tail, with a reference recogniser
  for each. Sizes of literals count units and numerals are never adjacent.
  `MaxInt = 1000`: a literal may have the size 999, whose end wraps around, or
  1001, which is no number.
- In the exchange, three commands (`MaxTag`), tags in base 2 padded to one
  digit, so that a tag cut to its width repeats. The calls have no literal, two
  literals with text between and behind, an empty one behind a flag, a search key and a
  `QuotedString` that ends in `{n}`, a continuation exchange, a bad
  argument, a panic. Two challenges and one untagged response
  (`MaxChallenges`, `MaxUntagged`), which can come between any two others.

### Assumptions and fairness

- The replies of `response_reader` (`ClearReplies`) are clear: their text does not
  look like a marker. A line of text that ends in `{n}` is taken for a literal by the
  documented test, and nothing in the buffer could tell it apart.
- `FairSpec` of `ResponseReader` is weak fairness of the reader's side: the host
  goes on calling `ReadResponse`, and a callback returns once its line or octets
  have arrived or the connection has ended. The server need not do anything.
- The calls of `CommandExchange` have clear verbatim texts (`ClearAssumption`): the
  builder writes atoms, raw data, string search keys, flags and the inside of a
  `QuotedString` as they are, so a caller who puts a line break or an `{n}` there ends
  the line or announces a payload for the server too, and no service can be
  promised. `FramedByLiterals` and the line end of `ArgumentsInOrder` have the same
  condition, and `command_builder` runs calls that meet it and calls that do not.
  The name of a command and the prefix of a tag are taken to be plain words.
  The server reads a verbatim text as the caller gave it (`Meaning`, `Decoded`).
- `FairSpec` of `ModifiedUTF7` and `ResponseParser` is weak fairness
  of the one loop that runs: a Go function that can take its next iteration takes it.
- `FairSpec` of `CommandExchange` is weak fairness of the host's side, which
  goes on with a call it has begun and writes and reads what it can, and of the
  server's, which does not stop in the middle of a session. Nobody need issue a
  command or send an untagged response.
- `ResponseParser` assumes of its tables what the code has: an octet is skipped
  without a test only where it was just looked at, a function ends the lists and
  structs it begins, and a literal takes the number just read (`GrammarAssumption`); the cases of a look-ahead exclude one another
  (`ChoiceAssumption`). TLC evaluates both for the productions of `ResponseGrammar`.
- `CommandBuilder`, and with it `CommandExchange`, may stop (`CHECK_DEADLOCK FALSE`)
  after `MaxTag` commands or after a panic, of which the host may not recover.
  `CommandBuilder` by itself has no liveness property; that of `CommandExchange`
  says that a command once written is answered.

## The proofs

Each theorem holds for every value of the constants that the assumptions of its
module allow; the runs above show the same formulas on small instances.

| Module | Theorems |
|---|---|
| `SequenceSetProofs` | `TypeCorrect`, `AlwaysCanonical`, `AlwaysMeaningPreserved` |
| `CommandBuilderProofs` | `TypeCorrect`, `AlwaysFramed`, `AlwaysProtected`, `ArgumentsAlwaysInOrder`, `AlwaysWellSeparated`, `TagsNeverShared`, `BuiltInvariant` |
| `ResponseReaderProofs` | `TypeCorrect`, `NothingIsLost`, `ReaderImplementsChannel` |
| `ResponseParserProofs` | `TypeCorrect`, `ReadsTheGrammar`, `PanicsOnlyOnOverflow`, `ReportedUnlessOverflow` |
| `CommandExchangeProofs` | `BuilderInvariant`, `ExchangeInvariant`, `TypeCorrect`, `NothingEverUnasked`, `ServiceImplemented` |
| `ModifiedUTF7Proofs` | `TypeCorrect`, `AlwaysWellFormed`, `NamesSurvive` |
| `NumberLemmas`, `SequenceLemmas` | the lemmas the others share |

**Lemmas.** The induction theorems of the library take an operator, which no
installed prover can instantiate. `NumberLemmas` states induction over *sets* of
numbers (`HasLeast`, `Induction`), and that functions defined by recursion exist
(`Recursion`, `Descent`). `SequenceLemmas` builds on it what `FlattenSeq`, a fold of
the community modules, computes: its type, its value on `s \o t` (`EachConcat`), its
composition (`EachOfEach`), and that two sequences of parts that each end at their
first end are cut alike (`EndsAlign`).

**Sequence sets.** The invariant
`MeaningPreserved` says nothing before the end of a call, so the induction needs
to know what each stage has kept: `CollectInv` (each collected range is the
range of its element), `RawInv` (after sorting, the ranges mean the elements),
`MergeInv` (the merged ranges mean the part of the sorted list already read, and
start no later than anything still to come, without which a merged range could
not be extended in place), `RenderInv` and `TextInv`. The lemmas on ranges say
that a range means what its element names, that a written range means what the
range covers, and what one merge does to the meaning.

**Builder.** Types, framing and protection are inductive together with
`CallInv` (`IInv`), whatever the texts hold: `FramedLines` and `ProtectedLines` count the
markers and look at the strings. That nothing else announces a payload
(`FramedByLiterals`) is `EmittedLegible`: what a clear call emits ends a line or
announces a payload only as a marker, a string because of the form `encodeString`
gives it. The argument is about the last line of the command:
`EmitExtendsLastLine` says that `emit` extends that line and nothing else,
`SilentExtended` and `SilentToAnnounces` say what the new tokens do to it, and
`EmittedToken` says that an accepted argument becomes one well-typed, protected
token that is a marker only for a literal. Order and separation are about the
whole command as it goes over the wire, a flattening: `WireInv` says that the wire
without its separators is the arguments read so far, and that only its last
token may still want a space; `BuiltInv` says that a call which fails leaves nothing
behind, and `LegibleLines` carries the single line end over to clear calls. Tags are distinct because
`tagno` only grows and because two numbers with the same padded digits are the
same, which `Descent` gives for digits in any base.

**Reader.** `NothingIsLost` needs the types and that the buffer is empty between two
calls (`IdleInv`). That each call returns the next whole
response or none needs `InOrder`: what was sent is what was delivered and the responses
`pending`; the buffer and the unread octets, in a row, are these responses
and, if the connection has ended, the beginning of one more; and the buffer is the front of
the first of them, up to a text when the reader stands in `readLine`, up to a literal and with
its length in `n` when it stands in `readLiteral`. The theorem assumes that no whole
response ends like a marker (`Clear`). Without that the code fails: this
is what the run `last_literal_marker` shows.

**Parser.** `TypeCorrect`, for every grammar of the given form and every
buffer: the cursor never leaves the buffer. `TypeOK` is not
inductive, for `Skip` moves the cursor with no test. `TodoInv` adds that only the
next instruction can be a skip, and `SkipInv` that there is then a unit to skip;
`SeenBeforeSkip` is the reason: the branch was chosen by that unit.
`RunEndInBuffer` shows that the maximal run read by `Read` exists and ends in the
buffer. A literal stays in
the buffer because of the test in `TakeLiteral`; where that test is fooled the
code panics, and the model does.

`ReadsTheGrammar` is about what is accepted and what comes out. The code is functions
that call one another and return what they read; the model has a stack of calls, `todo`,
and a stack of lists, `vals`. The theorem first says what the functions read without
either: a `Fact` is that a list of instructions, begun at one unit with one list, ends at
another with another, and a fact holds if a finite `Derivation` ends in it, each
line of which is nothing to do (`Ended`), a call that returns before the rest is done
(`Called`), or a struct built from nothing (`Built`). A buffer is read if there is
such a fact about `ParseResponse` (`Reads`). Then, for every buffer and every grammar of
the form above: a parse that is done returns what is read there, which is the only
thing that can be; and a buffer that is refused cannot be read, wherever the reading
were to stop, so that no choice the parser made has to be taken back.

The proof compares three things. `Leads` is what single steps reach, counted
backwards from the end so that induction over sets of numbers is enough. What the functions read the
steps read (`DerivesLeads`): a fact about the front of what is to be done, with anything
behind it and any lists around, is a sequence of steps. What the steps read the functions
read (`AllReadsOff`), which needs that each branch is balanced: an `open` in front
of a balanced list has its `close` in it, with balanced lists in it and behind it
(`BalancedStruct`). Then the state: each action is a step (`ActionIsStep`),
there is at most one (`StepOnce`, from the exclusion of the guards), and where the
parser gives up there is none (`NoStepOnFailure`). Hence the invariant `ReadInv`:
while the parser runs, what its state leads to is what the call leads to, and after an
error the call leads nowhere.

That the grammar of the code is the grammar of IMAP is not proved: `ReadsTheGrammar` holds
for any grammar of the form. `OnlyGrammar`, `WholeGrammar` and `MeaningKept` compare the
parser with what an independent generator meant and with reference recognisers, and
are model-checked only.

`ErrorsReported` does not hold (`literal_overflow`); `OnlyOverflows` says that the
overflow found there is the only reason: at a panic, a number of the buffer added to the
cursor exceeds `MaxInt`. So `ErrorsReported` holds if no number comes within the length of
its buffer of `MaxInt` (`ReportedUnlessOverflow`). `SizeInv` carries this: what is
to be done never ends the last list (`Deep`, so that there always is a value read last), and in front
of each literal still to be taken stands its number, or only expected units once the
number is the value read last (`Sized`).

**Exchange.** `BuilderInvariant` carries the theorems about the builder over: the
exchange's builder steps are steps of `CommandBuilder` or leave its variables alone.
The invariant of the exchange, `ExchangeIInv`, ties together three places. The server's
`line` and the tokens on their way to it are, in a row, the `View`. `PartInv` says that
the `View` is the commands written and not yet served, each of them whole, followed by
what the host has written so far of the command it is in (`Current`). Since a
command with clear verbatim texts ends at its first line end outside a literal, the two ways
to cut that row agree, so a command that is whole at the server is the first not yet
served. `ReadsAsRequested` says that it then reads as the call it was built from,
whatever form its strings took. `HostInv`, `AnnouncedInv` and `UnaskedInv` say where
the host is when the server is in each `mode`: the host writes a payload only after
the server has asked for it, and while it waits it writes nothing. There is one lemma
per action (`WriteBytesStep` to `SendAnswerStep`). `ServiceImplemented` follows with the
mapping that `CommandExchange` gives: the initial states map to initial states
and each step to `Ask`, `Serve`, `Answer` or a stutter. It is the safe part of
`ImplementsService`.

**Modified UTF-7.** Four layers, each resting on the one before.
(1) The accumulator: what falls out of it is a multiple of 2^14 (`Wrap`), so the
sextets and bytes cut from it are those of the pending bits (`ByteIn`, `SextetIn`);
only an even number of bits is ever pending (`BitsInv`).
(2) UTF-16: `OneMoreRune` says that the units of one more rune decode to that rune
and disturb nothing in front, since a text never ends with half a pair; hence
`CodePointsOfUnits`, by induction on the length.
(3) Base64: `Carries` says that each sextet of a block is the one its three bytes
give, `Filled` that there are just enough of them. `Writing` and `Reading` are the
invariants of the two inner loops, which relate the accumulator to the bytes that the
block is about; `ByteWritten`, `RestWritten`, `SextetRead` and `AllRead` are their steps.
(4) The string: for `WellFormed`, `FormInv` says that the encoded name with its open
block cut off is well formed and does not end in a block of base64, and that behind
such a block comes a printable rune or nothing (`MayShift`, from `RunEndFound`).
For `RoundTrip`, `NameInv` sees the encoded name as a row of pieces, a plain character
or a shift each, with the text it stands for: the encoder appends a piece to the
row, the decoder takes one from its front, and the texts of what is still
to be decoded complete what has been (`Decoding`). Well-formedness and the round trip are about
names from the host; the types hold for encoded strings from elsewhere as well.

The assumptions are those of the modules. `MaxNum` is positive (natural in the
builder), elements, arguments and responses are well typed, a base is above 1. No
argument list ends with an opening parenthesis and parentheses carry nothing, since
an item of a list is the value itself there (`CallsAssumption`); the calls of the exchange
have clear verbatim texts (`ClearAssumption`). The announced size of a literal of a
response is the number of its octets in decimal, leading zeros allowed, and at most `MaxInt`;
the texts of a response hold no line end. The grammar of the parser has the form above.
Names are code points, encoded strings are ASCII, and the number of values of the accumulator
is a multiple of 2^14, as it is for every width of 14 bits or more.

Model-checked only: every liveness property (TLAPS does not reach fairness), the fair
part of `ImplementsService` and `ImplementsFairChannel` among them; `OnlyGrammar`,
`WholeGrammar` and `MeaningKept`, for the IMAP grammar exists only as the responses that
`MCResponseParser` puts together; and the runs that expect a violation.

## Not modelled

Left out for good:

- the SASL encoders, concatenations and library calls (base64, HMAC) without
  control flow; their place in AUTHENTICATE is `Continued` and `ReadReply`;
- date layout (`FormatDate`, `FormatDatetime`, `encodeTime`); what `encodeDate`
  does with a bad month is `Panic`;
- `BodyType` and the other accessors of parsed data, which change nothing;
- buffers with octets behind the final CR LF, which the reader does not deliver,
  and the depth of the Go stack, which nested bodies can exhaust: `todo` has no bound;
- goroutines: the code does not claim that a `Builder` or a `Reader` may be shared.
