------------------------- MODULE MCCommandExchange -------------------------
(* Commands with no literal, with an empty one, with two that have text    *)
(* between and behind them, with verbatim texts, with a continuation       *)
(* exchange, and without success.                                          *)
EXTENDS CommandExchange

Word   == [len |-> 3, has |-> {}]
Lines  == [len |-> 6, has |-> {"eol", "special"}]
Ending == [len |-> 7, has |-> {"special", "marker"}]

MCCalls ==
  { Bare("NOOP"), Bare("IDLE"), Authenticate(Word),
    PairCommand("LOGIN", Lines, Lines),
    AppendCommand(Word, <<Word>>, <<>>, NoText),
    Search("SEARCH", <<Text("string", Word), Text("quoted", Ending)>>),
    Call("X", <<Value("number", MaxNum + 1)>>),
    Call("X", <<Value("date", 0)>>) }
=============================================================================
