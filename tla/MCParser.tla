------------------------------ MODULE MCParser ------------------------------
(* Constants for the runs of one parser and its caller. *)
EXTENDS ParserClient

SmallByte  == {"a", "sp", "sep", "q", "nl", "nul"}
SpaceByte  == {"sp"}
EolByte    == {"nl"}

Words(bytes, lengths) == UNION {[1..n -> bytes] : n \in lengths}

TextByte   == SmallByte \ {"nul"}
ShortChunks == Words(TextByte, {2, 3})
TinyChunks  == Words(TextByte, {1}) \cup Words(TextByte \ {"sp"}, {2})
MixedChunks == Words({"a", "sep"}, {2, 3}) \cup Words({"sp", "nl", "q"}, {1})

OneByte    == {<<"sep">>}
MixedBytes == {<<"sep">>, <<"sep", "sep", "a">>}

Plain      == {{}}
Modes      == {{}, {"REPALL_NL"}, {"STRICT", "STRICT_FINI"}}
Quoting    == {"q"}

\* One format, a text in pieces, its end.
RowPlans ==
  [rows |-> [delimiters |-> OneByte, options |-> Modes, chunks |-> ShortChunks, bytes |-> 5,
             formats |-> 1, stops |-> 0, finishes |-> 1, resets |-> 0, reuse |-> FALSE]]

\* A stop from a callback or between calls, a reset, an end with more text behind it.
StopPlan ==
  [delimiters |-> OneByte, options |-> Modes, chunks |-> TinyChunks, bytes |-> 3,
   formats |-> 1, stops |-> 1, finishes |-> 1, resets |-> 1, reuse |-> TRUE]

\* A delimiter longer than the lookahead.
MatchPlan ==
  [delimiters |-> MixedBytes, options |-> Plain, chunks |-> MixedChunks, bytes |-> 5,
   formats |-> 1, stops |-> 0, finishes |-> 0, resets |-> 0, reuse |-> FALSE]

\* Formats that change between calls.
FormatPlan ==
  [delimiters |-> MixedBytes, options |-> Plain, chunks |-> MixedChunks, bytes |-> 4,
   formats |-> 2, stops |-> 0, finishes |-> 0, resets |-> 0, reuse |-> FALSE]

CallPlans == [stops |-> StopPlan, match |-> MatchPlan, formats |-> FormatPlan]
AnyChunks == TinyChunks \cup MixedChunks
=============================================================================
