--------------------------- MODULE MCRecordWriter ---------------------------
(* Constants for the run of standard_form and add_constants. *)
EXTENDS RecordWriter

SmallByte == {"a", "sp", "sep", "us", "nl", "nul"}
SpaceByte == {"sp"}
EolByte   == {"nl"}

Words(bytes, lengths) == UNION {[1..n -> bytes] : n \in lengths}

OneByte   == {<<"sep">>, <<"us">>}
NoQuoting == {"nul"}   \* what set_quote() makes of the empty quote of a format

\* Every short file, and every way to go on behind a row.
Begun(separator) == {<<"a", separator, "nl">> \o w : w \in Words({"a", separator, "nl"}, 0..5)}
TextFiles == UNION {Words({"a", s, "nl"}, 0..4) \cup Begun(s) : s \in {"sep", "us"}}

Lists ==
  {<<>>, << [key |-> <<"a">>, value |-> <<"a", "a">>],
            [key |-> <<>>, value |-> <<"a">>] >>}

Found == {<<>>, <<"a", "us", "a">>}
=============================================================================
