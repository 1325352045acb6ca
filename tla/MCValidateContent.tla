-------------------------- MODULE MCValidateContent --------------------------
(* Constants for the runs of validate_content. *)
EXTENDS ValidateContent

SpaceByte == {"sp"}
EolByte   == {"nl"}
NoQuoting == {"nul"}   \* what set_quote() makes of the empty quote of a format
CommaByte == <<",">>
Marked    == <<"failed">>
Messages  == <<"ERROR_MESSAGES">>

Words(bytes, lengths) == UNION {[1..n -> bytes] : n \in lengths}

Values == Words({"a", "1"}, 0..6)
Digit  == {"1"}
OneOrNothing(value) == 1
AllOnes(value)      == Len(value)
AnyUtf8(value)      == TRUE
OnlyOnes(value)     == value = <<"1">>

Short      == <<"length", "(", "sp", "1", ")">>
Present    == <<"Not_null">>
OneOf      == <<"value_in", "(", "1", ",", "sp", "a", ")">>
Number     == <<"is_integer">>
Utf8Short  == <<"utf8_length", "(", "1", ")">>
Utf8Right  == <<"utf8_valid">>
Moment     == <<"is_timestamp">>
Unclosed   == <<"length", "(", "1">>

Says(name, values) == [name |-> <<name>>, permits |-> values]

Meanings ==
  Short     :> Says("length", {v \in Values : Len(v) =< 1}) @@
  Present   :> Says("Not_null", Values \ {<<>>}) @@
  OneOf     :> Says("value_in", {<<"1">>, <<"a">>}) @@
  Number    :> Says("is_integer", {v \in Values : Range(v) \subseteq {"1"}}) @@
  Utf8Short :> Says("utf8_length", {v \in Values : Len(v) =< 1}) @@
  Utf8Right :> Says("utf8_valid", Values) @@
  Moment    :> Says("is_timestamp", {<<"1">>}) @@
  Unclosed  :> [name |-> Unclosed, permits |-> {}]

WordLengths ==
  "length" :> 6 @@ "Not_null" :> 8 @@ "value_in" :> 8 @@ "is_integer" :> 10 @@
  "utf8_valid" :> 10 @@ "utf8_length" :> 11 @@ "is_timestamp" :> 12 @@
  "(" :> 1 @@ "1" :> 1

FirstBytes ==
  "length" :> "l" @@ "Not_null" :> "n" @@ "value_in" :> "v" @@ "is_integer" :> "i" @@
  "utf8_valid" :> "u" @@ "utf8_length" :> "u" @@ "is_timestamp" :> "i"

Column(column, validations) == [name |-> <<column>>, validations |-> validations]

SomeFormats ==
  {<<Column("x", <<Present, Short>>), Column("y", <<OneOf>>)>>,
   <<Column("x", <<Number>>), Column("y", <<>>)>>,
   <<Column("x", <<Utf8Right, Utf8Short>>), Column("y", <<Moment, Unclosed>>)>>}

SmallByte ==
  {"a", "1", "sp", "us", "nl", "nul", ",", "failed", "ERROR_MESSAGES", "x", "y", "("}
    \cup DOMAIN WordLengths

Units   == {"a", "1", "us", "nl"}
Bodies  == Words(Units, 0..5) \cup {<<"1", "us">> \o w \o <<"us", "a">> : w \in Words(Units, 0..3)}
AnyFile == Words(Units, 0..3) \cup {<<"a", "us", "1", "nl">> \o body : body \in Bodies}
=============================================================================
