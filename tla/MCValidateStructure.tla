------------------------ MODULE MCValidateStructure ------------------------
(* Constants for the runs of validate_structure. *)
EXTENDS ValidateStructure

SmallByte == {"a", "A", "b", "sp", "sep", "nl", "nul"}
SpaceByte == {"sp"}
EolByte   == {"nl"}
UpperByte == [b \in SmallByte |-> IF b = "a" THEN "A" ELSE b]

Words(bytes, lengths) == UNION {[1..n -> bytes] : n \in lengths}

OneByte   == {<<"sep">>}
NoQuoting == {"nul"}   \* what set_quote() makes of the empty quote of a format
TwoColumns == << <<"a">>, <<"b">> >>

\* Every short file, and every way to go on after a right header.
Bodies    == Words({"a", "sep", "nl"}, 0..6)
AnyFile   == Words({"A", "b", "sep", "nl"}, 0..4)
               \cup {<<"A", "sep", "b", "nl">> \o body : body \in Bodies}
LineFile  == {f \in AnyFile : f = <<>> \/ Last(f) = "nl"}
=============================================================================
