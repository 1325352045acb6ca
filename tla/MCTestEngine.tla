---------------------------- MODULE MCTestEngine ----------------------------
(* Constants for the run of the test engine. *)
EXTENDS TestEngine

SmallByte == {"a", "sp", "sep", "q", "nl", "nul"}
SpaceByte == {"sp"}
EolByte   == {"nl"}

Words(bytes, lengths) == UNION {[1..n -> bytes] : n \in lengths}

ShortText == Words(SmallByte \ {"nul"}, 1..4)
PlainText == {<<"a">> \o t : t \in Words({"a", "sep"}, 1..7)}
EveryText == ShortText \cup PlainText

AnyLength == {<<"sep">>, <<"sep", "a">>, <<"sep", "a", "a">>}
Modes     == {{}, {"REPALL_NL"}, {"STRICT"}, {"STRICT", "STRICT_FINI"}}
Quoting   == {"q"}
=============================================================================
