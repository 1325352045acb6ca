---------------------------- MODULE MCFormatFile ----------------------------
(* Constants for the runs of the format file reader. A word of a key is one *)
(* character.                                                               *)
EXTENDS FormatFile

SmallCharacter == {":", "-", "#", " ", "eol", "de", "DE", "lim", "LIM", "skip",
                   "SKIP", "col", "COL", "x", "y", "1", "0x2c", ","}

UpperCharacter == [c \in SmallCharacter |->
  CASE c = "de" -> "DE" [] c = "lim" -> "LIM" [] c = "skip" -> "SKIP"
    [] c = "col" -> "COL" [] OTHER -> c]

Delimiter    == <<"DE", "LIM">>
Skip         == <<"SKIP", "LIM">>
TwoSettings  == {Delimiter, Skip}
OneFlag      == {Skip}
ListKey      == <<"COL", "LIM">>
HexCharacter == {"0x2c"}
CommaByte    == [c \in HexCharacter |-> ","]
One          == {<<"1">>}

Line(kind, name, text) == [kind |-> kind, key |-> name, text |-> text]

SmallLines ==
  { Line("setting", <<"de", "lim">>, <<"0x2c">>),
    Line("setting", <<"DE", "LIM">>, <<"#", "x">>),
    Line("setting", <<"skip", "lim">>, <<"1">>),
    Line("setting", <<"y", "lim">>, <<"x">>),
    Line("list", <<"col", "LIM">>, <<>>),
    Line("column", <<>>, <<"x", " ", "y">>),
    Line("validation", <<>>, <<"y", ":">>),
    Line("comment", <<>>, <<"x", ":">>),
    Line("blank", <<>>, <<>>) }

UpTo(n) == UNION {[1..m -> SmallLines] : m \in 1..n}

\* Short documents, all small ones even if they are no format file, and some
\* with a line that is longer than a chunk or ends in the next one.
LongComment == Line("comment", <<>>, [i \in 1..30 |-> "x"])
LongName    == Line("column", <<>>, [i \in 1..12 |-> "x"])
Name        == Line("column", <<>>, <<"x">>)
Blank       == Line("blank", <<>>, <<>>)
SomeDocuments ==
  {d \in UpTo(4) : WellFormed(d) \/ InterruptedList(d)} \cup UpTo(2)
    \cup {<<l, LongComment>> : l \in SmallLines}
    \cup {<<Line("list", ListKey, <<>>), LongName, l>> : l \in SmallLines \cup {LongName}}
    \cup {<<Line("list", ListKey, <<>>), Name>> \o b \o <<l, m>> :
            b \in {<<Blank>>, <<Blank, Blank>>}, l, m \in {Name, Blank, Line("comment", <<>>, <<"x">>)}}
=============================================================================
