----------------------------- MODULE FormatFile -----------------------------
(***************************************************************************)
(* The reader of format files, src/class_PDTFormatFile_i.c: parse() reads  *)
(* the file in chunks, puts together the lines that a chunk cuts in two,   *)
(* runs each line through a state machine that goes on from line to line,  *)
(* and after each line stores what the line set.                           *)
(*                                                                         *)
(* A character of the model is a character class or a word of a key; the   *)
(* library's String is modelled by how this code uses it.                  *)
(***************************************************************************)
EXTENDS Integers, Sequences, SequencesExt

CONSTANTS
  Character,  \* all characters, ":", "-", "#", " " and "eol" among them
  ChunkSize,  \* the size of _chunk: bytes one read() may deliver
  Settings,   \* the keys of one line, in upper case: DELIMITER, QUOTE, ...
  Flags,      \* those of them that take a number: SKIP, ALLOW FEWER COLUMNS
  ColumnList, \* the key COLUMN LIST
  Upcase,     \* upcase() of a character
  Hex,        \* the characters that stand for a byte in 0x?? form
  HexByte,    \* hex_to_byte() of them
  NonZero,    \* the values for which to_i() is not 0
  Documents   \* format files as their author sees them: sequences of lines

ASSUME FileAssumption ==
  /\ {":", "-", "#", " ", "eol"} \subseteq Character
  /\ ChunkSize \in Nat \ {0}
  /\ Flags \subseteq Settings
  /\ Upcase \in [Character -> Character]
  /\ \A d \in Documents : \A i \in 1..Len(d) :
       /\ d[i].kind \in {"setting", "list", "column", "validation", "comment", "blank"}
       /\ d[i].key \in Seq(Character) /\ d[i].text \in Seq(Character)
  /\ Hex \subseteq Character /\ HexByte \in [Hex -> Character]

VARIABLES
  document,     \* what the author of the file wrote
  file,         \* its contents
  offset,       \* bytes of it read
  chunk,        \* _chunk, from the next line on
  atEnd,        \* the last read() returned 0
  prepend,
  line,         \* the line that is parsed
  lineOffset,   \* line_offset
  linePosition, \* line->position
  fstate,       \* _state
  key, value,
  settings,     \* the values set in the format, by key
  columns,      \* its columns: [name, validations]
  crashed,      \* a validation was added to a column that is not there
  running       \* parse() is in its loops

parsing  == <<line, lineOffset, linePosition>>
format   == <<settings, columns, crashed, running>>
fileVars == <<document, file, offset, chunk, atEnd, prepend, parsing, fstate,
              key, value, format>>
reading  == running /\ ~crashed
-----------------------------------------------------------------------------
(* The state machine. *)

Class(c) ==
  CASE c = " " -> "WHITESPACE" [] c = "eol" -> "EOL" [] c = "#" -> "COMMENT"
    [] c = ":" -> "COLON" [] c = "-" -> "HYPHEN" [] OTHER -> "CHAR"

Classes == {"CHAR", "COLON", "COMMENT", "EOL", "HYPHEN", "WHITESPACE"}

On(char, colon, comment, hyphen, eol, space) ==
  [CHAR |-> char, COLON |-> colon, COMMENT |-> comment,
   HYPHEN |-> hyphen, EOL |-> eol, WHITESPACE |-> space]

Text(next, eol) == [class \in Classes |-> IF class = "EOL" THEN eol ELSE next]

\* MV0 and MV1 are the states of a column and of a validation of a column.
ReaderStates ==
  {"NONE", "COMMENT", "MV0_COMMENT", "MV1_COMMENT", "BEFORE_KEY", "START_KEY", "KEY", "END_KEY",
   "BEFORE_VALUE", "START_VALUE", "VALUE", "END_VALUE",
   "BEFORE_MV0", "CONTINUE_MV0", "START_MV0", "MV0", "END_MV0",
   "BEFORE_MV1", "CONTINUE_MV1", "START_MV1", "MV1", "END_MV1"}

\* The states that the reader never comes to.
Unused == {"MV1_COMMENT", "CONTINUE_MV1"}

BetweenKeys(stay)   == On("START_KEY", "COMMENT", "COMMENT", "START_KEY", stay, stay)
\* Mutant: a blank line between two columns is passed over.
BetweenColumnsBlank ==
  On("START_KEY", "MV0_COMMENT", "MV0_COMMENT", "START_KEY", "BEFORE_MV0", "CONTINUE_MV0")

BetweenColumns ==
  On("START_KEY", "MV0_COMMENT", "MV0_COMMENT", "START_KEY", "BEFORE_KEY", "CONTINUE_MV0")
IndentedLine ==
  On("START_MV0", "MV0_COMMENT", "MV0_COMMENT", "BEFORE_MV1", "BEFORE_KEY", "CONTINUE_MV0")
AfterValue == BetweenKeys("BEFORE_KEY")

Table ==
  [ NONE         |-> BetweenKeys("NONE"),
    BEFORE_KEY   |-> BetweenKeys("BEFORE_KEY"),
    END_VALUE    |-> AfterValue,
    COMMENT      |-> Text("COMMENT", "BEFORE_KEY"),
    START_KEY    |-> Text("KEY", "END_KEY"),
    KEY          |-> [Text("KEY", "END_KEY") EXCEPT !.COLON = "END_KEY"],
    END_KEY      |-> [Text("START_VALUE", "BEFORE_MV0") EXCEPT !.WHITESPACE = "BEFORE_VALUE"],
    BEFORE_VALUE |-> [Text("START_VALUE", "BEFORE_MV0") EXCEPT !.WHITESPACE = "BEFORE_VALUE"],
    START_VALUE  |-> Text("VALUE", "END_VALUE"),
    VALUE        |-> Text("VALUE", "END_VALUE"),
    BEFORE_MV0   |-> BetweenColumns,
    END_MV0      |-> BetweenColumns,
    END_MV1      |-> BetweenColumns,
    MV0_COMMENT  |-> Text("MV0_COMMENT", "BEFORE_MV0"),
    CONTINUE_MV0 |-> IndentedLine,
    START_MV0    |-> Text("MV0", "END_MV0"),
    MV0          |-> Text("MV0", "END_MV0"),
    BEFORE_MV1   |-> [Text("START_MV1", "END_MV1") EXCEPT !.WHITESPACE = "BEFORE_MV1"],
    START_MV1    |-> Text("MV1", "END_MV1"),
    MV1          |-> Text("MV1", "END_MV1") ]

\* Every state that is come to has a next one for every class of character.
ASSUME TableIsTotal ==
  Table \in [ReaderStates \ Unused -> [Classes -> ReaderStates \ Unused]]

\* ltrim()
Ltrim(s) == SubSeq(s, 1 + Max({n \in 0..Len(s) : \A i \in 1..n : s[i] = " "}), Len(s))

Upper(s) == [i \in 1..Len(s) |-> Upcase[s[i]]]

Flag(v) == IF v \in NonZero THEN <<"1">> ELSE <<"0">>

\* What a setting stores: a flag, a byte given in hexadecimal, or the text.
Setting(k, v) ==
  IF k \in Flags THEN Flag(v)
  ELSE IF Len(v) = 1 /\ v[1] \in Hex THEN <<HexByte[v[1]]>> ELSE v

-----------------------------------------------------------------------------
(* The format that is filled in. *)

NewSettings == [k \in Settings |-> <<>>]

NewColumn(name) == [name |-> name, validations |-> <<>>]

AddColumn(name) == Append(columns, NewColumn(name))

\* add_validation() of the last column
AddValidation(text) ==
  [columns EXCEPT ![Len(columns)].validations = Append(@, text)]

-----------------------------------------------------------------------------
(* The loops of parse(). *)

\* The text of a document: what the usage text of the tools shows.
Rendering(l) ==
  CASE l.kind = "setting"    -> l.key \o <<":", " ">> \o l.text \o <<"eol">>
    [] l.kind = "list"       -> l.key \o <<":", "eol">>
    [] l.kind = "column"     -> <<" ">> \o l.text \o <<"eol">>
    [] l.kind = "validation" -> <<" ", "-", " ">> \o l.text \o <<"eol">>
    [] l.kind = "comment"    -> <<"#">> \o l.text \o <<"eol">>
    [] l.kind = "blank"      -> <<"eol">>

TextOf(d) == FlattenSeq([i \in 1..Len(d) |-> Rendering(d[i])])

FileInit ==
  /\ document \in Documents
  /\ file \in {TextOf(document), Front(TextOf(document))} /\ offset = 0
  /\ chunk = <<>> /\ atEnd = FALSE /\ prepend = <<>>
  /\ line = <<>> /\ lineOffset = 0 /\ linePosition = 0
  /\ fstate = "NONE" /\ key = <<>> /\ value = <<>>
  /\ settings = NewSettings
  /\ columns = <<>>
  /\ running = TRUE /\ crashed = FALSE

Least(m, n) == IF m < n THEN m ELSE n
Room        == IF Len(prepend) < ChunkSize THEN ChunkSize - Len(prepend) ELSE 0
BytesRead   == Least(Room, Len(file) - offset)
Data        == SubSeq(file, offset + 1, offset + BytesRead)

\* The chunk is behind the bytes of the line cut off by the last one; the read
\* lands on the last of them, and a byte the buffer still holds follows it.
ReadChunk ==
  /\ reading /\ line = <<>> /\ chunk = <<>> /\ ~atEnd
  /\ atEnd' = (BytesRead = 0)
  /\ offset' = offset + BytesRead
  /\ IF prepend = <<>> \/ BytesRead = 0
     THEN chunk' = prepend \o Data
     ELSE \E stale \in Character : chunk' = Front(prepend) \o Append(Data, stale)
  /\ UNCHANGED <<document, file, prepend, fstate, key, value, format, parsing>>

Ends == {i \in 1..Len(chunk) : chunk[i] = "eol"}
End  == IF Ends = {} THEN Len(chunk) ELSE Min(Ends)

\* each_line(): a whole line, or the last one of the file, is to be parsed.
NextLine ==
  /\ reading /\ line = <<>> /\ chunk # <<>>
  /\ Ends # {} \/ atEnd
  /\ line' = SubSeq(chunk, 1, End) \o (IF Ends = {} THEN <<"eol">> ELSE <<>>)
  /\ lineOffset' = 0 /\ linePosition' = 0
  /\ chunk' = SubSeq(chunk, End + 1, Len(chunk))
  /\ UNCHANGED <<document, file, offset, atEnd, prepend, fstate, key, value, format>>

\* Mutant: the bytes of a line that a read() cut off are forgotten.
KeepRestForgets ==
  /\ reading /\ line = <<>> /\ chunk # <<>>
  /\ Ends = {} /\ ~atEnd
  /\ chunk' = <<>>
  /\ UNCHANGED <<document, file, offset, atEnd, prepend, fstate, key, value, format, parsing>>

\* What is left of the chunk is no whole line.
KeepRest ==
  /\ reading /\ line = <<>> /\ chunk # <<>>
  /\ Ends = {} /\ ~atEnd
  /\ prepend' = prepend \o chunk
  /\ chunk' = <<>>
  /\ UNCHANGED <<document, file, offset, atEnd, fstate, key, value, format, parsing>>

\* parse_line(): one turn of its loop.
ParseCharacter ==
  /\ reading /\ lineOffset < Len(line)
  /\ LET next == Table[fstate][Class(line[lineOffset + 1])]
         word == Ltrim(SubSeq(line, linePosition + 1, lineOffset))
     IN  /\ fstate' = next
         /\ linePosition' = IF next \in {"START_KEY", "START_VALUE", "START_MV0", "START_MV1"}
                            THEN lineOffset ELSE linePosition
         /\ key' = IF next = "END_KEY" THEN word ELSE key
         /\ value' = IF next = "END_KEY" THEN <<>>
                     ELSE IF next \in {"END_VALUE", "END_MV0", "END_MV1"} THEN word
                     ELSE value
  /\ lineOffset' = lineOffset + 1
  /\ UNCHANGED <<document, file, offset, chunk, atEnd, prepend, line, format>>

\* set_key_value(), at the end of the line
SetKeyValue ==
  /\ reading /\ line # <<>> /\ lineOffset = Len(line)
  /\ LET name == Upper(key) IN
     /\ settings' = IF fstate = "END_VALUE" /\ name \in Settings
                    THEN [settings EXCEPT ![name] = Setting(name, value)]
                    ELSE settings
     /\ columns' =
          IF fstate = "END_MV0" /\ name = ColumnList
          THEN AddColumn(value)
          ELSE IF fstate = "END_MV1" /\ columns # <<>>
          THEN AddValidation(value)
          ELSE columns
  /\ crashed' = (fstate = "END_MV1" /\ columns = <<>>)
  /\ line' = <<>> /\ lineOffset' = 0 /\ linePosition' = 0
  /\ UNCHANGED <<document, file, offset, chunk, atEnd, prepend, fstate, key, value, running>>

\* Mutant: the loop goes on as long as there is something to prepend.
EndParseWaits ==
  /\ reading /\ line = <<>> /\ chunk = <<>> /\ atEnd
  /\ prepend = <<>>
  /\ running' = FALSE
  /\ UNCHANGED <<document, file, offset, chunk, atEnd, prepend, fstate, key, value,
                 settings, columns, crashed, parsing>>

EndParse ==
  /\ reading /\ line = <<>> /\ chunk = <<>> /\ atEnd
  /\ running' = FALSE
  /\ UNCHANGED <<document, file, offset, chunk, atEnd, prepend, fstate, key, value,
                 settings, columns, crashed, parsing>>

FileNext ==
  \/ ReadChunk \/ NextLine \/ KeepRest \/ ParseCharacter \/ SetKeyValue \/ EndParse

FileSpec == FileInit /\ [][FileNext]_fileVars /\ WF_fileVars(FileNext)
-----------------------------------------------------------------------------
(* What the usage text of the tools says a format file is.                 *)

\* A line of kind k is above line i, and only lines of the kinds between.
Under(d, i, k, between) ==
  \E j \in 1..(i - 1) : d[j].kind = k /\ \A m \in (j + 1)..(i - 1) : d[m].kind \in between

\* Columns are in a list that no blank line interrupts, validations at a column.
WellFormed(d) ==
  \A i \in 1..Len(d) :
    /\ d[i].kind = "list" => Upper(d[i].key) = ColumnList
    /\ d[i].kind = "column" => Under(d, i, "list", {"column", "validation", "comment"})
    /\ d[i].kind = "validation" => Under(d, i, "column", {"validation", "comment"})

SettingsOf(d) ==
  [k \in Settings |->
     LET lines == {i \in 1..Len(d) : d[i].kind = "setting" /\ Upper(d[i].key) = k}
     IN  IF lines = {} THEN <<>> ELSE Setting(k, d[Max(lines)].text)]

\* A column with the validations below it, up to the next column.
ColumnsOf(d) ==
  LET at   == SetToSortSeq({i \in 1..Len(d) : d[i].kind = "column"}, <)
      last(n) == IF n = Len(at) THEN Len(d) ELSE at[n + 1] - 1
      checks(n) == SelectSeq(SubSeq(d, at[n], last(n)), LAMBDA l : l.kind = "validation")
  IN  [n \in 1..Len(at) |->
         [name |-> d[at[n]].text,
          validations |-> [i \in 1..Len(checks(n)) |-> checks(n)[i].text]]]

Parsed == ~running \/ crashed

\* One list of columns which blank lines interrupt, behind any other lines.
InterruptedList(d) ==
  LET blank(i) == d[i].kind = "blank" /\ Under(d, i, "list", {"column", "validation", "comment"})
      behind(i) == \A j \in (i + 1)..Len(d) : d[j].kind \in {"column", "comment", "blank"}
  IN  \E i \in 1..Len(d) : blank(i) /\ behind(i) /\ WellFormed(SubSeq(d, 1, i))

\* The lines of d up to the blank line that ends the list.
UpToBlank(d) ==
  SubSeq(d, 1, Min({i \in 1..Len(d) :
    d[i].kind = "blank" /\ Under(d, i, "list", {"column", "validation", "comment"})}))

\* The format is what the lines of the file say, whatever comments are between
\* them, whatever blank lines but in a list of columns, and whether or not the
\* last one ends with an end of line, if one read() delivers the file; and the
\* program dies only on a validation with no column of a list above it (parse(),
\* parse_line() and set_key_value() together).
ReadsAShortFormat ==
  Parsed /\ Len(file) =< ChunkSize =>
    /\ WellFormed(document) =>
         ~crashed /\ settings = SettingsOf(document) /\ columns = ColumnsOf(document)
    /\ crashed => \E i \in 1..Len(document) :
         /\ document[i].kind = "validation"
         /\ ~ \E j \in 1..(i - 1) :
                document[j].kind = "column" /\ Under(document, j, "list", {"comment"})

\* A blank line ends a list of columns: the names behind it are read as keys
\* and their values, so the format has the columns above it and no more, and
\* nothing else in the file says so.
BlankLineEndsTheList ==
  Parsed /\ Len(file) =< ChunkSize /\ InterruptedList(document) =>
    /\ ~crashed
    /\ columns = ColumnsOf(UpToBlank(document)) /\ settings = SettingsOf(document)

\* parse() returns, however long a line is: with the bytes of an unfinished line
\* filling the chunk, read() is given no room and returns 0 (or the program has
\* died on a validation without a column).
ParseEnds == <>Parsed
=============================================================================
