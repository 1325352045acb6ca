------------------------- MODULE ParseDelimitedText -------------------------
(***************************************************************************)
(* The incremental parser of libpdt (src/class_ParseDelimitedText_i.c).    *)
(*                                                                         *)
(* A caller hands the parser one chunk of text after the other with        *)
(* parse() and ends the text with finish(); the parser calls back with     *)
(* every field and every record.  One action stands for one iteration of   *)
(* the loop of _ParseDelimitedText_parse(), for the way out of that loop,  *)
(* or for a public method.  The parameter `s' of an action that fires a    *)
(* callback says whether a callback calls the method stop(); where a row   *)
(* ends these are two, and the record is reported whichever of them does:  *)
(* the module Callbacks takes the two apart.                               *)
(***************************************************************************)
EXTENDS Integers, Sequences

CONSTANTS
  Byte,          \* the values of a char that the texts are made of
  WhiteSpace,    \* CHAR_SPACE, CHAR_TAB and CHAR_VTAB
  Eol,           \* CHAR_CR and CHAR_LF
  Nul,           \* the byte that ends a C string
  NoQuote,       \* null_String in the place of the quote
  Delimiters,    \* the delimiters a caller may set
  Quotes,        \* the quotes a caller may set: only their first byte is
                 \* read, and that of one without any byte is Nul
  OptionSets,    \* the option words a caller may create a parser with
  Chunks,        \* the chunks of text a caller may hand to parse()
  Lookahead      \* bytes of input the parser looks at in one iteration: 9

ASSUME ByteAssumption ==
  /\ WhiteSpace \subseteq Byte
  /\ Eol \subseteq Byte
  /\ WhiteSpace \cap Eol = {}
  /\ Nul \in Byte \ (WhiteSpace \cup Eol)
  /\ NoQuote \notin Byte

ASSUME CallerAssumption ==
  /\ \A d \in Delimiters : d \in Seq(Byte)
  /\ Quotes \subseteq Byte \cup {NoQuote}
  /\ OptionSets \subseteq SUBSET {"STRICT", "REPALL_NL", "STRICT_FINI"}
  /\ \A c \in Chunks : c \in Seq(Byte)
  /\ Lookahead \in Nat \ {0}

VARIABLES
  input,          \* the chunk being parsed
  position,       \* input->position: bytes of it already consumed
  delimiter,
  delimiterPos,   \* delimiter->position: bytes of the delimiter matched so far
  quote,
  options,
  characterClass,
  state,
  status,
  stop,
  field,          \* the bytes of the current field
  trailingSpace,  \* white space that belongs to the field if more follows
  call,           \* where parse() is: its first loop, its second loop, or out
  chunk,          \* the argument of a parse() that is still in its first loop
  result,         \* the last call that returned and its value
  row,            \* fields reported since the last record was
  rows            \* records reported: Len(rows) is record_count

config == <<delimiter, quote, options>>
text   == <<input, position, chunk, call, result>>
vars   == <<config, text, delimiterPos, characterClass, state, status, stop,
            field, trailingSpace, row, rows>>

NotBegun == {"RECORD_NOT_BEGUN", "FIELD_NOT_BEGUN"}
States   == NotBegun \cup {"FIELD", "QUOTED_FIELD", "POSSIBLE_QUOTED_END"}
Classes  == {"CHAR", "FS", "PARTIAL_FS", "WHITE_SPACE", "QUOTE", "EOL"}
Calls    == {"idle", "draining", "parsing"}

-----------------------------------------------------------------------------
(* The character under the cursor. *)

Smaller(m, n) == IF m < n THEN m ELSE n

Byte1      == input[position + 1]
Ahead      == SubSeq(input, position + 1, Smaller(position + Lookahead, Len(input)))
Compound   == Len(delimiter) > 1
SimpleFS   == IF delimiter = <<>> THEN Nul ELSE delimiter[1]

\* delimiter_amt
Amount     == Smaller(Len(Ahead), Len(delimiter) - delimiterPos)

\* The input continues a delimiter of which `from' bytes have been matched.
Continues(from) ==
  SubSeq(Ahead, 1, Amount) = SubSeq(delimiter, from + 1, from + Amount)

\* A delimiter that had begun does not continue: its bytes were field data.
Broken  == Compound /\ ~Continues(delimiterPos) /\ characterClass = "PARTIAL_FS"
\* Mutant: the bytes of a broken delimiter are dropped.
SpillNothing == <<>>

Spill   == IF Broken THEN SubSeq(delimiter, 1, delimiterPos) ELSE <<>>
\* Mutant: delimiter->position is not set back when the match breaks off.
MatchedIsKept == delimiterPos

Matched == IF Broken THEN 0 ELSE delimiterPos

InDelimiter == Compound /\ (Continues(delimiterPos) \/ (Broken /\ Continues(0)))

PlainClass(b) ==
  IF b \in WhiteSpace THEN "WHITE_SPACE"
  ELSE IF b = quote THEN "QUOTE"
  ELSE IF b \in Eol THEN "EOL" ELSE "CHAR"

Class ==
  IF InDelimiter
  THEN IF Matched + Amount = Len(delimiter) THEN "FS" ELSE "PARTIAL_FS"
  ELSE IF ~Compound /\ Byte1 = SimpleFS THEN "FS" ELSE PlainClass(Byte1)

\* Mutant: the first byte of a delimiter is not stepped over.
NextPositionBehind == position + (IF InDelimiter THEN Amount - 1 ELSE 1)

\* Mutant: delimiter->position is not set back when the delimiter is complete.
NextDelimiterPosIsKept == IF ~InDelimiter THEN Matched ELSE Matched + Amount

\* input->position and delimiter->position once the character is identified.
NextPosition     == position + (IF InDelimiter THEN Amount ELSE 1)
NextDelimiterPos ==
  IF ~InDelimiter THEN Matched
  ELSE IF Class = "FS" THEN 0 ELSE Matched + Amount

\* The first byte of the quote, if it has one.
QuoteText == IF quote = NoQuote THEN <<>> ELSE <<quote>>

\* The field with the bytes a broken delimiter gives back to it.
Text == field \o Spill

-----------------------------------------------------------------------------
(* The callbacks. *)

\* reset_state()
ClearField == field' = <<>> /\ trailingSpace' = <<>>

\* fire_field_callback()
FireField(value, s) ==
  /\ row' = Append(row, value)
  /\ state' = "FIELD_NOT_BEGUN"
  /\ stop' = s
  /\ ClearField
  /\ UNCHANGED rows

\* fire_field_callback() and then fire_record_callback(), which is called even
\* if the first one stopped the parser: s if either of them did
FireRecord(value, eol, s) ==
  /\ rows' = Append(rows, [fields |-> Append(row, value), eol |-> eol])
  /\ row' = <<>>
  /\ state' = "RECORD_NOT_BEGUN"
  /\ stop' = s
  /\ ClearField

Quiet == UNCHANGED <<row, rows, stop>>

-----------------------------------------------------------------------------
(* One iteration of the loop. *)

\* Mutant: the loop does not look at stop.
InLoopDespiteStop == call # "idle" /\ position < Len(input)

InLoop == call # "idle" /\ ~stop /\ position < Len(input)

IdentifyCharacter ==
  /\ InLoop
  /\ characterClass' = Class
  /\ delimiterPos' = NextDelimiterPos
  /\ UNCHANGED config

Advance ==
  /\ IdentifyCharacter
  /\ position' = NextPosition
  /\ UNCHANGED <<input, chunk, call, result, status>>

Keep(bytes, next) == field' = bytes /\ trailingSpace' = <<>> /\ state' = next

PassOver ==
  /\ \/ Class = "PARTIAL_FS"
     \/ Class = "WHITE_SPACE" /\ state \in NotBegun
     \/ /\ Class = "EOL"
        /\ state = "RECORD_NOT_BEGUN"
        /\ "REPALL_NL" \notin options
  /\ Advance
  /\ field' = Text
  /\ UNCHANGED <<trailingSpace, state>>
  /\ Quiet

ReportEmptyRow(s) ==
  /\ state = "RECORD_NOT_BEGUN"
  /\ "REPALL_NL" \in options
  /\ Class = "EOL"
  /\ Advance
  /\ FireRecord(Append(Text, Byte1), Byte1, s)

EndField(s) ==
  /\ state # "QUOTED_FIELD"
  /\ Class = "FS"
  /\ Advance
  /\ FireField(Text, s)

EndRecord(s) ==
  /\ state \notin {"RECORD_NOT_BEGUN", "QUOTED_FIELD"}
  /\ Class = "EOL"
  /\ Advance
  /\ FireRecord(Text, Byte1, s)

OpenQuote ==
  /\ state \in NotBegun
  /\ Class = "QUOTE"
  /\ Advance
  /\ state' = "QUOTED_FIELD"
  /\ field' = Text
  /\ UNCHANGED trailingSpace
  /\ Quiet

FieldByte ==
  /\ \/ Class = "CHAR" /\ state \in NotBegun \cup {"FIELD"}
     \/ Class = "QUOTE" /\ state = "FIELD" /\ "STRICT" \notin options
  /\ Advance
  /\ Keep(Append(Text \o trailingSpace, Byte1), "FIELD")
  /\ Quiet

FieldSpace ==
  /\ state = "FIELD"
  /\ Class = "WHITE_SPACE"
  /\ Advance
  /\ trailingSpace' = Append(trailingSpace, Byte1)
  /\ field' = Text
  /\ UNCHANGED state
  /\ Quiet

QuotedByte ==
  /\ state = "QUOTED_FIELD"
  /\ Class \in {"FS", "EOL", "WHITE_SPACE", "CHAR"}
  /\ Advance
  /\ Keep(Append(Text \o trailingSpace, Byte1), "QUOTED_FIELD")
  /\ Quiet

QuoteInQuoted ==
  /\ state = "QUOTED_FIELD"
  /\ Class = "QUOTE"
  /\ Advance
  /\ state' = "POSSIBLE_QUOTED_END"
  /\ field' = Text
  /\ UNCHANGED trailingSpace
  /\ Quiet

DoubledQuote ==
  /\ state = "POSSIBLE_QUOTED_END"
  /\ Class = "QUOTE"
  /\ Advance
  /\ Keep(Append(Text \o trailingSpace, Byte1), "QUOTED_FIELD")
  /\ Quiet

\* Mutant: the quote that turns out to be data is forgotten.
StrayQuoteDropped ==
  /\ state = "POSSIBLE_QUOTED_END"
  /\ "STRICT" \notin options
  /\ Class \in {"WHITE_SPACE", "CHAR"}
  /\ Advance
  /\ Keep(Append(Text \o trailingSpace, Byte1), "QUOTED_FIELD")
  /\ Quiet

StrayQuote ==
  /\ state = "POSSIBLE_QUOTED_END"
  /\ "STRICT" \notin options
  /\ Class \in {"WHITE_SPACE", "CHAR"}
  /\ Advance
  /\ Keep(Append(Text \o QuoteText \o trailingSpace, Byte1), "QUOTED_FIELD")
  /\ Quiet

-----------------------------------------------------------------------------
(* The way out of the loop: of the first one into the second, which parses *)
(* the chunk the call was given, of the second one to the caller.          *)

Leave(value, at) ==
  \/ /\ call = "draining"
     /\ input' = chunk /\ position' = 0
     /\ call' = "parsing"
     /\ chunk' = <<>>
     /\ UNCHANGED result
  \/ /\ call = "parsing"
     /\ position' = at
     /\ call' = "idle"
     /\ result' = [of |-> "parse", value |-> value]
     /\ UNCHANGED <<input, chunk>>

\* Mutant: an error returns the position after the offending byte.
StrictErrorPastByte ==
  /\ IdentifyCharacter
  /\ \/ Class = "QUOTE" /\ state = "FIELD"
     \/ Class \in {"WHITE_SPACE", "CHAR"} /\ state = "POSSIBLE_QUOTED_END"
  /\ "STRICT" \in options
  /\ status' = "EPARSE"
  /\ Leave(NextPosition, NextPosition)
  /\ field' = Text
  /\ UNCHANGED <<trailingSpace, state>>
  /\ Quiet

StrictError ==
  /\ IdentifyCharacter
  /\ \/ Class = "QUOTE" /\ state = "FIELD"
     \/ Class \in {"WHITE_SPACE", "CHAR"} /\ state = "POSSIBLE_QUOTED_END"
  /\ "STRICT" \in options
  /\ status' = "EPARSE"
  /\ Leave(NextPosition - 1, NextPosition)
  /\ field' = Text
  /\ UNCHANGED <<trailingSpace, state>>
  /\ Quiet

\* Mutant: the loop runs while position =< length.
LeaveLoopLate ==
  /\ call # "idle"
  /\ stop \/ position > Len(input)
  /\ Leave(IF status = "SUCCESS" THEN position ELSE -1, position)
  /\ UNCHANGED <<config, delimiterPos, characterClass, state, status, stop,
                 field, trailingSpace, row, rows>>

LeaveLoop ==
  /\ call # "idle"
  /\ stop \/ position = Len(input)
  /\ Leave(IF status = "SUCCESS" THEN position ELSE -1, position)
  /\ UNCHANGED <<config, delimiterPos, characterClass, state, status, stop,
                 field, trailingSpace, row, rows>>

-----------------------------------------------------------------------------
(* The public methods. *)

\* Mutant: the new chunk replaces what was left of the last one.
ParseWithoutDrain(c) ==
  /\ call = "idle"
  /\ stop' = FALSE
  /\ call' = "parsing"
  /\ input' = c /\ position' = 0
  /\ UNCHANGED <<config, chunk, result, delimiterPos, characterClass, state,
                 status, field, trailingSpace, row, rows>>

\* Mutant: a new chunk begins with an empty field.
ParseClearsField(c) ==
  /\ call = "idle"
  /\ stop' = FALSE
  /\ call' = "parsing"
  /\ input' = c /\ position' = 0
  /\ ClearField
  /\ UNCHANGED <<config, chunk, result, delimiterPos, characterClass, state,
                 status, row, rows>>

Parse(c) ==
  /\ call = "idle"
  /\ stop' = FALSE
  /\ IF position < Len(input)
     THEN /\ call' = "draining"
          /\ chunk' = c
          /\ UNCHANGED <<input, position>>
     ELSE /\ call' = "parsing"
          /\ input' = c /\ position' = 0
          /\ UNCHANGED chunk
  /\ UNCHANGED <<config, result, delimiterPos, characterClass, state, status,
                 field, trailingSpace, row, rows>>

FinishReturns(value) ==
  /\ result' = [of |-> "finish", value |-> value]
  /\ UNCHANGED <<config, input, position, chunk, call, delimiterPos, characterClass>>

OpenQuoteError == state = "QUOTED_FIELD" /\ {"STRICT", "STRICT_FINI"} \subseteq options

FinishStopped ==
  /\ call = "idle"
  /\ stop
  /\ FinishReturns(0)
  /\ UNCHANGED <<state, status, stop, field, trailingSpace, row, rows>>

FinishFailed ==
  /\ call = "idle"
  /\ ~stop
  /\ status # "SUCCESS" \/ OpenQuoteError
  /\ status' = "EPARSE"
  /\ FinishReturns(-1)
  /\ UNCHANGED <<state, stop, field, trailingSpace, row, rows>>

\* A row that no end of line ended: its field callback and its record callback,
\* the second one even if the first stopped the parser: s if either did.
FinishRow(s) ==
  /\ call = "idle"
  /\ ~stop
  /\ status = "SUCCESS" /\ ~OpenQuoteError
  /\ state # "RECORD_NOT_BEGUN"
  /\ rows' = Append(rows, [fields |-> Append(row, field), eol |-> Nul])
  /\ row' = <<>>
  /\ stop' = s
  /\ state' = "FIELD_NOT_BEGUN"
  /\ ClearField
  /\ FinishReturns(0)
  /\ UNCHANGED status

FinishNothing ==
  /\ call = "idle"
  /\ ~stop
  /\ status = "SUCCESS"
  /\ state = "RECORD_NOT_BEGUN"
  /\ state' = "FIELD_NOT_BEGUN"
  /\ ClearField
  /\ FinishReturns(0)
  /\ UNCHANGED <<status, stop, row, rows>>

ResetState ==
  /\ call = "idle"
  /\ state' = "FIELD_NOT_BEGUN"
  /\ ClearField
  /\ UNCHANGED <<config, text, delimiterPos, characterClass, status, stop, row, rows>>

Stop ==
  /\ call = "idle"
  /\ stop' = TRUE
  /\ UNCHANGED <<config, text, delimiterPos, characterClass, state, status,
                 field, trailingSpace, row, rows>>

\* Mutant: the bytes matched of the old delimiter count for the new one.
SetDelimiterKeepsMatch(d) ==
  /\ call = "idle"
  /\ delimiter' = d
  /\ UNCHANGED <<quote, options, text, delimiterPos, characterClass, state,
                 status, stop, field, trailingSpace, row, rows>>

SetDelimiter(d) ==
  /\ call = "idle"
  /\ delimiter' = d
  /\ delimiterPos' = 0
  /\ UNCHANGED <<quote, options, text, characterClass, state, status, stop,
                 field, trailingSpace, row, rows>>

SetQuote(q) ==
  /\ call = "idle"
  /\ quote' = q
  /\ UNCHANGED <<delimiter, options, text, delimiterPos, characterClass, state,
                 status, stop, field, trailingSpace, row, rows>>

ApplyFormat(d, q) ==
  /\ call = "idle"
  /\ delimiter' = d /\ quote' = q
  /\ delimiterPos' = 0
  /\ UNCHANGED <<options, text, characterClass, state, status, stop,
                 field, trailingSpace, row, rows>>

-----------------------------------------------------------------------------

\* A parser as new_ParseDelimitedText() returns it, but for its settings.
NewParser ==
  /\ input = <<>> /\ position = 0 /\ chunk = <<>>
  /\ delimiterPos = 0
  /\ characterClass = "CHAR"
  /\ state = "RECORD_NOT_BEGUN"
  /\ status = "SUCCESS"
  /\ stop = FALSE
  /\ field = <<>> /\ trailingSpace = <<>>
  /\ call = "idle"
  /\ result = [of |-> "none", value |-> 0]
  /\ row = <<>> /\ rows = <<>>

Init ==
  /\ NewParser
  /\ delimiter = <<>>
  /\ quote = NoQuote
  /\ options \in OptionSets

Accept(s) ==
  /\ InLoop
  /\ \/ PassOver      \/ ReportEmptyRow(s) \/ EndField(s)
     \/ EndRecord(s)  \/ OpenQuote         \/ FieldByte
     \/ FieldSpace    \/ QuotedByte        \/ QuoteInQuoted
     \/ DoubledQuote  \/ StrayQuote

Loop == (\E s \in BOOLEAN : Accept(s)) \/ StrictError \/ LeaveLoop

Finish(s) == FinishStopped \/ FinishFailed \/ FinishRow(s) \/ FinishNothing

Configure ==
  \/ \E d \in Delimiters : SetDelimiter(d)
  \/ \E q \in Quotes : SetQuote(q)
  \/ \E d \in Delimiters, q \in Quotes : ApplyFormat(d, q)

Next ==
  \/ Loop
  \/ \E c \in Chunks : Parse(c)
  \/ \E s \in BOOLEAN : Finish(s)
  \/ ResetState
  \/ Stop
  \/ Configure

\* Nothing but parse() itself runs between two iterations of its loop.
Fairness == WF_vars(Loop)

Spec == Init /\ [][Next]_vars /\ Fairness

TypeOK ==
  /\ input \in Seq(Byte) /\ position \in 0..Len(input) /\ chunk \in Seq(Byte)
  /\ delimiter \in Seq(Byte) /\ delimiterPos \in 0..Len(delimiter)
  /\ quote \in Byte \cup {NoQuote}
  /\ options \in SUBSET {"STRICT", "REPALL_NL", "STRICT_FINI"}
  /\ characterClass \in Classes
  /\ state \in States
  /\ status \in {"SUCCESS", "EPARSE"}
  /\ stop \in BOOLEAN
  /\ field \in Seq(Byte) /\ trailingSpace \in Seq(Byte)
  /\ call \in Calls
  /\ result \in [of : {"none", "parse", "finish"}, value : Int]
  /\ row \in Seq(Seq(Byte))
  /\ rows \in Seq([fields : Seq(Seq(Byte)), eol : Byte])

\* White space is held back only behind the bytes of an unquoted field, so no
\* other state ever finds any to give back or to leak into the next field.
TrailingOnlyInField == trailingSpace # <<>> => state = "FIELD"

\* Outside a field nothing of an earlier field is left: each reported field
\* holds its own bytes only.
FreshFieldEmpty == state \in NotBegun => field = <<>>

\* While a delimiter is half matched the last character class says so, on
\* which the repair of a match that breaks off depends, in this chunk or in a
\* later one.
HalfMatchIsKnown ==
  delimiterPos > 0 => characterClass = "PARTIAL_FS" /\ delimiterPos < Len(delimiter)

\* Every turn of the loop consumes input, whatever delimiter is half matched:
\* what makes each call of parse() come to an end.
EachTurnAdvances == [][call # "idle" /\ call' = call => position' > position]_vars

\* Each call of parse() comes to an end.
ParseReturns == call # "idle" ~> call = "idle"
=============================================================================
