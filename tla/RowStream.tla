------------------------------ MODULE RowStream ------------------------------
(***************************************************************************)
(* What the parser promises for a delimiter of one byte, without a word of *)
(* chunks, lookahead or parse states: the text is a stream of bytes; a     *)
(* separator or an end of line outside quotes ends the raw field; what is  *)
(* reported of a raw field is a function of its bytes, Value.              *)
(***************************************************************************)
EXTENDS RawField

CONSTANTS Byte, WhiteSpace, Eol, Nul, NoQuote

VARIABLES
  separator, quote, options,
  raw,      \* the bytes since the last separator or end of line
  row,      \* values reported for this row
  rows      \* rows reported

vars == <<separator, quote, options, raw, row, rows>>

\* A byte of white space that separates is a separator, and so on.
Spaces == WhiteSpace \ {separator}
Marks  == {quote} \ (WhiteSpace \cup {separator})
Ends   == Eol \ {separator, quote}

Content  == Body(raw, Spaces)
IsQuoted == Quoted(raw, Spaces, Marks)
IsOpen   == Open(raw, Spaces, Marks)
Reported == Value(raw, Spaces, Marks)

\* There is no row to end: no field before, and nothing but white space.
Void == row = <<>> /\ Content = <<>>

-----------------------------------------------------------------------------

\* In strict mode a quote may only open, close or be doubled.
Refused(b) ==
  /\ "STRICT" \in options
  /\ \/ ~IsQuoted /\ Content # <<>> /\ b \in Marks
     \/ IsQuoted /\ ~IsOpen /\ b \notin Marks

Extend(b) ==
  /\ IsOpen \/ (b # separator /\ b \notin Ends)
  /\ ~Refused(b)
  /\ raw' = Append(raw, b)
  /\ UNCHANGED <<separator, quote, options, row, rows>>

Separate ==
  /\ ~IsOpen
  /\ row' = Append(row, Reported)
  /\ raw' = <<>>
  /\ UNCHANGED <<separator, quote, options, rows>>

EndRow(eol) ==
  /\ ~IsOpen \/ eol = Nul
  /\ ~Void
  /\ rows' = Append(rows, [fields |-> Append(row, Reported), eol |-> eol])
  /\ row' = <<>>
  /\ raw' = <<>>
  /\ UNCHANGED <<separator, quote, options>>

EmptyRow(eol) ==
  /\ Void
  /\ IF "REPALL_NL" \in options /\ eol # Nul
     THEN rows' = Append(rows, [fields |-> << <<eol>> >>, eol |-> eol])
     ELSE UNCHANGED rows
  /\ raw' = <<>>
  /\ UNCHANGED <<separator, quote, options, row>>

\* Another format may be chosen between two fields.
Reformat ==
  /\ raw = <<>>
  /\ separator' \in Byte /\ quote' \in Byte \cup {NoQuote}
  /\ UNCHANGED <<options, raw, row, rows>>

Init == raw = <<>> /\ row = <<>> /\ rows = <<>>

Next ==
  \/ \E b \in Byte : Extend(b)
  \/ Separate
  \/ \E eol \in Ends \cup {Nul} : EndRow(eol) \/ EmptyRow(eol)
  \/ Reformat

Spec == Init /\ [][Next]_vars
=============================================================================
