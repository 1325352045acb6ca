----------------------------- MODULE RecordTool -----------------------------
(***************************************************************************)
(* What the programs that write rows have in common (tools/standard_form.c,*)
(* add_constants.c and validate_content.c): a String per column for the    *)
(* record being read, which is used over and over, a count of its fields,  *)
(* the loop over the input file, a buffered output file, and a record      *)
(* callback that stops the parser at a record of the wrong length.  What   *)
(* that callback does with a record of the right length is up to each      *)
(* program.                                                                *)
(***************************************************************************)
EXTENDS FileReader

CONSTANTS
  BufferSize,    \* room in an output buffer
  Width,         \* columns of the format file
  US,            \* the byte 0x1f
  LF             \* the byte 0x0a

ASSUME RecordAssumption ==
  /\ BufferSize \in Nat \ {0} /\ Width \in Nat \ {0}
  /\ US \in Byte \ (WhiteSpace \cup Eol \cup {Nul}) /\ LF \in Eol

VARIABLES
  record,        \* the fields of the record being read
  fieldCount,    \* field_count
  valid,
  phase,         \* "reading" until finish() returns, "finished", "exited" or "died"
  output         \* the output buffer, and what was written from it

INSTANCE OutputBuffer WITH Bytes <- Byte

recordVars == <<contents, file, record, fieldCount, valid, phase>>

-----------------------------------------------------------------------------

\* main() up to its loop
StartReading ==
  /\ OpenInputFile
  /\ record = [n \in 1..Width |-> <<>>]
  /\ fieldCount = 0
  /\ valid = TRUE
  /\ phase = "reading"
  /\ output = EmptyBuffer
  /\ quote \in Quotes /\ options = {}
  /\ NewParser

\* Mutant: a value is appended to the one of the record before.
FieldAppends ==
  record' = [n \in 1..Width |->
               IF Reported # <<>> /\ n = fieldCount + 1
               THEN record[n] \o Reported[1] ELSE record[n]]

\* fieldcb(), but for its count
FieldCallback ==
  record' = [n \in 1..Width |->
               IF Reported # <<>> /\ n = fieldCount + 1
               THEN Reported[1] ELSE record[n]]

\* Mutant: a record that is too long is let through, cut off.
TooShort == fieldCount + 1 < Width

\* The record that ends in this step has the wrong number of fields.
WrongLength == fieldCount + 1 # Width

\* The record callback stops the parser at a record of the wrong length.
StopsAt(s) == s = (RecordReported /\ WrongLength)

\* recordcb() calls error() before it calls stop().
Outcome(complains, next) == IF complains THEN AfterError(next) ELSE {next}

\* field_count, which a record of the wrong length leaves as it is
NextCount ==
  IF RecordReported /\ ~WrongLength THEN 0 ELSE fieldCount + Len(Reported)

\* The record that is complete in this step and of the right length.
Complete == RecordReported /\ ~WrongLength

NextBlock ==
  /\ phase = "reading"
  /\ ReadBlock
  /\ UNCHANGED <<record, fieldCount, valid, phase>>

ReturnFromParse ==
  /\ phase = "reading"
  /\ LeaveLoop
  /\ UNCHANGED recordVars

\* One turn of the parser with its callbacks, which may complain with error().
ParserTurn(s, complains) ==
  /\ phase = "reading"
  /\ Accept(s)
  /\ FieldCallback
  /\ StopsAt(s)
  /\ fieldCount' = NextCount
  /\ phase' \in Outcome(complains, phase)
  /\ UNCHANGED <<contents, file>>

\* finish() with its callbacks
FinishParser(s, complains) ==
  /\ phase = "reading" /\ AllRead
  /\ Finish(s)
  /\ FieldCallback
  /\ StopsAt(s)
  /\ fieldCount' = NextCount
  /\ phase' \in Outcome(complains, "finished")
  /\ UNCHANGED <<contents, file>>

WriteOutputFile == output' = Write(output)

\* The end of main(), which writes what the buffers hold.
Exit ==
  /\ phase = "finished"
  /\ phase' = "exited"
  /\ UNCHANGED <<vars, contents, file, record, fieldCount, valid>>
-----------------------------------------------------------------------------
(* The input as a table, and what a reader of it expects of the tools.     *)

Exited == phase = "exited"
Died   == phase = "died"

Input == Table(contents, SimpleFS, Eol)

RightLength == {n \in 1..Len(Input) : Len(Input[n]) = Width}

\* The number of rows before the first one of the wrong length.
RowsKept ==
  CHOOSE n \in 0..Len(Input) :
    /\ 1..n \subseteq RightLength
    /\ n < Len(Input) => n + 1 \notin RightLength
=============================================================================
