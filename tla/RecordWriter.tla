---------------------------- MODULE RecordWriter ----------------------------
(***************************************************************************)
(* The programs standard_form and add_constants.  Both write each record   *)
(* of the right length with 0x1f between its fields and 0x0a behind it;    *)
(* add_constants reads fields that are delimited by 0x1f and puts a list   *)
(* of constants behind each record, their names behind the first one.      *)
(* With an empty list its record callback is the one of standard_form.     *)
(***************************************************************************)
EXTENDS RecordTool

CONSTANTS
  ConstantLists,   \* lists of constants, the empty one for standard_form
  OldFiles         \* contents the output file may have before

ASSUME ConstantsAssumption ==
  /\ \A list \in ConstantLists :
       list \in Seq([key : Seq(Byte), value : Seq(Byte)])
  /\ \A f \in OldFiles : f \in Seq(Byte)

VARIABLES
  constants,       \* what parse_constants() makes of the command line
  old              \* the output file as open() finds it

writerVars == <<vars, recordVars, constants, old, output>>

-----------------------------------------------------------------------------

WriterInit ==
  /\ StartReading
  /\ constants \in ConstantLists
  /\ IF constants = <<>> THEN delimiter \in Delimiters ELSE delimiter = <<US>>
  /\ old \in OldFiles

\* What goes behind the fields of the record: record_count is still the number
\* of records before it.
ConstantItems ==
  [n \in 1..Len(constants) |->
     IF rows = <<>> THEN constants[n].key ELSE constants[n].value]

Items == record' \o ConstantItems

\* What follows the n-th item, without a look for room of its own.
Behind(n) == IF n < Len(Items) THEN <<US>> ELSE <<LF>>

\* recordcb(), for a record of the right length
WriteRecord == PutAll(output, [n \in 1..Len(Items) |-> <<Items[n], Behind(n)>>])

RecordCallback(s) ==
  /\ valid' = (valid /\ ~s)
  /\ output' = IF Complete THEN WriteRecord ELSE output
  /\ UNCHANGED <<constants, old>>

ReadNext == (NextBlock \/ ReturnFromParse) /\ UNCHANGED <<constants, old, output>>

ParseNext  == \E s \in BOOLEAN : ParserTurn(s, s) /\ RecordCallback(s)
FinishNext == \E s \in BOOLEAN : FinishParser(s, s) /\ RecordCallback(s)

\* The last write, before the files are closed and main() returns.
WriteRest == Exit /\ WriteOutputFile /\ UNCHANGED <<constants, old>>

WriterNext == ReadNext \/ ParseNext \/ FinishNext \/ WriteRest

WriterSpec == WriterInit /\ [][WriterNext]_writerVars /\ WF_writerVars(WriterNext)
-----------------------------------------------------------------------------

\* The output file: open() does not truncate it, so that what was written lies
\* over the beginning of what it held before.
OutputFile ==
  output.written \o SubSeq(old, Len(output.written) + 1, Len(old))

\* A row with the constants behind its fields.
Extended(n) ==
  Input[n] \o [k \in 1..Len(constants) |->
                 IF n = 1 THEN constants[k].key ELSE constants[k].value]

\* For input without quotes and white space: what the programs leave behind,
\* read as a table with 0x1f and 0x0a, is the input read as a table with its own
\* delimiter, each row with the constants, up to the first row of the wrong
\* length; if the file did not hold more than that before.
WritesTheRows ==
  Exited /\ Len(old) =< Len(output.written) =>
    Table(OutputFile, US, {LF}) = [n \in 1..RowsKept |-> Extended(n)]

\* The exit code is right: success says that the whole input was read and that
\* every row has the right length, failure that one has not; and the program does
\* not die over an input all rows of which have the right length.
VerdictIsRight ==
  LET allRight == RightLength = 1..Len(Input)
  IN  /\ Exited => (valid <=> allRight)
      /\ Died => ~allRight

\* A buffer for items that are short enough never has to grow: what the check
\* leaves free is enough for all that follows without a check.
BufferKeepsItsSize ==
  LET Short(item) == Len(item) + 2 < BufferSize
  IN  /\ \A n \in 1..Len(rows) : \A k \in 1..Len(rows[n].fields) :
           Short(rows[n].fields[k])
      /\ \A n \in 1..Len(constants) :
           Short(constants[n].key) /\ Short(constants[n].value)
      => output.size = BufferSize
=============================================================================
