-------------------------- MODULE ValidateContent --------------------------
(***************************************************************************)
(* The program tools/validate_content.c: the header goes to two files, the *)
(* output file and the bad file; each record of the right length goes to   *)
(* the first if it passes the validations of its columns, and otherwise to *)
(* the second with what it failed.                                         *)
(***************************************************************************)
EXTENDS RecordTool, Validations

CONSTANTS
  Formats,        \* for each column, its name and the texts of its validations
  Meaning,        \* what the author of a format means by such a text: the name
                  \* of a validation, and the values it permits
  Comma,          \* the byte between two errors
  BadHeader,      \* ERROR_MESSAGES
  Failed          \* the text between the name of a column and of a validation

ASSUME FormatAssumption ==
  \A f \in Formats :
    /\ Len(f) = Width
    /\ \A c \in 1..Width : f[c].validations \in Seq(DOMAIN Meaning)

VARIABLES
  format,
  bad,               \* the buffer of the bad file, and what was written from it
  errors,            \* record_errors: Len(errors) is record_error_count
  inputRecords, outputRecords, badRecords

counters    == <<inputRecords, outputRecords, badRecords>>
results     == <<output, bad, errors, counters>>
contentVars == <<vars, recordVars, format, results>>

-----------------------------------------------------------------------------

ContentInit ==
  /\ StartReading
  /\ delimiter = <<US>>
  /\ format \in Formats
  /\ bad = EmptyBuffer
  /\ errors = <<>>
  /\ inputRecords = 0 /\ outputRecords = 0 /\ badRecords = 0

\* Items, each behind a check for room, as write_output_buffer() and the three
\* functions like it put them.
PutEach(buffer, items) ==
  PutAll(buffer, [n \in 1..Len(items) |-> <<items[n], <<>> >>])

\* The fields with a separator between each two of them, as a list of items.
Between(items, separator) ==
  [k \in 1..(2 * Len(items) - 1) |->
     IF k % 2 = 1 THEN items[(k + 1) \div 2] ELSE separator]

Line(items, separator) == Append(Between(items, separator), <<LF>>)

Leading(items) == Append(Between(items, <<US>>), <<US>>)

Validation(column, k) == ParseArguments(format[column].validations[k])

\* validate_record(): which validations of a column fail
FailuresOf(column) ==
  {k \in DOMAIN format[column].validations :
     ~Dispatch(Validation(column, k), record'[column])}

\* append_record_errors(): the errors of a column, in the order of its validations
ErrorsOf(column) ==
  [n \in 1..Cardinality(FailuresOf(column)) |->
     format[column].name \o Failed \o Validation(column, Nth(FailuresOf(column), n)).name]

RecordErrors == errors \o FlattenSeq([column \in 1..Width |-> ErrorsOf(column)])

\* recordcb(), at the first record
WriteHeader ==
  /\ rows = <<>>
  /\ output' = PutEach(output, Line(record', <<US>>))
  /\ bad' = PutEach(bad, Leading(record') \o << BadHeader, <<LF>> >>)
  /\ UNCHANGED <<valid, errors, counters>>

\* recordcb(), at a record that passes
WriteGood ==
  /\ rows # <<>> /\ RecordErrors = <<>>
  /\ output' = PutEach(output, Line(record', <<US>>))
  /\ inputRecords' = inputRecords + 1
  /\ outputRecords' = outputRecords + 1
  /\ UNCHANGED <<valid, bad, errors, badRecords>>

\* Mutant: the flag is not lowered at a record that fails.
WriteBadStaysValid ==
  /\ rows # <<>> /\ RecordErrors # <<>> /\ phase' # "died"
  /\ bad' = PutEach(bad, Leading(record') \o Line(RecordErrors, Comma))
  /\ inputRecords' = inputRecords + 1
  /\ badRecords' = badRecords + 1
  /\ errors' = <<>>
  /\ UNCHANGED <<valid, output, outputRecords>>

\* Mutant: the errors of one record are still there at the next.
WriteBadKeepsErrors ==
  /\ rows # <<>> /\ RecordErrors # <<>> /\ phase' # "died"
  /\ bad' = PutEach(bad, Leading(record') \o Line(RecordErrors, Comma))
  /\ valid' = FALSE
  /\ inputRecords' = inputRecords + 1
  /\ badRecords' = badRecords + 1
  /\ errors' = RecordErrors
  /\ UNCHANGED <<output, outputRecords>>

\* recordcb(), at a record that fails
WriteBad ==
  /\ rows # <<>> /\ RecordErrors # <<>> /\ phase' # "died"
  /\ bad' = PutEach(bad, Leading(record') \o Line(RecordErrors, Comma))
  /\ valid' = FALSE
  /\ inputRecords' = inputRecords + 1
  /\ badRecords' = badRecords + 1
  /\ errors' = <<>>
  /\ UNCHANGED <<output, outputRecords>>

\* A record that fails a validation, or one of the wrong length, is complained about
\* before anything is written of it.
Complains == RecordReported /\ (WrongLength \/ (rows # <<>> /\ RecordErrors # <<>>))

DieOfError == phase' = "died" /\ UNCHANGED <<valid, results>>

ContentCallback ==
  \/ Complete /\ (WriteHeader \/ WriteGood \/ WriteBad)
  \/ ~Complete /\ UNCHANGED <<valid, results>>
  \/ DieOfError

ReadContent == (NextBlock \/ ReturnFromParse) /\ UNCHANGED <<format, results>>

ParseContent ==
  \E s \in BOOLEAN : ParserTurn(s, Complains) /\ ContentCallback /\ UNCHANGED format

FinishContent ==
  \E s \in BOOLEAN : FinishParser(s, Complains) /\ ContentCallback /\ UNCHANGED format

WriteBadFile == bad' = Write(bad)

\* The last writes, the summary, and the end of main().
WriteBoth ==
  /\ Exit
  /\ WriteOutputFile /\ WriteBadFile
  /\ UNCHANGED <<format, errors, counters>>

ContentNext == ReadContent \/ ParseContent \/ FinishContent \/ WriteBoth

ContentSpec == ContentInit /\ [][ContentNext]_contentVars /\ WF_contentVars(ContentNext)
-----------------------------------------------------------------------------
(* What the format says of a file without quotes and white space.          *)

\* The validations of a column that do not permit a value.
Forbids(column, value) ==
  {v \in DOMAIN format[column].validations :
     value \notin Meaning[format[column].validations[v]].permits}

\* The validations that a row fails, as <<column, number>>.
Failing(n) == UNION {{c} \X Forbids(c, Input[n][c]) : c \in 1..Width}

BodyRows == 2..RowsKept
BadRows  == {n \in BodyRows : Failing(n) # {}}
GoodRows == BodyRows \ BadRows

ErrorText(failure) ==
  LET column == format[failure[1]]
  IN  column.name \o Failed \o Meaning[column.validations[failure[2]]].name

\* A line of the bad file is the row and one field more, with each error once.
ReportsRow(line, n) ==
  LET found == Split(line[Width + 1], {Comma[1]})
  IN  /\ Len(line) = Width + 1
      /\ SubSeq(line, 1, Width) = Input[n]
      /\ Len(found) = Cardinality(Failing(n))
      /\ Range(found) = {ErrorText(failure) : failure \in Failing(n)}

GoodLines == Table(output.written, US, {LF})
BadLines  == Table(bad.written, US, {LF})

\* Both files begin with the header; behind it each row is in exactly one of
\* them, in the order of the input, and in the bad file with exactly the
\* validations it fails; up to the first row of the wrong length.
SortsTheRows ==
  Exited =>
    IF RowsKept = 0 THEN GoodLines = <<>> /\ BadLines = <<>>
    ELSE /\ GoodLines = <<Input[1]>>
              \o [k \in 1..Cardinality(GoodRows) |-> Input[Nth(GoodRows, k)]]
         /\ Len(BadLines) = 1 + Cardinality(BadRows)
         /\ BadLines[1] = Append(Input[1], BadHeader)
         /\ \A k \in 1..Cardinality(BadRows) : ReportsRow(BadLines[k + 1], Nth(BadRows, k))

\* The summary tells how many rows there are in each file and in the input.
CountsAreTrue ==
  Exited =>
    /\ inputRecords = Cardinality(BodyRows)
    /\ outputRecords = Cardinality(GoodRows)
    /\ badRecords = Cardinality(BadRows)

\* The exit code is right about the validations of the rows that were read; and the
\* program does not die over a file without a row that fails or is too long or short.
VerdictOnValidations ==
  /\ Exited => (valid <=> BadRows = {})
  /\ Died => BadRows # {} \/ RowsKept < Len(Input)

\* A file is accepted only if every row of it was validated.
AcceptsOnlyValidContent == Exited /\ valid => RightLength = 1..Len(Input)
=============================================================================
