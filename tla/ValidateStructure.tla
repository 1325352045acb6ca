-------------------------- MODULE ValidateStructure --------------------------
(***************************************************************************)
(* The program tools/validate_structure.c around one parser: it reads the  *)
(* file block by block, takes the first record for the header, stops the   *)
(* parser there, compares the header with the format, and goes on with     *)
(* other callbacks that count the fields of the records that follow.       *)
(***************************************************************************)
EXTENDS FileReader

CONSTANTS
  Columns,      \* the column names of the format file
  AllowFewer,   \* its line `Allow Fewer Columns'
  Upcase        \* upcase() of a byte

ASSUME ToolAssumption ==
  /\ Columns \in Seq(Seq(Byte)) /\ Columns # <<>>
  /\ AllowFewer \in BOOLEAN
  /\ Upcase \in [Byte -> Byte]

VARIABLES
  phase,
  headerFields,  \* header_fields
  fieldCount,    \* field_count
  valid

program  == <<contents, file, phase, headerFields, fieldCount, valid>>
toolVars == <<vars, program>>

-----------------------------------------------------------------------------

ToolInit ==
  /\ OpenInputFile
  /\ phase = "header"
  /\ headerFields = <<>> /\ fieldCount = 0 /\ valid = TRUE
  /\ delimiter \in Delimiters /\ quote \in Quotes /\ options = {}
  /\ NewParser

\* One turn of either loop over the file.
NextBlock ==
  /\ phase \in {"header", "body"}
  /\ ReadBlock
  /\ UNCHANGED <<phase, headerFields, fieldCount, valid>>

\* header_field() and header_record()
HeaderCallbacks(s) ==
  /\ phase = "header"
  /\ s = RecordReported
  /\ headerFields' = headerFields \o Reported
  /\ UNCHANGED <<contents, file, fieldCount, valid>>

\* Mutant: the field reported with the end of the record is not counted.
WrongCountShort == Len(rows) > 0 /\ fieldCount # Len(Columns)

WrongCount == Len(rows) > 0 /\ fieldCount + 1 # Len(Columns)

\* Mutant: the record callback does not set the count back.
BodyCallbacksKeepCount(s) ==
  /\ phase = "body"
  /\ s = (RecordReported /\ WrongCount)
  /\ valid' = (valid /\ ~s)
  /\ fieldCount' = fieldCount + Len(Reported)
  /\ UNCHANGED <<contents, file, headerFields>>

\* field() and record()
BodyCallbacks(s) ==
  /\ phase = "body"
  /\ s = (RecordReported /\ WrongCount)
  /\ valid' = (valid /\ ~s)
  /\ fieldCount' = IF RecordReported THEN 0 ELSE fieldCount + Len(Reported)
  /\ UNCHANGED <<contents, file, headerFields>>

Callbacks(s) == HeaderCallbacks(s) \/ BodyCallbacks(s)

\* record() calls error() before it calls stop().
Outcome(s, next) == IF phase = "body" /\ s THEN AfterError(next) ELSE {next}

ParserTurn ==
  \/ \E s \in BOOLEAN : Accept(s) /\ Callbacks(s) /\ phase' \in Outcome(s, phase)
  \/ /\ phase \in {"header", "body"}
     /\ LeaveLoop
     /\ UNCHANGED program

FinishHeader ==
  /\ phase = "header" /\ AllRead
  /\ \E s \in BOOLEAN : Finish(s) /\ HeaderCallbacks(s)
  /\ phase' = "check"

Same(name, other) ==
  /\ Len(name) = Len(other)
  /\ \A i \in 1..Len(name) : Upcase[name[i]] = Upcase[other[i]]

HeaderMatches ==
  /\ Len(headerFields) = Len(Columns)
  /\ \A i \in 1..Len(Columns) : Same(Columns[i], headerFields[i])

\* validate_header(), and main() on to the body or out
CheckHeader ==
  /\ phase = "check"
  /\ valid' = HeaderMatches
  /\ IF HeaderMatches
     THEN phase' = "body" /\ stop' = FALSE
     ELSE phase' \in AfterError("exited") /\ UNCHANGED stop
  /\ UNCHANGED <<contents, file, headerFields, fieldCount, config, text,
                 delimiterPos, characterClass, state, status, field,
                 trailingSpace, row, rows>>

FinishBody ==
  /\ phase = "body" /\ AllRead
  /\ \E s \in BOOLEAN :
       Finish(s) /\ BodyCallbacks(s) /\ phase' \in Outcome(s, "exited")

ToolNext ==
  \/ NextBlock \/ ParserTurn \/ FinishHeader \/ CheckHeader \/ FinishBody

ToolSpec == ToolInit /\ [][ToolNext]_toolVars /\ WF_toolVars(ToolNext)
-----------------------------------------------------------------------------
(* What the usage text says of a file without quotes and white space.      *)

Input == Table(contents, SimpleFS, Eol)

\* Header names and positions, and the number of fields in each row.
FileIsValid ==
  /\ Input # <<>>
  /\ Len(Input[1]) = Len(Columns)
  /\ \A n \in 1..Len(Columns) : Same(Columns[n], Input[1][n])
  /\ \A r \in 2..Len(Input) :
       \/ Len(Input[r]) = Len(Columns)
       \/ AllowFewer /\ Len(Input[r]) < Len(Columns)

Exited == phase = "exited"
Died   == phase = "died"

\* A file that was parsed to its end is accepted only if it is valid.
AcceptsOnlyValidIfParsed ==
  Exited /\ valid /\ position = Len(input) => FileIsValid

\* A valid file is not rejected, nor does the program die over it: only what is
\* found wrong with a file leads to the unended format of error().
RejectsOnlyInvalid == (Exited /\ ~valid) \/ Died => ~FileIsValid

\* Every run of the program comes to an end.
ProgramExits == <>(Exited \/ Died)
=============================================================================
