----------------------------- MODULE TestEngine -----------------------------
(***************************************************************************)
(* run_test() of src/tests/test_engine.h: the same text is parsed by one   *)
(* fresh parser per chunk size, 1 to its length, and every parser has to   *)
(* report the same fields and records.  The events the first parser        *)
(* reports stand for the ones the author of a test wrote down.             *)
(***************************************************************************)
EXTENDS ParseDelimitedText

CONSTANT Texts
ASSUME TextsAssumption == \A t \in Texts : t \in Seq(Byte) /\ t # <<>>

VARIABLES
  data,
  size,       \* bytes in a chunk
  processed,  \* bytes_processed
  expected    \* what the parser of size 1 reported

engine     == <<data, size, expected>>
engineVars == <<vars, engine, processed>>

Report   == [rows |-> rows, row |-> row, passed |-> result.value = 0]
Finished == result.of = "finish"

-----------------------------------------------------------------------------

EngineInit ==
  /\ data \in Texts
  /\ size = 1 /\ processed = 0
  /\ expected = [rows |-> <<>>, row |-> <<>>, passed |-> TRUE]
  /\ options \in OptionSets
  /\ delimiter \in Delimiters /\ quote \in Quotes
  /\ NewParser

ParseChunk ==
  /\ processed < Len(data)
  /\ LET bytes == Smaller(size, Len(data) - processed)
     IN  /\ Parse(SubSeq(data, processed + 1, processed + bytes))
         /\ processed' = processed + bytes
  /\ UNCHANGED engine

\* The callbacks of a test that agrees never stop the parser.
RunLoop ==
  /\ Accept(FALSE) \/ StrictError \/ LeaveLoop
  /\ UNCHANGED <<engine, processed>>

FinishTest ==
  /\ processed = Len(data) /\ ~Finished
  /\ Finish(FALSE)
  /\ UNCHANGED <<engine, processed>>

\* The next turn of the loop over the sizes: free() and a new parser.
NextSize ==
  /\ Finished /\ size < Len(data)
  /\ size' = size + 1 /\ processed' = 0
  /\ expected' = IF size = 1 THEN Report ELSE expected
  /\ UNCHANGED <<data, config, chunk, call>>
  /\ input' = <<>> /\ position' = 0 /\ delimiterPos' = 0
  /\ characterClass' = "CHAR" /\ state' = "RECORD_NOT_BEGUN"
  /\ status' = "SUCCESS" /\ stop' = FALSE
  /\ field' = <<>> /\ trailingSpace' = <<>>
  /\ result' = [of |-> "none", value |-> 0]
  /\ row' = <<>> /\ rows' = <<>>

EngineNext == ParseChunk \/ RunLoop \/ FinishTest \/ NextSize

EngineSpec == EngineInit /\ [][EngineNext]_engineVars
-----------------------------------------------------------------------------

\* A text is accepted or refused, and if it is accepted the same fields and
\* records are reported, whatever the size of the chunks it arrives in.
SameEvents ==
  Finished /\ size > 1 =>
    /\ Report.passed = expected.passed
    /\ Report.passed => Report = expected

\* With a compound delimiter: a text of field bytes and delimiters that begins
\* with a field byte, so that no half matched delimiter is at the beginning of
\* a record, and a delimiter whose first byte does not come again in it.
BeginsInAField ==
  /\ data[1] # delimiter[1]
  /\ \A i \in 1..Len(data) : data[i] \notin WhiteSpace \cup Eol \cup {quote}
  /\ \A i \in 2..Len(delimiter) : delimiter[i] # delimiter[1]

\* So it is with every delimiter of one byte, and with longer ones in a text
\* that begins in a field.
SameEventsInAField == ~Compound \/ BeginsInAField => SameEvents
=============================================================================
