----------------------------- MODULE FileReader -----------------------------
(***************************************************************************)
(* What the programs in tools/ have in common: one parser, fed with a file *)
(* that is read block by block until it ends or a callback calls stop().   *)
(***************************************************************************)
EXTENDS ParseDelimitedText, Tables, SequencesExt

CONSTANTS
  Files,        \* contents an input file may have
  BlockSize     \* PDT_BLK_SIZE

ASSUME FileAssumption ==
  /\ \A f \in Files : f \in Seq(Byte)
  /\ BlockSize \in Nat \ {0}

VARIABLES
  contents,      \* the input file
  file           \* the part of it that is not yet read

-----------------------------------------------------------------------------

OpenInputFile == contents \in Files /\ file = contents

\* One turn of the loop over the file.
ReadBlock ==
  /\ call = "idle" /\ ~stop
  /\ file # <<>>
  /\ LET n == Smaller(BlockSize, Len(file))
     IN  /\ Parse(SubSeq(file, 1, n))
         /\ file' = SubSeq(file, n + 1, Len(file))
  /\ UNCHANGED contents

\* Mutant: the loop ends with the file and does not look at the flag.
AllReadAtEnd == call = "idle" /\ file = <<>>

AllRead == call = "idle" /\ (stop \/ file = <<>>)

\* What becomes of the program in error(), next or the end: the format it makes for
\* vfprintf() has no byte at its end, and what lies behind it in memory may hold
\* conversions for which there are no arguments.
AfterError(next) == {next, "died"}

\* The field callback and the record callback the parser fires in this step.
Reported ==
  IF rows' # rows THEN <<Last(Last(rows').fields)>>
  ELSE IF row' # row THEN <<Last(row')>> ELSE <<>>

RecordReported == rows' # rows
=============================================================================
