-------------------------- MODULE RecordToolProofs --------------------------
(***************************************************************************)
(* Theorems about standard_form and add_constants, for every file, every   *)
(* size of the blocks and of the output buffer, and every list of          *)
(* constants: the exit code is right, the buffer keeps its size, and what  *)
(* is written is the table that was read.  Behind them the theorems about  *)
(* validate_content, for every format: its counts and its exit code are    *)
(* right, and each row is in the file it belongs to, with its errors.      *)
(***************************************************************************)
EXTENDS RecordWriter, ValidateContent, FileReaderProofs

(* The verdict. *)

\* The parser between the opening of the file and finish(), which never has a rest
\* of a block before the next one.
FileReading ==
  /\ PlainReading
  /\ call # "draining"
  /\ call = "idle" /\ ~stop => position = Len(input)

AllRight == \A n \in 1..Len(Input) : Len(Input[n]) = Width

\* A program that was not stopped has seen only rows of the right length and counts
\* the fields of the next; one that was is at a row of the wrong length.
Verdict ==
  /\ phase \in {"reading", "finished", "exited", "died"}
  /\ valid \in BOOLEAN
  /\ phase = "reading" => FileReading /\ (stop <=> ~valid)
  /\ phase = "reading" /\ ~stop =>
       fieldCount = Len(row) /\ \A n \in 1..Len(Fields) : Len(Fields[n]) = Width
  /\ phase \in {"finished", "exited"} /\ valid => AllRight
  /\ ~valid => ~AllRight
  /\ phase = "died" => ~valid

\* The programs begin with it.
LEMMA VerdictInit == ASSUME PlainFiles, WriterInit PROVE Verdict
<1>1. /\ OpenInputFile /\ NewParser /\ options = {} /\ quote \in Quotes
      /\ fieldCount = 0 /\ valid = TRUE /\ phase = "reading"
      /\ delimiter \in Delimiters \cup {<<US>>}
  BY DEF WriterInit, StartReading
<1>2. delimiter \in Seq(Byte) /\ Len(delimiter) =< 1 /\ SimpleFS \notin Eol
  <2>1. CASE delimiter \in Delimiters
    BY <2>1, PlainDelimiter
  <2>2. CASE delimiter = <<US>>
    <3>1. US \in Byte /\ US \notin Eol
      BY RecordAssumption
    <3>2. delimiter \in Seq(Byte) /\ Len(delimiter) = 1 /\ delimiter[1] = US /\ delimiter # <<>>
      BY <2>2, <3>1
    <3> QED
      BY <3>1, <3>2 DEF SimpleFS
  <2> QED
    BY <1>1, <2>1, <2>2
<1>4. PlainReading /\ Fields = <<>>
  BY <1>1, <1>2, PlainStarts
<1>6. /\ call = "idle" /\ position = 0 /\ input = <<>> /\ ~stop /\ row = <<>>
  BY <1>1 DEF NewParser
<1>7. FileReading
  BY <1>4, <1>6 DEF FileReading
<1> QED
  BY <1>1, <1>4, <1>6, <1>7 DEF Verdict

\* The callbacks of a turn and of finish(): what the count and stop() become
\* with an event.
LEMMA CallbackCounts ==
  ASSUME TypeOK, NEW s \in BOOLEAN, NEW v \in Seq(Byte), StopsAt(s), fieldCount' = NextCount,
         fieldCount = Len(row)
  PROVE  /\ RowEvent(v, s) =>
              /\ s <=> Len(Append(row, v)) # Width
              /\ ~s => fieldCount' = Len(row')
         /\ FieldEvent(v, s) => ~s /\ fieldCount' = Len(row')
         /\ NoEvent => ~s /\ fieldCount' = Len(row')
<1>1. row \in Seq(Seq(Byte)) /\ v \in Seq(Byte) /\ Len(row) \in Nat
  BY DEF TypeOK
<1>2. Len(Append(row, v)) = Len(row) + 1
  BY <1>1
<1>3. /\ RowEvent(v, s) => RecordReported /\ Reported = <<v>>
      /\ FieldEvent(v, s) => ~RecordReported /\ Reported = <<v>>
      /\ NoEvent => ~RecordReported /\ Reported = <<>>
  BY <1>1, EventReported
<1>4. ASSUME RowEvent(v, s)
      PROVE  (s <=> Len(Append(row, v)) # Width) /\ (~s => fieldCount' = Len(row'))
  <2>1. s <=> WrongLength
    BY <1>3, <1>4 DEF StopsAt
  <2>2. WrongLength <=> Len(Append(row, v)) # Width
    BY <1>2 DEF WrongLength
  <2>3. row' = <<>>
    BY <1>4 DEF RowEvent
  <2> QED
    BY <1>3, <1>4, <2>1, <2>2, <2>3 DEF NextCount
<1>5. ASSUME FieldEvent(v, s) PROVE ~s /\ fieldCount' = Len(row')
  <2>1. Len(row') = Len(row) + 1 /\ Len(<<v>>) = 1
    BY <1>2, <1>5 DEF FieldEvent
  <2>2. ~RecordReported /\ Reported = <<v>>
    BY <1>3, <1>5
  <2>3. fieldCount' = fieldCount + Len(<<v>>)
    BY <2>2 DEF NextCount
  <2>4. ~s
    BY <2>2 DEF StopsAt
  <2> QED
    BY <1>1, <2>1, <2>3, <2>4
<1>6. ASSUME NoEvent PROVE ~s /\ fieldCount' = Len(row')
  <2>1. row' = row /\ Len(<<>>) = 0
    BY <1>6 DEF NoEvent
  <2>2. ~RecordReported /\ Reported = <<>>
    BY <1>3, <1>6
  <2>3. fieldCount' = fieldCount + Len(<<>>)
    BY <2>2 DEF NextCount
  <2>4. ~s
    BY <2>2 DEF StopsAt
  <2> QED
    BY <1>1, <2>1, <2>3, <2>4
<1> QED
  BY <1>4, <1>5, <1>6

\* A row added to right ones is right or the wrong one.
LEMMA FieldsCounted ==
  ASSUME TypeOK, NEW s, RowEvent(field, s), \A n \in 1..Len(Fields) : Len(Fields[n]) = Width
  PROVE  /\ Len(Append(row, field)) = Width => \A n \in 1..Len(Fields') : Len(Fields'[n]) = Width
         /\ Len(Fields') \in 1..Len(Fields') /\ Fields'[Len(Fields')] = Append(row, field)
<1> DEFINE all == Append(row, field)
<1>1. field \in Seq(Byte)
  BY DEF TypeOK
<1>2. /\ Len(Fields') = Len(Fields) + 1 /\ Len(Fields) \in Nat /\ Fields'[Len(Fields) + 1] = all
      /\ \A n \in 1..Len(Fields) : Fields'[n] = Fields[n]
  BY <1>1, RowReported
<1> HIDE DEF all
<1>3. \A n \in 1..Len(Fields') : n \in 1..Len(Fields) \/ n = Len(Fields) + 1
  BY <1>2
<1>4. ASSUME Len(all) = Width PROVE \A n \in 1..Len(Fields') : Len(Fields'[n]) = Width
  BY <1>2, <1>3, <1>4
<1> QED
  BY <1>2, <1>4 DEF all

\* A turn of the loop keeps the verdict right.
LEMMA VerdictTurn ==
  ASSUME Verdict, NEW s \in BOOLEAN, ParserTurn(s, s), RecordCallback(s)
  PROVE  Verdict'
<1>1. /\ phase = "reading" /\ Accept(s) /\ StopsAt(s) /\ fieldCount' = NextCount
      /\ phase' \in Outcome(s, phase) /\ UNCHANGED <<contents, file>> /\ valid' = (valid /\ ~s)
  BY DEF ParserTurn, RecordCallback
<1>2. FileReading /\ ~stop /\ valid
  BY <1>1 DEF Verdict, Accept, InLoop
<1>3. fieldCount = Len(row) /\ \A n \in 1..Len(Fields) : Len(Fields[n]) = Width
  BY <1>1, <1>2 DEF Verdict
<1>4. PlainReading /\ call # "draining"
  BY <1>2 DEF FileReading
<1>5. TypeOK
  BY <1>4 DEF PlainReading, PlainParser
<1>6. /\ PlainReading' /\ call # "idle"
      /\ UNCHANGED <<config, call, input, chunk>>
      /\ \/ RowEvent(field, s) /\ state' = "RECORD_NOT_BEGUN"
         \/ FieldEvent(field, s)
         \/ NoEvent
  BY <1>1, <1>4, TurnStays
<1>7. FileReading'
  BY <1>4, <1>6 DEF FileReading
<1>8. Input' = Input /\ AllRight' = AllRight
  <2>1. contents' = contents /\ delimiter' = delimiter
    BY <1>1, <1>6 DEF config
  <2>2. Input' = Input
    BY <2>1 DEF Input, SimpleFS
  <2> QED
    BY <2>2 DEF AllRight
<1>10. /\ RowEvent(field, s) =>
            /\ s <=> Len(Append(row, field)) # Width
            /\ ~s => fieldCount' = Len(row')
       /\ FieldEvent(field, s) => ~s /\ fieldCount' = Len(row')
       /\ NoEvent => ~s /\ fieldCount' = Len(row')
       /\ valid' = ~s
  <2>1. field \in Seq(Byte)
    BY <1>5 DEF TypeOK
  <2> QED
    BY <1>1, <1>2, <1>3, <1>5, <2>1, CallbackCounts
<1>11. CASE RowEvent(field, s) /\ state' = "RECORD_NOT_BEGUN"
  <2>1. /\ Len(Append(row, field)) = Width => \A n \in 1..Len(Fields') : Len(Fields'[n]) = Width
        /\ Len(Fields') \in 1..Len(Fields') /\ Fields'[Len(Fields')] = Append(row, field)
    BY <1>3, <1>5, <1>11, FieldsCounted
  <2>2. stop' = s
    BY <1>11 DEF RowEvent
  <2>3. CASE s
    <3>2. BeginsWith(Input', Fields')
      <4>1. BeginsWith(Table(contents, SimpleFS, Eol), Fields)'
        BY <1>6, <1>11, ReportedBeginsNext
      <4> QED
        BY <4>1 DEF Input
    <3>3. ~AllRight'
      <4>1. Len(Fields') \in 1..Len(Input') /\ Input'[Len(Fields')] = Fields'[Len(Fields')]
        BY <2>1, <3>2 DEF BeginsWith
      <4>2. Len(Input'[Len(Fields')]) # Width
        BY <1>10, <1>11, <2>1, <2>3, <4>1
      <4> QED
        BY <4>1, <4>2 DEF AllRight
    <3>4. phase' \in {"reading", "died"}
      BY <1>1 DEF Outcome, AfterError
    <3> QED
      BY <1>7, <1>10, <2>2, <2>3, <3>3, <3>4 DEF Verdict
  <2>4. CASE ~s
    <3>1. phase' = "reading"
      BY <1>1, <2>4 DEF Outcome
    <3> QED
      BY <1>7, <1>10, <1>11, <2>1, <2>2, <2>4, <3>1 DEF Verdict
  <2> QED
    BY <2>3, <2>4
<1>12. CASE FieldEvent(field, s) \/ NoEvent
  <2>1. ~s /\ fieldCount' = Len(row') /\ rows' = rows /\ ~stop'
    BY <1>2, <1>10, <1>12 DEF FieldEvent, NoEvent
  <2>2. Fields' = Fields
    BY <2>1 DEF Fields
  <2>3. phase' = "reading"
    BY <1>1, <2>1 DEF Outcome
  <2> QED
    BY <1>3, <1>7, <1>10, <2>1, <2>2, <2>3 DEF Verdict
<1> QED
  BY <1>6, <1>11, <1>12

\* So does finish().
LEMMA VerdictFinish ==
  ASSUME Verdict, NEW s \in BOOLEAN, FinishParser(s, s), RecordCallback(s)
  PROVE  Verdict'
<1>1. /\ phase = "reading" /\ AllRead /\ Finish(s) /\ StopsAt(s) /\ fieldCount' = NextCount
      /\ phase' \in Outcome(s, "finished") /\ UNCHANGED <<contents, file>>
      /\ valid' = (valid /\ ~s)
  BY DEF FinishParser, RecordCallback
<1>2. FileReading /\ (stop <=> ~valid) /\ valid \in BOOLEAN
  BY <1>1 DEF Verdict
<1>3. PlainParser /\ FileIsRead /\ RowsAreRead /\ TypeOK
  BY <1>2 DEF FileReading, PlainReading, PlainParser
<1>4. /\ call = "idle"
      /\ UNCHANGED <<config, input, position, chunk, call>>
      /\ stop => UNCHANGED <<row, rows, stop, state, field>>
      /\ ~stop /\ state # "RECORD_NOT_BEGUN" => RowEvent(field, s) /\ field' = <<>>
      /\ ~stop /\ state = "RECORD_NOT_BEGUN" => NoEvent
  BY <1>1, <1>3, PlainFinish
<1>5. Input' = Input /\ AllRight' = AllRight
  <2>1. contents' = contents /\ delimiter' = delimiter
    BY <1>1, <1>4 DEF config
  <2>2. Input' = Input
    BY <2>1 DEF Input, SimpleFS
  <2> QED
    BY <2>2 DEF AllRight
<1>6. CASE stop
  <2>1. ~RecordReported /\ ~valid
    BY <1>2, <1>4, <1>6 DEF RecordReported
  <2>2. ~s
    BY <1>1, <2>1 DEF StopsAt
  <2>3. phase' = "finished" /\ ~valid'
    BY <1>1, <2>1, <2>2 DEF Outcome
  <2> QED
    BY <1>1, <1>5, <2>1, <2>3 DEF Verdict
<1>7. CASE ~stop
  <2>1. file = <<>> /\ position = Len(input) /\ valid
    BY <1>1, <1>2, <1>4, <1>7 DEF AllRead, FileReading
  <2>2. fieldCount = Len(row) /\ \A n \in 1..Len(Fields) : Len(Fields[n]) = Width
    BY <1>1, <1>7 DEF Verdict
  <2>3. Fields' = Input'
    <3>1. Fields' = Table(contents, SimpleFS, Eol)
      BY <1>1, <1>3, <1>7, <2>1, TableIsReported
    <3> QED
      BY <1>5, <3>1 DEF Input
  <2>4. /\ RowEvent(field, s) =>
             /\ s <=> Len(Append(row, field)) # Width
             /\ ~s => fieldCount' = Len(row')
        /\ NoEvent => ~s /\ fieldCount' = Len(row')
        /\ valid' = ~s
    <3>1. field \in Seq(Byte)
      BY <1>3 DEF TypeOK
    <3> QED
      BY <1>1, <1>3, <2>1, <2>2, <3>1, CallbackCounts
  <2>5. phase' \in {"finished", "died"} /\ (~s => phase' = "finished")
    BY <1>1 DEF Outcome, AfterError
  <2>6. CASE state # "RECORD_NOT_BEGUN"
    <3>1. RowEvent(field, s)
      BY <1>4, <1>7, <2>6
    <3>2. /\ Len(Append(row, field)) = Width => \A n \in 1..Len(Fields') : Len(Fields'[n]) = Width
          /\ Len(Fields') \in 1..Len(Fields') /\ Fields'[Len(Fields')] = Append(row, field)
      BY <1>3, <2>2, <3>1, FieldsCounted
    <3>3. s => ~AllRight'
      BY <2>3, <2>4, <3>1, <3>2 DEF AllRight
    <3>4. ~s => AllRight'
      BY <2>3, <2>4, <3>1, <3>2 DEF AllRight
    <3> QED
      BY <2>4, <2>5, <3>3, <3>4 DEF Verdict
  <2>7. CASE state = "RECORD_NOT_BEGUN"
    <3>1. NoEvent
      BY <1>4, <1>7, <2>7
    <3>2. ~s /\ rows' = rows
      BY <2>4, <3>1 DEF NoEvent
    <3>3. Fields' = Fields
      BY <3>2 DEF Fields
    <3>4. AllRight'
      BY <2>2, <2>3, <3>3 DEF AllRight
    <3> QED
      BY <2>4, <2>5, <3>2, <3>4 DEF Verdict
  <2> QED
    BY <2>6, <2>7
<1> QED
  BY <1>6, <1>7

\* And everything else.
LEMMA VerdictStep ==
  ASSUME Verdict, [WriterNext]_writerVars
  PROVE  Verdict'
<1>1. CASE NextBlock /\ ReadNext
  <2>1. phase = "reading" /\ ReadBlock /\ UNCHANGED <<record, fieldCount, valid, phase>>
    BY <1>1 DEF NextBlock
  <2>2. call = "idle" /\ ~stop
    BY <2>1 DEF ReadBlock
  <2>3. PlainReading /\ position = Len(input)
    BY <2>1, <2>2 DEF Verdict, FileReading
  <2>4. /\ PlainReading' /\ stop' = FALSE /\ Fields' = Fields
        /\ call' = IF position < Len(input) THEN "draining" ELSE "parsing"
        /\ UNCHANGED <<config, row, contents>>
    BY <2>1, <2>3, BlockStays
  <2>5. call' = "parsing"
    BY <2>3, <2>4 DEF PlainReading, PlainParser, TypeOK
  <2>6. FileReading'
    BY <2>4, <2>5 DEF FileReading
  <2>7. AllRight' = AllRight
    BY <2>4 DEF AllRight, Input, SimpleFS, config
  <2> QED
    BY <2>1, <2>2, <2>4, <2>6, <2>7 DEF Verdict
<1>2. CASE ReturnFromParse /\ ReadNext
  <2>1. phase = "reading" /\ LeaveLoop /\ UNCHANGED recordVars
    BY <1>2 DEF ReturnFromParse
  <2>2. UNCHANGED <<contents, file, fieldCount, valid, phase>>
    BY <2>1 DEF recordVars
  <2>3. PlainReading /\ call # "draining" /\ call # "idle"
    BY <2>1 DEF Verdict, FileReading, LeaveLoop
  <2>4. call = "parsing"
    BY <2>3 DEF PlainReading, PlainParser, TypeOK, Calls
  <2>5. /\ PlainReading' /\ Fields' = Fields /\ call' = "idle"
        /\ stop \/ position = Len(input)
        /\ UNCHANGED <<config, input, position, stop, row>>
    BY <2>1, <2>2, <2>3, <2>4, LeaveStays
  <2>6. FileReading'
    BY <2>5 DEF FileReading
  <2>7. AllRight' = AllRight
    BY <2>2, <2>5 DEF AllRight, Input, SimpleFS, config
  <2> QED
    BY <2>2, <2>5, <2>6, <2>7 DEF Verdict
<1>3. ASSUME NEW s \in BOOLEAN, ParserTurn(s, s), RecordCallback(s) PROVE Verdict'
  BY <1>3, VerdictTurn
<1>4. ASSUME NEW s \in BOOLEAN, FinishParser(s, s), RecordCallback(s) PROVE Verdict'
  BY <1>4, VerdictFinish
<1>5. CASE WriteRest
  <2>1. phase = "finished" /\ phase' = "exited" /\ UNCHANGED <<contents, valid, vars>>
    BY <1>5 DEF WriteRest, Exit
  <2>2. UNCHANGED AllRight
    BY <2>1 DEF AllRight, Input, SimpleFS, vars, config
  <2> QED
    BY <2>1, <2>2 DEF Verdict
<1>6. CASE UNCHANGED writerVars
  <2>1. UNCHANGED <<vars, contents, file, fieldCount, valid, phase>>
    BY <1>6 DEF writerVars, recordVars
  <2>2. /\ UNCHANGED <<config, text, delimiterPos, characterClass, state, status,
                       stop, field, trailingSpace, row, rows>>
        /\ UNCHANGED <<call, position, input, delimiter>>
    BY <2>1 DEF vars, text, config
  <2>3. UNCHANGED <<Fields, AllRight>>
    BY <2>1, <2>2 DEF Fields, AllRight, Input, SimpleFS
  <2>4. FileReading => FileReading'
    <3>1. PlainReading => stop' \in BOOLEAN
      BY <2>2 DEF PlainReading, PlainParser, TypeOK
    <3>2. PlainReading => PlainReading'
      BY <2>1, <2>2, <3>1, PlainStays
    <3> QED
      BY <2>2, <3>2 DEF FileReading
  <2> QED
    BY <2>1, <2>2, <2>3, <2>4 DEF Verdict
<1> QED
  BY <1>1, <1>2, <1>3, <1>4, <1>5, <1>6 DEF WriterNext, ReadNext, ParseNext, FinishNext

\* The exit code of standard_form and add_constants is right: a success means that all
\* rows of the input have the right length, a failure that one has not, and only such a row
\* makes error() end the program (recordcb(), main()).
THEOREM VerdictProved == ASSUME PlainFiles PROVE WriterSpec => []VerdictIsRight
<1>1. Verdict => VerdictIsRight
  BY DEF Verdict, VerdictIsRight, AllRight, RightLength, Exited, Died
<1>2. WriterInit => Verdict
  BY VerdictInit
<1>3. Verdict /\ [WriterNext]_writerVars => Verdict'
  BY VerdictStep
<1> QED
  BY <1>1, <1>2, <1>3, PTL DEF WriterSpec
-----------------------------------------------------------------------------
(* The output buffer. *)

\* Everything that was ever put into the buffer, as the file will show it.
Content(buffer) == buffer.written \o buffer.held

\* write_output_file() keeps the content and the size, and leaves nothing held.
LEMMA WriteKeeps ==
  ASSUME NEW buffer \in Buffer
  PROVE  /\ Write(buffer) \in Buffer
         /\ Content(Write(buffer)) = Content(buffer)
         /\ Write(buffer).held = <<>>
         /\ Write(buffer).size = buffer.size
BY DEF Buffer, Write, Content

\* append() puts its bytes behind the content, and makes the String longer only
\* if they do not fit with the byte that ends it.
LEMMA AppendAdds ==
  ASSUME NEW buffer \in Buffer, NEW bytes \in Seq(Byte)
  PROVE  /\ AppendTo(buffer, bytes) \in Buffer
         /\ Content(AppendTo(buffer, bytes)) = Content(buffer) \o bytes
         /\ Len(buffer.held) + Len(bytes) + 1 =< buffer.size
              => AppendTo(buffer, bytes).size = buffer.size
<1> DEFINE next == AppendTo(buffer, bytes)
           needed == Len(buffer.held) + Len(bytes) + 1
<1>1. /\ buffer.written \in Seq(Byte) /\ buffer.held \in Seq(Byte)
      /\ buffer.size \in Nat /\ needed \in Nat \ {0}
  BY DEF Buffer
<1>2. /\ next.written = buffer.written
      /\ next.held = buffer.held \o bytes
      /\ next.size = IF needed > buffer.size THEN needed ELSE buffer.size
  BY DEF AppendTo
<1>3. next \in Buffer
  BY <1>1 DEF AppendTo, Buffer
<1>4. Content(next) = Content(buffer) \o bytes
  <2>1. PICK written \in Seq(Byte), held \in Seq(Byte) :
          written = buffer.written /\ held = buffer.held
    BY <1>1
  <2>2. Content(next) = written \o (held \o bytes)
    BY <1>2, <2>1 DEF Content
  <2>3. Content(buffer) \o bytes = (written \o held) \o bytes
    BY <2>1 DEF Content
  <2>4. (written \o held) \o bytes = written \o (held \o bytes)
    BY ConcatAssociative
  <2> QED
    BY <2>2, <2>3, <2>4
<1>5. needed =< buffer.size => next.size = buffer.size
  BY <1>1, <1>2
<1> QED
  BY <1>3, <1>4, <1>5

\* Whatever the size of the buffer and wherever it is written to the file, an
\* item and its tail are put behind everything that was put there before:
\* nothing is lost, repeated or reordered (recordcb(), write_output_file()).
THEOREM PutAddsTheItem ==
  ASSUME NEW buffer \in Buffer, NEW item \in Seq(Byte), NEW tail \in Seq(Byte)
  PROVE  /\ PutItem(buffer, item, tail) \in Buffer
         /\ Content(PutItem(buffer, item, tail)) = Content(buffer) \o (item \o tail)
<1> DEFINE room == IF NearlyFull(buffer, item) THEN Write(buffer) ELSE buffer
<1>1. room \in Buffer /\ Content(room) = Content(buffer)
  BY WriteKeeps
<1>2. item \o tail \in Seq(Byte)
  OBVIOUS
<1>3. PutItem(buffer, item, tail) = AppendTo(room, item \o tail)
  BY DEF PutItem
<1> HIDE DEF room
<1> QED
  BY <1>1, <1>2, <1>3, AppendAdds

\* The room that the check leaves is enough for the byte behind an item and the
\* byte that ends the String: a buffer never grows for an item that is shorter
\* than the buffer by more than two (the `+ 2' in recordcb()).
THEOREM PutKeepsTheSize ==
  ASSUME NEW buffer \in Buffer, NEW item \in Seq(Byte), NEW tail \in Seq(Byte),
         Len(item) + 2 < buffer.size, Len(tail) =< 1
  PROVE  PutItem(buffer, item, tail).size = buffer.size
<1> DEFINE room == IF NearlyFull(buffer, item) THEN Write(buffer) ELSE buffer
<1>1. room \in Buffer /\ room.size = buffer.size
  BY WriteKeeps
<1>2. /\ item \o tail \in Seq(Byte)
      /\ Len(item \o tail) = Len(item) + Len(tail)
      /\ Len(item) \in Nat /\ Len(tail) \in Nat
  OBVIOUS
<1>3. PutItem(buffer, item, tail) = AppendTo(room, item \o tail)
  BY DEF PutItem
<1>4. Len(room.held) + Len(item) + 2 < room.size
  <2>1. CASE NearlyFull(buffer, item)
    BY <2>1, WriteKeeps
  <2>2. CASE ~NearlyFull(buffer, item)
    BY <2>2 DEF NearlyFull, Buffer
  <2> QED
    BY <2>1, <2>2
<1>5. Len(room.held) \in Nat /\ room.size \in Nat
  BY <1>1 DEF Buffer
<1> HIDE DEF room
<1>6. \A h, i, t, size \in Nat :
         h + i + 2 < size /\ t =< 1 => h + (i + t) + 1 =< size
  OBVIOUS
<1>7. Len(room.held) + Len(item \o tail) + 1 =< room.size
  BY <1>2, <1>4, <1>5, <1>6
<1> QED
  BY <1>1, <1>2, <1>3, <1>7, AppendAdds, ZenonT(60)

\* An item with the byte behind it.
Pieces == Seq(Byte) \X {<<b>> : b \in Byte}

\* h[n] is the buffer with the first n pieces in it.
Puts(h, buffer, pieces) ==
  h = [n \in 0..Len(pieces) |->
         IF n = 0 THEN buffer ELSE Put[<<h[n - 1], pieces[n][1], pieces[n][2]>>]]

\* The recursion of PutAll has a solution, by induction over the pieces.
LEMMA PutsExist ==
  ASSUME NEW buffer, NEW pieces, Len(pieces) \in Nat
  PROVE  \E h : Puts(h, buffer, pieces)
<1> DEFINE Next1(h, n) == IF n = 0 THEN buffer ELSE Put[<<h[n - 1], pieces[n][1], pieces[n][2]>>]
           P(h, k) == h = [n \in 0..k |-> Next1(h, n)]
           T == {k \in Nat : \E h : P(h, k)}
<1>1. 0 \in T
  <2> DEFINE h == [n \in 0..0 |-> buffer]
  <2>1. \A n \in 0..0 : n = 0
    OBVIOUS
  <2>2. P(h, 0)
    BY <2>1
  <2> QED
    BY <2>2
<1>2. ASSUME NEW k \in T PROVE k + 1 \in T
  <2>1. PICK h : P(h, k)
    BY <1>2
  <2> DEFINE last == Next1(h, k + 1)
             g    == [n \in 0..(k + 1) |-> IF n = k + 1 THEN last ELSE h[n]]
  <2>2. \A n \in 0..k : g[n] = h[n]
    OBVIOUS
  <2>3. \A n \in 0..k : h[n] = Next1(h, n)
    BY <2>1
  <2>4. ASSUME NEW n \in 0..(k + 1)
        PROVE  g[n] = Next1(g, n)
    <3>1. CASE n = k + 1
      <4>1. g[n] = last /\ n - 1 = k /\ g[k] = h[k]
        BY <2>2, <3>1
      <4> QED
        BY <3>1, <4>1
    <3>2. CASE n # k + 1
      <4>1. n \in 0..k /\ (n # 0 => n - 1 \in 0..k)
        BY <3>2
      <4> QED
        BY <2>2, <2>3, <4>1
    <3> QED
      BY <3>1, <3>2
  <2>5. P(g, k + 1)
    <3> HIDE DEF Next1, last
    <3> QED
      BY <2>4
  <2> HIDE DEF P
  <2> QED
    BY <2>5
<1>3. T = Nat
  <2> HIDE DEF T
  <2> QED
    BY <1>1, <1>2, InductionOnNat DEF T
<1>4. \E h : P(h, Len(pieces))
  <2> HIDE DEF P
  <2>1. Len(pieces) \in T
    <3> HIDE DEF T
    <3> QED
      BY <1>3
  <2> QED
    BY <2>1
<1> QED
  BY <1>4 DEF Puts

\* PutAll is its last value.
LEMMA PutAllIs ==
  ASSUME NEW buffer, NEW pieces, Len(pieces) \in Nat
  PROVE  \E h : Puts(h, buffer, pieces) /\ PutAll(buffer, pieces) = h[Len(pieces)]
<1> DEFINE h == CHOOSE g : Puts(g, buffer, pieces)
<1>1. Puts(h, buffer, pieces)
  BY PutsExist
<1>2. PutAll(buffer, pieces) = h[Len(pieces)]
  BY Zenon DEF PutAll, Puts
<1> QED
  BY <1>1, <1>2

\* One piece more is one item put.
LEMMA PutOne ==
  ASSUME NEW h, NEW buffer \in Buffer, NEW pieces \in Seq(Pieces), Puts(h, buffer, pieces),
         NEW n \in 1..Len(pieces), h[n - 1] \in Buffer
  PROVE  /\ pieces[n][1] \in Seq(Byte) /\ pieces[n][2] \in Seq(Byte) /\ Len(pieces[n][2]) = 1
         /\ h[n] = PutItem(h[n - 1], pieces[n][1], pieces[n][2])
<1>1. pieces[n] \in Pieces
  OBVIOUS
<1>2. PICK i \in Seq(Byte), b \in Byte : pieces[n] = <<i, <<b>> >>
  BY <1>1 DEF Pieces
<1>3. <<b>> \in Seq(Byte) /\ Len(<<b>>) = 1 /\ pieces[n][1] = i /\ pieces[n][2] = <<b>>
  BY <1>2
<1>4. h[n] = Put[<<h[n - 1], i, <<b>> >>]
  <2>1. n \in 0..Len(pieces) /\ n # 0
    OBVIOUS
  <2>2. h[n] = Put[<<h[n - 1], pieces[n][1], pieces[n][2]>>]
    BY <2>1 DEF Puts
  <2> QED
    BY <1>3, <2>2
<1>5. <<h[n - 1], i, <<b>> >> \in Buffer \X Seq(Byte) \X Seq(Byte)
  BY <1>3
<1>6. Put[<<h[n - 1], i, <<b>> >>] = PutItem(h[n - 1], i, <<b>>)
  BY <1>5, Zenon DEF Put
<1> QED
  BY <1>3, <1>4, <1>6

\* The buffer stays a buffer, and keeps its size for short items.
LEMMA PutAllKeeps ==
  ASSUME NEW buffer \in Buffer, NEW pieces \in Seq(Pieces)
  PROVE  /\ PutAll(buffer, pieces) \in Buffer
         /\ (\A n \in 1..Len(pieces) : Len(pieces[n][1]) + 2 < buffer.size)
              => PutAll(buffer, pieces).size = buffer.size
<1> DEFINE Short == \A n \in 1..Len(pieces) : Len(pieces[n][1]) + 2 < buffer.size
<1>1. Len(pieces) \in Nat
  OBVIOUS
<1>2. PICK h : Puts(h, buffer, pieces) /\ PutAll(buffer, pieces) = h[Len(pieces)]
  BY <1>1, PutAllIs
<1> DEFINE Good(n) == h[n] \in Buffer /\ (Short => h[n].size = buffer.size)
           T == {n \in Nat : n =< Len(pieces) => Good(n)}
<1>3. 0 \in T
  <2>1. h[0] = buffer
    BY <1>1, <1>2 DEF Puts
  <2> QED
    BY <2>1
<1>4. ASSUME NEW n \in T PROVE n + 1 \in T
  <2>1. SUFFICES ASSUME n + 1 =< Len(pieces) PROVE Good(n + 1)
    BY <1>4
  <2>2. n + 1 \in 1..Len(pieces) /\ (n + 1) - 1 = n /\ Good(n)
    BY <1>1, <1>4, <2>1
  <2> DEFINE i == pieces[n + 1][1]
             t == pieces[n + 1][2]
  <2>3. i \in Seq(Byte) /\ t \in Seq(Byte) /\ Len(t) = 1 /\ h[n + 1] = PutItem(h[n], i, t)
    BY <1>2, <2>2, PutOne
  <2>4. Short => Len(i) + 2 < buffer.size
    BY <2>2
  <2>5. h[n] \in Buffer /\ (Short => h[n].size = buffer.size)
    BY <2>2
  <2> HIDE DEF i, t, Short
  <2>6. PutItem(h[n], i, t) \in Buffer
    BY <2>3, <2>5, PutAddsTheItem
  <2>7. ASSUME Short PROVE PutItem(h[n], i, t).size = buffer.size
    <3>1. Len(i) + 2 < h[n].size /\ Len(t) =< 1
      BY <2>3, <2>4, <2>5, <2>7
    <3> QED
      BY <2>3, <2>5, <2>7, <3>1, PutKeepsTheSize
  <2> QED
    BY <2>3, <2>6, <2>7
<1>5. T = Nat
  <2> HIDE DEF T
  <2> QED
    BY <1>3, <1>4, InductionOnNat DEF T
<1>6. Good(Len(pieces))
  <2> HIDE DEF Good
  <2> QED
    BY <1>1, <1>5
<1> QED
  BY <1>2, <1>6

-----------------------------------------------------------------------------
(* The size of the buffer while the programs run. *)

\* record holds the fields of the row that is being read.
RecordIsRow ==
  fieldCount = Len(row) /\ \A k \in 1..Width : k =< Len(row) => record[k] = row[k]

\* What keeps the buffer a buffer and its size what it was.
Sized ==
  /\ TypeOK /\ file \in Seq(Byte) /\ constants \in ConstantLists
  /\ record \in [1..Width -> Seq(Byte)] /\ output \in Buffer
  /\ phase = "reading" /\ ~stop => RecordIsRow
  /\ BufferKeepsItsSize

\* With a row callback that finds the right length, record is the row; with the others
\* it stays what the row is so far, if the parser is not stopped.
LEMMA RecordFollows ==
  ASSUME TypeOK, NEW s \in BOOLEAN, NEW v \in Seq(Byte), RecordIsRow,
         record \in [1..Width -> Seq(Byte)],
         FieldCallback, StopsAt(s), fieldCount' = NextCount,
         RowEvent(v, s) \/ FieldEvent(v, s) \/ NoEvent
  PROVE  /\ record' \in [1..Width -> Seq(Byte)]
         /\ ~s => RecordIsRow'
         /\ Complete => RowEvent(v, s) /\ record' = Append(row, v)
<1>1. /\ row \in Seq(Seq(Byte)) /\ Len(row) \in Nat /\ Width \in Nat
      /\ fieldCount = Len(row) /\ \A k \in 1..Width : k =< Len(row) => record[k] = row[k]
  BY RecordAssumption DEF TypeOK, RecordIsRow
<1>2. /\ RowEvent(v, s) => RecordReported /\ Reported = <<v>>
      /\ FieldEvent(v, s) => ~RecordReported /\ Reported = <<v>>
      /\ NoEvent => ~RecordReported /\ Reported = <<>>
  BY EventReported
<1>3. /\ RowEvent(v, s) =>
           /\ s <=> Len(Append(row, v)) # Width
           /\ ~s => fieldCount' = Len(row')
      /\ FieldEvent(v, s) => ~s /\ fieldCount' = Len(row')
      /\ NoEvent => ~s /\ fieldCount' = Len(row')
  BY <1>1, CallbackCounts
<1> DEFINE all == Append(row, v)
<1>4. /\ all \in Seq(Seq(Byte)) /\ Len(all) = Len(row) + 1 /\ all[Len(row) + 1] = v
      /\ \A k \in 1..Len(row) : all[k] = row[k]
  BY <1>1, AppendProperties
<1> HIDE DEF all
<1>5. ASSUME RowEvent(v, s) \/ FieldEvent(v, s)
      PROVE  /\ record' = [n \in 1..Width |-> IF n = Len(row) + 1 THEN v ELSE record[n]]
             /\ \A k \in 1..Width : k =< Len(all) => record'[k] = all[k]
  <2>1. Reported = <<v>> /\ <<v>> # <<>> /\ <<v>>[1] = v
    BY <1>2, <1>5
  <2>2. record' = [n \in 1..Width |-> IF n = Len(row) + 1 THEN v ELSE record[n]]
    BY <1>1, <2>1 DEF FieldCallback
  <2>3. ASSUME NEW k \in 1..Width, k =< Len(all) PROVE record'[k] = all[k]
    <3>1. record'[k] = IF k = Len(row) + 1 THEN v ELSE record[k]
      BY <2>2
    <3>2. k # Len(row) + 1 => k =< Len(row) /\ k \in 1..Len(row)
      BY <1>1, <1>4, <2>3
    <3> QED
      BY <1>1, <1>4, <3>1, <3>2
  <2> QED
    BY <2>2, <2>3
<1>6. CASE RowEvent(v, s)
  <2>1. row' = <<>> /\ record' \in [1..Width -> Seq(Byte)]
    BY <1>5, <1>6 DEF RowEvent
  <2>2. Len(row') = 0
    BY <2>1
  <2>3. ~s => RecordIsRow'
    BY <1>3, <1>6, <2>2 DEF RecordIsRow
  <2>4. ASSUME Complete PROVE record' = all
    <3>1. ~WrongLength
      BY <2>4 DEF Complete
    <3>2. Len(all) = Width
      BY <1>1, <1>4, <3>1 DEF WrongLength
    <3>3. \A k \in 1..Width : record'[k] = all[k]
      BY <1>1, <1>5, <1>6, <3>2
    <3>4. all = [k \in 1..Len(all) |-> all[k]]
      BY <1>4
    <3>5. record' = [k \in 1..Width |-> record'[k]]
      BY <2>1
    <3> QED
      BY <3>2, <3>3, <3>4, <3>5
  <2> QED
    BY <1>6, <2>1, <2>3, <2>4 DEF all
<1>7. CASE FieldEvent(v, s)
  <2>1. row' = all /\ record' \in [1..Width -> Seq(Byte)]
    BY <1>5, <1>7 DEF FieldEvent, all
  <2>2. RecordIsRow'
    BY <1>3, <1>5, <1>7, <2>1 DEF RecordIsRow
  <2>3. ~Complete
    BY <1>2, <1>7 DEF Complete
  <2> QED
    BY <2>1, <2>2, <2>3
<1>8. CASE NoEvent
  <2>1. row' = row /\ Reported = <<>> /\ ~RecordReported
    BY <1>2, <1>8 DEF NoEvent
  <2>2. record' = [n \in 1..Width |-> record[n]]
    BY <2>1 DEF FieldCallback
  <2>3. record' = record
    BY <2>2
  <2>4. RecordIsRow'
    BY <1>1, <1>3, <1>8, <2>1, <2>3 DEF RecordIsRow
  <2> QED
    BY <2>1, <2>3, <2>4 DEF Complete
<1> QED
  BY <1>6, <1>7, <1>8

\* What follows an item is one byte.
LEMMA BehindIsAByte == \A n : \E b \in Byte : Behind(n) = <<b>>
<1>1. US \in Byte /\ LF \in Byte
  BY RecordAssumption, ByteAssumption
<1> QED
  BY <1>1 DEF Behind

\* The values of a list of constants are values, whichever of the two is taken.
LEMMA ConstantsTyped ==
  ASSUME constants \in ConstantLists
  PROVE  /\ Len(constants) \in Nat
         /\ \A n \in 1..Len(constants) :
              constants[n].key \in Seq(Byte) /\ constants[n].value \in Seq(Byte)
         /\ ConstantItems \in Seq(Seq(Byte)) /\ Len(ConstantItems) = Len(constants)
         /\ \A n \in 1..Len(constants) : ConstantItems[n] \in {constants[n].key, constants[n].value}
<1> DEFINE Pair == [key : Seq(Byte), value : Seq(Byte)]
           one(n) == IF rows = <<>> THEN constants[n].key ELSE constants[n].value
<1>1. constants \in Seq(Pair)
  BY ConstantsAssumption
<1>2. \A p \in Pair : p.key \in Seq(Byte) /\ p.value \in Seq(Byte)
  OBVIOUS
<1> HIDE DEF Pair
<1>3. Len(constants) \in Nat /\ \A n \in 1..Len(constants) : constants[n] \in Pair
  BY <1>1
<1>4. \A n \in 1..Len(constants) :
        constants[n].key \in Seq(Byte) /\ constants[n].value \in Seq(Byte)
  BY <1>2, <1>3
<1>5. ConstantItems = [n \in 1..Len(constants) |-> one(n)]
  BY DEF ConstantItems
<1>6. \A n \in 1..Len(constants) :
        one(n) \in Seq(Byte) /\ one(n) \in {constants[n].key, constants[n].value}
  BY <1>4
<1> HIDE DEF one
<1>7. ConstantItems \in Seq(Seq(Byte))
  BY <1>3, <1>5, <1>6, IsASeq
<1>8. Len(ConstantItems) = Len(constants)
  BY <1>3, <1>5, <1>7
<1>9. \A n \in 1..Len(constants) : ConstantItems[n] = one(n)
  BY <1>5
<1> QED
  BY <1>3, <1>4, <1>6, <1>7, <1>8, <1>9

\* A record of the right length, put into the buffer, keeps the buffer's size if its
\* fields and the constants are short.
LEMMA RecordPut ==
  ASSUME NEW r \in Seq(Seq(Byte)), record' = r, constants \in ConstantLists,
         output \in Buffer
  PROVE  /\ WriteRecord \in Buffer
         /\ (/\ \A k \in 1..Len(r) : Len(r[k]) + 2 < output.size
             /\ \A n \in 1..Len(constants) :
                  Len(constants[n].key) + 2 < output.size /\ Len(constants[n].value) + 2 < output.size)
              => WriteRecord.size = output.size
<1> DEFINE items  == r \o ConstantItems
           one(n) == <<Items[n], Behind(n)>>
           pieces == [n \in 1..Len(items) |-> one(n)]
           size   == output.size
<1>1. /\ Len(constants) \in Nat
      /\ ConstantItems \in Seq(Seq(Byte)) /\ Len(ConstantItems) = Len(constants)
      /\ \A n \in 1..Len(constants) : ConstantItems[n] \in {constants[n].key, constants[n].value}
  BY ConstantsTyped
<1>2. /\ items \in Seq(Seq(Byte)) /\ Len(items) \in Nat /\ Len(r) \in Nat
      /\ Len(items) = Len(r) + Len(constants)
      /\ \A k \in 1..Len(items) : items[k] = IF k =< Len(r) THEN r[k] ELSE ConstantItems[k - Len(r)]
  <2>1. \A i \in 1..(Len(r) + Len(ConstantItems)) :
          items[i] = IF i =< Len(r) THEN r[i] ELSE ConstantItems[i - Len(r)]
    BY <1>1, ConcatProperties, Zenon
  <2>2. items \in Seq(Seq(Byte)) /\ Len(items) = Len(r) + Len(ConstantItems)
    BY <1>1, ConcatProperties, Zenon
  <2> HIDE DEF items
  <2> QED
    BY <1>1, <2>1, <2>2
<1>3. Items = items
  BY DEF Items
<1> HIDE DEF items
<1>4. \A n \in 1..Len(items) : items[n] \in Seq(Byte)
  BY <1>2
<1>5. \A n \in 1..Len(items) : one(n) \in Pieces
  <2>1. ASSUME NEW n \in 1..Len(items) PROVE <<items[n], Behind(n)>> \in Pieces
    <3>1. PICK b \in Byte : Behind(n) = <<b>>
      BY BehindIsAByte
    <3>2. items[n] \in Seq(Byte) /\ <<b>> \in {<<c>> : c \in Byte}
      BY <1>4
    <3> QED
      BY <3>1, <3>2 DEF Pieces
  <2> QED
    BY <1>3, <2>1
<1>6. \A n \in 1..Len(items) : one(n)[1] = items[n]
  BY <1>3
<1> HIDE DEF one
<1>7. pieces \in Seq(Pieces)
  BY <1>2, <1>5, IsASeq
<1>8. Len(pieces) = Len(items)
  BY <1>2, <1>7
<1>9. \A n \in 1..Len(items) : pieces[n][1] = items[n]
  BY <1>6
<1>10. WriteRecord = PutAll(output, pieces)
  BY <1>3 DEF WriteRecord, one
<1> HIDE DEF pieces
<1>11. /\ PutAll(output, pieces) \in Buffer
       /\ (\A n \in 1..Len(pieces) : Len(pieces[n][1]) + 2 < output.size)
            => PutAll(output, pieces).size = output.size
  BY <1>7, PutAllKeeps
<1>12. ASSUME \A k \in 1..Len(r) : Len(r[k]) + 2 < size,
              \A n \in 1..Len(constants) :
                Len(constants[n].key) + 2 < size /\ Len(constants[n].value) + 2 < size
       PROVE  \A n \in 1..Len(pieces) : Len(pieces[n][1]) + 2 < size
  <2>1. ASSUME NEW n \in 1..Len(items) PROVE Len(items[n]) + 2 < size
    <3>1. CASE n =< Len(r)
      <4>1. n \in 1..Len(r) /\ items[n] = r[n]
        BY <1>2, <3>1
      <4> QED
        BY <1>12, <4>1
    <3>2. CASE ~(n =< Len(r))
      <4>1. n - Len(r) \in 1..Len(constants) /\ items[n] = ConstantItems[n - Len(r)]
        BY <1>1, <1>2, <3>2
      <4> QED
        BY <1>1, <1>12, <4>1
    <3> QED
      BY <3>1, <3>2
  <2> QED
    BY <1>8, <1>9, <2>1
<1> QED
  BY <1>10, <1>11, <1>12

\* The programs begin with an empty buffer.
LEMMA SizedInit == ASSUME WriterInit PROVE Sized
<1>1. /\ OpenInputFile /\ NewParser /\ options = {} /\ quote \in Quotes
      /\ delimiter \in Delimiters \cup {<<US>>} /\ constants \in ConstantLists
      /\ record = [n \in 1..Width |-> <<>>] /\ fieldCount = 0 /\ output = EmptyBuffer
  BY DEF WriterInit, StartReading
<1>2. TypeOK
  <2>1. US \in Byte /\ <<US>> \in Seq(Byte)
    BY RecordAssumption
  <2>2. delimiter \in Seq(Byte) /\ quote \in Byte \cup {NoQuote}
    BY <1>1, <2>1, CallerAssumption
  <2> QED
    BY <1>1, <2>2, NewTyped
<1>3. file \in Seq(Byte)
  BY <1>1, FileAssumption DEF OpenInputFile
<1>4. record \in [1..Width -> Seq(Byte)]
  BY <1>1
<1>5. EmptyBuffer \in Buffer /\ EmptyBuffer.size = BufferSize
  BY RecordAssumption DEF EmptyBuffer, Buffer
<1>6. row = <<>> /\ Len(<<>>) = 0
  BY <1>1 DEF NewParser
<1>7. RecordIsRow
  BY <1>1, <1>6 DEF RecordIsRow
<1> QED
  BY <1>1, <1>2, <1>3, <1>4, <1>5, <1>7 DEF Sized, BufferKeepsItsSize

\* A callback of the parser keeps it.
LEMMA SizedCallback ==
  ASSUME Sized, phase = "reading", NEW s \in BOOLEAN, Accept(s) \/ Finish(s),
         FieldCallback, StopsAt(s), fieldCount' = NextCount, RecordCallback(s),
         UNCHANGED file
  PROVE  Sized'
<1>1. /\ TypeOK /\ file \in Seq(Byte) /\ constants \in ConstantLists
      /\ record \in [1..Width -> Seq(Byte)] /\ output \in Buffer
      /\ ~stop => RecordIsRow
      /\ BufferKeepsItsSize
  BY DEF Sized
<1>2. TypeOK'
  BY <1>1, AcceptTyped, MethodTyped
<1>3. /\ file' \in Seq(Byte) /\ constants' = constants
      /\ output' = IF Complete THEN WriteRecord ELSE output
  BY <1>1 DEF RecordCallback
<1>4. CASE stop
  <2>1. NoEvent
    BY <1>1, <1>4, TurnReports, FinishReports
  <2>2. field \in Seq(Byte)
    BY <1>1 DEF TypeOK
  <2>3. Reported = <<>> /\ ~RecordReported
    BY <1>1, <2>1, <2>2, EventReported
  <2>4. record' = record
    <3>1. record' = [n \in 1..Width |-> record[n]]
      BY <2>3 DEF FieldCallback
    <3> QED
      BY <1>1, <3>1
  <2>5. output' = output /\ rows' = rows /\ stop'
    BY <1>3, <1>4, <2>1, <2>3 DEF Complete, NoEvent
  <2> QED
    BY <1>1, <1>2, <1>3, <2>4, <2>5 DEF Sized, BufferKeepsItsSize
<1>5. CASE ~stop
  <2>1. PICK v \in Seq(Byte) : RowEvent(v, s) \/ FieldEvent(v, s) \/ NoEvent
    <3>1. field \in Seq(Byte)
      BY <1>1 DEF TypeOK
    <3> QED
      BY <1>1, <3>1, TurnReports, FinishReports
  <2>2. /\ record' \in [1..Width -> Seq(Byte)]
        /\ ~s => RecordIsRow'
        /\ Complete => RowEvent(v, s) /\ record' = Append(row, v)
    BY <1>1, <1>5, <2>1, RecordFollows
  <2>3. ~stop' => ~s \/ NoEvent
    BY <2>1 DEF RowEvent, FieldEvent
  <2>4. NoEvent => ~s
    <3>1. NoEvent => ~RecordReported
      BY <1>1, <2>1, EventReported
    <3> QED
      BY <3>1 DEF StopsAt
  <2>5. ~stop' => RecordIsRow'
    BY <2>2, <2>3, <2>4
  <2>6. row \in Seq(Seq(Byte)) /\ Append(row, v) \in Seq(Seq(Byte))
    BY <1>1 DEF TypeOK
  <2>7. output' \in Buffer
    BY <1>1, <1>3, <2>2, <2>6, RecordPut
  <2>8. BufferKeepsItsSize'
    <3> DEFINE Short(item) == Len(item) + 2 < BufferSize
               ShortRows   == \A n \in 1..Len(rows) : \A k \in 1..Len(rows[n].fields) :
                                Short(rows[n].fields[k])
               ShortList   == \A n \in 1..Len(constants) :
                                Short(constants[n].key) /\ Short(constants[n].value)
    <3>1. BufferKeepsItsSize <=> (ShortRows /\ ShortList => output.size = BufferSize)
      BY DEF BufferKeepsItsSize
    <3>2. SUFFICES ASSUME ShortRows', ShortList PROVE output'.size = BufferSize
      BY <1>3 DEF BufferKeepsItsSize
    <3>3. ShortRows
      <4>1. CASE rows' = rows
        BY <3>2, <4>1
      <4>2. CASE RowEvent(v, s)
        <5>1. PICK e : rows' = Append(rows, [fields |-> Append(row, v), eol |-> e])
          BY <4>2 DEF RowEvent
        <5>2. /\ Len(rows) \in Nat /\ Len(rows') = Len(rows) + 1
              /\ \A n \in 1..Len(rows) : rows'[n] = rows[n]
          BY <1>1, <5>1 DEF TypeOK
        <5> HIDE DEF Short
        <5> QED
          BY <3>2, <5>2
      <4> QED
        BY <2>1, <4>1, <4>2 DEF FieldEvent, NoEvent
    <3>4. output.size = BufferSize
      BY <1>1, <3>1, <3>2, <3>3
    <3>5. CASE ~Complete
      BY <1>3, <3>4, <3>5
    <3>6. CASE Complete
      <4> DEFINE r == Append(row, v)
      <4>1. record' = r /\ r \in Seq(Seq(Byte)) /\ output' = WriteRecord
        BY <1>3, <2>2, <2>6, <3>6
      <4>2. PICK e : rows' = Append(rows, [fields |-> r, eol |-> e])
        BY <2>2, <3>6 DEF RowEvent
      <4> HIDE DEF r
      <4>3. /\ Len(rows) + 1 \in 1..Len(rows') /\ rows'[Len(rows) + 1].fields = r
        BY <1>1, <4>2 DEF TypeOK
      <4>4. \A k \in 1..Len(r) : Short(r[k])
        <5> HIDE DEF Short
        <5> QED
          BY <3>2, <4>3
      <4>5. WriteRecord.size = output.size
        BY <1>1, <3>2, <3>4, <4>1, <4>4, RecordPut
      <4> QED
        BY <3>4, <4>1, <4>5
    <3> QED
      BY <3>5, <3>6
  <2> QED
    BY <1>2, <1>3, <1>1, <2>2, <2>5, <2>7, <2>8 DEF Sized
<1> QED
  BY <1>4, <1>5

\* So does every step.
LEMMA SizedStep ==
  ASSUME Sized, [WriterNext]_writerVars
  PROVE  Sized'
<1>1. /\ TypeOK /\ file \in Seq(Byte) /\ constants \in ConstantLists
      /\ record \in [1..Width -> Seq(Byte)] /\ output \in Buffer
      /\ phase = "reading" /\ ~stop => RecordIsRow
      /\ BufferKeepsItsSize
  BY DEF Sized
<1>2. CASE NextBlock /\ ReadNext
  <2>1. ReadBlock /\ UNCHANGED <<record, fieldCount, phase, constants, output>>
    BY <1>2 DEF NextBlock, ReadNext
  <2> DEFINE n == Smaller(BlockSize, Len(file))
  <2>2. /\ Parse(SubSeq(file, 1, n)) /\ ~stop
        /\ file' = SubSeq(file, n + 1, Len(file))
    BY <2>1 DEF ReadBlock
  <2>3. n \in Nat /\ n =< Len(file) /\ Len(file) \in Nat
    BY <1>1, FileAssumption DEF Smaller
  <2> HIDE DEF n
  <2>4. SubSeq(file, 1, n) \in Seq(Byte) /\ file' \in Seq(Byte)
    BY <1>1, <2>2, <2>3, SubSeqProperties
  <2>5. TypeOK'
    BY <1>1, <2>2, <2>4, ParseTyped
  <2>6. UNCHANGED <<row, rows>> /\ ~stop
    BY <2>2 DEF Parse
  <2> QED
    BY <1>1, <2>1, <2>4, <2>5, <2>6 DEF Sized, RecordIsRow, BufferKeepsItsSize
<1>3. CASE ReturnFromParse /\ ReadNext
  <2>1. LeaveLoop /\ UNCHANGED <<file, record, fieldCount, phase, constants, output>>
    BY <1>3 DEF ReturnFromParse, ReadNext, recordVars
  <2>2. TypeOK'
    BY <1>1, <2>1, OutOfLoopTyped
  <2>3. UNCHANGED <<row, rows, stop>>
    BY <2>1 DEF LeaveLoop
  <2> QED
    BY <1>1, <2>1, <2>2, <2>3 DEF Sized, RecordIsRow, BufferKeepsItsSize
<1>4. ASSUME NEW s \in BOOLEAN, ParserTurn(s, s), RecordCallback(s) PROVE Sized'
  BY <1>4, SizedCallback DEF ParserTurn
<1>5. ASSUME NEW s \in BOOLEAN, FinishParser(s, s), RecordCallback(s) PROVE Sized'
  BY <1>5, SizedCallback DEF FinishParser
<1>6. CASE WriteRest
  <2>1. /\ UNCHANGED <<vars, file, record, fieldCount, constants>>
        /\ phase' = "exited" /\ output' = Write(output)
    BY <1>6 DEF WriteRest, Exit, WriteOutputFile
  <2>2. TypeOK'
    BY <1>1, <2>1, StutterTyped
  <2>3. rows' = rows
    BY <2>1 DEF vars
  <2>4. output' \in Buffer /\ output'.size = output.size
    BY <1>1, <2>1, WriteKeeps
  <2> QED
    BY <1>1, <2>1, <2>2, <2>3, <2>4 DEF Sized, BufferKeepsItsSize
<1>7. CASE UNCHANGED writerVars
  <2>1. UNCHANGED <<vars, file, record, fieldCount, phase, constants, output>>
    BY <1>7 DEF writerVars, recordVars
  <2>2. TypeOK'
    BY <1>1, <2>1, StutterTyped
  <2>3. UNCHANGED <<row, rows, stop>>
    BY <2>1 DEF vars
  <2> QED
    BY <1>1, <2>1, <2>2, <2>3 DEF Sized, RecordIsRow, BufferKeepsItsSize
<1> QED
  BY <1>2, <1>3, <1>4, <1>5, <1>6, <1>7 DEF WriterNext, ReadNext, ParseNext, FinishNext

\* The output buffer never has to grow for items that are shorter than it by more than
\* two bytes: the room that recordcb() leaves is enough for the separator, the end of the
\* line and the end of the String, which are appended without a check.
THEOREM BufferSizeKept == WriterSpec => []BufferKeepsItsSize
<1>1. Sized => BufferKeepsItsSize
  BY DEF Sized
<1>2. WriterInit => Sized
  BY SizedInit
<1>3. Sized /\ [WriterNext]_writerVars => Sized'
  BY SizedStep
<1> QED
  BY <1>1, <1>2, <1>3, PTL DEF WriterSpec

-----------------------------------------------------------------------------
(* The table that is written. *)

\* What was written are the rows of a table, and nothing of another row.
WrittenAs(s, rowsOf) == Table(s, US, {LF}) = rowsOf /\ LastPiece(s, {LF}) = <<>>

\* Behind these rows the fields q of another one were written, and f of the field
\* behind them; a row of one empty field is not there yet.
Writing(s, rowsOf, q, f) ==
  IF Append(q, f) = << <<>> >>
  THEN WrittenAs(s, rowsOf)
  ELSE Table(s, US, {LF}) = Append(rowsOf, Append(q, f)) /\ LastPiece(s, {LF}) # <<>>

\* The bytes that neither end a field nor a row of the output.
Data == Byte \ {US, LF}

\* They are bytes, and the bytes that end a field and a row are two others.
LEMMA DataTyped ==
  /\ \A f \in Seq(Data) : f \in Seq(Byte)
  /\ \A r \in Seq(Seq(Data)) : r \in Seq(Seq(Byte))
  /\ US \in Byte /\ LF \in Byte /\ US # LF
<1>1. \A f \in Seq(Data) : f \in Seq(Byte)
  BY DEF Data
<1>2. \A r \in Seq(Seq(Data)) : r \in Seq(Seq(Byte))
  BY <1>1
<1> QED
  BY <1>1, <1>2, RecordAssumption, ByteAssumption

\* Any byte but the end of a row makes the row grow,
LEMMA WritingGrows ==
  ASSUME NEW s \in Seq(Byte), NEW T \in Seq(Seq(Seq(Byte))), NEW q \in Seq(Seq(Byte)),
         NEW f \in Seq(Byte), NEW b \in Byte, b # LF, Writing(s, T, q, f)
  PROVE  /\ Table(Append(s, b), US, {LF}) = Append(T, Grown(Append(q, f), b, US))
         /\ LastPiece(Append(s, b), {LF}) # <<>>
<1> DEFINE prev == Table(s, US, {LF})
           new  == Table(Append(s, b), US, {LF})
           line == LastPiece(s, {LF})
           next == LastPiece(Append(s, b), {LF})
           all  == Append(q, f)
           more == Grown(all, b, US)
<1>1. line \in Seq(Byte) /\ next = Append(line, b) /\ Grows(prev, new, line, b, US, {LF})
  <2>1. ByteAdded(Byte, s, b, US, {LF})
    BY TableGrows
  <2> QED
    BY <2>1 DEF ByteAdded
<1>2. all \in Seq(Seq(Byte)) /\ more \in Seq(Seq(Byte))
  <2>1. all \in Seq(Seq(Byte)) /\ Append(all, <<>>) \in Seq(Seq(Byte))
        /\ Append(q, Append(f, b)) \in Seq(Seq(Byte))
    OBVIOUS
  <2>2. more = IF b = US THEN Append(all, <<>>) ELSE Append(q, Append(f, b))
    <3>1. RowGrows(q, f, b, US)
      BY GrownRow
    <3> QED
      BY <3>1 DEF RowGrows
  <2> QED
    BY <2>1, <2>2
<1>3. /\ Append(T, all)[Len(Append(T, all))] = all
      /\ WithLast(Append(T, all), more) = Append(T, more)
  <2> HIDE DEF all, more
  <2> QED
    BY <1>2, LastExchanged
<1>4. next # <<>>
  <2> HIDE DEF line
  <2> QED
    BY <1>1, AppendProperties
<1>5. CASE all = << <<>> >>
  <2>1. prev = T /\ line = <<>>
    BY <1>5 DEF Writing, WrittenAs
  <2>2. new = Append(T, more)
    <3> HIDE DEF prev, new, line, all
    <3> QED
      BY <1>1, <1>5, <2>1 DEF Grows, more
  <2> QED
    BY <1>4, <2>2
<1>6. CASE all # << <<>> >>
  <2>1. prev = Append(T, all) /\ line # <<>>
    BY <1>6 DEF Writing
  <2>2. new = WithLast(prev, Grown(prev[Len(prev)], b, US))
    <3> HIDE DEF prev, new, line, all
    <3> QED
      BY <1>1, <2>1 DEF Grows
  <2>3. new = Append(T, more)
    <3> HIDE DEF prev, new, line, all
    <3> QED
      BY <1>3, <2>1, <2>2 DEF more
  <2> QED
    BY <1>4, <2>3
<1> QED
  BY <1>5, <1>6

\* a separator by a field,
LEMMA WritingSeparator ==
  ASSUME NEW s \in Seq(Byte), NEW T \in Seq(Seq(Seq(Byte))), NEW q \in Seq(Seq(Byte)),
         NEW f \in Seq(Byte), Writing(s, T, q, f)
  PROVE  Writing(Append(s, US), T, Append(q, f), <<>>)
<1> DEFINE all == Append(q, f)
<1>1. US \in Byte /\ US # LF
  BY DataTyped
<1>2. /\ Table(Append(s, US), US, {LF}) = Append(T, Grown(all, US, US))
      /\ LastPiece(Append(s, US), {LF}) # <<>>
  BY <1>1, WritingGrows
<1>3. Grown(all, US, US) = Append(all, <<>>)
  BY DEF Grown
<1>4. Append(all, <<>>) # << <<>> >>
  <2>1. all \in Seq(Seq(Byte)) /\ Len(all) = Len(q) + 1 /\ Len(q) \in Nat
    OBVIOUS
  <2> HIDE DEF all
  <2>2. <<>> \in Seq(Byte) /\ Len(<< <<>> >>) = 1
    OBVIOUS
  <2>3. Len(Append(all, <<>>)) = Len(all) + 1
    BY <2>1, <2>2, AppendProperties
  <2>4. ASSUME Append(all, <<>>) = << <<>> >> PROVE FALSE
    <3>1. Len(Append(all, <<>>)) = 1
      BY <2>2, <2>4
    <3> QED
      BY <2>1, <2>3, <3>1
  <2> QED
    BY <2>4
<1> QED
  BY <1>2, <1>3, <1>4 DEF Writing

\* A sequence of bytes with one more byte is one, and is not empty.
LEMMA ByteAppended ==
  ASSUME NEW f \in Seq(Byte), NEW b \in Byte
  PROVE  Append(f, b) \in Seq(Byte) /\ Append(f, b) # <<>>
BY AppendProperties

\* and another byte in its last field.
LEMMA WritingData ==
  ASSUME NEW s \in Seq(Byte), NEW T \in Seq(Seq(Seq(Byte))), NEW q \in Seq(Seq(Byte)),
         NEW f \in Seq(Byte), NEW b \in Data, Writing(s, T, q, f)
  PROVE  Writing(Append(s, b), T, q, Append(f, b))
<1> DEFINE g   == Append(f, b)
           all == Append(q, g)
<1>1. b \in Byte /\ b # LF /\ b # US
  BY DEF Data
<1>2. /\ Table(Append(s, b), US, {LF}) = Append(T, Grown(Append(q, f), b, US))
      /\ LastPiece(Append(s, b), {LF}) # <<>>
  BY <1>1, WritingGrows
<1>3. Grown(Append(q, f), b, US) = all
  <2>1. RowGrows(q, f, b, US)
    BY <1>1, GrownRow
  <2> QED
    BY <1>1, <2>1 DEF RowGrows
<1>4. all # << <<>> >>
  <2> HIDE DEF g, all
  <2>1. g \in Seq(Byte) /\ g # <<>>
    BY <1>1, ByteAppended DEF g
  <2> USE DEF all
  <2>2. Len(all) = Len(q) + 1 /\ all[Len(q) + 1] = g /\ Len(q) \in Nat
    BY <2>1, AppendProperties
  <2>3. Len(<< <<>> >>) = 1 /\ << <<>> >>[1] = <<>>
    OBVIOUS
  <2> HIDE DEF all
  <2>4. ASSUME all = << <<>> >> PROVE FALSE
    <3>1. Len(q) + 1 = 1
      BY <2>2, <2>3, <2>4
    <3> QED
      BY <2>1, <2>2, <2>3, <2>4, <3>1
  <2> QED
    BY <2>4
<1> HIDE DEF all, g
<1> QED
  BY <1>2, <1>3, <1>4 DEF Writing, all, g

\* The end of the row completes it.
LEMMA WritingEnd ==
  ASSUME NEW s \in Seq(Byte), NEW T \in Seq(Seq(Seq(Byte))), NEW q \in Seq(Seq(Byte)),
         NEW f \in Seq(Byte), Writing(s, T, q, f), Append(q, f) # << <<>> >>
  PROVE  WrittenAs(Append(s, LF), Append(T, Append(q, f)))
<1>1. LF \in Byte /\ LF \in {LF}
  BY DataTyped
<1>2. ByteAdded(Byte, s, LF, US, {LF})
  BY <1>1, TableGrows
<1> QED
  BY <1>1, <1>2 DEF ByteAdded, Grows, Writing, WrittenAs

\* An item is written into the field that begins.
LEMMA WritingItem ==
  ASSUME NEW s \in Seq(Byte), NEW T \in Seq(Seq(Seq(Byte))), NEW q \in Seq(Seq(Byte)),
         NEW item \in Seq(Data), Writing(s, T, q, <<>>)
  PROVE  Writing(s \o item, T, q, item)
<1> DEFINE x(k) == SubSeq(item, 1, k)
           D == {k \in Nat : k =< Len(item) => Writing(s \o x(k), T, q, x(k))}
<1>1. 0 \in D
  <2>1. x(0) = <<>> /\ s \o <<>> = s
    OBVIOUS
  <2> HIDE DEF x
  <2> QED
    BY <2>1
<1>2. ASSUME NEW k \in D PROVE k + 1 \in D
  <2>1. SUFFICES ASSUME k + 1 =< Len(item) PROVE Writing(s \o x(k + 1), T, q, x(k + 1))
    BY <1>2
  <2>2. k \in Nat /\ k < Len(item) /\ Writing(s \o x(k), T, q, x(k))
    BY <1>2, <2>1
  <2> DEFINE b == item[k + 1]
  <2>3. x(k) \in Seq(Data) /\ b \in Data /\ x(k + 1) = Append(x(k), b)
    BY <2>2, PrefixGrows
  <2> HIDE DEF x, b
  <2>4. x(k) \in Seq(Byte) /\ b \in Byte
    BY <2>3, DataTyped DEF Data
  <2>5. s \o x(k) \in Seq(Byte) /\ s \o Append(x(k), b) = Append(s \o x(k), b)
    BY <2>4
  <2>6. Writing(Append(s \o x(k), b), T, q, Append(x(k), b))
    BY <2>2, <2>3, <2>4, <2>5, WritingData
  <2> QED
    BY <2>3, <2>5, <2>6
<1>3. D = Nat
  <2>1. D \in SUBSET Nat
    OBVIOUS
  <2> HIDE DEF D
  <2> QED
    BY <1>1, <1>2, <2>1, InductionOnNat
<1>4. Len(item) \in Nat /\ x(Len(item)) = item
  <2>1. /\ x(Len(item)) \in Seq(Data) /\ Len(x(Len(item))) = Len(item)
        /\ \A k \in 1..Len(item) : x(Len(item))[k] = item[k]
    BY SubSeqProperties
  <2> HIDE DEF x
  <2> QED
    BY <2>1, SeqEqual
<1>5. Writing(s \o x(Len(item)), T, q, x(Len(item)))
  <2>1. Len(item) \in D
    <3> HIDE DEF D
    <3> QED
      BY <1>3, <1>4
  <2> HIDE DEF x
  <2> QED
    BY <1>4, <2>1
<1> HIDE DEF x
<1> QED
  BY <1>4, <1>5

\* A content is a text, and an item with the byte behind it makes it longer.
LEMMA ContentGrows ==
  ASSUME NEW buffer \in Buffer, NEW item \in Seq(Byte), NEW b \in Byte
  PROVE  /\ Content(buffer) \in Seq(Byte) /\ Content(buffer) \o item \in Seq(Byte)
         /\ PutItem(buffer, item, <<b>>) \in Buffer
         /\ Content(PutItem(buffer, item, <<b>>)) = Append(Content(buffer) \o item, b)
<1>1. buffer.written \in Seq(Byte) /\ buffer.held \in Seq(Byte) /\ <<b>> \in Seq(Byte)
  BY DEF Buffer
<1>2. Content(buffer) \in Seq(Byte)
  BY <1>1 DEF Content
<1>3. /\ PutItem(buffer, item, <<b>>) \in Buffer
      /\ Content(PutItem(buffer, item, <<b>>)) = Content(buffer) \o (item \o <<b>>)
  BY <1>1, PutAddsTheItem
<1>4. ASSUME NEW c \in Seq(Byte)
      PROVE  c \o item \in Seq(Byte) /\ c \o (item \o <<b>>) = Append(c \o item, b)
  OBVIOUS
<1> QED
  BY <1>2, <1>3, <1>4

\* The pieces of a row: a separator behind each field but the last, and the end of the
\* row behind that one.
PiecesOf(items) ==
  [n \in 1..Len(items) |-> <<items[n], IF n < Len(items) THEN <<US>> ELSE <<LF>> >>]

\* They are pieces.
LEMMA PiecesOfTyped ==
  ASSUME NEW items \in Seq(Seq(Byte))
  PROVE  PiecesOf(items) \in Seq(Pieces) /\ Len(PiecesOf(items)) = Len(items)
<1> DEFINE one(n) == <<items[n], IF n < Len(items) THEN <<US>> ELSE <<LF>> >>
<1>1. Len(items) \in Nat /\ \A n \in 1..Len(items) : items[n] \in Seq(Byte)
  OBVIOUS
<1>2. ASSUME NEW n \in 1..Len(items) PROVE one(n) \in Pieces
  <2>1. PICK b \in Byte : (IF n < Len(items) THEN <<US>> ELSE <<LF>>) = <<b>>
    BY DataTyped
  <2>2. items[n] \in Seq(Byte) /\ <<b>> \in {<<c>> : c \in Byte}
    BY <1>1
  <2> QED
    BY <2>1, <2>2 DEF Pieces
<1>3. PiecesOf(items) = [n \in 1..Len(items) |-> one(n)]
  BY DEF PiecesOf
<1> HIDE DEF one
<1>4. PiecesOf(items) \in Seq(Pieces)
  BY <1>1, <1>2, <1>3, IsASeq
<1> QED
  BY <1>1, <1>3, <1>4

\* A row that is put into the buffer is a row more of the table that is written, wherever
\* the buffer is written to the file.
LEMMA RecordWritten ==
  ASSUME NEW buffer \in Buffer, NEW items \in Seq(Seq(Data)), Len(items) > 0,
         items # << <<>> >>,
         NEW T \in Seq(Seq(Seq(Byte))), WrittenAs(Content(buffer), T)
  PROVE  WrittenAs(Content(PutAll(buffer, PiecesOf(items))), Append(T, items))
<1> DEFINE pieces == PiecesOf(items)
           q(n)   == SubSeq(items, 1, n)
           last   == Len(items) - 1
<1>1. /\ items \in Seq(Seq(Byte)) /\ Len(items) \in Nat /\ last \in Nat
      /\ pieces \in Seq(Pieces) /\ Len(pieces) = Len(items)
  BY DataTyped, PiecesOfTyped
<1>2. PICK h : Puts(h, buffer, pieces) /\ PutAll(buffer, pieces) = h[Len(pieces)]
  BY <1>1, PutAllIs
<1> DEFINE Good(n) == h[n] \in Buffer /\ Writing(Content(h[n]), T, q(n), <<>>)
           D == {n \in Nat : n =< last => Good(n)}
<1>3. ASSUME NEW n \in Nat, n =< last, Good(n), NEW b \in Byte,
             pieces[n + 1] = <<items[n + 1], <<b>> >>
      PROVE  /\ h[n + 1] \in Buffer
             /\ q(n) \in Seq(Seq(Byte)) /\ items[n + 1] \in Seq(Byte)
             /\ q(n + 1) = Append(q(n), items[n + 1])
             /\ Content(h[n]) \o items[n + 1] \in Seq(Byte)
             /\ Content(h[n + 1]) = Append(Content(h[n]) \o items[n + 1], b)
             /\ Writing(Content(h[n]) \o items[n + 1], T, q(n), items[n + 1])
  <2>1. n < Len(items) /\ n + 1 \in 1..Len(pieces) /\ (n + 1) - 1 = n /\ h[n] \in Buffer
        /\ h[(n + 1) - 1] \in Buffer
    <3> HIDE DEF pieces
    <3> QED
      BY <1>1, <1>3
  <2>2. /\ q(n) \in Seq(Seq(Data)) /\ items[n + 1] \in Seq(Data)
        /\ q(n + 1) = Append(q(n), items[n + 1])
    BY <2>1, PrefixGrows
  <2>3. q(n) \in Seq(Seq(Byte)) /\ items[n + 1] \in Seq(Byte)
    BY <2>2, DataTyped
  <2>4. h[n + 1] = PutItem(h[n], items[n + 1], <<b>>)
    <3>1. h[n + 1] = PutItem(h[n], pieces[n + 1][1], pieces[n + 1][2])
      <4> DEFINE m == n + 1
      <4>1. m \in 1..Len(pieces) /\ h[m - 1] \in Buffer /\ m - 1 = n
        BY <2>1
      <4> HIDE DEF pieces, q, m, Good
      <4>2. h[m] = PutItem(h[m - 1], pieces[m][1], pieces[m][2])
        BY <1>1, <1>2, <4>1, PutOne
      <4> QED
        BY <4>1, <4>2 DEF m
    <3>2. pieces[n + 1][1] = items[n + 1] /\ pieces[n + 1][2] = <<b>>
      BY <1>3
    <3> QED
      BY <3>1, <3>2
  <2> HIDE DEF pieces, q
  <2>5. /\ Content(h[n]) \in Seq(Byte) /\ Content(h[n]) \o items[n + 1] \in Seq(Byte)
        /\ h[n + 1] \in Buffer
        /\ Content(h[n + 1]) = Append(Content(h[n]) \o items[n + 1], b)
    <3> DEFINE i == items[n + 1]
               g == h[n]
    <3>1. g \in Buffer /\ i \in Seq(Byte)
      BY <2>1, <2>3
    <3> HIDE DEF i, g
    <3>2. /\ Content(g) \in Seq(Byte) /\ Content(g) \o i \in Seq(Byte)
          /\ PutItem(g, i, <<b>>) \in Buffer
          /\ Content(PutItem(g, i, <<b>>)) = Append(Content(g) \o i, b)
      BY <3>1, ContentGrows
    <3> QED
      BY <2>4, <3>2 DEF i, g
  <2>6. Writing(Content(h[n]) \o items[n + 1], T, q(n), items[n + 1])
    BY <1>3, <2>2, <2>3, <2>5, WritingItem
  <2> QED
    BY <2>2, <2>3, <2>5, <2>6
<1>4. 0 \in D
  <2>1. h[0] = buffer
    BY <1>1, <1>2 DEF Puts
  <2>2. q(0) = <<>> /\ Append(<<>>, <<>>) = << <<>> >>
    OBVIOUS
  <2>3. Writing(Content(buffer), T, <<>>, <<>>)
    BY <2>2 DEF Writing
  <2> QED
    BY <2>1, <2>2, <2>3
<1>5. ASSUME NEW n \in D PROVE n + 1 \in D
  <2>1. SUFFICES ASSUME n + 1 =< last PROVE Good(n + 1)
    BY <1>5
  <2>2. n \in Nat /\ n =< last /\ n + 1 < Len(items) /\ Good(n)
    BY <1>1, <1>5, <2>1
  <2>3. US \in Byte /\ pieces[n + 1] = <<items[n + 1], <<US>> >>
    BY <2>2, DataTyped DEF PiecesOf
  <2> DEFINE i == items[n + 1]
  <2>4. /\ h[n + 1] \in Buffer /\ q(n) \in Seq(Seq(Byte)) /\ i \in Seq(Byte)
        /\ q(n + 1) = Append(q(n), i) /\ Content(h[n]) \o i \in Seq(Byte)
        /\ Content(h[n + 1]) = Append(Content(h[n]) \o i, US)
        /\ Writing(Content(h[n]) \o i, T, q(n), i)
    BY <1>3, <2>2, <2>3
  <2> HIDE DEF q, i
  <2>5. Writing(Append(Content(h[n]) \o i, US), T, Append(q(n), i), <<>>)
    BY <2>4, WritingSeparator
  <2> QED
    BY <2>4, <2>5
<1>6. D = Nat
  <2>1. D \in SUBSET Nat
    OBVIOUS
  <2> HIDE DEF D
  <2> QED
    BY <1>4, <1>5, <2>1, InductionOnNat
<1>7. Good(last)
  <2>1. last \in D
    <3> HIDE DEF D
    <3> QED
      BY <1>1, <1>6
  <2> HIDE DEF Good
  <2> QED
    BY <1>1, <2>1
<1> DEFINE i == items[last + 1]
<1>8. LF \in Byte /\ pieces[last + 1] = <<i, <<LF>> >> /\ last + 1 = Len(items)
  BY <1>1, DataTyped DEF PiecesOf
<1>9. /\ q(last) \in Seq(Seq(Byte)) /\ i \in Seq(Byte)
      /\ q(last + 1) = Append(q(last), i) /\ Content(h[last]) \o i \in Seq(Byte)
      /\ Content(h[last + 1]) = Append(Content(h[last]) \o i, LF)
      /\ Writing(Content(h[last]) \o i, T, q(last), i)
  <2>1. last \in Nat /\ last =< last
    BY <1>1
  <2> HIDE DEF last, q, Good, pieces
  <2> QED
    BY <1>3, <1>7, <1>8, <2>1
<1>10. q(last + 1) = items
  <2>1. /\ q(Len(items)) \in Seq(Seq(Byte)) /\ Len(q(Len(items))) = Len(items)
        /\ \A k \in 1..Len(items) : q(Len(items))[k] = items[k]
    BY <1>1, SubSeqProperties
  <2> HIDE DEF q
  <2> QED
    BY <1>1, <1>8, <2>1, SeqEqual
<1> HIDE DEF q, i, last
<1>11. WrittenAs(Append(Content(h[last]) \o i, LF), Append(T, items))
  BY <1>9, <1>10, WritingEnd
<1> QED
  BY <1>1, <1>2, <1>8, <1>9, <1>11

-----------------------------------------------------------------------------
(* The rows that the programs write. *)

\* The bytes with which a program writes are not in what it writes: a file with 0x1f in
\* it is read with 0x1f as the delimiter,
OwnSeparator == delimiter = <<US>> \/ \A k \in 1..Len(contents) : contents[k] # US

\* and no constant has 0x1f or 0x0a in it.
CleanConstants ==
  \A list \in ConstantLists : \A n \in 1..Len(list) :
    list[n].key \in Seq(Data) /\ list[n].value \in Seq(Data)

\* The rows of the input are written as they are read.
LEMMA InputClean ==
  ASSUME contents \in Seq(Byte), OwnSeparator, NEW n \in 1..Len(Input)
  PROVE  Input[n] \in Seq(Seq(Data)) /\ Input[n] # << <<>> >>
<1>1. ASSUME NEW A, contents \in Seq(A), (A \ Eol) \ {SimpleFS} \subseteq Data
      PROVE  Input[n] \in Seq(Seq(Data)) /\ Input[n] # << <<>> >>
  <2> DEFINE C == (A \ Eol) \ {SimpleFS}
  <2>1. Input[n] \in Seq(Seq(C)) /\ Input[n] # << <<>> >>
    BY <1>1, RowsClean DEF Input
  <2>2. C \subseteq Data
    BY <1>1
  <2> HIDE DEF C
  <2>3. \A r \in Seq(Seq(C)) : r \in Seq(Seq(Data))
    BY <2>2
  <2> QED
    BY <2>1, <2>3
<1>2. LF \in Eol
  BY RecordAssumption
<1>3. CASE delimiter = <<US>>
  <2>1. SimpleFS = US
    <3>1. <<US>> # <<>> /\ <<US>>[1] = US
      OBVIOUS
    <3> QED
      BY <1>3, <3>1 DEF SimpleFS
  <2> QED
    BY <1>1, <1>2, <2>1 DEF Data
<1>4. CASE \A k \in 1..Len(contents) : contents[k] # US
  <2>1. contents \in Seq(Byte \ {US})
    BY <1>4
  <2> QED
    BY <1>1, <1>2, <2>1 DEF Data
<1> QED
  BY <1>3, <1>4 DEF OwnSeparator

\* A row with the constants behind its fields, as Extended says of the input.
Longer(r, n) ==
  r \o [k \in 1..Len(constants) |-> IF n = 1 THEN constants[k].key ELSE constants[k].value]

\* The first rows of a table, each with the constants.
LongRows(table, m) == [n \in 1..m |-> Longer(table[n], n)]

\* What stands behind a row are values, clean ones if the constants are.
LEMMA LongerTyped ==
  ASSUME constants \in ConstantLists, NEW n \in Nat, NEW r \in Seq(Seq(Byte))
  PROVE  /\ Longer(r, n) \in Seq(Seq(Byte))
         /\ CleanConstants /\ r \in Seq(Seq(Data)) => Longer(r, n) \in Seq(Seq(Data))
         /\ Len(r) > 0 /\ r # << <<>> >> => Len(Longer(r, n)) > 0 /\ Longer(r, n) # << <<>> >>
<1> DEFINE one(k) == IF n = 1 THEN constants[k].key ELSE constants[k].value
           tail   == [k \in 1..Len(constants) |-> one(k)]
<1>1. /\ Len(constants) \in Nat
      /\ \A k \in 1..Len(constants) :
           constants[k].key \in Seq(Byte) /\ constants[k].value \in Seq(Byte)
  BY ConstantsTyped
<1>2. \A k \in 1..Len(constants) : one(k) \in Seq(Byte)
  BY <1>1
<1>3. CleanConstants => \A k \in 1..Len(constants) : one(k) \in Seq(Data)
  BY DEF CleanConstants
<1>4. Longer(r, n) = r \o tail
  BY DEF Longer
<1> HIDE DEF one
<1>5. tail \in Seq(Seq(Byte))
  BY <1>1, <1>2, IsASeq
<1>6. CleanConstants => tail \in Seq(Seq(Data))
  BY <1>1, <1>3, IsASeq
<1> HIDE DEF tail
<1>7. /\ r \o tail \in Seq(Seq(Byte)) /\ Len(r \o tail) = Len(r) + Len(tail)
      /\ Len(tail) \in Nat /\ Len(r) \in Nat
      /\ \A k \in 1..Len(r) : (r \o tail)[k] = r[k]
  <2>1. r \o tail \in Seq(Seq(Byte)) /\ Len(r \o tail) = Len(r) + Len(tail)
    BY <1>5, ConcatProperties, Zenon
  <2>2. \A k \in 1..(Len(r) + Len(tail)) :
          (r \o tail)[k] = IF k =< Len(r) THEN r[k] ELSE tail[k - Len(r)]
    BY <1>5, ConcatProperties, Zenon
  <2> DEFINE all == r \o tail
  <2>3. Len(tail) \in Nat /\ Len(r) \in Nat
    BY <1>5
  <2> HIDE DEF all
  <2>4. \A k \in 1..Len(r) : all[k] = r[k]
    BY <2>2, <2>3 DEF all
  <2> QED
    BY <2>1, <2>3, <2>4 DEF all
<1>8. ASSUME CleanConstants, r \in Seq(Seq(Data)) PROVE r \o tail \in Seq(Seq(Data))
  BY <1>6, <1>8, ConcatProperties, Zenon
<1>9. ASSUME Len(r) > 0, r # << <<>> >>
      PROVE  Len(r \o tail) > 0 /\ r \o tail # << <<>> >>
  <2> DEFINE all == r \o tail
  <2>1. /\ Len(all) = Len(r) + Len(tail) /\ \A k \in 1..Len(r) : all[k] = r[k]
        /\ Len(r) \in Nat /\ Len(tail) \in Nat /\ all \in Seq(Seq(Byte))
    BY <1>7
  <2> HIDE DEF all
  <2>2. ASSUME all = << <<>> >> PROVE FALSE
    <3>1. Len(all) = 1 /\ all[1] = <<>>
      BY <2>2
    <3>2. Len(r) = 1 /\ r[1] = <<>>
      <4>1. Len(r) = 1 /\ 1 \in 1..Len(r)
        <5>1. \A a, b \in Nat : a > 0 /\ a + b = 1 => a = 1 /\ 1 \in 1..a
          OBVIOUS
        <5>2. Len(r) \in Nat /\ Len(tail) \in Nat /\ Len(r) > 0 /\ Len(r) + Len(tail) = 1
          BY <1>9, <2>1, <3>1
        <5> QED
          BY <5>1, <5>2
      <4>2. all[1] = r[1]
        BY <2>1, <4>1
      <4> QED
        BY <3>1, <4>1, <4>2
    <3>3. r = << <<>> >>
      <4>1. << <<>> >> \in Seq(Seq(Byte)) /\ Len(<< <<>> >>) = 1 /\ << <<>> >>[1] = <<>>
        OBVIOUS
      <4>2. \A k \in 1..Len(r) : r[k] = << <<>> >>[k]
        BY <3>2, <4>1
      <4> QED
        BY <3>2, <4>1, <4>2, SeqEqual
    <3> QED
      BY <1>9, <3>3
  <2>3. Len(all) > 0
    BY <1>9, <2>1
  <2> QED
    BY <2>2, <2>3 DEF all
<1> QED
  BY <1>4, <1>7, <1>8, <1>9

\* A row more is another one with the constants behind the others.
LEMMA LongRowsGrow ==
  ASSUME constants \in ConstantLists, NEW table \in Seq(Seq(Seq(Byte))),
         NEW r \in Seq(Seq(Byte))
  PROVE  /\ LongRows(table, Len(table)) \in Seq(Seq(Seq(Byte)))
         /\ LongRows(Append(table, r), Len(table)) = LongRows(table, Len(table))
         /\ LongRows(Append(table, r), Len(table) + 1)
              = Append(LongRows(table, Len(table)), Longer(r, Len(table) + 1))
<1> DEFINE m      == Len(table)
           more   == Append(table, r)
<1>10. /\ m \in Nat /\ m = Len(table)
       /\ Len(more) = m + 1 /\ more[m + 1] = r /\ \A n \in 1..m : more[n] = table[n]
  BY AppendProperties
<1> HIDE DEF m, more
<1> DEFINE one(n) == Longer(table[n], n)
           old1   == LongRows(table, m)
           next   == LongRows(more, m + 1)
           all    == Append(old1, Longer(r, m + 1))
<1>1. \A n \in 1..m : one(n) \in Seq(Seq(Byte))
  <2>1. ASSUME NEW n \in 1..m PROVE table[n] \in Seq(Seq(Byte)) /\ n \in Nat
    BY <1>10
  <2> QED
    BY <2>1, LongerTyped
<1>2. old1 = [n \in 1..m |-> one(n)]
  BY DEF LongRows
<1>3. old1 \in Seq(Seq(Seq(Byte))) /\ Len(old1) = m /\ \A n \in 1..m : old1[n] = one(n)
  <2> HIDE DEF one
  <2>1. [n \in 1..m |-> one(n)] \in Seq(Seq(Seq(Byte)))
    BY <1>1, <1>10, IsASeq
  <2> QED
    BY <1>2, <1>10, <2>1
<1>4. LongRows(more, m) = old1
  BY <1>10 DEF LongRows
<1>5. Longer(r, m + 1) \in Seq(Seq(Byte))
  BY <1>10, LongerTyped
<1>6. next = [n \in 1..(m + 1) |-> Longer(more[n], n)]
  BY DEF LongRows
<1> HIDE DEF old1, next
<1>7. /\ all \in Seq(Seq(Seq(Byte))) /\ Len(all) = m + 1
      /\ all[m + 1] = Longer(r, m + 1) /\ \A n \in 1..m : all[n] = old1[n]
  BY <1>3, <1>5, <1>10, AppendProperties
<1>8. \A n \in 1..(m + 1) : all[n] = Longer(more[n], n)
  <2>1. ASSUME NEW n \in 1..(m + 1) PROVE all[n] = Longer(more[n], n)
    <3>1. CASE n = m + 1
      BY <1>7, <1>10, <3>1
    <3>2. CASE n # m + 1
      <4>1. n \in 1..m
        <5>1. \A a \in Nat : \A k \in 1..(a + 1) : k # a + 1 => k \in 1..a
          OBVIOUS
        <5> QED
          BY <1>10, <3>2, <5>1
      <4> HIDE DEF all
      <4> QED
        BY <1>3, <1>7, <1>10, <4>1
    <3> QED
      BY <3>1, <3>2
  <2> QED
    BY <2>1
<1> HIDE DEF all
<1>9. next = all
  <2>1. all = [n \in 1..(m + 1) |-> all[n]]
    BY <1>7
  <2> QED
    BY <1>6, <1>8, <2>1
<1> QED
  BY <1>3, <1>4, <1>9 DEF old1, next, all, m, more

\* A record that is written makes the table of what was written longer by its row.
LEMMA RecordAdded ==
  ASSUME TypeOK, constants \in ConstantLists, CleanConstants, output \in Buffer,
         NEW r \in Seq(Seq(Data)), Len(r) > 0, r # << <<>> >>, record' = r,
         NEW T \in Seq(Seq(Seq(Byte))), WrittenAs(Content(output), T)
  PROVE  WrittenAs(Content(WriteRecord), Append(T, Longer(r, Len(rows) + 1)))
<1> DEFINE m     == Len(rows) + 1
           items == Longer(r, m)
<1>1. m \in Nat /\ (rows = <<>> <=> m = 1)
  <2>1. rows \in Seq([fields : Seq(Seq(Byte)), eol : Byte])
    BY DEF TypeOK
  <2> QED
    BY <2>1
<1> HIDE DEF m
<1>2. Items = items
  BY <1>1 DEF Items, ConstantItems, Longer
<1>3. /\ items \in Seq(Seq(Data)) /\ Len(items) > 0 /\ items # << <<>> >>
  BY <1>1, DataTyped, LongerTyped
<1>4. WriteRecord = PutAll(output, PiecesOf(items))
  BY <1>2 DEF WriteRecord, PiecesOf, Behind
<1> HIDE DEF items
<1>5. WrittenAs(Content(PutAll(output, PiecesOf(items))), Append(T, items))
  BY <1>3, RecordWritten
<1> QED
  BY <1>4, <1>5 DEF items, m

\* How many of the reported rows are written: all but one of the wrong length.
Kept == IF valid THEN Len(Fields) ELSE Len(Fields) - 1

\* The rows of the right length are written as far as they are reported, and what is
\* reported is the input, or the beginning of it up to the first row of the wrong length.
Wrote ==
  /\ Verdict /\ Sized
  /\ OwnSeparator /\ contents \in Seq(Byte) /\ old \in Seq(Byte)
  /\ Kept \in Nat
  /\ \A n \in 1..Len(Fields) : Len(Fields[n]) = Width <=> n =< Kept
  /\ ~valid => BeginsWith(Input, Fields)
  /\ valid /\ phase \in {"finished", "exited"} => Fields = Input
  /\ WrittenAs(Content(output), LongRows(Fields, Kept))
  /\ phase = "exited" => output.held = <<>>

\* The programs begin with nothing that is reported or written.
LEMMA WroteInit == ASSUME PlainFiles, WriterInit, OwnSeparator PROVE Wrote
<1>1. Verdict /\ Sized
  BY VerdictInit, SizedInit
<1>2. /\ OpenInputFile /\ NewParser /\ old \in OldFiles /\ output = EmptyBuffer
      /\ valid = TRUE /\ phase = "reading"
  BY DEF WriterInit, StartReading
<1>3. contents \in Seq(Byte) /\ old \in Seq(Byte)
  BY <1>2, FileAssumption, ConstantsAssumption DEF OpenInputFile
<1>4. Fields = <<>> /\ Len(Fields) = 0
  <2>1. rows = <<>>
    BY <1>2 DEF NewParser
  <2> QED
    BY <2>1 DEF Fields
<1>5. Kept = 0 /\ LongRows(Fields, 0) = <<>>
  BY <1>2, <1>4 DEF Kept, LongRows
<1>6. Content(output) = <<>>
  BY <1>2 DEF EmptyBuffer, Content
<1>7. WrittenAs(<<>>, <<>>)
  BY TableOfNothing DEF WrittenAs
<1> QED
  BY <1>1, <1>2, <1>3, <1>4, <1>5, <1>6, <1>7 DEF Wrote

\* A step that reports nothing and writes nothing new keeps it.
LEMMA WroteStays ==
  ASSUME Wrote, Verdict', Sized', UNCHANGED <<Fields, valid, constants, contents, delimiter, old>>,
         Content(output') = Content(output), phase' = "exited" => output'.held = <<>>,
         valid /\ phase' \in {"finished", "exited"} => Fields = Input
  PROVE  Wrote'
<1>1. Kept' = Kept /\ Input' = Input /\ OwnSeparator' = OwnSeparator
  BY DEF Kept, Input, SimpleFS, OwnSeparator
<1>2. LongRows(Fields, Kept)' = LongRows(Fields, Kept)
  BY <1>1 DEF LongRows, Longer
<1>3. WrittenAs(Content(output), LongRows(Fields, Kept))'
  BY <1>2 DEF Wrote, WrittenAs
<1> QED
  BY <1>1, <1>3 DEF Wrote

\* A row that is reported is written if it has the right length, and the first one that is
\* not if it has not.
LEMMA WroteEvent ==
  ASSUME Wrote, CleanConstants, phase = "reading", valid, ~stop, NEW s \in BOOLEAN,
         RowEvent(field, s), FieldCallback, StopsAt(s), fieldCount' = NextCount,
         RecordCallback(s), BeginsWith(Input, Fields')
  PROVE  /\ Kept' \in Nat
         /\ \A n \in 1..Len(Fields') : Len(Fields'[n]) = Width <=> n =< Kept'
         /\ WrittenAs(Content(output), LongRows(Fields, Kept))'
<1> DEFINE r == Append(row, field)
           m == Len(Fields)
           T == LongRows(Fields, m)
<1>1. /\ TypeOK /\ constants \in ConstantLists /\ output \in Buffer
      /\ record \in [1..Width -> Seq(Byte)] /\ RecordIsRow /\ OwnSeparator
      /\ contents \in Seq(Byte)
  BY DEF Wrote, Sized
<1>2. /\ constants' = constants /\ valid' = ~s
      /\ output' = IF Complete THEN WriteRecord ELSE output
  BY DEF RecordCallback
<1>3. field \in Seq(Byte)
  BY <1>1 DEF TypeOK
<1>4. /\ r \in Seq(Seq(Byte)) /\ Fields \in Seq(Seq(Seq(Byte))) /\ m \in Nat
      /\ Len(Fields') = m + 1 /\ Fields'[m + 1] = r /\ \A n \in 1..m : Fields'[n] = Fields[n]
      /\ Fields' = Append(Fields, r)
  BY <1>1, <1>3, RowReported
<1>5. m = Len(rows)
  BY <1>1, FieldsTyped
<1>6. m = Kept /\ \A n \in 1..m : Len(Fields[n]) = Width
  <2>1. m = Kept
    BY DEF Kept
  <2> QED
    BY <1>4, <2>1 DEF Wrote
<1>7. WrittenAs(Content(output), T)
  BY <1>6 DEF Wrote
<1>8. r \in Seq(Seq(Data)) /\ r # << <<>> >>
  <2>1. m + 1 \in 1..Len(Input) /\ Input[m + 1] = r
    <3>1. /\ Len(Input) \in Nat /\ Len(Fields') =< Len(Input)
          /\ \A n \in 1..Len(Fields') : Input[n] = Fields'[n]
      BY DEF BeginsWith
    <3> HIDE DEF m, r
    <3>2. m + 1 \in 1..(m + 1) /\ m + 1 \in 1..Len(Input)
      BY <1>4, <3>1
    <3> QED
      BY <1>4, <3>1, <3>2
  <2> HIDE DEF m, r
  <2> QED
    BY <1>1, <2>1, InputClean
<1>9. /\ s <=> Len(r) # Width
      /\ Complete => record' = r
  <2>1. s <=> Len(r) # Width
    <3>1. fieldCount = Len(row)
      BY <1>1 DEF RecordIsRow
    <3> QED
      BY <1>1, <1>3, <3>1, CallbackCounts
  <2>2. Complete => record' = r
    BY <1>1, <1>3, RecordFollows
  <2> QED
    BY <2>1, <2>2
<1>10. Complete <=> ~s
  <2>1. RecordReported
    BY <1>1, <1>3, EventReported
  <2> QED
    BY <2>1 DEF Complete, StopsAt
<1>11. /\ T \in Seq(Seq(Seq(Byte)))
       /\ LongRows(Fields', m) = T
       /\ LongRows(Fields', m + 1) = Append(T, Longer(r, m + 1))
  <2> DEFINE F == Fields
  <2>1. F \in Seq(Seq(Seq(Byte))) /\ r \in Seq(Seq(Byte)) /\ constants \in ConstantLists
    BY <1>1, <1>4
  <2> HIDE DEF r, F
  <2>2. /\ LongRows(F, Len(F)) \in Seq(Seq(Seq(Byte)))
        /\ LongRows(Append(F, r), Len(F)) = LongRows(F, Len(F))
        /\ LongRows(Append(F, r), Len(F) + 1)
             = Append(LongRows(F, Len(F)), Longer(r, Len(F) + 1))
    BY <2>1, LongRowsGrow
  <2> QED
    BY <1>4, <2>2 DEF F
<1>12. \A k : LongRows(Fields, k)' = LongRows(Fields', k)
  BY <1>2 DEF LongRows, Longer
<1>13. Kept' = IF s THEN m ELSE m + 1
  <2>1. Kept' = IF valid' THEN Len(Fields') ELSE Len(Fields') - 1
    BY DEF Kept
  <2> DEFINE all == Len(Fields')
  <2>2. all = m + 1 /\ m \in Nat /\ Kept' = IF ~s THEN all ELSE all - 1
    BY <1>2, <1>4, <2>1
  <2> HIDE DEF m, all
  <2> QED
    BY <2>2
<1> HIDE DEF r, m, T
<1>14. \A n \in 1..Len(Fields') : Len(Fields'[n]) = Width <=> n =< Kept'
  <2>1. ASSUME NEW n \in 1..Len(Fields') PROVE Len(Fields'[n]) = Width <=> n =< Kept'
    <3>1. CASE n = m + 1
      BY <1>4, <1>9, <1>13, <3>1
    <3>2. CASE n # m + 1
      <4>1. n \in 1..m /\ n =< Kept'
        BY <1>4, <1>13, <3>2
      <4>2. Fields'[n] = Fields[n] /\ Len(Fields[n]) = Width
        BY <1>4, <1>6, <4>1
      <4> QED
        BY <4>1, <4>2
    <3> QED
      BY <3>1, <3>2
  <2> QED
    BY <2>1
<1>15. WrittenAs(Content(output'), LongRows(Fields', Kept'))
  <2>1. CASE s
    BY <1>2, <1>7, <1>10, <1>11, <1>13, <2>1
  <2>2. CASE ~s
    <3>1. record' = r /\ Len(r) = Width /\ output' = WriteRecord
      BY <1>2, <1>9, <1>10, <2>2
    <3>2. Len(r) > 0
      BY <3>1, RecordAssumption
    <3>3. WrittenAs(Content(WriteRecord), Append(T, Longer(r, m + 1)))
      BY <1>1, <1>5, <1>7, <1>8, <1>11, <3>1, <3>2, RecordAdded
    <3> QED
      BY <1>11, <1>13, <2>2, <3>1, <3>3
  <2> QED
    BY <2>1, <2>2
<1>16. WrittenAs(Content(output), LongRows(Fields, Kept))'
  <2>1. LongRows(Fields, Kept)' = LongRows(Fields', Kept')
    BY <1>2 DEF LongRows, Longer
  <2> QED
    BY <1>15, <2>1 DEF WrittenAs
<1>17. Kept' \in Nat
  BY <1>4, <1>13
<1> QED
  BY <1>14, <1>16, <1>17

\* A turn of the loop keeps what is written right,
LEMMA WroteTurn ==
  ASSUME CleanConstants, Wrote, Verdict', Sized',
         NEW s \in BOOLEAN, ParserTurn(s, s), RecordCallback(s)
  PROVE  Wrote'
<1>1. /\ phase = "reading" /\ Accept(s) /\ FieldCallback /\ StopsAt(s) /\ fieldCount' = NextCount
      /\ phase' \in Outcome(s, phase) /\ UNCHANGED <<contents, file>> /\ valid' = (valid /\ ~s)
      /\ UNCHANGED <<constants, old>> /\ output' = IF Complete THEN WriteRecord ELSE output
  BY DEF ParserTurn, RecordCallback
<1>2. Verdict /\ TypeOK
  BY DEF Wrote, Sized
<1>3. FileReading /\ ~stop /\ valid
  BY <1>1, <1>2 DEF Verdict, Accept, InLoop
<1>4. /\ PlainReading' /\ UNCHANGED config
      /\ \/ RowEvent(field, s) /\ state' = "RECORD_NOT_BEGUN"
         \/ FieldEvent(field, s)
         \/ NoEvent
  BY <1>1, <1>3, TurnStays DEF FileReading
<1>5. UNCHANGED delimiter /\ Input' = Input /\ OwnSeparator' = OwnSeparator
  BY <1>1, <1>4 DEF config, Input, SimpleFS, OwnSeparator
<1>6. phase' \in {"reading", "died"}
  BY <1>1 DEF Outcome, AfterError
<1>7. CASE RowEvent(field, s) /\ state' = "RECORD_NOT_BEGUN"
  <2>1. BeginsWith(Input', Fields')
    <3>1. BeginsWith(Table(contents, SimpleFS, Eol), Fields)'
      BY <1>4, <1>7, ReportedBeginsNext
    <3> QED
      BY <3>1 DEF Input
  <2>2. /\ Kept' \in Nat
        /\ \A n \in 1..Len(Fields') : Len(Fields'[n]) = Width <=> n =< Kept'
        /\ WrittenAs(Content(output), LongRows(Fields, Kept))'
    BY <1>1, <1>3, <1>5, <1>7, <2>1, WroteEvent
  <2> QED
    BY <1>1, <1>5, <1>6, <2>1, <2>2 DEF Wrote
<1>8. CASE FieldEvent(field, s) \/ NoEvent
  <2>1. rows' = rows /\ ~RecordReported
    BY <1>8 DEF FieldEvent, NoEvent, RecordReported
  <2>2. Fields' = Fields /\ ~s /\ output' = output
    BY <1>1, <2>1 DEF Fields, StopsAt, Complete
  <2> QED
    BY <1>1, <1>3, <1>5, <1>6, <2>2, WroteStays
<1> QED
  BY <1>4, <1>7, <1>8

\* and so does finish().
LEMMA WroteFinish ==
  ASSUME CleanConstants, Wrote, Verdict', Sized',
         NEW s \in BOOLEAN, FinishParser(s, s), RecordCallback(s)
  PROVE  Wrote'
<1>1. /\ phase = "reading" /\ AllRead /\ Finish(s) /\ FieldCallback /\ StopsAt(s)
      /\ fieldCount' = NextCount
      /\ phase' \in Outcome(s, "finished") /\ UNCHANGED <<contents, file>>
      /\ valid' = (valid /\ ~s)
      /\ UNCHANGED <<constants, old>> /\ output' = IF Complete THEN WriteRecord ELSE output
  BY DEF FinishParser, RecordCallback
<1>2. Verdict /\ TypeOK
  BY DEF Wrote, Sized
<1>3. FileReading /\ (stop <=> ~valid) /\ valid \in BOOLEAN
  BY <1>1, <1>2 DEF Verdict
<1>4. PlainParser /\ FileIsRead /\ RowsAreRead
  BY <1>3 DEF FileReading, PlainReading
<1>5. /\ call = "idle" /\ UNCHANGED config
      /\ stop => UNCHANGED <<row, rows, stop, state, field>>
      /\ ~stop /\ state # "RECORD_NOT_BEGUN" => RowEvent(field, s) /\ field' = <<>>
      /\ ~stop /\ state = "RECORD_NOT_BEGUN" => NoEvent
  BY <1>1, <1>4, PlainFinish
<1>6. UNCHANGED delimiter /\ Input' = Input /\ OwnSeparator' = OwnSeparator
  BY <1>1, <1>5 DEF config, Input, SimpleFS, OwnSeparator
<1>7. phase' \in {"finished", "died"}
  BY <1>1 DEF Outcome, AfterError
<1>8. ASSUME rows' = rows PROVE Fields' = Fields /\ ~s /\ output' = output /\ valid' = valid
  <2>1. ~RecordReported
    BY <1>8 DEF RecordReported
  <2> QED
    BY <1>1, <1>3, <1>8, <2>1 DEF Fields, StopsAt, Complete
<1>9. CASE stop
  <2>1. rows' = rows /\ ~valid
    BY <1>3, <1>5, <1>9
  <2> QED
    BY <1>1, <1>6, <1>7, <1>8, <2>1, WroteStays
<1>10. CASE ~stop
  <2>1. file = <<>> /\ position = Len(input) /\ valid
    BY <1>1, <1>3, <1>5, <1>10 DEF AllRead, FileReading
  <2>2. Fields' = Input'
    <3>1. Fields' = Table(contents, SimpleFS, Eol)
      BY <1>1, <1>4, <1>10, <2>1, TableIsReported
    <3> QED
      BY <1>6, <3>1 DEF Input
  <2>3. CASE state = "RECORD_NOT_BEGUN"
    <3>1. rows' = rows
      BY <1>5, <1>10, <2>3 DEF NoEvent
    <3>2. Fields' = Fields /\ ~s /\ output' = output /\ valid' = valid
      BY <1>8, <3>1
    <3>3. Fields = Input
      BY <1>6, <2>2, <3>2
    <3> QED
      BY <1>1, <1>6, <1>7, <3>2, <3>3, WroteStays
  <2>4. CASE state # "RECORD_NOT_BEGUN"
    <3>1. RowEvent(field, s)
      BY <1>5, <1>10, <2>4
    <3>2. BeginsWith(Input, Fields')
      <4>1. Len(Input) \in Nat
        <5> DEFINE F == Fields'
        <5>1. Len(F) = Len(Fields) + 1 /\ Len(Fields) \in Nat
          BY <1>2, <3>1, RowReported, RowTyped
        <5>2. Input = F
          BY <1>6, <2>2
        <5> QED
          BY <5>1, <5>2
      <4> QED
        BY <1>6, <2>2, <4>1 DEF BeginsWith
    <3>3. /\ Kept' \in Nat
          /\ \A n \in 1..Len(Fields') : Len(Fields'[n]) = Width <=> n =< Kept'
          /\ WrittenAs(Content(output), LongRows(Fields, Kept))'
      BY <1>1, <1>10, <2>1, <3>1, <3>2, WroteEvent
    <3> QED
      BY <1>1, <1>6, <1>7, <2>2, <3>2, <3>3 DEF Wrote
  <2> QED
    BY <2>3, <2>4
<1> QED
  BY <1>9, <1>10

\* And everything else.
LEMMA WroteStep ==
  ASSUME CleanConstants, Wrote, [WriterNext]_writerVars
  PROVE  Wrote'
<1>1. Verdict' /\ Sized'
  BY VerdictStep, SizedStep DEF Wrote
<1>2. Verdict /\ Sized /\ output \in Buffer
  BY DEF Wrote, Sized
<1>3. CASE NextBlock /\ ReadNext
  <2>1. phase = "reading" /\ ReadBlock /\ UNCHANGED <<valid, phase, constants, old, output>>
    BY <1>3 DEF NextBlock, ReadNext
  <2>2. PlainReading
    BY <1>2, <2>1 DEF Verdict, FileReading
  <2>3. Fields' = Fields /\ UNCHANGED <<config, contents>>
    BY <2>1, <2>2, BlockStays
  <2>4. UNCHANGED delimiter
    BY <2>3 DEF config
  <2> QED
    BY <1>1, <2>1, <2>3, <2>4, WroteStays
<1>4. CASE ReturnFromParse /\ ReadNext
  <2>1. /\ phase = "reading" /\ LeaveLoop
        /\ UNCHANGED <<contents, file, valid, phase, constants, old, output>>
    BY <1>4 DEF ReturnFromParse, ReadNext, recordVars
  <2>2. PlainReading /\ call # "draining" /\ call # "idle"
    BY <1>2, <2>1 DEF Verdict, FileReading, LeaveLoop
  <2>3. call = "parsing"
    BY <2>2 DEF PlainReading, PlainParser, TypeOK, Calls
  <2>4. Fields' = Fields /\ UNCHANGED config
    BY <2>1, <2>2, <2>3, LeaveStays
  <2>5. UNCHANGED delimiter
    BY <2>4 DEF config
  <2> QED
    BY <1>1, <2>1, <2>4, <2>5, WroteStays
<1>5. ASSUME NEW s \in BOOLEAN, ParserTurn(s, s), RecordCallback(s) PROVE Wrote'
  BY <1>1, <1>5, WroteTurn
<1>6. ASSUME NEW s \in BOOLEAN, FinishParser(s, s), RecordCallback(s) PROVE Wrote'
  BY <1>1, <1>6, WroteFinish
<1>7. CASE WriteRest
  <2>1. /\ phase = "finished" /\ phase' = "exited" /\ UNCHANGED <<contents, valid, vars, constants, old>>
        /\ output' = Write(output)
    BY <1>7 DEF WriteRest, Exit, WriteOutputFile
  <2>2. UNCHANGED <<Fields, delimiter>>
    BY <2>1 DEF Fields, vars, config
  <2>3. Content(output') = Content(output) /\ output'.held = <<>>
    BY <1>2, <2>1, WriteKeeps
  <2>4. valid => Fields = Input
    BY <2>1 DEF Wrote
  <2> QED
    BY <1>1, <2>1, <2>2, <2>3, <2>4, WroteStays
<1>8. CASE UNCHANGED writerVars
  <2>1. UNCHANGED <<vars, contents, valid, phase, constants, old, output>>
    BY <1>8 DEF writerVars, recordVars
  <2>2. UNCHANGED <<Fields, delimiter>>
    BY <2>1 DEF Fields, vars, config
  <2>3. /\ phase = "exited" => output.held = <<>>
        /\ valid /\ phase \in {"finished", "exited"} => Fields = Input
    BY DEF Wrote
  <2> QED
    BY <1>1, <2>1, <2>2, <2>3, WroteStays
<1> QED
  BY <1>3, <1>4, <1>5, <1>6, <1>7, <1>8 DEF WriterNext, ReadNext, ParseNext, FinishNext

\* The number of rows before the first one of the wrong length is the only one of its kind.
LEMMA RowsKeptIs ==
  ASSUME NEW m \in Nat, m =< Len(Input), Len(Input) \in Nat,
         \A n \in 1..m : Len(Input[n]) = Width,
         m < Len(Input) => Len(Input[m + 1]) # Width
  PROVE  RowsKept = m
<1> DEFINE P(n) == 1..n \subseteq RightLength /\ (n < Len(Input) => n + 1 \notin RightLength)
<1>1. m \in 0..Len(Input) /\ P(m)
  BY DEF RightLength
<1>2. ASSUME NEW n \in 0..Len(Input), P(n) PROVE n = m
  <2>1. ~(n < m)
    <3>1. n < m => n + 1 \in 1..m /\ n < Len(Input)
      OBVIOUS
    <3> QED
      BY <1>1, <1>2, <3>1
  <2>2. ~(m < n)
    <3>1. m < n => m + 1 \in 1..n /\ m < Len(Input)
      OBVIOUS
    <3> QED
      BY <1>1, <1>2, <3>1
  <2> QED
    BY <2>1, <2>2
<1>3. RowsKept = CHOOSE n \in 0..Len(Input) : P(n)
  BY DEF RowsKept
<1> HIDE DEF P
<1> QED
  BY <1>1, <1>2, <1>3

\* When the program has exited, the invariant says what the file holds.
LEMMA WroteRows == ASSUME Wrote PROVE WritesTheRows
<1> SUFFICES ASSUME Exited, Len(old) =< Len(output.written)
             PROVE  Table(OutputFile, US, {LF}) = [n \in 1..RowsKept |-> Extended(n)]
  BY DEF WritesTheRows
<1>1. phase = "exited" /\ TypeOK /\ output \in Buffer /\ old \in Seq(Byte)
  BY DEF Exited, Wrote, Sized
<1>2. output.written \in Seq(Byte) /\ output.held = <<>>
  BY <1>1 DEF Wrote, Buffer
<1>3. OutputFile = output.written /\ Content(output) = output.written
  <2> DEFINE w == output.written
  <2>1. w \in Seq(Byte) /\ Len(old) =< Len(w) /\ w \o <<>> = w
    BY <1>2
  <2>2. SubSeq(old, Len(w) + 1, Len(old)) = <<>>
    <3>1. Len(w) + 1 \in Int /\ Len(old) \in Int /\ Len(old) < Len(w) + 1
      BY <1>1, <2>1
    <3> HIDE DEF w
    <3> QED
      BY <3>1, SubSeqEmpty
  <2> HIDE DEF w
  <2>3. w \o SubSeq(old, Len(w) + 1, Len(old)) = w
    BY <2>1, <2>2
  <2> QED
    BY <1>2, <2>1, <2>3 DEF OutputFile, Content, w
<1>4. BeginsWith(Input, Fields) /\ Fields \in Seq(Seq(Seq(Byte)))
  <2>1. Fields \in Seq(Seq(Seq(Byte)))
    BY <1>1, FieldsTyped
  <2>2. CASE valid
    <3>1. Fields = Input
      BY <1>1, <2>2 DEF Wrote
    <3> QED
      BY <2>1, <3>1 DEF BeginsWith
  <2>3. CASE ~valid
    BY <2>1, <2>3 DEF Wrote
  <2> QED
    BY <2>2, <2>3
<1>5. /\ Len(Fields) \in Nat /\ Len(Input) \in Nat /\ Len(Fields) =< Len(Input)
      /\ \A n \in 1..Len(Fields) : Input[n] = Fields[n]
  BY <1>4 DEF BeginsWith
<1>6. /\ Kept \in Nat /\ Kept =< Len(Fields)
      /\ valid => Kept = Len(Input)
      /\ ~valid => Kept + 1 = Len(Fields)
      /\ \A n \in 1..Len(Fields) : Len(Fields[n]) = Width <=> n =< Kept
  <2>1. valid => Len(Fields) = Len(Input)
    BY <1>1 DEF Wrote
  <2>2. Kept \in Nat /\ \A n \in 1..Len(Fields) : Len(Fields[n]) = Width <=> n =< Kept
    BY DEF Wrote
  <2> QED
    BY <1>5, <2>1, <2>2 DEF Kept
<1>7. RowsKept = Kept
  <2>1. \A n \in 1..Kept : Len(Input[n]) = Width
    BY <1>5, <1>6
  <2>2. Kept < Len(Input) => Len(Input[Kept + 1]) # Width
    <3>1. Kept < Len(Input) => Kept + 1 \in 1..Len(Fields) /\ ~(Kept + 1 =< Kept)
      BY <1>5, <1>6
    <3> QED
      BY <1>5, <1>6, <3>1
  <2> QED
    BY <1>5, <1>6, <2>1, <2>2, RowsKeptIs
<1>8. LongRows(Fields, Kept) = [n \in 1..Kept |-> Extended(n)]
  <2>1. \A n \in 1..Kept : Fields[n] = Input[n]
    BY <1>5, <1>6
  <2> QED
    BY <2>1 DEF LongRows, Longer, Extended
<1>9. Table(Content(output), US, {LF}) = LongRows(Fields, Kept)
  BY DEF Wrote, WrittenAs
<1> QED
  BY <1>3, <1>7, <1>8, <1>9

\* standard_form and add_constants leave behind what they promise: read with 0x1f and 0x0a,
\* the output file is the input up to the first row of the wrong length, each row with its
\* constants, for every file, every size of the blocks, of the columns and of the buffer
\* (recordcb(), write_output_file() and main()).
THEOREM RowsWritten ==
  ASSUME PlainFiles, CleanConstants PROVE WriterSpec /\ OwnSeparator => []WritesTheRows
<1>1. Wrote => WritesTheRows
  BY WroteRows
<1>2. WriterInit /\ OwnSeparator => Wrote
  BY WroteInit
<1>3. Wrote /\ [WriterNext]_writerVars => Wrote'
  BY WroteStep
<1> QED
  BY <1>1, <1>2, <1>3, PTL DEF WriterSpec

-----------------------------------------------------------------------------
(* The counts and the flag of validate_content. *)

\* The validations mean what the author of the format means, for the values of the files
\* in rows of the right length.
ValidationsMeant ==
  \A f \in Files, form \in Formats :
    \A n \in 1..Len(Table(f, US, Eol)) : Len(Table(f, US, Eol)[n]) = Width =>
      \A c \in 1..Width : \A v \in DOMAIN form[c].validations :
        Dispatch(ParseArguments(form[c].validations[v]), Table(f, US, Eol)[n][c])
          <=> Table(f, US, Eol)[n][c] \in Meaning[form[c].validations[v]].permits

\* A row fails if one of its fields is not permitted.
RowFails(r) == \E c \in 1..Width : Forbids(c, r[c]) # {}

\* The rows behind the header that fail, of the first m of a table.
FailingRows(table, m) == {n \in 2..m : RowFails(table[n])}

\* A row more is another one that fails, or none.
LEMMA FailingRowsGrow ==
  ASSUME NEW table \in Seq(Seq(Seq(Byte))), NEW r \in Seq(Seq(Byte))
  PROVE  /\ FailingRows(Append(table, r), Len(table)) = FailingRows(table, Len(table))
         /\ RowFails(r) /\ Len(table) # 0 =>
              FailingRows(Append(table, r), Len(table) + 1)
                = FailingRows(table, Len(table)) \cup {Len(table) + 1}
         /\ ~RowFails(r) \/ Len(table) = 0 =>
              FailingRows(Append(table, r), Len(table) + 1) = FailingRows(table, Len(table))
<1> DEFINE m    == Len(table)
           more == Append(table, r)
<1>1. /\ m \in Nat /\ more[m + 1] = r /\ \A n \in 1..m : more[n] = table[n]
  BY AppendProperties
<1> HIDE DEF m, more
<1>2. \A n \in 2..m : more[n] = table[n] /\ n # m + 1 /\ n \in 2..(m + 1)
  BY <1>1
<1>3. \A n \in 2..(m + 1) : n \in 2..m \/ n = m + 1
  BY <1>1
<1>4. m # 0 => m + 1 \in 2..(m + 1)
  BY <1>1
<1>5. m = 0 => 2..(m + 1) = {} /\ 2..m = {}
  BY <1>1
<1>6. FailingRows(more, m) = FailingRows(table, m)
  BY <1>2 DEF FailingRows
<1>7. ASSUME RowFails(r), m # 0 PROVE FailingRows(more, m + 1) = FailingRows(table, m) \cup {m + 1}
  BY <1>1, <1>2, <1>3, <1>4, <1>7 DEF FailingRows
<1>8. ASSUME ~RowFails(r) PROVE FailingRows(more, m + 1) = FailingRows(table, m)
  BY <1>1, <1>2, <1>3, <1>8 DEF FailingRows
<1>9. ASSUME m = 0 PROVE FailingRows(more, m + 1) = FailingRows(table, m)
  BY <1>5, <1>9 DEF FailingRows
<1> QED
  BY <1>6, <1>7, <1>8, <1>9 DEF m, more

\* The counts of m rows, the rows F of which fail.
Tally(in, out, failed, flag, F, m) ==
  /\ in = Cardinality(2..m) /\ out = Cardinality((2..m) \ F) /\ failed = Cardinality(F)
  /\ flag <=> F = {}

\* They are right for a row more.
LEMMA TallyGrows ==
  ASSUME NEW m \in Nat \ {0}, NEW F \in SUBSET (2..m), NEW in, NEW out, NEW failed,
         NEW flag \in BOOLEAN, Tally(in, out, failed, flag, F, m)
  PROVE  /\ Tally(in + 1, out + 1, failed, flag, F, m + 1)
         /\ Tally(in + 1, out, failed + 1, FALSE, F \cup {m + 1}, m + 1)
<1> DEFINE R == 2..m
           n == m + 1
<1>1. IsFiniteSet(R) /\ R \in SUBSET Nat
  BY FS_Interval
<1>2. IsFiniteSet(F) /\ IsFiniteSet(R \ F)
  BY <1>1, FS_Subset
<1>3. n \notin R /\ 2..n = R \cup {n}
  OBVIOUS
<1>4. (2..n) \ F = (R \ F) \cup {n} /\ (2..n) \ (F \cup {n}) = R \ F
  BY <1>3
<1> HIDE DEF R, n
<1>5. /\ Cardinality(R \cup {n}) = Cardinality(R) + 1
      /\ Cardinality((R \ F) \cup {n}) = Cardinality(R \ F) + 1
      /\ Cardinality(F \cup {n}) = Cardinality(F) + 1
  <2>1. n \notin R /\ n \notin F /\ n \notin R \ F
    BY <1>3 DEF R
  <2> QED
    BY <1>1, <1>2, <2>1, FS_AddElement
<1>6. in = Cardinality(R) /\ out = Cardinality(R \ F) /\ failed = Cardinality(F) /\ (flag <=> F = {})
  BY DEF Tally, R
<1>7. Tally(in + 1, out + 1, failed, flag, F, n)
  BY <1>3, <1>4, <1>5, <1>6 DEF Tally
<1>8. Tally(in + 1, out, failed + 1, FALSE, F \cup {n}, n)
  BY <1>3, <1>4, <1>5, <1>6 DEF Tally
<1> QED
  BY <1>7, <1>8 DEF n

\* h[i] is the first i of the sequences, one behind the other.
Flattens(h, seqs) ==
  h = [i \in 1..Len(seqs) |-> IF i = 1 THEN seqs[i] ELSE h[i - 1] \o seqs[i]]

\* The recursion of FlattenSeq has a solution, by induction over the sequences.
LEMMA FlattensExist ==
  ASSUME NEW seqs, Len(seqs) \in Nat
  PROVE  \E h : Flattens(h, seqs)
<1> DEFINE Next1(h, i) == IF i = 1 THEN seqs[i] ELSE h[i - 1] \o seqs[i]
           P(h, k) == h = [i \in 1..k |-> Next1(h, i)]
           T == {k \in Nat : \E h : P(h, k)}
<1>1. 0 \in T
  <2> DEFINE h == [i \in 1..0 |-> seqs]
  <2>1. 1..0 = {}
    OBVIOUS
  <2>2. P(h, 0)
    BY <2>1
  <2> QED
    BY <2>2
<1>2. ASSUME NEW k \in T PROVE k + 1 \in T
  <2>1. PICK h : P(h, k)
    BY <1>2
  <2> DEFINE last == Next1(h, k + 1)
             g    == [i \in 1..(k + 1) |-> IF i = k + 1 THEN last ELSE h[i]]
  <2>2. \A i \in 1..k : g[i] = h[i]
    OBVIOUS
  <2>3. \A i \in 1..k : h[i] = Next1(h, i)
    BY <2>1
  <2>4. ASSUME NEW i \in 1..(k + 1) PROVE g[i] = Next1(g, i)
    <3>1. CASE i = k + 1
      <4>1. g[i] = last /\ (i # 1 => i - 1 = k /\ k \in 1..k)
        BY <3>1
      <4>2. i # 1 => g[i - 1] = h[k] /\ h[i - 1] = h[k]
        BY <2>2, <4>1
      <4> HIDE DEF g
      <4> QED
        BY <3>1, <4>1, <4>2
    <3>2. CASE i # k + 1
      <4>1. i \in 1..k /\ (i # 1 => i - 1 \in 1..k)
        BY <3>2
      <4> HIDE DEF g
      <4> QED
        BY <2>2, <2>3, <4>1
    <3> QED
      BY <3>1, <3>2
  <2>5. P(g, k + 1)
    <3> HIDE DEF Next1, last
    <3> QED
      BY <2>4
  <2> HIDE DEF P
  <2> QED
    BY <2>5
<1>3. T = Nat
  <2> HIDE DEF T
  <2> QED
    BY <1>1, <1>2, InductionOnNat DEF T
<1>4. \E h : P(h, Len(seqs))
  <2> HIDE DEF P
  <2>1. Len(seqs) \in T
    <3> HIDE DEF T
    <3> QED
      BY <1>3
  <2> QED
    BY <2>1
<1> QED
  BY <1>4 DEF Flattens

\* FlattenSeq is its last value.
LEMMA FlattenSeqIs ==
  ASSUME NEW seqs, Len(seqs) \in Nat \ {0}
  PROVE  \E h : Flattens(h, seqs) /\ FlattenSeq(seqs) = h[Len(seqs)]
<1> DEFINE h == CHOOSE g : Flattens(g, seqs)
<1>1. Flattens(h, seqs)
  BY FlattensExist
<1>2. FlattenSeq(seqs) = h[Len(seqs)]
  BY Zenon DEF FlattenSeq, Flattens
<1> QED
  BY <1>1, <1>2

\* Nothing comes of sequences behind each other only if they are all empty.
LEMMA NothingFlattened ==
  ASSUME NEW S, NEW seqs \in Seq(Seq(S)), seqs # <<>>
  PROVE  /\ FlattenSeq(seqs) \in Seq(S)
         /\ FlattenSeq(seqs) = <<>> <=> \A i \in 1..Len(seqs) : seqs[i] = <<>>
<1> DEFINE m == Len(seqs)
<1>1. m \in Nat \ {0} /\ \A i \in 1..m : seqs[i] \in Seq(S)
  OBVIOUS
<1>2. PICK h : Flattens(h, seqs) /\ FlattenSeq(seqs) = h[m]
  BY <1>1, FlattenSeqIs
<1>3. \A i \in 1..m : h[i] = IF i = 1 THEN seqs[i] ELSE h[i - 1] \o seqs[i]
  BY <1>2 DEF Flattens
<1> DEFINE P(k) == /\ h[k] \in Seq(S)
                   /\ h[k] = <<>> <=> \A i \in 1..k : seqs[i] = <<>>
           T == {k \in Nat : k + 1 =< m => P(k + 1)}
<1> HIDE DEF m
<1>4. 0 \in T
  <2>1. 1 \in 1..m /\ h[1] = seqs[1] /\ \A i \in 1..1 : i = 1
    BY <1>1, <1>3
  <2>2. 1 \in 1..1
    OBVIOUS
  <2>3. P(1)
    BY <1>1, <2>1, <2>2
  <2> HIDE DEF P
  <2> QED
    BY <2>3
<1>5. ASSUME NEW k \in T PROVE k + 1 \in T
  <2>1. SUFFICES ASSUME k + 2 =< m PROVE P(k + 2)
    <3> HIDE DEF P
    <3>1. k \in Nat /\ (k + 1) + 1 = k + 2
      BY <1>5
    <3> QED
      BY <2>1, <3>1
  <2>2. k \in Nat /\ P(k + 1)
    <3> HIDE DEF P
    <3> QED
      BY <1>1, <1>5, <2>1
  <2>3. k + 2 \in 1..m /\ k + 2 # 1 /\ (k + 2) - 1 = k + 1
    BY <1>1, <2>1, <2>2
  <2> DEFINE a == h[k + 1]
             b == seqs[k + 2]
  <2>4. h[k + 2] = a \o b
    BY <1>3, <2>3
  <2>5. a \in Seq(S) /\ b \in Seq(S)
    BY <1>1, <2>2, <2>3
  <2>6. \A i \in 1..(k + 2) : i \in 1..(k + 1) \/ i = k + 2
    BY <2>2
  <2>7. \A i \in 1..(k + 1) : i \in 1..(k + 2)
    BY <2>2
  <2>8. a = <<>> <=> \A i \in 1..(k + 1) : seqs[i] = <<>>
    BY <2>2
  <2>11. k + 2 \in 1..(k + 2)
    BY <2>2
  <2> HIDE DEF a
  <2>9. a \o b \in Seq(S) /\ (a \o b = <<>> <=> a = <<>> /\ b = <<>>)
    <3> HIDE DEF b
    <3>1. a \o b \in Seq(S) /\ Len(a \o b) = Len(a) + Len(b) /\ Len(a) \in Nat /\ Len(b) \in Nat
      BY <2>5
    <3>2. (a = <<>> <=> Len(a) = 0) /\ (b = <<>> <=> Len(b) = 0) /\ (a \o b = <<>> <=> Len(a \o b) = 0)
      BY <2>5, <3>1
    <3> QED
      BY <3>1, <3>2
  <2>10. (\A i \in 1..(k + 2) : seqs[i] = <<>>) <=> a = <<>> /\ b = <<>>
    BY <2>6, <2>7, <2>8, <2>11
  <2> HIDE DEF b
  <2> QED
    BY <2>4, <2>9, <2>10
<1>6. T = Nat
  <2> HIDE DEF T
  <2> QED
    BY <1>4, <1>5, InductionOnNat DEF T
<1>7. P(m)
  <2> HIDE DEF P
  <2>1. m - 1 \in Nat /\ (m - 1) + 1 = m
    BY <1>1
  <2>2. m - 1 \in T
    <3> HIDE DEF T
    <3> QED
      BY <1>6, <2>1
  <2> QED
    BY <1>1, <2>1, <2>2
<1> QED
  BY <1>2, <1>7 DEF m

\* The validations of a column that fail are those that do not permit its field.
LEMMA FailuresAre ==
  ASSUME ValidationsMeant, contents \in Files, format \in Formats, delimiter = <<US>>,
         NEW n \in 1..Len(Input), Len(Input[n]) = Width, record' = Input[n]
  PROVE  \A c \in 1..Width : FailuresOf(c) = Forbids(c, Input[n][c])
<1> DEFINE r == Input[n]
<1>1. Input = Table(contents, US, Eol)
  <2>1. delimiter # <<>> /\ delimiter[1] = US
    OBVIOUS
  <2> QED
    BY <2>1 DEF Input, SimpleFS
<1>2. ASSUME NEW c \in 1..Width PROVE FailuresOf(c) = Forbids(c, r[c])
  <2>1. \A v \in DOMAIN format[c].validations :
          Dispatch(ParseArguments(format[c].validations[v]), r[c])
            <=> r[c] \in Meaning[format[c].validations[v]].permits
    BY <1>1 DEF ValidationsMeant
  <2> QED
    BY <2>1 DEF FailuresOf, Forbids, Validation
<1> QED
  BY <1>2

\* A record has errors if and only if it fails, as a row of the file.
LEMMA RowErrors ==
  ASSUME ValidationsMeant, contents \in Files, format \in Formats, delimiter = <<US>>,
         errors = <<>>, NEW n \in 1..Len(Input), Len(Input[n]) = Width, record' = Input[n]
  PROVE  RecordErrors = <<>> <=> ~RowFails(Input[n])
<1> DEFINE r == Input[n]
<1>2. \A c \in 1..Width : FailuresOf(c) = Forbids(c, r[c])
  BY FailuresAre
<1>3. ASSUME NEW c \in 1..Width
      PROVE  IsFiniteSet(FailuresOf(c)) /\ Cardinality(FailuresOf(c)) \in Nat
  <2>1. format[c].validations \in Seq(DOMAIN Meaning)
    BY FormatAssumption
  <2>2. Len(format[c].validations) \in Nat
    BY <2>1
  <2>3. DOMAIN format[c].validations = 1..Len(format[c].validations)
    BY <2>1
  <2>4. IsFiniteSet(1..Len(format[c].validations))
    BY <2>2, FS_Interval
  <2>5. FailuresOf(c) \subseteq 1..Len(format[c].validations)
    BY <2>3 DEF FailuresOf
  <2> QED
    BY <2>4, <2>5, FS_Subset, FS_CardinalityType
<1> DEFINE size(c) == Cardinality(FailuresOf(c))
           one(c, k) == format[c].name \o Failed
                          \o Validation(c, Nth(FailuresOf(c), k)).name
           S == {one(p[1], p[2]) : p \in (1..Width) \X Nat}
           e == [c \in 1..Width |-> ErrorsOf(c)]
<1>4. \A c \in 1..Width : ErrorsOf(c) = [k \in 1..size(c) |-> one(c, k)]
  BY DEF ErrorsOf
<1>6. \A c \in 1..Width : size(c) \in Nat /\ (size(c) = 0 <=> FailuresOf(c) = {})
  BY <1>3, FS_EmptySet
<1>5. ASSUME NEW c \in 1..Width, NEW k \in 1..size(c) PROVE one(c, k) \in S
  <2>1. <<c, k>> \in (1..Width) \X Nat
    BY <1>6
  <2> DEFINE p == <<c, k>>
  <2>2. one(c, k) = one(p[1], p[2])
    OBVIOUS
  <2> HIDE DEF one, p
  <2> QED
    BY <2>1, <2>2 DEF p
<1> HIDE DEF size, one, S
<1>7. ASSUME NEW c \in 1..Width
      PROVE  ErrorsOf(c) \in Seq(S) /\ (ErrorsOf(c) = <<>> <=> Forbids(c, r[c]) = {})
  <2>1. ErrorsOf(c) \in Seq(S)
    BY <1>4, <1>5, <1>6, IsASeq
  <2>2. Len(ErrorsOf(c)) = size(c)
    BY <1>4, <1>6, <2>1
  <2>3. ErrorsOf(c) = <<>> <=> Len(ErrorsOf(c)) = 0
    BY <2>1
  <2> QED
    BY <1>2, <1>6, <2>1, <2>2, <2>3
<1>8. e \in Seq(Seq(S)) /\ Len(e) = Width /\ e # <<>>
  <2>1. Width \in Nat \ {0}
    BY RecordAssumption
  <2>2. e \in Seq(Seq(S))
    BY <1>7, <2>1, IsASeq
  <2>3. DOMAIN e = 1..Width
    OBVIOUS
  <2> HIDE DEF e
  <2>4. Len(e) = Width
    BY <2>1, <2>2, <2>3
  <2> QED
    BY <2>1, <2>2, <2>4
<1>9. FlattenSeq(e) = <<>> <=> \A c \in 1..Width : e[c] = <<>>
  BY <1>8, NothingFlattened
<1>10. FlattenSeq(e) = <<>> <=> ~RowFails(r)
  BY <1>7, <1>9 DEF RowFails
<1>11. RecordErrors = <<>> \o FlattenSeq(e)
  BY DEF RecordErrors
<1>12. FlattenSeq(e) \in Seq(S)
  BY <1>8, NothingFlattened
<1> QED
  BY <1>10, <1>11, <1>12

\* Whether the last row that was reported has the right length; stop() is called at the
\* first one that has not.
Fits == Fields = <<>> \/ Len(Fields[Len(Fields)]) = Width

\* How many of the reported rows have the right length.
Right == IF Fits THEN Len(Fields) ELSE Len(Fields) - 1

Tallied ==
  Tally(inputRecords, outputRecords, badRecords, valid, FailingRows(Fields, Right), Right)

\* The counters count the rows of the right length that are reported, and no error is left
\* of a row; what is reported is the input, or the beginning of it.
Counted ==
  /\ TypeOK /\ phase \in {"reading", "finished", "exited", "died"} /\ valid \in BOOLEAN
  /\ record \in [1..Width -> Seq(Byte)]
  /\ contents \in Files /\ format \in Formats /\ delimiter = <<US>>
  /\ phase = "reading" => FileReading /\ (stop <=> ~Fits)
  /\ phase = "reading" /\ ~stop => RecordIsRow
  /\ Right \in Nat
  /\ \A n \in 1..Len(Fields) : Len(Fields[n]) = Width <=> n =< Right
  /\ ~Fits \/ phase = "died" => BeginsWith(Input, Fields)
  /\ Fits /\ phase \in {"finished", "exited"} => Fields = Input
  /\ phase # "died" => errors = <<>> /\ Tallied
  /\ phase = "died" => ~Fits \/ FailingRows(Fields, Right) # {}

\* Of no row, or of the header alone, there is nothing to count.
LEMMA NothingToTally ==
  ASSUME NEW in, NEW out, NEW failed, NEW flag, NEW F, NEW F2,
         F \in SUBSET (2..0), F2 \in SUBSET (2..1), Tally(in, out, failed, flag, F, 0)
  PROVE  Tally(in, out, failed, flag, F2, 1)
<1>1. 2..0 = {} /\ 2..1 = {}
  OBVIOUS
<1>2. F = {} /\ F2 = {} /\ (2..0) \ F = {} /\ (2..1) \ F2 = {}
  BY <1>1
<1> QED
  BY <1>1, <1>2 DEF Tally

\* The program begins with nothing that is counted.
LEMMA CountedInit == ASSUME PlainFiles, ContentInit PROVE Counted
<1>1. /\ OpenInputFile /\ NewParser /\ options = {} /\ quote \in Quotes
      /\ fieldCount = 0 /\ valid = TRUE /\ phase = "reading"
      /\ delimiter = <<US>> /\ format \in Formats /\ errors = <<>>
      /\ inputRecords = 0 /\ outputRecords = 0 /\ badRecords = 0
      /\ record = [n \in 1..Width |-> <<>>]
  BY DEF ContentInit, StartReading
<1>2. delimiter \in Seq(Byte) /\ Len(delimiter) =< 1 /\ SimpleFS \notin Eol
  <2>1. US \in Byte /\ US \notin Eol
    BY RecordAssumption
  <2>2. delimiter \in Seq(Byte) /\ Len(delimiter) = 1 /\ delimiter[1] = US /\ delimiter # <<>>
    BY <1>1, <2>1
  <2> QED
    BY <2>1, <2>2 DEF SimpleFS
<1>3. PlainReading /\ Fields = <<>>
  BY <1>1, <1>2, PlainStarts
<1>4. TypeOK
  BY <1>3 DEF PlainReading, PlainParser
<1>5. call = "idle" /\ position = 0 /\ input = <<>> /\ ~stop /\ row = <<>>
  BY <1>1 DEF NewParser
<1>6. FileReading
  BY <1>3, <1>5 DEF FileReading
<1>7. Len(<<>>) = 0 /\ 1..0 = {} /\ 2..0 = {}
  OBVIOUS
<1>8. Fits /\ Right = 0
  BY <1>3, <1>7 DEF Fits, Right
<1>9. record \in [1..Width -> Seq(Byte)] /\ RecordIsRow
  <2>1. <<>> \in Seq(Byte)
    OBVIOUS
  <2>2. record \in [1..Width -> Seq(Byte)]
    BY <1>1, <2>1
  <2>3. \A k \in 1..Width : ~(k =< 0)
    OBVIOUS
  <2> QED
    BY <1>1, <1>5, <1>7, <2>2, <2>3 DEF RecordIsRow
<1>10. Tallied
  <2>1. FailingRows(Fields, Right) = {}
    BY <1>7, <1>8 DEF FailingRows
  <2>2. Cardinality({}) = 0
    BY FS_EmptySet
  <2>3. (2..0) \ {} = {}
    BY <1>7
  <2> QED
    BY <1>1, <1>7, <1>8, <2>1, <2>2, <2>3 DEF Tallied, Tally
<1>11. contents \in Files
  BY <1>1 DEF OpenInputFile
<1> QED
  BY <1>1, <1>3, <1>4, <1>5, <1>6, <1>7, <1>8, <1>9, <1>10, <1>11 DEF Counted

\* What the callback finds at a row r that the parser reports.
Taken(r, s) ==
  /\ r \in Seq(Seq(Byte)) /\ r # <<>> /\ Fields \in Seq(Seq(Seq(Byte))) /\ Fields' = Append(Fields, r)
  /\ rows = <<>> <=> Len(Fields) = 0
  /\ Right = Len(Fields)
  /\ Len(Fields) + 1 \in 1..Len(Input) /\ Input[Len(Fields) + 1] = r
  /\ RecordReported
  /\ (s <=> Len(r) # Width) /\ (WrongLength <=> s) /\ (Complete <=> ~s)
  /\ Complete => record' = r
  /\ Fits' <=> ~s
  /\ Right' = IF s THEN Len(Fields) ELSE Len(Fields) + 1

\* This is so of the next row.
LEMMA RowTaken ==
  ASSUME Counted, phase = "reading", ~stop, NEW s \in BOOLEAN,
         RowEvent(field, s), FieldCallback, StopsAt(s), fieldCount' = NextCount,
         BeginsWith(Input, Fields')
  PROVE  Taken(Append(row, field), s)
<1> DEFINE r == Append(row, field)
           m == Len(Fields)
<1>1. /\ TypeOK /\ record \in [1..Width -> Seq(Byte)] /\ RecordIsRow /\ Fits
  BY DEF Counted
<1>2. field \in Seq(Byte)
  BY <1>1 DEF TypeOK
<1>3. /\ r \in Seq(Seq(Byte)) /\ Fields \in Seq(Seq(Seq(Byte))) /\ m \in Nat
      /\ Len(Fields') = m + 1 /\ Fields'[m + 1] = r /\ \A n \in 1..m : Fields'[n] = Fields[n]
      /\ Fields' = Append(Fields, r)
  BY <1>1, <1>2, RowReported
<1>4. rows = <<>> <=> m = 0
  <2>1. m = Len(rows)
    BY <1>1, FieldsTyped
  <2> QED
    BY <1>1, <2>1 DEF TypeOK
<1>5. Right = m
  BY <1>1 DEF Right
<1>7. m + 1 \in 1..Len(Input) /\ Input[m + 1] = r
  <2>1. /\ Len(Input) \in Nat /\ Len(Fields') =< Len(Input)
        /\ \A n \in 1..Len(Fields') : Input[n] = Fields'[n]
    BY DEF BeginsWith
  <2> HIDE DEF m, r
  <2>2. m + 1 \in 1..(m + 1) /\ m + 1 \in 1..Len(Input)
    BY <1>3, <2>1
  <2> QED
    BY <1>3, <2>1, <2>2
<1>8. /\ s <=> Len(r) # Width
      /\ Complete => record' = r
  <2>1. s <=> Len(r) # Width
    <3>1. fieldCount = Len(row)
      BY <1>1 DEF RecordIsRow
    <3> QED
      BY <1>1, <1>2, <3>1, CallbackCounts
  <2>2. Complete => record' = r
    BY <1>1, <1>2, RecordFollows
  <2> QED
    BY <2>1, <2>2
<1>9. RecordReported /\ (Complete <=> ~s) /\ (WrongLength <=> s)
  <2>1. RecordReported
    BY <1>1, <1>2, EventReported
  <2> QED
    BY <2>1 DEF Complete, StopsAt
<1>6. r # <<>>
  <2>1. row \in Seq(Seq(Byte))
    BY <1>1 DEF TypeOK
  <2> QED
    BY <1>2, <2>1, AppendProperties
<1> HIDE DEF r, m
<1>13. Fits' <=> ~s
  <2> DEFINE all == Fields'
  <2>1. Fits' <=> all = <<>> \/ Len(all[Len(all)]) = Width
    BY DEF Fits
  <2>2. Len(all) = m + 1 /\ m \in Nat /\ all[m + 1] = r
    BY <1>3
  <2> HIDE DEF all
  <2> QED
    BY <1>8, <2>1, <2>2
<1>14. Right' = IF s THEN m ELSE m + 1
  <2>1. Right' = IF Fits' THEN Len(Fields') ELSE Len(Fields') - 1
    BY DEF Right
  <2> DEFINE all == Len(Fields')
  <2>2. all = m + 1 /\ m \in Nat /\ Right' = IF ~s THEN all ELSE all - 1
    BY <1>3, <1>13, <2>1
  <2> HIDE DEF all
  <2> QED
    BY <2>2
<1> QED
  BY <1>3, <1>4, <1>5, <1>6, <1>7, <1>8, <1>9, <1>13, <1>14 DEF Taken, r, m

\* A row that is reported is counted, if it has the right length and is not the header.
LEMMA CountedEvent ==
  ASSUME ValidationsMeant, Counted, phase = "reading", ~stop, NEW s \in BOOLEAN,
         RowEvent(field, s), FieldCallback, StopsAt(s), fieldCount' = NextCount,
         phase' = "died" => Complains,
         ContentCallback, UNCHANGED format, BeginsWith(Input, Fields')
  PROVE  /\ valid' \in BOOLEAN
         /\ Fits' <=> ~s
         /\ Right' \in Nat
         /\ \A n \in 1..Len(Fields') : Len(Fields'[n]) = Width <=> n =< Right'
         /\ phase' # "died" => errors' = <<>> /\ Tallied'
         /\ phase' = "died" => ~Fits' \/ FailingRows(Fields, Right)' # {}
<1> DEFINE r == Append(row, field)
           m == Len(Fields)
           F == FailingRows(Fields, m)
<1>1. /\ TypeOK /\ valid \in BOOLEAN /\ record \in [1..Width -> Seq(Byte)]
      /\ contents \in Files /\ format \in Formats /\ delimiter = <<US>>
      /\ RecordIsRow /\ Fits /\ errors = <<>> /\ Tallied
  BY DEF Counted
<1>2. Taken(r, s)
  BY RowTaken
<1>3. /\ r \in Seq(Seq(Byte)) /\ Fields \in Seq(Seq(Seq(Byte))) /\ m \in Nat
      /\ Len(Fields') = m + 1 /\ Fields'[m + 1] = r /\ \A n \in 1..m : Fields'[n] = Fields[n]
      /\ Fields' = Append(Fields, r)
  <2>1. r \in Seq(Seq(Byte)) /\ Fields \in Seq(Seq(Seq(Byte))) /\ Fields' = Append(Fields, r)
    BY <1>2, Zenon DEF Taken
  <2> HIDE DEF r
  <2> QED
    BY <2>1, AppendProperties
<1>4. rows = <<>> <=> m = 0
  BY <1>2 DEF Taken
<1>5. Right = m /\ \A n \in 1..m : Len(Fields[n]) = Width
  <2>1. Right = m
    BY <1>2 DEF Taken
  <2> QED
    BY <1>3, <2>1 DEF Counted
<1>6. Tally(inputRecords, outputRecords, badRecords, valid, F, m)
  BY <1>1, <1>5 DEF Tallied
<1>7. m + 1 \in 1..Len(Input) /\ Input[m + 1] = r
  BY <1>2, Zenon DEF Taken
<1>8. (s <=> Len(r) # Width) /\ (Complete => record' = r)
  BY <1>2, Zenon DEF Taken
<1>9. RecordReported /\ (Complete <=> ~s) /\ (WrongLength <=> s)
  BY <1>2, Zenon DEF Taken
<1>10. /\ FailingRows(Fields', m) = F
       /\ RowFails(r) /\ m # 0 => FailingRows(Fields', m + 1) = F \cup {m + 1}
       /\ ~RowFails(r) \/ m = 0 => FailingRows(Fields', m + 1) = F
       /\ F \in SUBSET (2..m) /\ FailingRows(Fields', m + 1) \in SUBSET (2..(m + 1))
  <2> DEFINE all == Fields
  <2>1. all \in Seq(Seq(Seq(Byte))) /\ r \in Seq(Seq(Byte))
    BY <1>3
  <2> HIDE DEF all, r
  <2>2. /\ FailingRows(Append(all, r), Len(all)) = FailingRows(all, Len(all))
        /\ RowFails(r) /\ Len(all) # 0 =>
              FailingRows(Append(all, r), Len(all) + 1)
                = FailingRows(all, Len(all)) \cup {Len(all) + 1}
        /\ ~RowFails(r) \/ Len(all) = 0 =>
              FailingRows(Append(all, r), Len(all) + 1) = FailingRows(all, Len(all))
    BY <2>1, FailingRowsGrow
  <2>3. \A t, k : FailingRows(t, k) \in SUBSET (2..k)
    BY DEF FailingRows
  <2> QED
    BY <1>3, <2>2, <2>3 DEF all
<1>11. \A k : FailingRows(Fields, k)' = FailingRows(Fields', k)
  BY DEF FailingRows, RowFails, Forbids
<1>12. Complete => (RecordErrors = <<>> <=> ~RowFails(r))
  <2> DEFINE k == m + 1
  <2>1. Complete => record' = Input[k] /\ Len(Input[k]) = Width
    BY <1>7, <1>8, <1>9
  <2>2. k \in 1..Len(Input)
    BY <1>7
  <2> HIDE DEF k, r
  <2>3. Complete => (RecordErrors = <<>> <=> ~RowFails(Input[k]))
    BY <1>1, <2>1, <2>2, RowErrors
  <2> QED
    BY <1>7, <2>3 DEF k
<1>13. Fits' <=> ~s
  BY <1>2, Zenon DEF Taken
<1>14. Right' = IF s THEN m ELSE m + 1
  BY <1>2, Zenon DEF Taken
<1> HIDE DEF r, m, F
<1>15. \A n \in 1..Len(Fields') : Len(Fields'[n]) = Width <=> n =< Right'
  <2>1. ASSUME NEW n \in 1..Len(Fields') PROVE Len(Fields'[n]) = Width <=> n =< Right'
    <3>1. CASE n = m + 1
      BY <1>3, <1>8, <1>14, <3>1
    <3>2. CASE n # m + 1
      <4>1. n \in 1..m /\ n =< Right'
        BY <1>3, <1>14, <3>2
      <4>2. Fields'[n] = Fields[n] /\ Len(Fields[n]) = Width
        BY <1>3, <1>5, <4>1
      <4> QED
        BY <4>1, <4>2
    <3> QED
      BY <3>1, <3>2
  <2> QED
    BY <2>1
<1>16. Tallied' <=> Tally(inputRecords', outputRecords', badRecords', valid',
                          FailingRows(Fields', Right'), Right')
  <2>1. FailingRows(Fields, Right)' = FailingRows(Fields', Right')
    BY DEF FailingRows, RowFails, Forbids
  <2> QED
    BY <2>1 DEF Tallied, Tally
<1>17. CASE s
  <2>1. UNCHANGED <<valid, errors, inputRecords, outputRecords, badRecords>>
    BY <1>9, <1>17 DEF ContentCallback, DieOfError, results, counters
  <2>2. Tallied'
    BY <1>6, <1>10, <1>14, <1>16, <1>17, <2>1
  <2> QED
    BY <1>1, <1>3, <1>13, <1>14, <1>15, <1>17, <2>1, <2>2
<1>18. CASE ~s
  <2>1. RecordErrors = <<>> <=> ~RowFails(r)
    BY <1>9, <1>12, <1>18
  <2>2. CASE phase' = "died"
    <3>1. rows # <<>> /\ RecordErrors # <<>>
      BY <1>9, <1>18, <2>2 DEF Complains
    <3>2. FailingRows(Fields, Right)' = FailingRows(Fields', m + 1)
      BY <1>14, <1>18 DEF FailingRows, RowFails, Forbids
    <3>3. m + 1 \in FailingRows(Fields', m + 1)
      BY <1>4, <1>10, <2>1, <3>1
    <3>4. valid' \in BOOLEAN
      BY <1>1, <2>2 DEF ContentCallback, DieOfError, WriteHeader, WriteGood, WriteBad
    <3> QED
      BY <1>3, <1>13, <1>14, <1>15, <1>18, <2>2, <3>2, <3>3, <3>4
  <2>3. CASE phase' # "died" /\ WriteHeader
    <3>1. m = 0 /\ UNCHANGED <<valid, errors, inputRecords, outputRecords, badRecords>>
      BY <1>4, <2>3 DEF WriteHeader, counters
    <3>2. F \in SUBSET (2..0) /\ FailingRows(Fields', 1) \in SUBSET (2..1) /\ Right' = 1
      BY <1>10, <1>14, <1>18, <3>1
    <3>3. Tallied'
      BY <1>6, <1>16, <3>1, <3>2, NothingToTally
    <3> QED
      BY <1>1, <1>3, <1>13, <1>14, <1>15, <2>3, <3>1, <3>3
  <2>4. CASE phase' # "died" /\ WriteGood
    <3>1. /\ m # 0 /\ ~RowFails(r) /\ UNCHANGED <<valid, errors, badRecords>>
          /\ inputRecords' = inputRecords + 1 /\ outputRecords' = outputRecords + 1
      BY <1>4, <2>1, <2>4 DEF WriteGood
    <3>2. FailingRows(Fields', Right') = F /\ Right' = m + 1 /\ m \in Nat \ {0}
      BY <1>3, <1>10, <1>14, <1>18, <3>1
    <3>3. Tally(inputRecords + 1, outputRecords + 1, badRecords, valid, F, m + 1)
      <4>1. m \in Nat \ {0} /\ F \in SUBSET (2..m) /\ valid \in BOOLEAN
        BY <1>1, <1>10, <3>2
      <4> QED
        BY <1>6, <4>1, TallyGrows, Zenon
    <3>4. Tallied'
      BY <1>16, <3>1, <3>2, <3>3
    <3> QED
      BY <1>1, <1>3, <1>13, <1>14, <1>15, <2>4, <3>1, <3>4
  <2>5. CASE phase' # "died" /\ WriteBad
    <3>1. /\ m # 0 /\ RowFails(r) /\ valid' = FALSE /\ errors' = <<>>
          /\ inputRecords' = inputRecords + 1 /\ badRecords' = badRecords + 1
          /\ outputRecords' = outputRecords
      BY <1>4, <2>1, <2>5 DEF WriteBad
    <3>2. FailingRows(Fields', Right') = F \cup {m + 1} /\ Right' = m + 1 /\ m \in Nat \ {0}
      BY <1>3, <1>10, <1>14, <1>18, <3>1
    <3>3. Tally(inputRecords + 1, outputRecords, badRecords + 1, FALSE, F \cup {m + 1}, m + 1)
      BY <1>1, <1>6, <1>10, <3>2, TallyGrows
    <3>4. Tallied'
      BY <1>16, <3>1, <3>2, <3>3
    <3>5. Right' \in Nat /\ valid' \in BOOLEAN
      <4>1. valid' \in BOOLEAN
        BY <3>1, Zenon
      <4> QED
        BY <3>2, <4>1
    <3> QED
      BY <1>13, <1>15, <2>5, <3>1, <3>4, <3>5
  <2>6. phase' # "died" => WriteHeader \/ WriteGood \/ WriteBad
    BY <1>9, <1>18 DEF ContentCallback, DieOfError
  <2> QED
    BY <2>2, <2>3, <2>4, <2>5, <2>6
<1> QED
  BY <1>17, <1>18

\* A step that reports nothing keeps it.
LEMMA CountedStays ==
  ASSUME Counted, TypeOK', record' \in [1..Width -> Seq(Byte)],
         phase' \in {"reading", "finished", "exited", "died"}, phase' = "died" <=> phase = "died",
         UNCHANGED <<Fields, valid, format, contents, delimiter, errors,
                     inputRecords, outputRecords, badRecords>>,
         phase' = "reading" => FileReading' /\ (stop' <=> ~Fits) /\ (~stop' => RecordIsRow'),
         phase' \in {"finished", "exited"} /\ Fits => Fields = Input
  PROVE  Counted'
<1>1. Fits' = Fits /\ Right' = Right /\ Input' = Input
  BY DEF Fits, Right, Input, SimpleFS
<1>2. FailingRows(Fields, Right)' = FailingRows(Fields, Right)
  BY <1>1 DEF FailingRows, RowFails, Forbids
<1>3. Tallied' = Tallied
  BY <1>1, <1>2 DEF Tallied, Tally
<1> QED
  BY <1>1, <1>2, <1>3 DEF Counted

\* A turn of the loop counts what it reports,
LEMMA CountedTurn ==
  ASSUME ValidationsMeant, Counted, NEW s \in BOOLEAN, ParserTurn(s, Complains),
         ContentCallback, UNCHANGED format
  PROVE  Counted'
<1>1. /\ phase = "reading" /\ Accept(s) /\ FieldCallback /\ StopsAt(s) /\ fieldCount' = NextCount
      /\ phase' \in Outcome(Complains, phase) /\ UNCHANGED <<contents, file>>
  BY DEF ParserTurn
<1>2. /\ FileReading /\ TypeOK /\ record \in [1..Width -> Seq(Byte)]
      /\ contents \in Files /\ format \in Formats /\ delimiter = <<US>>
      /\ ~stop /\ Fits /\ RecordIsRow
  BY <1>1 DEF Counted, Accept, InLoop
<1>3. /\ PlainReading' /\ UNCHANGED <<config, call, input, chunk>> /\ call # "idle"
      /\ \/ RowEvent(field, s) /\ state' = "RECORD_NOT_BEGUN"
         \/ FieldEvent(field, s)
         \/ NoEvent
  BY <1>1, <1>2, TurnStays DEF FileReading
<1>4. UNCHANGED delimiter /\ Input' = Input
  BY <1>1, <1>3 DEF config, Input, SimpleFS
<1>5. FileReading' /\ TypeOK'
  BY <1>2, <1>3 DEF FileReading, PlainReading, PlainParser
<1>6. record' \in [1..Width -> Seq(Byte)] /\ (~s => RecordIsRow')
  <2>1. field \in Seq(Byte)
    BY <1>2 DEF TypeOK
  <2> QED
    BY <1>1, <1>2, <1>3, <2>1, RecordFollows
<1>7. phase' \in {"reading", "died"} /\ (phase' = "died" => Complains)
  BY <1>1 DEF Outcome, AfterError
<1>8. CASE RowEvent(field, s) /\ state' = "RECORD_NOT_BEGUN"
  <2>1. BeginsWith(Input', Fields')
    <3>1. BeginsWith(Table(contents, SimpleFS, Eol), Fields)'
      BY <1>3, <1>8, ReportedBeginsNext
    <3> QED
      BY <3>1 DEF Input
  <2>2. /\ valid' \in BOOLEAN
        /\ Fits' <=> ~s
        /\ Right' \in Nat
        /\ \A n \in 1..Len(Fields') : Len(Fields'[n]) = Width <=> n =< Right'
        /\ phase' # "died" => errors' = <<>> /\ Tallied'
        /\ phase' = "died" => ~Fits' \/ FailingRows(Fields, Right)' # {}
    BY <1>1, <1>2, <1>4, <1>7, <1>8, <2>1, CountedEvent
  <2>3. stop' = s
    BY <1>8 DEF RowEvent
  <2> QED
    BY <1>1, <1>2, <1>4, <1>5, <1>6, <1>7, <2>1, <2>2, <2>3 DEF Counted
<1>9. CASE FieldEvent(field, s) \/ NoEvent
  <2>1. rows' = rows /\ ~RecordReported
    BY <1>9 DEF FieldEvent, NoEvent, RecordReported
  <2>2. Fields' = Fields /\ ~s /\ ~Complete /\ ~Complains
    BY <1>1, <2>1 DEF Fields, StopsAt, Complete, Complains
  <2>3. phase' = "reading" /\ ~stop'
    BY <1>2, <1>7, <1>9, <2>2 DEF FieldEvent, NoEvent
  <2>4. UNCHANGED <<valid, errors, inputRecords, outputRecords, badRecords>>
    BY <2>2, <2>3 DEF ContentCallback, DieOfError, results, counters
  <2> QED
    BY <1>1, <1>2, <1>4, <1>5, <1>6, <2>2, <2>3, <2>4, CountedStays
<1> QED
  BY <1>3, <1>8, <1>9

\* and so does finish().
LEMMA CountedFinish ==
  ASSUME ValidationsMeant, Counted, NEW s \in BOOLEAN, FinishParser(s, Complains),
         ContentCallback, UNCHANGED format
  PROVE  Counted'
<1>1. /\ phase = "reading" /\ AllRead /\ Finish(s) /\ FieldCallback /\ StopsAt(s)
      /\ fieldCount' = NextCount
      /\ phase' \in Outcome(Complains, "finished") /\ UNCHANGED <<contents, file>>
  BY DEF FinishParser
<1>2. /\ FileReading /\ TypeOK /\ record \in [1..Width -> Seq(Byte)]
      /\ contents \in Files /\ format \in Formats /\ delimiter = <<US>>
      /\ (stop <=> ~Fits) /\ (~stop => RecordIsRow)
  BY <1>1 DEF Counted
<1>3. PlainParser /\ FileIsRead /\ RowsAreRead
  BY <1>2 DEF FileReading, PlainReading
<1>4. /\ call = "idle" /\ UNCHANGED config
      /\ stop => UNCHANGED <<row, rows, stop, state, field>>
      /\ ~stop /\ state # "RECORD_NOT_BEGUN" => RowEvent(field, s) /\ field' = <<>>
      /\ ~stop /\ state = "RECORD_NOT_BEGUN" => NoEvent
  BY <1>1, <1>3, PlainFinish
<1>5. UNCHANGED delimiter /\ Input' = Input
  BY <1>1, <1>4 DEF config, Input, SimpleFS
<1>6. TypeOK'
  BY <1>1, <1>2, MethodTyped
<1>7. phase' \in {"finished", "died"} /\ (phase' = "died" => Complains)
  BY <1>1 DEF Outcome, AfterError
<1>8. ASSUME UNCHANGED <<row, rows, stop>>
      PROVE  /\ UNCHANGED <<Fields, valid, errors, inputRecords, outputRecords, badRecords>>
             /\ phase' = "finished" /\ record' \in [1..Width -> Seq(Byte)]
  <2>1. ~RecordReported /\ Reported = <<>>
    BY <1>8 DEF RecordReported, Reported
  <2>2. Fields' = Fields /\ ~Complete /\ ~Complains
    BY <1>8, <2>1 DEF Fields, Complete, Complains
  <2>3. phase' = "finished"
    BY <1>7, <2>2
  <2>4. UNCHANGED <<valid, errors, inputRecords, outputRecords, badRecords>>
    BY <2>2, <2>3 DEF ContentCallback, DieOfError, results, counters
  <2>5. record' = [n \in 1..Width |-> record[n]]
    BY <1>1, <2>1 DEF FieldCallback
  <2>6. record' \in [1..Width -> Seq(Byte)]
    BY <1>2, <2>5
  <2> QED
    BY <2>2, <2>3, <2>4, <2>6
<1>9. CASE stop
  <2>1. UNCHANGED <<row, rows, stop>> /\ ~Fits
    BY <1>2, <1>4, <1>9
  <2> QED
    BY <1>1, <1>5, <1>6, <1>8, <2>1, CountedStays
<1>10. CASE ~stop
  <2>1. file = <<>> /\ position = Len(input) /\ Fits /\ RecordIsRow
    BY <1>1, <1>2, <1>4, <1>10 DEF AllRead, FileReading
  <2>2. Fields' = Input'
    <3>1. Fields' = Table(contents, SimpleFS, Eol)
      BY <1>1, <1>3, <1>10, <2>1, TableIsReported
    <3> QED
      BY <1>5, <3>1 DEF Input
  <2>3. CASE state = "RECORD_NOT_BEGUN"
    <3>1. UNCHANGED <<row, rows, stop>>
      BY <1>4, <1>10, <2>3 DEF NoEvent
    <3>2. Fields = Input
      BY <1>5, <1>8, <2>2, <3>1
    <3> QED
      BY <1>1, <1>5, <1>6, <1>8, <3>1, <3>2, CountedStays
  <2>4. CASE state # "RECORD_NOT_BEGUN"
    <3>1. RowEvent(field, s)
      BY <1>4, <1>10, <2>4
    <3>2. BeginsWith(Input, Fields')
      <4>1. Len(Input) \in Nat
        <5> DEFINE F == Fields'
        <5>1. Len(F) = Len(Fields) + 1 /\ Len(Fields) \in Nat
          BY <1>2, <3>1, RowReported, RowTyped
        <5>2. Input = F
          BY <1>5, <2>2
        <5> QED
          BY <5>1, <5>2
      <4> QED
        BY <1>5, <2>2, <4>1 DEF BeginsWith
    <3>3. /\ valid' \in BOOLEAN
          /\ Fits' <=> ~s
          /\ Right' \in Nat
          /\ \A n \in 1..Len(Fields') : Len(Fields'[n]) = Width <=> n =< Right'
          /\ phase' # "died" => errors' = <<>> /\ Tallied'
          /\ phase' = "died" => ~Fits' \/ FailingRows(Fields, Right)' # {}
      BY <1>1, <1>7, <1>10, <2>1, <3>1, <3>2, CountedEvent
    <3>4. record' \in [1..Width -> Seq(Byte)]
      <4>1. field \in Seq(Byte)
        BY <1>2 DEF TypeOK
      <4> QED
        BY <1>1, <1>2, <2>1, <3>1, <4>1, RecordFollows
    <3> QED
      BY <1>1, <1>2, <1>5, <1>6, <1>7, <2>2, <3>2, <3>3, <3>4 DEF Counted
  <2> QED
    BY <2>3, <2>4
<1> QED
  BY <1>9, <1>10

\* And everything else.
LEMMA CountedStep ==
  ASSUME ValidationsMeant, Counted, [ContentNext]_contentVars
  PROVE  Counted'
<1>1. /\ TypeOK /\ phase \in {"reading", "finished", "exited", "died"}
      /\ record \in [1..Width -> Seq(Byte)]
      /\ phase = "reading" => FileReading /\ (stop <=> ~Fits) /\ (~stop => RecordIsRow)
      /\ Fits /\ phase \in {"finished", "exited"} => Fields = Input
  BY DEF Counted
<1>2. CASE NextBlock /\ UNCHANGED <<format, results>>
  <2>1. /\ phase = "reading" /\ ReadBlock /\ UNCHANGED <<record, fieldCount, valid, phase>>
        /\ UNCHANGED <<format, errors, inputRecords, outputRecords, badRecords>>
    BY <1>2 DEF NextBlock, results, counters
  <2>2. call = "idle" /\ ~stop
    BY <2>1 DEF ReadBlock
  <2>3. PlainReading /\ position = Len(input)
    BY <1>1, <2>1, <2>2 DEF FileReading
  <2>4. /\ PlainReading' /\ stop' = FALSE /\ Fields' = Fields
        /\ call' = IF position < Len(input) THEN "draining" ELSE "parsing"
        /\ UNCHANGED <<config, row, contents>>
    BY <2>1, <2>3, BlockStays
  <2>5. call' = "parsing" /\ TypeOK'
    BY <2>3, <2>4 DEF PlainReading, PlainParser, TypeOK
  <2>6. FileReading'
    BY <2>4, <2>5 DEF FileReading
  <2>7. RecordIsRow' /\ ~stop' /\ UNCHANGED delimiter
    BY <1>1, <2>1, <2>2, <2>4 DEF RecordIsRow, config
  <2> QED
    BY <1>1, <2>1, <2>2, <2>4, <2>5, <2>6, <2>7, CountedStays
<1>3. CASE ReturnFromParse /\ UNCHANGED <<format, results>>
  <2>1. /\ phase = "reading" /\ LeaveLoop /\ UNCHANGED recordVars
        /\ UNCHANGED <<format, errors, inputRecords, outputRecords, badRecords>>
    BY <1>3 DEF ReturnFromParse, results, counters
  <2>2. UNCHANGED <<contents, file, record, fieldCount, valid, phase>>
    BY <2>1 DEF recordVars
  <2>3. PlainReading /\ call # "draining" /\ call # "idle"
    BY <1>1, <2>1 DEF FileReading, LeaveLoop
  <2>4. call = "parsing"
    BY <2>3 DEF PlainReading, PlainParser, TypeOK, Calls
  <2>5. /\ PlainReading' /\ Fields' = Fields /\ call' = "idle"
        /\ stop \/ position = Len(input)
        /\ UNCHANGED <<config, input, position, stop, row>>
    BY <2>1, <2>2, <2>3, <2>4, LeaveStays
  <2>6. FileReading' /\ TypeOK'
    BY <2>5 DEF FileReading, PlainReading, PlainParser
  <2>7. UNCHANGED delimiter /\ (RecordIsRow' <=> RecordIsRow)
    BY <2>2, <2>5 DEF RecordIsRow, config
  <2> QED
    BY <1>1, <2>1, <2>2, <2>5, <2>6, <2>7, CountedStays
<1>4. CASE ParseContent
  <2>1. PICK s \in BOOLEAN : ParserTurn(s, Complains) /\ ContentCallback /\ UNCHANGED format
    BY <1>4 DEF ParseContent
  <2> QED
    BY <2>1, CountedTurn
<1>5. CASE FinishContent
  <2>1. PICK s \in BOOLEAN : FinishParser(s, Complains) /\ ContentCallback /\ UNCHANGED format
    BY <1>5 DEF FinishContent
  <2> QED
    BY <2>1, CountedFinish
<1>6. CASE WriteBoth
  <2>1. /\ phase = "finished" /\ phase' = "exited" /\ UNCHANGED <<contents, record, valid, vars>>
        /\ UNCHANGED <<format, errors, inputRecords, outputRecords, badRecords>>
    BY <1>6 DEF WriteBoth, Exit, counters
  <2>2. UNCHANGED <<Fields, delimiter>>
    BY <2>1 DEF Fields, vars, config
  <2>3. TypeOK'
    BY <1>1, <2>1, StutterTyped
  <2> QED
    BY <1>1, <2>1, <2>2, <2>3, CountedStays
<1>7. CASE UNCHANGED contentVars
  <2>1. /\ UNCHANGED <<vars, contents, file, record, fieldCount, valid, phase, format, errors>>
        /\ UNCHANGED <<inputRecords, outputRecords, badRecords>>
    BY <1>7 DEF contentVars, recordVars, results, counters
  <2>2. /\ UNCHANGED <<config, text, delimiterPos, characterClass, state, status,
                       stop, field, trailingSpace, row, rows>>
        /\ UNCHANGED <<call, position, input, delimiter>>
    BY <2>1 DEF vars, text, config
  <2>3. TypeOK'
    BY <1>1, <2>1, StutterTyped
  <2>4. Fields' = Fields /\ (RecordIsRow' <=> RecordIsRow)
    BY <2>1, <2>2 DEF Fields, RecordIsRow
  <2>5. FileReading => FileReading'
    <3>1. PlainReading => stop' \in BOOLEAN
      BY <2>2 DEF PlainReading, PlainParser, TypeOK
    <3>2. PlainReading => PlainReading'
      BY <2>1, <2>2, <3>1, PlainStays
    <3> QED
      BY <2>2, <3>2 DEF FileReading
  <2> QED
    BY <1>1, <2>1, <2>2, <2>3, <2>4, <2>5, CountedStays
<1> QED
  BY <1>2, <1>3, <1>4, <1>5, <1>6, <1>7 DEF ContentNext, ReadContent

\* A row of the input fails as Failing says.
LEMMA FailingIs == \A n : Failing(n) # {} <=> RowFails(Input[n])
<1> TAKE n
<1>1. ASSUME NEW c \in 1..Width, Forbids(c, Input[n][c]) # {} PROVE Failing(n) # {}
  <2>1. PICK v : v \in Forbids(c, Input[n][c])
    BY <1>1
  <2>2. <<c, v>> \in {c} \X Forbids(c, Input[n][c])
    BY <2>1
  <2> QED
    BY <2>2 DEF Failing
<1>2. ASSUME NEW p \in Failing(n) PROVE \E c \in 1..Width : Forbids(c, Input[n][c]) # {}
  <2>1. PICK c \in 1..Width : p \in {c} \X Forbids(c, Input[n][c])
    BY <1>2 DEF Failing
  <2> QED
    BY <2>1
<1> QED
  BY <1>1, <1>2 DEF RowFails

\* There is a number of rows before the first one of the wrong length.
LEMMA RowsKeptTyped ==
  ASSUME Len(Input) \in Nat
  PROVE  /\ RowsKept \in 0..Len(Input)
         /\ RowsKept < Len(Input) => Len(Input[RowsKept + 1]) # Width
<1> DEFINE L == Len(Input)
           P(n) == 1..n \subseteq RightLength /\ (n < L => n + 1 \notin RightLength)
           T == {k \in Nat : k =< L => (\E n \in 0..L : P(n)) \/ 1..k \subseteq RightLength}
<1> HIDE DEF L
<1>1. L \in Nat
  BY DEF L
<1>2. 0 \in T
  OBVIOUS
<1>3. ASSUME NEW k \in T PROVE k + 1 \in T
  <2>1. SUFFICES ASSUME k + 1 =< L, ~\E n \in 0..L : P(n) PROVE 1..(k + 1) \subseteq RightLength
    OBVIOUS
  <2>2. k \in Nat /\ 1..k \subseteq RightLength /\ k \in 0..L /\ k < L
    BY <1>1, <2>1
  <2>3. k + 1 \in RightLength
    BY <2>1, <2>2
  <2>4. \A n \in 1..(k + 1) : n \in 1..k \/ n = k + 1
    BY <2>2
  <2> QED
    BY <2>2, <2>3, <2>4
<1>4. T = Nat
  <2> HIDE DEF T
  <2> QED
    BY <1>2, <1>3, InductionOnNat DEF T
<1>5. \E n \in 0..L : P(n)
  <2>1. L \in T
    <3> HIDE DEF T
    <3> QED
      BY <1>1, <1>4
  <2>2. 1..L \subseteq RightLength => L \in 0..L /\ P(L)
    BY <1>1
  <2> QED
    BY <1>1, <2>1, <2>2
<1>6. RowsKept = CHOOSE n \in 0..L : P(n)
  BY DEF RowsKept, L
<1>7. RowsKept \in 0..L /\ P(RowsKept)
  <2> HIDE DEF P
  <2> QED
    BY <1>5, <1>6
<1>8. RowsKept < L => RowsKept + 1 \in 1..L
  BY <1>1, <1>7
<1> QED
  BY <1>7, <1>8 DEF RightLength, L

\* What the invariant says in the end: the rows that were counted are the ones before the
\* first of the wrong length; a program that died may have more of them before it.
LEMMA CountedRows ==
  ASSUME Counted, Exited \/ Died
  PROVE  /\ Exited => RowsKept = Right /\ FailingRows(Fields, Right) = BadRows
         /\ Died => FailingRows(Fields, Right) \subseteq BadRows
         /\ ~Fits => RowsKept < Len(Input)
         /\ \A n \in 1..Right : Fields[n] = Input[n]
<1>1. BeginsWith(Input, Fields) /\ (Exited /\ Fits => Fields = Input)
  <2>1. Fields \in Seq(Seq(Seq(Byte)))
    BY FieldsTyped DEF Counted
  <2>2. CASE Fits /\ Exited
    <3>1. Fields = Input
      BY <2>2 DEF Counted, Exited
    <3> QED
      BY <2>1, <3>1 DEF BeginsWith
  <2>3. CASE ~Fits \/ Died
    BY <2>3 DEF Counted, Died, Exited
  <2> QED
    BY <2>2, <2>3
<1>2. /\ Len(Fields) \in Nat /\ Len(Input) \in Nat /\ Len(Fields) =< Len(Input)
      /\ \A n \in 1..Len(Fields) : Input[n] = Fields[n]
  BY <1>1 DEF BeginsWith
<1>3. /\ Right \in Nat /\ \A n \in 1..Len(Fields) : Len(Fields[n]) = Width <=> n =< Right
  BY DEF Counted
<1>4. Right =< Len(Fields) /\ (~Fits => Right + 1 = Len(Fields)) /\ (Fits => Right = Len(Fields))
  BY <1>2, <1>3 DEF Right
<1>5. \A n \in 1..Right : Len(Input[n]) = Width /\ Fields[n] = Input[n]
  BY <1>2, <1>3, <1>4
<1>6. ASSUME ~Fits PROVE Right < Len(Input) /\ Len(Input[Right + 1]) # Width
  <2>1. Right + 1 \in 1..Len(Fields) /\ ~(Right + 1 =< Right) /\ Right < Len(Input)
    BY <1>2, <1>3, <1>4, <1>6
  <2> QED
    BY <1>2, <1>3, <2>1
<1>7. Exited \/ ~Fits => RowsKept = Right
  <2>1. Exited /\ Fits => Right = Len(Input)
    BY <1>1, <1>4
  <2>2. Exited \/ ~Fits => (Right < Len(Input) => Len(Input[Right + 1]) # Width)
    BY <1>2, <1>3, <1>6, <2>1
  <2>3. Right =< Len(Input)
    BY <1>2, <1>3, <1>4
  <2> QED
    BY <1>2, <1>3, <1>5, <2>2, <2>3, RowsKeptIs
<1>8. RowsKept \in Nat /\ Right =< RowsKept
  <2>1. /\ RowsKept \in 0..Len(Input)
        /\ RowsKept < Len(Input) => Len(Input[RowsKept + 1]) # Width
    BY <1>2, RowsKeptTyped
  <2>2. ASSUME RowsKept < Right PROVE FALSE
    <3>1. RowsKept + 1 \in 1..Right /\ RowsKept < Len(Input)
      BY <1>2, <1>3, <1>4, <2>1, <2>2
    <3> QED
      BY <1>5, <2>1, <3>1
  <2> QED
    BY <1>2, <1>3, <2>1, <2>2
<1>9. \A n \in 2..Right : n \in 1..Right /\ n \in 2..RowsKept
  BY <1>3, <1>8
<1>10. FailingRows(Fields, Right) = {n \in 2..Right : Failing(n) # {}}
  BY <1>5, <1>9, FailingIs DEF FailingRows
<1>11. FailingRows(Fields, Right) \subseteq BadRows
  BY <1>9, <1>10 DEF BadRows, BodyRows
<1>12. RowsKept = Right => FailingRows(Fields, Right) = BadRows
  BY <1>10 DEF BadRows, BodyRows
<1> QED
  BY <1>5, <1>6, <1>7, <1>11, <1>12

\* The summary of validate_content is true: the three counters are the numbers of the rows
\* behind the header, of those that pass every validation and of those that fail one, for
\* every file and every format (recordcb() and main()).
THEOREM CountsProved ==
  ASSUME PlainFiles, ValidationsMeant PROVE ContentSpec => []CountsAreTrue
<1>1. ASSUME Counted PROVE CountsAreTrue
  <2>1. SUFFICES ASSUME Exited
                 PROVE  /\ inputRecords = Cardinality(BodyRows)
                        /\ outputRecords = Cardinality(GoodRows)
                        /\ badRecords = Cardinality(BadRows)
    BY DEF CountsAreTrue
  <2>2. RowsKept = Right /\ FailingRows(Fields, Right) = BadRows
    BY <1>1, <2>1, CountedRows
  <2>3. Tallied
    BY <1>1, <2>1 DEF Counted, Exited
  <2> QED
    BY <2>2, <2>3 DEF Tallied, Tally, GoodRows, BodyRows
<1>2. ContentInit => Counted
  BY CountedInit
<1>3. Counted /\ [ContentNext]_contentVars => Counted'
  BY CountedStep
<1> QED
  BY <1>1, <1>2, <1>3, PTL DEF ContentSpec

\* The exit code of validate_content is right about the validations of the rows that were
\* read, and error() ends the program only over a row that fails one or has the wrong
\* length (recordcb() and main()).
THEOREM ContentVerdict ==
  ASSUME PlainFiles, ValidationsMeant PROVE ContentSpec => []VerdictOnValidations
<1>1. ASSUME Counted PROVE VerdictOnValidations
  <2>1. ASSUME Exited PROVE valid <=> BadRows = {}
    <3>1. RowsKept = Right /\ FailingRows(Fields, Right) = BadRows
      BY <1>1, <2>1, CountedRows
    <3>2. Tallied
      BY <1>1, <2>1 DEF Counted, Exited
    <3> QED
      BY <3>1, <3>2 DEF Tallied, Tally
  <2>2. ASSUME Died PROVE BadRows # {} \/ RowsKept < Len(Input)
    <3>1. FailingRows(Fields, Right) \subseteq BadRows /\ (~Fits => RowsKept < Len(Input))
      BY <1>1, <2>2, CountedRows
    <3>2. ~Fits \/ FailingRows(Fields, Right) # {}
      BY <1>1, <2>2 DEF Counted, Died
    <3> QED
      BY <3>1, <3>2
  <2> QED
    BY <2>1, <2>2 DEF VerdictOnValidations
<1>2. ContentInit => Counted
  BY CountedInit
<1>3. Counted /\ [ContentNext]_contentVars => Counted'
  BY CountedStep
<1> QED
  BY <1>1, <1>2, <1>3, PTL DEF ContentSpec

-----------------------------------------------------------------------------
(* Sequences one behind the other. *)

\* One sequence more stands behind the others.
LEMMA FlatAppend ==
  ASSUME NEW S, NEW seqs \in Seq(Seq(S)), NEW x \in Seq(S)
  PROVE  /\ FlattenSeq(seqs) \in Seq(S)
         /\ FlattenSeq(Append(seqs, x)) = FlattenSeq(seqs) \o x
<1> DEFINE m    == Len(seqs)
           more == Append(seqs, x)
<1>1. /\ m \in Nat /\ Len(more) = m + 1 /\ more[m + 1] = x /\ \A i \in 1..m : more[i] = seqs[i]
      /\ more \in Seq(Seq(S)) /\ more # <<>>
  BY AppendProperties
<1>2. PICK g : Flattens(g, more) /\ FlattenSeq(more) = g[m + 1]
  <2> HIDE DEF more
  <2>1. Len(more) \in Nat \ {0}
    BY <1>1
  <2> QED
    BY <1>1, <2>1, FlattenSeqIs
<1> HIDE DEF more
<1>3. \A i \in 1..(m + 1) : g[i] = IF i = 1 THEN more[i] ELSE g[i - 1] \o more[i]
  BY <1>1, <1>2 DEF Flattens
<1>4. CASE m = 0
  <2>1. FlattenSeq(seqs) = seqs /\ seqs = <<>>
    BY <1>4 DEF FlattenSeq
  <2>2. g[1] = x /\ 1 \in 1..(m + 1)
    BY <1>1, <1>3, <1>4
  <2>3. <<>> \in Seq(S) /\ <<>> \o x = x
    OBVIOUS
  <2> QED
    BY <1>2, <1>4, <2>1, <2>2, <2>3 DEF more
<1>5. CASE m # 0
  <2>1. m \in Nat \ {0} /\ seqs # <<>>
    BY <1>1, <1>5
  <2>2. PICK h : Flattens(h, seqs) /\ FlattenSeq(seqs) = h[m]
    BY <2>1, FlattenSeqIs
  <2>3. \A i \in 1..m : h[i] = IF i = 1 THEN seqs[i] ELSE h[i - 1] \o seqs[i]
    BY <2>2 DEF Flattens
  <2>4. FlattenSeq(seqs) \in Seq(S)
    BY <2>1, NothingFlattened
  <2> HIDE DEF m
  <2> DEFINE T == {k \in Nat : k + 1 =< m => g[k + 1] = h[k + 1]}
  <2>5. 0 \in T
    <3>1. 1 \in 1..m /\ 1 \in 1..(m + 1)
      BY <2>1
    <3>2. g[1] = h[1]
      BY <1>1, <1>3, <2>3, <3>1
    <3> QED
      BY <3>2
  <2>6. ASSUME NEW k \in T PROVE k + 1 \in T
    <3>1. SUFFICES ASSUME k + 2 =< m PROVE g[k + 2] = h[k + 2]
      <4>1. k \in Nat /\ (k + 1) + 1 = k + 2
        BY <2>6
      <4> QED
        BY <3>1, <4>1
    <3>2. k \in Nat /\ g[k + 1] = h[k + 1]
      BY <2>1, <2>6, <3>1
    <3>3. k + 2 \in 1..m /\ k + 2 \in 1..(m + 1) /\ k + 2 # 1 /\ (k + 2) - 1 = k + 1
      BY <2>1, <3>1, <3>2
    <3>4. g[k + 2] = g[k + 1] \o more[k + 2] /\ h[k + 2] = h[k + 1] \o seqs[k + 2]
      BY <1>3, <2>3, <3>3
    <3> QED
      BY <1>1, <3>2, <3>3, <3>4
  <2>7. T = Nat
    <3> HIDE DEF T
    <3> QED
      BY <2>5, <2>6, InductionOnNat DEF T
  <2>8. g[m] = h[m]
    <3>1. m - 1 \in Nat /\ (m - 1) + 1 = m
      BY <2>1
    <3>2. m - 1 \in T
      <4> HIDE DEF T
      <4> QED
        BY <2>7, <3>1
    <3> QED
      BY <3>1, <3>2
  <2>9. g[m + 1] = g[m] \o more[m + 1]
    <3>1. m + 1 \in 1..(m + 1) /\ m + 1 # 1 /\ (m + 1) - 1 = m
      BY <2>1
    <3> QED
      BY <1>3, <3>1
  <2> QED
    BY <1>1, <1>2, <2>2, <2>4, <2>8, <2>9 DEF more
<1> QED
  BY <1>4, <1>5

\* A whole sequence is a beginning of it.
LEMMA WholePrefix ==
  ASSUME NEW A, NEW s \in Seq(A)
  PROVE  Len(s) \in Nat /\ SubSeq(s, 1, Len(s)) = s
<1> DEFINE p == SubSeq(s, 1, Len(s))
<1>1. p \in Seq(A) /\ Len(p) = Len(s) /\ \A k \in 1..Len(s) : p[k] = s[k]
  BY SubSeqProperties
<1> HIDE DEF p
<1> QED
  BY <1>1, SeqEqual DEF p

\* What is appended to the second of two parts is appended to the whole.
LEMMA AppendBehind ==
  ASSUME NEW A, NEW s \in Seq(A), NEW t \in Seq(A), NEW x \in A
  PROVE  s \o t \in Seq(A) /\ s \o Append(t, x) = Append(s \o t, x)
OBVIOUS

\* A text, two more behind it, and a byte at the end.
EndsWith(s, t, x, b) ==
  /\ s \o t \in Seq(Byte) /\ (s \o t) \o x \in Seq(Byte)
  /\ Append(t \o x, b) \in Seq(Byte) /\ Append(t \o x, b) = t \o Append(x, b)
  /\ s \o Append(t \o x, b) = Append((s \o t) \o x, b)

\* That is so of all texts.
LEMMA LineBehind ==
  ASSUME NEW s \in Seq(Byte), NEW t \in Seq(Byte), NEW x \in Seq(Byte), NEW b \in Byte
  PROVE  EndsWith(s, t, x, b)
<1>1. s \o t \in Seq(Byte) /\ t \o x \in Seq(Byte) /\ (s \o t) \o x \in Seq(Byte)
  OBVIOUS
<1>2. (s \o t) \o x = s \o (t \o x)
  BY ConcatAssociative
<1>3. Append(t \o x, b) \in Seq(Byte) /\ Append(t \o x, b) = t \o Append(x, b)
  BY <1>1, AppendProperties, AppendBehind
<1>4. s \o Append(t \o x, b) = Append(s \o (t \o x), b)
  BY <1>1, AppendBehind
<1> QED
  BY <1>1, <1>2, <1>3, <1>4 DEF EndsWith

\* So are the sequences of two parts.
LEMMA FlatConcat ==
  ASSUME NEW S, NEW a \in Seq(Seq(S)), NEW b \in Seq(Seq(S))
  PROVE  /\ a \o b \in Seq(Seq(S))
         /\ FlattenSeq(a \o b) = FlattenSeq(a) \o FlattenSeq(b)
<1> DEFINE x(k) == SubSeq(b, 1, k)
           D == {k \in Nat : k =< Len(b) =>
                   FlattenSeq(a \o x(k)) = FlattenSeq(a) \o FlattenSeq(x(k))}
<1>0. a \o b \in Seq(Seq(S))
  BY ConcatProperties, Zenon
<1>1. 0 \in D
  <2>1. x(0) = <<>> /\ a \o <<>> = a
    OBVIOUS
  <2>2. FlattenSeq(<<>>) = <<>>
    BY DEF FlattenSeq
  <2>3. FlattenSeq(a) \in Seq(S)
    BY FlatAppend
  <2>4. FlattenSeq(a) \o <<>> = FlattenSeq(a)
    BY <2>3
  <2> HIDE DEF x
  <2> QED
    BY <2>1, <2>2, <2>4
<1>2. ASSUME NEW k \in D PROVE k + 1 \in D
  <2>1. SUFFICES ASSUME k + 1 =< Len(b)
                 PROVE  FlattenSeq(a \o x(k + 1)) = FlattenSeq(a) \o FlattenSeq(x(k + 1))
    BY <1>2
  <2>2. k \in Nat /\ k < Len(b) /\ FlattenSeq(a \o x(k)) = FlattenSeq(a) \o FlattenSeq(x(k))
    BY <1>2, <2>1
  <2> DEFINE y == b[k + 1]
  <2>3. x(k) \in Seq(Seq(S)) /\ y \in Seq(S) /\ x(k + 1) = Append(x(k), y)
    BY <2>2, PrefixGrows
  <2> HIDE DEF x, y
  <2>4. a \o x(k) \in Seq(Seq(S)) /\ a \o Append(x(k), y) = Append(a \o x(k), y)
    BY <2>3, AppendBehind
  <2>5. /\ FlattenSeq(Append(a \o x(k), y)) = FlattenSeq(a \o x(k)) \o y
        /\ FlattenSeq(Append(x(k), y)) = FlattenSeq(x(k)) \o y
        /\ FlattenSeq(x(k)) \in Seq(S) /\ FlattenSeq(a) \in Seq(S)
    BY <2>3, <2>4, FlatAppend
  <2>6. \A c, d, e \in Seq(S) : (c \o d) \o e = c \o (d \o e)
    BY ConcatAssociative
  <2>7. (FlattenSeq(a) \o FlattenSeq(x(k))) \o y = FlattenSeq(a) \o (FlattenSeq(x(k)) \o y)
    BY <2>3, <2>5, <2>6, Zenon
  <2> QED
    BY <2>2, <2>3, <2>4, <2>5, <2>7, Zenon
<1>3. D = Nat
  <2>1. D \in SUBSET Nat
    OBVIOUS
  <2> HIDE DEF D
  <2> QED
    BY <1>1, <1>2, <2>1, InductionOnNat
<1>4. Len(b) \in Nat /\ x(Len(b)) = b
  BY WholePrefix
<1> HIDE DEF x
<1>5. Len(b) \in D
  <2> HIDE DEF D
  <2> QED
    BY <1>3, <1>4
<1> QED
  BY <1>0, <1>4, <1>5

-----------------------------------------------------------------------------
(* The lines that validate_content writes. *)

\* What is put item by item stands behind what was there.
LEMMA EachAdds ==
  ASSUME NEW buffer \in Buffer, NEW items \in Seq(Seq(Byte))
  PROVE  /\ PutEach(buffer, items) \in Buffer
         /\ FlattenSeq(items) \in Seq(Byte)
         /\ Content(PutEach(buffer, items)) = Content(buffer) \o FlattenSeq(items)
<1> DEFINE pieces == [n \in 1..Len(items) |-> <<items[n], <<>> >>]
           x(n)   == SubSeq(items, 1, n)
<1>1. /\ Len(items) \in Nat /\ Len(pieces) = Len(items)
      /\ \A n \in 1..Len(items) : pieces[n][1] = items[n] /\ pieces[n][2] = <<>>
  OBVIOUS
<1>2. PutEach(buffer, items) = PutAll(buffer, pieces)
  BY DEF PutEach
<1> HIDE DEF pieces
<1>3. PICK h : Puts(h, buffer, pieces) /\ PutAll(buffer, pieces) = h[Len(items)]
  <2>1. Len(pieces) \in Nat
    BY <1>1
  <2> QED
    BY <1>1, <2>1, PutAllIs
<1> DEFINE Good(n) == h[n] \in Buffer /\ Content(h[n]) = Content(buffer) \o FlattenSeq(x(n))
           D == {n \in Nat : n =< Len(items) => Good(n)}
<1>4. Content(buffer) \in Seq(Byte)
  BY DEF Buffer, Content
<1>5. 0 \in D
  <2>1. h[0] = buffer
    BY <1>1, <1>3 DEF Puts
  <2>2. x(0) = <<>> /\ FlattenSeq(<<>>) = <<>>
    BY DEF FlattenSeq
  <2>3. Content(buffer) \o <<>> = Content(buffer)
    BY <1>4
  <2> HIDE DEF x
  <2> QED
    BY <2>1, <2>2, <2>3
<1>6. ASSUME NEW k \in D PROVE k + 1 \in D
  <2>1. SUFFICES ASSUME k + 1 =< Len(items) PROVE Good(k + 1)
    BY <1>6
  <2>2. k \in Nat /\ k < Len(items) /\ Good(k) /\ k + 1 \in 1..Len(items)
    BY <1>1, <1>6, <2>1
  <2> DEFINE i == items[k + 1]
  <2>3. x(k) \in Seq(Seq(Byte)) /\ i \in Seq(Byte) /\ x(k + 1) = Append(x(k), i)
    BY <2>2, PrefixGrows
  <2>4. h[k + 1] = Put[<<h[k], i, <<>> >>]
    <3>1. k + 1 \in 0..Len(pieces) /\ k + 1 # 0 /\ (k + 1) - 1 = k
      BY <1>1, <2>2
    <3>2. h[k + 1] = Put[<<h[(k + 1) - 1], pieces[k + 1][1], pieces[k + 1][2]>>]
      BY <1>3, <3>1 DEF Puts
    <3> QED
      BY <1>1, <2>2, <3>1, <3>2
  <2> HIDE DEF x, i
  <2>5. <<>> \in Seq(Byte) /\ h[k] \in Buffer /\ i \o <<>> = i
    BY <2>2, <2>3
  <2>6. Put[<<h[k], i, <<>> >>] = PutItem(h[k], i, <<>>)
    <3>1. <<h[k], i, <<>> >> \in Buffer \X Seq(Byte) \X Seq(Byte)
      BY <2>3, <2>5
    <3> QED
      BY <3>1, Zenon DEF Put
  <2>7. PutItem(h[k], i, <<>>) \in Buffer /\ Content(PutItem(h[k], i, <<>>)) = Content(h[k]) \o i
    <3> DEFINE g == h[k]
    <3>1. g \in Buffer
      BY <2>5
    <3> HIDE DEF g
    <3>2. /\ PutItem(g, i, <<>>) \in Buffer
          /\ Content(PutItem(g, i, <<>>)) = Content(g) \o (i \o <<>>)
      BY <2>3, <2>5, <3>1, PutAddsTheItem
    <3> QED
      BY <2>5, <3>2 DEF g
  <2>8. FlattenSeq(x(k)) \in Seq(Byte) /\ FlattenSeq(x(k + 1)) = FlattenSeq(x(k)) \o i
    BY <2>3, FlatAppend
  <2>9. \A c, d, e \in Seq(Byte) : (c \o d) \o e = c \o (d \o e)
    BY ConcatAssociative
  <2>10. (Content(buffer) \o FlattenSeq(x(k))) \o i = Content(buffer) \o (FlattenSeq(x(k)) \o i)
    BY <1>4, <2>3, <2>8, <2>9, Zenon
  <2> QED
    BY <2>2, <2>4, <2>6, <2>7, <2>8, <2>10
<1>7. D = Nat
  <2>1. D \in SUBSET Nat
    OBVIOUS
  <2> HIDE DEF D
  <2> QED
    BY <1>5, <1>6, <2>1, InductionOnNat
<1>8. x(Len(items)) = items
  BY WholePrefix
<1> HIDE DEF x
<1>9. Good(Len(items))
  <2>1. Len(items) \in D
    <3> HIDE DEF D
    <3> QED
      BY <1>1, <1>7
  <2> QED
    BY <1>1, <2>1
<1> QED
  BY <1>2, <1>3, <1>8, <1>9, FlatAppend

\* A list of items with one more at its end has a separator before it.
LEMMA BetweenGrows ==
  ASSUME NEW A, NEW items \in Seq(A), NEW x \in A, NEW sep \in A
  PROVE  /\ Between(items, sep) \in Seq(A)
         /\ Between(<<>>, sep) = <<>>
         /\ items = <<>> => Between(Append(items, x), sep) = <<x>>
         /\ items # <<>> => Between(Append(items, x), sep)
                              = Append(Append(Between(items, sep), sep), x)
<1> DEFINE m    == Len(items)
           more == Append(items, x)
           one(s, k) == IF k % 2 = 1 THEN s[(k + 1) \div 2] ELSE sep
<1>1. /\ m \in Nat /\ more \in Seq(A) /\ Len(more) = m + 1 /\ more[m + 1] = x
      /\ \A n \in 1..m : more[n] = items[n] /\ items[n] \in A
  BY AppendProperties
<1>2. \A s : Between(s, sep) = [k \in 1..(2 * Len(s) - 1) |-> one(s, k)]
  BY DEF Between
<1>3. ASSUME NEW n \in Nat, NEW k \in 1..(2 * n - 1), k % 2 = 1
      PROVE  (k + 1) \div 2 \in 1..n
  BY <1>3
<1>4. Between(<<>>, sep) = <<>>
  <2>1. 1..(2 * Len(<<>>) - 1) = {}
    OBVIOUS
  <2> HIDE DEF one
  <2>2. Between(<<>>, sep) = [k \in 1..(2 * Len(<<>>) - 1) |-> one(<<>>, k)]
    BY <1>2
  <2> QED
    BY <2>1, <2>2
<1>5. CASE m = 0
  <2>1. items = <<>>
    BY <1>5
  <2>2. 1..(2 * 1 - 1) = 1..1 /\ 1 % 2 = 1 /\ (1 + 1) \div 2 = 1 /\ \A k \in 1..1 : k = 1
    OBVIOUS
  <2>3. one(more, 1) = x /\ Len(more) = 1
    BY <1>1, <1>5, <2>2
  <2>4. Between(more, sep) = [k \in 1..(2 * Len(more) - 1) |-> one(more, k)]
    BY <1>2
  <2> HIDE DEF one, more
  <2>5. Between(more, sep) = [k \in 1..1 |-> x]
    BY <2>2, <2>3, <2>4
  <2>6. Between(more, sep) = <<x>>
    BY <2>5
  <2> QED
    BY <1>4, <2>1, <2>6 DEF more
<1>6. CASE m # 0
  <2>1. items # <<>> /\ 2 * m - 1 \in Nat \ {0}
    BY <1>1, <1>6
  <2> DEFINE b == Between(items, sep)
             c == Between(more, sep)
             d == Append(Append(b, sep), x)
  <2>2. b = [k \in 1..(2 * m - 1) |-> one(items, k)] /\ c = [k \in 1..(2 * m + 1) |-> one(more, k)]
    <3>1. 2 * Len(more) - 1 = 2 * m + 1
      BY <1>1
    <3> HIDE DEF one
    <3> QED
      BY <1>2, <3>1
  <2>3. \A k \in 1..(2 * m - 1) : one(items, k) \in A /\ one(more, k) = one(items, k)
    BY <1>1, <1>3
  <2>4. one(more, 2 * m) = sep /\ one(more, 2 * m + 1) = x
    <3>1. (2 * m) % 2 = 0 /\ (2 * m + 1) % 2 = 1 /\ ((2 * m + 1) + 1) \div 2 = m + 1
      BY <1>1
    <3> QED
      BY <1>1, <3>1
  <2> HIDE DEF one, more, b, c
  <2>5. b \in Seq(A) /\ Len(b) = 2 * m - 1 /\ \A k \in 1..(2 * m - 1) : b[k] = one(items, k)
    <3>1. [k \in 1..(2 * m - 1) |-> one(items, k)] \in Seq(A)
      BY <2>1, <2>3, IsASeq
    <3> QED
      BY <2>1, <2>2, <3>1
  <2>6. /\ d \in Seq(A) /\ Len(d) = 2 * m + 1 /\ d[2 * m] = sep /\ d[2 * m + 1] = x
        /\ \A k \in 1..(2 * m - 1) : d[k] = b[k]
    <3> DEFINE e == Append(b, sep)
    <3>1. /\ e \in Seq(A) /\ Len(e) = (2 * m - 1) + 1 /\ e[(2 * m - 1) + 1] = sep
          /\ \A k \in 1..(2 * m - 1) : e[k] = b[k]
      BY <2>5, AppendProperties
    <3> HIDE DEF e
    <3>2. Len(e) = 2 * m /\ e[2 * m] = sep
      BY <1>1, <3>1
    <3>3. /\ Append(e, x) \in Seq(A) /\ Len(Append(e, x)) = 2 * m + 1
          /\ Append(e, x)[2 * m + 1] = x /\ \A k \in 1..(2 * m) : Append(e, x)[k] = e[k]
      <4>1. /\ Append(e, x) \in Seq(A) /\ Len(Append(e, x)) = Len(e) + 1
            /\ Append(e, x)[Len(e) + 1] = x /\ \A k \in 1..Len(e) : Append(e, x)[k] = e[k]
        <5>1. e \in Seq(A)
          BY <3>1
        <5> QED
          BY <5>1, AppendProperties, SMTT(30)
      <4> QED
        BY <3>2, <4>1
    <3>4. 2 * m \in 1..(2 * m) /\ \A k \in 1..(2 * m - 1) : k \in 1..(2 * m)
      BY <1>1, <2>1
    <3> QED
      BY <3>1, <3>2, <3>3, <3>4 DEF e
  <2> HIDE DEF d
  <2>7. \A k \in 1..(2 * m + 1) : d[k] = one(more, k)
    <3>1. \A k \in 1..(2 * m + 1) : k \in 1..(2 * m - 1) \/ k = 2 * m \/ k = 2 * m + 1
      BY <1>1
    <3> QED
      BY <2>3, <2>4, <2>5, <2>6, <3>1
  <2>8. d = [k \in 1..(2 * m + 1) |-> d[k]]
    BY <2>6
  <2>9. d = c
    BY <2>2, <2>7, <2>8
  <2> QED
    BY <1>4, <2>1, <2>5, <2>9 DEF d, b, c, more
<1>7. <<>> \in Seq(A)
  OBVIOUS
<1> QED
  BY <1>4, <1>5, <1>6, <1>7

\* The fields of a row, each with a separator behind it, as one text,
LeadText(r) == IF r = <<>> THEN <<>> ELSE FlattenSeq(Leading(r))

\* and some items, each between two commas.
JoinText(items) == FlattenSeq(Between(items, Comma))

\* A field more stands behind these texts.
LEMMA TextsGrow ==
  ASSUME NEW r \in Seq(Seq(Byte)), NEW x \in Seq(Byte)
  PROVE  /\ LeadText(r) \in Seq(Byte)
         /\ LeadText(Append(r, x)) = Append(LeadText(r) \o x, US)
         /\ FlattenSeq(Line(Append(r, x), <<US>>)) = Append(LeadText(r) \o x, LF)
<1> DEFINE A    == Seq(Byte)
           sep  == <<US>>
           B    == Between(r, sep)
           more == Between(Append(r, x), sep)
<1>1. sep \in A /\ <<LF>> \in A /\ US \in Byte /\ LF \in Byte /\ <<>> \in A
  BY DataTyped
<1>2. ASSUME NEW c \in A, NEW b \in Byte PROVE c \o <<b>> = Append(c, b)
  OBVIOUS
<1> HIDE DEF A, sep
<1>3. B \in Seq(A) /\ more \in Seq(A)
  <2>1. r \in Seq(A) /\ x \in A
    BY DEF A
  <2>2. Append(r, x) \in Seq(A)
    BY <2>1
  <2> QED
    BY <1>1, <2>1, <2>2, BetweenGrows
<1>4. /\ r = <<>> => more = <<x>>
      /\ r # <<>> => more = Append(Append(B, sep), x)
  <2>1. r \in Seq(A) /\ x \in A
    BY DEF A
  <2> QED
    BY <1>1, <2>1, BetweenGrows, ZenonT(60)
<1> HIDE DEF B, more
<1>5. \A c \in Seq(A), y \in A :
        FlattenSeq(c) \in A /\ FlattenSeq(Append(c, y)) = FlattenSeq(c) \o y
  BY FlatAppend DEF A
<1>6. LeadText(r) \in A /\ FlattenSeq(more) = LeadText(r) \o x
  <2>1. x \in A
    BY DEF A
  <2>2. CASE r = <<>>
    <3>1. <<>> \in Seq(A) /\ <<x>> = Append(<<>>, x)
      OBVIOUS
    <3>2. FlattenSeq(<<>>) = <<>>
      BY DEF FlattenSeq
    <3>3. FlattenSeq(more) = <<>> \o x
      BY <1>4, <1>5, <2>1, <2>2, <3>1, <3>2
    <3> QED
      BY <1>1, <2>2, <3>3 DEF LeadText
  <2>3. CASE r # <<>>
    <3>1. Leading(r) = Append(B, sep)
      BY DEF Leading, B, sep
    <3>2. Leading(r) \in Seq(A)
      BY <1>1, <1>3, <3>1
    <3> QED
      BY <1>4, <1>5, <2>1, <2>3, <3>1, <3>2 DEF LeadText
  <2> QED
    BY <2>2, <2>3
<1>7. FlattenSeq(Append(more, sep)) = FlattenSeq(more) \o sep
  BY <1>1, <1>3, <1>5
<1>8. FlattenSeq(Append(more, <<LF>>)) = FlattenSeq(more) \o <<LF>>
  BY <1>1, <1>3, <1>5
<1>9. Append(r, x) # <<>>
  BY AppendProperties
<1>10. LeadText(Append(r, x)) = FlattenSeq(Append(more, sep))
  BY <1>9 DEF LeadText, Leading, more, sep
<1>11. Line(Append(r, x), <<US>>) = Append(more, <<LF>>)
  BY DEF Line, more, sep
<1>12. FlattenSeq(more) \in A
  BY <1>1, <1>3, <1>5
<1>13. LeadText(Append(r, x)) = Append(LeadText(r) \o x, US)
  BY <1>1, <1>2, <1>6, <1>7, <1>10, <1>12 DEF sep
<1>14. FlattenSeq(Line(Append(r, x), <<US>>)) = Append(LeadText(r) \o x, LF)
  BY <1>1, <1>2, <1>6, <1>8, <1>11, <1>12
<1> QED
  BY <1>6, <1>13, <1>14 DEF A

\* So does an error.
LEMMA JoinGrows ==
  ASSUME NEW e \in Seq(Seq(Byte)), NEW x \in Seq(Byte), NEW comma \in Byte, Comma = <<comma>>
  PROVE  /\ JoinText(e) \in Seq(Byte)
         /\ JoinText(<<>>) = <<>>
         /\ e = <<>> => JoinText(Append(e, x)) = x
         /\ e # <<>> => JoinText(Append(e, x)) = Append(JoinText(e), comma) \o x
         /\ e # <<>> => FlattenSeq(Line(e, Comma)) = Append(JoinText(e), LF)
<1> DEFINE A == Seq(Byte)
           B == Between(e, Comma)
<1>1. Comma \in A /\ <<LF>> \in A /\ LF \in Byte /\ <<>> \in A /\ e \in Seq(A) /\ x \in A
  BY DataTyped
<1>2. ASSUME NEW c \in A, NEW b \in Byte PROVE c \o <<b>> = Append(c, b)
  OBVIOUS
<1>3. ASSUME NEW c \in A PROVE <<>> \o c = c
  OBVIOUS
<1> HIDE DEF A
<1>4. /\ B \in Seq(A)
      /\ Between(<<>>, Comma) = <<>>
      /\ e = <<>> => Between(Append(e, x), Comma) = <<x>>
      /\ e # <<>> => Between(Append(e, x), Comma) = Append(Append(B, Comma), x)
  <2>1. Comma \in A /\ e \in Seq(A) /\ x \in A
    BY <1>1
  <2>2. \A sep \in A :
          /\ Between(e, sep) \in Seq(A)
          /\ Between(<<>>, sep) = <<>>
          /\ e = <<>> => Between(Append(e, x), sep) = <<x>>
          /\ e # <<>> => Between(Append(e, x), sep) = Append(Append(Between(e, sep), sep), x)
    BY <2>1, BetweenGrows
  <2> QED
    BY <2>1, <2>2 DEF B
<1> HIDE DEF B
<1>5. \A c \in Seq(A), y \in A :
        FlattenSeq(c) \in A /\ FlattenSeq(Append(c, y)) = FlattenSeq(c) \o y
  BY FlatAppend DEF A
<1>6. JoinText(e) \in A /\ JoinText(e) = FlattenSeq(B)
  BY <1>1, <1>4, <1>5 DEF JoinText, B
<1>7. JoinText(<<>>) = <<>> /\ FlattenSeq(<<>>) = <<>>
  BY <1>4 DEF JoinText, FlattenSeq
<1>8. e = <<>> => JoinText(Append(e, x)) = x
  <2>1. <<>> \in Seq(A) /\ <<x>> = Append(<<>>, x)
    OBVIOUS
  <2>2. FlattenSeq(<<x>>) = <<>> \o x
    BY <1>1, <1>5, <1>7, <2>1
  <2> QED
    BY <1>1, <1>3, <1>4, <2>2 DEF JoinText
<1>9. FlattenSeq(Append(B, Comma)) = Append(JoinText(e), comma)
  <2>1. FlattenSeq(Append(B, Comma)) = JoinText(e) \o Comma
    BY <1>1, <1>4, <1>5, <1>6
  <2>2. JoinText(e) \o <<comma>> = Append(JoinText(e), comma)
    BY <1>2, <1>6
  <2> QED
    BY <2>1, <2>2
<1>10. e # <<>> => JoinText(Append(e, x)) = Append(JoinText(e), comma) \o x
  <2>1. Append(B, Comma) \in Seq(A)
    BY <1>1, <1>4
  <2>2. FlattenSeq(Append(Append(B, Comma), x)) = Append(JoinText(e), comma) \o x
    BY <1>1, <1>5, <1>9, <2>1
  <2> QED
    BY <1>4, <2>2 DEF JoinText
<1>11. FlattenSeq(Line(e, Comma)) = Append(JoinText(e), LF)
  <2>1. Line(e, Comma) = Append(B, <<LF>>)
    BY DEF Line, B
  <2>2. FlattenSeq(Append(B, <<LF>>)) = JoinText(e) \o <<LF>>
    BY <1>1, <1>4, <1>5, <1>6
  <2>3. JoinText(e) \o <<LF>> = Append(JoinText(e), LF)
    BY <1>1, <1>2, <1>6
  <2> QED
    BY <2>1, <2>2, <2>3
<1> QED
  BY <1>6, <1>7, <1>8, <1>10, <1>11 DEF A

\* Behind the fields of a row and their separators the next field begins.
LEMMA RowBegun ==
  ASSUME NEW s \in Seq(Byte), NEW T \in Seq(Seq(Seq(Byte))), WrittenAs(s, T),
         NEW r \in Seq(Seq(Data))
  PROVE  LeadText(r) \in Seq(Byte) /\ Writing(s \o LeadText(r), T, r, <<>>)
<1> DEFINE q(n) == SubSeq(r, 1, n)
           Good(n) == LeadText(q(n)) \in Seq(Byte) /\ Writing(s \o LeadText(q(n)), T, q(n), <<>>)
           D == {n \in Nat : n =< Len(r) => Good(n)}
<1>1. 0 \in D
  <2>1. q(0) = <<>> /\ Append(<<>>, <<>>) = << <<>> >> /\ s \o <<>> = s /\ <<>> \in Seq(Byte)
    OBVIOUS
  <2>2. LeadText(<<>>) = <<>>
    BY DEF LeadText
  <2>3. Writing(s, T, <<>>, <<>>)
    BY <2>1 DEF Writing
  <2> HIDE DEF q
  <2> QED
    BY <2>1, <2>2, <2>3
<1>2. ASSUME NEW n \in D PROVE n + 1 \in D
  <2>1. SUFFICES ASSUME n + 1 =< Len(r) PROVE Good(n + 1)
    BY <1>2
  <2>2. n \in Nat /\ n < Len(r) /\ Good(n)
    BY <1>2, <2>1
  <2> DEFINE x == r[n + 1]
             L == LeadText(q(n))
  <2>3. q(n) \in Seq(Seq(Data)) /\ x \in Seq(Data) /\ q(n + 1) = Append(q(n), x)
    BY <2>2, PrefixGrows
  <2> HIDE DEF q, x
  <2>4. q(n) \in Seq(Seq(Byte)) /\ x \in Seq(Byte) /\ US \in Byte
    BY <2>3, DataTyped
  <2>5. L \in Seq(Byte) /\ LeadText(Append(q(n), x)) = Append(L \o x, US)
    BY <2>4, TextsGrow
  <2> HIDE DEF L
  <2>6. /\ s \o L \in Seq(Byte) /\ (s \o L) \o x \in Seq(Byte) /\ Append(L \o x, US) \in Seq(Byte)
        /\ s \o Append(L \o x, US) = Append((s \o L) \o x, US)
    <3>1. EndsWith(s, L, x, US)
      BY <2>4, <2>5, LineBehind
    <3> QED
      BY <3>1, Zenon DEF EndsWith
  <2>7. Writing((s \o L) \o x, T, q(n), x)
    BY <2>2, <2>3, <2>4, <2>6, WritingItem DEF L
  <2>8. Writing(Append((s \o L) \o x, US), T, Append(q(n), x), <<>>)
    BY <2>4, <2>6, <2>7, WritingSeparator
  <2> QED
    BY <2>3, <2>5, <2>6, <2>8
<1>3. D = Nat
  <2>1. D \in SUBSET Nat
    OBVIOUS
  <2> HIDE DEF D
  <2> QED
    BY <1>1, <1>2, <2>1, InductionOnNat
<1>4. Len(r) \in Nat /\ q(Len(r)) = r
  BY WholePrefix
<1> HIDE DEF q
<1>5. Good(Len(r))
  <2>1. Len(r) \in D
    <3> HIDE DEF D
    <3> QED
      BY <1>3, <1>4
  <2> QED
    BY <1>4, <2>1
<1> QED
  BY <1>4, <1>5

\* A line of the output file is a row more of its table.
LEMMA LineWritten ==
  ASSUME NEW buffer \in Buffer, NEW items \in Seq(Seq(Data)), items # <<>>, items # << <<>> >>,
         NEW T \in Seq(Seq(Seq(Byte))), WrittenAs(Content(buffer), T)
  PROVE  /\ PutEach(buffer, Line(items, <<US>>)) \in Buffer
         /\ WrittenAs(Content(PutEach(buffer, Line(items, <<US>>))), Append(T, items))
<1> DEFINE k == Len(items) - 1
           q == SubSeq(items, 1, k)
           x == items[k + 1]
           s == Content(buffer)
<1>1. k \in Nat /\ k < Len(items) /\ k + 1 = Len(items)
  OBVIOUS
<1> HIDE DEF k
<1>2. q \in Seq(Seq(Data)) /\ x \in Seq(Data) /\ items = Append(q, x)
  BY <1>1, PrefixGrows, WholePrefix
<1> HIDE DEF q, x
<1>3. /\ q \in Seq(Seq(Byte)) /\ x \in Seq(Byte) /\ LF \in Byte /\ US \in Byte
      /\ items \in Seq(Seq(Byte)) /\ s \in Seq(Byte)
  BY <1>2, DataTyped DEF Buffer, Content
<1>4. LeadText(q) \in Seq(Byte) /\ Writing(s \o LeadText(q), T, q, <<>>)
  BY <1>2, <1>3, RowBegun
<1>5. FlattenSeq(Line(items, <<US>>)) = Append(LeadText(q) \o x, LF)
  BY <1>2, <1>3, TextsGrow
<1>6. Line(items, <<US>>) \in Seq(Seq(Byte))
  <2>1. <<US>> \in Seq(Byte) /\ <<LF>> \in Seq(Byte)
    BY <1>3
  <2>2. Between(items, <<US>>) \in Seq(Seq(Byte))
    BY <1>3, <2>1, BetweenGrows
  <2> QED
    BY <2>1, <2>2 DEF Line
<1>7. /\ PutEach(buffer, Line(items, <<US>>)) \in Buffer
      /\ Content(PutEach(buffer, Line(items, <<US>>))) = s \o Append(LeadText(q) \o x, LF)
  BY <1>5, <1>6, EachAdds
<1> HIDE DEF s
<1> DEFINE L == LeadText(q)
<1> HIDE DEF L
<1>8. /\ s \o L \in Seq(Byte) /\ (s \o L) \o x \in Seq(Byte)
      /\ s \o Append(L \o x, LF) = Append((s \o L) \o x, LF)
  <2>1. L \in Seq(Byte)
    BY <1>4 DEF L
  <2>2. EndsWith(s, L, x, LF)
    BY <1>3, <2>1, LineBehind
  <2> QED
    BY <2>2, Zenon DEF EndsWith
<1>9. Writing((s \o L) \o x, T, q, x)
  BY <1>2, <1>3, <1>4, <1>8, WritingItem DEF L
<1>10. WrittenAs(Append((s \o L) \o x, LF), Append(T, Append(q, x)))
  BY <1>2, <1>3, <1>8, <1>9, WritingEnd
<1> QED
  BY <1>2, <1>7, <1>8, <1>10 DEF L

\* A line of the bad file is a row with one field more, of what stands behind it.
LEMMA BadLineWritten ==
  ASSUME NEW buffer \in Buffer, NEW r \in Seq(Seq(Data)), r # <<>>,
         NEW J \in Seq(Data), NEW tail \in Seq(Seq(Byte)), FlattenSeq(tail) = Append(J, LF),
         NEW T \in Seq(Seq(Seq(Byte))), WrittenAs(Content(buffer), T)
  PROVE  /\ PutEach(buffer, Leading(r) \o tail) \in Buffer
         /\ WrittenAs(Content(PutEach(buffer, Leading(r) \o tail)), Append(T, Append(r, J)))
<1> DEFINE s == Content(buffer)
           L == LeadText(r)
<1>1. /\ r \in Seq(Seq(Byte)) /\ J \in Seq(Byte) /\ LF \in Byte /\ <<US>> \in Seq(Byte)
      /\ s \in Seq(Byte)
  BY DataTyped DEF Buffer, Content
<1>2. L \in Seq(Byte) /\ Writing(s \o L, T, r, <<>>)
  BY <1>1, RowBegun
<1>3. Leading(r) \in Seq(Seq(Byte)) /\ L = FlattenSeq(Leading(r))
  <2>1. Between(r, <<US>>) \in Seq(Seq(Byte))
    BY <1>1, BetweenGrows
  <2> QED
    BY <1>1, <2>1 DEF Leading, LeadText
<1>4. Leading(r) \o tail \in Seq(Seq(Byte)) /\ FlattenSeq(Leading(r) \o tail) = L \o Append(J, LF)
  <2> HIDE DEF L
  <2>1. /\ Leading(r) \o tail \in Seq(Seq(Byte))
        /\ FlattenSeq(Leading(r) \o tail) = FlattenSeq(Leading(r)) \o FlattenSeq(tail)
    BY <1>3, FlatConcat, Zenon
  <2> QED
    BY <1>3, <2>1
<1>5. /\ PutEach(buffer, Leading(r) \o tail) \in Buffer
      /\ Content(PutEach(buffer, Leading(r) \o tail)) = s \o (L \o Append(J, LF))
  BY <1>4, EachAdds
<1> HIDE DEF s, L
<1>6. /\ s \o L \in Seq(Byte) /\ (s \o L) \o J \in Seq(Byte)
      /\ s \o (L \o Append(J, LF)) = Append((s \o L) \o J, LF)
  <2>1. EndsWith(s, L, J, LF)
    BY <1>1, <1>2, LineBehind
  <2>2. s \o L \in Seq(Byte) /\ (s \o L) \o J \in Seq(Byte)
    BY <2>1, Zenon DEF EndsWith
  <2>3. L \o Append(J, LF) = Append(L \o J, LF)
    BY <2>1, Zenon DEF EndsWith
  <2>4. s \o Append(L \o J, LF) = Append((s \o L) \o J, LF)
    BY <2>1, Zenon DEF EndsWith
  <2> QED
    BY <2>2, <2>3, <2>4
<1>7. Writing((s \o L) \o J, T, r, J)
  BY <1>1, <1>2, <1>6, WritingItem
<1>8. Append(r, J) # << <<>> >>
  <2> DEFINE all == Append(r, J)
  <2>1. Len(all) = Len(r) + 1 /\ Len(r) \in Nat \ {0}
    BY <1>1
  <2>2. Len(<< <<>> >>) = 1
    OBVIOUS
  <2> HIDE DEF all
  <2>3. Len(all) # 1
    BY <2>1
  <2> QED
    BY <2>2, <2>3 DEF all
<1>9. WrittenAs(Append((s \o L) \o J, LF), Append(T, Append(r, J)))
  BY <1>1, <1>6, <1>7, <1>8, WritingEnd
<1> QED
  BY <1>5, <1>6, <1>9

\* What stands behind a mark is the last piece, if it has no mark in it.
LEMMA SplitItem ==
  ASSUME NEW A, NEW t \in Seq(A), NEW marks, NEW P \in Seq(Seq(A)),
         Split(t, marks) = Append(P, <<>>), NEW item \in Seq(A),
         \A k \in 1..Len(item) : item[k] \notin marks
  PROVE  Split(t \o item, marks) = Append(P, item)
<1> DEFINE x(k) == SubSeq(item, 1, k)
           Good(k) == t \o x(k) \in Seq(A) /\ Split(t \o x(k), marks) = Append(P, x(k))
           D == {k \in Nat : k =< Len(item) => Good(k)}
<1>1. 0 \in D
  <2>1. x(0) = <<>> /\ t \o <<>> = t
    OBVIOUS
  <2> HIDE DEF x
  <2> QED
    BY <2>1
<1>2. ASSUME NEW k \in D PROVE k + 1 \in D
  <2>1. SUFFICES ASSUME k + 1 =< Len(item) PROVE Good(k + 1)
    BY <1>2
  <2>2. k \in Nat /\ k < Len(item) /\ Good(k)
    BY <1>2, <2>1
  <2> DEFINE b == item[k + 1]
             s == t \o x(k)
  <2>3. x(k) \in Seq(A) /\ b \in A /\ b \notin marks /\ x(k + 1) = Append(x(k), b)
    <3>1. k + 1 \in 1..Len(item)
      BY <2>2
    <3> QED
      BY <2>2, <3>1, PrefixGrows
  <2> HIDE DEF x, b
  <2>4. x(k) \in Seq(A) /\ Append(x(k), b) \in Seq(A)
    BY <2>3
  <2>5. Append(s, b) \in Seq(A) /\ t \o Append(x(k), b) = Append(s, b)
    <3>1. s \in Seq(A) /\ t \o Append(x(k), b) = Append(s, b)
      BY <2>3, <2>4, AppendBehind
    <3> HIDE DEF s
    <3> QED
      BY <2>3, <3>1
  <2>6. s \in Seq(A) /\ Split(s, marks) = Append(P, x(k))
    BY <2>2
  <2> HIDE DEF s
  <2>7. /\ Append(P, x(k))[Len(Append(P, x(k)))] = x(k)
        /\ WithLast(Append(P, x(k)), Append(x(k), b)) = Append(P, Append(x(k), b))
    BY <2>4, LastExchanged
  <2>8. LastPiece(s, marks) = x(k)
    BY <2>6, <2>7 DEF LastPiece
  <2>9. Split(Append(s, b), marks) = WithLast(Split(s, marks), Append(LastPiece(s, marks), b))
    <3>1. s \in Seq(A) /\ b \in A /\ b \notin marks
      BY <2>3, <2>6
    <3>2. Split(Append(s, b), marks)
            = IF b \in marks THEN Append(Split(s, marks), <<>>)
              ELSE [Split(s, marks) EXCEPT ![Len(Split(s, marks))]
                      = Append(LastPiece(s, marks), b)]
      BY <3>1, SplitGrows
    <3> QED
      BY <3>1, <3>2 DEF WithLast
  <2> QED
    BY <2>3, <2>5, <2>6, <2>7, <2>8, <2>9
<1>3. D = Nat
  <2>1. D \in SUBSET Nat
    OBVIOUS
  <2> HIDE DEF D
  <2> QED
    BY <1>1, <1>2, <2>1, InductionOnNat
<1>4. Len(item) \in Nat /\ x(Len(item)) = item
  BY WholePrefix
<1> HIDE DEF x
<1>5. Good(Len(item))
  <2>1. Len(item) \in D
    <3> HIDE DEF D
    <3> QED
      BY <1>3, <1>4
  <2> QED
    BY <1>4, <2>1
<1> QED
  BY <1>4, <1>5

\* So it is of data.
LEMMA SplitDataItem ==
  ASSUME NEW marks, NEW t \in Seq(Data), NEW P \in Seq(Seq(Data)),
         Split(t, marks) = Append(P, <<>>), NEW item \in Seq(Data),
         \A k \in 1..Len(item) : item[k] \notin marks
  PROVE  Split(t \o item, marks) = Append(P, item)
BY SplitItem, ZenonT(60)

\* Items without a comma are what is between the commas.
LEMMA JoinSplit ==
  ASSUME NEW comma \in Data, Comma = <<comma>>, NEW e \in Seq(Seq(Data \ {comma})), e # <<>>
  PROVE  JoinText(e) \in Seq(Data) /\ Split(JoinText(e), {comma}) = e
<1> DEFINE C    == Data \ {comma}
           M    == {comma}
           x(k) == SubSeq(e, 1, k)
           Good(k) == JoinText(x(k)) \in Seq(Data) /\ Split(JoinText(x(k)), M) = x(k)
           D == {k \in Nat : k + 1 =< Len(e) => Good(k + 1)}
<1>0. /\ \A i \in Seq(C) : i \in Seq(Data) /\ i \in Seq(Byte) /\ \A k \in 1..Len(i) : i[k] \notin M
      /\ \A y \in Seq(Seq(C)) : y \in Seq(Seq(Byte)) /\ y \in Seq(Seq(Data))
      /\ comma \in Byte /\ comma \in M
  <2>1. \A i \in Seq(C) : i \in Seq(Data) /\ i \in Seq(Byte) /\ \A k \in 1..Len(i) : i[k] \notin M
    BY DEF Data
  <2>2. \A y \in Seq(Seq(C)) : y \in Seq(Seq(Byte)) /\ y \in Seq(Seq(Data))
    BY <2>1
  <2> QED
    BY <2>1, <2>2 DEF Data
<1>7. ASSUME NEW t \in Seq(Data), NEW P \in Seq(Seq(Data)), Split(t, M) = Append(P, <<>>),
             NEW i \in Seq(C)
      PROVE  Split(t \o i, M) = Append(P, i)
  <2> HIDE DEF C, M
  <2>1. i \in Seq(Data) /\ \A k \in 1..Len(i) : i[k] \notin M
    BY <1>0
  <2> QED
    BY <1>7, <2>1, SplitDataItem
<1>1. 0 \in D
  <2>1. SUFFICES ASSUME 0 + 1 =< Len(e) PROVE Good(0 + 1)
    OBVIOUS
  <2> DEFINE i == e[1]
  <2>2. 0 \in Nat /\ 0 < Len(e) /\ 0 + 1 = 1
    BY <2>1
  <2>3. x(0) = <<>> /\ i \in Seq(C) /\ x(1) = Append(<<>>, i)
    <3>1. x(0) = <<>>
      OBVIOUS
    <3>2. e[0 + 1] \in Seq(C) /\ SubSeq(e, 1, 0 + 1) = Append(SubSeq(e, 1, 0), e[0 + 1])
      BY <2>2, PrefixGrows
    <3> QED
      BY <2>2, <3>1, <3>2
  <2> HIDE DEF x, i, C, M
  <2>4. JoinText(Append(<<>>, i)) = i
    <3>1. <<>> \in Seq(Seq(Byte)) /\ i \in Seq(Byte)
      BY <1>0, <2>3
    <3> QED
      BY <1>0, <3>1, JoinGrows
  <2>5. Split(i, M) = Append(<<>>, i)
    <3>1. <<>> \in Seq(Data) /\ <<>> \in Seq(Seq(Data)) /\ Append(<<>>, <<>>) = << <<>> >>
      OBVIOUS
    <3>2. Split(<<>>, M) = Append(<<>>, <<>>)
      BY <3>1, SplitOfNothing
    <3>3. <<>> \o i = i
      BY <1>0, <2>3
    <3>4. Split(<<>> \o i, M) = Append(<<>>, i)
      BY <1>7, <2>3, <3>1, <3>2
    <3> QED
      BY <3>3, <3>4
  <2> QED
    BY <1>0, <2>2, <2>3, <2>4, <2>5
<1>2. ASSUME NEW n \in D PROVE n + 1 \in D
  <2> HIDE DEF Good
  <2>1. SUFFICES ASSUME (n + 1) + 1 =< Len(e) PROVE Good((n + 1) + 1)
    BY <1>2
  <2> DEFINE k == n + 1
             i == e[k + 1]
             y == x(k)
             J == JoinText(y)
  <2>2. k \in Nat \ {0} /\ k < Len(e) /\ Good(k)
    BY <1>2, <2>1
  <2> HIDE DEF k
  <2> USE DEF Good
  <2>3. y \in Seq(Seq(C)) /\ i \in Seq(C) /\ x(k + 1) = Append(y, i) /\ y # <<>>
    <3>1. y \in Seq(Seq(C)) /\ i \in Seq(C) /\ x(k + 1) = Append(y, i)
      BY <2>2, PrefixGrows
    <3>2. Len(y) = k
      BY <2>2
    <3> HIDE DEF y
    <3>3. y # <<>>
      BY <2>2, <3>2
    <3> QED
      BY <3>1, <3>3
  <2>4. J \in Seq(Data) /\ Split(J, M) = y
    BY <2>2
  <2> HIDE DEF x, i, y, C, M
  <2>5. JoinText(Append(y, i)) = Append(J, comma) \o i
    <3>1. y \in Seq(Seq(Byte)) /\ i \in Seq(Byte)
      BY <1>0, <2>3
    <3> QED
      BY <1>0, <2>3, <3>1, JoinGrows
  <2> HIDE DEF J
  <2>6. Append(J, comma) \in Seq(Data) /\ i \in Seq(Data) /\ Append(J, comma) \o i \in Seq(Data)
    <3>1. Append(J, comma) \in Seq(Data) /\ i \in Seq(Data)
      BY <1>0, <2>3, <2>4
    <3> QED
      BY <3>1
  <2>7. Split(Append(J, comma), M) = Append(y, <<>>)
    <3>1. Split(Append(J, comma), M)
            = IF comma \in M THEN Append(Split(J, M), <<>>)
              ELSE [Split(J, M) EXCEPT ![Len(Split(J, M))]
                      = Append(LastPiece(J, M), comma)]
      BY <2>4, SplitGrows
    <3> QED
      BY <1>0, <2>4, <3>1
  <2>8. Split(Append(J, comma) \o i, M) = Append(y, i)
    <3>1. y \in Seq(Seq(Data))
      BY <1>0, <2>3
    <3> QED
      BY <1>7, <2>3, <2>6, <2>7, <3>1
  <2> QED
    BY <2>3, <2>5, <2>6, <2>8 DEF k
<1>3. D = Nat
  <2>1. D \in SUBSET Nat
    OBVIOUS
  <2> HIDE DEF D
  <2> QED
    BY <1>1, <1>2, <2>1, InductionOnNat
<1>4. Len(e) \in Nat \ {0} /\ x(Len(e)) = e
  BY WholePrefix
<1> HIDE DEF x
<1>5. Good(Len(e))
  <2>1. Len(e) - 1 \in D
    <3> HIDE DEF D
    <3> QED
      BY <1>3, <1>4
  <2>2. (Len(e) - 1) + 1 =< Len(e) /\ (Len(e) - 1) + 1 = Len(e)
    BY <1>4
  <2> HIDE DEF Good
  <2> QED
    BY <2>1, <2>2
<1> QED
  BY <1>4, <1>5

\* Every number of a finite set is one of its n-th smallest.
LEMMA NthOnto ==
  ASSUME NEW S \in SUBSET Nat, IsFiniteSet(S), NEW k \in S
  PROVE  \E n \in 1..Cardinality(S) : Nth(S, n) = k
<1> DEFINE B == Below(S, k)
           n == Cardinality(B) + 1
<1>1. IsFiniteSet(B) /\ Cardinality(B) \in Nat
  BY BelowFinite
<1>2. k \notin B /\ B \cup {k} \subseteq S
  BY DEF Below
<1> HIDE DEF B
<1>3. Cardinality(B \cup {k}) = Cardinality(B) + 1
  BY <1>1, <1>2, FS_AddElement
<1>4. Cardinality(S) \in Nat /\ Cardinality(B \cup {k}) =< Cardinality(S)
  BY <1>2, FS_CardinalityType, FS_Subset
<1>5. n \in 1..Cardinality(S) /\ n \in Nat /\ Cardinality(B) = n - 1
  BY <1>1, <1>3, <1>4
<1> HIDE DEF n
<1>6. Nth(S, n) = k
  BY <1>5, NthUnique DEF B
<1> QED
  BY <1>5, <1>6

\* What is in two sequences one behind the other is in one of them.
LEMMA RangeConcat ==
  ASSUME NEW S, NEW a \in Seq(S), NEW b \in Seq(S)
  PROVE  /\ a \o b \in Seq(S) /\ Len(a \o b) = Len(a) + Len(b)
         /\ Range(a \o b) = Range(a) \cup Range(b)
<1> DEFINE c == a \o b
<1>1. /\ c \in Seq(S) /\ Len(c) = Len(a) + Len(b)
      /\ \A i \in 1..Len(c) : c[i] = IF i =< Len(a) THEN a[i] ELSE b[i - Len(a)]
      /\ DOMAIN a = 1..Len(a) /\ DOMAIN b = 1..Len(b) /\ DOMAIN c = 1..Len(c)
      /\ Len(a) \in Nat /\ Len(b) \in Nat
  BY ConcatProperties
<1> HIDE DEF c
<1>2. ASSUME NEW i \in 1..Len(c) PROVE c[i] \in Range(a) \cup Range(b)
  <2>1. CASE i =< Len(a)
    BY <1>1, <2>1 DEF Range
  <2>2. CASE ~(i =< Len(a))
    <3>1. i - Len(a) \in 1..Len(b) /\ c[i] = b[i - Len(a)]
      BY <1>1, <2>2
    <3> QED
      BY <1>1, <3>1 DEF Range
  <2> QED
    BY <2>1, <2>2
<1>3. ASSUME NEW i \in 1..Len(a) PROVE a[i] \in Range(c)
  <2>1. i \in 1..Len(c) /\ c[i] = a[i]
    BY <1>1
  <2> QED
    BY <1>1, <2>1 DEF Range
<1>4. ASSUME NEW i \in 1..Len(b) PROVE b[i] \in Range(c)
  <2>1. i + Len(a) \in 1..Len(c) /\ ~(i + Len(a) =< Len(a)) /\ (i + Len(a)) - Len(a) = i
    BY <1>1
  <2>2. c[i + Len(a)] = b[i]
    BY <1>1, <2>1
  <2> QED
    BY <1>1, <2>1, <2>2 DEF Range
<1>5. Range(c) \subseteq Range(a) \cup Range(b)
  BY <1>1, <1>2 DEF Range
<1>6. Range(a) \subseteq Range(c) /\ Range(b) \subseteq Range(c)
  BY <1>1, <1>3, <1>4 DEF Range
<1> QED
  BY <1>1, <1>5, <1>6 DEF c

-----------------------------------------------------------------------------
(* The errors of a record. *)

\* What validate_content writes can be read again: there is one comma between two errors,
\* none in an error, and neither 0x1f nor 0x0a in any of it; and an error has the name that
\* the author of the format gave the validation.
CleanFormats ==
  /\ \E comma \in Data : Comma = <<comma>>
  /\ BadHeader \in Seq(Data)
  /\ \A form \in Formats : \A c \in 1..Width : \A v \in DOMAIN form[c].validations :
       /\ ParseArguments(form[c].validations[v]).name = Meaning[form[c].validations[v]].name
       /\ form[c].name \o Failed \o Meaning[form[c].validations[v]].name
            \in Seq(Data \ {Comma[1]})

\* The validations that a row fails, as Failing says of a row of the input.
Fails(r) == UNION {{c} \X Forbids(c, r[c]) : c \in 1..Width}

\* Each of these failures once.
Tells(found, failures) ==
  /\ found \in Seq(Seq(Data \ {Comma[1]}))
  /\ IsFiniteSet(failures) /\ Len(found) = Cardinality(failures)
  /\ Range(found) = {ErrorText(failure) : failure \in failures}

\* The errors of a column are the validations it fails.
LEMMA ColumnErrors ==
  ASSUME CleanFormats, format \in Formats, NEW c \in 1..Width, NEW x,
         FailuresOf(c) = Forbids(c, x)
  PROVE  Tells(ErrorsOf(c), {c} \X Forbids(c, x))
<1> DEFINE F == Forbids(c, x)
           m == Cardinality(F)
           E == ErrorsOf(c)
           C == Data \ {Comma[1]}
           T(k) == ErrorText(<<c, k>>)
<1>1. F \in SUBSET Nat /\ IsFiniteSet(F) /\ m \in Nat
  <2>1. format[c].validations \in Seq(DOMAIN Meaning)
    BY FormatAssumption
  <2>2. /\ Len(format[c].validations) \in Nat
        /\ DOMAIN format[c].validations = 1..Len(format[c].validations)
    BY <2>1
  <2>3. IsFiniteSet(1..Len(format[c].validations))
    BY <2>2, FS_Interval
  <2>4. F \subseteq 1..Len(format[c].validations)
    BY <2>2 DEF Forbids
  <2> HIDE DEF F
  <2>5. IsFiniteSet(F)
    BY <2>3, <2>4, FS_Subset
  <2> QED
    BY <2>4, <2>5, FS_CardinalityType
<1>2. ASSUME NEW k \in F
      PROVE  T(k) \in Seq(C) /\ format[c].name \o Failed \o Validation(c, k).name = T(k)
  <2>1. k \in DOMAIN format[c].validations
    BY DEF Forbids
  <2>2. <<c, k>>[1] = c /\ <<c, k>>[2] = k
    OBVIOUS
  <2>3. T(k) = format[c].name \o Failed \o Meaning[format[c].validations[k]].name
    BY <2>2 DEF ErrorText
  <2>4. /\ Validation(c, k).name = Meaning[format[c].validations[k]].name
        /\ format[c].name \o Failed \o Meaning[format[c].validations[k]].name \in Seq(C)
    BY <2>1 DEF CleanFormats, Validation
  <2> QED
    BY <2>3, <2>4
<1> HIDE DEF F, T, C
<1>3. \A k \in 1..m : Nth(F, k) \in F
  BY <1>1, NthIs
<1>4. E = [k \in 1..m |-> T(Nth(F, k))]
  <2>1. E = [k \in 1..m |-> format[c].name \o Failed \o Validation(c, Nth(F, k)).name]
    BY DEF ErrorsOf, F
  <2> QED
    BY <1>2, <1>3, <2>1
<1> HIDE DEF E, m
<1>5. E \in Seq(Seq(C)) /\ Len(E) = m /\ DOMAIN E = 1..m
  <2> DEFINE t(k) == T(Nth(F, k))
  <2>1. \A k \in 1..m : t(k) \in Seq(C)
    BY <1>2, <1>3
  <2>2. E = [k \in 1..m |-> t(k)]
    BY <1>4
  <2> HIDE DEF t
  <2>3. E \in Seq(Seq(C))
    BY <1>1, <2>1, <2>2, IsASeq DEF m
  <2>4. DOMAIN E = 1..m
    BY <2>2
  <2> QED
    BY <1>1, <2>3, <2>4
<1>6. Range(E) = {T(k) : k \in F}
  <2>1. ASSUME NEW i \in 1..m PROVE E[i] \in {T(k) : k \in F}
    BY <1>3, <1>4
  <2>2. ASSUME NEW k \in F PROVE T(k) \in Range(E)
    <3>1. PICK i \in 1..m : Nth(F, i) = k
      BY <1>1, NthOnto DEF m
    <3>2. E[i] = T(k)
      BY <1>4, <3>1
    <3> QED
      BY <1>5, <3>2 DEF Range
  <2> QED
    BY <1>5, <2>1, <2>2 DEF Range
<1>7. IsFiniteSet({c} \X F) /\ Cardinality({c} \X F) = m
  <2>1. IsFiniteSet({c}) /\ Cardinality({c}) = 1
    BY FS_Singleton
  <2>2. IsFiniteSet({c} \X F) /\ Cardinality({c} \X F) = 1 * m
    BY <1>1, <2>1, FS_Product DEF m
  <2> QED
    BY <1>1, <2>2
<1>8. {ErrorText(failure) : failure \in {c} \X F} = {T(k) : k \in F}
  <2>1. ASSUME NEW k \in F PROVE <<c, k>> \in {c} \X F
    OBVIOUS
  <2>2. ASSUME NEW p \in {c} \X F PROVE \E k \in F : p = <<c, k>>
    OBVIOUS
  <2> QED
    BY <2>1, <2>2 DEF T
<1> QED
  BY <1>5, <1>6, <1>7, <1>8 DEF Tells, C, E, F

\* The failures of one column more are others than those of the columns before it.
LEMMA TellsMore ==
  ASSUME NEW found, NEW failures, Tells(found, failures), NEW more, NEW others, Tells(more, others),
         failures \cap others = {}
  PROVE  Tells(found \o more, failures \cup others)
<1> DEFINE C == Data \ {Comma[1]}
           both == found \o more
           all == failures \cup others
<1>1. /\ found \in Seq(Seq(C)) /\ more \in Seq(Seq(C))
      /\ IsFiniteSet(failures) /\ IsFiniteSet(others)
      /\ Len(found) = Cardinality(failures) /\ Len(more) = Cardinality(others)
      /\ Range(found) = {ErrorText(failure) : failure \in failures}
      /\ Range(more) = {ErrorText(failure) : failure \in others}
  BY DEF Tells
<1>2. /\ both \in Seq(Seq(C)) /\ Len(both) = Len(found) + Len(more)
      /\ Range(both) = Range(found) \cup Range(more)
  <2> DEFINE S == Seq(C)
  <2>1. found \in Seq(S) /\ more \in Seq(S)
    BY <1>1
  <2> HIDE DEF C, S, both
  <2>2. /\ found \o more \in Seq(S) /\ Len(found \o more) = Len(found) + Len(more)
        /\ Range(found \o more) = Range(found) \cup Range(more)
    BY <2>1, RangeConcat
  <2> QED
    BY <2>2 DEF both, S
<1>3. IsFiniteSet(all) /\ Cardinality(all) = Cardinality(failures) + Cardinality(others)
  <2>1. /\ IsFiniteSet(failures \cup others)
        /\ Cardinality(failures \cup others)
             = Cardinality(failures) + Cardinality(others) - Cardinality(failures \cap others)
    BY <1>1, FS_Union
  <2>2. Cardinality(failures) \in Nat /\ Cardinality(others) \in Nat
    BY <1>1, FS_CardinalityType
  <2>3. Cardinality(failures \cap others) = 0
    BY FS_EmptySet
  <2> QED
    BY <2>1, <2>2, <2>3
<1>4. {ErrorText(failure) : failure \in all}
        = {ErrorText(failure) : failure \in failures} \cup {ErrorText(failure) : failure \in others}
  OBVIOUS
<1> HIDE DEF both, all
<1> QED
  BY <1>1, <1>2, <1>3, <1>4 DEF Tells, both, all

\* The errors of a record are the validations that its columns fail.
LEMMA ErrorsAre ==
  ASSUME CleanFormats, format \in Formats, NEW r,
         \A c \in 1..Width : FailuresOf(c) = Forbids(c, r[c]), errors = <<>>
  PROVE  Tells(RecordErrors, Fails(r))
<1> DEFINE C    == Data \ {Comma[1]}
           e    == [c \in 1..Width |-> ErrorsOf(c)]
           one(c) == {c} \X Forbids(c, r[c])
           x(k) == SubSeq(e, 1, k)
           U(k) == UNION {one(c) : c \in 1..k}
           D    == {k \in Nat : k =< Width => Tells(FlattenSeq(x(k)), U(k))}
<1>1. ASSUME NEW c \in 1..Width PROVE Tells(ErrorsOf(c), one(c))
  <2>1. FailuresOf(c) = Forbids(c, r[c])
    OBVIOUS
  <2> DEFINE v == r[c]
  <2>2. FailuresOf(c) = Forbids(c, v)
    BY <2>1
  <2> HIDE DEF v
  <2>3. Tells(ErrorsOf(c), {c} \X Forbids(c, v))
    BY <2>2, ColumnErrors
  <2> QED
    BY <2>3 DEF v
<1>2. e \in Seq(Seq(Seq(C))) /\ Len(e) = Width /\ Width \in Nat
  <2>1. Width \in Nat \ {0}
    BY RecordAssumption
  <2>2. \A c \in 1..Width : ErrorsOf(c) \in Seq(Seq(C))
    BY <1>1 DEF Tells
  <2> HIDE DEF C
  <2>3. e \in Seq(Seq(Seq(C)))
    BY <2>1, <2>2, IsASeq
  <2>4. DOMAIN e = 1..Width
    OBVIOUS
  <2> HIDE DEF e
  <2> QED
    BY <2>1, <2>3, <2>4
<1>3. \A c \in 1..Width : e[c] = ErrorsOf(c)
  OBVIOUS
<1> HIDE DEF e, one, C
<1>4. 0 \in D
  <2>1. x(0) = <<>> /\ FlattenSeq(<<>>) = <<>> /\ U(0) = {}
    BY DEF FlattenSeq
  <2>2. <<>> \in Seq(Seq(Data \ {Comma[1]})) /\ Len(<<>>) = 0 /\ DOMAIN <<>> = {}
    OBVIOUS
  <2>3. Range(<<>>) = {ErrorText(failure) : failure \in {}}
    BY <2>2 DEF Range
  <2>4. IsFiniteSet({}) /\ Cardinality({}) = 0
    BY FS_EmptySet
  <2>5. Tells(<<>>, {})
    BY <2>2, <2>3, <2>4 DEF Tells
  <2> HIDE DEF x, U
  <2> QED
    BY <2>1, <2>5
<1>5. ASSUME NEW k \in D PROVE k + 1 \in D
  <2>1. SUFFICES ASSUME k + 1 =< Width PROVE Tells(FlattenSeq(x(k + 1)), U(k + 1))
    BY <1>5
  <2>2. k \in Nat /\ k < Len(e) /\ k + 1 \in 1..Width /\ Tells(FlattenSeq(x(k)), U(k))
    BY <1>2, <1>5, <2>1
  <2>3. x(k) \in Seq(Seq(Seq(C))) /\ e[k + 1] \in Seq(Seq(C)) /\ x(k + 1) = Append(x(k), e[k + 1])
    BY <1>2, <2>2, PrefixGrows
  <2>4. U(k) \cap one(k + 1) = {}
    <3>1. ASSUME NEW p \in U(k), p \in one(k + 1) PROVE FALSE
      <4>1. PICK c \in 1..k : p \in one(c)
        OBVIOUS
      <4>2. p[1] = c /\ p[1] = k + 1
        BY <3>1, <4>1 DEF one
      <4> QED
        BY <2>2, <4>2
    <3> QED
      BY <3>1
  <2>5. U(k + 1) = U(k) \cup one(k + 1)
    <3>1. k + 1 \in 1..(k + 1) /\ \A c \in 1..k : c \in 1..(k + 1)
      BY <2>2
    <3>2. \A c \in 1..(k + 1) : c \in 1..k \/ c = k + 1
      BY <2>2
    <3> QED
      BY <3>1, <3>2
  <2> HIDE DEF x, U
  <2>6. FlattenSeq(Append(x(k), e[k + 1])) = FlattenSeq(x(k)) \o e[k + 1]
    BY <2>3, FlatAppend
  <2>7. Tells(e[k + 1], one(k + 1))
    BY <1>1, <1>3, <2>2
  <2>8. Tells(FlattenSeq(x(k)) \o e[k + 1], U(k) \cup one(k + 1))
    BY <2>2, <2>4, <2>7, TellsMore, Zenon
  <2> QED
    BY <2>3, <2>5, <2>6, <2>8
<1>6. D = Nat
  <2>1. D \in SUBSET Nat
    OBVIOUS
  <2> HIDE DEF D
  <2> QED
    BY <1>4, <1>5, <2>1, InductionOnNat
<1>7. x(Width) = e
  <2>1. SubSeq(e, 1, Len(e)) = e
    BY <1>2, WholePrefix
  <2> QED
    BY <1>2, <2>1
<1>8. U(Width) = Fails(r)
  BY DEF Fails, one
<1> HIDE DEF x, U
<1>9. Tells(FlattenSeq(e), Fails(r))
  <2>1. Width \in D
    <3> HIDE DEF D
    <3> QED
      BY <1>2, <1>6
  <2> QED
    BY <1>2, <1>7, <1>8, <2>1
<1>10. RecordErrors = <<>> \o FlattenSeq(e)
  BY DEF RecordErrors, e
<1>11. <<>> \o FlattenSeq(e) = FlattenSeq(e)
  <2>1. FlattenSeq(e) \in Seq(Seq(Data \ {Comma[1]}))
    BY <1>9 DEF Tells
  <2> QED
    BY <2>1
<1> QED
  BY <1>9, <1>10, <1>11

-----------------------------------------------------------------------------
(* The tables that validate_content writes. *)

\* The rows of a table with these numbers.
Picked(table, S) == [k \in 1..Cardinality(S) |-> table[Nth(S, k)]]

\* Of a longer table they are the same, and its last row is one more.
Picks(A, table, r, S) ==
  /\ Cardinality(S) \in Nat
  /\ Cardinality(S \cup {Len(table) + 1}) = Cardinality(S) + 1
  /\ Picked(table, S) \in Seq(A) /\ Len(Picked(table, S)) = Cardinality(S)
  /\ Picked(Append(table, r), S) = Picked(table, S)
  /\ Picked(Append(table, r), S \cup {Len(table) + 1}) = Append(Picked(table, S), r)

\* That is so of all rows.
LEMMA PickedGrows ==
  ASSUME NEW A, NEW table \in Seq(A), NEW r \in A, NEW S \in SUBSET (1..Len(table))
  PROVE  Picks(A, table, r, S)
<1> DEFINE m    == Len(table)
           more == Append(table, r)
           n    == Cardinality(S)
           P    == Picked(table, S)
           Q    == Picked(more, S \cup {m + 1})
<1>1. /\ m \in Nat /\ more[m + 1] = r /\ \A i \in 1..m : more[i] = table[i] /\ table[i] \in A
  BY AppendProperties
<1>2. S \in SUBSET Nat /\ IsFiniteSet(S) /\ n \in Nat /\ \A k \in S : k < m + 1
  <2>1. IsFiniteSet(1..m)
    BY <1>1, FS_Interval
  <2>2. IsFiniteSet(S)
    BY <2>1, FS_Subset
  <2> QED
    BY <1>1, <2>2, FS_CardinalityType
<1> HIDE DEF m, more, n
<1>3. \A k \in 1..n : Nth(S, k) \in S /\ Nth(S, k) \in 1..m
  <2>1. \A k \in 1..n : Nth(S, k) \in S
    BY <1>2, NthIs DEF n
  <2> QED
    BY <2>1 DEF m
<1>4. /\ Cardinality(S \cup {m + 1}) = n + 1
      /\ Nth(S \cup {m + 1}, n + 1) = m + 1
      /\ \A k \in 1..n : Nth(S \cup {m + 1}, k) = Nth(S, k)
  <2>1. m + 1 \in Nat
    BY <1>1
  <2> QED
    BY <1>2, <2>1, NthAdded DEF n
<1>5. P = [k \in 1..n |-> table[Nth(S, k)]]
  BY DEF Picked, n
<1>6. Picked(more, S) = P
  BY <1>1, <1>3, <1>5 DEF Picked, n
<1>7. Q = [k \in 1..(n + 1) |-> more[Nth(S \cup {m + 1}, k)]]
  BY <1>4 DEF Picked
<1> HIDE DEF P, Q
<1>8. P \in Seq(A) /\ Len(P) = n
  <2> DEFINE p(k) == table[Nth(S, k)]
  <2>1. \A k \in 1..n : p(k) \in A
    BY <1>1, <1>3
  <2>2. P = [k \in 1..n |-> p(k)]
    BY <1>5
  <2> HIDE DEF p
  <2>3. P \in Seq(A)
    BY <1>2, <2>1, <2>2, IsASeq
  <2>4. DOMAIN P = 1..n
    BY <2>2
  <2> QED
    BY <1>2, <2>3, <2>4
<1>9. Q = Append(P, r)
  <2> DEFINE R == Append(P, r)
  <2>1. R \in Seq(A) /\ Len(R) = n + 1 /\ R[n + 1] = r /\ \A k \in 1..n : R[k] = P[k]
    BY <1>8, AppendProperties
  <2> HIDE DEF R
  <2>2. R = [k \in 1..(n + 1) |-> R[k]]
    BY <2>1
  <2>3. \A k \in 1..(n + 1) : k \in 1..n \/ k = n + 1
    BY <1>2
  <2>4. \A k \in 1..n : R[k] = more[Nth(S \cup {m + 1}, k)]
    BY <1>1, <1>3, <1>4, <1>5, <2>1
  <2>5. R[n + 1] = more[Nth(S \cup {m + 1}, n + 1)]
    BY <1>1, <1>4, <2>1
  <2>6. \A k \in 1..(n + 1) : R[k] = more[Nth(S \cup {m + 1}, k)]
    BY <2>3, <2>4, <2>5
  <2> QED
    BY <1>7, <2>2, <2>6 DEF R
<1> QED
  BY <1>2, <1>4, <1>6, <1>8, <1>9 DEF P, Q, n, m, more, Picks

\* The header and the rows that pass, of the first m rows.
OutTable(table, m) ==
  IF m = 0 THEN <<>>
  ELSE <<table[1]>> \o Picked(table, (2..m) \ FailingRows(table, m))

\* One row more is there if it passes, or if it is the header.
LEMMA OutTableGrows ==
  ASSUME NEW table \in Seq(Seq(Seq(Byte))), NEW r \in Seq(Seq(Byte))
  PROVE  /\ OutTable(table, Len(table)) \in Seq(Seq(Seq(Byte)))
         /\ OutTable(Append(table, r), Len(table)) = OutTable(table, Len(table))
         /\ Len(table) = 0 \/ ~RowFails(r) =>
              OutTable(Append(table, r), Len(table) + 1) = Append(OutTable(table, Len(table)), r)
         /\ Len(table) # 0 /\ RowFails(r) =>
              OutTable(Append(table, r), Len(table) + 1) = OutTable(table, Len(table))
<1> DEFINE A    == Seq(Seq(Byte))
           m    == Len(table)
           more == Append(table, r)
           F    == FailingRows(table, m)
           G    == (2..m) \ F
           P    == Picked(table, G)
<1>1. /\ m \in Nat /\ more[m + 1] = r /\ \A n \in 1..m : more[n] = table[n] /\ table[n] \in A
      /\ table \in Seq(A) /\ r \in A
  BY AppendProperties
<1>2. /\ FailingRows(more, m) = F
      /\ RowFails(r) /\ m # 0 => FailingRows(more, m + 1) = F \cup {m + 1}
      /\ ~RowFails(r) \/ m = 0 => FailingRows(more, m + 1) = F
  BY FailingRowsGrow
<1>3. F \in SUBSET (2..m)
  BY DEF FailingRows
<1> HIDE DEF A, m, more, F
<1>4. G \in SUBSET (1..m)
  BY <1>1
<1>5. m # 0 => /\ (2..(m + 1)) \ F = G \cup {m + 1}
               /\ (2..(m + 1)) \ (F \cup {m + 1}) = G
  BY <1>1, <1>3
<1> HIDE DEF G, P
<1>6. P \in Seq(A) /\ Picked(more, G) = P /\ Picked(more, G \cup {m + 1}) = Append(P, r)
  <2>1. G \in SUBSET (1..Len(table)) /\ table \in Seq(A) /\ r \in A
    BY <1>1, <1>4 DEF m
  <2>2. Picks(A, table, r, G)
    BY <2>1, PickedGrows
  <2> QED
    BY <2>2, Zenon DEF P, m, more, Picks
<1>7. OutTable(table, m) = IF m = 0 THEN <<>> ELSE <<table[1]>> \o P
  BY DEF OutTable, P, G, F
<1>8. OutTable(more, m) = IF m = 0 THEN <<>> ELSE <<more[1]>> \o Picked(more, G)
  BY <1>2 DEF OutTable, G
<1>9. m # 0 => more[1] = table[1] /\ table[1] \in A /\ m + 1 # 0
  BY <1>1
<1>10. OutTable(table, m) \in Seq(A) /\ OutTable(more, m) = OutTable(table, m)
  <2>1. m # 0 => <<table[1]>> \o P \in Seq(A)
    <3> DEFINE h == table[1]
    <3>1. m # 0 => h \in A
      BY <1>9
    <3> HIDE DEF h
    <3>2. m # 0 => <<h>> \in Seq(A)
      BY <3>1
    <3> QED
      BY <1>6, <3>2 DEF h
  <2>2. <<>> \in Seq(A)
    OBVIOUS
  <2>3. OutTable(more, m) = OutTable(table, m)
    <3>1. CASE m = 0
      BY <1>7, <1>8, <3>1, Zenon
    <3>2. CASE m # 0
      <4>1. OutTable(more, m) = <<more[1]>> \o Picked(more, G)
        BY <1>8, <3>2, Zenon
      <4>2. more[1] = table[1] /\ Picked(more, G) = P
        BY <1>6, <1>9, <3>2
      <4>3. OutTable(table, m) = <<table[1]>> \o P
        BY <1>7, <3>2, Zenon
      <4> QED
        BY <4>1, <4>2, <4>3
    <3> QED
      BY <3>1, <3>2
  <2>4. OutTable(table, m) \in Seq(A)
    BY <1>7, <2>1, <2>2, Zenon
  <2> QED
    BY <2>3, <2>4
<1>11. ASSUME m = 0 PROVE OutTable(more, m + 1) = Append(OutTable(table, m), r)
  <2>1. 2..(0 + 1) = {} /\ 0 + 1 # 0 /\ more[0 + 1] = r /\ 0 + 1 = 1
    BY <1>1, <1>11
  <2>2. OutTable(more, 0 + 1) = <<r>> \o Picked(more, {})
    BY <2>1 DEF OutTable
  <2>3. Picked(more, {}) = <<>>
    <3>1. Cardinality({}) = 0 /\ 1..0 = {}
      BY FS_EmptySet
    <3> QED
      BY <3>1 DEF Picked
  <2>4. <<r>> \o <<>> = <<r>> /\ Append(<<>>, r) = <<r>>
    OBVIOUS
  <2> QED
    BY <1>7, <1>11, <2>2, <2>3, <2>4
<1>12. ASSUME m # 0, ~RowFails(r) PROVE OutTable(more, m + 1) = Append(OutTable(table, m), r)
  <2>1. OutTable(more, m + 1) = <<table[1]>> \o Append(P, r)
    BY <1>1, <1>2, <1>5, <1>6, <1>9, <1>12 DEF OutTable
  <2>2. <<table[1]>> \in Seq(A)
    BY <1>9, <1>12
  <2>3. <<table[1]>> \o Append(P, r) = Append(<<table[1]>> \o P, r)
    BY <1>1, <1>6, <2>2, AppendBehind
  <2> QED
    BY <1>7, <1>12, <2>1, <2>3
<1>13. ASSUME m # 0, RowFails(r) PROVE OutTable(more, m + 1) = OutTable(table, m)
  BY <1>1, <1>2, <1>5, <1>6, <1>7, <1>9, <1>13 DEF OutTable
<1> QED
  BY <1>10, <1>11, <1>12, <1>13 DEF m, more, A

\* A line of the bad file is a row that fails with the errors of it, as ReportsRow says of a
\* row of the input,
Reports(line, r) ==
  LET found == Split(line[Width + 1], {Comma[1]})
  IN  /\ Len(line) = Width + 1
      /\ SubSeq(line, 1, Width) = r
      /\ Len(found) = Cardinality(Fails(r))
      /\ Range(found) = {ErrorText(failure) : failure \in Fails(r)}

\* and the bad file is the header with a line for each of them.
BadRight(lines, table, m) ==
  IF m = 0 THEN lines = <<>>
  ELSE /\ Len(lines) = 1 + Cardinality(FailingRows(table, m))
       /\ lines[1] = Append(table[1], BadHeader)
       /\ \A k \in 1..Cardinality(FailingRows(table, m)) :
            Reports(lines[k + 1], Picked(table, FailingRows(table, m))[k])

\* One row more has a line there if it fails, or if it is the header.
LEMMA BadRightGrows ==
  ASSUME NEW table \in Seq(Seq(Seq(Byte))), NEW r \in Seq(Seq(Byte)),
         NEW lines \in Seq(Seq(Seq(Byte))), BadRight(lines, table, Len(table)),
         NEW line \in Seq(Seq(Byte))
  PROVE  /\ BadRight(lines, Append(table, r), Len(table))
         /\ Len(table) = 0 /\ line = Append(r, BadHeader) =>
              BadRight(Append(lines, line), Append(table, r), Len(table) + 1)
         /\ Len(table) # 0 /\ ~RowFails(r) => BadRight(lines, Append(table, r), Len(table) + 1)
         /\ Len(table) # 0 /\ RowFails(r) /\ Reports(line, r) =>
              BadRight(Append(lines, line), Append(table, r), Len(table) + 1)
<1> DEFINE A    == Seq(Seq(Byte))
           m    == Len(table)
           more == Append(table, r)
           F    == FailingRows(table, m)
           n    == Cardinality(F)
           P    == Picked(table, F)
           longer == Append(lines, line)
<1>1. /\ m \in Nat /\ more[m + 1] = r /\ \A k \in 1..m : more[k] = table[k]
      /\ table \in Seq(A) /\ r \in A
  BY AppendProperties
<1>2. /\ FailingRows(more, m) = F
      /\ RowFails(r) /\ m # 0 => FailingRows(more, m + 1) = F \cup {m + 1}
      /\ ~RowFails(r) \/ m = 0 => FailingRows(more, m + 1) = F
  BY FailingRowsGrow
<1>3. F \in SUBSET (2..m)
  BY DEF FailingRows
<1>4. /\ longer[Len(lines) + 1] = line /\ Len(longer) = Len(lines) + 1 /\ Len(lines) \in Nat
      /\ \A k \in 1..Len(lines) : longer[k] = lines[k]
  BY AppendProperties
<1> HIDE DEF A, m, more, F, longer
<1>5. F \in SUBSET (1..m)
  BY <1>1, <1>3
<1> HIDE DEF P, n
<1>6. /\ n \in Nat /\ Cardinality(F \cup {m + 1}) = n + 1
      /\ P \in Seq(A) /\ Len(P) = n
      /\ Picked(more, F) = P /\ Picked(more, F \cup {m + 1}) = Append(P, r)
  <2>1. F \in SUBSET (1..Len(table)) /\ table \in Seq(A) /\ r \in A
    BY <1>1, <1>5 DEF m
  <2>2. Picks(A, table, r, F)
    BY <2>1, PickedGrows
  <2> QED
    BY <2>2, Zenon DEF P, m, more, n, Picks
<1>7. m # 0 => more[1] = table[1] /\ m + 1 # 0
  BY <1>1
<1>8. m # 0 => /\ Len(lines) = 1 + n /\ lines[1] = Append(table[1], BadHeader)
               /\ \A k \in 1..n : Reports(lines[k + 1], P[k])
  BY DEF BadRight, m, n, P, F
<1>9. BadRight(lines, more, m)
  <2>1. m = 0 => lines = <<>>
    BY DEF BadRight, m
  <2> QED
    BY <1>2, <1>6, <1>7, <1>8, <2>1 DEF BadRight, n
<1>10. ASSUME m = 0, line = Append(r, BadHeader) PROVE BadRight(longer, more, m + 1)
  <2>1. F = {} /\ m + 1 # 0 /\ m + 1 = 1
    BY <1>1, <1>3, <1>10
  <2>2. Cardinality(FailingRows(more, m + 1)) = 0
    BY <1>2, <1>10, <2>1, FS_EmptySet
  <2>3. lines = <<>> /\ Len(lines) = 0
    BY <1>10 DEF BadRight, m
  <2>4. longer[1] = line /\ Len(longer) = 1 + 0 /\ more[1] = r
    BY <1>1, <1>4, <2>1, <2>3
  <2>5. \A k \in 1..0 : FALSE
    OBVIOUS
  <2> QED
    BY <1>10, <2>1, <2>2, <2>4, <2>5 DEF BadRight
<1>11. ASSUME m # 0, ~RowFails(r) PROVE BadRight(lines, more, m + 1)
  BY <1>1, <1>2, <1>6, <1>7, <1>8, <1>11 DEF BadRight, n
<1>12. ASSUME m # 0, RowFails(r), Reports(line, r) PROVE BadRight(longer, more, m + 1)
  <2>1. /\ FailingRows(more, m + 1) = F \cup {m + 1}
        /\ Cardinality(F \cup {m + 1}) = n + 1 /\ n \in Nat
    BY <1>2, <1>6, <1>12
  <2>2. Len(longer) = 1 + (n + 1) /\ longer[1] = Append(more[1], BadHeader)
    <3>1. Len(lines) = 1 + n /\ lines[1] = Append(table[1], BadHeader) /\ more[1] = table[1]
      BY <1>7, <1>8, <1>12
    <3>2. 1 \in 1..Len(lines) /\ Len(longer) = 1 + (n + 1)
      BY <1>4, <1>6, <3>1
    <3>3. longer[1] = lines[1]
      BY <1>4, <3>2
    <3> QED
      BY <3>1, <3>2, <3>3
  <2>3. \A k \in 1..(n + 1) : Reports(longer[k + 1], Append(P, r)[k])
    <3>1. ASSUME NEW k \in 1..n PROVE Reports(longer[k + 1], Append(P, r)[k])
      <4>1. k + 1 \in 1..Len(lines) /\ Append(P, r)[k] = P[k]
        <5>1. Len(lines) = 1 + n
          BY <1>8, <1>12
        <5>2. Append(P, r)[k] = P[k]
          BY <1>1, <1>6, AppendProperties
        <5> QED
          BY <1>6, <5>1, <5>2
      <4>2. longer[k + 1] = lines[k + 1]
        BY <1>4, <4>1
      <4> QED
        BY <1>8, <1>12, <4>1, <4>2
    <3>2. Append(P, r)[n + 1] = r /\ longer[(n + 1) + 1] = line
      <4>1. Append(P, r)[n + 1] = r
        BY <1>1, <1>6, AppendProperties
      <4>2. Len(lines) + 1 = (n + 1) + 1
        BY <1>6, <1>8, <1>12
      <4> QED
        BY <1>4, <4>1, <4>2
    <3>3. \A k \in 1..(n + 1) : k \in 1..n \/ k = n + 1
      BY <1>6
    <3> QED
      BY <1>12, <3>1, <3>2, <3>3
  <2>4. m + 1 # 0
    BY <1>1
  <2> QED
    BY <1>6, <2>1, <2>2, <2>3, <2>4 DEF BadRight
<1> QED
  BY <1>9, <1>10, <1>11, <1>12 DEF m, more, longer

-----------------------------------------------------------------------------
(* The two files that validate_content writes. *)

\* A file holds what it should of the first m rows.
GoodFile(buffer, table, m) ==
  buffer \in Buffer /\ WrittenAs(Content(buffer), OutTable(table, m))

BadFile(buffer, table, m) ==
  /\ buffer \in Buffer
  /\ \E lines \in Seq(Seq(Seq(Byte))) :
       WrittenAs(Content(buffer), lines) /\ BadRight(lines, table, m)

\* So does the output file when a row more is left out or written.
LEMMA GoodFileGrows ==
  ASSUME NEW table \in Seq(Seq(Seq(Byte))), NEW r \in Seq(Seq(Data)), r # <<>>, r # << <<>> >>,
         NEW buffer, GoodFile(buffer, table, Len(table))
  PROVE  /\ GoodFile(buffer, Append(table, r), Len(table))
         /\ Len(table) # 0 /\ RowFails(r) => GoodFile(buffer, Append(table, r), Len(table) + 1)
         /\ Len(table) = 0 \/ ~RowFails(r) =>
              GoodFile(PutEach(buffer, Line(r, <<US>>)), Append(table, r), Len(table) + 1)
<1> DEFINE m == Len(table)
           more == Append(table, r)
           T == OutTable(table, m)
<1>1. r \in Seq(Seq(Byte)) /\ buffer \in Buffer /\ WrittenAs(Content(buffer), T)
  BY DataTyped DEF GoodFile
<1>2. /\ T \in Seq(Seq(Seq(Byte))) /\ OutTable(more, m) = T
      /\ m = 0 \/ ~RowFails(r) => OutTable(more, m + 1) = Append(T, r)
      /\ m # 0 /\ RowFails(r) => OutTable(more, m + 1) = T
  BY <1>1, OutTableGrows
<1> HIDE DEF m, more, T
<1>3. /\ PutEach(buffer, Line(r, <<US>>)) \in Buffer
      /\ WrittenAs(Content(PutEach(buffer, Line(r, <<US>>))), Append(T, r))
  BY <1>1, <1>2, LineWritten
<1>4. GoodFile(buffer, more, m)
  BY <1>1, <1>2 DEF GoodFile
<1>5. m # 0 /\ RowFails(r) => GoodFile(buffer, more, m + 1)
  BY <1>1, <1>2 DEF GoodFile
<1>6. m = 0 \/ ~RowFails(r) => GoodFile(PutEach(buffer, Line(r, <<US>>)), more, m + 1)
  BY <1>2, <1>3 DEF GoodFile
<1> QED
  BY <1>4, <1>5, <1>6 DEF m, more

\* The errors of a row are one field that tells them.
LEMMA RowReportedBad ==
  ASSUME CleanFormats, NEW r \in Seq(Seq(Data)), Len(r) = Width,
         NEW found, Tells(found, Fails(r)), found # <<>>
  PROVE  /\ Line(found, Comma) \in Seq(Seq(Byte))
         /\ \E J \in Seq(Data) :
              FlattenSeq(Line(found, Comma)) = Append(J, LF) /\ Reports(Append(r, J), r)
<1>1. PICK comma \in Data : Comma = <<comma>>
  BY DEF CleanFormats
<1>2. comma = Comma[1] /\ comma \in Byte
  BY <1>1 DEF Data
<1> DEFINE C == Data \ {comma}
           J == JoinText(found)
<1>3. found \in Seq(Seq(C))
  BY <1>2 DEF Tells
<1>4. found \in Seq(Seq(Byte)) /\ <<comma>> \in Seq(Byte) /\ <<LF>> \in Seq(Byte)
  <2>1. \A i \in Seq(C) : i \in Seq(Byte)
    BY DEF Data
  <2> HIDE DEF C
  <2> QED
    BY <1>2, <1>3, <2>1, DataTyped
<1>5. J \in Seq(Data) /\ Split(J, {comma}) = found
  BY <1>1, <1>3, JoinSplit
<1>6. FlattenSeq(Line(found, Comma)) = Append(J, LF)
  BY <1>1, <1>2, <1>4, JoinGrows
<1>7. Line(found, Comma) \in Seq(Seq(Byte))
  <2>1. Between(found, <<comma>>) \in Seq(Seq(Byte))
    BY <1>4, BetweenGrows
  <2> QED
    BY <1>1, <1>4, <2>1 DEF Line
<1> HIDE DEF J, C
<1>8. /\ Len(Append(r, J)) = Width + 1 /\ Append(r, J)[Width + 1] = J
      /\ SubSeq(Append(r, J), 1, Width) = r
  <2>1. /\ Append(r, J) \in Seq(Seq(Data)) /\ Len(Append(r, J)) = Len(r) + 1
        /\ Append(r, J)[Len(r) + 1] = J /\ \A k \in 1..Len(r) : Append(r, J)[k] = r[k]
    BY <1>5, AppendProperties
  <2> DEFINE all == Append(r, J)
             p   == SubSeq(all, 1, Width)
  <2>2. Width \in Nat /\ Width =< Len(all)
    BY <2>1, RecordAssumption
  <2>3. p \in Seq(Seq(Data)) /\ Len(p) = Width /\ \A k \in 1..Width : p[k] = all[k]
    <3> HIDE DEF all
    <3>1. all \in Seq(Seq(Data))
      BY <2>1 DEF all
    <3> QED
      BY <2>2, <3>1, SubSeqProperties
  <2> HIDE DEF p
  <2>4. p = r
    BY <2>1, <2>3, SeqEqual
  <2> QED
    BY <2>1, <2>4 DEF p
<1>9. Reports(Append(r, J), r)
  BY <1>2, <1>5, <1>8 DEF Reports, Tells
<1> QED
  BY <1>5, <1>6, <1>7, <1>9

\* The bad file gets a line for the header and for each row that fails.
LEMMA BadFileGrows ==
  ASSUME CleanFormats, NEW table \in Seq(Seq(Seq(Byte))), NEW r \in Seq(Seq(Data)),
         r # <<>>, NEW buffer, BadFile(buffer, table, Len(table)), NEW found
  PROVE  /\ BadFile(buffer, Append(table, r), Len(table))
         /\ Len(table) # 0 /\ ~RowFails(r) => BadFile(buffer, Append(table, r), Len(table) + 1)
         /\ Len(table) = 0 =>
              BadFile(PutEach(buffer, Leading(r) \o << BadHeader, <<LF>> >>),
                      Append(table, r), Len(table) + 1)
         /\ (Len(table) # 0 /\ RowFails(r) /\ Len(r) = Width
               /\ Tells(found, Fails(r)) /\ found # <<>>) =>
              BadFile(PutEach(buffer, Leading(r) \o Line(found, Comma)),
                      Append(table, r), Len(table) + 1)
<1> DEFINE m    == Len(table)
           more == Append(table, r)
<1>1. PICK lines \in Seq(Seq(Seq(Byte))) :
        WrittenAs(Content(buffer), lines) /\ BadRight(lines, table, m)
  BY DEF BadFile
<1>2. /\ r \in Seq(Seq(Byte)) /\ buffer \in Buffer /\ r # <<>> /\ BadHeader \in Seq(Data)
      /\ BadHeader \in Seq(Byte) /\ LF \in Byte /\ \A J \in Seq(Data) : J \in Seq(Byte)
  <2>2. BadHeader \in Seq(Data)
    BY DEF CleanFormats
  <2> QED
    BY <2>2, DataTyped DEF BadFile
<1>3. \A line \in Seq(Seq(Byte)) :
        /\ BadRight(lines, more, m)
        /\ m = 0 /\ line = Append(r, BadHeader) => BadRight(Append(lines, line), more, m + 1)
        /\ m # 0 /\ ~RowFails(r) => BadRight(lines, more, m + 1)
        /\ m # 0 /\ RowFails(r) /\ Reports(line, r) => BadRight(Append(lines, line), more, m + 1)
  BY <1>1, <1>2, BadRightGrows
<1> HIDE DEF m, more
<1>4. BadFile(buffer, more, m)
  BY <1>1, <1>2, <1>3 DEF BadFile
<1>5. m # 0 /\ ~RowFails(r) => BadFile(buffer, more, m + 1)
  BY <1>1, <1>2, <1>3 DEF BadFile
<1>6. ASSUME NEW J \in Seq(Data), NEW tail \in Seq(Seq(Byte)), FlattenSeq(tail) = Append(J, LF),
             BadRight(Append(lines, Append(r, J)), more, m + 1)
      PROVE  BadFile(PutEach(buffer, Leading(r) \o tail), more, m + 1)
  <2>1. /\ PutEach(buffer, Leading(r) \o tail) \in Buffer
        /\ WrittenAs(Content(PutEach(buffer, Leading(r) \o tail)), Append(lines, Append(r, J)))
    BY <1>1, <1>2, <1>6, BadLineWritten
  <2>2. Append(lines, Append(r, J)) \in Seq(Seq(Seq(Byte)))
    <3>1. Append(r, J) \in Seq(Seq(Byte))
      BY <1>2
    <3> QED
      BY <3>1
  <2> QED
    BY <1>6, <2>1, <2>2 DEF BadFile
<1>7. ASSUME m = 0
      PROVE  BadFile(PutEach(buffer, Leading(r) \o << BadHeader, <<LF>> >>), more, m + 1)
  <2> DEFINE tail == << BadHeader, <<LF>> >>
  <2>1. tail \in Seq(Seq(Byte)) /\ FlattenSeq(tail) = Append(BadHeader, LF)
    <3> DEFINE S == Seq(Byte)
               h == <<BadHeader>>
               one == <<LF>>
    <3>1. <<>> \in Seq(S) /\ BadHeader \in S /\ one \in S /\ h = Append(<<>>, BadHeader)
          /\ h \in Seq(S) /\ tail = Append(h, one) /\ tail \in Seq(S)
      BY <1>2
    <3>2. \A c \in Seq(Seq(Byte)), y \in Seq(Byte) :
            FlattenSeq(c) \in Seq(Byte) /\ FlattenSeq(Append(c, y)) = FlattenSeq(c) \o y
      BY FlatAppend
    <3> HIDE DEF h, one, tail
    <3>3. FlattenSeq(<<>>) = <<>>
      BY DEF FlattenSeq
    <3>4. FlattenSeq(h) = <<>> \o BadHeader
      <4>1. FlattenSeq(Append(<<>>, BadHeader)) = FlattenSeq(<<>>) \o BadHeader
        BY <3>1, <3>2, Zenon
      <4> QED
        BY <3>1, <3>3, <4>1
    <3>5. FlattenSeq(tail) = FlattenSeq(h) \o one
      BY <3>1, <3>2
    <3>6. <<>> \o BadHeader = BadHeader /\ BadHeader \o <<LF>> = Append(BadHeader, LF)
      BY <1>2
    <3> QED
      BY <3>1, <3>4, <3>5, <3>6 DEF one
  <2>2. Append(r, BadHeader) \in Seq(Seq(Byte))
    BY <1>2
  <2>3. BadRight(Append(lines, Append(r, BadHeader)), more, m + 1)
    BY <1>3, <1>7, <2>2
  <2> HIDE DEF tail
  <2>4. BadFile(PutEach(buffer, Leading(r) \o tail), more, m + 1)
    BY <1>2, <1>6, <2>1, <2>3
  <2> QED
    BY <2>4 DEF tail
<1>8. ASSUME m # 0, RowFails(r), Len(r) = Width, Tells(found, Fails(r)), found # <<>>
      PROVE  BadFile(PutEach(buffer, Leading(r) \o Line(found, Comma)), more, m + 1)
  <2>1. PICK J \in Seq(Data) :
          FlattenSeq(Line(found, Comma)) = Append(J, LF) /\ Reports(Append(r, J), r)
    BY <1>8, RowReportedBad
  <2>2. Line(found, Comma) \in Seq(Seq(Byte))
    BY <1>8, RowReportedBad
  <2>3. Append(r, J) \in Seq(Seq(Byte))
    BY <1>2
  <2>4. BadRight(Append(lines, Append(r, J)), more, m + 1)
    BY <1>3, <1>8, <2>1, <2>3
  <2> QED
    BY <1>6, <2>1, <2>2, <2>4
<1>9. m # 0 /\ RowFails(r) /\ Len(r) = Width /\ Tells(found, Fails(r)) /\ found # <<>> =>
        BadFile(PutEach(buffer, Leading(r) \o Line(found, Comma)), more, m + 1)
  BY <1>8, Zenon
<1>10. m = 0 => BadFile(PutEach(buffer, Leading(r) \o << BadHeader, <<LF>> >>), more, m + 1)
  BY <1>7, Zenon
<1>11. BadFile(buffer, Append(table, r), Len(table))
  BY <1>4, Zenon DEF m, more
<1>12. Len(table) # 0 /\ ~RowFails(r) => BadFile(buffer, Append(table, r), Len(table) + 1)
  BY <1>5, Zenon DEF m, more
<1>13. Len(table) = 0 => BadFile(PutEach(buffer, Leading(r) \o << BadHeader, <<LF>> >>),
                                Append(table, r), Len(table) + 1)
  BY <1>10, Zenon DEF m, more
<1>14. Len(table) # 0 /\ RowFails(r) /\ Len(r) = Width
         /\ Tells(found, Fails(r)) /\ found # <<>> =>
         BadFile(PutEach(buffer, Leading(r) \o Line(found, Comma)), Append(table, r), Len(table) + 1)
  BY <1>9, Zenon DEF m, more
<1> QED
  BY <1>11, <1>12, <1>13, <1>14, Zenon

\* The two files hold what they should of the rows of the right length that are reported.
Sorted ==
  /\ Counted
  /\ phase # "died" => GoodFile(output, Fields, Right) /\ BadFile(bad, Fields, Right)
  /\ phase = "exited" => output.held = <<>> /\ bad.held = <<>>

\* What the files should hold depends on the format, which stays.
LEMMA FilesPrimed ==
  ASSUME UNCHANGED format
  PROVE  /\ GoodFile(output, Fields, Right)' <=> GoodFile(output', Fields', Right')
         /\ BadFile(bad, Fields, Right)' <=> BadFile(bad', Fields', Right')
<1>1. FailingRows(Fields, Right)' = FailingRows(Fields', Right')
  BY DEF FailingRows, RowFails, Forbids
<1>2. OutTable(Fields, Right)' = OutTable(Fields', Right')
  BY <1>1 DEF OutTable, Picked
<1>3. \A r : Fails(r)' = Fails(r)
  BY SMTT(40) DEF Fails, Forbids
<1>4. \A line, r : Reports(line, r)' <=> Reports(line, r)
  BY <1>3 DEF Reports, ErrorText
<1>5. \A lines : BadRight(lines, Fields, Right)' <=> BadRight(lines, Fields', Right')
  BY <1>1, <1>4 DEF BadRight, Picked
<1>6. GoodFile(output, Fields, Right)' <=> GoodFile(output', Fields', Right')
  BY <1>2 DEF GoodFile, WrittenAs, Content
<1>7. BadFile(bad, Fields, Right)' <=> BadFile(bad', Fields', Right')
  BY <1>5 DEF BadFile, WrittenAs, Content
<1> QED
  BY <1>6, <1>7

\* The program begins with two files that hold nothing.
LEMMA SortedInit == ASSUME PlainFiles, ContentInit PROVE Sorted
<1>1. Counted /\ phase = "reading"
  BY CountedInit DEF ContentInit, StartReading
<1>2. Fields = <<>>
  <2>1. rows = <<>>
    BY DEF ContentInit, StartReading, NewParser
  <2> QED
    BY <2>1 DEF Fields
<1>3. Right = 0
  <2>1. Fits /\ Len(<<>>) = 0
    BY <1>2 DEF Fits
  <2> QED
    BY <1>2, <2>1 DEF Right
<1>4. output = EmptyBuffer /\ bad = EmptyBuffer
  BY DEF ContentInit, StartReading
<1>5. EmptyBuffer \in Buffer /\ Content(EmptyBuffer) = <<>>
  <2>1. <<>> \in Seq(Byte) /\ <<>> \o <<>> = <<>>
    OBVIOUS
  <2> QED
    BY <2>1, RecordAssumption DEF EmptyBuffer, Buffer, Content
<1>6. WrittenAs(<<>>, <<>>)
  BY TableOfNothing DEF WrittenAs
<1>7. OutTable(Fields, 0) = <<>> /\ BadRight(<<>>, Fields, 0)
  BY DEF OutTable, BadRight
<1>8. <<>> \in Seq(Seq(Seq(Byte)))
  OBVIOUS
<1>9. GoodFile(output, Fields, Right)
  BY <1>3, <1>4, <1>5, <1>6, <1>7 DEF GoodFile
<1>10. BadFile(bad, Fields, Right)
  BY <1>3, <1>4, <1>5, <1>6, <1>7, <1>8 DEF BadFile
<1> QED
  BY <1>1, <1>9, <1>10 DEF Sorted

\* A row that is reported is written to the file it belongs to.
LEMMA SortedEvent ==
  ASSUME ValidationsMeant, CleanFormats, Sorted, phase = "reading", ~stop, NEW s \in BOOLEAN,
         RowEvent(field, s), FieldCallback, StopsAt(s), fieldCount' = NextCount,
         ContentCallback, UNCHANGED format, BeginsWith(Input, Fields'), phase' # "died"
  PROVE  GoodFile(output', Fields', Right') /\ BadFile(bad', Fields', Right')
<1> DEFINE r == Append(row, field)
           m == Len(Fields)
<1>1. /\ Counted /\ contents \in Files /\ format \in Formats /\ delimiter = <<US>>
      /\ errors = <<>> /\ GoodFile(output, Fields, Right) /\ BadFile(bad, Fields, Right)
  BY DEF Sorted, Counted
<1>2. Taken(r, s)
  BY <1>1, RowTaken
<1> HIDE DEF r
<1>3. /\ r \in Seq(Seq(Byte)) /\ r # <<>> /\ Fields \in Seq(Seq(Seq(Byte))) /\ Fields' = Append(Fields, r)
      /\ rows = <<>> <=> m = 0
      /\ Right = m /\ Right' = IF s THEN m ELSE m + 1
      /\ m + 1 \in 1..Len(Input) /\ Input[m + 1] = r
      /\ (s <=> Len(r) # Width) /\ (Complete <=> ~s)
      /\ Complete => record' = r
  BY <1>2 DEF Taken
<1>4. r \in Seq(Seq(Data)) /\ r # << <<>> >>
  <2>1. contents \in Seq(Byte) /\ OwnSeparator
    BY <1>1, FileAssumption DEF OwnSeparator
  <2> DEFINE k == m + 1
  <2>2. k \in 1..Len(Input) /\ Input[k] = r
    BY <1>3
  <2> HIDE DEF k
  <2> QED
    BY <2>1, <2>2, InputClean
<1>5. Complete => (RecordErrors = <<>> <=> ~RowFails(r)) /\ Tells(RecordErrors, Fails(r))
  <2> DEFINE k == m + 1
  <2>1. Complete => record' = Input[k] /\ Len(Input[k]) = Width
    BY <1>3
  <2>2. k \in 1..Len(Input)
    BY <1>3
  <2> HIDE DEF k
  <2>3. Complete => (RecordErrors = <<>> <=> ~RowFails(Input[k]))
    BY <1>1, <2>1, <2>2, RowErrors
  <2>4. Complete => \A c \in 1..Width : FailuresOf(c) = Forbids(c, Input[k][c])
    BY <1>1, <2>1, <2>2, FailuresAre
  <2>5. Input[k] = r
    BY <1>3 DEF k
  <2>6. Complete => Tells(RecordErrors, Fails(r))
    BY <1>1, <2>4, <2>5, ErrorsAre
  <2> QED
    BY <2>3, <2>5, <2>6
<1>6. GoodFile(output, Fields, m) /\ BadFile(bad, Fields, m)
  BY <1>1, <1>3
<1>7. /\ GoodFile(output, Fields', m)
      /\ m # 0 /\ RowFails(r) => GoodFile(output, Fields', m + 1)
      /\ m = 0 \/ ~RowFails(r) => GoodFile(PutEach(output, Line(r, <<US>>)), Fields', m + 1)
  BY <1>3, <1>4, <1>6, GoodFileGrows
<1>8. /\ BadFile(bad, Fields', m)
      /\ m # 0 /\ ~RowFails(r) => BadFile(bad, Fields', m + 1)
      /\ m = 0 => BadFile(PutEach(bad, Leading(r) \o << BadHeader, <<LF>> >>), Fields', m + 1)
      /\ (m # 0 /\ RowFails(r) /\ Len(r) = Width
            /\ Tells(RecordErrors, Fails(r)) /\ RecordErrors # <<>>)
           => BadFile(PutEach(bad, Leading(r) \o Line(RecordErrors, Comma)), Fields', m + 1)
  <2> DEFINE table == Fields
             found == RecordErrors
  <2>1. table \in Seq(Seq(Seq(Byte))) /\ BadFile(bad, table, Len(table)) /\ r # <<>>
    BY <1>3, <1>6
  <2> HIDE DEF table, found
  <2>2. /\ BadFile(bad, Append(table, r), Len(table))
        /\ Len(table) # 0 /\ ~RowFails(r) => BadFile(bad, Append(table, r), Len(table) + 1)
        /\ Len(table) = 0 =>
              BadFile(PutEach(bad, Leading(r) \o << BadHeader, <<LF>> >>),
                      Append(table, r), Len(table) + 1)
        /\ (Len(table) # 0 /\ RowFails(r) /\ Len(r) = Width
              /\ Tells(found, Fails(r)) /\ found # <<>>) =>
              BadFile(PutEach(bad, Leading(r) \o Line(found, Comma)),
                      Append(table, r), Len(table) + 1)
    BY <1>4, <2>1, BadFileGrows
  <2> QED
    BY <1>3, <2>2 DEF table, found
<1> HIDE DEF m
<1>9. CASE s
  <2>2. ~Complete /\ Right' = m
    BY <1>3, <1>9
  <2>3. UNCHANGED results
    BY <2>2 DEF ContentCallback, DieOfError
  <2>1. UNCHANGED <<output, bad>> /\ Right' = m
    BY <2>2, <2>3 DEF results
  <2> QED
    BY <1>7, <1>8, <2>1
<1>10. CASE ~s
  <2>1. Complete /\ record' = r /\ Right' = m + 1 /\ Len(r) = Width
    BY <1>3, <1>10
  <2>2. WriteHeader \/ WriteGood \/ WriteBad
    BY <2>1 DEF ContentCallback, DieOfError
  <2>3. CASE WriteHeader
    <3>1. /\ m = 0 /\ output' = PutEach(output, Line(r, <<US>>))
          /\ bad' = PutEach(bad, Leading(r) \o << BadHeader, <<LF>> >>)
      BY <1>3, <2>1, <2>3 DEF WriteHeader
    <3> QED
      BY <1>7, <1>8, <2>1, <3>1
  <2>4. CASE WriteGood
    <3>1. /\ m # 0 /\ ~RowFails(r) /\ output' = PutEach(output, Line(r, <<US>>)) /\ bad' = bad
      BY <1>3, <1>5, <2>1, <2>4 DEF WriteGood
    <3> QED
      BY <1>7, <1>8, <2>1, <3>1
  <2>5. CASE WriteBad
    <3>1. /\ m # 0 /\ RowFails(r) /\ RecordErrors # <<>> /\ output' = output
          /\ bad' = PutEach(bad, Leading(r) \o Line(RecordErrors, Comma))
      BY <1>3, <1>5, <2>1, <2>5 DEF WriteBad
    <3> QED
      BY <1>5, <1>7, <1>8, <2>1, <3>1
  <2> QED
    BY <2>2, <2>3, <2>4, <2>5
<1> QED
  BY <1>9, <1>10

\* A step that reports nothing and writes nothing new keeps it.
LEMMA SortedStays ==
  ASSUME Sorted, Counted', UNCHANGED <<Fields, format>>,
         phase' # "died" => phase # "died",
         output \in Buffer /\ bad \in Buffer =>
           /\ output' \in Buffer /\ Content(output') = Content(output)
           /\ bad' \in Buffer /\ Content(bad') = Content(bad)
           /\ phase' = "exited" => output'.held = <<>> /\ bad'.held = <<>>
  PROVE  Sorted'
<1>1. Right' = Right
  BY DEF Fits, Right
<1>2. phase # "died" => GoodFile(output, Fields, Right) /\ BadFile(bad, Fields, Right)
  BY DEF Sorted
<1>3. ASSUME phase' # "died"
      PROVE  /\ GoodFile(output', Fields', Right') /\ BadFile(bad', Fields', Right')
             /\ phase' = "exited" => output'.held = <<>> /\ bad'.held = <<>>
  <2>1. output \in Buffer /\ bad \in Buffer
    BY <1>2, <1>3 DEF GoodFile, BadFile
  <2>2. GoodFile(output', Fields, Right)
    BY <1>2, <1>3, <2>1 DEF GoodFile
  <2>3. BadFile(bad', Fields, Right)
    BY <1>2, <1>3, <2>1 DEF BadFile
  <2> QED
    BY <1>1, <2>1, <2>2, <2>3
<1>4. phase' # "died" => GoodFile(output, Fields, Right)' /\ BadFile(bad, Fields, Right)'
  BY <1>3, FilesPrimed
<1>5. phase' = "exited" => (output.held = <<>> /\ bad.held = <<>>)'
  BY <1>3
<1> QED
  BY <1>4, <1>5 DEF Sorted

\* A turn of the loop sorts what it reports,
LEMMA SortedTurn ==
  ASSUME ValidationsMeant, CleanFormats, Sorted, NEW s \in BOOLEAN, ParserTurn(s, Complains),
         ContentCallback, UNCHANGED format
  PROVE  Sorted'
<1>1. /\ phase = "reading" /\ Accept(s) /\ FieldCallback /\ StopsAt(s) /\ fieldCount' = NextCount
      /\ phase' \in Outcome(Complains, phase) /\ UNCHANGED <<contents, file>>
  BY DEF ParserTurn
<1>2. Counted /\ Counted'
  <2>1. Counted
    BY DEF Sorted
  <2> QED
    BY <2>1, CountedTurn
<1>3. FileReading /\ ~stop
  BY <1>1, <1>2 DEF Counted, Accept, InLoop
<1>4. /\ PlainReading' /\ UNCHANGED <<config, call, input, chunk>> /\ call # "idle"
      /\ \/ RowEvent(field, s) /\ state' = "RECORD_NOT_BEGUN"
         \/ FieldEvent(field, s)
         \/ NoEvent
  BY <1>1, <1>2, <1>3, TurnStays DEF FileReading
<1>5. Input' = Input
  BY <1>1, <1>4 DEF config, Input, SimpleFS
<1>6. phase' \in {"reading", "died"}
  BY <1>1 DEF Outcome, AfterError
<1>7. CASE RowEvent(field, s) /\ state' = "RECORD_NOT_BEGUN"
  <2>1. BeginsWith(Input, Fields')
    <3>1. BeginsWith(Table(contents, SimpleFS, Eol), Fields)'
      BY <1>4, <1>7, ReportedBeginsNext
    <3> QED
      BY <1>5, <3>1 DEF Input
  <2>2. phase' # "died" => GoodFile(output', Fields', Right') /\ BadFile(bad', Fields', Right')
    BY <1>1, <1>3, <1>7, <2>1, SortedEvent
  <2>3. phase' # "died" => GoodFile(output, Fields, Right)' /\ BadFile(bad, Fields, Right)'
    BY <2>2, FilesPrimed
  <2> QED
    BY <1>2, <1>6, <2>3 DEF Sorted
<1>8. CASE FieldEvent(field, s) \/ NoEvent
  <2>1. rows' = rows /\ ~RecordReported
    BY <1>8 DEF FieldEvent, NoEvent, RecordReported
  <2>2. Fields' = Fields /\ ~Complete /\ ~Complains
    BY <1>1, <2>1 DEF Fields, Complete, Complains
  <2>3. phase' = "reading"
    BY <1>1, <2>2 DEF Outcome
  <2>4. UNCHANGED <<output, bad>>
    BY <2>2, <2>3 DEF ContentCallback, DieOfError, results
  <2> QED
    BY <1>1, <1>2, <2>2, <2>3, <2>4, SortedStays
<1> QED
  BY <1>4, <1>7, <1>8

\* and so does finish().
LEMMA SortedFinish ==
  ASSUME ValidationsMeant, CleanFormats, Sorted, NEW s \in BOOLEAN, FinishParser(s, Complains),
         ContentCallback, UNCHANGED format
  PROVE  Sorted'
<1>1. /\ phase = "reading" /\ AllRead /\ Finish(s) /\ FieldCallback /\ StopsAt(s)
      /\ fieldCount' = NextCount
      /\ phase' \in Outcome(Complains, "finished") /\ UNCHANGED <<contents, file>>
  BY DEF FinishParser
<1>2. Counted /\ Counted'
  <2>1. Counted
    BY DEF Sorted
  <2> QED
    BY <2>1, CountedFinish
<1>3. FileReading /\ TypeOK /\ PlainParser /\ FileIsRead /\ RowsAreRead
  BY <1>1, <1>2 DEF Counted, FileReading, PlainReading
<1>4. /\ call = "idle" /\ UNCHANGED config
      /\ stop => UNCHANGED <<row, rows, stop, state, field>>
      /\ ~stop /\ state # "RECORD_NOT_BEGUN" => RowEvent(field, s) /\ field' = <<>>
      /\ ~stop /\ state = "RECORD_NOT_BEGUN" => NoEvent
  BY <1>1, <1>3, PlainFinish
<1>5. Input' = Input
  BY <1>1, <1>4 DEF config, Input, SimpleFS
<1>6. phase' \in {"finished", "died"}
  BY <1>1 DEF Outcome, AfterError
<1>7. CASE stop \/ state = "RECORD_NOT_BEGUN"
  <2>1. UNCHANGED <<row, rows, stop>>
    BY <1>4, <1>7 DEF NoEvent
  <2>2. ~RecordReported
    BY <2>1 DEF RecordReported
  <2>3. Fields' = Fields /\ ~Complete /\ ~Complains
    BY <2>1, <2>2 DEF Fields, Complete, Complains
  <2>4. phase' = "finished"
    BY <1>1, <2>3 DEF Outcome
  <2>5. UNCHANGED <<output, bad>>
    BY <2>3, <2>4 DEF ContentCallback, DieOfError, results
  <2> QED
    BY <1>1, <1>2, <2>3, <2>4, <2>5, SortedStays
<1>8. CASE ~stop /\ state # "RECORD_NOT_BEGUN"
  <2>1. file = <<>> /\ position = Len(input) /\ RowEvent(field, s)
    BY <1>1, <1>3, <1>4, <1>8 DEF AllRead, FileReading
  <2>2. Fields' = Input
    <3>1. Fields' = Table(contents, SimpleFS, Eol)
      BY <1>1, <1>3, <1>8, <2>1, TableIsReported
    <3> QED
      BY <3>1 DEF Input
  <2>3. BeginsWith(Input, Fields')
    <3>1. Len(Input) \in Nat
      <4> DEFINE F == Fields'
      <4>1. Len(F) = Len(Fields) + 1 /\ Len(Fields) \in Nat
        BY <1>3, <2>1, RowReported, RowTyped
      <4> QED
        BY <2>2, <4>1
    <3> QED
      BY <2>2, <3>1 DEF BeginsWith
  <2>4. phase' # "died" => GoodFile(output', Fields', Right') /\ BadFile(bad', Fields', Right')
    BY <1>1, <1>8, <2>1, <2>3, SortedEvent
  <2>5. phase' # "died" => GoodFile(output, Fields, Right)' /\ BadFile(bad, Fields, Right)'
    BY <2>4, FilesPrimed
  <2> QED
    BY <1>2, <1>6, <2>5 DEF Sorted
<1> QED
  BY <1>7, <1>8

\* And everything else.
LEMMA SortedStep ==
  ASSUME ValidationsMeant, CleanFormats, Sorted, [ContentNext]_contentVars
  PROVE  Sorted'
<1>1. Counted /\ Counted'
  <2>1. Counted
    BY DEF Sorted
  <2> QED
    BY <2>1, CountedStep
<1>2. CASE ReadContent
  <2>1. UNCHANGED <<format, output, bad>>
    BY <1>2 DEF ReadContent, results
  <2>2. NextBlock => UNCHANGED <<rows, phase>>
    BY DEF NextBlock, ReadBlock, Parse
  <2>3. ReturnFromParse => UNCHANGED <<rows, phase>>
    BY DEF ReturnFromParse, LeaveLoop, recordVars
  <2>4. phase = "reading" /\ phase' = phase /\ Fields' = Fields
    BY <1>2, <2>2, <2>3 DEF ReadContent, NextBlock, ReturnFromParse, Fields
  <2> QED
    BY <1>1, <2>1, <2>4, SortedStays
<1>3. CASE ParseContent
  <2>1. PICK s \in BOOLEAN : ParserTurn(s, Complains) /\ ContentCallback /\ UNCHANGED format
    BY <1>3 DEF ParseContent
  <2> QED
    BY <2>1, SortedTurn
<1>4. CASE FinishContent
  <2>1. PICK s \in BOOLEAN : FinishParser(s, Complains) /\ ContentCallback /\ UNCHANGED format
    BY <1>4 DEF FinishContent
  <2> QED
    BY <2>1, SortedFinish
<1>5. CASE WriteBoth
  <2>1. /\ phase = "finished" /\ phase' = "exited" /\ UNCHANGED <<vars, format>>
        /\ output' = Write(output) /\ bad' = Write(bad)
    BY <1>5 DEF WriteBoth, Exit, WriteOutputFile, WriteBadFile
  <2>2. Fields' = Fields
    BY <2>1 DEF Fields, vars
  <2>3. output \in Buffer /\ bad \in Buffer =>
          /\ output' \in Buffer /\ Content(output') = Content(output)
          /\ bad' \in Buffer /\ Content(bad') = Content(bad)
          /\ output'.held = <<>> /\ bad'.held = <<>>
    BY <2>1, WriteKeeps
  <2> QED
    BY <1>1, <2>1, <2>2, <2>3, SortedStays
<1>6. CASE UNCHANGED contentVars
  <2>1. UNCHANGED <<format, output, bad, phase, rows, row>>
    BY <1>6 DEF contentVars, recordVars, results, vars, text
  <2>2. Fields' = Fields
    BY <2>1 DEF Fields
  <2>3. phase' = "exited" => output'.held = <<>> /\ bad'.held = <<>>
    BY <2>1 DEF Sorted
  <2> QED
    BY <1>1, <2>1, <2>2, <2>3, SortedStays
<1> QED
  BY <1>2, <1>3, <1>4, <1>5, <1>6 DEF ContentNext

\* When the program has exited, the invariant says what the two files hold.
LEMMA SortedRows == ASSUME Sorted PROVE SortsTheRows
<1> DEFINE m == Right
           F == FailingRows(Fields, m)
           G == (2..m) \ F
<1> SUFFICES ASSUME Exited
             PROVE  IF RowsKept = 0 THEN GoodLines = <<>> /\ BadLines = <<>>
                    ELSE /\ GoodLines = <<Input[1]>>
                              \o [k \in 1..Cardinality(GoodRows) |-> Input[Nth(GoodRows, k)]]
                         /\ Len(BadLines) = 1 + Cardinality(BadRows)
                         /\ BadLines[1] = Append(Input[1], BadHeader)
                         /\ \A k \in 1..Cardinality(BadRows) :
                              ReportsRow(BadLines[k + 1], Nth(BadRows, k))
  BY DEF SortsTheRows
<1>1. /\ Counted /\ phase = "exited" /\ output.held = <<>> /\ bad.held = <<>>
      /\ GoodFile(output, Fields, m) /\ BadFile(bad, Fields, m)
  BY DEF Sorted, Exited
<1>2. RowsKept = m /\ F = BadRows /\ \A n \in 1..m : Fields[n] = Input[n]
  BY <1>1, CountedRows
<1>3. G = GoodRows
  BY <1>2 DEF GoodRows, BodyRows
<1>4. ASSUME NEW file0 \in Buffer, file0.held = <<>> PROVE Content(file0) = file0.written
  <2>1. file0.written \in Seq(Byte)
    BY DEF Buffer
  <2>2. file0.written \o <<>> = file0.written
    BY <2>1
  <2> QED
    BY <1>4, <2>2 DEF Content
<1>5. GoodLines = OutTable(Fields, m)
  <2>1. Content(output) = output.written
    BY <1>1, <1>4 DEF GoodFile
  <2> QED
    BY <1>1, <2>1 DEF GoodFile, WrittenAs, GoodLines
<1>6. BadRight(BadLines, Fields, m)
  <2>1. Content(bad) = bad.written
    BY <1>1, <1>4 DEF BadFile
  <2> QED
    BY <1>1, <2>1 DEF BadFile, WrittenAs, BadLines
<1>7. m \in Nat
  BY <1>1 DEF Counted
<1> HIDE DEF m, F, G
<1>8. ASSUME NEW S \in SUBSET (2..m)
      PROVE  \A k \in 1..Cardinality(S) : Nth(S, k) \in S /\ Fields[Nth(S, k)] = Input[Nth(S, k)]
  <2>1. IsFiniteSet(2..m) /\ \A n \in 2..m : n \in Nat /\ n \in 1..m
    BY <1>7, FS_Interval
  <2>2. S \in SUBSET Nat /\ IsFiniteSet(S) /\ Cardinality(S) \in Nat
    BY <2>1, FS_Subset, FS_CardinalityType
  <2>3. \A k \in 1..Cardinality(S) : Nth(S, k) \in S
    BY <2>2, NthIs
  <2> QED
    BY <1>2, <2>1, <2>3
<1>9. F \in SUBSET (2..m) /\ G \in SUBSET (2..m)
  BY DEF F, G, FailingRows
<1>10. ASSUME m = 0 PROVE GoodLines = <<>> /\ BadLines = <<>>
  BY <1>5, <1>6, <1>10 DEF OutTable, BadRight
<1>11. ASSUME m # 0
       PROVE  /\ GoodLines = <<Input[1]>> \o [k \in 1..Cardinality(G) |-> Input[Nth(G, k)]]
              /\ Len(BadLines) = 1 + Cardinality(F)
              /\ BadLines[1] = Append(Input[1], BadHeader)
              /\ \A k \in 1..Cardinality(F) : ReportsRow(BadLines[k + 1], Nth(F, k))
  <2>1. Fields[1] = Input[1]
    <3>1. 1 \in 1..m
      BY <1>7, <1>11
    <3> QED
      BY <1>2, <3>1
  <2>2. GoodLines = <<Input[1]>> \o [k \in 1..Cardinality(G) |-> Input[Nth(G, k)]]
    <3>1. GoodLines = <<Fields[1]>> \o Picked(Fields, G)
      BY <1>5, <1>11 DEF OutTable, F, G
    <3>2. Picked(Fields, G) = [k \in 1..Cardinality(G) |-> Input[Nth(G, k)]]
      BY <1>8, <1>9 DEF Picked
    <3> QED
      BY <2>1, <3>1, <3>2
  <2>3. /\ Len(BadLines) = 1 + Cardinality(F)
        /\ BadLines[1] = Append(Fields[1], BadHeader)
        /\ \A k \in 1..Cardinality(F) : Reports(BadLines[k + 1], Picked(Fields, F)[k])
    BY <1>6, <1>11 DEF BadRight, F
  <2>4. ASSUME NEW k \in 1..Cardinality(F) PROVE ReportsRow(BadLines[k + 1], Nth(F, k))
    <3>1. Picked(Fields, F)[k] = Input[Nth(F, k)]
      BY <1>8, <1>9 DEF Picked
    <3>2. Reports(BadLines[k + 1], Input[Nth(F, k)])
      BY <2>3, <3>1
    <3>3. Fails(Input[Nth(F, k)]) = Failing(Nth(F, k))
      BY DEF Fails, Failing
    <3> QED
      BY <3>2, <3>3 DEF Reports, ReportsRow
  <2> QED
    BY <2>1, <2>2, <2>3, <2>4
<1> QED
  BY <1>2, <1>3, <1>10, <1>11

\* Both files of validate_content begin with the header, and behind it each row is in exactly
\* one of them, in the order of the input, and in the bad file with exactly the validations
\* it fails, for every file without quotes and white space, every format, and every size of
\* the blocks and the buffers (recordcb(), the functions that write it, and main()).
THEOREM SortsProved ==
  ASSUME PlainFiles, ValidationsMeant, CleanFormats PROVE ContentSpec => []SortsTheRows
<1>1. Sorted => SortsTheRows
  BY SortedRows
<1>2. ContentInit => Sorted
  BY SortedInit
<1>3. Sorted /\ [ContentNext]_contentVars => Sorted'
  BY SortedStep
<1> QED
  BY <1>1, <1>2, <1>3, PTL DEF ContentSpec
=============================================================================
