---------------------- MODULE ValidateStructureProofs ----------------------
(***************************************************************************)
(* Theorems about validate_structure, for every format and every file      *)
(* without quotes and white space, and every size of the blocks: a file    *)
(* that was parsed to its end is accepted only if it is valid, and a file  *)
(* whose last line is ended is rejected only if it is not.                 *)
(***************************************************************************)
EXTENDS ValidateStructure, FileReaderProofs

\* The file is empty or its last line is ended.
LinesEnd == contents = <<>> \/ contents[Len(contents)] \in Eol

\* What the header has to be, and what must not be in the body if no fewer columns
\* are allowed.
HeaderValid ==
  /\ Input # <<>>
  /\ Len(Input[1]) = Len(Columns)
  /\ \A n \in 1..Len(Columns) : Same(Columns[n], Input[1][n])

WrongRow == \E r \in 2..Len(Input) : Len(Input[r]) # Len(Columns)

\* What was taken for the header is the first row.
HeaderRead == headerFields = IF Input = <<>> THEN <<>> ELSE Input[1]

\* While the header is read nothing waits in the parser between two blocks, and
\* its first row is collected, until it ends and stops the parser.
InHeader ==
  /\ PlainReading /\ valid /\ fieldCount = 0
  /\ call # "draining"
  /\ call = "idle" /\ ~stop => position = Len(input)
  /\ IF stop
     THEN state = "RECORD_NOT_BEGUN" /\ row = <<>> /\ Fields = <<headerFields>>
     ELSE Fields = <<>> /\ headerFields = row

\* The rest of the block is still before the parser.
Begun ==
  /\ PlainReading /\ call = "idle" /\ state = "RECORD_NOT_BEGUN"
  /\ row = <<>> /\ Len(Fields) = 1

\* A file of one line that is not ended: finish() reported it, and reports a second
\* row at its next call.
Lone == call = "idle" /\ file = <<>> /\ Len(Input) = 1 /\ ~LinesEnd

\* While the body is read the rows have the right length, the first of them being
\* the header, and the fields of the next one are counted.
InBody ==
  /\ PlainReading
  /\ call = "idle" /\ position < Len(input) => state = "RECORD_NOT_BEGUN"
  /\ fieldCount = Len(row)
  /\ Len(Fields) >= 1
  /\ \A n \in 2..Len(Fields) : Len(Fields[n]) = Len(Columns)

\* What each phase of the program has found out.
Checked ==
  /\ phase \in {"header", "check", "body", "exited", "died"}
  /\ valid \in BOOLEAN
  /\ phase = "header" => InHeader
  /\ phase = "check" => HeaderRead /\ fieldCount = 0 /\ (headerFields = <<>> \/ Lone \/ Begun)
  /\ phase = "body" => HeaderValid
  /\ phase = "body" /\ stop => ~valid /\ WrongRow
  /\ phase = "body" /\ ~stop => valid /\ (InBody \/ Lone)
  /\ phase = "exited" /\ valid /\ position = Len(input) => HeaderValid /\ ~WrongRow
  /\ (phase = "exited" /\ ~valid) \/ phase = "died" => ~HeaderValid \/ WrongRow \/ ~LinesEnd

\* What only depends on the file and the delimiter.
LEMMA InputStays ==
  ASSUME UNCHANGED <<contents, delimiter>>
  PROVE  UNCHANGED <<Input, HeaderValid, WrongRow, LinesEnd>>
<1>1. Input' = Input
  BY DEF Input, SimpleFS
<1> QED
  BY <1>1 DEF HeaderValid, WrongRow, LinesEnd, Same

\* The last line of a file that ends with the end of a line is empty.
LEMMA LinesEndEmpty ==
  ASSUME contents \in Seq(Byte), LinesEnd
  PROVE  LastPiece(contents, Eol) = <<>>
<1>1. CASE contents = <<>>
  BY <1>1, TableOfNothing
<1>2. CASE contents # <<>>
  <2> DEFINE k == Len(contents) - 1
             b == contents[k + 1]
             s == SubSeq(contents, 1, k)
  <2>1. k \in Nat /\ k < Len(contents) /\ k + 1 = Len(contents) /\ Len(contents) \in Nat
    BY <1>2
  <2>2. b \in Eol
    BY <1>2, <2>1 DEF LinesEnd
  <2>3. s \in Seq(Byte) /\ b \in Byte /\ SubSeq(contents, 1, k + 1) = Append(s, b)
    BY <2>1, PrefixGrows
  <2>4. SubSeq(contents, 1, Len(contents)) = contents
    <3>1. /\ SubSeq(contents, 1, Len(contents)) \in Seq(Byte)
          /\ Len(SubSeq(contents, 1, Len(contents))) = Len(contents)
          /\ \A i \in 1..Len(contents) : SubSeq(contents, 1, Len(contents))[i] = contents[i]
      BY <2>1, SubSeqProperties
    <3> QED
      BY <3>1, SeqEqual
  <2>5. contents = Append(s, b)
    BY <2>1, <2>3, <2>4
  <2> HIDE DEF s, b
  <2>6. ByteAdded(Byte, s, b, SimpleFS, Eol)
    BY <2>3, TableGrows
  <2> QED
    BY <2>2, <2>5, <2>6 DEF ByteAdded
<1> QED
  BY <1>1, <1>2

\* The program begins with the header before it.
LEMMA CheckedInit == ASSUME PlainFiles, ToolInit PROVE Checked
<1>1. /\ OpenInputFile /\ NewParser /\ options = {} /\ quote \in Quotes
      /\ delimiter \in Delimiters
      /\ phase = "header" /\ headerFields = <<>> /\ fieldCount = 0 /\ valid = TRUE
  BY DEF ToolInit
<1>2. delimiter \in Seq(Byte) /\ Len(delimiter) =< 1 /\ SimpleFS \notin Eol
  BY <1>1, PlainDelimiter
<1>3. PlainReading /\ Fields = <<>>
  BY <1>1, <1>2, PlainStarts
<1>4. call = "idle" /\ position = 0 /\ Len(input) = 0 /\ ~stop /\ row = <<>>
  BY <1>1 DEF NewParser
<1>5. InHeader
  BY <1>1, <1>3, <1>4 DEF InHeader
<1> QED
  BY <1>1, <1>5 DEF Checked

\* A block of the file changes nothing of it.
LEMMA CheckedBlock == ASSUME Checked, NextBlock PROVE Checked'
<1>1. /\ phase \in {"header", "body"} /\ ReadBlock
      /\ UNCHANGED <<phase, headerFields, fieldCount, valid>>
      /\ call = "idle" /\ ~stop /\ file # <<>>
  BY DEF NextBlock, ReadBlock
<1>2. ~Lone
  BY <1>1 DEF Lone
<1>3. PlainReading /\ (phase = "header" => InHeader) /\ (phase = "body" => InBody)
  BY <1>1, <1>2 DEF Checked, InHeader, InBody
<1>4. /\ PlainReading' /\ stop' = FALSE /\ Fields' = Fields
      /\ call' = IF position < Len(input) THEN "draining" ELSE "parsing"
      /\ UNCHANGED <<config, state, row, contents>>
  BY <1>1, <1>3, BlockStays
<1>5. call' # "idle" /\ UNCHANGED <<Input, HeaderValid, WrongRow, LinesEnd>>
  <2>1. delimiter' = delimiter
    BY <1>4 DEF config
  <2> QED
    BY <1>4, <2>1, InputStays
<1>6. CASE phase = "header"
  <2>1. position = Len(input) /\ position \in Nat
    BY <1>1, <1>3, <1>6 DEF InHeader, PlainReading, PlainParser, TypeOK
  <2>2. call' = "parsing"
    BY <1>4, <2>1
  <2>3. InHeader'
    BY <1>1, <1>3, <1>4, <1>6, <2>2 DEF InHeader
  <2> QED
    BY <1>1, <1>4, <1>6, <2>3 DEF Checked, InHeader
<1>7. CASE phase = "body"
  <2>1. InBody'
    BY <1>1, <1>3, <1>4, <1>5, <1>7 DEF InBody
  <2> QED
    BY <1>1, <1>4, <1>5, <1>7, <2>1 DEF Checked
<1> QED
  BY <1>1, <1>6, <1>7

\* Nor does the return of parse(), or the turn to the block that waits.
LEMMA CheckedLeave ==
  ASSUME Checked, phase \in {"header", "body"}, LeaveLoop, UNCHANGED program
  PROVE  Checked'
<1>1. /\ UNCHANGED <<contents, file, phase, headerFields, fieldCount, valid>>
      /\ call # "idle" /\ UNCHANGED <<config, stop>>
  BY DEF program, LeaveLoop
<1>2. UNCHANGED <<Input, HeaderValid, WrongRow, LinesEnd>>
  <2>1. delimiter' = delimiter
    BY <1>1 DEF config
  <2> QED
    BY <1>1, <2>1, InputStays
<1>3. CASE phase = "body" /\ stop
  BY <1>1, <1>2, <1>3 DEF Checked
<1>4. CASE phase = "header"
  <2>1. InHeader /\ PlainReading /\ call # "draining"
    BY <1>4 DEF Checked, InHeader
  <2>2. call = "parsing"
    BY <1>1, <2>1 DEF PlainReading, PlainParser, TypeOK, Calls
  <2>3. /\ PlainReading' /\ Fields' = Fields /\ call' = "idle"
        /\ UNCHANGED <<input, position>>
        /\ stop \/ position = Len(input)
        /\ UNCHANGED <<state, row>>
    BY <1>1, <2>1, <2>2, LeaveStays
  <2>4. InHeader'
    BY <1>1, <2>1, <2>3 DEF InHeader
  <2> QED
    BY <1>1, <1>4, <2>4 DEF Checked, InHeader
<1>5. CASE phase = "body" /\ ~stop
  <2>1. InBody /\ PlainReading
    BY <1>1, <1>5 DEF Checked, InBody, Lone
  <2>2. /\ PlainReading' /\ Fields' = Fields
        /\ call' = IF call = "draining" THEN "parsing" ELSE "idle"
        /\ call = "parsing" => UNCHANGED <<input, position>>
        /\ position = Len(input)
        /\ UNCHANGED <<state, row>>
    BY <1>1, <1>5, <2>1, LeaveStays
  <2>3. call \in {"draining", "parsing"} /\ position \in Nat
    BY <1>1, <2>1 DEF PlainReading, PlainParser, TypeOK, Calls
  <2>4. ~(call' = "idle" /\ position' < Len(input'))
    BY <2>2, <2>3
  <2>5. InBody'
    BY <1>1, <2>1, <2>2, <2>4 DEF InBody
  <2> QED
    BY <1>1, <1>2, <1>5, <2>5 DEF Checked
<1> QED
  BY <1>3, <1>4, <1>5


\* A turn of the loop over the header collects its fields and stops behind it.
LEMMA CheckedHeaderTurn ==
  ASSUME Checked, phase = "header", NEW s \in BOOLEAN, Accept(s), HeaderCallbacks(s),
         phase' = phase
  PROVE  Checked'
<1>1. /\ s = RecordReported /\ headerFields' = headerFields \o Reported
      /\ UNCHANGED <<contents, file, fieldCount, valid>>
  BY DEF HeaderCallbacks
<1>2. InHeader /\ PlainReading
  BY DEF Checked, InHeader
<1>3. /\ PlainReading' /\ ~stop /\ call # "idle"
      /\ UNCHANGED <<config, call, input, chunk>>
      /\ \/ RowEvent(field, s) /\ state' = "RECORD_NOT_BEGUN"
         \/ FieldEvent(field, s)
         \/ NoEvent
  BY <1>1, <1>2, TurnStays
<1>4. Fields = <<>> /\ headerFields = row /\ valid /\ fieldCount = 0 /\ call # "draining"
  BY <1>2, <1>3 DEF InHeader
<1>5. TypeOK /\ field \in Seq(Byte) /\ row \in Seq(Seq(Byte))
  BY <1>2 DEF PlainReading, PlainParser, TypeOK
<1>6. /\ RowEvent(field, s) => RecordReported /\ Reported = <<field>>
      /\ FieldEvent(field, s) => ~RecordReported /\ Reported = <<field>>
      /\ NoEvent => ~RecordReported /\ Reported = <<>>
  BY <1>5, EventReported
<1>7. row \o <<field>> = Append(row, field) /\ row \o <<>> = row
  BY <1>5
<1>8. CASE RowEvent(field, s) /\ state' = "RECORD_NOT_BEGUN"
  <2>1. stop' = TRUE /\ row' = <<>> /\ headerFields' = Append(row, field)
    BY <1>1, <1>4, <1>6, <1>7, <1>8 DEF RowEvent
  <2>2. Fields' = Append(Fields, Append(row, field))
    BY <1>5, <1>8, RowReported
  <2>3. Fields' = <<headerFields'>>
    BY <1>4, <2>1, <2>2
  <2>4. InHeader'
    BY <1>1, <1>3, <1>4, <1>8, <2>1, <2>3 DEF InHeader
  <2> QED
    BY <2>4 DEF Checked, InHeader
<1>9. CASE FieldEvent(field, s) \/ NoEvent
  <2>1. ~stop' /\ rows' = rows /\ headerFields' = row'
    <3>1. CASE FieldEvent(field, s)
      <4>1. ~s /\ headerFields' = row \o <<field>>
        BY <1>1, <1>4, <1>6, <3>1
      <4> QED
        BY <1>7, <3>1, <4>1 DEF FieldEvent
    <3>2. CASE NoEvent
      <4>1. headerFields' = row \o <<>>
        BY <1>1, <1>4, <1>6, <3>2
      <4> QED
        BY <1>3, <1>7, <3>2, <4>1 DEF NoEvent
    <3> QED
      BY <1>9, <3>1, <3>2
  <2>2. Fields' = Fields
    BY <2>1 DEF Fields
  <2>3. InHeader'
    BY <1>1, <1>3, <1>4, <2>1, <2>2 DEF InHeader
  <2> QED
    BY <2>3 DEF Checked, InHeader
<1> QED
  BY <1>3, <1>8, <1>9

\* What the callbacks of the body make of an event.
LEMMA BodyCounts ==
  ASSUME TypeOK, NEW s \in BOOLEAN, NEW v \in Seq(Byte), BodyCallbacks(s),
         fieldCount = Len(row), Len(Fields) >= 1
  PROVE  /\ RowEvent(v, s) => (s <=> Len(Append(row, v)) # Len(Columns)) /\ fieldCount' = 0
         /\ FieldEvent(v, s) => ~s /\ fieldCount' = Len(row')
         /\ NoEvent => ~s /\ fieldCount' = Len(row')
<1>1. row \in Seq(Seq(Byte)) /\ Len(row) \in Nat
  BY DEF TypeOK
<1>2. Len(Append(row, v)) = Len(row) + 1
  BY <1>1
<1>3. /\ RowEvent(v, s) => RecordReported /\ Reported = <<v>>
      /\ FieldEvent(v, s) => ~RecordReported /\ Reported = <<v>>
      /\ NoEvent => ~RecordReported /\ Reported = <<>>
  BY EventReported
<1>4. /\ s = (RecordReported /\ WrongCount)
      /\ fieldCount' = IF RecordReported THEN 0 ELSE fieldCount + Len(Reported)
  BY DEF BodyCallbacks
<1>5. WrongCount <=> Len(Append(row, v)) # Len(Columns)
  <2>1. Len(rows) = Len(Fields)
    BY FieldsTyped
  <2> QED
    BY <1>2, <2>1 DEF WrongCount
<1>6. ASSUME RowEvent(v, s)
      PROVE  (s <=> Len(Append(row, v)) # Len(Columns)) /\ fieldCount' = 0
  BY <1>3, <1>4, <1>5, <1>6
<1>7. ASSUME FieldEvent(v, s) PROVE ~s /\ fieldCount' = Len(row')
  <2>1. Len(row') = Len(row) + 1 /\ Len(<<v>>) = 1
    BY <1>2, <1>7 DEF FieldEvent
  <2>2. ~RecordReported /\ Reported = <<v>>
    BY <1>3, <1>7
  <2>3. fieldCount' = fieldCount + Len(<<v>>) /\ ~s
    BY <1>4, <2>2
  <2> QED
    BY <1>1, <2>1, <2>3
<1>8. ASSUME NoEvent PROVE ~s /\ fieldCount' = Len(row')
  <2>1. row' = row /\ Len(<<>>) = 0
    BY <1>8 DEF NoEvent
  <2>2. ~RecordReported /\ Reported = <<>>
    BY <1>3, <1>8
  <2>3. fieldCount' = fieldCount + Len(<<>>) /\ ~s
    BY <1>4, <2>2
  <2> QED
    BY <1>1, <2>1, <2>3
<1> QED
  BY <1>6, <1>7, <1>8

\* A row of the body, behind rows of the right length.
LEMMA BodyRow ==
  ASSUME TypeOK, NEW v \in Seq(Byte), NEW s, RowEvent(v, s), Len(Fields) >= 1,
         \A n \in 2..Len(Fields) : Len(Fields[n]) = Len(Columns)
  PROVE  /\ Len(Fields') \in 2..Len(Fields') /\ Len(Fields') >= 1
         /\ Fields'[Len(Fields')] = Append(row, v)
         /\ Len(Append(row, v)) = Len(Columns) =>
              \A n \in 2..Len(Fields') : Len(Fields'[n]) = Len(Columns)
<1> DEFINE all == Append(row, v)
<1>1. /\ Len(Fields') = Len(Fields) + 1 /\ Len(Fields) \in Nat /\ Fields'[Len(Fields) + 1] = all
      /\ \A n \in 1..Len(Fields) : Fields'[n] = Fields[n]
  BY RowReported
<1> HIDE DEF all
<1>2. \A n \in 2..Len(Fields') : (n \in 1..Len(Fields) /\ n \in 2..Len(Fields)) \/ n = Len(Fields) + 1
  BY <1>1
<1>3. ASSUME Len(all) = Len(Columns)
      PROVE  \A n \in 2..Len(Fields') : Len(Fields'[n]) = Len(Columns)
  BY <1>1, <1>2, <1>3
<1>4. Len(Fields') \in 2..Len(Fields') /\ Len(Fields') >= 1
  BY <1>1
<1> QED
  BY <1>1, <1>3, <1>4 DEF all

\* A turn of the loop over the body counts the fields of a row, and stops behind a
\* row that has not the right number of them.
LEMMA CheckedBodyTurn ==
  ASSUME Checked, phase = "body", NEW s \in BOOLEAN, Accept(s), BodyCallbacks(s),
         phase' \in Outcome(s, phase)
  PROVE  Checked'
<1>1. valid' = (valid /\ ~s) /\ UNCHANGED <<contents, file, headerFields>>
  BY DEF BodyCallbacks
<1>2. ~stop /\ call # "idle"
  BY DEF Accept, InLoop
<1>3. InBody /\ PlainReading /\ valid /\ HeaderValid
  BY <1>2 DEF Checked, InBody, Lone
<1>4. /\ PlainReading'
      /\ UNCHANGED <<config, call, input, chunk>>
      /\ \/ RowEvent(field, s) /\ state' = "RECORD_NOT_BEGUN"
         \/ FieldEvent(field, s)
         \/ NoEvent
  BY <1>1, <1>3, TurnStays
<1>5. TypeOK /\ field \in Seq(Byte)
  BY <1>3 DEF PlainReading, PlainParser, TypeOK
<1>6. /\ fieldCount = Len(row) /\ Len(Fields) >= 1
      /\ \A n \in 2..Len(Fields) : Len(Fields[n]) = Len(Columns)
  BY <1>3 DEF InBody
<1>7. /\ RowEvent(field, s) => (s <=> Len(Append(row, field)) # Len(Columns)) /\ fieldCount' = 0
      /\ FieldEvent(field, s) => ~s /\ fieldCount' = Len(row')
      /\ NoEvent => ~s /\ fieldCount' = Len(row')
  BY <1>5, <1>6, BodyCounts
<1>8. UNCHANGED <<Input, HeaderValid, WrongRow, LinesEnd>>
  <2>1. delimiter' = delimiter
    BY <1>4 DEF config
  <2> QED
    BY <1>1, <2>1, InputStays
<1>9. /\ s => phase' \in {"body", "died"}
      /\ ~s => phase' = "body"
  BY DEF Outcome, AfterError
<1>10. CASE RowEvent(field, s) /\ state' = "RECORD_NOT_BEGUN"
  <2>1. /\ Len(Fields') \in 2..Len(Fields') /\ Len(Fields') >= 1
        /\ Fields'[Len(Fields')] = Append(row, field)
        /\ Len(Append(row, field)) = Len(Columns) =>
             \A n \in 2..Len(Fields') : Len(Fields'[n]) = Len(Columns)
    BY <1>5, <1>6, <1>10, BodyRow
  <2>2. stop' = s /\ row' = <<>> /\ Len(<<>>) = 0
    BY <1>10 DEF RowEvent
  <2>3. CASE s
    <3>1. BeginsWith(Input', Fields')
      <4>1. BeginsWith(Table(contents, SimpleFS, Eol), Fields)'
        BY <1>4, <1>10, ReportedBeginsNext
      <4> QED
        BY <4>1 DEF Input
    <3>2. Len(Fields') \in 2..Len(Input') /\ Input'[Len(Fields')] = Fields'[Len(Fields')]
      BY <2>1, <3>1 DEF BeginsWith
    <3>3. Len(Input'[Len(Fields')]) # Len(Columns)
      BY <1>7, <1>10, <2>1, <2>3, <3>2
    <3>4. WrongRow'
      BY <3>2, <3>3 DEF WrongRow
    <3> QED
      BY <1>1, <1>3, <1>8, <1>9, <2>2, <2>3, <3>4 DEF Checked
  <2>4. CASE ~s
    <3>1. InBody'
      BY <1>2, <1>4, <1>7, <1>10, <2>1, <2>2, <2>4 DEF InBody
    <3> QED
      BY <1>1, <1>3, <1>8, <1>9, <2>2, <2>4, <3>1 DEF Checked
  <2> QED
    BY <2>3, <2>4
<1>11. CASE FieldEvent(field, s) \/ NoEvent
  <2>1. ~s /\ ~stop' /\ fieldCount' = Len(row') /\ rows' = rows
    BY <1>2, <1>7, <1>11 DEF FieldEvent, NoEvent
  <2>2. Fields' = Fields
    BY <2>1 DEF Fields
  <2>3. InBody'
    BY <1>2, <1>4, <1>6, <2>1, <2>2 DEF InBody
  <2> QED
    BY <1>1, <1>3, <1>8, <1>9, <2>1, <2>3 DEF Checked
<1> QED
  BY <1>4, <1>10, <1>11

\* finish() behind the header: the parser was stopped, or the file is read.
LEMMA CheckedFinishHeader == ASSUME Checked, FinishHeader PROVE Checked'
<1>1. PICK s \in BOOLEAN : Finish(s) /\ HeaderCallbacks(s)
  BY DEF FinishHeader
<1>2. /\ phase = "header" /\ phase' = "check" /\ call = "idle" /\ (stop \/ file = <<>>)
      /\ s = RecordReported /\ headerFields' = headerFields \o Reported
      /\ UNCHANGED <<contents, file, fieldCount, valid>>
  BY <1>1 DEF FinishHeader, AllRead, HeaderCallbacks
<1>3. InHeader /\ PlainReading /\ valid /\ fieldCount = 0
  BY <1>2 DEF Checked, InHeader
<1>4. PlainParser /\ TypeOK /\ FileIsRead /\ RowsAreRead
  BY <1>3 DEF PlainReading, PlainParser
<1>5. field \in Seq(Byte) /\ row \in Seq(Seq(Byte))
  BY <1>4 DEF TypeOK
<1>6. /\ UNCHANGED <<config, input, position, chunk, call>>
      /\ stop => UNCHANGED <<row, rows, stop, state, field>>
      /\ ~stop /\ state # "RECORD_NOT_BEGUN" => RowEvent(field, s) /\ field' = <<>>
      /\ ~stop /\ state = "RECORD_NOT_BEGUN" => NoEvent
  BY <1>1, <1>4, PlainFinish
<1>7. UNCHANGED <<Input, HeaderValid, WrongRow, LinesEnd>>
  <2>1. delimiter' = delimiter
    BY <1>6 DEF config
  <2> QED
    BY <1>2, <2>1, InputStays
<1>8. /\ RowEvent(field, s) => Reported = <<field>>
      /\ NoEvent => Reported = <<>>
  BY <1>4, <1>5, EventReported
<1>9. ASSUME HeaderRead', headerFields' = <<>> \/ Lone' \/ Begun' PROVE Checked'
  BY <1>2, <1>3, <1>9 DEF Checked
<1>10. CASE stop
  <2>1. PlainReading' /\ Fields' = Fields /\ UNCHANGED <<call, state, stop, row, rows>>
    BY <1>1, <1>2, <1>3, <1>10, StoppedStays
  <2>2. Fields = <<headerFields>> /\ state = "RECORD_NOT_BEGUN" /\ row = <<>>
    BY <1>3, <1>10 DEF InHeader
  <2>3. Reported = <<>>
    BY <2>1 DEF Reported
  <2>4. headerFields' = headerFields
    <3>1. headerFields \in Seq(Seq(Byte))
      <4>1. Fields \in Seq(Seq(Seq(Byte))) /\ Len(Fields) = 1 /\ Fields[1] = headerFields
        BY <1>4, <2>2, FieldsTyped
      <4> QED
        BY <4>1
    <3> QED
      BY <1>2, <2>3, <3>1
  <2>5. Len(Fields) = 1 /\ Fields[1] = headerFields
    BY <2>2
  <2>6. Begun'
    BY <1>2, <2>1, <2>2, <2>5 DEF Begun
  <2>7. BeginsWith(Input, Fields)
    BY <1>3, <2>2, ReportedBegins DEF Input
  <2>8. Input # <<>> /\ Input[1] = headerFields
    BY <2>5, <2>7 DEF BeginsWith
  <2>9. HeaderRead'
    BY <1>7, <2>4, <2>8 DEF HeaderRead
  <2> QED
    BY <1>9, <2>6, <2>9
<1>11. CASE ~stop
  <2>1. /\ file = <<>> /\ position = Len(input)
        /\ Fields = <<>> /\ headerFields = row
    BY <1>2, <1>3, <1>11 DEF InHeader
  <2>2. Fields' = Input'
    <3>1. Fields' = Table(contents, SimpleFS, Eol)
      BY <1>1, <1>4, <1>11, <2>1, TableIsReported
    <3> QED
      BY <1>7, <3>1 DEF Input
  <2>3. CASE state = "RECORD_NOT_BEGUN"
    <3>1. NoEvent
      BY <1>6, <1>11, <2>3
    <3>2. Fields' = <<>>
      BY <2>1, <3>1 DEF Fields, NoEvent
    <3>3. row = <<>>
      BY <1>4, <2>3 DEF RowsAreRead, RowsMatch
    <3>4. headerFields' = <<>>
      BY <1>2, <1>5, <1>8, <2>1, <3>1, <3>3
    <3>5. HeaderRead'
      BY <2>2, <3>2, <3>4 DEF HeaderRead
    <3> QED
      BY <1>9, <3>4, <3>5
  <2>4. CASE state # "RECORD_NOT_BEGUN"
    <3>1. RowEvent(field, s)
      BY <1>6, <1>11, <2>4
    <3>2. Fields' = Append(Fields, Append(row, field))
      BY <1>4, <1>5, <3>1, RowReported
    <3>3. headerFields' = Append(row, field)
      <4>1. headerFields' = row \o <<field>>
        BY <1>2, <1>8, <2>1, <3>1
      <4> QED
        BY <1>5, <4>1
    <3>4. Input' = <<headerFields'>>
      BY <2>1, <2>2, <3>2, <3>3
    <3>5. Input' # <<>> /\ Input'[1] = headerFields' /\ Len(Input') = 1
      BY <3>4
    <3>6. HeaderRead'
      BY <3>5 DEF HeaderRead
    <3>7. ~LinesEnd
      <4>1. ReadPart = contents
        BY <1>2, <1>4, <2>1, AllConsumed
      <4>2. LastPiece(contents, Eol) # <<>>
        BY <1>4, <2>4, <4>1 DEF RowsAreRead, RowsMatch
      <4>3. contents \in Seq(Byte)
        BY <1>4 DEF FileIsRead
      <4> QED
        BY <4>2, <4>3, LinesEndEmpty
    <3>8. Lone'
      BY <1>2, <1>6, <1>7, <2>1, <3>5, <3>7 DEF Lone
    <3> QED
      BY <1>9, <3>6, <3>8
  <2> QED
    BY <2>3, <2>4
<1> QED
  BY <1>10, <1>11

\* The comparison of the header with the format.
LEMMA CheckedHeader == ASSUME Checked, CheckHeader PROVE Checked'
<1>1. /\ phase = "check" /\ valid' = HeaderMatches
      /\ IF HeaderMatches
         THEN phase' = "body" /\ stop' = FALSE
         ELSE phase' \in AfterError("exited") /\ UNCHANGED stop
      /\ UNCHANGED <<config, text, delimiterPos, characterClass, state, status,
                     field, trailingSpace, row, rows, contents, file, fieldCount>>
  BY DEF CheckHeader
<1>2. HeaderRead /\ fieldCount = 0 /\ (headerFields = <<>> \/ Lone \/ Begun)
  BY <1>1 DEF Checked
<1>3. UNCHANGED <<call, input, position, delimiter>>
  BY <1>1 DEF text, config
<1>4. UNCHANGED <<Input, HeaderValid, WrongRow, LinesEnd>>
  BY <1>1, <1>3, InputStays
<1>5. Len(Columns) \in Nat \ {0} /\ Len(<<>>) = 0
  BY ToolAssumption
<1>6. HeaderMatches => headerFields # <<>>
  BY <1>5 DEF HeaderMatches
<1>7. HeaderMatches <=> HeaderValid
  <2>1. CASE Input = <<>>
    BY <1>2, <1>6, <2>1 DEF HeaderRead, HeaderValid
  <2>2. CASE Input # <<>>
    <3>1. headerFields = Input[1]
      BY <1>2, <2>2 DEF HeaderRead
    <3> QED
      BY <2>2, <3>1, <1>5 DEF HeaderMatches, HeaderValid
  <2> QED
    BY <2>1, <2>2
<1>8. HeaderMatches \in BOOLEAN
  BY DEF HeaderMatches
<1>9. CASE HeaderMatches
  <2>1. phase' = "body" /\ stop' = FALSE /\ valid'
    BY <1>1, <1>9
  <2>2. CASE Lone
    <3>1. Lone'
      BY <1>1, <1>3, <1>4, <2>2 DEF Lone
    <3> QED
      BY <1>4, <1>7, <1>8, <1>1, <1>9, <2>1, <3>1 DEF Checked
  <2>3. CASE Begun
    <3>1. PlainReading' /\ Fields' = Fields
      BY <1>1, <2>1, <2>3, PlainStays DEF Begun
    <3>2. row' = <<>> /\ Len(row') = 0 /\ state' = "RECORD_NOT_BEGUN" /\ fieldCount' = 0
      BY <1>1, <1>2, <1>5, <2>3 DEF Begun
    <3>3. Len(Fields') = 1 /\ 2..1 = {}
      BY <2>3, <3>1 DEF Begun
    <3>4. InBody'
      BY <3>1, <3>2, <3>3 DEF InBody
    <3> QED
      BY <1>4, <1>7, <1>8, <1>1, <1>9, <2>1, <3>4 DEF Checked
  <2> QED
    BY <1>2, <1>6, <1>9, <2>2, <2>3
<1>10. CASE ~HeaderMatches
  <2>1. phase' \in {"exited", "died"} /\ ~valid'
    BY <1>1, <1>10 DEF AfterError
  <2> QED
    BY <1>1, <1>4, <1>7, <1>8, <1>10, <2>1 DEF Checked
<1> QED
  BY <1>9, <1>10

\* finish() behind the body.
LEMMA CheckedFinishBody == ASSUME Checked, FinishBody PROVE Checked'
<1>1. PICK s \in BOOLEAN : Finish(s) /\ BodyCallbacks(s) /\ phase' \in Outcome(s, "exited")
  BY DEF FinishBody
<1>2. /\ phase = "body" /\ call = "idle" /\ (stop \/ file = <<>>)
      /\ s = (RecordReported /\ WrongCount)
      /\ valid' = (valid /\ ~s)
      /\ UNCHANGED <<contents, file, headerFields>>
  BY <1>1 DEF FinishBody, AllRead, BodyCallbacks
<1>3. /\ phase' \in {"exited", "died"} /\ (~s => phase' = "exited")
      /\ valid' \in BOOLEAN /\ valid \in BOOLEAN
  BY <1>1, <1>2 DEF Outcome, AfterError, Checked
<1>4. UNCHANGED <<config, input, position>>
  BY <1>1 DEF Finish, FinishStopped, FinishFailed, FinishRow, FinishNothing, FinishReturns
<1>5. UNCHANGED <<Input, HeaderValid, WrongRow, LinesEnd>> /\ HeaderValid
  <2>1. delimiter' = delimiter
    BY <1>4 DEF config
  <2> QED
    BY <1>2, <2>1, InputStays DEF Checked
<1>6. CASE stop
  <2>1. ~valid /\ WrongRow
    BY <1>2, <1>6 DEF Checked
  <2>2. ~valid'
    BY <1>2, <2>1
  <2> QED
    BY <1>3, <1>5, <2>1, <2>2 DEF Checked
<1>7. CASE ~stop /\ Lone
  <2>1. Len(Input) = 1 /\ ~LinesEnd /\ 2..1 = {}
    BY <1>7 DEF Lone
  <2>2. ~WrongRow
    BY <2>1 DEF WrongRow
  <2> QED
    BY <1>3, <1>5, <2>1, <2>2 DEF Checked
<1>8. CASE ~stop /\ InBody
  <2>1. valid /\ file = <<>> /\ PlainReading
    BY <1>2, <1>8 DEF Checked, InBody
  <2>2. PlainParser /\ TypeOK /\ FileIsRead /\ RowsAreRead
    BY <2>1 DEF PlainReading, PlainParser
  <2>3. field \in Seq(Byte) /\ position \in Nat /\ Len(input) \in Nat /\ position =< Len(input)
    BY <2>2 DEF TypeOK
  <2>4. /\ state # "RECORD_NOT_BEGUN" => RowEvent(field, s)
        /\ state = "RECORD_NOT_BEGUN" => NoEvent
    BY <1>1, <1>8, <2>2, PlainFinish
  <2>5. /\ fieldCount = Len(row) /\ Len(Fields) >= 1
        /\ \A n \in 2..Len(Fields) : Len(Fields[n]) = Len(Columns)
        /\ position < Len(input) => state = "RECORD_NOT_BEGUN"
    BY <1>2, <1>8 DEF InBody
  <2>6. /\ RowEvent(field, s) => (s <=> Len(Append(row, field)) # Len(Columns))
        /\ NoEvent => ~s
    BY <1>1, <2>2, <2>3, <2>5, BodyCounts
  <2>7. CASE position < Len(input)
    <3>1. ~s /\ phase' = "exited" /\ valid'
      BY <1>2, <1>3, <2>1, <2>4, <2>5, <2>6, <2>7
    <3>2. position' # Len(input')
      BY <1>4, <2>3, <2>7
    <3> QED
      BY <1>3, <3>1, <3>2 DEF Checked
  <2>8. CASE position = Len(input)
    <3>1. Fields' = Input
      <4>1. Fields' = Table(contents, SimpleFS, Eol)
        BY <1>1, <1>8, <2>1, <2>2, <2>8, TableIsReported
      <4> QED
        BY <4>1 DEF Input
    <3>2. CASE state = "RECORD_NOT_BEGUN"
      <4>1. ~s /\ rows' = rows
        BY <2>4, <2>6, <3>2 DEF NoEvent
      <4>2. Fields' = Fields
        BY <4>1 DEF Fields
      <4>3. ~WrongRow
        BY <2>5, <3>1, <4>2 DEF WrongRow
      <4> QED
        BY <1>2, <1>3, <1>5, <2>1, <4>1, <4>3 DEF Checked
    <3>3. CASE state # "RECORD_NOT_BEGUN"
      <4>1. /\ Len(Fields') \in 2..Len(Fields')
            /\ Fields'[Len(Fields')] = Append(row, field)
            /\ Len(Append(row, field)) = Len(Columns) =>
                 \A n \in 2..Len(Fields') : Len(Fields'[n]) = Len(Columns)
        BY <2>2, <2>3, <2>4, <2>5, <3>3, BodyRow
      <4>2. s <=> WrongRow
        BY <2>4, <2>6, <3>1, <3>3, <4>1 DEF WrongRow
      <4> QED
        BY <1>2, <1>3, <1>5, <2>1, <4>2 DEF Checked
    <3> QED
      BY <3>2, <3>3
  <2> QED
    BY <2>3, <2>7, <2>8
<1> QED
  BY <1>2, <1>6, <1>7, <1>8 DEF Checked

\* Every step keeps what was found out.
LEMMA CheckedStep == ASSUME Checked, [ToolNext]_toolVars PROVE Checked'
<1>1. CASE NextBlock
  BY <1>1, CheckedBlock
<1>2. CASE ParserTurn
  <2>1. ASSUME NEW s \in BOOLEAN, Accept(s), Callbacks(s), phase' \in Outcome(s, phase)
        PROVE  Checked'
    <3>1. CASE HeaderCallbacks(s)
      <4>1. phase = "header" /\ phase' = phase
        BY <2>1, <3>1 DEF HeaderCallbacks, Outcome
      <4> QED
        BY <2>1, <3>1, <4>1, CheckedHeaderTurn
    <3>2. CASE BodyCallbacks(s)
      <4>1. phase = "body"
        BY <3>2 DEF BodyCallbacks
      <4> QED
        BY <2>1, <3>2, <4>1, CheckedBodyTurn
    <3> QED
      BY <2>1, <3>1, <3>2 DEF Callbacks
  <2>2. CASE phase \in {"header", "body"} /\ LeaveLoop /\ UNCHANGED program
    BY <2>2, CheckedLeave
  <2> QED
    BY <1>2, <2>1, <2>2 DEF ParserTurn
<1>3. CASE FinishHeader
  BY <1>3, CheckedFinishHeader
<1>4. CASE CheckHeader
  BY <1>4, CheckedHeader
<1>5. CASE FinishBody
  BY <1>5, CheckedFinishBody
<1>6. CASE UNCHANGED toolVars
  <2>1. /\ UNCHANGED <<config, text, delimiterPos, characterClass, state, status,
                       stop, field, trailingSpace, row, rows>>
        /\ UNCHANGED <<contents, file, phase, headerFields, fieldCount, valid>>
        /\ UNCHANGED <<call, input, position, delimiter>>
    BY <1>6 DEF toolVars, vars, program, text, config
  <2>2. UNCHANGED <<Input, HeaderValid, WrongRow, LinesEnd, Fields, HeaderRead, Lone>>
    BY <2>1, InputStays DEF Fields, HeaderRead, Lone
  <2>3. PlainReading => PlainReading'
    <3>1. PlainReading => stop' \in BOOLEAN
      BY <2>1 DEF PlainReading, PlainParser, TypeOK
    <3> QED
      BY <2>1, <3>1, PlainStays
  <2>4. /\ InHeader => InHeader'
        /\ Begun => Begun'
        /\ InBody => InBody'
    BY <2>1, <2>2, <2>3 DEF InHeader, Begun, InBody
  <2> QED
    BY <2>1, <2>2, <2>4 DEF Checked
<1> QED
  BY <1>1, <1>2, <1>3, <1>4, <1>5, <1>6 DEF ToolNext

\* A file that was parsed to its end is accepted only if its header and each of its
\* rows are what the format says (header_record(), validate_header(), record()).
THEOREM AcceptanceIsRight == ASSUME PlainFiles PROVE ToolSpec => []AcceptsOnlyValidIfParsed
<1>1. Checked => AcceptsOnlyValidIfParsed
  <2>1. HeaderValid /\ ~WrongRow => FileIsValid
    BY DEF HeaderValid, WrongRow, FileIsValid
  <2> QED
    BY <2>1 DEF Checked, AcceptsOnlyValidIfParsed, Exited
<1>2. ToolInit => Checked
  BY CheckedInit
<1>3. Checked /\ [ToolNext]_toolVars => Checked'
  BY CheckedStep
<1> QED
  BY <1>1, <1>2, <1>3, PTL DEF ToolSpec

\* The files with nothing behind their last end of line.
LineFiles == \A f \in Files : f = <<>> \/ f[Len(f)] \in Eol

\* A file of ended lines is rejected, and error() ends the program, only if the header
\* or a row is not what a format without `Allow Fewer Columns' says, whatever part of the
\* file the parser has left out (validate_header(), record(), main()).
THEOREM RejectionIsRight ==
  ASSUME PlainFiles, LineFiles, ~AllowFewer
  PROVE  ToolSpec => []RejectsOnlyInvalid
<1> DEFINE Inv == Checked /\ LinesEnd
<1>1. Inv => RejectsOnlyInvalid
  <2>1. FileIsValid => HeaderValid /\ ~WrongRow
    BY DEF HeaderValid, WrongRow, FileIsValid
  <2> QED
    BY <2>1 DEF Checked, RejectsOnlyInvalid, Exited, Died
<1>2. ToolInit => Inv
  <2>1. ToolInit => contents \in Files
    BY DEF ToolInit, OpenInputFile
  <2> QED
    BY <2>1, CheckedInit DEF LinesEnd, LineFiles
<1>3. Inv /\ [ToolNext]_toolVars => Inv'
  <2>1. [ToolNext]_toolVars => contents' = contents
    BY DEF ToolNext, toolVars, program, NextBlock, ReadBlock, ParserTurn, FinishHeader,
           CheckHeader, FinishBody, Callbacks, HeaderCallbacks, BodyCallbacks
  <2>2. contents' = contents => (LinesEnd => LinesEnd')
    BY DEF LinesEnd
  <2> QED
    BY <2>1, <2>2, CheckedStep
<1> QED
  BY <1>1, <1>2, <1>3, PTL DEF ToolSpec
=============================================================================
