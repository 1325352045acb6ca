------------------------- MODULE ParserClientProofs -------------------------
(***************************************************************************)
(* Theorems about the parser together with its caller: no byte is lost, a  *)
(* caller may rely on the value parse() returns, and a half matched        *)
(* delimiter stands for the last bytes consumed, for every text, every way *)
(* to cut it into chunks and every delimiter.  Behind that: the parser     *)
(* implements RowStream; and with the two callbacks at the end of a row    *)
(* one after the other it implements the parser with both in one step.     *)
(***************************************************************************)
EXTENDS Callbacks, RawField, ParseDelimitedTextProofs

\* What the caller has spent of its plan.
Spent == [formats : Nat, stops : Nat, finishes : Nat, resets : Nat]

\* What the caller records has the right type, and it keeps to its plan.
ClientTyped ==
  /\ plan \in DOMAIN Plans
  /\ fed \in Seq(Byte) /\ taken \in Seq(Byte) /\ raw \in Seq(Byte)
  /\ spent \in Spent
  /\ spent.stops =< Plans[plan].stops
  /\ stop => spent.stops > 0

\* Whatever the caller does is a step of the parser.
LEMMA ClientStepIsAStep ==
  ASSUME ClientTyped, [ClientNext]_clientVars
  PROVE  [Next]_vars
<1>1. ASSUME ClientNext PROVE Next
  <2>1. CASE ChooseFormat
    BY <2>1 DEF ChooseFormat, Next
  <2>2. CASE FeedChunk
    <3>1. Plans[plan].chunks \subseteq Chunks
      BY PlansAssumption DEF ClientTyped
    <3> QED
      BY <2>2, <3>1 DEF FeedChunk, Next
  <2>3. CASE ClientLoop
    BY <2>3 DEF ClientLoop, ReadByte, RefuseByte, EndLoop, Next, Loop
  <2>4. CASE EndText
    BY <2>4 DEF EndText, Next
  <2>5. CASE StopParser \/ ClearState
    BY <2>5 DEF StopParser, ClearState, Next
  <2> QED
    BY <1>1, <2>1, <2>2, <2>3, <2>4, <2>5 DEF ClientNext
<1>2. UNCHANGED clientVars => UNCHANGED vars
  BY DEF clientVars
<1> QED
  BY <1>1, <1>2

\* A caller has paid for every stop(), the callbacks' included, and never pays
\* for more of them than its plan allows.
LEMMA StopsArePaid ==
  ASSUME ClientTyped, ClientNext
  PROVE  /\ spent' \in Spent
         /\ spent.stops =< spent'.stops
         /\ spent'.stops =< Plans[plan].stops
         /\ stop' /\ ~stop => spent'.stops = spent.stops + 1
<1> USE DEF ClientTyped
<1>0. /\ spent.stops \in Nat /\ spent.formats \in Nat
      /\ spent.finishes \in Nat /\ spent.resets \in Nat
      /\ Plans[plan].stops \in Nat
  BY PlansAssumption DEF Spent
<1> USE DEF Spent
<1>1. CASE ChooseFormat
  <2> DEFINE more == spent.formats + 1
  <2>0. more \in Nat /\ spent' = [spent EXCEPT !.formats = more]
    BY <1>0, <1>1 DEF ChooseFormat
  <2> HIDE DEF more
  <2>3. spent' \in Spent
    BY <2>0, Zenon
  <2>1. spent'.stops = spent.stops
    BY <2>0, Zenon
  <2>2. stop' = stop
    BY <1>1 DEF ChooseFormat, Configure, SetDelimiter, SetQuote, ApplyFormat
  <2> QED
    BY <1>0, <2>1, <2>2, <2>3
<1>2. CASE FeedChunk
  BY <1>0, <1>2 DEF FeedChunk, Parse
<1>3. ASSUME PayStop
      PROVE  /\ spent' \in Spent
             /\ spent.stops =< spent'.stops
             /\ spent'.stops =< Plans[plan].stops
             /\ stop' /\ ~stop => spent'.stops = spent.stops + 1
  <2>1. CASE stop' /\ ~stop
    <3> DEFINE more == spent.stops + 1
    <3>3. more \in Nat /\ spent' = [spent EXCEPT !.stops = more]
      BY <1>0, <1>3, <2>1 DEF PayStop
    <3> HIDE DEF more
    <3>4. spent' \in Spent
      BY <3>3, Zenon
    <3>5. spent'.stops = more
      BY <3>3, Zenon
    <3>1. spent' \in Spent /\ spent'.stops = spent.stops + 1
      BY <3>4, <3>5 DEF more
    <3>2. spent.stops < Plans[plan].stops
      BY <1>3, <2>1 DEF PayStop
    <3> QED
      BY <1>0, <3>1, <3>2
  <2>2. CASE ~(stop' /\ ~stop)
    BY <1>0, <1>3, <2>2 DEF PayStop
  <2> QED
    BY <2>1, <2>2
<1>4. CASE RefuseByte \/ EndLoop
  BY <1>0, <1>4 DEF RefuseByte, EndLoop, StrictError, LeaveLoop, Quiet
<1>5. CASE EndText
  <2> DEFINE paid == IF stop' /\ ~stop THEN 1 ELSE 0
             total == spent.stops + paid
             ended == spent.finishes + 1
  <2>1. total \in Nat /\ ended \in Nat
    BY <1>0
  <2>2. spent' = [spent EXCEPT !.finishes = ended, !.stops = total]
    BY <1>5 DEF EndText
  <2>3. stop' /\ ~stop => spent.stops < Plans[plan].stops
    BY <1>0, <1>5 DEF EndText, Finish, FinishStopped, FinishFailed, FinishRow, FinishNothing
  <2> HIDE DEF total, ended
  <2>4. spent' \in Spent
    BY <2>1, <2>2, Zenon
  <2>5. spent'.stops = total
    BY <2>2, Zenon
  <2> QED
    BY <1>0, <2>3, <2>4, <2>5 DEF total
<1>6. CASE ClearState
  <2> DEFINE more == spent.resets + 1
  <2>0. more \in Nat /\ spent' = [spent EXCEPT !.resets = more]
    BY <1>0, <1>6 DEF ClearState
  <2> HIDE DEF more
  <2>3. spent' \in Spent
    BY <2>0, Zenon
  <2>1. spent'.stops = spent.stops
    BY <2>0, Zenon
  <2>2. stop' = stop
    BY <1>6 DEF ClearState, ResetState
  <2> QED
    BY <1>0, <2>1, <2>2, <2>3
<1>7. CASE ReadByte \/ StopParser
  BY <1>3, <1>7 DEF ReadByte, StopParser
<1> QED
  BY <1>1, <1>2, <1>4, <1>5, <1>6, <1>7 DEF ClientNext, ClientLoop

\* A step keeps the caller's records typed and its plan.
LEMMA ClientTypedStep ==
  ASSUME TypeOK, ClientTyped, [ClientNext]_clientVars
  PROVE  ClientTyped'
<1>1. CASE ClientNext
  <2>1. /\ fed \in Seq(Byte) /\ taken \in Seq(Byte) /\ raw \in Seq(Byte)
        /\ plan \in DOMAIN Plans /\ spent.stops \in Nat
    BY DEF ClientTyped, Spent
  <2>2. plan' = plan
    BY <1>1 DEF ClientNext
  <2>3. stop' => spent'.stops > 0
    BY <1>1, <2>1, StopsArePaid DEF ClientTyped, Spent
  <2>4. ASSUME position < Len(input) PROVE Consumed \in Seq(Byte)
    <3>1. NextPosition \in 0..Len(input)
      BY <2>4, IdentifiedIsTyped
    <3> QED
      BY <3>1, SubSeqProperties DEF Consumed, TypeOK
  <2>5. fed' \in Seq(Byte)
    <3>1. CASE FeedChunk
      <4>1. \A c \in Plans[plan].chunks : c \in Seq(Byte)
        BY <2>1, PlansAssumption, CallerAssumption
      <4> QED
        BY <2>1, <3>1, <4>1 DEF FeedChunk
    <3>2. CASE ~FeedChunk
      BY <1>1, <2>1, <3>2
      DEF ClientNext, ClientLoop, ChooseFormat, ReadByte, RefuseByte, EndLoop,
          EndText, StopParser, ClearState, history
    <3> QED
      BY <3>1, <3>2
  <2>6. taken' \in Seq(Byte) /\ raw' \in Seq(Byte)
    <3>1. CASE ReadByte
      <4>1. taken' = taken \o Consumed /\ raw' \in {<<>>, raw \o Consumed}
        BY <3>1 DEF ReadByte
      <4>2. Consumed \in Seq(Byte)
        BY <2>4, <3>1 DEF ReadByte, Accept, InLoop
      <4>3. taken \o Consumed \in Seq(Byte) /\ raw \o Consumed \in Seq(Byte)
        BY <2>1, <4>2
      <4> QED
        BY <2>1, <4>1, <4>3, EmptySeq, Zenon
    <3>2. CASE RefuseByte
      <4>1. taken' = taken \o Consumed /\ raw' = raw
        BY <3>2 DEF RefuseByte
      <4>2. Consumed \in Seq(Byte)
        BY <2>4, <3>2 DEF RefuseByte, StrictError, IdentifyCharacter, InLoop
      <4>3. taken \o Consumed \in Seq(Byte)
        BY <2>1, <4>2
      <4> QED
        BY <2>1, <4>1, <4>3, Zenon
    <3>3. CASE ChooseFormat \/ FeedChunk \/ EndLoop \/ EndText \/ StopParser \/ ClearState
      <4>1. taken' = taken /\ (raw' = raw \/ raw' = <<>>)
        BY <3>3
        DEF ChooseFormat, FeedChunk, EndLoop, EndText, StopParser, ClearState, history
      <4> QED
        BY <2>1, <4>1, EmptySeq, Zenon
    <3> QED
      BY <1>1, <3>1, <3>2, <3>3 DEF ClientNext, ClientLoop
  <2> QED
    BY <1>1, <2>1, <2>2, <2>3, <2>5, <2>6, StopsArePaid DEF ClientTyped
<1>2. CASE UNCHANGED clientVars
  BY <1>2 DEF ClientTyped, clientVars, history, vars
<1> QED
  BY <1>1, <1>2

\* The parser stays well typed and knows its half matched delimiters whatever
\* the caller does.
Sound == TypeOK /\ HalfMatchIsKnown /\ ClientTyped

\* Each step keeps it.
LEMMA ClientSoundStep ==
  ASSUME Sound, [ClientNext]_clientVars
  PROVE  Sound'
<1>1. TypeOK /\ HalfMatchIsKnown /\ ClientTyped
  BY DEF Sound
<1>2. [Next]_vars
  BY <1>1, ClientStepIsAStep
<1>3. TypeOK'
  BY <1>1, <1>2, AcceptTyped, OutOfLoopTyped, MethodTyped, StutterTyped DEF Next, Loop
<1> QED
  BY <1>1, <1>2, <1>3, HalfMatchStep, ClientTypedStep DEF Sound

\* It holds at the start.
LEMMA ClientSoundInit == ClientInit => Sound
<1> SUFFICES ASSUME ClientInit PROVE Sound
  OBVIOUS
<1>1. TypeOK
  BY InitTyped DEF ClientInit
<1>2. HalfMatchIsKnown /\ ~stop
  BY DEF ClientInit, Init, NewParser, HalfMatchIsKnown
<1>3. spent \in Spent /\ spent.stops = 0
  BY DEF ClientInit, Spent
<1>4. Plans[plan].stops \in Nat
  BY PlansAssumption DEF ClientInit
<1> QED
  BY <1>1, <1>2, <1>3, <1>4 DEF ClientInit, ClientTyped, Sound

\* Sound is an invariant of the parser and its caller.
THEOREM ClientSound == ClientSpec => []Sound
BY ClientSoundInit, ClientSoundStep, PTL DEF ClientSpec
-----------------------------------------------------------------------------
(* Every byte is consumed or still to be read. *)

\* Only a parse() that is still in its first loop holds its own chunk back.
ChunkWaits == call # "draining" => chunk = <<>>

\* Texts are put together in any order.
LEMMA TextAssociative ==
  \A t, u, v \in Seq(Byte) : t \o (u \o v) = (t \o u) \o v
BY ConcatAssociative

\* What is unread is the part consumed next and the rest behind it.
LEMMA ConsumedThenRest ==
  ASSUME TypeOK, NEW k \in position..Len(input)
  PROVE  /\ SubSeq(input, position + 1, k) \in Seq(Byte)
         /\ SubSeq(input, k + 1, Len(input)) \in Seq(Byte)
         /\ Unread = SubSeq(input, position + 1, k) \o SubSeq(input, k + 1, Len(input))
<1>1. input \in Seq(Byte) /\ position \in 0..Len(input) /\ Len(input) \in Nat
  BY DEF TypeOK
<1>2. k \in Nat /\ position =< k /\ k =< Len(input)
  BY <1>1
<1>3. SubSeq(input, position + 1, k) \in Seq(Byte) /\ SubSeq(input, k + 1, Len(input)) \in Seq(Byte)
  BY <1>1, <1>2, SubSeqProperties
<1>4. Unread = SubSeq(input, position + 1, k) \o SubSeq(input, k + 1, Len(input))
  <2> DEFINE m == position + 1
             n == Len(input)
  <2>1. /\ m \in 1..Len(input)+1
        /\ k \in m-1..Len(input)
        /\ n \in k..Len(input)
    BY <1>1, <1>2
  <2> HIDE DEF m, n
  <2>2. SubSeq(input, m, k) \o SubSeq(input, k + 1, n) = SubSeq(input, m, n)
    BY <1>1, <2>1, ConcatAdjacentSubSeq
  <2> QED
    BY <2>2 DEF m, n, Unread
<1> QED
  BY <1>3, <1>4

\* What is left to read is a text, and it is empty at the end of the input.
LEMMA UnreadIsText ==
  ASSUME TypeOK
  PROVE  /\ Unread \in Seq(Byte)
         /\ Len(Unread) = Len(input) - position
         /\ position = Len(input) => Unread = <<>>
         /\ position = 0 => Unread = input
<1>1. input \in Seq(Byte) /\ position \in 0..Len(input) /\ Len(input) \in Nat
  BY DEF TypeOK
<1>2. Unread \in Seq(Byte) /\ Len(Unread) = Len(input) - position
  BY <1>1, SubSeqProperties DEF Unread
<1>3. position = Len(input) => Unread = <<>>
  BY <1>1, SubSeqEmpty DEF Unread
<1>4. position = 0 => Unread = input
  BY <1>1, SubSeqFull DEF Unread
<1> QED
  BY <1>2, <1>3, <1>4

\* A step moves bytes from the unread to the consumed, adds a chunk behind
\* them or leaves them alone; the way out of the first loop is the one step
\* that may drop some, if it was stopped there.
LEMMA BytesAreKept ==
  ASSUME Sound, ChunkWaits, NoByteLost, ClientNext,
         ~(call = "draining" /\ position < Len(input) /\ LeaveLoop)
  PROVE  ChunkWaits' /\ NoByteLost'
<1> USE DEF ChunkWaits
<1>0. TypeOK /\ TypeOK' /\ ClientTyped
  BY ClientSoundStep DEF Sound
<1>1. /\ input \in Seq(Byte) /\ position \in 0..Len(input) /\ Len(input) \in Nat
      /\ chunk \in Seq(Byte) /\ fed \in Seq(Byte) /\ taken \in Seq(Byte)
      /\ position \in Nat
  BY <1>0 DEF TypeOK, ClientTyped
<1>2. Unread \in Seq(Byte)
  BY <1>0, UnreadIsText
<1>3. ASSUME NEW s \in BOOLEAN, Accept(s), taken' = taken \o Consumed, fed' = fed
      PROVE  ChunkWaits' /\ NoByteLost'
  <2>1. Advance /\ position < Len(input) /\ UNCHANGED <<input, chunk, call, status>>
    BY <1>3, AcceptAdvances DEF Advance, IdentifyCharacter, InLoop
  <2>2. position' = NextPosition /\ NextPosition \in position..Len(input)
    BY <1>0, <1>1, <2>1, IdentifiedIsTyped, IdentifyKeepsHalfMatch DEF Advance, Sound
  <2>3. Unread' = SubSeq(input, NextPosition + 1, Len(input))
    BY <2>1, <2>2 DEF Unread
  <2>4. Consumed \in Seq(Byte) /\ Unread' \in Seq(Byte) /\ Unread = Consumed \o Unread'
    BY <1>0, <2>2, <2>3, ConsumedThenRest DEF Consumed
  <2>5. taken \o Unread \o chunk = taken' \o Unread' \o chunk
    <3>1. taken \o (Consumed \o Unread') = (taken \o Consumed) \o Unread'
      BY <1>1, <2>4, TextAssociative, ZenonT(60)
    <3> QED
      BY <1>3, <2>4, <3>1
  <2> QED
    BY <1>3, <2>1, <2>5 DEF NoByteLost
<1>4. CASE RefuseByte
  <2>1. status' # "SUCCESS"
    BY <1>4 DEF RefuseByte, StrictError
  <2>2. ChunkWaits'
    BY <1>4 DEF RefuseByte, StrictError, Leave
  <2> QED
    BY <2>1, <2>2 DEF NoByteLost
<1>5. CASE EndLoop
  <2>0. status' = status /\ taken' = taken /\ fed' = fed
    BY <1>5 DEF EndLoop, LeaveLoop, history
  <2>1. CASE call = "draining"
    <3>1. input' = chunk /\ position' = 0 /\ call' = "parsing" /\ chunk' = <<>>
      BY <1>5, <2>1 DEF EndLoop, LeaveLoop, Leave
    <3>2. position = Len(input)
      BY <1>1, <1>5, <2>1 DEF EndLoop
    <3>3. Unread = <<>> /\ Unread' = chunk
      <4>1. Unread = <<>>
        BY <1>0, <3>2, UnreadIsText
      <4>2. Unread' = SubSeq(chunk, 0 + 1, Len(chunk))
        BY <3>1 DEF Unread
      <4> QED
        BY <1>1, <4>1, <4>2, SubSeqFull
    <3>4. taken \o Unread \o chunk = taken \o Unread' \o chunk'
      <4>1. taken \o <<>> = taken /\ (taken \o chunk) \o <<>> = taken \o chunk
        BY <1>1, ConcatEmptySeq, ConcatProperties
      <4> QED
        BY <3>1, <3>3, <4>1
    <3> QED
      BY <2>0, <3>1, <3>4 DEF NoByteLost
  <2>2. CASE call # "draining"
    <3>1. UNCHANGED <<input, position, chunk>> /\ call' = "idle"
      BY <1>5, <2>2 DEF EndLoop, LeaveLoop, Leave
    <3> QED
      BY <2>0, <2>2, <3>1 DEF NoByteLost, Unread
  <2> QED
    BY <2>1, <2>2
<1>6. CASE FeedChunk
  <2>1. PICK c \in Plans[plan].chunks : Parse(c) /\ fed' = fed \o c
    BY <1>6 DEF FeedChunk
  <2>2. c \in Seq(Byte) /\ Len(c) \in Nat
    BY <1>0, <2>1, PlansAssumption, CallerAssumption DEF ClientTyped
  <2>3. taken' = taken /\ status' = status /\ chunk = <<>>
    BY <1>6, <2>1 DEF FeedChunk, Parse
  <2>4. CASE position < Len(input)
    <3>1. UNCHANGED <<input, position>> /\ chunk' = c /\ call' = "draining"
      BY <2>1, <2>4 DEF Parse
    <3>2. (taken \o Unread \o <<>>) \o c = taken \o Unread \o c
      BY <1>1, <1>2, ConcatEmptySeq, ConcatProperties
    <3> QED
      BY <2>1, <2>3, <3>1, <3>2 DEF NoByteLost, Unread
  <2>5. CASE ~(position < Len(input))
    <3>1. input' = c /\ position' = 0 /\ chunk' = chunk /\ call' = "parsing"
      BY <2>1, <2>5 DEF Parse
    <3>2. Unread = <<>>
      BY <1>0, <1>1, <2>5, UnreadIsText
    <3>3. Unread' = c
      <4>1. Unread' = SubSeq(c, 0 + 1, Len(c))
        BY <3>1 DEF Unread
      <4> QED
        BY <2>2, <4>1, SubSeqFull
    <3>4. (taken \o <<>> \o <<>>) \o c = taken \o c \o <<>>
      BY <1>1, <2>2, ConcatEmptySeq, ConcatProperties
    <3> QED
      BY <2>1, <2>3, <3>1, <3>2, <3>3, <3>4 DEF NoByteLost
  <2> QED
    BY <2>4, <2>5
<1>7. ASSUME UNCHANGED <<input, position, chunk, call, taken, fed>>,
             status' = "SUCCESS" => status = "SUCCESS"
      PROVE  ChunkWaits' /\ NoByteLost'
  BY <1>7 DEF NoByteLost, Unread
<1>8. CASE ChooseFormat
  BY <1>7, <1>8
  DEF ChooseFormat, Configure, SetDelimiter, SetQuote, ApplyFormat, text, history
<1>9. CASE EndText
  BY <1>7, <1>9
  DEF EndText, Finish, FinishStopped, FinishFailed, FinishRow, FinishNothing, FinishReturns
<1>10. CASE StopParser \/ ClearState
  BY <1>7, <1>10 DEF StopParser, ClearState, Stop, ResetState, text, history
<1> QED
  BY <1>3, <1>4, <1>5, <1>6, <1>8, <1>9, <1>10 DEF ClientNext, ClientLoop, ReadByte

\* Whatever the caller does, only a parse() in its first loop holds a chunk back.
LEMMA ChunkWaitsStep ==
  ASSUME Sound, ChunkWaits, [ClientNext]_clientVars
  PROVE  ChunkWaits'
<1> USE DEF ChunkWaits
<1>1. ASSUME NEW s \in BOOLEAN, Accept(s) PROVE ChunkWaits'
  BY <1>1, AcceptAdvances DEF Advance, IdentifyCharacter, InLoop
<1>2. CASE RefuseByte \/ EndLoop
  BY <1>2 DEF RefuseByte, EndLoop, StrictError, LeaveLoop, Leave
<1>3. CASE FeedChunk
  BY <1>3 DEF FeedChunk, Parse
<1>4. CASE ChooseFormat
  BY <1>4 DEF ChooseFormat, Configure, SetDelimiter, SetQuote, ApplyFormat, text
<1>5. CASE EndText
  BY <1>5
  DEF EndText, Finish, FinishStopped, FinishFailed, FinishRow, FinishNothing, FinishReturns
<1>6. CASE StopParser \/ ClearState
  BY <1>6 DEF StopParser, ClearState, Stop, ResetState, text
<1>7. CASE UNCHANGED clientVars
  BY <1>7 DEF clientVars, vars, text
<1> QED
  BY <1>1, <1>2, <1>3, <1>4, <1>5, <1>6, <1>7 DEF ClientNext, ClientLoop, ReadByte

\* What is left of a chunk was left by a stop(), and a parse() that works off
\* such a rest is not stopped again.
RestWasStopped ==
  status = "SUCCESS" =>
    /\ call = "idle" /\ position < Len(input) => spent.stops > 0
    /\ call = "draining" => spent.stops > 0 /\ ~stop

\* A parser that is stopped once leaves its first loop at the end of the input.
LEMMA StopLeavesARest ==
  ASSUME \A p \in DOMAIN Plans : Plans[p].stops =< 1,
         Sound, RestWasStopped, ClientNext
  PROVE  RestWasStopped'
<1> SUFFICES ASSUME status' = "SUCCESS"
             PROVE  /\ call' = "idle" /\ position' < Len(input') => spent'.stops > 0
                    /\ call' = "draining" => spent'.stops > 0 /\ ~stop'
  BY DEF RestWasStopped
<1>0. /\ spent.stops \in Nat /\ spent'.stops \in Nat
      /\ spent.stops =< spent'.stops /\ spent'.stops =< 1
      /\ stop' /\ ~stop => spent'.stops = spent.stops + 1
      /\ stop => spent.stops > 0
      /\ position \in 0..Len(input) /\ Len(input) \in Nat
  <2>1. spent \in Spent /\ spent' \in Spent /\ spent.stops =< spent'.stops
        /\ spent'.stops =< Plans[plan].stops
        /\ (stop' /\ ~stop => spent'.stops = spent.stops + 1)
    BY StopsArePaid DEF Sound, ClientTyped
  <2>2. Plans[plan].stops \in Nat /\ Plans[plan].stops =< 1
    BY PlansAssumption DEF Sound, ClientTyped
  <2>3. spent.stops \in Nat /\ spent'.stops \in Nat
    BY <2>1 DEF Spent
  <2>4. /\ stop => spent.stops > 0
        /\ position \in 0..Len(input) /\ Len(input) \in Nat
    BY DEF Sound, ClientTyped, TypeOK
  <2> QED
    BY <2>1, <2>2, <2>3, <2>4
<1>1. ASSUME NEW s \in BOOLEAN, Accept(s)
      PROVE  /\ call' = "idle" /\ position' < Len(input') => spent'.stops > 0
             /\ call' = "draining" => spent'.stops > 0 /\ ~stop'
  <2>1. ~stop /\ UNCHANGED <<call, status>> /\ call # "idle"
    BY <1>1, AcceptAdvances DEF Advance, IdentifyCharacter, InLoop
  <2>2. call = "draining" => spent.stops > 0
    BY <2>1 DEF RestWasStopped
  <2>3. call = "draining" => ~stop'
    BY <1>0, <2>1, <2>2
  <2> QED
    BY <1>0, <2>1, <2>2, <2>3
<1>2. CASE RefuseByte
  BY <1>2 DEF RefuseByte, StrictError
<1>3. CASE EndLoop
  <2>1. status = "SUCCESS" /\ spent' = spent /\ stop' = stop
    BY <1>3 DEF EndLoop, LeaveLoop
  <2>2. call' \in {"parsing", "idle"}
    BY <1>3 DEF EndLoop, LeaveLoop, Leave
  <2>3. call' = "idle" => UNCHANGED <<input, position>>
    BY <1>3 DEF EndLoop, LeaveLoop, Leave
  <2>4. stop \/ position = Len(input)
    BY <1>3 DEF EndLoop, LeaveLoop
  <2> QED
    BY <1>0, <2>1, <2>2, <2>3, <2>4
<1>4. CASE FeedChunk
  <2>1. call = "idle" /\ ~stop' /\ status' = status /\ spent' = spent
    BY <1>4 DEF FeedChunk, Parse
  <2>2. call' # "idle" /\ (call' = "draining" => position < Len(input))
    BY <1>4 DEF FeedChunk, Parse
  <2> QED
    BY <1>0, <2>1, <2>2 DEF RestWasStopped
<1>5. ASSUME UNCHANGED <<call, input, position>>, call = "idle",
             status = "SUCCESS"
      PROVE  /\ call' = "idle" /\ position' < Len(input') => spent'.stops > 0
             /\ call' = "draining" => spent'.stops > 0 /\ ~stop'
  BY <1>0, <1>5 DEF RestWasStopped
<1>6. CASE ChooseFormat
  BY <1>5, <1>6
  DEF ChooseFormat, Configure, SetDelimiter, SetQuote, ApplyFormat, text
<1>7. CASE EndText
  BY <1>5, <1>7
  DEF EndText, Finish, FinishStopped, FinishFailed, FinishRow, FinishNothing, FinishReturns
<1>8. CASE StopParser \/ ClearState
  BY <1>5, <1>8 DEF StopParser, ClearState, Stop, ResetState, text
<1> QED
  BY <1>1, <1>2, <1>3, <1>4, <1>6, <1>7, <1>8 DEF ClientNext, ClientLoop, ReadByte

\* The inductive invariant behind NoByteLost.
Kept == Sound /\ ChunkWaits /\ NoByteLost /\ RestWasStopped

\* Kept is kept.
LEMMA KeptStep ==
  ASSUME \A p \in DOMAIN Plans : Plans[p].stops =< 1,
         Kept, [ClientNext]_clientVars
  PROVE  Kept'
<1>1. CASE ClientNext
  <2>1. RestWasStopped'
    BY <1>1, StopLeavesARest DEF Kept
  <2>2. CASE ~(call = "draining" /\ position < Len(input) /\ LeaveLoop)
    BY <1>1, <2>1, <2>2, BytesAreKept, ClientSoundStep DEF Kept
  <2>3. CASE call = "draining" /\ position < Len(input) /\ LeaveLoop
    <3>1. status' = status /\ call' # "draining" /\ chunk' = <<>>
      BY <2>3 DEF LeaveLoop, Leave
    <3>2. stop
      BY <2>3 DEF LeaveLoop, Kept, Sound, TypeOK
    <3>3. status # "SUCCESS"
      BY <2>3, <3>2 DEF Kept, RestWasStopped
    <3> QED
      BY <1>1, <2>1, <3>1, <3>3, ClientSoundStep DEF Kept, ChunkWaits, NoByteLost
  <2> QED
    BY <2>2, <2>3
<1>2. CASE UNCHANGED clientVars
  BY <1>2, ClientSoundStep
  DEF Kept, ChunkWaits, NoByteLost, RestWasStopped, Unread, clientVars, vars, text, history
<1> QED
  BY <1>1, <1>2

\* It holds at the start.
LEMMA KeptInit == ClientInit => Sound /\ ChunkWaits /\ NoByteLost /\ RestWasStopped
<1> SUFFICES ASSUME ClientInit PROVE Kept
  BY DEF Kept
<1>1. Sound
  BY ClientSoundInit
<1>2. /\ input = <<>> /\ position = 0 /\ chunk = <<>> /\ call = "idle"
      /\ fed = <<>> /\ taken = <<>>
  BY DEF ClientInit, Init, NewParser
<1>3. Unread = <<>>
  BY <1>2, SubSeqEmpty DEF Unread
<1>4. <<>> = <<>> \o <<>> \o <<>>
  BY EmptySeq, ConcatEmptySeq
<1>5. RestWasStopped /\ ChunkWaits
  BY <1>2, EmptySeq DEF RestWasStopped, ChunkWaits
<1> QED
  BY <1>1, <1>2, <1>3, <1>4, <1>5 DEF Kept, NoByteLost

\* With at most one stop() no byte handed over is ever lost, whatever the
\* chunks, the formats, the resets and the place where it is stopped are.
THEOREM NothingIsLost ==
  ASSUME \A p \in DOMAIN Plans : Plans[p].stops =< 1
  PROVE  ClientSpec => []NoByteLost
<1>1. ClientInit => Kept
  BY KeptInit DEF Kept
<1>2. Kept /\ [ClientNext]_clientVars => Kept'
  BY KeptStep
<1>3. Kept => NoByteLost
  BY DEF Kept
<1> QED
  BY <1>1, <1>2, <1>3, PTL DEF ClientSpec

\* For any number of stops: as long as no error has occurred the one step that
\* drops bytes is to leave the first loop of a parse() before the rest of the
\* last chunk is read, which a second stop() from a callback makes it do.
THEOREM OnlyAStopLosesBytes ==
  ClientSpec =>
    [][/\ ~(call = "draining" /\ position < Len(input) /\ LeaveLoop)
       /\ NoByteLost
       => NoByteLost']_clientVars
<1> DEFINE Step == /\ ~(call = "draining" /\ position < Len(input) /\ LeaveLoop)
                   /\ NoByteLost
                   => NoByteLost'
<1>1. ClientInit => Sound /\ ChunkWaits
  BY KeptInit
<1>2. Sound /\ ChunkWaits /\ [ClientNext]_clientVars => (Sound /\ ChunkWaits)'
  BY ClientSoundStep, ChunkWaitsStep
<1>3. Sound /\ ChunkWaits /\ [ClientNext]_clientVars => [Step]_clientVars
  BY BytesAreKept
<1> QED
  BY <1>1, <1>2, <1>3, PTL DEF ClientSpec

\* While parse() is not running the value it returned is where it stands in
\* the input; after an error it is before the end.
ReturnIsPosition ==
  call = "idle" /\ result.of = "parse" =>
    IF status = "SUCCESS" THEN result.value = position ELSE result.value < Len(input)

\* Each way out of parse() returns such a value.
LEMMA ReturnStep ==
  ASSUME Sound, ReturnIsPosition, [ClientNext]_clientVars
  PROVE  ReturnIsPosition'
<1> USE DEF ReturnIsPosition
<1>0. TypeOK /\ position \in 0..Len(input) /\ Len(input) \in Nat
  BY DEF Sound, TypeOK
<1>1. ASSUME NEW s \in BOOLEAN, Accept(s) PROVE ReturnIsPosition'
  BY <1>1, AcceptAdvances DEF Advance, IdentifyCharacter, InLoop
<1>2. CASE RefuseByte
  <2>1. status' = "EPARSE" /\ Leave(NextPosition - 1, NextPosition)
    BY <1>2 DEF RefuseByte, StrictError
  <2>2. NextPosition \in 0..Len(input)
    BY <1>0, <1>2, IdentifiedIsTyped DEF RefuseByte, StrictError, IdentifyCharacter, InLoop
  <2> QED
    BY <1>0, <2>1, <2>2 DEF Leave
<1>3. CASE EndLoop
  <2>1. status' = status /\ Leave(IF status = "SUCCESS" THEN position ELSE -1, position)
    BY <1>3 DEF EndLoop, LeaveLoop
  <2> QED
    BY <1>0, <2>1 DEF Leave
<1>4. CASE FeedChunk
  BY <1>4 DEF FeedChunk, Parse
<1>5. CASE ChooseFormat
  BY <1>5 DEF ChooseFormat, Configure, SetDelimiter, SetQuote, ApplyFormat, text
<1>6. CASE EndText
  BY <1>6
  DEF EndText, Finish, FinishStopped, FinishFailed, FinishRow, FinishNothing, FinishReturns
<1>7. CASE StopParser \/ ClearState
  BY <1>7 DEF StopParser, ClearState, Stop, ResetState, text
<1>8. CASE UNCHANGED clientVars
  BY <1>8 DEF clientVars, vars, text
<1> QED
  BY <1>1, <1>2, <1>3, <1>4, <1>5, <1>6, <1>7, <1>8 DEF ClientNext, ClientLoop, ReadByte

\* What is not taken yet is what is unread, so the position tells both.
LEMMA PositionTells ==
  ASSUME Kept, ReturnIsPosition
  PROVE  ReturnTellsTruth
<1> SUFFICES ASSUME call = "idle", result.of = "parse"
             PROVE  result.value = Len(input) <=> taken = fed /\ status = "SUCCESS"
  BY DEF ReturnTellsTruth
<1>1. /\ position \in 0..Len(input) /\ Len(input) \in Nat /\ result.value \in Int
      /\ taken \in Seq(Byte) /\ fed \in Seq(Byte)
  BY DEF Kept, Sound, TypeOK, ClientTyped
<1>2. Unread \in Seq(Byte) /\ Len(Unread) = Len(input) - position
  BY UnreadIsText DEF Kept, Sound
<1>3. CASE status = "SUCCESS"
  <2>1. fed = taken \o Unread
    <3>1. chunk = <<>> /\ fed = taken \o Unread \o chunk
      BY <1>3 DEF Kept, ChunkWaits, NoByteLost
    <3>2. (taken \o Unread) \o <<>> = taken \o Unread
      BY <1>1, <1>2, ConcatProperties, ConcatEmptySeq
    <3> QED
      BY <3>1, <3>2
  <2>2. taken = fed <=> Unread = <<>>
    BY <1>1, <1>2, <2>1, ConcatEqualIffEmpty
  <2>3. Unread = <<>> <=> Len(Unread) = 0
    BY <1>2, EmptySeq
  <2>4. result.value = position
    BY <1>3 DEF ReturnIsPosition
  <2> QED
    BY <1>1, <1>2, <1>3, <2>2, <2>3, <2>4
<1>4. CASE status # "SUCCESS"
  BY <1>1, <1>4 DEF ReturnIsPosition
<1> QED
  BY <1>3, <1>4

\* A caller that gets back the length of its chunk knows that all text it ever
\* handed over was parsed without an error, and no other value hides that.
THEOREM ReturnIsTrue ==
  ASSUME \A p \in DOMAIN Plans : Plans[p].stops =< 1
  PROVE  ClientSpec => []ReturnTellsTruth
<1>1. ClientInit => Kept /\ ReturnIsPosition
  BY KeptInit DEF Kept, ReturnIsPosition, ClientInit, Init, NewParser
<1>2. Kept /\ ReturnIsPosition /\ [ClientNext]_clientVars => (Kept /\ ReturnIsPosition)'
  BY KeptStep, ReturnStep DEF Kept
<1>3. Kept /\ ReturnIsPosition => ReturnTellsTruth
  BY PositionTells
<1> QED
  BY <1>1, <1>2, <1>3, PTL DEF ClientSpec
-----------------------------------------------------------------------------
(* A half matched delimiter stands for the last bytes consumed. *)

\* The first n bytes of d are the last n bytes of t.
HasAtEnd(t, d, n) ==
  /\ n =< Len(t)
  /\ \A i \in 1..n : d[i] = t[Len(t) - n + i]

\* The same of the two as sequences.
LEMMA EndsAsSequences ==
  ASSUME NEW d \in Seq(Byte), NEW t \in Seq(Byte), NEW n \in 1..Len(d)
  PROVE  HasAtEnd(t, d, n) <=> /\ n =< Len(t)
                           /\ SubSeq(d, 1, n) = SubSeq(t, Len(t) - n + 1, Len(t))
<1>1. n \in Nat /\ Len(t) \in Nat /\ Len(d) \in Nat /\ n =< Len(d)
  OBVIOUS
<1>2. SUFFICES ASSUME n =< Len(t)
               PROVE  HasAtEnd(t, d, n) <=> SubSeq(d, 1, n) = SubSeq(t, Len(t) - n + 1, Len(t))
  BY DEF HasAtEnd
<1> DEFINE a == SubSeq(d, 1, n)
           b == SubSeq(t, Len(t) - n + 1, Len(t))
<1>3. a \in Seq(Byte) /\ Len(a) = n /\ \A i \in 1..n : a[i] = d[i]
  BY <1>1, SubSeqProperties
<1>4. b \in Seq(Byte) /\ Len(b) = n /\ \A i \in 1..n : b[i] = t[Len(t) - n + i]
  <2> DEFINE m == Len(t) - n + 1
  <2>1. m \in Int /\ m =< Len(t) /\ Len(t) - m + 1 = n /\ \A i \in m..Len(t) : t[i] \in Byte
    BY <1>1, <1>2
  <2> HIDE DEF m
  <2>2. /\ SubSeq(t, m, Len(t)) \in Seq(Byte)
        /\ Len(SubSeq(t, m, Len(t))) = n
        /\ \A i \in 1..n : SubSeq(t, m, Len(t))[i] = t[m + i - 1]
    BY <1>1, <2>1, SubSeqProperties
  <2>3. \A i \in 1..n : m + i - 1 = Len(t) - n + i
    BY <1>1 DEF m
  <2> QED
    BY <2>2, <2>3 DEF m
<1> HIDE DEF a, b
<1>5. a = b <=> \A i \in 1..n : a[i] = b[i]
  BY <1>3, <1>4, SeqEqual
<1> QED
  BY <1>2, <1>3, <1>4, <1>5 DEF HasAtEnd, a, b

\* A longer text ends in a longer match: bytes that continue the delimiter
\* are put behind those already matched.
LEMMA EndsGrows ==
  ASSUME NEW d \in Seq(Byte), NEW t \in Seq(Byte), NEW u \in Seq(Byte),
         NEW n \in Nat, n + Len(u) =< Len(d), n > 0 => HasAtEnd(t, d, n),
         \A i \in 1..Len(u) : u[i] = d[n + i]
  PROVE  HasAtEnd(t \o u, d, n + Len(u))
<1> DEFINE v == t \o u
<1>1. Len(t) \in Nat /\ Len(u) \in Nat /\ Len(d) \in Nat
  OBVIOUS
<1>2. /\ Len(v) = Len(t) + Len(u)
      /\ \A i \in 1..(Len(t) + Len(u)) :
           v[i] = IF i =< Len(t) THEN t[i] ELSE u[i - Len(t)]
  BY ConcatProperties
<1> HIDE DEF v
<1>3. n =< Len(t) /\ \A i \in 1..n : d[i] = t[Len(t) - n + i]
  BY <1>1 DEF HasAtEnd
<1>4. ASSUME NEW i \in 1..(n + Len(u))
      PROVE  d[i] = v[Len(v) - (n + Len(u)) + i]
  <2>1. i \in Nat /\ Len(v) - (n + Len(u)) + i = Len(t) - n + i
    BY <1>1, <1>2
  <2>2. CASE i =< n
    <3>1. i \in 1..n /\ Len(t) - n + i =< Len(t) /\ Len(t) - n + i \in 1..(Len(t) + Len(u))
      BY <1>1, <1>3, <2>1, <2>2
    <3>2. v[Len(t) - n + i] = t[Len(t) - n + i]
      BY <1>2, <3>1
    <3>3. d[i] = t[Len(t) - n + i]
      BY <1>3, <3>1
    <3> QED
      BY <2>1, <3>2, <3>3
  <2>3. CASE i > n
    <3>1. /\ i - n \in 1..Len(u) /\ n + (i - n) = i
          /\ ~(Len(t) - n + i =< Len(t)) /\ Len(t) - n + i \in 1..(Len(t) + Len(u))
          /\ Len(t) - n + i - Len(t) = i - n
      BY <1>1, <1>3, <2>1, <2>3
    <3>2. u[i - n] = d[i]
      BY <3>1
    <3> DEFINE at == Len(t) - n + i
    <3>3. at \in 1..(Len(t) + Len(u)) /\ ~(at =< Len(t)) /\ at - Len(t) = i - n
      BY <3>1
    <3>4. Len(v) - (n + Len(u)) + i = at
      BY <2>1
    <3> HIDE DEF at
    <3>5. v[at] = u[i - n]
      BY <1>2, <3>3
    <3> QED
      BY <3>2, <3>4, <3>5
  <2> QED
    BY <2>1, <2>2, <2>3
<1> QED
  BY <1>1, <1>2, <1>3, <1>4 DEF HasAtEnd, v

\* What is consumed of a delimiter are its bytes, behind those matched before.
LEMMA ConsumedIsDelimiter ==
  ASSUME TypeOK, HalfMatchIsKnown, position < Len(input), InDelimiter
  PROVE  /\ Amount \in Nat \ {0} /\ Matched \in Nat
         /\ Matched + Amount =< Len(delimiter)
         /\ Matched > 0 => Matched = delimiterPos
         /\ Consumed \in Seq(Byte) /\ Len(Consumed) = Amount
         /\ \A i \in 1..Amount : Consumed[i] = delimiter[Matched + i]
         /\ Consumed = SubSeq(delimiter, Matched + 1, Matched + Amount)
<1>1. /\ position \in Nat /\ Len(input) \in Nat /\ Len(delimiter) \in Nat
      /\ input \in Seq(Byte) /\ delimiter \in Seq(Byte)
      /\ delimiterPos \in Nat /\ delimiterPos =< Len(delimiter)
      /\ delimiterPos > 0 => delimiterPos < Len(delimiter)
  BY DEF TypeOK, HalfMatchIsKnown
<1>2. /\ Ahead \in Seq(Byte) /\ Len(Ahead) \in Nat /\ Len(Ahead) > 0
      /\ Len(Ahead) =< Len(input) - position
  BY <1>1, AheadIsUnread
<1>3. /\ Amount \in Nat \ {0} /\ Amount =< Len(Ahead)
      /\ Amount =< Len(delimiter) - delimiterPos
  BY <1>1, <1>2 DEF Amount, Smaller, InDelimiter, Compound
<1>4. Matched \in Nat /\ Matched =< delimiterPos /\ (Matched > 0 => Matched = delimiterPos)
  BY <1>1 DEF Matched
<1>5. Continues(Matched)
  BY DEF InDelimiter, Matched, Broken
<1>6. /\ SubSeq(delimiter, Matched + 1, Matched + Amount) \in Seq(Byte)
      /\ Len(SubSeq(delimiter, Matched + 1, Matched + Amount)) = Amount
      /\ \A i \in 1..Amount :
           SubSeq(delimiter, Matched + 1, Matched + Amount)[i] = delimiter[Matched + i]
  <2> DEFINE m == Matched + 1
             n == Matched + Amount
  <2>1. /\ m \in Int /\ n \in Int /\ m =< n /\ n - m + 1 = Amount
        /\ \A i \in m..n : delimiter[i] \in Byte
    BY <1>1, <1>3, <1>4
  <2>2. \A i \in 1..Amount : m + i - 1 = Matched + i
    BY <1>3, <1>4
  <2> HIDE DEF m, n
  <2>3. /\ SubSeq(delimiter, m, n) \in Seq(Byte) /\ Len(SubSeq(delimiter, m, n)) = Amount
        /\ \A i \in 1..Amount : SubSeq(delimiter, m, n)[i] = delimiter[m + i - 1]
    BY <2>1, SubSeqProperties
  <2> QED
    BY <2>2, <2>3 DEF m, n
<1>7. Consumed = SubSeq(Ahead, 1, Amount)
  <2> DEFINE from == position + 1
             to   == position + Amount
             last == Smaller(position + Lookahead, Len(input))
  <2>1. Consumed = SubSeq(input, from, to)
    BY DEF Consumed, NextPosition
  <2>2. Ahead = SubSeq(input, from, last) /\ last \in Nat /\ last =< Len(input)
    BY <1>1, CallerAssumption DEF Ahead, Smaller
  <2>3. /\ from \in Nat /\ to \in Nat /\ to =< Len(input) /\ from >= 1 /\ from =< to
        /\ to - from + 1 = Amount
    BY <1>1, <1>2, <1>3
  <2> HIDE DEF from, to, last
  <2>4. \A i \in from..last : input[i] \in Byte
    BY <1>1, <2>2, <2>3
  <2>5. Len(Ahead) = last - from + 1
    BY <1>2, <2>2, <2>3, <2>4, SubSeqProperties
  <2>6. from \in 1..Len(input) /\ last \in 1..Len(input)
    BY <1>1, <1>2, <2>2, <2>3, <2>5
  <2>7. 1 \in 1..(last - from + 1) /\ Amount \in 1..(last - from + 1)
    BY <1>2, <1>3, <2>2, <2>3, <2>5
  <2>8. SubSeq(SubSeq(input, from, last), 1, Amount) = SubSeq(input, from + 1 - 1, from + Amount - 1)
    BY <1>1, <2>6, <2>7, SubSeqOfSubSeq
  <2>9. from + 1 - 1 = from /\ from + Amount - 1 = to
    BY <1>3, <2>3
  <2> QED
    BY <2>1, <2>2, <2>8, <2>9
<1>8. Consumed = SubSeq(delimiter, Matched + 1, Matched + Amount)
  BY <1>5, <1>7 DEF Continues
<1>9. Matched + Amount =< Len(delimiter)
  BY <1>1, <1>3, <1>4
<1> QED
  BY <1>3, <1>4, <1>6, <1>8, <1>9

\* One look at the input: if it leaves the delimiter half matched, the bytes
\* matched are the last ones consumed.
LEMMA IdentifyKeepsMatch ==
  ASSUME Sound, HalfMatchIsText, position < Len(input)
  PROVE  NextDelimiterPos > 0 => HasAtEnd(taken \o Consumed, delimiter, NextDelimiterPos)
<1>1. /\ TypeOK /\ HalfMatchIsKnown
      /\ delimiter \in Seq(Byte) /\ Len(delimiter) \in Nat /\ taken \in Seq(Byte)
      /\ delimiterPos \in Nat /\ delimiterPos =< Len(delimiter)
      /\ delimiterPos > 0 => characterClass = "PARTIAL_FS" /\ delimiterPos < Len(delimiter)
  BY DEF Sound, TypeOK, ClientTyped, HalfMatchIsKnown
<1>2. delimiterPos > 0 => HasAtEnd(taken, delimiter, delimiterPos)
  <2> SUFFICES ASSUME delimiterPos > 0 PROVE HasAtEnd(taken, delimiter, delimiterPos)
    OBVIOUS
  <2>1. delimiterPos \in 1..Len(delimiter)
    BY <1>1
  <2> QED
    BY <1>1, <2>1, EndsAsSequences DEF HalfMatchIsText
<1>3. CASE ~InDelimiter
  <2>1. delimiterPos > 0 => Broken
    BY <1>1, <1>3 DEF InDelimiter, Broken, Compound
  <2> QED
    BY <1>1, <1>3, <2>1 DEF NextDelimiterPos, Matched
<1>4. CASE InDelimiter
  <2>1. /\ Amount \in Nat \ {0} /\ Matched \in Nat
        /\ Matched + Amount =< Len(delimiter)
        /\ Matched > 0 => Matched = delimiterPos
        /\ Consumed \in Seq(Byte) /\ Len(Consumed) = Amount
        /\ \A i \in 1..Amount : Consumed[i] = delimiter[Matched + i]
    BY <1>1, <1>4, ConsumedIsDelimiter
  <2>2. NextDelimiterPos \in {0, Matched + Amount}
    BY <1>4 DEF NextDelimiterPos
  <2>3. HasAtEnd(taken \o Consumed, delimiter, Matched + Len(Consumed))
    <3>1. \A i \in 1..Len(Consumed) : Consumed[i] = delimiter[Matched + i]
      BY <2>1
    <3>2. Matched > 0 => HasAtEnd(taken, delimiter, Matched)
      BY <1>2, <2>1
    <3>3. Matched + Len(Consumed) =< Len(delimiter)
      BY <2>1
    <3> QED
      BY <1>1, <2>1, <3>1, <3>2, <3>3, EndsGrows
  <2> QED
    BY <2>1, <2>2, <2>3
<1> QED
  BY <1>3, <1>4

\* Bytes are matched only by consuming them, and a match is given up whole.
LEMMA HalfMatchIsTextStep ==
  ASSUME Sound, HalfMatchIsText, [ClientNext]_clientVars
  PROVE  HalfMatchIsText'
<1>0. Sound'
  BY ClientSoundStep
<1>1. ASSUME position < Len(input), IdentifyCharacter, taken' = taken \o Consumed
      PROVE  HalfMatchIsText'
  <2>1. delimiterPos' = NextDelimiterPos /\ delimiter' = delimiter
    BY <1>1 DEF IdentifyCharacter, config
  <2>2. delimiterPos' > 0 => HasAtEnd(taken', delimiter', delimiterPos')
    BY <1>1, <2>1, IdentifyKeepsMatch
  <2>3. /\ delimiter' \in Seq(Byte) /\ taken' \in Seq(Byte)
        /\ delimiterPos' \in 0..Len(delimiter')
    BY <1>0 DEF Sound, TypeOK, ClientTyped
  <2>4. delimiterPos' > 0 => delimiterPos' \in 1..Len(delimiter')
    BY <2>3
  <2> QED
    BY <2>2, <2>3, <2>4, EndsAsSequences DEF HalfMatchIsText
<1>2. ASSUME NEW s \in BOOLEAN, Accept(s), taken' = taken \o Consumed
      PROVE  HalfMatchIsText'
  BY <1>1, <1>2, AcceptAdvances DEF Advance, IdentifyCharacter, InLoop
<1>3. CASE RefuseByte
  BY <1>1, <1>3 DEF RefuseByte, StrictError, IdentifyCharacter, InLoop
<1>4. ASSUME UNCHANGED <<delimiter, delimiterPos, taken>> PROVE HalfMatchIsText'
  BY <1>4 DEF HalfMatchIsText
<1>5. CASE EndLoop
  BY <1>4, <1>5 DEF EndLoop, LeaveLoop, config, history
<1>6. CASE FeedChunk
  BY <1>4, <1>6 DEF FeedChunk, Parse, config
<1>7. CASE ChooseFormat
  <2>1. taken' = taken /\ (delimiterPos' = 0 \/ UNCHANGED <<delimiter, delimiterPos>>)
    BY <1>7
    DEF ChooseFormat, Configure, SetDelimiter, SetQuote, ApplyFormat, text, history
  <2>2. CASE delimiterPos' = 0
    <3>1. ~(delimiterPos' > 0)
      BY <2>2
    <3> QED
      BY <3>1, Zenon DEF HalfMatchIsText
  <2> QED
    BY <1>4, <2>1, <2>2
<1>8. CASE EndText
  BY <1>4, <1>8
  DEF EndText, Finish, FinishStopped, FinishFailed, FinishRow, FinishNothing,
      FinishReturns, config
<1>9. CASE StopParser \/ ClearState
  BY <1>4, <1>9 DEF StopParser, ClearState, Stop, ResetState, config, history
<1>10. CASE UNCHANGED clientVars
  BY <1>4, <1>10 DEF clientVars, vars, config, history
<1> QED
  BY <1>2, <1>3, <1>5, <1>6, <1>7, <1>8, <1>9, <1>10 DEF ClientNext, ClientLoop, ReadByte

\* The bytes of a half matched delimiter are the last bytes consumed, across
\* chunks, errors, stops and resets, with every delimiter and lookahead.
THEOREM MatchedBytesWereRead == ClientSpec => []HalfMatchIsText
<1>1. ClientInit => HalfMatchIsText
  BY DEF ClientInit, Init, NewParser, HalfMatchIsText
<1> QED
  BY <1>1, HalfMatchIsTextStep, ClientSound, PTL DEF ClientSpec
-----------------------------------------------------------------------------
(* The fields make up the text. *)

\* h[n] is the text of the first n of the fields.
Joins(h, fields, sep) ==
  h = [n \in 1..Len(fields) |->
         IF n = 1 THEN fields[1] ELSE h[n - 1] \o sep \o fields[n]]

\* The fields are the first ones of a longer row.
Begins(longer, fields) ==
  Len(fields) =< Len(longer) /\ \A i \in 1..Len(fields) : longer[i] = fields[i]

\* The recursion of Join has a solution, by induction over the fields.
LEMMA JoinsExist ==
  ASSUME NEW sep, NEW fields \in Seq(Seq(Byte))
  PROVE  \E h : Joins(h, fields, sep)
<1> DEFINE P(h, k) ==
             h = [n \in 1..k |->
                    IF n = 1 THEN fields[1] ELSE h[n - 1] \o sep \o fields[n]]
           T == {k \in Nat : \E h : P(h, k)}
<1>1. 0 \in T
  <2>1. P(<<>>, 0)
    OBVIOUS
  <2> QED
    BY <2>1
<1>2. ASSUME NEW k \in T PROVE k + 1 \in T
  <2>1. PICK h : P(h, k)
    BY <1>2
  <2> DEFINE last == IF k + 1 = 1 THEN fields[1] ELSE h[k] \o sep \o fields[k + 1]
             g    == [n \in 1..(k + 1) |-> IF n = k + 1 THEN last ELSE h[n]]
  <2>2. \A n \in 1..k : g[n] = h[n]
    OBVIOUS
  <2>3. \A n \in 1..k : h[n] = IF n = 1 THEN fields[1] ELSE h[n - 1] \o sep \o fields[n]
    BY <2>1
  <2>4. ASSUME NEW n \in 1..(k + 1)
        PROVE  g[n] = IF n = 1 THEN fields[1] ELSE g[n - 1] \o sep \o fields[n]
    <3>1. CASE n = k + 1
      BY <2>2, <3>1
    <3>2. CASE n # k + 1
      <4>1. n \in 1..k /\ (n # 1 => n - 1 \in 1..k)
        BY <3>2
      <4> QED
        BY <2>2, <2>3, <4>1
    <3> QED
      BY <3>1, <3>2
  <2>5. P(g, k + 1)
    BY <2>4
  <2> HIDE DEF P
  <2> QED
    BY <2>5
<1>3. T = Nat
  <2> HIDE DEF T
  <2> QED
    BY <1>1, <1>2, InductionOnNat DEF T
<1>4. \E h : P(h, Len(fields))
  <2> HIDE DEF P
  <2>1. Len(fields) \in T
    <3> HIDE DEF T
    <3> QED
      BY <1>3
  <2> QED
    BY <2>1
<1> QED
  BY <1>4 DEF Joins

\* Join is its last value.
LEMMA JoinIs ==
  ASSUME NEW sep, NEW fields \in Seq(Seq(Byte))
  PROVE  \E h : Joins(h, fields, sep) /\ Join(fields, sep) = h[Len(fields)]
<1> DEFINE h == CHOOSE g : Joins(g, fields, sep)
<1>1. Joins(h, fields, sep)
  BY JoinsExist
<1>2. Join(fields, sep) = h[Len(fields)]
  BY Zenon DEF Join, Joins
<1> QED
  BY <1>1, <1>2

\* The text of some fields does not depend on those behind them.
LEMMA JoinsAgree ==
  ASSUME NEW sep \in Seq(Byte),
         NEW fields \in Seq(Seq(Byte)), NEW longer \in Seq(Seq(Byte)), NEW h, NEW g,
         Joins(h, fields, sep), Joins(g, longer, sep), Begins(longer, fields)
  PROVE  \A n \in 1..Len(fields) : h[n] \in Seq(Byte) /\ g[n] = h[n]
<1> USE DEF Begins
<1> DEFINE T == {k \in Nat : \A n \in 1..Len(fields) :
                               n =< k => h[n] \in Seq(Byte) /\ g[n] = h[n]}
<1>1. 0 \in T
  OBVIOUS
<1>2. ASSUME NEW k \in T PROVE k + 1 \in T
  <2>1. ASSUME k + 1 \in 1..Len(fields) PROVE h[k + 1] \in Seq(Byte) /\ g[k + 1] = h[k + 1]
    <3>1. /\ k + 1 \in 1..Len(longer) /\ k \in Nat /\ (k + 1) - 1 = k
          /\ k + 1 # 1 => k \in 1..Len(fields)
      BY <2>1
    <3>2. h[k + 1] = IF k + 1 = 1 THEN fields[1] ELSE h[k] \o sep \o fields[k + 1]
      <4>1. \A n \in 1..Len(fields) :
              h[n] = IF n = 1 THEN fields[1] ELSE h[n - 1] \o sep \o fields[n]
        BY DEF Joins
      <4> QED
        BY <2>1, <3>1, <4>1
    <3>3. g[k + 1] = IF k + 1 = 1 THEN longer[1] ELSE g[k] \o sep \o longer[k + 1]
      BY <3>1, ZenonT(60) DEF Joins
    <3>4. k + 1 # 1 => g[k] = h[k] /\ h[k] \in Seq(Byte)
      BY <1>2, <3>1
    <3>5. longer[k + 1] = fields[k + 1] /\ fields[k + 1] \in Seq(Byte)
      BY <2>1
    <3>6. CASE k + 1 = 1
      <4>1. h[k + 1] = fields[1] /\ g[k + 1] = longer[1]
        BY <3>2, <3>3, <3>6, Zenon
      <4>2. longer[1] = fields[1] /\ fields[1] \in Seq(Byte)
        BY <2>1, <3>6
      <4> QED
        BY <4>1, <4>2
    <3>7. CASE k + 1 # 1
      <4>1. h[k] \o sep \o fields[k + 1] \in Seq(Byte)
        BY <3>4, <3>5, <3>7, ConcatProperties
      <4>2. h[k + 1] = h[k] \o sep \o fields[k + 1]
        BY <3>2, <3>7, Zenon
      <4>3. g[k + 1] = h[k] \o sep \o fields[k + 1]
        BY <3>3, <3>4, <3>5, <3>7, Zenon
      <4> QED
        BY <4>1, <4>2, <4>3
    <3> QED
      BY <3>6, <3>7
  <2>2. ASSUME NEW n \in 1..Len(fields), n =< k + 1
        PROVE  h[n] \in Seq(Byte) /\ g[n] = h[n]
    <3>1. CASE n = k + 1
      BY <2>1, <3>1
    <3>2. CASE n =< k
      BY <1>2, <3>2
    <3> QED
      BY <2>2, <3>1, <3>2
  <2> QED
    BY <2>2
<1>3. T = Nat
  <2> HIDE DEF T
  <2> QED
    BY <1>1, <1>2, InductionOnNat DEF T
<1>4. ASSUME NEW n \in 1..Len(fields) PROVE h[n] \in Seq(Byte) /\ g[n] = h[n]
  <2>1. n \in T /\ n =< n
    <3> HIDE DEF T
    <3> QED
      BY <1>3
  <2> QED
    BY <2>1
<1> QED
  BY <1>4

\* The text of one field is the field.
LEMMA JoinOne ==
  ASSUME NEW sep, NEW f \in Seq(Byte)
  PROVE  Join(<<f>>, sep) = f
<1>1. <<f>> \in Seq(Seq(Byte)) /\ Len(<<f>>) = 1
  OBVIOUS
<1>2. PICK h : Joins(h, <<f>>, sep) /\ Join(<<f>>, sep) = h[1]
  BY <1>1, JoinIs
<1> QED
  BY <1>1, <1>2 DEF Joins

\* One more field adds a separator and its bytes to the text.
LEMMA JoinMore ==
  ASSUME NEW sep \in Seq(Byte),
         NEW fields \in Seq(Seq(Byte)), NEW f \in Seq(Byte), fields # <<>>
  PROVE  /\ Join(fields, sep) \in Seq(Byte)
         /\ Join(Append(fields, f), sep) = Join(fields, sep) \o sep \o f
<1> DEFINE longer == Append(fields, f)
           n == Len(fields)
<1>1. /\ longer \in Seq(Seq(Byte)) /\ n \in Nat /\ n >= 1
      /\ Len(longer) = n + 1 /\ longer[n + 1] = f
      /\ \A i \in 1..n : longer[i] = fields[i]
  BY AppendProperties, EmptySeq
<1> HIDE DEF longer
<1>2. PICK h : Joins(h, fields, sep) /\ Join(fields, sep) = h[n]
  BY JoinIs
<1>3. PICK g : Joins(g, longer, sep) /\ Join(longer, sep) = g[n + 1]
  BY <1>1, JoinIs
<1>4. h[n] \in Seq(Byte) /\ g[n] = h[n]
  <2>1. n \in 1..Len(fields) /\ Begins(longer, fields)
    BY <1>1 DEF Begins
  <2> HIDE DEF n
  <2>2. \A i \in 1..Len(fields) : h[i] \in Seq(Byte) /\ g[i] = h[i]
    BY <1>1, <1>2, <1>3, <2>1, JoinsAgree
  <2> QED
    BY <2>1, <2>2
<1>5. g[n + 1] = g[n] \o sep \o f
  <2>1. n + 1 \in 1..Len(longer) /\ n + 1 # 1 /\ (n + 1) - 1 = n
    BY <1>1
  <2> QED
    BY <1>1, <1>3, <2>1 DEF Joins
<1> QED
  BY <1>2, <1>3, <1>4, <1>5 DEF longer

\* More bytes of the last field are more bytes of the text.
LEMMA JoinGrows ==
  ASSUME NEW sep \in Seq(Byte),
         NEW fields \in Seq(Seq(Byte)), NEW f \in Seq(Byte), NEW x \in Seq(Byte)
  PROVE  /\ Join(Append(fields, f), sep) \in Seq(Byte)
         /\ Join(Append(fields, f \o x), sep) = Join(Append(fields, f), sep) \o x
<1>1. f \o x \in Seq(Byte)
  BY ConcatProperties
<1>2. CASE fields = <<>>
  <2>1. Append(fields, f) = <<f>> /\ Append(fields, f \o x) = <<f \o x>>
    BY <1>2
  <2> QED
    BY <1>1, <2>1, JoinOne
<1>3. CASE fields # <<>>
  <2>1. /\ Join(fields, sep) \in Seq(Byte)
        /\ Join(Append(fields, f), sep) = Join(fields, sep) \o sep \o f
        /\ Join(Append(fields, f \o x), sep) = Join(fields, sep) \o sep \o (f \o x)
    BY <1>1, <1>3, JoinMore
  <2> DEFINE before == Join(fields, sep) \o sep
  <2>2. before \in Seq(Byte)
    BY <2>1, ConcatProperties
  <2> HIDE DEF before
  <2>3. before \o f \in Seq(Byte)
    BY <2>2, ConcatProperties
  <2>4. before \o (f \o x) = (before \o f) \o x
    BY <2>2, TextAssociative
  <2> QED
    BY <2>1, <2>3, <2>4 DEF before
<1> QED
  BY <1>2, <1>3

\* What the parser has of the current field, the bytes of a half matched
\* delimiter included.
Current == field \o SubSeq(delimiter, 1, delimiterPos)

\* Before a format is chosen nothing was read.
Untouched ==
  spent.formats = 0 /\ spent.finishes = 0 /\ spent.resets = 0 =>
    /\ call = "idle" /\ state = "RECORD_NOT_BEGUN"
    /\ taken = <<>> /\ row = <<>> /\ field = <<>> /\ trailingSpace = <<>>
    /\ delimiterPos = 0

\* A plain text is read without quotes and without space to hold back, and
\* what was read of it is the reported fields and the current one.
PlainReading ==
  PlainText =>
    /\ state \in NotBegun \cup {"FIELD"}
    /\ trailingSpace = <<>>
    /\ taken = Join(Append(row, Current), Separator)

\* A delimiter that breaks off gives its bytes back to the field, one that
\* goes on keeps them: the current field has the same bytes either way.
LEMMA CurrentBeforeAdvance ==
  ASSUME TypeOK, HalfMatchIsKnown, position < Len(input)
  PROVE  /\ Text \in Seq(Byte) /\ SubSeq(delimiter, 1, Matched) \in Seq(Byte)
         /\ Current \in Seq(Byte)
         /\ Text \o SubSeq(delimiter, 1, Matched) = Current
         /\ ~InDelimiter => Matched = 0 /\ Text = Current
<1>1. /\ field \in Seq(Byte) /\ delimiter \in Seq(Byte) /\ Len(delimiter) \in Nat
      /\ delimiterPos \in Nat /\ delimiterPos =< Len(delimiter)
      /\ Text \in Seq(Byte)
  BY IdentifiedIsTyped DEF TypeOK
<1>2. SubSeq(delimiter, 1, delimiterPos) \in Seq(Byte)
  BY <1>1, SubSeqProperties
<1>3. SubSeq(delimiter, 1, 0) = <<>>
  BY SubSeqEmpty
<1>4. /\ field \o <<>> = field /\ Current \in Seq(Byte) /\ <<>> \in Seq(Byte)
      /\ Text \o <<>> = Text /\ Current \o <<>> = Current
  BY <1>1, <1>2, ConcatEmptySeq, ConcatProperties, EmptySeq DEF Current
<1>5. CASE Broken
  BY <1>1, <1>2, <1>3, <1>4, <1>5 DEF Matched, Text, Spill, Current
<1>6. CASE ~Broken
  <2>1. Matched = delimiterPos /\ Text = field
    BY <1>4, <1>6 DEF Matched, Text, Spill
  <2>2. ASSUME ~InDelimiter PROVE delimiterPos = 0
    BY <1>1, <1>6, <2>2 DEF InDelimiter, Broken, Compound, HalfMatchIsKnown
  <2> QED
    BY <1>1, <1>2, <1>3, <1>4, <2>1, <2>2 DEF Current
<1> QED
  BY <1>5, <1>6

\* What one iteration consumes goes behind the current field, unless it
\* completes a delimiter; then it completes the separator.
LEMMA ConsumedCompletes ==
  ASSUME TypeOK, HalfMatchIsKnown, position < Len(input)
  PROVE  /\ Consumed \in Seq(Byte) /\ Separator \in Seq(Byte)
         /\ Class = "PARTIAL_FS" =>
              Text \o SubSeq(delimiter, 1, NextDelimiterPos) = Current \o Consumed
         /\ Class = "FS" => Text \o Separator = Current \o Consumed
         /\ Class = "FS" => NextDelimiterPos = 0
         /\ Class \notin {"FS", "PARTIAL_FS"} =>
              /\ NextDelimiterPos = 0 /\ Text = Current
              /\ Consumed = <<Byte1>>
<1>1. /\ delimiter \in Seq(Byte) /\ Len(delimiter) \in Nat
      /\ input \in Seq(Byte) /\ position \in Nat /\ Len(input) \in Nat
      /\ delimiterPos \in Nat /\ Byte1 \in Byte
  BY IdentifiedIsTyped DEF TypeOK
<1>2. Separator \in Seq(Byte)
  BY <1>1, ByteAssumption DEF Separator
<1>3. /\ Text \in Seq(Byte) /\ SubSeq(delimiter, 1, Matched) \in Seq(Byte)
      /\ Current \in Seq(Byte)
      /\ Text \o SubSeq(delimiter, 1, Matched) = Current
      /\ ~InDelimiter => Matched = 0 /\ Text = Current
  BY CurrentBeforeAdvance
<1>4. CASE InDelimiter
  <2>1. /\ Amount \in Nat \ {0} /\ Matched \in Nat
        /\ Matched + Amount =< Len(delimiter)
        /\ Consumed \in Seq(Byte)
        /\ Consumed = SubSeq(delimiter, Matched + 1, Matched + Amount)
    BY <1>4, ConsumedIsDelimiter
  <2>2. SubSeq(delimiter, 1, Matched) \o Consumed = SubSeq(delimiter, 1, Matched + Amount)
    <3>1. /\ 1 \in 1..(Len(delimiter) + 1) /\ Matched \in (1 - 1)..Len(delimiter)
          /\ Matched + Amount \in Matched..Len(delimiter)
      BY <1>1, <2>1
    <3>2. SubSeq(delimiter, 1, Matched) \o SubSeq(delimiter, Matched + 1, Matched + Amount)
            = SubSeq(delimiter, 1, Matched + Amount)
      BY <1>1, <3>1, ConcatAdjacentSubSeq
    <3> QED
      BY <2>1, <3>2
  <2>3. Text \o SubSeq(delimiter, 1, Matched + Amount) = Current \o Consumed
    <3>1. Text \o (SubSeq(delimiter, 1, Matched) \o Consumed)
            = (Text \o SubSeq(delimiter, 1, Matched)) \o Consumed
      BY <1>3, <2>1, TextAssociative, ZenonT(60)
    <3> QED
      BY <1>3, <2>2, <3>1, Zenon
  <2>4. CASE Matched + Amount = Len(delimiter)
    <3>1. Class = "FS" /\ NextDelimiterPos = 0
      BY <1>4, <2>4 DEF Class, NextDelimiterPos
    <3>2. SubSeq(delimiter, 1, Matched + Amount) = delimiter /\ Separator = delimiter
      BY <1>1, <1>4, <2>4, SubSeqFull DEF Separator, InDelimiter, Compound
    <3> QED
      BY <1>2, <2>1, <2>3, <3>1, <3>2
  <2>5. CASE Matched + Amount # Len(delimiter)
    <3>1. Class = "PARTIAL_FS" /\ NextDelimiterPos = Matched + Amount
      BY <1>4, <2>5 DEF Class, NextDelimiterPos
    <3> QED
      BY <1>2, <2>1, <2>3, <3>1
  <2> QED
    BY <2>4, <2>5
<1>5. CASE ~InDelimiter
  <2>1. Consumed = <<Byte1>> /\ Consumed \in Seq(Byte)
    <3>1. Consumed = SubSeq(input, position + 1, position + 1)
      BY <1>5 DEF Consumed, NextPosition
    <3>2. SubSeq(input, position + 1, position + 1) = <<Byte1>>
      <4> DEFINE m == position + 1
                 t == SubSeq(input, m, m)
      <4>1. m \in 1..Len(input) /\ input[m] = Byte1
        BY <1>1 DEF Byte1
      <4> HIDE DEF m
      <4>2. t \in Seq(Byte) /\ Len(t) = 1 /\ t[1] = Byte1
        BY <1>1, <4>1, SubSeqProperties
      <4> HIDE DEF t
      <4>3. t = <<Byte1>>
        BY <4>2
      <4> QED
        BY <4>3 DEF t, m
    <3> QED
      BY <1>1, <3>1, <3>2
  <2>2. NextDelimiterPos = 0 /\ Text = Current
    BY <1>3, <1>5 DEF NextDelimiterPos
  <2>3. Class # "PARTIAL_FS"
    BY <1>5 DEF Class, PlainClass
  <2>4. Class = "FS" => Separator = <<Byte1>>
    <3> SUFFICES ASSUME Class = "FS" PROVE Separator = <<Byte1>>
      OBVIOUS
    <3>1. ~Compound /\ Byte1 = SimpleFS
      BY <1>5 DEF Class, PlainClass
    <3>2. Len(delimiter) = 0 \/ Len(delimiter) = 1
      <4> DEFINE n == Len(delimiter)
      <4>1. ~(n > 1) /\ n \in Nat
        BY <1>1, <3>1 DEF Compound
      <4> HIDE DEF n
      <4>2. n = 0 \/ n = 1
        BY <4>1
      <4> QED
        BY <4>2 DEF n
    <3>3. Len(delimiter) = 1 => delimiter = <<delimiter[1]>>
      BY <1>1
    <3>4. Len(delimiter) = 0 => delimiter = <<>>
      BY <1>1
    <3> QED
      BY <3>1, <3>2, <3>3, <3>4 DEF Separator, SimpleFS
  <2> QED
    BY <1>2, <2>1, <2>2, <2>3, <2>4
<1> QED
  BY <1>4, <1>5

\* Which part of its plan each action of the caller spends.
LEMMA PlanSpent ==
  ASSUME ClientTyped
  PROVE  /\ ChooseFormat => spent'.formats = spent.formats + 1
         /\ EndText => spent'.finishes = spent.finishes + 1
         /\ ClearState => spent'.resets = spent.resets + 1
         /\ FeedChunk \/ ClientLoop \/ StopParser =>
              /\ spent'.formats = spent.formats
              /\ spent'.finishes = spent.finishes
              /\ spent'.resets = spent.resets
<1> USE DEF ClientTyped, Spent
<1>1. ChooseFormat => spent'.formats = spent.formats + 1
  <2> DEFINE more == spent.formats + 1
  <2>1. ChooseFormat => spent' = [spent EXCEPT !.formats = more]
    BY DEF ChooseFormat
  <2> HIDE DEF more
  <2>2. ChooseFormat => spent'.formats = more
    BY <2>1, Zenon
  <2> QED
    BY <2>2 DEF more
<1>2. EndText => spent'.finishes = spent.finishes + 1
  <2> DEFINE more  == spent.finishes + 1
             total == spent.stops + IF stop' /\ ~stop THEN 1 ELSE 0
  <2>1. EndText => spent' = [spent EXCEPT !.finishes = more, !.stops = total]
    BY DEF EndText
  <2> HIDE DEF more, total
  <2>2. EndText => spent'.finishes = more
    BY <2>1, Zenon
  <2> QED
    BY <2>2 DEF more
<1>3. ClearState => spent'.resets = spent.resets + 1
  <2> DEFINE more == spent.resets + 1
  <2>1. ClearState => spent' = [spent EXCEPT !.resets = more]
    BY DEF ClearState
  <2> HIDE DEF more
  <2>2. ClearState => spent'.resets = more
    BY <2>1, Zenon
  <2> QED
    BY <2>2 DEF more
<1>4. ASSUME PayStop
      PROVE  /\ spent'.formats = spent.formats
             /\ spent'.finishes = spent.finishes
             /\ spent'.resets = spent.resets
  <2> DEFINE more == spent.stops + 1
  <2>1. spent' = [spent EXCEPT !.stops = more] \/ spent' = spent
    BY <1>4 DEF PayStop
  <2> HIDE DEF more
  <2>2. spent'.formats = spent.formats
    BY <2>1, Zenon
  <2>3. spent'.finishes = spent.finishes
    BY <2>1, Zenon
  <2>4. spent'.resets = spent.resets
    BY <2>1, Zenon
  <2> QED
    BY <2>2, <2>3, <2>4
<1>5. FeedChunk \/ RefuseByte \/ EndLoop => spent' = spent
  BY DEF FeedChunk, RefuseByte, EndLoop
<1>6. ReadByte \/ StopParser => PayStop
  BY DEF ReadByte, StopParser
<1> QED
  BY <1>1, <1>2, <1>3, <1>4, <1>5, <1>6 DEF ClientLoop

\* Nothing is read before a format is chosen.
LEMMA UntouchedStep ==
  ASSUME Sound, Untouched, [ClientNext]_clientVars
  PROVE  Untouched'
<1>1. CASE ClientNext
  <2> SUFFICES ASSUME spent'.formats = 0, spent'.finishes = 0, spent'.resets = 0
               PROVE  /\ call' = "idle" /\ state' = "RECORD_NOT_BEGUN"
                      /\ taken' = <<>> /\ row' = <<>> /\ field' = <<>>
                      /\ trailingSpace' = <<>> /\ delimiterPos' = 0
    BY DEF Untouched
  <2>1. ClientTyped /\ spent.formats \in Nat /\ spent.finishes \in Nat /\ spent.resets \in Nat
    BY DEF Sound, ClientTyped, Spent
  <2>2. ~ChooseFormat /\ ~EndText /\ ~ClearState
    BY <2>1, PlanSpent
  <2>3. ~FeedChunk
    <3> SUFFICES ASSUME FeedChunk PROVE FALSE
      OBVIOUS
    <3>1. spent'.formats = spent.formats /\ spent.formats > 0
      BY <2>1, PlanSpent DEF FeedChunk
    <3> QED
      BY <2>1, <3>1
  <2>4. ClientLoop \/ StopParser
    BY <1>1, <2>2, <2>3 DEF ClientNext
  <2>5. spent.formats = 0 /\ spent.finishes = 0 /\ spent.resets = 0
    BY <2>1, <2>4, PlanSpent
  <2>6. /\ call = "idle" /\ state = "RECORD_NOT_BEGUN"
        /\ taken = <<>> /\ row = <<>> /\ field = <<>> /\ trailingSpace = <<>>
        /\ delimiterPos = 0
    BY <2>5 DEF Untouched
  <2>7. ~ClientLoop
    BY <2>6 DEF ClientLoop, ReadByte, RefuseByte, EndLoop, Accept, StrictError,
                IdentifyCharacter, LeaveLoop, InLoop
  <2> QED
    BY <2>4, <2>6, <2>7 DEF StopParser, Stop, text, history
<1>2. CASE UNCHANGED clientVars
  BY <1>2 DEF Untouched, clientVars, vars, text, history
<1> QED
  BY <1>1, <1>2

\* In a plain text only field bytes and delimiters are read.
LEMMA PlainByte ==
  ASSUME TypeOK, HalfMatchIsKnown, taken \in Seq(Byte), position < Len(input),
         NEW after, after = taken \o Consumed,
         \A i \in 1..Len(after) : after[i] \notin WhiteSpace \cup Eol \cup {quote}
  PROVE  /\ Class \in {"FS", "PARTIAL_FS", "CHAR"}
         /\ \A i \in 1..Len(taken) : taken[i] \notin WhiteSpace \cup Eol \cup {quote}
<1>1. Consumed \in Seq(Byte)
  BY ConsumedCompletes
<1>2. /\ Len(after) = Len(taken) + Len(Consumed)
      /\ Len(taken) \in Nat /\ Len(Consumed) \in Nat
      /\ \A i \in 1..Len(taken) : after[i] = taken[i]
      /\ \A i \in 1..Len(Consumed) : after[Len(taken) + i] = Consumed[i]
  <2>1. /\ Len(after) = Len(taken) + Len(Consumed)
        /\ Len(taken) \in Nat /\ Len(Consumed) \in Nat
        /\ \A i \in 1..(Len(taken) + Len(Consumed)) :
             after[i] = IF i =< Len(taken) THEN taken[i] ELSE Consumed[i - Len(taken)]
    BY <1>1, ConcatProperties, LenProperties
  <2>2. \A i \in 1..Len(taken) : after[i] = taken[i]
    BY <2>1
  <2>3. ASSUME NEW i \in 1..Len(Consumed) PROVE after[Len(taken) + i] = Consumed[i]
    <3>1. /\ Len(taken) + i \in 1..(Len(taken) + Len(Consumed))
          /\ ~(Len(taken) + i =< Len(taken)) /\ Len(taken) + i - Len(taken) = i
      BY <2>1
    <3> QED
      BY <2>1, <3>1
  <2> QED
    BY <2>1, <2>2, <2>3
<1>3. \A i \in 1..Len(taken) : i \in 1..Len(after)
  BY <1>2
<1>4. CASE InDelimiter
  BY <1>2, <1>3, <1>4 DEF Class
<1>5. CASE ~InDelimiter
  <2>1. Class # "PARTIAL_FS"
    BY <1>5 DEF Class, PlainClass
  <2>2. CASE Class = "FS"
    BY <1>2, <1>3, <2>2
  <2>3. CASE Class # "FS"
    <3>1. Consumed = <<Byte1>>
      BY <2>1, <2>3, ConsumedCompletes
    <3>2. Len(Consumed) = 1 /\ Consumed[1] = Byte1
      BY <3>1
    <3>3. Byte1 \notin WhiteSpace \cup Eol \cup {quote}
      <4>1. Len(taken) + 1 \in 1..Len(after) /\ after[Len(taken) + 1] = Byte1
        BY <1>2, <3>2
      <4> QED
        BY <4>1
    <3>4. Class = "CHAR"
      BY <1>5, <2>3, <3>3 DEF Class, PlainClass
    <3> QED
      BY <1>2, <1>3, <3>4
  <2> QED
    BY <2>2, <2>3
<1> QED
  BY <1>4, <1>5

\* What is read of a plain text goes to the current field or ends it.
LEMMA PlainReadStep ==
  ASSUME Sound, PlainReading, ReadByte, PlainText',
         spent.formats = 1, spent.finishes = 0, spent.resets = 0
  PROVE  /\ state' \in NotBegun \cup {"FIELD"}
         /\ trailingSpace' = <<>>
         /\ taken' = Join(Append(row', Current'), Separator')
<1>0. TypeOK /\ HalfMatchIsKnown /\ taken \in Seq(Byte)
  BY DEF Sound, ClientTyped
<1>1. PICK s \in BOOLEAN : Accept(s)
  BY DEF ReadByte
<1>2. /\ Advance /\ position < Len(input)
      /\ delimiterPos' = NextDelimiterPos
      /\ delimiter' = delimiter /\ quote' = quote /\ Separator' = Separator
      /\ taken' = taken \o Consumed
  BY <1>1, AcceptAdvances DEF Advance, IdentifyCharacter, InLoop, config, ReadByte, Separator
<1>3. \A i \in 1..Len(taken') : taken'[i] \notin WhiteSpace \cup Eol \cup {quote}
  BY <1>2 DEF PlainText
<1>4. /\ Class \in {"FS", "PARTIAL_FS", "CHAR"}
      /\ \A i \in 1..Len(taken) : taken[i] \notin WhiteSpace \cup Eol \cup {quote}
  BY <1>0, <1>2, <1>3, PlainByte
<1>5. /\ state \in NotBegun \cup {"FIELD"}
      /\ trailingSpace = <<>>
      /\ taken = Join(Append(row, Current), Separator)
  BY <1>4 DEF PlainText, PlainReading
<1>6. /\ Consumed \in Seq(Byte) /\ Separator \in Seq(Byte)
      /\ Class = "PARTIAL_FS" =>
           Text \o SubSeq(delimiter, 1, NextDelimiterPos) = Current \o Consumed
      /\ Class = "FS" => Text \o Separator = Current \o Consumed
      /\ Class = "FS" => NextDelimiterPos = 0
      /\ Class = "CHAR" => /\ NextDelimiterPos = 0 /\ Text = Current
                           /\ Consumed = <<Byte1>>
  BY <1>0, <1>2, ConsumedCompletes
<1>7. /\ Text \in Seq(Byte) /\ Current \in Seq(Byte) /\ row \in Seq(Seq(Byte))
      /\ Byte1 \in Byte
  BY <1>0, <1>2, CurrentBeforeAdvance, IdentifiedIsTyped DEF TypeOK
<1>8. /\ Join(Append(row, Current), Separator) \in Seq(Byte)
      /\ Join(Append(row, Current \o Consumed), Separator)
           = Join(Append(row, Current), Separator) \o Consumed
  BY <1>6, <1>7, JoinGrows
<1>9. SubSeq(delimiter, 1, 0) = <<>>
  BY SubSeqEmpty
<1>10. CASE PassOver
  <2>1. Class = "PARTIAL_FS"
    BY <1>4, <1>10 DEF PassOver
  <2>2. field' = Text /\ row' = row /\ state' = state /\ trailingSpace' = trailingSpace
    BY <1>10 DEF PassOver, Quiet
  <2>3. Current' = Current \o Consumed
    BY <1>2, <1>6, <2>1, <2>2 DEF Current
  <2> QED
    BY <1>2, <1>5, <1>8, <2>2, <2>3
<1>11. CASE FieldByte
  <2>1. Class = "CHAR"
    BY <1>4, <1>11 DEF FieldByte
  <2>2. /\ field' = Append(Text \o <<>>, Byte1) /\ row' = row
        /\ state' = "FIELD" /\ trailingSpace' = <<>>
    BY <1>5, <1>11 DEF FieldByte, Quiet, Keep
  <2>3. field' \o <<>> = Current \o Consumed
    <3>1. Text \o <<>> = Text /\ Append(Text, Byte1) = Text \o <<Byte1>>
      BY <1>7, ConcatEmptySeq, AppendIsConcat
    <3>2. (Current \o Consumed) \o <<>> = Current \o Consumed
      BY <1>6, <1>7, ConcatEmptySeq, ConcatProperties
    <3> QED
      BY <1>6, <2>1, <2>2, <3>1, <3>2
  <2>4. Current' = Current \o Consumed
    BY <1>2, <1>6, <1>9, <2>1, <2>3 DEF Current
  <2> QED
    BY <1>2, <1>5, <1>8, <2>2, <2>4
<1>12. CASE EndField(s)
  <2>1. /\ Class = "FS" /\ row' = Append(row, Text) /\ field' = <<>>
        /\ trailingSpace' = <<>> /\ state' = "FIELD_NOT_BEGUN"
    BY <1>12 DEF EndField, FireField, ClearField
  <2>2. Current' = <<>>
    <3>1. <<>> \o <<>> = <<>>
      BY EmptySeq, ConcatEmptySeq
    <3> QED
      BY <1>2, <1>6, <1>9, <2>1, <3>1 DEF Current
  <2>3. taken \o Consumed = Join(Append(row, Text), Separator) \o Separator
    <3>1. /\ Join(Append(row, Text \o Separator), Separator)
               = Join(Append(row, Text), Separator) \o Separator
      BY <1>6, <1>7, JoinGrows
    <3> QED
      BY <1>5, <1>6, <1>8, <2>1, <3>1
  <2>4. /\ Append(row, Text) \in Seq(Seq(Byte)) /\ Append(row, Text) # <<>>
        /\ <<>> \in Seq(Byte)
    BY <1>7, AppendProperties, EmptySeq
  <2>5. Join(Append(Append(row, Text), <<>>), Separator)
          = Join(Append(row, Text), Separator) \o Separator
    <3> DEFINE all == Join(Append(row, Text), Separator)
    <3>1. /\ all \in Seq(Byte)
          /\ Join(Append(Append(row, Text), <<>>), Separator) = all \o Separator \o <<>>
      BY <1>6, <2>4, JoinMore
    <3> HIDE DEF all
    <3>2. (all \o Separator) \o <<>> = all \o Separator
      BY <1>6, <3>1, ConcatEmptySeq, ConcatProperties
    <3> QED
      BY <3>1, <3>2 DEF all
  <2> QED
    BY <1>2, <2>1, <2>2, <2>3, <2>5 DEF NotBegun
<1>13. CASE \/ ReportEmptyRow(s) \/ EndRecord(s) \/ OpenQuote
            \/ FieldSpace \/ QuotedByte \/ QuoteInQuoted
            \/ DoubledQuote \/ StrayQuote
  BY <1>4, <1>5, <1>13
     DEF ReportEmptyRow, EndRecord, OpenQuote, FieldSpace, QuotedByte, QuoteInQuoted,
         DoubledQuote, StrayQuote, NotBegun
<1> QED
  BY <1>1, <1>10, <1>11, <1>12, <1>13 DEF Accept

\* Every step of the caller leaves a plain text read as it should be.
LEMMA PlainReadingStep ==
  ASSUME Sound, Untouched, PlainReading, [ClientNext]_clientVars
  PROVE  PlainReading'
<1>0. TypeOK /\ HalfMatchIsKnown /\ ClientTyped /\ taken \in Seq(Byte)
  BY DEF Sound, ClientTyped
<1>1. CASE ClientNext
  <2> SUFFICES ASSUME PlainText'
               PROVE  /\ state' \in NotBegun \cup {"FIELD"}
                      /\ trailingSpace' = <<>>
                      /\ taken' = Join(Append(row', Current'), Separator')
    BY DEF PlainReading
  <2>1. /\ spent.formats \in Nat /\ spent.finishes \in Nat /\ spent.resets \in Nat
        /\ spent'.formats = 1 /\ spent'.finishes = 0 /\ spent'.resets = 0
    BY <1>0 DEF ClientTyped, Spent, PlainText
  <2>2. ~EndText /\ ~ClearState
    BY <1>0, <2>1, PlanSpent
  <2>3. CASE ChooseFormat
    <3>1. spent.formats = 0 /\ spent.finishes = 0 /\ spent.resets = 0
      <4>1. /\ spent'.formats = spent.formats + 1
            /\ spent' = [spent EXCEPT !.formats = @ + 1]
        BY <1>0, <2>3, PlanSpent DEF ChooseFormat
      <4>2. spent'.finishes = spent.finishes
        BY <1>0, <4>1 DEF ClientTyped, Spent
      <4>3. spent'.resets = spent.resets
        BY <1>0, <4>1 DEF ClientTyped, Spent
      <4> QED
        BY <2>1, <4>1, <4>2, <4>3
    <3>2. /\ state = "RECORD_NOT_BEGUN" /\ taken = <<>> /\ row = <<>>
          /\ field = <<>> /\ trailingSpace = <<>> /\ delimiterPos = 0
      BY <3>1 DEF Untouched
    <3>3. /\ state' = state /\ taken' = taken /\ row' = row
          /\ field' = field /\ trailingSpace' = trailingSpace
          /\ delimiterPos' = 0
      BY <2>3, <3>2 DEF ChooseFormat, Configure, SetDelimiter, SetQuote, ApplyFormat, history
    <3>4. Current' = <<>>
      <4>1. SubSeq(delimiter', 1, 0) = <<>> /\ <<>> \o <<>> = <<>>
        BY SubSeqEmpty, EmptySeq, ConcatEmptySeq
      <4> QED
        BY <3>2, <3>3, <4>1 DEF Current
    <3>5. Join(<<<<>>>>, Separator') = <<>>
      BY JoinOne, EmptySeq
    <3> QED
      BY <3>2, <3>3, <3>4, <3>5 DEF NotBegun
  <2>4. CASE FeedChunk \/ ClientLoop \/ StopParser
    <3>1. spent.formats = 1 /\ spent.finishes = 0 /\ spent.resets = 0
      BY <1>0, <2>1, <2>4, PlanSpent
    <3>2. CASE ReadByte
      BY <1>0, <3>1, <3>2, PlainReadStep
    <3>3. CASE RefuseByte
      <4>1. /\ position < Len(input) /\ taken' = taken \o Consumed /\ quote' = quote
            /\ \/ Class = "QUOTE" /\ state = "FIELD"
               \/ Class \in {"WHITE_SPACE", "CHAR"} /\ state = "POSSIBLE_QUOTED_END"
        BY <3>3 DEF RefuseByte, StrictError, IdentifyCharacter, InLoop, config
      <4>2. \A i \in 1..Len(taken') : taken'[i] \notin WhiteSpace \cup Eol \cup {quote}
        BY <4>1 DEF PlainText
      <4>3. /\ Class \in {"FS", "PARTIAL_FS", "CHAR"}
            /\ \A i \in 1..Len(taken) : taken[i] \notin WhiteSpace \cup Eol \cup {quote}
        BY <1>0, <4>1, <4>2, PlainByte
      <4>4. state \in NotBegun \cup {"FIELD"}
        BY <3>1, <4>3 DEF PlainText, PlainReading
      <4> QED
        BY <4>1, <4>3, <4>4 DEF NotBegun
    <3>4. CASE FeedChunk \/ EndLoop \/ StopParser
      <4>1. UNCHANGED <<delimiter, quote, delimiterPos, state, field, trailingSpace, row, taken>>
        BY <3>4 DEF FeedChunk, Parse, EndLoop, LeaveLoop, StopParser, Stop, history, config
      <4>2. PlainText
        BY <3>1, <4>1 DEF PlainText
      <4> QED
        BY <4>1, <4>2 DEF PlainReading, Current, Separator
    <3> QED
      BY <2>4, <3>2, <3>3, <3>4 DEF ClientLoop
  <2> QED
    BY <1>1, <2>2, <2>3, <2>4 DEF ClientNext
<1>2. CASE UNCHANGED clientVars
  BY <1>2 DEF PlainReading, PlainText, Current, Separator, clientVars, vars, text, history, config
<1> QED
  BY <1>1, <1>2

\* Both hold at the start, where nothing was read.
LEMMA PlainReadingInit == ClientInit => Untouched /\ PlainReading
BY DEF ClientInit, Init, NewParser, Untouched, PlainReading, PlainText

\* For every delimiter, of one byte or of many, every plain text and every way
\* to cut it, with stop() at any place: the fields reported and the one being
\* read, joined with the delimiter, are the bytes consumed.
THEOREM FieldsAreTheText == ClientSpec => []FieldsMakeUpTheText
<1>1. ClientInit => Sound /\ Untouched /\ PlainReading
  BY ClientSoundInit, PlainReadingInit
<1>2. Sound /\ Untouched /\ PlainReading /\ [ClientNext]_clientVars
        => (Sound /\ Untouched /\ PlainReading)'
  BY ClientSoundStep, UntouchedStep, PlainReadingStep
<1>3. PlainReading => FieldsMakeUpTheText
  BY DEF PlainReading, FieldsMakeUpTheText, Current
<1> QED
  BY <1>1, <1>2, <1>3, PTL DEF ClientSpec
-----------------------------------------------------------------------------

(* The parser implements the row stream: with a delimiter of one byte every  *)
(* step of the parser is a step of RowStream or none.  First, how the value  *)
(* of a raw field grows with each byte.                                      *)

\* A set of numbers with a bound has the greatest member that Max names.
LEMMA MaxIs ==
  ASSUME NEW T \in SUBSET Nat, NEW b \in Nat, T # {}, \A n \in T : n =< b
  PROVE  Max(T) \in T /\ \A n \in T : n =< Max(T)
<1>1. \E m \in T : \A n \in T : n =< m
  BY GreatestNatural
<1>2. \E m \in T : \A n \in T : m >= n
  BY <1>1
<1> QED
  BY <1>2 DEF Max

\* A set of numbers has the least member that Min names.
LEMMA MinIs ==
  ASSUME NEW T \in SUBSET Nat, T # {}
  PROVE  Min(T) \in T /\ \A n \in T : Min(T) =< n
<1>1. \E m \in T : \A n \in T : m =< n
  BY LeastNatural
<1> QED
  BY <1>1 DEF Min

\* The leading white space ends where Lead says, and only there.
LEMMA LeadIs ==
  ASSUME NEW s \in Seq(Byte), NEW spaces
  PROVE  /\ Lead(s, spaces) \in 0..Len(s)
         /\ Blank(s, 1, Lead(s, spaces), spaces)
         /\ \A n \in 0..Len(s) : Blank(s, 1, n, spaces) => n =< Lead(s, spaces)
<1> DEFINE T == {n \in 0..Len(s) : Blank(s, 1, n, spaces)}
<1>1. T \in SUBSET Nat /\ Len(s) \in Nat /\ \A n \in T : n =< Len(s)
  OBVIOUS
<1>2. 0 \in T
  BY DEF Blank
<1>3. Lead(s, spaces) = Max(T)
  BY DEF Lead
<1>4. Max(T) \in T /\ \A n \in T : n =< Max(T)
  <2> HIDE DEF T
  <2> QED
    BY <1>1, <1>2, MaxIs
<1> QED
  BY <1>3, <1>4

\* Bytes that are white space up to one that is not are the leading ones.
LEMMA LeadEnds ==
  ASSUME NEW s \in Seq(Byte), NEW spaces, NEW k \in 0..Len(s),
         Blank(s, 1, k, spaces), k = Len(s) \/ s[k + 1] \notin spaces
  PROVE  Lead(s, spaces) = k
<1> DEFINE n == Lead(s, spaces)
<1>1. n \in 0..Len(s) /\ Blank(s, 1, n, spaces) /\ k =< n /\ Len(s) \in Nat
  BY LeadIs
<1> HIDE DEF n
<1>2. ~(k < n)
  BY <1>1 DEF Blank
<1>3. n = k
  BY <1>1, <1>2
<1> QED
  BY <1>3 DEF n

\* The body of a text, and what it is when there is none.
LEMMA BodyIs ==
  ASSUME NEW s \in Seq(Byte), NEW spaces
  PROVE  /\ Body(s, spaces) \in Seq(Byte)
         /\ Body(s, spaces) = <<>> <=> Lead(s, spaces) = Len(s)
         /\ Body(<<>>, spaces) = <<>>
<1> DEFINE n == Lead(s, spaces)
<1>1. n \in 0..Len(s) /\ Len(s) \in Nat
  BY LeadIs
<1>2. Body(s, spaces) = SubSeq(s, 1 + n, Len(s))
  BY DEF Body
<1> HIDE DEF n
<1>3. /\ SubSeq(s, 1 + n, Len(s)) \in Seq(Byte)
      /\ Len(SubSeq(s, 1 + n, Len(s))) = Len(s) - n
  BY <1>1, SubSeqProperties
<1>4. SubSeq(s, 1 + n, Len(s)) = <<>> <=> n = Len(s)
  <2> DEFINE v == SubSeq(s, 1 + n, Len(s))
  <2>1. v \in Seq(Byte) /\ Len(v) = Len(s) - n
    BY <1>3
  <2> HIDE DEF v
  <2>2. v = <<>> <=> Len(v) = 0
    BY <2>1, EmptySeq
  <2> QED
    BY <1>1, <2>1, <2>2 DEF v
<1>5. Body(<<>>, spaces) = <<>>
  <2> DEFINE e == Lead(<<>>, spaces)
  <2>1. e \in 0..0
    BY LeadIs, EmptySeq
  <2>2. Body(<<>>, spaces) = SubSeq(<<>>, 1 + e, Len(<<>>))
    BY DEF Body
  <2> HIDE DEF e
  <2> QED
    BY <2>1, <2>2, SubSeqEmpty, EmptySeq
<1> QED
  BY <1>2, <1>3, <1>4, <1>5 DEF n

\* A byte behind the text belongs to its body, unless it is leading space.
LEMMA BodyGrows ==
  ASSUME NEW s \in Seq(Byte), NEW b \in Byte, NEW spaces
  PROVE  Body(Append(s, b), spaces) =
           IF Body(s, spaces) = <<>> /\ b \in spaces THEN <<>>
           ELSE Append(Body(s, spaces), b)
<1> DEFINE t == Append(s, b)
           n == Lead(s, spaces)
<1>1. /\ t \in Seq(Byte) /\ Len(t) = Len(s) + 1 /\ Len(s) \in Nat
      /\ \A i \in 1..Len(s) : t[i] = s[i]
      /\ t[Len(s) + 1] = b
  BY AppendProperties
<1>2. /\ n \in 0..Len(s) /\ Blank(s, 1, n, spaces)
      /\ \A k \in 0..Len(s) : Blank(s, 1, k, spaces) => k =< n
  BY LeadIs
<1>3. Body(s, spaces) = <<>> <=> n = Len(s)
  BY BodyIs
<1>4. Body(s, spaces) = SubSeq(s, 1 + n, Len(s))
  BY DEF Body
<1> HIDE DEF n
<1>5. CASE Body(s, spaces) = <<>> /\ b \in spaces
  <2>1. Blank(t, 1, Len(s) + 1, spaces)
    BY <1>1, <1>2, <1>3, <1>5 DEF Blank
  <2>2. Lead(t, spaces) = Len(t)
    <3> HIDE DEF t
    <3> QED
      BY <1>1, <2>1, LeadEnds
  <2>3. Body(t, spaces) = <<>>
    <3> HIDE DEF t
    <3> QED
      BY <1>1, <2>2, BodyIs
  <2> QED
    BY <1>5, <2>3
<1>6. CASE ~(Body(s, spaces) = <<>> /\ b \in spaces)
  <2>1. Blank(t, 1, n, spaces) /\ n \in 0..Len(t)
    BY <1>1, <1>2 DEF Blank
  <2>2. t[n + 1] \notin spaces
    <3>1. CASE n = Len(s)
      BY <1>1, <1>3, <1>6, <3>1
    <3>2. CASE n < Len(s)
      <4>1. ~Blank(s, 1, n + 1, spaces)
        BY <1>1, <1>2, <3>2
      <4>2. s[n + 1] \notin spaces
        BY <1>1, <1>2, <4>1 DEF Blank
      <4> QED
        BY <1>1, <1>2, <3>2, <4>2
    <3> QED
      BY <1>1, <1>2, <3>1, <3>2
  <2>3. Lead(t, spaces) = n
    <3> HIDE DEF t
    <3> QED
      BY <1>1, <2>1, <2>2, LeadEnds
  <2>4. Body(t, spaces) = SubSeq(t, 1 + n, Len(t))
    BY <2>3 DEF Body
  <2>5. SubSeq(t, 1 + n, Len(t)) = Append(SubSeq(s, 1 + n, Len(s)), b)
    <3> DEFINE m == 1 + n
               l == Len(s)
               u == SubSeq(s, m, l)
               v == SubSeq(t, m, l + 1)
    <3>1. m \in 1..(l + 1) /\ l \in Nat
      BY <1>1, <1>2
    <3> HIDE DEF m
    <3>2. \A i \in m..l : s[i] \in Byte
      BY <3>1
    <3>3. \A i \in m..(l + 1) : t[i] \in Byte
      BY <1>1, <3>1
    <3> HIDE DEF l, t
    <3>4. /\ u \in Seq(Byte) /\ Len(u) = l - m + 1
          /\ \A i \in 1..(l - m + 1) : u[i] = s[m + i - 1]
      BY <3>1, <3>2, SubSeqProperties
    <3>5. /\ v \in Seq(Byte) /\ Len(v) = l + 1 - m + 1
          /\ \A i \in 1..(l + 1 - m + 1) : v[i] = t[m + i - 1]
      BY <3>1, <3>3, SubSeqProperties
    <3> HIDE DEF u, v
    <3> DEFINE w == Append(u, b)
               c == l - m + 1
    <3>6. c \in Nat /\ Len(u) = c /\ Len(v) = c + 1 /\ l + 1 - m + 1 = c + 1
      BY <3>1, <3>4, <3>5
    <3>7. /\ w \in Seq(Byte) /\ Len(w) = c + 1
          /\ \A i \in 1..c : w[i] = u[i]
          /\ w[c + 1] = b
      <4> HIDE DEF c
      <4> QED
        BY <3>4, <3>6, AppendProperties
    <3> HIDE DEF w
    <3>8. ASSUME NEW i \in 1..(c + 1) PROVE v[i] = w[i]
      <4>1. v[i] = t[m + i - 1]
        BY <3>5, <3>6, <3>8
      <4>2. CASE i = c + 1
        <5>1. m + i - 1 = l + 1
          BY <3>1, <4>2
        <5>2. t[l + 1] = b
          BY <1>1 DEF l
        <5> QED
          BY <3>7, <4>1, <4>2, <5>1, <5>2
      <4>3. CASE i # c + 1
        <5>1. i \in 1..c /\ m + i - 1 \in 1..l
          BY <3>1, <3>6, <3>8, <4>3
        <5>2. t[m + i - 1] = s[m + i - 1]
          BY <1>1, <5>1 DEF l
        <5> QED
          BY <3>4, <3>7, <4>1, <5>1, <5>2
      <4> QED
        BY <4>2, <4>3
    <3>9. v = w
      <4> HIDE DEF c
      <4> QED
        BY <3>5, <3>6, <3>7, <3>8, SeqEqual
    <3> QED
      BY <1>1, <3>9 DEF u, v, w, m, l
  <2> QED
    BY <1>4, <1>6, <2>4, <2>5
<1> QED
  BY <1>5, <1>6

\* Trimming takes the white space behind the last other byte away, no more.
LEMMA TrimIs ==
  ASSUME NEW f \in Seq(Byte), NEW u \in Seq(Byte), NEW spaces,
         f # <<>> => f[Len(f)] \notin spaces,
         \A i \in 1..Len(u) : u[i] \in spaces
  PROVE  Trim(f \o u, spaces) = f
<1> DEFINE s == f \o u
           k == Len(f)
           T == {n \in 0..Len(s) : Blank(s, n + 1, Len(s), spaces)}
<1>1. /\ s \in Seq(Byte) /\ k \in Nat /\ Len(u) \in Nat /\ Len(s) = k + Len(u)
      /\ \A i \in 1..(k + Len(u)) : s[i] = IF i =< k THEN f[i] ELSE u[i - k]
      /\ k # 0 => f # <<>>
  BY ConcatProperties, LenProperties
<1> HIDE DEF s
<1>2. k \in T
  BY <1>1 DEF Blank
<1>3. ASSUME NEW n \in T, n < k PROVE FALSE
  <2>1. k \in (n + 1)..Len(s) /\ n \in Nat
    BY <1>1, <1>3
  <2>2. s[k] \in spaces
    BY <1>3, <2>1 DEF Blank
  <2>3. s[k] = f[k] /\ f # <<>>
    BY <1>1, <2>1
  <2> QED
    BY <2>2, <2>3
<1>4. Min(T) = k
  <2>1. T \in SUBSET Nat
    OBVIOUS
  <2> HIDE DEF T, k
  <2>2. Min(T) \in T /\ Min(T) =< k
    BY <1>2, <2>1, MinIs
  <2> DEFINE l == Min(T)
  <2>3. l \in T /\ l \in Nat /\ l =< k
    BY <2>1, <2>2
  <2> HIDE DEF l
  <2>4. ~(l < k)
    BY <1>3, <2>3
  <2>5. l = k
    BY <1>1, <2>3, <2>4
  <2> QED
    BY <2>5 DEF l
<1>5. Trim(s, spaces) = SubSeq(s, 1, k)
  BY <1>4 DEF Trim
<1>6. SubSeq(s, 1, k) = f
  <2> DEFINE v == SubSeq(s, 1, k)
  <2> HIDE DEF k
  <2>1. \A i \in 1..k : s[i] \in Byte
    BY <1>1
  <2>2. v \in Seq(Byte) /\ Len(v) = k /\ \A i \in 1..k : v[i] = s[i]
    BY <1>1, <2>1, SubSeqProperties
  <2> HIDE DEF v
  <2>3. v = f
    BY <1>1, <2>2, SeqEqual DEF k
  <2> QED
    BY <2>3 DEF v
<1> QED
  BY <1>5, <1>6 DEF s

-----------------------------------------------------------------------------
(* Runs of quotes. *)

\* The j bytes of s up to the i-th are quotes.
AllMarks(s, i, j, marks) == \A l \in (i - j + 1)..i : s[l] \in marks

\* A run has the length QuoteRun says, and another byte before it.
LEMMA RunIs ==
  ASSUME NEW s \in Seq(Byte), NEW marks, NEW i \in 0..Len(s)
  PROVE  /\ QuoteRun(s, i, marks) \in 0..i
         /\ AllMarks(s, i, QuoteRun(s, i, marks), marks)
         /\ QuoteRun(s, i, marks) = i \/ s[i - QuoteRun(s, i, marks)] \notin marks
<1> DEFINE T == {n \in 0..i : \A j \in (i - n + 1)..i : s[j] \in marks}
           k == QuoteRun(s, i, marks)
<1>1. i \in Nat /\ T \in SUBSET Nat /\ \A n \in T : n =< i
  OBVIOUS
<1>2. 0 \in T
  BY <1>1
<1>3. k = Max(T)
  BY DEF QuoteRun
<1>4. Max(T) \in T /\ \A n \in T : n =< Max(T)
  <2> HIDE DEF T
  <2> QED
    BY <1>1, <1>2, MaxIs
<1>5. k \in 0..i /\ AllMarks(s, i, k, marks) /\ \A n \in T : n =< k
  <2> HIDE DEF k
  <2> QED
    BY <1>3, <1>4 DEF AllMarks
<1> HIDE DEF k
<1>6. ASSUME k # i, s[i - k] \in marks PROVE FALSE
  <2>1. k + 1 \in 0..i /\ k \in Nat
    BY <1>1, <1>5, <1>6
  <2>2. ASSUME NEW j \in (i - (k + 1) + 1)..i PROVE s[j] \in marks
    <3>1. j = i - k \/ j \in (i - k + 1)..i
      BY <1>1, <2>1
    <3> QED
      BY <1>5, <1>6, <3>1 DEF AllMarks
  <2>3. k + 1 \in T
    BY <2>1, <2>2
  <2> HIDE DEF T
  <2>4. k + 1 =< k
    BY <1>5, <2>3
  <2> QED
    BY <2>1, <2>4
<1> QED
  BY <1>5, <1>6 DEF k

\* A run of quotes with another byte before it has the length QuoteRun says.
LEMMA RunEnds ==
  ASSUME NEW s \in Seq(Byte), NEW marks, NEW i \in 0..Len(s), NEW k \in 0..i,
         AllMarks(s, i, k, marks), k = i \/ s[i - k] \notin marks
  PROVE  QuoteRun(s, i, marks) = k
<1> DEFINE n == QuoteRun(s, i, marks)
<1>1. n \in 0..i /\ AllMarks(s, i, n, marks) /\ (n = i \/ s[i - n] \notin marks)
  BY RunIs
<1> HIDE DEF n
<1>2. i \in Nat /\ k \in Nat /\ n \in Nat
  BY <1>1
<1>3. ~(k < n)
  <2> SUFFICES ASSUME k < n PROVE FALSE
    OBVIOUS
  <2>1. i - k \in (i - n + 1)..i /\ k # i
    BY <1>1, <1>2
  <2> QED
    BY <1>1, <2>1 DEF AllMarks
<1>4. ~(n < k)
  <2> SUFFICES ASSUME n < k PROVE FALSE
    OBVIOUS
  <2>1. i - n \in (i - k + 1)..i /\ n # i
    BY <1>1, <1>2
  <2> QED
    BY <1>1, <2>1 DEF AllMarks
<1>5. n = k
  BY <1>2, <1>3, <1>4
<1> QED
  BY <1>5 DEF n

\* A byte behind a text leaves the runs in it as they are, and continues the
\* last one if it is a quote itself.
LEMMA RunGrows ==
  ASSUME NEW s \in Seq(Byte), NEW b \in Byte, NEW marks
  PROVE  /\ \A i \in 0..Len(s) : QuoteRun(Append(s, b), i, marks) = QuoteRun(s, i, marks)
         /\ QuoteRun(Append(s, b), Len(s) + 1, marks)
              = IF b \in marks THEN QuoteRun(s, Len(s), marks) + 1 ELSE 0
<1> DEFINE t == Append(s, b)
<1>1. /\ t \in Seq(Byte) /\ Len(t) = Len(s) + 1 /\ Len(s) \in Nat
      /\ \A i \in 1..Len(s) : t[i] = s[i]
      /\ t[Len(s) + 1] = b
  BY AppendProperties
<1> HIDE DEF t
<1>2. ASSUME NEW i \in 0..Len(s) PROVE QuoteRun(t, i, marks) = QuoteRun(s, i, marks)
  <2> DEFINE k == QuoteRun(s, i, marks)
  <2>1. k \in 0..i /\ AllMarks(s, i, k, marks) /\ (k = i \/ s[i - k] \notin marks)
    BY RunIs
  <2> HIDE DEF k
  <2>2. i \in Nat /\ k \in Nat /\ i \in 0..Len(t)
    BY <1>1, <2>1
  <2>3. AllMarks(t, i, k, marks)
    <3> SUFFICES ASSUME NEW j \in (i - k + 1)..i PROVE t[j] \in marks
      BY DEF AllMarks
    <3>1. j \in 1..Len(s)
      BY <1>1, <2>1, <2>2
    <3> QED
      BY <1>1, <2>1, <3>1 DEF AllMarks
  <2>4. k = i \/ t[i - k] \notin marks
    <3> SUFFICES ASSUME k # i PROVE t[i - k] \notin marks
      OBVIOUS
    <3>1. i - k \in 1..Len(s)
      BY <1>1, <2>1, <2>2
    <3> QED
      BY <1>1, <2>1, <3>1
  <2> QED
    BY <1>1, <2>1, <2>2, <2>3, <2>4, RunEnds DEF k
<1>3. ASSUME b \notin marks PROVE QuoteRun(t, Len(s) + 1, marks) = 0
  <2> DEFINE l == Len(s) + 1
  <2>1. l \in 0..Len(t) /\ 0 \in 0..l /\ l - 0 = l /\ t[l - 0] \notin marks
    BY <1>1, <1>3
  <2>2. AllMarks(t, l, 0, marks)
    BY <1>1 DEF AllMarks
  <2> HIDE DEF l
  <2>3. QuoteRun(t, l, marks) = 0
    BY <1>1, <2>1, <2>2, RunEnds
  <2> QED
    BY <2>3 DEF l
<1>4. ASSUME b \in marks
      PROVE  QuoteRun(t, Len(s) + 1, marks) = QuoteRun(s, Len(s), marks) + 1
  <2> DEFINE n == Len(s)
             k == QuoteRun(s, n, marks)
             l == n + 1
             m == k + 1
  <2>1. n \in 0..Len(s)
    BY <1>1
  <2>2. k \in 0..n /\ AllMarks(s, n, k, marks) /\ (k = n \/ s[n - k] \notin marks)
    BY <2>1, RunIs
  <2> HIDE DEF k
  <2>3. n \in Nat /\ k \in Nat /\ l \in 0..Len(t) /\ m \in 0..l /\ l - m = n - k
    BY <1>1, <2>2
  <2>4. AllMarks(t, l, m, marks)
    <3> SUFFICES ASSUME NEW j \in (l - m + 1)..l PROVE t[j] \in marks
      BY DEF AllMarks
    <3> HIDE DEF n, l, m
    <3>0. /\ n \in Nat /\ k \in Nat /\ k =< n /\ l = n + 1 /\ m = k + 1
          /\ j \in Int /\ l - m + 1 =< j /\ j =< l
      BY <2>2, <2>3 DEF l, m
    <3>1. j = l \/ (j \in (n - k + 1)..n /\ j \in 1..n)
      BY <3>0
    <3> QED
      BY <1>1, <1>4, <2>2, <3>1 DEF AllMarks, n, l
  <2>5. m = l \/ t[l - m] \notin marks
    <3> SUFFICES ASSUME m # l PROVE t[l - m] \notin marks
      OBVIOUS
    <3>1. k # n /\ n - k \in 1..n
      <4> HIDE DEF n
      <4>1. n \in Nat /\ k \in Nat /\ k =< n /\ k # n
        BY <2>2, <2>3
      <4> QED
        BY <4>1
    <3> QED
      BY <1>1, <2>2, <2>3, <3>1
  <2>6. QuoteRun(t, l, marks) = m
    <3> HIDE DEF l, m
    <3> QED
      BY <1>1, <2>3, <2>4, <2>5, RunEnds
  <2> QED
    BY <2>6 DEF k
<1> QED
  BY <1>2, <1>3, <1>4 DEF t

-----------------------------------------------------------------------------
(* The bytes kept of a text. *)

\* h[n] is what is kept of the first n bytes of s.
Keeps(h, s, positions) ==
  h = [n \in 0..Len(s) |->
         IF n = 0 THEN <<>>
         ELSE IF n \in positions THEN Append(h[n - 1], s[n]) ELSE h[n - 1]]

\* The recursion of Selected has a solution, by induction over the bytes.
LEMMA KeepsExist ==
  ASSUME NEW s \in Seq(Byte), NEW positions
  PROVE  \E h : Keeps(h, s, positions)
<1> DEFINE Next1(h, n) == IF n = 0 THEN <<>>
                          ELSE IF n \in positions THEN Append(h[n - 1], s[n]) ELSE h[n - 1]
           P(h, k) == h = [n \in 0..k |-> Next1(h, n)]
           T == {k \in Nat : \E h : P(h, k)}
<1>1. 0 \in T
  <2> DEFINE h == [n \in 0..0 |-> <<>>]
  <2>1. \A n \in 0..0 : n = 0
    OBVIOUS
  <2>2. P(h, 0)
    BY <2>1
  <2> QED
    BY <2>2
<1>2. ASSUME NEW k \in T PROVE k + 1 \in T
  <2>1. PICK h : P(h, k)
    BY <1>2
  <2> DEFINE last == Next1(h, k + 1)
             g    == [n \in 0..(k + 1) |-> IF n = k + 1 THEN last ELSE h[n]]
  <2>2. \A n \in 0..k : g[n] = h[n]
    OBVIOUS
  <2>3. \A n \in 0..k : h[n] = Next1(h, n)
    BY <2>1
  <2>4. ASSUME NEW n \in 0..(k + 1)
        PROVE  g[n] = Next1(g, n)
    <3>1. CASE n = k + 1
      <4>1. g[n] = last /\ n - 1 = k /\ g[k] = h[k]
        BY <2>2, <3>1
      <4> QED
        BY <3>1, <4>1
    <3>2. CASE n # k + 1
      <4>1. n \in 0..k /\ (n # 0 => n - 1 \in 0..k)
        BY <3>2
      <4> QED
        BY <2>2, <2>3, <4>1
    <3> QED
      BY <3>1, <3>2
  <2>5. P(g, k + 1)
    <3> HIDE DEF Next1, last
    <3> QED
      BY <2>4
  <2> HIDE DEF P
  <2> QED
    BY <2>5
<1>3. T = Nat
  <2> HIDE DEF T
  <2> QED
    BY <1>1, <1>2, InductionOnNat DEF T
<1>4. \E h : P(h, Len(s))
  <2> HIDE DEF P
  <2>1. Len(s) \in T
    <3> HIDE DEF T
    <3> QED
      BY <1>3
  <2> QED
    BY <2>1
<1> QED
  BY <1>4 DEF Keeps

\* Selected is its last value.
LEMMA SelectedIs ==
  ASSUME NEW s \in Seq(Byte), NEW positions
  PROVE  \E h : Keeps(h, s, positions) /\ Selected(s, positions) = h[Len(s)]
<1> DEFINE h == CHOOSE g : Keeps(g, s, positions)
<1>1. Keeps(h, s, positions)
  BY KeepsExist
<1>2. Selected(s, positions) = h[Len(s)]
  BY Zenon DEF Selected, Keeps
<1> QED
  BY <1>1, <1>2

\* The positions say the same of the first n bytes.
SameUpTo(n, some, others) == \A i \in 1..n : i \in some <=> i \in others

\* What is kept of some bytes does not depend on those behind them.
LEMMA KeepsAgree ==
  ASSUME NEW s \in Seq(Byte), NEW b \in Byte, NEW some, NEW others, NEW h, NEW g,
         Keeps(h, s, some), Keeps(g, Append(s, b), others), SameUpTo(Len(s), some, others)
  PROVE  \A n \in 0..Len(s) : h[n] \in Seq(Byte) /\ g[n] = h[n]
<1> DEFINE t == Append(s, b)
           T == {k \in Nat : \A n \in 0..Len(s) :
                               n =< k => h[n] \in Seq(Byte) /\ g[n] = h[n]}
<1>1. /\ t \in Seq(Byte) /\ Len(t) = Len(s) + 1 /\ Len(s) \in Nat
      /\ \A i \in 1..Len(s) : t[i] = s[i]
  BY AppendProperties
<1> HIDE DEF t
<1>2. \A n \in 0..Len(s) :
        h[n] = IF n = 0 THEN <<>>
               ELSE IF n \in some THEN Append(h[n - 1], s[n]) ELSE h[n - 1]
  BY DEF Keeps
<1>3. \A n \in 0..(Len(s) + 1) :
        g[n] = IF n = 0 THEN <<>>
               ELSE IF n \in others THEN Append(g[n - 1], t[n]) ELSE g[n - 1]
  BY <1>1 DEF Keeps, t
<1>4. h[0] = <<>> /\ g[0] = <<>> /\ <<>> \in Seq(Byte)
  BY <1>1, <1>2, <1>3, EmptySeq
<1>5. 0 \in T
  <2>1. \A n \in 0..Len(s) : n =< 0 => n = 0
    BY <1>1
  <2> QED
    BY <1>4, <2>1
<1>6. ASSUME NEW k \in T PROVE k + 1 \in T
  <2>1. ASSUME k + 1 \in 1..Len(s) PROVE h[k + 1] \in Seq(Byte) /\ g[k + 1] = h[k + 1]
    <3>1. k \in Nat /\ k \in 0..Len(s) /\ (k + 1) - 1 = k /\ k + 1 # 0
          /\ k + 1 \in 0..Len(s) /\ k + 1 \in 0..(Len(s) + 1)
      BY <1>1, <2>1
    <3>2. h[k + 1] = IF k + 1 \in some THEN Append(h[k], s[k + 1]) ELSE h[k]
      BY <1>2, <3>1
    <3>3. g[k + 1] = IF k + 1 \in others THEN Append(g[k], t[k + 1]) ELSE g[k]
      BY <1>3, <3>1
    <3>4. g[k] = h[k] /\ h[k] \in Seq(Byte) /\ t[k + 1] = s[k + 1] /\ s[k + 1] \in Byte
      BY <1>1, <2>1, <3>1
    <3>5. k + 1 \in some <=> k + 1 \in others
      BY <2>1 DEF SameUpTo
    <3>6. Append(h[k], s[k + 1]) \in Seq(Byte)
      BY <3>4, AppendProperties
    <3> QED
      BY <3>2, <3>3, <3>4, <3>5, <3>6
  <2>2. ASSUME NEW n \in 0..Len(s), n =< k + 1
        PROVE  h[n] \in Seq(Byte) /\ g[n] = h[n]
    <3>1. CASE n = k + 1
      BY <2>1, <3>1
    <3>2. CASE n =< k
      BY <1>6, <3>2
    <3> QED
      BY <2>2, <3>1, <3>2
  <2> QED
    BY <2>2
<1>7. T = Nat
  <2> HIDE DEF T
  <2> QED
    BY <1>5, <1>6, InductionOnNat DEF T
<1>8. ASSUME NEW n \in 0..Len(s) PROVE h[n] \in Seq(Byte) /\ g[n] = h[n]
  <2>1. n \in T /\ n =< n
    <3> HIDE DEF T
    <3> QED
      BY <1>7
  <2> QED
    BY <2>1
<1> QED
  BY <1>8

\* One more byte is kept if its position is among them.
LEMMA SelectedGrows ==
  ASSUME NEW s \in Seq(Byte), NEW b \in Byte, NEW some, NEW others,
         SameUpTo(Len(s), some, others)
  PROVE  /\ Selected(s, some) \in Seq(Byte)
         /\ Selected(Append(s, b), others)
              = IF Len(s) + 1 \in others THEN Append(Selected(s, some), b) ELSE Selected(s, some)
<1> DEFINE t == Append(s, b)
           n == Len(s)
<1>1. t \in Seq(Byte) /\ Len(t) = n + 1 /\ n \in Nat /\ t[n + 1] = b
  BY AppendProperties
<1>2. PICK h : Keeps(h, s, some) /\ Selected(s, some) = h[n]
  BY SelectedIs
<1>3. PICK g : Keeps(g, t, others) /\ Selected(t, others) = g[n + 1]
  <2> HIDE DEF t
  <2> QED
    BY <1>1, SelectedIs
<1>4. h[n] \in Seq(Byte) /\ g[n] = h[n]
  <2>1. \A i \in 0..Len(s) : h[i] \in Seq(Byte) /\ g[i] = h[i]
    BY <1>2, <1>3, KeepsAgree
  <2> QED
    BY <1>1, <2>1
<1>5. g[n + 1] = IF n + 1 \in others THEN Append(g[n], b) ELSE g[n]
  <2>1. n + 1 \in 0..Len(t) /\ n + 1 # 0 /\ (n + 1) - 1 = n
    BY <1>1
  <2> HIDE DEF t, n
  <2>2. g[n + 1] = IF n + 1 \in others THEN Append(g[n], t[n + 1]) ELSE g[n]
    BY <1>3, <2>1 DEF Keeps
  <2> QED
    BY <1>1, <2>2
<1> QED
  BY <1>2, <1>3, <1>4, <1>5

\* Nothing is kept of nothing.
LEMMA NothingSelected ==
  ASSUME NEW positions
  PROVE  Selected(<<>>, positions) = <<>>
<1>1. <<>> \in Seq(Byte) /\ Len(<<>>) = 0
  BY EmptySeq
<1>2. PICK h : Keeps(h, <<>>, positions) /\ Selected(<<>>, positions) = h[0]
  BY <1>1, SelectedIs
<1>3. h[0] = <<>>
  BY <1>1, <1>2 DEF Keeps
<1> QED
  BY <1>2, <1>3

-----------------------------------------------------------------------------
(* The value of a quoted field. *)

\* Where the bytes of s stand that Unquote keeps.
Literals(s, marks) == {i \in 1..Len(s) : Literal(s, i, marks)}

\* While the closing quote has not been seen the last byte is kept, and then
\* it is the closing quote, which is not.
LEMMA LastByte ==
  ASSUME NEW s \in Seq(Byte), NEW marks
  PROVE  /\ s # <<>> => (Literal(s, Len(s), marks) <=> Paired(s, marks))
         /\ ~Paired(s, marks) => s # <<>> /\ s[Len(s)] \in marks
<1> DEFINE n == Len(s)
           k == QuoteRun(s, n, marks)
<1>1. n \in Nat /\ n \in 0..Len(s)
  OBVIOUS
<1>2. k \in 0..n /\ AllMarks(s, n, k, marks)
  BY <1>1, RunIs
<1>3. Paired(s, marks) <=> k % 2 = 0
  BY DEF Paired
<1>4. Literal(s, n, marks) <=> s[n] \notin marks \/ k % 2 = 0
  BY <1>1 DEF Literal
<1> HIDE DEF k
<1>5. CASE k = 0
  BY <1>3, <1>4, <1>5
<1>6. CASE k # 0
  <2>1. n # 0 /\ n \in (n - k + 1)..n
    BY <1>1, <1>2, <1>6
  <2>2. s[n] \in marks
    BY <1>2, <2>1 DEF AllMarks
  <2>3. s # <<>>
    BY <2>1, EmptySeq
  <2> QED
    BY <1>3, <1>4, <2>2, <2>3
<1> QED
  BY <1>5, <1>6

\* One more byte turns pairs of quotes into a lone one and back, or ends them;
\* it decides about itself and, if it is not a quote, about a lone one before.
LEMMA LiteralGrows ==
  ASSUME NEW s \in Seq(Byte), NEW b \in Byte, NEW marks
  PROVE  /\ Paired(Append(s, b), marks) <=> (b \in marks => ~Paired(s, marks))
         /\ Len(s) + 1 \in Literals(Append(s, b), marks) <=> Paired(Append(s, b), marks)
         /\ Paired(s, marks) \/ b \in marks =>
              SameUpTo(Len(s), Literals(s, marks), Literals(Append(s, b), marks))
         /\ ~Paired(s, marks) /\ b \notin marks =>
              /\ SameUpTo(Len(s) - 1, Literals(s, marks), Literals(Append(s, b), marks))
              /\ Len(s) \notin Literals(s, marks)
              /\ Len(s) \in Literals(Append(s, b), marks)
<1> DEFINE t == Append(s, b)
           n == Len(s)
<1>1. /\ t \in Seq(Byte) /\ Len(t) = n + 1 /\ n \in Nat
      /\ \A i \in 1..n : t[i] = s[i]
      /\ t[n + 1] = b
  BY AppendProperties
<1>2. /\ \A i \in 0..n : QuoteRun(t, i, marks) = QuoteRun(s, i, marks)
      /\ QuoteRun(t, n + 1, marks) = IF b \in marks THEN QuoteRun(s, n, marks) + 1 ELSE 0
  BY RunGrows
<1>3. QuoteRun(s, n, marks) \in Nat
  <2>1. n \in 0..Len(s)
    BY <1>1
  <2> HIDE DEF n
  <2>2. QuoteRun(s, n, marks) \in 0..n
    BY <2>1, RunIs
  <2> QED
    BY <1>1, <2>2
<1>4. t # <<>>
  BY <1>1, EmptySeq
<1>5. Literal(t, n + 1, marks) <=> Paired(t, marks)
  <2> HIDE DEF t
  <2>1. Literal(t, Len(t), marks) <=> Paired(t, marks)
    BY <1>1, <1>4, LastByte
  <2> QED
    BY <1>1, <2>1
<1>6. s # <<>> => (Literal(s, n, marks) <=> Paired(s, marks))
  BY LastByte
<1>7. ~Paired(s, marks) => s # <<>> /\ n # 0 /\ s[n] \in marks
  BY LastByte, EmptySeq
<1> HIDE DEF t, n
<1>8. Paired(t, marks) <=> (b \in marks => ~Paired(s, marks))
  <2>1. Paired(s, marks) <=> QuoteRun(s, n, marks) % 2 = 0
    BY DEF Paired, n
  <2>2. Paired(t, marks) <=> QuoteRun(t, n + 1, marks) % 2 = 0
    BY <1>1 DEF Paired
  <2> DEFINE k == QuoteRun(s, n, marks)
  <2>3. k \in Nat
    BY <1>3
  <2> HIDE DEF k
  <2>4. (k + 1) % 2 = 0 <=> k % 2 # 0
    BY <2>3
  <2> QED
    BY <1>2, <2>1, <2>2, <2>4 DEF k
<1>9. n + 1 \in Literals(t, marks) <=> Paired(t, marks)
  BY <1>1, <1>5 DEF Literals
<1>10. ASSUME NEW i \in 1..n, i # n PROVE i \in Literals(s, marks) <=> i \in Literals(t, marks)
  <2>1. /\ i \in 0..n /\ i + 1 \in 1..n /\ i < n /\ i < n + 1
        /\ i \in 1..Len(s) /\ i \in 1..Len(t) /\ i < Len(s) /\ i < Len(t)
    BY <1>1, <1>10 DEF n
  <2>2. t[i] = s[i] /\ t[i + 1] = s[i + 1] /\ QuoteRun(t, i, marks) = QuoteRun(s, i, marks)
    BY <1>1, <1>2, <2>1
  <2> QED
    BY <2>1, <2>2 DEF Literals, Literal
<1>11. ASSUME n # 0
       PROVE  /\ n \in Literals(s, marks) <=> Paired(s, marks)
              /\ n \in Literals(t, marks) <=> Paired(s, marks) \/ b \notin marks
  <2>1. n \in 1..n /\ n \in 0..n /\ n < n + 1 /\ n \in 1..(n + 1)
    BY <1>1, <1>11
  <2>2. s # <<>> /\ n \in 1..Len(s) /\ n \in 1..Len(t) /\ n < Len(t) /\ ~(n < Len(s))
    BY <1>1, <1>11, <2>1, EmptySeq DEF n
  <2>3. n \in Literals(s, marks) <=> Paired(s, marks)
    BY <1>6, <2>2 DEF Literals
  <2>4. /\ t[n] = s[n] /\ t[n + 1] = b /\ QuoteRun(t, n, marks) = QuoteRun(s, n, marks)
    BY <1>1, <1>2, <2>1
  <2>5. Literal(t, n, marks) <=> Literal(s, n, marks) \/ b \notin marks
    BY <2>2, <2>4 DEF Literal
  <2> QED
    BY <1>6, <2>2, <2>3, <2>5 DEF Literals
<1>12. Paired(s, marks) \/ b \in marks =>
         SameUpTo(n, Literals(s, marks), Literals(t, marks))
  BY <1>1, <1>10, <1>11 DEF SameUpTo
<1>13. ~Paired(s, marks) /\ b \notin marks =>
         /\ SameUpTo(n - 1, Literals(s, marks), Literals(t, marks))
         /\ n \notin Literals(s, marks)
         /\ n \in Literals(t, marks)
  <2>1. \A i \in 1..(n - 1) : i \in 1..n /\ i # n
    BY <1>1
  <2>2. SameUpTo(n - 1, Literals(s, marks), Literals(t, marks))
    BY <1>10, <2>1 DEF SameUpTo
  <2> QED
    BY <1>7, <1>11, <2>2
<1> QED
  BY <1>8, <1>9, <1>12, <1>13 DEF t, n

\* A lone quote and the byte behind it are both kept.
LoneKept(s, b, marks) ==
  \E m \in marks : m \in Byte /\
    Unquote(Append(s, b), marks) = Append(Append(Unquote(s, marks), m), b)

\* How the value of a quoted field grows with each of its bytes: a quote is
\* not kept until the next byte tells what it is.
LEMMA UnquoteGrows ==
  ASSUME NEW s \in Seq(Byte), NEW b \in Byte, NEW marks
  PROVE  /\ Unquote(s, marks) \in Seq(Byte)
         /\ Paired(Append(s, b), marks) <=> (b \in marks => ~Paired(s, marks))
         /\ Paired(s, marks) /\ b \in marks => Unquote(Append(s, b), marks) = Unquote(s, marks)
         /\ (Paired(s, marks) <=> b \notin marks) =>
              Unquote(Append(s, b), marks) = Append(Unquote(s, marks), b)
         /\ ~Paired(s, marks) /\ b \notin marks => LoneKept(s, b, marks)
<1> DEFINE t == Append(s, b)
           some == Literals(s, marks)
           others == Literals(t, marks)
<1>1. /\ Paired(t, marks) <=> (b \in marks => ~Paired(s, marks))
      /\ Len(s) + 1 \in others <=> Paired(t, marks)
      /\ Paired(s, marks) \/ b \in marks => SameUpTo(Len(s), some, others)
      /\ ~Paired(s, marks) /\ b \notin marks =>
           /\ SameUpTo(Len(s) - 1, some, others)
           /\ Len(s) \notin some
           /\ Len(s) \in others
  BY LiteralGrows
<1>2. Unquote(s, marks) = Selected(s, some) /\ Unquote(t, marks) = Selected(t, others)
  BY Zenon DEF Unquote, Literals
<1>3. Selected(s, some) \in Seq(Byte)
  BY SelectedGrows DEF SameUpTo
<1> HIDE DEF some, others
<1>4. CASE Paired(s, marks) \/ b \in marks
  <2>1. Selected(t, others)
          = IF Len(s) + 1 \in others THEN Append(Selected(s, some), b) ELSE Selected(s, some)
    BY <1>1, <1>4, SelectedGrows
  <2> HIDE DEF t
  <2> QED
    BY <1>1, <1>2, <1>3, <1>4, <2>1 DEF t
<1>5. CASE ~Paired(s, marks) /\ b \notin marks
  <2>1. s # <<>> /\ s[Len(s)] \in marks
    BY <1>5, LastByte
  <2>2. PICK r \in Seq(Byte), m \in Byte : s = Append(r, m)
    BY <2>1, SequenceEmptyOrAppend
  <2>3. Len(s) = Len(r) + 1 /\ s[Len(r) + 1] = m /\ Len(r) \in Nat
    BY <2>2, AppendProperties
  <2>4. m \in marks
    BY <2>1, <2>3
  <2>5. Selected(s, some) = Selected(r, some)
    <3>1. SameUpTo(Len(r), some, some)
      BY DEF SameUpTo
    <3>2. Len(r) + 1 \notin some
      BY <1>1, <1>5, <2>3
    <3> QED
      BY <2>2, <3>1, <3>2, SelectedGrows
  <2>6. Selected(s, others) = Append(Selected(r, some), m)
    <3>1. Len(s) - 1 = Len(r)
      BY <2>3
    <3>2. SameUpTo(Len(r), some, others)
      BY <1>1, <1>5, <3>1
    <3>3. Len(r) + 1 \in others
      BY <1>1, <1>5, <2>3
    <3> QED
      BY <2>2, <3>2, <3>3, SelectedGrows
  <2>7. Selected(t, others) = Append(Selected(s, others), b)
    <3>1. SameUpTo(Len(s), others, others)
      BY DEF SameUpTo
    <3>2. Len(s) + 1 \in others
      BY <1>1, <1>5
    <3> QED
      BY <3>1, <3>2, SelectedGrows
  <2> QED
    BY <1>1, <1>2, <1>3, <1>5, <2>4, <2>5, <2>6, <2>7 DEF LoneKept
<1> QED
  BY <1>4, <1>5

-----------------------------------------------------------------------------
(* The abstract state. *)

\* The bytes of the chosen format that are white space, quote and end a line.
Spaces == WhiteSpace \ {SimpleFS}
Marks  == {quote} \ (WhiteSpace \cup {SimpleFS})
Ends   == Eol \ {SimpleFS, quote}

\* What RowStream says of the raw field, in the words of RawField.
LEMMA PromiseIs ==
  /\ Promise!Marks = Marks /\ Promise!Ends = Ends
  /\ Promise!Content = Body(raw, Spaces)
  /\ Promise!IsQuoted <=> Quoted(raw, Spaces, Marks)
  /\ Promise!IsOpen <=> Open(raw, Spaces, Marks)
  /\ Promise!Reported = Value(raw, Spaces, Marks)
<1> USE DEF Promise!Spaces, Promise!Marks, Promise!Ends, Spaces, Marks, Ends
<1>1. Promise!Marks = Marks /\ Promise!Ends = Ends /\ Promise!Spaces = Spaces
  BY Zenon
<1> HIDE DEF Promise!Spaces, Promise!Marks, Promise!Ends, Spaces, Marks, Ends
<1>2. ASSUME NEW s, NEW spaces PROVE Promise!Body(s, spaces) = Body(s, spaces)
  BY Zenon DEF Promise!Body, Body, Promise!Lead, Lead, Promise!Blank, Blank, Promise!Max, Max
<1>3. ASSUME NEW s, NEW spaces PROVE Promise!Trim(s, spaces) = Trim(s, spaces)
  BY Zenon DEF Promise!Trim, Trim, Promise!Blank, Blank, Promise!Min, Min
<1>4. ASSUME NEW s, NEW marks PROVE Promise!Unquote(s, marks) = Unquote(s, marks)
  BY Zenon DEF Promise!Unquote, Unquote, Promise!Selected, Selected, Promise!Literal, Literal,
     Promise!QuoteRun, QuoteRun, Promise!Max, Max
<1>5. ASSUME NEW s, NEW marks PROVE Promise!Paired(s, marks) <=> Paired(s, marks)
  BY Zenon DEF Promise!Paired, Paired, Promise!QuoteRun, QuoteRun, Promise!Max, Max
<1>6. Promise!Content = Body(raw, Spaces)
  BY <1>1, <1>2 DEF Promise!Content
<1>7. ASSUME NEW s, NEW spaces, NEW marks
      PROVE  Promise!Quoted(s, spaces, marks) <=> Quoted(s, spaces, marks)
  BY <1>2 DEF Promise!Quoted, Quoted
<1>8. ASSUME NEW s, NEW spaces PROVE Promise!Inside(s, spaces) = Inside(s, spaces)
  BY <1>2 DEF Promise!Inside, Inside
<1>9. Promise!IsQuoted <=> Quoted(raw, Spaces, Marks)
  BY <1>1, <1>7 DEF Promise!IsQuoted
<1>10. Promise!IsOpen <=> Open(raw, Spaces, Marks)
  BY <1>1, <1>5, <1>7, <1>8 DEF Promise!IsOpen, Promise!Open, Open
<1>11. Promise!Reported = Value(raw, Spaces, Marks)
  BY <1>1, <1>2, <1>3, <1>4, <1>7, <1>8 DEF Promise!Reported, Promise!Value, Value
<1> QED
  BY <1>1, <1>6, <1>9, <1>10, <1>11

-----------------------------------------------------------------------------
(* What the parser holds of a raw field. *)

\* A parser in the state `at', with these bytes in its field and these held
\* back, has read the raw field s.
Stands(at, kept, held, s, spaces, marks) ==
  /\ at \in NotBegun => Body(s, spaces) = <<>> /\ kept = <<>> /\ held = <<>>
  /\ at = "FIELD" =>
       /\ kept # <<>> /\ kept[Len(kept)] \notin spaces /\ kept[1] \notin marks
       /\ Body(s, spaces) = kept \o held
       /\ \A i \in 1..Len(held) : held[i] \in spaces
  /\ at \in {"QUOTED_FIELD", "POSSIBLE_QUOTED_END"} =>
       /\ Quoted(s, spaces, marks)
       /\ at = "QUOTED_FIELD" <=> Paired(Inside(s, spaces), marks)
       /\ kept = Unquote(Inside(s, spaces), marks) /\ held = <<>>

\* From the state of the parser one tells what RowStream asks of a raw field,
\* and the field it holds is the value of that raw field.
LEMMA StandsTells ==
  ASSUME NEW at \in States, NEW kept \in Seq(Byte), NEW held \in Seq(Byte),
         NEW s \in Seq(Byte), NEW spaces, NEW marks,
         Stands(at, kept, held, s, spaces, marks)
  PROVE  /\ Body(s, spaces) = <<>> <=> at \in NotBegun
         /\ Quoted(s, spaces, marks) <=> at \in {"QUOTED_FIELD", "POSSIBLE_QUOTED_END"}
         /\ Open(s, spaces, marks) <=> at = "QUOTED_FIELD"
         /\ Value(s, spaces, marks) = kept
<1>1. CASE at \in NotBegun
  <2>1. Body(s, spaces) = <<>> /\ kept = <<>>
    BY <1>1 DEF Stands
  <2>2. Trim(<<>>, spaces) = <<>>
    <3>1. <<>> \in Seq(Byte) /\ Len(<<>>) = 0 /\ <<>> \o <<>> = <<>>
      BY EmptySeq, ConcatEmptySeq
    <3> DEFINE e == <<>>
    <3>2. /\ e \in Seq(Byte) /\ e = <<>> /\ e \o e = e
          /\ \A i \in 1..Len(e) : e[i] \in spaces
      BY <3>1
    <3> HIDE DEF e
    <3>3. Trim(e \o e, spaces) = e
      BY <3>2, TrimIs
    <3> QED
      BY <3>2, <3>3
  <2> QED
    BY <1>1, <2>1, <2>2 DEF Quoted, Open, Value, NotBegun
<1>2. CASE at = "FIELD"
  <2>1. /\ kept # <<>> /\ kept[Len(kept)] \notin spaces /\ kept[1] \notin marks
        /\ Body(s, spaces) = kept \o held
        /\ \A i \in 1..Len(held) : held[i] \in spaces
    BY <1>2 DEF Stands
  <2>2. Trim(kept \o held, spaces) = kept
    BY <2>1, TrimIs
  <2>3. Len(kept) \in Nat \ {0}
    BY <2>1, EmptySeq
  <2>4. kept \o held # <<>> /\ (kept \o held)[1] = kept[1]
    BY <2>1, <2>3, ConcatProperties, EmptySeq
  <2> QED
    BY <1>2, <2>1, <2>2, <2>4 DEF Quoted, Open, Value, NotBegun
<1>3. CASE at \in {"QUOTED_FIELD", "POSSIBLE_QUOTED_END"}
  BY <1>3 DEF Stands, Quoted, Open, Value, NotBegun
<1> QED
  BY <1>1, <1>2, <1>3 DEF States

\* Nothing read stands for the empty raw field.
LEMMA NothingStands ==
  ASSUME NEW at \in NotBegun, NEW spaces, NEW marks
  PROVE  Stands(at, <<>>, <<>>, <<>>, spaces, marks)
<1>1. Body(<<>>, spaces) = <<>>
  BY BodyIs, EmptySeq
<1> QED
  BY <1>1 DEF Stands, NotBegun

\* How the parser goes from byte to byte outside quotes.
LEMMA StandsGrows ==
  ASSUME NEW at \in States, NEW kept \in Seq(Byte), NEW held \in Seq(Byte),
         NEW s \in Seq(Byte), NEW b \in Byte, NEW spaces, NEW marks,
         Stands(at, kept, held, s, spaces, marks)
  PROVE  /\ at \in NotBegun /\ b \in spaces =>
              Stands(at, kept, held, Append(s, b), spaces, marks)
         /\ at \in NotBegun \cup {"FIELD"} /\ b \notin spaces
            /\ (at = "FIELD" \/ b \notin marks) =>
              Stands("FIELD", Append(kept \o held, b), <<>>, Append(s, b), spaces, marks)
         /\ at = "FIELD" /\ b \in spaces =>
              Stands("FIELD", kept, Append(held, b), Append(s, b), spaces, marks)
<1> DEFINE t == Append(s, b)
<1>1. /\ t \in Seq(Byte)
      /\ Body(t, spaces) = IF Body(s, spaces) = <<>> /\ b \in spaces THEN <<>>
                           ELSE Append(Body(s, spaces), b)
      /\ Body(s, spaces) \in Seq(Byte)
  BY AppendProperties, BodyGrows, BodyIs
<1>2. <<>> \in Seq(Byte) /\ Len(<<>>) = 0 /\ \A u \in Seq(Byte) : u \o <<>> = u
  BY EmptySeq, ConcatEmptySeq
<1>3. /\ kept \o held \in Seq(Byte)
      /\ Append(kept \o held, b) \in Seq(Byte)
      /\ Append(held, b) \in Seq(Byte)
  BY AppendProperties, ConcatProperties
<1> HIDE DEF t
<1>4. ASSUME at \in NotBegun, b \in spaces PROVE Stands(at, kept, held, t, spaces, marks)
  BY <1>1, <1>4 DEF Stands, NotBegun
<1>5. ASSUME at \in NotBegun, b \notin spaces, b \notin marks
      PROVE  Stands("FIELD", Append(kept \o held, b), <<>>, t, spaces, marks)
  <2>1. kept = <<>> /\ held = <<>> /\ Body(s, spaces) = <<>>
    BY <1>5 DEF Stands
  <2>2. Append(kept \o held, b) = <<b>> /\ Body(t, spaces) = <<b>>
    BY <1>1, <1>2, <1>5, <2>1
  <2>3. <<b>> \in Seq(Byte) /\ <<b>> # <<>> /\ Len(<<b>>) = 1 /\ <<b>>[1] = b
    OBVIOUS
  <2> QED
    BY <1>2, <1>5, <2>2, <2>3 DEF Stands, NotBegun
<1>6. ASSUME at = "FIELD", b \notin spaces
      PROVE  Stands("FIELD", Append(kept \o held, b), <<>>, t, spaces, marks)
  <2> DEFINE f == kept \o held
             g == Append(f, b)
  <2>1. /\ kept # <<>> /\ kept[1] \notin marks /\ Body(s, spaces) = f
    BY <1>6 DEF Stands
  <2>2. f \in Seq(Byte) /\ Len(f) \in Nat \ {0} /\ f # <<>> /\ f[1] = kept[1]
    <3>1. Len(kept) \in Nat \ {0}
      BY <2>1, EmptySeq
    <3> QED
      BY <3>1, ConcatProperties, EmptySeq
  <2> HIDE DEF f
  <2>3. g \in Seq(Byte) /\ g # <<>> /\ Len(g) = Len(f) + 1 /\ g[Len(f) + 1] = b /\ g[1] = f[1]
    <3>1. 1 \in 1..Len(f)
      BY <2>2
    <3> QED
      BY <2>2, <3>1, AppendProperties
  <2>4. Body(t, spaces) = g /\ g \o <<>> = g
    BY <1>1, <1>2, <2>1, <2>2, <2>3
  <2> HIDE DEF g
  <2>5. Stands("FIELD", g, <<>>, t, spaces, marks)
    BY <1>2, <1>6, <2>1, <2>2, <2>3, <2>4 DEF Stands, NotBegun
  <2> QED
    BY <2>5 DEF g, f
<1>7. ASSUME at = "FIELD", b \in spaces
      PROVE  Stands("FIELD", kept, Append(held, b), t, spaces, marks)
  <2> DEFINE g == Append(held, b)
  <2>1. /\ kept # <<>> /\ kept[Len(kept)] \notin spaces /\ kept[1] \notin marks
        /\ Body(s, spaces) = kept \o held
        /\ \A i \in 1..Len(held) : held[i] \in spaces
    BY <1>7 DEF Stands
  <2>2. Body(t, spaces) = Append(kept \o held, b)
    <3>1. kept \o held # <<>>
      BY <2>1, ConcatEqualIffEmpty
    <3> QED
      BY <1>1, <2>1, <3>1
  <2>3. Append(kept \o held, b) = kept \o g
    <3>1. <<b>> \in Seq(Byte) /\ Append(kept \o held, b) = (kept \o held) \o <<b>>
      BY <1>3, AppendIsConcat
    <3>2. g = held \o <<b>>
      BY AppendIsConcat
    <3>3. (kept \o held) \o <<b>> = kept \o (held \o <<b>>)
      BY <3>1, ConcatAssociative, SMTT(30)
    <3> QED
      BY <3>1, <3>2, <3>3
  <2>4. \A i \in 1..Len(g) : g[i] \in spaces
    <3>1. Len(g) = Len(held) + 1 /\ g[Len(held) + 1] = b
          /\ \A i \in 1..Len(held) : g[i] = held[i]
      BY AppendProperties
    <3>2. Len(held) \in Nat
      OBVIOUS
    <3> HIDE DEF g
    <3>3. ASSUME NEW i \in 1..Len(g) PROVE g[i] \in spaces
      <4>1. i \in 1..Len(held) \/ i = Len(held) + 1
        BY <3>1, <3>2
      <4> QED
        BY <1>7, <2>1, <3>1, <4>1
    <3> QED
      BY <3>3
  <2> HIDE DEF g
  <2>5. Stands("FIELD", kept, g, t, spaces, marks)
    BY <2>1, <2>2, <2>3, <2>4 DEF Stands, NotBegun
  <2> QED
    BY <2>5 DEF g
<1> QED
  BY <1>4, <1>5, <1>6, <1>7 DEF t

\* A lone quote and the byte behind it are both in the field.
StandsWithQuote(kept, held, s, b, spaces, marks) ==
  \E m \in marks : m \in Byte /\
    Stands("QUOTED_FIELD", Append((kept \o <<m>>) \o held, b), <<>>,
           Append(s, b), spaces, marks)

\* How the parser goes from byte to byte inside quotes.
LEMMA QuotedGrows ==
  ASSUME NEW at \in States, NEW kept \in Seq(Byte), NEW held \in Seq(Byte),
         NEW s \in Seq(Byte), NEW b \in Byte, NEW spaces, NEW marks,
         Stands(at, kept, held, s, spaces, marks)
  PROVE  /\ at \in NotBegun /\ b \in marks /\ b \notin spaces =>
              Stands("QUOTED_FIELD", kept, held, Append(s, b), spaces, marks)
         /\ at = "QUOTED_FIELD" /\ b \notin marks =>
              Stands("QUOTED_FIELD", Append(kept \o held, b), <<>>, Append(s, b), spaces, marks)
         /\ at = "QUOTED_FIELD" /\ b \in marks =>
              Stands("POSSIBLE_QUOTED_END", kept, held, Append(s, b), spaces, marks)
         /\ at = "POSSIBLE_QUOTED_END" /\ b \in marks =>
              Stands("QUOTED_FIELD", Append(kept \o held, b), <<>>, Append(s, b), spaces, marks)
         /\ at = "POSSIBLE_QUOTED_END" /\ b \notin marks =>
              StandsWithQuote(kept, held, s, b, spaces, marks)
<1> DEFINE t == Append(s, b)
           u == Inside(s, spaces)
           v == Inside(t, spaces)
<1>1. /\ t \in Seq(Byte)
      /\ Body(t, spaces) = IF Body(s, spaces) = <<>> /\ b \in spaces THEN <<>>
                           ELSE Append(Body(s, spaces), b)
      /\ Body(s, spaces) \in Seq(Byte)
  BY AppendProperties, BodyGrows, BodyIs
<1> HIDE DEF t
<1>2. <<>> \in Seq(Byte) /\ \A x \in Seq(Byte) : x \o <<>> = x
  BY EmptySeq, ConcatEmptySeq
<1>3. ASSUME at \in NotBegun, b \in marks, b \notin spaces
      PROVE  Stands("QUOTED_FIELD", kept, held, t, spaces, marks)
  <2>1. kept = <<>> /\ held = <<>> /\ Body(s, spaces) = <<>>
    BY <1>3 DEF Stands
  <2>2. Body(t, spaces) = <<b>> /\ v = <<>>
    <3>1. Body(t, spaces) = <<b>>
      BY <1>1, <1>3, <2>1
    <3>2. Tail(<<b>>) = <<>>
      OBVIOUS
    <3> QED
      BY <3>1, <3>2 DEF Inside
  <2>3. Quoted(t, spaces, marks)
    BY <1>3, <2>2 DEF Quoted
  <2>4. Paired(<<>>, marks)
    BY <1>2, LastByte
  <2>5. Unquote(<<>>, marks) = <<>>
    BY NothingSelected DEF Unquote
  <2> QED
    BY <2>1, <2>2, <2>3, <2>4, <2>5 DEF Stands, NotBegun
<1>4. ASSUME at \in {"QUOTED_FIELD", "POSSIBLE_QUOTED_END"}
      PROVE  /\ Quoted(t, spaces, marks)
             /\ u \in Seq(Byte) /\ v = Append(u, b)
             /\ kept = Unquote(u, marks) /\ held = <<>> /\ kept \o held = kept
             /\ at = "QUOTED_FIELD" <=> Paired(u, marks)
  <2>1. /\ Quoted(s, spaces, marks) /\ kept = Unquote(u, marks) /\ held = <<>>
        /\ at = "QUOTED_FIELD" <=> Paired(u, marks)
    BY <1>4 DEF Stands
  <2> DEFINE y == Body(s, spaces)
  <2>2. y \in Seq(Byte) /\ y # <<>> /\ y[1] \in marks /\ Body(t, spaces) = Append(y, b)
    BY <1>1, <2>1 DEF Quoted
  <2>3. u = Tail(y) /\ v = Tail(Append(y, b))
    BY <2>2 DEF Inside
  <2> HIDE DEF y
  <2>4. Len(y) \in Nat \ {0} /\ 1 \in 1..Len(y)
    BY <2>2, EmptySeq
  <2>5. Append(y, b) # <<>> /\ Append(y, b)[1] = y[1]
    BY <2>2, <2>4, AppendProperties
  <2>6. Tail(y) \in Seq(Byte) /\ Tail(Append(y, b)) = Append(Tail(y), b)
    BY <2>2, HeadTailProperties, HeadTailAppend
  <2> HIDE DEF u, v
  <2>7. Quoted(t, spaces, marks)
    BY <2>2, <2>5 DEF Quoted
  <2> QED
    BY <1>2, <2>1, <2>3, <2>6, <2>7
<1> HIDE DEF u, v
<1>5. ASSUME at \in {"QUOTED_FIELD", "POSSIBLE_QUOTED_END"}
      PROVE  /\ Paired(v, marks) <=> (b \in marks => ~Paired(u, marks))
             /\ Paired(u, marks) /\ b \in marks => Unquote(v, marks) = Unquote(u, marks)
             /\ (Paired(u, marks) <=> b \notin marks) =>
                  Unquote(v, marks) = Append(Unquote(u, marks), b)
             /\ ~Paired(u, marks) /\ b \notin marks => LoneKept(u, b, marks)
  <2>1. u \in Seq(Byte) /\ v = Append(u, b)
    BY <1>4, <1>5
  <2> DEFINE w == Append(u, b)
  <2>2. Paired(w, marks) <=> (b \in marks => ~Paired(u, marks))
    BY <2>1, UnquoteGrows
  <2>4. Paired(u, marks) /\ b \in marks => Unquote(w, marks) = Unquote(u, marks)
    BY <2>1, UnquoteGrows
  <2>5. (Paired(u, marks) <=> b \notin marks) =>
             Unquote(w, marks) = Append(Unquote(u, marks), b)
    BY <2>1, UnquoteGrows
  <2>6. ~Paired(u, marks) /\ b \notin marks => LoneKept(u, b, marks)
    BY <2>1, UnquoteGrows
  <2>3. w = v
    BY <2>1
  <2> HIDE DEF w
  <2> QED
    BY <2>2, <2>3, <2>4, <2>5, <2>6
<1>6. ASSUME NEW next \in {"QUOTED_FIELD", "POSSIBLE_QUOTED_END"}, NEW f,
             Quoted(t, spaces, marks), next = "QUOTED_FIELD" <=> Paired(v, marks),
             f = Unquote(v, marks)
      PROVE  Stands(next, f, <<>>, t, spaces, marks)
  BY <1>6 DEF Stands, NotBegun, v
<1>7. ASSUME at = "QUOTED_FIELD", b \notin marks
      PROVE  Stands("QUOTED_FIELD", Append(kept \o held, b), <<>>, t, spaces, marks)
  BY <1>4, <1>5, <1>6, <1>7
<1>8. ASSUME at = "QUOTED_FIELD", b \in marks
      PROVE  Stands("POSSIBLE_QUOTED_END", kept, held, t, spaces, marks)
  BY <1>4, <1>5, <1>6, <1>8
<1>9. ASSUME at = "POSSIBLE_QUOTED_END", b \in marks
      PROVE  Stands("QUOTED_FIELD", Append(kept \o held, b), <<>>, t, spaces, marks)
  BY <1>4, <1>5, <1>6, <1>9
<1>10. ASSUME at = "POSSIBLE_QUOTED_END", b \notin marks
       PROVE  StandsWithQuote(kept, held, s, b, spaces, marks)
  <2>1. PICK m \in marks : /\ m \in Byte
                           /\ Unquote(v, marks) = Append(Append(kept, m), b)
    BY <1>4, <1>5, <1>10 DEF LoneKept
  <2>2. (kept \o <<m>>) \o held = Append(kept, m)
    <3>1. kept \o <<m>> = Append(kept, m) /\ Append(kept, m) \in Seq(Byte)
      BY <2>1, AppendIsConcat, AppendProperties
    <3> QED
      BY <1>2, <1>4, <1>10, <3>1
  <2>3. Stands("QUOTED_FIELD", Append(Append(kept, m), b), <<>>, t, spaces, marks)
    BY <1>4, <1>5, <1>6, <1>10, <2>1
  <2> QED
    BY <2>1, <2>2, <2>3 DEF StandsWithQuote, t
<1> QED
  BY <1>3, <1>7, <1>8, <1>9, <1>10 DEF t

-----------------------------------------------------------------------------
(* The refinement. *)

\* One text, in one format with a delimiter of at most one byte, that ends
\* once; the caller may stop the parser as often as it likes.
OneText ==
  /\ \A d \in Delimiters : Len(d) =< 1
  /\ \A p \in DOMAIN Plans : /\ Plans[p].formats =< 1 /\ Plans[p].finishes =< 1
                             /\ Plans[p].resets = 0 /\ ~Plans[p].reuse

\* What the parser holds stands for the raw field, no format is chosen in the
\* middle of one, and a row has begun when its first field has.
Reading ==
  /\ Len(delimiter) =< 1 /\ delimiterPos = 0
  /\ Stands(state, field, trailingSpace, raw, Spaces, Marks)
  /\ spent.formats = 0 => call = "idle" /\ raw = <<>>
  /\ spent.finishes > 0 => call = "idle"
  /\ spent.finishes = 0 /\ state \in NotBegun =>
       (state = "RECORD_NOT_BEGUN" <=> row = <<>>)

\* With a delimiter of one byte the class of a character is that of its byte.
LEMMA ClassOfByte ==
  ASSUME TypeOK, position < Len(input), Len(delimiter) =< 1, delimiterPos = 0
  PROVE  /\ Byte1 \in Byte /\ Consumed = <<Byte1>> /\ NextDelimiterPos = 0 /\ Text = field
         /\ Class \in {"CHAR", "FS", "WHITE_SPACE", "QUOTE", "EOL"}
         /\ Class = "FS" => Byte1 = SimpleFS
         /\ Class # "FS" =>
              /\ Byte1 # SimpleFS
              /\ Class = "WHITE_SPACE" <=> Byte1 \in Spaces
              /\ Class = "QUOTE" <=> Byte1 \in Marks
              /\ Class = "EOL" <=> Byte1 \in Ends
         /\ SimpleFS \notin Spaces \cup Marks \cup Ends
         /\ Spaces \cap Marks = {}
<1>1. Byte1 \in Byte
  BY IdentifiedIsTyped
<1>2. ~Compound /\ ~InDelimiter
  BY DEF Compound, InDelimiter
<1>3. Class = IF Byte1 = SimpleFS THEN "FS" ELSE PlainClass(Byte1)
  BY <1>2 DEF Class
<1>4. ~Broken /\ Matched = 0
  BY <1>2 DEF Broken, Matched
<1>5. NextDelimiterPos = 0 /\ Text = field
  <2>1. Text = field \o <<>> /\ field \in Seq(Byte)
    BY <1>4 DEF Text, Spill, TypeOK
  <2>2. NextDelimiterPos = 0
    BY <1>2, <1>4 DEF NextDelimiterPos
  <2> QED
    BY <2>1, <2>2, ConcatEmptySeq
<1>6. Consumed = <<Byte1>>
  <2> DEFINE m == position + 1
             u == SubSeq(input, m, m)
  <2>1. Consumed = u
    BY <1>2 DEF Consumed, NextPosition
  <2>2. m \in 1..Len(input) /\ input \in Seq(Byte) /\ input[m] = Byte1
    BY DEF Byte1, TypeOK
  <2> HIDE DEF m
  <2>3. u \in Seq(Byte) /\ Len(u) = 1 /\ u[1] = Byte1
    BY <2>2, SubSeqProperties
  <2> HIDE DEF u
  <2>4. u = <<Byte1>>
    BY <2>3
  <2> QED
    BY <2>1, <2>4
<1>7. Byte1 # NoQuote /\ WhiteSpace \cap Eol = {}
  BY <1>1, ByteAssumption
<1> QED
  BY <1>1, <1>3, <1>5, <1>6, <1>7 DEF PlainClass, Spaces, Marks, Ends

\* A byte that the parser takes into the field is one that RowStream takes.
LEMMA ExtendStep ==
  ASSUME NEW b \in Byte,
         TypeOK, raw \in Seq(Byte), Stands(state, field, trailingSpace, raw, Spaces, Marks),
         UNCHANGED <<delimiter, quote, options, row, rows>>, raw' = Append(raw, b),
         state = "QUOTED_FIELD" \/ (b # SimpleFS /\ b \notin Ends),
         "STRICT" \in options =>
           /\ state = "FIELD" => b \notin Marks
           /\ state = "POSSIBLE_QUOTED_END" => b \in Marks
  PROVE  Promise!Next
<1>1. /\ Promise!Content = <<>> <=> state \in NotBegun
      /\ Promise!IsQuoted <=> state \in {"QUOTED_FIELD", "POSSIBLE_QUOTED_END"}
      /\ Promise!IsOpen <=> state = "QUOTED_FIELD"
  BY StandsTells, PromiseIs DEF TypeOK
<1>2. Promise!Marks = Marks /\ Promise!Ends = Ends
  BY PromiseIs
<1>3. state \in States /\ SimpleFS' = SimpleFS
  BY DEF TypeOK, SimpleFS
<1>4. Promise!IsOpen \/ (b # SimpleFS /\ b \notin Promise!Ends)
  BY <1>1, <1>2
<1>5. ~Promise!Refused(b)
  BY <1>1, <1>2, <1>3 DEF Promise!Refused, States, NotBegun
<1>6. Promise!Extend(b)
  BY <1>3, <1>4, <1>5 DEF Promise!Extend
<1> QED
  BY <1>6 DEF Promise!Next

\* A field that the parser reports is one that RowStream reports.
LEMMA SeparateStep ==
  ASSUME TypeOK, raw \in Seq(Byte), Stands(state, field, trailingSpace, raw, Spaces, Marks),
         UNCHANGED <<delimiter, quote, options, rows>>, raw' = <<>>,
         state # "QUOTED_FIELD", row' = Append(row, field)
  PROVE  Promise!Next
<1>1. (Promise!IsOpen <=> state = "QUOTED_FIELD") /\ Promise!Reported = field
  BY StandsTells, PromiseIs DEF TypeOK
<1>2. SimpleFS' = SimpleFS
  BY DEF SimpleFS
<1>3. Promise!Separate
  BY <1>1, <1>2 DEF Promise!Separate
<1> QED
  BY <1>3 DEF Promise!Next

\* A record that the parser reports is one that RowStream reports, and where
\* the parser passes over an end RowStream does.
LEMMA EndRowStep ==
  ASSUME NEW eol \in Ends \cup {Nul},
         TypeOK, raw \in Seq(Byte), Stands(state, field, trailingSpace, raw, Spaces, Marks),
         UNCHANGED <<delimiter, quote, options>>, raw' = <<>>, row' = <<>>,
         \/ /\ state # "QUOTED_FIELD" \/ eol = Nul
            /\ ~(row = <<>> /\ state \in NotBegun)
            /\ rows' = Append(rows, [fields |-> Append(row, field), eol |-> eol])
         \/ /\ row = <<>> /\ state \in NotBegun
            /\ IF "REPALL_NL" \in options /\ eol # Nul
               THEN rows' = Append(rows, [fields |-> << <<eol>> >>, eol |-> eol])
               ELSE UNCHANGED rows
  PROVE  Promise!Next
<1>1. /\ Promise!Content = <<>> <=> state \in NotBegun
      /\ Promise!IsOpen <=> state = "QUOTED_FIELD"
      /\ Promise!Reported = field
  BY StandsTells, PromiseIs, SMTT(30) DEF TypeOK
<1>2. Promise!Ends = Ends
  BY PromiseIs
<1>3. SimpleFS' = SimpleFS
  BY DEF SimpleFS
<1>4. Promise!Void <=> row = <<>> /\ state \in NotBegun
  BY <1>1 DEF Promise!Void
<1>5. Promise!EndRow(eol) \/ Promise!EmptyRow(eol)
  BY <1>1, <1>3, <1>4 DEF Promise!EndRow, Promise!EmptyRow
<1> QED
  BY <1>2, <1>5 DEF Promise!Next

\* Each byte that parse() takes is a step of RowStream.
LEMMA ReadByteSteps ==
  ASSUME Sound, Reading, ReadByte
  PROVE  /\ Promise!Next
         /\ Stands(state', field', trailingSpace', raw', Spaces, Marks)
         /\ state' \in NotBegun => (state' = "RECORD_NOT_BEGUN" <=> row' = <<>>)
         /\ delimiterPos' = 0
<1> DEFINE b == Byte1
<1>1. PICK s \in BOOLEAN : Accept(s)
  BY DEF ReadByte
<1>2. /\ TypeOK /\ raw \in Seq(Byte) /\ row \in Seq(Seq(Byte))
      /\ state \in States /\ field \in Seq(Byte) /\ trailingSpace \in Seq(Byte)
      /\ spent.finishes = 0
  BY <1>1, AcceptAdvances, SMTT(30) DEF Sound, ClientTyped, Spent, TypeOK, Reading, Advance,
     IdentifyCharacter, InLoop
<1>3. /\ Advance /\ position < Len(input) /\ UNCHANGED <<delimiter, quote, options>>
      /\ delimiterPos' = NextDelimiterPos
      /\ raw' = IF EndsField THEN <<>> ELSE raw \o Consumed
  BY <1>1, AcceptAdvances DEF Advance, IdentifyCharacter, InLoop, config, ReadByte
<1>4. Stands(state, field, trailingSpace, raw, Spaces, Marks)
  BY DEF Reading
<1>5. /\ b \in Byte /\ Consumed = <<b>> /\ NextDelimiterPos = 0 /\ Text = field
      /\ Class \in {"CHAR", "FS", "WHITE_SPACE", "QUOTE", "EOL"}
      /\ Class = "FS" => b = SimpleFS
      /\ Class # "FS" =>
           /\ b # SimpleFS
           /\ Class = "WHITE_SPACE" <=> b \in Spaces
           /\ Class = "QUOTE" <=> b \in Marks
           /\ Class = "EOL" <=> b \in Ends
      /\ SimpleFS \notin Spaces \cup Marks \cup Ends
      /\ Spaces \cap Marks = {}
  BY <1>2, <1>3, ClassOfByte DEF Reading
<1> HIDE DEF b
<1>6. raw \o Consumed = Append(raw, b)
  BY <1>2, <1>5, AppendIsConcat
<1>7. b \in Ends => b # Nul
  BY ByteAssumption DEF Ends
<1>8. state \in NotBegun => (state = "RECORD_NOT_BEGUN" <=> row = <<>>)
  BY <1>2 DEF Reading
<1>9. state \in NotBegun => field = <<>> /\ trailingSpace = <<>>
  BY <1>4 DEF Stands
<1>10. ASSUME Quiet, raw' = Append(raw, b),
              state = "QUOTED_FIELD" \/ (b # SimpleFS /\ b \notin Ends),
              "STRICT" \in options =>
                /\ state = "FIELD" => b \notin Marks
                /\ state = "POSSIBLE_QUOTED_END" => b \in Marks
       PROVE  Promise!Next
  BY <1>2, <1>3, <1>4, <1>5, <1>10, ExtendStep DEF Quiet
<1>11. /\ state \in NotBegun /\ b \in Spaces =>
            Stands(state, field, trailingSpace, Append(raw, b), Spaces, Marks)
       /\ state \in NotBegun \cup {"FIELD"} /\ b \notin Spaces
          /\ (state = "FIELD" \/ b \notin Marks) =>
            Stands("FIELD", Append(field \o trailingSpace, b), <<>>, Append(raw, b), Spaces, Marks)
       /\ state = "FIELD" /\ b \in Spaces =>
            Stands("FIELD", field, Append(trailingSpace, b), Append(raw, b), Spaces, Marks)
  BY <1>2, <1>4, <1>5, StandsGrows
<1>12. /\ state \in NotBegun /\ b \in Marks /\ b \notin Spaces =>
            Stands("QUOTED_FIELD", field, trailingSpace, Append(raw, b), Spaces, Marks)
       /\ state = "QUOTED_FIELD" /\ b \notin Marks =>
            Stands("QUOTED_FIELD", Append(field \o trailingSpace, b), <<>>, Append(raw, b), Spaces, Marks)
       /\ state = "QUOTED_FIELD" /\ b \in Marks =>
            Stands("POSSIBLE_QUOTED_END", field, trailingSpace, Append(raw, b), Spaces, Marks)
       /\ state = "POSSIBLE_QUOTED_END" /\ b \in Marks =>
            Stands("QUOTED_FIELD", Append(field \o trailingSpace, b), <<>>, Append(raw, b), Spaces, Marks)
  BY <1>2, <1>4, <1>5, QuotedGrows
<1>13. ASSUME NEW next \in NotBegun PROVE Stands(next, <<>>, <<>>, <<>>, Spaces, Marks)
  BY NothingStands
<1>14. CASE PassOver
  <2>1. /\ field' = field /\ trailingSpace' = trailingSpace /\ state' = state /\ Quiet
        /\ \/ Class = "WHITE_SPACE" /\ state \in NotBegun
           \/ Class = "EOL" /\ state = "RECORD_NOT_BEGUN" /\ "REPALL_NL" \notin options
    BY <1>5, <1>14 DEF PassOver
  <2>2. CASE Class = "WHITE_SPACE" /\ state \in NotBegun
    <3>1. raw' = Append(raw, b) /\ b \in Spaces /\ b # SimpleFS /\ b \notin Ends
      BY <1>3, <1>5, <1>6, <2>2 DEF EndsField
    <3>2. Promise!Next
      BY <1>10, <2>1, <2>2, <3>1 DEF NotBegun
    <3> QED
      BY <1>3, <1>5, <1>8, <1>11, <2>1, <2>2, <3>1, <3>2 DEF Quiet
  <2>3. CASE Class = "EOL" /\ state = "RECORD_NOT_BEGUN" /\ "REPALL_NL" \notin options
    <3>1. raw' = <<>> /\ b \in Ends /\ state \in NotBegun /\ row = <<>>
      BY <1>3, <1>5, <1>8, <2>3 DEF EndsField, NotBegun
    <3>2. Promise!Next
      BY <1>2, <1>3, <1>4, <2>1, <2>3, <3>1, EndRowStep DEF Quiet
    <3> QED
      BY <1>3, <1>5, <1>9, <1>13, <2>1, <2>3, <3>1, <3>2 DEF Quiet
  <2> QED
    BY <2>1, <2>2, <2>3
<1>15. CASE ReportEmptyRow(s)
  <2>1. /\ state = "RECORD_NOT_BEGUN" /\ "REPALL_NL" \in options /\ Class = "EOL"
        /\ rows' = Append(rows, [fields |-> Append(row, Append(field, b)), eol |-> b])
        /\ row' = <<>> /\ state' = "RECORD_NOT_BEGUN" /\ field' = <<>> /\ trailingSpace' = <<>>
    BY <1>5, <1>15 DEF ReportEmptyRow, FireRecord, ClearField, b
  <2>2. /\ raw' = <<>> /\ b \in Ends /\ b # Nul /\ state \in NotBegun /\ row = <<>>
        /\ field = <<>>
    BY <1>3, <1>5, <1>7, <1>8, <1>9, <2>1 DEF EndsField, NotBegun
  <2>3. Append(row, Append(field, b)) = << <<b>> >>
    BY <2>2
  <2>4. Promise!Next
    BY <1>2, <1>3, <1>4, <2>1, <2>2, <2>3, EndRowStep
  <2> QED
    BY <1>3, <1>5, <1>13, <2>1, <2>2, <2>4 DEF NotBegun
<1>16. CASE EndField(s)
  <2>1. /\ state # "QUOTED_FIELD" /\ Class = "FS"
        /\ row' = Append(row, field) /\ state' = "FIELD_NOT_BEGUN" /\ rows' = rows
        /\ field' = <<>> /\ trailingSpace' = <<>>
    BY <1>5, <1>16 DEF EndField, FireField, ClearField
  <2>2. raw' = <<>> /\ row' # <<>>
    BY <1>2, <1>3, <2>1, AppendProperties, ZenonT(60) DEF EndsField
  <2>3. Promise!Next
    BY <1>2, <1>3, <1>4, <2>1, <2>2, SeparateStep
  <2> QED
    BY <1>3, <1>5, <1>13, <2>1, <2>2, <2>3 DEF NotBegun
<1>17. CASE EndRecord(s)
  <2>1. /\ state \notin {"RECORD_NOT_BEGUN", "QUOTED_FIELD"} /\ Class = "EOL"
        /\ rows' = Append(rows, [fields |-> Append(row, field), eol |-> b])
        /\ row' = <<>> /\ state' = "RECORD_NOT_BEGUN" /\ field' = <<>> /\ trailingSpace' = <<>>
    BY <1>5, <1>17 DEF EndRecord, FireRecord, ClearField, b
  <2>2. raw' = <<>> /\ b \in Ends /\ ~(row = <<>> /\ state \in NotBegun)
    BY <1>3, <1>5, <1>8, <2>1 DEF EndsField, NotBegun
  <2>3. Promise!Next
    BY <1>2, <1>3, <1>4, <2>1, <2>2, EndRowStep
  <2> QED
    BY <1>3, <1>5, <1>13, <2>1, <2>2, <2>3 DEF NotBegun
<1>18. CASE OpenQuote
  <2>1. /\ state \in NotBegun /\ Class = "QUOTE" /\ state' = "QUOTED_FIELD"
        /\ field' = field /\ trailingSpace' = trailingSpace /\ Quiet
    BY <1>5, <1>18 DEF OpenQuote
  <2>2. raw' = Append(raw, b) /\ b \in Marks /\ b \notin Spaces /\ b # SimpleFS /\ b \notin Ends
    BY <1>3, <1>5, <1>6, <2>1 DEF EndsField
  <2>3. Promise!Next
    BY <1>10, <2>1, <2>2 DEF NotBegun
  <2> QED
    BY <1>3, <1>5, <1>12, <2>1, <2>2, <2>3 DEF NotBegun
<1>19. CASE FieldByte
  <2>1. /\ \/ Class = "CHAR" /\ state \in NotBegun \cup {"FIELD"}
           \/ Class = "QUOTE" /\ state = "FIELD" /\ "STRICT" \notin options
        /\ field' = Append(field \o trailingSpace, b) /\ trailingSpace' = <<>>
        /\ state' = "FIELD" /\ Quiet
    BY <1>5, <1>19 DEF FieldByte, Keep, b
  <2>2. /\ raw' = Append(raw, b) /\ b \notin Spaces /\ b # SimpleFS /\ b \notin Ends
        /\ b \in Marks => state = "FIELD" /\ "STRICT" \notin options
    BY <1>3, <1>5, <1>6, <2>1 DEF EndsField
  <2>3. Promise!Next
    BY <1>10, <2>1, <2>2 DEF NotBegun
  <2> QED
    BY <1>3, <1>5, <1>11, <2>1, <2>2, <2>3 DEF NotBegun
<1>20. CASE FieldSpace
  <2>1. /\ state = "FIELD" /\ Class = "WHITE_SPACE" /\ state' = "FIELD" /\ field' = field
        /\ trailingSpace' = Append(trailingSpace, b) /\ Quiet
    BY <1>5, <1>20 DEF FieldSpace, b
  <2>2. raw' = Append(raw, b) /\ b \in Spaces /\ b \notin Marks /\ b # SimpleFS /\ b \notin Ends
    BY <1>3, <1>5, <1>6, <2>1 DEF EndsField
  <2>3. Promise!Next
    BY <1>10, <2>1, <2>2
  <2> QED
    BY <1>3, <1>5, <1>11, <2>1, <2>2, <2>3 DEF NotBegun
<1>21. CASE QuotedByte
  <2>1. /\ state = "QUOTED_FIELD" /\ Class # "QUOTE"
        /\ field' = Append(field \o trailingSpace, b) /\ trailingSpace' = <<>>
        /\ state' = "QUOTED_FIELD" /\ Quiet
    BY <1>5, <1>21 DEF QuotedByte, Keep, b
  <2>2. raw' = Append(raw, b) /\ b \notin Marks
    BY <1>3, <1>5, <1>6, <2>1 DEF EndsField
  <2>3. Promise!Next
    BY <1>10, <2>1, <2>2
  <2> QED
    BY <1>3, <1>5, <1>12, <2>1, <2>2, <2>3 DEF NotBegun
<1>22. CASE QuoteInQuoted
  <2>1. /\ state = "QUOTED_FIELD" /\ Class = "QUOTE" /\ state' = "POSSIBLE_QUOTED_END"
        /\ field' = field /\ trailingSpace' = trailingSpace /\ Quiet
    BY <1>5, <1>22 DEF QuoteInQuoted
  <2>2. raw' = Append(raw, b) /\ b \in Marks
    BY <1>3, <1>5, <1>6, <2>1 DEF EndsField
  <2>3. Promise!Next
    BY <1>10, <2>1, <2>2
  <2> QED
    BY <1>3, <1>5, <1>12, <2>1, <2>2, <2>3 DEF NotBegun
<1>23. CASE DoubledQuote
  <2>1. /\ state = "POSSIBLE_QUOTED_END" /\ Class = "QUOTE"
        /\ field' = Append(field \o trailingSpace, b) /\ trailingSpace' = <<>>
        /\ state' = "QUOTED_FIELD" /\ Quiet
    BY <1>5, <1>23 DEF DoubledQuote, Keep, b
  <2>2. raw' = Append(raw, b) /\ b \in Marks /\ b # SimpleFS /\ b \notin Ends
    BY <1>3, <1>5, <1>6, <2>1 DEF EndsField
  <2>3. Promise!Next
    BY <1>10, <2>1, <2>2
  <2> QED
    BY <1>3, <1>5, <1>12, <2>1, <2>2, <2>3 DEF NotBegun
<1>24. CASE StrayQuote
  <2>1. /\ state = "POSSIBLE_QUOTED_END" /\ "STRICT" \notin options
        /\ Class \in {"WHITE_SPACE", "CHAR"}
        /\ field' = Append((field \o QuoteText) \o trailingSpace, b) /\ trailingSpace' = <<>>
        /\ state' = "QUOTED_FIELD" /\ Quiet
    BY <1>5, <1>24 DEF StrayQuote, Keep, b
  <2>2. raw' = Append(raw, b) /\ b \notin Marks /\ b # SimpleFS /\ b \notin Ends
    BY <1>3, <1>5, <1>6, <2>1 DEF EndsField
  <2>3. Promise!Next
    BY <1>10, <2>1, <2>2
  <2>4. PICK m \in Marks : m \in Byte /\
          Stands("QUOTED_FIELD", Append((field \o <<m>>) \o trailingSpace, b), <<>>,
                 Append(raw, b), Spaces, Marks)
    <3>1. StandsWithQuote(field, trailingSpace, raw, b, Spaces, Marks)
      BY <1>2, <1>4, <1>5, <2>1, <2>2, QuotedGrows
    <3> QED
      BY <3>1 DEF StandsWithQuote
  <2>5. QuoteText = <<m>>
    BY <2>4, ByteAssumption DEF QuoteText, Marks
  <2> QED
    BY <1>3, <1>5, <2>1, <2>2, <2>3, <2>4, <2>5 DEF NotBegun
<1> QED
  BY <1>1, <1>14, <1>15, <1>16, <1>17, <1>18, <1>19, <1>20, <1>21, <1>22, <1>23, <1>24 DEF Accept

\* Every step of the caller and the parser is a step of RowStream or none.
LEMMA ReadingStep ==
  ASSUME OneText, Sound, Reading, [ClientNext]_clientVars
  PROVE  Reading' /\ [Promise!Next]_Promise!vars
<1>0. /\ TypeOK /\ TypeOK' /\ ClientTyped
      /\ raw \in Seq(Byte) /\ row \in Seq(Seq(Byte))
      /\ state \in States /\ field \in Seq(Byte) /\ trailingSpace \in Seq(Byte)
      /\ spent.formats \in Nat /\ spent.finishes \in Nat /\ spent.resets \in Nat
      /\ plan \in DOMAIN Plans
  BY ClientSoundStep DEF Sound, ClientTyped, Spent, TypeOK
<1>1. /\ Plans[plan].formats \in Nat /\ Plans[plan].formats =< 1
      /\ Plans[plan].finishes \in Nat /\ Plans[plan].finishes =< 1
      /\ Plans[plan].resets = 0 /\ ~Plans[plan].reuse
      /\ \A d \in Delimiters : Len(d) =< 1
  BY <1>0, PlansAssumption DEF OneText
<1>2. /\ Len(delimiter) =< 1 /\ delimiterPos = 0
      /\ Stands(state, field, trailingSpace, raw, Spaces, Marks)
      /\ spent.formats = 0 => call = "idle" /\ raw = <<>>
      /\ spent.finishes > 0 => call = "idle"
      /\ spent.finishes = 0 /\ state \in NotBegun =>
           (state = "RECORD_NOT_BEGUN" <=> row = <<>>)
  BY DEF Reading
<1>3. ASSUME UNCHANGED <<delimiter, quote>>
      PROVE  SimpleFS' = SimpleFS /\ Spaces' = Spaces /\ Marks' = Marks
  BY <1>3 DEF SimpleFS, Spaces, Marks
<1>4. CASE ChooseFormat
  <2>1. spent.formats = 0 /\ spent'.formats = 1 /\ raw = <<>> /\ raw' = <<>>
    BY <1>0, <1>1, <1>2, <1>4, PlanSpent DEF ChooseFormat, history
  <2>2. state \in NotBegun /\ field = <<>> /\ trailingSpace = <<>>
    <3>1. Body(raw, Spaces) = <<>>
      BY <2>1, BodyIs, EmptySeq
    <3>2. state \in NotBegun
      BY <1>0, <1>2, <3>1, StandsTells
    <3> QED
      BY <1>2, <3>2 DEF Stands
  <2>3. /\ UNCHANGED <<options, call, state, field, trailingSpace, row, rows>>
        /\ Len(delimiter') =< 1 /\ delimiterPos' = 0
    BY <1>1, <1>2, <1>4
       DEF ChooseFormat, Configure, SetDelimiter, SetQuote, ApplyFormat, text
  <2>4. Stands(state', field', trailingSpace', raw', Spaces', Marks')
    BY <2>1, <2>2, <2>3, NothingStands
  <2>5. spent'.finishes = spent.finishes
    <3>1. spent' = [spent EXCEPT !.formats = @ + 1]
      BY <1>4 DEF ChooseFormat
    <3> QED
      BY <1>0, <3>1 DEF ClientTyped, Spent
  <2>6. Promise!Reformat
    <3>1. SimpleFS' \in Byte /\ quote' \in Byte \cup {NoQuote}
      <4> DEFINE d == delimiter'
      <4>1. d \in Seq(Byte) /\ quote' \in Byte \cup {NoQuote}
        BY <1>0 DEF TypeOK
      <4>2. SimpleFS' = IF d = <<>> THEN Nul ELSE d[1]
        BY DEF SimpleFS
      <4> HIDE DEF d
      <4>3. d # <<>> => d[1] \in Byte
        BY <4>1, EmptySeq
      <4> QED
        BY <4>1, <4>2, <4>3, ByteAssumption
    <3> QED
      BY <2>1, <2>3, <3>1 DEF Promise!Reformat
  <2> QED
    BY <1>2, <2>1, <2>3, <2>4, <2>5, <2>6 DEF Reading, Promise!Next
<1>5. CASE FeedChunk
  <2>1. /\ spent.finishes = 0 /\ spent.formats > 0 /\ spent' = spent
        /\ UNCHANGED <<delimiter, quote, options, delimiterPos, state, field,
                       trailingSpace, row, rows, raw>>
    BY <1>1, <1>5 DEF FeedChunk, Parse, config
  <2>2. SimpleFS' = SimpleFS /\ Spaces' = Spaces /\ Marks' = Marks
    BY <1>3, <2>1
  <2> QED
    BY <1>2, <2>1, <2>2 DEF Reading, Promise!vars
<1>6. CASE ReadByte
  <2>1. /\ Promise!Next
        /\ Stands(state', field', trailingSpace', raw', Spaces, Marks)
        /\ state' \in NotBegun => (state' = "RECORD_NOT_BEGUN" <=> row' = <<>>)
        /\ delimiterPos' = 0
    BY <1>6, ReadByteSteps
  <2>2. /\ UNCHANGED <<delimiter, quote, call>> /\ call # "idle"
        /\ spent'.formats = spent.formats /\ spent'.finishes = spent.finishes
    <3>1. Advance
      BY <1>6, AcceptAdvances DEF ReadByte
    <3> QED
      BY <1>0, <1>6, <3>1, PlanSpent DEF Advance, IdentifyCharacter, InLoop, config, ClientLoop
  <2>3. Spaces' = Spaces /\ Marks' = Marks
    BY <1>3, <2>2
  <2> QED
    BY <1>2, <2>1, <2>2, <2>3 DEF Reading
<1>7. CASE RefuseByte
  <2>1. /\ call # "idle" /\ position < Len(input) /\ delimiterPos' = NextDelimiterPos
        /\ field' = Text /\ spent' = spent
        /\ UNCHANGED <<delimiter, quote, options, state, trailingSpace, row, rows, raw>>
    BY <1>7 DEF RefuseByte, StrictError, IdentifyCharacter, InLoop, config, Quiet
  <2>2. NextDelimiterPos = 0 /\ Text = field
    BY <1>0, <1>2, <2>1, ClassOfByte
  <2>3. SimpleFS' = SimpleFS /\ Spaces' = Spaces /\ Marks' = Marks
    BY <1>3, <2>1
  <2> QED
    BY <1>0, <1>2, <2>1, <2>2, <2>3 DEF Reading, Promise!vars
<1>8. CASE EndLoop
  <2>1. /\ call # "idle" /\ spent' = spent
        /\ UNCHANGED <<delimiter, quote, options, delimiterPos, state, field,
                       trailingSpace, row, rows, raw>>
    BY <1>8 DEF EndLoop, LeaveLoop, config, history
  <2>2. SimpleFS' = SimpleFS /\ Spaces' = Spaces /\ Marks' = Marks
    BY <1>3, <2>1
  <2> QED
    BY <1>0, <1>2, <2>1, <2>2 DEF Reading, Promise!vars
<1>9. CASE EndText
  <2>1. PICK s \in BOOLEAN : Finish(s)
    BY <1>9 DEF EndText
  <2>2. /\ spent.finishes = 0 /\ spent'.finishes = 1
    BY <1>0, <1>1, <1>9, PlanSpent DEF EndText
  <2>3. spent'.formats = spent.formats
    <3> DEFINE more  == spent.finishes + 1
               total == spent.stops + IF stop' /\ ~stop THEN 1 ELSE 0
    <3>1. spent' = [spent EXCEPT !.finishes = more, !.stops = total]
      BY <1>9 DEF EndText
    <3> HIDE DEF more, total
    <3> QED
      BY <1>0, <3>1, Zenon DEF ClientTyped, Spent
  <2>4. /\ call = "idle" /\ call' = "idle"
        /\ UNCHANGED <<delimiter, quote, options, delimiterPos>>
    BY <2>1 DEF Finish, FinishStopped, FinishFailed, FinishRow, FinishNothing, FinishReturns, config
  <2>5. SimpleFS' = SimpleFS /\ Spaces' = Spaces /\ Marks' = Marks
    BY <1>3, <2>4
  <2>6. CASE FinishStopped \/ FinishFailed
    <3>1. raw' = raw /\ UNCHANGED <<state, field, trailingSpace, row, rows>>
      BY <1>9, <2>6 DEF EndText, FinishStopped, FinishFailed, FinishReturns
    <3> QED
      BY <1>2, <2>2, <2>3, <2>4, <2>5, <3>1 DEF Reading, Promise!vars
  <2>7. CASE FinishRow(s) \/ FinishNothing
    <3>1. /\ ~stop /\ result'.value = 0
      BY <2>7 DEF FinishRow, FinishNothing, FinishReturns
    <3>2. /\ raw' = <<>> /\ state' = "FIELD_NOT_BEGUN" /\ field' = <<>> /\ trailingSpace' = <<>>
      BY <1>9, <2>7, <3>1 DEF EndText, FinishRow, FinishNothing, ClearField
    <3>3. Stands(state', field', trailingSpace', raw', Spaces', Marks')
      BY <3>2, NothingStands DEF NotBegun
    <3>4. Promise!Next
      <4>1. CASE FinishRow(s)
        <5>1. /\ state # "RECORD_NOT_BEGUN" /\ row' = <<>>
              /\ rows' = Append(rows, [fields |-> Append(row, field), eol |-> Nul])
          BY <4>1 DEF FinishRow
        <5>2. ~(row = <<>> /\ state \in NotBegun)
          BY <1>2, <2>2, <5>1
        <5> QED
          BY <1>0, <1>2, <2>4, <3>2, <5>1, <5>2, EndRowStep
      <4>2. CASE FinishNothing
        <5>1. state = "RECORD_NOT_BEGUN" /\ row' = row /\ rows' = rows
          BY <4>2 DEF FinishNothing
        <5>2. row = <<>> /\ state \in NotBegun
          BY <1>2, <2>2, <5>1 DEF NotBegun
        <5> QED
          BY <1>0, <1>2, <2>4, <3>2, <5>1, <5>2, EndRowStep
      <4> QED
        BY <2>7, <4>1, <4>2
    <3> QED
      BY <1>2, <2>2, <2>3, <2>4, <3>2, <3>3, <3>4 DEF Reading
  <2> QED
    BY <2>1, <2>6, <2>7 DEF Finish
<1>10. CASE StopParser
  <2>1. UNCHANGED <<delimiter, quote, options, delimiterPos, state, field, call,
                    trailingSpace, row, rows, raw>>
    BY <1>10 DEF StopParser, Stop, config, text, history
  <2>2. spent'.formats = spent.formats /\ spent'.finishes = spent.finishes
    BY <1>0, <1>10, PlanSpent
  <2>3. SimpleFS' = SimpleFS /\ Spaces' = Spaces /\ Marks' = Marks
    BY <1>3, <2>1
  <2> QED
    BY <1>2, <2>1, <2>2, <2>3 DEF Reading, Promise!vars
<1>11. CASE ClearState
  BY <1>0, <1>1, <1>11 DEF ClearState
<1>12. CASE UNCHANGED clientVars
  <2>1. UNCHANGED <<delimiter, quote, options, delimiterPos, state, field, call,
                    trailingSpace, row, rows, raw, spent>>
    BY <1>12 DEF clientVars, vars, config, text, history
  <2>2. SimpleFS' = SimpleFS /\ Spaces' = Spaces /\ Marks' = Marks
    BY <1>3, <2>1
  <2> QED
    BY <1>2, <2>1, <2>2 DEF Reading, Promise!vars
<1> QED
  BY <1>4, <1>5, <1>6, <1>7, <1>8, <1>9, <1>10, <1>11, <1>12 DEF ClientNext, ClientLoop

\* The parser starts where RowStream does.
LEMMA ReadingInit == ClientInit => Reading /\ Promise!Init
<1> SUFFICES ASSUME ClientInit PROVE Reading /\ Promise!Init
  OBVIOUS
<1>1. /\ state = "RECORD_NOT_BEGUN" /\ field = <<>> /\ trailingSpace = <<>> /\ raw = <<>>
      /\ row = <<>> /\ rows = <<>> /\ delimiter = <<>> /\ delimiterPos = 0 /\ call = "idle"
      /\ spent.finishes = 0
  BY DEF ClientInit, Init, NewParser
<1>2. Stands(state, field, trailingSpace, raw, Spaces, Marks)
  BY <1>1, NothingStands DEF NotBegun
<1> QED
  BY <1>1, <1>2, EmptySeq DEF Reading, Promise!Init

\* For every text, every way to cut it into chunks, every set of bytes that
\* are white space, quote and end lines, every option word and any number of
\* stops: the parser reports the rows and the values that the bytes it
\* consumed stand for, and what it holds in between is the value so far.
THEOREM TheRowsAreReported ==
  ASSUME OneText
  PROVE  ClientSpec => ReportsTheRows
<1>1. ClientInit => Sound /\ Reading /\ Promise!Init
  BY ClientSoundInit, ReadingInit
<1>2. Sound /\ Reading /\ [ClientNext]_clientVars
        => Sound' /\ Reading' /\ [Promise!Next]_Promise!vars
  BY ClientSoundStep, ReadingStep
<1> QED
  BY <1>1, <1>2, PTL DEF ClientSpec, ReportsTheRows, Promise!Spec
-----------------------------------------------------------------------------
(* The two callbacks of a row's end. *)

\* After stop() no step without a record callback reports anything.
LEMMA StoppedIsQuiet ==
  ASSUME Next, stop, stop'
  PROVE  UNCHANGED <<row, rows>>
<1>1. \A s \in BOOLEAN : ~Accept(s)
  BY AcceptAdvances DEF Advance, IdentifyCharacter, InLoop
<1>2. ~StrictError
  BY DEF StrictError, IdentifyCharacter, InLoop
<1>3. CASE LeaveLoop
  BY <1>3 DEF LeaveLoop
<1>4. \A c \in Chunks : ~Parse(c)
  BY DEF Parse
<1>5. ASSUME NEW s \in BOOLEAN, Finish(s) PROVE UNCHANGED <<row, rows>>
  BY <1>5 DEF Finish, FinishStopped, FinishFailed, FinishRow, FinishNothing
<1>6. CASE ResetState \/ Stop \/ Configure
  BY <1>6 DEF ResetState, Stop, Configure, SetDelimiter, SetQuote, ApplyFormat
<1> QED
  BY <1>1, <1>2, <1>3, <1>4, <1>5, <1>6 DEF Next, Loop

\* After stop() nothing is reported before the next parse() but the record
\* whose last field was being reported.
THEOREM StopLeavesOneRecord == CallbackSpec => OnlyTheDueRecordAfterStop
<1> DEFINE Reported ==
      \/ UNCHANGED <<row, rows>>
      \/ /\ due # <<>> /\ due' = <<>>
         /\ rows' = Append(rows, [fields |-> row, eol |-> due[1].eol])
         /\ row' = <<>>
<1>1. [CallbackNext]_callbackVars => [stop /\ stop' => Reported]_callbackVars
  <2> SUFFICES ASSUME CallbackNext, stop, stop' PROVE Reported
    OBVIOUS
  <2>1. CASE Undivided
    BY <2>1, StoppedIsQuiet DEF Undivided
  <2>2. \A s \in BOOLEAN : ~ReachRowEnd(s) /\ ~FinishLastField(s)
    BY DEF ReachRowEnd, InLoop, FinishLastField
  <2>3. ASSUME NEW t \in BOOLEAN, ReportRecord(t) \/ FinishRecord(t) PROVE Reported
    BY <2>3 DEF ReportRecord, FinishRecord, FireDueRecord
  <2> QED
    BY <2>1, <2>2, <2>3 DEF CallbackNext
<1> QED
  BY <1>1, PTL DEF CallbackSpec, OnlyTheDueRecordAfterStop

(* The two callbacks in two steps implement the one step. *)

\* What is due: the record of the row that ends at the byte in hand, or with
\* the text, of which the last field has been reported. The parser in one step
\* is still in front of it.
DueValue ==
  IF Shown.state = "RECORD_NOT_BEGUN" THEN Append(Atomic!Text, Atomic!Byte1) ELSE Atomic!Text

DueInTurn ==
  /\ Atomic!InLoop
  /\ Atomic!Class = "EOL"
  /\ \/ Shown.state = "RECORD_NOT_BEGUN" /\ "REPALL_NL" \in options
     \/ Shown.state \notin {"RECORD_NOT_BEGUN", "QUOTED_FIELD"}
  /\ position = Atomic!NextPosition
  /\ characterClass = Atomic!Class
  /\ delimiterPos = Atomic!NextDelimiterPos
  /\ row = Append(Shown.row, DueValue)
  /\ due[1].eol = Atomic!Byte1

DueInFinish ==
  /\ Shown.stop = FALSE
  /\ status = "SUCCESS" /\ ~Atomic!OpenQuoteError
  /\ Shown.state # "RECORD_NOT_BEGUN"
  /\ position = Shown.position
  /\ characterClass = Shown.characterClass
  /\ delimiterPos = Shown.delimiterPos
  /\ row = Append(Shown.row, Shown.field)
  /\ due[1].eol = Nul

DueIsKnown ==
  due # <<>> =>
    /\ Shown.stop = FALSE
    /\ stop \in BOOLEAN
    /\ field = <<>> /\ trailingSpace = <<>>
    /\ IF call = "idle" THEN DueInFinish ELSE DueInTurn

\* While nothing is due the two parsers are in the same state.
LEMMA ShownIsNow ==
  ASSUME due = <<>>
  PROVE  /\ Shown.position = position /\ Shown.characterClass = characterClass
         /\ Shown.delimiterPos = delimiterPos /\ Shown.state = state
         /\ Shown.stop = stop /\ Shown.field = field
         /\ Shown.trailingSpace = trailingSpace /\ Shown.row = row
BY DEF Shown, Now

\* So they see the same character.
LEMMA SameCharacter ==
  ASSUME due = <<>>
  PROVE  /\ Atomic!Byte1 = Byte1 /\ Atomic!Text = Text /\ Atomic!Class = Class
         /\ Atomic!NextPosition = NextPosition
         /\ Atomic!NextDelimiterPos = NextDelimiterPos
         /\ Atomic!InLoop = InLoop
         /\ Atomic!OpenQuoteError = OpenQuoteError
         /\ Atomic!QuoteText = QuoteText
<1> USE ShownIsNow
<1>1. Atomic!Byte1 = Byte1 /\ Atomic!QuoteText = QuoteText
  BY DEF Byte1, Atomic!Byte1, QuoteText, Atomic!QuoteText
<1>2. Atomic!Ahead = Ahead
  BY DEF Ahead, Atomic!Ahead, Smaller, Atomic!Smaller
<1>3. Atomic!Compound = Compound /\ Atomic!SimpleFS = SimpleFS
  BY DEF Compound, Atomic!Compound, SimpleFS, Atomic!SimpleFS
<1>4. Atomic!Amount = Amount
  BY <1>2 DEF Amount, Atomic!Amount, Smaller, Atomic!Smaller
<1>5. \A k : Atomic!Continues(k) = Continues(k)
  BY <1>2, <1>4 DEF Continues, Atomic!Continues
<1>6. Atomic!Broken = Broken
  BY <1>3, <1>5 DEF Broken, Atomic!Broken
<1>7. Atomic!Spill = Spill /\ Atomic!Matched = Matched
  BY <1>6 DEF Spill, Atomic!Spill, Matched, Atomic!Matched
<1>8. Atomic!InDelimiter = InDelimiter
  BY <1>3, <1>5, <1>6 DEF InDelimiter, Atomic!InDelimiter
<1>9. \A b : Atomic!PlainClass(b) = PlainClass(b)
  BY DEF PlainClass, Atomic!PlainClass
<1>10. Atomic!Class = Class
  BY <1>1, <1>3, <1>4, <1>7, <1>8, <1>9 DEF Class, Atomic!Class
<1>11. Atomic!NextPosition = NextPosition
  BY <1>4, <1>8 DEF NextPosition, Atomic!NextPosition
<1>12. Atomic!NextDelimiterPos = NextDelimiterPos
  BY <1>4, <1>7, <1>8, <1>10 DEF NextDelimiterPos, Atomic!NextDelimiterPos
<1>13. Atomic!Text = Text
  BY <1>7 DEF Text, Atomic!Text
<1>14. Atomic!InLoop = InLoop /\ Atomic!OpenQuoteError = OpenQuoteError
  BY DEF InLoop, Atomic!InLoop, OpenQuoteError, Atomic!OpenQuoteError
<1> QED
  BY <1>1, <1>10, <1>11, <1>12, <1>13, <1>14


\* After a step that leaves nothing due as well.
LEMMA ShownIsNowNext ==
  ASSUME due' = <<>>
  PROVE  /\ Shown'.position = position' /\ Shown'.characterClass = characterClass'
         /\ Shown'.delimiterPos = delimiterPos' /\ Shown'.state = state'
         /\ Shown'.stop = stop' /\ Shown'.field = field'
         /\ Shown'.trailingSpace = trailingSpace' /\ Shown'.row = row'
BY DEF Shown, Now

\* A turn of the loop with nothing due before and behind it is a turn of the
\* parser in one step.
LEMMA SameTurn ==
  ASSUME due = <<>>, due' = <<>>, NEW s \in BOOLEAN, Accept(s)
  PROVE  Atomic!Accept(s)
<1> USE ShownIsNow, ShownIsNowNext, SameCharacter
<1> USE DEF config, Atomic!config, Quiet, Atomic!Quiet, ClearField, Atomic!ClearField,
        Keep, Atomic!Keep, NotBegun, Atomic!NotBegun
<1>1. Advance /\ Atomic!Advance /\ Atomic!InLoop
  <2>1. Advance
    BY AcceptAdvances
  <2> QED
    BY <2>1 DEF Advance, Atomic!Advance, IdentifyCharacter, Atomic!IdentifyCharacter
<1>2. CASE PassOver
  BY <1>1, <1>2 DEF PassOver, Atomic!PassOver, Atomic!Accept
<1>3. CASE ReportEmptyRow(s)
  BY <1>1, <1>3 DEF ReportEmptyRow, Atomic!ReportEmptyRow, FireRecord, Atomic!FireRecord, Atomic!Accept
<1>4. CASE EndField(s)
  BY <1>1, <1>4 DEF EndField, Atomic!EndField, FireField, Atomic!FireField, Atomic!Accept
<1>5. CASE EndRecord(s)
  BY <1>1, <1>5 DEF EndRecord, Atomic!EndRecord, FireRecord, Atomic!FireRecord, Atomic!Accept
<1>6. CASE OpenQuote
  BY <1>1, <1>6 DEF OpenQuote, Atomic!OpenQuote, Atomic!Accept
<1>7. CASE FieldByte
  BY <1>1, <1>7 DEF FieldByte, Atomic!FieldByte, Atomic!Accept
<1>8. CASE FieldSpace
  BY <1>1, <1>8 DEF FieldSpace, Atomic!FieldSpace, Atomic!Accept
<1>9. CASE QuotedByte
  BY <1>1, <1>9 DEF QuotedByte, Atomic!QuotedByte, Atomic!Accept
<1>10. CASE QuoteInQuoted
  BY <1>1, <1>10 DEF QuoteInQuoted, Atomic!QuoteInQuoted, Atomic!Accept
<1>11. CASE DoubledQuote
  BY <1>1, <1>11 DEF DoubledQuote, Atomic!DoubledQuote, Atomic!Accept
<1>12. CASE StrayQuote
  BY <1>1, <1>12 DEF StrayQuote, Atomic!StrayQuote, Atomic!Accept
<1> QED
  BY <1>2, <1>3, <1>4, <1>5, <1>6, <1>7, <1>8, <1>9, <1>10, <1>11, <1>12 DEF Accept

\* So is every other step.
LEMMA SameStep ==
  ASSUME due = <<>>, due' = <<>>, Next
  PROVE  Atomic!Next
<1> USE ShownIsNow, ShownIsNowNext, SameCharacter
<1> USE DEF config, Atomic!config, text, Atomic!text, Quiet, Atomic!Quiet,
        ClearField, Atomic!ClearField
<1>1. ASSUME NEW s \in BOOLEAN, Accept(s) PROVE Atomic!Next
  BY <1>1, SameTurn DEF Atomic!Loop, Atomic!Next
<1>2. CASE StrictError
  <2>1. Leave(NextPosition - 1, NextPosition) => Atomic!Leave(NextPosition - 1, NextPosition)
    BY DEF Leave, Atomic!Leave
  <2> QED
    BY <1>2, <2>1 DEF StrictError, Atomic!StrictError, IdentifyCharacter,
       Atomic!IdentifyCharacter, Atomic!Loop, Atomic!Next
<1>3. CASE LeaveLoop
  <2> DEFINE v == IF status = "SUCCESS" THEN position ELSE -1
  <2>1. Leave(v, position) => Atomic!Leave(v, position)
    BY DEF Leave, Atomic!Leave
  <2> QED
    BY <1>3, <2>1 DEF LeaveLoop, Atomic!LeaveLoop, Atomic!Loop, Atomic!Next
<1>4. ASSUME NEW c \in Chunks, Parse(c) PROVE Atomic!Next
  BY <1>4 DEF Parse, Atomic!Parse, Atomic!Next
<1>5. ASSUME NEW s \in BOOLEAN, Finish(s) PROVE Atomic!Next
  <2>1. \A v : FinishReturns(v) => Atomic!FinishReturns(v)
    BY DEF FinishReturns, Atomic!FinishReturns
  <2>2. Atomic!Finish(s)
    <3>1. CASE FinishStopped
      BY <2>1, <3>1 DEF FinishStopped, Atomic!FinishStopped, Atomic!Finish
    <3>2. CASE FinishFailed
      BY <2>1, <3>2 DEF FinishFailed, Atomic!FinishFailed, Atomic!Finish
    <3>3. CASE FinishRow(s)
      <4>1. ~Atomic!OpenQuoteError /\ Atomic!FinishReturns(0) /\ Atomic!ClearField
        BY <2>1, <3>3 DEF FinishRow
      <4>2. Atomic!FinishRow(s)
        BY <3>3, <4>1 DEF FinishRow, Atomic!FinishRow
      <4> QED
        BY <4>2 DEF Atomic!Finish
    <3>4. CASE FinishNothing
      BY <2>1, <3>4 DEF FinishNothing, Atomic!FinishNothing, Atomic!Finish
    <3> QED
      BY <1>5, <3>1, <3>2, <3>3, <3>4 DEF Finish
  <2> QED
    BY <2>2 DEF Atomic!Next
<1>6. CASE ResetState
  BY <1>6 DEF ResetState, Atomic!ResetState, Atomic!Next
<1>7. CASE Stop
  BY <1>7 DEF Stop, Atomic!Stop, Atomic!Next
<1>8. CASE Configure
  BY <1>8 DEF Configure, Atomic!Configure, SetDelimiter, Atomic!SetDelimiter,
     SetQuote, Atomic!SetQuote, ApplyFormat, Atomic!ApplyFormat, Atomic!Next
<1> QED
  BY <1>1, <1>2, <1>3, <1>4, <1>5, <1>6, <1>7, <1>8 DEF Next, Loop

\* The field callback of a row's last field leaves the parser in one step where
\* it is.
LEMMA LastFieldIsHidden ==
  ASSUME due = <<>>, NEW value, NEW eol, NEW s \in BOOLEAN, LastField(value, eol, s)
  PROVE  /\ Shown' = Now /\ Shown = Now /\ due' # <<>> /\ due'[1].eol = eol
         /\ field' = <<>> /\ trailingSpace' = <<>>
         /\ stop' = s /\ row' = Append(row, value) /\ UNCHANGED rows
<1>1. due' = <<[eol |-> eol, before |-> Now]>>
  BY DEF LastField
<1>2. due' # <<>> /\ due'[1].eol = eol /\ due'[1].before = Now
  BY <1>1
<1> QED
  BY <1>2 DEF LastField, FireField, ClearField, Shown


\* The field callback at the end of a row is a step the parser in one step does
\* not see, and what is due after it is known.
LEMMA RowEndIsHidden ==
  ASSUME due = <<>>, NEW s \in BOOLEAN, ReachRowEnd(s)
  PROVE  DueIsKnown' /\ UNCHANGED Atomic!vars
<1> DEFINE value == IF state = "RECORD_NOT_BEGUN" THEN Append(Text, Byte1) ELSE Text
<1>1. /\ LastField(value, Byte1, s) /\ Advance /\ InLoop /\ Class = "EOL"
      /\ \/ state = "RECORD_NOT_BEGUN" /\ "REPALL_NL" \in options
         \/ state \notin {"RECORD_NOT_BEGUN", "QUOTED_FIELD"}
  BY DEF ReachRowEnd
<1> HIDE DEF value
<1>2. /\ Shown' = Now /\ Shown = Now /\ due' # <<>> /\ due'[1].eol = Byte1
      /\ field' = <<>> /\ trailingSpace' = <<>> /\ stop' = s /\ row' = Append(row, value)
      /\ UNCHANGED rows
  BY <1>1, LastFieldIsHidden
<1>3. /\ Shown' = Shown
      /\ UNCHANGED <<config, input, chunk, call, result, status, rows>>
  BY <1>1, <1>2 DEF Advance, IdentifyCharacter
<1>4. UNCHANGED Atomic!vars
  BY <1>3 DEF Atomic!vars, Atomic!config, Atomic!text, config
<1>5. /\ Atomic!Byte1' = Atomic!Byte1 /\ Atomic!Text' = Atomic!Text
      /\ Atomic!Class' = Atomic!Class /\ Atomic!NextPosition' = Atomic!NextPosition
      /\ Atomic!NextDelimiterPos' = Atomic!NextDelimiterPos /\ Atomic!InLoop' = Atomic!InLoop
  BY <1>3 DEF Atomic!Byte1, Atomic!Text, Atomic!Class, Atomic!NextPosition, Atomic!NextDelimiterPos,
     Atomic!InLoop, Atomic!Spill, Atomic!Broken, Atomic!Compound, Atomic!Continues, Atomic!Ahead,
     Atomic!Amount, Atomic!InDelimiter, Atomic!Matched, Atomic!PlainClass, Atomic!SimpleFS,
     Atomic!Smaller, config
<1>6. /\ position' = NextPosition /\ characterClass' = Class /\ delimiterPos' = NextDelimiterPos
      /\ call' # "idle"
  BY <1>1, <1>3 DEF Advance, IdentifyCharacter, InLoop
<1>7. Shown'.state = state /\ Shown'.row = row /\ Shown'.stop = FALSE
  BY <1>1, <1>2 DEF Now, InLoop
<1>8. DueValue' = value
  BY <1>5, <1>7, SameCharacter DEF DueValue, value
<1>9. DueInTurn'
  BY <1>1, <1>2, <1>3, <1>5, <1>6, <1>7, <1>8, SameCharacter DEF DueInTurn, config
<1> QED
  BY <1>2, <1>4, <1>6, <1>7, <1>9 DEF DueIsKnown

\* So is that of finish().
LEMMA FinishedFieldIsHidden ==
  ASSUME due = <<>>, NEW s \in BOOLEAN, FinishLastField(s)
  PROVE  DueIsKnown' /\ UNCHANGED Atomic!vars
<1>1. /\ LastField(field, Nul, s) /\ call = "idle" /\ ~stop
      /\ status = "SUCCESS" /\ ~OpenQuoteError /\ state # "RECORD_NOT_BEGUN"
      /\ UNCHANGED <<config, text, delimiterPos, characterClass, status>>
  BY DEF FinishLastField
<1>2. /\ Shown' = Now /\ Shown = Now /\ due' # <<>> /\ due'[1].eol = Nul
      /\ field' = <<>> /\ trailingSpace' = <<>> /\ stop' = s /\ row' = Append(row, field)
      /\ UNCHANGED rows
  BY <1>1, LastFieldIsHidden
<1>3. /\ Shown' = Shown
      /\ UNCHANGED <<config, input, chunk, call, result, status, rows>>
  BY <1>1, <1>2 DEF text
<1>4. UNCHANGED Atomic!vars
  BY <1>3 DEF Atomic!vars, Atomic!config, Atomic!text, config
<1>5. /\ Shown'.state = state /\ Shown'.row = row /\ Shown'.stop = stop
      /\ Shown'.field = field /\ Shown'.position = position
      /\ Shown'.characterClass = characterClass /\ Shown'.delimiterPos = delimiterPos
  BY <1>2 DEF Now
<1>6. ~Atomic!OpenQuoteError'
  BY <1>1, <1>5 DEF OpenQuoteError, Atomic!OpenQuoteError, config
<1>7. DueInFinish'
  BY <1>1, <1>2, <1>5, <1>6 DEF DueInFinish, text
<1>8. Shown'.stop = FALSE
  BY <1>7 DEF DueInFinish
<1> QED
  BY <1>1, <1>2, <1>4, <1>7, <1>8 DEF DueIsKnown, text

\* The record callback that follows is the step that reports the whole row.
LEMMA RecordIsReported ==
  ASSUME DueIsKnown, NEW t \in BOOLEAN, ReportRecord(t)
  PROVE  Atomic!Next
<1>1. /\ DueInTurn /\ stop \in BOOLEAN /\ field = <<>> /\ trailingSpace = <<>>
      /\ FireDueRecord(t) /\ state' = "RECORD_NOT_BEGUN"
      /\ UNCHANGED <<config, text, delimiterPos, characterClass, status, field, trailingSpace>>
  BY DEF DueIsKnown, ReportRecord, FireDueRecord
<1> DEFINE u == stop \/ t
<1>2. u \in BOOLEAN /\ stop' = u /\ row' = <<>> /\ due' = <<>>
      /\ rows' = Append(rows, [fields |-> Append(Shown.row, DueValue), eol |-> Atomic!Byte1])
  BY <1>1 DEF FireDueRecord, DueInTurn
<1> HIDE DEF u
<1>3. Atomic!InLoop /\ Atomic!Advance
  BY <1>1, <1>2, ShownIsNowNext DEF DueInTurn, Atomic!Advance, Atomic!IdentifyCharacter,
     config, Atomic!config, text
<1>4. Atomic!FireRecord(DueValue, Atomic!Byte1, u)
  BY <1>1, <1>2, ShownIsNowNext DEF Atomic!FireRecord, Atomic!ClearField
<1>5. Atomic!Accept(u)
  <2>1. CASE Shown.state = "RECORD_NOT_BEGUN"
    <3>1. Atomic!ReportEmptyRow(u)
      BY <1>1, <1>3, <1>4, <2>1 DEF Atomic!ReportEmptyRow, DueInTurn, DueValue
    <3> QED
      BY <1>3, <3>1 DEF Atomic!Accept
  <2>2. CASE Shown.state # "RECORD_NOT_BEGUN"
    <3>1. Atomic!EndRecord(u)
      BY <1>1, <1>3, <1>4, <2>2 DEF Atomic!EndRecord, DueInTurn, DueValue
    <3> QED
      BY <1>3, <3>1 DEF Atomic!Accept
  <2> QED
    BY <2>1, <2>2
<1> QED
  BY <1>2, <1>5 DEF Atomic!Loop, Atomic!Next

\* And that of finish() is its way to end a row.
LEMMA FinishedRecordIsReported ==
  ASSUME DueIsKnown, NEW t \in BOOLEAN, FinishRecord(t)
  PROVE  Atomic!Next
<1>1. /\ DueInFinish /\ stop \in BOOLEAN /\ call = "idle"
      /\ FireDueRecord(t) /\ state' = "FIELD_NOT_BEGUN" /\ ClearField
      /\ FinishReturns(0) /\ UNCHANGED status
  BY DEF DueIsKnown, FinishRecord, FireDueRecord
<1> DEFINE u == stop \/ t
<1>2. u \in BOOLEAN /\ stop' = u /\ row' = <<>> /\ due' = <<>>
      /\ rows' = Append(rows, [fields |-> Append(Shown.row, Shown.field), eol |-> Nul])
  BY <1>1 DEF FireDueRecord, DueInFinish
<1> HIDE DEF u
<1>3. Atomic!FinishReturns(0)
  BY <1>1, <1>2, ShownIsNowNext DEF DueInFinish, FinishReturns, Atomic!FinishReturns,
     config, Atomic!config
<1>4. Atomic!ClearField
  BY <1>1, <1>2, ShownIsNowNext DEF ClearField, Atomic!ClearField
<1>5. Atomic!FinishRow(u)
  BY <1>1, <1>2, <1>3, <1>4, ShownIsNowNext DEF DueInFinish, Atomic!FinishRow
<1> QED
  BY <1>2, <1>5 DEF Atomic!Finish, Atomic!Next

\* The two callbacks of a row's end, each of which may call stop(), have the
\* effect of the one step of ParseDelimitedText: the parser that makes them one
\* after the other implements the parser the other theorems are about.
THEOREM CallbacksActAsOne == CallbackSpec => RowEndsAtOnce
<1>1. CallbackInit => Atomic!Init /\ DueIsKnown
  <2> SUFFICES ASSUME CallbackInit PROVE Atomic!Init /\ DueIsKnown
    OBVIOUS
  <2> QED
    BY ShownIsNow DEF CallbackInit, Init, NewParser, Atomic!Init, Atomic!NewParser, DueIsKnown
<1>2. DueIsKnown /\ [CallbackNext]_callbackVars => DueIsKnown' /\ [Atomic!Next]_(Atomic!vars)
  <2> SUFFICES ASSUME DueIsKnown, [CallbackNext]_callbackVars
               PROVE  DueIsKnown' /\ (Atomic!Next \/ UNCHANGED Atomic!vars)
    OBVIOUS
  <2>1. CASE Undivided
    BY <2>1, SameStep DEF Undivided, DueIsKnown
  <2>2. ASSUME NEW s \in BOOLEAN, ReachRowEnd(s)
        PROVE  DueIsKnown' /\ UNCHANGED Atomic!vars
    BY <2>2, RowEndIsHidden DEF ReachRowEnd
  <2>3. ASSUME NEW s \in BOOLEAN, FinishLastField(s)
        PROVE  DueIsKnown' /\ UNCHANGED Atomic!vars
    BY <2>3, FinishedFieldIsHidden DEF FinishLastField
  <2>4. ASSUME NEW t \in BOOLEAN, ReportRecord(t) PROVE DueIsKnown' /\ Atomic!Next
    BY <2>4, RecordIsReported DEF ReportRecord, FireDueRecord, DueIsKnown
  <2>5. ASSUME NEW t \in BOOLEAN, FinishRecord(t) PROVE DueIsKnown' /\ Atomic!Next
    BY <2>5, FinishedRecordIsReported DEF FinishRecord, FireDueRecord, DueIsKnown
  <2>6. CASE UNCHANGED callbackVars
    <3>1. /\ UNCHANGED <<input, position, chunk, call, result, delimiter, quote, options,
                        delimiterPos, characterClass, state, status, stop, field,
                        trailingSpace, row, rows, due>>
      BY <2>6 DEF callbackVars, vars, config, text
    <3>2. Shown' = Shown
      BY <3>1 DEF Shown, Now
    <3>3. UNCHANGED Atomic!vars
      BY <3>1, <3>2 DEF Atomic!vars, Atomic!config, Atomic!text
    <3>4. DueInTurn' = DueInTurn /\ DueInFinish' = DueInFinish
      BY <3>1, <3>2 DEF DueInTurn, DueInFinish, DueValue, Atomic!OpenQuoteError,
         Atomic!Byte1, Atomic!Text, Atomic!Class, Atomic!NextPosition, Atomic!NextDelimiterPos,
         Atomic!InLoop, Atomic!Spill, Atomic!Broken, Atomic!Compound, Atomic!Continues, Atomic!Ahead,
         Atomic!Amount, Atomic!InDelimiter, Atomic!Matched, Atomic!PlainClass, Atomic!SimpleFS,
         Atomic!Smaller
    <3> QED
      BY <3>1, <3>2, <3>3, <3>4 DEF DueIsKnown
  <2> QED
    BY <2>1, <2>2, <2>3, <2>4, <2>5, <2>6 DEF CallbackNext
<1> QED
  BY <1>1, <1>2, PTL DEF CallbackSpec, RowEndsAtOnce

\* So it is for every caller that keeps to a plan: what it does with the parser
\* that makes the callbacks in turn are steps of that parser.
THEOREM CallerUsesTheParser == CallerSpec => CallbackSpec
<1> DEFINE Planned == plan \in DOMAIN Plans
<1>1. ClientInit /\ due = <<>> => CallbackInit /\ Planned
  BY DEF ClientInit, CallbackInit
<1>2. Planned /\ [CallerNext]_CallerVars => Planned' /\ [CallbackNext]_callbackVars
  <2> SUFFICES ASSUME plan \in DOMAIN Plans, [CallerNext]_CallerVars
               PROVE  plan' = plan /\ (CallbackNext \/ UNCHANGED callbackVars)
    OBVIOUS
  <2>1. CASE CallerUndivided
    <3>1. ASSUME ClientNext PROVE Next
      <4>1. CASE ChooseFormat
        BY <4>1 DEF ChooseFormat, Next
      <4>2. CASE FeedChunk
        <5>1. Plans[plan].chunks \subseteq Chunks
          BY PlansAssumption
        <5> QED
          BY <4>2, <5>1 DEF FeedChunk, Next
      <4>3. CASE ClientLoop
        BY <4>3 DEF ClientLoop, ReadByte, RefuseByte, EndLoop, Next, Loop
      <4>4. CASE EndText
        BY <4>4 DEF EndText, Next
      <4>5. CASE StopParser \/ ClearState
        BY <4>5 DEF StopParser, ClearState, Next
      <4> QED
        BY <3>1, <4>1, <4>2, <4>3, <4>4, <4>5 DEF ClientNext
    <3> QED
      BY <2>1, <3>1 DEF CallerUndivided, Undivided, CallbackNext, ClientNext
  <2>2. CASE ReadRowEnd \/ ReadRecord
    BY <2>2 DEF ReadRowEnd, ReadRecord, CallbackNext
  <2>3. CASE EndTextField \/ EndTextRecord
    BY <2>3 DEF EndTextField, EndTextRecord, CallbackNext
  <2>4. CASE UNCHANGED CallerVars
    BY <2>4 DEF CallerVars, clientVars, callbackVars
  <2> QED
    BY <2>1, <2>2, <2>3, <2>4 DEF CallerNext
<1> HIDE DEF Planned
<1> QED
  BY <1>1, <1>2, PTL DEF CallerSpec, CallbackSpec
=============================================================================
