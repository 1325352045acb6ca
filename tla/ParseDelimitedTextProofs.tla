---------------------- MODULE ParseDelimitedTextProofs ----------------------
(***************************************************************************)
(* Theorems about the parser, for every alphabet, every set of delimiters, *)
(* quotes, options and chunks, and every lookahead.                        *)
(***************************************************************************)
EXTENDS ParseDelimitedText, SequenceTheorems, WellFoundedInduction, TLAPS

(* Induction over the natural numbers, stated for sets of numbers in the     *)
(* place of predicates: a fact P(n) is proved for every n by proving that    *)
(* the set of the n it holds for contains 0 and the successor of each of its *)
(* members.                                                                  *)

\* Every set of natural numbers but the empty one has a least element: what
\* the arguments by the first byte or the first field of a text rest on.
LEMMA LeastNatural ==
  ASSUME NEW T \in SUBSET Nat, T # {}
  PROVE  \E m \in T : \A n \in T : m =< n
<1> DEFINE R == {p \in Nat \X Nat : p[1] < p[2]}
<1>1. R = OpToRel(<, Nat)
  BY Zenon DEF OpToRel
<1>2. IsWellFoundedOn(R, Nat)
  BY <1>1, NatLessThanWellFounded, Zenon
<1>3. \A x, y \in Nat : <<y, x>> \notin R => x =< y
  OBVIOUS
<1> HIDE DEF R
<1>4. \E x \in T : \A y \in T : <<y, x>> \notin R
  BY <1>2, WFMin, Zenon
<1> QED
  BY <1>3, <1>4

\* A set of natural numbers that contains 0 and with n also n + 1 contains
\* all of them: what the arguments along a text or a row rest on.
LEMMA InductionOnNat ==
  ASSUME NEW T \in SUBSET Nat, 0 \in T, \A n \in T : n + 1 \in T
  PROVE  T = Nat
<1>1. SUFFICES ASSUME Nat \ T # {} PROVE FALSE
  OBVIOUS
<1>2. PICK m \in Nat \ T : \A n \in Nat \ T : m =< n
  BY <1>1, LeastNatural
<1>3. m - 1 \in Nat /\ m - 1 \in T
  BY <1>2
<1> QED
  BY <1>2, <1>3

\* A set of natural numbers with a member and a bound has a greatest member:
\* the longest run or prefix with a property exists.
LEMMA GreatestNatural ==
  ASSUME NEW T \in SUBSET Nat, T # {}, NEW b \in Nat, \A n \in T : n =< b
  PROVE  \E m \in T : \A n \in T : n =< m
<1> DEFINE U == {k \in Nat : \A n \in T : n =< k}
<1>1. b \in U
  OBVIOUS
<1>2. PICK k \in U : \A j \in U : k =< j
  BY <1>1, LeastNatural
<1>3. k \in T
  <2> SUFFICES ASSUME k \notin T PROVE FALSE
    OBVIOUS
  <2>1. PICK t \in T : TRUE
    OBVIOUS
  <2>2. k - 1 \in Nat /\ \A n \in T : n =< k - 1
    BY <1>2, <2>1
  <2> QED
    BY <1>2, <2>2
<1> QED
  BY <1>2, <1>3

(* The parser. *)

\* What the parser reads ahead are bytes of the chunk that are still unread.
LEMMA AheadIsUnread ==
  ASSUME TypeOK, position < Len(input)
  PROVE  /\ Ahead \in Seq(Byte)
         /\ Len(Ahead) \in 1..(Len(input) - position)
         /\ Byte1 \in Byte
<1> DEFINE last == Smaller(position + Lookahead, Len(input))
<1>1. position \in Nat /\ Len(input) \in Nat /\ input \in Seq(Byte)
  BY DEF TypeOK
<1>2. last \in Nat /\ last =< Len(input) /\ position + 1 =< last
  BY <1>1, CallerAssumption DEF Smaller
<1>3. Byte1 \in Byte
  BY <1>1 DEF Byte1
<1>4. Ahead = SubSeq(input, position + 1, last)
  BY DEF Ahead
<1> HIDE DEF last
<1>5. Ahead \in Seq(Byte) /\ Len(Ahead) = last - position
  BY <1>1, <1>2, <1>4, SubSeqProperties
<1> QED
  BY <1>1, <1>2, <1>3, <1>5

\* What identify_character() leaves behind has the right type.
LEMMA IdentifiedIsTyped ==
  ASSUME TypeOK, position < Len(input)
  PROVE  /\ NextPosition \in 0..Len(input)
         /\ NextDelimiterPos \in 0..Len(delimiter)
         /\ Class \in Classes
         /\ Text \in Seq(Byte)
         /\ Byte1 \in Byte
<1>1. /\ position \in Nat /\ Len(input) \in Nat
      /\ delimiter \in Seq(Byte) /\ Len(delimiter) \in Nat
      /\ delimiterPos \in 0..Len(delimiter) /\ delimiterPos \in Nat
      /\ field \in Seq(Byte)
  BY DEF TypeOK
<1>2. Len(Ahead) \in 1..(Len(input) - position) /\ Byte1 \in Byte
  BY AheadIsUnread
<1>3. /\ Amount \in Nat
      /\ Amount =< Len(Ahead)
      /\ Amount =< Len(delimiter) - delimiterPos
  BY <1>1, <1>2 DEF Amount, Smaller
<1>4. Matched \in Nat /\ Matched =< delimiterPos
  BY <1>1 DEF Matched
<1>5. NextPosition \in 0..Len(input)
  BY <1>1, <1>2, <1>3 DEF NextPosition
<1>6. NextDelimiterPos \in 0..Len(delimiter)
  BY <1>1, <1>3, <1>4 DEF NextDelimiterPos
<1>7. Class \in Classes
  BY DEF Class, Classes, PlainClass
<1>8. Spill \in Seq(Byte)
  <2>1. SubSeq(delimiter, 1, delimiterPos) \in Seq(Byte)
    BY <1>1, SubSeqProperties
  <2> QED
    BY <2>1 DEF Spill
<1>9. Text \in Seq(Byte)
  BY <1>1, <1>8 DEF Text
<1> QED
  BY <1>2, <1>5, <1>6, <1>7, <1>9

\* A new parser has the types of the type invariant, whatever its settings.
LEMMA NewTyped ==
  ASSUME NewParser, delimiter \in Seq(Byte), quote \in Byte \cup {NoQuote},
         options \in SUBSET {"STRICT", "REPALL_NL", "STRICT_FINI"}
  PROVE  TypeOK
<1> USE DEF NewParser
<1>1. /\ input \in Seq(Byte) /\ position \in 0..Len(input) /\ chunk \in Seq(Byte)
      /\ delimiterPos \in 0..Len(delimiter)
      /\ field \in Seq(Byte) /\ trailingSpace \in Seq(Byte)
      /\ row \in Seq(Seq(Byte))
      /\ rows \in Seq([fields : Seq(Seq(Byte)), eol : Byte])
  OBVIOUS
<1>2. /\ characterClass \in Classes /\ state \in States /\ call \in Calls
      /\ status \in {"SUCCESS", "EPARSE"} /\ stop \in BOOLEAN
  BY DEF Classes, States, NotBegun, Calls
<1>3. result \in [of : {"none", "parse", "finish"}, value : Int]
  OBVIOUS
<1> QED
  BY <1>1, <1>2, <1>3 DEF TypeOK

\* The parser begins in the states of the type invariant.
LEMMA InitTyped == Init => TypeOK
<1> SUFFICES ASSUME Init PROVE TypeOK
  OBVIOUS
<1>1. /\ NewParser /\ delimiter \in Seq(Byte) /\ quote \in Byte \cup {NoQuote}
      /\ options \in SUBSET {"STRICT", "REPALL_NL", "STRICT_FINI"}
  BY CallerAssumption DEF Init
<1> QED
  BY <1>1, NewTyped

\* An iteration of the loop keeps the type invariant.
LEMMA AcceptTyped ==
  ASSUME TypeOK, NEW s \in BOOLEAN, Accept(s)
  PROVE  TypeOK'
<1> USE DEF TypeOK, Advance, IdentifyCharacter, InLoop, config, Quiet
<1>0. Advance
  BY DEF Accept, PassOver, ReportEmptyRow, EndField, EndRecord, OpenQuote,
         FieldByte, FieldSpace, QuotedByte, QuoteInQuoted, DoubledQuote, StrayQuote
<1>1. /\ position' \in 0..Len(input) /\ delimiterPos' \in 0..Len(delimiter)
      /\ characterClass' \in Classes
      /\ Text \in Seq(Byte) /\ Byte1 \in Byte
  BY <1>0, IdentifiedIsTyped
<1>2. QuoteText \in Seq(Byte)
  BY DEF QuoteText
<1>3. Append(Text \o trailingSpace, Byte1) \in Seq(Byte)
  BY <1>1
<1>4. CASE PassOver
  BY <1>0, <1>1, <1>4 DEF PassOver
<1>5. CASE ReportEmptyRow(s)
  BY <1>0, <1>1, <1>5 DEF ReportEmptyRow, FireRecord, ClearField, States, NotBegun
<1>6. CASE EndField(s)
  BY <1>0, <1>1, <1>6 DEF EndField, FireField, ClearField, States, NotBegun
<1>7. CASE EndRecord(s)
  BY <1>0, <1>1, <1>7 DEF EndRecord, FireRecord, ClearField, States, NotBegun
<1>8. CASE OpenQuote
  BY <1>0, <1>1, <1>8 DEF OpenQuote, States
<1>9. CASE FieldByte
  BY <1>0, <1>1, <1>3, <1>9 DEF FieldByte, Keep, States
<1>10. CASE FieldSpace
  BY <1>0, <1>1, <1>10 DEF FieldSpace
<1>11. CASE QuotedByte
  BY <1>0, <1>1, <1>3, <1>11 DEF QuotedByte, Keep, States
<1>12. CASE QuoteInQuoted
  BY <1>0, <1>1, <1>12 DEF QuoteInQuoted, States
<1>13. CASE DoubledQuote
  BY <1>0, <1>1, <1>3, <1>13 DEF DoubledQuote, Keep, States
<1>14. CASE StrayQuote
  <2>1. Append(Text \o QuoteText \o trailingSpace, Byte1) \in Seq(Byte)
    BY <1>1, <1>2
  <2> QED
    BY <1>0, <1>1, <1>14, <2>1 DEF StrayQuote, Keep, States
<1> QED
  BY <1>4, <1>5, <1>6, <1>7, <1>8, <1>9, <1>10, <1>11, <1>12, <1>13, <1>14 DEF Accept

\* So does the way out of the loop, from the first into the second and from
\* the second to the caller.
LEMMA LeaveTyped ==
  ASSUME TypeOK, NEW value \in Int, NEW at \in 0..Len(input), Leave(value, at)
  PROVE  /\ input' \in Seq(Byte) /\ position' \in 0..Len(input')
         /\ chunk' \in Seq(Byte) /\ call' \in Calls
         /\ result' \in [of : {"none", "parse", "finish"}, value : Int]
<1> USE DEF TypeOK, Calls
<1>1. CASE /\ call = "draining"
           /\ input' = chunk /\ position' = 0
           /\ call' = "parsing"
           /\ chunk' = <<>>
           /\ UNCHANGED result
  <2>1. Len(chunk) \in Nat
    OBVIOUS
  <2>2. position' \in 0..Len(input')
    BY <1>1, <2>1
  <2> QED
    BY <1>1, <2>2
<1>2. CASE /\ call = "parsing"
           /\ position' = at
           /\ call' = "idle"
           /\ result' = [of |-> "parse", value |-> value]
           /\ UNCHANGED <<input, chunk>>
  BY <1>2
<1> QED
  BY <1>1, <1>2 DEF Leave

\* The two ways to get there, an error and the end of the input.
LEMMA OutOfLoopTyped ==
  ASSUME TypeOK, StrictError \/ LeaveLoop
  PROVE  TypeOK'
<1> USE DEF TypeOK, config, Quiet
<1>1. CASE StrictError
  <2>1. /\ NextPosition \in 0..Len(input) /\ NextPosition - 1 \in Int
        /\ delimiterPos' \in 0..Len(delimiter)
        /\ characterClass' \in Classes
        /\ field' \in Seq(Byte)
    BY <1>1, IdentifiedIsTyped DEF StrictError, IdentifyCharacter, InLoop
  <2>2. /\ input' \in Seq(Byte) /\ position' \in 0..Len(input')
        /\ chunk' \in Seq(Byte) /\ call' \in Calls
        /\ result' \in [of : {"none", "parse", "finish"}, value : Int]
    BY <1>1, <2>1, LeaveTyped DEF StrictError
  <2> QED
    BY <1>1, <2>1, <2>2 DEF StrictError, IdentifyCharacter
<1>2. CASE LeaveLoop
  <2>1. /\ input' \in Seq(Byte) /\ position' \in 0..Len(input')
        /\ chunk' \in Seq(Byte) /\ call' \in Calls
        /\ result' \in [of : {"none", "parse", "finish"}, value : Int]
    <3>1. (IF status = "SUCCESS" THEN position ELSE -1) \in Int
      OBVIOUS
    <3>2. position \in 0..Len(input)
      OBVIOUS
    <3> QED
      BY <1>2, <3>1, <3>2, LeaveTyped DEF LeaveLoop
  <2> QED
    BY <1>2, <2>1 DEF LeaveLoop
<1> QED
  BY <1>1, <1>2

\* A call of parse() keeps the type invariant, whatever the chunk.
LEMMA ParseTyped ==
  ASSUME TypeOK, NEW c \in Seq(Byte), Parse(c)
  PROVE  TypeOK'
<1> USE DEF TypeOK, config, text
<1>1. CASE position < Len(input)
  BY <1>1 DEF Parse, Calls
<1>2. CASE ~(position < Len(input))
  <2>1. Len(c) \in Nat
    OBVIOUS
  <2>2. position' \in 0..Len(input') /\ input' \in Seq(Byte)
    BY <1>2, <2>1 DEF Parse
  <2> QED
    BY <1>2, <2>2 DEF Parse, Calls
<1> QED
  BY <1>1, <1>2

\* The public methods keep the type invariant.
LEMMA MethodTyped ==
  ASSUME TypeOK,
         \/ \E c \in Chunks : Parse(c)
         \/ \E s \in BOOLEAN : Finish(s)
         \/ ResetState \/ Stop \/ Configure
  PROVE  TypeOK'
<1> USE DEF TypeOK, config, text
<1>1. ASSUME NEW c \in Chunks, Parse(c) PROVE TypeOK'
  <2>1. c \in Seq(Byte)
    BY CallerAssumption
  <2> QED
    BY <1>1, <2>1, ParseTyped
<1>2. ASSUME NEW s \in BOOLEAN, Finish(s) PROVE TypeOK'
  <2> USE DEF FinishReturns
  <2>1. CASE FinishStopped
    BY <2>1 DEF FinishStopped
  <2>2. CASE FinishFailed
    BY <2>2 DEF FinishFailed
  <2>3. CASE FinishRow(s)
    <3>1. Append(row, field) \in Seq(Seq(Byte))
      OBVIOUS
    <3>2. rows' \in Seq([fields : Seq(Seq(Byte)), eol : Byte])
      BY <2>3, <3>1, ByteAssumption DEF FinishRow
    <3> QED
      BY <2>3, <3>2 DEF FinishRow, ClearField, States, NotBegun
  <2>4. CASE FinishNothing
    BY <2>4 DEF FinishNothing, ClearField, States, NotBegun
  <2> QED
    BY <1>2, <2>1, <2>2, <2>3, <2>4 DEF Finish
<1>3. CASE ResetState
  BY <1>3 DEF ResetState, ClearField, States, NotBegun
<1>4. CASE Stop
  BY <1>4 DEF Stop
<1>5. CASE Configure
  <2>1. ASSUME NEW d \in Delimiters, SetDelimiter(d) PROVE TypeOK'
    BY <2>1, CallerAssumption DEF SetDelimiter
  <2>2. ASSUME NEW q \in Quotes, SetQuote(q) PROVE TypeOK'
    BY <2>2, CallerAssumption DEF SetQuote
  <2>3. ASSUME NEW d \in Delimiters, NEW q \in Quotes, ApplyFormat(d, q) PROVE TypeOK'
    BY <2>3, CallerAssumption DEF ApplyFormat
  <2> QED
    BY <1>5, <2>1, <2>2, <2>3 DEF Configure
<1> QED
  BY <1>1, <1>2, <1>3, <1>4, <1>5

\* So does a step that changes none of the variables.
LEMMA StutterTyped ==
  ASSUME TypeOK, UNCHANGED vars
  PROVE  TypeOK'
BY DEF TypeOK, vars, config, text

\* Type correctness of the parser.
THEOREM TypeCorrect == Spec => []TypeOK
<1>1. TypeOK /\ [Next]_vars => TypeOK'
  BY AcceptTyped, OutOfLoopTyped, MethodTyped, StutterTyped DEF Next, Loop
<1> QED
  BY <1>1, InitTyped, PTL DEF Spec
-----------------------------------------------------------------------------
(* Half matched delimiters and progress. *)

\* One look at the input either completes the delimiter, breaks the match off
\* or leaves it half matched and says so; in every case it consumes input.
LEMMA IdentifyKeepsHalfMatch ==
  ASSUME TypeOK, HalfMatchIsKnown, position < Len(input)
  PROVE  /\ NextDelimiterPos > 0 => Class = "PARTIAL_FS" /\ NextDelimiterPos < Len(delimiter)
         /\ NextPosition > position
<1>1. /\ position \in Nat /\ Len(input) \in Nat /\ Len(delimiter) \in Nat
      /\ delimiterPos \in Nat /\ delimiterPos =< Len(delimiter)
  BY DEF TypeOK
<1>2. Len(Ahead) \in Nat /\ Len(Ahead) > 0
  BY <1>1, AheadIsUnread
<1>3. /\ Amount \in Nat
      /\ Amount =< Len(delimiter) - delimiterPos
      /\ Compound => Amount > 0
  BY <1>1, <1>2 DEF Amount, Smaller, Compound, HalfMatchIsKnown
<1>4. NextPosition > position
  BY <1>1, <1>3 DEF NextPosition, InDelimiter
<1>5. CASE InDelimiter
  <2>1. Matched + Amount =< Len(delimiter)
    BY <1>1, <1>3 DEF Matched
  <2>2. Matched \in Nat
    BY <1>1 DEF Matched
  <2>3. CASE Matched + Amount = Len(delimiter)
    BY <1>4, <1>5, <2>3 DEF NextDelimiterPos, Class
  <2>4. CASE Matched + Amount # Len(delimiter)
    BY <1>1, <1>3, <1>4, <1>5, <2>1, <2>2, <2>4 DEF NextDelimiterPos, Class
  <2> QED
    BY <2>3, <2>4
<1>6. CASE ~InDelimiter
  <2>1. delimiterPos > 0 => Broken
    BY <1>1, <1>6 DEF InDelimiter, Broken, Compound, HalfMatchIsKnown
  <2> QED
    BY <1>1, <1>4, <1>6, <2>1 DEF NextDelimiterPos, Matched
<1> QED
  BY <1>5, <1>6

\* Every iteration consumes input.
LEMMA AcceptAdvances ==
  ASSUME NEW s \in BOOLEAN, Accept(s)
  PROVE  Advance
BY DEF Accept, PassOver, ReportEmptyRow, EndField, EndRecord, OpenQuote,
       FieldByte, FieldSpace, QuotedByte, QuoteInQuoted, DoubledQuote, StrayQuote

\* A step keeps the half matched delimiter and the character class in
\* agreement: only identify_character() matches, all else leaves both alone or
\* sets the match back.
LEMMA HalfMatchStep ==
  ASSUME TypeOK, HalfMatchIsKnown, [Next]_vars
  PROVE  HalfMatchIsKnown'
<1> USE DEF HalfMatchIsKnown
<1>1. ASSUME NEW s \in BOOLEAN, Accept(s) PROVE HalfMatchIsKnown'
  BY <1>1, AcceptAdvances, IdentifyKeepsHalfMatch
  DEF Advance, IdentifyCharacter, InLoop, config
<1>2. CASE StrictError
  BY <1>2, IdentifyKeepsHalfMatch DEF StrictError, IdentifyCharacter, InLoop, config
<1>3. CASE LeaveLoop
  BY <1>3 DEF LeaveLoop, config
<1>4. ASSUME NEW c \in Chunks, Parse(c) PROVE HalfMatchIsKnown'
  BY <1>4 DEF Parse, config
<1>5. ASSUME NEW s \in BOOLEAN, Finish(s) PROVE HalfMatchIsKnown'
  BY <1>5 DEF Finish, FinishStopped, FinishFailed, FinishRow, FinishNothing,
              FinishReturns, config
<1>6. CASE ResetState \/ Stop
  BY <1>6 DEF ResetState, Stop, config
<1>7. CASE Configure
  BY <1>7 DEF Configure, SetDelimiter, SetQuote, ApplyFormat
<1>8. CASE UNCHANGED vars
  BY <1>8 DEF vars, config
<1> QED
  BY <1>1, <1>2, <1>3, <1>4, <1>5, <1>6, <1>7, <1>8 DEF Next, Loop

\* While a delimiter is half matched, in this chunk or across chunks, the last
\* character class says so: no half matched byte is ever forgotten by the loop.
THEOREM HalfMatchKnown == Spec => []HalfMatchIsKnown
<1>1. Init => HalfMatchIsKnown
  BY DEF Init, NewParser, HalfMatchIsKnown
<1> QED
  BY <1>1, HalfMatchStep, TypeCorrect, PTL DEF Spec

\* Each turn of the loop consumes input.
THEOREM TurnsAdvance == Spec => EachTurnAdvances
<1>1. ASSUME TypeOK, HalfMatchIsKnown, [Next]_vars
      PROVE  [call # "idle" /\ call' = call => position' > position]_vars
  <2> SUFFICES ASSUME Next, call # "idle", call' = call
               PROVE  position' > position
    BY <1>1
  <2>1. ASSUME NEW s \in BOOLEAN, Accept(s) PROVE position' > position
    BY <1>1, <2>1, AcceptAdvances, IdentifyKeepsHalfMatch
    DEF Advance, IdentifyCharacter, InLoop
  <2>2. ~StrictError /\ ~LeaveLoop
    BY DEF StrictError, LeaveLoop, Leave
  <2>3. \A c \in Chunks : ~Parse(c)
    BY DEF Parse
  <2>4. \A s \in BOOLEAN : ~Finish(s)
    BY DEF Finish, FinishStopped, FinishFailed, FinishRow, FinishNothing
  <2>5. ~ResetState /\ ~Stop /\ ~Configure
    BY DEF ResetState, Stop, Configure, SetDelimiter, SetQuote, ApplyFormat
  <2> QED
    BY <2>1, <2>2, <2>3, <2>4, <2>5 DEF Next, Loop
<1> QED
  BY <1>1, TypeCorrect, HalfMatchKnown, PTL DEF Spec, EachTurnAdvances
-----------------------------------------------------------------------------
(* What is left in the buffers between fields. *)

\* A step leaves white space held back only inside a field.
LEMMA TrailingStep ==
  ASSUME TrailingOnlyInField, [Next]_vars
  PROVE  TrailingOnlyInField'
<1> USE DEF TrailingOnlyInField
<1>1. ASSUME NEW s \in BOOLEAN, Accept(s) PROVE TrailingOnlyInField'
  <2>1. CASE PassOver
    BY <2>1 DEF PassOver
  <2>2. CASE ReportEmptyRow(s) \/ EndField(s) \/ EndRecord(s)
    BY <2>2 DEF ReportEmptyRow, EndField, EndRecord, FireField, FireRecord, ClearField
  <2>3. CASE OpenQuote \/ QuoteInQuoted
    BY <2>3 DEF OpenQuote, QuoteInQuoted, NotBegun
  <2>4. CASE FieldByte \/ QuotedByte \/ DoubledQuote \/ StrayQuote
    BY <2>4 DEF FieldByte, QuotedByte, DoubledQuote, StrayQuote, Keep
  <2>5. CASE FieldSpace
    BY <2>5 DEF FieldSpace
  <2> QED
    BY <1>1, <2>1, <2>2, <2>3, <2>4, <2>5 DEF Accept
<1>2. CASE StrictError \/ LeaveLoop
  BY <1>2 DEF StrictError, LeaveLoop
<1>3. ASSUME NEW c \in Chunks, Parse(c) PROVE TrailingOnlyInField'
  BY <1>3 DEF Parse
<1>4. ASSUME NEW s \in BOOLEAN, Finish(s) PROVE TrailingOnlyInField'
  BY <1>4 DEF Finish, FinishStopped, FinishFailed, FinishRow, FinishNothing, ClearField
<1>5. CASE ResetState \/ Stop
  BY <1>5 DEF ResetState, Stop, ClearField
<1>6. CASE Configure
  BY <1>6 DEF Configure, SetDelimiter, SetQuote, ApplyFormat
<1>7. CASE UNCHANGED vars
  BY <1>7 DEF vars
<1> QED
  BY <1>1, <1>2, <1>3, <1>4, <1>5, <1>6, <1>7 DEF Next, Loop

\* White space is held back only inside an unquoted field: the code that gives
\* it back in the other states never finds any.
THEOREM SpaceTrailsAField == Spec => []TrailingOnlyInField
<1>1. Init => TrailingOnlyInField
  BY DEF Init, NewParser, TrailingOnlyInField
<1> QED
  BY <1>1, TrailingStep, PTL DEF Spec

\* The strengthening that makes FreshFieldEmpty inductive: no delimiter of two
\* bytes is ever set, so none can break off and spill into the field.
Fresh == TypeOK /\ Len(delimiter) =< 1 /\ FreshFieldEmpty

\* A step that reports or resets clears the field, the others that are between
\* fields leave it alone.
LEMMA FreshStep ==
  ASSUME \A d \in Delimiters : Len(d) =< 1,
         Fresh, [Next]_vars
  PROVE  Len(delimiter') =< 1 /\ FreshFieldEmpty'
<1> USE DEF Fresh, FreshFieldEmpty
<1>1. ASSUME position < Len(input) PROVE Text = field /\ Class # "PARTIAL_FS"
  <2>1. ~Compound
    BY DEF Compound, TypeOK
  <2>2. Spill = <<>>
    BY <2>1 DEF Spill, Broken
  <2>3. Text = field
    BY <2>2, ConcatEmptySeq DEF Text, TypeOK
  <2> QED
    BY <2>1, <2>3 DEF Class, InDelimiter, PlainClass
<1>2. ASSUME NEW s \in BOOLEAN, Accept(s) PROVE Len(delimiter') =< 1 /\ FreshFieldEmpty'
  <2>1. Text = field /\ UNCHANGED delimiter
    BY <1>1, <1>2, AcceptAdvances DEF Advance, IdentifyCharacter, InLoop, config
  <2>2. CASE PassOver
    BY <2>1, <2>2 DEF PassOver
  <2>3. CASE ReportEmptyRow(s) \/ EndField(s) \/ EndRecord(s)
    BY <2>1, <2>3 DEF ReportEmptyRow, EndField, EndRecord, FireField, FireRecord, ClearField
  <2>4. CASE OpenQuote \/ QuoteInQuoted
    BY <2>1, <2>4 DEF OpenQuote, QuoteInQuoted, NotBegun
  <2>5. CASE FieldByte \/ QuotedByte \/ DoubledQuote \/ StrayQuote
    BY <2>1, <2>5 DEF FieldByte, QuotedByte, DoubledQuote, StrayQuote, Keep, NotBegun
  <2>6. CASE FieldSpace
    BY <2>1, <2>6 DEF FieldSpace, NotBegun
  <2> QED
    BY <1>2, <2>2, <2>3, <2>4, <2>5, <2>6 DEF Accept
<1>3. CASE StrictError
  BY <1>1, <1>3 DEF StrictError, IdentifyCharacter, InLoop, config
<1>4. CASE LeaveLoop
  BY <1>4 DEF LeaveLoop, config
<1>5. ASSUME NEW c \in Chunks, Parse(c) PROVE Len(delimiter') =< 1 /\ FreshFieldEmpty'
  BY <1>5 DEF Parse, config
<1>6. ASSUME NEW s \in BOOLEAN, Finish(s) PROVE Len(delimiter') =< 1 /\ FreshFieldEmpty'
  BY <1>6 DEF Finish, FinishStopped, FinishFailed, FinishRow, FinishNothing,
              FinishReturns, ClearField, config
<1>7. CASE ResetState \/ Stop
  BY <1>7 DEF ResetState, Stop, ClearField, config
<1>8. CASE Configure
  BY <1>8 DEF Configure, SetDelimiter, SetQuote, ApplyFormat
<1>9. CASE UNCHANGED vars
  BY <1>9 DEF vars, config
<1> QED
  BY <1>2, <1>3, <1>4, <1>5, <1>6, <1>7, <1>8, <1>9 DEF Next, Loop

\* With delimiters of one byte nothing of an earlier field is left in the
\* buffer when a new one begins, whatever is stopped, reset or set in between.
THEOREM FieldsStartEmpty ==
  ASSUME \A d \in Delimiters : Len(d) =< 1
  PROVE  Spec => []FreshFieldEmpty
<1>1. Init => Len(delimiter) =< 1 /\ FreshFieldEmpty
  BY DEF Init, NewParser, FreshFieldEmpty
<1>2. TypeOK /\ Len(delimiter) =< 1 /\ FreshFieldEmpty /\ [Next]_vars
        => (Len(delimiter) =< 1 /\ FreshFieldEmpty)'
  BY FreshStep DEF Fresh
<1> QED
  BY <1>1, <1>2, TypeCorrect, PTL DEF Spec
=============================================================================
