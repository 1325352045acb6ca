---------------------------- MODULE ParserClient ----------------------------
(***************************************************************************)
(* A caller of the parser: it chooses a format, hands over a text in       *)
(* chunks, may stop the parser from a callback or between calls, and ends  *)
(* the text; its plan bounds what it does.  Three history variables record *)
(* which bytes were handed over, which the parser has consumed, and which  *)
(* of those belong to the field being read.                                *)
(***************************************************************************)
EXTENDS ParseDelimitedText

CONSTANT
  Plans  \* by name, what a caller may do: the delimiters, options and chunks it chooses from, and
         \* how many bytes it hands to parse(), formats it chooses, calls of stop(),
         \* finish() and reset_state() it makes, and whether text may follow a finish()

ASSUME PlansAssumption ==
  \A p \in DOMAIN Plans :
    /\ Plans[p].chunks \subseteq Chunks
    /\ Plans[p].stops \in Nat /\ Plans[p].formats \in Nat
    /\ Plans[p].finishes \in Nat /\ Plans[p].resets \in Nat

VARIABLES plan, fed, taken, raw, spent

history    == <<fed, taken, raw>>
clientVars == <<vars, history, spent, plan>>

Unread   == SubSeq(input, position + 1, Len(input))
Consumed == SubSeq(input, position + 1, NextPosition)

EndsField == Class \in {"FS", "EOL"} /\ state # "QUOTED_FIELD"

\* One call of stop() is spent when stop is raised.
PayStop ==
  IF stop' /\ ~stop
  THEN /\ spent.stops < Plans[plan].stops
       /\ spent' = [spent EXCEPT !.stops = @ + 1]
  ELSE UNCHANGED spent

-----------------------------------------------------------------------------

ClientInit ==
  /\ Init
  /\ plan \in DOMAIN Plans /\ options \in Plans[plan].options
  /\ fed = <<>> /\ taken = <<>> /\ raw = <<>>
  /\ spent = [formats |-> 0, stops |-> 0, finishes |-> 0, resets |-> 0]

ChooseFormat ==
  /\ spent.formats < Plans[plan].formats
  /\ Configure
  /\ delimiter' \in Plans[plan].delimiters \cup {delimiter}
  /\ spent' = [spent EXCEPT !.formats = @ + 1]
  /\ UNCHANGED history

FeedChunk ==
  /\ spent.formats > 0
  /\ Plans[plan].reuse \/ spent.finishes = 0
  /\ \E c \in Plans[plan].chunks :
       /\ Len(fed) + Len(c) =< Plans[plan].bytes
       /\ Parse(c)
       /\ fed' = fed \o c
  /\ UNCHANGED <<taken, raw, spent>>

ReadByte ==
  /\ \E s \in BOOLEAN : Accept(s)
  /\ taken' = taken \o Consumed
  /\ raw' = IF EndsField THEN <<>> ELSE raw \o Consumed
  /\ PayStop
  /\ UNCHANGED fed

RefuseByte ==
  /\ StrictError
  /\ taken' = taken \o Consumed
  /\ UNCHANGED <<fed, raw, spent>>

EndLoop == LeaveLoop /\ UNCHANGED <<history, spent>>

EndText ==
  /\ spent.finishes < Plans[plan].finishes
  /\ \E s \in BOOLEAN :
       /\ s => spent.stops < Plans[plan].stops
       /\ Finish(s)
       /\ spent' = [spent EXCEPT !.finishes = @ + 1,
                                 !.stops = @ + IF stop' /\ ~stop THEN 1 ELSE 0]
  /\ raw' = IF stop \/ result'.value = -1 THEN raw ELSE <<>>
  /\ UNCHANGED <<fed, taken>>

StopParser == Stop /\ ~stop /\ PayStop /\ UNCHANGED history

ClearState ==
  /\ spent.resets < Plans[plan].resets
  /\ ResetState
  /\ raw' = <<>>
  /\ spent' = [spent EXCEPT !.resets = @ + 1]
  /\ UNCHANGED <<fed, taken>>

ClientLoop == ReadByte \/ RefuseByte \/ EndLoop

ClientNext ==
  /\ \/ ChooseFormat \/ FeedChunk \/ ClientLoop \/ EndText \/ StopParser \/ ClearState
  /\ UNCHANGED plan

ClientSpec == ClientInit /\ [][ClientNext]_clientVars /\ WF_clientVars(ClientLoop /\ UNCHANGED plan)
-----------------------------------------------------------------------------

Promise == INSTANCE RowStream WITH separator <- SimpleFS

\* With a delimiter of one byte the parser reports exactly the rows and the
\* values that the bytes it consumed stand for, however they were cut into
\* chunks and wherever a callback stopped it.
ReportsTheRows == Promise!Spec

\* Every byte handed over is either consumed or still to be read: stopping in
\* the middle of a chunk and going on with the next one skips no byte.
NoByteLost == status = "SUCCESS" => fed = taken \o Unread \o chunk

\* A caller that gets back the length of the chunk may rely on it that all
\* text handed over so far was parsed and that no error occurred; any other
\* value says that something is left or wrong.
ReturnTellsTruth ==
  call = "idle" /\ result.of = "parse" =>
    (result.value = Len(input) <=> taken = fed /\ status = "SUCCESS")

\* The bytes of a half matched delimiter are the last bytes consumed.
HalfMatchIsText ==
  delimiterPos > 0 =>
    /\ delimiterPos =< Len(taken)
    /\ SubSeq(delimiter, 1, delimiterPos)
         = SubSeq(taken, Len(taken) - delimiterPos + 1, Len(taken))

\* What ends a field; without a delimiter the NUL byte does.
Separator == IF delimiter = <<>> THEN <<Nul>> ELSE delimiter

\* The fields with sep between each two of them, as text.
Join(fields, sep) ==
  LET upTo[n \in 1..Len(fields)] ==
        IF n = 1 THEN fields[1] ELSE upTo[n - 1] \o sep \o fields[n]
  IN  upTo[Len(fields)]

\* One text in one format, of field bytes and delimiters only.
PlainText ==
  /\ spent.formats = 1 /\ spent.finishes = 0 /\ spent.resets = 0
  /\ \A i \in 1..Len(taken) : taken[i] \notin WhiteSpace \cup Eol \cup {quote}

\* Of a plain text the fields, put together again with their delimiters, give
\* back every byte in its place, the bytes of a half matched delimiter
\* included, however chunks and lookahead cut it.
FieldsMakeUpTheText ==
  PlainText =>
    taken = Join(Append(row, field \o SubSeq(delimiter, 1, delimiterPos)), Separator)
=============================================================================
