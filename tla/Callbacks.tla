------------------------------ MODULE Callbacks ------------------------------
(***************************************************************************)
(* The two callbacks of the byte that ends a row, one after the other.     *)
(*                                                                         *)
(* ParseDelimitedText reports the last field of a row and the row in one   *)
(* step.  In the code (src/class_ParseDelimitedText_i.c) these are two     *)
(* calls: fire_field_callback(), which may call stop() and which resets    *)
(* the parse state, and then fire_record_callback(), which is made whether *)
(* or not the first one called stop().  Here they are two steps, and the   *)
(* parser in one step is what they implement.                              *)
(***************************************************************************)
EXTENDS ParserClient

VARIABLE
  due  \* the record callback that is due: its end of line and the parser as
       \* it was before the field callback; empty if none is

callbackVars == <<vars, due>>

\* What the field callback and the turn that fires it change.
Now ==
  [position |-> position, characterClass |-> characterClass,
   delimiterPos |-> delimiterPos, state |-> state, stop |-> stop,
   field |-> field, trailingSpace |-> trailingSpace, row |-> row]

\* The field callback of the last field of a row.
LastField(value, eol, s) ==
  /\ FireField(value, s)
  /\ due' = <<[eol |-> eol, before |-> Now]>>

\* The byte in hand ends a row: an empty one that is to be reported, or one
\* that has begun.
ReachRowEnd(s) ==
  /\ due = <<>>
  /\ InLoop
  /\ Class = "EOL"
  /\ Advance
  /\ \/ /\ state = "RECORD_NOT_BEGUN"
        /\ "REPALL_NL" \in options
        /\ LastField(Append(Text, Byte1), Byte1, s)
     \/ /\ state \notin {"RECORD_NOT_BEGUN", "QUOTED_FIELD"}
        /\ LastField(Text, Byte1, s)

\* finish() finds a row that no end of line ended.
FinishLastField(s) ==
  /\ due = <<>>
  /\ call = "idle"
  /\ ~stop
  /\ status = "SUCCESS" /\ ~OpenQuoteError
  /\ state # "RECORD_NOT_BEGUN"
  /\ LastField(field, Nul, s)
  /\ UNCHANGED <<config, text, delimiterPos, characterClass, status>>

\* Mutant: the record callback is not made once the parser is stopped.
FireDueRecordUnlessStopped(t) ==
  /\ due # <<>>
  /\ IF stop THEN UNCHANGED <<row, rows>>
     ELSE rows' = Append(rows, [fields |-> row, eol |-> due[1].eol]) /\ row' = <<>>
  /\ stop' = (stop \/ t)
  /\ due' = <<>>

\* fire_record_callback(), in which t says whether it calls stop().
FireDueRecord(t) ==
  /\ due # <<>>
  /\ rows' = Append(rows, [fields |-> row, eol |-> due[1].eol])
  /\ row' = <<>>
  /\ stop' = (stop \/ t)
  /\ due' = <<>>

ReportRecord(t) ==
  /\ call # "idle"
  /\ FireDueRecord(t)
  /\ state' = "RECORD_NOT_BEGUN"
  /\ UNCHANGED <<config, text, delimiterPos, characterClass, status, field, trailingSpace>>

\* In finish() reset_state() follows.
FinishRecord(t) ==
  /\ call = "idle"
  /\ FireDueRecord(t)
  /\ state' = "FIELD_NOT_BEGUN"
  /\ ClearField
  /\ FinishReturns(0)
  /\ UNCHANGED status

\* A step that makes no record callback is as it was.
Undivided ==
  /\ due = <<>>
  /\ Next
  /\ UNCHANGED <<rows, due>>

CallbackInit == Init /\ due = <<>>

CallbackNext ==
  \/ Undivided
  \/ \E s \in BOOLEAN : ReachRowEnd(s) \/ FinishLastField(s)
  \/ \E t \in BOOLEAN : ReportRecord(t) \/ FinishRecord(t)

CallbackSpec == CallbackInit /\ [][CallbackNext]_callbackVars
-----------------------------------------------------------------------------
(* The caller of ParserClient, with its plan and its history, around this  *)
(* parser: stop() may be called from either callback.                      *)

CallerVars == <<clientVars, due>>

CallerUndivided ==
  /\ due = <<>>
  /\ ClientNext
  /\ UNCHANGED <<rows, due>>

ReadRowEnd ==
  /\ \E s \in BOOLEAN : ReachRowEnd(s)
  /\ taken' = taken \o Consumed /\ raw' = <<>>
  /\ PayStop
  /\ UNCHANGED <<fed, plan>>

ReadRecord ==
  /\ \E t \in BOOLEAN : ReportRecord(t)
  /\ PayStop
  /\ UNCHANGED <<history, plan>>

EndTextField ==
  /\ spent.finishes < Plans[plan].finishes
  /\ \E s \in BOOLEAN :
       /\ s => spent.stops < Plans[plan].stops
       /\ FinishLastField(s)
       /\ spent' = [spent EXCEPT !.finishes = @ + 1,
                                 !.stops = @ + IF s THEN 1 ELSE 0]
  /\ raw' = <<>>
  /\ UNCHANGED <<fed, taken, plan>>

EndTextRecord ==
  /\ \E t \in BOOLEAN : FinishRecord(t)
  /\ PayStop
  /\ UNCHANGED <<history, plan>>

CallerLoop == (CallerUndivided /\ ClientLoop) \/ ReadRowEnd \/ ReadRecord

CallerNext ==
  CallerUndivided \/ ReadRowEnd \/ ReadRecord \/ EndTextField \/ EndTextRecord

\* parse() goes on as long as it can.
CallerSpec ==
  /\ ClientInit /\ due = <<>>
  /\ [][CallerNext]_CallerVars
  /\ WF_CallerVars(CallerLoop)
-----------------------------------------------------------------------------

\* As long as the record callback is due the parser in one step has not moved.
Shown == IF due = <<>> THEN Now ELSE due[1].before

Atomic == INSTANCE ParseDelimitedText
  WITH position <- Shown.position, characterClass <- Shown.characterClass,
       delimiterPos <- Shown.delimiterPos, state <- Shown.state,
       stop <- Shown.stop, field <- Shown.field,
       trailingSpace <- Shown.trailingSpace, row <- Shown.row

\* The two callbacks of a row's end have the effect of the one step that the
\* other modules take for them: whichever of them called stop(), the row is
\* reported whole and once, with its last field, before anything else is done.
RowEndsAtOnce == Atomic!Init /\ [][Atomic!Next]_(Atomic!vars)

\* After stop() nothing is reported before the next parse(), not even by
\* finish(), but for one thing: the record whose last field was being reported
\* when stop() was called, which holds all fields reported since the record
\* before it.
OnlyTheDueRecordAfterStop ==
  [][stop /\ stop' =>
       \/ UNCHANGED <<row, rows>>
       \/ /\ due # <<>> /\ due' = <<>>
          /\ rows' = Append(rows, [fields |-> row, eol |-> due[1].eol])
          /\ row' = <<>>]_callbackVars
=============================================================================
