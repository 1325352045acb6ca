------------------------------- MODULE RawField -------------------------------
(***************************************************************************)
(* What the bytes between two separators stand for.  `spaces' are the      *)
(* bytes that are white space and `marks' those that quote, in the format  *)
(* the text is read in; they have no byte in common.                       *)
(***************************************************************************)
EXTENDS Integers, Sequences, FiniteSetsExt

\* s without the white space before, and without the white space behind.
Blank(s, from, to, spaces) == \A i \in from..to : s[i] \in spaces
Lead(s, spaces) == Max({n \in 0..Len(s) : Blank(s, 1, n, spaces)})
Body(s, spaces) == SubSeq(s, 1 + Lead(s, spaces), Len(s))
Trim(s, spaces) == SubSeq(s, 1, Min({n \in 0..Len(s) : Blank(s, n + 1, Len(s), spaces)}))

\* How many bytes of s up to the i-th are quotes without a gap.
QuoteRun(s, i, marks) ==
  Max({n \in 0..i : \A j \in (i - n + 1)..i : s[j] \in marks})

Quoted(s, spaces, marks) == Body(s, spaces) # <<>> /\ Body(s, spaces)[1] \in marks
Inside(s, spaces) == Tail(Body(s, spaces))

\* The closing quote has not been seen: quotes come in pairs after the first.
Paired(s, marks) == QuoteRun(s, Len(s), marks) % 2 = 0
Open(s, spaces, marks) == Quoted(s, spaces, marks) /\ Paired(Inside(s, spaces), marks)

\* Of a pair of quotes one is kept; so is a lone one that more text follows.
Literal(s, i, marks) ==
  \/ s[i] \notin marks
  \/ QuoteRun(s, i, marks) % 2 = 0
  \/ i < Len(s) /\ s[i + 1] \notin marks

\* The bytes of s at these positions.
Selected(s, positions) ==
  LET upTo[n \in 0..Len(s)] ==
        IF n = 0 THEN <<>>
        ELSE IF n \in positions THEN Append(upTo[n - 1], s[n])
        ELSE upTo[n - 1]
  IN  upTo[Len(s)]

Unquote(s, marks) == Selected(s, {i \in 1..Len(s) : Literal(s, i, marks)})

Value(s, spaces, marks) ==
  IF Quoted(s, spaces, marks) THEN Unquote(Inside(s, spaces), marks)
  ELSE Trim(Body(s, spaces), spaces)
=============================================================================
