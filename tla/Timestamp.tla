------------------------------ MODULE Timestamp ------------------------------
(***************************************************************************)
(* The validation is_timestamp() of src/class_PDTValidator_i.c, one turn   *)
(* of its loop after the other: six counters say how far the text went     *)
(* through the pattern the comments of the code quote.                     *)
(***************************************************************************)
EXTENDS Integers, Sequences, SequencesExt

CONSTANTS
  Digit,       \* the characters for which isdigit() holds
  Blank,       \* white space other than " ", in the year and at the end: \t, \v
  LineEnd,     \* white space at the end only: \n, \r
  Other,       \* any other characters
  MaxLength,   \* bound: characters of a subject
  MaxBlanks    \* bound: white space among them

Space == " "
Dash  == "-"
Colon == ":"

ASSUME TextAssumption ==
  /\ Digit # {} /\ MaxLength \in Nat /\ MaxBlanks \in Nat
  /\ Digit \cap (Blank \cup LineEnd) = {}
  /\ {Space, Dash, Colon} \cap (Digit \cup Blank \cup LineEnd \cup Other) = {}

White  == Blank \cup LineEnd \cup {Space}
Letter == Digit \cup Blank \cup LineEnd \cup Other \cup {Space, Dash, Colon}

Parts == {"year", "month", "day", "hour", "minute", "second"}

VARIABLES
  subject,  \* its characters up to subject->position
  matched,  \* matched_year, matched_month, ...
  valid,
  returned

timeVars == <<subject, matched, valid, returned>>
-----------------------------------------------------------------------------

TimeInit ==
  /\ subject = <<>>
  /\ matched = [p \in Parts |-> 0]
  /\ valid = TRUE /\ returned = FALSE

Matching(part, n) == matched' = [matched EXCEPT ![part] = n] /\ UNCHANGED valid
Refuse == valid' = FALSE /\ UNCHANGED matched

\* The counter of a part goes up with a digit, and is out of the way with 3
\* (the year with 5) when the character behind the part was read.
DigitOf(part, c) ==
  IF c \in Digit THEN Matching(part, matched[part] + 1) ELSE Refuse

Year(c) ==
  \/ matched.year < 4 /\ c \in Blank \cup {Space} /\ UNCHANGED <<matched, valid>>
  \/ matched.year < 4 /\ c \notin Blank \cup {Space} /\ DigitOf("year", c)
  \/ matched.year = 4 /\ (IF c = Dash THEN Matching("year", 5) ELSE Refuse)

\* Mutant: a part always has two digits.
TwoDigitsBoth(part, behind, c) ==
  \/ matched[part] < 2 /\ DigitOf(part, c)
  \/ matched[part] = 2 /\ (IF c = behind THEN Matching(part, 3) ELSE Refuse)

\* Mutant: the character behind a part may be missing.
TwoDigitsLoose(part, behind, c) ==
  \/ matched[part] = 1 /\ c = behind /\ Matching(part, 3)
  \/ matched[part] < 2 /\ ~(matched[part] = 1 /\ c = behind) /\ DigitOf(part, c)
  \/ matched[part] = 2 /\ Matching(part, 3)

TwoDigits(part, behind, c) ==
  \/ matched[part] = 1 /\ c = behind /\ Matching(part, 3)
  \/ matched[part] < 2 /\ ~(matched[part] = 1 /\ c = behind) /\ DigitOf(part, c)
  \/ matched[part] = 2 /\ (IF c = behind THEN Matching(part, 3) ELSE Refuse)

Second(c) ==
  \/ matched.second < 2 /\ DigitOf("second", c)
  \/ /\ matched.second = 2
     /\ UNCHANGED matched
     /\ valid' = (c \in Blank \cup LineEnd \cup {Space})

\* One turn of the loop; the parts are tried in this order.
ReadCharacter(c) ==
  /\ valid /\ ~returned
  /\ Len(subject) < MaxLength
  /\ c \in White => Len(SelectSeq(subject, LAMBDA s : s \in White)) < MaxBlanks
  /\ subject' = Append(subject, c)
  /\ UNCHANGED returned
  /\ \/ matched.year < 5 /\ Year(c)
     \/ /\ matched.year = 5
        /\ \/ matched.month < 3 /\ TwoDigits("month", Dash, c)
           \/ /\ matched.month = 3
              /\ \/ matched.day < 3 /\ TwoDigits("day", Space, c)
                 \/ /\ matched.day = 3
                    /\ \/ matched.hour < 3 /\ TwoDigits("hour", Colon, c)
                       \/ /\ matched.hour = 3
                          /\ \/ matched.minute < 3 /\ TwoDigits("minute", Colon, c)
                             \/ matched.minute = 3 /\ Second(c)

\* The subject may end anywhere.
Return ==
  /\ ~returned /\ returned' = TRUE
  /\ UNCHANGED <<subject, matched, valid>>

TimeNext == Return \/ \E c \in Letter : ReadCharacter(c)

TimeSpec == TimeInit /\ [][TimeNext]_timeVars
-----------------------------------------------------------------------------
(* The pattern of the comments:                                            *)
(*   ^\s*\d{4}-\d{1,2}-\d{1,2}<SP>\d{1,2}:\d{1,2}:\d{2}\s*$                *)

Times(n, set) == [i \in 1..n |-> set]

Pattern(before, m, d, h, mi, after) ==
  Times(before, Blank \cup {Space})
    \o Times(4, Digit) \o <<{Dash}>> \o Times(m, Digit) \o <<{Dash}>>
    \o Times(d, Digit) \o <<{Space}>> \o Times(h, Digit) \o <<{Colon}>>
    \o Times(mi, Digit) \o <<{Colon}>> \o Times(2, Digit) \o Times(after, White)

Fits(s, p) == Len(s) =< Len(p) /\ \A i \in 1..Len(s) : s[i] \in p[i]

\* The blanks a text begins with.
Lead(s) == Max({n \in 0..Len(s) : \A i \in 1..n : s[i] \in Blank \cup {Space}})

\* s is the beginning, or all, of a timestamp whose parts have so many digits.
Begins(s, m, d, h, mi) == Fits(s, Pattern(Lead(s), m, d, h, mi, Len(s)))

BeginsATimestamp(s) == \E m, d, h, mi \in 1..2 : Begins(s, m, d, h, mi)

\* White space behind a digit of the year.
YearIsSplit ==
  \E i, j \in 1..Len(subject) :
    i < j /\ subject[i] \in Digit /\ subject[j] \in Blank \cup {Space}
      /\ Cardinality({k \in 1..(j - 1) : subject[k] \in Digit}) < 4

\* No beginning of a timestamp is refused, whichever of its parts have one
\* digit and whichever have two.
RefusesNoTimestamp == ~valid => ~BeginsATimestamp(subject)

\* What is not refused is the beginning of a timestamp, but for white space
\* inside the year.
AcceptsOnlyBeginnings == valid /\ ~YearIsSplit => BeginsATimestamp(subject)
=============================================================================
