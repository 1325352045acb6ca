---------------------------- MODULE Validations ----------------------------
(***************************************************************************)
(* The validations of a column: the split of `name(arguments)' in          *)
(* src/class_PDTValidation_i.c, and dispatch() with the validations of     *)
(* src/class_PDTValidator_i.c.  A name is one word, of which the code      *)
(* reads the number of bytes and the first one; is_timestamp() has a       *)
(* module of its own, Timestamp.                                           *)
(***************************************************************************)
EXTENDS Integers, Sequences, Tables

CONSTANTS
  Length,         \* bytes in a word or character of a validation's text
  First,          \* the first byte of a word, in lower case
  Spaces,         \* what ltrim() and rtrim() remove
  Digits,         \* isdigit()
  ToI(_),         \* to_i() of a String
  Utf8Length(_),  \* utf8_length() of a String
  Utf8Valid(_),   \* utf8_valid() of a String
  IsTimestamp(_)  \* is_timestamp()

\* The sum of the lengths of what a name is made of.
NameLength(name) ==
  LET upTo[n \in 0..Len(name)] ==
        IF n = 0 THEN 0 ELSE upTo[n - 1] + Length[name[n]]
  IN  upTo[Len(name)]

\* ltrim() and rtrim()
Trim(text) ==
  LET kept == {k \in 1..Len(text) : text[k] \notin Spaces}
  IN  IF kept = {} THEN <<>>
      ELSE SubSeq(text, Nth(kept, 1), Nth(kept, Cardinality(kept)))

\* Mutant: an argument keeps the white space around it.
Untrimmed(text) == text

Trimmed(text) == Trim(text)

\* _PDTValidation_parse_arguments(): a text without a `(', or without a `)'
\* behind it, is a name as a whole.
ParseArguments(text) ==
  LET opens  == {k \in 1..Len(text) : text[k] = "("}
      start  == Nth(opens, 1)
      closes == {k \in start..Len(text) : text[k] = ")"}
  IN  IF opens = {} \/ closes = {}
      THEN [name |-> text, arguments |-> <<>>]
      ELSE LET parts == Split(SubSeq(text, start + 1, Nth(closes, 1) - 1), {","})
           IN  [name |-> SubSeq(text, 1, start - 1),
                arguments |-> [n \in 1..Len(parts) |-> Trimmed(parts[n])]]

\* A wrong number of arguments: three validations refuse, two report success.
IsInteger(arguments, subject) ==
  arguments = <<>> => \A k \in 1..Len(subject) : subject[k] \in Digits

NotNull(arguments, subject) == arguments = <<>> => subject # <<>>

AtMost(arguments, length) == Len(arguments) = 1 /\ length =< ToI(arguments[1])

ShortEnough(arguments, subject)     == AtMost(arguments, Len(subject))
Utf8ShortEnough(arguments, subject) == AtMost(arguments, Utf8Length(subject))

Utf8(arguments, subject) == arguments = <<>> /\ Utf8Valid(subject)

ValueIn(arguments, subject) ==
  \E n \in 1..Len(arguments) : arguments[n] = subject

\* dispatch(): by the length of the name, and by its first byte where two
\* names have the same length; any other name fails.
Dispatch(validation, subject) ==
  LET length    == NameLength(validation.name)
      first     == First[validation.name[1]]
      arguments == validation.arguments
  IN  \/ length = 6 /\ ShortEnough(arguments, subject)
      \/ length = 8 /\ first = "n" /\ NotNull(arguments, subject)
      \/ length = 8 /\ first = "v" /\ ValueIn(arguments, subject)
      \/ length = 10 /\ first = "i" /\ IsInteger(arguments, subject)
      \/ length = 10 /\ first = "u" /\ Utf8(arguments, subject)
      \/ length = 11 /\ Utf8ShortEnough(arguments, subject)
      \/ length = 12 /\ IsTimestamp(subject)
=============================================================================
