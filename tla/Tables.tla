------------------------------- MODULE Tables -------------------------------
(***************************************************************************)
(* A text of rows and fields read as a table by a definition that knows    *)
(* nothing of parsers: what the properties of the tools compare with.      *)
(***************************************************************************)
EXTENDS Integers, Sequences, FiniteSets

\* The n-th smallest number of a set.
Nth(S, n) == CHOOSE k \in S : Cardinality({j \in S : j < k}) = n - 1

\* The pieces of a text between its separators, empty ones included.
Split(text, separators) ==
  LET marks == {k \in 1..Len(text) : text[k] \in separators}
      cuts  == marks \cup {0, Len(text) + 1}
  IN  [n \in 1..(Cardinality(marks) + 1) |->
         SubSeq(text, Nth(cuts, n) + 1, Nth(cuts, n + 1) - 1)]

\* The rows with a byte in them, each as the sequence of its fields.
Table(text, separator, ends) ==
  LET lines == Split(text, ends)
      full  == {k \in 1..Len(lines) : lines[k] # <<>>}
  IN  [n \in 1..Cardinality(full) |-> Split(lines[Nth(full, n)], {separator})]
=============================================================================
