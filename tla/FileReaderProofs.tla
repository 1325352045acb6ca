-------------------------- MODULE FileReaderProofs --------------------------
(***************************************************************************)
(* What the proofs about the tools share: how a text read as a table grows *)
(* with each byte of it, and what a parser of a file reports of it.        *)
(***************************************************************************)
EXTENDS FileReader, ParseDelimitedTextProofs, FiniteSetTheorems

(* The n-th smallest number of a finite set. *)

Below(S, k) == {j \in S : j < k}

\* What is below a number of a finite set is finite too.
LEMMA BelowFinite ==
  ASSUME NEW S \in SUBSET Nat, IsFiniteSet(S), NEW k
  PROVE  /\ IsFiniteSet(Below(S, k)) /\ Cardinality(Below(S, k)) \in Nat
         /\ Cardinality(Below(S, k)) =< Cardinality(S)
BY FS_Subset, FS_CardinalityType DEF Below

\* A greater number of a set has more of the set below it.
LEMMA MoreBelow ==
  ASSUME NEW S \in SUBSET Nat, IsFiniteSet(S), NEW j \in S, NEW k \in S, j < k
  PROVE  Cardinality(Below(S, j)) < Cardinality(Below(S, k))
<1>1. /\ IsFiniteSet(Below(S, j)) /\ IsFiniteSet(Below(S, k))
      /\ Cardinality(Below(S, j)) \in Nat /\ Cardinality(Below(S, k)) \in Nat
  BY BelowFinite
<1>2. j \notin Below(S, j)
  BY DEF Below
<1>3. Cardinality(Below(S, j) \cup {j}) = Cardinality(Below(S, j)) + 1
  BY <1>1, <1>2, FS_AddElement
<1>4. Below(S, j) \cup {j} \subseteq Below(S, k)
  <2> SUFFICES ASSUME NEW i \in Below(S, j) \cup {j} PROVE i \in Below(S, k)
    OBVIOUS
  <2>1. i \in S /\ i \in Nat /\ j \in Nat /\ k \in Nat
    BY DEF Below
  <2> QED
    BY <2>1 DEF Below
<1>5. Cardinality(Below(S, j) \cup {j}) =< Cardinality(Below(S, k))
  BY <1>1, <1>4, FS_Subset
<1> QED
  BY <1>1, <1>3, <1>5

\* The one number with so many below it is the one the definition chooses.
LEMMA NthUnique ==
  ASSUME NEW S \in SUBSET Nat, IsFiniteSet(S), NEW n \in Nat, NEW k \in S,
         Cardinality(Below(S, k)) = n - 1
  PROVE  Nth(S, n) = k
<1>1. \A j \in S : Cardinality(Below(S, j)) = n - 1 => j = k
  <2> SUFFICES ASSUME NEW j \in S, Cardinality(Below(S, j)) = n - 1, j # k
               PROVE  FALSE
    OBVIOUS
  <2>1. n - 1 \in Int /\ (j < k \/ k < j)
    OBVIOUS
  <2> QED
    BY <2>1, MoreBelow
<1>2. Nth(S, n) = CHOOSE j \in S : Cardinality(Below(S, j)) = n - 1
  BY DEF Nth, Below
<1> QED
  BY <1>1, <1>2

\* There is one for each n up to the cardinality.
LEMMA NthIs ==
  ASSUME NEW S \in SUBSET Nat, IsFiniteSet(S), NEW n \in 1..Cardinality(S)
  PROVE  Nth(S, n) \in S /\ Cardinality(Below(S, Nth(S, n))) = n - 1
<1> DEFINE T == {i \in Nat : i + 1 =< Cardinality(S)
                               => \E k \in S : Cardinality(Below(S, k)) = i}
<1>0. Cardinality(S) \in Nat
  BY FS_CardinalityType
<1>1. 0 \in T
  <2> SUFFICES ASSUME 0 + 1 =< Cardinality(S) PROVE \E k \in S : Cardinality(Below(S, k)) = 0
    OBVIOUS
  <2>1. S # {}
    BY <1>0, FS_EmptySet
  <2>2. PICK k \in S : \A j \in S : k =< j
    BY <2>1, LeastNatural
  <2>3. Below(S, k) = {}
    <3>1. \A j \in S : k \in Nat /\ j \in Nat /\ ~(j < k)
      BY <2>2
    <3> QED
      BY <3>1 DEF Below
  <2> QED
    BY <2>3, FS_EmptySet
<1>2. ASSUME NEW i \in T PROVE i + 1 \in T
  <2> SUFFICES ASSUME i + 2 =< Cardinality(S)
               PROVE  \E k \in S : Cardinality(Below(S, k)) = i + 1
    OBVIOUS
  <2>1. PICK k \in S : Cardinality(Below(S, k)) = i
    BY <1>0
  <2> DEFINE U == {j \in S : k < j}
             B == Below(S, k) \cup {k}
  <2>2. Cardinality(B) = i + 1 /\ IsFiniteSet(B)
    <3>1. k \in Nat /\ ~(k < k)
      OBVIOUS
    <3>2. k \notin Below(S, k)
      BY <3>1 DEF Below
    <3> QED
      BY <2>1, <3>2, BelowFinite, FS_AddElement
  <2>3. U # {}
    <3> SUFFICES ASSUME U = {} PROVE FALSE
      OBVIOUS
    <3>1. \A j \in S : j \in Nat /\ k \in Nat /\ ~(k < j)
      OBVIOUS
    <3>2. \A j \in S : j < k \/ j = k
      BY <3>1
    <3>3. S = B
      BY <3>2 DEF Below
    <3> QED
      BY <2>2, <3>3, <1>0
  <2>4. PICK m \in U : \A j \in U : m =< j
    <3>1. U \in SUBSET Nat
      OBVIOUS
    <3> QED
      BY <2>3, <3>1, LeastNatural
  <2>5. Below(S, m) = B
    <3>1. \A j \in S : j < m <=> j < k \/ j = k
      BY <2>4
    <3> QED
      BY <3>1 DEF Below
  <2> QED
    BY <2>2, <2>4, <2>5
<1> HIDE DEF T
<1>3. T = Nat
  <2>1. T \in SUBSET Nat
    BY DEF T
  <2> QED
    BY <1>1, <1>2, <2>1, InductionOnNat
<1>4. PICK k \in S : Cardinality(Below(S, k)) = n - 1
  <2>1. n - 1 \in T /\ (n - 1) + 1 =< Cardinality(S)
    BY <1>0, <1>3
  <2> QED
    BY <2>1 DEF T
<1> QED
  BY <1>4, NthUnique

\* The n-th number of a set depends on the numbers up to it only.
LEMMA NthAgrees ==
  ASSUME NEW S \in SUBSET Nat, IsFiniteSet(S), NEW R \in SUBSET Nat, IsFiniteSet(R),
         NEW n \in 1..Cardinality(S), \A j \in Nat : j =< Nth(S, n) => (j \in S <=> j \in R)
  PROVE  Nth(R, n) = Nth(S, n)
<1> DEFINE k == Nth(S, n)
<1>1. k \in S /\ Cardinality(Below(S, k)) = n - 1
  BY NthIs
<1>2. k \in R /\ Below(R, k) = Below(S, k)
  <2>0. k \in Nat
    BY <1>1
  <2>1. k =< k /\ \A j \in Nat : j < k => j =< k
    <3> HIDE DEF k
    <3> QED
      BY <2>0
  <2>2. k \in R
    BY <1>1, <2>0, <2>1
  <2>3. \A j : j \in R /\ j < k <=> j \in S /\ j < k
    BY <2>1
  <2> HIDE DEF k
  <2> QED
    BY <2>2, <2>3 DEF Below
<1> HIDE DEF k
<1>3. Nth(R, n) = k
  BY <1>1, <1>2, NthUnique
<1> QED
  BY <1>3 DEF k

\* A number above all others becomes the last.
LEMMA NthAdded ==
  ASSUME NEW S \in SUBSET Nat, IsFiniteSet(S), NEW m \in Nat, \A j \in S : j < m
  PROVE  /\ IsFiniteSet(S \cup {m}) /\ Cardinality(S \cup {m}) = Cardinality(S) + 1
         /\ Nth(S \cup {m}, Cardinality(S) + 1) = m
         /\ \A n \in 1..Cardinality(S) : Nth(S \cup {m}, n) = Nth(S, n)
<1> DEFINE R == S \cup {m}
<1>1. Cardinality(S) \in Nat /\ m \notin S
  BY FS_CardinalityType
<1>2. R \in SUBSET Nat /\ IsFiniteSet(R) /\ Cardinality(R) = Cardinality(S) + 1
  BY <1>1, FS_AddElement
<1>3. Below(R, m) = S
  <2>1. ~(m < m) /\ \A j : j \in R => j \in S \/ j = m
    OBVIOUS
  <2> QED
    BY <2>1 DEF Below
<1>4. m \in R
  OBVIOUS
<1>5. \A j \in S : \A i \in Nat : i =< j => (i \in S <=> i \in R)
  OBVIOUS
<1> HIDE DEF R
<1>6. Nth(R, Cardinality(S) + 1) = m
  BY <1>1, <1>2, <1>3, <1>4, NthUnique
<1>7. ASSUME NEW n \in 1..Cardinality(S) PROVE Nth(R, n) = Nth(S, n)
  <2>1. Nth(S, n) \in S
    BY NthIs
  <2> QED
    BY <1>2, <1>5, <2>1, NthAgrees
<1> QED
  BY <1>2, <1>6, <1>7 DEF R

\* The greatest number of a set is its last.
LEMMA NthGreatest ==
  ASSUME NEW S \in SUBSET Nat, IsFiniteSet(S), NEW m \in S, \A j \in S : j =< m
  PROVE  /\ Cardinality(S) \in Nat \ {0}
         /\ Nth(S, Cardinality(S)) = m
         /\ \A n \in 1..(Cardinality(S) - 1) : Nth(S, n) \in S /\ Nth(S, n) < m
<1> DEFINE R == S \ {m}
<1>1. R \in SUBSET Nat /\ IsFiniteSet(R) /\ S = R \cup {m} /\ \A j \in R : j < m
  <2>1. IsFiniteSet(R)
    BY FS_Subset
  <2>2. \A j \in R : j < m
    OBVIOUS
  <2> QED
    BY <2>1, <2>2
<1> HIDE DEF R
<1>2. /\ Cardinality(S) = Cardinality(R) + 1
      /\ Nth(S, Cardinality(R) + 1) = m
      /\ \A n \in 1..Cardinality(R) : Nth(S, n) = Nth(R, n)
  BY <1>1, NthAdded
<1>3. Cardinality(R) \in Nat
  BY <1>1, FS_CardinalityType
<1>4. \A n \in 1..Cardinality(R) : Nth(R, n) \in R
  BY <1>1, NthIs
<1>5. Cardinality(S) \in Nat \ {0} /\ Cardinality(S) - 1 = Cardinality(R)
  BY <1>2, <1>3
<1>6. \A n \in 1..(Cardinality(S) - 1) : Nth(S, n) \in R
  BY <1>2, <1>4, <1>5
<1>7. \A n \in R : n \in S /\ n < m
  BY <1>1
<1> QED
  BY <1>2, <1>5, <1>6, <1>7
-----------------------------------------------------------------------------
(* The pieces of a text. *)

\* Where the pieces begin, one before their first byte.
Starts(s, marks) == {k \in 1..Len(s) : s[k] \in marks} \cup {0}

\* The starts are a finite set of positions.
LEMMA StartsFinite ==
  ASSUME NEW A, NEW s \in Seq(A), NEW marks
  PROVE  /\ Starts(s, marks) \in SUBSET Nat /\ IsFiniteSet(Starts(s, marks))
         /\ \A k \in Starts(s, marks) : k =< Len(s)
         /\ Cardinality(Starts(s, marks)) \in Nat \ {0}
         /\ Cardinality({k \in 1..Len(s) : s[k] \in marks}) + 1
              = Cardinality(Starts(s, marks))
<1> DEFINE M == {k \in 1..Len(s) : s[k] \in marks}
<1>1. Len(s) \in Nat
  OBVIOUS
<1>2. IsFiniteSet(1..Len(s))
  BY <1>1, FS_Interval
<1>3. IsFiniteSet(M)
  <2>1. M \subseteq 1..Len(s)
    OBVIOUS
  <2> QED
    BY <1>2, <2>1, FS_Subset
<1>4. 0 \notin M
  OBVIOUS
<1>5. /\ IsFiniteSet(M \cup {0}) /\ Cardinality(M \cup {0}) = Cardinality(M) + 1
      /\ Cardinality(M) \in Nat
  BY <1>3, <1>4, FS_AddElement, FS_CardinalityType
<1>6. M \cup {0} \in SUBSET Nat /\ \A k \in M \cup {0} : k =< Len(s)
  BY <1>1
<1>7. Starts(s, marks) = M \cup {0}
  BY DEF Starts
<1> QED
  BY <1>5, <1>6, <1>7

\* A piece reaches from behind its start to the next one, the last to the end.
PieceEnd(s, marks, n) ==
  IF n < Cardinality(Starts(s, marks)) THEN Nth(Starts(s, marks), n + 1) - 1 ELSE Len(s)

\* The pieces of a text, in the words of the starts.
LEMMA SplitIs ==
  ASSUME NEW A, NEW s \in Seq(A), NEW marks
  PROVE  Split(s, marks) = [n \in 1..Cardinality(Starts(s, marks)) |->
           SubSeq(s, Nth(Starts(s, marks), n) + 1, PieceEnd(s, marks, n))]
<1> DEFINE S == Starts(s, marks)
           M == {k \in 1..Len(s) : s[k] \in marks}
           cuts == M \cup {0, Len(s) + 1}
<1>1. S \in SUBSET Nat /\ IsFiniteSet(S) /\ Cardinality(S) \in Nat
  BY StartsFinite
<1>2. Cardinality(M) + 1 = Cardinality(S)
  BY StartsFinite
<1>3. Len(s) + 1 \in Nat /\ \A k \in S : k < Len(s) + 1
  <2>1. Len(s) \in Nat
    OBVIOUS
  <2>2. \A k \in S : k =< Len(s)
    BY StartsFinite
  <2> HIDE DEF S
  <2>3. \A k \in S : k \in Nat
    BY <1>1
  <2> QED
    BY <2>1, <2>2, <2>3
<1>4. cuts = S \cup {Len(s) + 1}
  BY DEF Starts
<1>5. Split(s, marks) = [n \in 1..(Cardinality(M) + 1) |->
                           SubSeq(s, Nth(cuts, n) + 1, Nth(cuts, n + 1) - 1)]
  BY DEF Split
<1> HIDE DEF S, M, cuts
<1>6. /\ Nth(cuts, Cardinality(S) + 1) = Len(s) + 1
      /\ \A n \in 1..Cardinality(S) : Nth(cuts, n) = Nth(S, n)
  BY <1>1, <1>3, <1>4, NthAdded
<1>7. ASSUME NEW n \in 1..Cardinality(S)
      PROVE  SubSeq(s, Nth(cuts, n) + 1, Nth(cuts, n + 1) - 1)
               = SubSeq(s, Nth(S, n) + 1, PieceEnd(s, marks, n))
  <2>1. CASE n < Cardinality(S)
    <3>1. n + 1 \in 1..Cardinality(S)
      BY <1>1, <2>1
    <3> QED
      BY <1>6, <2>1, <3>1 DEF PieceEnd, S
  <2>2. CASE ~(n < Cardinality(S))
    <3>1. n = Cardinality(S) /\ (Len(s) + 1) - 1 = Len(s)
      BY <1>1, <2>2
    <3> QED
      BY <1>6, <2>2, <3>1 DEF PieceEnd, S
  <2> QED
    BY <2>1, <2>2
<1> QED
  BY <1>2, <1>5, <1>7 DEF S

\* The last piece of a text.
LastPiece(s, marks) == Split(s, marks)[Len(Split(s, marks))]

\* A text has at least one piece, and pieces are texts.
LEMMA PiecesTyped ==
  ASSUME NEW A, NEW s \in Seq(A), NEW marks
  PROVE  /\ Split(s, marks) \in Seq(Seq(A)) /\ Len(Split(s, marks)) \in Nat \ {0}
         /\ Len(Split(s, marks)) = Cardinality(Starts(s, marks))
         /\ LastPiece(s, marks) \in Seq(A)
<1> DEFINE S == Starts(s, marks)
           P == Split(s, marks)
<1>1. /\ S \in SUBSET Nat /\ IsFiniteSet(S) /\ Cardinality(S) \in Nat \ {0}
      /\ \A k \in S : k =< Len(s)
  BY StartsFinite
<1>2. P = [n \in 1..Cardinality(S) |-> SubSeq(s, Nth(S, n) + 1, PieceEnd(s, marks, n))]
  BY SplitIs
<1> HIDE DEF S, P
<1>3. ASSUME NEW n \in 1..Cardinality(S)
      PROVE  SubSeq(s, Nth(S, n) + 1, PieceEnd(s, marks, n)) \in Seq(A)
  <2>1. Nth(S, n) \in Nat
    BY <1>1, NthIs
  <2>2. PieceEnd(s, marks, n) =< Len(s) /\ PieceEnd(s, marks, n) \in Int
    <3>1. CASE n < Cardinality(S)
      <4>1. n + 1 \in 1..Cardinality(S)
        BY <1>1, <3>1
      <4>2. Nth(S, n + 1) \in S
        BY <1>1, <4>1, NthIs
      <4>3. Nth(S, n + 1) \in Nat /\ Nth(S, n + 1) =< Len(s)
        BY <1>1, <4>2
      <4>4. Len(s) \in Nat
        OBVIOUS
      <4> QED
        BY <3>1, <4>3, <4>4 DEF PieceEnd, S
    <3> QED
      BY <3>1 DEF PieceEnd, S
  <2> QED
    BY <2>1, <2>2, SubSeqProperties
<1>4. P \in Seq(Seq(A)) /\ Len(P) = Cardinality(S)
  <2> DEFINE piece(n) == SubSeq(s, Nth(S, n) + 1, PieceEnd(s, marks, n))
  <2>1. P = [n \in 1..Cardinality(S) |-> piece(n)]
    BY <1>2
  <2>2. \A n \in 1..Cardinality(S) : piece(n) \in Seq(A)
    BY <1>3
  <2>3. Cardinality(S) \in Nat
    BY <1>1
  <2> HIDE DEF piece
  <2> QED
    BY <2>1, <2>2, <2>3, IsASeq
<1>5. P[Len(P)] \in Seq(A)
  BY <1>1, <1>4
<1> QED
  BY <1>1, <1>4, <1>5 DEF P, S, LastPiece

\* Nothing is one piece.
LEMMA SplitOfNothing ==
  ASSUME NEW marks
  PROVE  Split(<<>>, marks) = << <<>> >> /\ LastPiece(<<>>, marks) = <<>>
<1>1. <<>> \in Seq({}) /\ Len(<<>>) = 0
  BY EmptySeq
<1>2. Starts(<<>>, marks) = {0}
  BY DEF Starts
<1>3. Cardinality({0}) = 1
  BY FS_Singleton
<1>4. Split(<<>>, marks) = [n \in 1..1 |-> SubSeq(<<>>, Nth({0}, n) + 1, PieceEnd(<<>>, marks, n))]
  <2> DEFINE e == <<>>
  <2>1. e \in Seq({})
    BY <1>1
  <2> HIDE DEF e
  <2>2. Split(e, marks) = [n \in 1..Cardinality(Starts(e, marks)) |->
          SubSeq(e, Nth(Starts(e, marks), n) + 1, PieceEnd(e, marks, n))]
    BY <2>1, SplitIs
  <2> QED
    BY <1>2, <1>3, <2>2, Zenon DEF e
<1>5. Nth({0}, 1) = 0
  <2>1. 1 \in 1..Cardinality({0}) /\ {0} \in SUBSET Nat
    BY <1>3
  <2>2. IsFiniteSet({0})
    BY FS_Singleton
  <2>3. Nth({0}, 1) \in {0}
    BY <2>1, <2>2, NthIs
  <2> QED
    BY <2>3
<1>6. PieceEnd(<<>>, marks, 1) = 0
  <2>1. ~(1 < Cardinality(Starts(<<>>, marks)))
    BY <1>2, <1>3
  <2> QED
    BY <1>1, <2>1 DEF PieceEnd
<1>7. SubSeq(<<>>, 0 + 1, 0) = <<>>
  BY SubSeqEmpty
<1>8. \A n \in 1..1 : SubSeq(<<>>, Nth({0}, n) + 1, PieceEnd(<<>>, marks, n)) = <<>>
  BY <1>5, <1>6, <1>7
<1>9. Split(<<>>, marks) = [n \in 1..1 |-> <<>>]
  BY <1>4, <1>8
<1> QED
  BY <1>9 DEF LastPiece

\* A byte more is a start more if it is a mark.
LEMMA StartsGrow ==
  ASSUME NEW A, NEW s \in Seq(A), NEW b \in A, NEW marks
  PROVE  Starts(Append(s, b), marks)
           = IF b \in marks THEN Starts(s, marks) \cup {Len(s) + 1} ELSE Starts(s, marks)
<1> DEFINE t == Append(s, b)
<1>1. Len(s) \in Nat /\ Len(t) = Len(s) + 1 /\ t[Len(s) + 1] = b
      /\ \A k \in 1..Len(s) : t[k] = s[k]
  BY AppendProperties
<1> HIDE DEF t
<1>2. \A k : k \in 1..Len(t) <=> k \in 1..Len(s) \/ k = Len(s) + 1
  BY <1>1
<1>3. \A k : k \in Starts(t, marks) <=>
               k = 0 \/ (k \in 1..Len(s) /\ s[k] \in marks) \/ (k = Len(s) + 1 /\ b \in marks)
  BY <1>1, <1>2 DEF Starts
<1>4. \A k : k \in Starts(s, marks) <=> k = 0 \/ (k \in 1..Len(s) /\ s[k] \in marks)
  BY DEF Starts
<1>5. CASE b \in marks
  BY <1>3, <1>4, <1>5 DEF t
<1>6. CASE b \notin marks
  BY <1>3, <1>4, <1>6 DEF t
<1> QED
  BY <1>5, <1>6

\* What a byte of the text does to the part of it between two positions.
LEMMA PartGrows ==
  ASSUME NEW A, NEW s \in Seq(A), NEW b \in A, NEW i \in 0..Len(s), NEW j \in Int, j =< Len(s)
  PROVE  /\ SubSeq(Append(s, b), i + 1, j) = SubSeq(s, i + 1, j)
         /\ SubSeq(Append(s, b), i + 1, Len(s) + 1) = Append(SubSeq(s, i + 1, Len(s)), b)
<1> DEFINE t == Append(s, b)
           u == SubSeq(s, i + 1, Len(s))
<1>1. /\ Len(s) \in Nat /\ t \in Seq(A) /\ Len(t) = Len(s) + 1 /\ t[Len(s) + 1] = b
      /\ \A k \in 1..Len(s) : t[k] = s[k]
  BY AppendProperties
<1>2. \A k \in 1..Len(s) : s[k] \in A
  OBVIOUS
<1> HIDE DEF t
<1>3. /\ u \in Seq(A) /\ Len(u) = Len(s) - i
      /\ \A k \in 1..(Len(s) - i) : u[k] = s[i + k]
  <2>1. \A k \in (i + 1)..Len(s) : s[k] \in A
    BY <1>1, <1>2
  <2> QED
    BY <1>1, <2>1, SubSeqProperties
<1>4. SubSeq(t, i + 1, j) = SubSeq(s, i + 1, j)
  <2> DEFINE v == SubSeq(t, i + 1, j)
             w == SubSeq(s, i + 1, j)
  <2>1. \A k \in (i + 1)..j : s[k] \in A /\ t[k] \in A /\ t[k] = s[k]
    BY <1>1, <1>2
  <2>2. /\ v \in Seq(A) /\ Len(v) = (IF i + 1 =< j THEN j - (i + 1) + 1 ELSE 0)
        /\ \A k \in 1..(j - (i + 1) + 1) : v[k] = t[i + 1 + k - 1]
    BY <1>1, <2>1, SubSeqProperties
  <2>3. /\ w \in Seq(A) /\ Len(w) = (IF i + 1 =< j THEN j - (i + 1) + 1 ELSE 0)
        /\ \A k \in 1..(j - (i + 1) + 1) : w[k] = s[i + 1 + k - 1]
    BY <1>1, <2>1, SubSeqProperties
  <2> HIDE DEF v, w
  <2>4. \A k \in 1..Len(v) : v[k] = w[k]
    <3> SUFFICES ASSUME NEW k \in 1..Len(v) PROVE v[k] = w[k]
      OBVIOUS
    <3>1. k \in 1..(j - (i + 1) + 1) /\ i + 1 + k - 1 \in (i + 1)..j
      BY <2>2
    <3> QED
      BY <2>1, <2>2, <2>3, <3>1
  <2>5. v = w
    BY <2>2, <2>3, <2>4, SeqEqual
  <2> QED
    BY <2>5 DEF v, w
<1>5. SubSeq(t, i + 1, Len(s) + 1) = Append(u, b)
  <2> DEFINE v == SubSeq(t, i + 1, Len(s) + 1)
  <2>1. \A k \in (i + 1)..(Len(s) + 1) : t[k] \in A
    BY <1>1
  <2>2. /\ v \in Seq(A) /\ Len(v) = Len(s) + 1 - i
        /\ \A k \in 1..(Len(s) + 1 - i) : v[k] = t[i + k]
    BY <1>1, <2>1, SubSeqProperties
  <2> HIDE DEF u, v
  <2>3. /\ Append(u, b) \in Seq(A) /\ Len(Append(u, b)) = Len(s) + 1 - i
        /\ Append(u, b)[Len(s) + 1 - i] = b
        /\ \A k \in 1..(Len(s) - i) : Append(u, b)[k] = u[k]
    BY <1>1, <1>3, AppendProperties
  <2>4. \A k \in 1..Len(v) : v[k] = Append(u, b)[k]
    <3> SUFFICES ASSUME NEW k \in 1..Len(v) PROVE v[k] = Append(u, b)[k]
      OBVIOUS
    <3>1. CASE k = Len(s) + 1 - i
      <4>1. v[k] = t[i + k] /\ i + k = Len(s) + 1
        BY <1>1, <2>2, <3>1
      <4> QED
        BY <1>1, <2>3, <3>1, <4>1
    <3>2. CASE k # Len(s) + 1 - i
      <4>1. k \in 1..(Len(s) - i) /\ i + k \in 1..Len(s)
        BY <1>1, <2>2, <3>2
      <4> QED
        BY <1>1, <1>3, <2>2, <2>3, <4>1
    <3> QED
      BY <3>1, <3>2
  <2>5. v = Append(u, b)
    BY <2>2, <2>3, <2>4, SeqEqual
  <2> QED
    BY <2>5 DEF v
<1> QED
  BY <1>4, <1>5 DEF t, u

\* A byte more opens a new piece if it is a mark, and is the last of the last one if not.
LEMMA SplitGrows ==
  ASSUME NEW A, NEW s \in Seq(A), NEW b \in A, NEW marks
  PROVE  /\ Split(Append(s, b), marks)
              = IF b \in marks THEN Append(Split(s, marks), <<>>)
                ELSE [Split(s, marks) EXCEPT ![Len(Split(s, marks))]
                        = Append(LastPiece(s, marks), b)]
         /\ LastPiece(Append(s, b), marks)
              = IF b \in marks THEN <<>> ELSE Append(LastPiece(s, marks), b)
<1> DEFINE t == Append(s, b)
           S == Starts(s, marks)
           R == Starts(t, marks)
           P == Split(s, marks)
           Q == Split(t, marks)
           m == Cardinality(S)
<1>1. Len(s) \in Nat /\ t \in Seq(A) /\ Len(t) = Len(s) + 1
  BY AppendProperties
<1>2. /\ S \in SUBSET Nat /\ IsFiniteSet(S) /\ m \in Nat \ {0}
      /\ \A k \in S : k =< Len(s)
  BY StartsFinite
<1>3. /\ P \in Seq(Seq(A)) /\ Len(P) = m /\ P[m] = LastPiece(s, marks)
      /\ P = [n \in 1..m |-> SubSeq(s, Nth(S, n) + 1, PieceEnd(s, marks, n))]
  <2>1. P \in Seq(Seq(A)) /\ Len(P) = m
    BY PiecesTyped
  <2> QED
    BY <2>1, SplitIs DEF LastPiece
<1>4. /\ Q \in Seq(Seq(A)) /\ Len(Q) = Cardinality(R)
      /\ Q = [n \in 1..Cardinality(R) |-> SubSeq(t, Nth(R, n) + 1, PieceEnd(t, marks, n))]
  BY <1>1, PiecesTyped, SplitIs
<1>5. R = IF b \in marks THEN S \cup {Len(s) + 1} ELSE S
  BY StartsGrow
<1>6. LastPiece(t, marks) = Q[Len(Q)]
  BY DEF LastPiece
<1>7. ASSUME NEW n \in 1..m PROVE Nth(S, n) \in 0..Len(s)
  <2>1. Nth(S, n) \in S
    BY <1>2, NthIs
  <2>2. Nth(S, n) \in Nat /\ Nth(S, n) =< Len(s)
    BY <1>2, <2>1
  <2> QED
    BY <1>1, <2>2
<1>8. ASSUME NEW n \in 1..m, n < m
      PROVE  PieceEnd(s, marks, n) = Nth(S, n + 1) - 1 /\ n + 1 \in 1..m
  BY <1>2, <1>8 DEF PieceEnd
<1>9. PieceEnd(s, marks, m) = Len(s)
  BY <1>2 DEF PieceEnd
<1>10. CASE b \in marks
  <2>1. /\ Cardinality(R) = m + 1 /\ Nth(R, m + 1) = Len(s) + 1
        /\ \A n \in 1..m : Nth(R, n) = Nth(S, n)
    <3>1. \A k \in S : k < Len(s) + 1
      <4>1. \A k \in S : k \in Nat /\ k =< Len(s)
        BY <1>2
      <4> HIDE DEF S
      <4> QED
        BY <1>1, <4>1
    <3>2. Len(s) + 1 \in Nat
      BY <1>1
    <3>3. R = S \cup {Len(s) + 1}
      BY <1>5, <1>10
    <3> HIDE DEF S, R
    <3> QED
      BY <1>2, <3>1, <3>2, <3>3, NthAdded
  <2>2. ASSUME NEW n \in 1..m PROVE Q[n] = P[n]
    <3>1. n \in 1..Cardinality(R) /\ n < Cardinality(R) /\ n + 1 \in 1..(m + 1)
      BY <1>2, <2>1
    <3>2. Q[n] = SubSeq(t, Nth(S, n) + 1, PieceEnd(t, marks, n))
      BY <1>4, <2>1, <3>1
    <3>3. PieceEnd(t, marks, n) = Nth(R, n + 1) - 1
      BY <3>1 DEF PieceEnd
    <3>4. PieceEnd(t, marks, n) = PieceEnd(s, marks, n) /\ PieceEnd(s, marks, n) \in Int
          /\ PieceEnd(s, marks, n) =< Len(s)
      <4>1. CASE n < m
        BY <1>1, <1>7, <1>8, <2>1, <3>3, <4>1
      <4>2. CASE n = m
        BY <1>1, <1>9, <2>1, <3>3, <4>2
      <4> QED
        BY <1>2, <4>1, <4>2
    <3>5. SubSeq(t, Nth(S, n) + 1, PieceEnd(s, marks, n))
            = SubSeq(s, Nth(S, n) + 1, PieceEnd(s, marks, n))
      BY <1>7, <3>4, PartGrows
    <3> QED
      BY <1>3, <3>2, <3>4, <3>5
  <2>3. Q[m + 1] = <<>>
    <3>1. m + 1 \in 1..Cardinality(R) /\ ~(m + 1 < Cardinality(R))
      BY <1>2, <2>1
    <3>2. Q[m + 1] = SubSeq(t, Len(s) + 1 + 1, Len(s) + 1)
      BY <1>1, <1>4, <2>1, <3>1 DEF PieceEnd
    <3> QED
      BY <1>1, <3>2, SubSeqEmpty
  <2>4. <<>> \in Seq(A)
    BY EmptySeq
  <2> HIDE DEF P, Q, S, R, m, t
  <2>5. /\ Append(P, <<>>) \in Seq(Seq(A)) /\ Len(Append(P, <<>>)) = m + 1
        /\ \A n \in 1..m : Append(P, <<>>)[n] = P[n]
        /\ Append(P, <<>>)[m + 1] = <<>>
    <3>1. P \in Seq(Seq(A)) /\ Len(P) = m
      BY <1>3
    <3> QED
      BY <2>4, <3>1, AppendProperties
  <2>6. \A n \in 1..Len(Q) : Q[n] = Append(P, <<>>)[n]
    <3>1. \A n \in 1..(m + 1) : n \in 1..m \/ n = m + 1
      BY <1>2
    <3> QED
      BY <1>4, <2>1, <2>2, <2>3, <2>5, <3>1
  <2>7. Q = Append(P, <<>>)
    BY <1>4, <2>1, <2>5, <2>6, SeqEqual
  <2> QED
    BY <1>4, <1>6, <1>10, <2>1, <2>3, <2>7 DEF P, Q, t
<1>11. CASE b \notin marks
  <2>1. R = S /\ Cardinality(R) = m
    BY <1>5, <1>11
  <2>2. ASSUME NEW n \in 1..m, n < m PROVE Q[n] = P[n]
    <3>1. PieceEnd(t, marks, n) = Nth(S, n + 1) - 1
      BY <2>1, <2>2 DEF PieceEnd
    <3>2. Q[n] = SubSeq(t, Nth(S, n) + 1, PieceEnd(s, marks, n))
      BY <1>4, <1>8, <2>1, <2>2, <3>1
    <3>3. PieceEnd(s, marks, n) \in Int /\ PieceEnd(s, marks, n) =< Len(s)
      BY <1>1, <1>7, <1>8, <2>2
    <3>4. SubSeq(t, Nth(S, n) + 1, PieceEnd(s, marks, n))
            = SubSeq(s, Nth(S, n) + 1, PieceEnd(s, marks, n))
      BY <1>7, <3>3, PartGrows
    <3> QED
      BY <1>3, <3>2, <3>4
  <2>3. Q[m] = Append(P[m], b)
    <3>1. m \in 1..m /\ PieceEnd(t, marks, m) = Len(s) + 1
      BY <1>1, <1>2, <2>1 DEF PieceEnd
    <3>2. Q[m] = SubSeq(t, Nth(S, m) + 1, Len(s) + 1)
      BY <1>4, <2>1, <3>1
    <3>3. P[m] = SubSeq(s, Nth(S, m) + 1, Len(s))
      BY <1>3, <1>9, <3>1
    <3>4. Len(s) \in Int /\ Len(s) =< Len(s)
      BY <1>1
    <3> QED
      BY <1>7, <3>1, <3>2, <3>3, <3>4, PartGrows
  <2> HIDE DEF P, Q, S, R, m, t
  <2> DEFINE E == [P EXCEPT ![m] = Append(P[m], b)]
  <2>p. P \in Seq(Seq(A)) /\ Len(P) = m
    BY <1>3
  <2>4. m \in 1..Len(P) /\ P[m] \in Seq(A) /\ Append(P[m], b) \in Seq(A)
    <3>1. m \in 1..Len(P)
      BY <1>2, <2>p
    <3>2. P[m] \in Seq(A)
      BY <2>p, <3>1, ElementOfSeq
    <3> QED
      BY <3>1, <3>2, AppendProperties
  <2>5. /\ E \in Seq(Seq(A)) /\ Len(E) = m
        /\ \A n \in 1..m : E[n] = IF n = m THEN Append(P[m], b) ELSE P[n]
    BY <2>p, <2>4, ExceptSeq
  <2> HIDE DEF E
  <2>6. \A n \in 1..Len(Q) : Q[n] = E[n]
    <3>1. \A n \in 1..m : n < m \/ n = m
      BY <1>2
    <3> QED
      BY <1>4, <2>1, <2>2, <2>3, <2>5, <3>1
  <2>7. Q = E
    BY <1>4, <2>1, <2>5, <2>6, SeqEqual
  <2>8. Q[Len(Q)] = Append(P[m], b)
    BY <1>4, <2>1, <2>3
  <2> QED
    BY <1>3, <1>6, <1>11, <2>7, <2>8 DEF P, Q, t, E
<1> QED
  BY <1>10, <1>11
-----------------------------------------------------------------------------
(* The rows of a text. *)

Full(lines) == {k \in 1..Len(lines) : lines[k] # <<>>}

RowsOf(lines, separator) ==
  [n \in 1..Cardinality(Full(lines)) |-> Split(lines[Nth(Full(lines), n)], {separator})]

\* The lines with a byte in them are a finite set of positions.
LEMMA FullFinite ==
  ASSUME NEW A, NEW lines \in Seq(Seq(A))
  PROVE  /\ Full(lines) \in SUBSET Nat /\ IsFiniteSet(Full(lines))
         /\ \A k \in Full(lines) : k \in 1..Len(lines) /\ lines[k] # <<>>
         /\ Cardinality(Full(lines)) \in Nat
<1>1. Len(lines) \in Nat
  OBVIOUS
<1>2. IsFiniteSet(1..Len(lines)) /\ 1..Len(lines) \in SUBSET Nat
  BY <1>1, FS_Interval
<1>3. Full(lines) \subseteq 1..Len(lines) /\ \A k \in Full(lines) : lines[k] # <<>>
  BY DEF Full
<1> QED
  BY <1>2, <1>3, FS_Subset, FS_CardinalityType

\* Each row is a sequence of one field or more.
LEMMA RowsTyped ==
  ASSUME NEW A, NEW lines \in Seq(Seq(A)), NEW separator
  PROVE  /\ RowsOf(lines, separator) \in Seq(Seq(Seq(A)))
         /\ Len(RowsOf(lines, separator)) = Cardinality(Full(lines))
<1> DEFINE F == Full(lines)
           one(n) == Split(lines[Nth(F, n)], {separator})
<1>1. F \in SUBSET Nat /\ IsFiniteSet(F) /\ Cardinality(F) \in Nat
      /\ \A k \in F : k \in 1..Len(lines)
  BY FullFinite
<1>2. RowsOf(lines, separator) = [n \in 1..Cardinality(F) |-> one(n)]
  BY DEF RowsOf
<1> HIDE DEF F
<1>3. ASSUME NEW n \in 1..Cardinality(F) PROVE one(n) \in Seq(Seq(A))
  <2>1. Nth(F, n) \in 1..Len(lines)
    BY <1>1, NthIs
  <2>2. lines[Nth(F, n)] \in Seq(A)
    BY <2>1, ElementOfSeq
  <2> QED
    BY <2>2, PiecesTyped
<1> HIDE DEF one
<1>4. [n \in 1..Cardinality(F) |-> one(n)] \in Seq(Seq(Seq(A)))
  BY <1>1, <1>3, IsASeq
<1> QED
  BY <1>1, <1>2, <1>4 DEF F

\* An empty line behind the others is no row.
LEMMA EmptyLineAdded ==
  ASSUME NEW A, NEW lines \in Seq(Seq(A)), NEW separator
  PROVE  RowsOf(Append(lines, <<>>), separator) = RowsOf(lines, separator)
<1> DEFINE more == Append(lines, <<>>)
           F == Full(lines)
<1>1. <<>> \in Seq(A)
  BY EmptySeq
<1>2. /\ Len(lines) \in Nat /\ Len(more) = Len(lines) + 1
      /\ more[Len(lines) + 1] = <<>>
      /\ \A k \in 1..Len(lines) : more[k] = lines[k]
  BY <1>1, AppendProperties
<1>3. F \in SUBSET Nat /\ IsFiniteSet(F) /\ \A k \in F : k \in 1..Len(lines)
  BY FullFinite
<1> HIDE DEF more
<1>4. Full(more) = F
  <2>1. \A k : k \in 1..Len(more) <=> k \in 1..Len(lines) \/ k = Len(lines) + 1
    BY <1>2
  <2>2. \A k : k \in Full(more) <=> k \in F
    <3>1. \A k : k \in 1..Len(lines) => k # Len(lines) + 1
      BY <1>2
    <3> QED
      BY <1>2, <2>1, <3>1 DEF Full
  <2> QED
    BY <2>2 DEF Full
<1> HIDE DEF F
<1>5. ASSUME NEW n \in 1..Cardinality(F) PROVE more[Nth(F, n)] = lines[Nth(F, n)]
  <2>1. Nth(F, n) \in 1..Len(lines)
    BY <1>3, NthIs
  <2> QED
    BY <1>2, <2>1
<1>6. RowsOf(more, separator)
        = [n \in 1..Cardinality(F) |-> Split(more[Nth(F, n)], {separator})]
  BY <1>4 DEF RowsOf
<1>7. RowsOf(lines, separator)
        = [n \in 1..Cardinality(F) |-> Split(lines[Nth(F, n)], {separator})]
  BY DEF RowsOf, F
<1>8. \A n \in 1..Cardinality(F) :
        Split(more[Nth(F, n)], {separator}) = Split(lines[Nth(F, n)], {separator})
  BY <1>5
<1> QED
  BY <1>6, <1>7, <1>8 DEF more

\* The lines with another one in the place of the last.
WithLast(lines, line) == [lines EXCEPT ![Len(lines)] = line]

\* The last line is a row of its own once it has a byte; what it holds by then
\* makes no difference for the rows before it.
RowsWith(lines, line, separator) ==
  /\ lines[Len(lines)] = <<>> =>
       RowsOf(WithLast(lines, line), separator)
         = Append(RowsOf(lines, separator), Split(line, {separator}))
  /\ lines[Len(lines)] # <<>> =>
       /\ Len(RowsOf(lines, separator)) \in Nat \ {0}
       /\ RowsOf(lines, separator)[Len(RowsOf(lines, separator))]
            = Split(lines[Len(lines)], {separator})
       /\ RowsOf(WithLast(lines, line), separator)
            = WithLast(RowsOf(lines, separator), Split(line, {separator}))

\* What RowsWith says of the rows holds.
LEMMA LastLineGrows ==
  ASSUME NEW A, NEW lines \in Seq(Seq(A)), Len(lines) > 0, NEW line \in Seq(A), line # <<>>,
         NEW separator
  PROVE  RowsWith(lines, line, separator)
<1> DEFINE m    == Len(lines)
           more == WithLast(lines, line)
           old  == RowsOf(lines, separator)
           new  == RowsOf(more, separator)
           F    == Full(lines)
           G    == Full(more)
           s    == Split(line, {separator})
<1>1. m \in Nat \ {0} /\ m \in 1..m /\ lines \in Seq(Seq(A)) /\ m = Len(lines)
  OBVIOUS
<1>2. /\ more \in Seq(Seq(A)) /\ Len(more) = m
      /\ \A k \in 1..m : more[k] = IF k = m THEN line ELSE lines[k]
  BY <1>1, ExceptSeq DEF WithLast
<1>3. /\ F \in SUBSET Nat /\ IsFiniteSet(F) /\ Cardinality(F) \in Nat
      /\ \A k \in F : k \in 1..m /\ lines[k] # <<>>
  BY FullFinite
<1>4. /\ old \in Seq(Seq(Seq(A))) /\ Len(old) = Cardinality(F)
      /\ old = [n \in 1..Cardinality(F) |-> Split(lines[Nth(F, n)], {separator})]
  BY RowsTyped DEF RowsOf
<1>5. /\ new \in Seq(Seq(Seq(A))) /\ Len(new) = Cardinality(G)
      /\ new = [n \in 1..Cardinality(G) |-> Split(more[Nth(G, n)], {separator})]
  <2> HIDE DEF more
  <2> QED
    BY <1>2, RowsTyped DEF RowsOf
<1>6. s \in Seq(Seq(A))
  BY PiecesTyped
<1>7. G = F \cup {m}
  <2>1. \A k : k \in G <=> k \in 1..m /\ more[k] # <<>>
    BY <1>2 DEF Full
  <2>2. \A k : k \in F <=> k \in 1..m /\ lines[k] # <<>>
    BY DEF Full
  <2> HIDE DEF more, G, F, m
  <2>3. \A k : k \in G <=> k \in F \/ k = m
    BY <1>1, <1>2, <2>1, <2>2
  <2> QED
    BY <2>3
<1>8. CASE lines[m] = <<>>
  <2>1. \A k \in F : k < m
    <3>1. \A k \in F : k \in 1..m /\ k # m
      BY <1>3, <1>8
    <3> HIDE DEF F, m
    <3> QED
      BY <1>1, <3>1
  <2> HIDE DEF more, G, F, m, old, new, s
  <2>2. /\ Cardinality(G) = Cardinality(F) + 1 /\ Nth(G, Cardinality(F) + 1) = m
        /\ \A n \in 1..Cardinality(F) : Nth(G, n) = Nth(F, n)
    BY <1>1, <1>3, <1>7, <2>1, NthAdded
  <2>3. ASSUME NEW n \in 1..Cardinality(F) PROVE new[n] = old[n]
    <3>1. n \in 1..Cardinality(G)
      BY <1>3, <2>2
    <3>2. Nth(F, n) \in F
      BY <1>3, NthIs
    <3>3. Nth(F, n) \in 1..m /\ Nth(F, n) # m
      BY <1>3, <1>8, <3>2
    <3>4. more[Nth(F, n)] = lines[Nth(F, n)]
      BY <1>2, <3>3
    <3> QED
      BY <1>4, <1>5, <2>2, <3>1, <3>4
  <2>4. new[Cardinality(F) + 1] = s
    <3>1. Cardinality(F) + 1 \in 1..Cardinality(G)
      BY <1>3, <2>2
    <3>2. more[m] = line
      BY <1>1, <1>2
    <3> QED
      BY <1>5, <2>2, <3>1, <3>2 DEF s
  <2>5. /\ Append(old, s) \in Seq(Seq(Seq(A))) /\ Len(Append(old, s)) = Cardinality(F) + 1
        /\ \A n \in 1..Cardinality(F) : Append(old, s)[n] = old[n]
        /\ Append(old, s)[Cardinality(F) + 1] = s
    <3>1. old \in Seq(Seq(Seq(A))) /\ Len(old) = Cardinality(F)
      BY <1>4
    <3> QED
      BY <1>6, <3>1, AppendProperties
  <2>6. \A n \in 1..Len(new) : new[n] = Append(old, s)[n]
    <3>1. \A n \in 1..Len(new) : n \in 1..Cardinality(F) \/ n = Cardinality(F) + 1
      BY <1>3, <1>5, <2>2
    <3> QED
      BY <2>3, <2>4, <2>5, <3>1
  <2>7. new = Append(old, s)
    <3>1. new \in Seq(Seq(Seq(A))) /\ Len(new) = Len(Append(old, s))
      BY <1>5, <2>2, <2>5
    <3> QED
      BY <2>5, <2>6, <3>1, SeqEqual
  <2> QED
    BY <1>8, <2>7 DEF new, old, more, m, s, RowsWith
<1>9. CASE lines[m] # <<>>
  <2> HIDE DEF more, G, new, s
  <2>1. m \in F
    BY <1>1, <1>9 DEF Full
  <2>2. G = F
    BY <1>7, <2>1
  <2> HIDE DEF F, old, m
  <2>3. \A k \in F : k =< m
    <3>1. \A k \in F : k \in 1..m
      BY <1>3
    <3> QED
      BY <1>1, <3>1
  <2>4. /\ Cardinality(F) \in Nat \ {0} /\ Nth(F, Cardinality(F)) = m
        /\ \A n \in 1..(Cardinality(F) - 1) : Nth(F, n) \in F /\ Nth(F, n) < m
    BY <1>3, <2>1, <2>3, NthGreatest
  <2>5. Cardinality(F) \in 1..Cardinality(F)
    BY <2>4
  <2>6. old[Cardinality(F)] = Split(lines[m], {separator})
    BY <1>4, <2>4, <2>5
  <2>7. new[Cardinality(F)] = s
    <3>1. more[m] = line
      BY <1>1, <1>2
    <3> QED
      BY <1>5, <2>2, <2>4, <2>5, <3>1 DEF s
  <2>8. ASSUME NEW n \in 1..(Cardinality(F) - 1) PROVE new[n] = old[n]
    <3>1. n \in 1..Cardinality(F)
      BY <1>3
    <3>2. Nth(F, n) \in F /\ Nth(F, n) < m
      BY <2>4
    <3>3. Nth(F, n) \in 1..m /\ Nth(F, n) # m
      <4>1. Nth(F, n) \in 1..m
        BY <1>3, <3>2
      <4> QED
        BY <1>1, <3>2, <4>1
    <3>4. more[Nth(F, n)] = lines[Nth(F, n)]
      BY <1>2, <3>3
    <3> QED
      BY <1>4, <1>5, <2>2, <3>1, <3>4
  <2> DEFINE E == [old EXCEPT ![Cardinality(F)] = s]
  <2>9. /\ E \in Seq(Seq(Seq(A))) /\ Len(E) = Cardinality(F)
        /\ \A n \in 1..Cardinality(F) : E[n] = IF n = Cardinality(F) THEN s ELSE old[n]
    <3>1. old \in Seq(Seq(Seq(A))) /\ Len(old) = Cardinality(F)
      BY <1>4
    <3>2. Cardinality(F) \in 1..Len(old)
      BY <2>5, <3>1
    <3> QED
      BY <1>6, <3>1, <3>2, ExceptSeq
  <2> HIDE DEF E
  <2>10. \A n \in 1..Len(new) : new[n] = E[n]
    <3>1. \A n \in 1..Len(new) : n \in 1..(Cardinality(F) - 1) \/ n = Cardinality(F)
      BY <1>3, <1>5, <2>2
    <3>2. \A n \in 1..(Cardinality(F) - 1) : n \in 1..Cardinality(F) /\ n # Cardinality(F)
      BY <1>3
    <3> QED
      BY <2>5, <2>7, <2>8, <2>9, <3>1, <3>2
  <2>11. Len(new) = Len(E)
    BY <1>5, <2>2, <2>9
  <2>12. new = E
    BY <1>5, <2>9, <2>10, <2>11, SeqEqual
  <2>13. Len(old) = Cardinality(F)
    BY <1>4
  <2>14. new = WithLast(old, s)
    BY <2>12, <2>13 DEF E, WithLast
  <2> QED
    BY <1>9, <2>4, <2>6, <2>13, <2>14 DEF new, old, more, m, s, RowsWith
<1> QED
  BY <1>8, <1>9 DEF RowsWith

\* A row with a byte more behind it.
Grown(fields, b, separator) ==
  IF b = separator THEN Append(fields, <<>>)
  ELSE [fields EXCEPT ![Len(fields)] = Append(fields[Len(fields)], b)]

\* A line with a byte in it, read as a row, grows with each byte.
LEMMA LineGrows ==
  ASSUME NEW A, NEW line \in Seq(A), NEW b \in A, NEW separator
  PROVE  Split(Append(line, b), {separator}) = Grown(Split(line, {separator}), b, separator)
<1> DEFINE old == Split(line, {separator})
           new == Split(Append(line, b), {separator})
<1>1. b \in {separator} <=> b = separator
  OBVIOUS
<1>2. new = IF b \in {separator} THEN Append(old, <<>>)
            ELSE [old EXCEPT ![Len(old)] = Append(LastPiece(line, {separator}), b)]
  <2>1. \A E : Split(Append(line, b), E)
                  = IF b \in E THEN Append(Split(line, E), <<>>)
                    ELSE [Split(line, E) EXCEPT ![Len(Split(line, E))] = Append(LastPiece(line, E), b)]
    BY SplitGrows
  <2> QED
    BY <2>1, Zenon
<1>3. LastPiece(line, {separator}) = old[Len(old)]
  BY DEF LastPiece
<1> HIDE DEF old, new
<1>4. new = Grown(old, b, separator)
  BY <1>1, <1>2, <1>3 DEF Grown
<1> QED
  BY <1>4 DEF old, new

\* Nothing has no rows.
LEMMA TableOfNothing ==
  ASSUME NEW separator, NEW ends
  PROVE  Table(<<>>, separator, ends) = <<>> /\ LastPiece(<<>>, ends) = <<>>
<1> DEFINE L == << <<>> >>
<1>1. Split(<<>>, ends) = L /\ LastPiece(<<>>, ends) = <<>>
  BY SplitOfNothing
<1>2. Table(<<>>, separator, ends) = RowsOf(L, separator)
  BY <1>1 DEF Table, RowsOf, Full
<1>3. Full(L) = {}
  BY DEF Full
<1>4. Cardinality({}) = 0
  BY FS_EmptySet
<1>5. RowsOf(L, separator) = [n \in 1..0 |-> Split(L[Nth({}, n)], {separator})]
  BY <1>3, <1>4, Zenon DEF RowsOf
<1> HIDE DEF L
<1>6. 1..0 = {}
  OBVIOUS
<1>7. RowsOf(L, separator) = <<>>
  BY <1>5, <1>6
<1> QED
  BY <1>1, <1>2, <1>7

\* How the table of a text grows with a byte: not at all at the end of a line, by
\* a row at the first byte of a line, and in its last row at the others.
Grows(old, new, line, b, separator, ends) ==
  /\ b \in ends => new = old
  /\ b \notin ends /\ line = <<>> => new = Append(old, Grown(<< <<>> >>, b, separator))
  /\ b \notin ends /\ line # <<>> =>
       Len(old) > 0 /\ new = WithLast(old, Grown(old[Len(old)], b, separator))

\* What a byte more does to the table and to the last line.
ByteAdded(A, s, b, separator, ends) ==
  /\ Table(s, separator, ends) \in Seq(Seq(Seq(A)))
  /\ LastPiece(s, ends) \in Seq(A)
  /\ LastPiece(Append(s, b), ends) = IF b \in ends THEN <<>> ELSE Append(LastPiece(s, ends), b)
  /\ Grows(Table(s, separator, ends), Table(Append(s, b), separator, ends),
           LastPiece(s, ends), b, separator, ends)

\* A byte more makes the table grow in this way.
LEMMA TableGrows ==
  ASSUME NEW A, NEW s \in Seq(A), NEW b \in A, NEW separator, NEW ends
  PROVE  ByteAdded(A, s, b, separator, ends)
<1> DEFINE old   == Table(s, separator, ends)
           new   == Table(Append(s, b), separator, ends)
           line  == LastPiece(s, ends)
           lines == Split(s, ends)
<1>1. old = RowsOf(lines, separator)
  BY DEF Table, RowsOf, Full
<1>2. new = RowsOf(Split(Append(s, b), ends), separator)
  BY DEF Table, RowsOf, Full
<1>3. /\ lines \in Seq(Seq(A)) /\ Len(lines) \in Nat \ {0} /\ line \in Seq(A)
      /\ line = lines[Len(lines)]
  BY PiecesTyped DEF LastPiece
<1>4. old \in Seq(Seq(Seq(A))) /\ Len(old) \in Nat
  <2>1. old \in Seq(Seq(Seq(A)))
    BY <1>1, <1>3, RowsTyped
  <2> HIDE DEF old
  <2> QED
    BY <2>1
<1>5. Split(Append(s, b), ends) = IF b \in ends THEN Append(lines, <<>>)
                                 ELSE [lines EXCEPT ![Len(lines)] = Append(line, b)]
  BY SplitGrows
<1>6. LastPiece(Append(s, b), ends) = IF b \in ends THEN <<>> ELSE Append(line, b)
  BY SplitGrows
<1>7. Append(line, b) \in Seq(A) /\ Append(line, b) # <<>>
  BY <1>3, AppendProperties
<1>8. Split(Append(line, b), {separator}) = Grown(Split(line, {separator}), b, separator)
  BY <1>3, LineGrows
<1> HIDE DEF old, new, lines, line
<1>9. ASSUME b \in ends PROVE new = old
  BY <1>1, <1>2, <1>3, <1>5, <1>9, EmptyLineAdded
<1>10. ASSUME b \notin ends
       PROVE  /\ line = <<>> => new = Append(old, Split(Append(line, b), {separator}))
              /\ line # <<>> =>
                   /\ Len(old) \in Nat \ {0}
                   /\ old[Len(old)] = Split(line, {separator})
                   /\ new = WithLast(old, Split(Append(line, b), {separator}))
  <2> DEFINE u == Append(line, b)
  <2>1. new = RowsOf(WithLast(lines, u), separator)
    BY <1>2, <1>5, <1>10 DEF WithLast
  <2>2. lines \in Seq(Seq(A)) /\ Len(lines) > 0 /\ u \in Seq(A) /\ u # <<>>
    BY <1>3, <1>7
  <2>3. line = lines[Len(lines)]
    BY <1>3
  <2> HIDE DEF u
  <2>4. RowsWith(lines, u, separator)
    BY <2>2, LastLineGrows
  <2> QED
    BY <1>1, <2>1, <2>3, <2>4 DEF u, RowsWith
<1>11. ASSUME b \notin ends, line = <<>>
       PROVE  new = Append(old, Grown(<< <<>> >>, b, separator))
  <2>1. Split(line, {separator}) = << <<>> >>
    BY <1>11, SplitOfNothing
  <2> QED
    BY <1>8, <1>10, <1>11, <2>1
<1>12. ASSUME b \notin ends, line # <<>>
       PROVE  /\ Len(old) > 0
              /\ new = WithLast(old, Grown(old[Len(old)], b, separator))
  <2>1. Split(Append(line, b), {separator}) = Grown(old[Len(old)], b, separator)
    BY <1>8, <1>10, <1>12
  <2> QED
    BY <1>10, <1>12, <2>1
<1>13. Grows(old, new, line, b, separator, ends)
  BY <1>9, <1>11, <1>12 DEF Grows
<1> QED
  BY <1>3, <1>4, <1>6, <1>13 DEF old, new, line, ByteAdded

(* The parser of a file without quotes and white space. *)

\* The settings with which a text is what Table says it is.
PlainParser ==
  /\ TypeOK
  /\ options = {} /\ status = "SUCCESS"
  /\ Len(delimiter) =< 1 /\ SimpleFS \notin Eol
  /\ delimiterPos = 0 /\ trailingSpace = <<>>
  /\ state \in NotBegun \cup {"FIELD"}

\* Bytes of the chunk the parser has not yet come to.
Ahead1 == Len(input) - position

\* How much of the file the parser has consumed.
Consumed == Len(contents) - (Len(file) + Len(chunk) + Ahead1)

\* The rest of the file is what the parser has before it, the chunk that waits and
\* what is not read.
FileIsRead ==
  /\ contents \in Seq(Byte) /\ file \in Seq(Byte) /\ Consumed \in Nat
  /\ \A k \in 1..Ahead1 : input[position + k] = contents[Consumed + k]
  /\ \A k \in 1..Len(chunk) : chunk[k] = contents[Consumed + Ahead1 + k]
  /\ \A k \in 1..Len(file) : file[k] = contents[Consumed + Ahead1 + Len(chunk) + k]
  /\ call # "draining" => chunk = <<>>

PlainFile == \A k \in 1..Len(contents) : contents[k] \notin WhiteSpace \cup {quote}

\* What a byte makes the parser do.
SkipsEol(b) ==
  /\ b \in Eol /\ state = "RECORD_NOT_BEGUN"
  /\ UNCHANGED <<state, stop, field, row, rows>>

EndsRow(b, s) ==
  /\ b \in Eol /\ state # "RECORD_NOT_BEGUN"
  /\ state' = "RECORD_NOT_BEGUN" /\ stop' = s /\ field' = <<>> /\ row' = <<>>
  /\ rows' = Append(rows, [fields |-> Append(row, field), eol |-> b])

EndsField(b, s) ==
  /\ b \notin Eol /\ b = SimpleFS
  /\ state' = "FIELD_NOT_BEGUN" /\ stop' = s /\ field' = <<>>
  /\ row' = Append(row, field) /\ UNCHANGED rows

AddsByte(b) ==
  /\ b \notin Eol /\ b # SimpleFS
  /\ state' = "FIELD" /\ field' = Append(field, b) /\ UNCHANGED <<stop, row, rows>>

Takes(b, s) == SkipsEol(b) \/ EndsRow(b, s) \/ EndsField(b, s) \/ AddsByte(b)

\* With a delimiter of one byte the character is classified by itself.
LEMMA PlainClassOf ==
  ASSUME PlainParser, InLoop, Byte1 \notin WhiteSpace \cup {quote}
  PROVE  /\ NextPosition = position + 1 /\ NextDelimiterPos = 0 /\ Text = field
         /\ Class = IF Byte1 = SimpleFS THEN "FS" ELSE IF Byte1 \in Eol THEN "EOL" ELSE "CHAR"
<1>1. Len(delimiter) \in Nat /\ field \in Seq(Byte) /\ position \in Nat
  BY DEF PlainParser, TypeOK
<1>2. ~Compound
  BY <1>1 DEF Compound, PlainParser
<1>3. ~InDelimiter /\ ~Broken
  BY <1>2 DEF InDelimiter, Broken
<1>4. Spill = <<>> /\ Matched = 0
  BY <1>3 DEF Spill, Matched, PlainParser
<1>5. Text = field
  BY <1>1, <1>4 DEF Text
<1> QED
  BY <1>2, <1>3, <1>4, <1>5 DEF Class, PlainClass, NextPosition, NextDelimiterPos

\* The turn of the loop for a plain byte.
LEMMA PlainTurn ==
  ASSUME PlainParser, NEW s \in BOOLEAN, Accept(s), Byte1 \notin WhiteSpace \cup {quote}
  PROVE  /\ Takes(Byte1, s)
         /\ PlainParser'
         /\ position' = position + 1 /\ position < Len(input)
         /\ UNCHANGED <<config, input, chunk, call, result>>
<1>1. InLoop
  BY DEF Accept
<1>2. /\ NextPosition = position + 1 /\ NextDelimiterPos = 0 /\ Text = field
      /\ Class = IF Byte1 = SimpleFS THEN "FS" ELSE IF Byte1 \in Eol THEN "EOL" ELSE "CHAR"
  BY <1>1, PlainClassOf
<1>3. Advance
  BY DEF Accept, PassOver, ReportEmptyRow, EndField, EndRecord, OpenQuote,
         FieldByte, FieldSpace, QuotedByte, QuoteInQuoted, DoubledQuote, StrayQuote, PlainParser,
         NotBegun
<1>4. /\ position' = position + 1 /\ delimiterPos' = 0
      /\ UNCHANGED <<delimiter, quote, options, input, chunk, call, result, status>>
  BY <1>2, <1>3 DEF Advance, IdentifyCharacter, config
<1>5. TypeOK'
  BY AcceptTyped DEF PlainParser
<1>6. /\ options = {} /\ trailingSpace = <<>> /\ state \in NotBegun \cup {"FIELD"}
      /\ SimpleFS \notin Eol /\ field \in Seq(Byte)
  BY DEF PlainParser, TypeOK
<1>7. Class \in {"FS", "EOL", "CHAR"}
  BY <1>2
<1>8. PassOver \/ EndField(s) \/ EndRecord(s) \/ FieldByte
  BY <1>6, <1>7
     DEF Accept, NotBegun, ReportEmptyRow, OpenQuote, FieldSpace, QuotedByte, QuoteInQuoted,
         DoubledQuote, StrayQuote
<1>9. Takes(Byte1, s) /\ trailingSpace' = <<>> /\ state' \in NotBegun \cup {"FIELD"}
  <2>1. CASE PassOver
    <3>1. Byte1 \in Eol /\ state = "RECORD_NOT_BEGUN"
      BY <1>2, <2>1 DEF PassOver
    <3>2. UNCHANGED <<state, stop, field, row, rows, trailingSpace>>
      BY <1>2, <2>1 DEF PassOver, Quiet
    <3> QED
      BY <1>6, <3>1, <3>2 DEF Takes, SkipsEol
  <2>2. CASE EndField(s)
    <3>1. Byte1 = SimpleFS
      BY <1>2, <2>2 DEF EndField
    <3>2. /\ state' = "FIELD_NOT_BEGUN" /\ stop' = s /\ field' = <<>> /\ trailingSpace' = <<>>
          /\ row' = Append(row, field) /\ UNCHANGED rows
      BY <1>2, <2>2 DEF EndField, FireField, ClearField
    <3> QED
      BY <1>6, <3>1, <3>2 DEF Takes, EndsField, NotBegun
  <2>3. CASE EndRecord(s)
    <3>1. Byte1 \in Eol /\ state # "RECORD_NOT_BEGUN"
      BY <1>2, <2>3 DEF EndRecord
    <3>2. /\ state' = "RECORD_NOT_BEGUN" /\ stop' = s /\ field' = <<>> /\ trailingSpace' = <<>>
          /\ row' = <<>> /\ rows' = Append(rows, [fields |-> Append(row, field), eol |-> Byte1])
      BY <1>2, <2>3 DEF EndRecord, FireRecord, ClearField
    <3> QED
      BY <3>1, <3>2 DEF Takes, EndsRow, NotBegun
  <2>4. CASE FieldByte
    <3>1. Byte1 \notin Eol /\ Byte1 # SimpleFS
      BY <1>2, <1>6, <1>7, <2>4 DEF FieldByte
    <3>2. field \o <<>> = field
      BY <1>6
    <3>3. field' = Append(field, Byte1) /\ trailingSpace' = <<>> /\ state' = "FIELD"
      BY <1>2, <1>6, <2>4, <3>2 DEF FieldByte, Keep
    <3>4. UNCHANGED <<stop, row, rows>>
      BY <2>4 DEF FieldByte, Quiet
    <3> QED
      BY <3>1, <3>3, <3>4 DEF Takes, AddsByte
  <2> QED
    BY <1>8, <2>1, <2>2, <2>3, <2>4
<1>10. PlainParser'
  BY <1>4, <1>5, <1>9 DEF PlainParser, SimpleFS
<1>11. position < Len(input)
  BY <1>1 DEF InLoop
<1> QED
  BY <1>4, <1>9, <1>10, <1>11 DEF config

\* The lengths that Consumed is made of.
LEMMA ReadLengths ==
  ASSUME TypeOK, FileIsRead
  PROVE  /\ Len(input) \in Nat /\ position \in Nat /\ position =< Len(input)
         /\ Ahead1 \in Nat /\ Len(chunk) \in Nat /\ Len(file) \in Nat
         /\ Consumed \in Nat /\ Len(contents) \in Nat
         /\ Len(contents) = Consumed + Ahead1 + Len(chunk) + Len(file)
<1>1. /\ Len(input) \in Nat /\ position \in Nat /\ position =< Len(input)
      /\ Len(chunk) \in Nat /\ Len(file) \in Nat /\ Len(contents) \in Nat
  BY DEF TypeOK, FileIsRead
<1> QED
  BY <1>1 DEF Ahead1, Consumed, FileIsRead

\* A turn of the loop consumes the next byte of the file.
LEMMA TurnReadsOn ==
  ASSUME TypeOK, FileIsRead, position < Len(input), position' = position + 1,
         UNCHANGED <<input, chunk, call, contents, file>>
  PROVE  /\ FileIsRead' /\ Consumed' = Consumed + 1 /\ Consumed < Len(contents)
         /\ Byte1 = contents[Consumed + 1] /\ Byte1 \in Byte
<1>1. /\ Len(input) \in Nat /\ position \in Nat /\ position =< Len(input)
      /\ Ahead1 \in Nat /\ Len(chunk) \in Nat /\ Len(file) \in Nat
      /\ Consumed \in Nat /\ Len(contents) \in Nat
      /\ Len(contents) = Consumed + Ahead1 + Len(chunk) + Len(file)
  BY ReadLengths
<1>2. Ahead1 \in Nat \ {0} /\ Ahead1' = Ahead1 - 1 /\ Consumed' = Consumed + 1
  BY <1>1 DEF Ahead1, Consumed
<1>3. \A k \in 1..Ahead1 : input[position + k] = contents[Consumed + k]
  BY DEF FileIsRead
<1>4. Byte1 = contents[Consumed + 1]
  BY <1>1, <1>2, <1>3 DEF Byte1
<1>5. \A k \in 1..(Ahead1 - 1) : input[(position + 1) + k] = contents[(Consumed + 1) + k]
  <2>1. ASSUME NEW k \in 1..(Ahead1 - 1)
        PROVE  input[(position + 1) + k] = contents[(Consumed + 1) + k]
    <3>1. k + 1 \in 1..Ahead1 /\ position + (k + 1) = (position + 1) + k
          /\ Consumed + (k + 1) = (Consumed + 1) + k
      BY <1>1, <1>2
    <3> QED
      BY <1>3, <3>1
  <2> QED
    BY <2>1
<1>6. (Consumed + 1) + (Ahead1 - 1) = Consumed + Ahead1
  BY <1>1
<1>7. FileIsRead'
  <2>1. /\ contents' \in Seq(Byte) /\ file' \in Seq(Byte) /\ Consumed' \in Nat
        /\ call' # "draining" => chunk' = <<>>
    BY <1>1, <1>2 DEF FileIsRead
  <2>2. \A k \in 1..Ahead1' : input'[position' + k] = contents'[Consumed' + k]
    BY <1>2, <1>5
  <2>3. Consumed' + Ahead1' = Consumed + Ahead1
    BY <1>2, <1>6
  <2>4. \A k \in 1..Len(chunk') : chunk'[k] = contents'[Consumed' + Ahead1' + k]
    BY <2>3 DEF FileIsRead
  <2>5. \A k \in 1..Len(file') : file'[k] = contents'[Consumed' + Ahead1' + Len(chunk') + k]
    BY <2>3 DEF FileIsRead
  <2> QED
    BY <2>1, <2>2, <2>4, <2>5 DEF FileIsRead
<1>8. Byte1 \in Byte
  BY <1>1 DEF Byte1, TypeOK
<1> QED
  BY <1>1, <1>2, <1>4, <1>7, <1>8

\* A block of the file is put behind what the parser has.
LEMMA BlockReadsOn ==
  ASSUME TypeOK, FileIsRead, ReadBlock
  PROVE  /\ FileIsRead' /\ Consumed' = Consumed
         /\ TypeOK' /\ stop' = FALSE
         /\ call' = IF position < Len(input) THEN "draining" ELSE "parsing"
         /\ UNCHANGED <<config, result, delimiterPos, characterClass, state, status,
                        field, trailingSpace, row, rows, contents>>
<1> DEFINE n == Smaller(BlockSize, Len(file))
           block == SubSeq(file, 1, n)
<1>1. /\ Len(input) \in Nat /\ position \in Nat /\ position =< Len(input)
      /\ Ahead1 \in Nat /\ Len(chunk) \in Nat /\ Len(file) \in Nat
      /\ Consumed \in Nat /\ Len(contents) \in Nat
      /\ Len(contents) = Consumed + Ahead1 + Len(chunk) + Len(file)
  BY ReadLengths
<1>2. call = "idle" /\ Parse(block) /\ file' = SubSeq(file, n + 1, Len(file)) /\ contents' = contents
  BY DEF ReadBlock
<1>3. chunk = <<>> /\ file \in Seq(Byte) /\ contents \in Seq(Byte)
  BY <1>2 DEF FileIsRead
<1>4. n \in Nat /\ n =< Len(file)
  BY <1>1, FileAssumption DEF Smaller
<1> HIDE DEF n
<1>5. /\ block \in Seq(Byte) /\ Len(block) = n
      /\ \A k \in 1..n : block[k] = file[k]
  BY <1>1, <1>3, <1>4, SubSeqProperties
<1>6. /\ file' \in Seq(Byte) /\ Len(file') = Len(file) - n
      /\ \A k \in 1..Len(file') : file'[k] = file[n + k]
  <2>1. /\ SubSeq(file, n + 1, Len(file)) \in Seq(Byte)
        /\ Len(SubSeq(file, n + 1, Len(file))) = Len(file) - n
        /\ \A k \in 1..(Len(file) - n) : SubSeq(file, n + 1, Len(file))[k] = file[n + k]
    BY <1>1, <1>3, <1>4, SubSeqProperties
  <2> QED
    BY <1>2, <2>1
<1> HIDE DEF block
<1>7. /\ stop' = FALSE
      /\ UNCHANGED <<config, result, delimiterPos, characterClass, state, status,
                     field, trailingSpace, row, rows, contents>>
  BY <1>2 DEF Parse
<1>8. /\ \A k \in 1..Ahead1 : input[position + k] = contents[Consumed + k]
      /\ \A k \in 1..Len(file) : file[k] = contents[Consumed + Ahead1 + k]
  <2>1. Consumed + Ahead1 + Len(chunk) = Consumed + Ahead1
    BY <1>1, <1>3
  <2> QED
    BY <2>1 DEF FileIsRead
<1>9. \A k \in 1..n : block[k] = contents[Consumed + Ahead1 + k]
  BY <1>1, <1>4, <1>5, <1>8
<1>10. \A k \in 1..Len(file') : file'[k] = contents[Consumed + Ahead1 + n + k]
  <2>1. ASSUME NEW k \in 1..Len(file') PROVE file'[k] = contents[Consumed + Ahead1 + n + k]
    <3>1. n + k \in 1..Len(file) /\ Consumed + Ahead1 + (n + k) = Consumed + Ahead1 + n + k
      BY <1>1, <1>4, <1>6
    <3> QED
      BY <1>6, <1>8, <3>1
  <2> QED
    BY <2>1
<1>11. CASE position < Len(input)
  <2>1. call' = "draining" /\ chunk' = block /\ UNCHANGED <<input, position>>
    BY <1>2, <1>11 DEF Parse
  <2>2. Ahead1' = Ahead1 /\ Len(chunk') = n /\ Consumed' = Consumed
    <3>1. Ahead1' = Ahead1
      BY <2>1 DEF Ahead1
    <3>2. Len(chunk') = n /\ Len(chunk) = 0
      BY <1>3, <1>5, <2>1
    <3>3. Len(contents') = Len(contents)
      BY <1>7
    <3> HIDE DEF Ahead1
    <3>4. Consumed' = Len(contents) - ((Len(file) - n) + n + Ahead1)
      BY <1>6, <3>1, <3>2, <3>3 DEF Consumed
    <3> QED
      BY <1>1, <1>4, <3>1, <3>2, <3>4
  <2>3. FileIsRead'
    BY <1>1, <1>3, <1>6, <1>7, <1>8, <1>9, <1>10, <2>1, <2>2 DEF FileIsRead
  <2>4. TypeOK'
    BY <1>5, <1>7, <2>1 DEF TypeOK, Calls, config
  <2> QED
    BY <1>7, <1>11, <2>1, <2>2, <2>3, <2>4
<1>12. CASE ~(position < Len(input))
  <2>1. call' = "parsing" /\ input' = block /\ position' = 0 /\ chunk' = <<>>
    BY <1>2, <1>3, <1>12 DEF Parse
  <2>2. Ahead1 = 0
    BY <1>1, <1>12 DEF Ahead1
  <2>3. Ahead1' = n /\ Len(chunk') = 0 /\ Consumed' = Consumed
    <3>1. Ahead1' = n
      BY <1>4, <1>5, <2>1 DEF Ahead1
    <3>2. Len(chunk') = 0 /\ Len(chunk) = 0
      BY <1>3, <2>1
    <3>3. Len(contents') = Len(contents)
      BY <1>7
    <3>4. Consumed' = Len(contents) - ((Len(file) - n) + 0 + n)
      BY <1>6, <3>1, <3>2, <3>3 DEF Consumed
    <3> QED
      BY <1>1, <1>4, <2>2, <3>1, <3>2, <3>4
  <2>4. \A k \in 1..n : block[0 + k] = contents[Consumed + k]
    <3>1. \A k \in 1..n : 0 + k = k /\ Consumed + Ahead1 + k = Consumed + k
      BY <1>1, <1>4, <2>2
    <3> QED
      BY <1>9, <3>1
  <2>5. \A k \in 1..Len(file') : file'[k] = contents[Consumed + n + 0 + k]
    <3>1. \A k \in 1..Len(file') : Consumed + Ahead1 + n + k = Consumed + n + 0 + k
      BY <1>1, <1>4, <1>6, <2>2
    <3> QED
      BY <1>10, <3>1
  <2>6. FileIsRead'
    BY <1>1, <1>3, <1>6, <1>7, <2>1, <2>3, <2>4, <2>5 DEF FileIsRead
  <2>7. TypeOK'
    <3>1. position' \in 0..Len(input') /\ input' \in Seq(Byte) /\ chunk' \in Seq(Byte)
      BY <1>4, <1>5, <2>1
    <3>2. call' \in Calls /\ stop' \in BOOLEAN
      BY <1>7, <2>1 DEF Calls
    <3>3. UNCHANGED <<delimiter, quote, options, result, delimiterPos, characterClass, state, status,
                      field, trailingSpace, row, rows>>
      BY <1>7 DEF config
    <3> QED
      BY <3>1, <3>2, <3>3 DEF TypeOK
  <2> QED
    BY <1>7, <1>12, <2>1, <2>3, <2>6, <2>7
<1> QED
  BY <1>11, <1>12

\* On the way out of a loop nothing of the file is lost, unless a callback stops
\* the parser in the first one.
LEMMA LeaveReadsOn ==
  ASSUME TypeOK, FileIsRead, LeaveLoop, call = "parsing" \/ ~stop, UNCHANGED <<contents, file>>
  PROVE  /\ FileIsRead' /\ Consumed' = Consumed /\ TypeOK'
         /\ call' = IF call = "draining" THEN "parsing" ELSE "idle"
         /\ call = "parsing" => UNCHANGED <<input, position>>
         /\ UNCHANGED <<config, delimiterPos, characterClass, state, status, stop,
                        field, trailingSpace, row, rows>>
<1>1. /\ Len(input) \in Nat /\ position \in Nat /\ position =< Len(input)
      /\ Ahead1 \in Nat /\ Len(chunk) \in Nat /\ Len(file) \in Nat
      /\ Consumed \in Nat /\ Len(contents) \in Nat
      /\ Len(contents) = Consumed + Ahead1 + Len(chunk) + Len(file)
  BY ReadLengths
<1>2. /\ UNCHANGED <<config, delimiterPos, characterClass, state, status, stop,
                     field, trailingSpace, row, rows>>
      /\ stop \/ position = Len(input)
      /\ Leave(IF status = "SUCCESS" THEN position ELSE -1, position)
  BY DEF LeaveLoop
<1>3. TypeOK'
  <2>1. (IF status = "SUCCESS" THEN position ELSE -1) \in Int /\ position \in 0..Len(input)
    BY <1>1
  <2>2. /\ input' \in Seq(Byte) /\ position' \in 0..Len(input')
        /\ chunk' \in Seq(Byte) /\ call' \in Calls
        /\ result' \in [of : {"none", "parse", "finish"}, value : Int]
    BY <1>2, <2>1, LeaveTyped
  <2> QED
    BY <1>2, <2>2 DEF TypeOK, config
<1>4. CASE call = "draining"
  <2>1. input' = chunk /\ position' = 0 /\ call' = "parsing" /\ chunk' = <<>> /\ ~stop
    BY <1>2, <1>4 DEF Leave
  <2>2. Ahead1 = 0 /\ Ahead1' = Len(chunk) /\ Len(chunk') = 0 /\ Consumed' = Consumed
    BY <1>1, <1>2, <2>1 DEF Ahead1, Consumed
  <2>3. \A k \in 1..Len(chunk) : chunk[0 + k] = contents[Consumed + k]
    <3>1. \A k \in 1..Len(chunk) : 0 + k = k /\ Consumed + Ahead1 + k = Consumed + k
      BY <1>1, <2>2
    <3> QED
      BY <3>1 DEF FileIsRead
  <2>4. \A k \in 1..Len(file) : file[k] = contents[Consumed + Len(chunk) + 0 + k]
    <3>1. \A k \in 1..Len(file) :
            Consumed + Ahead1 + Len(chunk) + k = Consumed + Len(chunk) + 0 + k
      BY <1>1, <2>2
    <3> QED
      BY <3>1 DEF FileIsRead
  <2>5. FileIsRead'
    BY <1>1, <2>1, <2>2, <2>3, <2>4 DEF FileIsRead
  <2> QED
    BY <1>2, <1>3, <1>4, <2>1, <2>2, <2>5
<1>5. CASE call = "parsing"
  <2>1. position' = position /\ call' = "idle" /\ UNCHANGED <<input, chunk>>
    BY <1>2, <1>5 DEF Leave
  <2>2. Ahead1' = Ahead1 /\ Consumed' = Consumed
    BY <2>1 DEF Ahead1, Consumed
  <2>3. chunk = <<>>
    BY <1>5 DEF FileIsRead
  <2>4. FileIsRead'
    BY <2>1, <2>2, <2>3 DEF FileIsRead
  <2> QED
    BY <1>2, <1>3, <1>5, <2>1, <2>2, <2>4
<1>6. call \in {"draining", "parsing"}
  BY DEF LeaveLoop, TypeOK, Calls
<1> QED
  BY <1>4, <1>5, <1>6

\* What the parser does not touch stays as it is.
LEMMA FileStays ==
  ASSUME FileIsRead, UNCHANGED <<input, position, chunk, call, contents, file>>
  PROVE  FileIsRead' /\ Consumed' = Consumed
<1>1. Ahead1' = Ahead1 /\ Consumed' = Consumed
  BY DEF Ahead1, Consumed
<1> QED
  BY <1>1 DEF FileIsRead

\* A beginning of a text with a byte more.
LEMMA PrefixGrows ==
  ASSUME NEW A, NEW c \in Seq(A), NEW k \in Nat, k < Len(c)
  PROVE  /\ SubSeq(c, 1, k) \in Seq(A) /\ c[k + 1] \in A
         /\ SubSeq(c, 1, k + 1) = Append(SubSeq(c, 1, k), c[k + 1])
<1> DEFINE p == SubSeq(c, 1, k)
           q == SubSeq(c, 1, k + 1)
<1>1. Len(c) \in Nat /\ k + 1 \in 1..Len(c) /\ c[k + 1] \in A
  OBVIOUS
<1>2. p \in Seq(A) /\ Len(p) = k /\ \A n \in 1..k : p[n] = c[n]
  BY <1>1, SubSeqProperties
<1>3. q \in Seq(A) /\ Len(q) = k + 1 /\ \A n \in 1..(k + 1) : q[n] = c[n]
  BY <1>1, SubSeqProperties
<1> HIDE DEF p, q
<1>4. /\ Append(p, c[k + 1]) \in Seq(A) /\ Len(Append(p, c[k + 1])) = k + 1
      /\ \A n \in 1..k : Append(p, c[k + 1])[n] = p[n]
      /\ Append(p, c[k + 1])[k + 1] = c[k + 1]
  BY <1>1, <1>2, AppendProperties
<1>5. \A n \in 1..(k + 1) : n \in 1..k \/ n = k + 1
  OBVIOUS
<1>6. q = Append(p, c[k + 1])
  <2>1. \A n \in 1..Len(q) : q[n] = Append(p, c[k + 1])[n]
    BY <1>2, <1>3, <1>4, <1>5
  <2>2. Len(q) = Len(Append(p, c[k + 1]))
    BY <1>3, <1>4
  <2> QED
    BY <1>3, <1>4, <2>1, <2>2, SeqEqual
<1> QED
  BY <1>1, <1>2, <1>6 DEF p, q

\* The last element of a sequence that was made longer can be exchanged.
LEMMA LastExchanged ==
  ASSUME NEW A, NEW s \in Seq(A), NEW a \in A, NEW b \in A
  PROVE  /\ Append(s, a)[Len(Append(s, a))] = a
         /\ WithLast(Append(s, a), b) = Append(s, b)
<1>1. /\ Append(s, a) \in Seq(A) /\ Len(Append(s, a)) = Len(s) + 1
      /\ Append(s, a)[Len(s) + 1] = a /\ \A n \in 1..Len(s) : Append(s, a)[n] = s[n]
      /\ Append(s, b) \in Seq(A) /\ Len(Append(s, b)) = Len(s) + 1
      /\ Append(s, b)[Len(s) + 1] = b /\ \A n \in 1..Len(s) : Append(s, b)[n] = s[n]
  BY AppendProperties
<1> DEFINE w == WithLast(Append(s, a), b)
<1>2. Len(s) + 1 \in 1..(Len(s) + 1) /\ Len(s) \in Nat
  OBVIOUS
<1>3. /\ w \in Seq(A) /\ Len(w) = Len(s) + 1
      /\ \A n \in 1..(Len(s) + 1) : w[n] = IF n = Len(s) + 1 THEN b ELSE Append(s, a)[n]
  <2> DEFINE t == Append(s, a)
  <2>1. t \in Seq(A) /\ Len(t) = Len(s) + 1 /\ Len(s) + 1 \in 1..Len(t)
    BY <1>1, <1>2
  <2>2. w = [t EXCEPT ![Len(s) + 1] = b]
    BY <2>1 DEF WithLast
  <2> HIDE DEF t, w
  <2>3. /\ w \in Seq(A) /\ Len(w) = Len(t)
        /\ \A n \in 1..Len(t) : w[n] = IF n = Len(s) + 1 THEN b ELSE t[n]
    BY <2>1, <2>2, ExceptSeq
  <2> QED
    BY <2>1, <2>3 DEF t
<1> HIDE DEF w
<1>4. \A n \in 1..(Len(s) + 1) : n \in 1..Len(s) \/ n = Len(s) + 1
  BY <1>2
<1>5. \A n \in 1..Len(s) : n # Len(s) + 1 /\ n \in 1..(Len(s) + 1)
  BY <1>2
<1>6. w = Append(s, b)
  <2>1. \A n \in 1..Len(w) : w[n] = Append(s, b)[n]
    BY <1>1, <1>2, <1>3, <1>4, <1>5
  <2> QED
    BY <1>1, <1>3, <2>1, SeqEqual
<1> QED
  BY <1>1, <1>6 DEF w

\* A row grows by a field or in its last one.
RowGrows(r, f, b, separator) ==
  /\ Grown(Append(r, f), b, separator)
       = IF b = separator THEN Append(Append(r, f), <<>>) ELSE Append(r, Append(f, b))
  /\ Grown(<< <<>> >>, b, separator)
       = IF b = separator THEN Append(<< <<>> >>, <<>>) ELSE << <<b>> >>

\* This is what Grown makes of it.
LEMMA GrownRow ==
  ASSUME NEW A, NEW r \in Seq(Seq(A)), NEW f \in Seq(A), NEW b \in A, NEW separator
  PROVE  RowGrows(r, f, b, separator)
<1>1. Append(f, b) \in Seq(A)
  OBVIOUS
<1>2. /\ Append(r, f)[Len(Append(r, f))] = f
      /\ WithLast(Append(r, f), Append(f, b)) = Append(r, Append(f, b))
  BY <1>1, LastExchanged
<1>3. /\ Append(<<>>, <<>>)[Len(Append(<<>>, <<>>))] = <<>>
      /\ WithLast(Append(<<>>, <<>>), <<b>>) = Append(<<>>, <<b>>)
  <2>1. <<>> \in Seq(Seq(A)) /\ <<>> \in Seq(A) /\ <<b>> \in Seq(A)
    OBVIOUS
  <2> QED
    BY <2>1, LastExchanged
<1>4. Append(<<>>, <<>>) = << <<>> >> /\ Append(<<>>, <<b>>) = << <<b>> >> /\ Append(<<>>, b) = <<b>>
  OBVIOUS
<1>5. << <<>> >>[Len(<< <<>> >>)] = <<>> /\ WithLast(<< <<>> >>, <<b>>) = << <<b>> >>
  BY <1>3, <1>4
<1> QED
  BY <1>2, <1>4, <1>5 DEF Grown, WithLast, RowGrows

\* No piece has a separator in it.
LEMMA PiecesClean ==
  ASSUME NEW A, NEW s \in Seq(A), NEW marks
  PROVE  Split(s, marks) \in Seq(Seq(A \ marks))
<1> DEFINE C    == A \ marks
           p(k) == SubSeq(s, 1, k)
           D    == {k \in Nat : k =< Len(s) => Split(p(k), marks) \in Seq(Seq(C))}
<1>1. Len(s) \in Nat
  OBVIOUS
<1>2. 0 \in D
  <2>1. p(0) = <<>> /\ << <<>> >> \in Seq(Seq(C))
    OBVIOUS
  <2> QED
    BY <2>1, SplitOfNothing
<1>3. ASSUME NEW k \in D PROVE k + 1 \in D
  <2>1. SUFFICES ASSUME k + 1 =< Len(s) PROVE Split(p(k + 1), marks) \in Seq(Seq(C))
    BY <1>3
  <2>2. k \in Nat /\ k < Len(s) /\ Split(p(k), marks) \in Seq(Seq(C))
    BY <1>1, <1>3, <2>1
  <2> DEFINE b      == s[k + 1]
             before == Split(p(k), marks)
             line   == LastPiece(p(k), marks)
  <2>3. p(k) \in Seq(A) /\ b \in A /\ p(k + 1) = Append(p(k), b)
    BY <2>2, PrefixGrows
  <2> HIDE DEF p, b
  <2>4. Split(Append(p(k), b), marks)
          = IF b \in marks THEN Append(before, <<>>)
            ELSE [before EXCEPT ![Len(before)] = Append(line, b)]
    BY <2>3, SplitGrows
  <2>5. Len(before) \in Nat \ {0} /\ line = before[Len(before)]
    BY <2>3, PiecesTyped DEF LastPiece
  <2>6. before \in Seq(Seq(C))
    BY <2>2
  <2> HIDE DEF before, line
  <2>7. line \in Seq(C)
    BY <2>5, <2>6, ElementOfSeq
  <2>8. CASE b \in marks
    <3>1. <<>> \in Seq(C)
      OBVIOUS
    <3>2. Append(before, <<>>) \in Seq(Seq(C))
      BY <2>6, <3>1, AppendProperties
    <3> QED
      BY <2>3, <2>4, <2>8, <3>2
  <2>9. CASE b \notin marks
    <3>1. b \in C
      BY <2>3, <2>9
    <3> HIDE DEF C
    <3>2. Append(line, b) \in Seq(C)
      BY <2>7, <3>1, AppendProperties
    <3>3. [before EXCEPT ![Len(before)] = Append(line, b)] \in Seq(Seq(C))
      BY <2>5, <2>6, <3>2, ExceptSeq
    <3> QED
      BY <2>3, <2>4, <2>9, <3>3
  <2> QED
    BY <2>8, <2>9
<1>4. D = Nat
  <2>1. D \in SUBSET Nat
    OBVIOUS
  <2> HIDE DEF D
  <2> QED
    BY <1>2, <1>3, <2>1, InductionOnNat
<1>5. p(Len(s)) = s
  <2>1. p(Len(s)) \in Seq(A) /\ Len(p(Len(s))) = Len(s)
        /\ \A k \in 1..Len(s) : p(Len(s))[k] = s[k]
    BY SubSeqProperties
  <2> HIDE DEF p
  <2> QED
    BY <2>1, SeqEqual
<1>6. Len(s) \in D
  <2> HIDE DEF D
  <2> QED
    BY <1>1, <1>4
<1> HIDE DEF p, C
<1> QED
  BY <1>1, <1>5, <1>6 DEF C

\* A text with a byte in it is not one empty piece.
LEMMA PiecesOfText ==
  ASSUME NEW A, NEW s \in Seq(A), NEW marks, s # <<>>
  PROVE  Split(s, marks) # << <<>> >>
<1> DEFINE k == Len(s) - 1
           p == SubSeq(s, 1, k)
           b == s[k + 1]
<1>1. k \in Nat /\ k < Len(s) /\ k + 1 = Len(s)
  OBVIOUS
<1>2. p \in Seq(A) /\ b \in A /\ SubSeq(s, 1, k + 1) = Append(p, b)
  BY <1>1, PrefixGrows
<1>3. SubSeq(s, 1, k + 1) = s
  <2> DEFINE all == SubSeq(s, 1, k + 1)
  <2>1. all \in Seq(A) /\ Len(all) = Len(s) /\ \A j \in 1..Len(s) : all[j] = s[j]
    BY <1>1, SubSeqProperties
  <2> HIDE DEF all
  <2>2. all = s
    BY <2>1, SeqEqual
  <2> QED
    BY <2>2 DEF all
<1> DEFINE before == Split(p, marks)
           line   == LastPiece(p, marks)
           longer == Append(p, b)
<1>10. p \in Seq(A) /\ b \in A /\ s = longer
  BY <1>2, <1>3
<1> HIDE DEF k, p, b
<1>11. /\ LastPiece(longer, marks) = IF b \in marks THEN <<>> ELSE Append(line, b)
       /\ Split(longer, marks) = IF b \in marks THEN Append(before, <<>>)
                                 ELSE [before EXCEPT ![Len(before)] = Append(line, b)]
  BY <1>10, SplitGrows
<1> HIDE DEF longer
<1>4. LastPiece(s, marks) = IF b \in marks THEN <<>> ELSE Append(line, b)
  BY <1>10, <1>11
<1>5. Split(s, marks) = IF b \in marks THEN Append(before, <<>>)
                        ELSE [before EXCEPT ![Len(before)] = Append(line, b)]
  BY <1>10, <1>11
<1>6. before \in Seq(Seq(A)) /\ Len(before) \in Nat \ {0} /\ line \in Seq(A)
  BY <1>2, PiecesTyped
<1> HIDE DEF before, line
<1>7. << <<>> >>[Len(<< <<>> >>)] = <<>> /\ Len(<< <<>> >>) = 1
  OBVIOUS
<1>8. CASE b \in marks
  <2>1. <<>> \in Seq(A)
    OBVIOUS
  <2>2. Len(Append(before, <<>>)) = Len(before) + 1
    BY <1>6, <2>1, AppendProperties
  <2>3. Split(s, marks) = Append(before, <<>>)
    BY <1>5, <1>8
  <2>4. ASSUME Split(s, marks) = << <<>> >> PROVE FALSE
    <3>1. Len(before) + 1 = 1
      BY <1>7, <2>2, <2>3, <2>4
    <3> QED
      BY <1>6, <3>1
  <2> QED
    BY <2>4
<1>9. CASE b \notin marks
  <2>1. LastPiece(s, marks) # <<>>
    <3>1. Append(line, b) # <<>>
      BY <1>6, <1>10, AppendProperties
    <3> QED
      BY <1>4, <1>9, <3>1
  <2>2. Split(s, marks) = << <<>> >> => LastPiece(s, marks) = <<>>
    BY <1>7 DEF LastPiece
  <2> QED
    BY <2>1, <2>2
<1> QED
  BY <1>8, <1>9

\* The fields of a table have neither a separator nor the end of a row in them, and no row
\* of it is one empty field.
LEMMA RowsClean ==
  ASSUME NEW A, NEW s \in Seq(A), NEW separator, NEW ends,
         NEW n \in 1..Len(Table(s, separator, ends))
  PROVE  /\ Table(s, separator, ends)[n] \in Seq(Seq((A \ ends) \ {separator}))
         /\ Table(s, separator, ends)[n] # << <<>> >>
<1> DEFINE lines == Split(s, ends)
           F     == Full(lines)
           line  == lines[Nth(F, n)]
<1>1. Table(s, separator, ends) = RowsOf(lines, separator)
  BY DEF Table, RowsOf, Full
<1>2. lines \in Seq(Seq(A \ ends))
  BY PiecesClean
<1> HIDE DEF lines
<1>3. /\ F \in SUBSET Nat /\ IsFiniteSet(F)
      /\ \A k \in F : k \in 1..Len(lines) /\ lines[k] # <<>>
  BY <1>2, FullFinite
<1>4. n \in 1..Cardinality(F)
  BY <1>1, <1>2, RowsTyped
<1>5. RowsOf(lines, separator)[n] = Split(line, {separator})
  BY <1>4 DEF RowsOf
<1> HIDE DEF F
<1>6. line \in Seq(A \ ends) /\ line # <<>>
  <2>1. Nth(F, n) \in F
    BY <1>3, <1>4, NthIs
  <2>2. Nth(F, n) \in 1..Len(lines) /\ line # <<>>
    BY <1>3, <2>1
  <2> QED
    BY <1>2, <2>2, ElementOfSeq
<1> HIDE DEF line
<1> QED
  BY <1>1, <1>5, <1>6, PiecesClean, PiecesOfText

\* What is consumed of the file, and the fields of the rows that are reported.
ReadPart == SubSeq(contents, 1, Consumed)

Fields == [n \in 1..Len(rows) |-> rows[n].fields]

\* What is reported is what is consumed, read as a table; the last row of it is
\* being read unless a line has just ended.
RowsMatch(table, line) ==
  IF line = <<>>
  THEN table = Fields /\ row = <<>> /\ field = <<>> /\ state = "RECORD_NOT_BEGUN"
  ELSE /\ table = Append(Fields, Append(row, field))
       /\ state # "RECORD_NOT_BEGUN" /\ Append(row, field) # << <<>> >>

RowsAreRead == RowsMatch(Table(ReadPart, SimpleFS, Eol), LastPiece(ReadPart, Eol))

\* The fields of the rows are a sequence of rows, which a record makes longer.
LEMMA FieldsTyped ==
  ASSUME TypeOK
  PROVE  /\ Fields \in Seq(Seq(Seq(Byte))) /\ Len(Fields) = Len(rows)
         /\ \A n \in 1..Len(rows) : Fields[n] = rows[n].fields
<1>1. rows \in Seq([fields : Seq(Seq(Byte)), eol : Byte]) /\ Len(rows) \in Nat
  BY DEF TypeOK
<1> DEFINE S == Seq(Seq(Byte))
           one(n) == rows[n].fields
<1>2. \A n \in 1..Len(rows) : one(n) \in S
  <2> DEFINE R == [fields : S, eol : Byte]
  <2>1. rows \in Seq(R)
    BY <1>1
  <2> HIDE DEF S
  <2>2. \A x \in R : x.fields \in S
    OBVIOUS
  <2> HIDE DEF R
  <2>3. \A n \in 1..Len(rows) : rows[n] \in R
    BY <2>1
  <2> QED
    BY <2>2, <2>3
<1>3. Fields = [n \in 1..Len(rows) |-> one(n)]
  BY DEF Fields
<1> HIDE DEF S, one
<1>4. Fields \in Seq(S)
  BY <1>1, <1>2, <1>3, IsASeq
<1>5. Len(Fields) = Len(rows)
  BY <1>1, <1>3, <1>4
<1>6. \A n \in 1..Len(rows) : Fields[n] = one(n)
  BY <1>3
<1> QED
  BY <1>4, <1>5, <1>6 DEF S, one

\* The row that is being read, with the field that is.
LEMMA RowTyped ==
  ASSUME TypeOK
  PROVE  row \in Seq(Seq(Byte)) /\ field \in Seq(Byte) /\ Append(row, field) \in Seq(Seq(Byte))
BY DEF TypeOK

\* A record adds its fields.
LEMMA FieldsAdded ==
  ASSUME TypeOK, NEW r \in Seq(Seq(Byte)), NEW e, rows' = Append(rows, [fields |-> r, eol |-> e])
  PROVE  Fields' = Append(Fields, r)
<1> DEFINE x == [fields |-> r, eol |-> e]
<1>1. rows \in Seq([fields : Seq(Seq(Byte)), eol : Byte]) /\ Len(rows) \in Nat
  BY DEF TypeOK
<1>2. x.fields = r
  OBVIOUS
<1> HIDE DEF x
<1>3. /\ Len(rows') = Len(rows) + 1 /\ \A n \in 1..Len(rows) : rows'[n] = rows[n]
      /\ rows'[Len(rows) + 1] = x
  BY <1>1 DEF x
<1>4. /\ Fields \in Seq(Seq(Seq(Byte))) /\ Len(Fields) = Len(rows)
      /\ \A n \in 1..Len(rows) : Fields[n] = rows[n].fields
  BY FieldsTyped
<1>5. /\ Append(Fields, r) \in Seq(Seq(Seq(Byte))) /\ Len(Append(Fields, r)) = Len(rows) + 1
      /\ Append(Fields, r)[Len(rows) + 1] = r
      /\ \A n \in 1..Len(rows) : Append(Fields, r)[n] = Fields[n]
  BY <1>4, AppendProperties
<1>6. Append(Fields, r) = [n \in 1..(Len(rows) + 1) |-> Append(Fields, r)[n]]
  <2> DEFINE more == Append(Fields, r)
             S == Seq(Seq(Byte))
  <2>1. more \in Seq(S) /\ Len(more) = Len(rows) + 1
    BY <1>5
  <2> HIDE DEF more, S
  <2>2. more = [n \in 1..Len(more) |-> more[n]]
    BY <2>1
  <2> QED
    BY <2>1, <2>2 DEF more
<1>7. Fields' = [n \in 1..(Len(rows) + 1) |-> rows'[n].fields]
  BY <1>3 DEF Fields
<1>8. \A n \in 1..(Len(rows) + 1) : rows'[n].fields = Append(Fields, r)[n]
  <2>1. \A n \in 1..(Len(rows) + 1) : n \in 1..Len(rows) \/ n = Len(rows) + 1
    BY <1>1
  <2> QED
    BY <1>2, <1>3, <1>4, <1>5, <2>1
<1> QED
  BY <1>6, <1>7, <1>8

\* The rows stay right with the byte that a turn of the loop consumes.
LEMMA RowsReadOn ==
  ASSUME TypeOK, FileIsRead, SimpleFS \notin Eol, RowsAreRead, NEW s, Consumed < Len(contents),
         Takes(contents[Consumed + 1], s), Consumed' = Consumed + 1,
         UNCHANGED <<contents, delimiter>>
  PROVE  RowsAreRead'
<1> DEFINE b    == contents[Consumed + 1]
           old  == Table(ReadPart, SimpleFS, Eol)
           new  == Table(Append(ReadPart, b), SimpleFS, Eol)
           line == LastPiece(ReadPart, Eol)
           next == LastPiece(Append(ReadPart, b), Eol)
           all  == Append(row, field)
<1>1. ReadPart \in Seq(Byte) /\ b \in Byte /\ ReadPart' = Append(ReadPart, b)
  <2>1. contents \in Seq(Byte) /\ Consumed \in Nat
    BY DEF FileIsRead
  <2>2. /\ SubSeq(contents, 1, Consumed) \in Seq(Byte) /\ contents[Consumed + 1] \in Byte
        /\ SubSeq(contents, 1, Consumed + 1)
             = Append(SubSeq(contents, 1, Consumed), contents[Consumed + 1])
    BY <2>1, PrefixGrows
  <2> QED
    BY <2>2 DEF ReadPart
<1>2. SimpleFS' = SimpleFS
  BY DEF SimpleFS
<1>3. /\ old \in Seq(Seq(Seq(Byte))) /\ line \in Seq(Byte)
      /\ next = IF b \in Eol THEN <<>> ELSE Append(line, b)
      /\ Grows(old, new, line, b, SimpleFS, Eol)
  <2> HIDE DEF b
  <2>1. ByteAdded(Byte, ReadPart, b, SimpleFS, Eol)
    BY <1>1, TableGrows
  <2> QED
    BY <2>1 DEF ByteAdded
<1>4. RowsMatch(old, line)
  BY DEF RowsAreRead
<1>5. row \in Seq(Seq(Byte)) /\ field \in Seq(Byte) /\ all \in Seq(Seq(Byte))
  BY RowTyped
<1>6. Fields \in Seq(Seq(Seq(Byte)))
  BY FieldsTyped
<1>7. Takes(b, s)
  OBVIOUS
<1>8. SUFFICES IF next = <<>>
               THEN new = Fields' /\ row' = <<>> /\ field' = <<>> /\ state' = "RECORD_NOT_BEGUN"
               ELSE /\ new = Append(Fields', Append(row', field'))
                    /\ state' # "RECORD_NOT_BEGUN" /\ Append(row', field') # << <<>> >>
  BY <1>1, <1>2 DEF RowsAreRead, RowsMatch
<1> HIDE DEF b, old, new, line, next, all
<1>9. /\ line = <<>> =>
           old = Fields /\ row = <<>> /\ field = <<>> /\ state = "RECORD_NOT_BEGUN"
      /\ line # <<>> =>
           old = Append(Fields, all) /\ state # "RECORD_NOT_BEGUN" /\ all # << <<>> >>
  BY <1>4 DEF RowsMatch, all
<1>10. /\ b \in Eol => next = <<>> /\ new = old
       /\ b \notin Eol =>
            /\ next # <<>>
            /\ line = <<>> => new = Append(old, Grown(<< <<>> >>, b, SimpleFS))
            /\ line # <<>> => new = WithLast(old, Grown(old[Len(old)], b, SimpleFS))
  <2>1. line \in Seq(Byte) /\ b \in Byte
    BY <1>1, <1>3
  <2>2. Append(line, b) # <<>>
    BY <2>1, AppendProperties
  <2> QED
    BY <1>3, <2>2 DEF Grows
<1>11. /\ Grown(all, b, SimpleFS)
            = IF b = SimpleFS THEN Append(all, <<>>) ELSE Append(row, Append(field, b))
       /\ Grown(<< <<>> >>, b, SimpleFS)
            = IF b = SimpleFS THEN Append(<< <<>> >>, <<>>) ELSE << <<b>> >>
  <2>1. RowGrows(row, field, b, SimpleFS)
    BY <1>1, <1>5, GrownRow
  <2> QED
    BY <2>1 DEF RowGrows, all
<1>12. /\ Grown(all, b, SimpleFS) \in Seq(Seq(Byte))
       /\ Append(Fields, all)[Len(Append(Fields, all))] = all
       /\ WithLast(Append(Fields, all), Grown(all, b, SimpleFS))
            = Append(Fields, Grown(all, b, SimpleFS))
  <2>1. Grown(all, b, SimpleFS) \in Seq(Seq(Byte))
    BY <1>1, <1>5, <1>11
  <2> QED
    BY <1>5, <1>6, <2>1, LastExchanged
<1>13. ASSUME b \notin Eol
       PROVE  new = Append(Fields, IF b = SimpleFS THEN Append(all, <<>>)
                                   ELSE Append(row, Append(field, b)))
  <2>1. CASE line = <<>>
    <3>1. old = Fields /\ row = <<>> /\ field = <<>> /\ all = << <<>> >>
      BY <1>9, <2>1 DEF all
    <3>2. Append(row, Append(field, b)) = << <<b>> >>
      BY <3>1
    <3> QED
      BY <1>10, <1>11, <1>13, <2>1, <3>1, <3>2
  <2>2. CASE line # <<>>
    <3>1. old = Append(Fields, all)
      BY <1>9, <2>2
    <3>2. new = WithLast(Append(Fields, all), Grown(all, b, SimpleFS))
      BY <1>10, <1>12, <1>13, <2>2, <3>1
    <3> QED
      BY <1>11, <1>12, <3>2
  <2> QED
    BY <2>1, <2>2
<1>14. CASE SkipsEol(b)
  <2>1. b \in Eol /\ state = "RECORD_NOT_BEGUN"
        /\ state' = state /\ field' = field /\ row' = row /\ rows' = rows
    BY <1>14 DEF SkipsEol
  <2>2. Fields' = Fields
    BY <2>1 DEF Fields
  <2> QED
    BY <1>9, <1>10, <2>1, <2>2
<1>15. CASE EndsRow(b, s)
  <2>1. /\ b \in Eol /\ state # "RECORD_NOT_BEGUN" /\ state' = "RECORD_NOT_BEGUN"
        /\ field' = <<>> /\ row' = <<>> /\ rows' = Append(rows, [fields |-> all, eol |-> b])
    BY <1>15 DEF EndsRow, all
  <2>2. Fields' = Append(Fields, all)
    BY <1>5, <2>1, FieldsAdded
  <2> QED
    BY <1>9, <1>10, <2>1, <2>2
<1>16. CASE EndsField(b, s)
  <2>1. /\ b \notin Eol /\ b = SimpleFS /\ state' = "FIELD_NOT_BEGUN"
        /\ field' = <<>> /\ row' = all /\ rows' = rows
    BY <1>16 DEF EndsField, all
  <2>2. Fields' = Fields
    BY <2>1 DEF Fields
  <2>3. Append(all, <<>>) # << <<>> >>
    <3>1. Len(Append(all, <<>>)) = Len(row) + 2 /\ Len(row) \in Nat
      BY <1>5 DEF all
    <3>2. Len(<< <<>> >>) = 1
      OBVIOUS
    <3> QED
      BY <3>1, <3>2
  <2> QED
    BY <1>10, <1>13, <2>1, <2>2, <2>3
<1>17. CASE AddsByte(b)
  <2>1. /\ b \notin Eol /\ b # SimpleFS /\ state' = "FIELD"
        /\ field' = Append(field, b) /\ row' = row /\ rows' = rows
    BY <1>17 DEF AddsByte
  <2>2. Fields' = Fields
    BY <2>1 DEF Fields
  <2>3. Append(row, Append(field, b)) # << <<>> >>
    <3>1. Append(field, b) \in Seq(Byte) /\ Append(field, b) # <<>>
      <4>1. field \in Seq(Byte) /\ b \in Byte
        BY <1>1, <1>5
      <4> QED
        BY <4>1, AppendProperties
    <3>2. Append(row, Append(field, b))[Len(row) + 1] = Append(field, b) /\ Len(row) \in Nat
          /\ Len(Append(row, Append(field, b))) = Len(row) + 1
      BY <1>5, <3>1
    <3>3. Len(<< <<>> >>) = 1 /\ << <<>> >>[1] = <<>>
      OBVIOUS
    <3> HIDE DEF all
    <3>4. ASSUME Append(row, Append(field, b)) = << <<>> >> PROVE FALSE
      <4>1. Len(row) = 0
        BY <3>2, <3>3, <3>4
      <4> QED
        BY <3>1, <3>2, <3>3, <3>4, <4>1
    <3> QED
      BY <3>4
  <2> QED
    BY <1>10, <1>13, <2>1, <2>2, <2>3
<1> QED
  BY <1>7, <1>14, <1>15, <1>16, <1>17 DEF Takes

\* When the parser has the whole file, what is consumed is the file.
LEMMA AllConsumed ==
  ASSUME TypeOK, FileIsRead, call = "idle", file = <<>>, position = Len(input)
  PROVE  ReadPart = contents
<1>1. /\ Len(input) \in Nat /\ position \in Nat /\ position =< Len(input)
      /\ Ahead1 \in Nat /\ Len(chunk) \in Nat /\ Len(file) \in Nat
      /\ Consumed \in Nat /\ Len(contents) \in Nat
      /\ Len(contents) = Consumed + Ahead1 + Len(chunk) + Len(file)
  BY ReadLengths
<1>2. chunk = <<>> /\ contents \in Seq(Byte)
  BY DEF FileIsRead
<1>3. Ahead1 = 0 /\ Len(chunk) = 0 /\ Len(file) = 0
  BY <1>1, <1>2 DEF Ahead1
<1>4. Consumed = Len(contents)
  BY <1>1, <1>3
<1>5. /\ SubSeq(contents, 1, Len(contents)) \in Seq(Byte)
      /\ Len(SubSeq(contents, 1, Len(contents))) = Len(contents)
      /\ \A k \in 1..Len(contents) : SubSeq(contents, 1, Len(contents))[k] = contents[k]
  BY <1>1, <1>2, SubSeqProperties
<1>6. SubSeq(contents, 1, Len(contents)) = contents
  BY <1>2, <1>5, SeqEqual
<1> QED
  BY <1>4, <1>6 DEF ReadPart

\* The row callback, with the field callback before it, the field callback, or none.
RowEvent(v, s) ==
  /\ \E e : rows' = Append(rows, [fields |-> Append(row, v), eol |-> e])
  /\ row' = <<>> /\ stop' = s

FieldEvent(v, s) == row' = Append(row, v) /\ rows' = rows /\ stop' = s

NoEvent == UNCHANGED <<row, rows, stop>>

\* What the callbacks of a program see of these events.
LEMMA EventReported ==
  ASSUME TypeOK, NEW v \in Seq(Byte), NEW s
  PROVE  /\ RowEvent(v, s) => RecordReported /\ Reported = <<v>>
         /\ FieldEvent(v, s) => ~RecordReported /\ Reported = <<v>>
         /\ NoEvent => ~RecordReported /\ Reported = <<>>
<1>1. row \in Seq(Seq(Byte)) /\ rows \in Seq([fields : Seq(Seq(Byte)), eol : Byte])
  BY DEF TypeOK
<1> DEFINE all == Append(row, v)
<1>2. all \in Seq(Seq(Byte)) /\ Last(all) = v /\ all # row
  <2>1. /\ all \in Seq(Seq(Byte)) /\ Len(all) = Len(row) + 1 /\ all[Len(row) + 1] = v
        /\ Len(row) \in Nat
    BY <1>1, AppendProperties
  <2> HIDE DEF all
  <2> QED
    BY <2>1 DEF Last
<1> HIDE DEF all
<1>3. ASSUME RowEvent(v, s) PROVE RecordReported /\ Reported = <<v>>
  <2>1. PICK e : rows' = Append(rows, [fields |-> all, eol |-> e])
    BY <1>3 DEF RowEvent, all
  <2> DEFINE x == [fields |-> all, eol |-> e]
  <2>2. x.fields = all
    OBVIOUS
  <2>3. rows' = Append(rows, x)
    BY <2>1
  <2> HIDE DEF x
  <2>4. Len(rows) \in Nat /\ Len(rows') = Len(rows) + 1 /\ rows'[Len(rows) + 1] = x
    BY <1>1, <2>3
  <2>5. rows' # rows /\ Last(rows') = x
    BY <2>4 DEF Last
  <2> QED
    BY <1>2, <2>2, <2>5 DEF RecordReported, Reported
<1>4. ASSUME FieldEvent(v, s) PROVE ~RecordReported /\ Reported = <<v>>
  <2>1. row' = all /\ rows' = rows
    BY <1>4 DEF FieldEvent, all
  <2>2. row' # row /\ Last(row') = v
    BY <1>2, <2>1
  <2> QED
    BY <2>1, <2>2 DEF RecordReported, Reported
<1>5. ASSUME NoEvent PROVE ~RecordReported /\ Reported = <<>>
  BY <1>5 DEF NoEvent, RecordReported, Reported
<1> QED
  BY <1>3, <1>4, <1>5

\* A turn of the loop reports one of these events, whatever the text and the settings
\* are.
LEMMA TurnReports ==
  ASSUME TypeOK, NEW s \in BOOLEAN, Accept(s)
  PROVE  ~stop /\ \E v \in Seq(Byte) : RowEvent(v, s) \/ FieldEvent(v, s) \/ NoEvent
<1>1. ~stop
  BY DEF Accept, InLoop
<1>2. Advance
  BY DEF Accept, PassOver, ReportEmptyRow, EndField, EndRecord, OpenQuote,
         FieldByte, FieldSpace, QuotedByte, QuoteInQuoted, DoubledQuote, StrayQuote
<1>3. Text \in Seq(Byte) /\ Byte1 \in Byte
  BY <1>2, IdentifiedIsTyped DEF Advance, IdentifyCharacter, InLoop
<1>4. CASE ReportEmptyRow(s)
  <2>1. Append(Text, Byte1) \in Seq(Byte)
    BY <1>3
  <2>2. RowEvent(Append(Text, Byte1), s)
    BY <1>4 DEF ReportEmptyRow, FireRecord, RowEvent
  <2> QED
    BY <1>1, <2>1, <2>2
<1>5. CASE EndRecord(s)
  <2>1. RowEvent(Text, s)
    BY <1>5 DEF EndRecord, FireRecord, RowEvent
  <2> QED
    BY <1>1, <1>3, <2>1
<1>6. CASE EndField(s)
  <2>1. FieldEvent(Text, s)
    BY <1>6 DEF EndField, FireField, FieldEvent
  <2> QED
    BY <1>1, <1>3, <2>1
<1>7. CASE \/ PassOver \/ OpenQuote \/ FieldByte \/ FieldSpace \/ QuotedByte
           \/ QuoteInQuoted \/ DoubledQuote \/ StrayQuote
  <2>1. NoEvent
    BY <1>7 DEF PassOver, OpenQuote, FieldByte, FieldSpace, QuotedByte, QuoteInQuoted,
                DoubledQuote, StrayQuote, Quiet, NoEvent
  <2> QED
    BY <1>1, <1>3, <2>1
<1> QED
  BY <1>4, <1>5, <1>6, <1>7 DEF Accept

\* The end of the text ends a row or reports nothing.
LEMMA FinishReports ==
  ASSUME TypeOK, NEW s \in BOOLEAN, Finish(s)
  PROVE  NoEvent \/ (~stop /\ RowEvent(field, s))
<1>1. CASE FinishRow(s)
  BY <1>1 DEF FinishRow, RowEvent
<1>2. CASE FinishStopped \/ FinishFailed \/ FinishNothing
  BY <1>2 DEF FinishStopped, FinishFailed, FinishNothing, NoEvent
<1> QED
  BY <1>1, <1>2 DEF Finish

\* The end of the text reports the row that is being read.
LEMMA PlainFinish ==
  ASSUME PlainParser, NEW s \in BOOLEAN, Finish(s)
  PROVE  /\ call = "idle"
         /\ UNCHANGED <<config, input, position, chunk, call>>
         /\ stop => UNCHANGED <<row, rows, stop, state, field>>
         /\ ~stop /\ state # "RECORD_NOT_BEGUN" => RowEvent(field, s) /\ field' = <<>>
         /\ ~stop /\ state = "RECORD_NOT_BEGUN" => NoEvent
<1>1. status = "SUCCESS" /\ ~OpenQuoteError
  BY DEF PlainParser, OpenQuoteError, NotBegun
<1>2. CASE FinishStopped
  BY <1>2 DEF FinishStopped, FinishReturns
<1>3. CASE FinishFailed
  BY <1>1, <1>3 DEF FinishFailed
<1>4. CASE FinishRow(s)
  <2>1. rows' = Append(rows, [fields |-> Append(row, field), eol |-> Nul]) /\ row' = <<>> /\ stop' = s
        /\ ~stop /\ state # "RECORD_NOT_BEGUN"
    BY <1>4 DEF FinishRow
  <2>2. RowEvent(field, s)
    BY <2>1 DEF RowEvent
  <2> QED
    BY <1>4, <2>1, <2>2 DEF FinishRow, FinishReturns, ClearField
<1>5. CASE FinishNothing
  BY <1>5 DEF FinishNothing, FinishReturns, NoEvent
<1> QED
  BY <1>2, <1>3, <1>4, <1>5 DEF Finish

\* So what is reported of a file in the end is the table it stands for.
LEMMA TableIsReported ==
  ASSUME PlainParser, FileIsRead, RowsAreRead, ~stop, file = <<>>, position = Len(input),
         NEW s \in BOOLEAN, Finish(s)
  PROVE  Fields' = Table(contents, SimpleFS, Eol)
<1>1. TypeOK
  BY DEF PlainParser
<1>2. /\ call = "idle"
      /\ state # "RECORD_NOT_BEGUN" => RowEvent(field, s)
      /\ state = "RECORD_NOT_BEGUN" => NoEvent
  BY PlainFinish
<1>3. ReadPart = contents
  BY <1>1, <1>2, AllConsumed
<1>4. RowsMatch(Table(contents, SimpleFS, Eol), LastPiece(contents, Eol))
  BY <1>3 DEF RowsAreRead
<1>5. CASE state = "RECORD_NOT_BEGUN"
  <2>1. rows' = rows
    BY <1>2, <1>5 DEF NoEvent
  <2>2. Fields' = Fields
    BY <2>1 DEF Fields
  <2> QED
    BY <1>4, <1>5, <2>2 DEF RowsMatch
<1>6. CASE state # "RECORD_NOT_BEGUN"
  <2>1. PICK e : rows' = Append(rows, [fields |-> Append(row, field), eol |-> e])
    BY <1>2, <1>6 DEF RowEvent
  <2>2. Append(row, field) \in Seq(Seq(Byte))
    BY <1>1, RowTyped
  <2>3. Fields' = Append(Fields, Append(row, field))
    BY <1>1, <2>1, <2>2, FieldsAdded
  <2> QED
    BY <1>4, <1>6, <2>3 DEF RowsMatch
<1> QED
  BY <1>5, <1>6

\* A table begins with the rows of another.
BeginsWith(all, first) ==
  /\ Len(first) \in Nat /\ Len(all) \in Nat /\ Len(first) =< Len(all)
  /\ \A n \in 1..Len(first) : all[n] = first[n]

\* The rows of complete lines are rows of every longer text.
LEMMA RowsStay ==
  ASSUME NEW A, NEW c \in Seq(A), NEW m \in Nat, m =< Len(c), NEW separator, NEW ends,
         LastPiece(SubSeq(c, 1, m), ends) = <<>>
  PROVE  BeginsWith(Table(c, separator, ends), Table(SubSeq(c, 1, m), separator, ends))
<1> DEFINE T(k) == Table(SubSeq(c, 1, k), separator, ends)
           L(k) == LastPiece(SubSeq(c, 1, k), ends)
           P(k) == /\ T(k) \in Seq(Seq(Seq(A))) /\ Len(T(m)) =< Len(T(k))
                   /\ L(k) # <<>> => Len(T(m)) < Len(T(k))
                   /\ \A n \in 1..Len(T(m)) : T(k)[n] = T(m)[n]
           D == {i \in Nat : m + i =< Len(c) => P(m + i)}
<1>1. T(m) \in Seq(Seq(Seq(A))) /\ Len(T(m)) \in Nat
  <2>1. SubSeq(c, 1, m) \in Seq(A)
    BY SubSeqProperties
  <2>2. Split(SubSeq(c, 1, m), ends) \in Seq(Seq(A))
    BY <2>1, PiecesTyped
  <2>3. T(m) = RowsOf(Split(SubSeq(c, 1, m), ends), separator)
    BY DEF Table, RowsOf, Full
  <2>4. T(m) \in Seq(Seq(Seq(A)))
    BY <2>2, <2>3, RowsTyped
  <2> QED
    BY <2>4
<1>2. 0 \in D
  <2>1. m + 0 = m /\ L(m) = <<>>
    OBVIOUS
  <2> HIDE DEF T, L
  <2> QED
    BY <1>1, <2>1
<1>3. ASSUME NEW i \in D PROVE i + 1 \in D
  <2>1. SUFFICES ASSUME m + (i + 1) =< Len(c) PROVE P(m + (i + 1))
    BY <1>3
  <2> DEFINE k == m + i
  <2>2. k \in Nat /\ k < Len(c) /\ m + (i + 1) = k + 1 /\ P(k)
    BY <1>3, <2>1
  <2> HIDE DEF k
  <2>3. /\ SubSeq(c, 1, k) \in Seq(A) /\ c[k + 1] \in A
        /\ SubSeq(c, 1, k + 1) = Append(SubSeq(c, 1, k), c[k + 1])
    BY <2>2, PrefixGrows
  <2> DEFINE s == SubSeq(c, 1, k)
             b == c[k + 1]
  <2>4. ByteAdded(A, s, b, separator, ends)
    BY <2>3, TableGrows
  <2>5. /\ T(k) \in Seq(Seq(Seq(A)))
        /\ L(k + 1) = IF b \in ends THEN <<>> ELSE Append(L(k), b)
        /\ Grows(T(k), T(k + 1), L(k), b, separator, ends)
    BY <2>3, <2>4 DEF ByteAdded
  <2>6. /\ T(k) \in Seq(Seq(Seq(A))) /\ Len(T(m)) =< Len(T(k))
        /\ L(k) # <<>> => Len(T(m)) < Len(T(k))
        /\ \A n \in 1..Len(T(m)) : T(k)[n] = T(m)[n]
    BY <2>2
  <2>7. T(k + 1) \in Seq(Seq(Seq(A)))
    <3>1. SubSeq(c, 1, k + 1) \in Seq(A)
      BY <2>2, SubSeqProperties
    <3>2. Split(SubSeq(c, 1, k + 1), ends) \in Seq(Seq(A))
      BY <3>1, PiecesTyped
    <3>3. T(k + 1) = RowsOf(Split(SubSeq(c, 1, k + 1), ends), separator)
      BY DEF Table, RowsOf, Full
    <3> QED
      BY <3>2, <3>3, RowsTyped
  <2> HIDE DEF T, L, b, s
  <2>8. CASE b \in ends
    BY <2>5, <2>6, <2>7, <2>8, <2>2 DEF Grows
  <2>9. CASE b \notin ends /\ L(k) = <<>>
    <3> DEFINE g == Grown(<< <<>> >>, b, separator)
    <3>1. T(k + 1) = Append(T(k), g)
      BY <2>5, <2>9 DEF Grows
    <3> HIDE DEF g
    <3>2. /\ Len(Append(T(k), g)) = Len(T(k)) + 1
          /\ \A n \in 1..Len(T(k)) : Append(T(k), g)[n] = T(k)[n]
      BY <2>6
    <3>3. \A n \in 1..Len(T(m)) : n \in 1..Len(T(k))
      BY <1>1, <2>6
    <3>4. Len(T(k + 1)) = Len(T(k)) + 1 /\ \A n \in 1..Len(T(m)) : T(k + 1)[n] = T(m)[n]
      BY <2>6, <3>1, <3>2, <3>3
    <3>5. Len(T(m)) < Len(T(k + 1))
      BY <1>1, <2>6, <3>4
    <3>6. P(k + 1)
      BY <1>1, <2>7, <3>4, <3>5
    <3> QED
      BY <2>2, <3>6
  <2>10. CASE b \notin ends /\ L(k) # <<>>
    <3> DEFINE g == Grown(T(k)[Len(T(k))], b, separator)
    <3>1. Len(T(k)) > 0 /\ T(k + 1) = WithLast(T(k), g)
      BY <2>5, <2>10 DEF Grows
    <3> HIDE DEF g
    <3>2. /\ Len(WithLast(T(k), g)) = Len(T(k))
          /\ \A n \in 1..Len(T(k)) : n # Len(T(k)) => WithLast(T(k), g)[n] = T(k)[n]
      BY <2>6 DEF WithLast
    <3>3. \A n \in 1..Len(T(m)) : n \in 1..Len(T(k)) /\ n # Len(T(k))
      BY <1>1, <2>6, <2>10
    <3>4. Len(T(k + 1)) = Len(T(k)) /\ \A n \in 1..Len(T(m)) : T(k + 1)[n] = T(m)[n]
      BY <2>6, <3>1, <3>2, <3>3
    <3>5. Len(T(m)) < Len(T(k + 1))
      BY <2>6, <2>10, <3>4
    <3>6. P(k + 1)
      BY <1>1, <2>7, <3>4, <3>5
    <3> QED
      BY <2>2, <3>6
  <2> QED
    BY <2>8, <2>9, <2>10
<1>4. D = Nat
  <2>1. D \in SUBSET Nat
    OBVIOUS
  <2> HIDE DEF D
  <2> QED
    BY <1>2, <1>3, <2>1, InductionOnNat
<1>5. Len(c) - m \in Nat /\ m + (Len(c) - m) = Len(c) /\ Len(c) =< Len(c)
  OBVIOUS
<1>6. P(Len(c))
  <2>1. Len(c) - m \in D
    BY <1>4, <1>5
  <2>2. m + (Len(c) - m) =< Len(c) => P(m + (Len(c) - m))
    BY <2>1
  <2> QED
    BY <1>5, <2>2
<1>7. SubSeq(c, 1, Len(c)) = c
  <2>1. /\ SubSeq(c, 1, Len(c)) \in Seq(A)
        /\ Len(SubSeq(c, 1, Len(c))) = Len(c)
        /\ \A k \in 1..Len(c) : SubSeq(c, 1, Len(c))[k] = c[k]
    BY SubSeqProperties
  <2> QED
    BY <2>1, SeqEqual
<1>8. Len(T(Len(c))) \in Nat
  BY <1>6
<1> QED
  BY <1>1, <1>6, <1>7, <1>8 DEF BeginsWith

\* The rows that are complete when a line has just ended are rows of the file.
LEMMA CompleteRowsStay ==
  ASSUME TypeOK, FileIsRead, RowsAreRead, state = "RECORD_NOT_BEGUN"
  PROVE  BeginsWith(Table(contents, SimpleFS, Eol), Fields)
<1>1. LastPiece(ReadPart, Eol) = <<>> /\ Table(ReadPart, SimpleFS, Eol) = Fields
  BY DEF RowsAreRead, RowsMatch
<1>2. contents \in Seq(Byte) /\ Consumed \in Nat /\ Consumed =< Len(contents)
  <2>1. /\ Ahead1 \in Nat /\ Len(chunk) \in Nat /\ Len(file) \in Nat
        /\ Consumed \in Nat /\ Len(contents) \in Nat
        /\ Len(contents) = Consumed + Ahead1 + Len(chunk) + Len(file)
    BY ReadLengths
  <2> QED
    BY <2>1 DEF FileIsRead
<1> QED
  BY <1>1, <1>2, RowsStay DEF ReadPart

\* The same, as an implication.
LEMMA CompleteRowsStayAlways ==
  TypeOK /\ FileIsRead /\ RowsAreRead /\ state = "RECORD_NOT_BEGUN"
    => BeginsWith(Table(contents, SimpleFS, Eol), Fields)
BY CompleteRowsStay

\* The same of the next state.
LEMMA CompleteRowsStayNext ==
  (TypeOK /\ FileIsRead /\ RowsAreRead /\ state = "RECORD_NOT_BEGUN")'
    => BeginsWith(Table(contents, SimpleFS, Eol), Fields)'
BY CompleteRowsStayAlways, PTL

\* Before anything is read, nothing is reported.
LEMMA ReadingStarts ==
  ASSUME OpenInputFile, NewParser, options = {}, delimiter \in Seq(Byte), Len(delimiter) =< 1,
         SimpleFS \notin Eol, quote \in Byte \cup {NoQuote}
  PROVE  PlainParser /\ FileIsRead /\ RowsAreRead /\ Fields = <<>>
<1>1. contents \in Seq(Byte) /\ file = contents /\ contents \in Files
  BY FileAssumption DEF OpenInputFile
<1>2. /\ input = <<>> /\ position = 0 /\ chunk = <<>> /\ delimiterPos = 0
      /\ state = "RECORD_NOT_BEGUN" /\ status = "SUCCESS" /\ field = <<>>
      /\ trailingSpace = <<>> /\ call = "idle" /\ row = <<>> /\ rows = <<>>
  BY DEF NewParser
<1>3. TypeOK
  BY NewTyped
<1>4. PlainParser
  BY <1>2, <1>3 DEF PlainParser, NotBegun
<1>5. Ahead1 = 0 /\ Len(chunk) = 0 /\ Consumed = 0
  <2>1. Len(input) = 0 /\ Len(chunk) = 0
    BY <1>2
  <2>2. Ahead1 = 0
    BY <1>2, <2>1 DEF Ahead1
  <2>3. Len(contents) \in Nat
    BY <1>1
  <2> HIDE DEF Ahead1
  <2> QED
    BY <1>1, <2>1, <2>2, <2>3 DEF Consumed
<1>6. FileIsRead
  <2>1. \A k \in 1..Len(file) : 0 + 0 + 0 + k = k
    BY <1>1
  <2> HIDE DEF Ahead1, Consumed
  <2>2. /\ \A k \in 1..Ahead1 : input[position + k] = contents[Consumed + k]
        /\ \A k \in 1..Len(chunk) : chunk[k] = contents[Consumed + Ahead1 + k]
    BY <1>5
  <2>3. \A k \in 1..Len(file) : file[k] = contents[Consumed + Ahead1 + Len(chunk) + k]
    BY <1>1, <1>5, <2>1
  <2> QED
    BY <1>1, <1>2, <1>5, <2>2, <2>3 DEF FileIsRead
<1>7. ReadPart = <<>>
  BY <1>1, <1>5, SubSeqProperties DEF ReadPart
<1>8. Fields = <<>>
  <2>1. Len(rows) = 0 /\ 1..0 = {}
    BY <1>2
  <2> QED
    BY <2>1 DEF Fields
<1>9. RowsAreRead
  BY <1>2, <1>7, <1>8, TableOfNothing DEF RowsAreRead, RowsMatch
<1> QED
  BY <1>4, <1>6, <1>8, <1>9

\* What a turn of the loop does to the parser of a plain file.
LEMMA FileTurn ==
  ASSUME PlainParser, FileIsRead, RowsAreRead, PlainFile, NEW s \in BOOLEAN, Accept(s),
         UNCHANGED <<contents, file>>
  PROVE  /\ PlainParser' /\ FileIsRead' /\ RowsAreRead' /\ PlainFile'
         /\ UNCHANGED <<config, call, input, chunk>> /\ call # "idle"
         /\ \E b \in Byte : Takes(b, s)
<1>1. TypeOK /\ SimpleFS \notin Eol
  BY DEF PlainParser
<1>2. position < Len(input) /\ position \in Nat /\ Len(input) \in Nat /\ call # "idle"
  BY <1>1 DEF Accept, InLoop, TypeOK
<1>3. Byte1 = contents[Consumed + 1] /\ Consumed < Len(contents) /\ Consumed \in Nat
  <2>1. /\ Ahead1 \in Nat /\ Len(chunk) \in Nat /\ Len(file) \in Nat
        /\ Consumed \in Nat /\ Len(contents) \in Nat
        /\ Len(contents) = Consumed + Ahead1 + Len(chunk) + Len(file)
    BY <1>1, ReadLengths
  <2>2. Ahead1 \in Nat \ {0}
    BY <1>2, <2>1 DEF Ahead1
  <2> HIDE DEF Ahead1, Consumed
  <2>3. 1 \in 1..Ahead1
    BY <2>2
  <2>4. input[position + 1] = contents[Consumed + 1]
    BY <2>3 DEF FileIsRead
  <2> QED
    BY <2>1, <2>2, <2>4 DEF Byte1
<1>4. Byte1 \notin WhiteSpace \cup {quote}
  <2>1. Consumed + 1 \in 1..Len(contents)
    BY <1>3
  <2> QED
    BY <1>3, <2>1 DEF PlainFile
<1>5. /\ Takes(Byte1, s) /\ PlainParser' /\ position' = position + 1
      /\ UNCHANGED <<config, input, chunk, call, result>>
  BY <1>4, PlainTurn
<1>6. FileIsRead' /\ Consumed' = Consumed + 1 /\ Byte1 \in Byte
  BY <1>1, <1>2, <1>5, TurnReadsOn
<1>7. RowsAreRead'
  <2>1. Takes(contents[Consumed + 1], s)
    BY <1>3, <1>5
  <2>2. delimiter' = delimiter
    BY <1>5 DEF config
  <2> QED
    BY <1>1, <1>3, <1>6, <2>1, <2>2, RowsReadOn
<1>8. PlainFile'
  BY <1>5 DEF PlainFile, config
<1> QED
  BY <1>2, <1>5, <1>6, <1>7, <1>8

\* The events of the turn.
LEMMA TakesEvent ==
  ASSUME NEW b, NEW s, Takes(b, s)
  PROVE  \/ RowEvent(field, s) /\ state' = "RECORD_NOT_BEGUN" /\ field' = <<>>
         \/ FieldEvent(field, s) /\ state' = "FIELD_NOT_BEGUN" /\ field' = <<>>
         \/ NoEvent
<1>1. CASE SkipsEol(b) \/ AddsByte(b)
  BY <1>1 DEF SkipsEol, AddsByte, NoEvent
<1>2. CASE EndsRow(b, s)
  BY <1>2 DEF EndsRow, RowEvent
<1>3. CASE EndsField(b, s)
  BY <1>3 DEF EndsField, FieldEvent
<1> QED
  BY <1>1, <1>2, <1>3 DEF Takes

\* What does not concern the rows leaves them right.
LEMMA RowsUntouched ==
  ASSUME RowsAreRead, Consumed' = Consumed, UNCHANGED <<contents, delimiter, state, field, row, rows>>
  PROVE  RowsAreRead'
BY DEF RowsAreRead, RowsMatch, ReadPart, Fields, SimpleFS

-----------------------------------------------------------------------------
(* What the programs over a plain file have in common. *)

\* The inputs for which Table is what the parser reads: no quotes, no white space,
\* and a delimiter of at most one byte that does not end a line.
PlainFiles ==
  /\ \A d \in Delimiters : Len(d) =< 1 /\ (d # <<>> => d[1] \notin Eol)
  /\ \A f \in Files : \A k \in 1..Len(f) : f[k] \notin WhiteSpace \cup Quotes

\* The parser, what it has of the file, and what it has reported.
PlainReading == PlainParser /\ FileIsRead /\ RowsAreRead /\ PlainFile

\* A program that opens such a file with such a delimiter begins with it.
LEMMA PlainStarts ==
  ASSUME PlainFiles, OpenInputFile, NewParser, options = {}, quote \in Quotes,
         delimiter \in Seq(Byte), Len(delimiter) =< 1, SimpleFS \notin Eol
  PROVE  PlainReading /\ Fields = <<>>
<1>1. quote \in Byte \cup {NoQuote}
  BY CallerAssumption
<1>2. PlainParser /\ FileIsRead /\ RowsAreRead /\ Fields = <<>>
  BY <1>1, ReadingStarts
<1>3. contents \in Files
  BY DEF OpenInputFile
<1>4. PlainFile
  BY <1>3 DEF PlainFile, PlainFiles
<1> QED
  BY <1>2, <1>4 DEF PlainReading

\* A delimiter of plain files is one of them.
LEMMA PlainDelimiter ==
  ASSUME PlainFiles, delimiter \in Delimiters
  PROVE  delimiter \in Seq(Byte) /\ Len(delimiter) =< 1 /\ SimpleFS \notin Eol
<1>1. delimiter \in Seq(Byte) /\ Len(delimiter) =< 1 /\ (delimiter # <<>> => delimiter[1] \notin Eol)
  BY CallerAssumption DEF PlainFiles
<1> QED
  BY <1>1, ByteAssumption DEF SimpleFS

\* A block more leaves it so,
LEMMA BlockStays ==
  ASSUME PlainReading, ReadBlock
  PROVE  /\ PlainReading' /\ stop' = FALSE /\ Fields' = Fields
         /\ call' = IF position < Len(input) THEN "draining" ELSE "parsing"
         /\ UNCHANGED <<config, state, field, row, rows, contents>>
<1>1. TypeOK /\ PlainParser /\ FileIsRead /\ RowsAreRead /\ PlainFile
  BY DEF PlainReading, PlainParser
<1>2. /\ FileIsRead' /\ Consumed' = Consumed
      /\ TypeOK' /\ stop' = FALSE
      /\ call' = IF position < Len(input) THEN "draining" ELSE "parsing"
      /\ UNCHANGED <<config, result, delimiterPos, characterClass, state, status,
                     field, trailingSpace, row, rows, contents>>
  BY <1>1, BlockReadsOn
<1>3. PlainParser' /\ PlainFile'
  BY <1>1, <1>2 DEF PlainParser, PlainFile, config, SimpleFS
<1>4. RowsAreRead'
  BY <1>1, <1>2, RowsUntouched DEF config
<1>5. Fields' = Fields
  BY <1>2 DEF Fields
<1> QED
  BY <1>2, <1>3, <1>4, <1>5 DEF PlainReading

\* and so does the way out of a loop,
LEMMA LeaveStays ==
  ASSUME PlainReading, LeaveLoop, call = "parsing" \/ ~stop, UNCHANGED <<contents, file>>
  PROVE  /\ PlainReading' /\ Fields' = Fields
         /\ call' = IF call = "draining" THEN "parsing" ELSE "idle"
         /\ call = "parsing" => UNCHANGED <<input, position>>
         /\ stop \/ position = Len(input)
         /\ UNCHANGED <<config, state, stop, field, row, rows>>
<1>1. TypeOK /\ PlainParser /\ FileIsRead /\ RowsAreRead /\ PlainFile
  BY DEF PlainReading, PlainParser
<1>2. /\ FileIsRead' /\ Consumed' = Consumed /\ TypeOK'
      /\ call' = IF call = "draining" THEN "parsing" ELSE "idle"
      /\ call = "parsing" => UNCHANGED <<input, position>>
      /\ UNCHANGED <<config, delimiterPos, characterClass, state, status, stop,
                     field, trailingSpace, row, rows>>
  BY <1>1, LeaveReadsOn
<1>3. stop \/ position = Len(input)
  BY DEF LeaveLoop
<1>4. PlainParser' /\ PlainFile'
  BY <1>1, <1>2 DEF PlainParser, PlainFile, config, SimpleFS
<1>5. RowsAreRead'
  BY <1>1, <1>2, RowsUntouched DEF config
<1>6. Fields' = Fields
  BY <1>2 DEF Fields
<1> QED
  BY <1>2, <1>3, <1>4, <1>5, <1>6 DEF PlainReading

\* a turn of the loop, with its event,
LEMMA TurnStays ==
  ASSUME PlainReading, NEW s \in BOOLEAN, Accept(s), UNCHANGED <<contents, file>>
  PROVE  /\ PlainReading' /\ ~stop /\ call # "idle"
         /\ UNCHANGED <<config, call, input, chunk>>
         /\ \/ RowEvent(field, s) /\ state' = "RECORD_NOT_BEGUN"
            \/ FieldEvent(field, s)
            \/ NoEvent
<1>1. PlainParser /\ FileIsRead /\ RowsAreRead /\ PlainFile /\ ~stop
  BY DEF PlainReading, Accept, InLoop
<1>2. /\ PlainParser' /\ FileIsRead' /\ RowsAreRead' /\ PlainFile'
      /\ UNCHANGED <<config, call, input, chunk>> /\ call # "idle"
      /\ \E b \in Byte : Takes(b, s)
  BY <1>1, FileTurn
<1>3. \/ RowEvent(field, s) /\ state' = "RECORD_NOT_BEGUN"
      \/ FieldEvent(field, s)
      \/ NoEvent
  BY <1>2, TakesEvent
<1> QED
  BY <1>1, <1>2, <1>3 DEF PlainReading

\* the end of the text for a parser that was stopped,
LEMMA StoppedStays ==
  ASSUME PlainReading, NEW s \in BOOLEAN, Finish(s), stop, UNCHANGED <<contents, file>>
  PROVE  /\ PlainReading' /\ Fields' = Fields /\ call = "idle"
         /\ UNCHANGED <<config, input, position, call, state, stop, field, row, rows>>
<1>1. FinishStopped
  BY DEF Finish, FinishFailed, FinishRow, FinishNothing
<1>2. TypeOK /\ PlainParser /\ FileIsRead /\ RowsAreRead /\ PlainFile
  BY DEF PlainReading, PlainParser
<1>3. TypeOK'
  BY <1>2, MethodTyped
<1>4. /\ call = "idle"
      /\ UNCHANGED <<config, input, position, chunk, call, delimiterPos, characterClass,
                     state, status, stop, field, trailingSpace, row, rows>>
  BY <1>1 DEF FinishStopped, FinishReturns
<1>5. FileIsRead' /\ Consumed' = Consumed
  BY <1>2, <1>4, FileStays
<1>6. PlainParser' /\ PlainFile'
  BY <1>2, <1>3, <1>4 DEF PlainParser, PlainFile, config, SimpleFS
<1>7. RowsAreRead'
  BY <1>2, <1>4, <1>5, RowsUntouched DEF config
<1>8. Fields' = Fields
  BY <1>4 DEF Fields
<1> QED
  BY <1>4, <1>5, <1>6, <1>7, <1>8 DEF PlainReading

\* and a step that leaves the parser and the file alone, or only sets stop back.
LEMMA PlainStays ==
  ASSUME PlainReading, stop' \in BOOLEAN,
         UNCHANGED <<config, text, delimiterPos, characterClass, state, status,
                     field, trailingSpace, row, rows, contents, file>>
  PROVE  PlainReading' /\ Fields' = Fields
<1>1. TypeOK /\ PlainParser /\ FileIsRead /\ RowsAreRead /\ PlainFile
  BY DEF PlainReading, PlainParser
<1>2. /\ UNCHANGED <<input, position, chunk, call, delimiter, quote, options, delimiterPos,
                     characterClass, state, status, field, trailingSpace, row, rows,
                     result, contents, file>>
  BY DEF text, config
<1>3. TypeOK'
  BY <1>1, <1>2 DEF TypeOK
<1>4. FileIsRead' /\ Consumed' = Consumed
  BY <1>1, <1>2, FileStays
<1>5. PlainParser' /\ PlainFile'
  BY <1>1, <1>2, <1>3 DEF PlainParser, PlainFile, SimpleFS
<1>6. RowsAreRead'
  BY <1>1, <1>2, <1>4, RowsUntouched
<1>7. Fields' = Fields
  BY <1>2 DEF Fields
<1> QED
  BY <1>4, <1>5, <1>6, <1>7 DEF PlainReading

\* When a line has just ended, what is reported is the beginning of the table.
LEMMA ReportedBegins ==
  PlainReading /\ state = "RECORD_NOT_BEGUN"
    => BeginsWith(Table(contents, SimpleFS, Eol), Fields)
BY CompleteRowsStay DEF PlainReading, PlainParser

\* The same of the next state.
LEMMA ReportedBeginsNext ==
  (PlainReading /\ state = "RECORD_NOT_BEGUN")'
    => BeginsWith(Table(contents, SimpleFS, Eol), Fields)'
BY ReportedBegins, PTL

\* A row more is the last one.
LEMMA RowReported ==
  ASSUME TypeOK, NEW v \in Seq(Byte), NEW s, RowEvent(v, s)
  PROVE  /\ Append(row, v) \in Seq(Seq(Byte)) /\ Fields \in Seq(Seq(Seq(Byte)))
         /\ Fields' = Append(Fields, Append(row, v))
         /\ Len(Fields') = Len(Fields) + 1 /\ Len(Fields) \in Nat
         /\ Fields'[Len(Fields) + 1] = Append(row, v)
         /\ \A n \in 1..Len(Fields) : Fields'[n] = Fields[n]
<1>1. PICK e : rows' = Append(rows, [fields |-> Append(row, v), eol |-> e])
  BY DEF RowEvent
<1>2. Append(row, v) \in Seq(Seq(Byte)) /\ Fields \in Seq(Seq(Seq(Byte)))
  BY FieldsTyped DEF TypeOK
<1> DEFINE all == Append(row, v)
<1>3. Fields' = Append(Fields, all)
  BY <1>1, <1>2, FieldsAdded
<1> HIDE DEF all
<1>4. /\ Len(Fields') = Len(Fields) + 1 /\ Fields'[Len(Fields) + 1] = all /\ Len(Fields) \in Nat
      /\ \A n \in 1..Len(Fields) : Fields'[n] = Fields[n]
  BY <1>2, <1>3, AppendProperties DEF all
<1> QED
  BY <1>2, <1>3, <1>4 DEF all
=============================================================================
