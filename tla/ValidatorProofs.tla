-------------------------- MODULE ValidatorProofs --------------------------
(***************************************************************************)
(* The objects the validator works with, and the one validation that keeps *)
(* a state.  For any set of addresses, any behaviour of malloc() and any   *)
(* order of calls, the objects of the library stay a forest: what is held  *)
(* is there, is held once, and is held by somebody unless an array was     *)
(* missing.  For texts of any length and any characters, is_timestamp()    *)
(* goes through the pattern of its comments.                               *)
(***************************************************************************)
EXTENDS Objects, Timestamp, TLAPS, FiniteSetTheorems, SequenceTheorems

Good(s) == Typed(s) /\ Intact(s) /\ HeldOnce(s) /\ Kept(s)

Heap(s) == s = [class |-> s.class, refs |-> s.refs, failed |-> s.failed]

\* What is freed with the objects of a set: everything they hold, and nothing that
\* somebody else holds.
Whole(s, gone, tops) ==
    /\ tops \subseteq gone
    /\ gone \subseteq Address
    /\ \A r \in s.refs : r.from \in gone => r.to \in gone
    /\ \A r \in s.refs : r.to \in gone /\ r.to \notin tops => r.from \in gone

----------------------------------------------------------------------------

\* A reference is made of its three parts.
LEMMA ReferenceParts ==
    ASSUME NEW s, Typed(s), NEW r \in s.refs
    PROVE  /\ r = Reference(r.from, r.field, r.to)
           /\ r.from \in Address \cup {Client}
           /\ r.to \in Address
  BY DEF Typed, Reference

\* Whether an object is in what a set of objects holds is a matter of references.
LEMMA HeldMember ==
    ASSUME NEW s, Typed(s), NEW holders, NEW field, NEW a
    PROVE  a \in Held(s, holders, field) <=>
             \E r \in s.refs : r.from \in holders /\ r.field = field /\ r.to = a
  <1>1. ASSUME a \in Held(s, holders, field)
        PROVE  \E r \in s.refs : r.from \in holders /\ r.field = field /\ r.to = a
    <2>1. PICK h \in holders : Reference(h, field, a) \in s.refs
      BY <1>1 DEF Held
    <2>2. /\ Reference(h, field, a).from = h
          /\ Reference(h, field, a).field = field
          /\ Reference(h, field, a).to = a
      BY DEF Reference
    <2> QED  BY <2>1, <2>2
  <1>2. ASSUME NEW r \in s.refs, r.from \in holders, r.field = field, r.to = a
        PROVE  a \in Held(s, holders, field)
    BY <1>2, ReferenceParts DEF Held
  <1> QED  BY <1>1, <1>2

----------------------------------------------------------------------------
(* The steps every method is made of *)

\* alloc_X() keeps a good heap good, whether it succeeds or not.
LEMMA NewKeepsGood ==
    ASSUME NEW s, Good(s), NEW class \in Class, NEW holders, NEW field, NEW fails,
           holders \subseteq InUse(s) \cup {Client},
           \A h, k \in holders : h = k,
           \A h \in holders : \/ h = Client /\ field = "held"
                              \/ h # Client /\ field \in Fields(s.class[h]),
           class \in ClassOf(field),
           field \in Many \/ \A r \in s.refs : ~(r.from \in holders /\ r.field = field),
           holders = {} => s.failed \cap Arrays # {}
    PROVE  Good(New(s, class, holders, field, fails))
  <1> DEFINE t == New(s, class, holders, field, fails)
  <1>0. "free" \notin Class
    BY DEF Class
  <1>1. CASE Fails(s, class, fails)
    <2>1. t = [class |-> s.class, refs |-> s.refs, failed |-> s.failed \cup {class}]
      BY <1>1 DEF New
    <2>2. t.class = s.class /\ t.refs = s.refs /\ t.failed = s.failed \cup {class}
      BY <2>1
    <2> HIDE DEF t
    <2>3. Typed(t)
      BY <2>2 DEF Good, Typed
    <2>4. Intact(t)
      BY <2>2 DEF Good, Intact, InUse
    <2>5. HeldOnce(t)
      BY <2>2 DEF Good, HeldOnce
    <2>6. Kept(t)
      BY <2>2 DEF Good, Kept, InUse
    <2> QED  BY <2>3, <2>4, <2>5, <2>6 DEF Good, t
  <1>2. CASE ~Fails(s, class, fails)
    <2> DEFINE a == Malloc(InUse(s))
               more == {Reference(h, field, a) : h \in holders}
    <2>1. a \in Address \ InUse(s)
      BY <1>2, HeapAssumption DEF Fails, InUse
    <2>2. /\ t.class = [s.class EXCEPT ![a] = class]
          /\ t.refs = s.refs \cup more
          /\ t.failed = s.failed
      BY <1>2 DEF New
    <2>3. \A r \in more : /\ r = Reference(r.from, r.field, r.to)
                          /\ r.from \in holders
                          /\ r.field = field
                          /\ r.to = a
      BY <2>1 DEF Reference, InUse
    <2>4. \A r, q \in more : r = q
      BY DEF Reference
    <2>5. \A h \in holders : Reference(h, field, a) \in more /\ Reference(h, field, a).to = a
      BY DEF Reference
    <2>20. s.class \in [Address -> Class \cup {"free"}]
      BY DEF Good, Typed
    <2>6. InUse(t) = InUse(s) \cup {a}
      <3> HIDE DEF t, a, more
      <3>1. \A b \in Address : t.class[b] = IF b = a THEN class ELSE s.class[b]
        BY <2>1, <2>2, <2>20
      <3>2. class # "free" /\ a \in Address
        BY <1>0, <2>1
      <3> QED  BY <3>1, <3>2 DEF InUse
    <2>7. \A r \in s.refs : r.to # a /\ r.from # a
      BY <2>1, HeapAssumption DEF Good, Intact
    <2>8. \A b \in InUse(s) : t.class[b] = s.class[b] /\ b \in Address
      BY <2>1, <2>2 DEF Good, Typed, InUse
    <2>9. t.class[a] = class
      BY <2>1, <2>2 DEF Good, Typed
    <2> HIDE DEF t, a, more
    <2>10. Typed(t)
      <3>1. t.class \in [Address -> Class \cup {"free"}]
        BY <2>2 DEF Good, Typed
      <3>2. \A r \in t.refs : /\ r = Reference(r.from, r.field, r.to)
                              /\ r.from \in Address \cup {Client} /\ r.to \in Address
        BY <2>1, <2>2, <2>3 DEF Good, Typed, InUse
      <3>3. ASSUME NEW r \in t.refs, NEW q \in t.refs, r.from = q.from, r.field = q.field, r.field \notin Many
            PROVE  r = q
        BY <2>2, <2>3, <2>4, <3>3 DEF Good, Typed
      <3> QED  BY <2>2, <3>1, <3>2, <3>3 DEF Good, Typed
    <2>11. Intact(t)
      <3> SUFFICES ASSUME NEW r \in t.refs
                   PROVE  /\ r.to \in InUse(t)
                          /\ t.class[r.to] \in ClassOf(r.field)
                          /\ \/ r.from = Client /\ r.field = "held"
                             \/ r.from \in InUse(t) /\ r.field \in Fields(t.class[r.from])
        BY DEF Intact
      <3>1. CASE r \in s.refs
        BY <2>6, <2>8, <3>1 DEF Good, Intact
      <3>2. CASE r \in more
        BY <2>3, <2>6, <2>8, <2>9, <3>2
      <3> QED  BY <2>2, <3>1, <3>2
    <2>12. HeldOnce(t)
      BY <2>2, <2>3, <2>4, <2>7 DEF Good, HeldOnce
    <2>13. Kept(t)
      BY <2>2, <2>5, <2>6 DEF Good, Kept
    <2> QED  BY <2>10, <2>11, <2>12, <2>13 DEF Good, t
  <1> QED  BY <1>1, <1>2

\* A set of objects goes with the references to its tops.
LEMMA FreeKeepsGood ==
    ASSUME NEW s, Good(s), NEW gone, NEW tops, Whole(s, gone, tops), NEW t,
           t.class = [a \in Address |-> IF a \in gone THEN "free" ELSE s.class[a]],
           t.refs \subseteq s.refs,
           \A r \in s.refs : r \in t.refs <=> (r.from \notin gone /\ r.to \notin tops),
           t.failed = s.failed
    PROVE  Good(t)
  <1>0. "free" \notin Class
    BY DEF Class
  <1>1. Typed(t)
    BY DEF Good, Typed
  <1>2. InUse(t) = InUse(s) \ gone
    BY <1>0 DEF InUse, Whole
  <1>3. \A b \in InUse(t) : t.class[b] = s.class[b]
    BY <1>2 DEF InUse
  <1>4. \A r \in t.refs : r.to \notin gone /\ r.from \notin gone
    BY DEF Whole
  <1>5. Intact(t)
    BY <1>2, <1>3, <1>4 DEF Good, Intact
  <1>6. HeldOnce(t)
    BY DEF Good, HeldOnce
  <1>7. Kept(t)
    <2> SUFFICES ASSUME s.failed \cap Arrays = {}, NEW a \in InUse(s), a \notin gone
                 PROVE  \E r \in t.refs : r.to = a
      BY <1>2 DEF Kept
    <2>1. PICK r \in s.refs : r.to = a
      BY DEF Good, Kept
    <2> QED  BY <2>1 DEF Whole
  <1> QED  BY <1>1, <1>5, <1>6, <1>7 DEF Good

----------------------------------------------------------------------------
(* What free() frees is whole *)

\* What is held in a field is there, and is of the class of the field.
LEMMA HeldIsThere ==
    ASSUME NEW s, Good(s), NEW holders, NEW field, NEW a \in Held(s, holders, field)
    PROVE  a \in InUse(s) /\ a \in Address /\ s.class[a] \in ClassOf(field)
  <1>1. PICK r \in s.refs : r.from \in holders /\ r.field = field /\ r.to = a
    BY HeldMember DEF Good
  <1> QED  BY <1>1 DEF Good, Intact, InUse

\* Who points to an object in a field of a holder is that holder, with that field.
LEMMA HolderIsOne ==
    ASSUME NEW s, Good(s), NEW holders, NEW field, NEW r \in s.refs, r.to \in Held(s, holders, field)
    PROVE  r.from \in holders /\ r.field = field
  <1>1. PICK q \in s.refs : q.from \in holders /\ q.field = field /\ q.to = r.to
    BY HeldMember DEF Good
  <1> QED  BY <1>1 DEF Good, HeldOnce

\* An object in use that holds something does so in a field of its class.
LEMMA FieldOfItsClass ==
    ASSUME NEW s, Good(s), NEW r \in s.refs, r.from \in Address
    PROVE  r.field \in Fields(s.class[r.from])
  BY HeapAssumption DEF Good, Intact

\* Strings and arrays of arguments hold nothing.
LEMMA LeavesHoldNothing ==
    ASSUME NEW s, Good(s), NEW r \in s.refs, r.from \in Address
    PROVE  s.class[r.from] \notin {"String", "Arguments", "Validator"}
  BY FieldOfItsClass DEF Fields

\* What free() of a validation frees is a whole: the validation, its name and its arguments.
LEMMA WholeValidation ==
    ASSUME NEW s, Good(s), NEW v \in SUBSET Objects(s, "Validation")
    PROVE  Whole(s, FreeValidation(s, v), v)
  <1> DEFINE gone == FreeValidation(s, v)
             names == Held(s, v, "validation_name")
             arguments == Held(s, v, "arguments")
  <1>0. gone = v \cup names \cup arguments
    BY DEF FreeValidation
  <1>1. \A a \in names : a \in Address /\ s.class[a] = "String"
    BY HeldIsThere DEF ClassOf
  <1>2. \A a \in arguments : a \in Address /\ s.class[a] = "Arguments"
    BY HeldIsThere DEF ClassOf
  <1>3. \A a \in v : a \in Address /\ s.class[a] = "Validation"
    BY DEF Objects
  <1>4. ASSUME NEW r \in s.refs, r.from \in gone  PROVE r.to \in gone
    <2>1. r.from \in v
      BY <1>0, <1>1, <1>2, <1>4, LeavesHoldNothing DEF gone
    <2>2. r.field \in {"validation_name", "arguments"}
      BY <1>3, <2>1, FieldOfItsClass DEF Fields
    <2> QED  BY <1>0, <2>1, <2>2, HeldMember DEF Good
  <1>5. ASSUME NEW r \in s.refs, r.to \in gone, r.to \notin v  PROVE r.from \in gone
    BY <1>0, <1>5, HolderIsOne
  <1> QED  BY <1>0, <1>1, <1>2, <1>3, <1>4, <1>5 DEF Whole

\* What free() of a column frees is a whole: its validations go with it.
LEMMA WholeColumn ==
    ASSUME NEW s, Good(s), NEW c \in SUBSET Objects(s, "Column")
    PROVE  Whole(s, FreeColumn(s, c), c)
  <1> DEFINE gone == FreeColumn(s, c)
             names == Held(s, c, "column_name")
             arrays == Held(s, c, "validations")
             inner == Held(s, arrays, "validation")
             validations == FreeValidation(s, inner)
  <1>0. gone = c \cup names \cup arrays \cup validations
    BY DEF FreeColumn
  <1>1. \A a \in names : a \in Address /\ s.class[a] = "String"
    BY HeldIsThere DEF ClassOf
  <1>2. \A a \in arrays : a \in Address /\ s.class[a] = "Validations"
    BY HeldIsThere DEF ClassOf
  <1>3. \A a \in c : a \in Address /\ s.class[a] = "Column"
    BY DEF Objects
  <1>4. inner \in SUBSET Objects(s, "Validation")
    BY HeldIsThere DEF ClassOf, Objects
  <1>5. Whole(s, validations, inner)
    BY <1>4, WholeValidation
  <1> HIDE DEF names, arrays, inner, validations, gone
  <1>6. ASSUME NEW r \in s.refs, r.from \in gone  PROVE r.to \in gone
    <2>1. r.from \notin names
      BY <1>1, LeavesHoldNothing
    <2>2. CASE r.from \in c
      <3>1. r.field \in {"column_name", "validations"}
        BY <1>3, <2>2, FieldOfItsClass DEF Fields
      <3> QED  BY <1>0, <2>2, <3>1, HeldMember DEF Good, names, arrays
    <2>3. CASE r.from \in arrays
      <3>1. r.field = "validation"
        BY <1>2, <2>3, FieldOfItsClass DEF Fields
      <3>2. r.to \in inner
        BY <2>3, <3>1, HeldMember DEF Good, inner
      <3> QED  BY <1>0, <1>5, <3>2 DEF Whole
    <2>4. CASE r.from \in validations
      BY <1>0, <1>5, <2>4 DEF Whole
    <2> QED  BY <1>0, <1>6, <2>1, <2>2, <2>3, <2>4
  <1>7. ASSUME NEW r \in s.refs, r.to \in gone, r.to \notin c  PROVE r.from \in gone
    <2>1. CASE r.to \in names \/ r.to \in arrays
      BY <1>0, <2>1, HolderIsOne DEF names, arrays
    <2>2. CASE r.to \in inner
      BY <1>0, <2>2, HolderIsOne DEF inner
    <2>3. CASE r.to \in validations /\ r.to \notin inner
      BY <1>0, <1>5, <2>3 DEF Whole
    <2> QED  BY <1>0, <1>7, <2>1, <2>2, <2>3
  <1> QED  BY <1>0, <1>1, <1>2, <1>3, <1>5, <1>6, <1>7 DEF Whole, gone

\* What free() of a format file frees is a whole: its path and its buffers go with it.
LEMMA WholeFormatFile ==
    ASSUME NEW s, Good(s), NEW x \in SUBSET Objects(s, "FormatFile")
    PROVE  Whole(s, FreeFormatFile(s, x), x)
  <1> DEFINE gone == FreeFormatFile(s, x)
             own == {"format_file_path", "_chunk", "_key", "_value"}
  <1>0. \A a : a \in gone <=> (a \in x \/ \E field \in own : a \in Held(s, x, field))
    BY DEF FreeFormatFile
  <1>1. \A field \in own : \A a \in Held(s, x, field) : a \in Address /\ s.class[a] = "String"
    BY HeldIsThere DEF ClassOf
  <1>2. \A a \in x : a \in Address /\ s.class[a] = "FormatFile"
    BY DEF Objects
  <1> HIDE DEF gone
  <1>3. ASSUME NEW r \in s.refs, r.from \in gone  PROVE r.to \in gone
    <2>1. r.from \in x
      BY <1>0, <1>1, <1>3, LeavesHoldNothing
    <2>2. r.field \in own
      BY <1>2, <2>1, FieldOfItsClass DEF Fields, Buffers
    <2> QED  BY <1>0, <2>1, <2>2, HeldMember DEF Good
  <1>4. ASSUME NEW r \in s.refs, r.to \in gone, r.to \notin x  PROVE r.from \in gone
    BY <1>0, <1>4, HolderIsOne
  <1> QED  BY <1>0, <1>1, <1>2, <1>3, <1>4 DEF Whole, gone

\* What free() of a parser frees is a whole: its strings go with it.
LEMMA WholeParser ==
    ASSUME NEW s, Good(s), NEW p \in SUBSET Objects(s, "Parser")
    PROVE  Whole(s, FreeParser(s, p), p)
  <1> DEFINE gone == FreeParser(s, p)
             own == {"input", "field", "lookahead", "trailing_space", "delimiter", "quote"}
  <1>0. \A a : a \in gone <=> (a \in p \/ \E field \in own : a \in Held(s, p, field))
    BY DEF FreeParser
  <1>1. \A field \in own : \A a \in Held(s, p, field) : a \in Address /\ s.class[a] = "String"
    BY HeldIsThere DEF ClassOf
  <1>2. \A a \in p : a \in Address /\ s.class[a] = "Parser"
    BY DEF Objects
  <1> HIDE DEF gone
  <1>3. ASSUME NEW r \in s.refs, r.from \in gone  PROVE r.to \in gone
    <2>1. r.from \in p
      BY <1>0, <1>1, <1>3, LeavesHoldNothing
    <2>2. r.field \in own
      BY <1>2, <2>1, FieldOfItsClass DEF Fields, Strings
    <2> QED  BY <1>0, <2>1, <2>2, HeldMember DEF Good
  <1>4. ASSUME NEW r \in s.refs, r.to \in gone, r.to \notin p  PROVE r.from \in gone
    BY <1>0, <1>4, HolderIsOne
  <1> QED  BY <1>0, <1>1, <1>2, <1>3, <1>4 DEF Whole, gone

\* What free() of a format frees is a whole: its columns, strings and format file go with it.
LEMMA WholeFormat ==
    ASSUME NEW s, Good(s), NEW f \in SUBSET Objects(s, "Format")
    PROVE  Whole(s, FreeFormat(s, f), f)
  <1> DEFINE gone == FreeFormat(s, f)
             own == {"delimiter", "escape", "quote"}
             arrays == Held(s, f, "columns")
             inner == Held(s, arrays, "column")
             columns == FreeColumn(s, inner)
             files == Held(s, f, "format_file")
             buffers == FreeFormatFile(s, files)
  <1>0. \A a : a \in gone <=> \/ a \in f \/ a \in arrays \/ a \in columns \/ a \in buffers
                             \/ \E field \in own : a \in Held(s, f, field)
    BY DEF FreeFormat
  <1>1. \A field \in own : \A a \in Held(s, f, field) : a \in Address /\ s.class[a] = "String"
    BY HeldIsThere DEF ClassOf
  <1>2. \A a \in arrays : a \in Address /\ s.class[a] = "Columns"
    BY HeldIsThere DEF ClassOf
  <1>3. \A a \in f : a \in Address /\ s.class[a] = "Format"
    BY DEF Objects
  <1>4. Whole(s, columns, inner)
    <2>1. inner \in SUBSET Objects(s, "Column")
      BY HeldIsThere DEF ClassOf, Objects
    <2> QED  BY <2>1, WholeColumn
  <1>5. Whole(s, buffers, files)
    <2>1. files \in SUBSET Objects(s, "FormatFile")
      BY HeldIsThere DEF ClassOf, Objects
    <2> QED  BY <2>1, WholeFormatFile
  <1> HIDE DEF gone, arrays, inner, columns, files, buffers
  <1>6. ASSUME NEW r \in s.refs, r.from \in gone  PROVE r.to \in gone
    <2>1. \A field \in own : r.from \notin Held(s, f, field)
      BY <1>1, LeavesHoldNothing
    <2>2. CASE r.from \in f
      <3>1. r.field \in own \cup {"columns", "format_file"}
        BY <1>3, <2>2, FieldOfItsClass DEF Fields, Strings
      <3>2. r.to \in Held(s, f, r.field)
        BY <2>2, HeldMember DEF Good
      <3>3. CASE r.field \in own
        BY <1>0, <3>2, <3>3
      <3>4. CASE r.field = "columns"
        BY <1>0, <3>2, <3>4 DEF arrays
      <3>5. CASE r.field = "format_file"
        BY <1>0, <1>5, <3>2, <3>5 DEF files, Whole
      <3> QED  BY <3>1, <3>3, <3>4, <3>5
    <2>3. CASE r.from \in arrays
      <3>1. r.field = "column"
        BY <1>2, <2>3, FieldOfItsClass DEF Fields
      <3>2. r.to \in inner
        BY <2>3, <3>1, HeldMember DEF Good, inner
      <3> QED  BY <1>0, <1>4, <3>2 DEF Whole
    <2>4. CASE r.from \in columns \/ r.from \in buffers
      BY <1>0, <1>4, <1>5, <2>4 DEF Whole
    <2> QED  BY <1>0, <1>6, <2>1, <2>2, <2>3, <2>4
  <1>7. ASSUME NEW r \in s.refs, r.to \in gone, r.to \notin f  PROVE r.from \in gone
    <2>1. CASE r.to \in arrays \/ r.to \in files
      BY <1>0, <2>1, HolderIsOne DEF arrays, files
    <2>2. CASE r.to \in inner
      BY <1>0, <2>2, HolderIsOne DEF inner
    <2>3. CASE r.to \in columns /\ r.to \notin inner
      BY <1>0, <1>4, <2>3 DEF Whole
    <2>4. CASE r.to \in buffers /\ r.to \notin files
      BY <1>0, <1>5, <2>4 DEF Whole
    <2>5. CASE \E field \in own : r.to \in Held(s, f, field)
      BY <1>0, <2>5, HolderIsOne
    <2> QED  BY <1>0, <1>7, <2>1, <2>2, <2>3, <2>4, <2>5
  <1>8. gone \subseteq Address
    BY <1>0, <1>1, <1>2, <1>3, <1>4, <1>5 DEF Whole
  <1> QED  BY <1>0, <1>6, <1>7, <1>8 DEF Whole, gone

----------------------------------------------------------------------------
(* The methods keep a good heap good *)

\* What a call leaves alone: everything but the strings.
Agree(s, t, addresses) == \A a \in addresses : t.class[a] = s.class[a]

Preserves(s, t) ==
    \A a \in Address : s.class[a] \notin {"free", "String"} => t.class[a] = s.class[a]

\* What alloc_X() returns, and what becomes of the rest of the heap.
LEMMA NewMakes ==
    ASSUME NEW s, Good(s), NEW class \in Class, NEW holders, NEW field, NEW fails
    PROVE  LET t == New(s, class, holders, field, fails)
               new == Place(s, class, fails)
           IN /\ \A b \in InUse(s) : b \in InUse(t) /\ t.class[b] = s.class[b]
              /\ new = {} \/ \E a \in Address : new = {a}
              /\ \A a \in new : a \in InUse(t) /\ a \notin InUse(s) /\ t.class[a] = class
              /\ \A r \in t.refs : r \in s.refs \/ (r.from \in holders /\ r.field = field /\ r.to \in new)
              /\ s.refs \subseteq t.refs
              /\ s.failed \subseteq t.failed
              /\ new = {} => class \in t.failed
              /\ \A a \in new : \A h \in holders : Reference(h, field, a) \in t.refs
  <1> DEFINE t == New(s, class, holders, field, fails)
             new == Place(s, class, fails)
  <1>0. "free" \notin Class
    BY DEF Class
  <1>1. CASE Fails(s, class, fails)
    <2>1. /\ t.class = s.class /\ t.refs = s.refs
          /\ t.failed = s.failed \cup {class}
          /\ new = {}
      BY <1>1 DEF New, Place
    <2> HIDE DEF t, new
    <2> QED  BY <2>1 DEF t, new, InUse
  <1>2. CASE ~Fails(s, class, fails)
    <2> DEFINE a == Malloc(InUse(s))
    <2>1. a \in Address \ InUse(s)
      BY <1>2, HeapAssumption DEF Fails, InUse
    <2>2. /\ t.class = [s.class EXCEPT ![a] = class]
          /\ t.refs = s.refs \cup {Reference(h, field, a) : h \in holders}
          /\ t.failed = s.failed
          /\ new = {a}
      BY <1>2 DEF New, Place
    <2>3. \A h \in holders : /\ Reference(h, field, a).from = h
                             /\ Reference(h, field, a).field = field
                             /\ Reference(h, field, a).to = a
      BY DEF Reference
    <2>4. \A r \in t.refs : r \in s.refs \/ (r.from \in holders /\ r.field = field /\ r.to = a)
      BY <2>2, <2>3
    <2>5. \A b \in InUse(s) : b \in InUse(t) /\ t.class[b] = s.class[b]
      BY <2>1, <2>2 DEF Good, Typed, InUse
    <2>6. a \in InUse(t) /\ t.class[a] = class
      BY <1>0, <2>1, <2>2 DEF Good, Typed, InUse
    <2>7. \A h \in holders : Reference(h, field, a) \in t.refs
      BY <2>2
    <2>8. s.refs \subseteq t.refs
      BY <2>2
    <2> HIDE DEF t, new, a
    <2> QED  BY <2>1, <2>2, <2>4, <2>5, <2>6, <2>7, <2>8 DEF t, new
  <1> QED  BY <1>1, <1>2

\* An object that holds nothing yet in the fields that are not done.
Growing(s, a, class, done) ==
    /\ Good(s)
    /\ a \in InUse(s)
    /\ s.class[a] = class
    /\ \A r \in s.refs : r.from = a => r.field \in done

\* new_String() into the next of its fields.
LEMMA StringStep ==
    ASSUME NEW s, NEW a, NEW class, NEW done, Growing(s, a, class, done),
           NEW field \in Fields(class), field \notin done, ClassOf(field) = {"String"},
           NEW fails, NEW t, t = NewString(s, {a}, field, fails)
    PROVE  Growing(t, a, class, done \cup {field}) /\ Preserves(s, t)
  <1>0. a \in Address /\ a # Client /\ "String" \in Class
    BY HeapAssumption DEF InUse, Class, Growing
  <1>1. Good(t)
    BY <1>0, NewKeepsGood DEF NewString, Growing
  <1>2. /\ \A b \in InUse(s) : b \in InUse(t) /\ t.class[b] = s.class[b]
        /\ \A r \in t.refs : r \in s.refs \/ r.field = field
    BY <1>0, NewMakes DEF NewString, Growing
  <1>3. Preserves(s, t)
    BY <1>2 DEF Preserves, InUse
  <1> QED  BY <1>1, <1>2, <1>3 DEF Growing

\* Two steps that preserve the objects preserve them together.
LEMMA PreservesInTurn ==
    ASSUME NEW s, NEW t, NEW u, Preserves(s, t), Preserves(t, u)
    PROVE  Preserves(s, u)
  BY DEF Preserves

\* An object goes and with it the pointer to it.
LEMMA ReplaceKeepsGood ==
    ASSUME NEW s, Good(s), NEW a \in InUse(s), NEW field, field \notin Many,
           NEW gone, Whole(s, gone, Held(s, {a}, field)), a \notin gone,
           NEW t, t = Unset(Free(s, gone), a, field)
    PROVE  /\ Good(t)
           /\ a \in InUse(t)
           /\ \A r \in t.refs : ~(r.from = a /\ r.field = field)
           /\ Agree(s, t, Address \ gone)
  <1> DEFINE tops == Held(s, {a}, field)
  <1>1. /\ t.class = [b \in Address |-> IF b \in gone THEN "free" ELSE s.class[b]]
        /\ t.refs = {r \in s.refs : r.from \notin gone /\ (r.from # a \/ r.field # field)}
        /\ t.failed = s.failed
    BY DEF Unset, Free
  <1>2. \A r \in s.refs : r.to \in tops <=> (r.from = a /\ r.field = field)
    BY HolderIsOne, HeldMember DEF Good
  <1> HIDE DEF tops
  <1>3. Whole(s, gone, tops)
    BY DEF tops
  <1>4. Good(t)
    BY <1>1, <1>2, <1>3, FreeKeepsGood
  <1> QED  BY <1>1, <1>4 DEF InUse, Agree

\* A copy of a string in the place of the old one keeps a good heap good
\* (set_format_file_path(), the setters of a parser).
LEMMA CopyIntoKeepsGood ==
    ASSUME NEW s, Good(s), NEW a \in InUse(s), NEW field \in Fields(s.class[a]), NEW fails,
           field \notin Many, ClassOf(field) = {"String"}
    PROVE  Good(CopyInto(s, a, field, fails)) /\ Preserves(s, CopyInto(s, a, field, fails))
  <1> DEFINE gone == Held(s, {a}, field)
             u == Unset(Free(s, gone), a, field)
  <1>1. \A b \in gone : b \in Address /\ s.class[b] = "String"
    BY HeldIsThere
  <1>2. Whole(s, gone, gone)
    BY <1>1, LeavesHoldNothing DEF Whole
  <1>3. a \notin gone
    BY <1>1 DEF Fields
  <1>4. /\ Good(u)
        /\ a \in InUse(u)
        /\ \A r \in u.refs : ~(r.from = a /\ r.field = field)
        /\ Agree(s, u, Address \ gone)
    <2>1. Whole(s, gone, Held(s, {a}, field))
      BY <1>2
    <2> HIDE DEF u
    <2>2. u = Unset(Free(s, gone), a, field)
      BY DEF u
    <2> HIDE DEF gone
    <2> QED  BY <1>3, <2>1, <2>2, ReplaceKeepsGood
  <1> HIDE DEF gone, u
  <1> DEFINE t == NewString(u, {a}, field, fails)
  <1>5. "String" \in Class /\ a # Client /\ a \in Address
    BY HeapAssumption DEF Class, InUse
  <1>50. u.class[a] = s.class[a]
    BY <1>3, <1>4, <1>5 DEF Agree
  <1>6. Good(t)
    BY <1>4, <1>5, <1>50, NewKeepsGood DEF NewString
  <1>7. \A b \in InUse(u) : t.class[b] = u.class[b]
    BY <1>4, <1>5, NewMakes DEF NewString
  <1>8. Preserves(s, t)
    BY <1>1, <1>4, <1>7 DEF Preserves, InUse, Agree
  <1> QED  BY <1>6, <1>8 DEF CopyInto, u, gone

\* Where alloc_X() puts an object, there was none and it holds nothing yet.
Fresh(t, new, class) ==
    /\ new = {} \/ \E a \in Address : new = {a}
    /\ \A a \in new : a \in InUse(t) /\ t.class[a] = class /\ \A r \in t.refs : r.from # a

\* What alloc_X() returned is of its class and holds nothing yet.
LEMMA NewIsFresh ==
    ASSUME NEW s, Good(s), NEW class \in Class, NEW holders, NEW field, NEW fails,
           holders \subseteq InUse(s) \cup {Client}
    PROVE  /\ Preserves(s, New(s, class, holders, field, fails))
           /\ Fresh(New(s, class, holders, field, fails), Place(s, class, fails), class)
  <1> DEFINE t == New(s, class, holders, field, fails)
             new == Place(s, class, fails)
  <1>1. /\ \A b \in InUse(s) : b \in InUse(t) /\ t.class[b] = s.class[b]
        /\ new = {} \/ \E a \in Address : new = {a}
        /\ \A a \in new : a \in InUse(t) /\ a \notin InUse(s) /\ t.class[a] = class
        /\ \A r \in t.refs : r \in s.refs \/ r.from \in holders
    BY NewMakes
  <1> HIDE DEF t, new
  <1>2. new \subseteq Address
    BY <1>1
  <1>3. \A a \in new : \A r \in t.refs : r.from # a
    BY <1>1, <1>2, HeapAssumption DEF Good, Intact
  <1>4. Fresh(t, new, class)
    BY <1>1, <1>3 DEF Fresh
  <1>5. Preserves(s, t)
    BY <1>1 DEF Preserves, InUse
  <1> QED  BY <1>4, <1>5 DEF t, new

\* One pointer of an object holds one object.
LEMMA FieldHoldsOne ==
    ASSUME NEW s, Good(s), NEW a, NEW field, field \notin Many,
           NEW h \in Held(s, {a}, field), NEW k \in Held(s, {a}, field)
    PROVE  h = k
  <1>1. PICK r \in s.refs : r.from = a /\ r.field = field /\ r.to = h
    BY HeldMember DEF Good
  <1>2. PICK q \in s.refs : q.from = a /\ q.field = field /\ q.to = k
    BY HeldMember DEF Good
  <1> QED  BY <1>1, <1>2 DEF Good, Typed

\* The array an element is added to: there, or made, or missing because it could not be made.
Missing(s, a, field) == Held(s, {a}, field) = {} => s.failed \cap Arrays # {}

\* The array an element is added to is made if there is none (add_column(), add_validation()).
LEMMA ArrayMade ==
    ASSUME NEW s, Good(s), NEW a \in InUse(s), NEW array \in Arrays, NEW field \in Fields(s.class[a]), NEW fails,
           field \notin Many, ClassOf(field) = {array},
           NEW t, t = IF Held(s, {a}, field) = {} THEN New(s, array, {a}, field, fails) ELSE s
    PROVE  Good(t) /\ Preserves(s, t) /\ Missing(t, a, field)
  <1>0. a \in Address /\ a # Client /\ array \in Class
    BY HeapAssumption DEF InUse, Class, Arrays
  <1>1. CASE Held(s, {a}, field) # {}
    BY <1>1 DEF Preserves, Missing
  <1>2. CASE Held(s, {a}, field) = {}
    <2>0. Typed(s)
      BY DEF Good
    <2>1. ASSUME NEW r \in s.refs, r.from \in {a}, r.field = field  PROVE FALSE
      <3>1. r.to \in Held(s, {a}, field)
        BY <2>0, <2>1, HeldMember
      <3> QED  BY <1>2, <3>1
    <2>2. Good(t)
      BY <1>0, <1>2, <2>1, NewKeepsGood
    <2>3. Preserves(s, t)
      BY <1>0, <1>2, NewIsFresh
    <2>4. Missing(t, a, field)
      <3> DEFINE u == New(s, array, {a}, field, fails)
                 new == Place(s, array, fails)
      <3>1. /\ new = {} \/ \E b \in Address : new = {b}
            /\ new = {} => array \in u.failed
            /\ \A b \in new : \A h \in {a} : Reference(h, field, b) \in u.refs
        BY <1>0, NewMakes
      <3>2. u = t
        BY <1>2
      <3> HIDE DEF u, new
      <3>3. CASE new = {}
        BY <3>1, <3>2, <3>3 DEF Missing
      <3>4. CASE new # {}
        BY <3>1, <3>2, <3>4 DEF Missing, Held
      <3> QED  BY <3>3, <3>4
    <2> QED  BY <2>2, <2>3, <2>4
  <1> QED  BY <1>1, <1>2

\* An element is made for the array.
LEMMA ElementMade ==
    ASSUME NEW s, Good(s), NEW a, NEW array \in Arrays, NEW field, field \notin Many, ClassOf(field) = {array},
           Missing(s, a, field), NEW class \in Class, NEW element \in Fields(array),
           element \in Many, class \in ClassOf(element), NEW fails, NEW t,
           t = New(s, class, Held(s, {a}, field), element, fails)
    PROVE  Good(t) /\ Preserves(s, t) /\ Fresh(t, Place(s, class, fails), class)
  <1> DEFINE holders == Held(s, {a}, field)
  <1>1. \A h \in holders : h \in InUse(s) /\ h \in Address /\ s.class[h] = array
    BY HeldIsThere
  <1>2. \A h, k \in holders : h = k
    BY FieldHoldsOne
  <1>3. holders = {} => s.failed \cap Arrays # {}
    BY DEF Missing
  <1>40. t = New(s, class, holders, element, fails)
    OBVIOUS
  <1> HIDE DEF holders
  <1>4. \A h \in holders : h # Client
    <2>1. Client \notin Address
      BY HeapAssumption
    <2> QED  BY <1>1, <2>1
  <1>6. Good(t)
    BY <1>1, <1>2, <1>3, <1>4, <1>40, NewKeepsGood
  <1>7. Preserves(s, t) /\ Fresh(t, Place(s, class, fails), class)
    BY <1>1, <1>40, NewIsFresh
  <1> QED  BY <1>6, <1>7

\* A fresh object has none of its fields filled.
LEMMA FreshGrows ==
    ASSUME NEW t, Good(t), NEW new, NEW class, Fresh(t, new, class), NEW a \in new
    PROVE  Growing(t, a, class, {}) /\ new = {a}
  BY DEF Fresh, Growing

----------------------------------------------------------------------------
(* The methods that make more than one object *)

\* new_PDTFormatFile() keeps a good heap good, whichever of its strings cannot be made.
LEMMA NewFormatFileKeepsGood ==
    ASSUME NEW s, Good(s), NEW holder \in InUse(s) \cup {Client}, NEW field, NEW fails,
           \/ holder = Client /\ field = "held"
           \/ holder # Client /\ field \in Fields(s.class[holder]),
           "FormatFile" \in ClassOf(field),
           field \in Many \/ \A r \in s.refs : ~(r.from = holder /\ r.field = field)
    PROVE  Good(NewFormatFile(s, holder, field, fails)) /\ Preserves(s, NewFormatFile(s, holder, field, fails))
  <1> DEFINE x == Place(s, "FormatFile", fails)
             made == New(s, "FormatFile", {holder}, field, fails)
             path == NewString(made, x, "format_file_path", fails)
             chunk == NewString(path, x, "_chunk", fails)
             key == NewString(chunk, x, "_key", fails)
             value == NewString(key, x, "_value", fails)
             all == NewFormatFile(s, holder, field, fails)
  <1>0. "FormatFile" \in Class
    BY DEF Class
  <1>1. Good(made)
    BY <1>0, NewKeepsGood
  <1>2. Preserves(s, made) /\ Fresh(made, x, "FormatFile")
    BY <1>0, NewIsFresh
  <1>3. all = IF x = {} THEN made ELSE value
    BY DEF NewFormatFile
  <1>4. CASE x = {}
    BY <1>1, <1>2, <1>3, <1>4
  <1>5. ASSUME NEW a \in x  PROVE Good(value) /\ Preserves(s, value)
    <2>0. /\ {"format_file_path", "_chunk", "_key", "_value"} \subseteq Fields("FormatFile")
          /\ \A f \in {"format_file_path", "_chunk", "_key", "_value"} : ClassOf(f) = {"String"}
      BY DEF Fields, Buffers, ClassOf
    <2>1. Growing(made, a, "FormatFile", {}) /\ x = {a}
      BY <1>1, <1>2, <1>5, FreshGrows
    <2> HIDE DEF x, made
    <2>2. Growing(path, a, "FormatFile", {} \cup {"format_file_path"}) /\ Preserves(made, path)
      BY <2>0, <2>1, StringStep
    <2> HIDE DEF path
    <2>3. Growing(chunk, a, "FormatFile", ({} \cup {"format_file_path"}) \cup {"_chunk"}) /\ Preserves(path, chunk)
      BY <2>0, <2>1, <2>2, StringStep
    <2> HIDE DEF chunk
    <2>4. /\ Growing(key, a, "FormatFile", (({} \cup {"format_file_path"}) \cup {"_chunk"}) \cup {"_key"})
          /\ Preserves(chunk, key)
      BY <2>0, <2>1, <2>3, StringStep
    <2> HIDE DEF key
    <2>5. /\ Growing(value, a, "FormatFile", ((({} \cup {"format_file_path"}) \cup {"_chunk"}) \cup {"_key"}) \cup {"_value"})
          /\ Preserves(key, value)
      BY <2>0, <2>1, <2>4, StringStep
    <2> HIDE DEF value
    <2>6. Preserves(s, value)
      BY <1>2, <2>2, <2>3, <2>4, <2>5, PreservesInTurn
    <2> QED  BY <2>5, <2>6 DEF Growing
  <1> HIDE DEF x, made, value, all
  <1> QED  BY <1>3, <1>4, <1>5 DEF all

\* new_ParseDelimitedText() keeps a good heap good, whichever of its strings cannot be made.
LEMMA NewParserKeepsGood ==
    ASSUME NEW s, Good(s), NEW fails, ~Fails(s, "Parser", fails)
    PROVE  Good(NewParser(s, fails)) /\ Preserves(s, NewParser(s, fails))
  <1> DEFINE p == Place(s, "Parser", fails)
             made == New(s, "Parser", {Client}, "held", fails)
             input == NewString(made, p, "input", fails)
             field == NewString(input, p, "field", fails)
             lookahead == NewString(field, p, "lookahead", fails)
             space == NewString(lookahead, p, "trailing_space", fails)
             all == NewParser(s, fails)
  <1>0. "Parser" \in Class /\ "Parser" \in ClassOf("held") /\ "held" \in Many
    BY DEF Class, ClassOf, Many
  <1>1. Good(made)
    BY <1>0, NewKeepsGood
  <1>2. Preserves(s, made) /\ Fresh(made, p, "Parser")
    BY <1>0, NewIsFresh
  <1>3. all = space
    BY DEF NewParser
  <1>4. PICK a : a \in p
    BY DEF Place
  <1> HIDE DEF all
  <1>5. /\ {"input", "field", "lookahead", "trailing_space"} \subseteq Fields("Parser")
        /\ \A f \in {"input", "field", "lookahead", "trailing_space"} : ClassOf(f) = {"String"}
    BY DEF Fields, Strings, ClassOf
  <1>6. Growing(made, a, "Parser", {}) /\ p = {a}
    BY <1>1, <1>2, <1>4, FreshGrows
  <1> HIDE DEF p, made
  <1>7. Growing(input, a, "Parser", {} \cup {"input"}) /\ Preserves(made, input)
    BY <1>5, <1>6, StringStep
  <1> HIDE DEF input
  <1>8. Growing(field, a, "Parser", ({} \cup {"input"}) \cup {"field"}) /\ Preserves(input, field)
    BY <1>5, <1>6, <1>7, StringStep
  <1> HIDE DEF field
  <1>9. /\ Growing(lookahead, a, "Parser", (({} \cup {"input"}) \cup {"field"}) \cup {"lookahead"})
        /\ Preserves(field, lookahead)
    BY <1>5, <1>6, <1>8, StringStep
  <1> HIDE DEF lookahead
  <1>10. /\ Growing(space, a, "Parser", ((({} \cup {"input"}) \cup {"field"}) \cup {"lookahead"}) \cup {"trailing_space"})
         /\ Preserves(lookahead, space)
    BY <1>5, <1>6, <1>9, StringStep
  <1> HIDE DEF space
  <1>11. Preserves(s, space)
    BY <1>2, <1>7, <1>8, <1>9, <1>10, PreservesInTurn
  <1> QED  BY <1>3, <1>10, <1>11 DEF Growing, all

\* add_column() keeps a good heap good, whether or not there is an array.
LEMMA AddColumnKeepsGood ==
    ASSUME NEW s, Good(s), NEW f \in Objects(s, "Format"), NEW fails
    PROVE  Good(AddColumn(s, f, fails)) /\ Preserves(s, AddColumn(s, f, fails))
  <1> DEFINE array == WithColumns(s, f, fails)
             column == Place(array, "Column", fails)
             made == New(array, "Column", Held(array, {f}, "columns"), "column", fails)
             named == NewString(made, column, "column_name", fails)
             all == AddColumn(s, f, fails)
  <1>0. all = IF column = {} THEN made ELSE named
    BY DEF AddColumn
  <1>1. /\ "columns" \in Fields("Format") /\ "column" \in Fields("Columns") /\ "column_name" \in Fields("Column")
        /\ ClassOf("columns") = {"Columns"} /\ ClassOf("column") = {"Column"} /\ ClassOf("column_name") = {"String"}
        /\ "Columns" \in Arrays /\ "Column" \in Class /\ "columns" \notin Many /\ "column" \in Many
    BY DEF Fields, ClassOf, Arrays, Class, Many
  <1>2. f \in InUse(s) /\ s.class[f] = "Format"
    BY DEF Objects, InUse
  <1>3. Good(array) /\ Preserves(s, array) /\ Missing(array, f, "columns")
    <2>1. array = IF Held(s, {f}, "columns") = {} THEN New(s, "Columns", {f}, "columns", fails) ELSE s
      BY DEF WithColumns
    <2> HIDE DEF array
    <2> QED  BY <1>1, <1>2, <2>1, ArrayMade
  <1> HIDE DEF array
  <1>4. Good(made) /\ Preserves(array, made) /\ Fresh(made, column, "Column")
    BY <1>1, <1>3, ElementMade
  <1> HIDE DEF made, column, all
  <1>5. CASE column = {}
    BY <1>0, <1>3, <1>4, <1>5, PreservesInTurn DEF all
  <1>6. ASSUME NEW a \in column  PROVE Good(named) /\ Preserves(s, named)
    <2>1. Growing(made, a, "Column", {}) /\ column = {a}
      BY <1>4, <1>6, FreshGrows
    <2>2. Growing(named, a, "Column", {} \cup {"column_name"}) /\ Preserves(made, named)
      BY <1>1, <2>1, StringStep
    <2> HIDE DEF named
    <2>3. Preserves(s, named)
      BY <1>3, <1>4, <2>2, PreservesInTurn
    <2> QED  BY <2>2, <2>3 DEF Growing
  <1> HIDE DEF named
  <1> QED  BY <1>0, <1>5, <1>6 DEF all

\* add_validation() keeps a good heap good, whether or not there is an array.
LEMMA AddValidationKeepsGood ==
    ASSUME NEW s, Good(s), NEW c \in Objects(s, "Column"), NEW arguments, NEW fails
    PROVE  Good(AddValidation(s, c, arguments, fails)) /\ Preserves(s, AddValidation(s, c, arguments, fails))
  <1> DEFINE array == WithValidations(s, c, fails)
             validation == Place(array, "Validation", fails)
             made == New(array, "Validation", Held(array, {c}, "validations"), "validation", fails)
             named == NewString(made, validation, "validation_name", fails)
             more == New(named, "Arguments", validation, "arguments", fails)
             all == AddValidation(s, c, arguments, fails)
  <1>0. all = IF validation = {} THEN made ELSE IF arguments THEN more ELSE named
    BY DEF AddValidation
  <1>1. /\ "validations" \in Fields("Column") /\ "validation" \in Fields("Validations")
        /\ "validation_name" \in Fields("Validation") /\ "arguments" \in Fields("Validation")
        /\ ClassOf("validations") = {"Validations"} /\ ClassOf("validation") = {"Validation"}
        /\ ClassOf("validation_name") = {"String"} /\ ClassOf("arguments") = {"Arguments"}
        /\ "Validations" \in Arrays /\ "Validation" \in Class /\ "Arguments" \in Class
        /\ "validations" \notin Many /\ "validation" \in Many
    BY DEF Fields, ClassOf, Arrays, Class, Many
  <1>2. c \in InUse(s) /\ s.class[c] = "Column"
    BY DEF Objects, InUse
  <1>3. Good(array) /\ Preserves(s, array) /\ Missing(array, c, "validations")
    <2>1. array = IF Held(s, {c}, "validations") = {} THEN New(s, "Validations", {c}, "validations", fails) ELSE s
      BY DEF WithValidations
    <2> HIDE DEF array
    <2> QED  BY <1>1, <1>2, <2>1, ArrayMade
  <1> HIDE DEF array
  <1>4. Good(made) /\ Preserves(array, made) /\ Fresh(made, validation, "Validation")
    BY <1>1, <1>3, ElementMade
  <1> HIDE DEF made, validation, all
  <1>5. CASE validation = {}
    BY <1>0, <1>3, <1>4, <1>5, PreservesInTurn DEF all
  <1>6. ASSUME NEW a \in validation
        PROVE  Good(named) /\ Preserves(s, named) /\ Good(more) /\ Preserves(s, more)
    <2>1. Growing(made, a, "Validation", {}) /\ validation = {a}
      BY <1>4, <1>6, FreshGrows
    <2>2. Growing(named, a, "Validation", {} \cup {"validation_name"}) /\ Preserves(made, named)
      BY <1>1, <2>1, StringStep
    <2> HIDE DEF named
    <2>3. Good(named) /\ Preserves(s, named)
      BY <1>3, <1>4, <2>2, PreservesInTurn DEF Growing
    <2>4. a \in InUse(named) /\ a # Client
      BY <2>2, HeapAssumption DEF Growing, InUse
    <2>5. Good(more)
      <3>1. \A r \in named.refs : ~(r.from \in {a} /\ r.field = "arguments")
        BY <2>2 DEF Growing
      <3>2. named.class[a] = "Validation"
        BY <2>2 DEF Growing
      <3> QED  BY <1>1, <2>1, <2>3, <2>4, <3>1, <3>2, NewKeepsGood
    <2>6. Preserves(named, more)
      BY <1>1, <2>1, <2>3, <2>4, NewIsFresh
    <2> HIDE DEF more
    <2>7. Preserves(s, more)
      BY <2>3, <2>6, PreservesInTurn
    <2> QED  BY <2>3, <2>5, <2>7
  <1> HIDE DEF named, more
  <1> QED  BY <1>0, <1>5, <1>6 DEF all

\* read_file() of a format: the old format file goes as a whole.
LEMMA ReplaceFormatFileKeepsGood ==
    ASSUME NEW s, Good(s), NEW f \in Objects(s, "Format"), NEW fails
    PROVE  Good(ReplaceFormatFile(s, f, fails)) /\ f \in Objects(ReplaceFormatFile(s, f, fails), "Format")
  <1> DEFINE files == Held(s, {f}, "format_file")
             gone == FreeFormatFile(s, files)
             u == Unset(Free(s, gone), f, "format_file")
             t == NewFormatFile(u, f, "format_file", fails)
  <1>0. f \in InUse(s) /\ s.class[f] = "Format" /\ f \in Address
    BY DEF Objects, InUse
  <1>1. /\ "format_file" \in Fields("Format") /\ ClassOf("format_file") = {"FormatFile"}
        /\ "format_file" \notin Many
    BY DEF Fields, ClassOf, Many
  <1>2. files \in SUBSET Objects(s, "FormatFile")
    BY <1>1, HeldIsThere DEF Objects
  <1>3. Whole(s, gone, files)
    BY <1>2, WholeFormatFile
  <1>4. f \notin gone
    <2>1. \A a \in gone : s.class[a] \in {"FormatFile", "String"}
      <3>1. \A field \in {"format_file_path", "_chunk", "_key", "_value"} : ClassOf(field) = {"String"}
        BY DEF ClassOf
      <3>2. \A field \in {"format_file_path", "_chunk", "_key", "_value"} :
              \A a \in Held(s, files, field) : s.class[a] = "String"
        BY <3>1, HeldIsThere
      <3>3. \A a \in gone : \/ a \in files
                            \/ \E field \in {"format_file_path", "_chunk", "_key", "_value"} : a \in Held(s, files, field)
        BY DEF FreeFormatFile
      <3>4. \A a \in files : s.class[a] = "FormatFile"
        BY <1>2 DEF Objects
      <3> QED  BY <3>2, <3>3, <3>4
    <2> QED  BY <1>0, <2>1
  <1>5. /\ Good(u)
        /\ f \in InUse(u)
        /\ \A r \in u.refs : ~(r.from = f /\ r.field = "format_file")
        /\ Agree(s, u, Address \ gone)
    <2>1. u = Unset(Free(s, gone), f, "format_file")
      OBVIOUS
    <2> HIDE DEF u, gone
    <2> QED  BY <1>0, <1>1, <1>3, <1>4, <2>1, ReplaceKeepsGood
  <1> HIDE DEF u, gone
  <1>6. u.class[f] = "Format" /\ f # Client
    BY <1>0, <1>4, <1>5, HeapAssumption DEF Agree
  <1>7. Good(t) /\ Preserves(u, t)
    BY <1>1, <1>5, <1>6, NewFormatFileKeepsGood
  <1> HIDE DEF t
  <1>8. f \in Objects(t, "Format")
    BY <1>0, <1>6, <1>7 DEF Preserves, Objects
  <1> QED  BY <1>7, <1>8 DEF ReplaceFormatFile, t, u, gone

\* set_delimiter(), set_escape(), set_quote() of a format: the client's string
\* takes the place of the old one.
LEMMA SetStringKeepsGood ==
    ASSUME NEW s, Good(s), NEW f \in Objects(s, "Format"), NEW string \in Mine(s, "String"),
           NEW field \in Strings \cup {"escape"}
    PROVE  Good(Set(Free(GiveAway(s, string), Held(s, {f}, field)), f, field, string))
  <1> DEFINE gone == Held(s, {f}, field)
             given == Reference(Client, "held", string)
             new == Reference(f, field, string)
             t == Set(Free(GiveAway(s, string), gone), f, field, string)
  <1>0. f \in InUse(s) /\ s.class[f] = "Format" /\ f \in Address /\ f # Client
    BY HeapAssumption DEF Objects, InUse
  <1>1. field \in Fields("Format") /\ ClassOf(field) = {"String"} /\ field \notin Many
    BY DEF Fields, Strings, ClassOf, Many
  <1>2. string \in Address /\ s.class[string] = "String" /\ string \in Held(s, {Client}, "held")
    BY DEF Mine, Objects
  <1>3. \A a \in gone : a \in Address /\ s.class[a] = "String"
    BY <1>1, HeldIsThere
  <1>4. \A r \in s.refs : r.to = string <=> r = given
    <2>1. ASSUME NEW r \in s.refs, r.to = string  PROVE r = given
      BY <1>2, <2>1, HolderIsOne, ReferenceParts DEF Good
    <2>2. given.to = string
      BY DEF Reference
    <2> QED  BY <2>1, <2>2
  <1>5. \A r \in s.refs : r.to \in gone <=> (r.from = f /\ r.field = field)
    BY HolderIsOne, HeldMember DEF Good
  <1>6. /\ t.class = [a \in Address |-> IF a \in gone THEN "free" ELSE s.class[a]]
        /\ t.refs = {r \in {q \in s.refs \ {given} : q.from \notin gone} : r.from # f \/ r.field # field} \cup {new}
        /\ t.failed = s.failed
    BY DEF Set, Unset, Free, GiveAway
  <1>7. new = Reference(new.from, new.field, new.to) /\ new.from = f /\ new.field = field /\ new.to = string
    BY DEF Reference
  <1>70. given.from = Client
    BY DEF Reference
  <1> HIDE DEF gone, given, new, t
  <1>8. \A r : r \in t.refs <=> (r = new \/ (r \in s.refs /\ r.to # string /\ r.to \notin gone /\ r.from \notin gone))
    BY <1>4, <1>5, <1>6
  <1>9. \A r \in s.refs : r.from \notin gone
    BY <1>3, LeavesHoldNothing
  <1>10. string \notin gone
    <2>1. PICK r \in s.refs : r.from \in {Client} /\ r.field = "held" /\ r.to = string
      BY <1>2, HeldMember DEF Good
    <2> QED  BY <1>0, <1>5, <2>1
  <1>11. Typed(t)
    <2>1. t.class \in [Address -> Class \cup {"free"}] /\ t.failed \subseteq Class
      BY <1>6 DEF Good, Typed
    <2>2. \A r \in t.refs : /\ r = Reference(r.from, r.field, r.to)
                            /\ r.from \in Address \cup {Client} /\ r.to \in Address
      BY <1>0, <1>2, <1>7, <1>8, ReferenceParts DEF Good
    <2>3. ASSUME NEW r \in t.refs, NEW q \in t.refs, r.from = q.from, r.field = q.field, r.field \notin Many
          PROVE  r = q
      BY <1>5, <1>7, <1>8, <2>3 DEF Good, Typed
    <2> QED  BY <2>1, <2>2, <2>3 DEF Typed
  <1>12. \A a \in Address : a \notin gone => t.class[a] = s.class[a]
    BY <1>6
  <1>13. \A a \in InUse(s) : a \notin gone => a \in InUse(t)
    BY <1>12 DEF InUse
  <1>14. Intact(t)
    <2> SUFFICES ASSUME NEW r \in t.refs
                 PROVE  /\ r.to \in InUse(t)
                        /\ t.class[r.to] \in ClassOf(r.field)
                        /\ \/ r.from = Client /\ r.field = "held"
                           \/ r.from \in InUse(t) /\ r.field \in Fields(t.class[r.from])
      BY DEF Intact
    <2>1. CASE r = new
      <3>1. string \in InUse(s)
        BY <1>2 DEF InUse
      <3>2. f \notin gone
        BY <1>0, <1>3
      <3> QED  BY <1>0, <1>1, <1>2, <1>7, <1>10, <1>12, <1>13, <2>1, <3>1, <3>2
    <2>2. CASE r \in s.refs /\ r.to \notin gone
      <3>1. r.to \in InUse(s) /\ r.to \in Address
        BY <2>2 DEF Good, Intact, InUse
      <3>2. r.from = Client \/ (r.from \in InUse(s) /\ r.from \in Address)
        BY <2>2 DEF Good, Intact, InUse
      <3>3. /\ s.class[r.to] \in ClassOf(r.field)
            /\ \/ r.from = Client /\ r.field = "held"
               \/ r.from \in InUse(s) /\ r.field \in Fields(s.class[r.from])
        BY <2>2 DEF Good, Intact
      <3>4. r.from \notin gone
        BY <1>9, <2>2
      <3>5. r.from \in Address => t.class[r.from] = s.class[r.from]
        BY <1>12, <3>4
      <3>6. t.class[r.to] = s.class[r.to] /\ r.to \in InUse(t)
        BY <1>12, <1>13, <2>2, <3>1
      <3>7. r.from \in InUse(s) => r.from \in InUse(t) /\ r.from \in Address
        BY <1>13, <3>4 DEF InUse
      <3> QED  BY <3>3, <3>5, <3>6, <3>7
    <2> QED  BY <1>8, <2>1, <2>2
  <1>15. HeldOnce(t)
    BY <1>7, <1>8 DEF Good, HeldOnce
  <1>16. Kept(t)
    <2> SUFFICES ASSUME s.failed \cap Arrays = {}, NEW a \in InUse(t)
                 PROVE  \E r \in t.refs : r.to = a
      BY <1>6 DEF Kept
    <2>1. a \notin gone /\ a \in InUse(s)
      BY <1>6 DEF InUse
    <2>2. CASE a = string
      BY <1>7, <1>8, <2>2
    <2>3. CASE a # string
      <3>1. PICK r \in s.refs : r.to = a
        BY <2>1 DEF Good, Kept
      <3> QED  BY <1>8, <1>9, <2>1, <2>3, <3>1
    <2> QED  BY <2>2, <2>3
  <1> QED  BY <1>11, <1>14, <1>15, <1>16 DEF Good, t, gone

\* What free() of any object of the client frees is a whole.
LEMMA WholeObject ==
    ASSUME NEW s, Good(s), NEW a \in Held(s, {Client}, "held")
    PROVE  Whole(s, FreeObject(s, a), {a})
  <1>1. a \in Address /\ s.class[a] \in {"Format", "FormatFile", "Parser", "Validator", "String"}
    BY HeldIsThere DEF ClassOf
  <1>2. CASE s.class[a] = "Format"
    BY <1>1, <1>2, WholeFormat DEF FreeObject, Objects
  <1>3. CASE s.class[a] = "FormatFile"
    BY <1>1, <1>3, WholeFormatFile DEF FreeObject, Objects
  <1>4. CASE s.class[a] = "Parser"
    BY <1>1, <1>4, WholeParser DEF FreeObject, Objects
  <1>5. CASE s.class[a] \in {"Validator", "String"}
    <2>1. FreeObject(s, a) = {a}
      BY <1>5 DEF FreeObject
    <2> QED  BY <1>1, <1>5, <2>1, LeavesHoldNothing DEF Whole
  <1> QED  BY <1>1, <1>2, <1>3, <1>4, <1>5

\* free() of an object of the client keeps a good heap good.
LEMMA FreeHeldKeepsGood ==
    ASSUME NEW s, Good(s), NEW a \in Held(s, {Client}, "held")
    PROVE  Good(Free(GiveAway(s, a), FreeObject(s, a)))
  <1> DEFINE gone == FreeObject(s, a)
             given == Reference(Client, "held", a)
             t == Free(GiveAway(s, a), gone)
  <1>1. Whole(s, gone, {a})
    BY WholeObject
  <1>2. \A r \in s.refs : r.to = a <=> r = given
    <2>1. ASSUME NEW r \in s.refs, r.to = a  PROVE r = given
      BY <2>1, HolderIsOne, ReferenceParts DEF Good
    <2>2. given.to = a
      BY DEF Reference
    <2> QED  BY <2>1, <2>2
  <1>3. /\ t.class = [b \in Address |-> IF b \in gone THEN "free" ELSE s.class[b]]
        /\ t.refs = {r \in s.refs \ {given} : r.from \notin gone}
        /\ t.failed = s.failed
    BY DEF Free, GiveAway
  <1> HIDE DEF gone, given, t
  <1>4. t.refs \subseteq s.refs /\ \A r \in s.refs : r \in t.refs <=> (r.from \notin gone /\ r.to \notin {a})
    BY <1>2, <1>3
  <1> QED  BY <1>1, <1>3, <1>4, FreeKeepsGood DEF t, gone

----------------------------------------------------------------------------
(* The client *)

\* The variables but the pointers of the format files.
HeapTyped ==
    /\ Typed(heap)
    /\ ready \subseteq DOMAIN Loads
    /\ reading \subseteq Objects(heap, "Format")
    /\ calls \in 0 .. MaxCalls
    /\ ended \in BOOLEAN

Inv == HeapTyped /\ Good(heap)

\* The invariant holds of the empty heap.
LEMMA InitInv == Init => Inv
  <1> SUFFICES ASSUME Init  PROVE Inv
    OBVIOUS
  <1>1. heap.class = [a \in Address |-> "free"] /\ heap.refs = {} /\ heap.failed = {}
    BY DEF Init
  <1>2. Typed(heap)
    BY <1>1 DEF Typed
  <1>3. Intact(heap) /\ HeldOnce(heap) /\ Kept(heap)
    BY <1>1 DEF Intact, HeldOnce, Kept, InUse
  <1>4. HeapTyped
    <2>1. calls \in 0 .. MaxCalls
      BY HeapAssumption DEF Init
    <2> QED  BY <1>2, <2>1 DEF Init, HeapTyped
  <1> QED  BY <1>2, <1>3, <1>4 DEF Inv, Good

\* Every class whose null object is set up is one that has one.
LEMMA LoadsAreClasses ==
    ASSUME NEW class \in {"Validation", "Column", "FormatFile", "Format", "Parser", "Validator"}
    PROVE  Loads[class] \subseteq DOMAIN Loads
  BY DEF Loads

\* The objects a client may pass to a method.
LEMMA MineIsHeld ==
    ASSUME NEW s, Good(s), NEW class, NEW a \in Mine(s, class)
    PROVE  /\ a \in Held(s, {Client}, "held") /\ a \in Objects(s, class)
           /\ class # "free" => a \in InUse(s)
  BY DEF Mine, Objects, InUse

\* The formats stay formats when the objects are preserved.
LEMMA FormatsStay ==
    ASSUME NEW s, NEW t, NEW formats \in SUBSET Objects(s, "Format"), Preserves(s, t)
    PROVE  formats \subseteq Objects(t, "Format")
  BY DEF Preserves, Objects

\* What is left to show of a call once the heap is known to stay good.
LEMMA CallKeepsInv ==
    ASSUME Inv, Running, Good(heap'), reading' \subseteq Objects(heap', "Format"), ended' \in BOOLEAN,
           ready' = ready \/ \E class \in DOMAIN Loads : Load(class)
    PROVE  Inv'
  <1>1. calls' \in 0 .. MaxCalls
    BY HeapAssumption DEF Inv, HeapTyped, Running
  <1>2. ready' \subseteq DOMAIN Loads
    <2>1. CASE ready' = ready
      BY <2>1 DEF Inv, HeapTyped
    <2>2. ASSUME NEW class \in DOMAIN Loads, Load(class)  PROVE ready' \subseteq DOMAIN Loads
      <3>1. class \in {"Validation", "Column", "FormatFile", "Format", "Parser", "Validator"}
        BY DEF Loads
      <3>2. Loads[class] \subseteq DOMAIN Loads
        BY <3>1, LoadsAreClasses
      <3> QED  BY <2>2, <3>2 DEF Inv, HeapTyped, Load
    <2> QED  BY <2>1, <2>2
  <1>3. Typed(heap')
    BY DEF Good
  <1>4. HeapTyped'
    BY <1>1, <1>2, <1>3 DEF HeapTyped
  <1> QED  BY <1>4 DEF Inv

\* The methods that make an object keep the invariant.
LEMMA MakesKeepInv ==
    ASSUME Inv, MakeString \/ MakeFormat \/ MakeValidator \/ MakeFormatFile \/ MakeParser
    PROVE  Inv'
  <1>0. /\ {"String", "Format", "Validator", "FormatFile", "Parser"} \subseteq Class \cap ClassOf("held")
        /\ "held" \in Many
        /\ {"Format", "Validator", "FormatFile", "Parser"} \subseteq DOMAIN Loads
    BY DEF Class, ClassOf, Many, Loads
  <1>1. Good(heap)
    BY DEF Inv
  <1>2. ASSUME NEW class \in {"String", "Format", "Validator"}, NEW fails
        PROVE  Good(New(heap, class, {Client}, "held", fails))
    <2>1. class \in Class /\ class \in ClassOf("held")
      BY <1>0
    <2> QED  BY <1>0, <1>1, <2>1, NewKeepsGood
  <1>3. CASE MakeString
    <2>1. Good(heap')
      BY <1>2, <1>3 DEF MakeString, NewString
    <2> QED  BY <1>3, <2>1, CallKeepsInv DEF MakeString, Makes, Calls, Inv, HeapTyped
  <1>4. CASE MakeFormat
    <2>1. Good(heap')
      BY <1>2, <1>4 DEF MakeFormat
    <2> QED  BY <1>0, <1>4, <2>1, CallKeepsInv DEF MakeFormat, Makes, Calls, Inv, HeapTyped
  <1>5. CASE MakeValidator
    <2>1. Good(heap')
      BY <1>2, <1>5 DEF MakeValidator
    <2> QED  BY <1>0, <1>5, <2>1, CallKeepsInv DEF MakeValidator, Makes, Calls, Inv, HeapTyped
  <1>6. CASE MakeFormatFile
    <2>1. Good(heap')
      BY <1>0, <1>1, <1>6, NewFormatFileKeepsGood DEF MakeFormatFile
    <2> QED  BY <1>0, <1>6, <2>1, CallKeepsInv DEF MakeFormatFile, Makes, Calls, Inv, HeapTyped
  <1>7. CASE MakeParser
    <2>1. Good(heap') /\ ended' \in BOOLEAN
      BY <1>1, <1>7, NewParserKeepsGood DEF MakeParser, Inv, HeapTyped
    <2> QED  BY <1>0, <1>7, <2>1, CallKeepsInv DEF MakeParser, Makes, Calls
  <1> QED  BY <1>3, <1>4, <1>5, <1>6, <1>7

\* The setters, apply_format() and free() keep the invariant.
LEMMA SettingsKeepInv ==
    ASSUME Inv, SetString \/ SetFormatFilePath \/ SetParserString \/ ApplyFormat \/ FreeHeld
    PROVE  Inv'
  <1>0. /\ Good(heap)
        /\ {"delimiter", "quote"} \subseteq Fields("Parser") /\ "format_file_path" \in Fields("FormatFile")
        /\ \A field \in {"delimiter", "quote", "format_file_path"} : field \notin Many /\ ClassOf(field) = {"String"}
        /\ Strings = {"delimiter", "quote"}
    BY DEF Inv, Fields, ClassOf, Many, Strings
  <1>1. CASE SetString
    <2>1. PICK f \in Mine(heap, "Format"), string \in Mine(heap, "String"), field \in Strings \cup {"escape"} :
            heap' = Set(Free(GiveAway(heap, string), Held(heap, {f}, field)), f, field, string)
      BY <1>1 DEF SetString
    <2>2. f \in Objects(heap, "Format")
      BY <1>0, MineIsHeld
    <2>3. Good(heap')
      BY <1>0, <2>1, <2>2, SetStringKeepsGood
    <2> QED  BY <1>1, <2>3, CallKeepsInv DEF SetString, Calls, Inv, HeapTyped
  <1>2. CASE SetFormatFilePath
    <2>1. PICK x \in Mine(heap, "FormatFile"), fails \in Shortage(heap, {"String"}) :
            heap' = CopyInto(heap, x, "format_file_path", fails)
      BY <1>2 DEF SetFormatFilePath
    <2>2. x \in InUse(heap) /\ heap.class[x] = "FormatFile"
      BY <1>0, MineIsHeld DEF Objects
    <2>3. Good(heap')
      BY <1>0, <2>1, <2>2, CopyIntoKeepsGood
    <2> QED  BY <1>2, <2>3, CallKeepsInv DEF SetFormatFilePath, Calls, Inv, HeapTyped
  <1>3. CASE SetParserString
    <2>1. PICK p \in Mine(heap, "Parser"), field \in Strings, fails \in Shortage(heap, {"String"}) :
            heap' = CopyInto(heap, p, field, fails)
      BY <1>3 DEF SetParserString
    <2>2. p \in InUse(heap) /\ heap.class[p] = "Parser"
      BY <1>0, MineIsHeld DEF Objects
    <2>3. field \in Fields(heap.class[p]) /\ field \notin Many /\ ClassOf(field) = {"String"}
      BY <1>0, <2>2
    <2>4. Good(heap')
      BY <1>0, <2>1, <2>2, <2>3, CopyIntoKeepsGood
    <2> QED  BY <1>3, <2>4, CallKeepsInv DEF SetParserString, Calls, Inv, HeapTyped
  <1>4. CASE ApplyFormat
    <2>1. PICK p \in Mine(heap, "Parser"), fails \in Shortage(heap, {"String"}) :
            heap' = CopyInto(CopyInto(heap, p, "delimiter", fails), p, "quote", fails)
      BY <1>4 DEF ApplyFormat
    <2>2. p \in InUse(heap) /\ heap.class[p] = "Parser" /\ p \in Address
      BY <1>0, MineIsHeld DEF Objects
    <2> DEFINE t == CopyInto(heap, p, "delimiter", fails)
    <2>3. Good(t) /\ Preserves(heap, t)
      BY <1>0, <2>1, <2>2, CopyIntoKeepsGood
    <2>4. heap' = CopyInto(t, p, "quote", fails)
      BY <2>1
    <2> HIDE DEF t
    <2>5. p \in InUse(t) /\ t.class[p] = "Parser"
      BY <2>2, <2>3 DEF Preserves, InUse
    <2>6. Good(heap')
      BY <1>0, <2>3, <2>4, <2>5, CopyIntoKeepsGood
    <2> QED  BY <1>4, <2>6, CallKeepsInv DEF ApplyFormat, Calls, Inv, HeapTyped
  <1>5. CASE FreeHeld
    <2>1. Good(heap')
      BY <1>0, <1>5, FreeHeldKeepsGood DEF FreeHeld
    <2> QED  BY <1>5, <2>1, CallKeepsInv DEF FreeHeld, Calls, Inv, HeapTyped
  <1> QED  BY <1>1, <1>2, <1>3, <1>4, <1>5

\* What the reader fills in is a format.
LEMMA TargetIsFormat ==
    ASSUME Inv, NEW f \in Target
    PROVE  f \in Objects(heap, "Format")
  BY MineIsHeld DEF Inv, HeapTyped, Target

\* The additions to a format and the reading of a format file keep the invariant.
LEMMA ReadingKeepsInv ==
    ASSUME Inv, \/ MoreColumns \/ MoreValidations
                \/ ReadFile \/ ReadIntoFormat \/ ReadSetting \/ ReadTooEarly \/ EndReading
    PROVE  Inv'
  <1>0. /\ Good(heap)
        /\ reading \in SUBSET Objects(heap, "Format")
        /\ ready \subseteq DOMAIN Loads /\ ended \in BOOLEAN
        /\ {"Column", "Validation", "FormatFile"} \subseteq DOMAIN Loads
    BY DEF Inv, HeapTyped, Loads
  <1>1. CASE MoreColumns
    <2>1. PICK f \in Target, fails \in Shortage(heap, {"Columns", "Column", "String"}) :
            heap' = AddColumn(heap, f, fails)
      BY <1>1 DEF MoreColumns
    <2>2. Good(heap') /\ Preserves(heap, heap')
      BY <1>0, <2>1, TargetIsFormat, AddColumnKeepsGood
    <2>3. reading' \subseteq Objects(heap', "Format")
      BY <1>0, <1>1, <2>2, FormatsStay DEF MoreColumns
    <2> QED  BY <1>0, <1>1, <2>2, <2>3, CallKeepsInv DEF MoreColumns
  <1>2. CASE MoreValidations
    <2>1. PICK c \in Held(heap, Held(heap, Target, "columns"), "column"), arguments \in BOOLEAN,
               fails \in Shortage(heap, {"Validations", "Validation", "String", "Arguments"}) :
            heap' = AddValidation(heap, c, arguments, fails)
      BY <1>2 DEF MoreValidations
    <2>2. c \in Objects(heap, "Column")
      <3>1. ClassOf("column") = {"Column"}
        BY DEF ClassOf
      <3> QED  BY <1>0, <3>1, HeldIsThere DEF Objects
    <2>3. Good(heap') /\ Preserves(heap, heap')
      BY <1>0, <2>1, <2>2, AddValidationKeepsGood
    <2>4. reading' \subseteq Objects(heap', "Format")
      BY <1>0, <1>2, <2>3, FormatsStay DEF MoreValidations
    <2> QED  BY <1>0, <1>2, <2>3, <2>4, CallKeepsInv DEF MoreValidations
  <1>3. CASE ReadFile
    <2>1. PICK f \in Mine(heap, "Format"), fails \in Shortage(heap, {"FormatFile", "String"}) :
            /\ heap' = ReplaceFormatFile(heap, f, fails)
            /\ (reading' = reading /\ ended' = ended) \/ (reading' = {f} /\ ended' \in BOOLEAN)
      BY <1>3 DEF ReadFile
    <2>2. f \in Objects(heap, "Format")
      BY <1>0, MineIsHeld
    <2>3. Good(heap') /\ f \in Objects(heap', "Format")
      BY <1>0, <2>1, <2>2, ReplaceFormatFileKeepsGood
    <2>4. reading' \subseteq Objects(heap', "Format") /\ ended' \in BOOLEAN
      BY <1>0, <1>3, <2>1, <2>3 DEF ReadFile, Calls
    <2> QED  BY <1>0, <1>3, <2>3, <2>4, CallKeepsInv DEF ReadFile, Calls
  <1>4. CASE ReadIntoFormat
    <2>1. reading' \subseteq Objects(heap, "Format")
      BY <1>0, <1>4, MineIsHeld DEF ReadIntoFormat
    <2>2. heap' = heap
      BY <1>4 DEF ReadIntoFormat
    <2> QED  BY <1>0, <1>4, <2>1, <2>2, CallKeepsInv DEF ReadIntoFormat, Calls
  <1>5. CASE ReadSetting
    <2>1. PICK f \in reading, field \in Strings \cup {"escape"}, fails \in Shortage(heap, {"String"}) :
            heap' = CopyInto(heap, f, field, fails)
      BY <1>5 DEF ReadSetting
    <2>2. f \in InUse(heap) /\ heap.class[f] = "Format"
      BY <1>0 DEF Objects, InUse
    <2>3. field \in Fields("Format") /\ field \notin Many /\ ClassOf(field) = {"String"}
      BY DEF Fields, Many, ClassOf, Strings
    <2>4. Good(heap') /\ Preserves(heap, heap')
      BY <1>0, <2>1, <2>2, <2>3, CopyIntoKeepsGood
    <2>5. reading' \subseteq Objects(heap', "Format")
      BY <1>0, <1>5, <2>4, FormatsStay DEF ReadSetting
    <2> QED  BY <1>0, <1>5, <2>4, <2>5, CallKeepsInv DEF ReadSetting
  <1>6. CASE ReadTooEarly
    <2>1. heap' = heap /\ reading' = reading
      BY <1>6 DEF ReadTooEarly
    <2> QED  BY <1>0, <1>6, <2>1, CallKeepsInv DEF ReadTooEarly
  <1>7. CASE EndReading
    <2>1. heap' = heap /\ reading' = {}
      BY <1>7 DEF EndReading
    <2> QED  BY <1>0, <1>7, <2>1, CallKeepsInv DEF EndReading
  <1> QED  BY <1>1, <1>2, <1>3, <1>4, <1>5, <1>6, <1>7

\* Every step of the client keeps the invariant.
LEMMA NextInv == Inv /\ [Next]_vars => Inv'
  <1> SUFFICES ASSUME Inv, [Next]_vars  PROVE Inv'
    OBVIOUS
  <1>1. CASE Next
    BY <1>1, MakesKeepInv, SettingsKeepInv, ReadingKeepsInv DEF Next
  <1>2. CASE UNCHANGED vars
    BY <1>2 DEF vars, Inv, HeapTyped
  <1> QED  BY <1>1, <1>2

\* The heap is good at any time, for every allocator, failure and order of calls.
THEOREM InvAlways == Spec => []Inv
  BY InitInv, NextInv, PTL DEF Spec

----------------------------------------------------------------------------
(* The pointers of the format files *)

\* The format files stay, and so do all who hold them.
KeepsFiles(s, t) ==
    \A a \in Address : s.class[a] = "FormatFile" =>
        t.class[a] = "FormatFile" /\ \A r \in s.refs : r.to = a => r \in t.refs

\* The format files that are new are in a field of a holder.
NewFilesIn(s, t, holder, field) ==
    \A a \in Address : t.class[a] = "FormatFile" /\ s.class[a] # "FormatFile" => Reference(holder, field, a) \in t.refs

\* alloc_X() leaves all objects and references as they are.
LEMMA NewKeepsFiles ==
    ASSUME NEW s, s.class \in [Address -> Class \cup {"free"}], NEW class \in Class, NEW holders, NEW field, NEW fails
    PROVE  LET t == New(s, class, holders, field, fails) IN
           /\ t.class \in [Address -> Class \cup {"free"}]
           /\ KeepsFiles(s, t)
           /\ class # "FormatFile" => \A a \in Address : t.class[a] = "FormatFile" => s.class[a] = "FormatFile"
           /\ \A h \in holders : NewFilesIn(s, t, h, field)
  <1> DEFINE t == New(s, class, holders, field, fails)
             p == Malloc(InUse(s))
             more == {Reference(h, field, p) : h \in holders}
  <1>1. CASE Fails(s, class, fails)
    <2>1. t.class = s.class /\ t.refs = s.refs
      BY <1>1 DEF New
    <2> HIDE DEF t
    <2>2. KeepsFiles(s, t) /\ \A h \in holders : NewFilesIn(s, t, h, field)
      BY <2>1 DEF KeepsFiles, NewFilesIn
    <2> QED  BY <2>1, <2>2 DEF t
  <1>2. CASE ~Fails(s, class, fails)
    <2>1. t.class = [s.class EXCEPT ![p] = class] /\ t.refs = s.refs \cup more
      BY <1>2 DEF New
    <2>2. p \in Address /\ p \notin InUse(s)
      BY <1>2, HeapAssumption DEF Fails, InUse
    <2>3. \A h \in holders : Reference(h, field, p) \in more
      OBVIOUS
    <2> HIDE DEF t, p, more
    <2>4. \A a \in Address : t.class[a] = IF a = p THEN class ELSE s.class[a]
      BY <2>1, <2>2
    <2>5. s.class[p] = "free" /\ t.class \in [Address -> Class \cup {"free"}]
      BY <2>1, <2>2 DEF InUse
    <2>6. KeepsFiles(s, t)
      BY <2>1, <2>4, <2>5 DEF KeepsFiles
    <2>7. \A h \in holders : NewFilesIn(s, t, h, field)
      BY <2>1, <2>3, <2>4 DEF NewFilesIn
    <2>8. class # "FormatFile" => \A a \in Address : t.class[a] = "FormatFile" => s.class[a] = "FormatFile"
      BY <2>4
    <2> QED  BY <2>5, <2>6, <2>7, <2>8 DEF t
  <1> QED  BY <1>1, <1>2

\* What several steps of that kind leave alone: all format files and who holds them,
\* and none but the first step makes one.
Grows(s, t, holder, field) ==
    /\ t.class \in [Address -> Class \cup {"free"}]
    /\ KeepsFiles(s, t)
    /\ NewFilesIn(s, t, holder, field)

\* One more object that is not a format file.
LEMMA GrowsOn ==
    ASSUME NEW s, NEW t, NEW holder, NEW field, Grows(s, t, holder, field),
           NEW class \in Class \ {"FormatFile"}, NEW holders, NEW in, NEW fails
    PROVE  Grows(s, New(t, class, holders, in, fails), holder, field)
  <1> DEFINE u == New(t, class, holders, in, fails)
  <1>1. /\ u.class \in [Address -> Class \cup {"free"}]
        /\ KeepsFiles(t, u)
        /\ \A a \in Address : u.class[a] = "FormatFile" => t.class[a] = "FormatFile"
    BY NewKeepsFiles DEF Grows
  <1> HIDE DEF u
  <1>2. KeepsFiles(s, u)
    BY <1>1 DEF Grows, KeepsFiles
  <1>3. NewFilesIn(s, u, holder, field)
    <2> SUFFICES ASSUME NEW a \in Address, u.class[a] = "FormatFile", s.class[a] # "FormatFile"
                 PROVE  Reference(holder, field, a) \in u.refs
      BY DEF NewFilesIn
    <2>1. t.class[a] = "FormatFile"
      BY <1>1
    <2>2. Reference(holder, field, a) \in t.refs
      BY <2>1 DEF Grows, NewFilesIn
    <2>3. Reference(holder, field, a).to = a
      BY DEF Reference
    <2> QED  BY <1>1, <2>1, <2>2, <2>3 DEF KeepsFiles
  <1>4. Grows(s, u, holder, field)
    BY <1>1, <1>2, <1>3 DEF Grows
  <1> QED  BY <1>4 DEF u

\* One more string.
LEMMA StringGrows ==
    ASSUME NEW s, NEW t, NEW holder, NEW field, Grows(s, t, holder, field), NEW holders, NEW in, NEW fails
    PROVE  Grows(s, NewString(t, holders, in, fails), holder, field)
  <1>1. "String" \in Class \ {"FormatFile"}
    BY DEF Class
  <1> QED  BY <1>1, GrowsOn DEF NewString

\* Nothing grows.
LEMMA GrowsNot ==
    ASSUME NEW s, s.class \in [Address -> Class \cup {"free"}], NEW holder, NEW field
    PROVE  Grows(s, s, holder, field)
  BY DEF Grows, KeepsFiles, NewFilesIn

\* A new format file is in the field it is made for.
LEMMA FileGrows ==
    ASSUME NEW s, s.class \in [Address -> Class \cup {"free"}], NEW holder, NEW field, NEW fails
    PROVE  Grows(s, NewFormatFile(s, holder, field, fails), holder, field)
  <1> DEFINE x == Place(s, "FormatFile", fails)
             made == New(s, "FormatFile", {holder}, field, fails)
             path == NewString(made, x, "format_file_path", fails)
             chunk == NewString(path, x, "_chunk", fails)
             key == NewString(chunk, x, "_key", fails)
             value == NewString(key, x, "_value", fails)
  <1> HIDE DEF x
  <1>1. Grows(s, made, holder, field)
    <2>1. "FormatFile" \in Class
      BY DEF Class
    <2> QED  BY <2>1, NewKeepsFiles DEF Grows
  <1> HIDE DEF made
  <1>2. Grows(s, path, holder, field)
    BY <1>1, StringGrows
  <1> HIDE DEF path
  <1>3. Grows(s, chunk, holder, field)
    BY <1>2, StringGrows
  <1> HIDE DEF chunk
  <1>4. Grows(s, key, holder, field)
    BY <1>3, StringGrows
  <1> HIDE DEF key
  <1>5. Grows(s, value, holder, field)
    BY <1>4, StringGrows
  <1> HIDE DEF value
  <1>6. NewFormatFile(s, holder, field, fails) = IF x = {} THEN made ELSE value
    BY DEF NewFormatFile, x, made, path, chunk, key, value
  <1> QED  BY <1>1, <1>5, <1>6

\* Steps one behind the other.
LEMMA KeepsInTurn ==
    ASSUME NEW s, NEW t, NEW u, KeepsFiles(s, t), KeepsFiles(t, u)
    PROVE  KeepsFiles(s, u)
  BY DEF KeepsFiles

\* A new parser.
LEMMA ParserKeepsFiles ==
    ASSUME NEW s, s.class \in [Address -> Class \cup {"free"}], NEW fails
    PROVE  KeepsFiles(s, NewParser(s, fails))
  <1> DEFINE p == Place(s, "Parser", fails)
             made == New(s, "Parser", {Client}, "held", fails)
             input == NewString(made, p, "input", fails)
             field == NewString(input, p, "field", fails)
             lookahead == NewString(field, p, "lookahead", fails)
             all == NewString(lookahead, p, "trailing_space", fails)
             Keeps(t) == Grows(s, t, Client, "held")
  <1> HIDE DEF p
  <1>1. Keeps(made)
    <2>1. "Parser" \in Class \ {"FormatFile"}
      BY DEF Class
    <2> QED  BY <2>1, GrowsNot, GrowsOn
  <1> HIDE DEF made
  <1>2. Keeps(input)
    BY <1>1, StringGrows
  <1> HIDE DEF input
  <1>3. Keeps(field)
    BY <1>2, StringGrows
  <1> HIDE DEF field
  <1>4. Keeps(lookahead)
    BY <1>3, StringGrows
  <1> HIDE DEF lookahead
  <1>5. Keeps(all)
    BY <1>4, StringGrows
  <1> HIDE DEF all
  <1> QED  BY <1>5 DEF NewParser, p, made, input, field, lookahead, all, Grows

\* A new column.
LEMMA ColumnKeepsFiles ==
    ASSUME NEW s, s.class \in [Address -> Class \cup {"free"}], NEW f, NEW fails
    PROVE  KeepsFiles(s, AddColumn(s, f, fails))
  <1> DEFINE array == WithColumns(s, f, fails)
             column == Place(array, "Column", fails)
             made == New(array, "Column", Held(array, {f}, "columns"), "column", fails)
             named == NewString(made, column, "column_name", fails)
             Keeps(t) == Grows(s, t, Client, "held")
  <1>0. {"Columns", "Column"} \subseteq Class \ {"FormatFile"}
    BY DEF Class
  <1>1. Keeps(array)
    BY <1>0, GrowsNot, GrowsOn DEF WithColumns
  <1> HIDE DEF array
  <1>2. Keeps(made)
    BY <1>0, <1>1, GrowsOn
  <1> HIDE DEF made
  <1>3. Keeps(named)
    BY <1>2, StringGrows
  <1> HIDE DEF named
  <1>4. AddColumn(s, f, fails) = IF column = {} THEN made ELSE named
    BY DEF AddColumn, array, column, made, named
  <1> QED  BY <1>2, <1>3, <1>4 DEF Grows

\* A new validation.
LEMMA ValidationKeepsFiles ==
    ASSUME NEW s, s.class \in [Address -> Class \cup {"free"}], NEW c, NEW arguments, NEW fails
    PROVE  KeepsFiles(s, AddValidation(s, c, arguments, fails))
  <1> DEFINE array == WithValidations(s, c, fails)
             validation == Place(array, "Validation", fails)
             made == New(array, "Validation", Held(array, {c}, "validations"), "validation", fails)
             named == NewString(made, validation, "validation_name", fails)
             more == New(named, "Arguments", validation, "arguments", fails)
             Keeps(t) == Grows(s, t, Client, "held")
  <1>0. {"Validations", "Validation", "Arguments"} \subseteq Class \ {"FormatFile"}
    BY DEF Class
  <1>1. Keeps(array)
    BY <1>0, GrowsNot, GrowsOn DEF WithValidations
  <1> HIDE DEF array
  <1>2. Keeps(made)
    BY <1>0, <1>1, GrowsOn
  <1> HIDE DEF made
  <1>3. Keeps(named)
    BY <1>2, StringGrows
  <1> HIDE DEF named
  <1>4. Keeps(more)
    BY <1>0, <1>3, GrowsOn
  <1> HIDE DEF more
  <1>5. AddValidation(s, c, arguments, fails)
          = IF validation = {} THEN made ELSE IF arguments THEN more ELSE named
    BY DEF AddValidation, array, validation, made, named, more
  <1> QED  BY <1>2, <1>3, <1>4, <1>5 DEF Grows

\* A string that goes, with the pointer to it.
LEMMA StringGoes ==
    ASSUME NEW s, Good(s), NEW a, NEW field, ClassOf(field) = {"String"},
           NEW t, t.class = [b \in Address |-> IF b \in Held(s, {a}, field) THEN "free" ELSE s.class[b]],
           \A r \in s.refs : r.from \notin Held(s, {a}, field) /\ ~(r.from = a /\ r.field = field)
                             /\ s.class[r.to] # "String" => r \in t.refs
    PROVE  KeepsFiles(s, t) /\ t.class \in [Address -> Class \cup {"free"}]
  <1> DEFINE gone == Held(s, {a}, field)
  <1>1. \A b \in gone : b \in Address /\ s.class[b] = "String"
    BY HeldIsThere
  <1> HIDE DEF gone
  <1>2. s.class \in [Address -> Class \cup {"free"}]
    BY DEF Good, Typed
  <1>3. ASSUME NEW b \in Address, s.class[b] = "FormatFile"
        PROVE  t.class[b] = "FormatFile" /\ \A r \in s.refs : r.to = b => r \in t.refs
    <2>1. b \notin gone
      BY <1>1, <1>3
    <2>2. t.class[b] = "FormatFile"
      BY <1>3, <2>1 DEF gone
    <2>3. ASSUME NEW r \in s.refs, r.to = b  PROVE r \in t.refs
      <3>1. r.from \notin gone
        BY <1>1, LeavesHoldNothing
      <3>2. s.class[r.to] \in ClassOf(r.field)
        BY DEF Good, Intact
      <3>3. r.field # field
        BY <1>3, <2>3, <3>2
      <3> QED  BY <1>3, <2>3, <3>1, <3>3 DEF gone
    <2> QED  BY <2>2, <2>3
  <1>4. t.class = [b \in Address |-> IF b \in gone THEN "free" ELSE s.class[b]]
    BY DEF gone
  <1>5. t.class \in [Address -> Class \cup {"free"}]
    BY <1>2, <1>4
  <1> QED  BY <1>3, <1>5 DEF KeepsFiles

\* A copy of a string in the place of another.
LEMMA CopyKeepsFiles ==
    ASSUME NEW s, Good(s), NEW a, NEW field, ClassOf(field) = {"String"}, NEW fails
    PROVE  KeepsFiles(s, CopyInto(s, a, field, fails))
  <1> DEFINE u == Unset(Free(s, Held(s, {a}, field)), a, field)
             t == NewString(u, {a}, field, fails)
  <1>1. KeepsFiles(s, u) /\ u.class \in [Address -> Class \cup {"free"}]
    <2>1. /\ u.class = [b \in Address |-> IF b \in Held(s, {a}, field) THEN "free" ELSE s.class[b]]
          /\ u.refs = {r \in s.refs : r.from \notin Held(s, {a}, field) /\ (r.from # a \/ r.field # field)}
      BY DEF Unset, Free
    <2> HIDE DEF u
    <2> QED  BY <2>1, StringGoes
  <1> HIDE DEF u
  <1>2. KeepsFiles(u, t)
    <2>1. "String" \in Class
      BY DEF Class
    <2> QED  BY <1>1, <2>1, NewKeepsFiles DEF NewString
  <1> HIDE DEF t
  <1>3. KeepsFiles(s, t)
    BY <1>1, <1>2, KeepsInTurn
  <1> QED  BY <1>3 DEF CopyInto, t, u

\* A string that changes hands.
LEMMA SetKeepsFiles ==
    ASSUME NEW s, Good(s), NEW f, NEW string \in Mine(s, "String"), NEW field \in Strings \cup {"escape"}
    PROVE  KeepsFiles(s, Set(Free(GiveAway(s, string), Held(s, {f}, field)), f, field, string))
  <1> DEFINE t == Set(Free(GiveAway(s, string), Held(s, {f}, field)), f, field, string)
             given == Reference(Client, "held", string)
  <1>1. ClassOf(field) = {"String"}
    BY DEF ClassOf, Strings
  <1>2. s.class[string] = "String" /\ given.to = string
    BY DEF Mine, Objects, Reference
  <1>3. /\ t.class = [b \in Address |-> IF b \in Held(s, {f}, field) THEN "free" ELSE s.class[b]]
        /\ t.refs = {r \in {q \in s.refs \ {given} : q.from \notin Held(s, {f}, field)} : r.from # f \/ r.field # field}
                    \cup {Reference(f, field, string)}
    BY DEF Set, Unset, Free, GiveAway
  <1> HIDE DEF t, given
  <1>4. KeepsFiles(s, t)
    BY <1>1, <1>2, <1>3, StringGoes
  <1> QED  BY <1>4 DEF t

\* A format file with a format points back to it, and the others are those of the
\* client and the null one.
PointersOK ==
    /\ pointers \subseteq [file : Objects(heap, "FormatFile") \cup {NullFile}, format : Address]
    /\ \A p \in pointers :
          p.file \in Address \ Mine(heap, "FormatFile") => Reference(p.format, "format_file", p.file) \in heap.refs

\* A pointer to a format of a format file is made of its parts.
LEMMA PointerParts ==
    ASSUME NEW file, NEW format
    PROVE  Pointer(file, format).file = file /\ Pointer(file, format).format = format
  BY DEF Pointer

\* A format file of nobody but a format stays so.
LEMMA PointerStays ==
    ASSUME Good(heap), PointersOK, NEW p \in pointers, NEW t, p.file \in Address,
           t.class[p.file] = "FormatFile", p.file \notin Mine(t, "FormatFile"),
           \A r \in heap.refs : r.to = p.file => r \in t.refs
    PROVE  Reference(p.format, "format_file", p.file) \in t.refs
  <1>1. NullFile \notin Address
    BY HeapAssumption
  <1>2. p.file \in Objects(heap, "FormatFile")
    BY <1>1 DEF PointersOK
  <1>3. p.file \notin Mine(heap, "FormatFile")
    <2> SUFFICES ASSUME p.file \in Mine(heap, "FormatFile")  PROVE FALSE
      OBVIOUS
    <2>1. Reference(Client, "held", p.file) \in heap.refs
      BY DEF Mine, Held
    <2>2. Reference(Client, "held", p.file).to = p.file
      BY DEF Reference
    <2>3. Reference(Client, "held", p.file) \in t.refs
      BY <2>1, <2>2
    <2> QED  BY <2>3 DEF Mine, Held, Objects
  <1>4. Reference(p.format, "format_file", p.file) \in heap.refs
    BY <1>3 DEF PointersOK
  <1>5. Reference(p.format, "format_file", p.file).to = p.file
    BY DEF Reference
  <1> QED  BY <1>4, <1>5

\* No pointer is stored, and the format files stay.
LEMMA PointersKept ==
    ASSUME Inv, PointersOK, pointers' \subseteq pointers, KeepsFiles(heap, heap')
    PROVE  PointersOK'
  <1>1. Good(heap)
    BY DEF Inv
  <1> SUFFICES ASSUME NEW p \in pointers'
               PROVE  /\ p \in [file : Objects(heap', "FormatFile") \cup {NullFile}, format : Address]
                      /\ p.file \in Address \ Mine(heap', "FormatFile") =>
                           Reference(p.format, "format_file", p.file) \in heap'.refs
    BY DEF PointersOK
  <1>2. p \in pointers /\ p \in [file : Objects(heap, "FormatFile") \cup {NullFile}, format : Address]
    BY DEF PointersOK
  <1>3. Objects(heap, "FormatFile") \subseteq Objects(heap', "FormatFile")
    BY DEF Objects, KeepsFiles
  <1>4. p \in [file : Objects(heap', "FormatFile") \cup {NullFile}, format : Address]
    BY <1>2, <1>3
  <1>5. ASSUME p.file \in Address \ Mine(heap', "FormatFile")
        PROVE  Reference(p.format, "format_file", p.file) \in heap'.refs
    <2>1. heap.class[p.file] = "FormatFile"
      BY <1>2, <1>5, HeapAssumption DEF Objects
    <2>2. heap'.class[p.file] = "FormatFile" /\ \A r \in heap.refs : r.to = p.file => r \in heap'.refs
      BY <1>5, <2>1 DEF KeepsFiles
    <2> QED  BY <1>1, <1>2, <1>5, <2>2, PointerStays
  <1> QED  BY <1>4, <1>5

\* free() of an object of the client takes the pointers of the format files with it,
\* and no format without the format file that points to it.
LEMMA PointersFreed ==
    ASSUME Inv, PointersOK, FreeHeld
    PROVE  PointersOK'
  <1>1. Good(heap)
    BY DEF Inv
  <1>2. PICK a \in Held(heap, {Client}, "held") : heap' = Free(GiveAway(heap, a), FreeObject(heap, a))
    BY DEF FreeHeld
  <1> DEFINE gone == FreeObject(heap, a)
             given == Reference(Client, "held", a)
  <1>3. Whole(heap, gone, {a})
    BY <1>1, WholeObject
  <1>4. /\ heap'.class = [b \in Address |-> IF b \in gone THEN "free" ELSE heap.class[b]]
        /\ heap'.refs = {r \in heap.refs \ {given} : r.from \notin gone}
    BY <1>2 DEF Free, GiveAway
  <1>5. given.to = a
    BY DEF Reference
  <1> HIDE DEF gone, given
  <1>6. ASSUME NEW b \in Address, heap'.class[b] = "FormatFile"
        PROVE  b \notin gone /\ \A r \in heap.refs : r.to = b => r \in heap'.refs
    <2>1. b \notin gone
      BY <1>4, <1>6
    <2>2. ASSUME NEW r \in heap.refs, r.to = b  PROVE r \in heap'.refs
      <3>1. r.from \notin gone
        BY <1>3, <2>1, <2>2 DEF Whole
      <3>2. r # given
        BY <1>3, <1>5, <2>1, <2>2 DEF Whole
      <3> QED  BY <1>4, <3>1, <3>2
    <2> QED  BY <2>1, <2>2
  <1> SUFFICES ASSUME NEW p \in pointers'
               PROVE  /\ p \in [file : Objects(heap', "FormatFile") \cup {NullFile}, format : Address]
                      /\ p.file \in Address \ Mine(heap', "FormatFile") =>
                           Reference(p.format, "format_file", p.file) \in heap'.refs
    BY DEF PointersOK
  <1>7. p \in pointers /\ p.file \in Objects(heap', "FormatFile") \cup {NullFile}
    BY DEF FreeHeld, Remaining
  <1>8. p \in [file : Objects(heap', "FormatFile") \cup {NullFile}, format : Address]
    BY <1>7 DEF PointersOK
  <1>9. ASSUME p.file \in Address \ Mine(heap', "FormatFile")
        PROVE  Reference(p.format, "format_file", p.file) \in heap'.refs
    <2>1. heap'.class[p.file] = "FormatFile"
      BY <1>7, <1>9, HeapAssumption DEF Objects
    <2> QED  BY <1>1, <1>6, <1>7, <1>9, <2>1, PointerStays
  <1> QED  BY <1>8, <1>9

\* read_file() frees the old format file and stores the format in the new one, or in
\* the null one.
LEMMA PointersStored ==
    ASSUME Inv, PointersOK, ReadFile
    PROVE  PointersOK'
  <1>1. Good(heap)
    BY DEF Inv
  <1>2. PICK f \in Mine(heap, "Format"), fails \in Shortage(heap, {"FormatFile", "String"}) :
          /\ heap' = ReplaceFormatFile(heap, f, fails)
          /\ pointers' = Pointing(Remaining(heap'), FileOf(heap', f), f)
    BY DEF ReadFile
  <1> DEFINE files == Held(heap, {f}, "format_file")
             gone == FreeFormatFile(heap, files)
             u == Unset(Free(heap, gone), f, "format_file")
  <1>3. f \in Objects(heap, "Format") /\ f \in Address
    BY <1>1, <1>2, MineIsHeld DEF Objects
  <1>4. Good(heap')
    BY <1>1, <1>2, <1>3, ReplaceFormatFileKeepsGood
  <1>5. files \in SUBSET Objects(heap, "FormatFile")
    <2>1. ClassOf("format_file") = {"FormatFile"}
      BY DEF ClassOf
    <2> QED  BY <1>1, <2>1, HeldIsThere DEF Objects
  <1>6. Whole(heap, gone, files)
    BY <1>1, <1>5, WholeFormatFile
  <1>7. /\ u.class = [b \in Address |-> IF b \in gone THEN "free" ELSE heap.class[b]]
        /\ u.refs = {r \in heap.refs : r.from \notin gone /\ (r.from # f \/ r.field # "format_file")}
    BY DEF Unset, Free
  <1>8. heap' = NewFormatFile(u, f, "format_file", fails)
    BY <1>2 DEF ReplaceFormatFile
  <1>9. files \subseteq gone /\ \A r \in heap.refs : r.from = f /\ r.field = "format_file" => r.to \in files
    BY <1>1, <1>6, HeldMember DEF Whole, Good
  <1> HIDE DEF u, gone, files
  <1>10. heap.class \in [Address -> Class \cup {"free"}]
    BY <1>1 DEF Good, Typed
  <1>11. u.class \in [Address -> Class \cup {"free"}]
    BY <1>7, <1>10
  <1>12. Grows(u, heap', f, "format_file")
    BY <1>8, <1>11, FileGrows
  <1> DEFINE x == FileOf(heap', f)
  <1>13. x \in Address => Reference(f, "format_file", x) \in heap'.refs
    BY HeapAssumption DEF FileOf, Held
  <1>14. \A b : Reference(f, "format_file", b) \in heap'.refs => b = x
    <2> SUFFICES ASSUME NEW b, Reference(f, "format_file", b) \in heap'.refs  PROVE b = x
      OBVIOUS
    <2> DEFINE r == Reference(f, "format_file", b)
    <2>1. r.from = f /\ r.field = "format_file" /\ r.to = b
      BY DEF Reference
    <2>2. b \in Address
      BY <1>4, <2>1, ReferenceParts DEF Good
    <2>3. b \in Held(heap', {f}, "format_file")
      BY <2>2 DEF Held
    <2>4. x \in Held(heap', {f}, "format_file")
      BY <2>3 DEF FileOf
    <2>5. Reference(f, "format_file", x) \in heap'.refs
      BY <2>4 DEF Held
    <2> DEFINE q == Reference(f, "format_file", x)
    <2>6. q.from = f /\ q.field = "format_file" /\ q.to = x
      BY DEF Reference
    <2>7. r \in heap'.refs /\ q \in heap'.refs /\ "format_file" \notin Many
      BY <2>5 DEF Many
    <2> HIDE DEF r, q
    <2>8. r = q
      BY <1>4, <2>1, <2>6, <2>7 DEF Good, Typed
    <2> QED  BY <2>1, <2>6, <2>8
  <1>15. x \in Objects(heap', "FormatFile") \cup {NullFile}
    <2> SUFFICES ASSUME x # NullFile  PROVE x \in Objects(heap', "FormatFile")
      OBVIOUS
    <2>1. x \in Held(heap', {f}, "format_file")
      BY DEF FileOf
    <2>2. ClassOf("format_file") = {"FormatFile"}
      BY DEF ClassOf
    <2> QED  BY <1>4, <2>1, <2>2, HeldIsThere DEF Objects
  <1> HIDE DEF x
  <1> SUFFICES ASSUME NEW p \in pointers'
               PROVE  /\ p \in [file : Objects(heap', "FormatFile") \cup {NullFile}, format : Address]
                      /\ p.file \in Address \ Mine(heap', "FormatFile") =>
                           Reference(p.format, "format_file", p.file) \in heap'.refs
    BY DEF PointersOK
  <1>16. p = Pointer(x, f) \/ (p \in Remaining(heap') /\ p.file # x)
    BY <1>2 DEF Pointing, x
  <1>17. CASE p = Pointer(x, f)
    <2>1. p.file = x /\ p.format = f
      BY <1>17, PointerParts
    <2>2. p \in [file : Objects(heap', "FormatFile") \cup {NullFile}, format : Address]
      BY <1>3, <1>15, <1>17 DEF Pointer
    <2> QED  BY <1>13, <2>1, <2>2
  <1>18. CASE p \in Remaining(heap') /\ p.file # x
    <2>1. p \in pointers /\ p.file \in Objects(heap', "FormatFile") \cup {NullFile}
      BY <1>18 DEF Remaining
    <2>2. p \in [file : Objects(heap', "FormatFile") \cup {NullFile}, format : Address]
      BY <2>1 DEF PointersOK
    <2>3. ASSUME p.file \in Address \ Mine(heap', "FormatFile")
          PROVE  Reference(p.format, "format_file", p.file) \in heap'.refs
      <3>1. heap'.class[p.file] = "FormatFile"
        BY <2>1, <2>3, HeapAssumption DEF Objects
      <3>2. u.class[p.file] = "FormatFile"
        BY <1>12, <1>14, <1>18, <2>3, <3>1 DEF Grows, NewFilesIn
      <3>3. p.file \notin gone
        BY <1>7, <2>3, <3>2
      <3>4. ASSUME NEW r \in heap.refs, r.to = p.file  PROVE r \in heap'.refs
        <4>1. r.from \notin gone
          BY <1>6, <3>3, <3>4 DEF Whole
        <4>2. ~(r.from = f /\ r.field = "format_file")
          BY <1>9, <3>3, <3>4
        <4>3. r \in u.refs
          BY <1>7, <4>1, <4>2
        <4> QED  BY <1>12, <2>3, <3>2, <3>4, <4>3 DEF Grows, KeepsFiles
      <3> QED  BY <1>1, <2>1, <2>3, <3>1, <3>4, PointerStays
    <2> QED  BY <2>2, <2>3
  <1> QED  BY <1>16, <1>17, <1>18

\* Every step keeps the pointers right.
LEMMA PointersStep ==
    ASSUME Inv, PointersOK, [Next]_vars
    PROVE  PointersOK'
  <1>0. Good(heap) /\ heap.class \in [Address -> Class \cup {"free"}] /\ KeepsFiles(heap, heap)
    BY DEF Inv, Good, Typed, KeepsFiles
  <1>1. CASE pointers' = pointers /\ heap' = heap
    BY <1>0, <1>1, PointersKept
  <1>2. CASE MakeString \/ MakeFormat \/ MakeValidator
    <2>1. PICK class \in {"String", "Format", "Validator"} :
            \E fails : heap' = New(heap, class, {Client}, "held", fails)
      BY <1>2 DEF MakeString, MakeFormat, MakeValidator, NewString
    <2>2. class \in Class
      BY DEF Class
    <2>3. KeepsFiles(heap, heap')
      BY <1>0, <2>1, <2>2, NewKeepsFiles
    <2>4. pointers' = pointers
      BY <1>2 DEF MakeString, MakeFormat, MakeValidator
    <2> QED  BY <2>3, <2>4, PointersKept
  <1>3. CASE MakeFormatFile
    <2>1. PICK fails : /\ heap' = NewFormatFile(heap, Client, "held", fails)
                       /\ pointers' = {p \in pointers : Fails(heap, "FormatFile", fails) => p.file # NullFile}
      BY <1>3 DEF MakeFormatFile
    <2>2. KeepsFiles(heap, heap')
      BY <1>0, <2>1, FileGrows DEF Grows
    <2> QED  BY <2>1, <2>2, PointersKept
  <1>4. CASE MakeParser
    <2>1. heap' = heap \/ \E fails : heap' = NewParser(heap, fails)
      BY <1>4 DEF MakeParser
    <2>2. KeepsFiles(heap, heap')
      BY <1>0, <2>1, ParserKeepsFiles
    <2>3. pointers' = pointers
      BY <1>4 DEF MakeParser
    <2> QED  BY <2>2, <2>3, PointersKept
  <1>5. CASE SetString
    <2>1. PICK f \in Mine(heap, "Format"), string \in Mine(heap, "String"), field \in Strings \cup {"escape"} :
            heap' = Set(Free(GiveAway(heap, string), Held(heap, {f}, field)), f, field, string)
      BY <1>5 DEF SetString
    <2>2. KeepsFiles(heap, heap')
      BY <1>0, <2>1, SetKeepsFiles
    <2>3. pointers' = pointers
      BY <1>5 DEF SetString
    <2> QED  BY <2>2, <2>3, PointersKept
  <1>6. CASE SetFormatFilePath \/ SetParserString \/ ReadSetting
    <2>0. \E a, fails : \E field \in Strings \cup {"escape", "format_file_path"} : heap' = CopyInto(heap, a, field, fails)
      <3>1. CASE SetFormatFilePath
        BY <3>1 DEF SetFormatFilePath
      <3>2. CASE SetParserString
        BY <3>2, Zenon DEF SetParserString, Strings
      <3>3. CASE ReadSetting
        BY <3>3 DEF ReadSetting
      <3> QED  BY <1>6, <3>1, <3>2, <3>3
    <2>1. PICK a, fails : \E field \in Strings \cup {"escape", "format_file_path"} : heap' = CopyInto(heap, a, field, fails)
      BY <2>0
    <2>5. PICK field \in Strings \cup {"escape", "format_file_path"} : heap' = CopyInto(heap, a, field, fails)
      BY <2>1
    <2>2. ClassOf(field) = {"String"}
      BY <2>5 DEF ClassOf, Strings
    <2>3. KeepsFiles(heap, heap')
      BY <1>0, <2>5, <2>2, CopyKeepsFiles
    <2>4. pointers' = pointers
      BY <1>6 DEF SetFormatFilePath, SetParserString, ReadSetting
    <2> QED  BY <2>3, <2>4, PointersKept
  <1>7. CASE ApplyFormat
    <2>1. PICK p \in Mine(heap, "Parser"), fails \in Shortage(heap, {"String"}) :
            heap' = CopyInto(CopyInto(heap, p, "delimiter", fails), p, "quote", fails)
      BY <1>7 DEF ApplyFormat
    <2> DEFINE t == CopyInto(heap, p, "delimiter", fails)
    <2>2. /\ ClassOf("delimiter") = {"String"} /\ ClassOf("quote") = {"String"}
          /\ "delimiter" \in Fields("Parser") /\ "delimiter" \notin Many
      BY DEF ClassOf, Fields, Strings, Many
    <2>3. p \in InUse(heap) /\ heap.class[p] = "Parser"
      BY <1>0, MineIsHeld DEF Objects
    <2>4. Good(t) /\ KeepsFiles(heap, t)
      BY <1>0, <2>2, <2>3, CopyIntoKeepsGood, CopyKeepsFiles
    <2>5. heap' = CopyInto(t, p, "quote", fails)
      BY <2>1
    <2> HIDE DEF t
    <2>6. KeepsFiles(heap, heap')
      BY <2>2, <2>4, <2>5, CopyKeepsFiles, KeepsInTurn
    <2>7. pointers' = pointers
      BY <1>7 DEF ApplyFormat
    <2> QED  BY <2>6, <2>7, PointersKept
  <1>8. CASE MoreColumns
    <2>1. \E f, fails : heap' = AddColumn(heap, f, fails)
      BY <1>8 DEF MoreColumns
    <2>2. pointers' = pointers
      BY <1>8 DEF MoreColumns
    <2> QED  BY <1>0, <2>1, <2>2, ColumnKeepsFiles, PointersKept
  <1>9. CASE MoreValidations
    <2>1. \E c, arguments, fails : heap' = AddValidation(heap, c, arguments, fails)
      BY <1>9 DEF MoreValidations
    <2>2. pointers' = pointers
      BY <1>9 DEF MoreValidations
    <2> QED  BY <1>0, <2>1, <2>2, ValidationKeepsFiles, PointersKept
  <1>10. CASE ReadIntoFormat
    <2>1. PICK x \in Mine(heap, "FormatFile"), f \in Mine(heap, "Format") : pointers' = Pointing(pointers, x, f)
      BY <1>10 DEF ReadIntoFormat
    <2>2. heap' = heap
      BY <1>10 DEF ReadIntoFormat
    <2>3. x \in Objects(heap, "FormatFile") /\ f \in Address
      BY <1>0, MineIsHeld DEF Objects
    <2>4. Pointer(x, f) \in [file : Objects(heap, "FormatFile") \cup {NullFile}, format : Address]
      BY <2>3 DEF Pointer
    <2>5. \A p \in pointers' : p \in pointers \/ p = Pointer(x, f)
      BY <2>1 DEF Pointing
    <2>6. Pointer(x, f).file = x
      BY PointerParts
    <2> QED  BY <2>2, <2>4, <2>5, <2>6 DEF PointersOK
  <1>11. CASE ReadTooEarly \/ EndReading \/ UNCHANGED vars
    BY <1>1, <1>11 DEF ReadTooEarly, EndReading, vars
  <1> QED  BY <1>2, <1>3, <1>4, <1>5, <1>6, <1>7, <1>8, <1>9, <1>10, <1>11, PointersFreed, PointersStored DEF Next

\* The pointers are right at any time.
LEMMA PointersAlways == Spec => []PointersOK
  <1>1. Init => PointersOK
    BY DEF Init, PointersOK
  <1>2. Inv /\ PointersOK /\ [Next]_vars => PointersOK'
    BY PointersStep
  <1> QED  BY <1>1, <1>2, InvAlways, PTL DEF Spec

\* The variables are what they are declared to be: a field is a single pointer.
THEOREM TypeCorrect == Spec => []TypeOK
  <1>1. Inv /\ PointersOK => TypeOK
    BY DEF Inv, HeapTyped, PointersOK, TypeOK
  <1> QED  BY <1>1, InvAlways, PointersAlways, PTL

\* free() of any object leaves no pointer to what it frees, and a format file with a
\* format points back to it.
THEOREM NoneDangles == Spec => []NoDangling
  <1>1. Inv /\ PointersOK => NoDangling
    BY DEF Inv, Good, PointersOK, NoDangling
  <1> QED  BY <1>1, InvAlways, PointersAlways, PTL

\* Nothing has two holders, so that nothing is freed twice.
THEOREM EachHeldOnce == Spec => []OneHolder
  <1>1. Inv => OneHolder
    BY DEF Inv, Good, OneHolder
  <1> QED  BY <1>1, InvAlways, PTL

\* Nothing is lost unless an array could not be made.
THEOREM NoneLost == Spec => []NothingLost
  <1>1. Inv => NothingLost
    BY DEF Inv, Good, NothingLost
  <1> QED  BY <1>1, InvAlways, PTL

----------------------------------------------------------------------------
(* The null objects *)

Shaped(s) == s.class \in [Address -> Class \cup {"free"}]

\* No format and no format file is made, and the client gives no format file away.
NoneMade(s, t) ==
    /\ Shaped(t)
    /\ \A a \in Address :
         t.class[a] \in {"Format", "FormatFile"} =>
            /\ t.class[a] = s.class[a]
            /\ Reference(Client, "held", a) \in s.refs => Reference(Client, "held", a) \in t.refs

\* Before there is a format, the client holds all the format files.
Early(s) ==
    /\ Shaped(s)
    /\ \A a \in Address : /\ s.class[a] # "Format"
                          /\ s.class[a] = "FormatFile" => Reference(Client, "held", a) \in s.refs

\* A format is not made before class_PDTFormat() has set up what it needs.
NullInv == {"Format", "FormatFile"} \subseteq ready \/ Early(heap)

\* Nothing changes that when no format and no format file is made.
LEMMA EarlyStays ==
    ASSUME NEW s, NEW t, Early(s), NoneMade(s, t)
    PROVE  Early(t)
  BY DEF Early, NoneMade

\* alloc_X() of another class makes neither.
LEMMA OtherMakesNone ==
    ASSUME NEW s, Shaped(s), NEW class \in Class \ {"Format", "FormatFile"}, NEW holders, NEW field, NEW fails
    PROVE  NoneMade(s, New(s, class, holders, field, fails))
  <1> DEFINE t == New(s, class, holders, field, fails)
             p == Malloc(InUse(s))
             more == {Reference(h, field, p) : h \in holders}
  <1>1. CASE Fails(s, class, fails)
    <2>1. t.class = s.class /\ t.refs = s.refs
      BY <1>1 DEF New
    <2> HIDE DEF t
    <2>2. NoneMade(s, t)
      BY <2>1 DEF NoneMade, Shaped
    <2> QED  BY <2>2 DEF t
  <1>2. CASE ~Fails(s, class, fails)
    <2>1. t.class = [s.class EXCEPT ![p] = class] /\ t.refs = s.refs \cup more
      BY <1>2 DEF New
    <2>2. p \in Address
      BY <1>2, HeapAssumption DEF Fails, InUse
    <2> HIDE DEF t, p, more
    <2>3. Shaped(t)
      BY <2>1, <2>2 DEF Shaped
    <2>4. \A a \in Address : t.class[a] = IF a = p THEN class ELSE s.class[a]
      BY <2>1, <2>2 DEF Shaped
    <2>5. NoneMade(s, t)
      BY <2>1, <2>3, <2>4 DEF NoneMade
    <2> QED  BY <2>5 DEF t
  <1> QED  BY <1>1, <1>2

\* free() makes neither.
LEMMA FreeMakesNone ==
    ASSUME NEW s, Shaped(s), NEW gone \in SUBSET Address
    PROVE  NoneMade(s, Free(s, gone))
  <1> DEFINE t == Free(s, gone)
  <1>1. /\ t.class = [a \in Address |-> IF a \in gone THEN "free" ELSE s.class[a]]
        /\ t.refs = {r \in s.refs : r.from \notin gone}
    BY DEF Free
  <1>2. \A a : Reference(Client, "held", a).from \notin gone
    BY HeapAssumption DEF Reference
  <1> HIDE DEF t
  <1>3. Shaped(t)
    BY <1>1 DEF Shaped
  <1>4. NoneMade(s, t)
    BY <1>1, <1>2, <1>3 DEF NoneMade
  <1> QED  BY <1>4 DEF t

\* Several of these steps in turn make neither.
LEMMA NoneMadeInTurn ==
    ASSUME NEW s, NEW t, NEW u, NoneMade(s, t), NoneMade(t, u)
    PROVE  NoneMade(s, u)
  BY DEF NoneMade

\* A new string in a field makes neither.
LEMMA StringMakesNone ==
    ASSUME NEW s, NEW t, NoneMade(s, t), NEW holders, NEW field, NEW fails
    PROVE  NoneMade(s, NewString(t, holders, field, fails))
  <1>1. "String" \in Class \ {"Format", "FormatFile"} /\ Shaped(t)
    BY DEF Class, NoneMade
  <1>2. NoneMade(t, NewString(t, holders, field, fails))
    BY <1>1, OtherMakesNone DEF NewString
  <1> QED  BY <1>2, NoneMadeInTurn

\* Nor does a copy of a string.
LEMMA CopyIntoMakesNone ==
    ASSUME NEW s, Shaped(s), NEW a, NEW field, field # "held", NEW fails
    PROVE  NoneMade(s, CopyInto(s, a, field, fails))
  <1> DEFINE t == Free(s, Held(s, {a}, field))
             u == Unset(t, a, field)
  <1>1. NoneMade(s, t)
    BY FreeMakesNone DEF Held
  <1>2. u.class = t.class /\ u.refs = {r \in t.refs : r.from # a \/ r.field # field}
    BY DEF Unset
  <1>3. \A b : Reference(Client, "held", b).field # field
    BY DEF Reference
  <1> HIDE DEF t, u
  <1>4. NoneMade(s, u)
    BY <1>1, <1>2, <1>3 DEF NoneMade, Shaped
  <1>5. NoneMade(s, NewString(u, {a}, field, fails))
    BY <1>4, StringMakesNone
  <1> QED  BY <1>5 DEF CopyInto, t, u

\* A format file that the client makes is its own.
LEMMA FormatFileIsHeld ==
    ASSUME NEW s, Early(s), NEW fails
    PROVE  Early(NewFormatFile(s, Client, "held", fails))
  <1> DEFINE t == New(s, "FormatFile", {Client}, "held", fails)
             x == Place(s, "FormatFile", fails)
             p == Malloc(InUse(s))
  <1>1. Early(t)
    <2>1. CASE Fails(s, "FormatFile", fails)
      <3>1. t.class = s.class /\ t.refs = s.refs
        BY <2>1 DEF New
      <3> HIDE DEF t
      <3> QED  BY <3>1 DEF Early, Shaped
    <2>2. CASE ~Fails(s, "FormatFile", fails)
      <3>1. /\ t.class = [s.class EXCEPT ![p] = "FormatFile"]
            /\ t.refs = s.refs \cup {Reference(h, "held", p) : h \in {Client}}
        BY <2>2 DEF New
      <3>2. p \in Address /\ "FormatFile" \in Class
        BY <2>2, HeapAssumption DEF Fails, InUse, Class
      <3>3. Reference(Client, "held", p) \in t.refs
        BY <3>1
      <3> HIDE DEF t, p
      <3>4. \A a \in Address : t.class[a] = IF a = p THEN "FormatFile" ELSE s.class[a]
        BY <3>1, <3>2 DEF Early, Shaped
      <3>5. Shaped(t)
        BY <3>1, <3>2 DEF Early, Shaped
      <3> QED  BY <3>1, <3>3, <3>4, <3>5 DEF Early
    <2> QED  BY <2>1, <2>2
  <1> HIDE DEF t, x
  <1>2. NoneMade(t, t)
    BY <1>1 DEF Early, NoneMade
  <1> DEFINE path == NewString(t, x, "format_file_path", fails)
             chunk == NewString(path, x, "_chunk", fails)
             key == NewString(chunk, x, "_key", fails)
             value == NewString(key, x, "_value", fails)
  <1>3. NoneMade(t, path)
    BY <1>2, StringMakesNone
  <1> HIDE DEF path
  <1>4. NoneMade(t, chunk)
    BY <1>3, StringMakesNone
  <1> HIDE DEF chunk
  <1>5. NoneMade(t, key)
    BY <1>4, StringMakesNone
  <1> HIDE DEF key
  <1>6. NoneMade(t, value)
    BY <1>5, StringMakesNone
  <1> HIDE DEF value
  <1>7. Early(value)
    BY <1>1, <1>6, EarlyStays
  <1>8. NewFormatFile(s, Client, "held", fails) = IF x = {} THEN t ELSE value
    BY DEF NewFormatFile, t, x, path, chunk, key, value
  <1> QED  BY <1>1, <1>7, <1>8

\* A parser is made without either.
LEMMA ParserMakesNone ==
    ASSUME NEW s, Shaped(s), NEW fails
    PROVE  NoneMade(s, NewParser(s, fails))
  <1> DEFINE p == Place(s, "Parser", fails)
             made == New(s, "Parser", {Client}, "held", fails)
             input == NewString(made, p, "input", fails)
             field == NewString(input, p, "field", fails)
             lookahead == NewString(field, p, "lookahead", fails)
             all == NewString(lookahead, p, "trailing_space", fails)
  <1> HIDE DEF p
  <1>1. NoneMade(s, made)
    BY OtherMakesNone DEF Class
  <1> HIDE DEF made
  <1>2. NoneMade(s, input)
    BY <1>1, StringMakesNone
  <1> HIDE DEF input
  <1>3. NoneMade(s, field)
    BY <1>2, StringMakesNone
  <1> HIDE DEF field
  <1>4. NoneMade(s, lookahead)
    BY <1>3, StringMakesNone
  <1> HIDE DEF lookahead
  <1>5. NoneMade(s, all)
    BY <1>4, StringMakesNone
  <1> HIDE DEF all
  <1> QED  BY <1>5 DEF NewParser, p, made, input, field, lookahead, all

\* free() of an object of the client leaves the others to it.
LEMMA FreeHeldStaysEarly ==
    ASSUME NEW s, Good(s), Early(s), NEW a \in Held(s, {Client}, "held")
    PROVE  Early(Free(GiveAway(s, a), FreeObject(s, a)))
  <1> DEFINE gone == FreeObject(s, a)
             t == Free(GiveAway(s, a), gone)
  <1>1. a \in gone /\ gone \subseteq Address
    BY WholeObject DEF Whole
  <1>2. /\ t.class = [b \in Address |-> IF b \in gone THEN "free" ELSE s.class[b]]
        /\ t.refs = {r \in s.refs \ {Reference(Client, "held", a)} : r.from \notin gone}
    BY DEF Free, GiveAway
  <1>3. \A b : /\ Reference(Client, "held", b).from \notin gone
               /\ Reference(Client, "held", b) = Reference(Client, "held", a) => b = a
    BY <1>1, HeapAssumption DEF Reference
  <1> HIDE DEF t, gone
  <1>4. Shaped(t)
    BY <1>2 DEF Early, Shaped
  <1>5. Early(t)
    BY <1>1, <1>2, <1>3, <1>4 DEF Early
  <1> QED  BY <1>5 DEF t, gone

\* As long as the classes are not set up, a step is one that works without formats.
LEMMA NullStep ==
    ASSUME Inv, NullInv, [Next]_vars
    PROVE  NullInv'
  <1>0. "Format" \in DOMAIN Loads /\ {"Format", "FormatFile"} \subseteq Loads["Format"]
    BY DEF Loads
  <1>1. ready \subseteq ready'
    BY DEF Next, vars, Load, MakeString, MakeFormat, MakeValidator, MakeFormatFile, MakeParser, SetString,
           SetFormatFilePath, SetParserString, ApplyFormat, FreeHeld, MoreColumns, MoreValidations, ReadFile,
           ReadIntoFormat, ReadSetting, ReadTooEarly, EndReading
  <1>2. CASE {"Format", "FormatFile"} \subseteq ready
    BY <1>1, <1>2 DEF NullInv
  <1>3. CASE Early(heap)
    <2>0. Good(heap) /\ Shaped(heap) /\ reading \subseteq Objects(heap, "Format")
      BY <1>3 DEF Inv, Early, HeapTyped
    <2>1. Objects(heap, "Format") = {} /\ Mine(heap, "Format") = {} /\ reading = {}
      BY <1>3, <2>0 DEF Early, Objects, Mine
    <2>2. Target = {}
      BY <2>1 DEF Target
    <2>3. CASE UNCHANGED heap
      BY <1>3, <2>3 DEF NullInv, Early, Shaped
    <2>4. CASE MakeFormat
      BY <1>0, <2>4 DEF MakeFormat, Load, NullInv
    <2>5. ASSUME NEW class \in {"String", "Validator"}, NEW fails, heap' = New(heap, class, {Client}, "held", fails)
          PROVE  Early(heap')
      <3>1. class \in Class \ {"Format", "FormatFile"}
        BY DEF Class
      <3> QED  BY <1>3, <2>0, <2>5, <3>1, OtherMakesNone, EarlyStays
    <2>6. CASE MakeString \/ MakeValidator
      BY <2>5, <2>6 DEF MakeString, MakeValidator, NewString, NullInv
    <2>7. CASE MakeFormatFile
      BY <1>3, <2>7, FormatFileIsHeld DEF MakeFormatFile, NullInv
    <2>8. CASE MakeParser
      <3>1. heap' = heap \/ \E fails : heap' = NewParser(heap, fails)
        BY <2>8 DEF MakeParser
      <3> QED  BY <1>3, <2>0, <2>3, <3>1, ParserMakesNone, EarlyStays DEF NullInv
    <2>9. CASE SetFormatFilePath \/ SetParserString
      <3>1. \E a, fails : \E field \in Strings \cup {"format_file_path"} : heap' = CopyInto(heap, a, field, fails)
        BY <2>9 DEF SetFormatFilePath, SetParserString
      <3>2. PICK a, fails, field : field # "held" /\ heap' = CopyInto(heap, a, field, fails)
        BY <3>1 DEF Strings
      <3> QED  BY <1>3, <2>0, <3>2, CopyIntoMakesNone, EarlyStays DEF NullInv
    <2>10. CASE FreeHeld
      BY <1>3, <2>0, <2>10, FreeHeldStaysEarly DEF FreeHeld, NullInv
    <2>11. CASE SetString \/ ApplyFormat
      BY <2>1, <2>11 DEF SetString, ApplyFormat
    <2>12. CASE MoreColumns \/ MoreValidations
      <3>1. Held(heap, Held(heap, {}, "columns"), "column") = {}
        BY DEF Held
      <3> QED  BY <2>2, <2>12, <3>1 DEF MoreColumns, MoreValidations
    <2>13. CASE ReadFile \/ ReadIntoFormat \/ ReadSetting \/ ReadTooEarly \/ EndReading
      BY <2>1, <2>13 DEF ReadFile, ReadIntoFormat, ReadSetting, ReadTooEarly, EndReading
    <2>14. CASE UNCHANGED vars
      BY <2>3, <2>14 DEF vars
    <2> QED
      BY <2>4, <2>6, <2>7, <2>8, <2>9, <2>10, <2>11, <2>12, <2>13, <2>14 DEF Next
  <1> QED  BY <1>2, <1>3 DEF NullInv

\* A new object finds the null objects it starts with, except for a format file
\* that the client made before any format.
THEOREM NullsExist == Spec => []NullObjectsExist
  <1>1. Init => NullInv
    <2> SUFFICES ASSUME Init  PROVE Early(heap)
      BY DEF NullInv
    <2>1. heap.class = [a \in Address |-> "free"]
      BY DEF Init
    <2> QED  BY <2>1 DEF Early, Shaped
  <1>2. Inv /\ NullInv /\ [Next]_vars => NullInv'
    BY NullStep
  <1>3. NullInv => NullObjectsExist
    <2> SUFFICES ASSUME NullInv, NEW a \in InUse(heap) \ Mine(heap, "FormatFile")
                 PROVE  StartsWith(heap.class[a]) \subseteq ready
      BY DEF NullObjectsExist
    <2>1. CASE {"Format", "FormatFile"} \subseteq ready
      BY <2>1 DEF StartsWith
    <2>2. CASE Early(heap)
      <3>1. heap.class[a] # "Format" /\ a \in Address
        BY <2>2 DEF Early, InUse
      <3>2. heap.class[a] # "FormatFile"
        BY <2>2, <3>1 DEF Early, Mine, Held, Objects
      <3> QED  BY <3>1, <3>2 DEF StartsWith
    <2> QED  BY <2>1, <2>2 DEF NullInv
  <1> QED  BY <1>1, <1>2, <1>3, InvAlways, PTL DEF Spec

-----------------------------------------------------------------------------
(* The timestamp: the pattern. *)

\* The characters that may be at place k behind the blanks, when the
\* characters behind month, day, hour and minute are at a, b, c and e.
Want(k, a, b, c, e) ==
  IF k =< 4 THEN Digit
  ELSE IF k = 5 THEN {Dash}
  ELSE IF k < a THEN Digit
  ELSE IF k = a THEN {Dash}
  ELSE IF k < b THEN Digit
  ELSE IF k = b THEN {Space}
  ELSE IF k < c THEN Digit
  ELSE IF k = c THEN {Colon}
  ELSE IF k < e THEN Digit
  ELSE IF k = e THEN {Colon}
  ELSE IF k =< e + 2 THEN Digit
  ELSE White

\* The same, for parts with so many digits.
At(k, m, d, h, mi) ==
  Want(k, 6 + m, 7 + m + d, 8 + m + d + h, 9 + m + d + h + mi)

\* So many blanks, and then what is wanted at so many places.
Along(p, before, n, m, d, h, mi) ==
  /\ Len(p) = before + n
  /\ \A i \in 1..before : p[i] = Blank \cup {Space}
  /\ \A k \in 1..n : p[before + k] = At(k, m, d, h, mi)

\* Repeated sets are a sequence of them.
LEMMA TimesTyped ==
  ASSUME NEW S, NEW set \in S, NEW n \in Nat
  PROVE  /\ Times(n, set) \in Seq(S) /\ Len(Times(n, set)) = n
         /\ \A i \in 1..n : Times(n, set)[i] = set
BY DEF Times

\* The pattern, place by place.
LEMMA PatternIs ==
  ASSUME NEW before \in Nat, NEW after \in Nat,
         NEW m \in 1..2, NEW d \in 1..2, NEW h \in 1..2, NEW mi \in 1..2
  PROVE  Along(Pattern(before, m, d, h, mi, after), before,
               11 + m + d + h + mi + after, m, d, h, mi)
<1> DEFINE a == 6 + m
           b == 7 + m + d
           c == 8 + m + d + h
           e == 9 + m + d + h + mi
           S == SUBSET Letter
           W(k) == Want(k, a, b, c, e)
           Made(p, n) == /\ n \in Nat /\ p \in Seq(S) /\ Len(p) = before + n
                         /\ \A i \in 1..before : p[i] = Blank \cup {Space}
                         /\ \A k \in 1..n : p[before + k] = W(k)
           p0 == Times(before, Blank \cup {Space})
           p1 == p0 \o Times(4, Digit)
           p2 == p1 \o <<{Dash}>>
           p3 == p2 \o Times(m, Digit)
           p4 == p3 \o <<{Dash}>>
           p5 == p4 \o Times(d, Digit)
           p6 == p5 \o <<{Space}>>
           p7 == p6 \o Times(h, Digit)
           p8 == p7 \o <<{Colon}>>
           p9 == p8 \o Times(mi, Digit)
           p10 == p9 \o <<{Colon}>>
           p11 == p10 \o Times(2, Digit)
           p12 == p11 \o Times(after, White)
<1>1. /\ Digit \in S /\ White \in S /\ Blank \cup {Space} \in S
      /\ {Dash} \in S /\ {Space} \in S /\ {Colon} \in S
  BY DEF Letter, White
<1>2. /\ a \in Nat /\ b \in Nat /\ c \in Nat /\ e \in Nat
      /\ a = 6 + m /\ b = a + 1 + d /\ c = b + 1 + h /\ e = c + 1 + mi
      /\ e + 2 + after = 11 + m + d + h + mi + after
  OBVIOUS
<1>0. \A k : W(k) = At(k, m, d, h, mi)
  BY DEF At
<1> HIDE DEF S, W, a, b, c, e
<1>3. ASSUME NEW p, NEW n, Made(p, n), NEW q \in Seq(S), NEW set,
             \A j \in 1..Len(q) : q[j] = set, \A j \in (n + 1)..(n + Len(q)) : W(j) = set
      PROVE  Made(p \o q, n + Len(q))
  <2>0. p \in Seq(S) /\ Len(p) = before + n /\ n \in Nat
    BY <1>3
  <2>1. /\ p \o q \in Seq(S) /\ Len(p \o q) = Len(p) + Len(q)
        /\ Len(p) \in Nat /\ Len(q) \in Nat /\ Len(p) = before + n /\ n \in Nat
        /\ \A i \in 1..(Len(p) + Len(q)) :
             (p \o q)[i] = IF i =< Len(p) THEN p[i] ELSE q[i - Len(p)]
    <3> HIDE DEF Made
    <3> QED
      BY <2>0
  <2>2. \A i \in 1..before : (p \o q)[i] = Blank \cup {Space}
    <3>1. \A i \in 1..before : i \in 1..(Len(p) + Len(q)) /\ i =< Len(p)
      BY <2>1
    <3> QED
      BY <1>3, <2>1, <3>1
  <2>3. ASSUME NEW k \in 1..(n + Len(q)) PROVE (p \o q)[before + k] = W(k)
    <3>1. before + k \in 1..(Len(p) + Len(q))
      BY <2>1
    <3>2. CASE k =< n
      <4>1. before + k =< Len(p) /\ k \in 1..n
        BY <2>1, <3>2
      <4>2. p[before + k] = W(k)
        BY <1>3, <4>1
      <4> QED
        BY <2>1, <3>1, <4>1, <4>2
    <3>3. CASE ~(k =< n)
      <4>1. /\ ~(before + k =< Len(p)) /\ (before + k) - Len(p) \in 1..Len(q)
            /\ k \in (n + 1)..(n + Len(q))
        BY <2>1, <3>3
      <4>2. q[(before + k) - Len(p)] = set /\ W(k) = set
        BY <1>3, <4>1
      <4> QED
        BY <2>1, <3>1, <4>1, <4>2
    <3> QED
      BY <3>2, <3>3
  <2>4. n + Len(q) \in Nat /\ before + (n + Len(q)) = Len(p) + Len(q)
    BY <2>1
  <2> QED
    BY <2>1, <2>2, <2>3, <2>4
<1> HIDE DEF Made
<1>4. ASSUME NEW p, NEW n, Made(p, n), NEW set \in S, NEW k \in Nat,
             \A j \in (n + 1)..(n + k) : W(j) = set
      PROVE  Made(p \o Times(k, set), n + k)
  <2>1. /\ Times(k, set) \in Seq(S) /\ Len(Times(k, set)) = k
        /\ \A j \in 1..k : Times(k, set)[j] = set
    BY <1>4, TimesTyped
  <2> QED
    BY <1>3, <1>4, <2>1
<1>5. ASSUME NEW p, NEW n \in Nat, Made(p, n), NEW set \in S, W(n + 1) = set
      PROVE  Made(p \o <<set>>, n + 1)
  <2>1. /\ <<set>> \in Seq(S) /\ Len(<<set>>) = 1
        /\ \A j \in 1..Len(<<set>>) : <<set>>[j] = set
    BY <1>5
  <2>2. \A j \in (n + 1)..(n + Len(<<set>>)) : W(j) = set
    <3>1. \A j \in (n + 1)..(n + 1) : j = n + 1
      OBVIOUS
    <3> QED
      BY <1>5, <2>1, <3>1
  <2>3. Made(p \o <<set>>, n + Len(<<set>>))
    BY <1>3, <1>5, <2>1, <2>2
  <2> QED
    BY <2>1, <2>3
<1>6. Made(p0, 0)
  <2>1. /\ p0 \in Seq(S) /\ Len(p0) = before
        /\ \A i \in 1..before : p0[i] = Blank \cup {Space}
    BY <1>1, TimesTyped
  <2>2. 0 \in Nat /\ before + 0 = before /\ 1..0 = {}
    OBVIOUS
  <2> HIDE DEF p0
  <2> QED
    BY <2>1, <2>2 DEF Made
<1>7. /\ \A j \in 1..4 : W(j) = Digit
      /\ W(5) = {Dash}
      /\ \A j \in 6..(a - 1) : W(j) = Digit
      /\ W(a) = {Dash}
      /\ \A j \in (a + 1)..(b - 1) : W(j) = Digit
      /\ W(b) = {Space}
      /\ \A j \in (b + 1)..(c - 1) : W(j) = Digit
      /\ W(c) = {Colon}
      /\ \A j \in (c + 1)..(e - 1) : W(j) = Digit
      /\ W(e) = {Colon}
      /\ \A j \in (e + 1)..(e + 2) : W(j) = Digit
      /\ \A j \in (e + 3)..(e + 2 + after) : W(j) = White
  <2>1. \A j \in 1..4 : W(j) = Digit
    <3>1. \A j \in 1..4 : j =< 4
      OBVIOUS
    <3> QED
      BY <3>1 DEF W, Want
  <2>2. W(5) = {Dash}
    <3>1. ~(5 =< 4)
      OBVIOUS
    <3> QED
      BY <3>1 DEF W, Want
  <2>3. \A j \in 6..(a - 1) : W(j) = Digit
    <3>1. \A j \in 6..(a - 1) : ~(j =< 4) /\ j # 5 /\ j < a
      BY <1>2
    <3> QED
      BY <3>1 DEF W, Want
  <2>4. W(a) = {Dash}
    <3>1. ~(a =< 4) /\ a # 5 /\ ~(a < a)
      BY <1>2
    <3> QED
      BY <3>1 DEF W, Want
  <2>5. \A j \in (a + 1)..(b - 1) : W(j) = Digit
    <3>1. \A j \in (a + 1)..(b - 1) : ~(j =< 4) /\ j # 5 /\ ~(j < a) /\ j # a /\ j < b
      BY <1>2
    <3> QED
      BY <3>1 DEF W, Want
  <2>6. W(b) = {Space}
    <3>1. ~(b =< 4) /\ b # 5 /\ ~(b < a) /\ b # a /\ ~(b < b)
      BY <1>2
    <3> QED
      BY <3>1 DEF W, Want
  <2>7. \A j \in (b + 1)..(c - 1) : W(j) = Digit
    <3>1. \A j \in (b + 1)..(c - 1) : /\ ~(j =< 4) /\ j # 5 /\ ~(j < a) /\ j # a
                                      /\ ~(j < b) /\ j # b /\ j < c
      BY <1>2
    <3> QED
      BY <3>1 DEF W, Want
  <2>8. W(c) = {Colon}
    <3>1. /\ ~(c =< 4) /\ c # 5 /\ ~(c < a) /\ c # a /\ ~(c < b) /\ c # b /\ ~(c < c)
      BY <1>2
    <3> QED
      BY <3>1 DEF W, Want
  <2>9. \A j \in (c + 1)..(e - 1) : W(j) = Digit
    <3>1. \A j \in (c + 1)..(e - 1) : /\ ~(j =< 4) /\ j # 5 /\ ~(j < a) /\ j # a
                                      /\ ~(j < b) /\ j # b /\ ~(j < c) /\ j # c /\ j < e
      BY <1>2
    <3> QED
      BY <3>1 DEF W, Want
  <2>10. W(e) = {Colon}
    <3>1. /\ ~(e =< 4) /\ e # 5 /\ ~(e < a) /\ e # a /\ ~(e < b) /\ e # b
          /\ ~(e < c) /\ e # c /\ ~(e < e)
      BY <1>2
    <3> QED
      BY <3>1 DEF W, Want
  <2>11. \A j \in (e + 1)..(e + 2) : W(j) = Digit
    <3>1. \A j \in (e + 1)..(e + 2) : /\ ~(j =< 4) /\ j # 5 /\ ~(j < a) /\ j # a
                                      /\ ~(j < b) /\ j # b /\ ~(j < c) /\ j # c
                                      /\ ~(j < e) /\ j # e /\ j =< e + 2
      BY <1>2
    <3> QED
      BY <3>1 DEF W, Want
  <2>12. \A j \in (e + 3)..(e + 2 + after) : W(j) = White
    <3>1. \A j \in (e + 3)..(e + 2 + after) : /\ ~(j =< 4) /\ j # 5 /\ ~(j < a) /\ j # a
                                              /\ ~(j < b) /\ j # b /\ ~(j < c) /\ j # c
                                              /\ ~(j < e) /\ j # e /\ ~(j =< e + 2)
      BY <1>2
    <3> QED
      BY <3>1 DEF W, Want
  <2> QED
    BY <2>1, <2>2, <2>3, <2>4, <2>5, <2>6, <2>7, <2>8, <2>9, <2>10, <2>11, <2>12
<1> HIDE DEF p0
<1>11. Made(p1, 4)
  <2>1. 0 + 1 = 1 /\ 0 + 4 = 4 /\ 4 \in Nat
    OBVIOUS
  <2>2. \A j \in (0 + 1)..(0 + 4) : W(j) = Digit
    BY ONLY <1>7, <2>1
  <2>3. Made(p0 \o Times(4, Digit), 0 + 4)
    BY ONLY <1>1, <1>4, <1>6, <2>1, <2>2
  <2> QED
    BY ONLY <2>1, <2>3 DEF p1
<1> HIDE DEF p1
<1>12. Made(p2, 5)
  <2>1. 4 + 1 = 5 /\ 4 \in Nat
    OBVIOUS
  <2>2. W(4 + 1) = {Dash}
    BY ONLY <1>7, <2>1
  <2>3. Made(p1 \o <<{Dash}>>, 4 + 1)
    BY ONLY <1>1, <1>5, <1>11, <2>1, <2>2
  <2> QED
    BY ONLY <2>1, <2>3 DEF p2
<1> HIDE DEF p2
<1>13. Made(p3, a - 1)
  <2>1. 5 + 1 = 6 /\ 5 + m = a - 1 /\ m \in Nat
    BY <1>2
  <2>2. \A j \in (5 + 1)..(5 + m) : W(j) = Digit
    BY ONLY <1>7, <2>1
  <2>3. Made(p2 \o Times(m, Digit), 5 + m)
    BY ONLY <1>1, <1>4, <1>12, <2>1, <2>2
  <2> QED
    BY <2>1, <2>3
<1> HIDE DEF p3
<1>14. Made(p4, a)
  <2>1. a - 1 \in Nat /\ (a - 1) + 1 = a
    BY <1>2
  <2>2. W((a - 1) + 1) = {Dash}
    BY ONLY <1>7, <2>1
  <2>3. Made(p3 \o <<{Dash}>>, (a - 1) + 1)
    BY ONLY <1>1, <1>5, <1>13, <2>1, <2>2
  <2> QED
    BY <2>1, <2>3
<1> HIDE DEF p4
<1>15. Made(p5, b - 1)
  <2>1. a + d = b - 1 /\ d \in Nat
    BY <1>2
  <2>2. \A j \in (a + 1)..(a + d) : W(j) = Digit
    BY ONLY <1>7, <2>1
  <2>3. Made(p4 \o Times(d, Digit), a + d)
    BY ONLY <1>1, <1>4, <1>14, <2>1, <2>2
  <2> QED
    BY <2>1, <2>3
<1> HIDE DEF p5
<1>16. Made(p6, b)
  <2>1. b - 1 \in Nat /\ (b - 1) + 1 = b
    BY <1>2
  <2>2. W((b - 1) + 1) = {Space}
    BY ONLY <1>7, <2>1
  <2>3. Made(p5 \o <<{Space}>>, (b - 1) + 1)
    BY ONLY <1>1, <1>5, <1>15, <2>1, <2>2
  <2> QED
    BY <2>1, <2>3
<1> HIDE DEF p6
<1>17. Made(p7, c - 1)
  <2>1. b + h = c - 1 /\ h \in Nat
    BY <1>2
  <2>2. \A j \in (b + 1)..(b + h) : W(j) = Digit
    BY ONLY <1>7, <2>1
  <2>3. Made(p6 \o Times(h, Digit), b + h)
    BY ONLY <1>1, <1>4, <1>16, <2>1, <2>2
  <2> QED
    BY <2>1, <2>3
<1> HIDE DEF p7
<1>18. Made(p8, c)
  <2>1. c - 1 \in Nat /\ (c - 1) + 1 = c
    BY <1>2
  <2>2. W((c - 1) + 1) = {Colon}
    BY ONLY <1>7, <2>1
  <2>3. Made(p7 \o <<{Colon}>>, (c - 1) + 1)
    BY ONLY <1>1, <1>5, <1>17, <2>1, <2>2
  <2> QED
    BY <2>1, <2>3
<1> HIDE DEF p8
<1>19. Made(p9, e - 1)
  <2>1. c + mi = e - 1 /\ mi \in Nat
    BY <1>2
  <2>2. \A j \in (c + 1)..(c + mi) : W(j) = Digit
    BY ONLY <1>7, <2>1
  <2>3. Made(p8 \o Times(mi, Digit), c + mi)
    BY ONLY <1>1, <1>4, <1>18, <2>1, <2>2
  <2> QED
    BY <2>1, <2>3
<1> HIDE DEF p9
<1>20. Made(p10, e)
  <2>1. e - 1 \in Nat /\ (e - 1) + 1 = e
    BY <1>2
  <2>2. W((e - 1) + 1) = {Colon}
    BY ONLY <1>7, <2>1
  <2>3. Made(p9 \o <<{Colon}>>, (e - 1) + 1)
    BY ONLY <1>1, <1>5, <1>19, <2>1, <2>2
  <2> QED
    BY <2>1, <2>3
<1> HIDE DEF p10
<1>21. Made(p11, e + 2)
  BY <1>1, <1>4, <1>7, <1>20
<1> HIDE DEF p11
<1>22. Made(p12, e + 2 + after)
  <2>1. (e + 2) + 1 = e + 3 /\ (e + 2) + after = e + 2 + after
    BY <1>2
  <2> QED
    BY <1>1, <1>4, <1>7, <1>21, <2>1
<1>23. Pattern(before, m, d, h, mi, after) = p12
  BY DEF Pattern, p0, p1, p2, p3, p4, p5, p6, p7, p8, p9, p10, p11
<1> HIDE DEF p12
<1>25. /\ Len(p12) = before + (e + 2 + after)
       /\ \A i \in 1..before : p12[i] = Blank \cup {Space}
       /\ \A k \in 1..(e + 2 + after) : p12[before + k] = W(k)
  BY ONLY <1>22 DEF Made
<1> QED
  BY ONLY <1>0, <1>2, <1>23, <1>25 DEF Along

(* The blanks a text begins with, and what follows them. *)

\* The text begins with n blanks.
IsLead(s, n) ==
  /\ n \in 0..Len(s)
  /\ \A i \in 1..n : s[i] \in Blank \cup {Space}
  /\ n < Len(s) => s[n + 1] \notin Blank \cup {Space}

\* Behind n blanks the text follows the pattern.
Follows(s, n, m, d, h, mi) ==
  \A k \in 1..(Len(s) - n) : s[n + k] \in At(k, m, d, h, mi)

\* Lead() is the number of those blanks.
LEMMA LeadIs ==
  ASSUME NEW S, NEW s \in Seq(S), NEW n, IsLead(s, n)
  PROVE  Lead(s) = n
<1> DEFINE X == {j \in 0..Len(s) : \A i \in 1..j : s[i] \in Blank \cup {Space}}
<1>0. Len(s) \in Nat
  OBVIOUS
<1> HIDE DEF X
<1>1. n \in 0..Len(s) /\ n \in X
  BY DEF IsLead, X
<1>2. n \in Nat
  BY <1>0, <1>1
<1>3. ASSUME NEW y \in X PROVE y =< n /\ y \in Nat
  <2>1. \A i \in 1..y : s[i] \in Blank \cup {Space}
    BY DEF X
  <2>4. y \in 0..Len(s)
    BY DEF X
  <2>2. y \in Nat /\ y =< Len(s)
    BY <1>0, <2>4
  <2>3. CASE n < y
    <3>1. n + 1 \in 1..y /\ n < Len(s)
      BY <1>0, <1>2, <2>2, <2>3
    <3> QED
      BY <2>1, <3>1 DEF IsLead
  <2> QED
    BY <1>2, <2>2, <2>3
<1>5. ASSUME NEW x \in X, \A y \in X : y =< x PROVE x = n
  BY <1>1, <1>2, <1>3, <1>5
<1>4. Lead(s) = Max(X)
  BY DEF Lead, X
<1> QED
  BY <1>1, <1>3, <1>4, <1>5 DEF Max

\* One more character is one more of those blanks, or not.
LEMMA LeadGrows ==
  ASSUME NEW S, NEW s \in Seq(S), NEW c \in S, NEW n, IsLead(s, n)
  PROVE  /\ n = Len(s) /\ c \in Blank \cup {Space} => IsLead(Append(s, c), n + 1)
         /\ ~(n = Len(s) /\ c \in Blank \cup {Space}) => IsLead(Append(s, c), n)
<1>0. n \in 0..Len(s)
  BY DEF IsLead
<1>1. /\ Len(s) \in Nat /\ n \in Nat /\ Len(Append(s, c)) = Len(s) + 1
      /\ \A i \in 1..Len(s) : Append(s, c)[i] = s[i]
      /\ Append(s, c)[Len(s) + 1] = c
  BY <1>0
<1>2. n \in 0..Len(s) /\ \A i \in 1..n : s[i] \in Blank \cup {Space} /\ i \in 1..Len(s)
  <2>1. \A i \in 1..n : i \in 1..Len(s)
    BY <1>0, <1>1
  <2> QED
    BY <1>0, <2>1 DEF IsLead
<1>3. CASE n = Len(s) /\ c \in Blank \cup {Space}
  <2>0. n \in Nat /\ n = Len(s)
    BY <1>1, <1>3
  <2>1. \A i \in 1..(n + 1) : i \in 1..n \/ i = Len(s) + 1
    BY <2>0
  <2>2. n + 1 \in 0..(Len(s) + 1) /\ ~(n + 1 < Len(s) + 1)
    BY <2>0
  <2> QED
    BY <1>1, <1>2, <1>3, <2>1, <2>2 DEF IsLead
<1>4. CASE n = Len(s) /\ c \notin Blank \cup {Space}
  <2>0. n \in Nat /\ n = Len(s)
    BY <1>1, <1>4
  <2>1. n \in 0..(Len(s) + 1)
    BY <2>0
  <2> QED
    BY <1>1, <1>2, <1>4, <2>1 DEF IsLead
<1>5. CASE n # Len(s)
  <2>0. n \in Nat /\ Len(s) \in Nat /\ n =< Len(s) /\ n # Len(s)
    <3>1. n \in Nat /\ Len(s) \in Nat
      BY <1>1
    <3>2. n =< Len(s)
      BY <1>0, <3>1
    <3> QED
      BY <1>5, <3>1, <3>2
  <2>1. n \in 0..(Len(s) + 1) /\ n < Len(s) /\ n + 1 \in 1..Len(s)
    BY <2>0
  <2> QED
    BY <1>1, <1>2, <1>5, <2>1 DEF IsLead
<1> QED
  BY <1>3, <1>4, <1>5

\* To begin a timestamp is to follow the pattern behind the blanks.
LEMMA BeginsIs ==
  ASSUME NEW S, NEW s \in Seq(S), NEW n, IsLead(s, n),
         NEW m \in 1..2, NEW d \in 1..2, NEW h \in 1..2, NEW mi \in 1..2
  PROVE  Begins(s, m, d, h, mi) <=> Follows(s, n, m, d, h, mi)
<1> DEFINE p == Pattern(n, m, d, h, mi, Len(s))
           e == 11 + m + d + h + mi + Len(s)
<1>0. n \in 0..Len(s)
  BY DEF IsLead
<1>9. n \in Nat /\ Len(s) \in Nat /\ e \in Nat /\ n =< Len(s) /\ Len(s) =< e
  BY <1>0
<1>4. /\ Len(p) = n + e
      /\ \A i \in 1..n : p[i] = Blank \cup {Space}
      /\ \A k \in 1..e : p[n + k] = At(k, m, d, h, mi)
  <2>1. n \in Nat /\ Len(s) \in Nat
    BY <1>9
  <2>2. Along(p, n, e, m, d, h, mi)
    BY <2>1, PatternIs
  <2> HIDE DEF p, e
  <2> QED
    BY <2>2 DEF Along
<1> HIDE DEF e
<1>5. Begins(s, m, d, h, mi) <=> Len(s) =< Len(p) /\ \A i \in 1..Len(s) : s[i] \in p[i]
  BY LeadIs DEF Begins, Fits
<1> HIDE DEF p
<1>6. Len(s) =< Len(p)
  <2>1. Len(s) =< n + e
    BY <1>9
  <2> QED
    BY <1>4, <2>1
<1>7. ASSUME \A i \in 1..Len(s) : s[i] \in p[i], NEW k \in 1..(Len(s) - n)
      PROVE  s[n + k] \in At(k, m, d, h, mi)
  <2>1. n + k \in 1..Len(s) /\ k \in 1..e
    BY <1>9
  <2> QED
    BY <1>4, <1>7, <2>1
<1>8. ASSUME Follows(s, n, m, d, h, mi), NEW i \in 1..Len(s)
      PROVE  s[i] \in p[i]
  <2>1. CASE i =< n
    <3>1. i \in 1..n
      BY <2>1
    <3> QED
      BY <1>4, <3>1 DEF IsLead
  <2>2. CASE ~(i =< n)
    <3>1. i - n \in 1..(Len(s) - n) /\ i - n \in 1..e /\ n + (i - n) = i
      BY <1>9, <2>2
    <3>2. s[n + (i - n)] \in At(i - n, m, d, h, mi)
      BY <1>8, <3>1 DEF Follows
    <3>3. p[n + (i - n)] = At(i - n, m, d, h, mi)
      BY <1>4, <3>1
    <3> QED
      BY <3>1, <3>2, <3>3
  <2> QED
    BY <2>1, <2>2
<1> QED
  BY <1>5, <1>6, <1>7, <1>8 DEF Follows

(* The counters behind k characters of the pattern. *)

\* The counter of a part of n digits, of which j characters were read.
Stage(j, n) == IF j =< 0 THEN 0 ELSE IF j =< n THEN j ELSE 3

Counted(f, k, m, d, h, mi) ==
  /\ f["year"]   = IF k < 5 THEN k ELSE 5
  /\ f["month"]  = Stage(k - 5, m)
  /\ f["day"]    = Stage(k - (6 + m), d)
  /\ f["hour"]   = Stage(k - (7 + m + d), h)
  /\ f["minute"] = Stage(k - (8 + m + d + h), mi)
  /\ f["second"] = IF k =< 9 + m + d + h + mi THEN 0
                   ELSE IF k =< 11 + m + d + h + mi THEN k - (9 + m + d + h + mi)
                   ELSE 2

\* A part goes on with a digit, or with the character behind it.
LEMMA PartGoesOn ==
  ASSUME NEW part \in Parts, NEW sep \in {Space, Dash, Colon}, NEW c,
         matched \in [Parts -> 0..5], valid,
         NEW n \in 1..2, NEW j \in 0..n, matched[part] = j,
         j < n => c \in Digit, j = n => c = sep,
         TwoDigits(part, sep, c)
  PROVE  /\ valid'
         /\ matched' = [matched EXCEPT ![part] = IF j < n THEN j + 1 ELSE 3]
<1>1. sep \notin Digit
  BY TextAssumption
<1>2. CASE j < n
  <2>0. j < 2 /\ j # 2 /\ j \in Nat
    BY <1>2
  <2>1. c \in Digit /\ c # sep
    BY <1>1, <1>2
  <2>2. DigitOf(part, c)
    BY <2>0, <2>1 DEF TwoDigits
  <2> QED
    BY <1>2, <2>1, <2>2 DEF DigitOf, Matching
<1>3. CASE j = n
  <2>0. ~(j < n)
    BY <1>3
  <2>1. c = sep /\ ~(j < n)
    BY <1>3, <2>0
  <2>2. CASE j = 1
    <3>1. Matching(part, 3)
      BY <2>1, <2>2 DEF TwoDigits
    <3> QED
      BY <2>1, <3>1 DEF Matching
  <2>3. CASE j = 2
    <3>1. Matching(part, 3)
      BY <2>1, <2>3 DEF TwoDigits
    <3> QED
      BY <2>1, <3>1 DEF Matching
  <2> QED
    BY <1>3, <2>2, <2>3
<1> QED
  BY <1>2, <1>3

\* What a part takes is a digit, or the character behind it.
LEMMA PartTakes ==
  ASSUME NEW part \in Parts, NEW sep, NEW c, matched \in [Parts -> 0..5],
         TwoDigits(part, sep, c), valid'
  PROVE  \/ matched[part] \in 0..1 /\ c \in Digit
         \/ matched[part] \in 1..2 /\ c = sep
<1>1. matched[part] \in 0..5
  OBVIOUS
<1>2. CASE matched[part] = 1 /\ c = sep
  BY <1>2
<1>3. CASE matched[part] < 2 /\ DigitOf(part, c)
  <2>1. c \in Digit
    BY <1>3 DEF DigitOf, Refuse
  <2> QED
    BY <1>1, <1>3, <2>1
<1>4. CASE matched[part] = 2 /\ (IF c = sep THEN Matching(part, 3) ELSE Refuse)
  <2>1. c = sep
    BY <1>4 DEF Refuse
  <2> QED
    BY <1>4, <2>1
<1> QED
  BY <1>2, <1>3, <1>4 DEF TwoDigits

\* Along the pattern a character is never refused, and the counters go on.
LEMMA GoesOn ==
  ASSUME NEW m \in 1..2, NEW d \in 1..2, NEW h \in 1..2, NEW mi \in 1..2,
         NEW k \in Nat, matched \in [Parts -> 0..5], Counted(matched, k, m, d, h, mi),
         NEW c \in At(k + 1, m, d, h, mi), ReadCharacter(c), valid
  PROVE  valid' /\ Counted(matched', k + 1, m, d, h, mi)
<1> USE DEF Parts
<1>1. CASE k < 4
  <2>1. /\ matched["year"] = k /\ matched["month"] = 0 /\ matched["day"] = 0
        /\ matched["hour"] = 0 /\ matched["minute"] = 0 /\ matched["second"] = 0
    BY <1>1 DEF Counted, Stage
  <2>2. c \in Digit
    <3>1. At(k + 1, m, d, h, mi) = Digit
      BY <1>1 DEF At, Want
    <3> QED
      BY <3>1
  <2>3. c \notin Blank \cup {Space}
    BY <2>2, TextAssumption
  <2>0. k # 4 /\ k # 5 /\ k < 5
    BY <1>1
  <2>6. Year(c)
    BY <2>0, <2>1 DEF ReadCharacter
  <2>4. DigitOf("year", c)
    BY <2>0, <2>1, <2>3, <2>6 DEF Year
  <2>5. valid' /\ matched' = [matched EXCEPT !["year"] = k + 1]
    BY <2>1, <2>2, <2>4 DEF DigitOf, Matching
  <2> QED
    BY <1>1, <2>1, <2>5 DEF Counted, Stage
<1>2. CASE k = 4
  <2>1. /\ matched["year"] = 4 /\ matched["month"] = 0 /\ matched["day"] = 0
        /\ matched["hour"] = 0 /\ matched["minute"] = 0 /\ matched["second"] = 0
    BY <1>2 DEF Counted, Stage
  <2>2. c = Dash
    <3>1. At(k + 1, m, d, h, mi) = {Dash}
      BY <1>2 DEF At, Want
    <3> QED
      BY <3>1
  <2>6. Year(c)
    BY <2>1 DEF ReadCharacter
  <2>7. ~(matched["year"] < 4)
    BY <2>1
  <2>4. Matching("year", 5)
    BY <2>2, <2>6, <2>7 DEF Year
  <2>5. valid' /\ matched' = [matched EXCEPT !["year"] = 5]
    BY <2>4 DEF Matching
  <2> QED
    BY <1>2, <2>1, <2>5 DEF Counted, Stage
<1>3. CASE 5 =< k /\ k < 6 + m
  <2> DEFINE j == k - 5
  <2>0. j \in 0..m /\ k = 5 + j
    BY <1>3
  <2>1. /\ matched["year"] = 5 /\ matched["month"] = j /\ matched["day"] = 0
        /\ matched["hour"] = 0 /\ matched["minute"] = 0 /\ matched["second"] = 0
    BY <1>3 DEF Counted, Stage
  <2>2. (j < m => c \in Digit) /\ (j = m => c = Dash)
    <3>1. j < m => At(k + 1, m, d, h, mi) = Digit
      BY <1>3 DEF At, Want
    <3>2. j = m => At(k + 1, m, d, h, mi) = {Dash}
      BY <1>3 DEF At, Want
    <3> HIDE DEF j
    <3> QED
      BY <3>1, <3>2
  <2> HIDE DEF j
  <2>3. TwoDigits("month", Dash, c)
    BY <2>0, <2>1 DEF ReadCharacter
  <2>4. valid' /\ matched' = [matched EXCEPT !["month"] = IF j < m THEN j + 1 ELSE 3]
    BY <2>0, <2>1, <2>2, <2>3, PartGoesOn
  <2> QED
    BY <2>0, <2>1, <2>4 DEF Counted, Stage
<1>4. CASE 6 + m =< k /\ k < 7 + m + d
  <2> DEFINE j == k - (6 + m)
  <2>0. j \in 0..d /\ k = 6 + m + j
    BY <1>4
  <2>1. /\ matched["year"] = 5 /\ matched["month"] = 3 /\ matched["day"] = j
        /\ matched["hour"] = 0 /\ matched["minute"] = 0 /\ matched["second"] = 0
    BY <1>4 DEF Counted, Stage
  <2>2. (j < d => c \in Digit) /\ (j = d => c = Space)
    <3>1. j < d => At(k + 1, m, d, h, mi) = Digit
      BY <1>4 DEF At, Want
    <3>2. j = d => At(k + 1, m, d, h, mi) = {Space}
      BY <1>4 DEF At, Want
    <3> HIDE DEF j
    <3> QED
      BY <3>1, <3>2
  <2> HIDE DEF j
  <2>3. TwoDigits("day", Space, c)
    BY <2>0, <2>1 DEF ReadCharacter
  <2>4. valid' /\ matched' = [matched EXCEPT !["day"] = IF j < d THEN j + 1 ELSE 3]
    BY <2>0, <2>1, <2>2, <2>3, PartGoesOn
  <2> QED
    BY <2>0, <2>1, <2>4 DEF Counted, Stage
<1>5. CASE 7 + m + d =< k /\ k < 8 + m + d + h
  <2> DEFINE j == k - (7 + m + d)
  <2>0. j \in 0..h /\ k = 7 + m + d + j
    BY <1>5
  <2>1. /\ matched["year"] = 5 /\ matched["month"] = 3 /\ matched["day"] = 3
        /\ matched["hour"] = j /\ matched["minute"] = 0 /\ matched["second"] = 0
    BY <1>5 DEF Counted, Stage
  <2>2. (j < h => c \in Digit) /\ (j = h => c = Colon)
    <3>1. j < h => At(k + 1, m, d, h, mi) = Digit
      BY <1>5 DEF At, Want
    <3>2. j = h => At(k + 1, m, d, h, mi) = {Colon}
      BY <1>5 DEF At, Want
    <3> HIDE DEF j
    <3> QED
      BY <3>1, <3>2
  <2> HIDE DEF j
  <2>3. TwoDigits("hour", Colon, c)
    BY <2>0, <2>1 DEF ReadCharacter
  <2>4. valid' /\ matched' = [matched EXCEPT !["hour"] = IF j < h THEN j + 1 ELSE 3]
    BY <2>0, <2>1, <2>2, <2>3, PartGoesOn
  <2> QED
    BY <2>0, <2>1, <2>4 DEF Counted, Stage
<1>6. CASE 8 + m + d + h =< k /\ k < 9 + m + d + h + mi
  <2> DEFINE j == k - (8 + m + d + h)
  <2>0. j \in 0..mi /\ k = 8 + m + d + h + j
    BY <1>6
  <2>1. /\ matched["year"] = 5 /\ matched["month"] = 3 /\ matched["day"] = 3
        /\ matched["hour"] = 3 /\ matched["minute"] = j /\ matched["second"] = 0
    BY <1>6 DEF Counted, Stage
  <2>2. (j < mi => c \in Digit) /\ (j = mi => c = Colon)
    <3>1. j < mi => At(k + 1, m, d, h, mi) = Digit
      BY <1>6 DEF At, Want
    <3>2. j = mi => At(k + 1, m, d, h, mi) = {Colon}
      BY <1>6 DEF At, Want
    <3> HIDE DEF j
    <3> QED
      BY <3>1, <3>2
  <2> HIDE DEF j
  <2>3. TwoDigits("minute", Colon, c)
    BY <2>0, <2>1 DEF ReadCharacter
  <2>4. valid' /\ matched' = [matched EXCEPT !["minute"] = IF j < mi THEN j + 1 ELSE 3]
    BY <2>0, <2>1, <2>2, <2>3, PartGoesOn
  <2> QED
    BY <2>0, <2>1, <2>4 DEF Counted, Stage
<1>7. CASE 9 + m + d + h + mi =< k /\ k < 11 + m + d + h + mi
  <2> DEFINE j == k - (9 + m + d + h + mi)
  <2>0. j \in 0..1 /\ k = 9 + m + d + h + mi + j
    BY <1>7
  <2>1. /\ matched["year"] = 5 /\ matched["month"] = 3 /\ matched["day"] = 3
        /\ matched["hour"] = 3 /\ matched["minute"] = 3 /\ matched["second"] = j
    BY <1>7 DEF Counted, Stage
  <2>2. c \in Digit
    <3>1. At(k + 1, m, d, h, mi) = Digit
      BY <1>7 DEF At, Want
    <3> QED
      BY <3>1
  <2> HIDE DEF j
  <2>3. DigitOf("second", c)
    BY <2>0, <2>1 DEF ReadCharacter, Second
  <2>4. valid' /\ matched' = [matched EXCEPT !["second"] = j + 1]
    BY <2>0, <2>1, <2>2, <2>3 DEF DigitOf, Matching
  <2> QED
    BY <2>0, <2>1, <2>4 DEF Counted, Stage
<1>8. CASE 11 + m + d + h + mi =< k
  <2>1. /\ matched["year"] = 5 /\ matched["month"] = 3 /\ matched["day"] = 3
        /\ matched["hour"] = 3 /\ matched["minute"] = 3 /\ matched["second"] = 2
    BY <1>8 DEF Counted, Stage
  <2>2. c \in White
    <3>1. At(k + 1, m, d, h, mi) = White
      BY <1>8 DEF At, Want
    <3> QED
      BY <3>1
  <2>3. UNCHANGED matched /\ valid' = (c \in Blank \cup LineEnd \cup {Space})
    BY <2>1 DEF ReadCharacter, Second
  <2>4. valid'
    BY <2>2, <2>3, Zenon DEF White
  <2> QED
    BY <1>8, <2>1, <2>3, <2>4 DEF Counted, Stage
<1>9. k < 4 \/ k = 4 \/ 5 =< k
  OBVIOUS
<1> QED
  BY <1>1, <1>2, <1>3, <1>4, <1>5, <1>6, <1>7, <1>8, <1>9

\* Behind k characters c goes on with the pattern, if not with the same
\* number of digits then with one for which the k characters are the same.
GoesOnWith(c, k, m, d, h, mi) ==
  \E m2, d2, h2, mi2 \in 1..2 :
    /\ c \in At(k + 1, m2, d2, h2, mi2)
    /\ \A i \in 1..k : At(i, m2, d2, h2, mi2) = At(i, m, d, h, mi)

\* What is taken goes on with the pattern, for some number of digits of the
\* part that is being read; only white space in the year does not.
LEMMA Takes ==
  ASSUME NEW m \in 1..2, NEW d \in 1..2, NEW h \in 1..2, NEW mi \in 1..2,
         NEW k \in Nat, matched \in [Parts -> 0..5], Counted(matched, k, m, d, h, mi),
         NEW c, ReadCharacter(c), valid', ~(k < 4 /\ c \in Blank \cup {Space})
  PROVE  GoesOnWith(c, k, m, d, h, mi)
<1> USE DEF Parts
<1> SUFFICES ASSUME \A m2, d2, h2, mi2 \in 1..2 :
                     (\A i \in 1..k : At(i, m2, d2, h2, mi2) = At(i, m, d, h, mi))
                       => c \notin At(k + 1, m2, d2, h2, mi2)
             PROVE  FALSE
  BY DEF GoesOnWith
<1>0. c \notin At(k + 1, m, d, h, mi)
  OBVIOUS
<1>10. ReadCharacter(c)
  OBVIOUS
<1>1. CASE k < 4
  <2>1. matched["year"] = k
    BY <1>1 DEF Counted
  <2>2. k # 4 /\ k # 5 /\ k < 5
    BY <1>1
  <2>3. Year(c)
    BY <2>1, <2>2 DEF ReadCharacter
  <2>4. DigitOf("year", c)
    BY <1>1, <2>1, <2>2, <2>3 DEF Year
  <2>5. c \in Digit
    BY <2>4 DEF DigitOf, Refuse
  <2>6. At(k + 1, m, d, h, mi) = Digit
    BY <1>1 DEF At, Want
  <2> QED
    BY <1>0, <2>5, <2>6
<1>2. CASE k = 4
  <2>1. matched["year"] = 4
    BY <1>2 DEF Counted
  <2>2. Year(c) /\ ~(matched["year"] < 4)
    BY <2>1 DEF ReadCharacter
  <2>3. c = Dash
    BY <2>2 DEF Year, Refuse
  <2>4. At(k + 1, m, d, h, mi) = {Dash}
    BY <1>2 DEF At, Want
  <2> QED
    BY <1>0, <2>3, <2>4
<1>3. CASE 5 =< k /\ k < 6 + m
  <2> DEFINE j == k - 5
  <2>0. j \in 0..m /\ j \in 0..2 /\ k = 5 + j
    BY <1>3
  <2>1. /\ matched["year"] = 5
        /\ matched["month"] = j
    BY <1>3 DEF Counted, Stage
  <2> HIDE DEF j
  <2>2. TwoDigits("month", Dash, c)
    BY ONLY <1>10, <2>0, <2>1 DEF ReadCharacter
  <2>3. \/ j \in 0..1 /\ c \in Digit
        \/ j \in 1..2 /\ c = Dash
    BY <2>1, <2>2, PartTakes
  <2>4. ASSUME NEW x \in 1..2, NEW i \in 1..k, j =< x
        PROVE  At(i, x, d, h, mi) = At(i, m, d, h, mi)
    <3>1. i =< 5 + x /\ i =< 5 + m
      BY <2>0, <2>4
    <3> QED
      BY <3>1 DEF At, Want
  <2>5. CASE j \in 0..1 /\ c \in Digit
    <3>1. At(k + 1, 2, d, h, mi) = Digit
      BY <2>0, <2>5 DEF At, Want
    <3>2. \A i \in 1..k : At(i, 2, d, h, mi) = At(i, m, d, h, mi)
      BY <2>0, <2>4
    <3> QED
      BY <2>5, <3>1, <3>2
  <2>6. CASE j \in 1..2 /\ c = Dash
    <3>1. At(k + 1, j, d, h, mi) = {Dash}
      BY <2>0, <2>6 DEF At, Want
    <3>2. \A i \in 1..k : At(i, j, d, h, mi) = At(i, m, d, h, mi)
      BY <2>4, <2>6
    <3> QED
      BY <2>6, <3>1, <3>2
  <2> QED
    BY <2>3, <2>5, <2>6
<1>4. CASE 6 + m =< k /\ k < 7 + m + d
  <2> DEFINE j == k - (6 + m)
  <2>0. j \in 0..d /\ j \in 0..2 /\ k = 6 + m + j
    BY <1>4
  <2>1. /\ matched["year"] = 5 /\ matched["month"] = 3
        /\ matched["day"] = j
    BY <1>4 DEF Counted, Stage
  <2> HIDE DEF j
  <2>2. TwoDigits("day", Space, c)
    BY ONLY <1>10, <2>0, <2>1 DEF ReadCharacter
  <2>3. \/ j \in 0..1 /\ c \in Digit
        \/ j \in 1..2 /\ c = Space
    BY <2>1, <2>2, PartTakes
  <2>4. ASSUME NEW x \in 1..2, NEW i \in 1..k, j =< x
        PROVE  At(i, m, x, h, mi) = At(i, m, d, h, mi)
    <3>1. i =< 6 + m + x /\ i =< 6 + m + d
      BY <2>0, <2>4
    <3> QED
      BY <3>1 DEF At, Want
  <2>5. CASE j \in 0..1 /\ c \in Digit
    <3>1. At(k + 1, m, 2, h, mi) = Digit
      BY <2>0, <2>5 DEF At, Want
    <3>2. \A i \in 1..k : At(i, m, 2, h, mi) = At(i, m, d, h, mi)
      BY <2>0, <2>4
    <3> QED
      BY <2>5, <3>1, <3>2
  <2>6. CASE j \in 1..2 /\ c = Space
    <3>1. At(k + 1, m, j, h, mi) = {Space}
      BY <2>0, <2>6 DEF At, Want
    <3>2. \A i \in 1..k : At(i, m, j, h, mi) = At(i, m, d, h, mi)
      BY <2>4, <2>6
    <3> QED
      BY <2>6, <3>1, <3>2
  <2> QED
    BY <2>3, <2>5, <2>6
<1>5. CASE 7 + m + d =< k /\ k < 8 + m + d + h
  <2> DEFINE j == k - (7 + m + d)
  <2>0. j \in 0..h /\ j \in 0..2 /\ k = 7 + m + d + j
    BY <1>5
  <2>1. /\ matched["year"] = 5 /\ matched["month"] = 3 /\ matched["day"] = 3
        /\ matched["hour"] = j
    BY <1>5 DEF Counted, Stage
  <2> HIDE DEF j
  <2>2. TwoDigits("hour", Colon, c)
    BY ONLY <1>10, <2>0, <2>1 DEF ReadCharacter
  <2>3. \/ j \in 0..1 /\ c \in Digit
        \/ j \in 1..2 /\ c = Colon
    BY <2>1, <2>2, PartTakes
  <2>4. ASSUME NEW x \in 1..2, NEW i \in 1..k, j =< x
        PROVE  At(i, m, d, x, mi) = At(i, m, d, h, mi)
    <3>1. i =< 7 + m + d + x /\ i =< 7 + m + d + h
      BY <2>0, <2>4
    <3> QED
      BY <3>1 DEF At, Want
  <2>5. CASE j \in 0..1 /\ c \in Digit
    <3>1. At(k + 1, m, d, 2, mi) = Digit
      BY <2>0, <2>5 DEF At, Want
    <3>2. \A i \in 1..k : At(i, m, d, 2, mi) = At(i, m, d, h, mi)
      BY <2>0, <2>4
    <3> QED
      BY <2>5, <3>1, <3>2
  <2>6. CASE j \in 1..2 /\ c = Colon
    <3>1. At(k + 1, m, d, j, mi) = {Colon}
      BY <2>0, <2>6 DEF At, Want
    <3>2. \A i \in 1..k : At(i, m, d, j, mi) = At(i, m, d, h, mi)
      BY <2>4, <2>6
    <3> QED
      BY <2>6, <3>1, <3>2
  <2> QED
    BY <2>3, <2>5, <2>6
<1>6. CASE 8 + m + d + h =< k /\ k < 9 + m + d + h + mi
  <2> DEFINE j == k - (8 + m + d + h)
  <2>0. j \in 0..mi /\ j \in 0..2 /\ k = 8 + m + d + h + j
    BY <1>6
  <2>1. /\ matched["year"] = 5 /\ matched["month"] = 3 /\ matched["day"] = 3 /\ matched["hour"] = 3
        /\ matched["minute"] = j
    BY <1>6 DEF Counted, Stage
  <2> HIDE DEF j
  <2>2. TwoDigits("minute", Colon, c)
    BY ONLY <1>10, <2>0, <2>1 DEF ReadCharacter
  <2>3. \/ j \in 0..1 /\ c \in Digit
        \/ j \in 1..2 /\ c = Colon
    BY <2>1, <2>2, PartTakes
  <2>4. ASSUME NEW x \in 1..2, NEW i \in 1..k, j =< x
        PROVE  At(i, m, d, h, x) = At(i, m, d, h, mi)
    <3>1. i =< 8 + m + d + h + x /\ i =< 8 + m + d + h + mi
      BY <2>0, <2>4
    <3> QED
      BY <3>1 DEF At, Want
  <2>5. CASE j \in 0..1 /\ c \in Digit
    <3>1. At(k + 1, m, d, h, 2) = Digit
      BY <2>0, <2>5 DEF At, Want
    <3>2. \A i \in 1..k : At(i, m, d, h, 2) = At(i, m, d, h, mi)
      BY <2>0, <2>4
    <3> QED
      BY <2>5, <3>1, <3>2
  <2>6. CASE j \in 1..2 /\ c = Colon
    <3>1. At(k + 1, m, d, h, j) = {Colon}
      BY <2>0, <2>6 DEF At, Want
    <3>2. \A i \in 1..k : At(i, m, d, h, j) = At(i, m, d, h, mi)
      BY <2>4, <2>6
    <3> QED
      BY <2>6, <3>1, <3>2
  <2> QED
    BY <2>3, <2>5, <2>6
<1>7. CASE 9 + m + d + h + mi =< k /\ k < 11 + m + d + h + mi
  <2>1. /\ matched["year"] = 5 /\ matched["month"] = 3 /\ matched["day"] = 3
        /\ matched["hour"] = 3 /\ matched["minute"] = 3 /\ matched["second"] < 2
    BY <1>7 DEF Counted, Stage
  <2>2. DigitOf("second", c)
    BY ONLY <1>10, <2>1 DEF ReadCharacter, Second
  <2>3. c \in Digit
    BY <2>2 DEF DigitOf, Refuse
  <2>4. At(k + 1, m, d, h, mi) = Digit
    BY <1>7 DEF At, Want
  <2> QED
    BY <1>0, <2>3, <2>4
<1>8. CASE 11 + m + d + h + mi =< k
  <2>1. /\ matched["year"] = 5 /\ matched["month"] = 3 /\ matched["day"] = 3
        /\ matched["hour"] = 3 /\ matched["minute"] = 3 /\ matched["second"] = 2
    BY <1>8 DEF Counted, Stage
  <2>2. valid' = (c \in Blank \cup LineEnd \cup {Space})
    BY ONLY <1>10, <2>1 DEF ReadCharacter, Second
  <2>3. c \in White
    BY <2>2, Zenon DEF White
  <2>4. At(k + 1, m, d, h, mi) = White
    BY <1>8 DEF At, Want
  <2> QED
    BY <1>0, <2>3, <2>4
<1>9. k < 4 \/ k = 4 \/ 5 =< k
  OBVIOUS
<1> QED
  BY <1>1, <1>2, <1>3, <1>4, <1>5, <1>6, <1>7, <1>8, <1>9

(* The inductive invariant. *)

\* A beginning of the pattern was not refused, and the counters say how long
\* it is, for every number of digits of its parts.
InStep ==
  \A m, d, h, mi \in 1..2 : \A n \in 0..Len(subject) :
    IsLead(subject, n) /\ Follows(subject, n, m, d, h, mi)
      => valid /\ Counted(matched, Len(subject) - n, m, d, h, mi)

\* What was not refused is such a beginning, or its year is split.
OnTrack ==
  valid /\ ~YearIsSplit
    => \E m, d, h, mi \in 1..2 : \E n \in 0..Len(subject) :
         IsLead(subject, n) /\ Follows(subject, n, m, d, h, mi)

TimeInv ==
  /\ subject \in Seq(Letter) /\ valid \in BOOLEAN /\ matched \in [Parts -> 0..5]
  /\ \E n \in 0..Len(subject) : IsLead(subject, n)
  /\ InStep
  /\ OnTrack

\* One more character of the pattern.
LEMMA FollowsGrows ==
  ASSUME NEW S, NEW s \in Seq(S), NEW c \in S, NEW n \in 0..Len(s),
         NEW m \in 1..2, NEW d \in 1..2, NEW h \in 1..2, NEW mi \in 1..2
  PROVE  Follows(Append(s, c), n, m, d, h, mi)
           <=> /\ Follows(s, n, m, d, h, mi)
               /\ c \in At(Len(s) - n + 1, m, d, h, mi)
<1>1. /\ Len(s) \in Nat /\ n \in Nat /\ n =< Len(s) /\ Len(Append(s, c)) = Len(s) + 1
      /\ \A i \in 1..Len(s) : Append(s, c)[i] = s[i]
      /\ Append(s, c)[Len(s) + 1] = c
  OBVIOUS
<1>2. /\ Len(s) - n + 1 \in 1..(Len(Append(s, c)) - n)
      /\ n + (Len(s) - n + 1) = Len(s) + 1
  BY <1>1
<1>3. \A k \in 1..(Len(s) - n) : k \in 1..(Len(Append(s, c)) - n) /\ n + k \in 1..Len(s)
  BY <1>1
<1>4. \A k \in 1..(Len(Append(s, c)) - n) : k \in 1..(Len(s) - n) \/ k = Len(s) - n + 1
  BY <1>1
<1>5. ASSUME Follows(Append(s, c), n, m, d, h, mi)
      PROVE  Follows(s, n, m, d, h, mi) /\ c \in At(Len(s) - n + 1, m, d, h, mi)
  <2>1. \A k \in 1..(Len(Append(s, c)) - n) : Append(s, c)[n + k] \in At(k, m, d, h, mi)
    BY <1>5 DEF Follows
  <2>2. \A k \in 1..(Len(s) - n) : s[n + k] \in At(k, m, d, h, mi)
    BY <1>1, <1>3, <2>1
  <2>3. c \in At(Len(s) - n + 1, m, d, h, mi)
    BY <1>1, <1>2, <2>1
  <2> QED
    BY <2>2, <2>3 DEF Follows
<1>6. ASSUME Follows(s, n, m, d, h, mi), c \in At(Len(s) - n + 1, m, d, h, mi)
      PROVE  Follows(Append(s, c), n, m, d, h, mi)
  <2>1. \A k \in 1..(Len(s) - n) : s[n + k] \in At(k, m, d, h, mi)
    BY <1>6 DEF Follows
  <2>2. ASSUME NEW k \in 1..(Len(Append(s, c)) - n)
        PROVE  Append(s, c)[n + k] \in At(k, m, d, h, mi)
    <3>1. CASE k \in 1..(Len(s) - n)
      BY <1>1, <1>3, <2>1, <3>1
    <3>2. CASE k = Len(s) - n + 1
      BY <1>1, <1>2, <1>6, <3>2
    <3> QED
      BY <1>4, <3>1, <3>2
  <2> QED
    BY <2>2 DEF Follows
<1> QED
  BY <1>5, <1>6

\* A split year stays split.
LEMMA SplitStays ==
  ASSUME subject \in Seq(Letter), NEW c \in Letter, subject' = Append(subject, c), YearIsSplit
  PROVE  YearIsSplit'
<1>1. /\ Len(subject) \in Nat /\ Len(subject') = Len(subject) + 1
      /\ \A x \in 1..Len(subject) : subject'[x] = subject[x] /\ x \in 1..Len(subject')
  OBVIOUS
<1>2. PICK i, j \in 1..Len(subject) :
        /\ i < j /\ subject[i] \in Digit /\ subject[j] \in Blank \cup {Space}
        /\ Cardinality({k \in 1..(j - 1) : subject[k] \in Digit}) < 4
  BY DEF YearIsSplit
<1>3. \A k \in 1..(j - 1) : k \in 1..Len(subject)
  BY <1>1
<1>4. {k \in 1..(j - 1) : subject'[k] \in Digit} = {k \in 1..(j - 1) : subject[k] \in Digit}
  BY <1>1, <1>3
<1> QED
  BY <1>1, <1>2, <1>4 DEF YearIsSplit

\* White space behind one to three digits splits the year.
LEMMA SplitBy ==
  ASSUME subject \in Seq(Letter), NEW c \in Letter, subject' = Append(subject, c),
         NEW n, IsLead(subject, n), NEW m \in 1..2, NEW d \in 1..2, NEW h \in 1..2,
         NEW mi \in 1..2, Follows(subject, n, m, d, h, mi),
         Len(subject) - n \in 1..3, c \in Blank \cup {Space}
  PROVE  YearIsSplit'
<1> DEFINE l == Len(subject)
<1>1. /\ l \in Nat /\ Len(subject') = l + 1 /\ subject'[l + 1] = c
      /\ \A x \in 1..l : subject'[x] = subject[x]
  OBVIOUS
<1>2. n \in 0..l
  BY DEF IsLead
<1>3. n \in Nat /\ n + 1 \in 1..l /\ n + 1 < l + 1 /\ l - n \in 1..3 /\ (l + 1) - 1 = l
      /\ n + 1 \in 1..(l + 1) /\ l + 1 \in 1..(l + 1)
  BY <1>1, <1>2
<1>8. l = Len(subject)
  OBVIOUS
<1> HIDE DEF l
<1>4. subject[n + 1] \in Digit
  <2>4. 1 \in 1..(l - n)
    BY <1>3
  <2>3. 1 \in 1..(Len(subject) - n)
    BY <1>8, <2>4
  <2>1. subject[n + 1] \in At(1, m, d, h, mi)
    BY <2>3 DEF Follows
  <2>2. At(1, m, d, h, mi) = Digit
    BY DEF At, Want
  <2> QED
    BY <2>1, <2>2
<1>5. {k \in 1..l : subject'[k] \in Digit} \subseteq (n + 1)..l
  <2>1. \A k \in 1..n : subject[k] \notin Digit
    BY TextAssumption DEF IsLead
  <2>2. \A k \in 1..l : k \in 1..n \/ k \in (n + 1)..l
    BY <1>1, <1>3
  <2> QED
    BY <1>1, <2>1, <2>2
<1>6. Cardinality({k \in 1..l : subject'[k] \in Digit}) < 4
  <2> DEFINE D == {k \in 1..l : subject'[k] \in Digit}
  <2>1. IsFiniteSet((n + 1)..l) /\ Cardinality((n + 1)..l) = l - n
    <3>1. n + 1 \in Int /\ l \in Int /\ ~(n + 1 > l) /\ l - (n + 1) + 1 = l - n
      BY <1>1, <1>3
    <3> QED
      BY <3>1, FS_Interval
  <2>2. Cardinality(D) =< Cardinality((n + 1)..l) /\ IsFiniteSet(D)
    BY <1>5, <2>1, FS_Subset
  <2>3. Cardinality(D) \in Nat
    BY <2>2, FS_CardinalityType
  <2>4. \A x \in Nat : x =< l - n => x < 4
    BY <1>3
  <2>5. Cardinality(D) < 4
    <3> HIDE DEF D
    <3> QED
      BY <2>1, <2>2, <2>3, <2>4
  <2> QED
    BY <2>5
<1>7. subject'[n + 1] \in Digit /\ subject'[l + 1] \in Blank \cup {Space}
  BY <1>1, <1>3, <1>4
<1> QED
  BY <1>1, <1>3, <1>6, <1>7 DEF YearIsSplit

\* The invariant holds of the empty text.
LEMMA TimeStarts == TimeInit => TimeInv
<1> SUFFICES ASSUME TimeInit PROVE TimeInv
  OBVIOUS
<1>1. /\ subject = <<>> /\ Len(subject) = 0 /\ valid = TRUE
      /\ matched = [p \in Parts |-> 0]
  BY DEF TimeInit
<1>2. subject \in Seq(Letter) /\ valid \in BOOLEAN /\ matched \in [Parts -> 0..5]
  <2>1. subject \in Seq(Letter) /\ matched \in [Parts -> 0..5]
    BY <1>1
  <2>2. valid \in BOOLEAN
    BY <1>1, Zenon
  <2> QED
    BY <2>1, <2>2
<1>3. IsLead(subject, 0) /\ 0 \in 0..Len(subject)
  BY <1>1 DEF IsLead
<1>4. \A n \in 0..Len(subject) : n = 0
  BY <1>1
<1>5. \A m, d, h, mi \in 1..2 : Counted(matched, 0, m, d, h, mi)
  BY <1>1 DEF Counted, Stage, Parts
<1>6. InStep
  <2>1. \A n \in 0..Len(subject) : Len(subject) - n = 0
    BY <1>1, <1>4
  <2>2. valid
    BY <1>1
  <2> QED
    BY <1>5, <2>1, <2>2 DEF InStep
<1>7. \A m, d, h, mi \in 1..2 : Follows(subject, 0, m, d, h, mi)
  <2>1. 1..(Len(subject) - 0) = {}
    BY <1>1
  <2> QED
    BY <2>1 DEF Follows
<1>8. OnTrack
  <2>1. 1 \in 1..2
    OBVIOUS
  <2> QED
    BY <1>3, <1>7, <2>1 DEF OnTrack
<1> QED
  BY <1>2, <1>3, <1>6, <1>8 DEF TimeInv

\* Reading a character keeps the types.
LEMMA ReadingTyped ==
  ASSUME valid \in BOOLEAN, matched \in [Parts -> 0..5], NEW c \in Letter, ReadCharacter(c)
  PROVE  valid' \in BOOLEAN /\ matched' \in [Parts -> 0..5]
<1>1. ASSUME NEW part \in Parts, NEW n \in 0..5, Matching(part, n)
      PROVE  valid' \in BOOLEAN /\ matched' \in [Parts -> 0..5]
  <2>1. matched' \in [Parts -> 0..5]
    BY <1>1 DEF Matching
  <2>2. valid' = valid
    BY <1>1 DEF Matching
  <2> QED
    BY <2>1, <2>2, Zenon
<1>2. ASSUME Refuse PROVE valid' \in BOOLEAN /\ matched' \in [Parts -> 0..5]
  <2>1. valid' = FALSE /\ matched' = matched
    BY <1>2 DEF Refuse
  <2> QED
    BY <2>1, Zenon
<1>3. ASSUME NEW part \in Parts, DigitOf(part, c), matched[part] < 4
      PROVE  valid' \in BOOLEAN /\ matched' \in [Parts -> 0..5]
  <2>1. matched[part] + 1 \in 0..5
    <3>1. matched[part] \in 0..5
      OBVIOUS
    <3> QED
      BY <1>3, <3>1
  <2>2. CASE Matching(part, matched[part] + 1)
    BY <1>1, <2>1, <2>2
  <2> QED
    BY <1>2, <1>3, <2>2 DEF DigitOf
<1>4. ASSUME NEW part \in Parts, NEW sep, TwoDigits(part, sep, c)
      PROVE  valid' \in BOOLEAN /\ matched' \in [Parts -> 0..5]
  <2>1. CASE Matching(part, 3)
    BY <1>1, <2>1
  <2>2. CASE matched[part] < 2 /\ DigitOf(part, c)
    <3>1. matched[part] < 4
      <4>1. matched[part] \in 0..5
        OBVIOUS
      <4> QED
        BY <2>2, <4>1
    <3> QED
      BY <1>3, <2>2, <3>1
  <2>3. CASE Refuse
    BY <1>2, <2>3
  <2> QED
    BY <1>4, <2>1, <2>2, <2>3 DEF TwoDigits
<1>5. ASSUME Year(c) PROVE valid' \in BOOLEAN /\ matched' \in [Parts -> 0..5]
  <2>0. "year" \in Parts
    BY DEF Parts
  <2>1. CASE UNCHANGED <<matched, valid>>
    BY <2>1, Zenon
  <2>2. CASE matched["year"] < 4 /\ DigitOf("year", c)
    BY <1>3, <2>0, <2>2
  <2>3. CASE Matching("year", 5)
    BY <1>1, <2>0, <2>3
  <2>4. CASE Refuse
    BY <1>2, <2>4
  <2> QED
    BY <1>5, <2>1, <2>2, <2>3, <2>4 DEF Year
<1>6. ASSUME Second(c) PROVE valid' \in BOOLEAN /\ matched' \in [Parts -> 0..5]
  <2>0. "second" \in Parts
    BY DEF Parts
  <2>1. CASE UNCHANGED matched /\ valid' = (c \in Blank \cup LineEnd \cup {Space})
    <3>1. valid' = TRUE \/ valid' = FALSE
      BY <2>1
    <3>2. valid' \in BOOLEAN
      BY <3>1, Zenon
    <3> QED
      BY <2>1, <3>2
  <2>2. CASE matched["second"] < 2 /\ DigitOf("second", c)
    <3>1. matched["second"] < 4
      <4>1. matched["second"] \in 0..5
        BY <2>0
      <4> QED
        BY <2>2, <4>1
    <3> QED
      BY <1>3, <2>0, <2>2, <3>1
  <2> QED
    BY <1>6, <2>1, <2>2 DEF Second
<1>7. {"month", "day", "hour", "minute"} \subseteq Parts
  BY DEF Parts
<1>8. \/ Year(c) \/ Second(c)
      \/ TwoDigits("month", Dash, c) \/ TwoDigits("day", Space, c)
      \/ TwoDigits("hour", Colon, c) \/ TwoDigits("minute", Colon, c)
  BY DEF ReadCharacter
<1> QED
  BY <1>4, <1>5, <1>6, <1>7, <1>8

\* A blank behind blanks: nothing of the pattern was read yet.
LEMMA BlankRead ==
  ASSUME TimeInv, NEW c \in Letter, ReadCharacter(c),
         NEW n \in 0..Len(subject), IsLead(subject, n),
         n = Len(subject), c \in Blank \cup {Space}
  PROVE  InStep' /\ OnTrack'
<1>1. /\ subject \in Seq(Letter) /\ matched \in [Parts -> 0..5]
      /\ subject' = Append(subject, c) /\ valid
  BY DEF TimeInv, ReadCharacter
<1>2. Len(subject) \in Nat /\ Len(subject') = Len(subject) + 1 /\ subject' \in Seq(Letter)
  BY <1>1
<1>3. IsLead(subject', n + 1)
  BY <1>1, LeadGrows
<1>4. n + 1 \in 0..Len(subject') /\ Len(subject') - (n + 1) = 0 /\ n \in Nat
  BY <1>2
<1>5. \A m, d, h, mi \in 1..2 : Follows(subject, n, m, d, h, mi)
  <2>1. Len(subject) - n = 0 /\ 1..0 = {}
    BY <1>2
  <2> QED
    BY <2>1 DEF Follows
<1>6. \A m, d, h, mi \in 1..2 : Counted(matched, 0, m, d, h, mi)
  <2>1. Len(subject) - n = 0
    BY <1>2
  <2> QED
    BY <1>5, <2>1 DEF TimeInv, InStep
<1>7. matched["year"] = 0
  <2>1. Counted(matched, 0, 1, 1, 1, 1)
    <3>1. 1 \in 1..2
      OBVIOUS
    <3> QED
      BY <1>6, <3>1
  <2> QED
    BY <2>1 DEF Counted
<1>8. UNCHANGED <<matched, valid>>
  <2>1. Year(c)
    BY <1>7 DEF ReadCharacter
  <2> QED
    BY <1>7, <2>1 DEF Year
<1>9. \A x \in 0..Len(subject') : IsLead(subject', x) => x = n + 1
  BY <1>2, <1>3, LeadIs
<1>10. InStep'
  <2>1. ASSUME NEW m \in 1..2, NEW d \in 1..2, NEW h \in 1..2, NEW mi \in 1..2,
               NEW x \in 0..Len(subject'), IsLead(subject', x)
        PROVE  valid' /\ Counted(matched', Len(subject') - x, m, d, h, mi)
    <3>1. x = n + 1
      BY <1>9, <2>1
    <3>2. Counted(matched', 0, m, d, h, mi)
      BY <1>6, <1>8
    <3> QED
      BY <1>1, <1>4, <1>8, <3>1, <3>2
  <2> QED
    BY <2>1 DEF InStep
<1>11. Follows(subject', n + 1, 1, 1, 1, 1)
  <2>1. 1..(Len(subject') - (n + 1)) = {}
    BY <1>4
  <2> QED
    BY <2>1 DEF Follows
<1>12. OnTrack'
  <2>1. 1 \in 1..2
    OBVIOUS
  <2> QED
    BY <1>3, <1>4, <1>11, <2>1 DEF OnTrack
<1> QED
  BY <1>10, <1>12

\* Any other character is one of the pattern, or is not.
LEMMA PatternRead ==
  ASSUME TimeInv, NEW c \in Letter, ReadCharacter(c),
         NEW n \in 0..Len(subject), IsLead(subject, n),
         ~(n = Len(subject) /\ c \in Blank \cup {Space})
  PROVE  InStep' /\ OnTrack'
<1> DEFINE k == Len(subject) - n
<1>1. /\ subject \in Seq(Letter) /\ matched \in [Parts -> 0..5]
      /\ subject' = Append(subject, c) /\ valid
  BY DEF TimeInv, ReadCharacter
<1>2. Len(subject) \in Nat /\ Len(subject') = Len(subject) + 1 /\ subject' \in Seq(Letter)
  BY <1>1
<1>3. IsLead(subject', n)
  BY <1>1, LeadGrows
<1>4. /\ n \in 0..Len(subject') /\ Len(subject') - n = k + 1 /\ k \in Nat
      /\ k = 0 => n = Len(subject)
  BY <1>2
<1>5. \A x \in 0..Len(subject') : IsLead(subject', x) => x = n
  BY <1>2, <1>3, LeadIs
<1>6. \A m, d, h, mi \in 1..2 :
        Follows(subject', n, m, d, h, mi)
          <=> Follows(subject, n, m, d, h, mi) /\ c \in At(k + 1, m, d, h, mi)
  BY <1>1, FollowsGrows
<1>7. ASSUME NEW m \in 1..2, NEW d \in 1..2, NEW h \in 1..2, NEW mi \in 1..2,
             Follows(subject, n, m, d, h, mi)
      PROVE  Counted(matched, k, m, d, h, mi)
  BY <1>7 DEF TimeInv, InStep
<1> HIDE DEF k
<1>8. InStep'
  <2>1. ASSUME NEW m \in 1..2, NEW d \in 1..2, NEW h \in 1..2, NEW mi \in 1..2,
               Follows(subject', n, m, d, h, mi)
        PROVE  valid' /\ Counted(matched', k + 1, m, d, h, mi)
    <3>1. Follows(subject, n, m, d, h, mi) /\ c \in At(k + 1, m, d, h, mi)
      BY <1>6, <2>1
    <3>2. Counted(matched, k, m, d, h, mi)
      BY <1>7, <3>1
    <3> QED
      BY <1>1, <1>4, <3>1, <3>2, GoesOn
  <2> QED
    BY <1>4, <1>5, <2>1 DEF InStep
<1>9. ASSUME valid', ~YearIsSplit'
      PROVE  \E m, d, h, mi \in 1..2 : Follows(subject', n, m, d, h, mi)
  <2>1. ~YearIsSplit
    BY <1>1, <1>9, SplitStays
  <2>2. PICK m, d, h, mi \in 1..2 : \E x \in 0..Len(subject) :
          IsLead(subject, x) /\ Follows(subject, x, m, d, h, mi)
    BY <1>1, <2>1 DEF TimeInv, OnTrack
  <2>3. \A x \in 0..Len(subject) : IsLead(subject, x) => x = n
    BY <1>1, LeadIs
  <2>4. Follows(subject, n, m, d, h, mi)
    BY <2>2, <2>3
  <2>5. Counted(matched, k, m, d, h, mi)
    BY <1>7, <2>4
  <2>6. ~(k < 4 /\ c \in Blank \cup {Space})
    <3>1. SUFFICES ASSUME k < 4, c \in Blank \cup {Space} PROVE FALSE
      OBVIOUS
    <3>2. k \in 1..3
      BY <1>4, <3>1
    <3>3. Len(subject) - n \in 1..3
      BY <3>2 DEF k
    <3> QED
      BY <1>1, <1>9, <2>4, <3>1, <3>3, SplitBy
  <2>7. PICK m2, d2, h2, mi2 \in 1..2 :
          /\ c \in At(k + 1, m2, d2, h2, mi2)
          /\ \A i \in 1..k : At(i, m2, d2, h2, mi2) = At(i, m, d, h, mi)
    <3>1. GoesOnWith(c, k, m, d, h, mi)
      BY <1>1, <1>4, <1>9, <2>5, <2>6, Takes
    <3> QED
      BY <3>1 DEF GoesOnWith
  <2>8. Follows(subject, n, m2, d2, h2, mi2)
    <3>1. \A i \in 1..k : subject[n + i] \in At(i, m, d, h, mi)
      BY <2>4 DEF Follows, k
    <3>2. \A i \in 1..k : subject[n + i] \in At(i, m2, d2, h2, mi2)
      BY <2>7, <3>1
    <3> QED
      BY <3>2 DEF Follows, k
  <2> QED
    BY <1>6, <2>7, <2>8
<1>10. OnTrack'
  BY <1>3, <1>4, <1>9 DEF OnTrack
<1> QED
  BY <1>8, <1>10

\* Every step keeps the invariant.
LEMMA TimeStep == TimeInv /\ [TimeNext]_timeVars => TimeInv'
<1> SUFFICES ASSUME TimeInv, [TimeNext]_timeVars PROVE TimeInv'
  OBVIOUS
<1>1. ASSUME UNCHANGED <<subject, matched, valid>> PROVE TimeInv'
  BY <1>1 DEF TimeInv, InStep, OnTrack, YearIsSplit
<1>2. CASE UNCHANGED timeVars
  BY <1>1, <1>2 DEF timeVars
<1>3. CASE Return
  BY <1>1, <1>3 DEF Return
<1>4. ASSUME NEW c \in Letter, ReadCharacter(c) PROVE TimeInv'
  <2>1. /\ subject \in Seq(Letter) /\ valid \in BOOLEAN /\ matched \in [Parts -> 0..5]
        /\ subject' = Append(subject, c)
    BY <1>4 DEF TimeInv, ReadCharacter
  <2>2. PICK n \in 0..Len(subject) : IsLead(subject, n)
    BY DEF TimeInv
  <2>3. InStep' /\ OnTrack'
    <3>1. CASE n = Len(subject) /\ c \in Blank \cup {Space}
      BY <1>4, <2>2, <3>1, BlankRead
    <3>2. CASE ~(n = Len(subject) /\ c \in Blank \cup {Space})
      BY <1>4, <2>2, <3>2, PatternRead
    <3> QED
      BY <3>1, <3>2
  <2>4. subject' \in Seq(Letter)
    BY <2>1
  <2>5. valid' \in BOOLEAN /\ matched' \in [Parts -> 0..5]
    BY <1>4, <2>1, ReadingTyped
  <2>6. \E x \in 0..Len(subject') : IsLead(subject', x)
    <3>1. IsLead(subject', n) \/ IsLead(subject', n + 1)
      BY <2>1, <2>2, LeadGrows
    <3> QED
      BY <3>1 DEF IsLead
  <2> QED
    BY <2>3, <2>4, <2>5, <2>6 DEF TimeInv
<1> QED
  BY <1>2, <1>3, <1>4 DEF TimeNext

\* The counters say how far the text went through the pattern.
THEOREM TimeCounted == TimeSpec => []TimeInv
<1> QED
  BY TimeStarts, TimeStep, PTL DEF TimeSpec

\* No beginning of a timestamp is refused, whichever of month, day, hour and
\* minute have one digit and whichever have two.
THEOREM NoneRefused == TimeSpec => []RefusesNoTimestamp
<1>1. ASSUME TimeInv PROVE RefusesNoTimestamp
  <2>1. PICK n \in 0..Len(subject) : IsLead(subject, n)
    BY <1>1 DEF TimeInv
  <2>2. subject \in Seq(Letter)
    BY <1>1 DEF TimeInv
  <2>3. ASSUME NEW m \in 1..2, NEW d \in 1..2, NEW h \in 1..2, NEW mi \in 1..2,
               Begins(subject, m, d, h, mi)
        PROVE  valid
    <3>1. Follows(subject, n, m, d, h, mi)
      BY <2>1, <2>2, <2>3, BeginsIs
    <3> QED
      BY <1>1, <2>1, <3>1 DEF TimeInv, InStep
  <2> QED
    BY <2>3 DEF RefusesNoTimestamp, BeginsATimestamp
<1> QED
  BY <1>1, TimeCounted, PTL

\* What is not refused begins a timestamp, but for white space in the year.
THEOREM OnlyBeginnings == TimeSpec => []AcceptsOnlyBeginnings
<1>1. ASSUME TimeInv PROVE AcceptsOnlyBeginnings
  <2>1. SUFFICES ASSUME valid, ~YearIsSplit PROVE BeginsATimestamp(subject)
    BY DEF AcceptsOnlyBeginnings
  <2>2. subject \in Seq(Letter)
    BY <1>1 DEF TimeInv
  <2>3. PICK m, d, h, mi \in 1..2 : \E n \in 0..Len(subject) :
          IsLead(subject, n) /\ Follows(subject, n, m, d, h, mi)
    BY <1>1, <2>1 DEF TimeInv, OnTrack
  <2>4. Begins(subject, m, d, h, mi)
    BY <2>2, <2>3, BeginsIs
  <2> QED
    BY <2>4 DEF BeginsATimestamp
<1> QED
  BY <1>1, TimeCounted, PTL
=============================================================================
