------------------------------ MODULE Objects ------------------------------
(***************************************************************************)
(* The objects of the library and who holds whom: formats with their       *)
(* columns, validations and format files, parsers, validators, and the     *)
(* strings and arrays in them, made and freed by a client of the library,  *)
(* while any allocation may fail.                                          *)
(*                                                                         *)
(* A pointer to another object is a reference [from, field, to]; a field   *)
(* that points to the null object of its class has no reference.  The      *)
(* array of columns and the array of validations are classes of their own, *)
(* told apart in the code by the auto_free function each is given.  The    *)
(* pointer of a format file back to a format holds nothing, and is kept    *)
(* apart from the references: `pointers'.                                  *)
(***************************************************************************)
EXTENDS Naturals, FiniteSets

CONSTANTS Address,   \* where objects can be
          Client,    \* the holder of what the client made and did not give away
          NullFile,  \* null_PDTFormatFile
          Malloc(_), \* the address malloc() returns, given those in use
          MaxHeld,   \* a bound on what the client holds at a time
          MaxCalls   \* a bound on the calls of the client and the lines of the files read

ASSUME HeapAssumption ==
    /\ {Client, NullFile} \cap Address = {}
    /\ MaxHeld \in Nat /\ MaxCalls \in Nat
    /\ \A used \in SUBSET Address : used # Address => Malloc(used) \in Address \ used

VARIABLES heap,      \* class: what is at each address; refs: the references;
                     \* failed: the classes an allocation of which has failed
          pointers,  \* the formats that were stored in format files, also in the null one
          ready,     \* the classes whose null object has been set up
          reading,   \* the format a format file is being read into, if any
          calls,     \* how many calls there have been
          ended      \* the program has left through exit() or a bad pointer

vars == <<heap, pointers, ready, reading, calls, ended>>

Strings == {"delimiter", "quote"}
Buffers == {"_chunk", "_key", "_value"}

Class == {"Format", "Columns", "Column", "Validations", "Validation", "Arguments",
          "FormatFile", "Parser", "Validator", "String"}

\* The fields of each class that hold another object.
Fields(class) ==
    CASE class = "Format"      -> {"columns", "format_file", "escape"} \cup Strings
      [] class = "Columns"     -> {"column"}
      [] class = "Column"      -> {"column_name", "validations"}
      [] class = "Validations" -> {"validation"}
      [] class = "Validation"  -> {"validation_name", "arguments"}
      [] class = "FormatFile"  -> {"format_file_path"} \cup Buffers
      [] class = "Parser"      -> {"input", "field", "lookahead", "trailing_space"} \cup Strings
      [] OTHER                 -> {}

Arrays == {"Columns", "Validations"}

\* The classes of the object a field holds.
ClassOf(field) ==
    CASE field = "columns"     -> {"Columns"}
      [] field = "column"      -> {"Column"}
      [] field = "validations" -> {"Validations"}
      [] field = "validation"  -> {"Validation"}
      [] field = "arguments"   -> {"Arguments"}
      [] field = "format_file" -> {"FormatFile"}
      [] field = "held"        -> {"Format", "FormatFile", "Parser", "Validator", "String"}
      [] OTHER                 -> {"String"}

\* Mutant: class_PDTFormat() without class_PDTFormatFile().
LoadsWithoutFormatFile ==
    [Validation |-> {"Validation"},
     Column     |-> {"Validation", "Column"},
     FormatFile |-> {"FormatFile"},
     Format     |-> {"Validation", "Column", "Format"},
     Parser     |-> {"Parser"},
     Validator  |-> {"Validator"}]

\* What class_X() sets up: its own null object behind those of its dependencies.
Loads ==
    [Validation |-> {"Validation"},
     Column     |-> {"Validation", "Column"},
     FormatFile |-> {"FormatFile"},
     Format     |-> {"Validation", "Column", "FormatFile", "Format"},
     Parser     |-> {"Parser"},
     Validator  |-> {"Validator"}]

\* The null objects init() stores in the fields of a new object.
StartsWith(class) ==
    CASE class = "Format"     -> {"FormatFile"}
      [] class = "FormatFile" -> {"Format"}
      [] OTHER                -> {}

Reference(from, field, to) == [from |-> from, field |-> field, to |-> to]

InUse(s) == {a \in Address : s.class[a] # "free"}

Objects(s, class) == {a \in Address : s.class[a] = class}

\* The objects the objects of a set hold in a field.
Held(s, holders, field) == {a \in Address : \E h \in holders : Reference(h, field, a) \in s.refs}

\* The field `format' of a format file.
Pointer(file, format) == [file |-> file, format |-> format]

\* What is left of the pointers when only the format files of a heap are.
Remaining(s) == {p \in pointers : p.file \in Objects(s, "FormatFile") \cup {NullFile}}

\* file->format = format
Pointing(ps, file, format) == {p \in ps : p.file # file} \cup {Pointer(file, format)}

Mine(s, class) == Held(s, {Client}, "held") \cap Objects(s, class)

----------------------------------------------------------------------------
(* Allocation, assignment, free() *)

\* What cannot be had in a call: objects of one class, once, or nothing when
\* all addresses are in use.
Shortage(s, classes) == {{}} \cup IF s.failed = {} THEN {{c} : c \in classes} ELSE {}

Fails(s, class, fails) == class \in fails \/ InUse(s) = Address

\* Where alloc_X() puts the object: nowhere when it returns the null object.
Place(s, class, fails) == IF Fails(s, class, fails) THEN {} ELSE {Malloc(InUse(s))}

\* alloc_X(), and the assignment of what it returns to a field of each holder.
New(s, class, holders, field, fails) ==
    IF Fails(s, class, fails)
    THEN [class |-> s.class, refs |-> s.refs, failed |-> s.failed \cup {class}]
    ELSE LET a == Malloc(InUse(s)) IN
         [class  |-> [s.class EXCEPT ![a] = class],
          refs   |-> s.refs \cup {Reference(h, field, a) : h \in holders},
          failed |-> s.failed]

\* free() of a set of objects.  What points to them still points to them.
Free(s, gone) ==
    [class  |-> [a \in Address |-> IF a \in gone THEN "free" ELSE s.class[a]],
     refs   |-> {r \in s.refs : r.from \notin gone},
     failed |-> s.failed]

Unset(s, from, field) ==
    [class |-> s.class, refs |-> {r \in s.refs : r.from # from \/ r.field # field}, failed |-> s.failed]

Set(s, from, field, to) ==
    [class  |-> s.class,
     refs   |-> Unset(s, from, field).refs \cup {Reference(from, field, to)},
     failed |-> s.failed]

\* The client hands an object over, or frees it.
GiveAway(s, a) == [class |-> s.class, refs |-> s.refs \ {Reference(Client, "held", a)}, failed |-> s.failed]

----------------------------------------------------------------------------
(* What the free() of each class frees *)

FreeValidation(s, v) == v \cup Held(s, v, "validation_name") \cup Held(s, v, "arguments")

\* Mutant: the validations of a column are not freed with it.
FreeColumnAlone(s, c) == c \cup Held(s, c, "column_name")

FreeColumn(s, c) ==
    LET validations == Held(s, c, "validations") IN
    UNION {c, Held(s, c, "column_name"), validations, FreeValidation(s, Held(s, validations, "validation"))}

FreeFormatFile(s, x) ==
    UNION {x, Held(s, x, "format_file_path"), Held(s, x, "_chunk"), Held(s, x, "_key"), Held(s, x, "_value")}

FreeFormat(s, f) ==
    LET columns == Held(s, f, "columns") IN
    UNION {f, columns, FreeColumn(s, Held(s, columns, "column")), Held(s, f, "delimiter"),
           Held(s, f, "escape"), Held(s, f, "quote"), FreeFormatFile(s, Held(s, f, "format_file"))}

FreeParser(s, p) ==
    UNION {p, Held(s, p, "input"), Held(s, p, "field"), Held(s, p, "lookahead"),
           Held(s, p, "trailing_space"), Held(s, p, "delimiter"), Held(s, p, "quote")}

FreeObject(s, a) ==
    CASE s.class[a] = "Format"     -> FreeFormat(s, {a})
      [] s.class[a] = "FormatFile" -> FreeFormatFile(s, {a})
      [] s.class[a] = "Parser"     -> FreeParser(s, {a})
      [] OTHER                     -> {a}

----------------------------------------------------------------------------
(* The methods, on a heap *)

NewString(s, holders, field, fails) == New(s, "String", holders, field, fails)

\* Mutant: the field keeps its pointer when the copy cannot be made.
CopyIntoIfPossible(s, a, field, fails) ==
    IF Fails(s, "String", fails)
    THEN Free(s, Held(s, {a}, field))
    ELSE NewString(Unset(Free(s, Held(s, {a}, field)), a, field), {a}, field, fails)

\* set_delimiter() and set_quote() of the parser: the old string goes, a copy comes.
CopyInto(s, a, field, fails) ==
    NewString(Unset(Free(s, Held(s, {a}, field)), a, field), {a}, field, fails)

NewFormatFile(s, holder, field, fails) ==
    LET x == Place(s, "FormatFile", fails)
        made == New(s, "FormatFile", {holder}, field, fails)
        path == NewString(made, x, "format_file_path", fails)
        chunk == NewString(path, x, "_chunk", fails)
        key == NewString(chunk, x, "_key", fails)
    IN IF x = {} THEN made ELSE NewString(key, x, "_value", fails)

NewParser(s, fails) ==
    LET p == Place(s, "Parser", fails)
        made == New(s, "Parser", {Client}, "held", fails)
        input == NewString(made, p, "input", fails)
        field == NewString(input, p, "field", fails)
        lookahead == NewString(field, p, "lookahead", fails)
    IN NewString(lookahead, p, "trailing_space", fails)

\* Mutant: the array is made for each element.
WithColumnsEachTime(s, f, fails) == New(s, "Columns", {f}, "columns", fails)

\* The array is made for its first element.  What is added to the null array is lost.
WithColumns(s, f, fails) ==
    IF Held(s, {f}, "columns") = {} THEN New(s, "Columns", {f}, "columns", fails) ELSE s

AddColumn(s, f, fails) ==
    LET array == WithColumns(s, f, fails)
        column == Place(array, "Column", fails)
        made == New(array, "Column", Held(array, {f}, "columns"), "column", fails)
    IN IF column = {} THEN made ELSE NewString(made, column, "column_name", fails)

WithValidations(s, c, fails) ==
    IF Held(s, {c}, "validations") = {} THEN New(s, "Validations", {c}, "validations", fails) ELSE s

\* A validation has arguments if there are parentheses in its name.
AddValidation(s, c, arguments, fails) ==
    LET array == WithValidations(s, c, fails)
        validation == Place(array, "Validation", fails)
        made == New(array, "Validation", Held(array, {c}, "validations"), "validation", fails)
        named == NewString(made, validation, "validation_name", fails)
    IN IF validation = {} THEN made
       ELSE IF arguments THEN New(named, "Arguments", validation, "arguments", fails) ELSE named

\* read_file(): the old format file goes, a new one comes, and is read.
ReplaceFormatFile(s, f, fails) ==
    NewFormatFile(Unset(Free(s, FreeFormatFile(s, Held(s, {f}, "format_file"))), f, "format_file"),
                  f, "format_file", fails)

----------------------------------------------------------------------------
(* The client *)

Init ==
    /\ heap = [class |-> [a \in Address |-> "free"], refs |-> {}, failed |-> {}]
    /\ pointers = {}
    /\ ready = {}
    /\ reading = {}
    /\ calls = 0
    /\ ended = FALSE

\* Between two calls of the client.
Running == ~ended /\ calls < MaxCalls /\ calls' = calls + 1

Calls == Running /\ reading = {}

\* It makes another object.
Makes == Calls /\ Cardinality(Held(heap, {Client}, "held")) < MaxHeld

Load(class) == ready' = ready \cup Loads[class]

MakeString ==
    /\ Makes
    /\ \E fails \in Shortage(heap, {"String"}) : heap' = NewString(heap, {Client}, "held", fails)
    /\ UNCHANGED <<pointers, ready, reading, ended>>

MakeFormat ==
    /\ Makes
    /\ \E fails \in Shortage(heap, {"Format"}) : heap' = New(heap, "Format", {Client}, "held", fails)
    /\ Load("Format")
    /\ UNCHANGED <<pointers, reading, ended>>

MakeValidator ==
    /\ Makes
    /\ \E fails \in Shortage(heap, {"Validator"}) : heap' = New(heap, "Validator", {Client}, "held", fails)
    /\ Load("Validator")
    /\ UNCHANGED <<pointers, reading, ended>>

\* When there is none to be had, init() sets up the null object once more.
MakeFormatFile ==
    /\ Makes
    /\ \E fails \in Shortage(heap, {"FormatFile", "String"}) :
          /\ heap' = NewFormatFile(heap, Client, "held", fails)
          /\ pointers' = {p \in pointers : Fails(heap, "FormatFile", fails) => p.file # NullFile}
    /\ Load("FormatFile")
    /\ UNCHANGED <<reading, ended>>

\* alloc_ParseDelimitedText() has no null object to return: it follows a pointer it does not have.
MakeParser ==
    /\ Makes
    /\ \E fails \in Shortage(heap, {"Parser", "String"}) :
          IF Fails(heap, "Parser", fails)
          THEN ended' = TRUE /\ UNCHANGED heap
          ELSE heap' = NewParser(heap, fails) /\ UNCHANGED ended
    /\ Load("Parser")
    /\ UNCHANGED <<pointers, reading>>

\* Mutant: the client goes on holding the string.
SetStringShared ==
    /\ Calls
    /\ \E f \in Mine(heap, "Format"), string \in Mine(heap, "String"), field \in Strings \cup {"escape"} :
          heap' = Set(Free(heap, Held(heap, {f}, field)), f, field, string)
    /\ UNCHANGED <<pointers, ready, reading, ended>>

\* set_delimiter(), set_escape(), set_quote() of a format: the string changes hands.
SetString ==
    /\ Calls
    /\ \E f \in Mine(heap, "Format"), string \in Mine(heap, "String"), field \in Strings \cup {"escape"} :
          heap' = Set(Free(GiveAway(heap, string), Held(heap, {f}, field)), f, field, string)
    /\ UNCHANGED <<pointers, ready, reading, ended>>

\* set_format_file_path(): the string is copied.
SetFormatFilePath ==
    /\ Calls
    /\ Mine(heap, "String") # {}
    /\ \E x \in Mine(heap, "FormatFile"), fails \in Shortage(heap, {"String"}) :
          heap' = CopyInto(heap, x, "format_file_path", fails)
    /\ UNCHANGED <<pointers, ready, reading, ended>>

\* set_delimiter(), set_quote() of a parser.
SetParserString ==
    /\ Calls
    /\ \E p \in Mine(heap, "Parser"), field \in Strings, fails \in Shortage(heap, {"String"}) :
          heap' = CopyInto(heap, p, field, fails)
    /\ UNCHANGED <<pointers, ready, reading, ended>>

ApplyFormat ==
    /\ Calls
    /\ Mine(heap, "Format") # {}
    /\ \E p \in Mine(heap, "Parser"), fails \in Shortage(heap, {"String"}) :
          heap' = CopyInto(CopyInto(heap, p, "delimiter", fails), p, "quote", fails)
    /\ UNCHANGED <<pointers, ready, reading, ended>>

\* The client frees what it holds.
FreeHeld ==
    /\ Calls
    /\ \E a \in Held(heap, {Client}, "held") : heap' = Free(GiveAway(heap, a), FreeObject(heap, a))
    /\ pointers' = Remaining(heap')
    /\ UNCHANGED <<ready, reading, ended>>

----------------------------------------------------------------------------
(* Columns and settings, from the client or from the file that is read *)

Target == IF reading = {} THEN Mine(heap, "Format") ELSE reading

MoreColumns ==
    /\ Running
    /\ \E f \in Target, fails \in Shortage(heap, {"Columns", "Column", "String"}) : heap' = AddColumn(heap, f, fails)
    /\ Load("Column")
    /\ UNCHANGED <<pointers, reading, ended>>

MoreValidations ==
    /\ Running
    /\ \E c \in Held(heap, Held(heap, Target, "columns"), "column"), arguments \in BOOLEAN,
          fails \in Shortage(heap, {"Validations", "Validation", "String", "Arguments"}) :
          heap' = AddValidation(heap, c, arguments, fails)
    /\ Load("Validation")
    /\ UNCHANGED <<pointers, reading, ended>>

\* The format file a format has, or the null object.
FileOf(s, f) ==
    LET files == Held(s, {f}, "format_file") IN
    IF files = {} THEN NullFile ELSE CHOOSE x \in files : TRUE

\* read_file() of a format, which is stored in its new format file, or in the null
\* object when there is none to be had.  Nothing is read by the null object or
\* without a file name, and the program ends when the file cannot be opened.
ReadFile ==
    /\ Calls
    /\ \E f \in Mine(heap, "Format"), fails \in Shortage(heap, {"FormatFile", "String"}) :
          LET replaced == ReplaceFormatFile(heap, f, fails)
              named == Held(replaced, Held(replaced, {f}, "format_file"), "format_file_path")
          IN /\ heap' = replaced
             /\ pointers' = Pointing(Remaining(replaced), FileOf(replaced, f), f)
             /\ IF named = {} THEN UNCHANGED <<reading, ended>> ELSE reading' = {f} /\ ended' \in BOOLEAN
    /\ Load("FormatFile")

\* parse() of a format file the client made, with a format it stores in it.
ReadIntoFormat ==
    /\ Calls
    /\ \E x \in Mine(heap, "FormatFile"), f \in Mine(heap, "Format") :
          /\ Held(heap, {x}, "format_file_path") # {}
          /\ pointers' = Pointing(pointers, x, f)
          /\ reading' = {f}
    /\ ended' \in BOOLEAN
    /\ UNCHANGED <<heap, ready>>

\* A delimiter, escape or quote in the file.
ReadSetting ==
    /\ Running
    /\ \E f \in reading, field \in Strings \cup {"escape"}, fails \in Shortage(heap, {"String"}) :
          heap' = CopyInto(heap, f, field, fails)
    /\ UNCHANGED <<pointers, ready, reading, ended>>

\* A validation in the file before any column: there is no last column to add it to.
ReadTooEarly ==
    /\ Running
    /\ reading # {}
    /\ Held(heap, reading, "columns") = {}
    /\ ended' = TRUE
    /\ UNCHANGED <<heap, pointers, ready, reading>>

EndReading ==
    /\ Running
    /\ reading # {}
    /\ reading' = {}
    /\ UNCHANGED <<heap, pointers, ready, ended>>

Next ==
    \/ MakeString \/ MakeFormat \/ MakeValidator \/ MakeFormatFile \/ MakeParser
    \/ SetString \/ SetFormatFilePath \/ SetParserString \/ ApplyFormat \/ FreeHeld
    \/ MoreColumns \/ MoreValidations
    \/ ReadFile \/ ReadIntoFormat \/ ReadSetting \/ ReadTooEarly \/ EndReading

Spec == Init /\ [][Next]_vars

----------------------------------------------------------------------------

\* A field is one pointer; an array has many elements, and the client many objects.
Many == {"held", "column", "validation"}

Typed(s) ==
    /\ s.class \in [Address -> Class \cup {"free"}]
    /\ \A r \in s.refs : /\ r = Reference(r.from, r.field, r.to)
                          /\ r.from \in Address \cup {Client} /\ r.to \in Address
    /\ \A r, q \in s.refs : r.from = q.from /\ r.field = q.field /\ r.field \notin Many => r = q
    /\ s.failed \subseteq Class

\* Whoever holds an object is in use and so is the object, of the class of the field.
Intact(s) ==
    \A r \in s.refs :
       /\ r.to \in InUse(s)
       /\ s.class[r.to] \in ClassOf(r.field)
       /\ \/ r.from = Client /\ r.field = "held"
          \/ r.from \in InUse(s) /\ r.field \in Fields(s.class[r.from])

HeldOnce(s) == \A r, q \in s.refs : r.to = q.to => r = q

Kept(s) == s.failed \cap Arrays = {} => \A a \in InUse(s) : \E r \in s.refs : r.to = a

\* The variables are what they are declared to be: every field of an object is a
\* single pointer (the structs of the class headers).
TypeOK ==
    /\ Typed(heap)
    /\ pointers \subseteq [file : Objects(heap, "FormatFile") \cup {NullFile}, format : Address]
    /\ ready \subseteq DOMAIN Loads
    /\ reading \subseteq Objects(heap, "Format")
    /\ calls \in 0 .. MaxCalls
    /\ ended \in BOOLEAN

\* No pointer is left to an object that has been freed: free() of a format, a
\* column, a format file or a parser frees nothing that somebody else still
\* holds, whichever allocations failed before; and a format file with a format
\* points back to the format that has it.  Two pointers are left out.  A client
\* that made a format file by itself may free the format it stored in it.  And
\* null_PDTFormatFile keeps the format of the last read_file() that could not make
\* a format file, also when that format is freed; parse() of the null object
\* follows no pointer.
NoDangling ==
    /\ Intact(heap)
    /\ \A p \in pointers :
          p.file \in Address \ Mine(heap, "FormatFile") => Reference(p.format, "format_file", p.file) \in heap.refs

\* No object has two holders, so that nothing is freed twice: strings are either
\* handed over (set_delimiter() of a format) or copied (set_delimiter() of a
\* parser, set_format_file_path()).
OneHolder == HeldOnce(heap)

\* Every object can be reached by who has to free it, after any exchange of
\* strings, columns and format files, as long as no array failed to be made:
\* what add_column() and add_validation() add to the null array is lost.
NothingLost == Kept(heap)

\* The null objects that init() stores in a new object exist by then, but for the
\* format of a format file that the client made by itself: class_PDTFormatFile()
\* does not set up the class of formats.
NullObjectsExist ==
    \A a \in InUse(heap) \ Mine(heap, "FormatFile") : StartsWith(heap.class[a]) \subseteq ready

=============================================================================
