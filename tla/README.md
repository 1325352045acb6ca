# A verification project for libpdt

libpdt parses delimited text incrementally: a program hands the parser one
chunk of text after the other and gets a callback for every field and every
record. A handful of tools for checking and rewriting data files, a reader of
format files, a set of field validations and a Perl binding are built on it.

This directory holds TLA+ modules translated from that code, TLC configurations
that check them on small instances, and proofs checked by TLAPS. Run
`tlc -workers 2 -config <run>.cfg <MC module>`, and `tlapm` on the eight modules with
proofs: `ParseDelimitedTextProofs`, `ParserClientProofs`, `FileReaderProofs`,
`ValidateStructureProofs`, `RecordToolProofs`, `ValidatorProofs`, `ToolStartProofs` and
`PerlBindingProofs`. Each is proved from nothing in minutes, `RecordToolProofs` in about ten.
`PROJECT.json` maps every definition to the lines it stands for.

## 1. Inventory

| component | source | state it keeps | operations |
|---|---|---|---|
| Incremental parser | `src/class_ParseDelimitedText_i.c` | chunk and position in it, delimiter and bytes of it matched so far, quote, options, class of the last character, parse state, status, stop flag, field, held back white space, record count | `parse`, `finish`, `reset_state`, `stop`, `set_delimiter`, `set_quote`, `apply_format` |
| Test engine | `src/tests/test_engine.h` | chunk size, bytes processed, the list of events it expects | `run_test` and its two callbacks |
| validate_structure | `tools/validate_structure.c` | file, header fields, field count, valid | `main`, `validate_header`, four callbacks |
| validate_content | `tools/validate_content.c` | the same, and a record buffer, two output buffers, a validation per column | the same, `validate_field` and writing of good and bad records |
| standard_form, add_constants | `tools/*.c` | the same, and an output buffer | the same and writing of records |
| Format file reader | `src/class_PDTFormatFile_i.c` | chunk, bytes of a cut off line, state of a machine of 20 states, key, value, the format being filled in | `parse`, `parse_line`, `set_key_value` |
| Format, column, validation | `src/class_PDTFormat_i.c`, `_PDTColumn_i.c`, `_PDTValidation_i.c` | settings, columns, arguments of a validation | setters, parsing of `name(arguments)` |
| Validator | `src/class_PDTValidator_i.c` | counters of one match | `dispatch`, seven validations |
| Objects and their memory | the six `class_*_i.c` | who holds which string, array and object; which null objects exist | `new_X`, `free`, setters, `add_column`, `add_validation`, `read_file` |
| Command lines and files | `set_params()`, `open_*()`, `close_*()` of `tools/*.c`, `src/dump_format_file.c` | names, what was opened | checks, one `stat()` and one `open()` after the other |
| Perl binding | `bindings/perl` | objects with a parser and two copies of subs; the hash from parser to object, shared by all | `new`, `DESTROY`, accessors of callbacks, `parse`, `finish`, `stop`, `reset_state`, two shims called from C |
| dump_format_file, build system | | none | |

How they interact. Everything runs in one thread. The parser calls back into its
caller from inside `parse()` and `finish()`; a callback may call `stop()`, which
makes `parse()` return in the middle of its chunk, and the *next* `parse()` first
works off what is left (a loop of its own, before the loop over the new chunk).
The tools use exactly that: they stop the parser at the end of the header, look at
the header, exchange the callbacks and go on.

The Perl binding goes from Perl to C and back: `parse()` of an object calls the parser,
whose callbacks look the object up by the address of the parser and call a Perl sub,
which may do anything: parse with another object, drop this one, die.

What is hard here is that the input arrives in pieces. Every decision of the
parser (is this the delimiter, does white space belong to the field, is this
quote the end) may have to wait for bytes of the next chunk, so it is spread over
state that outlives the call: `delimiter->position`, `character_class`,
`trailing_space`, `POSSIBLE_QUOTED_END`. The second difficulty is the protocol:
stop, error, finish and going on afterwards, in every order. The third is ownership:
strings are sometimes handed over and sometimes copied, every allocation may fail and
leave a null object instead, and in Perl an object can disappear while its parser is in
use. The fourth is what lies between the check of a file and its opening. `PROJECT.json`
lists the hazards with their lines.

What makes each component correct:

* parser: what is reported depends on the bytes and not on how they were cut; no
  byte is lost or read twice; return values are true; every call ends;
* test engine: one list of events fits all chunk sizes;
* tools: the verdict is about the file and every row of it; the program ends; what
  is written is the input in another form;
* format reader: the format is what the lines say, wherever the reads cut them;
* validator: a validation accepts exactly its pattern;
* objects: every object has one holder, none is freed while it is held, none is lost;
* command lines: a tool works exactly for the command lines its usage text shows, writes
  the file it is given and no file it reads, and a refusal leaves nothing behind;
* Perl binding: an event reaches the object whose parser reports it, copies of subs are
  released once, and freed memory is used only by a program that asked for it.

## 2. The modules

| module | models | state |
|---|---|---|
| `ParseDelimitedText` | the parser: an action per turn of the loop of `_ParseDelimitedText_parse()`, for the way out of it, and per public method | the fields of the object, and `call`, `chunk`: where `parse()` is and the argument it has not yet come to |
| `Callbacks` | the field and the record callback of the byte that ends a row, as two steps in the place of the one in `ParseDelimitedText` | `due`: the record callback that is to be made |
| `RawField` | what the bytes between two separators stand for: a function `Value` from them, the white space and the quotes to the value reported | |
| `RowStream` | what the parser promises, without chunks, lookahead or parse states: the raw bytes of a field, reported as their `Value` | `raw`, `row`, `rows` |
| `ParserClient` | a caller with a plan that bounds what it does: chooses formats, feeds chunks, stops, resets, finishes; records bytes handed over and consumed | `plan`; history variables `fed`, `taken`, `raw` |
| `TestEngine` | `run_test()` around one parser per chunk size | `size`, `processed`, `expected` |
| `Tables` | no code: how a text of rows and fields reads to someone who knows nothing of parsers | |
| `FileReader` | the loop over the input file that all tools have, around one parser | the file and what is left of it |
| `ValidateStructure` | the tool, on `FileReader` | `phase`, the C globals |
| `OutputBuffer` | the String a tool fills and writes to its file when an item could fill it | a record: written, held, size |
| `RecordTool` | what the three tools that write rows share, on `FileReader` and `OutputBuffer` | record, field count, valid, `phase`, the output buffer |
| `RecordWriter` | standard_form and add_constants, on `RecordTool` | constants, the output file as it was before |
| `Validations` | the split of `name(arguments)`, `dispatch()` and the validations, as operators | |
| `ValidateContent` | the tool, on `RecordTool` and `Validations` | format, the buffer of the bad file, errors of the record, three counts |
| `FormatFile` | the reader with its three nested loops | the object's fields, and the document its author meant |
| `Timestamp` | `is_timestamp()`, one turn per character | the six counters |
| `Objects` | construction, freeing and exchange of all objects of the library by a client, and by the reader of a format file, while allocations fail | the heap: a class per address and the references between objects; the formats that format files point back to; null objects that are set up |
| `ToolStart` | from `main()` to the first byte read, and the closing of the files, of the five programs; another program that changes the directory | names and the places they lead to, files, the step of the tool |
| `PerlBinding` | `Text-ParseDelimited.xs` around parsers with little detail, and a Perl program in callbacks, in destructors and outside of both | objects, hash, parsers, the stack of active calls, the subs that are being replaced |
| `MC...` | constants of the runs | |
| `ParseDelimitedTextProofs` | theorems about `ParseDelimitedText`; induction over numbers, for sets of them in the place of predicates | |
| `ParserClientProofs` | theorems about the parser with its caller, on the module before; lemmas about `RawField`, and that the parser implements `RowStream`; theorems about `Callbacks` | |
| `FileReaderProofs` | lemmas about `Tables`, and what a parser reports of a file, on `ParseDelimitedTextProofs` | |
| `ValidateStructureProofs` | theorems about `ValidateStructure`, on `FileReaderProofs` | |
| `RecordToolProofs` | theorems about `OutputBuffer`, `RecordWriter` and `ValidateContent`, on `FileReaderProofs` | |
| `ValidatorProofs` | theorems about `Objects` and about `Timestamp` | |
| `ToolStartProofs` | theorems about `ToolStart` | |
| `PerlBindingProofs` | theorems about `PerlBinding` | |

How `ParseDelimitedText` corresponds to the code. `Class`, `NextPosition` and
`NextDelimiterPos` are `identify_character()`: what is compared (`Amount`), the
repair when a half matched delimiter breaks off (`Broken`, `Spill`) and the
character class. The eleven actions of `Accept` are the branches of the switch;
`StrictError` is the `goto` out of the loop in strict mode; `LeaveLoop` is the end
of the loop, from the first one (`call = "draining"`) to the second
(`"parsing"`) or to the caller. A field or record callback is part of the action
that fires it, and its parameter `s` says whether a callback called `stop()`.
`fire_record_callback` always comes right behind `fire_field_callback` in the
same turn, whether or not the field callback called `stop()`, and `FireRecord` does both as
one. That this is sound is not taken for granted: `Callbacks` makes them one after the other, with a
`stop()` in either, and `RowEndsAtOnce` says that it implements the parser with the one step; the
caller of `ParserClient` is put around it there (`CallerSpec`), so that what a caller relies on is
checked with the callbacks in turn.
A record is remembered in `rows` so that properties can speak about it; the code
keeps only the count.

The quote is the first byte of a string. `set_quote()` with an empty string makes a string all the
same, the first byte of which is the NUL behind its end: a parser that a format without a quote is
applied to takes NUL for the quote, and so do the tools. Only a parser to which no quote was
ever given has none (`NoQuote`).

`int` positions, the return value -1 as `size_t` and debug output are left out;
allocation and `free()` are the subject of `Objects`. The library that provides `String` and `Array` is
not part of the repository; both are sequences with a position, as this code
uses them.

The tools are compositions: a step of `RecordTool` is a step of the parser
together with what its callbacks do, `ParserTurn(s, complains)` with `s` fixed by
`StopsAt`, and `RecordWriter` and `ValidateContent` add what their own `recordcb()`
does with a complete record. `field_count` is not set back behind a record
of the wrong length, because the code leaves it alone there and stops instead.
A record is written item by item: `PutItem` is the check for room, the write it may
cause, and the append; the separator behind an item goes without a check in
standard_form and add_constants, and through a check of its own in
validate_content. standard_form is add_constants with an empty list of constants
and a delimiter of the caller's choice; for the rest their callbacks are the same.

The `error()` of the tools that write rows, and of validate_structure, writes the end of
its format string without the byte that ends it, so that what follows is whatever
lies behind in memory: the program may die there. Where it is called the model has both
outcomes, to go on (`AfterError`, `Outcome`) and the phase `died`. In `ToolStart` a
message in front of an `exit(1)` ends the program either way and is a refusal.

In `Validations` a name is one word with a length and a first byte, which is what
`dispatch()` looks at. `to_i()` and the UTF-8 functions belong to the library and
are constants. Arguments that are empty, `name()`, are left out: what the
library's split makes of an empty text is not in this repository.

In `FormatFile` a key is made of one or two *words* and a word is one character
of the model, so that files of four lines stay small; `Table` is the transition
table itself. When a read follows a cut-off line, its data lands on the last byte
of the kept ones and a byte the buffer still holds follows it: that byte is any
character. A validation with no column above it is added to the null column of the null
element of the list, which kills the program (`crashed`).

In `Objects` a heap is a function from addresses to classes and a set of references
*holder, field, object*; a field without a reference points to the null object of its class.
The field `format` of a format file is a pointer that holds nothing. `read_file()` stores it in
whatever `new_PDTFormatFile()` returned, which is the null object that all formats share when
there was no memory; so these pointers are kept apart, in `pointers`, with the null object among
the files.
An operator such as `AddColumn(s, ...)` takes a heap to the heap that the method leaves,
one allocation after the other, and `fails` names the classes for which `malloc()` fails in
that call. `Malloc` is a parameter: where objects land is the allocator's choice. The client
is one more holder. `ReadIntoFormat` and its neighbours are `set_key_value()` of the
reader, seen from the objects it fills.

In `ToolStart` a tool is a script of steps, one per system call, translated from its
`set_params()` and its `open_*()`; an interpreter of a few actions runs it. `Change` is
another program between two of these calls. A name leads to a place and a place has a file or
none, so that two names may be one place before there is a file (`out` and `./out`, a link that
points nowhere), and two places one file. `Acceptable` is made from the usage texts, with
`UsageArgc` the number of arguments they show, and not from the guards of `set_params()`.

In `PerlBinding` the parser has three kinds of bytes, since what matters are the
callbacks and not the text. A call of `parse()`, `finish()` or of a sub is a frame of
`stack`; the program may act when the top is a callback or there is none. A frame
whose parser has been freed is `dead`; what C does in a dead frame sets `broken`. The chunk of a
`parse()` that first works off the rest of the last one is a pointer into a Perl scalar:
`ChangeScalar` is a callback that undefines the scalar (the frame's chunk is `gone`, and to copy
it sets `broken`) or writes over it. The assignment of a sub over another one is two steps,
`BeginExchange` with the old copy released and `EndExchange` with the new one stored; between
them the destructor of the old sub runs, which is more of the program, and the object points to a
copy that is gone (`Released`). The history
variable `upset` says what the program did that the text may suffer from.

## 3. What the runs check

| run | question | bounds |
|---|---|---|
| `rows` | does the parser implement `RowStream` (delimiter of one byte)? | texts of up to 5 bytes of 5 classes (letter, space, separator, quote, end of line), chunks of 2 or 3, option words: none, REPALL_NL, STRICT with STRICT_FINI |
| `calls` | is any byte lost, any half matched delimiter forgotten, any return value untrue, does every call end; are the two callbacks at the end of a row as good as one, and what is still reported after a `stop()`? | three plans of a caller (`CallerSpec`, which makes the two callbacks in turn): one stop, one reset and one finish with more text behind it (3 bytes, chunks of 1 or, without white space, 2); delimiters of 1 and 3 bytes with a lookahead of 2 (5 bytes); two choices of format (4 bytes) |
| `sizes` | do all chunk sizes give the same events, and does every turn of the loop read something? | every text of up to 4 bytes and plain texts of up to 8 bytes, delimiters of 1, 2 and 3 bytes, four option words |
| `blocks` | is the verdict of validate_structure right? | every body of up to 6 bytes behind a right header, other files of up to 4, blocks of 3 |
| `documents` | does the reader get out of a format file what is in it, what becomes of a list with a blank line in it, and does it end? | every well-formed file of up to 4 lines out of 9, every file of up to 2; some with lines longer than a chunk |
| `pattern` | `is_timestamp()` against the pattern quoted in its comments | 20 characters, 3 of white space |
| `records` | is what standard_form and add_constants write the input in another form? | files of up to 4 bytes and row beginnings with up to 5 bytes more, delimiters `,` and `\x1f`, blocks of 4, a buffer of 6, no constants or two, an output file that was empty or held three bytes |
| `content` | does validate_content put every row where it belongs, with exactly its errors? | three formats with eight validations, files of up to 3 bytes and a header with up to 5 bytes (or a row of up to 7) behind it, blocks of 5, buffers of 8 |
| `objects` | does any order of calls leave a pointer to a freed object, an object with two holders or with none? | 13 addresses, the lowest free one first; the client holds 2 objects at a time and makes 6 calls; in each behaviour allocations of one class fail |
| `start` | does a tool start exactly for the right command lines, whatever is in the directory? | five programs; names `a`, `b`, `-` and `a/b`, which cannot be reached; every directory with two files, links and a subdirectory, two names for one place or not, and two directories that change twice |
| `perl` | do events reach their object, and is memory used after it was freed? | two objects, two parsers whose addresses are used again, one sub, two chunks of 3, four calls within each other, eight acts of the program; symmetric in objects and parsers |

Why these bounds are enough to be interesting: a decision that waits for the next
chunk involves at most two chunks and a finish; the longest is
quote, quote, byte behind an opening quote, four bytes. A lookahead of 2 with a
delimiter of 3 gives the parser every order of *lookahead ends, chunk ends,
delimiter ends* that 9 with a delimiter of 10 gives. Each byte class occurs in
every parse state. Blocks of 3 put the end of the header (4 bytes) in the middle
of a block, and rows on both sides of block ends. A buffer of 6 or 8 is written
in the middle of a row and between rows, and the one of 6 has to grow for a field
of 5. Two columns are the least with a first and a last one. Two held objects are the least that
can be exchanged, a format with a column, a validation and a format file takes eleven
addresses, and six calls make, fill, exchange and free them. Two objects with two addresses
are the least for an address that is used again while another parser is parsing, and
four frames are a parser in a callback of another one. Two changes of the directory are the
least that put a file between two `stat()` of the same name. Two bytes in a chunk, the first an end of
line, let a stop in the field callback leave something behind, with the record callback still due. Each property of
the runs that pass is violated by a mutated definition named in `PROJECT.json`: a repair
that forgets bytes, a buffer not cleared, a counter not reset, a lost remainder.

The properties that carry most:

* `ReportsTheRows`: refinement. The chunked state machine with seventeen
  variables is a function of raw bytes. The refinement mapping
  takes `raw` from the history variable of `ParserClient` (bytes consumed since
  the last separator) and the rest from the parser.
* `FieldsMakeUpTheText`: with a compound delimiter, the fields joined by it give
  back the text, half matched bytes included. It is what the repair of a broken
  match is for.
* `NoByteLost`, `ReturnTellsTruth`: what a caller that stops the parser relies on.
* `SameEventsInAField`: the promise of the test engine.
* `AcceptsOnlyValidIfParsed`, `RejectsOnlyInvalid`: the verdict of the tool against
  a definition of a valid file that knows nothing of parsers.
* `WritesTheRows`: through blocks, fields, the record that is used over and over
  and a buffer written at any point, the output file read as a table is the input
  read as a table, up to the first row of the wrong length.
* `SortsTheRows`: the same of two files at once. Each row is in exactly one, in
  order, and in the bad file with exactly the validations it fails.
* `VerdictIsRight`, `VerdictOnValidations`: the exit code is about the whole input, and the
  program dies in `error()` only over an input with a row that deserves a complaint.
* `NothingLost`, `OneHolder`: which setter takes a string over and which copies it is a
  convention of each class that nothing in the types shows.
* `WorksIfAcceptable`: the scripts of five programs against one definition of a right
  command line, made from their usage texts, and the one place where they differ from it:
  standard output.
* `SafeIfCareful`: the four ways, and no others, in which a Perl program reaches freed memory: it
  drops a parser in a callback of that parser, keeps the one it was given in a callback,
  changes a scalar in a callback while `parse()` still has to read it, or uses an object in
  the destructor of a sub that is being replaced in it. Each of the four is needed.
* `OnlyTheDueRecordAfterStop`: what a callback that stops the parser may still see.
* `TextAccountedFor`: what each object has reported and still holds is what it was given,
  through nested calls, subs that die, stops and resets, with its exceptions named.
* `BufferKeepsItsSize`: the `+ 2` of the check for room is enough for everything
  that is then appended without one.

### Fairness

`WF(ClientLoop)`, or `WF(CallerLoop)` with the callbacks in turn: nothing but `parse()` itself runs between two turns of its loop, so it
takes its next turn. `WF(ToolNext)` and `WF(FileNext)`: a sequential program that can go on
does; `ProgramExits` of validate_structure and `ParseEnds` of the reader rest on them.
`WriterSpec` and `ContentSpec` state the same of their tools, and no run
asks for it. Nothing is assumed of a caller of the parser: it may
never call again, so `ParseReturns` is about a call that was made. `Objects`, `ToolStart` and
`PerlBinding` have no fairness.
Deadlock is not checked: a caller whose bounds are used up, or a program that has
exited, stops.

### Deviations the runs show

The run `wrong_count` expects a violation; the finding in `PROJECT.json` quotes the usage text the
code departs from: validate_content stops at a row of the wrong length, validates
nothing behind it, and exits with 0.

What the code does against its own words, stated as an exception of what is checked:

* The usage texts of standard_form (line 192) and add_constants (line 216) require an output file
  and know no `-`; both tools work without one, or with a name that begins with `-`, and write to
  standard output. `WorksIfAcceptable` names these command lines (`ToStdoutInstead`) beside
  those of the usage texts (`Acceptable`).
* `finish()` and `reset_state()` leave `ST_FIELD_NOT_BEGUN`, which the header
  (line 113) describes as having had fields: a second `finish()` reports a row
  with one empty field. The plan of `rows` has one `finish()`, and `ReportsTheRows` is proved for
  one text.
* The usage text of validate_structure (line 180) has a setting to allow fewer columns, which the
  reader of format files stores and no tool reads: validate_structure demands the exact number of
  fields, and so do the three tools that write rows, which have no constant for it.
  `RejectsOnlyInvalid` passes, and is proved, for formats without the setting; with
  `AllowFewer = TRUE` TLC finds it violated at once.
* add_constants and validate_content say that input and output cannot be the
  same file and compare their names: with two names for one file, also one that is made only by
  the first of two opens, a tool writes over what it reads. `WritesWhereItDoesNotRead` says that it
  happens only then. standard_form compares nothing.

Met while modelling besides:

* A row that begins with part of a compound delimiter is reported or swallowed
  depending on where the chunks are cut, though the test engine says all chunk sizes give
  the same events. `SameEventsInAField` leaves these rows out.
* validate_structure accepts a file whose rows are in the same block as the header without
  looking at them (`AcceptsOnlyValidIfParsed`).
* A callback that stops the parser while `parse()` works off the rest of the last
  chunk loses that rest: `NoByteLost` is stated for one stop, and `OnlyAStopLosesBytes`
  proves that there is no other way to lose a byte.
* validate_structure rejects a file that is only a header without an end of line.
* `is_timestamp()` accepts any beginning of a timestamp; `AcceptsOnlyBeginnings`
  says that it accepts nothing else.
* The output files of standard_form, add_constants and validate_content are opened
  without `O_TRUNC`: the end of a longer earlier file stays behind the new rows
  (`OutputFile`). `WritesTheRows` is stated for a file that held no more than is
  written.
* An end of line inside a quoted field is written as it is, although it ends a
  record in the form that is written.
* `length(-1)` permits every length: the limit becomes a `size_t`. Limits are natural
  numbers in the model.
* `finish()` and `reset_state()` keep the position in a half matched
  delimiter, whose bytes `finish()` does not give to the last field; the text behind them begins
  in the middle of a delimiter. No property is about that.
* A field callback that calls `stop()` at the end of a row still gets the record callback
  (`OnlyTheDueRecordAfterStop`).
* A blank line in a list of columns ends the list: the reader takes the names behind it for
  keys, knows none of them, and says nothing (`BlankLineEndsTheList`). `ReadsAShortFormat` is
  about documents whose lists have no blank line in them; comments may be anywhere.
* `read_file()` without memory for a format file stores the format in the null format file, where
  it dangles when the format is freed; nothing follows it (`NoDangling` names it).
* A format file longer than a chunk (`_chunk`) is misread: `prepend` is never
  emptied, and `read()` lands on the last byte of what was kept. `ReadsAShortFormat`
  is therefore stated for files that one read delivers.
* A set delimiter forgets a half matched one without giving its bytes back.
* A validation with no column above it kills the reader of format files; a file that cannot be
  a format file is read as far as it goes, without a complaint.
* `error()` of the tools writes an unended format string.
* validate_content leaves a new, empty output file behind when the bad file cannot be opened
  (`RefusedLeavesNothing`), and no tool removes what it made.
* add_constants refuses the input file `-` when it writes to standard output, which has the name
  `-` too.
* dump_format_file looks at nothing before it opens the file, and opens a directory.
* The usage text of validate_structure says that an error exits with 2: it is 1.
* When the array of columns or validations cannot be made, what is added to the null array is
  lost (`NothingLost`); a parser that cannot be allocated is dereferenced as NULL; a format
  file made before any format has NULL for its format (`NullObjectsExist`).
* add_constants frees the list of constants without their names and values.
* Perl: with `record_callback()` as a getter it is the field callback that is looked at and
  returned; `stop()` and `reset_state()` return references that are not objects.
* Perl: the parser given to a callback can be kept, and dangles when its object is gone; a
  program that drops the last reference to an object in its own callback frees the parser
  that is running; a scalar that `parse()` was given is read after callbacks that may have undefined
  it; and while a sub is released the object still points to it (`SafeIfCareful`).
* Perl: a sub that dies leaves the parser in the middle: the field is reported again, and what
  had not been taken over of the chunk is gone (`TextAccountedFor`).
* Perl: `quote(undef)` frees the quote.

## 4. What is proved

`ParseDelimitedTextProofs` proves, for every set of bytes, every delimiter, quote,
option word, chunk and lookahead, and every order of calls:

* `TypeCorrect`: `Spec => []TypeOK`. The cursors are what is not obvious: a turn
  moves `position` by `Amount`, so it has to be shown that what is matched lies
  inside the chunk (`AheadIsUnread`) and inside the delimiter
  (`IdentifiedIsTyped`). `TypeOK` is inductive with those lemmas.
* `HalfMatchKnown`: while bytes of a delimiter are matched, the last character
  class is PARTIAL_FS. The code recognises a broken match from the class alone, so
  this is what makes the repair complete. Inductive together with `TypeOK`.
* `TurnsAdvance`: every turn of the loop moves the cursor, the turns that move it by
  a part of the delimiter included: the matched amount is never zero. It needs
  `HalfMatchIsKnown`: a complete delimiter with `delimiterPos` left at its length
  would match nothing for ever.
* `SpaceTrailsAField`: white space is held back only in an unquoted field (`TrailingOnlyInField`).
* `FieldsStartEmpty`: outside a field nothing of an earlier one is left (`FreshFieldEmpty`), if all
  delimiters have at most one byte. The assumption is needed: with a longer one a
  half match that breaks off puts its bytes into the field before the field
  begins. The inductive invariant adds to the property that the delimiter
  set is of that kind.


These theorems use the two assumptions on the constants in `ParseDelimitedText`
(`ByteAssumption`: bytes that are white space, end lines or end a string are different ones;
`CallerAssumption`: what a caller passes is made of bytes), which TLC evaluates in every run.

`ParserClientProofs` proves, for every plan of a caller on top of that (`PlansAssumption`:
the bounds of a plan are numbers, and its chunks are chunks):

* `ClientSound`: `Sound`, the types of both modules and what is known of a half match,
  always holds. Everything below it is inductive together with `Sound`.
* `NothingIsLost` and `ReturnIsTrue`, for plans with at most one `stop()`. The inductive
  invariant of the first says where the bytes are that were handed over: consumed, matched, ahead in
  the input, or in the chunk that waits. The second needs besides that `stopped` is remembered
  until the rest of the chunk has been read. The hypothesis is the code's: a second
  `stop()` in the loop over the rest drops what is left of it. `OnlyAStopLosesBytes` is about
  any number of stops and says that this step is the only one.
* `MatchedBytesWereRead`: the bytes of a half matched delimiter are the last that were read,
  so that a repair which gives them back gives back the right ones. The invariant relates the
  cursor of the delimiter to the history of bytes across chunks and calls, and to the
  part of the delimiter that is compared next, since the parser looks ahead.
* `FieldsAreTheText`: with a delimiter of any length, the fields of a text without quotes and
  white space, joined with the delimiter and followed by what is half matched, are the bytes
  consumed. The joined text is a function over rows and fields; its lemmas are proved by
  induction over their numbers.

The second part of `ParserClientProofs` proves the refinement, `TheRowsAreReported`:
`ClientSpec => ReportsTheRows`. Its first half is about `RawField` alone: how `Lead`, `Trim`,
`Unquote` and so `Value` of a raw field change when a byte is added (white space, a quote after an
odd or an even run of them, anything else). The second relates each parse state to the raw field it has read
(`FIELD` with held back white space to `Trim`, `POSSIBLE_QUOTED_END` to a run of quotes that is
odd) and shows, branch by branch of the switch, that the relation is kept and that the step is one
of `RowStream` or none. It assumes `OneText`: delimiters of at most one byte, and a caller that
chooses the format once, finishes at most once and then is done, and does not
reset; its chunks and stops are arbitrary. With a longer delimiter a half match breaks the
correspondence of bytes and fields; `finish()` and `reset_state()` leave `ST_FIELD_NOT_BEGUN`
behind, from which an empty field is reported that the text does not have; and the bytes
of a field read in two formats have no value.

The third part of `ParserClientProofs` is about `Callbacks`, for every parser and every order of calls:

* `CallbacksActAsOne`: `RowEndsAtOnce`. While a record callback is due, the parser of one step is
  shown as it was before the field callback; with the record callback the two meet again. The
  invariant says that what was remembered then is the step that was due, and that nothing but
  what a field callback resets has changed since.
* `StopLeavesOneRecord`: `OnlyTheDueRecordAfterStop`, the action property, from the same
  invariant.
* `CallerUsesTheParser`: the caller of the run `calls` does nothing with the parser that
  `CallbackSpec` does not, so that both theorems are about it too.

`FileReaderProofs` holds what the proofs about the tools share. Its first half is about `Tables`:
what `Nth`, `Split` and `Table` are when a byte is added at the end (`NthAdded`, `SplitGrows`,
`TableGrows`), so that a definition that looks at a whole text can be followed byte by byte. Its
second half is about the parser of a tool: `PlainReading` says that the rows it has reported, the
row it collects and the field it fills are the table of what has been read, wherever the blocks
end (`RowsAreRead`). It is kept by every block, turn and return (`PlainStays`), and when the file
is at its end and the parser has finished, what was reported is the table of the file
(`TableIsReported`). It holds for `PlainFiles`: files without quotes and white space, read with a
delimiter of at most one byte that does not end lines. That is the hypothesis of the properties,
which compare with a table that knows nothing of quotes; what those do to a field is the subject
of `RawField` and of the refinement.

`ValidateStructureProofs` proves, for every format, plain file and size of the blocks:

* `AcceptanceIsRight`: `AcceptsOnlyValidIfParsed`. The inductive invariant `Checked` says for each
  phase of the program what is known: that the first row is the header that was compared, that
  the rows behind it which were reported have the right length, and, since the rest of a block
  with the header may be dropped, that a file may be accepted without all of it having been read.
* `RejectionIsRight`: `RejectsOnlyInvalid`, for files that are empty or end with an end of line and
  for formats without *Allow Fewer Columns*. Both hypotheses are deviations of the code
  (section 3): a header that is not ended is reported twice, and the setting is ignored.

`RecordToolProofs` proves of the three tools that write rows, for every plain file and every size
of the blocks and of the buffers:

* `PutAddsTheItem`: the content of a buffer, what the file has received and what
  is still held, is extended by exactly the item and its tail, whether or not the
  buffer is written on the way. `PutKeepsTheSize`: a buffer does not grow for an item that is
  shorter than it by more than two, with a tail of at most one byte. Both need no assumption.
* `BufferSizeKept`: `BufferKeepsItsSize` of whole programs, for every file, plain or not. The
  invariant `Sized` relates the record, which is used over and over, to the row of the parser:
  a row of the right length has overwritten all of it.
* `VerdictProved`: `VerdictIsRight`. The invariant `Verdict` says that a program is stopped exactly
  if it has seen a row of the wrong length, the last one it reported.
* `RowsWritten`: `WritesTheRows`. The invariant `Wrote` adds to both that the content of the
  buffer, read as a table with 0x1f and 0x0a, is the rows that were reported, each with the
  constants; `WritingItem`, `WritingSeparator` and `WritingEnd` follow a row into the buffer byte by
  byte. Hypotheses: `CleanConstants` (no constant has 0x1f or 0x0a in it) and `OwnSeparator` (nor has
  a file that is read with another delimiter 0x1f): nothing is quoted by the programs.
* `CountsProved` and `ContentVerdict`: `CountsAreTrue` and `VerdictOnValidations` of validate_content.
  The invariant `Counted` says that the counts are those of the rows that were reported, of those
  that fail and of those that pass, and that the flag is lowered as soon as one fails.
  Hypothesis: `ValidationsMeant`, that for the values in rows of the right length the code of a
  validation (`Dispatch`) permits what the author of the format means (`Meaning`). It is
  a statement about `Validations` alone, which the run `content` checks for its formats.
* `SortsProved`: `SortsTheRows`, of both files of validate_content at once. The invariant `Sorted`
  adds to `Counted` that the content of each buffer, read as a table, is what belongs into that
  file of the rows reported so far: the header and the rows that pass (`OutTable`), and the header
  with a line for each row that fails (`BadRight`). A line is put into the buffer item by item, with
  the separators in between (`LineWritten`, `BadLineWritten`); its last field, cut at the commas,
  has each failure of the row once and nothing else (`ErrorsAre`, `JoinSplit`).
  A second hypothesis, `CleanFormats`: the separator between two errors is one byte that
  is in no error, none of what is written has 0x1f or 0x0a in it, and an error gives the name the
  author of the format gave the validation. Without it the bad file could not be read again; the
  formats of the run `content` meet it.

`ValidatorProofs` proves, for every set of addresses, every allocator that returns a free
address, every class whose allocations fail and every order of calls:

* `TypeCorrect`, `NoneDangles`, `EachHeldOnce`, `NoneLost`: `TypeOK`, `NoDangling`, `OneHolder`,
  `NothingLost` always hold. None of them is inductive alone; `Inv` is `TypeOK` without the
  pointers of format files, and `Good(heap)`, all four of a heap at once. `PointersOK` adds the
  pointers: a format file that has one is there, and is the format file of that format or the
  client's. The argument is the one of the code: a method is a
  sequence of allocations and stores, so `NewKeepsGood`, `FreeKeepsGood` and
  `ReplaceKeepsGood` show that one of these keeps a heap good; the lemmas `WholeColumn`,
  `WholeFormat`, `WholeParser` and so on show that what a `free()` frees is
  *whole*: nothing outside points into it, and nothing of it is left; and one lemma per
  method puts these together.
* `NullsExist`: a null object that is missing (`NullObjectsExist`). Its invariant `NullInv` adds
  which of them exist together, and that all do once a format was made.
* They assume `HeapAssumption`: the client and the null format file are at no address that
  `malloc()` returns, and it returns one that is free as long as there is one.

It proves besides, for texts of any length over any sets of digits, white space and other
characters, that `is_timestamp()` goes through the pattern of its comments:

* `NoneRefused` and `OnlyBeginnings`: `RefusesNoTimestamp` and `AcceptsOnlyBeginnings`. The pattern has
  parts of one or two digits, and the code does not know which of them a text will have until the
  next character. `TimeInv` is therefore about all choices at once: if the text so far follows
  the pattern for one of them, the text is not refused and the six counters are those of that choice
  (`Counted`, `InStep`), so that they say where in the pattern the next character is; and a text that
  is not refused follows the pattern for some choice, unless there is white space within
  its year, which the code lets pass (`OnTrack`).
* They assume `TextAssumption`: digits, white space and the three characters of the pattern
  are different ones.

`ToolStartProofs` proves, for every set of names, files and directories, every command line and
every behaviour of the other program and of the system:

* `StartsIfAcceptable`, `RefusalsAreClean`, `WritesElsewhere`, `RegularFilesAreRead`. The first relates
  two things written down separately: what the scripts of the tools let pass, and the command
  lines of the usage texts (`Acceptable`) with those for standard output that these do not mention
  (`ToStdoutInstead`). `Inv` says of
  a tool in the middle of its script what the steps it has passed have established, each in the
  words of the property: what is open was there or was made by the tool, a file it made is at a place
  that was free, names that had to differ do, what was looked at was regular then, and a step that
  is passed was passed rightly as long as nobody interfered (`PassedSoFar`). The scripts are
  data; lemmas state them step by step (`StandardFormSteps` and its like), and the
  interpreter is proved once. `RegularFilesAreRead` is inductive relative to `Inv`: it looks
  at the two steps between which a file was exchanged.
* They assume `StartAssumption`: names and files are different from each other and from `"none"`
  and `"stdout"`, no file has the name of a place, and a world is a function from names to places
  and one from places to files.

`PerlBindingProofs` proves, for every number of objects, parsers and subs, every chunk and
every depth of calls:

* `RegistryAlways`, `EventsAlwaysGoHome`, `CarefulIsSafe`. The inductive invariant `Inv` relates
  what the code keeps in four places: the hash is the inverse of `self`; each frame that
  is not dead belongs to a live object whose parser it runs, and lies on a frame of the same
  object if it is a callback; a dead frame, or a kept parser that is gone, is remembered in
  `dropped` and `stale`. `EventsGoHome` needs the whole of it, since `DESTROY` in a
  nested call changes frames anywhere in the stack. The other two ways to freed memory can be seen in
  the state in which it is used: a chunk that waits and is `gone`, a sub that is being replaced.
* `CopiesAlwaysHeld`: the count of copies is the number of callbacks that are set, but for those that
  are being replaced. `CopiesInv` adds that a dead object holds none, that an object in which a
  sub is being replaced is held, and that no sub is released twice; it rests on the theorems
  about cardinalities.
* `TextIsAccountedFor`. `TextAccountedFor` compares numbers: text given, reported, in the
  parser, waiting in calls, and held in a field. It is far from inductive, since a
  field is counted as reported when its callback is called and is emptied when it returns, and
  in between anything may happen. `TextInv` adds what bridges that: a callback that is alive lies
  on a call of its parser (`OnItsCall`); a call within a call of the same parser is
  remembered in `upset` (`SeenReentry`); and a call that has reported its field has an empty one
  below it, a callback that reports it still, or a program that is to blame (`NothingBehind`).
  A step changes the stack and the parsers one after the other, so these are stated and
  kept for any stack, in four lemmas: a call that goes on, one on top, calls that are left, calls
  that die with their parser.
* They assume `BindingAssumption`: NULL is no object, parser or sub, chunks are sequences
  of bytes, and there is a longest one.

Induction over data is what these proofs do without the library's induction theorems, which the
provers cannot instantiate: `InductionOnNat` states it for a set of numbers in the place of a
predicate, and recursive functions are unfolded by hand.

Only model-checked:

* liveness (`ParseReturns`, `ProgramExits`, `ParseEnds`): fairness is out of the prover's reach;
* `SameEventsInAField`: it compares the events of several parsers with different chunk sizes, which
  needs one value for each prefix of a text with a delimiter of any length;
* `ReadsAShortFormat`: the document, the transition table of the reader and the reads would have to
  be related as `FileReaderProofs` does it for the parser.


## 5. What is not modelled

* The build system: no behaviour of its own. `ppport.h` of the Perl binding, more than half of
  the lines of C, is generated by another project.
* What the programs print: usage texts, messages, the summary beyond its counts, and the
  listing of dump_format_file.
* File system errors behind `open()`: `read()` and `write()` never fail or fall short in the
  models.
* `parse_constants()` beyond its success or refusal.
* The accessors of delimiter, quote and block size in Perl, and the block size itself,
  which is stored and never read.
* The inside of the library of String and Array, which is not in the repository.
* Values that an `int` or a `size_t` cuts: the return value of `parse()` for a chunk of more
  than 2^31 bytes, and negative limits of lengths.

## 6. Plan

1. *Done:* `ParseDelimitedText`, `RowStream`, `ParserClient` and the proofs of
   safety; `TestEngine`, `ValidateStructure`, `FormatFile`, `Timestamp`.
2. *Done:* `RecordWriter`, standard_form and add_constants as one module around the
   parser.
3. *Done:* `ValidateContent`, with the two output files.
4. *Done:* `Validations`, the split of arguments and `dispatch()`.
5. *Done:* `Objects`, `ToolStart` and `PerlBinding`, with the proofs of the first and the last.
6. *Done:* the proofs about callers, the refinement of `RowStream`, the null objects, the
   copies of subs, the account of text in Perl, and the start of the tools.
7. *Done:* the counters of `Timestamp` as an inductive invariant over the pattern; the verdicts of
   the four tools, what they write and what they count, from what the parser reports of a file.
8. Left: proofs of `SameEventsInAField` and `ReadsAShortFormat`; an abstract specification of the tools (rows in, rows out) that `RecordWriter`
   and `ValidateContent` implement step by step, and not only at their end.

The order follows what the programs are for: the parser first, the verdicts next,
what is written after that, the memory and the files around them at the end.
