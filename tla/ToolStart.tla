----------------------------- MODULE ToolStart -----------------------------
(***************************************************************************)
(* How the five programs start: the command line is checked, the format    *)
(* file is read, and the files are opened, one system call at a time,      *)
(* while another program may change the directory.                         *)
(*                                                                         *)
(* A name leads to a place in a directory, and two names may lead to one   *)
(* place ("out" and "./out", a link and what it points to).  What is in a  *)
(* place is a node, and one node may be in two places.  A node is a        *)
(* regular file or a directory; a file that is made is named by its place. *)
(***************************************************************************)
EXTENDS Naturals, Sequences

CONSTANTS Name,         \* names a command line may have
          Dashed,       \* those that begin with "-"
          Unreachable,  \* places of which stat() says anything but that there is no file
          Node,         \* the files there may be
          Directories,  \* those that are directories
          Worlds        \* what there is before: the place of each name, the node of each place,
                        \* and how often that may change

ASSUME StartAssumption ==
    /\ {"none", "stdout"} \cap (Name \cup Node) = {}
    /\ Name \cap Node = {}
    /\ Directories \subseteq Node
    /\ \A w \in Worlds : /\ w.place \in [Name -> Name]
                         /\ w.node \in [Name -> Node \cup {"none"}]
                         /\ w.changes \in Nat

VARIABLES tool, argc, argv, constants,  \* the command line
          world,     \* what there was before
          node,      \* the node of each place, or "none"
          changes,   \* how often another program has changed it
          step,      \* how many of the steps of the tool are done
          files,     \* what was opened for each argument
          made,      \* the files the tool made
          touched,   \* how many steps were done when each file last changed before it was opened
          trouble,   \* the system refused to open or make a file
          status     \* "starting", "refused" with exit(1), "working", or "finished"

commandLine == <<tool, argc, argv, constants, world>>
vars == <<tool, argc, argv, constants, world, node, changes, step, files, made, touched, trouble, status>>

Role == {"format", "input", "output", "bad"}

\* How many arguments the program takes, argv[0] included.
Argc ==
    [standard_form      |-> {3, 4},
     add_constants      |-> {4, 5},
     validate_content   |-> {5},
     validate_structure |-> {3},
     dump_format_file   |-> {2}]

\* The files it takes.
Takes ==
    [standard_form      |-> {"format", "input", "output"},
     add_constants      |-> {"format", "input", "output"},
     validate_content   |-> {"format", "input", "output", "bad"},
     validate_structure |-> {"format", "input"},
     dump_format_file   |-> {"format"}]

Step(do, role) == [do |-> do, role |-> role]
Arguments == Step("arguments", "format")
Constants == Step("constants", "format")
Regular(role) == Step("regular", role)
AbsentOrRegular(role) == Step("absent or regular", role)
Distinct == Step("distinct", "input")
Load == Step("load", "format")
OpenToRead(role) == Step("read", role)
OpenToWrite(role) == Step("write", role)

StandardFormChecks == <<Arguments, Regular("format"), Regular("input"), AbsentOrRegular("output")>>
StandardFormInput == <<OpenToRead("input")>>
StandardFormOpens == <<Load>> \o StandardFormInput \o <<OpenToWrite("output")>>

AddConstantsChecks ==
    <<Arguments, Constants, Regular("format"), Regular("input"), AbsentOrRegular("output"), Distinct>>
AddConstantsInput == <<Regular("input"), OpenToRead("input")>>
AddConstantsOpens == <<Load>> \o AddConstantsInput \o <<OpenToWrite("output")>>

ValidateContentChecks ==
    <<Arguments, Regular("format"), Regular("input"), AbsentOrRegular("output"), AbsentOrRegular("bad"), Distinct>>
ValidateContentInput == <<Regular("input"), OpenToRead("input")>>

\* Mutant: the files to write are opened first.
ValidateContentOpensInputLast ==
    <<Load, OpenToWrite("output")>> \o ValidateContentInput \o <<OpenToWrite("bad")>>

ValidateContentOpens ==
    <<Load>> \o ValidateContentInput \o <<OpenToWrite("output"), OpenToWrite("bad")>>

ValidateStructureChecks == <<Arguments, Regular("format"), Regular("input")>>

\* Mutant: the input file is not looked at again.
ValidateStructureInputUnseen == <<OpenToRead("input")>>

ValidateStructureInput == <<Regular("input"), OpenToRead("input")>>
ValidateStructureOpens == <<Load>> \o ValidateStructureInput

\* It looks at nothing before it reads the format file.
DumpFormatFile == <<Arguments, Load>>

Script ==
    CASE tool = "standard_form"      -> StandardFormChecks \o StandardFormOpens
      [] tool = "add_constants"      -> AddConstantsChecks \o AddConstantsOpens
      [] tool = "validate_content"   -> ValidateContentChecks \o ValidateContentOpens
      [] tool = "validate_structure" -> ValidateStructureChecks \o ValidateStructureOpens
      [] tool = "dump_format_file"   -> DumpFormatFile

\* standard_form and add_constants write to standard output when there is no last
\* argument, or when it begins with "-"; the name is then "-".
ToStdout ==
    \/ tool = "standard_form" /\ (argc = 3 \/ argv["output"] \in Dashed)
    \/ tool = "add_constants" /\ (argc = 4 \/ argv["output"] \in Dashed)

NameOf(role) == IF role = "output" /\ ToStdout THEN "-" ELSE argv[role]

Place(role) == world.place[NameOf(role)]

Is(role) == node[Place(role)]

RegularFile(n) == n # "none" /\ n \notin Directories

----------------------------------------------------------------------------

StartInit ==
    /\ tool \in DOMAIN Argc
    /\ argc \in 1 .. 6
    /\ argv \in [Takes[tool] -> Name]
    /\ constants \in {"well formed", "malformed"}
    /\ world \in Worlds
    /\ node = world.node
    /\ changes = 0
    /\ step = 0
    /\ files = [role \in Role |-> "none"]
    /\ made = {}
    /\ touched = [role \in Role |-> 0]
    /\ trouble = FALSE
    /\ status = "starting"

Now(do) == status = "starting" /\ step < Len(Script) /\ Script[step + 1].do = do

ThisRole == Script[step + 1].role

\* The step succeeded: the next one is due, or the work begins.
Proceed ==
    /\ step' = step + 1
    /\ status' = IF step + 1 = Len(Script) THEN "working" ELSE "starting"

Refuse == status' = "refused" /\ UNCHANGED step

NothingOpened == UNCHANGED <<commandLine, node, changes, files, made, touched, trouble>>

CheckArguments ==
    /\ Now("arguments")
    /\ IF argc \in Argc[tool] THEN Proceed ELSE Refuse
    /\ NothingOpened

ParseConstants ==
    /\ Now("constants")
    /\ IF constants = "well formed" THEN Proceed ELSE Refuse
    /\ NothingOpened

\* stat() of a file that must be there.
CheckRegular ==
    /\ Now("regular")
    /\ IF RegularFile(Is(ThisRole)) THEN Proceed ELSE Refuse
    /\ NothingOpened

\* Mutant: a file to write has to be there.
CheckThere ==
    /\ Now("absent or regular")
    /\ IF (ThisRole = "output" /\ ToStdout) \/ RegularFile(Is(ThisRole)) THEN Proceed ELSE Refuse
    /\ NothingOpened

\* stat() of a file that will be written.
CheckAbsentOrRegular ==
    /\ Now("absent or regular")
    /\ IF \/ ThisRole = "output" /\ ToStdout
          \/ RegularFile(Is(ThisRole))
          \/ Is(ThisRole) = "none" /\ Place(ThisRole) \notin Unreachable
       THEN Proceed
       ELSE Refuse
    /\ NothingOpened

\* Mutant: only two of the three pairs are compared.
CompareInputOnly ==
    /\ Now("distinct")
    /\ IF NameOf("input") = NameOf("output") \/ (tool = "validate_content" /\ NameOf("bad") = NameOf("input"))
       THEN Refuse
       ELSE Proceed
    /\ NothingOpened

\* The names are compared, not the files.
CompareNames ==
    /\ Now("distinct")
    /\ IF \/ NameOf("input") = NameOf("output")
          \/ /\ tool = "validate_content"
             /\ NameOf("output") = NameOf("bad") \/ NameOf("bad") = NameOf("input")
       THEN Refuse
       ELSE Proceed
    /\ NothingOpened

----------------------------------------------------------------------------

Opened(role, what) == files' = [files EXCEPT ![role] = what]

NotOpened == Refuse /\ UNCHANGED <<node, files, made>>

\* open() to read, of the format file, which is read to its end and closed, and of
\* the input file.  A directory can be opened.
OpenForReading ==
    /\ Now("load") \/ Now("read")
    /\ \/ /\ Is(ThisRole) # "none"
          /\ Opened(ThisRole, Is(ThisRole))
          /\ Proceed
          /\ UNCHANGED <<node, made, trouble>>
       \/ /\ Is(ThisRole) = "none"
          /\ NotOpened
          /\ UNCHANGED trouble
       \/ /\ Is(ThisRole) # "none"
          /\ NotOpened
          /\ trouble' = TRUE
    /\ UNCHANGED <<commandLine, changes, touched>>

\* open() to write, with O_CREAT and without O_TRUNC.  A file is made where the name
\* leads to, also by way of a link.
OpenForWriting ==
    /\ Now("write")
    /\ LET role == ThisRole
           place == Place(role)
           stdout == role = "output" /\ ToStdout
           there == ~stdout /\ RegularFile(Is(role))
           new == ~stdout /\ Is(role) = "none" /\ place \notin Unreachable IN
       \/ /\ stdout
          /\ Opened(role, "stdout")
          /\ Proceed
          /\ UNCHANGED <<node, made, trouble>>
       \/ /\ there
          /\ Opened(role, Is(role))
          /\ Proceed
          /\ UNCHANGED <<node, made, trouble>>
       \/ /\ new
          /\ node' = [node EXCEPT ![place] = place]
          /\ made' = made \cup {place}
          /\ Opened(role, place)
          /\ Proceed
          /\ UNCHANGED trouble
       \/ /\ ~stdout
          /\ NotOpened
          /\ trouble' = (there \/ new)
    /\ UNCHANGED <<commandLine, changes, touched>>

\* At the end of main() the files are closed, one after the other; those that are
\* there to be closed first are named.  Standard output stays open.
CloseFile(role, earlier) ==
    /\ status = "working"
    /\ files[role] \notin {"none", "stdout"}
    /\ \A r \in earlier : files[r] \in {"none", "stdout"}
    /\ files' = [files EXCEPT ![role] = "none"]
    /\ UNCHANGED <<commandLine, node, changes, step, made, touched, trouble, status>>

CloseInput  == CloseFile("input", {})
CloseOutput == CloseFile("output", {"input"})
CloseBad    == CloseFile("bad", {"input", "output"})

Finish ==
    /\ status = "working"
    /\ \A role \in Role \ {"format"} : files[role] \in {"none", "stdout"}
    /\ status' = "finished"
    /\ UNCHANGED <<commandLine, node, changes, step, files, made, touched, trouble>>

\* Another program takes a file of the command line away, or puts a directory in its place.
Change ==
    /\ changes < world.changes /\ status = "starting"
    /\ changes' = changes + 1
    /\ \E place \in {world.place[argv[role]] : role \in DOMAIN argv} \ Unreachable, what \in Directories \cup {"none"} :
          /\ node[place] # what
          /\ node' = [node EXCEPT ![place] = what]
          /\ touched' = [r \in Role |-> IF r \in DOMAIN argv /\ world.place[argv[r]] = place /\ files[r] = "none"
                                      THEN step ELSE touched[r]]
    /\ UNCHANGED <<commandLine, step, files, made, trouble, status>>

Next ==
    \/ CheckArguments \/ ParseConstants \/ CheckRegular \/ CheckAbsentOrRegular \/ CompareNames
    \/ OpenForReading \/ OpenForWriting
    \/ CloseInput \/ CloseOutput \/ CloseBad \/ Finish
    \/ Change

Spec == StartInit /\ [][Next]_vars

----------------------------------------------------------------------------

\* How many arguments the usage texts show, the name of the program included.
UsageArgc ==
    [standard_form      |-> 4,
     add_constants      |-> 5,
     validate_content   |-> 5,
     validate_structure |-> 3,
     dump_format_file   |-> 2]

\* What there was before in the place a name leads to.
Before(name) == world.node[world.place[name]]

\* What is read is there.  dump_format_file asks for no more.
Readable ==
    /\ tool = "add_constants" => constants = "well formed"
    /\ \A role \in DOMAIN argv \cap {"format", "input"} :
          IF tool = "dump_format_file" THEN Before(argv[role]) # "none" ELSE RegularFile(Before(argv[role]))

Writable(name) ==
    RegularFile(Before(name)) \/ (Before(name) = "none" /\ world.place[name] \notin Unreachable)

\* The command lines of the usage texts: every file is named, those that are read
\* are there, and those that are written are there or can be made.  Two tools ask
\* for different names ("Input and output cannot be the same file").
Acceptable ==
    /\ argc = UsageArgc[tool]
    /\ Readable
    /\ \A role \in DOMAIN argv \cap {"output", "bad"} : Writable(argv[role])
    /\ tool \in {"add_constants", "validate_content"} =>
         \A r, s \in DOMAIN argv \ {"format"} : argv[r] = argv[s] => r = s

\* The command lines of which the usage texts do not speak: the last file is left
\* out or begins with "-", and the rows go to standard output.  The name is then
\* "-", and add_constants does not take it for its input.
ToStdoutInstead ==
    /\ ToStdout
    /\ argc \in {UsageArgc[tool] - 1, UsageArgc[tool]}
    /\ Readable
    /\ tool = "add_constants" => argv["input"] # "-"

\* As long as nobody changes the directory and the system opens what it can, a tool
\* gets to work exactly for the command lines of its usage text, whatever the order
\* of its checks and of its opens (set_params() of the four tools); except that
\* standard_form and add_constants write to standard output when they are not given
\* a last file or one whose name begins with "-", and work whatever is there.
WorksIfAcceptable ==
    LET right == IF ToStdout THEN ToStdoutInstead ELSE Acceptable IN
    changes = 0 /\ ~trouble => /\ status = "working" => right
                               /\ status = "refused" => ~right

\* A tool that refuses leaves no file behind, except that validate_content leaves
\* its output file when only the bad file could not be opened.
RefusedLeavesNothing ==
    status = "refused" /\ made # {} => /\ tool = "validate_content"
                                       /\ made = {Place("output")}
                                       /\ files["input"] # "none" /\ files["bad"] = "none"

\* Names that are two lead to two places and two files: then
\* add_constants and validate_content write to no file
\* they read rows from, nor rows of both kinds to the same file.
WritesWhereItDoesNotRead ==
    LET opened(role) == {files[role]} \ {"none", "stdout"}
        aliased == \E m, n \in Name : /\ m # n
                                      /\ \/ world.place[m] = world.place[n]
                                         \/ world.node[m] = world.node[n] /\ RegularFile(world.node[m]) IN
    tool \in {"add_constants", "validate_content"} /\ ~aliased =>
       /\ opened("input") \cap (opened("output") \cup opened("bad")) = {}
       /\ opened("output") \cap opened("bad") = {}

\* What is read is a regular file, for all tools but dump_format_file, unless
\* another program put something else in its place after it was looked at: for the
\* input file of all tools but standard_form, between two system calls
\* (open_input_file()).
ReadsRegularFiles ==
    \A role \in {"format", "input"} :
       files[role] \in Directories /\ tool # "dump_format_file" =>
          /\ \E i \in 1 .. touched[role] : Script[i] = Regular(role)
          /\ role = "input" /\ tool # "standard_form" => Script[touched[role] + 1] = OpenToRead("input")

=============================================================================
