-------------------------- MODULE ToolStartProofs --------------------------
(***************************************************************************)
(* For any names, files and directories, and whatever another program does *)
(* to them between two system calls, the five programs start with the      *)
(* files they should, or leave none behind.                                *)
(***************************************************************************)
EXTENDS ToolStart, TLAPS

----------------------------------------------------------------------------
(* The scripts *)

\* The script of standard_form.
LEMMA StandardFormSteps ==
    ASSUME tool = "standard_form"
    PROVE  /\ Len(Script) = 7
           /\ Script[1] = Arguments
           /\ Script[2] = Regular("format")
           /\ Script[3] = Regular("input")
           /\ Script[4] = AbsentOrRegular("output")
           /\ Script[5] = Load
           /\ Script[6] = OpenToRead("input")
           /\ Script[7] = OpenToWrite("output")
  <1>1. Script = StandardFormChecks \o StandardFormOpens
    BY DEF Script
  <1> QED  BY <1>1 DEF StandardFormChecks, StandardFormOpens, StandardFormInput

\* The steps of standard_form.
LEMMA StandardFormScript ==
    ASSUME tool = "standard_form", NEW i \in 1 .. Len(Script), NEW s, s = Script[i]
    PROVE  /\ Len(Script) = 7
           /\ \/ i = 1 /\ s = Arguments
              \/ i = 2 /\ s = Regular("format")
              \/ i = 3 /\ s = Regular("input")
              \/ i = 4 /\ s = AbsentOrRegular("output")
              \/ i = 5 /\ s = Load
              \/ i = 6 /\ s = OpenToRead("input")
              \/ i = 7 /\ s = OpenToWrite("output")
  <1>1. i \in 1 .. 7
    BY StandardFormSteps
  <1>2. i = 1 \/ i = 2 \/ i = 3 \/ i = 4 \/ i = 5 \/ i = 6 \/ i = 7
    BY <1>1
  <1> QED  BY StandardFormSteps, <1>2

\* The script of add_constants.
LEMMA AddConstantsSteps ==
    ASSUME tool = "add_constants"
    PROVE  /\ Len(Script) = 10
           /\ Script[1] = Arguments
           /\ Script[2] = Constants
           /\ Script[3] = Regular("format")
           /\ Script[4] = Regular("input")
           /\ Script[5] = AbsentOrRegular("output")
           /\ Script[6] = Distinct
           /\ Script[7] = Load
           /\ Script[8] = Regular("input")
           /\ Script[9] = OpenToRead("input")
           /\ Script[10] = OpenToWrite("output")
  <1>1. Script = AddConstantsChecks \o AddConstantsOpens
    BY DEF Script
  <1> QED  BY <1>1 DEF AddConstantsChecks, AddConstantsOpens, AddConstantsInput

\* The steps of add_constants.
LEMMA AddConstantsScript ==
    ASSUME tool = "add_constants", NEW i \in 1 .. Len(Script), NEW s, s = Script[i]
    PROVE  /\ Len(Script) = 10
           /\ \/ i = 1 /\ s = Arguments
              \/ i = 2 /\ s = Constants
              \/ i = 3 /\ s = Regular("format")
              \/ i = 4 /\ s = Regular("input")
              \/ i = 5 /\ s = AbsentOrRegular("output")
              \/ i = 6 /\ s = Distinct
              \/ i = 7 /\ s = Load
              \/ i = 8 /\ s = Regular("input")
              \/ i = 9 /\ s = OpenToRead("input")
              \/ i = 10 /\ s = OpenToWrite("output")
  <1>1. i \in 1 .. 10
    BY AddConstantsSteps
  <1>2. i = 1 \/ i = 2 \/ i = 3 \/ i = 4 \/ i = 5 \/ i = 6 \/ i = 7 \/ i = 8 \/ i = 9 \/ i = 10
    BY <1>1
  <1> QED  BY AddConstantsSteps, <1>2

\* The script of validate_content.
LEMMA ValidateContentSteps ==
    ASSUME tool = "validate_content"
    PROVE  /\ Len(Script) = 11
           /\ Script[1] = Arguments
           /\ Script[2] = Regular("format")
           /\ Script[3] = Regular("input")
           /\ Script[4] = AbsentOrRegular("output")
           /\ Script[5] = AbsentOrRegular("bad")
           /\ Script[6] = Distinct
           /\ Script[7] = Load
           /\ Script[8] = Regular("input")
           /\ Script[9] = OpenToRead("input")
           /\ Script[10] = OpenToWrite("output")
           /\ Script[11] = OpenToWrite("bad")
  <1>1. Script = ValidateContentChecks \o ValidateContentOpens
    BY DEF Script
  <1> QED  BY <1>1 DEF ValidateContentChecks, ValidateContentOpens, ValidateContentInput

\* The steps of validate_content.
LEMMA ValidateContentScript ==
    ASSUME tool = "validate_content", NEW i \in 1 .. Len(Script), NEW s, s = Script[i]
    PROVE  /\ Len(Script) = 11
           /\ \/ i = 1 /\ s = Arguments
              \/ i = 2 /\ s = Regular("format")
              \/ i = 3 /\ s = Regular("input")
              \/ i = 4 /\ s = AbsentOrRegular("output")
              \/ i = 5 /\ s = AbsentOrRegular("bad")
              \/ i = 6 /\ s = Distinct
              \/ i = 7 /\ s = Load
              \/ i = 8 /\ s = Regular("input")
              \/ i = 9 /\ s = OpenToRead("input")
              \/ i = 10 /\ s = OpenToWrite("output")
              \/ i = 11 /\ s = OpenToWrite("bad")
  <1>1. i \in 1 .. 11
    BY ValidateContentSteps
  <1>2. i = 1 \/ i = 2 \/ i = 3 \/ i = 4 \/ i = 5 \/ i = 6 \/ i = 7 \/ i = 8 \/ i = 9 \/ i = 10 \/ i = 11
    BY <1>1
  <1> QED  BY ValidateContentSteps, <1>2

\* The script of validate_structure.
LEMMA ValidateStructureSteps ==
    ASSUME tool = "validate_structure"
    PROVE  /\ Len(Script) = 6
           /\ Script[1] = Arguments
           /\ Script[2] = Regular("format")
           /\ Script[3] = Regular("input")
           /\ Script[4] = Load
           /\ Script[5] = Regular("input")
           /\ Script[6] = OpenToRead("input")
  <1>1. Script = ValidateStructureChecks \o ValidateStructureOpens
    BY DEF Script
  <1> QED  BY <1>1 DEF ValidateStructureChecks, ValidateStructureOpens, ValidateStructureInput

\* The steps of validate_structure.
LEMMA ValidateStructureScript ==
    ASSUME tool = "validate_structure", NEW i \in 1 .. Len(Script), NEW s, s = Script[i]
    PROVE  /\ Len(Script) = 6
           /\ \/ i = 1 /\ s = Arguments
              \/ i = 2 /\ s = Regular("format")
              \/ i = 3 /\ s = Regular("input")
              \/ i = 4 /\ s = Load
              \/ i = 5 /\ s = Regular("input")
              \/ i = 6 /\ s = OpenToRead("input")
  <1>1. i \in 1 .. 6
    BY ValidateStructureSteps
  <1>2. i = 1 \/ i = 2 \/ i = 3 \/ i = 4 \/ i = 5 \/ i = 6
    BY <1>1
  <1> QED  BY ValidateStructureSteps, <1>2

\* The script of dump_format_file.
LEMMA DumpFormatFileSteps ==
    ASSUME tool = "dump_format_file"
    PROVE  /\ Len(Script) = 2
           /\ Script[1] = Arguments
           /\ Script[2] = Load
  <1>1. Script = DumpFormatFile
    BY DEF Script
  <1> QED  BY <1>1 DEF DumpFormatFile

\* The steps of dump_format_file.
LEMMA DumpFormatFileScript ==
    ASSUME tool = "dump_format_file", NEW i \in 1 .. Len(Script), NEW s, s = Script[i]
    PROVE  /\ Len(Script) = 2
           /\ \/ i = 1 /\ s = Arguments
              \/ i = 2 /\ s = Load
  <1>1. i \in 1 .. 2
    BY DumpFormatFileSteps
  <1>2. i = 1 \/ i = 2
    BY <1>1
  <1> QED  BY DumpFormatFileSteps, <1>2

\* What the steps of the scripts are, by name.
LEMMA StepFields ==
    /\ Arguments.do = "arguments"
    /\ Constants.do = "constants"
    /\ Distinct.do = "distinct"
    /\ Load.do = "load" /\ Load.role = "format"
    /\ Regular("format").do = "regular" /\ Regular("format").role = "format"
    /\ Regular("input").do = "regular" /\ Regular("input").role = "input"
    /\ AbsentOrRegular("output").do = "absent or regular" /\ AbsentOrRegular("output").role = "output"
    /\ AbsentOrRegular("bad").do = "absent or regular" /\ AbsentOrRegular("bad").role = "bad"
    /\ OpenToRead("input").do = "read" /\ OpenToRead("input").role = "input"
    /\ OpenToWrite("output").do = "write" /\ OpenToWrite("output").role = "output"
    /\ OpenToWrite("bad").do = "write" /\ OpenToWrite("bad").role = "bad"
  BY DEF Arguments, Constants, Distinct, Load, Regular, AbsentOrRegular, OpenToRead, OpenToWrite, Step

\* What a step does, and to a file of which role.
LEMMA StepsOfScripts ==
    ASSUME tool \in DOMAIN Argc, argv \in [Takes[tool] -> Name], NEW i \in 1 .. Len(Script), NEW s, s = Script[i]
    PROVE  \/ s.do \in {"arguments", "constants", "distinct"}
           \/ s.do = "regular" /\ s.role \in DOMAIN argv \cap {"format", "input"} /\ s = Regular(s.role)
           \/ s.do \in {"absent or regular", "write"} /\ s.role \in DOMAIN argv \cap {"output", "bad"}
           \/ s.do = "load" /\ s.role \in DOMAIN argv \cap {"format"} /\ s = Load
           \/ s.do = "read" /\ s.role \in DOMAIN argv \cap {"input"} /\ s = OpenToRead("input")
  <1>0. /\ DOMAIN argv = Takes[tool]
        /\ Takes["standard_form"] = {"format", "input", "output"}
        /\ Takes["add_constants"] = {"format", "input", "output"}
        /\ Takes["validate_content"] = {"format", "input", "output", "bad"}
        /\ Takes["validate_structure"] = {"format", "input"}
        /\ Takes["dump_format_file"] = {"format"}
    BY DEF Takes
  <1>1. tool \in {"standard_form", "add_constants", "validate_content", "validate_structure", "dump_format_file"}
    BY DEF Argc
  <1>2. CASE tool = "standard_form"
    <2>1. s \in {Arguments, Regular("format"), Regular("input"), AbsentOrRegular("output"), Load, OpenToRead("input"), OpenToWrite("output")}
      BY <1>2, StandardFormScript
    <2>2. DOMAIN argv = {"format", "input", "output"}
      BY <1>0, <1>2
    <2> QED  BY <2>1, <2>2, StepFields, ZenonT(60)
  <1>3. CASE tool = "add_constants"
    <2>1. s \in {Arguments, Constants, Regular("format"), Regular("input"), AbsentOrRegular("output"), Distinct, Load, OpenToRead("input"), OpenToWrite("output")}
      BY <1>3, AddConstantsScript
    <2>2. DOMAIN argv = {"format", "input", "output"}
      BY <1>0, <1>3
    <2> QED  BY <2>1, <2>2, StepFields, ZenonT(60)
  <1>4. CASE tool = "validate_content"
    <2>1. s \in {Arguments, Regular("format"), Regular("input"), AbsentOrRegular("output"), AbsentOrRegular("bad"), Distinct, Load, OpenToRead("input"), OpenToWrite("output"), OpenToWrite("bad")}
      BY <1>4, ValidateContentScript
    <2>2. DOMAIN argv = {"format", "input", "output", "bad"}
      BY <1>0, <1>4
    <2> QED  BY <2>1, <2>2, StepFields, ZenonT(60)
  <1>5. CASE tool = "validate_structure"
    <2>1. s \in {Arguments, Regular("format"), Regular("input"), Load, OpenToRead("input")}
      BY <1>5, ValidateStructureScript
    <2>2. DOMAIN argv = {"format", "input"}
      BY <1>0, <1>5
    <2> QED  BY <2>1, <2>2, StepFields
  <1>6. CASE tool = "dump_format_file"
    <2>1. s \in {Arguments, Load}
      BY <1>6, DumpFormatFileScript
    <2>2. DOMAIN argv = {"format"}
      BY <1>0, <1>6
    <2> QED  BY <2>1, <2>2, StepFields
  <1> QED  BY <1>1, <1>2, <1>3, <1>4, <1>5, <1>6

\* A tool that goes on after it has opened a file to write is validate_content,
\* which then opens its other one.
LEMMA WritesComeLast ==
    ASSUME tool \in DOMAIN Argc, NEW i \in 1 .. Len(Script), Script[i].do = "write", i < Len(Script)
    PROVE  /\ tool = "validate_content"
           /\ i = 10 /\ Len(Script) = 11
           /\ Script[9] = OpenToRead("input")
           /\ Script[10] = OpenToWrite("output")
           /\ Script[11] = OpenToWrite("bad")
           /\ \A j \in 1 .. 10 : ~(Script[j].do \in {"load", "read", "write"} /\ Script[j].role = "bad")
  <1>1. tool \in {"standard_form", "add_constants", "validate_content", "validate_structure", "dump_format_file"}
    BY DEF Argc
  <1>2. \A r : r = Arguments \/ r = Constants \/ r = Distinct \/ r = Load \/ r = Regular("format") \/ r = Regular("input")
            \/ r = AbsentOrRegular("output") \/ r = AbsentOrRegular("bad") \/ r = OpenToRead("input") => r.do # "write"
    BY StepFields
  <1> DEFINE s == Script[i]
  <1>3. s = Script[i] /\ s.do = "write"
    OBVIOUS
  <1> HIDE DEF s
  <1>4. tool # "standard_form"
    <2> SUFFICES ASSUME tool = "standard_form"  PROVE FALSE
      OBVIOUS
    <2>1. i = 7 /\ Len(Script) = 7
      BY <1>2, <1>3, StandardFormScript
    <2> QED  BY <2>1
  <1>5. tool # "add_constants"
    BY <1>2, <1>3, AddConstantsScript
  <1>6. tool # "validate_structure"
    BY <1>2, <1>3, ValidateStructureScript
  <1>7. tool # "dump_format_file"
    BY <1>2, <1>3, DumpFormatFileScript
  <1>8. tool = "validate_content"
    BY <1>1, <1>4, <1>5, <1>6, <1>7
  <1>9. i = 10 /\ Len(Script) = 11
    BY <1>2, <1>3, <1>8, ValidateContentScript
  <1>10. /\ Script[9] = OpenToRead("input")
         /\ Script[10] = OpenToWrite("output")
         /\ Script[11] = OpenToWrite("bad")
    BY <1>8, <1>9, ValidateContentScript
  <1>11. ASSUME NEW j \in 1 .. 10, NEW r, r = Script[j], r.role = "bad"
         PROVE  r.do \notin {"load", "read", "write"}
    <2>1. r \in {Arguments, Regular("format"), Regular("input"), AbsentOrRegular("output"), AbsentOrRegular("bad"),
                 Distinct, Load, OpenToRead("input"), OpenToWrite("output")}
      BY <1>8, <1>9, <1>11, ValidateContentScript
    <2> QED  BY <1>11, <2>1, StepFields
  <1> QED  BY <1>8, <1>9, <1>10, <1>11

\* add_constants and validate_content compare the names before they open a file to write.
LEMMA NamesComeFirst ==
    ASSUME tool \in {"add_constants", "validate_content"}, NEW i \in 1 .. Len(Script), Script[i].do = "write"
    PROVE  \E j \in 1 .. i - 1 : Script[j].do = "distinct"
  <1> DEFINE s == Script[i]
  <1>1. s = Script[i] /\ s.do = "write"
    OBVIOUS
  <1> HIDE DEF s
  <1>2. \A r : r = Arguments \/ r = Constants \/ r = Distinct \/ r = Load \/ r = Regular("format") \/ r = Regular("input")
            \/ r = AbsentOrRegular("output") \/ r = AbsentOrRegular("bad") \/ r = OpenToRead("input") => r.do # "write"
    BY StepFields
  <1>3. CASE tool = "add_constants"
    <2>1. i = 10 /\ Len(Script) = 10
      BY <1>1, <1>2, <1>3, AddConstantsScript
    <2>2. Script[6] = Distinct
      BY <1>3, <2>1, AddConstantsScript
    <2>3. 6 \in 1 .. i - 1
      BY <2>1
    <2>4. Script[6].do = "distinct"
      BY <2>2, StepFields
    <2> QED  BY <2>3, <2>4
  <1>4. CASE tool = "validate_content"
    <2>1. i \in {10, 11} /\ Len(Script) = 11
      BY <1>1, <1>2, <1>4, ValidateContentScript
    <2>2. Script[6] = Distinct
      BY <1>4, <2>1, ValidateContentScript
    <2>3. 6 \in 1 .. i - 1
      BY <2>1
    <2>4. Script[6].do = "distinct"
      BY <2>2, StepFields
    <2> QED  BY <2>3, <2>4
  <1> QED  BY <1>3, <1>4

\* All tools but dump_format_file look at a file before they read it, and all but
\* standard_form at the input file just before they open it.
LEMMA LooksComeFirst ==
    ASSUME tool \in DOMAIN Argc \ {"dump_format_file"}, NEW i \in 1 .. Len(Script),
           NEW s, s = Script[i], s.do \in {"load", "read"}
    PROVE  /\ \E j \in 1 .. i - 1 : Script[j] = Regular(s.role)
           /\ s.do = "read" /\ tool # "standard_form" => i > 1 /\ Script[i - 1] = Regular("input")
  <1>1. tool \in {"standard_form", "add_constants", "validate_content", "validate_structure"}
    BY DEF Argc
  <1>2. \A r : r = Arguments \/ r = Constants \/ r = Distinct \/ r = Regular("format") \/ r = Regular("input")
            \/ r = AbsentOrRegular("output") \/ r = AbsentOrRegular("bad") \/ r = OpenToWrite("output")
            \/ r = OpenToWrite("bad") => r.do \notin {"load", "read"}
    BY StepFields
  <1>3. s.do \in {"load", "read"}
    OBVIOUS
  <1>4. CASE tool = "standard_form"
    <2>1. Len(Script) = 7 /\ ((s = Load /\ i = 5) \/ (s = OpenToRead("input") /\ i = 6))
      BY <1>2, <1>3, <1>4, StandardFormScript
    <2>2. Script[2] = Regular("format") /\ Script[3] = Regular("input")
      BY <1>4, <2>1, StandardFormScript
    <2>3. CASE s = Load /\ i = 5
      <3>1. s.do = "load" /\ s.role = "format"
        BY <2>3, StepFields
      <3>2. 2 \in 1 .. i - 1
        BY <2>3
      <3> QED  BY <2>2, <3>1, <3>2
    <2>4. CASE s = OpenToRead("input") /\ i = 6
      <3>1. s.role = "input"
        BY <2>4, StepFields
      <3>2. 3 \in 1 .. i - 1
        BY <2>4
      <3> QED  BY <1>4, <2>2, <3>1, <3>2
    <2> QED  BY <2>1, <2>3, <2>4
  <1>5. CASE tool = "add_constants"
    <2>1. Len(Script) = 10 /\ ((s = Load /\ i = 7) \/ (s = OpenToRead("input") /\ i = 9))
      BY <1>2, <1>3, <1>5, AddConstantsScript
    <2>2. Script[3] = Regular("format") /\ Script[8] = Regular("input")
      BY <1>5, <2>1, AddConstantsScript
    <2>3. CASE s = Load /\ i = 7
      <3>1. s.do = "load" /\ s.role = "format"
        BY <2>3, StepFields
      <3>2. 3 \in 1 .. i - 1
        BY <2>3
      <3> QED  BY <2>2, <3>1, <3>2
    <2>4. CASE s = OpenToRead("input") /\ i = 9
      <3>1. s.role = "input"
        BY <2>4, StepFields
      <3>2. 8 \in 1 .. i - 1 /\ i > 1 /\ i - 1 = 8
        BY <2>4
      <3> QED  BY <1>5, <2>2, <3>1, <3>2
    <2> QED  BY <2>1, <2>3, <2>4
  <1>6. CASE tool = "validate_content"
    <2>1. Len(Script) = 11 /\ ((s = Load /\ i = 7) \/ (s = OpenToRead("input") /\ i = 9))
      BY <1>2, <1>3, <1>6, ValidateContentScript
    <2>2. Script[2] = Regular("format") /\ Script[8] = Regular("input")
      BY <1>6, <2>1, ValidateContentScript
    <2>3. CASE s = Load /\ i = 7
      <3>1. s.do = "load" /\ s.role = "format"
        BY <2>3, StepFields
      <3>2. 2 \in 1 .. i - 1
        BY <2>3
      <3> QED  BY <2>2, <3>1, <3>2
    <2>4. CASE s = OpenToRead("input") /\ i = 9
      <3>1. s.role = "input"
        BY <2>4, StepFields
      <3>2. 8 \in 1 .. i - 1 /\ i > 1 /\ i - 1 = 8
        BY <2>4
      <3> QED  BY <1>6, <2>2, <3>1, <3>2
    <2> QED  BY <2>1, <2>3, <2>4
  <1>7. CASE tool = "validate_structure"
    <2>1. Len(Script) = 6 /\ ((s = Load /\ i = 4) \/ (s = OpenToRead("input") /\ i = 6))
      BY <1>2, <1>3, <1>7, ValidateStructureScript
    <2>2. Script[2] = Regular("format") /\ Script[5] = Regular("input")
      BY <1>7, <2>1, ValidateStructureScript
    <2>3. CASE s = Load /\ i = 4
      <3>1. s.do = "load" /\ s.role = "format"
        BY <2>3, StepFields
      <3>2. 2 \in 1 .. i - 1
        BY <2>3
      <3> QED  BY <2>2, <3>1, <3>2
    <2>4. CASE s = OpenToRead("input") /\ i = 6
      <3>1. s.role = "input"
        BY <2>4, StepFields
      <3>2. 5 \in 1 .. i - 1 /\ i > 1 /\ i - 1 = 5
        BY <2>4
      <3> QED  BY <1>7, <2>2, <3>1, <3>2
    <2> QED  BY <2>1, <2>3, <2>4
  <1> QED  BY <1>1, <1>4, <1>5, <1>6, <1>7

----------------------------------------------------------------------------
(* The invariant *)

Opens(s, role) == s.do \in {"load", "read", "write"} /\ s.role = role

\* Some step that is done opens the file of a role.
IsOpened(role) == \E i \in 1 .. step : Opens(Script[i], role)

Typed ==
    /\ tool \in DOMAIN Argc /\ argv \in [Takes[tool] -> Name] /\ world \in Worlds
    /\ node \in [Name -> Node \cup Name \cup {"none"}]
    /\ changes \in Nat
    /\ step \in 0 .. Len(Script)
    /\ files \in [Role -> Node \cup Name \cup {"none", "stdout"}]
    /\ touched \in [Role -> 0 .. Len(Script)]
    /\ trouble \in BOOLEAN /\ (trouble => status = "refused")
    /\ status \in {"starting", "refused", "working", "finished"}
    /\ status \in {"starting", "refused"} <=> step < Len(Script)

\* What there was before for an argument.
Was(role) == world.node[Place(role)]

\* What is in a place is what was in it before, or what another program put
\* there, or a file the tool made.
NodesKnown ==
    \A n \in Name : node[n] \in {"none", IF n \in made THEN n ELSE world.node[n]} \cup Directories

\* As long as nobody else changes the directory, what is new is what was made.
MadeNew ==
    changes = 0 => \A n \in Name : IF n \in made THEN world.node[n] = "none" /\ n \notin Unreachable /\ node[n] = n
                                   ELSE node[n] = world.node[n]

\* What was made was opened to be written.
MadeToWrite == \A n \in made : \E i \in 1 .. step : Script[i].do = "write" /\ n = Place(Script[i].role)

\* A file is opened by the step that opens it, and closed when all are.
OpenedInTime ==
    \A role \in Role : /\ files[role] # "none" => IsOpened(role)
                       /\ IsOpened(role) /\ status \in {"starting", "refused"} => files[role] # "none"

\* What was opened was there before, or is a directory, or a file of its own name.
FilesKnown ==
    /\ \A role \in DOMAIN argv \cap {"format", "input"} :
          files[role] \in {"none", Was(role)} \cup Directories
    /\ \A role \in DOMAIN argv \cap {"output", "bad"} :
          files[role] \in {"none", "stdout"} \cup
             {f \in {Was(role), Place(role)} : ~(role = "output" /\ ToStdout) /\ RegularFile(f)}

\* What add_constants and validate_content ask of the names.
Apart ==
    /\ NameOf("input") # NameOf("output")
    /\ tool = "validate_content" => NameOf("output") # NameOf("bad") /\ NameOf("bad") # NameOf("input")

NamesCompared == \A i \in 1 .. step : Script[i].do = "distinct" => Apart

\* What was looked at is still a regular file when it was not touched since.
LookedAt ==
    \A role \in {"format", "input"} \cap DOMAIN argv :
       /\ touched[role] <= step
       /\ status = "starting" /\ files[role] = "none" =>
            \A i \in touched[role] + 1 .. step : Script[i] = Regular(role) => RegularFile(node[Place(role)])

\* What a step asks of the command line and of what was there before.
CanWrite(role) ==
    \/ role = "output" /\ ToStdout
    \/ RegularFile(Was(role))
    \/ Was(role) = "none" /\ Place(role) \notin Unreachable

Passes(s) ==
    /\ s.do = "arguments" => argc \in Argc[tool]
    /\ s.do = "constants" => constants = "well formed"
    /\ s.do = "regular" => RegularFile(Was(s.role))
    /\ s.do \in {"absent or regular", "write"} => CanWrite(s.role)
    /\ s.do = "distinct" => Apart
    /\ s.do \in {"load", "read"} => Was(s.role) # "none"

Passing == {i \in 1 .. Len(Script) : Passes(Script[i])}

PassedSoFar == changes = 0 /\ ~trouble => 1 .. step \subseteq Passing /\ (status = "refused" => step + 1 \notin Passing)

Inv ==
    /\ Typed
    /\ NodesKnown
    /\ MadeNew
    /\ MadeToWrite
    /\ OpenedInTime
    /\ FilesKnown
    /\ NamesCompared
    /\ LookedAt
    /\ PassedSoFar

----------------------------------------------------------------------------

\* The command line stays, and what follows from it.
LEMMA CommandLineStays ==
    ASSUME UNCHANGED commandLine
    PROVE  /\ tool' = tool /\ argc' = argc /\ argv' = argv /\ constants' = constants /\ world' = world
           /\ Script' = Script
           /\ ToStdout' = ToStdout
           /\ Apart' = Apart
           /\ Passing' = Passing
  <1>1. tool' = tool /\ argc' = argc /\ argv' = argv /\ constants' = constants /\ world' = world
    BY DEF commandLine
  <1>2. Script' = Script
    BY <1>1 DEF Script
  <1>3. ToStdout' = ToStdout
    BY <1>1 DEF ToStdout
  <1>4. Apart' = Apart
    BY <1>1, <1>3 DEF Apart, NameOf
  <1>5. Passing' = Passing
    BY <1>1, <1>2, <1>3, <1>4 DEF Passing, Passes, CanWrite, NameOf, Place, Was, RegularFile
  <1> QED  BY <1>1, <1>2, <1>3, <1>4, <1>5

\* The type of what the assumptions speak of.
LEMMA WorldType ==
    ASSUME Typed
    PROVE  /\ world.node \in [Name -> Node \cup {"none"}] /\ world.place \in [Name -> Name]
           /\ Directories \subseteq Node
           /\ \A n \in Name : n \notin Node /\ n # "none" /\ n # "stdout" /\ RegularFile(n)
           /\ \A n \in Node : n # "none" /\ n # "stdout"
           /\ Len(Script) \in Nat /\ step \in Nat
           /\ DOMAIN argv = Takes[tool] /\ DOMAIN argv \subseteq Role
  <1>1. world.node \in [Name -> Node \cup {"none"}] /\ world.place \in [Name -> Name]
    BY StartAssumption DEF Typed
  <1>2. \A n \in Name \cup Node : n # "none" /\ n # "stdout"
    BY StartAssumption
  <1>3. \A n \in Name : n \notin Node
    BY StartAssumption
  <1>4. Len(Script) \in Nat
    <2> DEFINE s == Script[1]
    <2>1. tool \in {"standard_form", "add_constants", "validate_content", "validate_structure", "dump_format_file"}
      BY DEF Argc, Typed
    <2> QED  BY <2>1 DEF Script, StandardFormChecks, StandardFormOpens, StandardFormInput, AddConstantsChecks,
                         AddConstantsOpens, AddConstantsInput, ValidateContentChecks, ValidateContentOpens,
                         ValidateContentInput, ValidateStructureChecks, ValidateStructureOpens,
                         ValidateStructureInput, DumpFormatFile
  <1>5. DOMAIN argv = Takes[tool] /\ DOMAIN argv \subseteq Role
    <2>1. tool \in {"standard_form", "add_constants", "validate_content", "validate_structure", "dump_format_file"}
      BY DEF Argc, Typed
    <2>2. \A t \in {"standard_form", "add_constants", "validate_content", "validate_structure", "dump_format_file"} :
            Takes[t] \subseteq Role
      BY DEF Takes, Role
    <2> QED  BY <2>1, <2>2 DEF Typed
  <1> QED  BY <1>1, <1>2, <1>3, <1>4, <1>5, StartAssumption DEF Typed, RegularFile

\* The names the files have.
LEMMA NameOfFile ==
    ASSUME Typed, NEW role \in DOMAIN argv
    PROVE  /\ argv[role] \in Name
           /\ role # "output" => NameOf(role) = argv[role]
           /\ ~(role = "output" /\ ToStdout) => NameOf(role) = argv[role]
           /\ world.place[argv[role]] \in Name
           /\ role # "output" => Place(role) = world.place[argv[role]]
           /\ ~(role = "output" /\ ToStdout) => Place(role) = world.place[argv[role]]
  <1>1. argv[role] \in Name
    BY DEF Typed
  <1>2. world.place \in [Name -> Name]
    BY StartAssumption DEF Typed
  <1> QED  BY <1>1, <1>2 DEF NameOf, Place

\* The invariant holds before the tool does anything.
LEMMA InitInv == StartInit => Inv
  <1> SUFFICES ASSUME StartInit  PROVE Inv
    OBVIOUS
  <1>0. /\ tool \in DOMAIN Argc /\ argv \in [Takes[tool] -> Name] /\ world \in Worlds /\ node = world.node
        /\ changes = 0 /\ step = 0 /\ files = [role \in Role |-> "none"] /\ made = {}
        /\ touched = [role \in Role |-> 0] /\ trouble = FALSE /\ status = "starting"
    BY DEF StartInit
  <1>1. Len(Script) \in Nat /\ 0 < Len(Script)
    <2>1. tool \in {"standard_form", "add_constants", "validate_content", "validate_structure", "dump_format_file"}
      BY <1>0 DEF Argc
    <2> QED  BY <2>1 DEF Script, StandardFormChecks, StandardFormOpens, StandardFormInput, AddConstantsChecks,
                         AddConstantsOpens, AddConstantsInput, ValidateContentChecks, ValidateContentOpens,
                         ValidateContentInput, ValidateStructureChecks, ValidateStructureOpens,
                         ValidateStructureInput, DumpFormatFile
  <1>2. world.node \in [Name -> Node \cup {"none"}]
    BY <1>0, StartAssumption
  <1>3. Typed
    <2>1. node \in [Name -> Node \cup Name \cup {"none"}]
      BY <1>0, <1>2
    <2>2. touched \in [Role -> 0 .. Len(Script)] /\ step \in 0 .. Len(Script)
      BY <1>0, <1>1
    <2>3. files \in [Role -> Node \cup Name \cup {"none", "stdout"}]
      BY <1>0
    <2> QED  BY <1>0, <1>1, <2>1, <2>2, <2>3 DEF Typed
  <1>4. NodesKnown /\ MadeNew /\ MadeToWrite
    BY <1>0 DEF NodesKnown, MadeNew, MadeToWrite
  <1>5. 1 .. step = {} /\ \A role \in Role : touched[role] + 1 .. step = {} /\ touched[role] = 0
    BY <1>0
  <1>6. OpenedInTime /\ NamesCompared
    BY <1>0, <1>5 DEF OpenedInTime, IsOpened, NamesCompared
  <1>7. DOMAIN argv \subseteq Role
    BY <1>3, WorldType
  <1>8. FilesKnown
    BY <1>0, <1>7 DEF FilesKnown
  <1>9. LookedAt
    <2>1. \A role \in DOMAIN argv : touched[role] <= step
      BY <1>0, <1>5, <1>7
    <2> QED  BY <1>5, <1>7, <2>1 DEF LookedAt
  <1>10. PassedSoFar
    BY <1>0, <1>5 DEF PassedSoFar
  <1> QED  BY <1>3, <1>4, <1>6, <1>8, <1>9, <1>10 DEF Inv

\* The numbers up to the next one.
LEMMA OneMore ==
    ASSUME NEW m \in Nat, NEW n \in Nat, m < n
    PROVE  /\ m + 1 \in 1 .. n /\ m + 1 \in 0 .. n /\ m \in 0 .. n /\ m <= m + 1 /\ m <= m
           /\ m + 1 < n <=> m + 1 # n
           /\ \A i : i \in 1 .. m + 1 <=> i \in 1 .. m \/ i = m + 1
           /\ \A k \in 0 .. m : k \in Nat /\ k <= m + 1
           /\ \A k \in Nat : \A i : i \in k + 1 .. m + 1 => i = m + 1 \/ i \in k + 1 .. m
  OBVIOUS

\* The next step is a check that is passed, or that makes the tool refuse.
Checks(s, ok) ==
    /\ NothingOpened
    /\ status = "starting" /\ step < Len(Script)
    /\ s = Script[step + 1]
    /\ s.do \in {"arguments", "constants", "regular", "absent or regular", "distinct"}
    /\ ok \in BOOLEAN
    /\ ok => Proceed
    /\ ~ok => Refuse
    /\ ok /\ s.do = "distinct" => Apart
    /\ \A role \in DOMAIN argv : ok /\ s = Regular(role) => RegularFile(node[Place(role)])
    /\ changes = 0 /\ ~trouble => (ok <=> Passes(s))

\* A check keeps the invariant.
LEMMA CheckInv ==
    ASSUME Inv, NEW s, NEW ok, Checks(s, ok)
    PROVE  Inv'
  <1>1. /\ node' = node /\ changes' = changes /\ files' = files /\ made' = made /\ touched' = touched
        /\ trouble' = trouble
    BY DEF Checks, NothingOpened
  <1>2. /\ tool' = tool /\ argc' = argc /\ argv' = argv /\ constants' = constants /\ world' = world
        /\ Script' = Script /\ ToStdout' = ToStdout /\ Apart' = Apart /\ Passing' = Passing
    BY CommandLineStays DEF Checks, NothingOpened
  <1>3. Typed /\ Len(Script) \in Nat /\ step \in Nat /\ step + 1 \in 1 .. Len(Script)
    <2>1. Typed
      BY DEF Inv
    <2>2. Len(Script) \in Nat /\ step \in Nat
      BY <2>1, WorldType
    <2>3. step < Len(Script)
      BY DEF Checks
    <2> QED  BY <2>1, <2>2, <2>3, OneMore
  <1>4. step < Len(Script) /\ status = "starting" /\ s = Script[step + 1] /\ ok \in BOOLEAN
    BY DEF Checks
  <1>5. \/ ok /\ step' = step + 1 /\ status' = (IF step + 1 = Len(Script) THEN "working" ELSE "starting")
        \/ ~ok /\ step' = step /\ status' = "refused"
    BY DEF Checks, Proceed, Refuse
  <1>6. \A i : i \in 1 .. step' => i \in 1 .. step \/ (ok /\ i = step + 1)
    BY <1>3, <1>5, <1>4, OneMore
  <1>7. \A i : i \in 1 .. step => i \in 1 .. step'
    BY <1>3, <1>5, <1>4, OneMore
  <1>8. step' \in 0 .. Len(Script) /\ step <= step' /\ (status' \in {"starting", "refused"} <=> step' < Len(Script))
    <2>1. CASE ok
      <3>1. step' = step + 1 /\ (step + 1 < Len(Script) <=> step + 1 # Len(Script))
        BY <1>3, <1>5, <1>4, <2>1, OneMore
      <3>2. step + 1 \in 0 .. Len(Script) /\ step <= step + 1
        BY <1>3, <1>4, OneMore
      <3>3. status' = IF step + 1 = Len(Script) THEN "working" ELSE "starting"
        BY <1>5, <2>1
      <3> QED  BY <3>1, <3>2, <3>3
    <2>2. CASE ~ok
      <3>1. step' = step /\ status' = "refused"
        BY <1>5, <2>2
      <3> QED  BY <1>3, <1>4, <3>1, OneMore
    <2> QED  BY <2>1, <2>2
  <1>9. Typed'
    BY <1>1, <1>2, <1>3, <1>5, <1>8, <1>4 DEF Typed
  <1>10. NodesKnown' /\ MadeNew'
    BY <1>1, <1>2 DEF Inv, NodesKnown, MadeNew
  <1>11. MadeToWrite'
    BY <1>1, <1>2, <1>7 DEF Inv, MadeToWrite, NameOf, Place, Was
  <1>12. \A role : ~Opens(s, role)
    BY DEF Checks, Opens
  <1>13. OpenedInTime'
    <2>1. \A role : IsOpened(role)' <=> IsOpened(role)
      BY <1>2, <1>6, <1>7, <1>12, <1>4 DEF IsOpened, Opens
    <2> QED  BY <1>1, <1>4, <2>1 DEF Inv, OpenedInTime
  <1>14. FilesKnown'
    BY <1>1, <1>2 DEF Inv, FilesKnown, NameOf, Place, Was, RegularFile
  <1>15. NamesCompared'
    BY <1>2, <1>6, <1>4 DEF Inv, NamesCompared, Checks
  <1>16. LookedAt'
    <2> SUFFICES ASSUME NEW role \in {"format", "input"} \cap DOMAIN argv
                 PROVE  /\ touched[role] <= step'
                        /\ status' = "starting" /\ files[role] = "none" =>
                             \A i \in touched[role] + 1 .. step' :
                               Script[i] = Regular(role) => RegularFile(node[Place(role)])
      BY <1>1, <1>2 DEF LookedAt, RegularFile, Place, NameOf
    <2> DEFINE k == touched[role]
    <2>1. k <= step /\ k \in Nat
      <3>1. touched \in [Role -> 0 .. Len(Script)] /\ role \in Role
        BY <1>3, WorldType DEF Typed
      <3>2. k \in 0 .. Len(Script)
        BY <3>1
      <3>3. k <= step
        BY DEF Inv, LookedAt
      <3> HIDE DEF k
      <3> QED  BY <1>3, <3>2, <3>3
    <2>2. ASSUME status' = "starting", files[role] = "none", NEW i \in touched[role] + 1 .. step', Script[i] = Regular(role)
          PROVE  RegularFile(node[Place(role)])
      <3>1. CASE i = step + 1
        <4>1. ok
          BY <1>5, <2>2
        <4>2. s = Regular(role)
          BY <1>4, <2>2, <3>1
        <4> QED  BY <4>1, <4>2 DEF Checks
      <3>2. CASE i # step + 1
        <4>1. i \in touched[role] + 1 .. step
          <5>1. step' = step \/ step' = step + 1
            BY <1>5
          <5> QED  BY <1>3, <2>1, <2>2, <3>2, <5>1, <1>4, OneMore
        <4> QED  BY <1>4, <2>2, <4>1 DEF Inv, LookedAt
      <3> QED  BY <3>1, <3>2
    <2>3. k <= step'
      <3>1. step' \in Nat
        BY <1>3, <1>8
      <3> HIDE DEF k
      <3> QED  BY <1>3, <1>8, <2>1, <3>1
    <2> QED  BY <2>2, <2>3
  <1>17. PassedSoFar'
    <2> SUFFICES ASSUME changes = 0, ~trouble
                 PROVE  1 .. step' \subseteq Passing /\ (status' = "refused" => step' + 1 \notin Passing)
      BY <1>1, <1>2 DEF PassedSoFar
    <2>1. 1 .. step \subseteq Passing
      BY DEF Inv, PassedSoFar
    <2>2. ok <=> step + 1 \in Passing
      BY <1>3, <1>4 DEF Passing, Checks
    <2> QED  BY <1>5, <1>6, <2>1, <2>2
  <1> QED  BY <1>9, <1>10, <1>11, <1>13, <1>14, <1>15, <1>16, <1>17 DEF Inv

\* Before the first file is opened to be written, none has been made.
LEMMA NoneMade ==
    ASSUME Inv, step < Len(Script), Script[step + 1].do # "write"
    PROVE  made = {} /\ (changes = 0 => \A n \in Name : node[n] = world.node[n])
  <1>0. Typed /\ Len(Script) \in Nat /\ step \in Nat /\ tool \in DOMAIN Argc /\ step < Len(Script)
    <2>1. Typed
      BY DEF Inv
    <2> QED  BY <2>1, WorldType DEF Typed
  <1>1. made = {}
    <2> SUFFICES ASSUME NEW n \in made  PROVE FALSE
      OBVIOUS
    <2>1. PICK i \in 1 .. step : Script[i].do = "write"
      BY DEF Inv, MadeToWrite
    <2>2. i \in 1 .. Len(Script) /\ i < Len(Script)
      BY <1>0
    <2>3. i = 10 /\ Len(Script) = 11 /\ Script[11] = OpenToWrite("bad")
      BY <1>0, <2>1, <2>2, WritesComeLast
    <2>4. step + 1 = 11
      BY <1>0, <2>3
    <2>5. Script[step + 1].do = "write"
      BY <2>3, <2>4, StepFields
    <2> QED  BY <2>5
  <1>2. changes = 0 => \A n \in Name : node[n] = world.node[n]
    BY <1>1 DEF Inv, MadeNew
  <1> QED  BY <1>1, <1>2

\* The next step.
LEMMA NextStep ==
    ASSUME Inv, NEW do, Now(do)
    PROVE  /\ status = "starting" /\ step < Len(Script)
           /\ step + 1 \in 1 .. Len(Script)
           /\ Script[step + 1].do = do
           /\ ThisRole = Script[step + 1].role
           /\ Typed
           /\ tool \in DOMAIN Argc /\ argv \in [Takes[tool] -> Name]
  <1>1. Typed /\ status = "starting" /\ step < Len(Script) /\ Script[step + 1].do = do
    BY DEF Inv, Now
  <1>2. Len(Script) \in Nat /\ step \in Nat
    BY <1>1, WorldType
  <1> QED  BY <1>1, <1>2, OneMore DEF ThisRole, Typed

\* What stat() is called for.
LEMMA RegularStep ==
    ASSUME NEW s, NEW role, s = Regular(role)
    PROVE  s.do = "regular" /\ s.role = role
  BY DEF Regular, Step

\* The checks keep the invariant.
LEMMA ChecksInv ==
    ASSUME Inv, CheckArguments \/ ParseConstants \/ CheckRegular \/ CheckAbsentOrRegular \/ CompareNames
    PROVE  Inv'
  <1> DEFINE s == Script[step + 1]
  <1>1. CASE CheckArguments
    <2> DEFINE ok == argc \in Argc[tool]
    <2>0. Now("arguments")
      BY <1>1 DEF CheckArguments
    <2>1. s.do = "arguments" /\ status = "starting" /\ step < Len(Script)
      BY <2>0, NextStep
    <2>2. NothingOpened /\ (ok => Proceed) /\ (~ok => Refuse) /\ s = Script[step + 1]
      BY <1>1 DEF CheckArguments
    <2> HIDE DEF s
    <2>3. Passes(s) <=> ok
      BY <2>1 DEF Passes
    <2>4. \A role : s # Regular(role)
      BY <2>1, RegularStep
    <2>5. ok \in BOOLEAN
      OBVIOUS
    <2> HIDE DEF ok
    <2>6. Checks(s, ok)
      BY <2>1, <2>2, <2>3, <2>4, <2>5 DEF Checks
    <2> QED  BY <2>6, CheckInv
  <1>2. CASE ParseConstants
    <2> DEFINE ok == constants = "well formed"
    <2>0. Now("constants")
      BY <1>2 DEF ParseConstants
    <2>1. s.do = "constants" /\ status = "starting" /\ step < Len(Script)
      BY <2>0, NextStep
    <2>2. NothingOpened /\ (ok => Proceed) /\ (~ok => Refuse) /\ s = Script[step + 1]
      BY <1>2 DEF ParseConstants
    <2> HIDE DEF s
    <2>3. Passes(s) <=> ok
      BY <2>1 DEF Passes
    <2>4. \A role : s # Regular(role)
      BY <2>1, RegularStep
    <2>5. ok \in BOOLEAN
      OBVIOUS
    <2> HIDE DEF ok
    <2>6. Checks(s, ok)
      BY <2>1, <2>2, <2>3, <2>4, <2>5 DEF Checks
    <2> QED  BY <2>6, CheckInv
  <1>3. CASE CheckRegular
    <2> DEFINE ok == RegularFile(Is(ThisRole))
    <2>0. Now("regular")
      BY <1>3 DEF CheckRegular
    <2>1. /\ s.do = "regular" /\ status = "starting" /\ step < Len(Script) /\ ThisRole = s.role /\ Typed
          /\ step + 1 \in 1 .. Len(Script) /\ tool \in DOMAIN Argc /\ argv \in [Takes[tool] -> Name]
      BY <2>0, NextStep
    <2>2. NothingOpened /\ (ok => Proceed) /\ (~ok => Refuse) /\ s = Script[step + 1]
      BY <1>3 DEF CheckRegular
    <2>3. changes = 0 => \A n \in Name : node[n] = world.node[n]
      BY <2>1, NoneMade
    <2> HIDE DEF s
    <2>4. s.role \in DOMAIN argv \cap {"format", "input"}
      BY <2>1, <2>2, StepsOfScripts
    <2>5. Place(s.role) \in Name
      BY <2>1, <2>4, NameOfFile
    <2>6. ok <=> RegularFile(node[Place(s.role)])
      BY <2>1 DEF Is
    <2>7. changes = 0 => (ok <=> Passes(s))
      BY <2>1, <2>3, <2>5, <2>6 DEF Passes, Was
    <2>8. \A role : s = Regular(role) => s.role = role
      BY RegularStep
    <2>9. ok \in BOOLEAN
      BY DEF RegularFile
    <2> HIDE DEF ok
    <2>10. Checks(s, ok)
      BY <2>1, <2>2, <2>6, <2>7, <2>8, <2>9 DEF Checks
    <2> QED  BY <2>10, CheckInv
  <1>4. CASE CheckAbsentOrRegular
    <2> DEFINE ok == \/ ThisRole = "output" /\ ToStdout
                     \/ RegularFile(Is(ThisRole))
                     \/ Is(ThisRole) = "none" /\ Place(ThisRole) \notin Unreachable
    <2>0. Now("absent or regular")
      BY <1>4 DEF CheckAbsentOrRegular
    <2>1. /\ s.do = "absent or regular" /\ status = "starting" /\ step < Len(Script) /\ ThisRole = s.role /\ Typed
          /\ step + 1 \in 1 .. Len(Script) /\ tool \in DOMAIN Argc /\ argv \in [Takes[tool] -> Name]
      BY <2>0, NextStep
    <2>2. NothingOpened /\ (ok => Proceed) /\ (~ok => Refuse) /\ s = Script[step + 1]
      BY <1>4 DEF CheckAbsentOrRegular
    <2>3. changes = 0 => \A n \in Name : node[n] = world.node[n]
      BY <2>1, NoneMade
    <2> HIDE DEF s
    <2>4. s.role \in DOMAIN argv
      BY <2>1, <2>2, StepsOfScripts
    <2>5. ~(s.role = "output" /\ ToStdout) => Place(s.role) \in Name
      BY <2>1, <2>4, NameOfFile
    <2>6. changes = 0 => (ok <=> CanWrite(s.role))
      BY <2>1, <2>3, <2>5 DEF CanWrite, Was, Is
    <2>7. changes = 0 => (ok <=> Passes(s))
      BY <2>1, <2>6 DEF Passes
    <2>8. \A role : s # Regular(role)
      BY <2>1, RegularStep
    <2>9. ok \in BOOLEAN
      BY DEF RegularFile
    <2> HIDE DEF ok
    <2>10. Checks(s, ok)
      BY <2>1, <2>2, <2>7, <2>8, <2>9 DEF Checks
    <2> QED  BY <2>10, CheckInv
  <1>5. CASE CompareNames
    <2> DEFINE ok == Apart
    <2>0. Now("distinct")
      BY <1>5 DEF CompareNames
    <2>1. s.do = "distinct" /\ status = "starting" /\ step < Len(Script)
      BY <2>0, NextStep
    <2>2. NothingOpened /\ (ok => Proceed) /\ (~ok => Refuse) /\ s = Script[step + 1]
      BY <1>5 DEF CompareNames, Apart
    <2> HIDE DEF s
    <2>3. Passes(s) <=> ok
      BY <2>1 DEF Passes
    <2>4. \A role : s # Regular(role)
      BY <2>1, RegularStep
    <2>5. ok \in BOOLEAN /\ (ok => Apart)
      BY DEF Apart
    <2> HIDE DEF ok
    <2>6. Checks(s, ok)
      BY <2>1, <2>2, <2>3, <2>4, <2>5 DEF Checks
    <2> QED  BY <2>6, CheckInv
  <1> QED  BY <1>1, <1>2, <1>3, <1>4, <1>5

\* The name of a new file, and what it does to the directory.
Creates(name) ==
    /\ name \in Name /\ name \notin Unreachable
    /\ node[name] = "none"
    /\ node' = [node EXCEPT ![name] = name]
    /\ made' = made \cup {name}

\* The next step opens a file.
Opening(s, file) ==
    /\ UNCHANGED <<commandLine, changes, touched, trouble>>
    /\ status = "starting" /\ step < Len(Script)
    /\ s = Script[step + 1]
    /\ s.do \in {"load", "read", "write"} /\ s.role \in DOMAIN argv
    /\ Opened(s.role, file) /\ Proceed
    /\ UNCHANGED <<node, made>> \/ (s.do = "write" /\ Creates(Place(s.role)))
    /\ file \in Node \cup Name \cup {"stdout"}
    /\ s.role \in {"format", "input"} => file \in {Was(s.role)} \cup Directories
    /\ s.role \in {"output", "bad"} =>
         file \in {"stdout"} \cup {f \in {Was(s.role), Place(s.role)} :
                                     ~(s.role = "output" /\ ToStdout) /\ RegularFile(f)}
    /\ changes = 0 /\ ~trouble => Passes(s)

\* A file that is opened keeps the invariant.
LEMMA OpenInv ==
    ASSUME Inv, NEW s, NEW file, Opening(s, file)
    PROVE  Inv'
  <1> DEFINE new == Place(s.role)
  <1>1. changes' = changes /\ touched' = touched /\ trouble' = trouble
    BY DEF Opening
  <1>2. /\ tool' = tool /\ argc' = argc /\ argv' = argv /\ constants' = constants /\ world' = world
        /\ Script' = Script /\ ToStdout' = ToStdout /\ Apart' = Apart /\ Passing' = Passing
    BY CommandLineStays DEF Opening
  <1>3. status = "starting" /\ step < Len(Script) /\ s = Script[step + 1] /\ s.do \in {"load", "read", "write"}
    BY DEF Opening
  <1>4. Typed /\ Len(Script) \in Nat /\ step \in Nat /\ step + 1 \in 1 .. Len(Script)
    <2>1. Typed
      BY DEF Inv
    <2>2. Len(Script) \in Nat /\ step \in Nat
      BY <2>1, WorldType
    <2> QED  BY <1>3, <2>1, <2>2, OneMore
  <1>5. /\ step' = step + 1
        /\ status' = IF step + 1 = Len(Script) THEN "working" ELSE "starting"
    BY DEF Opening, Proceed
  <1>6. \A i : i \in 1 .. step' <=> i \in 1 .. step \/ i = step + 1
    BY <1>3, <1>4, <1>5, OneMore
  <1>7. step' \in 0 .. Len(Script) /\ step <= step' /\ (status' \in {"starting", "refused"} <=> step' < Len(Script))
    <2>1. step + 1 < Len(Script) <=> step + 1 # Len(Script)
      BY <1>3, <1>4, OneMore
    <2>2. step + 1 \in 0 .. Len(Script) /\ step <= step + 1
      BY <1>3, <1>4, OneMore
    <2> QED  BY <1>5, <2>1, <2>2
  <1>8. /\ s.role \in DOMAIN argv /\ s.role \in Role /\ DOMAIN argv \subseteq Role
        /\ files' = [files EXCEPT ![s.role] = file]
        /\ file \in Node \cup Name \cup {"stdout"} /\ file # "none"
    BY <1>4, WorldType DEF Opening, Opened
  <1>9. \A role \in Role : files'[role] = IF role = s.role THEN file ELSE files[role]
    BY <1>4, <1>8 DEF Typed
  <1>10. node \in [Name -> Node \cup Name \cup {"none"}]
    BY <1>4 DEF Typed
  <1>11. \/ node' = node /\ made' = made
         \/ /\ s.do = "write" /\ new \in Name /\ new \notin Unreachable /\ node[new] = "none" /\ new # "none"
            /\ made' = made \cup {new} /\ node' = [node EXCEPT ![new] = new]
            /\ \A n \in Name : node'[n] = IF n = new THEN new ELSE node[n]
    BY <1>4, <1>10, WorldType DEF Opening, Creates
  <1> HIDE DEF new
  <1>12. Typed'
    <2>1. node' \in [Name -> Node \cup Name \cup {"none"}]
      BY <1>10, <1>11
    <2>2. files' \in [Role -> Node \cup Name \cup {"none", "stdout"}]
      BY <1>4, <1>8 DEF Typed
    <2> QED  BY <1>1, <1>2, <1>3, <1>4, <1>5, <1>7, <2>1, <2>2 DEF Typed
  <1>13. NodesKnown'
    BY <1>2, <1>11 DEF Inv, NodesKnown
  <1>14. MadeNew'
    BY <1>1, <1>2, <1>11 DEF Inv, MadeNew
  <1>15. MadeToWrite'
    <2>1. \A n \in made : \E i \in 1 .. step' : Script[i].do = "write" /\ n = Place(Script[i].role)
      BY <1>6 DEF Inv, MadeToWrite
    <2>2. s.do = "write" => \E i \in 1 .. step' : Script[i].do = "write" /\ new = Place(Script[i].role)
      BY <1>3, <1>6 DEF new
    <2>3. \A n \in made' : \E i \in 1 .. step' : Script[i].do = "write" /\ n = Place(Script[i].role)
      BY <1>11, <2>1, <2>2
    <2> QED  BY <1>2, <2>3 DEF MadeToWrite, NameOf, Place, Was
  <1>16. OpenedInTime'
    <2>1. \A role : IsOpened(role)' <=> IsOpened(role) \/ s.role = role
      BY <1>2, <1>3, <1>6 DEF IsOpened, Opens
    <2> QED  BY <1>3, <1>8, <1>9, <2>1 DEF Inv, OpenedInTime
  <1>17. FilesKnown'
    <2>1. \A role \in DOMAIN argv \cap {"format", "input"} :
            files'[role] \in {"none", Was(role)} \cup Directories
      BY <1>8, <1>9 DEF Inv, FilesKnown, Opening
    <2>2. \A role \in DOMAIN argv \cap {"output", "bad"} :
            files'[role] \in {"none", "stdout"} \cup
              {f \in {Was(role), Place(role)} : ~(role = "output" /\ ToStdout) /\ RegularFile(f)}
      BY <1>8, <1>9 DEF Inv, FilesKnown, Opening
    <2> QED  BY <1>2, <2>1, <2>2 DEF FilesKnown, NameOf, Place, Was, RegularFile
  <1>18. NamesCompared'
    BY <1>2, <1>3, <1>6 DEF Inv, NamesCompared
  <1>19. LookedAt'
    <2> SUFFICES ASSUME NEW role \in {"format", "input"} \cap DOMAIN argv
                 PROVE  /\ touched[role] <= step'
                        /\ status' = "starting" /\ files'[role] = "none" =>
                             \A i \in touched[role] + 1 .. step' :
                               Script[i] = Regular(role) => RegularFile(node'[Place(role)])
      BY <1>1, <1>2 DEF LookedAt, RegularFile, Place, NameOf
    <2> DEFINE k == touched[role]
    <2>1. k <= step /\ k \in Nat
      <3>1. touched \in [Role -> 0 .. Len(Script)] /\ role \in Role
        BY <1>4, <1>8 DEF Typed
      <3>2. k \in 0 .. Len(Script)
        BY <3>1
      <3>3. k <= step
        BY DEF Inv, LookedAt
      <3> HIDE DEF k
      <3> QED  BY <1>4, <3>2, <3>3
    <2>2. ASSUME files'[role] = "none", NEW i \in touched[role] + 1 .. step', Script[i] = Regular(role)
          PROVE  RegularFile(node'[Place(role)])
      <3>1. i # step + 1
        BY <1>3, <2>2, RegularStep
      <3>2. i \in touched[role] + 1 .. step
        BY <1>4, <1>3, <1>5, <2>1, <2>2, <3>1, OneMore
      <3>3. files[role] = "none"
        BY <1>8, <1>9, <2>2
      <3>4. RegularFile(node[Place(role)])
        BY <1>3, <2>2, <3>2, <3>3 DEF Inv, LookedAt
      <3>5. Place(role) \in Name
        BY <1>4, NameOfFile
      <3> QED  BY <1>11, <3>4, <3>5 DEF RegularFile
    <2>3. k <= step'
      <3>1. step' \in Nat
        BY <1>4, <1>7
      <3> HIDE DEF k
      <3> QED  BY <1>4, <1>7, <2>1, <3>1
    <2> QED  BY <2>2, <2>3
  <1>20. PassedSoFar'
    <2> SUFFICES ASSUME changes = 0, ~trouble
                 PROVE  1 .. step' \subseteq Passing /\ (status' = "refused" => step' + 1 \notin Passing)
      BY <1>1, <1>2 DEF PassedSoFar
    <2>1. 1 .. step \subseteq Passing
      BY DEF Inv, PassedSoFar
    <2>2. step + 1 \in Passing
      BY <1>3, <1>4 DEF Passing, Opening
    <2> QED  BY <1>5, <1>6, <2>1, <2>2
  <1> QED  BY <1>12, <1>13, <1>14, <1>15, <1>16, <1>17, <1>18, <1>19, <1>20 DEF Inv

\* The next step cannot open its file.
Refusing ==
    /\ UNCHANGED <<commandLine, node, changes, files, made, touched>>
    /\ status = "starting" /\ step < Len(Script)
    /\ Refuse
    /\ trouble' \in BOOLEAN
    /\ changes = 0 /\ ~trouble' => ~Passes(Script[step + 1])

\* A file that is not opened keeps the invariant.
LEMMA RefuseInv ==
    ASSUME Inv, Refusing
    PROVE  Inv'
  <1>1. /\ node' = node /\ changes' = changes /\ files' = files /\ made' = made /\ touched' = touched
        /\ step' = step /\ status' = "refused" /\ status = "starting" /\ step < Len(Script) /\ trouble' \in BOOLEAN
    BY DEF Refusing, Refuse
  <1>2. /\ tool' = tool /\ argc' = argc /\ argv' = argv /\ constants' = constants /\ world' = world
        /\ Script' = Script /\ ToStdout' = ToStdout /\ Apart' = Apart /\ Passing' = Passing
    BY CommandLineStays DEF Refusing
  <1>3. Typed'
    BY <1>1, <1>2 DEF Inv, Typed
  <1>4. NodesKnown' /\ MadeNew'
    BY <1>1, <1>2 DEF Inv, NodesKnown, MadeNew
  <1>5. MadeToWrite'
    BY <1>1, <1>2 DEF Inv, MadeToWrite, NameOf, Place, Was
  <1>6. OpenedInTime'
    BY <1>1, <1>2 DEF Inv, OpenedInTime, IsOpened, Opens
  <1>7. FilesKnown'
    BY <1>1, <1>2 DEF Inv, FilesKnown, NameOf, Place, Was, RegularFile
  <1>8. NamesCompared'
    BY <1>1, <1>2 DEF Inv, NamesCompared
  <1>9. LookedAt'
    BY <1>1, <1>2 DEF Inv, LookedAt
  <1>10. PassedSoFar'
    <2>1. ~trouble
      BY <1>1 DEF Inv, Typed
    <2>2. changes = 0 /\ ~trouble' => step + 1 \notin Passing
      BY DEF Passing, Refusing
    <2> QED  BY <1>1, <1>2, <2>1, <2>2 DEF Inv, PassedSoFar
  <1> QED  BY <1>3, <1>4, <1>5, <1>6, <1>7, <1>8, <1>9, <1>10 DEF Inv

\* open() to read keeps the invariant.
LEMMA ReadInv == Inv /\ OpenForReading => Inv'
  <1> SUFFICES ASSUME Inv, OpenForReading  PROVE Inv'
    OBVIOUS
  <1> DEFINE s == Script[step + 1]
             file == Is(ThisRole)
  <1>1. PICK do \in {"load", "read"} : Now(do)
    BY DEF OpenForReading
  <1>2. /\ s.do \in {"load", "read"} /\ status = "starting" /\ step < Len(Script) /\ ThisRole = s.role /\ Typed
        /\ step + 1 \in 1 .. Len(Script) /\ tool \in DOMAIN Argc /\ argv \in [Takes[tool] -> Name]
        /\ s = Script[step + 1]
    BY <1>1, NextStep
  <1>3. made = {} /\ (changes = 0 => \A n \in Name : node[n] = world.node[n])
    BY <1>2, NoneMade
  <1> HIDE DEF s
  <1>4. s.role \in DOMAIN argv \cap {"format", "input"}
    BY <1>2, StepsOfScripts
  <1>5. Place(s.role) \in Name /\ Was(s.role) = world.node[Place(s.role)]
    BY <1>2, <1>4, NameOfFile DEF Was
  <1>6. file = node[Place(s.role)]
    BY <1>2 DEF Is
  <1>7. Passes(s) <=> Was(s.role) # "none"
    BY <1>2 DEF Passes
  <1>8. UNCHANGED <<commandLine, changes, touched>>
    BY DEF OpenForReading
  <1> HIDE DEF file
  <1>9. CASE file # "none" /\ Opened(s.role, file) /\ Proceed /\ UNCHANGED <<node, made, trouble>>
    <2>1. file \in {"none", Was(s.role)} \cup Directories
      BY <1>3, <1>5, <1>6 DEF Inv, NodesKnown
    <2>2. file \in Node \cup Name \cup {"stdout"}
      BY <1>2, <1>5, <1>6, <1>9 DEF Typed
    <2>3. changes = 0 => Passes(s)
      BY <1>3, <1>5, <1>6, <1>7, <1>9
    <2>4. s.role \notin {"output", "bad"}
      BY <1>4
    <2>5. Opening(s, file)
      BY <1>2, <1>4, <1>8, <1>9, <2>1, <2>2, <2>3, <2>4 DEF Opening
    <2> QED  BY <2>5, OpenInv
  <1>10. CASE file = "none" /\ NotOpened /\ UNCHANGED trouble
    <2>1. changes = 0 => ~Passes(s)
      BY <1>3, <1>5, <1>6, <1>7, <1>10
    <2>2. trouble' \in BOOLEAN
      BY <1>2, <1>10 DEF Typed
    <2>3. Refusing
      BY <1>2, <1>8, <1>10, <2>1, <2>2 DEF Refusing, NotOpened
    <2> QED  BY <2>3, RefuseInv
  <1>11. CASE NotOpened /\ trouble' = TRUE
    <2>1. Refusing
      BY <1>2, <1>8, <1>11 DEF Refusing, NotOpened
    <2> QED  BY <2>1, RefuseInv
  <1>12. \/ file # "none" /\ Opened(s.role, file) /\ Proceed /\ UNCHANGED <<node, made, trouble>>
         \/ file = "none" /\ NotOpened /\ UNCHANGED trouble
         \/ NotOpened /\ trouble' = TRUE
    BY <1>2 DEF OpenForReading, file
  <1> QED  BY <1>9, <1>10, <1>11, <1>12

\* open() to write keeps the invariant.
LEMMA WriteInv == Inv /\ OpenForWriting => Inv'
  <1> SUFFICES ASSUME Inv, OpenForWriting  PROVE Inv'
    OBVIOUS
  <1> DEFINE s == Script[step + 1]
             name == Place(s.role)
             stdout == s.role = "output" /\ ToStdout
             there == ~stdout /\ RegularFile(node[name])
             new == ~stdout /\ node[name] = "none" /\ name \notin Unreachable
  <1>1. Now("write")
    BY DEF OpenForWriting
  <1>2. /\ s.do = "write" /\ status = "starting" /\ step < Len(Script) /\ ThisRole = s.role /\ Typed
        /\ step + 1 \in 1 .. Len(Script) /\ tool \in DOMAIN Argc /\ argv \in [Takes[tool] -> Name]
        /\ s = Script[step + 1]
    BY <1>1, NextStep
  <1>3. \/ stdout /\ Opened(s.role, "stdout") /\ Proceed /\ UNCHANGED <<node, made, trouble>>
        \/ there /\ Opened(s.role, node[name]) /\ Proceed /\ UNCHANGED <<node, made, trouble>>
        \/ /\ new /\ Opened(s.role, name) /\ Proceed /\ UNCHANGED trouble
           /\ node' = [node EXCEPT ![name] = name] /\ made' = made \cup {name}
        \/ ~stdout /\ NotOpened /\ trouble' = (there \/ new)
    BY <1>2 DEF OpenForWriting, Is
  <1>4. UNCHANGED <<commandLine, changes, touched>>
    BY DEF OpenForWriting
  <1> HIDE DEF s
  <1>5. s.role \in DOMAIN argv \cap {"output", "bad"} /\ s.role \notin {"format", "input"}
    BY <1>2, StepsOfScripts
  <1>6. ~stdout => name \in Name
    BY <1>2, <1>5, NameOfFile
  <1>7. Passes(s) <=> CanWrite(s.role)
    BY <1>2 DEF Passes
  <1>8. node \in [Name -> Node \cup Name \cup {"none"}]
    BY <1>2 DEF Typed
  <1> HIDE DEF name, there, new
  <1>9. CanWrite(s.role) <=> \/ stdout
                             \/ RegularFile(world.node[name])
                             \/ world.node[name] = "none" /\ name \notin Unreachable
    BY DEF CanWrite, Was, name
  <1> HIDE DEF stdout
  <1>10. changes = 0 /\ ~stdout => IF name \in made THEN world.node[name] = "none" /\ name \notin Unreachable /\ node[name] = name
                                   ELSE node[name] = world.node[name]
    BY <1>6 DEF Inv, MadeNew
  <1>11. changes = 0 => (stdout \/ there \/ new <=> CanWrite(s.role))
    <2>1. ~stdout /\ name \in made => changes # 0 \/ there
      BY <1>2, <1>6, <1>10, WorldType DEF there
    <2> QED  BY <1>9, <1>10, <2>1 DEF there, new
  <1>12. ASSUME NEW file, Opened(s.role, file), Proceed, UNCHANGED trouble, stdout \/ there \/ new,
                UNCHANGED <<node, made>> \/ Creates(name), file \in Node \cup Name \cup {"stdout"},
                file \in {"stdout"} \cup {f \in {world.node[name], name} : ~stdout /\ RegularFile(f)}
         PROVE  Inv'
    <2>1. UNCHANGED <<node, made>> \/ (s.do = "write" /\ Creates(Place(s.role)))
      BY <1>2, <1>12 DEF name
    <2>2. file \in {"stdout"} \cup {f \in {Was(s.role), Place(s.role)} :
                                      ~(s.role = "output" /\ ToStdout) /\ RegularFile(f)}
      BY <1>12 DEF name, stdout, Was
    <2>3. changes = 0 => Passes(s)
      BY <1>7, <1>11, <1>12
    <2>4. Opening(s, file)
      BY <1>2, <1>4, <1>5, <1>12, <2>1, <2>2, <2>3 DEF Opening
    <2> QED  BY <2>4, OpenInv
  <1>13. CASE stdout /\ Opened(s.role, "stdout") /\ Proceed /\ UNCHANGED <<node, made, trouble>>
    BY <1>12, <1>13
  <1>14. CASE there /\ Opened(s.role, node[name]) /\ Proceed /\ UNCHANGED <<node, made, trouble>>
    <2>1. name \in Name /\ RegularFile(node[name]) /\ ~stdout
      BY <1>6, <1>14 DEF there
    <2>2. node[name] \in {world.node[name], name}
      BY <2>1 DEF Inv, NodesKnown, RegularFile
    <2>3. node[name] \in Node \cup Name
      BY <1>8, <2>1 DEF RegularFile
    <2> QED  BY <1>12, <1>14, <2>1, <2>2, <2>3
  <1>15. CASE /\ new /\ Opened(s.role, name) /\ Proceed /\ UNCHANGED trouble
              /\ node' = [node EXCEPT ![name] = name] /\ made' = made \cup {name}
    <2>1. ~stdout /\ name \in Name /\ Creates(name)
      BY <1>6, <1>15 DEF new, Creates
    <2>2. RegularFile(name)
      BY <1>2, <2>1, WorldType
    <2> QED  BY <1>12, <1>15, <2>1, <2>2
  <1>16. CASE ~stdout /\ NotOpened /\ trouble' = (there \/ new)
    <2>1. changes = 0 /\ ~trouble' => ~Passes(s)
      BY <1>7, <1>11, <1>16
    <2>2. trouble' \in BOOLEAN
      BY <1>16 DEF there, new, stdout, RegularFile
    <2>3. Refusing
      BY <1>2, <1>4, <1>16, <2>1, <2>2 DEF Refusing, NotOpened
    <2> QED  BY <2>3, RefuseInv
  <1> QED  BY <1>3, <1>13, <1>14, <1>15, <1>16


\* The tool works: at most files are closed.
Working ==
    /\ UNCHANGED <<commandLine, node, changes, step, made, touched, trouble>>
    /\ status = "working" /\ status' \in {"working", "finished"}
    /\ files' \in [Role -> Node \cup Name \cup {"none", "stdout"}]
    /\ \A role \in Role : files'[role] \in {"none", files[role]}

\* A tool that works keeps the invariant.
LEMMA WorkingInv ==
    ASSUME Inv, Working
    PROVE  Inv'
  <1>1. /\ node' = node /\ changes' = changes /\ made' = made /\ touched' = touched
        /\ step' = step /\ trouble' = trouble /\ status = "working" /\ status' \in {"working", "finished"}
        /\ \A role \in Role : files'[role] \in {"none", files[role]}
    BY DEF Working
  <1>2. /\ tool' = tool /\ argc' = argc /\ argv' = argv /\ constants' = constants /\ world' = world
        /\ Script' = Script /\ ToStdout' = ToStdout /\ Apart' = Apart /\ Passing' = Passing
    BY CommandLineStays DEF Working
  <1>3. Typed /\ DOMAIN argv \subseteq Role
    BY WorldType DEF Inv
  <1>4. Typed'
    <2>1. files' \in [Role -> Node \cup Name \cup {"none", "stdout"}]
      BY DEF Working
    <2>2. status' \in {"starting", "refused", "working", "finished"}
      BY <1>1
    <2>3. status' \in {"starting", "refused"} <=> step' < Len(Script')
      BY <1>1, <1>2, <1>3 DEF Typed
    <2>4. trouble' \in BOOLEAN /\ (trouble' => status' = "refused")
      BY <1>1, <1>3 DEF Typed
    <2> QED  BY <1>1, <1>2, <1>3, <2>1, <2>2, <2>3, <2>4 DEF Typed
  <1>5. NodesKnown' /\ MadeNew'
    BY <1>1, <1>2 DEF Inv, NodesKnown, MadeNew
  <1>6. MadeToWrite'
    BY <1>1, <1>2 DEF Inv, MadeToWrite, NameOf, Place, Was
  <1>7. OpenedInTime'
    <2>1. \A role : IsOpened(role)' <=> IsOpened(role)
      BY <1>1, <1>2 DEF IsOpened, Opens
    <2> QED  BY <1>1, <2>1 DEF Inv, OpenedInTime
  <1>8. FilesKnown'
    <2>1. \A role \in DOMAIN argv : files'[role] \in {"none", files[role]}
      BY <1>1, <1>3
    <2> QED  BY <1>1, <1>2, <2>1 DEF Inv, FilesKnown, NameOf, Place, Was, RegularFile
  <1>9. NamesCompared'
    BY <1>1, <1>2 DEF Inv, NamesCompared
  <1>10. LookedAt'
    BY <1>1, <1>2 DEF Inv, LookedAt
  <1>11. PassedSoFar'
    BY <1>1, <1>2 DEF Inv, PassedSoFar
  <1> QED  BY <1>4, <1>5, <1>6, <1>7, <1>8, <1>9, <1>10, <1>11 DEF Inv

\* Closing a file is a step of a tool that works.
LEMMA CloseInv ==
    ASSUME Inv, NEW role \in Role, NEW earlier, CloseFile(role, earlier)
    PROVE  Inv'
  <1>1. files \in [Role -> Node \cup Name \cup {"none", "stdout"}]
    BY DEF Inv, Typed
  <1>2. files' = [files EXCEPT ![role] = "none"]
    BY DEF CloseFile
  <1>3. files' \in [Role -> Node \cup Name \cup {"none", "stdout"}]
    BY <1>1, <1>2
  <1>4. \A r \in Role : files'[r] \in {"none", files[r]}
    BY <1>1, <1>2
  <1>5. Working
    BY <1>3, <1>4 DEF Working, CloseFile
  <1> QED  BY <1>5, WorkingInv

\* The end of main() keeps the invariant.
LEMMA FinishInv == Inv /\ Finish => Inv'
  <1> SUFFICES ASSUME Inv, Finish  PROVE Inv'
    OBVIOUS
  <1>1. Working
    BY DEF Inv, Typed, Finish, Working
  <1> QED  BY <1>1, WorkingInv

\* Another program keeps the invariant.
LEMMA ChangeInv == Inv /\ Change => Inv'
  <1> SUFFICES ASSUME Inv, Change  PROVE Inv'
    OBVIOUS
  <1>1. /\ changes' = changes + 1 /\ status = "starting" /\ files' = files /\ made' = made
        /\ step' = step /\ trouble' = trouble /\ status' = "starting"
    BY DEF Change
  <1>2. /\ tool' = tool /\ argc' = argc /\ argv' = argv /\ constants' = constants /\ world' = world
        /\ Script' = Script /\ ToStdout' = ToStdout /\ Apart' = Apart /\ Passing' = Passing
    BY CommandLineStays DEF Change
  <1>3. Typed /\ DOMAIN argv \subseteq Role /\ Directories \subseteq Node /\ step \in Nat
    BY WorldType DEF Inv
  <1>4. PICK changed \in {world.place[argv[role]] : role \in DOMAIN argv} \ Unreachable, what \in Directories \cup {"none"} :
          /\ node' = [node EXCEPT ![changed] = what]
          /\ touched' = [r \in Role |-> IF r \in DOMAIN argv /\ world.place[argv[r]] = changed /\ files[r] = "none"
                                      THEN step ELSE touched[r]]
    BY DEF Change
  <1>5. node \in [Name -> Node \cup Name \cup {"none"}] /\ touched \in [Role -> 0 .. Len(Script)]
        /\ changes \in Nat /\ step \in 0 .. Len(Script)
    BY <1>3 DEF Typed
  <1>6. \A n \in Name : node'[n] = IF n = changed THEN what ELSE node[n]
    BY <1>4, <1>5
  <1>7. changes' \in Nat /\ changes' # 0
    BY <1>1, <1>5
  <1>8. Typed'
    <2>1. what \in Node \cup Name \cup {"none"}
      BY <1>3
    <2>2. node' \in [Name -> Node \cup Name \cup {"none"}]
      BY <1>4, <1>5, <2>1
    <2>3. touched' \in [Role -> 0 .. Len(Script)]
      BY <1>4, <1>5
    <2> QED  BY <1>1, <1>2, <1>3, <1>7, <2>2, <2>3 DEF Typed
  <1>9. NodesKnown'
    BY <1>1, <1>2, <1>6 DEF Inv, NodesKnown
  <1>10. MadeNew' /\ PassedSoFar'
    BY <1>7 DEF MadeNew, PassedSoFar
  <1>11. MadeToWrite'
    BY <1>1, <1>2 DEF Inv, MadeToWrite, NameOf, Place, Was
  <1>12. OpenedInTime'
    <2>1. \A role : IsOpened(role)' <=> IsOpened(role)
      BY <1>1, <1>2 DEF IsOpened, Opens
    <2> QED  BY <1>1, <2>1 DEF Inv, OpenedInTime
  <1>13. FilesKnown'
    BY <1>1, <1>2 DEF Inv, FilesKnown, NameOf, Place, Was, RegularFile
  <1>14. NamesCompared'
    BY <1>1, <1>2 DEF Inv, NamesCompared
  <1>15. LookedAt'
    <2> SUFFICES ASSUME NEW role \in {"format", "input"} \cap DOMAIN argv
                 PROVE  /\ touched'[role] <= step
                        /\ files[role] = "none" =>
                             \A i \in touched'[role] + 1 .. step :
                               Script[i] = Regular(role) => RegularFile(node'[Place(role)])
      BY <1>1, <1>2 DEF LookedAt, RegularFile, Place, NameOf
    <2>1. role \in Role /\ Place(role) = world.place[argv[role]] /\ Place(role) \in Name
      BY <1>3, NameOfFile
    <2>2. CASE Place(role) = changed /\ files[role] = "none"
      <3>1. touched'[role] = step
        BY <1>4, <2>1, <2>2
      <3>2. step <= step /\ step + 1 .. step = {}
        BY <1>3
      <3> QED  BY <3>1, <3>2
    <2>3. CASE ~(Place(role) = changed /\ files[role] = "none")
      <3>1. touched'[role] = touched[role]
        BY <1>4, <2>1, <2>3
      <3>2. files[role] = "none" => node'[Place(role)] = node[Place(role)]
        BY <1>6, <2>1, <2>3
      <3> QED  BY <1>1, <3>1, <3>2 DEF Inv, LookedAt
    <2> QED  BY <2>2, <2>3
  <1> QED  BY <1>8, <1>9, <1>10, <1>11, <1>12, <1>13, <1>14, <1>15 DEF Inv

\* Every step keeps the invariant.
LEMMA NextInv == Inv /\ [Next]_vars => Inv'
  <1> SUFFICES ASSUME Inv, [Next]_vars  PROVE Inv'
    OBVIOUS
  <1>1. CASE CheckArguments \/ ParseConstants \/ CheckRegular \/ CheckAbsentOrRegular \/ CompareNames
    BY <1>1, ChecksInv
  <1>2. CASE OpenForReading
    BY <1>2, ReadInv
  <1>3. CASE OpenForWriting
    BY <1>3, WriteInv
  <1>4. CASE CloseInput \/ CloseOutput \/ CloseBad
    <2>1. {"input", "output", "bad"} \subseteq Role
      BY DEF Role
    <2> QED  BY <1>4, <2>1, CloseInv DEF CloseInput, CloseOutput, CloseBad
  <1>5. CASE Finish
    BY <1>5, FinishInv
  <1>6. CASE Change
    BY <1>6, ChangeInv
  <1>7. CASE UNCHANGED vars
    <2>1. /\ node' = node /\ changes' = changes /\ files' = files /\ made' = made /\ touched' = touched
          /\ step' = step /\ trouble' = trouble /\ status' = status
      BY <1>7 DEF vars
    <2>2. UNCHANGED commandLine
      BY <1>7 DEF vars, commandLine
    <2>3. /\ tool' = tool /\ argc' = argc /\ argv' = argv /\ constants' = constants /\ world' = world
          /\ Script' = Script /\ ToStdout' = ToStdout /\ Apart' = Apart /\ Passing' = Passing
      BY <2>2, CommandLineStays
    <2>4. Typed'
      BY <2>1, <2>3 DEF Inv, Typed
    <2>5. NodesKnown' /\ MadeNew'
      BY <2>1, <2>3 DEF Inv, NodesKnown, MadeNew
    <2>6. MadeToWrite' /\ OpenedInTime' /\ FilesKnown'
      BY <2>1, <2>3 DEF Inv, MadeToWrite, OpenedInTime, IsOpened, Opens, FilesKnown, NameOf, Place, Was, RegularFile
    <2>7. NamesCompared' /\ LookedAt' /\ PassedSoFar'
      BY <2>1, <2>3 DEF Inv, NamesCompared, LookedAt, RegularFile, Place, NameOf, PassedSoFar
    <2> QED  BY <2>4, <2>5, <2>6, <2>7 DEF Inv
  <1> QED  BY <1>1, <1>2, <1>3, <1>4, <1>5, <1>6, <1>7 DEF Next

\* The invariant always holds.
LEMMA InvAlways == Spec => []Inv
  <1>1. StartInit => Inv
    BY InitInv
  <1>2. Inv /\ [Next]_vars => Inv'
    BY NextInv
  <1> QED  BY <1>1, <1>2, PTL DEF Spec


----------------------------------------------------------------------------
(* What the invariant says of the properties *)

\* What each step asks for, of what was there before.
LEMMA PassesOf ==
    /\ Passes(Arguments) <=> argc \in Argc[tool]
    /\ Passes(Constants) <=> constants = "well formed"
    /\ Passes(Regular("format")) <=> RegularFile(Was("format"))
    /\ Passes(Regular("input")) <=> RegularFile(Was("input"))
    /\ Passes(AbsentOrRegular("output")) <=> CanWrite("output")
    /\ Passes(AbsentOrRegular("bad")) <=> CanWrite("bad")
    /\ Passes(Distinct) <=> Apart
    /\ Passes(Load) <=> Was("format") # "none"
    /\ Passes(OpenToRead("input")) <=> Was("input") # "none"
    /\ Passes(OpenToWrite("output")) <=> CanWrite("output")
    /\ Passes(OpenToWrite("bad")) <=> CanWrite("bad")
  BY StepFields DEF Passes

\* What a tool works for.
Right == IF ToStdout THEN ToStdoutInstead ELSE Acceptable

\* What the command line is asked for, in the words of the steps.
LEMMA RightOf ==
    ASSUME Typed
    PROVE  Right <=>
           /\ argc \in Argc[tool]
           /\ tool = "add_constants" => constants = "well formed"
           /\ tool = "dump_format_file" => Was("format") # "none"
           /\ tool # "dump_format_file" => RegularFile(Was("format")) /\ RegularFile(Was("input"))
           /\ tool \in {"standard_form", "add_constants", "validate_content"} => CanWrite("output")
           /\ tool = "validate_content" => CanWrite("bad")
           /\ tool \in {"add_constants", "validate_content"} => Apart
  <1>1. tool \in {"standard_form", "add_constants", "validate_content", "validate_structure", "dump_format_file"}
    BY DEF Typed, Argc
  <1>2. /\ DOMAIN argv = Takes[tool]
        /\ Takes["standard_form"] = {"format", "input", "output"}
        /\ Takes["add_constants"] = {"format", "input", "output"}
        /\ Takes["validate_content"] = {"format", "input", "output", "bad"}
        /\ Takes["validate_structure"] = {"format", "input"}
        /\ Takes["dump_format_file"] = {"format"}
    BY WorldType DEF Takes
  <1>3. \A role \in DOMAIN argv : ~(role = "output" /\ ToStdout) =>
            /\ NameOf(role) = argv[role] /\ Was(role) = Before(argv[role])
            /\ (RegularFile(Was(role)) \/ (Was(role) = "none" /\ Place(role) \notin Unreachable)) = Writable(argv[role])
    BY NameOfFile DEF Was, Before, Writable
  <1>4. Readable <=> /\ tool = "add_constants" => constants = "well formed"
                     /\ tool = "dump_format_file" => Was("format") # "none"
                     /\ tool # "dump_format_file" => RegularFile(Was("format")) /\ RegularFile(Was("input"))
    <2>1. CASE tool = "dump_format_file"
      <3>1. DOMAIN argv \cap {"format", "input"} = {"format"} /\ Was("format") = Before(argv["format"])
        BY <1>2, <1>3, <2>1
      <3> QED  BY <2>1, <3>1 DEF Readable
    <2>2. CASE tool # "dump_format_file"
      <3>1. /\ DOMAIN argv \cap {"format", "input"} = {"format", "input"}
            /\ Was("format") = Before(argv["format"]) /\ Was("input") = Before(argv["input"])
        BY <1>1, <1>2, <1>3, <2>2
      <3> QED  BY <2>2, <3>1 DEF Readable
    <2> QED  BY <2>1, <2>2
  <1>5. /\ Argc["standard_form"] = {3, 4} /\ UsageArgc["standard_form"] = 4
        /\ Argc["add_constants"] = {4, 5} /\ UsageArgc["add_constants"] = 5
        /\ Argc["validate_content"] = {5} /\ UsageArgc["validate_content"] = 5
        /\ Argc["validate_structure"] = {3} /\ UsageArgc["validate_structure"] = 3
        /\ Argc["dump_format_file"] = {2} /\ UsageArgc["dump_format_file"] = 2
    BY DEF Argc, UsageArgc
  <1>6. CASE ToStdout
    <2>1. tool \in {"standard_form", "add_constants"}
      BY <1>6 DEF ToStdout
    <2>2. argc \in {UsageArgc[tool] - 1, UsageArgc[tool]} <=> argc \in Argc[tool]
      BY <1>5, <2>1
    <2>3. CanWrite("output")
      BY <1>6 DEF CanWrite
    <2>4. NameOf("output") = "-" /\ NameOf("input") = argv["input"]
      BY <1>6 DEF NameOf
    <2>5. tool = "add_constants" => (Apart <=> argv["input"] # "-")
      BY <2>4 DEF Apart
    <2>6. Right <=> /\ argc \in Argc[tool] /\ Readable
                    /\ tool = "add_constants" => argv["input"] # "-"
      BY <1>6, <2>2 DEF Right, ToStdoutInstead
    <2> QED  BY <1>4, <2>1, <2>3, <2>5, <2>6
  <1>7. CASE ~ToStdout
    <2> DEFINE Writes == \A role \in DOMAIN argv \cap {"output", "bad"} : Writable(argv[role])
               Different == \A r, s \in DOMAIN argv \ {"format"} : argv[r] = argv[s] => r = s
    <2>1. argc = UsageArgc[tool] <=> argc \in Argc[tool]
      BY <1>1, <1>5, <1>7 DEF ToStdout
    <2>2. Right <=> /\ argc \in Argc[tool] /\ Readable /\ Writes
                    /\ tool \in {"add_constants", "validate_content"} => Different
      BY <1>7, <2>1 DEF Right, Acceptable
    <2>3. \A role \in DOMAIN argv : NameOf(role) = argv[role] /\ CanWrite(role) = Writable(argv[role])
      BY <1>3, <1>7 DEF CanWrite
    <2>4. CASE tool \in {"validate_structure", "dump_format_file"}
      <3>1. Writes
        BY <1>2, <2>4
      <3> HIDE DEF Writes, Different
      <3> QED  BY <1>4, <2>2, <2>4, <3>1
    <2>5. CASE tool = "standard_form" \/ tool = "add_constants"
      <3>1. DOMAIN argv = {"format", "input", "output"}
        BY <1>2, <2>5
      <3>2. Writes <=> CanWrite("output")
        BY <2>3, <3>1
      <3>3. Different <=> argv["input"] # argv["output"]
        BY <3>1
      <3>4. tool = "add_constants" => (Apart <=> Different)
        BY <2>3, <3>1, <3>3 DEF Apart
      <3> HIDE DEF Writes, Different
      <3> QED  BY <1>4, <2>2, <2>5, <3>2, <3>4
    <2>6. CASE tool = "validate_content"
      <3>1. DOMAIN argv = {"format", "input", "output", "bad"}
        BY <1>2, <2>6
      <3>2. Writes <=> CanWrite("output") /\ CanWrite("bad")
        BY <2>3, <3>1
      <3>3. Different <=> argv["input"] # argv["output"] /\ argv["output"] # argv["bad"] /\ argv["bad"] # argv["input"]
        BY <3>1
      <3>4. Apart <=> Different
        BY <2>3, <2>6, <3>1, <3>3 DEF Apart
      <3> HIDE DEF Writes, Different
      <3> QED  BY <1>4, <2>2, <2>6, <3>2, <3>4
    <2> QED  BY <1>1, <2>4, <2>5, <2>6
  <1> QED  BY <1>6, <1>7

\* The numbers of the steps.
LEMMA StepNumbers ==
    /\ 1 .. 6 = {1, 2, 3, 4, 5, 6}
    /\ 1 .. 7 = {1, 2, 3, 4, 5, 6, 7}
    /\ 1 .. 10 = {1, 2, 3, 4, 5, 6, 7, 8, 9, 10}
    /\ 1 .. 11 = {1, 2, 3, 4, 5, 6, 7, 8, 9, 10, 11}
  OBVIOUS

\* All steps of standard_form can be done exactly when the command line is right.
LEMMA StandardFormPasses ==
    ASSUME Typed, tool = "standard_form"
    PROVE  Right <=> 1 .. Len(Script) \subseteq Passing
  <1>1. 1 .. Len(Script) = {1, 2, 3, 4, 5, 6, 7}
    BY StandardFormSteps, StepNumbers
  <1>2. 1 .. Len(Script) \subseteq Passing <=> \A i \in {1, 2, 3, 4, 5, 6, 7} : Passes(Script[i])
    BY <1>1 DEF Passing
  <1>3. (\A i \in {1, 2, 3, 4, 5, 6, 7} : Passes(Script[i])) <=>
          /\ Passes(Arguments) /\ Passes(Regular("format")) /\ Passes(Regular("input"))
          /\ Passes(AbsentOrRegular("output")) /\ Passes(Load) /\ Passes(OpenToRead("input"))
          /\ Passes(OpenToWrite("output"))
    BY StandardFormSteps
  <1>4. Right <=> /\ argc \in Argc[tool] /\ CanWrite("output")
                       /\ RegularFile(Was("format")) /\ RegularFile(Was("input"))
    BY RightOf
  <1> QED  BY <1>2, <1>3, <1>4, PassesOf DEF RegularFile

\* All steps of add_constants can be done exactly when the command line is right.
LEMMA AddConstantsPasses ==
    ASSUME Typed, tool = "add_constants"
    PROVE  Right <=> 1 .. Len(Script) \subseteq Passing
  <1>1. 1 .. Len(Script) = {1, 2, 3, 4, 5, 6, 7, 8, 9, 10}
    BY AddConstantsSteps, StepNumbers
  <1>2. 1 .. Len(Script) \subseteq Passing <=> \A i \in {1, 2, 3, 4, 5, 6, 7, 8, 9, 10} : Passes(Script[i])
    BY <1>1 DEF Passing
  <1>3. (\A i \in {1, 2, 3, 4, 5, 6, 7, 8, 9, 10} : Passes(Script[i])) <=>
          /\ Passes(Arguments) /\ Passes(Constants) /\ Passes(Regular("format")) /\ Passes(Regular("input"))
          /\ Passes(AbsentOrRegular("output")) /\ Passes(Distinct) /\ Passes(Load) /\ Passes(OpenToRead("input"))
          /\ Passes(OpenToWrite("output"))
    BY AddConstantsSteps
  <1>4. Right <=> /\ argc \in Argc[tool] /\ CanWrite("output") /\ constants = "well formed" /\ Apart
                       /\ RegularFile(Was("format")) /\ RegularFile(Was("input"))
    BY RightOf
  <1> QED  BY <1>2, <1>3, <1>4, PassesOf DEF RegularFile

\* All steps of validate_content can be done exactly when the command line is right.
LEMMA ValidateContentPasses ==
    ASSUME Typed, tool = "validate_content"
    PROVE  Right <=> 1 .. Len(Script) \subseteq Passing
  <1>1. 1 .. Len(Script) = {1, 2, 3, 4, 5, 6, 7, 8, 9, 10, 11}
    BY ValidateContentSteps, StepNumbers
  <1>2. 1 .. Len(Script) \subseteq Passing <=> \A i \in {1, 2, 3, 4, 5, 6, 7, 8, 9, 10, 11} : Passes(Script[i])
    BY <1>1 DEF Passing
  <1>3. (\A i \in {1, 2, 3, 4, 5, 6, 7, 8, 9, 10, 11} : Passes(Script[i])) <=>
          /\ Passes(Arguments) /\ Passes(Regular("format")) /\ Passes(Regular("input"))
          /\ Passes(AbsentOrRegular("output")) /\ Passes(AbsentOrRegular("bad")) /\ Passes(Distinct) /\ Passes(Load)
          /\ Passes(OpenToRead("input")) /\ Passes(OpenToWrite("output")) /\ Passes(OpenToWrite("bad"))
    BY ValidateContentSteps
  <1>4. Right <=> /\ argc \in Argc[tool] /\ CanWrite("output") /\ CanWrite("bad") /\ Apart
                       /\ RegularFile(Was("format")) /\ RegularFile(Was("input"))
    BY RightOf
  <1> QED  BY <1>2, <1>3, <1>4, PassesOf DEF RegularFile

\* All steps of a tool can be done exactly when its command line is right.
LEMMA PassesAll ==
    ASSUME Typed
    PROVE  Right <=> 1 .. Len(Script) \subseteq Passing
  <1>1. CASE tool = "validate_structure"
    <2>1. 1 .. Len(Script) = {1, 2, 3, 4, 5, 6}
      BY <1>1, ValidateStructureSteps, StepNumbers
    <2>2. 1 .. Len(Script) \subseteq Passing <=> \A i \in {1, 2, 3, 4, 5, 6} : Passes(Script[i])
      BY <2>1 DEF Passing
    <2>3. (\A i \in {1, 2, 3, 4, 5, 6} : Passes(Script[i])) <=>
            /\ Passes(Arguments) /\ Passes(Regular("format")) /\ Passes(Regular("input")) /\ Passes(Load)
            /\ Passes(OpenToRead("input"))
      BY <1>1, ValidateStructureSteps
    <2>4. Right <=> /\ argc \in Argc[tool]
                         /\ RegularFile(Was("format")) /\ RegularFile(Was("input"))
      BY <1>1, RightOf
    <2> QED  BY <2>2, <2>3, <2>4, PassesOf DEF RegularFile
  <1>2. CASE tool = "dump_format_file"
    <2>1. 1 .. Len(Script) = {1, 2}
      BY <1>2, DumpFormatFileSteps
    <2>2. 1 .. Len(Script) \subseteq Passing <=> \A i \in {1, 2} : Passes(Script[i])
      BY <2>1 DEF Passing
    <2>3. (\A i \in {1, 2} : Passes(Script[i])) <=> Passes(Arguments) /\ Passes(Load)
      BY <1>2, DumpFormatFileSteps
    <2>4. Right <=> argc \in Argc[tool] /\ Was("format") # "none"
      BY <1>2, RightOf
    <2> QED  BY <2>2, <2>3, <2>4, PassesOf
  <1>3. tool \in {"standard_form", "add_constants", "validate_content", "validate_structure", "dump_format_file"}
    BY DEF Typed, Argc
  <1> QED  BY <1>1, <1>2, <1>3, StandardFormPasses, AddConstantsPasses, ValidateContentPasses


\* As long as nobody changes the directory and the system opens what it can, a tool
\* works only, and refuses only, as the command line is right or wrong: as its usage text has
\* it, or for the two tools that write to standard output, without an output file.
THEOREM StartsIfAcceptable == Spec => []WorksIfAcceptable
  <1>1. Inv => WorksIfAcceptable
    <2> SUFFICES ASSUME Inv, changes = 0, ~trouble
                 PROVE  (status = "working" => Right) /\ (status = "refused" => ~Right)
      BY DEF WorksIfAcceptable, Right
    <2>1. Typed /\ Len(Script) \in Nat /\ step \in 0 .. Len(Script)
          /\ (status \in {"starting", "refused"} <=> step < Len(Script))
      BY WorldType DEF Inv, Typed
    <2>2. 1 .. step \subseteq Passing /\ (status = "refused" => step + 1 \notin Passing)
      BY DEF Inv, PassedSoFar
    <2>3. status = "working" => step = Len(Script)
      BY <2>1
    <2>4. status = "refused" => step + 1 \in 1 .. Len(Script)
      BY <2>1
    <2> QED  BY <2>1, <2>2, <2>3, <2>4, PassesAll
  <1> QED  BY <1>1, InvAlways, PTL

\* A tool that refuses leaves no file behind, except that validate_content leaves its
\* output file when it could not open the bad file.
THEOREM RefusalsAreClean == Spec => []RefusedLeavesNothing
  <1>1. Inv => RefusedLeavesNothing
    <2> SUFFICES ASSUME Inv, status = "refused", made # {}
                 PROVE  /\ tool = "validate_content" /\ made = {Place("output")}
                        /\ files["input"] # "none" /\ files["bad"] = "none"
      BY DEF RefusedLeavesNothing
    <2>1. Typed /\ Len(Script) \in Nat /\ step \in Nat /\ tool \in DOMAIN Argc /\ step < Len(Script)
      BY WorldType DEF Inv, Typed
    <2>2. \A i \in 1 .. step : i \in 1 .. Len(Script) /\ i < Len(Script) /\ i <= step
      BY <2>1
    <2>3. \A n \in made : \E i \in 1 .. step : Script[i].do = "write" /\ n = Place(Script[i].role)
      BY DEF Inv, MadeToWrite
    <2>4. \A i \in 1 .. step : Script[i].do = "write" =>
            /\ tool = "validate_content"
            /\ i = 10 /\ Len(Script) = 11
            /\ Script[9] = OpenToRead("input")
            /\ Script[10] = OpenToWrite("output")
            /\ \A j \in 1 .. 10 : ~(Script[j].do \in {"load", "read", "write"} /\ Script[j].role = "bad")
      BY <2>1, <2>2, WritesComeLast
    <2>5. PICK i \in 1 .. step : Script[i].do = "write"
      BY <2>3
    <2>6. tool = "validate_content" /\ i = 10 /\ Len(Script) = 11 /\ Script[9] = OpenToRead("input")
          /\ Script[10] = OpenToWrite("output")
          /\ \A j \in 1 .. 10 : ~(Script[j].do \in {"load", "read", "write"} /\ Script[j].role = "bad")
      BY <2>4, <2>5
    <2>7. step = 10
      <3>1. 10 <= step
        BY <2>2, <2>5, <2>6
      <3>2. step < 11
        BY <2>1, <2>6
      <3> QED  BY <2>1, <3>1, <3>2
    <2>8. 9 \in 1 .. step
      BY <2>7
    <2>10. \A n \in made : n = Place("output")
      BY <2>3, <2>4, <2>6, StepFields
    <2>11. IsOpened("input")
      BY <2>6, <2>8, StepFields DEF IsOpened, Opens
    <2>12. ~IsOpened("bad")
      BY <2>6, <2>7 DEF IsOpened, Opens
    <2>13. {"input", "bad"} \subseteq Role
      BY DEF Role
    <2>14. files["input"] # "none" /\ files["bad"] = "none"
      BY <2>11, <2>12, <2>13 DEF Inv, OpenedInTime
    <2> QED  BY <2>6, <2>10, <2>14
  <1> QED  BY <1>1, InvAlways, PTL

\* A file that is open to be written is one that was there or is its own name, and
\* the names have been compared.
LEMMA OpenToBeWritten ==
    ASSUME Inv, tool \in {"add_constants", "validate_content"},
           NEW role \in {"output", "bad"}, files[role] \notin {"none", "stdout"}
    PROVE  /\ role \in DOMAIN argv /\ argv[role] \in Name /\ NameOf(role) = argv[role]
           /\ Place(role) = world.place[argv[role]] /\ Place(role) \in Name
           /\ files[role] \in {Was(role), Place(role)} /\ RegularFile(files[role])
           /\ Apart
  <1>1. Typed /\ tool \in DOMAIN Argc /\ argv \in [Takes[tool] -> Name] /\ role \in Role
    BY DEF Inv, Typed, Role
  <1>2. PICK i \in 1 .. step : Opens(Script[i], role)
    BY <1>1 DEF Inv, OpenedInTime, IsOpened
  <1>3. Len(Script) \in Nat /\ step \in 0 .. Len(Script) /\ step \in Nat
    BY <1>1, WorldType DEF Typed
  <1>4. i \in 1 .. Len(Script) /\ \A j \in 1 .. i - 1 : j \in 1 .. step
    BY <1>3
  <1>5. Script[i].do = "write" /\ role \in DOMAIN argv
    <2> DEFINE s == Script[i]
    <2>1. s = Script[i] /\ s.do \in {"load", "read", "write"} /\ s.role = role
      BY <1>2 DEF Opens
    <2> HIDE DEF s
    <2>2. s.do = "write" /\ s.role \in DOMAIN argv
      BY <1>1, <1>4, <2>1, StepsOfScripts
    <2> QED  BY <2>1, <2>2
  <1>6. Apart
    <2>1. PICK j \in 1 .. i - 1 : Script[j].do = "distinct"
      BY <1>4, <1>5, NamesComeFirst
    <2> QED  BY <1>4, <2>1 DEF Inv, NamesCompared
  <1>7. ~(role = "output" /\ ToStdout) /\ RegularFile(files[role])
        /\ files[role] \in {Was(role), Place(role)}
    BY <1>5 DEF Inv, FilesKnown
  <1> QED  BY <1>1, <1>5, <1>6, <1>7, NameOfFile

\* If no file has two names, add_constants and validate_content write to no file they
\* read rows from, and validate_content keeps the good rows and the bad ones apart.
THEOREM WritesElsewhere == Spec => []WritesWhereItDoesNotRead
  <1>1. Inv => WritesWhereItDoesNotRead
    <2> DEFINE open(role) == files[role] \notin {"none", "stdout"}
    <2> SUFFICES ASSUME Inv, tool \in {"add_constants", "validate_content"},
                        \A m, n \in Name : m # n => /\ world.place[m] # world.place[n]
                                                     /\ ~(world.node[m] = world.node[n] /\ RegularFile(world.node[m]))
                 PROVE  /\ \A role \in {"output", "bad"} :
                             open("input") /\ open(role) => files["input"] # files[role]
                        /\ open("output") /\ open("bad") => files["output"] # files["bad"]
      BY DEF WritesWhereItDoesNotRead
    <2>0. ASSUME NEW m \in Name, NEW n \in Name, m # n
          PROVE  /\ world.place[m] # world.place[n]
                 /\ ~(world.node[m] = world.node[n] /\ RegularFile(world.node[m]))
      BY <2>0
    <2>1. Typed /\ tool \in DOMAIN Argc /\ argv \in [Takes[tool] -> Name]
      BY DEF Inv, Typed
    <2>2. "input" \in DOMAIN argv
      BY <2>1 DEF Takes
    <2>3. /\ argv["input"] \in Name /\ NameOf("input") = argv["input"]
          /\ Place("input") = world.place[argv["input"]] /\ Place("input") \in Name
      BY <2>1, <2>2, NameOfFile
    <2>4. open("input") => files["input"] \in {Was("input")} \cup Directories
      BY <2>2 DEF Inv, FilesKnown
    <2>5. \A n \in Name : n \notin Node /\ world.node[n] \in Node \cup {"none"} /\ n # "none"
      BY <2>1, WorldType
    <2>6. "bad" \in DOMAIN argv => tool = "validate_content"
      BY <2>1 DEF Takes
    <2>7. ASSUME NEW role \in {"output", "bad"}, open("input"), open(role)
          PROVE  files["input"] # files[role]
      <3>1. /\ role \in DOMAIN argv /\ argv[role] \in Name /\ NameOf(role) = argv[role]
            /\ Place(role) = world.place[argv[role]] /\ Place(role) \in Name
            /\ files[role] \in {Was(role), Place(role)} /\ RegularFile(files[role])
            /\ Apart
        BY <2>7, OpenToBeWritten
      <3>2. argv[role] # argv["input"]
        BY <2>3, <2>6, <3>1 DEF Apart
      <3>3. Place(role) # Place("input")
        BY <2>0, <2>3, <3>1, <3>2
      <3>4. SUFFICES ASSUME files["input"] = files[role]  PROVE FALSE
        OBVIOUS
      <3>5. files["input"] = Was("input") /\ Was("input") = world.node[Place("input")]
        BY <2>4, <2>7, <3>1, <3>4 DEF RegularFile, Was
      <3>6. files[role] = Was(role) /\ Was(role) = world.node[Place(role)]
        BY <2>3, <2>5, <3>1, <3>4, <3>5 DEF RegularFile, Was
      <3> QED  BY <2>0, <2>3, <3>1, <3>3, <3>4, <3>5, <3>6
    <2>8. ASSUME open("output"), open("bad")
          PROVE  files["output"] # files["bad"]
      <3>1. /\ argv["output"] \in Name /\ NameOf("output") = argv["output"]
            /\ Place("output") = world.place[argv["output"]] /\ Place("output") \in Name
            /\ files["output"] \in {Was("output"), Place("output")} /\ RegularFile(files["output"])
            /\ Apart
        BY <2>8, OpenToBeWritten
      <3>2. /\ "bad" \in DOMAIN argv /\ argv["bad"] \in Name /\ NameOf("bad") = argv["bad"]
            /\ Place("bad") = world.place[argv["bad"]] /\ Place("bad") \in Name
            /\ files["bad"] \in {Was("bad"), Place("bad")} /\ RegularFile(files["bad"])
        BY <2>8, OpenToBeWritten
      <3>3. Place("output") # Place("bad")
        BY <2>0, <2>6, <3>1, <3>2 DEF Apart
      <3>4. Was("output") = world.node[Place("output")] /\ Was("bad") = world.node[Place("bad")]
        BY DEF Was
      <3> QED  BY <2>0, <2>5, <3>1, <3>2, <3>3, <3>4 DEF RegularFile
    <2> QED  BY <2>7, <2>8
  <1> QED  BY <1>1, InvAlways, PTL


\* A tool reads no file twice.
LEMMA ReadsOnce ==
    ASSUME tool \in DOMAIN Argc \ {"dump_format_file"}, NEW i \in 1 .. Len(Script), NEW j \in 1 .. Len(Script),
           NEW s, s = Script[i], s.do \in {"load", "read"}, NEW t, t = Script[j], t.do \in {"load", "read"},
           s.role = t.role
    PROVE  i = j
  <1>1. tool \in {"standard_form", "add_constants", "validate_content", "validate_structure"}
    BY DEF Argc
  <1>2. \A r : r = Arguments \/ r = Constants \/ r = Distinct \/ r = Regular("format") \/ r = Regular("input")
            \/ r = AbsentOrRegular("output") \/ r = AbsentOrRegular("bad") \/ r = OpenToWrite("output")
            \/ r = OpenToWrite("bad") => r.do \notin {"load", "read"}
    BY StepFields
  <1>3. s.do \in {"load", "read"} /\ t.do \in {"load", "read"} /\ s.role = t.role
    OBVIOUS
  <1>4. ~(s = Load /\ t = OpenToRead("input")) /\ ~(s = OpenToRead("input") /\ t = Load)
    BY <1>3, StepFields
  <1>5. CASE tool = "standard_form"
    <2>1. (s = Load /\ i = 5) \/ (s = OpenToRead("input") /\ i = 6)
      BY <1>2, <1>3, <1>5, StandardFormScript
    <2>2. (t = Load /\ j = 5) \/ (t = OpenToRead("input") /\ j = 6)
      BY <1>2, <1>3, <1>5, StandardFormScript
    <2> QED  BY <1>4, <2>1, <2>2
  <1>6. CASE tool = "add_constants"
    <2>1. (s = Load /\ i = 7) \/ (s = OpenToRead("input") /\ i = 9)
      BY <1>2, <1>3, <1>6, AddConstantsScript
    <2>2. (t = Load /\ j = 7) \/ (t = OpenToRead("input") /\ j = 9)
      BY <1>2, <1>3, <1>6, AddConstantsScript
    <2> QED  BY <1>4, <2>1, <2>2
  <1>7. CASE tool = "validate_content"
    <2>1. (s = Load /\ i = 7) \/ (s = OpenToRead("input") /\ i = 9)
      BY <1>2, <1>3, <1>7, ValidateContentScript
    <2>2. (t = Load /\ j = 7) \/ (t = OpenToRead("input") /\ j = 9)
      BY <1>2, <1>3, <1>7, ValidateContentScript
    <2> QED  BY <1>4, <2>1, <2>2
  <1>8. CASE tool = "validate_structure"
    <2>1. (s = Load /\ i = 4) \/ (s = OpenToRead("input") /\ i = 6)
      BY <1>2, <1>3, <1>8, ValidateStructureScript
    <2>2. (t = Load /\ j = 4) \/ (t = OpenToRead("input") /\ j = 6)
      BY <1>2, <1>3, <1>8, ValidateStructureScript
    <2> QED  BY <1>4, <2>1, <2>2
  <1> QED  BY <1>1, <1>5, <1>6, <1>7, <1>8

\* When a directory is opened, the file was looked at before it was last touched.
LEMMA OpenedUnseen ==
    ASSUME Inv, tool # "dump_format_file", step < Len(Script),
           NEW s, s = Script[step + 1], s.do \in {"load", "read"}, status = "starting",
           NEW role, role = s.role, ~RegularFile(node[Place(role)])
    PROVE  /\ \E i \in 1 .. touched[role] : Script[i] = Regular(role)
           /\ role = "input" /\ tool # "standard_form" => Script[touched[role] + 1] = OpenToRead("input")
  <1>1. /\ Typed /\ tool \in DOMAIN Argc \ {"dump_format_file"} /\ argv \in [Takes[tool] -> Name]
        /\ Len(Script) \in Nat /\ step \in Nat
    BY WorldType DEF Inv, Typed
  <1>2. step + 1 \in 1 .. Len(Script) /\ (\A i \in 1 .. step : i \in 1 .. Len(Script) /\ i # step + 1)
        /\ step + 1 - 1 = step
    <2>1. step < Len(Script)
      OBVIOUS
    <2> QED  BY <1>1, <2>1
  <1>3. /\ s.role \in DOMAIN argv \cap {"format", "input"}
        /\ (s.do = "load" /\ s.role = "format") \/ (s.do = "read" /\ s.role = "input" /\ s = OpenToRead("input"))
    BY <1>1, <1>2, StepsOfScripts
  <1>4. ~IsOpened(role)
    <2> SUFFICES ASSUME NEW i \in 1 .. step, Opens(Script[i], role)  PROVE FALSE
      BY DEF IsOpened
    <2> DEFINE t == Script[i]
    <2>1. t = Script[i] /\ t.do \in {"load", "read", "write"} /\ t.role = s.role /\ i \in 1 .. Len(Script) /\ i # step + 1
      BY <1>2 DEF Opens
    <2> HIDE DEF t
    <2>2. t.do \in {"load", "read"}
      BY <1>1, <1>3, <2>1, StepsOfScripts
    <2> QED  BY <1>1, <1>2, <2>1, <2>2, ReadsOnce
  <1>5. files[role] = "none" /\ role \in Role
    BY <1>1, <1>3, <1>4, WorldType DEF Inv, OpenedInTime
  <1>6. \A i \in touched[role] + 1 .. step : Script[i] # Regular(role)
    BY <1>3, <1>5 DEF Inv, LookedAt
  <1> DEFINE k == touched[role]
  <1>7. k \in Nat /\ k <= step
    <2>1. touched \in [Role -> 0 .. Len(Script)]
      BY <1>1 DEF Typed
    <2>2. k \in 0 .. Len(Script)
      BY <1>5, <2>1
    <2>3. k <= step
      BY <1>3 DEF Inv, LookedAt
    <2> HIDE DEF k
    <2> QED  BY <1>1, <2>2, <2>3
  <1>8. /\ \E i \in 1 .. step : Script[i] = Regular(role)
        /\ s.do = "read" /\ tool # "standard_form" => step + 1 > 1 /\ Script[step] = Regular("input")
    BY <1>1, <1>2, LooksComeFirst
  <1> HIDE DEF k
  <1>9. /\ \A i \in 1 .. step : i \in 1 .. k \/ i \in k + 1 .. step
        /\ step + 1 > 1 => step = k \/ step \in k + 1 .. step
    BY <1>1, <1>7
  <1>10. \E i \in 1 .. k : Script[i] = Regular(role)
    BY <1>6, <1>8, <1>9 DEF k
  <1>11. ASSUME role = "input", tool # "standard_form"  PROVE Script[k + 1] = OpenToRead("input")
    <2>1. step = k
      BY <1>3, <1>6, <1>8, <1>9, <1>11 DEF k
    <2> QED  BY <1>3, <1>11, <2>1
  <1> QED  BY <1>10, <1>11 DEF k

\* What a step opens or closes.
LEMMA FilesOfNext ==
    ASSUME Inv, [Next]_vars
    PROVE  \/ files' = files
           \/ OpenForReading /\ files' = [files EXCEPT ![ThisRole] = Is(ThisRole)]
           \/ \E role \in {"output", "bad"} : \E file : files' = [files EXCEPT ![role] = file]
           \/ \E role \in Role : files' = [files EXCEPT ![role] = "none"]
  <1>1. CASE CheckArguments \/ ParseConstants \/ CheckRegular \/ CheckAbsentOrRegular \/ CompareNames
    BY <1>1 DEF CheckArguments, ParseConstants, CheckRegular, CheckAbsentOrRegular, CompareNames, NothingOpened
  <1>2. CASE OpenForReading
    BY <1>2 DEF OpenForReading, Opened, NotOpened
  <1>3. CASE OpenForWriting
    <2> DEFINE s == Script[step + 1]
    <2>1. Now("write")
      BY <1>3 DEF OpenForWriting
    <2>2. /\ s.do = "write" /\ ThisRole = s.role /\ s = Script[step + 1]
          /\ step + 1 \in 1 .. Len(Script) /\ tool \in DOMAIN Argc /\ argv \in [Takes[tool] -> Name]
      BY <2>1, NextStep
    <2> HIDE DEF s
    <2>3. ThisRole \in {"output", "bad"}
      BY <2>2, StepsOfScripts
    <2>4. files' = files \/ \E file : files' = [files EXCEPT ![ThisRole] = file]
      BY <1>3 DEF OpenForWriting, Opened, NotOpened
    <2> QED  BY <2>3, <2>4
  <1>4. CASE CloseInput \/ CloseOutput \/ CloseBad
    BY <1>4 DEF CloseInput, CloseOutput, CloseBad, CloseFile, Role
  <1>5. CASE Finish \/ Change \/ UNCHANGED vars
    BY <1>5 DEF Finish, Change, vars
  <1> QED  BY <1>1, <1>2, <1>3, <1>4, <1>5 DEF Next

\* What a step touches: only another program does, and no file that is open.
LEMMA TouchedOfNext ==
    ASSUME Inv, [Next]_vars, NEW role \in Role, files[role] # "none" \/ ~Change
    PROVE  touched'[role] = touched[role]
  <1>1. CASE Change
    BY <1>1 DEF Change
  <1>2. CASE ~Change
    <2>1. touched' = touched
      BY <1>2 DEF Next, CheckArguments, ParseConstants, CheckRegular, CheckAbsentOrRegular, CompareNames, NothingOpened,
         OpenForReading, OpenForWriting, CloseInput, CloseOutput, CloseBad, CloseFile, Finish, vars
    <2> QED  BY <2>1
  <1> QED  BY <1>1, <1>2

\* The command line stays.
LEMMA ScriptStays == [Next]_vars => Script' = Script /\ tool' = tool /\ argv' = argv
  <1> SUFFICES ASSUME [Next]_vars  PROVE Script' = Script /\ tool' = tool /\ argv' = argv
    OBVIOUS
  <1>1. UNCHANGED commandLine
    BY DEF Next, CheckArguments, ParseConstants, CheckRegular, CheckAbsentOrRegular, CompareNames, NothingOpened,
       OpenForReading, OpenForWriting, CloseInput, CloseOutput, CloseBad, CloseFile, Finish, Change, vars, commandLine
  <1> QED  BY <1>1, CommandLineStays

\* A step reads regular files.
LEMMA ReadsStep ==
    ASSUME Inv, ReadsRegularFiles, [Next]_vars
    PROVE  ReadsRegularFiles'
  <1>1. Script' = Script /\ tool' = tool
    BY ScriptStays
  <1> SUFFICES ASSUME NEW role \in {"format", "input"}, files'[role] \in Directories, tool # "dump_format_file"
               PROVE  /\ \E i \in 1 .. touched'[role] : Script[i] = Regular(role)
                      /\ role = "input" /\ tool # "standard_form" => Script[touched'[role] + 1] = OpenToRead("input")
    BY <1>1 DEF ReadsRegularFiles
  <1>2. role \in Role /\ "none" \notin Directories
    BY StartAssumption DEF Role
  <1>3. files \in [Role -> Node \cup Name \cup {"none", "stdout"}]
    BY DEF Inv, Typed
  <1>4. CASE files'[role] = files[role]
    <2>1. touched'[role] = touched[role]
      BY <1>2, <1>4, TouchedOfNext
    <2> QED  BY <1>4, <2>1 DEF ReadsRegularFiles
  <1>5. CASE files'[role] # files[role]
    <2>1. OpenForReading /\ files' = [files EXCEPT ![ThisRole] = Is(ThisRole)]
      BY <1>2, <1>3, <1>5, FilesOfNext
    <2>2. role = ThisRole /\ files'[role] = Is(role)
      BY <1>2, <1>3, <1>5, <2>1
    <2>3. PICK do \in {"load", "read"} : Now(do)
      BY <2>1 DEF OpenForReading
    <2> DEFINE s == Script[step + 1]
    <2>4. /\ s.do \in {"load", "read"} /\ status = "starting" /\ step < Len(Script) /\ ThisRole = s.role
          /\ s = Script[step + 1] /\ step + 1 \in 1 .. Len(Script) /\ tool \in DOMAIN Argc /\ argv \in [Takes[tool] -> Name]
      BY <2>3, NextStep
    <2> HIDE DEF s
    <2>5. Is(role) = node[Place(role)]
      BY DEF Is, NameOf, Place, Was
    <2>6. ~RegularFile(node[Place(role)])
      BY <2>2, <2>5 DEF RegularFile
    <2>7. touched' = touched
      BY <2>1 DEF OpenForReading
    <2> QED  BY <2>2, <2>4, <2>6, <2>7, OpenedUnseen
  <1> QED  BY <1>4, <1>5

\* What a tool reads is a regular file, unless another program put something else in
\* its place after the tool had looked at it: of the input file of all tools but
\* standard_form, between two system calls.
THEOREM RegularFilesAreRead == Spec => []ReadsRegularFiles
  <1>1. StartInit => ReadsRegularFiles
    <2>1. "none" \notin Directories
      BY StartAssumption
    <2> QED  BY <2>1 DEF StartInit, ReadsRegularFiles, Role
  <1>2. Inv /\ ReadsRegularFiles /\ [Next]_vars => ReadsRegularFiles'
    BY ReadsStep
  <1> QED  BY <1>1, <1>2, InvAlways, PTL DEF Spec

====
