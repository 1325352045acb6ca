----------------------------- MODULE PerlBinding -----------------------------
(***************************************************************************)
(* The Perl binding: objects with two Perl subs around a parser, the hash  *)
(* that leads from the parser back to its object when a callback is due,   *)
(* and a Perl program that does anything in a callback that it can do      *)
(* outside: make and drop parsers, exchange subs, parse, stop, die.        *)
(*                                                                         *)
(* The parser is the one of ParseDelimitedText with the detail taken away: *)
(* its bytes are "t" (text), "s" (a delimiter) and "e" (an end of line).   *)
(* Addresses are used again as soon as they are free.                      *)
(***************************************************************************)
EXTENDS Naturals, Sequences, FiniteSets

CONSTANTS Xs,        \* where a ParseDelimitedTextXS can be
          Handle,    \* where a parser can be; its first bytes are the key of the hash
          Sub,       \* Perl subs
          None,      \* NULL
          Chunks,    \* what parse() is given
          MaxLength, \* a bound on the length of those
          MaxDepth,  \* a bound on the calls that are active
          MaxCalls   \* a bound on what the program does

ASSUME BindingAssumption ==
    /\ MaxLength \in Nat
    /\ None \notin Xs \cup Handle \cup Sub
    /\ \A chunk \in Chunks : chunk \in Seq({"t", "s", "e"}) /\ Len(chunk) \in 1 .. MaxLength

VARIABLES self,      \* xs->self of each object, None if there is no object
          callback,  \* xs->field_callback and xs->record_callback
          contexts,  \* PDT_contexts
          parser,    \* the parsers
          copies,    \* copies of subs made with newSVsv() and not released
          exchanges, \* the assignments of subs that wait for the old one to be released
          refs,      \* does the program have a reference to the object?
          proxies,   \* is there still what an accessor returned, to assign to?
          kept,      \* the parsers whose Text::ParseDelimitedCB the program has kept
          stale,     \* those of them that have been freed since
          stack,     \* the calls that are active
          calls,     \* how many things the program has done
          broken,    \* memory was used after it was freed
          dropped,   \* a parser was freed while it was parsing
          given, reported, \* pieces of text handed to and reported by each object
          upset      \* what may have happened to the text of each object

objects == <<self, callback, contexts, copies, refs, proxies, exchanges>>
history == <<given, reported, upset>>
vars == <<objects, parser, kept, stale, stack, calls, broken, dropped, history>>

Kinds == {"field", "record"}

NewParser == [state |-> "RECORD_NOT_BEGUN", field |-> 0, input |-> <<>>, stop |-> FALSE]

\* A call: parse() or finish(), with the chunk not yet taken over and the callback
\* still due, or a callback.  It is dead when its parser has been freed.  The chunk is
\* a pointer into a Perl scalar, and gone when the scalar has given up its memory.
Frame(in, h, x, chunk) ==
    [in |-> in, h |-> h, x |-> x, chunk |-> chunk, gone |-> FALSE, due |-> {}, dead |-> FALSE]

Top == IF stack = <<>> THEN Frame("program", None, None, <<>>) ELSE stack[Len(stack)]
Below == SubSeq(stack, 1, Len(stack) - 1)
Push(frame) == stack' = Append(stack, frame)

\* The program runs at the outset and in callbacks.
Perl == ~broken /\ Top.in \in Kinds \cup {"program"}

Acts == Perl /\ calls < MaxCalls /\ calls' = calls + 1

Live(x) == self[x] # None

\* The parser's own functions run.
InC(in) == ~broken /\ Top.in = in /\ ~Top.dead

Active(h) == \E i \in 1 .. Len(stack) : stack[i].h = h /\ ~stack[i].dead

\* The pointers to copies of subs that have been released and not replaced.
Released == {<<exchanges[i].x, exchanges[i].k>> : i \in 1 .. Len(exchanges)}

\* A destructor runs, or is about to: the assignment that released the sub was made
\* at this depth.
Exchanging == exchanges # <<>> /\ exchanges[Len(exchanges)].depth = Len(stack)

----------------------------------------------------------------------------
(* Objects *)

\* Mutant: every parser has the same key.
RegisterForAll(h, x) == contexts' = [k \in Handle |-> x]

Register(h, x) == contexts' = [contexts EXCEPT ![h] = x]

New ==
    /\ Acts
    /\ \E x \in Xs, h \in Handle :
          /\ ~Live(x) /\ \A y \in Xs : self[y] # h
          /\ self' = [self EXCEPT ![x] = h]
          /\ callback' = [callback EXCEPT ![x] = [k \in Kinds |-> None]]
          /\ Register(h, x)
          /\ parser' = [parser EXCEPT ![h] = NewParser]
          /\ refs' = [refs EXCEPT ![x] = TRUE]
          /\ given' = [given EXCEPT ![x] = 0]
          /\ reported' = [reported EXCEPT ![x] = 0]
          /\ upset' = [upset EXCEPT ![x] = {}]
    /\ UNCHANGED <<copies, proxies, exchanges, kept, stale, stack, broken, dropped>>

\* Mutant: the key is read when the parser is gone.
UnregisterLate(x) == UNCHANGED contexts

Unregister(x) == contexts' = [contexts EXCEPT ![self[x]] = None]

\* DESTROY.  The destructors of subs released here find the object unregistered and
\* unreachable: they act as what runs after it.
Destroy(x) ==
    /\ Unregister(x)
    /\ copies' = copies - Cardinality({k \in Kinds : callback[x][k] # None})
    /\ self' = [self EXCEPT ![x] = None]
    /\ callback' = [callback EXCEPT ![x] = [k \in Kinds |-> None]]
    /\ stack' = [i \in 1 .. Len(stack) |->
                   IF stack[i].h = self[x] THEN [stack[i] EXCEPT !.dead = TRUE] ELSE stack[i]]
    /\ dropped' = (dropped \/ Active(self[x]))
    /\ kept' = kept \ {self[x]}
    /\ stale' = stale \cup (kept \cap {self[x]})

NotDestroyed == UNCHANGED <<self, callback, contexts, copies, stack, dropped, kept, stale>>

\* Mutant: what field_callback() returns does not hold the object.
NeededByVariable(refd, proxied) == refd

\* LvTARG counts as a reference.
Needed(refd, proxied) == refd \/ proxied

\* A variable goes: the object goes with it unless something else refers to it.
Drop ==
    /\ Acts
    /\ \E x \in Xs :
          /\ Live(x) /\ refs[x]
          /\ refs' = [refs EXCEPT ![x] = FALSE]
          /\ IF Needed(FALSE, proxies[x]) THEN NotDestroyed ELSE Destroy(x)
    /\ UNCHANGED <<parser, proxies, exchanges, broken, history>>

\* field_callback() without an assignment, and the value is kept.  The accessor copies
\* the sub that is set.
KeepProxy ==
    /\ Acts
    /\ \E x \in Xs :
          /\ Live(x) /\ refs[x]
          /\ IF <<x, "field">> \in Released
             THEN broken' = TRUE /\ UNCHANGED proxies
             ELSE ~proxies[x] /\ proxies' = [proxies EXCEPT ![x] = TRUE] /\ UNCHANGED broken
    /\ UNCHANGED <<self, callback, contexts, copies, exchanges, refs, parser, kept, stale, stack, dropped, history>>

\* What an accessor returned goes, though not while something is assigned to it.
DropProxy ==
    /\ Acts
    /\ \E x \in Xs :
          /\ proxies[x] /\ \A i \in 1 .. Len(exchanges) : exchanges[i].x # x
          /\ proxies' = [proxies EXCEPT ![x] = FALSE]
          /\ IF Needed(refs[x], FALSE) \/ ~Live(x) THEN NotDestroyed ELSE Destroy(x)
    /\ UNCHANGED <<parser, refs, exchanges, broken, history>>

Store(x, k, sub) == callback' = [callback EXCEPT ![x][k] = sub] /\ copies' = copies + 1

\* The first sub that is assigned: there is none to release.
SetCallback ==
    /\ Acts
    /\ \E x \in Xs, k \in Kinds, sub \in Sub :
          /\ refs[x] \/ proxies[x]
          /\ IF Live(x) THEN callback[x][k] = None /\ Store(x, k, sub) /\ UNCHANGED broken
             ELSE broken' = TRUE /\ UNCHANGED <<callback, copies>>
    /\ UNCHANGED <<self, contexts, refs, proxies, exchanges, parser, kept, stale, stack, dropped, history>>

\* Mutant: the copy that was there is not released.
NotReleased == UNCHANGED copies

Release == copies' = copies - 1

\* The pointer is still to the copy that is gone when the destructor of the old sub
\* runs, and the value assigned to holds the object.
BeginExchange ==
    /\ Acts
    /\ \E x \in Xs, k \in Kinds :
          /\ refs[x] \/ proxies[x]
          /\ Live(x) /\ callback[x][k] # None
          /\ IF <<x, k>> \in Released
             THEN broken' = TRUE /\ UNCHANGED <<copies, proxies, exchanges>>
             ELSE /\ Release
                  /\ exchanges' = Append(exchanges, [x |-> x, k |-> k, depth |-> Len(stack)])
                  /\ proxies' = [proxies EXCEPT ![x] = TRUE]
                  /\ UNCHANGED broken
    /\ UNCHANGED <<self, callback, contexts, refs, parser, kept, stale, stack, dropped, history>>

EndExchange ==
    /\ ~broken /\ Exchanging
    /\ LET last == exchanges[Len(exchanges)] IN
       IF Live(last.x)
       THEN /\ \E sub \in Sub : Store(last.x, last.k, sub)
            /\ exchanges' = SubSeq(exchanges, 1, Len(exchanges) - 1)
            /\ UNCHANGED broken
       ELSE broken' = TRUE /\ UNCHANGED <<callback, copies, exchanges>>
    /\ UNCHANGED <<self, contexts, refs, proxies, parser, kept, stale, stack, calls, dropped, history>>

\* A scalar that parse() was given is assigned to or undefined before parse() has taken
\* its text over: the memory is given up, or written over.
ChangeScalar ==
    /\ Acts
    /\ \E i \in 1 .. Len(stack) :
          /\ stack[i].chunk # <<>> /\ ~stack[i].gone /\ ~stack[i].dead
          /\ \/ stack' = [stack EXCEPT ![i].gone = TRUE] /\ UNCHANGED upset
             \/ \E chunk \in Chunks :
                   /\ Len(chunk) = Len(stack[i].chunk)
                   /\ stack' = [stack EXCEPT ![i].chunk = chunk]
                   /\ upset' = [upset EXCEPT ![stack[i].x] = {"repeated", "lost"}]
    /\ UNCHANGED <<objects, parser, kept, stale, broken, dropped, given, reported>>

----------------------------------------------------------------------------
(* The parser, and the way back from it *)

Texts(chunk) == Cardinality({i \in 1 .. Len(chunk) : chunk[i] = "t"})

\* Text in chunks that parse() has not taken over yet.
Waiting(x) ==
    Cardinality({q \in (1 .. Len(stack)) \X (1 .. MaxLength) :
                   /\ stack[q[1]].x = x /\ ~stack[q[1]].dead
                   /\ q[2] \in 1 .. Len(stack[q[1]].chunk) /\ stack[q[1]].chunk[q[2]] = "t"})

\* Text of a field that is not being reported.
HeldText(x) ==
    IF \E i \in 1 .. Len(stack) : stack[i].in = "field" /\ stack[i].x = x /\ ~stack[i].dead
    THEN 0 ELSE parser[self[x]].field

\* A parser that is called from one of its own callbacks.
Reenters(x) == IF Active(self[x]) THEN {"repeated", "lost"} ELSE {}

CallParse ==
    /\ Acts /\ Len(stack) < MaxDepth
    /\ \E x \in Xs, chunk \in Chunks :
          /\ Live(x) /\ refs[x]
          /\ LET h == self[x]
                 rest == parser[h].input # <<>> IN
             /\ parser' = [parser EXCEPT ![h].stop = FALSE, ![h].input = IF rest THEN @ ELSE chunk]
             /\ Push(Frame("parse", h, x, IF rest THEN chunk ELSE <<>>))
          /\ given' = [given EXCEPT ![x] = @ + Texts(chunk)]
          /\ upset' = [upset EXCEPT ![x] = @ \cup Reenters(x)]
    /\ UNCHANGED <<objects, kept, stale, broken, dropped, reported>>

CallFinish ==
    /\ Acts /\ Len(stack) < MaxDepth
    /\ \E x \in Xs :
          /\ Live(x) /\ refs[x] /\ ~parser[self[x]].stop
          /\ Push([Frame("finish", self[x], x, <<>>) EXCEPT
                     !.due = IF parser[self[x]].state = "RECORD_NOT_BEGUN" THEN {} ELSE Kinds])
          /\ upset' = [upset EXCEPT ![x] = @ \cup Reenters(x)]
    /\ UNCHANGED <<objects, parser, kept, stale, broken, dropped, given, reported>>

\* Mutant: the field keeps its text.
ResetKeepsText(p) == [p EXCEPT !.state = "FIELD_NOT_BEGUN"]

ResetState(p) == [p EXCEPT !.state = "FIELD_NOT_BEGUN", !.field = 0]

\* What follows a callback.
Reset(k, p) == IF k = "field" THEN ResetState(p) ELSE [ResetState(p) EXCEPT !.state = "RECORD_NOT_BEGUN"]

\* A byte of the chunk, or of what was left of the last one.
ReadByte ==
    /\ InC("parse") /\ Top.due = {}
    /\ LET h == Top.h
           p == parser[h]
           rest == Tail(p.input) IN
       /\ p.input # <<>> /\ ~p.stop
       /\ IF Head(p.input) = "t"
          THEN /\ parser' = [parser EXCEPT ![h].input = rest, ![h].field = @ + 1, ![h].state = "FIELD"]
               /\ UNCHANGED stack
          ELSE /\ parser' = [parser EXCEPT ![h].input = rest]
               /\ stack' = [stack EXCEPT ![Len(stack)].due =
                              IF Head(p.input) = "s" THEN {"field"}
                              ELSE IF p.state = "RECORD_NOT_BEGUN" THEN {} ELSE Kinds]
    /\ UNCHANGED <<objects, kept, stale, calls, broken, dropped, history>>

\* The two shims: the sub is called if there is one.  With no entry in the hash they
\* croak, which RegistryIsLive excludes.
Fire(k) ==
    /\ ~broken /\ ~Top.dead /\ k \in Top.due
    /\ k = "record" => "field" \notin Top.due
    /\ LET h == Top.h
           x == contexts[h]
           fired == [stack EXCEPT ![Len(stack)].due = @ \ {k}] IN
       IF x = None \/ ~Live(x) \/ <<x, k>> \in Released
       THEN broken' = TRUE /\ UNCHANGED <<stack, parser, reported>>
       ELSE /\ IF callback[x][k] = None
               THEN stack' = fired /\ parser' = [parser EXCEPT ![h] = Reset(k, @)]
               ELSE stack' = Append(fired, Frame(k, h, x, <<>>)) /\ UNCHANGED parser
            /\ reported' = [reported EXCEPT ![Top.x] = @ + IF k = "field" THEN parser[h].field ELSE 0]
            /\ UNCHANGED broken
    /\ UNCHANGED <<objects, kept, stale, calls, dropped, given, upset>>

\* The loop ends: the chunk is copied over what was left of the last one, or parse()
\* returns.
LeaveLoop ==
    /\ InC("parse") /\ Top.due = {}
    /\ LET h == Top.h
           p == parser[h] IN
       /\ p.input = <<>> \/ p.stop
       /\ CASE Top.chunk # <<>> /\ Top.gone ->
                 broken' = TRUE /\ UNCHANGED <<parser, stack, upset>>
            [] Top.chunk # <<>> /\ ~Top.gone ->
                 /\ parser' = [parser EXCEPT ![h].input = Top.chunk]
                 /\ stack' = [stack EXCEPT ![Len(stack)].chunk = <<>>]
                 /\ upset' = [upset EXCEPT ![Top.x] = IF p.input = <<>> THEN @ ELSE @ \cup {"lost"}]
                 /\ UNCHANGED broken
            [] Top.chunk = <<>> ->
                 stack' = Below /\ UNCHANGED <<parser, upset, broken>>
    /\ UNCHANGED <<objects, kept, stale, calls, dropped, given, reported>>

LeaveFinish ==
    /\ InC("finish") /\ Top.due = {}
    /\ parser' = [parser EXCEPT ![Top.h] = ResetState(@)]
    /\ stack' = Below
    /\ UNCHANGED <<objects, kept, stale, calls, broken, dropped, history>>

\* The sub returns, to a parser that may be gone.
Return ==
    /\ ~broken /\ Top.in \in Kinds /\ ~Exchanging
    /\ IF Top.dead
       THEN broken' = TRUE /\ UNCHANGED <<parser, stack>>
       ELSE /\ parser' = [parser EXCEPT ![Top.h] = Reset(Top.in, @)]
            /\ stack' = Below
            /\ UNCHANGED broken
    /\ UNCHANGED <<objects, kept, stale, calls, dropped, history>>

\* The sub dies, and the program catches it further out: no function of the parser
\* that is left behind learns of it.  What a destructor dies of goes no further.
Die ==
    /\ ~broken /\ Top.in \in Kinds
    /\ \E n \in {0} \cup {i \in 1 .. Len(stack) - 1 : stack[i].in \in Kinds} :
          /\ \A i \in 1 .. Len(exchanges) : exchanges[i].depth <= n
          /\ stack' = SubSeq(stack, 1, n)
          /\ LET left(x) == {i \in n + 1 .. Len(stack) : stack[i].x = x /\ ~stack[i].dead} IN
             upset' = [x \in Xs |->
                upset[x] \cup (IF \E i \in left(x) : stack[i].in = "field" THEN {"repeated"} ELSE {})
                         \cup (IF \E i \in left(x) : stack[i].chunk # <<>> THEN {"lost"} ELSE {})]
    /\ UNCHANGED <<objects, parser, kept, stale, calls, broken, dropped, given, reported>>

\* reset_state(): the text of a field that is not being reported is gone.
ClearState ==
    /\ Acts
    /\ \E x \in Xs :
          /\ Live(x) /\ refs[x]
          /\ parser' = [parser EXCEPT ![self[x]] = ResetState(@)]
          /\ upset' = [upset EXCEPT ![x] = @ \cup
                         IF HeldText(x) = 0 THEN {} ELSE {"lost"}]
    /\ UNCHANGED <<objects, kept, stale, stack, broken, dropped, given, reported>>

----------------------------------------------------------------------------
(* stop(), from an object, from the parser given to a callback, from one that was kept *)

StopParser(h) == parser' = [parser EXCEPT ![h].stop = TRUE]

Stop ==
    /\ Acts
    /\ \E x \in Xs : Live(x) /\ refs[x] /\ StopParser(self[x])
    /\ UNCHANGED <<objects, kept, stale, stack, broken, dropped, history>>

StopInCallback ==
    /\ Acts /\ Top.in \in Kinds
    /\ IF Top.dead THEN broken' = TRUE /\ UNCHANGED parser ELSE StopParser(Top.h) /\ UNCHANGED broken
    /\ UNCHANGED <<objects, kept, stale, stack, dropped, history>>

KeepCB ==
    /\ Acts /\ Top.in \in Kinds /\ ~Top.dead
    /\ kept' = kept \cup {Top.h}
    /\ UNCHANGED <<objects, parser, stale, stack, broken, dropped, history>>

StopKept ==
    /\ Acts
    /\ \/ \E h \in kept : StopParser(h) /\ UNCHANGED broken
       \/ stale # {} /\ broken' = TRUE /\ UNCHANGED parser
    /\ UNCHANGED <<objects, kept, stale, stack, dropped, history>>

----------------------------------------------------------------------------

Init ==
    /\ self = [x \in Xs |-> None]
    /\ callback = [x \in Xs |-> [k \in Kinds |-> None]]
    /\ contexts = [h \in Handle |-> None]
    /\ parser = [h \in Handle |-> NewParser]
    /\ copies = 0
    /\ refs = [x \in Xs |-> FALSE] /\ proxies = [x \in Xs |-> FALSE]
    /\ kept = {} /\ stale = {} /\ stack = <<>> /\ exchanges = <<>> /\ calls = 0
    /\ broken = FALSE /\ dropped = FALSE
    /\ given = [x \in Xs |-> 0] /\ reported = [x \in Xs |-> 0] /\ upset = [x \in Xs |-> {}]

Program ==
    \/ New \/ Drop \/ KeepProxy \/ DropProxy \/ SetCallback \/ BeginExchange \/ ChangeScalar
    \/ CallParse \/ CallFinish \/ ClearState \/ Stop \/ StopInCallback \/ KeepCB \/ StopKept

Library ==
    \/ EndExchange \/ ReadByte \/ LeaveLoop \/ LeaveFinish \/ Return \/ Die
    \/ \E k \in Kinds : Fire(k)

Next == Program \/ Library

Spec == Init /\ [][Next]_vars
----------------------------------------------------------------------------

\* The hash leads from each parser to its own object and from nowhere else, also
\* when addresses are used again (new(), DESTROY).
RegistryIsLive == \A x \in Xs, h \in Handle : contexts[h] = x <=> self[x] = h

\* A callback is called for the object whose parser is parsing, however the calls
\* of several parsers are nested and whatever was made and dropped in callbacks
\* (field_callback_shim(), record_callback_shim()).
EventsGoHome ==
    \A i \in 1 .. Len(stack) :
       stack[i].in \in Kinds /\ ~stack[i].dead =>
          i > 1 /\ stack[i - 1].x = stack[i].x /\ self[stack[i].x] = stack[i].h

\* Freed memory is used only by a program that drops a parser in a callback of that
\* parser, that keeps the parser it was given in a callback longer than the object,
\* that changes a scalar in a callback before parse() has taken its text over, or that
\* uses an object in the destructor of a sub that is being replaced in an object.
\* Assigning to what an accessor returned is safe, since that holds the object
\* (parse(), set_xs_field_callback(), DESTROY and the methods of ParseDelimitedCB).
SafeIfCareful ==
    broken => \/ dropped \/ stale # {} \/ exchanges # <<>>
              \/ \E i \in 1 .. Len(stack) : stack[i].chunk # <<>> /\ stack[i].gone

\* Each copy of a sub is released once: those that exist are those the objects hold,
\* but for the one that is being replaced, to which the object points until its
\* destructor is done (set_xs_field_callback(), set_xs_record_callback(), DESTROY).
CopiesAreHeld ==
    copies = Cardinality({p \in Xs \X Kinds : callback[p[1]][p[2]] # None} \ Released)

\* The text an object has not reported yet.
Unreported(x) == Texts(parser[self[x]].input) + Waiting(x) + HeldText(x)

\* Text is lost only if parse() was left, by stop() or by a sub that died, while it
\* worked off the rest of an earlier chunk, and reported twice only if a sub died
\* in a field; or else if a parser was called from its own callback, reset_state() was
\* called in the middle of a field, or a scalar was written over before its text was
\* taken over (parse(), fire_field_callback() and the shims).
TextAccountedFor ==
    \A x \in Xs :
       Live(x) => /\ "lost" \notin upset[x] => reported[x] + Unreported(x) >= given[x]
                  /\ "repeated" \notin upset[x] => reported[x] + Unreported(x) <= given[x]
=============================================================================
