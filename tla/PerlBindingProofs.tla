------------------------- MODULE PerlBindingProofs -------------------------
(***************************************************************************)
(* For any number of objects, parsers, subs and calls within calls, the    *)
(* hash leads from each parser to its own object, callbacks are called for *)
(* the object that is parsing, freed memory is used only by a program that *)
(* asks for it, the copies of subs that exist are those the objects hold,  *)
(* and no text is lost or reported twice but in the ways that are named.   *)
(***************************************************************************)
EXTENDS PerlBinding, FiniteSetTheorems, TLAPS

Frames ==
    [in : {"parse", "finish", "field", "record"}, h : Handle, x : Xs, chunk : Chunks \cup {<<>>},
     gone : BOOLEAN, due : SUBSET Kinds, dead : BOOLEAN]

Typed ==
    /\ self \in [Xs -> Handle \cup {None}]
    /\ contexts \in [Handle -> Xs \cup {None}]
    /\ refs \in [Xs -> BOOLEAN]
    /\ proxies \in [Xs -> BOOLEAN]
    /\ stack \in Seq(Frames)

\* A call that is not dead is a call of a parser that is there.
CallsAreLive == \A i \in 1 .. Len(stack) : ~stack[i].dead => self[stack[i].x] = stack[i].h

\* A callback is on top of the call of its parser.
CallbacksAreNested ==
    \A i \in 1 .. Len(stack) :
       stack[i].in \in Kinds /\ ~stack[i].dead => i > 1 /\ stack[i - 1].x = stack[i].x

\* What the program has refers to something.
ReferencesAreLive == \A x \in Xs : refs[x] \/ proxies[x] => Live(x)

DeadIsDropped == \A i \in 1 .. Len(stack) : stack[i].dead => dropped

Inv ==
    /\ Typed
    /\ RegistryIsLive
    /\ CallsAreLive
    /\ CallbacksAreNested
    /\ ReferencesAreLive
    /\ DeadIsDropped
    /\ SafeIfCareful

----------------------------------------------------------------------------

\* The invariant holds before the program does anything.
LEMMA InitInv == Init => Inv
  <1> SUFFICES ASSUME Init PROVE Inv
    OBVIOUS
  <1>1. stack = <<>> /\ Len(stack) = 0
    BY DEF Init
  <1>2. Typed
    BY <1>1 DEF Init, Typed
  <1>3. RegistryIsLive
    BY BindingAssumption DEF Init, RegistryIsLive
  <1> QED
    BY <1>1, <1>2, <1>3 DEF Init, Inv, CallsAreLive, CallbacksAreNested, ReferencesAreLive,
                            DeadIsDropped, SafeIfCareful

\* A function on the numbers up to n is a sequence of that length.
LEMMA FunctionIsSequence ==
    ASSUME NEW S, NEW n \in Nat, NEW f \in [1 .. n -> S]
    PROVE  f \in Seq(S) /\ Len(f) = n
  OBVIOUS

\* The call on top, when there is one.
LEMMA TopOfStack ==
    ASSUME stack \in Seq(Frames), Top.in # "program"
    PROVE  Len(stack) \in Nat \ {0} /\ Top = stack[Len(stack)] /\ Top \in Frames
  <1>1. stack # <<>>
    BY DEF Top, Frame
  <1> QED  BY <1>1 DEF Top

\* Steps that leave the objects alone: what matters is what they do to the stack.
LEMMA StackSteps ==
    ASSUME Inv, UNCHANGED <<self, contexts, refs, proxies>>,
           stack' \in Seq(Frames),
           CallsAreLive', CallbacksAreNested', DeadIsDropped', SafeIfCareful'
    PROVE  Inv'
  <1>1. Typed'
    BY DEF Inv, Typed
  <1>2. RegistryIsLive'
    BY DEF Inv, RegistryIsLive
  <1>3. ReferencesAreLive'
    BY DEF Inv, ReferencesAreLive, Live
  <1> QED  BY <1>1, <1>2, <1>3 DEF Inv

\* Steps that leave the objects and the stack alone.
LEMMA QuietSteps ==
    ASSUME Inv, UNCHANGED <<self, contexts, refs, proxies, stack>>, dropped => dropped', SafeIfCareful'
    PROVE  Inv'
  <1>1. stack' \in Seq(Frames)
    BY DEF Inv, Typed
  <1>2. CallsAreLive'
    BY DEF Inv, CallsAreLive
  <1>3. CallbacksAreNested'
    BY DEF Inv, CallbacksAreNested
  <1>4. DeadIsDropped'
    BY DEF Inv, DeadIsDropped
  <1> QED  BY <1>1, <1>2, <1>3, <1>4, StackSteps

\* A stack cut to its first calls.
LEMMA Cutting ==
    ASSUME Inv, UNCHANGED <<self, contexts, refs, proxies, dropped>>, SafeIfCareful',
           NEW n \in 0 .. Len(stack), stack' = SubSeq(stack, 1, n)
    PROVE  Inv'
  <1>0. stack \in Seq(Frames) /\ Len(stack) \in Nat
    BY DEF Inv, Typed
  <1>1. stack' \in Seq(Frames) /\ Len(stack') = n /\ \A i \in 1 .. n : stack'[i] = stack[i]
    BY <1>0
  <1>2. CallsAreLive'
    BY <1>0, <1>1 DEF Inv, CallsAreLive
  <1>3. CallbacksAreNested'
    BY <1>0, <1>1 DEF Inv, CallbacksAreNested
  <1>4. DeadIsDropped'
    BY <1>0, <1>1 DEF Inv, DeadIsDropped
  <1> QED  BY <1>1, <1>2, <1>3, <1>4, StackSteps

\* A call on top of the stack.
LEMMA Calling ==
    ASSUME Inv, UNCHANGED <<self, contexts, refs, proxies, dropped>>, SafeIfCareful',
           NEW frame \in Frames, stack' = Append(stack, frame),
           ~frame.dead, self[frame.x] = frame.h,
           frame.in \in Kinds => stack # <<>> /\ stack[Len(stack)].x = frame.x
    PROVE  Inv'
  <1>0. stack \in Seq(Frames) /\ Len(stack) \in Nat
    BY DEF Inv, Typed
  <1>1. /\ stack' \in Seq(Frames) /\ Len(stack') = Len(stack) + 1
        /\ stack'[Len(stack) + 1] = frame
        /\ \A i \in 1 .. Len(stack) : stack'[i] = stack[i]
    BY <1>0
  <1>2. CallsAreLive'
    BY <1>0, <1>1 DEF Inv, CallsAreLive
  <1>3. CallbacksAreNested'
    <2> SUFFICES ASSUME NEW i \in 1 .. Len(stack) + 1, stack'[i].in \in Kinds, ~stack'[i].dead
                 PROVE  i > 1 /\ stack'[i - 1].x = stack'[i].x
      BY <1>0, <1>1 DEF CallbacksAreNested
    <2>1. CASE i = Len(stack) + 1
      BY <2>1, <1>0, <1>1
    <2>2. CASE i \in 1 .. Len(stack)
      BY <2>2, <1>0, <1>1 DEF Inv, CallbacksAreNested
    <2> QED  BY <2>1, <2>2, <1>0
  <1>4. DeadIsDropped'
    BY <1>0, <1>1 DEF Inv, DeadIsDropped
  <1> QED  BY <1>1, <1>2, <1>3, <1>4, StackSteps

\* A call of which only the chunk and what is due change.
LEMMA ChangingOne ==
    ASSUME Inv, UNCHANGED <<self, contexts, refs, proxies, dropped>>, SafeIfCareful',
           NEW n \in 1 .. Len(stack), NEW frame \in Frames,
           stack' = [stack EXCEPT ![n] = frame],
           frame.in = stack[n].in, frame.x = stack[n].x, frame.h = stack[n].h, frame.dead = stack[n].dead
    PROVE  Inv'
  <1>0. stack \in Seq(Frames) /\ Len(stack) \in Nat \ {0}
    BY DEF Inv, Typed
  <1>1. stack' \in Seq(Frames) /\ Len(stack') = Len(stack)
    BY <1>0
  <1>2. \A i \in 1 .. Len(stack) : /\ stack'[i].in = stack[i].in /\ stack'[i].x = stack[i].x
                                   /\ stack'[i].h = stack[i].h /\ stack'[i].dead = stack[i].dead
    BY <1>0
  <1>3. CallsAreLive'
    BY <1>0, <1>1, <1>2, ZenonT(60) DEF Inv, CallsAreLive
  <1>4. CallbacksAreNested'
    <2> SUFFICES ASSUME NEW i \in 1 .. Len(stack), stack'[i].in \in Kinds, ~stack'[i].dead
                 PROVE  i > 1 /\ stack'[i - 1].x = stack'[i].x
      BY <1>1 DEF CallbacksAreNested
    <2>1. i > 1 /\ stack[i - 1].x = stack[i].x
      BY <1>2 DEF Inv, CallbacksAreNested
    <2>2. i - 1 \in 1 .. Len(stack)
      BY <2>1, <1>0
    <2> QED  BY <2>1, <2>2, <1>2
  <1>5. DeadIsDropped'
    BY <1>0, <1>1, <1>2 DEF Inv, DeadIsDropped
  <1> QED  BY <1>1, <1>3, <1>4, <1>5, StackSteps

\* The call on top goes on.
LEMMA GoingOn ==
    ASSUME Inv, UNCHANGED <<self, contexts, refs, proxies, dropped>>, SafeIfCareful',
           stack # <<>>, NEW frame \in Frames,
           stack' = [stack EXCEPT ![Len(stack)] = frame],
           frame.in = Top.in, frame.x = Top.x, frame.h = Top.h, frame.dead = Top.dead
    PROVE  Inv'
  <1>1. stack \in Seq(Frames) /\ Len(stack) \in 1 .. Len(stack) /\ Top = stack[Len(stack)]
    BY DEF Inv, Typed, Top
  <1> QED  BY <1>1, ChangingOne

----------------------------------------------------------------------------
(* Objects *)

\* new() keeps the invariant: the address it registers is no key of another object.
LEMMA NewInv == Inv /\ New => Inv'
  <1> SUFFICES ASSUME Inv, New PROVE Inv'
    OBVIOUS
  <1>0. Typed /\ RegistryIsLive /\ UNCHANGED <<proxies, stack, broken, dropped, stale>>
    BY DEF New, Inv
  <1>1. PICK x \in Xs, h \in Handle :
           /\ self[x] = None /\ \A y \in Xs : self[y] # h
           /\ self' = [self EXCEPT ![x] = h]
           /\ contexts' = [contexts EXCEPT ![h] = x]
           /\ refs' = [refs EXCEPT ![x] = TRUE]
    BY DEF New, Live, Register
  <1>2. Typed'
    BY <1>0, <1>1 DEF Typed
  <1>3. h # None
    BY BindingAssumption
  <1>4. RegistryIsLive'
    <2> SUFFICES ASSUME NEW y \in Xs, NEW g \in Handle PROVE contexts'[g] = y <=> self'[y] = g
      BY DEF RegistryIsLive
    <2>1. contexts[g] = y <=> self[y] = g
      BY <1>0 DEF RegistryIsLive
    <2>2. self'[y] = (IF y = x THEN h ELSE self[y]) /\ contexts'[g] = (IF g = h THEN x ELSE contexts[g])
      BY <1>0, <1>1 DEF Typed
    <2>3. g # None
      BY BindingAssumption
    <2> QED  BY <2>1, <2>2, <2>3, <1>1
  <1>5. CallsAreLive'
    <2> SUFFICES ASSUME NEW i \in 1 .. Len(stack), ~stack[i].dead PROVE self'[stack[i].x] = stack[i].h
      BY <1>0 DEF CallsAreLive
    <2>1. self[stack[i].x] = stack[i].h
      BY DEF Inv, CallsAreLive
    <2>2. stack[i] \in Frames
      BY <1>0 DEF Typed
    <2>3. stack[i].x \in Xs /\ stack[i].h # None
      BY <2>2, BindingAssumption DEF Frames
    <2> QED  BY <2>1, <2>3, <1>0, <1>1 DEF Typed
  <1>6. CallbacksAreNested' /\ DeadIsDropped' /\ SafeIfCareful'
    BY <1>0 DEF Inv, CallbacksAreNested, DeadIsDropped, SafeIfCareful, New, Acts, Perl
  <1>7. ReferencesAreLive'
    <2> SUFFICES ASSUME NEW y \in Xs, refs'[y] \/ proxies'[y] PROVE self'[y] # None
      BY DEF ReferencesAreLive, Live
    <2>1. CASE y = x
      BY <2>1, <1>0, <1>1, <1>3 DEF Typed
    <2>2. CASE y # x
      BY <2>2, <1>0, <1>1 DEF Typed, Inv, ReferencesAreLive, Live
    <2> QED  BY <2>1, <2>2
  <1> QED  BY <1>2, <1>4, <1>5, <1>6, <1>7 DEF Inv

\* DESTROY of an object nothing refers to any more.
LEMMA DestroyInv ==
    ASSUME Inv, NEW x \in Xs, Live(x), Destroy(x), UNCHANGED broken, ~broken,
           refs' \in [Xs -> BOOLEAN], proxies' \in [Xs -> BOOLEAN],
           ~refs'[x], ~proxies'[x],
           \A y \in Xs : (refs'[y] => refs[y]) /\ (proxies'[y] => proxies[y])
    PROVE  Inv'
  <1> DEFINE after(i) == IF stack[i].h = self[x] THEN [stack[i] EXCEPT !.dead = TRUE] ELSE stack[i]
  <1>0. /\ Typed /\ RegistryIsLive /\ self[x] \in Handle /\ self[x] # None
        /\ Len(stack) \in Nat
    BY DEF Inv, Typed, Live
  <1>1. /\ self' = [self EXCEPT ![x] = None]
        /\ contexts' = [contexts EXCEPT ![self[x]] = None]
        /\ stack' = [i \in 1 .. Len(stack) |-> after(i)]
        /\ dropped' = (dropped \/ Active(self[x]))
        /\ stale \subseteq stale'
    BY DEF Destroy, Unregister
  <1>2. \A i \in 1 .. Len(stack) :
          /\ after(i) \in Frames
          /\ after(i).in = stack[i].in /\ after(i).x = stack[i].x /\ after(i).h = stack[i].h
          /\ after(i).dead = (stack[i].dead \/ stack[i].h = self[x])
    <2> SUFFICES ASSUME NEW i \in 1 .. Len(stack)
                 PROVE  /\ after(i) \in Frames
                        /\ after(i).in = stack[i].in /\ after(i).x = stack[i].x /\ after(i).h = stack[i].h
                        /\ after(i).dead = (stack[i].dead \/ stack[i].h = self[x])
      OBVIOUS
    <2>1. stack[i] \in Frames
      BY <1>0 DEF Typed
    <2>2. stack[i].dead \in BOOLEAN
      BY <2>1 DEF Frames
    <2>3. CASE stack[i].h # self[x]
      BY <2>1, <2>2, <2>3
    <2>4. CASE stack[i].h = self[x]
      BY <2>1, <2>2, <2>4 DEF Frames
    <2> QED  BY <2>3, <2>4
  <1>3. stack' \in Seq(Frames) /\ Len(stack') = Len(stack)
    <2>1. stack' \in [1 .. Len(stack) -> Frames]
      BY <1>1, <1>2
    <2> QED  BY <2>1, <1>0, FunctionIsSequence
  <1>4. \A i \in 1 .. Len(stack) :
          /\ stack'[i].in = stack[i].in /\ stack'[i].x = stack[i].x /\ stack'[i].h = stack[i].h
          /\ stack'[i].dead = (stack[i].dead \/ stack[i].h = self[x])
    BY <1>1, <1>2
  <1> HIDE DEF after
  <1>5. Typed'
    BY <1>0, <1>1, <1>3 DEF Typed
  <1>6. RegistryIsLive'
    <2> SUFFICES ASSUME NEW y \in Xs, NEW g \in Handle PROVE contexts'[g] = y <=> self'[y] = g
      BY DEF RegistryIsLive
    <2>1. /\ contexts[g] = y <=> self[y] = g
          /\ contexts[g] = x <=> self[x] = g
      BY <1>0 DEF RegistryIsLive
    <2>2. self'[y] = (IF y = x THEN None ELSE self[y])
          /\ contexts'[g] = (IF g = self[x] THEN None ELSE contexts[g])
      BY <1>0, <1>1 DEF Typed
    <2>3. g # None /\ y # None
      BY BindingAssumption
    <2> QED  BY <2>1, <2>2, <2>3
  <1>7. CallsAreLive'
    <2> SUFFICES ASSUME NEW i \in 1 .. Len(stack), ~stack'[i].dead PROVE self'[stack'[i].x] = stack'[i].h
      BY <1>3 DEF CallsAreLive
    <2>1. ~stack[i].dead /\ stack[i].h # self[x] /\ self[stack[i].x] = stack[i].h
      BY <1>4 DEF Inv, CallsAreLive
    <2>2. stack[i].x # x
      BY <2>1
    <2> QED  BY <2>1, <2>2, <1>0, <1>1, <1>4 DEF Typed
  <1>8. CallbacksAreNested'
    <2> SUFFICES ASSUME NEW i \in 1 .. Len(stack), stack'[i].in \in Kinds, ~stack'[i].dead
                 PROVE  i > 1 /\ stack'[i - 1].x = stack'[i].x
      BY <1>3 DEF CallbacksAreNested
    <2>1. i > 1 /\ stack[i - 1].x = stack[i].x
      BY <1>4 DEF Inv, CallbacksAreNested
    <2>2. i - 1 \in 1 .. Len(stack)
      BY <2>1, <1>0
    <2> QED  BY <2>1, <2>2, <1>4
  <1>9. DeadIsDropped'
    <2> SUFFICES ASSUME NEW i \in 1 .. Len(stack), stack'[i].dead PROVE dropped'
      BY <1>3 DEF DeadIsDropped
    <2>1. CASE stack[i].dead
      BY <2>1, <1>1 DEF Inv, DeadIsDropped
    <2>2. CASE ~stack[i].dead
      BY <2>2, <1>1, <1>4 DEF Active
    <2> QED  BY <2>1, <2>2
  <1>10. ReferencesAreLive'
    <2> SUFFICES ASSUME NEW y \in Xs, refs'[y] \/ proxies'[y] PROVE self'[y] # None
      BY DEF ReferencesAreLive, Live
    <2>1. y # x /\ self[y] # None
      BY DEF Inv, ReferencesAreLive, Live
    <2> QED  BY <2>1, <1>0, <1>1 DEF Typed
  <1>11. SafeIfCareful'
    BY DEF SafeIfCareful
  <1> QED  BY <1>5, <1>6, <1>7, <1>8, <1>9, <1>10, <1>11 DEF Inv

\* A variable goes, or what an accessor returned, and the object stays.
LEMMA ReleaseInv ==
    ASSUME Inv, UNCHANGED <<self, contexts, stack, dropped>>, SafeIfCareful',
           refs' \in [Xs -> BOOLEAN], proxies' \in [Xs -> BOOLEAN],
           \A y \in Xs : refs'[y] \/ proxies'[y] => Live(y)
    PROVE  Inv'
  <1>1. Typed'
    BY DEF Inv, Typed
  <1>2. RegistryIsLive' /\ CallsAreLive' /\ CallbacksAreNested' /\ DeadIsDropped'
    BY DEF Inv, RegistryIsLive, CallsAreLive, CallbacksAreNested, DeadIsDropped
  <1>3. ReferencesAreLive'
    BY DEF ReferencesAreLive, Live
  <1> QED  BY <1>1, <1>2, <1>3 DEF Inv

\* A variable that goes keeps the invariant, also when DESTROY runs in a callback.
LEMMA DropInv == Inv /\ Drop => Inv'
  <1> SUFFICES ASSUME Inv, Drop PROVE Inv'
    OBVIOUS
  <1>1. PICK x \in Xs : /\ Live(x) /\ refs' = [refs EXCEPT ![x] = FALSE]
                        /\ IF proxies[x] THEN NotDestroyed ELSE Destroy(x)
    BY DEF Drop, Needed
  <1>2. UNCHANGED <<proxies, broken>> /\ Typed /\ ReferencesAreLive /\ ~broken
    BY DEF Drop, Inv, Acts, Perl
  <1>6. SafeIfCareful'
    BY <1>2 DEF SafeIfCareful
  <1>3. refs' \in [Xs -> BOOLEAN] /\ proxies' \in [Xs -> BOOLEAN] /\ ~refs'[x]
        /\ \A y \in Xs : (refs'[y] => refs[y]) /\ (proxies'[y] => proxies[y])
    BY <1>1, <1>2 DEF Typed
  <1>4. CASE proxies[x]
    BY <1>1, <1>2, <1>3, <1>4, <1>6, ReleaseInv DEF ReferencesAreLive, NotDestroyed
  <1>5. CASE ~proxies[x]
    BY <1>1, <1>2, <1>3, <1>5, DestroyInv
  <1> QED  BY <1>4, <1>5

\* A pointer to a copy that is gone is there only while a sub is being replaced.
LEMMA ReleasedInExchange == ASSUME NEW p \in Released PROVE exchanges # <<>>
  <1>1. CASE exchanges = <<>>
    <2>1. 1 .. Len(exchanges) = {}
      BY <1>1
    <2> QED  BY <2>1 DEF Released
  <1> QED  BY <1>1

\* Keeping and dropping what an accessor returned keeps the invariant, and so does the
\* release of a sub.
LEMMA ProxyInv == Inv /\ (KeepProxy \/ DropProxy \/ BeginExchange) => Inv'
  <1> SUFFICES ASSUME Inv, KeepProxy \/ DropProxy \/ BeginExchange PROVE Inv'
    OBVIOUS
  <1>0. UNCHANGED refs /\ Typed /\ ReferencesAreLive /\ ~broken
    BY DEF KeepProxy, DropProxy, BeginExchange, Inv, Acts, Perl
  <1>1. CASE KeepProxy \/ BeginExchange
    <2>1. PICK x \in Xs : Live(x) /\ (UNCHANGED proxies \/ proxies' = [proxies EXCEPT ![x] = TRUE])
      <3>1. CASE KeepProxy
        BY <3>1 DEF KeepProxy
      <3>2. CASE BeginExchange
        BY <3>2 DEF BeginExchange
      <3> QED  BY <1>1, <3>1, <3>2
    <2>2. UNCHANGED <<self, contexts, stack, dropped>>
      BY <1>1 DEF KeepProxy, BeginExchange
    <2>3. proxies' \in [Xs -> BOOLEAN] /\ refs' \in [Xs -> BOOLEAN]
      BY <2>1, <1>0 DEF Typed
    <2>4. \A y \in Xs : refs'[y] \/ proxies'[y] => Live(y)
      BY <2>1, <1>0 DEF Typed, ReferencesAreLive
    <2>5. SafeIfCareful'
      <3>1. \/ UNCHANGED broken
            \/ UNCHANGED exchanges /\ \E p : p \in Released
        BY <1>1 DEF KeepProxy, BeginExchange
      <3> QED  BY <3>1, <1>0, ReleasedInExchange DEF SafeIfCareful
    <2> QED  BY <2>2, <2>3, <2>4, <2>5, <1>0, ReleaseInv
  <1>2. CASE DropProxy
    <2>1. PICK x \in Xs : /\ proxies[x] /\ proxies' = [proxies EXCEPT ![x] = FALSE]
                          /\ IF refs[x] \/ ~Live(x) THEN NotDestroyed ELSE Destroy(x)
      BY <1>2 DEF DropProxy, Needed
    <2>2. Live(x)
      BY <2>1, <1>0 DEF ReferencesAreLive
    <2>3. refs' \in [Xs -> BOOLEAN] /\ proxies' \in [Xs -> BOOLEAN] /\ ~proxies'[x]
          /\ \A y \in Xs : (refs'[y] => refs[y]) /\ (proxies'[y] => proxies[y])
      BY <2>1, <1>0 DEF Typed
    <2>6. SafeIfCareful' /\ UNCHANGED broken
      BY <1>0, <1>2 DEF SafeIfCareful, DropProxy
    <2>4. CASE refs[x]
      BY <2>1, <2>3, <2>4, <2>6, <1>0, ReleaseInv DEF ReferencesAreLive, NotDestroyed
    <2>5. CASE ~refs[x]
      BY <2>1, <2>2, <2>3, <2>5, <2>6, <1>0, DestroyInv
    <2> QED  BY <2>4, <2>5
  <1> QED  BY <1>1, <1>2

----------------------------------------------------------------------------
(* Calls and callbacks *)

\* What a program does that concerns neither the objects nor the stack.
LEMMA QuietInv ==
    Inv /\ (SetCallback \/ EndExchange \/ ClearState \/ Stop \/ StopInCallback \/ KeepCB \/ StopKept) => Inv'
  <1> SUFFICES ASSUME Inv, SetCallback \/ EndExchange \/ ClearState \/ Stop \/ StopInCallback \/ KeepCB \/ StopKept
               PROVE  Inv'
    OBVIOUS
  <1>1. UNCHANGED <<self, contexts, refs, proxies, stack, dropped, stale>> /\ ~broken
    BY DEF SetCallback, EndExchange, ClearState, Stop, StopInCallback, KeepCB, StopKept, objects, Acts, Perl
  <1>2. SafeIfCareful'
    <2>1. CASE SetCallback
      BY <1>1, <2>1 DEF SetCallback, Inv, SafeIfCareful, ReferencesAreLive
    <2>6. CASE EndExchange
      BY <1>1, <2>6 DEF EndExchange, Exchanging, SafeIfCareful
    <2>2. CASE ClearState \/ Stop
      BY <1>1, <2>2 DEF ClearState, Stop, SafeIfCareful
    <2>3. CASE StopInCallback
      <3>1. Top.dead => dropped
        BY TopOfStack, <2>3 DEF StopInCallback, Inv, Typed, DeadIsDropped, Kinds
      <3>2. dropped' \/ ~broken'
        BY <1>1, <3>1, <2>3 DEF StopInCallback
      <3> QED  BY <3>2 DEF SafeIfCareful
    <2>4. CASE KeepCB
      BY <1>1, <2>4 DEF KeepCB, SafeIfCareful
    <2>5. CASE StopKept
      BY <1>1, <2>5 DEF StopKept, SafeIfCareful
    <2> QED  BY <2>1, <2>2, <2>3, <2>4, <2>5, <2>6
  <1> QED  BY <1>1, <1>2, QuietSteps

\* A scalar that is changed: the call that was given it has its chunk gone, or another.
LEMMA ScalarChanges ==
    ASSUME Inv, ChangeScalar
    PROVE  \E i \in 1 .. Len(stack), frame \in Frames :
             /\ stack' = [stack EXCEPT ![i] = frame]
             /\ frame.in = stack[i].in /\ frame.x = stack[i].x /\ frame.h = stack[i].h
             /\ frame.due = stack[i].due /\ frame.dead = stack[i].dead
             /\ ~stack[i].dead /\ stack[i].chunk # <<>> /\ frame.chunk # <<>>
             /\ \/ frame.chunk = stack[i].chunk /\ UNCHANGED upset
                \/ upset' = [upset EXCEPT ![stack[i].x] = {"repeated", "lost"}]
  <1>1. PICK i \in 1 .. Len(stack) :
          /\ stack[i].chunk # <<>> /\ ~stack[i].dead
          /\ \/ stack' = [stack EXCEPT ![i].gone = TRUE] /\ UNCHANGED upset
             \/ \E chunk \in Chunks :
                   /\ stack' = [stack EXCEPT ![i].chunk = chunk]
                   /\ upset' = [upset EXCEPT ![stack[i].x] = {"repeated", "lost"}]
    BY DEF ChangeScalar
  <1>2. stack \in Seq(Frames) /\ stack[i] \in Frames
    BY DEF Inv, Typed
  <1>4. CASE stack' = [stack EXCEPT ![i].gone = TRUE] /\ UNCHANGED upset
    <2> DEFINE frame == [stack[i] EXCEPT !.gone = TRUE]
    <2>1. /\ frame \in Frames /\ frame.in = stack[i].in /\ frame.x = stack[i].x /\ frame.h = stack[i].h
          /\ frame.due = stack[i].due /\ frame.dead = stack[i].dead /\ frame.chunk = stack[i].chunk
      BY <1>2 DEF Frames
    <2>2. stack' = [stack EXCEPT ![i] = frame]
      BY <1>2, <1>4
    <2> HIDE DEF frame
    <2> QED  BY <1>1, <1>4, <2>1, <2>2
  <1>5. CASE \E chunk \in Chunks :
                /\ stack' = [stack EXCEPT ![i].chunk = chunk]
                /\ upset' = [upset EXCEPT ![stack[i].x] = {"repeated", "lost"}]
    <2>0. PICK chunk \in Chunks : /\ stack' = [stack EXCEPT ![i].chunk = chunk]
                                  /\ upset' = [upset EXCEPT ![stack[i].x] = {"repeated", "lost"}]
      BY <1>5
    <2>1. chunk # <<>>
      <3>1. Len(chunk) # 0
        BY BindingAssumption
      <3> QED  BY <3>1
    <2> DEFINE frame == [stack[i] EXCEPT !.chunk = chunk]
    <2>2. /\ frame \in Frames /\ frame.in = stack[i].in /\ frame.x = stack[i].x /\ frame.h = stack[i].h
          /\ frame.due = stack[i].due /\ frame.dead = stack[i].dead /\ frame.chunk = chunk
      BY <1>2 DEF Frames
    <2>3. stack' = [stack EXCEPT ![i] = frame]
      BY <1>2, <2>0
    <2> HIDE DEF frame
    <2> QED  BY <1>1, <2>0, <2>1, <2>2, <2>3
  <1> QED  BY <1>1, <1>4, <1>5

\* It is still a call of its parser.
LEMMA ChangeScalarInv == Inv /\ ChangeScalar => Inv'
  <1> SUFFICES ASSUME Inv, ChangeScalar PROVE Inv'
    OBVIOUS
  <1>1. UNCHANGED <<self, contexts, refs, proxies, dropped>> /\ SafeIfCareful'
    BY DEF ChangeScalar, objects, Acts, Perl, SafeIfCareful
  <1>2. \E i \in 1 .. Len(stack), frame \in Frames :
          /\ stack' = [stack EXCEPT ![i] = frame]
          /\ frame.in = stack[i].in /\ frame.x = stack[i].x /\ frame.h = stack[i].h
          /\ frame.dead = stack[i].dead
    BY ScalarChanges, ZenonT(60)
  <1> QED  BY <1>1, <1>2, ChangingOne

\* A call of parse() or finish() keeps the invariant.
LEMMA CallInv == Inv /\ (CallParse \/ CallFinish) => Inv'
  <1> SUFFICES ASSUME Inv, CallParse \/ CallFinish PROVE Inv'
    OBVIOUS
  <1>1. UNCHANGED <<self, contexts, refs, proxies, dropped, broken, stale>>
    BY DEF CallParse, CallFinish, objects
  <1>2. SafeIfCareful'
    BY <1>1 DEF SafeIfCareful, CallParse, CallFinish, Acts, Perl
  <1>3. PICK frame : /\ frame \in Frames /\ stack' = Append(stack, frame)
                     /\ ~frame.dead /\ self[frame.x] = frame.h /\ frame.in \notin Kinds
    <2>1. CASE CallParse
      <3>1. PICK x \in Xs, chunk \in Chunks :
               Live(x) /\ stack' = Append(stack, Frame("parse", self[x], x,
                                        IF parser[self[x]].input # <<>> THEN chunk ELSE <<>>))
        BY <2>1 DEF CallParse, Push
      <3>2. self[x] \in Handle
        BY <3>1 DEF Inv, Typed, Live
      <3> DEFINE frame == Frame("parse", self[x], x, IF parser[self[x]].input # <<>> THEN chunk ELSE <<>>)
      <3>3. frame \in Frames /\ frame.in = "parse" /\ ~frame.dead /\ frame.x = x /\ frame.h = self[x]
        BY <3>2 DEF Frame, Frames
      <3> HIDE DEF frame
      <3>4. frame.in \notin Kinds /\ self[frame.x] = frame.h /\ stack' = Append(stack, frame)
        BY <3>1, <3>3 DEF Kinds, frame
      <3> QED  BY <3>3, <3>4
    <2>2. CASE CallFinish
      <3>1. PICK x \in Xs, due \in {{}, Kinds} :
               Live(x) /\ stack' = Append(stack, [Frame("finish", self[x], x, <<>>) EXCEPT !.due = due])
        BY <2>2 DEF CallFinish, Push
      <3>2. self[x] \in Handle
        BY <3>1 DEF Inv, Typed, Live
      <3> DEFINE frame == [Frame("finish", self[x], x, <<>>) EXCEPT !.due = due]
      <3>3. frame \in Frames /\ frame.in = "finish" /\ ~frame.dead /\ frame.x = x /\ frame.h = self[x]
        BY <3>2 DEF Frame, Frames
      <3> HIDE DEF frame
      <3>4. frame.in \notin Kinds /\ self[frame.x] = frame.h /\ stack' = Append(stack, frame)
        BY <3>1, <3>3 DEF Kinds, frame
      <3> QED  BY <3>3, <3>4
    <2> QED  BY <2>1, <2>2
  <1> QED  BY <1>1, <1>2, <1>3, Calling

\* The call on top, between two callbacks.
LEMMA LoopInv == Inv /\ (ReadByte \/ LeaveLoop \/ LeaveFinish) => Inv'
  <1> SUFFICES ASSUME Inv, ReadByte \/ LeaveLoop \/ LeaveFinish PROVE Inv'
    OBVIOUS
  <1>1. UNCHANGED <<self, contexts, refs, proxies, dropped, stale>> /\ ~broken
    BY DEF ReadByte, LeaveLoop, LeaveFinish, InC, objects
  <1>3. Top.in \in {"parse", "finish"}
    BY DEF ReadByte, LeaveLoop, LeaveFinish, InC
  <1>4. Len(stack) \in Nat \ {0} /\ Top = stack[Len(stack)] /\ Top \in Frames /\ stack # <<>>
    BY <1>3, TopOfStack DEF Inv, Typed
  <1>2. SafeIfCareful'
    <2>1. CASE UNCHANGED broken
      BY <1>1, <2>1 DEF SafeIfCareful
    <2>2. CASE LeaveLoop /\ Top.chunk # <<>> /\ Top.gone
      <3>1. UNCHANGED stack
        BY <2>2 DEF LeaveLoop
      <3> QED  BY <1>4, <2>2, <3>1 DEF SafeIfCareful
    <2> QED  BY <2>1, <2>2 DEF ReadByte, LeaveLoop, LeaveFinish
  <1>5. stack' = stack \/ stack' = Below
        \/ \E due \in SUBSET Kinds : stack' = [stack EXCEPT ![Len(stack)] = [Top EXCEPT !.due = due]]
        \/ stack' = [stack EXCEPT ![Len(stack)] = [Top EXCEPT !.chunk = <<>>]]
    <2>1. CASE ReadByte
      <3>1. stack' = stack \/ \E due \in {{"field"}, {}, Kinds} :
                                 stack' = [stack EXCEPT ![Len(stack)].due = due]
        BY <2>1 DEF ReadByte
      <3> QED  BY <3>1, <1>4 DEF Kinds
    <2>2. CASE LeaveLoop
      BY <2>2, <1>4 DEF LeaveLoop
    <2>3. CASE LeaveFinish
      BY <2>3 DEF LeaveFinish
    <2> QED  BY <2>1, <2>2, <2>3
  <1>6. CASE stack' = stack
    BY <1>1, <1>2, <1>6, QuietSteps
  <1>7. CASE stack' = Below
    <2>1. Len(stack) - 1 \in 0 .. Len(stack)
      BY <1>4
    <2> QED  BY <1>1, <1>2, <1>7, <2>1, Cutting DEF Below
  <1>8. CASE \E due \in SUBSET Kinds : stack' = [stack EXCEPT ![Len(stack)] = [Top EXCEPT !.due = due]]
    <2>1. PICK due \in SUBSET Kinds : stack' = [stack EXCEPT ![Len(stack)] = [Top EXCEPT !.due = due]]
      BY <1>8
    <2> DEFINE frame == [Top EXCEPT !.due = due]
    <2>2. frame \in Frames /\ frame.in = Top.in /\ frame.x = Top.x /\ frame.h = Top.h /\ frame.dead = Top.dead
      BY <1>4 DEF Frames
    <2>3. stack' = [stack EXCEPT ![Len(stack)] = frame]
      BY <2>1
    <2> HIDE DEF frame
    <2> QED  BY <1>1, <1>2, <1>4, <2>2, <2>3, GoingOn
  <1>9. CASE stack' = [stack EXCEPT ![Len(stack)] = [Top EXCEPT !.chunk = <<>>]]
    <2> DEFINE frame == [Top EXCEPT !.chunk = <<>>]
    <2>1. frame \in Frames /\ frame.in = Top.in /\ frame.x = Top.x /\ frame.h = Top.h /\ frame.dead = Top.dead
      BY <1>4 DEF Frames
    <2>2. stack' = [stack EXCEPT ![Len(stack)] = frame]
      BY <1>9
    <2> HIDE DEF frame
    <2> QED  BY <1>1, <1>2, <1>4, <2>1, <2>2, GoingOn
  <1> QED  BY <1>5, <1>6, <1>7, <1>8, <1>9

\* The shims find the object the parser belongs to.
LEMMA FireInv == ASSUME NEW k \in Kinds PROVE Inv /\ Fire(k) => Inv'
  <1> SUFFICES ASSUME Inv, Fire(k) PROVE Inv'
    OBVIOUS
  <1> DEFINE frame == [Top EXCEPT !.due = @ \ {k}]
             fired == [stack EXCEPT ![Len(stack)] = frame]
  <1>1. UNCHANGED <<self, contexts, refs, proxies, dropped, stale>> /\ k \in Top.due /\ ~Top.dead
    BY DEF Fire, objects
  <1>2. stack # <<>>
    <2>1. CASE stack = <<>>
      <3>1. Top.due = {}
        BY <2>1 DEF Top, Frame
      <3> QED  BY <1>1, <3>1
    <2> QED  BY <2>1
  <1>3. Len(stack) \in Nat \ {0} /\ Top = stack[Len(stack)] /\ Top \in Frames /\ stack # <<>>
    BY <1>2 DEF Inv, Typed, Top
  <1>4. self[Top.x] = Top.h /\ Top.x \in Xs /\ Top.h \in Handle
    BY <1>1, <1>3 DEF Inv, CallsAreLive, Frames
  <1>5. contexts[Top.h] = Top.x /\ Top.x # None /\ Live(Top.x)
    BY <1>4, BindingAssumption DEF Inv, RegistryIsLive, Live
  <1>6. \/ /\ UNCHANGED broken
           /\ \/ stack' = [stack EXCEPT ![Len(stack)].due = @ \ {k}]
              \/ stack' = Append([stack EXCEPT ![Len(stack)].due = @ \ {k}], Frame(k, Top.h, Top.x, <<>>))
        \/ <<Top.x, k>> \in Released /\ UNCHANGED stack
    BY <1>5 DEF Fire
  <1>7. [stack EXCEPT ![Len(stack)].due = @ \ {k}] = fired
    BY <1>3
  <1>8. frame \in Frames /\ frame.in = Top.in /\ frame.x = Top.x /\ frame.h = Top.h /\ frame.dead = Top.dead
    BY <1>3 DEF Frames
  <1>9. SafeIfCareful'
    <2>1. ~broken /\ UNCHANGED exchanges
      BY DEF Fire, objects
    <2> QED  BY <1>6, <2>1, ReleasedInExchange DEF SafeIfCareful
  <1>12. CASE UNCHANGED stack
    BY <1>1, <1>9, <1>12, QuietSteps
  <1> HIDE DEF frame
  <1>10. CASE stack' = fired
    BY <1>1, <1>3, <1>8, <1>9, <1>10, GoingOn
  <1>11. CASE stack' = Append(fired, Frame(k, Top.h, Top.x, <<>>))
    <2>0. stack \in Seq(Frames)
      BY DEF Inv, Typed
    <2>1. /\ fired \in Seq(Frames) /\ Len(fired) = Len(stack)
          /\ \A i \in 1 .. Len(stack) :
                /\ fired[i].in = stack[i].in /\ fired[i].x = stack[i].x
                /\ fired[i].h = stack[i].h /\ fired[i].dead = stack[i].dead
      BY <2>0, <1>3, <1>8
    <2>2. /\ Frame(k, Top.h, Top.x, <<>>) \in Frames
          /\ Frame(k, Top.h, Top.x, <<>>).in = k
          /\ Frame(k, Top.h, Top.x, <<>>).x = Top.x
          /\ Frame(k, Top.h, Top.x, <<>>).h = Top.h
          /\ ~Frame(k, Top.h, Top.x, <<>>).dead
      BY <1>4 DEF Frame, Frames, Kinds
    <2> HIDE DEF fired
    <2>3. /\ stack' \in Seq(Frames) /\ Len(stack') = Len(stack) + 1
          /\ stack'[Len(stack) + 1] = Frame(k, Top.h, Top.x, <<>>)
          /\ \A i \in 1 .. Len(stack) : stack'[i] = fired[i]
      BY <2>1, <2>2, <1>11, <1>3
    <2>4. \A i \in 1 .. Len(stack) :
             /\ stack'[i].in = stack[i].in /\ stack'[i].x = stack[i].x
             /\ stack'[i].h = stack[i].h /\ stack'[i].dead = stack[i].dead
      BY <2>1, <2>3
    <2>5. CallsAreLive' /\ DeadIsDropped'
      <3> SUFFICES ASSUME NEW i \in 1 .. Len(stack) + 1
                   PROVE  /\ ~stack'[i].dead => self'[stack'[i].x] = stack'[i].h
                          /\ stack'[i].dead => dropped'
        BY <2>3 DEF CallsAreLive, DeadIsDropped
      <3>1. CASE i = Len(stack) + 1
        BY <3>1, <2>2, <2>3, <1>1, <1>4
      <3>2. CASE i \in 1 .. Len(stack)
        BY <3>2, <2>4, <1>1 DEF Inv, CallsAreLive, DeadIsDropped
      <3> QED  BY <3>1, <3>2, <1>3
    <2>6. CallbacksAreNested'
      <3> SUFFICES ASSUME NEW i \in 1 .. Len(stack) + 1, stack'[i].in \in Kinds, ~stack'[i].dead
                   PROVE  i > 1 /\ stack'[i - 1].x = stack'[i].x
        BY <2>3 DEF CallbacksAreNested
      <3>1. CASE i = Len(stack) + 1
        BY <3>1, <2>2, <2>3, <2>4, <1>3
      <3>2. CASE i \in 1 .. Len(stack)
        <4>1. i > 1 /\ stack[i - 1].x = stack[i].x
          BY <3>2, <2>4 DEF Inv, CallbacksAreNested
        <4>2. i - 1 \in 1 .. Len(stack)
          BY <3>2, <4>1, <1>3
        <4> QED  BY <3>2, <4>1, <4>2, <2>4
      <3> QED  BY <3>1, <3>2, <1>3
    <2> QED  BY <2>3, <2>5, <2>6, <1>1, <1>9, StackSteps
  <1> QED  BY <1>6, <1>7, <1>10, <1>11, <1>12

\* The way out of a callback, by a return or by die, keeps the invariant.
LEMMA LeaveCallbackInv == Inv /\ (Return \/ Die) => Inv'
  <1> SUFFICES ASSUME Inv, Return \/ Die PROVE Inv'
    OBVIOUS
  <1>1. UNCHANGED <<self, contexts, refs, proxies, dropped, stale>> /\ ~broken
    BY DEF Return, Die, objects
  <1>2. Len(stack) \in Nat \ {0} /\ Top = stack[Len(stack)]
    BY TopOfStack DEF Return, Die, Inv, Typed, Kinds
  <1>3. CASE Return
    <2>1. CASE Top.dead
      <3>1. dropped
        BY <2>1, <1>2 DEF Inv, DeadIsDropped
      <3>2. SafeIfCareful' /\ UNCHANGED stack
        BY <3>1, <2>1, <1>1, <1>3 DEF Return, SafeIfCareful
      <3> QED  BY <3>2, <1>1, QuietSteps
    <2>2. CASE ~Top.dead
      <3>1. stack' = Below /\ UNCHANGED broken
        BY <2>2, <1>3 DEF Return
      <3>2. SafeIfCareful'
        BY <3>1, <1>1 DEF SafeIfCareful
      <3>3. Len(stack) - 1 \in 0 .. Len(stack)
        BY <1>2
      <3> QED  BY <3>1, <3>2, <3>3, <1>1, Cutting DEF Below
    <2> QED  BY <2>1, <2>2
  <1>4. CASE Die
    <2>1. PICK n \in 0 .. Len(stack) : stack' = SubSeq(stack, 1, n)
      BY <1>2, <1>4 DEF Die
    <2>2. SafeIfCareful'
      BY <1>1, <1>4 DEF Die, SafeIfCareful
    <2> QED  BY <2>1, <2>2, <1>1, Cutting
  <1> QED  BY <1>3, <1>4

\* The registry, the stack of calls and what the program holds agree at any time.
THEOREM InvAlways == Spec => []Inv
  <1>1. Inv /\ [Next]_vars => Inv'
    <2> SUFFICES ASSUME Inv, [Next]_vars PROVE Inv'
      OBVIOUS
    <2>1. CASE UNCHANGED vars
      <3>1. UNCHANGED <<self, contexts, refs, proxies, exchanges, stack, dropped, broken, stale>>
        BY <2>1 DEF vars, objects
      <3>2. SafeIfCareful'
        BY <3>1 DEF Inv, SafeIfCareful
      <3> QED  BY <3>1, <3>2, QuietSteps
    <2>2. CASE Program
      BY <2>2, NewInv, DropInv, ProxyInv, QuietInv, ChangeScalarInv, CallInv DEF Program
    <2>3. CASE Library
      BY <2>3, QuietInv, LoopInv, LeaveCallbackInv, FireInv DEF Library
    <2> QED  BY <2>1, <2>2, <2>3 DEF Next
  <1> QED  BY <1>1, InitInv, PTL DEF Spec

\* However objects come and go and addresses are used again, the hash leads from
\* each parser to its own object and from nowhere else (new(), DESTROY).
THEOREM RegistryAlways == Spec => []RegistryIsLive
  BY InvAlways, PTL DEF Inv

\* However deep the calls are nested, a callback is called for the object whose
\* parser is parsing (field_callback_shim(), record_callback_shim()).
THEOREM EventsAlwaysGoHome == Spec => []EventsGoHome
  <1>1. Inv => EventsGoHome
    BY DEF Inv, EventsGoHome, CallsAreLive, CallbacksAreNested
  <1> QED  BY <1>1, InvAlways, PTL

\* Freed memory is used only by a program that drops a parser while that parses, keeps
\* the parser a callback was given longer than its object, changes a scalar in a
\* callback before parse() has copied its text, or uses an object in the destructor of
\* a sub that is being replaced in an object (parse(), set_xs_field_callback(), DESTROY).
THEOREM CarefulIsSafe == Spec => []SafeIfCareful
  BY InvAlways, PTL DEF Inv

----------------------------------------------------------------------------
(* The copies of the subs *)

Copied(callbacks) == {p \in Xs \X Kinds : callbacks[p[1]][p[2]] # None}

Exchange == [x : Xs, k : Kinds, depth : Nat]

\* What is assigned to holds its object, and a copy is released once.
ExchangesInv ==
    /\ exchanges \in Seq(Exchange)
    /\ \A i \in 1 .. Len(exchanges) :
          /\ proxies[exchanges[i].x]
          /\ callback[exchanges[i].x][exchanges[i].k] # None
          /\ \A j \in 1 .. Len(exchanges) :
                exchanges[i].x = exchanges[j].x /\ exchanges[i].k = exchanges[j].k => i = j

\* What CopiesAreHeld needs: an object that is not there holds no copy.
CopiesInv ==
    /\ callback \in [Xs -> [Kinds -> Sub \cup {None}]]
    /\ \A x \in Xs, k \in Kinds : ~Live(x) => callback[x][k] = None
    /\ ExchangesInv
    /\ IsFiniteSet(Copied(callback))
    /\ copies = Cardinality(Copied(callback) \ Released)

\* The first elements of a sequence.
LEMMA FirstOfSequence ==
    ASSUME NEW S, NEW s \in Seq(S), NEW m \in 0 .. Len(s)
    PROVE  SubSeq(s, 1, m) \in Seq(S) /\ Len(SubSeq(s, 1, m)) = m /\ \A i \in 1 .. m : SubSeq(s, 1, m)[i] = s[i]
  OBVIOUS

\* The objects and callbacks of the assignments.
LEMMA ExchangesAreTyped ==
    ASSUME exchanges \in Seq(Exchange)
    PROVE  /\ Len(exchanges) \in Nat
           /\ \A i \in 1 .. Len(exchanges) : exchanges[i].x \in Xs /\ exchanges[i].k \in Kinds
  <1>1. \A i \in 1 .. Len(exchanges) : exchanges[i] \in Exchange
    OBVIOUS
  <1> QED  BY <1>1 DEF Exchange

\* A pointer has been released if its sub is being replaced.
LEMMA BeingReleased ==
    \A x, k : <<x, k>> \in Released <=> \E i \in 1 .. Len(exchanges) : exchanges[i].x = x /\ exchanges[i].k = k
  BY DEF Released

\* An object that is not there takes nothing with it and brings nothing.
LEMMA NewKeepsCopies == CopiesInv /\ Inv /\ New => CopiesInv'
  <1> SUFFICES ASSUME CopiesInv, Inv, New  PROVE CopiesInv'
    OBVIOUS
  <1>1. PICK x \in Xs, h \in Handle :
          /\ ~Live(x)
          /\ self' = [self EXCEPT ![x] = h]
          /\ callback' = [callback EXCEPT ![x] = [k \in Kinds |-> None]]
          /\ UNCHANGED <<copies, proxies, exchanges>>
    BY DEF New
  <1>2. callback[x] = [k \in Kinds |-> None]
    BY <1>1 DEF CopiesInv
  <1>3. callback' = callback
    BY <1>1, <1>2 DEF CopiesInv
  <1>4. \A y \in Xs : Live(y)' \/ (y # x /\ self'[y] = self[y])
    <2>1. self \in [Xs -> Handle \cup {None}]
      BY DEF Inv, Typed
    <2> QED  BY <1>1, <2>1, BindingAssumption DEF Live
  <1>5. \A y \in Xs : ~Live(y)' => ~Live(y)
    BY <1>4 DEF Live
  <1>6. ExchangesInv' /\ Released' = Released
    BY <1>1, <1>3 DEF CopiesInv, ExchangesInv, Released
  <1> QED  BY <1>1, <1>3, <1>5, <1>6 DEF CopiesInv

\* The subs that an object has: none, one or two.
LEMMA CopiesOfOne ==
    ASSUME NEW f
    PROVE  Cardinality({k \in Kinds : f[k] # None}) =
             (IF f["field"] # None THEN 1 ELSE 0) + (IF f["record"] # None THEN 1 ELSE 0)
  <1> DEFINE K == {k \in Kinds : f[k] # None}
  <1>0. IsFiniteSet({"field"}) /\ Cardinality({"field"}) = 1 /\ Cardinality({"record"}) = 1
    BY FS_Singleton
  <1>1. CASE f["field"] # None /\ f["record"] # None
    <2>1. K = {"field"} \cup {"record"}
      BY <1>1 DEF Kinds
    <2>2. Cardinality({"field"} \cup {"record"}) = 1 + 1
      <3>1. "record" \notin {"field"}
        OBVIOUS
      <3> QED  BY <1>0, <3>1, FS_AddElement
    <2> QED  BY <1>1, <2>1, <2>2
  <1>2. CASE f["field"] # None /\ f["record"] = None
    <2>1. K = {"field"}
      BY <1>2 DEF Kinds
    <2> QED  BY <1>0, <1>2, <2>1
  <1>3. CASE f["field"] = None /\ f["record"] # None
    <2>1. K = {"record"}
      BY <1>3 DEF Kinds
    <2> QED  BY <1>0, <1>3, <2>1
  <1>4. CASE f["field"] = None /\ f["record"] = None
    <2>1. K = {}
      BY <1>4 DEF Kinds
    <2> QED  BY <1>4, <2>1, FS_EmptySet
  <1> QED  BY <1>1, <1>2, <1>3, <1>4

\* An object that goes releases its copies.  Nothing is being assigned to it.
LEMMA DestroyKeepsCopies ==
    ASSUME CopiesInv, Inv, NEW x \in Xs, Destroy(x), UNCHANGED exchanges,
           \A i \in 1 .. Len(exchanges) : exchanges[i].x # x /\ proxies'[exchanges[i].x]
    PROVE  CopiesInv'
  <1> DEFINE C == Copied(callback) \ Released
             D == C \ {<<x, "field">>}
             E == D \ {<<x, "record">>}
  <1>1. /\ callback' = [callback EXCEPT ![x] = [k \in Kinds |-> None]]
        /\ self' = [self EXCEPT ![x] = None]
        /\ copies' = copies - Cardinality({k \in Kinds : callback[x][k] # None})
    BY DEF Destroy
  <1>2. callback \in [Xs -> [Kinds -> Sub \cup {None}]] /\ self \in [Xs -> Handle \cup {None}]
    BY DEF CopiesInv, Inv, Typed
  <1>3. \A y \in Xs : callback'[y] = IF y = x THEN [k \in Kinds |-> None] ELSE callback[y]
    BY <1>1, <1>2
  <1>4. /\ Copied(callback)' \ Released = E
        /\ Copied(callback)' \in SUBSET Copied(callback)
        /\ <<x, "field">> \in C <=> callback[x]["field"] # None
        /\ <<x, "record">> \in D <=> callback[x]["record"] # None
    <2>1. /\ "field" \in Kinds /\ "record" \in Kinds
          /\ \A k \in Kinds : k = "field" \/ k = "record"
      BY DEF Kinds
    <2>2. \A p \in Xs \X Kinds : p = <<p[1], p[2]>> /\ p[1] \in Xs /\ p[2] \in Kinds
      OBVIOUS
    <2>3. \A p \in Xs \X Kinds : p \in Copied(callback)' <=> p[1] # x /\ callback[p[1]][p[2]] # None
      BY <1>3, <2>2 DEF Copied
    <2>4. \A p \in Xs \X Kinds : p[1] = x <=> (p = <<x, "field">> \/ p = <<x, "record">>)
      BY <2>1, <2>2
    <2>5. Copied(callback)' \ Released = E /\ Copied(callback)' \in SUBSET Copied(callback)
      BY <2>3, <2>4 DEF Copied
    <2>6. <<x, "field">> \in Xs \X Kinds /\ <<x, "record">> \in Xs \X Kinds /\ <<x, "field">> # <<x, "record">>
      BY <2>1
    <2>7. \A k : <<x, k>> \notin Released
      BY BeingReleased
    <2> QED  BY <2>5, <2>6, <2>7 DEF Copied
  <1>5. IsFiniteSet(C) /\ copies = Cardinality(C) /\ Cardinality(C) \in Nat /\ IsFiniteSet(Copied(callback)')
    BY <1>4, FS_CardinalityType, FS_Subset DEF CopiesInv
  <1> HIDE DEF C
  <1>6. /\ IsFiniteSet(D)
        /\ Cardinality(D) = IF <<x, "field">> \in C THEN Cardinality(C) - 1 ELSE Cardinality(C)
    BY <1>5, FS_RemoveElement
  <1> HIDE DEF D
  <1>7. /\ IsFiniteSet(E)
        /\ Cardinality(E) = IF <<x, "record">> \in D THEN Cardinality(D) - 1 ELSE Cardinality(D)
    BY <1>6, FS_RemoveElement
  <1> HIDE DEF E
  <1>8. copies' = Cardinality(E)
    <2>1. copies' = copies - ((IF callback[x]["field"] # None THEN 1 ELSE 0) + (IF callback[x]["record"] # None THEN 1 ELSE 0))
      BY <1>1, CopiesOfOne
    <2> QED  BY <1>4, <1>5, <1>6, <1>7, <2>1
  <1>9. callback' \in [Xs -> [Kinds -> Sub \cup {None}]]
    BY <1>1, <1>2
  <1>10. \A y \in Xs, k \in Kinds : ~Live(y)' => callback'[y][k] = None
    BY <1>1, <1>2, <1>3 DEF Live, CopiesInv
  <1>11. Released' = Released
    BY DEF Released
  <1>12. ExchangesInv'
    <2>1. exchanges \in Seq(Exchange) /\ \A i \in 1 .. Len(exchanges) : exchanges[i].x \in Xs
      BY ExchangesAreTyped DEF CopiesInv, ExchangesInv
    <2>2. \A i \in 1 .. Len(exchanges) : callback'[exchanges[i].x] = callback[exchanges[i].x]
      BY <1>3, <2>1
    <2> QED  BY <2>1, <2>2 DEF CopiesInv, ExchangesInv
  <1> QED  BY <1>4, <1>5, <1>8, <1>9, <1>10, <1>11, <1>12 DEF CopiesInv

\* The first sub of its kind is one copy more.
LEMMA SetCallbackKeepsCopies == CopiesInv /\ Inv /\ SetCallback => CopiesInv'
  <1> SUFFICES ASSUME CopiesInv, Inv, SetCallback  PROVE CopiesInv'
    OBVIOUS
  <1>1. PICK x \in Xs, k \in Kinds, sub \in Sub :
          \/ /\ Live(x) /\ callback[x][k] = None
             /\ callback' = [callback EXCEPT ![x][k] = sub] /\ copies' = copies + 1
          \/ callback' = callback /\ copies' = copies
    BY DEF SetCallback, Store
  <1>2. UNCHANGED <<self, proxies, exchanges>>
    BY DEF SetCallback
  <1>3. CASE callback' = callback /\ copies' = copies
    BY <1>2, <1>3 DEF CopiesInv, ExchangesInv, Released, Live
  <1>4. CASE /\ Live(x) /\ callback[x][k] = None
             /\ callback' = [callback EXCEPT ![x][k] = sub] /\ copies' = copies + 1
    <2> DEFINE C == Copied(callback)
               D == C \ Released
    <2>1. callback \in [Xs -> [Kinds -> Sub \cup {None}]] /\ sub # None
      BY BindingAssumption DEF CopiesInv
    <2>2. \A y \in Xs, j \in Kinds : callback'[y][j] = IF y = x /\ j = k THEN sub ELSE callback[y][j]
      BY <1>4, <2>1
    <2>3. Copied(callback)' = C \cup {<<x, k>>} /\ <<x, k>> \notin C
      <3>1. \A p \in Xs \X Kinds : p = <<p[1], p[2]>> /\ p[1] \in Xs /\ p[2] \in Kinds
        OBVIOUS
      <3>2. \A p \in Xs \X Kinds : p \in Copied(callback)' <=> p \in C \/ p = <<x, k>>
        BY <2>1, <2>2, <3>1 DEF Copied
      <3>3. <<x, k>> \in Xs \X Kinds
        OBVIOUS
      <3> QED  BY <1>4, <3>2, <3>3 DEF Copied
    <2>4. <<x, k>> \notin Released /\ Released' = Released
      BY <1>2, <1>4, BeingReleased DEF CopiesInv, ExchangesInv, Released
    <2>5. IsFiniteSet(C) /\ IsFiniteSet(D) /\ copies = Cardinality(D)
      BY FS_Subset DEF CopiesInv
    <2>6. Copied(callback)' \ Released' = D \cup {<<x, k>>} /\ <<x, k>> \notin D
      BY <2>3, <2>4
    <2> HIDE DEF C, D
    <2>7. IsFiniteSet(C \cup {<<x, k>>}) /\ Cardinality(D \cup {<<x, k>>}) = Cardinality(D) + 1
      BY <2>5, <2>6, FS_AddElement
    <2>8. callback' \in [Xs -> [Kinds -> Sub \cup {None}]]
      BY <1>4, <2>1
    <2>9. \A y \in Xs, j \in Kinds : ~Live(y)' => callback'[y][j] = None
      BY <1>2, <1>4, <2>2 DEF Live, CopiesInv
    <2>10. ExchangesInv'
      <3>1. \A i \in 1 .. Len(exchanges) : exchanges[i].x \in Xs /\ exchanges[i].k \in Kinds
        BY ExchangesAreTyped DEF CopiesInv, ExchangesInv
      <3>2. \A i \in 1 .. Len(exchanges) : callback'[exchanges[i].x][exchanges[i].k] # None
        BY <2>1, <2>2, <3>1 DEF CopiesInv, ExchangesInv
      <3> QED  BY <1>2, <3>2 DEF CopiesInv, ExchangesInv
    <2> QED  BY <1>4, <2>3, <2>5, <2>6, <2>7, <2>8, <2>9, <2>10 DEF CopiesInv
  <1> QED  BY <1>1, <1>3, <1>4

\* The release of a sub is one copy less, and the object still points to it.
LEMMA BeginKeepsCopies == CopiesInv /\ Inv /\ BeginExchange => CopiesInv'
  <1> SUFFICES ASSUME CopiesInv, Inv, BeginExchange  PROVE CopiesInv'
    OBVIOUS
  <1>1. PICK x \in Xs, k \in Kinds :
          /\ callback[x][k] # None
          /\ \/ UNCHANGED <<copies, proxies, exchanges>>
             \/ /\ <<x, k>> \notin Released
                /\ copies' = copies - 1
                /\ exchanges' = Append(exchanges, [x |-> x, k |-> k, depth |-> Len(stack)])
                /\ proxies' = [proxies EXCEPT ![x] = TRUE]
    BY DEF BeginExchange, Release
  <1>2. UNCHANGED <<self, callback>>
    BY DEF BeginExchange
  <1>3. CASE UNCHANGED <<copies, proxies, exchanges>>
    BY <1>2, <1>3 DEF CopiesInv, ExchangesInv, Released, Live
  <1>4. CASE /\ <<x, k>> \notin Released
             /\ copies' = copies - 1
             /\ exchanges' = Append(exchanges, [x |-> x, k |-> k, depth |-> Len(stack)])
             /\ proxies' = [proxies EXCEPT ![x] = TRUE]
    <2> DEFINE n == Len(exchanges)
               new == [x |-> x, k |-> k, depth |-> Len(stack)]
               D == Copied(callback) \ Released
    <2>1. exchanges \in Seq(Exchange) /\ n \in Nat /\ proxies \in [Xs -> BOOLEAN] /\ Len(stack) \in Nat
      BY DEF CopiesInv, ExchangesInv, Inv, Typed
    <2>2. new \in Exchange /\ new.x = x /\ new.k = k
      BY <2>1 DEF Exchange
    <2> HIDE DEF new
    <2>3. /\ exchanges' \in Seq(Exchange) /\ Len(exchanges') = n + 1 /\ exchanges'[n + 1] = new
          /\ \A i \in 1 .. n : exchanges'[i] = exchanges[i]
      BY <1>4, <2>1, <2>2 DEF new
    <2>4. \A i \in 1 .. n : exchanges[i].x # x \/ exchanges[i].k # k
      BY <1>4, BeingReleased
    <2>5. \A i \in 1 .. n : exchanges[i].x \in Xs
      BY <2>1, ExchangesAreTyped
    <2>6. ExchangesInv'
      <3> SUFFICES ASSUME NEW i \in 1 .. n + 1
                   PROVE  /\ proxies'[exchanges'[i].x]
                          /\ callback[exchanges'[i].x][exchanges'[i].k] # None
                          /\ \A j \in 1 .. n + 1 :
                                exchanges'[i].x = exchanges'[j].x /\ exchanges'[i].k = exchanges'[j].k => i = j
        BY <1>2, <2>3 DEF ExchangesInv
      <3>1. CASE i = n + 1
        <4>1. \A j \in 1 .. n + 1 : j = n + 1 \/ j \in 1 .. n
          BY <2>1
        <4> QED  BY <1>1, <1>4, <2>1, <2>2, <2>3, <2>4, <3>1, <4>1
      <3>2. CASE i \in 1 .. n
        <4>1. \A j \in 1 .. n + 1 : j = n + 1 \/ j \in 1 .. n
          BY <2>1
        <4>2. /\ proxies[exchanges[i].x]
              /\ callback[exchanges[i].x][exchanges[i].k] # None
              /\ \A j \in 1 .. n :
                    exchanges[i].x = exchanges[j].x /\ exchanges[i].k = exchanges[j].k => i = j
          BY <3>2 DEF CopiesInv, ExchangesInv
        <4>3. proxies'[exchanges[i].x]
          BY <1>4, <2>1, <2>5, <3>2, <4>2
        <4> QED  BY <2>2, <2>3, <2>4, <3>2, <4>1, <4>2, <4>3
      <3> QED  BY <2>1, <3>1, <3>2
    <2>7. Released' = Released \cup {<<x, k>>}
      <3>1. Released' = {<<exchanges'[i].x, exchanges'[i].k>> : i \in 1 .. n + 1}
        BY <2>3 DEF Released
      <3>2. 1 .. n + 1 = (1 .. n) \cup {n + 1}
        BY <2>1
      <3>3. \A p : p \in Released' <=> p = <<x, k>> \/ \E i \in 1 .. n : p = <<exchanges[i].x, exchanges[i].k>>
        BY <2>2, <2>3, <3>1, <3>2
      <3> QED  BY <3>3 DEF Released
    <2>8. <<x, k>> \in D
      <3>1. <<x, k>> \in Xs \X Kinds
        OBVIOUS
      <3> QED  BY <1>1, <1>4, <3>1 DEF Copied
    <2>9. IsFiniteSet(D) /\ copies = Cardinality(D) /\ Copied(callback)' = Copied(callback)
      BY <1>2, FS_Subset DEF CopiesInv, Copied
    <2>10. Copied(callback)' \ Released' = D \ {<<x, k>>}
      BY <2>7, <2>9
    <2> HIDE DEF D
    <2>11. Cardinality(D \ {<<x, k>>}) = Cardinality(D) - 1
      BY <2>8, <2>9, FS_RemoveElement
    <2> QED  BY <1>2, <1>4, <2>6, <2>9, <2>10, <2>11 DEF CopiesInv, Live
  <1> QED  BY <1>1, <1>3, <1>4

\* The copy of the new sub takes the place of the one that is gone.
LEMMA EndKeepsCopies == CopiesInv /\ Inv /\ EndExchange => CopiesInv'
  <1> SUFFICES ASSUME CopiesInv, Inv, EndExchange  PROVE CopiesInv'
    OBVIOUS
  <1> DEFINE n == Len(exchanges)
             x == exchanges[n].x
             k == exchanges[n].k
             D == Copied(callback) \ Released
  <1>0. /\ exchanges \in Seq(Exchange) /\ n \in Nat \ {0}
        /\ \A i \in 1 .. n : exchanges[i].x \in Xs /\ exchanges[i].k \in Kinds
    <2>1. exchanges # <<>> /\ exchanges \in Seq(Exchange)
      BY DEF EndExchange, Exchanging, CopiesInv, ExchangesInv
    <2> QED  BY <2>1, ExchangesAreTyped
  <1>1. UNCHANGED <<self, proxies>> /\ x \in Xs /\ k \in Kinds /\ callback[x][k] # None
    BY <1>0 DEF EndExchange, CopiesInv, ExchangesInv
  <1>2. Live(x)
    BY <1>1 DEF CopiesInv
  <1>3. PICK sub \in Sub :
          /\ callback' = [callback EXCEPT ![x][k] = sub] /\ copies' = copies + 1
          /\ exchanges' = SubSeq(exchanges, 1, n - 1)
    BY <1>2 DEF EndExchange, Store
  <1>4. /\ exchanges' \in Seq(Exchange) /\ Len(exchanges') = n - 1
        /\ \A i \in 1 .. n - 1 : exchanges'[i] = exchanges[i] /\ i \in 1 .. n /\ i # n
    <2>1. n - 1 \in 0 .. Len(exchanges) /\ \A i \in 1 .. n - 1 : i \in 1 .. n /\ i # n
      BY <1>0
    <2> QED  BY <1>0, <1>3, <2>1, FirstOfSequence
  <1>5. callback \in [Xs -> [Kinds -> Sub \cup {None}]] /\ sub # None
    BY BindingAssumption DEF CopiesInv
  <1> HIDE DEF x, k
  <1>6. \A y \in Xs, j \in Kinds : callback'[y][j] = IF y = x /\ j = k THEN sub ELSE callback[y][j]
    BY <1>1, <1>3, <1>5
  <1>7. ExchangesInv'
    <2> SUFFICES ASSUME NEW i \in 1 .. n - 1
                 PROVE  /\ proxies'[exchanges'[i].x]
                        /\ callback'[exchanges'[i].x][exchanges'[i].k] # None
                        /\ \A j \in 1 .. n - 1 :
                              exchanges'[i].x = exchanges'[j].x /\ exchanges'[i].k = exchanges'[j].k => i = j
      BY <1>4 DEF ExchangesInv
    <2>1. i \in 1 .. n /\ exchanges[i].x \in Xs /\ exchanges[i].k \in Kinds /\ exchanges'[i] = exchanges[i]
      BY <1>0, <1>4
    <2>2. /\ proxies[exchanges[i].x] /\ callback[exchanges[i].x][exchanges[i].k] # None
          /\ \A j \in 1 .. n : exchanges[i].x = exchanges[j].x /\ exchanges[i].k = exchanges[j].k => i = j
      BY <2>1 DEF CopiesInv, ExchangesInv
    <2>3. callback'[exchanges[i].x][exchanges[i].k] # None
      BY <1>5, <1>6, <2>1, <2>2
    <2>4. \A j \in 1 .. n - 1 : exchanges'[j] = exchanges[j] /\ j \in 1 .. n
      BY <1>4
    <2> QED  BY <1>1, <2>1, <2>2, <2>3, <2>4
  <1>8. Released' = Released \ {<<x, k>>} /\ <<x, k>> \in Released
    <2>1. Released' = {<<exchanges[i].x, exchanges[i].k>> : i \in 1 .. n - 1}
      BY <1>4 DEF Released
    <2>2. \A i \in 1 .. n : i = n \/ i \in 1 .. n - 1
      BY <1>0
    <2>3. \A i \in 1 .. n - 1 : exchanges[i].x # x \/ exchanges[i].k # k
      <3>1. n \in 1 .. n
        BY <1>0
      <3> QED  BY <1>4, <3>1 DEF CopiesInv, ExchangesInv, x, k
    <2>4. n \in 1 .. n
      BY <1>0
    <2>5. <<x, k>> \in Released
      BY <2>4, BeingReleased DEF x, k
    <2>6. \A i \in 1 .. n - 1 : <<exchanges[i].x, exchanges[i].k>> # <<x, k>>
      BY <2>3
    <2>7. \A p \in Released : p \in Released' \/ p = <<x, k>>
      <3> SUFFICES ASSUME NEW p \in Released  PROVE p \in Released' \/ p = <<x, k>>
        OBVIOUS
      <3>1. PICK i \in 1 .. n : p = <<exchanges[i].x, exchanges[i].k>>
        BY DEF Released
      <3> QED  BY <2>1, <2>2, <3>1 DEF x, k
    <2>8. \A p \in Released' : p \in Released /\ p # <<x, k>>
      <3> SUFFICES ASSUME NEW p \in Released'  PROVE p \in Released /\ p # <<x, k>>
        OBVIOUS
      <3>1. PICK i \in 1 .. n - 1 : p = <<exchanges[i].x, exchanges[i].k>>
        BY <2>1
      <3> QED  BY <1>4, <2>6, <3>1 DEF Released
    <2> QED  BY <2>5, <2>7, <2>8
  <1>9. Copied(callback)' = Copied(callback) /\ <<x, k>> \in Copied(callback)
    <2>1. \A p \in Xs \X Kinds : p = <<p[1], p[2]>> /\ p[1] \in Xs /\ p[2] \in Kinds
      OBVIOUS
    <2>2. \A p \in Xs \X Kinds : p \in Copied(callback)' <=> p \in Copied(callback)
      BY <1>1, <1>5, <1>6, <2>1 DEF Copied
    <2>3. <<x, k>> \in Xs \X Kinds
      BY <1>1
    <2> QED  BY <1>1, <2>2, <2>3 DEF Copied
  <1>10. Copied(callback)' \ Released' = D \cup {<<x, k>>} /\ <<x, k>> \notin D
    BY <1>8, <1>9
  <1>11. IsFiniteSet(D) /\ copies = Cardinality(D) /\ IsFiniteSet(Copied(callback))
    BY FS_Subset DEF CopiesInv
  <1> HIDE DEF D
  <1>12. Cardinality(D \cup {<<x, k>>}) = Cardinality(D) + 1
    BY <1>10, <1>11, FS_AddElement
  <1>13. callback' \in [Xs -> [Kinds -> Sub \cup {None}]]
    BY <1>1, <1>3, <1>5
  <1>14. \A y \in Xs, j \in Kinds : ~Live(y)' => callback'[y][j] = None
    BY <1>1, <1>2, <1>6 DEF Live, CopiesInv
  <1>15. copies' = Cardinality(Copied(callback)' \ Released')
    BY <1>3, <1>10, <1>11, <1>12
  <1> QED  BY <1>7, <1>9, <1>11, <1>13, <1>14, <1>15 DEF CopiesInv

\* The copies that exist are those the objects hold and have not released, in whatever
\* order objects are made, given subs, given others, and dropped, also by destructors
\* of those subs (set_xs_field_callback(), DESTROY).
THEOREM CopiesAlwaysHeld == Spec => []CopiesAreHeld
  <1>1. Init => CopiesInv
    <2> SUFFICES ASSUME Init  PROVE CopiesInv
      OBVIOUS
    <2>1. callback = [x \in Xs |-> [k \in Kinds |-> None]] /\ copies = 0
      BY DEF Init
    <2>2. \A x \in Xs, k \in Kinds : callback[x][k] = None
      BY <2>1
    <2>3. \A p \in Xs \X Kinds : p[1] \in Xs /\ p[2] \in Kinds
      OBVIOUS
    <2>4. Copied(callback) = {} /\ Copied(callback) \ Released = {}
      BY <2>2, <2>3 DEF Copied
    <2>5. ExchangesInv
      BY DEF Init, ExchangesInv
    <2> QED  BY <2>1, <2>2, <2>4, <2>5, FS_EmptySet DEF CopiesInv
  <1>2. ASSUME CopiesInv, UNCHANGED <<self, callback, copies, exchanges>>,
               \A i \in 1 .. Len(exchanges) : proxies'[exchanges[i].x]
        PROVE  CopiesInv'
    BY <1>2 DEF CopiesInv, ExchangesInv, Live, Released
  <1>3. CopiesInv /\ Inv /\ [Next]_vars => CopiesInv'
    <2> SUFFICES ASSUME CopiesInv, Inv, [Next]_vars  PROVE CopiesInv'
      OBVIOUS
    <2>0. /\ proxies \in [Xs -> BOOLEAN]
          /\ \A i \in 1 .. Len(exchanges) : proxies[exchanges[i].x] /\ exchanges[i].x \in Xs
      BY ExchangesAreTyped DEF CopiesInv, ExchangesInv, Inv, Typed
    <2>1. CASE New
      BY <2>1, NewKeepsCopies
    <2>2. CASE SetCallback \/ BeginExchange \/ EndExchange
      BY <2>2, SetCallbackKeepsCopies, BeginKeepsCopies, EndKeepsCopies
    <2>3. CASE Drop
      <3>1. PICK x \in Xs : IF proxies[x] THEN NotDestroyed ELSE Destroy(x)
        BY <2>3 DEF Drop, Needed
      <3>2. UNCHANGED <<exchanges, proxies>>
        BY <2>3 DEF Drop
      <3>3. CASE proxies[x]
        BY <1>2, <2>0, <3>1, <3>2, <3>3 DEF NotDestroyed
      <3>4. CASE ~proxies[x]
        <4>1. \A i \in 1 .. Len(exchanges) : exchanges[i].x # x /\ proxies'[exchanges[i].x]
          BY <2>0, <3>2, <3>4
        <4> QED  BY <3>1, <3>2, <3>4, <4>1, DestroyKeepsCopies
      <3> QED  BY <3>3, <3>4
    <2>4. CASE DropProxy
      <3>1. PICK x \in Xs : /\ \A i \in 1 .. Len(exchanges) : exchanges[i].x # x
                            /\ proxies' = [proxies EXCEPT ![x] = FALSE]
                            /\ NotDestroyed \/ Destroy(x)
        BY <2>4 DEF DropProxy
      <3>2. UNCHANGED exchanges
        BY <2>4 DEF DropProxy
      <3>3. \A i \in 1 .. Len(exchanges) : exchanges[i].x # x /\ proxies'[exchanges[i].x]
        BY <2>0, <3>1
      <3>4. CASE NotDestroyed
        BY <1>2, <3>2, <3>3, <3>4 DEF NotDestroyed
      <3>5. CASE Destroy(x)
        BY <3>2, <3>3, <3>5, DestroyKeepsCopies
      <3> QED  BY <3>1, <3>4, <3>5
    <2>5. CASE KeepProxy
      <3>1. \/ UNCHANGED proxies
            \/ \E x \in Xs : proxies' = [proxies EXCEPT ![x] = TRUE]
        BY <2>5 DEF KeepProxy
      <3>2. \A i \in 1 .. Len(exchanges) : proxies'[exchanges[i].x]
        BY <2>0, <3>1
      <3> QED  BY <1>2, <2>5, <3>2 DEF KeepProxy
    <2>6. CASE CallParse \/ CallFinish \/ ChangeScalar \/ ClearState \/ Stop \/ StopInCallback \/ KeepCB \/ StopKept
      BY <1>2, <2>0, <2>6 DEF CallParse, CallFinish, ChangeScalar, ClearState, Stop, StopInCallback, KeepCB, StopKept, objects
    <2>7. CASE ReadByte \/ LeaveLoop \/ LeaveFinish \/ Return \/ Die \/ \E k \in Kinds : Fire(k)
      <3>1. UNCHANGED objects
        BY <2>7 DEF ReadByte, LeaveLoop, LeaveFinish, Return, Die, Fire
      <3> QED  BY <1>2, <2>0, <3>1 DEF objects
    <2>8. CASE UNCHANGED vars
      BY <1>2, <2>0, <2>8 DEF vars, objects
    <2> QED  BY <2>1, <2>2, <2>3, <2>4, <2>5, <2>6, <2>7, <2>8 DEF Next, Program, Library
  <1>4. CopiesInv => CopiesAreHeld
    BY DEF CopiesInv, CopiesAreHeld, Copied
  <1> QED  BY <1>1, <1>3, <1>4, InvAlways, PTL DEF Spec

----------------------------------------------------------------------------
(* The text of each object *)

Both == {"lost", "repeated"}

Bytes == {"t", "s", "e"}

Parsers ==
    [state : {"RECORD_NOT_BEGUN", "FIELD_NOT_BEGUN", "FIELD"}, field : Nat,
     input : Seq(Bytes), stop : BOOLEAN]

TextTyped ==
    /\ parser \in [Handle -> Parsers]
    /\ given \in [Xs -> Nat]
    /\ reported \in [Xs -> Nat]
    /\ upset \in [Xs -> SUBSET Both]

\* A record that has not begun has no text.
NothingBegun == \A h \in Handle : parser[h].state = "RECORD_NOT_BEGUN" => parser[h].field = 0

\* The calls that are active, the parsers and what the program did, as far as the text
\* depends on them: of any stack, since a step changes it more than once.

\* A callback has no chunk and nothing due; it runs on a call of its parser.
OnItsCall(st) ==
    \A i \in 1 .. Len(st) :
       /\ st[i].in = "finish" => st[i].chunk = <<>>
       /\ st[i].in \in Kinds =>
             /\ st[i].chunk = <<>> /\ st[i].due = {}
             /\ ~st[i].dead =>
                   /\ i > 1 /\ st[i - 1].in \notin Kinds
                   /\ st[i - 1].x = st[i].x /\ ~st[i - 1].dead

\* A call within a call of the same parser is remembered.
SeenReentry(st, us) ==
    \A i, j \in 1 .. Len(st) :
       /\ i < j /\ st[i].x = st[j].x /\ ~st[i].dead /\ ~st[j].dead
       /\ st[j].in \notin Kinds
       => us[st[j].x] = Both

\* A field of x is being reported.
Reporting(st, x) == \E i \in 1 .. Len(st) : st[i].in = "field" /\ st[i].x = x /\ ~st[i].dead

\* The call has reported the field it was to report.
FieldIsDone(frame) ==
    \/ frame.in = "record"
    \/ /\ frame.in \in {"parse", "finish"} /\ "field" \notin frame.due
       /\ frame.in = "finish" \/ "record" \in frame.due

\* Then its text is gone, or is about to go.
NothingBehind(st, ps, us) ==
    \A i \in 1 .. Len(st) :
       ~st[i].dead /\ FieldIsDone(st[i]) =>
          us[st[i].x] = Both \/ ps[st[i].h].field = 0 \/ Reporting(st, st[i].x)

InOrder(st, ps, us) == OnItsCall(st) /\ SeenReentry(st, us) /\ NothingBehind(st, ps, us)

TextInv ==
    /\ TextTyped
    /\ NothingBegun
    /\ InOrder(stack, parser, upset)
    /\ TextAccountedFor

----------------------------------------------------------------------------
(* Counting text *)

\* The places of the text in a chunk.
TextAt(chunk) == {i \in 1 .. Len(chunk) : chunk[i] = "t"}

\* A chunk has a number of pieces of text, and an empty one has none.
LEMMA TextsAreCounted ==
    ASSUME NEW chunk \in Seq(Bytes)
    PROVE  /\ IsFiniteSet(TextAt(chunk)) /\ Texts(chunk) = Cardinality(TextAt(chunk))
           /\ Texts(chunk) \in Nat
           /\ chunk = <<>> => Texts(chunk) = 0
  <1>1. Len(chunk) \in Nat /\ IsFiniteSet(1 .. Len(chunk)) /\ TextAt(chunk) \in SUBSET (1 .. Len(chunk))
    BY FS_Interval DEF TextAt
  <1>2. IsFiniteSet(TextAt(chunk)) /\ Texts(chunk) = Cardinality(TextAt(chunk))
    BY <1>1, FS_Subset DEF TextAt, Texts
  <1>3. chunk = <<>> => TextAt(chunk) = {}
    BY DEF TextAt
  <1> QED  BY <1>2, <1>3, FS_CardinalityType, FS_EmptySet

\* Renumbering leaves a set as large as it is.
LEMMA SameSize ==
    ASSUME NEW S, NEW T, IsFiniteSet(S), NEW f \in [S -> T],
           \A a, b \in S : f[a] = f[b] => a = b,
           \A c \in T : \E a \in S : f[a] = c
    PROVE  IsFiniteSet(T) /\ Cardinality(T) = Cardinality(S)
  <1>1. f \in Bijection(S, T)
    BY DEF Bijection, Injection, Surjection, IsInjective
  <1>2. ExistsBijection(S, T)
    BY <1>1 DEF ExistsBijection
  <1> QED  BY <1>2, FS_Bijection

\* The first byte of a chunk, and the others.
LEMMA TextsOfTail ==
    ASSUME NEW chunk \in Seq(Bytes), chunk # <<>>
    PROVE  /\ Tail(chunk) \in Seq(Bytes) /\ Head(chunk) \in Bytes
           /\ Head(chunk) = "t" => Texts(chunk) = Texts(Tail(chunk)) + 1
           /\ Head(chunk) # "t" => Texts(chunk) = Texts(Tail(chunk))
  <1> DEFINE rest == Tail(chunk)
             first == TextAt(chunk) \cap {1}
             others == TextAt(chunk) \ {1}
  <1>1. /\ rest \in Seq(Bytes) /\ Head(chunk) = chunk[1] /\ chunk[1] \in Bytes
        /\ Len(chunk) \in Nat \ {0} /\ Len(rest) = Len(chunk) - 1
        /\ \A i \in 1 .. Len(rest) : rest[i] = chunk[i + 1]
    OBVIOUS
  <1> HIDE DEF rest
  <1>2. Cardinality(others) = Cardinality(TextAt(rest)) /\ IsFiniteSet(others)
    <2> DEFINE f == [i \in TextAt(rest) |-> i + 1]
    <2>1. f \in [TextAt(rest) -> others]
      BY <1>1 DEF TextAt
    <2>2. \A a, b \in TextAt(rest) : f[a] = f[b] => a = b
      BY <1>1 DEF TextAt
    <2>3. \A c \in others : \E a \in TextAt(rest) : f[a] = c
      <3> SUFFICES ASSUME NEW c \in others PROVE \E a \in TextAt(rest) : f[a] = c
        OBVIOUS
      <3>1. c \in 1 .. Len(chunk) /\ c # 1 /\ chunk[c] = "t"
        BY DEF TextAt
      <3>2. c - 1 \in 1 .. Len(rest) /\ (c - 1) + 1 = c
        BY <1>1, <3>1
      <3>3. rest[c - 1] = "t"
        BY <1>1, <3>1, <3>2
      <3>4. c - 1 \in TextAt(rest)
        BY <3>2, <3>3 DEF TextAt
      <3> QED  BY <3>2, <3>4
    <2>4. IsFiniteSet(TextAt(rest))
      BY <1>1, TextsAreCounted
    <2> HIDE DEF f, others
    <2> QED  BY <2>1, <2>2, <2>3, <2>4, SameSize
  <1>3. CASE chunk[1] = "t"
    <2>1. TextAt(chunk) = others \cup {1} /\ 1 \notin others
      BY <1>1, <1>3 DEF TextAt
    <2>2. Cardinality(TextAt(chunk)) = Cardinality(others) + 1
      BY <2>1, <1>2, FS_AddElement
    <2> QED  BY <1>1, <1>2, <1>3, <2>2, TextsAreCounted DEF rest
  <1>4. CASE chunk[1] # "t"
    <2>1. TextAt(chunk) = others
      BY <1>1, <1>4 DEF TextAt
    <2> QED  BY <1>1, <1>2, <1>4, <2>1, TextsAreCounted DEF rest
  <1> QED  BY <1>1, <1>3, <1>4 DEF rest

\* The places of the text of an object in the chunks of a stack.
Pieces(st, x) ==
    {q \in (1 .. Len(st)) \X (1 .. MaxLength) :
       /\ st[q[1]].x = x /\ ~st[q[1]].dead
       /\ q[2] \in 1 .. Len(st[q[1]].chunk) /\ st[q[1]].chunk[q[2]] = "t"}

\* They can be counted.
LEMMA PiecesAreCounted ==
    ASSUME NEW st \in Seq(Frames), NEW x
    PROVE  IsFiniteSet(Pieces(st, x)) /\ Cardinality(Pieces(st, x)) \in Nat
  <1>1. IsFiniteSet(1 .. Len(st)) /\ IsFiniteSet(1 .. MaxLength)
    BY FS_Interval, BindingAssumption
  <1>2. IsFiniteSet((1 .. Len(st)) \X (1 .. MaxLength))
    BY <1>1, FS_Product
  <1>3. Pieces(st, x) \in SUBSET ((1 .. Len(st)) \X (1 .. MaxLength))
    BY DEF Pieces
  <1> QED  BY <1>2, <1>3, FS_Subset, FS_CardinalityType

\* A chunk is text of a limited length.
LEMMA ChunkIsText ==
    ASSUME NEW frame \in Frames
    PROVE  frame.chunk \in Seq(Bytes) /\ Len(frame.chunk) \in 0 .. MaxLength
  <1>1. frame.chunk \in Chunks \cup {<<>>}
    BY DEF Frames
  <1>2. CASE frame.chunk \in Chunks
    BY <1>2, BindingAssumption DEF Bytes
  <1>3. CASE frame.chunk = <<>>
    BY <1>3, BindingAssumption
  <1> QED  BY <1>1, <1>2, <1>3

\* The chunk of a call on top of the others.
LEMMA PiecesOnTop ==
    ASSUME NEW st \in Seq(Frames), NEW frame \in Frames, NEW x
    PROVE  Cardinality(Pieces(Append(st, frame), x))
             = Cardinality(Pieces(st, x)) + (IF frame.x = x /\ ~frame.dead THEN Texts(frame.chunk) ELSE 0)
  <1> DEFINE longer == Append(st, frame)
             n == Len(st) + 1
             new == {n} \X TextAt(frame.chunk)
  <1>1. /\ Len(st) \in Nat /\ Len(longer) = n /\ longer[n] = frame
        /\ \A i \in 1 .. Len(st) : longer[i] = st[i]
    OBVIOUS
  <1>2. frame.chunk \in Seq(Bytes) /\ Len(frame.chunk) \in 0 .. MaxLength
    BY ChunkIsText
  <1> HIDE DEF longer
  <1>3. CASE frame.x = x /\ ~frame.dead
    <2>1. Pieces(longer, x) = Pieces(st, x) \cup new
      <3>1. ASSUME NEW q \in Pieces(longer, x) PROVE q \in Pieces(st, x) \cup new
        <4>1. /\ q \in (1 .. n) \X (1 .. MaxLength) /\ q[1] \in 1 .. n /\ q = <<q[1], q[2]>>
              /\ q[2] \in 1 .. Len(longer[q[1]].chunk) /\ longer[q[1]].chunk[q[2]] = "t"
              /\ longer[q[1]].x = x /\ ~longer[q[1]].dead /\ q[2] \in 1 .. MaxLength
          BY <1>1 DEF Pieces
        <4>2. CASE q[1] = n
          BY <4>1, <4>2, <1>1 DEF TextAt
        <4>3. CASE q[1] # n
          <5>1. q[1] \in 1 .. Len(st)
            BY <4>1, <4>3, <1>1
          <5>2. longer[q[1]] = st[q[1]] /\ q \in (1 .. Len(st)) \X (1 .. MaxLength)
            BY <5>1, <4>1, <1>1
          <5> QED  BY <4>1, <5>2 DEF Pieces
        <4> QED  BY <4>2, <4>3
      <3>2. ASSUME NEW q \in Pieces(st, x) PROVE q \in Pieces(longer, x)
        <4>1. q[1] \in 1 .. Len(st) /\ q[1] \in 1 .. n /\ q = <<q[1], q[2]>> /\ q[2] \in 1 .. MaxLength
          BY <1>1 DEF Pieces
        <4>2. longer[q[1]] = st[q[1]] /\ q \in (1 .. Len(longer)) \X (1 .. MaxLength)
          BY <4>1, <1>1
        <4> QED  BY <4>2 DEF Pieces
      <3>3. ASSUME NEW q \in new PROVE q \in Pieces(longer, x)
        <4>1. q[1] = n /\ q[2] \in TextAt(frame.chunk) /\ q = <<q[1], q[2]>>
          OBVIOUS
        <4>2. q[2] \in 1 .. Len(frame.chunk) /\ frame.chunk[q[2]] = "t" /\ q[2] \in 1 .. MaxLength
          BY <4>1, <1>2, BindingAssumption DEF TextAt
        <4>3. q \in (1 .. Len(longer)) \X (1 .. MaxLength)
          BY <4>1, <4>2, <1>1
        <4> QED  BY <1>1, <1>3, <4>1, <4>2, <4>3 DEF Pieces
      <3> QED  BY <3>1, <3>2, <3>3
    <2>2. Pieces(st, x) \cap new = {}
      BY <1>1 DEF Pieces
    <2>3. IsFiniteSet(new) /\ Cardinality(new) = Texts(frame.chunk)
      <3> DEFINE f == [i \in TextAt(frame.chunk) |-> <<n, i>>]
      <3>1. f \in [TextAt(frame.chunk) -> new]
        OBVIOUS
      <3>2. \A a, b \in TextAt(frame.chunk) : f[a] = f[b] => a = b
        OBVIOUS
      <3>3. \A c \in new : \E a \in TextAt(frame.chunk) : f[a] = c
        OBVIOUS
      <3>4. IsFiniteSet(TextAt(frame.chunk)) /\ Cardinality(TextAt(frame.chunk)) = Texts(frame.chunk)
        BY <1>2, TextsAreCounted
      <3> HIDE DEF f, new
      <3> QED  BY <3>1, <3>2, <3>3, <3>4, SameSize
    <2> HIDE DEF new
    <2>4. IsFiniteSet(Pieces(st, x)) /\ Cardinality(Pieces(st, x)) \in Nat /\ Texts(frame.chunk) \in Nat
      BY <1>2, PiecesAreCounted, TextsAreCounted
    <2>5. Cardinality(Pieces(st, x) \cup new)
            = Cardinality(Pieces(st, x)) + Cardinality(new) - Cardinality(Pieces(st, x) \cap new)
      BY <2>3, <2>4, FS_Union
    <2>6. Cardinality(Pieces(st, x) \cap new) = 0
      BY <2>2, FS_EmptySet
    <2> QED  BY <1>3, <2>1, <2>3, <2>4, <2>5, <2>6 DEF longer
  <1>4. CASE ~(frame.x = x /\ ~frame.dead)
    <2>1. Pieces(longer, x) = Pieces(st, x)
      <3>1. ASSUME NEW q \in Pieces(longer, x) PROVE q \in Pieces(st, x)
        <4>1. /\ q[1] \in 1 .. n /\ q = <<q[1], q[2]>> /\ q[2] \in 1 .. MaxLength
              /\ longer[q[1]].x = x /\ ~longer[q[1]].dead
          BY <1>1 DEF Pieces
        <4>2. q[1] \in 1 .. Len(st)
          BY <4>1, <1>1, <1>4
        <4>3. longer[q[1]] = st[q[1]] /\ q \in (1 .. Len(st)) \X (1 .. MaxLength)
          BY <4>1, <4>2, <1>1
        <4> QED  BY <4>3 DEF Pieces
      <3>2. ASSUME NEW q \in Pieces(st, x) PROVE q \in Pieces(longer, x)
        <4>1. q[1] \in 1 .. Len(st) /\ q[1] \in 1 .. n /\ q = <<q[1], q[2]>> /\ q[2] \in 1 .. MaxLength
          BY <1>1 DEF Pieces
        <4>2. longer[q[1]] = st[q[1]] /\ q \in (1 .. Len(longer)) \X (1 .. MaxLength)
          BY <4>1, <1>1
        <4> QED  BY <4>2 DEF Pieces
      <3> QED  BY <3>1, <3>2
    <2>2. Cardinality(Pieces(st, x)) \in Nat
      BY PiecesAreCounted
    <2> QED  BY <1>4, <2>1, <2>2 DEF longer
  <1> QED  BY <1>3, <1>4

\* What is counted of an object depends on its active calls only.
LEMMA CountedAlike ==
    ASSUME NEW st \in Seq(Frames), NEW other \in Seq(Frames), NEW x, Len(other) = Len(st),
           \A i \in 1 .. Len(st) : st[i].x = x /\ ~st[i].dead <=> other[i].x = x /\ ~other[i].dead,
           \A i \in 1 .. Len(st) : st[i].x = x /\ ~st[i].dead =>
                                      st[i].chunk = other[i].chunk /\ st[i].in = other[i].in
    PROVE  Pieces(other, x) = Pieces(st, x) /\ (Reporting(other, x) <=> Reporting(st, x))
  <1>1. ASSUME NEW q PROVE q \in Pieces(other, x) <=> q \in Pieces(st, x)
    <2>1. ASSUME q \in (1 .. Len(st)) \X (1 .. MaxLength)
          PROVE q \in Pieces(other, x) <=> q \in Pieces(st, x)
      <3>1. q[1] \in 1 .. Len(st)
        BY <2>1
      <3> QED  BY <2>1, <3>1 DEF Pieces
    <2> QED  BY <2>1 DEF Pieces
  <1> QED  BY <1>1 DEF Reporting

\* A callback is on top: is a field being reported?
LEMMA ReportingOnTop ==
    ASSUME NEW st \in Seq(Frames), NEW frame \in Frames, NEW x
    PROVE  Reporting(Append(st, frame), x)
             <=> Reporting(st, x) \/ (frame.in = "field" /\ frame.x = x /\ ~frame.dead)
  <1> DEFINE longer == Append(st, frame)
  <1>1. /\ Len(st) \in Nat /\ Len(longer) = Len(st) + 1 /\ longer[Len(st) + 1] = frame
        /\ \A i \in 1 .. Len(st) : longer[i] = st[i]
    OBVIOUS
  <1> HIDE DEF longer
  <1>2. \A i \in 1 .. Len(longer) : i \in 1 .. Len(st) \/ i = Len(st) + 1
    BY <1>1
  <1>3. Len(st) + 1 \in 1 .. Len(longer) /\ \A i \in 1 .. Len(st) : i \in 1 .. Len(longer)
    BY <1>1
  <1>4. Reporting(longer, x) <=> Reporting(st, x) \/ (frame.in = "field" /\ frame.x = x /\ ~frame.dead)
    BY <1>1, <1>2, <1>3 DEF Reporting
  <1> QED  BY <1>4 DEF longer

\* When calls are left, what they count for is gone.
LEMMA CountedOfSome ==
    ASSUME NEW st \in Seq(Frames), NEW n \in 0 .. Len(st), NEW x
    PROVE  /\ Cardinality(Pieces(SubSeq(st, 1, n), x)) =< Cardinality(Pieces(st, x))
           /\ (\A i \in n + 1 .. Len(st) : st[i].x = x /\ ~st[i].dead => st[i].chunk = <<>>)
                => Cardinality(Pieces(SubSeq(st, 1, n), x)) = Cardinality(Pieces(st, x))
           /\ Reporting(SubSeq(st, 1, n), x) => Reporting(st, x)
           /\ (\A i \in n + 1 .. Len(st) : st[i].x = x /\ ~st[i].dead => st[i].in # "field")
                => (Reporting(st, x) => Reporting(SubSeq(st, 1, n), x))
  <1> DEFINE some == SubSeq(st, 1, n)
  <1>1. /\ Len(st) \in Nat /\ n \in Nat /\ Len(some) = n /\ some \in Seq(Frames)
        /\ \A i \in 1 .. n : some[i] = st[i]
    OBVIOUS
  <1> HIDE DEF some
  <1>2. \A i \in 1 .. n : i \in 1 .. Len(st)
    BY <1>1
  <1>3. \A i \in 1 .. Len(st) : i \in 1 .. n \/ i \in n + 1 .. Len(st)
    BY <1>1
  <1>4. ASSUME NEW q \in Pieces(some, x) PROVE q \in Pieces(st, x)
    <2>1. /\ q = <<q[1], q[2]>> /\ q[1] \in 1 .. n /\ q[2] \in 1 .. MaxLength
      BY <1>1 DEF Pieces
    <2>2. some[q[1]] = st[q[1]] /\ q \in (1 .. Len(st)) \X (1 .. MaxLength)
      BY <2>1, <1>1, <1>2
    <2> QED  BY <2>2 DEF Pieces
  <1>5. ASSUME \A i \in n + 1 .. Len(st) : st[i].x = x /\ ~st[i].dead => st[i].chunk = <<>>,
               NEW q \in Pieces(st, x)
        PROVE  q \in Pieces(some, x)
    <2>1. /\ q = <<q[1], q[2]>> /\ q[1] \in 1 .. Len(st) /\ q[2] \in 1 .. MaxLength
          /\ st[q[1]].x = x /\ ~st[q[1]].dead /\ q[2] \in 1 .. Len(st[q[1]].chunk)
      BY DEF Pieces
    <2>2. st[q[1]].chunk # <<>>
      BY <2>1
    <2>3. q[1] \in 1 .. n
      BY <2>1, <2>2, <1>3, <1>5
    <2>4. some[q[1]] = st[q[1]] /\ q \in (1 .. Len(some)) \X (1 .. MaxLength)
      BY <2>1, <2>3, <1>1
    <2> QED  BY <2>4 DEF Pieces
  <1>6. Pieces(some, x) \in SUBSET Pieces(st, x) /\ IsFiniteSet(Pieces(st, x))
    BY <1>4, PiecesAreCounted
  <1>7. Cardinality(Pieces(some, x)) =< Cardinality(Pieces(st, x))
    BY <1>6, FS_Subset
  <1>8. ASSUME \A i \in n + 1 .. Len(st) : st[i].x = x /\ ~st[i].dead => st[i].chunk = <<>>
        PROVE  Pieces(some, x) = Pieces(st, x)
    BY <1>4, <1>5, <1>8
  <1>9. Reporting(some, x) => Reporting(st, x)
    BY <1>1, <1>2 DEF Reporting
  <1>10. ASSUME \A i \in n + 1 .. Len(st) : st[i].x = x /\ ~st[i].dead => st[i].in # "field",
                Reporting(st, x)
         PROVE  Reporting(some, x)
    <2>1. PICK i \in 1 .. Len(st) : st[i].in = "field" /\ st[i].x = x /\ ~st[i].dead
      BY <1>10 DEF Reporting
    <2>2. i \in 1 .. n
      BY <2>1, <1>3, <1>10
    <2> QED  BY <2>1, <2>2, <1>1 DEF Reporting
  <1> QED  BY <1>7, <1>8, <1>9, <1>10 DEF some

----------------------------------------------------------------------------
(* Calls in order *)

\* All calls of an object are of one parser.
OneParser(st) ==
    \A i, j \in 1 .. Len(st) : st[i].x = st[j].x /\ ~st[i].dead /\ ~st[j].dead => st[i].h = st[j].h

LEMMA CallsOfOneParser == Inv => OneParser(stack)
  BY DEF Inv, CallsAreLive, OneParser

\* The parsers lose the text of their fields, or the program is to blame.
LEMMA OtherParsers ==
    ASSUME NEW st \in Seq(Frames), NEW ps, NEW us, NEW later, NEW blame,
           InOrder(st, ps, us),
           \A i \in 1 .. Len(st) : us[st[i].x] = Both => blame[st[i].x] = Both,
           \A i \in 1 .. Len(st) :
              ~st[i].dead /\ FieldIsDone(st[i]) =>
                 \/ blame[st[i].x] = Both
                 \/ later[st[i].h].field = 0
                 \/ later[st[i].h].field = ps[st[i].h].field
    PROVE  InOrder(st, later, blame)
  <1>1. OnItsCall(st)
    BY DEF InOrder
  <1>2. SeenReentry(st, blame)
    BY DEF InOrder, SeenReentry
  <1>3. NothingBehind(st, later, blame)
    BY DEF InOrder, NothingBehind
  <1> QED  BY <1>1, <1>2, <1>3 DEF InOrder

\* A call of the parser goes on.
LEMMA OrderInCall ==
    ASSUME NEW st \in Seq(Frames), NEW ps, NEW us, InOrder(st, ps, us),
           NEW n \in 1 .. Len(st), NEW frame \in Frames,
           frame.in = st[n].in, frame.x = st[n].x, frame.h = st[n].h, frame.dead = st[n].dead,
           frame.in \notin Kinds, frame.in = "finish" => frame.chunk = <<>>,
           ~frame.dead /\ FieldIsDone(frame) /\ ~FieldIsDone(st[n]) =>
              us[frame.x] = Both \/ ps[frame.h].field = 0 \/ Reporting(st, frame.x)
    PROVE  InOrder([st EXCEPT ![n] = frame], ps, us)
  <1> DEFINE next == [st EXCEPT ![n] = frame]
  <1>1. /\ Len(st) \in Nat /\ next \in Seq(Frames) /\ Len(next) = Len(st) /\ next[n] = frame
        /\ \A i \in 1 .. Len(st) : i # n => next[i] = st[i]
    OBVIOUS
  <1> HIDE DEF next
  <1>2. \A i \in 1 .. Len(st) : /\ next[i].in = st[i].in /\ next[i].x = st[i].x
                                /\ next[i].h = st[i].h /\ next[i].dead = st[i].dead
    BY <1>1
  <1>3. OnItsCall(next)
    <2> SUFFICES ASSUME NEW i \in 1 .. Len(st)
                 PROVE  /\ next[i].in = "finish" => next[i].chunk = <<>>
                        /\ next[i].in \in Kinds =>
                              /\ next[i].chunk = <<>> /\ next[i].due = {}
                              /\ ~next[i].dead =>
                                    /\ i > 1 /\ next[i - 1].in \notin Kinds
                                    /\ next[i - 1].x = next[i].x /\ ~next[i - 1].dead
      BY <1>1 DEF OnItsCall
    <2>1. next[i].in = "finish" => next[i].chunk = <<>>
      BY <1>1 DEF InOrder, OnItsCall
    <2>2. ASSUME next[i].in \in Kinds
          PROVE  /\ next[i].chunk = <<>> /\ next[i].due = {}
                 /\ ~next[i].dead =>
                       /\ i > 1 /\ next[i - 1].in \notin Kinds
                       /\ next[i - 1].x = next[i].x /\ ~next[i - 1].dead
      <3>1. i # n /\ next[i] = st[i]
        BY <1>1, <2>2
      <3>2. /\ st[i].chunk = <<>> /\ st[i].due = {}
            /\ ~st[i].dead => /\ i > 1 /\ st[i - 1].in \notin Kinds
                              /\ st[i - 1].x = st[i].x /\ ~st[i - 1].dead
        BY <2>2, <3>1 DEF InOrder, OnItsCall
      <3>3. i > 1 => i - 1 \in 1 .. Len(st)
        BY <1>1
      <3> QED  BY <3>1, <3>2, <3>3, <1>2
    <2> QED  BY <2>1, <2>2
  <1>4. SeenReentry(next, us)
    BY <1>1, <1>2 DEF InOrder, SeenReentry
  <1>5. \A x : Reporting(st, x) <=> Reporting(next, x)
    BY <1>1, <1>2 DEF Reporting
  <1>6. NothingBehind(next, ps, us)
    <2> SUFFICES ASSUME NEW i \in 1 .. Len(st), ~next[i].dead, FieldIsDone(next[i])
                 PROVE  us[next[i].x] = Both \/ ps[next[i].h].field = 0 \/ Reporting(next, next[i].x)
      BY <1>1 DEF NothingBehind
    <2>1. CASE i = n /\ ~FieldIsDone(st[n])
      BY <2>1, <1>1, <1>5
    <2>2. CASE FieldIsDone(st[i])
      BY <2>2, <1>2, <1>5 DEF InOrder, NothingBehind
    <2> QED  BY <2>1, <2>2, <1>1
  <1> QED  BY <1>3, <1>4, <1>6 DEF InOrder, next

\* A call or a callback on top.
LEMMA OrderOnTop ==
    ASSUME NEW st \in Seq(Frames), NEW ps, NEW us, InOrder(st, ps, us), NEW frame \in Frames,
           ~frame.dead, frame.in = "finish" => frame.chunk = <<>>,
           frame.in \in Kinds =>
              /\ frame.chunk = <<>> /\ frame.due = {} /\ st # <<>>
              /\ st[Len(st)].in \notin Kinds /\ st[Len(st)].x = frame.x /\ ~st[Len(st)].dead,
           frame.in \notin Kinds =>
              \A i \in 1 .. Len(st) : st[i].x = frame.x /\ ~st[i].dead => us[frame.x] = Both,
           FieldIsDone(frame) =>
              us[frame.x] = Both \/ ps[frame.h].field = 0 \/ Reporting(st, frame.x)
    PROVE  InOrder(Append(st, frame), ps, us)
  <1> DEFINE next == Append(st, frame)
  <1>1. /\ Len(st) \in Nat /\ Len(next) = Len(st) + 1 /\ next[Len(st) + 1] = frame
        /\ \A i \in 1 .. Len(st) : next[i] = st[i]
        /\ st # <<>> => Len(st) \in 1 .. Len(st)
    OBVIOUS
  <1> HIDE DEF next
  <1>2. \A i \in 1 .. Len(next) : i \in 1 .. Len(st) \/ (i = Len(st) + 1 /\ next[i] = frame)
    BY <1>1
  <1>3. OnItsCall(next)
    <2> SUFFICES ASSUME NEW i \in 1 .. Len(next)
                 PROVE  /\ next[i].in = "finish" => next[i].chunk = <<>>
                        /\ next[i].in \in Kinds =>
                              /\ next[i].chunk = <<>> /\ next[i].due = {}
                              /\ ~next[i].dead =>
                                    /\ i > 1 /\ next[i - 1].in \notin Kinds
                                    /\ next[i - 1].x = next[i].x /\ ~next[i - 1].dead
      BY DEF OnItsCall
    <2>1. CASE i \in 1 .. Len(st)
      <3>1. i > 1 => i - 1 \in 1 .. Len(st)
        BY <2>1, <1>1
      <3>2. next[i] = st[i] /\ (i > 1 => next[i - 1] = st[i - 1])
        BY <2>1, <3>1, <1>1
      <3> QED  BY <2>1, <3>2 DEF InOrder, OnItsCall
    <2>2. CASE i = Len(st) + 1 /\ next[i] = frame
      <3>1. i - 1 = Len(st) /\ (st # <<>> => i > 1 /\ next[i - 1] = st[Len(st)])
        BY <2>2, <1>1
      <3> QED  BY <2>2, <3>1
    <2> QED  BY <2>1, <2>2, <1>2
  <1>4. SeenReentry(next, us)
    <2> SUFFICES ASSUME NEW i \in 1 .. Len(next), NEW j \in 1 .. Len(next),
                        i < j, next[i].x = next[j].x, ~next[i].dead, ~next[j].dead,
                        next[j].in \notin Kinds
                 PROVE  us[next[j].x] = Both
      BY DEF SeenReentry
    <2>1. i \in 1 .. Len(st) /\ next[i] = st[i]
      BY <1>1
    <2>2. CASE j \in 1 .. Len(st)
      BY <2>1, <2>2, <1>1 DEF InOrder, SeenReentry
    <2>3. CASE next[j] = frame
      BY <2>1, <2>3
    <2> QED  BY <2>2, <2>3, <1>2
  <1>5. \A x : Reporting(st, x) => Reporting(next, x)
    BY ReportingOnTop DEF next
  <1>6. NothingBehind(next, ps, us)
    <2> SUFFICES ASSUME NEW i \in 1 .. Len(next), ~next[i].dead, FieldIsDone(next[i])
                 PROVE  us[next[i].x] = Both \/ ps[next[i].h].field = 0 \/ Reporting(next, next[i].x)
      BY DEF NothingBehind
    <2>1. CASE i \in 1 .. Len(st)
      BY <2>1, <1>1, <1>5 DEF InOrder, NothingBehind
    <2>2. CASE next[i] = frame
      BY <2>2, <1>5
    <2> QED  BY <2>1, <2>2, <1>2
  <1> QED  BY <1>3, <1>4, <1>6 DEF InOrder, next

\* Calls are left: if a field was being reported, its text is gone, or its call is left too.
LEMMA OrderOfSome ==
    ASSUME NEW st \in Seq(Frames), NEW ps, NEW us, InOrder(st, ps, us), OneParser(st),
           NEW n \in 0 .. Len(st),
           \A j \in n + 1 .. Len(st) :
              st[j].in = "field" /\ ~st[j].dead => j > n + 1 \/ ps[st[j].h].field = 0
    PROVE  InOrder(SubSeq(st, 1, n), ps, us)
  <1> DEFINE some == SubSeq(st, 1, n)
  <1>1. /\ Len(st) \in Nat /\ n \in Nat /\ Len(some) = n /\ some \in Seq(Frames)
        /\ \A i \in 1 .. n : some[i] = st[i] /\ i \in 1 .. Len(st) /\ (i > 1 => i - 1 \in 1 .. n)
    OBVIOUS
  <1> HIDE DEF some
  <1>2. OnItsCall(some)
    BY <1>1 DEF InOrder, OnItsCall
  <1>3. SeenReentry(some, us)
    BY <1>1 DEF InOrder, SeenReentry
  <1>4. NothingBehind(some, ps, us)
    <2> SUFFICES ASSUME NEW i \in 1 .. n, ~st[i].dead, FieldIsDone(st[i]), Reporting(st, st[i].x)
                 PROVE  us[st[i].x] = Both \/ ps[st[i].h].field = 0 \/ Reporting(some, st[i].x)
      BY <1>1 DEF InOrder, NothingBehind
    <2>1. PICK j \in 1 .. Len(st) : st[j].in = "field" /\ st[j].x = st[i].x /\ ~st[j].dead
      BY DEF Reporting
    <2>2. st[j].h = st[i].h
      BY <1>1, <2>1 DEF OneParser
    <2>3. CASE j \in 1 .. n
      BY <2>1, <2>3, <1>1 DEF Reporting
    <2>4. CASE j > n
      <3>1. j \in n + 1 .. Len(st)
        BY <2>4, <1>1
      <3>2. CASE ps[st[j].h].field = 0
        BY <3>2, <2>2
      <3>3. CASE j > n + 1
        <4>1. j - 1 \in 1 .. Len(st) /\ i \in 1 .. Len(st) /\ i < j - 1
          BY <3>3, <1>1
        <4>2. st[j - 1].in \notin Kinds /\ st[j - 1].x = st[j].x /\ ~st[j - 1].dead
          BY <2>1 DEF InOrder, OnItsCall, Kinds
        <4> QED  BY <4>1, <4>2, <2>1 DEF InOrder, SeenReentry
      <3> QED  BY <3>1, <3>2, <3>3, <2>1
    <2> QED  BY <2>3, <2>4, <1>1
  <1> QED  BY <1>2, <1>3, <1>4 DEF InOrder, some

\* The calls of a parser that goes die.
LEMMA OrderOfLiving ==
    ASSUME NEW st \in Seq(Frames), NEW ps, NEW us, InOrder(st, ps, us), OneParser(st),
           NEW h, NEW next \in Seq(Frames), Len(next) = Len(st),
           \A i \in 1 .. Len(st) :
              /\ next[i].in = st[i].in /\ next[i].x = st[i].x /\ next[i].h = st[i].h
              /\ next[i].chunk = st[i].chunk /\ next[i].due = st[i].due
              /\ ~next[i].dead <=> ~st[i].dead /\ st[i].h # h
    PROVE  InOrder(next, ps, us)
  <1>1. Len(st) \in Nat /\ \A i \in 1 .. Len(st) : i > 1 => i - 1 \in 1 .. Len(st)
    OBVIOUS
  <1>2. OnItsCall(next)
    <2> SUFFICES ASSUME NEW i \in 1 .. Len(st), st[i].in \in Kinds, ~st[i].dead, st[i].h # h
                 PROVE  /\ i > 1 /\ next[i - 1].in \notin Kinds
                        /\ next[i - 1].x = next[i].x /\ ~next[i - 1].dead
      BY DEF InOrder, OnItsCall
    <2>1. i > 1 /\ st[i - 1].in \notin Kinds /\ st[i - 1].x = st[i].x /\ ~st[i - 1].dead
      BY DEF InOrder, OnItsCall
    <2>2. i - 1 \in 1 .. Len(st)
      BY <1>1, <2>1
    <2>3. st[i - 1].h = st[i].h
      BY <2>1, <2>2 DEF OneParser
    <2> QED  BY <2>1, <2>2, <2>3
  <1>3. SeenReentry(next, us)
    BY <1>1 DEF InOrder, SeenReentry
  <1>4. NothingBehind(next, ps, us)
    <2> SUFFICES ASSUME NEW i \in 1 .. Len(st), ~st[i].dead, st[i].h # h, FieldIsDone(st[i]),
                        Reporting(st, st[i].x)
                 PROVE  Reporting(next, st[i].x)
      BY DEF InOrder, NothingBehind, FieldIsDone
    <2>1. PICK j \in 1 .. Len(st) : st[j].in = "field" /\ st[j].x = st[i].x /\ ~st[j].dead
      BY DEF Reporting
    <2>2. st[j].h = st[i].h
      BY <2>1 DEF OneParser
    <2> QED  BY <2>1, <2>2 DEF Reporting
  <1> QED  BY <1>2, <1>3, <1>4 DEF InOrder

----------------------------------------------------------------------------
(* The accounts of one step *)

\* What an object has reported, what waits in its parser, in chunks and in a field, and
\* what it was given.
Agrees(told, read, waiting, held, got, us) ==
    /\ "lost" \notin us => told + (read + waiting + held) >= got
    /\ "repeated" \notin us => told + (read + waiting + held) =< got

InAccount(x) ==
    Agrees(reported[x], Texts(parser[self[x]].input), Cardinality(Pieces(stack, x)),
           IF Reporting(stack, x) THEN 0 ELSE parser[self[x]].field, given[x], upset[x])

\* That is what TextAccountedFor says of it.
LEMMA AccountsOfAll ==
    /\ TextAccountedFor <=> \A x \in Xs : Live(x) => InAccount(x)
    /\ TextAccountedFor' <=> \A x \in Xs : Live(x)' => InAccount(x)'
  <1>1. \A x : Waiting(x) = Cardinality(Pieces(stack, x)) /\ Waiting(x)' = Cardinality(Pieces(stack', x))
    BY DEF Waiting, Pieces
  <1>2. \A x : /\ HeldText(x) = IF Reporting(stack, x) THEN 0 ELSE parser[self[x]].field
               /\ HeldText(x)' = IF Reporting(stack', x) THEN 0 ELSE parser'[self'[x]].field
    BY DEF HeldText, Reporting
  <1>3. \A x : /\ Unreported(x) = Texts(parser[self[x]].input) + Cardinality(Pieces(stack, x))
                                    + (IF Reporting(stack, x) THEN 0 ELSE parser[self[x]].field)
               /\ Unreported(x)' = Texts(parser'[self'[x]].input) + Cardinality(Pieces(stack', x))
                                    + (IF Reporting(stack', x) THEN 0 ELSE parser'[self'[x]].field)
    BY <1>1, <1>2 DEF Unreported
  <1> QED  BY <1>3 DEF TextAccountedFor, InAccount, Agrees

\* A step that changes both sides alike, or is to blame.
LEMMA StillAgrees ==
    ASSUME NEW told \in Nat, NEW read \in Nat, NEW waiting \in Nat, NEW held \in Nat, NEW got \in Nat,
           NEW us, Agrees(told, read, waiting, held, got, us),
           NEW told2 \in Nat, NEW read2 \in Nat, NEW waiting2 \in Nat, NEW held2 \in Nat, NEW got2 \in Nat,
           NEW us2, us \subseteq us2,
           "lost" \notin us2 =>
              told + (read + waiting + held) + got2 =< told2 + (read2 + waiting2 + held2) + got,
           "repeated" \notin us2 =>
              told2 + (read2 + waiting2 + held2) + got =< told + (read + waiting + held) + got2
    PROVE  Agrees(told2, read2, waiting2, held2, got2, us2)
  BY DEF Agrees

\* Text that goes from the chunk to the field.
LEMMA MovesAlong ==
    ASSUME NEW told \in Nat, NEW read \in Nat, NEW waiting \in Nat, NEW held \in Nat, NEW got \in Nat,
           NEW read2 \in Nat, NEW held2 \in Nat, read2 + held2 = read + held,
           NEW us, Agrees(told, read, waiting, held, got, us)
    PROVE  Agrees(told, read2, waiting, held2, got, us)
  <1>1. read2 + waiting + held2 = read + waiting + held
    OBVIOUS
  <1> QED  BY <1>1 DEF Agrees

\* More blame asks for less.
LEMMA MoreBlame ==
    ASSUME NEW told, NEW read, NEW waiting, NEW held, NEW got, NEW us, NEW us2, us \subseteq us2,
           Agrees(told, read, waiting, held, got, us)
    PROVE  Agrees(told, read, waiting, held, got, us2)
  BY Zenon DEF Agrees

\* A chunk that takes the place of what was left of the last one.
LEMMA TakesOver ==
    ASSUME NEW told \in Nat, NEW read \in Nat, NEW waiting \in Nat, NEW held \in Nat, NEW got \in Nat,
           NEW read2 \in Nat, NEW waiting2 \in Nat, waiting2 + read2 = waiting,
           NEW us, "lost" \notin us => read = 0,
           Agrees(told, read, waiting, held, got, us)
    PROVE  Agrees(told, read2, waiting2, held, got, us)
  <1>1. /\ read2 + waiting2 + held =< read + waiting + held
        /\ read = 0 => read2 + waiting2 + held = read + waiting + held
    OBVIOUS
  <1>2. told + (read2 + waiting2 + held) =< told + (read + waiting + held)
    BY <1>1
  <1>3. ASSUME "lost" \notin us PROVE told + (read2 + waiting2 + held) >= got
    BY <1>1, <1>3 DEF Agrees
  <1>4. ASSUME "repeated" \notin us PROVE told + (read2 + waiting2 + held) =< got
    <2>1. told + (read + waiting + held) =< got
      BY <1>4 DEF Agrees
    <2> QED  BY <1>2, <2>1
  <1> QED  BY <1>3, <1>4 DEF Agrees

\* The parsers of two objects are different.
LEMMA ParsersDiffer ==
    ASSUME Inv, NEW x \in Xs, NEW y \in Xs, Live(x), self[x] = self[y]
    PROVE  x = y
  <1>1. self[x] \in Handle
    BY DEF Inv, Typed, Live
  <1>2. contexts[self[x]] = x /\ contexts[self[x]] = y
    BY <1>1 DEF Inv, RegistryIsLive
  <1> QED  BY <1>2

\* Everything that is counted is a number.
LEMMA NumbersOfText ==
    ASSUME Inv, TextTyped, NEW x \in Xs, Live(x)
    PROVE  /\ self[x] \in Handle /\ parser[self[x]] \in Parsers
           /\ parser[self[x]].input \in Seq(Bytes) /\ parser[self[x]].field \in Nat
           /\ reported[x] \in Nat /\ given[x] \in Nat
           /\ Texts(parser[self[x]].input) \in Nat
           /\ Cardinality(Pieces(stack, x)) \in Nat
           /\ (IF Reporting(stack, x) THEN 0 ELSE parser[self[x]].field) \in Nat
  <1>1. self[x] \in Handle /\ stack \in Seq(Frames)
    BY DEF Inv, Typed, Live
  <1>2. parser[self[x]] \in Parsers /\ reported[x] \in Nat /\ given[x] \in Nat
    BY <1>1 DEF TextTyped
  <1>3. parser[self[x]].input \in Seq(Bytes) /\ parser[self[x]].field \in Nat
    BY <1>2 DEF Parsers
  <1> QED  BY <1>1, <1>2, <1>3, TextsAreCounted, PiecesAreCounted

\* An object the step does not touch.
LEMMA SameAccount ==
    ASSUME NEW x \in Xs, InAccount(x), self'[x] = self[x],
           parser'[self[x]].input = parser[self[x]].input,
           parser'[self[x]].field = parser[self[x]].field,
           Cardinality(Pieces(stack', x)) = Cardinality(Pieces(stack, x)),
           Reporting(stack', x) <=> Reporting(stack, x),
           reported'[x] = reported[x], given'[x] = given[x], upset[x] \subseteq upset'[x]
    PROVE  InAccount(x)'
  <1>1. Agrees(reported[x], Texts(parser[self[x]].input), Cardinality(Pieces(stack, x)),
           IF Reporting(stack, x) THEN 0 ELSE parser[self[x]].field, given[x], upset'[x])
    BY Zenon DEF InAccount, Agrees
  <1>2. parser'[self'[x]].input = parser[self[x]].input /\ parser'[self'[x]].field = parser[self[x]].field
    OBVIOUS
  <1>3. (IF Reporting(stack', x) THEN 0 ELSE parser'[self'[x]].field)
           = IF Reporting(stack, x) THEN 0 ELSE parser[self[x]].field
    BY <1>2
  <1> QED  BY <1>1, <1>2, <1>3, Zenon DEF InAccount

\* One object's parser and calls change.
LEMMA OneAccount ==
    ASSUME Inv, TextInv, NEW x \in Xs, Live(x), UNCHANGED self,
           \A h \in Handle \ {self[x]} : parser'[h] = parser[h],
           \A y \in Xs \ {x} : /\ Cardinality(Pieces(stack', y)) = Cardinality(Pieces(stack, y))
                               /\ Reporting(stack', y) <=> Reporting(stack, y)
                               /\ reported'[y] = reported[y] /\ given'[y] = given[y]
                               /\ upset[y] \subseteq upset'[y],
           InAccount(x)'
    PROVE  TextAccountedFor'
  <1> SUFFICES ASSUME NEW y \in Xs, Live(y)' PROVE InAccount(y)'
    BY AccountsOfAll
  <1>1. CASE y = x
    BY <1>1 DEF InAccount
  <1>2. CASE y # x
    <2>1. Live(y) /\ InAccount(y)
      BY AccountsOfAll DEF TextInv, Live
    <2>2. self[y] # self[x] /\ self[y] \in Handle
      BY <1>2, <2>1, ParsersDiffer DEF Inv, Typed, Live
    <2>3. parser'[self[y]] = parser[self[y]]
      BY <2>2
    <2> QED  BY <1>2, <2>1, <2>3, SameAccount DEF TextInv
  <1> QED  BY <1>1, <1>2

\* A parser in another state.
LEMMA ParserChanged ==
    ASSUME TextTyped, NothingBegun, NEW h \in Handle, NEW p \in Parsers,
           parser' = [parser EXCEPT ![h] = p],
           p.state = "RECORD_NOT_BEGUN" => p.field = 0
    PROVE  /\ parser' \in [Handle -> Parsers] /\ NothingBegun'
           /\ parser'[h] = p /\ \A g \in Handle \ {h} : parser'[g] = parser[g]
  BY DEF TextTyped, NothingBegun

\* Blamed for everything, a program has no account.
LEMMA BlameIsEnough == ASSUME NEW x, upset'[x] = Both PROVE InAccount(x)'
  BY DEF InAccount, Agrees, Both

\* The call or callback on top of the stack, if its parser is alive.
LEMMA TopIsLive ==
    ASSUME Inv, TextInv, stack # <<>>, ~Top.dead
    PROVE  /\ stack \in Seq(Frames) /\ Len(stack) \in Nat \ {0} /\ Len(stack) \in 1 .. Len(stack)
           /\ Len(stack) - 1 \in 0 .. Len(stack)
           /\ Top = stack[Len(stack)] /\ Top \in Frames
           /\ Top.x \in Xs /\ Top.h \in Handle /\ self[Top.x] = Top.h /\ Live(Top.x)
           /\ parser[Top.h] \in Parsers /\ Top.chunk \in Seq(Bytes)
           /\ \A i \in 1 .. Len(stack) : stack[i] \in Frames /\ stack[i].h \in Handle /\ stack[i].x \in Xs
           /\ \A i \in 1 .. Len(stack) : ~stack[i].dead => (stack[i].h = Top.h <=> stack[i].x = Top.x)
  <1>1. /\ stack \in Seq(Frames) /\ Len(stack) \in Nat \ {0} /\ Len(stack) \in 1 .. Len(stack)
        /\ Len(stack) - 1 \in 0 .. Len(stack) /\ Top = stack[Len(stack)] /\ Top \in Frames
        /\ \A i \in 1 .. Len(stack) : stack[i] \in Frames
    BY DEF Inv, Typed, Top
  <1>2. \A i \in 1 .. Len(stack) : stack[i].h \in Handle /\ stack[i].x \in Xs
    BY <1>1 DEF Frames
  <1>3. Top.x \in Xs /\ Top.h \in Handle /\ self[Top.x] = Top.h /\ Live(Top.x)
    BY <1>1, <1>2, BindingAssumption DEF Inv, CallsAreLive, Live
  <1>4. parser[Top.h] \in Parsers
    BY <1>3 DEF TextInv, TextTyped
  <1>5. Top.chunk \in Seq(Bytes)
    BY <1>1, ChunkIsText
  <1>6. ASSUME NEW i \in 1 .. Len(stack), ~stack[i].dead
        PROVE  stack[i].h = Top.h <=> stack[i].x = Top.x
    <2>1. self[stack[i].x] = stack[i].h
      BY <1>6 DEF Inv, CallsAreLive
    <2> QED  BY <2>1, <1>2, <1>3, ParsersDiffer
  <1> QED  BY <1>1, <1>2, <1>3, <1>4, <1>5, <1>6

\* Below a call of its own the program has a call of the same parser only if it is to blame.
LEMMA CallOnTop ==
    ASSUME Inv, TextInv, stack # <<>>, ~Top.dead, Top.in \notin Kinds
    PROVE  /\ \A i \in 1 .. Len(stack) :
                 ~stack[i].dead /\ i # Len(stack) /\ stack[i].x = Top.x => upset[Top.x] = Both
           /\ Reporting(stack, Top.x) => upset[Top.x] = Both
           /\ FieldIsDone(Top) => upset[Top.x] = Both \/ parser[Top.h].field = 0
  <1>1. ASSUME NEW i \in 1 .. Len(stack), ~stack[i].dead, i # Len(stack), stack[i].x = Top.x
        PROVE  upset[Top.x] = Both
    <2>1. i < Len(stack) /\ Len(stack) \in 1 .. Len(stack) /\ Top = stack[Len(stack)]
      BY <1>1, TopIsLive
    <2> QED  BY <1>1, <2>1 DEF TextInv, InOrder, SeenReentry
  <1>2. ASSUME Reporting(stack, Top.x) PROVE upset[Top.x] = Both
    <2>1. PICK i \in 1 .. Len(stack) : stack[i].in = "field" /\ stack[i].x = Top.x /\ ~stack[i].dead
      BY <1>2 DEF Reporting
    <2>2. i # Len(stack)
      BY <2>1, TopIsLive DEF Kinds
    <2> QED  BY <1>1, <2>1, <2>2
  <1>3. ASSUME FieldIsDone(Top) PROVE upset[Top.x] = Both \/ parser[Top.h].field = 0
    BY <1>2, <1>3, TopIsLive DEF TextInv, InOrder, NothingBehind
  <1> QED  BY <1>1, <1>2, <1>3

\* What a call that goes on counts for does not change with what is due.
LEMMA CountedInCall ==
    ASSUME NEW st \in Seq(Frames), NEW n \in 1 .. Len(st), NEW frame \in Frames, NEW x,
           frame.in = st[n].in, frame.x = st[n].x, frame.dead = st[n].dead, frame.chunk = st[n].chunk
    PROVE  /\ Pieces([st EXCEPT ![n] = frame], x) = Pieces(st, x)
           /\ Reporting([st EXCEPT ![n] = frame], x) <=> Reporting(st, x)
  <1> DEFINE next == [st EXCEPT ![n] = frame]
  <1>1. /\ next \in Seq(Frames) /\ Len(next) = Len(st) /\ next[n] = frame
        /\ \A i \in 1 .. Len(st) : i # n => next[i] = st[i]
    OBVIOUS
  <1> HIDE DEF next
  <1>2. Pieces(next, x) = Pieces(st, x) /\ (Reporting(next, x) <=> Reporting(st, x))
    BY <1>1, CountedAlike
  <1> QED  BY <1>2 DEF next

\* A byte of text is in the field instead of the chunk, a separator is in neither.
LEMMA ReadByteText == Inv /\ TextInv /\ ReadByte => TextInv'
  <1> SUFFICES ASSUME Inv, TextInv, ReadByte PROVE TextInv'
    OBVIOUS
  <1>0. Top.in = "parse" /\ ~Top.dead /\ Top.due = {} /\ stack # <<>> /\ parser[Top.h].input # <<>>
    BY DEF ReadByte, InC, Top, Frame
  <1> PICK x \in Xs, h \in Handle : Top.x = x /\ Top.h = h
    BY <1>0, TopIsLive
  <1> DEFINE p == parser[h]
             n == Len(stack)
  <1>1. Top.in = "parse" /\ ~Top.dead /\ Top.due = {} /\ stack # <<>> /\ p.input # <<>>
    BY <1>0
  <1>2. UNCHANGED <<self, given, reported, upset>>
    BY DEF ReadByte, objects, history
  <1>3. /\ stack \in Seq(Frames) /\ n \in 1 .. n /\ Top = stack[n] /\ Top \in Frames
        /\ self[x] = h /\ Live(x) /\ p \in Parsers
        /\ \A i \in 1 .. Len(stack) : stack[i].h \in Handle
        /\ \A i \in 1 .. Len(stack) : ~stack[i].dead => (stack[i].h = h <=> stack[i].x = x)
    BY <1>1, TopIsLive
  <1>4. /\ Reporting(stack, x) => upset[x] = Both
        /\ \A i \in 1 .. n : ~stack[i].dead /\ i # n /\ stack[i].x = x => upset[x] = Both
    BY <1>1, CallOnTop DEF Kinds
  <1>5. /\ p.input \in Seq(Bytes) /\ p.field \in Nat /\ p.field + 1 \in Nat /\ p.stop \in BOOLEAN
        /\ Tail(p.input) \in Seq(Bytes)
        /\ Texts(p.input) \in Nat /\ Texts(Tail(p.input)) \in Nat
        /\ Head(p.input) = "t" => Texts(p.input) = Texts(Tail(p.input)) + 1
        /\ Head(p.input) # "t" => Texts(p.input) = Texts(Tail(p.input))
    <2>1. p.input \in Seq(Bytes) /\ p.field \in Nat /\ p.stop \in BOOLEAN
      BY <1>3 DEF Parsers
    <2>2. p.field + 1 \in Nat
      BY <2>1
    <2>3. /\ Tail(p.input) \in Seq(Bytes)
          /\ Head(p.input) = "t" => Texts(p.input) = Texts(Tail(p.input)) + 1
          /\ Head(p.input) # "t" => Texts(p.input) = Texts(Tail(p.input))
      BY <2>1, <1>1, TextsOfTail
    <2> QED  BY <2>1, <2>2, <2>3, TextsAreCounted
  <1>6. PICK q : /\ q \in Parsers /\ parser' = [parser EXCEPT ![h] = q]
                 /\ q.input = Tail(p.input)
                 /\ q.field = IF Head(p.input) = "t" THEN p.field + 1 ELSE p.field
                 /\ q.state = "RECORD_NOT_BEGUN" => q.field = 0
    <2>0. p.state = "RECORD_NOT_BEGUN" => p.field = 0
      BY <1>3 DEF TextInv, NothingBegun
    <2>1. CASE Head(p.input) = "t"
      <3> DEFINE q == [p EXCEPT !.input = Tail(p.input), !.field = @ + 1, !.state = "FIELD"]
      <3>1. /\ q \in Parsers /\ q.input = Tail(p.input) /\ q.field = p.field + 1 /\ q.state = "FIELD"
        BY <1>3, <1>5 DEF Parsers
      <3>2. parser' = [parser EXCEPT ![h] = q]
        <4>1. parser' = [parser EXCEPT ![h].input = Tail(p.input), ![h].field = @ + 1, ![h].state = "FIELD"]
          BY <2>1, <1>3 DEF ReadByte
        <4>2. DOMAIN parser = Handle /\ DOMAIN p = {"state", "field", "input", "stop"}
          BY <1>3 DEF TextInv, TextTyped, Parsers
        <4>3. \A g \in Handle : parser'[g] = [parser EXCEPT ![h] = q][g]
          BY <4>1, <4>2
        <4> QED  BY <4>1, <4>2, <4>3
      <3> QED  BY <2>1, <3>1, <3>2
    <2>2. CASE Head(p.input) # "t"
      <3> DEFINE q == [p EXCEPT !.input = Tail(p.input)]
      <3>1. /\ q \in Parsers /\ q.input = Tail(p.input) /\ q.field = p.field /\ q.state = p.state
        BY <1>3, <1>5 DEF Parsers
      <3>2. parser' = [parser EXCEPT ![h] = q]
        BY <2>2, <1>3 DEF ReadByte, TextInv, TextTyped
      <3> QED  BY <2>0, <2>2, <3>1, <3>2
    <2> QED  BY <2>1, <2>2
  <1>7. /\ parser' \in [Handle -> Parsers] /\ NothingBegun'
        /\ parser'[h] = q /\ \A g \in Handle \ {h} : parser'[g] = parser[g]
    BY <1>3, <1>6, ParserChanged DEF TextInv
  <1>8. PICK frame \in Frames : /\ stack' = [stack EXCEPT ![n] = frame]
                                /\ frame.in = Top.in /\ frame.x = x /\ frame.h = h
                                /\ frame.dead = Top.dead /\ frame.chunk = Top.chunk
                                /\ ~FieldIsDone(frame)
    <2>1. PICK due \in {{}, {"field"}, Kinds} : stack' = [stack EXCEPT ![n] = [Top EXCEPT !.due = due]]
      <3>1. CASE Head(p.input) = "t"
        <4>1. stack' = stack /\ [Top EXCEPT !.due = {}] = Top
          BY <3>1, <1>1, <1>3 DEF ReadByte, Frames
        <4> QED  BY <4>1, <1>3
      <3>2. CASE Head(p.input) # "t"
        BY <3>2, <1>3 DEF ReadByte
      <3> QED  BY <3>1, <3>2
    <2> DEFINE frame == [Top EXCEPT !.due = due]
    <2>2. /\ frame \in Frames /\ frame.in = Top.in /\ frame.x = x /\ frame.h = h
          /\ frame.dead = Top.dead /\ frame.chunk = Top.chunk /\ frame.due = due
      BY <1>3 DEF Frames, Kinds
    <2> HIDE DEF frame
    <2>3. ~FieldIsDone(frame)
      BY <1>1, <2>2 DEF FieldIsDone, Kinds
    <2> QED  BY <2>1, <2>2, <2>3 DEF frame
  <1>9. InOrder(stack, parser', upset)
    <2>1. ASSUME NEW i \in 1 .. Len(stack), ~stack[i].dead, FieldIsDone(stack[i])
          PROVE  upset[stack[i].x] = Both \/ parser'[stack[i].h].field = parser[stack[i].h].field
      <3>1. CASE stack[i].h # h
        BY <3>1, <1>3, <1>7
      <3>2. CASE stack[i].h = h
        <4>1. ~FieldIsDone(Top)
          BY <1>1 DEF FieldIsDone
        <4>2. i # n /\ stack[i].x = x
          BY <4>1, <2>1, <3>2, <1>3
        <4> QED  BY <4>2, <2>1, <1>4
      <3> QED  BY <3>1, <3>2
    <2> QED  BY <2>1, <1>3, OtherParsers DEF TextInv
  <1>10. InOrder(stack', parser', upset')
    BY <1>1, <1>2, <1>3, <1>8, <1>9, OrderInCall DEF Kinds
  <1>11. \A y : Pieces(stack', y) = Pieces(stack, y) /\ (Reporting(stack', y) <=> Reporting(stack, y))
    BY <1>3, <1>8, CountedInCall
  <1>12. InAccount(x)'
    <2>1. CASE upset[x] = Both
      BY <2>1, <1>2, BlameIsEnough
    <2>2. CASE upset[x] # Both
      <3>1. ~Reporting(stack, x)
        BY <2>2, <1>4
      <3>2. /\ InAccount(x) /\ reported[x] \in Nat /\ given[x] \in Nat /\ Cardinality(Pieces(stack, x)) \in Nat
        <4>1. InAccount(x)
          BY <1>3, AccountsOfAll DEF TextInv
        <4>2. reported[x] \in Nat /\ given[x] \in Nat /\ Cardinality(Pieces(stack, x)) \in Nat
          BY <1>3, NumbersOfText DEF TextInv
        <4> QED  BY <4>1, <4>2
      <3>3. Agrees(reported[x], Texts(p.input), Cardinality(Pieces(stack, x)), p.field, given[x], upset[x])
        BY <1>3, <3>1, <3>2 DEF InAccount
      <3>4. Texts(q.input) + q.field = Texts(p.input) + p.field /\ Texts(q.input) \in Nat /\ q.field \in Nat
        <4> HIDE DEF p
        <4>1. CASE Head(p.input) = "t"
          <5>1. /\ q.field = p.field + 1 /\ Texts(p.input) = Texts(q.input) + 1
                /\ Texts(q.input) \in Nat /\ p.field \in Nat
            BY <4>1, <1>5, <1>6
          <5> QED  BY <5>1
        <4>2. CASE Head(p.input) # "t"
          <5>1. /\ q.field = p.field /\ Texts(p.input) = Texts(q.input)
                /\ Texts(q.input) \in Nat /\ p.field \in Nat
            BY <4>2, <1>5, <1>6
          <5> QED  BY <5>1
        <4> QED  BY <4>1, <4>2
      <3>5. Agrees(reported[x], Texts(q.input), Cardinality(Pieces(stack, x)), q.field, given[x], upset[x])
        <4> DEFINE told == reported[x]
                   read == Texts(p.input)
                   read2 == Texts(q.input)
                   waiting == Cardinality(Pieces(stack, x))
                   held == p.field
                   held2 == q.field
                   got == given[x]
        <4>1. /\ told \in Nat /\ read \in Nat /\ read2 \in Nat /\ waiting \in Nat /\ held \in Nat
              /\ held2 \in Nat /\ got \in Nat /\ read2 + held2 = read + held
              /\ Agrees(told, read, waiting, held, got, upset[x])
          BY <1>5, <3>2, <3>3, <3>4
        <4> HIDE DEF told, read, read2, waiting, held, held2, got
        <4>2. Agrees(told, read2, waiting, held2, got, upset[x])
          BY <4>1, MovesAlong
        <4> QED  BY <4>2 DEF told, read2, waiting, held2, got
      <3> QED  BY <3>1, <3>5, <1>2, <1>3, <1>7, <1>11 DEF InAccount
    <2> QED  BY <2>1, <2>2
  <1>13. TextAccountedFor'
    BY <1>2, <1>3, <1>7, <1>11, <1>12, OneAccount
  <1>14. TextTyped'
    BY <1>2, <1>7 DEF TextInv, TextTyped
  <1> QED  BY <1>7, <1>10, <1>13, <1>14 DEF TextInv

\* The calls below the top one.
LEMMA BelowTop ==
    ASSUME Inv, TextInv, stack # <<>>
    PROVE  /\ Below \in Seq(Frames) /\ Top \in Frames /\ Append(Below, Top) = stack
           /\ \A frame \in Frames : [stack EXCEPT ![Len(stack)] = frame] = Append(Below, frame)
  <1> DEFINE n == Len(stack)
  <1>1. stack \in Seq(Frames) /\ n \in Nat \ {0} /\ Top = stack[n] /\ Top \in Frames
    BY DEF Inv, Typed, Top
  <1>2. n - 1 \in 0 .. n /\ n \in 1 .. n /\ Below = SubSeq(stack, 1, n - 1)
    BY <1>1 DEF Below
  <1>3. Below \in Seq(Frames) /\ Len(Below) = n - 1 /\ \A i \in 1 .. n - 1 : Below[i] = stack[i]
    <2>1. ASSUME NEW m \in 0 .. n
          PROVE  /\ SubSeq(stack, 1, m) \in Seq(Frames) /\ Len(SubSeq(stack, 1, m)) = m
                 /\ \A i \in 1 .. m : SubSeq(stack, 1, m)[i] = stack[i]
      BY <1>1
    <2> HIDE DEF n
    <2> QED  BY <1>2, <2>1
  <1>4. ASSUME NEW frame \in Frames PROVE [stack EXCEPT ![n] = frame] = Append(Below, frame)
    <2> DEFINE next == [stack EXCEPT ![n] = frame]
    <2>1. /\ next \in Seq(Frames) /\ Len(next) = n /\ next[n] = frame
          /\ \A i \in 1 .. n : i # n => next[i] = stack[i]
      BY <1>1
    <2>2. /\ Append(Below, frame) \in Seq(Frames) /\ Len(Append(Below, frame)) = n
          /\ Append(Below, frame)[n] = frame
          /\ \A i \in 1 .. n - 1 : Append(Below, frame)[i] = stack[i]
      BY <1>1, <1>3
    <2> HIDE DEF next
    <2>3. \A i \in 1 .. n : next[i] = Append(Below, frame)[i]
      BY <1>1, <2>1, <2>2
    <2>4. next = Append(Below, frame)
      BY <1>1, <2>1, <2>2, <2>3
    <2> QED  BY <2>4 DEF next
  <1>5. [stack EXCEPT ![n] = Top] = stack
    BY <1>1
  <1> QED  BY <1>1, <1>3, <1>4, <1>5

\* At the end of its first loop parse() takes over the chunk that waited; what it has not read
\* of the last one is lost.
LEMMA LeaveLoopText == Inv /\ TextInv /\ LeaveLoop /\ ~broken' => TextInv'
  <1> SUFFICES ASSUME Inv, TextInv, LeaveLoop, ~broken' PROVE TextInv'
    OBVIOUS
  <1>0. Top.in = "parse" /\ ~Top.dead /\ Top.due = {} /\ stack # <<>>
    BY DEF LeaveLoop, InC, Top, Frame
  <1> PICK x \in Xs, h \in Handle : Top.x = x /\ Top.h = h
    BY <1>0, TopIsLive
  <1> DEFINE p == parser[h]
             n == Len(stack)
  <1>1. UNCHANGED <<self, given, reported>>
    BY DEF LeaveLoop, objects
  <1>2. /\ stack \in Seq(Frames) /\ n \in 1 .. n /\ n \in Nat /\ n - 1 \in 0 .. n
        /\ Top = stack[n] /\ Top \in Frames
        /\ self[x] = h /\ Live(x) /\ p \in Parsers /\ Top.chunk \in Seq(Bytes)
    BY <1>0, TopIsLive
  <1>3. /\ p.input \in Seq(Bytes) /\ p.field \in Nat
    BY <1>2 DEF Parsers
  <1>4. CASE Top.chunk # <<>>
    <2> DEFINE q == [p EXCEPT !.input = Top.chunk]
               frame == [Top EXCEPT !.chunk = <<>>]
    <2>1. /\ q \in Parsers /\ q.input = Top.chunk /\ q.field = p.field /\ q.state = p.state
      BY <1>2 DEF Parsers
    <2>2. /\ frame \in Frames /\ frame.in = "parse" /\ frame.x = x /\ frame.h = h /\ ~frame.dead
          /\ frame.chunk = <<>> /\ frame.due = {}
      BY <1>0, <1>2 DEF Frames
    <2>3. parser' = [parser EXCEPT ![h] = q] /\ stack' = [stack EXCEPT ![n] = frame]
      BY <1>2, <1>4 DEF LeaveLoop, TextInv, TextTyped
    <2>4. upset' = [upset EXCEPT ![x] = IF p.input = <<>> THEN @ ELSE @ \cup {"lost"}]
      BY <1>4 DEF LeaveLoop
    <2> HIDE DEF q, frame
    <2>5. /\ parser' \in [Handle -> Parsers] /\ NothingBegun'
          /\ parser'[h] = q /\ \A g \in Handle \ {h} : parser'[g] = parser[g]
      <3>1. q.state = "RECORD_NOT_BEGUN" => q.field = 0
        BY <2>1 DEF TextInv, NothingBegun
      <3> QED  BY <2>1, <2>3, <3>1, ParserChanged DEF TextInv
    <2>6. /\ upset' \in [Xs -> SUBSET Both] /\ \A y \in Xs : upset[y] \subseteq upset'[y]
          /\ p.input # <<>> => "lost" \in upset'[x]
      BY <2>4 DEF TextInv, TextTyped, Both
    <2>7. TextTyped'
      BY <1>1, <2>5, <2>6 DEF TextInv, TextTyped
    <2>8. InOrder(stack', parser', upset')
      <3>1. \A i \in 1 .. n : stack[i].x \in Xs /\ stack[i].h \in Handle
        BY <1>0, TopIsLive
      <3>2. \A i \in 1 .. n : upset[stack[i].x] = Both => upset'[stack[i].x] = Both
        BY <2>6, <3>1 DEF Both
      <3>3. \A i \in 1 .. n : parser'[stack[i].h].field = parser[stack[i].h].field
        BY <2>1, <2>5, <3>1
      <3>4. InOrder(stack, parser', upset')
        BY <1>2, <3>2, <3>3, OtherParsers DEF TextInv
      <3>5. ~FieldIsDone(frame)
        BY <2>2 DEF FieldIsDone
      <3>6. /\ frame.in \notin Kinds /\ frame.in # "finish"
            /\ frame.in = stack[n].in /\ frame.x = stack[n].x /\ frame.h = stack[n].h
            /\ frame.dead = stack[n].dead
        BY <1>0, <1>2, <2>2 DEF Kinds, Frames
      <3> QED  BY <1>2, <2>2, <2>3, <3>4, <3>5, <3>6, OrderInCall
    <2>9. /\ Below \in Seq(Frames) /\ Append(Below, Top) = stack /\ stack' = Append(Below, frame)
      BY <1>0, <2>2, <2>3, BelowTop
    <2>10. /\ \A y : Cardinality(Pieces(stack, y))
                       = Cardinality(Pieces(Below, y)) + (IF x = y THEN Texts(Top.chunk) ELSE 0)
           /\ \A y : Cardinality(Pieces(stack', y)) = Cardinality(Pieces(Below, y))
           /\ \A y : Cardinality(Pieces(Below, y)) \in Nat
           /\ \A y : Reporting(stack', y) <=> Reporting(stack, y)
      <3>1. \A y : Cardinality(Pieces(Below, y)) \in Nat
        BY <2>9, PiecesAreCounted
      <3>2. \A y : Cardinality(Pieces(Append(Below, Top), y))
                     = Cardinality(Pieces(Below, y)) + (IF x = y THEN Texts(Top.chunk) ELSE 0)
        BY <1>0, <1>2, <2>9, PiecesOnTop
      <3>3. Texts(frame.chunk) = 0
        <4>1. frame.chunk \in Seq(Bytes)
          BY <2>2, ChunkIsText
        <4> QED  BY <4>1, <2>2, TextsAreCounted
      <3>4. \A y : Cardinality(Pieces(Append(Below, frame), y))
                     = Cardinality(Pieces(Below, y)) + (IF frame.x = y /\ ~frame.dead THEN Texts(frame.chunk) ELSE 0)
        BY <2>2, <2>9, PiecesOnTop
      <3>5. \A y : Cardinality(Pieces(Append(Below, frame), y)) = Cardinality(Pieces(Below, y))
        BY <3>1, <3>3, <3>4
      <3>6. \A y : /\ Reporting(Append(Below, frame), y) <=> Reporting(Below, y)
                   /\ Reporting(Append(Below, Top), y) <=> Reporting(Below, y)
        BY <1>0, <1>2, <2>2, <2>9, ReportingOnTop
      <3> QED  BY <2>9, <3>1, <3>2, <3>5, <3>6
    <2>11. InAccount(x)'
      <3> DEFINE told == reported[x]
                 read == Texts(p.input)
                 read2 == Texts(q.input)
                 waiting == Cardinality(Pieces(stack, x))
                 waiting2 == Cardinality(Pieces(Below, x))
                 held == IF Reporting(stack, x) THEN 0 ELSE p.field
                 got == given[x]
      <3>1. /\ told \in Nat /\ read \in Nat /\ waiting \in Nat /\ held \in Nat /\ got \in Nat
            /\ Agrees(told, read, waiting, held, got, upset[x])
        BY <1>2, AccountsOfAll, NumbersOfText DEF InAccount, TextInv
      <3>2. read2 \in Nat /\ waiting2 \in Nat /\ waiting = waiting2 + read2
        BY <1>2, <2>1, <2>10, TextsAreCounted
      <3>3. "lost" \notin upset'[x] => read = 0
        BY <2>6, <1>3, TextsAreCounted
      <3>4. upset[x] \subseteq upset'[x]
        BY <2>6
      <3> HIDE DEF told, read, read2, waiting, waiting2, held, got
      <3>5. Agrees(told, read2, waiting2, held, got, upset'[x])
        <4>1. Agrees(told, read, waiting, held, got, upset'[x])
          BY <3>1, <3>4, MoreBlame
        <4> QED  BY <4>1, <3>1, <3>2, <3>3, TakesOver
      <3>6. held = IF Reporting(stack', x) THEN 0 ELSE parser'[h].field
        BY <2>1, <2>5, <2>10 DEF held
      <3> QED  BY <1>1, <1>2, <2>5, <2>10, <3>5, <3>6 DEF InAccount, told, read2, waiting2, got
    <2>12. TextAccountedFor'
      <3>1. \A y \in Xs \ {x} : Cardinality(Pieces(stack', y)) = Cardinality(Pieces(stack, y))
        BY <2>10
      <3>2. \A y \in Xs \ {x} : upset[y] \subseteq upset'[y]
        BY <2>6
      <3> QED  BY <1>1, <1>2, <2>5, <2>10, <2>11, <3>1, <3>2, OneAccount
    <2> QED  BY <2>5, <2>7, <2>8, <2>12 DEF TextInv
  <1>5. CASE Top.chunk = <<>>
    <2>1. stack' = SubSeq(stack, 1, n - 1) /\ UNCHANGED <<parser, upset>>
      BY <1>5 DEF LeaveLoop, Below
    <2>2. \A i \in (n - 1) + 1 .. n : stack[i].chunk = <<>> /\ stack[i].in # "field"
      BY <1>0, <1>2, <1>5
    <2>3. InOrder(stack', parser', upset')
      BY <1>2, <2>1, <2>2, OrderOfSome, CallsOfOneParser DEF TextInv
    <2>4. \A y : /\ Cardinality(Pieces(stack', y)) = Cardinality(Pieces(stack, y))
                 /\ Reporting(stack', y) <=> Reporting(stack, y)
      BY <1>2, <2>1, <2>2, CountedOfSome
    <2>5. InAccount(x)'
      <3>1. InAccount(x)
        BY <1>2, AccountsOfAll DEF TextInv
      <3> QED  BY <1>1, <2>1, <2>4, <3>1, SameAccount
    <2>6. TextAccountedFor'
      BY <1>1, <1>2, <2>1, <2>4, <2>5, OneAccount
    <2>7. TextTyped' /\ NothingBegun'
      BY <1>1, <2>1 DEF TextInv, TextTyped, NothingBegun
    <2> QED  BY <2>3, <2>6, <2>7 DEF TextInv
  <1> QED  BY <1>4, <1>5

\* Parsers that are reset keep the calls in order.
LEMMA ResetsKeepOrder ==
    ASSUME Inv, TextInv, NEW later,
           \A i \in 1 .. Len(stack) :
              later[stack[i].h].field = 0 \/ later[stack[i].h].field = parser[stack[i].h].field
    PROVE  InOrder(stack, later, upset)
  BY OtherParsers DEF Inv, Typed, TextInv

\* The call below a callback changes, or the callback comes on top of a changed call.
LEMMA ChangeThenPush ==
    ASSUME NEW st \in Seq(Frames), NEW n \in 1 .. Len(st), NEW frame \in Frames, NEW top \in Frames
    PROVE  [Append(st, top) EXCEPT ![n] = frame] = Append([st EXCEPT ![n] = frame], top)
  <1> DEFINE changed == [st EXCEPT ![n] = frame]
             pushed == Append(st, top)
             one == [pushed EXCEPT ![n] = frame]
             two == Append(changed, top)
  <1>1. /\ Len(st) \in Nat /\ changed \in Seq(Frames) /\ Len(changed) = Len(st)
        /\ \A i \in 1 .. Len(st) : changed[i] = IF i = n THEN frame ELSE st[i]
    OBVIOUS
  <1>2. /\ pushed \in Seq(Frames) /\ Len(pushed) = Len(st) + 1 /\ pushed[Len(st) + 1] = top
        /\ \A i \in 1 .. Len(st) : pushed[i] = st[i]
    OBVIOUS
  <1> HIDE DEF changed, pushed
  <1>3. /\ one \in Seq(Frames) /\ Len(one) = Len(st) + 1
        /\ \A i \in 1 .. Len(st) + 1 : one[i] = IF i = n THEN frame ELSE pushed[i]
    BY <1>2
  <1>4. /\ two \in Seq(Frames) /\ Len(two) = Len(st) + 1 /\ two[Len(st) + 1] = top
        /\ \A i \in 1 .. Len(st) : two[i] = changed[i]
    BY <1>1
  <1> HIDE DEF one, two
  <1>5. ASSUME NEW i \in 1 .. Len(st) + 1 PROVE one[i] = two[i]
    <2>1. CASE i = Len(st) + 1
      BY <2>1, <1>2, <1>3, <1>4, <1>1
    <2>2. CASE i \in 1 .. Len(st)
      BY <2>2, <1>1, <1>2, <1>3, <1>4
    <2> QED  BY <2>1, <2>2, <1>1
  <1>6. one = two
    BY <1>3, <1>4, <1>5
  <1> QED  BY <1>6 DEF one, two, changed, pushed

\* A call that has reported its field, or the callback that reports it, ends with an empty field.
LEMMA LeaveTopText ==
    ASSUME Inv, TextInv, stack # <<>>, ~Top.dead, Top.chunk = <<>>, Top.in = "field" \/ FieldIsDone(Top),
           UNCHANGED <<self, given, reported, upset>>, stack' = Below,
           NEW q \in Parsers, parser' = [parser EXCEPT ![Top.h] = q],
           q.field = 0, q.input = parser[Top.h].input
    PROVE  TextInv'
  <1> PICK x \in Xs, h \in Handle : Top.x = x /\ Top.h = h
    BY TopIsLive
  <1> DEFINE n == Len(stack)
  <1>1. /\ stack \in Seq(Frames) /\ n \in 1 .. n /\ n \in Nat /\ n - 1 \in 0 .. n
        /\ Top = stack[n] /\ Top \in Frames
        /\ self[x] = h /\ Live(x) /\ parser[h] \in Parsers
        /\ \A i \in 1 .. n : stack[i].h \in Handle
        /\ \A i \in 1 .. n : ~stack[i].dead => (stack[i].h = h <=> stack[i].x = x)
        /\ stack' = SubSeq(stack, 1, n - 1)
    BY TopIsLive DEF Below
  <1>2. /\ parser' \in [Handle -> Parsers] /\ NothingBegun'
        /\ parser'[h] = q /\ \A g \in Handle \ {h} : parser'[g] = parser[g]
    BY ParserChanged DEF TextInv
  <1>3. InOrder(stack', parser', upset')
    <2>1. \A i \in 1 .. n : parser'[stack[i].h].field = 0 \/ parser'[stack[i].h].field = parser[stack[i].h].field
      BY <1>1, <1>2
    <2>2. InOrder(stack, parser', upset')
      <3>1. InOrder(stack, parser', upset)
        BY <2>1, ResetsKeepOrder
      <3> QED  BY <3>1
    <2>3. \A i \in (n - 1) + 1 .. n : parser'[stack[i].h].field = 0
      BY <1>1, <1>2
    <2> QED  BY <1>1, <2>2, <2>3, OrderOfSome, CallsOfOneParser
  <1>4. \A y : Cardinality(Pieces(stack', y)) = Cardinality(Pieces(stack, y))
    <2>1. \A i \in (n - 1) + 1 .. n : stack[i].chunk = <<>>
      BY <1>1
    <2> QED  BY <1>1, <2>1, CountedOfSome
  <1>5. \A y : y # x => (Reporting(stack', y) <=> Reporting(stack, y))
    <2>1. \A i \in (n - 1) + 1 .. n : stack[i].x = x
      BY <1>1
    <2> QED  BY <1>1, <2>1, CountedOfSome
  <1>6. upset[x] = Both \/ (IF Reporting(stack, x) THEN 0 ELSE parser[h].field) = 0
    <2>1. CASE Top.in = "field"
      BY <2>1, <1>1 DEF Reporting
    <2>2. CASE FieldIsDone(Top)
      BY <2>2, <1>1 DEF TextInv, InOrder, NothingBehind
    <2> QED  BY <2>1, <2>2
  <1>7. (IF Reporting(stack', x) THEN 0 ELSE parser'[h].field) = 0
    BY <1>2
  <1>8. InAccount(x)'
    <2>1. CASE upset[x] = Both
      BY <2>1, BlameIsEnough
    <2>2. CASE upset[x] # Both
      <3>1. Agrees(reported[x], Texts(q.input), Cardinality(Pieces(stack, x)), 0, given[x], upset[x])
        <4>1. InAccount(x)
          BY <1>1, AccountsOfAll DEF TextInv
        <4> QED  BY <4>1, <2>2, <1>1, <1>6 DEF InAccount
      <3> QED  BY <3>1, <1>1, <1>2, <1>4, <1>7 DEF InAccount
    <2> QED  BY <2>1, <2>2
  <1>9. TextAccountedFor'
    BY <1>1, <1>2, <1>4, <1>5, <1>8, OneAccount
  <1>10. TextTyped'
    BY <1>2 DEF TextInv, TextTyped
  <1> QED  BY <1>2, <1>3, <1>9, <1>10 DEF TextInv

\* A parser whose field has been reported or thrown away.
LEMMA ResetsAreParsers ==
    ASSUME NEW p \in Parsers, NEW k
    PROVE  /\ ResetState(p) \in Parsers /\ ResetState(p).field = 0 /\ ResetState(p).input = p.input
           /\ Reset(k, p) \in Parsers /\ Reset(k, p).field = 0 /\ Reset(k, p).input = p.input
  <1>1. ResetState(p) \in Parsers /\ ResetState(p).field = 0 /\ ResetState(p).input = p.input
    BY DEF ResetState, Parsers
  <1>2. [ResetState(p) EXCEPT !.state = "RECORD_NOT_BEGUN"] \in Parsers
        /\ [ResetState(p) EXCEPT !.state = "RECORD_NOT_BEGUN"].field = 0
        /\ [ResetState(p) EXCEPT !.state = "RECORD_NOT_BEGUN"].input = p.input
    BY <1>1 DEF Parsers
  <1> QED  BY <1>1, <1>2 DEF Reset

\* The end of finish() and of a callback.
LEMMA LeaveText == Inv /\ TextInv /\ (LeaveFinish \/ Return) => TextInv'
  <1> SUFFICES ASSUME Inv, TextInv, LeaveFinish \/ Return PROVE TextInv'
    OBVIOUS
  <1>1. UNCHANGED <<self, given, reported, upset>> /\ stack # <<>>
    BY DEF LeaveFinish, Return, InC, objects, history, Top, Frame, Kinds
  <1>2. CASE ~Top.dead
    <2>1. /\ Top = stack[Len(stack)] /\ Len(stack) \in 1 .. Len(stack) /\ parser[Top.h] \in Parsers
          /\ Top.h \in Handle
      BY <1>1, <1>2, TopIsLive
    <2>2. Top.chunk = <<>> /\ (Top.in = "field" \/ FieldIsDone(Top))
      BY <2>1 DEF LeaveFinish, Return, InC, TextInv, InOrder, OnItsCall, FieldIsDone, Kinds
    <2>3. PICK q \in Parsers : /\ q.field = 0 /\ q.input = parser[Top.h].input
                               /\ parser' = [parser EXCEPT ![Top.h] = q] /\ stack' = Below
      <3>1. CASE LeaveFinish
        <4>1. stack' = Below /\ parser' = [parser EXCEPT ![Top.h] = ResetState(parser[Top.h])]
          BY <3>1 DEF LeaveFinish
        <4> QED  BY <4>1, <2>1, ResetsAreParsers
      <3>2. CASE Return
        <4>1. stack' = Below /\ parser' = [parser EXCEPT ![Top.h] = Reset(Top.in, parser[Top.h])]
          BY <3>2, <1>2 DEF Return
        <4> QED  BY <4>1, <2>1, ResetsAreParsers
      <3> QED  BY <3>1, <3>2
    <2> QED  BY <1>1, <1>2, <2>2, <2>3, LeaveTopText
  <1>3. CASE Top.dead
    <2>1. UNCHANGED <<parser, stack>>
      BY <1>3 DEF LeaveFinish, Return, InC
    <2>2. /\ TextTyped' /\ NothingBegun' /\ InOrder(stack', parser', upset')
      BY <1>1, <2>1 DEF TextInv, TextTyped, NothingBegun
    <2>3. TextAccountedFor'
      <3> SUFFICES ASSUME NEW y \in Xs, Live(y)' PROVE InAccount(y)'
        BY AccountsOfAll
      <3>1. Live(y) /\ InAccount(y)
        BY <1>1, AccountsOfAll DEF TextInv, Live
      <3> QED  BY <1>1, <2>1, <3>1, SameAccount
    <2> QED  BY <2>2, <2>3 DEF TextInv
  <1> QED  BY <1>2, <1>3

\* What is due is reported, and the text of the field is not held any more.
LEMMA FireText == ASSUME NEW k \in Kinds PROVE Inv /\ TextInv /\ Fire(k) /\ ~broken' => TextInv'
  <1> SUFFICES ASSUME Inv, TextInv, Fire(k), ~broken' PROVE TextInv'
    OBVIOUS
  <1>0. /\ ~Top.dead /\ k \in Top.due /\ (k = "record" => "field" \notin Top.due)
        /\ stack # <<>> /\ UNCHANGED <<self, given, upset>>
    <2>1. stack # <<>>
      <3>1. CASE stack = <<>>
        <4>1. Top.due = {}
          BY <3>1 DEF Top, Frame
        <4> QED  BY <4>1 DEF Fire
      <3> QED  BY <3>1
    <2> QED  BY <2>1 DEF Fire, objects
  <1> PICK x \in Xs, h \in Handle : Top.x = x /\ Top.h = h
    BY <1>0, TopIsLive
  <1> DEFINE n == Len(stack)
             p == parser[h]
             frame == [Top EXCEPT !.due = @ \ {k}]
             fired == [stack EXCEPT ![n] = frame]
             told == IF k = "field" THEN p.field ELSE 0
  <1>1. /\ stack \in Seq(Frames) /\ n \in 1 .. n /\ n \in Nat
        /\ Top = stack[n] /\ Top \in Frames
        /\ self[x] = h /\ Live(x) /\ p \in Parsers
        /\ \A i \in 1 .. n : stack[i].h \in Handle
        /\ \A i \in 1 .. n : ~stack[i].dead => (stack[i].h = h <=> stack[i].x = x)
    BY <1>0, TopIsLive
  <1>2. /\ Top.in \notin Kinds /\ Top.in \in {"parse", "finish"}
        /\ Top.in = "finish" => Top.chunk = <<>>
    BY <1>0, <1>1 DEF TextInv, InOrder, OnItsCall, Frames, Kinds
  <1>3. /\ Reporting(stack, x) => upset[x] = Both
        /\ FieldIsDone(Top) => upset[x] = Both \/ p.field = 0
    BY <1>0, <1>2, CallOnTop
  <1>4. contexts[h] = x /\ x # None
    BY <1>1, BindingAssumption DEF Inv, RegistryIsLive
  <1>5. /\ frame \in Frames /\ frame.in = Top.in /\ frame.x = x /\ frame.h = h
        /\ frame.dead = Top.dead /\ frame.chunk = Top.chunk /\ frame.due = Top.due \ {k}
    BY <1>1 DEF Frames
  <1>6. reported' = [reported EXCEPT ![x] = @ + told]
    BY <1>4 DEF Fire
  <1>7. k = "record" => FieldIsDone(Top)
    BY <1>0, <1>2 DEF FieldIsDone
  <1>8. /\ \/ /\ stack' = fired /\ parser' = [parser EXCEPT ![h] = Reset(k, p)]
           \/ /\ stack' = Append(fired, Frame(k, h, x, <<>>)) /\ UNCHANGED parser
    <2>1. [stack EXCEPT ![Len(stack)].due = @ \ {k}] = fired
      BY <1>1
    <2> QED  BY <1>1, <1>4, <2>1 DEF Fire
  <1>9. /\ fired \in Seq(Frames) /\ Len(fired) = n
        /\ \A y : Pieces(fired, y) = Pieces(stack, y) /\ (Reporting(fired, y) <=> Reporting(stack, y))
    <2>1. fired \in Seq(Frames) /\ Len(fired) = n
      BY <1>1, <1>5
    <2>2. \A y : Pieces(fired, y) = Pieces(stack, y) /\ (Reporting(fired, y) <=> Reporting(stack, y))
      BY <1>1, <1>5, CountedInCall
    <2> QED  BY <2>1, <2>2
  <1>10. /\ p.input \in Seq(Bytes) /\ p.field \in Nat /\ told \in Nat
    BY <1>1 DEF Parsers
  <1>11. reported' \in [Xs -> Nat]
    BY <1>6, <1>10 DEF TextInv, TextTyped
  <1> HIDE DEF frame
  <1>12. /\ parser' \in [Handle -> Parsers] /\ NothingBegun' /\ InOrder(stack', parser', upset')
         /\ parser'[h].input = p.input /\ \A g \in Handle \ {h} : parser'[g] = parser[g]
         /\ \A y : Cardinality(Pieces(stack', y)) = Cardinality(Pieces(stack, y))
         /\ \A y : y # x => (Reporting(stack', y) <=> Reporting(stack, y))
         /\ (IF Reporting(stack', x) THEN 0 ELSE parser'[h].field)
              = IF k = "field" \/ Reporting(stack, x) \/ parser'[h].field = 0 THEN 0 ELSE p.field
    <2>1. CASE stack' = fired /\ parser' = [parser EXCEPT ![h] = Reset(k, p)]
      <3> DEFINE q == Reset(k, p)
      <3>1. q \in Parsers /\ q.field = 0 /\ q.input = p.input
        BY <1>1, ResetsAreParsers
      <3> HIDE DEF q
      <3>2. parser' = [parser EXCEPT ![h] = q]
        BY <2>1 DEF q
      <3>3. /\ parser' \in [Handle -> Parsers] /\ NothingBegun'
            /\ parser'[h] = q /\ \A g \in Handle \ {h} : parser'[g] = parser[g]
        BY <3>1, <3>2, ParserChanged DEF TextInv
      <3>4. \A i \in 1 .. n : parser'[stack[i].h].field = 0 \/ parser'[stack[i].h].field = parser[stack[i].h].field
        BY <1>1, <3>1, <3>3
      <3>5. InOrder(stack, parser', upset')
        BY <1>0, <1>1, <3>4, OtherParsers DEF TextInv
      <3>6. InOrder(stack', parser', upset')
        <4>1. parser'[frame.h].field = 0
          BY <1>5, <3>1, <3>3
        <4>2. InOrder(fired, parser', upset')
          BY <4>1, <1>1, <1>2, <1>5, <3>5, OrderInCall
        <4> QED  BY <4>2, <2>1
      <3> QED  BY <1>9, <2>1, <3>1, <3>3, <3>6
    <2>2. CASE stack' = Append(fired, Frame(k, h, x, <<>>)) /\ UNCHANGED parser
      <3> DEFINE top == Frame(k, h, x, <<>>)
      <3>1. /\ top \in Frames /\ top.in = k /\ top.x = x /\ top.h = h /\ ~top.dead
            /\ top.chunk = <<>> /\ top.due = {}
        BY DEF Frame, Frames, Kinds
      <3> HIDE DEF top
      <3>2. stack' = Append(fired, top) /\ Texts(top.chunk) = 0
        <4>1. top.chunk \in Seq(Bytes)
          BY <3>1, ChunkIsText
        <4> QED  BY <4>1, <2>2, <3>1, TextsAreCounted DEF top
      <3>3. FieldIsDone(top) => upset[x] = Both \/ p.field = 0
        BY <1>3, <1>7, <3>1 DEF FieldIsDone, Kinds
      <3>4. InOrder(Append(stack, top), parser, upset)
        BY <1>0, <1>1, <1>2, <3>1, <3>3, OrderOnTop DEF TextInv
      <3>5. /\ Append(stack, top) \in Seq(Frames) /\ Append(stack, top)[n] = Top
            /\ n \in 1 .. Len(Append(stack, top))
            /\ [Append(stack, top) EXCEPT ![n] = frame] = Append(fired, top)
        <4>1. /\ Append(stack, top) \in Seq(Frames) /\ Len(Append(stack, top)) = n + 1
              /\ Append(stack, top)[n] = Top /\ n \in 1 .. n + 1
          BY <1>1, <3>1
        <4>2. [Append(stack, top) EXCEPT ![n] = frame] = Append(fired, top)
          BY <1>1, <1>5, <3>1, ChangeThenPush
        <4> QED  BY <4>1, <4>2
      <3>6. FieldIsDone(frame) /\ ~FieldIsDone(Top) => Reporting(Append(stack, top), x)
        <4>1. FieldIsDone(frame) /\ ~FieldIsDone(Top) => k = "field"
          BY <1>7 DEF Kinds
        <4> QED  BY <4>1, <1>1, <3>1, ReportingOnTop
      <3>7. InOrder([Append(stack, top) EXCEPT ![n] = frame], parser, upset)
        BY <1>1, <1>2, <1>5, <3>4, <3>5, <3>6, OrderInCall
      <3>8. InOrder(stack', parser', upset')
        BY <1>0, <2>2, <3>2, <3>5, <3>7
      <3>9. \A y : Cardinality(Pieces(stack', y)) = Cardinality(Pieces(stack, y))
        <4>1. \A y : Cardinality(Pieces(stack', y))
                       = Cardinality(Pieces(fired, y)) + (IF top.x = y /\ ~top.dead THEN Texts(top.chunk) ELSE 0)
          BY <1>9, <3>1, <3>2, PiecesOnTop
        <4>2. \A y : Cardinality(Pieces(stack, y)) \in Nat
          BY <1>1, PiecesAreCounted
        <4>3. \A y : Cardinality(Pieces(stack', y)) = Cardinality(Pieces(stack, y)) + 0
          BY <4>1, <1>9, <3>2
        <4> QED  BY <4>2, <4>3
      <3>10. \A y : Reporting(stack', y) <=> Reporting(stack, y) \/ (k = "field" /\ y = x)
        BY <1>9, <3>1, <3>2, ReportingOnTop
      <3>11. parser' \in [Handle -> Parsers] /\ NothingBegun'
        BY <2>2 DEF TextInv, TextTyped, NothingBegun
      <3> QED  BY <2>2, <3>8, <3>9, <3>10, <3>11
    <2> HIDE DEF fired
    <2> QED  BY <2>1, <2>2, <1>8
  <1>13. InAccount(x)'
    <2>1. CASE upset[x] = Both
      BY <2>1, <1>0, BlameIsEnough
    <2>2. CASE upset[x] # Both
      <3> DEFINE before == reported[x]
                 read == Texts(p.input)
                 waiting == Cardinality(Pieces(stack, x))
                 held == p.field
                 held2 == IF Reporting(stack', x) THEN 0 ELSE parser'[h].field
                 got == given[x]
      <3>1. /\ before \in Nat /\ read \in Nat /\ waiting \in Nat /\ held \in Nat /\ got \in Nat
            /\ Agrees(before, read, waiting, held, got, upset[x])
        <4>1. /\ before \in Nat /\ read \in Nat /\ waiting \in Nat /\ got \in Nat /\ InAccount(x)
          BY <1>1, AccountsOfAll, NumbersOfText DEF TextInv
        <4> QED  BY <4>1, <2>2, <1>1, <1>3, <1>10 DEF InAccount
      <3>2. before + told + held2 = before + held /\ held2 \in Nat
        <4>1. CASE k = "field"
          BY <4>1, <1>10, <1>12, <3>1
        <4>2. CASE k = "record"
          <5>1. p.field = 0
            BY <4>2, <2>2, <1>3, <1>7
          <5>2. told = 0 /\ held2 = 0
            BY <4>2, <5>1, <1>12
          <5> QED  BY <5>1, <5>2, <3>1
        <4> QED  BY <4>1, <4>2 DEF Kinds
      <3>3. reported'[x] = before + told
        BY <1>6 DEF TextInv, TextTyped
      <3> HIDE DEF before, read, waiting, held, held2, got, told
      <3>4. Agrees(before + told, read, waiting, held2, got, upset[x])
        <4>0. told \in Nat /\ before \in Nat /\ read \in Nat /\ waiting \in Nat /\ held \in Nat /\ held2 \in Nat
          BY <3>1, <3>2, <1>10
        <4>1. (before + told) + (read + waiting + held2) = before + (read + waiting + held)
          BY <3>2, <4>0
        <4> QED  BY <3>1, <4>1 DEF Agrees
      <3> HIDE DEF p
      <3>5. Agrees(reported'[x], Texts(parser'[h].input), Cardinality(Pieces(stack', x)),
                   IF Reporting(stack', x) THEN 0 ELSE parser'[h].field, given'[x], upset'[x])
        BY <3>3, <3>4, <1>0, <1>12 DEF read, waiting, held2, got
      <3> QED  BY <3>5, <1>0, <1>1 DEF InAccount
    <2> QED  BY <2>1, <2>2
  <1>14. TextAccountedFor'
    <2>1. \A y \in Xs \ {x} : reported'[y] = reported[y]
      BY <1>6 DEF TextInv, TextTyped
    <2> QED  BY <2>1, <1>0, <1>1, <1>12, <1>13, OneAccount
  <1>15. TextTyped'
    BY <1>0, <1>11, <1>12 DEF TextInv, TextTyped
  <1> QED  BY <1>12, <1>14, <1>15 DEF TextInv

\* The calls on the stack are calls of parsers for objects.
LEMMA CallsOfParsers ==
    ASSUME Inv
    PROVE  /\ stack \in Seq(Frames)
           /\ \A i \in 1 .. Len(stack) : stack[i] \in Frames /\ stack[i].x \in Xs /\ stack[i].h \in Handle
  <1>1. stack \in Seq(Frames) /\ \A i \in 1 .. Len(stack) : stack[i] \in Frames
    BY DEF Inv, Typed
  <1>2. \A frame \in Frames : frame.x \in Xs /\ frame.h \in Handle
    BY DEF Frames
  <1> QED  BY <1>1, <1>2

\* A parser is told to stop, or nothing happens that the text depends on.
LEMMA QuietText ==
    ASSUME Inv, TextInv, UNCHANGED <<self, stack, history>>,
           NEW h, UNCHANGED parser \/ parser' = [parser EXCEPT ![h].stop = TRUE]
    PROVE  TextInv'
  <1>1. /\ parser' \in [Handle -> Parsers]
        /\ \A g \in Handle : /\ parser'[g].state = parser[g].state /\ parser'[g].field = parser[g].field
                             /\ parser'[g].input = parser[g].input
    <2>1. parser \in [Handle -> Parsers]
      BY DEF TextInv, TextTyped
    <2>2. CASE UNCHANGED parser
      BY <2>1, <2>2
    <2>3. CASE parser' = [parser EXCEPT ![h].stop = TRUE]
      <3>1. \A p \in Parsers : /\ [p EXCEPT !.stop = TRUE] \in Parsers
                               /\ [p EXCEPT !.stop = TRUE].state = p.state
                               /\ [p EXCEPT !.stop = TRUE].field = p.field
                               /\ [p EXCEPT !.stop = TRUE].input = p.input
        BY DEF Parsers
      <3>2. \A g \in Handle : parser'[g] = IF g = h THEN [parser[g] EXCEPT !.stop = TRUE] ELSE parser[g]
        BY <2>1, <2>3
      <3>3. parser' = [g \in Handle |-> parser'[g]]
        BY <2>1, <2>3
      <3>4. ASSUME NEW g \in Handle
            PROVE  /\ parser'[g] \in Parsers
                   /\ parser'[g].state = parser[g].state /\ parser'[g].field = parser[g].field
                   /\ parser'[g].input = parser[g].input
        <4>1. parser[g] \in Parsers /\ parser'[g] \in {parser[g], [parser[g] EXCEPT !.stop = TRUE]}
          BY <2>1, <3>2
        <4> QED  BY <3>1, <4>1
      <3> QED  BY <3>3, <3>4
    <2> QED  BY <2>2, <2>3
  <1>2. TextTyped' /\ NothingBegun'
    BY <1>1 DEF TextInv, TextTyped, NothingBegun, history
  <1>3. InOrder(stack', parser', upset')
    <2>1. \A i \in 1 .. Len(stack) : parser'[stack[i].h].field = parser[stack[i].h].field
      BY <1>1, CallsOfParsers
    <2>2. InOrder(stack, parser', upset)
      BY <2>1, ResetsKeepOrder
    <2> QED  BY <2>2 DEF history
  <1>4. TextAccountedFor'
    <2> SUFFICES ASSUME NEW y \in Xs, Live(y)' PROVE InAccount(y)'
      BY AccountsOfAll
    <2>1. Live(y) /\ InAccount(y)
      BY AccountsOfAll DEF TextInv, Live
    <2>2. self[y] \in Handle
      BY <2>1 DEF Inv, Typed, Live
    <2> QED  BY <1>1, <2>1, <2>2, SameAccount DEF history
  <1> QED  BY <1>2, <1>3, <1>4 DEF TextInv

\* reset_state() throws the text of a field away; the program is to blame if there was any.
LEMMA ClearStateText == Inv /\ TextInv /\ ClearState => TextInv'
  <1> SUFFICES ASSUME Inv, TextInv, ClearState PROVE TextInv'
    OBVIOUS
  <1>1. UNCHANGED <<self, stack, given, reported>>
    BY DEF ClearState, objects
  <1>2. PICK x \in Xs : /\ Live(x) /\ parser' = [parser EXCEPT ![self[x]] = ResetState(parser[self[x]])]
                        /\ upset' = [upset EXCEPT ![x] = @ \cup IF HeldText(x) = 0 THEN {} ELSE {"lost"}]
    BY DEF ClearState
  <1> DEFINE h == self[x]
             q == ResetState(parser[h])
  <1>3. h \in Handle /\ parser[h] \in Parsers /\ parser[h].field \in Nat
    BY <1>2, NumbersOfText DEF TextInv
  <1>4. q \in Parsers /\ q.field = 0 /\ q.input = parser[h].input
    BY <1>3, ResetsAreParsers
  <1>5. parser' = [parser EXCEPT ![h] = q]
    BY <1>2
  <1> HIDE DEF q
  <1>6. /\ parser' \in [Handle -> Parsers] /\ NothingBegun'
        /\ parser'[h] = q /\ \A g \in Handle \ {h} : parser'[g] = parser[g]
    BY <1>3, <1>4, <1>5, ParserChanged DEF TextInv
  <1>7. /\ upset' \in [Xs -> SUBSET Both] /\ \A y \in Xs : upset[y] \subseteq upset'[y]
        /\ upset[x] \subseteq upset'[x] /\ (HeldText(x) # 0 => "lost" \in upset'[x])
    BY <1>2 DEF TextInv, TextTyped, Both
  <1>8. InOrder(stack', parser', upset')
    <2>1. \A i \in 1 .. Len(stack) : stack[i].x \in Xs /\ stack[i].h \in Handle
      BY CallsOfParsers
    <2>2. \A i \in 1 .. Len(stack) : upset[stack[i].x] = Both => upset'[stack[i].x] = Both
      BY <1>7, <2>1 DEF Both
    <2>3. \A i \in 1 .. Len(stack) : \/ parser'[stack[i].h].field = 0
                                     \/ parser'[stack[i].h].field = parser[stack[i].h].field
      BY <1>4, <1>6, <2>1
    <2>4. stack \in Seq(Frames) /\ InOrder(stack, parser, upset)
      BY DEF Inv, Typed, TextInv
    <2>5. InOrder(stack, parser', upset')
      BY <2>2, <2>3, <2>4, OtherParsers
    <2> QED  BY <1>1, <2>5
  <1>9. InAccount(x)'
    <2> DEFINE told == reported[x]
               read == Texts(parser[h].input)
               waiting == Cardinality(Pieces(stack, x))
               held == IF Reporting(stack, x) THEN 0 ELSE parser[h].field
               got == given[x]
    <2>1. /\ told \in Nat /\ read \in Nat /\ waiting \in Nat /\ held \in Nat /\ got \in Nat
          /\ Agrees(told, read, waiting, held, got, upset[x])
      BY <1>2, AccountsOfAll, NumbersOfText DEF InAccount, TextInv
    <2>2. "lost" \notin upset'[x] => held = 0
      BY <1>7 DEF HeldText, Reporting
    <2>3. Agrees(told, read, waiting, 0, got, upset'[x])
      <3> HIDE DEF told, read, waiting, held, got
      <3>1. Agrees(told, read, waiting, held, got, upset'[x])
        BY <1>7, <2>1, MoreBlame
      <3>2. read + waiting + 0 =< read + waiting + held
        BY <2>1
      <3>3. told + (read + waiting + 0) =< told + (read + waiting + held)
        BY <2>1
      <3> QED  BY <2>1, <2>2, <3>1, <3>3 DEF Agrees
    <2> HIDE DEF told, read, waiting, held, got
    <2>4. told = reported'[x] /\ read = Texts(parser'[h].input) /\ waiting = Cardinality(Pieces(stack', x))
          /\ got = given'[x] /\ (IF Reporting(stack', x) THEN 0 ELSE parser'[h].field) = 0 /\ self'[x] = h
      BY <1>1, <1>4, <1>6 DEF told, read, waiting, got
    <2> QED  BY <2>3, <2>4 DEF InAccount
  <1>10. TextAccountedFor'
    BY <1>1, <1>2, <1>6, <1>7, <1>9, OneAccount
  <1>11. TextTyped'
    BY <1>1, <1>6, <1>7 DEF TextInv, TextTyped
  <1> QED  BY <1>6, <1>8, <1>10, <1>11 DEF TextInv

\* A new object has no text yet, and no call of the object that was there is left alive.
LEMMA NewText == Inv /\ TextInv /\ New => TextInv'
  <1> SUFFICES ASSUME Inv, TextInv, New PROVE TextInv'
    OBVIOUS
  <1>1. UNCHANGED stack
    BY DEF New
  <1>2. PICK x \in Xs, h \in Handle :
           /\ ~Live(x) /\ \A y \in Xs : self[y] # h
           /\ self' = [self EXCEPT ![x] = h]
           /\ parser' = [parser EXCEPT ![h] = NewParser]
           /\ given' = [given EXCEPT ![x] = 0]
           /\ reported' = [reported EXCEPT ![x] = 0]
           /\ upset' = [upset EXCEPT ![x] = {}]
    BY DEF New
  <1>3. NewParser \in Parsers /\ NewParser.field = 0 /\ NewParser.input = <<>>
    BY DEF NewParser, Parsers
  <1>4. /\ parser' \in [Handle -> Parsers] /\ NothingBegun'
        /\ parser'[h] = NewParser /\ \A g \in Handle \ {h} : parser'[g] = parser[g]
    BY <1>2, <1>3, ParserChanged DEF TextInv
  <1>5. /\ stack \in Seq(Frames) /\ InOrder(stack, parser, upset)
        /\ \A i \in 1 .. Len(stack) : stack[i].x \in Xs /\ stack[i].h \in Handle
        /\ \A i \in 1 .. Len(stack) : ~stack[i].dead => stack[i].x # x /\ stack[i].h # h
    <2>1. \A i \in 1 .. Len(stack) : stack[i].x \in Xs /\ stack[i].h \in Handle
      BY CallsOfParsers
    <2>2. ASSUME NEW i \in 1 .. Len(stack), ~stack[i].dead
          PROVE  stack[i].x # x /\ stack[i].h # h
      <3>1. self[stack[i].x] = stack[i].h /\ stack[i].h # None
        BY <2>1, <2>2, BindingAssumption DEF Inv, CallsAreLive
      <3> QED  BY <1>2, <2>1, <3>1 DEF Live
    <2> QED  BY <2>1, <2>2 DEF Inv, Typed, TextInv
  <1>6. TextTyped'
    BY <1>2, <1>4 DEF TextInv, TextTyped
  <1>7. InOrder(stack', parser', upset')
    <2>1. \A y \in Xs : y # x => upset'[y] = upset[y]
      BY <1>2 DEF TextInv, TextTyped
    <2>2. SeenReentry(stack, upset')
      BY <1>5, <2>1 DEF InOrder, SeenReentry
    <2>3. NothingBehind(stack, parser', upset')
      BY <1>4, <1>5, <2>1 DEF InOrder, NothingBehind
    <2> QED  BY <1>1, <1>5, <2>2, <2>3 DEF InOrder
  <1>8. InAccount(x)'
    <2>1. Pieces(stack, x) = {}
      BY <1>5 DEF Pieces
    <2>2. Cardinality(Pieces(stack', x)) = 0
      BY <1>1, <2>1, FS_EmptySet
    <2>3. Texts(NewParser.input) = 0
      <3>1. NewParser.input \in Seq(Bytes)
        BY <1>3 DEF Parsers
      <3> QED  BY <3>1, <1>3, TextsAreCounted
    <2>4. self'[x] = h /\ reported'[x] = 0 /\ given'[x] = 0
      BY <1>2 DEF Inv, Typed, TextInv, TextTyped
    <2>5. Agrees(0, 0, 0, 0, 0, upset'[x])
      BY DEF Agrees
    <2> QED  BY <1>3, <1>4, <2>2, <2>3, <2>4, <2>5 DEF InAccount
  <1>9. TextAccountedFor'
    <2> SUFFICES ASSUME NEW y \in Xs, Live(y)' PROVE InAccount(y)'
      BY AccountsOfAll
    <2>1. CASE y = x
      BY <2>1, <1>8 DEF InAccount
    <2>2. CASE y # x
      <3>1. self'[y] = self[y] /\ reported'[y] = reported[y] /\ given'[y] = given[y] /\ upset'[y] = upset[y]
        BY <1>2, <2>2 DEF Inv, Typed, TextInv, TextTyped
      <3>2. Live(y) /\ InAccount(y) /\ self[y] # h /\ self[y] \in Handle
        BY <1>2, <3>1, AccountsOfAll DEF TextInv, Live, Inv, Typed
      <3>3. parser'[self[y]] = parser[self[y]]
        BY <1>4, <3>2
      <3> QED  BY <1>1, <3>1, <3>2, <3>3, SameAccount
    <2> QED  BY <2>1, <2>2
  <1> QED  BY <1>4, <1>6, <1>7, <1>9 DEF TextInv

\* A call of x with more text comes on top and leaves its parser as q.
OneMoreCall(x, q, frame, more) ==
    /\ Live(x) /\ UNCHANGED <<self, reported>>
    /\ parser' = [parser EXCEPT ![self[x]] = q]
    /\ q.state = parser[self[x]].state /\ q.field = parser[self[x]].field
    /\ stack' = Append(stack, frame)
    /\ frame.x = x /\ frame.h = self[x] /\ ~frame.dead /\ frame.in \notin Kinds
    /\ frame.in = "finish" => frame.chunk = <<>>
    /\ FieldIsDone(frame) => q.field = 0
    /\ given' = [given EXCEPT ![x] = @ + more]
    /\ Texts(q.input) + Texts(frame.chunk) = Texts(parser[self[x]].input) + more
    /\ upset' = [upset EXCEPT ![x] = @ \cup Reenters(x)]

\* Text that is given goes to the parser or waits.
LEMMA GivenMore ==
    ASSUME NEW told \in Nat, NEW read \in Nat, NEW waiting \in Nat, NEW held \in Nat, NEW got \in Nat,
           NEW us, NEW us2, us \subseteq us2, Agrees(told, read, waiting, held, got, us),
           NEW read2 \in Nat, NEW chunk \in Nat, NEW more \in Nat, read2 + chunk = read + more
    PROVE  Agrees(told, read2, waiting + chunk, held, got + more, us2)
  <1>1. told + (read2 + (waiting + chunk) + held) = told + (read + waiting + held) + more
    OBVIOUS
  <1>2. Agrees(told, read, waiting, held, got, us2)
    BY MoreBlame
  <1>3. told + (read + waiting + held) \in Nat
    OBVIOUS
  <1> QED  BY <1>1, <1>2, <1>3 DEF Agrees

\* Parsers that are reset and programs with more to be blamed for keep the calls in order.
LEMMA BlameKeepsOrder ==
    ASSUME Inv, TextInv, NEW later, NEW blame, \A x \in Xs : upset[x] = Both => blame[x] = Both,
           \A i \in 1 .. Len(stack) :
              later[stack[i].h].field = 0 \/ later[stack[i].h].field = parser[stack[i].h].field
    PROVE  InOrder(stack, later, blame)
  <1>1. \A i \in 1 .. Len(stack) : upset[stack[i].x] = Both => blame[stack[i].x] = Both
    BY CallsOfParsers
  <1> QED  BY <1>1, CallsOfParsers, OtherParsers DEF TextInv

\* A call comes on top: what it is given is in the parser or waits in the call.
LEMMA OneMoreCallText ==
    ASSUME Inv, TextInv, NEW x \in Xs, NEW q \in Parsers, NEW frame \in Frames, NEW more \in Nat,
           OneMoreCall(x, q, frame, more)
    PROVE  TextInv'
  <1> USE DEF OneMoreCall
  <1> DEFINE h == self[x]
  <1>1. /\ h \in Handle /\ parser[h] \in Parsers /\ q.field \in Nat /\ q.input \in Seq(Bytes)
        /\ frame.chunk \in Seq(Bytes) /\ Texts(q.input) \in Nat /\ Texts(frame.chunk) \in Nat
    <2>1. h \in Handle /\ parser[h] \in Parsers /\ q.field \in Nat /\ q.input \in Seq(Bytes)
      BY NumbersOfText DEF TextInv, Parsers
    <2>2. frame.chunk \in Seq(Bytes)
      BY ChunkIsText
    <2> QED  BY <2>1, <2>2, TextsAreCounted
  <1>2. q.state = "RECORD_NOT_BEGUN" => q.field = 0
    BY <1>1 DEF TextInv, NothingBegun
  <1>3. /\ parser' \in [Handle -> Parsers] /\ NothingBegun'
        /\ parser'[h] = q /\ \A g \in Handle \ {h} : parser'[g] = parser[g]
    BY <1>1, <1>2, ParserChanged DEF TextInv
  <1>4. /\ upset' \in [Xs -> SUBSET Both] /\ \A y \in Xs : upset[y] \subseteq upset'[y]
        /\ upset[x] \subseteq upset'[x] /\ (Active(h) => upset'[x] = Both)
    <2>1. Reenters(x) \in SUBSET Both /\ (Active(h) => Reenters(x) = Both)
      BY DEF Reenters, Both
    <2> HIDE DEF h
    <2>2. upset'[x] = upset[x] \cup Reenters(x) /\ upset[x] \in SUBSET Both
      BY DEF TextInv, TextTyped
    <2>3. \A y \in Xs : y # x => upset'[y] = upset[y]
      BY DEF TextInv, TextTyped
    <2>4. upset' \in [Xs -> SUBSET Both]
      BY <2>1 DEF TextInv, TextTyped
    <2> QED  BY <2>1, <2>2, <2>3, <2>4
  <1>5. \A i \in 1 .. Len(stack) : stack[i].x = x /\ ~stack[i].dead => upset'[x] = Both
    <2> SUFFICES ASSUME NEW i \in 1 .. Len(stack), stack[i].x = x, ~stack[i].dead PROVE upset'[x] = Both
      OBVIOUS
    <2>1. stack[i].h = h
      BY DEF Inv, CallsAreLive
    <2>2. Active(h)
      BY <2>1 DEF Active
    <2> QED  BY <2>2, <1>4
  <1>6. InOrder(stack', parser', upset')
    <2>1. \A y \in Xs : upset[y] = Both => upset'[y] = Both
      BY <1>4 DEF Both
    <2>2. \A i \in 1 .. Len(stack) : parser'[stack[i].h].field = parser[stack[i].h].field
      BY <1>3, CallsOfParsers
    <2>3. stack \in Seq(Frames) /\ InOrder(stack, parser, upset)
      BY CallsOfParsers DEF TextInv
    <2>4. InOrder(stack, parser', upset')
      <3> HIDE DEF OneMoreCall
      <3> QED  BY <2>1, <2>2, BlameKeepsOrder
    <2>5. FieldIsDone(frame) => parser'[frame.h].field = 0
      BY <1>3
    <2>6. InOrder(Append(stack, frame), parser', upset')
      BY <1>5, <2>3, <2>4, <2>5, OrderOnTop
    <2> QED  BY <2>6
  <1>7. /\ \A y : Cardinality(Pieces(stack', y))
                    = Cardinality(Pieces(stack, y)) + (IF x = y THEN Texts(frame.chunk) ELSE 0)
        /\ \A y : Cardinality(Pieces(stack, y)) \in Nat
        /\ \A y : Reporting(stack', y) <=> Reporting(stack, y)
    <2>1. stack \in Seq(Frames)
      BY CallsOfParsers
    <2>2. \A y : Cardinality(Pieces(Append(stack, frame), y))
                   = Cardinality(Pieces(stack, y)) + (IF x = y THEN Texts(frame.chunk) ELSE 0)
      BY <2>1, PiecesOnTop
    <2>3. \A y : Cardinality(Pieces(stack, y)) \in Nat
      BY <2>1, PiecesAreCounted
    <2>4. \A y : Reporting(Append(stack, frame), y) <=> Reporting(stack, y)
      BY <2>1, ReportingOnTop DEF Kinds
    <2> QED  BY <2>2, <2>3, <2>4
  <1>8. InAccount(x)'
    <2> DEFINE told == reported[x]
               read == Texts(parser[h].input)
               read2 == Texts(q.input)
               waiting == Cardinality(Pieces(stack, x))
               waiting2 == Cardinality(Pieces(stack', x))
               held == IF Reporting(stack, x) THEN 0 ELSE parser[h].field
               got == given[x]
               got2 == given'[x]
    <2>1. /\ told \in Nat /\ read \in Nat /\ waiting \in Nat /\ held \in Nat /\ got \in Nat
          /\ Agrees(told, read, waiting, held, got, upset[x])
      BY AccountsOfAll, NumbersOfText DEF InAccount, TextInv
    <2>2. got2 = got + more
      BY DEF TextInv, TextTyped
    <2>3. read2 \in Nat /\ waiting2 = waiting + Texts(frame.chunk) /\ read2 + Texts(frame.chunk) = read + more
      BY <1>1, <1>7
    <2>4. held = IF Reporting(stack', x) THEN 0 ELSE parser'[h].field
      BY <1>3, <1>7
    <2> HIDE DEF told, read, read2, waiting, waiting2, held, got, got2
    <2>5. Agrees(told, read2, waiting + Texts(frame.chunk), held, got + more, upset'[x])
      <3> HIDE DEF OneMoreCall, h
      <3> QED  BY <1>1, <1>4, <2>1, <2>3, GivenMore
    <2> QED  BY <1>3, <2>2, <2>3, <2>4, <2>5 DEF InAccount, told, read2, waiting2, got2
  <1>9. TextAccountedFor'
    <2>1. \A y \in Xs \ {x} : /\ Cardinality(Pieces(stack', y)) = Cardinality(Pieces(stack, y)) + 0
                              /\ given'[y] = given[y] /\ upset[y] \subseteq upset'[y]
      BY <1>4, <1>7 DEF TextInv, TextTyped
    <2>2. \A y \in Xs \ {x} : Cardinality(Pieces(stack', y)) = Cardinality(Pieces(stack, y))
      BY <1>7, <2>1
    <2> QED  BY <1>3, <1>7, <1>8, <2>1, <2>2, OneAccount
  <1>10. TextTyped'
    BY <1>3, <1>4 DEF TextInv, TextTyped
  <1> QED  BY <1>3, <1>6, <1>9, <1>10 DEF TextInv

\* parse() takes its chunk over or lets it wait; finish() has the last field to report.
LEMMA CallText == Inv /\ TextInv /\ (CallParse \/ CallFinish) => TextInv'
  <1> SUFFICES ASSUME Inv, TextInv, CallParse \/ CallFinish PROVE TextInv'
    OBVIOUS
  <1>1. CASE CallParse
    <2>1. UNCHANGED <<self, reported>>
      BY <1>1 DEF CallParse, objects
    <2>2. PICK x \in Xs, chunk \in Chunks :
             /\ Live(x)
             /\ parser' = [parser EXCEPT ![self[x]].stop = FALSE,
                                         ![self[x]].input = IF parser[self[x]].input # <<>> THEN @ ELSE chunk]
             /\ stack' = Append(stack, Frame("parse", self[x], x,
                                             IF parser[self[x]].input # <<>> THEN chunk ELSE <<>>))
             /\ given' = [given EXCEPT ![x] = @ + Texts(chunk)]
             /\ upset' = [upset EXCEPT ![x] = @ \cup Reenters(x)]
      BY <1>1 DEF CallParse, Push
    <2> DEFINE h == self[x]
               p == parser[h]
               rest == p.input # <<>>
               q == [p EXCEPT !.stop = FALSE, !.input = IF rest THEN p.input ELSE chunk]
               frame == Frame("parse", h, x, IF rest THEN chunk ELSE <<>>)
    <2>3. /\ h \in Handle /\ p \in Parsers /\ p.input \in Seq(Bytes) /\ chunk \in Seq(Bytes)
          /\ Texts(chunk) \in Nat /\ Texts(p.input) \in Nat
      <3>1. h \in Handle /\ p \in Parsers /\ p.input \in Seq(Bytes)
        BY <2>2, NumbersOfText DEF TextInv
      <3>2. chunk \in Seq(Bytes)
        BY BindingAssumption DEF Bytes
      <3> QED  BY <3>1, <3>2, TextsAreCounted
    <2>4. /\ q \in Parsers /\ q.state = p.state /\ q.field = p.field
          /\ q.input = IF rest THEN p.input ELSE chunk
      BY <2>3 DEF Parsers
    <2>5. parser' = [parser EXCEPT ![h] = q]
      BY <2>2, <2>3 DEF TextInv, TextTyped, Parsers
    <2>6. /\ frame \in Frames /\ frame.in = "parse" /\ frame.x = x /\ frame.h = h /\ ~frame.dead
          /\ frame.due = {} /\ frame.chunk = IF rest THEN chunk ELSE <<>>
      BY <2>3 DEF Frame, Frames
    <2>7. Texts(q.input) + Texts(frame.chunk) = Texts(p.input) + Texts(chunk)
      <3>1. Texts(<<>>) = 0
        <4>1. <<>> \in Seq(Bytes)
          OBVIOUS
        <4> QED  BY <4>1, TextsAreCounted
      <3>2. CASE rest
        BY <3>2, <2>4, <2>6
      <3>3. CASE ~rest
        BY <3>1, <3>3, <2>3, <2>4, <2>6
      <3> QED  BY <3>2, <3>3
    <2>8. stack' = Append(stack, frame)
      BY <2>2
    <2> HIDE DEF q, frame
    <2>9. ~FieldIsDone(frame) /\ frame.in \notin Kinds
      BY <2>6 DEF FieldIsDone, Kinds
    <2>10. OneMoreCall(x, q, frame, Texts(chunk))
      BY <2>1, <2>2, <2>4, <2>5, <2>6, <2>7, <2>8, <2>9 DEF OneMoreCall
    <2> QED  BY <2>3, <2>4, <2>6, <2>10, OneMoreCallText
  <1>2. CASE CallFinish
    <2>1. UNCHANGED <<self, parser, given, reported>>
      BY <1>2 DEF CallFinish, objects
    <2>2. PICK x \in Xs :
             /\ Live(x)
             /\ stack' = Append(stack, [Frame("finish", self[x], x, <<>>) EXCEPT
                           !.due = IF parser[self[x]].state = "RECORD_NOT_BEGUN" THEN {} ELSE Kinds])
             /\ upset' = [upset EXCEPT ![x] = @ \cup Reenters(x)]
      BY <1>2 DEF CallFinish, Push
    <2> DEFINE h == self[x]
               p == parser[h]
               frame == [Frame("finish", h, x, <<>>) EXCEPT
                           !.due = IF p.state = "RECORD_NOT_BEGUN" THEN {} ELSE Kinds]
    <2>3. h \in Handle /\ p \in Parsers /\ given[x] \in Nat /\ Texts(p.input) \in Nat
      BY <2>2, NumbersOfText DEF TextInv
    <2>4. /\ frame \in Frames /\ frame.in = "finish" /\ frame.x = x /\ frame.h = h /\ ~frame.dead
          /\ frame.chunk = <<>> /\ frame.due = IF p.state = "RECORD_NOT_BEGUN" THEN {} ELSE Kinds
      BY <2>3 DEF Frame, Frames, Kinds
    <2>5. parser' = [parser EXCEPT ![h] = p] /\ given' = [given EXCEPT ![x] = @ + 0]
      <3>1. given' = [given EXCEPT ![x] = @ + 0]
        BY <2>1, <2>3 DEF TextInv, TextTyped
      <3> QED  BY <2>1, <2>3, <3>1 DEF TextInv, TextTyped
    <2>6. Texts(frame.chunk) = 0
      <3>1. frame.chunk \in Seq(Bytes)
        BY <2>4, ChunkIsText
      <3> QED  BY <3>1, <2>4, TextsAreCounted
    <2>7. stack' = Append(stack, frame)
      BY <2>2
    <2> HIDE DEF frame
    <2>8. FieldIsDone(frame) => p.field = 0
      BY <2>3, <2>4 DEF FieldIsDone, Kinds, TextInv, NothingBegun
    <2>9. Texts(p.input) + Texts(frame.chunk) = Texts(p.input) + 0 /\ frame.in \notin Kinds
      BY <2>4, <2>6 DEF Kinds
    <2>10. OneMoreCall(x, p, frame, 0)
      BY <2>1, <2>2, <2>4, <2>5, <2>7, <2>8, <2>9 DEF OneMoreCall
    <2> QED  BY <2>3, <2>4, <2>10, OneMoreCallText
  <1> QED  BY <1>1, <1>2

\* DESTROY takes the calls of one parser with it, and the other objects do not notice.
LEMMA DestroyText ==
    ASSUME Inv, TextInv, NEW x \in Xs, Live(x), Destroy(x), UNCHANGED <<parser, history>>
    PROVE  TextInv'
  <1> DEFINE h == self[x]
             after(i) == IF stack[i].h = h THEN [stack[i] EXCEPT !.dead = TRUE] ELSE stack[i]
  <1>1. /\ self' = [self EXCEPT ![x] = None]
        /\ stack' = [i \in 1 .. Len(stack) |-> after(i)]
    BY DEF Destroy
  <1>2. stack \in Seq(Frames) /\ Len(stack) \in Nat /\ \A i \in 1 .. Len(stack) : stack[i] \in Frames
    BY CallsOfParsers
  <1>3. \A frame \in Frames :
          LET dead == [frame EXCEPT !.dead = TRUE] IN
          /\ dead \in Frames /\ dead.dead /\ dead.in = frame.in /\ dead.x = frame.x /\ dead.h = frame.h
          /\ dead.chunk = frame.chunk /\ dead.due = frame.due
    BY DEF Frames
  <1>4. \A i \in 1 .. Len(stack) :
          /\ after(i) \in Frames
          /\ after(i).in = stack[i].in /\ after(i).x = stack[i].x /\ after(i).h = stack[i].h
          /\ after(i).chunk = stack[i].chunk /\ after(i).due = stack[i].due
          /\ ~after(i).dead <=> ~stack[i].dead /\ stack[i].h # h
    BY <1>2, <1>3
  <1>5. /\ stack' \in Seq(Frames) /\ Len(stack') = Len(stack)
        /\ \A i \in 1 .. Len(stack) :
              /\ stack'[i].in = stack[i].in /\ stack'[i].x = stack[i].x /\ stack'[i].h = stack[i].h
              /\ stack'[i].chunk = stack[i].chunk /\ stack'[i].due = stack[i].due
              /\ ~stack'[i].dead <=> ~stack[i].dead /\ stack[i].h # h
    <2>1. stack' \in [1 .. Len(stack) -> Frames]
      BY <1>1, <1>4
    <2>2. stack' \in Seq(Frames) /\ Len(stack') = Len(stack)
      BY <2>1, <1>2, FunctionIsSequence
    <2>3. \A i \in 1 .. Len(stack) : stack'[i] = after(i)
      BY <1>1
    <2> HIDE DEF after
    <2> QED  BY <1>4, <2>2, <2>3
  <1> HIDE DEF after
  <1>6. InOrder(stack', parser', upset')
    <2>1. InOrder(stack', parser, upset)
      BY <1>2, <1>5, OrderOfLiving, CallsOfOneParser DEF TextInv
    <2> QED  BY <2>1 DEF history
  <1>7. TextAccountedFor'
    <2> SUFFICES ASSUME NEW y \in Xs, Live(y)' PROVE InAccount(y)'
      BY AccountsOfAll
    <2>1. y # x /\ self'[y] = self[y] /\ Live(y)
      BY <1>1 DEF Inv, Typed, Live
    <2>2. InAccount(y) /\ self[y] # h
      BY <2>1, AccountsOfAll, ParsersDiffer DEF TextInv
    <2>3. \A i \in 1 .. Len(stack) : stack[i].x = y /\ ~stack[i].dead => stack[i].h # h
      BY <2>2 DEF Inv, CallsAreLive
    <2>4. Pieces(stack', y) = Pieces(stack, y) /\ (Reporting(stack', y) <=> Reporting(stack, y))
      BY <1>2, <1>5, <2>3, CountedAlike
    <2> QED  BY <2>1, <2>2, <2>4, SameAccount DEF history
  <1>8. TextTyped' /\ NothingBegun'
    BY DEF TextInv, TextTyped, NothingBegun, history
  <1> QED  BY <1>6, <1>7, <1>8 DEF TextInv

\* The last reference goes, or one that is not the last.
LEMMA DropText == Inv /\ TextInv /\ (Drop \/ KeepProxy \/ DropProxy) => TextInv'
  <1> SUFFICES ASSUME Inv, TextInv, Drop \/ KeepProxy \/ DropProxy PROVE TextInv'
    OBVIOUS
  <1>1. UNCHANGED <<parser, history>>
    BY DEF Drop, KeepProxy, DropProxy
  <1>2. UNCHANGED <<self, stack>> \/ \E x \in Xs : Live(x) /\ Destroy(x)
    BY DEF Drop, KeepProxy, DropProxy, NotDestroyed
  <1>3. CASE UNCHANGED <<self, stack>>
    BY <1>1, <1>3, QuietText
  <1>4. CASE \E x \in Xs : Live(x) /\ Destroy(x)
    BY <1>1, <1>4, DestroyText
  <1> QED  BY <1>2, <1>3, <1>4

\* A sub that dies leaves calls behind, with what waited in them, and fields that were reported
\* and are held again.
LEMMA DieText == Inv /\ TextInv /\ Die => TextInv'
  <1> SUFFICES ASSUME Inv, TextInv, Die PROVE TextInv'
    OBVIOUS
  <1>1. UNCHANGED <<self, parser, given, reported>>
    BY DEF Die, objects
  <1> DEFINE left(n, x) == {i \in n + 1 .. Len(stack) : stack[i].x = x /\ ~stack[i].dead}
  <1>2. PICK n \in {0} \cup {i \in 1 .. Len(stack) - 1 : stack[i].in \in Kinds} :
           /\ stack' = SubSeq(stack, 1, n)
           /\ upset' = [x \in Xs |->
                upset[x] \cup (IF \E i \in left(n, x) : stack[i].in = "field" THEN {"repeated"} ELSE {})
                         \cup (IF \E i \in left(n, x) : stack[i].chunk # <<>> THEN {"lost"} ELSE {})]
    BY DEF Die
  <1>3. stack \in Seq(Frames) /\ Len(stack) \in Nat /\ n \in 0 .. Len(stack) /\ n \in Nat
    BY CallsOfParsers
  <1>4. \A x \in Xs :
          /\ upset'[x] \in SUBSET Both /\ upset[x] \subseteq upset'[x]
          /\ "repeated" \notin upset'[x] => \A i \in left(n, x) : stack[i].in # "field"
          /\ "lost" \notin upset'[x] => \A i \in left(n, x) : stack[i].chunk = <<>>
    <2> SUFFICES ASSUME NEW x \in Xs
                 PROVE  /\ upset'[x] \in SUBSET Both /\ upset[x] \subseteq upset'[x]
                        /\ "repeated" \notin upset'[x] => \A i \in left(n, x) : stack[i].in # "field"
                        /\ "lost" \notin upset'[x] => \A i \in left(n, x) : stack[i].chunk = <<>>
      OBVIOUS
    <2> DEFINE twice == \E i \in left(n, x) : stack[i].in = "field"
               lost == \E i \in left(n, x) : stack[i].chunk # <<>>
    <2>1. upset'[x] = upset[x] \cup (IF twice THEN {"repeated"} ELSE {}) \cup (IF lost THEN {"lost"} ELSE {})
      BY <1>2
    <2>2. upset[x] \in SUBSET Both
      BY DEF TextInv, TextTyped
    <2>3. /\ "repeated" \notin upset'[x] => ~twice
          /\ "lost" \notin upset'[x] => ~lost
          /\ upset'[x] \in SUBSET Both /\ upset[x] \subseteq upset'[x]
      <3> HIDE DEF twice, lost
      <3> QED  BY <2>1, <2>2 DEF Both
    <2> QED  BY <2>3
  <1>5. TextTyped' /\ NothingBegun'
    <2>1. upset' \in [Xs -> SUBSET Both]
      BY <1>2, <1>4
    <2> QED  BY <1>1, <2>1 DEF TextInv, TextTyped, NothingBegun
  <1>6. InOrder(stack', parser', upset')
    <2>1. \A x \in Xs : upset[x] = Both => upset'[x] = Both
      BY <1>4 DEF Both
    <2>2. InOrder(stack, parser, upset')
      BY <2>1, BlameKeepsOrder
    <2>3. ASSUME NEW j \in n + 1 .. Len(stack), stack[j].in = "field", ~stack[j].dead
          PROVE  j > n + 1
      <3>1. j \in 1 .. Len(stack) /\ j \in Nat /\ j >= n + 1
        BY <1>3
      <3>2. j > 1 /\ stack[j - 1].in \notin Kinds
        BY <2>3, <3>1 DEF TextInv, InOrder, OnItsCall, Kinds
      <3>3. ASSUME j = n + 1 PROVE FALSE
        <4>1. n # 0 /\ j - 1 = n
          BY <3>2, <3>3, <1>3
        <4>2. stack[n].in \in Kinds
          BY <4>1
        <4> QED  BY <3>2, <4>1, <4>2
      <3> QED  BY <3>1, <3>3, <1>3
    <2>4. InOrder(SubSeq(stack, 1, n), parser, upset')
      BY <1>3, <2>2, <2>3, OrderOfSome, CallsOfOneParser
    <2> QED  BY <1>1, <1>2, <2>4
  <1>7. TextAccountedFor'
    <2> SUFFICES ASSUME NEW y \in Xs, Live(y)' PROVE InAccount(y)'
      BY AccountsOfAll
    <2> DEFINE told == reported[y]
               read == Texts(parser[self[y]].input)
               waiting == Cardinality(Pieces(stack, y))
               waiting2 == Cardinality(Pieces(stack', y))
               field == parser[self[y]].field
               held == IF Reporting(stack, y) THEN 0 ELSE field
               held2 == IF Reporting(stack', y) THEN 0 ELSE field
               got == given[y]
    <2>1. Live(y) /\ InAccount(y)
      BY <1>1, AccountsOfAll DEF TextInv, Live
    <2>2. /\ told \in Nat /\ read \in Nat /\ waiting \in Nat /\ field \in Nat /\ got \in Nat
          /\ Agrees(told, read, waiting, held, got, upset[y])
      BY <2>1, NumbersOfText DEF InAccount, TextInv
    <2>3. /\ waiting2 =< waiting /\ waiting2 \in Nat
          /\ "lost" \notin upset'[y] => waiting2 = waiting
          /\ Reporting(stack', y) => Reporting(stack, y)
          /\ "repeated" \notin upset'[y] => (Reporting(stack, y) => Reporting(stack', y))
      <3>1. /\ "lost" \notin upset'[y] =>
                 \A i \in n + 1 .. Len(stack) : stack[i].x = y /\ ~stack[i].dead => stack[i].chunk = <<>>
            /\ "repeated" \notin upset'[y] =>
                 \A i \in n + 1 .. Len(stack) : stack[i].x = y /\ ~stack[i].dead => stack[i].in # "field"
        BY <1>4
      <3>2. SubSeq(stack, 1, n) \in Seq(Frames)
        BY <1>3
      <3> HIDE DEF left
      <3> QED  BY <1>2, <1>3, <3>1, <3>2, CountedOfSome, PiecesAreCounted
    <2>4. /\ held \in Nat /\ held2 \in Nat /\ held =< held2
          /\ "repeated" \notin upset'[y] => held2 = held
      <3>1. CASE Reporting(stack, y) /\ Reporting(stack', y)
        BY <3>1
      <3>2. CASE Reporting(stack, y) /\ ~Reporting(stack', y)
        BY <3>2, <2>2, <2>3
      <3>3. CASE ~Reporting(stack, y) /\ ~Reporting(stack', y)
        BY <3>3, <2>2
      <3> QED  BY <3>1, <3>2, <3>3, <2>3
    <2>5. upset[y] \subseteq upset'[y]
      BY <1>4
    <2>6. Agrees(told, read, waiting2, held2, got, upset'[y])
      <3> HIDE DEF told, read, waiting, waiting2, field, held, held2, got
      <3>1. Agrees(told, read, waiting, held, got, upset'[y])
        BY <2>2, <2>5, MoreBlame
      <3>2. ASSUME "lost" \notin upset'[y] PROVE told + (read + waiting2 + held2) >= got
        <4>1. told + (read + waiting2 + held2) >= told + (read + waiting + held)
          BY <2>2, <2>3, <2>4, <3>2
        <4>2. told + (read + waiting + held) >= got
          BY <3>1, <3>2 DEF Agrees
        <4>3. told + (read + waiting2 + held2) \in Nat /\ told + (read + waiting + held) \in Nat /\ got \in Nat
          BY <2>2, <2>3, <2>4
        <4> QED  BY <4>1, <4>2, <4>3
      <3>3. ASSUME "repeated" \notin upset'[y] PROVE told + (read + waiting2 + held2) =< got
        <4>1. told + (read + waiting2 + held2) =< told + (read + waiting + held)
          BY <2>2, <2>3, <2>4, <3>3
        <4>2. told + (read + waiting + held) =< got
          BY <3>1, <3>3 DEF Agrees
        <4>3. told + (read + waiting2 + held2) \in Nat /\ told + (read + waiting + held) \in Nat /\ got \in Nat
          BY <2>2, <2>3, <2>4
        <4> QED  BY <4>1, <4>2, <4>3
      <3> QED  BY <3>2, <3>3 DEF Agrees
    <2> QED  BY <1>1, <2>6 DEF InAccount
  <1> QED  BY <1>5, <1>6, <1>7 DEF TextInv

\* At the outset there are no objects and no calls.
LEMMA InitText == Init => TextInv
  <1> SUFFICES ASSUME Init PROVE TextInv
    OBVIOUS
  <1>1. stack = <<>> /\ Len(stack) = 0
    BY DEF Init
  <1>2. TextTyped /\ NothingBegun
    BY DEF Init, TextTyped, NothingBegun, NewParser, Parsers, Both
  <1>3. InOrder(stack, parser, upset)
    BY <1>1 DEF InOrder, OnItsCall, SeenReentry, NothingBehind
  <1>4. TextAccountedFor
    BY DEF Init, TextAccountedFor, Live
  <1> QED  BY <1>2, <1>3, <1>4 DEF TextInv

\* A call whose chunk changes, if it has one, is where it was.
LEMMA OrderWithChunk ==
    ASSUME NEW st \in Seq(Frames), NEW other \in Seq(Frames), NEW ps, NEW us, Len(other) = Len(st),
           \A i \in 1 .. Len(st) :
              /\ other[i].in = st[i].in /\ other[i].x = st[i].x /\ other[i].h = st[i].h
              /\ other[i].due = st[i].due /\ other[i].dead = st[i].dead
              /\ st[i].chunk = <<>> => other[i].chunk = <<>>,
           InOrder(st, ps, us)
    PROVE  InOrder(other, ps, us)
  <1>1. Len(st) \in Nat
    OBVIOUS
  <1>2. OnItsCall(other)
    <2> SUFFICES ASSUME NEW i \in 1 .. Len(st)
                 PROVE  /\ other[i].in = "finish" => other[i].chunk = <<>>
                        /\ other[i].in \in Kinds =>
                              /\ other[i].chunk = <<>> /\ other[i].due = {}
                              /\ ~other[i].dead =>
                                    /\ i > 1 /\ other[i - 1].in \notin Kinds
                                    /\ other[i - 1].x = other[i].x /\ ~other[i - 1].dead
      BY DEF OnItsCall
    <2>1. i > 1 => i - 1 \in 1 .. Len(st)
      BY <1>1
    <2> QED  BY <2>1 DEF InOrder, OnItsCall
  <1>3. SeenReentry(other, us)
    BY DEF InOrder, SeenReentry
  <1>4. NothingBehind(other, ps, us)
    <2>1. \A x : Reporting(other, x) <=> Reporting(st, x)
      BY DEF Reporting
    <2>2. \A i \in 1 .. Len(st) : FieldIsDone(other[i]) <=> FieldIsDone(st[i])
      BY DEF FieldIsDone
    <2> QED  BY <2>1, <2>2 DEF InOrder, NothingBehind
  <1> QED  BY <1>2, <1>3, <1>4 DEF InOrder

\* A scalar that is changed: what waited is as much as it was, or the program is to blame.
LEMMA ChangeScalarText == Inv /\ TextInv /\ ChangeScalar => TextInv'
  <1> SUFFICES ASSUME Inv, TextInv, ChangeScalar PROVE TextInv'
    OBVIOUS
  <1>1. UNCHANGED <<self, parser, given, reported>>
    BY DEF ChangeScalar, objects
  <1>2. PICK i \in 1 .. Len(stack), frame \in Frames :
             /\ stack' = [stack EXCEPT ![i] = frame]
             /\ frame.in = stack[i].in /\ frame.x = stack[i].x /\ frame.h = stack[i].h
             /\ frame.due = stack[i].due /\ frame.dead = stack[i].dead
             /\ ~stack[i].dead /\ stack[i].chunk # <<>> /\ frame.chunk # <<>>
             /\ \/ frame.chunk = stack[i].chunk /\ UNCHANGED upset
                \/ upset' = [upset EXCEPT ![stack[i].x] = {"repeated", "lost"}]
    BY ScalarChanges
  <1>3. stack \in Seq(Frames) /\ Len(stack) \in Nat /\ stack[i].x \in Xs /\ upset \in [Xs -> SUBSET Both]
    BY CallsOfParsers DEF TextInv, TextTyped
  <1>4. /\ stack' \in Seq(Frames) /\ Len(stack') = Len(stack)
        /\ stack'[i] = frame /\ \A j \in 1 .. Len(stack) : j # i => stack'[j] = stack[j]
    BY <1>2, <1>3
  <1>5. /\ upset' \in [Xs -> SUBSET Both]
        /\ \A x \in Xs : upset[x] \subseteq upset'[x]
        /\ upset'[stack[i].x] = Both \/ (frame.chunk = stack[i].chunk /\ UNCHANGED upset)
    BY <1>2, <1>3 DEF Both
  <1>6. TextTyped' /\ NothingBegun'
    BY <1>1, <1>5 DEF TextInv, TextTyped, NothingBegun
  <1>7. InOrder(stack', parser', upset')
    <2>1. \A x \in Xs : upset[x] = Both => upset'[x] = Both
      BY <1>5 DEF Both
    <2>2. InOrder(stack, parser, upset')
      BY <2>1, BlameKeepsOrder
    <2>3. \A j \in 1 .. Len(stack) :
              /\ stack'[j].in = stack[j].in /\ stack'[j].x = stack[j].x /\ stack'[j].h = stack[j].h
              /\ stack'[j].due = stack[j].due /\ stack'[j].dead = stack[j].dead
              /\ stack[j].chunk = <<>> => stack'[j].chunk = <<>>
      BY <1>2, <1>4
    <2> QED  BY <1>1, <1>3, <1>4, <2>2, <2>3, OrderWithChunk
  <1>8. TextAccountedFor'
    <2> SUFFICES ASSUME NEW y \in Xs, Live(y)' PROVE InAccount(y)'
      BY AccountsOfAll
    <2>1. Live(y) /\ InAccount(y)
      BY <1>1, AccountsOfAll DEF TextInv, Live
    <2>2. CASE y = stack[i].x /\ upset'[stack[i].x] = Both
      BY <2>2, BlameIsEnough
    <2>3. CASE y # stack[i].x \/ frame.chunk = stack[i].chunk
      <3>1. \A j \in 1 .. Len(stack) : stack[j].x = y /\ ~stack[j].dead <=> stack'[j].x = y /\ ~stack'[j].dead
        BY <1>2, <1>4
      <3>2. \A j \in 1 .. Len(stack) : stack[j].x = y /\ ~stack[j].dead =>
                                          stack[j].chunk = stack'[j].chunk /\ stack[j].in = stack'[j].in
        BY <1>2, <1>4, <2>3
      <3>3. Pieces(stack', y) = Pieces(stack, y) /\ (Reporting(stack', y) <=> Reporting(stack, y))
        BY <1>3, <1>4, <3>1, <3>2, CountedAlike
      <3> QED  BY <1>1, <1>5, <2>1, <3>3, SameAccount
    <2> QED  BY <1>5, <2>2, <2>3
  <1> QED  BY <1>6, <1>7, <1>8 DEF TextInv

\* Every step of the program and of the library keeps the accounts.
LEMMA NextText == Inv /\ TextInv /\ [Next]_vars => TextInv'
  <1> SUFFICES ASSUME Inv, TextInv, [Next]_vars PROVE TextInv'
    OBVIOUS
  <1>1. CASE New
    BY <1>1, NewText
  <1>2. CASE Drop \/ KeepProxy \/ DropProxy
    BY <1>2, DropText
  <1>3. CASE SetCallback \/ Stop \/ StopInCallback \/ KeepCB \/ StopKept \/ UNCHANGED vars
    <2>1. /\ UNCHANGED <<self, stack, history>>
          /\ UNCHANGED parser \/ \E h : parser' = [parser EXCEPT ![h].stop = TRUE]
      BY <1>3 DEF SetCallback, Stop, StopInCallback, KeepCB, StopKept, StopParser, vars, objects
    <2> QED  BY <2>1, QuietText
  <1>11. CASE BeginExchange \/ EndExchange
    <2>1. UNCHANGED <<self, stack, history, parser>>
      BY <1>11 DEF BeginExchange, EndExchange
    <2> QED  BY <2>1, QuietText
  <1>12. CASE (LeaveLoop \/ \E k \in Kinds : Fire(k)) /\ broken'
    <2>1. UNCHANGED <<self, stack, history, parser>>
      <3>1. CASE LeaveLoop
        BY <1>12, <3>1 DEF LeaveLoop, InC, objects, history
      <3>2. CASE \E k \in Kinds : Fire(k)
        BY <1>12, <3>2 DEF Fire, objects, history
      <3> QED  BY <1>12, <3>1, <3>2
    <2> QED  BY <2>1, QuietText
  <1>13. CASE ChangeScalar
    BY <1>13, ChangeScalarText
  <1>4. CASE CallParse \/ CallFinish
    BY <1>4, CallText
  <1>5. CASE ClearState
    BY <1>5, ClearStateText
  <1>6. CASE ReadByte
    BY <1>6, ReadByteText
  <1>7. CASE LeaveLoop /\ ~broken'
    BY <1>7, LeaveLoopText
  <1>8. CASE LeaveFinish \/ Return
    BY <1>8, LeaveText
  <1>9. CASE Die
    BY <1>9, DieText
  <1>10. CASE (\E k \in Kinds : Fire(k)) /\ ~broken'
    BY <1>10, FireText
  <1> QED
    BY <1>1, <1>2, <1>3, <1>4, <1>5, <1>6, <1>7, <1>8, <1>9, <1>10, <1>11, <1>12, <1>13
       DEF Next, Program, Library

\* Text is lost, or reported twice, only in the ways TextAccountedFor names, however the calls of
\* however many parsers are nested, left, stopped and dropped (parse(), finish(), the two shims).
THEOREM TextIsAccountedFor == Spec => []TextAccountedFor
  <1>1. TextInv => TextAccountedFor
    BY DEF TextInv
  <1> QED  BY <1>1, InitText, NextText, InvAlways, PTL DEF Spec
==============================================================================
