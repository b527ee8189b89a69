------------------------ MODULE ProvPassesKeepProofs ------------------------
(***************************************************************************)
(* What each pass does to the calls that the functions of the program      *)
(* make: for any programs, tables and configurations, none is lost, moved  *)
(* or changed, as long as every sink that is wrapped takes the parameters  *)
(* that it declares.  That each of those that are numbered is logged, that *)
(* the main of a library calls all of it, and that the analysis finds the  *)
(* tags of every source in front of it.                                    *)
(***************************************************************************)
EXTENDS ProvPassesRunProofs

-----------------------------------------------------------------------------
(* The program is preserved: the inductive invariant                       *)

\* What is so of every instruction that comes from the input.
IsOwn(i) == i.src # 0 => i.fn \notin Reserved /\ HasOperands(i) /\ PassesDeclared(i)

\* Module fs makes the calls that module ms makes.
MakesCallsOf(fs, ms) ==
    /\ Runs(fs)
    /\ \A i \in InstructionsOf(fs) : IsOwn(i)
    /\ \A f \in DOMAIN ms : f \in DOMAIN fs /\ Observed(fs, f) = Observed(ms, f)

AfterRemoval == {"dependency_map", "configure_logging", "add_logging", "done"}

\* The calls that wait to be wrapped are sinks, and what they send out is known.
WaitingInv ==
    pass = "wrap_sinks" =>
      \A n \in 1 .. Len(calls_to_wrap) : \A k \in DOMAIN Body :
        Body[k].addr = calls_to_wrap[n] =>
          /\ IsSink(Body[k])
          /\ output_param_map[calls_to_wrap[n]] = ParamsOfType(Body[k], "output")

\* The calls that are to be made: without the hypothesis on sinks there is no promise.
Promised(strict) == IF strict THEN input ELSE <<>>

RunInv(strict) ==
    /\ MakesCallsOf(functions, Promised(strict))
    /\ pass \in AfterRemoval => \A i \in InstructionsOf(functions) : ~IsIntrinsic(i)
    /\ WaitingInv

\* A module that clam-prov has not touched makes its own calls.
LEMMA CleanRuns ==
    ASSUME NEW fs, Clean(fs)
    PROVE  MakesCallsOf(fs, fs)
  <1>1. /\ IsModule(fs)
        /\ \A f \in DOMAIN fs : fs[f].name \notin Reserved
        /\ \A f \in DOMAIN fs : \A k \in DOMAIN fs[f].body : fs[f].body[k].src # 0
        /\ \A i \in InstructionsOf(fs) : i.fn \notin Reserved
    BY CleanIs
  <1>2. \A i \in InstructionsOf(fs) : IsRecord(i) /\ HasOperands(i) /\ PassesDeclared(i)
    BY DEF Clean, IsInstruction, IsOfInput
  <1>3. \A f \in DOMAIN fs : ~IsWrapper(fs[f].name)
    BY <1>1 DEF IsWrapper, Reserved
  <1>4. \A i \in InstructionsOf(fs) : ~IsWrapperCall(i)
    BY <1>1 DEF IsWrapperCall, Reserved
  <1>5. \A f \in DOMAIN fs : \A k \in DOMAIN fs[f].body : IsAddition(fs[f].body[k])
    BY <1>1 DEF IsAddition
  <1>6. Runs(fs)
    BY <1>1, <1>2, <1>3, <1>4, <1>5 DEF Runs
  <1>7. \A i \in InstructionsOf(fs) : IsOwn(i)
    BY <1>1, <1>2 DEF IsOwn
  <1> QED
    BY <1>6, <1>7 DEF MakesCallsOf

\* Nothing is promised but the calls of the input.
LEMMA PromisedOnly ==
    ASSUME NEW strict \in BOOLEAN, NEW fs, MakesCallsOf(fs, input)
    PROVE  MakesCallsOf(fs, Promised(strict))
  <1>1. CASE strict
    BY <1>1 DEF Promised
  <1>2. CASE ~strict
    <2>1. Promised(strict) = <<>> /\ DOMAIN <<>> = {}
      BY <1>2 DEF Promised
    <2> QED
      BY <2>1 DEF MakesCallsOf
  <1> QED
    BY <1>1, <1>2

LEMMA SameCoreOwn ==
    ASSUME NEW i, NEW j, SameCore(i, j)
    PROVE  IsOwn(i) <=> IsOwn(j)
  BY DEF SameCore, IsOwn, HasOperands, PassesDeclared, IsDirectCall

\* Inserting extra instructions, or taking them out, changes no calls.
LEMMA OrderedMakesCalls ==
    ASSUME NEW gs, NEW fs, NEW ms, MakesCallsOf(fs, ms),
           Ordered(gs, fs) \/ Ordered(fs, gs),
           \A i \in InstructionsOf(gs) : IsRecord(i)
    PROVE  MakesCallsOf(gs, ms)
  <1>1. /\ Runs(fs)
        /\ \A i \in InstructionsOf(fs) : IsOwn(i)
        /\ \A f \in DOMAIN ms : f \in DOMAIN fs /\ Observed(fs, f) = Observed(ms, f)
    BY DEF MakesCallsOf
  <1>2. Runs(gs)
    BY <1>1, OrderedRuns
  <1>3. DOMAIN gs = DOMAIN fs
    BY DEF Ordered
  <1>4. \A f \in DOMAIN fs : Observed(gs, f) = Observed(fs, f)
    BY <1>1, <1>2, <1>3, OrderedObserved
  <1>5. ASSUME NEW f \in DOMAIN gs, NEW k \in DOMAIN gs[f].body PROVE IsOwn(gs[f].body[k])
    <2>1. \/ IsExtra(gs[f].body[k])
          \/ \E l \in DOMAIN fs[f].body :
               SameCore(gs[f].body[k], fs[f].body[l]) \/ SameCore(fs[f].body[l], gs[f].body[k])
      BY <1>3, OrderedPlaces
    <2>2. ASSUME NEW l \in DOMAIN fs[f].body PROVE fs[f].body[l] \in InstructionsOf(fs)
      BY <1>1, <1>3, ModuleIs DEF Runs
    <2> QED
      BY <1>1, <2>1, <2>2, SameCoreOwn DEF IsExtra, IsOwn
  <1>6. ASSUME NEW i \in InstructionsOf(gs) PROVE IsOwn(i)
    BY <1>5, InstructionIsIn
  <1> QED
    BY <1>1, <1>2, <1>3, <1>4, <1>6 DEF MakesCallsOf

-----------------------------------------------------------------------------
(* A call is wrapped                                                       *)

\* gs is fs with a new function, whose call replaces instruction c of function a.
HasWrapped(gs, fs, a, c, name, b, w) ==
    /\ DOMAIN gs = 1 .. Len(fs) + 1
    /\ gs[Len(fs) + 1].name = name /\ gs[Len(fs) + 1].body = b
    /\ \A f \in DOMAIN fs : gs[f].name = fs[f].name
    /\ \A f \in DOMAIN fs \ {a} : gs[f] = fs[f]
    /\ DOMAIN gs[a].body = DOMAIN fs[a].body
    /\ gs[a].body[c] = w
    /\ \A k \in DOMAIN fs[a].body \ {c} : gs[a].body[k] = fs[a].body[k]

\* The new function forwards what it replaces, and gets the same operands.
StandsFor(fs, a, c, name, b, w, e) ==
    /\ a \in DOMAIN fs /\ c \in DOMAIN fs[a].body
    /\ ~IsWrapper(fs[a].name) /\ IsWrapper(name)
    /\ \A f \in DOMAIN fs : fs[f].name # name
    /\ w.op = "call" /\ w.fn = name /\ w.src = 0
    /\ Forwards(b, e) /\ IsFormal(b[e], fs[a].body[c])
    /\ fs[a].body[c].fn \notin Reserved

\* Where the instructions of gs are from.
LEMMA WrappedHas ==
    ASSUME NEW gs, NEW fs, NEW a, NEW c, NEW name, NEW b, NEW w, Runs(fs),
           HasWrapped(gs, fs, a, c, name, b, w), NEW f \in DOMAIN gs
    PROVE  \/ f \in DOMAIN fs /\ f # a /\ gs[f] = fs[f]
           \/ f = Len(fs) + 1 /\ f \notin DOMAIN fs /\ gs[f].name = name /\ gs[f].body = b
           \/ f = a /\ f \in DOMAIN fs
  <1>1. Len(fs) \in Nat /\ DOMAIN fs = 1 .. Len(fs)
    BY RunsIs
  <1>2. f \in 1 .. Len(fs) \/ f = Len(fs) + 1
    BY <1>1 DEF HasWrapped
  <1>3. Len(fs) + 1 \notin 1 .. Len(fs)
    BY <1>1
  <1> QED
    BY <1>1, <1>2, <1>3 DEF HasWrapped

LEMMA WrapperBodyAdds ==
    ASSUME NEW b, NEW e, Forwards(b, e), b[e].fn \notin Reserved, NEW k \in 1 .. Len(b)
    PROVE  /\ ~IsWrapperCall(b[k])
           /\ k # e => b[k].src = 0
  <1>1. CASE k = e
    BY <1>1 DEF IsWrapperCall, Reserved
  <1>2. CASE k # e
    <2>1. IsExtra(b[k]) \/ (b[k].src = 0 /\ b[k].op \in {"br", "ret"})
      BY <1>2 DEF Forwards
    <2> QED
      BY <2>1, ExtraIsNoCall DEF IsWrapperCall, IsExtra
  <1> QED
    BY <1>1, <1>2

\* A module with one more wrapper still runs.
LEMMA WrappedRuns ==
    ASSUME NEW gs, NEW fs, NEW a, NEW c, NEW name, NEW b, NEW w, NEW e, Runs(fs),
           HasWrapped(gs, fs, a, c, name, b, w), StandsFor(fs, a, c, name, b, w, e),
           IsModule(gs), \A i \in InstructionsOf(gs) : IsRecord(i)
    PROVE  Runs(gs)
  <1>1. /\ a \in DOMAIN fs /\ c \in DOMAIN fs[a].body
        /\ ~IsWrapper(fs[a].name) /\ IsWrapper(name)
        /\ \A f \in DOMAIN fs : fs[f].name # name
        /\ w.op = "call" /\ w.fn = name /\ w.src = 0
        /\ Forwards(b, e) /\ b[e].fn \notin Reserved
    BY DEF StandsFor, IsFormal
  <1>2. \A f \in DOMAIN fs : f \in DOMAIN gs /\ gs[f].name = fs[f].name
    <2>1. Len(fs) \in Nat /\ DOMAIN fs = 1 .. Len(fs)
      BY RunsIs
    <2>2. 1 .. Len(fs) \subseteq 1 .. Len(fs) + 1
      BY <2>1
    <2> QED
      BY <2>1, <2>2 DEF HasWrapped
  <1>3. Len(fs) + 1 \in DOMAIN gs /\ gs[Len(fs) + 1].name = name
    <2>1. Len(fs) \in Nat
      BY RunsIs
    <2>2. Len(fs) + 1 \in 1 .. Len(fs) + 1
      BY <2>1
    <2> QED
      BY <2>2 DEF HasWrapped
  <1>4. ASSUME NEW f \in DOMAIN gs, IsWrapper(gs[f].name) PROVE \E d : Forwards(gs[f].body, d)
    <2>1. f # a
      BY <1>1, <1>2, <1>4
    <2>2. CASE f \in DOMAIN fs /\ gs[f] = fs[f]
      BY <1>4, <2>2 DEF Runs
    <2>3. CASE gs[f].body = b
      BY <1>1, <2>3
    <2> QED
      BY <2>1, <2>2, <2>3, WrappedHas
  <1>5. ASSUME NEW f \in DOMAIN gs, NEW g \in DOMAIN gs, gs[f].name = gs[g].name,
               IsWrapper(gs[f].name)
        PROVE  f = g
    <2>1. (f \in DOMAIN fs \/ (f = Len(fs) + 1 /\ gs[f].name = name))
          /\ (g \in DOMAIN fs \/ (g = Len(fs) + 1 /\ gs[g].name = name))
      BY WrappedHas
    <2> QED
      BY <1>1, <1>2, <1>5, <2>1 DEF Runs
  <1>6. ASSUME NEW f \in DOMAIN gs, NEW k \in DOMAIN gs[f].body, IsWrapperCall(gs[f].body[k])
        PROVE  \E g \in DOMAIN gs : gs[g].name = gs[f].body[k].fn
    <2>1. ASSUME NEW l \in DOMAIN fs, NEW m \in DOMAIN fs[l].body, gs[f].body[k] = fs[l].body[m]
          PROVE  \E g \in DOMAIN gs : gs[g].name = gs[f].body[k].fn
      <3>1. fs[l].body[m] \in InstructionsOf(fs)
        BY ModuleIs DEF Runs
      <3>2. \E g \in DOMAIN fs : fs[g].name = fs[l].body[m].fn
        BY <1>6, <2>1, <3>1 DEF Runs
      <3> QED
        BY <1>2, <2>1, <3>2
    <2>2. CASE f \in DOMAIN fs /\ gs[f] = fs[f]
      BY <2>1, <2>2
    <2>3. CASE gs[f].body = b
      <3>1. k \in DOMAIN b
        BY <2>3
      <3>2. gs[f].body \in Seq(InstructionsOf(gs))
        BY ModuleIs
      <3>3. k \in 1 .. Len(b)
        BY <2>3, <3>2
      <3> QED
        BY <1>1, <1>6, <2>3, <3>3, WrapperBodyAdds
    <2>4. CASE f = a
      <3>1. CASE k = c
        <4>1. gs[f].body[k].fn = name
          BY <1>1, <2>4, <3>1 DEF HasWrapped
        <4> QED
          BY <1>3, <4>1
      <3>2. CASE k # c
        <4>1. k \in DOMAIN fs[a].body /\ gs[f].body[k] = fs[a].body[k]
          BY <2>4, <3>2 DEF HasWrapped
        <4> QED
          BY <1>1, <2>1, <4>1
      <3> QED
        BY <3>1, <3>2
    <2> QED
      BY <2>2, <2>3, <2>4, WrappedHas
  <1>7. ASSUME NEW f \in DOMAIN gs, ~IsWrapper(gs[f].name), NEW k \in DOMAIN gs[f].body
        PROVE  IsAddition(gs[f].body[k])
    <2>1. CASE f \in DOMAIN fs /\ gs[f] = fs[f]
      BY <1>7, <2>1 DEF Runs
    <2>2. CASE gs[f].name = name
      BY <1>1, <1>7, <2>2
    <2>3. CASE f = a
      <3>1. CASE k = c
        <4>1. gs[f].body[k] = w
          BY <2>3, <3>1 DEF HasWrapped
        <4>2. IsWrapperCall(w)
          BY <1>1 DEF IsWrapperCall, IsWrapper
        <4> QED
          BY <4>1, <4>2 DEF IsAddition
      <3>2. CASE k # c
        <4>1. k \in DOMAIN fs[a].body /\ gs[f].body[k] = fs[a].body[k]
          BY <2>3, <3>2 DEF HasWrapped
        <4> QED
          BY <1>1, <4>1 DEF Runs
      <3> QED
        BY <3>1, <3>2
    <2> QED
      BY <2>1, <2>2, <2>3, WrappedHas
  <1>8. ASSUME NEW i \in InstructionsOf(gs), IsWrapperCall(i)
        PROVE  \E g \in DOMAIN gs : gs[g].name = i.fn
    BY <1>6, <1>8, InstructionIsIn
  <1> QED
    BY <1>4, <1>5, <1>7, <1>8 DEF Runs

\* A wrapper has no instruction of its own that looks like the program's.
LEMMA WrappedOwn ==
    ASSUME NEW gs, NEW fs, NEW a, NEW c, NEW name, NEW b, NEW w, NEW e, Runs(fs), Runs(gs),
           HasWrapped(gs, fs, a, c, name, b, w), StandsFor(fs, a, c, name, b, w, e),
           HasOperands(b[e]), PassesDeclared(b[e]), \A i \in InstructionsOf(fs) : IsOwn(i)
    PROVE  \A i \in InstructionsOf(gs) : IsOwn(i)
  <1>1. /\ a \in DOMAIN fs /\ c \in DOMAIN fs[a].body /\ w.src = 0
        /\ Forwards(b, e) /\ b[e].fn \notin Reserved
    BY DEF StandsFor, IsFormal
  <1>2. ASSUME NEW l \in DOMAIN fs, NEW m \in DOMAIN fs[l].body PROVE IsOwn(fs[l].body[m])
    <2>1. fs[l].body[m] \in InstructionsOf(fs)
      BY ModuleIs DEF Runs
    <2> QED
      BY <2>1
  <1>3. ASSUME NEW f \in DOMAIN gs, NEW k \in DOMAIN gs[f].body
        PROVE  IsOwn(gs[f].body[k])
    <2>1. CASE f \in DOMAIN fs /\ gs[f] = fs[f]
      BY <1>2, <2>1
    <2>2. CASE gs[f].body = b
      <3>1. gs[f].body \in Seq(InstructionsOf(gs))
        BY ModuleIs DEF Runs
      <3>2. k \in 1 .. Len(b)
        BY <2>2, <3>1
      <3>3. k = e \/ b[k].src = 0
        BY <1>1, <3>2, WrapperBodyAdds
      <3> QED
        BY <1>1, <2>2, <3>3 DEF IsOwn
    <2>3. CASE f = a
      <3>1. CASE k = c
        BY <1>1, <2>3, <3>1 DEF HasWrapped, IsOwn
      <3>2. CASE k # c
        <4>1. k \in DOMAIN fs[a].body /\ gs[f].body[k] = fs[a].body[k]
          BY <2>3, <3>2 DEF HasWrapped
        <4> QED
          BY <1>1, <1>2, <4>1
      <3> QED
        BY <3>1, <3>2
    <2> QED
      BY <2>1, <2>2, <2>3, WrappedHas
  <1> QED
    BY <1>3, InstructionIsIn

\* A call that passes what its function declares is the call that its wrapper
\* makes, when the wrapper is given the operands of the call.
LEMMA FormalCore ==
    ASSUME NEW i, NEW j, NEW n \in Nat, n = Len(i.args), n = Len(Signature[i.fn].params),
           i.op = "call", HasOperands(i), IsFormal(j, i), NEW operands, operands = i.args
    PROVE  Core(WithOperands(j, operands)) = Core(i)
  <1>1. /\ IsRecord(j) /\ j.op = "call" /\ j.fn = i.fn /\ j.src = i.src
        /\ j.args = [k \in 1 .. n |-> <<"param", k>>]
    BY DEF IsFormal
  <1>2. operands = [k \in 1 .. n |-> operands[k]]
    BY DEF HasOperands
  <1>3. OperandsFor(j, operands) = operands
    <2> PICK formals : formals = j.args
      OBVIOUS
    <2>1. DOMAIN formals = 1 .. n
      BY <1>1
    <2>2. ASSUME NEW k \in 1 .. n PROVE formals[k][1] = "param" /\ formals[k][2] = k
      <3>1. formals[k] = <<"param", k>>
        BY <1>1
      <3> QED
        BY <3>1
    <2>3. OperandsFor(j, operands) =
            [k \in DOMAIN formals |->
               IF formals[k][1] = "param" THEN operands[formals[k][2]] ELSE formals[k]]
      BY DEF OperandsFor
    <2>4. OperandsFor(j, operands) = [k \in 1 .. n |-> operands[k]]
      BY <2>1, <2>2, <2>3, Zenon
    <2> QED
      BY <1>2, <2>4
  <1> PICK r : r = WithOperands(j, operands)
    OBVIOUS
  <1>4. r.args = OperandsFor(j, operands) /\ r.op = j.op /\ r.fn = j.fn /\ r.src = j.src
    BY <1>1, WithOperandsIs
  <1> QED
    BY <1>1, <1>3, <1>4, Zenon DEF Core

\* All but the call that was replaced do what they did.
LEMMA WrappedDoes ==
    ASSUME NEW gs, NEW fs, NEW a, NEW c, NEW name, NEW b, NEW w, NEW e, Runs(fs), Runs(gs),
           HasWrapped(gs, fs, a, c, name, b, w), StandsFor(fs, a, c, name, b, w, e),
           NEW i, i \in InstructionsOf(fs), i \in InstructionsOf(gs)
    PROVE  Own(Does(gs, i)) = Own(Does(fs, i))
  <1>1. CASE ~IsWrapperCall(i)
    BY <1>1, OwnDoes
  <1>2. CASE IsWrapperCall(i)
    <2>1. PICK g \in DOMAIN fs : fs[g].name = i.fn /\ IsWrapper(fs[g].name)
      BY <1>2, OwnDoes
    <2>2. g # a
      BY <2>1 DEF StandsFor
    <2>3. g \in DOMAIN gs /\ gs[g] = fs[g]
      <3>1. Len(fs) \in Nat /\ DOMAIN fs = 1 .. Len(fs)
        BY RunsIs
      <3>2. g \in 1 .. Len(fs) + 1
        BY <3>1
      <3> QED
        BY <2>2, <3>2 DEF HasWrapped
    <2>4. PICK d : Forwards(fs[g].body, d)
      BY <2>1 DEF Runs
    <2>5. Own(Does(fs, i)) = <<Core(WithOperands(fs[g].body[d], i.args))>>
      BY <1>2, <2>1, <2>4, OwnDoes
    <2>6. Own(Does(gs, i)) = <<Core(WithOperands(gs[g].body[d], i.args))>>
      BY <1>2, <2>1, <2>3, <2>4, OwnDoes
    <2> QED
      BY <2>3, <2>5, <2>6
  <1> QED
    BY <1>1, <1>2

\* The call of the wrapper makes the call that it replaced.
LEMMA WrappedObserved ==
    ASSUME NEW gs, NEW fs, NEW a, NEW c, NEW name, NEW b, NEW w, NEW e, Runs(fs), Runs(gs),
           HasWrapped(gs, fs, a, c, name, b, w), StandsFor(fs, a, c, name, b, w, e),
           fs[a].body[c].src # 0,
           Core(WithOperands(b[e], w.args)) = Core(fs[a].body[c]), NEW f \in DOMAIN fs
    PROVE  f \in DOMAIN gs /\ Observed(gs, f) = Observed(fs, f)
  <1>0. Len(fs) \in Nat /\ DOMAIN fs = 1 .. Len(fs)
    BY RunsIs
  <1>1. f \in DOMAIN gs /\ Len(fs) + 1 \in DOMAIN gs /\ a \in DOMAIN gs
    <2>1. f \in 1 .. Len(fs) + 1 /\ Len(fs) + 1 \in 1 .. Len(fs) + 1 /\ a \in 1 .. Len(fs) + 1
      BY <1>0 DEF StandsFor
    <2> QED
      BY <2>1 DEF HasWrapped
  <1>2. /\ a \in DOMAIN fs /\ c \in DOMAIN fs[a].body
        /\ w.op = "call" /\ w.fn = name /\ IsWrapper(name) /\ Forwards(b, e)
        /\ fs[a].body[c].fn \notin Reserved
    BY DEF StandsFor
  <1>3. DOMAIN gs[f].body = DOMAIN fs[f].body
    BY DEF HasWrapped
  <1>4. ASSUME NEW k \in DOMAIN fs[f].body
        PROVE  Own(Does(gs, gs[f].body[k])) = Own(Does(fs, fs[f].body[k]))
    <2>1. fs[f].body[k] \in InstructionsOf(fs) /\ gs[f].body[k] \in InstructionsOf(gs)
      BY <1>1, <1>3, ModuleIs DEF Runs
    <2>2. CASE f # a \/ k # c
      <3>1. gs[f].body[k] = fs[f].body[k]
        BY <2>2 DEF HasWrapped
      <3> QED
        BY <2>1, <3>1, WrappedDoes
    <2>3. CASE f = a /\ k = c
      <3> PICK i : i = fs[a].body[c]
        OBVIOUS
      <3>1. i \in InstructionsOf(fs) /\ ~IsWrapperCall(i)
        BY <1>2, <2>1, <2>3 DEF IsWrapperCall, Reserved
      <3>2. Own(Does(fs, i)) = <<Core(i)>>
        <4>1. Own(Does(fs, i)) = OwnOf(i)
          BY <3>1, OwnDoes
        <4> QED
          BY <4>1 DEF OwnOf
      <3>3. gs[f].body[k] = w
        BY <2>3 DEF HasWrapped
      <3>4. w \in InstructionsOf(gs) /\ IsWrapperCall(w)
        BY <1>2, <2>1, <3>3 DEF IsWrapperCall, IsWrapper
      <3>5. gs[Len(fs) + 1].name = w.fn /\ gs[Len(fs) + 1].body = b
        BY <1>2 DEF HasWrapped
      <3>6. Own(Does(gs, w)) = <<Core(WithOperands(b[e], w.args))>>
        <4> PICK g \in DOMAIN gs : g = Len(fs) + 1
          BY <1>1
        <4>1. gs[g].name = w.fn /\ Forwards(gs[g].body, e) /\ gs[g].body = b
          BY <1>2, <3>5
        <4>2. Own(Does(gs, w)) = <<Core(WithOperands(gs[g].body[e], w.args))>>
          BY <3>4, <4>1, OwnDoes
        <4> QED
          BY <4>1, <4>2
      <3> QED
        BY <2>3, <3>2, <3>3, <3>6
    <2> QED
      BY <2>2, <2>3
  <1>5. [k \in DOMAIN gs[f].body |-> Own(Does(gs, gs[f].body[k]))]
          = [k \in DOMAIN fs[f].body |-> Own(Does(fs, fs[f].body[k]))]
    BY <1>3, <1>4
  <1> QED
    BY <1>1, <1>5 DEF Observed

\* So each function makes the calls that it made.
LEMMA WrappedMakesCalls ==
    ASSUME NEW gs, NEW fs, NEW ms, NEW a, NEW c, NEW name, NEW b, NEW w, NEW e,
           MakesCallsOf(fs, ms),
           HasWrapped(gs, fs, a, c, name, b, w), StandsFor(fs, a, c, name, b, w, e),
           IsModule(gs), \A i \in InstructionsOf(gs) : IsRecord(i),
           fs[a].body[c].src # 0, HasOperands(b[e]), PassesDeclared(b[e]),
           Core(WithOperands(b[e], w.args)) = Core(fs[a].body[c])
    PROVE  MakesCallsOf(gs, ms)
  <1>1. /\ Runs(fs)
        /\ \A i \in InstructionsOf(fs) : IsOwn(i)
        /\ \A f \in DOMAIN ms : f \in DOMAIN fs /\ Observed(fs, f) = Observed(ms, f)
    BY DEF MakesCallsOf
  <1>2. Runs(gs)
    BY <1>1, WrappedRuns
  <1>3. \A i \in InstructionsOf(gs) : IsOwn(i)
    BY <1>1, <1>2, WrappedOwn
  <1>4. \A f \in DOMAIN fs : f \in DOMAIN gs /\ Observed(gs, f) = Observed(fs, f)
    BY <1>1, <1>2, WrappedObserved
  <1> QED
    BY <1>1, <1>2, <1>3, <1>4 DEF MakesCallsOf

-----------------------------------------------------------------------------
(* The steps                                                               *)

LEMMA NoOwnIntrinsic ==
    ASSUME NEW i, IsOwn(i), IsIntrinsic(i)
    PROVE  i.src = 0
  BY DEF IsOwn, IsIntrinsic, Reserved, OwnFunctions

\* What the passes work on is made as NewInstruction makes it.
LEMMA MadeByPasses ==
    ASSUME PassesInv
    PROVE  \A i \in InstructionsOf(functions) : IsRecord(i)
  BY DEF PassesInv, ModuleInv, IsInstruction

LEMMA MadeByPassesNext ==
    ASSUME PassesInv', NEW gs, gs = functions'
    PROVE  \A i \in InstructionsOf(gs) : IsRecord(i)
  BY DEF PassesInv, ModuleInv, IsInstruction

LEMMA SameModuleKeepsRun ==
    ASSUME NEW strict \in BOOLEAN, RunInv(strict), functions' = functions, input' = input,
           pass' \in AfterRemoval => pass \in AfterRemoval, WaitingInv'
    PROVE  RunInv(strict)'
  BY DEF RunInv, Promised

LEMMA NotWaiting ==
    ASSUME pass' # "wrap_sinks" \/ calls_to_wrap' = <<>>
    PROVE  WaitingInv'
  <1>1. CASE pass' # "wrap_sinks"
    BY <1>1 DEF WaitingInv
  <1>2. CASE calls_to_wrap' = <<>>
    <2>1. Len(<<>>) = 0 /\ 1 .. 0 = {}
      OBVIOUS
    <2>2. 1 .. Len(calls_to_wrap') = {}
      BY <1>2, <2>1
    <2> QED
      BY <2>2 DEF WaitingInv
  <1> QED
    BY <1>1, <1>2

\* A visit that inserts nothing of the program, outside of WrapSinks and before
\* the removal.
LEMMA OrderedKeepsRun ==
    ASSUME NEW strict \in BOOLEAN, PassesInv', RunInv(strict), Ordered(functions', functions), input' = input,
           pass' \notin AfterRemoval, pass' # "wrap_sinks"
    PROVE  RunInv(strict)'
  <1> PICK gs : gs = functions'
    OBVIOUS
  <1>1. MakesCallsOf(gs, Promised(strict))
    BY MadeByPassesNext, OrderedMakesCalls DEF RunInv
  <1>2. WaitingInv' /\ Promised(strict)' = Promised(strict)
    BY NotWaiting DEF Promised
  <1> QED
    BY <1>1, <1>2 DEF RunInv

LEMMA InitGivesRun ==
    ASSUME NEW strict \in BOOLEAN
    PROVE  Init => RunInv(strict)
  <1> SUFFICES ASSUME Init PROVE RunInv(strict)
    OBVIOUS
  <1>1. arguments \in Arguments /\ functions = arguments.input /\ input = functions /\ pass = "start"
    BY DEF Init
  <1>2. Clean(functions)
    BY <1>1, InputIsClean
  <1>3. MakesCallsOf(functions, Promised(strict))
    BY <1>1, <1>2, CleanRuns, PromisedOnly
  <1> QED
    BY <1>1, <1>3 DEF RunInv, WaitingInv, AfterRemoval

LEMMA StartKeepsRun ==
    ASSUME NEW strict \in BOOLEAN
    PROVE  CallsInv' /\ Start => RunInv(strict)'
  <1> SUFFICES ASSUME CallsInv', Start PROVE RunInv(strict)'
    OBVIOUS
  <1>1. input' = functions' /\ pass' \in {"print", "configure"}
    BY DEF Start
  <1>2. Clean(input')
    BY DEF CallsInv, InputInv
  <1>3. MakesCallsOf(functions, Promised(strict))'
    <2>1. MakesCallsOf(functions, input)'
      BY <1>1, <1>2, CleanRuns
    <2>2. CASE strict
      BY <2>1, <2>2 DEF Promised
    <2>3. CASE ~strict
      <3>1. Promised(strict)' = <<>> /\ DOMAIN <<>> = {}
        BY <2>3 DEF Promised
      <3> QED
        BY <2>1, <3>1 DEF MakesCallsOf
    <2> QED
      BY <2>2, <2>3
  <1>4. WaitingInv'
    BY <1>1, NotWaiting
  <1> QED
    BY <1>1, <1>3, <1>4 DEF RunInv, AfterRemoval

LEMMA PrintKeepsRun ==
    ASSUME NEW strict \in BOOLEAN
    PROVE  PassesInv /\ RunInv(strict) /\ PrintSourcesAndSinks => RunInv(strict)'
  <1> SUFFICES ASSUME PassesInv, RunInv(strict), PrintSourcesAndSinks PROVE RunInv(strict)'
    OBVIOUS
  <1>1. /\ pass = "print" /\ pass' = pass /\ at[2] <= Len(Body) /\ Visit(<<>>, Current)
        /\ input' = input
    BY DEF PrintSourcesAndSinks, Visiting
  <1>2. functions' = functions
    BY <1>1, VisitSame DEF PassesInv, ModuleInv
  <1> QED
    BY <1>1, <1>2, NotWaiting, SameModuleKeepsRun

LEMMA LoadInputFileKeepsRun ==
    ASSUME NEW strict \in BOOLEAN
    PROVE  RunInv(strict) /\ LoadInputFile => RunInv(strict)'
  <1> SUFFICES ASSUME RunInv(strict), LoadInputFile PROVE RunInv(strict)'
    OBVIOUS
  <1>1. pass' \in {"add_sources", "add_metadata"} /\ UNCHANGED <<functions, input>>
    BY DEF LoadInputFile, module_vars, history
  <1> QED
    BY <1>1, NotWaiting, SameModuleKeepsRun DEF AfterRemoval

LEMMA AddMetadataSkipKeepsRun ==
    ASSUME NEW strict \in BOOLEAN
    PROVE  PassesInv /\ RunInv(strict) /\ AddMetadata_Skip => RunInv(strict)'
  <1> SUFFICES ASSUME PassesInv, RunInv(strict), AddMetadata_Skip PROVE RunInv(strict)'
    OBVIOUS
  <1>1. /\ pass = "add_metadata" /\ pass' = pass /\ at[2] <= Len(Body) /\ Visit(<<>>, Current)
        /\ input' = input
    BY DEF AddMetadata_Skip, Visiting, history
  <1>2. functions' = functions
    BY <1>1, VisitSame DEF PassesInv, ModuleInv
  <1> QED
    BY <1>1, <1>2, NotWaiting, SameModuleKeepsRun

\* An instruction that only gets other metadata.
LEMMA NewMarkOrders ==
    ASSUME PassesInv, at[2] <= Len(Body), NEW new, Visit(<<>>, new), SameCore(new, Current)
    PROVE  Ordered(functions', functions)
  <1>1. Positioned
    BY DEF PassesInv, ModuleInv
  <1>2. PICK B : B = {}
    OBVIOUS
  <1>3. <<>> \in Seq(B)
    OBVIOUS
  <1>4. \A i \in B : IsExtra(i)
    BY <1>2
  <1> PICK before : before = <<>>
    OBVIOUS
  <1> QED
    BY <1>1, <1>3, <1>4, VisitOrders

LEMMA ConditionalUpdateKeepsRun ==
    ASSUME NEW strict \in BOOLEAN
    PROVE  PassesInv /\ PassesInv' /\ RunInv(strict) /\ ConditionalUpdate => RunInv(strict)'
  <1> SUFFICES ASSUME PassesInv, PassesInv', RunInv(strict), ConditionalUpdate PROVE RunInv(strict)'
    OBVIOUS
  <1>1. pass = "add_metadata" /\ pass' = pass /\ at[2] <= Len(Body) /\ input' = input
    BY DEF ConditionalUpdate, Visiting, history
  <1>2. PICK meta : Visit(<<>>, [Current EXCEPT !.meta = meta])
    BY DEF ConditionalUpdate
  <1>3. PICK new : new = WithMeta(Current, meta) /\ Visit(<<>>, new)
    BY <1>2 DEF WithMeta
  <1>4. SameCore(new, Current)
    <2>1. IsRecord(Current)
      BY <1>1, CurrentIs, MadeByPasses DEF PassesInv, ModuleInv
    <2> QED
      BY <1>3, <2>1, WithMetaIs DEF SameCore
  <1>5. Ordered(functions', functions)
    BY <1>1, <1>3, <1>4, NewMarkOrders
  <1> QED
    BY <1>1, <1>5, OrderedKeepsRun DEF AfterRemoval

LEMMA AddSourcesKeepsRun ==
    ASSUME NEW strict \in BOOLEAN
    PROVE  PassesInv /\ PassesInv' /\ RunInv(strict) /\ AddSources => RunInv(strict)'
  <1> SUFFICES ASSUME PassesInv, PassesInv', RunInv(strict), AddSources PROVE RunInv(strict)'
    OBVIOUS
  <1>1. pass' = "add_sources" /\ input' = input
    BY DEF AddSources, Visiting, history
  <1>2. Ordered(functions', functions)
    BY AddSourcesOrders
  <1> QED
    BY <1>1, <1>2, OrderedKeepsRun DEF AfterRemoval

LEMMA WrapSinksSkipKeepsRun ==
    ASSUME NEW strict \in BOOLEAN
    PROVE  PassesInv /\ RunInv(strict) /\ WrapSinks_Skip => RunInv(strict)'
  <1> SUFFICES ASSUME PassesInv, RunInv(strict), WrapSinks_Skip PROVE RunInv(strict)'
    OBVIOUS
  <1>1. /\ pass = "wrap_sinks" /\ pass' = pass /\ at[2] <= Len(Body) /\ Visit(<<>>, Current)
        /\ UNCHANGED <<input, calls_to_wrap, output_param_map>>
    BY DEF WrapSinks_Skip, Visiting, history, wrap_vars
  <1>2. functions' = functions /\ at'[1] = at[1]
    BY <1>1, VisitSame DEF PassesInv, ModuleInv
  <1>3. Body' = Body
    BY <1>2 DEF Body
  <1>4. WaitingInv'
    BY <1>1, <1>3 DEF RunInv, WaitingInv
  <1> QED
    BY <1>1, <1>2, <1>4, SameModuleKeepsRun

LEMMA WrapCrashesKeepsRun ==
    ASSUME NEW strict \in BOOLEAN
    PROVE  RunInv(strict) /\ WrapCrashes => RunInv(strict)'
  <1> SUFFICES ASSUME RunInv(strict), WrapCrashes PROVE RunInv(strict)'
    OBVIOUS
  <1>1. pass' = "crashed" /\ UNCHANGED <<functions, input>>
    BY DEF WrapCrashes, module_vars, history
  <1> QED
    BY <1>1, NotWaiting, SameModuleKeepsRun DEF AfterRemoval

LEMMA TagsKeepRun ==
    ASSUME NEW strict \in BOOLEAN
    PROVE  PassesInv /\ PassesInv' /\ RunInv(strict) /\ TagAnalysisResultsAsMetadata => RunInv(strict)'
  <1> SUFFICES ASSUME PassesInv, PassesInv', RunInv(strict), TagAnalysisResultsAsMetadata PROVE RunInv(strict)'
    OBVIOUS
  <1>1. pass = "tags" /\ pass' = pass /\ at[2] <= Len(Body) /\ input' = input
    BY DEF TagAnalysisResultsAsMetadata, Visiting
  <1>2. PICK answer : Visit(<<>>, SetTags(Current, answer))
    BY DEF TagAnalysisResultsAsMetadata
  <1>3. PICK new : new = SetTags(Current, answer)
    OBVIOUS
  <1>4. new = Current \/ \E tags : new = WithTags(Current, tags)
    BY <1>3 DEF SetTags, WithTags
  <1>5. SameCore(new, Current)
    <2>1. IsRecord(Current)
      BY <1>1, CurrentIs, MadeByPasses DEF PassesInv, ModuleInv
    <2>2. CASE new = Current
      BY <2>2 DEF SameCore
    <2>3. CASE \E tags : new = WithTags(Current, tags)
      BY <2>1, <2>3, WithTagsIs DEF SameCore
    <2> QED
      BY <1>4, <2>2, <2>3
  <1>6. Ordered(functions', functions)
    BY <1>1, <1>2, <1>3, <1>5, NewMarkOrders
  <1> QED
    BY <1>1, <1>6, OrderedKeepsRun DEF AfterRemoval

\* What is found to be wrapped is the current call, and all its outputs are known.
LEMMA WrapSinksCollectKeepsRun ==
    ASSUME NEW strict \in BOOLEAN
    PROVE  PassesInv /\ CallsInv /\ RunInv(strict) /\ WrapSinks_Collect => RunInv(strict)'
  <1> SUFFICES ASSUME PassesInv, CallsInv, RunInv(strict), WrapSinks_Collect PROVE RunInv(strict)'
    OBVIOUS
  <1> PICK here, n, h, c, outputs :
        /\ here = Current.addr /\ n = Len(calls_to_wrap) /\ h = at[1] /\ c = at[2]
        /\ outputs = ParamsOfType(Current, "output")
    OBVIOUS
  <1>1. /\ pass = "wrap_sinks" /\ pass' = pass /\ at[2] <= Len(Body) /\ Visit(<<>>, Current)
        /\ IsSink(Current) /\ ~IsWrapper(FunctionName) /\ input' = input
    BY DEF WrapSinks_Collect, Visiting, history
  <1>2. /\ calls_to_wrap' = IF here \in DOMAIN output_param_map THEN calls_to_wrap
                            ELSE Append(calls_to_wrap, here)
        /\ \A addr \in DOMAIN output_param_map :
             addr # here => output_param_map'[addr] = output_param_map[addr]
        /\ here \notin DOMAIN output_param_map => output_param_map'[here] = outputs
    BY DEF WrapSinks_Collect
  <1>3. /\ functions' = functions /\ at'[1] = h
        /\ Current = functions[h].body[c] /\ h \in DOMAIN functions
        /\ c \in DOMAIN functions[h].body
    BY <1>1, VisitSame, VisitReplaces DEF PassesInv, ModuleInv
  <1>4. Body' = Body /\ Body = functions[h].body /\ FunctionName = functions[h].name
    BY <1>3 DEF Body, FunctionName
  <1>5. h \in DOMAIN input
    <2>1. /\ Len(functions) = Len(input) + wrappers
          /\ \A w \in 1 .. wrappers : functions[Len(input) + w].name = WrapperName[w]
      BY DEF CallsInv, WrapperInv, HasWrappers
    <2>2. wrappers \in 0 .. Len(WrapperName)
      BY DEF PassesInv
    <2>3. /\ Len(functions) \in Nat /\ DOMAIN functions = 1 .. Len(functions)
          /\ Len(input) \in Nat /\ DOMAIN input = 1 .. Len(input)
      BY ModuleIs DEF PassesInv, ModuleInv, Positioned, CallsInv, InputInv, Clean
    <2>4. ~(h > Len(input))
      <3> SUFFICES ASSUME h > Len(input) PROVE FALSE
        OBVIOUS
      <3>0. PICK w, a, l, m : /\ w = h - Len(input) /\ a = Len(input) /\ l = Len(functions)
                              /\ m = Len(WrapperName)
        OBVIOUS
      <3>3. /\ a \in Nat /\ l \in Nat /\ m \in Nat /\ wrappers \in 0 .. m /\ l = a + wrappers
            /\ h \in 1 .. l /\ h > a /\ w = h - a
        BY <1>3, <2>1, <2>2, <2>3, <3>0, WrappersAreReserved
      <3>4. w \in 1 .. wrappers /\ w \in 1 .. m /\ h = a + w
        BY <3>3
      <3>1. w \in 1 .. wrappers /\ w \in 1 .. Len(WrapperName) /\ h = Len(input) + w
        BY <3>0, <3>4
      <3>2. FunctionName = WrapperName[w]
        BY <1>4, <2>1, <3>1
      <3> QED
        BY <1>1, <3>1, <3>2, WrappersAreReserved DEF IsWrapper
    <2> QED
      BY <1>3, <2>3, <2>4
  <1>6. here \notin DOMAIN output_param_map
    <2>1. IsFound(h, c)
      BY <1>1, <1>3, <1>5 DEF CallsInv, SinksInv
    <2>2. ~Passed(h, c)
      <3>1. h \in Nat /\ c \in Nat
        <4>1. Runs(functions)
          BY DEF RunInv, MakesCallsOf
        <4>2. /\ DOMAIN functions = 1 .. Len(functions)
              /\ functions[h].body \in Seq(InstructionsOf(functions))
          BY <1>3, <4>1, RunsIs
        <4> QED
          BY <1>3, <4>2
      <3> QED
        BY <3>1 DEF Passed
    <2> QED
      BY <1>1, <1>3, <2>1, <2>2 DEF IsFound
  <1>7. /\ calls_to_wrap \in Seq(DOMAIN output_param_map) /\ n \in Nat
        /\ \A m \in 1 .. n : calls_to_wrap[m] \in DOMAIN output_param_map
    BY DEF PassesInv, WorkListInv
  <1>8. /\ Len(calls_to_wrap') = n + 1 /\ calls_to_wrap'[n + 1] = here
        /\ \A m \in 1 .. n : calls_to_wrap'[m] = calls_to_wrap[m]
    <2> PICK s, t, D : s = calls_to_wrap /\ t = Append(s, here) /\ D = DOMAIN output_param_map \cup {here}
      OBVIOUS
    <2>1. s \in Seq(D) /\ here \in D /\ n = Len(s)
      BY <1>7, SeqMonotonic
    <2>2. Len(t) = n + 1 /\ t[n + 1] = here /\ \A m \in 1 .. n : t[m] = s[m]
      BY <2>1
    <2> QED
      BY <1>2, <1>6, <2>2
  <1>9. ASSUME NEW m \in 1 .. n + 1, NEW k \in DOMAIN Body, Body[k].addr = calls_to_wrap'[m]
        PROVE  /\ IsSink(Body[k])
               /\ output_param_map'[calls_to_wrap'[m]] = ParamsOfType(Body[k], "output")
    <2>1. m \in 1 .. n \/ m = n + 1
      BY <1>7
    <2>2. CASE m \in 1 .. n
      <3>1. calls_to_wrap'[m] = calls_to_wrap[m] /\ calls_to_wrap[m] \in DOMAIN output_param_map
        BY <1>7, <1>8, <2>2
      <3>2. output_param_map'[calls_to_wrap[m]] = output_param_map[calls_to_wrap[m]]
        BY <1>2, <1>6, <3>1
      <3>3. /\ IsSink(Body[k])
            /\ output_param_map[calls_to_wrap[m]] = ParamsOfType(Body[k], "output")
        BY <1>1, <1>9, <2>2, <3>1 DEF RunInv, WaitingInv
      <3> QED
        BY <3>1, <3>2, <3>3
    <2>3. CASE m = n + 1
      <3>1. Distinct(functions) /\ here # 0
        <4>1. IsInstruction(Current) /\ Current.meta # {}
          BY <1>1, CurrentIs DEF PassesInv, ModuleInv, IsSink, HasParamOfType
        <4> QED
          BY <1>1, <4>1 DEF IsInstruction, PassesInv, AddressInv, BeforeTags
      <3>2. functions[h].body[k].addr = functions[h].body[c].addr
        BY <1>3, <1>4, <1>8, <1>9, <2>3
      <3>3. k = c
        BY <1>3, <1>4, <3>1, <3>2 DEF Distinct
      <3> QED
        BY <1>1, <1>2, <1>3, <1>4, <1>6, <1>8, <2>3, <3>3
    <2> QED
      BY <2>1, <2>2, <2>3
  <1>10. WaitingInv'
    BY <1>4, <1>8, <1>9 DEF WaitingInv
  <1> QED
    BY <1>1, <1>3, <1>10, SameModuleKeepsRun

LEMMA RemoveSourcesKeepsRun ==
    ASSUME NEW strict \in BOOLEAN
    PROVE  PassesInv /\ PassesInv' /\ RunInv(strict) /\ RemoveSources => RunInv(strict)'
  <1> SUFFICES ASSUME PassesInv, PassesInv', RunInv(strict), RemoveSources PROVE RunInv(strict)'
    OBVIOUS
  <1>1. pass' = "dependency_map" /\ input' = input
    BY DEF RemoveSources, history
  <1>2. \A i \in InstructionsOf(functions) : IsIntrinsic(i) => i.src = 0
    BY NoOwnIntrinsic DEF RunInv, MakesCallsOf
  <1>3. Ordered(functions, functions')
    BY <1>2, RemoveSourcesOrders
  <1> PICK gs : gs = functions'
    OBVIOUS
  <1>4. MakesCallsOf(gs, Promised(strict))
    BY <1>3, MadeByPassesNext, OrderedMakesCalls DEF RunInv
  <1>5. ASSUME NEW f \in DOMAIN gs, NEW k \in DOMAIN gs[f].body PROVE ~IsIntrinsic(gs[f].body[k])
    <2>1. f \in DOMAIN functions
      BY <1>3 DEF Ordered
    <2> PICK P, b, r, S : /\ b = functions[f].body /\ r = gs[f].body /\ S = InstructionsOf(functions)
                          /\ P = {l \in DOMAIN b : ~IsIntrinsic(b[l])}
      OBVIOUS
    <2>2. r = AtPositions(b, P)
      <3>0. PICK R : R = AtPositions(b, P)
        OBVIOUS
      <3>1. gs[f] = [functions[f] EXCEPT !.body = R]
        BY <2>1, <3>0, Zenon DEF RemoveSources
      <3>2. functions[f] = [name |-> functions[f].name, body |-> functions[f].body]
        BY <2>1, ModuleIs DEF PassesInv, ModuleInv, Positioned
      <3> QED
        BY <3>0, <3>1, <3>2
    <2>3. b \in Seq(S)
      BY <2>1, ModuleIs DEF PassesInv, ModuleInv, Positioned
    <2>4. \E to : Chosen(to, r, b, P)
      <3>1. P \subseteq DOMAIN b
        OBVIOUS
      <3> QED
        BY <2>2, <2>3, <3>1, AtPositionsChooses
    <2>5. k \in 1 .. Len(r)
      BY <1>4, ModuleIs DEF MakesCallsOf, Runs
    <2>6. PICK l : l \in P /\ r[k] = b[l]
      BY <2>4, <2>5 DEF Chosen
    <2> QED
      BY <2>6
  <1>6. \A i \in InstructionsOf(gs) : ~IsIntrinsic(i)
    BY <1>5, InstructionIsIn
  <1>7. WaitingInv' /\ Promised(strict)' = Promised(strict)
    BY <1>1, NotWaiting DEF Promised
  <1> QED
    BY <1>1, <1>4, <1>6, <1>7 DEF RunInv

LEMMA OutputDependencyMapKeepsRun ==
    ASSUME NEW strict \in BOOLEAN
    PROVE  PassesInv /\ RunInv(strict) /\ OutputDependencyMap => RunInv(strict)'
  <1> SUFFICES ASSUME PassesInv, RunInv(strict), OutputDependencyMap PROVE RunInv(strict)'
    OBVIOUS
  <1>1. /\ pass = "dependency_map" /\ pass' = pass /\ at[2] <= Len(Body) /\ Visit(<<>>, Current)
        /\ input' = input
    BY DEF OutputDependencyMap, Visiting, history
  <1>2. functions' = functions
    BY <1>1, VisitSame DEF PassesInv, ModuleInv
  <1> QED
    BY <1>1, <1>2, NotWaiting, SameModuleKeepsRun

LEMMA NoDependencyMapKeepsRun ==
    ASSUME NEW strict \in BOOLEAN
    PROVE  RunInv(strict) /\ NoDependencyMap => RunInv(strict)'
  <1> SUFFICES ASSUME RunInv(strict), NoDependencyMap PROVE RunInv(strict)'
    OBVIOUS
  <1>1. /\ pass = "dependency_map" /\ pass' = "configure_logging"
        /\ UNCHANGED <<functions, input>>
    BY DEF NoDependencyMap, module_vars, history
  <1> QED
    BY <1>1, NotWaiting, SameModuleKeepsRun DEF AfterRemoval

LEMMA LoadConfigurationKeepsRun ==
    ASSUME NEW strict \in BOOLEAN
    PROVE  RunInv(strict) /\ LoadConfiguration => RunInv(strict)'
  <1> SUFFICES ASSUME RunInv(strict), LoadConfiguration PROVE RunInv(strict)'
    OBVIOUS
  <1>1. /\ pass = "configure_logging" /\ pass' \in {"add_logging", "done"}
        /\ UNCHANGED <<functions, input>>
    BY DEF LoadConfiguration, module_vars, history
  <1> QED
    BY <1>1, NotWaiting, SameModuleKeepsRun DEF AfterRemoval

LEMMA AddLoggingKeepsRun ==
    ASSUME NEW strict \in BOOLEAN
    PROVE  PassesInv /\ PassesInv' /\ RunInv(strict) /\ AddLogging => RunInv(strict)'
  <1> SUFFICES ASSUME PassesInv, PassesInv', RunInv(strict), AddLogging PROVE RunInv(strict)'
    OBVIOUS
  <1>1. pass = "add_logging" /\ pass' = pass /\ at[2] <= Len(Body) /\ input' = input
    BY DEF AddLogging, Visiting, history
  <1> PICK gs, before : gs = functions' /\ before = LoggerBlockHere
    OBVIOUS
  <1>2. Ordered(gs, functions)
    BY AddLoggingOrders
  <1>3. MakesCallsOf(gs, Promised(strict))
    BY <1>2, MadeByPassesNext, OrderedMakesCalls DEF RunInv
  <1>4. PICK S : before \in Seq(S) /\ \A i \in S : IsLoggerCall(i)
    BY AddLoggingVisit
  <1>5. Visit(before, Current)
    BY AddLoggingVisit
  <1>6. InstructionsOf(gs) \subseteq InstructionsOf(functions) \cup ToSet(before) \cup {Current}
    BY <1>1, <1>4, <1>5, VisitStep DEF PassesInv, ModuleInv
  <1>7. ToSet(before) \subseteq S
    BY <1>4 DEF ToSet
  <1>8. Current \in InstructionsOf(functions)
    BY <1>1, CurrentIs DEF PassesInv, ModuleInv
  <1>9. \A i \in InstructionsOf(functions) : ~IsIntrinsic(i)
    BY <1>1 DEF RunInv, AfterRemoval
  <1>10. \A i \in S : ~IsIntrinsic(i)
    BY <1>4 DEF IsLoggerCall, IsIntrinsic
  <1>11. \A i \in InstructionsOf(gs) : ~IsIntrinsic(i)
    BY <1>6, <1>7, <1>8, <1>9, <1>10
  <1>12. WaitingInv' /\ Promised(strict)' = Promised(strict)
    BY <1>1, NotWaiting DEF Promised
  <1> QED
    BY <1>1, <1>3, <1>11, <1>12 DEF RunInv

LEMMA EndOfFunctionKeepsRun ==
    ASSUME NEW strict \in BOOLEAN
    PROVE  PassesInv /\ CallsInv /\ RunInv(strict) /\ EndOfFunction => RunInv(strict)'
  <1> SUFFICES ASSUME PassesInv, CallsInv, RunInv(strict), EndOfFunction PROVE RunInv(strict)'
    OBVIOUS
  <1>1. /\ functions' = functions /\ input' = input /\ calls_to_wrap' = calls_to_wrap
        /\ pass' = pass \/ pass' = NextPass[pass]
        /\ pass = "wrap_sinks" => calls_to_wrap = <<>>
        /\ pass \in {"print", "add_metadata", "add_sources", "wrap_sinks", "tags",
                     "dependency_map", "add_logging"}
    BY EndIs
  <1>2. calls_to_wrap' = <<>> \/ pass' # "wrap_sinks"
    <2>1. CASE pass \in {"wrap_sinks"}
      BY <1>1, <2>1
    <2>2. CASE pass \notin {"wrap_sinks"}
      BY <1>1, <2>2, NothingWaits
    <2> QED
      BY <2>1, <2>2
  <1>3. WaitingInv'
    BY <1>2, NotWaiting
  <1>4. CASE pass = "print"
    <2>1. \A i \in InstructionsOf(functions) : ~IsIntrinsic(i)
      <3>1. Clean(functions)
        BY <1>4 DEF CallsInv, InputInv, UntouchedInv, Untouched
      <3>2. \A i \in InstructionsOf(functions) : i.fn \notin Reserved
        BY <3>1, CleanIs
      <3> QED
        BY <3>2 DEF IsIntrinsic, Reserved, OwnFunctions
    <2> QED
      BY <1>1, <1>3, <2>1 DEF RunInv, Promised
  <1>5. CASE pass # "print"
    <2>1. pass' \in AfterRemoval => pass \in AfterRemoval
      BY <1>1, <1>5 DEF NextPass, AfterRemoval
    <2> QED
      BY <1>1, <1>3, <2>1, SameModuleKeepsRun
  <1> QED
    BY <1>4, <1>5

LEMMA StutterKeepsRun ==
    ASSUME NEW strict \in BOOLEAN
    PROVE  RunInv(strict) /\ UNCHANGED vars => RunInv(strict)'
  <1> SUFFICES ASSUME RunInv(strict), UNCHANGED vars PROVE RunInv(strict)'
    OBVIOUS
  <1>1. UNCHANGED <<functions, at, pass, input, calls_to_wrap, output_param_map>>
    BY DEF vars, module_vars, history, wrap_vars
  <1>2. Body' = Body
    BY <1>1 DEF Body
  <1>3. WaitingInv'
    BY <1>1, <1>2 DEF RunInv, WaitingInv
  <1> QED
    BY <1>1, <1>3, SameModuleKeepsRun

-----------------------------------------------------------------------------
(* WrapCall, and what the program must be for it                           *)

\* A sink that can be wrapped, because the parameters that it sends out are
\* declared, is a call that passes no more than what is declared.  WrapSinks.cpp
\* passes the declared parameters on, and for an invoke it makes a call.
TakesWhatItDeclares(i) == i.op = "call" /\ Len(i.args) = Len(Signature[i.fn].params)

SinksTakeWhatTheyDeclare ==
    \A i \in InstructionsOf(functions) :
      IsSink(i) /\ ToSet(ParamsOfType(i, "output")) \subseteq DOMAIN Signature[i.fn].params =>
        TakesWhatItDeclares(i)

\* WrapSinks takes a call of the program, outside of the wrappers.
LEMMA WrapCallGives ==
    ASSUME NEW strict \in BOOLEAN, PassesInv, CallsInv, RunInv(strict), WrapCall
    PROVE  \E a, c, call : /\ a = at[1] /\ c = CB /\ call = Body[CB] /\ call = functions[a].body[c]
                           /\ a \in DOMAIN functions /\ c \in DOMAIN functions[a].body
                           /\ ~IsWrapper(functions[a].name)
                           /\ call \in InstructionsOf(functions) /\ call.src # 0
                           /\ call.fn \notin Reserved /\ HasOperands(call)
                           /\ Len(Signature[call.fn].params) <= Len(call.args)
                           /\ SinksTakeWhatTheyDeclare => TakesWhatItDeclares(call)
                           /\ Signature[call.fn].params \in Seq(STRING)
                           /\ Outputs = ParamsOfType(call, "output") /\ Outputs \in Seq(Nat)
  <1>1. Wrapping /\ pass = "wrap_sinks" /\ calls_to_wrap # <<>> /\ OutputsExist
    BY DEF WrapCall, Wrapping
  <1>2. /\ Len(calls_to_wrap) \in Nat \ {0}
        /\ Last(calls_to_wrap) = calls_to_wrap[Len(calls_to_wrap)]
        /\ CB \in DOMAIN Body /\ Body[CB].addr = Last(calls_to_wrap)
        /\ Body[CB] \in InstructionsOf(functions) /\ Body[CB].meta # {}
        /\ Outputs \in Seq(Nat)
    BY <1>1, CallToWrap
  <1>3. PICK a, c, call : a = at[1] /\ c = CB /\ call = Body[CB]
    OBVIOUS
  <1>4. Body = functions[a].body /\ FunctionName = functions[a].name /\ a \in DOMAIN functions
    BY <1>3 DEF Body, FunctionName, PassesInv, ModuleInv, Positioned
  <1>5. ~IsWrapper(functions[a].name)
    BY <1>1, <1>4 DEF PassesInv, WorkListInv
  <1>6. IsSink(call) /\ Outputs = ParamsOfType(call, "output")
    <2>1. Len(calls_to_wrap) \in 1 .. Len(calls_to_wrap)
      BY <1>2
    <2> QED
      BY <1>1, <1>2, <1>3, <2>1 DEF RunInv, WaitingInv, Outputs
  <1>7. call.src # 0 /\ call.fn \notin Reserved
    BY <1>2, <1>3 DEF CallsInv, NumbersInv, IsSiteOnce
  <1>8. HasOperands(call) /\ Len(Signature[call.fn].params) <= Len(call.args)
    <2>1. HasOperands(call) /\ PassesDeclared(call)
      BY <1>2, <1>3, <1>7 DEF RunInv, MakesCallsOf, IsOwn
    <2> QED
      BY <1>6, <2>1 DEF PassesDeclared, IsSink
  <1>9. SinksTakeWhatTheyDeclare => TakesWhatItDeclares(call)
    <2>1. ToSet(ParamsOfType(call, "output")) \subseteq DOMAIN Signature[call.fn].params
      BY <1>1, <1>3, <1>6 DEF OutputsExist
    <2> QED
      BY <1>2, <1>3, <1>6, <2>1 DEF SinksTakeWhatTheyDeclare
  <1>10. Signature[call.fn].params \in Seq(STRING)
    <2>1. call.fn \in DOMAIN Signature
      BY <1>2, <1>3 DEF PassesInv, ModuleInv, IsInstruction
    <2> QED
      BY <2>1, SignatureAssumption
  <1>11. /\ a = at[1] /\ c = CB /\ call = Body[CB] /\ call = functions[a].body[c]
         /\ a \in DOMAIN functions /\ c \in DOMAIN functions[a].body
         /\ call \in InstructionsOf(functions) /\ Outputs \in Seq(Nat)
    BY <1>2, <1>3, <1>4
  <1> QED
    BY <1>5, <1>6, <1>7, <1>8, <1>9, <1>10, <1>11, Zenon

LEMMA WrappingHas ==
    ASSUME at' = at, NEW b, NEW w, NEW orig, NEW new, IsWrapped(b, w, orig, new), NEW gs, gs = functions',
           NEW a, a = at[1], NEW c, c = CB
    PROVE  HasWrapped(gs, functions, a, c, NextWrapper, b, w)
  <1>1. Body' = gs[a].body /\ Body = functions[a].body
    BY DEF Body
  <1>2. /\ DOMAIN gs = 1 .. Len(functions) + 1
        /\ gs[Len(functions) + 1] = [name |-> NextWrapper, body |-> b]
        /\ \A f \in DOMAIN functions : gs[f].name = functions[f].name
        /\ \A f \in DOMAIN functions \ {a} : gs[f] = functions[f]
        /\ DOMAIN Body' = DOMAIN Body /\ Body'[c] = w
        /\ \A k \in DOMAIN Body \ {c} : Body'[k] = Body[k]
    BY DEF IsWrapped
  <1>3. gs[Len(functions) + 1].name = NextWrapper /\ gs[Len(functions) + 1].body = b
    BY <1>2
  <1> QED
    BY <1>1, <1>2, <1>3 DEF HasWrapped

LEMMA FormalHasOperands ==
    ASSUME NEW j, NEW i, IsFormal(j, i), Signature[i.fn].params \in Seq(STRING)
    PROVE  HasOperands(j) /\ PassesDeclared(j) /\ Len(Signature[i.fn].params) \in Nat
  <1> PICK n, args : n = Len(Signature[i.fn].params) /\ args = j.args
    OBVIOUS
  <1>1. n \in Nat
    OBVIOUS
  <1>2. args = [k \in 1 .. n |-> <<"param", k>>]
    BY DEF IsFormal
  <1>3. args = [k \in 1 .. n |-> args[k]]
    BY <1>2
  <1>4. PassesDeclared(j)
    <2>1. Len(args) = n /\ n <= n
      BY <1>1, <1>2
    <2>2. j.fn = i.fn
      BY DEF IsFormal
    <2> QED
      BY <2>1, <2>2 DEF PassesDeclared
  <1> QED
    BY <1>1, <1>3, <1>4, OperandsAreSequence

\* WrapSinks keeps the calls of each function.
LEMMA WrapCallMakesCalls ==
    ASSUME NEW strict \in BOOLEAN, PassesInv, PassesInv', CallsInv, RunInv(strict),
           strict => SinksTakeWhatTheyDeclare, WrapCall
    PROVE  MakesCallsOf(functions', Promised(strict))
  <1>1. wrappers < Len(WrapperName) /\ at' = at
    BY DEF WrapCall
  <1>2. PICK b, w, orig, new : IsWrapped(b, w, orig, new)
    BY WrapCallIs
  <1>3. PICK a, c, call :
          /\ a = at[1] /\ c = CB /\ call = Body[CB] /\ call = functions[a].body[c]
          /\ a \in DOMAIN functions /\ c \in DOMAIN functions[a].body
          /\ ~IsWrapper(functions[a].name)
          /\ call \in InstructionsOf(functions) /\ call.src # 0
          /\ call.fn \notin Reserved /\ HasOperands(call)
          /\ SinksTakeWhatTheyDeclare => TakesWhatItDeclares(call)
          /\ Signature[call.fn].params \in Seq(STRING)
          /\ Outputs \in Seq(Nat)
    BY WrapCallGives
  <1>4. PICK gs : gs = functions'
    OBVIOUS
  <1>5. HasWrapped(gs, functions, a, c, NextWrapper, b, w) /\ IsModule(gs)
    <2>1. HasWrapped(gs, functions, a, c, NextWrapper, b, w)
      BY <1>1, <1>2, <1>3, <1>4, WrappingHas
    <2> QED
      BY <1>2, <1>4, <2>1 DEF IsWrapped
  <1>6. /\ b = WrapperBody(call, orig) /\ w.args = call.args
        /\ w.op = "call" /\ w.fn = NextWrapper /\ w.src = 0
    BY <1>2, <1>3 DEF IsWrapped, Wraps
  <1>7. IsInstruction(call)
    BY <1>3 DEF PassesInv, ModuleInv
  <1>8. PICK e : Forwards(b, e) /\ IsFormal(b[e], call)
    BY <1>3, <1>6, <1>7, WrapperBodyHolds
  <1>9. /\ \A f \in DOMAIN functions : functions[f].name # NextWrapper
        /\ IsWrapper(NextWrapper)
    BY <1>1, NextWrapperIs DEF IsWrapper
  <1>10. StandsFor(functions, a, c, NextWrapper, b, w, e)
    BY <1>3, <1>6, <1>8, <1>9 DEF StandsFor
  <1>11. HasOperands(b[e]) /\ PassesDeclared(b[e]) /\ Len(Signature[call.fn].params) \in Nat
    BY <1>3, <1>8, FormalHasOperands
  <1>12. ASSUME strict PROVE Core(WithOperands(b[e], w.args)) = Core(functions[a].body[c])
    <2>0. TakesWhatItDeclares(call)
      BY <1>3, <1>12
    <2> PICK n, operands : n = Len(call.args) /\ operands = w.args
      OBVIOUS
    <2>1. /\ n \in Nat /\ n = Len(call.args) /\ n = Len(Signature[call.fn].params)
          /\ operands = call.args /\ call.op = "call"
      BY <1>6, <1>11, <2>0 DEF TakesWhatItDeclares
    <2>2. Core(WithOperands(b[e], operands)) = Core(call)
      BY <1>3, <1>8, <2>1, FormalCore
    <2> QED
      BY <1>3, <2>2
  <1>13. \A i \in InstructionsOf(gs) : IsRecord(i)
    BY <1>4, MadeByPassesNext
  <1>14. functions[a].body[c].src # 0 /\ MakesCallsOf(functions, Promised(strict))
    BY <1>3 DEF RunInv
  <1>15. CASE strict
    <2>1. MakesCallsOf(gs, Promised(strict))
      BY <1>5, <1>10, <1>11, <1>12, <1>13, <1>14, <1>15, WrappedMakesCalls
    <2> QED
      BY <1>4, <2>1
  <1>16. CASE ~strict
    <2>1. Runs(functions) /\ \A i \in InstructionsOf(functions) : IsOwn(i)
      BY <1>14 DEF MakesCallsOf
    <2>2. Runs(gs)
      BY <1>5, <1>10, <1>13, <2>1, WrappedRuns
    <2>3. \A i \in InstructionsOf(gs) : IsOwn(i)
      BY <1>5, <1>10, <1>11, <2>1, <2>2, WrappedOwn
    <2>4. Promised(strict) = <<>> /\ DOMAIN <<>> = {}
      BY <1>16 DEF Promised
    <2> QED
      BY <1>4, <2>2, <2>3, <2>4 DEF MakesCallsOf
  <1> QED
    BY <1>15, <1>16

\* The calls that still wait are as they were.
LEMMA WrapCallKeepsWaiting ==
    ASSUME NEW strict \in BOOLEAN, PassesInv, PassesInv', RunInv(strict), WrapCall
    PROVE  WaitingInv'
  <1>1. /\ Wrapping /\ pass = "wrap_sinks" /\ pass' = pass
        /\ calls_to_wrap' = Front(calls_to_wrap)
        /\ UNCHANGED <<at, output_param_map>>
    BY DEF WrapCall, Wrapping
  <1>2. PICK b, w, orig, new : IsWrapped(b, w, orig, new)
    BY WrapCallIs
  <1>3. calls_to_wrap \in Seq(DOMAIN output_param_map) /\ Len(calls_to_wrap) \in Nat \ {0}
    BY <1>1, CallToWrap
  <1>4. /\ Len(calls_to_wrap') = Len(calls_to_wrap) - 1
        /\ \A n \in 1 .. Len(calls_to_wrap) - 1 : calls_to_wrap'[n] = calls_to_wrap[n]
    <2> PICK D, s, t : D = DOMAIN output_param_map /\ s = calls_to_wrap /\ t = calls_to_wrap'
      OBVIOUS
    <2>1. s \in Seq(D) /\ Len(s) \in Nat /\ Len(s) - 1 \in Nat
      BY <1>3
    <2>2. t = [n \in 1 .. Len(s) - 1 |-> s[n]]
      BY <1>1 DEF Front
    <2>3. Len(t) = Len(s) - 1 /\ \A n \in 1 .. Len(s) - 1 : t[n] = s[n]
      BY <2>1, <2>2
    <2> QED
      BY <2>3
  <1>5. /\ DOMAIN Body' = DOMAIN Body /\ Body'[CB] = w /\ w.meta = {}
        /\ \A k \in DOMAIN Body \ {CB} : Body'[k] = Body[k]
    BY <1>2 DEF IsWrapped
  <1>6. PICK gs, a, body : gs = functions' /\ a = at[1] /\ body = Body'
    OBVIOUS
  <1>7. body = gs[a].body /\ a \in DOMAIN gs
    BY <1>1, <1>6 DEF Body, PassesInv, ModuleInv, Positioned
  <1>8. Distinct(gs) /\ \A i \in InstructionsOf(gs) : IsInstruction(i)
    BY <1>1, <1>6 DEF PassesInv, AddressInv, BeforeTags, ModuleInv
  <1>9. ASSUME NEW n \in 1 .. Len(calls_to_wrap'), NEW k \in DOMAIN Body',
               Body'[k].addr = calls_to_wrap'[n]
        PROVE  /\ IsSink(Body'[k])
               /\ output_param_map'[calls_to_wrap'[n]] = ParamsOfType(Body'[k], "output")
    <2>1. PICK l \in DOMAIN body : body[l].addr = calls_to_wrap'[n] /\ body[l].meta # {}
      BY <1>6, <1>9 DEF PassesInv, WorkListInv
    <2>2. body[l].addr # 0
      <3>1. body[l] \in InstructionsOf(gs)
        BY <1>6, <1>7, <2>1, ModuleIs DEF PassesInv, ModuleInv, Positioned
      <3> QED
        BY <1>8, <2>1, <3>1 DEF IsInstruction
    <2>3. k = l
      BY <1>6, <1>7, <1>8, <1>9, <2>1, <2>2 DEF Distinct
    <2>4. k # CB
      BY <1>5, <1>6, <2>1, <2>3
    <2>5. Body'[k] = Body[k] /\ k \in DOMAIN Body
      BY <1>5, <1>9, <2>4
    <2>6. n \in 1 .. Len(calls_to_wrap) - 1 /\ n \in 1 .. Len(calls_to_wrap)
      BY <1>3, <1>4, <1>9
    <2>7. calls_to_wrap'[n] = calls_to_wrap[n]
      BY <1>4, <2>6
    <2>8. Body[k].addr = calls_to_wrap[n]
      BY <1>9, <2>5, <2>7
    <2>9. IsSink(Body[k]) /\ output_param_map[calls_to_wrap[n]] = ParamsOfType(Body[k], "output")
      BY <1>1, <2>5, <2>6, <2>8 DEF RunInv, WaitingInv
    <2> QED
      BY <1>1, <2>5, <2>7, <2>9
  <1> QED
    BY <1>9 DEF WaitingInv

LEMMA WrapCallKeepsRun ==
    ASSUME NEW strict \in BOOLEAN, strict => SinksTakeWhatTheyDeclare
    PROVE  PassesInv /\ PassesInv' /\ CallsInv /\ RunInv(strict) /\ WrapCall => RunInv(strict)'
  <1> SUFFICES ASSUME PassesInv, PassesInv', CallsInv, RunInv(strict), WrapCall
               PROVE  RunInv(strict)'
    OBVIOUS
  <1>1. pass' = "wrap_sinks" /\ Promised(strict)' = Promised(strict)
    BY DEF WrapCall, Wrapping, history, Promised
  <1>2. MakesCallsOf(functions', Promised(strict))
    BY WrapCallMakesCalls
  <1>3. WaitingInv'
    BY WrapCallKeepsWaiting
  <1> QED
    BY <1>1, <1>2, <1>3 DEF RunInv, AfterRemoval

\* No step breaks what holds of the module as it runs, or the promise.
LEMMA StepKeepsRun ==
    ASSUME NEW strict \in BOOLEAN, strict => SinksTakeWhatTheyDeclare,
           PassesInv, PassesInv', CallsInv, CallsInv', RunInv(strict), [Next]_vars
    PROVE  RunInv(strict)'
  BY StartKeepsRun, PrintKeepsRun, LoadInputFileKeepsRun, AddMetadataSkipKeepsRun,
     ConditionalUpdateKeepsRun, AddSourcesKeepsRun, WrapSinksSkipKeepsRun,
     WrapSinksCollectKeepsRun, WrapCallKeepsRun, WrapCrashesKeepsRun, TagsKeepRun,
     RemoveSourcesKeepsRun, NoDependencyMapKeepsRun, OutputDependencyMapKeepsRun,
     LoadConfigurationKeepsRun,
     AddLoggingKeepsRun, EndOfFunctionKeepsRun, StutterKeepsRun, Zenon DEF Next

\* What the module is in every state: the wrappers are there for the calls of
\* them, each forwards one call, and nothing else was added to the program than
\* what the passes add.
THEOREM CodeInvariant == Spec => []RunInv(FALSE)
  <1>1. Init => RunInv(FALSE)
    BY InitGivesRun
  <1>2. /\ PassesInv /\ PassesInv' /\ CallsInv /\ CallsInv' /\ RunInv(FALSE) /\ [Next]_vars
        => RunInv(FALSE)'
    BY StepKeepsRun
  <1> QED
    BY <1>1, <1>2, PassesInvariant, CallsInvariant, PTL DEF Spec

\* The calls of the program are kept in every state, if its sinks can be wrapped.
THEOREM RunInvariant == Spec /\ []SinksTakeWhatTheyDeclare => []RunInv(TRUE)
  <1>1. Init => RunInv(TRUE)
    BY InitGivesRun
  <1>2. /\ PassesInv /\ PassesInv' /\ CallsInv /\ CallsInv' /\ SinksTakeWhatTheyDeclare
        /\ RunInv(TRUE) /\ [Next]_vars
        => RunInv(TRUE)'
    BY StepKeepsRun
  <1> QED
    BY <1>1, <1>2, PassesInvariant, CallsInvariant, PTL DEF Spec

-----------------------------------------------------------------------------
(* What a run of the instrumented program has more *)

IsSeqOfSeqs(ss, n) ==
    DOMAIN ss = 1 .. n /\ ss = [k \in 1 .. n |-> ss[k]] /\ \A k \in 1 .. n : \E T : ss[k] \in Seq(T)

\* Each instruction of the run of a body is in the part that one instruction
\* of it stands for.
LEMMA FlattenOnly ==
    ASSUME NEW n \in Nat, NEW ss, IsSeqOfSeqs(ss, n), NEW i \in ToSet(FlattenSeq(ss))
    PROVE  \E k \in 1 .. n : i \in ToSet(ss[k])
  <1> PICK S : S = UNION {ToSet(ss[k]) : k \in 1 .. n}
    OBVIOUS
  <1>1. \A k \in 1 .. n : ss[k] \in Seq(S)
    <2> TAKE k \in 1 .. n
    <2>1. PICK T : ss[k] \in Seq(T)
      BY DEF IsSeqOfSeqs
    <2>2. ToSet(ss[k]) \subseteq S
      OBVIOUS
    <2> QED
      BY <2>1, <2>2 DEF ToSet
  <1>2. ss \in Seq(Seq(S))
    BY <1>1 DEF IsSeqOfSeqs
  <1>3. FlattenSeq(ss) \in Seq(S)
    BY <1>2, FlattenType
  <1>4. i \in S
    BY <1>3 DEF ToSet
  <1> QED
    BY <1>4

\* What an instruction of the run looks like, once the analysis is over.
MayStay(j) == j.src # 0 \/ j.op = "cast" \/ IsLoggerCall(j)

\* What is not an intrinsic may stay.
LEMMA ExtraMayStay ==
    ASSUME NEW i, NEW j, j.op = i.op, j.fn = i.fn, j.src = i.src,
           i.src # 0 \/ IsExtra(i), ~IsIntrinsic(i)
    PROVE  MayStay(j)
  BY DEF MayStay, IsExtra, IsIntrinsic, IsLoggerCall, OwnFunctions

\* So it is of all that a wrapper does.
LEMMA InlineKeeps ==
    ASSUME NEW S, NEW b \in Seq(S), \A i \in S : IsRecord(i) /\ ~IsIntrinsic(i),
           NEW c, Forwards(b, c), NEW operands
    PROVE  /\ \E T : Inline(b, operands) \in Seq(T)
           /\ \A j \in ToSet(Inline(b, operands)) : MayStay(j)
  <1> PICK P, r : P = Reached(b) /\ r = AtPositions(b, P)
    OBVIOUS
  <1>1. PICK to : Chosen(to, r, b, P) /\ r \in Seq(S)
    BY AtPositionsChooses
  <1>2. \A k \in 1 .. Len(r) : to[k] \in 1 .. Len(b) /\ to[k] \in P /\ r[k] = b[to[k]]
    BY <1>1 DEF Chosen, InOrder
  <1> PICK run : run = Inline(b, operands)
    OBVIOUS
  <1>3. /\ DOMAIN run = 1 .. Len(r) /\ Len(r) \in Nat
        /\ \A k \in 1 .. Len(r) : run[k] = WithOperands(r[k], operands)
        /\ run = [k \in 1 .. Len(r) |-> WithOperands(r[k], operands)]
    BY <1>1 DEF Inline
  <1>4. ASSUME NEW k \in 1 .. Len(r) PROVE MayStay(run[k])
    <2> PICK l, i : l = to[k] /\ i = r[k]
      OBVIOUS
    <2>1. l \in 1 .. Len(b) /\ l \in P /\ i = b[l] /\ i \in S
      BY <1>1, <1>2
    <2>2. i.op # "br" /\ i.op # "ret"
      <3>1. l \in 1 .. l
        BY <2>1
      <3> QED
        BY <2>1, <3>1 DEF Reached
    <2>3. i.src # 0 \/ IsExtra(i)
      BY <2>1, <2>2 DEF Forwards
    <2> PICK j : j = run[k]
      OBVIOUS
    <2>4. j.op = i.op /\ j.fn = i.fn /\ j.src = i.src
      <3>1. IsRecord(i) /\ j = WithOperands(i, operands)
        BY <1>3, <2>1
      <3> QED
        BY <3>1, WithOperandsIs
    <2> QED
      BY <2>1, <2>3, <2>4, ExtraMayStay
  <1>5. run \in Seq(ToSet(run))
    BY <1>3 DEF ToSet
  <1>6. \A j \in ToSet(run) : MayStay(j)
    BY <1>3, <1>4 DEF ToSet
  <1> QED
    BY <1>5, <1>6

\* So it is of all that an instruction of the program does.
LEMMA DoesKeeps ==
    ASSUME NEW fs, Runs(fs), \A i \in InstructionsOf(fs) : ~IsIntrinsic(i),
           NEW i \in InstructionsOf(fs), IsAddition(i)
    PROVE  /\ \E T : Does(fs, i) \in Seq(T)
           /\ \A j \in ToSet(Does(fs, i)) : MayStay(j)
  <1>1. CASE ~IsWrapperCall(i)
    <2>1. Does(fs, i) = <<i>>
      BY <1>1 DEF Does
    <2>2. MayStay(i)
      BY <1>1, ExtraMayStay DEF IsAddition
    <2>3. <<i>> \in Seq({i}) /\ ToSet(<<i>>) = {i}
      BY DEF ToSet
    <2> QED
      BY <2>1, <2>2, <2>3
  <1>2. CASE IsWrapperCall(i)
    <2>1. PICK g \in DOMAIN fs : fs[g].name = i.fn
      BY <1>2, RunsIs
    <2>2. Does(fs, i) = Inline(fs[g].body, i.args) /\ IsWrapper(fs[g].name)
      BY <1>2, <2>1, DoesInline
    <2> PICK b, S, args : b = fs[g].body /\ S = InstructionsOf(fs) /\ args = i.args
      OBVIOUS
    <2>3. /\ b \in Seq(S) /\ (\A x \in S : IsRecord(x) /\ ~IsIntrinsic(x))
          /\ \E c : Forwards(b, c)
      BY <2>2, RunsIs
    <2>4. PICK c : Forwards(b, c)
      BY <2>3
    <2>5. /\ \E T : Inline(b, args) \in Seq(T)
          /\ \A j \in ToSet(Inline(b, args)) : MayStay(j)
      BY <2>3, <2>4, InlineKeeps
    <2> QED
      BY <2>2, <2>5
  <1> QED
    BY <1>1, <1>2

\* So it is of the run of every function that is not a wrapper.
LEMMA RunKeeps ==
    ASSUME NEW fs, Runs(fs), \A i \in InstructionsOf(fs) : ~IsIntrinsic(i),
           NEW f \in DOMAIN fs, ~IsWrapper(fs[f].name)
    PROVE  \A j \in ToSet(Run(fs, f)) : MayStay(j)
  <1> PICK body, n, ss :
        /\ body = fs[f].body /\ n = Len(body)
        /\ ss = [k \in DOMAIN body |-> Does(fs, body[k])]
    OBVIOUS
  <1>1. /\ body \in Seq(InstructionsOf(fs)) /\ n \in Nat /\ DOMAIN body = 1 .. n
        /\ \A k \in 1 .. n : body[k] \in InstructionsOf(fs) /\ IsAddition(body[k])
    <2>1. body \in Seq(InstructionsOf(fs)) /\ \A k \in DOMAIN body : IsAddition(body[k])
      BY RunsIs
    <2> PICK S : S = InstructionsOf(fs)
      OBVIOUS
    <2> QED
      BY <2>1
  <1>2. ASSUME NEW k \in 1 .. n
        PROVE  /\ \E T : ss[k] \in Seq(T)
               /\ \A j \in ToSet(ss[k]) : MayStay(j)
    <2>1. ss[k] = Does(fs, body[k]) /\ body[k] \in InstructionsOf(fs) /\ IsAddition(body[k])
      BY <1>1
    <2> PICK i : i = body[k]
      OBVIOUS
    <2>2. /\ \E T : Does(fs, i) \in Seq(T)
          /\ \A j \in ToSet(Does(fs, i)) : MayStay(j)
      BY <2>1, DoesKeeps
    <2> QED
      BY <2>1, <2>2
  <1>3. IsSeqOfSeqs(ss, n)
    BY <1>1, <1>2 DEF IsSeqOfSeqs
  <1>4. Run(fs, f) = FlattenSeq(ss)
    BY DEF Run
  <1>5. ASSUME NEW j \in ToSet(FlattenSeq(ss)) PROVE MayStay(j)
    <2>1. \E k \in 1 .. n : j \in ToSet(ss[k])
      BY <1>1, <1>3, FlattenOnly
    <2> QED
      BY <1>2, <2>1
  <1> QED
    BY <1>4, <1>5

\* In every state of a program whose sinks can be wrapped, each function of it
\* makes the calls that it made in the input, in that order and with those
\* operands, whatever the passes have added and moved into wrappers; and once
\* the analysis is over they have added nothing but calls of the logger and
\* casts that nobody uses. Without the hypothesis it is not so: the wrapper of
\* a variadic sink loses operands.
THEOREM ProgramIsPreserved == Spec /\ []SinksTakeWhatTheyDeclare => []ProgramPreserved
  <1>1. PassesInv /\ CallsInv /\ RunInv(TRUE) => ProgramPreserved
    <2> SUFFICES ASSUME PassesInv, CallsInv, RunInv(TRUE) PROVE ProgramPreserved
      OBVIOUS
    <2>1. /\ Runs(functions)
          /\ \A f \in DOMAIN input : f \in DOMAIN functions
                                     /\ Observed(functions, f) = Observed(input, f)
      BY DEF RunInv, MakesCallsOf, Promised
    <2>2. ASSUME NEW f \in DOMAIN input PROVE ~IsWrapper(functions[f].name)
      <3>1. Len(input) \in Nat /\ DOMAIN input = 1 .. Len(input)
        BY ModuleIs DEF CallsInv, InputInv, Clean
      <3>2. \A g \in 1 .. Len(input) : functions[g].name \notin ToSet(WrapperName)
        BY DEF CallsInv, WrapperInv, HasWrappers
      <3> QED
        BY <3>1, <3>2 DEF IsWrapper
    <2>3. ASSUME pass \in AfterRemoval, NEW f \in DOMAIN input, NEW i \in Added(functions, f)
          PROVE  i.op = "cast" \/ IsLoggerCall(i)
      <3>1. \A j \in InstructionsOf(functions) : ~IsIntrinsic(j)
        BY <2>3 DEF RunInv
      <3>2. \A j \in ToSet(Run(functions, f)) : MayStay(j)
        BY <2>1, <2>2, <2>3, <3>1, RunKeeps
      <3> QED
        BY <2>3, <3>2 DEF Added, MayStay
    <2> QED
      BY <2>1, <2>3 DEF ProgramPreserved, Program, AfterRemoval
  <1> QED
    BY <1>1, PassesInvariant, CallsInvariant, RunInvariant, PTL

-----------------------------------------------------------------------------
(* Each call-site is logged: the inductive invariant                       *)

\* A function ends with the end of a block, or with the call of a wrapper that
\* has taken the place of an invoke.
Closes(b) == Len(b) # 0 /\ (EndsBlock(b[Len(b)]) \/ IsWrapperCall(b[Len(b)]))

\* The calls in front of place p have their records, but for the one right before
\* it; and there are no others.
Recorded(b, p) ==
    \A k \in 1 .. Len(b) :
      /\ k < p - 1 /\ IsLogged(b[k]) => b[k + 1] = BufferLoggerCall(b[k])
      /\ IsBufferCall(b[k]) => k > 1 /\ k < p /\ IsLogged(b[k - 1])

RecordInv ==
    /\ \A f \in DOMAIN functions : Closes(functions[f].body)
    /\ pass \in BeforeLogging => \A i \in InstructionsOf(functions) : ~IsBufferCall(i)
    /\ pass = "add_logging" \/ (pass = "done" /\ LoggingIsOn(logging)) =>
         \A f \in DOMAIN functions : Recorded(functions[f].body, LoggedTo(f))

\* An instruction with others before it, and the same end.
LEMMA SplicedCloses ==
    ASSUME NEW b, NEW r, NEW before, NEW new, NEW n \in Nat, NEW m \in Nat, NEW p \in 1 .. n,
           n = Len(b), m = Len(before), IsSpliced(r, b, p, before, new),
           new.op = b[p].op, new.fn = b[p].fn, Closes(b)
    PROVE  Closes(r)
  <1>1. Len(r) = n + m /\ n + m # 0
    BY DEF IsSpliced
  <1>2. EndsBlock(b[n]) \/ IsWrapperCall(b[n])
    BY DEF Closes
  <1>3. CASE p = n
    <2>1. r[n + m] = new
      BY <1>3 DEF IsSpliced
    <2>2. EndsBlock(new) \/ IsWrapperCall(new)
      BY <1>2, <1>3 DEF EndsBlock, IsWrapperCall
    <2> QED
      BY <1>1, <2>1, <2>2 DEF Closes
  <1>4. CASE p # n
    <2>1. n \in p + 1 .. n
      BY <1>4
    <2>2. r[n + m] = b[n]
      BY <2>1 DEF IsSpliced
    <2> QED
      BY <1>1, <1>2, <2>2 DEF Closes
  <1> QED
    BY <1>3, <1>4

\* What AddLogging puts before place p of b.
LogsBefore(before, b, p, m) ==
    /\ p > 1 /\ IsLogged(b[p - 1]) => m >= 1 /\ before[1] = BufferLoggerCall(b[p - 1])
    /\ \A j \in 1 .. m : ~IsLogged(before[j])
    /\ \A j \in 1 .. m : IsBufferCall(before[j]) => j = 1 /\ p > 1 /\ IsLogged(b[p - 1])

\* The record of the call before place p is put there, if it needs one.
LEMMA RecordedStep ==
    ASSUME NEW b, NEW r, NEW before, NEW n \in Nat, NEW m \in Nat, NEW p \in 1 .. n,
           n = Len(b), m = Len(before), IsSpliced(r, b, p, before, b[p]),
           LogsBefore(before, b, p, m), Recorded(b, p)
    PROVE  Recorded(r, p + m + 1)
  <1>0. /\ Len(r) = n + m
        /\ \A k \in 1 .. p - 1 : r[k] = b[k]
        /\ \A k \in 1 .. m : r[p - 1 + k] = before[k]
        /\ r[p + m] = b[p]
        /\ \A k \in p + 1 .. n : r[k + m] = b[k]
    BY DEF IsSpliced
  <1>1. ASSUME NEW k \in 1 .. n
        PROVE  /\ k < p - 1 /\ IsLogged(b[k]) => b[k + 1] = BufferLoggerCall(b[k])
               /\ IsBufferCall(b[k]) => k > 1 /\ k < p /\ IsLogged(b[k - 1])
    BY DEF Recorded
  <1>2. ASSUME NEW k \in 1 .. n + m
        PROVE  /\ k < p + m /\ IsLogged(r[k]) => r[k + 1] = BufferLoggerCall(r[k])
               /\ IsBufferCall(r[k]) => k > 1 /\ k < p + m + 1 /\ IsLogged(r[k - 1])
    <2>1. k < p - 1 \/ k = p - 1 \/ k \in p .. p + m - 1 \/ k = p + m \/ k > p + m
      OBVIOUS
    <2>2. CASE k < p - 1
      <3>1. k \in 1 .. p - 1 /\ k + 1 \in 1 .. p - 1 /\ k \in 1 .. n
        BY <2>2
      <3>2. r[k] = b[k] /\ r[k + 1] = b[k + 1]
        BY <1>0, <3>1
      <3>3. ASSUME IsBufferCall(r[k]) PROVE k > 1 /\ k < p + m + 1 /\ IsLogged(r[k - 1])
        <4>1. k > 1 /\ IsLogged(b[k - 1])
          BY <1>1, <3>1, <3>2, <3>3
        <4>2. k - 1 \in 1 .. p - 1
          BY <2>2, <4>1
        <4>3. r[k - 1] = b[k - 1]
          BY <1>0, <4>2
        <4>4. k < p + m + 1
          BY <2>2
        <4> QED
          BY <4>1, <4>3, <4>4
      <3> QED
        BY <1>1, <2>2, <3>1, <3>2, <3>3
    <2>3. CASE k = p - 1
      <3>1. k \in 1 .. p - 1 /\ k \in 1 .. n /\ p > 1 /\ p - 1 + 1 = k + 1
        BY <2>3
      <3>2. r[k] = b[k]
        BY <1>0, <3>1
      <3>3. ASSUME IsLogged(r[k]) PROVE r[k + 1] = BufferLoggerCall(r[k])
        <4>1. m >= 1 /\ before[1] = BufferLoggerCall(b[k])
          BY <2>3, <3>1, <3>2, <3>3 DEF LogsBefore
        <4>2. 1 \in 1 .. m
          BY <4>1
        <4>3. r[p - 1 + 1] = before[1]
          BY <1>0, <4>2
        <4> QED
          BY <3>1, <3>2, <4>1, <4>3
      <3>4. ASSUME IsBufferCall(r[k]) PROVE k > 1 /\ k < p + m + 1 /\ IsLogged(r[k - 1])
        <4>1. k > 1 /\ IsLogged(b[k - 1])
          BY <1>1, <3>1, <3>2, <3>4
        <4>2. k - 1 \in 1 .. p - 1 /\ k < p + m + 1
          BY <2>3, <4>1
        <4>3. r[k - 1] = b[k - 1]
          BY <1>0, <4>2
        <4> QED
          BY <4>1, <4>2, <4>3
      <3> QED
        BY <3>3, <3>4
    <2>4. CASE k \in p .. p + m - 1
      <3>1. PICK j : j = k - p + 1
        OBVIOUS
      <3>2. j \in 1 .. m /\ k = p - 1 + j
        BY <2>4, <3>1
      <3>3. r[k] = before[j] /\ ~IsLogged(before[j])
        BY <1>0, <3>2 DEF LogsBefore
      <3>4. ASSUME IsBufferCall(r[k]) PROVE k > 1 /\ k < p + m + 1 /\ IsLogged(r[k - 1])
        <4>1. j = 1 /\ p > 1 /\ IsLogged(b[p - 1])
          BY <3>2, <3>3, <3>4 DEF LogsBefore
        <4>2. k = p /\ k - 1 \in 1 .. p - 1 /\ k > 1 /\ k < p + m + 1 /\ k - 1 = p - 1
          BY <3>2, <4>1
        <4>3. r[k - 1] = b[k - 1]
          BY <1>0, <4>2
        <4> QED
          BY <4>1, <4>2, <4>3
      <3> QED
        BY <3>3, <3>4
    <2>5. CASE k = p + m
      <3>1. ~IsBufferCall(b[p])
        <4>1. ~(p < p) /\ p \in 1 .. n
          OBVIOUS
        <4> QED
          BY <1>1, <4>1
      <3>2. ~(k < p + m)
        BY <2>5
      <3> QED
        BY <1>0, <2>5, <3>1, <3>2
    <2>6. CASE k > p + m
      <3>1. PICK l : l = k - m
        OBVIOUS
      <3>2. l \in p + 1 .. n /\ l \in 1 .. n /\ k = l + m /\ ~(l < p) /\ ~(k < p + m)
        BY <2>6, <3>1
      <3>3. r[k] = b[l]
        BY <1>0, <3>2
      <3>4. ~IsBufferCall(b[l])
        BY <1>1, <3>2
      <3> QED
        BY <3>2, <3>3, <3>4
    <2> QED
      BY <2>1, <2>2, <2>3, <2>4, <2>5, <2>6, Zenon
  <1>3. (p + m + 1) - 1 = p + m
    OBVIOUS
  <1> QED
    BY <1>0, <1>2, <1>3 DEF Recorded

\* In front of the first instruction nothing is logged yet.
LEMMA RecordedNone ==
    ASSUME NEW b, \A k \in 1 .. Len(b) : ~IsBufferCall(b[k])
    PROVE  Recorded(b, 1)
  <1>1. \A k \in 1 .. Len(b) : ~(k < 1 - 1)
    OBVIOUS
  <1> QED
    BY <1>1 DEF Recorded

\* A block of these instructions, with the record in front if there is one.
RecordFirst(before, i, c, l, logs) ==
    /\ Len(before) \in Nat
    /\ logs => Len(before) >= 1 /\ before[1] = c
    /\ \A j \in 1 .. Len(before) : before[j] \in {i, c, l}
    /\ \A j \in 1 .. Len(before) : IsBufferCall(before[j]) => j = 1 /\ logs

\* The record comes first in the block that AddLogging makes, and only there.
LEMMA BlockLogs ==
    ASSUME NEW i, NEW c, NEW l, NEW opens \in BOOLEAN, NEW logs \in BOOLEAN,
           NEW closes \in BOOLEAN, ~(opens /\ logs), IsBufferCall(c),
           ~IsBufferCall(i), ~IsBufferCall(l), NEW before,
           before = BlockOf(i, c, l, opens, logs, closes)
    PROVE  RecordFirst(before, i, c, l, logs)
  <1> PICK S, T : S = {i, l} /\ T = {i, c, l}
    OBVIOUS
  <1> PICK x, y, z : /\ x = IF opens THEN <<i>> ELSE <<>>
                     /\ y = IF logs THEN <<c>> ELSE <<>>
                     /\ z = IF closes THEN <<l>> ELSE <<>>
    OBVIOUS
  <1>1. before = (x \o y) \o z
    BY DEF BlockOf
  <1>2. x \in Seq(S) /\ z \in Seq(S) /\ S \subseteq T
    <2>1. <<i>> \in Seq(S) /\ <<l>> \in Seq(S) /\ <<>> \in Seq(S)
      OBVIOUS
    <2> QED
      BY <2>1
  <1>3. CASE logs
    <2>1. x = <<>> /\ y = <<c>> /\ c \in T
      BY <1>3
    <2>2. x \o y = y
      <3>1. <<>> \o <<c>> = <<c>>
        OBVIOUS
      <3> QED
        BY <2>1, <3>1
    <2>3. z \in Seq(T)
      BY <1>2, SeqMonotonic
    <2>6. y \in Seq(T) /\ Len(y) = 1 /\ y[1] = c
      BY <2>1, OneElement
    <2>7. /\ y \o z \in Seq(T) /\ Len(y \o z) = Len(y) + Len(z) /\ Len(z) \in Nat
          /\ \A k \in 1 .. Len(y) : (y \o z)[k] = y[k]
          /\ \A k \in 1 .. Len(z) : (y \o z)[Len(y) + k] = z[k]
      BY <2>3, <2>6, Concat
    <2>8. before = y \o z /\ 1 \in 1 .. 1
      BY <1>1, <2>2
    <2>4. /\ before \in Seq(T) /\ Len(before) = 1 + Len(z) /\ Len(z) \in Nat
          /\ before[1] = c /\ \A k \in 1 .. Len(z) : before[1 + k] = z[k]
      BY <2>6, <2>7, <2>8
    <2>5. ASSUME NEW j \in 1 .. Len(before), IsBufferCall(before[j]) PROVE j = 1
      <3> SUFFICES ASSUME j # 1 PROVE FALSE
        OBVIOUS
      <3>1. j - 1 \in 1 .. Len(z) /\ 1 + (j - 1) = j
        BY <2>4
      <3>2. before[j] = z[j - 1]
        BY <2>4, <3>1
      <3>3. before[j] \in S
        BY <1>2, <3>1, <3>2
      <3> QED
        BY <2>5, <3>3
    <2>9. Len(before) \in Nat /\ Len(before) >= 1
      BY <2>4
    <2>10. \A j \in 1 .. Len(before) : before[j] \in T
      BY <2>4
    <2> QED
      BY <1>3, <2>4, <2>5, <2>9, <2>10 DEF RecordFirst
  <1>4. CASE ~logs
    <2>1. x \o y = x
      BY <1>2, <1>4
    <2>2. before \in Seq(S)
      BY <1>1, <1>2, <2>1, Concat
    <2>3. Len(before) \in Nat /\ \A j \in 1 .. Len(before) : before[j] \in S
      BY <2>2
    <2> QED
      BY <1>2, <1>4, <2>3 DEF RecordFirst
  <1> QED
    BY <1>3, <1>4

\* What AddLogging puts before the current instruction.
LEMMA LoggerBlockLogs ==
    ASSUME AddLogging, at[2] \in Nat
    PROVE  /\ Len(LoggerBlockHere) \in Nat
           /\ LogsBefore(LoggerBlockHere, Body, at[2], Len(LoggerBlockHere))
  <1>20. PICK i, c, l : i = LoggerInit /\ c = BufferLoggerCall(Body[at[2] - 1]) /\ l = LoggerShutdown
    OBVIOUS
  <1>21. PICK opens \in BOOLEAN, logs \in BOOLEAN, closes \in BOOLEAN :
        /\ opens = (FunctionName = "main" /\ at[2] = 1)
        /\ logs = (at[2] > 1 /\ IsLogged(Body[at[2] - 1]))
        /\ closes = (FunctionName = "main" /\ Current.op = "ret")
    BY DEF IsLogged
  <1>10. LoggerBlockHere = BlockOf(i, c, l, opens, logs, closes)
    BY <1>20, <1>21, Zenon DEF LoggerBlockHere, LoggerBlockOf
  <1>11. PICK before, b, p, m : before = LoggerBlockHere /\ b = Body /\ p = at[2] /\ m = Len(before)
    OBVIOUS
  <1>1. before = BlockOf(i, c, l, opens, logs, closes)
    <2>1. before = LoggerBlockHere
      BY <1>11, Zenon
    <2> QED
      BY <1>10, <2>1, Zenon
  <1>2. ~(opens /\ logs)
    <2>1. opens => at[2] = 1
      BY <1>21, Zenon
    <2>2. logs => at[2] > 1
      BY <1>21, Zenon
    <2>3. ~(at[2] = 1 /\ at[2] > 1)
      OBVIOUS
    <2> QED
      BY <2>1, <2>2, <2>3, Zenon
  <1>3. /\ IsBufferCall(c) /\ c.meta = {}
        /\ ~IsBufferCall(i) /\ i.meta = {}
        /\ ~IsBufferCall(l) /\ l.meta = {}
    <2>1. ASSUME NEW fn, NEW args, NEW j, j = Instruction("call", fn, args)
          PROVE  j.meta = {} /\ (IsBufferCall(j) <=> fn = "clam_prov_logging_buffer")
      BY <2>1, MadeInstruction DEF IsBufferCall
    <2>2. /\ "clam_prov_logging_init" # "clam_prov_logging_buffer"
          /\ "clam_prov_logging_shutdown" # "clam_prov_logging_buffer"
      OBVIOUS
    <2> QED
      BY <1>20, <2>1, <2>2 DEF LoggerInit, LoggerShutdown, BufferLoggerCall
  <1>4. /\ m \in Nat
        /\ logs => m >= 1 /\ before[1] = c
        /\ \A j \in 1 .. m : before[j] \in {i, c, l}
        /\ \A j \in 1 .. m : IsBufferCall(before[j]) => j = 1 /\ logs
    <2>1. RecordFirst(before, i, c, l, logs)
      <3>1. /\ IsBufferCall(c) /\ ~IsBufferCall(i) /\ ~IsBufferCall(l)
        BY <1>3, Zenon
      <3>2. opens \in BOOLEAN /\ logs \in BOOLEAN /\ closes \in BOOLEAN
        BY <1>21, Zenon
      <3> QED
        BY <1>1, <1>2, <3>1, <3>2, BlockLogs, Zenon
    <2> QED
      BY <1>11, <2>1 DEF RecordFirst
  <1>5. logs <=> p > 1 /\ IsLogged(b[p - 1])
    BY <1>11, <1>21
  <1>8. logs => c = BufferLoggerCall(b[p - 1])
    BY <1>11, <1>20
  <1>6. \A j \in 1 .. m : ~IsLogged(before[j])
    BY <1>3, <1>4 DEF IsLogged
  <1>7. LogsBefore(before, b, p, m)
    BY <1>4, <1>5, <1>6, <1>8 DEF LogsBefore
  <1> QED
    BY <1>4, <1>7, <1>11

\* Steps that leave the module as it is, before AddLogging.
LEMMA SameModuleKeepsRecord ==
    ASSUME RecordInv, functions' = functions, pass' \in BeforeLogging => pass \in BeforeLogging,
           pass' # "add_logging", ~(pass' = "done" /\ LoggingIsOn(logging'))
    PROVE  RecordInv'
  BY DEF RecordInv

\* Visits that only insert annotations, and keep the current instruction.
LEMMA VisitKeepsRecord ==
    ASSUME PassesInv, RecordInv, at[2] <= Len(Body), NEW B, NEW before \in Seq(B), NEW new,
           Visit(before, new), \A i \in B : ~IsBufferCall(i), new.op = Current.op,
           new.fn = Current.fn, pass \in BeforeLogging, pass' = pass
    PROVE  RecordInv'
  <1>1. Positioned
    BY DEF PassesInv, ModuleInv
  <1>2. /\ IsModule(functions) /\ at[1] \in DOMAIN functions /\ Body = functions[at[1]].body
        /\ Len(Body) \in Nat
    BY <1>1, ModuleIs DEF Positioned, Body
  <1>0. PICK n, m, p, r, b, h, gs : /\ n = Len(Body) /\ m = Len(before) /\ p = at[2] /\ r = Body'
                                    /\ b = Body /\ h = at[1] /\ gs = functions'
    OBVIOUS
  <1>3. n \in Nat /\ m \in Nat /\ p \in 1 .. n /\ Current = b[p]
    BY <1>0, <1>1, <1>2 DEF Positioned, Current
  <1>4. /\ at'[1] = h /\ DOMAIN gs = DOMAIN functions
        /\ \A f \in DOMAIN functions \ {h} : gs[f] = functions[f]
        /\ IsSpliced(r, b, p, before, new)
        /\ InstructionsOf(gs) \subseteq InstructionsOf(functions) \cup ToSet(before) \cup {new}
    BY <1>0, <1>1, VisitStep DEF IsSpliced
  <1>5. r = gs[h].body
    BY <1>0, <1>4 DEF Body
  <1>6. Closes(r)
    <2>1. Closes(b) /\ n = Len(b) /\ m = Len(before)
      BY <1>0, <1>2 DEF RecordInv
    <2>2. new.op = b[p].op /\ new.fn = b[p].fn
      BY <1>3
    <2> QED
      BY <1>3, <1>4, <2>1, <2>2, SplicedCloses
  <1>7. ASSUME NEW f \in DOMAIN gs PROVE Closes(gs[f].body)
    <2>1. CASE f = h
      BY <1>5, <1>6, <2>1
    <2>2. CASE f # h
      BY <1>4, <2>2 DEF RecordInv
    <2> QED
      BY <2>1, <2>2
  <1>8. ~IsBufferCall(new)
    <2>1. Current \in InstructionsOf(functions)
      BY <1>1, CurrentIs
    <2> QED
      BY <2>1 DEF RecordInv, IsBufferCall
  <1>9. \A i \in InstructionsOf(gs) : ~IsBufferCall(i)
    <2>1. ToSet(before) \subseteq B
      BY DEF ToSet
    <2> QED
      BY <1>4, <1>8, <2>1 DEF RecordInv
  <1>10. pass' # "add_logging" /\ pass' # "done"
    BY DEF BeforeLogging
  <1> QED
    BY <1>0, <1>7, <1>9, <1>10 DEF RecordInv

LEMMA PrintKeepsRecord == PassesInv /\ RecordInv /\ PrintSourcesAndSinks => RecordInv'
  <1> SUFFICES ASSUME PassesInv, RecordInv, PrintSourcesAndSinks PROVE RecordInv'
    OBVIOUS
  <1>1. pass = "print" /\ pass' = pass /\ at[2] <= Len(Body) /\ Visit(<<>>, Current)
    BY DEF PrintSourcesAndSinks, Visiting
  <1>2. functions' = functions
    BY <1>1, VisitSame DEF PassesInv, ModuleInv
  <1> QED
    BY <1>1, <1>2, SameModuleKeepsRecord

LEMMA LoadInputFileKeepsRecord == RecordInv /\ LoadInputFile => RecordInv'
  <1> SUFFICES ASSUME RecordInv, LoadInputFile PROVE RecordInv'
    OBVIOUS
  <1>1. pass = "configure" /\ pass' \in {"add_sources", "add_metadata"} /\ functions' = functions
    BY DEF LoadInputFile, module_vars
  <1> QED
    BY <1>1, SameModuleKeepsRecord DEF BeforeLogging, Passes

LEMMA AddMetadataSkipKeepsRecord == PassesInv /\ RecordInv /\ AddMetadata_Skip => RecordInv'
  <1> SUFFICES ASSUME PassesInv, RecordInv, AddMetadata_Skip PROVE RecordInv'
    OBVIOUS
  <1>1. pass = "add_metadata" /\ pass' = pass /\ at[2] <= Len(Body) /\ Visit(<<>>, Current)
    BY DEF AddMetadata_Skip, Visiting
  <1>2. functions' = functions
    BY <1>1, VisitSame DEF PassesInv, ModuleInv
  <1> QED
    BY <1>1, <1>2, SameModuleKeepsRecord

LEMMA WrapSinksSkipKeepsRecord == PassesInv /\ RecordInv /\ WrapSinks_Skip => RecordInv'
  <1> SUFFICES ASSUME PassesInv, RecordInv, WrapSinks_Skip PROVE RecordInv'
    OBVIOUS
  <1>1. pass = "wrap_sinks" /\ pass' = pass /\ at[2] <= Len(Body) /\ Visit(<<>>, Current)
    BY DEF WrapSinks_Skip, Visiting
  <1>2. functions' = functions
    BY <1>1, VisitSame DEF PassesInv, ModuleInv
  <1> QED
    BY <1>1, <1>2, SameModuleKeepsRecord

LEMMA WrapSinksCollectKeepsRecord == PassesInv /\ RecordInv /\ WrapSinks_Collect => RecordInv'
  <1> SUFFICES ASSUME PassesInv, RecordInv, WrapSinks_Collect PROVE RecordInv'
    OBVIOUS
  <1>1. pass = "wrap_sinks" /\ pass' = pass /\ at[2] <= Len(Body) /\ Visit(<<>>, Current)
    BY DEF WrapSinks_Collect, Visiting
  <1>2. functions' = functions
    BY <1>1, VisitSame DEF PassesInv, ModuleInv
  <1> QED
    BY <1>1, <1>2, SameModuleKeepsRecord

LEMMA WrapCrashesKeepsRecord == RecordInv /\ WrapCrashes => RecordInv'
  <1> SUFFICES ASSUME RecordInv, WrapCrashes PROVE RecordInv'
    OBVIOUS
  <1>1. pass' = "crashed" /\ functions' = functions
    BY DEF WrapCrashes, module_vars
  <1> QED
    BY <1>1, SameModuleKeepsRecord DEF BeforeLogging

LEMMA OutputDependencyMapKeepsRecord == PassesInv /\ RecordInv /\ OutputDependencyMap => RecordInv'
  <1> SUFFICES ASSUME PassesInv, RecordInv, OutputDependencyMap PROVE RecordInv'
    OBVIOUS
  <1>1. pass = "dependency_map" /\ pass' = pass /\ at[2] <= Len(Body) /\ Visit(<<>>, Current)
    BY DEF OutputDependencyMap, Visiting
  <1>2. functions' = functions
    BY <1>1, VisitSame DEF PassesInv, ModuleInv
  <1> QED
    BY <1>1, <1>2, SameModuleKeepsRecord

\* An instruction that only gets other metadata.
LEMMA NewMarkKeepsRecord ==
    ASSUME PassesInv, RecordInv, at[2] <= Len(Body), NEW new, Visit(<<>>, new),
           SameCore(new, Current), pass \in BeforeLogging, pass' = pass
    PROVE  RecordInv'
  <1>1. PICK B : B = {}
    OBVIOUS
  <1>2. <<>> \in Seq(B) /\ \A i \in B : ~IsBufferCall(i)
    BY <1>1
  <1>3. new.op = Current.op /\ new.fn = Current.fn
    BY DEF SameCore
  <1>4. PICK before : before = <<>>
    OBVIOUS
  <1> QED
    BY <1>2, <1>3, <1>4, VisitKeepsRecord

LEMMA ConditionalUpdateKeepsRecord == PassesInv /\ RecordInv /\ ConditionalUpdate => RecordInv'
  <1> SUFFICES ASSUME PassesInv, RecordInv, ConditionalUpdate PROVE RecordInv'
    OBVIOUS
  <1>1. pass = "add_metadata" /\ pass' = pass /\ at[2] <= Len(Body)
    BY DEF ConditionalUpdate, Visiting
  <1>2. PICK meta : Visit(<<>>, [Current EXCEPT !.meta = meta])
    BY DEF ConditionalUpdate
  <1>3. PICK new : new = WithMeta(Current, meta) /\ Visit(<<>>, new)
    BY <1>2 DEF WithMeta
  <1>4. SameCore(new, Current)
    <2>1. IsRecord(Current)
      BY <1>1, CurrentIs, MadeByPasses DEF PassesInv, ModuleInv
    <2> QED
      BY <1>3, <2>1, WithMetaIs DEF SameCore
  <1> QED
    BY <1>1, <1>3, <1>4, NewMarkKeepsRecord DEF BeforeLogging, Passes

LEMMA TagsKeepRecord == PassesInv /\ RecordInv /\ TagAnalysisResultsAsMetadata => RecordInv'
  <1> SUFFICES ASSUME PassesInv, RecordInv, TagAnalysisResultsAsMetadata PROVE RecordInv'
    OBVIOUS
  <1>1. pass = "tags" /\ pass' = pass /\ at[2] <= Len(Body)
    BY DEF TagAnalysisResultsAsMetadata, Visiting
  <1>2. PICK answer : Visit(<<>>, SetTags(Current, answer))
    BY DEF TagAnalysisResultsAsMetadata
  <1>3. PICK new : new = SetTags(Current, answer)
    OBVIOUS
  <1>4. new = Current \/ \E tags : new = WithTags(Current, tags)
    BY <1>3 DEF SetTags, WithTags
  <1>5. SameCore(new, Current)
    <2>1. IsRecord(Current)
      BY <1>1, CurrentIs, MadeByPasses DEF PassesInv, ModuleInv
    <2>2. CASE new = Current
      BY <2>2 DEF SameCore
    <2>3. CASE \E tags : new = WithTags(Current, tags)
      BY <2>1, <2>3, WithTagsIs DEF SameCore
    <2> QED
      BY <1>4, <2>2, <2>3
  <1> QED
    BY <1>1, <1>2, <1>3, <1>5, NewMarkKeepsRecord DEF BeforeLogging, Passes

LEMMA AddSourcesKeepsRecord == PassesInv /\ RecordInv /\ AddSources => RecordInv'
  <1> SUFFICES ASSUME PassesInv, RecordInv, AddSources PROVE RecordInv'
    OBVIOUS
  <1>1. pass = "add_sources" /\ pass' = pass /\ at[2] <= Len(Body) /\ IsInstruction(Current)
    BY CurrentIs DEF PassesInv, ModuleInv, AddSources, Visiting
  <1>2. PICK operands : SourceBlocks(Current) \in Seq(Seq(Inserted(operands, SourceTags(Current))))
    BY <1>1, SourceBlocksType
  <1>3. PICK B, before : /\ B = Inserted(operands, SourceTags(Current))
                         /\ before = FlattenSeq(SourceBlocks(Current))
    OBVIOUS
  <1>4. Visit(before, Current) /\ before \in Seq(B)
    BY <1>2, <1>3, AddSourcesVisit, FlattenType
  <1>5. \A i \in B : ~IsBufferCall(i)
    BY <1>3, InsertedAreAnnotations DEF IsAnnotation
  <1>6. PICK new : new = Current
    OBVIOUS
  <1> QED
    BY <1>1, <1>4, <1>5, <1>6, VisitKeepsRecord DEF BeforeLogging, Passes

\* What a function that calls a wrapper, and the wrapper, end with.
LEMMA WrapCallKeepsRecord ==
    PassesInv /\ CallsInv /\ RunInv(FALSE) /\ RecordInv /\ WrapCall => RecordInv'
  <1> SUFFICES ASSUME PassesInv, CallsInv, RunInv(FALSE), RecordInv, WrapCall PROVE RecordInv'
    OBVIOUS
  <1>0. pass = "wrap_sinks" /\ pass' = pass /\ at' = at /\ wrappers < Len(WrapperName)
    BY DEF WrapCall, Wrapping
  <1>1. PICK b, w, orig, new : IsWrapped(b, w, orig, new)
    BY WrapCallIs
  <1>2. PICK a, c, call :
          /\ a = at[1] /\ c = CB /\ call = Body[CB] /\ call = functions[a].body[c]
          /\ a \in DOMAIN functions /\ c \in DOMAIN functions[a].body
          /\ call \in InstructionsOf(functions) /\ call.src # 0
          /\ call.fn \notin Reserved /\ Outputs \in Seq(Nat)
    BY WrapCallGives
  <1>3. PICK gs : gs = functions'
    OBVIOUS
  <1>4. HasWrapped(gs, functions, a, c, NextWrapper, b, w) /\ IsModule(gs)
    <2>1. HasWrapped(gs, functions, a, c, NextWrapper, b, w)
      BY <1>0, <1>1, <1>2, <1>3, WrappingHas
    <2> QED
      BY <1>1, <1>3, <2>1 DEF IsWrapped
  <1>5. /\ b = WrapperBody(call, orig)
        /\ w.op = "call" /\ w.fn = NextWrapper
    BY <1>1, <1>2 DEF IsWrapped, Wraps
  <1>6. PICK e : Forwards(b, e) /\ IsFormal(b[e], call) /\ IsFrame(b, e)
    <2>1. IsInstruction(call)
      BY <1>2 DEF PassesInv, ModuleInv
    <2> QED
      BY <1>2, <1>5, <2>1, WrapperBodyHolds
  <1>7. IsWrapperCall(w) /\ ~IsBufferCall(w)
    <2>1. NextWrapper \in ToSet(WrapperName)
      BY <1>0, NextWrapperIs
    <2>2. NextWrapper # "clam_prov_logging_buffer"
      BY <2>1, NamesAssumption DEF OwnFunctions
    <2> QED
      BY <1>5, <2>1, <2>2 DEF IsWrapperCall, IsBufferCall
  <1>8. Closes(b) /\ \A k \in 1 .. Len(b) : ~IsBufferCall(b[k])
    <2>1. e \in 1 .. Len(b) /\ b[e].fn = call.fn
      BY <1>6 DEF Forwards, IsFormal
    <2>2. ~IsBufferCall(b[e])
      BY <1>2, <2>1 DEF IsBufferCall, Reserved, OwnFunctions
    <2>3. Len(b) # 0
      <3>1. Len(b) = 0 => 1 .. Len(b) = {}
        OBVIOUS
      <3> QED
        BY <2>1, <3>1
    <2> QED
      BY <1>6, <2>2, <2>3 DEF IsFrame, Closes, EndsBlock
  <1>9. PICK n : /\ n \in Nat /\ n = Len(functions[a].body) /\ n = Len(gs[a].body)
                 /\ DOMAIN functions[a].body = 1 .. n
    <2>1. /\ Len(functions[a].body) \in Nat
          /\ DOMAIN functions[a].body = 1 .. Len(functions[a].body)
      BY <1>2, ModuleIs DEF PassesInv, ModuleInv, Positioned
    <2>2. a \in DOMAIN gs
      <3>1. /\ Len(functions) \in Nat /\ DOMAIN functions = 1 .. Len(functions)
        BY ModuleIs DEF PassesInv, ModuleInv, Positioned
      <3> QED
        BY <1>2, <1>4, <3>1 DEF HasWrapped
    <2>3. /\ Len(gs[a].body) \in Nat
          /\ DOMAIN gs[a].body = 1 .. Len(gs[a].body)
      BY <1>4, <2>2, ModuleIs
    <2>4. 1 .. Len(gs[a].body) = 1 .. Len(functions[a].body)
      BY <1>4, <2>1, <2>3 DEF HasWrapped
    <2>5. Len(gs[a].body) = Len(functions[a].body)
      <3>1. PICK x, y : x = Len(gs[a].body) /\ y = Len(functions[a].body)
        OBVIOUS
      <3>2. x \in Nat /\ y \in Nat /\ 1 .. x = 1 .. y
        BY <2>1, <2>3, <2>4, <3>1
      <3>3. x = y
        BY <3>2
      <3> QED
        BY <3>1, <3>3
    <2> QED
      BY <2>1, <2>5
  <1>10. Closes(gs[a].body)
    <2>1. n # 0 /\ n \in 1 .. n /\ (EndsBlock(functions[a].body[n]) \/ IsWrapperCall(functions[a].body[n]))
      BY <1>2, <1>9 DEF RecordInv, Closes
    <2>2. CASE n = c
      BY <1>4, <1>7, <1>9, <2>1, <2>2 DEF Closes, HasWrapped
    <2>3. CASE n # c
      <3>1. gs[a].body[n] = functions[a].body[n]
        BY <1>4, <1>9, <2>1, <2>3 DEF HasWrapped
      <3> QED
        BY <1>9, <2>1, <3>1 DEF Closes
    <2> QED
      BY <2>2, <2>3
  <1>11. \A k \in 1 .. n : ~IsBufferCall(gs[a].body[k])
    <2> SUFFICES ASSUME NEW k \in 1 .. n PROVE ~IsBufferCall(gs[a].body[k])
      OBVIOUS
    <2>1. CASE k = c
      BY <1>4, <1>7, <2>1 DEF HasWrapped
    <2>2. CASE k # c
      <3>1. gs[a].body[k] = functions[a].body[k]
        BY <1>4, <1>9, <2>2 DEF HasWrapped
      <3>2. functions[a].body[k] \in InstructionsOf(functions)
        BY <1>2, <1>9, ModuleIs DEF PassesInv, ModuleInv, Positioned
      <3> QED
        BY <1>0, <3>1, <3>2 DEF RecordInv, BeforeLogging, Passes
    <2> QED
      BY <2>1, <2>2
  <1>12. Runs(functions)
    BY DEF RunInv, MakesCallsOf
  <1>13. ASSUME NEW f \in DOMAIN gs
         PROVE  Closes(gs[f].body) /\ \A k \in DOMAIN gs[f].body : ~IsBufferCall(gs[f].body[k])
    <2>0. DOMAIN gs[f].body = 1 .. Len(gs[f].body)
      BY <1>4, ModuleIs
    <2>1. CASE f \in DOMAIN functions /\ f # a /\ gs[f] = functions[f]
      <3>1. \A k \in DOMAIN functions[f].body : functions[f].body[k] \in InstructionsOf(functions)
        BY <2>1, ModuleIs DEF PassesInv, ModuleInv, Positioned
      <3> QED
        BY <1>0, <2>1, <3>1 DEF RecordInv, BeforeLogging, Passes
    <2>2. CASE gs[f].body = b
      BY <1>8, <2>0, <2>2
    <2>3. CASE f = a
      BY <1>9, <1>10, <1>11, <2>0, <2>3
    <2> QED
      BY <1>4, <1>12, <2>1, <2>2, <2>3, WrappedHas
  <1>14. \A i \in InstructionsOf(gs) : ~IsBufferCall(i)
    BY <1>4, <1>13, InstructionIsIn
  <1> QED
    BY <1>0, <1>3, <1>13, <1>14 DEF RecordInv

\* What the new main of a library is made of.
DummyNondet(fs, f) ==
    [k \in DOMAIN Signature[fs[f].name].params |-> NondetFn(fs, Signature[fs[f].name].params[k])]

DummyCalls(fs, f) ==
    [k \in DOMAIN DummyNondet(fs, f) |-> Instruction("call", DummyNondet(fs, f)[k], <<>>)]

DummyValues(fs, f) == [k \in DOMAIN DummyNondet(fs, f) |-> <<"nondet", DummyNondet(fs, f)[k]>>]

CallsOfMain(fs) ==
    [f \in DOMAIN fs |->
       Append(DummyCalls(fs, f), Instruction("call", fs[f].name, DummyValues(fs, f)))]

MadeForMain(fs) ==
    {Instruction("call", name, <<>>) : name \in ToSet(NondetName)}
      \cup {Instruction("call", fs[f].name, DummyValues(fs, f)) : f \in DOMAIN fs}

\* It calls each function, and before that what makes its operands.
LEMMA CallsOfMainType ==
    ASSUME NEW arg, GetsMain(arg), NEW fs, fs = arg.input
    PROVE  /\ CallsOfMain(fs) \in Seq(Seq(MadeForMain(fs)))
           /\ Len(CallsOfMain(fs)) = Len(fs)
           /\ \A f \in DOMAIN fs :
                /\ CallsOfMain(fs)[f] =
                     Append(DummyCalls(fs, f), Instruction("call", fs[f].name, DummyValues(fs, f)))
                /\ DummyCalls(fs, f) \in Seq(MadeForMain(fs))
                /\ Signature[fs[f].name].params \in Seq(STRING)
                /\ \A k \in DOMAIN Signature[fs[f].name].params :
                     DummyNondet(fs, f)[k] \in ToSet(NondetName)
  <1>1. IsModule(fs) /\ DOMAIN fs = 1 .. Len(fs) /\ Len(fs) \in Nat
    BY InputIsClean, ModuleIs DEF GetsMain, Clean
  <1>2. PICK D : D = MadeForMain(fs)
    OBVIOUS
  <1>3. ASSUME NEW f \in DOMAIN fs
        PROVE  /\ Signature[fs[f].name].params \in Seq(STRING)
               /\ \A k \in DOMAIN Signature[fs[f].name].params :
                    DummyNondet(fs, f)[k] \in ToSet(NondetName)
               /\ DummyCalls(fs, f) \in Seq(D)
               /\ Append(DummyCalls(fs, f), Instruction("call", fs[f].name, DummyValues(fs, f)))
                    \in Seq(D)
    <2>1. fs[f].name \in DOMAIN Signature
      <3>1. \A g \in ToSet(fs) : g.name \in DOMAIN Signature
        BY SignatureAssumption DEF GetsMain
      <3> QED
        BY <3>1 DEF ToSet
    <2>2. PICK params : params = Signature[fs[f].name].params
      OBVIOUS
    <2>3. params \in Seq(STRING)
      BY <2>1, <2>2, SignatureAssumption
    <2>4. \A k \in DOMAIN params : NondetFn(fs, params[k]) \in ToSet(NondetName)
      BY <2>2, NondetFnIsNamed
    <2>5. PICK g : g = DummyNondet(fs, f)
      OBVIOUS
    <2>6. DOMAIN g = DOMAIN params /\ \A k \in DOMAIN params : g[k] \in ToSet(NondetName)
      BY <2>2, <2>4, <2>5 DEF DummyNondet
    <2>7. PICK calls : calls = DummyCalls(fs, f)
      OBVIOUS
    <2>8. calls = [k \in DOMAIN g |-> Instruction("call", g[k], <<>>)]
      BY <2>5, <2>7 DEF DummyCalls
    <2>9. PICK x : x = Instruction("call", fs[f].name, DummyValues(fs, f))
      OBVIOUS
    <2>10. x \in D /\ \A name \in ToSet(NondetName) : Instruction("call", name, <<>>) \in D
      BY <1>2, <2>9 DEF MadeForMain
    <2>11. calls \in Seq(D)
      BY <2>3, <2>6, <2>8, <2>10
    <2>12. Append(calls, x) \in Seq(D)
      BY <2>10, <2>11
    <2> QED
      BY <2>2, <2>3, <2>5, <2>6, <2>7, <2>9, <2>11, <2>12
  <1>4. PICK ss, n, Q : ss = CallsOfMain(fs) /\ n = Len(fs) /\ Q = Seq(D)
    OBVIOUS
  <1>5. DOMAIN ss = DOMAIN fs /\ ss = [f \in 1 .. n |-> ss[f]]
    BY <1>1, <1>4 DEF CallsOfMain
  <1>6. \A f \in DOMAIN fs :
          ss[f] = Append(DummyCalls(fs, f), Instruction("call", fs[f].name, DummyValues(fs, f)))
    BY <1>4 DEF CallsOfMain
  <1>7. \A f \in 1 .. n : ss[f] \in Q
    BY <1>1, <1>3, <1>4, <1>6
  <1>8. n \in Nat
    BY <1>1, <1>4
  <1>9. ss \in Seq(Q) /\ Len(ss) = n
    <2>1. ss \in [1 .. n -> Q]
      BY <1>5, <1>7
    <2> QED
      BY <1>8, <2>1
  <1> QED
    BY <1>2, <1>3, <1>4, <1>6, <1>9

NoName == ""

\* It ends with a return.
LEMMA DummyBodyIs ==
    ASSUME NEW arg, GetsMain(arg), NEW fs, fs = arg.input, NEW b, b = DummyBody(fs),
           NEW calls, calls = FlattenSeq(CallsOfMain(fs))
    PROVE  /\ calls \in Seq(MadeForMain(fs)) /\ Len(calls) \in Nat
           /\ Len(b) = Len(calls) + 1 /\ DOMAIN b = 1 .. Len(calls) + 1
           /\ \A k \in 1 .. Len(calls) : b[k] = calls[k]
           /\ b[Len(calls) + 1] = Instruction("ret", NoName, <<>>)
  <1>1. PICK D, name : D = MadeForMain(fs) /\ name = NoName
    OBVIOUS
  <1>2. calls \in Seq(D)
    BY <1>1, CallsOfMainType, FlattenType
  <1>3. PICK ret : ret = Instruction("ret", name, <<>>)
    OBVIOUS
  <1>4. b = calls \o <<ret>>
    BY <1>1, <1>3, Zenon DEF DummyBody, CallsOfMain, DummyCalls, DummyValues, DummyNondet, NoName
  <1>5. PICK E : E = D \cup {ret}
    OBVIOUS
  <1>6. calls \in Seq(E) /\ ret \in E
    <2>1. D \subseteq E /\ ret \in E
      BY <1>5
    <2> QED
      BY <1>2, <2>1, SeqMonotonic
  <1>7. /\ Len(b) = Len(calls) + 1 /\ DOMAIN b = 1 .. Len(calls) + 1 /\ Len(calls) \in Nat
        /\ \A k \in 1 .. Len(calls) : b[k] = calls[k]
        /\ b[Len(calls) + 1] = ret
    <2>1. PICK l : l = <<ret>>
      OBVIOUS
    <2>2. l \in Seq(E) /\ Len(l) = 1 /\ l[1] = ret
      BY <1>6, <2>1, OneElement
    <2>3. 1 \in 1 .. 1
      OBVIOUS
    <2> QED
      BY <1>4, <1>6, <2>1, <2>2, <2>3, Concat
  <1> QED
    BY <1>1, <1>2, <1>3, <1>7

\* The module that the passes start from.
LEMMA InputCloses ==
    ASSUME NEW arg \in Arguments, NEW fs, fs = arg.input, NEW f \in DOMAIN fs
    PROVE  Closes(fs[f].body)
  <1>1. fs[f] \in ToSet(fs)
    BY DEF ToSet
  <1>2. fs[f].body # <<>> /\ EndsBlock(Last(fs[f].body))
    BY <1>1, ArgumentsAssumption, VerifierAssumption
  <1>3. PICK b, S : b = fs[f].body /\ b \in Seq(S)
    <2>1. fs[f].body \in Seq(InstructionsOf(fs))
      BY InputIsClean, ModuleIs DEF Clean
    <2> QED
      BY <2>1
  <1>4. Len(b) # 0
    BY <1>2, <1>3
  <1>5. EndsBlock(b[Len(b)])
    BY <1>2, <1>3 DEF Last
  <1> QED
    BY <1>3, <1>4, <1>5 DEF Closes

\* So does the main that is made for a program without one.
LEMMA MainCloses ==
    ASSUME NEW arg, GetsMain(arg), NEW fs, fs = arg.input, NEW gs, gs = WithMain(fs),
           NEW f \in DOMAIN gs
    PROVE  Closes(gs[f].body)
  <1>1. /\ arg \in Arguments /\ "main" \notin Named(fs)
        /\ IsModule(fs) /\ DOMAIN fs = 1 .. Len(fs) /\ Len(fs) \in Nat
    BY InputIsClean, ModuleIs DEF GetsMain, Clean
  <1>2. PICK body, calls, n : /\ body = DummyBody(fs) /\ calls = FlattenSeq(CallsOfMain(fs))
                              /\ n = Len(calls)
    OBVIOUS
  <1>3. /\ Len(calls) \in Nat /\ DOMAIN body = 1 .. Len(calls) + 1
        /\ body[Len(calls) + 1] = Instruction("ret", NoName, <<>>)
    BY <1>2, DummyBodyIs
  <1>20. n \in Nat /\ DOMAIN body = 1 .. n + 1
    BY <1>2, <1>3
  <1>4. body[n + 1] = Instruction("ret", NoName, <<>>)
    BY <1>2, <1>3
  <1> DEFINE place(k) == Max(Addresses(fs)) + k
             b == [k \in DOMAIN body |-> [body[k] EXCEPT !.addr = place(k), !.src = place(k)]]
             E == {b[k] : k \in DOMAIN body}
  <1>5. gs = Append(fs, [name |-> "main", body |-> b])
    BY <1>1, <1>2 DEF WithMain
  <1>6. \A k \in DOMAIN body : b[k] = Placed(body[k], place(k))
    BY DEF Placed
  <1>7. b = [k \in DOMAIN body |-> b[k]] /\ \A k \in DOMAIN body : b[k] \in E
    OBVIOUS
  <1> HIDE DEF b, E, place
  <1>8. b \in Seq(E) /\ Len(b) = n + 1
    <2>1. b = [k \in 1 .. n + 1 |-> b[k]] /\ \A k \in 1 .. n + 1 : b[k] \in E
      BY <1>20, <1>7
    <2> QED
      BY <1>20, <2>1
  <1>9. Closes(b)
    <2>1. n + 1 \in DOMAIN body /\ n + 1 # 0
      BY <1>20
    <2>2. b[n + 1] = Placed(Instruction("ret", NoName, <<>>), place(n + 1))
      BY <1>4, <1>6, <2>1
    <2>3. b[n + 1].op = "ret"
      BY <2>2, PlacedInstruction
    <2> QED
      BY <1>8, <2>1, <2>3 DEF Closes, EndsBlock
  <1>10. /\ DOMAIN gs = 1 .. Len(fs) + 1
         /\ \A g \in DOMAIN fs : gs[g] = fs[g]
         /\ gs[Len(fs) + 1].body = b
    <2>1. PICK main : main = "main"
      OBVIOUS
    <2>2. gs = WithFunction(fs, main, b)
      BY <1>5, <2>1 DEF WithFunction
    <2>3. HasOneMore(gs, fs, [name |-> main, body |-> b])
      BY <1>1, <1>8, <2>2, OneMoreFunction
    <2>4. gs[Len(fs) + 1] = [name |-> main, body |-> b]
      BY <2>3 DEF HasOneMore
    <2>5. [name |-> main, body |-> b].body = b
      OBVIOUS
    <2> QED
      BY <2>3, <2>4, <2>5 DEF HasOneMore
  <1>11. f \in 1 .. Len(fs) \/ f = Len(fs) + 1
    BY <1>1, <1>10
  <1>12. CASE f \in 1 .. Len(fs)
    <2>1. f \in DOMAIN fs /\ gs[f] = fs[f]
      BY <1>1, <1>10, <1>12
    <2> QED
      BY <1>1, <2>1, InputCloses
  <1> QED
    BY <1>9, <1>10, <1>11, <1>12

\* Nobody calls the logger in a module that was not instrumented.
LEMMA CleanHasNoRecords ==
    ASSUME NEW fs, Clean(fs), NEW i \in InstructionsOf(fs)
    PROVE  ~IsBufferCall(i)
  BY DEF Clean, IsOfInput, IsBufferCall, Reserved, OwnFunctions

LEMMA InitGivesRecord == Init => RecordInv
  <1> SUFFICES ASSUME Init PROVE RecordInv
    OBVIOUS
  <1>1. arguments \in Arguments /\ functions = arguments.input /\ pass = "start"
    BY DEF Init
  <1>2. Clean(functions)
    BY <1>1, InputIsClean
  <1>3. \A f \in DOMAIN functions : Closes(functions[f].body)
    BY <1>1, InputCloses
  <1>4. \A i \in InstructionsOf(functions) : ~IsBufferCall(i)
    BY <1>2, CleanHasNoRecords
  <1> QED
    BY <1>1, <1>3, <1>4 DEF RecordInv

LEMMA StartKeepsRecord == PassesInv /\ CallsInv' /\ Start => RecordInv'
  <1> SUFFICES ASSUME PassesInv, CallsInv', Start PROVE RecordInv'
    OBVIOUS
  <1>1. /\ pass = "start" /\ pass' \in {"print", "configure"}
        /\ functions = arguments.input /\ arguments \in Arguments
        /\ functions' = (IF arguments.add_main THEN WithMain(arguments.input) ELSE arguments.input)
        /\ input' = functions'
    BY DEF PassesInv, ModuleInv, Start
  <1>2. PICK fs, gs : fs = arguments.input /\ gs = functions'
    OBVIOUS
  <1>3. Clean(gs)
    BY <1>1, <1>2 DEF CallsInv, InputInv
  <1>4. \A f \in DOMAIN gs : Closes(gs[f].body)
    <2>1. CASE gs = fs
      BY <1>1, <1>2, <2>1, InputCloses
    <2>2. CASE arguments.add_main /\ gs # fs
      <3>1. "main" \notin Named(fs)
        BY <1>1, <1>2, <2>2 DEF WithMain
      <3>2. GetsMain(arguments) /\ gs = WithMain(fs)
        BY <1>1, <1>2, <2>2, <3>1 DEF GetsMain
      <3> QED
        BY <1>2, <3>2, MainCloses
    <2> QED
      BY <1>1, <1>2, <2>1, <2>2
  <1>5. \A i \in InstructionsOf(gs) : ~IsBufferCall(i)
    BY <1>3, CleanHasNoRecords
  <1> QED
    BY <1>1, <1>2, <1>4, <1>5 DEF RecordInv

\* What ends a function is not taken out of it.
LEMMA ChosenCloses ==
    ASSUME NEW b, NEW r, NEW to, NEW P, Len(b) \in Nat, Len(r) \in Nat, Chosen(to, r, b, P),
           Len(b) \in P, Closes(b)
    PROVE  Closes(r)
  <1>1. PICK n, m : n = Len(b) /\ m = Len(r)
    OBVIOUS
  <1>2. /\ n \in Nat /\ m \in Nat /\ n # 0 /\ n \in 1 .. n /\ n \in P
        /\ \A l \in 1 .. m : to[l] \in 1 .. n
        /\ \A k, l \in 1 .. m : k < l => to[k] < to[l]
        /\ \A k \in 1 .. m : r[k] = b[to[k]]
        /\ EndsBlock(b[n]) \/ IsWrapperCall(b[n])
    BY <1>1 DEF Chosen, InOrder, Closes
  <1>3. PICK k \in 1 .. m : n = to[k]
    BY <1>1, <1>2 DEF Chosen
  <1>4. k = m
    <2> SUFFICES ASSUME k # m PROVE FALSE
      OBVIOUS
    <2>1. k < m /\ m \in 1 .. m
      BY <1>2, <1>3
    <2>2. to[k] < to[m] /\ to[m] \in 1 .. n
      BY <1>2, <2>1
    <2> QED
      BY <1>2, <1>3, <2>2
  <1>5. m # 0 /\ r[m] = b[n]
    BY <1>2, <1>3, <1>4
  <1> QED
    BY <1>1, <1>2, <1>5 DEF Closes

LEMMA RemoveSourcesKeepsRecord == PassesInv /\ PassesInv' /\ RecordInv /\ RemoveSources => RecordInv'
  <1> SUFFICES ASSUME PassesInv, PassesInv', RecordInv, RemoveSources PROVE RecordInv'
    OBVIOUS
  <1>0. pass = "remove_sources" /\ pass' = "dependency_map"
    BY DEF RemoveSources
  <1>1. PICK gs : gs = functions'
    OBVIOUS
  <1>2. IsModule(functions) /\ IsModule(gs) /\ DOMAIN gs = DOMAIN functions
    BY <1>1 DEF PassesInv, ModuleInv, Positioned, RemoveSources
  <1>3. ASSUME NEW f \in DOMAIN gs
        PROVE  Closes(gs[f].body) /\ \A k \in DOMAIN gs[f].body : ~IsBufferCall(gs[f].body[k])
    <2>1. f \in DOMAIN functions
      BY <1>2
    <2>2. PICK P, b, r, S : /\ b = functions[f].body /\ r = gs[f].body
                            /\ S = InstructionsOf(functions)
                            /\ P = {l \in DOMAIN b : ~IsIntrinsic(b[l])}
      OBVIOUS
    <2>3. r = AtPositions(b, P)
      <3>0. PICK R : R = AtPositions(b, P)
        OBVIOUS
      <3>1. gs[f] = [functions[f] EXCEPT !.body = R]
        BY <1>1, <2>1, <2>2, <3>0, Zenon DEF RemoveSources
      <3>2. functions[f] = [name |-> functions[f].name, body |-> functions[f].body]
        BY <1>2, <2>1, ModuleIs
      <3> QED
        BY <2>2, <3>0, <3>1, <3>2
    <2>4. b \in Seq(S) /\ Len(b) \in Nat /\ DOMAIN b = 1 .. Len(b)
      BY <1>2, <2>1, <2>2, ModuleIs
    <2>5. Len(r) \in Nat /\ DOMAIN r = 1 .. Len(r)
      BY <1>2, <2>2, ModuleIs
    <2>6. PICK to : Chosen(to, r, b, P)
      BY <2>3, <2>4, AtPositionsChooses
    <2>7. Closes(b) /\ \A i \in S : ~IsBufferCall(i)
      BY <1>0, <2>1, <2>2 DEF RecordInv, BeforeLogging, Passes
    <2>8. Len(b) \in P
      <3>1. Len(b) \in DOMAIN b /\ (EndsBlock(b[Len(b)]) \/ IsWrapperCall(b[Len(b)]))
        BY <2>4, <2>7 DEF Closes
      <3>2. ~IsIntrinsic(b[Len(b)])
        <4>1. CASE EndsBlock(b[Len(b)])
          BY <4>1 DEF EndsBlock, IsIntrinsic
        <4>2. CASE IsWrapperCall(b[Len(b)])
          <5>1. b[Len(b)].fn \notin OwnFunctions
            BY <4>2, NamesAssumption DEF IsWrapperCall
          <5> QED
            BY <5>1 DEF IsIntrinsic, OwnFunctions
        <4> QED
          BY <3>1, <4>1, <4>2
      <3> QED
        BY <2>2, <3>1, <3>2
    <2>9. Closes(r)
      BY <2>4, <2>5, <2>6, <2>7, <2>8, ChosenCloses
    <2>10. ASSUME NEW k \in 1 .. Len(r) PROVE ~IsBufferCall(r[k])
      <3>1. to[k] \in 1 .. Len(b) /\ r[k] = b[to[k]]
        BY <2>6 DEF Chosen, InOrder
      <3> QED
        BY <2>4, <2>7, <3>1
    <2> QED
      BY <2>2, <2>5, <2>9, <2>10
  <1>4. \A i \in InstructionsOf(gs) : ~IsBufferCall(i)
    BY <1>3, InstructionIsIn
  <1> QED
    BY <1>0, <1>1, <1>3, <1>4 DEF RecordInv

\* The records.
LEMMA AddLoggingKeepsRecord == PassesInv /\ RecordInv /\ AddLogging => RecordInv'
  <1> SUFFICES ASSUME PassesInv, RecordInv, AddLogging PROVE RecordInv'
    OBVIOUS
  <1>1. pass = "add_logging" /\ pass' = pass /\ at[2] <= Len(Body)
    BY DEF AddLogging, Visiting
  <1>2. Positioned
    BY DEF PassesInv, ModuleInv
  <1>3. /\ IsModule(functions) /\ at[1] \in DOMAIN functions /\ Body = functions[at[1]].body
        /\ Len(Body) \in Nat /\ at[1] \in Nat /\ at[2] \in Nat
    <2>1. /\ IsModule(functions) /\ at[1] \in DOMAIN functions /\ Body = functions[at[1]].body
          /\ at[2] \in 1 .. Len(Body) + 1
      BY <1>2 DEF Positioned, Body
    <2>2. Len(Body) \in Nat /\ DOMAIN functions = 1 .. Len(functions)
      BY <2>1, ModuleIs
    <2> QED
      BY <2>1, <2>2
  <1>4. PICK before, S : before = LoggerBlockHere /\ before \in Seq(S)
    BY AddLoggingVisit
  <1>5. PICK n, m, p, r, b, h, gs : /\ n = Len(Body) /\ m = Len(before) /\ p = at[2] /\ r = Body'
                                    /\ b = Body /\ h = at[1] /\ gs = functions'
    OBVIOUS
  <1>6. Visit(before, Current)
    BY <1>4, AddLoggingVisit
  <1>7. n \in Nat /\ m \in Nat /\ p \in 1 .. n /\ Current = b[p] /\ h \in Nat
    BY <1>1, <1>2, <1>3, <1>4, <1>5 DEF Positioned, Current
  <1>8. /\ at'[1] = h /\ at'[2] = p + m + 1 /\ DOMAIN gs = DOMAIN functions
        /\ \A f \in DOMAIN functions \ {h} : gs[f] = functions[f]
        /\ IsSpliced(r, b, p, before, b[p])
    <2>1. /\ at'[1] = h /\ at'[2] = at[2] + Len(before) + 1 /\ DOMAIN gs = DOMAIN functions
          /\ \A f \in DOMAIN functions \ {h} : gs[f] = functions[f]
          /\ IsSpliced(r, b, p, before, Current)
      BY <1>1, <1>2, <1>4, <1>5, <1>6, VisitStep DEF IsSpliced
    <2> QED
      BY <1>5, <1>7, <2>1
  <1>9. r = gs[h].body /\ b = functions[h].body
    BY <1>3, <1>5, <1>8 DEF Body
  <1>10. LogsBefore(before, b, p, m)
    BY <1>3, <1>4, <1>5, LoggerBlockLogs
  <1>11. LoggedTo(h) = p /\ LoggedTo(h)' = p + m + 1
    <2>1. ~(h < h)
      BY <1>7
    <2> QED
      BY <1>1, <1>5, <1>8, <2>1 DEF LoggedTo
  <1>12. Closes(b) /\ Recorded(b, p)
    <2>1. h \in DOMAIN functions
      BY <1>3, <1>5
    <2> QED
      BY <1>1, <1>9, <1>11, <2>1 DEF RecordInv
  <1>13. Closes(r) /\ Recorded(r, p + m + 1)
    <2>1. Closes(r)
      <3>1. PICK new : new = b[p]
        OBVIOUS
      <3>2. new.op = b[p].op /\ new.fn = b[p].fn /\ IsSpliced(r, b, p, before, new)
        BY <1>8, <3>1
      <3>3. n = Len(b) /\ m = Len(before) /\ Closes(b)
        BY <1>5, <1>12
      <3> QED
        BY <1>7, <3>2, <3>3, SplicedCloses
    <2>2. Recorded(r, p + m + 1)
      BY <1>5, <1>7, <1>8, <1>10, <1>12, RecordedStep
    <2> QED
      BY <2>1, <2>2
  <1>14. ASSUME NEW f \in DOMAIN gs
         PROVE  Closes(gs[f].body) /\ Recorded(gs[f].body, LoggedTo(f)')
    <2>1. CASE f = h
      BY <1>9, <1>11, <1>13, <2>1
    <2>2. CASE f # h
      <3>1. f \in DOMAIN functions /\ gs[f] = functions[f]
        BY <1>8, <2>2
      <3>2. LoggedTo(f)' = LoggedTo(f)
        BY <1>1, <1>5, <1>8, <2>2, <3>1 DEF LoggedTo
      <3> QED
        BY <1>1, <3>1, <3>2 DEF RecordInv
    <2> QED
      BY <2>1, <2>2
  <1>15. pass' \notin BeforeLogging
    BY <1>1 DEF BeforeLogging
  <1> QED
    BY <1>1, <1>5, <1>14, <1>15 DEF RecordInv

LEMMA NoDependencyMapKeepsRecord == PassesInv /\ RecordInv /\ NoDependencyMap => RecordInv'
  <1> SUFFICES ASSUME PassesInv, RecordInv, NoDependencyMap PROVE RecordInv'
    OBVIOUS
  <1>1. /\ pass = "dependency_map" /\ pass' = "configure_logging"
        /\ UNCHANGED <<functions, logging>>
    BY DEF NoDependencyMap, module_vars
  <1>2. pass \in BeforeLogging
    BY <1>1 DEF BeforeLogging, Passes
  <1>3. logging = NoLogging /\ ~LoggingIsOn(NoLogging)
    BY <1>2 DEF PassesInv, LoggingInv, LoggingIsOn, NoLogging
  <1> QED
    BY <1>1, <1>2, <1>3, SameModuleKeepsRecord

LEMMA LoadConfigurationKeepsRecord == PassesInv /\ RecordInv /\ LoadConfiguration => RecordInv'
  <1> SUFFICES ASSUME PassesInv, RecordInv, LoadConfiguration PROVE RecordInv'
    OBVIOUS
  <1>1. /\ pass = "configure_logging" /\ pass' \in {"add_logging", "done"}
        /\ pass' = "done" => ~LoggingIsOn(logging')
        /\ UNCHANGED <<functions, at>>
    BY DEF LoadConfiguration, module_vars
  <1>2. ASSUME pass' = "add_logging", NEW f \in DOMAIN functions
        PROVE  Recorded(functions[f].body, LoggedTo(f)')
    <2>1. IsModule(functions) /\ at = <<1, 1>> /\ DOMAIN functions = 1 .. Len(functions)
      BY <1>1, ModuleIs DEF PassesInv, ModuleInv, Positioned, Beginnings
    <2>2. LoggedTo(f)' = 1
      BY <1>1, <1>2, <2>1 DEF LoggedTo
    <2>3. \A k \in 1 .. Len(functions[f].body) : ~IsBufferCall(functions[f].body[k])
      <3> SUFFICES ASSUME NEW k \in 1 .. Len(functions[f].body)
                   PROVE  ~IsBufferCall(functions[f].body[k])
        OBVIOUS
      <3>1. functions[f].body[k] \in InstructionsOf(functions)
        BY <2>1, ModuleIs
      <3> QED
        BY <1>1, <3>1 DEF RecordInv, BeforeLogging, Passes
    <2> QED
      BY <2>2, <2>3, RecordedNone
  <1>3. pass' \notin BeforeLogging
    BY <1>1 DEF BeforeLogging
  <1> QED
    BY <1>1, <1>2, <1>3 DEF RecordInv

LEMMA EndOfFunctionKeepsRecord == PassesInv /\ RecordInv /\ EndOfFunction => RecordInv'
  <1> SUFFICES ASSUME PassesInv, RecordInv, EndOfFunction PROVE RecordInv'
    OBVIOUS
  <1>1. /\ pass \in {"print", "add_metadata", "add_sources", "wrap_sinks", "tags",
                     "dependency_map", "add_logging"}
        /\ pass' = pass \/ pass' = NextPass[pass]
        /\ at[2] > Len(Body)
        /\ UNCHANGED <<functions, logging>>
    BY DEF EndOfFunction, NextPass
  <1>2. /\ IsModule(functions) /\ Len(functions) \in Nat /\ DOMAIN functions = 1 .. Len(functions)
        /\ at[1] \in DOMAIN functions /\ at[2] \in 1 .. Len(Body) + 1
        /\ \A f \in DOMAIN functions : Len(functions[f].body) \in Nat
    BY ModuleIs DEF PassesInv, ModuleInv, Positioned
  <1>3. \/ at[1] < Len(functions) /\ at' = <<at[1] + 1, 1>> /\ pass' = pass
        \/ at[1] >= Len(functions) /\ at' = <<1, 1>> /\ pass' = NextPass[pass]
    BY <1>2 DEF EndOfFunction
  <1>4. CASE pass # "add_logging"
    <2>1. pass \in BeforeLogging
      BY <1>1, <1>4 DEF BeforeLogging, Passes
    <2>2. logging = NoLogging /\ ~LoggingIsOn(NoLogging)
      BY <2>1 DEF PassesInv, LoggingInv, LoggingIsOn, NoLogging
    <2>3. pass' # "add_logging"
      BY <1>1, <1>4 DEF NextPass
    <2> QED
      BY <1>1, <2>1, <2>2, <2>3, SameModuleKeepsRecord
  <1>5. CASE pass = "add_logging"
    <2>1. pass' \in {"add_logging", "done"} /\ pass' \notin BeforeLogging
      BY <1>1, <1>5 DEF NextPass, BeforeLogging
    <2>2. ASSUME NEW f \in DOMAIN functions PROVE LoggedTo(f)' = LoggedTo(f)
      <3>1. at[2] = Len(Body) + 1
        BY <1>1, <1>2 DEF Body
      <3>2. CASE at[1] < Len(functions) /\ at' = <<at[1] + 1, 1>> /\ pass' = pass
        <4>1. at'[1] = at[1] + 1 /\ at'[2] = 1
          BY <3>2
        <4> QED
          BY <1>1, <1>2, <1>5, <3>1, <3>2, <4>1 DEF LoggedTo, Body
      <3>3. CASE at[1] >= Len(functions) /\ at' = <<1, 1>> /\ pass' = NextPass[pass]
        <4>1. pass' = "done"
          BY <1>5, <3>3 DEF NextPass
        <4>2. f < at[1] \/ f = at[1]
          BY <1>2, <3>3
        <4> QED
          BY <1>1, <1>5, <3>1, <4>1, <4>2 DEF LoggedTo, Body
      <3> QED
        BY <1>3, <3>2, <3>3
    <2>3. \A f \in DOMAIN functions : Recorded(functions[f].body, LoggedTo(f))
      BY <1>5 DEF RecordInv
    <2> QED
      BY <1>1, <2>1, <2>2, <2>3 DEF RecordInv
  <1> QED
    BY <1>4, <1>5

LEMMA StutterKeepsRecord == RecordInv /\ UNCHANGED vars => RecordInv'
  <1> SUFFICES ASSUME RecordInv, UNCHANGED vars PROVE RecordInv'
    OBVIOUS
  <1>1. UNCHANGED <<functions, at, pass, logging>>
    BY DEF vars, module_vars
  <1> QED
    BY <1>1 DEF RecordInv, LoggedTo

\* Behind each call that AddLogging has passed is its record, and no other is
\* anywhere; no function ends with a call that needs one.
THEOREM RecordInvariant == Spec => []RecordInv
  <1>1. Init => RecordInv
    BY InitGivesRecord
  <1>2. /\ PassesInv /\ PassesInv' /\ CallsInv /\ CallsInv' /\ RunInv(FALSE) /\ RecordInv
        /\ [Next]_vars
        => RecordInv'
    BY StartKeepsRecord, PrintKeepsRecord, LoadInputFileKeepsRecord, AddMetadataSkipKeepsRecord,
       ConditionalUpdateKeepsRecord, AddSourcesKeepsRecord, WrapSinksSkipKeepsRecord,
       WrapSinksCollectKeepsRecord, WrapCallKeepsRecord, WrapCrashesKeepsRecord, TagsKeepRecord,
       RemoveSourcesKeepsRecord, NoDependencyMapKeepsRecord, OutputDependencyMapKeepsRecord,
       LoadConfigurationKeepsRecord,
       AddLoggingKeepsRecord, EndOfFunctionKeepsRecord, StutterKeepsRecord, Zenon DEF Next
  <1> QED
    BY <1>1, <1>2, PassesInvariant, CallsInvariant, CodeInvariant, PTL DEF Spec

-----------------------------------------------------------------------------
(* Each call-site is logged: what a run shows of it                        *)

IsSite(i) == i.meta # {} /\ i.op = "call"

\* What EveryCallSiteIsLogged says of a run.
SitesLogged(run) ==
    \A k \in 1 .. Len(run) :
      /\ IsSite(run[k]) => k < Len(run) /\ run[k + 1] = BufferLoggerCall(run[k])
      /\ IsBufferCall(run[k]) => k > 1 /\ IsSite(run[k - 1])

\* What a record says of a call does not depend on the operands of the call, and
\* is not changed by the wrapper.
LEMMA RecordOfCall ==
    ASSUME NEW x, IsRecord(x), x.fn \in DOMAIN Signature, NEW operands, NEW i,
           i = BufferLoggerCall(x)
    PROVE  /\ WithOperands(i, operands) = i
           /\ BufferLoggerCall(WithOperands(x, operands)) = i
           /\ IsBufferCall(i) /\ i.meta = {} /\ ~IsWrapperCall(i)
  <1>1. PICK args : /\ i = Instruction("call", "clam_prov_logging_buffer", args)
                    /\ args = <<<<"i32", 0>>,
                                <<"i64", CHOOSE id \in CallSiteIds(x) : TRUE>>,
                                <<Signature[x.fn].result, "result", x.src>>, <<"i8*", x.fn>>>>
    BY DEF BufferLoggerCall
  <1>2. /\ i.op = "call" /\ i.fn = "clam_prov_logging_buffer" /\ i.args = args
        /\ i.meta = {} /\ i.tags = {} /\ i.addr = 0 /\ i.src = 0 /\ IsRecord(i)
    BY <1>1, MadeInstruction
  <1>3. OperandsFor(i, operands) = args
    <2>1. PICK type, id, fn, src : /\ type = Signature[x.fn].result /\ fn = x.fn /\ src = x.src
                                   /\ id = CHOOSE n \in CallSiteIds(x) : TRUE
      OBVIOUS
    <2>2. type # "param"
      BY <2>1, ResultsAssumption
    <2>3. args = <<<<"i32", 0>>, <<"i64", id>>, <<type, "result", src>>, <<"i8*", fn>>>>
      BY <1>1, <2>1
    <2>4. \A k \in DOMAIN args : args[k][1] # "param"
      BY <2>2, <2>3
    <2>5. args = [k \in DOMAIN args |-> args[k]]
      BY <2>3
    <2>6. OperandsFor(i, operands) =
            [k \in DOMAIN args |-> IF args[k][1] = "param" THEN operands[args[k][2]] ELSE args[k]]
      BY <1>2 DEF OperandsFor
    <2>7. OperandsFor(i, operands) = [k \in DOMAIN args |-> args[k]]
      <3> HIDE <2>3
      <3> QED
        BY <2>4, <2>6
    <2> QED
      BY <2>5, <2>7
  <1>4. PICK j : j = WithOperands(i, operands)
    OBVIOUS
  <1>5. /\ IsRecord(j) /\ j.args = args /\ j.op = i.op /\ j.fn = i.fn /\ j.meta = i.meta
        /\ j.tags = i.tags /\ j.addr = i.addr /\ j.src = i.src
    BY <1>2, <1>3, <1>4, WithOperandsIs
  <1>6. j = i
    BY <1>2, <1>5 DEF IsRecord
  <1>7. PICK y : y = WithOperands(x, operands)
    OBVIOUS
  <1>8. y.fn = x.fn /\ y.meta = x.meta /\ y.src = x.src
    BY <1>7, WithOperandsIs
  <1>9. BufferLoggerCall(y) = i
    BY <1>8, Zenon DEF BufferLoggerCall, CallSiteIds
  <1>10. IsBufferCall(i)
    BY <1>2 DEF IsBufferCall
  <1>11. ~IsWrapperCall(i)
    BY <1>2, NamesAssumption DEF IsWrapperCall, OwnFunctions
  <1> QED
    BY <1>2, <1>4, <1>6, <1>7, <1>9, <1>10, <1>11

\* What is next to each other in a body is so among the places that are chosen.
LEMMA ChosenNext ==
    ASSUME NEW r, NEW b, NEW to, NEW P, Len(r) \in Nat, Len(b) \in Nat, Chosen(to, r, b, P),
           NEW k \in 1 .. Len(r)
    PROVE  /\ to[k] < Len(b) /\ to[k] + 1 \in P => k < Len(r) /\ to[k + 1] = to[k] + 1
           /\ to[k] > 1 /\ to[k] - 1 \in P => k > 1 /\ to[k - 1] = to[k] - 1
  <1>1. PICK n, m : n = Len(b) /\ m = Len(r)
    OBVIOUS
  <1>2. /\ n \in Nat /\ m \in Nat /\ k \in 1 .. m
        /\ \A l \in 1 .. m : to[l] \in 1 .. n
        /\ \A j, l \in 1 .. m : j < l => to[j] < to[l]
        /\ \A l \in 1 .. n : l \in P => \E j \in 1 .. m : l = to[j]
    BY <1>1 DEF Chosen, InOrder
  <1>3. ASSUME to[k] < n, to[k] + 1 \in P PROVE k < m /\ to[k + 1] = to[k] + 1
    <2>1. to[k] + 1 \in 1 .. n
      BY <1>2, <1>3
    <2>2. PICK j \in 1 .. m : to[k] + 1 = to[j]
      BY <1>2, <1>3, <2>1
    <2>3. j > k
      <3> SUFFICES ASSUME ~(j > k) PROVE FALSE
        OBVIOUS
      <3>1. j = k \/ j < k
        BY <1>2
      <3>2. to[j] \in Nat /\ to[k] \in Nat /\ (j < k => to[j] < to[k])
        BY <1>2
      <3> QED
        BY <2>2, <3>1, <3>2
    <2>4. k + 1 \in 1 .. m /\ k < m
      BY <1>2, <2>3
    <2>5. j = k + 1
      <3> SUFFICES ASSUME j # k + 1 PROVE FALSE
        OBVIOUS
      <3>1. k < k + 1 /\ k + 1 < j
        BY <1>2, <2>3
      <3>2. to[k] < to[k + 1] /\ to[k + 1] < to[j]
        BY <1>2, <2>4, <3>1
      <3>3. to[k] \in Nat /\ to[k + 1] \in Nat
        BY <1>2, <2>4
      <3> QED
        BY <2>2, <3>2, <3>3
    <2> QED
      BY <2>2, <2>4, <2>5
  <1>4. ASSUME to[k] > 1, to[k] - 1 \in P PROVE k > 1 /\ to[k - 1] = to[k] - 1
    <2>1. to[k] - 1 \in 1 .. n
      BY <1>2, <1>4
    <2>2. PICK j \in 1 .. m : to[k] - 1 = to[j]
      BY <1>2, <1>4, <2>1
    <2>3. j < k
      <3> SUFFICES ASSUME ~(j < k) PROVE FALSE
        OBVIOUS
      <3>1. j = k \/ k < j
        BY <1>2
      <3>2. to[j] \in Nat /\ to[k] \in Nat /\ (k < j => to[k] < to[j])
        BY <1>2
      <3> QED
        BY <2>2, <3>1, <3>2
    <2>4. k - 1 \in 1 .. m /\ k > 1
      BY <1>2, <2>3
    <2>5. j = k - 1
      <3> SUFFICES ASSUME j # k - 1 PROVE FALSE
        OBVIOUS
      <3>1. j < k - 1 /\ k - 1 < k
        BY <1>2, <2>3
      <3>2. to[j] < to[k - 1] /\ to[k - 1] < to[k]
        BY <1>2, <2>4, <3>1
      <3>3. to[k] \in Nat /\ to[k - 1] \in Nat
        BY <1>2, <2>4
      <3> QED
        BY <2>2, <3>2, <3>3
    <2> QED
      BY <2>2, <2>4, <2>5
  <1> QED
    BY <1>1, <1>3, <1>4

\* A record next to a call that is reached is reached, and the call next to a
\* record that is.
LEMMA ReachedNext ==
    ASSUME NEW b, NEW n \in Nat, DOMAIN b = 1 .. n, NEW l \in Reached(b)
    PROVE  /\ l \in 1 .. n
           /\ l < n /\ b[l + 1].op = "call" => l + 1 \in Reached(b)
           /\ l > 1 /\ b[l - 1].op = "call" => l - 1 \in Reached(b)
  <1>1. l \in 1 .. n /\ \A j \in 1 .. l : b[j].op # "ret"
    BY DEF Reached
  <1>2. ASSUME l < n, b[l + 1].op = "call" PROVE l + 1 \in Reached(b)
    <2>1. l + 1 \in DOMAIN b
      BY <1>1, <1>2
    <2>2. ASSUME NEW j \in 1 .. l + 1 PROVE b[j].op # "ret"
      <3>1. j \in 1 .. l \/ j = l + 1
        BY <1>1
      <3> QED
        BY <1>1, <1>2, <3>1
    <2> QED
      BY <1>2, <2>1, <2>2 DEF Reached
  <1>3. ASSUME l > 1, b[l - 1].op = "call" PROVE l - 1 \in Reached(b)
    <2>1. l - 1 \in DOMAIN b
      BY <1>1, <1>3
    <2>2. \A j \in 1 .. l - 1 : b[j].op # "ret"
      <3>1. \A j \in 1 .. l - 1 : j \in 1 .. l
        BY <1>1
      <3> QED
        BY <1>1, <3>1
    <2> QED
      BY <1>3, <2>1, <2>2 DEF Reached
  <1> QED
    BY <1>1, <1>2, <1>3

\* What a wrapper does is logged as its body is.
LEMMA InlineLogs ==
    ASSUME NEW S, NEW b \in Seq(S), SitesLogged(b),
           \A i \in S : IsRecord(i) /\ (i.meta # {} => i.fn \in DOMAIN Signature), NEW operands
    PROVE  /\ \E T : Inline(b, operands) \in Seq(T)
           /\ SitesLogged(Inline(b, operands))
  <1>1. PICK P, r, n : P = Reached(b) /\ r = AtPositions(b, P) /\ n = Len(b)
    OBVIOUS
  <1>2. PICK to : Chosen(to, r, b, P) /\ r \in Seq(S)
    BY <1>1, AtPositionsChooses
  <1>3. PICK run, m : run = Inline(b, operands) /\ m = Len(r)
    OBVIOUS
  <1>4. /\ n \in Nat /\ DOMAIN b = 1 .. n /\ m \in Nat
        /\ \A l \in 1 .. n : b[l] \in S
        /\ \A k \in 1 .. m : to[k] \in 1 .. n /\ to[k] \in P /\ r[k] = b[to[k]]
    BY <1>1, <1>2, <1>3 DEF Chosen, InOrder
  <1>5. /\ run = [k \in 1 .. m |-> WithOperands(r[k], operands)]
        /\ Len(run) = m
    BY <1>1, <1>2, <1>3, <1>4 DEF Inline
  <1>6. ASSUME NEW k \in 1 .. m, NEW l, l = to[k]
        PROVE  /\ l \in 1 .. n /\ l \in P /\ run[k] = WithOperands(b[l], operands)
               /\ run[k].op = b[l].op /\ run[k].fn = b[l].fn /\ run[k].meta = b[l].meta
    <2>1. l \in 1 .. n /\ l \in P /\ run[k] = WithOperands(b[l], operands)
      BY <1>4, <1>5, <1>6
    <2>2. PICK i, j : i = b[l] /\ j = run[k]
      OBVIOUS
    <2>3. IsRecord(i) /\ j = WithOperands(i, operands)
      BY <1>4, <2>1, <2>2
    <2>4. j.op = i.op /\ j.fn = i.fn /\ j.meta = i.meta
      BY <2>3, WithOperandsIs
    <2> QED
      BY <2>1, <2>2, <2>4
  <1>7. ASSUME NEW k \in 1 .. m, IsSite(run[k])
        PROVE  k < m /\ run[k + 1] = BufferLoggerCall(run[k])
    <2>1. PICK l, x, i : l = to[k] /\ x = b[l] /\ i = BufferLoggerCall(x)
      OBVIOUS
    <2>2. l \in 1 .. n /\ l \in P /\ run[k] = WithOperands(x, operands) /\ IsSite(x)
      BY <1>6, <1>7, <2>1 DEF IsSite
    <2>3. l < n /\ b[l + 1] = i
      BY <1>1, <2>1, <2>2 DEF SitesLogged
    <2>4. IsRecord(x) /\ x.fn \in DOMAIN Signature
      BY <1>4, <2>1, <2>2 DEF IsSite
    <2>5. /\ WithOperands(i, operands) = i /\ BufferLoggerCall(WithOperands(x, operands)) = i
          /\ i.op = "call"
      BY <2>1, <2>4, RecordOfCall DEF IsBufferCall
    <2>6. l + 1 \in P
      BY <1>1, <1>4, <2>2, <2>3, <2>5, ReachedNext
    <2>7. k < m /\ to[k + 1] = l + 1
      BY <1>1, <1>2, <1>3, <1>4, <2>1, <2>3, <2>6, ChosenNext
    <2>8. k + 1 \in 1 .. m
      BY <1>4, <2>7
    <2>9. run[k + 1] = WithOperands(i, operands)
      BY <1>6, <2>3, <2>7, <2>8
    <2> QED
      BY <2>2, <2>5, <2>7, <2>9
  <1>8. ASSUME NEW k \in 1 .. m, IsBufferCall(run[k]) PROVE k > 1 /\ IsSite(run[k - 1])
    <2>1. PICK l : l = to[k]
      OBVIOUS
    <2>2. l \in 1 .. n /\ l \in P /\ IsBufferCall(b[l])
      BY <1>6, <1>8, <2>1 DEF IsBufferCall
    <2>3. l > 1 /\ IsSite(b[l - 1])
      BY <1>1, <2>2 DEF SitesLogged
    <2>4. l - 1 \in P
      BY <1>1, <1>4, <2>2, <2>3, ReachedNext DEF IsSite
    <2>5. k > 1 /\ to[k - 1] = l - 1
      BY <1>1, <1>2, <1>3, <1>4, <2>1, <2>3, <2>4, ChosenNext
    <2>6. k - 1 \in 1 .. m
      BY <1>4, <2>5
    <2> QED
      BY <1>6, <2>3, <2>5, <2>6 DEF IsSite
  <1>9. SitesLogged(run)
    BY <1>5, <1>7, <1>8 DEF SitesLogged
  <1>10. run \in Seq(ToSet(run))
    BY <1>4, <1>5 DEF ToSet
  <1> QED
    BY <1>3, <1>9, <1>10

\* The call that logs a call is a record.
LEMMA BufferCallIs ==
    ASSUME NEW x, NEW i, i = BufferLoggerCall(x)
    PROVE  IsBufferCall(i)
  <1>1. PICK args : i = Instruction("call", "clam_prov_logging_buffer", args)
    BY DEF BufferLoggerCall
  <1> QED
    BY <1>1, MadeInstruction DEF IsBufferCall

\* What instruction p of b stands for is the instruction itself.
IsAlone(ss, b, p) == Len(ss[p]) = 1 /\ ss[p][1] = b[p]

\* The place after place j of a piece of length s that follows o of t instructions.
LEMMA PlaceAfter ==
    ASSUME NEW o \in Nat, NEW s \in Nat, NEW t \in Nat, o + s <= t,
           NEW j \in 1 .. s, NEW k, k = o + j, j < s
    PROVE  j + 1 \in 1 .. s /\ k + 1 = o + (j + 1) /\ k < t
  OBVIOUS

\* The place before it.
LEMMA PlaceBefore ==
    ASSUME NEW o \in Nat, NEW s \in Nat, NEW j \in 1 .. s, NEW k, k = o + j, j > 1
    PROVE  j - 1 \in 1 .. s /\ k - 1 = o + (j - 1) /\ k > 1
  OBVIOUS

\* A run is logged as the body is and what the wrappers do.
LEMMA FlattenLogs ==
    ASSUME NEW n \in Nat, NEW ss, NEW r, NEW off, NEW b, Len(r) \in Nat, n = Len(b),
           Places(off, r, ss, n), \A p \in 1 .. n : Len(ss[p]) \in Nat, SitesLogged(b),
           \A p \in 1 .. n : IsAlone(ss, b, p) \/ SitesLogged(ss[p]),
           \A p \in 1 .. n : IsSite(b[p]) \/ IsBufferCall(b[p]) => IsAlone(ss, b, p)
    PROVE  SitesLogged(r)
  <1>1. /\ \A p \in 1 .. n : off[p] \in Nat /\ off[p] + Len(ss[p]) <= Len(r)
        /\ \A p \in 1 .. n : \A j \in 1 .. Len(ss[p]) : r[off[p] + j] = ss[p][j]
        /\ \A k \in 1 .. Len(r) : \E p \in 1 .. n : \E j \in 1 .. Len(ss[p]) : k = off[p] + j
        /\ \A p \in 1 .. n - 1 : off[p + 1] = off[p] + Len(ss[p])
    BY DEF Places
  <1>2. ASSUME NEW k \in 1 .. Len(r)
        PROVE  /\ IsSite(r[k]) => k < Len(r) /\ r[k + 1] = BufferLoggerCall(r[k])
               /\ IsBufferCall(r[k]) => k > 1 /\ IsSite(r[k - 1])
    <2>1. PICK p \in 1 .. n : \E j \in 1 .. Len(ss[p]) : k = off[p] + j
      BY <1>1
    <2>2. PICK j \in 1 .. Len(ss[p]) : k = off[p] + j
      BY <2>1
    <2>3. r[k] = ss[p][j] /\ off[p] \in Nat /\ Len(ss[p]) \in Nat /\ off[p] + Len(ss[p]) <= Len(r)
      BY <1>1, <2>2
    <2>4. CASE SitesLogged(ss[p])
      <3>1. /\ IsSite(ss[p][j]) => j < Len(ss[p]) /\ ss[p][j + 1] = BufferLoggerCall(ss[p][j])
            /\ IsBufferCall(ss[p][j]) => j > 1 /\ IsSite(ss[p][j - 1])
        BY <2>4 DEF SitesLogged
      <3>2. ASSUME IsSite(r[k]) PROVE k < Len(r) /\ r[k + 1] = BufferLoggerCall(r[k])
        <4>1. j < Len(ss[p]) /\ ss[p][j + 1] = BufferLoggerCall(r[k])
          BY <2>3, <3>1, <3>2
        <4>2. j + 1 \in 1 .. Len(ss[p]) /\ k + 1 = off[p] + (j + 1) /\ k < Len(r)
          <5>1. PICK o, s, t : o = off[p] /\ s = Len(ss[p]) /\ t = Len(r)
            OBVIOUS
          <5>2. /\ o \in Nat /\ s \in Nat /\ t \in Nat /\ o + s <= t
                /\ j \in 1 .. s /\ k = o + j /\ j < s
            BY <2>2, <2>3, <4>1, <5>1
          <5>3. j + 1 \in 1 .. s /\ k + 1 = o + (j + 1) /\ k < t
            BY <5>2, PlaceAfter
          <5> QED
            BY <5>1, <5>3
        <4>3. r[off[p] + (j + 1)] = ss[p][j + 1]
          BY <1>1, <4>2
        <4> QED
          BY <4>1, <4>2, <4>3
      <3>3. ASSUME IsBufferCall(r[k]) PROVE k > 1 /\ IsSite(r[k - 1])
        <4>1. j > 1 /\ IsSite(ss[p][j - 1])
          BY <2>3, <3>1, <3>3
        <4>2. j - 1 \in 1 .. Len(ss[p]) /\ k - 1 = off[p] + (j - 1) /\ k > 1
          <5>1. PICK o, s : o = off[p] /\ s = Len(ss[p])
            OBVIOUS
          <5>2. o \in Nat /\ s \in Nat /\ j \in 1 .. s /\ k = o + j /\ j > 1
            BY <2>2, <2>3, <4>1, <5>1
          <5>3. j - 1 \in 1 .. s /\ k - 1 = o + (j - 1) /\ k > 1
            BY <5>2, PlaceBefore
          <5> QED
            BY <5>1, <5>3
        <4>3. r[off[p] + (j - 1)] = ss[p][j - 1]
          BY <1>1, <4>2
        <4> QED
          BY <4>1, <4>2, <4>3
      <3> QED
        BY <3>2, <3>3
    <2>5. CASE IsAlone(ss, b, p)
      <3>1. Len(ss[p]) = 1 /\ j = 1 /\ r[k] = b[p] /\ k = off[p] + 1
        BY <2>2, <2>3, <2>5 DEF IsAlone
      <3>2. ASSUME IsSite(r[k]) PROVE k < Len(r) /\ r[k + 1] = BufferLoggerCall(r[k])
        <4>1. p < n /\ b[p + 1] = BufferLoggerCall(b[p])
          BY <3>1, <3>2 DEF SitesLogged
        <4>2. p + 1 \in 1 .. n /\ p \in 1 .. n - 1
          BY <4>1
        <4>3. IsAlone(ss, b, p + 1)
          BY <4>1, <4>2, BufferCallIs
        <4>4. /\ off[p + 1] = off[p] + 1 /\ off[p + 1] + 1 <= Len(r) /\ 1 \in 1 .. Len(ss[p + 1])
              /\ ss[p + 1][1] = b[p + 1]
          BY <1>1, <3>1, <4>2, <4>3 DEF IsAlone
        <4>5. r[off[p + 1] + 1] = b[p + 1]
          BY <1>1, <4>2, <4>4
        <4>6. k + 1 = off[p + 1] + 1 /\ k < Len(r)
          BY <2>3, <3>1, <4>4
        <4> QED
          BY <3>1, <4>1, <4>5, <4>6
      <3>3. ASSUME IsBufferCall(r[k]) PROVE k > 1 /\ IsSite(r[k - 1])
        <4>1. p > 1 /\ IsSite(b[p - 1])
          BY <3>1, <3>3 DEF SitesLogged
        <4>2. PICK q : q = p - 1
          OBVIOUS
        <4>3. q \in 1 .. n /\ q \in 1 .. n - 1 /\ p = q + 1 /\ IsSite(b[q])
          BY <4>1, <4>2
        <4>4. IsAlone(ss, b, q)
          BY <4>3
        <4>8. Len(ss[q]) = 1 /\ ss[q][1] = b[q]
          BY <4>4 DEF IsAlone
        <4>9. off[q + 1] = off[q] + Len(ss[q]) /\ off[q] \in Nat
          BY <1>1, <4>3
        <4>10. off[p] = off[q] + Len(ss[q])
          BY <4>3, <4>9
        <4>11. off[p] = off[q] + 1 /\ 1 \in 1 .. Len(ss[q])
          BY <4>8, <4>10
        <4>5. /\ off[p] = off[q] + 1 /\ off[q] \in Nat /\ 1 \in 1 .. Len(ss[q])
              /\ ss[q][1] = b[q]
          BY <4>8, <4>9, <4>11
        <4>6. r[off[q] + 1] = b[q]
          BY <1>1, <4>3, <4>5
        <4>7. k - 1 = off[q] + 1 /\ k > 1
          BY <3>1, <4>5
        <4> QED
          BY <4>3, <4>6, <4>7
      <3> QED
        BY <3>2, <3>3
    <2> QED
      BY <2>4, <2>5
  <1> QED
    BY <1>2 DEF SitesLogged

\* What is so of every call that has a number.
IsKnown(i) == IsRecord(i) /\ (i.meta # {} => i.fn \in DOMAIN Signature /\ i.fn \notin Reserved)

\* All that an instruction does is logged, when all bodies are.
LEMMA DoesLogs ==
    ASSUME NEW fs, Runs(fs), \A i \in InstructionsOf(fs) : IsKnown(i),
           \A f \in DOMAIN fs : SitesLogged(fs[f].body), NEW i \in InstructionsOf(fs)
    PROVE  /\ \E T : Does(fs, i) \in Seq(T)
           /\ ~IsWrapperCall(i) => Does(fs, i) = <<i>>
           /\ IsWrapperCall(i) => SitesLogged(Does(fs, i))
  <1>1. CASE ~IsWrapperCall(i)
    <2>1. Does(fs, i) = <<i>>
      BY <1>1 DEF Does
    <2>2. <<i>> \in Seq({i})
      OBVIOUS
    <2> QED
      BY <1>1, <2>1, <2>2
  <1>2. CASE IsWrapperCall(i)
    <2>1. PICK g \in DOMAIN fs : fs[g].name = i.fn
      BY <1>2, RunsIs
    <2>2. Does(fs, i) = Inline(fs[g].body, i.args)
      BY <1>2, <2>1, DoesInline
    <2>3. PICK b, S, args : b = fs[g].body /\ S = InstructionsOf(fs) /\ args = i.args
      OBVIOUS
    <2>4. b \in Seq(S) /\ SitesLogged(b)
      BY <2>1, <2>3, RunsIs
    <2>5. \A x \in S : IsRecord(x) /\ (x.meta # {} => x.fn \in DOMAIN Signature)
      BY <2>3 DEF IsKnown
    <2>6. (\E T : Inline(b, args) \in Seq(T)) /\ SitesLogged(Inline(b, args))
      BY <2>4, <2>5, InlineLogs
    <2> QED
      BY <1>2, <2>2, <2>3, <2>6
  <1> QED
    BY <1>1, <1>2

\* A call with a number and a record are not calls of wrappers.
LEMMA SitesAreNoWrapperCalls ==
    ASSUME NEW i, IsKnown(i), IsSite(i) \/ IsBufferCall(i)
    PROVE  ~IsWrapperCall(i)
  <1>1. "clam_prov_logging_buffer" \in OwnFunctions
    BY DEF OwnFunctions
  <1>2. "clam_prov_logging_buffer" \notin ToSet(WrapperName)
    BY <1>1, WrappersAreReserved
  <1> QED
    BY <1>2, WrappersAreReserved DEF IsKnown, IsSite, IsBufferCall, IsWrapperCall

\* The sequences that a sequence of sequences has.
LEMMA SequencesOf ==
    ASSUME NEW n \in Nat, NEW ss, IsSeqOfSeqs(ss, n)
    PROVE  \E S : ss \in Seq(Seq(S))
  <1>1. PICK S : S = UNION {ToSet(ss[k]) : k \in 1 .. n}
    OBVIOUS
  <1>2. \A k \in 1 .. n : ss[k] \in Seq(S)
    <2> TAKE k \in 1 .. n
    <2>1. PICK T : ss[k] \in Seq(T)
      BY DEF IsSeqOfSeqs
    <2>2. ToSet(ss[k]) \subseteq S
      BY <1>1
    <2> QED
      BY <2>1, <2>2 DEF ToSet
  <1>3. ss \in Seq(Seq(S))
    BY <1>2 DEF IsSeqOfSeqs
  <1> QED
    BY <1>3

\* So is the run of every function.
LEMMA RunLogs ==
    ASSUME NEW fs, Runs(fs), \A i \in InstructionsOf(fs) : IsKnown(i),
           \A f \in DOMAIN fs : SitesLogged(fs[f].body), NEW f \in DOMAIN fs
    PROVE  SitesLogged(Run(fs, f)) /\ DOMAIN Run(fs, f) = 1 .. Len(Run(fs, f))
  <1>1. PICK b, n, ss :
        b = fs[f].body /\ n = Len(b) /\ ss = [k \in DOMAIN b |-> Does(fs, b[k])]
    OBVIOUS
  <1>2. /\ b \in Seq(InstructionsOf(fs)) /\ n \in Nat /\ DOMAIN b = 1 .. n
        /\ \A k \in 1 .. n : b[k] \in InstructionsOf(fs)
    <2>1. b \in Seq(InstructionsOf(fs))
      BY <1>1, RunsIs
    <2>2. PICK S : S = InstructionsOf(fs)
      OBVIOUS
    <2> QED
      BY <1>1, <2>1, <2>2
  <1>3. ASSUME NEW k \in 1 .. n
        PROVE  /\ \E T : ss[k] \in Seq(T)
               /\ ~IsWrapperCall(b[k]) => ss[k] = <<b[k]>>
               /\ IsWrapperCall(b[k]) => SitesLogged(ss[k])
               /\ IsSite(b[k]) \/ IsBufferCall(b[k]) => ~IsWrapperCall(b[k])
    <2>1. ss[k] = Does(fs, b[k])
      BY <1>1, <1>2
    <2>2. PICK i, s : i = b[k] /\ s = ss[k]
      OBVIOUS
    <2>3. i \in InstructionsOf(fs) /\ s = Does(fs, i)
      BY <1>2, <2>1, <2>2
    <2>4. /\ \E T : s \in Seq(T)
          /\ ~IsWrapperCall(i) => s = <<i>>
          /\ IsWrapperCall(i) => SitesLogged(s)
      BY <2>3, DoesLogs
    <2>5. IsSite(i) \/ IsBufferCall(i) => ~IsWrapperCall(i)
      BY <2>3, SitesAreNoWrapperCalls
    <2> QED
      BY <2>2, <2>4, <2>5
  <1>4. IsSeqOfSeqs(ss, n)
    BY <1>1, <1>2, <1>3 DEF IsSeqOfSeqs
  <1>5. PICK S : ss \in Seq(Seq(S))
    BY <1>2, <1>4, SequencesOf
  <1>6. PICK r : r = FlattenSeq(ss)
    OBVIOUS
  <1>7. r \in Seq(S)
    BY <1>5, <1>6, FlattenType
  <1>8. Len(r) \in Nat /\ DOMAIN r = 1 .. Len(r)
    BY <1>7
  <1>9. Len(ss) = n /\ \A k \in 1 .. n : Len(ss[k]) \in Nat
    BY <1>1, <1>2, <1>5
  <1>10. PICK off : Places(off, r, ss, n)
    BY <1>5, <1>6, <1>9, FlattenPlaces
  <1>11. \A k \in 1 .. n : ~IsWrapperCall(b[k]) => IsAlone(ss, b, k)
    <2> SUFFICES ASSUME NEW k \in 1 .. n, ~IsWrapperCall(b[k]) PROVE IsAlone(ss, b, k)
      OBVIOUS
    <2>1. ss[k] = <<b[k]>>
      BY <1>3
    <2> QED
      BY <2>1 DEF IsAlone
  <1>12. /\ \A k \in 1 .. n : IsAlone(ss, b, k) \/ SitesLogged(ss[k])
         /\ \A k \in 1 .. n : IsSite(b[k]) \/ IsBufferCall(b[k]) => IsAlone(ss, b, k)
    BY <1>3, <1>11
  <1>13. SitesLogged(b)
    BY <1>1
  <1>14. SitesLogged(r)
    BY <1>1, <1>2, <1>8, <1>9, <1>10, <1>12, <1>13, FlattenLogs
  <1>15. Run(fs, f) = r
    BY <1>1, <1>6 DEF Run
  <1> QED
    BY <1>8, <1>14, <1>15

\* When the pass is over the records are where EveryCallSiteIsLogged has them.
LEMMA RecordedLogs ==
    ASSUME NEW b, NEW n \in Nat, n = Len(b), Closes(b), Recorded(b, n + 1),
           \A k \in 1 .. n : IsKnown(b[k]) /\ (b[k].meta # {} => IsDirectCall(b[k]))
    PROVE  SitesLogged(b)
  <1>1. ASSUME NEW k \in 1 .. n
        PROVE  /\ IsLogged(b[k]) <=> IsSite(b[k])
               /\ IsSite(b[k]) => k # n
    <2>1. PICK i : i = b[k]
      OBVIOUS
    <2>2. IsKnown(i) /\ (i.meta # {} => IsDirectCall(i))
      BY <2>1
    <2>3. "clam_prov_logging_init" \in Reserved /\ "clam_prov_logging_buffer" \in Reserved
      BY DEF Reserved, OwnFunctions
    <2>4. IsLogged(i) => IsSite(i)
      BY DEF IsLogged, IsSite, IsDirectCall, EndsBlock
    <2>5. IsSite(i) => IsLogged(i)
      BY <2>2, <2>3 DEF IsLogged, IsSite, IsKnown, EndsBlock
    <2>6. IsSite(i) => ~EndsBlock(i) /\ ~IsWrapperCall(i)
      BY <2>2, SitesAreNoWrapperCalls DEF IsSite, EndsBlock
    <2>7. IsSite(i) => k # n
      BY <2>1, <2>6 DEF Closes
    <2> QED
      BY <2>1, <2>4, <2>5, <2>7
  <1>2. ASSUME NEW k \in 1 .. n, IsSite(b[k]) PROVE k < n /\ b[k + 1] = BufferLoggerCall(b[k])
    <2>1. k < n /\ k < (n + 1) - 1
      BY <1>1, <1>2
    <2>2. IsLogged(b[k])
      BY <1>1, <1>2
    <2> QED
      BY <2>1, <2>2 DEF Recorded
  <1>3. ASSUME NEW k \in 1 .. n, IsBufferCall(b[k]) PROVE k > 1 /\ IsSite(b[k - 1])
    <2>1. k > 1 /\ IsLogged(b[k - 1])
      BY <1>3 DEF Recorded
    <2>2. PICK l : l = k - 1
      OBVIOUS
    <2>3. l \in 1 .. n
      BY <2>1, <2>2
    <2> QED
      BY <1>1, <2>1, <2>2, <2>3
  <1> QED
    BY <1>2, <1>3 DEF SitesLogged

\* In every state in which the passes are done, with logging on, each numbered
\* call of a run of the program that does not end its block is followed by the
\* record of it, before anything else of the program, and there are no other
\* records: whatever was wrapped, moved, annotated and erased in between.
THEOREM CallSitesAreLogged == Spec => []EveryCallSiteIsLogged
  <1>1. PassesInv /\ CallsInv /\ RunInv(FALSE) /\ RecordInv => EveryCallSiteIsLogged
    <2> SUFFICES ASSUME PassesInv, CallsInv, RunInv(FALSE), RecordInv,
                        pass = "done", LoggingIsOn(logging)
                 PROVE  \A f \in Program : SitesLogged(Run(functions, f))
                                           /\ DOMAIN Run(functions, f) = 1 .. Len(Run(functions, f))
      BY DEF EveryCallSiteIsLogged, SitesLogged, IsSite
    <2>1. Runs(functions) /\ IsModule(functions)
      BY DEF RunInv, MakesCallsOf, Runs
    <2>2. \A i \in InstructionsOf(functions) : IsKnown(i) /\ (i.meta # {} => IsDirectCall(i))
      <3>1. \A i \in InstructionsOf(functions) : IsInstruction(i)
        BY DEF PassesInv, ModuleInv
      <3>2. \A i \in InstructionsOf(functions) : IsSiteOnce(i)
        BY DEF CallsInv, NumbersInv
      <3> QED
        BY <3>1, <3>2 DEF IsInstruction, IsSiteOnce, IsKnown
    <2>3. ASSUME NEW f \in DOMAIN functions PROVE SitesLogged(functions[f].body)
      <3>1. PICK b, n : b = functions[f].body /\ n = Len(b)
        OBVIOUS
      <3>2. n \in Nat /\ \A k \in 1 .. n : b[k] \in InstructionsOf(functions)
        BY <2>1, <3>1, ModuleIs
      <3>3. Closes(b)
        BY <3>1 DEF RecordInv
      <3>4. LoggedTo(f) = n + 1
        BY <3>1 DEF LoggedTo
      <3>5. Recorded(b, n + 1)
        BY <3>1, <3>4 DEF RecordInv
      <3>6. \A k \in 1 .. n : IsKnown(b[k]) /\ (b[k].meta # {} => IsDirectCall(b[k]))
        BY <2>2, <3>2
      <3> QED
        BY <3>1, <3>2, <3>3, <3>5, <3>6, RecordedLogs
    <2>4. Program \subseteq DOMAIN functions
      BY DEF PassesInv, ModuleInv, Program
    <2>5. PICK fs : fs = functions
      OBVIOUS
    <2>6. ASSUME NEW f \in DOMAIN fs
          PROVE  SitesLogged(Run(fs, f)) /\ DOMAIN Run(fs, f) = 1 .. Len(Run(fs, f))
      <3>1. /\ Runs(fs) /\ \A i \in InstructionsOf(fs) : IsKnown(i)
            /\ \A g \in DOMAIN fs : SitesLogged(fs[g].body)
        BY <2>1, <2>2, <2>3, <2>5
      <3> QED
        BY <3>1, RunLogs
    <2> QED
      BY <2>4, <2>5, <2>6
  <1> QED
    BY <1>1, PassesInvariant, CallsInvariant, CodeInvariant, RecordInvariant, PTL


-----------------------------------------------------------------------------
(* The main that a library gets                                            *)

\* Where a type comes first, and how many types have come up to there.
FirstOf(types, type) == Min({k \in DOMAIN types : types[k] = type})
TypesUpTo(types, n) == {types[k] : k \in 1 .. n}

LEMMA FirstIs ==
    ASSUME NEW S, NEW types \in Seq(S), NEW type \in ToSet(types)
    PROVE  /\ FirstOf(types, type) \in 1 .. Len(types)
           /\ types[FirstOf(types, type)] = type
           /\ \A k \in 1 .. Len(types) : types[k] = type => FirstOf(types, type) <= k
  <1>1. PICK n, T : n = Len(types) /\ T = {k \in 1 .. n : types[k] = type}
    OBVIOUS
  <1>2. n \in Nat /\ DOMAIN types = 1 .. n
    BY <1>1
  <1>3. T \in SUBSET Nat /\ T # {}
    BY <1>1, <1>2 DEF ToSet
  <1>4. \E x \in T : \A y \in T : x <= y
    BY <1>3, Least
  <1>5. Min(T) \in T /\ \A y \in T : Min(T) <= y
    BY <1>4 DEF Min
  <1>6. FirstOf(types, type) = Min(T)
    BY <1>1, <1>2 DEF FirstOf
  <1> QED
    BY <1>1, <1>5, <1>6

\* The types up to the first of one are at least one, and no more than all.
LEMMA TypesAreCounted ==
    ASSUME NEW S, NEW types \in Seq(S), NEW n \in 1 .. Len(types)
    PROVE  /\ IsFiniteSet(TypesUpTo(types, n))
           /\ Cardinality(TypesUpTo(types, n)) \in 1 .. Cardinality(ToSet(types))
           /\ Cardinality(ToSet(types)) \in Nat
  <1>1. IsFiniteSet(ToSet(types)) /\ Cardinality(ToSet(types)) \in Nat
    BY MembersAreFinite
  <1>2. n \in 1 .. n /\ \A k \in 1 .. n : k \in DOMAIN types
    OBVIOUS
  <1>3. TypesUpTo(types, n) \subseteq ToSet(types) /\ types[n] \in TypesUpTo(types, n)
    BY <1>2 DEF ToSet, TypesUpTo
  <1>4. PICK used : used = TypesUpTo(types, n)
    OBVIOUS
  <1>5. IsFiniteSet(used) /\ Cardinality(used) \in Nat /\ Cardinality(used) <= Cardinality(ToSet(types))
    BY <1>1, <1>3, <1>4, FS_Subset, FS_CardinalityType
  <1>6. Cardinality(used) # 0
    BY <1>3, <1>4, <1>5, FS_EmptySet
  <1> QED
    BY <1>1, <1>4, <1>5, <1>6

\* A type that comes later is not among them.
LEMMA LaterTypeIsNew ==
    ASSUME NEW S, NEW types \in Seq(S), NEW s \in ToSet(types), NEW t \in ToSet(types),
           NEW m, m = FirstOf(types, s), NEW n, n = FirstOf(types, t), m < n
    PROVE  Cardinality(TypesUpTo(types, m)) < Cardinality(TypesUpTo(types, n))
  <1>1. m \in 1 .. Len(types) /\ types[m] = s
    BY FirstIs
  <1>2. /\ n \in 1 .. Len(types) /\ types[n] = t
        /\ \A k \in 1 .. Len(types) : types[k] = t => n <= k
    BY FirstIs
  <1>3. PICK M, N : M = TypesUpTo(types, m) /\ N = TypesUpTo(types, n)
    OBVIOUS
  <1>4. IsFiniteSet(N) /\ Cardinality(N) \in Nat /\ Cardinality(M) \in Nat
    BY <1>1, <1>2, <1>3, TypesAreCounted
  <1>5. M \subseteq N
    <2>1. \A k \in 1 .. m : k \in 1 .. n
      BY <1>1, <1>2
    <2> QED
      BY <1>3, <2>1 DEF TypesUpTo
  <1>6. t \in N
    <2>1. n \in 1 .. n
      BY <1>2
    <2> QED
      BY <1>2, <1>3, <2>1 DEF TypesUpTo
  <1>7. t \notin M
    <2> SUFFICES ASSUME t \in M PROVE FALSE
      OBVIOUS
    <2>1. PICK k \in 1 .. m : types[k] = t
      BY <1>3 DEF TypesUpTo
    <2>2. k \in 1 .. Len(types) /\ k < n
      BY <1>1, <1>2
    <2> QED
      BY <1>2, <2>1, <2>2
  <1>8. Cardinality(M) <= Cardinality(N) /\ Cardinality(M) # Cardinality(N)
    BY <1>4, <1>5, <1>6, <1>7, FS_Subset
  <1> QED
    BY <1>3, <1>4, <1>8

\* The names that are left are different, and not in the module.
LEMMA FreeNamesAre ==
    ASSUME NEW fs, NEW names, names = FreeNames(fs)
    PROVE  /\ Len(names) \in Nat
           /\ \A n \in 1 .. Len(names) : names[n] \notin Named(fs)
           /\ \A m, n \in 1 .. Len(names) : names[m] = names[n] => m = n
  <1>1. PICK s, P : s = NondetName /\ P = {n \in DOMAIN NondetName : NondetName[n] \notin Named(fs)}
    OBVIOUS
  <1>2. s \in Seq(STRING) /\ Len(s) \in Nat /\ DOMAIN s = 1 .. Len(s)
    BY <1>1, NamesAssumption
  <1>3. names = AtPositions(s, P)
    BY <1>1 DEF FreeNames
  <1>4. PICK to : Chosen(to, names, s, P) /\ names \in Seq(STRING)
    BY <1>2, <1>3, AtPositionsChooses
  <1>5. Len(names) \in Nat
    BY <1>4
  <1>6. ASSUME NEW n \in 1 .. Len(names)
        PROVE  to[n] \in 1 .. Len(s) /\ to[n] \in P /\ names[n] = s[to[n]]
    BY <1>4 DEF Chosen, InOrder
  <1>7. ASSUME NEW m \in 1 .. Len(names), NEW n \in 1 .. Len(names), m < n
        PROVE  names[m] # names[n]
    <2>1. to[m] < to[n]
      BY <1>4, <1>7 DEF Chosen, InOrder
    <2>2. /\ to[m] \in 1 .. Len(s) /\ to[n] \in 1 .. Len(s)
          /\ names[m] = s[to[m]] /\ names[n] = s[to[n]]
      BY <1>6
    <2>3. to[m] # to[n]
      BY <2>1, <2>2
    <2> QED
      BY <1>1, <1>2, <2>2, <2>3, NamesAssumption
  <1>8. \A m, n \in 1 .. Len(names) : m < n \/ n < m \/ m = n
    BY <1>5
  <1>9. \A m, n \in 1 .. Len(names) : names[m] = names[n] => m = n
    BY <1>7, <1>8
  <1>10. \A n \in 1 .. Len(names) : names[n] \notin Named(fs)
    BY <1>1, <1>6
  <1> QED
    BY <1>5, <1>9, <1>10

\* The types of the parameters, and the names for the functions that make them.
LEMMA TypesOfMain ==
    ASSUME NEW arg, GetsMain(arg), NEW fs, fs = arg.input
    PROVE  /\ ParameterTypes(fs) \in Seq(STRING)
           /\ Cardinality(ToSet(ParameterTypes(fs))) <= Len(FreeNames(fs))
           /\ \A f \in DOMAIN fs :
                ToSet(Signature[fs[f].name].params) \subseteq ToSet(ParameterTypes(fs))
  <1>1. IsModule(fs)
    BY InputIsClean DEF GetsMain, Clean
  <1>2. DOMAIN fs = 1 .. Len(fs) /\ Len(fs) \in Nat
    BY <1>1, ModuleIs
  <1>3. /\ \A g \in ToSet(fs) : g.name \in DOMAIN Signature
        /\ Cardinality(ToSet(ParameterTypes(fs))) <= Len(FreeNames(fs))
    BY SignatureAssumption DEF GetsMain
  <1>4. \A g \in DOMAIN fs : Signature[fs[g].name].params \in Seq(STRING)
    BY <1>3, SignatureAssumption DEF ToSet
  <1>5. PICK ss, S : ss = [g \in DOMAIN fs |-> Signature[fs[g].name].params] /\ S = Seq(STRING)
    OBVIOUS
  <1>6. ss \in Seq(S) /\ Len(ss) = Len(fs) /\ \A g \in DOMAIN fs : ss[g] = Signature[fs[g].name].params
    BY <1>2, <1>4, <1>5
  <1>7. ParameterTypes(fs) = FlattenSeq(ss)
    BY <1>5 DEF ParameterTypes
  <1>8. FlattenSeq(ss) \in Seq(STRING)
    BY <1>5, <1>6, FlattenType
  <1>9. \A g \in 1 .. Len(ss) : ToSet(ss[g]) \subseteq ToSet(FlattenSeq(ss))
    BY <1>5, <1>6, FlattenMembers
  <1> QED
    BY <1>2, <1>3, <1>6, <1>7, <1>8, <1>9

\* There is one function for each type, and it is not in the library.
LEMMA NondetFnIsOfType ==
    ASSUME NEW arg, GetsMain(arg), NEW fs, fs = arg.input,
           NEW s \in ToSet(ParameterTypes(fs)), NEW t \in ToSet(ParameterTypes(fs))
    PROVE  /\ NondetFn(fs, s) \notin Named(fs)
           /\ NondetFn(fs, s) = NondetFn(fs, t) => s = t
  <1>1. PICK types, names : types = ParameterTypes(fs) /\ names = FreeNames(fs)
    OBVIOUS
  <1>2. types \in Seq(STRING) /\ Cardinality(ToSet(types)) <= Len(names)
    BY <1>1, TypesOfMain
  <1>3. PICK m, n : m = FirstOf(types, s) /\ n = FirstOf(types, t)
    OBVIOUS
  <1>4. /\ m \in 1 .. Len(types) /\ n \in 1 .. Len(types)
        /\ types[m] = s /\ types[n] = t
    BY <1>1, <1>2, <1>3, FirstIs
  <1>5. PICK x, y : x = Cardinality(TypesUpTo(types, m)) /\ y = Cardinality(TypesUpTo(types, n))
    OBVIOUS
  <1>6. /\ Len(names) \in Nat
        /\ \A k \in 1 .. Len(names) : names[k] \notin Named(fs)
        /\ \A k, l \in 1 .. Len(names) : names[k] = names[l] => k = l
    BY <1>1, FreeNamesAre
  <1>7. x \in 1 .. Len(names) /\ y \in 1 .. Len(names)
    <2>1. PICK c : c = Cardinality(ToSet(types))
      OBVIOUS
    <2>2. x \in 1 .. c /\ y \in 1 .. c /\ c \in Nat /\ c <= Len(names)
      BY <1>2, <1>4, <1>5, <2>1, TypesAreCounted
    <2> QED
      BY <1>6, <2>2
  <1>8. NondetFn(fs, s) = names[x] /\ NondetFn(fs, t) = names[y]
    BY <1>1, <1>3, <1>5 DEF NondetFn, FirstOf, TypesUpTo
  <1>9. x = y => s = t
    <2>1. m < n => x < y
      BY <1>1, <1>2, <1>3, <1>5, LaterTypeIsNew
    <2>2. n < m => y < x
      BY <1>1, <1>2, <1>3, <1>5, LaterTypeIsNew
    <2>3. m < n \/ n < m \/ m = n
      BY <1>4
    <2>4. x = y => m = n
      BY <1>7, <2>1, <2>2, <2>3
    <2> QED
      BY <1>4, <2>4
  <1> QED
    BY <1>6, <1>7, <1>8, <1>9

\* What main does for one function: it makes the operands, and calls it.
IsPiece(s, fs, f, params) ==
    /\ params \in Seq(STRING) /\ Len(params) \in Nat /\ DOMAIN params = 1 .. Len(params)
    /\ Len(s) = Len(params) + 1
    /\ \A j \in 1 .. Len(params) : s[j] = Instruction("call", NondetFn(fs, params[j]), <<>>)
    /\ s[Len(params) + 1] = Instruction("call", fs[f].name, DummyValues(fs, f))
    /\ DOMAIN DummyValues(fs, f) = 1 .. Len(params)
    /\ Len(DummyValues(fs, f)) = Len(params)
    /\ \A j \in 1 .. Len(params) : DummyValues(fs, f)[j] = <<"nondet", NondetFn(fs, params[j])>>

LEMMA PieceIs ==
    ASSUME NEW arg, GetsMain(arg), NEW fs, fs = arg.input, NEW f \in DOMAIN fs,
           NEW s, s = CallsOfMain(fs)[f], NEW params, params = Signature[fs[f].name].params
    PROVE  IsPiece(s, fs, f, params)
  <1>1. PICK calls, x, D : /\ calls = DummyCalls(fs, f) /\ D = MadeForMain(fs)
                           /\ x = Instruction("call", fs[f].name, DummyValues(fs, f))
    OBVIOUS
  <1>2. s = Append(calls, x) /\ calls \in Seq(D) /\ params \in Seq(STRING)
    BY <1>1, CallsOfMainType
  <1>3. PICK n : n = Len(params)
    OBVIOUS
  <1>4. n \in Nat /\ DOMAIN params = 1 .. n
    BY <1>2, <1>3
  <1>5. PICK g, v : g = DummyNondet(fs, f) /\ v = DummyValues(fs, f)
    OBVIOUS
  <1>6. DOMAIN g = 1 .. n /\ \A j \in 1 .. n : g[j] = NondetFn(fs, params[j])
    BY <1>4, <1>5 DEF DummyNondet
  <1>7. calls = [j \in 1 .. n |-> Instruction("call", g[j], <<>>)]
    BY <1>1, <1>5, <1>6 DEF DummyCalls
  <1>8. v = [j \in 1 .. n |-> <<"nondet", g[j]>>]
    BY <1>5, <1>6 DEF DummyValues
  <1>9. Len(calls) = n /\ \A j \in 1 .. n : calls[j] = Instruction("call", NondetFn(fs, params[j]), <<>>)
    BY <1>2, <1>4, <1>6, <1>7
  <1>10. x \in D
    BY <1>1 DEF MadeForMain
  <1>11. Len(s) = n + 1 /\ s[n + 1] = x /\ \A j \in 1 .. n : s[j] = calls[j]
    <2>1. Len(calls) = n /\ n \in Nat
      BY <1>4, <1>9
    <2> QED
      BY <1>2, <1>10, <2>1
  <1>12. DOMAIN v = 1 .. n /\ Len(v) = n /\ \A j \in 1 .. n : v[j] = <<"nondet", NondetFn(fs, params[j])>>
    BY <1>4, <1>6, <1>8
  <1> QED
    BY <1>1, <1>2, <1>3, <1>4, <1>5, <1>9, <1>11, <1>12 DEF IsPiece

\* Instructions have been given their places.
ArePlaced(b, d) ==
    DOMAIN b = DOMAIN d /\ \A k \in DOMAIN d : b[k].fn = d[k].fn /\ b[k].args = d[k].args

\* The new main comes last.
LEMMA MainIs ==
    ASSUME NEW arg, GetsMain(arg), NEW fs, fs = arg.input, NEW gs, gs = WithMain(fs),
           NEW main, main = Last(gs)
    PROVE  main.name = "main" /\ ArePlaced(main.body, DummyBody(fs))
  <1>1. /\ arg \in Arguments /\ "main" \notin Named(fs)
        /\ IsModule(fs) /\ DOMAIN fs = 1 .. Len(fs) /\ Len(fs) \in Nat
    BY InputIsClean, ModuleIs DEF GetsMain, Clean
  <1>2. PICK body, calls, n : /\ body = DummyBody(fs) /\ calls = FlattenSeq(CallsOfMain(fs))
                              /\ n = Len(calls)
    OBVIOUS
  <1>3. /\ Len(calls) \in Nat /\ DOMAIN body = 1 .. Len(calls) + 1
        /\ body[Len(calls) + 1] = Instruction("ret", NoName, <<>>)
        /\ calls \in Seq(MadeForMain(fs))
        /\ \A k \in 1 .. Len(calls) : body[k] = calls[k]
    BY <1>2, DummyBodyIs
  <1>20. n \in Nat /\ DOMAIN body = 1 .. n + 1
    BY <1>2, <1>3
  <1>4. ASSUME NEW k \in DOMAIN body
        PROVE  \E op, fn, args : body[k] = Instruction(op, fn, args)
    <2>1. k \in 1 .. n \/ k = n + 1
      BY <1>20
    <2>2. CASE k = n + 1
      BY <1>2, <1>3, <2>2
    <2>3. CASE k \in 1 .. n
      <3>1. body[k] \in MadeForMain(fs)
        <4>1. PICK D : D = MadeForMain(fs)
          OBVIOUS
        <4>2. calls[k] \in D
          BY <1>2, <1>3, <2>3, <4>1
        <4> QED
          BY <1>2, <1>3, <2>3, <4>1, <4>2
      <3> QED
        BY <3>1 DEF MadeForMain
    <2> QED
      BY <2>1, <2>2, <2>3
  <1> DEFINE place(k) == Max(Addresses(fs)) + k
             b == [k \in DOMAIN body |-> [body[k] EXCEPT !.addr = place(k), !.src = place(k)]]
             E == {b[k] : k \in DOMAIN body}
  <1>5. gs = Append(fs, [name |-> "main", body |-> b])
    BY <1>1, <1>2 DEF WithMain
  <1>6. \A k \in DOMAIN body : b[k] = Placed(body[k], place(k))
    BY DEF Placed
  <1>7. b = [k \in DOMAIN body |-> b[k]] /\ \A k \in DOMAIN body : b[k] \in E
    OBVIOUS
  <1> HIDE DEF b, E, place
  <1>8. b \in Seq(E) /\ DOMAIN b = DOMAIN body
    <2>1. b = [k \in 1 .. n + 1 |-> b[k]] /\ \A k \in 1 .. n + 1 : b[k] \in E
      BY <1>20, <1>7
    <2> QED
      BY <1>20, <2>1
  <1>9. ASSUME NEW k \in DOMAIN body
        PROVE  b[k].fn = body[k].fn /\ b[k].args = body[k].args
    <2>1. PICK op, fn, args : body[k] = Instruction(op, fn, args)
      BY <1>4
    <2>2. PICK i : i = Instruction(op, fn, args)
      OBVIOUS
    <2>3. i.fn = fn /\ i.args = args
      BY <2>2, MadeInstruction
    <2>4. b[k] = Placed(Instruction(op, fn, args), place(k))
      BY <1>6, <2>1
    <2>5. b[k].fn = fn /\ b[k].args = args
      BY <2>4, PlacedInstruction
    <2> QED
      BY <2>1, <2>2, <2>3, <2>5
  <1>10. main = [name |-> "main", body |-> b]
    <2>1. PICK name, x : name = "main" /\ x = [name |-> name, body |-> b]
      OBVIOUS
    <2>2. gs = WithFunction(fs, name, b)
      BY <1>5, <2>1 DEF WithFunction
    <2>3. HasOneMore(gs, fs, x) /\ IsModule(gs)
      BY <1>1, <1>8, <2>1, <2>2, OneMoreFunction
    <2>4. Len(gs) \in Nat /\ DOMAIN gs = 1 .. Len(gs)
      BY <2>3, ModuleIs
    <2>5. Len(gs) = Len(fs) + 1
      <3>1. PICK y, z : y = Len(gs) /\ z = Len(fs)
        OBVIOUS
      <3>2. y \in Nat /\ z \in Nat /\ 1 .. y = 1 .. z + 1
        BY <1>1, <2>3, <2>4, <3>1 DEF HasOneMore
      <3>3. y = z + 1
        BY <3>2
      <3> QED
        BY <3>1, <3>3
    <2>6. gs[Len(gs)] = x
      BY <2>3, <2>5 DEF HasOneMore
    <2> QED
      BY <2>1, <2>6 DEF Last
  <1>11. main.body = b /\ main.name = "main"
    BY <1>10
  <1> QED
    BY <1>2, <1>8, <1>9, <1>11 DEF ArePlaced

\* Which call of main is that of function f, and which one makes operand k of it.
IsCallOf(b, fs, f, c) ==
    LET params == Signature[fs[f].name].params
    IN  /\ {n \in DOMAIN b : b[n].fn = fs[f].name} = {c}
        /\ b[c].args = DummyValues(fs, f)
        /\ \A k \in 1 .. Len(params) : b[c - Len(params) + k - 1].fn = NondetFn(fs, params[k])

\* There is one call of each function, behind those that make its operands.
LEMMA CallsAreFound ==
    ASSUME NEW arg, GetsMain(arg), NEW fs, fs = arg.input, NEW f \in DOMAIN fs,
           NEW b, ArePlaced(b, DummyBody(fs))
    PROVE  \E c : IsCallOf(b, fs, f, c)
  <1>1. PICK d, ss, calls, m, n :
          /\ d = DummyBody(fs) /\ ss = CallsOfMain(fs) /\ calls = FlattenSeq(ss)
          /\ m = Len(calls) /\ n = Len(fs)
    OBVIOUS
  <1>2. /\ m \in Nat /\ DOMAIN d = 1 .. m + 1
        /\ \A k \in 1 .. m : d[k] = calls[k]
        /\ d[m + 1] = Instruction("ret", NoName, <<>>)
    BY <1>1, DummyBodyIs
  <1>3. PICK S : S = MadeForMain(fs)
    OBVIOUS
  <1>4. ss \in Seq(Seq(S)) /\ Len(ss) = n
    BY <1>1, <1>3, CallsOfMainType
  <1>5. n \in Nat /\ DOMAIN fs = 1 .. n
    BY <1>1, InputIsClean, ModuleIs DEF GetsMain, Clean
  <1>6. PICK off : Places(off, calls, ss, n)
    BY <1>1, <1>4, FlattenPlaces
  <1>61. /\ \A g \in 1 .. n : off[g] \in Nat /\ off[g] + Len(ss[g]) <= m
         /\ \A g \in 1 .. n : \A j \in 1 .. Len(ss[g]) : calls[off[g] + j] = ss[g][j]
         /\ \A k \in 1 .. m : \E g \in 1 .. n : \E j \in 1 .. Len(ss[g]) : k = off[g] + j
    <2>1. m = Len(calls)
      BY <1>1
    <2> QED
      BY <1>6, <2>1 DEF Places
  <1>7. ASSUME NEW g \in DOMAIN fs, NEW params, params = Signature[fs[g].name].params
        PROVE  /\ params \in Seq(STRING) /\ Len(params) \in Nat /\ DOMAIN params = 1 .. Len(params)
               /\ Len(ss[g]) = Len(params) + 1
               /\ off[g] \in Nat /\ off[g] + (Len(params) + 1) <= m
               /\ \A j \in 1 .. Len(params) :
                    d[off[g] + j] = Instruction("call", NondetFn(fs, params[j]), <<>>)
               /\ d[off[g] + (Len(params) + 1)] = Instruction("call", fs[g].name, DummyValues(fs, g))
    <2>1. PICK s, l : s = ss[g] /\ l = Len(params)
      OBVIOUS
    <2>10. s = CallsOfMain(fs)[g]
      BY <1>1, <2>1
    <2>11. /\ params \in Seq(STRING) /\ Len(params) \in Nat /\ DOMAIN params = 1 .. Len(params)
           /\ Len(s) = Len(params) + 1
           /\ \A j \in 1 .. Len(params) : s[j] = Instruction("call", NondetFn(fs, params[j]), <<>>)
           /\ s[Len(params) + 1] = Instruction("call", fs[g].name, DummyValues(fs, g))
      <3>1. IsPiece(s, fs, g, params)
        BY <1>7, <2>10, PieceIs
      <3> QED
        BY <3>1 DEF IsPiece
    <2>2. /\ params \in Seq(STRING) /\ l \in Nat /\ DOMAIN params = 1 .. l
          /\ Len(s) = l + 1
          /\ \A j \in 1 .. l : s[j] = Instruction("call", NondetFn(fs, params[j]), <<>>)
          /\ s[l + 1] = Instruction("call", fs[g].name, DummyValues(fs, g))
      BY <2>1, <2>11
    <2>12. g \in 1 .. n
      BY <1>5
    <2>3. /\ off[g] \in Nat /\ off[g] + Len(s) <= m
          /\ \A j \in 1 .. Len(s) : calls[off[g] + j] = s[j]
      BY <1>61, <2>1, <2>12
    <2>4. off[g] + (l + 1) <= m
      BY <2>2, <2>3
    <2>5. ASSUME NEW j \in 1 .. l + 1 PROVE d[off[g] + j] = s[j]
      <3>1. off[g] + j \in 1 .. m
        BY <1>2, <2>2, <2>3, <2>4
      <3>2. j \in 1 .. Len(s)
        BY <2>2
      <3> QED
        BY <1>2, <2>3, <3>1, <3>2
    <2>6. l + 1 \in 1 .. l + 1 /\ \A j \in 1 .. l : j \in 1 .. l + 1
      BY <2>2
    <2>7. d[off[g] + (l + 1)] = s[l + 1] /\ \A j \in 1 .. l : d[off[g] + j] = s[j]
      BY <2>5, <2>6
    <2> QED
      BY <2>1, <2>2, <2>3, <2>4, <2>7
  <1>8. PICK params, p, c : params = Signature[fs[f].name].params /\ p = Len(params)
                            /\ c = off[f] + (p + 1)
    OBVIOUS
  <1>9. /\ p \in Nat /\ off[f] \in Nat /\ c <= m
        /\ \A j \in 1 .. p : d[off[f] + j] = Instruction("call", NondetFn(fs, params[j]), <<>>)
        /\ d[c] = Instruction("call", fs[f].name, DummyValues(fs, f))
    BY <1>7, <1>8
  <1>10. c \in 1 .. m + 1
    BY <1>2, <1>8, <1>9
  <1>11. d[c].fn = fs[f].name /\ d[c].args = DummyValues(fs, f)
    <2>1. PICK name, args, i : name = fs[f].name /\ args = DummyValues(fs, f) /\ i = d[c]
      OBVIOUS
    <2>2. i = Instruction("call", name, args)
      BY <1>9, <2>1
    <2>3. i.fn = name /\ i.args = args
      BY <2>2, MadeInstruction
    <2> QED
      BY <2>1, <2>3
  <1>12. ASSUME NEW k \in 1 .. p
         PROVE  d[c - p + k - 1].fn = NondetFn(fs, params[k]) /\ c - p + k - 1 \in 1 .. m + 1
    <2>1. c - p + k - 1 = off[f] + k /\ off[f] + k \in 1 .. m + 1
      <3>1. PICK o : o = off[f]
        OBVIOUS
      <3>2. o \in Nat /\ p \in Nat /\ m \in Nat /\ c = o + (p + 1) /\ c <= m
        BY <1>2, <1>8, <1>9, <3>1
      <3>3. c - p + k - 1 = o + k /\ o + k \in 1 .. m + 1
        BY <3>2
      <3> QED
        BY <3>1, <3>3
    <2>2. PICK name, i : name = NondetFn(fs, params[k]) /\ i = d[off[f] + k]
      OBVIOUS
    <2>3. i = Instruction("call", name, <<>>)
      BY <1>9, <2>2
    <2>4. i.fn = name
      BY <2>3, MadeInstruction
    <2> QED
      BY <2>1, <2>2, <2>4
  <1>13. ASSUME NEW k \in 1 .. m + 1, d[k].fn = fs[f].name PROVE k = c
    <2>0. /\ fs[f].name # NoName /\ fs[f].name \in Named(fs)
          /\ \A g \in DOMAIN fs : fs[g].name = fs[f].name => g = f
      <3>1. arg \in Arguments
        BY DEF GetsMain
      <3>2. fs[f] \in ToSet(fs)
        BY DEF ToSet
      <3>3. fs[f].name # NoName
        BY <3>1, <3>2, VerifierAssumption, Zenon DEF NoName
      <3>4. \A g \in DOMAIN fs : fs[g].name = fs[f].name => g = f
        BY <3>1, VerifierAssumption
      <3> QED
        BY <3>3, <3>4, NamesOfModule
    <2>1. k # m + 1
      <3> SUFFICES ASSUME k = m + 1 PROVE FALSE
        OBVIOUS
      <3>1. PICK name, i : name = NoName /\ i = d[k]
        OBVIOUS
      <3>2. i = Instruction("ret", name, <<>>)
        BY <1>2, <3>1
      <3>3. i.fn = name
        BY <3>2, MadeInstruction
      <3> QED
        BY <1>13, <2>0, <3>1, <3>3
    <2>2. k \in 1 .. m
      BY <1>2, <2>1
    <2>3. PICK g \in 1 .. n : \E j \in 1 .. Len(ss[g]) : k = off[g] + j
      BY <1>61, <2>2
    <2>4. PICK j \in 1 .. Len(ss[g]) : k = off[g] + j
      BY <2>3
    <2>5. PICK types, q : types = Signature[fs[g].name].params /\ q = Len(types)
      OBVIOUS
    <2>6. /\ g \in DOMAIN fs /\ types \in Seq(STRING) /\ q \in Nat /\ DOMAIN types = 1 .. q
          /\ Len(ss[g]) = q + 1
          /\ \A h \in 1 .. q : d[off[g] + h] = Instruction("call", NondetFn(fs, types[h]), <<>>)
          /\ d[off[g] + (q + 1)] = Instruction("call", fs[g].name, DummyValues(fs, g))
      <3>1. g \in DOMAIN fs
        BY <1>5
      <3>2. /\ types \in Seq(STRING) /\ Len(types) \in Nat /\ DOMAIN types = 1 .. Len(types)
            /\ Len(ss[g]) = Len(types) + 1
            /\ \A h \in 1 .. Len(types) :
                 d[off[g] + h] = Instruction("call", NondetFn(fs, types[h]), <<>>)
            /\ d[off[g] + (Len(types) + 1)] = Instruction("call", fs[g].name, DummyValues(fs, g))
        BY <1>7, <2>5, <3>1
      <3> QED
        BY <2>5, <3>1, <3>2
    <2>7. j \in 1 .. q \/ j = q + 1
      BY <2>4, <2>6
    <2>8. CASE j \in 1 .. q
      <3>1. PICK name, i : name = NondetFn(fs, types[j]) /\ i = d[k]
        OBVIOUS
      <3>2. i = Instruction("call", name, <<>>)
        BY <2>4, <2>6, <2>8, <3>1
      <3>3. i.fn = name
        BY <3>2, MadeInstruction
      <3>4. types[j] \in ToSet(types)
        BY <2>6, <2>8 DEF ToSet
      <3>5. types[j] \in ToSet(ParameterTypes(fs))
        BY <2>5, <2>6, <3>4, TypesOfMain
      <3>6. name \notin Named(fs)
        BY <3>1, <3>5, NondetFnIsOfType
      <3> QED
        BY <1>13, <2>0, <3>1, <3>3, <3>6
    <2>9. CASE j = q + 1
      <3>1. PICK name, args, i : name = fs[g].name /\ args = DummyValues(fs, g) /\ i = d[k]
        OBVIOUS
      <3>2. i = Instruction("call", name, args)
        BY <2>4, <2>6, <2>9, <3>1
      <3>3. i.fn = name
        BY <3>2, MadeInstruction
      <3>4. g = f
        BY <1>13, <2>0, <2>6, <3>1, <3>3
      <3> QED
        BY <1>8, <2>4, <2>5, <2>9, <3>4
    <2> QED
      BY <2>7, <2>8, <2>9
  <1>14. /\ DOMAIN b = 1 .. m + 1
         /\ \A k \in 1 .. m + 1 : b[k].fn = d[k].fn /\ b[k].args = d[k].args
    BY <1>1, <1>2 DEF ArePlaced
  <1>15. {k \in DOMAIN b : b[k].fn = fs[f].name} = {c}
    <2>1. b[c].fn = fs[f].name /\ c \in DOMAIN b
      BY <1>10, <1>11, <1>14
    <2>2. \A k \in DOMAIN b : b[k].fn = fs[f].name => k = c
      BY <1>13, <1>14
    <2> QED
      BY <2>1, <2>2
  <1>16. b[c].args = DummyValues(fs, f)
    BY <1>10, <1>11, <1>14
  <1>17. \A k \in 1 .. p : b[c - p + k - 1].fn = NondetFn(fs, params[k])
    BY <1>12, <1>14
  <1>18. IsCallOf(b, fs, f, c)
    BY <1>8, <1>15, <1>16, <1>17 DEF IsCallOf
  <1> QED
    BY <1>18

\* So main reaches all of the library.
LEMMA MainReaches ==
    ASSUME GetsMain(arguments), functions = WithMain(arguments.input),
           pass \in {"print", "configure"}
    PROVE  LibraryIsReached
  <1>1. PICK fs : fs = arguments.input
    OBVIOUS
  <1> DEFINE main == Last(functions).body
  <1>2. Last(functions).name = "main" /\ ArePlaced(main, DummyBody(fs))
    BY <1>1, MainIs
  <1> HIDE DEF main
  <1>3. ASSUME NEW f \in DOMAIN fs, NEW params, params = Signature[fs[f].name].params
        PROVE  /\ Cardinality(CallsFor(main, f)) = 1
               /\ \A n \in CallsFor(main, f) :
                    main[n].args = [k \in DOMAIN params |-> <<"nondet", ArgumentFrom(main, f, k).fn>>]
               /\ \A k \in DOMAIN params : ArgumentFrom(main, f, k).fn = NondetFn(fs, params[k])
               /\ \A k \in DOMAIN params : params[k] \in ToSet(ParameterTypes(fs))
    <2>1. PICK c : IsCallOf(main, fs, f, c)
      BY <1>1, <1>2, CallsAreFound
    <2>2. CallsFor(main, f) = {c}
      BY <1>1, <2>1 DEF IsCallOf, CallsFor
    <2>3. PICK s : s = CallsOfMain(fs)[f]
      OBVIOUS
    <2>4. IsPiece(s, fs, f, params)
      BY <1>1, <1>3, <2>3, PieceIs
    <2>5. PICK p, v : p = Len(params) /\ v = DummyValues(fs, f)
      OBVIOUS
    <2>6. /\ p \in Nat /\ DOMAIN params = 1 .. p /\ DOMAIN v = 1 .. p /\ Len(v) = p
          /\ \A j \in 1 .. p : v[j] = <<"nondet", NondetFn(fs, params[j])>>
      BY <2>4, <2>5 DEF IsPiece
    <2>7. main[c].args = v /\ \A k \in 1 .. p : main[c - p + k - 1].fn = NondetFn(fs, params[k])
      BY <1>3, <2>1, <2>5 DEF IsCallOf
    <2>8. (CHOOSE n \in CallsFor(main, f) : TRUE) = c
      BY <2>2
    <2>9. ASSUME NEW k \in 1 .. p PROVE ArgumentFrom(main, f, k).fn = NondetFn(fs, params[k])
      <3>1. ArgumentFrom(main, f, k) = main[c - Len(main[c].args) + k - 1]
        BY <2>8 DEF ArgumentFrom
      <3>2. Len(main[c].args) = p
        BY <2>6, <2>7
      <3> QED
        BY <2>7, <3>1, <3>2
    <2>10. v = [k \in DOMAIN params |-> <<"nondet", ArgumentFrom(main, f, k).fn>>]
      <3>1. v = [k \in 1 .. p |-> v[k]]
        BY <2>5, <2>6 DEF DummyValues
      <3>2. \A k \in 1 .. p : v[k] = <<"nondet", ArgumentFrom(main, f, k).fn>>
        BY <2>6, <2>9
      <3> QED
        BY <2>6, <3>1, <3>2
    <2>11. Cardinality(CallsFor(main, f)) = 1
      BY <2>2, FS_Singleton
    <2>12. \A n \in CallsFor(main, f) :
             main[n].args = [k \in DOMAIN params |-> <<"nondet", ArgumentFrom(main, f, k).fn>>]
      BY <2>2, <2>7, <2>10
    <2>13. \A k \in DOMAIN params : params[k] \in ToSet(ParameterTypes(fs))
      <3>1. ToSet(params) \subseteq ToSet(ParameterTypes(fs))
        BY <1>1, <1>3, TypesOfMain
      <3> QED
        BY <3>1 DEF ToSet
    <2> QED
      BY <2>6, <2>9, <2>11, <2>12, <2>13
  <1> DEFINE params(f) == Signature[arguments.input[f].name].params
             slots == UNION {{f} \X DOMAIN params(f) : f \in DOMAIN arguments.input}
  <1>4. \A f \in DOMAIN arguments.input :
          /\ Cardinality(CallsFor(main, f)) = 1
          /\ \A n \in CallsFor(main, f) :
               main[n].args = [k \in DOMAIN params(f) |-> <<"nondet", ArgumentFrom(main, f, k).fn>>]
    BY <1>1, <1>3
  <1>5. ASSUME NEW s \in slots
        PROVE  LET type == params(s[1])[s[2]]
               IN  /\ type \in ToSet(ParameterTypes(fs))
                   /\ ArgumentFrom(main, s[1], s[2]).fn = NondetFn(fs, type)
    <2>1. PICK f \in DOMAIN arguments.input : s \in {f} \X DOMAIN params(f)
      BY <1>5
    <2>2. s[1] = f /\ s[2] \in DOMAIN params(f)
      BY <2>1
    <2> QED
      BY <1>1, <1>3, <2>1, <2>2
  <1> HIDE DEF params, slots
  <1>6. \A s \in slots : ArgumentFrom(main, s[1], s[2]).fn \notin Named(arguments.input)
    BY <1>1, <1>5, NondetFnIsOfType
  <1>7. ASSUME NEW s \in slots, NEW t \in slots
        PROVE  ArgumentFrom(main, s[1], s[2]).fn = ArgumentFrom(main, t[1], t[2]).fn
                 <=> params(s[1])[s[2]] = params(t[1])[t[2]]
    <2>1. PICK x, y : x = params(s[1])[s[2]] /\ y = params(t[1])[t[2]]
      OBVIOUS
    <2>2. /\ x \in ToSet(ParameterTypes(fs)) /\ y \in ToSet(ParameterTypes(fs))
          /\ ArgumentFrom(main, s[1], s[2]).fn = NondetFn(fs, x)
          /\ ArgumentFrom(main, t[1], t[2]).fn = NondetFn(fs, y)
      BY <1>5, <2>1
    <2>3. NondetFn(fs, x) = NondetFn(fs, y) => x = y
      BY <1>1, <2>2, NondetFnIsOfType
    <2> QED
      BY <2>1, <2>2, <2>3
  <1> QED
    BY <1>2, <1>4, <1>6, <1>7, Zenon DEF LibraryIsReached, params, slots, main

\* The module that AddMetadata or the print starts from is the one that the library
\* was made into.
MainInv ==
    pass \in {"print", "configure"} /\ GetsMain(arguments) => functions = WithMain(arguments.input)

LEMMA StepKeepsMain == PassesInv /\ MainInv /\ [Next]_vars => MainInv'
  <1> SUFFICES ASSUME PassesInv, MainInv, [Next]_vars, pass' \in {"print", "configure"},
                      GetsMain(arguments')
               PROVE  functions' = WithMain(arguments'.input)
    BY DEF MainInv
  <1> DEFINE Stays == arguments' = arguments /\ pass' = pass /\ functions' = functions
  <1>1. CASE Start
    <2>1. functions = arguments.input /\ arguments' = arguments /\ arguments.add_main
      BY <1>1 DEF Start, PassesInv, ModuleInv, GetsMain
    <2> QED
      BY <1>1, <2>1 DEF Start
  <1>2. CASE PrintSourcesAndSinks
    <2>1. Positioned
      BY DEF PassesInv, ModuleInv
    <2>2. Stays
      BY <1>2, <2>1, VisitSame DEF PrintSourcesAndSinks, Visiting
    <2> QED
      BY <2>2 DEF MainInv
  <1>3. CASE LoadInputFile
    BY <1>3 DEF LoadInputFile
  <1>4. CASE AddMetadata_Skip
    BY <1>4 DEF AddMetadata_Skip, Visiting
  <1>5. CASE ConditionalUpdate
    BY <1>5 DEF ConditionalUpdate, Visiting
  <1>6. CASE AddSources
    BY <1>6 DEF AddSources, Visiting
  <1>7. CASE WrapSinks_Skip
    BY <1>7 DEF WrapSinks_Skip, Visiting
  <1>8. CASE WrapSinks_Collect
    BY <1>8 DEF WrapSinks_Collect, Visiting
  <1>9. CASE WrapCall
    BY <1>9 DEF WrapCall, Wrapping
  <1>10. CASE WrapCrashes
    BY <1>10 DEF WrapCrashes
  <1>11. CASE TagAnalysisResultsAsMetadata
    BY <1>11 DEF TagAnalysisResultsAsMetadata, Visiting
  <1>12. CASE RemoveSources
    BY <1>12 DEF RemoveSources
  <1>13. CASE OutputDependencyMap
    BY <1>13 DEF OutputDependencyMap, Visiting
  <1>14. CASE LoadConfiguration
    BY <1>14 DEF LoadConfiguration
  <1>15. CASE AddLogging
    BY <1>15 DEF AddLogging, Visiting
  <1>16. CASE EndOfFunction
    <2>1. pass' = pass \/ (pass \in DOMAIN NextPass /\ pass' = NextPass[pass])
      BY <1>16 DEF EndOfFunction
    <2>2. \A p \in DOMAIN NextPass : NextPass[p] \notin {"print", "configure"}
      BY DEF NextPass
    <2>3. Stays
      BY <1>16, <2>1, <2>2 DEF EndOfFunction, history
    <2> QED
      BY <2>3 DEF MainInv
  <1>18. CASE NoDependencyMap
    BY <1>18 DEF NoDependencyMap
  <1>17. CASE UNCHANGED vars
    <2>1. Stays
      BY <1>17 DEF vars, module_vars, history
    <2> QED
      BY <2>1 DEF MainInv
  <1> QED
    BY <1>1, <1>2, <1>3, <1>4, <1>5, <1>6, <1>7, <1>8, <1>9, <1>10, <1>11, <1>12, <1>13,
       <1>14, <1>15, <1>16, <1>17, <1>18, Zenon DEF Next

\* Until a pass begins, the program that a library was made into calls each function
\* of the library once, with values of unknown origin, from one new function for
\* each type, whatever names the library uses.
THEOREM LibraryIsCalled == Spec => []LibraryIsReached
  <1>1. Init => MainInv
    BY DEF Init, MainInv
  <1>2. PassesInv /\ MainInv /\ [Next]_vars => MainInv'
    BY StepKeepsMain
  <1>3. PassesInv /\ MainInv => LibraryIsReached
    <2> SUFFICES ASSUME PassesInv, MainInv, pass \in {"print", "configure"},
                        arguments.add_main, "main" \notin Named(arguments.input)
                 PROVE  LibraryIsReached
      BY DEF LibraryIsReached
    <2>1. GetsMain(arguments)
      BY DEF PassesInv, GetsMain
    <2> QED
      BY <2>1, MainReaches DEF MainInv
  <1> QED
    BY <1>1, <1>2, <1>3, PassesInvariant, PTL DEF Spec


-----------------------------------------------------------------------------
(* The analysis sees the tags: the inductive invariant                     *)

IsTagOf(i, operand, ids) ==
    i.fn = "add_tag" /\ i.args[1] = operand /\ \A id \in ids : i.args[2] = <<"tag", id>>

\* In front of place k of b the operand is marked, and then gets the tags.
HasTag(b, k, operand, ids) ==
    \E j \in 2 .. k - 1 : IsTagOf(b[j], operand, ids) /\ b[j - 1] = SetModified(operand)

\* All that call i fills has its tag in front of place k.
InputsTagged(b, k, i) ==
    \A p \in ToSet(ParamsOfType(i, "input")) :
      p # 0 /\ i.args[p] # <<"null">> => HasTag(b, k, i.args[p], CallSiteIds(i))

\* The same of what is at place k of b, or of the call that it forwards.
StandsTagged(fs, b, k) ==
    /\ ~IsWrapperCall(b[k]) => InputsTagged(b, k, b[k])
    /\ IsWrapperCall(b[k]) =>
         \A g \in DOMAIN fs : \A c :
           fs[g].name = b[k].fn /\ Forwards(fs[g].body, c) =>
             InputsTagged(b, k, WithOperands(fs[g].body[c], b[k].args))

\* All that the call at place c of the body of a wrapper sends out is marked
\* there, and is a parameter of the wrapper.
IsMarked(b, c) ==
    \A q \in ToSet(ParamsOfType(b[c], "output")) :
      q # 0 /\ b[c].args[q] = <<"param", q>> /\ Marked(b, c, <<"param", q>>)

\* A wrapper does so, and all its instructions have operands.
IsPassing(b, c) == IsMarked(b, c) /\ \A k \in 1 .. Len(b) : HasOperands(b[k])

\* Where AddSources has got to in function f.
TaggedTo(f) ==
    IF pass # "add_sources" \/ f < at[1] THEN Len(functions[f].body) + 1
    ELSE IF f = at[1] THEN at[2] ELSE 1

TagsInv ==
    pass \in {"add_sources", "wrap_sinks", "tags"} =>
      \A f \in DOMAIN functions : ~IsWrapper(functions[f].name) =>
        \A k \in DOMAIN functions[f].body :
          k < TaggedTo(f) => StandsTagged(functions, functions[f].body, k)

MarksInv ==
    pass \in {"wrap_sinks", "tags"} =>
      \A f \in DOMAIN functions : IsWrapper(functions[f].name) =>
        \A c : Forwards(functions[f].body, c) => IsPassing(functions[f].body, c)

SeenInv == TagsInv /\ MarksInv

-----------------------------------------------------------------------------
(* Parameters of a type                                                    *)

\* The metadata of call i gives its parameter p this type.
IsLabelled(i, p, type) ==
    \E m \in i.meta : p \in DOMAIN m.params /\ ArgumentType(m.params[p]) = type

LEMMA AscendingIs ==
    ASSUME NEW numbers, NEW n \in Nat, NEW p
    PROVE  p \in ToSet(Ascending(numbers, n)) <=> p \in numbers /\ p \in 0 .. n
  <1> PICK s, P, r, m : /\ s = [k \in 1 .. n + 1 |-> k - 1]
                        /\ P = {k \in 1 .. n + 1 : k - 1 \in numbers}
                        /\ r = AtPositions(s, P) /\ m = n + 1
    OBVIOUS
  <1>1. Ascending(numbers, n) = r
    BY DEF Ascending
  <1>2. /\ s \in Seq(Nat) /\ Len(s) = m /\ m \in Nat /\ m = n + 1
        /\ \A k \in 1 .. m : s[k] = k - 1
    <2>1. m \in Nat /\ s = [k \in 1 .. m |-> k - 1] /\ \A k \in 1 .. m : k - 1 \in Nat
      OBVIOUS
    <2>2. s \in [1 .. m -> Nat]
      BY <2>1
    <2> QED
      BY <2>1, <2>2
  <1>3. r \in Seq(Nat) /\ \E to : Chosen(to, r, s, P)
    BY <1>2, AtPositionsChooses
  <1>4. PICK to : Chosen(to, r, s, P)
    BY <1>3
  <1>5. /\ \A k \in 1 .. Len(r) : to[k] \in P /\ r[k] = s[to[k]]
        /\ \A l \in 1 .. m : l \in P => \E k \in 1 .. Len(r) : l = to[k]
    BY <1>2, <1>4 DEF Chosen
  <1>6. DOMAIN r = 1 .. Len(r)
    BY <1>3
  <1>7. \A l : l \in P <=> l \in 1 .. m /\ l - 1 \in numbers
    OBVIOUS
  <1>8. ASSUME p \in ToSet(r) PROVE p \in numbers /\ p \in 0 .. n
    <2>1. PICK k \in 1 .. Len(r) : p = r[k]
      BY <1>6, <1>8 DEF ToSet
    <2>2. to[k] \in 1 .. m /\ to[k] - 1 \in numbers /\ p = s[to[k]]
      BY <1>5, <1>7, <2>1
    <2>3. p = to[k] - 1
      BY <1>2, <2>2
    <2> QED
      BY <1>2, <2>2, <2>3
  <1>9. ASSUME p \in numbers, p \in 0 .. n PROVE p \in ToSet(r)
    <2>1. PICK l : l = p + 1
      OBVIOUS
    <2>2. l \in 1 .. m /\ l - 1 = p
      BY <1>2, <1>9, <2>1
    <2>3. PICK k \in 1 .. Len(r) : l = to[k]
      BY <1>5, <1>7, <1>9, <2>2
    <2>4. r[k] = p
      BY <1>2, <1>5, <2>2, <2>3
    <2> QED
      BY <1>6, <2>4 DEF ToSet
  <1> QED
    BY <1>1, <1>8, <1>9

\* The parameters of a type are those that the call has and that are labelled.
LEMMA ParamsAre ==
    ASSUME NEW i, Len(i.args) \in Nat, NEW type, NEW p
    PROVE  p \in ToSet(ParamsOfType(i, type)) <=> p \in 0 .. Len(i.args) /\ IsLabelled(i, p, type)
  <1> PICK params : params = UNION {{k \in DOMAIN m.params : ArgumentType(m.params[k]) = type}
                                      : m \in i.meta}
    OBVIOUS
  <1>1. ParamsOfType(i, type) = Ascending(params, Len(i.args))
    BY DEF ParamsOfType
  <1>2. p \in params <=> IsLabelled(i, p, type)
    <2>1. p \in params <=>
            \E m \in i.meta : p \in {k \in DOMAIN m.params : ArgumentType(m.params[k]) = type}
      OBVIOUS
    <2> QED
      BY <2>1 DEF IsLabelled
  <1>3. p \in ToSet(Ascending(params, Len(i.args))) <=> p \in params /\ p \in 0 .. Len(i.args)
    BY AscendingIs
  <1> QED
    BY <1>1, <1>2, <1>3

\* An instruction without metadata has no parameters of a type.
LEMMA NoParams ==
    ASSUME NEW i, Len(i.args) \in Nat, i.meta = {}, NEW type
    PROVE  ToSet(ParamsOfType(i, type)) = {}
  <1>1. \A p : ~IsLabelled(i, p, type)
    BY DEF IsLabelled
  <1> QED
    BY <1>1, ParamsAre

-----------------------------------------------------------------------------
(* Tags and marks that stay where they are                                 *)

LEMMA SetModifiedIs ==
    ASSUME NEW operand, NEW i, i = SetModified(operand)
    PROVE  /\ i.op = "call" /\ i.fn = "sea_dsa_set_modified" /\ i.args = <<operand>>
           /\ i.meta = {} /\ i.tags = {} /\ i.addr = 0 /\ i.src = 0 /\ IsRecord(i)
  <1>1. i = Instruction("call", "sea_dsa_set_modified", <<operand>>)
    BY DEF SetModified
  <1> QED
    BY <1>1, MadeInstruction

\* In front of place k, r has all that b has for the analysis.
KeepsTags(r, b, k) ==
    \A j \in 1 .. k - 1 : b[j].fn \in {"add_tag", "sea_dsa_set_modified"} => r[j] = b[j]

LEMMA TagsStay ==
    ASSUME NEW b, NEW r, NEW k \in Nat, KeepsTags(r, b, k), NEW operand, NEW ids,
           HasTag(b, k, operand, ids)
    PROVE  HasTag(r, k, operand, ids)
  <1>1. PICK j \in 2 .. k - 1 : IsTagOf(b[j], operand, ids) /\ b[j - 1] = SetModified(operand)
    BY DEF HasTag
  <1>2. j \in 1 .. k - 1 /\ j - 1 \in 1 .. k - 1
    BY <1>1
  <1>3. r[j] = b[j]
    BY <1>1, <1>2 DEF KeepsTags, IsTagOf
  <1>4. r[j - 1] = b[j - 1]
    <2>1. PICK l : l = j - 1
      OBVIOUS
    <2>2. b[l].fn = "sea_dsa_set_modified" /\ l \in 1 .. k - 1
      BY <1>1, <1>2, <2>1, SetModifiedIs
    <2> QED
      BY <2>1, <2>2 DEF KeepsTags
  <1> QED
    BY <1>1, <1>3, <1>4 DEF HasTag

\* Two instructions with the same operands and metadata.
FillSame(j, i) == j.args = i.args /\ j.meta = i.meta

LEMMA FillsStay ==
    ASSUME NEW b, NEW r, NEW k \in Nat, KeepsTags(r, b, k), NEW i, NEW j, FillSame(j, i),
           InputsTagged(b, k, i)
    PROVE  InputsTagged(r, k, j)
  <1>1. ParamsOfType(j, "input") = ParamsOfType(i, "input") /\ CallSiteIds(j) = CallSiteIds(i)
    <2>1. j.args = i.args /\ j.meta = i.meta
      BY DEF FillSame
    <2>2. CallSiteIds(j) = CallSiteIds(i)
      BY <2>1, Zenon DEF CallSiteIds
    <2>3. ParamsOfType(j, "input") = ParamsOfType(i, "input")
      BY <2>1, Zenon DEF ParamsOfType
    <2> QED
      BY <2>2, <2>3
  <1>2. ASSUME NEW p \in ToSet(ParamsOfType(j, "input")), p # 0, j.args[p] # <<"null">>
        PROVE  HasTag(r, k, j.args[p], CallSiteIds(j))
    <2>1. j.args[p] = i.args[p]
      BY DEF FillSame
    <2>2. HasTag(b, k, j.args[p], CallSiteIds(j))
      BY <1>1, <1>2, <2>1 DEF InputsTagged
    <2> QED
      BY <2>2, TagsStay
  <1> QED
    BY <1>2 DEF InputsTagged

\* The wrappers of gs that instruction i calls are those of fs, but for tags.
SameWrappers(gs, fs, i) ==
    \A g \in DOMAIN gs : \A c :
      gs[g].name = i.fn /\ Forwards(gs[g].body, c) =>
        /\ g \in DOMAIN fs /\ fs[g].name = i.fn /\ Forwards(fs[g].body, c)
        /\ FillSame(gs[g].body[c], fs[g].body[c])
        /\ IsRecord(gs[g].body[c]) /\ IsRecord(fs[g].body[c])

LEMMA StandsStays ==
    ASSUME NEW gs, NEW fs, NEW b, NEW r, NEW k \in Nat, KeepsTags(r, b, k),
           FillSame(r[k], b[k]), r[k].op = b[k].op, r[k].fn = b[k].fn,
           IsWrapperCall(b[k]) => SameWrappers(gs, fs, b[k]), StandsTagged(fs, b, k)
    PROVE  StandsTagged(gs, r, k)
  <1>1. IsWrapperCall(r[k]) <=> IsWrapperCall(b[k])
    BY DEF IsWrapperCall
  <1>2. ASSUME ~IsWrapperCall(r[k]) PROVE InputsTagged(r, k, r[k])
    BY <1>1, <1>2, FillsStay DEF StandsTagged
  <1>3. ASSUME IsWrapperCall(r[k]), NEW g \in DOMAIN gs, NEW c, gs[g].name = r[k].fn,
               Forwards(gs[g].body, c)
        PROVE  InputsTagged(r, k, WithOperands(gs[g].body[c], r[k].args))
    <2> PICK x, y, args : x = gs[g].body[c] /\ y = fs[g].body[c] /\ args = r[k].args
      OBVIOUS
    <2>1. /\ g \in DOMAIN fs /\ fs[g].name = b[k].fn /\ Forwards(fs[g].body, c)
          /\ FillSame(x, y) /\ IsRecord(x) /\ IsRecord(y)
      BY <1>1, <1>3 DEF SameWrappers
    <2>2. args = b[k].args
      BY DEF FillSame
    <2>3. InputsTagged(b, k, WithOperands(y, args))
      BY <1>1, <1>3, <2>1, <2>2 DEF StandsTagged
    <2>4. FillSame(WithOperands(x, args), WithOperands(y, args))
      <3> PICK v, w : v = WithOperands(x, args) /\ w = WithOperands(y, args)
        OBVIOUS
      <3>1. /\ v.args = OperandsFor(x, args) /\ v.meta = x.meta
            /\ w.args = OperandsFor(y, args) /\ w.meta = y.meta
        BY <2>1, WithOperandsIs
      <3>2. OperandsFor(x, args) = OperandsFor(y, args)
        BY <2>1, Zenon DEF FillSame, OperandsFor
      <3> QED
        BY <2>1, <3>1, <3>2 DEF FillSame
    <2> QED
      BY <2>3, <2>4, FillsStay
  <1> QED
    BY <1>2, <1>3 DEF StandsTagged

-----------------------------------------------------------------------------
(* Steps that change no operands                                           *)

\* The analysis is given the same by both instructions.
AlikeTo(j, i) ==
    /\ IsRecord(j) /\ IsRecord(i) /\ j.op = i.op /\ j.fn = i.fn /\ j.src = i.src
    /\ FillSame(j, i)
    /\ i.fn \in {"add_tag", "sea_dsa_set_modified"} => j = i

Alike(gs, fs) ==
    /\ DOMAIN gs = DOMAIN fs
    /\ \A f \in DOMAIN fs :
         /\ gs[f].name = fs[f].name
         /\ DOMAIN gs[f].body = DOMAIN fs[f].body /\ Len(gs[f].body) = Len(fs[f].body)
         /\ DOMAIN fs[f].body = 1 .. Len(fs[f].body) /\ Len(fs[f].body) \in Nat
         /\ \A k \in DOMAIN fs[f].body : AlikeTo(gs[f].body[k], fs[f].body[k])

LEMMA AlikeForwards ==
    ASSUME NEW r, NEW b, NEW n \in Nat, Len(r) = n, Len(b) = n,
           \A k \in 1 .. n : AlikeTo(r[k], b[k]), NEW c, Forwards(r, c)
    PROVE  Forwards(b, c)
  <1>1. /\ c \in 1 .. n /\ r[c].op = "call" /\ r[c].src # 0
        /\ \A k \in 1 .. c : r[k].op # "ret"
        /\ \A k \in 1 .. n : k # c =>
             IsExtra(r[k]) \/ (r[k].src = 0 /\ r[k].op \in {"br", "ret"})
    BY DEF Forwards
  <1>2. \A k \in 1 .. n : r[k].op = b[k].op /\ r[k].fn = b[k].fn /\ r[k].src = b[k].src
    BY DEF AlikeTo
  <1>3. \A k \in 1 .. c : k \in 1 .. n
    BY <1>1
  <1>4. \A k \in 1 .. n : IsExtra(r[k]) => IsExtra(b[k])
    BY <1>2 DEF IsExtra
  <1>5. b[c].op = "call" /\ b[c].src # 0 /\ \A k \in 1 .. c : b[k].op # "ret"
    BY <1>1, <1>2, <1>3
  <1>6. \A k \in 1 .. n : k # c =>
          IsExtra(b[k]) \/ (b[k].src = 0 /\ b[k].op \in {"br", "ret"})
    BY <1>1, <1>2, <1>4
  <1> QED
    BY <1>1, <1>5, <1>6 DEF Forwards

LEMMA AlikeKeepsTags ==
    ASSUME NEW r, NEW b, NEW n \in Nat, \A k \in 1 .. n : AlikeTo(r[k], b[k]),
           NEW k \in 1 .. n
    PROVE  KeepsTags(r, b, k)
  <1>1. ASSUME NEW j \in 1 .. k - 1, b[j].fn \in {"add_tag", "sea_dsa_set_modified"}
        PROVE  r[j] = b[j]
    <2>1. j \in 1 .. n
      OBVIOUS
    <2> QED
      BY <1>1, <2>1 DEF AlikeTo
  <1> QED
    BY <1>1 DEF KeepsTags

LEMMA SameParams ==
    ASSUME NEW j, NEW i, FillSame(j, i), NEW type
    PROVE  ParamsOfType(j, type) = ParamsOfType(i, type)
  <1>1. j.args = i.args /\ j.meta = i.meta
    BY DEF FillSame
  <1> QED
    BY <1>1, Zenon DEF ParamsOfType

LEMMA AlikeMarks ==
    ASSUME NEW r, NEW b, NEW n \in Nat, \A k \in 1 .. n : AlikeTo(r[k], b[k]),
           NEW c \in 1 .. n, IsMarked(b, c)
    PROVE  IsMarked(r, c)
  <1>1. FillSame(r[c], b[c])
    BY DEF AlikeTo
  <1>2. KeepsTags(r, b, c)
    BY AlikeKeepsTags
  <1>3. ASSUME NEW q \in ToSet(ParamsOfType(r[c], "output"))
        PROVE  q # 0 /\ r[c].args[q] = <<"param", q>> /\ Marked(r, c, <<"param", q>>)
    <2>1. q \in ToSet(ParamsOfType(b[c], "output"))
      BY <1>1, SameParams
    <2>2. q # 0 /\ b[c].args[q] = <<"param", q>> /\ Marked(b, c, <<"param", q>>)
      BY <2>1 DEF IsMarked
    <2>3. PICK j \in 1 .. c - 1 : b[j] = SetModified(<<"param", q>>)
      BY <2>2 DEF Marked
    <2>4. r[j] = b[j]
      <3>1. b[j].fn = "sea_dsa_set_modified"
        BY <2>3, SetModifiedIs
      <3> QED
        BY <1>2, <3>1 DEF KeepsTags
    <2>5. Marked(r, c, <<"param", q>>)
      BY <2>3, <2>4 DEF Marked
    <2> QED
      BY <1>1, <2>2, <2>5 DEF FillSame
  <1> QED
    BY <1>3 DEF IsMarked

LEMMA AlikeStands ==
    ASSUME NEW gs, NEW fs, Alike(gs, fs), NEW f \in DOMAIN fs, NEW k \in DOMAIN fs[f].body,
           StandsTagged(fs, fs[f].body, k)
    PROVE  StandsTagged(gs, gs[f].body, k)
  <1>1. PICK r, b, n : r = gs[f].body /\ b = fs[f].body /\ n = Len(b)
    OBVIOUS
  <1>2. n \in Nat /\ k \in 1 .. n /\ \A l \in 1 .. n : AlikeTo(r[l], b[l])
    BY <1>1 DEF Alike
  <1>3. KeepsTags(r, b, k) /\ k \in Nat
    BY <1>2, AlikeKeepsTags
  <1>4. FillSame(r[k], b[k]) /\ r[k].op = b[k].op /\ r[k].fn = b[k].fn
    BY <1>2 DEF AlikeTo
  <1>5. SameWrappers(gs, fs, b[k])
    <2> SUFFICES ASSUME NEW g \in DOMAIN gs, NEW c, gs[g].name = b[k].fn,
                        Forwards(gs[g].body, c)
                 PROVE  /\ g \in DOMAIN fs /\ fs[g].name = b[k].fn /\ Forwards(fs[g].body, c)
                        /\ FillSame(gs[g].body[c], fs[g].body[c])
                        /\ IsRecord(gs[g].body[c]) /\ IsRecord(fs[g].body[c])
      BY DEF SameWrappers
    <2>1. PICK v, w, m : v = gs[g].body /\ w = fs[g].body /\ m = Len(w)
      OBVIOUS
    <2>2. /\ g \in DOMAIN fs /\ gs[g].name = fs[g].name
          /\ m \in Nat /\ Len(v) = m /\ \A l \in 1 .. m : AlikeTo(v[l], w[l])
      BY <2>1 DEF Alike
    <2>3. Forwards(w, c)
      BY <2>1, <2>2, AlikeForwards
    <2>4. c \in 1 .. m
      BY <2>1, <2>3 DEF Forwards
    <2>5. AlikeTo(v[c], w[c])
      BY <2>2, <2>4
    <2> QED
      BY <2>1, <2>2, <2>3, <2>5 DEF AlikeTo
  <1>6. StandsTagged(fs, b, k)
    BY <1>1
  <1>7. StandsTagged(gs, r, k)
    BY <1>3, <1>4, <1>5, <1>6, StandsStays
  <1> QED
    BY <1>1, <1>7

LEMMA AlikePasses ==
    ASSUME NEW r, NEW b, NEW n \in Nat, Len(r) = n, Len(b) = n,
           \A k \in 1 .. n : AlikeTo(r[k], b[k]), NEW c \in 1 .. n, IsPassing(b, c)
    PROVE  IsPassing(r, c)
  <1>1. IsMarked(r, c)
    BY AlikeMarks DEF IsPassing
  <1>2. ASSUME NEW k \in 1 .. n PROVE HasOperands(r[k])
    <2>1. HasOperands(b[k]) /\ r[k].args = b[k].args
      BY DEF IsPassing, AlikeTo, FillSame
    <2> QED
      BY <2>1 DEF HasOperands
  <1> QED
    BY <1>1, <1>2 DEF IsPassing

\* From WrapSinks on, such a step leaves what the analysis is given.
LEMMA AlikeKeepsSeen ==
    ASSUME SeenInv, NEW gs, gs = functions', Alike(gs, functions),
           pass \in {"wrap_sinks", "tags"}, pass' \in {"wrap_sinks", "tags"}
    PROVE  SeenInv'
  <1>1. ASSUME NEW f \in DOMAIN gs, ~IsWrapper(gs[f].name), NEW k \in DOMAIN gs[f].body
        PROVE  StandsTagged(gs, gs[f].body, k)
    <2>1. /\ f \in DOMAIN functions /\ ~IsWrapper(functions[f].name)
          /\ k \in DOMAIN functions[f].body /\ k \in 1 .. Len(functions[f].body)
          /\ Len(functions[f].body) \in Nat
      BY <1>1 DEF Alike
    <2>2. k < TaggedTo(f)
      BY <2>1 DEF TaggedTo
    <2>3. StandsTagged(functions, functions[f].body, k)
      BY <2>1, <2>2 DEF SeenInv, TagsInv
    <2> QED
      BY <2>1, <2>3, AlikeStands
  <1>2. ASSUME NEW f \in DOMAIN gs, IsWrapper(gs[f].name), NEW c, Forwards(gs[f].body, c)
        PROVE  IsPassing(gs[f].body, c)
    <2>1. PICK r, b, n : r = gs[f].body /\ b = functions[f].body /\ n = Len(b)
      OBVIOUS
    <2>2. /\ f \in DOMAIN functions /\ IsWrapper(functions[f].name)
          /\ n \in Nat /\ Len(r) = n /\ \A l \in 1 .. n : AlikeTo(r[l], b[l])
      BY <1>2, <2>1 DEF Alike
    <2>3. Forwards(b, c)
      BY <1>2, <2>1, <2>2, AlikeForwards
    <2>4. c \in 1 .. n /\ IsPassing(b, c)
      BY <2>1, <2>2, <2>3 DEF Forwards, SeenInv, MarksInv
    <2> QED
      BY <2>1, <2>2, <2>4, AlikePasses
  <1>3. TagsInv'
    BY <1>1 DEF TagsInv
  <1>4. MarksInv'
    BY <1>2 DEF MarksInv
  <1> QED
    BY <1>3, <1>4 DEF SeenInv

LEMMA SameIsAlike ==
    ASSUME NEW fs, Runs(fs)
    PROVE  Alike(fs, fs)
  <1>1. IsModule(fs) /\ \A i \in InstructionsOf(fs) : IsRecord(i)
    BY RunsIs
  <1>2. ASSUME NEW f \in DOMAIN fs, NEW k \in DOMAIN fs[f].body
        PROVE  AlikeTo(fs[f].body[k], fs[f].body[k])
    <2>1. fs[f].body[k] \in InstructionsOf(fs)
      BY <1>1, ModuleIs
    <2> QED
      BY <1>1, <2>1 DEF AlikeTo, FillSame
  <1>3. \A f \in DOMAIN fs : DOMAIN fs[f].body = 1 .. Len(fs[f].body) /\ Len(fs[f].body) \in Nat
    BY <1>1, ModuleIs
  <1> QED
    BY <1>2, <1>3 DEF Alike

\* Other passes give the analysis nothing.
LEMMA SeenElsewhere ==
    ASSUME pass' \notin {"add_sources", "wrap_sinks", "tags"}
    PROVE  SeenInv'
  BY DEF SeenInv, TagsInv, MarksInv

LEMMA SameModuleKeepsSeen ==
    ASSUME RunInv(FALSE), SeenInv, functions' = functions,
           pass \in {"wrap_sinks", "tags"}, pass' \in {"wrap_sinks", "tags"}
    PROVE  SeenInv'
  <1>1. PICK gs : gs = functions'
    OBVIOUS
  <1>2. Alike(gs, functions)
    BY <1>1, SameIsAlike DEF RunInv, MakesCallsOf
  <1> QED
    BY <1>1, <1>2, AlikeKeepsSeen

\* AddSources has got nowhere when it starts.
LEMMA LoadInputFileKeepsSeen == PassesInv /\ LoadInputFile => SeenInv'
  <1> SUFFICES ASSUME PassesInv, LoadInputFile PROVE SeenInv'
    OBVIOUS
  <1>1. pass' \in {"add_sources", "add_metadata"} /\ at = <<1, 1>> /\ UNCHANGED <<functions, at>>
    BY DEF LoadInputFile, module_vars, PassesInv, ModuleInv, Beginnings
  <1>2. DOMAIN functions = 1 .. Len(functions) /\ Len(functions) \in Nat
        /\ \A f \in DOMAIN functions :
             DOMAIN functions[f].body = 1 .. Len(functions[f].body)
             /\ Len(functions[f].body) \in Nat
    BY ModuleIs DEF PassesInv, ModuleInv, Positioned
  <1>3. CASE pass' = "add_sources"
    <2>1. at'[1] = 1 /\ at'[2] = 1
      BY <1>1
    <2>2. ASSUME NEW f \in DOMAIN functions', NEW k \in DOMAIN functions'[f].body
          PROVE  ~(k < TaggedTo(f)')
      BY <1>1, <1>2, <1>3, <2>1 DEF TaggedTo
    <2>3. TagsInv'
      BY <2>2 DEF TagsInv
    <2>4. MarksInv'
      BY <1>3 DEF MarksInv
    <2> QED
      BY <2>3, <2>4 DEF SeenInv
  <1>4. CASE pass' # "add_sources"
    BY <1>1, <1>4, SeenElsewhere
  <1> QED
    BY <1>3, <1>4

LEMMA WrapSinksVisitKeepsSeen ==
    PassesInv /\ RunInv(FALSE) /\ SeenInv /\ (WrapSinks_Skip \/ WrapSinks_Collect) => SeenInv'
  <1> SUFFICES ASSUME PassesInv, RunInv(FALSE), SeenInv, WrapSinks_Skip \/ WrapSinks_Collect
               PROVE SeenInv'
    OBVIOUS
  <1>1. pass = "wrap_sinks" /\ pass' = pass /\ at[2] <= Len(Body) /\ Visit(<<>>, Current)
    BY DEF WrapSinks_Skip, WrapSinks_Collect, Visiting, history
  <1>2. functions' = functions
    BY <1>1, VisitSame DEF PassesInv, ModuleInv
  <1> QED
    BY <1>1, <1>2, SameModuleKeepsSeen

\* The answers of the analysis are no part of its input.
LEMMA TagsKeepSeen ==
    PassesInv /\ CallsInv /\ RunInv(FALSE) /\ SeenInv /\ TagAnalysisResultsAsMetadata => SeenInv'
  <1> SUFFICES ASSUME PassesInv, CallsInv, RunInv(FALSE), SeenInv, TagAnalysisResultsAsMetadata
               PROVE SeenInv'
    OBVIOUS
  <1>1. pass = "tags" /\ pass' = pass /\ at[2] <= Len(Body) /\ Positioned
    BY DEF TagAnalysisResultsAsMetadata, Visiting, PassesInv, ModuleInv
  <1>2. PICK answer, new :
          /\ Visit(<<>>, new) /\ IsRecord(Current)
          /\ DOMAIN answer # {} => Current.meta # {}
          /\ new = IF DOMAIN answer = {} \/ {} \in ToSet(answer) THEN Current
                   ELSE WithTags(Current, {TagsFor(answer)})
    BY TagsStep
  <1>3. PICK h, c : h = at[1] /\ c = at[2]
    OBVIOUS
  <1>4. /\ HasReplaced(functions', functions, h, c, new)
        /\ h \in DOMAIN functions /\ c \in DOMAIN functions[h].body
        /\ Current = functions[h].body[c]
    BY <1>1, <1>2, <1>3, VisitReplaces
  <1>5. AlikeTo(new, Current)
    <2>1. CASE new = Current
      BY <1>2, <2>1 DEF AlikeTo, FillSame
    <2>2. CASE new # Current
      <3>1. new = WithTags(Current, {TagsFor(answer)}) /\ Current.meta # {}
        BY <1>2, <2>2
      <3>2. /\ IsRecord(new) /\ new.op = Current.op /\ new.fn = Current.fn
            /\ new.args = Current.args /\ new.meta = Current.meta /\ new.src = Current.src
        BY <1>2, <3>1, WithTagsIs
      <3>3. Current.fn \notin Reserved
        BY <1>1, <3>1, CurrentIs DEF CallsInv, NumbersInv, IsSiteOnce
      <3> QED
        BY <1>2, <3>2, <3>3 DEF AlikeTo, FillSame, Reserved, OwnFunctions
    <2> QED
      BY <2>1, <2>2
  <1>6. PICK gs, fs : gs = functions' /\ fs = functions
    OBVIOUS
  <1>7. Alike(fs, fs)
    BY <1>6, SameIsAlike DEF RunInv, MakesCallsOf
  <1>8. Alike(gs, fs)
    <2>1. /\ DOMAIN gs = DOMAIN fs
          /\ \A f \in DOMAIN fs : gs[f].name = fs[f].name
          /\ \A f \in DOMAIN fs \ {h} : gs[f] = fs[f]
          /\ DOMAIN gs[h].body = DOMAIN fs[h].body /\ Len(gs[h].body) = Len(fs[h].body)
          /\ gs[h].body[c] = new
          /\ \A k \in DOMAIN fs[h].body \ {c} : gs[h].body[k] = fs[h].body[k]
          /\ AlikeTo(new, fs[h].body[c])
      BY <1>4, <1>5, <1>6 DEF HasReplaced
    <2>2. \A f \in DOMAIN fs : \A k \in DOMAIN fs[f].body : AlikeTo(fs[f].body[k], fs[f].body[k])
      BY <1>7 DEF Alike
    <2>3. \A f \in DOMAIN fs : \A k \in DOMAIN fs[f].body : AlikeTo(gs[f].body[k], fs[f].body[k])
      <3> SUFFICES ASSUME NEW f \in DOMAIN fs, NEW k \in DOMAIN fs[f].body
                   PROVE  AlikeTo(gs[f].body[k], fs[f].body[k])
        OBVIOUS
      <3>1. CASE f = h /\ k = c
        BY <2>1, <3>1
      <3>2. CASE ~(f = h /\ k = c)
        BY <2>1, <2>2, <3>2
      <3> QED
        BY <3>1, <3>2
    <2>4. \A f \in DOMAIN fs :
            DOMAIN gs[f].body = DOMAIN fs[f].body /\ Len(gs[f].body) = Len(fs[f].body)
      BY <2>1
    <2> QED
      BY <1>7, <2>1, <2>3, <2>4 DEF Alike
  <1> QED
    BY <1>1, <1>6, <1>8, AlikeKeepsSeen

\* No wrapper is there, and none is called, before WrapSinks.
LEMMA NoWrappersYet ==
    ASSUME CallsInv, RunInv(FALSE), pass \in BeforeWrapping
    PROVE  /\ \A f \in DOMAIN functions : ~IsWrapper(functions[f].name)
           /\ \A i \in InstructionsOf(functions) : ~IsWrapperCall(i)
  <1>1. wrappers = 0 /\ HasWrappers(functions, Len(input), wrappers)
    BY DEF CallsInv, SinksInv, WrapperInv
  <1>2. Runs(functions)
    BY DEF RunInv, MakesCallsOf
  <1>3. Len(input) \in Nat
    BY ModuleIs DEF CallsInv, InputInv, Clean
  <1>4. ASSUME NEW f \in DOMAIN functions PROVE functions[f].name \notin ToSet(WrapperName)
    <2>1. DOMAIN functions = 1 .. Len(functions) /\ Len(functions) = Len(input)
      BY <1>1, <1>2, <1>3, RunsIs DEF HasWrappers
    <2> QED
      BY <1>1, <2>1 DEF HasWrappers
  <1>5. ASSUME NEW i \in InstructionsOf(functions) PROVE ~IsWrapperCall(i)
    <2>1. IsWrapperCall(i) => \E f \in DOMAIN functions : functions[f].name = i.fn
      BY <1>2, RunsIs
    <2> QED
      BY <1>4, <2>1 DEF IsWrapperCall
  <1> QED
    BY <1>4, <1>5 DEF IsWrapper

\* The pass goes on to the next function, or the next pass begins.
LEMMA EndOfFunctionKeepsSeen ==
    PassesInv /\ CallsInv /\ RunInv(FALSE) /\ SeenInv /\ EndOfFunction => SeenInv'
  <1> SUFFICES ASSUME PassesInv, CallsInv, RunInv(FALSE), SeenInv, EndOfFunction PROVE SeenInv'
    OBVIOUS
  <1>1. /\ UNCHANGED functions /\ at[2] > Len(Body)
        /\ \/ /\ at[1] < Len(functions) /\ pass' = pass
              /\ at'[1] = at[1] + 1 /\ at'[2] = 1
           \/ /\ at[1] = Len(functions) /\ pass' = NextPass[pass]
              /\ at'[1] = 1 /\ at'[2] = 1
        /\ pass \in {"print", "add_metadata", "add_sources", "wrap_sinks", "tags",
                     "dependency_map", "add_logging"}
    BY EndIs DEF EndOfFunction
  <1>2. /\ Len(functions) \in Nat /\ DOMAIN functions = 1 .. Len(functions)
        /\ at[1] \in DOMAIN functions /\ at[2] \in 1 .. Len(Body) + 1
        /\ \A f \in DOMAIN functions :
             /\ Len(functions[f].body) \in Nat
             /\ DOMAIN functions[f].body = 1 .. Len(functions[f].body)
    BY ModuleIs DEF PassesInv, ModuleInv, Positioned
  <1>3. CASE pass = "add_metadata"
    <2>1. pass' \in {"add_metadata", "add_sources"}
      BY <1>1, <1>3 DEF NextPass
    <2>2. CASE pass' = "add_sources"
      <3>1. at'[1] = 1 /\ at'[2] = 1
        BY <1>1, <1>3, <2>2
      <3>2. ASSUME NEW f \in DOMAIN functions', NEW k \in DOMAIN functions'[f].body
            PROVE  ~(k < TaggedTo(f)')
        BY <1>1, <1>2, <2>2, <3>1 DEF TaggedTo
      <3>3. TagsInv'
        BY <3>2 DEF TagsInv
      <3>4. MarksInv'
        BY <2>2 DEF MarksInv
      <3> QED
        BY <3>3, <3>4 DEF SeenInv
    <2>3. CASE pass' = "add_metadata"
      BY <2>3, SeenElsewhere
    <2> QED
      BY <2>1, <2>2, <2>3
  <1>4. CASE pass = "add_sources"
    <2>1. pass' \in {"add_sources", "wrap_sinks"}
      BY <1>1, <1>4 DEF NextPass
    <2>2. at[2] = Len(Body) + 1 /\ Len(Body) = Len(functions[at[1]].body)
      BY <1>1, <1>2 DEF Body
    <2>3. ASSUME NEW f \in DOMAIN functions, NEW k \in DOMAIN functions[f].body,
                 k < TaggedTo(f)'
          PROVE  k < TaggedTo(f)
      <3>1. k \in 1 .. Len(functions[f].body) /\ Len(functions[f].body) \in Nat
        BY <1>2
      <3>2. f <= at[1] => TaggedTo(f) = Len(functions[f].body) + 1
        BY <1>2, <1>4, <2>2 DEF TaggedTo
      <3>3. f > at[1] => TaggedTo(f)' = 1
        BY <1>1, <1>2, <1>4, <2>1 DEF TaggedTo
      <3> QED
        BY <1>2, <2>3, <3>1, <3>2, <3>3
    <2>4. TagsInv'
      BY <1>1, <1>4, <2>3 DEF SeenInv, TagsInv
    <2>5. MarksInv'
      <3>1. \A f \in DOMAIN functions : ~IsWrapper(functions[f].name)
        BY <1>4, NoWrappersYet DEF BeforeWrapping
      <3> QED
        BY <1>1, <3>1 DEF MarksInv
    <2> QED
      BY <2>4, <2>5 DEF SeenInv
  <1>5. CASE pass = "wrap_sinks"
    <2>1. pass' \in {"wrap_sinks", "tags"}
      BY <1>1, <1>5 DEF NextPass
    <2> QED
      BY <1>1, <1>5, <2>1, SameModuleKeepsSeen
  <1>6. CASE pass = "tags"
    <2>1. pass' \in {"tags", "remove_sources"}
      BY <1>1, <1>6 DEF NextPass
    <2>2. CASE pass' = "tags"
      BY <1>1, <1>6, <2>2, SameModuleKeepsSeen
    <2> QED
      BY <2>1, <2>2, SeenElsewhere
  <1>7. CASE pass \in {"print", "dependency_map", "add_logging"}
    <2>1. pass' \notin {"add_sources", "wrap_sinks", "tags"}
      BY <1>1, <1>7 DEF NextPass
    <2> QED
      BY <2>1, SeenElsewhere
  <1> QED
    BY <1>1, <1>3, <1>4, <1>5, <1>6, <1>7

LEMMA StutterKeepsSeen == SeenInv /\ UNCHANGED vars => SeenInv'
  <1> SUFFICES ASSUME SeenInv, UNCHANGED vars PROVE SeenInv'
    OBVIOUS
  <1>1. UNCHANGED <<functions, at, pass>>
    BY DEF vars, module_vars
  <1> QED
    BY <1>1 DEF SeenInv, TagsInv, MarksInv, TaggedTo

-----------------------------------------------------------------------------
(* AddSources                                                              *)

LEMMA TwoMore ==
    ASSUME NEW S, NEW c \in Seq(S), NEW x \in S, NEW y \in S, NEW n, n = Len(c),
           NEW s, s = c \o <<x, y>>
    PROVE  n \in Nat /\ Len(s) = n + 2 /\ s[n + 1] = x /\ s[n + 2] = y
  <1>1. PICK two : two = <<x, y>>
    OBVIOUS
  <1>2. two \in Seq(S) /\ Len(two) = 2 /\ two[1] = x /\ two[2] = y
    BY <1>1
  <1>3. n \in Nat /\ s = c \o two
    BY <1>1
  <1>4. Len(s) = n + 2
    BY <1>2, <1>3
  <1>5. s[n + 1] = two[1]
    BY <1>2, <1>3
  <1>6. s[n + 2] = two[2]
    BY <1>2, <1>3
  <1> QED
    BY <1>2, <1>3, <1>4, <1>5, <1>6

EndsInTag(s, operand, ids) ==
    \E l \in Nat : /\ l > 1 /\ Len(s) = l /\ s[l - 1] = SetModified(operand)
                   /\ IsTagOf(s[l], operand, ids)

\* What is inserted for a parameter ends with the mark and the tag.
LEMMA TagIsLast ==
    ASSUME NEW i, NEW q, NEW tag, NEW s, s = InsertClamAddTag(i, q, tag), NEW operand,
           operand = Operand(i, q), NEW ids, \A id \in ids : id = tag
    PROVE  EndsInTag(s, operand, ids)
  <1>1. PICK cast, mark, put :
          /\ cast = Cast(i, q) /\ mark = SetModified(operand)
          /\ put = Instruction("call", "add_tag", <<operand, <<"tag", tag>>>>)
    OBVIOUS
  <1>2. s = cast \o <<mark, put>>
    BY <1>1 DEF InsertClamAddTag
  <1>3. PICK S : cast \in Seq(S) /\ mark \in S /\ put \in S
    <2>1. PICK one : one = Instruction("cast", "", <<Operand(i, q)>>)
      OBVIOUS
    <2>2. cast = <<>> \/ cast = <<one>>
      BY <1>1, <2>1, Zenon DEF Cast
    <2>3. PICK T : T = {one, mark, put}
      OBVIOUS
    <2>4. <<one>> \in Seq(T) /\ <<>> \in Seq(T)
      <3>1. one \in T
        BY <2>3
      <3> QED
        BY <3>1, OneElement
    <2>5. cast \in Seq(T)
      BY <2>2, <2>4
    <2> QED
      BY <2>3, <2>5
  <1>4. PICK n : n = Len(cast)
    OBVIOUS
  <1>5. n \in Nat /\ Len(s) = n + 2 /\ s[n + 1] = mark /\ s[n + 2] = put
    BY <1>2, <1>3, <1>4, TwoMore
  <1>6. IsTagOf(put, operand, ids)
    <2>1. put.fn = "add_tag" /\ put.args = <<operand, <<"tag", tag>>>>
      BY <1>1, MadeInstruction
    <2>2. put.args[1] = operand /\ put.args[2] = <<"tag", tag>>
      BY <2>1
    <2> QED
      BY <2>1, <2>2 DEF IsTagOf
  <1>7. PICK l : l = n + 2
    OBVIOUS
  <1>8. l \in Nat /\ l > 1 /\ l - 1 = n + 1
    BY <1>5, <1>7
  <1> QED
    BY <1>1, <1>5, <1>6, <1>7, <1>8 DEF EndsInTag

\* So every parameter that a source fills gets the tag.
BringsTag(before, operand, ids) ==
    \E l \in 2 .. Len(before) :
      IsTagOf(before[l], operand, ids) /\ before[l - 1] = SetModified(operand)

LEMMA SourceIsTagged ==
    ASSUME NEW i, IsInstruction(i), NEW x, i.meta = {x}, NEW before,
           before = FlattenSeq(SourceBlocks(i)),
           NEW q \in ToSet(ParamsOfType(i, "input")), q # 0, i.args[q] # <<"null">>
    PROVE  BringsTag(before, i.args[q], CallSiteIds(i))
  <1>1. PICK inputs, tag, ss, operand, ids :
          /\ inputs = ParamsOfType(i, "input") /\ tag = (CHOOSE id \in CallSiteIds(i) : TRUE)
          /\ ss = SourceBlocks(i) /\ operand = i.args[q] /\ ids = CallSiteIds(i)
    OBVIOUS
  <1>2. \A id \in ids : id = tag
    <2>1. ids = {x.id}
      BY <1>1, Zenon DEF CallSiteIds
    <2> QED
      BY <1>1, <2>1
  <1>3. PICK n \in DOMAIN inputs : inputs[n] = q
    BY <1>1 DEF ToSet
  <1>4. Operand(i, q) = operand /\ operand # <<"null">>
    BY <1>1 DEF Operand
  <1>5. DOMAIN ss = DOMAIN inputs /\ ss[n] = InsertClamAddTag(i, q, tag)
    <2>1. ss = [m \in DOMAIN inputs |->
                  IF Operand(i, inputs[m]) = <<"null">> THEN <<>>
                  ELSE InsertClamAddTag(i, inputs[m], tag)]
      BY <1>1 DEF SourceBlocks
    <2>2. ss[n] = IF Operand(i, inputs[n]) = <<"null">> THEN <<>>
                  ELSE InsertClamAddTag(i, inputs[n], tag)
      BY <2>1
    <2> QED
      BY <1>3, <1>4, <2>1, <2>2
  <1>6. PICK s : s = ss[n]
    OBVIOUS
  <1>0. s = InsertClamAddTag(i, q, tag) /\ operand = Operand(i, q)
    BY <1>4, <1>5, <1>6
  <1>7. PICK l \in Nat : /\ l > 1 /\ Len(s) = l /\ s[l - 1] = SetModified(operand)
                         /\ IsTagOf(s[l], operand, ids)
    <2>1. EndsInTag(s, operand, ids)
      BY <1>0, <1>2, TagIsLast
    <2> QED
      BY <2>1 DEF EndsInTag
  <1>8. PICK operands : ss \in Seq(Seq(Inserted(operands, SourceTags(i))))
    BY <1>1, SourceBlocksType
  <1>9. PICK B : ss \in Seq(Seq(B))
    BY <1>8
  <1>10. before = FlattenSeq(ss)
    BY <1>1
  <1>11. PICK off : Places(off, before, ss, Len(ss))
    BY <1>9, <1>10, FlattenPlaces
  <1>12. before \in Seq(B)
    BY <1>9, <1>10, FlattenType
  <1>13. n \in 1 .. Len(ss)
    BY <1>5, <1>9
  <1>14. /\ off[n] \in Nat /\ off[n] + Len(ss[n]) <= Len(before)
         /\ \A j \in 1 .. Len(ss[n]) : before[off[n] + j] = ss[n][j]
    BY <1>11, <1>13 DEF Places
  <1>15. PICK o, m : o = off[n] /\ m = Len(before)
    OBVIOUS
  <1>16. /\ o \in Nat /\ m \in Nat /\ o + l <= m
         /\ \A j \in 1 .. l : before[o + j] = s[j]
    BY <1>6, <1>7, <1>12, <1>14, <1>15
  <1>17. PICK p : p = o + l
    OBVIOUS
  <1>18. p \in 2 .. m /\ l \in 1 .. l /\ l - 1 \in 1 .. l /\ p - 1 = o + (l - 1)
    BY <1>7, <1>16, <1>17
  <1>19. before[p] = s[l] /\ before[p - 1] = s[l - 1]
    BY <1>16, <1>17, <1>18
  <1> QED
    BY <1>1, <1>7, <1>15, <1>18, <1>19 DEF BringsTag

LEMMA NoTagsNeeded ==
    ASSUME NEW fs, NEW b, NEW k, Len(b[k].args) \in Nat, b[k].meta = {}, ~IsWrapperCall(b[k])
    PROVE  StandsTagged(fs, b, k)
  <1>1. ToSet(ParamsOfType(b[k], "input")) = {}
    BY NoParams
  <1> QED
    BY <1>1 DEF StandsTagged, InputsTagged

\* A tag that is put somewhere in front of a place.
LEMMA TaggedBehind ==
    ASSUME NEW r, NEW p \in Nat \ {0}, NEW before, NEW m \in Nat, m = Len(before),
           \A j \in 1 .. m : r[p - 1 + j] = before[j], NEW operand, NEW ids,
           NEW l \in 2 .. m, IsTagOf(before[l], operand, ids),
           before[l - 1] = SetModified(operand)
    PROVE  HasTag(r, p + m, operand, ids)
  <1>1. PICK j : j = p - 1 + l
    OBVIOUS
  <1>2. /\ j \in 2 .. p + m - 1 /\ j - 1 = p - 1 + (l - 1)
        /\ l \in 1 .. m /\ l - 1 \in 1 .. m
    BY <1>1
  <1>3. r[j] = before[l] /\ r[j - 1] = before[l - 1]
    BY <1>1, <1>2
  <1> QED
    BY <1>2, <1>3 DEF HasTag

\* What AddSources does to the function that it is in.
Tagging(r, b, p, before, m) ==
    /\ p \in 1 .. Len(b) /\ Len(b) \in Nat /\ m \in Nat /\ m = Len(before)
    /\ DOMAIN r = 1 .. Len(b) + m
    /\ \A k \in 1 .. p - 1 : r[k] = b[k]
    /\ \A k \in 1 .. m : r[p - 1 + k] = before[k]
    /\ r[p + m] = b[p]

\* What no wrapper is called by stands as it stood.
LEMMA PlainStands ==
    ASSUME NEW gs, NEW fs, NEW b, NEW r, NEW k \in Nat, \A j \in 1 .. k : r[j] = b[j],
           k > 0, ~IsWrapperCall(b[k]), StandsTagged(fs, b, k)
    PROVE  StandsTagged(gs, r, k)
  <1>1. r[k] = b[k] /\ \A j \in 1 .. k - 1 : r[j] = b[j]
    OBVIOUS
  <1>2. KeepsTags(r, b, k)
    BY <1>1 DEF KeepsTags
  <1>3. FillSame(r[k], b[k]) /\ r[k].op = b[k].op /\ r[k].fn = b[k].fn
    BY <1>1 DEF FillSame
  <1> QED
    BY <1>2, <1>3, StandsStays

\* The call gets its tags.
LEMMA SourceStands ==
    ASSUME NEW gs, NEW r, NEW b, NEW p, NEW before, NEW m, Tagging(r, b, p, before, m),
           NEW i, i = b[p], IsInstruction(i), ~IsWrapperCall(i),
           before = FlattenSeq(SourceBlocks(i)), i.meta # {} => \E x : i.meta = {x}
    PROVE  StandsTagged(gs, r, p + m)
  <1>1. /\ r[p + m] = i /\ p \in Nat \ {0} /\ m \in Nat /\ m = Len(before)
        /\ \A k \in 1 .. m : r[p - 1 + k] = before[k]
        /\ Len(i.args) \in Nat
    BY DEF Tagging, IsInstruction
  <1>2. InputsTagged(r, p + m, i)
    <2> SUFFICES ASSUME NEW q \in ToSet(ParamsOfType(i, "input")), q # 0,
                        i.args[q] # <<"null">>
                 PROVE  HasTag(r, p + m, i.args[q], CallSiteIds(i))
      BY DEF InputsTagged
    <2>1. i.meta # {}
      BY <1>1, NoParams
    <2>2. PICK x : i.meta = {x}
      BY <2>1
    <2>3. PICK operand, ids : operand = i.args[q] /\ ids = CallSiteIds(i)
      OBVIOUS
    <2>4. PICK l \in 2 .. Len(before) :
            IsTagOf(before[l], operand, ids) /\ before[l - 1] = SetModified(operand)
      <3>1. BringsTag(before, i.args[q], CallSiteIds(i))
        BY <2>2, SourceIsTagged
      <3> QED
        BY <2>3, <3>1 DEF BringsTag
    <2>5. l \in 2 .. m
      BY <1>1, <2>4
    <2>6. HasTag(r, p + m, operand, ids)
      BY <1>1, <2>4, <2>5, TaggedBehind
    <2> QED
      BY <2>3, <2>6
  <1> QED
    BY <1>1, <1>2 DEF StandsTagged

\* AddSources puts the tags in front of the call, and leaves the other calls theirs.
LEMMA AddSourcesKeepsSeen ==
    PassesInv /\ CallsInv /\ MapInv /\ RunInv(FALSE) /\ SeenInv /\ AddSources => SeenInv'
  <1> SUFFICES ASSUME PassesInv, CallsInv, MapInv, RunInv(FALSE), SeenInv, AddSources
               PROVE SeenInv'
    OBVIOUS
  <1>1. /\ pass = "add_sources" /\ pass' = pass /\ at[2] <= Len(Body) /\ Positioned
        /\ Current \in InstructionsOf(functions) /\ IsInstruction(Current)
    BY CurrentIs DEF PassesInv, ModuleInv, AddSources, Visiting
  <1>2. PICK operands : SourceBlocks(Current) \in Seq(Seq(Inserted(operands, SourceTags(Current))))
    BY <1>1, SourceBlocksType
  <1>3. PICK B, before : /\ B = Inserted(operands, SourceTags(Current))
                         /\ before = FlattenSeq(SourceBlocks(Current))
    OBVIOUS
  <1>4. Visit(before, Current) /\ before \in Seq(B)
    BY <1>2, <1>3, AddSourcesVisit, FlattenType
  <1>5. PICK a, p, m, b, r, gs, i : /\ a = at[1] /\ p = at[2] /\ m = Len(before)
                                    /\ b = Body /\ r = Body' /\ gs = functions' /\ i = Current
    OBVIOUS
  <1>6. /\ Positioned'
        /\ DOMAIN gs = DOMAIN functions
        /\ at'[1] = a /\ at'[2] = p + m + 1
        /\ \A f \in DOMAIN functions : gs[f].name = functions[f].name
        /\ \A f \in DOMAIN functions \ {a} : gs[f] = functions[f]
        /\ Len(r) = Len(b) + m
        /\ \A k \in 1 .. p - 1 : r[k] = b[k]
        /\ \A k \in 1 .. m : r[p - 1 + k] = before[k]
        /\ r[p + m] = i
    BY <1>1, <1>4, <1>5, VisitStep
  <1>7. /\ a \in DOMAIN functions /\ DOMAIN functions = 1 .. Len(functions)
        /\ Len(functions) \in Nat /\ b = functions[a].body /\ r = gs[a].body
        /\ i = b[p] /\ p \in 1 .. Len(b) /\ Len(b) \in Nat
    BY <1>1, <1>5, <1>6, ModuleIs DEF Positioned, Body, Current
  <1>8. DOMAIN r = 1 .. Len(r) /\ m \in Nat
    <2>1. IsModule(gs) /\ a \in DOMAIN gs
      BY <1>5, <1>6, <1>7 DEF Positioned
    <2>2. DOMAIN r = 1 .. Len(r)
      BY <1>7, <2>1, ModuleIs
    <2>3. m \in Nat
      BY <1>4, <1>5
    <2> QED
      BY <2>2, <2>3
  <1>9. Tagging(r, b, p, before, m)
    BY <1>5, <1>6, <1>7, <1>8 DEF Tagging
  <1>10. \A f \in DOMAIN functions : \A k \in DOMAIN functions[f].body :
           ~IsWrapperCall(functions[f].body[k])
    <2>1. \A j \in InstructionsOf(functions) : ~IsWrapperCall(j)
      BY <1>1, NoWrappersYet DEF BeforeWrapping
    <2> QED
      BY <1>1, <2>1, ModuleIs DEF Positioned
  <1>11. \A k \in 1 .. m : /\ before[k].meta = {} /\ ~IsWrapperCall(before[k])
                           /\ Len(before[k].args) \in Nat
    <2> SUFFICES ASSUME NEW k \in 1 .. m
                 PROVE  /\ before[k].meta = {} /\ ~IsWrapperCall(before[k])
                        /\ Len(before[k].args) \in Nat
      OBVIOUS
    <2>1. before[k] \in B
      BY <1>4, <1>5
    <2> QED
      BY <1>3, <2>1, InsertedAreInstructions, InsertedAreAnnotations, ExtraIsNoCall
         DEF IsMade, IsInstruction, IsAnnotation
  <1>12. i.meta # {} => \E x : i.meta = {x}
    <2> SUFFICES ASSUME i.meta # {} PROVE \E x : i.meta = {x}
      OBVIOUS
    <2>1. Mark(i) \in Marks(functions)
      BY <1>1, <1>5 DEF Marks
    <2>2. \E x : Mark(i).meta = {x}
      BY <2>1 DEF MapInv, TaggedInv, IsTagged
    <2> QED
      BY <2>2, MarkIs
  <1>13. StandsTagged(gs, r, p + m)
    <2>1. ~IsWrapperCall(i) /\ IsInstruction(i) /\ before = FlattenSeq(SourceBlocks(i))
      <3>1. p \in DOMAIN functions[a].body
        BY <1>1, <1>7, ModuleIs DEF Positioned
      <3> QED
        BY <1>1, <1>3, <1>5, <1>7, <1>10, <3>1
    <2> QED
      BY <1>7, <1>9, <1>12, <2>1, SourceStands
  <1>14. ASSUME NEW f \in DOMAIN gs, ~IsWrapper(gs[f].name), NEW k \in DOMAIN gs[f].body,
                k < TaggedTo(f)'
         PROVE  StandsTagged(gs, gs[f].body, k)
    <2>1. f \in DOMAIN functions /\ ~IsWrapper(functions[f].name) /\ f \in Nat /\ a \in Nat
      BY <1>6, <1>7, <1>14
    <2>2. DOMAIN functions[f].body = 1 .. Len(functions[f].body) /\ Len(functions[f].body) \in Nat
      BY <1>1, <2>1, ModuleIs DEF Positioned
    <2>3. CASE f < a
      <3>1. gs[f] = functions[f] /\ k \in DOMAIN functions[f].body
        BY <1>6, <1>14, <2>1, <2>3
      <3>2. k < TaggedTo(f)
        BY <1>5, <2>2, <2>3, <3>1 DEF TaggedTo
      <3>3. StandsTagged(functions, functions[f].body, k)
        BY <1>1, <2>1, <3>1, <3>2 DEF SeenInv, TagsInv
      <3>4. k \in Nat /\ k > 0 /\ ~IsWrapperCall(functions[f].body[k])
        BY <1>10, <2>1, <2>2, <3>1
      <3> QED
        BY <3>1, <3>3, <3>4, PlainStands
    <2>4. CASE f = a
      <3>1. k \in 1 .. Len(b) + m /\ k < p + m + 1
        <4>1. TaggedTo(f)' = p + m + 1
          BY <1>1, <1>6, <1>7, <2>4 DEF TaggedTo
        <4> QED
          BY <1>6, <1>7, <1>8, <1>14, <2>4, <4>1
      <3>2. CASE k < p
        <4>1. k \in DOMAIN functions[f].body /\ k \in Nat /\ k > 0
          BY <1>7, <2>2, <2>4, <3>1, <3>2
        <4>2. k < TaggedTo(f)
          BY <1>1, <1>5, <2>1, <2>4, <3>2 DEF TaggedTo
        <4>3. StandsTagged(functions, b, k) /\ ~IsWrapperCall(b[k])
          BY <1>1, <1>7, <1>10, <2>1, <2>4, <4>1, <4>2 DEF SeenInv, TagsInv
        <4>4. \A j \in 1 .. k : r[j] = b[j]
          BY <1>6, <1>7, <3>2, <4>1
        <4>5. StandsTagged(gs, r, k)
          BY <4>1, <4>3, <4>4, PlainStands
        <4> QED
          BY <1>7, <2>4, <4>5
      <3>3. CASE k >= p /\ k < p + m
        <4>1. PICK j : j = k - p + 1
          OBVIOUS
        <4>2. j \in 1 .. m /\ k = p - 1 + j
          BY <1>7, <1>8, <3>1, <3>3, <4>1
        <4>3. r[k] = before[j]
          BY <1>6, <4>2
        <4>4. StandsTagged(gs, r, k)
          BY <1>11, <4>2, <4>3, NoTagsNeeded
        <4> QED
          BY <1>7, <2>4, <4>4
      <3>4. CASE k = p + m
        BY <1>7, <1>13, <2>4, <3>4
      <3>5. p \in Nat /\ m \in Nat /\ k \in Nat
        BY <1>7, <1>8, <3>1
      <3>6. k < p \/ (k >= p /\ k < p + m) \/ k = p + m
        BY <3>1, <3>5
      <3> QED
        BY <3>2, <3>3, <3>4, <3>6
    <2>5. CASE f > a
      <3>1. TaggedTo(f)' = 1
        BY <1>1, <1>6, <2>1, <2>5 DEF TaggedTo
      <3>2. k \in 1 .. Len(functions[f].body)
        BY <1>6, <1>14, <2>1, <2>2, <2>5
      <3> QED
        BY <1>14, <3>1, <3>2
    <2> QED
      BY <2>1, <2>3, <2>4, <2>5
  <1>15. TagsInv'
    BY <1>5, <1>14 DEF TagsInv
  <1>16. MarksInv'
    BY <1>1 DEF MarksInv
  <1> QED
    BY <1>15, <1>16 DEF SeenInv

-----------------------------------------------------------------------------
(* WrapSinks                                                               *)

LEMMA ForwardsOne ==
    ASSUME NEW b, Len(b) \in Nat, NEW c, Forwards(b, c), NEW e, Forwards(b, e)
    PROVE  c = e
  <1>1. c \in 1 .. Len(b) /\ e \in 1 .. Len(b) /\ b[c].src # 0
    BY DEF Forwards
  <1>2. c # e => b[c].src = 0
    BY <1>1 DEF Forwards, IsExtra
  <1> QED
    BY <1>1, <1>2

\* A call with the first operands of another, and its metadata.
TakesFirst(j, i) ==
    /\ j.meta = i.meta /\ Len(j.args) \in Nat /\ Len(i.args) \in Nat
    /\ Len(j.args) <= Len(i.args)
    /\ \A p \in 1 .. Len(j.args) : j.args[p] = i.args[p]

LEMMA FirstLabelled ==
    ASSUME NEW j, NEW i, j.meta = i.meta, Len(j.args) \in Nat, Len(i.args) \in Nat,
           Len(j.args) <= Len(i.args), NEW type, NEW p \in ToSet(ParamsOfType(j, type))
    PROVE  p \in 0 .. Len(j.args) /\ p \in ToSet(ParamsOfType(i, type))
  <1> PICK m, n : m = Len(j.args) /\ n = Len(i.args)
    OBVIOUS
  <1>1. p \in 0 .. m /\ IsLabelled(j, p, type)
    BY ParamsAre
  <1>2. IsLabelled(i, p, type)
    BY <1>1 DEF IsLabelled
  <1>3. p \in 0 .. n
    BY <1>1
  <1>4. p \in ToSet(ParamsOfType(i, type))
    BY <1>2, <1>3, ParamsAre
  <1> QED
    BY <1>1, <1>4

LEMMA FirstFilled ==
    ASSUME NEW b, NEW r, NEW k \in Nat, KeepsTags(r, b, k), NEW i, NEW j, TakesFirst(j, i),
           InputsTagged(b, k, i)
    PROVE  InputsTagged(r, k, j)
  <1>1. CallSiteIds(j) = CallSiteIds(i)
    BY Zenon DEF CallSiteIds, TakesFirst
  <1>2. ASSUME NEW p \in ToSet(ParamsOfType(j, "input")), p # 0, j.args[p] # <<"null">>
        PROVE  HasTag(r, k, j.args[p], CallSiteIds(j))
    <2>1. p \in 0 .. Len(j.args) /\ p \in ToSet(ParamsOfType(i, "input"))
      BY FirstLabelled DEF TakesFirst
    <2>2. p \in 1 .. Len(j.args)
      BY <1>2, <2>1 DEF TakesFirst
    <2>3. j.args[p] = i.args[p]
      BY <2>2 DEF TakesFirst
    <2>4. HasTag(b, k, j.args[p], CallSiteIds(j))
      BY <1>1, <1>2, <2>1, <2>3 DEF InputsTagged
    <2> QED
      BY <2>4, TagsStay
  <1> QED
    BY <1>2 DEF InputsTagged

\* What a wrapper makes of the operands of the call that it stands for.
LEMMA FormalFirst ==
    ASSUME NEW f, NEW call, IsFormal(f, call), NEW n \in Nat,
           n = Len(Signature[call.fn].params), NEW m \in Nat, m = Len(call.args), n <= m,
           NEW j, j = WithOperands(f, call.args)
    PROVE  TakesFirst(j, call)
  <1> PICK args, operands : args = f.args /\ operands = call.args
    OBVIOUS
  <1>1. IsRecord(f) /\ f.meta = call.meta /\ args = [k \in 1 .. n |-> <<"param", k>>]
    BY DEF IsFormal
  <1>2. j.args = OperandsFor(f, operands) /\ j.meta = f.meta
    BY <1>1, WithOperandsIs
  <1>3. OperandsFor(f, operands) =
          [k \in DOMAIN args |-> IF args[k][1] = "param" THEN operands[args[k][2]] ELSE args[k]]
    BY DEF OperandsFor
  <1>4. j.args = [k \in 1 .. n |-> operands[k]]
    <2>1. DOMAIN args = 1 .. n /\ \A k \in 1 .. n : args[k][1] = "param" /\ args[k][2] = k
      BY <1>1
    <2> QED
      BY <1>2, <1>3, <2>1
  <1>5. PICK as : as = j.args
    OBVIOUS
  <1>6. Len(as) = n /\ \A k \in 1 .. n : as[k] = operands[k]
    BY <1>4, <1>5
  <1> QED
    BY <1>1, <1>2, <1>5, <1>6 DEF TakesFirst

\* The call of the new wrapper has the tags of the call that it stands for.
LEMMA NewCallStands ==
    ASSUME NEW gs, NEW fs, NEW a, NEW c, NEW name, NEW b, NEW w, NEW e, Runs(fs),
           HasWrapped(gs, fs, a, c, name, b, w), StandsFor(fs, a, c, name, b, w, e),
           NEW call, call = fs[a].body[c], w.args = call.args, Len(b) \in Nat,
           TakesFirst(WithOperands(b[e], call.args), call), ~IsWrapperCall(call),
           StandsTagged(fs, fs[a].body, c)
    PROVE  StandsTagged(gs, gs[a].body, c)
  <1> PICK r, old, args : r = gs[a].body /\ old = fs[a].body /\ args = call.args
    OBVIOUS
  <1>1. /\ a \in DOMAIN fs /\ c \in DOMAIN old /\ IsWrapper(name) /\ call = old[c]
        /\ \A f \in DOMAIN fs : fs[f].name # name
        /\ w.op = "call" /\ w.fn = name /\ Forwards(b, e)
    BY DEF StandsFor
  <1>2. /\ r[c] = w /\ \A k \in DOMAIN old \ {c} : r[k] = old[k]
        /\ \A f \in DOMAIN fs : gs[f].name = fs[f].name
    BY DEF HasWrapped
  <1>3. DOMAIN old = 1 .. Len(old) /\ Len(old) \in Nat
    BY <1>1, RunsIs, ModuleIs
  <1>4. c \in Nat /\ KeepsTags(r, old, c)
    <2>1. c \in 1 .. Len(old)
      BY <1>1, <1>3
    <2>2. \A j \in 1 .. c - 1 : j \in DOMAIN old \ {c}
      BY <1>3, <2>1
    <2> QED
      BY <1>2, <2>1, <2>2 DEF KeepsTags
  <1>5. InputsTagged(old, c, call)
    BY <1>1 DEF StandsTagged
  <1>6. IsWrapperCall(r[c])
    BY <1>1, <1>2 DEF IsWrapperCall, IsWrapper
  <1>7. ASSUME NEW g \in DOMAIN gs, NEW d, gs[g].name = r[c].fn, Forwards(gs[g].body, d)
        PROVE  InputsTagged(r, c, WithOperands(gs[g].body[d], r[c].args))
    <2>1. g \notin DOMAIN fs
      BY <1>1, <1>2, <1>7
    <2>2. gs[g].body = b
      BY <1>1, <2>1, WrappedHas
    <2>3. d = e
      BY <1>1, <1>7, <2>2, ForwardsOne
    <2>4. WithOperands(gs[g].body[d], r[c].args) = WithOperands(b[e], args)
      BY <1>2, <2>2, <2>3
    <2>5. TakesFirst(WithOperands(b[e], args), call)
      OBVIOUS
    <2>6. InputsTagged(r, c, WithOperands(b[e], args))
      BY <1>4, <1>5, <2>5, FirstFilled
    <2> QED
      BY <2>4, <2>6
  <1>8. StandsTagged(gs, r, c)
    BY <1>6, <1>7 DEF StandsTagged
  <1> QED
    BY <1>8

\* The other calls have theirs.
LEMMA OldCallStands ==
    ASSUME NEW gs, NEW fs, NEW a, NEW c, NEW name, NEW b, NEW w, NEW e, Runs(fs),
           HasWrapped(gs, fs, a, c, name, b, w), StandsFor(fs, a, c, name, b, w, e),
           NEW f \in DOMAIN fs, NEW k \in DOMAIN fs[f].body, ~(f = a /\ k = c),
           StandsTagged(fs, fs[f].body, k)
    PROVE  StandsTagged(gs, gs[f].body, k)
  <1> PICK r, old : r = gs[f].body /\ old = fs[f].body
    OBVIOUS
  <1>1. /\ a \in DOMAIN fs /\ c \in DOMAIN fs[a].body /\ ~IsWrapper(fs[a].name)
        /\ \A g \in DOMAIN fs : fs[g].name # name
        /\ fs[a].body[c].fn \notin Reserved
    BY DEF StandsFor
  <1>2. /\ \A k2 \in DOMAIN fs[a].body \ {c} : gs[a].body[k2] = fs[a].body[k2]
        /\ \A g \in DOMAIN fs : gs[g].name = fs[g].name
        /\ \A g \in DOMAIN fs \ {a} : gs[g] = fs[g]
    BY DEF HasWrapped
  <1>3. DOMAIN old = 1 .. Len(old) /\ Len(old) \in Nat
    BY RunsIs, ModuleIs
  <1>4. \A j \in DOMAIN old : r[j] = old[j] \/ (f = a /\ j = c)
    BY <1>2
  <1>5. k \in Nat /\ KeepsTags(r, old, k)
    <2>1. k \in 1 .. Len(old)
      BY <1>3
    <2>2. \A j \in 1 .. k - 1 : j \in DOMAIN old
      BY <1>3, <2>1
    <2>3. "add_tag" \in Reserved /\ "sea_dsa_set_modified" \in Reserved
      BY DEF Reserved, OwnFunctions
    <2>4. ASSUME NEW j \in 1 .. k - 1, old[j].fn \in {"add_tag", "sea_dsa_set_modified"}
          PROVE  r[j] = old[j]
      <3>1. ~(f = a /\ j = c)
        BY <1>1, <2>3, <2>4
      <3> QED
        BY <1>4, <2>2, <3>1
    <2> QED
      BY <2>1, <2>4 DEF KeepsTags
  <1>6. r[k] = old[k]
    BY <1>4
  <1>7. FillSame(r[k], old[k]) /\ r[k].op = old[k].op /\ r[k].fn = old[k].fn
    BY <1>6 DEF FillSame
  <1>8. ASSUME IsWrapperCall(old[k]) PROVE SameWrappers(gs, fs, old[k])
    <2> PICK i : i = old[k]
      OBVIOUS
    <2>1. i \in InstructionsOf(fs) /\ IsWrapperCall(i)
      BY <1>8, RunsIs, ModuleIs
    <2>2. \E g \in DOMAIN fs : fs[g].name = i.fn
      BY <2>1, RunsIs
    <2>3. i.fn # name /\ IsWrapper(i.fn)
      BY <1>1, <2>1, <2>2 DEF IsWrapperCall, IsWrapper
    <2>4. ASSUME NEW g \in DOMAIN gs, NEW d, gs[g].name = i.fn, Forwards(gs[g].body, d)
          PROVE  /\ g \in DOMAIN fs /\ fs[g].name = i.fn /\ Forwards(fs[g].body, d)
                 /\ FillSame(gs[g].body[d], fs[g].body[d])
                 /\ IsRecord(gs[g].body[d]) /\ IsRecord(fs[g].body[d])
      <3>1. g \in DOMAIN fs
        BY <2>3, <2>4, WrappedHas
      <3>2. g # a
        BY <1>1, <1>2, <2>3, <2>4, <3>1
      <3>3. gs[g] = fs[g]
        BY <1>2, <3>1, <3>2
      <3>4. fs[g].body[d] \in InstructionsOf(fs)
        <4>1. d \in 1 .. Len(fs[g].body)
          BY <2>4, <3>3 DEF Forwards
        <4> QED
          BY <3>1, <4>1, RunsIs, ModuleIs
      <3>5. IsRecord(fs[g].body[d])
        BY <3>4, RunsIs
      <3> QED
        BY <2>4, <3>1, <3>3, <3>5 DEF FillSame
    <2> QED
      BY <2>4 DEF SameWrappers
  <1>9. StandsTagged(gs, r, k)
    BY <1>5, <1>7, <1>8, StandsStays
  <1> QED
    BY <1>9

\* The new wrapper marks all that it sends out.
LEMMA NewWrapperMarks ==
    ASSUME NEW b, NEW e, NEW call, IsFormal(b[e], call), NEW n \in Nat,
           n = Len(Signature[call.fn].params), NEW m \in Nat, m = Len(call.args), n <= m,
           NEW outputs, outputs = ParamsOfType(call, "output"),
           \A k \in ToSet(outputs) : k \in 1 .. n,
           \A k \in DOMAIN outputs : Marked(b, e, b[e].args[outputs[k]])
    PROVE  IsMarked(b, e)
  <1> PICK f, args : f = b[e] /\ args = f.args
    OBVIOUS
  <1>1. f.meta = call.meta /\ args = [k \in 1 .. n |-> <<"param", k>>]
    BY DEF IsFormal
  <1>2. Len(args) = n
    BY <1>1
  <1>3. ASSUME NEW q \in ToSet(ParamsOfType(f, "output"))
        PROVE  q # 0 /\ args[q] = <<"param", q>> /\ Marked(b, e, <<"param", q>>)
    <2>1. q \in ToSet(outputs)
      BY <1>1, <1>2, FirstLabelled
    <2>2. PICK k \in DOMAIN outputs : outputs[k] = q
      BY <2>1 DEF ToSet
    <2>3. q \in 1 .. n
      BY <2>1
    <2>4. args[q] = <<"param", q>>
      BY <1>1, <2>3
    <2>5. Marked(b, e, args[q])
      BY <2>2
    <2> QED
      BY <2>3, <2>4, <2>5
  <1> QED
    BY <1>3 DEF IsMarked

\* A call that goes into a wrapper is given the same, and what it sends out is
\* marked.
LEMMA WrapCallKeepsSeen == PassesInv /\ CallsInv /\ RunInv(FALSE) /\ SeenInv /\ WrapCall => SeenInv'
  <1> SUFFICES ASSUME PassesInv, CallsInv, RunInv(FALSE), SeenInv, WrapCall PROVE SeenInv'
    OBVIOUS
  <1>1. /\ wrappers < Len(WrapperName) /\ at' = at /\ OutputsExist
        /\ pass = "wrap_sinks" /\ pass' = pass
    BY DEF WrapCall, Wrapping
  <1>2. PICK b, w, orig, new : IsWrapped(b, w, orig, new)
    BY WrapCallIs
  <1>3. PICK a, c, call :
          /\ a = at[1] /\ c = CB /\ call = Body[CB] /\ call = functions[a].body[c]
          /\ a \in DOMAIN functions /\ c \in DOMAIN functions[a].body
          /\ ~IsWrapper(functions[a].name)
          /\ call \in InstructionsOf(functions) /\ call.src # 0
          /\ call.fn \notin Reserved
          /\ Len(Signature[call.fn].params) <= Len(call.args)
          /\ Signature[call.fn].params \in Seq(STRING)
          /\ Outputs = ParamsOfType(call, "output") /\ Outputs \in Seq(Nat)
    <2>1. FALSE \in BOOLEAN
      OBVIOUS
    <2> QED
      BY <2>1, WrapCallGives
  <1>4. PICK gs, fs, name : gs = functions' /\ fs = functions /\ name = NextWrapper
    OBVIOUS
  <1>5. HasWrapped(gs, fs, a, c, name, b, w) /\ IsModule(gs)
    <2>1. HasWrapped(gs, fs, a, c, name, b, w)
      BY <1>1, <1>2, <1>3, <1>4, WrappingHas
    <2> QED
      BY <1>2, <1>4, <2>1 DEF IsWrapped
  <1>6. /\ b = WrapperBody(call, orig) /\ w.args = call.args
        /\ w.op = "call" /\ w.fn = name /\ w.src = 0
    BY <1>2, <1>3, <1>4 DEF IsWrapped, Wraps
  <1>7. IsInstruction(call)
    BY <1>3 DEF PassesInv, ModuleInv
  <1>8. PICK e : /\ Forwards(b, e) /\ IsFormal(b[e], call) /\ IsFrame(b, e)
                 /\ \A m \in DOMAIN Outputs : Marked(b, e, b[e].args[Outputs[m]])
    BY <1>3, <1>6, <1>7, WrapperBodyHolds
  <1>9. (\A f \in DOMAIN fs : fs[f].name # name) /\ IsWrapper(name)
    BY <1>1, <1>4, NextWrapperIs DEF IsWrapper
  <1>10. StandsFor(fs, a, c, name, b, w, e)
    BY <1>3, <1>4, <1>6, <1>8, <1>9 DEF StandsFor
  <1>11. PICK n, m, outputs : /\ n = Len(Signature[call.fn].params) /\ m = Len(call.args)
                              /\ outputs = Outputs
    OBVIOUS
  <1>12. n \in Nat /\ m \in Nat /\ n <= m /\ DOMAIN Signature[call.fn].params = 1 .. n
    BY <1>3, <1>7, <1>11 DEF IsInstruction
  <1>13. TakesFirst(WithOperands(b[e], call.args), call)
    BY <1>8, <1>11, <1>12, FormalFirst
  <1>14. IsPassing(b, e)
    <2>1. \A k \in ToSet(outputs) : k \in 1 .. n
      BY <1>1, <1>3, <1>11, <1>12 DEF OutputsExist
    <2>2. /\ outputs = ParamsOfType(call, "output")
          /\ \A k \in DOMAIN outputs : Marked(b, e, b[e].args[outputs[k]])
      BY <1>3, <1>8, <1>11
    <2>3. IsMarked(b, e)
      BY <1>8, <1>11, <1>12, <2>1, <2>2, NewWrapperMarks
    <2>4. HasOperands(b[e])
      BY <1>3, <1>8, FormalHasOperands
    <2>5. \A k \in 1 .. Len(b) : HasOperands(b[k])
      BY <1>8, <2>4 DEF IsFrame
    <2> QED
      BY <2>3, <2>5 DEF IsPassing
  <1>15. Runs(fs)
    BY <1>4 DEF RunInv, MakesCallsOf
  <1>16. Len(b) \in Nat /\ ~IsWrapperCall(call)
    <2>1. Len(fs) + 1 \in DOMAIN gs /\ gs[Len(fs) + 1].body = b
      <3>1. Len(fs) \in Nat
        BY <1>15, RunsIs
      <3> QED
        BY <1>5, <3>1 DEF HasWrapped
    <2> QED
      BY <1>3, <1>5, <2>1, ModuleIs DEF IsWrapperCall, Reserved
  <1>17. ASSUME NEW f \in DOMAIN gs, ~IsWrapper(gs[f].name), NEW k \in DOMAIN gs[f].body
         PROVE  StandsTagged(gs, gs[f].body, k)
    <2>1. f \in DOMAIN fs
      BY <1>5, <1>9, <1>15, <1>17, WrappedHas
    <2>2. gs[f].name = fs[f].name /\ DOMAIN gs[f].body = DOMAIN fs[f].body
      BY <1>5, <2>1 DEF HasWrapped
    <2>3. k \in DOMAIN fs[f].body /\ k \in 1 .. Len(fs[f].body) /\ Len(fs[f].body) \in Nat
      <3>1. IsModule(fs)
        BY <1>15, RunsIs
      <3> QED
        BY <1>17, <2>1, <2>2, <3>1, ModuleIs
    <2>4. k < TaggedTo(f)
      BY <1>1, <1>4, <2>3 DEF TaggedTo
    <2>5. StandsTagged(fs, fs[f].body, k)
      BY <1>1, <1>4, <1>17, <2>1, <2>2, <2>3, <2>4 DEF SeenInv, TagsInv
    <2>6. CASE f = a /\ k = c
      <3>1. StandsTagged(fs, fs[a].body, c) /\ call = fs[a].body[c]
        BY <1>3, <1>4, <2>5, <2>6
      <3>2. StandsTagged(gs, gs[a].body, c)
        BY <1>5, <1>6, <1>10, <1>13, <1>15, <1>16, <3>1, NewCallStands
      <3> QED
        BY <2>6, <3>2
    <2>7. CASE ~(f = a /\ k = c)
      BY <1>5, <1>10, <1>15, <2>1, <2>3, <2>5, <2>7, OldCallStands
    <2> QED
      BY <2>6, <2>7
  <1>18. ASSUME NEW f \in DOMAIN gs, IsWrapper(gs[f].name), NEW d, Forwards(gs[f].body, d)
         PROVE  IsPassing(gs[f].body, d)
    <2>1. CASE f \in DOMAIN fs
      <3>1. gs[f].name = fs[f].name /\ f # a
        BY <1>3, <1>4, <1>5, <1>18, <2>1 DEF HasWrapped
      <3>2. gs[f] = fs[f]
        BY <1>5, <2>1, <3>1 DEF HasWrapped
      <3> QED
        BY <1>1, <1>4, <1>18, <2>1, <3>2 DEF SeenInv, MarksInv
    <2>2. CASE f \notin DOMAIN fs
      <3>1. gs[f].body = b
        BY <1>3, <1>4, <1>5, <1>15, <2>2, WrappedHas
      <3>2. d = e
        BY <1>8, <1>16, <1>18, <3>1, ForwardsOne
      <3> QED
        BY <1>14, <3>1, <3>2
    <2> QED
      BY <2>1, <2>2
  <1>19. TagsInv'
    BY <1>4, <1>17 DEF TagsInv
  <1>20. MarksInv'
    BY <1>4, <1>18 DEF MarksInv
  <1> QED
    BY <1>19, <1>20 DEF SeenInv

\* The other steps are of passes that give the analysis nothing.
LEMMA OthersKeepSeen ==
    ASSUME PassesInv, \/ Start \/ PrintSourcesAndSinks \/ AddMetadata_Skip \/ ConditionalUpdate
                      \/ WrapCrashes \/ RemoveSources \/ NoDependencyMap
                      \/ OutputDependencyMap \/ LoadConfiguration \/ AddLogging
    PROVE  SeenInv'
  <1>1. pass' \notin {"add_sources", "wrap_sinks", "tags"}
    BY DEF Start, PrintSourcesAndSinks, AddMetadata_Skip, ConditionalUpdate, WrapCrashes,
           RemoveSources, NoDependencyMap, OutputDependencyMap, LoadConfiguration, AddLogging,
           Visiting
  <1> QED
    BY <1>1, SeenElsewhere

\* In every state every source call of the program that AddSources has visited
\* has its tags in front of it, be it in a wrapper meanwhile, and every wrapper
\* marks what it sends out.
THEOREM SeenInvariant == Spec => []SeenInv
  <1>1. Init => SeenInv
    BY DEF Init, SeenInv, TagsInv, MarksInv
  <1>2. PassesInv /\ CallsInv /\ MapInv /\ RunInv(FALSE) /\ SeenInv /\ [Next]_vars => SeenInv'
    <2> SUFFICES ASSUME PassesInv, CallsInv, MapInv, RunInv(FALSE), SeenInv, [Next]_vars
                 PROVE  SeenInv'
      OBVIOUS
    <2> QED
      BY OthersKeepSeen, LoadInputFileKeepsSeen, AddSourcesKeepsSeen, WrapSinksVisitKeepsSeen,
         WrapCallKeepsSeen, TagsKeepSeen, EndOfFunctionKeepsSeen, StutterKeepsSeen, Zenon DEF Next
  <1> QED
    BY <1>1, <1>2, PassesInvariant, CallsInvariant, MapInvariant, CodeInvariant, PTL DEF Spec

-----------------------------------------------------------------------------
(* The analysis sees the tags: what a run shows of it                      *)

\* All that the call at place k of a run sends out is marked right before it.
OutputsMarked(r, k) ==
    \A q \in ToSet(ParamsOfType(r[k], "output")) :
      q # 0 /\ \E j \in 1 .. k - 1 : /\ r[j] = SetModified(r[k].args[q])
                                     /\ \A l \in j .. k - 1 : r[l].src = 0

\* What a wrapper does with the operands it is given has as many as its own.
LEMMA PassedOperands ==
    ASSUME NEW x, IsRecord(x), HasOperands(x), Len(x.args) \in Nat, NEW operands,
           NEW v, v = WithOperands(x, operands)
    PROVE  /\ v.meta = x.meta /\ v.src = x.src /\ Len(v.args) = Len(x.args)
           /\ \A q \in 1 .. Len(x.args) : \A k :
                x.args[q] = <<"param", k>> => v.args[q] = operands[k]
  <1> PICK n, args, as : n = Len(x.args) /\ args = x.args /\ as = v.args
    OBVIOUS
  <1>1. v.meta = x.meta /\ v.src = x.src /\ as = OperandsFor(x, operands)
    BY WithOperandsIs
  <1>2. args = [k \in 1 .. n |-> args[k]] /\ n \in Nat
    BY DEF HasOperands
  <1>3. as = [k \in DOMAIN args |->
                IF args[k][1] = "param" THEN operands[args[k][2]] ELSE args[k]]
    BY <1>1 DEF OperandsFor
  <1>4. DOMAIN args = 1 .. n
    BY <1>2
  <1>5. as = [k \in 1 .. n |->
                IF args[k][1] = "param" THEN operands[args[k][2]] ELSE args[k]]
    BY <1>3, <1>4
  <1>6. Len(as) = n
    BY <1>2, <1>5
  <1>7. ASSUME NEW q \in 1 .. n, NEW k, args[q] = <<"param", k>> PROVE as[q] = operands[k]
    <2>1. args[q][1] = "param" /\ args[q][2] = k
      BY <1>7
    <2> QED
      BY <1>5, <2>1
  <1> QED
    BY <1>1, <1>6, <1>7

\* A mark that is passed on marks the operand.
LEMMA MarkPassed ==
    ASSUME NEW q, NEW operands
    PROVE  WithOperands(SetModified(<<"param", q>>), operands) = SetModified(operands[q])
  <1>1. PICK x, v, y, e : /\ x = SetModified(<<"param", q>>) /\ v = WithOperands(x, operands)
                          /\ e = operands[q] /\ y = SetModified(e)
    OBVIOUS
  <1>2. /\ x.op = "call" /\ x.fn = "sea_dsa_set_modified" /\ x.args = <<<<"param", q>>>>
        /\ x.meta = {} /\ x.tags = {} /\ x.addr = 0 /\ x.src = 0 /\ IsRecord(x)
    BY <1>1, SetModifiedIs
  <1>3. /\ y.op = "call" /\ y.fn = "sea_dsa_set_modified" /\ y.args = <<e>>
        /\ y.meta = {} /\ y.tags = {} /\ y.addr = 0 /\ y.src = 0 /\ IsRecord(y)
    BY <1>1, SetModifiedIs
  <1>4. /\ IsRecord(v) /\ v.args = OperandsFor(x, operands) /\ v.op = x.op /\ v.fn = x.fn
        /\ v.meta = x.meta /\ v.tags = x.tags /\ v.addr = x.addr /\ v.src = x.src
    BY <1>1, <1>2, WithOperandsIs
  <1>5. OperandsFor(x, operands) = <<e>>
    <2>1. PICK args : args = x.args
      OBVIOUS
    <2>2. DOMAIN args = {1} /\ args[1][1] = "param" /\ args[1][2] = q
      BY <1>2, <2>1
    <2>3. OperandsFor(x, operands) =
            [k \in DOMAIN args |-> IF args[k][1] = "param" THEN operands[args[k][2]] ELSE args[k]]
      BY <2>1 DEF OperandsFor
    <2>4. OperandsFor(x, operands) = [k \in {1} |-> e]
      BY <1>1, <2>2, <2>3
    <2>5. 1 .. 1 = {1}
      OBVIOUS
    <2>6. <<e>> = [k \in 1 .. 1 |-> e]
      OBVIOUS
    <2> QED
      BY <2>4, <2>5, <2>6
  <1>6. v = y
    BY <1>2, <1>3, <1>4, <1>5 DEF IsRecord
  <1> QED
    BY <1>1, <1>6

\* Place j of what a wrapper does: nothing that has parameters, or the call.
IsOfCall(s, j, x, operands) ==
    \/ s[j].meta = {} /\ Len(s[j].args) \in Nat
    \/ s[j] = WithOperands(x, operands)

\* What can be in a wrapper.
IsPart(i) == IsRecord(i) /\ Len(i.args) \in Nat /\ (i.meta # {} => i.src # 0)

\* The part of a wrapper that is reached has all that is in front of the call.
LEMMA ReachedBefore ==
    ASSUME NEW b, NEW n \in Nat, n = Len(b), DOMAIN b = 1 .. n, NEW c, Forwards(b, c),
           NEW j \in 1 .. c - 1, b[j].op = "call"
    PROVE  j \in Reached(b) /\ j \in 1 .. n
  <1>1. c \in 1 .. n /\ \A k \in 1 .. c : b[k].op # "ret"
    BY DEF Forwards
  <1>2. j \in 1 .. n /\ \A k \in 1 .. j : k \in 1 .. c
    BY <1>1
  <1> QED
    BY <1>1, <1>2 DEF Reached

\* What is chosen later is later.
LEMMA ChosenEarlier ==
    ASSUME NEW to, NEW m \in Nat, NEW n \in Nat, InOrder(to, m, n), NEW k \in 1 .. m,
           NEW l \in 1 .. m, to[k] < to[l]
    PROVE  k < l
  <1>1. to[k] \in Nat /\ to[l] \in Nat /\ (l < k => to[l] < to[k])
    BY DEF InOrder
  <1>2. k # l /\ ~(l < k)
    BY <1>1
  <1> QED
    BY <1>2

\* What a wrapper does marks all that its call sends out right before the call.
LEMMA InlineSees ==
    ASSUME NEW S, NEW b \in Seq(S), \A i \in S : IsPart(i), NEW c, Forwards(b, c),
           IsPassing(b, c), NEW operands, NEW s, s = Inline(b, operands)
    PROVE  /\ \E T : s \in Seq(T)
           /\ \A j \in 1 .. Len(s) : IsOfCall(s, j, b[c], operands) /\ OutputsMarked(s, j)
  <1>1. PICK P, r, n : P = Reached(b) /\ r = AtPositions(b, P) /\ n = Len(b)
    OBVIOUS
  <1>2. PICK to : Chosen(to, r, b, P) /\ r \in Seq(S)
    BY <1>1, AtPositionsChooses
  <1>3. PICK m, x : m = Len(r) /\ x = b[c]
    OBVIOUS
  <1>4. /\ n \in Nat /\ DOMAIN b = 1 .. n /\ m \in Nat
        /\ \A l \in 1 .. n : b[l] \in S
        /\ InOrder(to, m, n)
        /\ \A k \in 1 .. m : to[k] \in 1 .. n /\ to[k] \in P /\ r[k] = b[to[k]]
        /\ \A l \in 1 .. n : l \in P => \E k \in 1 .. m : l = to[k]
    BY <1>1, <1>2, <1>3 DEF Chosen, InOrder
  <1>5. s = [k \in 1 .. m |-> WithOperands(r[k], operands)] /\ Len(s) = m
    BY <1>1, <1>2, <1>3, <1>4 DEF Inline
  <1>6. /\ c \in 1 .. n /\ \A k \in 1 .. n : k # c => b[k].src = 0
        /\ \A k \in 1 .. n : IsPart(b[k]) /\ HasOperands(b[k])
    BY <1>1, <1>4 DEF Forwards, IsExtra, IsPassing
  <1>7. ASSUME NEW k \in 1 .. m, NEW l, l = to[k]
        PROVE  /\ l \in 1 .. n /\ l \in P /\ s[k] = WithOperands(b[l], operands)
               /\ s[k].meta = b[l].meta /\ s[k].src = b[l].src
               /\ Len(s[k].args) = Len(b[l].args) /\ Len(b[l].args) \in Nat
               /\ l # c => s[k].meta = {}
    <2>1. l \in 1 .. n /\ l \in P /\ s[k] = WithOperands(b[l], operands)
      BY <1>4, <1>5, <1>7
    <2>2. PICK i, j : i = b[l] /\ j = s[k]
      OBVIOUS
    <2>3. IsRecord(i) /\ HasOperands(i) /\ Len(i.args) \in Nat /\ (i.meta # {} => i.src # 0)
          /\ j = WithOperands(i, operands)
      BY <1>6, <2>1, <2>2 DEF IsPart
    <2>4. j.meta = i.meta /\ j.src = i.src /\ Len(j.args) = Len(i.args)
      BY <2>3, PassedOperands
    <2>5. l # c => i.src = 0
      BY <1>6, <2>1, <2>2
    <2> QED
      BY <2>1, <2>2, <2>3, <2>4, <2>5
  <1>8. ASSUME NEW k \in 1 .. m PROVE IsOfCall(s, k, x, operands)
    <2>1. PICK l : l = to[k]
      OBVIOUS
    <2>2. l # c => s[k].meta = {} /\ Len(s[k].args) \in Nat
      BY <1>7, <2>1
    <2>3. l = c => s[k] = WithOperands(x, operands)
      BY <1>3, <1>7, <2>1
    <2> QED
      BY <2>2, <2>3 DEF IsOfCall
  <1>9. ASSUME NEW k \in 1 .. m PROVE OutputsMarked(s, k)
    <2>1. PICK l : l = to[k]
      OBVIOUS
    <2>2. CASE l # c
      <3>1. s[k].meta = {} /\ Len(s[k].args) \in Nat
        BY <1>7, <2>1, <2>2
      <3>2. ToSet(ParamsOfType(s[k], "output")) = {}
        BY <3>1, NoParams
      <3> QED
        BY <3>2 DEF OutputsMarked
    <2>3. CASE l = c
      <3>1. PICK v, d : v = s[k] /\ d = Len(x.args)
        OBVIOUS
      <3>2. /\ v = WithOperands(x, operands) /\ v.meta = x.meta
            /\ Len(v.args) = d /\ d \in Nat /\ IsRecord(x) /\ HasOperands(x)
        <4>1. IsPart(x) /\ HasOperands(x)
          BY <1>3, <1>6
        <4>2. v = WithOperands(x, operands) /\ v.meta = x.meta /\ Len(v.args) = d
          <5>1. /\ s[k] = WithOperands(b[l], operands) /\ s[k].meta = b[l].meta
                /\ Len(s[k].args) = Len(b[l].args)
            BY <1>7, <2>1
          <5>2. b[l] = x /\ v = s[k] /\ Len(x.args) = d
            BY <1>3, <2>3, <3>1
          <5> QED
            BY <5>1, <5>2
        <4> QED
          BY <3>1, <4>1, <4>2 DEF IsPart
      <3>3. ASSUME NEW q \in ToSet(ParamsOfType(v, "output"))
            PROVE  q # 0 /\ \E j \in 1 .. k - 1 : /\ s[j] = SetModified(v.args[q])
                                                  /\ \A h \in j .. k - 1 : s[h].src = 0
        <4>1. q \in 0 .. d /\ q \in ToSet(ParamsOfType(x, "output"))
          BY <3>1, <3>2, FirstLabelled
        <4>2. q # 0 /\ x.args[q] = <<"param", q>> /\ Marked(b, c, <<"param", q>>)
          BY <1>3, <4>1 DEF IsPassing, IsMarked
        <4>3. v.args[q] = operands[q]
          <5>1. q \in 1 .. d
            BY <3>2, <4>1, <4>2
          <5> QED
            BY <3>1, <3>2, <4>2, <5>1, PassedOperands
        <4>4. PICK g \in 1 .. c - 1 : b[g] = SetModified(<<"param", q>>)
          BY <4>2 DEF Marked
        <4>5. g \in P /\ g \in 1 .. n
          <5>1. b[g].op = "call"
            BY <4>4, SetModifiedIs
          <5> QED
            BY <1>1, <1>4, <5>1, ReachedBefore
        <4>6. PICK j \in 1 .. m : g = to[j]
          BY <1>4, <4>5
        <4>7. j < k
          <5>1. to[j] < to[k]
            BY <1>6, <2>1, <2>3, <4>4, <4>6
          <5> QED
            BY <1>4, <4>6, <5>1, ChosenEarlier
        <4>8. s[j] = SetModified(v.args[q])
          <5>1. s[j] = WithOperands(SetModified(<<"param", q>>), operands)
            BY <1>7, <4>4, <4>6
          <5> QED
            BY <4>3, <5>1, MarkPassed
        <4>9. ASSUME NEW h \in j .. k - 1 PROVE s[h].src = 0
          <5>1. h \in 1 .. m /\ h < k
            BY <1>4, <4>6, <4>7
          <5>2. to[h] < to[k] /\ to[h] \in 1 .. n /\ to[k] = c
            BY <1>4, <2>1, <2>3, <5>1 DEF InOrder
          <5>3. to[h] # c
            BY <1>6, <5>2
          <5> QED
            BY <1>6, <1>7, <5>1, <5>2, <5>3
        <4>10. j \in 1 .. k - 1
          BY <1>4, <4>6, <4>7
        <4> QED
          BY <4>2, <4>8, <4>9, <4>10
      <3> QED
        BY <3>1, <3>3 DEF OutputsMarked
    <2> QED
      BY <2>2, <2>3
  <1>10. s \in Seq(ToSet(s))
    BY <1>4, <1>5 DEF ToSet
  <1> QED
    BY <1>3, <1>5, <1>8, <1>9, <1>10

\* A mark and its tag are next to each other in a run as they are in the body.
LEMMA TagInRun ==
    ASSUME NEW n \in Nat, NEW ss, NEW r, NEW off, NEW b, Places(off, r, ss, n),
           \A p \in 1 .. n : Len(ss[p]) \in Nat,
           \A p \in 1 .. n :
             b[p].fn \in {"add_tag", "sea_dsa_set_modified"} => IsAlone(ss, b, p),
           NEW k \in 1 .. n, NEW j \in 1 .. Len(ss[k]), NEW h, h = off[k] + j,
           NEW operand, NEW ids, HasTag(b, k, operand, ids)
    PROVE  HasTag(r, h, operand, ids)
  <1>1. PICK l \in 2 .. k - 1 : IsTagOf(b[l], operand, ids) /\ b[l - 1] = SetModified(operand)
    BY DEF HasTag
  <1>2. PICK q : q = l - 1
    OBVIOUS
  <1>3. q \in 1 .. n /\ l \in 1 .. n /\ q \in 1 .. n - 1 /\ l = q + 1 /\ l < k
    BY <1>1, <1>2
  <1>4. b[l].fn = "add_tag" /\ b[q] = SetModified(operand) /\ b[q].fn = "sea_dsa_set_modified"
    BY <1>1, <1>2, SetModifiedIs DEF IsTagOf
  <1>5. Len(ss[l]) = 1 /\ ss[l][1] = b[l] /\ Len(ss[q]) = 1 /\ ss[q][1] = b[q]
    BY <1>3, <1>4 DEF IsAlone
  <1>6. /\ off[q] \in Nat /\ off[l] \in Nat /\ off[k] \in Nat
        /\ off[q + 1] = off[q] + Len(ss[q]) /\ off[l] + Len(ss[l]) <= off[k]
        /\ \A e \in 1 .. Len(ss[q]) : r[off[q] + e] = ss[q][e]
        /\ \A e \in 1 .. Len(ss[l]) : r[off[l] + e] = ss[l][e]
    BY <1>3 DEF Places
  <1>7. PICK o, u, w : o = off[q] /\ u = off[l] /\ w = off[k]
    OBVIOUS
  <1>8. r[o + 1] = b[q] /\ r[u + 1] = b[l]
    BY <1>5, <1>6, <1>7
  <1>9. o \in Nat /\ u \in Nat /\ w \in Nat /\ u = o + 1 /\ u + 1 <= w
    BY <1>3, <1>5, <1>6, <1>7
  <1>10. j \in Nat /\ j >= 1 /\ h = w + j
    BY <1>7
  <1>11. PICK e : e = u + 1
    OBVIOUS
  <1>12. e \in 2 .. h - 1 /\ e - 1 = o + 1
    BY <1>9, <1>10, <1>11
  <1>13. r[e] = b[l] /\ r[e - 1] = b[q]
    BY <1>8, <1>11, <1>12
  <1> QED
    BY <1>1, <1>4, <1>12, <1>13 DEF HasTag

LEMMA MarkInRun ==
    ASSUME NEW n \in Nat, NEW ss, NEW r, NEW off, Places(off, r, ss, n),
           \A p \in 1 .. n : Len(ss[p]) \in Nat,
           NEW k \in 1 .. n, NEW j \in 1 .. Len(ss[k]), NEW h, h = off[k] + j,
           OutputsMarked(ss[k], j)
    PROVE  OutputsMarked(r, h)
  <1>1. PICK s, o, t : s = ss[k] /\ o = off[k] /\ t = Len(s)
    OBVIOUS
  <1>2. /\ o \in Nat /\ t \in Nat /\ h = o + j /\ j \in 1 .. t
        /\ \A e \in 1 .. t : r[o + e] = s[e]
    BY <1>1 DEF Places
  <1>3. r[h] = s[j]
    BY <1>2
  <1>4. ASSUME NEW q \in ToSet(ParamsOfType(r[h], "output"))
        PROVE  q # 0 /\ \E e \in 1 .. h - 1 : /\ r[e] = SetModified(r[h].args[q])
                                              /\ \A l \in e .. h - 1 : r[l].src = 0
    <2>1. q # 0 /\ \E e \in 1 .. j - 1 : /\ s[e] = SetModified(r[h].args[q])
                                         /\ \A l \in e .. j - 1 : s[l].src = 0
      BY <1>1, <1>3, <1>4 DEF OutputsMarked
    <2>2. PICK e \in 1 .. j - 1 : /\ s[e] = SetModified(r[h].args[q])
                                  /\ \A l \in e .. j - 1 : s[l].src = 0
      BY <2>1
    <2>3. PICK g : g = o + e
      OBVIOUS
    <2>4. g \in 1 .. h - 1 /\ e \in 1 .. t
      BY <1>2, <2>3
    <2>5. r[g] = SetModified(r[h].args[q])
      BY <1>2, <2>2, <2>3, <2>4
    <2>6. ASSUME NEW l \in g .. h - 1 PROVE r[l].src = 0
      <3>1. PICK d : d = l - o
        OBVIOUS
      <3>2. d \in e .. j - 1 /\ d \in 1 .. t /\ l = o + d
        BY <1>2, <2>3, <2>4, <2>6, <3>1
      <3>3. r[l] = s[d] /\ s[d].src = 0
        BY <1>2, <2>2, <3>2
      <3> QED
        BY <3>3
    <2> QED
      BY <2>1, <2>4, <2>5, <2>6
  <1> QED
    BY <1>4 DEF OutputsMarked

\* What instruction p of b stands for, for the analysis.
IsSeen(s, b, p) ==
    \A j \in 1 .. Len(s) : OutputsMarked(s, j) /\ InputsTagged(b, p, s[j])

\* A run has it all, if the parts have.
LEMMA FlattenSees ==
    ASSUME NEW n \in Nat, NEW ss, NEW r, NEW off, NEW b, Places(off, r, ss, n),
           \A p \in 1 .. n : Len(ss[p]) \in Nat,
           \A p \in 1 .. n :
             b[p].fn \in {"add_tag", "sea_dsa_set_modified"} => IsAlone(ss, b, p),
           \A p \in 1 .. n : IsSeen(ss[p], b, p), NEW h \in 1 .. Len(r)
    PROVE  InputsTagged(r, h, r[h]) /\ OutputsMarked(r, h)
  <1>1. PICK k \in 1 .. n : \E j \in 1 .. Len(ss[k]) : h = off[k] + j
    BY DEF Places
  <1>2. PICK j \in 1 .. Len(ss[k]) : h = off[k] + j
    BY <1>1
  <1>3. r[h] = ss[k][j]
    BY <1>2 DEF Places
  <1>4. OutputsMarked(ss[k], j) /\ InputsTagged(b, k, r[h])
    BY <1>3 DEF IsSeen
  <1>5. OutputsMarked(r, h)
    BY <1>2, <1>4, MarkInRun
  <1>6. ASSUME NEW q \in ToSet(ParamsOfType(r[h], "input")), q # 0, r[h].args[q] # <<"null">>
        PROVE  HasTag(r, h, r[h].args[q], CallSiteIds(r[h]))
    <2>1. PICK operand, ids : operand = r[h].args[q] /\ ids = CallSiteIds(r[h])
      OBVIOUS
    <2>2. HasTag(b, k, operand, ids)
      BY <1>4, <1>6, <2>1 DEF InputsTagged
    <2>3. HasTag(r, h, operand, ids)
      BY <1>2, <2>2, TagInRun
    <2> QED
      BY <2>1, <2>3
  <1> QED
    BY <1>5, <1>6 DEF InputsTagged

\* So has each part.
LEMMA DoesSee ==
    ASSUME NEW fs, Runs(fs), \A i \in InstructionsOf(fs) : IsPart(i),
           \A g \in DOMAIN fs : IsWrapper(fs[g].name) =>
             \A c : Forwards(fs[g].body, c) => IsPassing(fs[g].body, c),
           NEW b, NEW p, NEW i, i = b[p], i \in InstructionsOf(fs), ~IsSink(i),
           i.meta # {} => IsDirectCall(i), StandsTagged(fs, b, p), NEW s, s = Does(fs, i)
    PROVE  /\ \E T : s \in Seq(T)
           /\ ~IsWrapperCall(i) => s = <<i>>
           /\ IsSeen(s, b, p)
  <1>1. CASE ~IsWrapperCall(i)
    <2>1. s = <<i>>
      BY <1>1 DEF Does
    <2>2. s \in Seq({i}) /\ Len(s) = 1 /\ s[1] = i
      BY <2>1
    <2>3. InputsTagged(b, p, i)
      BY <1>1 DEF StandsTagged
    <2>4. ToSet(ParamsOfType(i, "output")) = {}
      <3>1. \A q : ~IsLabelled(i, q, "output")
        BY DEF IsLabelled, IsSink, HasParamOfType
      <3>2. Len(i.args) \in Nat
        BY DEF IsPart
      <3> QED
        BY <3>1, <3>2, ParamsAre
    <2>5. OutputsMarked(s, 1)
      BY <2>2, <2>4 DEF OutputsMarked
    <2>6. IsSeen(s, b, p)
      BY <2>2, <2>3, <2>5 DEF IsSeen
    <2> QED
      BY <2>1, <2>2, <2>6
  <1>2. CASE IsWrapperCall(i)
    <2>1. PICK g \in DOMAIN fs : fs[g].name = i.fn
      BY <1>2, RunsIs
    <2>2. s = Inline(fs[g].body, i.args) /\ IsWrapper(fs[g].name)
      BY <1>2, <2>1, DoesInline
    <2>3. PICK c : Forwards(fs[g].body, c)
      BY <2>1, <2>2, RunsIs
    <2>4. PICK w, S, args : w = fs[g].body /\ S = InstructionsOf(fs) /\ args = i.args
      OBVIOUS
    <2>5. w \in Seq(S) /\ Forwards(w, c) /\ IsPassing(w, c) /\ s = Inline(w, args)
      BY <2>1, <2>2, <2>3, <2>4, RunsIs
    <2>6. \A x \in S : IsPart(x)
      BY <2>4
    <2>7. /\ \E T : s \in Seq(T)
          /\ \A j \in 1 .. Len(s) : IsOfCall(s, j, w[c], args) /\ OutputsMarked(s, j)
      BY <2>5, <2>6, InlineSees
    <2>8. InputsTagged(b, p, WithOperands(w[c], args))
      BY <1>2, <2>1, <2>3, <2>4 DEF StandsTagged
    <2>9. ASSUME NEW j \in 1 .. Len(s) PROVE InputsTagged(b, p, s[j])
      <3>1. CASE s[j].meta = {} /\ Len(s[j].args) \in Nat
        <4>1. ToSet(ParamsOfType(s[j], "input")) = {}
          BY <3>1, NoParams
        <4> QED
          BY <4>1 DEF InputsTagged
      <3>2. CASE s[j] = WithOperands(w[c], args)
        BY <2>8, <3>2
      <3> QED
        BY <2>7, <3>1, <3>2 DEF IsOfCall
    <2> QED
      BY <1>2, <2>7, <2>9 DEF IsSeen
  <1> QED
    BY <1>1, <1>2

\* And so has the run of a function without sinks.
LEMMA RunSees ==
    ASSUME NEW fs, Runs(fs), \A i \in InstructionsOf(fs) : IsPart(i),
           \A i \in InstructionsOf(fs) : i.meta # {} => IsDirectCall(i),
           \A g \in DOMAIN fs : IsWrapper(fs[g].name) =>
             \A c : Forwards(fs[g].body, c) => IsPassing(fs[g].body, c),
           NEW f \in DOMAIN fs, \A k \in DOMAIN fs[f].body : ~IsSink(fs[f].body[k]),
           \A k \in DOMAIN fs[f].body : StandsTagged(fs, fs[f].body, k)
    PROVE  \A k \in DOMAIN Run(fs, f) :
             InputsTagged(Run(fs, f), k, Run(fs, f)[k]) /\ OutputsMarked(Run(fs, f), k)
  <1>1. PICK b, n, ss :
        b = fs[f].body /\ n = Len(b) /\ ss = [k \in DOMAIN b |-> Does(fs, b[k])]
    OBVIOUS
  <1>2. /\ n \in Nat /\ DOMAIN b = 1 .. n
        /\ \A k \in 1 .. n : b[k] \in InstructionsOf(fs)
    BY <1>1, RunsIs, ModuleIs
  <1>3. ASSUME NEW k \in 1 .. n
        PROVE  /\ \E T : ss[k] \in Seq(T)
               /\ ~IsWrapperCall(b[k]) => ss[k] = <<b[k]>>
               /\ IsSeen(ss[k], b, k)
    <2>1. ss[k] = Does(fs, b[k])
      BY <1>1, <1>2
    <2>2. PICK i, s : i = b[k] /\ s = ss[k]
      OBVIOUS
    <2>3. /\ i \in InstructionsOf(fs) /\ s = Does(fs, i) /\ ~IsSink(i)
          /\ i.meta # {} => IsDirectCall(i)
          /\ StandsTagged(fs, b, k)
      BY <1>1, <1>2, <2>1, <2>2
    <2>4. /\ \E T : s \in Seq(T)
          /\ ~IsWrapperCall(i) => s = <<i>>
          /\ IsSeen(s, b, k)
      BY <2>2, <2>3, DoesSee
    <2> QED
      BY <2>2, <2>4
  <1>4. IsSeqOfSeqs(ss, n)
    BY <1>1, <1>2, <1>3 DEF IsSeqOfSeqs
  <1>5. PICK S : ss \in Seq(Seq(S))
    BY <1>2, <1>4, SequencesOf
  <1>6. PICK r : r = FlattenSeq(ss)
    OBVIOUS
  <1>7. r \in Seq(S)
    BY <1>5, <1>6, FlattenType
  <1>8. DOMAIN r = 1 .. Len(r)
    BY <1>7
  <1>9. Len(ss) = n /\ \A k \in 1 .. n : Len(ss[k]) \in Nat
    BY <1>1, <1>2, <1>5
  <1>10. PICK off : Places(off, r, ss, n)
    BY <1>5, <1>6, <1>9, FlattenPlaces
  <1>11. ASSUME NEW k \in 1 .. n, b[k].fn \in {"add_tag", "sea_dsa_set_modified"}
         PROVE  IsAlone(ss, b, k)
    <2>1. b[k].fn \in OwnFunctions
      BY <1>11 DEF OwnFunctions
    <2>2. ~IsWrapperCall(b[k])
      BY <2>1, WrappersAreReserved DEF IsWrapperCall
    <2>3. ss[k] = <<b[k]>>
      BY <1>3, <2>2
    <2> QED
      BY <2>3 DEF IsAlone
  <1>12. \A k \in 1 .. n : IsSeen(ss[k], b, k)
    BY <1>3
  <1>13. \A h \in 1 .. Len(r) : InputsTagged(r, h, r[h]) /\ OutputsMarked(r, h)
    BY <1>2, <1>9, <1>10, <1>11, <1>12, FlattenSees
  <1>14. Run(fs, f) = r
    BY <1>1, <1>6 DEF Run
  <1> QED
    BY <1>8, <1>13, <1>14

\* In every state in which the tag analysis is given the module, with every call
\* of a source that the run of a function of the program makes comes, before it,
\* a mark and then its tag for each argument that it fills, whatever was wrapped
\* in between; and right before a sink, with nothing of the program in between,
\* each argument that it sends out is marked.
THEOREM TagsAreSeen == Spec => []AnalysisSeesTags
  <1>1. PassesInv /\ CallsInv /\ RunInv(FALSE) /\ SeenInv => AnalysisSeesTags
    <2> SUFFICES ASSUME PassesInv, CallsInv, RunInv(FALSE), SeenInv, pass = "tags",
                        NEW f \in Program, NEW run, run = Run(functions, f), NEW k \in DOMAIN run
                 PROVE  /\ \A p \in ToSet(ParamsOfType(run[k], "input")) :
                             p # 0 /\ Operand(run[k], p) # <<"null">> =>
                               \E j \in 2 .. k - 1 :
                                 /\ run[j].fn = "add_tag"
                                 /\ run[j].args[1] = Operand(run[k], p)
                                 /\ \A id \in CallSiteIds(run[k]) : run[j].args[2] = <<"tag", id>>
                                 /\ run[j - 1] = SetModified(Operand(run[k], p))
                        /\ \A p \in ToSet(ParamsOfType(run[k], "output")) :
                             \E j \in 1 .. k - 1 :
                               /\ run[j] = SetModified(Operand(run[k], p))
                               /\ \A l \in j .. k - 1 : run[l].src = 0
      BY DEF AnalysisSeesTags
    <2>1. PICK fs : fs = functions
      OBVIOUS
    <2>2. Runs(fs) /\ IsModule(fs)
      BY <2>1 DEF RunInv, MakesCallsOf, Runs
    <2>3. \A i \in InstructionsOf(fs) : IsPart(i) /\ (i.meta # {} => IsDirectCall(i))
      <3>1. \A i \in InstructionsOf(fs) : IsInstruction(i)
        BY <2>1 DEF PassesInv, ModuleInv
      <3>2. \A i \in InstructionsOf(fs) : IsSiteOnce(i)
        BY <2>1 DEF CallsInv, NumbersInv
      <3> QED
        BY <3>1, <3>2 DEF IsInstruction, IsSiteOnce, IsPart
    <2>4. \A g \in DOMAIN fs : IsWrapper(fs[g].name) =>
            \A c : Forwards(fs[g].body, c) => IsPassing(fs[g].body, c)
      BY <2>1 DEF SeenInv, MarksInv
    <2>5. f \in DOMAIN fs /\ f \in DOMAIN input
      BY <2>1 DEF PassesInv, ModuleInv, Program
    <2>6. \A l \in DOMAIN fs[f].body : ~IsSink(fs[f].body[l])
      BY <2>1, <2>5 DEF CallsInv, SinksInv, Wrapped
    <2>7. ~IsWrapper(fs[f].name)
      <3>1. DOMAIN input = 1 .. Len(input)
        BY ModuleIs DEF CallsInv, InputInv, Clean
      <3> QED
        BY <2>1, <2>5, <3>1 DEF CallsInv, WrapperInv, HasWrappers, IsWrapper
    <2>8. \A l \in DOMAIN fs[f].body : StandsTagged(fs, fs[f].body, l)
      <3> SUFFICES ASSUME NEW l \in DOMAIN fs[f].body PROVE StandsTagged(fs, fs[f].body, l)
        OBVIOUS
      <3>1. l \in 1 .. Len(fs[f].body) /\ Len(fs[f].body) \in Nat
        BY <2>2, <2>5, ModuleIs
      <3>2. l < TaggedTo(f)
        BY <2>1, <3>1 DEF TaggedTo
      <3> QED
        BY <2>1, <2>5, <2>7, <3>2 DEF SeenInv, TagsInv
    <2>9. InputsTagged(run, k, run[k]) /\ OutputsMarked(run, k)
      BY <2>1, <2>2, <2>3, <2>4, <2>5, <2>6, <2>8, RunSees
    <2>10. ASSUME NEW p \in ToSet(ParamsOfType(run[k], "input")), p # 0,
                  Operand(run[k], p) # <<"null">>
           PROVE  \E j \in 2 .. k - 1 :
                    /\ run[j].fn = "add_tag"
                    /\ run[j].args[1] = Operand(run[k], p)
                    /\ \A id \in CallSiteIds(run[k]) : run[j].args[2] = <<"tag", id>>
                    /\ run[j - 1] = SetModified(Operand(run[k], p))
      <3>1. Operand(run[k], p) = run[k].args[p]
        BY <2>10 DEF Operand
      <3>2. HasTag(run, k, Operand(run[k], p), CallSiteIds(run[k]))
        BY <2>9, <2>10, <3>1 DEF InputsTagged
      <3> QED
        BY <3>2 DEF HasTag, IsTagOf
    <2>11. ASSUME NEW p \in ToSet(ParamsOfType(run[k], "output"))
           PROVE  \E j \in 1 .. k - 1 : /\ run[j] = SetModified(Operand(run[k], p))
                                        /\ \A l \in j .. k - 1 : run[l].src = 0
      <3>1. p # 0 /\ \E j \in 1 .. k - 1 : /\ run[j] = SetModified(run[k].args[p])
                                           /\ \A l \in j .. k - 1 : run[l].src = 0
        BY <2>9 DEF OutputsMarked
      <3>2. Operand(run[k], p) = run[k].args[p]
        BY <3>1 DEF Operand
      <3> QED
        BY <3>1, <3>2
    <2> QED
      BY <2>10, <2>11
  <1> QED
    BY <1>1, PassesInvariant, CallsInvariant, CodeInvariant, SeenInvariant, PTL

=============================================================================
