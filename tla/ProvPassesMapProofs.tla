------------------------ MODULE ProvPassesMapProofs ------------------------
(***************************************************************************)
(* The dependency map, proved: what is printed of a call is what the       *)
(* analysis answered when it saw that call, for every program and every    *)
(* configuration.  On the way the call moves into a wrapper and the calls  *)
(* around it come and go, so the invariant follows the metadata of calls   *)
(* through the passes, wherever they are.                                  *)
(***************************************************************************)
EXTENDS ProvPassesCallProofs

-----------------------------------------------------------------------------
(* The inductive invariant *)

\* What the map is made of: a call that has metadata, wherever it is.
Mark(i) == [fn |-> i.fn, meta |-> i.meta, tags |-> i.tags, src |-> i.src]
Marks(fs) == {Mark(i) : i \in {j \in InstructionsOf(fs) : j.meta # {}}}

\* m is the mark at a place of the module.
IsMarkAt(m, fs, f, k) ==
    /\ f \in DOMAIN fs /\ k \in DOMAIN fs[f].body
    /\ fs[f].body[k].meta # {} /\ m = Mark(fs[f].body[k])

\* The calls that a pass has visited.
MarksPassed ==
    {m \in Marks(functions) : \E f, k : IsMarkAt(m, functions, f, k) /\ Passed(f, k)}

\* The numbers of sources.
SourceIds(M) == UNION {CallSiteIds(m) : m \in {n \in M : HasParamOfType(n, "input")}}

\* A call has one number, and for tags what the analysis answered, all of them
\* numbers of sources.
IsAnswered(m, ids) ==
    IF Answered(m)
    THEN \E t : /\ m.tags = {t} /\ t \in Seq(Nat)
                /\ ToSet(t) = TagsOf(m) /\ ToSet(t) \subseteq ids
    ELSE m.tags = {}

IsTagged(m, ids) == /\ \E x : m.meta = {x}
                    /\ IsAnswered(m, ids)

\* The analysis answers once for a call.
AnswersInv ==
    /\ pass \in BeforeTags => answers = <<>>
    /\ pass = "tags" =>
         \A f \in DOMAIN functions : \A k \in DOMAIN functions[f].body :
           ~Passed(f, k) /\ functions[f].body[k].meta # {} =>
             functions[f].body[k].src \notin DOMAIN answers

\* The tags that the analysis knows are numbers of sources.
TagSourcesInv ==
    pass \in BeforeTags \cup {"tags"} =>
      \A i \in InstructionsOf(functions) : TagIsIn(i, SourceIds(Marks(functions)))

\* What the map says of these calls.
IdsOf(M) == UNION {CallSiteIds(m) : m \in M}
NodesFor(m) == {[id |-> id, fn |-> m.fn] : id \in CallSiteIds(m)}
EdgesFor(m) == CallSiteIds(m) \X UNION {ToSet(t) : t \in m.tags}
NodesOf(M) == UNION {NodesFor(m) : m \in M}
EdgesOf(M) == UNION {EdgesFor(m) : m \in M}

\* The elements of s are those of S.
Lists(s, S) == s \in Seq(S) /\ ToSet(s) = S

MapIs(map, M) ==
    /\ IsFiniteSet(IdsOf(M)) /\ Len(map.nodes) = Cardinality(IdsOf(M))
    /\ Lists(map.nodes, NodesOf(M))
    /\ Lists(map.edges, EdgesOf(M))

BeforeMap == BeforeTags \cup {"tags", "remove_sources"}
AfterMap == {"configure_logging", "add_logging", "done"}

\* Of these calls, those that this run writes into a map.
WritesMap == MapOpens /\ ~arguments.print_sources_sinks
Written(M) == IF WritesMap THEN M ELSE {}

\* As far as the pass has come, the map is what it should be.
PrintedInv ==
    /\ pass \in BeforeMap => MapIs(dependency_map, {})
    /\ pass = "dependency_map" => MapIs(dependency_map, Written(MarksPassed))
    /\ pass \in AfterMap => MapIs(dependency_map, Written(Marks(functions)))

\* What is written does not change while the arguments do not.
LEMMA WritesMapKept ==
    ASSUME arguments' = arguments
    PROVE  WritesMap' <=> WritesMap
  BY DEF WritesMap, MapOpens

TaggedInv == \A m \in Marks(functions) : IsTagged(m, SourceIds(Marks(functions)))

MapInv ==
    /\ TaggedInv
    /\ AnswersInv
    /\ TagSourcesInv
    /\ PrintedInv

-----------------------------------------------------------------------------
(* Marks *)

\* The marks of a module are those at its places.
LEMMA MarksAre ==
    ASSUME NEW fs, IsModule(fs), NEW m
    PROVE  m \in Marks(fs) <=> \E f, k : IsMarkAt(m, fs, f, k)
  <1>1. ASSUME m \in Marks(fs) PROVE \E f, k : IsMarkAt(m, fs, f, k)
    <2>1. PICK i \in InstructionsOf(fs) : i.meta # {} /\ m = Mark(i)
      BY <1>1 DEF Marks
    <2>2. PICK f \in DOMAIN fs : \E k \in DOMAIN fs[f].body : i = fs[f].body[k]
      BY ModuleIs
    <2>3. PICK k \in DOMAIN fs[f].body : i = fs[f].body[k]
      BY <2>2
    <2> QED
      BY <2>1, <2>3 DEF IsMarkAt
  <1>2. ASSUME NEW f, NEW k, IsMarkAt(m, fs, f, k) PROVE m \in Marks(fs)
    <2>1. f \in DOMAIN fs /\ k \in DOMAIN fs[f].body
      BY <1>2 DEF IsMarkAt
    <2>2. fs[f].body[k] \in InstructionsOf(fs)
      BY <2>1, ModuleIs
    <2> QED
      BY <1>2, <2>2 DEF IsMarkAt, Marks
  <1> QED
    BY <1>1, <1>2

\* A mark has what its instruction has.
LEMMA MarkIs ==
    ASSUME NEW i
    PROVE  /\ Mark(i).fn = i.fn /\ Mark(i).meta = i.meta
           /\ Mark(i).tags = i.tags /\ Mark(i).src = i.src
           /\ CallSiteIds(Mark(i)) = CallSiteIds(i)
           /\ HasParamOfType(i, "input") => HasParamOfType(Mark(i), "input")
  <1>1. /\ Mark(i).fn = i.fn /\ Mark(i).meta = i.meta
        /\ Mark(i).tags = i.tags /\ Mark(i).src = i.src
    BY DEF Mark
  <1> HIDE DEF Mark
  <1> QED
    BY <1>1 DEF CallSiteIds, HasParamOfType

\* Where calls keep their metadata, the sources keep their numbers.
LEMMA SourceIdsGrow ==
    ASSUME NEW M, NEW N, \A m \in M : \E n \in N : n.meta = m.meta
    PROVE  SourceIds(M) \subseteq SourceIds(N)
  <1> SUFFICES ASSUME NEW id \in SourceIds(M) PROVE id \in SourceIds(N)
    OBVIOUS
  <1>1. PICK m \in M : HasParamOfType(m, "input") /\ id \in CallSiteIds(m)
    BY DEF SourceIds
  <1>2. PICK n \in N : n.meta = m.meta
    OBVIOUS
  <1>3. HasParamOfType(n, "input") /\ id \in CallSiteIds(n)
    BY <1>1, <1>2 DEF HasParamOfType, CallSiteIds
  <1> QED
    BY <1>3 DEF SourceIds

\* With more sources, what was a tag still is one.
LEMMA TaggedStays ==
    ASSUME NEW m, NEW ids, NEW more, ids \subseteq more
    PROVE  /\ IsTagged(m, ids) => IsTagged(m, more)
           /\ \A i : TagIsIn(i, ids) => TagIsIn(i, more)
  BY DEF IsTagged, IsAnswered, TagIsIn

\* A module without metadata has no marks.
LEMMA CleanMarks ==
    ASSUME NEW fs, Clean(fs)
    PROVE  /\ Marks(fs) = {}
           /\ \A i \in InstructionsOf(fs) : \A tags : TagIsIn(i, tags)
  <1>1. \A i \in InstructionsOf(fs) : i.meta = {} /\ i.fn \notin Reserved
    BY CleanIs
  <1>2. Marks(fs) = {}
    BY <1>1 DEF Marks
  <1>3. "add_tag" \in Reserved
    BY DEF Reserved, OwnFunctions
  <1> QED
    BY <1>1, <1>2, <1>3 DEF TagIsIn

\* Where instructions are added that have no metadata, the marks are the same.
LEMMA VisitKeepsMarks ==
    ASSUME Positioned, at[2] <= Len(Body), NEW B, NEW before \in Seq(B),
           Visit(before, Current), \A i \in B : IsMade(i)
    PROVE  Marks(functions') = Marks(functions) /\ IsModule(functions')
  <1> PICK h, p, m, n : h = at[1] /\ p = at[2] /\ m = Len(before) /\ n = Len(Body)
    OBVIOUS
  <1> PICK b, r : b = Body /\ r = Body'
    OBVIOUS
  <1>1. /\ DOMAIN functions' = DOMAIN functions
        /\ \A f \in DOMAIN functions \ {h} : functions'[f] = functions[f]
        /\ Len(r) = n + m
        /\ \A k \in 1 .. p - 1 : r[k] = b[k]
        /\ r[p + m] = Current
        /\ \A k \in p + 1 .. n : r[k + m] = b[k]
        /\ IsModule(functions') /\ at'[1] = h
        /\ InstructionsOf(functions') \subseteq
             InstructionsOf(functions) \cup ToSet(before) \cup {Current}
    BY VisitStep, SMTT(30) DEF Positioned
  <1>2. /\ DOMAIN before = 1 .. m /\ m \in Nat
        /\ h \in DOMAIN functions /\ IsModule(functions)
        /\ DOMAIN b = 1 .. n /\ n \in Nat /\ p \in 1 .. n
    <2>1. h \in DOMAIN functions /\ IsModule(functions)
      BY DEF Positioned
    <2>2. DOMAIN b = 1 .. n /\ n \in Nat
      BY <2>1, ModuleIs DEF Body
    <2> QED
      BY <2>1, <2>2 DEF Positioned
  <1>3. /\ functions[h].body = b /\ functions'[h].body = r
        /\ DOMAIN r = 1 .. n + m /\ h \in DOMAIN functions'
    <2>1. functions[h].body = b /\ functions'[h].body = r
      BY <1>1 DEF Body
    <2>2. DOMAIN r = 1 .. Len(r)
      BY <1>1, <1>2, <2>1, ModuleIs
    <2> QED
      BY <1>1, <1>2, <2>1, <2>2
  <1>4. Current \in InstructionsOf(functions) /\ Current = b[p]
    BY CurrentIs DEF Current
  <1>5. ASSUME NEW i \in InstructionsOf(functions'), i.meta # {}
        PROVE  i \in InstructionsOf(functions)
    <2>1. i \notin ToSet(before)
      <3>1. ToSet(before) \subseteq B
        BY DEF ToSet
      <3> QED
        BY <1>5, <3>1 DEF IsMade
    <2> QED
      BY <1>1, <1>4, <1>5, <2>1
  <1>6. ASSUME NEW i \in InstructionsOf(functions)
        PROVE  i \in InstructionsOf(functions')
    <2>1. PICK f \in DOMAIN functions : \E k \in DOMAIN functions[f].body : i = functions[f].body[k]
      BY <1>2, ModuleIs
    <2>2. PICK k \in DOMAIN functions[f].body : i = functions[f].body[k]
      BY <2>1
    <2>3. CASE f # h
      <3>1. functions'[f] = functions[f] /\ f \in DOMAIN functions'
        BY <1>1, <2>3
      <3>2. k \in DOMAIN functions'[f].body /\ i = functions'[f].body[k]
        BY <2>2, <3>1
      <3> QED
        BY <1>1, <3>1, <3>2, ModuleIs
    <2>4. CASE f = h
      <3>1. k \in 1 .. n /\ i = b[k]
        BY <1>2, <1>3, <2>2, <2>4
      <3>2. \E l \in 1 .. n + m : r[l] = b[k]
        <4>1. k < p \/ k = p \/ k \in p + 1 .. n
          BY <1>2, <3>1
        <4>2. CASE k < p
          <5>1. k \in 1 .. p - 1 /\ k \in 1 .. n + m
            BY <1>2, <3>1, <4>2
          <5> QED
            BY <1>1, <5>1
        <4>3. CASE k = p
          <5>1. p + m \in 1 .. n + m
            BY <1>2
          <5> QED
            BY <1>1, <1>4, <4>3, <5>1
        <4>4. CASE k \in p + 1 .. n
          <5>1. k + m \in 1 .. n + m
            BY <1>2, <4>4
          <5> QED
            BY <1>1, <4>4, <5>1
        <4> QED
          BY <4>1, <4>2, <4>3, <4>4
      <3>3. PICK l \in 1 .. n + m : r[l] = b[k]
        BY <3>2
      <3>4. functions'[h].body[l] \in InstructionsOf(functions')
        BY <1>1, <1>3, ModuleIs
      <3> QED
        BY <1>3, <3>1, <3>3, <3>4
    <2> QED
      BY <2>3, <2>4
  <1>7. Marks(functions') = Marks(functions)
    BY <1>5, <1>6 DEF Marks
  <1> QED
    BY <1>1, <1>7

\* Where one instruction is put in the place of another one, the mark of that
\* place is the only one that is not the same.
LEMMA ReplacedMarks ==
    ASSUME NEW hs, NEW gs, IsModule(hs), IsModule(gs),
           NEW h \in DOMAIN gs, NEW c \in DOMAIN gs[h].body, NEW new,
           HasReplaced(hs, gs, h, c, new)
    PROVE  /\ \A m, f, k : IsMarkAt(m, hs, f, k) =>
                \/ IsMarkAt(m, gs, f, k) /\ ~(f = h /\ k = c)
                \/ f = h /\ k = c /\ new.meta # {} /\ m = Mark(new)
           /\ \A m, f, k : IsMarkAt(m, gs, f, k) =>
                \/ IsMarkAt(m, hs, f, k) /\ ~(f = h /\ k = c)
                \/ f = h /\ k = c /\ m = Mark(gs[h].body[c])
           /\ new.meta # {} => IsMarkAt(Mark(new), hs, h, c)
           /\ \A i \in InstructionsOf(hs) : i \in InstructionsOf(gs) \/ i = new
  <1>1. /\ DOMAIN hs = DOMAIN gs
        /\ \A g \in DOMAIN gs \ {h} : hs[g] = gs[g]
        /\ DOMAIN hs[h].body = DOMAIN gs[h].body
        /\ hs[h].body[c] = new
        /\ \A k \in DOMAIN gs[h].body \ {c} : hs[h].body[k] = gs[h].body[k]
    BY DEF HasReplaced
  <1>2. ASSUME NEW f, NEW k, ~(f = h /\ k = c)
        PROVE  /\ f \in DOMAIN hs /\ k \in DOMAIN hs[f].body <=>
                    f \in DOMAIN gs /\ k \in DOMAIN gs[f].body
               /\ f \in DOMAIN gs /\ k \in DOMAIN gs[f].body => hs[f].body[k] = gs[f].body[k]
    <2>1. CASE f = h
      BY <1>1, <1>2, <2>1
    <2>2. CASE f # h
      BY <1>1, <2>2
    <2> QED
      BY <2>1, <2>2
  <1>3. ASSUME NEW m, NEW f, NEW k, ~(f = h /\ k = c)
        PROVE  IsMarkAt(m, hs, f, k) <=> IsMarkAt(m, gs, f, k)
    BY <1>2, <1>3 DEF IsMarkAt
  <1>4. ASSUME NEW i \in InstructionsOf(hs) PROVE i \in InstructionsOf(gs) \/ i = new
    <2>1. PICK f \in DOMAIN hs : \E k \in DOMAIN hs[f].body : i = hs[f].body[k]
      BY ModuleIs
    <2>2. PICK k \in DOMAIN hs[f].body : i = hs[f].body[k]
      BY <2>1
    <2>3. CASE f = h /\ k = c
      BY <1>1, <2>2, <2>3
    <2>4. CASE ~(f = h /\ k = c)
      <3>1. f \in DOMAIN gs /\ k \in DOMAIN gs[f].body /\ i = gs[f].body[k]
        BY <1>2, <2>2, <2>4
      <3> QED
        BY <3>1, ModuleIs
    <2> QED
      BY <2>3, <2>4
  <1>5. \A m : IsMarkAt(m, hs, h, c) <=> new.meta # {} /\ m = Mark(new)
    BY <1>1 DEF IsMarkAt
  <1>6. \A m : IsMarkAt(m, gs, h, c) => m = Mark(gs[h].body[c])
    BY DEF IsMarkAt
  <1> QED
    <2>1. \A m, f, k : IsMarkAt(m, hs, f, k) =>
            \/ IsMarkAt(m, gs, f, k) /\ ~(f = h /\ k = c)
            \/ f = h /\ k = c /\ new.meta # {} /\ m = Mark(new)
      <3> TAKE m, f, k
      <3>1. CASE f = h /\ k = c
        BY <1>5, <3>1
      <3>2. CASE ~(f = h /\ k = c)
        BY <1>3, <3>2
      <3> QED
        BY <3>1, <3>2
    <2>2. \A m, f, k : IsMarkAt(m, gs, f, k) =>
            \/ IsMarkAt(m, hs, f, k) /\ ~(f = h /\ k = c)
            \/ f = h /\ k = c /\ m = Mark(gs[h].body[c])
      <3> TAKE m, f, k
      <3>1. CASE f = h /\ k = c
        BY <1>6, <3>1
      <3>2. CASE ~(f = h /\ k = c)
        BY <1>3, <3>2
      <3> QED
        BY <3>1, <3>2
    <2> QED
      BY <1>4, <1>5, <2>1, <2>2

\* removeSources erases calls without metadata.
LEMMA RemoveSourcesKeepsMarks ==
    ASSUME PassesInv, CallsInv, RemoveSources
    PROVE  Marks(functions') = Marks(functions) /\ IsModule(functions')
  <1> DEFINE kept(f) == {k \in DOMAIN functions[f].body : ~IsIntrinsic(functions[f].body[k])}
             B == [f \in DOMAIN functions |-> AtPositions(functions[f].body, kept(f))]
             S == InstructionsOf(functions)
  <1>1. /\ IsModule(functions) /\ IsModule(functions') /\ DOMAIN functions' = DOMAIN functions
    BY RemoveSourcesMoves DEF Rearranged
  <1>2. functions' = WithBodies(functions, B)
    BY DEF RemoveSources, WithBodies
  <1>3. ASSUME NEW f \in DOMAIN functions
        PROVE  functions'[f].body = AtPositions(functions[f].body, kept(f))
    <2>1. functions'[f].body = B[f]
      <3> HIDE DEF B
      <3>1. functions'[f] = [functions[f] EXCEPT !.body = B[f]]
        BY <1>2 DEF WithBodies
      <3>2. functions[f] = [name |-> functions[f].name, body |-> functions[f].body]
        BY <1>1, ModuleIs
      <3> QED
        BY <3>1, <3>2
    <2>2. B[f] = AtPositions(functions[f].body, kept(f))
      OBVIOUS
    <2> QED
      BY <2>1, <2>2
  <1>4. ASSUME NEW f \in DOMAIN functions
        PROVE  \E to : IsPicked(functions'[f].body, functions[f].body, kept(f), to)
    <2>1. functions[f].body \in Seq(S)
      BY <1>1, ModuleIs
    <2> HIDE DEF S, kept
    <2>2. \E to : IsPicked(AtPositions(functions[f].body, kept(f)), functions[f].body, kept(f), to)
      BY <2>1, AtPositionsPicks
    <2> QED
      BY <1>3, <2>2
  <1>5. ASSUME NEW i \in InstructionsOf(functions), i.meta # {}
        PROVE  ~IsIntrinsic(i)
    <2>1. i.fn \notin Reserved
      BY <1>5 DEF CallsInv, NumbersInv, IsSiteOnce
    <2> QED
      BY <2>1 DEF IsIntrinsic, Reserved, OwnFunctions
  <1>6. ASSUME NEW m, NEW f, NEW k, IsMarkAt(m, functions', f, k)
        PROVE  \E l : IsMarkAt(m, functions, f, l)
    <2>1. f \in DOMAIN functions /\ k \in DOMAIN functions'[f].body
      BY <1>1, <1>6 DEF IsMarkAt
    <2>2. PICK to : IsPicked(functions'[f].body, functions[f].body, kept(f), to)
      BY <1>4, <2>1
    <2> HIDE DEF kept
    <2>3. PICK l \in DOMAIN functions[f].body : functions'[f].body[k] = functions[f].body[l]
      BY <2>1, <2>2 DEF IsPicked
    <2>4. IsMarkAt(m, functions, f, l)
      BY <1>6, <2>1, <2>3 DEF IsMarkAt
    <2> QED
      BY <2>4
  <1>7. ASSUME NEW m, NEW f, NEW l, IsMarkAt(m, functions, f, l)
        PROVE  \E k : IsMarkAt(m, functions', f, k)
    <2>1. f \in DOMAIN functions /\ l \in DOMAIN functions[f].body /\ functions[f].body[l].meta # {}
      BY <1>7 DEF IsMarkAt
    <2>2. l \in kept(f)
      <3>1. functions[f].body[l] \in InstructionsOf(functions)
        BY <1>1, <2>1, ModuleIs
      <3> QED
        BY <1>5, <2>1, <3>1
    <2>3. PICK to : IsPicked(functions'[f].body, functions[f].body, kept(f), to)
      BY <1>4, <2>1
    <2> HIDE DEF kept
    <2>4. to[l] \in DOMAIN functions'[f].body /\ functions'[f].body[to[l]] = functions[f].body[l]
      BY <2>1, <2>2, <2>3 DEF IsPicked
    <2> PICK k : k = to[l]
      OBVIOUS
    <2>5. k \in DOMAIN functions'[f].body /\ functions'[f].body[k] = functions[f].body[l]
      BY <2>4
    <2>6. IsMarkAt(m, functions', f, k)
      BY <1>1, <1>7, <2>1, <2>5 DEF IsMarkAt
    <2> QED
      BY <2>6
  <1>8. \A m : m \in Marks(functions') <=> m \in Marks(functions)
    <2> TAKE m
    <2>1. m \in Marks(functions') <=> \E f, k : IsMarkAt(m, functions', f, k)
      BY <1>1, MarksAre
    <2>2. m \in Marks(functions) <=> \E f, k : IsMarkAt(m, functions, f, k)
      BY <1>1, MarksAre
    <2> QED
      BY <1>6, <1>7, <2>1, <2>2
  <1> QED
    BY <1>1, <1>8

\* A sink takes its metadata along when it moves into its wrapper.
LEMMA WrapCallKeepsMarks ==
    ASSUME PassesInv, CallsInv, Wrapping, NEW b, NEW wrapper, NEW orig, NEW new,
           IsWrapped(b, wrapper, orig, new), wrappers < Len(WrapperName)
    PROVE  /\ Marks(functions') = Marks(functions) /\ IsModule(functions')
           /\ \A i \in InstructionsOf(functions') :
                \/ i \in InstructionsOf(functions) \/ TagIsIn(i, {})
                \/ \E j \in InstructionsOf(functions) : i.fn = j.fn /\ j.meta # {}
  <1> PICK h, c, n, call : h = at[1] /\ c = CB /\ n = Len(functions) /\ call = Body[CB]
    OBVIOUS
  <1>1. /\ h \in DOMAIN functions /\ c \in DOMAIN functions[h].body
        /\ call = functions[h].body[c] /\ call.meta # {}
        /\ n \in Nat /\ DOMAIN functions = 1 .. n /\ n + 1 \notin DOMAIN functions
        /\ call \in InstructionsOf(functions) /\ IsModule(functions)
    BY CallIs, CallToWrap DEF PassesInv, ModuleInv, Positioned
  <1>2. /\ wrapper.meta = {} /\ wrapper.fn = NextWrapper
        /\ HoldsCall(b, call) /\ DOMAIN b = 1 .. Len(b) /\ IsModule(functions')
        /\ DOMAIN functions' = 1 .. n + 1
        /\ functions'[n + 1].body = b
    BY DEF IsWrapped, IsWrapperBody
  <1>3. PICK p \in DOMAIN b :
          /\ b[p].fn = call.fn /\ b[p].meta = call.meta /\ b[p].src = call.src
          /\ b[p].tags = call.tags
          /\ \A k \in DOMAIN b : k # p => IsMade(b[k]) /\ TagIsIn(b[k], {})
    BY <1>2, HeldAt
  <1>4. Mark(b[p]) = Mark(call)
    BY <1>3 DEF Mark
  <1>5. ASSUME NEW m, NEW f, NEW k, IsMarkAt(m, functions', f, k)
        PROVE  m \in Marks(functions)
    <2>1. /\ f \in DOMAIN functions' /\ k \in DOMAIN functions'[f].body
          /\ functions'[f].body[k].meta # {} /\ m = Mark(functions'[f].body[k])
      BY <1>5 DEF IsMarkAt
    <2>2. \/ /\ f \in DOMAIN functions /\ k \in DOMAIN functions[f].body
             /\ functions'[f].body[k] = functions[f].body[k]
          \/ functions'[f].body[k] = wrapper
          \/ k \in DOMAIN b /\ functions'[f].body[k] = b[k]
      BY <2>1, WrappedAt
    <2>3. CASE /\ f \in DOMAIN functions /\ k \in DOMAIN functions[f].body
               /\ functions'[f].body[k] = functions[f].body[k]
      <3>1. IsMarkAt(m, functions, f, k)
        BY <2>1, <2>3 DEF IsMarkAt
      <3> QED
        BY <1>1, <3>1, MarksAre
    <2>4. CASE functions'[f].body[k] = wrapper
      BY <1>2, <2>1, <2>4
    <2>5. CASE k \in DOMAIN b /\ functions'[f].body[k] = b[k]
      <3>1. k = p
        BY <1>3, <2>1, <2>5 DEF IsMade
      <3>2. IsMarkAt(m, functions, h, c)
        BY <1>1, <1>4, <2>1, <2>5, <3>1 DEF IsMarkAt
      <3> QED
        BY <1>1, <3>2, MarksAre
    <2> QED
      BY <2>2, <2>3, <2>4, <2>5
  <1>6. ASSUME NEW m, NEW f, NEW k, IsMarkAt(m, functions, f, k)
        PROVE  m \in Marks(functions')
    <2>1. /\ f \in DOMAIN functions /\ k \in DOMAIN functions[f].body
          /\ functions[f].body[k].meta # {} /\ m = Mark(functions[f].body[k])
      BY <1>6 DEF IsMarkAt
    <2>2. CASE f = h /\ k = c
      <3>1. n + 1 \in DOMAIN functions' /\ p \in DOMAIN functions'[n + 1].body
            /\ functions'[n + 1].body[p] = b[p]
        BY <1>1, <1>2
      <3>2. IsMarkAt(m, functions', n + 1, p)
        BY <1>1, <1>3, <1>4, <2>1, <2>2, <3>1 DEF IsMarkAt
      <3> QED
        BY <1>2, <3>2, MarksAre
    <2>3. CASE f # h \/ k # c
      <3>1. /\ f \in DOMAIN functions' /\ DOMAIN functions'[f].body = DOMAIN functions[f].body
            /\ functions'[f].body[k] = functions[f].body[k]
        BY <2>1, <2>3, WrappedKeeps
      <3>2. IsMarkAt(m, functions', f, k)
        BY <2>1, <3>1 DEF IsMarkAt
      <3> QED
        BY <1>2, <3>2, MarksAre
    <2> QED
      BY <2>2, <2>3
  <1>7. Marks(functions') = Marks(functions)
    <2>1. ASSUME NEW m \in Marks(functions') PROVE m \in Marks(functions)
      BY <1>2, <1>5, MarksAre
    <2>2. ASSUME NEW m \in Marks(functions) PROVE m \in Marks(functions')
      BY <1>1, <1>6, MarksAre
    <2> QED
      BY <2>1, <2>2
  <1>8. ASSUME NEW i \in InstructionsOf(functions')
        PROVE  \/ i \in InstructionsOf(functions) \/ TagIsIn(i, {})
               \/ \E j \in InstructionsOf(functions) : i.fn = j.fn /\ j.meta # {}
    <2>0. IsModule(functions')
      BY <1>2
    <2>1. PICK f \in DOMAIN functions' : \E k \in DOMAIN functions'[f].body : i = functions'[f].body[k]
      <3> PICK gs : gs = functions'
        OBVIOUS
      <3>1. \E f \in DOMAIN gs : \E k \in DOMAIN gs[f].body : i = gs[f].body[k]
        BY <2>0, ModuleIs
      <3> QED
        BY <3>1
    <2>2. PICK k \in DOMAIN functions'[f].body : i = functions'[f].body[k]
      BY <2>1
    <2>3. \/ /\ f \in DOMAIN functions /\ k \in DOMAIN functions[f].body
             /\ i = functions[f].body[k]
          \/ i = wrapper
          \/ k \in DOMAIN b /\ i = b[k]
      BY <2>2, WrappedAt
    <2>4. CASE f \in DOMAIN functions /\ k \in DOMAIN functions[f].body /\ i = functions[f].body[k]
      <3>1. functions[f].body[k] \in InstructionsOf(functions)
        <4> PICK fs, m : fs = functions /\ m = Len(functions[f].body)
          OBVIOUS
        <4>1. IsModule(fs) /\ f \in DOMAIN fs /\ m = Len(fs[f].body) /\ k \in DOMAIN fs[f].body
          BY <1>1, <2>4
        <4>2. k \in 1 .. m
          BY <4>1, ModuleIs
        <4>3. fs[f].body[k] \in InstructionsOf(fs)
          BY <4>1, <4>2, ModuleIs
        <4> QED
          BY <4>3
      <3> QED
        BY <2>4, <3>1
    <2>5. CASE i = wrapper
      <3>1. NextWrapper \in ToSet(WrapperName)
        BY NextWrapperIs
      <3> QED
        BY <1>2, <2>5, <3>1, WrappersAreReserved DEF TagIsIn, OwnFunctions
    <2>6. CASE k \in DOMAIN b /\ i = b[k]
      <3>1. CASE k = p
        BY <1>1, <1>3, <2>6, <3>1
      <3>2. CASE k # p
        BY <1>3, <2>6, <3>2
      <3> QED
        BY <3>1, <3>2
    <2> QED
      BY <2>3, <2>4, <2>5, <2>6
  <1> QED
    BY <1>2, <1>7, <1>8

-----------------------------------------------------------------------------
(* Steps that leave the marks and the answers alone *)

\* What a tag means depends on the answers only.
LEMMA TaggedKept ==
    ASSUME TaggedInv, Marks(functions') = Marks(functions), answers' = answers
    PROVE  TaggedInv'
  <1> PICK M, ids : M = Marks(functions) /\ ids = SourceIds(Marks(functions))
    OBVIOUS
  <1>1. Marks(functions)' = M /\ SourceIds(Marks(functions))' = ids
    OBVIOUS
  <1>2. ASSUME NEW m \in M PROVE IsTagged(m, ids)'
    <2>1. IsTagged(m, ids)
      BY DEF TaggedInv
    <2>2. Answered(m)' <=> Answered(m)
      BY DEF Answered
    <2>3. TagsOf(m)' = TagsOf(m)
      BY DEF TagsOf
    <2> QED
      BY <2>1, <2>2, <2>3 DEF IsTagged, IsAnswered
  <1> QED
    BY <1>1, <1>2 DEF TaggedInv

LEMMA MarksKept ==
    ASSUME MapInv, Marks(functions') = Marks(functions),
           UNCHANGED <<arguments, answers, dependency_map>>,
           pass' \in BeforeTags \cup {"tags"} =>
             /\ pass \in BeforeTags
             /\ \A i \in InstructionsOf(functions') : TagIsIn(i, SourceIds(Marks(functions))),
           pass' \in BeforeMap => pass \in BeforeMap,
           pass' # "dependency_map",
           pass' \in AfterMap => pass \in AfterMap
    PROVE  MapInv'
  <1>1. TaggedInv'
    BY TaggedKept DEF MapInv
  <1>2. AnswersInv'
    <2>1. pass' \in BeforeTags \cup {"tags"} => answers' = <<>> /\ DOMAIN answers' = {}
      BY DEF MapInv, AnswersInv
    <2> QED
      BY <2>1 DEF AnswersInv
  <1>3. TagSourcesInv'
    BY DEF TagSourcesInv
  <1>4. PrintedInv'
    BY WritesMapKept DEF MapInv, PrintedInv, Written
  <1> QED
    BY <1>1, <1>2, <1>3, <1>4 DEF MapInv

\* A step that changes nothing in the module.
LEMMA ModuleKept ==
    ASSUME MapInv, functions' = functions, UNCHANGED <<arguments, answers, dependency_map>>,
           pass' \in BeforeTags \cup {"tags"} => pass \in BeforeTags,
           pass' \in BeforeMap => pass \in BeforeMap,
           pass' # "dependency_map",
           pass' \in AfterMap => pass \in AfterMap
    PROVE  MapInv'
  <1>1. pass' \in BeforeTags \cup {"tags"} =>
          \A i \in InstructionsOf(functions') : TagIsIn(i, SourceIds(Marks(functions)))
    BY DEF MapInv, TagSourcesInv
  <1> QED
    BY <1>1, MarksKept

\* A module without metadata, and an empty map.
LEMMA CleanKeepsMap ==
    ASSUME Clean(functions'), answers' = <<>>, MapIs(dependency_map', {}),
           pass' \notin {"tags", "dependency_map"}
    PROVE  MapInv'
  <1>1. /\ Marks(functions') = {}
        /\ \A i \in InstructionsOf(functions') : \A tags : TagIsIn(i, tags)
    <2> PICK fs : fs = functions'
      OBVIOUS
    <2> QED
      BY CleanMarks
  <1>2. MapIs(dependency_map, Written(Marks(functions)))' /\ MapIs(dependency_map, {})'
    BY <1>1 DEF Written
  <1> QED
    BY <1>1, <1>2 DEF MapInv, TaggedInv, AnswersInv, TagSourcesInv, PrintedInv

\* Nothing is printed of no call.
LEMMA EmptyMap ==
    ASSUME NEW map, map = [nodes |-> <<>>, edges |-> <<>>]
    PROVE  MapIs(map, {})
  <1>1. map.nodes = <<>> /\ map.edges = <<>>
    OBVIOUS
  <1>2. IdsOf({}) = {} /\ NodesOf({}) = {} /\ EdgesOf({}) = {}
    BY DEF IdsOf, NodesOf, EdgesOf
  <1>3. <<>> \in Seq({}) /\ ToSet(<<>>) = {} /\ Len(<<>>) = 0
    BY DEF ToSet
  <1>4. IsFiniteSet({}) /\ Cardinality({}) = 0
    BY FS_EmptySet
  <1> QED
    BY <1>1, <1>2, <1>3, <1>4 DEF MapIs, Lists

LEMMA InitGivesMap == Init => MapInv
  <1> SUFFICES ASSUME Init PROVE MapInv
    OBVIOUS
  <1>1. /\ functions = arguments.input /\ arguments \in Arguments
        /\ pass = "start" /\ answers = <<>>
        /\ dependency_map = [nodes |-> <<>>, edges |-> <<>>]
    BY DEF Init
  <1>2. Clean(functions)
    BY <1>1, InputIsClean
  <1>3. /\ Marks(functions) = {}
        /\ \A i \in InstructionsOf(functions) : \A tags : TagIsIn(i, tags)
    BY <1>2, CleanMarks
  <1>4. MapIs(dependency_map, {})
    BY <1>1, EmptyMap
  <1> QED
    BY <1>1, <1>3, <1>4
       DEF MapInv, TaggedInv, AnswersInv, TagSourcesInv, PrintedInv, AfterMap

LEMMA StartKeepsMap == PassesInv /\ CallsInv /\ MapInv /\ Start => MapInv'
  <1> SUFFICES ASSUME PassesInv, CallsInv, MapInv, Start PROVE MapInv'
    OBVIOUS
  <1>1. /\ pass = "start" /\ pass' \in {"print", "configure"} /\ functions' = input'
        /\ UNCHANGED <<arguments, answers, dependency_map>>
    BY DEF Start
  <1>2. Clean(functions')
    BY <1>1, StartKeepsCalls DEF CallsInv, InputInv
  <1>3. answers' = <<>> /\ MapIs(dependency_map', {})
    BY <1>1 DEF MapInv, AnswersInv, PrintedInv, BeforeMap, BeforeTags
  <1> QED
    BY <1>1, <1>2, <1>3, CleanKeepsMap

LEMMA PrintKeepsMap == PassesInv /\ MapInv /\ PrintSourcesAndSinks => MapInv'
  <1> SUFFICES ASSUME PassesInv, MapInv, PrintSourcesAndSinks PROVE MapInv'
    OBVIOUS
  <1>1. /\ pass = "print" /\ pass' = pass /\ at[2] <= Len(Body) /\ Visit(<<>>, Current)
        /\ UNCHANGED <<arguments, answers, dependency_map>>
    BY DEF PrintSourcesAndSinks, Visiting
  <1>2. functions' = functions
    BY <1>1, VisitSame DEF PassesInv, ModuleInv
  <1> QED
    BY <1>1, <1>2, ModuleKept DEF BeforeTags, BeforeMap, AfterMap

LEMMA LoadInputFileKeepsMap == MapInv /\ LoadInputFile => MapInv'
  <1> SUFFICES ASSUME MapInv, LoadInputFile PROVE MapInv'
    OBVIOUS
  <1>1. /\ pass = "configure" /\ pass' \in {"add_sources", "add_metadata"}
        /\ UNCHANGED <<functions, arguments, answers, dependency_map>>
    BY DEF LoadInputFile, module_vars, history
  <1> QED
    BY <1>1, ModuleKept DEF BeforeTags, BeforeMap, AfterMap

LEMMA AddMetadataSkipKeepsMap == PassesInv /\ MapInv /\ AddMetadata_Skip => MapInv'
  <1> SUFFICES ASSUME PassesInv, MapInv, AddMetadata_Skip PROVE MapInv'
    OBVIOUS
  <1>1. /\ pass = "add_metadata" /\ pass' = pass /\ at[2] <= Len(Body) /\ Visit(<<>>, Current)
        /\ UNCHANGED <<arguments, answers, dependency_map>>
    BY DEF AddMetadata_Skip, Visiting, history
  <1>2. functions' = functions
    BY <1>1, VisitSame DEF PassesInv, ModuleInv
  <1> QED
    BY <1>1, <1>2, ModuleKept DEF BeforeTags, BeforeMap, AfterMap

LEMMA AddSourcesKeepsMap == PassesInv /\ MapInv /\ AddSources => MapInv'
  <1> SUFFICES ASSUME PassesInv, MapInv, AddSources PROVE MapInv'
    OBVIOUS
  <1>1. /\ pass = "add_sources" /\ pass' = pass /\ at[2] <= Len(Body)
        /\ UNCHANGED <<arguments, answers, dependency_map>> /\ Positioned
    BY DEF AddSources, Visiting, history, PassesInv, ModuleInv
  <1>2. PICK B, before :
          /\ before \in Seq(B) /\ ToSet(before) \subseteq B
          /\ \A i \in B : IsMade(i) /\ TagIsIn(i, SourceTags(Current))
          /\ Visit(before, Current)
    BY AddSourcesStep
  <1>3. Marks(functions') = Marks(functions)
    BY <1>1, <1>2, VisitKeepsMarks
  <1>4. InstructionsOf(functions') \subseteq InstructionsOf(functions) \cup B
    <2>1. InstructionsOf(functions') \subseteq
            InstructionsOf(functions) \cup ToSet(before) \cup {Current}
      BY <1>1, <1>2, VisitStep
    <2> QED
      BY <1>1, <1>2, <2>1, CurrentIs
  <1>5. SourceTags(Current) \subseteq SourceIds(Marks(functions))
    <2>1. CASE HasParamOfType(Current, "input")
      <3>1. Current \in InstructionsOf(functions) /\ Current.meta # {}
        BY <1>1, <2>1, CurrentIs DEF HasParamOfType
      <3>2. Mark(Current) \in Marks(functions)
        BY <3>1 DEF Marks
      <3> PICK m : m = Mark(Current)
        OBVIOUS
      <3>3. HasParamOfType(m, "input") /\ CallSiteIds(m) = CallSiteIds(Current) /\ m \in Marks(functions)
        BY <2>1, <3>2, MarkIs
      <3> QED
        BY <2>1, <3>3 DEF SourceTags, SourceIds
    <2>2. CASE ~HasParamOfType(Current, "input")
      BY <2>2 DEF SourceTags
    <2> QED
      BY <2>1, <2>2
  <1>6. ASSUME NEW i \in InstructionsOf(functions')
        PROVE  TagIsIn(i, SourceIds(Marks(functions)))
    <2>1. CASE i \in InstructionsOf(functions)
      BY <1>1, <2>1 DEF MapInv, TagSourcesInv, BeforeTags
    <2>2. CASE i \in B
      BY <1>2, <1>5, <2>2 DEF TagIsIn
    <2> QED
      BY <1>4, <2>1, <2>2
  <1> QED
    BY <1>1, <1>3, <1>6, MarksKept DEF BeforeTags, BeforeMap, AfterMap

\* What a step of WrapSinks that wraps a call makes.
LEMMA WrapCallIs ==
    ASSUME PassesInv, WrapCall
    PROVE  \E b, wrapper, orig, new : IsWrapped(b, wrapper, orig, new)
  <1>1. /\ Wrapping /\ pass = "wrap_sinks" /\ wrappers < Len(WrapperName) /\ at' = at
    BY DEF WrapCall, Wrapping
  <1>2. /\ Body[CB].addr \in Nat /\ Body[CB].addr \in Addresses(functions)
    BY <1>1, CallToWrap DEF Addresses, InstructionsOf
  <1>3. Fresh \in Nat \ {0} /\ freed \subseteq Nat \ {0}
    <2>1. Fresh \in Nat /\ Body[CB].addr < Fresh
      BY <1>1, <1>2, FreshIsFresh DEF BeforeTags
    <2> QED
      BY <1>1, <1>2, <2>1 DEF PassesInv, AddressInv, BeforeTags
  <1>4. PICK orig \in freed \cup {Fresh}, new \in freed \cup {Fresh + 1} :
          functions' = [InsertWrapper(NextWrapper, WrapperBody(Body[CB], orig))
                          EXCEPT ![at[1]].body[CB] =
                            [Instruction("call", NextWrapper, Body[CB].args)
                               EXCEPT !.addr = new]]
    BY DEF WrapCall
  <1>5. orig \in Nat \ {0} /\ new \in Nat \ {0}
    BY <1>3
  <1>6. \E b, wrapper : IsWrapped(b, wrapper, orig, new)
    BY <1>1, <1>4, <1>5, WrapCallStep
  <1> QED
    BY <1>6

LEMMA WrapSinksSkipKeepsMap == PassesInv /\ MapInv /\ WrapSinks_Skip => MapInv'
  <1> SUFFICES ASSUME PassesInv, MapInv, WrapSinks_Skip PROVE MapInv'
    OBVIOUS
  <1>1. /\ pass = "wrap_sinks" /\ pass' = pass /\ at[2] <= Len(Body) /\ Visit(<<>>, Current)
        /\ UNCHANGED <<arguments, answers, dependency_map>>
    BY DEF WrapSinks_Skip, Visiting, history
  <1>2. functions' = functions
    BY <1>1, VisitSame DEF PassesInv, ModuleInv
  <1> QED
    BY <1>1, <1>2, ModuleKept DEF BeforeTags, BeforeMap, AfterMap

LEMMA WrapSinksCollectKeepsMap == PassesInv /\ MapInv /\ WrapSinks_Collect => MapInv'
  <1> SUFFICES ASSUME PassesInv, MapInv, WrapSinks_Collect PROVE MapInv'
    OBVIOUS
  <1>1. /\ pass = "wrap_sinks" /\ pass' = pass /\ at[2] <= Len(Body) /\ Visit(<<>>, Current)
        /\ UNCHANGED <<arguments, answers, dependency_map>>
    BY DEF WrapSinks_Collect, Visiting, history
  <1>2. functions' = functions
    BY <1>1, VisitSame DEF PassesInv, ModuleInv
  <1> QED
    BY <1>1, <1>2, ModuleKept DEF BeforeTags, BeforeMap, AfterMap

LEMMA WrapCallKeepsMap == PassesInv /\ CallsInv /\ MapInv /\ WrapCall => MapInv'
  <1> SUFFICES ASSUME PassesInv, CallsInv, MapInv, WrapCall PROVE MapInv'
    OBVIOUS
  <1>1. /\ Wrapping /\ pass = "wrap_sinks" /\ pass' = pass /\ wrappers < Len(WrapperName)
        /\ UNCHANGED <<at, arguments, answers, dependency_map>>
    BY DEF WrapCall, Wrapping, history
  <1>2. PICK b, wrapper, orig, new : IsWrapped(b, wrapper, orig, new)
    BY <1>1, WrapCallIs
  <1>3. /\ Marks(functions') = Marks(functions)
        /\ \A i \in InstructionsOf(functions') :
             \/ i \in InstructionsOf(functions) \/ TagIsIn(i, {})
             \/ \E j \in InstructionsOf(functions) : i.fn = j.fn /\ j.meta # {}
    BY <1>1, <1>2, WrapCallKeepsMarks
  <1>4. ASSUME NEW i \in InstructionsOf(functions')
        PROVE  TagIsIn(i, SourceIds(Marks(functions)))
    <2>1. CASE i \in InstructionsOf(functions)
      BY <1>1, <2>1 DEF MapInv, TagSourcesInv, BeforeTags
    <2>2. CASE TagIsIn(i, {})
      BY <2>2 DEF TagIsIn
    <2>3. CASE \E j \in InstructionsOf(functions) : i.fn = j.fn /\ j.meta # {}
      <3>1. PICK j \in InstructionsOf(functions) : i.fn = j.fn /\ j.meta # {}
        BY <2>3
      <3>2. j.fn \notin Reserved
        BY <3>1 DEF CallsInv, NumbersInv, IsSiteOnce
      <3> QED
        BY <3>1, <3>2 DEF TagIsIn, Reserved, OwnFunctions
    <2> QED
      BY <1>3, <2>1, <2>2, <2>3
  <1> QED
    BY <1>1, <1>3, <1>4, MarksKept DEF BeforeTags, BeforeMap, AfterMap

LEMMA WrapCrashesKeepsMap == MapInv /\ WrapCrashes => MapInv'
  <1> SUFFICES ASSUME MapInv, WrapCrashes PROVE MapInv'
    OBVIOUS
  <1>1. pass' = "crashed" /\ UNCHANGED <<functions, arguments, answers, dependency_map>>
    BY DEF WrapCrashes, module_vars, history
  <1> QED
    BY <1>1, ModuleKept DEF BeforeTags, BeforeMap, AfterMap

LEMMA LoadConfigurationKeepsMap == MapInv /\ LoadConfiguration => MapInv'
  <1> SUFFICES ASSUME MapInv, LoadConfiguration PROVE MapInv'
    OBVIOUS
  <1>1. /\ pass = "configure_logging" /\ pass' \in {"add_logging", "done"}
        /\ UNCHANGED <<functions, arguments, answers, dependency_map>>
    BY DEF LoadConfiguration, module_vars, history
  <1> QED
    BY <1>1, ModuleKept DEF BeforeTags, BeforeMap, AfterMap

\* Nothing is written when there is no file for it.
LEMMA NoDependencyMapKeepsMap == MapInv /\ NoDependencyMap => MapInv'
  <1> SUFFICES ASSUME MapInv, NoDependencyMap PROVE MapInv'
    OBVIOUS
  <1>1. /\ pass = "dependency_map" /\ pass' = "configure_logging"
        /\ UNCHANGED <<functions, arguments, answers, dependency_map>>
    BY DEF NoDependencyMap, module_vars, history
  <1>2. ~WritesMap /\ ~WritesMap'
    BY <1>1, WritesMapKept DEF NoDependencyMap, WritesMap
  <1>3. MapIs(dependency_map, {})
    BY <1>1, <1>2 DEF MapInv, PrintedInv, Written
  <1>4. PrintedInv'
    BY <1>1, <1>2, <1>3 DEF PrintedInv, Written, BeforeMap, BeforeTags
  <1>5. TaggedInv'
    BY <1>1, TaggedKept DEF MapInv
  <1> QED
    BY <1>1, <1>4, <1>5 DEF MapInv, AnswersInv, TagSourcesInv, BeforeTags

LEMMA AddLoggingKeepsMap == PassesInv /\ MapInv /\ AddLogging => MapInv'
  <1> SUFFICES ASSUME PassesInv, MapInv, AddLogging PROVE MapInv'
    OBVIOUS
  <1>1. /\ pass = "add_logging" /\ pass' = pass /\ at[2] <= Len(Body)
        /\ UNCHANGED <<arguments, answers, dependency_map>> /\ Positioned
    BY DEF AddLogging, Visiting, history, PassesInv, ModuleInv
  <1>2. PICK S, before :
          before \in Seq(S) /\ (\A i \in S : IsMade(i)) /\ Visit(before, Current)
    BY AddLoggingStep
  <1>3. Marks(functions') = Marks(functions)
    BY <1>1, <1>2, VisitKeepsMarks
  <1> QED
    BY <1>1, <1>3, MarksKept DEF BeforeTags, BeforeMap, AfterMap

\* The pass that prints the map starts at the beginning.
LEMMA RemoveSourcesKeepsMap == PassesInv /\ CallsInv /\ MapInv /\ RemoveSources => MapInv'
  <1> SUFFICES ASSUME PassesInv, CallsInv, MapInv, RemoveSources PROVE MapInv'
    OBVIOUS
  <1>1. /\ pass = "remove_sources" /\ pass' = "dependency_map" /\ at' = <<1, 1>>
        /\ UNCHANGED <<arguments, answers, dependency_map>>
    BY DEF RemoveSources, history, PassesInv, ModuleInv, Beginnings
  <1>2. Marks(functions') = Marks(functions) /\ IsModule(functions')
    BY RemoveSourcesKeepsMarks
  <1>3. ASSUME NEW f, NEW k, NEW m, IsMarkAt(m, functions', f, k)
        PROVE  ~Passed(f, k)'
    <2> PICK gs : gs = functions'
      OBVIOUS
    <2>1. f \in DOMAIN gs /\ k \in DOMAIN gs[f].body
      BY <1>3 DEF IsMarkAt
    <2>2. f \in Nat /\ f >= 1 /\ k \in Nat /\ k >= 1
      <3>1. /\ DOMAIN gs = 1 .. Len(gs) /\ Len(gs) \in Nat
            /\ DOMAIN gs[f].body = 1 .. Len(gs[f].body) /\ Len(gs[f].body) \in Nat
        BY <1>2, <2>1, ModuleIs
      <3> QED
        BY <2>1, <3>1
    <2>3. at'[1] = 1 /\ at'[2] = 1
      BY <1>1
    <2> QED
      BY <2>2, <2>3 DEF Passed
  <1>4. MarksPassed' = {} /\ Written(MarksPassed)' = {}
    BY <1>3 DEF MarksPassed, Written
  <1>5. MapIs(dependency_map, {})
    BY <1>1 DEF MapInv, PrintedInv, BeforeMap
  <1>6. PrintedInv'
    BY <1>1, <1>4, <1>5 DEF PrintedInv, BeforeMap, BeforeTags, AfterMap
  <1>7. TaggedInv'
    BY <1>1, <1>2, TaggedKept DEF MapInv
  <1> QED
    BY <1>1, <1>6, <1>7 DEF MapInv, AnswersInv, TagSourcesInv, BeforeTags

-----------------------------------------------------------------------------
(* Steps that change a mark *)

\* What a replacement leaves is what was there and the new instruction.
LEMMA ReplacedInstructions ==
    ASSUME NEW hs, NEW gs, IsModule(hs), IsModule(gs),
           NEW h \in DOMAIN gs, NEW c \in DOMAIN gs[h].body, NEW new,
           HasReplaced(hs, gs, h, c, new)
    PROVE  \A i \in InstructionsOf(hs) : i \in InstructionsOf(gs) \/ i = new
  BY ReplacedMarks

LEMMA ConditionalUpdateKeepsMap == PassesInv /\ CallsInv /\ MapInv /\ ConditionalUpdate => MapInv'
  <1> SUFFICES ASSUME PassesInv, CallsInv, MapInv, ConditionalUpdate PROVE MapInv'
    OBVIOUS
  <1>n. PICK labels, x, new : /\ labels = ParamToLabels(function_infos[Current.fn], Current)
                              /\ x = [id |-> call_site_counter, params |-> labels]
                              /\ new = WithMeta(Current, {x})
    OBVIOUS
  <1>at. PICK h, c : h = at[1] /\ c = at[2]
    OBVIOUS
  <1>1. /\ pass = "add_metadata" /\ pass' = pass /\ at[2] <= Len(Body) /\ Visit(<<>>, new)
        /\ Current.fn \in DOMAIN function_infos
        /\ UNCHANGED <<arguments, answers, dependency_map>> /\ Positioned
    BY <1>n DEF ConditionalUpdate, Visiting, history, WithMeta, CallSiteMetadata, PassesInv,
                ModuleInv
  <1>2. Current.meta = {} /\ Current.tags = {} /\ IsRecord(Current)
    BY <1>1, VisitsCallSite
  <1>3. new.meta = {x} /\ new.tags = {} /\ new.fn = Current.fn
    BY <1>n, <1>2, WithMetaIs
  <1>4. /\ IsModule(functions') /\ HasReplaced(functions', functions, h, c, new)
        /\ h \in DOMAIN functions /\ c \in DOMAIN functions[h].body
        /\ Current = functions[h].body[c] /\ IsModule(functions)
    BY <1>at, <1>1, VisitReplaces DEF Positioned
  <1>m. PICK M, N : M = Marks(functions) /\ N = Marks(functions')
    OBVIOUS
  <1>r. PICK fs, gs : gs = functions' /\ fs = functions
    OBVIOUS
  <1>s. /\ IsModule(gs) /\ HasReplaced(gs, fs, h, c, new) /\ IsModule(fs)
        /\ h \in DOMAIN fs /\ c \in DOMAIN fs[h].body
    BY <1>4, <1>r
  <1>t. /\ \A m, f, k : IsMarkAt(m, gs, f, k) => IsMarkAt(m, fs, f, k) \/ m = Mark(new)
        /\ \A m, f, k : IsMarkAt(m, fs, f, k) /\ ~(f = h /\ k = c) => IsMarkAt(m, gs, f, k)
    BY <1>s, ReplacedMarks
  <1>5. ASSUME NEW m \in N PROVE m \in M \/ m = Mark(new)
    <2>1. PICK f, k : IsMarkAt(m, gs, f, k)
      BY <1>m, <1>r, <1>s, MarksAre
    <2>2. IsMarkAt(m, fs, f, k) \/ m = Mark(new)
      BY <1>t, <2>1
    <2> QED
      BY <1>m, <1>r, <1>s, <2>2, MarksAre
  <1>6. M \subseteq N
    <2> SUFFICES ASSUME NEW m \in M PROVE m \in N
      OBVIOUS
    <2>1. PICK f, k : IsMarkAt(m, fs, f, k)
      BY <1>m, <1>r, <1>s, MarksAre
    <2>2. ~(f = h /\ k = c)
      BY <1>r, <1>2, <1>4, <2>1 DEF IsMarkAt
    <2>3. IsMarkAt(m, gs, f, k)
      BY <1>t, <2>1, <2>2
    <2> QED
      BY <1>m, <1>r, <1>s, <2>3, MarksAre
  <1>i. PICK ids, more : ids = SourceIds(M) /\ more = SourceIds(N)
    OBVIOUS
  <1>7. ids \subseteq more
    BY <1>i, <1>6, SourceIdsGrow
  <1>8. answers = <<>> /\ answers' = <<>> /\ DOMAIN answers' = {}
    BY <1>1 DEF MapInv, AnswersInv, BeforeTags
  <1>9. ASSUME NEW m \in N PROVE IsTagged(m, more)'
    <2>1. ~Answered(m)' /\ ~Answered(m)
      BY <1>8 DEF Answered
    <2>2. CASE m \in M
      <3>1. IsTagged(m, ids)
        BY <1>m, <1>i, <2>2 DEF MapInv, TaggedInv
      <3> QED
        BY <2>1, <3>1 DEF IsTagged, IsAnswered
    <2>3. CASE m = Mark(new)
      <3>1. m.meta = {x} /\ m.tags = {}
        BY <1>3, <2>3, MarkIs
      <3> QED
        BY <2>1, <3>1 DEF IsTagged, IsAnswered
    <2> QED
      BY <1>5, <2>2, <2>3
  <1>10. TaggedInv'
    BY <1>m, <1>i, <1>9 DEF TaggedInv
  <1>11. ASSUME NEW i \in InstructionsOf(gs) PROVE TagIsIn(i, more)
    <2>1. i \in InstructionsOf(fs) \/ i = new
      BY <1>s, ReplacedInstructions
    <2>2. CASE i \in InstructionsOf(fs)
      <3>1. TagIsIn(i, ids)
        BY <1>m, <1>i, <1>r, <1>1, <2>2 DEF MapInv, TagSourcesInv, BeforeTags
      <3> QED
        BY <1>7, <3>1, TaggedStays
    <2>3. CASE i = new
      <3>1. new.fn \notin Reserved
        BY <1>1, <1>3 DEF CallsInv, NumbersInv
      <3> QED
        BY <2>3, <3>1 DEF TagIsIn, Reserved, OwnFunctions
    <2> QED
      BY <2>1, <2>2, <2>3
  <1>12. TagSourcesInv'
    BY <1>m, <1>i, <1>r, <1>11 DEF TagSourcesInv
  <1>13. AnswersInv' /\ PrintedInv'
    BY <1>1, <1>8
       DEF MapInv, AnswersInv, PrintedInv, BeforeTags, BeforeMap, AfterMap
  <1> QED
    BY <1>10, <1>12, <1>13 DEF MapInv

\* A call that has metadata is at one place.
LEMMA MarkedOnce ==
    ASSUME CallsInv, IsModule(functions), NEW m, NEW n, NEW f, NEW g, NEW k, NEW l,
           IsMarkAt(m, functions, f, k), IsMarkAt(n, functions, g, l), m.src = n.src
    PROVE  f = g /\ k = l
  <1> PICK i, j : i = functions[f].body[k] /\ j = functions[g].body[l]
    OBVIOUS
  <1>1. /\ f \in DOMAIN functions /\ k \in DOMAIN functions[f].body /\ i.meta # {} /\ m = Mark(i)
        /\ g \in DOMAIN functions /\ l \in DOMAIN functions[g].body /\ n = Mark(j)
    BY DEF IsMarkAt
  <1>2. i.src = j.src
    BY <1>1, MarkIs
  <1>3. i.src # 0
    <2>1. i \in InstructionsOf(functions)
      BY <1>1, ModuleIs
    <2> QED
      BY <1>1, <2>1 DEF CallsInv, NumbersInv, IsSiteOnce
  <1> QED
    BY <1>1, <1>2, <1>3 DEF CallsInv, NumbersInv, SourcesOnce

\* A sequence has its elements from any set that has all of them.
LEMMA OfMembers ==
    ASSUME NEW S, NEW s \in Seq(S), NEW T, ToSet(s) \subseteq T
    PROVE  s \in Seq(T) /\ ToSet(s) \subseteq S
  <1>1. DOMAIN s = 1 .. Len(s) /\ Len(s) \in Nat /\ \A k \in 1 .. Len(s) : s[k] \in S
    OBVIOUS
  <1>2. \A k \in 1 .. Len(s) : s[k] \in T
    BY <1>1 DEF ToSet
  <1>3. s = [k \in 1 .. Len(s) |-> s[k]]
    OBVIOUS
  <1>4. ToSet(s) \subseteq S
    BY <1>1 DEF ToSet
  <1> PICK n : n = Len(s)
    OBVIOUS
  <1>5. s \in [1 .. n -> T] /\ n \in Nat
    BY <1>1, <1>2, <1>3
  <1> QED
    BY <1>4, <1>5

LEMMA FunctionIsSeq ==
    ASSUME NEW n \in Nat, NEW S, NEW s \in [1 .. n -> S]
    PROVE  s \in Seq(S) /\ Len(s) = n
  OBVIOUS

\* All that an answer says, for every parameter.
Said(answer) == UNION {UNION {ToSet(t) : t \in a} : a \in ToSet(answer)}

TagsFor(answer) == FlattenSeq([n \in DOMAIN answer |-> CHOOSE t \in answer[n] : TRUE])

\* A call gets for tags all that the analysis said of its parameters.
LEMMA TagsForIs ==
    ASSUME NEW l \in Nat, NEW answer \in [1 .. l -> Answers], {} \notin ToSet(answer),
           call_site_counter \in Nat
    PROVE  /\ TagsFor(answer) \in Seq(Nat) /\ ToSet(TagsFor(answer)) = Said(answer)
           /\ ToSet(TagsFor(answer)) \subseteq InsertedTags
  <1> PICK ss : ss = [n \in 1 .. l |-> CHOOSE t \in answer[n] : TRUE]
    OBVIOUS
  <1> PICK S, T : S = Nat \cap InsertedTags /\ T = Said(answer)
    OBVIOUS
  <1>1. /\ DOMAIN answer = 1 .. l /\ \A n \in 1 .. l : ss[n] = CHOOSE t \in answer[n] : TRUE
        /\ DOMAIN ss = 1 .. l
    OBVIOUS
  <1>2. ASSUME NEW n \in 1 .. l
        PROVE  answer[n] = {ss[n]} /\ ss[n] \in Seq(S) /\ answer[n] \in ToSet(answer)
    <2>1. answer[n] \in ToSet(answer) /\ answer[n] \in Answers
      BY <1>1 DEF ToSet
    <2>2. PICK tags \in SUBSET InsertedTags : answer[n] = {Ascending(tags, call_site_counter)}
      BY <2>1 DEF Answers
    <2> PICK u : u = Ascending(tags, call_site_counter)
      OBVIOUS
    <2>3. u \in Seq(tags \cap (0 .. call_site_counter))
      BY AscendingType
    <2>4. tags \cap (0 .. call_site_counter) \subseteq S
      OBVIOUS
    <2>5. u \in Seq(S)
      BY <2>3, <2>4, SeqMonotonic
    <2>6. answer[n] = {u}
      BY <2>2
    <2>7. ss[n] = u
      BY <1>1, <2>6
    <2> QED
      BY <2>1, <2>5, <2>6, <2>7
  <1>3. ASSUME NEW n \in 1 .. l PROVE ToSet(ss[n]) \subseteq T /\ ss[n] \in Seq(T)
    <2> PICK a, r : a = answer[n] /\ r = ss[n]
      OBVIOUS
    <2>1. a = {r} /\ a \in ToSet(answer) /\ r \in Seq(S)
      BY <1>2
    <2>2. ToSet(r) \subseteq UNION {ToSet(u) : u \in a}
      BY <2>1
    <2>3. ToSet(r) \subseteq T
      BY <2>1, <2>2 DEF Said
    <2> QED
      BY <2>1, <2>3, OfMembers
  <1>4. ss \in Seq(Seq(S)) /\ ss \in Seq(Seq(T)) /\ Len(ss) = l
    <2>1. ss = [n \in 1 .. l |-> ss[n]]
      OBVIOUS
    <2> PICK P, Q : P = Seq(S) /\ Q = Seq(T)
      OBVIOUS
    <2>2. \A n \in 1 .. l : ss[n] \in P /\ ss[n] \in Q
      BY <1>2, <1>3
    <2>3. ss \in [1 .. l -> P] /\ ss \in [1 .. l -> Q]
      BY <2>1, <2>2, Zenon
    <2>4. ss \in Seq(P) /\ ss \in Seq(Q) /\ Len(ss) = l
      BY <2>3, FunctionIsSeq, Zenon
    <2> QED
      BY <2>4
  <1> PICK t : t = TagsFor(answer)
    OBVIOUS
  <1>5. t = FlattenSeq(ss)
    BY <1>1 DEF TagsFor
  <1>6. t \in Seq(S) /\ t \in Seq(T)
    BY <1>4, <1>5, FlattenType
  <1>7. ToSet(t) \subseteq T /\ ToSet(t) \subseteq S
    <2>1. \A X : t \in Seq(X) => ToSet(t) \subseteq X
      BY OfMembers
    <2> QED
      BY <1>6, <2>1
  <1>8. ASSUME NEW id \in T PROVE id \in ToSet(t)
    <2>1. PICK a \in ToSet(answer) : \E u \in a : id \in ToSet(u)
      BY DEF Said
    <2>2. PICK n \in 1 .. l : a = answer[n]
      BY <1>1 DEF ToSet
    <2>3. id \in ToSet(ss[n])
      BY <1>2, <2>1, <2>2
    <2>4. ToSet(ss[n]) \subseteq ToSet(FlattenSeq(ss))
      BY <1>4, FlattenMembers
    <2> QED
      BY <1>5, <2>3, <2>4
  <1>9. t \in Seq(Nat)
    BY <1>6, SeqMonotonic
  <1> QED
    BY <1>7, <1>8, <1>9

\* What the step of the analysis does.
LEMMA TagsStep ==
    ASSUME PassesInv, TagAnalysisResultsAsMetadata
    PROVE  \E l, answer, new :
             /\ l \in Nat /\ answer \in [1 .. l -> Answers]
             /\ Visit(<<>>, new) /\ IsRecord(Current)
             /\ DOMAIN answer # {} => Current.meta # {}
             /\ new = IF DOMAIN answer = {} \/ {} \in ToSet(answer) THEN Current
                      ELSE WithTags(Current, {TagsFor(answer)})
             /\ answers' = IF DOMAIN answer = {} THEN answers
                           ELSE [src \in DOMAIN answers \cup {Current.src} |->
                                   IF src \in DOMAIN answers THEN answers[src] ELSE answer]
  <1>1. Current \in InstructionsOf(functions) /\ IsInstruction(Current)
    <2>1. at[2] <= Len(Body) /\ Positioned
      BY DEF TagAnalysisResultsAsMetadata, Visiting, PassesInv, ModuleInv
    <2> QED
      BY <2>1, CurrentIs DEF PassesInv, ModuleInv
  <1>2. PICK l : /\ l \in Nat /\ DOMAIN ParamsOfType(Current, "output") = 1 .. l
                 /\ 1 .. l # {} => HasParamOfType(Current, "output")
    <2> PICK s : s = ParamsOfType(Current, "output")
      OBVIOUS
    <2>1. /\ Len(s) \in Nat /\ DOMAIN s = 1 .. Len(s)
          /\ DOMAIN s # {} => HasParamOfType(Current, "output")
      BY <1>1, ParamsType DEF IsInstruction
    <2> QED
      BY <2>1
  <1>3. PICK answer \in [DOMAIN ParamsOfType(Current, "output") -> Answers] :
          /\ Visit(<<>>, SetTags(Current, answer))
          /\ answers' = IF DOMAIN answer = {} THEN answers
                        ELSE [src \in DOMAIN answers \cup {Current.src} |->
                                IF src \in DOMAIN answers THEN answers[src] ELSE answer]
    BY DEF TagAnalysisResultsAsMetadata
  <1>4. answer \in [1 .. l -> Answers] /\ DOMAIN answer = 1 .. l
    BY <1>2, <1>3
  <1>5. DOMAIN answer # {} => Current.meta # {}
    BY <1>2, <1>4 DEF HasParamOfType
  <1> PICK new : new = SetTags(Current, answer)
    OBVIOUS
  <1>6. new = IF DOMAIN answer = {} \/ {} \in ToSet(answer) THEN Current
              ELSE WithTags(Current, {TagsFor(answer)})
    BY DEF SetTags, WithTags, TagsFor
  <1> QED
    BY <1>1, <1>2, <1>3, <1>4, <1>5, <1>6 DEF IsInstruction

\* What is a tag does not depend on the answers for other calls.
LEMMA StillTagged ==
    ASSUME NEW m, NEW ids, NEW more, IsTagged(m, ids), ids \subseteq more,
           m.src \in DOMAIN answers' <=> m.src \in DOMAIN answers,
           m.src \in DOMAIN answers => answers'[m.src] = answers[m.src]
    PROVE  IsTagged(m, more)'
  <1>1. Answered(m)' <=> Answered(m)
    BY DEF Answered
  <1>2. Answered(m) => TagsOf(m)' = TagsOf(m)
    BY DEF Answered, TagsOf
  <1> QED
    BY <1>1, <1>2 DEF IsTagged, IsAnswered

\* The analysis knows the tags of sources only.
LEMMA TagsAreSources ==
    ASSUME MapInv, pass = "tags"
    PROVE  InsertedTags \subseteq SourceIds(Marks(functions))
  <1> SUFFICES ASSUME NEW id \in InsertedTags PROVE id \in SourceIds(Marks(functions))
    OBVIOUS
  <1>1. PICK f \in ToSet(functions) : \E i \in ToSet(f.body) : i.fn = "add_tag" /\ id = i.args[2][2]
    BY DEF InsertedTags
  <1>2. PICK i \in ToSet(f.body) : i.fn = "add_tag" /\ id = i.args[2][2]
    BY <1>1
  <1>3. i \in InstructionsOf(functions)
    BY <1>2 DEF InstructionsOf
  <1>4. TagIsIn(i, SourceIds(Marks(functions)))
    BY <1>3 DEF MapInv, TagSourcesInv
  <1> QED
    BY <1>2, <1>4 DEF TagIsIn

\* The step of the analysis with its pieces named.
Analyses(h, c, l, answer, new) ==
    /\ pass = "tags" /\ pass' = pass /\ dependency_map' = dependency_map
    /\ IsModule(functions) /\ IsModule(functions')
    /\ HasReplaced(functions', functions, h, c, new)
    /\ h \in DOMAIN functions /\ c \in DOMAIN functions[h].body /\ Current = functions[h].body[c]
    /\ h = at[1] /\ c = at[2] /\ at'[1] = h /\ at'[2] = c + 1
    /\ l \in Nat /\ answer \in [1 .. l -> Answers]
    /\ DOMAIN answer # {} => Current.meta # {}
    /\ new.meta = Current.meta /\ new.fn = Current.fn /\ new.args = Current.args
    /\ new.src = Current.src
    /\ IF DOMAIN answer = {} \/ {} \in ToSet(answer) THEN new = Current
       ELSE new.tags = {TagsFor(answer)}
    /\ answers' = IF DOMAIN answer = {} THEN answers
                  ELSE [src \in DOMAIN answers \cup {Current.src} |->
                          IF src \in DOMAIN answers THEN answers[src] ELSE answer]

LEMMA AnalysisIs ==
    ASSUME PassesInv, TagAnalysisResultsAsMetadata
    PROVE  \E h, c, l, answer, new : Analyses(h, c, l, answer, new)
  <1>1. /\ pass = "tags" /\ pass' = pass /\ dependency_map' = dependency_map
        /\ at[2] <= Len(Body) /\ Positioned
    BY DEF TagAnalysisResultsAsMetadata, Visiting, PassesInv, ModuleInv
  <1>2. PICK l, answer, new :
             /\ l \in Nat /\ answer \in [1 .. l -> Answers]
             /\ Visit(<<>>, new) /\ IsRecord(Current)
             /\ DOMAIN answer # {} => Current.meta # {}
             /\ new = IF DOMAIN answer = {} \/ {} \in ToSet(answer) THEN Current
                      ELSE WithTags(Current, {TagsFor(answer)})
             /\ answers' = IF DOMAIN answer = {} THEN answers
                           ELSE [src \in DOMAIN answers \cup {Current.src} |->
                                   IF src \in DOMAIN answers THEN answers[src] ELSE answer]
    BY TagsStep
  <1> PICK h, c : h = at[1] /\ c = at[2]
    OBVIOUS
  <1>3. /\ IsModule(functions') /\ HasReplaced(functions', functions, h, c, new)
        /\ at'[1] = h /\ at'[2] = c + 1
        /\ h \in DOMAIN functions /\ c \in DOMAIN functions[h].body
        /\ Current = functions[h].body[c] /\ IsModule(functions)
    BY <1>1, <1>2, VisitReplaces DEF Positioned
  <1>4. /\ new.meta = Current.meta /\ new.fn = Current.fn /\ new.args = Current.args
        /\ new.src = Current.src
        /\ IF DOMAIN answer = {} \/ {} \in ToSet(answer) THEN new = Current
           ELSE new.tags = {TagsFor(answer)}
    <2>1. CASE DOMAIN answer = {} \/ {} \in ToSet(answer)
      BY <1>2, <2>1
    <2>2. CASE ~(DOMAIN answer = {} \/ {} \in ToSet(answer))
      <3> PICK tags : tags = {TagsFor(answer)}
        OBVIOUS
      <3>1. new = WithTags(Current, tags)
        BY <1>2, <2>2
      <3>2. /\ new.meta = Current.meta /\ new.fn = Current.fn /\ new.args = Current.args
            /\ new.src = Current.src /\ new.tags = tags
        BY <1>2, <3>1, WithTagsIs
      <3> QED
        BY <2>2, <3>2
    <2> QED
      BY <2>1, <2>2
  <1>5. Analyses(h, c, l, answer, new)
    BY <1>1, <1>2, <1>3, <1>4, Zenon DEF Analyses
  <1> QED
    BY <1>5

\* Which answers there are after the step.
LEMMA AnswersAfter ==
    ASSUME NEW h, NEW c, NEW l, NEW answer, NEW new, Analyses(h, c, l, answer, new),
           NEW src, src # Current.src \/ DOMAIN answer = {}
    PROVE  /\ src \in DOMAIN answers' <=> src \in DOMAIN answers
           /\ src \in DOMAIN answers => answers'[src] = answers[src]
  BY DEF Analyses

LEMMA NewAnswer ==
    ASSUME NEW h, NEW c, NEW l, NEW answer, NEW new, Analyses(h, c, l, answer, new),
           DOMAIN answer # {}, Current.src \notin DOMAIN answers
    PROVE  Current.src \in DOMAIN answers' /\ answers'[Current.src] = answer
  BY DEF Analyses

\* A call that is visited now and is given an answer had none before.
LEMMA NotAnswered ==
    ASSUME PassesInv, MapInv, NEW h, NEW c, NEW l, NEW answer, NEW new,
           Analyses(h, c, l, answer, new), DOMAIN answer # {}
    PROVE  Current.src \notin DOMAIN answers /\ Current.meta # {}
  <1>1. /\ pass = "tags" /\ h = at[1] /\ c = at[2] /\ at'[1] = h /\ at'[2] = c + 1
        /\ h \in DOMAIN functions /\ c \in DOMAIN functions[h].body
        /\ Current = functions[h].body[c] /\ Current.meta # {}
    BY Zenon DEF Analyses
  <1>2. ~Passed(h, c)
    BY <1>1, OneMorePassed DEF PassesInv, ModuleInv
  <1> QED
    BY <1>1, <1>2 DEF MapInv, AnswersInv

\* What a call has for tags once it is answered.
LEMMA AnswerTags ==
    ASSUME NEW h, NEW c, NEW l, NEW answer, NEW new, Analyses(h, c, l, answer, new),
           call_site_counter \in Nat, NEW ids, InsertedTags \subseteq ids,
           DOMAIN answer # {}, Current.src \notin DOMAIN answers,
           NEW m, m = Mark(new), Mark(Current).tags = {}
    PROVE  IsAnswered(m, ids)'
  <1>1. /\ l \in Nat /\ answer \in [1 .. l -> Answers] /\ new.src = Current.src
        /\ IF {} \in ToSet(answer) THEN new = Current ELSE new.tags = {TagsFor(answer)}
    BY Zenon DEF Analyses
  <1>2. m.src = Current.src /\ m.tags = new.tags
    BY <1>1, MarkIs
  <1>3. m.src \in DOMAIN answers' /\ answers'[m.src] = answer
    BY <1>2, NewAnswer
  <1>4. Answered(m)' <=> {} \notin ToSet(answer)
    BY <1>3 DEF Answered
  <1>5. CASE {} \in ToSet(answer)
    <2>1. m.tags = {}
      BY <1>1, <1>5
    <2> QED
      BY <1>4, <1>5, <2>1 DEF IsAnswered
  <1>6. CASE {} \notin ToSet(answer)
    <2>1. TagsOf(m)' = Said(answer)
      BY <1>3 DEF TagsOf, Said
    <2> PICK t, T : t = TagsFor(answer) /\ T = Said(answer)
      OBVIOUS
    <2>2. t \in Seq(Nat) /\ ToSet(t) = T /\ ToSet(t) \subseteq ids
      <3>1. t \in Seq(Nat) /\ ToSet(t) = T /\ ToSet(t) \subseteq InsertedTags
        BY <1>1, <1>6, TagsForIs
      <3> QED
        BY <3>1
    <2>3. m.tags = {t} /\ TagsOf(m)' = T
      BY <1>1, <1>2, <1>6, <2>1
    <2> QED
      BY <1>4, <1>6, <2>2, <2>3 DEF IsAnswered
  <1> QED
    BY <1>5, <1>6

\* Every call has for tags what the analysis has answered.
LEMMA TagsKeepTagged ==
    ASSUME PassesInv, CallsInv, MapInv, NEW h, NEW c, NEW l, NEW answer, NEW new,
           Analyses(h, c, l, answer, new)
    PROVE  TaggedInv' /\ SourceIds(Marks(functions)) \subseteq SourceIds(Marks(functions'))
  <1>1. /\ pass = "tags" /\ IsModule(functions) /\ IsModule(functions')
        /\ HasReplaced(functions', functions, h, c, new)
        /\ h \in DOMAIN functions /\ c \in DOMAIN functions[h].body
        /\ Current = functions[h].body[c]
        /\ new.meta = Current.meta /\ new.src = Current.src
        /\ DOMAIN answer = {} => new = Current
    BY Zenon DEF Analyses
  <1> PICK gs : gs = functions'
    OBVIOUS
  <1> PICK M, N, q, r : M = Marks(functions) /\ N = Marks(gs) /\ q = Mark(Current) /\ r = Mark(new)
    OBVIOUS
  <1> PICK ids, more : ids = SourceIds(M) /\ more = SourceIds(N)
    OBVIOUS
  <1>2. q.meta = Current.meta /\ r.meta = q.meta /\ q.src = Current.src /\ r.src = q.src
    BY <1>1, MarkIs
  <1>3. /\ \A m, f, k : IsMarkAt(m, gs, f, k) =>
             \/ IsMarkAt(m, functions, f, k) /\ ~(f = h /\ k = c)
             \/ f = h /\ k = c /\ new.meta # {} /\ m = r
        /\ \A m, f, k : IsMarkAt(m, functions, f, k) =>
             \/ IsMarkAt(m, gs, f, k) /\ ~(f = h /\ k = c)
             \/ f = h /\ k = c /\ m = q
        /\ new.meta # {} => IsMarkAt(r, gs, h, c)
    BY <1>1, ReplacedMarks
  <1>4. Current.meta # {} => IsMarkAt(q, functions, h, c)
    BY <1>1 DEF IsMarkAt
  <1>5. ids \subseteq more
    <2>1. ASSUME NEW m \in M PROVE \E n \in N : n.meta = m.meta
      <3>1. PICK f, k : IsMarkAt(m, functions, f, k)
        BY <1>1, MarksAre
      <3>2. CASE IsMarkAt(m, gs, f, k)
        <4>1. m \in N
          BY <1>1, <3>2, MarksAre
        <4> QED
          BY <4>1
      <3>3. CASE m = q
        <4>1. m.meta # {}
          <5>1. functions[f].body[k].meta # {} /\ m = Mark(functions[f].body[k])
            BY <3>1 DEF IsMarkAt
          <5> QED
            BY <5>1, MarkIs
        <4>2. IsMarkAt(r, gs, h, c)
          BY <1>1, <1>2, <1>3, <3>3, <4>1
        <4>3. r \in N
          BY <1>1, <4>2, MarksAre
        <4> QED
          BY <1>2, <3>3, <4>3
      <3> QED
        BY <1>3, <3>1, <3>2, <3>3
    <2> QED
      BY <2>1, SourceIdsGrow
  <1>6. \A m \in M : IsTagged(m, ids)
    BY DEF MapInv, TaggedInv
  <1>7. InsertedTags \subseteq more
    <2>1. InsertedTags \subseteq ids
      BY <1>1, TagsAreSources
    <2> QED
      BY <1>5, <2>1
  <1>8. ASSUME NEW m \in N PROVE IsTagged(m, more)'
    <2>1. PICK f, k : IsMarkAt(m, gs, f, k)
      BY <1>1, MarksAre
    <2>2. CASE IsMarkAt(m, functions, f, k) /\ ~(f = h /\ k = c)
      <3>1. m \in M
        BY <1>1, <2>2, MarksAre
      <3>2. m.src # Current.src \/ DOMAIN answer = {}
        <4> SUFFICES ASSUME DOMAIN answer # {}, m.src = Current.src PROVE FALSE
          OBVIOUS
        <4>1. IsMarkAt(q, functions, h, c)
          BY <1>4, NotAnswered
        <4>2. m.src = q.src
          BY <1>2
        <4> QED
          BY <1>1, <2>2, <4>1, <4>2, MarkedOnce
      <3>3. /\ m.src \in DOMAIN answers' <=> m.src \in DOMAIN answers
            /\ m.src \in DOMAIN answers => answers'[m.src] = answers[m.src]
        BY <3>2, AnswersAfter
      <3>4. IsTagged(m, ids)
        BY <1>6, <3>1
      <3> QED
        BY <1>5, <3>3, <3>4, StillTagged
    <2>3. CASE new.meta # {} /\ m = r
      <3>1. q \in M
        BY <1>1, <1>4, <2>3, MarksAre
      <3>2. IsTagged(q, ids)
        BY <1>6, <3>1
      <3>3. CASE DOMAIN answer = {}
        <4>1. m = q
          BY <1>1, <2>3, <3>3
        <4>2. /\ m.src \in DOMAIN answers' <=> m.src \in DOMAIN answers
              /\ m.src \in DOMAIN answers => answers'[m.src] = answers[m.src]
          BY <3>3, AnswersAfter
        <4> QED
          BY <1>5, <3>2, <4>1, <4>2, StillTagged
      <3>4. CASE DOMAIN answer # {}
        <4>1. Current.src \notin DOMAIN answers
          BY <3>4, NotAnswered
        <4>2. q.tags = {} /\ \E x : q.meta = {x}
          <5>1. ~Answered(q)
            BY <1>2, <4>1 DEF Answered
          <5> QED
            BY <3>2, <5>1 DEF IsTagged, IsAnswered
        <4>3. IsAnswered(m, more)'
          <5>1. m = Mark(new) /\ Mark(Current).tags = {} /\ call_site_counter \in Nat
            BY <2>3, <4>2 DEF PassesInv
          <5> QED
            BY <1>7, <3>4, <4>1, <5>1, AnswerTags
        <4>4. \E x : m.meta = {x}
          BY <1>2, <2>3, <4>2
        <4> QED
          BY <4>3, <4>4 DEF IsTagged
      <3> QED
        BY <3>3, <3>4
    <2> QED
      BY <1>3, <2>1, <2>2, <2>3
  <1>9. Marks(functions)' = N /\ SourceIds(Marks(functions))' = more
    OBVIOUS
  <1> QED
    BY <1>5, <1>8, <1>9 DEF TaggedInv

LEMMA TagsKeepAnswers ==
    ASSUME PassesInv, CallsInv, MapInv, NEW h, NEW c, NEW l, NEW answer, NEW new,
           Analyses(h, c, l, answer, new)
    PROVE  AnswersInv'
  <1>1. /\ pass = "tags" /\ pass' = pass /\ IsModule(functions)
        /\ HasReplaced(functions', functions, h, c, new)
        /\ h \in DOMAIN functions /\ c \in DOMAIN functions[h].body
        /\ Current = functions[h].body[c]
        /\ h = at[1] /\ c = at[2] /\ at'[1] = h /\ at'[2] = c + 1
    BY Zenon DEF Analyses
  <1>2. ASSUME NEW f \in DOMAIN functions', NEW k \in DOMAIN functions'[f].body,
               ~Passed(f, k)', functions'[f].body[k].meta # {}
        PROVE  functions'[f].body[k].src \notin DOMAIN answers'
    <2>1. /\ f \in DOMAIN functions /\ k \in DOMAIN functions[f].body
      BY <1>1 DEF HasReplaced
    <2>2. ~Passed(f, k) /\ ~(f = h /\ k = c)
      BY <1>1, <1>2, <2>1, OneMorePassed DEF PassesInv, ModuleInv
    <2> PICK i : i = functions[f].body[k]
      OBVIOUS
    <2>3. functions'[f].body[k] = i
      BY <1>1, <2>1, <2>2 DEF HasReplaced
    <2>4. i.src \notin DOMAIN answers
      BY <1>1, <1>2, <2>1, <2>2, <2>3 DEF MapInv, AnswersInv
    <2>5. i.src # Current.src \/ DOMAIN answer = {}
      <3> SUFFICES ASSUME DOMAIN answer # {}, i.src = Current.src PROVE FALSE
        OBVIOUS
      <3>1. IsMarkAt(Mark(Current), functions, h, c)
        BY <1>1, NotAnswered DEF IsMarkAt
      <3>2. IsMarkAt(Mark(i), functions, f, k)
        BY <1>2, <2>1, <2>3 DEF IsMarkAt
      <3>3. Mark(i).src = Mark(Current).src
        BY MarkIs
      <3> QED
        BY <1>1, <2>2, <3>1, <3>2, <3>3, MarkedOnce
    <2> QED
      BY <2>3, <2>4, <2>5, AnswersAfter
  <1> QED
    BY <1>1, <1>2 DEF AnswersInv, BeforeTags

LEMMA TagsKeepMap == PassesInv /\ CallsInv /\ MapInv /\ TagAnalysisResultsAsMetadata => MapInv'
  <1> SUFFICES ASSUME PassesInv, CallsInv, MapInv, TagAnalysisResultsAsMetadata PROVE MapInv'
    OBVIOUS
  <1>1. PICK h, c, l, answer, new : Analyses(h, c, l, answer, new)
    BY AnalysisIs
  <1>2. TaggedInv' /\ SourceIds(Marks(functions)) \subseteq SourceIds(Marks(functions'))
    BY <1>1, TagsKeepTagged
  <1>3. AnswersInv'
    BY <1>1, TagsKeepAnswers
  <1>4. /\ pass = "tags" /\ pass' = pass /\ dependency_map' = dependency_map
        /\ IsModule(functions) /\ IsModule(functions')
        /\ HasReplaced(functions', functions, h, c, new)
        /\ h \in DOMAIN functions /\ c \in DOMAIN functions[h].body
        /\ Current = functions[h].body[c] /\ new.fn = Current.fn /\ new.args = Current.args
    BY <1>1, Zenon DEF Analyses
  <1> PICK ids, more, gs : ids = SourceIds(Marks(functions)) /\ gs = functions' /\ more = SourceIds(Marks(gs))
    OBVIOUS
  <1>5. \A i \in InstructionsOf(functions) : TagIsIn(i, ids)
    BY <1>4 DEF MapInv, TagSourcesInv
  <1>6. ASSUME NEW i \in InstructionsOf(gs) PROVE TagIsIn(i, more)
    <2>1. i \in InstructionsOf(functions) \/ i = new
      BY <1>4, ReplacedInstructions
    <2>2. CASE i \in InstructionsOf(functions)
      BY <1>2, <1>5, <2>2, TaggedStays
    <2>3. CASE i = new
      <3>1. TagIsIn(Current, ids)
        BY <1>4, <1>5, ModuleIs
      <3>2. TagIsIn(i, ids)
        BY <1>4, <2>3, <3>1 DEF TagIsIn
      <3> QED
        BY <1>2, <3>2, TaggedStays
    <2> QED
      BY <2>1, <2>2, <2>3
  <1>7. TagSourcesInv'
    BY <1>6 DEF TagSourcesInv
  <1>8. PrintedInv'
    BY <1>4 DEF MapInv, PrintedInv, BeforeMap, BeforeTags, AfterMap
  <1> QED
    BY <1>2, <1>3, <1>7, <1>8 DEF MapInv

\* Two calls that have one number are one call.
LEMMA NumberedOnce ==
    ASSUME CallsInv, IsModule(functions), NEW m, NEW n, NEW f, NEW g, NEW k, NEW l,
           IsMarkAt(m, functions, f, k), IsMarkAt(n, functions, g, l),
           CallSiteIds(m) \cap CallSiteIds(n) # {}
    PROVE  f = g /\ k = l
  <1> PICK i, j : i = functions[f].body[k] /\ j = functions[g].body[l]
    OBVIOUS
  <1>1. /\ f \in DOMAIN functions /\ k \in DOMAIN functions[f].body /\ i.meta # {} /\ m = Mark(i)
        /\ g \in DOMAIN functions /\ l \in DOMAIN functions[g].body /\ n = Mark(j)
    BY DEF IsMarkAt
  <1>2. i \in InstructionsOf(functions) /\ j \in InstructionsOf(functions)
    BY <1>1, ModuleIs
  <1>3. PICK id : id \in CallSiteIds(i) /\ id \in CallSiteIds(j)
    BY <1>1, MarkIs
  <1>4. IsNumberOf(id, i.src) /\ IsNumberOf(id, j.src)
    BY <1>2, <1>3 DEF CallsInv, NumbersInv, IsSiteOnce
  <1>5. PICK p \in CallSites :
          input[p[1]].body[p[2]].src = i.src /\ id = Cardinality(CallSitesBefore(p))
    BY <1>4 DEF IsNumberOf
  <1>6. PICK q \in CallSites :
          input[q[1]].body[q[2]].src = j.src /\ id = Cardinality(CallSitesBefore(q))
    BY <1>4 DEF IsNumberOf
  <1>7. i.src = j.src
    <2>1. IsModule(input)
      BY CleanIs DEF CallsInv, InputInv
    <2> QED
      BY <1>5, <1>6, <2>1, NumbersDiffer
  <1>8. m.src = n.src
    BY <1>1, <1>7, MarkIs
  <1> QED
    BY <1>8, MarkedOnce

-----------------------------------------------------------------------------
(* OutputDependencyMap *)

LEMMA ListsMore ==
    ASSUME NEW S, NEW s, Lists(s, S), NEW e
    PROVE  /\ Lists(Append(s, e), S \cup {e}) /\ Len(Append(s, e)) = Len(s) + 1
  <1> PICK n, T, r : n = Len(s) /\ T = S \cup {e} /\ r = Append(s, e)
    OBVIOUS
  <1>0. s \in Seq(S) /\ ToSet(s) = S
    BY DEF Lists
  <1>1. n \in Nat /\ DOMAIN s = 1 .. n /\ \A k \in 1 .. n : s[k] \in S
    BY <1>0
  <1>2. s \in Seq(T)
    BY <1>0, SeqMonotonic
  <1>3. r \in Seq(T) /\ Len(r) = n + 1 /\ \A k \in 1 .. n : r[k] = s[k]
    BY <1>2
  <1>4. r[n + 1] = e
    BY <1>2
  <1>5. DOMAIN r = 1 .. n + 1
    BY <1>3
  <1>6. \A k \in 1 .. n + 1 : k \in 1 .. n \/ k = n + 1
    BY <1>1
  <1>7. n + 1 \in 1 .. n + 1 /\ \A k \in 1 .. n : k \in 1 .. n + 1
    BY <1>1
  <1>8. ToSet(r) = T
    <2>1. \A x : x \in ToSet(r) <=> \E k \in 1 .. n + 1 : x = r[k]
      BY <1>5 DEF ToSet
    <2>2. \A x : x \in ToSet(s) <=> \E k \in 1 .. n : x = s[k]
      BY <1>1 DEF ToSet
    <2> QED
      BY <1>0, <1>3, <1>4, <1>6, <1>7, <2>1, <2>2
  <1> QED
    BY <1>3, <1>8 DEF Lists

LEMMA ListsBoth ==
    ASSUME NEW S, NEW s, Lists(s, S), NEW T, NEW t, Lists(t, T)
    PROVE  Lists(s \o t, S \cup T)
  <1> PICK U : U = S \cup T
    OBVIOUS
  <1>1. s \in Seq(S) /\ ToSet(s) = S /\ t \in Seq(T) /\ ToSet(t) = T
    BY DEF Lists
  <1>2. s \in Seq(U) /\ t \in Seq(U)
    BY <1>1, SeqMonotonic
  <1>3. s \o t \in Seq(U)
    BY <1>2
  <1>4. ToSet(s \o t) = ToSet(s) \cup ToSet(t)
    BY <1>2, ConcatMembers
  <1> QED
    BY <1>1, <1>3, <1>4 DEF Lists

EdgesTo(id, tags) == [n \in DOMAIN tags |-> <<id, tags[n]>>]

LEMMA ListsEdges ==
    ASSUME NEW T, NEW tags, Lists(tags, T), NEW id
    PROVE  Lists(EdgesTo(id, tags), {id} \X T)
  <1>0. PICK r : r = EdgesTo(id, tags)
    OBVIOUS
  <1> PICK n : n = Len(tags)
    OBVIOUS
  <1>1. n \in Nat /\ DOMAIN tags = 1 .. n /\ ToSet(tags) = T
    BY DEF Lists
  <1>2. \A k \in 1 .. n : tags[k] \in T
    BY <1>1 DEF ToSet
  <1>3. \A x : x \in T => \E k \in 1 .. n : x = tags[k]
    BY <1>1 DEF ToSet
  <1>4. DOMAIN r = 1 .. n /\ \A k \in 1 .. n : r[k] = <<id, tags[k]>>
    BY <1>0, <1>1 DEF EdgesTo
  <1>11. r = [k \in 1 .. n |-> r[k]]
    BY <1>0, <1>1 DEF EdgesTo
  <1> PICK E : E = {id} \X T
    OBVIOUS
  <1>5. \A k \in 1 .. n : r[k] \in E
    BY <1>2, <1>4
  <1>7. r \in [1 .. n -> E]
    BY <1>5, <1>11, Zenon
  <1>8. r \in Seq(E)
    BY <1>1, <1>7, FunctionIsSeq
  <1>9. ASSUME NEW e \in ToSet(r) PROVE e \in E
    <2>1. PICK k \in DOMAIN r : e = r[k]
      BY DEF ToSet
    <2> QED
      BY <1>4, <1>5, <2>1
  <1>10. ASSUME NEW e \in E PROVE e \in ToSet(r)
    <2>1. e = <<id, e[2]>> /\ e[2] \in T
      OBVIOUS
    <2>2. PICK k \in 1 .. n : e[2] = tags[k]
      BY <1>3, <2>1
    <2>3. e = r[k]
      BY <1>4, <2>1, <2>2
    <2> QED
      BY <1>4, <2>3 DEF ToSet
  <1> QED
    BY <1>0, <1>8, <1>9, <1>10 DEF Lists

\* What the map says of one call more.
LEMMA OneMoreMark ==
    ASSUME NEW M, NEW q
    PROVE  /\ IdsOf(M \cup {q}) = IdsOf(M) \cup CallSiteIds(q)
           /\ NodesOf(M \cup {q}) = NodesOf(M) \cup NodesFor(q)
           /\ EdgesOf(M \cup {q}) = EdgesOf(M) \cup EdgesFor(q)
  BY Zenon DEF IdsOf, NodesOf, EdgesOf

LEMMA OneMoreNode ==
    ASSUME NEW map, NEW M, MapIs(map, M), NEW q, NEW id, CallSiteIds(q) = {id},
           id \notin IdsOf(M), NEW node, NodesFor(q) = {node}, NEW edges, Lists(edges, EdgesFor(q)),
           NEW new, new.nodes = Append(map.nodes, node), new.edges = map.edges \o edges
    PROVE  MapIs(new, M \cup {q})
  <1> PICK N : N = M \cup {q}
    OBVIOUS
  <1>1. /\ IdsOf(N) = IdsOf(M) \cup {id}
        /\ NodesOf(N) = NodesOf(M) \cup {node}
        /\ EdgesOf(N) = EdgesOf(M) \cup EdgesFor(q)
    BY OneMoreMark
  <1>2. /\ IsFiniteSet(IdsOf(M)) /\ Len(map.nodes) = Cardinality(IdsOf(M))
        /\ Lists(map.nodes, NodesOf(M)) /\ Lists(map.edges, EdgesOf(M))
    BY Zenon DEF MapIs
  <1>3. IsFiniteSet(IdsOf(N)) /\ Cardinality(IdsOf(N)) = Cardinality(IdsOf(M)) + 1
    <2> PICK A, n : A = IdsOf(M) /\ n = Cardinality(A)
      OBVIOUS
    <2>1. IsFiniteSet(A) /\ id \notin A
      BY <1>2
    <2>2. IsFiniteSet(A \cup {id})
      BY <2>1, FS_AddElement
    <2>3. Cardinality(A \cup {id}) = n + 1
      BY <2>1, FS_AddElement
    <2> QED
      BY <1>1, <2>2, <2>3
  <1>4. Lists(new.nodes, NodesOf(N)) /\ Len(new.nodes) = Len(map.nodes) + 1
    <2> PICK A, s : A = NodesOf(M) /\ s = map.nodes
      OBVIOUS
    <2>1. Lists(s, A)
      BY <1>2
    <2>2. Lists(Append(s, node), A \cup {node}) /\ Len(Append(s, node)) = Len(s) + 1
      BY <2>1, ListsMore
    <2> QED
      BY <1>1, <2>2
  <1>5. Lists(new.edges, EdgesOf(N))
    <2> PICK A, B, s : A = EdgesOf(M) /\ B = EdgesFor(q) /\ s = map.edges
      OBVIOUS
    <2>1. Lists(s, A) /\ Lists(edges, B)
      BY <1>2
    <2>2. Lists(s \o edges, A \cup B)
      BY <2>1, ListsBoth
    <2> QED
      BY <1>1, <2>2
  <1> QED
    BY <1>2, <1>3, <1>4, <1>5 DEF MapIs

\* The tags that the pass prints, all of them.
LEMMA TagsListed ==
    ASSUME NEW m, NEW ids, IsAnswered(m, ids),
           NEW tags, tags = IF m.tags = {} THEN <<>> ELSE CHOOSE t \in m.tags : TRUE
    PROVE  Lists(tags, UNION {ToSet(t) : t \in m.tags})
  <1>1. CASE m.tags = {}
    <2>1. tags = <<>> /\ UNION {ToSet(t) : t \in m.tags} = {}
      BY <1>1
    <2>2. <<>> \in Seq({}) /\ ToSet(<<>>) = {}
      BY DEF ToSet
    <2> QED
      BY <2>1, <2>2 DEF Lists
  <1>2. CASE m.tags # {}
    <2>1. PICK t : m.tags = {t} /\ t \in Seq(Nat)
      BY <1>2 DEF IsAnswered
    <2>2. tags = t /\ UNION {ToSet(u) : u \in m.tags} = ToSet(t)
      BY <1>2, <2>1
    <2>3. t \in Seq(ToSet(t))
      BY <2>1, OfMembers
    <2> QED
      BY <2>2, <2>3 DEF Lists
  <1> QED
    BY <1>1, <1>2

\* What the pass prints of one call.
LEMMA PrintsOne ==
    ASSUME NEW ids, IsTagged(Mark(Current), ids), IsDirectCall(Current), OutputDependencyMap
    PROVE  \E id, node, edges :
             /\ CallSiteIds(Mark(Current)) = {id} /\ NodesFor(Mark(Current)) = {node}
             /\ Lists(edges, EdgesFor(Mark(Current)))
             /\ dependency_map'.nodes = Append(dependency_map.nodes, node)
             /\ dependency_map'.edges = dependency_map.edges \o edges
  <1> PICK q : q = Mark(Current)
    OBVIOUS
  <1>1. /\ q.meta = Current.meta /\ q.tags = Current.tags /\ q.fn = Current.fn
        /\ CallSiteIds(Current) = CallSiteIds(q)
    BY MarkIs
  <1>2. PICK x : q.meta = {x}
    BY DEF IsTagged
  <1> PICK id : id = x.id
    OBVIOUS
  <1>3. CallSiteIds(q) = {id}
    BY <1>2 DEF CallSiteIds
  <1> PICK tags : tags = IF q.tags = {} THEN <<>> ELSE CHOOSE t \in q.tags : TRUE
    OBVIOUS
  <1> PICK node : node = [id |-> id, fn |-> q.fn]
    OBVIOUS
  <1>0. PICK edges : edges = EdgesTo(id, tags)
    OBVIOUS
  <1> PICK T : T = UNION {ToSet(t) : t \in q.tags}
    OBVIOUS
  <1>4. NodesFor(q) = {node} /\ EdgesFor(q) = {id} \X T
    BY <1>3 DEF NodesFor, EdgesFor
  <1>5. Lists(tags, T)
    BY TagsListed DEF IsTagged
  <1>6. Lists(edges, {id} \X T)
    BY <1>0, <1>5, ListsEdges
  <1>7. dependency_map' =
          [nodes |-> Append(dependency_map.nodes, [id |-> id, fn |-> Current.fn]),
           edges |-> dependency_map.edges \o EdgesTo(id, tags)]
    <2>1. CallSiteIds(Current) = {id} /\ (CHOOSE n \in {id} : TRUE) = id
      BY <1>1, <1>3
    <2> QED
      BY <1>1, <2>1 DEF OutputDependencyMap, EdgesTo
  <1>8. /\ dependency_map'.nodes = Append(dependency_map.nodes, node)
        /\ dependency_map'.edges = dependency_map.edges \o edges
    BY <1>0, <1>1, <1>7
  <1>9. CallSiteIds(q) = {id} /\ NodesFor(q) = {node} /\ Lists(edges, EdgesFor(q))
    BY <1>3, <1>4, <1>6
  <1> QED
    BY <1>8, <1>9

\* The pass has visited one call more.
LEMMA MarksPassedNext ==
    ASSUME Positioned, functions' = functions, at'[1] = at[1], at'[2] = at[2] + 1
    PROVE  /\ \A m : m \in MarksPassed' <=>
                m \in MarksPassed \/ IsMarkAt(m, functions, at[1], at[2])
           /\ \A m \in MarksPassed :
                \E f, k : /\ IsMarkAt(m, functions, f, k) /\ Passed(f, k)
                          /\ ~(f = at[1] /\ k = at[2])
  <1> PICK h, c : h = at[1] /\ c = at[2]
    OBVIOUS
  <1>1. IsModule(functions)
    BY DEF Positioned
  <1>2. \A m, f, k : IsMarkAt(m, functions', f, k) <=> IsMarkAt(m, functions, f, k)
    OBVIOUS
  <1>3. \A m, f, k : IsMarkAt(m, functions, f, k) =>
          /\ Passed(f, k)' <=> Passed(f, k) \/ (f = h /\ k = c)
          /\ f = h /\ k = c => ~Passed(f, k)
    BY OneMorePassed DEF IsMarkAt
  <1>4. \A m : m \in MarksPassed' <=> \E f, k : IsMarkAt(m, functions, f, k) /\ Passed(f, k)'
    BY <1>1, <1>2, MarksAre DEF MarksPassed
  <1>5. \A m : m \in MarksPassed <=> \E f, k : IsMarkAt(m, functions, f, k) /\ Passed(f, k)
    BY <1>1, MarksAre DEF MarksPassed
  <1> QED
    BY <1>3, <1>4, <1>5

LEMMA OutputDependencyMapKeepsMap ==
    PassesInv /\ CallsInv /\ CountInv /\ MapInv /\ OutputDependencyMap => MapInv'
  <1> SUFFICES ASSUME PassesInv, CallsInv, CountInv, MapInv, OutputDependencyMap PROVE MapInv'
    OBVIOUS
  <1>1. /\ pass = "dependency_map" /\ pass' = pass /\ at[2] <= Len(Body) /\ Visit(<<>>, Current)
        /\ UNCHANGED <<arguments, answers>> /\ Positioned
    BY DEF OutputDependencyMap, Visiting, history, PassesInv, ModuleInv
  <1>0. WritesMap /\ WritesMap'
    <2>1. WritesMap
      BY <1>1 DEF OutputDependencyMap, WritesMap, CountInv
    <2> QED
      BY <1>1, <2>1, WritesMapKept
  <1> PICK h, c : h = at[1] /\ c = at[2]
    OBVIOUS
  <1>2. functions' = functions /\ at'[1] = h /\ at'[2] = c + 1
    BY <1>1, VisitSame
  <1>3. TaggedInv' /\ AnswersInv' /\ TagSourcesInv'
    <2>1. TaggedInv'
      BY <1>1, <1>2, TaggedKept DEF MapInv
    <2> QED
      BY <1>1, <2>1 DEF AnswersInv, TagSourcesInv, BeforeTags
  <1>4. /\ Current \in InstructionsOf(functions) /\ IsModule(functions)
        /\ h \in DOMAIN functions /\ c \in DOMAIN functions[h].body
        /\ Current = functions[h].body[c]
    <2>1. Len(Body) \in Nat /\ DOMAIN Body = 1 .. Len(Body)
      BY <1>1, ModuleIs DEF Positioned, Body
    <2> QED
      BY <1>1, <2>1, CurrentIs DEF Positioned, Current, Body
  <1> PICK M, N, q : M = MarksPassed /\ N = MarksPassed' /\ q = Mark(Current)
    OBVIOUS
  <1>5. /\ \A m : m \in N <=> m \in M \/ IsMarkAt(m, functions, h, c)
        /\ \A m \in M : \E f, k : IsMarkAt(m, functions, f, k) /\ ~(f = h /\ k = c)
    BY <1>1, <1>2, MarksPassedNext
  <1>6. MapIs(dependency_map, M)
    BY <1>0, <1>1 DEF MapInv, PrintedInv, Written
  <1>7. MapIs(dependency_map', N)
    <2>1. CASE Current.meta = {}
      <3>1. N = M
        BY <1>4, <1>5, <2>1 DEF IsMarkAt
      <3>2. dependency_map' = dependency_map
        BY <2>1 DEF OutputDependencyMap, CallSiteIds
      <3> QED
        BY <1>6, <3>1, <3>2
    <2>2. CASE Current.meta # {}
      <3>1. N = M \cup {q}
        <4>1. \A m : IsMarkAt(m, functions, h, c) <=> m = q
          BY <1>4, <2>2 DEF IsMarkAt
        <4> QED
          BY <1>5, <4>1
      <3>2. IsDirectCall(Current)
        BY <1>4, <2>2 DEF PassesInv, ModuleInv, IsInstruction
      <3>3. IsMarkAt(q, functions, h, c)
        BY <1>4, <2>2 DEF IsMarkAt
      <3> PICK ids : ids = SourceIds(Marks(functions))
        OBVIOUS
      <3>4. IsTagged(q, ids)
        <4>1. q \in Marks(functions)
          BY <1>4, <3>3, MarksAre
        <4> QED
          BY <4>1 DEF MapInv, TaggedInv
      <3>5. PICK id, node, edges :
              /\ CallSiteIds(q) = {id} /\ NodesFor(q) = {node} /\ Lists(edges, EdgesFor(q))
              /\ dependency_map'.nodes = Append(dependency_map.nodes, node)
              /\ dependency_map'.edges = dependency_map.edges \o edges
        BY <3>2, <3>4, PrintsOne
      <3>6. id \notin IdsOf(M)
        <4> SUFFICES ASSUME id \in IdsOf(M) PROVE FALSE
          OBVIOUS
        <4>1. PICK m \in M : id \in CallSiteIds(m)
          BY DEF IdsOf
        <4>2. PICK f, k : IsMarkAt(m, functions, f, k) /\ ~(f = h /\ k = c)
          BY <1>5
        <4>3. CallSiteIds(m) \cap CallSiteIds(q) # {}
          BY <3>5, <4>1
        <4> QED
          BY <1>4, <3>3, <4>2, <4>3, NumberedOnce
      <3> PICK map, new : map = dependency_map /\ new = dependency_map'
        OBVIOUS
      <3>7. MapIs(new, M \cup {q})
        BY <1>6, <3>5, <3>6, OneMoreNode
      <3> QED
        BY <3>1, <3>7
    <2> QED
      BY <2>1, <2>2
  <1>8. PrintedInv'
    BY <1>0, <1>1, <1>7 DEF PrintedInv, Written, BeforeMap, BeforeTags, AfterMap
  <1> QED
    BY <1>3, <1>8 DEF MapInv

-----------------------------------------------------------------------------
(* The end of a function, and of a pass *)

\* On the way to the next function no call is passed that was not; at the end of
\* a pass all are.
LEMMA EndPasses ==
    ASSUME PassesInv, EndOfFunction, NEW f \in DOMAIN functions, NEW k \in DOMAIN functions[f].body
    PROVE  /\ at[1] < Len(functions) => (Passed(f, k)' <=> Passed(f, k))
           /\ at[1] = Len(functions) => Passed(f, k)
  <1> PICK h, c, n : h = at[1] /\ c = at[2] /\ n = Len(functions)
    OBVIOUS
  <1>1. /\ h \in Nat /\ c \in Nat /\ n \in Nat
        /\ f \in Nat /\ 1 <= f /\ f <= n /\ k \in Nat /\ 1 <= k /\ (f = h => k < c)
        /\ h < n => at'[1] = h + 1 /\ at'[2] = 1
    BY EndIs
  <1>2. h < n => ((f < h + 1 \/ (f = h + 1 /\ k < 1)) <=> (f < h \/ (f = h /\ k < c)))
    BY <1>1
  <1>3. h = n => f < h \/ (f = h /\ k < c)
    BY <1>1
  <1> QED
    BY <1>1, <1>2, <1>3 DEF Passed

\* The same pass goes on.
LEMMA PassGoesOn ==
    ASSUME PassesInv, MapInv, EndOfFunction, pass' = pass, functions' = functions,
           at[1] < Len(functions), UNCHANGED <<arguments, answers, dependency_map>>
    PROVE  MapInv'
  <1>1. TaggedInv'
    BY TaggedKept DEF MapInv
  <1>2. AnswersInv'
    BY EndPasses DEF MapInv, AnswersInv
  <1>3. TagSourcesInv'
    BY DEF MapInv, TagSourcesInv
  <1>4. MarksPassed' = MarksPassed
    <2>1. \A m, f, k : IsMarkAt(m, functions', f, k) <=> IsMarkAt(m, functions, f, k)
      OBVIOUS
    <2>2. \A m, f, k : IsMarkAt(m, functions, f, k) => (Passed(f, k)' <=> Passed(f, k))
      BY EndPasses DEF IsMarkAt
    <2> QED
      BY <2>1, <2>2 DEF MarksPassed
  <1>5. PrintedInv'
    BY <1>4, WritesMapKept DEF MapInv, PrintedInv, Written
  <1> QED
    BY <1>1, <1>2, <1>3, <1>5 DEF MapInv

\* The map is printed.
LEMMA MapIsPrinted ==
    ASSUME PassesInv, MapInv, EndOfFunction, pass = "dependency_map",
           pass' = "configure_logging", functions' = functions, IsModule(functions),
           at[1] = Len(functions), UNCHANGED <<arguments, answers, dependency_map>>
    PROVE  MapInv'
  <1>1. MarksPassed = Marks(functions)
    <2>1. \A m : m \in Marks(functions) => \E f, k : IsMarkAt(m, functions, f, k)
      BY MarksAre
    <2>2. \A m, f, k : IsMarkAt(m, functions, f, k) => Passed(f, k)
      BY EndPasses DEF IsMarkAt
    <2> QED
      BY <2>1, <2>2 DEF MarksPassed
  <1>2. MapIs(dependency_map, Written(Marks(functions)))'
    BY <1>1, WritesMapKept DEF MapInv, PrintedInv, Written
  <1>3. PrintedInv'
    BY <1>2 DEF PrintedInv, BeforeMap, BeforeTags
  <1>4. TaggedInv'
    BY TaggedKept DEF MapInv
  <1> QED
    BY <1>3, <1>4 DEF MapInv, AnswersInv, TagSourcesInv, BeforeTags

LEMMA EndOfFunctionKeepsMap == PassesInv /\ CallsInv /\ MapInv /\ EndOfFunction => MapInv'
  <1> SUFFICES ASSUME PassesInv, CallsInv, MapInv, EndOfFunction PROVE MapInv'
    OBVIOUS
  <1>1. /\ functions' = functions /\ IsModule(functions)
        /\ \/ at[1] < Len(functions) /\ pass' = pass
           \/ at[1] = Len(functions) /\ pass' = NextPass[pass]
        /\ pass \in {"print", "add_metadata", "add_sources", "wrap_sinks", "tags",
                     "dependency_map", "add_logging"}
    BY EndIs
  <1>2. UNCHANGED <<arguments, answers, dependency_map>>
    BY DEF EndOfFunction, history
  <1>3. CASE at[1] < Len(functions) /\ pass' = pass
    BY <1>1, <1>2, <1>3, PassGoesOn
  <1>4. CASE at[1] = Len(functions) /\ pass' = NextPass[pass]
    <2>1. CASE pass = "print"
      <3>1. pass' = "done"
        BY <1>4, <2>1 DEF NextPass
      <3>2. Clean(functions')
        BY <1>1, <2>1 DEF CallsInv, InputInv, UntouchedInv, Untouched
      <3>3. answers' = <<>> /\ MapIs(dependency_map', {})
        BY <1>2, <2>1 DEF MapInv, AnswersInv, PrintedInv, BeforeMap, BeforeTags
      <3> QED
        BY <3>1, <3>2, <3>3, CleanKeepsMap
    <2>2. CASE pass = "dependency_map"
      <3>1. pass' = "configure_logging"
        BY <1>4, <2>2 DEF NextPass
      <3> QED
        BY <1>1, <1>2, <1>4, <2>2, <3>1, MapIsPrinted
    <2>3. CASE \/ pass = "add_metadata" /\ pass' = "add_sources"
               \/ pass = "add_sources" /\ pass' = "wrap_sinks"
               \/ pass = "wrap_sinks" /\ pass' = "tags"
               \/ pass = "tags" /\ pass' = "remove_sources"
               \/ pass = "add_logging" /\ pass' = "done"
      BY <1>1, <1>2, <2>3, ModuleKept DEF BeforeTags, BeforeMap, AfterMap
    <2> QED
      BY <1>1, <1>4, <2>1, <2>2, <2>3 DEF NextPass
  <1> QED
    BY <1>1, <1>3, <1>4

LEMMA StutterKeepsMap == MapInv /\ UNCHANGED vars => MapInv'
  <1> SUFFICES ASSUME MapInv, UNCHANGED vars PROVE MapInv'
    OBVIOUS
  <1>1. UNCHANGED <<functions, at, pass, arguments, answers, dependency_map>>
    BY DEF vars, module_vars, history
  <1>2. TaggedInv'
    BY <1>1, TaggedKept DEF MapInv
  <1>3. \A f, k : Passed(f, k)' <=> Passed(f, k)
    BY <1>1 DEF Passed
  <1>4. AnswersInv' /\ TagSourcesInv'
    BY <1>1, <1>3 DEF MapInv, AnswersInv, TagSourcesInv
  <1>5. MarksPassed' = MarksPassed
    BY <1>1, <1>3 DEF MarksPassed
  <1>6. PrintedInv'
    BY <1>1, <1>5, WritesMapKept DEF MapInv, PrintedInv, Written
  <1> QED
    BY <1>2, <1>4, <1>6 DEF MapInv

-----------------------------------------------------------------------------
(* The theorems *)

\* Where the metadata of each call is, and what was printed of it, at every step
\* of every pass.
THEOREM MapInvariant == Spec => []MapInv
  <1>1. Init => MapInv
    BY InitGivesMap
  <1>2. PassesInv /\ CallsInv /\ CountInv /\ MapInv /\ [Next]_vars => MapInv'
    BY StartKeepsMap, PrintKeepsMap, LoadInputFileKeepsMap, AddMetadataSkipKeepsMap,
       ConditionalUpdateKeepsMap, AddSourcesKeepsMap, WrapSinksSkipKeepsMap,
       WrapSinksCollectKeepsMap, WrapCallKeepsMap, WrapCrashesKeepsMap, TagsKeepMap,
       RemoveSourcesKeepsMap, NoDependencyMapKeepsMap, OutputDependencyMapKeepsMap,
       LoadConfigurationKeepsMap, AddLoggingKeepsMap, EndOfFunctionKeepsMap, StutterKeepsMap,
       Zenon DEF Next
  <1> QED
    BY <1>1, <1>2, PassesInvariant, CallsInvariant, CountInvariant, PTL DEF Spec

\* What the marks say of the instructions they are marks of.
LEMMA MarksTell ==
    ASSUME NEW fs
    PROVE  LET all == InstructionsOf(fs)
           IN  /\ UNION {CallSiteIds(i) : i \in all} = IdsOf(Marks(fs))
               /\ UNION {{[id |-> id, fn |-> i.fn] : id \in CallSiteIds(i)} : i \in all}
                    = NodesOf(Marks(fs))
               /\ SourceIds(Marks(fs)) \subseteq
                    UNION {CallSiteIds(i) : i \in {j \in all : HasParamOfType(j, "input")}}
  <1> DEFINE all == InstructionsOf(fs)
  <1> PICK M : M = Marks(fs)
    OBVIOUS
  <1>1. ASSUME NEW i \in all, CallSiteIds(i) # {} PROVE Mark(i) \in M
    BY <1>1 DEF Marks, CallSiteIds
  <1>2. \A m \in M : \E i \in all : m = Mark(i)
    BY DEF Marks
  <1>3. \A i : Mark(i).fn = i.fn /\ Mark(i).meta = i.meta /\ CallSiteIds(Mark(i)) = CallSiteIds(i)
    BY MarkIs
  <1> HIDE DEF all
  <1>4. ASSUME NEW id PROVE id \in UNION {CallSiteIds(i) : i \in all} <=> id \in IdsOf(M)
    <2>1. ASSUME NEW i \in all, id \in CallSiteIds(i) PROVE \E m \in M : id \in CallSiteIds(m)
      BY <1>1, <1>3, <2>1
    <2>2. ASSUME NEW m \in M, id \in CallSiteIds(m) PROVE \E i \in all : id \in CallSiteIds(i)
      BY <1>2, <1>3, <2>2
    <2> QED
      BY <2>1, <2>2 DEF IdsOf
  <1>5. ASSUME NEW node
        PROVE  node \in UNION {{[id |-> id, fn |-> i.fn] : id \in CallSiteIds(i)} : i \in all}
                 <=> node \in NodesOf(M)
    <2>1. node \in UNION {{[id |-> id, fn |-> i.fn] : id \in CallSiteIds(i)} : i \in all}
            <=> \E i \in all : \E id \in CallSiteIds(i) : node = [id |-> id, fn |-> i.fn]
      OBVIOUS
    <2>2. node \in NodesOf(M)
            <=> \E m \in M : \E id \in CallSiteIds(m) : node = [id |-> id, fn |-> m.fn]
      BY DEF NodesOf, NodesFor
    <2>3. ASSUME NEW i \in all, NEW id \in CallSiteIds(i), node = [id |-> id, fn |-> i.fn]
          PROVE  \E m \in M : \E n \in CallSiteIds(m) : node = [id |-> n, fn |-> m.fn]
      <3> PICK m : m = Mark(i)
        OBVIOUS
      <3>1. m \in M /\ id \in CallSiteIds(m) /\ m.fn = i.fn
        BY <1>1, <1>3
      <3> QED
        BY <2>3, <3>1
    <2>4. ASSUME NEW m \in M, NEW id \in CallSiteIds(m), node = [id |-> id, fn |-> m.fn]
          PROVE  \E i \in all : \E n \in CallSiteIds(i) : node = [id |-> n, fn |-> i.fn]
      <3>1. PICK i \in all : m = Mark(i)
        BY <1>2
      <3>2. id \in CallSiteIds(i) /\ m.fn = i.fn
        BY <1>3, <3>1
      <3> QED
        BY <2>4, <3>2
    <2> QED
      BY <2>1, <2>2, <2>3, <2>4
  <1>6. ASSUME NEW id \in SourceIds(M)
        PROVE  id \in UNION {CallSiteIds(i) : i \in {j \in all : HasParamOfType(j, "input")}}
    <2>1. PICK m \in M : HasParamOfType(m, "input") /\ id \in CallSiteIds(m)
      BY DEF SourceIds
    <2>2. PICK i \in all : m = Mark(i)
      BY <1>2
    <2>3. m.meta = i.meta /\ id \in CallSiteIds(i)
      BY <1>3, <2>1, <2>2
    <2>4. HasParamOfType(i, "input")
      BY <2>1, <2>3 DEF HasParamOfType
    <2> QED
      BY <2>3, <2>4
  <1> QED
    BY <1>4, <1>5, <1>6 DEF all

\* The edges of the marks are what was answered for the instructions.
LEMMA EdgesTell ==
    ASSUME MapInv
    PROVE  /\ EdgesOf(Marks(functions)) =
                UNION {CallSiteIds(i) \X TagsOf(i) :
                         i \in {j \in InstructionsOf(functions) : Answered(j)}}
           /\ \A e \in EdgesOf(Marks(functions)) : e[2] \in SourceIds(Marks(functions))
  <1> DEFINE all == InstructionsOf(functions)
  <1> PICK M, ids : M = Marks(functions) /\ ids = SourceIds(Marks(functions))
    OBVIOUS
  <1>1. ASSUME NEW i \in all, CallSiteIds(i) # {} PROVE Mark(i) \in M
    BY <1>1 DEF Marks, CallSiteIds
  <1>2. \A m \in M : \E i \in all : m = Mark(i)
    BY DEF Marks
  <1>3. ASSUME NEW i
        PROVE  /\ CallSiteIds(Mark(i)) = CallSiteIds(i)
               /\ Answered(Mark(i)) <=> Answered(i)
               /\ TagsOf(Mark(i)) = TagsOf(i)
    <2>1. Mark(i).src = i.src /\ CallSiteIds(Mark(i)) = CallSiteIds(i)
      BY MarkIs
    <2> QED
      BY <2>1 DEF Answered, TagsOf
  <1>4. ASSUME NEW m \in M
        PROVE  LET T == UNION {ToSet(t) : t \in m.tags}
               IN  /\ Answered(m) => T = TagsOf(m)
                   /\ ~Answered(m) => T = {}
                   /\ T \subseteq ids
    <2>1. IsAnswered(m, ids)
      BY DEF MapInv, TaggedInv, IsTagged
    <2>2. CASE Answered(m)
      <3>1. PICK t : m.tags = {t} /\ ToSet(t) = TagsOf(m) /\ ToSet(t) \subseteq ids
        BY <2>1, <2>2 DEF IsAnswered
      <3>2. UNION {ToSet(u) : u \in m.tags} = ToSet(t)
        BY <3>1
      <3> QED
        BY <2>2, <3>1, <3>2
    <2>3. CASE ~Answered(m)
      <3>1. m.tags = {}
        BY <2>1, <2>3 DEF IsAnswered
      <3> QED
        BY <2>3, <3>1
    <2> QED
      BY <2>2, <2>3
  <1> HIDE DEF all
  <1>5. ASSUME NEW e
        PROVE  e \in EdgesOf(M) =>
                 /\ e[2] \in ids
                 /\ \E i \in all : Answered(i) /\ e \in CallSiteIds(i) \X TagsOf(i)
    <2> SUFFICES ASSUME e \in EdgesOf(M)
                 PROVE  /\ e[2] \in ids
                        /\ \E i \in all : Answered(i) /\ e \in CallSiteIds(i) \X TagsOf(i)
      OBVIOUS
    <2>1. PICK m \in M : e \in CallSiteIds(m) \X UNION {ToSet(t) : t \in m.tags}
      BY DEF EdgesOf, EdgesFor
    <2> PICK T : T = UNION {ToSet(t) : t \in m.tags}
      OBVIOUS
    <2>2. (Answered(m) => T = TagsOf(m)) /\ (~Answered(m) => T = {}) /\ T \subseteq ids
      BY <1>4
    <2>3. e \in CallSiteIds(m) \X T /\ e[2] \in T
      BY <2>1
    <2>4. Answered(m) /\ T = TagsOf(m)
      BY <2>2, <2>3
    <2>5. PICK i \in all : m = Mark(i)
      BY <1>2
    <2>6. Answered(i) /\ e \in CallSiteIds(i) \X TagsOf(i)
      BY <1>3, <2>3, <2>4, <2>5
    <2> QED
      BY <2>2, <2>3, <2>6
  <1>6. ASSUME NEW e, NEW i \in all, Answered(i), e \in CallSiteIds(i) \X TagsOf(i)
        PROVE  e \in EdgesOf(M)
    <2> PICK m, T : m = Mark(i) /\ T = UNION {ToSet(t) : t \in Mark(i).tags}
      OBVIOUS
    <2>1. /\ CallSiteIds(m) = CallSiteIds(i) /\ Answered(m) /\ TagsOf(m) = TagsOf(i)
      BY <1>3, <1>6
    <2>2. m \in M
      BY <1>1, <1>6
    <2>3. T = TagsOf(m)
      BY <1>4, <2>1, <2>2
    <2>4. e \in CallSiteIds(m) \X T
      BY <1>6, <2>1, <2>3
    <2>5. e \in EdgesFor(m)
      BY <2>4 DEF EdgesFor
    <2> QED
      BY <2>2, <2>5 DEF EdgesOf
  <1> PICK E : E = EdgesOf(M)
    OBVIOUS
  <1>7. \A e : e \in E <=> \E i \in all : Answered(i) /\ e \in CallSiteIds(i) \X TagsOf(i)
    BY <1>5, <1>6
  <1>8. E = UNION {CallSiteIds(i) \X TagsOf(i) : i \in {j \in all : Answered(j)}}
    BY <1>7
  <1> QED
    BY <1>5, <1>8 DEF all

\* A list of nothing is empty.
LEMMA ListsNothing ==
    ASSUME NEW s, Lists(s, {})
    PROVE  s = <<>>
  <1>1. s \in Seq({})
    BY DEF Lists
  <1>2. ASSUME Len(s) # 0 PROVE FALSE
    <2>1. Len(s) \in Nat /\ 1 \in 1 .. Len(s)
      BY <1>1, <1>2
    <2> QED
      BY <1>1, <2>1, ElementOfSeq
  <1> QED
    BY <1>1, <1>2, EmptySeq

\* A run that writes no map has written nothing.
LEMMA NothingWritten ==
    ASSUME MapInv, pass = "done", ~WritesMap
    PROVE  dependency_map.nodes = <<>> /\ dependency_map.edges = <<>>
  <1>1. MapIs(dependency_map, {})
    BY DEF MapInv, PrintedInv, Written, AfterMap
  <1>2. NodesOf({}) = {} /\ EdgesOf({}) = {}
    BY DEF NodesOf, EdgesOf
  <1>3. Lists(dependency_map.nodes, {}) /\ Lists(dependency_map.edges, {})
    BY <1>1, <1>2 DEF MapIs
  <1> QED
    BY <1>3, ListsNothing

\* Whatever calls move into wrappers and back out of the way, the dependency map
\* says of each call what the analysis said when it saw it, and nothing else: the
\* nodes are the calls that have a number, each once, and the edges are the answers.
\* Without a file that could be opened, nothing is written and the run goes on.
THEOREM MapIsKept == Spec => []MapIsFaithful
  <1>1. MapInv => MapIsFaithful
    <2> SUFFICES ASSUME MapInv, pass = "done", WritesMap PROVE MapIsWhole
      BY NothingWritten DEF MapIsFaithful, WritesMap, MapOpens
    <2> PICK all, M : all = InstructionsOf(functions) /\ M = Marks(functions)
      OBVIOUS
    <2>1. MapIs(dependency_map, M)
      BY DEF MapInv, PrintedInv, Written, AfterMap
    <2>2. /\ Len(dependency_map.nodes) = Cardinality(IdsOf(M))
          /\ ToSet(dependency_map.nodes) = NodesOf(M)
          /\ ToSet(dependency_map.edges) = EdgesOf(M)
      BY <2>1, Zenon DEF MapIs, Lists
    <2>3. /\ UNION {CallSiteIds(i) : i \in all} = IdsOf(M)
          /\ UNION {{[id |-> id, fn |-> i.fn] : id \in CallSiteIds(i)} : i \in all} = NodesOf(M)
          /\ SourceIds(M) \subseteq
               UNION {CallSiteIds(i) : i \in {j \in all : HasParamOfType(j, "input")}}
      BY MarksTell
    <2>4. /\ EdgesOf(M) = UNION {CallSiteIds(i) \X TagsOf(i) : i \in {j \in all : Answered(j)}}
          /\ \A e \in EdgesOf(M) : e[2] \in SourceIds(M)
      BY EdgesTell
    <2>5. \A e \in ToSet(dependency_map.edges) :
            e[2] \in UNION {CallSiteIds(i) : i \in {j \in all : HasParamOfType(j, "input")}}
      BY <2>2, <2>3, <2>4
    <2> QED
      BY <2>2, <2>3, <2>4, <2>5, Zenon DEF MapIsWhole
  <1> QED
    BY <1>1, MapInvariant, PTL

=============================================================================
