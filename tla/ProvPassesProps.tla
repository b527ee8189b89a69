--------------------------- MODULE ProvPassesProps ---------------------------
(***************************************************************************)
(* What the passes must guarantee, stated over the module they leave.      *)
(***************************************************************************)
EXTENDS ProvPasses

Passes == {"start", "print", "configure", "add_metadata", "add_sources", "wrap_sinks", "tags",
           "remove_sources", "dependency_map", "configure_logging",
           "add_logging", "done", "crashed"}

InstructionsOf(fs) == UNION {ToSet(f.body) : f \in ToSet(fs)}

\* The variables have their types, and the position is inside the module.
TypeOK ==
    /\ pass \in Passes
    /\ at[1] \in DOMAIN functions
    /\ at[2] \in 1 .. Len(Body) + 1
    /\ \A i \in InstructionsOf(functions) :
         /\ i.op \in {"call", "invoke", "icall", "cast", "br", "ret"}
         /\ \A m \in i.meta : m.id \in Nat
         /\ \A t \in i.tags : ToSet(t) \subseteq Nat
    /\ call_site_counter \in Nat
    /\ wrappers \in 0 .. Len(WrapperName)
    /\ ToSet(calls_to_wrap) \subseteq DOMAIN output_param_map

-----------------------------------------------------------------------------
(* The module as it runs: a call of a wrapper is replaced by what the      *)
(* wrapper does, with the operands it is given.                            *)

\* The places of a body that are reached, but for the branches.
Reached(body) ==
    {k \in DOMAIN body : body[k].op # "br" /\ \A j \in 1 .. k : body[j].op # "ret"}

WithOperands(i, operands) ==
    [i EXCEPT !.args = [k \in DOMAIN i.args |->
                          IF i.args[k][1] = "param" THEN operands[i.args[k][2]]
                                                    ELSE i.args[k]]]

Inlined(fs, call) ==
    LET w == CHOOSE f \in ToSet(fs) : f.name = call.fn
        run == AtPositions(w.body, Reached(w.body))
    IN  [k \in DOMAIN run |-> WithOperands(run[k], call.args)]

IsWrapperCall(i) == i.op = "call" /\ i.fn \in ToSet(WrapperName)

Does(fs, i) == IF IsWrapperCall(i) THEN Inlined(fs, i) ELSE <<i>>

Run(fs, f) == FlattenSeq([k \in DOMAIN fs[f].body |-> Does(fs, fs[f].body[k])])

\* The instructions of the input: those of Run that no pass inserted.
Core(i) == [op |-> i.op, fn |-> i.fn, args |-> i.args, src |-> i.src]

Own(run) ==
    FlattenSeq([k \in DOMAIN run |-> IF run[k].src # 0 THEN <<Core(run[k])>> ELSE <<>>])

Observed(fs, f) ==
    FlattenSeq([k \in DOMAIN fs[f].body |-> Own(Does(fs, fs[f].body[k]))])

\* The functions of the program and its main, as opposed to those that a later
\* pass has added.
Program == DOMAIN input

Added(fs, f) == {i \in ToSet(Run(fs, f)) : i.src = 0}

IsLoggerCall(i) ==
    i.op = "call" /\ i.fn \in {"clam_prov_logging_init",
                              "clam_prov_logging_buffer",
                              "clam_prov_logging_shutdown"}

\* At every point between the passes and within them, each function of the
\* program makes the calls that it made in the input, in that order and with
\* those operands: "Replace original call with wrapper" changes nothing else.
\* And once the analysis is over all that it adds to them are calls of the
\* logger, and casts that nobody uses.
ProgramPreserved ==
    \A f \in Program :
      /\ Observed(functions, f) = Observed(input, f)
      /\ pass \in {"dependency_map", "configure_logging", "add_logging", "done"} =>
           \A i \in Added(functions, f) : i.op = "cast" \/ IsLoggerCall(i)

-----------------------------------------------------------------------------
(* Libraries, and the two ways to tell sources and sinks *)

\* The calls that main makes for function f of the library, and for its
\* parameter k.
CallsFor(main, f) == {n \in DOMAIN main : main[n].fn = arguments.input[f].name}
ArgumentFrom(main, f, k) ==
    LET n == CHOOSE m \in CallsFor(main, f) : TRUE
    IN  main[n - Len(main[n].args) + k - 1]

\* The main that a library gets calls each of its functions once, with values
\* that come from functions that are not in the library, whatever names the
\* library (that has perhaps been through here before) uses, and that are the
\* same for two parameters exactly when their types are.
LibraryIsReached ==
    pass \in {"print", "configure"} /\ arguments.add_main
      /\ "main" \notin Named(arguments.input) =>
        LET main == Last(functions).body
            params(f) == Signature[arguments.input[f].name].params
            slots == UNION {{f} \X DOMAIN params(f) : f \in DOMAIN arguments.input}
        IN  /\ Last(functions).name = "main"
            /\ \A f \in DOMAIN arguments.input :
                 /\ Cardinality(CallsFor(main, f)) = 1
                 /\ \A n \in CallsFor(main, f) :
                      main[n].args = [k \in DOMAIN params(f) |->
                                        <<"nondet", ArgumentFrom(main, f, k).fn>>]
            /\ \A s \in slots :
                 ArgumentFrom(main, s[1], s[2]).fn \notin Named(arguments.input)
            /\ \A s, t \in slots :
                 ArgumentFrom(main, s[1], s[2]).fn = ArgumentFrom(main, t[1], t[2]).fn
                   <=> params(s[1])[s[2]] = params(t[1])[t[2]]

\* The calls that the configuration labels as sources, or as sinks.
Labelled(fn, type) ==
    LET lines == CHOOSE l \in arguments.add_metadata_config : TRUE
        infos == FunctionInfos(lines, Declared)
        with(i) == [i EXCEPT !.meta =
                      CallSiteMetadata(0, ParamToLabels(infos[i.fn], i))]
    IN  {i \in InstructionsOf(functions) :
           /\ IsDirectCall(i) /\ i.fn = fn /\ fn \in DOMAIN infos
           /\ HasParamOfType(with(i), type)}

\* What --print-sources-sinks counts, by names in the code, is what a run with
\* sources-sinks.config would label.
PrintedAsLabelled ==
    pass = "done" /\ arguments.print_sources_sinks =>
      \A i \in InstructionsOf(functions) :
        /\ CountIn(printed.sources, i.fn) = Cardinality(Labelled(i.fn, "input"))
        /\ CountIn(printed.sinks, i.fn) = Cardinality(Labelled(i.fn, "output"))

-----------------------------------------------------------------------------
(* Numbers, sources and sinks *)

\* The places of the calls of the input that the configuration names.
CallSites ==
    {place \in UNION {{f} \X DOMAIN input[f].body : f \in Program} :
       LET i == input[place[1]].body[place[2]]
       IN  IsDirectCall(i) /\ i.fn \in DOMAIN function_infos}

\* Those in front of a place, in program order.
CallSitesBefore(place) ==
    {p \in CallSites :
       p[1] < place[1] \/ (p[1] = place[1] /\ p[2] < place[2])}

\* A call-site identifier is on one instruction of the module, even while the
\* calls move into their wrappers, and from the moment it is given to the end
\* each call-site of the program has for its number how many there are in front
\* of it ("First call-site read has the call site tag 0").
CallSitesAreNumbered ==
    /\ \A f, g \in DOMAIN functions :
         \A k \in DOMAIN functions[f].body, l \in DOMAIN functions[g].body :
           CallSiteIds(functions[f].body[k]) \cap CallSiteIds(functions[g].body[l])
              # {} => f = g /\ k = l
    /\ \A i \in InstructionsOf(functions) : \A id \in CallSiteIds(i) :
         \E p \in CallSites :
           /\ input[p[1]].body[p[2]].src = i.src
           /\ id = Cardinality(CallSitesBefore(p))
    /\ pass \notin {"configure", "add_metadata"} =>
         \A i \in InstructionsOf(functions) :
           IsDirectCall(i) /\ i.fn \in DOMAIN function_infos => i.meta # {}

Wrapped == {"tags", "remove_sources", "dependency_map", "configure_logging",
            "add_logging", "done"}

CallsOf(name) ==
    {place \in UNION {{f} \X DOMAIN functions[f].body : f \in DOMAIN functions} :
       LET i == functions[place[1]].body[place[2]]
       IN  IsDirectCall(i) /\ i.fn = name}

\* After WrapSinks every sink call is in a wrapper, is the only call of the
\* program there, and the wrapper is called from one place: WrapSinks visits
\* every sink once although it keeps the addresses of calls it has erased.
SinksHaveOwnWrapper ==
    pass \in Wrapped =>
      \A f \in DOMAIN functions : \A k \in DOMAIN functions[f].body :
        IsSink(functions[f].body[k]) =>
          /\ functions[f].name \in ToSet(WrapperName)
          /\ {i \in ToSet(functions[f].body) : i.src # 0} = {functions[f].body[k]}
          /\ Cardinality(CallsOf(functions[f].name)) = 1

\* What the tag analysis is given: before each source call its tag is put on
\* every argument it fills (for a result see OperandsExist), after the argument
\* was marked as modified; and right before a sink, with nothing of the program
\* in between, every argument that it sends out is marked.
AnalysisSeesTags ==
    pass = "tags" =>
      \A f \in Program :
        LET run == Run(functions, f) IN
        \A k \in DOMAIN run :
          /\ \A p \in ToSet(ParamsOfType(run[k], "input")) :
               p # 0 /\ Operand(run[k], p) # <<"null">> =>
                 \E j \in 2 .. k - 1 :
                   /\ run[j].fn = "add_tag"
                   /\ run[j].args[1] = Operand(run[k], p)
                   /\ \A id \in CallSiteIds(run[k]) : run[j].args[2] = <<"tag", id>>
                   /\ run[j - 1] = SetModified(Operand(run[k], p))
          /\ \A p \in ToSet(ParamsOfType(run[k], "output")) :
               \E j \in 1 .. k - 1 :
                 /\ run[j] = SetModified(Operand(run[k], p))
                 /\ \A l \in j .. k - 1 : run[l].src = 0

-----------------------------------------------------------------------------
(* What is printed and logged *)

Answered(i) == i.src \in DOMAIN answers /\ {} \notin ToSet(answers[i.src])

TagsOf(i) ==
    UNION {UNION {ToSet(t) : t \in answer} : answer \in ToSet(answers[i.src])}

\* The map has a node for every call-site, once, with the name of the function
\* that is called there.  Its edges are what the analysis answered for the sinks
\* for which it had an answer for every pointer, whatever calls moved where in
\* between, and they go to sources.
MapIsWhole ==
    LET all == InstructionsOf(functions)
        ids == UNION {CallSiteIds(i) : i \in all}
        sources == {i \in all : HasParamOfType(i, "input")}
        edges == ToSet(dependency_map.edges)
    IN  /\ Len(dependency_map.nodes) = Cardinality(ids)
        /\ ToSet(dependency_map.nodes) =
             UNION {{[id |-> id, fn |-> i.fn] : id \in CallSiteIds(i)} : i \in all}
        /\ edges = UNION {CallSiteIds(i) \X TagsOf(i) : i \in {j \in all : Answered(j)}}
        /\ \A e \in edges : e[2] \in UNION {CallSiteIds(i) : i \in sources}

\* A run that is done has written the whole dependency map into a file that it was
\* given and could open, and no part of a map otherwise: with no name of a file,
\* with one that cannot be opened, which does not stop the run, and when it only
\* prints sources and sinks.
MapIsFaithful ==
    pass = "done" =>
      IF arguments.dependency_map_file = "writable" /\ ~arguments.print_sources_sinks
      THEN MapIsWhole
      ELSE dependency_map.nodes = <<>> /\ dependency_map.edges = <<>>

IsBufferCall(i) == i.op = "call" /\ i.fn = "clam_prov_logging_buffer"

\* With logging on, each numbered call that does not end its block is followed,
\* before anything else of the program, by one record with its number and its
\* result, and there are no other records.
EveryCallSiteIsLogged ==
    pass = "done" /\ LoggingIsOn(logging) =>
      \A f \in Program :
        LET run == Run(functions, f) IN
        \A k \in DOMAIN run :
          /\ run[k].meta # {} /\ run[k].op = "call" =>
               k < Len(run) /\ run[k + 1] = BufferLoggerCall(run[k])
          /\ IsBufferCall(run[k]) =>
               k > 1 /\ run[k - 1].meta # {} /\ run[k - 1].op = "call"

\* main opens the log before it does anything else, once, and the last thing
\* before each return of main is to close it.
MainBracketsLogging ==
    pass = "done" /\ LoggingIsOn(logging) =>
      \A f \in Program :
        LET body == functions[f].body IN
        \A k \in DOMAIN body :
          /\ body[k].fn = "clam_prov_logging_init" <=>
               k = 1 /\ functions[f].name = "main"
          /\ body[k].fn = "clam_prov_logging_shutdown" <=>
               /\ functions[f].name = "main"
               /\ k < Len(body) /\ body[k + 1].op = "ret"

\* The passes come to an end although WrapSinks adds functions to the list it
\* goes through.
PassesEnd == <>(pass \in {"done", "crashed"})

-----------------------------------------------------------------------------
(* What the code's own words claim, and the code does not do *)

\* sources-sinks.config: the result of mmap (parameter 0) is where data comes
\* from.  An operand of a call exists before the call uses it.
OperandsExist ==
    \A f \in DOMAIN functions :
      LET body == functions[f].body IN
      \A k \in DOMAIN body : \A n \in DOMAIN body[k].args :
        body[k].args[n][1] = "result" =>
          \E j \in 1 .. k - 1 : body[j].src = body[k].args[n][2]

\* README.md: max_records is "The maximum call-site records to buffer".
LoggingAsConfigured ==
    pass = "done" =>
      \A lines \in arguments.add_logging_config : \A line \in ToSet(lines) :
        line.key = "max_records" /\ line.value.kind = "number"
          => logging.max_records = line.value.value
=============================================================================
