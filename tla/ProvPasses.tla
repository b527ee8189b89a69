----------------------------- MODULE ProvPasses -----------------------------
(***************************************************************************)
(* What clam-prov does to a module (src/clam-prov.cpp).  A library gets a  *)
(* dummy main first, by a run of its own (--add-main).  Then the calls of  *)
(* sources and sinks are counted (--print-sources-sinks), or the passes    *)
(* before the tag analysis run, the analysis (external, its result is any  *)
(* that the inserted calls allow), and the passes after it.  One step      *)
(* visits one instruction.  The generic LLVM passes that run first are     *)
(* left out: the input is what they leave.                                 *)
(***************************************************************************)
EXTENDS ProvMetadata, ProvConfig

CONSTANTS
    Signature,      \* each function's parameter types and its result type ("ptr":
                    \* a pointer that is not an i8*)
    Arguments,      \* what clam-prov may be called with: records with the input,
                    \* the flags add_main and print_sources_sinks, the lines of
                    \* add_metadata_config and add_logging_config, {lines} or {}
                    \* if unreadable, and what the names in add_metadata_output
                    \* and dependency_map_file are worth: "none" was given, or
                    \* the file is "writable" or "unwritable"
    NondetName,     \* "verifier.nondet.0", "verifier.nondet.1", ...
    WrapperName     \* "clam_prov_sink.0", "clam_prov_sink.1", ..., as a
                    \* sequence; its length bounds the wrappers

VARIABLES
    functions,          \* the module: each function's name and body
    pass,               \* the pass that is running
    at,                 \* the function and the instruction it looks at
    function_infos,     \* AddMetadata: functionInfos
    call_site_counter,  \* AddMetadata: callSiteCounter
    calls_to_wrap,      \* WrapSinks: callsToWrap, as addresses
    output_param_map,   \* WrapSinks: m_outputParamMap, by address
    wrappers,           \* WrapSinks: the static n of createWrapper
    freed,              \* addresses of erased instructions
    logging,            \* AddLogging: outputMode and maxRecords
    dependency_map,     \* what was printed of the dependency map
    printed,            \* PrintSourcesAndSinks: the number of calls, by function
    arguments,          \* what clam-prov was called with
    input,              \* the module that the passes work on, as it was (history)
    answers             \* what the analysis said of each sink (history)

module_vars == <<functions, at>>
metadata_vars == <<function_infos, call_site_counter>>
wrap_vars == <<calls_to_wrap, output_param_map, wrappers, freed>>
history == <<arguments, input, answers, printed>>

vars == <<module_vars, pass, metadata_vars, wrap_vars, logging, dependency_map,
          history>>

Init ==
    /\ arguments \in Arguments
    /\ input = arguments.input
    /\ functions = input
    /\ pass = "start"
    /\ at = <<1, 1>>
    /\ function_infos = <<>>
    /\ call_site_counter = 0
    /\ calls_to_wrap = <<>>
    /\ output_param_map = <<>>
    /\ wrappers = 0
    /\ freed = {}
    /\ logging = NoLogging
    /\ dependency_map = [nodes |-> <<>>, edges |-> <<>>]
    /\ printed = [sources |-> <<>>, sinks |-> <<>>]
    /\ answers = <<>>

-----------------------------------------------------------------------------
(* Moving through the module *)

Body == functions[at[1]].body
FunctionName == functions[at[1]].name
Current == Body[at[2]]

Visiting(p) ==
    /\ pass = p
    /\ at[2] <= Len(Body)
    /\ UNCHANGED pass

\* Mutant: one instruction too far.
Visit_TooFar(before, new) ==
    /\ functions' = [functions EXCEPT ![at[1]].body =
                       SubSeq(@, 1, at[2] - 1) \o before \o <<new>>
                         \o SubSeq(@, at[2] + 1, Len(@))]
    /\ at' = <<at[1], at[2] + Len(before) + 2>>

\* Put instructions before the current one, put new in its place, and move on.
Visit(before, new) ==
    /\ functions' = [functions EXCEPT ![at[1]].body =
                       SubSeq(@, 1, at[2] - 1) \o before \o <<new>>
                         \o SubSeq(@, at[2] + 1, Len(@))]
    /\ at' = <<at[1], at[2] + Len(before) + 1>>

NextPass ==
    [print          |-> "done",
     add_metadata   |-> "add_sources",
     add_sources    |-> "wrap_sinks",
     wrap_sinks     |-> "tags",
     tags           |-> "remove_sources",
     dependency_map |-> "configure_logging",
     add_logging    |-> "done"]

\* Mutant: only the functions of the input are visited.
EndOfFunction_InputOnly ==
    /\ pass \in DOMAIN NextPass
    /\ at[2] > Len(Body)
    /\ pass = "wrap_sinks" => calls_to_wrap = <<>>
    /\ IF at[1] < Len(arguments.input)
       THEN at' = <<at[1] + 1, 1>> /\ UNCHANGED pass
       ELSE at' = <<1, 1>> /\ pass' = NextPass[pass]
    /\ UNCHANGED <<functions, metadata_vars, wrap_vars, logging,
                   dependency_map, history>>

\* The loop over the functions reaches those that the pass itself has added.
EndOfFunction ==
    /\ pass \in DOMAIN NextPass
    /\ at[2] > Len(Body)
    /\ pass = "wrap_sinks" => calls_to_wrap = <<>>
    /\ IF at[1] < Len(functions)
       THEN at' = <<at[1] + 1, 1>> /\ UNCHANGED pass
       ELSE at' = <<1, 1>> /\ pass' = NextPass[pass]
    /\ UNCHANGED <<functions, metadata_vars, wrap_vars, logging,
                   dependency_map, history>>

-----------------------------------------------------------------------------
(* DummyMainFunction *)

Named(fs) == UNION {{f.name} \cup {i.fn : i \in ToSet(f.body)} : f \in ToSet(fs)}

\* Mutant: names that the module has already are not looked for.
FreeNames_All(fs) == NondetName

\* makeNewNondetFn counts on from the number of types that have a function until
\* it meets a free name: the n-th type gets the n-th of these.
FreeNames(fs) ==
    AtPositions(NondetName, {n \in DOMAIN NondetName : NondetName[n] \notin Named(fs)})

\* The types of all parameters, in the order in which they come.
ParameterTypes(fs) == FlattenSeq([f \in DOMAIN fs |-> Signature[fs[f].name].params])

\* One function for each type of a parameter.
NondetFn(fs, type) ==
    LET types == ParameterTypes(fs)
        first == Min({k \in DOMAIN types : types[k] = type})
    IN  FreeNames(fs)[Cardinality({types[k] : k \in 1 .. first})]

\* Each function of the module is called with values of unknown origin.
DummyBody(fs) ==
    LET nondet(f) == [k \in DOMAIN Signature[fs[f].name].params |->
                        NondetFn(fs, Signature[fs[f].name].params[k])]
        calls(f) == [k \in DOMAIN nondet(f) |-> Instruction("call", nondet(f)[k], <<>>)]
        values(f) == [k \in DOMAIN nondet(f) |-> <<"nondet", nondet(f)[k]>>]
    IN  FlattenSeq([f \in DOMAIN fs |->
                      Append(calls(f), Instruction("call", fs[f].name, values(f)))])
          \o <<Instruction("ret", "", <<>>)>>

Addresses(fs) == {i.addr : i \in UNION {ToSet(f.body) : f \in ToSet(fs)}}

\* The module is written and read again: what is new has addresses now.
WithMain(fs) ==
    LET body == DummyBody(fs)
        place(k) == Max(Addresses(fs)) + k
    IN  IF "main" \in Named(fs) THEN fs
        ELSE Append(fs, [name |-> "main",
                         body |-> [k \in DOMAIN body |->
                                     [body[k] EXCEPT !.addr = place(k),
                                                     !.src = place(k)]]])

Start ==
    /\ pass = "start"
    /\ functions' = IF arguments.add_main THEN WithMain(functions) ELSE functions
    /\ input' = functions'
    /\ pass' = IF arguments.print_sources_sinks THEN "print" ELSE "configure"
    /\ UNCHANGED <<at, metadata_vars, wrap_vars, logging, dependency_map,
                   arguments, answers, printed>>

-----------------------------------------------------------------------------
(* PrintSourcesAndSinks *)

Sources == {"read", "readv", "pread", "preadv", "recvfrom", "mmap"}

\* Mutant: a name is missing.
Sinks_NoSendto == {"write", "writev", "pwrite", "pwritev"}

Sinks == {"write", "writev", "pwrite", "pwritev", "sendto"}

\* A name that was not met has no count.
CountIn(counts, fn) == IF fn \in DOMAIN counts THEN counts[fn] ELSE 0

\* One more call of fn, if it is one of these.
Counted(counts, names, fn) ==
    IF fn \notin names THEN counts
    ELSE [g \in DOMAIN counts \cup {fn} |-> CountIn(counts, g) + IF g = fn THEN 1 ELSE 0]

PrintSourcesAndSinks ==
    /\ Visiting("print")
    /\ Visit(<<>>, Current)
    /\ printed' = IF ~IsDirectCall(Current) THEN printed
                  ELSE [sources |-> Counted(printed.sources, Sources, Current.fn),
                        sinks   |-> Counted(printed.sinks, Sinks, Current.fn)]
    /\ UNCHANGED <<arguments, input, answers, metadata_vars, wrap_vars, logging,
                   dependency_map>>

-----------------------------------------------------------------------------
(* AddMetadata *)

\* A function that is not even called has no call to number.
Declared == Named(functions)

\* openOutput, which fails for a file only.
OutputOpens == arguments.add_metadata_output # "unwritable"

\* Without its input, or an output that was asked for, the pass returns before
\* its loop; what it may have loaded is then read by nobody.
LoadInputFile ==
    /\ pass = "configure"
    /\ \/ /\ arguments.add_metadata_config = {} \/ ~OutputOpens
          /\ pass' = "add_sources"
          /\ UNCHANGED function_infos
       \/ \E lines \in arguments.add_metadata_config :
            /\ OutputOpens
            /\ pass' = "add_metadata"
            /\ function_infos' = FunctionInfos(lines, Declared)
    /\ UNCHANGED <<module_vars, call_site_counter, wrap_vars, logging,
                   dependency_map, history>>

\* The labels that the configuration gives to each parameter the call has.
ParamToLabels(infos, call) ==
    LET has(info) == info.use_index /\ info.index < Len(call.args)
        given == SelectSeq(infos, has)
        keys == {info.index + 1 : info \in ToSet(given)}
    IN  [k \in keys |->
           LET of_k == SelectSeq(given, LAMBDA info : info.index + 1 = k)
           IN  [n \in DOMAIN of_k |-> of_k[n].description]]

AddMetadata_Skip ==
    /\ Visiting("add_metadata")
    /\ ~(IsDirectCall(Current) /\ Current.fn \in DOMAIN function_infos)
    /\ Visit(<<>>, Current)
    /\ UNCHANGED <<metadata_vars, wrap_vars, logging, dependency_map, history>>

\* Mutant: one number for all the calls of a function.
ConditionalUpdate_PerFunction ==
    /\ Visiting("add_metadata")
    /\ IsDirectCall(Current)
    /\ Current.fn \in DOMAIN function_infos
    /\ Visit(<<>>, [Current EXCEPT !.meta = CallSiteMetadata(at[1],
                      ParamToLabels(function_infos[Current.fn], Current))])
    /\ call_site_counter' = call_site_counter + 1
    /\ UNCHANGED <<function_infos, wrap_vars, logging, dependency_map, history>>

ConditionalUpdate ==
    /\ Visiting("add_metadata")
    /\ IsDirectCall(Current)
    /\ Current.fn \in DOMAIN function_infos
    /\ Visit(<<>>, [Current EXCEPT !.meta = CallSiteMetadata(call_site_counter,
                      ParamToLabels(function_infos[Current.fn], Current))])
    /\ call_site_counter' = call_site_counter + 1
    /\ UNCHANGED <<function_infos, wrap_vars, logging, dependency_map, history>>

-----------------------------------------------------------------------------
(* addSources *)

\* The operand that parameter k of a call names, counted from 1; 0 is the
\* result of the call.
Operand(call, k) == IF k = 0 THEN <<"result", call.src>> ELSE call.args[k]

OperandType(call, k) ==
    IF k = 0 THEN Signature[call.fn].result
    ELSE IF k <= Len(Signature[call.fn].params) THEN Signature[call.fn].params[k]
    ELSE "i64"

\* CreateBitOrPointerCast to i8*: nothing when the operand is one already.
Cast(call, k) ==
    IF OperandType(call, k) = "i8*" THEN <<>>
    ELSE <<Instruction("cast", "", <<Operand(call, k)>>)>>

SetModified(operand) == Instruction("call", "sea_dsa_set_modified", <<operand>>)

\* Mutant: the mark comes after its tag is put.
InsertClamAddTag_Swapped(call, k, tag) ==
    Cast(call, k)
      \o <<Instruction("call", "add_tag", <<Operand(call, k), <<"tag", tag>>>>),
           SetModified(Operand(call, k))>>

InsertClamAddTag(call, k, tag) ==
    Cast(call, k)
      \o <<SetModified(Operand(call, k)),
           Instruction("call", "add_tag", <<Operand(call, k), <<"tag", tag>>>>)>>

AddSources ==
    /\ Visiting("add_sources")
    /\ LET inputs == ParamsOfType(Current, "input")
           tag == CHOOSE id \in CallSiteIds(Current) : TRUE
       IN  Visit(FlattenSeq([n \in DOMAIN inputs |->
                   IF Operand(Current, inputs[n]) = <<"null">> THEN <<>>
                   ELSE InsertClamAddTag(Current, inputs[n], tag)]),
                 Current)
    /\ UNCHANGED <<metadata_vars, wrap_vars, logging, dependency_map, history>>

-----------------------------------------------------------------------------
(* WrapSinks *)

\* Mutant: the wrappers are scanned like any other function.
IsWrapper_Never(name) == FALSE

\* A name with the prefix clam_prov_sink: no function of the input has one.
IsWrapper(name) == name \in ToSet(WrapperName)

IsSink(i) == IsDirectCall(i) /\ HasParamOfType(i, "output")

WrapSinks_Skip ==
    /\ Visiting("wrap_sinks")
    /\ IsWrapper(FunctionName) \/ ~IsSink(Current)
    /\ Visit(<<>>, Current)
    /\ UNCHANGED <<metadata_vars, wrap_vars, logging, dependency_map, history>>

\* A call whose address is in the map already is not put on the work list.
WrapSinks_Collect ==
    /\ Visiting("wrap_sinks")
    /\ ~IsWrapper(FunctionName)
    /\ IsSink(Current)
    /\ Visit(<<>>, Current)
    /\ LET outputs == ParamsOfType(Current, "output")
           seen == Current.addr \in DOMAIN output_param_map
       IN  /\ output_param_map' =
                [addr \in DOMAIN output_param_map \cup {Current.addr} |->
                   IF addr # Current.addr THEN output_param_map[addr]
                   ELSE IF seen THEN output_param_map[addr] \o outputs
                   ELSE outputs]
           /\ calls_to_wrap' = IF seen THEN calls_to_wrap
                               ELSE Append(calls_to_wrap, Current.addr)
    /\ UNCHANGED <<metadata_vars, wrappers, freed, logging, dependency_map,
                   history>>

\* The call that is wrapped next: the last one found.
Wrapping ==
    /\ pass = "wrap_sinks"
    /\ at[2] > Len(Body)
    /\ calls_to_wrap # <<>>

CB == CHOOSE n \in DOMAIN Body : Body[n].addr = Last(calls_to_wrap)
Outputs == output_param_map[Last(calls_to_wrap)]

\* wrapperF->getArg(index): only a declared parameter has one.
OutputsExist ==
    \A k \in ToSet(Outputs) : k \in DOMAIN Signature[Body[CB].fn].params

\* The allocator may hand out an address again, or one that is Fresh.
Fresh == 1 + Max(freed \cup Addresses(functions))

\* The wrapper passes on the parameters that the function declares.
WrapperBody(call, addr) ==
    LET n == Len(Signature[call.fn].params)
        formal == [call EXCEPT !.op = "call", !.addr = addr,
                               !.args = [k \in 1 .. n |-> <<"param", k>>]]
    IN  <<Instruction("br", "", <<>>)>>
          \o FlattenSeq([m \in DOMAIN Outputs |->
                Cast(formal, Outputs[m]) \o <<SetModified(formal.args[Outputs[m]])>>])
          \o <<formal, Instruction("ret", "", <<>>)>>

\* getOrInsertFunction: a function of that name, if the module has one, is
\* taken as it is, and the new blocks are added to it.
InsertWrapper(name, body) ==
    LET there == {f \in DOMAIN functions : functions[f].name = name}
    IN  IF there = {} THEN Append(functions, [name |-> name, body |-> body])
        ELSE [f \in DOMAIN functions |->
                IF f \in there THEN [functions[f] EXCEPT !.body = @ \o body]
                               ELSE functions[f]]

\* Mutant: one wrapper for all the sinks.
NextWrapper_Cached == WrapperName[1]

NextWrapper == WrapperName[wrappers + 1]

\* Create the wrapper, call it in place of the original, erase the original.
WrapCall ==
    /\ Wrapping
    /\ OutputsExist
    /\ wrappers < Len(WrapperName)
    /\ \E orig \in freed \cup {Fresh}, new \in freed \cup {Fresh + 1} :
         /\ orig # new
         /\ LET wrapper == [Instruction("call", NextWrapper, Body[CB].args)
                              EXCEPT !.addr = new]
            IN  functions' =
                  [InsertWrapper(NextWrapper, WrapperBody(Body[CB], orig))
                     EXCEPT ![at[1]].body[CB] = wrapper]
         /\ freed' = (freed \cup {Body[CB].addr}) \ {orig, new}
    /\ wrappers' = wrappers + 1
    /\ calls_to_wrap' = Front(calls_to_wrap)
    /\ UNCHANGED <<at, pass, metadata_vars, output_param_map, logging,
                   dependency_map, history>>

\* getArg with an index that no parameter has: the assertion fails, or what
\* follows works on memory that is no Argument.
WrapCrashes ==
    /\ Wrapping
    /\ ~OutputsExist
    /\ pass' = "crashed"
    /\ UNCHANGED <<module_vars, metadata_vars, wrap_vars, logging,
                   dependency_map, history>>

-----------------------------------------------------------------------------
(* The tag analysis, and its result as metadata *)

InsertedTags ==
    UNION {{i.args[2][2] : i \in {j \in ToSet(f.body) : j.fn = "add_tag"}}
             : f \in ToSet(functions)}

\* For a pointer, the analysis answers with tags, or that it does not know.
Answers ==
    {{Ascending(tags, call_site_counter)} : tags \in SUBSET InsertedTags} \cup {{}}

\* Mutant: tags even when those of one parameter are unknown.
SetTags_Partial(i, answer) ==
    IF DOMAIN answer = {} THEN i
    ELSE [i EXCEPT !.tags =
            {FlattenSeq([n \in DOMAIN answer |->
               IF answer[n] = {} THEN <<>> ELSE CHOOSE t \in answer[n] : TRUE])}]

SetTags(i, answer) ==
    IF DOMAIN answer = {} \/ {} \in ToSet(answer) THEN i
    ELSE [i EXCEPT !.tags =
            {FlattenSeq([n \in DOMAIN answer |-> CHOOSE t \in answer[n] : TRUE])}]

TagAnalysisResultsAsMetadata ==
    /\ Visiting("tags")
    /\ \E answer \in [DOMAIN ParamsOfType(Current, "output") -> Answers] :
         /\ Visit(<<>>, SetTags(Current, answer))
         /\ answers' = IF DOMAIN answer = {} THEN answers
                       ELSE [src \in DOMAIN answers \cup {Current.src} |->
                               IF src \in DOMAIN answers THEN answers[src]
                                                         ELSE answer]
    /\ UNCHANGED <<arguments, input, printed, metadata_vars, wrap_vars, logging,
                   dependency_map>>

-----------------------------------------------------------------------------
(* removeSources and OutputDependencyMap *)

IsIntrinsic(i) == i.op = "call" /\ i.fn \in {"add_tag", "sea_dsa_set_modified"}

\* Mutant: one of the two intrinsics is forgotten.
RemoveSources_TagsOnly ==
    /\ pass = "remove_sources"
    /\ functions' = [f \in DOMAIN functions |->
         [functions[f] EXCEPT
            !.body = AtPositions(@, {k \in DOMAIN @ : @[k].fn # "add_tag"})]]
    /\ pass' = "dependency_map"
    /\ UNCHANGED <<at, metadata_vars, wrap_vars, logging, dependency_map, history>>

\* For each function: collect the calls, then erase them.
RemoveSources ==
    /\ pass = "remove_sources"
    /\ functions' = [f \in DOMAIN functions |->
         [functions[f] EXCEPT
            !.body = AtPositions(@, {k \in DOMAIN @ : ~IsIntrinsic(@[k])})]]
    /\ pass' = "dependency_map"
    /\ UNCHANGED <<at, metadata_vars, wrap_vars, logging, dependency_map, history>>

\* outputFile.good() after the open.
MapOpens == arguments.dependency_map_file = "writable"

\* Without a file the pass returns before its loop, with a message if it was asked
\* for one; the passes go on.
NoDependencyMap ==
    /\ pass = "dependency_map"
    /\ at = <<1, 1>>
    /\ ~MapOpens
    /\ pass' = "configure_logging"
    /\ UNCHANGED <<module_vars, metadata_vars, wrap_vars, logging, dependency_map,
                   history>>

OutputDependencyMap ==
    /\ Visiting("dependency_map")
    /\ MapOpens
    /\ Visit(<<>>, Current)
    /\ LET ids == IF IsDirectCall(Current) THEN CallSiteIds(Current) ELSE {}
           tags == IF ids = {} \/ Current.tags = {} THEN <<>>
                   ELSE CHOOSE t \in Current.tags : TRUE
           id == CHOOSE n \in ids : TRUE
       IN  dependency_map' =
             IF ids = {} THEN dependency_map
             ELSE [nodes |-> Append(dependency_map.nodes,
                                    [id |-> id, fn |-> Current.fn]),
                   edges |-> dependency_map.edges
                               \o [n \in DOMAIN tags |-> <<id, tags[n]>>]]
    /\ UNCHANGED <<metadata_vars, wrap_vars, logging, history>>

-----------------------------------------------------------------------------
(* AddLogging *)

LoadConfiguration ==
    /\ pass = "configure_logging"
    /\ \/ /\ arguments.add_logging_config = {}
          /\ UNCHANGED logging
       \/ \E lines \in arguments.add_logging_config :
            logging' = LoggingConfig(lines)
    /\ pass' = IF LoggingIsOn(logging') THEN "add_logging" ELSE "done"
    /\ UNCHANGED <<module_vars, metadata_vars, wrap_vars, dependency_map, history>>

LoggerInit ==
    Instruction("call", "clam_prov_logging_init",
                <<<<"i64", 0>>, <<"i64", logging.max_records>>,
                  <<"i64", logging.output_mode>>>>)

BufferLoggerCall(call) ==
    Instruction("call", "clam_prov_logging_buffer",
                <<<<"i32", 0>>, <<"i64", CHOOSE id \in CallSiteIds(call) : TRUE>>,
                  <<Signature[call.fn].result, "result", call.src>>,
                  <<"i8*", call.fn>>>>)

LoggerShutdown ==
    Instruction("call", "clam_prov_logging_shutdown", <<<<"i64", 0>>>>)

IsLogged(i) ==
    /\ IsDirectCall(i)
    /\ ~EndsBlock(i)
    /\ i.fn \notin {"clam_prov_logging_init", "clam_prov_logging_buffer"}
    /\ i.meta # {}

\* Mutant: nothing is logged right before a return.
InsertBufferLoggerCall_NotLast ==
    IF at[2] > 1 /\ Current.op # "ret" /\ IsLogged(Body[at[2] - 1])
    THEN <<BufferLoggerCall(Body[at[2] - 1])>>
    ELSE <<>>

\* Between the previous instruction of the block and the current one.
InsertBufferLoggerCall ==
    IF at[2] > 1 /\ IsLogged(Body[at[2] - 1])
    THEN <<BufferLoggerCall(Body[at[2] - 1])>>
    ELSE <<>>

\* Mutant: shutdown comes before the last record.
AddLogging_ShutdownFirst ==
    /\ Visiting("add_logging")
    /\ LET is_main == FunctionName = "main"
           at_start == IF is_main /\ at[2] = 1 THEN <<LoggerInit>> ELSE <<>>
           at_end == IF is_main /\ Current.op = "ret" THEN <<LoggerShutdown>>
                                                      ELSE <<>>
       IN  Visit(at_start \o at_end \o InsertBufferLoggerCall, Current)
    /\ UNCHANGED <<metadata_vars, wrap_vars, logging, dependency_map, history>>

AddLogging ==
    /\ Visiting("add_logging")
    /\ LET is_main == FunctionName = "main"
           at_start == IF is_main /\ at[2] = 1 THEN <<LoggerInit>> ELSE <<>>
           at_end == IF is_main /\ Current.op = "ret" THEN <<LoggerShutdown>>
                                                      ELSE <<>>
       IN  Visit(at_start \o InsertBufferLoggerCall \o at_end, Current)
    /\ UNCHANGED <<metadata_vars, wrap_vars, logging, dependency_map, history>>

-----------------------------------------------------------------------------
(* What clam-prov is used for                                              *)

\* The functions that are clam-prov's own, or its analysis'.
OwnFunctions ==
    {"add_tag", "sea_dsa_set_modified", "clam_prov_logging_init",
     "clam_prov_logging_buffer", "clam_prov_logging_shutdown"}

\* A call, or the end of a block, without metadata.
InputInstruction ==
    [op : {"call", "invoke", "icall", "br", "ret"}, fn : STRING,
     args : Seq({<<"null">>} \cup ({"value"} \X Nat \X Nat)),
     meta : {{}}, tags : {{}}, addr : Nat \ {0}, src : Nat \ {0}]

\* A program with at least one function, in which no two instructions are the
\* same, and that was not instrumented yet.
ASSUME ArgumentsAssumption ==
    \A arg \in Arguments :
        /\ arg.input \in Seq([name : STRING, body : Seq(InputInstruction)])
        /\ arg.input # <<>>
        /\ \A f \in ToSet(arg.input) :
             f.body # <<>> /\ \A i \in ToSet(f.body) : i.src = i.addr
        /\ \A f, g \in DOMAIN arg.input :
             \A k \in DOMAIN arg.input[f].body, l \in DOMAIN arg.input[g].body :
               arg.input[f].body[k].addr = arg.input[g].body[l].addr => f = g /\ k = l
        /\ Named(arg.input) \cap (OwnFunctions \cup ToSet(WrapperName)) = {}

\* What LLVM asks of a module: functions have names of their own, the last
\* instruction of a function ends a block, and a call passes every parameter that
\* is declared.
ASSUME VerifierAssumption ==
    \A arg \in Arguments :
        /\ \A f, g \in DOMAIN arg.input : arg.input[f].name = arg.input[g].name => f = g
        /\ \A f \in ToSet(arg.input) :
             /\ f.name # ""
             /\ EndsBlock(Last(f.body))
             /\ \A i \in ToSet(f.body) :
                  IsDirectCall(i) => Len(Signature[i.fn].params) <= Len(i.args)

\* What is called has a type, and so have the functions that a new main calls:
\* those that give it values, for which there are enough names, take nothing.
ASSUME SignatureAssumption ==
    /\ \A fn \in DOMAIN Signature : Signature[fn].params \in Seq(STRING)
    /\ ToSet(NondetName) \subseteq DOMAIN Signature
    /\ \A fn \in ToSet(NondetName) : Signature[fn].params = <<>>
    /\ \A arg \in Arguments :
         /\ \A f \in ToSet(arg.input) : \A i \in ToSet(f.body) :
              IsDirectCall(i) => i.fn \in DOMAIN Signature
         /\ arg.add_main /\ "main" \notin Named(arg.input) =>
              /\ \A f \in ToSet(arg.input) : f.name \in DOMAIN Signature
              /\ Cardinality(ToSet(ParameterTypes(arg.input))) <= Len(FreeNames(arg.input))

\* A parameter of a wrapper is not taken for a type.
ASSUME ResultsAssumption == \A fn \in DOMAIN Signature : Signature[fn].result # "param"

\* The names of the functions that clam-prov makes are no other names.
ASSUME NamesAssumption ==
    /\ NondetName \in Seq(STRING)
    /\ WrapperName \in Seq(STRING)
    /\ \A m, n \in DOMAIN WrapperName : WrapperName[m] = WrapperName[n] => m = n
    /\ \A m, n \in DOMAIN NondetName : NondetName[m] = NondetName[n] => m = n
    /\ ToSet(NondetName) \cap (OwnFunctions \cup ToSet(WrapperName)) = {}
    /\ ToSet(WrapperName) \cap (OwnFunctions \cup {"main"}) = {}

ASSUME WrappersHaveNames == "" \notin ToSet(WrapperName)

Next ==
    \/ Start \/ PrintSourcesAndSinks
    \/ LoadInputFile \/ AddMetadata_Skip \/ ConditionalUpdate
    \/ AddSources
    \/ WrapSinks_Skip \/ WrapSinks_Collect \/ WrapCall \/ WrapCrashes
    \/ TagAnalysisResultsAsMetadata
    \/ RemoveSources \/ NoDependencyMap \/ OutputDependencyMap
    \/ LoadConfiguration \/ AddLogging
    \/ EndOfFunction

Spec == Init /\ [][Next]_vars

\* One thread that nothing blocks.
FairSpec == Spec /\ WF_vars(Next)
=============================================================================
