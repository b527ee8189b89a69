---------------------------- MODULE MCProvPasses ----------------------------
(* Instances of ProvPasses for TLC: programs of a main and a helper. *)
EXTENDS ProvPassesProps, TLC

Nondet == <<"verifier.nondet.0", "verifier.nondet.1", "verifier.nondet.2",
            "verifier.nondet.3", "verifier.nondet.4">>

Buffer == [params |-> <<"i32", "i8*", "i64">>, result |-> "i64"]
KnownFunctions ==
    [read     |-> Buffer,
     readv    |-> Buffer, pread  |-> Buffer, preadv  |-> Buffer, recvfrom |-> Buffer,
     writev   |-> Buffer, pwrite |-> Buffer, pwritev |-> Buffer, sendto   |-> Buffer,
     write    |-> [params |-> <<"i32", "ptr", "i64">>, result |-> "i64"],
     copy     |-> [params |-> <<"i8*", "i8*", "ptr">>, result |-> "i64"],
     mmap     |-> [params |-> <<"i64">>,               result |-> "i8*"],
     printf   |-> [params |-> <<"i8*">>,               result |-> "i32"],
     helper   |-> [params |-> <<>>,                    result |-> "void"],
     open_log |-> [params |-> <<"i8*", "i32">>,        result |-> "void"],
     add_line |-> [params |-> <<"i32", "i8*", "ptr">>, result |-> "void"]]

SystemCalls ==
    KnownFunctions @@ [fn \in ToSet(Nondet) |-> [params |-> <<>>, result |-> "i8*"]]

Wrappers == <<"clam_prov_sink.0", "clam_prov_sink.1", "clam_prov_sink.2">>

-----------------------------------------------------------------------------
(* Programs.  An instruction knows where it is in the input. *)

At(i, f, k) == [i EXCEPT !.addr = 10 * f + k, !.src = 10 * f + k,
                         !.args = [n \in DOMAIN @ |->
                           IF @[n][1] = "value" THEN <<"value", 10 * f + k, n>>
                                                ELSE @[n]]]

Function(name, f, calls) ==
    [name |-> name,
     body |-> [k \in 1 .. Len(calls) + 1 |->
                 IF k <= Len(calls) THEN At(calls[k], f, k)
                 ELSE At(Instruction("ret", "", <<>>), f, k)]]

Value == <<"value", 0, 0>>
Null  == <<"null">>

Read       == Instruction("call", "read", <<Value, Value, Value>>)
ReadNull   == Instruction("call", "read", <<Value, Null, Value>>)
ReadInvoke == Instruction("invoke", "read", <<Value, Value, Value>>)
Write      == Instruction("call", "write", <<Value, Value, Value>>)
Copy       == Instruction("call", "copy", <<Value, Value, Value>>)
Mmap       == Instruction("call", "mmap", <<Value>>)
Printf     == Instruction("call", "printf", <<Value, Value>>)
ICall      == Instruction("icall", "", <<Value>>)
CallHelper == Instruction("call", "helper", <<>>)

BodiesOf(calls, n) == UNION {[1 .. m -> calls] : m \in 0 .. n}

Programs(main_calls, n, helper_calls) ==
    {<<Function("main", 1, m), Function("helper", 2, h)>> :
       m \in BodiesOf(main_calls, n), h \in BodiesOf(helper_calls, 1)}

Calls(program, name) ==
    {i \in InstructionsOf(program) : IsDirectCall(i) /\ i.fn = name}

\* Two calls of copy have many answers: then the helper is empty.
SourcesAndSinks ==
    {p \in Programs({Read, ReadInvoke, Write, Copy, CallHelper}, 2, {Read, Write}) :
       Cardinality(Calls(p, "copy")) = 2 => Len(p[2].body) = 1}

EveryCall ==
    Programs({ReadNull, Write, Mmap, ICall, Printf}, 1, {Write, Copy})

\* Libraries of two functions; some use names that the dummy main wants.
LibraryCalls == {Read, Write} \cup {Instruction("call", Nondet[n], <<>>) : n \in 1 .. 2}
Libraries ==
    {<<Function("open_log", 1, a), Function("add_line", 2, b)>> :
       a \in BodiesOf(LibraryCalls, 1), b \in BodiesOf(LibraryCalls, 1)}

\* Every source and sink, and then any call.
Three(fn) == Instruction("call", fn, <<Value, Value, Value>>)
ManyCalls ==
    {<<Function("main", 1,
         <<Read, Three("readv"), Three("pread"), Three("preadv"), Three("recvfrom"),
           Mmap, Write, Three("writev"), Three("pwrite"), Three("pwritev"),
           Three("sendto"), call, ICall>>)>>
       : call \in {Read, ReadInvoke, Write, Mmap, Printf, ICall}}

OneCall(call) == {<<Function("main", 1, <<call>>)>>}

-----------------------------------------------------------------------------
(* Configuration files *)

Number(v)   == [kind |-> "number", value |-> v]
Of(kind)    == [kind |-> kind]
Label(fn, param, description) ==
    [tokens |-> 3, fn |-> fn, param |-> param, description |-> description]

\* Part of sources-sinks.config.
Standard ==
    <<Label("read", Number(2), "input"), Label("read", Number(2), "size"),
      Label("write", Number(2), "output"), Label("write", Number(2), "size"),
      Label("copy", Number(1), "output"), Label("copy", Number(2), "input"),
      Label("copy", Number(3), "output"),
      Label("recvfrom", Number(2), "input")>>

\* The labels of sources-sinks.config (the sizes are left out).
Shipped ==
    [n \in 1 .. 6 |-> Label(<<"read", "readv", "pread", "preadv", "recvfrom", "mmap">>[n],
                            Number(IF n = 6 THEN 0 ELSE 2), "input")]
      \o [n \in 1 .. 5 |-> Label(<<"write", "writev", "pwrite", "pwritev", "sendto">>[n],
                                 Number(2), "output")]

\* Lines that are skipped in part or whole, and labels that give no type.
Odd ==
    <<[Label("read", Number(2), "input") EXCEPT !.tokens = 2],
      Label("read", Of("empty"), "input"), Label("helper", Of("junk"), "output"),
      Label("copy", Of("name"), "output"), Label("copy", Number(8), "input"),
      Label("copy", Number(2), "output"), Label("write", Number(2), "input"),
      Label("write", Number(2), "output"), Label("write", Number(11), "output")>>

\* mmap gives its result, and printf has an output that it does not declare.
Results == <<Label("mmap", Number(0), "input"), Label("write", Number(2), "output"),
             Label("printf", Number(2), "output")>>

Setting(key, v) == [key |-> key, value |-> v]
File(mode, max) == {<<Setting("output_mode", mode), Setting("max_records", max)>>}

LogToFile == File(Number(0), Number(10))
\* Off, negative after the conversion to int, and not numbers.
AnyLogging == {LogToFile, {}, File(Number(1), Number(200)),
               File(Of("junk"), Number(1)), File(Number(1), Number(9)),
               {<<Setting("output_mod", Number(0))>>}}

-----------------------------------------------------------------------------
(* Arguments *)

ArgumentsOf(inputs, metadata_files, logging_files) ==
    [input : inputs, add_main : {FALSE}, print_sources_sinks : {FALSE},
     add_metadata_config : metadata_files, add_logging_config : logging_files,
     add_metadata_output : {"none"}, dependency_map_file : {"writable"}]

LibrariesOf(inputs, printing) ==
    [input : inputs, add_main : {TRUE}, print_sources_sinks : printing,
     add_metadata_config : {{Shipped}}, add_logging_config : {LogToFile},
     add_metadata_output : {"none"}, dependency_map_file : {"writable"}]

\* Reads and writes in any order, with output files that can and cannot be opened.
OutputsOf(inputs) ==
    [input : inputs, add_main : {FALSE}, print_sources_sinks : {FALSE},
     add_metadata_config : {{Standard}}, add_logging_config : {LogToFile},
     add_metadata_output : {"none", "writable", "unwritable"},
     dependency_map_file : {"none", "writable", "unwritable"}]

\* Sources and sinks in every order, every kind of call with every configuration,
\* and what is written with files of every kind.
EveryRun ==
    ArgumentsOf(SourcesAndSinks, {{Standard}}, {LogToFile})
      \cup ArgumentsOf(EveryCall, {{Standard}, {Odd}, {Results}, {}}, AnyLogging)
      \cup OutputsOf(Programs({Read, Write}, 2, {Write}))
      \cup LibrariesOf(Libraries, {FALSE})
      \cup LibrariesOf(Libraries \cup ManyCalls, {TRUE})

MmapResult ==
    ArgumentsOf(OneCall(Mmap), {{<<Label("mmap", Number(0), "input")>>}}, {LogToFile})
NineRecords ==
    ArgumentsOf(OneCall(Write), {{Standard}}, {File(Number(0), Number(9))})
=============================================================================
