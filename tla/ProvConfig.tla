----------------------------- MODULE ProvConfig -----------------------------
(***************************************************************************)
(* The two configuration files: which parameters are sources and sinks     *)
(* (loadInputFile of src/Instrumentation/AddMetadata.cpp) and how to log   *)
(* (loadConfiguration of src/Instrumentation/AddLogging.cpp).              *)
(*                                                                         *)
(* A token is a record with a kind: "number" (value: decimal digits and    *)
(* nothing else), "name", "long" (256 characters or more), "empty", or     *)
(* "junk" (starts with a digit but is no number).                          *)
(***************************************************************************)
EXTENDS Integers, Sequences, SequencesExt

CONSTANTS
    IntBits         \* the width of an int: 32

ASSUME IntBitsAssumption == IntBits \in Nat /\ IntBits > 4

MaxDigits == 7      \* numbers are below 10^MaxDigits

Digits(v) == CHOOSE d \in 1 .. MaxDigits : v < 10 ^ d /\ (d = 1 \/ v >= 10 ^ (d - 1))

AsSigned(v, bits) == IF v >= 2 ^ (bits - 1) THEN v - 2 ^ bits ELSE v

\* StringRef::getAsInteger(10, APInt) makes the APInt 4 bits wide for each
\* digit, and every use of it reads those bits as a signed number.
IntegerValue(v) == IF v = 0 THEN 0 ELSE AsSigned(v, 4 * Digits(v))

\* The conversion of an int64_t to int.
AsInt(v) == AsSigned(v % 2 ^ IntBits, IntBits)

-----------------------------------------------------------------------------
(* add-metadata-config *)

IndexOK(param) == param.kind = "number" /\ IntegerValue(param.value) > -1

Accepted(line) ==
    (IndexOK(line.param) \/ line.param.kind = "name") /\ line.description # "long"

ParamInfo(line) ==
    [use_index   |-> line.param.kind = "number",
     index       |-> IF line.param.kind = "number" THEN IntegerValue(line.param.value) - 1
                                                   ELSE 0,
     description |-> line.description]

\* A function that exists is known once a line names it, even when the rest of
\* the line is rejected.  The accepted lines are kept in their order.
FunctionInfos(lines, declared) ==
    LET read == {line \in ToSet(lines) : line.tokens = 3 /\ line.fn \in declared}
        accepted(fn) == SelectSeq(lines, LAMBDA line :
                          line \in read /\ line.fn = fn /\ Accepted(line))
    IN  [fn \in {line.fn : line \in read} |->
           [n \in DOMAIN accepted(fn) |-> ParamInfo(accepted(fn)[n])]]

-----------------------------------------------------------------------------
(* add-logging-config *)

NoLogging == [output_mode |-> -1, max_records |-> -1]

ReadSetting(config, line) ==
    IF line.key \in DOMAIN config /\ line.value.kind = "number"
    THEN [config EXCEPT ![line.key] = AsInt(IntegerValue(line.value.value))]
    ELSE config

LoggingConfig(lines) == FoldLeft(ReadSetting, NoLogging, lines)

LoggingIsOn(config) == config.output_mode >= 0 /\ config.max_records >= 0
=============================================================================
