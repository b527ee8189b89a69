---------------------------- MODULE ProvMetadata ----------------------------
(***************************************************************************)
(* The metadata that clam-prov attaches to calls                           *)
(* (src/Instrumentation/ProvMetadata.cpp), over a module of straight-line  *)
(* functions.                                                              *)
(*                                                                         *)
(* An optional value is a set with at most one element.                    *)
(*                                                                         *)
(* An instruction is a record:                                             *)
(*   op    "call", "invoke" (a call that ends its block), "icall" (a call  *)
(*         through a pointer), "cast", "br" or "ret"                       *)
(*   fn    the function called                                             *)
(*   args  the operands                                                    *)
(*   meta  call-site-metadata: the identifier, and for each annotated      *)
(*         parameter (0 is the return value) its labels                    *)
(*   tags  clam-prov-tags                                                  *)
(*   addr  the address of the instruction in the compiler's memory         *)
(*   src   which instruction of the input it is; 0 when a pass inserted it *)
(***************************************************************************)
EXTENDS Integers, Sequences, FiniteSets, SequencesExt

Instruction(op, fn, args) ==
    [op |-> op, fn |-> fn, args |-> args, meta |-> {}, tags |-> {},
     addr |-> 0, src |-> 0]

\* CallBase::getCalledFunction() is not null.
IsDirectCall(i) == i.op \in {"call", "invoke"}

EndsBlock(i) == i.op \in {"invoke", "br", "ret"}

CallSiteMetadata(id, param_to_labels) == {[id |-> id, params |-> param_to_labels]}

CallSiteIds(i) == {m.id : m \in i.meta}

\* "input" or "output" when only one of the two is among the labels.
ArgumentType(labels) ==
    LET types == ToSet(labels) \cap {"input", "output"}
    IN  IF Cardinality(types) = 1 THEN CHOOSE ty \in types : TRUE ELSE "none"

\* The elements of a sequence at the given positions, in their order.
AtPositions(s, positions) ==
    FlattenSeq([k \in DOMAIN s |-> IF k \in positions THEN <<s[k]>> ELSE <<>>])

\* A set of numbers up to n in ascending order.
Ascending(numbers, n) ==
    AtPositions([k \in 1 .. n + 1 |-> k - 1], {k \in 1 .. n + 1 : k - 1 \in numbers})

\* The annotated parameters of a call that have a type, in a fixed order.  (The
\* code has the order of a hash table; nothing here depends on it.)  Only
\* parameters that the call has are annotated.
ParamsOfType(i, type) ==
    LET params == UNION {{k \in DOMAIN m.params : ArgumentType(m.params[k]) = type}
                           : m \in i.meta}
    IN  Ascending(params, Len(i.args))

\* Like ParamsOfType, for when the order plays no part.
HasParamOfType(i, type) ==
    \E m \in i.meta : \E k \in DOMAIN m.params : ArgumentType(m.params[k]) = type
=============================================================================
