---------------------------- MODULE MCProvLogger ----------------------------
(* Instances of ProvLogger for TLC. *)
EXTENDS ProvLoggerProps

CONSTANTS t1, t2, t3

BufferOfTwo  == {<<2, 0>>}
\* A config file may ask for no buffer at all, for the pipe, and for an output
\* mode that does not exist.
AnyConfig    == {<<2, 0>>, <<1, 1>>, <<0, 0>>, <<1, 2>>}
FileOrPipe   == {<<1, 0>>, <<2, 1>>}
OnlyInvalid  == {<<0, 0>>}
TwoOrInvalid == {<<2, 0>>, <<0, 0>>}

BoundOf(i, f, s, o) ==
    [init |-> i, flush |-> f, shutdown |-> s, open |-> o]
OneLife      == BoundOf(1, 0, 1, 0)
NoShutdown   == BoundOf(1, 1, 0, 0)
TwoLives     == BoundOf(3, 2, 2, 1)
OneInit      == BoundOf(1, 0, 0, 1)
=============================================================================
