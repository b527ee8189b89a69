---------------------------- MODULE CallSiteLog ----------------------------
(***************************************************************************)
(* What the call-site logger promises its caller, with no threads, no      *)
(* buffer array and no file: while logging is open, accepted records queue *)
(* up; a flush moves the WHOLE queue to the end of the log, in order; and  *)
(* logging is closed only when nothing is pending.  A log that is Lossy    *)
(* may drop a queue that it could not write (the code's "something went    *)
(* wrong TODO"), keeping a prefix of it and possibly a torn record.        *)
(*                                                                         *)
(* The promise ends when a record is stored outside the buffer: what the   *)
(* C program does afterwards is undefined, and `broken' says so.           *)
(***************************************************************************)
EXTENDS Naturals, Sequences

CONSTANTS
    Record,     \* the call-site records
    Torn,       \* a record of which only some bytes reached the log
    Lossy       \* may a flush fail?

VARIABLES
    open,       \* is logging on?
    queue,      \* accepted records that are not in the log yet
    log,        \* the log
    broken      \* has a record been stored outside the buffer?

alvars == <<open, queue, log, broken>>

ALInit ==
    /\ open = FALSE
    /\ queue = <<>>
    /\ log = <<>>
    /\ broken = FALSE

Open ==
    /\ ~open
    /\ open' = TRUE
    /\ UNCHANGED <<queue, log>>

\* Any record; stated without a quantifier over the infinite set of them.
Accept ==
    /\ open
    /\ Len(queue') = Len(queue) + 1
    /\ queue'[Len(queue')] \in Record
    /\ queue' = Append(queue, queue'[Len(queue')])
    /\ UNCHANGED <<open, log>>

Flush ==
    /\ open
    /\ log' = log \o queue
    /\ queue' = <<>>
    /\ UNCHANGED open

\* A failed flush: the first n queued records reach the log, then perhaps a
\* piece of the next one, and the rest of the queue is gone.
Lose ==
    /\ Lossy
    /\ open
    /\ \E n \in 0 .. Len(queue) :
         \/ log' = log \o SubSeq(queue, 1, n)
         \/ n < Len(queue) /\ log' = Append(log \o SubSeq(queue, 1, n), Torn)
    /\ queue' = <<>>
    /\ UNCHANGED open

Close ==
    /\ open
    /\ queue = <<>>
    /\ open' = FALSE
    /\ UNCHANGED <<queue, log>>

Promised ==
    \/ Open
    \/ Accept
    \/ Flush
    \/ Lose
    \/ Close

ALNext ==
    /\ broken => broken'
    /\ ~broken' => Promised

ALSpec == ALInit /\ [][ALNext]_alvars
=============================================================================
