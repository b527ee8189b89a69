--------------------------- MODULE ProvLoggerProps ---------------------------
(***************************************************************************)
(* What the run-time logger must guarantee.  The statements quantify over  *)
(* every interleaving of the threads and every fault of ProvLogger.        *)
(***************************************************************************)
EXTENDS ProvLogger

\* The variables have their types.
TypeOK ==
    /\ max_records \in Int
    /\ output_mode \in Int
    /\ output_fd \in -1 .. MaxFd
    /\ is_inited \in BOOLEAN
    /\ records \in {"null", "live", "freed"}
    /\ slots \in Seq(Slot)
    /\ record_index \in Nat
    /\ lock_is_inited \in BOOLEAN
    /\ lock_state \in {"ready", "destroyed"}
    /\ lock_owner \in Threads \cup {NoOne}
    /\ pc \in [Threads -> Points]
    /\ caller \in [Threads -> {"none", "program", "program_force", "buffer",
                               "shutdown"}]
    /\ result \in [Threads -> {0, 1}]
    /\ batch \in [Threads -> Seq(Slot)]
    /\ fds \in [0 .. MaxFd -> {"closed", "program", "log"}]
    /\ reader \in BOOLEAN
    /\ process \in {"running", "aborted", "sigpipe"}
    /\ output \in Seq(Slot)
    /\ accepted \in Seq(Record)
    /\ overrun \in BOOLEAN
    /\ made \in [{"init", "flush", "shutdown", "open"} -> Nat]
    /\ calls \in [Threads -> Nat]

\* A thread that has looked at is_inited and is still working on the records
\* array, the index or the output descriptor.
UsingRecords(t) ==
    \/ pc[t] \in {"init_open", "buffer_incr", "flush_write", "flush_reset",
                  "shutdown_cleanup"}
    \/ pc[t] = "flush_lock" /\ caller[t] = "shutdown"

\* At most one thread at a time is between the is_inited check and the end of
\* its work on the records, even after a shutdown that found logging off has
\* destroyed the mutex under the other threads' feet.
MutualExclusion ==
    \A t, u \in Threads : UsingRecords(t) /\ UsingRecords(u) => t = u

\* The points at which a thread holds a mutex that is not destroyed.
HoldingPoints ==
    {"init_check", "init_open", "init_unlock", "buffer_write", "buffer_incr",
     "buffer_unlock", "flush_check", "flush_write", "flush_reset",
     "flush_unlock", "shutdown_check", "shutdown_cleanup", "shutdown_unlock"}

Holding(t) ==
    \/ pc[t] \in HoldingPoints
    \/ pc[t] = "flush_lock" /\ caller[t] = "shutdown"

\* No API function returns with the mutex held: its owner is inside one.
NoLeakedLock == lock_owner # NoOne => Holding(lock_owner)

\* While logging is on, and while any thread works on the records, the array
\* is allocated and output_fd is a descriptor that the logger opened and has
\* not closed: no use after free, no write into somebody else's file.
LoggingIsUsable ==
    is_inited \/ (\E t \in Threads : pc[t] \in {"buffer_incr", "flush_write",
                                                "flush_reset", "shutdown_cleanup"})
      => records = "live" /\ OutputTarget = "log"

\* The threads that have inserted a record and have not yet finished the
\* check_and_flush that clam_prov_logging_buffer makes after it.
Inserters ==
    {t \in Threads :
       /\ result[t] = 1
       /\ \/ pc[t] = "buffer_unlock"
          \/ /\ caller[t] = "buffer"
             /\ pc[t] \in {"flush_lock", "flush_check", "flush_write",
                           "flush_reset"}}

\* The buffer outgrows max_records by at most one record for each thread that
\* is between its insert and its flush, minus the one that fills it.
OverrunBound ==
    is_inited => record_index <= max_records - 1 + Cardinality(Inserters)

\* No record is ever stored outside the array.
NoOverrun == ~overrun

\* What the logger still has to write: nothing of the batch that a thread has
\* written but not yet struck off with record_index = 0.
Pending ==
    IF \E t \in Threads : pc[t] = "flush_reset" THEN <<>> ELSE Buffered

Promise ==
    INSTANCE CallSiteLog WITH
        Lossy  <- Faults \cap {"malloc", "write"} # {},
        open   <- is_inited,
        queue  <- Pending,
        log    <- output,
        broken <- overrun

\* The logger implements its abstract specification: inserts queue up and are
\* never lost, duplicated or reordered on the way to the log except by a write
\* or allocation that failed, and logging is turned off with nothing pending.
ImplementsCallSiteLog == Promise!ALSpec

\* As long as no store went outside the array, the log holds no record twice
\* and the records of each thread in the order it made the calls, whatever
\* writes fail, and nothing that was never accepted.
LogOrder ==
    ~overrun =>
      \A i \in DOMAIN output :
        output[i] # Torn =>
          /\ \E a \in DOMAIN accepted : accepted[a] = output[i]
          /\ \A j \in 1 .. i - 1 :
               output[j] # Torn /\ output[j].pid = output[i].pid
                 => output[j].call_site_id < output[i].call_site_id

\* The library never closes a descriptor that belongs to the program.
ProgramDescriptorsKept ==
    [][\A f \in DOMAIN fds : fds[f] = "program" => fds'[f] = "program"]_vars

\* A buffer that is full is flushed, whoever filled it.
FullIsFlushed ==
    (is_inited /\ record_index >= max_records)
      ~> (record_index = 0 \/ process # "running")

\* Every call of the API returns.
CallsReturn ==
    \A t \in Threads :
      pc[t] # "idle" ~> (pc[t] = "idle" \/ process # "running")

\* Every call of clam_prov_logging_shutdown returns.
ShutdownReturns ==
    \A t \in Threads :
      pc[t] = "shutdown_lock" ~> (pc[t] = "idle" \/ process # "running")
=============================================================================
