------------------------------ MODULE AuditLog ------------------------------
(***************************************************************************)
(* The log that instrumented programs share (~/.clam-prov/audit.log, or    *)
(* audit.pipe), seen from outside: several processes, some of them forked  *)
(* from others, append to it, and CallSiteLogReader reads it.              *)
(*                                                                         *)
(* A process is what ProvLogger shows of it: a buffer that is written when *)
(* it is full, one flush at a time.  What goes on between processes is in  *)
(* full: flock belongs to an open file description, which a child shares   *)
(* with its parent; a write may be seen, or end, half way, or wait for a   *)
(* full pipe; the child has a copy of the buffer and of the thread id that *)
(* the forking thread has cached.                                          *)
(*                                                                         *)
(* A record is written as two halves, so that it can be cut.               *)
(***************************************************************************)
EXTENDS Naturals, Sequences, SequencesExt

CONSTANTS
    Root,           \* programs that can be started separately
    Child,          \* processes that can be forked
    Thread,         \* the threads of a process, ...
    Main,           \* ... the one that runs main, or that a child begins with
    None,
    Settings,       \* the circumstances to look at
    AtomicHalves,   \* what a pipe takes in one piece (PIPE_BUF)
    PipeSize,       \* what fits into a pipe
    MaxCalls        \* bound on the call-sites that each process executes

Process == Root \cup Child

\* What gettid() gives: the id of a thread.  That of Main is the id of the
\* process.  Ids are not given twice.
Id == Process \X Thread

ASSUME ProcessAssumption == Root \cap Child = {} /\ None \notin Process \cup Id
ASSUME ThreadAssumption == Main \in Thread
ASSUME BoundsAssumption ==
    /\ AtomicHalves \in Nat
    /\ PipeSize \in Nat
    /\ AtomicHalves <= PipeSize
    /\ MaxCalls \in [Process -> Nat]

\* The configuration; whether the mutex functions are stubs or work (see
\* ProvLogger); the programs; how many records the reader is asked for; and
\* what may happen: a process dies, a write fails.
Setting ==
    [mode : {"file", "pipe"}, max_records : Nat \ {0}, mutex : {"stub", "works"},
     started : SUBSET Root, wanted : Nat, faults : SUBSET {"die", "write"}]

ASSUME SettingsAssumption == Settings \subseteq Setting

VARIABLES
    setting,
    status,         \* of a process; "stuck": its mutex is locked for ever
    desc,           \* the open file description behind its output_fd
    tid,            \* clam_prov_thread_tid of each of its threads
    buffer,         \* its records
    pc,             \* where its flush is
    todo,           \* what write has still to write
    flock,          \* the description that has the lock, or None
    log,
    offset,         \* how much the reader has read
    reader,         \* "reads", "ended" or "invalid"
    printed,        \* the records that it printed
    calls,          \* history: call-sites executed, ...
    lineage,        \* ... a process and those it descends from, ...
    copied,         \* ... records that were in a buffer at a fork, ...
    dropped,        \* ... what short writes dropped, and ...
    cuts            \* ... positions in the log after half a record

process_vars == <<status, desc, tid, buffer>>
flush_vars   == <<pc, todo, flock>>
reader_vars  == <<offset, reader, printed>>
past_vars    == <<calls, lineage, copied, dropped, cuts>>
vars == <<setting, process_vars, flush_vars, log, reader_vars, past_vars>>

\* A call-site record: who executed the call-site, which call of his it was,
\* and the `pid' that the record shows.
Record == [by : Process, thread : Thread, n : Nat, pid : Id]
Half   == [record : Record, half : {1, 2}, writer : Process]

Live == {"running", "returning", "stuck", "hung"}

Init ==
    /\ setting \in Settings
    /\ status = [p \in Process |-> IF p \in setting.started THEN "running" ELSE "unborn"]
    /\ desc = [p \in Process |-> p]
    /\ tid = [p \in Process |-> [t \in Thread |-> None]]
    /\ buffer = [p \in Process |-> <<>>]
    /\ pc = [p \in Process |-> "out"]
    /\ todo = [p \in Process |-> <<>>]
    /\ flock = None
    /\ log = <<>>
    /\ offset = 0
    /\ reader = "reads"
    /\ printed = <<>>
    /\ calls = [p \in Process |-> 0]
    /\ lineage = [p \in Process |-> {p}]
    /\ copied = {}
    /\ dropped = {}
    /\ cuts = {}

-----------------------------------------------------------------------------
(* Logging a call-site                                                     *)

Goes(p, here, there) == pc[p] = here /\ pc' = [pc EXCEPT ![p] = there]

\* A program has several threads only when the mutex functions work.
Threads == IF setting.mutex = "works" THEN Thread ELSE {Main}

\* Mutant: gettid() is not called.
ThreadId_Unset(p, t) == tid[p][t]

\* Mutant: the variable is static, but not __thread.
ThreadId_Static(p, t) ==
    IF \E u \in Thread : tid[p][u] # None
    THEN tid[p][CHOOSE u \in Thread : tid[p][u] # None] ELSE <<p, t>>

\* gettid() is called once per thread; fork copies what it gave.
ThreadId(p, t) == IF tid[p][t] = None THEN <<p, t>> ELSE tid[p][t]

NewRecord(p, t) ==
    [by |-> p, thread |-> t, n |-> calls[p] + 1, pid |-> ThreadId(p, t)]

\* clam_prov_logging_buffer, with the check whether the buffer is full.
Call(p, t) ==
    /\ status[p] = "running"
    /\ t \in Threads
    /\ calls[p] < MaxCalls[p]
    /\ calls' = [calls EXCEPT ![p] = @ + 1]
    /\ tid' = [tid EXCEPT ![p][t] = ThreadId(p, t)]
    /\ buffer' = [buffer EXCEPT ![p] = Append(@, NewRecord(p, t))]
    /\ Goes(p, "out", IF Len(buffer'[p]) >= setting.max_records THEN "lock" ELSE "out")
    /\ UNCHANGED <<setting, status, desc, todo, flock, log, reader_vars, lineage,
                   copied, dropped, cuts>>

-----------------------------------------------------------------------------
(* Writing a batch                                                         *)

\* Mutant: the lock is ignored.
LockFree_Always(p) == TRUE

\* flock succeeds at once when this description has the lock already.
LockFree(p) == flock \in {None, desc[p]}

\* Mutant: the last record is written first.
Halves_Backwards(p) ==
    [i \in 1 .. 2 * Len(buffer[p]) |->
       [record |-> buffer[p][Len(buffer[p]) + 1 - (i + 1) \div 2],
        half   |-> IF i % 2 = 1 THEN 1 ELSE 2,
        writer |-> p]]

\* Mutant: the size of a batch is a bit too small.
Halves_Short(p) ==
    [i \in 1 .. 2 * Len(buffer[p]) - 1 |->
       [record |-> buffer[p][(i + 1) \div 2],
        half   |-> IF i % 2 = 1 THEN 1 ELSE 2,
        writer |-> p]]

Halves(p) ==
    [i \in 1 .. 2 * Len(buffer[p]) |->
       [record |-> buffer[p][(i + 1) \div 2],
        half   |-> IF i % 2 = 1 THEN 1 ELSE 2,
        writer |-> p]]

Lock(p) ==
    /\ LockFree(p)
    /\ Goes(p, "lock", "write")
    /\ flock' = desc[p]
    /\ todo' = [todo EXCEPT ![p] = Halves(p)]
    /\ UNCHANGED <<setting, process_vars, log, reader_vars, past_vars>>

PipeBroken == setting.mode = "pipe" /\ reader # "reads"

Fits(n) == Len(log) - offset + n <= PipeSize

\* A write that has begun holds the inode of a file, so that no other write
\* comes in between; the reader may.  A pipe only keeps small writes together,
\* and makes a write wait until the reader has made room.
InProgress(p) == pc[p] = "write" /\ todo[p] # <<>> /\ Len(todo[p]) < 2 * Len(buffer[p])
MayWrite(p, n) ==
    \/ setting.mode = "file" /\ \A q \in Process \ {p} : ~InProgress(q)
    \/ /\ setting.mode = "pipe"
       /\ ~PipeBroken
       /\ 2 * Len(buffer[p]) > AtomicHalves \/ n = Len(todo[p])
       /\ Fits(n)

Write(p) ==
    /\ pc[p] = "write"
    /\ \E n \in 1 .. Len(todo[p]) :
         /\ MayWrite(p, n)
         /\ log' = log \o SubSeq(todo[p], 1, n)
         /\ todo' = [todo EXCEPT ![p] = SubSeq(@, n + 1, Len(@))]
    /\ pc' = [pc EXCEPT ![p] = IF todo'[p] = <<>> THEN "unlock" ELSE "write"]
    /\ UNCHANGED <<setting, process_vars, flock, reader_vars, past_vars>>

\* The process stops writing with half a record in the log.
CutBy(p) ==
    IF pc[p] = "write" /\ todo[p] # <<>> /\ todo[p][1].half = 2
    THEN cuts \cup {Len(log)} ELSE cuts

\* A short write, or none: nobody writes the rest.
WriteFails(p) ==
    /\ "write" \in setting.faults
    /\ ~PipeBroken
    /\ Goes(p, "write", "unlock")
    /\ cuts' = CutBy(p)
    /\ dropped' = dropped \cup ToSet(todo[p])
    /\ todo' = [todo EXCEPT ![p] = <<>>]
    /\ UNCHANGED <<setting, process_vars, flock, log, reader_vars, calls, lineage,
                   copied>>

\* The lock of a description goes with the last process that has it open.
Closed(p) ==
    IF flock = desc[p] /\ \A q \in Process \ {p} :
                            status[q] \in Live => desc[q] # desc[p]
    THEN None ELSE flock

\* Mutant: the batch stays in the buffer.
EmptyBuffer_Not(p) == buffer

EmptyBuffer(p) == [buffer EXCEPT ![p] = <<>>]

\* Mutant: the lock is kept.
Unlocked_Not(p) == flock

\* LOCK_UN gives up the lock of the description, whoever took it.
Unlocked(p) == IF flock = desc[p] THEN None ELSE flock

\* The end of a flush.  When it was that of shutdown, the descriptor is closed
\* and the program ends; a child may still have it open.
Unlock(p) ==
    /\ Goes(p, "unlock", "out")
    /\ buffer' = EmptyBuffer(p)
    /\ flock' = Unlocked(p)
    /\ status' = [status EXCEPT ![p] = IF @ = "returning" THEN "returned" ELSE @]
    /\ UNCHANGED <<setting, desc, tid, todo, log, reader_vars, past_vars>>

-----------------------------------------------------------------------------
(* Processes                                                               *)

\* Mutant: shutdown closes the log without writing what is pending.
Return_Unflushed(p) ==
    /\ status[p] = "running"
    /\ pc[p] = "out"
    /\ status' = [status EXCEPT ![p] = "returned"]
    /\ UNCHANGED <<setting, desc, tid, buffer, flush_vars, log, reader_vars,
                   past_vars>>

\* main returns.  Shutdown flushes what is pending; with a mutex that works
\* it locks it twice, and hangs.
Return(p) ==
    /\ status[p] = "running"
    /\ pc[p] = "out"
    /\ \/ /\ setting.mutex = "works"
          /\ status' = [status EXCEPT ![p] = "hung"]
          /\ UNCHANGED flush_vars
       \/ /\ setting.mutex = "stub"
          /\ buffer[p] = <<>>
          /\ status' = [status EXCEPT ![p] = "returned"]
          /\ flock' = Closed(p)
          /\ UNCHANGED <<pc, todo>>
       \/ /\ setting.mutex = "stub"
          /\ buffer[p] # <<>>
          /\ status' = [status EXCEPT ![p] = "returning"]
          /\ pc' = [pc EXCEPT ![p] = "lock"]
          /\ UNCHANGED <<todo, flock>>
    /\ UNCHANGED <<setting, desc, tid, buffer, log, reader_vars, past_vars>>

\* The process is gone, and its memory with it.
Ends(p) ==
    /\ status' = [status EXCEPT ![p] = "dead"]
    /\ pc' = [pc EXCEPT ![p] = "out"]
    /\ buffer' = [buffer EXCEPT ![p] = <<>>]
    /\ todo' = [todo EXCEPT ![p] = <<>>]
    /\ flock' = Closed(p)
    /\ cuts' = CutBy(p)
    /\ UNCHANGED <<setting, desc, tid, log, reader_vars, calls, lineage,
                   copied, dropped>>

\* exit(), which is not instrumented, or a signal, at any point of a flush.
Die(p) ==
    /\ "die" \in setting.faults
    /\ status[p] \in Live
    /\ Ends(p)

\* Nobody reads the pipe any more.
SigPipe(p) ==
    /\ PipeBroken
    /\ pc[p] = "write"
    /\ Ends(p)

\* The child shares the open file description and has a copy of the memory.
\* Of the threads, it has the one that forked; a mutex that another one holds
\* will never be unlocked in the child.
Fork(p, t, c) ==
    /\ status[p] = "running"
    /\ t \in Threads
    /\ status[c] = "unborn"
    /\ pc[p] = "out" \/ setting.mutex = "works"
    /\ status' = [status EXCEPT ![c] = IF pc[p] = "out" THEN "running" ELSE "stuck"]
    /\ desc' = [desc EXCEPT ![c] = desc[p]]
    /\ tid' = [tid EXCEPT ![c] = [u \in Thread |-> IF u = Main THEN tid[p][t] ELSE None]]
    /\ buffer' = [buffer EXCEPT ![c] = buffer[p]]
    /\ lineage' = [lineage EXCEPT ![c] = @ \cup lineage[p]]
    /\ copied' = IF pc[p] = "out" THEN copied \cup ToSet(buffer[p]) ELSE copied
    /\ UNCHANGED <<setting, flush_vars, log, reader_vars, calls, dropped, cuts>>

-----------------------------------------------------------------------------
(* CallSiteLogReader                                                       *)

\* Mutant: a short read is taken for the end of the log.
ReaderNext_Resync(n) == IF n = 0 THEN "ended" ELSE "reads"

ReaderNext(n) == IF n = 0 THEN "ended" ELSE IF n = 1 THEN "invalid" ELSE "reads"

\* read() gives at most the two halves of a record.  On a pipe it waits for
\* them, as long as somebody has the pipe open for writing.
Read ==
    /\ reader = "reads"
    /\ Len(printed) < setting.wanted
    /\ \E n \in 0 .. 2 :
         /\ n = IF Len(log) - offset < 2 THEN Len(log) - offset ELSE 2
         /\ n = 0 /\ setting.mode = "pipe" =>
              \A p \in Process : status[p] \notin Live
         /\ offset' = offset + n
         /\ reader' = ReaderNext(n)
         /\ printed' = IF n = 2 THEN Append(printed, SubSeq(log, offset + 1, offset + 2))
                                ELSE printed
    /\ UNCHANGED <<setting, process_vars, flush_vars, log, past_vars>>

ReadEnough ==
    /\ reader = "reads"
    /\ Len(printed) >= setting.wanted
    /\ reader' = "ended"
    /\ UNCHANGED <<setting, process_vars, flush_vars, log, offset, printed, past_vars>>

-----------------------------------------------------------------------------
Flush(p) == Lock(p) \/ Write(p) \/ SigPipe(p) \/ Unlock(p)

Next ==
    \/ \E p \in Process :
         \/ Flush(p) \/ WriteFails(p) \/ Return(p) \/ Die(p)
         \/ \E t \in Thread : Call(p, t) \/ \E c \in Child : Fork(p, t, c)
    \/ Read \/ ReadEnough

Spec == Init /\ [][Next]_vars

\* Processes run, and a write that can go on does.  Nothing is assumed of the
\* reader: a write to a full pipe may wait for ever.  Each process executes
\* finitely many call-sites (MaxCalls), so that nobody takes the lock over and
\* over again before another.
FairSpec == Spec /\ \A p \in Process : WF_vars(Flush(p))
=============================================================================
