----------------------------- MODULE ProvLogger -----------------------------
(***************************************************************************)
(* The run-time logger that clam-prov links into an instrumented program   *)
(* (src/Logging/clam-prov-logger.c): one process, its threads, the static  *)
(* variables of the library, the mutex `clam_prov_lock', the descriptor    *)
(* table and the log.                                                      *)
(*                                                                         *)
(* A thread calls one API function at a time.  pc[t] is the next statement *)
(* it executes; every value but "idle" lies inside a library function:     *)
(*   init_*      clam_prov_logging_init and ..._init_concrete              *)
(*   buffer_*    clam_prov_logging_buffer and ..._buffer_concrete          *)
(*   flush_*     clam_prov_logging_check_and_flush and ..._concrete, on    *)
(*               behalf of caller[t]                                       *)
(*   shutdown_*  clam_prov_logging_shutdown and ..._shutdown_concrete      *)
(***************************************************************************)
EXTENDS Integers, Sequences, FiniteSets

CONSTANTS
    Threads,        \* the threads of the program
    Main,           \* the one that runs main()
    NoOne,          \* owner of a free mutex
    RealMutex,      \* FALSE: a glibc before 2.34 and no libpthread, whose
                    \* pthread_mutex_* are stubs that do nothing
    Instrumented,   \* TRUE: calls in the order AddLogging inserts them;
                    \* FALSE: a hand-written client, calls in any order
    InitArgs,       \* the <<max_records, output_mode>> a client may pass
    Faults,         \* what may fail: "mutex", "malloc", "path", "open", "write"
    Readers,        \* may a reader hold the audit pipe open?
    MaxFd,          \* descriptors are 0 .. MaxFd
    ProgramFds,     \* those the program holds at the start (0 is stdin)
    MaxCalls,       \* bound on the calls of buffer by each thread
    Bound,          \* bounds on the calls of init, check_and_flush and
                    \* shutdown, and on the descriptors the program opens
    Stale,          \* what a slot holds that no completed insert has written
    Torn            \* what the log holds where a write stopped inside a record

ASSUME ThreadsAssumption ==
    /\ IsFiniteSet(Threads)
    /\ Main \in Threads
    /\ NoOne \notin Threads
ASSUME MutexAssumption ==
    /\ RealMutex \in BOOLEAN
    /\ ~RealMutex => Threads = {Main}
ASSUME ClientAssumption ==
    /\ Instrumented \in BOOLEAN
    /\ InitArgs \subseteq Int \X Int
ASSUME BoundAssumption ==
    /\ MaxCalls \in Nat
    /\ Bound \in [{"init", "flush", "shutdown", "open"} -> Nat]
ASSUME EnvironmentAssumption ==
    /\ Faults \subseteq {"mutex", "malloc", "path", "open", "write"}
    /\ Readers \in BOOLEAN
    /\ MaxFd \in Nat
    /\ ProgramFds \subseteq 0 .. MaxFd

VARIABLES
    \* the static variables of the library
    max_records, output_mode, output_fd, is_inited,
    records,        \* the clam_prov_records pointer: "null", "live" or "freed"
    slots,          \* what the slots written since malloc hold
    record_index,
    \* the mutex
    lock_is_inited,
    lock_state,     \* "ready" (static zero or initialised) or "destroyed"
    lock_owner,
    \* per thread
    pc,
    caller,         \* on whose behalf check_and_flush runs
    result,         \* the `result' of the API function
    batch,          \* the dst buffer of a flush
    \* the environment
    fds,            \* what each descriptor is: "closed", "program" or "log"
    reader,         \* has some process the audit pipe open for reading?
    process,        \* "running", "aborted" (by the allocator) or "sigpipe"
    output,         \* what was written to the log
    \* history
    accepted,       \* the records inserted, in order
    overrun,        \* has a slot at or beyond max_records been written?
    made,           \* how many calls of each kind in Bound were made
    calls           \* how many calls of buffer each thread made

config_vars == <<max_records, output_mode, output_fd, is_inited, records>>
static_vars == <<config_vars, slots, record_index>>
mutex_vars  == <<lock_is_inited, lock_state, lock_owner>>
local_vars  == <<caller, result, batch>>
env_vars    == <<fds, reader, process, output>>
past_vars   == <<accepted, overrun>>
count_vars  == <<made, calls>>
vars == <<static_vars, mutex_vars, pc, local_vars, env_vars, past_vars,
          count_vars>>

\* What a step that only moves its thread on, or returns a result, leaves alone.
calm_vars == <<static_vars, mutex_vars, env_vars, past_vars, count_vars>>

Record == [pid : Threads, call_site_id : Nat \ {0}]
Slot == Record \cup {Stale, Torn}

InitPoints == {"init_mutex", "init_lock", "init_check", "init_open",
               "init_unlock"}
BufferPoints == {"buffer_lock", "buffer_write", "buffer_incr", "buffer_unlock"}
FlushPoints == {"flush_lock", "flush_check", "flush_write", "flush_reset",
                "flush_unlock"}
ShutdownPoints == {"shutdown_lock", "shutdown_check", "shutdown_cleanup",
                   "shutdown_unlock", "shutdown_destroy"}
Points == {"idle"} \cup InitPoints \cup BufferPoints \cup FlushPoints
            \cup ShutdownPoints

\* The static initialisers: the mutex is all zero, which glibc accepts as an
\* unlocked mutex, and output_fd is 0, not -1.
Init ==
    /\ max_records = 0
    /\ output_mode = -1
    /\ output_fd = 0
    /\ is_inited = FALSE
    /\ records = "null"
    /\ slots = <<>>
    /\ record_index = 0
    /\ lock_is_inited = FALSE
    /\ lock_state = "ready"
    /\ lock_owner = NoOne
    /\ pc = [t \in Threads |-> "idle"]
    /\ caller = [t \in Threads |-> "none"]
    /\ result = [t \in Threads |-> 0]
    /\ batch = [t \in Threads |-> <<>>]
    /\ fds = [f \in 0 .. MaxFd |-> IF f \in ProgramFds THEN "program"
                                                      ELSE "closed"]
    /\ reader = FALSE
    /\ process = "running"
    /\ output = <<>>
    /\ accepted = <<>>
    /\ overrun = FALSE
    /\ made = [c \in DOMAIN Bound |-> 0]
    /\ calls = [t \in Threads |-> 0]

-----------------------------------------------------------------------------
(* The thread's program counter, and the mutex *)

Step(t, from, to) ==
    /\ process = "running"
    /\ pc[t] = from
    /\ pc' = [pc EXCEPT ![t] = to]

Returns(t, r) == result' = [result EXCEPT ![t] = r]

AfterLock == [init_lock     |-> "init_check",
              buffer_lock   |-> "buffer_write",
              flush_lock    |-> "flush_check",
              shutdown_lock |-> "shutdown_check"]

\* Mutant: the lock does not exclude anybody.
Acquire_Barging(t) ==
    lock_owner' = IF RealMutex /\ lock_state = "ready" THEN t ELSE lock_owner

\* pthread_mutex_lock takes nothing when it is a stub, nor on a destroyed
\* mutex (EINVAL, which the code ignores); a normal mutex is not recursive.
Acquire(t) ==
    IF RealMutex /\ lock_state = "ready"
    THEN lock_owner = NoOne /\ lock_owner' = t
    ELSE UNCHANGED lock_owner

Lock(t) ==
    /\ \E p \in DOMAIN AfterLock : Step(t, p, AfterLock[p])
    /\ Acquire(t)
    /\ UNCHANGED <<static_vars, lock_is_inited, lock_state, local_vars,
                   env_vars, past_vars, count_vars>>

\* Mutant: the unlock is missing.
Release_Forgotten == UNCHANGED mutex_vars

\* pthread_mutex_unlock on a normal mutex does not check who owns it.
Release ==
    /\ lock_owner' = IF RealMutex /\ lock_state = "ready" THEN NoOne
                                                          ELSE lock_owner
    /\ UNCHANGED <<lock_is_inited, lock_state>>

Unlock(t) ==
    /\ \/ Step(t, "init_unlock", "idle")
       \/ Step(t, "shutdown_unlock", "shutdown_destroy")
    /\ Release
    /\ UNCHANGED <<static_vars, local_vars, env_vars, past_vars, count_vars>>

-----------------------------------------------------------------------------
(* The client.  AddLogging inserts one init at the entry of main, one      *)
(* buffer after each logged call, and one shutdown before main returns.    *)
(* Static constructors may reach a logged call before init; destructors,   *)
(* after shutdown; the other threads are started by main once init is done.*)

MayLog(t) ==
    Instrumented /\ t # Main => made["init"] > 0 /\ pc[Main] \notin InitPoints

Calls(kind) ==
    /\ made[kind] < Bound[kind]
    /\ made' = [made EXCEPT ![kind] = @ + 1]

CallInit(t) ==
    /\ Instrumented => t = Main /\ made["init"] = 0
    /\ Step(t, "idle", "init_mutex")
    /\ Calls("init")
    /\ UNCHANGED <<static_vars, mutex_vars, local_vars, env_vars, past_vars,
                   calls>>

CallBuffer(t) ==
    /\ MayLog(t)
    /\ calls[t] < MaxCalls
    /\ Step(t, "idle", "buffer_lock")
    /\ calls' = [calls EXCEPT ![t] = @ + 1]
    /\ UNCHANGED <<static_vars, mutex_vars, local_vars, env_vars, past_vars,
                   made>>

CallFlush(t) ==
    /\ MayLog(t)
    /\ Step(t, "idle", "flush_lock")
    /\ \E c \in {"program", "program_force"} : caller' = [caller EXCEPT ![t] = c]
    /\ Calls("flush")
    /\ UNCHANGED <<static_vars, mutex_vars, result, batch, env_vars, past_vars,
                   calls>>

CallShutdown(t) ==
    /\ Instrumented => t = Main /\ made["init"] = 1 /\ made["shutdown"] = 0
    /\ Step(t, "idle", "shutdown_lock")
    /\ Calls("shutdown")
    /\ UNCHANGED <<static_vars, mutex_vars, local_vars, env_vars, past_vars,
                   calls>>

-----------------------------------------------------------------------------
(* clam_prov_logging_init *)

FreeFds == {f \in DOMAIN fds : fds[f] = "closed"}

\* open() returns the lowest free descriptor, if there is one.
NextFd == {f \in FreeFds : \A g \in FreeFds : f <= g}

\* clam_prov_free_records never resets the pointer.  Freeing it a second time
\* is undefined: the allocator aborts the process, or, when it has handed the
\* block out again, takes it from its new owner and goes on.
\* clam_prov_close_output closes whatever number output_fd holds, and leaves
\* it there.
DoCleanup(pointer, fd) ==
    \/ /\ pointer = "freed"
       /\ process' = "aborted"
       /\ records' = pointer
       /\ UNCHANGED fds
    \/ /\ records' = IF pointer = "live" THEN "freed" ELSE pointer
       /\ fds' = IF fd > -1 THEN [fds EXCEPT ![fd] = "closed"] ELSE fds
       /\ UNCHANGED process

\* pthread_mutex_init overwrites the mutex, whoever holds it.
InitMutex(t) ==
    /\ \/ /\ Step(t, "init_mutex", "init_lock")
          /\ lock_state' = "ready"
          /\ lock_owner' = NoOne
          /\ lock_is_inited' = TRUE
          /\ UNCHANGED result
       \/ /\ "mutex" \in Faults
          /\ Step(t, "init_mutex", "idle")
          /\ Returns(t, 0)
          /\ UNCHANGED mutex_vars
    /\ UNCHANGED <<static_vars, caller, batch, env_vars, past_vars,
                   count_vars>>

InitAlreadyInited(t) ==
    /\ is_inited
    /\ Step(t, "init_check", "init_unlock")
    /\ Returns(t, 0)
    /\ UNCHANGED <<calm_vars, caller, batch>>

InitAlloc(t) ==
    /\ ~is_inited
    /\ Step(t, "init_check", "init_open")
    /\ \E arg \in InitArgs :
         /\ arg[1] >= 1
         /\ max_records' = arg[1]
         /\ output_mode' = arg[2]
    /\ records' = "live"
    /\ slots' = <<>>
    /\ UNCHANGED <<output_fd, is_inited, record_index, mutex_vars, local_vars,
                   env_vars, past_vars, count_vars>>

\* clam_prov_alloc_records returned 0: it never called malloc, and left the
\* old pointer, or malloc returned NULL.
InitAllocFails(t) ==
    /\ ~is_inited
    /\ Step(t, "init_check", "init_unlock")
    /\ \E arg \in InitArgs :
         /\ max_records' = arg[1]
         /\ \/ arg[1] < 1 /\ DoCleanup(records, output_fd)
            \/ arg[1] >= 1 /\ "malloc" \in Faults /\ DoCleanup("null", output_fd)
    /\ is_inited' = FALSE
    /\ Returns(t, 0)
    /\ UNCHANGED <<output_mode, output_fd, slots, record_index,
                   mutex_vars, caller, batch, reader, output,
                   past_vars, count_vars>>

\* Opening the pipe for writing blocks, with the mutex held, until there is a
\* reader.
InitOpen(t) ==
    /\ Step(t, "init_open", "init_unlock")
    /\ output_mode = 0 \/ (output_mode = 1 /\ reader)
    /\ \E fd \in NextFd :
         /\ output_fd' = fd
         /\ fds' = [fds EXCEPT ![fd] = "log"]
    /\ is_inited' = TRUE
    /\ Returns(t, 1)
    /\ UNCHANGED <<max_records, output_mode, records, slots, record_index,
                   mutex_vars, caller, batch, reader, process,
                   output, past_vars, count_vars>>

\* No such mode, or no path (mkfifo included): output_fd keeps its old value.
\* open() failed: output_fd is -1.
FailedFds ==
    IF output_mode \notin {0, 1} THEN {output_fd}
    ELSE {fd \in {output_fd, -1} :
            \/ fd = output_fd /\ "path" \in Faults
            \/ fd = -1 /\ ("open" \in Faults \/ FreeFds = {})}

InitOpenFails(t) ==
    /\ Step(t, "init_open", "init_unlock")
    /\ \E fd \in FailedFds : output_fd' = fd /\ DoCleanup(records, fd)
    /\ is_inited' = FALSE
    /\ Returns(t, 0)
    /\ UNCHANGED <<max_records, output_mode, slots, record_index,
                   mutex_vars, caller, batch, reader, output,
                   past_vars, count_vars>>

-----------------------------------------------------------------------------
(* clam_prov_logging_buffer *)

BufferNotInited(t) ==
    /\ ~is_inited
    /\ Step(t, "buffer_write", "buffer_unlock")
    /\ Returns(t, 0)
    /\ UNCHANGED <<calm_vars, caller, batch>>

\* Mutant: the slot after the right one.
PutSlot_Next(i, s) ==
    [k \in 1 .. i + 2 |-> IF k = i + 2 THEN s
                          ELSE IF k <= Len(slots) THEN slots[k] ELSE Stale]

\* The slot at index i (from 0) now holds s.
PutSlot(i, s) ==
    [k \in 1 .. (IF i < Len(slots) THEN Len(slots) ELSE i + 1) |->
       IF k = i + 1 THEN s ELSE IF k <= Len(slots) THEN slots[k] ELSE Stale]

\* Mutant: call-site identifiers from 0.
CallRecord_FromZero(t) == [pid |-> t, call_site_id |-> calls[t] - 1]

CallRecord(t) == [pid |-> t, call_site_id |-> calls[t]]

\* Nothing compares record_index with max_records here.  A store beyond the
\* array lands in memory that is not the logger's: it may be read back, or not.
BufferWrite(t) ==
    /\ is_inited
    /\ \/ Step(t, "buffer_write", "buffer_incr") /\ UNCHANGED result
       \/ \* the function name is NULL or empty
          Step(t, "buffer_write", "buffer_unlock") /\ Returns(t, 0)
    /\ \E s \in {CallRecord(t), Stale} :
         /\ record_index < max_records => s = CallRecord(t)
         /\ slots' = PutSlot(record_index, s)
    /\ overrun' = (overrun \/ record_index >= max_records)
    /\ UNCHANGED <<config_vars, record_index, mutex_vars, caller, batch,
                   env_vars, accepted, count_vars>>

BufferIncr(t) ==
    /\ Step(t, "buffer_incr", "buffer_unlock")
    /\ record_index' = record_index + 1
    /\ accepted' = Append(accepted, CallRecord(t))
    /\ Returns(t, 1)
    /\ UNCHANGED <<config_vars, slots, mutex_vars, caller, batch, env_vars,
                   overrun, count_vars>>

\* Mutant: buffer does not check whether the buffer is full.
BufferUnlock_NoCheck(t) ==
    /\ Step(t, "buffer_unlock", "idle")
    /\ Release
    /\ UNCHANGED <<static_vars, local_vars, env_vars, past_vars, count_vars>>

BufferUnlock(t) ==
    /\ Step(t, "buffer_unlock", "flush_lock")
    /\ Release
    /\ caller' = [caller EXCEPT ![t] = "buffer"]
    /\ UNCHANGED <<static_vars, result, batch, env_vars, past_vars, count_vars>>

-----------------------------------------------------------------------------
(* clam_prov_logging_check_and_flush *)

Forced(t) == caller[t] \in {"program_force", "shutdown"}

\* buffer and shutdown ignore what the flush returns.
FlushReturns(t, r) ==
    IF caller[t] \in {"program", "program_force"} THEN Returns(t, r)
                                                  ELSE UNCHANGED result

\* Mutant: one record too late.
NeedsFlush_Late(t) ==
    record_index > 0 /\ (Forced(t) \/ record_index > max_records)

NeedsFlush(t) ==
    record_index > 0 /\ (Forced(t) \/ record_index >= max_records)

\* What copy_records_to_dst_buffer reads from the first record_index slots.
Buffered ==
    [k \in 1 .. record_index |-> IF k <= Len(slots) THEN slots[k] ELSE Stale]

FlushNothing(t) ==
    /\ ~is_inited \/ ~NeedsFlush(t)
    /\ Step(t, "flush_check", "flush_unlock")
    /\ FlushReturns(t, IF is_inited THEN 1 ELSE 0)
    /\ UNCHANGED <<calm_vars, caller, batch>>

FlushCopy(t) ==
    /\ is_inited
    /\ NeedsFlush(t)
    /\ Step(t, "flush_check", "flush_write")
    /\ batch' = [batch EXCEPT ![t] = Buffered]
    /\ UNCHANGED <<calm_vars, caller, result>>

\* Without a dst buffer nothing is written, and written_bytes is compared
\* without having been set.
FlushNoMemory(t) ==
    /\ "malloc" \in Faults
    /\ is_inited
    /\ NeedsFlush(t)
    /\ Step(t, "flush_check", "flush_reset")
    /\ \E r \in {0, 1} : FlushReturns(t, r)
    /\ UNCHANGED <<calm_vars, caller, batch>>

OutputTarget == IF output_fd \in DOMAIN fds THEN fds[output_fd] ELSE "closed"
BrokenPipe == output_mode = 1 /\ ~reader

\* flock, write, fsync, flock.
FlushWrite(t) ==
    /\ ~BrokenPipe
    /\ Step(t, "flush_write", "flush_reset")
    /\ output' = IF OutputTarget = "log" THEN output \o batch[t] ELSE output
    /\ FlushReturns(t, IF OutputTarget = "closed" THEN 0 ELSE 1)
    /\ batch' = [batch EXCEPT ![t] = <<>>]
    /\ UNCHANGED <<static_vars, mutex_vars, caller, fds, reader, process,
                   past_vars, count_vars>>

\* The write stops early (no space, an interrupt, an error): n records are
\* whole, and the next one may be cut.
FlushWriteShort(t) ==
    /\ "write" \in Faults
    /\ OutputTarget = "log"
    /\ ~BrokenPipe
    /\ Step(t, "flush_write", "flush_reset")
    /\ \E n \in 0 .. Len(batch[t]) - 1, piece \in {<<>>, <<Torn>>} :
         output' = output \o SubSeq(batch[t], 1, n) \o piece
    /\ FlushReturns(t, 0)
    /\ batch' = [batch EXCEPT ![t] = <<>>]
    /\ UNCHANGED <<static_vars, mutex_vars, caller, fds, reader, process,
                   past_vars, count_vars>>

\* Nobody reads the pipe any more, and nothing in the library ignores SIGPIPE.
FlushSigPipe(t) ==
    /\ BrokenPipe
    /\ Step(t, "flush_write", "flush_write")
    /\ process' = "sigpipe"
    /\ UNCHANGED <<static_vars, mutex_vars, local_vars, fds, reader, output,
                   past_vars, count_vars>>

\* Mutant: the records stay in the buffer after they were written.
FlushReset_KeepsRecords(t) ==
    /\ Step(t, "flush_reset", "flush_unlock")
    /\ UNCHANGED <<calm_vars, local_vars>>

\* The index goes back to 0 whatever was written.
FlushReset(t) ==
    /\ Step(t, "flush_reset", "flush_unlock")
    /\ record_index' = 0
    /\ UNCHANGED <<config_vars, slots, mutex_vars, local_vars, env_vars,
                   past_vars, count_vars>>

FlushUnlock(t) ==
    /\ Step(t, "flush_unlock",
            IF caller[t] = "shutdown" THEN "shutdown_cleanup" ELSE "idle")
    /\ Release
    /\ caller' = [caller EXCEPT ![t] = "none"]
    /\ UNCHANGED <<static_vars, result, batch, env_vars, past_vars, count_vars>>

-----------------------------------------------------------------------------
(* clam_prov_logging_shutdown *)

ShutdownNotInited(t) ==
    /\ ~is_inited
    /\ Step(t, "shutdown_check", "shutdown_unlock")
    /\ Returns(t, 0)
    /\ UNCHANGED <<calm_vars, caller, batch>>

\* Mutant: shutdown does not flush.
ShutdownFlush_Skipped(t) ==
    /\ is_inited
    /\ Step(t, "shutdown_check", "shutdown_cleanup")
    /\ UNCHANGED <<calm_vars, local_vars>>

\* Calls the public check_and_flush, which locks the mutex, with it locked.
ShutdownFlush(t) ==
    /\ is_inited
    /\ Step(t, "shutdown_check", "flush_lock")
    /\ caller' = [caller EXCEPT ![t] = "shutdown"]
    /\ UNCHANGED <<calm_vars, result, batch>>

\* Mutant: is_inited is not reset.
ShutdownCleanup_StaysInited(t) ==
    /\ Step(t, "shutdown_cleanup", "shutdown_unlock")
    /\ DoCleanup(records, output_fd)
    /\ Returns(t, 1)
    /\ UNCHANGED <<max_records, output_mode, output_fd, is_inited, slots,
                   record_index, mutex_vars, caller, batch, reader, output,
                   past_vars, count_vars>>

ShutdownCleanup(t) ==
    /\ Step(t, "shutdown_cleanup", "shutdown_unlock")
    /\ DoCleanup(records, output_fd)
    /\ is_inited' = FALSE
    /\ Returns(t, 1)
    /\ UNCHANGED <<max_records, output_mode, output_fd, slots, record_index,
                   mutex_vars, caller, batch, reader, output,
                   past_vars, count_vars>>

\* pthread_mutex_destroy refuses (EBUSY) a mutex that is held.
ShutdownDestroy(t) ==
    /\ Step(t, "shutdown_destroy", "idle")
    /\ lock_is_inited' = FALSE
    /\ lock_state' = IF lock_is_inited /\ lock_owner = NoOne THEN "destroyed"
                                                             ELSE lock_state
    /\ UNCHANGED <<static_vars, lock_owner, local_vars, env_vars,
                   past_vars, count_vars>>

-----------------------------------------------------------------------------
(* The environment, and the next-state relation *)

\* After a store outside the records array, the next call of the allocator
\* may find its own data damaged and abort.
HeapAbort(t) ==
    /\ overrun
    /\ \E p \in {"init_check", "flush_check", "flush_write",
                 "shutdown_cleanup"} : Step(t, p, p)
    /\ process' = "aborted"
    /\ UNCHANGED <<static_vars, mutex_vars, local_vars, fds, reader, output,
                   past_vars, count_vars>>

ReaderChanges ==
    /\ Readers
    /\ process = "running"
    /\ reader' = ~reader
    /\ UNCHANGED <<static_vars, mutex_vars, pc, local_vars, fds, process, output,
                   past_vars, count_vars>>

\* The program opens a file of its own.
ProgramOpens ==
    /\ process = "running"
    /\ \E fd \in NextFd : fds' = [fds EXCEPT ![fd] = "program"]
    /\ Calls("open")
    /\ UNCHANGED <<static_vars, mutex_vars, pc, local_vars, reader, process,
                   output, past_vars, calls>>

\* All calls that the bounds allow were made, or the process is gone.
Terminated ==
    /\ process # "running" \/ \A t \in Threads : pc[t] = "idle"
    /\ UNCHANGED vars

LibraryStep(t) ==
    \/ Lock(t) \/ Unlock(t)
    \/ InitMutex(t) \/ InitAlreadyInited(t) \/ InitAlloc(t)
    \/ InitAllocFails(t) \/ InitOpen(t) \/ InitOpenFails(t)
    \/ BufferNotInited(t) \/ BufferWrite(t) \/ BufferIncr(t) \/ BufferUnlock(t)
    \/ FlushNothing(t) \/ FlushCopy(t) \/ FlushNoMemory(t) \/ FlushWrite(t)
    \/ FlushWriteShort(t) \/ FlushSigPipe(t) \/ FlushReset(t) \/ FlushUnlock(t)
    \/ ShutdownNotInited(t) \/ ShutdownFlush(t) \/ ShutdownCleanup(t)
    \/ ShutdownDestroy(t)
    \/ HeapAbort(t)

ClientStep(t) ==
    CallInit(t) \/ CallBuffer(t) \/ CallFlush(t) \/ CallShutdown(t)

Next ==
    \/ \E t \in Threads : LibraryStep(t) \/ ClientStep(t)
    \/ ReaderChanges
    \/ ProgramOpens
    \/ Terminated

Spec == Init /\ [][Next]_vars

\* A thread inside the library is scheduled again and again.  Nothing makes
\* the program call the library, nor a reader come.
FairSpec == Spec /\ \A t \in Threads : WF_vars(LibraryStep(t))

=============================================================================
