-------------------------- MODULE ProvLoggerProofs --------------------------
(***************************************************************************)
(* Proofs about the run-time logger, for every set of threads, every       *)
(* configuration, every fault and every bound.                             *)
(*                                                                         *)
(* They are about programs that call the library in the order in which     *)
(* AddLogging inserts the calls, or that have one thread.                  *)
(***************************************************************************)
EXTENDS ProvLoggerProps, FiniteSetTheorems, SequenceTheorems, TLAPS

ClientOrder == Instrumented \/ Threads = {Main}

-----------------------------------------------------------------------------
(* The inductive invariant *)

\* A mutex that works is owned by exactly the thread that is inside a critical
\* section; a destroyed one is owned by nobody, and logging is off for good.
LockInv ==
    /\ ~RealMutex => lock_owner = NoOne
    /\ RealMutex /\ lock_state = "ready" =>
         \A t \in Threads : Holding(t) <=> lock_owner = t
    /\ lock_state = "destroyed" =>
         /\ lock_owner = NoOne
         /\ ~is_inited
         /\ \A t \in Threads : pc[t] \notin InitPoints \ {"init_mutex"}

\* Init and shutdown are main's, and the other threads start after init.
ClientInv ==
    \/ Threads = {Main}
    \/ /\ \A t \in Threads \ {Main} :
            /\ pc[t] \notin InitPoints \cup ShutdownPoints
            /\ caller[t] # "shutdown"
            /\ made["init"] = 0 \/ pc[Main] \in InitPoints => pc[t] = "idle"
       /\ made["init"] = 0 => pc[Main] \notin InitPoints /\ ~is_inited
       /\ pc[Main] \in InitPoints \ {"init_unlock"} => ~is_inited

\* What is known of is_inited at each point after it was looked at.
OnInv ==
    \A t \in Threads :
      /\ pc[t] \in {"buffer_incr", "flush_write", "flush_reset",
                    "shutdown_cleanup"} => is_inited
      /\ pc[t] \in FlushPoints /\ caller[t] = "shutdown" => is_inited
      /\ pc[t] \in {"init_open", "shutdown_unlock", "shutdown_destroy"}
           => ~is_inited

\* With a mutex that works, shutdown never gets past its own check_and_flush.
ShutdownInv ==
    RealMutex =>
      \A t \in Threads :
        /\ pc[t] # "shutdown_cleanup"
        /\ pc[t] \in FlushPoints \ {"flush_lock"} => caller[t] # "shutdown"

\* The index is 0 while logging is off, and when shutdown turns it off.
IndexInv ==
    /\ ~is_inited => record_index = 0
    /\ \A t \in Threads :
         /\ pc[t] = "shutdown_cleanup" => record_index = 0
         /\ pc[t] = "flush_unlock" /\ caller[t] = "shutdown" => record_index = 0
    /\ \A t \in Threads : is_inited \/ pc[t] = "init_open" => max_records >= 1

ControlInv == LockInv /\ ClientInv /\ OnInv /\ ShutdownInv

-----------------------------------------------------------------------------
(* Type correctness *)

\* Every slot that a batch or the array holds is a Slot.
LEMMA BufferedType ==
    ASSUME TypeOK
    PROVE  Buffered \in Seq(Slot)
PROOF
  <1>1. \A k \in 1 .. record_index :
          (IF k <= Len(slots) THEN slots[k] ELSE Stale) \in Slot
    BY DEF TypeOK, Slot
  <1>2. record_index \in Nat
    BY DEF TypeOK
  <1> QED
    BY <1>1, <1>2, IsASeq DEF Buffered

LEMMA PutSlotType ==
    ASSUME TypeOK, NEW i \in Nat, NEW s \in Slot
    PROVE  PutSlot(i, s) \in Seq(Slot)
PROOF
  <1> DEFINE n == IF i < Len(slots) THEN Len(slots) ELSE i + 1
  <1>1. n \in Nat
    BY DEF TypeOK
  <1>2. \A k \in 1 .. n :
          (IF k = i + 1 THEN s ELSE IF k <= Len(slots) THEN slots[k] ELSE Stale)
            \in Slot
    BY DEF TypeOK, Slot
  <1> QED
    BY <1>1, <1>2, IsASeq DEF PutSlot

LEMMA CallRecordType ==
    ASSUME TypeOK, NEW t \in Threads, calls[t] > 0
    PROVE  CallRecord(t) \in Record
  BY DEF TypeOK, CallRecord, Record

\* A thread inside clam_prov_logging_buffer has a call to record.
CallCounted ==
    \A t \in Threads :
      pc[t] \in {"buffer_lock", "buffer_write", "buffer_incr"} => calls[t] > 0

TInv == TypeOK /\ CallCounted

LEMMA TypeInit == Init => TInv
PROOF
  <1> SUFFICES ASSUME Init PROVE TInv
    OBVIOUS
  <1> USE ThreadsAssumption DEF Init
  <1>1. made \in [{"init", "flush", "shutdown", "open"} -> Nat]
    BY BoundAssumption
  <1>2. fds \in [0 .. MaxFd -> {"closed", "program", "log"}]
    OBVIOUS
  <1>3. pc \in [Threads -> Points] /\ CallCounted
    BY DEF Points, CallCounted
  <1>4. /\ output_fd \in -1 .. MaxFd
        /\ batch \in [Threads -> Seq(Slot)]
    BY EnvironmentAssumption
  <1>5. slots \in Seq(Slot) /\ output \in Seq(Slot) /\ accepted \in Seq(Record)
    OBVIOUS
  <1>6. /\ calls \in [Threads -> Nat]
        /\ result \in [Threads -> {0, 1}]
        /\ caller \in [Threads -> {"none", "program", "program_force", "buffer",
                                   "shutdown"}]
    OBVIOUS
  <1>7. /\ is_inited \in BOOLEAN /\ lock_is_inited \in BOOLEAN
        /\ reader \in BOOLEAN /\ overrun \in BOOLEAN
    OBVIOUS
  <1>8. /\ max_records \in Int /\ output_mode \in Int /\ record_index \in Nat
        /\ records \in {"null", "live", "freed"}
        /\ lock_state \in {"ready", "destroyed"}
        /\ lock_owner \in Threads \cup {NoOne}
        /\ process \in {"running", "aborted", "sigpipe"}
    OBVIOUS
  <1> HIDE DEF Init
  <1> QED
    BY <1>1, <1>2, <1>3, <1>4, <1>5, <1>6, <1>7, <1>8 DEF TypeOK, TInv

\* Every step keeps the types: one leaf for each action.
LEMMA TypeNext == TInv /\ [Next]_vars => TInv'
PROOF
  <1> SUFFICES ASSUME TInv, [Next]_vars PROVE TInv'
    OBVIOUS
  <1> USE ThreadsAssumption
  <1> USE DEF TInv, TypeOK, CallCounted, Points, InitPoints, BufferPoints,
              FlushPoints, ShutdownPoints, Step, Returns, calm_vars,
              static_vars, config_vars, mutex_vars, local_vars, env_vars,
              past_vars, count_vars
  <1>1. ASSUME NEW t \in Threads, Lock(t) PROVE TInv'
    BY <1>1 DEF Lock, Acquire, AfterLock
  <1>2. ASSUME NEW t \in Threads, Unlock(t) PROVE TInv'
    BY <1>2 DEF Unlock, Release
  <1>3. ASSUME NEW t \in Threads, InitMutex(t) PROVE TInv'
    BY <1>3 DEF InitMutex
  <1>4. ASSUME NEW t \in Threads, InitAlreadyInited(t) PROVE TInv'
    BY <1>4 DEF InitAlreadyInited
  <1>5. ASSUME NEW t \in Threads, InitAlloc(t) PROVE TInv'
    <2>1. max_records' \in Int /\ output_mode' \in Int
      BY <1>5, ClientAssumption DEF InitAlloc
    <2>2. slots' \in Seq(Slot)
      BY <1>5 DEF InitAlloc
    <2> QED
      BY <1>5, <2>1, <2>2 DEF InitAlloc
  <1>6. ASSUME NEW t \in Threads, InitAllocFails(t) PROVE TInv'
    BY <1>6, ClientAssumption DEF InitAllocFails, DoCleanup
  <1>7. ASSUME NEW t \in Threads, InitOpen(t) PROVE TInv'
    BY <1>7 DEF InitOpen, NextFd, FreeFds
  <1>8. ASSUME NEW t \in Threads, InitOpenFails(t) PROVE TInv'
    <2>1. PICK fd \in FailedFds : output_fd' = fd /\ DoCleanup(records, fd)
      BY <1>8 DEF InitOpenFails
    <2>2. fd \in -1 .. MaxFd
      BY EnvironmentAssumption DEF FailedFds
    <2>3. /\ fds' \in [0 .. MaxFd -> {"closed", "program", "log"}]
          /\ process' \in {"running", "aborted", "sigpipe"}
          /\ records' \in {"null", "live", "freed"}
      BY <2>1, <2>2 DEF DoCleanup
    <2> QED
      BY <1>8, <2>1, <2>2, <2>3 DEF InitOpenFails
  <1>9. ASSUME NEW t \in Threads, BufferNotInited(t) PROVE TInv'
    BY <1>9 DEF BufferNotInited
  <1>10. ASSUME NEW t \in Threads, BufferWrite(t) PROVE TInv'
    <2>1. PICK s \in {CallRecord(t), Stale} : slots' = PutSlot(record_index, s)
      BY <1>10 DEF BufferWrite
    <2>2. s \in Slot
      BY <1>10, CallRecordType DEF BufferWrite, Slot
    <2>3. slots' \in Seq(Slot)
      BY <2>1, <2>2, PutSlotType
    <2> QED
      BY <1>10, <2>3 DEF BufferWrite
  <1>11. ASSUME NEW t \in Threads, BufferIncr(t) PROVE TInv'
    <2>1. accepted' \in Seq(Record)
      BY <1>11, CallRecordType, AppendProperties DEF BufferIncr
    <2> QED
      BY <1>11, <2>1 DEF BufferIncr
  <1>12. ASSUME NEW t \in Threads, BufferUnlock(t) PROVE TInv'
    BY <1>12 DEF BufferUnlock, Release
  <1>13. ASSUME NEW t \in Threads, FlushNothing(t) PROVE TInv'
    BY <1>13 DEF FlushNothing, FlushReturns
  <1>14. ASSUME NEW t \in Threads, FlushCopy(t) PROVE TInv'
    <2>1. batch' \in [Threads -> Seq(Slot)]
      BY <1>14, BufferedType DEF FlushCopy
    <2> QED
      BY <1>14, <2>1 DEF FlushCopy
  <1>15. ASSUME NEW t \in Threads, FlushNoMemory(t) PROVE TInv'
    BY <1>15 DEF FlushNoMemory, FlushReturns
  <1>16. ASSUME NEW t \in Threads, FlushWrite(t) PROVE TInv'
    <2>1. output' \in Seq(Slot)
      BY <1>16, ConcatProperties DEF FlushWrite
    <2>2. batch' \in [Threads -> Seq(Slot)]
      BY <1>16 DEF FlushWrite
    <2> QED
      BY <1>16, <2>1, <2>2 DEF FlushWrite, FlushReturns
  <1>17. ASSUME NEW t \in Threads, FlushWriteShort(t) PROVE TInv'
    <2>1. PICK n \in 0 .. Len(batch[t]) - 1, piece \in {<<>>, <<Torn>>} :
            output' = output \o SubSeq(batch[t], 1, n) \o piece
      BY <1>17 DEF FlushWriteShort
    <2>2. SubSeq(batch[t], 1, n) \in Seq(Slot)
      BY SubSeqProperties
    <2>3. piece \in Seq(Slot)
      <3>1. Torn \in Slot
        BY DEF Slot
      <3>2. CASE piece = <<>>
        BY <3>2
      <3>3. CASE piece = <<Torn>>
        BY <3>1, <3>3
      <3> QED
        BY <2>1, <3>2, <3>3
    <2>4. output' \in Seq(Slot)
      BY <2>1, <2>2, <2>3, ConcatProperties
    <2>5. batch' \in [Threads -> Seq(Slot)]
      BY <1>17 DEF FlushWriteShort
    <2> QED
      BY <1>17, <2>4, <2>5 DEF FlushWriteShort, FlushReturns
  <1>18. ASSUME NEW t \in Threads, FlushSigPipe(t) PROVE TInv'
    BY <1>18 DEF FlushSigPipe
  <1>19. ASSUME NEW t \in Threads, FlushReset(t) PROVE TInv'
    BY <1>19 DEF FlushReset
  <1>20. ASSUME NEW t \in Threads, FlushUnlock(t) PROVE TInv'
    BY <1>20 DEF FlushUnlock, Release
  <1>21. ASSUME NEW t \in Threads, ShutdownNotInited(t) PROVE TInv'
    BY <1>21 DEF ShutdownNotInited
  <1>22. ASSUME NEW t \in Threads, ShutdownFlush(t) PROVE TInv'
    BY <1>22 DEF ShutdownFlush
  <1>23. ASSUME NEW t \in Threads, ShutdownCleanup(t) PROVE TInv'
    BY <1>23 DEF ShutdownCleanup, DoCleanup
  <1>24. ASSUME NEW t \in Threads, ShutdownDestroy(t) PROVE TInv'
    BY <1>24 DEF ShutdownDestroy
  <1>25. ASSUME NEW t \in Threads, HeapAbort(t) PROVE TInv'
    BY <1>25 DEF HeapAbort
  <1>26. ASSUME NEW t \in Threads, CallInit(t) PROVE TInv'
    BY <1>26 DEF CallInit, Calls
  <1>27. ASSUME NEW t \in Threads, CallBuffer(t) PROVE TInv'
    BY <1>27 DEF CallBuffer
  <1>28. ASSUME NEW t \in Threads, CallFlush(t) PROVE TInv'
    BY <1>28 DEF CallFlush, Calls
  <1>29. ASSUME NEW t \in Threads, CallShutdown(t) PROVE TInv'
    BY <1>29 DEF CallShutdown, Calls
  <1>30. ASSUME ReaderChanges PROVE TInv'
    BY <1>30 DEF ReaderChanges
  <1>31. ASSUME ProgramOpens PROVE TInv'
    <2>1. fds' \in [0 .. MaxFd -> {"closed", "program", "log"}]
      BY <1>31 DEF ProgramOpens
    <2>2. made' \in [{"init", "flush", "shutdown", "open"} -> Nat]
      BY <1>31 DEF ProgramOpens, Calls
    <2> QED
      BY <1>31, <2>1, <2>2 DEF ProgramOpens
  <1>32. ASSUME UNCHANGED vars PROVE TInv'
    BY <1>32 DEF vars
  <1> QED
    BY <1>1, <1>2, <1>3, <1>4, <1>5, <1>6, <1>7, <1>8, <1>9, <1>10, <1>11,
       <1>12, <1>13, <1>14, <1>15, <1>16, <1>17, <1>18, <1>19, <1>20, <1>21,
       <1>22, <1>23, <1>24, <1>25, <1>26, <1>27, <1>28, <1>29, <1>30, <1>31,
       <1>32
    DEF Next, LibraryStep, ClientStep, Terminated

\* Every variable of the logger keeps its type: the buffer, the log and every
\* batch hold records, or the marks of what was never written or cut short.
THEOREM TypeCorrect == Spec => []TypeOK
PROOF
  <1>1. TInv => TypeOK
    BY DEF TInv
  <1> QED
    BY <1>1, TypeInit, TypeNext, PTL DEF Spec

-----------------------------------------------------------------------------
(* The control invariant *)

LEMMA ControlInit == Init => ControlInv
  BY ThreadsAssumption
  DEF Init, ControlInv, LockInv, ClientInv, OnInv, ShutdownInv, Holding,
      HoldingPoints, InitPoints, ShutdownPoints, FlushPoints

LEMMA ControlNext ==
    ASSUME ClientOrder, TInv, ControlInv, [Next]_vars
    PROVE  ControlInv'
PROOF
  <1> USE ThreadsAssumption, MutexAssumption
  <1> USE DEF ClientOrder, TInv, TypeOK, ControlInv, LockInv, ClientInv, OnInv,
              ShutdownInv, Holding, HoldingPoints, InitPoints, BufferPoints,
              FlushPoints, ShutdownPoints, Step, Returns, calm_vars,
              static_vars, config_vars, mutex_vars, local_vars, env_vars,
              past_vars, count_vars
  <1>1. ASSUME NEW t \in Threads, Lock(t) PROVE ControlInv'
    <2>1. LockInv'
      BY <1>1 DEF Lock, Acquire, AfterLock
    <2>2. ClientInv'
      <3>1. PICK p \in DOMAIN AfterLock : Step(t, p, AfterLock[p])
        BY <1>1 DEF Lock
      <3>2. /\ UNCHANGED <<caller, made, is_inited>>
            /\ \A u \in Threads \ {t} : pc'[u] = pc[u]
        BY <1>1, <3>1 DEF Lock
      <3>3. CASE p \in {"init_lock", "shutdown_lock"}
        BY <3>1, <3>2, <3>3 DEF AfterLock
      <3>4. CASE p = "buffer_lock"
        BY <3>1, <3>2, <3>4 DEF AfterLock
      <3>5. CASE p = "flush_lock"
        BY <3>1, <3>2, <3>5 DEF AfterLock
      <3> QED
        BY <3>3, <3>4, <3>5 DEF AfterLock
    <2>3. OnInv'
      BY <1>1 DEF Lock, Acquire, AfterLock
    <2>4. ShutdownInv'
      BY <1>1 DEF Lock, Acquire, AfterLock
    <2> QED
      BY <2>1, <2>2, <2>3, <2>4
  <1>2. ASSUME NEW t \in Threads, Unlock(t) PROVE ControlInv'
    <2>1. LockInv'
      BY <1>2 DEF Unlock, Release
    <2>2. ClientInv' /\ OnInv' /\ ShutdownInv'
      BY <1>2 DEF Unlock
    <2> QED
      BY <2>1, <2>2
  <1>3. ASSUME NEW t \in Threads, InitMutex(t) PROVE ControlInv'
    <2>1. LockInv'
      <3>1. \A u \in Threads : u # t => ~Holding(u)
        BY <1>3 DEF InitMutex
      <3>2. CASE pc'[t] = "init_lock" /\ lock_state' = "ready"
                   /\ lock_owner' = NoOne
        BY <1>3, <3>1, <3>2 DEF InitMutex
      <3>3. CASE pc'[t] = "idle" /\ UNCHANGED mutex_vars
        BY <1>3, <3>1, <3>3 DEF InitMutex
      <3> QED
        BY <1>3, <3>2, <3>3 DEF InitMutex
    <2>2. ClientInv'
      BY <1>3 DEF InitMutex
    <2>3. OnInv'
      BY <1>3 DEF InitMutex
    <2>4. ShutdownInv'
      BY <1>3 DEF InitMutex
    <2> QED
      BY <2>1, <2>2, <2>3, <2>4
  <1>4. ASSUME NEW t \in Threads, InitAlreadyInited(t) PROVE ControlInv'
    BY <1>4 DEF InitAlreadyInited
  <1>5. ASSUME NEW t \in Threads, InitAlloc(t) PROVE ControlInv'
    BY <1>5 DEF InitAlloc
  <1>6. ASSUME NEW t \in Threads, InitAllocFails(t) PROVE ControlInv'
    BY <1>6 DEF InitAllocFails
  <1>7. ASSUME NEW t \in Threads, InitOpen(t) PROVE ControlInv'
    BY <1>7 DEF InitOpen
  <1>8. ASSUME NEW t \in Threads, InitOpenFails(t) PROVE ControlInv'
    BY <1>8 DEF InitOpenFails
  <1>9. ASSUME NEW t \in Threads, BufferNotInited(t) PROVE ControlInv'
    BY <1>9 DEF BufferNotInited
  <1>10. ASSUME NEW t \in Threads, BufferWrite(t) PROVE ControlInv'
    <2>1. LockInv'
      BY <1>10 DEF BufferWrite
    <2>2. ClientInv'
      BY <1>10 DEF BufferWrite
    <2>3. OnInv'
      BY <1>10 DEF BufferWrite
    <2>4. ShutdownInv'
      BY <1>10 DEF BufferWrite
    <2> QED
      BY <2>1, <2>2, <2>3, <2>4
  <1>11. ASSUME NEW t \in Threads, BufferIncr(t) PROVE ControlInv'
    BY <1>11 DEF BufferIncr
  <1>12. ASSUME NEW t \in Threads, BufferUnlock(t) PROVE ControlInv'
    BY <1>12 DEF BufferUnlock, Release
  <1>13. ASSUME NEW t \in Threads, FlushNothing(t) PROVE ControlInv'
    BY <1>13 DEF FlushNothing
  <1>14. ASSUME NEW t \in Threads, FlushCopy(t) PROVE ControlInv'
    BY <1>14 DEF FlushCopy
  <1>15. ASSUME NEW t \in Threads, FlushNoMemory(t) PROVE ControlInv'
    BY <1>15 DEF FlushNoMemory
  <1>16. ASSUME NEW t \in Threads, FlushWrite(t) PROVE ControlInv'
    BY <1>16 DEF FlushWrite
  <1>17. ASSUME NEW t \in Threads, FlushWriteShort(t) PROVE ControlInv'
    BY <1>17 DEF FlushWriteShort
  <1>18. ASSUME NEW t \in Threads, FlushSigPipe(t) PROVE ControlInv'
    BY <1>18 DEF FlushSigPipe
  <1>19. ASSUME NEW t \in Threads, FlushReset(t) PROVE ControlInv'
    BY <1>19 DEF FlushReset
  <1>20. ASSUME NEW t \in Threads, FlushUnlock(t) PROVE ControlInv'
    <2>1. LockInv'
      BY <1>20 DEF FlushUnlock, Release
    <2>2. ClientInv'
      BY <1>20 DEF FlushUnlock, Release
    <2>3. OnInv'
      BY <1>20 DEF FlushUnlock, Release
    <2>4. ShutdownInv'
      BY <1>20 DEF FlushUnlock, Release
    <2> QED
      BY <2>1, <2>2, <2>3, <2>4
  <1>21. ASSUME NEW t \in Threads, ShutdownNotInited(t) PROVE ControlInv'
    BY <1>21 DEF ShutdownNotInited
  <1>22. ASSUME NEW t \in Threads, ShutdownFlush(t) PROVE ControlInv'
    BY <1>22 DEF ShutdownFlush
  <1>23. ASSUME NEW t \in Threads, ShutdownCleanup(t) PROVE ControlInv'
    BY <1>23 DEF ShutdownCleanup
  <1>24. ASSUME NEW t \in Threads, ShutdownDestroy(t) PROVE ControlInv'
    BY <1>24 DEF ShutdownDestroy
  <1>25. ASSUME NEW t \in Threads, HeapAbort(t) PROVE ControlInv'
    <2>1. pc' = pc
      BY <1>25 DEF HeapAbort
    <2> QED
      BY <1>25, <2>1 DEF HeapAbort
  <1>26. ASSUME NEW t \in Threads, CallInit(t) PROVE ControlInv'
    <2>1. LockInv'
      BY <1>26 DEF CallInit, Calls
    <2>2. ClientInv'
      BY <1>26 DEF CallInit, Calls
    <2>3. OnInv'
      BY <1>26 DEF CallInit, Calls
    <2>4. ShutdownInv'
      BY <1>26 DEF CallInit, Calls
    <2> QED
      BY <2>1, <2>2, <2>3, <2>4
  <1>27. ASSUME NEW t \in Threads, CallBuffer(t) PROVE ControlInv'
    <2>1. LockInv'
      BY <1>27 DEF CallBuffer, MayLog
    <2>2. ClientInv'
      BY <1>27 DEF CallBuffer, MayLog
    <2>3. OnInv'
      BY <1>27 DEF CallBuffer, MayLog
    <2>4. ShutdownInv'
      BY <1>27 DEF CallBuffer, MayLog
    <2> QED
      BY <2>1, <2>2, <2>3, <2>4
  <1>28. ASSUME NEW t \in Threads, CallFlush(t) PROVE ControlInv'
    <2>1. LockInv'
      BY <1>28 DEF CallFlush, MayLog, Calls
    <2>2. ClientInv'
      BY <1>28 DEF CallFlush, MayLog, Calls
    <2>3. OnInv'
      BY <1>28 DEF CallFlush, MayLog, Calls
    <2>4. ShutdownInv'
      BY <1>28 DEF CallFlush, MayLog, Calls
    <2> QED
      BY <2>1, <2>2, <2>3, <2>4
  <1>29. ASSUME NEW t \in Threads, CallShutdown(t) PROVE ControlInv'
    BY <1>29 DEF CallShutdown, Calls
  <1>30. ASSUME ReaderChanges PROVE ControlInv'
    BY <1>30 DEF ReaderChanges
  <1>31. ASSUME ProgramOpens PROVE ControlInv'
    BY <1>31 DEF ProgramOpens, Calls
  <1>32. ASSUME UNCHANGED vars PROVE ControlInv'
    BY <1>32 DEF vars
  <1> QED
    BY <1>1, <1>2, <1>3, <1>4, <1>5, <1>6, <1>7, <1>8, <1>9, <1>10, <1>11, <1>12, <1>13, <1>14, <1>15, <1>16, <1>17, <1>18, <1>19, <1>20, <1>21, <1>22, <1>23, <1>24, <1>25, <1>26, <1>27, <1>28, <1>29, <1>30, <1>31, <1>32
    DEF Next, LibraryStep, ClientStep, Terminated

LEMMA ControlInvariant == ClientOrder => (Spec => [](TInv /\ ControlInv))
PROOF
  <1> SUFFICES ASSUME ClientOrder PROVE Spec => [](TInv /\ ControlInv)
    OBVIOUS
  <1>1. Init => TInv /\ ControlInv
    BY TypeInit, ControlInit
  <1>2. TInv /\ ControlInv /\ [Next]_vars => (TInv /\ ControlInv)'
    BY TypeNext, ControlNext
  <1> QED
    BY <1>1, <1>2, PTL DEF Spec

\* Two threads are never both at work on the records, in any program that
\* calls the library the way AddLogging does, for any number of threads and
\* any faults.
THEOREM RecordsAreExclusive == ClientOrder => (Spec => []MutualExclusion)
PROOF
  <1> SUFFICES ASSUME ClientOrder PROVE Spec => []MutualExclusion
    OBVIOUS
  <1>1. TInv /\ ControlInv => MutualExclusion
    <2> SUFFICES ASSUME TInv, ControlInv,
                        NEW t \in Threads, NEW u \in Threads,
                        UsingRecords(t), UsingRecords(u)
                 PROVE  t = u
      BY DEF MutualExclusion
    <2>1. CASE ~RealMutex
      BY <2>1, MutexAssumption
    <2>2. CASE RealMutex /\ lock_state = "ready"
      <3>1. Holding(t) /\ Holding(u)
        BY DEF UsingRecords, Holding, HoldingPoints
      <3> QED
        BY <2>2, <3>1 DEF ControlInv, LockInv
    <2>3. CASE lock_state = "destroyed"
      BY <2>3 DEF ControlInv, LockInv, OnInv, UsingRecords, InitPoints,
                  FlushPoints
    <2> QED
      BY <2>1, <2>2, <2>3 DEF TInv, TypeOK
  <1> QED
    BY <1>1, ControlInvariant, PTL

\* No API function returns with the mutex held.
THEOREM LockIsNotLeaked == ClientOrder => (Spec => []NoLeakedLock)
PROOF
  <1> SUFFICES ASSUME ClientOrder PROVE Spec => []NoLeakedLock
    OBVIOUS
  <1>1. TInv /\ ControlInv => NoLeakedLock
    BY DEF TInv, TypeOK, ControlInv, LockInv, NoLeakedLock
  <1> QED
    BY <1>1, ControlInvariant, PTL

-----------------------------------------------------------------------------
(* How far the buffer can outgrow max_records *)

LEMMA IndexInit == Init => IndexInv
  BY ThreadsAssumption DEF Init, IndexInv

LEMMA IndexNext ==
    ASSUME ClientOrder, TInv, ControlInv, IndexInv, [Next]_vars
    PROVE  IndexInv'
PROOF
  <1> USE ThreadsAssumption, MutexAssumption
  <1> USE DEF ClientOrder, TInv, TypeOK, ControlInv, ClientInv, OnInv,
              ShutdownInv, IndexInv, InitPoints, FlushPoints, ShutdownPoints,
              Step, Returns, calm_vars, static_vars, config_vars, mutex_vars,
              local_vars, env_vars, past_vars, count_vars
  <1>1. ASSUME NEW t \in Threads, Lock(t) PROVE IndexInv'
    BY <1>1 DEF Lock, Acquire, AfterLock
  <1>2. ASSUME NEW t \in Threads, Unlock(t) PROVE IndexInv'
    BY <1>2 DEF Unlock, Release
  <1>3. ASSUME NEW t \in Threads, InitMutex(t) PROVE IndexInv'
    BY <1>3 DEF InitMutex
  <1>4. ASSUME NEW t \in Threads, InitAlreadyInited(t) PROVE IndexInv'
    BY <1>4 DEF InitAlreadyInited
  <1>5. ASSUME NEW t \in Threads, InitAlloc(t) PROVE IndexInv'
    BY <1>5 DEF InitAlloc
  <1>6. ASSUME NEW t \in Threads, InitAllocFails(t) PROVE IndexInv'
    BY <1>6 DEF InitAllocFails
  <1>7. ASSUME NEW t \in Threads, InitOpen(t) PROVE IndexInv'
    BY <1>7 DEF InitOpen
  <1>8. ASSUME NEW t \in Threads, InitOpenFails(t) PROVE IndexInv'
    BY <1>8 DEF InitOpenFails
  <1>9. ASSUME NEW t \in Threads, BufferNotInited(t) PROVE IndexInv'
    BY <1>9 DEF BufferNotInited
  <1>10. ASSUME NEW t \in Threads, BufferWrite(t) PROVE IndexInv'
    BY <1>10 DEF BufferWrite
  <1>11. ASSUME NEW t \in Threads, BufferIncr(t) PROVE IndexInv'
    BY <1>11 DEF BufferIncr
  <1>12. ASSUME NEW t \in Threads, BufferUnlock(t) PROVE IndexInv'
    BY <1>12 DEF BufferUnlock, Release
  <1>13. ASSUME NEW t \in Threads, FlushNothing(t) PROVE IndexInv'
    BY <1>13 DEF FlushNothing, NeedsFlush, Forced
  <1>14. ASSUME NEW t \in Threads, FlushCopy(t) PROVE IndexInv'
    BY <1>14 DEF FlushCopy
  <1>15. ASSUME NEW t \in Threads, FlushNoMemory(t) PROVE IndexInv'
    BY <1>15 DEF FlushNoMemory
  <1>16. ASSUME NEW t \in Threads, FlushWrite(t) PROVE IndexInv'
    BY <1>16 DEF FlushWrite
  <1>17. ASSUME NEW t \in Threads, FlushWriteShort(t) PROVE IndexInv'
    BY <1>17 DEF FlushWriteShort
  <1>18. ASSUME NEW t \in Threads, FlushSigPipe(t) PROVE IndexInv'
    BY <1>18 DEF FlushSigPipe
  <1>19. ASSUME NEW t \in Threads, FlushReset(t) PROVE IndexInv'
    BY <1>19 DEF FlushReset
  <1>20. ASSUME NEW t \in Threads, FlushUnlock(t) PROVE IndexInv'
    BY <1>20 DEF FlushUnlock, Release
  <1>21. ASSUME NEW t \in Threads, ShutdownNotInited(t) PROVE IndexInv'
    BY <1>21 DEF ShutdownNotInited
  <1>22. ASSUME NEW t \in Threads, ShutdownFlush(t) PROVE IndexInv'
    BY <1>22 DEF ShutdownFlush
  <1>23. ASSUME NEW t \in Threads, ShutdownCleanup(t) PROVE IndexInv'
    BY <1>23 DEF ShutdownCleanup
  <1>24. ASSUME NEW t \in Threads, ShutdownDestroy(t) PROVE IndexInv'
    BY <1>24 DEF ShutdownDestroy
  <1>25. ASSUME NEW t \in Threads, HeapAbort(t) PROVE IndexInv'
    BY <1>25 DEF HeapAbort
  <1>26. ASSUME NEW t \in Threads, CallInit(t) PROVE IndexInv'
    BY <1>26 DEF CallInit, Calls
  <1>27. ASSUME NEW t \in Threads, CallBuffer(t) PROVE IndexInv'
    BY <1>27 DEF CallBuffer, MayLog
  <1>28. ASSUME NEW t \in Threads, CallFlush(t) PROVE IndexInv'
    BY <1>28 DEF CallFlush, MayLog, Calls
  <1>29. ASSUME NEW t \in Threads, CallShutdown(t) PROVE IndexInv'
    BY <1>29 DEF CallShutdown, Calls
  <1>30. ASSUME ReaderChanges PROVE IndexInv'
    BY <1>30 DEF ReaderChanges
  <1>31. ASSUME ProgramOpens PROVE IndexInv'
    BY <1>31 DEF ProgramOpens, Calls
  <1>32. ASSUME UNCHANGED vars PROVE IndexInv'
    BY <1>32 DEF vars
  <1> QED
    BY <1>1, <1>2, <1>3, <1>4, <1>5, <1>6, <1>7, <1>8, <1>9, <1>10, <1>11, <1>12, <1>13, <1>14, <1>15, <1>16, <1>17, <1>18, <1>19, <1>20, <1>21, <1>22, <1>23, <1>24, <1>25, <1>26, <1>27, <1>28, <1>29, <1>30, <1>31, <1>32
    DEF Next, LibraryStep, ClientStep, Terminated

LEMMA InsertersFinite ==
    IsFiniteSet(Inserters) /\ Cardinality(Inserters) \in Nat
  BY ThreadsAssumption, FS_Subset, FS_CardinalityType DEF Inserters

LEMMA OverrunInit == Init => OverrunBound
  BY DEF Init, OverrunBound

LEMMA OverrunNext ==
    ASSUME ClientOrder, TInv, ControlInv, IndexInv, OverrunBound, [Next]_vars
    PROVE  OverrunBound'
PROOF
  <1> DEFINE Same == /\ Inserters' = Inserters
                     /\ UNCHANGED <<record_index, max_records, is_inited>>
             Small == is_inited' => record_index' <= max_records' - 1
  <1>same. Same => OverrunBound'
    BY DEF OverrunBound
  <1>small. Small => OverrunBound'
    <2> SUFFICES ASSUME Small, is_inited'
                 PROVE  record_index' <= max_records' - 1
                                         + Cardinality(Inserters')
      BY DEF OverrunBound
    <2>1. Inserters' \in SUBSET Threads
      BY DEF Inserters
    <2>2. Cardinality(Inserters') \in Nat
      BY <2>1, ThreadsAssumption, FS_Subset, FS_CardinalityType
    <2>3. record_index' \in Nat /\ max_records' \in Int
      BY TypeNext DEF TInv, TypeOK
    <2>4. record_index' <= max_records' - 1
      OBVIOUS
    <2>5. \A a, c \in Nat, b \in Int : a <= b - 1 => a <= b - 1 + c
      OBVIOUS
    <2> QED
      BY <2>2, <2>3, <2>4, <2>5, Zenon
  <1> USE DEF TInv, TypeOK, Step, Returns, calm_vars, static_vars, config_vars,
              mutex_vars, local_vars, env_vars, past_vars, count_vars
  <1>1. ASSUME NEW t \in Threads, Lock(t) PROVE OverrunBound'
    <2>1. Same
      BY <1>1 DEF Lock, Inserters, AfterLock
    <2> QED
      BY <2>1, <1>same
  <1>2. ASSUME NEW t \in Threads, Unlock(t) PROVE OverrunBound'
    <2>1. Same
      BY <1>2 DEF Unlock, Inserters
    <2> QED
      BY <2>1, <1>same
  <1>3. ASSUME NEW t \in Threads, InitMutex(t) PROVE OverrunBound'
    <2>1. Same
      BY <1>3 DEF InitMutex, Inserters
    <2> QED
      BY <2>1, <1>same
  <1>4. ASSUME NEW t \in Threads, InitAlreadyInited(t) PROVE OverrunBound'
    <2>1. Same
      BY <1>4 DEF InitAlreadyInited, Inserters
    <2> QED
      BY <2>1, <1>same
  <1>5. ASSUME NEW t \in Threads, InitAlloc(t) PROVE OverrunBound'
    BY <1>5 DEF InitAlloc, OverrunBound
  <1>6. ASSUME NEW t \in Threads, InitAllocFails(t) PROVE OverrunBound'
    <2>1. Small
      BY <1>6 DEF InitAllocFails
    <2> QED
      BY <2>1, <1>small
  <1>7. ASSUME NEW t \in Threads, InitOpen(t) PROVE OverrunBound'
    <2>1. Small
      BY <1>7 DEF InitOpen, IndexInv, ControlInv, OnInv
    <2> QED
      BY <2>1, <1>small
  <1>8. ASSUME NEW t \in Threads, InitOpenFails(t) PROVE OverrunBound'
    <2>1. Small
      BY <1>8 DEF InitOpenFails
    <2> QED
      BY <2>1, <1>small
  <1>9. ASSUME NEW t \in Threads, BufferNotInited(t) PROVE OverrunBound'
    <2>1. Same
      BY <1>9 DEF BufferNotInited, Inserters
    <2> QED
      BY <2>1, <1>same
  <1>10. ASSUME NEW t \in Threads, BufferWrite(t) PROVE OverrunBound'
    <2>1. Same
      BY <1>10 DEF BufferWrite, Inserters
    <2> QED
      BY <2>1, <1>same
  <1>11. ASSUME NEW t \in Threads, BufferIncr(t) PROVE OverrunBound'
    <2>1. Inserters' = Inserters \cup {t} /\ t \notin Inserters
      BY <1>11 DEF BufferIncr, Inserters
    <2>2. Cardinality(Inserters') = Cardinality(Inserters) + 1
      BY <2>1, InsertersFinite, FS_AddElement
    <2>3. /\ record_index' = record_index + 1
          /\ UNCHANGED <<max_records, is_inited>>
      BY <1>11 DEF BufferIncr
    <2> QED
      BY <2>2, <2>3, InsertersFinite DEF OverrunBound
  <1>12. ASSUME NEW t \in Threads, BufferUnlock(t) PROVE OverrunBound'
    <2>1. Same
      BY <1>12 DEF BufferUnlock, Inserters
    <2> QED
      BY <2>1, <1>same
  <1>13. ASSUME NEW t \in Threads, FlushNothing(t) PROVE OverrunBound'
    <2>1. Small
      BY <1>13 DEF FlushNothing, NeedsFlush, IndexInv
    <2> QED
      BY <2>1, <1>small
  <1>14. ASSUME NEW t \in Threads, FlushCopy(t) PROVE OverrunBound'
    <2>1. Same
      BY <1>14 DEF FlushCopy, Inserters
    <2> QED
      BY <2>1, <1>same
  <1>15. ASSUME NEW t \in Threads, FlushNoMemory(t) PROVE OverrunBound'
    <2>1. Same
      BY <1>15 DEF FlushNoMemory, Inserters, FlushReturns
    <2> QED
      BY <2>1, <1>same
  <1>16. ASSUME NEW t \in Threads, FlushWrite(t) PROVE OverrunBound'
    <2>1. Same
      BY <1>16 DEF FlushWrite, Inserters, FlushReturns
    <2> QED
      BY <2>1, <1>same
  <1>17. ASSUME NEW t \in Threads, FlushWriteShort(t) PROVE OverrunBound'
    <2>1. Same
      BY <1>17 DEF FlushWriteShort, Inserters, FlushReturns
    <2> QED
      BY <2>1, <1>same
  <1>18. ASSUME NEW t \in Threads, FlushSigPipe(t) PROVE OverrunBound'
    <2>1. Same
      BY <1>18 DEF FlushSigPipe, Inserters
    <2> QED
      BY <2>1, <1>same
  <1>19. ASSUME NEW t \in Threads, FlushReset(t) PROVE OverrunBound'
    <2>1. Small
      BY <1>19 DEF FlushReset, IndexInv
    <2> QED
      BY <2>1, <1>small
  <1>20. ASSUME NEW t \in Threads, FlushUnlock(t) PROVE OverrunBound'
    <2>1. Same
      BY <1>20 DEF FlushUnlock, Inserters
    <2> QED
      BY <2>1, <1>same
  <1>21. ASSUME NEW t \in Threads, ShutdownNotInited(t) PROVE OverrunBound'
    <2>1. Same
      BY <1>21 DEF ShutdownNotInited, Inserters
    <2> QED
      BY <2>1, <1>same
  <1>22. ASSUME NEW t \in Threads, ShutdownFlush(t) PROVE OverrunBound'
    <2>1. Same
      BY <1>22 DEF ShutdownFlush, Inserters
    <2> QED
      BY <2>1, <1>same
  <1>23. ASSUME NEW t \in Threads, ShutdownCleanup(t) PROVE OverrunBound'
    <2>1. Small
      BY <1>23 DEF ShutdownCleanup
    <2> QED
      BY <2>1, <1>small
  <1>24. ASSUME NEW t \in Threads, ShutdownDestroy(t) PROVE OverrunBound'
    <2>1. Same
      BY <1>24 DEF ShutdownDestroy, Inserters
    <2> QED
      BY <2>1, <1>same
  <1>25. ASSUME NEW t \in Threads, HeapAbort(t) PROVE OverrunBound'
    <2>1. Same
      BY <1>25 DEF HeapAbort, Inserters
    <2> QED
      BY <2>1, <1>same
  <1>26. ASSUME NEW t \in Threads, CallInit(t) PROVE OverrunBound'
    <2>1. Same
      BY <1>26 DEF CallInit, Inserters
    <2> QED
      BY <2>1, <1>same
  <1>27. ASSUME NEW t \in Threads, CallBuffer(t) PROVE OverrunBound'
    <2>1. Same
      BY <1>27 DEF CallBuffer, Inserters
    <2> QED
      BY <2>1, <1>same
  <1>28. ASSUME NEW t \in Threads, CallFlush(t) PROVE OverrunBound'
    <2>1. Same
      BY <1>28 DEF CallFlush, Inserters
    <2> QED
      BY <2>1, <1>same
  <1>29. ASSUME NEW t \in Threads, CallShutdown(t) PROVE OverrunBound'
    <2>1. Same
      BY <1>29 DEF CallShutdown, Inserters
    <2> QED
      BY <2>1, <1>same
  <1>30. ASSUME ReaderChanges PROVE OverrunBound'
    <2>1. Same
      BY <1>30 DEF ReaderChanges, Inserters
    <2> QED
      BY <2>1, <1>same
  <1>31. ASSUME ProgramOpens PROVE OverrunBound'
    <2>1. Same
      BY <1>31 DEF ProgramOpens, Calls, Inserters
    <2> QED
      BY <2>1, <1>same
  <1>32. ASSUME UNCHANGED vars PROVE OverrunBound'
    <2>1. Same
      BY <1>32 DEF vars, Inserters
    <2> QED
      BY <2>1, <1>same
  <1> QED
    BY <1>1, <1>2, <1>3, <1>4, <1>5, <1>6, <1>7, <1>8, <1>9, <1>10, <1>11, <1>12, <1>13, <1>14, <1>15, <1>16, <1>17, <1>18, <1>19, <1>20, <1>21, <1>22, <1>23, <1>24, <1>25, <1>26, <1>27, <1>28, <1>29, <1>30, <1>31, <1>32
    DEF Next, LibraryStep, ClientStep, Terminated

LEMMA IndexInvariant ==
    ClientOrder =>
      (Spec => [](TInv /\ ControlInv /\ IndexInv /\ OverrunBound))
PROOF
  <1> DEFINE IInv == TInv /\ ControlInv /\ IndexInv /\ OverrunBound
  <1> SUFFICES ASSUME ClientOrder PROVE Spec => []IInv
    OBVIOUS
  <1>1. Init => IInv
    BY TypeInit, ControlInit, IndexInit, OverrunInit
  <1>2. IInv /\ [Next]_vars => IInv'
    BY TypeNext, ControlNext, IndexNext, OverrunNext
  <1> HIDE DEF IInv
  <1> QED
    BY <1>1, <1>2, PTL DEF Spec

\* The buffer never holds more than max_records - 1 records and one for each
\* thread that is between its insert and its flush, for any number of threads.
THEOREM BufferIsBounded == ClientOrder => (Spec => []OverrunBound)
PROOF
  <1> SUFFICES ASSUME ClientOrder PROVE Spec => []OverrunBound
    OBVIOUS
  <1> QED
    BY IndexInvariant, PTL

\* With a single thread that bound keeps every store inside the array, in
\* whatever order the program calls the library and whatever fails.
THEOREM OneThreadStaysInside == Threads = {Main} => (Spec => []NoOverrun)
PROOF
  <1> DEFINE IInv == TInv /\ ControlInv /\ IndexInv /\ OverrunBound
  <1> SUFFICES ASSUME Threads = {Main} PROVE Spec => []NoOverrun
    OBVIOUS
  <1>1. Spec => []IInv
    BY IndexInvariant DEF ClientOrder
  <1>2. Init => NoOverrun
    BY DEF Init, NoOverrun
  <1>3. IInv /\ NoOverrun /\ [Next]_vars => NoOverrun'
    <2> SUFFICES ASSUME IInv, NoOverrun, [Next]_vars PROVE NoOverrun'
      OBVIOUS
    <2>1. CASE \E t \in Threads : BufferWrite(t)
      <3>1. PICK t \in Threads : BufferWrite(t)
        BY <2>1
      <3>2. Inserters = {}
        BY <3>1 DEF Inserters, BufferWrite, Step
      <3>3. Cardinality(Inserters) = 0
        BY <3>2, FS_EmptySet
      <3>4. record_index < max_records
        BY <3>1, <3>3 DEF BufferWrite, OverrunBound, TInv, TypeOK
      <3> QED
        BY <3>1, <3>4 DEF BufferWrite, NoOverrun, TInv, TypeOK
    <2>2. CASE UNCHANGED overrun
      BY <2>2 DEF NoOverrun
    <2>3. (\E t \in Threads : BufferWrite(t)) \/ UNCHANGED overrun
      <3> USE DEF calm_vars, static_vars, past_vars
      <3>1. ASSUME NEW t \in Threads, LibraryStep(t), ~BufferWrite(t)
            PROVE  UNCHANGED overrun
        BY <3>1 DEF LibraryStep, Lock, Unlock, InitMutex, InitAlreadyInited,
                    InitAlloc, InitAllocFails, InitOpen, InitOpenFails,
                    BufferNotInited, BufferIncr, BufferUnlock, FlushNothing,
                    FlushCopy, FlushNoMemory, FlushWrite, FlushWriteShort,
                    FlushSigPipe, FlushReset, FlushUnlock, ShutdownNotInited,
                    ShutdownFlush, ShutdownCleanup, ShutdownDestroy, HeapAbort
      <3>2. ASSUME NEW t \in Threads, ClientStep(t) PROVE UNCHANGED overrun
        BY <3>2 DEF ClientStep, CallInit, CallBuffer, CallFlush, CallShutdown
      <3>3. ReaderChanges \/ ProgramOpens \/ UNCHANGED vars => UNCHANGED overrun
        BY DEF ReaderChanges, ProgramOpens, vars
      <3> QED
        BY <3>1, <3>2, <3>3 DEF Next, Terminated
    <2> QED
      BY <2>1, <2>2, <2>3
  <1> HIDE DEF IInv
  <1> QED
    BY <1>1, <1>2, <1>3, PTL DEF Spec

-----------------------------------------------------------------------------
(***************************************************************************)
(* The run-time logger keeps the promise of CallSiteLog, for every set of  *)
(* threads, every configuration, every fault and every bound, in a program *)
(* that calls it in the order in which AddLogging inserts the calls, or    *)
(* that has one thread.                                                    *)
(*                                                                         *)
(* A flush copies the records before it writes them, and strikes them off  *)
(* the buffer after: the proof shows that nobody comes in between.         *)
(***************************************************************************)

\* The array and the descriptor that logging was turned on with.
UsableInv ==
    /\ is_inited \/ (\E t \in Threads : pc[t] = "init_open") => records = "live"
    /\ is_inited => OutputTarget = "log"

\* The slots below the index were written, the one at the index by the thread
\* that is about to raise it, and what a thread is about to write to the log is
\* what the buffer holds.
StoreInv ==
    /\ record_index <= Len(slots)
    /\ \A t \in Threads :
         /\ pc[t] = "buffer_incr" =>
              /\ record_index < Len(slots)
              /\ ~overrun => slots[record_index + 1] = CallRecord(t)
         /\ pc[t] = "flush_write" => batch[t] = Buffered

Inv == TInv /\ ControlInv /\ IndexInv

-----------------------------------------------------------------------------
(* Who is inside a critical section is alone there                          *)

LEMMA OneInside ==
    ASSUME TInv, ControlInv, is_inited,
           NEW t \in Threads, NEW u \in Threads, Holding(t), Holding(u)
    PROVE  t = u
PROOF
  <1>1. CASE ~RealMutex
    BY <1>1, MutexAssumption
  <1>2. CASE RealMutex
    BY <1>2 DEF TInv, TypeOK, ControlInv, LockInv
  <1> QED
    BY <1>1, <1>2

\* The steps that leave the array, the switch and the descriptors alone.
LEMMA UsableSame ==
    ASSUME UsableInv, UNCHANGED <<is_inited, records, output_fd, fds>>,
           \A t \in Threads : pc'[t] = "init_open" => pc[t] = "init_open"
    PROVE  UsableInv'
  BY DEF UsableInv, OutputTarget

\* Logging is off when an array is allocated or freed, or a log opened or
\* closed, and the program's own open() takes a descriptor that is closed.
LEMMA UsableNext ==
    ASSUME Inv, Inv', UsableInv, [Next]_vars
    PROVE  UsableInv'
PROOF
  <1> DEFINE Same == /\ UNCHANGED <<is_inited, records, output_fd, fds>>
                     /\ \A t \in Threads : pc'[t] = "init_open" => pc[t] = "init_open"
  <1>same. Same => UsableInv'
    BY UsableSame
  <1> HIDE DEF Same
  <1>pc. pc \in [Threads -> Points]
    BY DEF Inv, TInv, TypeOK
  <1>on. \A t \in Threads :
           /\ pc[t] = "init_open" => ~is_inited
           /\ pc'[t] = "init_open" => ~is_inited'
    BY DEF Inv, ControlInv, OnInv
  <1> USE DEF Step, Returns, calm_vars, static_vars, config_vars, mutex_vars,
              local_vars, env_vars, past_vars, count_vars
  <1>1. ASSUME NEW t \in Threads,
               Lock(t) \/ Unlock(t) \/ InitMutex(t) \/ InitAlreadyInited(t)
        PROVE  Same
    BY <1>1, <1>pc DEF Same, Lock, AfterLock, Unlock, InitMutex, InitAlreadyInited
  <1>2. ASSUME NEW t \in Threads,
               BufferNotInited(t) \/ BufferWrite(t) \/ BufferIncr(t) \/ BufferUnlock(t)
        PROVE  Same
    BY <1>2, <1>pc DEF Same, BufferNotInited, BufferWrite, BufferIncr, BufferUnlock
  <1>3. ASSUME NEW t \in Threads, InitAlloc(t) PROVE UsableInv'
    BY <1>3 DEF InitAlloc, UsableInv
  <1>4. ASSUME NEW t \in Threads, InitAllocFails(t) \/ InitOpenFails(t)
        PROVE  UsableInv'
    <2>1. ~is_inited'
      BY <1>4 DEF InitAllocFails, InitOpenFails
    <2>2. \A u \in Threads : u # t => pc[u] \notin InitPoints
      BY <1>4 DEF Inv, ControlInv, ClientInv, InitAllocFails, InitOpenFails, InitPoints
    <2>3. \A u \in Threads : pc'[u] # "init_open"
      BY <1>4, <1>pc, <2>2 DEF InitAllocFails, InitOpenFails, InitPoints
    <2> QED
      BY <2>1, <2>3 DEF UsableInv
  <1>5. ASSUME NEW t \in Threads, InitOpen(t) PROVE UsableInv'
    BY <1>5, <1>on DEF InitOpen, NextFd, FreeFds, UsableInv, OutputTarget
  <1>6. ASSUME NEW t \in Threads,
               FlushNothing(t) \/ FlushCopy(t) \/ FlushNoMemory(t) \/ FlushWrite(t)
        PROVE  Same
    BY <1>6, <1>pc DEF Same, FlushNothing, FlushCopy, FlushNoMemory, FlushWrite
  <1>7. ASSUME NEW t \in Threads,
               FlushWriteShort(t) \/ FlushSigPipe(t) \/ FlushReset(t) \/ FlushUnlock(t)
        PROVE  Same
    BY <1>7, <1>pc DEF Same, FlushWriteShort, FlushSigPipe, FlushReset, FlushUnlock
  <1>8. ASSUME NEW t \in Threads, ShutdownCleanup(t) PROVE UsableInv'
    <2>1. is_inited /\ ~is_inited'
      BY <1>8 DEF ShutdownCleanup, Inv, ControlInv, OnInv
    <2> QED
      BY <1>8, <1>pc, <1>on, <2>1 DEF ShutdownCleanup, UsableInv
  <1>9. ASSUME NEW t \in Threads,
               ShutdownNotInited(t) \/ ShutdownFlush(t) \/ ShutdownDestroy(t)
               \/ HeapAbort(t)
        PROVE  Same
    BY <1>9, <1>pc DEF Same, ShutdownNotInited, ShutdownFlush, ShutdownDestroy, HeapAbort
  <1>10. ASSUME NEW t \in Threads, ClientStep(t) PROVE Same
    BY <1>10, <1>pc DEF Same, ClientStep, CallInit, CallBuffer, CallFlush, CallShutdown
  <1>11. ASSUME ReaderChanges \/ UNCHANGED vars PROVE Same
    BY <1>11 DEF Same, ReaderChanges, vars
  <1>12. ASSUME ProgramOpens PROVE UsableInv'
    BY <1>12 DEF ProgramOpens, NextFd, FreeFds, UsableInv, OutputTarget
  <1> QED
    BY <1>same, <1>1, <1>2, <1>3, <1>4, <1>5, <1>6, <1>7, <1>8, <1>9, <1>10,
       <1>11, <1>12
    DEF Next, LibraryStep, Terminated

-----------------------------------------------------------------------------
(* What the array holds                                                     *)

\* PutSlot writes one slot and, at the end of the array, adds it.
LEMMA PutSlotIs ==
    ASSUME slots \in Seq(Slot), NEW i \in 0 .. Len(slots), NEW s
    PROVE  /\ Len(PutSlot(i, s)) \in Nat
           /\ Len(PutSlot(i, s)) >= Len(slots)
           /\ Len(PutSlot(i, s)) > i
           /\ PutSlot(i, s)[i + 1] = s
           /\ \A k \in 1 .. Len(slots) : k # i + 1 => PutSlot(i, s)[k] = slots[k]
PROOF
  <1> DEFINE n == IF i < Len(slots) THEN Len(slots) ELSE i + 1
  <1>1. n \in Nat /\ n >= Len(slots) /\ n >= i + 1 /\ i + 1 \in 1 .. n
    OBVIOUS
  <1>2. Len(PutSlot(i, s)) = n
    BY <1>1 DEF PutSlot
  <1>3. \A k \in 1 .. n : PutSlot(i, s)[k] =
          IF k = i + 1 THEN s ELSE IF k <= Len(slots) THEN slots[k] ELSE Stale
    BY DEF PutSlot
  <1> HIDE DEF n
  <1> QED
    BY <1>1, <1>2, <1>3

\* Buffered depends on the slots below the index only.
LEMMA BufferedIs ==
    ASSUME slots \in Seq(Slot), record_index \in Nat, record_index <= Len(slots)
    PROVE  /\ Buffered = [k \in 1 .. record_index |-> slots[k]]
           /\ Buffered \in Seq(Slot)
           /\ Len(Buffered) = record_index
PROOF
  <1>1. Buffered = [k \in 1 .. record_index |-> slots[k]]
    BY DEF Buffered
  <1>2. \A k \in 1 .. record_index : slots[k] \in Slot
    OBVIOUS
  <1>3. [k \in 1 .. record_index |-> slots[k]] \in Seq(Slot)
    BY <1>2, IsASeq
  <1> QED
    BY <1>1, <1>3

LEMMA StoreSame ==
    ASSUME StoreInv, UNCHANGED <<record_index, slots, overrun>>,
           \A t \in Threads :
             /\ pc'[t] = "buffer_incr" =>
                  pc[t] = "buffer_incr" /\ calls'[t] = calls[t]
             /\ pc'[t] = "flush_write" =>
                  pc[t] = "flush_write" /\ batch'[t] = batch[t]
    PROVE  StoreInv'
  BY DEF StoreInv, CallRecord, Buffered

\* Only the thread inside stores, counts and copies, and the others find the
\* array as they left it.
LEMMA StoreNext ==
    ASSUME Inv, Inv', StoreInv, [Next]_vars
    PROVE  StoreInv'
PROOF
  <1> DEFINE Same ==
        /\ UNCHANGED <<record_index, slots, overrun>>
        /\ \A t \in Threads :
             /\ pc'[t] = "buffer_incr" =>
                  pc[t] = "buffer_incr" /\ calls'[t] = calls[t]
             /\ pc'[t] = "flush_write" =>
                  pc[t] = "flush_write" /\ batch'[t] = batch[t]
  <1>same. Same => StoreInv'
    BY StoreSame
  <1> HIDE DEF Same
  <1>types. /\ pc \in [Threads -> Points]
            /\ batch \in [Threads -> Seq(Slot)]
            /\ calls \in [Threads -> Nat]
            /\ slots \in Seq(Slot)
            /\ record_index \in Nat
            /\ overrun \in BOOLEAN
            /\ max_records \in Int
    BY DEF Inv, TInv, TypeOK
  <1>alone. ASSUME is_inited, NEW t \in Threads, NEW u \in Threads, t # u, Holding(t)
            PROVE  pc[u] \notin {"buffer_incr", "flush_write"}
    BY <1>alone, OneInside DEF Inv, Holding, HoldingPoints
  <1>off. \A t \in Threads : pc[t] \in {"buffer_incr", "flush_write"} => is_inited
    BY DEF Inv, ControlInv, OnInv
  <1> USE DEF Step, Returns, calm_vars, static_vars, config_vars, mutex_vars,
              local_vars, env_vars, past_vars, count_vars
  <1>1. ASSUME NEW t \in Threads,
               Lock(t) \/ Unlock(t) \/ InitMutex(t) \/ InitAlreadyInited(t)
        PROVE  Same
    BY <1>1, <1>types DEF Same, Lock, AfterLock, Unlock, InitMutex, InitAlreadyInited
  <1>2. ASSUME NEW t \in Threads,
               InitAllocFails(t) \/ InitOpen(t) \/ InitOpenFails(t)
        PROVE  Same
    BY <1>2, <1>types DEF Same, InitAllocFails, InitOpen, InitOpenFails
  <1>3. ASSUME NEW t \in Threads, InitAlloc(t) PROVE StoreInv'
    <2>1. record_index' = 0 /\ slots' = <<>>
      BY <1>3 DEF InitAlloc, Inv, IndexInv
    <2>2. \A u \in Threads : pc'[u] \notin {"buffer_incr", "flush_write"}
      <3>1. ~is_inited /\ pc' = [pc EXCEPT ![t] = "init_open"]
        BY <1>3 DEF InitAlloc
      <3> QED
        BY <3>1, <1>types, <1>off
    <2> QED
      BY <2>1, <2>2 DEF StoreInv
  <1>4. ASSUME NEW t \in Threads, BufferNotInited(t) \/ BufferUnlock(t) PROVE Same
    BY <1>4, <1>types DEF Same, BufferNotInited, BufferUnlock
  <1>5. ASSUME NEW t \in Threads, BufferWrite(t) PROVE StoreInv'
    <2>1. \A u \in Threads : u # t => pc'[u] \notin {"buffer_incr", "flush_write"}
      <3>1. is_inited /\ pc[t] = "buffer_write"
        BY <1>5 DEF BufferWrite
      <3>2. \A u \in Threads : u # t => pc'[u] = pc[u]
        BY <1>5, <1>types DEF BufferWrite
      <3>3. Holding(t)
        BY <3>1 DEF Holding, HoldingPoints
      <3> QED
        BY <3>1, <3>2, <3>3, <1>alone
    <2>2. PICK s \in {CallRecord(t), Stale} :
            /\ record_index < max_records => s = CallRecord(t)
            /\ slots' = PutSlot(record_index, s)
      BY <1>5 DEF BufferWrite
    <2>3. /\ Len(slots') \in Nat
          /\ Len(slots') > record_index
          /\ slots'[record_index + 1] = s
      BY <2>2, <1>types, PutSlotIs DEF StoreInv
    <2>4. UNCHANGED <<record_index, calls>>
      BY <1>5 DEF BufferWrite
    <2>5. ~overrun' => record_index < max_records
      <3>1. overrun' = (overrun \/ record_index >= max_records)
        BY <1>5, Zenon DEF BufferWrite
      <3>2. record_index >= max_records => overrun'
        BY <3>1
      <3> QED
        BY <3>2, <1>types
    <2>6. pc'[t] # "flush_write"
      BY <1>5, <1>types DEF BufferWrite
    <2> QED
      BY <2>1, <2>2, <2>3, <2>4, <2>5, <2>6, <1>types DEF StoreInv, CallRecord
  <1>6. ASSUME NEW t \in Threads, BufferIncr(t) PROVE StoreInv'
    <2>1. \A u \in Threads : pc'[u] \notin {"buffer_incr", "flush_write"}
      BY <1>6, <1>types, <1>off, <1>alone DEF BufferIncr, Holding, HoldingPoints
    <2>2. record_index' <= Len(slots')
      BY <1>6, <1>types DEF BufferIncr, StoreInv
    <2> QED
      BY <2>1, <2>2 DEF StoreInv
  <1>7. ASSUME NEW t \in Threads, FlushCopy(t) PROVE StoreInv'
    BY <1>7, <1>types DEF FlushCopy, StoreInv, Buffered, CallRecord
  <1>8. ASSUME NEW t \in Threads,
               FlushNothing(t) \/ FlushNoMemory(t) \/ FlushWrite(t)
        PROVE  Same
    BY <1>8, <1>types DEF Same, FlushNothing, FlushNoMemory, FlushWrite
  <1>9. ASSUME NEW t \in Threads,
               FlushWriteShort(t) \/ FlushSigPipe(t) \/ FlushUnlock(t)
        PROVE  Same
    BY <1>9, <1>types DEF Same, FlushWriteShort, FlushSigPipe, FlushUnlock
  <1>10. ASSUME NEW t \in Threads, FlushReset(t) PROVE StoreInv'
    <2>1. is_inited
      BY <1>10 DEF FlushReset, Inv, ControlInv, OnInv
    <2>2. \A u \in Threads : pc'[u] \notin {"buffer_incr", "flush_write"}
      BY <1>10, <2>1, <1>types, <1>alone DEF FlushReset, Holding, HoldingPoints
    <2> QED
      BY <1>10, <2>2, <1>types DEF FlushReset, StoreInv
  <1>11. ASSUME NEW t \in Threads,
                \/ ShutdownNotInited(t) \/ ShutdownFlush(t) \/ ShutdownCleanup(t)
                \/ ShutdownDestroy(t) \/ HeapAbort(t)
         PROVE  Same
    BY <1>11, <1>types DEF Same, ShutdownNotInited, ShutdownFlush, ShutdownCleanup,
                           ShutdownDestroy, HeapAbort
  <1>12. ASSUME NEW t \in Threads, ClientStep(t) PROVE Same
    BY <1>12, <1>types DEF Same, ClientStep, CallInit, CallBuffer, CallFlush, CallShutdown
  <1>13. ASSUME ReaderChanges \/ ProgramOpens \/ UNCHANGED vars PROVE Same
    BY <1>13 DEF Same, ReaderChanges, ProgramOpens, Calls, vars
  <1> QED
    BY <1>same, <1>1, <1>2, <1>3, <1>4, <1>5, <1>6, <1>7, <1>8, <1>9, <1>10,
       <1>11, <1>12, <1>13
    DEF Next, LibraryStep, Terminated

-----------------------------------------------------------------------------
(* What is still to be written                                              *)

LEMMA NothingBuffered ==
    /\ record_index = 0 => Pending = <<>>
    /\ record_index' = 0 => Pending' = <<>>
  BY DEF Pending, Buffered

\* Before its thread gets to the flush, the whole buffer is still to be written.
LEMMA AllPending ==
    ASSUME Inv, StoreInv, is_inited, NEW t \in Threads, Holding(t),
           pc[t] # "flush_reset"
    PROVE  /\ Pending = Buffered
           /\ Pending = [k \in 1 .. record_index |-> slots[k]]
           /\ Pending \in Seq(Slot)
           /\ Len(Pending) = record_index
PROOF
  <1>1. \A u \in Threads : pc[u] # "flush_reset"
    BY OneInside DEF Inv, Holding, HoldingPoints
  <1>2. Pending = Buffered
    BY <1>1 DEF Pending
  <1>3. slots \in Seq(Slot) /\ record_index \in Nat
    BY DEF Inv, TInv, TypeOK
  <1> QED
    BY <1>2, <1>3, BufferedIs DEF StoreInv

LEMMA PendingSame ==
    ASSUME UNCHANGED <<record_index, slots>>,
           \A t \in Threads : pc'[t] = "flush_reset" <=> pc[t] = "flush_reset"
    PROVE  Pending' = Pending
  BY DEF Pending, Buffered

-----------------------------------------------------------------------------
(* Each step of the logger is a step of CallSiteLog, or a stutter           *)

RefInv == Inv /\ UsableInv /\ StoreInv

LEMMA AcceptStep ==
    ASSUME RefInv, RefInv', NEW t \in Threads, BufferIncr(t), ~overrun
    PROVE  /\ UNCHANGED <<is_inited, output, overrun>>
           /\ is_inited
           /\ Pending \in Seq(Slot)
           /\ Pending' = Append(Pending, CallRecord(t))
           /\ CallRecord(t) \in Record
PROOF
  <1> USE DEF RefInv, BufferIncr, Step, config_vars, env_vars
  <1>types. /\ pc \in [Threads -> Points]
            /\ slots \in Seq(Slot) /\ record_index \in Nat
            /\ record_index < Len(slots)
            /\ slots[record_index + 1] = CallRecord(t)
    BY DEF Inv, TInv, TypeOK, StoreInv
  <1>1. is_inited /\ Holding(t)
    BY DEF Inv, ControlInv, OnInv, Holding, HoldingPoints
  <1>2. /\ Pending = [k \in 1 .. record_index |-> slots[k]]
        /\ Pending \in Seq(Slot)
        /\ Len(Pending) = record_index
    BY <1>1, AllPending
  <1>3. Pending' = [k \in 1 .. record_index + 1 |-> slots[k]]
    <2>1. \A u \in Threads : pc'[u] # "flush_reset"
      <3>1. \A u \in Threads : pc[u] # "flush_reset"
        BY <1>1, OneInside DEF Inv, Holding, HoldingPoints
      <3>2. pc' = [pc EXCEPT ![t] = "buffer_unlock"]
        OBVIOUS
      <3> QED
        BY <3>1, <3>2, <1>types
    <2>2. record_index' = record_index + 1 /\ slots' = slots
      OBVIOUS
    <2>3. Pending' = [k \in 1 .. record_index' |->
                        IF k <= Len(slots') THEN slots'[k] ELSE Stale]
      BY <2>1 DEF Pending, Buffered
    <2> QED
      BY <1>types, <2>2, <2>3
  <1>4. CallRecord(t) \in Record
    BY CallRecordType DEF Inv, TInv, CallCounted
  <1>5. Pending' = Append(Pending, CallRecord(t))
    BY <1>2, <1>3, <1>types
  <1> QED
    BY <1>1, <1>2, <1>4, <1>5

LEMMA FlushStep ==
    ASSUME RefInv, RefInv', NEW t \in Threads,
           FlushNoMemory(t) \/ FlushWrite(t) \/ FlushWriteShort(t)
    PROVE  /\ UNCHANGED <<is_inited, overrun, accepted>>
           /\ Promise!Flush \/ Promise!Lose
           /\ Pending \in Seq(Slot)
PROOF
  <1> USE DEF RefInv, Step, static_vars, config_vars, past_vars, calm_vars, env_vars
  <1>1. is_inited /\ Holding(t) /\ pc[t] # "flush_reset"
    BY DEF Inv, ControlInv, OnInv, Holding, HoldingPoints, FlushNoMemory, FlushWrite,
           FlushWriteShort
  <1>2. Pending = Buffered /\ Pending \in Seq(Slot) /\ Len(Pending) \in Nat
    BY <1>1, AllPending
  <1>3. UNCHANGED <<is_inited, overrun, accepted>>
    BY DEF FlushNoMemory, FlushWrite, FlushWriteShort
  <1>4. Pending' = <<>>
    <2>1. pc'[t] = "flush_reset"
      BY DEF Inv, TInv, TypeOK, FlushNoMemory, FlushWrite, FlushWriteShort
    <2> QED
      BY <2>1 DEF Pending
  <1>5. output \in Seq(Slot)
    BY DEF Inv, TInv, TypeOK
  <1>6. CASE FlushNoMemory(t)
    <2>1. output' = output /\ "malloc" \in Faults
      BY <1>6 DEF FlushNoMemory
    <2>2. SubSeq(Pending, 1, 0) = <<>>
      BY <1>2
    <2>3. output' = output \o SubSeq(Pending, 1, 0)
      BY <2>1, <2>2, <1>5
    <2>4. 0 \in 0 .. Len(Pending)
      BY <1>2
    <2>5. Promise!Lose
      BY <1>1, <1>3, <1>4, <2>1, <2>3, <2>4 DEF Promise!Lose
    <2> QED
      BY <1>2, <1>3, <2>5
  <1>7. CASE FlushWrite(t)
    <2>1. batch[t] = Pending
      BY <1>2, <1>7 DEF FlushWrite, StoreInv
    <2>2. OutputTarget = "log"
      BY <1>1 DEF UsableInv
    <2>3. output' = output \o Pending
      BY <1>7, <2>1, <2>2 DEF FlushWrite
    <2>4. Promise!Flush
      BY <1>1, <1>3, <1>4, <2>3 DEF Promise!Flush
    <2> QED
      BY <1>2, <1>3, <2>4
  <1>8. CASE FlushWriteShort(t)
    <2>1. batch[t] = Pending
      BY <1>2, <1>8 DEF FlushWriteShort, StoreInv
    <2>2. PICK n \in 0 .. Len(Pending) - 1, piece \in {<<>>, <<Torn>>} :
            output' = output \o SubSeq(Pending, 1, n) \o piece
      BY <1>8, <2>1 DEF FlushWriteShort
    <2>3. n \in 0 .. Len(Pending) /\ n < Len(Pending)
      BY <1>2
    <2>4. SubSeq(Pending, 1, n) \in Seq(Slot)
      BY <1>2, <2>3
    <2>5. output \o SubSeq(Pending, 1, n) \in Seq(Slot)
      BY <1>5, <2>4
    <2>6. \/ output' = output \o SubSeq(Pending, 1, n)
          \/ output' = Append(output \o SubSeq(Pending, 1, n), Torn)
      <3>1. CASE piece = <<>>
        BY <2>2, <2>5, <3>1
      <3>2. CASE piece = <<Torn>>
        <4>1. Torn \in Slot
          BY DEF Slot
        <4> QED
          BY <2>2, <2>5, <3>2, <4>1, AppendIsConcat
      <3> QED
        BY <3>1, <3>2
    <2>7. "write" \in Faults
      BY <1>8 DEF FlushWriteShort
    <2>8. Promise!Lose
      BY <1>1, <1>3, <1>4, <2>3, <2>6, <2>7 DEF Promise!Lose
    <2> QED
      BY <1>2, <1>3, <2>8
  <1> QED
    BY <1>6, <1>7, <1>8

\* Nothing that the promise is about changes; it changes without a new record.
Stutters == UNCHANGED <<is_inited, Pending, output, overrun, accepted>>
Moves == /\ UNCHANGED <<overrun, accepted>>
         /\ Promise!Open \/ Promise!Flush \/ Promise!Lose \/ Promise!Close

LEMMA StutterStep ==
    ASSUME UNCHANGED <<is_inited, output, overrun, accepted, record_index, slots>>,
           \A t \in Threads : pc'[t] = "flush_reset" <=> pc[t] = "flush_reset"
    PROVE  Stutters
  BY PendingSame DEF Stutters

LEMMA OffStep ==
    ASSUME Inv, Inv', ~is_inited, ~is_inited',
           UNCHANGED <<output, overrun, accepted>>
    PROVE  Stutters
PROOF
  <1>1. Pending = <<>> /\ Pending' = <<>>
    BY NothingBuffered DEF Inv, IndexInv
  <1>2. is_inited' = is_inited
    BY DEF Inv, TInv, TypeOK
  <1> QED
    BY <1>1, <1>2 DEF Stutters

LEMMA WriteStep ==
    ASSUME RefInv, NEW t \in Threads, BufferWrite(t), ~overrun'
    PROVE  Stutters
PROOF
  <1> USE DEF RefInv, Step, config_vars, env_vars
  <1>types. /\ pc \in [Threads -> Points]
            /\ slots \in Seq(Slot) /\ record_index \in Nat
            /\ record_index <= Len(slots)
            /\ overrun \in BOOLEAN
    BY DEF Inv, TInv, TypeOK, StoreInv
  <1>1. PICK s : slots' = PutSlot(record_index, s)
    BY DEF BufferWrite
  <1>2. /\ \A k \in 1 .. record_index : slots'[k] = slots[k]
        /\ Len(slots') \in Nat /\ Len(slots') >= Len(slots)
    BY <1>1, <1>types, PutSlotIs
  <1>3. UNCHANGED <<record_index, is_inited, output, accepted>>
    BY DEF BufferWrite
  <1>4. \A u \in Threads : pc'[u] = "flush_reset" <=> pc[u] = "flush_reset"
    BY <1>types DEF BufferWrite
  <1>5. Buffered' = Buffered
    BY <1>2, <1>3, <1>types DEF Buffered
  <1>6. Pending' = Pending
    BY <1>4, <1>5 DEF Pending
  <1>7. overrun' = overrun
    <2>1. overrun => overrun'
      BY Zenon DEF BufferWrite
    <2>2. ~overrun /\ ~overrun'
      BY <2>1
    <2>3. overrun' \in BOOLEAN
      BY Zenon DEF BufferWrite
    <2> QED
      BY <2>2, <2>3, <1>types
  <1> QED
    BY <1>3, <1>6, <1>7 DEF Stutters

LEMMA RefStep ==
    ASSUME RefInv, RefInv', [Next]_vars
    PROVE  Stutters \/ Moves \/ overrun' \/ \E t \in Threads : BufferIncr(t)
PROOF
  <1> DEFINE Same ==
        /\ UNCHANGED <<is_inited, output, overrun, accepted, record_index, slots>>
        /\ \A t \in Threads : pc'[t] = "flush_reset" <=> pc[t] = "flush_reset"
  <1>same. Same => Stutters
    BY StutterStep
  <1> HIDE DEF Same
  <1>types. pc \in [Threads -> Points]
    BY DEF RefInv, Inv, TInv, TypeOK
  <1>off. Inv /\ Inv'
    BY DEF RefInv
  <1> USE DEF Step, Returns, calm_vars, static_vars, config_vars, mutex_vars,
              local_vars, env_vars, past_vars, count_vars
  <1>1. ASSUME NEW t \in Threads,
               Lock(t) \/ Unlock(t) \/ InitMutex(t) \/ InitAlreadyInited(t)
        PROVE  Same
    BY <1>1, <1>types DEF Same, Lock, AfterLock, Unlock, InitMutex, InitAlreadyInited
  <1>2. ASSUME NEW t \in Threads,
               InitAlloc(t) \/ InitAllocFails(t) \/ InitOpenFails(t)
        PROVE  Stutters
    <2>1. /\ ~is_inited /\ ~is_inited'
          /\ UNCHANGED <<output, overrun, accepted>>
      BY <1>2, <1>off DEF Inv, ControlInv, OnInv, InitAlloc, InitAllocFails, InitOpenFails
    <2> QED
      BY <2>1, <1>off, OffStep
  <1>3. ASSUME NEW t \in Threads, InitOpen(t) PROVE Moves
    <2>1. /\ ~is_inited /\ record_index = 0 /\ record_index' = 0
          /\ is_inited' = TRUE
          /\ UNCHANGED <<output, overrun, accepted>>
      BY <1>3, <1>off DEF Inv, ControlInv, OnInv, IndexInv, InitOpen
    <2>2. Pending = <<>> /\ Pending' = <<>>
      BY <2>1, NothingBuffered
    <2> QED
      BY <2>1, <2>2 DEF Moves, Promise!Open
  <1>4. ASSUME NEW t \in Threads, BufferWrite(t) PROVE Stutters \/ overrun'
    BY <1>4, WriteStep
  <1>5. ASSUME NEW t \in Threads,
               \/ BufferNotInited(t) \/ BufferUnlock(t) \/ FlushNothing(t)
               \/ FlushCopy(t) \/ FlushSigPipe(t) \/ FlushUnlock(t)
        PROVE  Same
    BY <1>5, <1>types DEF Same, BufferNotInited, BufferUnlock, FlushNothing, FlushCopy,
                          FlushSigPipe, FlushUnlock
  <1>6. ASSUME NEW t \in Threads,
               FlushNoMemory(t) \/ FlushWrite(t) \/ FlushWriteShort(t)
        PROVE  Moves
    BY <1>6, FlushStep DEF Moves
  <1>7. ASSUME NEW t \in Threads, FlushReset(t) PROVE Stutters
    <2>1. is_inited /\ Holding(t) /\ pc[t] = "flush_reset"
      BY <1>7, <1>off DEF Inv, ControlInv, OnInv, Holding, HoldingPoints, FlushReset
    <2>2. Pending = <<>>
      BY <2>1 DEF Pending
    <2>3. record_index' = 0 /\ UNCHANGED <<is_inited, output, overrun, accepted>>
      BY <1>7 DEF FlushReset
    <2>4. Pending' = <<>>
      BY <2>3, NothingBuffered
    <2> QED
      BY <2>2, <2>3, <2>4 DEF Stutters
  <1>8. ASSUME NEW t \in Threads, ShutdownCleanup(t) PROVE Moves
    <2>1. /\ is_inited /\ is_inited' = FALSE
          /\ record_index = 0 /\ record_index' = 0
          /\ UNCHANGED <<output, overrun, accepted>>
      BY <1>8, <1>off DEF Inv, ControlInv, OnInv, IndexInv, ShutdownCleanup
    <2>2. Pending = <<>> /\ Pending' = <<>>
      BY <2>1, NothingBuffered
    <2> QED
      BY <2>1, <2>2 DEF Moves, Promise!Close
  <1>9. ASSUME NEW t \in Threads,
                \/ ShutdownNotInited(t) \/ ShutdownFlush(t) \/ ShutdownDestroy(t)
                \/ HeapAbort(t)
         PROVE  Same
    BY <1>9, <1>types DEF Same, ShutdownNotInited, ShutdownFlush, ShutdownDestroy, HeapAbort
  <1>10. ASSUME NEW t \in Threads, ClientStep(t) PROVE Same
    BY <1>10, <1>types DEF Same, ClientStep, CallInit, CallBuffer, CallFlush, CallShutdown
  <1>11. ASSUME ReaderChanges \/ ProgramOpens \/ UNCHANGED vars PROVE Same
    BY <1>11 DEF Same, ReaderChanges, ProgramOpens, Calls, vars
  <1> QED
    BY <1>same, <1>1, <1>2, <1>3, <1>4, <1>5, <1>6, <1>7, <1>8, <1>9, <1>10, <1>11
    DEF Next, LibraryStep, Terminated

LEMMA OverrunStays == TypeOK /\ [Next]_vars /\ overrun => overrun'
PROOF
  <1> SUFFICES ASSUME TypeOK, [Next]_vars, overrun PROVE overrun'
    OBVIOUS
  <1> USE DEF calm_vars, static_vars, past_vars
  <1>1. ASSUME NEW t \in Threads, BufferWrite(t) PROVE overrun'
    BY <1>1, Zenon DEF BufferWrite
  <1>2. ASSUME NEW t \in Threads, LibraryStep(t), ~BufferWrite(t) PROVE overrun'
    BY <1>2 DEF LibraryStep, Lock, Unlock, InitMutex, InitAlreadyInited,
                InitAlloc, InitAllocFails, InitOpen, InitOpenFails,
                BufferNotInited, BufferIncr, BufferUnlock, FlushNothing,
                FlushCopy, FlushNoMemory, FlushWrite, FlushWriteShort,
                FlushSigPipe, FlushReset, FlushUnlock, ShutdownNotInited,
                ShutdownFlush, ShutdownCleanup, ShutdownDestroy, HeapAbort
  <1>3. ASSUME NEW t \in Threads, ClientStep(t) PROVE overrun'
    BY <1>3 DEF ClientStep, CallInit, CallBuffer, CallFlush, CallShutdown
  <1>4. ReaderChanges \/ ProgramOpens \/ UNCHANGED vars => overrun'
    BY DEF ReaderChanges, ProgramOpens, vars
  <1> QED
    BY <1>1, <1>2, <1>3, <1>4 DEF Next, Terminated

LEMMA RefInit == Init => UsableInv /\ StoreInv /\ Promise!ALInit
PROOF
  <1> SUFFICES ASSUME Init PROVE UsableInv /\ StoreInv /\ Promise!ALInit
    OBVIOUS
  <1>1. record_index = 0
    BY DEF Init
  <1> QED
    BY <1>1, NothingBuffered DEF Init, UsableInv, StoreInv, Promise!ALInit

LEMMA RefInvariant == ClientOrder => (Spec => []RefInv)
PROOF
  <1> SUFFICES ASSUME ClientOrder PROVE Spec => []RefInv
    OBVIOUS
  <1>1. Spec => []Inv
    BY IndexInvariant, PTL DEF Inv
  <1>2. Init => UsableInv /\ StoreInv
    BY RefInit
  <1>3. Inv /\ Inv' /\ UsableInv /\ StoreInv /\ [Next]_vars => (UsableInv /\ StoreInv)'
    BY UsableNext, StoreNext
  <1> QED
    BY <1>1, <1>2, <1>3, PTL DEF Spec, RefInv

\* In a program instrumented by AddLogging, or with one thread, the logger
\* implements CallSiteLog: what was accepted is written once and in order, or
\* lost by a flush that failed, until a record is stored outside the array.
THEOREM PromiseIsKept == ClientOrder => (Spec => ImplementsCallSiteLog)
PROOF
  <1> SUFFICES ASSUME ClientOrder PROVE Spec => ImplementsCallSiteLog
    OBVIOUS
  <1>1. Init => Promise!ALInit
    BY RefInit
  <1>2. RefInv /\ RefInv' /\ [Next]_vars => [Promise!ALNext]_Promise!alvars
    <2> SUFFICES ASSUME RefInv, RefInv', [Next]_vars
                 PROVE  [Promise!ALNext]_Promise!alvars
      OBVIOUS
    <2>1. overrun => overrun'
      BY OverrunStays DEF RefInv, Inv, TInv
    <2>2. CASE Stutters
      BY <2>2 DEF Stutters, Promise!alvars
    <2>3. CASE Moves
      BY <2>1, <2>3 DEF Moves, Promise!ALNext, Promise!Promised
    <2>4. CASE overrun'
      BY <2>4 DEF Promise!ALNext
    <2>5. ASSUME NEW t \in Threads, BufferIncr(t), ~overrun' PROVE Promise!Accept
      <3>1. /\ is_inited /\ UNCHANGED <<is_inited, output>>
            /\ Pending \in Seq(Slot)
            /\ Pending' = Append(Pending, CallRecord(t))
            /\ CallRecord(t) \in Record
        BY <2>1, <2>5, AcceptStep
      <3>2. /\ Len(Pending') = Len(Pending) + 1
            /\ Pending'[Len(Pending')] = CallRecord(t)
        BY <3>1
      <3> QED
        BY <3>1, <3>2 DEF Promise!Accept
    <2> QED
      BY <2>1, <2>2, <2>3, <2>4, <2>5, RefStep DEF Promise!ALNext, Promise!Promised
  <1> QED
    BY <1>1, <1>2, RefInvariant, PTL DEF Spec, ImplementsCallSiteLog, Promise!ALSpec

\* While logging is on, and while anyone works on the records, the array is
\* allocated and output_fd is a log that the logger opened.
THEOREM ArrayAndLogAreThere == ClientOrder => (Spec => []LoggingIsUsable)
PROOF
  <1> SUFFICES ASSUME ClientOrder PROVE Spec => []LoggingIsUsable
    OBVIOUS
  <1>1. RefInv => LoggingIsUsable
    BY DEF RefInv, Inv, ControlInv, OnInv, UsableInv, LoggingIsUsable
  <1> QED
    BY <1>1, RefInvariant, PTL

-----------------------------------------------------------------------------
(* The order of the log                                                     *)

\* The log, and what will be appended to it.
Kept == output \o Pending

\* A thread that has a number for its next record and has not inserted it yet.
Calling(t) == pc[t] \in {"buffer_lock", "buffer_write", "buffer_incr"}

\* A whole record was accepted, its thread has gone on counting, and those of the
\* same thread before it have smaller numbers.
InPlace(i) ==
    /\ Kept[i] \in Record
    /\ \E a \in DOMAIN accepted : accepted[a] = Kept[i]
    /\ Kept[i].call_site_id <= calls[Kept[i].pid]
    /\ Calling(Kept[i].pid) => Kept[i].call_site_id < calls[Kept[i].pid]
    /\ \A j \in 1 .. i - 1 :
         Kept[j] # Torn /\ Kept[j].pid = Kept[i].pid
           => Kept[j].call_site_id < Kept[i].call_site_id

OrderInv ==
    ~overrun => \A i \in 1 .. Len(Kept) : Kept[i] # Torn => InPlace(i)

LEMMA KeptType ==
    ASSUME TypeOK
    PROVE  /\ output \in Seq(Slot) /\ Pending \in Seq(Slot) /\ Kept \in Seq(Slot)
           /\ Len(output) \in Nat /\ Len(Pending) \in Nat
           /\ Len(Kept) = Len(output) + Len(Pending)
           /\ \A i \in 1 .. Len(Kept) :
                Kept[i] = IF i <= Len(output) THEN output[i]
                                              ELSE Pending[i - Len(output)]
PROOF
  <1>1. Pending \in Seq(Slot)
    BY BufferedType DEF Pending
  <1>2. output \in Seq(Slot)
    BY DEF TypeOK
  <1> QED
    BY <1>1, <1>2, ConcatProperties DEF Kept

\* Without a new record, nothing moves in Kept; its end may be lost.
LEMMA KeptShrinks ==
    ASSUME TypeOK, TypeOK', Stutters \/ Moves
    PROVE  \A i \in 1 .. Len(Kept') :
             Kept'[i] = Torn \/ (i \in 1 .. Len(Kept) /\ Kept'[i] = Kept[i])
PROOF
  <1> USE KeptType
  <1>1. CASE UNCHANGED <<output, Pending>>
    BY <1>1 DEF Kept
  <1>2. CASE Promise!Flush
    <2>1. Kept' = Kept \o <<>>
      BY <1>2 DEF Kept, Promise!Flush
    <2> QED
      BY <2>1, ConcatEmptySeq
  <1>3. CASE Promise!Lose
    <2>1. PICK n \in 0 .. Len(Pending) :
            \/ output' = output \o SubSeq(Pending, 1, n)
            \/ output' = Append(output \o SubSeq(Pending, 1, n), Torn)
      BY <1>3 DEF Promise!Lose
    <2> DEFINE head == output \o SubSeq(Pending, 1, n)
    <2>2. /\ SubSeq(Pending, 1, n) \in Seq(Slot)
          /\ Len(SubSeq(Pending, 1, n)) = n
          /\ \A i \in 1 .. n : SubSeq(Pending, 1, n)[i] = Pending[i]
      OBVIOUS
    <2>3. /\ head \in Seq(Slot)
          /\ Len(head) = Len(output) + n
          /\ \A i \in 1 .. Len(head) : i \in 1 .. Len(Kept) /\ head[i] = Kept[i]
      BY <2>2
    <2> HIDE DEF head
    <2>4. Pending' = <<>>
      BY <1>3 DEF Promise!Lose
    <2>5. Kept' = output'
      BY <2>4, ConcatEmptySeq DEF Kept, TypeOK
    <2>6. CASE output' = head
      BY <2>3, <2>5, <2>6
    <2>7. CASE output' = Append(head, Torn)
      <3>1. Torn \in Slot
        BY DEF Slot
      <3>2. /\ Len(Kept') = Len(head) + 1
            /\ Kept'[Len(head) + 1] = Torn
            /\ \A i \in 1 .. Len(head) : Kept'[i] = head[i]
        BY <2>3, <2>5, <2>7, <3>1, AppendProperties
      <3>3. Len(head) \in Nat
        BY <2>3
      <3>4. \A i \in 1 .. Len(head) + 1 : i \in 1 .. Len(head) \/ i = Len(head) + 1
        BY <3>3
      <3> QED
        BY <2>3, <3>2, <3>4
    <2> QED
      BY <2>1, <2>6, <2>7 DEF head
  <1> QED
    BY <1>1, <1>2, <1>3 DEF Stutters, Moves, Promise!Open, Promise!Close

\* A thread only starts on a record by counting it.
LEMMA CallsGrow ==
    ASSUME TypeOK, [Next]_vars, NEW u \in Threads
    PROVE  \/ /\ calls'[u] = calls[u]
              /\ pc'[u] \in {"buffer_lock", "buffer_write", "buffer_incr"} => Calling(u)
           \/ calls'[u] = calls[u] + 1
PROOF
  <1> DEFINE Same == /\ UNCHANGED calls
                     /\ pc'[u] \in {"buffer_lock", "buffer_write", "buffer_incr"} =>
                          Calling(u)
  <1>types. pc \in [Threads -> Points] /\ calls \in [Threads -> Nat]
    BY DEF TypeOK
  <1> USE DEF Step, calm_vars, count_vars, Calling
  <1>1. ASSUME NEW t \in Threads,
               Lock(t) \/ Unlock(t) \/ InitMutex(t) \/ InitAlreadyInited(t)
        PROVE  Same
    BY <1>1, <1>types DEF Lock, AfterLock, Unlock, InitMutex, InitAlreadyInited
  <1>2. ASSUME NEW t \in Threads,
               InitAlloc(t) \/ InitAllocFails(t) \/ InitOpen(t) \/ InitOpenFails(t)
        PROVE  Same
    BY <1>2, <1>types DEF InitAlloc, InitAllocFails, InitOpen, InitOpenFails
  <1>3. ASSUME NEW t \in Threads,
               BufferNotInited(t) \/ BufferWrite(t) \/ BufferIncr(t) \/ BufferUnlock(t)
        PROVE  Same
    BY <1>3, <1>types DEF BufferNotInited, BufferWrite, BufferIncr, BufferUnlock
  <1>4. ASSUME NEW t \in Threads,
               FlushNothing(t) \/ FlushCopy(t) \/ FlushNoMemory(t) \/ FlushWrite(t)
        PROVE  Same
    BY <1>4, <1>types DEF FlushNothing, FlushCopy, FlushNoMemory, FlushWrite
  <1>5. ASSUME NEW t \in Threads,
               FlushWriteShort(t) \/ FlushSigPipe(t) \/ FlushReset(t) \/ FlushUnlock(t)
        PROVE  Same
    BY <1>5, <1>types DEF FlushWriteShort, FlushSigPipe, FlushReset, FlushUnlock
  <1>6. ASSUME NEW t \in Threads,
               \/ ShutdownNotInited(t) \/ ShutdownFlush(t) \/ ShutdownCleanup(t)
               \/ ShutdownDestroy(t) \/ HeapAbort(t)
        PROVE  Same
    BY <1>6, <1>types DEF ShutdownNotInited, ShutdownFlush, ShutdownCleanup,
                          ShutdownDestroy, HeapAbort
  <1>7. ASSUME NEW t \in Threads, CallInit(t) \/ CallFlush(t) \/ CallShutdown(t)
        PROVE  Same
    BY <1>7, <1>types DEF CallInit, CallFlush, CallShutdown
  <1>8. ASSUME NEW t \in Threads, CallBuffer(t), t # u PROVE Same \/ UNCHANGED <<calls[u], pc[u]>>
    BY <1>8, <1>types DEF CallBuffer
  <1>9. ASSUME CallBuffer(u) PROVE calls'[u] = calls[u] + 1
    BY <1>9, <1>types DEF CallBuffer
  <1>10. ASSUME ReaderChanges \/ ProgramOpens \/ UNCHANGED vars PROVE Same
    BY <1>10 DEF ReaderChanges, ProgramOpens, vars
  <1> QED
    BY <1>1, <1>2, <1>3, <1>4, <1>5, <1>6, <1>7, <1>8, <1>9, <1>10
    DEF Next, LibraryStep, ClientStep, Terminated

LEMMA OrderNext ==
    ASSUME RefInv, RefInv', OrderInv, [Next]_vars
    PROVE  OrderInv'
PROOF
  <1> USE DEF RefInv, Inv, TInv
  <1> SUFFICES ASSUME ~overrun', NEW i \in 1 .. Len(Kept'), Kept'[i] # Torn
               PROVE  InPlace(i)'
    BY DEF OrderInv
  <1>1. ~overrun
    BY OverrunStays
  <1>2. \A k \in 1 .. Len(Kept) : Kept[k] # Torn => InPlace(k)
    BY <1>1 DEF OrderInv
  <1>types. calls \in [Threads -> Nat] /\ accepted \in Seq(Record)
    BY DEF TypeOK
  \* What is in place stays in place, if its predecessors are still there.
  <1>3. ASSUME i \in 1 .. Len(Kept), Kept'[i] = Kept[i], InPlace(i),
               \A j \in 1 .. i - 1 : Kept'[j] = Torn \/ Kept'[j] = Kept[j],
               \A a \in DOMAIN accepted :
                 a \in DOMAIN accepted' /\ accepted'[a] = accepted[a]
        PROVE  InPlace(i)'
    <2> DEFINE r == Kept[i]
    <2>1. r.pid \in Threads /\ r.call_site_id \in Nat
      BY <1>3 DEF InPlace, Record
    <2>2. /\ r.call_site_id <= calls'[r.pid]
          /\ pc'[r.pid] \in {"buffer_lock", "buffer_write", "buffer_incr"}
               => r.call_site_id < calls'[r.pid]
      <3>1. CASE calls'[r.pid] = calls[r.pid] + 1
        BY <1>3, <2>1, <3>1, <1>types DEF InPlace
      <3>2. CASE /\ calls'[r.pid] = calls[r.pid]
                 /\ pc'[r.pid] \in {"buffer_lock", "buffer_write", "buffer_incr"}
                      => Calling(r.pid)
        BY <1>3, <2>1, <3>2 DEF InPlace
      <3> QED
        BY <2>1, <3>1, <3>2, CallsGrow
    <2>3. \E a \in DOMAIN accepted' : accepted'[a] = Kept'[i]
      BY <1>3 DEF InPlace
    <2>4. \A j \in 1 .. i - 1 :
            Kept'[j] # Torn /\ Kept'[j].pid = r.pid => Kept'[j].call_site_id < r.call_site_id
      BY <1>3 DEF InPlace
    <2> QED
      BY <1>3, <2>2, <2>3, <2>4 DEF InPlace, Calling
  <1>4. CASE Stutters \/ Moves
    <2>1. \A j \in 1 .. Len(Kept') :
            Kept'[j] = Torn \/ (j \in 1 .. Len(Kept) /\ Kept'[j] = Kept[j])
      BY <1>4, KeptShrinks
    <2>2. \A j \in 1 .. i - 1 : j \in 1 .. Len(Kept')
      BY KeptType
    <2>3. accepted' = accepted
      BY <1>4 DEF Stutters, Moves
    <2> QED
      BY <1>2, <1>3, <2>1, <2>2, <2>3
  <1>5. ASSUME NEW t \in Threads, BufferIncr(t) PROVE InPlace(i)'
    <2> DEFINE r == CallRecord(t)
    <2>1. /\ output' = output
          /\ Pending \in Seq(Slot)
          /\ Pending' = Append(Pending, r)
          /\ r \in Record
      BY <1>1, <1>5, AcceptStep
    <2>2. /\ accepted' = Append(accepted, r)
          /\ calls' = calls /\ pc[t] = "buffer_incr" /\ pc'[t] = "buffer_unlock"
      BY <1>5 DEF BufferIncr, Step, count_vars, TypeOK
    <2>3. /\ Len(Kept') = Len(Kept) + 1 /\ Len(Kept) \in Nat
          /\ Kept'[Len(Kept) + 1] = r
          /\ \A j \in 1 .. Len(Kept) : Kept'[j] = Kept[j]
      <3>1. r \in Slot
        BY <2>1 DEF Slot
      <3>2. Kept' = Append(Kept, r)
        BY <2>1, <3>1, KeptType DEF Kept
      <3> HIDE DEF r
      <3> QED
        BY <3>1, <3>2, KeptType, AppendProperties
    <2>4. /\ \A a \in DOMAIN accepted : a \in DOMAIN accepted' /\ accepted'[a] = accepted[a]
          /\ \E a \in DOMAIN accepted' : accepted'[a] = r
      <3> HIDE DEF r
      <3>1. /\ DOMAIN accepted = 1 .. Len(accepted) /\ Len(accepted) \in Nat
            /\ DOMAIN accepted' = 1 .. Len(accepted) + 1
            /\ accepted'[Len(accepted) + 1] = r
            /\ \A a \in 1 .. Len(accepted) : accepted'[a] = accepted[a]
        BY <2>1, <2>2, <1>types, AppendProperties, LenProperties
      <3> QED
        BY <3>1
    <2>5. CASE i \in 1 .. Len(Kept)
      <3>1. \A j \in 1 .. i - 1 : Kept'[j] = Kept[j]
        BY <2>3, <2>5
      <3> QED
        BY <1>2, <1>3, <2>3, <2>4, <2>5, <3>1
    <2>6. CASE i = Len(Kept) + 1
      <3>1. Kept'[i] = r /\ r.pid = t /\ r.call_site_id = calls[t]
        BY <2>3, <2>6 DEF CallRecord
      <3>2. ASSUME NEW j \in 1 .. i - 1, Kept'[j] # Torn, Kept'[j].pid = t
            PROVE  Kept'[j].call_site_id < calls[t]
        <4>1. j \in 1 .. Len(Kept) /\ Kept'[j] = Kept[j]
          BY <2>3, <2>6
        <4> QED
          BY <1>2, <2>2, <3>2, <4>1 DEF InPlace, Calling
      <3> QED
        BY <2>1, <2>2, <2>4, <3>1, <3>2, <1>types DEF InPlace, Calling
    <2> QED
      BY <2>3, <2>5, <2>6
  <1> QED
    BY <1>4, <1>5, RefStep

\* The log holds no record twice and those of each thread in the order of its
\* calls, whatever writes fail, as long as no store went outside the array.
THEOREM LogIsInOrder == ClientOrder => (Spec => []LogOrder)
PROOF
  <1> SUFFICES ASSUME ClientOrder PROVE Spec => []LogOrder
    OBVIOUS
  <1>1. Init => OrderInv
    BY RefInit DEF OrderInv, Kept, Promise!ALInit
  <1>2. RefInv /\ RefInv' /\ OrderInv /\ [Next]_vars => OrderInv'
    BY OrderNext
  <1>3. RefInv /\ OrderInv => LogOrder
    <2> SUFFICES ASSUME TypeOK, OrderInv, ~overrun, NEW i \in DOMAIN output,
                        output[i] # Torn
                 PROVE  /\ \E a \in DOMAIN accepted : accepted[a] = output[i]
                        /\ \A j \in 1 .. i - 1 :
                             output[j] # Torn /\ output[j].pid = output[i].pid
                               => output[j].call_site_id < output[i].call_site_id
      BY DEF LogOrder, RefInv, Inv, TInv
    <2>1. \A j \in 1 .. i : j \in 1 .. Len(Kept) /\ Kept[j] = output[j]
      BY KeptType
    <2>2. i \in 1 .. i /\ \A j \in 1 .. i - 1 : j \in 1 .. i
      BY KeptType
    <2>3. InPlace(i)
      BY <2>1, <2>2 DEF OrderInv
    <2> QED
      BY <2>1, <2>2, <2>3 DEF InPlace
  <1> QED
    BY <1>1, <1>2, <1>3, RefInvariant, PTL DEF Spec

-----------------------------------------------------------------------------
(* Which descriptors the library closes                                     *)

\* The configuration asks for a buffer and for one of the two output modes, and
\* what fails on the way to open() does not fail.
WellConfigured ==
    /\ \A arg \in InitArgs : arg[1] >= 1 /\ arg[2] \in {0, 1}
    /\ Faults \cap {"malloc", "path"} = {}

ModeInv == \A t \in Threads : pc[t] = "init_open" => output_mode \in {0, 1}

LEMMA ModeNext ==
    ASSUME WellConfigured, TypeOK, ModeInv, [Next]_vars
    PROVE  ModeInv'
PROOF
  <1> DEFINE Same == /\ UNCHANGED output_mode
                     /\ \A u \in Threads : pc'[u] = "init_open" => pc[u] = "init_open"
  <1>types. pc \in [Threads -> Points]
    BY DEF TypeOK
  <1>same. Same => ModeInv'
    BY DEF ModeInv
  <1> HIDE DEF Same
  <1> USE DEF Step, calm_vars, static_vars, config_vars
  <1>1. ASSUME NEW t \in Threads, InitAlloc(t) PROVE ModeInv'
    BY <1>1 DEF InitAlloc, WellConfigured, ModeInv
  <1>2. ASSUME NEW t \in Threads,
               \/ Lock(t) \/ Unlock(t) \/ InitMutex(t) \/ InitAlreadyInited(t)
               \/ InitAllocFails(t) \/ InitOpen(t) \/ InitOpenFails(t)
        PROVE  Same
    BY <1>2, <1>types DEF Same, Lock, AfterLock, Unlock, InitMutex, InitAlreadyInited,
                          InitAllocFails, InitOpen, InitOpenFails
  <1>3. ASSUME NEW t \in Threads,
               BufferNotInited(t) \/ BufferWrite(t) \/ BufferIncr(t) \/ BufferUnlock(t)
        PROVE  Same
    BY <1>3, <1>types DEF Same, BufferNotInited, BufferWrite, BufferIncr, BufferUnlock
  <1>4. ASSUME NEW t \in Threads,
               FlushNothing(t) \/ FlushCopy(t) \/ FlushNoMemory(t) \/ FlushWrite(t)
        PROVE  Same
    BY <1>4, <1>types DEF Same, FlushNothing, FlushCopy, FlushNoMemory, FlushWrite
  <1>5. ASSUME NEW t \in Threads,
               FlushWriteShort(t) \/ FlushSigPipe(t) \/ FlushReset(t) \/ FlushUnlock(t)
        PROVE  Same
    BY <1>5, <1>types DEF Same, FlushWriteShort, FlushSigPipe, FlushReset, FlushUnlock
  <1>6. ASSUME NEW t \in Threads,
               \/ ShutdownNotInited(t) \/ ShutdownFlush(t) \/ ShutdownCleanup(t)
               \/ ShutdownDestroy(t) \/ HeapAbort(t)
        PROVE  Same
    BY <1>6, <1>types DEF Same, ShutdownNotInited, ShutdownFlush, ShutdownCleanup,
                          ShutdownDestroy, HeapAbort
  <1>7. ASSUME NEW t \in Threads, ClientStep(t) PROVE Same
    BY <1>7, <1>types DEF Same, ClientStep, CallInit, CallBuffer, CallFlush, CallShutdown
  <1>8. ASSUME ReaderChanges \/ ProgramOpens \/ UNCHANGED vars PROVE Same
    BY <1>8 DEF Same, ReaderChanges, ProgramOpens, vars
  <1> QED
    BY <1>same, <1>1, <1>2, <1>3, <1>4, <1>5, <1>6, <1>7, <1>8
    DEF Next, LibraryStep, Terminated

\* The library closes no descriptor of the program, if its configuration asks for
\* a buffer and for an output that exists, and if nothing fails before open().
\* The run stdin_closed asks for no buffer, and loses descriptor 0.
THEOREM WellConfiguredKeepsDescriptors ==
    ClientOrder /\ WellConfigured => (Spec => ProgramDescriptorsKept)
PROOF
  <1> SUFFICES ASSUME ClientOrder, WellConfigured PROVE Spec => ProgramDescriptorsKept
    OBVIOUS
  <1> DEFINE Keeps == \A f \in DOMAIN fds : fds[f] = "program" => fds'[f] = "program"
  <1>1. Init => ModeInv
    BY DEF Init, ModeInv
  <1>2. TypeOK /\ ModeInv /\ [Next]_vars => ModeInv'
    BY ModeNext
  <1>3. RefInv /\ ModeInv /\ [Next]_vars => [Keeps]_vars
    <2> SUFFICES ASSUME RefInv, ModeInv, [Next]_vars PROVE Keeps \/ UNCHANGED vars
      OBVIOUS
    <2> USE DEF calm_vars, static_vars, env_vars
    <2>types. fds \in [0 .. MaxFd -> {"closed", "program", "log"}]
      BY DEF RefInv, Inv, TInv, TypeOK
    <2>1. ASSUME NEW t \in Threads, InitAllocFails(t) PROVE FALSE
      <3>1. \A arg \in InitArgs : arg[1] \in Int
        BY ClientAssumption
      <3>2. PICK arg \in InitArgs :
              arg[1] < 1 \/ (arg[1] >= 1 /\ "malloc" \in Faults)
        BY <2>1 DEF InitAllocFails
      <3> QED
        BY <3>1, <3>2 DEF WellConfigured
    <2>2. ASSUME NEW t \in Threads, InitOpen(t) \/ ProgramOpens PROVE Keeps
      <3>1. PICK fd \in NextFd, what \in {"log", "program"} : fds' = [fds EXCEPT ![fd] = what]
        BY <2>2 DEF InitOpen, ProgramOpens
      <3>2. fds[fd] = "closed"
        BY DEF NextFd, FreeFds
      <3> QED
        BY <3>1, <3>2, <2>types
    <2>3. ASSUME NEW t \in Threads, InitOpenFails(t) PROVE Keeps
      <3>1. FailedFds \subseteq {-1}
        BY <2>3 DEF InitOpenFails, Step, ModeInv, WellConfigured, FailedFds
      <3> QED
        BY <2>3, <3>1 DEF InitOpenFails, DoCleanup
    <2>4. ASSUME NEW t \in Threads, ShutdownCleanup(t) PROVE Keeps
      <3>1. OutputTarget = "log"
        BY <2>4 DEF ShutdownCleanup, Step, RefInv, Inv, ControlInv, OnInv, UsableInv
      <3> QED
        BY <2>4, <2>types, <3>1 DEF ShutdownCleanup, DoCleanup, OutputTarget
    <2>5. ASSUME NEW t \in Threads, LibraryStep(t), ~InitAllocFails(t), ~InitOpen(t),
                 ~InitOpenFails(t), ~ShutdownCleanup(t)
          PROVE  UNCHANGED fds
      BY <2>5 DEF LibraryStep, Lock, Unlock, InitMutex, InitAlreadyInited,
                  InitAlloc, BufferNotInited, BufferWrite, BufferIncr, BufferUnlock,
                  FlushNothing, FlushCopy, FlushNoMemory, FlushWrite, FlushWriteShort,
                  FlushSigPipe, FlushReset, FlushUnlock, ShutdownNotInited,
                  ShutdownFlush, ShutdownDestroy, HeapAbort
    <2>6. ASSUME NEW t \in Threads, ClientStep(t) PROVE UNCHANGED fds
      BY <2>6 DEF ClientStep, CallInit, CallBuffer, CallFlush, CallShutdown
    <2>7. ReaderChanges => UNCHANGED fds
      BY DEF ReaderChanges
    <2> QED
      BY <2>1, <2>2, <2>3, <2>4, <2>5, <2>6, <2>7, ThreadsAssumption DEF Next, Terminated
  <1>4. RefInv => TypeOK
    BY DEF RefInv, Inv, TInv
  <1> QED
    BY <1>1, <1>2, <1>3, <1>4, RefInvariant, PTL DEF Spec, ProgramDescriptorsKept
=============================================================================
