---------------------------- MODULE AuditLogProps ----------------------------
(***************************************************************************)
(* What holds of a log that several processes share, and of its reader.    *)
(***************************************************************************)
EXTENDS AuditLog

Statuses == Live \cup {"unborn", "returned", "dead"}

\* The variables have their types.
TypeOK ==
    /\ setting \in Settings
    /\ status \in [Process -> Statuses]
    /\ desc \in [Process -> Process]
    /\ tid \in [Process -> [Thread -> Id \cup {None}]]
    /\ buffer \in [Process -> Seq(Record)]
    /\ pc \in [Process -> {"out", "lock", "write", "unlock"}]
    /\ todo \in [Process -> Seq(Half)]
    /\ flock \in Process \cup {None}
    /\ log \in Seq(Half)
    /\ offset \in 0 .. Len(log)
    /\ reader \in {"reads", "ended", "invalid"}
    /\ printed \in Seq(Seq(Half))
    /\ calls \in [Process -> Nat]
    /\ lineage \in [Process -> SUBSET Process]
    /\ copied \subseteq Record
    /\ dropped \subseteq Half
    /\ cuts \subseteq 1 .. Len(log)

-----------------------------------------------------------------------------
(* The log                                                                 *)

SharedBy(p) == {q \in Process \ {p} : status[q] # "unborn" /\ desc[q] = desc[p]}
Forked == \E p \in Process : SharedBy(p) # {}

\* Writes to a pipe that are too large for it, by processes that a fork gave
\* the same description, are not kept apart by anything.
MayMix == setting.mode = "pipe" /\ 2 * setting.max_records > AtomicHalves /\ Forked

\* Position i holds the first half of a record, and i + 1 its second one.
WholeAt(i) ==
    /\ log[i].half = 1
    /\ i < Len(log)
    /\ log[i + 1] = [log[i] EXCEPT !.half = 2]

\* A record whose writer is still at it.
BeingWritten(i) ==
    LET p == log[i].writer
    IN  i = Len(log) /\ pc[p] = "write" /\ todo[p] # <<>>
          /\ Head(todo[p]) = [log[i] EXCEPT !.half = 2]

\* Nothing comes between the two halves of a record, whichever processes write
\* at the same time, unless its writer stopped there.
RecordsAreWhole ==
    MayMix \/ \A i \in DOMAIN log :
        log[i].half = 1 => WholeAt(i) \/ BeingWritten(i) \/ i \in cuts

\* No record is in the log twice, unless it was in the buffer of a process
\* that forked; and then each of the processes has written it once.
NoDuplicates ==
    \A i, j \in DOMAIN log :
        i # j /\ log[i].record = log[j].record /\ log[i].half = log[j].half =>
            log[i].record \in copied /\ log[i].writer # log[j].writer

\* Each process writes its records in the order of its calls.
InOrder ==
    \A i, j \in DOMAIN log :
        i < j /\ log[i].writer = log[j].writer
              /\ log[i].record.by = log[j].record.by =>
            \/ log[i].record.n < log[j].record.n
            \/ log[i].record = log[j].record /\ log[i].half < log[j].half

\* The id in a record is that of a thread, of the process that executed the
\* call-site or of one that it descends from; and two records of a process show
\* the same id exactly when the same thread executed them.
PidTellsThreads ==
    \A i, j \in DOMAIN log :
        LET r == log[i].record
            s == log[j].record
        IN  /\ r.pid[1] \in lineage[r.by]
            /\ r.by = s.by => (r.pid = s.pid <=> r.thread = s.thread)

\* The documents: a record shows the process that executed the call-site.  The
\* id of a process is that of its main thread.
PidIsProcess ==
    \A i \in DOMAIN log : log[i].record.pid = <<log[i].record.by, Main>>

\* Once the main of a program has returned, every call-site that it executed
\* is in the log, unless a write of its own failed; whatever forks, kills and
\* failed writes of other processes there were.
ReturnedIsLogged ==
    \A p \in Process : status[p] = "returned" =>
        \A n \in 1 .. calls[p] :
            \/ \E d \in dropped : d.writer = p /\ d.record.by = p /\ d.record.n = n
            \/ \A h \in {1, 2} : \E i \in DOMAIN log :
                 log[i].record.by = p /\ log[i].record.n = n /\ log[i].half = h

-----------------------------------------------------------------------------
(* The lock                                                                *)

\* Writers exclude each other, except that a process that shares its
\* description with another one neither waits for it nor keeps its lock when
\* the other one unlocks.
FlockExcludes ==
    \A p, q \in Process :
        p # q /\ pc[p] \in {"write", "unlock"} /\ pc[q] \in {"write", "unlock"} =>
            SharedBy(p) # {} \/ SharedBy(q) # {}

\* The lock is held, and nobody is going to unlock it: its process ended in the middle,
\* and a child has the description open.
Abandoned ==
    /\ flock # None
    /\ \A p \in Process : desc[p] = flock => pc[p] \notin {"write", "unlock"}
    /\ \E p, q \in Process : /\ p # q /\ desc[p] = flock /\ desc[q] = flock
                             /\ status[p] = "dead"
                             /\ status[q] \in Live

\* Whoever has the lock is in a write to a full pipe, which a reader has open
\* and does not read.
HeldByFullPipe ==
    /\ setting.mode = "pipe"
    /\ reader = "reads"
    /\ \E p \in Process : /\ desc[p] = flock
                          /\ pc[p] = "write"
                          /\ \A n \in 1 .. Len(todo[p]) : ~MayWrite(p, n)

\* A process waits for ever only for a lock that was abandoned, or that is held
\* over a write to a pipe that stays full.
NobodyWaitsForEver ==
    \A p \in Process :
        <>[](pc[p] = "lock") => <>[]Abandoned \/ <>[]HeldByFullPipe

-----------------------------------------------------------------------------
(* The reader                                                              *)

IsRecord(pair) ==
    /\ Len(pair) = 2
    /\ pair[1].half = 1
    /\ pair[2] = [pair[1] EXCEPT !.half = 2]

\* What the reader prints are records that were logged, until somebody left
\* half a record behind: after that it has no way to find the next record.
ReaderIsRight ==
    MayMix \/ \A k \in DOMAIN printed :
        IsRecord(printed[k]) \/ \E i \in cuts : i <= 2 * k - 1

\* It reports an invalid number of bytes only when it came upon a record that
\* is being written, or the log is no multiple of a record after a cut.
InvalidIsReal ==
    [][reader' = "invalid" /\ reader # "invalid" =>
         \/ MayMix
         \/ cuts # {}
         \/ \E p \in Process : InProgress(p)]_vars
=============================================================================
