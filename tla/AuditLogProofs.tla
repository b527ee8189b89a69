--------------------------- MODULE AuditLogProofs ---------------------------
(***************************************************************************)
(* Theorems about the shared log, for any programs, processes, sizes and   *)
(* faults: the types, whom the lock keeps apart, what the thread id in a   *)
(* record says, and that no record is torn by another one.                 *)
(***************************************************************************)
EXTENDS AuditLogProps, TLAPS

\* The second half of a record is only written after the first one.
HalfInLog ==
    \A p \in Process : todo[p] # <<>> /\ todo[p][1].half = 2 => Len(log) > 0

TInv == TypeOK /\ HalfInLog

-----------------------------------------------------------------------------
(* Types                                                                   *)

LEMMA HalvesType ==
    ASSUME NEW p \in Process, buffer[p] \in Seq(Record)
    PROVE  /\ Halves(p) \in Seq(Half)
           /\ Len(Halves(p)) = 2 * Len(buffer[p])
           /\ Halves(p) # <<>> => Halves(p)[1].half = 1
           /\ \A i \in 1 .. Len(Halves(p)) :
                /\ (i + 1) \div 2 \in 1 .. Len(buffer[p])
                /\ Halves(p)[i].record = buffer[p][(i + 1) \div 2]
                /\ Halves(p)[i].writer = p
  <1> DEFINE m == 2 * Len(buffer[p])
  <1>1. m \in Nat
    OBVIOUS
  <1>2. ASSUME NEW i \in 1 .. m PROVE (i + 1) \div 2 \in 1 .. Len(buffer[p])
    BY <1>1
  <1>3. ASSUME NEW i \in 1 .. m
        PROVE [record |-> buffer[p][(i + 1) \div 2],
               half   |-> IF i % 2 = 1 THEN 1 ELSE 2,
               writer |-> p] \in Half
    BY <1>2 DEF Half
  <1> QED
    BY <1>1, <1>2, <1>3 DEF Halves

\* A write takes the first of what is left to write.
LEMMA SplitTodo ==
    ASSUME NEW S, NEW s \in Seq(S), NEW t \in Seq(S), NEW n \in 1 .. Len(s)
    PROVE  /\ SubSeq(s, n + 1, Len(s)) \in Seq(S)
           /\ n < Len(s) => /\ SubSeq(s, n + 1, Len(s)) # <<>>
                            /\ Head(SubSeq(s, n + 1, Len(s))) = s[n + 1]
           /\ t \o SubSeq(s, 1, n) \in Seq(S)
           /\ Len(t \o SubSeq(s, 1, n)) = Len(t) + n
           /\ \A i \in 1 .. Len(SubSeq(s, n + 1, Len(s))) :
                SubSeq(s, n + 1, Len(s))[i] = s[i + n] /\ i + n \in 1 .. Len(s)
           /\ \A i \in 1 .. Len(t \o SubSeq(s, 1, n)) :
                IF i <= Len(t) THEN (t \o SubSeq(s, 1, n))[i] = t[i]
                ELSE (t \o SubSeq(s, 1, n))[i] = s[i - Len(t)] /\ i - Len(t) \in 1 .. Len(s)
  <1> DEFINE rest == SubSeq(s, n + 1, Len(s))
             first == SubSeq(s, 1, n)
  <1>1. rest \in Seq(S) /\ Len(rest) = Len(s) - n
    OBVIOUS
  <1>2. \A i \in 1 .. Len(rest) : rest[i] = s[i + n] /\ i + n \in 1 .. Len(s)
    OBVIOUS
  <1>3. n < Len(s) => rest # <<>> /\ Head(rest) = s[n + 1]
    <2> SUFFICES ASSUME n < Len(s) PROVE rest # <<>> /\ Head(rest) = s[n + 1]
      OBVIOUS
    <2>1. Len(rest) \in Nat \ {0} /\ 1 \in 1 .. Len(rest)
      BY <1>1
    <2>2. rest # <<>> /\ Head(rest) = rest[1]
      <3> HIDE DEF rest
      <3> QED
        BY <1>1, <2>1
    <2> QED
      BY <1>2, <2>1, <2>2
  <1>4. /\ t \o first \in Seq(S)
        /\ Len(t \o first) = Len(t) + n
        /\ \A i \in 1 .. Len(t \o first) :
             IF i <= Len(t) THEN (t \o first)[i] = t[i]
             ELSE (t \o first)[i] = s[i - Len(t)] /\ i - Len(t) \in 1 .. Len(s)
    OBVIOUS
  <1> QED
    BY <1>1, <1>2, <1>3, <1>4

LEMMA CutByType ==
    ASSUME TInv, NEW p \in Process
    PROVE  CutBy(p) \subseteq 1 .. Len(log)
  <1>1. Len(log) \in Nat /\ cuts \subseteq 1 .. Len(log)
    BY DEF TInv, TypeOK
  <1>2. CASE CutBy(p) = cuts
    BY <1>1, <1>2
  <1>3. CASE CutBy(p) # cuts
    <2>1. CutBy(p) = cuts \cup {Len(log)} /\ todo[p] # <<>> /\ todo[p][1].half = 2
      BY <1>3 DEF CutBy
    <2>2. Len(log) > 0
      BY <2>1 DEF TInv, HalfInLog
    <2>3. Len(log) \in 1 .. Len(log)
      BY <1>1, <2>2
    <2>4. CutBy(p) = cuts \cup {Len(log)}
      BY <2>1
    <2> HIDE DEF CutBy
    <2> QED
      BY <1>1, <2>3, <2>4
  <1> QED
    BY <1>2, <1>3

LEMMA TypeInit == Init => TInv
  <1> SUFFICES ASSUME Init PROVE TInv
    OBVIOUS
  <1>1. setting \in Setting /\ setting.started \subseteq Process
    BY SettingsAssumption DEF Init, Setting, Process
  <1> QED
    BY <1>1 DEF Init, TInv, TypeOK, HalfInLog, Statuses, Live

LEMMA TypeStep == TInv /\ [Next]_vars => TInv'
  <1> SUFFICES ASSUME TInv, [Next]_vars PROVE TInv'
    OBVIOUS
  <1> USE DEF TInv, TypeOK, HalfInLog, Statuses, Live
  <1>1. ASSUME NEW p \in Process, NEW t \in Thread, Call(p, t) PROVE TInv'
    <2>1. ThreadId(p, t) \in Id
      BY DEF ThreadId, Id
    <2>0. tid' \in [Process -> [Thread -> Id \cup {None}]]
      BY <1>1, <2>1 DEF Call
    <2>2. NewRecord(p, t) \in Record
      BY <2>1 DEF NewRecord, Record
    <2>3. buffer' \in [Process -> Seq(Record)]
      BY <1>1, <2>2 DEF Call
    <2>4. pc' \in [Process -> {"out", "lock", "write", "unlock"}]
      BY <1>1 DEF Call, Goes
    <2>5. calls' \in [Process -> Nat]
      BY <1>1 DEF Call
    <2> QED
      BY <1>1, <2>0, <2>3, <2>4, <2>5 DEF Call, reader_vars
  <1>2. ASSUME NEW p \in Process, Lock(p) PROVE TInv'
    <2>1. todo' \in [Process -> Seq(Half)]
      BY <1>2, HalvesType DEF Lock
    <2>2. \A q \in Process : todo'[q] = todo[q] \/ todo'[q] = <<>> \/ todo'[q][1].half = 1
      BY <1>2, HalvesType DEF Lock
    <2>3. log' = log
      BY <1>2 DEF Lock
    <2>4. HalfInLog'
      <3>1. ASSUME NEW q \in Process, todo'[q] # <<>>, todo'[q][1].half = 2 PROVE Len(log) > 0
        <4>1. todo'[q] = todo[q]
          BY <2>2, <3>1
        <4> QED
          BY <3>1, <4>1
      <3> QED
        BY <2>3, <3>1
    <2>5. pc' \in [Process -> {"out", "lock", "write", "unlock"}]
      BY <1>2 DEF Lock, Goes
    <2>6. flock' \in Process \cup {None}
      BY <1>2 DEF Lock, LockFree
    <2> QED
      BY <1>2, <2>1, <2>3, <2>4, <2>5, <2>6 DEF Lock, process_vars, reader_vars, past_vars
  <1>3. ASSUME NEW p \in Process, Write(p) PROVE TInv'
    <2>1. PICK n \in 1 .. Len(todo[p]) :
            /\ log' = log \o SubSeq(todo[p], 1, n)
            /\ todo' = [todo EXCEPT ![p] = SubSeq(@, n + 1, Len(@))]
      BY <1>3 DEF Write
    <2>2. log' \in Seq(Half) /\ Len(log') = Len(log) + n
      BY <2>1, SplitTodo
    <2>3. todo' \in [Process -> Seq(Half)]
      BY <2>1, SplitTodo
    <2>4. n \in Nat \ {0} /\ Len(log) \in Nat
      OBVIOUS
    <2>5. HalfInLog'
      BY <2>2, <2>4
    <2>6. pc' \in [Process -> {"out", "lock", "write", "unlock"}]
      BY <1>3 DEF Write
    <2>7. offset' \in 0 .. Len(log') /\ cuts' \subseteq 1 .. Len(log')
      BY <1>3, <2>2, <2>4 DEF Write, reader_vars, past_vars
    <2> QED
      BY <1>3, <2>2, <2>3, <2>4, <2>5, <2>6, <2>7 DEF Write, process_vars, reader_vars, past_vars
  <1>4. ASSUME NEW p \in Process, WriteFails(p) PROVE TInv'
    <2>1. ToSet(todo[p]) \subseteq Half
      BY DEF ToSet
    <2>2. todo' \in [Process -> Seq(Half)]
      BY <1>4 DEF WriteFails
    <2> QED
      BY <1>4, <2>1, <2>2, CutByType DEF WriteFails, Goes, process_vars, reader_vars
  <1>5. ASSUME NEW p \in Process, Unlock(p) PROVE TInv'
    BY <1>5 DEF Unlock, Goes, EmptyBuffer, Unlocked, reader_vars, past_vars
  <1>6. ASSUME NEW p \in Process, Return(p) PROVE TInv'
    <2>1. status' \in [Process -> Statuses] /\ flock' \in Process \cup {None}
      BY <1>6 DEF Return, Closed, flush_vars
    <2>2. pc' \in [Process -> {"out", "lock", "write", "unlock"}] /\ UNCHANGED todo
      BY <1>6 DEF Return, flush_vars
    <2> QED
      BY <1>6, <2>1, <2>2 DEF Return, reader_vars, past_vars
  <1>7. ASSUME NEW p \in Process, Ends(p) PROVE TInv'
    BY <1>7, CutByType DEF Ends, Closed, reader_vars
  <1>8. ASSUME NEW p \in Process, NEW t \in Thread, NEW c \in Process, Fork(p, t, c) PROVE TInv'
    <2>1. ToSet(buffer[p]) \subseteq Record
      BY DEF ToSet
    <2>2. tid' \in [Process -> [Thread -> Id \cup {None}]]
      BY <1>8 DEF Fork
    <2> QED
      BY <1>8, <2>1, <2>2 DEF Fork, flush_vars, reader_vars
  <1>9. ASSUME Read PROVE TInv'
    <2>1. PICK n \in 0 .. 2 :
            /\ n = IF Len(log) - offset < 2 THEN Len(log) - offset ELSE 2
            /\ offset' = offset + n
            /\ reader' = ReaderNext(n)
            /\ printed' = IF n = 2 THEN Append(printed, SubSeq(log, offset + 1, offset + 2))
                                   ELSE printed
      BY <1>9 DEF Read
    <2>2. SubSeq(log, offset + 1, offset + 2) \in Seq(Half) \/ n # 2
      BY <2>1
    <2>3. printed' \in Seq(Seq(Half))
      BY <2>1, <2>2
    <2>4. offset' \in 0 .. Len(log)
      BY <2>1
    <2>5. reader' \in {"reads", "ended", "invalid"}
      BY <2>1 DEF ReaderNext
    <2> QED
      BY <1>9, <2>3, <2>4, <2>5 DEF Read, process_vars, flush_vars, past_vars
  <1>10. ASSUME ReadEnough PROVE TInv'
    BY <1>10 DEF ReadEnough, process_vars, flush_vars, past_vars
  <1>11. ASSUME UNCHANGED vars PROVE TInv'
    BY <1>11 DEF vars, process_vars, flush_vars, reader_vars, past_vars
  <1> QED
    BY <1>1, <1>2, <1>3, <1>4, <1>5, <1>6, <1>7, <1>8, <1>9, <1>10, <1>11
       DEF Next, Flush, Die, SigPipe, Process

\* The variables of the shared log have their types; above all, a cut is a
\* position in the log, for nobody stops between the halves of a record that is
\* not there.
THEOREM TypeCorrect == Spec => []TypeOK
  <1>1. TInv => TypeOK
    BY DEF TInv
  <1> QED
    BY <1>1, TypeInit, TypeStep, PTL DEF Spec

-----------------------------------------------------------------------------
(* The lock                                                                *)

\* A process that writes has the lock, or shares its description with another
\* one; and it has been started.
HasLock ==
    \A p \in Process :
        /\ pc[p] # "out" => status[p] # "unborn"
        /\ pc[p] \in {"write", "unlock"} => flock = desc[p] \/ SharedBy(p) # {}

\* A description stays shared.
LEMMA SharedStays ==
    ASSUME TypeOK, NEW p \in Process, SharedBy(p) # {}, status[p] # "unborn",
           \A q \in Process : status[q] # "unborn" => status'[q] # "unborn" /\ desc'[q] = desc[q]
    PROVE  SharedBy(p)' # {}
  <1>1. PICK q \in Process \ {p} : status[q] # "unborn" /\ desc[q] = desc[p]
    BY DEF SharedBy
  <1>2. q \in SharedBy(p)'
    BY <1>1 DEF SharedBy
  <1> QED
    BY <1>2

\* No step takes the lock of another description.
LEMMA LockKept ==
    ASSUME TypeOK, HasLock, NEW p \in Process, pc[p] \in {"write", "unlock"},
           \A q \in Process : status[q] # "unborn" => status'[q] # "unborn" /\ desc'[q] = desc[q],
           flock' = flock \/ \E q \in Process \ {p} : status[q] # "unborn" /\ desc[q] = flock
    PROVE  flock' = desc'[p] \/ SharedBy(p)' # {}
  <1>1. status[p] # "unborn"
    BY DEF HasLock
  <1>2. CASE SharedBy(p) # {}
    BY <1>1, <1>2, SharedStays
  <1>3. CASE SharedBy(p) = {} /\ flock' # flock
    BY <1>3 DEF HasLock, SharedBy
  <1>4. CASE SharedBy(p) = {} /\ flock' = flock
    BY <1>1, <1>4 DEF HasLock
  <1> QED
    BY <1>2, <1>3, <1>4

LEMMA LockInit == Init => HasLock
  BY DEF Init, HasLock

LEMMA LockStep == TypeOK /\ HasLock /\ [Next]_vars => HasLock'
  <1> SUFFICES ASSUME TypeOK, HasLock, [Next]_vars PROVE HasLock'
    OBVIOUS
  <1>0. None \notin Process
    BY ProcessAssumption
  <1> DEFINE Stay == \A q \in Process :
                      status[q] # "unborn" => status'[q] # "unborn" /\ desc'[q] = desc[q]
  <1> USE DEF TypeOK
  <1>1. ASSUME NEW p \in Process, NEW t \in Thread, Call(p, t) PROVE HasLock'
    BY <1>1, LockKept DEF Call, Goes, HasLock
  <1>2. ASSUME NEW p \in Process, Lock(p) PROVE HasLock'
    <2>1. ASSUME NEW q \in Process, q # p, pc[q] \in {"write", "unlock"}
          PROVE  flock' = desc'[q] \/ SharedBy(q)' # {}
      <3>1. flock = desc[q] \/ SharedBy(q) # {}
        BY <2>1 DEF HasLock
      <3>2. flock \in {None, desc[p]} /\ flock' = desc[p] /\ desc' = desc
        BY <1>2 DEF Lock, LockFree, process_vars
      <3>3. SharedBy(q)' = SharedBy(q)
        BY <1>2 DEF Lock, SharedBy, process_vars
      <3>4. desc[q] # None
        BY <1>0
      <3> QED
        BY <3>1, <3>2, <3>3, <3>4
    <2> QED
      BY <1>2, <2>1 DEF Lock, Goes, HasLock, process_vars
  <1>3. ASSUME NEW p \in Process, Write(p) \/ WriteFails(p) PROVE HasLock'
    <2>1. Stay /\ flock' = flock
      BY <1>3 DEF Write, WriteFails, process_vars
    <2>2. pc[p] = "write" /\ \A q \in Process \ {p} : pc'[q] = pc[q]
      BY <1>3 DEF Write, WriteFails, Goes
    <2> QED
      BY <2>1, <2>2, LockKept DEF HasLock
  <1>4. ASSUME NEW p \in Process, status[p] # "unborn", Unlock(p) \/ Return(p) \/ Ends(p)
        PROVE  HasLock'
    <2>1. Stay
      BY <1>4 DEF Unlock, Return, Ends
    <2>2. /\ flock' = flock \/ flock = desc[p]
          /\ pc'[p] \in {"out", "lock"}
          /\ \A q \in Process \ {p} : pc'[q] = pc[q]
      <3>1. CASE Unlock(p)
        BY <3>1 DEF Unlock, Goes, Unlocked
      <3>2. CASE Return(p)
        BY <3>2 DEF Return, Closed, flush_vars
      <3>3. CASE Ends(p)
        BY <3>3 DEF Ends, Closed
      <3> QED
        BY <1>4, <3>1, <3>2, <3>3
    <2>3. ASSUME NEW q \in Process \ {p}, pc'[q] \in {"write", "unlock"}
          PROVE  flock' = desc'[q] \/ SharedBy(q)' # {}
      BY <1>4, <2>1, <2>2, <2>3, LockKept
    <2> QED
      BY <1>4, <2>1, <2>2, <2>3 DEF HasLock
  <1>5. ASSUME NEW p \in Process, NEW t \in Thread, NEW c \in Process, Fork(p, t, c) PROVE HasLock'
    <2>1. Stay /\ flock' = flock /\ pc' = pc /\ pc[c] = "out"
      BY <1>5 DEF Fork, flush_vars, HasLock
    <2> QED
      BY <2>1, LockKept DEF HasLock
  <1>6. ASSUME Read \/ ReadEnough \/ UNCHANGED vars PROVE HasLock'
    BY <1>6 DEF Read, ReadEnough, vars, process_vars, flush_vars, HasLock, SharedBy
  <1>7. ASSUME NEW p \in Process, Unlock(p) \/ Return(p) \/ Die(p) \/ SigPipe(p)
        PROVE  HasLock'
    <2>1. status[p] # "unborn"
      BY <1>7 DEF Unlock, Return, Die, SigPipe, Goes, HasLock, Live
    <2> QED
      BY <1>4, <1>7, <2>1 DEF Die, SigPipe
  <1> QED
    BY <1>1, <1>2, <1>3, <1>5, <1>6, <1>7 DEF Next, Flush, Process

\* Two processes only write at the same time when one of them shares its open
\* file description, for flock would not keep them apart then: with any number
\* of programs, forks and kills.
THEOREM LockExcludes == Spec => []FlockExcludes
  <1>1. TypeOK /\ HasLock => FlockExcludes
    BY DEF HasLock, FlockExcludes, SharedBy
  <1>2. HasLock /\ TInv /\ TInv' /\ [Next]_vars => HasLock'
    BY LockStep DEF TInv
  <1>3. TInv => TypeOK
    BY DEF TInv
  <1> QED
    BY <1>1, <1>2, <1>3, LockInit, TypeInit, TypeStep, PTL DEF Spec

-----------------------------------------------------------------------------
(* The thread id in a record                                               *)

\* An id that a thread has cached is its own, or was that of a thread in another
\* process that this one descends from; and nobody descends from what is not
\* started.
Cached ==
    \A p \in Process, t \in Thread : tid[p][t] # None =>
        /\ tid[p][t][1] \in lineage[p]
        /\ tid[p][t] = <<p, t>> \/ (t = Main /\ tid[p][t][1] # p)
Descent ==
    \A p \in Process :
        /\ p \in lineage[p]
        /\ \A c \in Process : status[c] = "unborn" /\ c # p => c \notin lineage[p]

\* The thread that made a record has the id of the record cached.
Owned(r) == status[r.by] # "unborn" /\ tid[r.by][r.thread] = r.pid
OwnedAfter(r) == status'[r.by] # "unborn" /\ tid'[r.by][r.thread] = r.pid
AllOwned(records) == \A i \in 1 .. Len(records) : Owned(records[i])
AllHalvesOwned(halves) == \A i \in 1 .. Len(halves) : Owned(halves[i].record)

\* A record keeps its owner on its way from a buffer to the log.
OwnersKept ==
    /\ \A p \in Process : AllOwned(buffer[p]) /\ AllHalvesOwned(todo[p])
    /\ AllHalvesOwned(log)

LEMMA CachedInit == Init => Cached /\ Descent
  BY DEF Init, Cached, Descent

LEMMA CachedStep == TypeOK /\ Cached /\ Descent /\ [Next]_vars => Cached' /\ Descent'
  <1> SUFFICES ASSUME TypeOK, Cached, Descent, [Next]_vars PROVE Cached' /\ Descent'
    OBVIOUS
  <1>0. /\ tid \in [Process -> [Thread -> Id \cup {None}]]
        /\ lineage \in [Process -> SUBSET Process]
        /\ status \in [Process -> Statuses]
    BY DEF TypeOK
  <1>1. ASSUME NEW p \in Process, NEW t \in Thread, Call(p, t) PROVE Cached' /\ Descent'
    <2>1. /\ UNCHANGED <<status, lineage>>
          /\ tid' = [tid EXCEPT ![p][t] = ThreadId(p, t)]
      BY <1>1 DEF Call
    <2>2. ThreadId(p, t) = tid[p][t] \/ (tid[p][t] = None /\ ThreadId(p, t) = <<p, t>>)
      BY DEF ThreadId
    <2> QED
      BY <1>0, <2>1, <2>2 DEF Cached, Descent
  <1>2. ASSUME NEW p \in Process, NEW t \in Thread, NEW c \in Process, Fork(p, t, c)
        PROVE  Cached' /\ Descent'
    <2>1. /\ status[p] = "running" /\ status[c] = "unborn"
          /\ status' = [status EXCEPT ![c] = IF pc[p] = "out" THEN "running" ELSE "stuck"]
          /\ tid' = [tid EXCEPT ![c] = [u \in Thread |-> IF u = Main THEN tid[p][t] ELSE None]]
          /\ lineage' = [lineage EXCEPT ![c] = @ \cup lineage[p]]
      BY <1>2 DEF Fork
    <2>2. p # c /\ c \notin lineage[p]
      BY <2>1 DEF Descent
    <2>3. Descent'
      BY <1>0, <2>1, <2>2 DEF Descent
    <2>4. tid[p][t] # None => tid[p][t][1] \in lineage[p]
      BY DEF Cached
    <2>5. ASSUME NEW u \in Thread, tid'[c][u] # None
          PROVE  /\ tid'[c][u][1] \in lineage'[c]
                 /\ u = Main /\ tid'[c][u][1] # c
      BY <1>0, <2>1, <2>2, <2>4, <2>5
    <2>6. \A q \in Process : q # c => tid'[q] = tid[q] /\ lineage'[q] = lineage[q]
      BY <1>0, <2>1
    <2> QED
      BY <2>3, <2>5, <2>6 DEF Cached
  <1>3. CASE /\ UNCHANGED <<tid, lineage>>
             /\ \A c \in Process : status'[c] = "unborn" => status[c] = "unborn"
    BY <1>3 DEF Cached, Descent
  <1>4. ASSUME NEW p \in Process,
               Lock(p) \/ Write(p) \/ WriteFails(p) \/ Unlock(p) \/ Return(p) \/ Ends(p)
        PROVE  /\ UNCHANGED <<tid, lineage>>
               /\ \A c \in Process : status'[c] = "unborn" => status[c] = "unborn"
    BY <1>0, <1>4
       DEF Lock, Write, WriteFails, Unlock, Return, Ends, process_vars, past_vars
  <1>5. ASSUME Read \/ ReadEnough \/ UNCHANGED vars
        PROVE  UNCHANGED <<tid, lineage, status>>
    BY <1>5 DEF Read, ReadEnough, vars, process_vars, past_vars
  <1> QED
    BY <1>1, <1>2, <1>3, <1>4, <1>5 DEF Next, Flush, Die, SigPipe, Process

\* The thread that made a record keeps its id.
LEMMA OwnedStays ==
    ASSUME TypeOK, [Next]_vars, NEW r \in Record, Owned(r)
    PROVE  OwnedAfter(r)
  <1>0. /\ tid \in [Process -> [Thread -> Id \cup {None}]]
        /\ status \in [Process -> Statuses]
        /\ r.by \in Process /\ r.thread \in Thread /\ r.pid # None
        /\ status[r.by] # "unborn" /\ tid[r.by][r.thread] = r.pid
    BY ProcessAssumption DEF TypeOK, Record, Owned
  <1>1. ASSUME NEW p \in Process, NEW t \in Thread, Call(p, t) PROVE OwnedAfter(r)
    <2>1. UNCHANGED status /\ tid' = [tid EXCEPT ![p][t] = ThreadId(p, t)]
      BY <1>1 DEF Call
    <2>2. tid[p][t] # None => ThreadId(p, t) = tid[p][t]
      BY DEF ThreadId
    <2> QED
      BY <1>0, <2>1, <2>2 DEF OwnedAfter
  <1>2. ASSUME NEW p \in Process, NEW t \in Thread, NEW c \in Process, Fork(p, t, c)
        PROVE  OwnedAfter(r)
    <2>1. \A q \in Process : q # c => tid'[q] = tid[q] /\ status'[q] = status[q]
      BY <1>0, <1>2 DEF Fork
    <2>2. r.by # c
      BY <1>0, <1>2 DEF Fork
    <2> QED
      BY <1>0, <2>1, <2>2 DEF OwnedAfter
  <1>3. CASE UNCHANGED tid /\ status'[r.by] # "unborn"
    BY <1>0, <1>3 DEF OwnedAfter
  <1>4. ASSUME NEW p \in Process,
               Lock(p) \/ Write(p) \/ WriteFails(p) \/ Unlock(p) \/ Return(p) \/ Ends(p)
        PROVE  UNCHANGED tid /\ status'[r.by] # "unborn"
    BY <1>0, <1>4 DEF Lock, Write, WriteFails, Unlock, Return, Ends, process_vars
  <1>5. ASSUME Read \/ ReadEnough \/ UNCHANGED vars
        PROVE  UNCHANGED tid /\ status'[r.by] # "unborn"
    BY <1>0, <1>5 DEF Read, ReadEnough, vars, process_vars
  <1> QED
    BY <1>1, <1>2, <1>3, <1>4, <1>5 DEF Next, Flush, Die, SigPipe, Process

LEMMA OwnersInit == Init => OwnersKept
  BY DEF Init, OwnersKept, AllOwned, AllHalvesOwned

\* What is left to write, and what is written, is what was to write.
LEMMA OwnersSplit ==
    ASSUME TypeOK, NEW t \in Seq(Half), AllHalvesOwned(t), AllHalvesOwned(log),
           NEW n \in 1 .. Len(t)
    PROVE  /\ AllHalvesOwned(SubSeq(t, n + 1, Len(t)))
           /\ AllHalvesOwned(log \o SubSeq(t, 1, n))
  <1>1. log \in Seq(Half)
    BY DEF TypeOK
  <1> DEFINE rest == SubSeq(t, n + 1, Len(t))
             new  == log \o SubSeq(t, 1, n)
  <1>2. /\ \A i \in 1 .. Len(rest) : rest[i] = t[i + n] /\ i + n \in 1 .. Len(t)
        /\ \A i \in 1 .. Len(new) :
             IF i <= Len(log) THEN new[i] = log[i]
             ELSE new[i] = t[i - Len(log)] /\ i - Len(log) \in 1 .. Len(t)
    BY <1>1, SplitTodo
  <1>3. Len(log) \in Nat /\ Len(new) \in Nat
    BY <1>1
  <1> HIDE DEF rest, new
  <1>4. AllHalvesOwned(rest)
    BY <1>2 DEF AllHalvesOwned
  <1>5. AllHalvesOwned(new)
    <2>1. ASSUME NEW i \in 1 .. Len(new) PROVE Owned(new[i].record)
      <3>1. CASE i <= Len(log)
        BY <1>2, <1>3, <3>1 DEF AllHalvesOwned
      <3>2. CASE ~(i <= Len(log))
        BY <1>2, <3>2 DEF AllHalvesOwned
      <3> QED
        BY <3>1, <3>2
    <2> QED
      BY <2>1 DEF AllHalvesOwned
  <1> QED
    BY <1>4, <1>5 DEF rest, new

LEMMA OwnersHalves ==
    ASSUME TypeOK, NEW p \in Process, AllOwned(buffer[p])
    PROVE  AllHalvesOwned(Halves(p))
  BY HalvesType DEF TypeOK, AllOwned, AllHalvesOwned

LEMMA OwnersStep == TypeOK /\ OwnersKept /\ [Next]_vars => OwnersKept'
  <1> SUFFICES ASSUME TypeOK, OwnersKept, [Next]_vars PROVE OwnersKept'
    OBVIOUS
  <1>1. ASSUME NEW b \in Seq(Record), AllOwned(b)
        PROVE  \A i \in 1 .. Len(b) : OwnedAfter(b[i])
    <2>1. \A i \in 1 .. Len(b) : b[i] \in Record /\ Owned(b[i])
      BY <1>1 DEF AllOwned
    <2> QED
      BY <2>1, OwnedStays
  <1>2. ASSUME NEW h \in Seq(Half), AllHalvesOwned(h)
        PROVE  \A i \in 1 .. Len(h) : OwnedAfter(h[i].record)
    <2>1. \A i \in 1 .. Len(h) : h[i] \in Half
      OBVIOUS
    <2>2. \A i \in 1 .. Len(h) : h[i].record \in Record /\ Owned(h[i].record)
      BY <1>2, <2>1 DEF AllHalvesOwned, Half
    <2> QED
      BY <2>2, OwnedStays
  <1>3. /\ \A q \in Process : buffer[q] \in Seq(Record) /\ todo[q] \in Seq(Half)
        /\ log \in Seq(Half)
        /\ buffer \in [Process -> Seq(Record)]
        /\ todo \in [Process -> Seq(Half)]
    BY DEF TypeOK
  <1>4. /\ \A q \in Process : AllOwned(buffer[q]) /\ AllHalvesOwned(todo[q])
        /\ AllHalvesOwned(log)
    BY DEF OwnersKept
  <1>5. AllOwned(<<>>) /\ AllHalvesOwned(<<>>)
    BY DEF AllOwned, AllHalvesOwned
  \* It is enough that what there is has an owner already, or is the new record.
  <1> DEFINE Old(b) == b \in Seq(Record) /\ AllOwned(b)
             OldHalves(h) == h \in Seq(Half) /\ AllHalvesOwned(h)
  <1>6. ASSUME \A q \in Process : Old(buffer'[q]) /\ OldHalves(todo'[q]), OldHalves(log')
        PROVE  OwnersKept'
    <2>1. /\ \A q \in Process : \A i \in 1 .. Len(buffer'[q]) : OwnedAfter(buffer'[q][i])
          /\ \A q \in Process : \A i \in 1 .. Len(todo'[q]) : OwnedAfter(todo'[q][i].record)
          /\ \A i \in 1 .. Len(log') : OwnedAfter(log'[i].record)
      BY <1>1, <1>2, <1>6
    <2> QED
      BY <2>1 DEF OwnersKept, AllOwned, AllHalvesOwned, Owned, OwnedAfter
  <1>7. ASSUME NEW p \in Process, NEW t \in Thread, Call(p, t) PROVE OwnersKept'
    <2>1. /\ UNCHANGED <<todo, log>>
          /\ buffer' = [buffer EXCEPT ![p] = Append(@, NewRecord(p, t))]
          /\ tid' = [tid EXCEPT ![p][t] = ThreadId(p, t)]
          /\ status' = status /\ status[p] = "running"
      BY <1>7 DEF Call
    <2>2. OwnedAfter(NewRecord(p, t))
      <3>1. tid \in [Process -> [Thread -> Id \cup {None}]]
        BY DEF TypeOK
      <3>2. tid'[p][t] = ThreadId(p, t)
        BY <2>1, <3>1
      <3>3. NewRecord(p, t).by = p /\ NewRecord(p, t).thread = t
              /\ NewRecord(p, t).pid = ThreadId(p, t)
        BY DEF NewRecord
      <3> QED
        BY <2>1, <3>2, <3>3 DEF OwnedAfter
    <2>3. \A i \in 1 .. Len(buffer'[p]) : OwnedAfter(buffer'[p][i])
      <3>1. /\ buffer'[p] = Append(buffer[p], NewRecord(p, t))
            /\ \A i \in 1 .. Len(buffer[p]) : OwnedAfter(buffer[p][i])
        BY <1>1, <1>3, <1>4, <2>1
      <3>2. \A i \in 1 .. Len(buffer'[p]) :
              \/ i \in 1 .. Len(buffer[p]) /\ buffer'[p][i] = buffer[p][i]
              \/ buffer'[p][i] = NewRecord(p, t)
        BY <1>3, <3>1
      <3> QED
        BY <2>2, <3>1, <3>2
    <2>4. ASSUME NEW q \in Process, q # p
          PROVE  \A i \in 1 .. Len(buffer'[q]) : OwnedAfter(buffer'[q][i])
      <3>1. buffer'[q] = buffer[q]
        BY <1>3, <2>1, <2>4
      <3> QED
        BY <1>1, <1>3, <1>4, <3>1
    <2>5. /\ \A q \in Process : \A i \in 1 .. Len(todo'[q]) : OwnedAfter(todo'[q][i].record)
          /\ \A i \in 1 .. Len(log') : OwnedAfter(log'[i].record)
      BY <1>2, <1>3, <1>4, <2>1
    <2>6. \A q \in Process : \A i \in 1 .. Len(buffer'[q]) : OwnedAfter(buffer'[q][i])
      BY <2>3, <2>4
    <2> QED
      BY <2>5, <2>6 DEF OwnersKept, AllOwned, AllHalvesOwned, Owned, OwnedAfter
  <1>8. ASSUME NEW p \in Process, Lock(p) PROVE OwnersKept'
    <2>1. /\ UNCHANGED <<buffer, log>>
          /\ todo' = [todo EXCEPT ![p] = Halves(p)]
      BY <1>8 DEF Lock, process_vars
    <2>2. OldHalves(Halves(p))
      BY <1>3, <1>4, HalvesType, OwnersHalves
    <2>3. \A q \in Process : todo'[q] \in {todo[q], Halves(p)}
      BY <1>3, <2>1
    <2> QED
      BY <1>3, <1>4, <1>6, <2>1, <2>2, <2>3
  <1>9. ASSUME NEW p \in Process, Write(p) PROVE OwnersKept'
    <2>1. PICK n \in 1 .. Len(todo[p]) :
            /\ log' = log \o SubSeq(todo[p], 1, n)
            /\ todo' = [todo EXCEPT ![p] = SubSeq(@, n + 1, Len(@))]
            /\ UNCHANGED buffer
      BY <1>9 DEF Write, process_vars
    <2>2. /\ OldHalves(log')
          /\ OldHalves(SubSeq(todo[p], n + 1, Len(todo[p])))
      BY <1>3, <1>4, <2>1, OwnersSplit, SplitTodo
    <2>3. \A q \in Process : todo'[q] \in {todo[q], SubSeq(todo[p], n + 1, Len(todo[p]))}
      BY <1>3, <2>1
    <2> QED
      BY <1>3, <1>4, <1>6, <2>1, <2>2, <2>3
  <1>10. ASSUME NEW p \in Process, WriteFails(p) \/ Unlock(p) \/ Return(p) \/ Ends(p)
         PROVE  OwnersKept'
    <2>1. /\ UNCHANGED log
          /\ \A q \in Process : todo'[q] \in {todo[q], <<>>} /\ buffer'[q] \in {buffer[q], <<>>}
      BY <1>3, <1>10
         DEF WriteFails, Unlock, EmptyBuffer, Return, Ends, process_vars, flush_vars
    <2>2. Old(<<>>) /\ OldHalves(<<>>)
      BY <1>5
    <2>3. \A q \in Process : Old(buffer[q]) /\ OldHalves(todo[q])
      BY <1>3, <1>4
    <2>4. OldHalves(log')
      BY <1>3, <1>4, <2>1
    <2> HIDE DEF Old, OldHalves
    <2>5. \A q \in Process : Old(buffer'[q]) /\ OldHalves(todo'[q])
      BY <2>1, <2>2, <2>3
    <2> QED
      BY <1>6, <2>4, <2>5
  <1>11. ASSUME NEW p \in Process, NEW t \in Thread, NEW c \in Process, Fork(p, t, c)
         PROVE  OwnersKept'
    <2>1. /\ UNCHANGED <<log, todo>>
          /\ \A q \in Process : buffer'[q] \in {buffer[q], buffer[p]}
      BY <1>3, <1>11 DEF Fork, flush_vars
    <2> QED
      BY <1>3, <1>4, <1>6, <2>1
  <1>12. ASSUME Read \/ ReadEnough \/ UNCHANGED vars PROVE OwnersKept'
    <2>1. UNCHANGED <<log, todo, buffer>>
      BY <1>12 DEF Read, ReadEnough, vars, process_vars, flush_vars
    <2> QED
      BY <1>3, <1>4, <1>6, <2>1
  <1> QED
    BY <1>7, <1>8, <1>9, <1>10, <1>11, <1>12 DEF Next, Flush, Die, SigPipe, Process

\* The id in a record of the log is that of a thread, of the process that
\* executed the call-site or of one it descends from, and tells the threads of
\* a process apart, whatever forks there are: a thread keeps what it cached, a
\* fork copies it to a process that has nothing yet, and a process never has it
\* from itself.
THEOREM PidNamesThread == Spec => []PidTellsThreads
  <1>1. TypeOK /\ Cached /\ OwnersKept => PidTellsThreads
    <2> SUFFICES ASSUME TypeOK, Cached, OwnersKept,
                        NEW i \in DOMAIN log, NEW j \in DOMAIN log
                 PROVE  /\ log[i].record.pid[1] \in lineage[log[i].record.by]
                        /\ log[i].record.by = log[j].record.by =>
                             (log[i].record.pid = log[j].record.pid
                                <=> log[i].record.thread = log[j].record.thread)
      BY DEF PidTellsThreads
    <2>0. log \in Seq(Half)
      BY DEF TypeOK
    <2>1. \A k \in DOMAIN log : Owned(log[k].record) /\ log[k] \in Half
      BY <2>0 DEF OwnersKept, AllHalvesOwned
    <2>2. \A k \in DOMAIN log : Owned(log[k].record) /\ log[k].record \in Record
      BY <2>1 DEF Half
    <2> DEFINE r == log[i].record
               s == log[j].record
    <2>3. /\ r.by \in Process /\ r.thread \in Thread /\ r.pid \in Id
          /\ s.by \in Process /\ s.thread \in Thread /\ s.pid \in Id
          /\ tid[r.by][r.thread] = r.pid /\ tid[s.by][s.thread] = s.pid
      BY <2>2 DEF Owned, Record
    <2>4. r.pid # None /\ s.pid # None
      BY <2>3, ProcessAssumption
    <2> HIDE DEF r, s
    <2>5. /\ r.pid[1] \in lineage[r.by]
          /\ r.pid = <<r.by, r.thread>> \/ (r.thread = Main /\ r.pid[1] # r.by)
          /\ s.pid = <<s.by, s.thread>> \/ (s.thread = Main /\ s.pid[1] # s.by)
      BY <2>3, <2>4 DEF Cached
    <2>6. r.by = s.by => (r.pid = s.pid <=> r.thread = s.thread)
      BY <2>3, <2>5
    <2> QED
      BY <2>5, <2>6 DEF r, s
  <1>2. TInv /\ Cached /\ Descent /\ OwnersKept /\ [Next]_vars
          => Cached' /\ Descent' /\ OwnersKept'
    BY CachedStep, OwnersStep DEF TInv
  <1>3. TInv => TypeOK
    BY DEF TInv
  <1> QED
    BY <1>1, <1>2, <1>3, CachedInit, OwnersInit, TypeInit, TypeStep, PTL DEF Spec

-----------------------------------------------------------------------------
(* The two halves of a record                                              *)

Size(p) == 2 * Len(buffer[p])

\* What a process has still to write is the end of its batch; a batch fits the
\* buffer; and only a pipe takes a part of a batch, when it is large.
Batches ==
    \A p \in Process :
        /\ Len(buffer[p]) <= setting.max_records
        /\ status[p] = "running" /\ pc[p] = "out" => Len(buffer[p]) < setting.max_records
        /\ pc[p] = "write" =>
             /\ Len(todo[p]) <= Size(p)
             /\ \A k \in 1 .. Len(todo[p]) :
                  todo[p][k] = Halves(p)[k + (Size(p) - Len(todo[p]))]
        /\ InProgress(p) /\ setting.mode = "pipe" => Size(p) > AtomicHalves

\* The second half of a record comes right after the first one.
LEMMA HalvesPair ==
    ASSUME NEW p \in Process, buffer[p] \in Seq(Record), NEW i \in 1 .. Size(p)
    PROVE  /\ Halves(p)[i].writer = p
           /\ i = 1 => Halves(p)[i].half = 1
           /\ Halves(p)[i].half = 1 =>
                i < Size(p) /\ Halves(p)[i + 1] = [Halves(p)[i] EXCEPT !.half = 2]
  <1> DEFINE H(k) == [record |-> buffer[p][(k + 1) \div 2],
                      half   |-> IF k % 2 = 1 THEN 1 ELSE 2,
                      writer |-> p]
  <1>1. \A k \in 1 .. Size(p) : Halves(p)[k] = H(k)
    BY DEF Halves, Size
  <1>2. Len(buffer[p]) \in Nat
    OBVIOUS
  <1>3. ASSUME i % 2 = 1
        PROVE  i + 1 \in 1 .. Size(p) /\ (i + 2) \div 2 = (i + 1) \div 2 /\ (i + 1) % 2 = 0
    BY <1>2, <1>3 DEF Size
  <1>4. ASSUME i % 2 = 1 PROVE H(i + 1) = [H(i) EXCEPT !.half = 2]
    BY <1>3, <1>4
  <1>5. H(i).half = 1 => i % 2 = 1
    OBVIOUS
  <1>6. i = 1 => H(i).half = 1
    OBVIOUS
  <1> HIDE DEF H
  <1>7. Halves(p)[i] = H(i) /\ H(i).writer = p
    BY <1>1 DEF H
  <1> QED
    BY <1>1, <1>3, <1>4, <1>5, <1>6, <1>7 DEF Size

LEMMA BatchesInit == Init => Batches
  <1> SUFFICES ASSUME Init PROVE Batches
    OBVIOUS
  <1>1. setting.max_records \in Nat \ {0}
    BY SettingsAssumption DEF Init, Setting
  <1> QED
    BY <1>1 DEF Init, Batches, InProgress

\* A process whose part does not change keeps its batch.
LEMMA BatchStays ==
    ASSUME TypeOK, Batches, NEW q \in Process, setting' = setting,
           buffer'[q] = buffer[q], todo'[q] = todo[q], pc'[q] = pc[q]
    PROVE  /\ Len(buffer'[q]) <= setting.max_records
           /\ pc'[q] = "write" =>
                /\ Len(todo'[q]) <= Size(q)'
                /\ \A k \in 1 .. Len(todo'[q]) :
                     todo'[q][k] = Halves(q)'[k + (Size(q)' - Len(todo'[q]))]
           /\ InProgress(q)' /\ setting.mode = "pipe" => Size(q)' > AtomicHalves
  <1>1. Halves(q)' = Halves(q) /\ Size(q)' = Size(q) /\ InProgress(q)' = InProgress(q)
    BY DEF Halves, Size, InProgress
  <1> QED
    BY <1>1 DEF Batches

LEMMA BatchesStep == TInv /\ HasLock /\ Batches /\ [Next]_vars => Batches'
  <1> SUFFICES ASSUME TypeOK, HasLock, Batches, [Next]_vars PROVE Batches'
    BY DEF TInv
  <1>0. setting' = setting /\ setting.max_records \in Nat \ {0}
    BY SettingsAssumption
       DEF TypeOK, Setting, Next, Flush, Call, Lock, Write, WriteFails, SigPipe, Ends, Unlock,
           Return, Die, Fork, Read, ReadEnough, vars
  <1> DEFINE Good(q) ==
        /\ Len(buffer'[q]) <= setting.max_records
        /\ status'[q] = "running" /\ pc'[q] = "out" => Len(buffer'[q]) < setting.max_records
        /\ pc'[q] = "write" =>
             /\ Len(todo'[q]) <= Size(q)'
             /\ \A k \in 1 .. Len(todo'[q]) :
                  todo'[q][k] = Halves(q)'[k + (Size(q)' - Len(todo'[q]))]
        /\ InProgress(q)' /\ setting.mode = "pipe" => Size(q)' > AtomicHalves
  <1> SUFFICES ASSUME NEW q \in Process PROVE Good(q)
    BY <1>0 DEF Batches
  <1>1. ASSUME buffer'[q] = buffer[q], todo'[q] = todo[q], pc'[q] = pc[q],
               status'[q] = "running" => status[q] = "running"
        PROVE  Good(q)
    BY <1>0, <1>1, BatchStays DEF Batches
  <1>2. ASSUME buffer'[q] = <<>>, pc'[q] = "out" PROVE Good(q)
    BY <1>0, <1>2 DEF InProgress
  <1>3. ASSUME NEW p \in Process, NEW t \in Thread, Call(p, t) PROVE Good(q)
    <2>1. CASE q # p
      BY <1>1, <1>3, <2>1 DEF Call, Goes, TypeOK
    <2>2. CASE q = p
      <3>1. /\ Len(buffer'[p]) = Len(buffer[p]) + 1 /\ Len(buffer[p]) < setting.max_records
            /\ pc'[p] = IF Len(buffer'[p]) >= setting.max_records THEN "lock" ELSE "out"
        BY <1>3 DEF Call, Goes, TypeOK, Batches
      <3>2. Len(buffer[p]) \in Nat
        BY DEF TypeOK
      <3> QED
        BY <1>0, <2>2, <3>1, <3>2 DEF InProgress
    <2> QED
      BY <2>1, <2>2
  <1>4. ASSUME NEW p \in Process, Lock(p) PROVE Good(q)
    <2>1. CASE q # p
      BY <1>1, <1>4, <2>1 DEF Lock, Goes, process_vars, TypeOK
    <2>2. CASE q = p
      <3>1. /\ todo'[p] = Halves(p) /\ pc'[p] = "write"
            /\ buffer' = buffer /\ status' = status
        BY <1>4 DEF Lock, Goes, process_vars, TypeOK
      <3>2. Halves(p)' = Halves(p) /\ Size(p)' = Size(p) /\ Len(Halves(p)) = Size(p)
        BY <3>1, HalvesType DEF Halves, Size, TypeOK
      <3>3. Size(p) \in Nat
        BY DEF Size, TypeOK
      <3>4. ~InProgress(p)'
        BY <3>1, <3>2, <3>3 DEF InProgress, Size
      <3>5. Len(buffer'[p]) <= setting.max_records
        BY <3>1 DEF Batches
      <3> QED
        BY <2>2, <3>1, <3>2, <3>3, <3>4, <3>5
    <2> QED
      BY <2>1, <2>2
  <1>5. ASSUME NEW p \in Process, Write(p) PROVE Good(q)
    <2>1. CASE q # p
      BY <1>1, <1>5, <2>1 DEF Write, process_vars, TypeOK
    <2>2. CASE q = p
      <3>1. PICK n \in 1 .. Len(todo[p]) :
              MayWrite(p, n) /\ todo'[p] = SubSeq(todo[p], n + 1, Len(todo[p]))
        BY <1>5 DEF Write, TypeOK
      <3>2. buffer' = buffer /\ status' = status /\ pc[p] = "write" /\ pc'[p] # "out"
        BY <1>5 DEF Write, process_vars, TypeOK
      <3>3. Halves(p)' = Halves(p) /\ Size(p)' = Size(p)
        BY <3>2 DEF Halves, Size
      <3>4. Size(p) \in Nat /\ Len(todo[p]) \in Nat /\ Len(todo[p]) <= Size(p)
        BY <3>2 DEF Size, TypeOK, Batches
      <3>5. /\ Len(todo'[p]) = Len(todo[p]) - n
            /\ \A k \in 1 .. Len(todo'[p]) : todo'[p][k] = todo[p][k + n]
        <4>1. todo[p] \in Seq(Half)
          BY DEF TypeOK
        <4> QED
          BY <3>1, <4>1
      <3>6. \A k \in 1 .. Len(todo'[p]) :
              todo'[p][k] = Halves(p)[k + (Size(p) - Len(todo'[p]))]
        <4>1. ASSUME NEW k \in 1 .. Len(todo'[p])
              PROVE  k + n \in 1 .. Len(todo[p])
                     /\ k + n + (Size(p) - Len(todo[p])) = k + (Size(p) - Len(todo'[p]))
          BY <3>4, <3>5
        <4> QED
          BY <3>2, <3>5, <4>1 DEF Batches
      <3>7. InProgress(p)' /\ setting.mode = "pipe" => Size(p) > AtomicHalves
        <4>1. InProgress(p)' => n # Len(todo[p])
          BY <3>4, <3>5 DEF InProgress
        <4> QED
          BY <3>1, <4>1 DEF MayWrite, Size
      <3>8. Len(todo'[p]) <= Size(p)
        BY <3>4, <3>5
      <3>9. Len(buffer'[p]) <= setting.max_records
        BY <3>2 DEF Batches
      <3> QED
        BY <2>2, <3>2, <3>3, <3>6, <3>7, <3>8, <3>9
    <2> QED
      BY <2>1, <2>2
  <1>6. ASSUME NEW p \in Process, WriteFails(p) PROVE Good(q)
    <2>1. CASE q # p
      BY <1>1, <1>6, <2>1 DEF WriteFails, Goes, process_vars, TypeOK
    <2>2. CASE q = p
      BY <1>0, <1>6, <2>2 DEF WriteFails, Goes, process_vars, TypeOK, Batches, InProgress
    <2> QED
      BY <2>1, <2>2
  <1>7. ASSUME NEW p \in Process, Unlock(p) \/ Ends(p) PROVE Good(q)
    <2>1. CASE q # p
      BY <1>1, <1>7, <2>1 DEF Unlock, EmptyBuffer, Goes, Ends, TypeOK
    <2>2. CASE q = p
      BY <1>2, <1>7, <2>2 DEF Unlock, EmptyBuffer, Goes, Ends, TypeOK
    <2> QED
      BY <2>1, <2>2
  <1>8. ASSUME NEW p \in Process, Return(p) PROVE Good(q)
    <2>1. /\ buffer' = buffer /\ todo' = todo
          /\ status'[q] = "running" => status[q] = "running"
          /\ pc'[q] = pc[q] \/ pc'[q] = "lock"
      BY <1>8 DEF Return, flush_vars, TypeOK
    <2> QED
      BY <1>0, <1>1, <2>1 DEF Batches, InProgress
  <1>9. ASSUME NEW p \in Process, NEW t \in Thread, NEW c \in Process, Fork(p, t, c) PROVE Good(q)
    <2>1. CASE q # c
      BY <1>1, <1>9, <2>1 DEF Fork, flush_vars, TypeOK
    <2>2. CASE q = c
      <3>1. /\ buffer'[c] = buffer[p] /\ pc'[c] = "out"
            /\ status'[c] = "running" => status[p] = "running" /\ pc[p] = "out"
        BY <1>9 DEF Fork, flush_vars, TypeOK, HasLock
      <3> QED
        BY <2>2, <3>1 DEF Batches, InProgress
    <2> QED
      BY <2>1, <2>2
  <1>10. ASSUME Read \/ ReadEnough \/ UNCHANGED vars PROVE Good(q)
    BY <1>1, <1>10 DEF Read, ReadEnough, vars, process_vars, flush_vars
  <1> QED
    BY <1>3, <1>4, <1>5, <1>6, <1>7, <1>8, <1>9, <1>10
       DEF Next, Flush, Die, SigPipe, Process

\* Once processes share a description, some always do.
LEMMA MixingStays == TInv /\ HasLock /\ [Next]_vars /\ MayMix => MayMix'
  <1> SUFFICES ASSUME TypeOK, HasLock, [Next]_vars, MayMix PROVE MayMix'
    BY DEF TInv
  <1>1. setting' = setting
    BY DEF Next, Flush, Call, Lock, Write, WriteFails, SigPipe, Ends, Unlock,
           Return, Die, Fork, Read, ReadEnough, vars
  <1>2. CASE \E p \in Process, t \in Thread, c \in Child : Fork(p, t, c)
    <2>1. PICK p \in Process, t \in Thread, c \in Process : Fork(p, t, c)
      BY <1>2 DEF Process
    <2>2. p \in SharedBy(c)'
      BY <2>1 DEF Fork, SharedBy, TypeOK
    <2> QED
      BY <1>1, <2>2 DEF MayMix, Forked
  <1>3. CASE ~\E p \in Process, t \in Thread, c \in Child : Fork(p, t, c)
    <2>1. /\ desc' = desc
          /\ \A q \in Process : status[q] # "unborn" => status'[q] # "unborn"
      <3>1. ASSUME NEW p \in Process, Lock(p) \/ Write(p) \/ WriteFails(p)
            PROVE  desc' = desc /\ status' = status
        BY <3>1 DEF Lock, Write, WriteFails, process_vars
      <3>2. ASSUME NEW p \in Process, (\E t \in Thread : Call(p, t)) \/ Unlock(p) \/ Return(p) \/ Ends(p)
            PROVE  /\ desc' = desc
                   /\ \A q \in Process : status[q] # "unborn" => status'[q] # "unborn"
        BY <3>2 DEF Call, Unlock, Return, Ends, TypeOK
      <3>3. ASSUME Read \/ ReadEnough \/ UNCHANGED vars
            PROVE  desc' = desc /\ status' = status
        BY <3>3 DEF Read, ReadEnough, vars, process_vars
      <3> QED
        BY <1>3, <3>1, <3>2, <3>3 DEF Next, Flush, Die, SigPipe, Process
    <2>2. \A q \in Process : SharedBy(q) \subseteq SharedBy(q)'
      BY <2>1 DEF SharedBy
    <2> QED
      BY <1>1, <2>2 DEF MayMix, Forked
  <1> QED
    BY <1>2, <1>3

\* Nobody writes while another process is in the middle of its batch.
LEMMA OneInProgress ==
    ASSUME TInv, HasLock, Batches, ~MayMix,
           NEW p \in Process, NEW n \in Nat, pc[p] = "write", MayWrite(p, n),
           NEW q \in Process \ {p}, InProgress(q)
    PROVE  FALSE
  <1>1. setting.mode = "pipe" /\ pc[q] = "write"
    BY DEF MayWrite, InProgress
  <1>2. Size(q) > AtomicHalves /\ Len(buffer[q]) <= setting.max_records
    BY <1>1 DEF Batches
  <1>3. Len(buffer[q]) \in Nat /\ AtomicHalves \in Nat /\ setting.max_records \in Nat
    BY BoundsAssumption, SettingsAssumption DEF TInv, TypeOK, Setting
  <1>4. 2 * setting.max_records > AtomicHalves
    BY <1>2, <1>3 DEF Size
  <1>5. SharedBy(p) = {} /\ SharedBy(q) = {}
    BY <1>1, <1>4 DEF MayMix, Forked
  <1>6. flock = desc[p] /\ flock = desc[q] /\ status[q] # "unborn"
    BY <1>1, <1>5 DEF HasLock
  <1> QED
    BY <1>5, <1>6 DEF SharedBy

\* A process that has the second half of a record to write is in progress.
LEMMA SecondHalf ==
    ASSUME TInv, Batches, NEW q \in Process, pc[q] = "write", todo[q] # <<>>,
           Head(todo[q]).half = 2
    PROVE  InProgress(q)
  <1>1. todo[q] \in Seq(Half) /\ buffer[q] \in Seq(Record)
    BY DEF TInv, TypeOK
  <1>2. 1 \in 1 .. Len(todo[q]) /\ Head(todo[q]) = todo[q][1] /\ Len(todo[q]) \in Nat
    BY <1>1
  <1>3. Size(q) \in Nat /\ Len(todo[q]) <= Size(q)
    <2>1. Len(buffer[q]) \in Nat
      BY <1>1
    <2>2. Size(q) \in Nat
      BY <2>1 DEF Size
    <2>3. Len(todo[q]) <= Size(q)
      BY DEF Batches
    <2> QED
      BY <2>1, <2>2, <2>3
  <1>4. Len(todo[q]) # Size(q)
    <2> SUFFICES ASSUME Len(todo[q]) = Size(q) PROVE FALSE
      OBVIOUS
    <2>1. todo[q][1] = Halves(q)[1 + (Size(q) - Len(todo[q]))]
      BY <1>2 DEF Batches
    <2>2. todo[q][1] = Halves(q)[1] /\ 1 \in 1 .. Size(q)
      BY <1>2, <1>3, <2>1
    <2>3. Halves(q)[1].half = 1
      BY <1>1, <2>2, HalvesPair
    <2> QED
      BY <1>2, <2>2, <2>3
  <1> QED
    BY <1>3, <1>4 DEF InProgress, Size

\* What a process has to write are whole records, but for the first half.
LEMMA TodoPair ==
    ASSUME TInv, Batches, NEW p \in Process, pc[p] = "write",
           NEW k \in 1 .. Len(todo[p]), todo[p][k].half = 1
    PROVE  /\ todo[p][k].writer = p
           /\ k + 1 \in 1 .. Len(todo[p])
           /\ todo[p][k + 1] = [todo[p][k] EXCEPT !.half = 2]
  <1>1. todo[p] \in Seq(Half) /\ buffer[p] \in Seq(Record)
    BY DEF TInv, TypeOK
  <1>2. Size(p) \in Nat /\ Len(todo[p]) \in Nat /\ Len(todo[p]) <= Size(p)
    <2>1. Len(buffer[p]) \in Nat /\ Len(todo[p]) \in Nat
      BY <1>1
    <2>2. Size(p) \in Nat
      BY <2>1 DEF Size
    <2>3. Len(todo[p]) <= Size(p)
      BY DEF Batches
    <2> QED
      BY <2>1, <2>2, <2>3
  <1> DEFINE i == k + (Size(p) - Len(todo[p]))
  <1>3. i \in 1 .. Size(p) /\ todo[p][k] = Halves(p)[i]
    BY <1>2 DEF Batches
  <1>4. i < Size(p) /\ Halves(p)[i + 1] = [Halves(p)[i] EXCEPT !.half = 2]
        /\ Halves(p)[i].writer = p
    BY <1>1, <1>3, HalvesPair
  <1>5. k + 1 \in 1 .. Len(todo[p]) /\ (k + 1) + (Size(p) - Len(todo[p])) = i + 1
    BY <1>2, <1>4
  <1>6. todo[p][k + 1] = Halves(p)[(k + 1) + (Size(p) - Len(todo[p]))]
    BY <1>5 DEF Batches
  <1> QED
    BY <1>3, <1>4, <1>5, <1>6

WholeOrCut(i) == log[i].half = 1 => WholeAt(i) \/ BeingWritten(i) \/ i \in cuts

LEMMA WriteKeepsWhole ==
    ASSUME TInv, HasLock, Batches, ~MayMix, NEW p \in Process, Write(p),
           \A i \in 1 .. Len(log) : WholeOrCut(i)
    PROVE  \A i \in 1 .. Len(log') : WholeOrCut(i)'
  <1> DEFINE t == todo[p]
  <1> PICK L : L = Len(log)
    OBVIOUS
  <1>1. PICK n \in 1 .. Len(t) :
          /\ MayWrite(p, n)
          /\ log' = log \o SubSeq(t, 1, n)
          /\ todo' = [todo EXCEPT ![p] = SubSeq(@, n + 1, Len(@))]
    BY DEF Write
  <1>2. pc[p] = "write" /\ cuts' = cuts
        /\ pc' = [pc EXCEPT ![p] = IF todo'[p] = <<>> THEN "unlock" ELSE "write"]
    BY DEF Write, past_vars
  <1>3. t \in Seq(Half) /\ log \in Seq(Half) /\ L \in Nat /\ n \in Nat \ {0} /\ Len(t) \in Nat
    BY DEF TInv, TypeOK
  <1>4. /\ Len(log') = L + n
        /\ \A i \in 1 .. L : log'[i] = log[i]
        /\ \A k \in 1 .. n : log'[L + k] = t[k]
    BY <1>1, <1>3
  <1>5. /\ todo'[p] = SubSeq(t, n + 1, Len(t))
        /\ n < Len(t) => todo'[p] # <<>> /\ Head(todo'[p]) = t[n + 1]
    <2>1. todo'[p] = SubSeq(t, n + 1, Len(t))
      BY <1>1 DEF TInv, TypeOK
    <2>2. n < Len(t) => SubSeq(t, n + 1, Len(t)) # <<>>
                        /\ Head(SubSeq(t, n + 1, Len(t))) = t[n + 1]
      BY <1>3, SplitTodo
    <2> QED
      BY <2>1, <2>2
  <1>6. ASSUME NEW i \in 1 .. L, log'[i].half = 1
        PROVE  WholeAt(i)' \/ i \in cuts'
    <2>1. log'[i] = log[i] /\ i \in Nat /\ i < Len(log')
      BY <1>3, <1>4
    <2>2. CASE WholeAt(i)
      <3>1. i + 1 \in 1 .. L
        BY <1>3, <2>2 DEF WholeAt
      <3> QED
        BY <1>4, <2>1, <2>2, <3>1 DEF WholeAt
    <2>3. CASE BeingWritten(i)
      <3> DEFINE q == log[i].writer
      <3>0. q \in Process
        <4>1. log[i] \in Half
          BY <1>3
        <4> QED
          BY <4>1 DEF Half
      <3>1. i = L /\ pc[q] = "write" /\ todo[q] # <<>>
            /\ Head(todo[q]) = [log[i] EXCEPT !.half = 2]
        BY <2>3 DEF BeingWritten
      <3>2. Head(todo[q]).half = 2
        <4>1. log[i] \in Half
          BY <1>3
        <4> QED
          BY <3>1, <4>1 DEF Half
      <3>3. InProgress(q)
        BY <3>0, <3>1, <3>2, SecondHalf
      <3>4. q = p
        <4> SUFFICES ASSUME q # p PROVE FALSE
          OBVIOUS
        <4> QED
          BY <1>1, <1>2, <1>3, <3>0, <3>3, OneInProgress
      <3>5. log'[L + 1] = t[1] /\ Head(t) = t[1]
        BY <1>3, <1>4, <3>1, <3>4
      <3> QED
        BY <2>1, <1>6, <3>1, <3>4, <3>5 DEF WholeAt
    <2>4. CASE i \in cuts
      BY <1>2, <2>4
    <2> QED
      BY <1>6, <2>1, <2>2, <2>3, <2>4 DEF WholeOrCut
  <1>7. ASSUME NEW k \in 1 .. n, t[k].half = 1
        PROVE  WholeAt(L + k)' \/ BeingWritten(L + k)'
    <2>1. /\ t[k].writer = p /\ k + 1 \in 1 .. Len(t)
          /\ t[k + 1] = [t[k] EXCEPT !.half = 2]
      <3>1. k \in 1 .. Len(t)
        BY <1>3
      <3> QED
        BY <1>2, <1>7, <3>1, TodoPair
    <2>2. log'[L + k] = t[k] /\ k \in Nat
      BY <1>4
    <2>3. CASE k < n
      <3>1. k + 1 \in 1 .. n /\ L + k < Len(log') /\ L + (k + 1) = (L + k) + 1
        BY <1>3, <1>4, <2>2, <2>3
      <3>2. log'[(L + k) + 1] = t[k + 1]
        BY <1>4, <3>1
      <3> QED
        BY <1>7, <2>1, <2>2, <3>1, <3>2 DEF WholeAt
    <2>4. CASE k = n
      <3>1. todo'[p] # <<>> /\ Head(todo'[p]) = t[k + 1] /\ L + k = Len(log')
        BY <1>3, <1>4, <1>5, <2>1, <2>4
      <3>2. pc'[p] = "write"
        BY <1>2, <3>1 DEF TInv, TypeOK
      <3> QED
        BY <2>1, <2>2, <3>1, <3>2 DEF BeingWritten
    <2> QED
      BY <2>2, <2>3, <2>4, <1>3
  <1>8. ASSUME NEW i \in 1 .. Len(log') PROVE WholeOrCut(i)'
    <2>1. CASE i \in 1 .. L
      BY <1>6, <2>1 DEF WholeOrCut
    <2>2. CASE i \notin 1 .. L
      <3>1. i - L \in 1 .. n /\ L + (i - L) = i
        BY <1>3, <1>4, <2>2
      <3>2. log'[i] = t[i - L]
        BY <1>4, <3>1
      <3> QED
        BY <1>7, <3>1, <3>2 DEF WholeOrCut
    <2> QED
      BY <2>1, <2>2
  <1> QED
    BY <1>8

\* Stopping leaves a cut where half a record was.
LEMMA StopKeepsWhole ==
    ASSUME TInv, NEW p \in Process, log' = log, cuts' = CutBy(p),
           \A q \in Process \ {p} : pc'[q] = pc[q] /\ todo'[q] = todo[q],
           NEW i \in 1 .. Len(log), WholeOrCut(i)
    PROVE  WholeOrCut(i)'
  <1>1. cuts \subseteq cuts'
    BY DEF CutBy
  <1>2. CASE WholeAt(i)
    BY <1>2 DEF WholeOrCut, WholeAt
  <1>3. CASE BeingWritten(i)
    <2> DEFINE q == log[i].writer
    <2>1. log[i] \in Half /\ todo[q] \in Seq(Half) /\ q \in Process
      <3>1. log[i] \in Half
        BY DEF TInv, TypeOK
      <3> QED
        BY <3>1 DEF Half, TInv, TypeOK
    <2>2. i = Len(log) /\ pc[q] = "write" /\ todo[q] # <<>>
          /\ Head(todo[q]) = [log[i] EXCEPT !.half = 2]
      BY <1>3 DEF BeingWritten
    <2>3. Head(todo[q]) = todo[q][1] /\ todo[q][1].half = 2
      BY <2>1, <2>2 DEF Half
    <2>4. CASE q = p
      BY <2>2, <2>3, <2>4 DEF CutBy, WholeOrCut
    <2>5. CASE q # p
      BY <2>1, <2>2, <2>5 DEF WholeOrCut, BeingWritten
    <2> QED
      BY <2>4, <2>5
  <1>4. CASE log[i].half # 1 \/ i \in cuts
    BY <1>1, <1>4 DEF WholeOrCut
  <1> QED
    BY <1>2, <1>3, <1>4 DEF WholeOrCut

\* Nor does a step disturb a record that is not about the writes.
LEMMA OtherKeepsWhole ==
    ASSUME TInv, log' = log, cuts' = cuts,
           \A q \in Process : pc[q] = "write" => pc'[q] = pc[q] /\ todo'[q] = todo[q],
           NEW i \in 1 .. Len(log), WholeOrCut(i)
    PROVE  WholeOrCut(i)'
  <1>1. log[i].writer \in Process
    <2>1. log[i] \in Half
      BY DEF TInv, TypeOK
    <2> QED
      BY <2>1 DEF Half
  <1> QED
    BY <1>1 DEF WholeOrCut, WholeAt, BeingWritten

WholeInv == MayMix \/ \A i \in 1 .. Len(log) : WholeOrCut(i)

LEMMA WholeStep == TInv /\ HasLock /\ Batches /\ WholeInv /\ [Next]_vars => WholeInv'
  <1> SUFFICES ASSUME TInv, HasLock, Batches, WholeInv, [Next]_vars, ~MayMix
               PROVE  \A i \in 1 .. Len(log') : WholeOrCut(i)'
    BY MixingStays DEF WholeInv
  <1>0. \A i \in 1 .. Len(log) : WholeOrCut(i)
    BY DEF WholeInv
  <1>1. ASSUME NEW p \in Process, Write(p) PROVE \A i \in 1 .. Len(log') : WholeOrCut(i)'
    BY <1>0, <1>1, WriteKeepsWhole
  <1>2. ASSUME NEW p \in Process, WriteFails(p) \/ Ends(p)
        PROVE \A i \in 1 .. Len(log') : WholeOrCut(i)'
    <2>1. /\ log' = log /\ cuts' = CutBy(p)
          /\ \A q \in Process \ {p} : pc'[q] = pc[q] /\ todo'[q] = todo[q]
      BY <1>2 DEF WriteFails, Goes, Ends, TInv, TypeOK
    <2> QED
      BY <1>0, <2>1, StopKeepsWhole
  <1>3. ASSUME log' = log, cuts' = cuts,
               \A q \in Process : pc[q] = "write" => pc'[q] = pc[q] /\ todo'[q] = todo[q]
        PROVE \A i \in 1 .. Len(log') : WholeOrCut(i)'
    BY <1>0, <1>3, OtherKeepsWhole
  <1>4. ASSUME NEW p \in Process, (\E t \in Thread : Call(p, t)) \/ Lock(p) \/ Unlock(p) \/ Return(p)
        PROVE \A i \in 1 .. Len(log') : WholeOrCut(i)'
    <2>1. log' = log /\ cuts' = cuts
      BY <1>4 DEF Call, Lock, Unlock, Return, past_vars
    <2>2. \A q \in Process : pc[q] = "write" => pc'[q] = pc[q] /\ todo'[q] = todo[q]
      BY <1>4 DEF Call, Lock, Unlock, Return, Goes, flush_vars, TInv, TypeOK
    <2> QED
      BY <1>3, <2>1, <2>2
  <1>5. ASSUME (\E p, c \in Process, t \in Thread : Fork(p, t, c)) \/ Read \/ ReadEnough \/ UNCHANGED vars
        PROVE \A i \in 1 .. Len(log') : WholeOrCut(i)'
    <2>1. log' = log /\ cuts' = cuts /\ pc' = pc /\ todo' = todo
      BY <1>5 DEF Fork, Read, ReadEnough, vars, flush_vars, past_vars
    <2> QED
      BY <1>3, <2>1
  <1> QED
    BY <1>1, <1>2, <1>4, <1>5 DEF Next, Flush, Die, SigPipe, Process

\* No record is torn by another one, for any number of processes and records,
\* any size of a buffer and of what a pipe takes in one piece: flock keeps the
\* batches of separate programs apart; where it does not, after a fork, the
\* lock of the file's inode does, and the size of a pipe's writes.
THEOREM NoRecordIsTorn == Spec => []RecordsAreWhole
  <1>1. TInv /\ WholeInv => RecordsAreWhole
    <2>1. TInv => DOMAIN log = 1 .. Len(log)
      BY DEF TInv, TypeOK
    <2> QED
      BY <2>1 DEF WholeInv, WholeOrCut, RecordsAreWhole
  <1>2. Init => WholeInv
    BY DEF Init, WholeInv
  <1>3. TInv /\ HasLock /\ [Next]_vars => HasLock'
    BY LockStep DEF TInv
  <1> QED
    BY <1>1, <1>2, <1>3, LockInit, BatchesInit, BatchesStep, WholeStep,
       TypeInit, TypeStep, PTL DEF Spec

-----------------------------------------------------------------------------
(***************************************************************************)
(* Theorems about what is in the shared log, for any programs, processes,  *)
(* sizes and faults: the order of the records of a process, that no record *)
(* is there twice, that a program that returned has all of its records     *)
(* there, and what CallSiteLogReader makes of it.                          *)
(***************************************************************************)

Logged == 1 .. Len(log)

\* Half a comes before half b, if they are of the same process.
Before(a, b) ==
    a.record.by = b.record.by =>
        \/ a.record.n < b.record.n
        \/ a.record = b.record /\ a.half < b.half

\* Only what was executed is recorded.
Executed(r) == r.n <= calls[r.by]

ExecutedInv ==
    /\ \A p \in Process : \A k \in 1 .. Len(buffer[p]) : Executed(buffer[p][k])
    /\ \A i \in Logged : Executed(log[i].record)

\* A process that is not there yet has written nothing; one that waits for
\* ever does not write, and neither does one that returned.
IdleInv ==
    \A p \in Process :
        /\ status[p] = "unborn" => calls[p] = 0 /\ \A i \in Logged : log[i].writer # p
        /\ status[p] = "stuck" => pc[p] = "out"
        /\ status[p] = "returned" => pc[p] = "out" /\ buffer[p] = <<>>

\* A buffer is in order, and what a process has still to write comes after
\* what it wrote.
BufferOrder ==
    \A p \in Process : \A k, l \in 1 .. Len(buffer[p]) :
        k < l /\ buffer[p][k].by = buffer[p][l].by => buffer[p][k].n < buffer[p][l].n

WaitsInBuffer(p) ==
    pc[p] \in {"out", "lock"} =>
        \A i \in Logged, k \in 1 .. Len(buffer[p]) :
            log[i].writer = p /\ log[i].record.by = buffer[p][k].by =>
                log[i].record.n < buffer[p][k].n

WaitsInBatch(p) ==
    pc[p] = "write" =>
        \A i \in Logged, k \in 1 .. Len(todo[p]) :
            log[i].writer = p => Before(log[i], todo[p][k])

WaitingInv == \A p \in Process : WaitsInBuffer(p) /\ WaitsInBatch(p)

LogInOrder ==
    \A i, j \in Logged : i < j /\ log[i].writer = log[j].writer => Before(log[i], log[j])

\* Who has a record: in its buffer, unless it can never write it, or written.
InBuffer(p, r) == \E k \in 1 .. Len(buffer[p]) : buffer[p][k] = r
HasWritten(p, r) == \E i \in Logged : log[i].writer = p /\ log[i].record = r
Has(p, r) == (status[p] # "stuck" /\ InBuffer(p, r)) \/ HasWritten(p, r)

\* Two processes only have the same record after a fork.
CopiesInv ==
    \A p, q \in Process : \A r \in Record :
        p # q /\ Has(p, r) /\ Has(q, r) => r \in copied

\* Where half h of the n-th record of p is.
InLog(p, n, h) ==
    \E i \in Logged : log[i].record.by = p /\ log[i].record.n = n /\ log[i].half = h
Pending(p, n, h) ==
    \/ /\ pc[p] \in {"out", "lock"}
       /\ \E k \in 1 .. Len(buffer[p]) : buffer[p][k].by = p /\ buffer[p][k].n = n
    \/ /\ pc[p] = "write"
       /\ \E k \in 1 .. Len(todo[p]) :
            todo[p][k].record.by = p /\ todo[p][k].record.n = n /\ todo[p][k].half = h
Dropped(p, n) ==
    \E d \in dropped : d.writer = p /\ d.record.by = p /\ d.record.n = n

\* A record is never lost without a failure.
Accounted(p) ==
    \A n \in 1 .. calls[p] :
        Dropped(p, n) \/ \A h \in {1, 2} : InLog(p, n, h) \/ Pending(p, n, h)

NothingLost == \A p \in Process : status[p] # "dead" => Accounted(p)

-----------------------------------------------------------------------------
(* Steps                                                                   *)

\* What a process has to write are its records.
LEMMA BatchIsBuffer ==
    ASSUME TInv, Batches, NEW p \in Process, pc[p] = "write", NEW k \in 1 .. Len(todo[p])
    PROVE  /\ todo[p][k] \in Half
           /\ todo[p][k].writer = p
           /\ InBuffer(p, todo[p][k].record)
  <1>1. buffer[p] \in Seq(Record) /\ todo[p] \in Seq(Half)
    BY DEF TInv, TypeOK
  <1>2. Size(p) \in Nat /\ Len(todo[p]) \in Nat /\ Len(todo[p]) <= Size(p)
    <2>1. Len(buffer[p]) \in Nat /\ Len(todo[p]) \in Nat
      BY <1>1
    <2>2. Size(p) \in Nat
      BY <2>1 DEF Size
    <2>3. Len(todo[p]) <= Size(p)
      BY DEF Batches
    <2> QED
      BY <2>1, <2>2, <2>3
  <1> DEFINE i == k + (Size(p) - Len(todo[p]))
  <1>3. i \in 1 .. Size(p) /\ todo[p][k] = Halves(p)[i]
    BY <1>2 DEF Batches
  <1>4. i \in 1 .. Len(Halves(p))
    BY <1>1, <1>3, HalvesType DEF Size
  <1>5. /\ (i + 1) \div 2 \in 1 .. Len(buffer[p])
        /\ Halves(p)[i].record = buffer[p][(i + 1) \div 2]
        /\ Halves(p)[i].writer = p
    BY <1>1, <1>4, HalvesType
  <1>6. todo[p][k] \in Half
    BY <1>1
  <1> QED
    BY <1>3, <1>5, <1>6 DEF InBuffer

\* What p wrote in a step is at the end of the log.
Wrote(p, n) ==
    /\ MayWrite(p, n)
    /\ Len(log') = Len(log) + n
    /\ \A i \in 1 .. Len(log) : log'[i] = log[i]
    /\ \A k \in 1 .. n : log'[Len(log) + k] = todo[p][k]
    /\ Len(todo'[p]) = Len(todo[p]) - n
    /\ \A k \in 1 .. Len(todo[p]) - n : todo'[p][k] = todo[p][k + n]
    /\ pc'[p] = IF n = Len(todo[p]) THEN "unlock" ELSE "write"

LEMMA WriteIs ==
    ASSUME TypeOK, NEW p \in Process, Write(p)
    PROVE  /\ \E n \in 1 .. Len(todo[p]) : Wrote(p, n)
           /\ pc[p] = "write"
           /\ \A q \in Process \ {p} : todo'[q] = todo[q] /\ pc'[q] = pc[q]
           /\ UNCHANGED <<setting, process_vars, past_vars, reader_vars>>
  <1> DEFINE t == todo[p]
  <1>1. PICK n \in 1 .. Len(t) :
          /\ MayWrite(p, n)
          /\ log' = log \o SubSeq(t, 1, n)
          /\ todo' = [todo EXCEPT ![p] = SubSeq(@, n + 1, Len(@))]
    BY DEF Write
  <1>2. t \in Seq(Half) /\ log \in Seq(Half) /\ todo \in [Process -> Seq(Half)]
    BY DEF TypeOK
  <1>3. /\ todo'[p] = SubSeq(t, n + 1, Len(t))
        /\ \A q \in Process \ {p} : todo'[q] = todo[q]
    BY <1>1, <1>2
  <1>4. /\ Len(log') = Len(log) + n
        /\ \A i \in 1 .. Len(log) : log'[i] = log[i]
        /\ \A k \in 1 .. n : log'[Len(log) + k] = t[k]
    BY <1>1, <1>2
  <1>5. /\ Len(todo'[p]) = Len(t) - n
        /\ \A k \in 1 .. Len(t) - n : todo'[p][k] = t[k + n]
    BY <1>2, <1>3
  <1>6. todo'[p] = <<>> <=> n = Len(t)
    <2>1. todo'[p] \in Seq(Half) /\ Len(t) \in Nat /\ n \in Nat
      BY <1>2, <1>3
    <2> QED
      BY <1>5, <2>1
  <1>7. /\ pc' = [pc EXCEPT ![p] = IF todo'[p] = <<>> THEN "unlock" ELSE "write"]
        /\ pc[p] = "write" /\ pc \in [Process -> {"out", "lock", "write", "unlock"}]
    BY DEF Write, TypeOK
  <1>8. pc'[p] = (IF n = Len(t) THEN "unlock" ELSE "write")
        /\ \A q \in Process \ {p} : pc'[q] = pc[q]
    BY <1>6, <1>7
  <1>9. Wrote(p, n)
    BY <1>1, <1>4, <1>5, <1>8 DEF Wrote
  <1> QED
    BY <1>3, <1>7, <1>8, <1>9 DEF Write

\* What most steps do: the log is as it was, and a buffer is as it was or
\* empty.
Quiet ==
    /\ UNCHANGED <<log, calls, copied>>
    /\ \A q \in Process :
         /\ status'[q] \in {"unborn", "stuck"} => status'[q] = status[q]
         /\ \/ buffer'[q] = <<>>
            \/ buffer'[q] = buffer[q] /\ (status[q] = "stuck" => status'[q] = "stuck")
         /\ pc'[q] \in {"out", "lock"} => pc[q] \in {"out", "lock"} \/ buffer'[q] = <<>>
         /\ pc'[q] = "write" => pc[q] = "write" /\ todo'[q] = todo[q]
         /\ status[q] = "stuck" /\ pc[q] = "out" => pc'[q] = "out"
         /\ status'[q] = "returned" /\ status[q] # "returned" =>
              pc'[q] = "out" /\ buffer'[q] = <<>>
         /\ status[q] = "returned" /\ pc[q] = "out" => pc'[q] = "out"

LEMMA QuietStep ==
    ASSUME TypeOK,
           \/ \E p \in Process : WriteFails(p) \/ Unlock(p) \/ Return(p) \/ Ends(p)
           \/ Read \/ ReadEnough \/ UNCHANGED vars
    PROVE  Quiet
  <1>1. ASSUME NEW p \in Process, WriteFails(p) PROVE Quiet
    BY <1>1 DEF WriteFails, Goes, process_vars, Quiet, TypeOK
  <1>2. ASSUME NEW p \in Process, Unlock(p) PROVE Quiet
    BY <1>2 DEF Unlock, Goes, EmptyBuffer, past_vars, Quiet, TypeOK
  <1>3. ASSUME NEW p \in Process, Return(p) PROVE Quiet
    BY <1>3 DEF Return, flush_vars, past_vars, Quiet, TypeOK
  <1>4. ASSUME NEW p \in Process, Ends(p) PROVE Quiet
    BY <1>4 DEF Ends, Quiet, TypeOK
  <1>5. ASSUME Read \/ ReadEnough \/ UNCHANGED vars PROVE Quiet
    BY <1>5 DEF Read, ReadEnough, vars, process_vars, flush_vars, past_vars, Quiet
  <1> QED
    BY <1>1, <1>2, <1>3, <1>4, <1>5

\* A call puts its record, the next one of its process, at the end of a buffer.
LEMMA CallIs ==
    ASSUME TypeOK, NEW p \in Process, NEW t \in Thread, Call(p, t)
    PROVE  /\ NewRecord(p, t) \in Record
           /\ status[p] = "running" /\ status' = status
           /\ UNCHANGED <<log, todo, copied, dropped>>
           /\ calls'[p] = calls[p] + 1
           /\ Len(buffer'[p]) = Len(buffer[p]) + 1
           /\ \A k \in 1 .. Len(buffer[p]) : buffer'[p][k] = buffer[p][k]
           /\ buffer'[p][Len(buffer[p]) + 1] = NewRecord(p, t)
           /\ pc[p] = "out" /\ pc'[p] \in {"out", "lock"}
           /\ \A q \in Process \ {p} : UNCHANGED <<calls[q], buffer[q], pc[q]>>
  <1>1. ThreadId(p, t) \in Id
    BY DEF ThreadId, Id, TypeOK
  <1>2. NewRecord(p, t) \in Record
    BY <1>1 DEF NewRecord, Record, TypeOK
  <1>3. buffer[p] \in Seq(Record) /\ buffer'[p] = Append(buffer[p], NewRecord(p, t))
    BY DEF Call, NewRecord, TypeOK
  <1>4. /\ Len(buffer'[p]) = Len(buffer[p]) + 1
        /\ \A k \in 1 .. Len(buffer[p]) : buffer'[p][k] = buffer[p][k]
        /\ buffer'[p][Len(buffer[p]) + 1] = NewRecord(p, t)
    <2> HIDE DEF NewRecord
    <2> QED
      BY <1>2, <1>3
  <1>5. /\ pc[p] = "out" /\ pc'[p] \in {"out", "lock"} /\ calls'[p] = calls[p] + 1
        /\ \A q \in Process \ {p} : UNCHANGED <<calls[q], buffer[q], pc[q]>>
    BY DEF Call, Goes, TypeOK
  <1> QED
    BY <1>2, <1>4, <1>5 DEF Call

-----------------------------------------------------------------------------
(* What is recorded was executed, and who waits                            *)

LEMMA ExecutedStep ==
    ASSUME TInv, HasLock, Batches, ExecutedInv, [Next]_vars
    PROVE  ExecutedInv'
  <1>t. /\ \A q \in Process : buffer[q] \in Seq(Record)
        /\ \A q \in Process : \A k \in 1 .. Len(buffer[q]) :
             buffer[q][k].by \in Process /\ buffer[q][k].n \in Nat
        /\ \A i \in 1 .. Len(log) : log[i].record.by \in Process /\ log[i].record.n \in Nat
        /\ Len(log) \in Nat
        /\ calls \in [Process -> Nat]
        /\ \A q \in Process : Len(buffer[q]) \in Nat
    <2>1. \A q \in Process : \A k \in 1 .. Len(buffer[q]) : buffer[q][k] \in Record
      BY DEF TInv, TypeOK
    <2>2. \A i \in 1 .. Len(log) : log[i] \in Half
      BY DEF TInv, TypeOK
    <2>3. \A r \in Record : r.by \in Process /\ r.n \in Nat
      BY DEF Record
    <2>4. \A h \in Half : h.record \in Record
      BY DEF Half
    <2>5. \A q \in Process : buffer[q] \in Seq(Record) /\ Len(buffer[q]) \in Nat
      BY DEF TInv, TypeOK
    <2>6. Len(log) \in Nat /\ calls \in [Process -> Nat]
      BY DEF TInv, TypeOK
    <2> QED
      BY <2>1, <2>2, <2>3, <2>4, <2>5, <2>6
  <1>1. ASSUME NEW p \in Process, NEW t \in Thread, Call(p, t) PROVE ExecutedInv'
    <2>0. /\ calls'[p] = calls[p] + 1 /\ log' = log
          /\ Len(buffer'[p]) = Len(buffer[p]) + 1
          /\ \A k \in 1 .. Len(buffer[p]) : buffer'[p][k] = buffer[p][k]
          /\ buffer'[p][Len(buffer[p]) + 1] = NewRecord(p, t)
          /\ \A q \in Process \ {p} : calls'[q] = calls[q] /\ buffer'[q] = buffer[q]
      BY <1>1, CallIs DEF TInv
    <2>1. \A q \in Process : calls[q] <= calls'[q] /\ calls[q] \in Nat /\ calls'[q] \in Nat
      <3>1. \A q \in Process : calls[q] \in Nat
        BY <1>t
      <3> QED
        BY <2>0, <3>1
    <2>2. ASSUME NEW q \in Process, NEW k \in 1 .. Len(buffer'[q])
          PROVE  Executed(buffer[q][k])'
      <3>1. CASE k \in 1 .. Len(buffer[q]) /\ buffer'[q][k] = buffer[q][k]
        <4>1. buffer[q][k].n <= calls[buffer[q][k].by]
          BY <3>1 DEF ExecutedInv, Executed
        <4>2. buffer[q][k].by \in Process /\ buffer[q][k].n \in Nat
          BY <1>t, <3>1
        <4> QED
          BY <2>1, <3>1, <4>1, <4>2 DEF Executed
      <3>2. CASE q = p /\ k = Len(buffer[p]) + 1
        <4>1. buffer'[q][k].by = p /\ buffer'[q][k].n = calls'[p]
          BY <2>0, <3>2 DEF NewRecord
        <4> QED
          BY <2>1, <4>1 DEF Executed
      <3>3. q # p => k \in 1 .. Len(buffer[q]) /\ buffer'[q][k] = buffer[q][k]
        BY <2>0
      <3>4. q = p => k = Len(buffer[p]) + 1 \/ k \in 1 .. Len(buffer[p])
        <4>1. Len(buffer[p]) \in Nat
          BY <1>t
        <4> QED
          BY <2>0, <4>1
      <3> QED
        BY <2>0, <3>1, <3>2, <3>3, <3>4
    <2>3. ASSUME NEW i \in 1 .. Len(log) PROVE Executed(log[i].record)'
      <3>1. log[i].record.n <= calls[log[i].record.by] /\ log' = log
        BY <2>0 DEF ExecutedInv, Executed, Logged
      <3>2. log[i].record.by \in Process /\ log[i].record.n \in Nat
        BY <1>t
      <3> QED
        BY <2>1, <3>1, <3>2 DEF Executed
    <2> QED
      BY <2>0, <2>2, <2>3 DEF ExecutedInv, Logged
  <1>2. ASSUME NEW p \in Process, Write(p) PROVE ExecutedInv'
    <2>1. buffer' = buffer /\ calls' = calls /\ pc[p] = "write"
      BY <1>2 DEF Write, process_vars, past_vars
    <2>2. PICK n \in 1 .. Len(todo[p]) : Wrote(p, n)
      BY <1>2, WriteIs DEF TInv
    <2>3. \A k \in 1 .. Len(todo[p]) : Executed(todo[p][k].record)
      BY <2>1, BatchIsBuffer DEF InBuffer, ExecutedInv
    <2>4. ASSUME NEW i \in 1 .. Len(log') PROVE Executed(log'[i].record)
      <3>1. CASE i \in 1 .. Len(log)
        BY <2>2, <3>1 DEF Wrote, ExecutedInv, Logged
      <3>2. CASE i \notin 1 .. Len(log)
        <4>0. Len(todo[p]) \in Nat
          BY DEF TInv, TypeOK
        <4>1. i - Len(log) \in 1 .. n /\ Len(log) + (i - Len(log)) = i
              /\ i - Len(log) \in 1 .. Len(todo[p])
          BY <1>t, <2>2, <3>2, <4>0 DEF Wrote
        <4> QED
          BY <2>2, <2>3, <4>1 DEF Wrote
      <3> QED
        BY <3>1, <3>2
    <2> QED
      BY <2>1, <2>4 DEF ExecutedInv, Executed, Logged
  <1>3. ASSUME log' = log, calls' = calls,
               \A q \in Process : buffer'[q] = <<>> \/ \E p \in Process : buffer'[q] = buffer[p]
        PROVE ExecutedInv'
    BY <1>3 DEF ExecutedInv, Executed, Logged
  <1>4. ASSUME Quiet PROVE ExecutedInv'
    BY <1>3, <1>4 DEF Quiet
  <1>5. ASSUME NEW p \in Process, Lock(p) PROVE ExecutedInv'
    BY <1>3, <1>5 DEF Lock, process_vars, past_vars
  <1>6. ASSUME NEW p \in Process, NEW t \in Thread, NEW c \in Process, Fork(p, t, c) PROVE ExecutedInv'
    BY <1>3, <1>6 DEF Fork, TInv, TypeOK
  <1> QED
    BY <1>1, <1>2, <1>4, <1>5, <1>6, QuietStep DEF TInv, Next, Flush, Die, SigPipe, Process

LEMMA IdleStep ==
    ASSUME TInv, HasLock, Batches, IdleInv, [Next]_vars
    PROVE  IdleInv'
  <1>1. ASSUME NEW p \in Process, NEW t \in Thread, Call(p, t) PROVE IdleInv'
    <2>1. /\ status[p] = "running" /\ status' = status /\ log' = log
          /\ \A q \in Process \ {p} : UNCHANGED <<calls[q], buffer[q], pc[q]>>
      BY <1>1, CallIs DEF TInv
    <2> QED
      BY <2>1 DEF IdleInv, Logged
  <1>2. ASSUME NEW p \in Process, Lock(p) PROVE IdleInv'
    <2>1. /\ UNCHANGED <<calls, status, buffer, log>> /\ pc[p] = "lock"
          /\ \A q \in Process \ {p} : pc'[q] = pc[q]
      BY <1>2 DEF Lock, Goes, process_vars, past_vars, TInv, TypeOK
    <2> QED
      BY <2>1 DEF IdleInv, Logged
  <1>3. ASSUME NEW p \in Process, Write(p) PROVE IdleInv'
    <2>1. /\ UNCHANGED <<calls, status, buffer>> /\ pc[p] = "write"
          /\ \A q \in Process \ {p} : pc'[q] = pc[q]
      BY <1>3, WriteIs DEF process_vars, past_vars, TInv
    <2>2. PICK n \in 1 .. Len(todo[p]) : Wrote(p, n)
      BY <1>3, WriteIs DEF TInv
    <2>3. status[p] # "unborn"
      BY <2>1 DEF HasLock
    <2>4. \A k \in 1 .. Len(todo[p]) : todo[p][k].writer = p
      BY <2>1, BatchIsBuffer
    <2>5. Len(log) \in Nat /\ Len(todo[p]) \in Nat
      BY DEF TInv, TypeOK
    <2>6. ASSUME NEW i \in 1 .. Len(log'), i \notin 1 .. Len(log) PROVE log'[i].writer = p
      <3>1. i - Len(log) \in 1 .. n /\ Len(log) + (i - Len(log)) = i
            /\ i - Len(log) \in 1 .. Len(todo[p])
        BY <2>2, <2>5, <2>6 DEF Wrote
      <3> QED
        BY <2>2, <2>4, <3>1 DEF Wrote
    <2>7. \A i \in 1 .. Len(log) : log'[i] = log[i]
      BY <2>2 DEF Wrote
    <2> HIDE DEF TInv, HasLock, Batches
    <2>8. ASSUME NEW q \in Process, status[q] = "unborn"
          PROVE  calls[q] = 0 /\ \A i \in Logged' : log'[i].writer # q
      <3>1. q # p
        BY <2>3, <2>8
      <3>2. calls[q] = 0 /\ \A i \in 1 .. Len(log) : log[i].writer # q
        BY <2>8 DEF IdleInv, Logged
      <3>3. ASSUME NEW i \in 1 .. Len(log') PROVE log'[i].writer # q
        BY <2>6, <2>7, <3>1, <3>2
      <3> QED
        BY <3>2, <3>3 DEF Logged
    <2>9. ASSUME NEW q \in Process
          PROVE  /\ status[q] = "stuck" => pc'[q] = "out"
                 /\ status[q] = "returned" => pc'[q] = "out" /\ buffer[q] = <<>>
      BY <2>1 DEF IdleInv
    <2> QED
      BY <2>1, <2>8, <2>9 DEF IdleInv
  <1>4. ASSUME Quiet PROVE IdleInv'
    <2>1. ASSUME NEW p \in Process
          PROVE  /\ status'[p] = "unborn" => calls'[p] = 0 /\ \A i \in Logged' : log'[i].writer # p
                 /\ status'[p] = "stuck" => pc'[p] = "out"
                 /\ status'[p] = "returned" => pc'[p] = "out" /\ buffer'[p] = <<>>
      BY <1>4 DEF Quiet, IdleInv, Logged
    <2> QED
      BY <2>1 DEF IdleInv
  <1>5. ASSUME NEW p \in Process, NEW t \in Thread, NEW c \in Process, Fork(p, t, c) PROVE IdleInv'
    <2>1. /\ status' = [status EXCEPT ![c] = IF pc[p] = "out" THEN "running" ELSE "stuck"]
          /\ \A q \in Process \ {c} : buffer'[q] = buffer[q]
          /\ UNCHANGED <<pc, calls, log>> /\ status[c] = "unborn"
      BY <1>5 DEF Fork, flush_vars, TInv, TypeOK
    <2>2. pc[c] = "out"
      BY <2>1 DEF HasLock
    <2> QED
      BY <2>1, <2>2 DEF IdleInv, Logged, TInv, TypeOK
  <1> QED
    BY <1>1, <1>2, <1>3, <1>4, <1>5, QuietStep DEF TInv, Next, Flush, Die, SigPipe, Process

-----------------------------------------------------------------------------
(* The order of records                                                    *)

LEMMA RecordTypes ==
    ASSUME TypeOK
    PROVE  /\ \A q \in Process : buffer[q] \in Seq(Record) /\ Len(buffer[q]) \in Nat
           /\ \A q \in Process : \A k \in 1 .. Len(buffer[q]) :
                /\ buffer[q][k] \in Record
                /\ buffer[q][k].by \in Process
                /\ buffer[q][k].n \in Nat
           /\ \A i \in 1 .. Len(log) :
                /\ log[i] \in Half
                /\ log[i].writer \in Process
                /\ log[i].record \in Record
                /\ log[i].record.by \in Process
                /\ log[i].record.n \in Nat
           /\ Len(log) \in Nat
           /\ \A q \in Process : todo[q] \in Seq(Half) /\ Len(todo[q]) \in Nat
           /\ \A q \in Process : calls[q] \in Nat
  <1>1. \A q \in Process : \A k \in 1 .. Len(buffer[q]) : buffer[q][k] \in Record
    BY DEF TypeOK
  <1>2. \A i \in 1 .. Len(log) : log[i] \in Half
    BY DEF TypeOK
  <1>3. \A r \in Record : r.by \in Process /\ r.n \in Nat
    BY DEF Record
  <1>4. \A h \in Half : h.record \in Record /\ h.writer \in Process
    BY DEF Half
  <1>5. \A q \in Process : buffer[q] \in Seq(Record) /\ Len(buffer[q]) \in Nat
    BY DEF TypeOK
  <1>6. Len(log) \in Nat /\ \A q \in Process : calls[q] \in Nat
    BY DEF TypeOK
  <1>7. \A q \in Process : todo[q] \in Seq(Half) /\ Len(todo[q]) \in Nat
    BY DEF TypeOK
  <1> QED
    BY <1>1, <1>2, <1>3, <1>4, <1>5, <1>6, <1>7

LEMMA BufferStep ==
    ASSUME TInv, ExecutedInv, BufferOrder, [Next]_vars
    PROVE  BufferOrder'
  <1>1. ASSUME NEW p \in Process, NEW t \in Thread, Call(p, t) PROVE BufferOrder'
    <2>0. /\ Len(buffer'[p]) = Len(buffer[p]) + 1
          /\ \A k \in 1 .. Len(buffer[p]) : buffer'[p][k] = buffer[p][k]
          /\ buffer'[p][Len(buffer[p]) + 1] = NewRecord(p, t)
          /\ \A q \in Process \ {p} : buffer'[q] = buffer[q]
      BY <1>1, CallIs DEF TInv
    <2>1. ASSUME NEW k \in 1 .. Len(buffer'[p]), NEW l \in 1 .. Len(buffer'[p]),
                 k < l, buffer'[p][k].by = buffer'[p][l].by
          PROVE  buffer'[p][k].n < buffer'[p][l].n
      <3>0. Len(buffer[p]) \in Nat /\ calls[p] \in Nat
        BY RecordTypes DEF TInv
      <3>1. k \in 1 .. Len(buffer[p]) /\ buffer'[p][k] = buffer[p][k]
            /\ (l \in 1 .. Len(buffer[p]) \/ l = Len(buffer[p]) + 1)
        BY <2>0, <2>1, <3>0
      <3>2. CASE l \in 1 .. Len(buffer[p])
        <4>1. buffer'[p][l] = buffer[p][l]
          BY <2>0, <3>2
        <4> QED
          BY <2>1, <3>1, <3>2, <4>1 DEF BufferOrder
      <3>3. CASE l = Len(buffer[p]) + 1
        <4>1. buffer'[p][l].n = calls[p] + 1 /\ buffer'[p][l].by = p
          BY <2>0, <3>3 DEF NewRecord
        <4>2. buffer[p][k].n <= calls[p] /\ buffer[p][k].n \in Nat
          BY <2>1, <3>1, <4>1, RecordTypes DEF ExecutedInv, Executed, TInv
        <4> QED
          BY <3>0, <3>1, <4>1, <4>2
      <3> QED
        BY <3>1, <3>2, <3>3
    <2> QED
      BY <2>0, <2>1 DEF BufferOrder
  <1>2. ASSUME \A q \in Process : buffer'[q] = <<>> \/ \E p \in Process : buffer'[q] = buffer[p]
        PROVE BufferOrder'
    BY <1>2 DEF BufferOrder
  <1>3. ASSUME Quiet PROVE BufferOrder'
    BY <1>2, <1>3 DEF Quiet
  <1>4. ASSUME NEW p \in Process, Lock(p) \/ Write(p) PROVE BufferOrder'
    BY <1>2, <1>4 DEF Lock, Write, process_vars
  <1>5. ASSUME NEW p \in Process, NEW t \in Thread, NEW c \in Process, Fork(p, t, c) PROVE BufferOrder'
    BY <1>2, <1>5 DEF Fork, TInv, TypeOK
  <1> QED
    BY <1>1, <1>3, <1>4, <1>5, QuietStep DEF TInv, Next, Flush, Die, SigPipe, Process

LEMMA HalvesInOrder ==
    ASSUME BufferOrder, NEW p \in Process, buffer[p] \in Seq(Record),
           NEW i \in 1 .. Size(p), NEW j \in 1 .. Size(p), i < j
    PROVE  Before(Halves(p)[i], Halves(p)[j])
  <1> DEFINE b(k) == (k + 1) \div 2
             side(k) == IF k % 2 = 1 THEN 1 ELSE 2
  <1>1. \A k \in 1 .. Size(p) :
          Halves(p)[k] = [record |-> buffer[p][b(k)], half |-> side(k), writer |-> p]
    BY DEF Halves, Size
  <1>2. Len(buffer[p]) \in Nat /\ Size(p) = 2 * Len(buffer[p])
    BY DEF Size
  <1>3. \A k \in 1 .. Size(p) : b(k) \in 1 .. Len(buffer[p])
    BY <1>2
  <1>4. b(i) < b(j) \/ (b(i) = b(j) /\ side(i) < side(j))
    <2>1. i \in Nat /\ j \in Nat
      BY <1>2
    <2>2. b(i) <= b(j) /\ b(i) \in Nat /\ b(j) \in Nat
      BY <2>1
    <2>3. b(i) = b(j) => i % 2 = 1 /\ j % 2 = 0
      BY <2>1
    <2>4. b(i) = b(j) => side(i) = 1 /\ side(j) = 2
      BY <2>3
    <2> HIDE DEF b, side
    <2> QED
      BY <2>2, <2>4
  <1> HIDE DEF b, side
  <1>5. ASSUME NEW k \in 1 .. Size(p)
        PROVE  Halves(p)[k].record = buffer[p][b(k)] /\ Halves(p)[k].half = side(k)
    <2>1. Halves(p)[k] = [record |-> buffer[p][b(k)], half |-> side(k), writer |-> p]
      BY <1>1
    <2> QED
      BY <2>1
  <1> QED
    BY <1>3, <1>4, <1>5 DEF Before, BufferOrder

LEMMA BatchInOrder ==
    ASSUME TInv, Batches, BufferOrder, NEW p \in Process, pc[p] = "write",
           NEW k \in 1 .. Len(todo[p]), NEW l \in 1 .. Len(todo[p]), k < l
    PROVE  Before(todo[p][k], todo[p][l])
  <1>1. Len(buffer[p]) \in Nat /\ Len(todo[p]) \in Nat
    BY RecordTypes DEF TInv
  <1>2. Size(p) \in Nat /\ Len(todo[p]) <= Size(p)
    <2>1. Size(p) \in Nat
      BY <1>1 DEF Size
    <2> QED
      BY <2>1 DEF Batches
  <1> DEFINE d == Size(p) - Len(todo[p])
  <1>3. k + d \in 1 .. Size(p) /\ l + d \in 1 .. Size(p) /\ k + d < l + d
    BY <1>1, <1>2
  <1>4. todo[p][k] = Halves(p)[k + d] /\ todo[p][l] = Halves(p)[l + d]
    BY DEF Batches
  <1>5. buffer[p] \in Seq(Record)
    BY RecordTypes DEF TInv
  <1> HIDE DEF d
  <1> QED
    BY <1>3, <1>4, <1>5, HalvesInOrder

\* A position of the log after a write is an old one, or one of the batch.
LEMMA OldOrNew ==
    ASSUME TypeOK, NEW p \in Process, NEW n \in 1 .. Len(todo[p]), Wrote(p, n),
           NEW i \in 1 .. Len(log')
    PROVE  \/ i \in 1 .. Len(log) /\ log'[i] = log[i]
           \/ \E k \in 1 .. Len(todo[p]) :
                k <= n /\ i = Len(log) + k /\ log'[i] = todo[p][k]
  <1>1. Len(log) \in Nat /\ Len(todo[p]) \in Nat
    BY RecordTypes
  <1>2. CASE i \in 1 .. Len(log)
    BY <1>2 DEF Wrote
  <1>3. CASE i \notin 1 .. Len(log)
    <2>1. /\ i - Len(log) \in 1 .. n /\ Len(log) + (i - Len(log)) = i
          /\ i - Len(log) \in 1 .. Len(todo[p]) /\ i - Len(log) <= n
      BY <1>1, <1>3 DEF Wrote
    <2> QED
      BY <2>1 DEF Wrote
  <1> QED
    BY <1>2, <1>3

LEMMA LogOrderStep ==
    ASSUME TInv, Batches, BufferOrder, WaitingInv, LogInOrder, [Next]_vars
    PROVE  LogInOrder'
  <1>1. ASSUME NEW p \in Process, Write(p) PROVE LogInOrder'
    <2>1. pc[p] = "write"
      BY <1>1 DEF Write
    <2>2. PICK n \in 1 .. Len(todo[p]) : Wrote(p, n)
      BY <1>1, WriteIs DEF TInv
    <2>3. \A k \in 1 .. Len(todo[p]) : todo[p][k].writer = p
      BY <2>1, BatchIsBuffer
    <2>4. Len(log) \in Nat /\ Len(todo[p]) \in Nat
      BY RecordTypes DEF TInv
    <2>5. ASSUME NEW i \in 1 .. Len(log'), NEW j \in 1 .. Len(log'), i < j,
                 log'[i].writer = log'[j].writer
          PROVE  Before(log'[i], log'[j])
      <3>1. CASE j \in 1 .. Len(log) /\ log'[j] = log[j]
        <4>1. i \in 1 .. Len(log)
          BY <2>4, <2>5, <3>1
        <4>2. log'[i] = log[i]
          BY <2>2, <4>1 DEF Wrote
        <4> QED
          BY <2>5, <3>1, <4>1, <4>2 DEF LogInOrder, Logged
      <3>2. ASSUME NEW l \in 1 .. Len(todo[p]), l <= n, j = Len(log) + l, log'[j] = todo[p][l]
            PROVE  Before(log'[i], log'[j])
        <4>1. CASE i \in 1 .. Len(log) /\ log'[i] = log[i]
          <5>1. log[i].writer = p
            BY <2>3, <2>5, <3>2, <4>1
          <5> QED
            BY <2>1, <3>2, <4>1, <5>1 DEF WaitingInv, WaitsInBatch, Logged
        <4>2. ASSUME NEW k \in 1 .. Len(todo[p]), i = Len(log) + k, log'[i] = todo[p][k]
              PROVE  Before(log'[i], log'[j])
          <5>1. k < l
            BY <2>4, <2>5, <3>2, <4>2
          <5> QED
            BY <2>1, <3>2, <4>2, <5>1, BatchInOrder
        <4> QED
          BY <2>2, <4>1, <4>2, OldOrNew DEF TInv
      <3> QED
        BY <2>2, <3>1, <3>2, OldOrNew DEF TInv
    <2> QED
      BY <2>5 DEF LogInOrder, Logged, Before
  <1>2. ASSUME log' = log PROVE LogInOrder'
    BY <1>2 DEF LogInOrder, Logged, Before
  <1>3. ASSUME NEW p \in Process, (\E t \in Thread : Call(p, t)) \/ Lock(p) PROVE log' = log
    BY <1>3 DEF Call, Lock
  <1>4. ASSUME NEW p \in Process, NEW t \in Thread, NEW c \in Process, Fork(p, t, c) PROVE log' = log
    BY <1>4 DEF Fork
  <1>5. ASSUME Quiet PROVE log' = log
    BY <1>5 DEF Quiet
  <1> QED
    BY <1>1, <1>2, <1>3, <1>4, <1>5, QuietStep
       DEF TInv, Next, Flush, Die, SigPipe, Process

\* A process that does nothing waits for what it waited for.
LEMMA WaitingStays ==
    ASSUME WaitingInv, NEW q \in Process, log' = log,
           pc'[q] \in {"out", "lock"} =>
               buffer'[q] = <<>> \/ (buffer'[q] = buffer[q] /\ pc[q] \in {"out", "lock"}),
           pc'[q] = "write" => pc[q] = "write" /\ todo'[q] = todo[q]
    PROVE  WaitsInBuffer(q)' /\ WaitsInBatch(q)'
  <1>1. WaitsInBuffer(q)'
    BY DEF WaitingInv, WaitsInBuffer, Logged
  <1>2. WaitsInBatch(q)'
    BY DEF WaitingInv, WaitsInBatch, Logged, Before
  <1> QED
    BY <1>1, <1>2

LEMMA WaitingStep ==
    ASSUME TInv, HasLock, Batches, ExecutedInv, IdleInv, BufferOrder, WaitingInv, [Next]_vars
    PROVE  WaitingInv'
  <1>1. ASSUME NEW p \in Process, NEW t \in Thread, Call(p, t) PROVE WaitingInv'
    <2>0. /\ log' = log /\ todo' = todo /\ pc[p] = "out" /\ pc'[p] \in {"out", "lock"}
          /\ Len(buffer'[p]) = Len(buffer[p]) + 1
          /\ \A k \in 1 .. Len(buffer[p]) : buffer'[p][k] = buffer[p][k]
          /\ buffer'[p][Len(buffer[p]) + 1] = NewRecord(p, t)
          /\ \A q \in Process \ {p} : buffer'[q] = buffer[q] /\ pc'[q] = pc[q]
      BY <1>1, CallIs DEF TInv
    <2>1. ASSUME NEW i \in 1 .. Len(log), NEW k \in 1 .. Len(buffer'[p]),
                 log[i].writer = p, log[i].record.by = buffer'[p][k].by
          PROVE  log[i].record.n < buffer'[p][k].n
      <3>0. Len(buffer[p]) \in Nat /\ calls[p] \in Nat /\ log[i].record.n \in Nat
        BY RecordTypes DEF TInv
      <3>1. k \in 1 .. Len(buffer[p]) \/ k = Len(buffer[p]) + 1
        BY <2>0, <3>0
      <3>2. CASE k \in 1 .. Len(buffer[p])
        BY <2>0, <2>1, <3>2 DEF WaitingInv, WaitsInBuffer, Logged
      <3>3. CASE k = Len(buffer[p]) + 1
        <4>1. buffer'[p][k].n = calls[p] + 1 /\ buffer'[p][k].by = p
          BY <2>0, <3>3 DEF NewRecord
        <4>2. log[i].record.n <= calls[p]
          BY <2>1, <4>1 DEF ExecutedInv, Executed, Logged
        <4> QED
          BY <3>0, <4>1, <4>2
      <3> QED
        BY <3>1, <3>2, <3>3
    <2>2. WaitsInBuffer(p)' /\ WaitsInBatch(p)'
      BY <2>0, <2>1 DEF WaitsInBuffer, WaitsInBatch, Logged
    <2> QED
      BY <2>0, <2>2, WaitingStays DEF WaitingInv
  <1>2. ASSUME NEW p \in Process, Lock(p) PROVE WaitingInv'
    <2>1. /\ log' = log /\ buffer' = buffer /\ pc[p] = "lock" /\ pc'[p] = "write"
          /\ todo'[p] = Halves(p)
          /\ \A q \in Process \ {p} : todo'[q] = todo[q] /\ pc'[q] = pc[q]
      BY <1>2 DEF Lock, Goes, process_vars, TInv, TypeOK
    <2>2. ASSUME NEW i \in 1 .. Len(log), NEW k \in 1 .. Len(Halves(p)), log[i].writer = p
          PROVE  Before(log[i], Halves(p)[k])
      <3>1. buffer[p] \in Seq(Record)
        BY RecordTypes DEF TInv
      <3>2. \E m \in 1 .. Len(buffer[p]) : Halves(p)[k].record = buffer[p][m]
        BY <3>1, HalvesType
      <3>3. PICK m \in 1 .. Len(buffer[p]) : Halves(p)[k].record = buffer[p][m]
        BY <3>2
      <3>4. log[i].record.by = buffer[p][m].by => log[i].record.n < buffer[p][m].n
        BY <2>1, <2>2 DEF WaitingInv, WaitsInBuffer, Logged
      <3> QED
        BY <3>3, <3>4 DEF Before
    <2>3. WaitsInBuffer(p)' /\ WaitsInBatch(p)'
      BY <2>1, <2>2 DEF WaitsInBuffer, WaitsInBatch, Logged, Before
    <2> QED
      BY <2>1, <2>3, WaitingStays DEF WaitingInv
  <1>3. ASSUME NEW p \in Process, Write(p) PROVE WaitingInv'
    <2>1. /\ pc[p] = "write" /\ buffer' = buffer
          /\ \A q \in Process \ {p} : todo'[q] = todo[q] /\ pc'[q] = pc[q]
      BY <1>3, WriteIs DEF TInv, process_vars
    <2>2. PICK n \in 1 .. Len(todo[p]) : Wrote(p, n)
      BY <1>3, WriteIs DEF TInv
    <2>3. \A k \in 1 .. Len(todo[p]) : todo[p][k].writer = p
      BY <2>1, BatchIsBuffer
    <2>4. ASSUME NEW q \in Process \ {p} PROVE WaitsInBuffer(q)' /\ WaitsInBatch(q)'
      <3>1. ASSUME NEW i \in 1 .. Len(log'), log'[i].writer = q
            PROVE  i \in 1 .. Len(log) /\ log'[i] = log[i]
        <4>1. \/ i \in 1 .. Len(log) /\ log'[i] = log[i]
              \/ \E k \in 1 .. Len(todo[p]) : log'[i] = todo[p][k]
          BY <2>2, OldOrNew DEF TInv
        <4>2. q # p
          OBVIOUS
        <4> QED
          BY <2>3, <3>1, <4>1, <4>2
      <3>0. buffer'[q] = buffer[q] /\ pc'[q] = pc[q] /\ todo'[q] = todo[q]
        BY <2>1
      <3>2. WaitsInBuffer(q)'
        <4> SUFFICES ASSUME pc[q] \in {"out", "lock"},
                            NEW i \in 1 .. Len(log'), NEW k \in 1 .. Len(buffer[q]),
                            log'[i].writer = q, log'[i].record.by = buffer[q][k].by
                     PROVE  log'[i].record.n < buffer[q][k].n
          BY <3>0 DEF WaitsInBuffer, Logged
        <4>1. i \in 1 .. Len(log) /\ log'[i] = log[i]
          BY <3>1
        <4> QED
          BY <4>1 DEF WaitingInv, WaitsInBuffer, Logged
      <3>3. WaitsInBatch(q)'
        <4> SUFFICES ASSUME pc[q] = "write",
                            NEW i \in 1 .. Len(log'), NEW k \in 1 .. Len(todo[q]),
                            log'[i].writer = q
                     PROVE  Before(log'[i], todo[q][k])
          BY <3>0 DEF WaitsInBatch, Logged, Before
        <4>1. i \in 1 .. Len(log) /\ log'[i] = log[i]
          BY <3>1
        <4> QED
          BY <4>1 DEF WaitingInv, WaitsInBatch, Logged, Before
      <3> QED
        BY <3>2, <3>3
    <2>5. ASSUME NEW i \in 1 .. Len(log'), NEW k \in 1 .. Len(todo'[p]), log'[i].writer = p
          PROVE  Before(log'[i], todo'[p][k])
      <3>1. Len(todo[p]) \in Nat
        BY RecordTypes DEF TInv
      <3>2. k + n \in 1 .. Len(todo[p]) /\ todo'[p][k] = todo[p][k + n]
        BY <2>2, <3>1 DEF Wrote
      <3>3. CASE i \in 1 .. Len(log) /\ log'[i] = log[i]
        BY <2>1, <2>5, <3>2, <3>3 DEF WaitingInv, WaitsInBatch, Logged
      <3>4. ASSUME NEW l \in 1 .. Len(todo[p]), l <= n, log'[i] = todo[p][l]
            PROVE  Before(log'[i], todo'[p][k])
        <4>1. l < k + n
          BY <3>1, <3>2, <3>4
        <4> QED
          BY <2>1, <3>2, <3>4, <4>1, BatchInOrder
      <3> QED
        BY <2>2, <3>3, <3>4, OldOrNew DEF TInv
    <2>6. pc'[p] \notin {"out", "lock"}
      BY <2>2 DEF Wrote
    <2>7. WaitsInBuffer(p)' /\ WaitsInBatch(p)'
      BY <2>5, <2>6 DEF WaitsInBuffer, WaitsInBatch, Logged, Before
    <2> QED
      BY <2>4, <2>7 DEF WaitingInv
  <1>4. ASSUME Quiet PROVE WaitingInv'
    <2>1. ASSUME NEW q \in Process PROVE WaitsInBuffer(q)' /\ WaitsInBatch(q)'
      <3>1. /\ log' = log
            /\ buffer'[q] = <<>> \/ buffer'[q] = buffer[q]
            /\ pc'[q] \in {"out", "lock"} => pc[q] \in {"out", "lock"} \/ buffer'[q] = <<>>
            /\ pc'[q] = "write" => pc[q] = "write" /\ todo'[q] = todo[q]
        BY <1>4 DEF Quiet
      <3> QED
        BY <3>1, WaitingStays
    <2> QED
      BY <2>1 DEF WaitingInv
  <1>5. ASSUME NEW p \in Process, NEW t \in Thread, NEW c \in Process, Fork(p, t, c) PROVE WaitingInv'
    <2>1. /\ UNCHANGED <<log, pc, todo>> /\ status[c] = "unborn"
          /\ \A q \in Process \ {c} : buffer'[q] = buffer[q]
      BY <1>5 DEF Fork, flush_vars, TInv, TypeOK
    <2>2. pc[c] = "out" /\ \A i \in Logged : log[i].writer # c
      BY <2>1 DEF HasLock, IdleInv
    <2>3. WaitsInBuffer(c)' /\ WaitsInBatch(c)'
      BY <2>1, <2>2 DEF WaitsInBuffer, WaitsInBatch, Logged
    <2> QED
      BY <2>1, <2>3, WaitingStays DEF WaitingInv
  <1> QED
    BY <1>1, <1>2, <1>3, <1>4, <1>5, QuietStep DEF TInv, Next, Flush, Die, SigPipe, Process

OrderInv == ExecutedInv /\ IdleInv /\ BufferOrder /\ WaitingInv /\ LogInOrder
BaseInv  == TInv /\ HasLock /\ Batches

LEMMA BaseInit == Init => BaseInv
  BY TypeInit, LockInit, BatchesInit DEF BaseInv

LEMMA BaseStep == BaseInv /\ [Next]_vars => BaseInv'
  BY TypeStep, LockStep, BatchesStep DEF BaseInv, TInv

LEMMA OrderInit == Init => OrderInv
  <1> SUFFICES ASSUME Init PROVE OrderInv
    OBVIOUS
  <1>1. /\ log = <<>> /\ \A p \in Process : pc[p] = "out" /\ buffer[p] = <<>> /\ calls[p] = 0
        /\ \A p \in Process : status[p] \in {"running", "unborn"}
    BY DEF Init
  <1>2. Len(log) = 0 /\ \A p \in Process : Len(buffer[p]) = 0
    BY <1>1
  <1> QED
    BY <1>1, <1>2 DEF OrderInv, ExecutedInv, IdleInv, BufferOrder, WaitingInv,
       WaitsInBuffer, WaitsInBatch, LogInOrder, Logged

LEMMA OrderStep == BaseInv /\ OrderInv /\ [Next]_vars => OrderInv'
  BY ExecutedStep, IdleStep, BufferStep, WaitingStep, LogOrderStep DEF BaseInv, OrderInv

\* Every process writes its records in the order of its calls, and the first
\* half of each before the second one, for any processes and failures: what a
\* process has in its buffer or its batch is in order, and comes after what it
\* wrote.
THEOREM RecordsAreInOrder == Spec => []InOrder
  <1>1. BaseInv /\ OrderInv => InOrder
    <2>1. BaseInv => DOMAIN log = 1 .. Len(log)
      BY DEF BaseInv, TInv, TypeOK
    <2> QED
      BY <2>1 DEF OrderInv, LogInOrder, Logged, Before, InOrder
  <1> QED
    BY <1>1, BaseInit, BaseStep, OrderInit, OrderStep, PTL DEF Spec

-----------------------------------------------------------------------------
(* Nothing is written twice                                                *)

LEMMA HasExecuted ==
    ASSUME ExecutedInv, NEW q \in Process, NEW r, Has(q, r)
    PROVE  Executed(r)
  BY DEF ExecutedInv, Has, InBuffer, HasWritten, Logged

LEMMA CopiesInit == Init => CopiesInv
  <1> SUFFICES ASSUME Init PROVE CopiesInv
    OBVIOUS
  <1>1. Len(log) = 0 /\ \A p \in Process : Len(buffer[p]) = 0
    BY DEF Init
  <1> QED
    BY <1>1 DEF CopiesInv, Has, InBuffer, HasWritten, Logged

\* Whoever gets no record leaves the copies as they are.
LEMMA CopiesKept ==
    ASSUME CopiesInv, copied \subseteq copied',
           \A q \in Process : \A r \in Record : Has(q, r)' => Has(q, r)
    PROVE  CopiesInv'
  BY DEF CopiesInv

LEMMA CopiesStep == BaseInv /\ OrderInv /\ CopiesInv /\ [Next]_vars => CopiesInv'
  <1> SUFFICES ASSUME TInv, HasLock, Batches, ExecutedInv, IdleInv, CopiesInv, [Next]_vars
               PROVE  CopiesInv'
    BY DEF BaseInv, OrderInv
  <1>1. ASSUME NEW p \in Process, NEW t \in Thread, Call(p, t) PROVE CopiesInv'
    <2>0. /\ UNCHANGED <<log, status, copied>> /\ calls[p] \in Nat
          /\ Len(buffer'[p]) = Len(buffer[p]) + 1 /\ Len(buffer[p]) \in Nat
          /\ \A k \in 1 .. Len(buffer[p]) : buffer'[p][k] = buffer[p][k]
          /\ buffer'[p][Len(buffer[p]) + 1] = NewRecord(p, t)
          /\ \A q \in Process \ {p} : buffer'[q] = buffer[q]
      BY <1>1, CallIs, RecordTypes DEF TInv
    <2>1. ASSUME NEW q \in Process \ {p}, NEW r, Has(q, r)' PROVE Has(q, r)
      BY <2>0, <2>1 DEF Has, InBuffer, HasWritten, Logged
    <2>2. ASSUME NEW r, Has(p, r)' PROVE Has(p, r) \/ r = NewRecord(p, t)
      <3>1. CASE HasWritten(p, r)'
        BY <2>0, <3>1 DEF Has, HasWritten, Logged
      <3>2. CASE status'[p] # "stuck" /\ InBuffer(p, r)'
        <4>1. PICK k \in 1 .. Len(buffer'[p]) : buffer'[p][k] = r
          BY <3>2 DEF InBuffer
        <4>2. k \in 1 .. Len(buffer[p]) \/ k = Len(buffer[p]) + 1
          BY <2>0
        <4> QED
          BY <2>0, <3>2, <4>1, <4>2 DEF Has, InBuffer
      <3> QED
        BY <2>2, <3>1, <3>2 DEF Has
    <2>3. ASSUME NEW q \in Process PROVE ~Has(q, NewRecord(p, t))
      <3>1. ~Executed(NewRecord(p, t))
        BY <2>0 DEF Executed, NewRecord
      <3> QED
        BY <3>1, HasExecuted
    <2> QED
      BY <2>0, <2>1, <2>2, <2>3 DEF CopiesInv
  <1>2. ASSUME NEW p \in Process, Write(p) PROVE CopiesInv'
    <2>1. /\ pc[p] = "write" /\ UNCHANGED <<buffer, status, copied>>
      BY <1>2, WriteIs DEF TInv, process_vars, past_vars
    <2>2. PICK n \in 1 .. Len(todo[p]) : Wrote(p, n)
      BY <1>2, WriteIs DEF TInv
    <2>3. \A k \in 1 .. Len(todo[p]) : todo[p][k].writer = p /\ InBuffer(p, todo[p][k].record)
      BY <2>1, BatchIsBuffer
    <2>4. status[p] # "stuck"
      BY <2>1 DEF IdleInv
    <2>5. ASSUME NEW q \in Process, NEW r, HasWritten(q, r)' PROVE Has(q, r)
      <3>1. PICK i \in 1 .. Len(log') : log'[i].writer = q /\ log'[i].record = r
        BY <2>5 DEF HasWritten, Logged
      <3>2. \/ i \in 1 .. Len(log) /\ log'[i] = log[i]
            \/ \E k \in 1 .. Len(todo[p]) : log'[i] = todo[p][k]
        BY <2>2, OldOrNew DEF TInv
      <3> QED
        BY <2>3, <2>4, <3>1, <3>2 DEF Has, HasWritten, Logged
    <2>6. ASSUME NEW q \in Process, NEW r, Has(q, r)' PROVE Has(q, r)
      BY <2>1, <2>5, <2>6 DEF Has, InBuffer
    <2> QED
      BY <2>1, <2>6, CopiesKept
  <1>3. ASSUME NEW p \in Process, Lock(p) PROVE CopiesInv'
    BY <1>3, CopiesKept
       DEF Lock, process_vars, past_vars, Has, InBuffer, HasWritten, Logged
  <1>4. ASSUME Quiet PROVE CopiesInv'
    <2>1. ASSUME NEW q \in Process, NEW r, Has(q, r)' PROVE Has(q, r)
      BY <1>4, <2>1 DEF Quiet, Has, InBuffer, HasWritten, Logged
    <2> QED
      BY <1>4, <2>1, CopiesKept DEF Quiet
  <1>5. ASSUME NEW p \in Process, NEW t \in Thread, NEW c \in Process, Fork(p, t, c) PROVE CopiesInv'
    <2>1. /\ log' = log /\ status[c] = "unborn"
          /\ buffer'[c] = buffer[p]
          /\ status'[c] # "stuck" => ToSet(buffer[p]) \subseteq copied'
          /\ copied \subseteq copied'
          /\ \A q \in Process \ {c} : buffer'[q] = buffer[q] /\ status'[q] = status[q]
      BY <1>5 DEF Fork, TInv, TypeOK
    <2>2. \A i \in Logged : log[i].writer # c
      BY <2>1 DEF IdleInv
    <2>3. ASSUME NEW q \in Process \ {c}, NEW r, Has(q, r)' PROVE Has(q, r)
      BY <2>1, <2>3 DEF Has, InBuffer, HasWritten, Logged
    <2>4. ASSUME NEW r, Has(c, r)' PROVE r \in copied'
      <3>1. ~HasWritten(c, r)'
        BY <2>1, <2>2 DEF HasWritten, Logged
      <3>2. status'[c] # "stuck" /\ InBuffer(c, r)'
        BY <2>4, <3>1 DEF Has
      <3>3. r \in ToSet(buffer[p])
        <4>1. buffer[p] \in Seq(Record)
          BY RecordTypes DEF TInv
        <4>2. DOMAIN buffer[p] = 1 .. Len(buffer[p])
          BY <4>1
        <4> QED
          BY <2>1, <3>2, <4>2 DEF InBuffer, ToSet
      <3> QED
        BY <2>1, <3>2, <3>3
    <2> QED
      BY <2>1, <2>3, <2>4 DEF CopiesInv
  <1> QED
    BY <1>1, <1>2, <1>3, <1>4, <1>5, QuietStep DEF TInv, Next, Flush, Die, SigPipe, Process

\* No record is in the log twice, unless it was in the buffer of a process that
\* forked, and then every process has written it once: for any processes,
\* failures and forks of forks.
THEOREM RecordsAreWrittenOnce == Spec => []NoDuplicates
  <1>1. ASSUME BaseInv, OrderInv, CopiesInv,
               NEW i \in DOMAIN log, NEW j \in DOMAIN log, i # j,
               log[i].record = log[j].record, log[i].half = log[j].half
        PROVE  log[i].record \in copied /\ log[i].writer # log[j].writer
    <2>1. i \in 1 .. Len(log) /\ j \in 1 .. Len(log)
      BY <1>1 DEF BaseInv, TInv, TypeOK
    <2>2. log[i].record \in Record /\ log[i].record.n \in Nat /\ log[i].half \in {1, 2}
          /\ log[i].writer \in Process /\ log[j].writer \in Process
      <3>1. log[i] \in Half
        BY <1>1, <2>1, RecordTypes DEF BaseInv, TInv
      <3> QED
        BY <1>1, <2>1, <3>1, RecordTypes DEF BaseInv, TInv, Half
    <2>3. ~Before(log[i], log[j]) /\ ~Before(log[j], log[i])
      BY <1>1, <2>2 DEF Before
    <2>4. i < j \/ j < i
      BY <1>1, <2>1
    <2>5. log[i].writer # log[j].writer
      BY <1>1, <2>1, <2>3, <2>4 DEF OrderInv, LogInOrder, Logged
    <2>6. Has(log[i].writer, log[i].record) /\ Has(log[j].writer, log[i].record)
      BY <1>1, <2>1 DEF Has, HasWritten, Logged
    <2> QED
      BY <1>1, <2>2, <2>5, <2>6 DEF CopiesInv
  <1>2. BaseInv /\ OrderInv /\ CopiesInv => NoDuplicates
    BY <1>1 DEF NoDuplicates
  <1> QED
    BY <1>2, BaseInit, BaseStep, OrderInit, OrderStep, CopiesInit, CopiesStep, PTL DEF Spec

-----------------------------------------------------------------------------
(* Nothing is lost                                                         *)

\* Each record is written as both its halves.
LEMMA HalvesHave ==
    ASSUME NEW p \in Process, buffer[p] \in Seq(Record),
           NEW k \in 1 .. Len(buffer[p]), NEW h \in {1, 2}
    PROVE  \E i \in 1 .. Len(Halves(p)) :
             Halves(p)[i].record = buffer[p][k] /\ Halves(p)[i].half = h
  <1> DEFINE b(i) == (i + 1) \div 2
             side(i) == IF i % 2 = 1 THEN 1 ELSE 2
             j == 2 * k - 2 + h
  <1>1. /\ Len(Halves(p)) = 2 * Len(buffer[p]) /\ Len(buffer[p]) \in Nat
        /\ \A i \in 1 .. 2 * Len(buffer[p]) :
             Halves(p)[i] = [record |-> buffer[p][b(i)], half |-> side(i), writer |-> p]
    BY HalvesType DEF Halves
  <1>2. j \in 1 .. 2 * Len(buffer[p]) /\ b(j) = k /\ side(j) = h
    <2>1. k \in Nat
      OBVIOUS
    <2>2. CASE h = 1
      <3>1. j = 2 * k - 1
        BY <2>1, <2>2
      <3>2. (2 * k - 1) % 2 = 1 /\ ((2 * k - 1) + 1) \div 2 = k
        BY <2>1
      <3>3. 2 * k - 1 \in 1 .. 2 * Len(buffer[p])
        BY <1>1
      <3> QED
        BY <2>2, <3>1, <3>2, <3>3
    <2>3. CASE h = 2
      <3>1. j = 2 * k
        BY <2>1, <2>3
      <3>2. (2 * k) % 2 = 0 /\ (2 * k + 1) \div 2 = k
        BY <2>1
      <3>3. 2 * k \in 1 .. 2 * Len(buffer[p])
        BY <1>1
      <3> QED
        BY <2>3, <3>1, <3>2, <3>3
    <2> QED
      BY <2>2, <2>3
  <1> HIDE DEF b, side, j
  <1>3. Halves(p)[j] = [record |-> buffer[p][k], half |-> h, writer |-> p]
    BY <1>1, <1>2
  <1> QED
    BY <1>1, <1>2, <1>3

\* A record stays accounted for when what happens to it is written, dropped,
\* or pending still.
LEMMA AccountKept ==
    ASSUME NEW q \in Process, Accounted(q), calls'[q] = calls[q],
           \A n \in 1 .. calls[q] : Dropped(q, n) => Dropped(q, n)',
           \A n \in 1 .. calls[q] : \A h \in {1, 2} :
               /\ InLog(q, n, h) => InLog(q, n, h)'
               /\ Pending(q, n, h) => InLog(q, n, h)' \/ Pending(q, n, h)' \/ Dropped(q, n)'
    PROVE  Accounted(q)'
  <1> SUFFICES ASSUME NEW n \in 1 .. calls[q], ~Dropped(q, n)', NEW h \in {1, 2}
               PROVE  InLog(q, n, h)' \/ Pending(q, n, h)'
    BY DEF Accounted
  <1>1. InLog(q, n, h) \/ Pending(q, n, h)
    BY DEF Accounted
  <1> QED
    BY <1>1

\* A process whose part does not change keeps its records.
LEMMA AccountSame ==
    ASSUME NEW q \in Process, Accounted(q), UNCHANGED <<log, dropped>>, calls'[q] = calls[q],
           buffer'[q] = buffer[q], todo'[q] = todo[q],
           pc'[q] = pc[q] \/ {pc[q], pc'[q]} \subseteq {"out", "lock"}
    PROVE  Accounted(q)'
  <1>1. \A n, h : InLog(q, n, h)' <=> InLog(q, n, h)
    BY DEF InLog, Logged
  <1>2. \A n, h : Pending(q, n, h) => Pending(q, n, h)'
    BY DEF Pending
  <1>3. \A n : Dropped(q, n)' <=> Dropped(q, n)
    BY DEF Dropped
  <1> QED
    BY <1>1, <1>2, <1>3, AccountKept

LEMMA LostInit == Init => NothingLost
  <1> SUFFICES ASSUME Init, NEW p \in Process PROVE Accounted(p)
    BY DEF NothingLost
  <1>1. calls[p] = 0
    BY DEF Init
  <1> QED
    BY <1>1 DEF Accounted

LEMMA LostStep == BaseInv /\ OrderInv /\ NothingLost /\ [Next]_vars => NothingLost'
  <1> SUFFICES ASSUME TInv, HasLock, Batches, IdleInv, NothingLost, [Next]_vars,
                      NEW q \in Process, status'[q] # "dead"
               PROVE  Accounted(q)'
    BY DEF BaseInv, OrderInv, NothingLost
  <1>0. status[q] # "dead" => Accounted(q)
    BY DEF NothingLost
  <1>1. ASSUME NEW p \in Process, NEW t \in Thread, Call(p, t) PROVE Accounted(q)'
    <2>0. /\ UNCHANGED <<log, todo, dropped, status>> /\ calls[p] \in Nat
          /\ calls'[p] = calls[p] + 1 /\ pc[p] = "out" /\ pc'[p] \in {"out", "lock"}
          /\ Len(buffer'[p]) = Len(buffer[p]) + 1 /\ Len(buffer[p]) \in Nat
          /\ \A k \in 1 .. Len(buffer[p]) : buffer'[p][k] = buffer[p][k]
          /\ buffer'[p][Len(buffer[p]) + 1] = NewRecord(p, t)
          /\ \A x \in Process \ {p} : UNCHANGED <<calls[x], buffer[x], pc[x]>>
      BY <1>1, CallIs, RecordTypes DEF TInv
    <2>1. Accounted(q)
      BY <1>0, <2>0
    <2>2. CASE q # p
      BY <2>0, <2>1, <2>2, AccountSame
    <2>3. CASE q = p
      <3>1. ASSUME NEW n \in 1 .. calls[p], NEW h \in {1, 2}, Pending(p, n, h)
            PROVE  Pending(p, n, h)'
        <4>1. PICK k \in 1 .. Len(buffer[p]) : buffer[p][k].by = p /\ buffer[p][k].n = n
          BY <2>0, <3>1 DEF Pending
        <4>2. k \in 1 .. Len(buffer'[p]) /\ buffer'[p][k] = buffer[p][k]
          BY <2>0
        <4> QED
          BY <2>0, <4>1, <4>2 DEF Pending
      <3>2. ASSUME NEW m \in Nat, m = calls'[p], NEW h \in {1, 2} PROVE Pending(p, m, h)'
        <4>1. Len(buffer[p]) + 1 \in 1 .. Len(buffer'[p])
          BY <2>0
        <4>2. buffer'[p][Len(buffer[p]) + 1].by = p
              /\ buffer'[p][Len(buffer[p]) + 1].n = m
          BY <2>0, <3>2 DEF NewRecord
        <4> QED
          BY <2>0, <4>1, <4>2 DEF Pending
      <3>3. \A n, h : InLog(p, n, h) => InLog(p, n, h)'
        BY <2>0 DEF InLog, Logged
      <3>4. \A n : Dropped(p, n) => Dropped(p, n)'
        BY <2>0 DEF Dropped
      <3>5. \A n \in 1 .. calls'[p] : n \in 1 .. calls[p] \/ (n \in Nat /\ n = calls'[p])
        BY <2>0
      <3> QED
        BY <2>1, <2>3, <3>1, <3>2, <3>3, <3>4, <3>5 DEF Accounted
    <2> QED
      BY <2>2, <2>3
  <1>2. ASSUME NEW p \in Process, Lock(p) PROVE Accounted(q)'
    <2>0. /\ UNCHANGED <<log, buffer, calls, dropped, status>>
          /\ pc[p] = "lock" /\ pc'[p] = "write" /\ todo'[p] = Halves(p)
          /\ \A x \in Process \ {p} : todo'[x] = todo[x] /\ pc'[x] = pc[x]
      BY <1>2 DEF Lock, Goes, process_vars, past_vars, TInv, TypeOK
    <2>1. Accounted(q)
      BY <1>0, <2>0
    <2>2. CASE q # p
      BY <2>0, <2>1, <2>2, AccountSame
    <2>3. CASE q = p
      <3>1. ASSUME NEW n, NEW h \in {1, 2}, Pending(p, n, h) PROVE Pending(p, n, h)'
        <4>1. PICK k \in 1 .. Len(buffer[p]) : buffer[p][k].by = p /\ buffer[p][k].n = n
          BY <2>0, <3>1 DEF Pending
        <4>2. PICK i \in 1 .. Len(Halves(p)) :
                Halves(p)[i].record = buffer[p][k] /\ Halves(p)[i].half = h
          BY HalvesHave, RecordTypes DEF TInv
        <4> QED
          BY <2>0, <4>1, <4>2 DEF Pending
      <3>2. \A n, h : InLog(p, n, h) => InLog(p, n, h)'
        BY <2>0 DEF InLog, Logged
      <3>3. \A n : Dropped(p, n) => Dropped(p, n)'
        BY <2>0 DEF Dropped
      <3> QED
        BY <2>0, <2>1, <2>3, <3>1, <3>2, <3>3, AccountKept
    <2> QED
      BY <2>2, <2>3
  <1>3. ASSUME NEW p \in Process, Write(p) PROVE Accounted(q)'
    <2>0. /\ UNCHANGED <<buffer, calls, dropped, status>> /\ pc[p] = "write"
          /\ \A x \in Process \ {p} : todo'[x] = todo[x] /\ pc'[x] = pc[x]
      BY <1>3, WriteIs DEF TInv, process_vars, past_vars
    <2>1. PICK w \in 1 .. Len(todo[p]) : Wrote(p, w)
      BY <1>3, WriteIs DEF TInv
    <2>2. Accounted(q)
      BY <1>0, <2>0
    <2>3. Len(log) \in Nat /\ Len(todo[p]) \in Nat
      BY RecordTypes DEF TInv
    <2>4. \A n, h : InLog(q, n, h) => InLog(q, n, h)'
      <3>1. \A i \in 1 .. Len(log) : i \in 1 .. Len(log') /\ log'[i] = log[i]
        BY <2>1, <2>3 DEF Wrote
      <3> QED
        BY <3>1 DEF InLog, Logged
    <2>5. \A n : Dropped(q, n) => Dropped(q, n)'
      BY <2>0 DEF Dropped
    <2>6. ASSUME NEW n, NEW h, Pending(q, n, h) PROVE InLog(q, n, h)' \/ Pending(q, n, h)'
      <3>1. CASE q # p
        BY <2>0, <2>6, <3>1 DEF Pending
      <3>2. CASE q = p
        <4>1. PICK k \in 1 .. Len(todo[p]) :
                todo[p][k].record.by = p /\ todo[p][k].record.n = n /\ todo[p][k].half = h
          BY <2>0, <2>6, <3>2 DEF Pending
        <4>2. CASE k <= w
          <5>1. Len(log) + k \in 1 .. Len(log') /\ log'[Len(log) + k] = todo[p][k]
            BY <2>1, <2>3, <4>2 DEF Wrote
          <5> QED
            BY <3>2, <4>1, <5>1 DEF InLog, Logged
        <4>3. CASE ~(k <= w)
          <5>1. /\ k - w \in 1 .. Len(todo'[p]) /\ (k - w) + w = k
                /\ k - w \in 1 .. Len(todo[p]) - w /\ w # Len(todo[p])
            BY <2>1, <2>3, <4>3 DEF Wrote
          <5>2. todo'[p][k - w] = todo[p][k] /\ pc'[p] = "write"
            BY <2>1, <5>1 DEF Wrote
          <5> QED
            BY <3>2, <4>1, <5>1, <5>2 DEF Pending
        <4> QED
          BY <4>2, <4>3
      <3> QED
        BY <3>1, <3>2
    <2> QED
      BY <2>0, <2>2, <2>4, <2>5, <2>6, AccountKept
  <1>4. ASSUME NEW p \in Process, WriteFails(p) PROVE Accounted(q)'
    <2>0. /\ UNCHANGED <<log, buffer, calls, status>> /\ pc[p] = "write"
          /\ dropped' = dropped \cup ToSet(todo[p])
          /\ \A x \in Process \ {p} : todo'[x] = todo[x] /\ pc'[x] = pc[x]
      BY <1>4 DEF WriteFails, Goes, process_vars, TInv, TypeOK
    <2>1. Accounted(q)
      BY <1>0, <2>0
    <2>2. \A n, h : InLog(q, n, h) => InLog(q, n, h)'
      BY <2>0 DEF InLog, Logged
    <2>3. \A n : Dropped(q, n) => Dropped(q, n)'
      BY <2>0 DEF Dropped
    <2>4. ASSUME NEW n, NEW h, Pending(q, n, h) PROVE Pending(q, n, h)' \/ Dropped(q, n)'
      <3>1. CASE q # p
        BY <2>0, <2>4, <3>1 DEF Pending
      <3>2. CASE q = p
        <4>1. PICK k \in 1 .. Len(todo[p]) :
                todo[p][k].record.by = p /\ todo[p][k].record.n = n
          BY <2>0, <2>4, <3>2 DEF Pending
        <4>2. todo[p][k] \in ToSet(todo[p]) /\ todo[p][k].writer = p
          BY <2>0, BatchIsBuffer, RecordTypes DEF TInv, ToSet
        <4> QED
          BY <2>0, <3>2, <4>1, <4>2 DEF Dropped
      <3> QED
        BY <3>1, <3>2
    <2> QED
      BY <2>0, <2>1, <2>2, <2>3, <2>4, AccountKept
  <1>5. ASSUME NEW p \in Process, Unlock(p) PROVE Accounted(q)'
    <2>0. /\ UNCHANGED <<log, todo, calls, dropped>> /\ pc[p] = "unlock"
          /\ status[q] # "dead"
          /\ \A x \in Process \ {p} : buffer'[x] = buffer[x] /\ pc'[x] = pc[x]
      BY <1>5 DEF Unlock, Goes, EmptyBuffer, past_vars, TInv, TypeOK
    <2>1. Accounted(q)
      BY <1>0, <2>0
    <2>2. CASE q # p
      BY <2>0, <2>1, <2>2, AccountSame
    <2>3. CASE q = p
      <3>1. \A n, h : ~Pending(q, n, h)
        BY <2>0, <2>3 DEF Pending
      <3>2. \A n, h : InLog(q, n, h) => InLog(q, n, h)'
        BY <2>0 DEF InLog, Logged
      <3>3. \A n : Dropped(q, n) => Dropped(q, n)'
        BY <2>0 DEF Dropped
      <3> QED
        BY <2>0, <2>1, <3>1, <3>2, <3>3, AccountKept
    <2> QED
      BY <2>2, <2>3
  <1>6. ASSUME NEW p \in Process, Return(p) PROVE Accounted(q)'
    <2>0. /\ UNCHANGED <<log, buffer, todo, calls, dropped>> /\ pc[p] = "out"
          /\ pc'[p] \in {"out", "lock"}
          /\ status[q] # "dead"
          /\ \A x \in Process \ {p} : pc'[x] = pc[x]
      BY <1>6 DEF Return, flush_vars, past_vars, TInv, TypeOK
    <2>1. pc'[q] = pc[q] \/ {pc[q], pc'[q]} \subseteq {"out", "lock"}
      BY <2>0
    <2> QED
      BY <1>0, <2>0, <2>1, AccountSame
  <1>7. ASSUME NEW p \in Process, Ends(p) PROVE Accounted(q)'
    <2>0. /\ UNCHANGED <<log, calls, dropped>>
          /\ status'[p] = "dead"
          /\ \A x \in Process \ {p} : UNCHANGED <<status[x], buffer[x], todo[x], pc[x]>>
      BY <1>7 DEF Ends, TInv, TypeOK
    <2>1. q # p
      BY <2>0
    <2> QED
      BY <1>0, <2>0, <2>1, AccountSame
  <1>8. ASSUME NEW p \in Process, NEW t \in Thread, NEW c \in Process, Fork(p, t, c) PROVE Accounted(q)'
    <2>0. /\ UNCHANGED <<log, pc, todo, calls, dropped>> /\ status[c] = "unborn"
          /\ \A x \in Process \ {c} : UNCHANGED <<status[x], buffer[x]>>
      BY <1>8 DEF Fork, flush_vars, TInv, TypeOK
    <2>1. CASE q # c
      BY <1>0, <2>0, <2>1, AccountSame
    <2>2. CASE q = c
      <3>1. calls'[q] = 0
        BY <2>0, <2>2 DEF IdleInv
      <3> QED
        BY <3>1 DEF Accounted
    <2> QED
      BY <2>1, <2>2
  <1>9. ASSUME Read \/ ReadEnough \/ UNCHANGED vars PROVE Accounted(q)'
    <2>1. UNCHANGED <<log, pc, todo, calls, dropped, status, buffer>>
      BY <1>9 DEF Read, ReadEnough, vars, process_vars, flush_vars, past_vars
    <2> QED
      BY <1>0, <2>1, AccountSame
  <1> QED
    BY <1>1, <1>2, <1>3, <1>4, <1>5, <1>6, <1>7, <1>8, <1>9
       DEF Next, Flush, Die, SigPipe, Process

\* When the main of a program has returned, each of its records is in the log or
\* was dropped by a write of its own that failed: for any processes, whatever
\* forks, kills and failed writes of other processes there were.  A record is in the buffer,
\* then in the batch, then in the log, and shutdown leaves nothing in the buffer.
THEOREM NothingIsLost == Spec => []ReturnedIsLogged
  <1>1. ASSUME BaseInv, OrderInv, NothingLost, NEW p \in Process, status[p] = "returned",
               NEW n \in 1 .. calls[p], ~Dropped(p, n), NEW h \in {1, 2}
        PROVE  \E i \in DOMAIN log :
                 log[i].record.by = p /\ log[i].record.n = n /\ log[i].half = h
    <2>1. pc[p] = "out" /\ buffer[p] = <<>>
      BY <1>1 DEF OrderInv, IdleInv
    <2>2. ~Pending(p, n, h)
      BY <2>1 DEF Pending
    <2>3. InLog(p, n, h)
      BY <1>1, <2>2 DEF NothingLost, Accounted
    <2>4. DOMAIN log = 1 .. Len(log)
      BY <1>1 DEF BaseInv, TInv, TypeOK
    <2> QED
      BY <2>3, <2>4 DEF InLog, Logged
  <1>2. BaseInv /\ OrderInv /\ NothingLost => ReturnedIsLogged
    BY <1>1 DEF ReturnedIsLogged, Dropped
  <1> QED
    BY <1>2, BaseInit, BaseStep, OrderInit, OrderStep, LostInit, LostStep, PTL DEF Spec

-----------------------------------------------------------------------------
(* CallSiteLogReader.  It only counts: it takes what is at an even offset for *)
(* the beginning of a record.                                               *)

Side(i) == IF i % 2 = 1 THEN 1 ELSE 2

CutBefore(i) == \E c \in cuts : c < i

\* Until somebody stops there, the first halves are at the odd positions.
AlignedAt(i) == CutBefore(i) \/ log[i].half = Side(i)

\* Who has the second half of a record to write wrote the first one, last.
HalfFollows(p) ==
    pc[p] = "write" /\ todo[p] # <<>> /\ Head(todo[p]).half = 2 =>
        Len(log) > 0 /\ log[Len(log)] = [Head(todo[p]) EXCEPT !.half = 1]

AlignedInv ==
    MayMix \/ ((\A p \in Process : HalfFollows(p)) /\ \A i \in Logged : AlignedAt(i))

\* Where the reader is.
PrintedInv ==
    /\ reader = "reads" => offset = 2 * Len(printed)
    /\ ReaderIsRight

-----------------------------------------------------------------------------
(* Where the halves are                                                    *)

\* What is left of a batch goes on with the half that comes next.
LEMMA TodoSides ==
    ASSUME TInv, Batches, NEW p \in Process, pc[p] = "write"
    PROVE  \E d \in Nat : \A k \in 1 .. Len(todo[p]) : todo[p][k].half = Side(k + d)
  <1>1. buffer[p] \in Seq(Record) /\ Len(buffer[p]) \in Nat /\ Len(todo[p]) \in Nat
    BY RecordTypes DEF TInv
  <1>2. Size(p) \in Nat /\ Len(todo[p]) <= Size(p)
    <2>1. Size(p) \in Nat
      BY <1>1 DEF Size
    <2> QED
      BY <2>1 DEF Batches
  <1> DEFINE d == Size(p) - Len(todo[p])
  <1>3. d \in Nat
    BY <1>1, <1>2
  <1>4. ASSUME NEW k \in 1 .. Len(todo[p]) PROVE todo[p][k].half = Side(k + d)
    <2>1. todo[p][k] = Halves(p)[k + d]
      BY DEF Batches
    <2>2. k + d \in 1 .. Size(p)
      BY <1>1, <1>2
    <2>3. \A i \in 1 .. Size(p) : Halves(p)[i].half = Side(i)
      BY DEF Halves, Size, Side
    <2> HIDE DEF d
    <2> QED
      BY <2>1, <2>2, <2>3
  <1> HIDE DEF d
  <1> QED
    BY <1>3, <1>4

LEMMA SideTurns ==
    ASSUME NEW i \in Nat
    PROVE  Side(i) \in {1, 2} /\ (Side(i) = 1 <=> Side(i + 1) = 2)
  BY DEF Side

LEMMA SideParity ==
    ASSUME NEW i \in Nat, NEW j \in Nat, NEW k \in Nat, Side(i + 1) = Side(j + 1)
    PROVE  Side(i + k) = Side(j + k)
  <1>1. i % 2 = j % 2
    BY DEF Side
  <1>2. (i + k) % 2 = (j + k) % 2
    BY <1>1
  <1> QED
    BY <1>2 DEF Side

\* Whoever writes goes on where the log is.
LEMMA WriteGoesOn ==
    ASSUME TInv, HasLock, Batches, WholeInv, AlignedInv, ~MayMix, cuts = {},
           NEW p \in Process, pc[p] = "write", NEW n \in 1 .. Len(todo[p]), MayWrite(p, n)
    PROVE  Head(todo[p]).half = Side(Len(log) + 1)
  <1> DEFINE t == todo[p]
             L == Len(log)
  <1>1. t \in Seq(Half) /\ L \in Nat /\ Len(t) \in Nat /\ n \in Nat
    BY RecordTypes DEF TInv
  <1>2. t # <<>> /\ 1 \in 1 .. Len(t) /\ Head(t) = t[1]
    BY <1>1
  <1>3. t[1].half \in {1, 2}
    <2>1. t[1] \in Half
      BY <1>1, <1>2
    <2> QED
      BY <2>1 DEF Half
  <1>4. \A i \in 1 .. L : log[i].half = Side(i) /\ log[i] \in Half
    BY RecordTypes DEF TInv, AlignedInv, AlignedAt, CutBefore, Logged
  <1>5. CASE t[1].half = 2
    <2>1. L > 0 /\ log[L] = [t[1] EXCEPT !.half = 1]
      BY <1>2, <1>5 DEF AlignedInv, HalfFollows
    <2>2. L \in 1 .. L
      BY <1>1, <2>1
    <2>3. t[1] \in Half
      BY <1>1, <1>2
    <2>4. log[L].half = 1
      BY <2>1, <2>3 DEF Half
    <2>5. Side(L) = 1
      BY <1>4, <2>2, <2>4
    <2> HIDE DEF L
    <2>6. Side(L + 1) = 2
      BY <1>1, <2>5, SideTurns
    <2> QED
      BY <1>2, <1>5, <2>6 DEF L
  <1>6. CASE t[1].half = 1
    <2>1. CASE L = 0
      BY <1>2, <1>6, <2>1 DEF Side
    <2>2. CASE L > 0
      <3>1. L \in 1 .. L
        BY <1>1, <2>2
      <3>2. log[L].half # 1
        <4> SUFFICES ASSUME log[L].half = 1 PROVE FALSE
          OBVIOUS
        <4>1. WholeAt(L) \/ BeingWritten(L)
          BY <3>1 DEF WholeInv, WholeOrCut
        <4>2. BeingWritten(L)
          BY <1>1, <4>1 DEF WholeAt
        <4> PICK q : q = log[L].writer
          OBVIOUS
        <4>3. q \in Process /\ pc[q] = "write" /\ todo[q] # <<>>
              /\ Head(todo[q]) = [log[L] EXCEPT !.half = 2]
          BY <3>1, <4>2, RecordTypes DEF BeingWritten, TInv
        <4>4. Head(todo[q]).half = 2
          BY <1>4, <3>1, <4>3 DEF Half
        <4>5. q # p
          BY <1>2, <1>6, <4>4
        <4>6. InProgress(q)
          BY <4>3, <4>4, SecondHalf
        <4> QED
          BY <1>1, <4>3, <4>5, <4>6, OneInProgress
      <3>3. Side(L) # 1
        BY <1>4, <3>1, <3>2
      <3> HIDE DEF L
      <3>4. Side(L + 1) = 1
        BY <1>1, <3>3, SideTurns
      <3> QED
        BY <1>2, <1>6, <3>4 DEF L
    <2> QED
      BY <1>1, <2>1, <2>2
  <1> QED
    BY <1>3, <1>5, <1>6

LEMMA CutsGrow == [Next]_vars => cuts \subseteq cuts'
  BY DEF Next, Flush, Call, Lock, Write, WriteFails, SigPipe, Ends, CutBy, Unlock,
         Return, Die, Fork, Read, ReadEnough, vars, past_vars

LEMMA WriteKeepsAligned ==
    ASSUME TInv, HasLock, Batches, WholeInv, AlignedInv, ~MayMix,
           NEW p \in Process, Write(p), NEW i \in 1 .. Len(log')
    PROVE  AlignedAt(i)'
  <1>1. /\ UNCHANGED cuts /\ pc[p] = "write"
        /\ Len(log) \in Nat /\ todo[p] \in Seq(Half) /\ Len(todo[p]) \in Nat
    BY WriteIs, RecordTypes DEF TInv, past_vars
  <1>2. PICK n \in 1 .. Len(todo[p]) : Wrote(p, n)
    BY WriteIs DEF TInv
  <1>3. CASE i \in 1 .. Len(log) /\ log'[i] = log[i]
    BY <1>1, <1>3 DEF AlignedInv, AlignedAt, CutBefore, Logged
  <1>4. ASSUME NEW k \in 1 .. Len(todo[p]), i = Len(log) + k, log'[i] = todo[p][k]
        PROVE  AlignedAt(i)'
    <2>1. CASE cuts # {}
      <3>1. PICK c \in cuts : TRUE
        BY <2>1
      <3>2. c \in 1 .. Len(log)
        BY DEF TInv, TypeOK
      <3>3. c < i
        BY <1>1, <1>4, <3>2
      <3> QED
        BY <1>1, <3>3 DEF AlignedAt, CutBefore
    <2>2. CASE cuts = {}
      <3>1. PICK d \in Nat : \A j \in 1 .. Len(todo[p]) : todo[p][j].half = Side(j + d)
        BY <1>1, TodoSides
      <3>2. 1 \in 1 .. Len(todo[p]) /\ Head(todo[p]) = todo[p][1]
        BY <1>1, <1>2
      <3>3. Head(todo[p]).half = Side(Len(log) + 1)
        BY <1>1, <1>2, <2>2, WriteGoesOn DEF Wrote
      <3>4. Side(d + 1) = Side(Len(log) + 1)
        BY <3>1, <3>2, <3>3
      <3>5. Side(d + k) = Side(Len(log) + k) /\ d + k = k + d
        <4>1. k \in Nat /\ d \in Nat /\ Len(log) \in Nat
          BY <1>1
        <4>2. Side(d + k) = Side(Len(log) + k)
          BY ONLY <3>4, <4>1, SideParity, Zenon
        <4> QED
          BY <4>1, <4>2
      <3>6. log'[i].half = Side(i)
        BY <1>4, <3>1, <3>5
      <3> QED
        BY <3>6 DEF AlignedAt, Side
    <2> QED
      BY <2>1, <2>2
  <1> QED
    BY <1>2, <1>3, <1>4, OldOrNew DEF TInv

LEMMA WriteFollows ==
    ASSUME TInv, HasLock, Batches, ~MayMix, AlignedInv,
           NEW p \in Process, Write(p), NEW q \in Process
    PROVE  HalfFollows(q)'
  <1>1. /\ pc[p] = "write"
        /\ Len(log) \in Nat /\ todo[p] \in Seq(Half) /\ Len(todo[p]) \in Nat
        /\ \A x \in Process \ {p} : todo'[x] = todo[x] /\ pc'[x] = pc[x]
    BY WriteIs, RecordTypes DEF TInv
  <1>2. PICK n \in 1 .. Len(todo[p]) : Wrote(p, n)
    BY WriteIs DEF TInv
  <1> SUFFICES ASSUME pc'[q] = "write", todo'[q] # <<>>, Head(todo'[q]).half = 2
               PROVE  Len(log') > 0 /\ log'[Len(log')] = [Head(todo'[q]) EXCEPT !.half = 1]
    BY DEF HalfFollows
  <1>3. CASE q # p
    <2>1. InProgress(q)
      BY <1>1, <1>3, SecondHalf
    <2>2. MayWrite(p, n) /\ n \in Nat
      BY <1>2 DEF Wrote
    <2> QED
      BY <1>1, <1>3, <2>1, <2>2, OneInProgress
  <1>4. CASE q = p
    <2>1. TInv'
      BY TypeStep DEF Next, Flush, Process
    <2>2. n < Len(todo[p])
      BY <1>1, <1>2, <1>4 DEF Wrote
    <2>3. 1 \in 1 .. Len(todo[p]) - n /\ n + 1 \in 1 .. Len(todo[p])
      BY <1>1, <2>2
    <2>4. todo'[p] \in Seq(Half) /\ Len(todo'[p]) = Len(todo[p]) - n
      BY <1>2, <2>1 DEF TInv, TypeOK, Wrote
    <2>5. Head(todo'[p]) = todo'[p][1]
      BY <2>3, <2>4
    <2>6. Head(todo'[p]) = todo[p][n + 1]
      BY <1>2, <2>3, <2>5 DEF Wrote
    <2>7. PICK d \in Nat : \A j \in 1 .. Len(todo[p]) : todo[p][j].half = Side(j + d)
      BY <1>1, TodoSides
    <2>8. todo[p][n].half = 1
      <3>1. Side((n + d) + 1) = 2 /\ (n + 1) + d = (n + d) + 1 /\ n + d \in Nat
        BY <1>4, <2>3, <2>6, <2>7
      <3>2. Side(n + d) = 1
        BY <3>1, SideTurns
      <3> QED
        BY <2>7, <3>2
    <2>9. todo[p][n + 1] = [todo[p][n] EXCEPT !.half = 2] /\ todo[p][n] \in Half
      BY <1>1, <2>8, TodoPair
    <2>10. todo[p][n] = [todo[p][n + 1] EXCEPT !.half = 1]
      BY <2>8, <2>9 DEF Half
    <2>11. Len(log') = Len(log) + n /\ log'[Len(log) + n] = todo[p][n]
      BY <1>2 DEF Wrote
    <2>12. Len(log') > 0
      BY <1>1, <2>11
    <2> QED
      BY <1>4, <2>6, <2>10, <2>11, <2>12
  <1> QED
    BY <1>3, <1>4

\* A step that writes nothing leaves the log where it was.
LEMMA OthersFollow ==
    ASSUME log' = log, NEW q \in Process, HalfFollows(q),
           pc'[q] = "write" => (pc[q] = "write" /\ todo'[q] = todo[q])
    PROVE  HalfFollows(q)'
  BY DEF HalfFollows

LEMMA AlignedStep ==
    BaseInv /\ WholeInv /\ AlignedInv /\ [Next]_vars => AlignedInv'
  <1> SUFFICES ASSUME TInv, HasLock, Batches, WholeInv, AlignedInv, [Next]_vars, ~MayMix
               PROVE  /\ \A q \in Process : HalfFollows(q)'
                      /\ \A i \in 1 .. Len(log') : AlignedAt(i)'
    BY MixingStays DEF BaseInv, AlignedInv, Logged
  <1> DEFINE Goal == /\ \A q \in Process : HalfFollows(q)'
                     /\ \A i \in 1 .. Len(log') : AlignedAt(i)'
  <1>0. (\A q \in Process : HalfFollows(q)) /\ \A i \in 1 .. Len(log) : AlignedAt(i)
    BY DEF AlignedInv, Logged
  <1>1. ASSUME NEW p \in Process, Write(p) PROVE Goal
    BY <1>1, WriteFollows, WriteKeepsAligned
  <1>2. ASSUME log' = log PROVE \A i \in 1 .. Len(log') : AlignedAt(i)'
    BY <1>0, <1>2, CutsGrow DEF AlignedAt, CutBefore
  <1>3. ASSUME NEW p \in Process, Lock(p) PROVE Goal
    <2>1. /\ log' = log /\ todo'[p] = Halves(p)
          /\ \A x \in Process \ {p} : todo'[x] = todo[x] /\ pc'[x] = pc[x]
      BY <1>3 DEF Lock, Goes, TInv, TypeOK
    <2>2. HalfFollows(p)'
      <3>1. Halves(p) # <<>> => Head(Halves(p)) = Halves(p)[1] /\ Halves(p)[1].half = 1
        BY HalvesType, RecordTypes DEF TInv
      <3>2. ~(todo'[p] # <<>> /\ Head(todo'[p]).half = 2)
        BY <2>1, <3>1
      <3> QED
        BY <3>2 DEF HalfFollows
    <2>3. ASSUME NEW q \in Process \ {p} PROVE HalfFollows(q)'
      BY <1>0, <2>1, OthersFollow
    <2> QED
      BY <1>2, <2>1, <2>2, <2>3
  <1>4. ASSUME log' = log,
               \A q \in Process :
                   pc'[q] = "write" => (pc[q] = "write" /\ todo'[q] = todo[q])
        PROVE  Goal
    BY <1>0, <1>2, <1>4, OthersFollow
  <1>5. ASSUME NEW p \in Process, NEW t \in Thread, Call(p, t) PROVE Goal
    <2>1. log' = log /\ todo' = todo /\ pc'[p] # "write"
          /\ \A x \in Process \ {p} : pc'[x] = pc[x]
      BY <1>5, CallIs DEF TInv
    <2> QED
      BY <1>4, <2>1
  <1>6. ASSUME NEW p \in Process, NEW t \in Thread, NEW c \in Process, Fork(p, t, c) PROVE Goal
    BY <1>4, <1>6 DEF Fork, flush_vars
  <1>7. ASSUME Quiet PROVE Goal
    BY <1>4, <1>7 DEF Quiet
  <1> QED
    BY <1>1, <1>3, <1>5, <1>6, <1>7, QuietStep
       DEF TInv, Next, Flush, Die, SigPipe, Process

LEMMA AlignedInit == Init => AlignedInv
  <1> SUFFICES ASSUME Init PROVE AlignedInv
    OBVIOUS
  <1>1. Len(log) = 0 /\ \A p \in Process : pc[p] = "out"
    BY DEF Init
  <1> QED
    BY <1>1 DEF AlignedInv, HalfFollows, Logged

-----------------------------------------------------------------------------
(* What the reader prints                                                  *)

\* Two halves at an odd position are a record, if nobody stopped before.
LEMMA RecordAt ==
    ASSUME TInv, Batches, WholeInv, AlignedInv, ~MayMix,
           NEW i \in Nat, i \in 1 .. Len(log), i + 1 \in 1 .. Len(log), i % 2 = 1,
           \A c \in cuts : ~(c <= i)
    PROVE  IsRecord(SubSeq(log, i, i + 1))
  <1>1. log \in Seq(Half) /\ Len(log) \in Nat
    BY DEF TInv, TypeOK
  <1>2. cuts \subseteq Nat
    BY <1>1 DEF TInv, TypeOK
  <1>3. ~CutBefore(i) /\ i \notin cuts
    BY <1>2 DEF CutBefore
  <1>4. log[i].half = 1
    BY <1>3 DEF AlignedInv, AlignedAt, Side, Logged
  <1>5. WholeAt(i) \/ BeingWritten(i)
    BY <1>3, <1>4 DEF WholeInv, WholeOrCut
  <1>6. i # Len(log)
    BY <1>1
  <1>7. log[i + 1] = [log[i] EXCEPT !.half = 2]
    BY <1>5, <1>6 DEF WholeAt, BeingWritten
  <1>8. LET s == SubSeq(log, i, i + 1)
        IN  Len(s) = 2 /\ s[1] = log[i] /\ s[2] = log[i + 1]
    BY <1>1
  <1> QED
    BY <1>4, <1>7, <1>8 DEF IsRecord

LEMMA PrintedInit == Init => PrintedInv
  <1> SUFFICES ASSUME Init PROVE PrintedInv
    OBVIOUS
  <1>1. offset = 0 /\ printed = <<>> /\ Len(printed) = 0 /\ DOMAIN printed = {}
    BY DEF Init
  <1> QED
    BY <1>1 DEF PrintedInv, ReaderIsRight

LEMMA PrintedStep ==
    BaseInv /\ WholeInv /\ AlignedInv /\ PrintedInv /\ [Next]_vars => PrintedInv'
  <1> SUFFICES ASSUME TInv, HasLock, Batches, WholeInv, AlignedInv, PrintedInv, [Next]_vars
               PROVE  PrintedInv'
    BY DEF BaseInv
  <1>1. ASSUME Read PROVE PrintedInv'
    <2>1. PICK n \in 0 .. 2 :
            /\ n = IF Len(log) - offset < 2 THEN Len(log) - offset ELSE 2
            /\ offset' = offset + n
            /\ reader' = ReaderNext(n)
            /\ printed' = IF n = 2 THEN Append(printed, SubSeq(log, offset + 1, offset + 2))
                                   ELSE printed
      BY <1>1 DEF Read
    <2>2. /\ printed \in Seq(Seq(Half)) /\ Len(printed) \in Nat
          /\ offset \in 0 .. Len(log) /\ Len(log) \in Nat
      BY DEF TInv, TypeOK
    <2>3. offset = 2 * Len(printed) /\ UNCHANGED <<log, cuts>>
      BY <1>1 DEF Read, PrintedInv, past_vars
    <2>4. CASE n # 2
      <3>1. reader' # "reads" /\ printed' = printed
        BY <2>1, <2>4 DEF ReaderNext
      <3> QED
        BY <2>3, <3>1, MixingStays DEF PrintedInv, ReaderIsRight
    <2>5. CASE n = 2
      <3> DEFINE pair == SubSeq(log, offset + 1, offset + 2)
                 i == offset + 1
      <3>1. /\ i \in Nat /\ i \in 1 .. Len(log) /\ i + 1 \in 1 .. Len(log) /\ i + 1 = offset + 2
        BY <2>1, <2>2, <2>5
      <3>2. i % 2 = 1 /\ i = 2 * (Len(printed) + 1) - 1
        BY <2>2, <2>3
      <3>3. pair \in Seq(Half)
        BY <3>1 DEF TInv, TypeOK
      <3>4. printed' = Append(printed, pair) /\ offset' = offset + 2
        BY <2>1, <2>5
      <3> HIDE DEF pair
      <3>5. /\ Len(printed') = Len(printed) + 1
            /\ DOMAIN printed' = 1 .. Len(printed) + 1 /\ DOMAIN printed = 1 .. Len(printed)
            /\ \A k \in 1 .. Len(printed) : printed'[k] = printed[k]
            /\ printed'[Len(printed) + 1] = pair
        BY <2>2, <3>3, <3>4
      <3>6. offset' = 2 * Len(printed')
        BY <2>2, <2>3, <3>4, <3>5
      <3>7. ASSUME ~MayMix, NEW k \in DOMAIN printed'
            PROVE  IsRecord(printed'[k]) \/ \E c \in cuts' : c <= 2 * k - 1
        <4>1. CASE k \in 1 .. Len(printed)
          BY <2>3, <3>5, <3>7, <4>1 DEF PrintedInv, ReaderIsRight
        <4>2. CASE k = Len(printed) + 1
          <5>1. CASE \A c \in cuts : ~(c <= i)
            <6>1. IsRecord(SubSeq(log, i, i + 1))
              BY <3>1, <3>2, <3>7, <5>1, RecordAt
            <6> QED
              BY <3>1, <3>5, <4>2, <6>1 DEF pair
          <5>2. CASE \E c \in cuts : c <= i
            BY <2>3, <3>2, <4>2, <5>2
          <5> QED
            BY <5>1, <5>2
        <4> QED
          BY <2>2, <3>5, <4>1, <4>2
      <3> QED
        BY <3>6, <3>7, MixingStays DEF PrintedInv, ReaderIsRight
    <2> QED
      BY <2>4, <2>5
  <1>2. ASSUME UNCHANGED <<offset, printed>>, reader' = "reads" => reader = "reads"
        PROVE  PrintedInv'
    BY <1>2, CutsGrow, MixingStays DEF PrintedInv, ReaderIsRight
  <1>3. CASE ~Read
    <2>1. UNCHANGED <<offset, printed>> /\ (reader' = "reads" => reader = "reads")
      BY <1>3 DEF Next, Flush, Call, Lock, Write, WriteFails, SigPipe, Ends, Unlock,
             Return, Die, Fork, ReadEnough, vars, reader_vars
    <2> QED
      BY <1>2, <2>1
  <1> QED
    BY <1>1, <1>3

LEMMA ReaderInvariants == Spec => [](BaseInv /\ WholeInv /\ AlignedInv /\ PrintedInv)
  <1>1. Init => WholeInv
    BY DEF Init, WholeInv
  <1>2. BaseInv /\ WholeInv /\ [Next]_vars => WholeInv'
    BY WholeStep DEF BaseInv
  <1> QED
    BY <1>1, <1>2, BaseInit, BaseStep, AlignedInit, AlignedStep, PrintedInit, PrintedStep,
       PTL DEF Spec

\* Until somebody leaves half a record behind, what the reader prints are
\* records that were logged, for any processes, sizes and failures: it only
\* counts, and the first halves are where it looks for them.
THEOREM ReaderPrintsRecords == Spec => []ReaderIsRight
  <1>1. PrintedInv => ReaderIsRight
    BY DEF PrintedInv
  <1> QED
    BY <1>1, ReaderInvariants, PTL

\* When the reader reports an invalid number of bytes, a record is being written
\* at that moment, or somebody left half a record behind.
THEOREM InvalidTellsOfAWrite == Spec => InvalidIsReal
  <1> DEFINE Real == reader' = "invalid" /\ reader # "invalid" =>
                        \/ MayMix
                        \/ cuts # {}
                        \/ \E p \in Process : InProgress(p)
  <1>1. BaseInv /\ WholeInv /\ AlignedInv /\ PrintedInv /\ [Next]_vars => Real
    <2> SUFFICES ASSUME TInv, Batches, WholeInv, AlignedInv, PrintedInv, [Next]_vars,
                        reader' = "invalid", reader # "invalid", ~MayMix, cuts = {}
                 PROVE  \E p \in Process : InProgress(p)
      BY DEF BaseInv
    <2>1. Read
      BY DEF Next, Flush, Call, Lock, Write, WriteFails, SigPipe, Ends, Unlock,
             Return, Die, Fork, ReadEnough, vars, reader_vars
    <2>2. PICK n \in 0 .. 2 :
            /\ n = IF Len(log) - offset < 2 THEN Len(log) - offset ELSE 2
            /\ reader' = ReaderNext(n)
      BY <2>1 DEF Read
    <2>3. Len(log) - offset = 1 /\ offset = 2 * Len(printed)
      BY <2>1, <2>2 DEF ReaderNext, Read, PrintedInv
    <2>4. Len(printed) \in Nat /\ Len(log) \in Nat /\ offset \in Nat
      BY DEF TInv, TypeOK
    <2>5. Len(log) \in 1 .. Len(log) /\ Len(log) % 2 = 1
      BY <2>3, <2>4
    <2>6. log[Len(log)].half = 1
      BY <2>5 DEF AlignedInv, AlignedAt, CutBefore, Side, Logged
    <2>7. WholeAt(Len(log)) \/ BeingWritten(Len(log))
      BY <2>5, <2>6 DEF WholeInv, WholeOrCut
    <2>8. BeingWritten(Len(log))
      BY <2>4, <2>7 DEF WholeAt
    <2> PICK q : q = log[Len(log)].writer
      OBVIOUS
    <2>9. q \in Process /\ pc[q] = "write" /\ todo[q] # <<>>
          /\ Head(todo[q]) = [log[Len(log)] EXCEPT !.half = 2] /\ log[Len(log)] \in Half
      BY <2>5, <2>8, RecordTypes DEF BeingWritten, TInv
    <2>10. Head(todo[q]).half = 2
      BY <2>9 DEF Half
    <2> QED
      BY <2>9, <2>10, SecondHalf
  <1>2. InvalidIsReal <=> [][Real]_vars
    BY DEF InvalidIsReal
  <1> HIDE DEF Real
  <1> QED
    BY <1>1, <1>2, ReaderInvariants, PTL DEF Spec
=============================================================================
