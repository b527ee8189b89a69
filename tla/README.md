# Verification of clam-prov

clam-prov propagates tags from the *sources* of a program (say, calls of `read`)
to its *sinks* (say, calls of `write`) with a static analysis, and can instrument
the program so that every such call leaves a record in an audit log. This
directory holds TLA+ models of it, TLC configurations that check them on small
instances, and proofs that TLAPS checks for every instance.

Paths below are relative to the repository, whose implementation lies in its
`src/` and `py/` directories.

## The system

| Part | Source | State it keeps | Operations |
|---|---|---|---|
| Driver | `py/clam-prov.py.in` | `running_process`, a timer for each command, the stage reached | one command after another: clang, add main, clam-pp, opt, clam-prov; `killall` on SIGTERM and at the end |
| Pass pipeline | `src/clam-prov.cpp` | the LLVM module | add a main, or print the sources and sinks, or: passes before the tag analysis, the analysis, passes after it |
| Dummy main, tables | `src/Util/DummyMainFunction.cpp`, `SourcesAndSinks.cpp` | the functions that give values, by type | make a `main` that calls everything; count calls of sources and sinks |
| AddMetadata | `src/Instrumentation/AddMetadata.cpp` | the configuration, the call-site counter | read the configuration, number the call-sites |
| AnnotateSources | `src/Instrumentation/AnnotateSources.cpp` | - | insert and remove the intrinsic calls that introduce tags |
| WrapSinks | `src/Instrumentation/WrapSinks.cpp` | wrapper counter, work list, parameter map | give every sink call a wrapper of its own |
| OutputResults, OutputDependencyMap | same directory | the tags in the metadata, the DOT file | store the result, print it |
| AddLogging | `src/Instrumentation/AddLogging.cpp` | the logging configuration | insert calls of the run-time logger |
| Run-time logger | `src/Logging/` | buffer, index, mutex, output descriptor | init, buffer, check_and_flush, shutdown |
| Log reader | `src/Util/CallSiteLogReader.c` | an offset in the log | read and print one record after another |

They interact in two ways. The compile-time parts share one LLVM module: each
pass leaves calls and metadata for the next, and WrapSinks adds functions to the
list that it and every later pass walk through. At run time the instrumented
program calls the logger from any of its threads; the logger shares the process
(descriptors, heap) with the program and the log with other processes.

What is hard, and what each part must guarantee:

- **Logger.** Concurrency (several threads, one mutex, a fullness check in a
  second critical section), a shutdown that calls an API function while it holds
  the mutex, failures half-way through init, failed and short writes, a reader of
  the pipe that leaves, and an API that may be called in any order. It must keep
  threads apart, keep records in order and undamaged, flush a full buffer,
  return from every call, and lose nothing that could be written.
- **Passes.** Calls move between functions while they carry numbers and tags;
  instructions are inserted into what is being walked through; addresses of
  erased calls are keys of a map that outlives them; numbers of the
  configuration pass through integers of odd widths. Numbers, wrappers, tags, map
  and log calls must stay with the right call, and the program must otherwise
  stay as it was.
- **Driver.** A timer thread, a signal handler and the main thread all wait for
  one child. A success it reports must mean that every command succeeded, an exit
  code must point to the command that failed, no child may be left behind, and the
  script must end.
- **Log and reader.** Several processes, and `fork`, share one log of fixed-size
  records; one torn record shifts every later one.

`PROJECT.json` lists each of these hazards at the line where it bites, with the
properties that are about it.

## Modules

| Module | What it is |
|---|---|
| `CallSiteLog` | abstract specification of the logger: a queue of accepted records and a log |
| `ProvLogger` | `clam-prov-logger.c`, with its client, the mutex, the descriptor table and the faults |
| `ProvLoggerProps` | its properties, and `ImplementsCallSiteLog`, the refinement |
| `ProvLoggerProofs` | its theorems: exclusion and bounds; the refinement and the order of the log |
| `ProvMetadata` | instructions and the metadata the passes put on them (`ProvMetadata.cpp`) |
| `ProvConfig` | the two configuration files, line by line |
| `ProvPasses` | DummyMainFunction, PrintSourcesAndSinks, AddMetadata, addSources, WrapSinks, the result of the analysis, removeSources, OutputDependencyMap and AddLogging, in the order of `clam-prov.cpp` |
| `ProvPassesProps` | its properties |
| `ProvPassesProofs`, `ProvPassesCallProofs`, `ProvPassesMapProofs` | its theorems: the module, the log calls and what is printed; the call-sites and the sinks; the dependency map |
| `ProvPassesRunProofs`, `ProvPassesKeepProofs` | what the program does when its wrappers are called, and that the passes keep it; the records, the main of a library, and the tags that the analysis sees |
| `AuditLog` | the log that several instrumented processes share, and `CallSiteLogReader.c` |
| `AuditLogProps` | its properties |
| `AuditLogProofs` | its theorems: the lock, ids and whole records; order, duplicates and loss, and the reader |
| `Pipeline` | abstract specification of the driver: commands in order, one at a time |
| `Driver` | `clam-prov.py`: its main thread, timers and signals |
| `DriverProps`, `DriverProofs` | its properties, with `ImplementsPipeline`, the refinement, and its theorems |
| `MCProvLogger`, `MCProvPasses`, `MCAuditLog`, `MCDriver` | instances for TLC |

`ProvPasses` and `ProvLogger` meet in the client: what AddLogging inserts, and in
which order (`MainBracketsLogging`), is the client that `ProvLogger` has with
`Instrumented = TRUE`. `AuditLog` puts several loggers next to each other, each
as far as the others see it. `Driver` runs clam-prov as one of its commands,
which may end in any way.

### How ProvLogger corresponds to the code

The static variables of the library are TLA+ variables of the same name (without
the `clam_prov_` prefix). Each thread has a program counter; its values are named
after the function and the statement, `flush_check` for instance. One action is
one stretch of code between two points where another thread may matter: taking or
releasing the mutex, the store of a record and the increment of the index, the
`write`. API functions that the code calls on behalf of another one
(`check_and_flush` inside `buffer` and inside `shutdown`) are the same actions,
and `caller` says where to return.

- A mutex that works blocks its owner too (the code uses the default type). With
  `RealMutex = FALSE` the functions do nothing: this is glibc before 2.34 in a
  program without libpthread, which has one thread.
- Undefined behaviour is a choice. A store outside the array sets `overrun`, and
  from then on it is kept or not, and the allocator may abort the process
  (`HeapAbort`). A second `free` of the array aborts or goes unnoticed. Slots
  that were never written, or a batch read while it changes, hold `Stale`.
- `Instrumented = TRUE` is the client that AddLogging makes of a program: main
  calls init once, before anything else, and shutdown once; the threads call
  buffer in between. With `FALSE` the client calls anything at any time.

Left out: time stamps, names, paths, the values of records other than who made
them and when, and messages on stderr. `flock` and `fork`, which take several
processes, are in `AuditLog`.

### How AuditLog corresponds to the code

Each process has the logger's buffer, the `clam_prov_thread_tid` of each of its
threads, and a flush of three steps: `Lock` (`flock`, and the batch in one buffer),
`Write`, and `Unlock` with the reset of the index. One action of a thread is `Call`, a
call-site with `clam_prov_logging_buffer` and its check.

- `gettid` gives the id of a thread, here the pair of its process and itself (`Id`);
  the id of the main thread is that of the process. The variable is `__thread` and is
  set once, so a thread keeps its id, and a child begins with what the thread that forked
  it has cached. A process has more than one thread only if the mutex works. Ids are not
  given twice.

- `flock` belongs to the open file description. A forked child has the descriptor of
  its parent (`desc`): it gets the lock at once when the parent has it, and its
  unlock is the parent's too. The lock goes when the last process that has the
  description open is gone (`Closed`).
- A record is two halves, so that it can be cut. A write to a file is not mixed
  with another one, since the kernel locks the inode, but it may end early and a
  reader sees it half done. A pipe keeps only writes of up to `AtomicHalves`
  together, and holds `PipeSize` halves that the reader has not read: a write that does
  not fit waits for the reader, with the lock held (`Fits`, in `MayWrite`).
- `Fork` copies the buffer, and the id of the thread that forks. A child that is
  forked while another thread is in a flush finds the mutex locked for ever
  (`"stuck"`), if the mutex works.
- `Die` is a signal or `exit`, at any point; `Return` is main with shutdown, which
  hangs where the mutex works (see `shutdown_hangs`).
- The reader reads a record at a time and stops at the end, at a short read, or when it
  has as many as it was asked for. On a pipe it waits for whoever has it open.

### How Driver corresponds to the code

The main thread has a `pc`, each timer a state of its own, and calls of `killall`
are `frames` on top of the main thread: Python runs the handler of SIGTERM there,
between two statements or in the middle of a call that blocks, and the `finally`
at the end of the script calls it once more. The values of `pc`, `timer` and
`frames` are named after the next statement.

- `child` is what the kernel and the script know of a process: alive (perhaps with
  a SIGTERM or SIGKILL on its way), a zombie, waited for by `os.wait4`, or waited
  for through its Popen object (`"polled"`), after which `os.wait4` fails with
  ECHILD.
- `Signal` and `WaitPid` are `Popen.send_signal` and `Popen.wait` of CPython 3.9
  and later, where `send_signal` polls first, and both use the `_waitpid_lock` of the
  object. Pids are not used again while the script runs.
- `Unwinds` is an exception on its way out, through the `finally` of
  `run_command_with_limits` if main is in it: KeyboardInterrupt, or the
  AttributeError of a `killall` that finds `running_process` set to None between two
  of its statements.
- Two defects of the source are in the model as they are: `getOptLlvm` always raises
  NameError (it uses `clam_cmd`, line 359), so that `-O1` and above fail, and the file
  that `--oll` copies is never kept by clam-prov (`asmOutput->keep()` is missing).

Left out: the command lines, the memory limit (a command that runs out of memory
ends with some status), the short-lived child of `getClangVersion`, which no
`running_process` points to, and an interrupt that comes when the script is on its
way out.

### How ProvPasses corresponds to the code

A run of clam-prov begins with `Start`: a library gets its `main` first, by the
run that the driver makes for it, and is written and read again; then come the
printing mode or the passes.

A module is a sequence of functions, a function a sequence of instructions; blocks
end at `br`, `ret` and `invoke`. One step visits one instruction, and
`EndOfFunction` goes to the next function *of the module as it is then*, as the
range-for loops over LLVM's lists do. Two passes read a file first
(`LoadInputFile`, `LoadConfiguration`); `RemoveSources` is one step, since nothing
reads what it has half done.

- Of the files that clam-prov writes, a run is given a name that it can open, one that
  it cannot, or none. AddMetadata numbers nothing when its output cannot be opened, as
  when its input cannot be read (`OutputOpens`); OutputDependencyMap returns
  without a map when it has no file, or none that opens (`NoDependencyMap`). Neither
  stops the passes that follow.

- An instruction keeps the position `src` it had in the input, for the properties
  only, and an address `addr`. Erasing a call puts its address in `freed`, from
  which a later instruction may get it again.
- The wrapper of a sink is a function with an entry block and an exit block, as in
  `createWrapper`. WrapSinks passes over every function whose name begins with
  `clam_prov_sink`; in the model the only such names are those of the wrappers
  (`IsWrapper`), so a function of the program must not be called that way. An index that the wrapper has no parameter for ends in
  `WrapCrashes`: `getArg` asserts, and without assertions what follows uses
  memory that is no argument.
- The tag analysis (Clam, Crab) is external. For each pointer of a sink it
  answers with any of the inserted tags or with nothing; `answers` remembers what
  it said.
- The dummy main calls every function with values of `verifier.nondet.n`, one
  function for each type, with the first names that are free (`FreeNames`). The
  entry point is always empty in clam-prov.
- `IntegerValue` is `StringRef::getAsInteger` with an `APInt`, whose result is four
  bits wide for each digit and is then read as a signed number.

Left out: the generic LLVM passes before AddMetadata, DOT and CSV text and writes
that fail after a file was opened, the globals that hold names of functions, and
reading and writing of bitcode.

## Runs

The logger (`MCProvLogger`); a "real" mutex unless said otherwise.

| Run | Instance | Shows |
|---|---|---|
| `logger_threads` | 3 threads, 1 call each, buffer of 2 or a configuration that turns logging off, short writes, one more flush, no shutdown, fairness | no call returns with the mutex held; the buffer outgrows `max_records` by at most one record less than there are threads between insert and flush; the logger implements `CallSiteLog`; a full buffer is flushed; calls return |
| `logger_faults` | 2 threads, 2 calls each, file, pipe or invalid configuration, every fault, readers that come and go | threads stay apart, the log stays in order without duplicates, and the refinement holds with failed writes as `Lose` steps |
| `logger_reuse` | 1 thread, stub mutex, up to 3 inits and 2 shutdowns in any order, with failures | every store is in the array; while logging is on the array and the descriptor are good; shutdown loses nothing |
| `shutdown_hangs` | 1 thread, fairness | *violation*: shutdown never returns |
| `buffer_overrun` | 2 threads | *violation*: a store outside the array |
| `stdin_closed` | 1 thread, `max_records=0` | *violation*: a failing init closes descriptor 0 of the program |

The passes (`MCProvPasses`), with 8-bit `int`s so that numbers of three digits
reach the conversion.

| Run | Instance | Shows |
|---|---|---|
| `passes` | main with up to two of `read`, `invoke read`, `write`, `copy` (a source, and a sink with two pointers, at once) and a call of a helper; a helper with at most one call (none with two `copy`); one call of the odd kinds (null argument, result as source, indirect, variadic) with four metadata and six logging configurations; libraries of two functions, some of which use the names that a dummy main wants; the printing mode on these and on a program with every source and sink; up to two calls with and without the two output files, which may be impossible to open; fairness | all the safety properties of `ProvPassesProps`; the passes end |
| `result_source` | `mmap, 0, clam-prov-type:input` | *violation*: its tag is put on the result before the call |
| `nine_records` | `max_records=9` | *violation*: read as -7, logging stays off |

The shared log (`MCAuditLog`) and the driver (`MCDriver`).

| Run | Instance | Shows |
|---|---|---|
| `audit` | two programs, one of which forks, on a pipe with batches that it does not take in one piece, and on a file with processes that die; one program that forks, with a reader, deaths and short writes on a file, and short writes on a pipe; two threads where the mutex works; one or two calls for each process, pipes of three records, fairness of flushes | records are whole, in order, and in the log once for each process that wrote them; the ids they show tell the threads of a process apart and are those of threads of the process or its ancestors; a program that returned has all its calls in the log; writers exclude each other unless they share a description; nobody waits for ever unless a dead process left its lock to its child, or the lock is held over a write to a full pipe that is not read; what the reader prints and what it calls invalid |
| `forked_pid` | one program without threads, which may fork | *violation*: a record of the child shows the id of its parent |
| `driver` | every option, commands with and without limits, two signals (SIGTERM or interrupt) anywhere, commands that end with 0, 1, SIGALRM or a core dump or not at all, missing tools, failing Popen; fairness | the driver implements `Pipeline`; timeouts are real, exit codes name the culprit, no process is left behind except in the two cases of `NoOrphan`; the script ends unless it has locked itself, and that takes two signals |

Why the bounds are enough. Two threads show every race on one buffer, a third one
the difference between "one too many" and "one for each thread". A buffer of two
fills half-way and wholly, one of one record at once; two calls for each thread
fill it twice, and one call of three threads overflows it. Two sinks in one function exercise the order of the work list; a sink in
main and one in the helper, the addresses that a later function may meet again;
three wrapper names are as many as there are sinks. `invoke`
and `ret` right after a call are the two ends of a block. In the shared log, one fork
gives every pair of processes there is (two descriptions, one shared, a child
with a copied record), and a batch of two records can be cut inside and between
records. Two programs can write four records, or more with a child, and the pipe holds
three, so that one of them waits for the reader with a batch half written; a second
thread is what can be mistaken for the first. In the driver each command meets one timer and at most the one of its
predecessor; two signals are what the worst case needs (a handler on top of a handler).
Larger inputs repeat these situations.

Deadlock is checked except where the system stops by design of the code: where
shutdown blocks itself (`logger_faults`, `shutdown_hangs`), where all processes have
ended (`audit`, `forked_pid`) or the script may have locked itself (`driver`), and in
`passes` and its violation runs, where clam-prov ends. In `audit`, `driver` and `passes` a
liveness property says how they may stop.

**Fairness.** `ProvLogger!FairSpec` is weak fairness of each thread while it is
inside the library: threads are scheduled, and a mutex that stays free is
eventually taken. Nothing makes the program call the library, a reader come or a
fault happen. In `logger_threads` each thread makes finitely many calls, so a waiting thread is not
passed for ever and weak fairness suffices. `ProvPasses!FairSpec` is weak
fairness of the compiler's one thread. `AuditLog!FairSpec` is weak fairness of each
flush: a process that has begun one goes on when the kernel lets it, and each executes
finitely many call-sites, so that nobody takes the lock again and again before another.
Nothing is assumed of the reader, forks and deaths, nor that a write ever fails: a
write to a full pipe is not enabled, and waits for ever if nobody reads. This is the
second way in which a lock is never free, which `NobodyWaitsForEver` names
(`HeldByFullPipe`). `Driver!FairSpec` is weak fairness of the
main thread and of each timer thread (which includes that time passes), and that a
command ends after SIGKILL, or by itself when the driver set no limit; a command
with a limit may run for ever, so that `DriverEnds` rests on the timer.

Every property of a passing run has a mutant: a plausible mistake, defined next to
the definition it replaces, that makes TLC report the property violated.

## Theorems

Each for every value of the constants.

In `ProvLoggerProofs`, for every set of threads, configuration, fault and bound:

- `TypeCorrect`: `TypeOK` always holds. It is inductive with `CallCounted`.
- `RecordsAreExclusive`, `LockIsNotLeaked`: `MutualExclusion` and `NoLeakedLock`
  hold of every program that calls the library the way AddLogging does, or has one thread
  (`ClientOrder`). Without that assumption they are false: an init re-initialises
  a mutex that is in use.
- `BufferIsBounded`: under the same assumption, `OverrunBound`: the buffer holds
  at most `max_records - 1` records and one for each thread between its insert and
  its flush.
- `OneThreadStaysInside`: with one thread no store is outside the array, in any
  order of calls.

`MutualExclusion` is not inductive: a thread in a critical section need not own
the mutex, since shutdown may have destroyed it. The inductive invariant
`ControlInv` adds that a mutex which works is owned by exactly the thread inside,
and that a destroyed one means logging is off for good (`LockInv`); that init and
shutdown are main's, and nobody else is inside during init (`ClientInv`); what a
thread still knows of `is_inited` after looking at it (`OnInv`); and that with a
mutex that works, shutdown never gets past its own flush (`ShutdownInv`), which is what
makes its later steps harmless. `OverrunBound` needs `IndexInv` on top: the index is
0 while logging is off, and `max_records` is positive while it is on. Its step
counts: an insert moves one thread into the set of `Inserters` as it raises the
index by one, and only a thread that has seen the index below `max_records`, or
has reset it, leaves that set. Each invariant was checked with TLC first.

Further on in `ProvLoggerProofs`, under `ClientOrder` again:

- `PromiseIsKept`: the logger implements `CallSiteLog`: every step is one of its steps
  or a stutter, until a record is stored beyond the array.
- `ArrayAndLogAreThere`: `LoggingIsUsable`.
- `LogIsInOrder`: `LogOrder`.
- `WellConfiguredKeepsDescriptors`: `ProgramDescriptorsKept` holds when no init fails
  before it opens the log. `WellConfigured` says just that (valid settings, no
  fault of `malloc` or of the path), so the violation that `stdin_closed` shows has
  no other cause.

The refinement maps the first `record_index` slots to the queue. What a thread does
between two steps must therefore not be disturbed by others: `StoreInv` says that the slot at
the index holds the record whose insert is half done, and that a batch being
written is what the buffer holds, both because whoever is inside is alone there
(`OneInside`). `UsableInv` extends the array and the descriptor to the window of an init between its allocation
and its open. `LogOrder` speaks of the log; its invariant
`OrderInv` speaks of `Kept`, the log followed by the buffer, which a
flush leaves as it is and a failed one shortens from its end; and of the numbers
that threads have reserved and not yet inserted (`Calling`).

In `DriverProofs`, for every set of options, wait statuses and faults, and any number of
signals:

- `TypeCorrect`: `TypeOK` always holds.
- `PipelineIsImplemented`: `Driver` implements `Pipeline`; each step of main is a step of it,
  and each step of a timer, of `killall` and of a command is a stutter or `Fail`. What
  the script reports is read off its exit code alone (`Verdict`): a run is a success
  as soon as that is 0, whatever became of the commands, and `Pipeline` allows that only when
  every command has succeeded (an interrupt, which ends with 0 as well, is told apart).
- `ExitCodeNamesCulprit`, `NoFalseTimeout`: `CulpritIsNamed` and `TimeoutIsReal`.
- `NoProcessIsLeftBehind`: `NoOrphan`.
- `SelfLockTakesTwo`: `SelfLockNeedsTwo`.

The invariant `IInv` says what main knows at each of its statements: the commands
before its stage are settled and those after it have not begun (`InOrder`); where
the one at its stage is (`AtStage`); that `answer` is the evaluation of its status, or
`timeout` when somebody else was faster (`Judged`); and what an exit code stands for
(`Left`, `Blamed`, `Timed`). Most actions are then one case: a step of a timer, a
command or `killall` is an `Aside` step, which may only move a child from alive to
zombie to polled, and `AsideKeeps` shows the invariant once for all of them.
`NoOrphan` needs `HInv` on top, since a process that runs is only found by way of the
global: `running_process` is the command of this stage while it is alive, but for the
two windows that the property names (`Registered`); who has a return code, or is
past its wait, has seen the command end (`Started`, `KillsStage`); and the last
killall only returns when `running_process` is None (`KilledAtEnd`).

`SelfLockNeedsTwo` rests on
`LInv`, which says that a lock that main holds belongs to a call of killall in waitpid
(`MainLocks`), that there is at most one call for each SIGTERM, plus the last one
(`FramesCounted`), and that the last one of a run without an interrupt has nothing
to wait for (`NothingToKill`).

In `AuditLogProofs`, for any processes, settings and bounds:

- `TypeCorrect`: `TypeOK` (with `HalfInLog`: a second half is only next to be written
  when the log has something before it).
- `LockExcludes`: `FlockExcludes`, from `HasLock`: a writer that shares its
  description with nobody has the lock.
- `PidNamesThread`: `PidTellsThreads`. What a record shows is what its thread has
  cached, in the buffer, the batch and the log (`OwnersKept`), and what the threads of
  a process have cached are different ids, of that process or of one it descends from
  (`Cached`). That a record shows the process itself is false, as `forked_pid` shows.
- `NoRecordIsTorn`: `RecordsAreWhole`. `Batches` says that what a process has still to
  write is the end of its batch; with `HasLock` at most one process has a
  write in progress in a log that is not mixed (`OneInProgress`), so that
  what follows a first half in the log is its second one.

In the second half of `AuditLogProofs`:

- `RecordsAreInOrder`: `InOrder`.
- `RecordsAreWrittenOnce`: `NoDuplicates`.
- `NothingIsLost`: `ReturnedIsLogged`.
- `ReaderPrintsRecords`: `ReaderIsRight`.
- `InvalidTellsOfAWrite`: `InvalidIsReal`, a property of steps.

`OrderInv` follows a record on its way: the buffer is in the order of the calls
(`BufferOrder`); what a process has in its buffer, and what it has still to write of its batch, it has not written
yet, and it comes after all it has written (`WaitingInv`). Two processes can have
the same record only when it was in a buffer at a fork, and the two copies are then
followed by who has one: `CopiesInv`. `NothingLost` is the converse: a
call-site that was executed is in the log, in the buffer, in what is left of the
batch, or was dropped.

`AlignedInv` is what the reader, which counts and does not look, relies on: until
the first cut, first halves are at the odd positions of the log. It needs
`RecordsAreWhole` as a fact about the step (`HalfFollows`), since only the process that wrote the last half
may write the next one. `PrintedInv` says that what was printed is what is in the log at
these positions.

In `ProvPassesProofs`, for any program, configuration, answers of the analysis and
number of wrappers:

- `TypeCorrect`: `TypeOK`.
- `LogIsBracketed`: `MainBracketsLogging`.
- `PrintedIsLabelled`: `PrintedAsLabelled`, of a configuration that labels the calls of the
  names in the tables of `SourcesAndSinks.cpp`, and no others (`ConfigNamesThem`).

The first two follow from one invariant, `PassesInv`, with a lemma for each action. It says that
the module is made of well-formed instructions, of which those with metadata are
direct calls of functions that have a type (`ModuleInv`); that the calls on the work list
of WrapSinks are different calls of the function that it is in (`WorkListInv`), so that
the next one is found although earlier ones were replaced, which needs that no
two instructions have one address, and that no instruction has the address of an
erased one (`AddressInv`); that the names of the wrappers to come are not taken
(`NamesInv`); and up to where AddLogging has opened and closed the log in the function that
it is in, while no other pass inserts such calls (`LoggingInv`). The last of these is
why the first instruction of main and its returns stay where AddLogging sees them,
whatever the passes before it have inserted. For the printing mode `CountInv` says that
the count of a name is the number of direct calls of it in front of the position
(`CallsInFront`): the next call is a new member of that set since no two
instructions have one address, and the end of a function is the beginning of the next. Whether
the calls that are counted are those that a run would label is a matter of the
two tables and of the configuration, which are data: this is the hypothesis, and TLC
finds it true in every state of the run `passes`, which has the tables and the lines of
`sources-sinks.config`.

In `ProvPassesCallProofs`, about the same:

- `NumbersAreKept`: `CallSitesAreNumbered`.
- `SinksAreWrapped`: `SinksHaveOwnWrapper`.

Their invariant `CallsInv` follows the instructions of the program, each known by
the one of the input that it comes from. No two come from the same one, and what has metadata
has the number of its origin (`NumbersInv`). For most passes that is one lemma:
what they leave is a rearrangement (`Rearranged`) in which the instructions of
the program only moved, and what is new is clam-prov's own (`AtPositionsPicks` and
`VisitMoves` say so of an erasing and of an inserting pass). Two passes do more.
AddMetadata gives a call the number that its counter
shows, which is how many call-sites are in front of the position (`AddingInv`); the
numbers are different since the next call-site has one more in front of it
(`NextPlace`). WrapSinks moves a call to another function: `WrapperInv` says
that there is a function for each wrapper so far, with one instruction of the
program in it and one call of it, and no call of those to come; `SinksInv`, that a sink in a function
of the program is behind the position or on the work list. So none is left when WrapSinks has
been through all functions, and the sinks that remain are in wrappers. The
addresses of erased calls stay in `output_param_map`; a sink would be missed if it had
one of these, and `IsFound` excludes that with `AddressInv`.

In `ProvPassesMapProofs`, about the same:

- `MapIsKept`: `MapIsFaithful`.

The property is about both ways in which a run can end: with the whole map, or with
nothing of a map. Which of them it is does not change during a run (`WritesMap`), and the
invariant is about the calls that are written then, all or none (`Written`). A run
that only prints never comes to the map, which `CountInv` says.

What the map is made of is the set of `Marks`: of each call with metadata its function, number, tags and
origin, wherever the call is. Most steps leave that set as it is, also those that insert, erase
or move calls (`VisitKeepsMarks`, `RemoveSourcesKeepsMarks`,
`WrapCallKeepsMarks`); AddMetadata adds one, and a step of the analysis changes the
tags of one. `MapInv` says that a call has for tags what was answered for
its origin, and none if that is not known (`TaggedInv`). That needs that the
analysis sees each origin once, so that the answer it gives is the one that is kept
(`AnswersInv`, with `SourcesOnce`), and that the tags it knows are numbers of sources,
from AddSources up to there (`TagSourcesInv`). `PrintedInv` says how much of the map is there:
what `MarksPassed` gives. The next call adds one node since no
call before it has its number (`NumberedOnce`, which is where the map depends on
`CallSitesAreNumbered`).

In `ProvPassesRunProofs` and `ProvPassesKeepProofs`, about the same:

- `ProgramIsPreserved`: `ProgramPreserved`, of a program in which
  `SinksTakeWhatTheyDeclare`: a sink that can be wrapped is a `call`, and has as many
  operands as its function declares parameters.

The hypothesis is what WrapSinks takes for granted. The wrapper passes on
the declared parameters only, so that a variadic sink loses operands
(`WrapSinks.cpp:40`), and it makes a `call` of an `invoke`. TLC finds it true
in every state of the run `passes`, which wraps sinks with one and two pointers.

`ProgramPreserved` is about what a function does, with the body of each wrapper
in the place of its call (`Run`). The proof has two parts. The first is about
sequences: if instructions of clam-prov's own are inserted anywhere in a
function, or taken away, what remains of the program is the same sequence of calls
(`Follows`, `OrderedObserved`). This is where an order comes in that `Rearranged` of
`ProvPassesCallProofs` forgets, and it serves AddMetadata, AddSources, the analysis,
removeSources and AddLogging (`VisitOrders`, `RemoveSourcesOrders`). The second is
about WrapSinks, which takes a call out of its function. `Forwards` says of
the body of a wrapper that one call of the program is reached in it, before any return, and that all
else is clam-prov's; with the operands of the call in place of its formal
parameters (`WithOperands`) it is the call that was replaced (`FormalCore`). The other calls of
that function, and those of all others, do what they did, since the name of the
new wrapper was not called before (`WrappedDoes`). `RunInv` carries this over the
steps, with `WaitingInv`: what `output_param_map` says of a call that waits is what its
metadata says of it, so that the pointers marked in the wrapper are parameters of it.

- `CallSitesAreLogged`: `EveryCallSiteIsLogged`, of any program, also of one with variadic
  sinks.

It takes from `RunInv` only that the wrappers that are called are there and have one
call each, which needs no hypothesis (`RunInv(FALSE)`, `CodeInvariant`). `RecordInv` adds how
far AddLogging is: a call with a number in front of the position has its record
behind it, except for the one right in front, whose turn is next; a record has such a
call in front of it; no pass before inserts one. And every function ends with
the end of a block (`Closes`), or with the call of a wrapper where WrapSinks
replaced an `invoke`, so that a call that is not an `invoke` has a next instruction for AddLogging
to come to. What holds of bodies is then carried to runs: what a wrapper does is its body up to
a return, in which a call and its record stay neighbours since neither is passed over
(`InlineLogs`), and in the run of a function the parts that its instructions stand for are joined
without a gap (`Places`, `FlattenLogs`).

- `LibraryIsCalled`: `LibraryIsReached`, of any library.

The function for a type is found by counting the types up to where it comes first
(`NondetFn`). A type that comes later has a greater count (`LaterTypeIsNew`), and the free names
are different from each other, so that two parameters share a function exactly when they share
a type. Each function of the library gives main one piece of known length, the values and then
the call (`PieceIs`); the pieces are laid end to end (`ArePlaced`), and the call of
a function is told from all else in main since its name is not one of the free
ones (`CallsAreFound`). `MainInv` carries this to the state in which a pass begins.

- `TagsAreSeen`: `AnalysisSeesTags`, of any program, also of one with variadic
  sinks.

`SeenInv` says it of bodies. What AddSources has visited (`TaggedTo`) has, for each
argument that it fills, a mark and then a tag with its identifier in front of it
(`TagsInv`). A sink may be a source too, and WrapSinks then moves it away
from its tags, which stay with the call of the wrapper and name the operands
of that call. So the invariant speaks of the call that is forwarded with these
operands (`StandsTagged`), which needs that the call passes every parameter
that is declared (`PassesDeclared`). The mark and the tag of
one argument are inserted together and stay neighbours, since AddSources then only inserts
behind the call and WrapSinks puts one call in the place of another (`TagsStay`). `MarksInv` says of a wrapper that it marks
whatever its call sends out, and that this is a parameter of the wrapper, so that it is the
operand of the call when a run goes through it. In a run, the tags are in front of the call
of the wrapper, and the marks are in the body of the wrapper.

The assumptions, in `ProvPasses`, say what clam-prov is used for: a program
with at least one function, whose instructions are different
and without metadata, and in which no function has the name of one that clam-prov
inserts calls of (`ArgumentsAssumption`); what it calls has a type, and what gives a new main its values
takes nothing, as `makeNewNondetFn` makes it (`SignatureAssumption`); no type of a result is a parameter of a wrapper (`ResultsAssumption`);
what LLVM's verifier rejects is not there (`VerifierAssumption`); and the names that clam-prov generates are different from each other and from
its own (`NamesAssumption`), and not empty (`WrappersHaveNames`).

The models of the passes are folds and sequences of sequences. Since no theorem here can
take an operator, what is needed of them is proved by induction over sets of numbers
(`Induction`, from the fact that a set of naturals has a least element), with the
function that computes the result as the object of the proof (`FlattenIs`).

Each invariant was checked with TLC first.

Only model-checked are the liveness properties of all modules, since no prover here does
liveness: `FullIsFlushed`, `CallsReturn`, `PassesEnd`, `DriverEnds`, `NobodyWaitsForEver`; and
that the tables and the configuration name the same functions (see `PrintedIsLabelled`).

## Where the code disagrees with its own words

The six violation runs are findings, quoted in `PROJECT.json` with the lines of
the header, README or configuration that they contradict. The models contain some
more behaviour of this kind that no run singles out. In the library and the passes: `clam_prov_do_cleanup` may
free the array twice; an init while another thread is inside re-initialises the
mutex; a sink without any tag gets a `clam-prov-tags` node without operands
(`ProvMetadata.h` speaks of one or more); casts made for sources stay in the
program; the result of a call that returns nothing, or an `i32`, is passed to the
logger as if it were a `long`; an `invoke` is numbered and in the map but never
logged; the wrapper of a variadic sink drops the operands that are not declared; clam-prov succeeds without a dependency map when it cannot open the file for it, and
without any call-site when it cannot open that of `--add-metadata-output`. In the driver: a timer that is past its `is_alive` check
goes on after "kill the timer if the process has terminated already"
(`clam-prov.py.in:135`) and may clear `running_process` of the next command; an
interrupt ends the script with exit code 0 (758); `out_of_memory` is never set, so
that the exit codes 21 and 27 do not occur; what is called a segfault (line 111) is any signal with a
core dump.

## Plan

1. `ProvLogger`, its properties and first theorems. *Done.*
2. `ProvMetadata`, `ProvConfig`, `ProvPasses`. *Done*, except for inputs that
   clam-prov has been through before (stale numbers, wrappers of that name).
3. `Pipeline`, `Driver`, its properties and theorems. *Done.*
4. `AuditLog`: processes, `fork`, `flock`, the pipe and the reader, with its theorems.
   *Done.*
5. The dummy main and the printing mode, in `ProvPasses`. *Done.*
6. Proofs about `ProvLogger`: that each step maps to a step of `CallSiteLog` or a
   stutter, and `LogOrder`; and about the order and the reader of `AuditLog`. *Done.*
   About `ProvPasses`: the invariant of all passes, `CallSitesAreNumbered`,
   `SinksHaveOwnWrapper`, `MapIsFaithful`, `ProgramPreserved` and `EveryCallSiteIsLogged`. *Done.*
   So are `LibraryIsReached`, `AnalysisSeesTags` and `PrintedAsLabelled`. *Done.*
7. `InstrumentedProgram`: the code that `ProvPasses` leaves, run against the logger.
   `MainBracketsLogging` and `ReturnedIsLogged` cover the two sides of it.
8. Inputs that clam-prov has been through before and that were linked: stale
   numbers and wrappers of the same names.

## Not modelled

`stats.py` only keeps stop watches. What `--add-metadata-output` writes is a copy of what
is in memory anyway; only that its file may be impossible to open is in the model. The tag analysis, SeaDsa and the LLVM
passes are other projects, and enter as any result they may have. Build files have
no state.
