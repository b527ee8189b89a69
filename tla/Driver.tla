------------------------------- MODULE Driver -------------------------------
(***************************************************************************)
(* The driver script (py/clam-prov.py.in): it runs one command after       *)
(* another, each under run_command_with_limits.  Three things wait for the *)
(* same child: os.wait4 in the main thread, the timer thread that kills a  *)
(* command after its time, and killall, which runs in the main thread too: *)
(* as the handler of SIGTERM, on top of whatever the main thread is doing, *)
(* and when the script ends.  Timer and killall wait through the Popen     *)
(* object of the command, which remembers the result and has a lock.       *)
(*                                                                         *)
(* One action is one stretch of Python between two points where a signal   *)
(* or the other thread may come in.  Pids are not reused.                  *)
(***************************************************************************)
EXTENDS Integers, Sequences, FiniteSets

CONSTANTS
    Options,        \* the sets of options a run may be called with
    Statuses,       \* wait statuses with which a command may end by itself
    MaxSignals,     \* bound on the signals the script gets: SIGTERMs, and ...
    Interruptible,  \* ... may one of them be the user's interrupt?
    Faults          \* what may fail: "tool" (not installed), "popen"

\* clamOpt is in the list for its place; see ToolMissing.
Tool == <<"clang", "addMain", "clamPP", "clamOpt", "clamProv">>
Commands == 1 .. 5
NoCommand == 0

\* Options: the input is bitcode, --add-main, -O1 .. -O3, --cpu, --oll.
AllOptions == {"bitcode", "add_main", "L", "cpu", "oll"}

ASSUME OptionsAssumption == Options \subseteq SUBSET AllOptions
WaitStatus == {s \in Nat : s < 65536}

ASSUME StatusesAssumption == Statuses \subseteq WaitStatus
ASSUME SignalAssumption == MaxSignals \in Nat /\ Interruptible \in BOOLEAN
ASSUME FaultAssumption == Faults \subseteq {"tool", "popen"}

VARIABLES
    args,               \* the options of this run
    stage,              \* the command main is at
    pc,                 \* the next statement of the main thread ...
    frames,             \* ... when no call of killall is on top of it
    answer,             \* what run_command_with_limits returns
    exit_code,
    running_process,    \* the global: a command, or NoCommand for None
    child,              \* what became of the process of each command
    status,             \* its wait status, once it has ended
    returncode,         \* does its Popen object have a return code?
    waitpid_lock,       \* the lock of that object: "free", "main" or "timer"
    timer,              \* the timer of each command
    terms,              \* how many SIGTERMs came
    interrupted,        \* where the main thread was interrupted, or "no"
    cleared_late        \* has a timer cleared running_process of another command?

main_vars  == <<stage, pc, answer, exit_code>>
child_vars == <<child, status, returncode, waitpid_lock>>
past_vars  == <<terms, interrupted, cleared_late>>
vars == <<args, main_vars, frames, running_process, child_vars, timer, past_vars>>

Alive == {"running", "terminated", "killed"}
Unreaped == Alive \cup {"zombie"}

Init ==
    /\ args \in Options
    /\ stage = 0
    /\ pc = "next"
    /\ frames = <<>>
    /\ answer = [value |-> 0, flag |-> "none"]
    /\ exit_code = 0
    /\ running_process = NoCommand
    /\ child = [c \in Commands |-> "none"]
    /\ status = [c \in Commands |-> 0]
    /\ returncode = [c \in Commands |-> FALSE]
    /\ waitpid_lock = [c \in Commands |-> "free"]
    /\ timer = [c \in Commands |-> "off"]
    /\ terms = 0
    /\ interrupted = "no"
    /\ cleared_late = FALSE

-----------------------------------------------------------------------------
(* main: the commands of this run, and leaving it                          *)

Used(c) ==
    CASE Tool[c] = "clang"   -> "bitcode" \notin args
      [] Tool[c] = "addMain" -> "add_main" \in args
      [] Tool[c] = "clamOpt" -> "L" \in args
      [] OTHER               -> TRUE

\* clang and addMain are called without limits.
Limited(c) == "cpu" \in args /\ Tool[c] \notin {"clang", "addMain"}

MainAt(here) == pc = here /\ frames = <<>>
Goes(here, there) == MainAt(here) /\ pc' = there

\* Mutant: the script ends without killall.
Leaves_NoKillall(code) ==
    /\ pc' = "exiting"
    /\ exit_code' = code
    /\ frames' = <<>>

\* sys.exit, a return of main or an exception; the `finally' at the end of the
\* script calls killall.
Leaves(code) ==
    /\ pc' = "exiting"
    /\ exit_code' = code
    /\ frames' = <<[at |-> "check", proc |-> NoCommand]>>

\* What a step that only moves main on leaves alone.
calm_vars == <<args, running_process, child_vars, timer, past_vars>>

NextStage ==
    /\ MainAt("next")
    /\ \/ stage < 5 /\ stage' = stage + 1
          /\ pc' = IF Used(stage') THEN "find" ELSE "next"
       \/ stage = 5 /\ pc' = "copy" /\ UNCHANGED stage
    /\ UNCHANGED <<calm_vars, frames, answer, exit_code>>

FindTool ==
    /\ Goes("find", "popen")
    /\ Tool[stage] # "clamOpt"
    /\ UNCHANGED <<calm_vars, frames, stage, answer, exit_code>>

\* IOError; getOptLlvm always raises NameError: it uses `clam_cmd', which is
\* not defined there.
ToolMissing ==
    /\ MainAt("find")
    /\ Tool[stage] = "clamOpt" \/ "tool" \in Faults
    /\ Leaves(1)
    /\ UNCHANGED <<calm_vars, stage, answer>>

\* clam-prov opens the file of -oll and never calls keep() on it: the file is
\* gone when clam-prov has ended, and copy2 raises FileNotFoundError.
Finished ==
    /\ MainAt("copy")
    /\ Leaves(IF "oll" \in args THEN 1 ELSE 0)
    /\ UNCHANGED <<calm_vars, stage, answer>>

\* The interpreter waits for the timer threads that are still alive.
Exit ==
    /\ Goes("exiting", "exited")
    /\ \A c \in Commands : timer[c] \in {"off", "cancelled", "over"}
    /\ UNCHANGED <<calm_vars, frames, stage, answer, exit_code>>

-----------------------------------------------------------------------------
(* run_command_with_limits, in the main thread                             *)

Popen ==
    /\ Goes("popen", "register")
    /\ child' = [child EXCEPT ![stage] = "running"]
    /\ UNCHANGED <<args, stage, frames, answer, exit_code, running_process,
                   status, returncode, waitpid_lock, timer, past_vars>>

PopenFails ==
    /\ MainAt("popen")
    /\ "popen" \in Faults
    /\ Leaves(1)
    /\ UNCHANGED <<calm_vars, stage, answer>>

Register ==
    /\ Goes("register", "timer")
    /\ running_process' = stage
    /\ UNCHANGED <<args, stage, frames, answer, exit_code, child_vars, timer,
                   past_vars>>

\* Mutant: the timer is never started.
StartTimer_Never ==
    /\ Goes("timer", "wait4")
    /\ UNCHANGED <<calm_vars, frames, stage, answer, exit_code>>

StartTimer ==
    /\ Goes("timer", "wait4")
    /\ timer' = [timer EXCEPT ![stage] = IF Limited(stage) THEN "set" ELSE @]
    /\ UNCHANGED <<args, stage, frames, answer, exit_code, running_process,
                   child_vars, past_vars>>

\* Mutant: every signal is taken for a timeout.
Evaluate_AnySignal(s) ==
    IF s % 256 = 0 THEN [value |-> s \div 256, flag |-> "none"]
                   ELSE [value |-> -1, flag |-> "timeout"]

\* Mutant: the exit code is not shifted down.
Evaluate_NoShift(s) ==
    IF s % 256 = 0 THEN [value |-> s, flag |-> "none"]
                   ELSE [value |-> -1, flag |-> "timeout"]

\* The value -1 stands for None.  A signal number above 127 has the bit of a
\* core dump in it.
Evaluate(s) ==
    LET signalvalue == s % 256
    IN  IF signalvalue = 0 THEN [value |-> s \div 256, flag |-> "none"]
        ELSE [value |-> -1,
              flag |-> IF signalvalue > 127 THEN "segfault"
                       ELSE IF signalvalue \in {9, 14, 15} THEN "timeout"
                       ELSE "unknown"]

Wait4 ==
    /\ Goes("wait4", "clear")
    /\ child[stage] = "zombie"
    /\ child' = [child EXCEPT ![stage] = "waited"]
    /\ answer' = Evaluate(status[stage])
    /\ UNCHANGED <<args, stage, frames, exit_code, running_process, status,
                   returncode, waitpid_lock, timer, past_vars>>



\* ECHILD: the timer or killall was faster.
Wait4NoChild ==
    /\ Goes("wait4", "finally")
    /\ child[stage] = "polled"
    /\ answer' = [value |-> -1, flag |-> "timeout"]
    /\ UNCHANGED <<calm_vars, frames, stage, exit_code>>

ClearRunningProcess ==
    /\ Goes("clear", "finally")
    /\ running_process' = NoCommand
    /\ UNCHANGED <<args, stage, frames, answer, exit_code, child_vars, timer,
                   past_vars>>

\* timer.cancel() stops a timer that has not fired yet.
Cancelled == [timer EXCEPT ![stage] = IF @ = "set" THEN "cancelled" ELSE @]

CancelTimer ==
    /\ Goes("finally", "decide")
    /\ timer' = Cancelled
    /\ UNCHANGED <<args, stage, frames, answer, exit_code, running_process,
                   child_vars, past_vars>>

\* Mutant: clam-pp fails with the codes of crab.
ErrorCode_PPAsCrab(tool, flag) ==
    IF flag = "timeout" THEN IF tool = "clang" THEN 20 ELSE 26
    ELSE IF tool = "clang" THEN 22 ELSE 25

\* The exit codes of the four callers of run_command_with_limits; wait4 never
\* fails with ENOMEM, so that no run ends with FRONTEND_MEMORY_OUT (21) or
\* CRAB_MEMORY_OUT (27).
ErrorCode(tool, flag) ==
    CASE tool = "addMain"  -> 24
      [] tool = "clamProv" -> (CASE flag = "timeout"  -> 26
                                 [] flag = "segfault" -> 28
                                 [] OTHER             -> 25)
      [] OTHER             -> (CASE flag = "timeout"  -> 20
                                 [] tool = "clang"    -> 22
                                 [] OTHER             -> 24)

\* Mutant: clamProv does not look at the return value.
Decide_FlagsOnly ==
    /\ MainAt("decide")
    /\ IF answer.flag = "none" /\ (answer.value = 0 \/ Tool[stage] = "clamProv")
       THEN pc' = "next" /\ UNCHANGED <<frames, exit_code>>
       ELSE Leaves(ErrorCode(Tool[stage], answer.flag))
    /\ UNCHANGED <<calm_vars, stage, answer>>

Decide ==
    /\ MainAt("decide")
    /\ IF answer = [value |-> 0, flag |-> "none"]
       THEN pc' = "next" /\ UNCHANGED <<frames, exit_code>>
       ELSE Leaves(ErrorCode(Tool[stage], answer.flag))
    /\ UNCHANGED <<calm_vars, stage, answer>>

-----------------------------------------------------------------------------
(* subprocess.Popen (CPython 3.9 and later)                                *)

\* send_signal polls first, unless somebody else holds the lock: a child that
\* has ended is waited for, and no signal is sent.
Signal(c, how) ==
    LET polls == ~returncode[c] /\ waitpid_lock[c] = "free"
                   /\ child[c] \notin Alive
    IN  /\ returncode' = [returncode EXCEPT ![c] = @ \/ polls]
        /\ child' = [child EXCEPT ![c] =
                       IF polls /\ @ = "zombie" THEN "polled"
                       ELSE IF ~returncode[c] /\ @ \in Alive \ {"killed"} THEN how
                       ELSE @]

\* waitpid, in Popen.wait: ends with the child, or with ECHILD.
WaitPid(c) ==
    /\ child[c] \notin Alive
    /\ returncode' = [returncode EXCEPT ![c] = TRUE]
    /\ child' = [child EXCEPT ![c] = IF @ = "zombie" THEN "polled" ELSE @]
    /\ waitpid_lock' = [waitpid_lock EXCEPT ![c] = "free"]

-----------------------------------------------------------------------------
(* kill, in the timer thread of command c                                  *)

TimerGoes(c, here, there) ==
    timer[c] = here /\ timer' = [timer EXCEPT ![c] = there]

\* What the timer thread of a command leaves alone while it kills it.
timer_frame == <<args, main_vars, frames, status, past_vars>>

TimerFires(c) ==
    /\ TimerGoes(c, "set", "terminate")
    /\ UNCHANGED <<timer_frame, running_process, child_vars>>

TimerSignals(c) ==
    /\ \/ TimerGoes(c, "terminate", "kill") /\ Signal(c, "terminated")
       \/ TimerGoes(c, "kill", "lock") /\ Signal(c, "killed")
    /\ UNCHANGED <<timer_frame, running_process, waitpid_lock>>

TimerLocks(c) ==
    /\ \/ /\ returncode[c]
          /\ TimerGoes(c, "lock", "clear")
          /\ UNCHANGED waitpid_lock
       \/ /\ ~returncode[c]
          /\ waitpid_lock[c] = "free"
          /\ TimerGoes(c, "lock", "waitpid")
          /\ waitpid_lock' = [waitpid_lock EXCEPT ![c] = "timer"]
    /\ UNCHANGED <<timer_frame, running_process, child, returncode>>

TimerWaits(c) ==
    /\ TimerGoes(c, "waitpid", "clear")
    /\ WaitPid(c)
    /\ UNCHANGED <<timer_frame, running_process>>

\* running_process may belong to the next command by now.
TimerClears(c) ==
    /\ TimerGoes(c, "clear", "over")
    /\ running_process' = NoCommand
    /\ cleared_late' = (cleared_late \/ running_process \notin {c, NoCommand})
    /\ UNCHANGED <<args, main_vars, frames, child_vars, terms, interrupted>>

-----------------------------------------------------------------------------
(* killall, in the main thread: the last of `frames' runs                  *)

Last == frames[Len(frames)]
FrameAt(here) == frames # <<>> /\ Last.at = here
Returns == frames' = SubSeq(frames, 1, Len(frames) - 1)
FrameGoes(there, c) ==
    frames' = [frames EXCEPT ![Len(frames)] = [at |-> there, proc |-> c]]

\* An exception leaves all calls of killall and releases their lock; it ends
\* the script, through the `finally' of run_command_with_limits when main is
\* inside its `try'.  (The last killall is not called again when it crashes
\* itself, but running_process is None then.)
Unwinds(code) ==
    /\ Leaves(code)
    /\ waitpid_lock' = [c \in Commands |->
                          IF waitpid_lock[c] = "main" THEN "free"
                                                      ELSE waitpid_lock[c]]
    /\ timer' = IF pc \in {"wait4", "clear"} THEN Cancelled ELSE timer
    /\ UNCHANGED <<args, stage, answer, running_process, child, status, returncode>>

KillallCheck ==
    /\ FrameAt("check")
    /\ IF running_process = NoCommand THEN Returns
                                      ELSE FrameGoes("terminate", NoCommand)
    /\ UNCHANGED <<calm_vars, main_vars>>

\* Each statement reads the global anew.
KillallSignals ==
    /\ running_process # NoCommand
    /\ \/ FrameAt("terminate") /\ FrameGoes("kill", NoCommand)
          /\ Signal(running_process, "terminated")
       \/ FrameAt("kill") /\ FrameGoes("wait", NoCommand)
          /\ Signal(running_process, "killed")
    /\ UNCHANGED <<args, main_vars, running_process, status, waitpid_lock, timer,
                   past_vars>>

KillallWaits ==
    /\ FrameAt("wait")
    /\ running_process # NoCommand
    /\ FrameGoes("lock", running_process)
    /\ UNCHANGED <<calm_vars, main_vars>>

\* AttributeError: None has no terminate, kill or wait.
KillallCrashes ==
    /\ FrameAt("terminate") \/ FrameAt("kill") \/ FrameAt("wait")
    /\ running_process = NoCommand
    /\ Unwinds(1)
    /\ UNCHANGED past_vars

\* A lock that the main thread took in an outer call of killall is never freed.
KillallLocks ==
    /\ FrameAt("lock")
    /\ \/ /\ returncode[Last.proc]
          /\ FrameGoes("clear", NoCommand)
          /\ UNCHANGED waitpid_lock
       \/ /\ ~returncode[Last.proc]
          /\ waitpid_lock[Last.proc] = "free"
          /\ FrameGoes("waitpid", Last.proc)
          /\ waitpid_lock' = [waitpid_lock EXCEPT ![Last.proc] = "main"]
    /\ UNCHANGED <<args, main_vars, running_process, child, status, returncode,
                   timer, past_vars>>

\* Mutant: wait raises once it has reaped the child, and keeps its lock.
KillallReaps_Raises ==
    /\ FrameAt("waitpid")
    /\ child[Last.proc] \notin Alive
    /\ child' = [child EXCEPT ![Last.proc] = IF @ = "zombie" THEN "polled" ELSE @]
    /\ Returns
    /\ UNCHANGED <<args, main_vars, running_process, status, returncode,
                   waitpid_lock, timer, past_vars>>

KillallReaps ==
    /\ FrameAt("waitpid")
    /\ WaitPid(Last.proc)
    /\ FrameGoes("clear", NoCommand)
    /\ UNCHANGED <<args, main_vars, running_process, status, timer, past_vars>>

KillallClears ==
    /\ FrameAt("clear")
    /\ running_process' = NoCommand
    /\ Returns
    /\ UNCHANGED <<args, main_vars, child_vars, timer, past_vars>>

-----------------------------------------------------------------------------
(* The environment, and the next-state relation                            *)

Signals == terms + (IF interrupted = "no" THEN 0 ELSE 1)

\* The handler runs before the next statement of the main thread; calls that
\* block there, wait4 included, are interrupted for it and taken up again.
Sigterm ==
    /\ pc # "exited"
    /\ Signals < MaxSignals
    /\ terms' = terms + 1
    /\ frames' = Append(frames, [at |-> "check", proc |-> NoCommand])
    /\ UNCHANGED <<args, main_vars, running_process, child_vars, timer,
                   interrupted, cleared_late>>

\* KeyboardInterrupt, which the script passes over: it ends with code 0.  One
\* that comes when it is on its way out is left out.
Interrupt ==
    /\ Interruptible
    /\ interrupted = "no" /\ Signals < MaxSignals
    /\ pc \notin {"exiting", "exited"}
    /\ interrupted' = pc
    /\ Unwinds(0)
    /\ UNCHANGED <<terms, cleared_late>>

\* A command ends by itself or because of a signal it was sent.
ChildEnds(c) ==
    /\ child[c] \in Alive
    /\ \E s \in CASE child[c] = "running"    -> Statuses
                  [] child[c] = "terminated" -> Statuses \cup {15}
                  [] child[c] = "killed"     -> {9} :
         status' = [status EXCEPT ![c] = s]
    /\ child' = [child EXCEPT ![c] = "zombie"]
    /\ UNCHANGED <<args, main_vars, frames, running_process, returncode,
                   waitpid_lock, timer, past_vars>>

Terminated == pc = "exited" /\ UNCHANGED vars

MainStep ==
    \/ NextStage \/ FindTool \/ ToolMissing \/ Finished \/ Exit
    \/ Popen \/ PopenFails \/ Register \/ StartTimer \/ Wait4 \/ Wait4NoChild
    \/ ClearRunningProcess \/ CancelTimer \/ Decide
    \/ KillallCheck \/ KillallSignals \/ KillallWaits \/ KillallCrashes
    \/ KillallLocks \/ KillallReaps \/ KillallClears

TimerStep(c) ==
    \/ TimerFires(c) \/ TimerSignals(c) \/ TimerLocks(c) \/ TimerWaits(c)
    \/ TimerClears(c)

Next ==
    \/ MainStep
    \/ \E c \in Commands : TimerStep(c) \/ ChildEnds(c)
    \/ Sigterm
    \/ Interrupt
    \/ Terminated

Spec == Init /\ [][Next]_vars

\* Threads run, time passes, a killed process ends, and a command without a
\* limit ends by itself.  One that has a limit need not.
FairSpec ==
    /\ Spec
    /\ WF_vars(MainStep)
    /\ \A c \in Commands :
         /\ WF_vars(TimerStep(c))
         /\ WF_vars((child[c] = "killed" \/ ~Limited(c)) /\ ChildEnds(c))
=============================================================================
