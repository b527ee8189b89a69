----------------------------- MODULE DriverProps -----------------------------
(***************************************************************************)
(* What the driver must guarantee, whenever signals and timers come in.    *)
(***************************************************************************)
EXTENDS Driver

MainPoints == {"next", "find", "popen", "register", "timer", "wait4", "clear",
               "finally", "decide", "copy", "exiting", "exited"}
ExitCodes   == {0, 1} \cup 20 .. 28
ChildStates == Unreaped \cup {"none", "waited", "polled"}
TimerStates == {"off", "set", "cancelled", "terminate", "kill", "lock", "waitpid",
                "clear", "over"}

\* run_command_with_limits returns a number without a flag, or None with one.
Answer == [value : {n \in Nat : n < 256}, flag : {"none"}]
            \cup [value : {-1}, flag : {"timeout", "segfault", "unknown"}]

\* A call of killall knows the command it waits for once it is inside wait().
Frame == [at : {"lock", "waitpid"}, proc : Commands]
           \cup [at : {"check", "terminate", "kill", "wait", "clear"}, proc : {NoCommand}]

\* The variables have their types.
TypeOK ==
    /\ args \in SUBSET AllOptions
    /\ stage \in {0} \cup Commands
    /\ pc \in MainPoints
    /\ pc \notin {"next", "copy", "exiting", "exited"} => stage \in Commands
    /\ frames \in Seq(Frame)
    /\ answer \in Answer
    /\ exit_code \in ExitCodes
    /\ running_process \in Commands \cup {NoCommand}
    /\ child \in [Commands -> ChildStates]
    /\ status \in [Commands -> WaitStatus]
    /\ returncode \in [Commands -> BOOLEAN]
    /\ waitpid_lock \in [Commands -> {"free", "main", "timer"}]
    /\ timer \in [Commands -> TimerStates]
    /\ terms \in Nat
    /\ interrupted \in {"no"} \cup MainPoints
    /\ cleared_late \in BOOLEAN

-----------------------------------------------------------------------------
(* The abstract specification                                              *)

\* A command has failed once os.wait4 gave a status other than 0 for it, or
\* gave none because killall or the timer had waited for it before.
Failed(c) == child[c] = "polled" \/ (child[c] = "waited" /\ status[c] # 0)

\* What the script tells: once it leaves, its exit code and nothing else; until
\* then, that it has to be a failure.
Verdict ==
    IF interrupted # "no" THEN "interrupted"
    ELSE IF pc \in {"exiting", "exited"}
         THEN IF exit_code = 0 THEN "success" ELSE "failure"
    ELSE IF \E c \in Commands : Failed(c) THEN "failure" ELSE "none"

Needed    == {c \in Commands : Used(c)}
Succeeded == {c \in Commands : child[c] = "waited" /\ status[c] = 0}
Active    == {c \in Commands : child[c] \in Unreaped}

Promise ==
    INSTANCE Pipeline WITH
        needed <- Needed, succeeded <- Succeeded, active <- Active, verdict <- Verdict

\* The driver implements its abstract specification: one command at a time, in
\* order, none after a failure, and exit code 0 only when every command of the
\* run ended well (or the user interrupted it), whoever waits for the child
\* first: a failure, once there, stays one until the exit code says so.
ImplementsPipeline == Promise!PLSpec

-----------------------------------------------------------------------------
(* Invariants                                                              *)

\* A run is only reported as a timeout when the timer of that command went off,
\* a SIGTERM came, or something else killed the command with such a signal.
TimeoutIsReal ==
    pc = "exited" /\ exit_code \in {20, 26} =>
        \/ terms > 0
        \/ timer[stage] = "over"
        \/ status[stage] % 256 \in {9, 14, 15}

\* An exit code of the script's own points to the command that was last
\* started, and that command did not end well or was killed.
CulpritIsNamed ==
    pc = "exited" /\ exit_code > 1 =>
        /\ Failed(stage)
        /\ exit_code \in CASE Tool[stage] = "clang"    -> {20, 22}
                           [] Tool[stage] = "addMain"  -> {24}
                           [] Tool[stage] = "clamPP"   -> {20, 24}
                           [] Tool[stage] = "clamProv" -> {25, 26, 28}

\* The script leaves a process behind in two cases only: it was interrupted
\* before running_process was set, or a timer that fired late cleared it.
NoOrphan ==
    pc = "exited" /\ (\E c \in Commands : child[c] \in Alive) =>
        interrupted = "register" \/ cleared_late

\* killall waits for a lock that its own thread holds.
SelfLocked ==
    /\ FrameAt("lock")
    /\ ~returncode[Last.proc]
    /\ waitpid_lock[Last.proc] = "main"

\* That takes a signal during the killall of another one.
SelfLockNeedsTwo ==
    SelfLocked => Signals >= 2

-----------------------------------------------------------------------------
(* Temporal properties                                                     *)

\* The script ends, although a command that has a limit may never end by
\* itself, unless it waits for its own lock.
DriverEnds == <>(pc = "exited" \/ SelfLocked)
=============================================================================
