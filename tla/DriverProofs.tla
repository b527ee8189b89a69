---------------------------- MODULE DriverProofs ----------------------------
(***************************************************************************)
(* Theorems about the driver, for every set of options and wait statuses,  *)
(* any number of signals, and any faults: the types, that it implements    *)
(* its abstract specification Pipeline, what its exit codes mean, when it  *)
(* may leave a process behind and when killall can wait for itself: never  *)
(* with less than two signals.                                             *)
(*                                                                         *)
(* The invariant says what main knows at each of its statements about the  *)
(* commands before, at and after its stage; HInv says that killall still   *)
(* finds the command that runs.                                            *)
(***************************************************************************)
EXTENDS DriverProps, TLAPS

\* Command c has ended well, or is no part of this run.
Settled(c) ==
    IF Used(c) THEN child[c] = "waited" /\ status[c] = 0 ELSE child[c] = "none"

\* What became of the commands before and after the one main is at.
InOrder ==
    /\ \A c \in Commands : c < stage => Settled(c)
    /\ \A c \in Commands : c > stage => child[c] = "none" /\ timer[c] = "off"

Between == {"next", "find", "popen", "register", "copy"}
Inside  == {"register", "timer", "wait4", "clear", "finally", "decide"}
Outside == {"exiting", "exited"}

\* The command that main is at.
AtStage ==
    /\ pc \in {"next", "copy"} => stage = 0 \/ Settled(stage)
    /\ pc = "copy" => stage = 5
    /\ pc \in {"find", "popen"} \cup Inside => stage \in Commands /\ Used(stage)
    /\ pc \in {"popen"} \cup Inside => Tool[stage] # "clamOpt"
    /\ pc \in {"find", "popen"} => child[stage] = "none"
    /\ pc \in {"find", "popen", "register", "timer"} => timer[stage] = "off"
    /\ pc \in Inside => child[stage] # "none"
    /\ pc \in Between => running_process = NoCommand

\* What run_command_with_limits makes of the end of its command.
Judged ==
    /\ pc = "clear" => child[stage] = "waited" /\ answer = Evaluate(status[stage])
    /\ pc \in {"finally", "decide"} =>
         \/ /\ child[stage] = "waited"
            /\ answer = Evaluate(status[stage])
            /\ running_process = NoCommand
         \/ /\ child[stage] = "polled"
            /\ answer = [value |-> -1, flag |-> "timeout"]

\* Leaving with code 0, when nobody has interrupted the script.
Left ==
    /\ interrupted # "no" => pc \in Outside
    /\ pc \in Outside /\ exit_code = 0 /\ interrupted = "no" =>
         /\ stage = 5 /\ Settled(5)
         /\ running_process = NoCommand
         /\ \A i \in 1 .. Len(frames) : frames[i].at = "check"

CodesOf(tool) ==
    CASE tool = "clang"    -> {20, 22}
      [] tool = "addMain"  -> {24}
      [] tool = "clamPP"   -> {20, 24}
      [] tool = "clamProv" -> {25, 26, 28}

\* Leaving with a code of the script's own.
Blamed ==
    pc \in Outside /\ exit_code > 1 =>
        /\ stage \in Commands
        /\ Tool[stage] # "clamOpt"
        /\ Failed(stage)
        /\ exit_code \in CodesOf(Tool[stage])

\* A SIGTERM, or a timer that is about to end, is behind every child that was
\* waited for by somebody else, and behind every timeout.
Fired(c) == timer[c] \in {"kill", "lock", "waitpid", "clear", "over"}
Timed ==
    /\ terms = 0 => frames = <<>> \/ pc \in Outside
    /\ pc \in Inside /\ child[stage] = "polled" => terms > 0 \/ Fired(stage)
    /\ pc \in Outside /\ exit_code \in {20, 26} =>
         \/ terms > 0
         \/ Fired(stage)
         \/ status[stage] % 256 \in {9, 14, 15}

\* The script ends after its timers.
Idle == {"off", "cancelled", "over"}
Gone == pc = "exited" => \A c \in Commands : timer[c] \in Idle

IInv == TypeOK /\ InOrder /\ AtStage /\ Judged /\ Left /\ Blamed /\ Timed /\ Gone
-----------------------------------------------------------------------------
(* Types                                                                   *)

LEMMA EvaluateType ==
    ASSUME NEW s \in WaitStatus
    PROVE  /\ Evaluate(s) \in Answer
           /\ Evaluate(s) = [value |-> 0, flag |-> "none"] <=> s = 0
           /\ Evaluate(s).flag = "timeout" => s % 256 \in {9, 14, 15}
  <1>1. s \div 256 \in Nat /\ s \div 256 < 256
    BY SMT DEF WaitStatus
  <1>2. s % 256 = 0 /\ s \div 256 = 0 <=> s = 0
    BY SMT DEF WaitStatus
  <1>3. CASE s % 256 = 0
    <2>1. Evaluate(s) = [value |-> s \div 256, flag |-> "none"]
      BY <1>3 DEF Evaluate
    <2> QED
      BY <1>1, <1>2, <1>3, <2>1 DEF Answer
  <1>4. CASE s % 256 # 0
    <2>1. PICK f \in {"segfault", "timeout", "unknown"} :
            /\ Evaluate(s) = [value |-> -1, flag |-> f]
            /\ f = "timeout" => s % 256 \in {9, 14, 15}
      BY <1>4 DEF Evaluate
    <2> QED
      BY <1>2, <1>4, <2>1 DEF Answer
  <1> QED
    BY <1>3, <1>4

LEMMA ErrorCodeType ==
    ASSUME NEW c \in Commands, NEW flag
    PROVE  /\ ErrorCode(Tool[c], flag) \in 20 .. 28
           /\ Tool[c] # "clamOpt" => ErrorCode(Tool[c], flag) \in CodesOf(Tool[c])
           /\ ErrorCode(Tool[c], flag) \in {20, 26} => flag = "timeout"
  <1>1. Tool[c] \in {"clang", "addMain", "clamPP", "clamOpt", "clamProv"}
    BY DEF Commands, Tool
  <1> QED
    BY <1>1 DEF ErrorCode, CodesOf

\* What killall does to its stack of calls keeps the stack's type.
LEMMA FramesType ==
    ASSUME NEW fs \in Seq(Frame), fs # <<>>
    PROVE  /\ Len(fs) \in 1 .. Len(fs)
           /\ fs[Len(fs)] \in Frame
           /\ SubSeq(fs, 1, Len(fs) - 1) \in Seq(Frame)
           /\ \A f \in Frame : [fs EXCEPT ![Len(fs)] = f] \in Seq(Frame)
  OBVIOUS

LEMMA TypeInit == Init => TypeOK
  <1> SUFFICES ASSUME Init PROVE TypeOK
    OBVIOUS
  <1>1. args \in SUBSET AllOptions
    BY OptionsAssumption DEF Init
  <1>2. answer \in Answer /\ exit_code \in ExitCodes
    BY DEF Init, Answer, ExitCodes
  <1>3. child \in [Commands -> ChildStates] /\ status \in [Commands -> WaitStatus]
    BY DEF Init, ChildStates, WaitStatus
  <1>4. timer \in [Commands -> TimerStates] /\ pc \in MainPoints
    BY DEF Init, TimerStates, MainPoints
  <1>5. returncode \in [Commands -> BOOLEAN]
    BY DEF Init
  <1>6. waitpid_lock \in [Commands -> {"free", "main", "timer"}]
    BY DEF Init
  <1>7. frames \in Seq(Frame)
    BY DEF Init
  <1> QED
    BY <1>1, <1>2, <1>3, <1>4, <1>5, <1>6, <1>7 DEF Init, TypeOK

LEMMA LeavesType ==
    <<[at |-> "check", proc |-> NoCommand]>> \in Seq(Frame)
  BY DEF Frame

LEMMA SignalType ==
    ASSUME TypeOK, NEW c \in Commands, NEW how \in {"terminated", "killed"}, Signal(c, how)
    PROVE  returncode' \in [Commands -> BOOLEAN] /\ child' \in [Commands -> ChildStates]
  BY DEF TypeOK, Signal, ChildStates, Unreaped, Alive

LEMMA WaitPidType ==
    ASSUME TypeOK, NEW c \in Commands, WaitPid(c)
    PROVE  /\ returncode' \in [Commands -> BOOLEAN]
           /\ child' \in [Commands -> ChildStates]
           /\ waitpid_lock' \in [Commands -> {"free", "main", "timer"}]
  BY DEF TypeOK, WaitPid, ChildStates

LEMMA TypeStep == TypeOK /\ [Next]_vars => TypeOK'
  <1> SUFFICES ASSUME TypeOK, [Next]_vars PROVE TypeOK'
    OBVIOUS
  <1> USE DEF TypeOK
  <1>1. ASSUME NextStage PROVE TypeOK'
    BY <1>1
       DEF NextStage, MainAt, MainPoints, Commands, calm_vars, child_vars, past_vars
  <1>2. ASSUME FindTool PROVE TypeOK'
    BY <1>2
       DEF FindTool, Goes, MainAt, MainPoints, calm_vars, child_vars, past_vars
  <1>3. ASSUME ToolMissing PROVE TypeOK'
    BY <1>3, LeavesType
       DEF ToolMissing, MainAt, MainPoints, Leaves, ExitCodes, calm_vars, child_vars, past_vars
  <1>4. ASSUME Finished PROVE TypeOK'
    BY <1>4, LeavesType
       DEF Finished, MainAt, MainPoints, Leaves, ExitCodes, calm_vars, child_vars, past_vars
  <1>5. ASSUME Exit PROVE TypeOK'
    BY <1>5
       DEF Exit, Goes, MainAt, MainPoints, calm_vars, child_vars, past_vars
  <1>6. ASSUME Popen PROVE TypeOK'
    BY <1>6
       DEF Popen, Goes, MainAt, MainPoints, ChildStates, Unreaped, Alive, past_vars
  <1>7. ASSUME PopenFails PROVE TypeOK'
    BY <1>7, LeavesType
       DEF PopenFails, MainAt, MainPoints, Leaves, ExitCodes, calm_vars, child_vars, past_vars
  <1>8. ASSUME Register PROVE TypeOK'
    BY <1>8
       DEF Register, Goes, MainAt, MainPoints, child_vars, past_vars
  <1>9. ASSUME StartTimer PROVE TypeOK'
    BY <1>9
       DEF StartTimer, Goes, MainAt, MainPoints, TimerStates, child_vars, past_vars
  <1>10. ASSUME Wait4 PROVE TypeOK'
    BY <1>10, EvaluateType
       DEF Wait4, Goes, MainAt, MainPoints, ChildStates, past_vars
  <1>11. ASSUME Wait4NoChild PROVE TypeOK'
    BY <1>11
       DEF Wait4NoChild, Goes, MainAt, MainPoints, Answer, calm_vars, child_vars, past_vars
  <1>12. ASSUME ClearRunningProcess PROVE TypeOK'
    BY <1>12
       DEF ClearRunningProcess, Goes, MainAt, MainPoints, child_vars, past_vars
  <1>13. ASSUME CancelTimer PROVE TypeOK'
    BY <1>13
       DEF CancelTimer, Goes, MainAt, MainPoints, Cancelled, TimerStates, child_vars, past_vars
  <1>14. ASSUME Decide PROVE TypeOK'
    BY <1>14, LeavesType, ErrorCodeType
       DEF Decide, MainAt, MainPoints, Leaves, ExitCodes, calm_vars, child_vars, past_vars
  <1>15. ASSUME KillallCheck PROVE TypeOK'
    <2>1. [at |-> "terminate", proc |-> NoCommand] \in Frame
      BY DEF Frame
    <2>2. frames' \in Seq(Frame)
      BY <1>15, <2>1, FramesType DEF KillallCheck, FrameAt, Returns, FrameGoes
    <2> QED
      BY <1>15, <2>2 DEF KillallCheck, main_vars, calm_vars, child_vars, past_vars
  <1>16. ASSUME KillallSignals PROVE TypeOK'
    <2>1. \A there \in {"kill", "wait"} : [at |-> there, proc |-> NoCommand] \in Frame
      BY DEF Frame
    <2>2. frames' \in Seq(Frame)
      BY <1>16, <2>1, FramesType DEF KillallSignals, FrameAt, FrameGoes
    <2>3. returncode' \in [Commands -> BOOLEAN] /\ child' \in [Commands -> ChildStates]
      BY <1>16, SignalType DEF KillallSignals
    <2> QED
      BY <1>16, <2>2, <2>3 DEF KillallSignals, main_vars, past_vars
  <1>17. ASSUME KillallWaits PROVE TypeOK'
    BY <1>17, FramesType
       DEF KillallWaits, FrameAt, Last, FrameGoes, Frame, main_vars, calm_vars, child_vars, past_vars
  <1>18. ASSUME KillallCrashes PROVE TypeOK'
    BY <1>18, LeavesType
       DEF KillallCrashes, Unwinds, Leaves, Cancelled, MainPoints, ExitCodes, TimerStates, past_vars
  <1>19. ASSUME KillallLocks PROVE TypeOK'
    BY <1>19, FramesType
       DEF KillallLocks, FrameAt, Last, FrameGoes, Frame, main_vars, past_vars
  <1>20. ASSUME KillallReaps PROVE TypeOK'
    BY <1>20, FramesType, WaitPidType
       DEF KillallReaps, FrameAt, Last, FrameGoes, Frame, main_vars, past_vars
  <1>21. ASSUME KillallClears PROVE TypeOK'
    BY <1>21, FramesType
       DEF KillallClears, FrameAt, Last, Returns, main_vars, child_vars, past_vars
  <1>22. ASSUME NEW c \in Commands, TimerFires(c) PROVE TypeOK'
    BY <1>22
       DEF TimerFires, TimerGoes, TimerStates, timer_frame, main_vars, child_vars, past_vars
  <1>23. ASSUME NEW c \in Commands, TimerSignals(c) PROVE TypeOK'
    BY <1>23, SignalType
       DEF TimerSignals, TimerGoes, TimerStates, timer_frame, main_vars, past_vars
  <1>24. ASSUME NEW c \in Commands, TimerLocks(c) PROVE TypeOK'
    BY <1>24
       DEF TimerLocks, TimerGoes, TimerStates, timer_frame, main_vars, past_vars
  <1>25. ASSUME NEW c \in Commands, TimerWaits(c) PROVE TypeOK'
    BY <1>25, WaitPidType
       DEF TimerWaits, TimerGoes, TimerStates, timer_frame, main_vars, past_vars
  <1>26. ASSUME NEW c \in Commands, TimerClears(c) PROVE TypeOK'
    BY <1>26
       DEF TimerClears, TimerGoes, TimerStates, main_vars, child_vars
  <1>27. ASSUME NEW c \in Commands, ChildEnds(c) PROVE TypeOK'
    <2>1. child' \in [Commands -> ChildStates]
      BY <1>27 DEF ChildEnds, ChildStates, Unreaped
    <2>2. 9 \in WaitStatus /\ 15 \in WaitStatus
      BY DEF WaitStatus
    <2>3. status' \in [Commands -> WaitStatus]
      <3>1. PICK s \in Statuses \cup {9, 15} : status' = [status EXCEPT ![c] = s]
        <4>1. child[c] \in {"running", "terminated", "killed"}
          BY <1>27 DEF ChildEnds, Alive
        <4>2. CASE child[c] = "running"
          BY <1>27, <4>2 DEF ChildEnds
        <4>3. CASE child[c] = "terminated"
          BY <1>27, <4>3 DEF ChildEnds
        <4>4. CASE child[c] = "killed"
          BY <1>27, <4>4 DEF ChildEnds
        <4> QED
          BY <4>1, <4>2, <4>3, <4>4
      <3> QED
        BY <2>2, <3>1, StatusesAssumption
    <2> QED
      BY <1>27, <2>1, <2>3 DEF ChildEnds, main_vars, past_vars
  <1>28. ASSUME Sigterm PROVE TypeOK'
    BY <1>28
       DEF Sigterm, Frame, main_vars, child_vars
  <1>29. ASSUME Interrupt PROVE TypeOK'
    BY <1>29, LeavesType
       DEF Interrupt, Unwinds, Leaves, Cancelled, MainPoints, ExitCodes, TimerStates
  <1>30. ASSUME Terminated \/ UNCHANGED vars PROVE TypeOK'
    BY <1>30
       DEF Terminated, vars, main_vars, child_vars, past_vars
  <1>. QED
    BY <1>1, <1>2, <1>3, <1>4, <1>5, <1>6, <1>7, <1>8, <1>9, <1>10, <1>11, <1>12, <1>13, <1>14, <1>15, <1>16, <1>17, <1>18, <1>19, <1>20, <1>21, <1>22, <1>23, <1>24, <1>25, <1>26, <1>27, <1>28, <1>29, <1>30 DEF Next, MainStep, TimerStep

-----------------------------------------------------------------------------
(* Steps aside of main: of the timers, of killall, of the commands         *)

Touched(d) ==
    \/ child'[d] = child[d] /\ status'[d] = status[d]
    \/ child[d] \in Alive /\ child'[d] \in Unreaped
    \/ child[d] = "zombie" /\ child'[d] = "polled" /\ status'[d] = status[d]

OnlyChecks(fs) == \A i \in 1 .. Len(fs) : fs[i].at = "check"

\* What these steps may do.
Aside ==
    /\ UNCHANGED <<args, stage, pc, answer, exit_code, interrupted>>
    /\ running_process' \in {running_process, NoCommand}
    /\ \A d \in Commands : Touched(d)
    /\ terms' = 0 => terms = 0 /\ (frames = <<>> => frames' = <<>>)
    /\ \A d \in Commands : timer[d] \in Idle => timer'[d] = timer[d]
    /\ \A d \in Commands : Fired(d) => Fired(d)'
    /\ \A d \in Commands : child[d] = "zombie" /\ child'[d] = "polled" =>
         frames # <<>> \/ Fired(d)'
    /\ running_process = NoCommand /\ OnlyChecks(frames) => OnlyChecks(frames')

LEMMA AsideKeepsSettled ==
    ASSUME TypeOK, Aside, NEW c \in Commands, Settled(c)
    PROVE  Settled(c)'
  BY DEF Settled, Used, Aside, Touched, Alive

LEMMA AsideKeepsFailed ==
    ASSUME TypeOK, Aside, NEW c \in Commands, Failed(c)
    PROVE  Failed(c)'
  BY DEF Failed, Aside, Touched, Alive

LEMMA AsideKeeps == IInv /\ TypeOK' /\ Aside => IInv'
  <1> SUFFICES ASSUME IInv, TypeOK', Aside PROVE IInv'
    OBVIOUS
  <1>1. InOrder'
    BY AsideKeepsSettled DEF IInv, InOrder, Aside, Touched, Alive, Idle
  <1>2. AtStage'
    BY AsideKeepsSettled
       DEF IInv, TypeOK, AtStage, Aside, Touched, Unreaped, Alive, Used, Between, Inside, Idle
  <1>3. Judged'
    BY DEF IInv, TypeOK, Judged, Aside, Touched, Alive
  <1>4. Left'
    BY AsideKeepsSettled DEF IInv, Left, Aside, OnlyChecks, Commands
  <1>5. Blamed'
    BY AsideKeepsFailed DEF IInv, Blamed, Aside
  <1>6. Timed'
    <2>1. terms' = 0 => frames' = <<>> \/ pc' \in Outside
      BY DEF IInv, Timed, Aside
    <2>2. ASSUME pc' \in Inside, child'[stage'] = "polled"
          PROVE  terms' > 0 \/ Fired(stage)'
      <3>1. stage \in Commands /\ stage' = stage /\ pc \in Inside /\ pc \notin Outside
        BY <2>2 DEF IInv, AtStage, Aside, Inside, Outside
      <3>2. terms' \in Nat
        BY DEF TypeOK
      <3>3. CASE child[stage] = "polled"
        BY <3>1, <3>2, <3>3 DEF IInv, Timed, Aside
      <3>4. CASE child[stage] # "polled"
        BY <2>2, <3>1, <3>2, <3>4 DEF IInv, Timed, Aside, Touched, Unreaped, Alive
      <3> QED
        BY <3>3, <3>4
    <2>3. ASSUME pc' \in Outside, exit_code' \in {20, 26}
          PROVE  \/ terms' > 0 \/ Fired(stage)'
                 \/ status'[stage'] % 256 \in {9, 14, 15}
      <3>1. stage \in Commands /\ stage' = stage /\ Failed(stage)
        BY <2>3 DEF IInv, Blamed, Aside
      <3>2. status'[stage'] = status[stage]
        BY <3>1 DEF Aside, Touched, Failed, Alive
      <3>3. terms' \in Nat
        BY DEF TypeOK
      <3> QED
        BY <2>3, <3>1, <3>2, <3>3 DEF IInv, Timed, Aside
    <2> QED
      BY <2>1, <2>2, <2>3 DEF Timed
  <1>7. Gone'
    BY DEF IInv, Gone, Aside
  <1> QED
    BY <1>1, <1>2, <1>3, <1>4, <1>5, <1>6, <1>7 DEF IInv

LEMMA SignalTouches ==
    ASSUME TypeOK, NEW c \in Commands, NEW how \in {"terminated", "killed"}, Signal(c, how),
           UNCHANGED status
    PROVE  /\ \A d \in Commands : Touched(d)
           /\ \A d \in Commands : child[d] = "zombie" /\ child'[d] = "polled" => d = c
  BY DEF TypeOK, Signal, Touched, Alive, Unreaped

LEMMA WaitPidTouches ==
    ASSUME TypeOK, NEW c \in Commands, WaitPid(c), UNCHANGED status
    PROVE  /\ \A d \in Commands : Touched(d)
           /\ \A d \in Commands : child[d] = "zombie" /\ child'[d] = "polled" => d = c
  BY DEF TypeOK, WaitPid, Touched

LEMMA UntouchedAreTouched ==
    ASSUME UNCHANGED <<child, status>>
    PROVE  /\ \A d \in Commands : Touched(d)
           /\ \A d \in Commands : ~(child[d] = "zombie" /\ child'[d] = "polled")
  BY DEF Touched

LEMMA TimersAreAside ==
    ASSUME IInv, NEW c \in Commands, TimerStep(c)
    PROVE  Aside
  <1> USE DEF IInv, TypeOK, Aside, Fired, Idle, TimerGoes
  <1>1. CASE TimerFires(c)
    BY <1>1, UntouchedAreTouched
       DEF TimerFires, timer_frame, main_vars, child_vars, past_vars
  <1>2. CASE TimerSignals(c)
    BY <1>2, SignalTouches DEF TimerSignals, timer_frame, main_vars, past_vars
  <1>3. CASE TimerLocks(c)
    BY <1>3, UntouchedAreTouched DEF TimerLocks, timer_frame, main_vars, past_vars
  <1>4. CASE TimerWaits(c)
    BY <1>4, WaitPidTouches DEF TimerWaits, timer_frame, main_vars, past_vars
  <1>5. CASE TimerClears(c)
    BY <1>5, UntouchedAreTouched DEF TimerClears, main_vars, child_vars
  <1> QED
    BY <1>1, <1>2, <1>3, <1>4, <1>5 DEF TimerStep

LEMMA ChildrenAreAside ==
    ASSUME IInv, NEW c \in Commands, ChildEnds(c)
    PROVE  Aside
  <1>1. \A d \in Commands : Touched(d) /\ ~(child[d] = "zombie" /\ child'[d] = "polled")
    BY DEF IInv, TypeOK, ChildEnds, Touched, Unreaped, Alive
  <1> QED
    BY <1>1 DEF IInv, TypeOK, ChildEnds, Aside, Fired, Idle, main_vars, past_vars

LEMMA ChecksReturn ==
    ASSUME NEW fs \in Seq(Frame), fs # <<>>
    PROVE  /\ OnlyChecks(fs) => OnlyChecks(SubSeq(fs, 1, Len(fs) - 1))
           /\ OnlyChecks(fs) => fs[Len(fs)].at = "check"
  BY DEF OnlyChecks

LEMMA KillallIsAside ==
    ASSUME IInv,
           \/ KillallCheck \/ KillallSignals \/ KillallWaits
           \/ KillallLocks \/ KillallReaps \/ KillallClears
    PROVE  Aside
  <1>1. frames \in Seq(Frame) /\ frames # <<>>
    BY DEF IInv, TypeOK, KillallCheck, KillallSignals, KillallWaits, KillallLocks,
           KillallReaps, KillallClears, FrameAt
  <1>2. Last \in Frame
    BY <1>1, FramesType DEF Last
  <1>3. OnlyChecks(frames) => Last.at = "check"
    BY <1>1, ChecksReturn DEF Last
  <1> USE DEF IInv, TypeOK, Aside, Fired, Idle, FrameAt
  <1>4. CASE KillallCheck
    BY <1>1, <1>4, ChecksReturn, UntouchedAreTouched
       DEF KillallCheck, Returns, calm_vars, main_vars, child_vars, past_vars
  <1>5. CASE KillallSignals
    BY <1>1, <1>3, <1>5, SignalTouches
       DEF KillallSignals, main_vars, past_vars
  <1>6. CASE KillallWaits
    BY <1>1, <1>3, <1>6, UntouchedAreTouched
       DEF KillallWaits, calm_vars, main_vars, child_vars, past_vars
  <1>7. CASE KillallLocks
    BY <1>1, <1>3, <1>7, UntouchedAreTouched DEF KillallLocks, main_vars, past_vars
  <1>8. CASE KillallReaps
    <2>1. Last.proc \in Commands
      BY <1>2, <1>8 DEF KillallReaps, Frame
    <2> QED
      BY <1>1, <1>3, <1>8, <2>1, WaitPidTouches DEF KillallReaps, main_vars, past_vars
  <1>9. CASE KillallClears
    BY <1>1, <1>3, <1>9, UntouchedAreTouched
       DEF KillallClears, main_vars, child_vars, past_vars
  <1> QED
    BY <1>4, <1>5, <1>6, <1>7, <1>8, <1>9

LEMMA SigtermIsAside == ASSUME IInv, Sigterm PROVE Aside
  <1>1. OnlyChecks(frames) => OnlyChecks(frames')
    BY DEF IInv, TypeOK, Sigterm, OnlyChecks
  <1> QED
    BY <1>1, UntouchedAreTouched
       DEF IInv, TypeOK, Sigterm, Aside, Fired, Idle, main_vars, child_vars

-----------------------------------------------------------------------------
(* Steps of main                                                           *)

MainAlone ==
    \/ NextStage \/ FindTool \/ ToolMissing \/ Finished \/ Exit
    \/ Popen \/ PopenFails \/ Register \/ StartTimer \/ Wait4 \/ Wait4NoChild
    \/ ClearRunningProcess \/ CancelTimer \/ Decide
    \/ KillallCrashes \/ Interrupt

LEMMA MainKeeps == IInv /\ TypeOK' /\ MainAlone => IInv'
  <1> SUFFICES ASSUME IInv, TypeOK', MainAlone PROVE IInv'
    OBVIOUS
  <1> USE DEF IInv, TypeOK, InOrder, AtStage, Judged, Left, Blamed, Timed, Gone, Used, Settled,
              Failed, Fired, Idle, Commands, Between, Inside, Outside
  <1>1. CASE NextStage
    BY <1>1 DEF NextStage, MainAt, calm_vars, child_vars, past_vars
  <1>2. CASE FindTool
    BY <1>2 DEF FindTool, Goes, MainAt, calm_vars, child_vars, past_vars
  <1>3. CASE ToolMissing
    BY <1>3 DEF ToolMissing, MainAt, Leaves, calm_vars, child_vars, past_vars
  <1>4. CASE Finished
    BY <1>4 DEF Finished, MainAt, Leaves, calm_vars, child_vars, past_vars
  <1>5. CASE Exit
    BY <1>5 DEF Exit, Goes, MainAt, calm_vars, child_vars, past_vars
  <1>6. CASE Popen
    BY <1>6 DEF Popen, Goes, MainAt, past_vars
  <1>7. CASE PopenFails
    BY <1>7 DEF PopenFails, MainAt, Leaves, calm_vars, child_vars, past_vars
  <1>8. CASE Register
    BY <1>8 DEF Register, Goes, MainAt, child_vars, past_vars
  <1>9. CASE StartTimer
    BY <1>9 DEF StartTimer, Goes, MainAt, child_vars, past_vars
  <1>10. CASE Wait4
    BY <1>10 DEF Wait4, Goes, MainAt, past_vars
  <1>11. CASE Wait4NoChild
    BY <1>11 DEF Wait4NoChild, Goes, MainAt, calm_vars, child_vars, past_vars
  <1>12. CASE ClearRunningProcess
    BY <1>12 DEF ClearRunningProcess, Goes, MainAt, child_vars, past_vars
  <1>13. CASE CancelTimer
    BY <1>13 DEF CancelTimer, Goes, MainAt, Cancelled, child_vars, past_vars
  <1>14. CASE Decide
    <2>1. stage \in Commands /\ pc = "decide" /\ status[stage] \in WaitStatus
      BY <1>14 DEF Decide, MainAt
    <2>2. CASE answer = [value |-> 0, flag |-> "none"]
      <3>1. child[stage] = "waited" /\ status[stage] = 0
        BY <2>1, <2>2, EvaluateType
      <3> QED
        BY <1>14, <2>1, <2>2, <3>1 DEF Decide, calm_vars, child_vars, past_vars
    <2>3. CASE answer # [value |-> 0, flag |-> "none"]
      <3> DEFINE code == ErrorCode(Tool[stage], answer.flag)
      <3> HIDE DEF code
      <3>1. Leaves(code) /\ UNCHANGED <<calm_vars, stage, answer>>
        BY <1>14, <2>3 DEF Decide, code
      <3>2. code \in 20 .. 28 /\ code \in CodesOf(Tool[stage])
        BY <2>1, ErrorCodeType DEF code
      <3>3. Failed(stage)
        BY <2>1, <2>3, EvaluateType
      <3>4. code \in {20, 26} =>
              terms > 0 \/ Fired(stage) \/ status[stage] % 256 \in {9, 14, 15}
        BY <2>1, ErrorCodeType, EvaluateType DEF code
      <3> QED
        BY <2>1, <3>1, <3>2, <3>3, <3>4 DEF Leaves, calm_vars, child_vars, past_vars
    <2> QED
      BY <2>2, <2>3
  <1>15. CASE KillallCrashes
    BY <1>15 DEF KillallCrashes, Unwinds, Leaves, Cancelled, past_vars
  <1>16. CASE Interrupt
    BY <1>16 DEF Interrupt, Unwinds, Leaves, Cancelled, MainPoints
  <1> QED
    BY <1>1, <1>2, <1>3, <1>4, <1>5, <1>6, <1>7, <1>8, <1>9, <1>10, <1>11, <1>12, <1>13, <1>14, <1>15, <1>16 DEF MainAlone

-----------------------------------------------------------------------------
(* The invariant                                                           *)

LEMMA InvInit == Init => IInv
  BY TypeInit
     DEF Init, IInv, InOrder, AtStage, Judged, Left, Blamed, Timed, Gone, Commands,
         NoCommand, Between, Inside, Outside

LEMMA InvStep == IInv /\ [Next]_vars => IInv'
  <1> SUFFICES ASSUME IInv, [Next]_vars PROVE IInv'
    OBVIOUS
  <1>1. TypeOK'
    BY TypeStep DEF IInv
  <1>2. CASE Aside
    BY <1>1, <1>2, AsideKeeps
  <1>3. CASE MainAlone
    BY <1>1, <1>3, MainKeeps
  <1>4. CASE Terminated \/ UNCHANGED vars
    <2>1. Aside
      BY <1>4, UntouchedAreTouched
         DEF Terminated, vars, main_vars, child_vars, past_vars, Aside, Fired, IInv, TypeOK
    <2> QED
      BY <1>2, <2>1
  <1> QED
    BY <1>2, <1>3, <1>4, TimersAreAside, ChildrenAreAside, KillallIsAside, SigtermIsAside
       DEF Next, MainStep, MainAlone

LEMMA Invariance == Spec => []IInv
  BY InvInit, InvStep, PTL DEF Spec

\* Every variable of the driver has its type, whatever signals come when.
THEOREM TypeCorrect == Spec => []TypeOK
  <1>1. IInv => TypeOK
    BY DEF IInv
  <1> QED
    BY <1>1, Invariance, PTL

\* An exit code of the script's own names the command that was last started,
\* and that command did not end well.
THEOREM ExitCodeNamesCulprit == Spec => []CulpritIsNamed
  <1>1. IInv => CulpritIsNamed
    BY DEF IInv, TypeOK, CulpritIsNamed, Blamed, CodesOf, Outside, Commands, Tool
  <1> QED
    BY <1>1, Invariance, PTL

\* A timeout is never reported of a command that nobody stopped.
THEOREM NoFalseTimeout == Spec => []TimeoutIsReal
  <1>1. IInv => TimeoutIsReal
    BY DEF IInv, TypeOK, TimeoutIsReal, Timed, Blamed, Gone, Fired, Outside, Idle
  <1> QED
    BY <1>1, Invariance, PTL

-----------------------------------------------------------------------------
(* Refinement                                                              *)

LEMMA RefInit == Init => Promise!PLInit
  BY DEF Init, Promise!PLInit, Needed, Succeeded, Active, Verdict, Failed, Commands,
         Unreaped, Alive

\* At most the command that main is at is active.
LEMMA OneActive ==
    ASSUME IInv, NEW c \in Active
    PROVE  c = stage /\ Active = {stage}
  <1>1. \A d \in Commands : d # stage => child[d] \in {"none", "waited"}
    BY DEF IInv, TypeOK, InOrder, Settled, Commands
  <1> QED
    BY <1>1 DEF Active, Unreaped, Alive

\* While main is on its way, nothing has failed before its stage.
LEMMA OnlyStageFails ==
    ASSUME IInv, NEW c \in Commands, Failed(c)
    PROVE  c = stage
  BY DEF IInv, TypeOK, InOrder, Settled, Failed, Commands

LEMMA AsideRefines == IInv /\ Aside => [Promise!PLNext]_Promise!plvars
  <1> SUFFICES ASSUME IInv, Aside PROVE [Promise!PLNext]_Promise!plvars
    OBVIOUS
  <1>1. Needed' = Needed
    BY DEF Needed, Used, Aside
  <1>2. Succeeded' = Succeeded
    BY DEF Succeeded, Aside, Touched, Alive, Unreaped
  <1>3. CASE \A d \in Commands : ~(child[d] = "zombie" /\ child'[d] = "polled")
    <2>1. Active' = Active
      BY <1>3 DEF Active, Aside, Touched, Unreaped
    <2>2. \A d \in Commands : Failed(d)' = Failed(d)
      BY <1>3 DEF Failed, Aside, Touched, Alive, Unreaped
    <2>3. Verdict' = Verdict
      BY <2>2 DEF Verdict, Aside
    <2> QED
      BY <1>1, <1>2, <2>1, <2>3 DEF Promise!plvars
  <1>4. ASSUME NEW d \in Commands, child[d] = "zombie", child'[d] = "polled"
        PROVE  Promise!Fail
    <2>1. d \in Active /\ Active = {d} /\ d = stage
      BY <1>4, OneActive DEF Active, Unreaped
    <2>2. Active' = {}
      BY <1>4, <2>1 DEF Active, Aside, Touched, Unreaped, Alive
    <2>3. Failed(d)' /\ ~Settled(d)
      BY <1>4 DEF Failed, Settled
    <2>4. Verdict' = IF Verdict = "none" THEN "failure" ELSE Verdict
      BY <2>1, <2>3 DEF Verdict, Aside, IInv, Left, Outside
    <2> QED
      BY <1>1, <1>2, <2>1, <2>2, <2>4 DEF Promise!Fail
  <1> QED
    BY <1>3, <1>4 DEF Promise!PLNext

\* Steps after which the commands are as they were.
SameCommands == UNCHANGED <<args, child, status>>

LEMMA SameCommandsAreSame ==
    ASSUME SameCommands
    PROVE  /\ UNCHANGED <<Needed, Succeeded, Active>>
           /\ \A c \in Commands : Failed(c)' = Failed(c)
  BY DEF SameCommands, Needed, Used, Succeeded, Active, Failed

\* Before main leaves, what is not a failure is no verdict.
LEMMA NoVerdictYet ==
    ASSUME IInv, pc \notin Outside
    PROVE  Verdict = IF \E c \in Commands : Failed(c) THEN "failure" ELSE "none"
  BY DEF IInv, Left, Verdict, Outside

LEMMA NothingFailed ==
    ASSUME IInv, pc \in {"next", "find", "popen", "copy"} \/ (pc = "wait4" /\ child[stage] = "zombie")
    PROVE  \A c \in Commands : ~Failed(c)
  BY OnlyStageFails DEF IInv, TypeOK, AtStage, Settled, Failed

LEMMA MainRefines == IInv /\ MainAlone => [Promise!PLNext]_Promise!plvars
  <1> SUFFICES ASSUME IInv, MainAlone PROVE [Promise!PLNext]_Promise!plvars
    OBVIOUS
  <1>1. CASE NextStage \/ FindTool \/ Register \/ StartTimer \/ Wait4NoChild
               \/ ClearRunningProcess \/ CancelTimer
    <2>1. SameCommands /\ pc \notin Outside /\ pc' \notin Outside /\ UNCHANGED interrupted
      BY <1>1 DEF NextStage, FindTool, Register, StartTimer, Wait4NoChild,
            ClearRunningProcess, CancelTimer, Goes, MainAt, SameCommands, Outside,
            calm_vars, child_vars, past_vars
    <2>2. Verdict' = Verdict
      BY <2>1, SameCommandsAreSame DEF Verdict, Outside
    <2> QED
      BY <2>1, <2>2, SameCommandsAreSame DEF Promise!plvars
  <1>2. CASE Exit
    <2>1. SameCommands /\ pc \in Outside /\ pc' \in Outside
            /\ UNCHANGED <<interrupted, exit_code>>
      BY <1>2 DEF Exit, Goes, MainAt, SameCommands, Outside, calm_vars, child_vars, past_vars
    <2>2. Verdict' = Verdict
      BY <2>1, SameCommandsAreSame DEF Verdict, Outside
    <2> QED
      BY <2>1, <2>2, SameCommandsAreSame DEF Promise!plvars
  <1>3. ASSUME NEW code, Leaves(code), SameCommands, UNCHANGED interrupted,
               pc \notin Outside, \A c \in Commands : ~Failed(c), code # 0
        PROVE  Promise!GiveUp
    <2>1. Verdict = "none"
      BY <1>3, NoVerdictYet
    <2>2. interrupted' = "no"
      BY <1>3 DEF IInv, Left
    <2>3. Verdict' = "failure"
      BY <1>3, <2>2, SameCommandsAreSame DEF Verdict, Leaves
    <2> QED
      BY <1>3, <2>1, <2>3, SameCommandsAreSame DEF Promise!GiveUp
  <1>4. CASE ToolMissing \/ PopenFails
    <2>1. SameCommands /\ Leaves(1) /\ UNCHANGED interrupted /\ pc \in {"find", "popen"}
      BY <1>4 DEF ToolMissing, PopenFails, MainAt, SameCommands, calm_vars, child_vars, past_vars
    <2> QED
      BY <1>3, <2>1, NothingFailed DEF Promise!PLNext, Outside
  <1>5. CASE Finished
    <2>1. /\ SameCommands /\ UNCHANGED interrupted /\ pc = "copy"
          /\ Leaves(0) \/ Leaves(1)
      BY <1>5 DEF Finished, MainAt, SameCommands, calm_vars, child_vars, past_vars
    <2>2. CASE Leaves(1)
      BY <1>3, <2>1, <2>2, NothingFailed DEF Promise!PLNext, Outside
    <2>3. CASE Leaves(0)
      <3>1. Verdict = "none" /\ interrupted = "no"
        BY <2>1, NoVerdictYet, NothingFailed DEF Outside, IInv, Left
      <3>2. Verdict' = "success"
        BY <2>1, <2>3, <3>1, NothingFailed, SameCommandsAreSame DEF Verdict, Leaves
      <3>3. \A c \in Commands : Settled(c)
        BY <2>1 DEF IInv, TypeOK, InOrder, AtStage, Commands
      <3>4. Succeeded = Needed
        BY <3>3 DEF Succeeded, Needed, Settled
      <3>5. Promise!Finish
        BY <2>1, <3>1, <3>2, <3>4, SameCommandsAreSame DEF Promise!Finish
      <3> QED
        BY <3>5 DEF Promise!PLNext
    <2> QED
      BY <2>1, <2>2, <2>3
  <1>6. CASE Popen
    <2>1. /\ pc = "popen" /\ stage \in Commands /\ Used(stage) /\ child[stage] = "none"
          /\ child' = [child EXCEPT ![stage] = "running"]
          /\ UNCHANGED <<args, status, interrupted>> /\ pc' = "register"
      BY <1>6 DEF Popen, Goes, MainAt, past_vars, IInv, AtStage
    <2>2. Verdict = "none" /\ interrupted = "no"
      BY <2>1, NoVerdictYet, NothingFailed DEF Outside, IInv, Left
    <2>3. \A c \in Commands : ~Failed(c)'
      BY <2>1, NothingFailed DEF IInv, TypeOK, Failed
    <2>4. Verdict' = "none"
      BY <2>1, <2>2, <2>3 DEF Verdict
    <2>5. Active = {}
      BY <2>1, OneActive DEF Active, Unreaped, Alive
    <2>6. Active' = {stage}
      BY <2>1, <2>5 DEF Active, IInv, TypeOK, Unreaped, Alive
    <2>7. Needed' = Needed /\ Succeeded' = Succeeded /\ stage \in Needed \ Succeeded
      BY <2>1 DEF Needed, Used, Succeeded, IInv, TypeOK
    <2>8. \A d \in Needed : d < stage => d \in Succeeded
      BY DEF Needed, Succeeded, IInv, InOrder, Settled
    <2>9. Promise!Start(stage)
      BY <2>2, <2>4, <2>5, <2>6, <2>7, <2>8 DEF Promise!Start
    <2> QED
      BY <2>1, <2>9 DEF Promise!PLNext
  <1>7. CASE Wait4
    <2>1. /\ pc = "wait4" /\ stage \in Commands /\ child[stage] = "zombie"
          /\ child' = [child EXCEPT ![stage] = "waited"]
          /\ UNCHANGED <<args, stage, status, interrupted>> /\ pc' = "clear"
      BY <1>7 DEF Wait4, Goes, MainAt, past_vars, IInv, TypeOK
    <2>2. Verdict = "none" /\ interrupted = "no"
      BY <2>1, NoVerdictYet, NothingFailed DEF Outside, IInv, Left
    <2>3. Active = {stage}
      BY <2>1, OneActive DEF Active, Unreaped
    <2>4. Active' = {} /\ Needed' = Needed
      BY <2>1, <2>3 DEF Active, IInv, TypeOK, Unreaped, Alive, Needed, Used
    <2>5. CASE status[stage] = 0
      <3>1. \A c \in Commands : ~Failed(c)'
        BY <2>1, <2>5, NothingFailed DEF IInv, TypeOK, Failed
      <3>2. Verdict' = Verdict
        BY <2>1, <2>2, <3>1 DEF Verdict
      <3>3. Succeeded' = Succeeded \cup {stage}
        BY <2>1, <2>5 DEF IInv, TypeOK, Succeeded
      <3> QED
        BY <2>1, <2>3, <2>4, <3>2, <3>3 DEF Promise!Succeed, Promise!PLNext
    <2>6. CASE status[stage] # 0
      <3>1. Failed(stage)'
        BY <2>1, <2>6 DEF IInv, TypeOK, Failed
      <3>2. Verdict' = "failure"
        BY <2>1, <2>2, <3>1 DEF Verdict, IInv, TypeOK
      <3>3. Succeeded' = Succeeded
        BY <2>1, <2>6 DEF IInv, TypeOK, Succeeded
      <3> QED
        BY <2>2, <2>3, <2>4, <3>2, <3>3 DEF Promise!Fail, Promise!PLNext
    <2> QED
      BY <2>5, <2>6
  <1>8. CASE Decide
    <2>1. SameCommands /\ pc \notin Outside /\ UNCHANGED interrupted /\ pc = "decide"
      BY <1>8 DEF Decide, MainAt, SameCommands, Outside, calm_vars, child_vars, past_vars
    <2>2. CASE answer = [value |-> 0, flag |-> "none"]
      <3>1. pc' \notin Outside
        BY <1>8, <2>2 DEF Decide, Outside
      <3>2. Verdict' = Verdict
        BY <2>1, <3>1, SameCommandsAreSame DEF Verdict, Outside
      <3> QED
        BY <2>1, <3>2, SameCommandsAreSame DEF Promise!plvars
    <2>3. CASE answer # [value |-> 0, flag |-> "none"]
      <3>1. stage \in Commands /\ Failed(stage)
        <4>1. stage \in Commands /\ status[stage] \in WaitStatus
          BY <2>1 DEF IInv, TypeOK
        <4> QED
          BY <2>1, <2>3, <4>1, EvaluateType DEF IInv, Judged, Failed
      <3>2. interrupted = "no" /\ Verdict = "failure"
        BY <2>1, <3>1 DEF IInv, Left, Verdict
      <3> DEFINE code == ErrorCode(Tool[stage], answer.flag)
      <3>3. code # 0
        BY <3>1, <2>1, ErrorCodeType
      <3> HIDE DEF code
      <3>4. pc' = "exiting" /\ exit_code' = code
        BY <1>8, <2>3 DEF Decide, Leaves, code
      <3>5. Verdict' = "failure"
        BY <2>1, <3>2, <3>3, <3>4 DEF Verdict
      <3> QED
        BY <2>1, <3>2, <3>5, SameCommandsAreSame DEF Promise!plvars
    <2> QED
      BY <2>2, <2>3
  <1>9. CASE KillallCrashes
    <2>1. SameCommands /\ Leaves(1) /\ UNCHANGED interrupted /\ Last.at # "check" /\ frames # <<>>
      BY <1>9 DEF KillallCrashes, Unwinds, SameCommands, past_vars, FrameAt
    <2>2. CASE Verdict = "none"
      <3>1. pc \notin Outside /\ \A c \in Commands : ~Failed(c)
        BY <2>2 DEF Verdict, Outside
      <3> QED
        BY <1>3, <2>1, <3>1 DEF Promise!PLNext
    <2>3. CASE Verdict # "none"
      <3>1. Verdict # "success"
        <4>1. ~OnlyChecks(frames)
          BY <2>1, ChecksReturn DEF Last, IInv, TypeOK
        <4> QED
          BY <4>1 DEF Verdict, IInv, Left, OnlyChecks, Outside
      <3>2. Verdict' = Verdict
        BY <2>1, <2>3, <3>1, SameCommandsAreSame DEF Verdict, Leaves
      <3> QED
        BY <2>1, <3>2, SameCommandsAreSame DEF Promise!plvars
    <2> QED
      BY <2>2, <2>3
  <1>10. CASE Interrupt
    <2>1. SameCommands /\ interrupted' # "no"
      BY <1>10 DEF Interrupt, Unwinds, SameCommands, IInv, TypeOK, MainPoints
    <2>2. Verdict' = "interrupted"
      BY <2>1 DEF Verdict
    <2> QED
      BY <2>1, <2>2, SameCommandsAreSame DEF Promise!Interrupted, Promise!PLNext
  <1> QED
    BY <1>1, <1>2, <1>4, <1>5, <1>6, <1>7, <1>8, <1>9, <1>10 DEF MainAlone

\* The driver implements Pipeline: with whatever signals, timers and failures,
\* its commands run one at a time and in order, none after one that failed, and
\* exit code 0 means that all have succeeded, or an interrupt.
THEOREM PipelineIsImplemented == Spec => ImplementsPipeline
  <1>1. IInv /\ [Next]_vars => [Promise!PLNext]_Promise!plvars
    <2> SUFFICES ASSUME IInv, [Next]_vars PROVE [Promise!PLNext]_Promise!plvars
      OBVIOUS
    <2>1. CASE Aside
      BY <2>1, AsideRefines
    <2>2. CASE MainAlone
      BY <2>2, MainRefines
    <2>3. CASE Terminated \/ UNCHANGED vars
      <3>1. SameCommands /\ UNCHANGED <<pc, exit_code, interrupted>>
        BY <2>3 DEF Terminated, vars, main_vars, child_vars, past_vars, SameCommands
      <3>2. Verdict' = Verdict
        BY <3>1, SameCommandsAreSame DEF Verdict
      <3> QED
        BY <3>1, <3>2, SameCommandsAreSame DEF Promise!plvars
    <2> QED
      BY <2>1, <2>2, <2>3, TimersAreAside, ChildrenAreAside, KillallIsAside, SigtermIsAside
         DEF Next, MainStep, MainAlone
  <1> QED
    BY <1>1, RefInit, Invariance, PTL DEF Spec, ImplementsPipeline, Promise!PLSpec

-----------------------------------------------------------------------------
(* No process is left behind                                               *)

\* Who has a child has started it, and who has its return code has seen it end.
Started ==
    /\ running_process \in {NoCommand, stage}
    /\ running_process # NoCommand => child[stage] # "none"
    /\ \A c \in Commands : timer[c] # "off" => child[c] # "none"
    /\ \A c \in Commands : returncode[c] => child[c] \notin Alive \cup {"none"}
    /\ \A c \in Commands : timer[c] = "clear" => child[c] \notin Alive

\* A call of killall works on the command that main is at.
KillsStage ==
    \A i \in 1 .. Len(frames) :
        /\ frames[i].at \in {"lock", "waitpid"} =>
             frames[i].proc = stage /\ child[stage] # "none"
        /\ frames[i].at = "clear" => stage \in Commands /\ child[stage] \notin Alive

\* No command is registered yet when main is at "register".
NotYetKilling == pc = "register" => OnlyChecks(frames)

\* killall finds the command as long as it runs.
Registered ==
    stage \in Commands /\ child[stage] \in Alive =>
        \/ running_process = stage
        \/ pc = "register"
        \/ interrupted = "register"
        \/ cleared_late

KilledAtEnd ==
    /\ pc \in Outside /\ frames = <<>> => running_process = NoCommand
    /\ pc = "exited" => frames = <<>>

HInv == Started /\ KillsStage /\ NotYetKilling /\ Registered /\ KilledAtEnd

LEMMA HeldStep == IInv /\ IInv' /\ HInv /\ [Next]_vars => HInv'
  <1> SUFFICES ASSUME IInv, IInv', HInv, [Next]_vars PROVE HInv'
    OBVIOUS
  <1> USE DEF IInv, TypeOK, AtStage, InOrder, HInv, Started, KillsStage, NotYetKilling,
              OnlyChecks, Registered,
              KilledAtEnd, Between, Inside, Outside, NoCommand, Commands, Alive
  <1>1. ASSUME NextStage PROVE HInv'
    BY <1>1 DEF NextStage, MainAt, calm_vars, child_vars, past_vars
  <1>2. ASSUME FindTool PROVE HInv'
    BY <1>2 DEF FindTool, Goes, MainAt, calm_vars, child_vars, past_vars
  <1>3. ASSUME ToolMissing PROVE HInv'
    BY <1>3 DEF ToolMissing, MainAt, Leaves, calm_vars, child_vars, past_vars
  <1>4. ASSUME Finished PROVE HInv'
    BY <1>4 DEF Finished, MainAt, Leaves, calm_vars, child_vars, past_vars
  <1>5. ASSUME Exit PROVE HInv'
    BY <1>5 DEF Exit, Goes, MainAt, calm_vars, child_vars, past_vars
  <1>6. ASSUME Popen PROVE HInv'
    BY <1>6 DEF Popen, Goes, MainAt, past_vars
  <1>7. ASSUME PopenFails PROVE HInv'
    BY <1>7 DEF PopenFails, MainAt, Leaves, calm_vars, child_vars, past_vars
  <1>8. ASSUME Register PROVE HInv'
    BY <1>8 DEF Register, Goes, MainAt, child_vars, past_vars
  <1>9. ASSUME StartTimer PROVE HInv'
    BY <1>9 DEF StartTimer, Goes, MainAt, child_vars, past_vars
  <1>10. ASSUME Wait4 PROVE HInv'
    BY <1>10 DEF Wait4, Goes, MainAt, past_vars
  <1>11. ASSUME Wait4NoChild PROVE HInv'
    BY <1>11 DEF Wait4NoChild, Goes, MainAt, calm_vars, child_vars, past_vars
  <1>12. ASSUME ClearRunningProcess PROVE HInv'
    BY <1>12 DEF ClearRunningProcess, Goes, MainAt, Judged, child_vars, past_vars
  <1>13. ASSUME CancelTimer PROVE HInv'
    BY <1>13 DEF CancelTimer, Goes, MainAt, Cancelled, child_vars, past_vars
  <1>14. ASSUME Decide PROVE HInv'
    <2>1. /\ UNCHANGED <<stage, running_process, child, returncode, timer, interrupted, cleared_late>>
          /\ pc = "decide"
      BY <1>14 DEF Decide, MainAt, calm_vars, child_vars, past_vars
    <2>2. \/ pc' = "next" /\ frames' = <<>>
          \/ pc' = "exiting" /\ frames' = <<[at |-> "check", proc |-> NoCommand]>>
      BY <1>14 DEF Decide, MainAt, Leaves
    <2>3. Started'
      BY <2>1
    <2>4. OnlyChecks(frames')
      BY <2>2
    <2>5. Registered'
      BY <2>1
    <2>6. NotYetKilling' /\ KilledAtEnd'
      <3>1. <<[at |-> "check", proc |-> NoCommand]>> # <<>>
        OBVIOUS
      <3> HIDE DEF IInv, HInv
      <3> QED
        BY <2>2, <3>1
    <2> QED
      BY <2>3, <2>4, <2>5, <2>6
  <1>15. ASSUME KillallCheck PROVE HInv'
    <2>1. /\ UNCHANGED <<pc, stage, running_process, child, returncode, timer, interrupted, cleared_late>>
          /\ frames # <<>>
      BY <1>15 DEF KillallCheck, FrameAt, main_vars, calm_vars, child_vars, past_vars
    <2>2. CASE running_process = NoCommand
      <3>1. frames' = SubSeq(frames, 1, Len(frames) - 1)
        BY <1>15, <2>2 DEF KillallCheck, Returns
      <3>2. \A i \in 1 .. Len(frames') : i \in 1 .. Len(frames) /\ frames'[i] = frames[i]
        BY <2>1, <3>1
      <3>3. pc # "exited"
        BY <2>1
      <3> QED
        BY <2>1, <2>2, <3>2, <3>3
    <2>3. CASE running_process # NoCommand
      <3>1. frames' = [frames EXCEPT ![Len(frames)] = [at |-> "terminate", proc |-> NoCommand]]
        BY <1>15, <2>3 DEF KillallCheck, FrameGoes
      <3>2. /\ frames' # <<>> /\ Len(frames') = Len(frames)
            /\ \A i \in 1 .. Len(frames) :
                 frames'[i] = frames[i] \/ frames'[i].at = "terminate"
        BY <2>1, <3>1
      <3>3. pc \notin {"register", "exited"}
        BY <2>1, <2>3
      <3> HIDE DEF IInv, TypeOK, AtStage, InOrder
      <3>4. Started' /\ Registered'
        BY <2>1
      <3>5. KillsStage'
        BY <2>1, <3>2
      <3>6. NotYetKilling' /\ KilledAtEnd'
        BY <2>1, <3>2, <3>3
      <3> QED
        BY <3>4, <3>5, <3>6
    <2> QED
      BY <2>2, <2>3
  <1>16. ASSUME KillallSignals PROVE HInv'
    <2>1. /\ UNCHANGED <<pc, stage, running_process, timer, interrupted, cleared_late>>
          /\ running_process = stage /\ stage \in Commands
          /\ frames # <<>>
      BY <1>16 DEF KillallSignals, FrameAt, main_vars, past_vars
    <2>2. PICK how \in {"terminated", "killed"} : Signal(stage, how)
      BY <1>16, <2>1 DEF KillallSignals
    <2>3. PICK there \in {"kill", "wait"} :
            frames' = [frames EXCEPT ![Len(frames)] = [at |-> there, proc |-> NoCommand]]
      BY <1>16, <2>1 DEF KillallSignals, FrameGoes
    <2>4. /\ frames' # <<>> /\ Len(frames') = Len(frames)
          /\ \A i \in 1 .. Len(frames) :
               frames'[i] = frames[i] \/ frames'[i].at \in {"kill", "wait"}
      BY <2>1, <2>3
    <2>5. /\ \A c \in Commands : c # stage => child'[c] = child[c] /\ returncode'[c] = returncode[c]
          /\ child[stage] \notin Alive => child'[stage] \notin Alive
          /\ child'[stage] # "none"
          /\ returncode'[stage] => child'[stage] \notin Alive
      BY <2>1, <2>2 DEF Signal
    <2>6. ~OnlyChecks(frames)
      <3>1. Last.at # "check"
        BY <1>16 DEF KillallSignals, FrameAt
      <3>2. frames \in Seq(Frame)
        OBVIOUS
      <3> HIDE DEF IInv, HInv, OnlyChecks
      <3> QED
        BY <2>1, <3>1, <3>2, ChecksReturn DEF Last
    <2>7. NotYetKilling'
      <3> HIDE DEF IInv, OnlyChecks
      <3> QED
        BY <2>1, <2>6
    <2>8. Started'
      BY <2>1, <2>5
    <2>9. KillsStage'
      <3>1. ASSUME NEW i \in 1 .. Len(frames)
            PROVE  /\ frames'[i].at \in {"lock", "waitpid"} =>
                        frames'[i].proc = stage /\ child'[stage] # "none"
                   /\ frames'[i].at = "clear" => child'[stage] \notin Alive
        <4>1. frames'[i] = frames[i] \/ frames'[i].at \in {"kill", "wait"}
          BY <2>4
        <4> HIDE DEF IInv
        <4> QED
          BY <2>5, <4>1
      <3> HIDE DEF IInv
      <3> QED
        BY <2>1, <2>4, <3>1
    <2>10. Registered' /\ KilledAtEnd'
      BY <2>1, <2>4, <2>5
    <2> QED
      BY <2>7, <2>8, <2>9, <2>10
  <1>17. ASSUME KillallWaits PROVE HInv'
    BY <1>17 DEF KillallWaits, FrameAt, Last, FrameGoes, main_vars, calm_vars, child_vars, past_vars
  <1>18. ASSUME KillallCrashes PROVE HInv'
    <2>1. /\ UNCHANGED <<stage, running_process, child, returncode, past_vars>>
          /\ pc' = "exiting" /\ frames' = <<[at |-> "check", proc |-> NoCommand]>>
          /\ running_process = NoCommand
      BY <1>18 DEF KillallCrashes, Unwinds, Leaves
    <2>2. timer' = timer \/ timer' = Cancelled
      BY <1>18 DEF KillallCrashes, Unwinds
    <2>3. \A c \in Commands : timer'[c] = timer[c] \/ (timer[c] = "set" /\ timer'[c] = "cancelled")
      BY <2>2 DEF Cancelled
    <2>4. Started' /\ KillsStage' /\ NotYetKilling' /\ KilledAtEnd'
      BY <2>1, <2>3
    <2>5. pc # "register"
      BY <1>18, FramesType DEF KillallCrashes, FrameAt, Last
    <2>6. Registered'
      BY <2>1, <2>5 DEF past_vars
    <2> QED
      BY <2>4, <2>6
  <1>19. ASSUME KillallLocks PROVE HInv'
    <2>1. /\ UNCHANGED <<pc, stage, running_process, child, returncode, timer, past_vars>>
          /\ frames # <<>> /\ Len(frames) \in 1 .. Len(frames)
          /\ frames[Len(frames)].at = "lock" /\ frames[Len(frames)] \in Frame
      BY <1>19, FramesType DEF KillallLocks, FrameAt, Last, main_vars
    <2>2. frames[Len(frames)].proc = stage /\ child[stage] # "none" /\ stage \in Commands
      BY <2>1 DEF Frame
    <2>3. \/ /\ returncode[stage]
             /\ frames' = [frames EXCEPT ![Len(frames)] = [at |-> "clear", proc |-> NoCommand]]
          \/ frames' = [frames EXCEPT ![Len(frames)] = [at |-> "waitpid", proc |-> stage]]
      BY <1>19, <2>2 DEF KillallLocks, Last, FrameGoes
    <2>4. /\ frames' # <<>> /\ Len(frames') = Len(frames)
          /\ \A i \in 1 .. Len(frames) :
               \/ frames'[i] = frames[i]
               \/ frames'[i].at = "clear" /\ returncode[stage]
               \/ frames'[i].at = "waitpid" /\ frames'[i].proc = stage
      BY <2>1, <2>3
    <2>5. returncode[stage] => child[stage] \notin Alive
      BY <2>2
    <2> QED
      BY <2>1, <2>2, <2>4, <2>5 DEF past_vars
  <1>20. ASSUME KillallReaps PROVE HInv'
    BY <1>20 DEF KillallReaps, FrameAt, Last, FrameGoes, WaitPid, main_vars, past_vars
  <1>21. ASSUME KillallClears PROVE HInv'
    BY <1>21 DEF KillallClears, FrameAt, Last, Returns, main_vars, child_vars, past_vars
  <1>22. ASSUME NEW c \in Commands, TimerFires(c) PROVE HInv'
    BY <1>22 DEF TimerFires, TimerGoes, timer_frame, main_vars, child_vars, past_vars
  <1>23. ASSUME NEW c \in Commands, TimerSignals(c) PROVE HInv'
    BY <1>23 DEF TimerSignals, TimerGoes, timer_frame, main_vars, past_vars, Signal
  <1>24. ASSUME NEW c \in Commands, TimerLocks(c) PROVE HInv'
    BY <1>24 DEF TimerLocks, TimerGoes, timer_frame, main_vars, past_vars
  <1>25. ASSUME NEW c \in Commands, TimerWaits(c) PROVE HInv'
    BY <1>25 DEF TimerWaits, TimerGoes, timer_frame, main_vars, past_vars, WaitPid
  <1>26. ASSUME NEW c \in Commands, TimerClears(c) PROVE HInv'
    <2>1. /\ UNCHANGED <<pc, stage, frames, child, returncode, interrupted>>
          /\ running_process' = NoCommand
          /\ timer[c] = "clear" /\ timer' = [timer EXCEPT ![c] = "over"]
          /\ cleared_late' = (cleared_late \/ running_process \notin {c, NoCommand})
      BY <1>26 DEF TimerClears, TimerGoes, main_vars, child_vars
    <2>2. Started' /\ KillsStage' /\ NotYetKilling' /\ KilledAtEnd'
      BY <2>1
    <2>3. child[c] \notin Alive
      BY <2>1
    <2>4. Registered'
      BY <2>1, <2>3
    <2> QED
      BY <2>2, <2>4
  <1>27. ASSUME NEW c \in Commands, ChildEnds(c) PROVE HInv'
    BY <1>27 DEF ChildEnds, main_vars, past_vars
  <1>28. ASSUME Sigterm PROVE HInv'
    BY <1>28 DEF Sigterm, main_vars, child_vars
  <1>29. ASSUME Interrupt PROVE HInv'
    BY <1>29 DEF Interrupt, Unwinds, Leaves, Cancelled
  <1>30. ASSUME Terminated \/ UNCHANGED vars PROVE HInv'
    BY <1>30 DEF Terminated, vars, main_vars, child_vars, past_vars
  <1> QED
    BY <1>1, <1>2, <1>3, <1>4, <1>5, <1>6, <1>7, <1>8, <1>9, <1>10, <1>11, <1>12, <1>13, <1>14, <1>15, <1>16, <1>17, <1>18, <1>19, <1>20, <1>21, <1>22, <1>23, <1>24, <1>25, <1>26, <1>27, <1>28, <1>29, <1>30
       DEF Next, MainStep, TimerStep

LEMMA HeldInit == Init => HInv
  BY DEF Init, HInv, Started, KillsStage, NotYetKilling, OnlyChecks,
      Registered, KilledAtEnd, NoCommand, Outside

\* The script leaves no process behind, whatever signals, timers and failures
\* there are, but for the two windows that NoOrphan names: the invariant says
\* that killall, at the end, still finds the command that main is at.
THEOREM NoProcessIsLeftBehind == Spec => []NoOrphan
  <1>1. IInv /\ HInv => NoOrphan
    <2> SUFFICES ASSUME IInv, HInv, pc = "exited",
                        NEW c \in Commands, child[c] \in Alive
                 PROVE  interrupted = "register" \/ cleared_late
      BY DEF NoOrphan
    <2>1. running_process = NoCommand
      BY DEF HInv, KilledAtEnd, Outside
    <2>2. c = stage
      BY DEF IInv, TypeOK, InOrder, Settled, Alive, Commands
    <2> QED
      BY <2>1, <2>2 DEF HInv, Registered, NoCommand, Commands
  <1>2. HInv /\ IInv /\ IInv' /\ [Next]_vars => HInv'
    BY HeldStep
  <1> QED
    BY <1>1, <1>2, HeldInit, Invariance, PTL DEF Spec

-----------------------------------------------------------------------------
(* When killall can wait for itself                                        *)
(*                                                                         *)
(* The lock of a Popen object that main holds belongs to a call of killall *)
(* below the one that wants it; each call needs a SIGTERM, except that of  *)
(* the `finally'; and that one only waits for a child after an interrupt.  *)

\* Popen.wait and Popen.poll keep what they have learnt.
PolledIsKnown == \A c \in Commands : child[c] = "polled" => returncode[c]

MainLocks ==
    \A c \in Commands : waitpid_lock[c] = "main" =>
        \E i \in 1 .. Len(frames) : frames[i].at = "waitpid" /\ frames[i].proc = c

FramesCounted ==
    /\ Len(frames) <= terms + 1
    /\ pc \notin Outside => Len(frames) <= terms

\* The last killall of an uninterrupted run has nothing to wait for.
NothingToKill ==
    pc \in Outside /\ interrupted = "no" =>
        /\ running_process # NoCommand => returncode[running_process]
        /\ \A i \in 1 .. Len(frames) :
             /\ frames[i].at # "waitpid"
             /\ frames[i].at = "lock" => returncode[frames[i].proc]

LInv == PolledIsKnown /\ MainLocks /\ FramesCounted /\ NothingToKill

\* What a step of killall does to the calls of killall.
LEMMA Dropped ==
    ASSUME NEW fs \in Seq(Frame), fs # <<>>
    PROVE  /\ Len(SubSeq(fs, 1, Len(fs) - 1)) = Len(fs) - 1
           /\ \A i \in 1 .. Len(fs) - 1 : SubSeq(fs, 1, Len(fs) - 1)[i] = fs[i]
  OBVIOUS

LEMMA Replaced ==
    ASSUME NEW fs \in Seq(Frame), fs # <<>>, NEW f
    PROVE  /\ Len([fs EXCEPT ![Len(fs)] = f]) = Len(fs)
           /\ \A i \in 1 .. Len(fs) :
                [fs EXCEPT ![Len(fs)] = f][i] = IF i = Len(fs) THEN f ELSE fs[i]
  OBVIOUS

LEMMA LockFrames ==
    ASSUME NEW fs \in Seq(Frame)
    PROVE  \A i \in 1 .. Len(fs) : fs[i].at = "lock" => fs[i].proc \in Commands
  <1> SUFFICES ASSUME NEW i \in 1 .. Len(fs), fs[i].at = "lock"
               PROVE  fs[i].proc \in Commands
    OBVIOUS
  <1>1. fs[i] \in Frame
    OBVIOUS
  <1> QED
    BY <1>1 DEF Frame

\* The call on top returns, or goes on to a statement that holds no lock.
MovesOn ==
    /\ frames # <<>>
    /\ \/ frames' = SubSeq(frames, 1, Len(frames) - 1)
       \/ \E there \in {"terminate", "kill", "wait", "clear"} :
            frames' = [frames EXCEPT ![Len(frames)] = [at |-> there, proc |-> NoCommand]]

\* A lock or a wait of one call is no business of the calls that come and go on
\* top of it.
LEMMA StackKeepsLocks ==
    ASSUME TypeOK, TypeOK', LInv, PolledIsKnown', MovesOn,
           UNCHANGED <<pc, terms, interrupted>>,
           running_process' \in {running_process, NoCommand},
           \A c \in Commands : returncode[c] => returncode'[c],
           \A c \in Commands : waitpid_lock'[c] = "main" =>
               waitpid_lock[c] = "main" /\ (Last.at = "waitpid" => Last.proc # c)
    PROVE  LInv'
  <1>1. frames \in Seq(Frame) /\ Len(frames) \in Nat /\ Len(frames) \in 1 .. Len(frames)
    BY FramesType DEF TypeOK, MovesOn
  <1>2. /\ Len(frames') <= Len(frames) /\ Len(frames') \in Nat
        /\ \A i \in 1 .. Len(frames') :
             i \in 1 .. Len(frames) /\ (frames'[i] = frames[i] \/ frames'[i].at \notin {"waitpid", "lock"})
        /\ \A i \in 1 .. Len(frames) :
             i = Len(frames) \/ (i \in 1 .. Len(frames') /\ frames'[i] = frames[i])
    <2>1. CASE frames' = SubSeq(frames, 1, Len(frames) - 1)
      BY <1>1, <2>1, Dropped
    <2>2. ASSUME NEW there \in {"terminate", "kill", "wait", "clear"},
                 frames' = [frames EXCEPT ![Len(frames)] = [at |-> there, proc |-> NoCommand]]
          PROVE  /\ Len(frames') = Len(frames)
                 /\ \A i \in 1 .. Len(frames) :
                      frames'[i] = IF i = Len(frames) THEN [at |-> there, proc |-> NoCommand]
                                                      ELSE frames[i]
      BY <1>1, <2>2, Replaced
    <2>3. CASE \E there \in {"terminate", "kill", "wait", "clear"} :
                 frames' = [frames EXCEPT ![Len(frames)] = [at |-> there, proc |-> NoCommand]]
      <3>1. PICK there \in {"terminate", "kill", "wait", "clear"} :
              frames' = [frames EXCEPT ![Len(frames)] = [at |-> there, proc |-> NoCommand]]
        BY <2>3
      <3> QED
        BY <1>1, <2>2, <3>1
    <2> QED
      BY <2>1, <2>3 DEF MovesOn
  <1>3. MainLocks'
    <2> SUFFICES ASSUME NEW c \in Commands, waitpid_lock'[c] = "main"
                 PROVE  \E i \in 1 .. Len(frames') :
                          frames'[i].at = "waitpid" /\ frames'[i].proc = c
      BY DEF MainLocks
    <2>1. PICK i \in 1 .. Len(frames) : frames[i].at = "waitpid" /\ frames[i].proc = c
      BY DEF LInv, MainLocks
    <2>2. i # Len(frames)
      BY <2>1 DEF Last
    <2> QED
      BY <1>2, <2>1, <2>2
  <1>4. FramesCounted'
    BY <1>1, <1>2 DEF LInv, FramesCounted, TypeOK
  <1>5. NothingToKill'
    <2> SUFFICES ASSUME pc \in Outside, interrupted = "no"
                 PROVE  /\ running_process' # NoCommand => returncode'[running_process']
                        /\ \A i \in 1 .. Len(frames') :
                             /\ frames'[i].at # "waitpid"
                             /\ frames'[i].at = "lock" => returncode'[frames'[i].proc]
      BY DEF NothingToKill, Outside
    <2>1. \A i \in 1 .. Len(frames) : frames[i].at = "lock" => frames[i].proc \in Commands
      BY <1>1, LockFrames
    <2>2. running_process \in Commands \cup {NoCommand}
      BY DEF TypeOK
    <2> QED
      BY <1>2, <2>1, <2>2 DEF LInv, NothingToKill
  <1> QED
    BY <1>3, <1>4, <1>5 DEF LInv

LEMMA LocksInit == Init => LInv
  BY DEF Init, LInv, PolledIsKnown, MainLocks, FramesCounted, NothingToKill, Outside

LEMMA LocksStep == IInv /\ IInv' /\ HInv /\ LInv /\ [Next]_vars => LInv'
  <1> SUFFICES ASSUME IInv, IInv', HInv, LInv, [Next]_vars PROVE LInv'
    OBVIOUS
  <1> USE DEF IInv, TypeOK, AtStage, LInv, PolledIsKnown, MainLocks, FramesCounted,
              NothingToKill, Between, Inside, Outside, NoCommand, Commands
  <1>a. TypeOK /\ TypeOK'
    OBVIOUS
  <1>0. Len(frames) \in Nat /\ (frames # <<>> => Last \in Frame /\ Len(frames) \in 1 .. Len(frames))
    BY FramesType DEF Last
  <1>1. ASSUME NextStage PROVE LInv'
    BY <1>1 DEF NextStage, Goes, MainAt, main_vars, calm_vars, child_vars, past_vars
  <1>2. ASSUME FindTool PROVE LInv'
    BY <1>2 DEF FindTool, Goes, MainAt, main_vars, calm_vars, child_vars, past_vars
  <1>3. ASSUME ToolMissing PROVE LInv'
    BY <1>3 DEF ToolMissing, Goes, MainAt, main_vars, calm_vars, child_vars, past_vars, Leaves
  <1>4. ASSUME Finished PROVE LInv'
    BY <1>4 DEF Finished, Goes, MainAt, main_vars, calm_vars, child_vars, past_vars, Leaves
  <1>5. ASSUME Exit PROVE LInv'
    BY <1>5 DEF Exit, Goes, MainAt, main_vars, calm_vars, child_vars, past_vars
  <1>6. ASSUME Popen PROVE LInv'
    BY <1>6 DEF Popen, Goes, MainAt, main_vars, calm_vars, child_vars, past_vars
  <1>7. ASSUME PopenFails PROVE LInv'
    BY <1>7 DEF PopenFails, Goes, MainAt, main_vars, calm_vars, child_vars, past_vars, Leaves
  <1>8. ASSUME Register PROVE LInv'
    BY <1>8 DEF Register, Goes, MainAt, main_vars, calm_vars, child_vars, past_vars
  <1>9. ASSUME StartTimer PROVE LInv'
    BY <1>9 DEF StartTimer, Goes, MainAt, main_vars, calm_vars, child_vars, past_vars
  <1>10. ASSUME Wait4 PROVE LInv'
    BY <1>10 DEF Wait4, Goes, MainAt, main_vars, calm_vars, child_vars, past_vars
  <1>11. ASSUME Wait4NoChild PROVE LInv'
    BY <1>11 DEF Wait4NoChild, Goes, MainAt, main_vars, calm_vars, child_vars, past_vars
  <1>12. ASSUME ClearRunningProcess PROVE LInv'
    BY <1>12 DEF ClearRunningProcess, Goes, MainAt, main_vars, calm_vars, child_vars, past_vars
  <1>13. ASSUME CancelTimer PROVE LInv'
    BY <1>13 DEF CancelTimer, Goes, MainAt, main_vars, calm_vars, child_vars, past_vars, Cancelled
  <1>14. ASSUME Decide PROVE LInv'
    <2>1. /\ UNCHANGED <<stage, running_process, child, returncode, waitpid_lock, terms, interrupted>>
          /\ pc = "decide" /\ frames = <<>> /\ stage \in Commands
      BY <1>14 DEF Decide, MainAt, calm_vars, child_vars, past_vars
    <2>2. \/ pc' = "next" /\ frames' = <<>>
          \/ pc' = "exiting" /\ frames' = <<[at |-> "check", proc |-> NoCommand]>>
      BY <1>14 DEF Decide, MainAt, Leaves
    <2>3. running_process # NoCommand => returncode[running_process]
      <3>1. running_process \in {NoCommand, stage}
        BY DEF HInv, Started
      <3>2. running_process = NoCommand \/ child[stage] = "polled"
        BY <2>1 DEF Judged
      <3> QED
        BY <2>1, <3>1, <3>2
    <2>4. PolledIsKnown'
      BY <2>1
    <2>5. MainLocks'
      BY <2>1
    <2>6. Len(frames') = 0 \/ (Len(frames') = 1 /\ pc' \in Outside)
      BY <2>2
    <2>7. FramesCounted'
      <3>1. terms \in Nat /\ terms' = terms
        BY <2>1
      <3> HIDE DEF IInv, TypeOK, LInv, HInv
      <3>2. Len(frames') <= terms' + 1
        BY <2>6, <3>1
      <3>3. pc' \notin Outside => Len(frames') <= terms'
        BY <2>6, <3>1
      <3> QED
        BY <3>2, <3>3
    <2>8. \A i \in 1 .. Len(frames') : frames'[i].at = "check"
      BY <2>2
    <2>9. NothingToKill'
      <3> HIDE DEF IInv
      <3> QED
        BY <2>1, <2>3, <2>8
    <2> QED
      BY <2>4, <2>5, <2>7, <2>9
  <1>15. ASSUME KillallCheck PROVE LInv'
    <2>1. \/ frames' = SubSeq(frames, 1, Len(frames) - 1)
          \/ frames' = [frames EXCEPT ![Len(frames)] = [at |-> "terminate", proc |-> NoCommand]]
      BY <1>15 DEF KillallCheck, Returns, FrameGoes
    <2>2. Last.at = "check" /\ frames # <<>>
      BY <1>15 DEF KillallCheck, FrameAt
    <2>3. UNCHANGED <<pc, terms, interrupted, running_process, child, returncode, waitpid_lock>>
      BY <1>15 DEF KillallCheck, main_vars, calm_vars, child_vars, past_vars
    <2>4. PolledIsKnown' /\ MovesOn
      BY <2>1, <2>2, <2>3 DEF MovesOn
    <2> HIDE DEF TypeOK, IInv, LInv, PolledIsKnown, NoCommand, Commands
    <2> QED
      BY <1>a, <2>1, <2>2, <2>3, <2>4, StackKeepsLocks
  <1>16. ASSUME KillallSignals PROVE LInv'
    <2>1. PICK there \in {"kill", "wait"} :
            frames' = [frames EXCEPT ![Len(frames)] = [at |-> there, proc |-> NoCommand]]
      BY <1>16 DEF KillallSignals, FrameGoes
    <2>2. Last.at # "waitpid" /\ frames # <<>>
      BY <1>16 DEF KillallSignals, FrameAt
    <2>3. UNCHANGED <<pc, terms, interrupted, running_process, waitpid_lock>>
      BY <1>16 DEF KillallSignals, main_vars, past_vars
    <2>4. (\A c \in Commands : returncode[c] => returncode'[c]) /\ PolledIsKnown'
      BY <1>16 DEF KillallSignals, Signal, Alive
    <2>5. MovesOn
      BY <2>1, <2>2 DEF MovesOn
    <2> HIDE DEF TypeOK, IInv, LInv, PolledIsKnown, NoCommand, Commands
    <2> QED
      BY <1>a, <2>1, <2>2, <2>3, <2>4, <2>5, StackKeepsLocks
  <1>17. ASSUME KillallWaits PROVE LInv'
    BY <1>17, <1>0 DEF KillallWaits, main_vars, calm_vars, child_vars, past_vars, FrameAt, Last, FrameGoes
  <1>18. ASSUME KillallCrashes PROVE LInv'
    BY <1>18, <1>0 DEF KillallCrashes, main_vars, calm_vars, child_vars, past_vars, FrameAt, Last, Unwinds, Leaves
  <1>19. ASSUME KillallLocks PROVE LInv'
    <2>1. /\ UNCHANGED <<pc, terms, interrupted, running_process, child, returncode>>
          /\ Last.at = "lock" /\ frames # <<>> /\ Last.proc \in Commands
      BY <1>19, <1>0 DEF KillallLocks, FrameAt, main_vars, past_vars, Frame
    <2>2. CASE returncode[Last.proc]
      <3>1. /\ frames' = [frames EXCEPT ![Len(frames)] = [at |-> "clear", proc |-> NoCommand]]
            /\ UNCHANGED waitpid_lock
        BY <1>19, <2>2 DEF KillallLocks, FrameGoes
      <3>2. PolledIsKnown' /\ MovesOn
        BY <2>1, <3>1 DEF MovesOn
      <3> HIDE DEF TypeOK, IInv, LInv, PolledIsKnown, NoCommand, Commands
      <3> QED
        BY <1>a, <2>1, <3>1, <3>2, StackKeepsLocks
    <2>3. CASE ~returncode[Last.proc]
      <3>1. /\ frames' = [frames EXCEPT ![Len(frames)] = [at |-> "waitpid", proc |-> Last.proc]]
            /\ waitpid_lock' = [waitpid_lock EXCEPT ![Last.proc] = "main"]
        BY <1>19, <2>3 DEF KillallLocks, FrameGoes
      <3>2. /\ Len(frames') = Len(frames)
            /\ \A i \in 1 .. Len(frames) :
                 frames'[i] = IF i = Len(frames) THEN [at |-> "waitpid", proc |-> Last.proc]
                                                 ELSE frames[i]
        BY <2>1, <3>1, Replaced
      <3>3. MainLocks'
        BY <1>0, <2>1, <3>1, <3>2 DEF Last
      <3>4. FramesCounted'
        BY <2>1, <3>2
      <3>5. ~(pc \in Outside /\ interrupted = "no")
        BY <1>0, <2>1, <2>3 DEF Last
      <3> QED
        BY <2>1, <3>3, <3>4, <3>5
    <2> QED
      BY <2>2, <2>3
  <1>20. ASSUME KillallReaps PROVE LInv'
    BY <1>20, <1>0 DEF KillallReaps, main_vars, calm_vars, child_vars, past_vars, FrameAt, Last, FrameGoes, WaitPid
  <1>21. ASSUME KillallClears PROVE LInv'
    <2>1. frames' = SubSeq(frames, 1, Len(frames) - 1)
      BY <1>21 DEF KillallClears, Returns
    <2>2. Last.at = "clear" /\ frames # <<>>
      BY <1>21 DEF KillallClears, FrameAt
    <2>3. UNCHANGED <<pc, terms, interrupted, child, returncode, waitpid_lock>>
      BY <1>21 DEF KillallClears, main_vars, child_vars, past_vars
    <2>4. running_process' = NoCommand
      BY <1>21 DEF KillallClears
    <2>5. PolledIsKnown' /\ MovesOn
      BY <2>1, <2>2, <2>3 DEF MovesOn
    <2> HIDE DEF TypeOK, IInv, LInv, PolledIsKnown, NoCommand, Commands
    <2> QED
      BY <1>a, <2>1, <2>2, <2>3, <2>4, <2>5, StackKeepsLocks
  <1>22. ASSUME NEW c \in Commands, TimerFires(c) PROVE LInv'
    BY <1>22 DEF TimerFires, TimerGoes, timer_frame, main_vars, child_vars, past_vars
  <1>23. ASSUME NEW c \in Commands, TimerSignals(c) PROVE LInv'
    <2>1. UNCHANGED <<frames, pc, terms, interrupted, running_process, waitpid_lock>>
      BY <1>23 DEF TimerSignals, timer_frame, main_vars, past_vars
    <2>2. (\A d \in Commands : returncode[d] => returncode'[d]) /\ PolledIsKnown'
      BY <1>23 DEF TimerSignals, Signal, Alive
    <2>3. \A i \in 1 .. Len(frames) : frames[i].at = "lock" => frames[i].proc \in Commands
      BY LockFrames
    <2>4. running_process \in Commands \cup {NoCommand}
      OBVIOUS
    <2> QED
      BY <2>1, <2>2, <2>3, <2>4
  <1>24. ASSUME NEW c \in Commands, TimerLocks(c) PROVE LInv'
    BY <1>24 DEF TimerLocks, TimerGoes, timer_frame, main_vars, child_vars, past_vars
  <1>25. ASSUME NEW c \in Commands, TimerWaits(c) PROVE LInv'
    BY <1>25 DEF TimerWaits, TimerGoes, timer_frame, main_vars, child_vars, past_vars, WaitPid
  <1>26. ASSUME NEW c \in Commands, TimerClears(c) PROVE LInv'
    BY <1>26 DEF TimerClears, TimerGoes, timer_frame, main_vars, child_vars, past_vars
  <1>27. ASSUME NEW c \in Commands, ChildEnds(c) PROVE LInv'
    BY <1>27 DEF ChildEnds, main_vars, past_vars, Alive
  <1>28. ASSUME Sigterm PROVE LInv'
    BY <1>28 DEF Sigterm, main_vars, child_vars
  <1>29. ASSUME Interrupt PROVE LInv'
    <2>1. /\ frames' = <<[at |-> "check", proc |-> NoCommand]>> /\ interrupted' = pc
          /\ pc \in MainPoints /\ pc' = "exiting"
          /\ UNCHANGED <<child, returncode, terms>>
          /\ \A c \in Commands : waitpid_lock'[c] # "main"
      BY <1>29 DEF Interrupt, Unwinds, Leaves
    <2>2. Len(frames') = 1 /\ terms \in Nat
      BY <2>1
    <2> QED
      BY <2>1, <2>2 DEF MainPoints
  <1>30. ASSUME Terminated \/ UNCHANGED vars PROVE LInv'
    BY <1>30 DEF Terminated, vars, main_vars, child_vars, past_vars
  <1> QED
    BY <1>1, <1>2, <1>3, <1>4, <1>5, <1>6, <1>7, <1>8, <1>9, <1>10, <1>11, <1>12, <1>13, <1>14, <1>15, <1>16, <1>17, <1>18, <1>19, <1>20, <1>21, <1>22, <1>23, <1>24, <1>25, <1>26, <1>27, <1>28, <1>29, <1>30
       DEF Next, MainStep, TimerStep

\* killall waits for a lock of its own thread only when at least two signals
\* came: of the two calls of killall that this takes, one or both are handlers
\* of SIGTERM, and the other one, if it is the last one of the script, only
\* waits for a command because of an interrupt.
THEOREM SelfLockTakesTwo == Spec => []SelfLockNeedsTwo
  <1>1. IInv /\ HInv /\ LInv => SelfLockNeedsTwo
    <2> SUFFICES ASSUME IInv, LInv, SelfLocked PROVE Signals >= 2
      BY DEF SelfLockNeedsTwo
    <2>1. /\ frames \in Seq(Frame) /\ frames # <<>> /\ Len(frames) \in 1 .. Len(frames)
          /\ Last \in Frame /\ Last.at = "lock" /\ Last = frames[Len(frames)]
      BY FramesType DEF IInv, TypeOK, SelfLocked, FrameAt, Last
    <2>2. Last.proc \in Commands
      BY <2>1 DEF Frame
    <2>3. PICK i \in 1 .. Len(frames) : frames[i].at = "waitpid"
      BY <2>2 DEF SelfLocked, LInv, MainLocks
    <2>4. Len(frames) >= 2
      BY <2>1, <2>3
    <2>5. terms \in Nat
      BY DEF IInv, TypeOK
    <2>6. CASE pc \notin Outside
      BY <2>4, <2>5, <2>6 DEF LInv, FramesCounted, Signals
    <2>7. CASE pc \in Outside
      <3>1. interrupted # "no"
        BY <2>3, <2>7 DEF LInv, NothingToKill
      <3> QED
        BY <2>4, <2>5, <2>7, <3>1 DEF LInv, FramesCounted, Signals
    <2> QED
      BY <2>6, <2>7
  <1> QED
    BY <1>1, HeldInit, HeldStep, LocksInit, LocksStep, Invariance, PTL DEF Spec
=============================================================================
