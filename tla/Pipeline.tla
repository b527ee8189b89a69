------------------------------ MODULE Pipeline ------------------------------
(***************************************************************************)
(* What clam-prov.py promises whoever calls it, without processes, timers  *)
(* and signals: the needed commands run one at a time and in order, none   *)
(* starts after one that failed, and the run is a success only when all of *)
(* them succeeded.                                                         *)
(***************************************************************************)
EXTENDS Naturals

CONSTANT Commands       \* numbers, in the order in which they run

VARIABLES
    needed,         \* the commands this run consists of
    succeeded,      \* those that have succeeded
    active,         \* those that have been started and not been waited for
    verdict         \* "none", "success", "failure" or "interrupted"

plvars == <<needed, succeeded, active, verdict>>

PLInit ==
    /\ needed \in SUBSET Commands
    /\ succeeded = {}
    /\ active = {}
    /\ verdict = "none"

Start(c) ==
    /\ verdict = "none"
    /\ active = {}
    /\ c \in needed \ succeeded
    /\ \A d \in needed : d < c => d \in succeeded
    /\ active' = {c}
    /\ UNCHANGED <<needed, succeeded, verdict>>

Succeed(c) ==
    /\ active = {c}
    /\ active' = {}
    /\ succeeded' = succeeded \cup {c}
    /\ UNCHANGED <<needed, verdict>>

\* The active command failed, or its result was lost.
Fail ==
    /\ active # {}
    /\ active' = {}
    /\ verdict' = IF verdict = "none" THEN "failure" ELSE verdict
    /\ UNCHANGED <<needed, succeeded>>

\* The caller itself cannot go on.
GiveUp ==
    /\ verdict = "none"
    /\ verdict' = "failure"
    /\ UNCHANGED <<needed, succeeded, active>>

Finish ==
    /\ verdict = "none"
    /\ succeeded = needed
    /\ verdict' = "success"
    /\ UNCHANGED <<needed, succeeded, active>>

Interrupted ==
    /\ verdict' = "interrupted"
    /\ UNCHANGED <<needed, succeeded, active>>

PLNext ==
    \/ \E c \in Commands : Start(c) \/ Succeed(c)
    \/ Fail \/ GiveUp \/ Finish \/ Interrupted

PLSpec == PLInit /\ [][PLNext]_plvars
=============================================================================
