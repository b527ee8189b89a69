------------------------------ MODULE MCDriver ------------------------------
(* Instances of Driver for TLC. *)
EXTENDS DriverProps

\* Every option once, with and without a limit for the commands that have one:
\* two commands with timers; four without; a stage that fails before its command.
SomeOptions == {{"bitcode", "cpu"}, {"add_main", "oll"}, {"bitcode", "L"}}

\* Wait statuses: exit code 0, exit code 1, SIGALRM, and SIGSEGV with a core dump.
SomeStatuses == {0, 256, 14, 139}
=============================================================================
