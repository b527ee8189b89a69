----------------------------- MODULE MCAuditLog -----------------------------
(* Instances of AuditLog for TLC. *)
EXTENDS AuditLogProps

CONSTANTS r1, r2, c1, main, other

World(mode, max, mutex, started, wanted, faults) ==
    [mode |-> mode, max_records |-> max, mutex |-> mutex, started |-> started,
     wanted |-> wanted, faults |-> faults]

\* Two programs, one of which may fork; and one program, which may fork, with a
\* reader.
Worlds == {World("pipe", 2, "stub", {r1, r2}, 0, {}),
           World("file", 1, "works", {r1, r2}, 0, {"die"}),
           World("file", 2, "stub", {r1}, 3, {"die", "write"}),
           World("pipe", 2, "stub", {r1}, 2, {"die", "write"})}

\* One program without threads, which may fork.
Single == {World("file", 1, "stub", {r1}, 0, {})}

\* A child is forked with a record in its buffer, and adds one.
Calls == [p \in Process |-> IF p = r1 THEN 2 ELSE 1]
=============================================================================
