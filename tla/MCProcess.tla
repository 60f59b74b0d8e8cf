----------------------------- MODULE MCProcess ------------------------------
EXTENDS Process, TLC

(* A behaviour keeps to one workload, so that the parts of the system are    *)
(* each explored in full and not multiplied with the others.                 *)
Workload(kids, shell, kid) ==
    [kids |-> kids, calls |-> [p \in Procs |-> IF p = Shell THEN shell ELSE kid]]

Jobs == LET c == {"spawn", "exec", "wait", "waitpid", "readline", "exit"}
        IN  Workload(2, c \cup {"keys"}, c)
Pipes == Workload(2, {"pipe", "spawn", "close"}, {"read", "write", "exit"})
Dups == Workload(1, {"pipe", "spawn", "close"}, {"dup2", "close", "exit"})
Heaps == Workload(2, {"spawn"}, {"spawn", "sbrk", "exit"})
Keys == Workload(0, {"readline", "readkey", "keys"}, {})
Modified == Workload(0, {"modifiers"}, {})
Alarms == Workload(0, {"sigaction"}, {})

MCWorkloads == {Jobs, Pipes, Dups, Heaps, Keys, Modified, Alarms}
JobsOnly == {Jobs}

\* Nothing is claimed of the pipe once two updates of a count overlapped:
\* such a state is checked and not explored further.
CountsSerial == "pipe" \notin overlap
=============================================================================
