-------------------------------- MODULE Pipe --------------------------------
(* A pipe (pipe.go): a buffered Go channel and a reference count per end.    *)
(* Nothing locks it.  Descriptors of several processes, on several CPUs,     *)
(* refer to it, so a count is loaded and stored in two steps and the test    *)
(* for zero reads it again.                                                  *)
EXTENDS Integers

CONSTANTS pipeBufBytes,
          MaxBytes        \* bound: bytes sent through the pipe

ASSUME PipeAssumption == pipeBufBytes \in Nat \ {0} /\ MaxBytes \in Nat

VARIABLE pipe

Ends == {"rd", "wr"}

\* sent and received are history.
PipeType ==
    [made : BOOLEAN, refs : [Ends -> -1 .. 20], closed : [Ends -> BOOLEAN],
     ch : 0 .. pipeBufBytes, chClosed : BOOLEAN,
     sent : 0 .. MaxBytes, received : 0 .. MaxBytes]

PipeInit ==
    pipe = [made |-> FALSE, refs |-> [e \in Ends |-> 0],
            closed |-> [e \in Ends |-> FALSE], ch |-> 0, chClosed |-> FALSE,
            sent |-> 0, received |-> 0]

newPipe == pipe' = [pipe EXCEPT !.made = TRUE, !.refs = [e \in Ends |-> 1]]

\* ch <- b and <-ch where the channel can take or give one byte.
Send == pipe' = [pipe EXCEPT !.ch = @ + 1, !.sent = @ + 1]
Receive == pipe' = [pipe EXCEPT !.ch = @ - 1, !.received = @ + 1]

\* Wrong: every Close closes the end.
AnyClose(e) == TRUE

\* The end of Close: the last reference closes its end, and the last writer
\* the channel.
LastReference(e) == pipe.refs[e] = 0
Closed(e) ==
    [pipe EXCEPT !.closed[e] = TRUE, !.chClosed = @ \/ e = "wr"]
=============================================================================
