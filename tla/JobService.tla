----------------------------- MODULE JobService -----------------------------
(***************************************************************************)
(* What the worker pool promises its callers, however it computes: each    *)
(* call gets the result of its own input, or the error of computing it, or *)
(* is told that the service shut down.                                     *)
(***************************************************************************)
CONSTANTS
    Call,     \* the calls a caller may make, each once
    Input,    \* what can be computed
    Bad,      \* the inputs whose computation throws
    None      \* no input, no value

VARIABLE calls

Idle == [status |-> "idle", input |-> None, value |-> None]

\* The right outcome for an input: a result is named by what it is the result of.
Outcome(i) ==
    IF i \in Bad THEN [status |-> "failed", input |-> i, value |-> None]
                 ELSE [status |-> "done", input |-> i, value |-> i]

Pending == {c \in Call : calls[c].status = "pending"}

Init == calls = [c \in Call |-> Idle]

Request(c, i) ==
    /\ calls[c] = Idle
    /\ calls' = [calls EXCEPT ![c] = [Idle EXCEPT !.status = "pending", !.input = i]]

\* Answered on the spot.
Serve(c, i) ==
    /\ calls[c] = Idle
    /\ calls' = [calls EXCEPT ![c] = Outcome(i)]

\* Several calls may be answered in one step: those that share a computation,
\* and those whose computations were all made up for at once.
Answer(answered) ==
    /\ answered # {}
    /\ calls' = [c \in Call |-> IF c \in answered THEN Outcome(calls[c].input)
                                                  ELSE calls[c]]

\* A shutdown leaves nobody waiting.
Shutdown ==
    /\ Pending # {}
    /\ calls' = [c \in Call |-> IF c \in Pending
                                THEN [calls[c] EXCEPT !.status = "canceled"]
                                ELSE calls[c]]

Next ==
    \/ \E c \in Call, i \in Input : Request(c, i) \/ Serve(c, i)
    \/ \E answered \in SUBSET Pending : Answer(answered)
    \/ Shutdown

Spec == Init /\ [][Next]_calls
=============================================================================
