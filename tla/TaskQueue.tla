----------------------------- MODULE TaskQueue -----------------------------
(***************************************************************************)
(* What CooperativeScheduler promises a caller, without slices or timers:  *)
(* the doc comments of its interface (scheduler.ts).  Calls are accepted   *)
(* in order up to a capacity, ended one at a time in that order, and       *)
(* cancelled together, for good, by abort.                                 *)
(***************************************************************************)
EXTENDS Naturals, Sequences

CONSTANTS Task, MaxQueue

VARIABLES waiting, closed, answer

tqVars == <<waiting, closed, answer>>

Init ==
    /\ waiting = <<>>
    /\ closed = FALSE
    /\ answer = [t \in Task |-> "new"]

Accept(t) ==
    /\ ~closed
    /\ Len(waiting) < MaxQueue
    /\ answer[t] = "new"
    /\ waiting' = Append(waiting, t)
    /\ answer' = [answer EXCEPT ![t] = "pending"]
    /\ UNCHANGED closed

Reject(t) ==
    /\ answer[t] = "new"
    /\ \/ closed /\ answer' = [answer EXCEPT ![t] = "aborted"]
       \/ /\ ~closed
          /\ Len(waiting) = MaxQueue
          /\ answer' = [answer EXCEPT ![t] = "full"]
    /\ UNCHANGED <<waiting, closed>>

End(outcome) ==
    /\ waiting # <<>>
    /\ answer' = [answer EXCEPT ![Head(waiting)] = outcome]
    /\ waiting' = Tail(waiting)
    /\ UNCHANGED closed

Close ==
    /\ ~closed
    /\ closed' = TRUE
    /\ waiting' = <<>>
    /\ answer' = [t \in Task |->
                    IF answer[t] = "pending" THEN "aborted" ELSE answer[t]]

Next ==
    \/ \E t \in Task : Accept(t) \/ Reject(t)
    \/ End("resolved")
    \/ End("failed")
    \/ Close

Spec == Init /\ [][Next]_tqVars
=============================================================================
