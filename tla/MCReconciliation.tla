-------------------------- MODULE MCReconciliation --------------------------
(***************************************************************************)
(* A reconciliation of one of two statements.                              *)
(***************************************************************************)
EXTENDS Reconciliation

Line(id, days, amount, currency) ==
    [id |-> id, days |-> days, amount |-> amount, currency |-> currency]
Posting(entry, days, amount) ==
    [entry |-> entry, index |-> 0, days |-> days, amount |-> amount, currency |-> "X"]

\* One pair and one line covered by a sum; a statement with a line of another
\* currency that nobody covers and a posting that is outstanding.
MCLedger ==
    {[lines |-> {Line(1, 1, 2, "X"), Line(2, 2, 5, "X")},
      postings |-> {Posting(1, 1, 2), Posting(2, 2, 2), Posting(3, 3, 3)}],
     [lines |-> {Line(1, 1, 3, "X"), Line(3, 1, 4, "Y")},
      postings |-> {Posting(1, 2, 3), Posting(4, 2, 1)}]}

MCMatchOptions == [window |-> 3, group |-> 3, combinations |-> 10000]

\* A session in which the first match was accepted.
MCSaved == [ledger \in MCLedger |-> [Proposed[ledger] EXCEPT ![1].status = "accepted"]]
=============================================================================
