-------------------------------- MODULE MCPage --------------------------------
(* TLC instances of Register and LedgerView, on one page or the other. *)
EXTENDS LedgerView

Row(n, month, queries) ==
    [id |-> n, date |-> <<1, month, n>>, flag |-> "cleared", currency |-> "c",
     amount |-> n, balance |-> [c \in {"c"} |-> n],
     text |-> [description |-> queries, date |-> {}]]

\* Rows in two months; the rows of "less" are the later ones of "more".
MCData ==
    [more |-> [n \in 1 .. 8 |-> Row(n, IF n <= 4 THEN 1 ELSE 2, IF n % 2 = 1 THEN {"q"} ELSE {})],
     less |-> [n \in 1 .. 4 |-> Row(n + 1, IF n = 1 THEN 1 ELSE 2, IF n = 2 THEN {"q"} ELSE {})],
     none |-> <<>>]

Plain == [by |-> "none", filter |-> None, mode |-> "single", keys |-> TRUE,
          pooled |-> FALSE, sticky |-> FALSE]

MCFilters == {None, [query |-> "q", fields |-> {"description"}]}

MCOptions == {[Plain EXCEPT !.mode = "range"],
              [Plain EXCEPT !.by = "month", !.sticky = TRUE],
              [Plain EXCEPT !.pooled = TRUE]}

MCAligns == {"start", "nearest"}

MCKeys == {<<"ArrowDown", FALSE, FALSE>>, <<"ArrowUp", TRUE, FALSE>>, <<"a", FALSE, TRUE>>,
           <<"Enter", FALSE, FALSE>>, <<"Escape", FALSE, FALSE>>, <<"End", FALSE, FALSE>>}

MCSections ==
    LET of(account, from) == [account |-> account, from |-> from]
    IN  {<<of("A", "more"), of("B", "none")>>,
         <<of("C", "less"), of("A", "less")>>,
         <<of("B", "none"), of("A", "more")>>,
         <<of("B", "less"), of("B", "none")>>}

MCSectionOptions == Plain

PageInit == RegisterInit \/ LedgerInit

PageNext == (~Ledger /\ RegisterNext) \/ (Ledger /\ LedgerNext)

PageSpec == PageInit /\ [][PageNext]_registerVars /\ WF_registerVars(Browser)
=============================================================================
