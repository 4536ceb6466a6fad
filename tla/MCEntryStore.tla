---------------------------- MODULE MCEntryStore ----------------------------
(* TLC instances of EntryStore. *)
EXTENDS EntryStore

P(account) == <<[account |-> account, amount |-> 1, currency |-> "X"]>>

V(id, date, account) ==
    [id |-> id, date |-> date, text |-> {ToString(<<id, date>>)},
     postings |-> P(account)]

\* One entry that moves across the other and between two accounts.
v1 == V(1, 2, <<"a">>)
v2 == V(2, 1, <<"a">>)
v3 == V(2, 3, <<"c", "d">>)

\* The last batch names an id twice.
MCBatch == {<<v1>>, <<v3>>, <<v2, v3>>}

MCIdSet == {{1}, {2, 9}}

MCKey == {[path |-> <<"a">>, deep |-> FALSE], [path |-> <<"c">>, deep |-> TRUE]}
=============================================================================
