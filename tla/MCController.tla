----------------------------- MODULE MCController -----------------------------
(* TLC instances of AccountController. *)
EXTENDS AccountController, TLC

A == <<1>>
AB == <<1, 1>>
ABC == <<1, 1, 1>>
D == <<2>>
DB == <<2, 1>>
E == <<3>>
EF == <<3, 3>>

Every == [kind |-> "all", paths |-> {}]
Top == [kind |-> "top-level", paths |-> {}]
Listed(paths) == [kind |-> "list", paths |-> paths]

Entry(id, accounts) == [id |-> id, accounts |-> accounts]

\* A chain that flattening merges, an account that collides with its leaf when
\* dropped, and a group whose children are fetched.
MCSetups ==
    {[entries |-> {Entry(1, {AB, D})}, accounts |-> {DB, EF}, unloaded |-> {AB}, mode |-> Every],
     [entries |-> {Entry(1, {ABC})}, accounts |-> {D, AB}, unloaded |-> {D}, mode |-> Top]}

MCEntrySets == {{Entry(2, {DB})}}

\* A child of the group that asked, and one of another group.
MCAnswers == {{}, {ABC, DB}}

MCQueries == {{}, {1}}

MCDecorations == {(AB :> [severity |-> 1, count |-> 1]) @@ (D :> [severity |-> 2, count |-> 1])}

MCLeaves == {0, 2}

Drop(sources, target, collision) ==
    [sources |-> sources, target |-> target, collision |-> collision]

MCDrops == {Drop(<<AB, DB>>, E, "skip"), Drop(<<AB, ABC>>, D, "replace")}

\* One account nested in another of its own name.
MCNested ==
    {[entries |-> {Entry(1, {ABC, D})}, accounts |-> {}, unloaded |-> {}, mode |-> Every],
     [entries |-> {}, accounts |-> {<<1, 1, 1>>}, unloaded |-> {}, mode |-> Listed({AB})]}

MCOnto == {Drop(<<ABC>>, A, "replace")}
=============================================================================
