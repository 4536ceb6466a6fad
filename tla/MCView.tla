-------------------------------- MODULE MCView --------------------------------
(* TLC instances of AccountView. *)
EXTENDS AccountView

A == <<2>>
AB == <<2, 1>>
D == <<1>>
DB == <<1, 1>>
E == <<3>>

\* Two closed groups, the first of which fetches its child, and a leaf: a row more
\* than fits.
MCSetups ==
    {[entries |-> {[id |-> 1, accounts |-> {AB}]}, accounts |-> {D, E}, unloaded |-> {D},
      mode |-> [kind |-> "list", paths |-> {}]]}

MCEntrySets == {{}}

MCAnswers == {{DB}}

MCQueries == {{1}}

MCDecorations == {[p \in {AB} |-> [severity |-> 1, count |-> 1]]}

MCLeaves == {2}

MCDrops == {[sources |-> <<AB>>, target |-> D, collision |-> "skip"]}

MCKeys == {"ArrowDown", "ArrowRight", "ArrowLeft", "End", "F2", "F3", "ShiftF3",
           "Enter", "a", "ContextMenu"}

\* A view that is not mounted yet, or that is: mounting is not one of the calls then.
MCViewInit ==
    /\ Init
    /\ \/ v = Unmounted
       \/ v = Mounted([c |-> Read(c), v |-> Unmounted]).v

MCViewSpec == MCViewInit /\ [][ViewNext]_viewVars
=============================================================================
