--------------------------- MODULE MCAccountStore ---------------------------
(* TLC instances of AccountStore. *)
EXTENDS AccountStore

A == <<1>>
AB == <<1, 1>>
AC == <<1, 2>>
ABD == <<1, 1, 1>>
E == <<2>>
EF == <<2, 1>>
EFD == <<2, 1, 1>>

Posting(account, amount) == [account |-> account, amount |-> amount]

\* A sum that leaves the safe range on the way up and comes back, with an
\* invalid path to skip; and an account that leaves it by itself, with an unsafe
\* amount to skip.
MCSeed ==
    {<<Posting(ABD, 4), Posting(AB, 3), Posting(AC, 2), Posting(E, -7),
       Posting(<<1, 0>>, 1)>>,
     <<Posting(AB, 6), Posting(AB, 3), Posting(EF, 8)>>}

\* The first set mixes a path that implies its ancestors with an invalid one.
MCAddSet == {{ABD, <<1, 0>>}}

MCRemoveSet == {{AB, ABD}}

MoveFrom(from, to) == [from |-> from, to |-> to]

\* A re-parenting under a new ancestor, one back in place of or onto another
\* account, and one into itself.
MCMoveSet == {MoveFrom(AB, EF), MoveFrom(EF, AB), MoveFrom(A, AB)}

\* An add that the next operation moves away, and a removal before a move that
\* may be rejected with an add behind it.
MCBatchSet ==
    {<<Add({ABD}), Move(MoveFrom(AB, EF)), RemoveOp({A})>>,
     <<RemoveOp({EF}), Move(MoveFrom(AC, EF)), Add({AB})>>}

\* One account renamed where it is.
MCRename == {MoveFrom(AB, AC)}

MCLazy == {AB}
=============================================================================
