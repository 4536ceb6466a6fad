--------------------------- MODULE MCEntryIngest ---------------------------
(* A TLC instance of EntryIngest. *)
EXTENDS EntryIngest, TLC

CONSTANTS g1, g2

\* Two calls with ids in common, one id twice in a chunk or in two chunks of a call.
MCChunks == (g1 :> << <<1, 2>>, <<2>> >>) @@ (g2 :> << <<2, 1, 2>> >>)
=============================================================================
