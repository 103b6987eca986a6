--------------------------- MODULE MCShuffleRound ---------------------------
(***************************************************************************)
(* ShuffleRound with the bounds of its model checking runs.                *)
(***************************************************************************)
EXTENDS ShuffleRound
=============================================================================
