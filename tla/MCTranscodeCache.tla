-------------------------- MODULE MCTranscodeCache --------------------------
(***************************************************************************)
(* TranscodeCache with the sizes of its model checking runs.               *)
(***************************************************************************)
EXTENDS TranscodeCache, TLC

CONSTANTS k1, k2

\* Two files that do not fit together under the smaller limit of the runs.
Sizes == (k1 :> 1) @@ (k2 :> 2)

Symmetry == Permutations(Callers)
=============================================================================
