----------------------------- MODULE MCPlayback -----------------------------
(***************************************************************************)
(* Playback with the bounds of its model checking runs.                    *)
(***************************************************************************)
EXTENDS Playback
=============================================================================
