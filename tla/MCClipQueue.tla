---------------------------- MODULE MCClipQueue ----------------------------
(***************************************************************************)
(* Instances of ClipQueue for TLC.  Workers are interchangeable; the        *)
(* symmetry is used in the safety runs only.                               *)
(***************************************************************************)
EXTENDS ClipQueueProps, TLC

Symmetry == Permutations(Workers)
=============================================================================
