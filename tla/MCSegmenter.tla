---------------------------- MODULE MCSegmenter ----------------------------
(* The instance of module Segmenter that TLC checks. *)
EXTENDS Segmenter, TLC

Perms == Permutations(Tracks)
=============================================================================
