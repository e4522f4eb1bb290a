-------------------------- MODULE MCStreamDownload --------------------------
(***************************************************************************)
(* StreamDownload for TLC: nothing in it tells one stream from another.    *)
(***************************************************************************)
EXTENDS StreamDownload, TLC

Symmetry == Permutations(Streams)
=============================================================================
