------------------------- MODULE MCDownloadManager -------------------------
(***************************************************************************)
(* DownloadManager for TLC: nothing in it tells one download from another. *)
(***************************************************************************)
EXTENDS DownloadManager, TLC

Symmetry == Permutations(Downloads)
=============================================================================
