---------------------------- MODULE MCWebDownload ----------------------------
(* A small instance of WebDownload for TLC. *)
EXTENDS WebDownload, TLC

Threads == Permutations(Workers)

===============================================================================
