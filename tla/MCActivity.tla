------------------------------ MODULE MCActivity ------------------------------
(* Activity with small constants for TLC.                                  *)
EXTENDS Activity, TLC

\* The threads of a pool are interchangeable.
Threads == Permutations(Workers)
===============================================================================
