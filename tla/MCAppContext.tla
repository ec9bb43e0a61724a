---------------------------- MODULE MCAppContext ----------------------------
(* A small instance of AppContext for TLC.                                 *)
EXTENDS AppContext, TLC

\* The threads, the data and the memory are interchangeable.
Symmetry ==
    Permutations(Thread) \cup Permutations(Datum) \cup Permutations(Cell)
=============================================================================
