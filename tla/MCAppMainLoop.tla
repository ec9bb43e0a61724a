--------------------------- MODULE MCAppMainLoop ---------------------------
(* Instances of AppMainLoop for TLC.                                       *)
EXTENDS AppMainLoop, TLC

Symmetry == Permutations(Thread) \cup Permutations(Request)
=============================================================================
