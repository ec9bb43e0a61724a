------------------------------- MODULE MCFcgi -------------------------------
(* Instances of Fcgi for TLC: the symmetry of its sets of model values.    *)
EXTENDS Fcgi, TLC

Symmetry == Permutations(Req) \cup Permutations(Id) \cup Permutations(Worker)
=============================================================================
