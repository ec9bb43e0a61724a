----------------------------- MODULE MCSession -----------------------------
EXTENDS Session, TLC

Symmetry == Permutations(Request) \cup Permutations(Key)
=============================================================================
