------------------------------- MODULE MCHttp -------------------------------
EXTENDS Http, TLC

Symmetry == Permutations(Owners) \cup Permutations(Requests)
=============================================================================
