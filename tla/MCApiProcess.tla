---------------------------- MODULE MCApiProcess ----------------------------
\* Kids and workers are interchangeable.
EXTENDS ApiProcess, TLC

Symmetry == Permutations(Kids) \cup Permutations(Workers)

=============================================================================
