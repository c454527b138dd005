--------------------------- MODULE MCConflation ---------------------------
EXTENDS Conflation

CONSTANTS c1, c2

CallbackSymmetry == Permutations(Callbacks)
=============================================================================
