--------------------------- MODULE MCBookkeeping ---------------------------
EXTENDS Bookkeeping, TLC
CONSTANTS v1, v2
MCVouchers == {v1, v2}
Symmetry == Permutations(MCVouchers)
=============================================================================
