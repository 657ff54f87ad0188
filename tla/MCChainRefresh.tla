---------------------------- MODULE MCChainRefresh ----------------------------
EXTENDS ChainRefresh

CONSTANTS a1, a2

MCAccounts == {a1, a2}
MCSymmetry == Permutations(MCAccounts)
=============================================================================
