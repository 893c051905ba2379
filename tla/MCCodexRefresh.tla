--------------------------- MODULE MCCodexRefresh ---------------------------
EXTENDS CodexRefresh, TLC
CONSTANTS c1, c2, c3
MCCalls == {c1, c2, c3}
CallSymmetry == Permutations(MCCalls)
=============================================================================
