---------------------------- MODULE MCCodexDevice ----------------------------
EXTENDS CodexDevice, TLC
CONSTANTS p1, p2, p3
MCPolls == {p1, p2, p3}
PollSymmetry == Permutations(MCPolls)
=============================================================================
