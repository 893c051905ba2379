---------------------------- MODULE MCSystemTask ----------------------------
EXTENDS SystemTask, TLC
CONSTANTS r1, r2
MCRunners == {r1, r2}
MCSurvivor == {r2}
RunnerSymmetry == Permutations(MCRunners)
=============================================================================
