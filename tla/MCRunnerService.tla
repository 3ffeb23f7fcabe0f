--------------------------- MODULE MCRunnerService ---------------------------
EXTENDS RunnerService, TLC

RunSymmetry == Permutations(Runs)
=============================================================================
