---------------------------- MODULE MCScheduler ----------------------------
EXTENDS Scheduler, TLC

OperatorSymmetry == Permutations(Operators)
=============================================================================
