------------------------------ MODULE MCUsageLog ------------------------------
EXTENDS UsageLog, TLC
CallerSymmetry == Permutations(Callers)
=============================================================================
