-------------------------- MODULE MCCorrectionPool --------------------------
\* A small instance of CorrectionPool for TLC.
EXTENDS CorrectionPool, TLC

Symmetry == Permutations(Fields) \cup Permutations(Leads)
=============================================================================
