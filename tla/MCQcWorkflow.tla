---------------------------- MODULE MCQcWorkflow ----------------------------
\* Small instances of QcWorkflow for TLC.
EXTENDS QcWorkflow, TLC

\* The ids of users and of leases are interchangeable; those of samples too in an
\* instance where Blank is empty.
Symmetry == Permutations(Users) \cup Permutations(Leases)
SymmetryOfAll == Symmetry \cup Permutations(Samples)
=============================================================================
