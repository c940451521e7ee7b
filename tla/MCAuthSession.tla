--------------------------- MODULE MCAuthSession ---------------------------
\* Small instances of AuthSession for TLC.
EXTENDS AuthSession, TLC

\* Tokens, like requests, are interchangeable.
Symmetry == Permutations(Tokens) \cup Permutations(Requests)
=============================================================================
