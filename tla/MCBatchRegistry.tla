-------------------------- MODULE MCBatchRegistry --------------------------
\* A small instance of BatchRegistry for TLC: every history of one batch id,
\* which can also become the id of a type.
EXTENDS BatchRegistry, TLC

TwoTypes == {<<"a">>, <<"a", "__", "b">>}
OneSlot == {<< <<"a">>, <<"b">> >>}

\* Archive names are interchangeable.
Symmetry == Permutations(Names)
=============================================================================
