--------------------------- MODULE MCLabelConfig ---------------------------
\* A small instance of LabelConfig for TLC: two of the four configs have one
\* version, and with it there are as many versions as writes that may fail, so that
\* an empty store can meet them all before any of its versions is active.
EXTENDS LabelConfig, TLC

CONSTANTS a, b, c, d
Versions == (a :> 1) @@ (b :> 1) @@ (c :> 2) @@ (d :> 3)
=============================================================================
