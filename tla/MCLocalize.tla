----------------------------- MODULE MCLocalize -----------------------------
\* Constants for model-checking Localize.
EXTENDS Localize

CONSTANTS p1, p2
=============================================================================
