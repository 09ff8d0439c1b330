------------------------------ MODULE MCSpeech ------------------------------
\* Constants for model-checking Speech.
EXTENDS Speech

\* Just fits, too short but just bearable, far too long.
Deviations == {1, -3, 4}
OneEach == {[controls |-> TRUE, rewriter |-> FALSE], [controls |-> FALSE, rewriter |-> TRUE]}
Default == {[controls |-> FALSE, rewriter |-> FALSE]}
=============================================================================
