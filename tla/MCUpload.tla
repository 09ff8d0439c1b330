------------------------------ MODULE MCUpload ------------------------------
\* Constants for checking Upload: contents that are empty, that end in what
\* could be the start of a delimiter, that hold the boundary, and that are
\* longer than the buffer.
EXTENDS Upload

MCBodies == {<< >>, << "r" >>, << "b", "r", "n", "-" >>,
             << "r", "r", "n", "-", "-", "r", "n", "b", "-", "-", "b", "b" >>}
MCPreambles == {<< >>, << "-", "b", "-" >>}
=============================================================================
