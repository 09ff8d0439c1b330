------------------------------ MODULE MCRender ------------------------------
\* Render takes its constants from the configuration.
EXTENDS Render
=============================================================================
