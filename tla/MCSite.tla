------------------------------- MODULE MCSite -------------------------------
\* Site takes its constants from the configuration.
EXTENDS Site
=============================================================================
