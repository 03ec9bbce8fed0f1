--------------------------- MODULE MCStreamGroup ---------------------------
EXTENDS StreamGroup
=============================================================================
