--------------------------- MODULE MCSecondScreen ---------------------------
EXTENDS SecondScreen
=============================================================================
