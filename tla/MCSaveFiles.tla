----------------------------- MODULE MCSaveFiles -----------------------------
EXTENDS SaveFiles
==============================================================================
