--------------------------- MODULE MCWorkspaceEnd ---------------------------
EXTENDS WorkspaceEnd

CONSTANTS a, b
=============================================================================
