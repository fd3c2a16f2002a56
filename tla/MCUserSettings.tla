--------------------------- MODULE MCUserSettings ---------------------------
\* A small instance of UserSettings: two processes, each with one call at a time.
EXTENDS UserSettings

CONSTANTS c1, c2, p1, p2

MCProcOf == [c \in {c1, c2} |-> IF c = c1 THEN p1 ELSE p2]
=============================================================================
