----------------------------- MODULE MCLiveSync -----------------------------
\* A small instance of LiveSync: two platforms and two files, one of them
\* excluded from the second platform.
EXTENDS LiveSync

CONSTANTS android, ios, shared, native

MCData == <<android, ios>>
MCTakes == [p \in {android, ios} |-> IF p = android THEN {shared, native} ELSE {shared}]
=============================================================================
