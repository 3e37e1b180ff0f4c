---------------------------- MODULE MCTaskServer ----------------------------
EXTENDS TaskServer

CONSTANTS s1, s2

TwoScans == {s1, s2}
=============================================================================
