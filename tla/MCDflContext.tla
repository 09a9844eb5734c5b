---------------------------- MODULE MCDflContext ----------------------------
EXTENDS DflContext, TLC

CONSTANTS t1, t2

MC_Threads == {t1, t2}

=============================================================================
