----------------------------- MODULE MCUioToken -----------------------------
EXTENDS UioToken, TLC

CONSTANTS d1, d2

MC_Devices == {d1, d2}

\* The two devices are interchangeable.
MC_Symmetry == Permutations(MC_Devices)
=============================================================================
