------------------------- MODULE MCControlRecords -------------------------
EXTENDS ControlRecords, TLC

CONSTANTS a, b, s1, s2

=============================================================================
