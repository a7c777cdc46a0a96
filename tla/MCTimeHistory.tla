--------------------------- MODULE MCTimeHistory ---------------------------
EXTENDS TimeHistory

MCCorrections == {-1, 2}
MCStarts == {0, 1}
=============================================================================
