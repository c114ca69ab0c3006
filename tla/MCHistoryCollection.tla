------------------------- MODULE MCHistoryCollection -------------------------
EXTENDS HistoryCollection
=============================================================================
