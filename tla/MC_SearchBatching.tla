------------------------- MODULE MC_SearchBatching -------------------------
EXTENDS SearchBatching
=============================================================================
