------------------------- MODULE MC_StoreBootstrap -------------------------
EXTENDS StoreBootstrap

\* Openers of one file, found new, current, or from a later version.
MC_Versions == {0, 1, 2}
=============================================================================
