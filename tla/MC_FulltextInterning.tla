------------------------ MODULE MC_FulltextInterning ------------------------
EXTENDS FulltextInterning

MC_Text == {"t1", "t2"}
=============================================================================
