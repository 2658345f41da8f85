------------------------- MODULE MC_TxApplication --------------------------
EXTENDS TxApplication

MC_Entity == {"e1", "e2"}
MC_Attr == {"one", "many"}
MC_Value == {"v1", "v2"}
MC_CardOne == {"one"}
MC_UniqueValueAttr == {"one"}
=============================================================================
