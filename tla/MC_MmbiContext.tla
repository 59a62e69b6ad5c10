--------------------------- MODULE MC_MmbiContext ---------------------------
EXTENDS MmbiContext
=============================================================================
