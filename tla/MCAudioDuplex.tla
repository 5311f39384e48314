--------------------------- MODULE MCAudioDuplex ---------------------------
EXTENDS AudioDuplex
=============================================================================
