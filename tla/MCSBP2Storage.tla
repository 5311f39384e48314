--------------------------- MODULE MCSBP2Storage ---------------------------
EXTENDS SBP2Storage
=============================================================================
