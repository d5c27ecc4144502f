------------------------------ MODULE MCHandoff ------------------------------
EXTENDS HandoffProofs
=============================================================================
