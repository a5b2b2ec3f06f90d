------------------------- MODULE MCSessionAdmission -------------------------
EXTENDS SessionAdmission
=============================================================================
