-------------------------- MODULE MCSessionTickets --------------------------
EXTENDS SessionTickets
=============================================================================
