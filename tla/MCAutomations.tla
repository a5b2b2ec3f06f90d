--------------------------- MODULE MCAutomations ---------------------------
EXTENDS Automations
=============================================================================
