---------------------------- MODULE MCConnection ----------------------------
EXTENDS Connection

MCInitialDelays == <<2>>
=============================================================================
