-------------------------- MODULE MCWildfireClient --------------------------
EXTENDS WildfireClient
=============================================================================
