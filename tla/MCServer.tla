------------------------------ MODULE MCServer -------------------------------
EXTENDS Server

MCFiles == {"boot", "server", "runtime"}
=============================================================================
