------------------------------ MODULE MCStartup ------------------------------
EXTENDS Startup

MCFiles == {"boot", "server", "runtime"}
=============================================================================
