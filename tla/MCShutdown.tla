---------------------------- MODULE MCShutdown ----------------------------
EXTENDS Shutdown

===========================================================================
