---------------------------- MODULE MCDispatch ----------------------------
EXTENDS Dispatch

===========================================================================
