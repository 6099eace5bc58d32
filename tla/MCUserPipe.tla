---------------------------- MODULE MCUserPipe ----------------------------
\* Messages of two units, a pipe for three of them, and reads that take two
\* and a half.
EXTENDS UserPipe

CONSTANTS m1, m2, m3, pid

===========================================================================
