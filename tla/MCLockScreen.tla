---------------------------- MODULE MCLockScreen ----------------------------
\* LockScreen with two monitors that come and go.
EXTENDS LockScreen

CONSTANTS o1, o2
=============================================================================
