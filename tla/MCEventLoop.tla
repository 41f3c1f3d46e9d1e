---------------------------- MODULE MCEventLoop ----------------------------
\* EventLoop with one posting thread, one address for the optional source, and
\* timers that are due an instant after they are started.
EXTENDS EventLoop

MCDelays == {1}
=============================================================================
