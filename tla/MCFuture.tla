------------------------------- MODULE MCFuture -------------------------------
EXTENDS Future
=============================================================================
