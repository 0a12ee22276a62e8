----------------------------- MODULE MCHostStore -----------------------------
EXTENDS HostStore
=============================================================================
