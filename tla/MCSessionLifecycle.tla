------------------------ MODULE MCSessionLifecycle ------------------------
EXTENDS SessionLifecycle, TLC
=============================================================================
