-------------------------- MODULE MCRequestStreams --------------------------
EXTENDS RequestStreams, TLC

AllKinds == Kinds
=============================================================================
