----------------------------- MODULE MCVodFetch -----------------------------
EXTENDS VodFetch, TLC
=============================================================================
