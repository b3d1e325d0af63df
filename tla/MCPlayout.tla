----------------------------- MODULE MCPlayout ------------------------------
EXTENDS Playout, TLC

\* The second group has a delta that can be missing between two frames; one group
\* comes before it and one after, of which the last has a delta too.
MCLastOf == (1 :> 0) @@ (2 :> 2) @@ (3 :> 1)
=============================================================================
