---------------------------- MODULE MCSubscriber ----------------------------
EXTENDS Subscriber, TLC

\* Our SUBSCRIBEs have even Request IDs, the peer's PUBLISHes odd ones.
OurIds    == {0, 2}
OneOfOurs == {0}
TheirIds  == {1}

\* The peer gives a new Track Alias to every request, or has one for each track,
\* or one for all.
PerRequest == [r \in Ids \X Tracks |-> r[1]]
PerTrack   == [r \in Ids \X Tracks |-> r[2]]
SameForAll == [r \in Ids \X Tracks |-> 0]
=============================================================================
