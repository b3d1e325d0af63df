--------------------------- MODULE MCPeerRequests ---------------------------
EXTENDS PeerRequests, TLC

CONSTANTS r1, r2, t1, a, ab, c

\* a is a prefix of ab; c is apart.
TwoRequests   == {r1, r2}
Overlapping   == Prefixes \cap {a, ab}
OverlapsOfAll == (Overlapping \X Overlapping) \cup {<<p, p>> : p \in Prefixes}
JobsOfAll     == [kind : {"subscribe", "track-status", "fetch"}, on : {t1}]
                   \cup [kind : {"subscribe-namespace"}, on : {a, ab}]
                   \cup [kind : {"subscribe-tracks", "publish-namespace"}, on : {a}]
Symmetry      == Permutations(TwoRequests)
=============================================================================
