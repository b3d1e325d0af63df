------------------------- MODULE MCNamespaceNotices -------------------------
EXTENDS NamespaceNotices, TLC

CONSTANTS c1, c2

\* One namespace. Of the prefixes two match it and overlap, and one of these
\* overlaps the third.
AB == <<"a", "b">>
OneNamespace  == {AB}
ThreePrefixes == {<<"a">>, AB, <<"a", "c">>}

\* The namespace is announced and withdrawn, in any order.
AnnounceOnce == c1 :> [op |-> "announce", ns |-> AB] @@ c2 :> [op |-> "cancel", ns |-> AB]
=============================================================================
