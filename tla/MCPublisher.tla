---------------------------- MODULE MCPublisher ----------------------------
EXTENDS Publisher, TLC

\* A group of three objects, one of one object, and one past the filter's end.
ThreeGroups == <<1, 1, 1, 2, 3>>
\* Two objects of one group.
OneGroup == <<1, 1>>
=============================================================================
