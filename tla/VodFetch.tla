------------------------------ MODULE VodFetch ------------------------------
(***************************************************************************)
(* The VodFetchController of packages/media/src/vod/vod-fetch-controller.ts*)
(* with its default LegacyFetchStrategy: it asks for ranges of groups ahead*)
(* of playback, retries ranges that came back empty, asks again for what   *)
(* was missing of others, and starts and stops playback by the number of   *)
(* frames buffered.  All of it runs in calls of the application, which     *)
(* turns a fetch-request into a FETCH, reports the groups and the end of   *)
(* each fetch as the relay delivers them, and plays.                       *)
(*                                                                         *)
(* The application is external: it reports the groups of a fetch in order, *)
(* nothing of a fetch the controller has cancelled, plays only in state    *)
(* playing, in order, and passes over groups it was told are unavailable.  *)
(***************************************************************************)
EXTENDS Integers, Sequences, FiniteSets, FiniteSetsExt

CONSTANTS
  Total,          \* totalGroups of the catalog
  Contents,       \* the numbers of groups the relay may really have
  Frames,         \* framesPerGop
  InitialGops,    \* gopsForInitialBuffer
  MinGops,        \* gopsForMinBuffer
  Batch,          \* gopsPerFetch
  MaxConcurrent,  \* maxConcurrentFetches
  MaxLosses,      \* bound: fetches the relay ends early
  MaxSeeks        \* bound: calls of seek()

MaxRetries == 2

ASSUME VodFetchAssumption ==
  /\ {Total, Frames, InitialGops, MinGops, Batch, MaxConcurrent} \subseteq Nat \ {0}
  /\ Contents \subseteq 1 .. Total /\ Contents # {}
  /\ {MaxLosses, MaxSeeks} \subseteq Nat

VARIABLES
  state,         \* state of the controller
  playbackGroup, \* the group being played, as far as it was told
  fetchedUpTo,   \* fetchedUpToGroup
  buffered,      \* bufferedFrames
  total,         \* totalGroups, as last updated
  retries,       \* failedGroupRetries, by the first group of a range
  fetches,       \* activeFetches in the order of their requests
  slow,          \* avgGroupDownloadMs is well above the duration of a group
  content,       \* groups the relay has
  losses, seeks, \* what the bounds count
  head, frame,   \* the group the player is at, and the frames of it played
  base,          \* history: where the application started or sought last
  received,      \* history: groups received since
  unavailable    \* history: groups reported unavailable since

controller == <<state, playbackGroup, fetchedUpTo, buffered, total, retries, fetches, slow>>
player     == <<head, frame>>
history    == <<base, received, unavailable>>
vars       == <<controller, content, losses, seeks, player, history>>

Groups == 0 .. Total - 1

TypeOK ==
  /\ state \in {"idle", "initial-buffering", "playing", "rebuffering", "completed"}
  /\ {playbackGroup, head, base} \subseteq 0 .. Total
  /\ fetchedUpTo \in -1 .. Total - 1
  /\ total \in 1 .. Total /\ content \in Contents
  /\ buffered \in 0 .. Total * Frames
  /\ retries \in [Groups -> 0 .. MaxRetries]
  /\ \A i \in DOMAIN fetches :
       fetches[i] \in [start : Groups, end : Groups, next : 0 .. Total, isRetry : BOOLEAN]
  /\ slow \in BOOLEAN
  /\ losses \in 0 .. MaxLosses /\ seeks \in 0 .. MaxSeeks
  /\ frame \in 0 .. Frames - 1
  /\ received \subseteq Groups /\ unavailable \subseteq Groups

NoRetries == [g \in Groups |-> 0]

Init ==
  /\ state = "idle" /\ playbackGroup = 0 /\ fetchedUpTo = -1 /\ buffered = 0
  /\ total = Total /\ content \in Contents
  /\ retries = NoRetries /\ fetches = <<>> /\ slow = FALSE
  /\ losses = 0 /\ seeks = 0
  /\ head = 0 /\ frame = 0
  /\ base = 0 /\ received = {} /\ unavailable = {}

-----------------------------------------------------------------------------
(* What to fetch next.  Fs are the active fetches; what else the decision   *)
(* looks at has been assigned by then, hence the primes.                    *)

RangeOf(f) == f.start .. f.end

\* issueFetch
Issue(fs, from, to, again) ==
  Append(fs, [start |-> from, end |-> to, next |-> from, isRetry |-> again])

\* Mutant of Highest: the fetches under way are not looked at.
HighestFetched(fs) == fetchedUpTo'

\* highestInFlightGroup
Highest(fs) == Max({fetchedUpTo'} \cup {fs[i].end : i \in DOMAIN fs})

Forward(fs) == {i \in DOMAIN fs : ~fs[i].isRetry}

\* calculateAdaptiveFetchAhead, for groups that download as fast as they play, or so
\* slowly (8/3 of their duration, at least) that the upper limit applies.
FetchAhead == IF slow' THEN Min({4 * InitialGops, total' - playbackGroup'}) ELSE InitialGops

BatchSize == IF slow' THEN Min({2 * Batch, 8}) ELSE Batch

\* Mutant of ShouldFetch: no fetch when the buffer is empty.
ShouldFetchAhead(fs) ==
  /\ Cardinality(Forward(fs)) < MaxConcurrent
  /\ Highest(fs) < total' - 1
  /\ Highest(fs) < playbackGroup' + FetchAhead

\* LegacyFetchStrategy.getNextFetch: below the limits, when the fetches do not reach
\* far enough ahead or the buffer is empty and nothing new is on its way.
ShouldFetch(fs) ==
  /\ Cardinality(Forward(fs)) < MaxConcurrent
  /\ Highest(fs) < total' - 1
  /\ \/ Highest(fs) < playbackGroup' + FetchAhead
     \/ buffered' = 0 /\ Forward(fs) = {}

\* maybeIssueFetch
MaybeIssue(fs) ==
  fetches' = IF ShouldFetch(fs)
             THEN Issue(fs, Highest(fs) + 1, Min({Highest(fs) + BatchSize, total' - 1}), FALSE)
             ELSE fs

-----------------------------------------------------------------------------
(* start() and seek()                                                       *)

\* Both begin with one fetch from a group on.
FetchFrom(g) == fetches' = Issue(<<>>, g, Min({g + InitialGops, total}) - 1, FALSE)

\* start(): the application begins with the first group, the default.
Start ==
  /\ state = "idle"
  /\ state' = "initial-buffering"
  /\ playbackGroup' = 0 /\ fetchedUpTo' = -1
  /\ FetchFrom(0)
  /\ UNCHANGED <<buffered, total, retries, slow, content, losses, seeks, player, history>>

\* seek(): every fetch is cancelled, the buffer is empty, and fetching begins anew.
\* The application seeks within the content, in any state.
Seek(g) ==
  /\ g < total /\ seeks < MaxSeeks
  /\ seeks' = seeks + 1
  /\ state' = "rebuffering"
  /\ playbackGroup' = g /\ fetchedUpTo' = g - 1 /\ buffered' = 0
  /\ retries' = NoRetries
  /\ FetchFrom(g)
  /\ head' = g /\ frame' = 0
  /\ base' = g /\ received' = {} /\ unavailable' = {}
  /\ UNCHANGED <<total, slow, content, losses>>

-----------------------------------------------------------------------------
(* What the application reports of a fetch.                                 *)

\* The frames that must be buffered before playback goes on.
Needed == Frames * (IF state = "initial-buffering" THEN InitialGops ELSE MinGops)

Buffering == state \in {"initial-buffering", "rebuffering"}

\* onGroupReceived: the next group of fetch i.
GroupReceived(i) ==
  LET f == fetches[i] IN
  /\ f.next \in RangeOf(f) /\ f.next < content
  /\ received' = received \cup {f.next}
  /\ buffered' = buffered + Frames
  /\ state' = IF Buffering /\ buffered' >= Needed THEN "playing" ELSE state
  /\ UNCHANGED <<playbackGroup, fetchedUpTo, total, retries, slow>>
  /\ MaybeIssue([fetches EXCEPT ![i].next = @ + 1])
  /\ UNCHANGED <<content, losses, seeks, player, base, unavailable>>

Without(fs, i) == SubSeq(fs, 1, i - 1) \o SubSeq(fs, i + 1, Len(fs))

\* A fetch ends when all that the relay has of it is delivered, or it is lost: ended
\* earlier, or with bytes that are not one whole group.
RelayEnds(i, bytes) ==
  LET f == fetches[i] IN
  IF f.next \in RangeOf(f) /\ (f.next < content \/ (f.next = f.start /\ bytes))
  THEN losses < MaxLosses /\ losses' = losses + 1
  ELSE UNCHANGED losses

\* What every onFetchComplete does: the groups up to the last one received count as
\* fetched, the speed is measured (as infinitely slow when there was no group to
\* divide by), and a range that brought any bytes is no longer one that failed.
Completed(i, bytes) ==
  LET f == fetches[i] IN
  /\ RelayEnds(i, bytes)
  /\ f.next > f.start => bytes
  /\ slow' \in IF f.next = f.start THEN {TRUE} ELSE BOOLEAN
  /\ UNCHANGED <<state, playbackGroup, buffered, total, content, seeks, player, base, received>>

Retries(i, bytes) == IF bytes THEN 0 ELSE retries[fetches[i].start]

\* onFetchComplete when everything asked for came.
FetchDone(i, bytes) ==
  LET f == fetches[i] IN
  /\ Completed(i, bytes)
  /\ f.next > f.end
  /\ fetchedUpTo' = Max({fetchedUpTo, f.end})
  /\ retries' = [retries EXCEPT ![f.start] = Retries(i, bytes)]
  /\ UNCHANGED unavailable
  /\ MaybeIssue(Without(fetches, i))

\* Mutant of GapRefetched: only what lies ahead is fetched on.
GapForgotten(i, bytes) ==
  LET f == fetches[i] IN
  /\ Completed(i, bytes)
  /\ f.start < f.next /\ f.next <= f.end
  /\ fetchedUpTo' = Max({fetchedUpTo, f.end})
  /\ retries' = [retries EXCEPT ![f.start] = Retries(i, bytes)]
  /\ UNCHANGED unavailable
  /\ MaybeIssue(Without(fetches, i))

\* The same when only the first groups came: the others are asked for again, past the
\* end of the content even.
GapRefetched(i, bytes) ==
  LET f == fetches[i] IN
  /\ Completed(i, bytes)
  /\ f.start < f.next /\ f.next <= f.end
  /\ fetchedUpTo' = Max({fetchedUpTo, f.next - 1})
  /\ retries' = [retries EXCEPT ![f.start] = Retries(i, bytes)]
  /\ UNCHANGED unavailable
  /\ MaybeIssue(Issue(Without(fetches, i), f.next, f.end, TRUE))

\* The same when no group came: the range is tried again, MaxRetries times.
FetchRetried(i, bytes) ==
  LET f == fetches[i] IN
  /\ Completed(i, bytes)
  /\ f.next = f.start /\ f.start < total /\ Retries(i, bytes) < MaxRetries
  /\ fetchedUpTo' = Max({fetchedUpTo, f.start - 1})
  /\ retries' = [retries EXCEPT ![f.start] = Retries(i, bytes) + 1]
  /\ UNCHANGED unavailable
  /\ MaybeIssue(Issue(Without(fetches, i), f.start, Min({f.end, total - 1}), TRUE))

\* Mutant of FetchGivenUp: retries of a range that was given up are still counted.
FetchGivenUpCounting(i, bytes) ==
  LET f == fetches[i] IN
  /\ Completed(i, bytes)
  /\ f.next = f.start /\ (f.start >= total \/ Retries(i, bytes) >= MaxRetries)
  /\ fetchedUpTo' = Max({fetchedUpTo, total - 1})
  /\ retries' = [retries EXCEPT ![f.start] = @ + 1]
  /\ unavailable' = unavailable \cup RangeOf(f)
  /\ MaybeIssue(Without(fetches, i))

\* The same when it is past the end, or has been tried often enough: it is reported
\* unavailable, and all of the content counts as fetched.
FetchGivenUp(i, bytes) ==
  LET f == fetches[i] IN
  /\ Completed(i, bytes)
  /\ f.next = f.start /\ (f.start >= total \/ Retries(i, bytes) >= MaxRetries)
  /\ fetchedUpTo' = Max({fetchedUpTo, total - 1})
  /\ retries' = [retries EXCEPT ![f.start] = 0]
  /\ unavailable' = unavailable \cup RangeOf(f)
  /\ MaybeIssue(Without(fetches, i))

\* onFetchComplete
FetchComplete(i, bytes) ==
  FetchDone(i, bytes) \/ GapRefetched(i, bytes) \/ FetchRetried(i, bytes) \/ FetchGivenUp(i, bytes)

\* updateTotalGroups: the application learns that there are fewer groups.
UpdateTotalGroups ==
  /\ content < total /\ total' = content
  /\ UNCHANGED <<state, playbackGroup, fetchedUpTo, buffered, retries, fetches, slow, content,
                 losses, seeks, player, history>>

-----------------------------------------------------------------------------
(* Playback.                                                                *)

\* The player plays the next frame of the groups it has, in order.
Play ==
  /\ state = "playing" /\ head \in received
  /\ frame' = (frame + 1) % Frames
  /\ head' = IF frame' = 0 THEN head + 1 ELSE head

\* The player passes over a group that is unavailable.
Skip ==
  /\ head \in unavailable \ received
  /\ head' = head + 1
  /\ UNCHANGED <<controller, content, losses, seeks, frame, history>>

\* What onFramePlayed and onFrameConsumed have in common: a frame less is buffered,
\* and without any playback waits, or is at its end.
FrameGone ==
  /\ buffered' = Max({0, buffered - 1})
  /\ state' = IF buffered' > 0 THEN state
              ELSE IF playbackGroup' < total - 1 THEN "rebuffering" ELSE "completed"
  /\ UNCHANGED <<fetchedUpTo, total, retries, slow>>
  /\ MaybeIssue(fetches)
  /\ UNCHANGED <<content, losses, seeks, history>>

\* onFramePlayed
FramePlayed == Play /\ playbackGroup' = head /\ FrameGone

\* onFrameConsumed
FrameConsumed == Play /\ UNCHANGED playbackGroup /\ FrameGone

-----------------------------------------------------------------------------
Next ==
  \/ Start
  \/ \E g \in Groups : Seek(g)
  \/ \E i \in DOMAIN fetches : GroupReceived(i)
  \/ \E i \in DOMAIN fetches, bytes \in BOOLEAN : FetchComplete(i, bytes)
  \/ UpdateTotalGroups
  \/ FramePlayed \/ FrameConsumed \/ Skip

Spec == Init /\ [][Next]_vars

\* The relay delivers and ends the oldest fetch in the end, and the player plays and
\* passes on.
Fairness ==
  /\ WF_vars(fetches # <<>> /\ (GroupReceived(1) \/ \E b \in BOOLEAN : FetchComplete(1, b)))
  /\ WF_vars(FramePlayed \/ FrameConsumed \/ Skip)

FairSpec == Spec /\ Fairness

-----------------------------------------------------------------------------
(* Properties.                                                              *)

\* A range that is within the content was given up.
GaveUp == unavailable \cap 0 .. total - 1 # {}

\* No group is on its way twice, nor asked for when it has come, through gaps,
\* retries and seeks: its frames would be counted and decoded twice.
FetchedOnce ==
  \A i \in DOMAIN fetches :
    /\ fetches[i].next .. fetches[i].end \cap received = {}
    /\ \A j \in DOMAIN fetches \ {i} : RangeOf(fetches[i]) \cap RangeOf(fetches[j]) = {}

\* A group has come, is on its way or was reported unavailable.
Accounted(g) ==
  g \in received \cup unavailable \/ \E i \in DOMAIN fetches : g \in RangeOf(fetches[i])

\* Of the groups of the content that count as fetched since the last seek, each has
\* come, is on its way or was reported unavailable, as long as no range had to be given
\* up: no order of losses, retries, completions and updates of the total leaves a hole
\* nobody asks for.
NoHole == GaveUp \/ \A g \in base .. fetchedUpTo : g < total => Accounted(g)

\* Playback is completed only when every group from the last seek on was received.
CompletedPlayedAll ==
  state = "completed" => GaveUp \/ base .. total - 1 \subseteq received

\* Neither fetching nor playing passes over a group of the content.
NothingMissed == NoHole /\ CompletedPlayedAll

\* Waiting for frames ends, unless all that is left of the content has been received
\* or a range had to be given up.
BufferingEnds ==
  Buffering ~> ~Buffering \/ GaveUp \/ base .. total - 1 \subseteq received

\* "Group(s) unavailable on relay - playback should skip past them": what follows
\* them is fetched nevertheless.
NothingAbandoned == \A g \in base .. fetchedUpTo : g < total => Accounted(g)
=============================================================================
