----------------------------- MODULE Publisher -----------------------------
(***************************************************************************)
(* How a MOQTSession sends the objects of one published track (draft-18/22,*)
(* packages/session/src/session.ts).  The objects of a group form subgroup *)
(* 0, which is sent on one unidirectional stream: the stream is opened with*)
(* the group's first object, and finished when the next group starts.      *)
(*                                                                         *)
(* sendObject() awaits the creation of streams, every write and every FIN, *)
(* so several calls of it can be under way at once, and meanwhile the peer *)
(* may pause or cancel the subscription or stop a stream, a delivery       *)
(* timeout may expire and the application may unpublish the track.  All of *)
(* them meet in the one entry activeVideoStreams has for the track.        *)
(***************************************************************************)
EXTENDS Integers, Sequences, FiniteSets

CONSTANTS
  GroupOf,         \* GroupOf[i]: the group of the i-th object the application sends
  Serialized,      \* an object is sent after the sending of the one before it ended
  MaxStreams,      \* bound: streams the transport is asked for
  MaxOpenStreams,  \* maxOpenStreams
  EndGroup,        \* publication.filter.end of a draft-18 subscriber, or 0
  MaxPauses        \* bound: times the peer pauses the subscription

ASSUME PublisherAssumption ==
  /\ GroupOf \in Seq(Nat \ {0})
  /\ Serialized \in BOOLEAN
  /\ MaxStreams \in Nat \ {0}
  /\ MaxOpenStreams \in Nat \ {0}
  /\ EndGroup \in Nat
  /\ MaxPauses \in Nat

Objects == 1 .. Len(GroupOf)
Streams == 1 .. MaxStreams
None    == 0          \* no stream, no object, no group

VARIABLES
  published,   \* the track's publication is in the PublicationManager
  forward,     \* publication.forward
  opened,      \* publication.streamsOpened
  lastGroup,   \* publication.lastStreamGroup
  expired,     \* publication.expiredGroup
  entry,       \* activeVideoStreams: the stream of the open subgroup, or None
  openCount,   \* openStreamCount
  stream,      \* state of each stream at the transport
  group,       \* the group a stream carries
  first,       \* streams whose header has FIRST_OBJECT
  previous,    \* previousObjectId of the entry made for the stream
  wire,        \* what was written on a stream: objects, each with its delta base
  pc, at,      \* how far each sendObject() is, and on which stream
  resets,      \* how many resetPublicationStream() are aborting each stream
  pauses,      \* pauses so far, for the bound
  ending,      \* how far unpublish() is
  endingAt,    \* the stream unpublish() closes
  done,        \* Stream Count of the PUBLISH_DONE sent, or -1
  cancelled,   \* the peer cancelled the subscription
  faults       \* history: what went wrong, for the properties to name it

publication == <<published, forward, opened, lastGroup, expired>>
transport   == <<stream, group, first, previous, wire>>
calls       == <<pc, at>>
others      == <<resets, pauses, ending, endingAt, done, cancelled>>
vars        == <<publication, entry, openCount, transport, calls, others, faults>>

\* Streams we hold: neither finished nor reset nor stopped by the peer.
Held == {s \in Streams : stream[s] \in {"creating", "open", "closing"}}

TypeOK ==
  /\ published \in BOOLEAN /\ forward \in BOOLEAN /\ cancelled \in BOOLEAN
  /\ opened \in Nat /\ openCount \in Nat
  /\ lastGroup \in Nat /\ expired \in Nat
  /\ entry \in Streams \cup {None}
  /\ stream \in [Streams -> {"none", "creating", "refused", "discarded", "open", "closing",
                           "fin", "reset", "stopped"}]
  /\ group \in [Streams -> Nat]
  /\ first \subseteq Streams
  /\ previous \in [Streams -> Objects \cup {None}]
  /\ wire \in [Streams -> Seq([object : Objects, base : Objects \cup {None}])]
  /\ pc \in [Objects -> {"idle", "closing", "creating", "first", "writing", "closed",
                        "refused", "stopped", "ending", "done"}]
  /\ at \in [Objects -> Streams \cup {None}]
  /\ resets \in [Streams -> 0 .. MaxPauses + 1]
  /\ pauses \in 0 .. MaxPauses
  /\ ending \in {"no", "closing", "closed", "writing", "yes"}
  /\ endingAt \in Streams \cup {None}
  /\ done \in Nat \cup {-1}
  /\ faults \subseteq {"clobbered", "late", "filter"}

Init ==
  /\ published = TRUE /\ forward = TRUE /\ cancelled = FALSE /\ faults = {}
  /\ opened = 0 /\ openCount = 0 /\ lastGroup = None /\ expired = None
  /\ entry = None
  /\ stream = [s \in Streams |-> "none"]
  /\ group = [s \in Streams |-> None]
  /\ first = {}
  /\ previous = [s \in Streams |-> None]
  /\ wire = [s \in Streams |-> <<>>]
  /\ pc = [i \in Objects |-> "idle"]
  /\ at = [i \in Objects |-> None]
  /\ resets = [s \in Streams |-> 0] /\ pauses = 0
  /\ ending = "no" /\ endingAt = None /\ done = -1

-----------------------------------------------------------------------------
(* Parts of handlers.                                                      *)

\* Mutant of Less: no floor.
LessOne(n) == n - 1

\* decrementOpenStreamCount floors at zero.
Less(n) == IF n > 0 THEN n - 1 ELSE 0

\* activeVideoStreams.delete(alias) after dealing with stream s: a fault when
\* the entry is another stream's by now.
DropEntry(s) == entry' = None
Clobbers(s)  == IF entry \notin {None, s} THEN {"clobbered"} ELSE {}

Finish(i) == pc' = [pc EXCEPT ![i] = "done"] /\ at' = [at EXCEPT ![i] = None]

\* Opening a stream when unpublish() was called or the publication is gone is a
\* fault.
Late == IF published /\ ending = "no" THEN {} ELSE {"late"}

\* Mutant of StartOpen: every stream is the first of its group.
StartOpenAsFirst(i, count) ==
  /\ lastGroup' = IF published THEN GroupOf[i] ELSE lastGroup
  /\ \E s \in Streams :
       /\ stream[s] = "none" /\ \A u \in Streams : u < s => stream[u] # "none"
       /\ stream' = [stream EXCEPT ![s] = "creating"]
       /\ group' = [group EXCEPT ![s] = GroupOf[i]]
       /\ first' = first \cup {s}
       /\ pc' = [pc EXCEPT ![i] = "creating"]
       /\ at' = [at EXCEPT ![i] = s]
       /\ openCount' = count + 1

\* openSubgroupWithObject up to its await, with `count' streams counted open.
\* Over the limit, doCreateStream throws and sendSubgroupObject gives up.
StartOpen(i, count) ==
  LET g == GroupOf[i] IN
  /\ lastGroup' = IF published THEN g ELSE lastGroup
  /\ IF count >= MaxOpenStreams
     THEN Finish(i) /\ openCount' = count /\ UNCHANGED <<stream, group, first>>
     ELSE \E s \in Streams :
            /\ stream[s] = "none" /\ \A u \in Streams : u < s => stream[u] # "none"
            /\ stream' = [stream EXCEPT ![s] = "creating"]
            /\ group' = [group EXCEPT ![s] = g]
            /\ first' = IF published /\ lastGroup = g THEN first ELSE first \cup {s}
            /\ pc' = [pc EXCEPT ![i] = "creating"]
            /\ at' = [at EXCEPT ![i] = s]
            /\ openCount' = count + 1

\* writer.close() of stream s.
Close(s) == stream' = IF stream[s] = "open" THEN [stream EXCEPT ![s] = "closing"] ELSE stream

\* A write or a FIN on a stream that is gone rejects.
Gone(s) == stream[s] \in {"fin", "reset", "stopped"}

\* A FIN follows every write issued before it.
Unwritten(s) == \E i \in Objects : pc[i] \in {"first", "writing"} /\ at[i] = s

-----------------------------------------------------------------------------
(* sendObject().                                                           *)

MaySend(i) ==
  /\ pc[i] = "idle"
  /\ i > 1 => IF Serialized THEN pc[i - 1] = "done" ELSE pc[i - 1] # "idle"

PastFilterEnd(i) == EndGroup > 0 /\ GroupOf[i] > EndGroup

\* Past the End Group of a draft-18 filter: endAtFilterEnd sends PUBLISH_DONE,
\* which throws when the request's stream is gone.
SendPublishDone == done' = IF cancelled \/ done >= 0 THEN done ELSE opened

FilterEnds(i) ==
  /\ MaySend(i)
  /\ published /\ PastFilterEnd(i)
  /\ pc' = [pc EXCEPT ![i] = "ending"]
  /\ SendPublishDone
  /\ faults' = IF entry = None THEN faults ELSE faults \cup {"filter"}
  /\ UNCHANGED <<publication, entry, openCount, transport, at, resets, pauses, ending, endingAt,
                 cancelled>>

FilterEnded(i) ==
  /\ pc[i] = "ending"
  /\ published' = FALSE
  /\ Finish(i)
  /\ UNCHANGED <<forward, opened, lastGroup, expired, entry, openCount, transport, others, faults>>

\* No publication, a paused subscription, an object its filter leaves out, or
\* a group that lost an object to a delivery timeout: nothing is sent.
SkipObject(i) ==
  /\ MaySend(i)
  /\ published => ~PastFilterEnd(i)
  /\ Finish(i)
  /\ UNCHANGED <<publication, entry, openCount, transport, others, faults>>

Wanted(i) ==
  /\ MaySend(i)
  /\ published /\ forward /\ expired # GroupOf[i]
  /\ ~PastFilterEnd(i)

SendFirst(i) ==
  /\ Wanted(i) /\ entry = None
  /\ StartOpen(i, openCount)
  /\ faults' = faults \cup Late
  /\ UNCHANGED <<published, forward, opened, expired, entry, previous, wire, others>>

\* Another group: closeVideoGOPStream first, up to its await. close() of a
\* stream that is not open rejects at once.
SendNextGroup(i) ==
  /\ Wanted(i) /\ entry # None
  /\ group[entry] # GroupOf[i]
  /\ pc' = [pc EXCEPT ![i] = IF stream[entry] = "open" THEN "closing" ELSE "closed"]
  /\ at' = [at EXCEPT ![i] = entry]
  /\ Close(entry)
  /\ UNCHANGED <<publication, entry, openCount, group, first, previous, wire, others, faults>>

\* Same group: encode the object after the entry's previous one, and write. A
\* write to a stream that is not open rejects, with the reason it is not.
SendNextObject(i) ==
  /\ Wanted(i) /\ entry # None
  /\ group[entry] = GroupOf[i]
  /\ at' = [at EXCEPT ![i] = entry]
  /\ \/ /\ stream[entry] = "open"
        /\ pc' = [pc EXCEPT ![i] = "writing"]
        /\ wire' = [wire EXCEPT ![entry] = Append(@, [object |-> i, base |-> previous[entry]])]
     \/ /\ stream[entry] # "open"
        /\ pc' = [pc EXCEPT ![i] = IF stream[entry] = "stopped" THEN "stopped" ELSE "refused"]
        /\ UNCHANGED wire
  /\ UNCHANGED <<publication, entry, openCount, stream, group, first, previous, others, faults>>

\* The FIN is committed, or rejects: count the stream closed, open the next.
GroupClosed(i) ==
  LET s == at[i] IN
  /\ pc[i] = "closed" \/ (pc[i] = "closing" /\ Gone(s))
  /\ DropEntry(s)
  /\ StartOpen(i, Less(openCount))
  /\ faults' = faults \cup Clobbers(s) \cup Late
  /\ UNCHANGED <<published, forward, opened, expired, previous, wire, others>>

\* The stream exists. The object may have waited too long for it; otherwise
\* the stream becomes the entry, whatever the entry was, and is written to.
StreamCreated(i) ==
  LET s == at[i] IN
  /\ pc[i] = "creating"
  /\ opened' = IF published THEN opened + 1 ELSE opened
  /\ \/ /\ stream' = [stream EXCEPT ![s] = "open"]
        /\ wire' = [wire EXCEPT ![s] = <<[object |-> i, base |-> None]>>]
        /\ previous' = [previous EXCEPT ![s] = i]
        /\ entry' = s
        /\ faults' = faults \cup Clobbers(s) \cup Late
        /\ pc' = [pc EXCEPT ![i] = "first"]
        /\ UNCHANGED <<at, openCount, expired>>
     \/ /\ published
        /\ stream' = [stream EXCEPT ![s] = "discarded"]
        /\ openCount' = Less(openCount)
        /\ expired' = GroupOf[i]
        /\ Finish(i)
        /\ UNCHANGED <<wire, previous, entry, faults>>
  /\ UNCHANGED <<published, forward, lastGroup, group, first, others>>

\* The transport refuses the stream.
StreamRefused(i) ==
  LET s == at[i] IN
  /\ pc[i] = "creating"
  /\ stream' = [stream EXCEPT ![s] = "refused"]
  /\ openCount' = Less(openCount)
  /\ DropEntry(s)
  /\ faults' = faults \cup Clobbers(s)
  /\ Finish(i)
  /\ UNCHANGED <<publication, group, first, previous, wire, others>>

\* Mutant of ObjectWritten: the entry keeps the Object ID of its first object.
ObjectWrittenOnly(i) ==
  /\ pc[i] \in {"first", "writing"}
  /\ stream[at[i]] \in {"open", "closing"}
  /\ Finish(i)
  /\ UNCHANGED <<publication, entry, openCount, transport, others, faults>>

ObjectWritten(i) ==
  LET s == at[i] IN
  /\ pc[i] \in {"first", "writing"}
  /\ stream[s] \in {"open", "closing"}
  /\ previous' = [previous EXCEPT ![s] = i]
  /\ Finish(i)
  /\ UNCHANGED <<publication, entry, openCount, stream, group, first, wire, others, faults>>

\* A write rejects. The peer's STOP_SENDING moves the subgroup to a new stream,
\* any other reason, or a first write, drops the entry and the object.
StoppedByPeer(i) == pc[i] = "stopped" \/ (pc[i] = "writing" /\ stream[at[i]] = "stopped")

WriteFails(i) ==
  LET s == at[i] IN
  /\ pc[i] \in {"refused", "stopped"} \/ (pc[i] \in {"first", "writing"} /\ Gone(s))
  /\ DropEntry(s)
  /\ \/ /\ StoppedByPeer(i)
        /\ StartOpen(i, Less(openCount))
        /\ faults' = faults \cup Clobbers(s) \cup Late
     \/ /\ ~StoppedByPeer(i)
        /\ Finish(i)
        /\ faults' = faults \cup Clobbers(s)
        /\ UNCHANGED <<openCount, lastGroup, stream, group, first>>
  /\ UNCHANGED <<published, forward, opened, expired, previous, wire, others>>

-----------------------------------------------------------------------------
(* The transport and the peer.                                             *)

FinCommitted(s) ==
  /\ stream[s] = "closing" /\ ~Unwritten(s)
  /\ stream' = [stream EXCEPT ![s] = "fin"]
  /\ UNCHANGED <<publication, entry, openCount, group, first, previous, wire, calls, others, faults>>

\* The subgroup delivery timeout resets a stream whose FIN is not committed.
FinTimesOut(s) ==
  /\ stream[s] = "closing"
  /\ stream' = [stream EXCEPT ![s] = "reset"]
  /\ UNCHANGED <<publication, entry, openCount, group, first, previous, wire, calls, others, faults>>

PeerStops(s) ==
  /\ stream[s] \in {"open", "closing"}
  /\ stream' = [stream EXCEPT ![s] = "stopped"]
  /\ UNCHANGED <<publication, entry, openCount, group, first, previous, wire, calls, others, faults>>

\* Mutant of StartReset: the entry goes, the stream is not reset.
StartResetOfEntry ==
  /\ resets' = IF entry = None THEN resets ELSE [resets EXCEPT ![entry] = @ + 1]
  /\ UNCHANGED stream

\* resetPublicationStream up to its await.
StartReset ==
  IF entry = None
  THEN UNCHANGED <<stream, resets>>
  ELSE /\ resets' = [resets EXCEPT ![entry] = @ + 1]
       /\ stream' = IF Gone(entry) THEN stream ELSE [stream EXCEPT ![entry] = "reset"]

\* The abort resolved: count the stream closed, delete the track's entry.
ResetDone(s) ==
  /\ resets[s] > 0
  /\ resets' = [resets EXCEPT ![s] = @ - 1]
  /\ openCount' = Less(openCount)
  /\ DropEntry(s)
  /\ faults' = faults \cup Clobbers(s)
  /\ UNCHANGED <<publication, transport, calls, pauses, ending, endingAt, done, cancelled>>

\* A REQUEST_UPDATE with FORWARD 0, and one with FORWARD 1.
PeerPauses ==
  /\ published /\ forward /\ pauses < MaxPauses
  /\ forward' = FALSE
  /\ pauses' = pauses + 1
  /\ StartReset
  /\ UNCHANGED <<published, opened, lastGroup, expired, entry, openCount, group, first, previous,
                 wire, calls, ending, endingAt, done, cancelled, faults>>

PeerResumes ==
  /\ published /\ ~forward
  /\ forward' = TRUE
  /\ UNCHANGED <<published, opened, lastGroup, expired, entry, openCount, transport, calls,
                 others, faults>>

\* The peer cancels the subscription: endRequest.
PeerCancels ==
  /\ published /\ ~cancelled
  /\ cancelled' = TRUE
  /\ published' = FALSE
  /\ StartReset
  /\ UNCHANGED <<forward, opened, lastGroup, expired, entry, openCount, group, first, previous,
                 wire, calls, pauses, ending, endingAt, done, faults>>

-----------------------------------------------------------------------------
(* unpublish(), which waits for no sendObject() that is under way.         *)

\* sendPublishDone counts the streams opened so far, and unpublish() then
\* awaits its write. Streams that are still used are the fault of the calls.
StartPublishDone(open) ==
  /\ ending' = "writing"
  /\ SendPublishDone
  /\ faults' = faults \cup (IF \E i \in Objects : pc[i] \notin {"idle", "done"} \/ open
                            THEN {"late"} ELSE {})

\* Mutant of Unpublish: the open subgroup is left open.
UnpublishOnly ==
  /\ ending = "no" /\ published
  /\ StartPublishDone(FALSE)
  /\ UNCHANGED <<publication, entry, openCount, transport, calls, resets, pauses, endingAt,
                 cancelled>>

Unpublish ==
  /\ ending = "no" /\ published
  /\ endingAt' = entry
  /\ \/ /\ entry = None
        /\ StartPublishDone(FALSE)
        /\ UNCHANGED stream
     \/ /\ entry # None
        /\ ending' = IF stream[entry] = "open" THEN "closing" ELSE "closed"
        /\ Close(entry)
        /\ UNCHANGED <<done, faults>>
  /\ UNCHANGED <<publication, entry, openCount, group, first, previous, wire, calls, resets, pauses,
                 cancelled>>

LastGroupClosed ==
  /\ ending = "closed" \/ (ending = "closing" /\ Gone(endingAt))
  /\ openCount' = Less(openCount)
  /\ DropEntry(endingAt)
  /\ StartPublishDone(entry \notin {None, endingAt})
  /\ UNCHANGED <<publication, transport, calls, resets, pauses, endingAt, cancelled>>

PublishDone ==
  /\ ending = "writing"
  /\ ending' = "yes"
  /\ published' = FALSE
  /\ endingAt' = None
  /\ UNCHANGED <<forward, opened, lastGroup, expired, entry, openCount, transport, calls, resets,
                 pauses, done, cancelled, faults>>

-----------------------------------------------------------------------------
\* What settles by itself: the continuation of an await.
Local ==
  \/ \E i \in Objects :
       GroupClosed(i) \/ StreamCreated(i) \/ StreamRefused(i) \/ ObjectWritten(i) \/ WriteFails(i)
       \/ FilterEnded(i)
  \/ \E s \in Streams : FinCommitted(s) \/ ResetDone(s)
  \/ LastGroupClosed \/ PublishDone

Application ==
  \E i \in Objects : FilterEnds(i) \/ SkipObject(i) \/ SendFirst(i) \/ SendNextGroup(i) \/ SendNextObject(i)

Next ==
  \/ Local \/ Application \/ Unpublish
  \/ \E s \in Streams : FinTimesOut(s) \/ PeerStops(s)
  \/ PeerPauses \/ PeerResumes \/ PeerCancels

Spec == Init /\ [][Next]_vars

-----------------------------------------------------------------------------
(* Properties.                                                             *)

\* No continuation is pending.
Quiet ==
  /\ \A i \in Objects : pc[i] \in {"idle", "done"}
  /\ \A s \in Streams : resets[s] = 0
  /\ ending \in {"no", "yes"}
  /\ \A s \in Streams : stream[s] # "closing"

\* Each object on a stream is encoded relative to the object before it, so the
\* receiver decodes the Object IDs that were sent (existing.previousObjectId).
DeltasDecode == \A s \in Streams : \A k \in DOMAIN wire[s] :
  wire[s][k].base = IF k = 1 THEN None ELSE wire[s][k - 1].object

\* Two streams that were neither reset nor stopped carry objects of one group.
Spans(s, u) ==
  /\ s # u /\ group[s] = group[u]
  /\ wire[s] # <<>> /\ wire[u] # <<>>
  /\ stream[s] \notin {"reset", "stopped"} /\ stream[u] \notin {"reset", "stopped"}

\* When the sends of a track are serialised, a subgroup is one stream: another
\* one carries its objects only after the first was reset or stopped, unless
\* the continuation of an await deleted the entry of a stream it did not close,
\* or a send overlaps the end of the subscription.
OneStreamPerSubgroup ==
  faults \cap {"clobbered", "late"} = {} => \A s, u \in Streams : ~Spans(s, u)

\* FIRST_OBJECT is on at most one stream of a group, the earliest, while the
\* publication is there to remember the group (lastStreamGroup).
FirstObjectOnce == "late" \in faults \/
  \A s, u \in Streams : s < u /\ group[s] # None /\ group[s] = group[u] => u \notin first

\* When no send overlaps the end, PUBLISH_DONE counts every stream the
\* transport opened for the track, and every one has ended.
DoneIsFinal == done >= 0 /\ Quiet /\ faults = {} =>
  /\ Held = {}
  /\ done = Cardinality({s \in Streams : stream[s] \notin {"none", "refused"}})

\* "The publisher resets every open stream of a cancelled subscription"
\* (session.ts:1678).
CancelResetsStreams == cancelled /\ Quiet => Held = {}

\* "A running count of streams we've opened via doCreateStream that have not
\* yet been observed as closed/aborted" (session.ts:744); a stop is observed by
\* the next write.
SlotsReturned == Quiet =>
  openCount = Cardinality(Held \cup {s \in Streams : stream[s] = "stopped" /\ entry = s})

\* "objects of a subgroup MUST NOT span streams" (session.ts:6425), of objects
\* sent without waiting for each other, as audio is.
SubgroupsDoNotSpan == \A s, u \in Streams : ~Spans(s, u)

\* "the next group finishes it with a FIN" (session.ts:6427): no stream is left
\* open for good, here at the end of the subscriber's filter.
FilterEndFinishesStream == done >= 0 /\ Quiet /\ faults \subseteq {"filter"} => Held = {}
=============================================================================
