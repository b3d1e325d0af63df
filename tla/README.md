# moq-web: a verification development

TLA+ models of the stateful parts of moq-web, a MOQT client (draft-14/16/18/22)
in TypeScript, with the TLC configurations that check them and TLAPS proofs.
Paths are relative to the repository's root; `session.ts` is
`packages/session/src/session.ts`.

The code is single threaded: what interleaves is the code between two awaits.
Every module follows one convention: **an action is the code a handler runs
between two awaits**, and what it awaits (a write, a stream, an answer, an
abort) settles in an action of its own, in any order the promises allow.

## Inventory

| part (package) | state | operations | what is hard |
|---|---|---|---|
| **Requests we send** (session, `MOQTSession`) | `activeRequestStreams`, `outgoingRequests`, `pendingRequestUpdates`, `namespaceSubscriptions`, `goAwayStreams` | subscribe, publish, fetch, trackStatus, subscribeNamespace, subscribeTracks, announceNamespace, sendRequestUpdate and their cancels; one reader per stream | five ways a stream ends, each racing answers and timeouts; answers matched by position only; a violation closes the whole session |
| **Announcements and the peer's SUBSCRIBE_NAMESPACE** (session) | `announcedNamespaces`, `IncomingNamespaceSubscriptions` | announceNamespace, cancelAnnounce, accept/update/end of a request, notices | many loops over changing maps, with an await in each turn |
| **Publishing** (session, `PublicationManager`) | `activeVideoStreams`, `openStreamCount`, publication (`forward`, `streamsOpened`, `expiredGroup`, ...) | sendObject, resetPublicationStream, unpublish, forward state, delivery timeouts | one entry per track shared by overlapping sends, resets and timers |
| Requests the peer sends (session) | `incomingRequestKinds`, publications, subscriptions | SUBSCRIBE, PUBLISH, FETCH, TRACK_STATUS handlers, REQUEST_UPDATE, PUBLISH_DONE, FILL | checks before an await, entries after it; limits; duplicates |
| Subscriptions (session, `SubscriptionManager`) | by id, by alias, by name; retire timers | subscribe, alias assignment, pause, drain, removal | PUBLISH_DONE against FIN, shared aliases, drain timers |
| Session lifecycle (session, core `state-machine.ts`) | session state, GOAWAY state, replay list | setup, GOAWAY, migrate, idle close, close, reconnect | re-entrance, migration while objects still flow |
| Object router (session) | active subgroup/fetch streams, alias table | data streams, datagrams, cancels | data before its alias; decode state per stream; stop of a stream in use |
| Delivery timeouts, location filters (session) | timers by key | arm, disarm, expire; resolve, admit | a timer for a stream that was replaced |
| Transport worker (session/workers) | pending creations | createStream, write, close, abort by message | answers that never come |
| Core structures (core) | ring buffers, track manager, priority scheduler, stream and datagram managers | push/pop, scheduling, acquisition | boundaries and limits |
| Transport, codecs (core) | - | I/O, byte formats | left to the repository's tests and fuzzers |
| Playout (media/pipeline) | groups, deadlines, active group | add frame, release, skip, catch up | late, incomplete and reordered groups |
| Pipelines, reorder, backpressure (media) | queues | push, flush, hysteresis | limits, order |
| Media session (media) | publications, queues | publish, unpublish, close | unserialised sends, shared sessions |
| VOD, ABR, trick play (media) | fetch window, retries, quality | load, seek, retry, switch | late answers to an old window |
| MSF catalogs (msf) | catalog, pending deltas | apply, generate, follow | lost and repeated deltas |
| CAT, secure objects, LOC, app kit, demos | - | tokens, cryptography, packaging, user interface | not modelled: formats and arithmetic on bytes |

The parts meet in `MOQTSession`: the object router and the managers are tables it
owns, `MediaSession` and the MSF session call it and listen to its events, and
the transport (direct or by a worker) calls back into it.

What makes each part correct, in a line: no conforming peer is ever accused; a
promise settles once, with its own answer; what a peer was told is what is true;
what is on the wire decodes; every stream that was opened is ended and counted;
limits hold without leaking; frames come out in order.

## Modules

| module | models | extends |
|---|---|---|
| `RequestStreams` | the streams of the requests we send | |
| `RequestStreams_proofs` | its theorems | RequestStreams, TLAPS |
| `NamespaceNotices` | announcements against the peer's SUBSCRIBE_NAMESPACE requests | |
| `NamespaceNotices_proofs` | its theorems | NamespaceNotices, SequenceTheorems, TLAPS |
| `Publisher` | the subgroup streams of one published track | |
| `Publisher_proofs` | its theorems | Publisher, FiniteSetTheorems, TLAPS |
| `Subscriber` | our subscriptions, their aliases and data, and their end | StateMachine (refined) |
| `Subscriber_proofs` | its theorems | Subscriber, TLAPS |
| `PeerRequests` | the requests the peer makes of us | |
| `PeerRequests_proofs` | its theorems | PeerRequests, FiniteSetTheorems, TLAPS |
| `SessionLifecycle` | setup, GOAWAY, close, migrate and the transport worker | |
| `SessionLifecycle_proofs` | its theorems | SessionLifecycle, TLAPS |
| `VodFetch` | the fetch controller of VOD playback | |
| `VodFetch_proofs` | its theorems | VodFetch, FiniteSetTheorems, SequenceTheorems, WellFoundedInduction, TLAPS |
| `Playout` | the playout buffer of live video, its policy and its decoder | |
| `Playout_proofs` | its theorems | Playout, WellFoundedInduction, TLAPS |
| `StateMachine` | the core state machines, as an abstract specification | |
| `MC...` | the constants of the runs | the module they check |

Operators marked "Mutant of ..." in a module are not part of the model: each is a
plausible bug, and a property listed with it in PROJECT.json fails when it
replaces the operator it is a mutant of.

### RequestStreams

One request stream per Request ID. `active` is the key set of
`activeRequestStreams` (and of `outgoingRequests`); `call` is the continuation of
the API call, `reader` the loop that awaits `readMessage`, `pending` and
`outcome` the queue and the promises of `sendRequestUpdate()`. What arrived and
was not read is `inbox`. `ForgetStream` is what `closeRequestStream` and
`abortRequestStream` do before their await. Reading distinguishes the first
response (`acceptFirstResponse`), the reader's dispatch (`dispatchStreamMessage`
with `INBOUND_ON_OUR_REQUEST`) and the end of the stream. The peer may answer,
announce, send GOAWAY, end or cancel at any time, and once per request it may send
anything at all, after which the request is in `rude`. Messages keep only their
type and, for NAMESPACE and NAMESPACE_DONE, the suffix. A MediaSession that is
closed on a session it shares is `RemoveNamespaceSubscription`.

### NamespaceNotices

`entry` is `announcedNamespaces`; `established`, `prefix` and `known` are the
entries of `IncomingNamespaceSubscriptions`. Each call of the application and
each request's handler is a thread that records a change (`Notify`, which is
`record()` and the first write) and then writes the rest one await at a time
(`KeepTelling`). The loops over the live Map are `ListNext`/`ListEnds` with the
set of names passed. `told` is what the peer makes of the notices: it reads a
suffix after the prefix it asked for last. Requests touched by two known races
(overlapping prefixes accepted at once; a notice recorded while a prefix update
is being answered) are put in `disturbed`, and the properties of the passing run
leave them out; the second race has a run of its own.

### Publisher

One track. `entry` is its entry in `activeVideoStreams`, `stream`, `group`,
`first`, `previous` and `wire` describe each stream, `pc` is how far each
`sendObject()` is. Streams are created, written, finished and aborted
asynchronously: `creating`, `closing` and `resets` are awaits that settle later.
`faults` is history: `clobbered` when a continuation deletes or replaces the
entry of a stream it does not know (resetPublicationStream, openSubgroupWithObject),
`late` when a send overlaps the end of the subscription, `filter` when the
subscriber's filter ends while a subgroup is open. The properties of the passing
run say what holds without those faults; each has its own hazard and most their
own run. The model is that of the main-thread transport; in worker mode writes
and closes are not awaited at all.

### Subscriber

The `SubscriptionManager`'s three tables (`subs`, `byAlias`, `byName`), the drain
timers, and `stage`, how far each request is on our side. A request is a SUBSCRIBE of
ours or a PUBLISH of the peer's; answers, PUBLISH_DONE and ends come on its request
stream (`toUs`), objects on data streams and in datagrams that name it by its Track
Alias alone. `unsubscribe()`, `acceptTrackAlias`, `resolveDuplicatePublish`,
`retireSubscription`, `failSubscription`, `deleteSubscriptionState` and
`cancelMalformedTrack` are actions or their parts, up to their awaits. The peer is the
publisher and keeps to the protocol; which alias it gives to which request is the constant
`Alias`. `missed` is history: the owners of objects dropped while subscribed. `Life`
maps `stage` to the states of the subscription state machine.

### PeerRequests

A request of the peer is `job`; `step` is where its handler or its reader is, `toPeer`
what we wrote on its stream in the order of the calls, and `registered`, `kinds`, `pubs`
and `prefix` are the tables of the session. A handler checks and begins to write
(`ReadRequest`), and adds the request to the tables when the write is done
(`RequestAccepted`). Three callers may send PUBLISH_DONE (`ending`), each with the write
and the close to await. A STOP_SENDING of the peer fails whatever awaits a write.
`raced` is history: the requests that were being answered when a request was checked.

### SessionLifecycle

Two threads and the messages between them: the session (`state`, `machine`, the flags of
its control stream, the calls of `setup()`, `close()`, `migrate()` and the auto-migrate
loop) and the worker (`link`, the `disconnect()` that awaits its streams). `handlers`
counts how often the worker's events were subscribed to; each message is handled once by
each (`heard`). A continuation that nothing can precede runs before the next message
(`Microtask`). `Failed` is what a `migrate()` that throws leaves to its caller and to the
loop.

### VodFetch

`VodFetchController` with `LegacyFetchStrategy`. `fetches` is `activeFetches` in the order
of the Map; every report of the application (`GroupReceived`, `FetchComplete` in its four
cases, `FramePlayed`, `FrameConsumed`) ends with `MaybeIssue`. `Seek` cancels all. The
download speed is reduced to `slow`, and is infinitely slow after a fetch without a
group, as the code computes it. The application and its player are external.

### Playout

`buffer` is the `PlayoutBuffer` with the pending skip of its `LiveReleasePolicy`, one record
so that the stages of a step can be functions of it. A frame is a group and an Object ID; time is
what has passed at a step: `ripe` that the keyframe a skip is to is past the jitter delay, `due`
the groups whose deadlines are past, `pressing` that the deadline by which a missing frame is
waited for is near. `AddFrame` is `addFrame()` with `onFrameAdded()` and perhaps
`executeSkipToLatest()`; `Poll` is one `processBuffers()`: `tick()`, `updateGroupStates()`,
the frames `getReadyFrames()` releases (any number, since the batch and the jitter delay cut
it anywhere), `checkGroupCompletion()` and the group check of `H264Decoder.decode`. `faults`
is history: a group came `late`, before the one played; a poll gave the decoder the wrong
group as the `label`.

### StateMachine

The transition tables of `packages/core/src/connection/state-machine.ts` and one step of a
set of machines: each stays or takes a transition of the table. It is instantiated by
`Subscriber`. The session does not implement the connection table: `setState` forces the
machine when the table refuses, and `close()` assigns the state past it (see below).

## Runs

| run | result | shows |
|---|---|---|
| RequestStreams | passes | safety and liveness of the request streams |
| NamespaceNotices | passes | the peer's view agrees with what is announced, and a matching request is told |
| Publisher | passes | deltas decode, one stream per subgroup, FIRST_OBJECT once, PUBLISH_DONE final |
| Subscriber | passes | the alias table follows the subscriptions; no established object is dropped; nothing is left over |
| SubscriberEnds | passes | the subscription state machine is implemented; what the peer ended is let go |
| Drain | violated | the FIN after a PUBLISH_DONE ends the drain at once |
| SessionLifecycle | passes | migrate, close, setup and the worker never wait for one another in vain |
| DoubleHandlers | violated | after a migration a conforming peer is accused |
| PeerRequests | passes | answers in order, tables that agree, nothing left over |
| VodFetch | passes | no group fetched twice or passed over, completed only at the end, buffering ends |
| Playout | passes | frames in order from keyframes on, none dropped by the decoder, playback moves on |
| VodAbandoned | violated | after one range is given up nothing more is fetched |

A violated run checks one sentence the repository says of itself (quoted in
PROJECT.json `findings`) and finds a behaviour of the code that contradicts it.

### Other disagreements met

Each of these is a property of a module that TLC finds violated when it is put in place of
the properties of the module's configuration, with the constants named. They are kept
beside the model but not among the runs.

| property | constants | what happens |
|---|---|---|
| `RequestStreams!OnlyRudePeersAccused` | one "subscribe-namespace", `SharedSession` | a closed MediaSession forgets its SUBSCRIBE_NAMESPACE without cancelling it; the peer's next NAMESPACE closes the shared session |
| `RequestStreams!TimeoutSettles` | one "track-status", `SilentPeerSpec` | a timeout that fires while the stream is created cancels nothing, and the call waits for ever |
| `NamespaceNotices!NoticesAlwaysMakeSense` | as in the run | a notice recorded while a prefix update is answered carries the suffix after the old prefix |
| `NamespaceNotices!WithdrawnIsCancelled` | as in the run | cancelAnnounce() during announceNamespace() cancels no request |
| `Publisher!CancelResetsStreams` | as in the run | a subscription cancelled while a subgroup stream is created leaves that stream open: nothing finishes or resets it |
| `Publisher!SlotsReturned` | as in the run | a first write that rejects never gives its slot back |
| `Publisher!SubgroupsDoNotSpan` | `Serialized = FALSE` | two audio objects sent at once open two streams for a subgroup |
| `Publisher!FilterEndFinishesStream` | as in the run | the last subgroup before the filter's end is never finished |
| `Subscriber!NoEstablishedDrop` | `Draft22 = TRUE`, one alias per track | of two subscriptions with one alias the end of the last leaves the other without a route |
| `PeerRequests!DoneIsLast` | as in the run | two PUBLISH_DONEs, or an answer after one, on one stream |
| `PeerRequests!PrefixesDisjoint` | as in the run | two overlapping SUBSCRIBE_NAMESPACEs checked before either is added |
| `SessionLifecycle!MirrorAgrees` | as in the run | `close()` assigns the state without the state machine |
| `SessionLifecycle!ReadyIsLinked` | as in the run | a SETUP read after the connection closed makes the session ready |
| `SessionLifecycle!SetupHeard` | `PromptSetup = FALSE` | a SETUP before the first setup() has no handler and is lost |
| `Playout!LabelsRight` | as in the run | a poll that promotes a group gives its frames the group before, and the decoder drops the group's deltas |
| `Playout!GraceKept` | as in the run | `tick()` executes a pending skip whatever number of frames was to be waited for |
| `Playout!NoneRevived` | as in the run | once a group was late, a skip that is ripe only after its group was left goes back to it |
| `Playout!NoFreeze` | `PunctualSpec` | a frame that comes after its gap was passed over is never released, and its group never left |

Reading the code for the models brought up more of the kind, which no property states: a
fetch that brings some bytes and no whole group resets the retry count before it is read, so
it is retried without end (the model counts it as a loss); with fewer groups left than the
threshold asks for, VOD buffering never ends (the run has `MinGops = 1`); a driver that uses
`onFrameConsumed()` alone never moves `playbackGroup`, and its playback ends in
rebuffering; a PUBLISH of a track whose earlier subscription is draining is refused as a
duplicate in draft-18; `goAwaySent` is set after the GOAWAY is written, so a request
read meanwhile is served; `incomingRequestKinds` keeps an entry for a subscription ended by
FIN until its PUBLISH_DONE; `LiveReleasePolicy` releases frames while paused, though
`release-policy.ts` says that a paused policy returns none.

### Bounds

- RequestStreams: one request, chosen among all seven kinds in the initial state.
  Requests share no state but `closed`, so a second adds interleavings and no
  behaviour. Four updates with a limit of two: the limit is met, an update can be
  refused by it, a queue of two lets answers meet the wrong update, and two more can be
  sent after the peer refused the first two. Two
  suffixes, so that one can be active while the other goes. An inbox of two
  messages, so that the peer is ahead of the reader by more than one.
- NamespaceNotices: two requests, an announcement and its cancel for one
  namespace, one prefix update per request. Every race is between two threads and a
  request, and a prefix only matters by whether it matches the namespace and overlaps
  the other: of three prefixes two match and overlap, and one of these overlaps the
  third, so an update can move to, from and between prefixes that match.
- Publisher: five objects in three groups, three in the first and the last past the
  filter's end; three streams, two of which may be open at once, one pause. Three
  objects of a group give a delta that follows a delta, and each order of "first" and
  "later" object; the limit of two open streams is met by leaked slots. A send that
  would need a fourth stream is not continued, so states after it are not explored.

- Subscriber: two SUBSCRIBEs of ours and one PUBLISH of the peer for one track, a data
  stream with one unread object, at most two subscriptions at once: the pairs that can
  meet are two of ours, and one of ours with one of the peer's, and the limit is reached.
  Aliases are per request. SubscriberEnds has one of each and two tracks that are given one
  alias, so that the clash that closes the session occurs. Both have draft-18's rules, where
  the peer's PUBLISH meets a pending SUBSCRIBE.
- PeerRequests: two requests over every kind, three prefixes of which two overlap, one
  update each and one publication at most: what a handler reads of the tables is whether
  some other request is in them.
- SessionLifecycle: two connections that the peer may close, a GOAWAY on the first, two
  attempts of the loop and one call by the application. That brings every pair of
  close(), migrate() and loop, a stale message of the first connection during the second, and a
  loop that gives up. More connections repeat the second.
- VodFetch: an estimate of five groups for content of three or of five, two of them for the
  first buffer, three losses (as many as give up a range) and one seek, two concurrent fetches.
  With content shorter than the estimate, fetches under way and retries reach past its end. VodAbandoned needs content that goes
  further than four times the first buffer: six groups and a buffer of one.
- Playout: three groups of one, three and two frames in a buffer of two, a grace of two
  frames, with and without the skip to the latest group. A group can be before, at and after
  the one played; the second has a delta between two frames to be missing; a third group makes
  the buffer prune, and a group that was pruned can come again. The batch of a poll (5 or 15
  frames) is never reached by one group, but any cut of it is explored.

### Fairness

`FairSpec` of RequestStreams and NamespaceNotices has weak fairness of what the event
loop does by itself: a promise that settled is continued, a granted stream or an
issued write settles, what arrived is read. RequestStreams adds strong fairness of
the peer answering or ending the stream (strong because its other messages can
fill the inbox in between); `SilentPeerSpec`, of `TimeoutSettles`, leaves that out, since
a timeout is for a silent peer. Nothing makes the application act. The runs of
Publisher and PeerRequests check safety only.

Subscriber: our reader, our awaits and our timers; nothing of the peer, so
`EndedIsForgotten` starts when the peer's end was sent. SessionLifecycle: both threads run
while they have something to do, the worker's connection attempt ends and the timer of
setup() fires; the application and the peer are free. VodFetch: the relay delivers or ends
the oldest fetch and the player plays what it has, which is what drives the controller.
Playout: the timer of the pipeline polls for ever, and again and again late enough for the
deadlines and the jitter delay of what is there (`LatePoll`): both are finite, and arrivals in the
model are finitely many between resets. `PunctualSpec`, of `NoFreeze`, adds polls just before
deadlines, so that the freeze it shows is not one of unlucky polls.

## Proofs

`RequestStreams_proofs`, for every set of requests, kinds and suffixes and every
bound allowed by `RequestStreamsAssumption`:

- `TypeCorrect`: `Spec => []TypeOK`, one step per action; the parts shared by
  handlers (FailPendingUpdates, ForgetStream, EndRequest, SettleRequestUpdate) are
  lemmas.
- `UpdateQueueCorrect`: `Spec => []UpdateQueueSound`. `UpdateQueueSound` is inductive
  with `TypeOK`: an update is pending exactly when it is queued, the queue is sorted,
  and a queue that is not empty is of an active stream. The sorting is needed: without
  it, taking the head could leave a second copy of an update behind, which would then
  be queued and settled. Only three parts of handlers touch the queue, and each has a
  lemma.
- `UpdatesSettleOnce`: `Spec => SettledOnce`, from the same invariant: every handler
  only moves updates that are pending or unsent.
- `ConformingPeerNotAccused`, `UpdatesAgreeWithPeer` and `NamespacesAgreeWithPeer`
  (`NoFalseViolation`, `UpdatesAgree`, `NamespacesAgree`). They relate two sides that are
  apart by what is in the inbox, and none is near inductive. The invariant comes in two
  layers. `SessionInv` holds whatever the peer does: what the tables keep of a request goes
  with the continuation of its call, and nothing is kept of a stream that is closed
  (`Bookkeeping`, `Phase`, `Forgotten`); no peer, answer or update is before its time
  (`NotYet`). `PeerInv` holds of every request on which the peer kept to the protocol: the
  response comes first, nothing but the end after a refusal, and the end last (`Ordered`);
  one GOAWAY (`OneGoAway`); the namespaces the peer counts are those announced once the
  inbox is read, and a NAMESPACE_DONE is for one announced by then (`Ledger`); the peer
  decides in the order of sending (`Verdicts`); and the REQUEST_OKs on the way can be
  matched, in order, to accepted updates that still wait (`Answering`). The match is what
  makes taking the head of the queue right: the first REQUEST_OK has an accepted update at
  or behind the head, so by `Verdicts` the head is accepted.
- A step of the session is one of four on a stream that is open after it (`Opens`, `Goes`,
  `Halts`, `Reads`), and one of the peer is an arrival or an end that cuts what it
  overtakes (`Arrives`, `Cut`), so that each part of `PeerInv` is proved against these and
  not against every action.
- The attempt to prove `UpdatesAgree` showed that an earlier form of `PeerLimitKept` was
  false, and three updates were too few for the run to see it: after a REQUEST_ERROR, read
  but not yet followed by the end of the stream, the session sends up to its limit again,
  and the peer, whose request has ended, answers none. The property now speaks of a peer
  that refused no update, and the run has four.

`NamespaceNotices_proofs`, for every set of requests, calls, namespaces and prefixes
allowed by `NamespaceNoticesAssumption`:

- `TypeCorrect`: `Spec => []TypeOK`.
- `NoticesCorrect` and `ViewCorrect`: `Spec => []NoticesMakeSense` and
  `Spec => []ViewAgrees`. Neither is inductive. What is, is `NoticesSound`: besides the
  types it relates, for each request, its phase, its stream and its registration
  (`PhaseSound`), what the peer was told and what the record says it was told
  (`ToldSound`), and the record and the announced namespaces, a loop in progress
  included (`RecordSound`). The argument is that two prefixes of one namespace overlap
  (`MatchingPrefixesOverlap`), so that of the requests a change concerns an undisturbed
  one is the only one; its notice is then the first of its loop, written in the step
  that records it (`NotifyKeepsTold`), and a notice that has to wait is never to an
  undisturbed request (`KeepTellingKeepsSound`). The suffix of a notice restores the
  namespace because the peer's prefix and ours agree outside an update
  (`SuffixRestores`).

`Publisher_proofs`, for any objects, limits, filter and number of pauses allowed by
`PublisherAssumption`:

- `TypeCorrect`: `Spec => []TypeOK`. Not inductive alone: that the resets under way on
  a stream stay below their bound needs that each has a cause, a pause or the cancel
  (`ResetsBounded`), and a call under way needs a stream (`CallsHaveStreams`).
- `DeltasCorrect`: for serialised sends, `Spec => []DeltasDecode`. The invariant adds
  that at most one object is being sent (`InTurn`) and that the entry has the last
  object on its stream unless that object is being written (`WireSound`). A step either
  writes nothing and keeps or drops the entry (`QuietStep`), or is one of
  `SendNextObject`, `StreamCreated` and `ObjectWritten`. The assumption is needed: of
  two objects sent at once, both are encoded after the same one.
- `SubgroupsCorrect` and `FirstObjectCorrect`: for serialised sends of objects whose groups
  ascend (`GroupsAscend`: the application sends a group after the one before it),
  `Spec => []OneStreamPerSubgroup` and `Spec => []FirstObjectOnce`. The second assumption is
  needed: the publication remembers one group (`lastGroup`), so one that comes back gets a
  second "first" stream. Neither is inductive. What is: an open stream is the track's entry
  (`OpenIsEntry`); no stream is of a later group than the publication's, and no object to come
  of an earlier one (`GroupsPassed`); what was finished with a FIN is of a group that is over
  (`ClosedPassed`). A stream created for a group can then meet no live one of it: an open one
  would be the entry, and replacing that is a fault; a finished one is of an earlier group.
  These rest on what each continuation finds when it resumes (`Tables`, `CallsSettled`).
- `DoneCorrect`: for serialised sends in any order of groups, `Spec => []DoneIsFinal`.
  `streamsOpened` counts the streams the transport made (`OpenedCounted`), and after a
  PUBLISH_DONE that nothing overlapped nothing is open, being sent or able to begin
  (`DoneSettled`). A stream that is being created when all is quiet would have a call
  (`CallsSettled`), an open one would be the entry.
- The steps are split by who takes them: sendObject() of one object, while no other call
  moves (`SendAlone`), or the peer, the transport and unpublish(), which only retire streams
  (`OtherEffects`).

`Subscriber_proofs`, for every set of requests, tracks, streams and aliases:

- `TypeCorrect`: `Spec => []TypeOK`. Not inductive alone: what the peer has not asked for
  has not begun (`Known`), and a name or a data stream leads to a request it has asked for
  (`Owned`).
- `ImplementsStateMachine`: `Spec => LivesOnce`, the refinement of `StateMachine`. Every
  step moves each request along its stages or not at all (`StagesStep`), and each such
  move is a transition of the table or a stutter.
- `NothingOrphaned` and `StreamsAreStopped`: from `Agree`, which relates what is
  subscribed to its stage, its timer and its alias (`Held`), the names (`NamesHeld`) and
  the routes (`Routes`). `Remove`, `Retire` and the rest of what every end shares are
  lemmas, so that each action is its guard and one of them.
- `RouteTableHolds` and `NothingDropped` assume `OneAliasEach`: no Track Alias is given to
  two requests. A publisher of this code base keeps to it (`nextPublicationAlias`), the
  protocol of draft-22 does not ask for it, and without it `NoEstablishedDrop` fails
  (above). Under it a route can only be of the subscription that set it (`Found`).

`PeerRequests_proofs`, for every set of requests and every bound:

- `TypeCorrect` and `TablesAlwaysAgree`: the invariant `AllKept`
  says of each request what its step has behind it (`Begun`), who may be ending it
  (`Leaving`) and what the tables hold for it (`Tabled`). Every action is of one request
  (`NextActions`) and leaves the others as they were (`OthersSame`), so that each is
  proved for its own request alone.
- `OverlapsOnlyByRace`: what is established is not enough, since a prefix is checked before
  it is added. The invariant `ClaimsRaced` is about claims: a prefix that is held, being
  accepted or being updated to.
- `AnswersAlwaysInOrder`: from `AllInOrder`, the shape of what was written (`Stream`) and
  the count of updates that are answered or wait to be read (`Balanced`), with lemmas on
  the places of a sequence that `Append` and `Tail` add and remove.

`SessionLifecycle_proofs`, for every number of connections, attempts and calls:

- `TypeCorrect`, `MigratingAlwaysEnds` and, from them, `CallsAlwaysAgree`: what a call or a
  message leaves to the others (`Failed`, `SetState`, `Receive`) are lemmas.
- `ConnectAlwaysAnswered`: a debt (`Debt`) is carried from the queue to the worker, to the
  connection it makes and to the answer queued; each step hands it on or pays it.
- `NotAccusedAtFirst` assumes `PromptSetup`: setup() was called before the peer's SETUP
  could come. The invariant `First` says that on the first connection each message of the
  peer is on its way or heeded, once, in order (`Lined`) and by one handler (`Heeded`), and
  that a second connection is counted before it is used (`Linking`). After a migration the
  property fails: DoubleHandlers.

`Playout_proofs`, for any groups, sizes and limits allowed by `PlayoutAssumption`:

- `TypeCorrect`, `OrderKept` and `DecoderKeepsUp` (`TypeOK`, `InOrder`, `DecoderFollows`), from
  `Typed` and `Sound`. As long as no group is late the buffer is `Good`: one group at most is
  active (`Lone`); a pending skip leads forward and not to a group that was left with its
  keyframe (`Aimed`), and no group that can be played is after it (`Latest`); the active group is
  played unless it is over, and then its keyframe has come (`Headed`); and what is held, has
  begun or has a keyframe has arrived (`Stocked`). `Aimed` is what makes a skip safe: without it
  `executeSkipToLatest()` could go back to a group playback has left, and `Latest` is what keeps
  `Aimed`. `Headed` and `Stocked` are needed because a group that is over can be pruned while it
  is still the active one: a frame of it that comes then begins it anew, but its keyframe does
  not come again, so it is never played.
- Every stage of a step keeps the buffer good and lets the active group stay or make way for a
  later one (`Kept`, `Carried`), so that the order of what came out (`Ordered`) and the group of
  the decoder (`Follows`) are carried through them to the one place where frames come out
  (`ReleasedOrdered`). The exceptions in the properties are needed: with a late group `Good`
  fails, and the run of `DecoderFollows` reaches wrong labels.

`VodFetch_proofs`, for every number of groups, buffer size, batch and limit allowed by
`VodFetchAssumption`:

- `TypeCorrect`, `FetchedOnceAlways` and `NothingMissedAlways` (`TypeOK`, `FetchedOnce`,
  `NothingMissed`), from one invariant: what the fetches have brought has come, what they have
  yet to bring has not, and no two share a group (`Sound`); what has come counts as fetched or is
  of a fetch under way (`Counted`); what was reached from the last seek on has come, is on its
  way, is unavailable or follows something that is (`Asked`); the player has passed only what
  has come or is unavailable (`Played`). `Counted` is what makes a new fetch ask only for groups
  that have not come, and so keeps `Sound`; that the frames buffered are no more than have come
  (`Room`) bounds the count. The lemmas follow the code: a list of fetches with one added,
  moved on or removed, and `MaybeIssue` after each report.
- The attempt to prove `NothingMissed` showed that an earlier form of `NoHole` was false for
  content shorter than its estimate: a retry is cut to the updated total, and the groups past
  the end are then asked for by nobody, rightly. TLC found the same with five groups for
  three, which is now in the bounds; `NoHole` speaks of groups of the content.

Not proved: liveness and fairness, which are beyond the prover. Every invariant of the
passing runs and every action property is a theorem.

## Not modelled, and why

Draft-14/16 requests share one control stream and are frozen in the code; the
draft-18/22 paths are the ones under development. `close()` and `migrate()` are modelled in
SessionLifecycle alone: in the other modules a session that closes stops, and what they
do to each table is not composed with them. Encodings, crypto and
user interface code are left to their tests. Track properties, redirects and
authorization tokens are decided from one message and change no shared state.

## Plan

Done: `RequestStreams`, `NamespaceNotices`, `Publisher`, `Subscriber` (with the object
router's way from a stream to its subscription), `PeerRequests`, `SessionLifecycle`,
`VodFetch` and `Playout`. Left, in order:

1. `TransportWorker`: the streams and datagrams of a connection by message, and a
   createStream() whose answer never comes.
2. `Catalog`: deltas against the catalog they were made for; `CoreStructures`: ring
   buffer, scheduler and acquisition against reference definitions over bounded inputs.
3. An abstract view (the peer's set follows the announced set) that NamespaceNotices
   implements outside the races.
4. Worker mode, audio and presentation order of the pipelines, the VOD release policy, live
   trick play and the ABR strategies of VOD.
