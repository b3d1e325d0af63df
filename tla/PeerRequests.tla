---------------------------- MODULE PeerRequests ----------------------------
(***************************************************************************)
(* The requests a peer makes of a draft-18/22 MOQTSession, each on a bidi  *)
(* stream of its own: processIncomingBidiStream, its handlers, the reader  *)
(* of an accepted request (readRequestStream, dispatchStreamMessage) and   *)
(* the ways such a request ends, in packages/session/src/session.ts.       *)
(*                                                                         *)
(* A handler decides, then awaits the write of its answer, and only then   *)
(* adds the request to the tables; the handlers of other requests run      *)
(* meanwhile.  The write of a message begins at the call, so messages      *)
(* leave a stream in the order of the calls, and settles later: it fails   *)
(* when the peer has stopped the stream.  The peer keeps to the protocol.  *)
(* What NAMESPACE notices an accepted SUBSCRIBE_NAMESPACE gets is the      *)
(* subject of NamespaceNotices, and a PUBLISH of the peer of Subscriber.   *)
(***************************************************************************)
EXTENDS Integers, Sequences, FiniteSets

CONSTANTS
  Requests,          \* requests of the peer
  Tracks,            \* tracks under the namespace we announce
  Prefixes,          \* namespace prefixes
  Jobs,              \* what the peer may ask for
  Overlap,           \* pairs of prefixes of which one is a prefix of the other
  MaxTracks,         \* maxTracks
  MaxUpdates,        \* bound: REQUEST_UPDATEs of a request
  Draft22,           \* draft-22, which allows several subscriptions of a track
  None               \* no job, no prefix

Spaces == {"subscribe-namespace", "subscribe-tracks"}

AllJobs ==
  [kind : {"subscribe", "track-status", "fetch"}, on : Tracks]
    \cup [kind : Spaces \cup {"publish-namespace"}, on : Prefixes]

ASSUME PeerRequestsAssumption ==
  /\ Jobs \subseteq AllJobs
  /\ Overlap \subseteq Prefixes \X Prefixes
  /\ \A p, q \in Prefixes : <<p, q>> \in Overlap => <<q, p>> \in Overlap
  /\ \A p \in Prefixes : <<p, p>> \in Overlap
  /\ MaxTracks \in Nat /\ MaxUpdates \in Nat
  /\ Draft22 \in BOOLEAN
  /\ None \notin Jobs \cup Prefixes
  /\ Prefixes \cap {"fin", "reset", "update"} = {}

\* The callers of sendPublishDone.
Enders == {"refusal", "unpublish", "filter"}

VARIABLES
  job,        \* what the peer asks for
  inbox,      \* what it has sent after its request and we have not read
  updates,    \* how many REQUEST_UPDATEs it has sent
  step,       \* where our handling of a request is
  registered, \* activeRequestStreams
  kinds,      \* incomingRequestKinds
  pubs,       \* publicationManager: the requests with a publication
  prefix,     \* incomingNamespaces and incomingTrackSubs
  newPrefix,  \* the prefix of the update being answered
  ending,     \* calls of sendPublishDone
  toPeer,     \* what we have written on the stream
  goAwaySent, \* goAwaySent
  raced       \* history: requests being answered when a request was checked

peer   == <<job, inbox, updates>>
tables == <<registered, kinds, pubs, prefix>>
vars   == <<peer, step, tables, newPrefix, ending, toPeer, goAwaySent, raced>>

Steps == {"none", "refusing", "accepting", "stating", "open", "updating", "failing",
          "halfopen", "over"}

TypeOK ==
  /\ job \in [Requests -> Jobs \cup {None}]
  /\ inbox \in [Requests -> Seq({"fin", "reset"} \cup {"update"} \cup Prefixes)]
  /\ updates \in [Requests -> 0 .. MaxUpdates]
  /\ step \in [Requests -> Steps]
  /\ {registered, kinds, pubs} \subseteq SUBSET Requests
  /\ prefix \in [Requests -> Prefixes \cup {None}]
  /\ newPrefix \in [Requests -> Prefixes \cup {None}]
  /\ ending \in [Requests \X Enders -> {"no", "writing", "closing"}]
  /\ toPeer \in [Requests -> Seq({"ok", "error", "updated", "refused", "done", "fin", "reset"})]
  /\ goAwaySent \in BOOLEAN
  /\ raced \in [Requests -> SUBSET Requests]

Init ==
  /\ job = [r \in Requests |-> None]
  /\ inbox = [r \in Requests |-> <<>>]
  /\ updates = [r \in Requests |-> 0]
  /\ step = [r \in Requests |-> "none"]
  /\ registered = {} /\ kinds = {} /\ pubs = {}
  /\ prefix = [r \in Requests |-> None] /\ newPrefix = [r \in Requests |-> None]
  /\ ending = [c \in Requests \X Enders |-> "no"]
  /\ toPeer = [r \in Requests |-> <<>>]
  /\ goAwaySent = FALSE
  /\ raced = [r \in Requests |-> {}]

-----------------------------------------------------------------------------
(* Parts of the handlers.                                                  *)

Kind(r) == job[r].kind

\* The request types that stay open once accepted.
Stays(j) == j.kind \in Spaces \cup {"subscribe", "publish-namespace"}

\* Mutant of Overlaps: only the same prefix overlaps.
OverlapsEqual(kind, p, except) ==
  \E q \in Requests \ except : prefix[q] # None /\ Kind(q) = kind /\ prefix[q] = p

\* IncomingNamespaceSubscriptions.overlaps, in the space of the request's own type.
Overlaps(kind, p, except) ==
  \E q \in Requests \ except :
    prefix[q] # None /\ Kind(q) = kind /\ <<prefix[q], p>> \in Overlap

\* Why a request is refused for what the tables hold.
MustRefuse(j) ==
  \/ goAwaySent
  \/ /\ j.kind = "subscribe"
     /\ \/ Cardinality(pubs) >= MaxTracks
        \/ ~Draft22 /\ \E q \in pubs : job[q].on = j.on
  \/ j.kind \in Spaces /\ Overlaps(j.kind, j.on, {})
  \/ j.kind = "fetch"

\* The requests an answer is being written to.
Answering == {q \in Requests : step[q] \in {"accepting", "updating"}}

Step(r, s) == step' = [step EXCEPT ![r] = s]
Write(r, m) == toPeer' = [toPeer EXCEPT ![r] = Append(@, m)]

\* Mutant of EndStream: nobody looks whether the stream is ended already.
EndStreamAgain(r, m) ==
  /\ registered' = registered \ {r}
  /\ Write(r, m) /\ inbox' = [inbox EXCEPT ![r] = <<>>]

\* closeRequestStream and abortRequestStream: the stream is forgotten, not read any
\* more and ended, unless somebody else has done so.
EndStream(r, m) ==
  /\ registered' = registered \ {r}
  /\ IF r \in registered
     THEN Write(r, m) /\ inbox' = [inbox EXCEPT ![r] = <<>>]
     ELSE UNCHANGED <<toPeer, inbox>>

\* endRequest: what the session holds for the request, but its stream.
Forget(r) ==
  /\ kinds' = kinds \ {r} /\ pubs' = pubs \ {r}
  /\ prefix' = [prefix EXCEPT ![r] = None]

-----------------------------------------------------------------------------
(* A request and its answer.                                               *)

\* processIncomingBidiStream up to the write of the answer.  A request can also be
\* refused for its namespace, reserved or not announced, or for its filters: then
\* before or after its stream is registered.
ReadRequest(r, j) ==
  LET with == IF Stays(j) THEN registered \cup {r} ELSE registered IN
  /\ step[r] = "none"
  /\ job' = [job EXCEPT ![r] = j]
  /\ raced' = [raced EXCEPT ![r] = @ \cup Answering]
  /\ \/ /\ Step(r, "refusing") /\ Write(r, "error")
        /\ registered' = registered \/ (~goAwaySent /\ registered' = with)
     \/ /\ ~MustRefuse(j)
        /\ Step(r, IF Stays(j) THEN "accepting" ELSE "stating") /\ Write(r, "ok")
        /\ registered' = with
  /\ UNCHANGED <<inbox, updates, kinds, pubs, prefix, newPrefix, ending, goAwaySent>>

\* Mutant of RequestAccepted: whatever the request is on is added as a prefix.
RequestAcceptedAsPrefix(r) ==
  /\ step[r] = "accepting"
  /\ Step(r, "open")
  /\ kinds' = kinds \cup {r}
  /\ pubs' = IF Kind(r) = "subscribe" THEN pubs \cup {r} ELSE pubs
  /\ prefix' = [prefix EXCEPT ![r] = job[r].on]
  /\ UNCHANGED <<peer, registered, newPrefix, ending, toPeer, goAwaySent, raced>>

\* The OK of a request that stays is written: it is added to the tables, and its
\* stream is read from now on.
RequestAccepted(r) ==
  /\ step[r] = "accepting"
  /\ Step(r, "open")
  /\ kinds' = kinds \cup {r}
  /\ pubs' = IF Kind(r) = "subscribe" THEN pubs \cup {r} ELSE pubs
  /\ prefix' = IF Kind(r) \in Spaces THEN [prefix EXCEPT ![r] = job[r].on] ELSE prefix
  /\ UNCHANGED <<peer, registered, newPrefix, ending, toPeer, goAwaySent, raced>>

\* The only answer of a request that does not stay is written: FIN.
RequestFinished(r) ==
  /\ step[r] \in {"refusing", "stating"}
  /\ Step(r, "over") /\ Write(r, "fin")
  /\ registered' = registered \ {r}
  /\ UNCHANGED <<peer, kinds, pubs, prefix, newPrefix, ending, goAwaySent, raced>>

-----------------------------------------------------------------------------
(* The reader of an accepted request.                                      *)

\* The next thing on the stream, while readRequestStream reads it.
Comes(r, m) ==
  step[r] = "open" /\ r \in registered /\ inbox[r] # <<>> /\ Head(inbox[r]) = m

Reads(r, m) == Comes(r, m) /\ inbox' = [inbox EXCEPT ![r] = Tail(@)]

\* A REQUEST_UPDATE that is good: what it changes of a subscription is changed, and
\* a new prefix is taken once the REQUEST_OK is written.
ReadUpdate(r) ==
  /\ \/ Reads(r, "update") /\ UNCHANGED <<newPrefix, raced>>
     \/ /\ \E p \in Prefixes :
             /\ Reads(r, p) /\ ~Overlaps(Kind(r), p, {r})
             /\ newPrefix' = [newPrefix EXCEPT ![r] = p]
        /\ raced' = [raced EXCEPT ![r] = @ \cup Answering]
  /\ Step(r, "updating") /\ Write(r, "updated")
  /\ UNCHANGED <<job, updates, tables, ending, goAwaySent>>

\* The REQUEST_OK is written: applyPrefixUpdate, and the stream is read on if it is
\* still there.
Updated(r) ==
  /\ step[r] = "updating"
  /\ Step(r, IF r \in registered THEN "open" ELSE "over")
  /\ IF newPrefix[r] # None
     THEN /\ prefix' = [prefix EXCEPT ![r] = newPrefix[r]]
          /\ newPrefix' = [newPrefix EXCEPT ![r] = None]
     ELSE UNCHANGED <<prefix, newPrefix>>
  /\ UNCHANGED <<peer, registered, kinds, pubs, ending, toPeer, goAwaySent, raced>>

\* refuseUpdate: a range that is published already or not supported, or a prefix
\* that overlaps.
ReadBadUpdate(r) ==
  /\ Reads(r, "update") \/ \E p \in Prefixes : Reads(r, p) /\ Overlaps(Kind(r), p, {r})
  /\ Step(r, "failing") /\ Write(r, "refused")
  /\ UNCHANGED <<job, updates, tables, newPrefix, ending, goAwaySent, raced>>

\* endRefusedRequest: PUBLISH_DONE for a subscription, which throws when the stream is
\* gone; for any other request its stream is closed.
UpdateRefused(r) ==
  LET done(s) == ending' = [ending EXCEPT ![<<r, "refusal">>] = s] IN
  /\ step[r] = "failing"
  /\ Step(r, "over")
  /\ IF Kind(r) = "subscribe"
     THEN /\ IF r \in registered THEN done("writing") /\ Write(r, "done")
             ELSE UNCHANGED <<ending, toPeer>>
          /\ UNCHANGED <<registered, inbox>>
     ELSE done("closing") /\ EndStream(r, "fin")
  /\ UNCHANGED <<job, updates, kinds, pubs, prefix, newPrefix, goAwaySent, raced>>

\* The peer's FIN.  A subscription stays, for we owe it a PUBLISH_DONE.
ReadFin(r) ==
  /\ Comes(r, "fin")
  /\ prefix' = [prefix EXCEPT ![r] = None]
  /\ IF r \in pubs THEN Step(r, "halfopen") /\ UNCHANGED <<registered, toPeer, inbox>>
     ELSE Step(r, "over") /\ EndStream(r, "fin")
  /\ UNCHANGED <<job, updates, kinds, pubs, newPrefix, ending, goAwaySent, raced>>

\* The peer's reset.
ReadReset(r) ==
  /\ Comes(r, "reset")
  /\ Forget(r) /\ Step(r, "over") /\ EndStream(r, "fin")
  /\ UNCHANGED <<job, updates, newPrefix, ending, goAwaySent, raced>>

-----------------------------------------------------------------------------
(* The other ends of a request.                                            *)

\* Our direction has begun and is not ended: only then can it be stopped.
Writable(r) ==
  toPeer[r] # <<>> /\ ~\E i \in DOMAIN toPeer[r] : toPeer[r][i] \in {"fin", "reset"}

\* Mutant of PeerStopped: the request stays in the tables.
PeerStoppedKept(r) ==
  /\ Writable(r)
  /\ IF r \in registered THEN EndStream(r, "reset") ELSE UNCHANGED <<registered, toPeer, inbox>>
  /\ Step(r, "over")
  /\ ending' = [c \in Requests \X Enders |->
                  IF c[1] = r /\ ending[c] = "writing" THEN "no" ELSE ending[c]]
  /\ newPrefix' = [newPrefix EXCEPT ![r] = None]
  /\ UNCHANGED <<job, updates, kinds, pubs, prefix, goAwaySent, raced>>

\* The peer's STOP_SENDING.  What is being written fails, and with it the handler or
\* the call that awaits it; handlePeerCancel gives up a request whose stream is there.
PeerStopped(r) ==
  /\ Writable(r)
  /\ IF r \in registered THEN Forget(r) /\ EndStream(r, "reset")
     ELSE UNCHANGED <<tables, toPeer, inbox>>
  /\ Step(r, "over")
  /\ ending' = [c \in Requests \X Enders |->
                  IF c[1] = r /\ ending[c] = "writing" THEN "no" ELSE ending[c]]
  /\ newPrefix' = [newPrefix EXCEPT ![r] = None]
  /\ UNCHANGED <<job, updates, goAwaySent, raced>>

\* unpublish(), or a send past the filter's end (endAtFilterEnd): PUBLISH_DONE, if
\* the stream is there, and the publication is removed.
EndSubscription(r, e) ==
  /\ r \in pubs /\ ending[<<r, e>>] = "no"
  /\ IF r \in registered
     THEN /\ ending' = [ending EXCEPT ![<<r, e>>] = "writing"] /\ Write(r, "done")
          /\ UNCHANGED pubs
     ELSE pubs' = pubs \ {r} /\ UNCHANGED <<ending, toPeer>>
  /\ UNCHANGED <<peer, step, registered, kinds, prefix, newPrefix, goAwaySent, raced>>

\* PUBLISH_DONE is written: FIN, and the reader ends.
DoneWritten(r, e) ==
  /\ ending[<<r, e>>] = "writing"
  /\ ending' = [ending EXCEPT ![<<r, e>>] = "closing"]
  /\ EndStream(r, "fin")
  /\ IF step[r] \in {"open", "halfopen"} THEN Step(r, "over") ELSE UNCHANGED step
  /\ UNCHANGED <<job, updates, kinds, pubs, prefix, newPrefix, goAwaySent, raced>>

\* The stream is closed: its caller gives up the request, or its publication.
DoneClosed(r, e) ==
  /\ ending[<<r, e>>] = "closing"
  /\ ending' = [ending EXCEPT ![<<r, e>>] = "no"]
  /\ IF e = "refusal" THEN Forget(r)
     ELSE kinds' = kinds \ {r} /\ pubs' = pubs \ {r} /\ UNCHANGED prefix
  /\ UNCHANGED <<peer, step, registered, newPrefix, toPeer, goAwaySent, raced>>

\* goAway(), when its GOAWAY is written.
GoAway ==
  /\ ~goAwaySent /\ goAwaySent' = TRUE
  /\ UNCHANGED <<peer, step, tables, newPrefix, ending, toPeer, raced>>

-----------------------------------------------------------------------------
(* The peer.                                                               *)

Sends(r, m) ==
  /\ Writable(r)
  /\ ~\E i \in DOMAIN inbox[r] : inbox[r][i] \in {"fin", "reset"}
  /\ inbox' = [inbox EXCEPT ![r] = Append(@, m)]

\* After the OK the peer may update its request, and end its direction once.  What
\* comes sooner is read no sooner, and what comes after our own end is not read.
PeerUpdates(r) ==
  /\ step[r] \in {"accepting", "open", "updating"} /\ updates[r] < MaxUpdates /\ Stays(job[r])
  /\ updates' = [updates EXCEPT ![r] = @ + 1]
  /\ \E m \in IF Kind(r) \in Spaces THEN Prefixes ELSE {"update"} : Sends(r, m)
  /\ UNCHANGED <<job, step, tables, newPrefix, ending, toPeer, goAwaySent, raced>>

PeerEnds(r) ==
  /\ step[r] \in {"accepting", "open", "updating"}
  /\ \E m \in {"fin", "reset"} : Sends(r, m)
  /\ UNCHANGED <<job, updates, step, tables, newPrefix, ending, toPeer, goAwaySent, raced>>

-----------------------------------------------------------------------------
Handle(r) ==
  \/ \E j \in Jobs : ReadRequest(r, j)
  \/ RequestAccepted(r) \/ RequestFinished(r)
  \/ ReadUpdate(r) \/ ReadBadUpdate(r) \/ Updated(r) \/ UpdateRefused(r)
  \/ ReadFin(r) \/ ReadReset(r) \/ PeerStopped(r)

Next ==
  \/ \E r \in Requests : Handle(r)
  \/ \E r \in Requests, e \in Enders : DoneWritten(r, e) \/ DoneClosed(r, e)
  \/ \E r \in Requests, e \in {"unpublish", "filter"} : EndSubscription(r, e)
  \/ GoAway
  \/ \E r \in Requests : PeerUpdates(r) \/ PeerEnds(r)

Spec == Init /\ [][Next]_vars

-----------------------------------------------------------------------------
(* Properties.                                                             *)

Count(r, ms) == Cardinality({i \in DOMAIN toPeer[r] : toPeer[r][i] \in ms})

\* A request has one answer, which comes first, and when the reader is back at its
\* stream every REQUEST_UPDATE it has read has been answered once; nothing is ever
\* written on a stream that is ended, whoever ended it.
AnswersInOrder ==
  \A r \in Requests :
    /\ \A i \in DOMAIN toPeer[r] :
         /\ toPeer[r][i] \in {"ok", "error"} <=> i = 1
         /\ toPeer[r][i] \in {"fin", "reset"} => i = Len(toPeer[r])
    /\ step[r] = "open" =>
         Count(r, {"updated"}) = updates[r] - Cardinality({i \in DOMAIN inbox[r] :
                                                inbox[r][i] \notin {"fin", "reset"}})

\* What the session holds for a request, a publication or a prefix, it holds for one
\* that has a stream and a kind, so its updates are understood and its end is heard;
\* only a PUBLISH_DONE whose stream is being closed comes between.
HeldHasStream ==
  \A r \in Requests :
    (r \in pubs \/ prefix[r] # None) =>
      \/ r \in registered /\ r \in kinds
      \/ \E e \in Enders : ending[<<r, e>>] = "closing"

\* Two established requests of one type have overlapping prefixes only if one was
\* checked while the other was being answered.
OverlapOnlyWhenRaced ==
  \A r, q \in Requests :
    r # q /\ prefix[r] # None /\ prefix[q] # None /\ Kind(r) = Kind(q)
      /\ <<prefix[r], prefix[q]>> \in Overlap
    => q \in raced[r] \/ r \in raced[q]

\* A request that nobody reads any more and nobody is ending leaves nothing behind: no
\* stream (which would make the GOAWAY timeout close the session), no publication
\* and no prefix, whichever of the peer's and our own ends came first.
OverIsForgotten ==
  \A r \in Requests :
    step[r] = "over" /\ (\A e \in Enders : ending[<<r, e>>] = "no")
    => r \notin registered \cup pubs /\ prefix[r] = None

\* The tables agree about every request, while it lives and when it is over.
TablesAgree == HeldHasStream /\ OverIsForgotten

\* "sent on the PUBLISH or accepted SUBSCRIBE request's bidi stream as its final
\* message, after which the stream is closed" (sendPublishDone).
DoneIsLast ==
  \A r \in Requests : \A i \in DOMAIN toPeer[r] :
    toPeer[r][i] = "done" /\ i < Len(toPeer[r]) => toPeer[r][i + 1] \in {"fin", "reset"}

\* "a prefix that shares a common prefix with an established subscription is
\* refused" (handleIncomingSubscribeNamespaceDraft18).
PrefixesDisjoint ==
  \A r, q \in Requests :
    r # q /\ prefix[r] # None /\ prefix[q] # None /\ Kind(r) = Kind(q)
    => <<prefix[r], prefix[q]>> \notin Overlap
=============================================================================
