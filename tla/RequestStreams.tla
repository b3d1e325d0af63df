--------------------------- MODULE RequestStreams ---------------------------
(***************************************************************************)
(* The requests a MOQTSession sends (draft-18/22), each on a bidirectional *)
(* stream of its own (packages/session/src/session.ts).  The request is    *)
(* the first message of the stream; the response, the answers to its       *)
(* REQUEST_UPDATEs, and the announcements of a SUBSCRIBE_NAMESPACE follow  *)
(* on the same stream until one side ends it.                              *)
(*                                                                         *)
(* The code is single threaded: an action is the code between two awaits.  *)
(* The peer is modelled by what it may put on the stream.  A request the   *)
(* peer breaks the protocol on is put in `rude', so that properties can    *)
(* tell a conforming peer from another.                                    *)
(***************************************************************************)
EXTENDS Integers, Sequences, FiniteSets

CONSTANTS
  Requests,           \* the Request IDs the session may use
  KindsUsed,          \* the kinds of request the application sends
  Suffixes,           \* namespaces below the prefix of a SUBSCRIBE_NAMESPACE
  MaxUpdates,         \* bound: REQUEST_UPDATEs sent per request
  MaxInbox,           \* bound: messages of the peer waiting to be read
  MaxRequestUpdates,  \* peerMaxRequestUpdates, 0 when the peer set no limit
  SharedSession       \* a MediaSession runs on a session it does not own

Kinds == {"subscribe", "publish", "fetch", "track-status", "publish-namespace",
          "subscribe-namespace", "subscribe-tracks"}

MessageTypes == {"SUBSCRIBE_OK", "FETCH_OK", "REQUEST_OK", "REQUEST_ERROR",
                 "REQUEST_UPDATE", "PUBLISH_DONE", "PUBLISH_STATE_NOTIFY",
                 "PUBLISH_BLOCKED", "NAMESPACE", "NAMESPACE_DONE", "GOAWAY",
                 "MALFORMED"}

\* What a reader finds on a stream: a message, the peer's FIN, or its reset.
Arrival == [type : MessageTypes \cup {"FIN", "RESET"}, suffix : Suffixes]

\* The suffix of a message that has none.
AnySuffix == CHOOSE s \in Suffixes : TRUE

ASSUME RequestStreamsAssumption ==
  /\ KindsUsed \subseteq Kinds
  /\ Suffixes # {}
  /\ MaxUpdates \in Nat
  /\ MaxInbox \in Nat
  /\ MaxRequestUpdates \in Nat
  /\ SharedSession \in BOOLEAN

SuccessResponseType(k) ==
  CASE k = "subscribe" -> "SUBSCRIBE_OK"
    [] k = "fetch"     -> "FETCH_OK"
    [] OTHER           -> "REQUEST_OK"

\* INBOUND_ON_OUR_REQUEST: what may follow the response, by kind of request.
InboundOnOurRequest(k) ==
  CASE k = "subscribe"  -> {"PUBLISH_DONE", "PUBLISH_STATE_NOTIFY", "REQUEST_OK",
                            "REQUEST_ERROR", "GOAWAY"}
    [] k = "publish"    -> {"REQUEST_UPDATE", "REQUEST_OK", "REQUEST_ERROR", "GOAWAY"}
    [] k = "track-status" -> {"GOAWAY"}
    [] k = "subscribe-namespace" -> {"NAMESPACE", "NAMESPACE_DONE", "REQUEST_OK",
                                     "REQUEST_ERROR", "GOAWAY"}
    [] k = "subscribe-tracks" -> {"PUBLISH_BLOCKED", "REQUEST_OK", "REQUEST_ERROR",
                                  "GOAWAY"}
    [] OTHER            -> {"REQUEST_OK", "REQUEST_ERROR", "GOAWAY"}

VARIABLES
  kind,        \* [Requests -> Kinds], meaningful once the request started
  call,        \* the continuation of the API call that made the request
  timer,       \* the timeout of trackStatus()
  active,      \* keys of activeRequestStreams, and of outgoingRequests
  answered,    \* outgoingRequests.answered
  announced,   \* outgoingRequests.announced
  registered,  \* keys of namespaceSubscriptionByRequestId
  publishing,  \* requests whose publication is in the PublicationManager
  goAway,      \* goAwayStreams
  reader,      \* who awaits readMessage on the stream
  pending,     \* pendingRequestUpdates: REQUEST_UPDATEs by number, oldest first
  outcome,     \* what the promise of each sendRequestUpdate() came to
  app,         \* namespaces the application was told of and not told done
  closed,      \* the session closed for a protocol violation
  inbox,       \* arrived from the peer, not read yet
  peer,        \* how far the peer is with the request
  verdict,     \* what the peer answered to each REQUEST_UPDATE
  offered,     \* namespaces the peer announced on the stream
  rude         \* requests on whose stream the peer broke the protocol

calls   == <<kind, call, timer>>
streams == <<active, answered, announced, registered, publishing, goAway, reader>>
updates == <<pending, outcome>>
peers   == <<peer, verdict, offered, rude>>
vars    == <<calls, streams, updates, app, closed, inbox, peers>>

Updates == 1 .. MaxUpdates

TypeOK ==
  /\ kind \in [Requests -> Kinds]
  /\ call \in [Requests -> {"idle", "creating", "writing", "waiting", "answered",
                            "ok", "failed", "dropped"}]
  /\ timer \in [Requests -> {"none", "armed", "fired"}]
  /\ active \subseteq Requests
  /\ answered \subseteq Requests
  /\ announced \in [Requests -> SUBSET Suffixes]
  /\ registered \subseteq Requests
  /\ publishing \subseteq Requests
  /\ goAway \subseteq Requests
  /\ reader \in [Requests -> {"none", "first", "loop"}]
  /\ pending \in [Requests -> Seq(Updates)]
  /\ outcome \in [Requests -> [Updates -> {"unsent", "pending", "ok", "error"}]]
  /\ app \in [Requests -> SUBSET Suffixes]
  /\ closed \in BOOLEAN
  /\ inbox \in [Requests -> Seq(Arrival)]
  /\ peer \in [Requests -> {"none", "requested", "accepted", "refused", "ended", "finished",
                            "gone"}]
  /\ verdict \in [Requests -> [Updates -> {"none", "ok", "error"}]]
  /\ offered \in [Requests -> SUBSET Suffixes]
  /\ rude \subseteq Requests

Init ==
  /\ kind \in [Requests -> KindsUsed]
  /\ call = [r \in Requests |-> "idle"]
  /\ timer = [r \in Requests |-> "none"]
  /\ active = {} /\ answered = {} /\ registered = {} /\ publishing = {} /\ goAway = {}
  /\ announced = [r \in Requests |-> {}]
  /\ reader = [r \in Requests |-> "none"]
  /\ pending = [r \in Requests |-> <<>>]
  /\ outcome = [r \in Requests |-> [u \in Updates |-> "unsent"]]
  /\ app = [r \in Requests |-> {}]
  /\ closed = FALSE
  /\ inbox = [r \in Requests |-> <<>>]
  /\ peer = [r \in Requests |-> "none"]
  /\ verdict = [r \in Requests |-> [u \in Updates |-> "none"]]
  /\ offered = [r \in Requests |-> {}]
  /\ rude = {}

-----------------------------------------------------------------------------
(* Parts of handlers.                                                      *)

\* Mutants of FailPendingUpdates: it rejects the updates that were answered too,
\* or it only empties the queue.
FailEveryUpdate(r) ==
  /\ pending' = [pending EXCEPT ![r] = <<>>]
  /\ outcome' = [outcome EXCEPT ![r] = [u \in Updates |-> IF @[u] = "unsent" THEN @[u] ELSE "error"]]

DropPendingUpdates(r) == pending' = [pending EXCEPT ![r] = <<>>] /\ UNCHANGED outcome

\* failPendingUpdates: reject every update still waiting on the stream.
FailPendingUpdates(r) ==
  /\ pending' = [pending EXCEPT ![r] = <<>>]
  /\ outcome' = [outcome EXCEPT ![r] =
       [u \in Updates |-> IF \E i \in 1 .. Len(pending[r]) : pending[r][i] = u
                          THEN "error" ELSE @[u]]]

\* Mutant of ForgetStream: the updates that wait on the stream are forgotten.
ForgetStreamOnly(r) ==
  /\ active' = active \ {r}
  /\ answered' = answered \ {r}
  /\ announced' = [announced EXCEPT ![r] = {}]
  /\ goAway' = goAway \ {r}
  /\ reader' = [reader EXCEPT ![r] = "none"]
  /\ inbox' = [inbox EXCEPT ![r] = <<>>]
  /\ UNCHANGED updates

\* closeRequestStream and abortRequestStream up to their await: the maps
\* forget the request, and what the peer still sends on it is not read.
ForgetStream(r) ==
  /\ active' = active \ {r}
  /\ answered' = answered \ {r}
  /\ announced' = [announced EXCEPT ![r] = {}]
  /\ goAway' = goAway \ {r}
  /\ reader' = [reader EXCEPT ![r] = "none"]
  /\ inbox' = [inbox EXCEPT ![r] = <<>>]
  /\ FailPendingUpdates(r)

\* Mutant of EndNamespaceSubscription: the active namespaces are not reported done.
EndNamespaceSubscriptionSilently(r) ==
  /\ registered' = IF kind[r] = "subscribe-namespace" THEN registered \ {r} ELSE registered
  /\ UNCHANGED app

\* endNamespaceSubscription: the active namespaces are reported done.
EndNamespaceSubscription(r) ==
  IF kind[r] = "subscribe-namespace" /\ r \in registered
  THEN /\ registered' = registered \ {r}
       /\ app' = [app EXCEPT ![r] = IF r \in answered THEN @ \ announced[r] ELSE @]
  ELSE UNCHANGED <<registered, app>>

\* endRequest: also drop the publication the request made.
EndRequest(r) ==
  /\ publishing' = publishing \ {r}
  /\ EndNamespaceSubscription(r)

\* A promise waiting on the stream of r rejects when the stream goes away.
CallAfterLoss(r) ==
  IF call[r] \in {"writing", "waiting"} THEN [call EXCEPT ![r] = "failed"] ELSE call

-----------------------------------------------------------------------------
(* Calls of the application.                                               *)

\* subscribe(), publish(), ... up to the await of the stream's creation.
StartRequest(r, timed) ==
  /\ ~closed
  /\ call[r] = "idle"
  /\ timed => kind[r] = "track-status"
  /\ call' = [call EXCEPT ![r] = "creating"]
  /\ timer' = [timer EXCEPT ![r] = IF timed THEN "armed" ELSE "none"]
  /\ registered' = IF kind[r] = "subscribe-namespace" THEN registered \cup {r} ELSE registered
  /\ publishing' = IF kind[r] = "publish" THEN publishing \cup {r} ELSE publishing
  /\ UNCHANGED <<kind, active, answered, announced, goAway, reader, updates, app, closed,
                 inbox, peers>>

\* openRequestStream after the stream was created: register it, start writing.
StreamCreated(r) ==
  /\ ~closed
  /\ call[r] = "creating"
  /\ call' = [call EXCEPT ![r] = "writing"]
  /\ active' = active \cup {r}
  /\ UNCHANGED <<kind, timer, answered, announced, registered, publishing, goAway, reader,
                 updates, app, closed, inbox, peers>>

\* The transport refuses the stream: openRequestStream throws.
StreamRefused(r) ==
  /\ ~closed
  /\ call[r] = "creating"
  /\ call' = [call EXCEPT ![r] = "failed"]
  /\ UNCHANGED <<kind, timer, streams, updates, app, closed, inbox, peers>>

\* The write of the request resolves. SUBSCRIBE_NAMESPACE is read by the
\* stream's reader from the start; the others await their first response.
RequestWritten(r) ==
  /\ ~closed
  /\ call[r] = "writing"
  /\ IF kind[r] = "subscribe-namespace"
     THEN /\ call' = [call EXCEPT ![r] = "ok"]
          /\ reader' = [reader EXCEPT ![r] = "loop"]
     ELSE /\ call' = [call EXCEPT ![r] = "waiting"]
          /\ reader' = [reader EXCEPT ![r] = "first"]
  /\ peer' = [peer EXCEPT ![r] = "requested"]
  /\ UNCHANGED <<kind, timer, active, answered, announced, registered, publishing, goAway,
                 updates, app, closed, inbox, verdict, offered, rude>>

\* The timeout of trackStatus(): abortRequestStream does nothing when the
\* stream does not exist yet.
TimeoutFires(r) ==
  /\ ~closed
  /\ timer[r] = "armed"
  /\ call[r] \in {"creating", "writing", "waiting"}
  /\ timer' = [timer EXCEPT ![r] = "fired"]
  /\ IF r \in active
     THEN ForgetStream(r) /\ call' = CallAfterLoss(r)
     ELSE UNCHANGED <<active, answered, announced, goAway, reader, inbox, updates, call>>
  /\ UNCHANGED <<kind, registered, publishing, app, closed, peers>>

\* Mutant of SendRequestUpdate: numbered from zero.
SendUpdateFromZero(r) ==
  /\ ~closed
  /\ r \in active
  /\ call[r] = "ok"
  /\ \E u \in Updates :
       /\ outcome[r][u] = "unsent"
       /\ pending' = [pending EXCEPT ![r] = Append(@, u - 1)]
       /\ outcome' = [outcome EXCEPT ![r][u] = "pending"]
  /\ UNCHANGED <<calls, streams, app, closed, inbox, peers>>

\* sendRequestUpdate(): queue the update before writing it.
SendRequestUpdate(r) ==
  /\ ~closed
  /\ r \in active
  /\ call[r] = "ok"
  /\ MaxRequestUpdates > 0 => Len(pending[r]) < MaxRequestUpdates
  /\ \E u \in Updates :
       /\ outcome[r][u] = "unsent"
       /\ \A v \in Updates : v < u => outcome[r][v] # "unsent"
       /\ pending' = [pending EXCEPT ![r] = Append(@, u)]
       /\ outcome' = [outcome EXCEPT ![r][u] = "pending"]
  /\ UNCHANGED <<calls, streams, app, closed, inbox, peers>>

\* unsubscribe(), cancelFetch(), unsubscribeNamespace(): cancel the request,
\* then drop its state. cancelAnnounce() takes the namespace, so it may come
\* before announceNamespace() returned, when there is no stream to cancel.
CancelRequest(r) ==
  /\ ~closed
  /\ \/ /\ call[r] = "ok" /\ kind[r] \notin {"publish", "track-status"}
        /\ kind[r] = "subscribe-namespace" => r \in registered
     \/ call[r] \in {"creating", "writing", "waiting"} /\ kind[r] = "publish-namespace"
  /\ IF r \in active
     THEN ForgetStream(r) /\ call' = CallAfterLoss(r)
     ELSE UNCHANGED <<active, answered, announced, goAway, reader, inbox, updates, call>>
  /\ registered' = registered \ {r}
  /\ app' = [app EXCEPT ![r] = {}]
  /\ UNCHANGED <<kind, timer, publishing, closed, peers>>

\* removeNamespaceSubscription(), which MediaSession.close() calls on a
\* session it was given: the bookkeeping goes, the stream stays. Nobody can
\* cancel the request afterwards, hence "dropped".
RemoveNamespaceSubscription(r) ==
  /\ ~closed
  /\ SharedSession
  /\ call[r] = "ok"
  /\ r \in registered
  /\ call' = [call EXCEPT ![r] = "dropped"]
  /\ registered' = registered \ {r}
  /\ app' = [app EXCEPT ![r] = {}]
  /\ UNCHANGED <<kind, timer, active, answered, announced, publishing, goAway, reader, updates,
                 closed, inbox, peers>>

\* unpublish(): PUBLISH_DONE and our FIN, then the publication is removed.
Unpublish(r) ==
  /\ ~closed
  /\ call[r] = "ok"
  /\ r \in publishing
  /\ publishing' = publishing \ {r}
  /\ IF r \in active
     THEN ForgetStream(r)
     ELSE UNCHANGED <<active, answered, announced, goAway, reader, inbox, updates>>
  /\ UNCHANGED <<calls, registered, app, closed, peers>>

-----------------------------------------------------------------------------
(* Readers of the stream.                                                  *)

CloseForViolation == closed' = TRUE

\* sendRequestAndWaitResponse after the first readMessage. acceptFirstResponse
\* lets only the request's own response or a REQUEST_ERROR come first. After a
\* REQUEST_ERROR, and when nothing could be read, the caller drops the stream.
ReadFirstResponse(r) ==
  LET m == Head(inbox[r]) IN
  /\ ~closed
  /\ reader[r] = "first"
  /\ inbox[r] # <<>>
  /\ \/ /\ m.type = SuccessResponseType(kind[r])
        /\ answered' = answered \cup {r}
        /\ reader' = [reader EXCEPT ![r] = "loop"]
        /\ call' = [call EXCEPT ![r] = "answered"]
        /\ inbox' = [inbox EXCEPT ![r] = Tail(@)]
        /\ UNCHANGED <<active, announced, goAway, updates, closed>>
     \/ /\ m.type # SuccessResponseType(kind[r])
        /\ ForgetStream(r)
        /\ call' = [call EXCEPT ![r] = "failed"]
        /\ IF m.type \in {"REQUEST_ERROR", "FIN", "RESET"}
           THEN UNCHANGED closed ELSE CloseForViolation
  /\ UNCHANGED <<kind, timer, registered, publishing, app, peers>>

\* The caller continues after its response; trackStatus() ends its request.
CallReturns(r) ==
  /\ ~closed
  /\ call[r] = "answered"
  /\ call' = [call EXCEPT ![r] = "ok"]
  /\ IF kind[r] = "track-status" /\ r \in active
     THEN ForgetStream(r)
     ELSE UNCHANGED <<active, answered, announced, goAway, reader, inbox, updates>>
  /\ UNCHANGED <<kind, timer, registered, publishing, app, closed, peers>>

\* Mutants of SettleRequestUpdate: a REQUEST_OK answers the newest update, or all.
SettleNewestUpdate(r, m) ==
  IF pending[r] = <<>>
  THEN CloseForViolation /\ UNCHANGED updates
  ELSE LET n == Len(pending[r]) IN
       /\ IF m.type = "REQUEST_OK"
          THEN /\ pending' = [pending EXCEPT ![r] = SubSeq(@, 1, n - 1)]
               /\ outcome' = [outcome EXCEPT ![r][pending[r][n]] = "ok"]
          ELSE FailPendingUpdates(r)
       /\ UNCHANGED closed

SettleEveryUpdate(r, m) ==
  IF pending[r] = <<>>
  THEN CloseForViolation /\ UNCHANGED updates
  ELSE FailPendingUpdates(r) /\ UNCHANGED closed

\* settleRequestUpdate: a REQUEST_OK answers the oldest update, a REQUEST_ERROR
\* every update still pending.
SettleRequestUpdate(r, m) ==
  IF pending[r] = <<>>
  THEN CloseForViolation /\ UNCHANGED updates
  ELSE /\ IF m.type = "REQUEST_OK"
          THEN /\ pending' = [pending EXCEPT ![r] = Tail(@)]
               /\ outcome' = [outcome EXCEPT ![r][Head(pending[r])] = "ok"]
          ELSE FailPendingUpdates(r)
       /\ UNCHANGED closed

\* The first response on a SUBSCRIBE_NAMESPACE (settleNamespaceSubscription).
SettleNamespaceSubscription(r, m) ==
  /\ answered' = answered \cup {r}
  /\ IF m.type \in {"REQUEST_OK", "REQUEST_ERROR"}
     THEN /\ registered' = IF m.type = "REQUEST_ERROR" THEN registered \ {r} ELSE registered
          /\ UNCHANGED closed
     ELSE CloseForViolation /\ UNCHANGED registered
  /\ UNCHANGED <<announced, goAway, updates, app>>

\* The cases of dispatchStreamMessage for a message the kind allows.
HandleMessage(r, m) ==
  \/ /\ m.type \in {"REQUEST_OK", "REQUEST_ERROR"}
     /\ SettleRequestUpdate(r, m)
     /\ UNCHANGED <<announced, goAway, app>>
  \/ /\ m.type = "NAMESPACE"
     /\ IF r \in registered
        THEN /\ announced' = [announced EXCEPT ![r] = @ \cup {m.suffix}]
             /\ app' = [app EXCEPT ![r] = @ \cup {m.suffix}]
             /\ UNCHANGED closed
        ELSE CloseForViolation /\ UNCHANGED <<announced, app>>
     /\ UNCHANGED <<goAway, updates>>
  \/ /\ m.type = "NAMESPACE_DONE"
     /\ IF r \in registered /\ m.suffix \in announced[r]
        THEN /\ announced' = [announced EXCEPT ![r] = @ \ {m.suffix}]
             /\ app' = [app EXCEPT ![r] = @ \ {m.suffix}]
             /\ UNCHANGED closed
        ELSE CloseForViolation /\ UNCHANGED <<announced, app>>
     /\ UNCHANGED <<goAway, updates>>
  \/ /\ m.type = "GOAWAY"
     /\ goAway' = goAway \cup {r}
     /\ IF r \in goAway THEN CloseForViolation ELSE UNCHANGED closed
     /\ UNCHANGED <<announced, updates, app>>
  \/ /\ m.type \in {"REQUEST_UPDATE", "PUBLISH_DONE", "PUBLISH_STATE_NOTIFY", "PUBLISH_BLOCKED"}
     /\ UNCHANGED <<announced, goAway, updates, app, closed>>

\* readRequestStream with a message: dispatchStreamMessage.
ReadMessage(r) ==
  LET m == Head(inbox[r]) IN
  /\ ~closed
  /\ reader[r] = "loop"
  /\ inbox[r] # <<>>
  /\ m.type \notin {"FIN", "RESET"}
  /\ inbox' = [inbox EXCEPT ![r] = Tail(@)]
  /\ IF m.type \notin InboundOnOurRequest(kind[r])
     THEN CloseForViolation /\ UNCHANGED <<answered, announced, registered, goAway, updates, app>>
     ELSE IF r \notin answered
     THEN SettleNamespaceSubscription(r, m)
     ELSE HandleMessage(r, m) /\ UNCHANGED <<answered, registered>>
  /\ UNCHANGED <<calls, active, publishing, reader, peers>>

\* readRequestStream at the end of the stream. A FIN leaves the stream of a
\* publication open, since PUBLISH_DONE is still owed on it.
ReadEnd(r) ==
  LET m == Head(inbox[r]) IN
  /\ ~closed
  /\ reader[r] = "loop"
  /\ inbox[r] # <<>>
  /\ m.type \in {"FIN", "RESET"}
  /\ IF m.type = "RESET"
     THEN EndRequest(r) /\ ForgetStream(r)
     ELSE /\ EndNamespaceSubscription(r)
          /\ UNCHANGED publishing
          /\ IF r \in publishing
             THEN /\ reader' = [reader EXCEPT ![r] = "none"]
                  /\ inbox' = [inbox EXCEPT ![r] = <<>>]
                  /\ UNCHANGED <<active, answered, announced, goAway, updates>>
             ELSE ForgetStream(r)
  /\ UNCHANGED <<calls, closed, peers>>

\* handlePeerCancel: the peer's STOP_SENDING rejects the writes still pending
\* on the stream, then ends the request.
PeerCancels(r) ==
  /\ ~closed
  /\ r \in active
  /\ call[r] # "answered"
  /\ EndRequest(r)
  /\ ForgetStream(r)
  /\ call' = CallAfterLoss(r)
  /\ UNCHANGED <<kind, timer, closed, peers>>

-----------------------------------------------------------------------------
(* The peer (external).                                                    *)

Arrive(r, t, s) ==
  inbox' = IF r \in active THEN [inbox EXCEPT ![r] = Append(@, [type |-> t, suffix |-> s])]
           ELSE inbox

PeerReady(r) == ~closed /\ Len(inbox[r]) < MaxInbox /\ r \in active

PeerAnswers(r) ==
  /\ PeerReady(r) /\ peer[r] = "requested"
  /\ \/ Arrive(r, SuccessResponseType(kind[r]), AnySuffix)
        /\ peer' = [peer EXCEPT ![r] = "accepted"]
     \/ Arrive(r, "REQUEST_ERROR", AnySuffix)
        /\ peer' = [peer EXCEPT ![r] = "refused"]
  /\ UNCHANGED <<calls, streams, updates, app, closed, verdict, offered, rude>>

\* One REQUEST_OK per update, or a REQUEST_ERROR for all the peer received,
\* after which the peer ends the request.
PeerAnswersUpdate(r) ==
  LET open == {u \in Updates : outcome[r][u] # "unsent" /\ verdict[r][u] = "none"} IN
  /\ PeerReady(r) /\ peer[r] = "accepted"
  /\ \E u \in open :
       /\ \A v \in open : u <= v
       /\ \/ Arrive(r, "REQUEST_OK", AnySuffix)
             /\ verdict' = [verdict EXCEPT ![r][u] = "ok"]
             /\ UNCHANGED peer
          \/ Arrive(r, "REQUEST_ERROR", AnySuffix)
             /\ verdict' = [verdict EXCEPT ![r] =
                  [v \in Updates |-> IF v \in open THEN "error" ELSE @[v]]]
             /\ peer' = [peer EXCEPT ![r] = "ended"]
  /\ UNCHANGED <<calls, streams, updates, app, closed, offered, rude>>

PeerAnnounces(r, s) ==
  /\ PeerReady(r) /\ peer[r] = "accepted" /\ kind[r] = "subscribe-namespace"
  /\ IF s \in offered[r]
     THEN Arrive(r, "NAMESPACE_DONE", s) /\ offered' = [offered EXCEPT ![r] = @ \ {s}]
     ELSE Arrive(r, "NAMESPACE", s) /\ offered' = [offered EXCEPT ![r] = @ \cup {s}]
  /\ UNCHANGED <<calls, streams, updates, app, closed, peer, verdict, rude>>

\* A GOAWAY for the request alone, at most one per stream.
PeerGoesAway(r) ==
  /\ PeerReady(r) /\ peer[r] = "accepted"
  /\ r \notin goAway
  /\ \A i \in 1 .. Len(inbox[r]) : inbox[r][i].type # "GOAWAY"
  /\ Arrive(r, "GOAWAY", AnySuffix)
  /\ UNCHANGED <<calls, streams, updates, app, closed, peers>>

PeerPublishDone(r) ==
  /\ PeerReady(r) /\ peer[r] \in {"accepted", "ended"} /\ kind[r] = "subscribe"
  /\ Arrive(r, "PUBLISH_DONE", AnySuffix)
  /\ peer' = [peer EXCEPT ![r] = "finished"]
  /\ UNCHANGED <<calls, streams, updates, app, closed, verdict, offered, rude>>

\* The peer's FIN, or its reset, which may overtake what it sent before.
PeerEnds(r) ==
  /\ PeerReady(r) /\ peer[r] \notin {"none", "gone"}
  /\ LET end(t) == [type |-> t, suffix |-> AnySuffix] IN
     \/ inbox' = [inbox EXCEPT ![r] = Append(@, end("FIN"))]
     \/ \E n \in 0 .. Len(inbox[r]) :
          inbox' = [inbox EXCEPT ![r] = Append(SubSeq(@, 1, n), end("RESET"))]
  /\ peer' = [peer EXCEPT ![r] = "gone"]
  /\ UNCHANGED <<calls, streams, updates, app, closed, verdict, offered, rude>>

\* A peer that breaks the protocol: any message at any time, once.
PeerIsRude(r) ==
  /\ PeerReady(r) /\ peer[r] \notin {"none", "gone"} /\ r \notin rude
  /\ \E t \in MessageTypes, s \in Suffixes : Arrive(r, t, s)
  /\ rude' = rude \cup {r}
  /\ UNCHANGED <<calls, streams, updates, app, closed, peer, verdict, offered>>

-----------------------------------------------------------------------------
Local(r) ==
  \/ StreamCreated(r) \/ RequestWritten(r)
  \/ ReadFirstResponse(r) \/ CallReturns(r) \/ ReadMessage(r) \/ ReadEnd(r)

Peer(r) ==
  \/ PeerAnswers(r) \/ PeerAnswersUpdate(r) \/ PeerPublishDone(r) \/ PeerGoesAway(r) \/ PeerEnds(r)
  \/ PeerCancels(r) \/ PeerIsRude(r)
  \/ \E s \in Suffixes : PeerAnnounces(r, s)

Application(r) ==
  \/ \E timed \in BOOLEAN : StartRequest(r, timed)
  \/ SendRequestUpdate(r) \/ CancelRequest(r) \/ RemoveNamespaceSubscription(r) \/ Unpublish(r)

Next == \E r \in Requests :
  Local(r) \/ StreamRefused(r) \/ TimeoutFires(r) \/ Peer(r) \/ Application(r)

Spec == Init /\ [][Next]_vars

(***************************************************************************)
(* Fairness.  A stream the transport grants is eventually created and      *)
(* written, a promise that resolved is eventually continued, and what      *)
(* arrived is eventually read: the event loop runs every ready task.  The  *)
(* peer's fairness is strong, since what else it sends may fill the inbox: *)
(* it eventually answers a request or an update, or ends the stream.       *)
(* Nothing makes the application or the peer's other steps happen.         *)
(***************************************************************************)
LocalFairness == \A r \in Requests : WF_vars(Local(r))
PeerFairness  == \A r \in Requests :
                   SF_vars(PeerAnswers(r) \/ PeerAnswersUpdate(r) \/ PeerEnds(r))

SilentPeerSpec == Spec /\ LocalFairness
FairSpec == SilentPeerSpec /\ PeerFairness

-----------------------------------------------------------------------------
(* Properties.                                                             *)

\* A peer that keeps to the protocol is never accused: whatever the order of
\* cancels, timeouts, late answers and ends, the session closes with
\* PROTOCOL_VIOLATION only after a message no conforming peer sends, or after
\* a MediaSession dropped a request on a session it shares
\* (closeForUnexpectedMessage, settleRequestUpdate, handleNamespaceMessage).
NoFalseViolation == closed => rude # {} \/ \E r \in Requests : call[r] = "dropped"

\* The same without the exception. The session closes for a message "its role
\* or the request's kind does not allow" (session.ts:2184), yet it does so for
\* the NAMESPACE that a conforming peer sends on a dropped request.
OnlyRudePeersAccused == closed => rude # {}

\* The queue of REQUEST_UPDATEs and their promises agree: what is queued is
\* pending, oldest first, nothing pending was dropped from the queue, and
\* nothing is pending on a stream that is gone (failPendingUpdates).
QueueSound(r) ==
  /\ \A u \in Updates : outcome[r][u] = "pending" <=> \E i \in 1 .. Len(pending[r]) : pending[r][i] = u
  /\ \A i, j \in 1 .. Len(pending[r]) : i < j => pending[r][i] < pending[r][j]
  /\ pending[r] # <<>> => r \in active

UpdateQueueSound == \A r \in Requests : QueueSound(r)

\* The promise of a sendRequestUpdate() settles once: no later answer, cancel
\* or end of the stream changes what its caller was told.
SettledOnce == [][\A r \in Requests : \A u \in Updates :
  outcome[r][u] \in {"ok", "error"} => outcome'[r][u] = outcome[r][u]]_vars

\* A caller of sendRequestUpdate() is told that its update was accepted only
\* when the peer accepted that very update.
AnswersMatch == \A r \in Requests \ rude : \A u \in Updates :
  outcome[r][u] = "ok" => verdict[r][u] = "ok"

\* The peer never holds more unanswered updates of a request than its
\* MAX_REQUEST_UPDATES.  A peer that refused one holds none: its REQUEST_ERROR
\* ended the request, and what is sent after it is not counted.
PeerLimitKept == \A r \in active \ rude :
  MaxRequestUpdates > 0 /\ (\A u \in Updates : verdict[r][u] # "error") =>
    Cardinality({u \in Updates : outcome[r][u] # "unsent" /\ verdict[r][u] = "none"})
      <= MaxRequestUpdates

\* What the session counts and tells of its REQUEST_UPDATEs agrees with what the peer
\* holds and decided, however far the two are apart in time.
UpdatesAgree == AnswersMatch /\ PeerLimitKept

\* The namespaces the application was told of are the ones the peer announced,
\* once everything was read, and none after the request ended: each of them
\* was reported done (endNamespaceSubscription).
NamespacesAgree == \A r \in Requests \ rude :
  /\ r \notin active => app[r] = {}
  /\ r \in active \cap registered /\ inbox[r] = <<>> => app[r] = offered[r]

\* Every sendRequestUpdate() settles when the peer answers or ends the request.
\* The stream of a PUBLISH whose peer sent FIN is not covered: its updates stay
\* pending until unpublish().
UpdateSettles == \A r \in Requests : \A u \in Updates :
  (outcome[r][u] = "pending" /\ kind[r] # "publish")
    ~> (closed \/ outcome[r][u] \in {"ok", "error"})

\* trackStatus() with a timeout: "Cancel the request and reject after this
\* long" (session.ts:2763).
TimeoutSettles == \A r \in Requests :
  timer[r] = "fired" ~> (closed \/ call[r] \in {"ok", "failed"})
=============================================================================
