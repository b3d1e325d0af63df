-------------------------- MODULE NamespaceNotices --------------------------
(***************************************************************************)
(* The namespaces a MOQTSession announces, and the SUBSCRIBE_NAMESPACE     *)
(* requests of the peer that are told of them (draft-18/22;                *)
(* packages/session/src/session.ts, incoming-namespace-subscriptions.ts).  *)
(*                                                                         *)
(* A subscription has a prefix. A NAMESPACE or NAMESPACE_DONE names the    *)
(* namespace by its suffix after the prefix the subscription had when the  *)
(* notice was recorded. Many threads of control send notices: each call of *)
(* announceNamespace() and cancelAnnounce(), and each request's handler    *)
(* while it lists what is announced already. An action is the code between *)
(* two awaits. Writes on one stream reach the peer in the order they are   *)
(* issued, so what the peer knows is kept as of the last write issued.     *)
(***************************************************************************)
EXTENDS Integers, Sequences

CONSTANTS
  Fields,            \* what namespaces are made of
  Requests,          \* the peer's SUBSCRIBE_NAMESPACE requests
  Calls,             \* calls the application makes, each once, in any order
  Job,               \* Job[c]: what the call does, and to which namespace
  Namespaces,        \* namespaces the application announces: tuples of fields
  Prefixes,          \* prefixes the peer asks for: tuples of fields
  MaxPrefixUpdates,  \* bound: REQUEST_UPDATEs of the prefix, per request
  NoCall             \* no announcement

ASSUME NamespaceNoticesAssumption ==
  /\ Namespaces \subseteq Seq(Fields) /\ Prefixes \subseteq Seq(Fields)
  /\ Requests \cap Calls = {}
  /\ NoCall \notin Calls
  /\ Job \in [Calls -> [op : {"announce", "cancel"}, ns : Namespaces]]
  /\ MaxPrefixUpdates \in Nat

\* The prefix of a request that is over.
NoPrefix == <<>>

Threads == Requests \cup Calls

\* namespacePrefixMatches
Matches(p, n) == Len(p) <= Len(n) /\ \A i \in 1 .. Len(p) : n[i] = p[i]

\* The suffix of a notice: namespace.slice(prefix.length).
Suffix(p, n) == SubSeq(n, Len(p) + 1, Len(n))

VARIABLES
  \* The announcements of the application
  pc,        \* how far each call is
  entry,     \* announcedNamespaces: the call that made the entry, or NoCall
  streams,   \* calls whose PUBLISH_NAMESPACE stream is in activeRequestStreams
  \* The requests of the peer
  phase,     \* how far the handler and the reader of the request's stream are
  alive,     \* requests whose stream is in activeRequestStreams
  prefix,    \* the prefix the request has; the one it asked for while accepting
  wanted,    \* the prefix a REQUEST_UPDATE asks for
  known,     \* the announced set of the subscription, kept by record()
  established, \* keys of incomingNamespaces
  visited,   \* namespaces the handler's loop has passed
  updates,   \* REQUEST_UPDATEs of the prefix, for the bound
  \* Notices recorded and not yet written, by thread
  notices,
  \* What the peer knows once it has read what was written
  peerPrefix, told,
  faults,    \* requests on which a notice contradicted what the peer knew
  disturbed  \* requests whose notices two races have touched (see Disturbs)

application == <<pc, entry, streams>>
requests    == <<phase, alive, prefix, wanted, known, established, visited, updates>>
peerView    == <<peerPrefix, told, faults, disturbed>>
vars        == <<application, requests, notices, peerView>>

\* A notice to a request, of a namespace with this suffix.
Notice == [request : Requests, suffix : Seq(Fields)]

NoNotices == [change |-> "none", to |-> {}]

\* announcedNamespaces.keys()
Announced == {n \in Namespaces : entry[n] # NoCall}

TypeOK ==
  /\ pc \in [Calls -> {"idle", "telling", "creating", "waiting", "withdrawing", "aborting",
                       "ok", "failed"}]
  /\ entry \in [Namespaces -> Calls \cup {NoCall}]
  /\ streams \subseteq Calls
  /\ phase \in [Requests -> {"none", "accepting", "telling", "open", "updating", "refusing",
                             "closing", "ended"}]
  /\ alive \subseteq Requests
  /\ prefix \in [Requests -> Prefixes \cup {NoPrefix}]
  /\ wanted \in [Requests -> Prefixes \cup {NoPrefix}]
  /\ known \in [Requests -> SUBSET Namespaces]
  /\ established \subseteq Requests
  /\ visited \in [Requests -> SUBSET Namespaces]
  /\ updates \in [Requests -> 0 .. MaxPrefixUpdates]
  /\ notices \in [Threads -> [change : {"none", "announced", "withdrawn"}, to : SUBSET Notice]]
  /\ peerPrefix \in [Requests -> Prefixes \cup {NoPrefix}]
  /\ told \in [Requests -> SUBSET Seq(Fields)]
  /\ faults \subseteq Requests
  /\ disturbed \subseteq Requests

Init ==
  /\ pc = [c \in Calls |-> "idle"]
  /\ entry = [n \in Namespaces |-> NoCall]
  /\ streams = {} /\ alive = {} /\ established = {} /\ faults = {} /\ disturbed = {}
  /\ phase = [r \in Requests |-> "none"]
  /\ prefix \in [Requests -> Prefixes]
  /\ wanted = prefix
  /\ known = [r \in Requests |-> {}]
  /\ visited = [r \in Requests |-> {}]
  /\ updates = [r \in Requests |-> 0]
  /\ notices = [t \in Threads |-> NoNotices]
  /\ peerPrefix = prefix
  /\ told = [r \in Requests |-> {}]

-----------------------------------------------------------------------------
(* IncomingNamespaceSubscriptions.                                         *)

\* overlaps(): p shares a common prefix with another established request.
Overlaps(r, p) == \E o \in established \ {r} :
  Matches(prefix[o], p) \/ Matches(p, prefix[o])

\* Mutant of Concerned: what the peer knows is not looked at.
EveryMatching(n, change) == {r \in established : Matches(prefix[r], n)}

\* record(): whom a change of n concerns.
Concerned(n, change) == {r \in established :
  Matches(prefix[r], n) /\ (change = "announced" <=> n \notin known[r])}

\* What the peer knows after notice m: it reads the suffix after the prefix it
\* asked for last. A NAMESPACE must be news, a NAMESPACE_DONE must end one.
Deliver(m, change) ==
  LET r == m.request
      n == peerPrefix[r] \o m.suffix
      news == change = "announced" <=> n \notin told[r]
  IN /\ told' = [told EXCEPT ![r] = IF change = "announced" THEN @ \cup {n} ELSE @ \ {n}]
     /\ faults' = IF news THEN faults ELSE faults \cup {r}

\* One turn of the loop of notifyNamespace: a stream that is gone is skipped.
WriteNotice(t, to, change) ==
  \/ to = {} /\ notices' = [notices EXCEPT ![t] = NoNotices] /\ UNCHANGED <<told, faults>>
  \/ \E m \in to :
       /\ notices' = [notices EXCEPT ![t] =
            IF to = {m} THEN NoNotices ELSE [change |-> change, to |-> to \ {m}]]
       /\ IF m.request \in alive THEN Deliver(m, change) ELSE UNCHANGED <<told, faults>>

\* A notice recorded between the REQUEST_OK of an update of the prefix and the
\* update itself has its suffix after the old prefix.
Disturbs(rs) == disturbed' = disturbed \cup {r \in rs : phase[r] = "updating"}

\* notifyNamespace up to its first await: record the change, write to the first.
Notify(t, n, change) ==
  LET concerned == Concerned(n, change) IN
  /\ known' = [r \in Requests |->
       IF r \notin concerned THEN known[r]
       ELSE IF change = "announced" THEN known[r] \cup {n} ELSE known[r] \ {n}]
  /\ WriteNotice(t, {[request |-> r, suffix |-> Suffix(prefix[r], n)] : r \in concerned}, change)
  /\ Disturbs(concerned)

\* The writes after an await.
KeepTelling(t) ==
  /\ notices[t].to # {}
  /\ WriteNotice(t, notices[t].to, notices[t].change)
  /\ UNCHANGED <<application, requests, peerPrefix, disturbed>>

Told(t) == notices[t].to = {}

-----------------------------------------------------------------------------
(* announceNamespace() and cancelAnnounce().                               *)

\* Mutant of ForgetEntry: the entry is emptied, not deleted.
EmptyEntry(n) ==
  /\ entry' = [entry EXCEPT ![n] = n]
  /\ visited' = [r \in Requests |-> visited[r] \ {n}]

\* The map forgets n: a loop over it that passed n will meet n again, should n
\* come back.
ForgetEntry(n) ==
  /\ entry' = [entry EXCEPT ![n] = NoCall]
  /\ visited' = [r \in Requests |-> visited[r] \ {n}]

AnnounceNamespace(c) ==
  LET n == Job[c].ns IN
  /\ pc[c] = "idle" /\ Job[c].op = "announce"
  /\ IF n \in Announced
     THEN /\ pc' = [pc EXCEPT ![c] = "ok"]
          /\ UNCHANGED <<entry, known, notices, told, faults, disturbed>>
     ELSE /\ entry' = [entry EXCEPT ![n] = c]
          /\ pc' = [pc EXCEPT ![c] = "telling"]
          /\ Notify(c, n, "announced")
  /\ UNCHANGED <<streams, phase, alive, prefix, wanted, established, visited, updates,
                 peerPrefix>>

\* The loop is done: announceNamespaceDraft18 gives the entry its Request ID
\* and asks for a stream.
AnnounceTold(c) ==
  /\ pc[c] = "telling" /\ Job[c].op = "announce" /\ Told(c)
  /\ pc' = [pc EXCEPT ![c] = "creating"]
  /\ UNCHANGED <<entry, streams, requests, notices, peerView>>

\* openRequestStream registers the stream, or throws and the entry stays.
AnnounceStream(c) ==
  /\ pc[c] = "creating"
  /\ \/ pc' = [pc EXCEPT ![c] = "waiting"] /\ streams' = streams \cup {c}
     \/ pc' = [pc EXCEPT ![c] = "failed"] /\ UNCHANGED streams
  /\ UNCHANGED <<entry, requests, notices, peerView>>

AnnounceAccepted(c) ==
  /\ pc[c] = "waiting"
  /\ pc' = [pc EXCEPT ![c] = "ok"]
  /\ UNCHANGED <<entry, streams, requests, notices, peerView>>

\* REQUEST_ERROR: whatever entry the namespace has now is deleted.
AnnounceRejected(c) ==
  LET n == Job[c].ns IN
  /\ pc[c] = "waiting"
  /\ pc' = [pc EXCEPT ![c] = "withdrawing"]
  /\ ForgetEntry(n)
  /\ Notify(c, n, "withdrawn")
  /\ UNCHANGED <<streams, phase, alive, prefix, wanted, established, updates, peerPrefix>>

RejectionTold(c) ==
  /\ pc[c] = "withdrawing" /\ Told(c)
  /\ pc' = [pc EXCEPT ![c] = "failed"]
  /\ streams' = streams \ {c}
  /\ UNCHANGED <<entry, requests, notices, peerView>>

\* The peer resets or cancels the PUBLISH_NAMESPACE; the entry stays.
AnnouncementLost(c) ==
  /\ c \in streams
  /\ streams' = streams \ {c}
  /\ pc' = IF pc[c] = "waiting" THEN [pc EXCEPT ![c] = "failed"] ELSE pc
  /\ UNCHANGED <<entry, requests, notices, peerView>>

\* The entry has a Request ID once its call asked for a stream.
HasRequestId(n) == pc[entry[n]] # "telling"

Withdraw(c) ==
  /\ pc' = [pc EXCEPT ![c] = "telling"]
  /\ ForgetEntry(Job[c].ns)
  /\ Notify(c, Job[c].ns, "withdrawn")

\* cancelAnnounce up to its first await.
CancelAnnounce(c) ==
  LET n == Job[c].ns IN
  /\ pc[c] = "idle" /\ Job[c].op = "cancel"
  /\ \/ /\ n \notin Announced
        /\ pc' = [pc EXCEPT ![c] = "ok"]
        /\ UNCHANGED <<entry, streams, visited, known, notices, told, faults, disturbed>>
     \/ /\ n \in Announced /\ HasRequestId(n)
        /\ streams' = streams \ {entry[n]}
        /\ pc' = [d \in Calls |->
             IF d = c THEN "aborting"
             ELSE IF d = entry[n] /\ pc[d] = "waiting" THEN "failed" ELSE pc[d]]
        /\ UNCHANGED <<entry, visited, known, notices, told, faults, disturbed>>
     \/ /\ n \in Announced /\ ~HasRequestId(n)
        /\ Withdraw(c)
        /\ UNCHANGED streams
  /\ UNCHANGED <<phase, alive, prefix, wanted, established, updates, peerPrefix>>

\* The abort resolved: delete the entry by its name, tell the subscriptions.
CancelAborted(c) ==
  /\ pc[c] = "aborting"
  /\ Withdraw(c)
  /\ UNCHANGED <<streams, phase, alive, prefix, wanted, established, updates, peerPrefix>>

CancelTold(c) ==
  /\ pc[c] = "telling" /\ Job[c].op = "cancel" /\ Told(c)
  /\ pc' = [pc EXCEPT ![c] = "ok"]
  /\ UNCHANGED <<entry, streams, requests, notices, peerView>>

-----------------------------------------------------------------------------
(* The requests of the peer.                                               *)

\* handleIncomingSubscribeNamespaceDraft18 up to the await of its answer.
SubscribeNamespace(r) ==
  /\ phase[r] = "none"
  /\ IF Overlaps(r, prefix[r])
     THEN phase' = [phase EXCEPT ![r] = "ended"] /\ UNCHANGED alive
     ELSE phase' = [phase EXCEPT ![r] = "accepting"] /\ alive' = alive \cup {r}
  /\ UNCHANGED <<application, prefix, wanted, known, established, visited, updates, notices,
                 peerView>>

\* Two requests whose prefixes overlap were both found free of overlaps.
Overlapping(r, p) == {o \in established \cup {r} : Overlaps(r, p) /\
  (o = r \/ Matches(prefix[o], p) \/ Matches(p, prefix[o]))}

\* REQUEST_OK was written: add(), and start listing what is announced.
RequestAccepted(r) ==
  /\ phase[r] = "accepting"
  /\ phase' = [phase EXCEPT ![r] = "telling"]
  /\ established' = established \cup {r}
  /\ disturbed' = disturbed \cup Overlapping(r, prefix[r])
  /\ UNCHANGED <<application, alive, prefix, wanted, known, visited, updates, notices,
                 peerPrefix, told, faults>>

\* The next turn of the loop over announcedNamespaces, a Map that other threads
\* change under it. (The order of the Map is left open.)
ListNext(r) ==
  /\ phase[r] = "telling" /\ Told(r)
  /\ \E n \in Announced \ visited[r] :
       /\ visited' = [visited EXCEPT ![r] = @ \cup {n}]
       /\ Notify(r, n, "announced")
  /\ UNCHANGED <<application, phase, alive, prefix, wanted, established, updates, peerPrefix>>

\* Mutant of ListEnds: the loop stops early.
ListStops(r) ==
  /\ phase[r] = "telling" /\ Told(r)
  /\ phase' = [phase EXCEPT ![r] = IF r \in alive THEN "open" ELSE "ended"]
  /\ visited' = [visited EXCEPT ![r] = {}]
  /\ UNCHANGED <<application, alive, prefix, wanted, known, established, updates, notices,
                 peerView>>

ListEnds(r) ==
  /\ phase[r] = "telling" /\ Told(r)
  /\ Announced \subseteq visited[r]
  /\ phase' = [phase EXCEPT ![r] = IF r \in alive THEN "open" ELSE "ended"]
  /\ visited' = [visited EXCEPT ![r] = {}]
  /\ UNCHANGED <<application, alive, prefix, wanted, known, established, updates, notices,
                 peerView>>

\* A REQUEST_UPDATE with a new prefix, up to the await of its answer. A peer
\* that reads the REQUEST_OK forgets what the new prefix does not match.
UpdatePrefix(r, p) ==
  /\ phase[r] = "open" /\ r \in alive
  /\ updates[r] < MaxPrefixUpdates
  /\ updates' = [updates EXCEPT ![r] = @ + 1]
  /\ IF Overlaps(r, p)
     THEN phase' = [phase EXCEPT ![r] = "refusing"] /\ UNCHANGED <<wanted, peerPrefix, told>>
     ELSE /\ phase' = [phase EXCEPT ![r] = "updating"]
          /\ wanted' = [wanted EXCEPT ![r] = p]
          /\ peerPrefix' = [peerPrefix EXCEPT ![r] = p]
          /\ told' = [told EXCEPT ![r] = {n \in @ : Matches(p, n)}]
  /\ UNCHANGED <<application, alive, prefix, known, established, visited, notices, faults,
                 disturbed>>

\* Mutant of PrefixUpdated: what the new prefix matches is not listed.
PrefixUpdatedOnly(r) ==
  LET p == wanted[r] IN
  /\ phase[r] = "updating"
  /\ phase' = [phase EXCEPT ![r] = "open"]
  /\ prefix' = [prefix EXCEPT ![r] = p]
  /\ known' = [known EXCEPT ![r] = {n \in @ : Matches(p, n)}]
  /\ disturbed' = disturbed \cup Overlapping(r, p)
  /\ UNCHANGED <<application, alive, wanted, established, visited, updates, notices,
                 peerPrefix, told, faults>>

\* REQUEST_OK was written: applyPrefixUpdate, update().
PrefixUpdated(r) ==
  LET p == wanted[r] IN
  /\ phase[r] = "updating"
  /\ phase' = [phase EXCEPT ![r] = "telling"]
  /\ prefix' = [prefix EXCEPT ![r] = p]
  /\ known' = [known EXCEPT ![r] = {n \in @ : Matches(p, n)}]
  /\ disturbed' = disturbed \cup Overlapping(r, p)
  /\ UNCHANGED <<application, alive, wanted, established, visited, updates, notices,
                 peerPrefix, told, faults>>

\* endRefusedRequest after REQUEST_ERROR was written: close the stream ...
RefusalWritten(r) ==
  /\ phase[r] = "refusing"
  /\ phase' = [phase EXCEPT ![r] = "closing"]
  /\ alive' = alive \ {r}
  /\ UNCHANGED <<application, prefix, wanted, known, established, visited, updates, notices,
                 peerView>>

\* endNamespaceSubscription. What the peer knew of the request ends with it.
RemoveSubscription(r) ==
  /\ established' = established \ {r}
  /\ known' = [known EXCEPT ![r] = {}]
  /\ told' = [told EXCEPT ![r] = {}]
  /\ disturbed' = disturbed \ {r}
  /\ faults' = faults \ {r}
  /\ prefix' = [prefix EXCEPT ![r] = NoPrefix]
  /\ wanted' = [wanted EXCEPT ![r] = NoPrefix]
  /\ peerPrefix' = [peerPrefix EXCEPT ![r] = NoPrefix]

\* ... and, once it is closed, endRequest.
RefusedRequestEnds(r) ==
  /\ phase[r] = "closing"
  /\ phase' = [phase EXCEPT ![r] = "ended"]
  /\ RemoveSubscription(r)
  /\ UNCHANGED <<application, alive, visited, updates, notices>>

\* The reader finds the peer's FIN or reset.
RequestEnds(r) ==
  /\ phase[r] = "open" /\ r \in alive
  /\ phase' = [phase EXCEPT ![r] = "ended"]
  /\ alive' = alive \ {r}
  /\ RemoveSubscription(r)
  /\ UNCHANGED <<application, visited, updates, notices>>

\* The peer's STOP_SENDING, at any time. An answer being written rejects; a
\* loop that is listing namespaces goes on.
RequestCancelled(r) ==
  /\ r \in alive
  /\ alive' = alive \ {r}
  /\ phase' = IF phase[r] = "telling" THEN phase ELSE [phase EXCEPT ![r] = "ended"]
  /\ RemoveSubscription(r)
  /\ UNCHANGED <<application, visited, updates, notices>>

-----------------------------------------------------------------------------
\* What the event loop does by itself.
Local(t) ==
  \/ KeepTelling(t)
  \/ /\ t \in Calls
     /\ AnnounceTold(t) \/ AnnounceStream(t) \/ RejectionTold(t) \/ CancelAborted(t) \/ CancelTold(t)
  \/ /\ t \in Requests
     /\ \/ RequestAccepted(t) \/ ListNext(t) \/ ListEnds(t) \/ PrefixUpdated(t)
        \/ RefusalWritten(t) \/ RefusedRequestEnds(t)

Next ==
  \/ \E t \in Threads : Local(t)
  \/ \E c \in Calls :
       \/ AnnounceNamespace(c) \/ CancelAnnounce(c)
       \/ AnnounceAccepted(c) \/ AnnounceRejected(c) \/ AnnouncementLost(c)
  \/ \E r \in Requests :
       \/ SubscribeNamespace(r) \/ RequestEnds(r) \/ RequestCancelled(r)
       \/ \E p \in Prefixes : UpdatePrefix(r, p)

Spec == Init /\ [][Next]_vars

\* A promise that resolved is eventually continued, and a write or a stream's
\* creation eventually settles. Nothing makes the application or the peer act.
FairSpec == Spec /\ \A t \in Threads : WF_vars(Local(t))

-----------------------------------------------------------------------------
(* Properties.                                                             *)

Settled(r) == phase[r] = "open" /\ \A t \in Threads : \A m \in notices[t].to : m.request # r

\* What the peer was told agrees with what is announced, as soon as a request
\* is open and no notice for it is on its way (record, applyPrefixUpdate).
ViewAgrees == \A r \in alive \ disturbed :
  Settled(r) => told[r] = {n \in Announced : Matches(prefix[r], n)}

\* No NAMESPACE tells the peer what it knows, and no NAMESPACE_DONE ends what
\* it was never told, however announcements, cancels and loops interleave.
NoticesMakeSense == faults \subseteq disturbed

\* The same with no exception: "A NAMESPACE_DONE only follows a NAMESPACE for
\* the same suffix" (incoming-namespace-subscriptions.ts:8).
NoticesAlwaysMakeSense == faults = {}

\* A namespace the application announces is told to a matching request, unless
\* it is withdrawn or the request ends or moves away first.
EventuallyTold == \A r \in Requests : \A n \in Namespaces :
  (r \in established /\ n \in Announced /\ Matches(prefix[r], n))
    ~> (\/ n \in told[r] \/ n \notin Announced \/ ~Matches(prefix[r], n)
        \/ r \notin alive \/ r \in disturbed)

\* cancelAnnounce(): "withdrawn by cancelling the request" (session.ts:5304).
\* A namespace with no entry has no PUBLISH_NAMESPACE that goes on.
WithdrawnIsCancelled == \A c \in Calls :
  pc[c] = "ok" /\ Job[c].op = "announce" /\ c \in streams => entry[Job[c].ns] # NoCall
=============================================================================
