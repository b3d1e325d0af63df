----------------------- MODULE NamespaceNotices_proofs -----------------------
(***************************************************************************)
(* Proofs about NamespaceNotices, for every set of requests, calls,        *)
(* namespaces and prefixes: type correctness, that notices make sense, and *)
(* that what the peer was told agrees with what is announced.              *)
(***************************************************************************)
EXTENDS NamespaceNotices, SequenceTheorems, TLAPS

-----------------------------------------------------------------------------
(* Prefixes and suffixes.                                                  *)

\* Two prefixes of one namespace: the shorter is a prefix of the longer.
LEMMA MatchingPrefixesOverlap ==
  ASSUME NEW p \in Seq(Fields), NEW q \in Seq(Fields), NEW n \in Seq(Fields),
         Matches(p, n), Matches(q, n)
  PROVE  Matches(p, q) \/ Matches(q, p)
<1>1. Len(p) \in Nat /\ Len(q) \in Nat /\ Len(n) \in Nat
  OBVIOUS
<1>2. ASSUME Len(p) <= Len(q), NEW i \in 1 .. Len(p)
      PROVE  q[i] = p[i]
  <2>1. i \in 1 .. Len(q)
    BY <1>1, <1>2
  <2> QED BY <2>1 DEF Matches
<1>3. ASSUME Len(q) <= Len(p), NEW i \in 1 .. Len(q)
      PROVE  p[i] = q[i]
  <2>1. i \in 1 .. Len(p)
    BY <1>1, <1>3
  <2> QED BY <2>1 DEF Matches
<1> QED BY <1>1, <1>2, <1>3 DEF Matches

\* The suffix of a namespace is a sequence of fields.
LEMMA SuffixType ==
  ASSUME NEW p \in Seq(Fields), NEW n \in Seq(Fields), Matches(p, n)
  PROVE  Suffix(p, n) \in Seq(Fields)
BY DEF Suffix, Matches

\* A prefix followed by the suffix after it is the namespace.
LEMMA SuffixRestores ==
  ASSUME NEW p \in Seq(Fields), NEW n \in Seq(Fields), Matches(p, n)
  PROVE  p \o Suffix(p, n) = n
<1> DEFINE s == Suffix(p, n)
<1>1. Len(p) \in Nat /\ Len(n) \in Nat /\ Len(p) <= Len(n)
  BY DEF Matches
<1>2. s \in Seq(Fields) /\ Len(s) = Len(n) - Len(p)
  BY <1>1, SuffixType DEF Suffix
<1>3. \A i \in 1 .. Len(s) : s[i] = n[Len(p) + i]
  BY <1>1, <1>2 DEF Suffix
<1>4. p \o s \in Seq(Fields) /\ Len(p \o s) = Len(n)
  BY <1>1, <1>2
<1>5. ASSUME NEW i \in 1 .. Len(n)
      PROVE  (p \o s)[i] = n[i]
  <2>1. CASE i <= Len(p)
    BY <1>1, <1>2, <2>1 DEF Matches
  <2>2. CASE i > Len(p)
    <3>1. i - Len(p) \in 1 .. Len(s)
      BY <1>1, <1>2, <2>2
    <3>2. (p \o s)[i] = s[i - Len(p)]
      BY <1>1, <1>2, <2>2, <3>1
    <3> QED BY <1>1, <1>3, <3>1, <3>2
  <2>3. i <= Len(p) \/ i > Len(p)
    BY <1>1
  <2> QED BY <2>1, <2>2, <2>3
<1> QED BY <1>4, <1>5, SeqEqual

\* A request that is over has the empty prefix, a sequence of fields too.
LEMMA PrefixType ==
  ASSUME TypeOK, NEW r \in Requests
  PROVE  prefix[r] \in Seq(Fields) /\ peerPrefix[r] \in Seq(Fields) /\ wanted[r] \in Seq(Fields)
<1>1. NoPrefix \in Seq(Fields)
  BY DEF NoPrefix
<1>2. Prefixes \cup {NoPrefix} \subseteq Seq(Fields)
  BY <1>1, NamespaceNoticesAssumption
<1> QED BY <1>2 DEF TypeOK

-----------------------------------------------------------------------------
(* Type correctness.                                                       *)

\* Writing one notice keeps the types of what it assigns.
LEMMA WriteNoticeType ==
  ASSUME TypeOK, NEW t \in Threads, NEW change \in {"none", "announced", "withdrawn"},
         NEW to \in SUBSET Notice, WriteNotice(t, to, change)
  PROVE  /\ notices' \in [Threads -> [change : {"none", "announced", "withdrawn"},
                                      to : SUBSET Notice]]
         /\ told' \in [Requests -> SUBSET Seq(Fields)]
         /\ faults' \subseteq Requests
<1>1. NoNotices \in [change : {"none", "announced", "withdrawn"}, to : SUBSET Notice]
  BY DEF NoNotices
<1>2. CASE to = {} /\ notices' = [notices EXCEPT ![t] = NoNotices] /\ UNCHANGED <<told, faults>>
  BY <1>1, <1>2 DEF TypeOK
<1>3. ASSUME NEW m \in to,
             notices' = [notices EXCEPT ![t] =
               IF to = {m} THEN NoNotices ELSE [change |-> change, to |-> to \ {m}]],
             IF m.request \in alive THEN Deliver(m, change) ELSE UNCHANGED <<told, faults>>
      PROVE  /\ notices' \in [Threads -> [change : {"none", "announced", "withdrawn"},
                                          to : SUBSET Notice]]
             /\ told' \in [Requests -> SUBSET Seq(Fields)]
             /\ faults' \subseteq Requests
  <2>1. m.request \in Requests /\ m.suffix \in Seq(Fields)
    BY DEF Notice
  <2>2. peerPrefix[m.request] \o m.suffix \in Seq(Fields)
    BY <2>1, PrefixType
  <2>3. notices' \in [Threads -> [change : {"none", "announced", "withdrawn"},
                                 to : SUBSET Notice]]
    BY <1>1, <1>3 DEF TypeOK
  <2>4. CASE m.request \notin alive
    BY <1>3, <2>3, <2>4 DEF TypeOK
  <2>5. CASE Deliver(m, change)
    BY <2>1, <2>2, <2>3, <2>5 DEF TypeOK, Deliver
  <2> QED BY <1>3, <2>4, <2>5
<1> QED BY <1>2, <1>3 DEF WriteNotice

\* So does recording a change and writing the first notice of it.
LEMMA NotifyType ==
  ASSUME TypeOK, NEW t \in Threads, NEW n \in Namespaces,
         NEW change \in {"announced", "withdrawn"}, Notify(t, n, change)
  PROVE  /\ known' \in [Requests -> SUBSET Namespaces]
         /\ notices' \in [Threads -> [change : {"none", "announced", "withdrawn"},
                                      to : SUBSET Notice]]
         /\ told' \in [Requests -> SUBSET Seq(Fields)]
         /\ faults' \subseteq Requests
         /\ disturbed' \subseteq Requests
<1> DEFINE concerned == Concerned(n, change)
           to == {[request |-> r, suffix |-> Suffix(prefix[r], n)] : r \in concerned}
<1>1. concerned \subseteq Requests /\ \A r \in concerned : Matches(prefix[r], n)
  BY DEF Concerned, TypeOK
<1>2. \A r \in concerned : Suffix(prefix[r], n) \in Seq(Fields)
  BY <1>1, PrefixType, SuffixType, NamespaceNoticesAssumption
<1>3. to \in SUBSET Notice
  BY <1>1, <1>2 DEF Notice
<1>4. WriteNotice(t, to, change)
  BY DEF Notify
<1>5. known' \in [Requests -> SUBSET Namespaces]
  BY DEF Notify, TypeOK
<1>6. disturbed' \subseteq Requests
  BY <1>1 DEF Notify, Disturbs, TypeOK
<1> HIDE DEF to
<1> QED BY <1>3, <1>4, <1>5, <1>6, WriteNoticeType

\* So does ending a subscription.
LEMMA RemoveSubscriptionType ==
  ASSUME TypeOK, NEW r \in Requests, RemoveSubscription(r)
  PROVE  /\ established' \subseteq Requests
         /\ known' \in [Requests -> SUBSET Namespaces]
         /\ told' \in [Requests -> SUBSET Seq(Fields)]
         /\ disturbed' \subseteq Requests
         /\ faults' \subseteq Requests
         /\ prefix' \in [Requests -> Prefixes \cup {NoPrefix}]
         /\ wanted' \in [Requests -> Prefixes \cup {NoPrefix}]
         /\ peerPrefix' \in [Requests -> Prefixes \cup {NoPrefix}]
BY DEF TypeOK, RemoveSubscription

\* Forgetting an entry keeps the types of the entries and of the loops.
LEMMA ForgetEntryType ==
  ASSUME TypeOK, NEW n \in Namespaces, ForgetEntry(n)
  PROVE  /\ entry' \in [Namespaces -> Calls \cup {NoCall}]
         /\ visited' \in [Requests -> SUBSET Namespaces]
BY DEF TypeOK, ForgetEntry

\* A step of a call of the application keeps the types.
LEMMA CallType ==
  ASSUME TypeOK, NEW c \in Calls,
         \/ AnnounceTold(c) \/ AnnounceStream(c) \/ RejectionTold(c) \/ CancelAborted(c)
         \/ CancelTold(c) \/ AnnounceNamespace(c) \/ CancelAnnounce(c)
         \/ AnnounceAccepted(c) \/ AnnounceRejected(c) \/ AnnouncementLost(c)
  PROVE  TypeOK'
<1> DEFINE n == Job[c].ns
<1>0. n \in Namespaces /\ c \in Threads
  BY NamespaceNoticesAssumption DEF Threads
<1>1. CASE AnnounceTold(c) \/ AnnounceStream(c) \/ RejectionTold(c) \/ CancelTold(c)
           \/ AnnounceAccepted(c) \/ AnnouncementLost(c)
  BY <1>1 DEF TypeOK, AnnounceTold, AnnounceStream, RejectionTold, CancelTold, AnnounceAccepted,
              AnnouncementLost, requests, peerView
<1>2. CASE AnnounceNamespace(c)
  <2>1. CASE n \in Announced
    BY <1>2, <2>1 DEF TypeOK, AnnounceNamespace
  <2>2. CASE n \notin Announced
    <3>1. Notify(c, n, "announced")
      BY <1>2, <2>2 DEF AnnounceNamespace
    <3> HIDE DEF n
    <3>2. entry' = [entry EXCEPT ![n] = c] /\ pc' = [pc EXCEPT ![c] = "telling"]
      BY <1>2, <2>2 DEF AnnounceNamespace, n
    <3> QED BY <1>0, <1>2, <3>1, <3>2, NotifyType DEF TypeOK, AnnounceNamespace
  <2> QED BY <2>1, <2>2
<1>3. CASE AnnounceRejected(c)
  <2>1. ForgetEntry(n) /\ Notify(c, n, "withdrawn") /\ pc' = [pc EXCEPT ![c] = "withdrawing"]
    BY <1>3 DEF AnnounceRejected
  <2> HIDE DEF n
  <2> QED BY <1>0, <1>3, <2>1, NotifyType, ForgetEntryType DEF TypeOK, AnnounceRejected
<1>4. CASE CancelAborted(c)
  <2>1. ForgetEntry(n) /\ Notify(c, n, "withdrawn") /\ pc' = [pc EXCEPT ![c] = "telling"]
    BY <1>4 DEF CancelAborted, Withdraw
  <2> HIDE DEF n
  <2> QED BY <1>0, <1>4, <2>1, NotifyType, ForgetEntryType DEF TypeOK, CancelAborted
<1>5. CASE CancelAnnounce(c)
  <2>1. CASE n \notin Announced
    BY <1>5, <2>1 DEF TypeOK, CancelAnnounce
  <2>2. CASE n \in Announced /\ HasRequestId(n)
    BY <1>5, <2>2 DEF TypeOK, CancelAnnounce
  <2>3. CASE n \in Announced /\ ~HasRequestId(n)
    <3>1. /\ ForgetEntry(n) /\ Notify(c, n, "withdrawn") /\ pc' = [pc EXCEPT ![c] = "telling"]
          /\ streams' = streams
      BY <1>5, <2>3 DEF CancelAnnounce, Withdraw
    <3> HIDE DEF n
    <3> QED BY <1>0, <1>5, <3>1, NotifyType, ForgetEntryType DEF TypeOK, CancelAnnounce
  <2> QED BY <2>1, <2>2, <2>3
<1> QED BY <1>1, <1>2, <1>3, <1>4, <1>5

\* A step of a request of the peer keeps the types.
LEMMA RequestType ==
  ASSUME TypeOK, NEW r \in Requests,
         \/ RequestAccepted(r) \/ ListNext(r) \/ ListEnds(r) \/ PrefixUpdated(r)
         \/ RefusalWritten(r) \/ RefusedRequestEnds(r) \/ SubscribeNamespace(r)
         \/ RequestEnds(r) \/ RequestCancelled(r) \/ \E p \in Prefixes : UpdatePrefix(r, p)
  PROVE  TypeOK'
<1>0. r \in Threads
  BY DEF Threads
<1>1. CASE SubscribeNamespace(r) \/ ListEnds(r) \/ RefusalWritten(r)
  BY <1>1 DEF TypeOK, SubscribeNamespace, ListEnds, RefusalWritten, application, peerView
<1>2. ASSUME NEW p
      PROVE  Overlapping(r, p) \subseteq Requests
  BY DEF Overlapping, TypeOK
<1>3. CASE RequestAccepted(r)
  BY <1>2, <1>3 DEF TypeOK, RequestAccepted, application
<1>4. CASE PrefixUpdated(r)
  BY <1>2, <1>4 DEF TypeOK, PrefixUpdated, application
<1>5. CASE ListNext(r)
  <2>1. PICK n \in Namespaces : /\ visited' = [visited EXCEPT ![r] = @ \cup {n}]
                               /\ Notify(r, n, "announced")
    BY <1>5 DEF ListNext, Announced
  <2> QED BY <1>0, <1>5, <2>1, NotifyType DEF TypeOK, ListNext, application
<1>6. CASE RefusedRequestEnds(r) \/ RequestEnds(r) \/ RequestCancelled(r)
  <2>1. RemoveSubscription(r)
    BY <1>6 DEF RefusedRequestEnds, RequestEnds, RequestCancelled
  <2>2. alive' \subseteq Requests
    BY <1>6 DEF TypeOK, RefusedRequestEnds, RequestEnds, RequestCancelled
  <2>3. phase' \in [Requests -> {"none", "accepting", "telling", "open", "updating", "refusing",
                                "closing", "ended"}]
    BY <1>6 DEF TypeOK, RefusedRequestEnds, RequestEnds, RequestCancelled
  <2>4. UNCHANGED <<application, visited, updates, notices>>
    BY <1>6 DEF RefusedRequestEnds, RequestEnds, RequestCancelled
  <2> QED BY <2>1, <2>2, <2>3, <2>4, RemoveSubscriptionType DEF TypeOK, application
<1>7. ASSUME NEW p \in Prefixes, UpdatePrefix(r, p)
      PROVE  TypeOK'
  <2>1. updates' \in [Requests -> 0 .. MaxPrefixUpdates]
    BY <1>7, NamespaceNoticesAssumption DEF TypeOK, UpdatePrefix
  <2>2. CASE Overlaps(r, p)
    BY <1>7, <2>1, <2>2 DEF TypeOK, UpdatePrefix, application
  <2>3. CASE ~Overlaps(r, p)
    <3>0. /\ phase' = [phase EXCEPT ![r] = "updating"]
          /\ wanted' = [wanted EXCEPT ![r] = p]
          /\ peerPrefix' = [peerPrefix EXCEPT ![r] = p]
          /\ told' = [told EXCEPT ![r] = {n \in @ : Matches(p, n)}]
      BY <1>7, <2>3 DEF UpdatePrefix
    <3>1. told' \in [Requests -> SUBSET Seq(Fields)]
      BY <3>0 DEF TypeOK
    <3>2. /\ phase' \in [Requests -> {"none", "accepting", "telling", "open", "updating",
                                     "refusing", "closing", "ended"}]
          /\ wanted' \in [Requests -> Prefixes \cup {NoPrefix}]
          /\ peerPrefix' \in [Requests -> Prefixes \cup {NoPrefix}]
      BY <3>0 DEF TypeOK
    <3>3. UNCHANGED <<application, alive, prefix, known, established, visited, notices, faults,
                      disturbed>>
      BY <1>7 DEF UpdatePrefix
    <3> QED BY <2>1, <3>1, <3>2, <3>3 DEF TypeOK, application
  <2> QED BY <2>2, <2>3
<1> QED BY <1>1, <1>3, <1>4, <1>5, <1>6, <1>7

\* So does the next write of a loop.
LEMMA KeepTellingType ==
  ASSUME TypeOK, NEW t \in Threads, KeepTelling(t)
  PROVE  TypeOK'
<1>1. WriteNotice(t, notices[t].to, notices[t].change) /\ notices[t].to # {}
  BY DEF KeepTelling
<1>2. notices[t].to \in SUBSET Notice /\ notices[t].change \in {"none", "announced", "withdrawn"}
  BY DEF TypeOK
<1>3. UNCHANGED <<application, requests, peerPrefix, disturbed>>
  BY DEF KeepTelling
<1> QED BY <1>1, <1>2, <1>3, WriteNoticeType DEF TypeOK, application, requests

\* Every state is type correct.
THEOREM TypeCorrect == Spec => []TypeOK
<1>1. ASSUME Init
      PROVE  TypeOK
  <2>1. NoNotices \in [change : {"none", "announced", "withdrawn"}, to : SUBSET Notice]
    BY DEF NoNotices
  <2> QED BY <1>1, <2>1, NamespaceNoticesAssumption DEF Init, TypeOK
<1>2. ASSUME TypeOK, [Next]_vars
      PROVE  TypeOK'
  <2>1. CASE UNCHANGED vars
    BY <1>2, <2>1 DEF TypeOK, vars, application, requests, peerView
  <2>2. ASSUME NEW t \in Threads, Local(t)
        PROVE  TypeOK'
    BY <1>2, <2>2, CallType, RequestType, KeepTellingType DEF Local
  <2>3. ASSUME NEW c \in Calls,
               \/ AnnounceNamespace(c) \/ CancelAnnounce(c)
               \/ AnnounceAccepted(c) \/ AnnounceRejected(c) \/ AnnouncementLost(c)
        PROVE  TypeOK'
    BY <1>2, <2>3, CallType
  <2>4. ASSUME NEW r \in Requests,
               \/ SubscribeNamespace(r) \/ RequestEnds(r) \/ RequestCancelled(r)
               \/ \E p \in Prefixes : UpdatePrefix(r, p)
        PROVE  TypeOK'
    BY <1>2, <2>4, RequestType
  <2> QED BY <1>2, <2>1, <2>2, <2>3, <2>4 DEF Next
<1> QED BY <1>1, <1>2, PTL DEF Spec

-----------------------------------------------------------------------------
(* What the peer was told.                                                 *)

\* No other established request has a prefix that overlaps the one of r.
Alone(r) == \A o \in established \ {r} :
  ~Matches(prefix[o], prefix[r]) /\ ~Matches(prefix[r], prefix[o])

\* No notice to r waits to be written.
NoneWaits(r) == \A t \in Threads : \A m \in notices[t].to : m.request # r

\* A request is established while its stream is alive and it was accepted, and
\* the peer is ahead of us by the prefix update that is being answered.
PhaseSound(r) ==
  /\ phase[r] \in {"none", "closing", "ended"} => r \notin alive
  /\ phase[r] \in {"none", "accepting"} => r \notin established
  /\ r \in alive /\ phase[r] # "accepting" => r \in established
  /\ peerPrefix[r] = IF phase[r] = "updating" THEN wanted[r] ELSE prefix[r]

\* What the record says the peer knows is what it was told, if no race touched r:
\* no other request is then concerned by a change, so no notice has to wait.
ToldSound(r) ==
  /\ r \notin established => told[r] = {} /\ known[r] = {}
  /\ \A n \in known[r] : Matches(prefix[r], n)
  /\ phase[r] \in {"none", "accepting"} => NoneWaits(r)
  /\ r \in established \ disturbed =>
       /\ Alone(r)
       /\ NoneWaits(r)
       /\ r \in alive => told[r] = IF phase[r] = "updating"
                                   THEN {n \in known[r] : Matches(wanted[r], n)}
                                   ELSE known[r]

\* The record has the announced namespaces the prefix matches; a loop that lists
\* them has recorded those it passed.
RecordSound(r) ==
  /\ \A n \in known[r] : n \in Announced
  /\ phase[r] # "telling" => visited[r] = {}
  /\ r \in established => \A n \in Announced :
       Matches(prefix[r], n) /\ (phase[r] = "telling" => n \in visited[r]) => n \in known[r]

\* The inductive invariant.
NoticesSound ==
  /\ TypeOK
  /\ NoticesMakeSense
  /\ \A r \in Requests : PhaseSound(r) /\ ToldSound(r) /\ RecordSound(r)

\* A notice to q waits after a write only if it did before, or was to be written.
LEMMA WriteNoticeWaits ==
  ASSUME TypeOK, NEW t \in Threads, NEW change, NEW to \in SUBSET Notice,
         WriteNotice(t, to, change), NEW q \in Requests, NoneWaits(q),
         \A m \in to : m.request # q
  PROVE  NoneWaits(q)' /\ told'[q] = told[q]
<1>1. NoNotices.to = {}
  BY DEF NoNotices
<1>2. CASE to = {} /\ notices' = [notices EXCEPT ![t] = NoNotices] /\ UNCHANGED <<told, faults>>
  BY <1>1, <1>2 DEF NoneWaits, TypeOK
<1>3. ASSUME NEW m \in to,
             notices' = [notices EXCEPT ![t] =
               IF to = {m} THEN NoNotices ELSE [change |-> change, to |-> to \ {m}]],
             IF m.request \in alive THEN Deliver(m, change) ELSE UNCHANGED <<told, faults>>
      PROVE  NoneWaits(q)' /\ told'[q] = told[q]
  <2>1. NoneWaits(q)'
    BY <1>1, <1>3 DEF NoneWaits, TypeOK
  <2>2. told'[q] = told[q]
    BY <1>3 DEF Deliver, TypeOK
  <2> QED BY <2>1, <2>2
<1> QED BY <1>2, <1>3 DEF WriteNotice

\* One undisturbed request at most is concerned by a change.
LEMMA ConcernedAlone ==
  ASSUME TypeOK, NEW n \in Namespaces, NEW change, NEW q \in Concerned(n, change), Alone(q)
  PROVE  Concerned(n, change) = {q}
<1> SUFFICES ASSUME NEW o \in Concerned(n, change), o # q
             PROVE  FALSE
  OBVIOUS
<1>1. /\ o \in established \ {q} /\ o \in Requests /\ q \in Requests
      /\ Matches(prefix[o], n) /\ Matches(prefix[q], n)
  BY DEF Concerned, TypeOK
<1>2. /\ prefix[o] \in Seq(Fields) /\ prefix[q] \in Seq(Fields) /\ n \in Seq(Fields)
  BY <1>1, PrefixType, NamespaceNoticesAssumption
<1>3. Matches(prefix[o], prefix[q]) \/ Matches(prefix[q], prefix[o])
  BY <1>1, <1>2, MatchingPrefixesOverlap
<1> QED BY <1>1, <1>3 DEF Alone

\* Recording a change and writing the first notice of it keeps the peer's view
\* in step with the record.
LEMMA NotifyKeepsTold ==
  ASSUME NoticesSound, NEW t \in Threads, NEW n \in Namespaces,
         NEW change \in {"announced", "withdrawn"}, Notify(t, n, change),
         UNCHANGED <<phase, alive, prefix, wanted, established, peerPrefix>>
  PROVE  NoticesMakeSense' /\ \A q \in Requests : PhaseSound(q)' /\ ToldSound(q)'
<1> DEFINE concerned == Concerned(n, change)
           to == {[request |-> r, suffix |-> Suffix(prefix[r], n)] : r \in concerned}
<1>1. /\ TypeOK
      /\ concerned \subseteq Requests
      /\ \A r \in concerned : /\ Matches(prefix[r], n) /\ r \in established
                              /\ change = "announced" <=> n \notin known[r]
  BY DEF Concerned, TypeOK, NoticesSound
<1>2. \A r \in concerned : Suffix(prefix[r], n) \in Seq(Fields)
  BY <1>1, PrefixType, SuffixType, NamespaceNoticesAssumption
<1>3. to \in SUBSET Notice
  BY <1>1, <1>2 DEF Notice
<1>4. WriteNotice(t, to, change)
  BY DEF Notify
<1>5. /\ disturbed' = disturbed \cup {r \in concerned : phase[r] = "updating"}
      /\ \A q \in Requests : known'[q] =
           IF q \notin concerned THEN known[q]
           ELSE IF change = "announced" THEN known[q] \cup {n} ELSE known[q] \ {n}
  BY DEF Notify, Disturbs
<1>6. ASSUME NEW q \in Requests
      PROVE  PhaseSound(q)'
  BY DEF NoticesSound, PhaseSound
<1>7. ASSUME NEW q \in Requests, q \notin concerned
      PROVE  ToldSound(q)'
  <2>1. \A m \in to : m.request # q
    BY <1>7
  <2>2. NoneWaits(q) => NoneWaits(q)'
    BY <1>1, <1>3, <1>4, <2>1, WriteNoticeWaits
  <2>3. told'[q] = told[q]
    <3>1. \A m \in to : m.request # q
      BY <2>1
    <3> HIDE DEF to
    <3> QED BY <1>1, <1>3, <1>4, <3>1 DEF WriteNotice, Deliver, TypeOK
  <2>4. known'[q] = known[q] /\ (q \notin disturbed' => q \notin disturbed)
    BY <1>5, <1>7
  <2> QED BY <2>2, <2>3, <2>4 DEF NoticesSound, ToldSound, Alone
<1>8. ASSUME NEW q \in concerned, q \notin disturbed'
      PROVE  /\ to = {[request |-> q, suffix |-> Suffix(prefix[q], n)]}
             /\ phase[q] # "updating"
             /\ peerPrefix[q] \o Suffix(prefix[q], n) = n
             /\ q \in alive => told[q] = known[q]
             /\ Alone(q) /\ NoneWaits(q)
  <2>1. phase[q] # "updating" /\ q \notin disturbed /\ q \in Requests /\ q \in established
    BY <1>1, <1>5, <1>8
  <2>2. Alone(q) /\ NoneWaits(q) /\ (q \in alive => told[q] = known[q])
    BY <2>1 DEF NoticesSound, ToldSound
  <2>3. concerned = {q}
    BY <1>1, <2>2, ConcernedAlone
  <2>4. peerPrefix[q] = prefix[q]
    BY <2>1 DEF NoticesSound, PhaseSound
  <2>5. prefix[q] \o Suffix(prefix[q], n) = n
    BY <1>1, <2>1, PrefixType, SuffixRestores, NamespaceNoticesAssumption
  <2> QED BY <2>1, <2>2, <2>3, <2>4, <2>5
<1>9. ASSUME NEW q \in concerned, q \notin disturbed'
      PROVE  /\ NoneWaits(q)'
             /\ q \in alive => told'[q] = known'[q]
             /\ faults' = faults
  <2> DEFINE m == [request |-> q, suffix |-> Suffix(prefix[q], n)]
  <2>1. to = {m} /\ m.request = q /\ m.suffix = Suffix(prefix[q], n)
    BY <1>8, <1>9
  <2>2. /\ notices' = [notices EXCEPT ![t] = NoNotices]
        /\ IF q \in alive THEN Deliver(m, change) ELSE UNCHANGED <<told, faults>>
    <3> HIDE DEF to, m
    <3> QED BY <1>4, <2>1 DEF WriteNotice
  <2>3. NoneWaits(q)'
    BY <1>1, <1>8, <1>9, <2>2 DEF NoneWaits, NoNotices, TypeOK
  <2>4. CASE q \notin alive
    BY <2>2, <2>3, <2>4
  <2>5. CASE q \in alive
    <3>1. Deliver(m, change) /\ told[q] = known[q] /\ peerPrefix[q] \o m.suffix = n
      BY <1>8, <1>9, <2>1, <2>2, <2>5
    <3> HIDE DEF m
    <3>2. /\ told' = [told EXCEPT ![q] = IF change = "announced" THEN @ \cup {n} ELSE @ \ {n}]
          /\ (change = "announced" <=> n \notin told[q]) => faults' = faults
      BY <2>1, <3>1 DEF Deliver
    <3>3. q \in Requests /\ (change = "announced" <=> n \notin told[q])
      BY <1>1, <1>9, <3>1
    <3>4. told'[q] = known'[q]
      BY <1>1, <1>5, <1>9, <3>1, <3>2, <3>3 DEF TypeOK
    <3> QED BY <2>3, <3>2, <3>3, <3>4
  <2> QED BY <2>4, <2>5
<1>10. ASSUME NEW q \in concerned
       PROVE  ToldSound(q)'
  <2>1. q \in Requests /\ q \in established
    BY <1>1, <1>10
  <2>2. \A k \in known'[q] : Matches(prefix[q], k)
    <3>1. known'[q] \subseteq known[q] \cup {n} /\ Matches(prefix[q], n)
      BY <1>1, <1>5, <1>10, <2>1
    <3>2. \A k \in known[q] : Matches(prefix[q], k)
      BY <2>1 DEF NoticesSound, ToldSound
    <3> QED BY <3>1, <3>2
  <2>3. phase[q] \notin {"none", "accepting"}
    BY <2>1 DEF NoticesSound, PhaseSound
  <2>4. ASSUME q \notin disturbed'
        PROVE  /\ Alone(q)' /\ NoneWaits(q)' /\ phase[q] # "updating"
               /\ q \in alive => told'[q] = known'[q]
    <3>1. Alone(q) /\ phase[q] # "updating"
      BY <1>8, <1>10, <2>4
    <3>2. NoneWaits(q)' /\ (q \in alive => told'[q] = known'[q])
      BY <1>9, <1>10, <2>4
    <3> QED BY <3>1, <3>2 DEF Alone
  <2> QED BY <2>1, <2>2, <2>3, <2>4 DEF ToldSound
<1>11. NoticesMakeSense'
  <2>1. CASE \E q \in concerned : q \notin disturbed'
    BY <1>5, <1>9, <2>1 DEF NoticesSound, NoticesMakeSense
  <2>2. CASE concerned \subseteq disturbed'
    <3>1. \A m \in to : m.request \in concerned
      OBVIOUS
    <3> HIDE DEF to
    <3> HIDE DEF concerned
    <3>2. faults' \subseteq faults \cup concerned
      <4>1. UNCHANGED faults \/ \E m \in to : Deliver(m, change)
        BY <1>4 DEF WriteNotice
      <4>2. ASSUME NEW m \in to, Deliver(m, change)
            PROVE  faults' = faults \/ faults' = faults \cup {m.request}
        BY <4>2 DEF Deliver
      <4> QED BY <3>1, <4>1, <4>2
    <3>3. disturbed \subseteq disturbed'
      BY <1>5
    <3> QED BY <2>2, <3>2, <3>3 DEF NoticesSound, NoticesMakeSense
  <2> QED BY <2>1, <2>2
<1> QED BY <1>6, <1>7, <1>10, <1>11

\* So does the next write of a loop: the notices that had to wait concern
\* requests that are over or that a race touched.
LEMMA KeepTellingKeepsSound ==
  ASSUME NoticesSound, NEW t \in Threads, KeepTelling(t)
  PROVE  NoticesSound'
<1> DEFINE to     == notices[t].to
           change == notices[t].change
<1>1. TypeOK /\ TypeOK' /\ to \in SUBSET Notice
  BY KeepTellingType DEF NoticesSound, TypeOK
<1>2. WriteNotice(t, to, change) /\ UNCHANGED <<application, requests, peerPrefix, disturbed>>
  BY DEF KeepTelling
<1>3. ASSUME NEW m \in to, m.request \in alive
      PROVE  m.request \in established \cap disturbed
  <2> DEFINE r == m.request
  <2>1. r \in Requests /\ ~NoneWaits(r)
    BY <1>1 DEF NoneWaits, Notice
  <2>2. phase[r] \notin {"none", "accepting"}
    BY <2>1 DEF NoticesSound, ToldSound
  <2>3. r \in established
    BY <1>3, <2>1, <2>2 DEF NoticesSound, PhaseSound
  <2>4. r \in disturbed
    BY <2>1, <2>3 DEF NoticesSound, ToldSound
  <2> QED BY <2>3, <2>4
<1>4. ASSUME NEW q \in Requests
      PROVE  PhaseSound(q)' /\ RecordSound(q)'
  BY <1>2 DEF NoticesSound, PhaseSound, RecordSound, Announced, application, requests
<1>5. ASSUME NEW q \in Requests
      PROVE  ToldSound(q)'
  <2>1. UNCHANGED <<phase, alive, prefix, wanted, known, established, disturbed>>
    BY <1>2 DEF requests
  <2>2. CASE NoneWaits(q)
    <3>1. \A m \in to : m.request # q
      BY <2>2 DEF NoneWaits
    <3> HIDE DEF to, change
    <3>2. NoneWaits(q)' /\ told'[q] = told[q]
      BY <1>1, <1>2, <2>2, <3>1, WriteNoticeWaits
    <3> QED BY <2>1, <3>2 DEF NoticesSound, ToldSound, Alone
  <2>3. CASE ~NoneWaits(q)
    <3>1. phase[q] \notin {"none", "accepting"} /\ q \notin established \ disturbed
      BY <2>3 DEF NoticesSound, ToldSound
    <3>2. CASE q \in established
      BY <2>1, <3>1, <3>2 DEF NoticesSound, ToldSound
    <3>3. CASE q \notin established
      <4>1. \A m \in to : m.request \in alive => m.request # q
        BY <1>3, <3>3
      <4> HIDE DEF to, change
      <4>2. told'[q] = told[q]
        BY <1>1, <1>2, <4>1 DEF WriteNotice, Deliver, TypeOK
      <4> QED BY <2>1, <3>1, <3>3, <4>2 DEF NoticesSound, ToldSound
    <3> QED BY <3>2, <3>3
  <2> QED BY <2>2, <2>3
<1>6. NoticesMakeSense'
  <2>1. \A m \in to : m.request \in alive => m.request \in disturbed
    BY <1>3
  <2> HIDE DEF to, change
  <2>2. UNCHANGED faults \/ \E m \in to : m.request \in alive /\ Deliver(m, change)
    BY <1>2 DEF WriteNotice
  <2>3. ASSUME NEW m \in to, Deliver(m, change)
        PROVE  faults' = faults \/ faults' = faults \cup {m.request}
    BY <2>3 DEF Deliver
  <2> QED BY <1>2, <2>1, <2>2, <2>3 DEF NoticesSound, NoticesMakeSense
<1> QED BY <1>1, <1>4, <1>5, <1>6 DEF NoticesSound

-----------------------------------------------------------------------------
(* What the record says.                                                   *)

\* A namespace that is announced is recorded for every request it matches.
LEMMA AnnouncedIsRecorded ==
  ASSUME NoticesSound, NEW t \in Threads, NEW n \in Namespaces, Notify(t, n, "announced"),
         UNCHANGED <<phase, prefix, established>>, Announced' = Announced \cup {n},
         NEW q \in Requests, visited'[q] \subseteq visited[q] \cup {n},
         phase[q] # "telling" => visited'[q] = {}
  PROVE  RecordSound(q)'
<1>1. known'[q] = IF q \in Concerned(n, "announced") THEN known[q] \cup {n} ELSE known[q]
  BY DEF Notify
<1>2. q \in established /\ Matches(prefix[q], n) => n \in known'[q]
  BY <1>1 DEF Concerned
<1>3. known[q] \subseteq known'[q] /\ known'[q] \subseteq known[q] \cup {n}
  BY <1>1
<1>4. RecordSound(q)
  BY DEF NoticesSound
<1> QED BY <1>2, <1>3, <1>4 DEF RecordSound

\* A namespace that is withdrawn is recorded for no request.
LEMMA WithdrawnIsRecorded ==
  ASSUME NoticesSound, NEW t \in Threads, NEW n \in Namespaces, ForgetEntry(n),
         Notify(t, n, "withdrawn"), UNCHANGED <<phase, prefix, established>>, NEW q \in Requests
  PROVE  RecordSound(q)'
<1>1. Announced' = Announced \ {n} /\ visited'[q] = visited[q] \ {n}
  BY DEF ForgetEntry, Announced, NoticesSound, TypeOK
<1>2. known'[q] = IF q \in Concerned(n, "withdrawn") THEN known[q] \ {n} ELSE known[q]
  BY DEF Notify
<1>3. n \in known[q] => q \in Concerned(n, "withdrawn")
  BY DEF Concerned, NoticesSound, ToldSound
<1>4. known'[q] = known[q] \ {n}
  BY <1>2, <1>3
<1>5. RecordSound(q)
  BY DEF NoticesSound
<1> QED BY <1>1, <1>4, <1>5 DEF RecordSound

-----------------------------------------------------------------------------
(* The invariant is inductive.                                             *)

\* A step that leaves the requests, the entries and the notices alone.
LEMMA UnchangedKeepsSound ==
  ASSUME NoticesSound, TypeOK', UNCHANGED <<entry, requests, notices, peerView>>
  PROVE  NoticesSound'
<1>1. /\ UNCHANGED <<phase, alive, prefix, wanted, known, established, visited>>
      /\ UNCHANGED <<peerPrefix, told, faults, disturbed>>
      /\ Announced' = Announced
  BY DEF requests, peerView, Announced
<1>2. NoticesMakeSense'
  BY <1>1 DEF NoticesSound, NoticesMakeSense
<1>3. ASSUME NEW q \in Requests
      PROVE  PhaseSound(q)' /\ ToldSound(q)' /\ RecordSound(q)'
  <2>1. PhaseSound(q)'
    BY <1>1 DEF NoticesSound, PhaseSound
  <2>2. ToldSound(q)'
    BY <1>1 DEF NoticesSound, ToldSound, Alone, NoneWaits
  <2>3. RecordSound(q)'
    BY <1>1 DEF NoticesSound, RecordSound
  <2> QED BY <2>1, <2>2, <2>3
<1> QED BY <1>2, <1>3 DEF NoticesSound

\* An entry is forgotten and the subscriptions are told.
LEMMA WithdrawKeepsSound ==
  ASSUME NoticesSound, TypeOK', NEW t \in Threads, NEW n \in Namespaces, ForgetEntry(n),
         Notify(t, n, "withdrawn"),
         UNCHANGED <<phase, alive, prefix, wanted, established, peerPrefix>>
  PROVE  NoticesSound'
BY NotifyKeepsTold, WithdrawnIsRecorded DEF NoticesSound

\* A step of a call of the application keeps the invariant.
LEMMA CallKeepsSound ==
  ASSUME NoticesSound, NEW c \in Calls,
         \/ AnnounceTold(c) \/ AnnounceStream(c) \/ RejectionTold(c) \/ CancelAborted(c)
         \/ CancelTold(c) \/ AnnounceNamespace(c) \/ CancelAnnounce(c)
         \/ AnnounceAccepted(c) \/ AnnounceRejected(c) \/ AnnouncementLost(c)
  PROVE  NoticesSound'
<1> DEFINE n == Job[c].ns
<1>0. n \in Namespaces /\ c \in Threads /\ c # NoCall
  BY NamespaceNoticesAssumption DEF Threads
<1>1. TypeOK /\ TypeOK'
  BY CallType DEF NoticesSound
<1>2. CASE AnnounceTold(c) \/ AnnounceStream(c) \/ RejectionTold(c) \/ CancelTold(c)
           \/ AnnounceAccepted(c) \/ AnnouncementLost(c)
  <2>1. UNCHANGED <<entry, requests, notices, peerView>>
    BY <1>2 DEF AnnounceTold, AnnounceStream, RejectionTold, CancelTold, AnnounceAccepted,
                AnnouncementLost
  <2> QED BY <1>1, <2>1, UnchangedKeepsSound
<1>3. CASE AnnounceNamespace(c)
  <2>1. UNCHANGED <<phase, alive, prefix, wanted, established, visited, updates, peerPrefix>>
    BY <1>3 DEF AnnounceNamespace
  <2>2. CASE n \in Announced
    <3>1. UNCHANGED <<entry, known, notices, told, faults, disturbed>>
      BY <1>3, <2>2 DEF AnnounceNamespace
    <3> QED BY <1>1, <2>1, <3>1, UnchangedKeepsSound DEF requests, peerView
  <2>3. CASE n \notin Announced
    <3>1. Notify(c, n, "announced") /\ entry' = [entry EXCEPT ![n] = c]
      BY <1>3, <2>3 DEF AnnounceNamespace
    <3> HIDE DEF n
    <3>2. Announced' = Announced \cup {n}
      BY <1>0, <1>1, <3>1 DEF Announced, TypeOK
    <3>3. NoticesMakeSense' /\ \A q \in Requests : PhaseSound(q)' /\ ToldSound(q)'
      BY <1>0, <2>1, <3>1, NotifyKeepsTold
    <3>4. ASSUME NEW q \in Requests
          PROVE  RecordSound(q)'
      <4>1. phase[q] # "telling" => visited'[q] = {}
        BY <2>1 DEF NoticesSound, RecordSound
      <4> QED BY <1>0, <2>1, <3>1, <3>2, <4>1, AnnouncedIsRecorded
    <3> QED BY <1>1, <3>3, <3>4 DEF NoticesSound
  <2> QED BY <2>2, <2>3
<1>4. CASE AnnounceRejected(c)
  <2>1. /\ ForgetEntry(n) /\ Notify(c, n, "withdrawn")
        /\ UNCHANGED <<phase, alive, prefix, wanted, established, peerPrefix>>
    BY <1>4 DEF AnnounceRejected
  <2> HIDE DEF n
  <2> QED BY <1>0, <1>1, <2>1, WithdrawKeepsSound
<1>5. CASE CancelAborted(c)
  <2>1. /\ ForgetEntry(n) /\ Notify(c, n, "withdrawn")
        /\ UNCHANGED <<phase, alive, prefix, wanted, established, peerPrefix>>
    BY <1>5 DEF CancelAborted, Withdraw
  <2> HIDE DEF n
  <2> QED BY <1>0, <1>1, <2>1, WithdrawKeepsSound
<1>6. CASE CancelAnnounce(c)
  <2>1. UNCHANGED <<phase, alive, prefix, wanted, established, updates, peerPrefix>>
    BY <1>6 DEF CancelAnnounce
  <2>2. CASE n \in Announced /\ ~HasRequestId(n)
    <3>1. ForgetEntry(n) /\ Notify(c, n, "withdrawn")
      BY <1>6, <2>2 DEF CancelAnnounce, Withdraw
    <3> HIDE DEF n
    <3> QED BY <1>0, <1>1, <2>1, <3>1, WithdrawKeepsSound
  <2>3. CASE n \notin Announced \/ HasRequestId(n)
    <3>1. UNCHANGED <<entry, visited, known, notices, told, faults, disturbed>>
      BY <1>6, <2>3 DEF CancelAnnounce
    <3> QED BY <1>1, <2>1, <3>1, UnchangedKeepsSound DEF requests, peerView
  <2> QED BY <2>2, <2>3
<1> QED BY <1>2, <1>3, <1>4, <1>5, <1>6

\* Ending a subscription leaves the others as they were, and nothing of its own.
LEMMA RemoveKeepsSound ==
  ASSUME NoticesSound, TypeOK', NEW r \in Requests, RemoveSubscription(r), r \notin alive',
         alive' \subseteq alive, \A q \in Requests \ {r} : q \in alive' <=> q \in alive,
         \A q \in Requests \ {r} : phase'[q] = phase[q],
         phase'[r] \notin {"none", "accepting"}, phase'[r] # "telling" => visited[r] = {},
         UNCHANGED <<entry, visited, notices>>
  PROVE  NoticesSound'
<1>1. NoticesMakeSense'
  BY DEF NoticesSound, NoticesMakeSense, RemoveSubscription
<1>2. Announced' = Announced
  BY DEF Announced
<1>3. /\ r \notin established' /\ told'[r] = {} /\ known'[r] = {}
      /\ prefix'[r] = NoPrefix /\ wanted'[r] = NoPrefix /\ peerPrefix'[r] = NoPrefix
  BY DEF NoticesSound, TypeOK, RemoveSubscription
<1>4. PhaseSound(r)' /\ ToldSound(r)' /\ RecordSound(r)'
  BY <1>3 DEF PhaseSound, ToldSound, RecordSound
<1>5. ASSUME NEW q \in Requests \ {r}
      PROVE  PhaseSound(q)' /\ ToldSound(q)' /\ RecordSound(q)'
  <2>1. /\ q \in established' <=> q \in established
        /\ q \in disturbed' <=> q \in disturbed
        /\ told'[q] = told[q] /\ known'[q] = known[q] /\ phase'[q] = phase[q]
        /\ prefix'[q] = prefix[q] /\ wanted'[q] = wanted[q] /\ peerPrefix'[q] = peerPrefix[q]
    BY <1>5 DEF NoticesSound, TypeOK, RemoveSubscription
  <2>2. NoneWaits(q)' <=> NoneWaits(q)
    BY DEF NoneWaits
  <2>3. Alone(q) => Alone(q)'
    <3>1. \A o \in established' \ {q} : o \in established \ {q} /\ prefix'[o] = prefix[o]
      BY DEF NoticesSound, TypeOK, RemoveSubscription
    <3> QED BY <2>1, <3>1 DEF Alone
  <2>4. PhaseSound(q) /\ ToldSound(q) /\ RecordSound(q)
    BY DEF NoticesSound
  <2>5. PhaseSound(q)'
    BY <2>1, <2>4 DEF PhaseSound
  <2>6. ToldSound(q)'
    BY <2>1, <2>2, <2>3, <2>4 DEF ToldSound
  <2>7. RecordSound(q)'
    BY <1>2, <2>1, <2>4 DEF RecordSound
  <2> QED BY <2>5, <2>6, <2>7
<1> QED BY <1>1, <1>4, <1>5 DEF NoticesSound

\* An established request that no race touched stays alone when r comes with
\* prefix p, or moves to it: the requests it overlaps are disturbed.
LEMMA OverlappingAreDisturbed ==
  ASSUME NoticesSound, NEW r \in Requests, NEW p, prefix' = [prefix EXCEPT ![r] = p],
         established' \subseteq established \cup {r},
         disturbed' = disturbed \cup Overlapping(r, p), NEW q \in Requests,
         q \in established' \ disturbed'
  PROVE  Alone(q)'
<1>1. /\ q \notin disturbed /\ q \notin Overlapping(r, p)
      /\ \A o \in Requests : prefix'[o] = IF o = r THEN p ELSE prefix[o]
      /\ established' \subseteq Requests
  BY DEF NoticesSound, TypeOK
<1>2. CASE q = r
  <2>1. ~Overlaps(r, p)
    BY <1>1, <1>2 DEF Overlapping
  <2> QED BY <1>1, <1>2, <2>1 DEF Overlaps, Alone
<1>3. CASE q # r
  <2>1. q \in established
    BY <1>3
  <2>2. Alone(q)
    BY <1>1, <2>1 DEF NoticesSound, ToldSound
  <2>3. ~Matches(prefix[q], p) /\ ~Matches(p, prefix[q])
    BY <1>1, <1>3, <2>1 DEF Overlapping, Overlaps
  <2> QED BY <1>1, <1>3, <2>2, <2>3 DEF Alone
<1> QED BY <1>2, <1>3

\* A step of a request of the peer keeps the invariant.
LEMMA RequestKeepsSound ==
  ASSUME NoticesSound, NEW r \in Requests,
         \/ RequestAccepted(r) \/ ListNext(r) \/ ListEnds(r) \/ PrefixUpdated(r)
         \/ RefusalWritten(r) \/ RefusedRequestEnds(r) \/ SubscribeNamespace(r)
         \/ RequestEnds(r) \/ RequestCancelled(r) \/ \E p \in Prefixes : UpdatePrefix(r, p)
  PROVE  NoticesSound'
<1>1. TypeOK /\ TypeOK' /\ r \in Threads
  BY RequestType DEF NoticesSound, Threads
<1>2. ASSUME NEW q \in Requests
      PROVE  PhaseSound(q) /\ ToldSound(q) /\ RecordSound(q)
  BY DEF NoticesSound
<1>3. NoticesMakeSense
  BY DEF NoticesSound
<1>4. CASE SubscribeNamespace(r) \/ RefusalWritten(r) \/ ListEnds(r)
  <2>1. /\ UNCHANGED <<entry, prefix, wanted, known, established, notices>>
        /\ UNCHANGED <<peerPrefix, told, faults, disturbed>>
    BY <1>4 DEF SubscribeNamespace, RefusalWritten, ListEnds, application, peerView
  <2>2. NoticesMakeSense' /\ Announced' = Announced
    BY <1>3, <2>1 DEF NoticesMakeSense, Announced
  <2>3. \A q \in Requests \ {r} : /\ phase'[q] = phase[q] /\ visited'[q] = visited[q]
                                  /\ q \in alive' <=> q \in alive
    BY <1>1, <1>4 DEF SubscribeNamespace, RefusalWritten, ListEnds, TypeOK
  <2>4. ASSUME NEW q \in Requests
        PROVE  (NoneWaits(q) <=> NoneWaits(q)') /\ (Alone(q) <=> Alone(q)')
    BY <2>1 DEF NoneWaits, Alone
  <2>5. ASSUME NEW q \in Requests \ {r}
        PROVE  PhaseSound(q)' /\ ToldSound(q)' /\ RecordSound(q)'
    BY <1>2, <2>1, <2>2, <2>3, <2>4 DEF PhaseSound, ToldSound, RecordSound
  <2>6. CASE SubscribeNamespace(r)
    <3>1. /\ phase[r] = "none" /\ phase'[r] \in {"accepting", "ended"} /\ visited' = visited
          /\ r \in alive' => phase'[r] = "accepting"
      BY <1>1, <1>2, <2>6 DEF SubscribeNamespace, PhaseSound, TypeOK
    <3>2. PhaseSound(r)' /\ ToldSound(r)' /\ RecordSound(r)'
      BY <1>2, <2>1, <2>2, <2>4, <3>1 DEF PhaseSound, ToldSound, RecordSound
    <3> QED BY <1>1, <2>2, <2>5, <3>2 DEF NoticesSound
  <2>7. CASE RefusalWritten(r)
    <3>1. /\ phase[r] = "refusing" /\ phase'[r] = "closing" /\ visited' = visited
          /\ r \notin alive'
      BY <1>1, <2>7 DEF RefusalWritten, TypeOK
    <3>2. PhaseSound(r)' /\ ToldSound(r)' /\ RecordSound(r)'
      BY <1>2, <2>1, <2>2, <2>4, <3>1 DEF PhaseSound, ToldSound, RecordSound
    <3> QED BY <1>1, <2>2, <2>5, <3>2 DEF NoticesSound
  <2>8. CASE ListEnds(r)
    <3>1. /\ phase[r] = "telling" /\ phase'[r] = (IF r \in alive THEN "open" ELSE "ended")
          /\ visited'[r] = {} /\ alive' = alive /\ Announced \subseteq visited[r]
      BY <1>1, <2>8 DEF ListEnds, TypeOK
    <3>2. PhaseSound(r)' /\ ToldSound(r)' /\ RecordSound(r)'
      BY <1>2, <2>1, <2>2, <2>4, <3>1 DEF PhaseSound, ToldSound, RecordSound
    <3> QED BY <1>1, <2>2, <2>5, <3>2 DEF NoticesSound
  <2> QED BY <1>4, <2>6, <2>7, <2>8
<1>5. CASE RequestAccepted(r)
  <2>1. /\ UNCHANGED <<entry, alive, prefix, wanted, known, visited, notices>>
        /\ UNCHANGED <<peerPrefix, told, faults>>
        /\ phase[r] = "accepting" /\ phase' = [phase EXCEPT ![r] = "telling"]
        /\ established' = established \cup {r}
        /\ disturbed' = disturbed \cup Overlapping(r, prefix[r])
    BY <1>5 DEF RequestAccepted, application
  <2>2. NoticesMakeSense' /\ Announced' = Announced
    BY <1>3, <2>1 DEF NoticesMakeSense, Announced
  <2>3. prefix' = [prefix EXCEPT ![r] = prefix[r]]
    BY <1>1, <2>1 DEF TypeOK
  <2>4. ASSUME NEW q \in Requests
        PROVE  /\ NoneWaits(q) <=> NoneWaits(q)'
               /\ q \in established' \ disturbed' => Alone(q)'
    BY <2>1, <2>3, OverlappingAreDisturbed DEF NoneWaits
  <2>5. ASSUME NEW q \in Requests \ {r}
        PROVE  PhaseSound(q)' /\ ToldSound(q)' /\ RecordSound(q)'
    <3>1. phase'[q] = phase[q] /\ (q \in established' <=> q \in established)
      BY <1>1, <2>1 DEF TypeOK
    <3> QED BY <1>2, <2>1, <2>2, <2>4, <3>1 DEF PhaseSound, ToldSound, RecordSound
  <2>6. PhaseSound(r)' /\ ToldSound(r)' /\ RecordSound(r)'
    <3>1. /\ phase'[r] = "telling" /\ r \in established' /\ told[r] = {} /\ known[r] = {}
          /\ visited[r] = {} /\ NoneWaits(r)
      BY <1>1, <1>2, <2>1 DEF TypeOK, PhaseSound, ToldSound, RecordSound
    <3> QED BY <1>2, <2>1, <2>2, <2>4, <3>1 DEF PhaseSound, ToldSound, RecordSound
  <2> QED BY <1>1, <2>2, <2>5, <2>6 DEF NoticesSound
<1>6. CASE ListNext(r)
  <2>1. PICK n \in Announced : /\ visited' = [visited EXCEPT ![r] = @ \cup {n}]
                               /\ Notify(r, n, "announced")
    BY <1>6 DEF ListNext
  <2>2. /\ UNCHANGED <<entry, phase, alive, prefix, wanted, established, peerPrefix>>
        /\ phase[r] = "telling" /\ n \in Namespaces
    BY <1>6 DEF ListNext, application, Announced
  <2>3. NoticesMakeSense' /\ \A q \in Requests : PhaseSound(q)' /\ ToldSound(q)'
    BY <1>1, <2>1, <2>2, NotifyKeepsTold
  <2>4. ASSUME NEW q \in Requests
        PROVE  RecordSound(q)'
    <3>1. Announced' = Announced \cup {n}
      BY <2>1, <2>2 DEF Announced
    <3>2. /\ visited'[q] \subseteq visited[q] \cup {n}
          /\ phase[q] # "telling" => visited'[q] = {}
      BY <1>1, <1>2, <2>1, <2>2 DEF TypeOK, RecordSound
    <3> QED BY <1>1, <2>1, <2>2, <3>1, <3>2, AnnouncedIsRecorded
  <2> QED BY <1>1, <2>3, <2>4 DEF NoticesSound
<1>7. CASE PrefixUpdated(r)
  <2> DEFINE p == wanted[r]
  <2>1. /\ UNCHANGED <<entry, alive, wanted, established, visited, notices>>
        /\ UNCHANGED <<peerPrefix, told, faults>>
        /\ phase[r] = "updating" /\ phase' = [phase EXCEPT ![r] = "telling"]
        /\ prefix' = [prefix EXCEPT ![r] = p]
        /\ known' = [known EXCEPT ![r] = {n \in @ : Matches(p, n)}]
        /\ disturbed' = disturbed \cup Overlapping(r, p)
    BY <1>7 DEF PrefixUpdated, application
  <2>2. NoticesMakeSense' /\ Announced' = Announced
    BY <1>3, <2>1 DEF NoticesMakeSense, Announced
  <2>3. ASSUME NEW q \in Requests
        PROVE  /\ NoneWaits(q) <=> NoneWaits(q)'
               /\ q \in established' \ disturbed' => Alone(q)'
    BY <2>1, OverlappingAreDisturbed DEF NoneWaits
  <2>4. ASSUME NEW q \in Requests \ {r}
        PROVE  PhaseSound(q)' /\ ToldSound(q)' /\ RecordSound(q)'
    <3>1. phase'[q] = phase[q] /\ prefix'[q] = prefix[q] /\ known'[q] = known[q]
      BY <1>1, <2>1 DEF TypeOK
    <3> QED BY <1>2, <2>1, <2>2, <2>3, <3>1 DEF PhaseSound, ToldSound, RecordSound
  <2>5. PhaseSound(r)' /\ ToldSound(r)' /\ RecordSound(r)'
    <3>1. /\ phase'[r] = "telling" /\ prefix'[r] = wanted[r] /\ visited[r] = {}
          /\ known'[r] = {n \in known[r] : Matches(wanted[r], n)}
      BY <1>1, <1>2, <2>1 DEF TypeOK, RecordSound
    <3>2. PhaseSound(r)' /\ RecordSound(r)'
      BY <1>2, <2>1, <2>2, <3>1 DEF PhaseSound, RecordSound
    <3>3. ToldSound(r)'
      BY <1>2, <2>1, <2>3, <3>1 DEF ToldSound
    <3> QED BY <3>2, <3>3
  <2> QED BY <1>1, <2>2, <2>4, <2>5 DEF NoticesSound
<1>8. ASSUME NEW p \in Prefixes, UpdatePrefix(r, p)
      PROVE  NoticesSound'
  <2>1. /\ UNCHANGED <<entry, alive, prefix, known, established, visited, notices>>
        /\ UNCHANGED <<faults, disturbed>>
        /\ phase[r] = "open" /\ r \in alive
    BY <1>8 DEF UpdatePrefix, application
  <2>2. NoticesMakeSense' /\ Announced' = Announced
    BY <1>3, <2>1 DEF NoticesMakeSense, Announced
  <2>3. ASSUME NEW q \in Requests
        PROVE  (NoneWaits(q) <=> NoneWaits(q)') /\ (Alone(q) <=> Alone(q)')
    BY <2>1 DEF NoneWaits, Alone
  <2>4. CASE Overlaps(r, p)
    <3>1. /\ phase' = [phase EXCEPT ![r] = "refusing"]
          /\ UNCHANGED <<wanted, peerPrefix, told>>
      BY <1>8, <2>4 DEF UpdatePrefix
    <3>2. ASSUME NEW q \in Requests
          PROVE  PhaseSound(q)' /\ ToldSound(q)' /\ RecordSound(q)'
      <4>1. phase'[q] = phase[q] \/ (phase[q] = "open" /\ phase'[q] = "refusing")
        <5>1. CASE q = r
          BY <1>1, <2>1, <3>1, <5>1 DEF TypeOK
        <5>2. CASE q # r
          BY <1>1, <3>1, <5>2 DEF TypeOK
        <5> QED BY <5>1, <5>2
      <4>2. PhaseSound(q)'
        BY <1>2, <2>1, <3>1, <4>1 DEF PhaseSound
      <4>3. ToldSound(q)'
        BY <1>2, <2>1, <2>3, <3>1, <4>1 DEF ToldSound
      <4>4. RecordSound(q)'
        BY <1>2, <2>1, <2>2, <4>1 DEF RecordSound
      <4> QED BY <4>2, <4>3, <4>4
    <3> QED BY <1>1, <2>2, <3>2 DEF NoticesSound
  <2>5. CASE ~Overlaps(r, p)
    <3>1. /\ phase' = [phase EXCEPT ![r] = "updating"]
          /\ wanted' = [wanted EXCEPT ![r] = p]
          /\ peerPrefix' = [peerPrefix EXCEPT ![r] = p]
          /\ told' = [told EXCEPT ![r] = {n \in @ : Matches(p, n)}]
      BY <1>8, <2>5 DEF UpdatePrefix
    <3>2. ASSUME NEW q \in Requests \ {r}
          PROVE  PhaseSound(q)' /\ ToldSound(q)' /\ RecordSound(q)'
      <4>1. /\ phase'[q] = phase[q] /\ wanted'[q] = wanted[q] /\ peerPrefix'[q] = peerPrefix[q]
            /\ told'[q] = told[q]
        BY <1>1, <3>1 DEF TypeOK
      <4> QED BY <1>2, <2>1, <2>2, <2>3, <4>1 DEF PhaseSound, ToldSound, RecordSound
    <3>3. PhaseSound(r)' /\ ToldSound(r)' /\ RecordSound(r)'
      <4>1. /\ phase'[r] = "updating" /\ wanted'[r] = p /\ peerPrefix'[r] = p
            /\ told'[r] = {n \in told[r] : Matches(p, n)}
        BY <1>1, <3>1 DEF TypeOK
      <4>2. PhaseSound(r)' /\ RecordSound(r)'
        BY <1>2, <2>1, <2>2, <4>1 DEF PhaseSound, RecordSound
      <4>3. ToldSound(r)'
        BY <1>2, <2>1, <2>3, <4>1 DEF ToldSound
      <4> QED BY <4>2, <4>3
    <3> QED BY <1>1, <2>2, <3>2, <3>3 DEF NoticesSound
  <2> QED BY <2>4, <2>5
<1>9. CASE RefusedRequestEnds(r) \/ RequestEnds(r) \/ RequestCancelled(r)
  <2>1. RemoveSubscription(r) /\ UNCHANGED <<entry, visited, notices>>
    BY <1>9 DEF RefusedRequestEnds, RequestEnds, RequestCancelled, application
  <2>2. CASE RefusedRequestEnds(r)
    <3>1. /\ phase[r] = "closing" /\ phase' = [phase EXCEPT ![r] = "ended"] /\ alive' = alive
      BY <2>2 DEF RefusedRequestEnds
    <3>2. r \notin alive /\ visited[r] = {}
      BY <1>2, <3>1 DEF PhaseSound, RecordSound
    <3>3. phase'[r] = "ended" /\ \A q \in Requests \ {r} : phase'[q] = phase[q]
      BY <1>1, <3>1 DEF TypeOK
    <3> QED BY <1>1, <2>1, <3>1, <3>2, <3>3, RemoveKeepsSound
  <2>3. CASE RequestEnds(r)
    <3>1. /\ phase[r] = "open" /\ phase' = [phase EXCEPT ![r] = "ended"]
          /\ alive' = alive \ {r}
      BY <2>3 DEF RequestEnds
    <3>2. visited[r] = {}
      BY <1>2, <3>1 DEF RecordSound
    <3>3. phase'[r] = "ended" /\ \A q \in Requests \ {r} : phase'[q] = phase[q]
      BY <1>1, <3>1 DEF TypeOK
    <3> QED BY <1>1, <2>1, <3>1, <3>2, <3>3, RemoveKeepsSound
  <2>4. CASE RequestCancelled(r)
    <3>1. /\ r \in alive /\ alive' = alive \ {r}
          /\ phase' = IF phase[r] = "telling" THEN phase ELSE [phase EXCEPT ![r] = "ended"]
      BY <2>4 DEF RequestCancelled
    <3>2. /\ phase'[r] = IF phase[r] = "telling" THEN "telling" ELSE "ended"
          /\ \A q \in Requests \ {r} : phase'[q] = phase[q]
      BY <1>1, <3>1 DEF TypeOK
    <3>3. phase'[r] # "telling" => visited[r] = {}
      BY <1>2, <3>2 DEF RecordSound
    <3> QED BY <1>1, <2>1, <3>1, <3>2, <3>3, RemoveKeepsSound
  <2> QED BY <1>9, <2>2, <2>3, <2>4
<1> QED BY <1>4, <1>5, <1>6, <1>7, <1>8, <1>9

\* The invariant holds in every state.
THEOREM NoticesSoundCorrect == Spec => []NoticesSound
<1>1. ASSUME Init
      PROVE  NoticesSound
  <2>1. NoNotices \in [change : {"none", "announced", "withdrawn"}, to : SUBSET Notice]
    BY DEF NoNotices
  <2>2. TypeOK
    BY <1>1, <2>1, NamespaceNoticesAssumption DEF Init, TypeOK
  <2>3. NoticesMakeSense
    BY <1>1 DEF Init, NoticesMakeSense
  <2>4. Announced = {}
    BY <1>1 DEF Init, Announced
  <2>5. ASSUME NEW q \in Requests
        PROVE  PhaseSound(q) /\ ToldSound(q) /\ RecordSound(q)
    <3>1. NoneWaits(q)
      BY <1>1 DEF Init, NoneWaits, NoNotices
    <3> QED BY <1>1, <2>4, <3>1 DEF Init, PhaseSound, ToldSound, RecordSound
  <2> QED BY <2>2, <2>3, <2>5 DEF NoticesSound
<1>2. ASSUME NoticesSound, [Next]_vars
      PROVE  NoticesSound'
  <2>1. CASE UNCHANGED vars
    <3>1. TypeOK'
      BY <1>2, <2>1 DEF NoticesSound, TypeOK, vars, application, requests, peerView
    <3>2. UNCHANGED <<entry, requests, notices, peerView>>
      BY <2>1 DEF vars, application
    <3> QED BY <1>2, <3>1, <3>2, UnchangedKeepsSound
  <2>2. ASSUME NEW t \in Threads, Local(t)
        PROVE  NoticesSound'
    BY <1>2, <2>2, CallKeepsSound, RequestKeepsSound, KeepTellingKeepsSound DEF Local
  <2>3. ASSUME NEW c \in Calls,
               \/ AnnounceNamespace(c) \/ CancelAnnounce(c)
               \/ AnnounceAccepted(c) \/ AnnounceRejected(c) \/ AnnouncementLost(c)
        PROVE  NoticesSound'
    BY <1>2, <2>3, CallKeepsSound
  <2>4. ASSUME NEW r \in Requests,
               \/ SubscribeNamespace(r) \/ RequestEnds(r) \/ RequestCancelled(r)
               \/ \E p \in Prefixes : UpdatePrefix(r, p)
        PROVE  NoticesSound'
    BY <1>2, <2>4, RequestKeepsSound
  <2> QED BY <1>2, <2>1, <2>2, <2>3, <2>4 DEF Next
<1> QED BY <1>1, <1>2, PTL DEF Spec

\* A NAMESPACE is news and a NAMESPACE_DONE ends one, on every request that no
\* race touched (record, notifyNamespace).
THEOREM NoticesCorrect == Spec => []NoticesMakeSense
<1>1. NoticesSound => NoticesMakeSense
  BY DEF NoticesSound
<1> QED BY <1>1, NoticesSoundCorrect, PTL

\* What the peer was told is what is announced and matches its prefix, once a
\* request that no race touched is open and no notice to it waits.
THEOREM ViewCorrect == Spec => []ViewAgrees
<1>1. ASSUME NoticesSound
      PROVE  ViewAgrees
  <2>1. SUFFICES ASSUME NEW r \in alive \ disturbed, phase[r] = "open"
                 PROVE  told[r] = {n \in Announced : Matches(prefix[r], n)}
    BY DEF ViewAgrees, Settled
  <2>2. r \in Requests /\ PhaseSound(r) /\ ToldSound(r) /\ RecordSound(r)
    BY <1>1, <2>1 DEF NoticesSound, TypeOK
  <2>3. r \in established
    BY <2>1, <2>2 DEF PhaseSound
  <2>4. told[r] = known[r]
    BY <2>1, <2>2, <2>3 DEF ToldSound
  <2>5. \A n : n \in known[r] <=> n \in Announced /\ Matches(prefix[r], n)
    BY <2>1, <2>2, <2>3 DEF ToldSound, RecordSound
  <2> QED BY <2>4, <2>5
<1> QED BY <1>1, NoticesSoundCorrect, PTL
=============================================================================
