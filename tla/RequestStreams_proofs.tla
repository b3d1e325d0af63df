------------------------ MODULE RequestStreams_proofs ------------------------
(***************************************************************************)
(* Proofs about RequestStreams, for every set of requests and every bound: *)
(* type correctness, that the queue of REQUEST_UPDATEs agrees with their   *)
(* promises, that a promise settles once, that a peer which keeps to the   *)
(* protocol is never accused, and that what the session tells of updates   *)
(* and namespaces agrees with what the peer decided and announced.         *)
(***************************************************************************)
EXTENDS RequestStreams, FiniteSetTheorems, SequenceTheorems, TLAPS

\* AnySuffix is a suffix, since there is one.
LEMMA AnySuffixType == AnySuffix \in Suffixes
BY RequestStreamsAssumption DEF AnySuffix

\* Replacing one value of a function by another of its range.
LEMMA FunctionUpdate ==
  ASSUME NEW S, NEW T, NEW f \in [S -> T], NEW x \in S, NEW v \in T
  PROVE  [f EXCEPT ![x] = v] \in [S -> T]
OBVIOUS

\* What is left of a nonempty sequence is a sequence of the same set.
LEMMA TailType ==
  ASSUME NEW T, NEW s \in Seq(T), s # <<>>
  PROVE  Tail(s) \in Seq(T) /\ Head(s) \in T
OBVIOUS

\* Forgetting a stream keeps the types of what it assigns.
LEMMA ForgetStreamType ==
  ASSUME TypeOK, NEW r \in Requests, ForgetStream(r)
  PROVE  /\ active' \subseteq Requests
         /\ answered' \subseteq Requests
         /\ announced' \in [Requests -> SUBSET Suffixes]
         /\ goAway' \subseteq Requests
         /\ reader' \in [Requests -> {"none", "first", "loop"}]
         /\ inbox' \in [Requests -> Seq(Arrival)]
         /\ pending' \in [Requests -> Seq(Updates)]
         /\ outcome' \in [Requests -> [Updates -> {"unsent", "pending", "ok", "error"}]]
BY DEF TypeOK, ForgetStream, FailPendingUpdates

\* So does what a lost stream does to its caller.
LEMMA CallAfterLossType ==
  ASSUME TypeOK, NEW r \in Requests
  PROVE  CallAfterLoss(r) \in [Requests -> {"idle", "creating", "writing", "waiting",
                                            "answered", "ok", "failed", "dropped"}]
BY DEF TypeOK, CallAfterLoss

\* endNamespaceSubscription and endRequest keep the types of what they assign.
LEMMA EndRequestType ==
  ASSUME TypeOK, NEW r \in Requests
  PROVE  /\ EndNamespaceSubscription(r) =>
              registered' \subseteq Requests /\ app' \in [Requests -> SUBSET Suffixes]
         /\ EndRequest(r) =>
              /\ publishing' \subseteq Requests
              /\ registered' \subseteq Requests
              /\ app' \in [Requests -> SUBSET Suffixes]
<1>1. ASSUME EndNamespaceSubscription(r)
      PROVE  registered' \subseteq Requests /\ app' \in [Requests -> SUBSET Suffixes]
  <2>1. /\ app \in [Requests -> SUBSET Suffixes]
        /\ registered \subseteq Requests
    BY DEF TypeOK
  <2>2. PICK v \in SUBSET Suffixes :
          app' = [app EXCEPT ![r] = v] \/ app' = app
    <3>1. app[r] \in SUBSET Suffixes /\ app[r] \ announced[r] \in SUBSET Suffixes
      BY <2>1
    <3>2. QED
      BY <1>1, <3>1 DEF EndNamespaceSubscription
  <2>3. QED
    BY <1>1, <2>1, <2>2 DEF EndNamespaceSubscription
<1>2. QED
  BY <1>1 DEF TypeOK, EndRequest

\* Putting an arrival on a stream keeps the type of the inboxes.
LEMMA ArriveType ==
  ASSUME TypeOK, NEW r \in Requests, NEW t \in MessageTypes \cup {"FIN", "RESET"},
         NEW s \in Suffixes, Arrive(r, t, s)
  PROVE  inbox' \in [Requests -> Seq(Arrival)]
<1>1. [type |-> t, suffix |-> s] \in Arrival
  BY DEF Arrival
<1>2. QED
  BY <1>1 DEF TypeOK, Arrive

\* The variables keep their types.
THEOREM TypeCorrect == Spec => []TypeOK
<1>1. Init => TypeOK
  <2>1. ASSUME Init PROVE kind \in [Requests -> Kinds]
    BY <2>1, RequestStreamsAssumption DEF Init
  <2>2. \A S : <<>> \in Seq(S)
    OBVIOUS
  <2>3. QED
    <3> SUFFICES ASSUME Init PROVE TypeOK
      OBVIOUS
    <3>1. /\ pending \in [Requests -> Seq(Updates)]
          /\ inbox \in [Requests -> Seq(Arrival)]
      BY <2>2 DEF Init
    <3>2. /\ outcome \in [Requests -> [Updates -> {"unsent", "pending", "ok", "error"}]]
          /\ verdict \in [Requests -> [Updates -> {"none", "ok", "error"}]]
      BY DEF Init
    <3>3. /\ announced \in [Requests -> SUBSET Suffixes]
          /\ app \in [Requests -> SUBSET Suffixes]
          /\ offered \in [Requests -> SUBSET Suffixes]
      BY DEF Init
    <3>4. QED
      BY <2>1, <3>1, <3>2, <3>3 DEF Init, TypeOK
<1>2. TypeOK /\ [Next]_vars => TypeOK'
  <2> SUFFICES ASSUME TypeOK, [Next]_vars PROVE TypeOK'
    OBVIOUS
  <2> USE DEF calls, streams, updates, peers
  <2>0. CASE UNCHANGED vars
    BY <2>0 DEF TypeOK, vars
  <2>1. ASSUME NEW r \in Requests, NEW timed \in BOOLEAN, StartRequest(r, timed) PROVE TypeOK'
    BY <2>1 DEF TypeOK, StartRequest
  <2>2. ASSUME NEW r \in Requests, StreamCreated(r) \/ StreamRefused(r) PROVE TypeOK'
    BY <2>2 DEF TypeOK, StreamCreated, StreamRefused
  <2>3. ASSUME NEW r \in Requests, RequestWritten(r) PROVE TypeOK'
    BY <2>3 DEF TypeOK, RequestWritten
  <2>4. ASSUME NEW r \in Requests, TimeoutFires(r) PROVE TypeOK'
    BY <2>4, ForgetStreamType, CallAfterLossType DEF TypeOK, TimeoutFires
  <2>5. ASSUME NEW r \in Requests, SendRequestUpdate(r) PROVE TypeOK'
    BY <2>5 DEF TypeOK, SendRequestUpdate
  <2>6. ASSUME NEW r \in Requests, CancelRequest(r) PROVE TypeOK'
    BY <2>6, ForgetStreamType, CallAfterLossType DEF TypeOK, CancelRequest
  <2>7. ASSUME NEW r \in Requests, RemoveNamespaceSubscription(r) PROVE TypeOK'
    BY <2>7 DEF TypeOK, RemoveNamespaceSubscription
  <2>8. ASSUME NEW r \in Requests, Unpublish(r) PROVE TypeOK'
    BY <2>8, ForgetStreamType DEF TypeOK, Unpublish
  <2>9. ASSUME NEW r \in Requests, ReadFirstResponse(r) PROVE TypeOK'
    <3>1. CASE Head(inbox[r]).type = SuccessResponseType(kind[r])
      <4>1. inbox' \in [Requests -> Seq(Arrival)]
        <5>1. inbox \in [Requests -> Seq(Arrival)] /\ inbox[r] \in Seq(Arrival)
          BY DEF TypeOK
        <5>2. inbox[r] # <<>> /\ inbox' = [inbox EXCEPT ![r] = Tail(inbox[r])]
          BY <2>9, <3>1 DEF ReadFirstResponse
        <5>3. QED
          BY <5>1, <5>2, TailType, FunctionUpdate
      <4>2. QED
        BY <2>9, <3>1, <4>1 DEF TypeOK, ReadFirstResponse
    <3>2. CASE Head(inbox[r]).type # SuccessResponseType(kind[r])
      <4>1. ForgetStream(r) /\ closed' \in BOOLEAN
        BY <2>9, <3>2 DEF TypeOK, ReadFirstResponse, CloseForViolation
      <4>2. QED
        BY <2>9, <3>2, <4>1, ForgetStreamType DEF TypeOK, ReadFirstResponse
    <3>3. QED
      BY <3>1, <3>2
  <2>10. ASSUME NEW r \in Requests, CallReturns(r) PROVE TypeOK'
    BY <2>10, ForgetStreamType DEF TypeOK, CallReturns
  <2>11. ASSUME NEW r \in Requests, ReadMessage(r) PROVE TypeOK'
    <3> DEFINE m == Head(inbox[r])
    <3>1. m \in Arrival /\ inbox' \in [Requests -> Seq(Arrival)]
      BY <2>11 DEF TypeOK, ReadMessage
    <3>2. CASE m.type \notin InboundOnOurRequest(kind[r])
      BY <2>11, <3>1, <3>2 DEF TypeOK, ReadMessage, CloseForViolation
    <3>3. CASE m.type \in InboundOnOurRequest(kind[r]) /\ r \notin answered
      BY <2>11, <3>1, <3>3 DEF TypeOK, ReadMessage, CloseForViolation, SettleNamespaceSubscription
    <3>4. CASE m.type \in InboundOnOurRequest(kind[r]) /\ r \in answered
      <4>1. HandleMessage(r, m) /\ UNCHANGED <<answered, registered>>
        BY <2>11, <3>4 DEF ReadMessage
      <4>2. /\ announced' \in [Requests -> SUBSET Suffixes]
            /\ app' \in [Requests -> SUBSET Suffixes]
            /\ goAway' \subseteq Requests
            /\ closed' \in BOOLEAN
        <5>1. m.suffix \in Suffixes
          BY <3>1 DEF Arrival
        <5>2. goAway' \subseteq Requests /\ closed' \in BOOLEAN
          BY <4>1 DEF TypeOK, HandleMessage, SettleRequestUpdate, CloseForViolation
        <5>3. announced' \in [Requests -> SUBSET Suffixes]
          <6>1. announced \in [Requests -> SUBSET Suffixes]
            BY DEF TypeOK
          <6>2. \/ announced' = announced
                \/ announced' = [announced EXCEPT ![r] = announced[r] \cup {m.suffix}]
                \/ announced' = [announced EXCEPT ![r] = announced[r] \ {m.suffix}]
            BY <4>1 DEF HandleMessage
          <6>3. QED
            BY <5>1, <6>1, <6>2
        <5>4. app' \in [Requests -> SUBSET Suffixes]
          <6>1. app \in [Requests -> SUBSET Suffixes]
            BY DEF TypeOK
          <6>2. \/ app' = app
                \/ app' = [app EXCEPT ![r] = app[r] \cup {m.suffix}]
                \/ app' = [app EXCEPT ![r] = app[r] \ {m.suffix}]
            BY <4>1 DEF HandleMessage
          <6>3. QED
            BY <5>1, <6>1, <6>2
        <5>5. QED
          BY <5>2, <5>3, <5>4
      <4>3. /\ pending' \in [Requests -> Seq(Updates)]
            /\ outcome' \in [Requests -> [Updates -> {"unsent", "pending", "ok", "error"}]]
        <5>1. CASE UNCHANGED updates
          BY <5>1 DEF TypeOK
        <5>2. CASE SettleRequestUpdate(r, m) /\ pending[r] # <<>> /\ m.type = "REQUEST_OK"
          <6>1. Tail(pending[r]) \in Seq(Updates) /\ Head(pending[r]) \in Updates
            BY <5>2 DEF TypeOK
          <6>2. /\ pending' = [pending EXCEPT ![r] = Tail(pending[r])]
                /\ outcome' = [outcome EXCEPT ![r][Head(pending[r])] = "ok"]
            BY <5>2 DEF SettleRequestUpdate
          <6>3. /\ pending \in [Requests -> Seq(Updates)]
                /\ outcome \in [Requests -> [Updates -> {"unsent", "pending", "ok", "error"}]]
            BY DEF TypeOK
          <6>4. QED
            BY <6>1, <6>2, <6>3
        <5>3. CASE FailPendingUpdates(r)
          BY <5>3 DEF TypeOK, FailPendingUpdates
        <5>4. QED
          BY <4>1, <5>1, <5>2, <5>3 DEF HandleMessage, SettleRequestUpdate
      <4>4. QED
        BY <2>11, <3>1, <4>1, <4>2, <4>3 DEF TypeOK, ReadMessage
    <3>5. QED
      BY <3>2, <3>3, <3>4
  <2>12. ASSUME NEW r \in Requests, ReadEnd(r) PROVE TypeOK'
    <3>1. /\ publishing' \subseteq Requests
          /\ registered' \subseteq Requests
          /\ app' \in [Requests -> SUBSET Suffixes]
      BY <2>12, EndRequestType DEF TypeOK, ReadEnd
    <3>2. CASE ForgetStream(r)
      BY <2>12, <3>1, <3>2, ForgetStreamType DEF TypeOK, ReadEnd
    <3>3. CASE ~ForgetStream(r)
      <4>1. inbox' \in [Requests -> Seq(Arrival)] /\ reader' \in [Requests -> {"none", "first", "loop"}]
        <5>1. /\ inbox \in [Requests -> Seq(Arrival)]
              /\ reader \in [Requests -> {"none", "first", "loop"}]
          BY DEF TypeOK
        <5>2. /\ inbox' = [inbox EXCEPT ![r] = <<>>]
              /\ reader' = [reader EXCEPT ![r] = "none"]
          BY <2>12, <3>3 DEF ReadEnd
        <5>3. QED
          BY <5>1, <5>2
      <4>2. QED
        BY <2>12, <3>1, <3>3, <4>1 DEF TypeOK, ReadEnd
    <3>4. QED
      BY <3>2, <3>3
  <2>13. ASSUME NEW r \in Requests, PeerCancels(r) PROVE TypeOK'
    BY <2>13, ForgetStreamType, EndRequestType, CallAfterLossType DEF TypeOK, PeerCancels
  <2>14. ASSUME NEW r \in Requests, PeerAnswers(r) PROVE TypeOK'
    BY <2>14, ArriveType, AnySuffixType DEF TypeOK, PeerAnswers, MessageTypes, SuccessResponseType
  <2>15. ASSUME NEW r \in Requests, PeerAnswersUpdate(r) PROVE TypeOK'
    <3>1. inbox' \in [Requests -> Seq(Arrival)]
      BY <2>15, ArriveType, AnySuffixType DEF PeerAnswersUpdate, MessageTypes
    <3>2. verdict' \in [Requests -> [Updates -> {"none", "ok", "error"}]]
      <4>1. verdict \in [Requests -> [Updates -> {"none", "ok", "error"}]]
        BY DEF TypeOK
      <4>2. PICK u \in Updates, open \in SUBSET Updates :
              \/ verdict' = [verdict EXCEPT ![r][u] = "ok"]
              \/ verdict' = [verdict EXCEPT ![r] =
                   [v \in Updates |-> IF v \in open THEN "error" ELSE verdict[r][v]]]
        BY <2>15 DEF PeerAnswersUpdate
      <4>3. QED
        BY <4>1, <4>2
    <3>3. peer' \in [Requests -> {"none", "requested", "accepted", "refused", "ended",
                                  "finished", "gone"}]
      <4>1. peer \in [Requests -> {"none", "requested", "accepted", "refused", "ended",
                                  "finished", "gone"}]
        BY DEF TypeOK
      <4>2. peer' = peer \/ peer' = [peer EXCEPT ![r] = "ended"]
        BY <2>15 DEF PeerAnswersUpdate
      <4>3. QED
        BY <4>1, <4>2
    <3>4. QED
      BY <2>15, <3>1, <3>2, <3>3 DEF TypeOK, PeerAnswersUpdate
  <2>16. ASSUME NEW r \in Requests, PeerPublishDone(r) \/ PeerGoesAway(r) PROVE TypeOK'
    BY <2>16, ArriveType, AnySuffixType DEF TypeOK, PeerPublishDone, PeerGoesAway, MessageTypes
  <2>17. ASSUME NEW r \in Requests, PeerEnds(r) PROVE TypeOK'
    <3>1. [type |-> "FIN", suffix |-> AnySuffix] \in Arrival
          /\ [type |-> "RESET", suffix |-> AnySuffix] \in Arrival
      BY AnySuffixType DEF Arrival
    <3>2. \A n \in 0 .. Len(inbox[r]) : SubSeq(inbox[r], 1, n) \in Seq(Arrival)
      BY DEF TypeOK
    <3>3. inbox' \in [Requests -> Seq(Arrival)]
      <4>1. Append(inbox[r], [type |-> "FIN", suffix |-> AnySuffix]) \in Seq(Arrival)
        BY <3>1 DEF TypeOK
      <4>2. \A n \in 0 .. Len(inbox[r]) :
              Append(SubSeq(inbox[r], 1, n), [type |-> "RESET", suffix |-> AnySuffix]) \in Seq(Arrival)
        BY <3>1, <3>2
      <4>3. inbox \in [Requests -> Seq(Arrival)]
        BY DEF TypeOK
      <4>4. \E q \in Seq(Arrival) : inbox' = [inbox EXCEPT ![r] = q]
        BY <2>17, <4>1, <4>2 DEF PeerEnds
      <4>5. QED
        BY <4>3, <4>4
    <3>4. QED
      BY <2>17, <3>3 DEF TypeOK, PeerEnds
  <2>18. ASSUME NEW r \in Requests, PeerIsRude(r) PROVE TypeOK'
    BY <2>18, ArriveType DEF TypeOK, PeerIsRude
  <2>19. ASSUME NEW r \in Requests, NEW s \in Suffixes, PeerAnnounces(r, s) PROVE TypeOK'
    <3>1. inbox' \in [Requests -> Seq(Arrival)]
      BY <2>19, ArriveType DEF PeerAnnounces, MessageTypes
    <3>2. offered' \in [Requests -> SUBSET Suffixes]
      <4>1. offered \in [Requests -> SUBSET Suffixes]
        BY DEF TypeOK
      <4>2. \/ offered' = [offered EXCEPT ![r] = offered[r] \cup {s}]
            \/ offered' = [offered EXCEPT ![r] = offered[r] \ {s}]
        BY <2>19 DEF PeerAnnounces
      <4>3. QED
        BY <4>1, <4>2
    <3>3. QED
      BY <2>19, <3>1, <3>2 DEF TypeOK, PeerAnnounces
  <2>20. QED
    BY <2>0, <2>1, <2>2, <2>3, <2>4, <2>5, <2>6, <2>7, <2>8, <2>9, <2>10, <2>11, <2>12,
       <2>13, <2>14, <2>15, <2>16, <2>17, <2>18, <2>19
       DEF Next, Local, Peer, Application
<1>3. QED
  BY <1>1, <1>2, PTL DEF Spec

-----------------------------------------------------------------------------
(***************************************************************************)
(* The queue of updates.  UpdateQueueSound alone is not inductive: that an *)
(* update joins the queue behind greater numbers only is known because     *)
(* updates are sent in order.                                              *)
(***************************************************************************)
SentInOrder(r) == \A u, v \in Updates :
  v < u /\ outcome[r][v] = "unsent" => outcome[r][u] = "unsent"

QueueInv == TypeOK /\ \A r \in Requests : QueueSound(r) /\ SentInOrder(r)

\* What sendRequestUpdate does to the queue, and what a REQUEST_OK does.
Queued(r) == \E u \in Updates :
  /\ outcome[r][u] = "unsent"
  /\ \A v \in Updates : v < u => outcome[r][v] # "unsent"
  /\ pending' = [pending EXCEPT ![r] = Append(pending[r], u)]
  /\ outcome' = [outcome EXCEPT ![r][u] = "pending"]

Acknowledged(r) ==
  /\ pending[r] # <<>>
  /\ pending' = [pending EXCEPT ![r] = Tail(pending[r])]
  /\ outcome' = [outcome EXCEPT ![r][Head(pending[r])] = "ok"]

\* Every step does one of four things to the queues.
UpdateStep ==
  \/ UNCHANGED updates /\ active \subseteq active'
  \/ \E r \in Requests :
       \/ FailPendingUpdates(r) /\ active \ {r} \subseteq active'
       \/ Queued(r) /\ r \in active /\ active' = active
       \/ Acknowledged(r) /\ active' = active

LEMMA StepsOnUpdates ==
  ASSUME [Next]_vars
  PROVE  UpdateStep
<1> USE DEF UpdateStep, calls, streams, updates, peers
<1>0. CASE UNCHANGED vars
  BY <1>0 DEF vars
<1>1. ASSUME NEW r \in Requests, NEW timed \in BOOLEAN, StartRequest(r, timed) PROVE UpdateStep
  BY <1>1 DEF StartRequest
<1>2. ASSUME NEW r \in Requests, StreamCreated(r) \/ StreamRefused(r) \/ RequestWritten(r)
      PROVE  UpdateStep
  BY <1>2 DEF StreamCreated, StreamRefused, RequestWritten
<1>3. ASSUME NEW r \in Requests, TimeoutFires(r) \/ CancelRequest(r) \/ Unpublish(r) PROVE UpdateStep
  BY <1>3 DEF TimeoutFires, CancelRequest, Unpublish, ForgetStream
<1>4. ASSUME NEW r \in Requests, SendRequestUpdate(r) PROVE UpdateStep
  BY <1>4 DEF SendRequestUpdate, Queued
<1>5. ASSUME NEW r \in Requests, RemoveNamespaceSubscription(r) PROVE UpdateStep
  BY <1>5 DEF RemoveNamespaceSubscription
<1>6. ASSUME NEW r \in Requests, ReadFirstResponse(r) \/ CallReturns(r) PROVE UpdateStep
  BY <1>6 DEF ReadFirstResponse, CallReturns, ForgetStream
<1>7. ASSUME NEW r \in Requests, ReadMessage(r) PROVE UpdateStep
  <2>1. CASE UNCHANGED updates
    BY <1>7, <2>1 DEF ReadMessage
  <2>2. CASE ~UNCHANGED updates
    <3>1. HandleMessage(r, Head(inbox[r])) /\ active' = active
      BY <1>7, <2>2 DEF ReadMessage, SettleNamespaceSubscription
    <3>2. SettleRequestUpdate(r, Head(inbox[r])) /\ pending[r] # <<>>
      BY <2>2, <3>1 DEF HandleMessage, SettleRequestUpdate
    <3>3. QED
      BY <3>1, <3>2 DEF SettleRequestUpdate, Acknowledged
  <2>3. QED
    BY <2>1, <2>2
<1>8. ASSUME NEW r \in Requests, ReadEnd(r) \/ PeerCancels(r) PROVE UpdateStep
  BY <1>8 DEF ReadEnd, PeerCancels, ForgetStream
<1>9. ASSUME NEW r \in Requests,
             PeerAnswers(r) \/ PeerAnswersUpdate(r) \/ PeerPublishDone(r) \/ PeerGoesAway(r)
      PROVE  UpdateStep
  BY <1>9 DEF PeerAnswers, PeerAnswersUpdate, PeerPublishDone, PeerGoesAway
<1>10. ASSUME NEW r \in Requests, PeerEnds(r) \/ PeerIsRude(r) PROVE UpdateStep
  BY <1>10 DEF PeerEnds, PeerIsRude
<1>11. ASSUME NEW r \in Requests, NEW s \in Suffixes, PeerAnnounces(r, s) PROVE UpdateStep
  BY <1>11 DEF PeerAnnounces
<1>12. QED
  BY <1>0, <1>1, <1>2, <1>3, <1>4, <1>5, <1>6, <1>7, <1>8, <1>9, <1>10, <1>11
     DEF Next, Local, Peer, Application

\* Each of them keeps the queue of every request sound.
LEMMA UpdateStepKeepsQueue ==
  ASSUME QueueInv, UpdateStep, NEW q \in Requests
  PROVE  QueueSound(q)' /\ SentInOrder(q)'
<1>1. /\ pending \in [Requests -> Seq(Updates)]
      /\ outcome \in [Requests -> [Updates -> {"unsent", "pending", "ok", "error"}]]
      /\ Updates \subseteq Int
      /\ QueueSound(q) /\ SentInOrder(q)
  BY DEF QueueInv, TypeOK, Updates
<1>a. /\ \A u \in Updates : outcome[q][u] = "pending" <=>
            \E i \in 1 .. Len(pending[q]) : pending[q][i] = u
      /\ \A i, j \in 1 .. Len(pending[q]) : i < j => pending[q][i] < pending[q][j]
      /\ \A u, v \in Updates : v < u /\ outcome[q][v] = "unsent" => outcome[q][u] = "unsent"
  BY <1>1 DEF QueueSound, SentInOrder
<1>b. /\ Len(pending[q]) \in Nat
      /\ \A i \in 1 .. Len(pending[q]) : pending[q][i] \in Updates
  BY <1>1
<1>c. \A i \in 1 .. Len(pending[q]) : outcome[q][pending[q][i]] = "pending"
  BY <1>a, <1>b
<1>2. CASE UNCHANGED updates /\ active \subseteq active'
  BY <1>1, <1>2 DEF updates, QueueSound, SentInOrder
<1>3. ASSUME NEW r \in Requests, FailPendingUpdates(r), active \ {r} \subseteq active'
      PROVE  QueueSound(q)' /\ SentInOrder(q)'
  <2>1. CASE q # r
    BY <1>1, <1>3, <2>1 DEF FailPendingUpdates, QueueSound, SentInOrder
  <2>2. CASE q = r
    <3>1. pending'[q] = <<>> /\ Len(pending'[q]) = 0
      BY <1>1, <1>3, <2>2 DEF FailPendingUpdates
    <3>2. \A u \in Updates :
            outcome'[q][u] = IF outcome[q][u] = "pending" THEN "error" ELSE outcome[q][u]
      BY <1>1, <1>3, <2>2 DEF FailPendingUpdates, QueueSound
    <3>3. SentInOrder(q)'
      <4>1. \A u \in Updates : outcome'[q][u] = "unsent" <=> outcome[q][u] = "unsent"
        BY <3>2
      <4>2. QED
        BY <1>a, <4>1 DEF SentInOrder
    <3>4. \A u \in Updates : outcome'[q][u] # "pending"
      BY <3>2
    <3>5. QED
      BY <3>1, <3>3, <3>4 DEF QueueSound
  <2>3. QED
    BY <2>1, <2>2
<1>4. ASSUME NEW r \in Requests, Queued(r), r \in active, active' = active
      PROVE  QueueSound(q)' /\ SentInOrder(q)'
  <2>1. CASE q # r
    BY <1>1, <1>4, <2>1 DEF Queued, QueueSound, SentInOrder
  <2>2. CASE q = r
    <3>1. PICK u \in Updates :
            /\ outcome[q][u] = "unsent"
            /\ \A v \in Updates : v < u => outcome[q][v] # "unsent"
            /\ pending'[q] = Append(pending[q], u)
            /\ outcome'[q] = [outcome[q] EXCEPT ![u] = "pending"]
      BY <1>1, <1>4, <2>2 DEF Queued
    <3>2. /\ Len(pending'[q]) = Len(pending[q]) + 1
          /\ pending'[q][Len(pending[q]) + 1] = u
          /\ \A i \in 1 .. Len(pending[q]) : pending'[q][i] = pending[q][i]
          /\ Len(pending[q]) \in Nat
          /\ \A i \in 1 .. Len(pending[q]) : pending[q][i] \in Updates
      BY <1>1, <3>1
    <3>3. \A i \in 1 .. Len(pending[q]) : pending[q][i] < u
      <4>1. SUFFICES ASSUME NEW i \in 1 .. Len(pending[q]) PROVE pending[q][i] < u
        OBVIOUS
      <4>2. outcome[q][pending[q][i]] = "pending" /\ pending[q][i] \in Updates
        BY <1>b, <1>c
      <4>3. ~(u < pending[q][i]) /\ u # pending[q][i]
        BY <1>a, <3>1, <4>2
      <4>4. u \in Int /\ pending[q][i] \in Int
        BY <1>1, <4>2
      <4>5. QED
        BY <4>3, <4>4
    <3>4. \A v \in Updates : outcome'[q][v] = "pending" <=>
            \E i \in 1 .. Len(pending'[q]) : pending'[q][i] = v
      BY <1>1, <3>1, <3>2 DEF QueueSound
    <3>5. \A i, j \in 1 .. Len(pending'[q]) : i < j => pending'[q][i] < pending'[q][j]
      <4>1. SUFFICES ASSUME NEW i \in 1 .. Len(pending'[q]), NEW j \in 1 .. Len(pending'[q]), i < j
                     PROVE  pending'[q][i] < pending'[q][j]
        OBVIOUS
      <4>2. i \in 1 .. Len(pending[q])
        BY <3>2, <4>1
      <4>3. CASE j = Len(pending[q]) + 1
        BY <3>2, <3>3, <4>2, <4>3
      <4>4. CASE j # Len(pending[q]) + 1
        BY <1>a, <3>2, <4>1, <4>2, <4>4
      <4>5. QED
        BY <4>3, <4>4
    <3>6. SentInOrder(q)'
      BY <1>1, <3>1 DEF SentInOrder
    <3>7. QED
      BY <1>4, <2>2, <3>4, <3>5, <3>6 DEF QueueSound
  <2>3. QED
    BY <2>1, <2>2
<1>5. ASSUME NEW r \in Requests, Acknowledged(r), active' = active
      PROVE  QueueSound(q)' /\ SentInOrder(q)'
  <2>1. CASE q # r
    BY <1>1, <1>5, <2>1 DEF Acknowledged, QueueSound, SentInOrder
  <2>2. CASE q = r
    <3>1. /\ pending[q] # <<>>
          /\ pending'[q] = Tail(pending[q])
          /\ outcome'[q] = [outcome[q] EXCEPT ![pending[q][1]] = "ok"]
          /\ q \in active'
      BY <1>1, <1>5, <2>2 DEF Acknowledged, QueueSound
    <3>2. /\ Len(pending[q]) \in Nat \ {0}
          /\ Len(pending'[q]) = Len(pending[q]) - 1
          /\ \A i \in 1 .. Len(pending'[q]) : pending'[q][i] = pending[q][i + 1]
          /\ \A i \in 1 .. Len(pending[q]) : pending[q][i] \in Updates
      BY <1>1, <3>1
    <3>3. \A i, j \in 1 .. Len(pending'[q]) : i < j => pending'[q][i] < pending'[q][j]
      <4>1. SUFFICES ASSUME NEW i \in 1 .. Len(pending'[q]), NEW j \in 1 .. Len(pending'[q]), i < j
                     PROVE  pending'[q][i] < pending'[q][j]
        OBVIOUS
      <4>2. i + 1 \in 1 .. Len(pending[q]) /\ j + 1 \in 1 .. Len(pending[q]) /\ i + 1 < j + 1
        BY <3>2, <4>1
      <4>3. QED
        BY <1>a, <3>2, <4>2
    <3>4. \A v \in Updates : outcome'[q][v] = "pending" <=>
            \E i \in 1 .. Len(pending'[q]) : pending'[q][i] = v
      <4>1. SUFFICES ASSUME NEW v \in Updates
                     PROVE  outcome'[q][v] = "pending" <=>
                              \E i \in 1 .. Len(pending'[q]) : pending'[q][i] = v
        OBVIOUS
      <4>2. \A i \in 2 .. Len(pending[q]) : pending[q][i] # pending[q][1]
        <5>1. \A i \in 2 .. Len(pending[q]) : pending[q][1] < pending[q][i]
          BY <1>a, <3>2
        <5>2. \A i \in 1 .. Len(pending[q]) : pending[q][i] \in Int
          BY <1>1, <1>b
        <5>3. QED
          BY <3>2, <5>1, <5>2
      <4>3. (\E i \in 1 .. Len(pending'[q]) : pending'[q][i] = v) <=>
              \E i \in 2 .. Len(pending[q]) : pending[q][i] = v
        <5>1. \A i \in 2 .. Len(pending[q]) :
                i - 1 \in 1 .. Len(pending'[q]) /\ pending'[q][i - 1] = pending[q][i]
          BY <3>2
        <5>2. \A i \in 1 .. Len(pending'[q]) : i + 1 \in 2 .. Len(pending[q])
          BY <3>2
        <5>3. QED
          BY <3>2, <5>1, <5>2
      <4>4. CASE v = pending[q][1]
        BY <1>1, <3>1, <4>2, <4>3, <4>4
      <4>5. CASE v # pending[q][1]
        <5>1. outcome'[q][v] = outcome[q][v]
          BY <1>1, <3>1, <4>5
        <5>2. outcome[q][v] = "pending" <=> \E i \in 1 .. Len(pending[q]) : pending[q][i] = v
          BY <1>1 DEF QueueSound
        <5>3. (\E i \in 1 .. Len(pending[q]) : pending[q][i] = v) <=>
                \E i \in 2 .. Len(pending[q]) : pending[q][i] = v
          BY <3>2, <4>5
        <5>4. QED
          BY <4>3, <5>1, <5>2, <5>3
      <4>6. QED
        BY <4>4, <4>5
    <3>5. SentInOrder(q)'
      <4>1. \A u \in Updates : outcome'[q][u] = "unsent" <=> outcome[q][u] = "unsent"
        <5>1. outcome[q][pending[q][1]] = "pending"
          BY <1>c, <3>2
        <5>2. QED
          BY <1>1, <3>1, <5>1
      <4>2. QED
        BY <1>1, <4>1 DEF SentInOrder
    <3>6. QED
      BY <3>1, <3>3, <3>4, <3>5 DEF QueueSound
  <2>3. QED
    BY <2>1, <2>2
<1>6. QED
  BY <1>2, <1>3, <1>4, <1>5 DEF UpdateStep

LEMMA QueueInvariant == Spec => []QueueInv
<1>1. Init => \A r \in Requests : QueueSound(r) /\ SentInOrder(r)
  BY DEF Init, QueueSound, SentInOrder
<1>2. QueueInv /\ [Next]_vars => (\A r \in Requests : QueueSound(r) /\ SentInOrder(r))'
  BY StepsOnUpdates, UpdateStepKeepsQueue
<1>3. TypeOK /\ TypeOK' /\ (\A r \in Requests : QueueSound(r) /\ SentInOrder(r)) /\ [Next]_vars
        => (\A r \in Requests : QueueSound(r) /\ SentInOrder(r))'
  BY <1>2 DEF QueueInv
<1>4. Spec => [](\A r \in Requests : QueueSound(r) /\ SentInOrder(r))
  BY <1>1, <1>3, TypeCorrect, PTL DEF Spec
<1>5. TypeOK /\ (\A r \in Requests : QueueSound(r) /\ SentInOrder(r)) => QueueInv
  BY DEF QueueInv
<1>6. QED
  BY <1>4, <1>5, TypeCorrect, PTL

\* The queue of REQUEST_UPDATEs and their promises agree, and nothing waits on
\* a stream that is gone (session.ts pendingRequestUpdates).
THEOREM UpdateQueueCorrect == Spec => []UpdateQueueSound
<1>1. QueueInv => UpdateQueueSound
  BY DEF QueueInv, UpdateQueueSound
<1>2. QED
  BY <1>1, QueueInvariant, PTL

\* The promise of a sendRequestUpdate() settles once.
THEOREM UpdatesSettleOnce == Spec => SettledOnce
<1> DEFINE Once == \A r \in Requests : \A u \in Updates :
             outcome[r][u] \in {"ok", "error"} => outcome'[r][u] = outcome[r][u]
<1>1. QueueInv /\ [Next]_vars => [Once]_vars
  <2> SUFFICES ASSUME QueueInv, UpdateStep, NEW q \in Requests, NEW u \in Updates,
                      outcome[q][u] \in {"ok", "error"}
               PROVE  outcome'[q][u] = outcome[q][u]
    BY StepsOnUpdates
  <2>1. /\ pending \in [Requests -> Seq(Updates)]
        /\ outcome \in [Requests -> [Updates -> {"unsent", "pending", "ok", "error"}]]
        /\ QueueSound(q)
    BY DEF QueueInv, TypeOK
  <2>2. CASE UNCHANGED updates
    BY <2>2 DEF updates
  <2>3. ASSUME NEW r \in Requests, FailPendingUpdates(r) PROVE outcome'[q][u] = outcome[q][u]
    BY <2>1, <2>3 DEF FailPendingUpdates, QueueSound
  <2>4. ASSUME NEW r \in Requests, Queued(r) PROVE outcome'[q][u] = outcome[q][u]
    BY <2>1, <2>4 DEF Queued
  <2>5. ASSUME NEW r \in Requests, Acknowledged(r) PROVE outcome'[q][u] = outcome[q][u]
    <3>1. CASE q # r
      BY <2>1, <2>5, <3>1 DEF Acknowledged
    <3>2. CASE q = r
      <4>1. Head(pending[q]) = pending[q][1] /\ 1 \in 1 .. Len(pending[q])
        BY <2>1, <2>5, <3>2 DEF Acknowledged
      <4>2. Head(pending[q]) \in Updates /\ outcome[q][Head(pending[q])] = "pending"
        BY <2>1, <4>1 DEF QueueSound
      <4>3. outcome' = [outcome EXCEPT ![q][Head(pending[q])] = "ok"]
        BY <2>5, <3>2 DEF Acknowledged
      <4>4. QED
        BY <2>1, <4>2, <4>3
    <3>3. QED
      BY <3>1, <3>2
  <2>6. QED
    BY <2>2, <2>3, <2>4, <2>5 DEF UpdateStep
<1>2. QED
  BY <1>1, QueueInvariant, PTL DEF Spec, SettledOnce
-----------------------------------------------------------------------------
(***************************************************************************)
(* A session and its peer, apart in time.  The other invariants relate     *)
(* what the session keeps of a request, what is on the way from the peer,  *)
(* and how far the peer is.  They are proved in layers: what the tables of *)
(* the session say of each other (Bookkeeping), what may not have happened *)
(* yet (NotYet), and then, of a peer that keeps to the protocol, the order *)
(* of what arrives (Ordered), the one GOAWAY (OneGoAway), the namespaces   *)
(* still to be read (Ledger), and the answers to the updates (Verdicts,    *)
(* Answering).                                                             *)
(***************************************************************************)
Step(r) == Local(r) \/ StreamRefused(r) \/ TimeoutFires(r) \/ Peer(r) \/ Application(r)

\* What is kept of a request whose stream is open, by the continuation of its call.
Phase(r) ==
  \/ call[r] = "writing" /\ reader[r] = "none" /\ r \notin answered
  \/ call[r] = "waiting" /\ reader[r] = "first" /\ r \notin answered
     /\ kind[r] # "subscribe-namespace"
  \/ /\ call[r] = "answered" /\ r \in answered /\ kind[r] # "subscribe-namespace"
     /\ reader[r] = "loop" \/ (reader[r] = "none" /\ kind[r] = "publish")
  \/ /\ call[r] \in {"ok", "dropped"} /\ kind[r] # "track-status"
     /\ r \in answered \/ kind[r] = "subscribe-namespace"
     /\ reader[r] = "loop" \/ (reader[r] = "none" /\ kind[r] = "publish")

\* Nothing is kept of a stream that is not in the table.
Forgotten(r) ==
  /\ inbox[r] = <<>>
  /\ announced[r] = {}
  /\ reader[r] = "none"
  /\ r \notin answered
  /\ r \notin goAway

Bookkeeping(r) ==
  /\ timer[r] = "armed" => kind[r] = "track-status"
  /\ r \in registered => kind[r] = "subscribe-namespace"
  /\ r \in publishing => kind[r] = "publish"
  /\ announced[r] # {} => r \in answered /\ kind[r] = "subscribe-namespace"
  /\ app[r] = IF r \in registered THEN announced[r] ELSE {}
  /\ call[r] \in {"writing", "waiting"} => r \in active
  /\ r \in active => Phase(r)
  /\ r \notin active => Forgotten(r)

\* A request that was not written has no peer, one that has not returned no
\* update, one without a peer no answer.
NotYet(r) ==
  /\ call[r] \in {"idle", "creating", "writing"} => peer[r] = "none"
  /\ peer[r] = "none" =>
       inbox[r] = <<>> /\ offered[r] = {} /\ \A u \in Updates : verdict[r][u] = "none"
  /\ \A u \in Updates : outcome[r][u] # "unsent" =>
       call[r] \in {"ok", "dropped"} /\ kind[r] # "track-status"
  /\ \A u \in Updates : verdict[r][u] # "none" => outcome[r][u] # "unsent"
  /\ kind[r] = "subscribe-namespace" /\ (call[r] \in {"creating", "writing"} \/ r \in active \ answered)
       => r \in registered \/ call[r] = "dropped"
  /\ MaxRequestUpdates > 0 => Len(pending[r]) <= MaxRequestUpdates

\* The state of a request is left alone.
Same(r) ==
  /\ kind'[r] = kind[r] /\ call'[r] = call[r] /\ timer'[r] = timer[r]
  /\ (r \in active' <=> r \in active) /\ (r \in answered' <=> r \in answered)
  /\ (r \in registered' <=> r \in registered) /\ (r \in publishing' <=> r \in publishing)
  /\ (r \in goAway' <=> r \in goAway) /\ (r \in rude' <=> r \in rude)
  /\ announced'[r] = announced[r] /\ reader'[r] = reader[r]
  /\ pending'[r] = pending[r] /\ outcome'[r] = outcome[r]
  /\ app'[r] = app[r] /\ inbox'[r] = inbox[r]
  /\ peer'[r] = peer[r] /\ verdict'[r] = verdict[r] /\ offered'[r] = offered[r]

\* A step of one request leaves the others alone.
LEMMA OthersSame ==
  ASSUME TypeOK, NEW r \in Requests, NEW q \in Requests \ {r}, Step(r)
  PROVE  Same(q)
<1> USE DEF calls, streams, updates, peers, TypeOK, Same
<1>1. ASSUME NEW timed \in BOOLEAN, StartRequest(r, timed) PROVE Same(q)
  BY <1>1 DEF StartRequest
<1>2. CASE StreamCreated(r) \/ StreamRefused(r) \/ RequestWritten(r)
  BY <1>2 DEF StreamCreated, StreamRefused, RequestWritten
<1>3. CASE TimeoutFires(r) \/ Unpublish(r) \/ CallReturns(r)
  BY <1>3 DEF TimeoutFires, Unpublish, CallReturns, ForgetStream, FailPendingUpdates, CallAfterLoss
<1>4. CASE SendRequestUpdate(r) \/ RemoveNamespaceSubscription(r)
  BY <1>4 DEF SendRequestUpdate, RemoveNamespaceSubscription
<1>5. CASE CancelRequest(r)
  BY <1>5 DEF CancelRequest, ForgetStream, FailPendingUpdates, CallAfterLoss
<1>6. CASE ReadFirstResponse(r)
  BY <1>6 DEF ReadFirstResponse, ForgetStream, FailPendingUpdates
<1>7. CASE ReadMessage(r)
  BY <1>7 DEF ReadMessage, SettleNamespaceSubscription, HandleMessage, SettleRequestUpdate,
              FailPendingUpdates
<1>8. CASE ReadEnd(r)
  BY <1>8 DEF ReadEnd, EndRequest, EndNamespaceSubscription, ForgetStream, FailPendingUpdates
<1>9. CASE PeerCancels(r)
  BY <1>9 DEF PeerCancels, EndRequest, EndNamespaceSubscription, ForgetStream,
              FailPendingUpdates, CallAfterLoss
<1>10. CASE PeerAnswers(r) \/ PeerAnswersUpdate(r) \/ PeerPublishDone(r) \/ PeerGoesAway(r)
  BY <1>10 DEF PeerAnswers, PeerAnswersUpdate, PeerPublishDone, PeerGoesAway, Arrive
<1>11. CASE PeerEnds(r) \/ PeerIsRude(r)
  BY <1>11 DEF PeerEnds, PeerIsRude, Arrive
<1>12. ASSUME NEW s \in Suffixes, PeerAnnounces(r, s) PROVE Same(q)
  BY <1>12 DEF PeerAnnounces, Arrive
<1>13. QED
  BY <1>1, <1>2, <1>3, <1>4, <1>5, <1>6, <1>7, <1>8, <1>9, <1>10, <1>11, <1>12
     DEF Step, Local, Peer, Application

\* What a request keeps depends on its own state only.
LEMMA SameBookkeeping ==
  ASSUME NEW r \in Requests, Same(r)
  PROVE  /\ Bookkeeping(r) => Bookkeeping(r)'
         /\ NotYet(r) => NotYet(r)'
<1>1. Bookkeeping(r) => Bookkeeping(r)'
  BY DEF Same, Bookkeeping, Phase, Forgotten
<1>2. NotYet(r) => NotYet(r)'
  BY DEF Same, NotYet
<1>3. QED
  BY <1>1, <1>2

\* A forgotten stream is out of every table.
LEMMA ForgetStreamForgets ==
  ASSUME TypeOK, NEW r \in Requests, ForgetStream(r)
  PROVE  r \notin active' /\ Forgotten(r)'
BY DEF TypeOK, ForgetStream, Forgotten

\* endNamespaceSubscription leaves the application without namespaces.
LEMMA EndedNamespaces ==
  ASSUME TypeOK, NEW r \in Requests, Bookkeeping(r), EndNamespaceSubscription(r)
  PROVE  r \notin registered' /\ app'[r] = {}
<1>1. CASE kind[r] = "subscribe-namespace" /\ r \in registered
  <2>1. app[r] = announced[r] /\ (r \notin answered => announced[r] = {})
    BY <1>1 DEF Bookkeeping
  <2>2. registered' = registered \ {r}
    BY <1>1 DEF EndNamespaceSubscription
  <2>3. app' = [app EXCEPT ![r] = IF r \in answered THEN app[r] \ announced[r] ELSE app[r]]
    BY <1>1 DEF EndNamespaceSubscription
  <2>4. app'[r] = IF r \in answered THEN app[r] \ announced[r] ELSE app[r]
    BY <2>3 DEF TypeOK
  <2>5. QED
    BY <2>1, <2>2, <2>4
<1>2. CASE ~(kind[r] = "subscribe-namespace" /\ r \in registered)
  <2>1. r \notin registered /\ app[r] = {}
    BY <1>2 DEF Bookkeeping
  <2>2. registered' = registered /\ app' = app
    BY <1>2 DEF EndNamespaceSubscription
  <2>3. QED
    BY <2>1, <2>2
<1>3. QED
  BY <1>1, <1>2

LEMMA BookkeepingStep ==
  ASSUME TypeOK, NEW r \in Requests, Bookkeeping(r), NotYet(r), Step(r)
  PROVE  Bookkeeping(r)'
<1> USE DEF calls, streams, updates, peers
<1>0. TypeOK
  OBVIOUS
<1>1. ASSUME NEW timed \in BOOLEAN, StartRequest(r, timed) PROVE Bookkeeping(r)'
  BY <1>1 DEF TypeOK, StartRequest, Bookkeeping, Phase, Forgotten
<1>2. CASE StreamCreated(r) \/ StreamRefused(r) \/ RequestWritten(r)
  <2>1. CASE StreamCreated(r)
    BY <2>1 DEF TypeOK, StreamCreated, Bookkeeping, Phase, Forgotten
  <2>2. CASE StreamRefused(r)
    <3>1. r \notin active
      BY <2>2 DEF StreamRefused, Bookkeeping, Phase
    <3>2. QED
      BY <2>2, <3>1 DEF StreamRefused, Bookkeeping, Forgotten
  <2>3. CASE RequestWritten(r)
    <3>1. r \in active /\ reader[r] = "none" /\ r \notin answered
      BY <2>3 DEF RequestWritten, Bookkeeping, Phase
    <3>2. QED
      BY <2>3, <3>1 DEF TypeOK, RequestWritten, Bookkeeping, Phase
  <2>4. QED
    BY <1>2, <2>1, <2>2, <2>3
<1>3. CASE TimeoutFires(r) \/ Unpublish(r) \/ CallReturns(r)
  <2>1. /\ kind' = kind /\ registered' = registered /\ app' = app
        /\ timer'[r] \in {timer[r], "fired"} /\ publishing' \subseteq publishing
    BY <1>3 DEF TypeOK, TimeoutFires, Unpublish, CallReturns
  <2>2. CASE ForgetStream(r) /\ kind[r] # "subscribe-namespace" /\ call'[r] \notin {"writing", "waiting"}
    <3>1. r \notin active' /\ Forgotten(r)' /\ r \notin registered
      BY <2>2, ForgetStreamForgets DEF Bookkeeping
    <3>2. QED
      BY <2>1, <2>2, <3>1 DEF Bookkeeping, Forgotten
  <2>3. ASSUME UNCHANGED <<active, answered, announced, goAway, reader, inbox>>,
               \/ r \notin active /\ call'[r] \in {call[r], "ok"}
               \/ call[r] = "answered" /\ call'[r] = "ok" /\ kind[r] # "track-status"
        PROVE  Bookkeeping(r)'
    <3>1. r \in active => Phase(r)'
      BY <2>1, <2>3 DEF Bookkeeping, Phase
    <3>2. call'[r] \notin {"writing", "waiting"} \/ r \in active'
      BY <2>3 DEF Bookkeeping
    <3>3. r \notin active => Forgotten(r)'
      BY <2>3 DEF Bookkeeping, Forgotten
    <3>4. active' = active /\ announced' = announced /\ answered' = answered
      BY <2>3
    <3>5. timer[r] = "armed" => kind[r] = "track-status"
      BY DEF Bookkeeping
    <3>6. QED
      BY <2>1, <3>1, <3>2, <3>3, <3>4, <3>5 DEF Bookkeeping
  <2>4. CASE TimeoutFires(r)
    BY <2>2, <2>3, <2>4 DEF TypeOK, TimeoutFires, Bookkeeping, CallAfterLoss
  <2>5. CASE Unpublish(r)
    BY <2>2, <2>3, <2>5 DEF Unpublish, Bookkeeping
  <2>6. CASE CallReturns(r)
    BY <2>2, <2>3, <2>6 DEF TypeOK, CallReturns
  <2>7. QED
    BY <1>3, <2>4, <2>5, <2>6
<1>4. CASE SendRequestUpdate(r)
  BY <1>4 DEF SendRequestUpdate, Bookkeeping, Phase, Forgotten
<1>5. CASE RemoveNamespaceSubscription(r)
  BY <1>5 DEF TypeOK, RemoveNamespaceSubscription, Bookkeeping, Phase, Forgotten
<1>6. CASE CancelRequest(r)
  <2>1. /\ r \notin registered' /\ app'[r] = {}
        /\ kind' = kind /\ timer' = timer /\ publishing' = publishing
    BY <1>6 DEF TypeOK, CancelRequest
  <2>2. r \notin active' /\ Forgotten(r)'
    BY <1>6, ForgetStreamForgets DEF CancelRequest, Bookkeeping, Forgotten
  <2>3. call'[r] \notin {"writing", "waiting"}
    BY <1>6 DEF TypeOK, CancelRequest, CallAfterLoss, Bookkeeping
  <2>4. QED
    BY <2>1, <2>2, <2>3 DEF Bookkeeping, Forgotten
<1>7. CASE ReadFirstResponse(r)
  <2>1. CASE ForgetStream(r)
    <3>1. /\ r \notin active' /\ Forgotten(r)'
          /\ timer' = timer /\ kind' = kind /\ registered' = registered /\ app' = app
          /\ publishing' = publishing
      BY <1>7, <2>1, ForgetStreamForgets DEF ReadFirstResponse
    <3>2. r \notin registered /\ call'[r] \notin {"writing", "waiting"}
      BY <1>7 DEF TypeOK, Bookkeeping, ReadFirstResponse, Phase, Forgotten
    <3>3. QED
      BY <3>1, <3>2 DEF Bookkeeping, Forgotten
  <2>2. CASE ~ForgetStream(r)
    BY <1>7, <2>2 DEF TypeOK, ReadFirstResponse, Bookkeeping, Phase, Forgotten
  <2>3. QED
    BY <2>1, <2>2
<1>8. CASE ReadMessage(r)
  <2> DEFINE m == Head(inbox[r])
  <2>1. /\ r \in active /\ Phase(r) /\ reader[r] = "loop"
        /\ call' = call /\ timer' = timer /\ kind' = kind
        /\ active' = active /\ publishing' = publishing /\ reader' = reader
    BY <1>8 DEF ReadMessage, Bookkeeping, Forgotten
  <2>2. answered \subseteq answered' /\ Phase(r)'
    <3>1. answered \subseteq answered'
      BY <1>8 DEF ReadMessage, SettleNamespaceSubscription
    <3>2. QED
      BY <2>1, <3>1 DEF Phase
  <2>3. CASE UNCHANGED <<announced, app>>
    <3>1. registered' \subseteq registered /\ (r \in registered /\ r \notin registered' => announced[r] = {})
      BY <1>8, <2>3 DEF ReadMessage, SettleNamespaceSubscription, Bookkeeping
    <3>2. QED
      BY <2>1, <2>2, <2>3, <3>1 DEF Bookkeeping
  <2>4. CASE ~UNCHANGED <<announced, app>>
    <3>1. /\ r \in answered /\ HandleMessage(r, m) /\ UNCHANGED <<answered, registered>>
          /\ m.type \in InboundOnOurRequest(kind[r])
      BY <1>8, <2>4 DEF ReadMessage, SettleNamespaceSubscription
    <3>2. /\ m.type \in {"NAMESPACE", "NAMESPACE_DONE"} /\ r \in registered
          /\ \/ /\ announced' = [announced EXCEPT ![r] = announced[r] \cup {m.suffix}]
                /\ app' = [app EXCEPT ![r] = app[r] \cup {m.suffix}]
             \/ /\ announced' = [announced EXCEPT ![r] = announced[r] \ {m.suffix}]
                /\ app' = [app EXCEPT ![r] = app[r] \ {m.suffix}]
      BY <2>4, <3>1 DEF HandleMessage
    <3>3. announced'[r] = app'[r]
      <4>1. announced[r] = app[r]
        BY <3>2 DEF Bookkeeping
      <4>2. announced \in [Requests -> SUBSET Suffixes] /\ app \in [Requests -> SUBSET Suffixes]
        BY DEF TypeOK
      <4>3. QED
        BY <3>2, <4>1, <4>2
    <3>4. kind[r] = "subscribe-namespace"
      BY <3>2 DEF Bookkeeping
    <3>5. QED
      BY <2>1, <2>2, <3>1, <3>2, <3>3, <3>4 DEF Bookkeeping
  <2>5. QED
    BY <2>3, <2>4
<1>9. CASE ReadEnd(r)
  <2>1. /\ r \notin registered' /\ app'[r] = {}
        /\ kind' = kind /\ timer' = timer /\ call' = call /\ publishing' \subseteq publishing
    BY <1>9, EndedNamespaces DEF ReadEnd, EndRequest
  <2>2. CASE ForgetStream(r)
    <3>1. call[r] \notin {"writing", "waiting"}
      BY <1>9 DEF ReadEnd, Bookkeeping, Phase, Forgotten
    <3>2. QED
      BY <2>1, <2>2, <3>1, ForgetStreamForgets DEF Bookkeeping, Forgotten
  <2>3. CASE ~ForgetStream(r)
    <3>1. /\ r \in publishing /\ reader' = [reader EXCEPT ![r] = "none"]
          /\ UNCHANGED <<active, answered, announced>>
      BY <1>9, <2>3 DEF ReadEnd
    <3>2. r \in active /\ Phase(r) /\ reader[r] = "loop" /\ kind[r] = "publish"
      BY <1>9, <3>1 DEF ReadEnd, Bookkeeping, Forgotten
    <3>3. Phase(r)'
      BY <2>1, <3>1, <3>2 DEF TypeOK, Phase
    <3>4. QED
      BY <2>1, <3>1, <3>2, <3>3 DEF Bookkeeping
  <2>4. QED
    BY <2>2, <2>3
<1>10. CASE PeerCancels(r)
  <2>1. /\ r \notin registered' /\ app'[r] = {}
        /\ kind' = kind /\ timer' = timer /\ publishing' \subseteq publishing
    BY <1>10, EndedNamespaces DEF PeerCancels, EndRequest
  <2>2. r \notin active' /\ Forgotten(r)'
    BY <1>10, ForgetStreamForgets DEF PeerCancels
  <2>3. call'[r] \notin {"writing", "waiting"}
    BY <1>10 DEF TypeOK, PeerCancels, CallAfterLoss
  <2>4. QED
    BY <2>1, <2>2, <2>3 DEF Bookkeeping, Forgotten
<1>11. ASSUME UNCHANGED <<calls, streams, app>>, r \in active PROVE Bookkeeping(r)'
  BY <1>11 DEF Bookkeeping, Phase
<1>12. CASE Peer(r) /\ ~PeerCancels(r)
  <2>1. UNCHANGED <<calls, streams, app>> /\ r \in active
    BY <1>12 DEF Peer, PeerAnswers, PeerAnswersUpdate, PeerPublishDone, PeerGoesAway,
                 PeerEnds, PeerIsRude, PeerAnnounces, PeerReady
  <2>2. QED
    BY <1>11, <2>1
<1>13. QED
  BY <1>1, <1>2, <1>3, <1>4, <1>5, <1>6, <1>7, <1>8, <1>9, <1>10, <1>12
     DEF Step, Local, Application, Peer

\* NotYet is kept too.
LEMMA NotYetStep ==
  ASSUME TypeOK, NEW r \in Requests, Bookkeeping(r), QueueSound(r), NotYet(r), Step(r)
  PROVE  NotYet(r)'
<1> USE DEF calls, streams, updates, peers
<1> DEFINE Quiet == /\ kind' = kind /\ peer' = peer /\ offered' = offered /\ verdict' = verdict
                    /\ call'[r] \in {"idle", "creating", "writing"} => call'[r] = call[r]
                    /\ call[r] \in {"ok", "dropped"} => call'[r] \in {call[r], "dropped"}
                    /\ inbox[r] = <<>> => inbox'[r] = <<>>
                    /\ r \in active' \ answered' => r \in active \ answered
                    /\ \/ r \in registered => r \in registered'
                       \/ call'[r] = "dropped"
                       \/ call'[r] \notin {"creating", "writing"} /\ r \notin active' \ answered'
\* The steps that leave the peer and the updates alone, or drop updates.
<1>1. ASSUME Quiet, UNCHANGED updates PROVE NotYet(r)'
  BY <1>1 DEF NotYet
<1>2. ASSUME Quiet, FailPendingUpdates(r) PROVE NotYet(r)'
  <2>1. pending'[r] = <<>> /\ Len(pending'[r]) = 0
    BY <1>2 DEF TypeOK, FailPendingUpdates
  <2>2. \A u \in Updates : outcome'[r][u] = "unsent" <=> outcome[r][u] = "unsent"
    <3>1. /\ pending[r] \in Seq(Updates)
          /\ outcome[r] \in [Updates -> {"unsent", "pending", "ok", "error"}]
          /\ outcome'[r] = [u \in Updates |-> IF \E i \in 1 .. Len(pending[r]) : pending[r][i] = u
                                             THEN "error" ELSE outcome[r][u]]
      BY <1>2 DEF TypeOK, FailPendingUpdates
    <3>2. QED
      BY <3>1 DEF QueueSound
  <2>3. QED
    BY <1>2, <2>1, <2>2, RequestStreamsAssumption DEF NotYet
<1>3. ASSUME NEW timed \in BOOLEAN, StartRequest(r, timed) PROVE NotYet(r)'
  BY <1>3 DEF TypeOK, StartRequest, NotYet, Bookkeeping
<1>4. CASE StreamCreated(r) \/ StreamRefused(r)
  BY <1>4 DEF TypeOK, StreamCreated, StreamRefused, NotYet, Bookkeeping, Forgotten
<1>5. CASE RequestWritten(r)
  BY <1>5 DEF TypeOK, RequestWritten, NotYet, Bookkeeping, Phase
<1>6. CASE TimeoutFires(r) \/ Unpublish(r) \/ CallReturns(r)
  <2>1. Quiet
    BY <1>6 DEF TypeOK, TimeoutFires, Unpublish, CallReturns, ForgetStream, CallAfterLoss
  <2>2. QED
    BY <1>1, <1>2, <1>6, <2>1 DEF TimeoutFires, Unpublish, CallReturns, ForgetStream
<1>7. CASE SendRequestUpdate(r)
  BY <1>7, RequestStreamsAssumption DEF TypeOK, SendRequestUpdate, NotYet, Bookkeeping, Phase
<1>8. CASE RemoveNamespaceSubscription(r)
  <2>1. Quiet
    BY <1>8 DEF TypeOK, RemoveNamespaceSubscription
  <2>2. QED
    BY <1>1, <1>8, <2>1 DEF RemoveNamespaceSubscription
<1>9. CASE CancelRequest(r)
  <2>1. Quiet
    BY <1>9 DEF TypeOK, CancelRequest, ForgetStream, CallAfterLoss, Bookkeeping
  <2>2. QED
    BY <1>1, <1>2, <1>9, <2>1 DEF CancelRequest, ForgetStream
<1>10. CASE ReadFirstResponse(r)
  <2>1. Quiet
    BY <1>10 DEF TypeOK, ReadFirstResponse, ForgetStream, Bookkeeping, Phase, Forgotten
  <2>2. QED
    BY <1>1, <1>2, <1>10, <2>1 DEF ReadFirstResponse, ForgetStream
<1>11. CASE ReadMessage(r)
  <2>1. /\ Quiet
        /\ UNCHANGED calls
    <3>1. r \in active /\ call[r] \notin {"creating", "writing"}
      BY <1>11 DEF ReadMessage, Bookkeeping, Phase, Forgotten
    <3>2. /\ UNCHANGED <<calls, peers, active>>
          /\ inbox[r] # <<>>
          /\ registered' = registered \/ r \in answered'
          /\ answered \subseteq answered'
      BY <1>11 DEF ReadMessage, SettleNamespaceSubscription
    <3>3. QED
      BY <3>1, <3>2
  <2>2. UNCHANGED updates \/ FailPendingUpdates(r) \/ Acknowledged(r)
    BY <1>11 DEF ReadMessage, HandleMessage, SettleNamespaceSubscription, SettleRequestUpdate,
                 Acknowledged
  <2>3. CASE Acknowledged(r)
    <3>1. /\ pending[r] \in Seq(Updates) /\ pending[r] # <<>>
          /\ pending'[r] = Tail(pending[r])
          /\ outcome'[r] = [outcome[r] EXCEPT ![pending[r][1]] = "ok"]
          /\ outcome[r] \in [Updates -> {"unsent", "pending", "ok", "error"}]
      BY <2>3 DEF TypeOK, Acknowledged
    <3>2. Len(pending[r]) \in Nat /\ Len(pending'[r]) = Len(pending[r]) - 1 /\ pending[r][1] \in Updates
      BY <3>1
    <3>3. outcome[r][pending[r][1]] = "pending"
      BY <3>1, <3>2 DEF QueueSound
    <3>4. \A u \in Updates : outcome'[r][u] = "unsent" <=> outcome[r][u] = "unsent"
      BY <3>1, <3>2, <3>3
    <3>5. MaxRequestUpdates > 0 => Len(pending'[r]) <= MaxRequestUpdates
      BY <3>2, RequestStreamsAssumption DEF NotYet
    <3>6. QED
      BY <2>1, <3>4, <3>5 DEF NotYet
  <2>4. QED
    BY <1>1, <1>2, <2>1, <2>2, <2>3
<1>12. CASE ReadEnd(r)
  <2>1. /\ Quiet
        /\ UNCHANGED updates \/ FailPendingUpdates(r)
    <3>1. r \in active /\ call[r] \notin {"creating", "writing"}
      BY <1>12 DEF ReadEnd, Bookkeeping, Phase, Forgotten
    <3>2. CASE ForgetStream(r)
      BY <1>12, <3>1, <3>2 DEF TypeOK, ReadEnd, ForgetStream
    <3>3. CASE ~ForgetStream(r)
      <4>1. r \in publishing /\ UNCHANGED <<registered, app>>
        BY <1>12, <3>3 DEF ReadEnd, EndNamespaceSubscription, Bookkeeping
      <4>2. QED
        BY <1>12, <3>3, <4>1 DEF TypeOK, ReadEnd
    <3>4. QED
      BY <3>2, <3>3
  <2>2. QED
    BY <1>1, <1>2, <2>1
<1>13. CASE PeerCancels(r)
  <2>1. Quiet /\ FailPendingUpdates(r)
    BY <1>13 DEF TypeOK, PeerCancels, ForgetStream, CallAfterLoss, Bookkeeping, Phase
  <2>2. QED
    BY <1>2, <2>1
<1>14. CASE PeerAnswersUpdate(r)
  <2>1. UNCHANGED <<calls, streams, updates, app, offered>> /\ peer[r] = "accepted" /\ peer'[r] # "none"
    BY <1>14 DEF TypeOK, PeerAnswersUpdate
  <2>2. \A u \in Updates : verdict'[r][u] = verdict[r][u] \/ outcome[r][u] # "unsent"
    BY <1>14 DEF TypeOK, PeerAnswersUpdate
  <2>3. QED
    BY <2>1, <2>2 DEF NotYet
<1>15. ASSUME UNCHANGED <<calls, streams, updates, app, verdict>>, peer[r] # "none", peer'[r] # "none"
       PROVE  NotYet(r)'
  BY <1>15 DEF NotYet
<1>16. CASE PeerAnswers(r) \/ PeerPublishDone(r) \/ PeerEnds(r) \/ PeerGoesAway(r) \/ PeerIsRude(r)
  BY <1>15, <1>16 DEF TypeOK, PeerAnswers, PeerPublishDone, PeerEnds, PeerGoesAway, PeerIsRude
<1>17. ASSUME NEW s \in Suffixes, PeerAnnounces(r, s) PROVE NotYet(r)'
  BY <1>15, <1>17 DEF PeerAnnounces
<1>18. QED
  BY <1>3, <1>4, <1>5, <1>6, <1>7, <1>8, <1>9, <1>10, <1>11, <1>12, <1>13, <1>14, <1>16, <1>17
     DEF Step, Local, Application, Peer

\* Both hold of every request, always.
SessionInv == QueueInv /\ \A r \in Requests : Bookkeeping(r) /\ NotYet(r)

LEMMA SessionInvariant == Spec => []SessionInv
<1> DEFINE Inv == \A r \in Requests : Bookkeeping(r) /\ NotYet(r)
<1>1. Init => Inv
  <2> SUFFICES ASSUME Init, NEW r \in Requests PROVE Bookkeeping(r) /\ NotYet(r)
    OBVIOUS
  <2>1. Bookkeeping(r)
    BY DEF Init, Bookkeeping, Forgotten
  <2>2. Len(pending[r]) = 0
    BY DEF Init
  <2>3. NotYet(r)
    BY <2>2, RequestStreamsAssumption DEF Init, NotYet
  <2>4. QED
    BY <2>1, <2>3
<1>2. QueueInv /\ Inv /\ [Next]_vars => Inv'
  <2> SUFFICES ASSUME QueueInv, Inv, [Next]_vars, NEW q \in Requests
               PROVE  Bookkeeping(q)' /\ NotYet(q)'
    OBVIOUS
  <2>0. TypeOK /\ QueueSound(q)
    BY DEF QueueInv
  <2>1. CASE UNCHANGED vars
    <3>1. Same(q)
      BY <2>1 DEF vars, calls, streams, updates, peers, Same
    <3>2. QED
      BY <3>1, SameBookkeeping
  <2>2. ASSUME NEW r \in Requests, Step(r) PROVE Bookkeeping(q)' /\ NotYet(q)'
    <3>1. CASE r = q
      BY <2>0, <2>2, <3>1, BookkeepingStep, NotYetStep
    <3>2. CASE r # q
      BY <2>0, <2>2, <3>2, OthersSame, SameBookkeeping
    <3>3. QED
      BY <3>1, <3>2
  <2>3. QED
    BY <2>1, <2>2 DEF Next, Step
<1>3. QueueInv /\ Inv => SessionInv
  BY DEF SessionInv
<1>4. QED
  BY <1>1, <1>2, <1>3, QueueInvariant, PTL DEF Spec

-----------------------------------------------------------------------------
(***************************************************************************)
(* What is on the way from a peer that keeps to the protocol.              *)
(***************************************************************************)
Ends == {"FIN", "RESET"}

Type(r, i) == inbox[r][i].type

\* The place of the response in the inbox, 0 when it was read.
Response(r) == IF r \in answered THEN 0 ELSE 1

\* The peer's answer to the request is, or was, a REQUEST_ERROR.  A request
\* that is not a SUBSCRIBE_NAMESPACE is forgotten when that is read.
Refused(r) ==
  IF r \in answered
  THEN kind[r] = "subscribe-namespace" /\ r \notin registered /\ call[r] # "dropped"
  ELSE inbox[r] # <<>> /\ Type(r, 1) = "REQUEST_ERROR"

\* The response comes first, what the kind of request allows comes next, and
\* nothing but the end comes after a refusal; a stream that is read has its end
\* in the inbox once the peer is gone.
Ordered(r) ==
  /\ peer[r] = "requested" => inbox[r] = <<>> /\ r \notin answered
  /\ r \notin answered /\ inbox[r] # <<>> =>
       Type(r, 1) \in {SuccessResponseType(kind[r]), "REQUEST_ERROR"} \cup Ends
  /\ r \notin answered /\ peer[r] \in {"accepted", "ended", "finished"} =>
       inbox[r] # <<>> /\ Type(r, 1) = SuccessResponseType(kind[r])
  /\ Refused(r) => peer[r] \in {"refused", "gone"}
  /\ \A i \in 1 .. Len(inbox[r]) : i > Response(r) =>
       Type(r, i) \in Ends \/ (~Refused(r) /\ Type(r, i) \in InboundOnOurRequest(kind[r]))
  /\ peer[r] = "gone" /\ reader[r] # "none" =>
       inbox[r] # <<>> /\ Type(r, Len(inbox[r])) \in Ends

\* One GOAWAY at most, read or waiting to be read.
OneGoAway(r) ==
  /\ \A i \in 1 .. Len(inbox[r]) : Type(r, i) = "GOAWAY" => r \notin goAway
  /\ \A i, j \in 1 .. Len(inbox[r]) : Type(r, i) = "GOAWAY" /\ Type(r, j) = "GOAWAY" => i = j

\* The namespaces announced once the first n messages of q are read, when those
\* of A are before.
After(q, A, n) == {s \in Suffixes :
  \/ \E i \in 1 .. n : /\ q[i].type = "NAMESPACE" /\ q[i].suffix = s
                       /\ \A j \in i + 1 .. n : ~(q[j].type = "NAMESPACE_DONE" /\ q[j].suffix = s)
  \/ s \in A /\ \A j \in 1 .. n : ~(q[j].type = "NAMESPACE_DONE" /\ q[j].suffix = s)}

\* A NAMESPACE_DONE is for a namespace announced by then, and a peer that is not
\* gone counts the namespaces that are announced when everything is read.
Ledger(r) == r \in registered =>
  /\ \A i \in 1 .. Len(inbox[r]) : Type(r, i) = "NAMESPACE_DONE" =>
       inbox[r][i].suffix \in After(inbox[r], announced[r], i - 1)
  /\ peer[r] # "gone" => offered[r] = After(inbox[r], announced[r], Len(inbox[r]))

\* Where the answers to updates are in the inbox.
OkAt(r) == {i \in 1 .. Len(inbox[r]) : i > Response(r) /\ Type(r, i) = "REQUEST_OK"}
ErrorAt(r) == {i \in 1 .. Len(inbox[r]) : i > Response(r) /\ Type(r, i) = "REQUEST_ERROR"}

\* The peer decides on the updates in the order they were sent, and accepts none
\* after it refused one.  A promise that resolved is one the peer accepted.
Verdicts(r) ==
  /\ \A u \in Updates : outcome[r][u] = "ok" => verdict[r][u] = "ok"
  /\ \A u, v \in Updates : v < u /\ verdict[r][u] # "none" => verdict[r][v] # "none"
  /\ \A u, v \in Updates : v < u /\ verdict[r][u] = "ok" => verdict[r][v] # "error"

\* Each REQUEST_OK on the way is for an accepted update that still waits, a later
\* one for a later update; a REQUEST_ERROR is the last answer.
Answering(r) ==
  /\ \A u \in Updates : outcome[r][u] = "error" => \E v \in Updates : verdict[r][v] = "error"
  /\ peer[r] \in {"requested", "accepted"} => \A u \in Updates : verdict[r][u] # "error"
  /\ \E f \in [OkAt(r) -> 1 .. Len(pending[r])] :
       /\ \A i \in OkAt(r) : verdict[r][pending[r][f[i]]] = "ok"
       /\ \A i, j \in OkAt(r) : i < j => f[i] < f[j]
  /\ \A i \in ErrorAt(r) :
       /\ \E k \in 1 .. Len(pending[r]) : verdict[r][pending[r][k]] = "error"
       /\ \A j \in OkAt(r) \cup ErrorAt(r) : j <= i

(***************************************************************************)
(* What a step does to a stream that is open after it.                     *)
(***************************************************************************)
\* The stream is opened: nothing is on it.
Opens(r) ==
  /\ inbox'[r] = <<>> /\ announced'[r] = {}
  /\ r \notin answered' /\ r \notin goAway'
  /\ pending'[r] = <<>> /\ offered'[r] = {}
  /\ peer'[r] = "none"
  /\ \A u \in Updates : outcome'[r][u] = "unsent" /\ verdict'[r][u] = "none"
  /\ kind'[r] = kind[r]

\* What the peer did and what arrived stay as they are.
Unread(r) ==
  /\ r \in active
  /\ inbox'[r] = inbox[r] /\ announced'[r] = announced[r]
  /\ (r \in answered' <=> r \in answered) /\ (r \in goAway' <=> r \in goAway)
  /\ verdict'[r] = verdict[r] /\ offered'[r] = offered[r] /\ kind'[r] = kind[r]

\* The application or the continuation of a call goes on.
Goes(r) ==
  /\ Unread(r)
  /\ r \in registered' => r \in registered
  /\ r \in registered /\ r \notin registered' => call'[r] = "dropped"
  /\ call[r] = "dropped" => call'[r] = "dropped"
  /\ \/ peer'[r] = peer[r] /\ reader'[r] = reader[r]
     \/ peer[r] = "none" /\ peer'[r] = "requested" /\ r \notin answered
  /\ (pending'[r] = pending[r] /\ outcome'[r] = outcome[r]) \/ Queued(r)

\* The FIN on the stream of a publication: the stream is not read any more.
Halts(r) ==
  /\ r \in active /\ kind[r] = "publish" /\ r \in answered
  /\ inbox[r] # <<>> /\ inbox'[r] = <<>> /\ reader'[r] = "none"
  /\ r \in answered' /\ (r \in goAway' <=> r \in goAway)
  /\ r \notin registered' /\ kind'[r] = kind[r]
  /\ pending'[r] = pending[r] /\ outcome'[r] = outcome[r]
  /\ peer'[r] = peer[r] /\ verdict'[r] = verdict[r] /\ offered'[r] = offered[r]

\* A message is read and handled.
Reads(r, m) ==
  /\ r \in active /\ reader[r] # "none" /\ inbox[r] # <<>>
  /\ m = inbox[r][1] /\ m.type \notin Ends
  /\ inbox'[r] = Tail(inbox[r])
  /\ r \in answered' /\ reader'[r] # "none"
  /\ call[r] = "dropped" <=> call'[r] = "dropped"
  /\ peer'[r] = peer[r] /\ verdict'[r] = verdict[r] /\ offered'[r] = offered[r]
  /\ kind'[r] = kind[r]
  /\ \/ /\ r \notin answered
        /\ m.type \in {SuccessResponseType(kind[r]), "REQUEST_ERROR"}
        /\ m.type = "REQUEST_ERROR" => kind[r] = "subscribe-namespace"
        /\ r \in registered' <=> r \in registered /\ m.type # "REQUEST_ERROR"
        /\ announced'[r] = announced[r] /\ (r \in goAway' <=> r \in goAway)
        /\ pending'[r] = pending[r] /\ outcome'[r] = outcome[r]
     \/ /\ r \in answered
        /\ m.type \in InboundOnOurRequest(kind[r])
        /\ r \in registered' <=> r \in registered
        /\ HandleMessage(r, m)

\* What the session keeps of the request stays as it is, but for the inbox.
Waits(r) ==
  /\ r \in active /\ kind'[r] = kind[r] /\ call'[r] = call[r] /\ reader'[r] = reader[r]
  /\ announced'[r] = announced[r] /\ (r \in answered' <=> r \in answered)
  /\ (r \in goAway' <=> r \in goAway) /\ (r \in registered' <=> r \in registered)
  /\ pending'[r] = pending[r] /\ outcome'[r] = outcome[r]

\* A message of the peer arrives.
Arrives(r, t, s) ==
  /\ Waits(r)
  /\ inbox'[r] = Append(inbox[r], [type |-> t, suffix |-> s])
  /\ peer[r] \notin {"none", "gone"}

\* A message that the peer sends on an open stream is put behind the others.
LEMMA MessageArrives ==
  ASSUME TypeOK, NEW r \in Requests, NEW t, NEW s, PeerReady(r), Arrive(r, t, s),
         UNCHANGED <<calls, streams, updates>>, peer[r] \notin {"none", "gone"}
  PROVE  Arrives(r, t, s)
<1>1. inbox'[r] = Append(inbox[r], [type |-> t, suffix |-> s])
  BY DEF TypeOK, PeerReady, Arrive
<1>2. Waits(r)
  BY DEF calls, streams, updates, PeerReady, Waits
<1>3. QED
  BY <1>1, <1>2 DEF Arrives

\* A stream that is forgotten is not open.
LEMMA NotForgotten ==
  ASSUME TypeOK, NEW r \in Requests, r \in active'
  PROVE  ~ForgetStream(r)
BY DEF ForgetStream

\* The steps of the session that leave the stream open.
LEMMA SessionStepOnOpenStream ==
  ASSUME TypeOK, NEW r \in Requests, Bookkeeping(r), QueueSound(r), NotYet(r),
         r \in active', r \notin rude', r \in active => Ordered(r),
         Local(r) \/ StreamRefused(r) \/ TimeoutFires(r) \/ PeerCancels(r) \/ Application(r)
  PROVE  Opens(r) \/ Goes(r) \/ Halts(r) \/ \E m \in Arrival : Reads(r, m)
<1> DEFINE Goal == Opens(r) \/ Goes(r) \/ Halts(r) \/ \E m \in Arrival : Reads(r, m)
<1> USE DEF calls, streams, updates, peers
<1>a. ~ForgetStream(r)
  BY NotForgotten
<1>b. r \in active => Phase(r)
  BY DEF Bookkeeping
<1>1. ASSUME NEW timed \in BOOLEAN, StartRequest(r, timed) PROVE FALSE
  BY <1>b, <1>1 DEF StartRequest, Phase
<1>2. CASE StreamRefused(r) \/ TimeoutFires(r) \/ PeerCancels(r)
  BY <1>a, <1>b, <1>2 DEF StreamRefused, TimeoutFires, PeerCancels, Phase
<1>3. CASE StreamCreated(r)
  <2>1. r \notin active /\ call[r] = "creating"
    BY <1>b, <1>3 DEF StreamCreated, Phase
  <2>2. Forgotten(r) /\ peer[r] = "none" /\ offered[r] = {}
        /\ \A u \in Updates : verdict[r][u] = "none" /\ outcome[r][u] = "unsent"
    BY <2>1 DEF Bookkeeping, NotYet
  <2>3. pending[r] = <<>>
    BY <2>1 DEF QueueSound
  <2>4. Opens(r)
    BY <1>3, <2>2, <2>3 DEF StreamCreated, Opens, Forgotten
  <2>5. QED
    BY <2>4
<1>4. CASE RequestWritten(r)
  <2>1. r \in active /\ r \notin answered /\ peer[r] = "none"
    BY <1>b, <1>4 DEF RequestWritten, Bookkeeping, NotYet, Phase
  <2>2. Goes(r)
    BY <1>4, <2>1 DEF TypeOK, RequestWritten, Goes, Unread
  <2>3. QED
    BY <2>2
<1>5. CASE SendRequestUpdate(r)
  <2>1. Goes(r)
    BY <1>5 DEF SendRequestUpdate, Goes, Unread, Queued
  <2>2. QED
    BY <2>1
<1>6. CASE CancelRequest(r) \/ Unpublish(r)
  BY <1>a, <1>6 DEF CancelRequest, Unpublish
<1>7. CASE RemoveNamespaceSubscription(r)
  <2>1. Goes(r)
    BY <1>7 DEF TypeOK, RemoveNamespaceSubscription, Goes, Unread
  <2>2. QED
    BY <2>1
<1>8. CASE CallReturns(r)
  <2>1. UNCHANGED <<active, answered, announced, goAway, reader, inbox, updates>>
    BY <1>a, <1>8 DEF CallReturns
  <2>2. Goes(r)
    BY <1>8, <2>1 DEF TypeOK, CallReturns, Goes, Unread
  <2>3. QED
    BY <2>2
<1>9. CASE ReadFirstResponse(r)
  <2>1. r \in active /\ r \notin answered /\ kind[r] # "subscribe-namespace" /\ call[r] # "dropped"
    BY <1>9 DEF ReadFirstResponse, Bookkeeping, Phase, Forgotten
  <2>2. /\ inbox[r] # <<>> /\ inbox[r] \in Seq(Arrival) /\ Head(inbox[r]) = inbox[r][1]
        /\ inbox[r][1] \in Arrival
    BY <1>9 DEF TypeOK, ReadFirstResponse
  <2>3. /\ inbox[r][1].type = SuccessResponseType(kind[r])
        /\ answered' = answered \cup {r}
        /\ reader' = [reader EXCEPT ![r] = "loop"]
        /\ call' = [call EXCEPT ![r] = "answered"]
        /\ inbox' = [inbox EXCEPT ![r] = Tail(inbox[r])]
        /\ UNCHANGED <<kind, announced, registered, goAway, updates, peers>>
    BY <1>9, <1>a, <2>2 DEF ReadFirstResponse
  <2>4. inbox[r][1].type \notin Ends
    BY <2>3 DEF SuccessResponseType, Ends
  <2>5. /\ inbox'[r] = Tail(inbox[r]) /\ reader'[r] = "loop" /\ call'[r] = "answered"
        /\ reader[r] = "first"
    BY <1>9, <2>3 DEF TypeOK, ReadFirstResponse
  <2>6. r \notin registered /\ inbox[r][1].type # "REQUEST_ERROR"
    BY <2>1, <2>3 DEF Bookkeeping, SuccessResponseType
  <2>7. Reads(r, inbox[r][1])
    BY <2>1, <2>2, <2>3, <2>4, <2>5, <2>6 DEF Reads
  <2>8. QED
    BY <2>2, <2>7
<1>10. CASE ReadMessage(r)
  <2> DEFINE m == inbox[r][1]
  <2>1. r \in active /\ Ordered(r) /\ reader[r] = "loop"
    BY <1>10 DEF ReadMessage, Bookkeeping, Forgotten
  <2>2. /\ inbox[r] # <<>> /\ inbox[r] \in Seq(Arrival) /\ Head(inbox[r]) = m /\ m \in Arrival
        /\ 1 \in 1 .. Len(inbox[r])
    BY <1>10 DEF TypeOK, ReadMessage
  <2>3. m.type \notin Ends
    BY <1>10, <2>2 DEF ReadMessage, Ends
  <2>4. inbox'[r] = Tail(inbox[r])
    BY <1>10 DEF TypeOK, ReadMessage
  <2>5. UNCHANGED <<calls, active, publishing, reader, peers>>
    BY <1>10 DEF ReadMessage
  <2>6. CASE r \notin answered
    <3>1. kind[r] = "subscribe-namespace"
      BY <2>1, <2>6 DEF Bookkeeping, Phase
    <3>2. m.type \in {"REQUEST_OK", "REQUEST_ERROR"}
      BY <2>1, <2>2, <2>3, <2>6, <3>1 DEF Ordered, Type, SuccessResponseType
    <3>3. SettleNamespaceSubscription(r, m)
      BY <1>10, <2>2, <2>6, <3>1, <3>2 DEF ReadMessage, InboundOnOurRequest
    <3>4. /\ answered' = answered \cup {r}
          /\ registered' = IF m.type = "REQUEST_ERROR" THEN registered \ {r} ELSE registered
          /\ UNCHANGED <<announced, goAway, updates>>
      BY <3>2, <3>3 DEF SettleNamespaceSubscription
    <3>5. Reads(r, m)
      BY <2>1, <2>2, <2>3, <2>4, <2>5, <2>6, <3>1, <3>2, <3>4 DEF Reads, SuccessResponseType
    <3>6. QED
      BY <2>2, <3>5
  <2>7. CASE r \in answered
    <3>1. m.type \in InboundOnOurRequest(kind[r])
      BY <2>1, <2>2, <2>3, <2>7 DEF Ordered, Response, Type
    <3>2. HandleMessage(r, m) /\ UNCHANGED <<answered, registered>>
      BY <1>10, <2>2, <2>7, <3>1 DEF ReadMessage
    <3>3. Reads(r, m)
      BY <2>1, <2>2, <2>3, <2>4, <2>5, <2>7, <3>1, <3>2 DEF Reads
    <3>4. QED
      BY <2>2, <3>3
  <2>8. QED
    BY <2>6, <2>7
<1>11. CASE ReadEnd(r)
  <2>1. /\ r \in publishing /\ reader' = [reader EXCEPT ![r] = "none"]
        /\ inbox' = [inbox EXCEPT ![r] = <<>>] /\ inbox[r] # <<>>
        /\ EndNamespaceSubscription(r)
        /\ UNCHANGED <<calls, active, answered, announced, goAway, updates, peers>>
    BY <1>a, <1>11 DEF ReadEnd
  <2>2. kind[r] = "publish" /\ r \in active /\ r \in answered
    BY <1>b, <1>11, <2>1 DEF ReadEnd, Bookkeeping, Phase, Forgotten
  <2>3. Halts(r)
    <3>1. r \notin registered'
      BY <2>1, EndedNamespaces
    <3>2. QED
      BY <2>1, <2>2, <3>1 DEF TypeOK, Halts
  <2>4. QED
    BY <2>3
<1>12. QED
  BY <1>1, <1>2, <1>3, <1>4, <1>5, <1>6, <1>7, <1>8, <1>9, <1>10, <1>11 DEF Local, Application

\* The last of a longer sequence stays when the first goes.
LEMMA LastOfTail ==
  ASSUME NEW T, NEW q \in Seq(T), q # <<>>, Len(q) # 1
  PROVE  Tail(q) # <<>> /\ Tail(q)[Len(Tail(q))] = q[Len(q)]
<1>1. /\ Tail(q) \in Seq(T) /\ Len(Tail(q)) = Len(q) - 1
      /\ \A i \in 1 .. Len(Tail(q)) : Tail(q)[i] = q[i + 1]
  BY HeadTailProperties
<1>2. Len(q) \in Nat \ {0, 1}
  BY EmptySeq
<1>3. Len(Tail(q)) \in Nat \ {0} /\ Len(Tail(q)) \in 1 .. Len(Tail(q)) /\ Len(Tail(q)) + 1 = Len(q)
  BY <1>1, <1>2
<1>4. Tail(q) # <<>>
  BY <1>3, EmptySeq
<1>5. QED
  BY <1>1, <1>3, <1>4

\* A sequence with something put behind it is not empty.
LEMMA AppendNotEmpty ==
  ASSUME NEW T, NEW q \in Seq(T), NEW m \in T
  PROVE  Append(q, m) # <<>>
<1>1. Len(q) \in Nat /\ Len(Append(q, m)) = Len(q) + 1 /\ Len(<<>>) = 0
  OBVIOUS
<1>2. Len(Append(q, m)) # 0
  BY <1>1
<1>3. QED
  BY <1>1, <1>2

\* The stream keeps its order.
LEMMA OrderedOnSession ==
  ASSUME TypeOK, NEW r \in Requests, Bookkeeping(r), QueueSound(r), NotYet(r),
         r \in active', r \notin rude', r \in active => Ordered(r),
         Local(r) \/ StreamRefused(r) \/ TimeoutFires(r) \/ PeerCancels(r) \/ Application(r)
  PROVE  Ordered(r)'
<1>1. CASE Opens(r)
  <2>1. Len(inbox'[r]) = 0
    BY <1>1 DEF Opens
  <2>2. QED
    BY <1>1, <2>1 DEF Opens, Ordered, Refused, Response
<1>2. CASE Goes(r)
  <2>1. Ordered(r)
    BY <1>2 DEF Goes, Unread
  <2>2. peer[r] = "none" => inbox[r] = <<>>
    BY DEF NotYet
  <2>3. /\ inbox'[r] = inbox[r] /\ kind'[r] = kind[r] /\ (r \in answered' <=> r \in answered)
        /\ Response(r)' = Response(r)
    BY <1>2 DEF Goes, Unread, Response
  <2>4. Refused(r)' => Refused(r)
    BY <1>2, <2>3 DEF Goes, Refused, Type
  <2>5. \/ peer'[r] = peer[r] /\ reader'[r] = reader[r]
        \/ peer[r] = "none" /\ peer'[r] = "requested" /\ r \notin answered
    BY <1>2 DEF Goes
  <2>6. QED
    BY <2>1, <2>2, <2>3, <2>4, <2>5 DEF Ordered, Type
<1>3. CASE Halts(r)
  <2>1. Ordered(r) /\ Len(inbox'[r]) = 0
    BY <1>3 DEF Halts
  <2>2. ~Refused(r)' /\ peer[r] # "requested"
    BY <1>3, <2>1 DEF Halts, Refused, Ordered
  <2>3. QED
    BY <1>3, <2>1, <2>2 DEF Halts, Ordered
<1>4. ASSUME NEW m \in Arrival, Reads(r, m) PROVE Ordered(r)'
  <2>1. /\ Ordered(r) /\ inbox[r] \in Seq(Arrival) /\ inbox[r] # <<>>
        /\ m = inbox[r][1] /\ m.type \notin Ends
        /\ inbox'[r] = Tail(inbox[r]) /\ r \in answered' /\ kind'[r] = kind[r] /\ peer'[r] = peer[r]
        /\ reader[r] # "none" /\ (call'[r] = "dropped" <=> call[r] = "dropped")
    BY <1>4 DEF TypeOK, Reads
  <2>2. /\ Len(inbox[r]) \in Nat \ {0} /\ Len(inbox'[r]) = Len(inbox[r]) - 1
        /\ \A i \in 1 .. Len(inbox'[r]) : /\ inbox'[r][i] = inbox[r][i + 1]
                                          /\ i + 1 \in 1 .. Len(inbox[r])
                                          /\ i + 1 > Response(r)
    BY <2>1 DEF Response
  <2>3. Refused(r)' => Refused(r)
    <3>1. CASE r \in answered
      <4>1. r \in registered' <=> r \in registered
        BY <1>4, <3>1 DEF Reads
      <4>2. QED
        BY <2>1, <3>1, <4>1 DEF Refused
    <3>2. CASE r \notin answered
      <4>1. /\ m.type \in {SuccessResponseType(kind[r]), "REQUEST_ERROR"}
            /\ m.type = "REQUEST_ERROR" => kind[r] = "subscribe-namespace"
            /\ r \in registered' <=> r \in registered /\ m.type # "REQUEST_ERROR"
        BY <1>4, <3>2 DEF Reads
      <4>2. kind[r] = "subscribe-namespace" => r \in registered \/ call[r] = "dropped"
        BY <1>4, <3>2 DEF Reads, NotYet
      <4>3. CASE call[r] # "dropped"
        BY <2>1, <3>2, <4>1, <4>2, <4>3 DEF Refused, Type
      <4>4. CASE call[r] = "dropped"
        BY <2>1, <3>2, <4>1, <4>4 DEF Refused, Type
      <4>5. QED
        BY <4>3, <4>4
    <3>3. QED
      BY <3>1, <3>2
  <2>4. \A i \in 1 .. Len(inbox'[r]) :
          \/ inbox'[r][i].type \in Ends
          \/ ~Refused(r)' /\ inbox'[r][i].type \in InboundOnOurRequest(kind[r])
    BY <2>1, <2>2, <2>3 DEF Ordered, Type
  <2>5. peer[r] = "gone" => inbox'[r] # <<>> /\ inbox'[r][Len(inbox'[r])].type \in Ends
    <3> SUFFICES ASSUME peer[r] = "gone"
                 PROVE  inbox'[r] # <<>> /\ inbox'[r][Len(inbox'[r])].type \in Ends
      OBVIOUS
    <3>1. inbox[r][Len(inbox[r])].type \in Ends
      BY <2>1 DEF Ordered, Type
    <3>2. Len(inbox[r]) # 1
      BY <2>1, <3>1
    <3>3. inbox'[r] # <<>> /\ inbox'[r][Len(inbox'[r])] = inbox[r][Len(inbox[r])]
      BY <2>1, <3>2, LastOfTail
    <3>4. QED
      BY <3>1, <3>3
  <2>6. peer[r] # "requested"
    BY <2>1 DEF Ordered
  <2>7. Refused(r)' => peer[r] \in {"refused", "gone"}
    BY <2>1, <2>3 DEF Ordered
  <2>8. QED
    BY <2>1, <2>4, <2>5, <2>6, <2>7 DEF Ordered, Type
<1>5. QED
  BY <1>1, <1>2, <1>3, <1>4, SessionStepOnOpenStream

\* What the peer says once it answered: after the response, and not after a refusal.
LEMMA OrderedOnArrival ==
  ASSUME TypeOK, NEW r \in Requests, Ordered(r), NEW t, NEW s, Arrives(r, t, s),
         peer[r] \in {"accepted", "ended"}, t \in InboundOnOurRequest(kind[r]),
         peer'[r] \in {"accepted", "ended", "finished"}
  PROVE  Ordered(r)'
<1>1. /\ inbox[r] \in Seq(Arrival) /\ Len(inbox[r]) \in Nat
      /\ inbox'[r] = Append(inbox[r], [type |-> t, suffix |-> s])
      /\ kind'[r] = kind[r] /\ (r \in answered' <=> r \in answered)
      /\ (r \in registered' <=> r \in registered) /\ call'[r] = call[r]
  BY DEF TypeOK, Arrives, Waits
<1>2. /\ Len(inbox'[r]) = Len(inbox[r]) + 1
      /\ inbox'[r][Len(inbox[r]) + 1].type = t
      /\ \A i \in 1 .. Len(inbox[r]) : inbox'[r][i] = inbox[r][i]
  BY <1>1
<1>3. ~Refused(r)
  BY DEF Ordered
<1>4. r \notin answered => 1 \in 1 .. Len(inbox[r]) /\ inbox'[r][1] = inbox[r][1]
  BY <1>1, <1>2 DEF Ordered
<1>5. ~Refused(r)'
  BY <1>1, <1>3, <1>4 DEF Refused, Type, Ordered
<1>6. \A i \in 1 .. Len(inbox'[r]) : i > Response(r)' =>
        inbox'[r][i].type \in Ends \/ inbox'[r][i].type \in InboundOnOurRequest(kind[r])
  <2>1. Response(r)' = Response(r)
    BY <1>1 DEF Response
  <2>2. \A i \in 1 .. Len(inbox[r]) : i > Response(r) =>
          inbox[r][i].type \in Ends \/ inbox[r][i].type \in InboundOnOurRequest(kind[r])
    BY DEF Ordered, Type
  <2>3. \A i \in 1 .. Len(inbox'[r]) : i \in 1 .. Len(inbox[r]) \/ i = Len(inbox[r]) + 1
    BY <1>1, <1>2
  <2>4. QED
    BY <1>2, <2>1, <2>2, <2>3
<1>7. r \notin answered' => inbox'[r] # <<>> /\ inbox'[r][1].type = SuccessResponseType(kind[r])
  BY <1>1, <1>4 DEF Ordered, Type
<1>8. QED
  BY <1>1, <1>5, <1>6, <1>7 DEF Ordered, Type

LEMMA OrderedOnPeer ==
  ASSUME TypeOK, NEW r \in Requests, Bookkeeping(r), NotYet(r), r \in active, r \notin rude', Ordered(r),
         Peer(r), ~PeerCancels(r)
  PROVE  Ordered(r)'
<1> USE DEF peers
<1>1. CASE PeerAnswers(r)
  <2>1. inbox[r] = <<>> /\ r \notin answered
    BY <1>1 DEF PeerAnswers, Ordered
  <2>2. PICK t : /\ Arrives(r, t, AnySuffix)
                 /\ \/ t = SuccessResponseType(kind[r]) /\ peer' = [peer EXCEPT ![r] = "accepted"]
                    \/ t = "REQUEST_ERROR" /\ peer' = [peer EXCEPT ![r] = "refused"]
    BY <1>1, MessageArrives DEF PeerAnswers
  <2>3. /\ inbox'[r] = <<[type |-> t, suffix |-> AnySuffix]>>
        /\ kind'[r] = kind[r] /\ r \notin answered'
        /\ \/ t = SuccessResponseType(kind[r]) /\ peer'[r] = "accepted"
           \/ t = "REQUEST_ERROR" /\ peer'[r] = "refused"
    BY <2>1, <2>2 DEF TypeOK, Arrives, Waits
  <2>4. Len(inbox'[r]) = 1 /\ inbox'[r][1].type = t /\ inbox'[r] # <<>>
    BY <2>3
  <2>5. SuccessResponseType(kind[r]) # "REQUEST_ERROR"
    BY DEF SuccessResponseType
  <2>6. QED
    BY <2>3, <2>4, <2>5 DEF Ordered, Refused, Response, Type
<1>2. CASE PeerAnswersUpdate(r)
  <2>1. PICK t \in {"REQUEST_OK", "REQUEST_ERROR"} :
          /\ Arrives(r, t, AnySuffix)
          /\ peer' = peer \/ peer' = [peer EXCEPT ![r] = "ended"]
    BY <1>2, MessageArrives DEF PeerAnswersUpdate
  <2>2. t \in InboundOnOurRequest(kind[r])
    <3>1. kind[r] # "track-status"
      BY <1>2 DEF PeerAnswersUpdate, NotYet
    <3>2. QED
      BY <3>1 DEF InboundOnOurRequest
  <2>3. peer[r] = "accepted" /\ peer'[r] \in {"accepted", "ended"}
    BY <1>2, <2>1 DEF TypeOK, PeerAnswersUpdate
  <2>4. QED
    BY <2>1, <2>2, <2>3, OrderedOnArrival
<1>3. CASE PeerPublishDone(r)
  <2>1. /\ Arrives(r, "PUBLISH_DONE", AnySuffix)
        /\ peer[r] \in {"accepted", "ended"} /\ peer'[r] = "finished"
        /\ "PUBLISH_DONE" \in InboundOnOurRequest(kind[r])
    BY <1>3, MessageArrives DEF TypeOK, PeerPublishDone, InboundOnOurRequest
  <2>2. QED
    BY <2>1, OrderedOnArrival
<1>4. CASE PeerGoesAway(r)
  <2>1. /\ Arrives(r, "GOAWAY", AnySuffix)
        /\ peer[r] = "accepted" /\ peer'[r] = "accepted"
        /\ "GOAWAY" \in InboundOnOurRequest(kind[r])
    BY <1>4, MessageArrives DEF TypeOK, PeerGoesAway, InboundOnOurRequest
  <2>2. QED
    BY <2>1, OrderedOnArrival
<1>5. ASSUME NEW s \in Suffixes, PeerAnnounces(r, s) PROVE Ordered(r)'
  <2>1. PICK t \in {"NAMESPACE", "NAMESPACE_DONE"} : Arrives(r, t, s)
    BY <1>5, MessageArrives DEF PeerAnnounces
  <2>2. /\ peer[r] = "accepted" /\ peer'[r] = "accepted"
        /\ t \in InboundOnOurRequest(kind[r])
    BY <1>5 DEF TypeOK, PeerAnnounces, InboundOnOurRequest
  <2>3. QED
    BY <2>1, <2>2, OrderedOnArrival
<1>6. CASE PeerEnds(r)
  <2>1. PICK n \in 0 .. Len(inbox[r]), t \in Ends :
          inbox' = [inbox EXCEPT ![r] = Append(SubSeq(inbox[r], 1, n), [type |-> t, suffix |-> AnySuffix])]
    <3>1. inbox[r] \in Seq(Arrival)
      BY DEF TypeOK
    <3>2. SubSeq(inbox[r], 1, Len(inbox[r])) = inbox[r] /\ Len(inbox[r]) \in 0 .. Len(inbox[r])
      BY <3>1
    <3>3. QED
      BY <1>6, <3>2 DEF PeerEnds, Ends
  <2>2. /\ inbox[r] \in Seq(Arrival) /\ Len(inbox[r]) \in Nat
        /\ inbox'[r] = Append(SubSeq(inbox[r], 1, n), [type |-> t, suffix |-> AnySuffix])
        /\ peer'[r] = "gone" /\ UNCHANGED <<kind, call, answered, registered>>
    BY <1>6, <2>1 DEF TypeOK, PeerEnds, calls, streams
  <2>3. /\ Len(inbox'[r]) = n + 1
        /\ inbox'[r][n + 1].type = t
        /\ \A i \in 1 .. n : inbox'[r][i] = inbox[r][i] /\ i \in 1 .. Len(inbox[r])
    BY <2>2
  <2>4. \A i \in 1 .. Len(inbox'[r]) : i \in 1 .. n \/ i = n + 1
    BY <2>2, <2>3
  <2>5. Refused(r)' => Refused(r)
    <3>1. CASE r \in answered
      BY <2>2, <3>1 DEF Refused
    <3>2. CASE r \notin answered /\ n = 0
      BY <2>2, <2>3, <3>2 DEF Refused, Type, Ends
    <3>3. CASE r \notin answered /\ n # 0
      <4>1. 1 \in 1 .. n /\ inbox[r] # <<>>
        BY <2>2, <3>3
      <4>2. QED
        BY <2>2, <2>3, <3>3, <4>1 DEF Refused, Type
    <3>4. QED
      BY <3>1, <3>2, <3>3
  <2>6. r \notin answered =>
          inbox'[r][1].type \in {SuccessResponseType(kind[r]), "REQUEST_ERROR"} \cup Ends
    <3>1. CASE n = 0
      BY <2>3, <3>1
    <3>2. CASE n # 0
      <4>1. 1 \in 1 .. n /\ inbox[r] # <<>>
        BY <2>2, <3>2
      <4>2. QED
        BY <2>3, <4>1 DEF Ordered, Type
    <3>3. QED
      BY <3>1, <3>2
  <2>7. \A i \in 1 .. Len(inbox'[r]) : i > Response(r)' =>
          \/ inbox'[r][i].type \in Ends
          \/ ~Refused(r)' /\ inbox'[r][i].type \in InboundOnOurRequest(kind[r])
    <3>1. Response(r)' = Response(r)
      BY <2>2 DEF Response
    <3>2. \A i \in 1 .. n : i > Response(r) =>
            \/ inbox[r][i].type \in Ends
            \/ ~Refused(r) /\ inbox[r][i].type \in InboundOnOurRequest(kind[r])
      BY <2>3 DEF Ordered, Type
    <3>3. QED
      BY <2>3, <2>4, <2>5, <3>1, <3>2
  <2>8. inbox'[r] # <<>> /\ inbox'[r][Len(inbox'[r])].type \in Ends
    <3>1. SubSeq(inbox[r], 1, n) \in Seq(Arrival)
      <4>1. inbox[r] \in Seq(Arrival) /\ n \in 0 .. Len(inbox[r])
        BY <2>2
      <4>2. QED
        BY <4>1
    <3>2. [type |-> t, suffix |-> AnySuffix] \in Arrival
      BY AnySuffixType DEF Arrival, Ends
    <3>3. inbox'[r] # <<>>
      BY <2>2, <3>1, <3>2, AppendNotEmpty
    <3>4. QED
      BY <2>3, <3>3
  <2>9. QED
    BY <2>2, <2>6, <2>7, <2>8 DEF Ordered, Type
<1>7. CASE PeerIsRude(r)
  BY <1>7 DEF PeerIsRude
<1>8. QED
  BY <1>1, <1>2, <1>3, <1>4, <1>5, <1>6, <1>7 DEF Peer

\* The peer's end of a stream keeps the first n messages that wait.
Cut(r, n) ==
  /\ n \in 0 .. Len(inbox[r]) /\ Waits(r)
  /\ Len(inbox'[r]) = n + 1
  /\ inbox'[r][n + 1].type \in Ends
  /\ \A i \in 1 .. n : inbox'[r][i] = inbox[r][i]
  /\ peer[r] # "none" /\ peer'[r] = "gone"
  /\ verdict'[r] = verdict[r] /\ offered'[r] = offered[r]

LEMMA EndCuts ==
  ASSUME TypeOK, NEW r \in Requests, PeerEnds(r)
  PROVE  \E n \in 0 .. Len(inbox[r]) : Cut(r, n)
<1>1. PICK n \in 0 .. Len(inbox[r]), t \in Ends :
        inbox' = [inbox EXCEPT ![r] = Append(SubSeq(inbox[r], 1, n), [type |-> t, suffix |-> AnySuffix])]
  <2>1. inbox[r] \in Seq(Arrival)
    BY DEF TypeOK
  <2>2. SubSeq(inbox[r], 1, Len(inbox[r])) = inbox[r] /\ Len(inbox[r]) \in 0 .. Len(inbox[r])
    BY <2>1
  <2>3. QED
    BY <2>2 DEF PeerEnds, Ends
<1>2. /\ inbox[r] \in Seq(Arrival) /\ Len(inbox[r]) \in Nat
      /\ inbox'[r] = Append(SubSeq(inbox[r], 1, n), [type |-> t, suffix |-> AnySuffix])
  BY <1>1 DEF TypeOK
<1>3. /\ Len(inbox'[r]) = n + 1
      /\ inbox'[r][n + 1].type = t
      /\ \A i \in 1 .. n : inbox'[r][i] = inbox[r][i]
  BY <1>2
<1>4. Waits(r) /\ peer[r] # "none" /\ peer'[r] = "gone" /\ UNCHANGED <<verdict, offered>>
  BY DEF TypeOK, PeerEnds, PeerReady, Waits, calls, streams, updates
<1>5. QED
  BY <1>3, <1>4 DEF Cut

\* What arrives at an open stream, when the peer keeps to the protocol.
LEMMA PeerStepOnOpenStream ==
  ASSUME TypeOK, NEW r \in Requests, r \notin rude', Peer(r), ~PeerCancels(r)
  PROVE  \/ \E t \in {SuccessResponseType(kind[r]), "REQUEST_ERROR"} :
              PeerAnswers(r) /\ Arrives(r, t, AnySuffix)
         \/ \E t \in {"REQUEST_OK", "REQUEST_ERROR"} :
              PeerAnswersUpdate(r) /\ Arrives(r, t, AnySuffix)
         \/ PeerPublishDone(r) /\ Arrives(r, "PUBLISH_DONE", AnySuffix)
         \/ PeerGoesAway(r) /\ Arrives(r, "GOAWAY", AnySuffix)
         \/ \E s \in Suffixes, t \in {"NAMESPACE", "NAMESPACE_DONE"} :
              PeerAnnounces(r, s) /\ Arrives(r, t, s)
         \/ \E n \in 0 .. Len(inbox[r]) : Cut(r, n)
<1>1. CASE PeerAnswers(r)
  BY <1>1, MessageArrives DEF PeerAnswers
<1>2. CASE PeerAnswersUpdate(r)
  BY <1>2, MessageArrives DEF PeerAnswersUpdate
<1>3. CASE PeerPublishDone(r)
  BY <1>3, MessageArrives DEF PeerPublishDone
<1>4. CASE PeerGoesAway(r)
  BY <1>4, MessageArrives DEF PeerGoesAway
<1>5. ASSUME NEW s \in Suffixes, PeerAnnounces(r, s)
      PROVE  \E t \in {"NAMESPACE", "NAMESPACE_DONE"} : Arrives(r, t, s)
  BY <1>5, MessageArrives DEF PeerAnnounces
<1>6. CASE PeerEnds(r)
  BY <1>6, EndCuts
<1>7. CASE PeerIsRude(r)
  BY <1>7 DEF PeerIsRude
<1>8. QED
  BY <1>1, <1>2, <1>3, <1>4, <1>5, <1>6, <1>7 DEF Peer

\* Where the messages are after one was read, and after one arrived.
LEMMA ReadShifts ==
  ASSUME TypeOK, NEW r \in Requests, NEW m \in Arrival, Reads(r, m)
  PROVE  /\ Len(inbox[r]) \in Nat \ {0} /\ Len(inbox'[r]) = Len(inbox[r]) - 1
         /\ inbox[r][1] = m
         /\ \A i \in 1 .. Len(inbox'[r]) :
              inbox'[r][i] = inbox[r][i + 1] /\ i + 1 \in 1 .. Len(inbox[r])
<1>1. inbox[r] \in Seq(Arrival) /\ inbox[r] # <<>> /\ inbox'[r] = Tail(inbox[r]) /\ m = inbox[r][1]
  BY DEF TypeOK, Reads
<1>2. QED
  BY <1>1

LEMMA ArrivalAdds ==
  ASSUME TypeOK, NEW r \in Requests, NEW t, NEW s, Arrives(r, t, s)
  PROVE  /\ Len(inbox[r]) \in Nat /\ Len(inbox'[r]) = Len(inbox[r]) + 1
         /\ inbox'[r][Len(inbox[r]) + 1].type = t
         /\ inbox'[r][Len(inbox[r]) + 1].suffix = s
         /\ \A i \in 1 .. Len(inbox[r]) : inbox'[r][i] = inbox[r][i]
         /\ \A i \in 1 .. Len(inbox'[r]) : i \in 1 .. Len(inbox[r]) \/ i = Len(inbox[r]) + 1
<1>1. inbox[r] \in Seq(Arrival) /\ inbox'[r] = Append(inbox[r], [type |-> t, suffix |-> s])
  BY DEF TypeOK, Arrives
<1>2. /\ Len(inbox[r]) \in Nat /\ Len(inbox'[r]) = Len(inbox[r]) + 1
      /\ inbox'[r][Len(inbox[r]) + 1] = [type |-> t, suffix |-> s]
  BY <1>1
<1>3. \A i \in 1 .. Len(inbox[r]) : inbox'[r][i] = inbox[r][i]
  BY <1>1
<1>4. \A i \in 1 .. Len(inbox'[r]) : i \in 1 .. Len(inbox[r]) \/ i = Len(inbox[r]) + 1
  BY <1>2
<1>5. QED
  BY <1>2, <1>3, <1>4

-----------------------------------------------------------------------------
\* The GOAWAY of a stream stays the only one.
LEMMA OneGoAwayStep ==
  ASSUME TypeOK, NEW r \in Requests, Bookkeeping(r), QueueSound(r), NotYet(r), Step(r),
         r \in active', r \notin rude', r \in active => Ordered(r) /\ OneGoAway(r)
  PROVE  OneGoAway(r)'
<1>0. r \in active =>
        /\ \A i \in 1 .. Len(inbox[r]) : inbox[r][i].type = "GOAWAY" => r \notin goAway
        /\ \A i, j \in 1 .. Len(inbox[r]) :
             inbox[r][i].type = "GOAWAY" /\ inbox[r][j].type = "GOAWAY" => i = j
  BY DEF OneGoAway, Type
<1>1. CASE Opens(r) \/ Halts(r)
  <2>1. Len(inbox'[r]) = 0
    BY <1>1 DEF Opens, Halts
  <2>2. QED
    BY <2>1 DEF OneGoAway
<1>2. CASE Goes(r)
  BY <1>0, <1>2 DEF Goes, Unread, OneGoAway, Type
<1>3. ASSUME NEW m \in Arrival, Reads(r, m) PROVE OneGoAway(r)'
  <2>1. /\ Len(inbox[r]) \in Nat \ {0} /\ Len(inbox'[r]) = Len(inbox[r]) - 1
        /\ inbox[r][1] = m
        /\ \A i \in 1 .. Len(inbox'[r]) :
             inbox'[r][i] = inbox[r][i + 1] /\ i + 1 \in 1 .. Len(inbox[r])
    BY <1>3, ReadShifts
  <2>2. r \in active /\ (r \in goAway' => r \in goAway \/ m.type = "GOAWAY")
    BY <1>3 DEF Reads, HandleMessage
  <2>3. \A i \in 1 .. Len(inbox'[r]) : inbox'[r][i].type = "GOAWAY" => r \notin goAway'
    <3> SUFFICES ASSUME NEW i \in 1 .. Len(inbox'[r]), inbox'[r][i].type = "GOAWAY"
                 PROVE  r \notin goAway'
      OBVIOUS
    <3>1. i + 1 \in 1 .. Len(inbox[r]) /\ inbox[r][i + 1].type = "GOAWAY" /\ 1 \in 1 .. Len(inbox[r])
      BY <2>1
    <3>2. i + 1 # 1
      OBVIOUS
    <3>3. m.type # "GOAWAY" /\ r \notin goAway
      BY <1>0, <2>1, <2>2, <3>1, <3>2
    <3>4. QED
      BY <2>2, <3>3
  <2>4. \A i, j \in 1 .. Len(inbox'[r]) :
          inbox'[r][i].type = "GOAWAY" /\ inbox'[r][j].type = "GOAWAY" => i = j
    <3> SUFFICES ASSUME NEW i \in 1 .. Len(inbox'[r]), NEW j \in 1 .. Len(inbox'[r]),
                        inbox'[r][i].type = "GOAWAY", inbox'[r][j].type = "GOAWAY"
                 PROVE  i = j
      OBVIOUS
    <3>1. i + 1 = j + 1
      BY <1>0, <2>1, <2>2
    <3>2. QED
      BY <3>1
  <2>5. QED
    BY <2>3, <2>4 DEF OneGoAway, Type
<1>4. ASSUME NEW t, NEW s, Arrives(r, t, s), t = "GOAWAY" => PeerGoesAway(r) PROVE OneGoAway(r)'
  <2>1. /\ Len(inbox[r]) \in Nat /\ Len(inbox'[r]) = Len(inbox[r]) + 1
        /\ inbox'[r][Len(inbox[r]) + 1].type = t
        /\ \A i \in 1 .. Len(inbox[r]) : inbox'[r][i] = inbox[r][i]
        /\ \A i \in 1 .. Len(inbox'[r]) : i \in 1 .. Len(inbox[r]) \/ i = Len(inbox[r]) + 1
    BY <1>4, ArrivalAdds
  <2>2. r \in active /\ (r \in goAway' <=> r \in goAway)
    BY <1>4 DEF Arrives, Waits
  <2>3. t = "GOAWAY" => r \notin goAway /\ \A i \in 1 .. Len(inbox[r]) : inbox[r][i].type # "GOAWAY"
    BY <1>4 DEF PeerGoesAway
  <2>4. QED
    BY <1>0, <2>1, <2>2, <2>3 DEF OneGoAway, Type
<1>5. ASSUME NEW n \in 0 .. Len(inbox[r]), Cut(r, n) PROVE OneGoAway(r)'
  <2>1. /\ Len(inbox[r]) \in Nat /\ Len(inbox'[r]) = n + 1 /\ inbox'[r][n + 1].type \in Ends
        /\ \A i \in 1 .. n : inbox'[r][i] = inbox[r][i] /\ i \in 1 .. Len(inbox[r])
    <3>1. Len(inbox[r]) \in Nat
      BY DEF TypeOK
    <3>2. \A i \in 1 .. n : i \in 1 .. Len(inbox[r])
      BY <3>1
    <3>3. QED
      BY <1>5, <3>1, <3>2 DEF Cut
  <2>2. r \in active /\ (r \in goAway' <=> r \in goAway)
    BY <1>5 DEF Cut, Waits
  <2>3. \A i \in 1 .. Len(inbox'[r]) : inbox'[r][i].type = "GOAWAY" => i \in 1 .. n
    BY <2>1 DEF Ends
  <2>4. QED
    BY <1>0, <2>1, <2>2, <2>3 DEF OneGoAway, Type
<1>6. CASE Peer(r) /\ ~PeerCancels(r)
  <2>1. SuccessResponseType(kind[r]) # "GOAWAY"
    BY DEF SuccessResponseType
  <2>2. QED
    BY <1>4, <1>5, <1>6, <2>1, PeerStepOnOpenStream
<1>7. QED
  BY <1>1, <1>2, <1>3, <1>6, SessionStepOnOpenStream DEF Step

-----------------------------------------------------------------------------
\* What a message does to the namespaces that are announced.
Told(A, m) ==
  CASE m.type = "NAMESPACE"      -> A \cup {m.suffix}
    [] m.type = "NAMESPACE_DONE" -> A \ {m.suffix}
    [] OTHER                     -> A

\* The namespaces after one more message.
LEMMA AfterNext ==
  ASSUME NEW q, NEW A \in SUBSET Suffixes, NEW n \in Nat, q[n + 1].suffix \in Suffixes
  PROVE  After(q, A, n + 1) = Told(After(q, A, n), q[n + 1])
<1> DEFINE m == q[n + 1]
           Done(j, s) == q[j].type = "NAMESPACE_DONE" /\ q[j].suffix = s
<1>1. SUFFICES ASSUME NEW s \in Suffixes
               PROVE  s \in After(q, A, n + 1) <=> s \in Told(After(q, A, n), m)
  BY DEF After, Told
<1>2. \A i \in 1 .. n + 1 : i \in 1 .. n \/ i = n + 1
  OBVIOUS
<1>3. CASE m.type = "NAMESPACE" /\ m.suffix = s
  <2>1. \A j \in (n + 1) + 1 .. n + 1 : FALSE
    OBVIOUS
  <2>2. n + 1 \in 1 .. n + 1
    OBVIOUS
  <2>3. s \in After(q, A, n + 1)
    BY <1>3, <2>1, <2>2 DEF After
  <2>4. s \in Told(After(q, A, n), m)
    BY <1>3 DEF Told
  <2>5. QED
    BY <2>3, <2>4
<1>4. CASE Done(n + 1, s)
  <2>1. \A i \in 1 .. n : n + 1 \in i + 1 .. n + 1
    OBVIOUS
  <2>2. m.type # "NAMESPACE" /\ n + 1 \in 1 .. n + 1
    BY <1>4
  <2>3. s \notin After(q, A, n + 1)
    BY <1>2, <1>4, <2>1, <2>2 DEF After
  <2>4. s \notin Told(After(q, A, n), m)
    BY <1>4 DEF Told
  <2>5. QED
    BY <2>3, <2>4
<1>5. CASE ~(m.type = "NAMESPACE" /\ m.suffix = s) /\ ~Done(n + 1, s)
  <2>1. s \in Told(After(q, A, n), m) <=> s \in After(q, A, n)
    BY <1>5 DEF Told
  <2>2. (\A j \in 1 .. n + 1 : ~Done(j, s)) <=> (\A j \in 1 .. n : ~Done(j, s))
    BY <1>2, <1>5
  <2>3. \A i \in 1 .. n :
          (\A j \in i + 1 .. n + 1 : ~Done(j, s)) <=> (\A j \in i + 1 .. n : ~Done(j, s))
    <3> SUFFICES ASSUME NEW i \in 1 .. n
                 PROVE  (\A j \in i + 1 .. n + 1 : ~Done(j, s)) <=> (\A j \in i + 1 .. n : ~Done(j, s))
      OBVIOUS
    <3>1. \A j \in i + 1 .. n + 1 : j \in i + 1 .. n \/ j = n + 1
      OBVIOUS
    <3>2. \A j \in i + 1 .. n : j \in i + 1 .. n + 1
      OBVIOUS
    <3>3. QED
      BY <1>5, <3>1, <3>2
  <2>4. s \in After(q, A, n + 1) <=> s \in After(q, A, n)
    <3>1. s \in After(q, A, n + 1) <=>
            \/ \E i \in 1 .. n + 1 : /\ q[i].type = "NAMESPACE" /\ q[i].suffix = s
                                     /\ \A j \in i + 1 .. n + 1 : ~Done(j, s)
            \/ s \in A /\ \A j \in 1 .. n + 1 : ~Done(j, s)
      BY DEF After
    <3>2. s \in After(q, A, n) <=>
            \/ \E i \in 1 .. n : /\ q[i].type = "NAMESPACE" /\ q[i].suffix = s
                                 /\ \A j \in i + 1 .. n : ~Done(j, s)
            \/ s \in A /\ \A j \in 1 .. n : ~Done(j, s)
      BY DEF After
    <3>3. \A i \in 1 .. n : i \in 1 .. n + 1
      OBVIOUS
    <3> HIDE DEF Done
    <3>4. QED
      BY <1>2, <1>5, <2>2, <2>3, <3>1, <3>2, <3>3
  <2>5. QED
    BY <2>1, <2>4
<1>6. QED
  BY <1>3, <1>4, <1>5

\* Only the messages that were read count.
LEMMA AfterPrefix ==
  ASSUME NEW p, NEW q, NEW A, NEW n \in Nat, \A i \in 1 .. n : p[i] = q[i]
  PROVE  After(p, A, n) = After(q, A, n)
<1>1. SUFFICES ASSUME NEW s \in Suffixes
               PROVE  s \in After(p, A, n) <=> s \in After(q, A, n)
  BY DEF After
<1>2. \A i \in 1 .. n : \A j \in i + 1 .. n : j \in 1 .. n
  OBVIOUS
<1>3. QED
  BY <1>2 DEF After

\* The namespaces after n more messages, once the first is handled.
LEMMA AfterTail ==
  ASSUME NEW p, NEW q, NEW A \in SUBSET Suffixes, NEW n \in Nat, q[1].suffix \in Suffixes,
         \A i \in 1 .. n : p[i] = q[i + 1]
  PROVE  After(p, Told(A, q[1]), n) = After(q, A, n + 1)
<1> DEFINE Said(i, s) == q[i].type = "NAMESPACE" /\ q[i].suffix = s
           Done(i, s) == q[i].type = "NAMESPACE_DONE" /\ q[i].suffix = s
<1>1. SUFFICES ASSUME NEW s \in Suffixes
               PROVE  s \in After(p, Told(A, q[1]), n) <=> s \in After(q, A, n + 1)
  BY DEF After
<1>2. \A i \in 1 .. n : i + 1 \in 2 .. n + 1
  OBVIOUS
<1>3. \A i \in 2 .. n + 1 : i - 1 \in 1 .. n /\ (i - 1) + 1 = i
  OBVIOUS
<1>4. s \in After(p, Told(A, q[1]), n) <=>
        \/ \E i \in 2 .. n + 1 : Said(i, s) /\ \A j \in i + 1 .. n + 1 : ~Done(j, s)
        \/ s \in Told(A, q[1]) /\ \A j \in 2 .. n + 1 : ~Done(j, s)
  <2>1. (\A j \in 1 .. n : ~(p[j].type = "NAMESPACE_DONE" /\ p[j].suffix = s)) <=>
          \A j \in 2 .. n + 1 : ~Done(j, s)
    BY <1>2, <1>3
  <2>2. \A i \in 1 .. n :
          (\A j \in i + 1 .. n : ~(p[j].type = "NAMESPACE_DONE" /\ p[j].suffix = s)) <=>
            \A j \in (i + 1) + 1 .. n + 1 : ~Done(j, s)
    <3> SUFFICES ASSUME NEW i \in 1 .. n
                 PROVE  (\A j \in i + 1 .. n : ~(p[j].type = "NAMESPACE_DONE" /\ p[j].suffix = s)) <=>
                          \A j \in (i + 1) + 1 .. n + 1 : ~Done(j, s)
      OBVIOUS
    <3>1. \A j \in i + 1 .. n : j \in 1 .. n /\ j + 1 \in (i + 1) + 1 .. n + 1
      OBVIOUS
    <3>2. \A j \in (i + 1) + 1 .. n + 1 : j - 1 \in i + 1 .. n /\ j - 1 \in 1 .. n /\ (j - 1) + 1 = j
      OBVIOUS
    <3>3. QED
      BY <3>1, <3>2
  <2>3. \A i \in 1 .. n : (p[i].type = "NAMESPACE" /\ p[i].suffix = s) <=> Said(i + 1, s)
    OBVIOUS
  <2>4. s \in After(p, Told(A, q[1]), n) <=>
          \/ \E i \in 1 .. n : /\ p[i].type = "NAMESPACE" /\ p[i].suffix = s
                               /\ \A j \in i + 1 .. n :
                                    ~(p[j].type = "NAMESPACE_DONE" /\ p[j].suffix = s)
          \/ /\ s \in Told(A, q[1])
             /\ \A j \in 1 .. n : ~(p[j].type = "NAMESPACE_DONE" /\ p[j].suffix = s)
    BY DEF After
  <2>5. (\E i \in 1 .. n : Said(i + 1, s) /\ \A j \in (i + 1) + 1 .. n + 1 : ~Done(j, s)) <=>
          \E i \in 2 .. n + 1 : Said(i, s) /\ \A j \in i + 1 .. n + 1 : ~Done(j, s)
    <3> HIDE DEF Said, Done
    <3>1. QED
      BY <1>2, <1>3
  <2>6. QED
    BY <2>1, <2>2, <2>3, <2>4, <2>5
<1>5. s \in After(q, A, n + 1) <=>
        \/ \E i \in 1 .. n + 1 : Said(i, s) /\ \A j \in i + 1 .. n + 1 : ~Done(j, s)
        \/ s \in A /\ \A j \in 1 .. n + 1 : ~Done(j, s)
  BY DEF After
<1>6. /\ Said(1, s) => s \in Told(A, q[1]) /\ ~Done(1, s)
      /\ Done(1, s) => s \notin Told(A, q[1])
      /\ ~Said(1, s) /\ ~Done(1, s) => (s \in Told(A, q[1]) <=> s \in A)
  BY DEF Told
<1> HIDE DEF Said, Done
<1>7. \A i \in 1 .. n + 1 : i = 1 \/ i \in 2 .. n + 1
  OBVIOUS
<1>8. /\ \A i \in 2 .. n + 1 : i \in 1 .. n + 1
      /\ 1 \in 1 .. n + 1 /\ 1 + 1 = 2
  OBVIOUS
<1>9. (\E i \in 1 .. n + 1 : Said(i, s) /\ \A j \in i + 1 .. n + 1 : ~Done(j, s)) <=>
        \/ \E i \in 2 .. n + 1 : Said(i, s) /\ \A j \in i + 1 .. n + 1 : ~Done(j, s)
        \/ Said(1, s) /\ \A j \in 2 .. n + 1 : ~Done(j, s)
  BY <1>7, <1>8
<1>10. (\A j \in 1 .. n + 1 : ~Done(j, s)) <=> ~Done(1, s) /\ \A j \in 2 .. n + 1 : ~Done(j, s)
  BY <1>7, <1>8
<1>11. QED
  BY <1>4, <1>5, <1>6, <1>9, <1>10

\* A message that arrives is counted by the peer as the session will count it.
LEMMA LedgerOnArrival ==
  ASSUME TypeOK, NEW r \in Requests, Ledger(r), NEW t, NEW s \in Suffixes, Arrives(r, t, s),
         offered'[r] = Told(offered[r], [type |-> t, suffix |-> s]),
         t = "NAMESPACE_DONE" => s \in offered[r]
  PROVE  Ledger(r)'
<1> SUFFICES ASSUME r \in registered'
             PROVE  Ledger(r)'
  BY DEF Ledger
<1> DEFINE q  == inbox[r]
           p  == inbox'[r]
           A  == announced[r]
           n  == Len(inbox[r])
<1>1. /\ n \in Nat /\ Len(p) = n + 1 /\ p[n + 1].type = t /\ p[n + 1].suffix = s
      /\ \A i \in 1 .. n : p[i] = q[i]
      /\ \A i \in 1 .. Len(p) : i \in 1 .. n \/ i = n + 1
  BY ArrivalAdds
<1>2. r \in registered /\ announced'[r] = A /\ peer[r] # "gone" /\ A \in SUBSET Suffixes
  BY DEF TypeOK, Arrives, Waits
<1>3. /\ \A i \in 1 .. n : q[i].type = "NAMESPACE_DONE" => q[i].suffix \in After(q, A, i - 1)
      /\ offered[r] = After(q, A, n)
  BY <1>2 DEF Ledger, Type
<1>4. \A i \in 1 .. n + 1 : After(p, A, i - 1) = After(q, A, i - 1)
  <2> SUFFICES ASSUME NEW i \in 1 .. n + 1 PROVE After(p, A, i - 1) = After(q, A, i - 1)
    OBVIOUS
  <2>1. i - 1 \in Nat /\ \A j \in 1 .. i - 1 : p[j] = q[j]
    BY <1>1
  <2>2. QED
    BY <2>1, AfterPrefix
<1>5. (n + 1) - 1 = n /\ n + 1 \in 1 .. n + 1
  BY <1>1
<1>6. After(p, A, n) = offered[r]
  BY <1>3, <1>4, <1>5
<1>7. offered'[r] = After(p, A, n + 1)
  <2>1. After(p, A, n + 1) = Told(After(p, A, n), p[n + 1])
    BY <1>1, <1>2, AfterNext
  <2>2. Told(offered[r], p[n + 1]) = Told(offered[r], [type |-> t, suffix |-> s])
    BY <1>1 DEF Told
  <2>3. QED
    BY <1>6, <2>1, <2>2
<1>8. \A i \in 1 .. Len(p) : p[i].type = "NAMESPACE_DONE" => p[i].suffix \in After(p, A, i - 1)
  <2> SUFFICES ASSUME NEW i \in 1 .. Len(p), p[i].type = "NAMESPACE_DONE"
               PROVE  p[i].suffix \in After(p, A, i - 1)
    OBVIOUS
  <2>1. CASE i \in 1 .. n
    <3>1. p[i] = q[i] /\ q[i].suffix \in After(q, A, i - 1) /\ i \in 1 .. n + 1
      BY <1>1, <1>3, <2>1
    <3>2. QED
      BY <1>4, <3>1
  <2>2. CASE i = n + 1
    BY <1>1, <1>5, <1>6, <2>2
  <2>3. QED
    BY <1>1, <2>1, <2>2
<1>9. QED
  BY <1>1, <1>2, <1>7, <1>8 DEF Ledger, Type

\* What handling a message does to the namespaces that are announced.
LEMMA ReadTells ==
  ASSUME TypeOK, NEW r \in Requests, NEW m \in Arrival, Reads(r, m), Ledger(r), r \in registered
  PROVE  announced'[r] = Told(announced[r], m)
<1>1. CASE r \notin answered
  <2>1. m.type \notin {"NAMESPACE", "NAMESPACE_DONE"} /\ announced'[r] = announced[r]
    BY <1>1 DEF Reads, SuccessResponseType
  <2>2. QED
    BY <2>1 DEF Told
<1>2. CASE r \in answered
  <2>1. HandleMessage(r, m) /\ announced \in [Requests -> SUBSET Suffixes]
    BY <1>2 DEF Reads, TypeOK
  <2>2. CASE m.type = "NAMESPACE"
    <3>1. announced' = [announced EXCEPT ![r] = announced[r] \cup {m.suffix}]
      BY <2>1, <2>2 DEF HandleMessage
    <3>2. announced'[r] = announced[r] \cup {m.suffix}
      BY <2>1, <3>1
    <3>3. QED
      BY <2>2, <3>2 DEF Told
  <2>3. CASE m.type = "NAMESPACE_DONE"
    <3>1. 1 \in 1 .. Len(inbox[r]) /\ inbox[r][1] = m
      BY ReadShifts
    <3>2. m.suffix \in After(inbox[r], announced[r], 1 - 1)
      BY <2>3, <3>1 DEF Ledger, Type
    <3>3. \A i \in 1 .. 1 - 1 : FALSE
      OBVIOUS
    <3>4. m.suffix \in announced[r]
      BY <3>2, <3>3 DEF After
    <3>5. announced' = [announced EXCEPT ![r] = announced[r] \ {m.suffix}]
      BY <2>1, <2>3, <3>4 DEF HandleMessage
    <3>6. announced'[r] = announced[r] \ {m.suffix}
      BY <2>1, <3>5
    <3>7. QED
      BY <2>3, <3>6 DEF Told
  <2>4. CASE m.type \notin {"NAMESPACE", "NAMESPACE_DONE"}
    <3>1. announced' = announced
      BY <2>1, <2>4 DEF HandleMessage
    <3>2. QED
      BY <2>4, <3>1 DEF Told
  <2>5. QED
    BY <2>2, <2>3, <2>4
<1>3. QED
  BY <1>1, <1>2

\* The ledger of an open stream stays right.
LEMMA LedgerStep ==
  ASSUME TypeOK, NEW r \in Requests, Bookkeeping(r), QueueSound(r), NotYet(r), Step(r),
         r \in active', r \notin rude', r \in active => Ordered(r) /\ Ledger(r)
  PROVE  Ledger(r)'
<1> USE DEF peers
<1>1. CASE Opens(r)
  <2>1. Len(inbox'[r]) = 0 /\ announced'[r] = {} /\ offered'[r] = {}
    BY <1>1 DEF Opens
  <2>2. \A p : After(p, {}, 0) = {}
    BY DEF After
  <2>3. QED
    BY <2>1, <2>2 DEF Ledger
<1>2. CASE Goes(r)
  <2>1. /\ Ledger(r) /\ (r \in registered' => r \in registered)
        /\ inbox'[r] = inbox[r] /\ announced'[r] = announced[r] /\ offered'[r] = offered[r]
        /\ peer'[r] # "gone" => peer[r] # "gone"
    BY <1>2 DEF Goes, Unread
  <2>2. QED
    BY <2>1 DEF Ledger, Type
<1>3. CASE Halts(r)
  BY <1>3 DEF Halts, Ledger
<1>4. ASSUME NEW m \in Arrival, Reads(r, m), r \in registered' PROVE Ledger(r)'
  <2> DEFINE q  == inbox[r]
             p  == inbox'[r]
             A  == announced[r]
  <2>1. /\ r \in active /\ r \in registered /\ offered'[r] = offered[r] /\ peer'[r] = peer[r]
        /\ Ledger(r)
    BY <1>4 DEF Reads
  <2>2. /\ Len(q) \in Nat \ {0} /\ Len(p) = Len(q) - 1 /\ q[1] = m
        /\ \A i \in 1 .. Len(p) : p[i] = q[i + 1] /\ i + 1 \in 1 .. Len(q)
    BY <1>4, ReadShifts
  <2>3. announced'[r] = Told(A, q[1]) /\ q[1].suffix \in Suffixes /\ A \in SUBSET Suffixes
    BY <1>4, <2>1, <2>2, ReadTells DEF TypeOK, Arrival
  <2>4. \A n \in 0 .. Len(p) : After(p, announced'[r], n) = After(q, A, n + 1)
    <3> SUFFICES ASSUME NEW n \in 0 .. Len(p)
                 PROVE  After(p, announced'[r], n) = After(q, A, n + 1)
      OBVIOUS
    <3>1. n \in Nat /\ \A i \in 1 .. n : i \in 1 .. Len(p)
      BY <2>2
    <3>2. \A i \in 1 .. n : p[i] = q[i + 1]
      BY <2>2, <3>1
    <3>3. After(p, Told(A, q[1]), n) = After(q, A, n + 1)
      BY <2>3, <3>1, <3>2, AfterTail
    <3>4. QED
      BY <2>3, <3>3
  <2>5. \A i \in 1 .. Len(p) : p[i].type = "NAMESPACE_DONE" =>
          p[i].suffix \in After(p, announced'[r], i - 1)
    <3> SUFFICES ASSUME NEW i \in 1 .. Len(p), p[i].type = "NAMESPACE_DONE"
                 PROVE  p[i].suffix \in After(p, announced'[r], i - 1)
      OBVIOUS
    <3>1. p[i] = q[i + 1] /\ i + 1 \in 1 .. Len(q) /\ i - 1 \in 0 .. Len(p)
      BY <2>2
    <3>2. q[i + 1].suffix \in After(q, A, (i + 1) - 1)
      BY <2>1, <3>1 DEF Ledger, Type
    <3>3. (i + 1) - 1 = (i - 1) + 1
      OBVIOUS
    <3>4. QED
      BY <2>4, <3>1, <3>2, <3>3
  <2>6. peer[r] # "gone" => offered[r] = After(p, announced'[r], Len(p))
    <3>1. Len(p) \in 0 .. Len(p) /\ Len(p) + 1 = Len(q)
      BY <2>2
    <3>2. After(p, announced'[r], Len(p)) = After(q, A, Len(q))
      BY <2>4, <3>1
    <3>3. QED
      BY <2>1, <3>2 DEF Ledger
  <2>7. QED
    BY <2>1, <2>5, <2>6 DEF Ledger, Type
<1>5. ASSUME NEW t, Arrives(r, t, AnySuffix), t \notin {"NAMESPACE", "NAMESPACE_DONE"}, offered' = offered
      PROVE  Ledger(r)'
  <2>1. offered'[r] = Told(offered[r], [type |-> t, suffix |-> AnySuffix])
    BY <1>5 DEF Told
  <2>2. Ledger(r)
    BY <1>5 DEF Arrives, Waits
  <2>3. QED
    BY <1>5, <2>1, <2>2, LedgerOnArrival, AnySuffixType
<1>6. ASSUME NEW s \in Suffixes, PeerAnnounces(r, s) PROVE Ledger(r)'
  <2>1. r \in active /\ Ledger(r) /\ offered \in [Requests -> SUBSET Suffixes]
    BY <1>6 DEF PeerAnnounces, PeerReady, TypeOK
  <2>2. CASE s \in offered[r]
    <3>1. Arrives(r, "NAMESPACE_DONE", s) /\ offered' = [offered EXCEPT ![r] = offered[r] \ {s}]
      BY <1>6, <2>2, MessageArrives DEF PeerAnnounces
    <3>2. offered'[r] = Told(offered[r], [type |-> "NAMESPACE_DONE", suffix |-> s])
      BY <2>1, <3>1 DEF Told
    <3>3. QED
      BY <2>1, <2>2, <3>1, <3>2, LedgerOnArrival
  <2>3. CASE s \notin offered[r]
    <3>1. Arrives(r, "NAMESPACE", s) /\ offered' = [offered EXCEPT ![r] = offered[r] \cup {s}]
      BY <1>6, <2>3, MessageArrives DEF PeerAnnounces
    <3>2. offered'[r] = Told(offered[r], [type |-> "NAMESPACE", suffix |-> s])
      BY <2>1, <3>1 DEF Told
    <3>3. QED
      BY <2>1, <3>1, <3>2, LedgerOnArrival
  <2>4. QED
    BY <2>2, <2>3
<1>7. ASSUME NEW n \in 0 .. Len(inbox[r]), Cut(r, n), r \in registered' PROVE Ledger(r)'
  <2>1. /\ r \in active /\ r \in registered /\ announced'[r] = announced[r] /\ peer'[r] = "gone"
        /\ Len(inbox'[r]) = n + 1 /\ inbox'[r][n + 1].type \in Ends
        /\ \A i \in 1 .. n : inbox'[r][i] = inbox[r][i]
    BY <1>7 DEF Cut, Waits
  <2>2. \A i \in 1 .. n : i \in 1 .. Len(inbox[r]) /\ i - 1 \in Nat /\ \A j \in 1 .. i - 1 : j \in 1 .. n
    <3>1. Len(inbox[r]) \in Nat
      BY DEF TypeOK
    <3>2. QED
      BY <3>1
  <2>3. \A i \in 1 .. Len(inbox'[r]) : inbox'[r][i].type = "NAMESPACE_DONE" =>
          inbox'[r][i].suffix \in After(inbox'[r], announced[r], i - 1)
    <3> SUFFICES ASSUME NEW i \in 1 .. Len(inbox'[r]), inbox'[r][i].type = "NAMESPACE_DONE"
                 PROVE  inbox'[r][i].suffix \in After(inbox'[r], announced[r], i - 1)
      OBVIOUS
    <3>1. i \in 1 .. n
      BY <2>1 DEF Ends
    <3>2. inbox[r][i].suffix \in After(inbox[r], announced[r], i - 1) /\ inbox'[r][i] = inbox[r][i]
      BY <2>1, <2>2, <3>1 DEF Ledger, Type
    <3>3. After(inbox'[r], announced[r], i - 1) = After(inbox[r], announced[r], i - 1)
      BY <2>1, <2>2, <3>1, AfterPrefix
    <3>4. QED
      BY <3>2, <3>3
  <2>4. QED
    BY <2>1, <2>3 DEF Ledger, Type
<1>8. CASE Peer(r) /\ ~PeerCancels(r)
  <2>1. SuccessResponseType(kind[r]) \notin {"NAMESPACE", "NAMESPACE_DONE"}
    BY DEF SuccessResponseType
  <2>2. \/ \E t \in {SuccessResponseType(kind[r]), "REQUEST_OK", "REQUEST_ERROR", "PUBLISH_DONE", "GOAWAY"} :
             Arrives(r, t, AnySuffix) /\ offered' = offered
        \/ \E s \in Suffixes : PeerAnnounces(r, s)
        \/ \E n \in 0 .. Len(inbox[r]) : Cut(r, n)
    BY <1>8, PeerStepOnOpenStream
       DEF PeerAnswers, PeerAnswersUpdate, PeerPublishDone, PeerGoesAway
  <2>3. r \notin registered' => Ledger(r)'
    BY DEF Ledger
  <2>4. QED
    BY <1>5, <1>6, <1>7, <2>1, <2>2, <2>3
<1>9. r \notin registered' => Ledger(r)'
  BY DEF Ledger
<1>10. QED
  BY <1>1, <1>2, <1>3, <1>4, <1>8, <1>9, SessionStepOnOpenStream DEF Step

-----------------------------------------------------------------------------
(***************************************************************************)
(* The answers to the updates.                                             *)
(***************************************************************************)
UpdateTypes(r) ==
  /\ pending[r] \in Seq(Updates) /\ Len(pending[r]) \in Nat
  /\ \A k \in 1 .. Len(pending[r]) : pending[r][k] \in Updates
  /\ outcome[r] \in [Updates -> {"unsent", "pending", "ok", "error"}]
  /\ verdict[r] \in [Updates -> {"none", "ok", "error"}]
  /\ Updates \subseteq Nat

LEMMA UpdatesTyped ==
  ASSUME TypeOK, NEW r \in Requests
  PROVE  UpdateTypes(r)
<1>1. pending[r] \in Seq(Updates)
  BY DEF TypeOK
<1>2. Len(pending[r]) \in Nat /\ \A k \in 1 .. Len(pending[r]) : pending[r][k] \in Updates
  BY <1>1
<1>3. QED
  BY <1>1, <1>2 DEF TypeOK, UpdateTypes, Updates

\* When the first update that waits has an accepted one behind it, it is accepted.
LEMMA FirstIsAccepted ==
  ASSUME NEW r, UpdateTypes(r), QueueSound(r), Verdicts(r),
         NEW k \in 1 .. Len(pending[r]), verdict[r][pending[r][k]] = "ok"
  PROVE  /\ 1 \in 1 .. Len(pending[r])
         /\ pending[r][1] \in Updates
         /\ verdict[r][pending[r][1]] = "ok"
<1>1. 1 \in 1 .. Len(pending[r]) /\ pending[r][1] \in Updates /\ pending[r][k] \in Updates
  BY DEF UpdateTypes
<1>2. CASE k = 1
  BY <1>1, <1>2
<1>3. CASE k # 1
  <2>1. 1 < k
    BY <1>3
  <2>2. pending[r][1] < pending[r][k]
    BY <1>1, <2>1 DEF QueueSound
  <2>3. verdict[r][pending[r][1]] \notin {"none", "error"}
    BY <1>1, <2>2 DEF Verdicts
  <2>4. QED
    BY <1>1, <2>3 DEF UpdateTypes
<1>4. QED
  BY <1>2, <1>3

\* An update the peer has not decided on, and one before it that it has.
LEMMA UndecidedIsLater ==
  ASSUME NEW r, UpdateTypes(r), QueueSound(r), Verdicts(r),
         NEW k \in 1 .. Len(pending[r]), verdict[r][pending[r][k]] = "none",
         NEW j \in 1 .. Len(pending[r]), verdict[r][pending[r][j]] = "ok"
  PROVE  j < k
<1>1. pending[r][j] \in Updates /\ pending[r][k] \in Updates /\ j # k
  BY DEF UpdateTypes
<1>2. ASSUME k < j PROVE FALSE
  <2>1. pending[r][k] < pending[r][j]
    BY <1>2 DEF QueueSound
  <2>2. QED
    BY <1>1, <2>1 DEF Verdicts
<1>3. QED
  BY <1>1, <1>2

\* An update the peer holds while it accepts updates is waiting in the queue.
LEMMA HeldIsQueued ==
  ASSUME NEW r, UpdateTypes(r), QueueSound(r), Verdicts(r), Answering(r),
         \A v \in Updates : verdict[r][v] # "error",
         NEW u \in Updates, outcome[r][u] # "unsent", verdict[r][u] = "none"
  PROVE  \E k \in 1 .. Len(pending[r]) : pending[r][k] = u
<1>1. outcome[r][u] # "ok"
  BY DEF Verdicts
<1>2. outcome[r][u] # "error"
  BY DEF Answering
<1>3. outcome[r][u] = "pending"
  BY <1>1, <1>2 DEF UpdateTypes
<1>4. QED
  BY <1>3 DEF QueueSound

\* With no answer on the way there is nothing to match.
LEMMA NoAnswers ==
  ASSUME NEW r, NEW n, NEW p, NEW v
  PROVE  \E f \in [{} -> 1 .. n] :
           /\ \A i \in {} : v[p[f[i]]] = "ok"
           /\ \A i, j \in {} : i < j => f[i] < f[j]
<1>1. [i \in {} |-> 0] \in [{} -> 1 .. n]
  OBVIOUS
<1>2. QED
  BY <1>1

\* What the answers on the way rely on is left alone by most steps.
LEMMA SameAnswers ==
  ASSUME NEW r, r \in answered' <=> r \in answered,
         inbox'[r] = inbox[r], verdict'[r] = verdict[r]
  PROVE  /\ OkAt(r)' = OkAt(r) /\ ErrorAt(r)' = ErrorAt(r)
BY DEF OkAt, ErrorAt, Response, Type

\* The places of the answers once a message was read.
LEMMA AnswersShift ==
  ASSUME TypeOK, NEW r \in Requests, NEW m \in Arrival, Reads(r, m)
  PROVE  /\ \A i \in OkAt(r)' : i \in Nat \ {0} /\ i + 1 \in OkAt(r)
         /\ \A i \in ErrorAt(r)' : i \in Nat \ {0} /\ i + 1 \in ErrorAt(r)
<1>1. /\ Len(inbox[r]) \in Nat \ {0}
      /\ \A i \in 1 .. Len(inbox'[r]) :
           inbox'[r][i] = inbox[r][i + 1] /\ i + 1 \in 1 .. Len(inbox[r])
  BY ReadShifts
<1>2. \A i \in 1 .. Len(inbox'[r]) : i + 1 > Response(r) /\ i \in Nat \ {0}
  BY DEF Response
<1>3. QED
  BY <1>1, <1>2 DEF OkAt, ErrorAt, Type

\* What a match of the answers is.
LEMMA MatchOf ==
  ASSUME NEW r, Answering(r)
  PROVE  \E f \in [OkAt(r) -> 1 .. Len(pending[r])] :
           /\ \A i \in OkAt(r) : verdict[r][pending[r][f[i]]] = "ok"
           /\ \A i, j \in OkAt(r) : i < j => f[i] < f[j]
BY DEF Answering

\* Reading a message that answers no update.
LEMMA AnswersPassBy ==
  ASSUME TypeOK, NEW r \in Requests, NEW m \in Arrival, Reads(r, m), Answering(r),
         pending'[r] = pending[r], outcome'[r] = outcome[r]
  PROVE  Answering(r)'
<1>1. /\ \A i \in OkAt(r)' : i \in Nat \ {0} /\ i + 1 \in OkAt(r)
      /\ \A i \in ErrorAt(r)' : i \in Nat \ {0} /\ i + 1 \in ErrorAt(r)
  BY AnswersShift
<1>2. verdict'[r] = verdict[r] /\ peer'[r] = peer[r]
  BY DEF Reads
<1>3. PICK f \in [OkAt(r) -> 1 .. Len(pending[r])] :
        /\ \A i \in OkAt(r) : verdict[r][pending[r][f[i]]] = "ok"
        /\ \A i, j \in OkAt(r) : i < j => f[i] < f[j]
  BY MatchOf
<1> DEFINE O == OkAt(r)'
           g == [i \in O |-> f[i + 1]]
<1>4. g \in [O -> 1 .. Len(pending[r])]
  BY <1>1, <1>3
<1>5. /\ \A i \in O : verdict[r][pending[r][g[i]]] = "ok"
      /\ \A i, j \in O : i < j => g[i] < g[j]
  <2>1. \A i \in O : g[i] = f[i + 1] /\ i + 1 \in OkAt(r)
    BY <1>1
  <2>2. \A i, j \in O : i < j => i + 1 < j + 1
    BY <1>1
  <2> HIDE DEF g
  <2>3. QED
    BY <1>3, <2>1, <2>2
<1>6. \E h \in [O -> 1 .. Len(pending[r])] :
        /\ \A i \in O : verdict[r][pending[r][h[i]]] = "ok"
        /\ \A i, j \in O : i < j => h[i] < h[j]
  <2> HIDE DEF g
  <2>1. QED
    BY <1>4, <1>5
<1>7. \A i \in ErrorAt(r)' :
        /\ \E k \in 1 .. Len(pending[r]) : verdict[r][pending[r][k]] = "error"
        /\ \A j \in OkAt(r)' \cup ErrorAt(r)' : j <= i
  <2> SUFFICES ASSUME NEW i \in ErrorAt(r)'
               PROVE  /\ \E k \in 1 .. Len(pending[r]) : verdict[r][pending[r][k]] = "error"
                      /\ \A j \in OkAt(r)' \cup ErrorAt(r)' : j <= i
    OBVIOUS
  <2>1. \E k \in 1 .. Len(pending[r]) : verdict[r][pending[r][k]] = "error"
    BY <1>1 DEF Answering
  <2>2. \A j \in OkAt(r)' \cup ErrorAt(r)' : j \in Nat /\ i \in Nat /\ j + 1 <= i + 1
    BY <1>1 DEF Answering
  <2>3. \A j \in OkAt(r)' \cup ErrorAt(r)' : j <= i
    BY <2>2
  <2>4. QED
    BY <2>1, <2>3
<1>8. /\ \A u \in Updates : outcome[r][u] = "error" => \E v \in Updates : verdict[r][v] = "error"
      /\ peer[r] \in {"requested", "accepted"} => \A u \in Updates : verdict[r][u] # "error"
  BY DEF Answering
<1>9. QED
  BY <1>2, <1>6, <1>7, <1>8 DEF Answering

\* Reading a REQUEST_OK: the oldest update was accepted, and is answered.
LEMMA OkIsRead ==
  ASSUME TypeOK, NEW r \in Requests, NEW m \in Arrival, Reads(r, m), Answering(r), Verdicts(r),
         QueueSound(r), r \in answered, m.type = "REQUEST_OK"
  PROVE  Answering(r)' /\ Verdicts(r)' /\ closed' = closed
<1>1. /\ \A i \in OkAt(r)' : i \in Nat \ {0} /\ i + 1 \in OkAt(r)
      /\ \A i \in ErrorAt(r)' : i \in Nat \ {0} /\ i + 1 \in ErrorAt(r)
  BY AnswersShift
<1>2. verdict'[r] = verdict[r] /\ peer'[r] = peer[r] /\ UpdateTypes(r)
  BY UpdatesTyped DEF Reads
<1>3. PICK f \in [OkAt(r) -> 1 .. Len(pending[r])] :
        /\ \A i \in OkAt(r) : verdict[r][pending[r][f[i]]] = "ok"
        /\ \A i, j \in OkAt(r) : i < j => f[i] < f[j]
  BY MatchOf
<1>4. 1 \in OkAt(r)
  BY ReadShifts DEF OkAt, Response, Type
<1>5. /\ 1 \in 1 .. Len(pending[r]) /\ pending[r][1] \in Updates
      /\ verdict[r][pending[r][1]] = "ok"
  <2>1. f[1] \in 1 .. Len(pending[r]) /\ verdict[r][pending[r][f[1]]] = "ok"
    BY <1>3, <1>4
  <2>2. QED
    BY <1>2, <2>1, FirstIsAccepted
<1>6. /\ pending'[r] = Tail(pending[r])
      /\ outcome'[r] = [outcome[r] EXCEPT ![pending[r][1]] = "ok"]
      /\ closed' = closed
  <2>1. pending[r] # <<>> /\ Head(pending[r]) = pending[r][1]
    BY <1>2, <1>5 DEF UpdateTypes
  <2>2. SettleRequestUpdate(r, m)
    BY DEF Reads, HandleMessage
  <2>3. /\ pending' = [pending EXCEPT ![r] = Tail(pending[r])]
        /\ outcome' = [outcome EXCEPT ![r][Head(pending[r])] = "ok"]
        /\ closed' = closed
    BY <2>1, <2>2 DEF SettleRequestUpdate
  <2>4. /\ pending \in [Requests -> Seq(Updates)]
        /\ outcome \in [Requests -> [Updates -> {"unsent", "pending", "ok", "error"}]]
    BY DEF TypeOK
  <2>5. QED
    BY <2>1, <2>3, <2>4
<1>7. /\ Len(pending'[r]) = Len(pending[r]) - 1
      /\ \A k \in 2 .. Len(pending[r]) :
           k - 1 \in 1 .. Len(pending'[r]) /\ pending'[r][k - 1] = pending[r][k]
  <2>1. pending[r] \in Seq(Updates) /\ pending[r] # <<>>
    BY <1>2, <1>5 DEF UpdateTypes
  <2>2. QED
    BY <1>6, <2>1
<1> DEFINE O == OkAt(r)'
           g == [i \in O |-> f[i + 1] - 1]
<1>8. \A i \in O : f[i + 1] \in 2 .. Len(pending[r]) /\ i + 1 \in OkAt(r)
  <2> SUFFICES ASSUME NEW i \in O PROVE f[i + 1] \in 2 .. Len(pending[r]) /\ i + 1 \in OkAt(r)
    OBVIOUS
  <2>1. i + 1 \in OkAt(r) /\ 1 < i + 1
    BY <1>1
  <2>2. f[1] < f[i + 1] /\ f[1] \in 1 .. Len(pending[r]) /\ f[i + 1] \in 1 .. Len(pending[r])
    BY <1>3, <1>4, <2>1
  <2>3. f[i + 1] \in 2 .. Len(pending[r])
    BY <2>2
  <2>4. QED
    BY <2>1, <2>3
<1>9. g \in [O -> 1 .. Len(pending'[r])]
  BY <1>7, <1>8
<1>10. /\ \A i \in O : verdict[r][pending'[r][g[i]]] = "ok"
       /\ \A i, j \in O : i < j => g[i] < g[j]
  <2>1. \A i \in O : g[i] = f[i + 1] - 1
    OBVIOUS
  <2>2. \A i \in O : pending'[r][f[i + 1] - 1] = pending[r][f[i + 1]]
    BY <1>7, <1>8
  <2>3. \A i \in O : verdict[r][pending[r][f[i + 1]]] = "ok"
    BY <1>3, <1>8
  <2>4. \A i, j \in O : i < j => f[i + 1] < f[j + 1]
    <3>1. \A i, j \in O : i < j => i + 1 < j + 1
      BY <1>1
    <3>2. QED
      BY <1>3, <1>8, <3>1
  <2>5. \A i, j \in O : i < j => f[i + 1] - 1 < f[j + 1] - 1
    BY <1>8, <2>4
  <2> HIDE DEF g
  <2>6. QED
    BY <2>1, <2>2, <2>3, <2>5
<1>11. \E h \in [O -> 1 .. Len(pending'[r])] :
         /\ \A i \in O : verdict[r][pending'[r][h[i]]] = "ok"
         /\ \A i, j \in O : i < j => h[i] < h[j]
  <2> HIDE DEF g
  <2>1. QED
    BY <1>9, <1>10
<1>12. \A i \in ErrorAt(r)' :
         /\ \E k \in 1 .. Len(pending'[r]) : verdict[r][pending'[r][k]] = "error"
         /\ \A j \in OkAt(r)' \cup ErrorAt(r)' : j <= i
  <2> SUFFICES ASSUME NEW i \in ErrorAt(r)'
               PROVE  /\ \E k \in 1 .. Len(pending'[r]) : verdict[r][pending'[r][k]] = "error"
                      /\ \A j \in OkAt(r)' \cup ErrorAt(r)' : j <= i
    OBVIOUS
  <2>1. PICK k \in 1 .. Len(pending[r]) : verdict[r][pending[r][k]] = "error"
    BY <1>1 DEF Answering
  <2>2. k \in 2 .. Len(pending[r])
    BY <1>5, <2>1
  <2>3. k - 1 \in 1 .. Len(pending'[r]) /\ verdict[r][pending'[r][k - 1]] = "error"
    BY <1>7, <2>1, <2>2
  <2>4. \A j \in OkAt(r)' \cup ErrorAt(r)' : j \in Nat /\ i \in Nat /\ j + 1 <= i + 1
    BY <1>1 DEF Answering
  <2>5. \A j \in OkAt(r)' \cup ErrorAt(r)' : j <= i
    BY <2>4
  <2>6. QED
    BY <2>3, <2>5
<1>13. /\ \A u \in Updates : outcome'[r][u] = "error" => \E v \in Updates : verdict[r][v] = "error"
       /\ peer[r] \in {"requested", "accepted"} => \A u \in Updates : verdict[r][u] # "error"
  <2>1. \A u \in Updates : outcome'[r][u] = "error" => outcome[r][u] = "error"
    BY <1>2, <1>5, <1>6 DEF UpdateTypes
  <2>2. QED
    BY <2>1 DEF Answering
<1>14. Answering(r)'
  BY <1>2, <1>11, <1>12, <1>13 DEF Answering
<1>15. Verdicts(r)'
  <2>1. \A u \in Updates : outcome'[r][u] = "ok" => verdict[r][u] = "ok"
    BY <1>2, <1>5, <1>6 DEF UpdateTypes, Verdicts
  <2>2. QED
    BY <1>2, <2>1 DEF Verdicts
<1>16. QED
  BY <1>6, <1>14, <1>15

\* Reading a REQUEST_ERROR: an update was refused, and no answer comes after it.
LEMMA ErrorIsRead ==
  ASSUME TypeOK, NEW r \in Requests, NEW m \in Arrival, Reads(r, m), Answering(r), Verdicts(r),
         r \in answered, m.type = "REQUEST_ERROR"
  PROVE  Answering(r)' /\ Verdicts(r)' /\ closed' = closed
<1>1. /\ \A i \in OkAt(r)' : i \in Nat \ {0} /\ i + 1 \in OkAt(r)
      /\ \A i \in ErrorAt(r)' : i \in Nat \ {0} /\ i + 1 \in ErrorAt(r)
  BY AnswersShift
<1>2. verdict'[r] = verdict[r] /\ peer'[r] = peer[r] /\ UpdateTypes(r)
  BY UpdatesTyped DEF Reads
<1>3. 1 \in ErrorAt(r)
  BY ReadShifts DEF ErrorAt, Response, Type
<1>4. PICK k \in 1 .. Len(pending[r]) : verdict[r][pending[r][k]] = "error"
  BY <1>3 DEF Answering
<1>5. \E v \in Updates : verdict[r][v] = "error"
  BY <1>2, <1>4 DEF UpdateTypes
<1>6. OkAt(r)' = {} /\ ErrorAt(r)' = {}
  <2>1. \A j \in OkAt(r) \cup ErrorAt(r) : j <= 1
    BY <1>3 DEF Answering
  <2>2. \A i \in Nat \ {0} : ~(i + 1 <= 1)
    OBVIOUS
  <2>3. QED
    BY <1>1, <2>1, <2>2
<1>7. FailPendingUpdates(r) /\ closed' = closed
  <2>1. pending[r] # <<>>
    BY <1>2, <1>4 DEF UpdateTypes
  <2>2. SettleRequestUpdate(r, m)
    BY DEF Reads, HandleMessage
  <2>3. QED
    BY <2>1, <2>2 DEF SettleRequestUpdate
<1>8. \A u \in Updates : outcome'[r][u] = "ok" => outcome[r][u] = "ok"
  BY <1>7 DEF FailPendingUpdates, TypeOK
<1>9. \E f \in [OkAt(r)' -> 1 .. Len(pending'[r])] :
        /\ \A i \in OkAt(r)' : verdict[r][pending'[r][f[i]]] = "ok"
        /\ \A i, j \in OkAt(r)' : i < j => f[i] < f[j]
  BY <1>6, NoAnswers
<1>10. peer[r] \in {"requested", "accepted"} => \A u \in Updates : verdict[r][u] # "error"
  BY DEF Answering
<1>11. Answering(r)'
  BY <1>2, <1>5, <1>6, <1>9, <1>10 DEF Answering
<1>12. Verdicts(r)'
  BY <1>2, <1>8 DEF Verdicts
<1>13. QED
  BY <1>7, <1>11, <1>12

\* Opening and halting a stream leave no answer on it.
LEMMA NoneOnTheWay ==
  ASSUME NEW r, Len(inbox'[r]) = 0
  PROVE  OkAt(r)' = {} /\ ErrorAt(r)' = {}
BY DEF OkAt, ErrorAt

LEMMA AnsweringOnSession ==
  ASSUME TypeOK, NEW r \in Requests, NotYet(r), Bookkeeping(r), QueueSound(r),
         Verdicts(r), r \in active => Answering(r),
         Opens(r) \/ Goes(r) \/ Halts(r) \/ \E m \in Arrival : Reads(r, m)
  PROVE  Answering(r)' /\ Verdicts(r)'
<1>0. UpdateTypes(r)
  BY UpdatesTyped
<1>1. CASE Opens(r)
  <2>1. /\ OkAt(r)' = {} /\ ErrorAt(r)' = {}
        /\ \A u \in Updates : outcome'[r][u] = "unsent" /\ verdict'[r][u] = "none"
    BY <1>1, NoneOnTheWay DEF Opens
  <2>2. \E f \in [OkAt(r)' -> 1 .. Len(pending'[r])] :
          /\ \A i \in OkAt(r)' : verdict'[r][pending'[r][f[i]]] = "ok"
          /\ \A i, j \in OkAt(r)' : i < j => f[i] < f[j]
    BY <2>1, NoAnswers
  <2>3. Answering(r)'
    BY <2>1, <2>2 DEF Answering
  <2>4. Verdicts(r)'
    BY <2>1 DEF Verdicts
  <2>5. QED
    BY <2>3, <2>4
<1>2. CASE Goes(r)
  <2>1. /\ r \in active /\ Answering(r) /\ verdict'[r] = verdict[r]
        /\ OkAt(r)' = OkAt(r) /\ ErrorAt(r)' = ErrorAt(r)
    BY <1>2, SameAnswers DEF Goes, Unread
  <2>2. peer'[r] \in {"requested", "accepted"} => \A u \in Updates : verdict[r][u] # "error"
    BY <1>2, <2>1 DEF Goes, NotYet, Answering
  <2>3. /\ \A u \in Updates : outcome'[r][u] \in {"ok", "error"} => outcome'[r][u] = outcome[r][u]
        /\ Len(pending'[r]) \in Nat /\ Len(pending[r]) <= Len(pending'[r])
        /\ \A k \in 1 .. Len(pending[r]) : pending'[r][k] = pending[r][k]
    <3>1. CASE pending'[r] = pending[r] /\ outcome'[r] = outcome[r]
      BY <1>0, <3>1 DEF UpdateTypes
    <3>2. CASE Queued(r)
      <4>1. PICK u \in Updates : /\ pending'[r] = Append(pending[r], u)
                                 /\ outcome'[r] = [outcome[r] EXCEPT ![u] = "pending"]
        BY <3>2 DEF Queued, TypeOK
      <4>2. \A v \in Updates : outcome'[r][v] \in {"ok", "error"} => outcome'[r][v] = outcome[r][v]
        BY <1>0, <4>1 DEF UpdateTypes
      <4>3. /\ Len(pending'[r]) = Len(pending[r]) + 1 /\ Len(pending[r]) \in Nat
            /\ \A k \in 1 .. Len(pending[r]) : pending'[r][k] = pending[r][k]
        BY <1>0, <4>1 DEF UpdateTypes
      <4>4. QED
        BY <4>2, <4>3
    <3>3. QED
      BY <1>2, <3>1, <3>2 DEF Goes
  <2>4. PICK f \in [OkAt(r) -> 1 .. Len(pending[r])] :
          /\ \A i \in OkAt(r) : verdict[r][pending[r][f[i]]] = "ok"
          /\ \A i, j \in OkAt(r) : i < j => f[i] < f[j]
    BY <2>1, MatchOf
  <2>5. \A k \in 1 .. Len(pending[r]) : k \in 1 .. Len(pending'[r])
    BY <1>0, <2>3 DEF UpdateTypes
  <2>6. f \in [OkAt(r) -> 1 .. Len(pending'[r])]
    BY <2>4, <2>5
  <2>7. \A i \in OkAt(r) : verdict[r][pending'[r][f[i]]] = "ok"
    BY <2>3, <2>4
  <2>8. \A i \in ErrorAt(r) :
          /\ \E k \in 1 .. Len(pending'[r]) : verdict[r][pending'[r][k]] = "error"
          /\ \A j \in OkAt(r) \cup ErrorAt(r) : j <= i
    BY <2>1, <2>3, <2>5 DEF Answering
  <2>9. \A u \in Updates : outcome'[r][u] = "error" => \E v \in Updates : verdict[r][v] = "error"
    BY <2>1, <2>3 DEF Answering
  <2>10. \E h \in [OkAt(r) -> 1 .. Len(pending'[r])] :
           /\ \A i \in OkAt(r) : verdict[r][pending'[r][h[i]]] = "ok"
           /\ \A i, j \in OkAt(r) : i < j => h[i] < h[j]
    BY <2>4, <2>6, <2>7
  <2>11. Answering(r)'
    BY <2>1, <2>2, <2>8, <2>9, <2>10 DEF Answering
  <2>12. Verdicts(r)'
    BY <2>1, <2>3 DEF Verdicts
  <2>13. QED
    BY <2>11, <2>12
<1>3. CASE Halts(r)
  <2>1. /\ r \in active /\ Answering(r) /\ OkAt(r)' = {} /\ ErrorAt(r)' = {}
        /\ pending'[r] = pending[r] /\ outcome'[r] = outcome[r]
        /\ peer'[r] = peer[r] /\ verdict'[r] = verdict[r]
    BY <1>3, NoneOnTheWay DEF Halts
  <2>2. \E f \in [OkAt(r)' -> 1 .. Len(pending'[r])] :
          /\ \A i \in OkAt(r)' : verdict'[r][pending'[r][f[i]]] = "ok"
          /\ \A i, j \in OkAt(r)' : i < j => f[i] < f[j]
    BY <2>1, NoAnswers
  <2>3. Answering(r)'
    BY <2>1, <2>2 DEF Answering
  <2>4. Verdicts(r)'
    BY <2>1 DEF Verdicts
  <2>5. QED
    BY <2>3, <2>4
<1>4. ASSUME NEW m \in Arrival, Reads(r, m) PROVE Answering(r)' /\ Verdicts(r)'
  <2>1. r \in active /\ Answering(r) /\ verdict'[r] = verdict[r]
    BY <1>4 DEF Reads
  <2>2. CASE pending'[r] = pending[r] /\ outcome'[r] = outcome[r]
    BY <1>4, <2>1, <2>2, AnswersPassBy DEF Verdicts
  <2>3. CASE r \in answered /\ m.type \in {"REQUEST_OK", "REQUEST_ERROR"}
    BY <1>4, <2>1, <2>3, OkIsRead, ErrorIsRead
  <2>4. CASE r \in answered /\ m.type \notin {"REQUEST_OK", "REQUEST_ERROR"}
    <3>1. UNCHANGED updates
      BY <1>4, <2>4 DEF Reads, HandleMessage
    <3>2. QED
      BY <2>2, <3>1 DEF updates
  <2>5. QED
    BY <1>4, <2>2, <2>3, <2>4 DEF Reads
<1>5. QED
  BY <1>1, <1>2, <1>3, <1>4

\* A message arrives that answers no update.
LEMMA OtherArrives ==
  ASSUME TypeOK, NEW r \in Requests, NEW t, NEW s, Arrives(r, t, s), Answering(r), Verdicts(r),
         verdict'[r] = verdict[r],
         t \notin {"REQUEST_OK", "REQUEST_ERROR"} \/ (inbox[r] = <<>> /\ r \notin answered),
         peer'[r] \in {"requested", "accepted"} => peer[r] \in {"requested", "accepted"}
  PROVE  Answering(r)' /\ Verdicts(r)'
<1>1. /\ Len(inbox[r]) \in Nat /\ Len(inbox'[r]) = Len(inbox[r]) + 1
      /\ inbox'[r][Len(inbox[r]) + 1].type = t
      /\ \A i \in 1 .. Len(inbox[r]) : inbox'[r][i] = inbox[r][i]
      /\ \A i \in 1 .. Len(inbox'[r]) : i \in 1 .. Len(inbox[r]) \/ i = Len(inbox[r]) + 1
  BY ArrivalAdds
<1>2. /\ pending'[r] = pending[r] /\ outcome'[r] = outcome[r] /\ (r \in answered' <=> r \in answered)
  BY DEF Arrives, Waits
<1>3. OkAt(r)' = OkAt(r) /\ ErrorAt(r)' = ErrorAt(r)
  <2>1. Response(r)' = Response(r)
    BY <1>2 DEF Response
  <2>2. \A i \in 1 .. Len(inbox[r]) : i \in 1 .. Len(inbox'[r])
    BY <1>1
  <2>3. t \in {"REQUEST_OK", "REQUEST_ERROR"} => ~(Len(inbox[r]) + 1 > Response(r))
    BY DEF Response
  <2>4. QED
    BY <1>1, <2>1, <2>2, <2>3 DEF OkAt, ErrorAt, Type
<1>4. Answering(r)'
  BY <1>2, <1>3 DEF Answering
<1>5. Verdicts(r)'
  BY <1>2 DEF Verdicts
<1>6. QED
  BY <1>4, <1>5

\* The peer's end keeps some of the answers on the way.
LEMMA AnswersCut ==
  ASSUME TypeOK, NEW r \in Requests, NEW n \in 0 .. Len(inbox[r]), Cut(r, n), Answering(r), Verdicts(r)
  PROVE  Answering(r)' /\ Verdicts(r)'
<1>1. /\ Len(inbox'[r]) = n + 1 /\ inbox'[r][n + 1].type \in Ends
      /\ \A i \in 1 .. n : inbox'[r][i] = inbox[r][i]
      /\ pending'[r] = pending[r] /\ outcome'[r] = outcome[r] /\ (r \in answered' <=> r \in answered)
      /\ verdict'[r] = verdict[r] /\ peer'[r] = "gone"
  BY DEF Cut, Waits
<1>2. \A i \in 1 .. n : i \in 1 .. Len(inbox[r])
  <2>1. Len(inbox[r]) \in Nat
    BY DEF TypeOK
  <2>2. QED
    BY <2>1
<1>3. OkAt(r)' \subseteq OkAt(r) /\ ErrorAt(r)' \subseteq ErrorAt(r)
  <2>1. Response(r)' = Response(r)
    BY <1>1 DEF Response
  <2>2. \A i \in 1 .. Len(inbox'[r]) :
          inbox'[r][i].type \in {"REQUEST_OK", "REQUEST_ERROR"} => i \in 1 .. n
    BY <1>1 DEF Ends
  <2>3. QED
    BY <1>1, <1>2, <2>1, <2>2 DEF OkAt, ErrorAt, Type
<1>4. PICK f \in [OkAt(r) -> 1 .. Len(pending[r])] :
        /\ \A i \in OkAt(r) : verdict[r][pending[r][f[i]]] = "ok"
        /\ \A i, j \in OkAt(r) : i < j => f[i] < f[j]
  BY MatchOf
<1> DEFINE O == OkAt(r)'
           g == [i \in O |-> f[i]]
<1>5. g \in [O -> 1 .. Len(pending[r])] /\ \A i \in O : g[i] = f[i]
  BY <1>3, <1>4
<1>6. \E h \in [O -> 1 .. Len(pending[r])] :
        /\ \A i \in O : verdict[r][pending[r][h[i]]] = "ok"
        /\ \A i, j \in O : i < j => h[i] < h[j]
  <2> HIDE DEF g, O
  <2>1. O \subseteq OkAt(r)
    BY <1>3 DEF O
  <2>2. QED
    BY <1>4, <1>5, <2>1
<1>7. \A i \in ErrorAt(r)' :
        /\ \E k \in 1 .. Len(pending[r]) : verdict[r][pending[r][k]] = "error"
        /\ \A j \in OkAt(r)' \cup ErrorAt(r)' : j <= i
  BY <1>3 DEF Answering
<1>8. \A u \in Updates : outcome[r][u] = "error" => \E v \in Updates : verdict[r][v] = "error"
  BY DEF Answering
<1>9. Answering(r)'
  <2>1. /\ Len(pending'[r]) = Len(pending[r]) /\ pending'[r] = pending[r] /\ outcome'[r] = outcome[r]
        /\ verdict'[r] = verdict[r] /\ peer'[r] \notin {"requested", "accepted"}
    BY <1>1
  <2>2. \E h \in [OkAt(r)' -> 1 .. Len(pending'[r])] :
          /\ \A i \in OkAt(r)' : verdict'[r][pending'[r][h[i]]] = "ok"
          /\ \A i, j \in OkAt(r)' : i < j => h[i] < h[j]
    BY <1>6, <2>1
  <2>3. QED
    BY <1>7, <1>8, <2>1, <2>2 DEF Answering
<1>10. Verdicts(r)'
  BY <1>1 DEF Verdicts
<1>11. QED
  BY <1>9, <1>10


\* The peer accepts the oldest update it holds: its REQUEST_OK comes last, and the
\* update waits behind every one it answered before.
LEMMA UpdateAccepted ==
  ASSUME TypeOK, NEW r \in Requests, QueueSound(r), SentInOrder(r), Ordered(r), Answering(r),
         Verdicts(r), Arrives(r, "REQUEST_OK", AnySuffix), peer[r] = "accepted",
         NEW u \in Updates, outcome[r][u] # "unsent", verdict[r][u] = "none",
         \A v \in Updates : outcome[r][v] # "unsent" /\ verdict[r][v] = "none" => u <= v,
         verdict' = [verdict EXCEPT ![r][u] = "ok"]
  PROVE  Answering(r)' /\ Verdicts(r)'
<1>1. /\ Len(inbox[r]) \in Nat /\ Len(inbox'[r]) = Len(inbox[r]) + 1
      /\ inbox'[r][Len(inbox[r]) + 1].type = "REQUEST_OK"
      /\ \A i \in 1 .. Len(inbox[r]) : inbox'[r][i] = inbox[r][i]
      /\ \A i \in 1 .. Len(inbox'[r]) : i \in 1 .. Len(inbox[r]) \/ i = Len(inbox[r]) + 1
  BY ArrivalAdds
<1>2. /\ pending'[r] = pending[r] /\ outcome'[r] = outcome[r] /\ (r \in answered' <=> r \in answered)
  BY DEF Arrives, Waits
<1>3. UpdateTypes(r) /\ verdict'[r] = [verdict[r] EXCEPT ![u] = "ok"]
  BY UpdatesTyped DEF TypeOK
<1>4. /\ \A v \in Updates : verdict[r][v] # "error" /\ outcome[r][v] # "error"
      /\ \A v \in Updates : v < u => verdict[r][v] # "none"
  <2>1. \A v \in Updates : verdict[r][v] # "error"
    BY DEF Answering
  <2>2. \A v \in Updates : v < u => outcome[r][v] # "unsent"
    BY DEF SentInOrder
  <2>3. \A v \in Updates : v < u => ~(u <= v)
    BY DEF Updates
  <2>4. QED
    BY <2>1, <2>2, <2>3 DEF Answering
<1>5. /\ \A v \in Updates : verdict'[r][v] = IF v = u THEN "ok" ELSE verdict[r][v]
  BY <1>3 DEF UpdateTypes
<1>6. Verdicts(r)'
  <2>1. \A v \in Updates : outcome'[r][v] = "ok" => verdict'[r][v] = "ok"
    BY <1>2, <1>5 DEF Verdicts
  <2>2. \A w, v \in Updates : v < w /\ verdict'[r][w] # "none" => verdict'[r][v] # "none"
    BY <1>4, <1>5 DEF Verdicts
  <2>3. \A w, v \in Updates : v < w /\ verdict'[r][w] = "ok" => verdict'[r][v] # "error"
    BY <1>4, <1>5
  <2>4. QED
    BY <2>1, <2>2, <2>3 DEF Verdicts
<1> DEFINE n == Len(inbox[r]) + 1
           O == OkAt(r)'
<1>7. Response(r)' = Response(r) /\ n > Response(r) /\ n \notin 1 .. Len(inbox[r])
  <2>1. Response(r)' = Response(r)
    BY <1>2 DEF Response
  <2>2. r \notin answered => inbox[r] # <<>>
    BY DEF Ordered
  <2>3. inbox[r] # <<>> => Len(inbox[r]) # 0
    BY DEF TypeOK
  <2>4. QED
    BY <1>1, <2>1, <2>2, <2>3 DEF Response
<1>8. ErrorAt(r)' = {}
  <2>1. ErrorAt(r) = {}
    BY <1>3, <1>4 DEF Answering, UpdateTypes
  <2>2. QED
    BY <1>1, <1>7, <2>1 DEF ErrorAt, Type
<1>9. \A i \in O : (i \in OkAt(r) /\ i < n) \/ i = n
  BY <1>1, <1>7 DEF OkAt, Type
<1>10. PICK f \in [OkAt(r) -> 1 .. Len(pending[r])] :
         /\ \A i \in OkAt(r) : verdict[r][pending[r][f[i]]] = "ok"
         /\ \A i, j \in OkAt(r) : i < j => f[i] < f[j]
  BY MatchOf
<1>11. PICK k \in 1 .. Len(pending[r]) : pending[r][k] = u
  BY <1>3, <1>4, HeldIsQueued
<1> DEFINE g == [i \in O |-> IF i = n THEN k ELSE f[i]]
<1>12. /\ g \in [O -> 1 .. Len(pending[r])]
       /\ \A i \in O : g[i] = IF i = n THEN k ELSE f[i]
  BY <1>9, <1>10, <1>11
<1>13. \E h \in [O -> 1 .. Len(pending[r])] :
         /\ \A i \in O : verdict'[r][pending[r][h[i]]] = "ok"
         /\ \A i, j \in O : i < j => h[i] < h[j]
  <2>1. \A i \in OkAt(r) : f[i] < k /\ f[i] \in 1 .. Len(pending[r])
    <3> SUFFICES ASSUME NEW i \in OkAt(r) PROVE f[i] < k /\ f[i] \in 1 .. Len(pending[r])
      OBVIOUS
    <3>1. f[i] \in 1 .. Len(pending[r]) /\ verdict[r][pending[r][f[i]]] = "ok"
      BY <1>10
    <3>2. QED
      BY <1>3, <1>11, <3>1, UndecidedIsLater
  <2>2. \A i \in OkAt(r) : verdict'[r][pending[r][f[i]]] = "ok"
    BY <1>3, <1>5, <1>10, <2>1 DEF UpdateTypes
  <2>3. verdict'[r][pending[r][k]] = "ok"
    BY <1>5, <1>11
  <2> HIDE DEF g, O, n
  <2>4. \A i \in O : verdict'[r][pending[r][g[i]]] = "ok"
    BY <1>9, <1>12, <2>2, <2>3
  <2>5. \A i, j \in O : i < j => g[i] < g[j]
    <3> SUFFICES ASSUME NEW i \in O, NEW j \in O, i < j PROVE g[i] < g[j]
      OBVIOUS
    <3>1. n \in Nat /\ OkAt(r) \subseteq Nat
      BY <1>1 DEF OkAt, n
    <3>2. i \in OkAt(r) /\ i # n
      BY <1>9, <3>1
    <3>3. CASE j = n
      BY <1>12, <2>1, <3>2, <3>3
    <3>4. CASE j # n
      BY <1>9, <1>10, <1>12, <3>2, <3>4
    <3>5. QED
      BY <3>3, <3>4
  <2>6. QED
    BY <1>12, <2>4, <2>5
<1>14. Answering(r)'
  <2>1. \E h \in [OkAt(r)' -> 1 .. Len(pending'[r])] :
          /\ \A i \in OkAt(r)' : verdict'[r][pending'[r][h[i]]] = "ok"
          /\ \A i, j \in OkAt(r)' : i < j => h[i] < h[j]
    BY <1>2, <1>13
  <2>2. \A v \in Updates : outcome'[r][v] # "error" /\ verdict'[r][v] # "error"
    BY <1>2, <1>4, <1>5
  <2>3. QED
    BY <1>8, <2>1, <2>2 DEF Answering
<1>15. QED
  BY <1>6, <1>14

\* The peer refuses the updates it holds: its REQUEST_ERROR comes last, and the
\* oldest of them waits.
LEMMA UpdateRefused ==
  ASSUME TypeOK, NEW r \in Requests, QueueSound(r), SentInOrder(r), Answering(r),
         Verdicts(r), Arrives(r, "REQUEST_ERROR", AnySuffix), peer[r] = "accepted",
         peer'[r] = "ended",
         NEW u \in Updates, outcome[r][u] # "unsent", verdict[r][u] = "none",
         verdict' = [verdict EXCEPT ![r] = [v \in Updates |->
           IF outcome[r][v] # "unsent" /\ verdict[r][v] = "none" THEN "error" ELSE verdict[r][v]]]
  PROVE  Answering(r)' /\ Verdicts(r)'
<1>1. /\ Len(inbox[r]) \in Nat /\ Len(inbox'[r]) = Len(inbox[r]) + 1
      /\ inbox'[r][Len(inbox[r]) + 1].type = "REQUEST_ERROR"
      /\ \A i \in 1 .. Len(inbox[r]) : inbox'[r][i] = inbox[r][i]
      /\ \A i \in 1 .. Len(inbox'[r]) : i \in 1 .. Len(inbox[r]) \/ i = Len(inbox[r]) + 1
  BY ArrivalAdds
<1>2. /\ pending'[r] = pending[r] /\ outcome'[r] = outcome[r] /\ (r \in answered' <=> r \in answered)
  BY DEF Arrives, Waits
<1>3. UpdateTypes(r)
  BY UpdatesTyped
<1>4. \A v \in Updates : verdict[r][v] # "error" /\ outcome[r][v] # "error"
  BY DEF Answering
<1>5. \A v \in Updates : verdict'[r][v] =
        IF outcome[r][v] # "unsent" /\ verdict[r][v] = "none" THEN "error" ELSE verdict[r][v]
  BY DEF TypeOK
<1>6. Verdicts(r)'
  <2>1. \A v \in Updates : outcome'[r][v] = "ok" => verdict'[r][v] = "ok"
    BY <1>2, <1>5 DEF Verdicts
  <2>2. \A w, v \in Updates : v < w /\ verdict'[r][w] # "none" => verdict'[r][v] # "none"
    BY <1>5 DEF Verdicts, SentInOrder
  <2>3. \A w, v \in Updates : v < w /\ verdict'[r][w] = "ok" => verdict'[r][v] # "error"
    BY <1>4, <1>5 DEF Verdicts
  <2>4. QED
    BY <2>1, <2>2, <2>3 DEF Verdicts
<1> DEFINE n == Len(inbox[r]) + 1
<1>7. Response(r)' = Response(r)
  BY <1>2 DEF Response
<1>8. OkAt(r)' = OkAt(r)
  <2>1. \A i \in 1 .. Len(inbox[r]) : i \in 1 .. Len(inbox'[r])
    BY <1>1
  <2>2. QED
    BY <1>1, <1>7, <2>1 DEF OkAt, Type
<1>9. \A i \in ErrorAt(r)' : i = n
  <2>1. ErrorAt(r) = {}
    BY <1>3, <1>4 DEF Answering, UpdateTypes
  <2>2. QED
    BY <1>1, <1>7, <2>1 DEF ErrorAt, Type
<1>10. \A j \in OkAt(r)' \cup ErrorAt(r)' : j <= n
  BY <1>1, <1>8, <1>9 DEF OkAt
<1>11. PICK k \in 1 .. Len(pending[r]) : pending[r][k] = u
  BY <1>3, <1>4, HeldIsQueued
<1>12. verdict'[r][pending[r][k]] = "error"
  BY <1>5, <1>11
<1>13. PICK f \in [OkAt(r) -> 1 .. Len(pending[r])] :
         /\ \A i \in OkAt(r) : verdict[r][pending[r][f[i]]] = "ok"
         /\ \A i, j \in OkAt(r) : i < j => f[i] < f[j]
  BY MatchOf
<1>14. \A i \in OkAt(r) : verdict'[r][pending[r][f[i]]] = "ok"
  BY <1>3, <1>5, <1>13 DEF UpdateTypes
<1>15. \E h \in [OkAt(r)' -> 1 .. Len(pending'[r])] :
         /\ \A i \in OkAt(r)' : verdict'[r][pending'[r][h[i]]] = "ok"
         /\ \A i, j \in OkAt(r)' : i < j => h[i] < h[j]
  BY <1>2, <1>8, <1>13, <1>14
<1>16. Answering(r)'
  <2>1. \A i \in ErrorAt(r)' :
          /\ \E l \in 1 .. Len(pending'[r]) : verdict'[r][pending'[r][l]] = "error"
          /\ \A j \in OkAt(r)' \cup ErrorAt(r)' : j <= i
    BY <1>2, <1>9, <1>10, <1>11, <1>12
  <2>2. \E v \in Updates : verdict'[r][v] = "error"
    BY <1>5
  <2>3. QED
    BY <1>15, <2>1, <2>2 DEF Answering
<1>17. QED
  BY <1>6, <1>16

\* What the peer does keeps the answers in order.
LEMMA AnsweringOnPeer ==
  ASSUME TypeOK, NEW r \in Requests, QueueSound(r), SentInOrder(r), Ordered(r), Answering(r),
         Verdicts(r), r \notin rude', Peer(r), ~PeerCancels(r)
  PROVE  Answering(r)' /\ Verdicts(r)'
<1>1. ASSUME NEW t, PeerAnswers(r), Arrives(r, t, AnySuffix)
      PROVE  Answering(r)' /\ Verdicts(r)'
  <2>1. /\ peer[r] = "requested" /\ verdict'[r] = verdict[r]
        /\ inbox[r] = <<>> /\ r \notin answered
    BY <1>1 DEF PeerAnswers, Ordered
  <2>2. QED
    BY <1>1, <2>1, OtherArrives
<1>2. ASSUME NEW t, PeerAnswersUpdate(r), Arrives(r, t, AnySuffix)
      PROVE  Answering(r)' /\ Verdicts(r)'
  <2> DEFINE open == {u \in Updates : outcome[r][u] # "unsent" /\ verdict[r][u] = "none"}
  <2>1. PICK u \in open :
          /\ \A v \in open : u <= v
          /\ \/ Arrive(r, "REQUEST_OK", AnySuffix)
                /\ verdict' = [verdict EXCEPT ![r][u] = "ok"]
                /\ UNCHANGED peer
             \/ Arrive(r, "REQUEST_ERROR", AnySuffix)
                /\ verdict' = [verdict EXCEPT ![r] =
                     [v \in Updates |-> IF v \in open THEN "error" ELSE @[v]]]
                /\ peer' = [peer EXCEPT ![r] = "ended"]
    BY <1>2 DEF PeerAnswersUpdate
  <2>2. /\ PeerReady(r) /\ peer[r] = "accepted" /\ UNCHANGED <<calls, streams, updates>>
    BY <1>2 DEF PeerAnswersUpdate
  <2>3. /\ u \in Updates /\ outcome[r][u] # "unsent" /\ verdict[r][u] = "none"
        /\ \A v \in Updates : outcome[r][v] # "unsent" /\ verdict[r][v] = "none" => u <= v
    BY <2>1
  <2>4. CASE /\ Arrive(r, "REQUEST_OK", AnySuffix)
             /\ verdict' = [verdict EXCEPT ![r][u] = "ok"]
    <3>1. Arrives(r, "REQUEST_OK", AnySuffix)
      BY <2>2, <2>4, MessageArrives
    <3>2. QED
      BY <2>2, <2>3, <2>4, <3>1, UpdateAccepted
  <2>5. CASE /\ Arrive(r, "REQUEST_ERROR", AnySuffix)
             /\ verdict' = [verdict EXCEPT ![r] =
                  [v \in Updates |-> IF v \in open THEN "error" ELSE @[v]]]
             /\ peer' = [peer EXCEPT ![r] = "ended"]
    <3>1. Arrives(r, "REQUEST_ERROR", AnySuffix)
      BY <2>2, <2>5, MessageArrives
    <3>2. peer'[r] = "ended"
      BY <2>5 DEF TypeOK
    <3>3. verdict' = [verdict EXCEPT ![r] = [v \in Updates |->
            IF outcome[r][v] # "unsent" /\ verdict[r][v] = "none" THEN "error" ELSE verdict[r][v]]]
      BY <2>5 DEF TypeOK
    <3>4. QED
      BY <2>2, <2>3, <3>1, <3>2, <3>3, UpdateRefused
  <2>6. QED
    BY <2>1, <2>4, <2>5
<1>3. ASSUME PeerPublishDone(r), Arrives(r, "PUBLISH_DONE", AnySuffix)
      PROVE  Answering(r)' /\ Verdicts(r)'
  <2>1. verdict'[r] = verdict[r] /\ peer'[r] = "finished"
    BY <1>3 DEF PeerPublishDone, TypeOK
  <2>2. QED
    BY <1>3, <2>1, OtherArrives
<1>4. ASSUME PeerGoesAway(r), Arrives(r, "GOAWAY", AnySuffix)
      PROVE  Answering(r)' /\ Verdicts(r)'
  <2>1. verdict'[r] = verdict[r] /\ peer'[r] = peer[r]
    BY <1>4 DEF PeerGoesAway, peers
  <2>2. QED
    BY <1>4, <2>1, OtherArrives
<1>5. ASSUME NEW s \in Suffixes, NEW t \in {"NAMESPACE", "NAMESPACE_DONE"}, PeerAnnounces(r, s),
             Arrives(r, t, s)
      PROVE  Answering(r)' /\ Verdicts(r)'
  <2>1. verdict'[r] = verdict[r] /\ peer'[r] = peer[r]
    BY <1>5 DEF PeerAnnounces
  <2>2. QED
    BY <1>5, <2>1, OtherArrives
<1>6. ASSUME NEW n \in 0 .. Len(inbox[r]), Cut(r, n)
      PROVE  Answering(r)' /\ Verdicts(r)'
  BY <1>6, AnswersCut
<1>7. QED
  BY <1>1, <1>2, <1>3, <1>4, <1>5, <1>6, PeerStepOnOpenStream

\* A step that leaves a stream closed decides on no update.
LEMMA VerdictsOnClosedStream ==
  ASSUME QueueInv, NEW r \in Requests, Step(r), r \notin active', Verdicts(r)
  PROVE  Verdicts(r)'
<1>1. verdict'[r] = verdict[r]
  <2> USE DEF peers
  <2>1. ~PeerReady(r) \/ active' # active
    BY DEF PeerReady
  <2>2. CASE Local(r)
    BY <2>2 DEF Local, StreamCreated, RequestWritten, ReadFirstResponse, CallReturns,
                ReadMessage, ReadEnd
  <2>3. CASE StreamRefused(r) \/ TimeoutFires(r)
    BY <2>3 DEF StreamRefused, TimeoutFires
  <2>4. CASE Application(r)
    BY <2>4 DEF Application, StartRequest, SendRequestUpdate, CancelRequest,
                RemoveNamespaceSubscription, Unpublish
  <2>5. CASE Peer(r)
    BY <2>1, <2>5 DEF Peer, PeerAnswers, PeerAnswersUpdate, PeerPublishDone, PeerGoesAway,
                      PeerEnds, PeerCancels, PeerIsRude, PeerAnnounces, streams
  <2>6. QED
    BY <2>2, <2>3, <2>4, <2>5 DEF Step
<1>2. UpdateStep
  <2>1. Next
    BY DEF Step, Next
  <2>2. QED
    BY <2>1, StepsOnUpdates
<1>3. \A u \in Updates : outcome'[r][u] = "ok" => outcome[r][u] = "ok"
  <2>0. outcome \in [Requests -> [Updates -> {"unsent", "pending", "ok", "error"}]]
    BY DEF QueueInv, TypeOK
  <2>1. CASE UNCHANGED updates
    BY <2>1 DEF updates
  <2>2. ASSUME NEW q \in Requests, FailPendingUpdates(q)
        PROVE  \A u \in Updates : outcome'[r][u] = "ok" => outcome[r][u] = "ok"
    BY <2>0, <2>2 DEF FailPendingUpdates
  <2>3. ASSUME NEW q \in Requests, q \in active, active' = active, Queued(q) \/ Acknowledged(q)
        PROVE  \A u \in Updates : outcome'[r][u] = "ok" => outcome[r][u] = "ok"
    BY <2>0, <2>3 DEF Queued, Acknowledged
  <2>4. \A q \in Requests : Acknowledged(q) => q \in active
    BY DEF QueueInv, QueueSound, Acknowledged
  <2>5. QED
    BY <1>2, <2>1, <2>2, <2>3, <2>4 DEF UpdateStep
<1>4. QED
  BY <1>1, <1>3 DEF Verdicts

\* What is on the way of a request that is left alone.
PeerSound(r) ==
  /\ Verdicts(r)
  /\ r \in active => Ordered(r) /\ OneGoAway(r) /\ Ledger(r) /\ Answering(r)

LEMMA SamePeerSound ==
  ASSUME NEW r \in Requests, Same(r), PeerSound(r)
  PROVE  PeerSound(r)'
<1>1. Verdicts(r)'
  BY DEF Same, PeerSound, Verdicts
<1>2. CASE r \notin active'
  BY <1>1, <1>2 DEF PeerSound
<1>3. CASE r \in active'
  <2>0. Ordered(r) /\ OneGoAway(r) /\ Ledger(r) /\ Answering(r)
    BY <1>3 DEF Same, PeerSound
  <2>1. Ordered(r)'
    <3>1. (Refused(r)' <=> Refused(r)) /\ Response(r)' = Response(r)
      BY DEF Same, Refused, Response, Type
    <3>2. QED
      BY <2>0, <3>1 DEF Same, Ordered, Type
  <2>2. OneGoAway(r)'
    BY <2>0 DEF Same, OneGoAway, Type
  <2>3. Ledger(r)'
    BY <2>0 DEF Same, Ledger, Type
  <2>4. Answering(r)'
    <3>1. OkAt(r)' = OkAt(r) /\ ErrorAt(r)' = ErrorAt(r)
      BY SameAnswers DEF Same
    <3>2. /\ Len(pending'[r]) = Len(pending[r]) /\ pending'[r] = pending[r]
          /\ outcome'[r] = outcome[r] /\ verdict'[r] = verdict[r] /\ peer'[r] = peer[r]
      BY DEF Same
    <3>3. QED
      BY <2>0, <3>1, <3>2 DEF Answering
  <2>5. QED
    BY <1>1, <2>1, <2>2, <2>3, <2>4 DEF PeerSound
<1>4. QED
  BY <1>2, <1>3

LEMMA PeerSoundStep ==
  ASSUME SessionInv, NEW r \in Requests, Step(r), r \notin rude', r \notin rude => PeerSound(r)
  PROVE  PeerSound(r)'
<1>0. /\ TypeOK /\ QueueInv /\ QueueSound(r) /\ SentInOrder(r)
      /\ Bookkeeping(r) /\ NotYet(r)
  BY DEF SessionInv, QueueInv
<1>1. rude \subseteq rude'
  BY DEF Step, Local, StreamCreated, RequestWritten, ReadFirstResponse, CallReturns,
         ReadMessage, ReadEnd, StreamRefused, TimeoutFires, Application, StartRequest,
         SendRequestUpdate, CancelRequest, RemoveNamespaceSubscription, Unpublish,
         Peer, PeerAnswers, PeerAnswersUpdate, PeerPublishDone, PeerGoesAway,
         PeerEnds, PeerCancels, PeerIsRude, PeerAnnounces, peers
<1>2. Verdicts(r) /\ (r \in active => Ordered(r) /\ OneGoAway(r) /\ Ledger(r) /\ Answering(r))
  BY <1>1 DEF PeerSound
<1>3. CASE r \notin active'
  BY <1>0, <1>2, <1>3, VerdictsOnClosedStream DEF PeerSound
<1>4. CASE r \in active'
  <2>1. OneGoAway(r)' /\ Ledger(r)'
    BY <1>0, <1>2, <1>4, OneGoAwayStep, LedgerStep
  <2>2. CASE Local(r) \/ StreamRefused(r) \/ TimeoutFires(r) \/ PeerCancels(r) \/ Application(r)
    <3>1. Ordered(r)'
      BY <1>0, <1>2, <1>4, <2>2, OrderedOnSession
    <3>2. Opens(r) \/ Goes(r) \/ Halts(r) \/ \E m \in Arrival : Reads(r, m)
      BY <1>0, <1>2, <1>4, <2>2, SessionStepOnOpenStream
    <3>3. Answering(r)' /\ Verdicts(r)'
      BY <1>0, <1>2, <3>2, AnsweringOnSession
    <3>4. QED
      BY <2>1, <3>1, <3>3 DEF PeerSound
  <2>3. CASE Peer(r) /\ ~PeerCancels(r)
    <3>1. r \in active
      BY <2>3 DEF Peer, PeerAnswers, PeerAnswersUpdate, PeerPublishDone, PeerGoesAway,
                  PeerEnds, PeerIsRude, PeerAnnounces, PeerReady
    <3>2. Ordered(r)'
      BY <1>0, <1>2, <2>3, <3>1, OrderedOnPeer
    <3>3. Answering(r)' /\ Verdicts(r)'
      BY <1>0, <1>2, <2>3, <3>1, AnsweringOnPeer
    <3>4. QED
      BY <2>1, <3>2, <3>3 DEF PeerSound
  <2>4. QED
    BY <2>2, <2>3 DEF Step
<1>5. QED
  BY <1>3, <1>4

\* The rude ones aside, a session and its peer agree on what is on the way.
PeerInv == \A r \in Requests \ rude : PeerSound(r)

LEMMA PeerInvariant == Spec => [](SessionInv /\ PeerInv)
<1>1. Init => PeerInv
  BY DEF Init, PeerInv, PeerSound, Verdicts
<1>2. SessionInv /\ PeerInv /\ [Next]_vars => PeerInv'
  <2> SUFFICES ASSUME SessionInv, PeerInv, [Next]_vars, NEW q \in Requests, q \notin rude'
               PROVE  PeerSound(q)'
    BY DEF PeerInv
  <2>0. TypeOK
    BY DEF SessionInv, QueueInv
  <2>1. ASSUME Same(q) PROVE PeerSound(q)'
    <3>1. PeerSound(q)
      BY <2>1 DEF Same, PeerInv
    <3>2. QED
      BY <2>1, <3>1, SamePeerSound
  <2>2. CASE UNCHANGED vars
    <3>1. Same(q)
      BY <2>2 DEF vars, calls, streams, updates, peers, Same
    <3>2. QED
      BY <2>1, <3>1
  <2>3. ASSUME NEW r \in Requests, Step(r) PROVE PeerSound(q)'
    <3>1. CASE r = q
      BY <2>3, <3>1, PeerSoundStep DEF PeerInv
    <3>2. CASE r # q
      BY <2>0, <2>1, <2>3, <3>2, OthersSame
    <3>3. QED
      BY <3>1, <3>2
  <2>4. QED
    BY <2>2, <2>3 DEF Next, Step
<1>3. QED
  BY <1>1, <1>2, SessionInvariant, PTL DEF Spec

-----------------------------------------------------------------------------
(***************************************************************************)
(* What follows for the caller, the application and the peer.              *)
(***************************************************************************)
\* A message read from a peer that keeps to the protocol, of a request that was
\* not dropped, is one the session takes.
LEMMA MessageIsTaken ==
  ASSUME SessionInv, NEW r \in Requests, r \notin rude, PeerSound(r), call[r] # "dropped",
         ReadMessage(r)
  PROVE  closed' = closed
<1>0. TypeOK /\ Bookkeeping(r) /\ NotYet(r) /\ QueueSound(r) /\ inbox[r] \in Seq(Arrival)
  BY DEF SessionInv, QueueInv, TypeOK
<1>1. /\ r \in active /\ reader[r] = "loop" /\ Phase(r)
      /\ inbox[r] # <<>> /\ Head(inbox[r]) = inbox[r][1] /\ 1 \in 1 .. Len(inbox[r])
  BY <1>0 DEF ReadMessage, Bookkeeping, Forgotten
<1>2. Ordered(r) /\ OneGoAway(r) /\ Ledger(r) /\ Answering(r) /\ Verdicts(r)
  BY <1>1 DEF PeerSound
<1>3. r \in active' /\ r \notin rude' /\ reader'[r] = "loop" /\ inbox'[r] = Tail(inbox[r])
  BY <1>0, <1>1 DEF TypeOK, ReadMessage, peers
<1> DEFINE m == inbox[r][1]
<1>4. PICK n \in Arrival : Reads(r, n)
  <2>1. Opens(r) \/ Goes(r) \/ Halts(r) \/ \E n \in Arrival : Reads(r, n)
    BY <1>0, <1>2, <1>3, SessionStepOnOpenStream DEF Local
  <2>2. ~Goes(r)
    <3>1. Len(inbox'[r]) # Len(inbox[r])
      BY <1>0, <1>1, <1>3
    <3>2. QED
      BY <3>1 DEF Goes, Unread
  <2>3. ~Halts(r)
    BY <1>3 DEF Halts
  <2>4. ~Opens(r)
    <3>1. r \in answered \/ r \in answered'
      BY <1>0, <1>1, <1>2 DEF ReadMessage, SettleNamespaceSubscription, Ordered, Type, Ends,
        Phase, SuccessResponseType, InboundOnOurRequest
    <3>2. r \in answered'
      BY <3>1 DEF ReadMessage, SettleNamespaceSubscription
    <3>3. QED
      BY <3>2 DEF Opens
  <2>5. QED
    BY <2>1, <2>2, <2>3, <2>4
<1>5. n = m /\ m.type \notin Ends
  BY <1>4 DEF Reads
<1>6. CASE r \notin answered
  <2>1. m.type \in {SuccessResponseType(kind[r]), "REQUEST_ERROR"} /\ kind[r] = "subscribe-namespace"
    BY <1>1, <1>4, <1>5, <1>6 DEF Reads, Phase
  <2>2. m.type \in {"REQUEST_OK", "REQUEST_ERROR"}
    BY <2>1 DEF SuccessResponseType
  <2>3. SettleNamespaceSubscription(r, m)
    BY <1>1, <1>6, <2>1, <2>2 DEF ReadMessage, InboundOnOurRequest
  <2>4. QED
    BY <2>2, <2>3 DEF SettleNamespaceSubscription
<1>7. CASE r \in answered
  <2>1. m.type \in InboundOnOurRequest(kind[r]) /\ HandleMessage(r, m)
    BY <1>4, <1>5, <1>7 DEF Reads
  <2>2. ~Refused(r)
    BY <1>1, <1>2, <1>5, <1>7 DEF Ordered, Response, Type
  <2>3. CASE m.type \in {"REQUEST_OK", "REQUEST_ERROR"}
    BY <1>0, <1>2, <1>4, <1>5, <1>7, <2>3, OkIsRead, ErrorIsRead
  <2>4. CASE m.type \in {"NAMESPACE", "NAMESPACE_DONE"}
    <3>1. kind[r] = "subscribe-namespace"
      BY <2>1, <2>4 DEF InboundOnOurRequest
    <3>2. r \in registered
      BY <1>7, <2>2, <3>1 DEF Refused
    <3>3. m.type = "NAMESPACE_DONE" => m.suffix \in announced[r]
      BY <1>1, <1>2, <3>2 DEF Ledger, Type, After
    <3>4. QED
      BY <2>1, <2>4, <3>2, <3>3 DEF HandleMessage
  <2>5. CASE m.type = "GOAWAY"
    <3>1. r \notin goAway
      BY <1>1, <1>2, <2>5 DEF OneGoAway, Type
    <3>2. QED
      BY <2>1, <2>5, <3>1 DEF HandleMessage
  <2>6. CASE m.type \notin {"REQUEST_OK", "REQUEST_ERROR", "NAMESPACE", "NAMESPACE_DONE", "GOAWAY"}
    BY <2>1, <2>6 DEF HandleMessage
  <2>7. QED
    BY <2>3, <2>4, <2>5, <2>6
<1>8. QED
  BY <1>6, <1>7

\* The same of the response to a request.
LEMMA ResponseIsTaken ==
  ASSUME SessionInv, NEW r \in Requests, PeerSound(r), ReadFirstResponse(r)
  PROVE  closed' = closed
<1>1. /\ inbox[r] \in Seq(Arrival) /\ inbox[r] # <<>>
      /\ r \in active /\ r \notin answered
  BY DEF SessionInv, QueueInv, TypeOK, ReadFirstResponse, Bookkeeping, Forgotten, Phase
<1>2. Head(inbox[r]) = inbox[r][1]
  BY <1>1
<1>3. inbox[r][1].type \in {SuccessResponseType(kind[r]), "REQUEST_ERROR"} \cup Ends
  BY <1>1 DEF PeerSound, Ordered, Type
<1>4. QED
  BY <1>2, <1>3 DEF ReadFirstResponse, Ends

\* A dropped request stays dropped, and a peer that was rude stays so.
LEMMA BlameStays ==
  ASSUME TypeOK, NEW r \in Requests, Bookkeeping(r), Step(r)
  PROVE  /\ rude \subseteq rude'
         /\ \A q \in Requests : call[q] = "dropped" => call'[q] = "dropped"
         /\ ReadFirstResponse(r) \/ ReadMessage(r) \/ closed' = closed
<1> USE DEF calls, streams, updates, peers
<1>1. \A q \in Requests : call[q] = "dropped" => CallAfterLoss(r)[q] = "dropped"
  BY DEF TypeOK, CallAfterLoss
<1>2. CASE Local(r)
  <2>0. call \in [Requests -> {"idle", "creating", "writing", "waiting", "answered",
                               "ok", "failed", "dropped"}]
    BY DEF TypeOK
  <2>1. CASE StreamCreated(r) \/ RequestWritten(r) \/ CallReturns(r)
    BY <2>0, <2>1 DEF StreamCreated, RequestWritten, CallReturns
  <2>2. CASE ReadFirstResponse(r)
    <3>1. rude' = rude
      BY <2>2 DEF ReadFirstResponse
    <3>2. call' = [call EXCEPT ![r] = "answered"] \/ call' = [call EXCEPT ![r] = "failed"]
      BY <2>2 DEF ReadFirstResponse
    <3>3. call[r] # "dropped"
      BY <2>2 DEF ReadFirstResponse, Bookkeeping, Forgotten, Phase
    <3>4. QED
      BY <2>0, <2>2, <3>1, <3>2, <3>3
  <2>3. CASE ReadMessage(r)
    BY <2>3 DEF ReadMessage
  <2>4. CASE ReadEnd(r)
    BY <2>4 DEF ReadEnd
  <2>5. QED
    BY <1>2, <2>1, <2>2, <2>3, <2>4 DEF Local
<1>3. CASE StreamRefused(r) \/ TimeoutFires(r)
  BY <1>1, <1>3 DEF TypeOK, StreamRefused, TimeoutFires
<1>4. CASE Application(r)
  BY <1>1, <1>4 DEF TypeOK, Application, StartRequest, SendRequestUpdate, CancelRequest,
    RemoveNamespaceSubscription, Unpublish
<1>5. CASE Peer(r)
  BY <1>1, <1>5 DEF TypeOK, Peer, PeerAnswers, PeerAnswersUpdate, PeerPublishDone, PeerGoesAway,
    PeerEnds, PeerCancels, PeerIsRude, PeerAnnounces
<1>6. QED
  BY <1>2, <1>3, <1>4, <1>5 DEF Step

\* A peer that keeps to the protocol is never accused.
THEOREM ConformingPeerNotAccused == Spec => []NoFalseViolation
<1>1. Init => NoFalseViolation
  BY DEF Init, NoFalseViolation
<1>2. SessionInv /\ PeerInv /\ NoFalseViolation /\ [Next]_vars => NoFalseViolation'
  <2> SUFFICES ASSUME SessionInv, PeerInv, NoFalseViolation, [Next]_vars
               PROVE  NoFalseViolation'
    OBVIOUS
  <2>1. CASE UNCHANGED vars
    BY <2>1 DEF vars, calls, peers, NoFalseViolation
  <2>2. ASSUME NEW r \in Requests, Step(r) PROVE NoFalseViolation'
    <3>0. TypeOK /\ Bookkeeping(r)
      BY DEF SessionInv, QueueInv
    <3>1. /\ rude \subseteq rude'
          /\ \A q \in Requests : call[q] = "dropped" => call'[q] = "dropped"
          /\ ReadFirstResponse(r) \/ ReadMessage(r) \/ closed' = closed
      BY <2>2, <3>0, BlameStays
    <3>2. CASE rude # {} \/ \E q \in Requests : call[q] = "dropped"
      BY <3>1, <3>2 DEF NoFalseViolation
    <3>3. CASE rude = {} /\ \A q \in Requests : call[q] # "dropped"
      <4>1. r \notin rude /\ PeerSound(r) /\ call[r] # "dropped"
        BY <3>3 DEF PeerInv
      <4>2. closed' = closed
        BY <3>1, <4>1, MessageIsTaken, ResponseIsTaken
      <4>3. QED
        BY <3>3, <4>2 DEF NoFalseViolation
    <3>4. QED
      BY <3>2, <3>3
  <2>3. QED
    BY <2>1, <2>2 DEF Next, Step
<1>3. QED
  BY <1>1, <1>2, PeerInvariant, PTL DEF Spec

\* The updates the peer holds and has not decided on are no more than the queue.
LEMMA HeldAreFew ==
  ASSUME NEW r, UpdateTypes(r), QueueSound(r), Verdicts(r), Answering(r),
         \A v \in Updates : verdict[r][v] # "error"
  PROVE  Cardinality({u \in Updates : outcome[r][u] # "unsent" /\ verdict[r][u] = "none"})
           <= Len(pending[r])
<1> DEFINE held == {u \in Updates : outcome[r][u] # "unsent" /\ verdict[r][u] = "none"}
           place(u) == CHOOSE k \in 1 .. Len(pending[r]) : pending[r][k] = u
           f == [u \in held |-> place(u)]
<1>1. \A u \in held : \E k \in 1 .. Len(pending[r]) : pending[r][k] = u
  BY HeldIsQueued
<1>2. \A u \in held : place(u) \in 1 .. Len(pending[r]) /\ pending[r][place(u)] = u
  BY <1>1
<1>3. f \in Injection(held, 1 .. Len(pending[r]))
  <2>1. f \in [held -> 1 .. Len(pending[r])]
    BY <1>2
  <2>2. \A u, v \in held : f[u] = f[v] => u = v
    BY <1>2
  <2>3. QED
    BY <2>1, <2>2 DEF Injection, IsInjective
<1>4. IsFiniteSet(1 .. Len(pending[r])) /\ Cardinality(1 .. Len(pending[r])) = Len(pending[r])
  <2>1. \A n \in Nat : IsFiniteSet(1 .. n) /\ Cardinality(1 .. n) = n
    <3> SUFFICES ASSUME NEW n \in Nat PROVE IsFiniteSet(1 .. n) /\ Cardinality(1 .. n) = n
      OBVIOUS
    <3>1. IsFiniteSet(1 .. n) /\ Cardinality(1 .. n) = IF 1 > n THEN 0 ELSE n - 1 + 1
      BY FS_Interval
    <3>2. QED
      BY <3>1
  <2>2. QED
    BY <2>1 DEF UpdateTypes
<1>5. Cardinality(held) <= Cardinality(1 .. Len(pending[r]))
  <2> HIDE DEF held, f
  <2>1. QED
    BY <1>3, <1>4, FS_Injection
<1>6. QED
  BY <1>4, <1>5

\* What the session tells of an update is what the peer decided, and the peer never
\* holds more of them than its limit.
THEOREM UpdatesAgreeWithPeer == Spec => []UpdatesAgree
<1>1. SessionInv /\ PeerInv => UpdatesAgree
  <2> SUFFICES ASSUME SessionInv, PeerInv PROVE AnswersMatch /\ PeerLimitKept
    BY DEF UpdatesAgree
  <2>1. AnswersMatch
    BY DEF AnswersMatch, PeerInv, PeerSound, Verdicts
  <2>2. PeerLimitKept
    <3> SUFFICES ASSUME NEW r \in active \ rude, MaxRequestUpdates > 0,
                        \A u \in Updates : verdict[r][u] # "error"
                 PROVE  Cardinality({u \in Updates : outcome[r][u] # "unsent" /\ verdict[r][u] = "none"})
                          <= MaxRequestUpdates
      BY DEF PeerLimitKept
    <3>1. r \in Requests
      BY DEF SessionInv, QueueInv, TypeOK
    <3>2. /\ UpdateTypes(r) /\ QueueSound(r) /\ Verdicts(r) /\ Answering(r)
          /\ Len(pending[r]) <= MaxRequestUpdates
      BY <3>1, UpdatesTyped DEF SessionInv, QueueInv, PeerInv, PeerSound, NotYet
    <3> DEFINE held == {u \in Updates : outcome[r][u] # "unsent" /\ verdict[r][u] = "none"}
    <3>3. Cardinality(held) <= Len(pending[r]) /\ Len(pending[r]) \in Nat
      BY <3>2, HeldAreFew DEF UpdateTypes
    <3>4. Cardinality(held) \in Int
      <4>1. IsFiniteSet(Updates)
        BY RequestStreamsAssumption, FS_Interval DEF Updates
      <4>2. IsFiniteSet(held)
        BY <4>1, FS_Subset
      <4>3. QED
        BY <4>2, FS_CardinalityType
    <3>5. QED
      <4> HIDE DEF held
      <4>1. Cardinality(held) <= MaxRequestUpdates
        BY <3>2, <3>3, <3>4, RequestStreamsAssumption
      <4>2. QED
        BY <4>1 DEF held
  <2>3. QED
    BY <2>1, <2>2
<1>2. QED
  BY <1>1, PeerInvariant, PTL

\* What the application was told of the namespaces is what the peer announced.
THEOREM NamespacesAgreeWithPeer == Spec => []NamespacesAgree
<1>1. SessionInv /\ PeerInv => NamespacesAgree
  <2> SUFFICES ASSUME SessionInv, PeerInv, NEW r \in Requests \ rude
               PROVE  /\ r \notin active => app[r] = {}
                      /\ r \in active \cap registered /\ inbox[r] = <<>> => app[r] = offered[r]
    BY DEF NamespacesAgree
  <2>1. TypeOK /\ Bookkeeping(r) /\ NotYet(r) /\ PeerSound(r)
    BY DEF SessionInv, QueueInv, PeerInv
  <2>2. r \notin active => app[r] = {}
    BY <2>1 DEF Bookkeeping, Forgotten
  <2>3. ASSUME r \in active, r \in registered, inbox[r] = <<>> PROVE app[r] = offered[r]
    <3>1. app[r] = announced[r] /\ kind[r] = "subscribe-namespace" /\ Phase(r)
      BY <2>1, <2>3 DEF Bookkeeping
    <3>2. Ordered(r) /\ Ledger(r)
      BY <2>1, <2>3 DEF PeerSound
    <3>3. peer[r] # "gone"
      BY <2>1, <2>3, <3>1, <3>2 DEF Ordered, Phase, NotYet
    <3>4. offered[r] = After(<<>>, announced[r], 0)
      <4>1. Len(inbox[r]) = 0
        BY <2>3
      <4>2. QED
        BY <2>3, <3>2, <3>3, <4>1 DEF Ledger
    <3>5. After(<<>>, announced[r], 0) = announced[r]
      BY <2>1 DEF TypeOK, After
    <3>6. QED
      BY <3>1, <3>4, <3>5
  <2>4. QED
    BY <2>2, <2>3
<1>2. QED
  BY <1>1, PeerInvariant, PTL
=============================================================================
