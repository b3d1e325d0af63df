------------------------- MODULE PeerRequests_proofs -------------------------
(***************************************************************************)
(* Proofs about PeerRequests, for every set of requests and every bound:   *)
(* type correctness, that the tables agree and forget what is over, that   *)
(* prefixes overlap only by a race of two answers, and that answers come   *)
(* first and ends come last.                                               *)
(***************************************************************************)
EXTENDS PeerRequests, FiniteSetTheorems, TLAPS

Inbound  == {"fin", "reset"} \cup {"update"} \cup Prefixes
Outbound == {"ok", "error", "updated", "refused", "done", "fin", "reset"}

\* A request that has come is one of the peer's jobs.
Asked == \A r \in Requests : step[r] # "none" => job[r] \in Jobs

\* What is left of a nonempty sequence is a sequence of the same set, as is one with
\* an element more.
LEMMA SequenceTypes ==
  ASSUME NEW T, NEW s \in Seq(T)
  PROVE  /\ s # <<>> => Tail(s) \in Seq(T) /\ Head(s) \in T
         /\ \A m \in T : Append(s, m) \in Seq(T)
OBVIOUS

\* What a request for a namespace is on is a prefix.
LEMMA PrefixJob ==
  ASSUME NEW j \in Jobs, j.kind \in Spaces
  PROVE  j.on \in Prefixes
BY PeerRequestsAssumption DEF AllJobs, Spaces

\* Writing, reading and ending a stream keep the types of what was sent.
LEMMA WriteType ==
  ASSUME TypeOK, NEW r \in Requests, NEW m \in Outbound, Write(r, m)
  PROVE  toPeer' \in [Requests -> Seq(Outbound)]
<1>1. toPeer \in [Requests -> Seq(Outbound)]
  BY DEF TypeOK, Outbound
<1>2. Append(toPeer[r], m) \in Seq(Outbound)
  BY <1>1, SequenceTypes
<1>3. QED
  BY <1>1, <1>2 DEF Write

LEMMA ReadsType ==
  ASSUME TypeOK, NEW r \in Requests, NEW m, Reads(r, m)
  PROVE  inbox' \in [Requests -> Seq(Inbound)]
<1>1. inbox \in [Requests -> Seq(Inbound)]
  BY DEF TypeOK, Inbound
<1>2. inbox[r] \in Seq(Inbound) /\ inbox[r] # <<>>
  BY <1>1 DEF Reads, Comes
<1>3. Tail(inbox[r]) \in Seq(Inbound)
  BY <1>2, SequenceTypes
<1>4. QED
  BY <1>1, <1>3 DEF Reads

LEMMA SendsType ==
  ASSUME TypeOK, NEW r \in Requests, NEW m \in Inbound, Sends(r, m)
  PROVE  inbox' \in [Requests -> Seq(Inbound)]
<1>1. inbox \in [Requests -> Seq(Inbound)]
  BY DEF TypeOK, Inbound
<1>2. Append(inbox[r], m) \in Seq(Inbound)
  BY <1>1, SequenceTypes
<1>3. QED
  BY <1>1, <1>2 DEF Sends

LEMMA EndStreamType ==
  ASSUME TypeOK, NEW r \in Requests, NEW m \in {"fin", "reset"}, EndStream(r, m)
  PROVE  /\ registered' \subseteq Requests
         /\ toPeer' \in [Requests -> Seq(Outbound)]
         /\ inbox' \in [Requests -> Seq(Inbound)]
<1>1. /\ inbox \in [Requests -> Seq(Inbound)] /\ toPeer \in [Requests -> Seq(Outbound)]
      /\ registered \subseteq Requests
  BY DEF TypeOK, Inbound, Outbound
<1>2. registered' \subseteq Requests
  BY <1>1 DEF EndStream
<1>3. CASE r \in registered
  <2>1. Write(r, m) /\ inbox' = [inbox EXCEPT ![r] = <<>>]
    BY <1>3 DEF EndStream
  <2>2. toPeer' \in [Requests -> Seq(Outbound)]
    BY <2>1, WriteType DEF Outbound
  <2>3. <<>> \in Seq(Inbound)
    OBVIOUS
  <2>4. QED
    BY <1>1, <1>2, <2>1, <2>2, <2>3
<1>4. CASE r \notin registered
  BY <1>1, <1>2, <1>4 DEF EndStream
<1>5. QED
  BY <1>3, <1>4

\* Giving up a request keeps the types of the tables.
LEMMA ForgetType ==
  ASSUME TypeOK, NEW r \in Requests, Forget(r)
  PROVE  /\ kinds' \subseteq Requests /\ pubs' \subseteq Requests
         /\ prefix' \in [Requests -> Prefixes \cup {None}]
BY DEF TypeOK, Forget

\* The variables have their types at first.
LEMMA InitTyped == Init => TypeOK
<1> SUFFICES ASSUME Init PROVE TypeOK
  OBVIOUS
<1>1. \A S : <<>> \in Seq(S)
  OBVIOUS
<1>2. inbox \in [Requests -> Seq(Inbound)] /\ toPeer \in [Requests -> Seq(Outbound)]
  BY <1>1 DEF Init
<1>3. 0 \in 0 .. MaxUpdates
  BY PeerRequestsAssumption
<1>4. ending \in [Requests \X Enders -> {"no", "writing", "closing"}]
  BY DEF Init
<1>5. QED
  BY <1>2, <1>3, <1>4 DEF Init, TypeOK, Inbound, Outbound, Steps

\* The types of the variables, with the names used here.
Typed ==
  /\ job \in [Requests -> Jobs \cup {None}]
  /\ inbox \in [Requests -> Seq(Inbound)]
  /\ updates \in [Requests -> 0 .. MaxUpdates]
  /\ step \in [Requests -> Steps]
  /\ registered \subseteq Requests /\ kinds \subseteq Requests /\ pubs \subseteq Requests
  /\ prefix \in [Requests -> Prefixes \cup {None}]
  /\ newPrefix \in [Requests -> Prefixes \cup {None}]
  /\ ending \in [Requests \X Enders -> {"no", "writing", "closing"}]
  /\ toPeer \in [Requests -> Seq(Outbound)]
  /\ goAwaySent \in BOOLEAN
  /\ raced \in [Requests -> SUBSET Requests]

LEMMA TypedIsTypeOK == (Typed <=> TypeOK) /\ (Typed' <=> TypeOK')
BY DEF Typed, TypeOK, Inbound, Outbound

\* A step keeps the types.
LEMMA StepTyped == TypeOK /\ Asked /\ [Next]_vars => TypeOK'
<1> SUFFICES ASSUME TypeOK, Asked, [Next]_vars PROVE Typed'
  BY TypedIsTypeOK
<1> USE DEF peer, tables
<1>0. Typed
  BY TypedIsTypeOK
<1>1. CASE UNCHANGED vars
  BY <1>0, <1>1 DEF Typed, vars
<1>2. ASSUME NEW r \in Requests, NEW j \in Jobs, ReadRequest(r, j) PROVE Typed'
  <2>1. PICK new \in {"refusing", "accepting", "stating"}, m \in {"ok", "error"} :
          Step(r, new) /\ Write(r, m)
    BY <1>2 DEF ReadRequest
  <2>2. toPeer' \in [Requests -> Seq(Outbound)]
    BY <2>1, WriteType DEF Outbound
  <2>3. registered' \subseteq Requests
    BY <1>0, <1>2 DEF ReadRequest, Typed
  <2>4. raced' \in [Requests -> SUBSET Requests]
    BY <1>0, <1>2 DEF ReadRequest, Typed, Answering
  <2>5. /\ job' = [job EXCEPT ![r] = j] /\ step' = [step EXCEPT ![r] = new]
        /\ UNCHANGED <<inbox, updates, kinds, pubs, prefix, newPrefix, ending, goAwaySent>>
    BY <1>2, <2>1 DEF ReadRequest, Step
  <2>6. QED
    BY <1>0, <2>2, <2>3, <2>4, <2>5 DEF Typed, Steps
<1>3. ASSUME NEW r \in Requests, RequestAccepted(r) PROVE Typed'
  <2>1. prefix' \in [Requests -> Prefixes \cup {None}]
    <3>1. job[r] \in Jobs
      BY <1>3 DEF RequestAccepted, Asked
    <3>2. Kind(r) \in Spaces => job[r].on \in Prefixes
      BY <3>1, PrefixJob DEF Kind
    <3>3. QED
      <4>1. CASE Kind(r) \in Spaces
        BY <1>0, <1>3, <3>2, <4>1 DEF RequestAccepted, Typed
      <4>2. CASE Kind(r) \notin Spaces
        BY <1>0, <1>3, <4>2 DEF RequestAccepted, Typed
      <4>3. QED
        BY <4>1, <4>2
  <2>2. QED
    BY <1>0, <1>3, <2>1 DEF RequestAccepted, Step, Typed, Steps
<1>4. ASSUME NEW r \in Requests, RequestFinished(r) PROVE Typed'
  <2>1. toPeer' \in [Requests -> Seq(Outbound)]
    BY <1>4, WriteType DEF RequestFinished, Outbound
  <2>2. QED
    BY <1>0, <1>4, <2>1 DEF RequestFinished, Step, Typed, Steps
<1>5. ASSUME NEW r \in Requests, ReadUpdate(r) PROVE Typed'
  <2>1. toPeer' \in [Requests -> Seq(Outbound)]
    BY <1>5, WriteType DEF ReadUpdate, Outbound
  <2>2. inbox' \in [Requests -> Seq(Inbound)] /\ step[r] = "open"
    BY <1>5, ReadsType DEF ReadUpdate, Reads, Comes
  <2>3. newPrefix' \in [Requests -> Prefixes \cup {None}]
    BY <1>0, <1>5 DEF ReadUpdate, Typed
  <2>4. raced' \in [Requests -> SUBSET Requests]
    <3>1. Answering \subseteq Requests
      BY DEF Answering
    <3>2. raced' = raced \/ raced' = [raced EXCEPT ![r] = @ \cup Answering]
      BY <1>5 DEF ReadUpdate
    <3>3. raced \in [Requests -> SUBSET Requests]
      BY <1>0 DEF Typed
    <3>4. raced[r] \cup Answering \in SUBSET Requests
      BY <3>1, <3>3
    <3>5. QED
      BY <3>2, <3>3, <3>4
  <2>5. QED
    BY <1>0, <1>5, <2>1, <2>2, <2>3, <2>4 DEF ReadUpdate, Step, Typed, Steps
<1>6. ASSUME NEW r \in Requests, ReadBadUpdate(r) PROVE Typed'
  <2>1. toPeer' \in [Requests -> Seq(Outbound)]
    BY <1>6, WriteType DEF ReadBadUpdate, Outbound
  <2>2. inbox' \in [Requests -> Seq(Inbound)] /\ step[r] = "open"
    BY <1>6, ReadsType DEF ReadBadUpdate, Reads, Comes
  <2>3. QED
    BY <1>0, <1>6, <2>1, <2>2 DEF ReadBadUpdate, Step, Typed, Steps
<1>7. ASSUME NEW r \in Requests, Updated(r) PROVE Typed'
  <2>1. PICK new \in {"open", "over"} : step' = [step EXCEPT ![r] = new]
    BY <1>7 DEF Updated, Step
  <2>2. /\ prefix' \in [Requests -> Prefixes \cup {None}]
        /\ newPrefix' \in [Requests -> Prefixes \cup {None}]
    BY <1>0, <1>7 DEF Updated, Typed
  <2>3. QED
    BY <1>0, <1>7, <2>1, <2>2 DEF Updated, Typed, Steps
<1>8. ASSUME NEW r \in Requests, UpdateRefused(r) PROVE Typed'
  <2>1. ending' \in [Requests \X Enders -> {"no", "writing", "closing"}]
    BY <1>0, <1>8 DEF UpdateRefused, Typed
  <2>2. /\ registered' \subseteq Requests
        /\ toPeer' \in [Requests -> Seq(Outbound)]
        /\ inbox' \in [Requests -> Seq(Inbound)]
    <3>1. CASE Kind(r) = "subscribe" /\ r \in registered
      BY <1>0, <1>8, <3>1, WriteType DEF UpdateRefused, Typed, Outbound
    <3>2. CASE Kind(r) = "subscribe" /\ r \notin registered
      BY <1>0, <1>8, <3>2 DEF UpdateRefused, Typed
    <3>3. CASE Kind(r) # "subscribe"
      BY <1>8, <3>3, EndStreamType DEF UpdateRefused
    <3>4. QED
      BY <3>1, <3>2, <3>3
  <2>3. QED
    BY <1>0, <1>8, <2>1, <2>2 DEF UpdateRefused, Step, Typed, Steps
<1>9. ASSUME NEW r \in Requests, ReadFin(r) PROVE Typed'
  <2>1. /\ registered' \subseteq Requests
        /\ toPeer' \in [Requests -> Seq(Outbound)]
        /\ inbox' \in [Requests -> Seq(Inbound)]
    BY <1>0, <1>9, EndStreamType DEF ReadFin, Typed
  <2>2. PICK new \in {"halfopen", "over"} : step' = [step EXCEPT ![r] = new]
    BY <1>9 DEF ReadFin, Step
  <2>3. QED
    BY <1>0, <1>9, <2>1, <2>2 DEF ReadFin, Comes, Typed, Steps
<1>10. ASSUME NEW r \in Requests, ReadReset(r) PROVE Typed'
  <2>1. /\ registered' \subseteq Requests
        /\ toPeer' \in [Requests -> Seq(Outbound)]
        /\ inbox' \in [Requests -> Seq(Inbound)]
    BY <1>10, EndStreamType DEF ReadReset
  <2>2. QED
    BY <1>0, <1>10, <2>1, ForgetType DEF ReadReset, Comes, Step, Typed, Steps
<1>11. ASSUME NEW r \in Requests, PeerStopped(r) PROVE Typed'
  <2>1. /\ registered' \subseteq Requests
        /\ toPeer' \in [Requests -> Seq(Outbound)]
        /\ inbox' \in [Requests -> Seq(Inbound)]
    BY <1>0, <1>11, EndStreamType DEF PeerStopped, Typed
  <2>2. /\ kinds' \subseteq Requests /\ pubs' \subseteq Requests
        /\ prefix' \in [Requests -> Prefixes \cup {None}]
    BY <1>0, <1>11, ForgetType DEF PeerStopped, Typed
  <2>3. ending' \in [Requests \X Enders -> {"no", "writing", "closing"}]
    BY <1>0, <1>11 DEF PeerStopped, Typed
  <2>4. QED
    BY <1>0, <1>11, <2>1, <2>2, <2>3 DEF PeerStopped, Step, Typed, Steps
<1>12. ASSUME NEW r \in Requests, NEW e \in Enders, DoneWritten(r, e) PROVE Typed'
  <2>1. /\ registered' \subseteq Requests
        /\ toPeer' \in [Requests -> Seq(Outbound)]
        /\ inbox' \in [Requests -> Seq(Inbound)]
    BY <1>12, EndStreamType DEF DoneWritten
  <2>2. ending' \in [Requests \X Enders -> {"no", "writing", "closing"}]
    BY <1>0, <1>12 DEF DoneWritten, Typed
  <2>3. step' = step \/ (step[r] # "none" /\ step' = [step EXCEPT ![r] = "over"])
    BY <1>12 DEF DoneWritten, Step
  <2>4. QED
    BY <1>0, <1>12, <2>1, <2>2, <2>3 DEF DoneWritten, Typed, Steps
<1>13. ASSUME NEW r \in Requests, NEW e \in Enders, DoneClosed(r, e) PROVE Typed'
  <2>1. /\ kinds' \subseteq Requests /\ pubs' \subseteq Requests
        /\ prefix' \in [Requests -> Prefixes \cup {None}]
    BY <1>0, <1>13, ForgetType DEF DoneClosed, Typed
  <2>2. ending' \in [Requests \X Enders -> {"no", "writing", "closing"}]
    BY <1>0, <1>13 DEF DoneClosed, Typed
  <2>3. QED
    BY <1>0, <1>13, <2>1, <2>2 DEF DoneClosed, Typed
<1>14. ASSUME NEW r \in Requests, NEW e \in Enders, EndSubscription(r, e)
       PROVE  Typed'
  <2>1. toPeer' \in [Requests -> Seq(Outbound)]
    BY <1>0, <1>14, WriteType DEF EndSubscription, Typed, Outbound
  <2>2. ending' \in [Requests \X Enders -> {"no", "writing", "closing"}]
    BY <1>0, <1>14 DEF EndSubscription, Typed
  <2>3. pubs' \subseteq Requests
    BY <1>0, <1>14 DEF EndSubscription, Typed
  <2>4. QED
    BY <1>0, <1>14, <2>1, <2>2, <2>3 DEF EndSubscription, Typed
<1>15. CASE GoAway
  BY <1>0, <1>15 DEF GoAway, Typed
<1>16. ASSUME NEW r \in Requests, PeerUpdates(r) PROVE Typed'
  <2>1. PICK m \in Inbound : Sends(r, m)
    BY <1>16 DEF PeerUpdates, Inbound
  <2>2. inbox' \in [Requests -> Seq(Inbound)]
    BY <2>1, SendsType
  <2>3. updates[r] + 1 \in 0 .. MaxUpdates
    BY <1>0, <1>16, PeerRequestsAssumption DEF PeerUpdates, Typed
  <2>4. QED
    BY <1>0, <1>16, <2>2, <2>3 DEF PeerUpdates, Typed
<1>17. ASSUME NEW r \in Requests, PeerEnds(r) PROVE Typed'
  <2>1. PICK m \in Inbound : Sends(r, m)
    BY <1>17 DEF PeerEnds, Inbound
  <2>2. inbox' \in [Requests -> Seq(Inbound)]
    BY <2>1, SendsType
  <2>3. QED
    BY <1>0, <1>17, <2>2 DEF PeerEnds, Typed
<1>18. QED
  BY <1>1, <1>2, <1>3, <1>4, <1>5, <1>6, <1>7, <1>8, <1>9, <1>10, <1>11, <1>12, <1>13, <1>14,
    <1>15, <1>16, <1>17 DEF Next, Handle, Enders

-----------------------------------------------------------------------------
(* The tables agree.                                                       *)

\* Nothing of a request changes but how many updates it has sent.
Same(q) ==
  /\ UNCHANGED <<job[q], inbox[q], step[q], prefix[q], newPrefix[q], toPeer[q]>>
  /\ q \in registered' <=> q \in registered
  /\ q \in kinds' <=> q \in kinds
  /\ q \in pubs' <=> q \in pubs
  /\ \A e \in Enders : ending'[<<q, e>>] = ending[<<q, e>>]

\* What each step of a request has behind it, and which ends it can have.
Begun(r) ==
  /\ IF step[r] = "none" THEN toPeer[r] = <<>> /\ inbox[r] = <<>> ELSE job[r] \in Jobs
  /\ step[r] \in {"none", "refusing", "accepting", "stating"} =>
       /\ r \notin pubs /\ prefix[r] = None
       /\ \A e \in Enders : ending[<<r, e>>] = "no"
  /\ newPrefix[r] # None => step[r] = "updating"
  /\ step[r] = "accepting" => r \in registered
  /\ prefix[r] # None \/ newPrefix[r] # None => Kind(r) \in Spaces
  /\ r \in pubs => Kind(r) = "subscribe"

\* How a request is while PUBLISH_DONE is written and its stream is closed.
Leaving(r) ==
  /\ \A e \in Enders : ending[<<r, e>>] = "writing" => Kind(r) = "subscribe"
  /\ \A e \in Enders \ {"refusal"} : ending[<<r, e>>] # "no" => Kind(r) = "subscribe"
  /\ ending[<<r, "refusal">>] # "no" => step[r] = "over"
  /\ \A e \in Enders : ending[<<r, e>>] = "closing" => r \notin registered

\* What is registered for a request.
Tabled(r) ==
  /\ step[r] \in {"open", "updating"} /\ Kind(r) # "subscribe" =>
       r \in registered /\ r \in kinds
  /\ r \in pubs \/ prefix[r] # None =>
       \/ r \in registered /\ r \in kinds
       \/ \E e \in Enders : ending[<<r, e>>] = "closing"
  /\ step[r] = "over" /\ r \in registered => \E e \in Enders : ending[<<r, e>>] = "writing"

\* Only a request for a namespace is updated with a prefix.
Plain == {"fin", "reset", "update"}
Sent(r) == Kind(r) \notin Spaces => inbox[r] \in Seq(Plain)

Kept(r) == Begun(r) /\ Leaving(r) /\ Tabled(r) /\ Sent(r)

\* What is kept depends on what is the same.
LEMMA SameKept ==
  ASSUME NEW q, Kept(q), Same(q)
  PROVE  Kept(q)'
<1> USE DEF Kept, Same, Kind
<1>1. Begun(q)'
  BY DEF Begun
<1>2. Leaving(q)'
  BY DEF Leaving, Enders
<1>3. Tabled(q)'
  BY DEF Tabled
<1>4. Sent(q)'
  BY DEF Sent
<1>5. QED
  BY <1>1, <1>2, <1>3, <1>4

\* The actions of one request.
ActionOf(r) ==
  \/ Handle(r)
  \/ \E e \in Enders : DoneWritten(r, e) \/ DoneClosed(r, e)
  \/ \E e \in Enders \ {"refusal"} : EndSubscription(r, e)
  \/ PeerUpdates(r) \/ PeerEnds(r)

LEMMA NextActions ==
  Next => GoAway \/ \E r \in Requests : ActionOf(r)
BY DEF Next, ActionOf, Enders

\* An action of one request leaves the others alone.
LEMMA OthersSame ==
  ASSUME TypeOK, NEW r \in Requests, ActionOf(r), NEW q \in Requests, q # r
  PROVE  Same(q)
<1> USE DEF Same, Typed, tables, peer, Step, Write, EndStream, Forget, Reads, Sends
<1>0. Typed
  BY TypedIsTypeOK
<1>1. ASSUME NEW j \in Jobs, ReadRequest(r, j) PROVE Same(q)
  BY <1>0, <1>1 DEF ReadRequest
<1>2. CASE RequestAccepted(r) \/ RequestFinished(r)
  BY <1>0, <1>2 DEF RequestAccepted, RequestFinished
<1>3. CASE ReadUpdate(r) \/ ReadBadUpdate(r)
  BY <1>0, <1>3 DEF ReadUpdate, ReadBadUpdate
<1>4. CASE Updated(r)
  BY <1>0, <1>4 DEF Updated
<1>5. CASE UpdateRefused(r)
  BY <1>0, <1>5 DEF UpdateRefused
<1>6. CASE ReadFin(r) \/ ReadReset(r)
  BY <1>0, <1>6 DEF ReadFin, ReadReset
<1>7. CASE PeerStopped(r)
  BY <1>0, <1>7 DEF PeerStopped
<1>8. ASSUME NEW e \in Enders, DoneWritten(r, e) PROVE Same(q)
  BY <1>0, <1>8 DEF DoneWritten
<1>9. ASSUME NEW e \in Enders, DoneClosed(r, e) PROVE Same(q)
  BY <1>0, <1>9 DEF DoneClosed
<1>10. ASSUME NEW e \in Enders, EndSubscription(r, e) PROVE Same(q)
  BY <1>0, <1>10 DEF EndSubscription
<1>11. CASE PeerUpdates(r) \/ PeerEnds(r)
  BY <1>0, <1>11 DEF PeerUpdates, PeerEnds
<1>12. QED
  BY <1>1, <1>2, <1>3, <1>4, <1>5, <1>6, <1>7, <1>8, <1>9, <1>10, <1>11 DEF ActionOf, Handle

\* What a write and an end of a stream do to the request whose stream it is.
LEMMA StreamEffect ==
  ASSUME TypeOK, NEW r \in Requests, NEW m
  PROVE  /\ Write(r, m) => toPeer'[r] # <<>> /\ toPeer'[r] = Append(toPeer[r], m)
         /\ EndStream(r, m) =>
              /\ r \notin registered'
              /\ IF r \in registered THEN toPeer'[r] = Append(toPeer[r], m)
                 ELSE toPeer'[r] = toPeer[r]
         /\ EndStream(r, m) /\ toPeer[r] # <<>> => toPeer'[r] # <<>>
<1>1. toPeer \in [Requests -> Seq(Outbound)]
  BY DEF TypeOK, Outbound
<1>2. Append(toPeer[r], m) # <<>>
  <2>1. toPeer[r] \in Seq(Outbound \cup {m})
    BY <1>1
  <2>2. QED
    BY <2>1
<1>3. QED
  BY <1>1, <1>2 DEF Write, EndStream

\* What is read and sent keeps to the kind of the request.
LEMMA ActionSent ==
  ASSUME TypeOK, NEW r \in Requests, ActionOf(r), Kept(r)
  PROVE  Sent(r)'
<1> USE DEF Kept, peer, Typed, Enders
<1>0. Typed
  BY TypedIsTypeOK
<1>1. <<>> \in Seq(Plain)
  OBVIOUS
<1>2. ASSUME Kind(r)' = Kind(r),
             \/ inbox'[r] = inbox[r]
             \/ inbox'[r] = <<>>
             \/ inbox[r] # <<>> /\ inbox'[r] = Tail(inbox[r])
             \/ Kind(r) \notin Spaces => \E m \in Plain : inbox'[r] = Append(inbox[r], m)
      PROVE  Sent(r)'
  <2> SUFFICES ASSUME Kind(r) \notin Spaces PROVE inbox'[r] \in Seq(Plain)
    BY <1>2 DEF Sent
  <2>1. inbox[r] \in Seq(Plain)
    BY DEF Sent
  <2>2. /\ inbox[r] # <<>> => Tail(inbox[r]) \in Seq(Plain)
        /\ \A m \in Plain : Append(inbox[r], m) \in Seq(Plain)
    BY <2>1, SequenceTypes
  <2>3. QED
    BY <1>1, <1>2, <2>1, <2>2
<1>3. ASSUME NEW j \in Jobs, ReadRequest(r, j) PROVE Sent(r)'
  BY <1>1, <1>3 DEF ReadRequest, Begun, Sent
<1>4. ASSUME NEW e \in Enders, DoneWritten(r, e) \/ DoneClosed(r, e) \/ EndSubscription(r, e)
      PROVE  job' = job /\ (inbox'[r] = inbox[r] \/ inbox'[r] = <<>>)
  BY <1>0, <1>4 DEF DoneWritten, DoneClosed, EndSubscription, EndStream
<1>5. CASE PeerUpdates(r)
  <2>1. job' = job
    BY <1>5 DEF PeerUpdates
  <2>2. Kind(r) \notin Spaces => \E m \in Plain : Sends(r, m)
    BY <1>5 DEF PeerUpdates, Plain
  <2>3. QED
    BY <1>0, <1>2, <2>1, <2>2 DEF Sends, Kind
<1>6. CASE PeerEnds(r)
  <2>1. job' = job /\ \E m \in Plain : Sends(r, m)
    BY <1>6 DEF PeerEnds, Plain
  <2>2. QED
    BY <1>0, <1>2, <2>1 DEF Sends, Kind
<1>7. ASSUME \/ RequestAccepted(r) \/ RequestFinished(r) \/ ReadUpdate(r) \/ ReadBadUpdate(r)
             \/ Updated(r) \/ UpdateRefused(r) \/ ReadFin(r) \/ ReadReset(r) \/ PeerStopped(r)
      PROVE  Sent(r)'
  <2>1. job' = job
    BY <1>7 DEF RequestAccepted, RequestFinished, ReadUpdate, ReadBadUpdate, Updated,
      UpdateRefused, ReadFin, ReadReset, PeerStopped
  <2>2. \/ inbox'[r] = inbox[r]
        \/ inbox'[r] = <<>>
        \/ inbox[r] # <<>> /\ inbox'[r] = Tail(inbox[r])
    BY <1>0, <1>7 DEF RequestAccepted, RequestFinished, ReadUpdate, ReadBadUpdate, Updated,
      UpdateRefused, ReadFin, ReadReset, PeerStopped, EndStream, Reads, Comes
  <2>3. QED
    BY <1>2, <2>1, <2>2 DEF Kind
<1>8. QED
  BY <1>2, <1>3, <1>4, <1>5, <1>6, <1>7 DEF ActionOf, Handle, Kind

\* An action of a request keeps what holds of it.
LEMMA ActionKept ==
  ASSUME TypeOK, TypeOK', NEW r \in Requests, ActionOf(r), Kept(r)
  PROVE  Kept(r)'
<1> USE DEF Kept, Begun, Leaving, Tabled, peer, tables, Typed, Enders
<1>0. Typed /\ Typed'
  BY TypedIsTypeOK
<1>19. Sent(r)'
  BY ActionSent
<1>1. ASSUME NEW j \in Jobs, ReadRequest(r, j) PROVE Kept(r)'
  <2>1. PICK new \in {"refusing", "accepting", "stating"} :
          /\ step' = [step EXCEPT ![r] = new]
          /\ new = "accepting" => r \in registered'
    BY <1>1 DEF ReadRequest, Step
  <2>2. /\ step[r] = "none" /\ job' = [job EXCEPT ![r] = j]
        /\ UNCHANGED <<inbox, updates, kinds, pubs, prefix, newPrefix, ending, goAwaySent>>
    BY <1>1 DEF ReadRequest
  <2>3. step'[r] = new /\ job'[r] = j
    BY <1>0, <2>1, <2>2
  <2>4. Begun(r)'
    BY <2>1, <2>2, <2>3
  <2>5. Leaving(r)'
    BY <2>2
  <2>6. Tabled(r)'
    BY <2>2, <2>3
  <2>7. QED
    BY <1>19, <2>4, <2>5, <2>6
<1>2. CASE RequestAccepted(r)
  <2>1. /\ step[r] = "accepting" /\ step'[r] = "open" /\ kinds' = kinds \cup {r}
        /\ UNCHANGED <<peer, registered, newPrefix, ending, toPeer>>
    BY <1>0, <1>2 DEF RequestAccepted, Step
  <2>2. /\ r \in pubs' <=> Kind(r) = "subscribe"
        /\ prefix'[r] # None => Kind(r) \in Spaces
    BY <1>0, <1>2 DEF RequestAccepted
  <2>3. Kind(r)' = Kind(r)
    BY <2>1 DEF Kind
  <2>4. QED
    BY <1>0, <1>19, <2>1, <2>2, <2>3
<1>3. CASE RequestFinished(r)
  <2>1. /\ step[r] \in {"refusing", "stating"} /\ step'[r] = "over"
        /\ registered' = registered \ {r}
        /\ UNCHANGED <<peer, kinds, pubs, prefix, newPrefix, ending>>
    BY <1>0, <1>3 DEF RequestFinished, Step
  <2>2. Kind(r)' = Kind(r)
    BY <2>1 DEF Kind
  <2>3. QED
    BY <1>19, <2>1, <2>2
<1>4. CASE ReadUpdate(r) \/ ReadBadUpdate(r)
  <2>1. /\ step[r] = "open" /\ step'[r] \in {"updating", "failing"}
        /\ newPrefix'[r] # None => step'[r] = "updating"
        /\ UNCHANGED <<job, tables, ending>>
    BY <1>0, <1>4 DEF ReadUpdate, ReadBadUpdate, Step, Reads, Comes
  <2>2. newPrefix'[r] # None => Kind(r) \in Spaces
    <3>1. CASE newPrefix'[r] = newPrefix[r]
      BY <3>1
    <3>2. CASE newPrefix'[r] # newPrefix[r]
      <4>1. PICK p \in Prefixes : Reads(r, p)
        BY <1>0, <1>4, <3>2 DEF ReadUpdate, ReadBadUpdate
      <4>2. inbox[r] # <<>> /\ Head(inbox[r]) = p
        BY <4>1 DEF Reads, Comes
      <4>3. Kind(r) \notin Spaces => p \in Plain
        BY <4>2, SequenceTypes DEF Sent
      <4>4. QED
        BY <4>3, PeerRequestsAssumption DEF Plain
    <3>3. QED
      BY <3>1, <3>2
  <2>3. Kind(r)' = Kind(r)
    BY <2>1 DEF Kind
  <2>4. QED
    BY <2>1, <2>2, <2>3, <1>19
<1>5. CASE Updated(r)
  <2>1. /\ step[r] = "updating" /\ step'[r] = IF r \in registered THEN "open" ELSE "over"
        /\ prefix'[r] = IF newPrefix[r] # None THEN newPrefix[r] ELSE prefix[r]
        /\ newPrefix'[r] = None
        /\ UNCHANGED <<job, registered, kinds, pubs, ending>>
    BY <1>0, <1>5 DEF Updated, Step
  <2>2. Kind(r)' = Kind(r)
    BY <2>1 DEF Kind
  <2>3. QED
    BY <2>1, <2>2, <1>19 DEF Spaces
<1>6. CASE UpdateRefused(r)
  <2>1. /\ step[r] = "failing" /\ step'[r] = "over"
        /\ UNCHANGED <<job, kinds, pubs, prefix, newPrefix>>
    BY <1>0, <1>6 DEF UpdateRefused, Step
  <2>2. \/ /\ Kind(r) = "subscribe" /\ r \in registered /\ UNCHANGED registered
           /\ ending' = [ending EXCEPT ![<<r, "refusal">>] = "writing"]
        \/ /\ Kind(r) = "subscribe" /\ r \notin registered /\ UNCHANGED <<registered, ending>>
        \/ /\ Kind(r) # "subscribe" /\ r \notin registered'
           /\ ending' = [ending EXCEPT ![<<r, "refusal">>] = "closing"]
    BY <1>6 DEF UpdateRefused, EndStream
  <2>3. Kind(r)' = Kind(r)
    BY <2>1 DEF Kind
  <2>4. QED
    BY <1>0, <2>1, <2>2, <2>3, <1>19
<1>7. CASE ReadFin(r)
  <2>1. /\ step[r] = "open" /\ r \in registered
        /\ prefix'[r] = None /\ UNCHANGED <<job, kinds, pubs, newPrefix, ending>>
    BY <1>0, <1>7 DEF ReadFin, Comes
  <2>2. \/ r \in pubs /\ step'[r] = "halfopen" /\ UNCHANGED registered
        \/ r \notin pubs /\ step'[r] = "over" /\ r \notin registered'
    BY <1>0, <1>7 DEF ReadFin, EndStream, Step
  <2>3. Kind(r)' = Kind(r)
    BY <2>1 DEF Kind
  <2>4. QED
    BY <1>19, <2>1, <2>2, <2>3
<1>8. CASE ReadReset(r)
  <2>1. /\ step[r] = "open" /\ step'[r] = "over"
        /\ prefix'[r] = None /\ r \notin pubs' /\ r \notin registered'
        /\ UNCHANGED <<job, newPrefix, ending>>
    BY <1>0, <1>8 DEF ReadReset, Forget, EndStream, Comes, Step
  <2>2. Kind(r)' = Kind(r)
    BY <2>1 DEF Kind
  <2>3. QED
    BY <1>19, <2>1, <2>2
<1>9. CASE PeerStopped(r)
  <2>1. /\ toPeer[r] # <<>> /\ step'[r] = "over" /\ newPrefix'[r] = None /\ UNCHANGED job
        /\ r \notin registered'
    BY <1>0, <1>9 DEF PeerStopped, Writable, EndStream, Step
  <2>2. \A e \in Enders : ending'[<<r, e>>] = IF ending[<<r, e>>] = "writing" THEN "no"
                                             ELSE ending[<<r, e>>]
    BY <1>0, <1>9 DEF PeerStopped
  <2>3. \/ r \notin pubs' /\ prefix'[r] = None
        \/ r \notin registered /\ UNCHANGED <<pubs, prefix>>
    BY <1>0, <1>9 DEF PeerStopped, Forget
  <2>4. Kind(r)' = Kind(r)
    BY <2>1 DEF Kind
  <2>5. Begun(r)'
    BY <2>1, <2>2, <2>3, <2>4
  <2>6. Leaving(r)'
    BY <2>1, <2>2, <2>4
  <2>7. Tabled(r)'
    BY <2>1, <2>2, <2>3
  <2>8. QED
    BY <1>19, <2>5, <2>6, <2>7
<1>10. ASSUME NEW e \in Enders, DoneWritten(r, e) PROVE Kept(r)'
  <2>1. /\ ending[<<r, e>>] = "writing" /\ ending' = [ending EXCEPT ![<<r, e>>] = "closing"]
        /\ r \notin registered' /\ UNCHANGED <<job, kinds, pubs, prefix, newPrefix>>
        /\ step'[r] = IF step[r] \in {"open", "halfopen"} THEN "over" ELSE step[r]
    BY <1>0, <1>10 DEF DoneWritten, EndStream, Step
  <2>2. Kind(r) = "subscribe" /\ Kind(r)' = Kind(r)
    BY <2>1 DEF Kind
  <2>3. /\ step[r] \notin {"none", "refusing", "accepting", "stating"}
        /\ ending'[<<r, e>>] = "closing"
        /\ \A f \in Enders \ {e} : ending'[<<r, f>>] = ending[<<r, f>>]
    BY <1>0, <2>1
  <2>4. Begun(r)'
    BY <2>1, <2>2, <2>3 DEF Spaces
  <2>5. Leaving(r)'
    BY <2>1, <2>2, <2>3
  <2>6. Tabled(r)'
    BY <2>1, <2>2, <2>3
  <2>7. QED
    BY <1>19, <2>4, <2>5, <2>6
<1>11. ASSUME NEW e \in Enders, DoneClosed(r, e) PROVE Kept(r)'
  <2>1. /\ ending[<<r, e>>] = "closing" /\ ending' = [ending EXCEPT ![<<r, e>>] = "no"]
        /\ r \notin pubs' /\ UNCHANGED <<job, step, registered, newPrefix, toPeer, inbox>>
        /\ IF e = "refusal" THEN prefix'[r] = None ELSE UNCHANGED prefix
    BY <1>0, <1>11 DEF DoneClosed, Forget
  <2>2. Kind(r)' = Kind(r)
    BY <2>1 DEF Kind
  <2>3. /\ step[r] \notin {"none", "refusing", "accepting", "stating"}
        /\ r \notin registered
        /\ ending'[<<r, e>>] = "no"
        /\ \A f \in Enders \ {e} : ending'[<<r, f>>] = ending[<<r, f>>]
    BY <1>0, <2>1
  <2>4. prefix'[r] = None
    BY <2>1 DEF Spaces
  <2>5. step[r] \in {"open", "updating"} => Kind(r) = "subscribe"
    BY <2>3
  <2>6. QED
    BY <1>19, <2>1, <2>2, <2>3, <2>4, <2>5
<1>12. ASSUME NEW e \in Enders \ {"refusal"}, EndSubscription(r, e) PROVE Kept(r)'
  <2>1. /\ r \in pubs /\ Kind(r) = "subscribe"
        /\ UNCHANGED <<job, inbox, step, registered, kinds, prefix, newPrefix>>
    BY <1>12 DEF EndSubscription
  <2>2. \/ r \in registered /\ UNCHANGED pubs
           /\ ending' = [ending EXCEPT ![<<r, e>>] = "writing"] /\ ending[<<r, e>>] = "no"
        \/ r \notin registered /\ r \notin pubs' /\ UNCHANGED ending
    BY <1>12 DEF EndSubscription
  <2>3. Kind(r)' = Kind(r)
    BY <2>1 DEF Kind
  <2>4. QED
    BY <1>0, <1>19, <2>1, <2>2, <2>3 DEF Spaces
<1>13. CASE PeerUpdates(r) \/ PeerEnds(r)
  <2>1. /\ step[r] # "none"
        /\ UNCHANGED <<job, step, tables, newPrefix, ending, toPeer>>
    BY <1>13 DEF PeerUpdates, PeerEnds
  <2>2. Kind(r)' = Kind(r)
    BY <2>1 DEF Kind
  <2>3. QED
    BY <1>19, <2>1, <2>2
<1>20. QED
  BY <1>1, <1>2, <1>3, <1>4, <1>5, <1>6, <1>7, <1>8, <1>9, <1>10, <1>11, <1>12, <1>13
  DEF ActionOf, Handle

\* What is kept is kept for every request.
AllKept == \A r \in Requests : Kept(r)

LEMMA InitKept == Init => AllKept
<1>1. <<>> \in Seq(Plain)
  OBVIOUS
<1>2. \A r \in Requests, e \in Enders : Init => ending[<<r, e>>] = "no"
  BY DEF Init
<1>3. ASSUME Init, NEW r \in Requests PROVE Kept(r)
  <2>1. /\ step[r] = "none" /\ toPeer[r] = <<>> /\ inbox[r] = <<>> /\ prefix[r] = None
        /\ newPrefix[r] = None /\ registered = {} /\ pubs = {}
        /\ \A e \in Enders : ending[<<r, e>>] = "no"
    BY <1>2, <1>3 DEF Init
  <2>2. Begun(r) /\ Tabled(r)
    BY <2>1 DEF Begun, Tabled
  <2>3. Leaving(r) /\ Sent(r)
    BY <1>1, <2>1 DEF Leaving, Sent, Enders
  <2>4. QED
    BY <2>2, <2>3 DEF Kept
<1>4. QED
  BY <1>3 DEF AllKept

LEMMA StepKept == TypeOK /\ TypeOK' /\ AllKept /\ [Next]_vars => AllKept'
<1> SUFFICES ASSUME TypeOK, TypeOK', AllKept, [Next]_vars, NEW q \in Requests PROVE Kept(q)'
  BY DEF AllKept
<1>1. Kept(q)
  BY DEF AllKept
<1>2. CASE UNCHANGED vars \/ GoAway
  <2>1. Same(q)
    BY <1>2 DEF vars, GoAway, tables, peer, Same
  <2>2. QED
    BY <1>1, <2>1, SameKept
<1>3. ASSUME NEW r \in Requests, ActionOf(r) PROVE Kept(q)'
  BY <1>1, <1>3, OthersSame, SameKept, ActionKept
<1>4. QED
  BY <1>2, <1>3, NextActions

LEMMA KeptAlways == Spec => [](TypeOK /\ AllKept)
<1>1. AllKept => Asked
  BY DEF AllKept, Kept, Begun, Asked
<1>2. TypeOK /\ AllKept /\ [Next]_vars => TypeOK' /\ AllKept'
  BY <1>1, StepTyped, StepKept
<1>3. QED
  BY <1>2, InitTyped, InitKept, PTL DEF Spec

\* The variables have their types in every state.
THEOREM TypeCorrect == Spec => []TypeOK
BY KeptAlways, PTL

\* A publication or a prefix belongs to a request that has a stream and a kind, or
\* whose stream a PUBLISH_DONE is closing; and a request that is over and that nobody is
\* ending is in no table any more.
THEOREM TablesAlwaysAgree == Spec => []TablesAgree
<1>1. AllKept => HeldHasStream
  BY DEF AllKept, Kept, Tabled, HeldHasStream
<1>2. AllKept => OverIsForgotten
  BY DEF AllKept, Kept, Tabled, OverIsForgotten
<1>3. AllKept => TablesAgree
  BY <1>1, <1>2 DEF TablesAgree
<1>4. QED
  BY <1>3, KeptAlways, PTL

-----------------------------------------------------------------------------
(* Prefixes overlap only by a race.                                        *)

\* A prefix that a request has, or will have when its answer is written.
Claims(r, p) ==
  \/ prefix[r] = p /\ p # None
  \/ step[r] = "accepting" /\ Kind(r) \in Spaces /\ job[r].on = p
  \/ newPrefix[r] = p /\ p # None

\* Two requests of one type claim overlapping prefixes only if one of them was being
\* answered when the other was checked.
ClaimsRaced ==
  \A r, q \in Requests : \A p, o \in Prefixes :
    r # q /\ Claims(r, p) /\ Claims(q, o) /\ Kind(r) = Kind(q) /\ <<p, o>> \in Overlap
    => q \in raced[r] \/ r \in raced[q]

\* A claim is established or being answered.
LEMMA ClaimKinds ==
  ASSUME TypeOK, NEW r \in Requests, Kept(r), NEW p, Claims(r, p)
  PROVE  /\ Kind(r) \in Spaces
         /\ prefix[r] = p \/ r \in Answering
BY DEF Claims, Kept, Begun, Answering

\* What is noted stays noted, and a request that has come stays what it is.
LEMMA NotedStays ==
  ASSUME TypeOK, NEW r \in Requests, ActionOf(r)
  PROVE  /\ \A q \in Requests : raced[q] \subseteq raced'[q]
         /\ step[r] # "none" => job'[r] = job[r]
<1> USE DEF Typed, peer, tables
<1>0. Typed
  BY TypedIsTypeOK
<1>1. ASSUME NEW j \in Jobs, ReadRequest(r, j)
      PROVE  step[r] = "none" /\ raced' = [raced EXCEPT ![r] = @ \cup Answering]
  BY <1>1 DEF ReadRequest
<1>2. CASE ReadUpdate(r)
  <2>1. job' = job
    BY <1>2 DEF ReadUpdate
  <2>2. raced' = raced \/ raced' = [raced EXCEPT ![r] = @ \cup Answering]
    BY <1>2 DEF ReadUpdate
  <2>3. QED
    BY <1>0, <2>1, <2>2
<1>3. ASSUME ~ReadUpdate(r), ~\E j \in Jobs : ReadRequest(r, j) PROVE UNCHANGED <<job, raced>>
  BY <1>3 DEF ActionOf, Handle, RequestAccepted, RequestFinished, ReadBadUpdate,
    Updated, UpdateRefused, ReadFin, ReadReset, PeerStopped, DoneWritten, DoneClosed,
    EndSubscription, PeerUpdates, PeerEnds
<1>4. QED
  BY <1>0, <1>1, <1>2, <1>3

\* A new claim was checked: it overlaps no established prefix of its type, and the
\* requests being answered are noted.
LEMMA NewClaim ==
  ASSUME TypeOK, TypeOK', AllKept, NEW r \in Requests, ActionOf(r), NEW p \in Prefixes,
         Claims(r, p)', ~Claims(r, p)
  PROVE  /\ Answering \subseteq raced'[r]
         /\ \A q \in Requests \ {r} :
              prefix[q] # None /\ Kind(q) = Kind(r)' => <<prefix[q], p>> \notin Overlap
<1> USE DEF Typed, peer, tables
<1>0. Typed /\ Typed' /\ Kept(r) /\ p # None
  BY TypedIsTypeOK, PeerRequestsAssumption DEF AllKept
<1> DEFINE Goal == /\ Answering \subseteq raced'[r]
                   /\ \A q \in Requests \ {r} : prefix[q] # None /\ Kind(q) = Kind(r)'
                                                 => <<prefix[q], p>> \notin Overlap
<1>1. ASSUME NEW j \in Jobs, ReadRequest(r, j) PROVE Goal
  <2>1. /\ raced' = [raced EXCEPT ![r] = @ \cup Answering] /\ step[r] = "none"
        /\ job' = [job EXCEPT ![r] = j] /\ UNCHANGED <<prefix, newPrefix>>
    BY <1>1 DEF ReadRequest
  <2>2. prefix[r] = None /\ newPrefix[r] = None
    BY <1>0, <2>1 DEF Kept, Begun
  <2>3. step'[r] = "accepting" /\ j.kind \in Spaces /\ j.on = p
    BY <1>0, <2>1, <2>2 DEF Claims, Kind
  <2>4. ~MustRefuse(j)
    <3>1. Step(r, "refusing") \/ ~MustRefuse(j)
      BY <1>1 DEF ReadRequest
    <3>2. Step(r, "refusing") => step'[r] = "refusing"
      BY <1>0 DEF Step
    <3>3. QED
      BY <2>3, <3>1, <3>2
  <2>5. ~Overlaps(j.kind, j.on, {})
    BY <2>3, <2>4 DEF MustRefuse
  <2>6. Kind(r)' = j.kind
    BY <1>0, <2>1 DEF Kind
  <2>7. \A q \in Requests :
          prefix[q] # None /\ Kind(q) = j.kind => <<prefix[q], j.on>> \notin Overlap
    BY <2>5 DEF Overlaps
  <2>8. Answering \subseteq raced'[r]
    BY <1>0, <2>1
  <2>9. QED
    BY <2>3, <2>6, <2>7, <2>8
<1>2. CASE ReadUpdate(r)
  <2>1. job' = job /\ step[r] = "open" /\ step'[r] = "updating" /\ UNCHANGED prefix
    BY <1>0, <1>2 DEF ReadUpdate, Reads, Comes, Step
  <2>2. newPrefix'[r] = p /\ newPrefix[r] # p
    BY <2>1 DEF Claims
  <2>3. PICK o \in Prefixes :
          ~Overlaps(Kind(r), o, {r}) /\ newPrefix' = [newPrefix EXCEPT ![r] = o]
    BY <1>2, <2>2 DEF ReadUpdate
  <2>4. raced' = [raced EXCEPT ![r] = @ \cup Answering]
    BY <1>2, <2>2 DEF ReadUpdate
  <2>5. o = p
    BY <1>0, <2>2, <2>3
  <2>6. \A q \in Requests \ {r} :
          prefix[q] # None /\ Kind(q) = Kind(r) => <<prefix[q], o>> \notin Overlap
    BY <2>3 DEF Overlaps
  <2>7. Answering \subseteq raced'[r]
    BY <1>0, <2>4
  <2>8. Kind(r)' = Kind(r)
    BY <2>1 DEF Kind
  <2>9. QED
    BY <2>5, <2>6, <2>7, <2>8
<1>3. CASE RequestAccepted(r)
  BY <1>0, <1>3 DEF RequestAccepted, Claims, Kind, Step
<1>4. CASE Updated(r)
  BY <1>0, <1>4 DEF Updated, Claims, Kind, Step
<1>5. ASSUME step'[r] # "accepting", prefix'[r] \in {prefix[r], None},
             newPrefix'[r] \in {newPrefix[r], None}
      PROVE  FALSE
  BY <1>0, <1>5 DEF Claims
<1>6. CASE RequestFinished(r) \/ UpdateRefused(r) \/ ReadFin(r) \/ ReadReset(r) \/ ReadBadUpdate(r)
  <2>1. step'[r] # "accepting" /\ prefix'[r] \in {prefix[r], None} /\ UNCHANGED newPrefix
    BY <1>0, <1>6 DEF RequestFinished, UpdateRefused, ReadFin, ReadReset, ReadBadUpdate, Step, Forget
  <2>2. QED
    BY <1>5, <2>1
<1>7. CASE PeerStopped(r)
  BY <1>0, <1>5, <1>7 DEF PeerStopped, Step, Forget
<1>8. ASSUME NEW e \in Enders, DoneWritten(r, e) \/ DoneClosed(r, e) \/ EndSubscription(r, e)
      PROVE  Goal
  <2>1. /\ prefix'[r] \in {prefix[r], None} /\ UNCHANGED <<job, newPrefix>>
        /\ step'[r] \in {step[r], "over"}
    BY <1>0, <1>8 DEF DoneWritten, DoneClosed, EndSubscription, Step, Forget
  <2>2. QED
    BY <1>0, <2>1 DEF Claims, Kind
<1>9. CASE PeerUpdates(r) \/ PeerEnds(r)
  BY <1>9 DEF PeerUpdates, PeerEnds, Claims, Kind
<1>10. QED
  BY <1>1, <1>2, <1>3, <1>4, <1>6, <1>7, <1>8, <1>9 DEF ActionOf, Handle

\* A request that is the same claims the same.
LEMMA SameClaims ==
  ASSUME NEW q, NEW p, Same(q)
  PROVE  (Claims(q, p)' <=> Claims(q, p)) /\ Kind(q)' = Kind(q)
BY DEF Same, Claims, Kind

\* The action of one of two requests keeps what is known of their claims.
LEMMA PairKept ==
  ASSUME TypeOK, TypeOK', AllKept, ClaimsRaced, NEW r \in Requests, ActionOf(r),
         NEW q \in Requests, q # r, NEW p \in Prefixes, NEW o \in Prefixes,
         Claims(r, p)', Claims(q, o)', Kind(r)' = Kind(q)', <<p, o>> \in Overlap
  PROVE  q \in raced'[r] \/ r \in raced'[q]
<1>1. Claims(q, o) /\ Kind(q)' = Kind(q)
  BY OthersSame, SameClaims
<1>2. CASE Claims(r, p)
  <2>1. step[r] # "none"
    BY <1>2 DEF Claims, AllKept, Kept, Begun
  <2>2. Kind(r)' = Kind(r)
    BY <2>1, NotedStays DEF Kind
  <2>3. QED
    BY <1>1, <1>2, <2>2, NotedStays DEF ClaimsRaced
<1>3. CASE ~Claims(r, p)
  <2>1. prefix[q] = o \/ q \in Answering
    BY <1>1, ClaimKinds DEF AllKept
  <2>2. <<o, p>> \in Overlap /\ o # None
    BY PeerRequestsAssumption
  <2>3. Answering \subseteq raced'[r]
    BY <1>3, NewClaim
  <2>4. prefix[q] # o
    BY <1>1, <1>3, <2>2, NewClaim
  <2>5. QED
    BY <2>1, <2>3, <2>4
<1>4. QED
  BY <1>2, <1>3

LEMMA StepRaced == TypeOK /\ TypeOK' /\ AllKept /\ ClaimsRaced /\ [Next]_vars => ClaimsRaced'
<1> SUFFICES ASSUME TypeOK, TypeOK', AllKept, ClaimsRaced, [Next]_vars,
                    NEW r \in Requests, NEW q \in Requests, NEW p \in Prefixes, NEW o \in Prefixes,
                    r # q, Claims(r, p)', Claims(q, o)', Kind(r)' = Kind(q)', <<p, o>> \in Overlap
             PROVE  q \in raced'[r] \/ r \in raced'[q]
  BY DEF ClaimsRaced
<1>1. ASSUME Same(r), Same(q), raced[r] \subseteq raced'[r], raced[q] \subseteq raced'[q]
      PROVE  q \in raced'[r] \/ r \in raced'[q]
  BY <1>1, SameClaims DEF ClaimsRaced
<1>2. CASE UNCHANGED vars \/ GoAway
  <2>1. Same(r) /\ Same(q) /\ UNCHANGED raced
    BY <1>2 DEF vars, GoAway, tables, peer, Same
  <2>2. QED
    BY <1>1, <2>1
<1>3. ASSUME NEW x \in Requests, ActionOf(x) PROVE q \in raced'[r] \/ r \in raced'[q]
  <2>1. CASE x = r
    BY <1>3, <2>1, PairKept
  <2>2. CASE x = q
    <3>1. <<o, p>> \in Overlap
      BY PeerRequestsAssumption
    <3>2. QED
      BY <1>3, <2>2, <3>1, PairKept
  <2>3. CASE x # r /\ x # q
    BY <1>1, <1>3, <2>3, OthersSame, NotedStays
  <2>4. QED
    BY <2>1, <2>2, <2>3
<1>4. QED
  BY <1>2, <1>3, NextActions

\* Two established requests of one type overlap only if one of them was being answered
\* when the other was checked, whatever is accepted, updated and ended around them.
THEOREM OverlapsOnlyByRace == Spec => []OverlapOnlyWhenRaced
<1>1. Init => ClaimsRaced
  BY DEF Init, ClaimsRaced, Claims
<1>2. TypeOK /\ ClaimsRaced => OverlapOnlyWhenRaced
  BY DEF TypeOK, ClaimsRaced, Claims, OverlapOnlyWhenRaced
<1>3. QED
  BY <1>1, <1>2, StepRaced, KeptAlways, PTL DEF Spec

-----------------------------------------------------------------------------
(* Answers come first, in order, and ends come last.                       *)

\* A stream that begins with its answer and has nothing after its end.
InOrder(s) ==
  \A i \in DOMAIN s :
    /\ s[i] \in {"ok", "error"} <=> i = 1
    /\ s[i] \in {"fin", "reset"} => i = Len(s)

Ended(s) == \E i \in DOMAIN s : s[i] \in {"fin", "reset"}

\* The places of a sequence that hold one of some values.
Places(s, S) == {i \in DOMAIN s : s[i] \in S}

LEMMA AppendPlaces ==
  ASSUME NEW T, NEW s \in Seq(T), NEW m, NEW S
  PROVE  /\ DOMAIN Append(s, m) = DOMAIN s \cup {Len(s) + 1}
         /\ Append(s, m)[Len(s) + 1] = m
         /\ \A i \in DOMAIN s : Append(s, m)[i] = s[i]
         /\ Len(s) \in Nat /\ DOMAIN s = 1 .. Len(s) /\ Len(s) + 1 \notin DOMAIN s
         /\ Len(Append(s, m)) = Len(s) + 1
<1>1. s \in Seq(T \cup {m}) /\ m \in T \cup {m}
  OBVIOUS
<1>2. QED
  BY <1>1

\* The places of a sequence are finitely many.
LEMMA PlacesFinite ==
  ASSUME NEW T, NEW s \in Seq(T), NEW S
  PROVE  IsFiniteSet(Places(s, S)) /\ Cardinality(Places(s, S)) \in Nat
<1>1. IsFiniteSet(1 .. Len(s))
  BY FS_Interval
<1>2. Places(s, S) \subseteq 1 .. Len(s)
  BY DEF Places
<1>3. IsFiniteSet(Places(s, S))
  BY <1>1, <1>2, FS_Subset
<1>4. QED
  BY <1>3, FS_CardinalityType

\* An element more is one place more if it is one of the values.
LEMMA AppendCount ==
  ASSUME NEW T, NEW s \in Seq(T), NEW m, NEW S
  PROVE  Cardinality(Places(Append(s, m), S)) =
           IF m \in S THEN Cardinality(Places(s, S)) + 1 ELSE Cardinality(Places(s, S))
<1>1. CASE m \in S
  <2>1. Places(Append(s, m), S) = Places(s, S) \cup {Len(s) + 1}
    BY <1>1, AppendPlaces DEF Places
  <2>2. Len(s) + 1 \notin Places(s, S)
    BY AppendPlaces DEF Places
  <2>3. QED
    BY <1>1, <2>1, <2>2, PlacesFinite, FS_AddElement
<1>2. CASE m \notin S
  <2>1. Places(Append(s, m), S) = Places(s, S)
    BY <1>2, AppendPlaces DEF Places
  <2>2. QED
    BY <1>2, <2>1
<1>3. QED
  BY <1>1, <1>2

\* Without its first element, a sequence has one place less if that is a value.
LEMMA TailCount ==
  ASSUME NEW T, NEW s \in Seq(T), s # <<>>, NEW S, Head(s) \in S
  PROVE  Cardinality(Places(s, S)) = Cardinality(Places(Tail(s), S)) + 1
<1> DEFINE A == Places(Tail(s), S)
           B == Places(s, S)
           f == [i \in A |-> i + 1]
<1>1. /\ Len(s) \in Nat \ {0} /\ DOMAIN s = 1 .. Len(s) /\ s[1] \in S
      /\ Tail(s) \in Seq(T) /\ DOMAIN Tail(s) = 1 .. Len(s) - 1
      /\ \A i \in DOMAIN Tail(s) : Tail(s)[i] = s[i + 1]
  OBVIOUS
<1>2. B = (B \ {1}) \cup {1}
  BY <1>1 DEF Places
<1>3. f \in Bijection(A, B \ {1})
  <2>1. f \in [A -> B \ {1}]
    BY <1>1 DEF Places
  <2>2. \A i, j \in A : f[i] = f[j] => i = j
    BY <1>1 DEF Places
  <2>3. \A j \in B \ {1} : \E i \in A : f[i] = j
    <3> SUFFICES ASSUME NEW j \in B \ {1} PROVE \E i \in A : f[i] = j
      OBVIOUS
    <3>1. j - 1 \in A
      BY <1>1 DEF Places
    <3>2. f[j - 1] = j
      BY <1>1, <3>1 DEF Places
    <3>3. QED
      BY <3>1, <3>2
  <2>4. QED
    BY <2>1, <2>2, <2>3 DEF Bijection, Injection, IsInjective, Surjection
<1>4. IsFiniteSet(A) /\ Cardinality(A) \in Nat
  BY <1>1, PlacesFinite
<1>5. Cardinality(B \ {1}) = Cardinality(A) /\ IsFiniteSet(B \ {1})
  BY <1>3, <1>4, FS_Bijection DEF ExistsBijection
<1>6. Cardinality(B) = Cardinality(B \ {1}) + 1
  BY <1>2, <1>5, FS_AddElement
<1>7. QED
  BY <1>5, <1>6

\* An answer on an empty stream, or something else on one that is begun and not ended,
\* keeps the order.
LEMMA AppendOrder ==
  ASSUME NEW T, NEW s \in Seq(T), NEW m, InOrder(s), ~Ended(s),
         m \in {"ok", "error"} <=> s = <<>>
  PROVE  /\ InOrder(Append(s, m))
         /\ Ended(Append(s, m)) <=> m \in {"fin", "reset"}
<1>1. s = <<>> <=> Len(s) = 0
  OBVIOUS
<1>2. QED
  BY <1>1, AppendPlaces DEF InOrder, Ended

Updating == {"update"} \cup Prefixes

\* The stream of a request: in order, and not ended while somebody may write on it.
Stream(r) ==
  /\ InOrder(toPeer[r])
  /\ step[r] # "none" => toPeer[r] # <<>>
  /\ r \in registered \/ step[r] \in {"none", "refusing", "stating"} => ~Ended(toPeer[r])

\* The updates of a request that is read are answered or wait to be read.
Balanced(r) ==
  /\ step[r] = "none" => updates[r] = 0
  /\ step[r] = "open" => r \in registered
  /\ step[r] \in {"accepting", "open", "updating"} /\ r \in registered =>
       updates[r] = Cardinality(Places(toPeer[r], {"updated"}))
                      + Cardinality(Places(inbox[r], Updating))

\* An action of a request keeps the order of its stream.
LEMMA ActionStream ==
  ASSUME TypeOK, NEW r \in Requests, ActionOf(r), Kept(r), Stream(r)
  PROVE  Stream(r)'
<1> USE DEF Typed, peer, tables
<1>0. Typed /\ Begun(r)
  BY TypedIsTypeOK DEF Kept
<1>1. toPeer[r] \in Seq(Outbound)
  BY <1>0
\* Something that is written on a stream which is not ended.
<1>2. ASSUME NEW m, toPeer'[r] = Append(toPeer[r], m), ~Ended(toPeer[r]),
             m \in {"ok", "error"} <=> toPeer[r] = <<>>,
             m \in {"fin", "reset"} => r \notin registered'
                                        /\ step'[r] \notin {"none", "refusing", "stating"}
      PROVE  Stream(r)'
  <2>1. InOrder(toPeer'[r]) /\ (Ended(toPeer'[r]) <=> m \in {"fin", "reset"})
    BY <1>1, <1>2, AppendOrder DEF Stream
  <2>2. toPeer'[r] # <<>>
    BY <1>1, <1>2, AppendPlaces
  <2>3. QED
    BY <1>2, <2>1, <2>2 DEF Stream
\* A step that writes nothing.
<1>3. ASSUME toPeer'[r] = toPeer[r], r \in registered' => r \in registered,
             step[r] # "none", step'[r] \notin {"none", "refusing", "stating"}
      PROVE  Stream(r)'
  BY <1>3 DEF Stream
\* The stream is ended, unless it is gone.
<1>4. ASSUME NEW m \in {"fin", "reset"}, EndStream(r, m), step[r] # "none",
             step'[r] \notin {"none", "refusing", "stating"}
      PROVE  Stream(r)'
  <2>1. CASE r \in registered
    <3>1. toPeer'[r] = Append(toPeer[r], m) /\ r \notin registered'
      BY <1>0, <1>4, <2>1 DEF EndStream, Write
    <3>2. ~Ended(toPeer[r]) /\ toPeer[r] # <<>> /\ m \notin {"ok", "error"}
      BY <1>4, <2>1 DEF Stream
    <3>3. QED
      BY <1>2, <1>4, <3>1, <3>2
  <2>2. CASE r \notin registered
    BY <1>0, <1>3, <1>4, <2>2 DEF EndStream
  <2>3. QED
    BY <2>1, <2>2
<1>5. ASSUME NEW j \in Jobs, ReadRequest(r, j) PROVE Stream(r)'
  <2>1. PICK m \in {"ok", "error"} : toPeer'[r] = Append(toPeer[r], m) /\ step[r] = "none"
    BY <1>0, <1>5 DEF ReadRequest, Write
  <2>2. toPeer[r] = <<>> /\ ~Ended(toPeer[r])
    BY <1>0, <2>1 DEF Begun, Ended
  <2>3. QED
    BY <1>2, <2>1, <2>2
<1>6. CASE RequestAccepted(r)
  BY <1>0, <1>3, <1>6 DEF RequestAccepted, Step
<1>7. CASE RequestFinished(r)
  <2>1. /\ toPeer'[r] = Append(toPeer[r], "fin") /\ step[r] \in {"refusing", "stating"}
        /\ step'[r] = "over" /\ r \notin registered'
    BY <1>0, <1>7 DEF RequestFinished, Write, Step
  <2>2. QED
    BY <1>2, <2>1 DEF Stream
<1>8. CASE ReadUpdate(r) \/ ReadBadUpdate(r)
  <2>1. PICK m \in {"updated", "refused"} : toPeer'[r] = Append(toPeer[r], m)
    BY <1>0, <1>8 DEF ReadUpdate, ReadBadUpdate, Write
  <2>2. r \in registered /\ step[r] = "open"
    BY <1>8 DEF ReadUpdate, ReadBadUpdate, Reads, Comes
  <2>3. QED
    BY <1>2, <2>1, <2>2 DEF Stream
<1>9. CASE Updated(r)
  BY <1>0, <1>3, <1>9 DEF Updated, Step
<1>10. CASE UpdateRefused(r)
  <2>1. step[r] = "failing" /\ step'[r] = "over"
    BY <1>0, <1>10 DEF UpdateRefused, Step
  <2>2. CASE Kind(r) = "subscribe" /\ r \in registered
    <3>1. toPeer'[r] = Append(toPeer[r], "done")
      BY <1>0, <1>10, <2>2 DEF UpdateRefused, Write
    <3>2. QED
      BY <1>2, <2>1, <2>2, <3>1 DEF Stream
  <2>3. CASE Kind(r) = "subscribe" /\ r \notin registered
    BY <1>3, <1>10, <2>1, <2>3 DEF UpdateRefused
  <2>4. CASE Kind(r) # "subscribe"
    BY <1>4, <1>10, <2>1, <2>4 DEF UpdateRefused
  <2>5. QED
    BY <2>2, <2>3, <2>4
<1>11. CASE ReadFin(r)
  <2>1. step[r] = "open" /\ step'[r] \in {"halfopen", "over"}
    BY <1>0, <1>11 DEF ReadFin, Comes, Step
  <2>2. UNCHANGED <<registered, toPeer>> \/ EndStream(r, "fin")
    BY <1>11 DEF ReadFin
  <2>3. QED
    BY <1>3, <1>4, <2>1, <2>2
<1>12. CASE ReadReset(r)
  <2>1. step[r] = "open" /\ step'[r] = "over" /\ EndStream(r, "fin")
    BY <1>0, <1>12 DEF ReadReset, Comes, Step
  <2>2. QED
    BY <1>4, <2>1
<1>13. CASE PeerStopped(r)
  <2>1. step[r] # "none" /\ step'[r] = "over"
    BY <1>0, <1>13 DEF PeerStopped, Step, Writable, Begun
  <2>2. UNCHANGED <<registered, toPeer>> \/ EndStream(r, "reset")
    BY <1>13 DEF PeerStopped
  <2>3. QED
    BY <1>3, <1>4, <2>1, <2>2
<1>14. ASSUME NEW e \in Enders, DoneWritten(r, e) \/ DoneClosed(r, e) PROVE Stream(r)'
  <2>1. step[r] \notin {"none", "refusing", "stating"}
    BY <1>14 DEF DoneWritten, DoneClosed, Kept, Begun
  <2>2. step'[r] \in {step[r], "over"}
    BY <1>0, <1>14 DEF DoneWritten, DoneClosed, Step
  <2>3. UNCHANGED <<registered, toPeer>> \/ EndStream(r, "fin")
    BY <1>14 DEF DoneWritten, DoneClosed
  <2>4. QED
    BY <1>3, <1>4, <2>1, <2>2, <2>3
<1>15. ASSUME NEW e \in Enders, EndSubscription(r, e) PROVE Stream(r)'
  <2>1. step[r] \notin {"none", "refusing", "stating"} /\ UNCHANGED <<step, registered>>
    BY <1>15 DEF EndSubscription, Kept, Begun
  <2>2. CASE r \in registered
    <3>1. toPeer'[r] = Append(toPeer[r], "done")
      BY <1>0, <1>15, <2>2 DEF EndSubscription, Write
    <3>2. QED
      BY <1>2, <2>1, <2>2, <3>1 DEF Stream
  <2>3. CASE r \notin registered
    BY <1>3, <1>15, <2>1, <2>3 DEF EndSubscription
  <2>4. QED
    BY <2>2, <2>3
<1>16. CASE PeerUpdates(r) \/ PeerEnds(r)
  BY <1>3, <1>16 DEF PeerUpdates, PeerEnds
<1>17. QED
  BY <1>5, <1>6, <1>7, <1>8, <1>9, <1>10, <1>11, <1>12, <1>13, <1>14, <1>15, <1>16
  DEF ActionOf, Handle, Enders

\* An action of a request keeps the balance of its updates.
LEMMA ActionBalanced ==
  ASSUME TypeOK, NEW r \in Requests, ActionOf(r), Kept(r), Balanced(r)
  PROVE  Balanced(r)'
<1> USE DEF Typed, peer, tables
<1>0. /\ Typed /\ Begun(r)
      /\ toPeer[r] \in Seq(Outbound) /\ inbox[r] \in Seq(Inbound) /\ updates[r] \in Nat
  BY TypedIsTypeOK, PeerRequestsAssumption DEF Kept
<1> DEFINE answered == Cardinality(Places(toPeer[r], {"updated"}))
           waiting  == Cardinality(Places(inbox[r], Updating))
<1>1. answered \in Nat /\ waiting \in Nat
  BY <1>0, PlacesFinite
<1>2. ASSUME step'[r] \notin {"none", "open"}, step'[r] \in {"accepting", "updating"} => r \notin registered'
      PROVE  Balanced(r)'
  BY <1>2 DEF Balanced
<1>3. ASSUME NEW j \in Jobs, ReadRequest(r, j) PROVE Balanced(r)'
  <2>1. PICK m \in {"ok", "error"} :
          toPeer'[r] = Append(toPeer[r], m) /\ step[r] = "none" /\ UNCHANGED <<inbox, updates>>
    BY <1>0, <1>3 DEF ReadRequest, Write
  <2>2. step'[r] \notin {"none", "open"}
    BY <1>0, <1>3 DEF ReadRequest, Step
  <2>3. toPeer[r] = <<>> /\ inbox[r] = <<>> /\ updates[r] = 0
    BY <1>0, <2>1 DEF Begun, Balanced
  <2>4. answered = 0 /\ waiting = 0
    BY <2>3, FS_EmptySet DEF Places
  <2>5. Cardinality(Places(toPeer'[r], {"updated"})) = 0
    BY <1>0, <2>1, <2>4, AppendCount
  <2>6. QED
    BY <2>1, <2>2, <2>3, <2>4, <2>5 DEF Balanced
<1>4. CASE RequestAccepted(r) \/ Updated(r)
  <2>1. /\ step[r] \in {"accepting", "updating"} /\ UNCHANGED <<peer, toPeer, registered>>
        /\ step'[r] = "over" \/ (step'[r] = "open" /\ r \in registered)
    BY <1>0, <1>4 DEF RequestAccepted, Updated, Begun, Step
  <2>2. QED
    BY <2>1 DEF Balanced
<1>5. CASE ReadUpdate(r)
  <2>1. PICK m \in Updating : Reads(r, m)
    BY <1>5 DEF ReadUpdate, Updating
  <2>2. /\ step[r] = "open" /\ step'[r] = "updating" /\ r \in registered
        /\ inbox[r] # <<>> /\ Head(inbox[r]) = m /\ inbox'[r] = Tail(inbox[r])
        /\ toPeer'[r] = Append(toPeer[r], "updated") /\ UNCHANGED <<registered, updates>>
    BY <1>0, <1>5, <2>1 DEF ReadUpdate, Reads, Comes, Write, Step
  <2>3. Cardinality(Places(toPeer'[r], {"updated"})) = answered + 1
    BY <1>0, <2>2, AppendCount
  <2>4. waiting = Cardinality(Places(inbox'[r], Updating)) + 1
    BY <1>0, <2>1, <2>2, TailCount
  <2>5. inbox'[r] \in Seq(Inbound)
    BY <1>0, <2>2, SequenceTypes
  <2>6. Cardinality(Places(inbox'[r], Updating)) \in Nat
    BY <2>5, PlacesFinite
  <2>7. updates[r] = answered + waiting
    BY <2>2 DEF Balanced
  <2>8. QED
    BY <1>1, <2>2, <2>3, <2>4, <2>6, <2>7 DEF Balanced
<1>6. CASE \/ RequestFinished(r) \/ ReadBadUpdate(r) \/ UpdateRefused(r) \/ ReadFin(r)
           \/ ReadReset(r) \/ PeerStopped(r)
  <2>1. step'[r] \in {"over", "failing", "halfopen"}
    BY <1>0, <1>6 DEF RequestFinished, ReadBadUpdate, UpdateRefused, ReadFin, ReadReset, PeerStopped,
      Step
  <2>2. QED
    BY <1>2, <2>1
<1>7. ASSUME NEW e \in Enders, DoneWritten(r, e) PROVE Balanced(r)'
  <2>1. /\ r \notin registered' /\ step[r] # "none"
        /\ step'[r] = IF step[r] \in {"open", "halfopen"} THEN "over" ELSE step[r]
    BY <1>0, <1>7 DEF DoneWritten, EndStream, Step, Begun
  <2>2. QED
    BY <1>2, <2>1
<1>8. ASSUME NEW e \in Enders, DoneClosed(r, e) PROVE Balanced(r)'
  BY <1>8 DEF DoneClosed, Balanced
<1>9. ASSUME NEW e \in Enders, EndSubscription(r, e) PROVE Balanced(r)'
  <2>1. UNCHANGED <<peer, step, registered>>
    BY <1>9 DEF EndSubscription
  <2>2. toPeer'[r] = toPeer[r] \/ toPeer'[r] = Append(toPeer[r], "done")
    BY <1>0, <1>9 DEF EndSubscription, Write
  <2>3. Cardinality(Places(toPeer'[r], {"updated"})) = answered
    <3>1. Cardinality(Places(Append(toPeer[r], "done"), {"updated"})) = answered
      BY <1>0, AppendCount
    <3>2. QED
      BY <2>2, <3>1
  <2>4. QED
    BY <2>1, <2>3 DEF Balanced
<1>10. CASE PeerUpdates(r)
  <2>1. PICK m \in Updating : Sends(r, m)
    BY <1>10 DEF PeerUpdates, Updating
  <2>2. /\ step[r] \in {"accepting", "open", "updating"} /\ updates'[r] = updates[r] + 1
        /\ UNCHANGED <<step, registered, toPeer>> /\ inbox'[r] = Append(inbox[r], m)
    BY <1>0, <1>10, <2>1 DEF PeerUpdates, Sends
  <2>3. Cardinality(Places(inbox'[r], Updating)) = waiting + 1
    BY <1>0, <2>1, <2>2, AppendCount
  <2>4. r \in registered => updates[r] = answered + waiting
    BY <2>2 DEF Balanced
  <2>5. r \in registered => updates'[r] = answered + (waiting + 1)
    BY <1>1, <2>2, <2>4
  <2>6. QED
    BY <2>2, <2>3, <2>5 DEF Balanced
<1>11. CASE PeerEnds(r)
  <2>1. PICK m \in {"fin", "reset"} : Sends(r, m)
    BY <1>11 DEF PeerEnds
  <2>2. /\ step[r] # "none" /\ UNCHANGED <<step, registered, toPeer, updates>>
        /\ inbox'[r] = Append(inbox[r], m)
    BY <1>0, <1>11, <2>1 DEF PeerEnds, Sends
  <2>3. m \notin Updating
    BY PeerRequestsAssumption DEF Updating
  <2>4. Cardinality(Places(inbox'[r], Updating)) = waiting
    BY <1>0, <2>2, <2>3, AppendCount
  <2>5. QED
    BY <2>2, <2>4 DEF Balanced
<1>12. QED
  BY <1>3, <1>4, <1>5, <1>6, <1>7, <1>8, <1>9, <1>10, <1>11 DEF ActionOf, Handle, Enders

\* Another request's action keeps both.
LEMMA SameStream ==
  ASSUME NEW q, Same(q), UNCHANGED updates[q]
  PROVE  (Stream(q) => Stream(q)') /\ (Balanced(q) => Balanced(q)')
BY DEF Same, Stream, Balanced

AllInOrder == \A r \in Requests : Stream(r) /\ Balanced(r)

LEMMA StepInOrder == TypeOK /\ AllKept /\ AllInOrder /\ [Next]_vars => AllInOrder'
<1> SUFFICES ASSUME TypeOK, AllKept, AllInOrder, [Next]_vars, NEW q \in Requests
             PROVE  Stream(q)' /\ Balanced(q)'
  BY DEF AllInOrder
<1>1. CASE UNCHANGED vars \/ GoAway
  <2>1. Same(q) /\ UNCHANGED updates[q]
    BY <1>1 DEF vars, GoAway, tables, peer, Same
  <2>2. QED
    BY <2>1, SameStream DEF AllInOrder
<1>2. ASSUME NEW r \in Requests, ActionOf(r), r # q PROVE Stream(q)' /\ Balanced(q)'
  <2>1. Same(q)
    BY <1>2, OthersSame
  <2>2. UNCHANGED updates[q]
    BY <1>2 DEF ActionOf, Handle, ReadRequest, RequestAccepted, RequestFinished, ReadUpdate,
      ReadBadUpdate, Updated, UpdateRefused, ReadFin, ReadReset, PeerStopped, DoneWritten,
      DoneClosed, EndSubscription, PeerUpdates, PeerEnds, peer, TypeOK
  <2>3. QED
    BY <2>1, <2>2, SameStream DEF AllInOrder
<1>3. ASSUME ActionOf(q) PROVE Stream(q)' /\ Balanced(q)'
  BY <1>3, ActionStream, ActionBalanced DEF AllInOrder, AllKept
<1>4. QED
  BY <1>1, <1>2, <1>3, NextActions

\* Every request is answered once and first, its updates are answered once each, and
\* nothing is written on a stream that is ended, whoever ended it.
THEOREM AnswersAlwaysInOrder == Spec => []AnswersInOrder
<1>1. Init => AllInOrder
  <2>1. ASSUME Init, NEW r \in Requests PROVE Stream(r) /\ Balanced(r)
    BY <2>1 DEF Init, Stream, Balanced, InOrder, Ended
  <2>2. QED
    BY <2>1 DEF AllInOrder
<1>2. ASSUME TypeOK, AllInOrder, NEW r \in Requests, step[r] = "open"
      PROVE  Count(r, {"updated"}) = updates[r] - Cardinality({i \in DOMAIN inbox[r] :
                                                inbox[r][i] \notin {"fin", "reset"}})
  <2>1. Typed
    BY <1>2, TypedIsTypeOK
  <2>2. {i \in DOMAIN inbox[r] : inbox[r][i] \notin {"fin", "reset"}} = Places(inbox[r], Updating)
    <3>1. \A i \in DOMAIN inbox[r] : inbox[r][i] \in {"fin", "reset"} \cup Updating
      BY <1>2, <2>1 DEF Typed, Inbound, Updating
    <3>2. {"fin", "reset"} \cap Updating = {}
      BY PeerRequestsAssumption DEF Updating
    <3>3. QED
      BY <3>1, <3>2 DEF Places
  <2>3. Count(r, {"updated"}) = Cardinality(Places(toPeer[r], {"updated"}))
    BY DEF Count, Places
  <2>4. /\ Cardinality(Places(toPeer[r], {"updated"})) \in Nat
        /\ Cardinality(Places(inbox[r], Updating)) \in Nat
    BY <1>2, <2>1, PlacesFinite DEF Typed
  <2>5. updates[r] = Cardinality(Places(toPeer[r], {"updated"}))
                       + Cardinality(Places(inbox[r], Updating))
    BY <1>2 DEF AllInOrder, Balanced
  <2> DEFINE waits == {i \in DOMAIN inbox[r] : inbox[r][i] \notin {"fin", "reset"}}
  <2>6. waits = Places(inbox[r], Updating)
    BY <2>2
  <2> HIDE DEF waits
  <2>7. Count(r, {"updated"}) = updates[r] - Cardinality(waits)
    BY <2>3, <2>4, <2>5, <2>6
  <2>8. QED
    BY <2>7 DEF waits
<1>3. TypeOK /\ AllInOrder => AnswersInOrder
  BY <1>2 DEF AnswersInOrder, AllInOrder, Stream, InOrder
<1>4. QED
  BY <1>1, <1>3, StepInOrder, KeptAlways, PTL DEF Spec
=============================================================================
