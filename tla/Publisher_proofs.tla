--------------------------- MODULE Publisher_proofs ---------------------------
(***************************************************************************)
(* Proofs about Publisher, for any objects, limits and filter: type        *)
(* correctness and, when sends wait for each other, that what is written   *)
(* decodes, that a subgroup is one stream which alone has FIRST_OBJECT, and*)
(* that PUBLISH_DONE is final.                                             *)
(***************************************************************************)
EXTENDS Publisher, FiniteSetTheorems, TLAPS

-----------------------------------------------------------------------------
(* Type correctness.                                                       *)

\* A sendObject() that is under way, past its first await.
Busy == {"closing", "creating", "first", "writing", "closed", "refused", "stopped"}

\* A call that is under way has a stream.
CallsHaveStreams == \A i \in Objects : pc[i] \in Busy => at[i] \in Streams

\* Each pause resets a stream at most once, and so does the peer's cancel.
ResetsBounded == \A s \in Streams : resets[s] <= pauses + IF cancelled THEN 1 ELSE 0

\* TypeOK is not inductive: the count of resets is bounded by their causes.
TypeInv == TypeOK /\ CallsHaveStreams /\ ResetsBounded

\* What the types of constants say of groups, objects and streams.
LEMMA ConstantTypes ==
  /\ \A i \in Objects : GroupOf[i] \in Nat /\ GroupOf[i] # None
  /\ Objects \subseteq Nat \ {None} /\ Streams \subseteq Nat \ {None}
  /\ MaxPauses \in Nat /\ MaxStreams \in Nat
BY PublisherAssumption DEF Objects, Streams, None

\* One more value at the end of one sequence.
LEMMA AppendAt ==
  ASSUME NEW S, NEW T, NEW f \in [S -> Seq(T)], NEW x \in S, NEW v \in T
  PROVE  [f EXCEPT ![x] = Append(@, v)] \in [S -> Seq(T)]
<1>1. Append(f[x], v) \in Seq(T)
  OBVIOUS
<1> QED BY <1>1

\* The count of open streams stays a number.
LEMMA LessType ==
  ASSUME NEW n \in Nat
  PROVE  Less(n) \in Nat
BY DEF Less

\* Opening a stream, or giving up at the limit, keeps the types of what it
\* assigns.
LEMMA StartOpenType ==
  ASSUME TypeInv, NEW i \in Objects, NEW count \in Nat, StartOpen(i, count)
  PROVE  /\ lastGroup' \in Nat /\ openCount' \in Nat
         /\ stream' \in [Streams -> {"none", "creating", "refused", "discarded", "open",
                                     "closing", "fin", "reset", "stopped"}]
         /\ group' \in [Streams -> Nat]
         /\ first' \subseteq Streams
         /\ pc' \in [Objects -> {"idle", "closing", "creating", "first", "writing", "closed",
                                 "refused", "stopped", "ending", "done"}]
         /\ at' \in [Objects -> Streams \cup {None}]
         /\ CallsHaveStreams'
<1>1. lastGroup' \in Nat
  BY ConstantTypes DEF StartOpen, TypeInv, TypeOK
<1>2. CASE count >= MaxOpenStreams
  <2>1. Finish(i) /\ openCount' = count /\ UNCHANGED <<stream, group, first>>
    BY <1>2 DEF StartOpen
  <2> QED BY <1>1, <2>1 DEF Finish, TypeInv, TypeOK, CallsHaveStreams, Busy
<1>3. ASSUME ~(count >= MaxOpenStreams)
      PROVE  /\ openCount' \in Nat
             /\ stream' \in [Streams -> {"none", "creating", "refused", "discarded", "open",
                                         "closing", "fin", "reset", "stopped"}]
             /\ group' \in [Streams -> Nat]
             /\ first' \subseteq Streams
             /\ pc' \in [Objects -> {"idle", "closing", "creating", "first", "writing", "closed",
                                     "refused", "stopped", "ending", "done"}]
             /\ at' \in [Objects -> Streams \cup {None}]
             /\ CallsHaveStreams'
  <2>1. PICK s \in Streams :
          /\ stream' = [stream EXCEPT ![s] = "creating"]
          /\ group' = [group EXCEPT ![s] = GroupOf[i]]
          /\ first' = IF published /\ lastGroup = GroupOf[i] THEN first ELSE first \cup {s}
          /\ pc' = [pc EXCEPT ![i] = "creating"]
          /\ at' = [at EXCEPT ![i] = s]
          /\ openCount' = count + 1
    BY <1>3 DEF StartOpen
  <2>2. group' \in [Streams -> Nat]
    BY <2>1, ConstantTypes DEF TypeInv, TypeOK
  <2>3. CallsHaveStreams'
    BY <2>1 DEF TypeInv, TypeOK, CallsHaveStreams
  <2> QED BY <2>1, <2>2, <2>3 DEF TypeInv, TypeOK
<1> QED BY <1>1, <1>2, <1>3

\* Resetting the track's stream keeps the types, and counts one more reset.
LEMMA StartResetType ==
  ASSUME TypeInv, StartReset
  PROVE  /\ stream' \in [Streams -> {"none", "creating", "refused", "discarded", "open",
                                     "closing", "fin", "reset", "stopped"}]
         /\ resets' \in [Streams -> Nat]
         /\ \A s \in Streams : resets'[s] <= pauses + 1 + IF cancelled THEN 1 ELSE 0
<1>0. MaxPauses \in Nat /\ pauses \in Nat
  BY ConstantTypes DEF TypeInv, TypeOK
<1>1. resets \in [Streams -> Nat] /\ \A s \in Streams : resets[s] <= pauses + IF cancelled THEN 1 ELSE 0
  BY <1>0 DEF TypeInv, TypeOK, ResetsBounded
<1>2. CASE entry = None
  BY <1>0, <1>1, <1>2 DEF StartReset, TypeInv, TypeOK
<1>3. CASE entry # None
  <2>1. /\ entry \in Streams
        /\ resets' = [resets EXCEPT ![entry] = @ + 1]
        /\ stream' = IF Gone(entry) THEN stream ELSE [stream EXCEPT ![entry] = "reset"]
    BY <1>3 DEF StartReset, TypeInv, TypeOK
  <2>2. resets' \in [Streams -> Nat]
    BY <1>1, <2>1
  <2>3. ASSUME NEW s \in Streams
        PROVE  resets'[s] <= resets[s] + 1
    BY <1>1, <2>1
  <2>4. \A s \in Streams : resets'[s] <= pauses + 1 + IF cancelled THEN 1 ELSE 0
    BY <1>0, <1>1, <2>2, <2>3
  <2> QED BY <2>1, <2>2, <2>4 DEF TypeInv, TypeOK
<1> QED BY <1>2, <1>3

\* A step of sendObject() keeps the types.
LEMMA SendType ==
  ASSUME TypeInv, NEW i \in Objects,
         \/ FilterEnds(i) \/ SkipObject(i) \/ SendFirst(i) \/ SendNextGroup(i) \/ SendNextObject(i)
         \/ GroupClosed(i) \/ StreamCreated(i) \/ StreamRefused(i) \/ ObjectWritten(i)
         \/ WriteFails(i) \/ FilterEnded(i)
  PROVE  TypeInv'
<1>0. /\ TypeOK
      /\ GroupOf[i] \in Nat /\ None \in Nat
      /\ pc[i] \in Busy => at[i] \in Streams
  BY ConstantTypes DEF TypeInv, CallsHaveStreams, None
<1>1. CASE FilterEnds(i)
  <2>1. done' \in Nat \cup {-1}
    BY <1>0, <1>1 DEF FilterEnds, SendPublishDone, TypeOK
  <2> QED BY <1>1, <2>1 DEF FilterEnds, TypeInv, TypeOK, CallsHaveStreams, ResetsBounded, Busy,
                            publication, transport
<1>2. CASE SkipObject(i) \/ FilterEnded(i)
  <2>1. /\ pc' = [pc EXCEPT ![i] = "done"] /\ published' \in BOOLEAN
        /\ at' = [at EXCEPT ![i] = None]
        /\ UNCHANGED <<forward, opened, lastGroup, expired, entry, openCount, transport, others,
                       faults>>
    BY <1>0, <1>2 DEF SkipObject, FilterEnded, Finish, TypeOK, publication
  <2>2. CallsHaveStreams'
    BY <1>0, <2>1 DEF TypeInv, TypeOK, CallsHaveStreams, Busy
  <2> QED BY <2>1, <2>2 DEF TypeInv, TypeOK, ResetsBounded, transport, others
<1>3. CASE SendFirst(i)
  <2>1. StartOpen(i, openCount) /\ openCount \in Nat /\ faults' \subseteq {"clobbered", "late", "filter"}
    BY <1>0, <1>3 DEF SendFirst, Late, TypeOK
  <2>2. UNCHANGED <<published, forward, opened, expired, entry, previous, wire, others>>
    BY <1>3 DEF SendFirst
  <2> QED BY <2>1, <2>2, StartOpenType DEF TypeInv, TypeOK, ResetsBounded, others
<1>4. CASE SendNextGroup(i)
  <2>1. /\ entry \in Streams
        /\ at' = [at EXCEPT ![i] = entry]
        /\ pc' = [pc EXCEPT ![i] = IF stream[entry] = "open" THEN "closing" ELSE "closed"]
        /\ stream' = IF stream[entry] = "open" THEN [stream EXCEPT ![entry] = "closing"] ELSE stream
        /\ UNCHANGED <<publication, entry, openCount, group, first, previous, wire, others, faults>>
    BY <1>0, <1>4 DEF SendNextGroup, Close, TypeOK
  <2>2. CallsHaveStreams'
    BY <2>1 DEF TypeInv, TypeOK, CallsHaveStreams, Busy
  <2> QED BY <2>1, <2>2 DEF TypeInv, TypeOK, ResetsBounded, publication, others
<1>5. CASE SendNextObject(i)
  <2>1. /\ entry \in Streams
        /\ at' = [at EXCEPT ![i] = entry]
        /\ \E p \in {"writing", "stopped", "refused"} : pc' = [pc EXCEPT ![i] = p]
        /\ UNCHANGED <<publication, entry, openCount, stream, group, first, previous, others, faults>>
    BY <1>0, <1>5 DEF SendNextObject, TypeOK
  <2>2. CallsHaveStreams'
    BY <2>1 DEF TypeInv, TypeOK, CallsHaveStreams, Busy
  <2>3. wire' \in [Streams -> Seq([object : Objects, base : Objects \cup {None}])]
    <3> DEFINE T == [object : Objects, base : Objects \cup {None}]
               r == [object |-> i, base |-> previous[entry]]
    <3>1. wire' = wire \/ wire' = [wire EXCEPT ![entry] = Append(@, r)]
      BY <1>5 DEF SendNextObject
    <3>2. r \in T
      BY <2>1 DEF TypeInv, TypeOK
    <3>3. wire \in [Streams -> Seq(T)]
      BY DEF TypeInv, TypeOK
    <3> HIDE DEF T, r
    <3>4. [wire EXCEPT ![entry] = Append(@, r)] \in [Streams -> Seq(T)]
      BY <2>1, <3>2, <3>3, AppendAt
    <3>5. wire' \in [Streams -> Seq(T)]
      BY <3>1, <3>3, <3>4
    <3> QED BY <3>5 DEF T
  <2> QED BY <2>1, <2>2, <2>3 DEF TypeInv, TypeOK, ResetsBounded, publication, others
<1>6. CASE GroupClosed(i)
  <2>1. /\ StartOpen(i, Less(openCount)) /\ Less(openCount) \in Nat /\ entry' = None
        /\ faults' \subseteq {"clobbered", "late", "filter"}
    BY <1>0, <1>6, LessType DEF GroupClosed, DropEntry, Clobbers, Late, TypeOK
  <2>2. UNCHANGED <<published, forward, opened, expired, previous, wire, others>>
    BY <1>6 DEF GroupClosed
  <2> QED BY <2>1, <2>2, StartOpenType DEF TypeInv, TypeOK, ResetsBounded, others
<1>7. CASE StreamCreated(i)
  <2> DEFINE s == at[i]
  <2>1. /\ s \in Streams
        /\ opened' \in Nat
        /\ UNCHANGED <<published, forward, lastGroup, group, first, others>>
    BY <1>0, <1>7 DEF StreamCreated, TypeOK, Busy
  <2>2. CASE /\ stream' = [stream EXCEPT ![s] = "open"]
             /\ wire' = [wire EXCEPT ![s] = <<[object |-> i, base |-> None]>>]
             /\ previous' = [previous EXCEPT ![s] = i]
             /\ entry' = s
             /\ faults' = faults \cup Clobbers(s) \cup Late
             /\ pc' = [pc EXCEPT ![i] = "first"]
             /\ UNCHANGED <<at, openCount, expired>>
    <3>1. wire' \in [Streams -> Seq([object : Objects, base : Objects \cup {None}])]
      <4>1. <<[object |-> i, base |-> None]>> \in Seq([object : Objects, base : Objects \cup {None}])
        OBVIOUS
      <4> QED BY <2>2, <4>1 DEF TypeInv, TypeOK
    <3>2. faults' \subseteq {"clobbered", "late", "filter"}
      BY <1>0, <2>2 DEF Clobbers, Late, TypeOK
    <3>3. CallsHaveStreams'
      BY <2>1, <2>2 DEF TypeInv, TypeOK, CallsHaveStreams
    <3> QED BY <2>1, <2>2, <3>1, <3>2, <3>3 DEF TypeInv, TypeOK, ResetsBounded, others
  <2>3. CASE /\ stream' = [stream EXCEPT ![s] = "discarded"]
             /\ openCount' = Less(openCount)
             /\ expired' = GroupOf[i]
             /\ Finish(i)
             /\ UNCHANGED <<wire, previous, entry, faults>>
    <3>1. openCount' \in Nat
      BY <1>0, <2>3, LessType DEF TypeOK
    <3> QED BY <1>0, <2>1, <2>3, <3>1 DEF Finish, TypeInv, TypeOK, CallsHaveStreams, ResetsBounded,
                                          Busy, others
  <2> QED BY <1>7, <2>2, <2>3 DEF StreamCreated
<1>8. CASE StreamRefused(i)
  <2>1. openCount' \in Nat /\ at[i] \in Streams
    BY <1>0, <1>8, LessType DEF StreamRefused, TypeOK, Busy
  <2> QED BY <1>8, <2>1 DEF StreamRefused, DropEntry, Clobbers, Finish, TypeInv, TypeOK,
                            CallsHaveStreams, ResetsBounded, Busy, publication, others
<1>9. CASE ObjectWritten(i)
  BY <1>9 DEF ObjectWritten, Finish, TypeInv, TypeOK, CallsHaveStreams, ResetsBounded, Busy,
              publication, others
<1>10. CASE WriteFails(i)
  <2>1. /\ entry' = None
        /\ faults' \subseteq {"clobbered", "late", "filter"}
        /\ UNCHANGED <<published, forward, opened, expired, previous, wire, others>>
    BY <1>0, <1>10 DEF WriteFails, DropEntry, Clobbers, Late, TypeOK
  <2>2. CASE StartOpen(i, Less(openCount))
    <3>1. Less(openCount) \in Nat
      BY <1>0, LessType DEF TypeOK
    <3> QED BY <2>1, <2>2, <3>1, StartOpenType DEF TypeInv, TypeOK, ResetsBounded, others
  <2>3. CASE Finish(i) /\ UNCHANGED <<openCount, lastGroup, stream, group, first>>
    BY <2>1, <2>3 DEF Finish, TypeInv, TypeOK, CallsHaveStreams, ResetsBounded, Busy, others
  <2> QED BY <1>10, <2>2, <2>3 DEF WriteFails
<1> QED BY <1>1, <1>2, <1>3, <1>4, <1>5, <1>6, <1>7, <1>8, <1>9, <1>10

\* A step of the transport, the peer or unpublish() keeps the types.
LEMMA OtherType ==
  ASSUME TypeInv,
         \/ LastGroupClosed \/ PublishDone \/ Unpublish
         \/ \E s \in Streams : FinCommitted(s) \/ ResetDone(s) \/ FinTimesOut(s) \/ PeerStops(s)
         \/ PeerPauses \/ PeerResumes \/ PeerCancels
  PROVE  TypeInv'
<1> USE DEF TypeInv
<1>0. TypeOK
  OBVIOUS
<1>9. MaxPauses \in Nat /\ pauses \in Nat
  BY ConstantTypes DEF TypeOK
<1>1. ASSUME NEW s \in Streams, FinCommitted(s) \/ FinTimesOut(s) \/ PeerStops(s)
      PROVE  TypeInv'
  <2>1. /\ \E v \in {"fin", "reset", "stopped"} : stream' = [stream EXCEPT ![s] = v]
        /\ UNCHANGED <<publication, entry, openCount, group, first, previous, wire, calls, others,
                       faults>>
    BY <1>1 DEF FinCommitted, FinTimesOut, PeerStops
  <2>2. stream' \in [Streams -> {"none", "creating", "refused", "discarded", "open", "closing",
                                "fin", "reset", "stopped"}]
    BY <1>0, <2>1 DEF TypeOK
  <2>3. CallsHaveStreams' /\ ResetsBounded'
    BY <2>1 DEF CallsHaveStreams, ResetsBounded, calls, others
  <2> QED BY <1>0, <2>1, <2>2, <2>3 DEF TypeOK, publication, calls, others
<1>2. ASSUME NEW s \in Streams, ResetDone(s)
      PROVE  TypeInv'
  <2>1. resets' = [resets EXCEPT ![s] = @ - 1] /\ resets[s] \in Nat /\ resets[s] > 0
    BY <1>0, <1>2 DEF ResetDone, TypeOK
  <2>2. \A u \in Streams : resets'[u] \in 0 .. MaxPauses + 1 /\ resets'[u] <= resets[u]
    BY <1>0, <1>9, <2>1 DEF TypeOK
  <2>3. resets' \in [Streams -> 0 .. MaxPauses + 1]
    BY <1>0, <1>9, <2>1, <2>2 DEF TypeOK
  <2>4. UNCHANGED <<pauses, cancelled>>
    BY <1>2 DEF ResetDone
  <2>5. ResetsBounded'
    <3>1. ASSUME NEW u \in Streams
          PROVE  resets'[u] <= pauses + IF cancelled THEN 1 ELSE 0
      <4>1. resets[u] <= pauses + IF cancelled THEN 1 ELSE 0
        BY <1>0 DEF ResetsBounded
      <4>2. resets[u] \in Nat /\ resets'[u] \in Nat /\ resets'[u] <= resets[u] /\ pauses \in Nat
        BY <1>0, <1>9, <2>2, <2>3 DEF TypeOK
      <4> QED BY <4>1, <4>2
    <3> QED BY <2>4, <3>1 DEF ResetsBounded
  <2>6. openCount' \in Nat /\ entry' = None /\ faults' \subseteq {"clobbered", "late", "filter"}
    BY <1>0, <1>2, LessType DEF ResetDone, DropEntry, Clobbers, TypeOK
  <2> QED BY <1>2, <2>3, <2>5, <2>6 DEF ResetDone, TypeOK, CallsHaveStreams, publication,
                                        transport, calls
<1>3. CASE PeerPauses
  <2>1. /\ StartReset /\ pauses < MaxPauses /\ pauses' = pauses + 1 /\ forward' = FALSE
        /\ UNCHANGED <<published, opened, lastGroup, expired, entry, openCount, group, first,
                       previous, wire, calls, ending, endingAt, done, cancelled, faults>>
    BY <1>3 DEF PeerPauses
  <2>2. ResetsBounded'
    BY <2>1, StartResetType DEF ResetsBounded
  <2>3. resets' \in [Streams -> 0 .. MaxPauses + 1]
    <3>1. resets' \in [Streams -> Nat] /\ \A s \in Streams : resets'[s] <= pauses + 2
      BY <1>0, <1>9, <2>1, StartResetType
    <3>2. \A s \in Streams : resets'[s] \in 0 .. MaxPauses + 1
      BY <1>0, <1>9, <2>1, <3>1
    <3> QED BY <3>1, <3>2
  <2>4. pauses' \in 0 .. MaxPauses
    BY <1>0, <1>9, <2>1 DEF TypeOK
  <2>5. stream' \in [Streams -> {"none", "creating", "refused", "discarded", "open", "closing",
                                "fin", "reset", "stopped"}]
    BY <2>1, StartResetType
  <2> QED BY <1>0, <2>1, <2>2, <2>3, <2>4, <2>5 DEF TypeOK, CallsHaveStreams, calls
<1>4. CASE PeerCancels
  <2>1. /\ StartReset /\ ~cancelled /\ cancelled' = TRUE /\ published' = FALSE
        /\ UNCHANGED <<forward, opened, lastGroup, expired, entry, openCount, group, first,
                       previous, wire, calls, pauses, ending, endingAt, done, faults>>
    BY <1>4 DEF PeerCancels
  <2>2. resets' \in [Streams -> Nat] /\ \A s \in Streams : resets'[s] <= pauses + 1
    BY <1>0, <1>9, <2>1, StartResetType
  <2>3. ResetsBounded'
    BY <2>1, <2>2 DEF ResetsBounded
  <2>4. resets' \in [Streams -> 0 .. MaxPauses + 1]
    <3>1. \A s \in Streams : resets'[s] \in 0 .. MaxPauses + 1
      BY <1>0, <1>9, <2>2 DEF TypeOK
    <3> QED BY <2>2, <3>1
  <2> QED BY <1>0, <1>9, <2>1, <2>3, <2>4, StartResetType DEF TypeOK, CallsHaveStreams, calls
<1>5. CASE PeerResumes \/ PublishDone
  <2>1. /\ published' \in BOOLEAN /\ forward' \in BOOLEAN
        /\ ending' \in {"no", "closing", "closed", "writing", "yes"}
        /\ endingAt' \in Streams \cup {None}
        /\ UNCHANGED <<opened, lastGroup, expired, entry, openCount, transport, calls, resets, pauses,
                       done, cancelled, faults>>
    BY <1>0, <1>5 DEF PeerResumes, PublishDone, TypeOK, others
  <2> QED BY <1>0, <2>1 DEF TypeOK, CallsHaveStreams, ResetsBounded, transport, calls
<1>6. ASSUME NEW open, StartPublishDone(open)
      PROVE  /\ ending' = "writing" /\ done' \in Nat \cup {-1}
             /\ faults' \subseteq {"clobbered", "late", "filter"}
  BY <1>0, <1>9, <1>6 DEF StartPublishDone, SendPublishDone, TypeOK
<1>7. CASE LastGroupClosed
  <2>1. /\ openCount' \in Nat /\ entry' = None
        /\ StartPublishDone(entry \notin {None, endingAt})
        /\ UNCHANGED <<publication, transport, calls, resets, pauses, endingAt, cancelled>>
    BY <1>0, <1>9, <1>7, LessType DEF LastGroupClosed, DropEntry, TypeOK
  <2> QED BY <1>6, <2>1 DEF TypeOK, CallsHaveStreams, ResetsBounded, publication,
                            transport, calls
<1>8. CASE Unpublish
  <2>1. /\ endingAt' = entry
        /\ UNCHANGED <<publication, entry, openCount, group, first, previous, wire, calls, resets,
                       pauses, cancelled>>
    BY <1>8 DEF Unpublish
  <2>2. CASE entry = None /\ StartPublishDone(FALSE) /\ UNCHANGED stream
    BY <1>6, <2>1, <2>2 DEF TypeOK, CallsHaveStreams, ResetsBounded, publication, calls
  <2>3. CASE /\ entry # None
             /\ ending' = IF stream[entry] = "open" THEN "closing" ELSE "closed"
             /\ Close(entry)
             /\ UNCHANGED <<done, faults>>
    BY <2>1, <2>3 DEF Close, TypeOK, CallsHaveStreams, ResetsBounded, publication, calls
  <2> QED BY <1>8, <2>2, <2>3 DEF Unpublish
<1> QED BY <1>1, <1>2, <1>3, <1>4, <1>5, <1>7, <1>8

\* The types hold at first.
LEMMA InitType == Init => TypeInv
<1> SUFFICES ASSUME Init
             PROVE  TypeInv
  OBVIOUS
<1>1. MaxPauses \in Nat /\ None \in Nat
  BY ConstantTypes DEF None
<1>2. TypeOK
  <2>1. wire \in [Streams -> Seq([object : Objects, base : Objects \cup {None}])]
    BY DEF Init
  <2>2. resets \in [Streams -> 0 .. MaxPauses + 1] /\ pauses \in 0 .. MaxPauses
    BY <1>1 DEF Init
  <2> QED BY <1>1, <2>1, <2>2 DEF Init, TypeOK
<1>3. CallsHaveStreams /\ ResetsBounded
  BY <1>1 DEF Init, CallsHaveStreams, ResetsBounded, Busy
<1> QED BY <1>2, <1>3 DEF TypeInv

\* A step keeps the types.
LEMMA NextType == TypeInv /\ [Next]_vars => TypeInv'
<1> SUFFICES ASSUME TypeInv, [Next]_vars
             PROVE  TypeInv'
  OBVIOUS
<1>1. CASE UNCHANGED vars
  BY <1>1 DEF vars, publication, transport, calls, others, TypeInv, TypeOK, CallsHaveStreams,
              ResetsBounded
<1>2. CASE Next
  BY <1>2, SendType, OtherType DEF Next, Local, Application
<1> QED BY <1>1, <1>2

\* Every state is type correct.
THEOREM TypeCorrect == Spec => []TypeOK
<1>1. TypeInv => TypeOK
  BY DEF TypeInv
<1> QED BY <1>1, InitType, NextType, PTL DEF Spec

-----------------------------------------------------------------------------
(* What is on the wire, when sends wait for each other.                    *)

\* An object is only sent after the one before it was dealt with.
InTurn == \A i, j \in Objects : i < j /\ pc[j] # "idle" => pc[i] = "done"

\* The object written last on stream s.
LastOn(s) == wire[s][Len(wire[s])].object

\* An object being written is the last on its stream. The track's stream starts
\* with an object, and its entry has the last one unless that is being written.
WireSound ==
  /\ \A i \in Objects : pc[i] \in {"first", "writing"} =>
       wire[at[i]] # <<>> /\ LastOn(at[i]) = i
  /\ entry # None =>
       /\ wire[entry] # <<>>
       /\ \/ LastOn(entry) = previous[entry]
          \/ \E i \in Objects : pc[i] = "writing" /\ at[i] = entry

\* The inductive invariant.
DeltaInv == TypeInv /\ InTurn /\ WireSound /\ DeltasDecode

\* While one object is sent, no other is.
LEMMA OneAtATime ==
  ASSUME Serialized, TypeInv, InTurn, NEW i \in Objects, MaySend(i) \/ pc[i] \notin {"idle", "done"},
         NEW j \in Objects, j # i
  PROVE  /\ pc[j] = IF j < i THEN "done" ELSE "idle"
         /\ pc[i] # "done"
<1>1. i \in Nat /\ j \in Nat /\ i - 1 \in Int
  BY DEF Objects
<1>2. pc[i] # "done"
  BY DEF MaySend
<1>3. CASE j > i
  BY <1>1, <1>2, <1>3 DEF InTurn
<1>4. CASE j < i
  <2>1. CASE pc[i] # "idle"
    BY <1>2, <1>4, <2>1 DEF InTurn
  <2>2. CASE MaySend(i)
    <3>1. i > 1 /\ i - 1 \in Objects /\ j <= i - 1
      BY <1>1, <1>4 DEF Objects
    <3>2. pc[i - 1] = "done"
      BY <2>2, <3>1 DEF MaySend
    <3>3. CASE j = i - 1
      BY <1>4, <3>2, <3>3, <1>2
    <3>4. CASE j < i - 1
      BY <1>2, <1>4, <3>1, <3>2, <3>4 DEF InTurn
    <3> QED BY <1>1, <3>1, <3>3, <3>4
  <2> QED BY <2>1, <2>2
<1> QED BY <1>1, <1>3, <1>4

\* So the calls stay in turn when that object's call moves on.
LEMMA MoveInTurn ==
  ASSUME Serialized, TypeInv, InTurn, NEW i \in Objects, MaySend(i) \/ pc[i] \notin {"idle", "done"},
         \A j \in Objects \ {i} : pc'[j] = pc[j]
  PROVE  InTurn'
<1> SUFFICES ASSUME NEW a \in Objects, NEW b \in Objects, a < b, pc'[b] # "idle"
             PROVE  pc'[a] = "done"
  BY DEF InTurn
<1>1. a \in Nat /\ b \in Nat /\ i \in Nat
  BY DEF Objects
<1>2. \A j \in Objects \ {i} : pc'[j] = IF j < i THEN "done" ELSE "idle"
  BY OneAtATime
<1>3. CASE b = i
  BY <1>1, <1>2, <1>3
<1>4. CASE b # i
  BY <1>1, <1>2, <1>4
<1> QED BY <1>3, <1>4

\* A step that writes nothing and ends no write of the track's stream.
LEMMA QuietStep ==
  ASSUME DeltaInv, UNCHANGED <<wire, previous>>, entry' = entry \/ entry' = None,
         \A i \in Objects : pc'[i] \in {"first", "writing"} => pc'[i] = pc[i] /\ at'[i] = at[i],
         entry' # None => \A i \in Objects : pc[i] = "writing" => pc'[i] = "writing" /\ at'[i] = at[i]
  PROVE  WireSound' /\ DeltasDecode'
<1>1. WireSound /\ DeltasDecode
  BY DEF DeltaInv
<1>2. DeltasDecode'
  BY <1>1 DEF DeltasDecode
<1>3. ASSUME NEW i \in Objects, pc'[i] \in {"first", "writing"}
      PROVE  wire'[at'[i]] # <<>> /\ LastOn(at[i])' = i /\ at'[i] = at[i]
  BY <1>1, <1>3 DEF WireSound, LastOn
<1>4. ASSUME entry' # None
      PROVE  /\ entry' = entry /\ wire[entry] # <<>>
             /\ \/ LastOn(entry) = previous[entry]
                \/ \E i \in Objects : pc'[i] = "writing" /\ at'[i] = entry
  BY <1>1, <1>4 DEF WireSound
<1>5. \A x : LastOn(x)' = LastOn(x)
  BY DEF LastOn
<1> QED BY <1>2, <1>3, <1>4, <1>5 DEF WireSound, LastOn

\* StartOpen writes nothing.
LEMMA StartOpenMoves ==
  ASSUME TypeInv, NEW i \in Objects, NEW count, StartOpen(i, count)
  PROVE  /\ pc'[i] \in {"creating", "done"}
         /\ \A j \in Objects \ {i} : pc'[j] = pc[j] /\ at'[j] = at[j]
<1>1. \/ Finish(i)
      \/ \E s \in Streams : pc' = [pc EXCEPT ![i] = "creating"] /\ at' = [at EXCEPT ![i] = s]
  BY DEF StartOpen
<1> QED BY <1>1 DEF Finish, TypeInv, TypeOK

\* A step of a serialised sendObject() that writes nothing.
LEMMA SendQuietly ==
  ASSUME Serialized, DeltaInv, TypeInv', NEW i \in Objects,
         MaySend(i) \/ pc[i] \notin {"idle", "done"},
         UNCHANGED <<wire, previous>>, pc'[i] \notin {"first", "writing"},
         entry' = None \/ (entry' = entry /\ pc[i] # "writing"),
         \A j \in Objects \ {i} : pc'[j] = pc[j] /\ at'[j] = at[j]
  PROVE  DeltaInv'
<1>1. InTurn'
  BY MoveInTurn DEF DeltaInv
<1>2. WireSound' /\ DeltasDecode'
  BY QuietStep
<1> QED BY <1>1, <1>2 DEF DeltaInv

\* A step of sendObject() keeps the invariant.
LEMMA SendKeepsDeltas ==
  ASSUME Serialized, DeltaInv, NEW i \in Objects,
         \/ FilterEnds(i) \/ SkipObject(i) \/ SendFirst(i) \/ SendNextGroup(i) \/ SendNextObject(i)
         \/ GroupClosed(i) \/ StreamCreated(i) \/ StreamRefused(i) \/ ObjectWritten(i)
         \/ WriteFails(i) \/ FilterEnded(i)
  PROVE  DeltaInv'
<1>1. /\ TypeInv /\ TypeInv' /\ InTurn /\ WireSound /\ DeltasDecode
      /\ MaySend(i) \/ pc[i] \notin {"idle", "done"}
  <2>1. TypeInv /\ TypeInv' /\ InTurn /\ WireSound /\ DeltasDecode
    BY SendType DEF DeltaInv
  <2>2. MaySend(i) \/ pc[i] \notin {"idle", "done"}
    BY DEF FilterEnds, SkipObject, SendFirst, SendNextGroup, SendNextObject, Wanted, GroupClosed,
           StreamCreated, StreamRefused, ObjectWritten, WriteFails, FilterEnded
  <2> QED BY <2>1, <2>2
<1>2. CASE \/ FilterEnds(i) \/ SkipObject(i) \/ SendNextGroup(i) \/ StreamRefused(i)
           \/ FilterEnded(i)
  <2>1. /\ UNCHANGED <<wire, previous>> /\ entry' \in {entry, None} /\ pc[i] # "writing"
        /\ \E v \in {"ending", "done", "closing", "closed"} : pc' = [pc EXCEPT ![i] = v]
        /\ \E s : at' = at \/ at' = [at EXCEPT ![i] = s]
    BY <1>2 DEF FilterEnds, SkipObject, SendNextGroup, StreamRefused, FilterEnded, Finish, Wanted,
                MaySend, DropEntry, transport
  <2>2. /\ pc'[i] \notin {"first", "writing"}
        /\ \A j \in Objects \ {i} : pc'[j] = pc[j] /\ at'[j] = at[j]
    BY <1>1, <2>1 DEF TypeInv, TypeOK
  <2> QED BY <1>1, <2>1, <2>2, SendQuietly
<1>3. CASE SendFirst(i) \/ GroupClosed(i)
  <2>1. /\ UNCHANGED <<wire, previous>> /\ entry' = None
        /\ \E count : StartOpen(i, count)
    BY <1>3 DEF SendFirst, GroupClosed, DropEntry
  <2> QED BY <1>1, <2>1, StartOpenMoves, SendQuietly
<1>4. CASE WriteFails(i)
  <2>1. /\ UNCHANGED <<wire, previous>> /\ entry' = None
        /\ Finish(i) \/ \E count : StartOpen(i, count)
    BY <1>4 DEF WriteFails, DropEntry
  <2>2. /\ pc'[i] \notin {"first", "writing"}
        /\ \A j \in Objects \ {i} : pc'[j] = pc[j] /\ at'[j] = at[j]
    <3>1. CASE Finish(i)
      BY <1>1, <3>1 DEF Finish, TypeInv, TypeOK
    <3>2. CASE \E count : StartOpen(i, count)
      BY <1>1, <3>2, StartOpenMoves
    <3> QED BY <2>1, <3>1, <3>2
  <2> QED BY <1>1, <2>1, <2>2, SendQuietly
<1>5. CASE SendNextObject(i)
  <2>1. /\ entry # None /\ entry \in Streams /\ at' = [at EXCEPT ![i] = entry] /\ MaySend(i)
        /\ UNCHANGED <<entry, previous>>
    BY <1>1, <1>5 DEF SendNextObject, Wanted, TypeInv, TypeOK
  <2>2. CASE UNCHANGED wire /\ \E v \in {"stopped", "refused"} : pc' = [pc EXCEPT ![i] = v]
    <3>1. /\ pc'[i] \notin {"first", "writing"} /\ pc[i] # "writing"
          /\ \A j \in Objects \ {i} : pc'[j] = pc[j] /\ at'[j] = at[j]
      BY <1>1, <2>1, <2>2 DEF TypeInv, TypeOK, MaySend
    <3> QED BY <1>1, <2>1, <2>2, <3>1, SendQuietly
  <2>3. CASE /\ pc' = [pc EXCEPT ![i] = "writing"]
             /\ wire' = [wire EXCEPT ![entry] = Append(@, [object |-> i, base |-> previous[entry]])]
    <3> DEFINE r == [object |-> i, base |-> previous[entry]]
    <3>1. /\ pc'[i] = "writing" /\ at'[i] = entry
          /\ \A j \in Objects \ {i} : pc'[j] = pc[j] /\ pc[j] \in {"idle", "done"}
      BY <1>1, <2>1, <2>3, OneAtATime DEF TypeInv, TypeOK
    <3>2. /\ wire'[entry] = Append(wire[entry], r)
          /\ \A s \in Streams \ {entry} : wire'[s] = wire[s]
          /\ wire[entry] \in Seq([object : Objects, base : Objects \cup {None}])
      BY <1>1, <2>1, <2>3 DEF TypeInv, TypeOK
    <3>3. wire[entry] # <<>> /\ wire[entry][Len(wire[entry])].object = previous[entry]
      <4>1. ~ \E j \in Objects : pc[j] = "writing"
        BY <2>1, <3>1 DEF MaySend
      <4> QED BY <1>1, <2>1, <4>1 DEF WireSound, LastOn
    <3> DEFINE w == wire[entry]
               x == wire'[entry]
    <3>4. /\ Len(w) \in Nat \ {0} /\ Len(x) = Len(w) + 1 /\ x # <<>>
          /\ x[Len(w) + 1] = r /\ \A k \in 1 .. Len(w) : x[k] = w[k]
          /\ DOMAIN x = 1 .. Len(w) + 1 /\ DOMAIN w = 1 .. Len(w)
      BY <3>2, <3>3
    <3>5. InTurn'
      BY <1>1, <3>1, MoveInTurn
    <3>6. WireSound'
      <4>1. x[Len(x)].object = i
        BY <3>4
      <4> QED BY <2>1, <3>1, <3>4, <4>1 DEF WireSound, LastOn
    <3>7. DeltasDecode'
      <4>1. ASSUME NEW k \in DOMAIN x
            PROVE  x[k].base = IF k = 1 THEN None ELSE x[k - 1].object
        <5>1. CASE k = Len(w) + 1
          <6>1. x[k].base = previous[entry] /\ k # 1 /\ k - 1 \in 1 .. Len(w)
            BY <3>4, <5>1
          <6>2. x[k - 1].object = previous[entry]
            BY <3>3, <3>4, <5>1, <6>1
          <6> QED BY <6>1, <6>2
        <5>2. CASE k \in 1 .. Len(w)
          <6>1. w[k].base = IF k = 1 THEN None ELSE w[k - 1].object
            BY <1>1, <2>1, <3>4, <5>2 DEF DeltasDecode
          <6>2. x[k] = w[k] /\ (k # 1 => x[k - 1] = w[k - 1])
            BY <3>4, <5>2
          <6> QED BY <6>1, <6>2
        <5> QED BY <3>4, <5>1, <5>2
      <4>2. ASSUME NEW s \in Streams \ {entry}, NEW k \in DOMAIN wire'[s]
            PROVE  wire'[s][k].base = IF k = 1 THEN None ELSE wire'[s][k - 1].object
        BY <1>1, <3>2 DEF DeltasDecode
      <4> QED BY <4>1, <4>2 DEF DeltasDecode
    <3> QED BY <1>1, <3>5, <3>6, <3>7 DEF DeltaInv
  <2> QED BY <1>5, <2>2, <2>3 DEF SendNextObject
<1>6. CASE StreamCreated(i)
  <2> DEFINE s == at[i]
             r == [object |-> i, base |-> None]
  <2>1. s \in Streams /\ pc[i] = "creating"
    BY <1>1, <1>6 DEF StreamCreated, TypeInv, CallsHaveStreams, Busy
  <2>2. CASE Finish(i) /\ UNCHANGED <<wire, previous, entry>>
    <3>1. /\ pc'[i] \notin {"first", "writing"} /\ pc[i] # "writing"
          /\ \A j \in Objects \ {i} : pc'[j] = pc[j] /\ at'[j] = at[j]
      BY <1>1, <2>1, <2>2 DEF Finish, TypeInv, TypeOK
    <3> QED BY <1>1, <2>2, <3>1, SendQuietly
  <2>3. CASE /\ wire' = [wire EXCEPT ![s] = <<[object |-> i, base |-> None]>>]
             /\ previous' = [previous EXCEPT ![s] = i]
             /\ entry' = s
             /\ pc' = [pc EXCEPT ![i] = "first"]
             /\ UNCHANGED at
    <3>1. /\ pc'[i] = "first" /\ at'[i] = s /\ previous'[s] = i
          /\ \A j \in Objects \ {i} : pc'[j] = pc[j] /\ pc[j] \in {"idle", "done"}
      <4>1. \A j \in Objects \ {i} : pc[j] \in {"idle", "done"}
        BY <1>1, <2>1, OneAtATime
      <4>2. pc'[i] = "first" /\ \A j \in Objects \ {i} : pc'[j] = pc[j]
        BY <1>1, <2>3 DEF TypeInv, TypeOK
      <4>3. at'[i] = s
        BY <2>3
      <4>4. previous'[s] = i
        BY <1>1, <2>1, <2>3 DEF TypeInv, TypeOK
      <4> QED BY <4>1, <4>2, <4>3, <4>4
    <3>2. wire'[s] = <<r>> /\ \A u \in Streams \ {s} : wire'[u] = wire[u]
      BY <1>1, <2>1, <2>3 DEF TypeInv, TypeOK
    <3>3. InTurn'
      BY <1>1, <3>1, MoveInTurn
    <3>4. /\ wire'[s] # <<>> /\ Len(wire'[s]) = 1 /\ DOMAIN wire'[s] = {1}
          /\ wire'[s][1].object = i /\ wire'[s][1].base = None
      BY <3>2
    <3> HIDE DEF s, r
    <3>5. WireSound'
      BY <2>3, <3>1, <3>4 DEF WireSound, LastOn
    <3>6. DeltasDecode'
      BY <1>1, <2>1, <3>2, <3>4 DEF DeltasDecode
    <3> QED BY <1>1, <3>3, <3>5, <3>6 DEF DeltaInv
  <2> QED BY <1>6, <2>2, <2>3 DEF StreamCreated
<1>7. CASE ObjectWritten(i)
  <2> DEFINE s == at[i]
  <2>1. /\ s \in Streams /\ pc[i] \in {"first", "writing"}
        /\ previous' = [previous EXCEPT ![s] = i] /\ pc' = [pc EXCEPT ![i] = "done"]
        /\ at' = [at EXCEPT ![i] = None]
        /\ UNCHANGED <<entry, wire>>
    BY <1>1, <1>7 DEF ObjectWritten, Finish, TypeInv, CallsHaveStreams, Busy
  <2>2. /\ pc'[i] = "done" /\ previous'[s] = i
        /\ \A j \in Objects \ {i} : pc'[j] = pc[j] /\ pc[j] \in {"idle", "done"}
        /\ \A u \in Streams \ {s} : previous'[u] = previous[u]
    <3>1. \A j \in Objects \ {i} : pc[j] \in {"idle", "done"}
      BY <1>1, OneAtATime
    <3> HIDE DEF s
    <3> QED BY <1>1, <2>1, <3>1 DEF TypeInv, TypeOK
  <2>3. InTurn'
    BY <1>1, <2>2, MoveInTurn
  <2>4. DeltasDecode'
    BY <1>1, <2>1 DEF DeltasDecode
  <2>5. ASSUME entry # None
        PROVE  wire[entry] # <<>> /\ LastOn(entry) = previous'[entry]
    <3>1. CASE entry = s
      BY <1>1, <2>1, <2>2, <3>1 DEF WireSound
    <3>2. CASE entry # s
      <4>1. /\ previous'[entry] = previous[entry]
            /\ ~ \E j \in Objects : pc[j] = "writing" /\ at[j] = entry
        BY <1>1, <2>2, <2>5, <3>2 DEF TypeInv, TypeOK
      <4> QED BY <1>1, <2>5, <4>1 DEF WireSound
    <3> QED BY <3>1, <3>2
  <2>6. WireSound'
    BY <2>1, <2>2, <2>5 DEF WireSound, LastOn
  <2> QED BY <1>1, <2>3, <2>4, <2>6 DEF DeltaInv
<1> QED BY <1>2, <1>3, <1>4, <1>5, <1>6, <1>7

\* A step of the transport, the peer or unpublish() writes nothing.
LEMMA OtherKeepsDeltas ==
  ASSUME DeltaInv,
         \/ LastGroupClosed \/ PublishDone \/ Unpublish
         \/ \E s \in Streams : FinCommitted(s) \/ ResetDone(s) \/ FinTimesOut(s) \/ PeerStops(s)
         \/ PeerPauses \/ PeerResumes \/ PeerCancels
  PROVE  DeltaInv'
<1>1. TypeInv' /\ InTurn
  BY OtherType DEF DeltaInv
<1>2. UNCHANGED <<wire, previous, pc, at>> /\ (entry' = entry \/ entry' = None)
  BY DEF LastGroupClosed, PublishDone, Unpublish, FinCommitted, ResetDone, FinTimesOut, PeerStops,
         PeerPauses, PeerResumes, PeerCancels, DropEntry, transport, calls
<1>3. InTurn'
  BY <1>1, <1>2 DEF InTurn
<1>4. WireSound' /\ DeltasDecode'
  BY <1>2, QuietStep
<1> QED BY <1>1, <1>3, <1>4 DEF DeltaInv

\* When the sends of a track wait for each other, what is on the wire decodes,
\* whatever the peer, the transport, timeouts and unpublish() do meanwhile.
THEOREM DeltasCorrect ==
  ASSUME Serialized
  PROVE  Spec => []DeltasDecode
<1>1. ASSUME Init
      PROVE  DeltaInv
  <2>1. InTurn /\ WireSound /\ DeltasDecode
    <3>1. \A i \in Objects : pc[i] = "idle"
      BY <1>1 DEF Init
    <3>2. entry = None /\ \A s \in Streams : wire[s] = <<>>
      BY <1>1 DEF Init
    <3>3. DeltasDecode
      BY <3>2 DEF DeltasDecode
    <3> QED BY <3>1, <3>2, <3>3 DEF InTurn, WireSound
  <2> QED BY <1>1, <2>1, InitType DEF DeltaInv
<1>2. ASSUME DeltaInv, [Next]_vars
      PROVE  DeltaInv'
  <2>1. CASE UNCHANGED vars
    <3>1. TypeInv' /\ InTurn
      BY <1>2, NextType DEF DeltaInv
    <3>2. UNCHANGED <<wire, previous, pc, at, entry>>
      BY <2>1 DEF vars, transport, calls
    <3>3. InTurn'
      BY <3>1, <3>2 DEF InTurn
    <3>4. WireSound' /\ DeltasDecode'
      BY <1>2, <3>2, QuietStep
    <3> QED BY <3>1, <3>3, <3>4 DEF DeltaInv
  <2>2. CASE Next
    BY <1>2, <2>2, SendKeepsDeltas, OtherKeepsDeltas DEF Next, Local, Application
  <2> QED BY <1>2, <2>1, <2>2
<1>3. DeltaInv => DeltasDecode
  BY DEF DeltaInv
<1> QED BY <1>1, <1>2, <1>3, PTL DEF Spec

-----------------------------------------------------------------------------
(* The streams of the track, when sends wait for each other.               *)

\* A stream that was open and is not any more.
Past == {"closing", "fin", "reset", "stopped"}

\* Streams are opened in the order of their numbers, each for a group, and carry
\* something once they are open.
Tables ==
  /\ \A s, u \in Streams : s < u /\ stream[u] # "none" => stream[s] # "none"
  /\ \A s \in Streams : group[s] = None <=> stream[s] = "none"
  /\ \A s \in Streams : s \in first => stream[s] # "none"
  /\ \A s \in Streams : wire[s] # <<>> <=> stream[s] \in {"open"} \cup Past

\* What the continuation of an await finds of the stream it is about.
CallsSettled ==
  /\ \A i \in Objects : pc[i] = "creating" =>
       stream[at[i]] = "creating" /\ group[at[i]] = GroupOf[i]
  /\ \A i \in Objects : pc[i] \in {"closing", "closed", "refused", "stopped"} =>
       stream[at[i]] \in Past
  /\ \A s \in Streams : stream[s] = "creating" =>
       \E i \in Objects : pc[i] = "creating" /\ at[i] = s
  /\ ending \in {"closing", "closed"} => endingAt \in Streams /\ stream[endingAt] \in Past
  /\ \A s \in Streams : resets[s] > 0 => Gone(s)

SendStep(i) ==
  \/ FilterEnds(i) \/ SkipObject(i) \/ SendFirst(i) \/ SendNextGroup(i) \/ SendNextObject(i)
  \/ GroupClosed(i) \/ StreamCreated(i) \/ StreamRefused(i) \/ ObjectWritten(i)
  \/ WriteFails(i) \/ FilterEnded(i)

OtherStep ==
  \/ LastGroupClosed \/ PublishDone \/ Unpublish
  \/ \E s \in Streams : FinCommitted(s) \/ ResetDone(s) \/ FinTimesOut(s) \/ PeerStops(s)
  \/ PeerPauses \/ PeerResumes \/ PeerCancels

\* Streams change only by being closed, finished, reset or stopped.
Retired ==
  /\ \A s \in Streams : \/ stream'[s] = stream[s]
                        \/ stream[s] \in {"open", "closing"} /\ stream'[s] \in Past
  /\ UNCHANGED <<group, first>>
  /\ \A s \in Streams : wire'[s] # <<>> <=> wire[s] # <<>>

\* A stream is opened for object i.
Opens(i, s) ==
  /\ stream[s] = "none" /\ \A u \in Streams : u < s => stream[u] # "none"
  /\ stream'[s] = "creating" /\ \A u \in Streams \ {s} : stream'[u] = stream[u]
  /\ group'[s] = GroupOf[i] /\ \A u \in Streams \ {s} : group'[u] = group[u]
  /\ first' = IF published /\ lastGroup = GroupOf[i] THEN first ELSE first \cup {s}
  /\ pc'[i] = "creating" /\ at'[i] = s /\ wire' = wire

LEMMA StartOpenEffects ==
  ASSUME TypeInv, NEW i \in Objects, NEW count, StartOpen(i, count), wire' = wire
  PROVE  \/ Retired /\ UNCHANGED stream /\ pc'[i] = "done"
         \/ \E s \in Streams : Opens(i, s)
<1>1. CASE count >= MaxOpenStreams
  <2>1. Finish(i) /\ UNCHANGED <<stream, group, first>>
    BY <1>1 DEF StartOpen
  <2> QED BY <2>1 DEF Finish, Retired, TypeInv, TypeOK
<1>2. CASE ~(count >= MaxOpenStreams)
  <2>1. PICK s \in Streams :
          /\ stream[s] = "none" /\ \A u \in Streams : u < s => stream[u] # "none"
          /\ stream' = [stream EXCEPT ![s] = "creating"]
          /\ group' = [group EXCEPT ![s] = GroupOf[i]]
          /\ first' = IF published /\ lastGroup = GroupOf[i] THEN first ELSE first \cup {s}
          /\ pc' = [pc EXCEPT ![i] = "creating"]
          /\ at' = [at EXCEPT ![i] = s]
    BY <1>2 DEF StartOpen
  <2>2. Opens(i, s)
    BY <2>1 DEF Opens, TypeInv, TypeOK
  <2> QED BY <2>2
<1> QED BY <1>1, <1>2

\* While object i is sent, no other call moves.
LEMMA SendAlone ==
  ASSUME Serialized, DeltaInv, NEW i \in Objects, SendStep(i)
  PROVE  /\ pc[i] # "done"
         /\ \A j \in Objects \ {i} : /\ pc[j] = IF j < i THEN "done" ELSE "idle"
                                     /\ pc'[j] = pc[j] /\ at'[j] = at[j]
<1>1. /\ TypeInv /\ InTurn
      /\ MaySend(i) \/ pc[i] \notin {"idle", "done"}
  <2>1. MaySend(i) \/ pc[i] \notin {"idle", "done"}
    BY DEF SendStep, FilterEnds, SkipObject, SendFirst, SendNextGroup, SendNextObject, Wanted,
           GroupClosed, StreamCreated, StreamRefused, ObjectWritten, WriteFails, FilterEnded
  <2> QED BY <2>1 DEF DeltaInv
<1>2. pc[i] # "done"
  BY <1>1 DEF MaySend
<1>3. \A j \in Objects \ {i} : pc[j] = IF j < i THEN "done" ELSE "idle"
  BY <1>1, OneAtATime
<1>4. \A j \in Objects \ {i} : pc'[j] = pc[j] /\ at'[j] = at[j]
  <2>1. CASE \/ FilterEnds(i) \/ SkipObject(i) \/ SendNextGroup(i) \/ SendNextObject(i)
             \/ StreamCreated(i) \/ StreamRefused(i) \/ ObjectWritten(i) \/ FilterEnded(i)
    <3>1. /\ \E v : pc' = [pc EXCEPT ![i] = v]
          /\ \E s : at' = at \/ at' = [at EXCEPT ![i] = s]
      BY <2>1 DEF FilterEnds, SkipObject, SendNextGroup, SendNextObject, StreamCreated,
                  StreamRefused, ObjectWritten, FilterEnded, Finish
    <3> QED BY <1>1, <3>1 DEF TypeInv, TypeOK
  <2>2. CASE SendFirst(i) \/ GroupClosed(i) \/ WriteFails(i)
    <3>1. Finish(i) \/ \E count : StartOpen(i, count)
      BY <2>2 DEF SendFirst, GroupClosed, WriteFails
    <3>2. CASE Finish(i)
      BY <1>1, <3>2 DEF Finish, TypeInv, TypeOK
    <3> QED BY <1>1, <3>1, <3>2, StartOpenMoves
  <2> QED BY <2>1, <2>2 DEF SendStep
<1> QED BY <1>2, <1>3, <1>4

\* The track's entry is a stream that was opened.
LEMMA EntryOpened ==
  ASSUME DeltaInv, Tables, entry # None
  PROVE  entry \in Streams /\ stream[entry] \in {"open"} \cup Past
BY DEF DeltaInv, TypeInv, TypeOK, WireSound, Tables

\* What a step of sendObject() does to the streams.
LEMMA SendEffects ==
  ASSUME Serialized, DeltaInv, Tables, NEW i \in Objects, SendStep(i)
  PROVE  \/ Retired /\ pc[i] # "creating" /\ pc'[i] # "creating"
         \/ pc[i] # "creating" /\ \E s \in Streams : Opens(i, s)
         \/ /\ pc[i] = "creating" /\ pc'[i] \in {"first", "done"}
            /\ at[i] \in Streams /\ stream'[at[i]] \in {"open", "discarded", "refused"}
            /\ \A u \in Streams \ {at[i]} : stream'[u] = stream[u] /\ wire'[u] = wire[u]
            /\ stream'[at[i]] = "open" => wire'[at[i]] # <<>> /\ entry' = at[i]
            /\ stream'[at[i]] # "open" => wire' = wire
            /\ UNCHANGED <<group, first>>
<1>1. TypeInv
  BY DEF DeltaInv
<1>2. CASE \/ FilterEnds(i) \/ SkipObject(i) \/ ObjectWritten(i) \/ FilterEnded(i)
  <2>1. /\ UNCHANGED <<stream, group, first, wire>> /\ pc[i] # "creating"
        /\ \E v \in {"ending", "done"} : pc' = [pc EXCEPT ![i] = v]
    BY <1>2 DEF FilterEnds, SkipObject, ObjectWritten, FilterEnded, Finish, MaySend, transport
  <2> QED BY <1>1, <2>1 DEF Retired, TypeInv, TypeOK
<1>3. CASE SendNextGroup(i)
  <2>1. /\ entry \in Streams /\ stream[entry] \in {"open"} \cup Past
        /\ Close(entry) /\ UNCHANGED <<group, first, wire>> /\ pc[i] = "idle"
        /\ \E v \in {"closing", "closed"} : pc' = [pc EXCEPT ![i] = v]
    BY <1>3, EntryOpened DEF SendNextGroup, Wanted, MaySend
  <2>2. Retired
    BY <1>1, <2>1 DEF Retired, Close, TypeInv, TypeOK, Past
  <2> QED BY <1>1, <2>1, <2>2 DEF TypeInv, TypeOK
<1>4. CASE SendNextObject(i)
  <2>1. /\ entry \in Streams /\ UNCHANGED <<stream, group, first>> /\ pc[i] = "idle"
        /\ \E v \in {"writing", "stopped", "refused"} : pc' = [pc EXCEPT ![i] = v]
        /\ wire' = wire \/ wire' = [wire EXCEPT ![entry] = Append(@, [object |-> i, base |-> previous[entry]])]
    BY <1>4, EntryOpened DEF SendNextObject, Wanted, MaySend
  <2>2. \A s \in Streams : wire'[s] # <<>> <=> wire[s] # <<>>
    <3>1. wire[entry] # <<>> /\ wire[entry] \in Seq([object : Objects, base : Objects \cup {None}])
      BY <1>1, <1>4, <2>1 DEF DeltaInv, WireSound, SendNextObject, TypeInv, TypeOK
    <3>2. \A r : Append(wire[entry], r) # <<>>
      BY <3>1
    <3> QED BY <1>1, <2>1, <3>1, <3>2 DEF TypeInv, TypeOK
  <2> QED BY <1>1, <2>1, <2>2 DEF Retired, TypeInv, TypeOK
<1>5. CASE SendFirst(i) \/ GroupClosed(i) \/ WriteFails(i)
  <2>1. /\ wire' = wire /\ pc[i] # "creating"
        /\ \/ Finish(i) /\ UNCHANGED <<stream, group, first>>
           \/ \E count : StartOpen(i, count)
    BY <1>5 DEF SendFirst, GroupClosed, WriteFails, Wanted, MaySend
  <2>2. CASE Finish(i) /\ UNCHANGED <<stream, group, first>>
    BY <1>1, <2>1, <2>2 DEF Finish, Retired, TypeInv, TypeOK
  <2> QED BY <1>1, <2>1, <2>2, StartOpenEffects
<1>6. CASE StreamCreated(i) \/ StreamRefused(i)
  <2> DEFINE s == at[i]
  <2>1. /\ s \in Streams /\ pc[i] = "creating"
        /\ UNCHANGED <<group, first>>
        /\ \E v \in {"first", "done"} : pc' = [pc EXCEPT ![i] = v]
    BY <1>1, <1>6 DEF StreamCreated, StreamRefused, Finish, TypeInv, CallsHaveStreams, Busy
  <2>2. \/ /\ stream' = [stream EXCEPT ![s] = "open"] /\ entry' = s
           /\ wire' = [wire EXCEPT ![s] = <<[object |-> i, base |-> None]>>]
        \/ \E v \in {"discarded", "refused"} : stream' = [stream EXCEPT ![s] = v] /\ wire' = wire
    BY <1>6 DEF StreamCreated, StreamRefused
  <2> HIDE DEF s
  <2>4. pc'[i] \in {"first", "done"}
    BY <1>1, <2>1 DEF TypeInv, TypeOK
  <2>5. CASE /\ stream' = [stream EXCEPT ![s] = "open"] /\ entry' = s
             /\ wire' = [wire EXCEPT ![s] = <<[object |-> i, base |-> None]>>]
    <3>1. stream'[s] = "open" /\ \A u \in Streams \ {s} : stream'[u] = stream[u]
      BY <1>1, <2>1, <2>5 DEF TypeInv, TypeOK
    <3>2. \A u \in Streams \ {s} : wire'[u] = wire[u]
      BY <1>1, <2>1, <2>5 DEF TypeInv, TypeOK
    <3>3. wire'[s] # <<>>
      <4>1. wire'[s] = <<[object |-> i, base |-> None]>>
        BY <1>1, <2>1, <2>5 DEF TypeInv, TypeOK
      <4> QED BY <4>1
    <3> QED BY <2>1, <2>4, <2>5, <3>1, <3>2, <3>3 DEF s
  <2>6. CASE \E v \in {"discarded", "refused"} : stream' = [stream EXCEPT ![s] = v] /\ wire' = wire
    <3>1. stream'[s] \in {"discarded", "refused"} /\ \A u \in Streams \ {s} : stream'[u] = stream[u]
      BY <1>1, <2>1, <2>6 DEF TypeInv, TypeOK
    <3> QED BY <2>1, <2>4, <2>6, <3>1 DEF s
  <2> QED BY <2>2, <2>5, <2>6
<1> QED BY <1>2, <1>3, <1>4, <1>5, <1>6 DEF SendStep

\* And what the others do.
LEMMA OtherEffects ==
  ASSUME DeltaInv, Tables, OtherStep
  PROVE  Retired /\ UNCHANGED <<pc, at, wire, opened, lastGroup, group>>
<1>1. TypeInv
  BY DEF DeltaInv
<1>2. CASE LastGroupClosed \/ PublishDone \/ PeerResumes \/ \E s \in Streams : ResetDone(s)
  <2>1. UNCHANGED <<stream, group, first, wire, pc, at, opened, lastGroup>>
    BY <1>2 DEF LastGroupClosed, PublishDone, PeerResumes, ResetDone, transport, calls, publication
  <2> QED BY <2>1 DEF Retired
<1>3. CASE \E s \in Streams : FinCommitted(s) \/ FinTimesOut(s) \/ PeerStops(s)
  <2>1. PICK s \in Streams : FinCommitted(s) \/ FinTimesOut(s) \/ PeerStops(s)
    BY <1>3
  <2>2. /\ stream[s] \in {"open", "closing"}
        /\ \E v \in Past : stream' = [stream EXCEPT ![s] = v]
        /\ UNCHANGED <<group, first, wire, pc, at, opened, lastGroup>>
    BY <2>1 DEF FinCommitted, FinTimesOut, PeerStops, Past, calls, publication
  <2> QED BY <1>1, <2>2 DEF Retired, TypeInv, TypeOK
<1>4. CASE PeerPauses \/ PeerCancels
  <2>1. /\ UNCHANGED <<group, first, wire, pc, at, opened, lastGroup>>
        /\ \/ UNCHANGED stream
           \/ /\ entry # None /\ ~Gone(entry)
              /\ stream' = [stream EXCEPT ![entry] = "reset"]
    BY <1>4 DEF PeerPauses, PeerCancels, StartReset, calls
  <2>2. CASE UNCHANGED stream
    BY <2>1, <2>2 DEF Retired
  <2>3. CASE entry # None /\ ~Gone(entry) /\ stream' = [stream EXCEPT ![entry] = "reset"]
    <3>1. entry \in Streams /\ stream[entry] \in {"open", "closing"}
      BY <2>3, EntryOpened DEF Gone, Past
    <3> QED BY <1>1, <2>1, <2>3, <3>1 DEF Retired, TypeInv, TypeOK, Past
  <2> QED BY <2>1, <2>2, <2>3
<1>5. CASE Unpublish
  <2>1. /\ UNCHANGED <<group, first, wire, pc, at, opened, lastGroup>>
        /\ \/ UNCHANGED stream
           \/ /\ entry # None /\ stream[entry] = "open"
              /\ stream' = [stream EXCEPT ![entry] = "closing"]
    BY <1>5 DEF Unpublish, Close, calls, publication
  <2>2. CASE UNCHANGED stream
    BY <2>1, <2>2 DEF Retired
  <2>3. CASE entry # None /\ stream[entry] = "open" /\ stream' = [stream EXCEPT ![entry] = "closing"]
    <3>1. entry \in Streams
      BY <2>3, EntryOpened
    <3> QED BY <1>1, <2>1, <2>3, <3>1 DEF Retired, TypeInv, TypeOK, Past
  <2> QED BY <2>1, <2>2, <2>3
<1> QED BY <1>2, <1>3, <1>4, <1>5 DEF OtherStep

\* An open subgroup is the track's entry, unless something went wrong.
Calm == faults \cap {"clobbered", "late"} = {}
OpenIsEntry == Calm => \A s \in Streams : stream[s] = "open" => entry = s

\* The entry is dropped, and no open stream with it.
Drops == entry' = None /\ (Calm' /\ entry # None => stream[entry] # "open")

\* What a step of sendObject() does to the entry.
LEMMA SendEntry ==
  ASSUME DeltaInv, CallsSettled, NEW i \in Objects, SendStep(i)
  PROVE  /\ faults \subseteq faults'
         /\ UNCHANGED <<ending, endingAt, resets>>
         /\ \/ entry' = entry
            \/ Drops
            \/ /\ pc[i] = "creating" /\ entry' = at[i]
               /\ Calm' => entry \in {None, at[i]} /\ published /\ ending = "no"
<1>1. TypeInv
  BY DEF DeltaInv
<1>2. CASE \/ FilterEnds(i) \/ SkipObject(i) \/ SendNextGroup(i) \/ SendNextObject(i)
           \/ ObjectWritten(i) \/ FilterEnded(i)
  BY <1>2 DEF FilterEnds, SkipObject, SendNextGroup, SendNextObject, ObjectWritten, FilterEnded, others
<1>3. CASE SendFirst(i)
  BY <1>3 DEF SendFirst, others
<1>4. CASE GroupClosed(i) \/ WriteFails(i)
  <2>1. /\ entry' = None /\ faults \subseteq faults' /\ Clobbers(at[i]) \subseteq faults'
        /\ UNCHANGED <<ending, endingAt, resets>>
    BY <1>4 DEF GroupClosed, WriteFails, DropEntry, others
  <2>2. stream[at[i]] # "open"
    BY <1>4 DEF GroupClosed, WriteFails, CallsSettled, Gone, Past
  <2>3. Drops
    BY <2>1, <2>2 DEF Drops, Clobbers, Calm
  <2> QED BY <2>1, <2>3
<1>5. CASE StreamRefused(i)
  <2>1. /\ entry' = None /\ faults \subseteq faults' /\ Clobbers(at[i]) \subseteq faults'
        /\ UNCHANGED <<ending, endingAt, resets>>
    BY <1>5 DEF StreamRefused, DropEntry, others
  <2>2. stream[at[i]] # "open"
    BY <1>5 DEF StreamRefused, CallsSettled
  <2>3. Drops
    BY <2>1, <2>2 DEF Drops, Clobbers, Calm
  <2> QED BY <2>1, <2>3
<1>6. CASE StreamCreated(i)
  <2>1. /\ pc[i] = "creating" /\ faults \subseteq faults' /\ UNCHANGED <<ending, endingAt, resets>>
        /\ \/ entry' = entry
           \/ entry' = at[i] /\ faults' = faults \cup Clobbers(at[i]) \cup Late
    BY <1>6 DEF StreamCreated, others
  <2>2. ASSUME Calm', faults' = faults \cup Clobbers(at[i]) \cup Late
        PROVE  entry \in {None, at[i]} /\ published /\ ending = "no"
    BY <2>2 DEF Calm, Clobbers, Late
  <2> QED BY <2>1, <2>2
<1> QED BY <1>2, <1>3, <1>4, <1>5, <1>6 DEF SendStep

\* Retiring streams keeps the tables.
LEMMA RetiredTables ==
  ASSUME TypeInv, TypeInv', Tables, Retired
  PROVE  Tables'
<1>1. \A s \in Streams : /\ stream'[s] = "none" <=> stream[s] = "none"
                         /\ stream'[s] \in {"open"} \cup Past <=> stream[s] \in {"open"} \cup Past
                         /\ wire'[s] # <<>> <=> wire[s] # <<>>
  BY DEF Retired, Past
<1>2. UNCHANGED <<group, first>>
  BY DEF Retired
<1> QED BY <1>1, <1>2 DEF Tables

\* So does every step.
LEMMA TablesKept ==
  ASSUME Serialized, DeltaInv, TypeInv', Tables, CallsSettled,
         OtherStep \/ \E i \in Objects : SendStep(i)
  PROVE  Tables'
<1>1. TypeInv
  BY DEF DeltaInv
<1>2. CASE OtherStep
  BY <1>1, <1>2, OtherEffects, RetiredTables
<1>3. ASSUME NEW i \in Objects, SendStep(i)
      PROVE  Tables'
  <2>1. CASE Retired
    BY <1>1, <2>1, RetiredTables
  <2>2. ASSUME NEW s \in Streams, Opens(i, s)
        PROVE  Tables'
    <3>1. /\ stream[s] = "none" /\ stream'[s] = "creating" /\ \A u \in Streams : u < s => stream[u] # "none"
          /\ \A u \in Streams \ {s} : stream'[u] = stream[u] /\ group'[u] = group[u]
          /\ group'[s] # None /\ wire' = wire
          /\ first' = first \/ first' = first \cup {s}
      BY <2>2, ConstantTypes DEF Opens
    <3>2. \A a, b \in Streams : a < b /\ stream'[b] # "none" => stream'[a] # "none"
      <4> SUFFICES ASSUME NEW a \in Streams, NEW b \in Streams, a < b, stream'[b] # "none", a # s
                   PROVE  stream[a] # "none"
        BY <3>1
      <4>1. CASE b = s
        BY <3>1, <4>1
      <4>2. CASE b # s
        BY <3>1, <4>2 DEF Tables
      <4> QED BY <4>1, <4>2
    <3>3. \A u \in Streams : group'[u] = None <=> stream'[u] = "none"
      BY <3>1 DEF Tables
    <3>4. \A u \in Streams : u \in first' => stream'[u] # "none"
      BY <3>1 DEF Tables
    <3>5. \A u \in Streams : wire'[u] # <<>> <=> stream'[u] \in {"open"} \cup Past
      <4>1. wire[s] = <<>>
        BY <3>1 DEF Tables, Past
      <4> QED BY <3>1, <4>1 DEF Tables, Past
    <3> QED BY <3>2, <3>3, <3>4, <3>5 DEF Tables
  <2>3. ASSUME pc[i] = "creating", at[i] \in Streams,
               stream'[at[i]] \in {"open", "discarded", "refused"},
               \A u \in Streams \ {at[i]} : stream'[u] = stream[u] /\ wire'[u] = wire[u],
               stream'[at[i]] = "open" => wire'[at[i]] # <<>>,
               stream'[at[i]] # "open" => wire' = wire,
               UNCHANGED <<group, first>>
        PROVE  Tables'
    <3> DEFINE s == at[i]
    <3>1. s \in Streams /\ stream[s] = "creating" /\ wire[s] = <<>>
      BY <2>3 DEF CallsSettled, Tables, Past
    <3>2. \A u \in Streams : stream'[u] = "none" <=> stream[u] = "none"
      BY <2>3, <3>1
    <3>3. \A u \in Streams : wire'[u] # <<>> <=> stream'[u] \in {"open"} \cup Past
      <4> SUFFICES ASSUME NEW u \in Streams
                   PROVE  wire'[u] # <<>> <=> stream'[u] \in {"open"} \cup Past
        OBVIOUS
      <4>1. CASE u = s
        BY <2>3, <3>1, <4>1 DEF Past
      <4>2. CASE u # s
        BY <2>3, <4>2 DEF Tables
      <4> QED BY <4>1, <4>2
    <3> QED BY <2>3, <3>2, <3>3 DEF Tables
  <2> QED BY <1>3, <2>1, <2>2, <2>3, SendEffects
<1> QED BY <1>2, <1>3

\* A call that ends a stream, or finds it ended.
LEMMA SendEnds ==
  ASSUME DeltaInv, Tables, CallsSettled, NEW i \in Objects, SendStep(i),
         pc'[i] \in {"closing", "closed", "refused", "stopped"}
  PROVE  stream'[at'[i]] \in Past
<1>1. TypeInv
  BY DEF DeltaInv
<1>2. CASE SendNextGroup(i)
  <2>1. /\ entry \in Streams /\ stream[entry] \in {"open"} \cup Past
        /\ Close(entry) /\ at' = [at EXCEPT ![i] = entry]
    BY <1>2, EntryOpened DEF SendNextGroup
  <2>2. at'[i] = entry /\ stream'[entry] \in Past
    BY <1>1, <2>1 DEF Close, Past, TypeInv, TypeOK
  <2> QED BY <2>2
<1>3. CASE SendNextObject(i)
  <2>1. /\ entry \in Streams /\ stream[entry] \in {"open"} \cup Past
        /\ UNCHANGED stream /\ at' = [at EXCEPT ![i] = entry]
        /\ stream[entry] # "open" \/ pc' = [pc EXCEPT ![i] = "writing"]
    BY <1>3, EntryOpened DEF SendNextObject
  <2>2. at'[i] = entry /\ stream[entry] # "open"
    BY <1>1, <2>1 DEF TypeInv, TypeOK
  <2> QED BY <2>1, <2>2
<1>4. CASE ~SendNextGroup(i) /\ ~SendNextObject(i)
  <2>1. \E v \in {"ending", "done", "first", "creating"} : pc'[i] = v
    <3>1. CASE SendFirst(i) \/ GroupClosed(i) \/ WriteFails(i)
      <4>1. Finish(i) \/ \E count : StartOpen(i, count)
        BY <3>1 DEF SendFirst, GroupClosed, WriteFails
      <4>2. CASE Finish(i)
        BY <1>1, <4>2 DEF Finish, TypeInv, TypeOK
      <4> QED BY <1>1, <4>1, <4>2, StartOpenMoves
    <3>2. CASE \/ FilterEnds(i) \/ SkipObject(i) \/ StreamCreated(i) \/ StreamRefused(i)
               \/ ObjectWritten(i) \/ FilterEnded(i)
      <4>1. \E v \in {"ending", "done", "first"} : pc' = [pc EXCEPT ![i] = v]
        BY <3>2 DEF FilterEnds, SkipObject, StreamCreated, StreamRefused, ObjectWritten, FilterEnded,
                    Finish
      <4> QED BY <1>1, <4>1 DEF TypeInv, TypeOK
    <3> QED BY <1>4, <3>1, <3>2 DEF SendStep
  <2> QED BY <2>1
<1> QED BY <1>2, <1>3, <1>4

\* A stream that was retired stays so, whatever sendObject() does.
LEMMA SendKeepsPast ==
  ASSUME Serialized, DeltaInv, Tables, CallsSettled, NEW i \in Objects, SendStep(i), NEW s \in Streams
  PROVE  /\ stream[s] \in Past => stream'[s] \in Past
         /\ Gone(s) => Gone(s)'
<1>1. CASE Retired
  BY <1>1 DEF Retired, Past, Gone
<1>2. CASE \E u \in Streams : Opens(i, u)
  BY <1>2 DEF Opens, Past, Gone
<1>3. CASE pc[i] = "creating" /\ \A u \in Streams \ {at[i]} : stream'[u] = stream[u]
  <2>1. stream[at[i]] = "creating"
    BY <1>3 DEF CallsSettled
  <2> QED BY <1>3, <2>1 DEF Past, Gone
<1> QED BY <1>1, <1>2, <1>3, SendEffects

\* What the continuations rely on is kept by every step.
LEMMA SendKeepsCalls ==
  ASSUME Serialized, DeltaInv, TypeInv', Tables, CallsSettled, NEW i \in Objects, SendStep(i)
  PROVE  CallsSettled'
<1>1. \A j \in Objects \ {i} : pc'[j] \in {"idle", "done"} /\ pc[j] \in {"idle", "done"}
  BY SendAlone
<1>2. ASSUME NEW j \in Objects, pc'[j] \in {"closing", "closed", "refused", "stopped"}
      PROVE  stream'[at'[j]] \in Past
  BY <1>1, <1>2, SendEnds
<1>3. /\ pc'[i] = "creating" => stream'[at'[i]] = "creating" /\ group'[at'[i]] = GroupOf[i]
      /\ \A s \in Streams : stream'[s] = "creating" => pc'[i] = "creating" /\ at'[i] = s
  <2>1. CASE Retired /\ pc[i] # "creating" /\ pc'[i] # "creating"
    <3>1. \A s \in Streams : stream'[s] # "creating"
      BY <1>1, <2>1 DEF Retired, CallsSettled, Past
    <3> QED BY <2>1, <3>1
  <2>2. ASSUME pc[i] # "creating", NEW s \in Streams, Opens(i, s)
        PROVE  /\ pc'[i] = "creating" => stream'[at'[i]] = "creating" /\ group'[at'[i]] = GroupOf[i]
               /\ \A u \in Streams : stream'[u] = "creating" => pc'[i] = "creating" /\ at'[i] = u
    <3>1. \A u \in Streams : stream[u] # "creating"
      BY <1>1, <2>2 DEF CallsSettled
    <3> QED BY <2>2, <3>1 DEF Opens
  <2>3. CASE /\ pc[i] = "creating" /\ pc'[i] \in {"first", "done"}
             /\ stream'[at[i]] \in {"open", "discarded", "refused"}
             /\ \A u \in Streams \ {at[i]} : stream'[u] = stream[u]
    <3>1. \A s \in Streams : stream'[s] # "creating"
      BY <1>1, <2>3 DEF CallsSettled
    <3> QED BY <2>3, <3>1
  <2> QED BY <2>1, <2>2, <2>3, SendEffects
<1>4. ending' \in {"closing", "closed"} => endingAt' \in Streams /\ stream'[endingAt'] \in Past
  BY SendEntry, SendKeepsPast DEF CallsSettled
<1>5. \A s \in Streams : resets'[s] > 0 => Gone(s)'
  BY SendEntry, SendKeepsPast DEF CallsSettled
<1> QED BY <1>1, <1>2, <1>3, <1>4, <1>5 DEF CallsSettled

LEMMA OtherKeepsCalls ==
  ASSUME DeltaInv, TypeInv', Tables, CallsSettled, OtherStep
  PROVE  CallsSettled'
<1>1. TypeInv
  BY DEF DeltaInv
<1>2. Retired /\ UNCHANGED <<pc, at, group>>
  BY OtherEffects
<1>3. \A s \in Streams : /\ stream[s] \in Past => stream'[s] \in Past
                         /\ Gone(s) => Gone(s)'
                         /\ stream[s] = "creating" <=> stream'[s] = "creating"
  BY <1>2 DEF Retired, Past, Gone
<1>4. \A i \in Objects : pc[i] \in {"creating", "closing", "closed", "refused", "stopped"} =>
        at[i] \in Streams
  BY <1>1 DEF TypeInv, CallsHaveStreams, Busy
<1>5. ending' \in {"closing", "closed"} => endingAt' \in Streams /\ stream'[endingAt'] \in Past
  <2>1. CASE Unpublish
    <3>1. ASSUME entry # None
          PROVE  endingAt' = entry /\ entry \in Streams /\ stream'[entry] \in Past
      <4>1. entry \in Streams /\ stream[entry] \in {"open"} \cup Past /\ endingAt' = entry /\ Close(entry)
        BY <2>1, <3>1, EntryOpened DEF Unpublish
      <4> QED BY <1>1, <4>1 DEF Close, Past, TypeInv, TypeOK
    <3>2. entry = None => ending' = "writing"
      BY <2>1 DEF Unpublish, StartPublishDone
    <3> QED BY <3>1, <3>2
  <2>2. CASE LastGroupClosed \/ PublishDone
    BY <2>2 DEF LastGroupClosed, PublishDone, StartPublishDone
  <2>3. CASE ~(Unpublish \/ LastGroupClosed \/ PublishDone)
    <3>1. UNCHANGED <<ending, endingAt>>
      BY <2>3 DEF OtherStep, FinCommitted, ResetDone, FinTimesOut, PeerStops, PeerPauses, PeerResumes,
                  PeerCancels, others
    <3> QED BY <1>3, <3>1 DEF CallsSettled
  <2> QED BY <2>1, <2>2, <2>3
<1>6. \A s \in Streams : resets'[s] > 0 => Gone(s)'
  <2>1. CASE PeerPauses \/ PeerCancels
    <3>1. StartReset
      BY <2>1 DEF PeerPauses, PeerCancels
    <3>2. CASE entry = None
      BY <1>3, <3>1, <3>2 DEF StartReset, CallsSettled
    <3>3. CASE entry # None
      <4>1. /\ entry \in Streams /\ resets' = [resets EXCEPT ![entry] = @ + 1]
            /\ stream' = IF Gone(entry) THEN stream ELSE [stream EXCEPT ![entry] = "reset"]
        BY <3>1, <3>3, EntryOpened DEF StartReset
      <4>2. stream'[entry] \in {"fin", "reset", "stopped"}
        <5>1. CASE Gone(entry)
          BY <4>1, <5>1 DEF Gone
        <5>2. CASE ~Gone(entry)
          BY <1>1, <4>1, <5>2 DEF Gone, TypeInv, TypeOK
        <5> QED BY <5>1, <5>2
      <4>3. \A s \in Streams \ {entry} : resets'[s] = resets[s]
        BY <1>1, <4>1 DEF TypeInv, TypeOK
      <4>4. ASSUME NEW s \in Streams, resets'[s] > 0
            PROVE  Gone(s)'
        <5>1. CASE s = entry
          BY <4>2, <5>1 DEF Gone
        <5>2. CASE s # entry
          <6>1. resets[s] > 0
            BY <4>3, <4>4, <5>2
          <6>2. Gone(s)
            BY <6>1 DEF CallsSettled
          <6> QED BY <1>3, <6>2
        <5> QED BY <5>1, <5>2
      <4> QED BY <4>4
    <3> QED BY <3>2, <3>3
  <2>2. ASSUME NEW s \in Streams, ResetDone(s)
        PROVE  \A u \in Streams : resets'[u] > 0 => Gone(u)'
    <3>1. resets[s] > 0 /\ \A u \in Streams \ {s} : resets'[u] = resets[u]
      BY <1>1, <2>2 DEF ResetDone, TypeInv, TypeOK
    <3> QED BY <1>3, <3>1 DEF CallsSettled
  <2>3. CASE ~(PeerPauses \/ PeerCancels \/ \E s \in Streams : ResetDone(s))
    <3>1. UNCHANGED resets
      BY <2>3 DEF OtherStep, LastGroupClosed, PublishDone, Unpublish, FinCommitted, FinTimesOut,
                  PeerStops, PeerResumes, others
    <3> QED BY <1>3, <3>1 DEF CallsSettled
  <2> QED BY <2>1, <2>2, <2>3
<1> QED BY <1>2, <1>3, <1>4, <1>5, <1>6 DEF CallsSettled

\* What the other steps do to the entry.
LEMMA OtherEntry ==
  ASSUME DeltaInv, CallsSettled, OtherStep
  PROVE  /\ faults \subseteq faults'
         /\ entry' = entry \/ Drops
         /\ ending' = "no" => ending = "no" /\ ~Unpublish
<1>1. TypeInv
  BY DEF DeltaInv
<1>2. ASSUME LastGroupClosed
      PROVE  faults \subseteq faults' /\ Drops
  <2>1. entry' = None /\ faults \subseteq faults' /\ ending' = "writing"
    BY <1>2 DEF LastGroupClosed, DropEntry, StartPublishDone
  <2>2. stream[endingAt] \in Past
    BY <1>2 DEF LastGroupClosed, CallsSettled, Past
  <2>3. ASSUME entry \notin {None, endingAt}
        PROVE  "late" \in faults'
    <3>1. StartPublishDone(entry \notin {None, endingAt})
      BY <1>2 DEF LastGroupClosed
    <3>2. \E i \in Objects : pc[i] \notin {"idle", "done"} \/ entry \notin {None, endingAt}
      <4>1. /\ wire[entry] # <<>>
            /\ wire[entry] \in Seq([object : Objects, base : Objects \cup {None}])
        BY <1>1, <2>3 DEF DeltaInv, WireSound, TypeInv, TypeOK
      <4>2. \A T : \A x \in Seq(T) : x # <<>> => x[1] \in T
        OBVIOUS
      <4>3. wire[entry][1] \in [object : Objects, base : Objects \cup {None}]
        BY <4>1, <4>2
      <4> QED BY <2>3, <4>3
    <3> QED BY <3>1, <3>2 DEF StartPublishDone
  <2>4. Drops
    BY <2>1, <2>2, <2>3 DEF Drops, Calm, Past
  <2> QED BY <2>1, <2>4
<1>3. ASSUME NEW s \in Streams, ResetDone(s)
      PROVE  faults \subseteq faults' /\ Drops /\ UNCHANGED ending
  <2>1. /\ entry' = None /\ faults' = faults \cup Clobbers(s) /\ Gone(s) /\ UNCHANGED ending
    BY <1>3 DEF ResetDone, DropEntry, CallsSettled
  <2>2. Drops
    BY <2>1 DEF Drops, Calm, Clobbers, Gone
  <2> QED BY <2>1, <2>2
<1>4. ASSUME Unpublish
      PROVE  faults \subseteq faults' /\ entry' = entry
  BY <1>4 DEF Unpublish, StartPublishDone
<1>5. ASSUME \/ PublishDone \/ PeerPauses \/ PeerResumes \/ PeerCancels
             \/ \E s \in Streams : FinCommitted(s) \/ FinTimesOut(s) \/ PeerStops(s)
      PROVE  faults \subseteq faults' /\ entry' = entry
  BY <1>5 DEF PublishDone, PeerPauses, PeerResumes, PeerCancels, FinCommitted, FinTimesOut, PeerStops,
              others
<1> QED
  <2>1. ASSUME ending' = "no"
        PROVE  ~Unpublish
    BY <2>1 DEF Unpublish, StartPublishDone
  <2>2. ASSUME ending # "no"
        PROVE  ending' # "no"
    BY <2>2 DEF OtherStep, LastGroupClosed, PublishDone, Unpublish, FinCommitted, ResetDone, FinTimesOut,
             PeerStops, PeerPauses, PeerResumes, PeerCancels, StartPublishDone, others
  <2> QED BY <1>2, <1>3, <1>4, <1>5, <2>1, <2>2 DEF OtherStep

\* The open subgroup stays the entry.
LEMMA SendKeepsEntry ==
  ASSUME Serialized, DeltaInv, Tables, CallsSettled, OpenIsEntry, NEW i \in Objects, SendStep(i)
  PROVE  OpenIsEntry'
<1> SUFFICES ASSUME Calm', NEW u \in Streams, stream'[u] = "open"
             PROVE  entry' = u
  BY DEF OpenIsEntry
<1>1. Calm /\ None \notin Streams
  BY SendEntry, ConstantTypes DEF Calm
<1>2. \/ stream[u] = "open" /\ (pc[i] = "creating" => u # at[i])
      \/ pc[i] = "creating" /\ u = at[i] /\ entry' = at[i]
  <2>1. pc[i] = "creating" => stream[at[i]] = "creating"
    BY DEF CallsSettled
  <2> QED BY <2>1, SendEffects DEF Retired, Opens, Past
<1>3. CASE stream[u] = "open" /\ (pc[i] = "creating" => u # at[i])
  BY <1>1, <1>3, SendEntry DEF OpenIsEntry, Drops
<1> QED BY <1>2, <1>3

LEMMA OtherKeepsEntry ==
  ASSUME DeltaInv, Tables, CallsSettled, OpenIsEntry, OtherStep
  PROVE  OpenIsEntry'
<1> SUFFICES ASSUME Calm', NEW u \in Streams, stream'[u] = "open"
             PROVE  entry' = u
  BY DEF OpenIsEntry
<1>1. Calm /\ stream[u] = "open"
  BY OtherEntry, OtherEffects DEF Calm, Retired, Past
<1> QED BY <1>1, OtherEntry DEF OpenIsEntry, Drops

\* Objects are sent in the order of their groups.
GroupsAscend == \A i, j \in Objects : i < j => GroupOf[i] <= GroupOf[j]

\* No group is behind the publication's, and no object to come is of an earlier one.
GroupsPassed == "late" \notin faults =>
  /\ \A s \in Streams : group[s] <= lastGroup
  /\ \A j \in Objects : pc[j] # "done" => lastGroup <= GroupOf[j]

\* No object to come is of the group of a stream that was finished.
ClosedPassed == Calm /\ ending = "no" => \A s \in Streams : stream[s] \in {"closing", "fin"} =>
  \A j \in Objects : pc[j] # "done" => group[s] < GroupOf[j]

\* What a step of sendObject() does to the groups.
LEMMA SendGroup ==
  ASSUME DeltaInv, NEW i \in Objects, SendStep(i)
  PROVE  \/ UNCHANGED <<lastGroup, group, first>>
         \/ "late" \in faults'
         \/ /\ published /\ ending = "no" /\ lastGroup' = GroupOf[i]
            /\ UNCHANGED <<group, first>> \/ \E s \in Streams : Opens(i, s)
<1>1. TypeInv
  BY DEF DeltaInv
<1>2. CASE SendFirst(i) \/ GroupClosed(i) \/ WriteFails(i)
  <2>1. \/ UNCHANGED <<lastGroup, group, first>>
        \/ /\ wire' = wire /\ Late \subseteq faults'
           /\ \E count : StartOpen(i, count)
    BY <1>2 DEF SendFirst, GroupClosed, WriteFails
  <2>2. ASSUME "late" \notin faults', wire' = wire, Late \subseteq faults', NEW count, StartOpen(i, count)
        PROVE  /\ published /\ ending = "no" /\ lastGroup' = GroupOf[i]
               /\ UNCHANGED <<group, first>> \/ \E s \in Streams : Opens(i, s)
    <3>1. published /\ ending = "no"
      BY <2>2 DEF Late
    <3>2. lastGroup' = GroupOf[i]
      BY <2>2, <3>1 DEF StartOpen
    <3> QED BY <1>1, <2>2, <3>1, <3>2, StartOpenEffects DEF Retired
  <2> QED BY <2>1, <2>2
<1>3. CASE ~(SendFirst(i) \/ GroupClosed(i) \/ WriteFails(i))
  BY <1>3 DEF SendStep, FilterEnds, SkipObject, SendNextGroup, SendNextObject, StreamCreated,
              StreamRefused, ObjectWritten, FilterEnded, transport, publication
<1> QED BY <1>2, <1>3

\* The objects that are left when object i is dealt with are of its group or later.
LEMMA LaterGroups ==
  ASSUME Serialized, GroupsAscend, DeltaInv, NEW i \in Objects, SendStep(i), NEW j \in Objects,
         pc'[j] # "done"
  PROVE  pc[i] # "done" /\ pc[j] # "done" /\ GroupOf[i] <= GroupOf[j]
<1>1. i \in Nat /\ j \in Nat /\ GroupOf[i] \in Nat /\ pc[i] # "done"
  BY ConstantTypes, SendAlone DEF Objects
<1>2. CASE j = i
  BY <1>1, <1>2
<1>3. CASE j # i
  <2>1. ~(j < i) /\ pc[j] # "done"
    BY <1>3, SendAlone
  <2> QED BY <1>1, <1>3, <2>1 DEF GroupsAscend
<1> QED BY <1>2, <1>3

LEMMA SendKeepsGroups ==
  ASSUME Serialized, GroupsAscend, DeltaInv, CallsSettled, GroupsPassed, NEW i \in Objects, SendStep(i)
  PROVE  GroupsPassed'
<1> SUFFICES ASSUME "late" \notin faults'
             PROVE  /\ \A s \in Streams : group'[s] <= lastGroup'
                    /\ \A j \in Objects : pc'[j] # "done" => lastGroup' <= GroupOf[j]
  BY DEF GroupsPassed
<1>1. /\ \A s \in Streams : group[s] <= lastGroup /\ group[s] \in Nat
      /\ \A j \in Objects : pc[j] # "done" => lastGroup <= GroupOf[j]
      /\ lastGroup \in Nat /\ GroupOf[i] \in Nat
  BY SendEntry, ConstantTypes DEF GroupsPassed, DeltaInv, TypeInv, TypeOK
<1>2. CASE UNCHANGED <<lastGroup, group, first>>
  BY <1>1, <1>2, LaterGroups
<1>3. CASE /\ lastGroup' = GroupOf[i]
           /\ UNCHANGED <<group, first>> \/ \E s \in Streams : Opens(i, s)
  <2>1. lastGroup <= GroupOf[i]
    BY <1>1, SendAlone
  <2>2. \A s \in Streams : group'[s] = group[s] \/ group'[s] = GroupOf[i]
    BY <1>3 DEF Opens
  <2>3. \A s \in Streams : group'[s] <= GroupOf[i]
    BY <1>1, <2>1, <2>2
  <2> QED BY <1>3, <2>3, LaterGroups
<1> QED BY <1>2, <1>3, SendGroup

\* Only the next group finishes a stream.
LEMMA SendFinishes ==
  ASSUME Serialized, DeltaInv, Tables, CallsSettled, NEW i \in Objects, SendStep(i), NEW s \in Streams,
         stream'[s] \in {"closing", "fin"}
  PROVE  /\ group'[s] = group[s]
         /\ stream'[s] = stream[s] \/ (SendNextGroup(i) /\ s = entry)
<1>1. TypeInv
  BY DEF DeltaInv
<1>2. CASE SendNextGroup(i)
  <2>1. group' = group /\ Close(entry) /\ entry \in Streams
    BY <1>2, EntryOpened DEF SendNextGroup
  <2> QED BY <1>1, <1>2, <2>1 DEF Close, TypeInv, TypeOK
<1>3. CASE SendFirst(i) \/ GroupClosed(i) \/ WriteFails(i)
  <2>1. /\ wire' = wire
        /\ UNCHANGED <<stream, group>> \/ \E count : StartOpen(i, count)
    BY <1>3 DEF SendFirst, GroupClosed, WriteFails, Finish
  <2>2. UNCHANGED <<stream, group>> \/ \E u \in Streams : Opens(i, u)
    BY <1>1, <2>1, StartOpenEffects DEF Retired
  <2> QED BY <2>2 DEF Opens
<1>4. CASE StreamCreated(i) \/ StreamRefused(i)
  <2>1. group' = group /\ \E v \in {"open", "discarded", "refused"} : stream' = [stream EXCEPT ![at[i]] = v]
    BY <1>4 DEF StreamCreated, StreamRefused
  <2> QED BY <1>1, <2>1 DEF TypeInv, TypeOK
<1>5. CASE FilterEnds(i) \/ SkipObject(i) \/ SendNextObject(i) \/ ObjectWritten(i) \/ FilterEnded(i)
  BY <1>5 DEF FilterEnds, SkipObject, SendNextObject, ObjectWritten, FilterEnded, transport
<1> QED BY <1>2, <1>3, <1>4, <1>5 DEF SendStep

LEMMA SendKeepsClosed ==
  ASSUME Serialized, GroupsAscend, DeltaInv, Tables, CallsSettled, GroupsPassed, ClosedPassed,
         NEW i \in Objects, SendStep(i)
  PROVE  ClosedPassed'
<1> SUFFICES ASSUME Calm', ending' = "no", NEW s \in Streams, stream'[s] \in {"closing", "fin"},
                    NEW j \in Objects, pc'[j] # "done"
             PROVE  group'[s] < GroupOf[j]
  BY DEF ClosedPassed
<1>1. Calm /\ ending = "no" /\ "late" \notin faults
  BY SendEntry DEF Calm
<1>2. group'[s] = group[s] /\ group[s] \in Nat /\ lastGroup \in Nat
  BY SendFinishes DEF DeltaInv, TypeInv, TypeOK
<1>3. GroupOf[i] \in Nat /\ GroupOf[j] \in Nat /\ GroupOf[i] <= GroupOf[j]
      /\ pc[i] # "done" /\ pc[j] # "done"
  BY ConstantTypes, LaterGroups
<1>4. CASE stream'[s] = stream[s]
  BY <1>1, <1>2, <1>3, <1>4 DEF ClosedPassed
<1>5. CASE SendNextGroup(i) /\ s = entry
  <2>1. group[s] # GroupOf[i]
    BY <1>5 DEF SendNextGroup
  <2>2. group[s] <= lastGroup /\ lastGroup <= GroupOf[i]
    BY <1>1, <1>3 DEF GroupsPassed
  <2> QED BY <1>2, <1>3, <2>1, <2>2
<1> QED BY <1>4, <1>5, SendFinishes

\* A stream that carries objects and was neither reset nor stopped.
Live(s) == stream[s] \in {"open", "closing", "fin"}

LEMMA SpansLive ==
  ASSUME Tables, NEW s \in Streams, NEW u \in Streams
  PROVE  Spans(s, u) <=> s # u /\ group[s] = group[u] /\ Live(s) /\ Live(u)
BY DEF Tables, Spans, Live, Past

\* Objects of a group are only on one live stream.
OneLive == Calm => \A s, u \in Streams : s # u /\ Live(s) /\ Live(u) => group[s] # group[u]

LEMMA OneLiveIsOneStream ==
  ASSUME Tables
  PROVE  OneLive <=> OneStreamPerSubgroup
BY SpansLive DEF OneLive, OneStreamPerSubgroup, Calm

\* A stream is only created for a group without a live stream.
LEMMA CreatedAlone ==
  ASSUME DeltaInv, Tables, CallsSettled, OpenIsEntry, ClosedPassed,
         NEW i \in Objects, SendStep(i), pc[i] = "creating", at[i] \in Streams, entry' = at[i], Calm',
         NEW u \in Streams, u # at[i], Live(u)
  PROVE  group[u] # group[at[i]]
<1>1. Calm /\ group[at[i]] = GroupOf[i] /\ stream[at[i]] = "creating"
  BY SendEntry DEF Calm, CallsSettled
<1>2. entry \in {None, at[i]} /\ ending = "no"
  <2>1. None \notin Streams
    BY ConstantTypes
  <2>2. entry # at[i]
    BY <1>1, <2>1, EntryOpened DEF Past
  <2> QED BY <2>1, <2>2, SendEntry DEF Drops
<1>3. CASE stream[u] = "open"
  BY <1>1, <1>2, <1>3, ConstantTypes DEF OpenIsEntry
<1>4. CASE stream[u] \in {"closing", "fin"}
  <2>1. group[u] < GroupOf[i]
    BY <1>1, <1>2, <1>4 DEF ClosedPassed
  <2>2. group[u] \in Nat /\ GroupOf[i] \in Nat
    BY ConstantTypes DEF DeltaInv, TypeInv, TypeOK
  <2> QED BY <1>1, <2>1, <2>2
<1> QED BY <1>3, <1>4 DEF Live

LEMMA SendKeepsLive ==
  ASSUME Serialized, DeltaInv, Tables, CallsSettled, OpenIsEntry, ClosedPassed, OneLive,
         NEW i \in Objects, SendStep(i)
  PROVE  OneLive'
<1> SUFFICES ASSUME Calm', NEW s \in Streams, NEW u \in Streams, s # u,
                    stream'[s] \in {"open", "closing", "fin"}, stream'[u] \in {"open", "closing", "fin"}
             PROVE  group'[s] # group'[u]
  BY DEF OneLive, Live
<1>1. \A a, b \in Streams : a # b /\ Live(a) /\ Live(b) => group[a] # group[b]
  BY SendEntry DEF OneLive, Calm
<1>2. CASE Retired
  BY <1>1, <1>2 DEF Retired, Live
<1>3. CASE \E a \in Streams : Opens(i, a)
  BY <1>1, <1>3 DEF Opens, Live
<1>4. CASE /\ pc[i] = "creating" /\ at[i] \in Streams /\ group' = group
           /\ \A a \in Streams \ {at[i]} : stream'[a] = stream[a]
           /\ stream'[at[i]] \in {"open", "discarded", "refused"}
           /\ stream'[at[i]] = "open" => entry' = at[i]
  <2>1. ASSUME NEW a \in Streams, a # at[i], Live(a), stream'[at[i]] = "open"
        PROVE  group[a] # group[at[i]]
    BY <1>4, <2>1, CreatedAlone
  <2>2. \A a \in Streams \ {at[i]} : stream'[a] \in {"open", "closing", "fin"} => Live(a)
    BY <1>4 DEF Live
  <2>3. CASE s = at[i]
    BY <1>4, <2>1, <2>2, <2>3
  <2>4. CASE u = at[i]
    BY <1>4, <2>1, <2>2, <2>4
  <2>5. CASE s # at[i] /\ u # at[i]
    BY <1>1, <1>4, <2>2, <2>5
  <2> QED BY <2>3, <2>4, <2>5
<1> QED BY <1>2, <1>3, <1>4, SendEffects

\* The first stream of a group is the only one that says so.
LEMMA SendKeepsFirst ==
  ASSUME Serialized, DeltaInv, Tables, CallsSettled, GroupsPassed, FirstObjectOnce,
         NEW i \in Objects, SendStep(i)
  PROVE  FirstObjectOnce'
<1> SUFFICES ASSUME "late" \notin faults', NEW s \in Streams, NEW u \in Streams, s < u,
                    group'[s] # None, group'[s] = group'[u]
             PROVE  u \notin first'
  BY DEF FirstObjectOnce
<1>1. "late" \notin faults
  BY SendEntry
<1>2. CASE UNCHANGED <<group, first>>
  BY <1>1, <1>2 DEF FirstObjectOnce
<1>3. ASSUME published, NEW a \in Streams, Opens(i, a)
      PROVE  u \notin first'
  <2>1. /\ group'[a] = GroupOf[i] /\ \A b \in Streams \ {a} : group'[b] = group[b]
        /\ first' = IF lastGroup = GroupOf[i] THEN first ELSE first \cup {a}
        /\ stream[a] = "none" /\ GroupOf[i] # None
    BY <1>3, ConstantTypes DEF Opens
  <2>2. CASE u = a
    <3>1. s # a /\ group[s] = GroupOf[i]
      BY <2>1, <2>2, ConstantTypes
    <3>2. group[s] <= lastGroup /\ lastGroup <= GroupOf[i]
      BY <1>1, SendAlone DEF GroupsPassed
    <3>3. lastGroup \in Nat /\ GroupOf[i] \in Nat
      BY ConstantTypes DEF DeltaInv, TypeInv, TypeOK
    <3>4. lastGroup = GroupOf[i]
      BY <3>1, <3>2, <3>3
    <3> QED BY <2>1, <2>2, <3>4 DEF Tables
  <2>3. CASE s = a
    <3>1. stream[a] = "none" /\ a < u
      BY <2>1, <2>3
    <3>2. stream[u] = "none"
      BY <3>1 DEF Tables
    <3>3. group[u] = None /\ u # a
      BY <3>1, <3>2, ConstantTypes DEF Tables
    <3> QED BY <2>1, <2>3, <3>3
  <2>4. CASE s # a /\ u # a
    BY <1>1, <2>1, <2>4 DEF FirstObjectOnce
  <2> QED BY <2>2, <2>3, <2>4
<1> QED BY <1>2, <1>3, SendGroup

\* The other steps only retire streams.
LEMMA OtherKeepsGroups ==
  ASSUME DeltaInv, Tables, CallsSettled, GroupsPassed, ClosedPassed, OneLive, FirstObjectOnce, OtherStep
  PROVE  GroupsPassed' /\ ClosedPassed' /\ OneLive' /\ FirstObjectOnce'
<1>1. Retired /\ UNCHANGED <<pc, lastGroup, group, first>> /\ faults \subseteq faults'
  BY OtherEffects, OtherEntry DEF Retired
<1>2. GroupsPassed'
  BY <1>1 DEF GroupsPassed
<1>3. FirstObjectOnce'
  BY <1>1 DEF FirstObjectOnce
<1>4. \A s \in Streams : stream'[s] \in {"open", "closing", "fin"} => Live(s)
  BY <1>1 DEF Retired, Live
<1>5. OneLive'
  BY <1>1, <1>4 DEF OneLive, Calm, Live
<1>6. ClosedPassed'
  <2> SUFFICES ASSUME Calm', ending' = "no", NEW s \in Streams, stream'[s] \in {"closing", "fin"}
               PROVE  stream[s] \in {"closing", "fin"} /\ Calm /\ ending = "no"
    BY <1>1 DEF ClosedPassed
  <2>1. Calm /\ ending = "no" /\ ~Unpublish
    BY OtherEntry DEF Calm
  <2>2. TypeInv
    BY DEF DeltaInv
  <2>3. CASE UNCHANGED stream
    BY <2>1, <2>3
  <2>4. CASE PeerPauses \/ PeerCancels
    <3>1. StartReset
      BY <2>4 DEF PeerPauses, PeerCancels
    <3>2. stream' = stream \/ (entry # None /\ stream' = [stream EXCEPT ![entry] = "reset"])
      BY <3>1 DEF StartReset
    <3> QED BY <2>1, <2>2, <3>2, EntryOpened DEF TypeInv, TypeOK
  <2>5. ASSUME NEW u \in Streams, FinCommitted(u) \/ FinTimesOut(u) \/ PeerStops(u)
        PROVE  stream[s] \in {"closing", "fin"}
    <3>1. \/ stream[u] = "closing" /\ stream' = [stream EXCEPT ![u] = "fin"]
          \/ \E v \in {"reset", "stopped"} : stream' = [stream EXCEPT ![u] = v]
      BY <2>5 DEF FinCommitted, FinTimesOut, PeerStops
    <3> QED BY <2>2, <3>1 DEF TypeInv, TypeOK
  <2>6. CASE LastGroupClosed \/ PublishDone \/ PeerResumes \/ \E u \in Streams : ResetDone(u)
    BY <2>1, <2>6 DEF LastGroupClosed, PublishDone, PeerResumes, ResetDone, transport
  <2> QED BY <2>1, <2>3, <2>4, <2>5, <2>6 DEF OtherStep
<1> QED BY <1>2, <1>3, <1>5, <1>6

\* The inductive invariant.
SubgroupInv ==
  /\ DeltaInv /\ Tables /\ CallsSettled /\ OpenIsEntry
  /\ GroupsPassed /\ ClosedPassed /\ OneLive /\ FirstObjectOnce

LEMMA SubgroupsInitially ==
  ASSUME Init
  PROVE  DeltaInv /\ Tables /\ CallsSettled /\ OpenIsEntry
<1>1. /\ entry = None /\ ending = "no" /\ first = {}
      /\ \A i \in Objects : pc[i] = "idle"
      /\ \A s \in Streams : stream[s] = "none" /\ group[s] = None /\ wire[s] = <<>> /\ resets[s] = 0
  BY DEF Init
<1>2. InTurn /\ WireSound /\ DeltasDecode
  <2>1. DeltasDecode
    BY <1>1 DEF DeltasDecode
  <2> QED BY <1>1, <2>1 DEF InTurn, WireSound
<1>3. Tables /\ CallsSettled /\ OpenIsEntry
  BY <1>1 DEF Tables, CallsSettled, OpenIsEntry, Past
<1> QED BY <1>2, <1>3, InitType DEF DeltaInv

LEMMA SubgroupsFrame ==
  ASSUME DeltaInv, Tables, CallsSettled, OpenIsEntry, UNCHANGED vars
  PROVE  DeltaInv' /\ Tables' /\ CallsSettled' /\ OpenIsEntry'
<1>1. UNCHANGED <<publication, entry, openCount, transport, calls, others, faults>>
  BY DEF vars
<1>2. TypeInv' /\ UNCHANGED <<stream, group, first, previous, wire, pc, at, resets, ending, endingAt>>
  BY <1>1, NextType DEF DeltaInv, transport, calls, others, vars
<1>3. InTurn' /\ WireSound' /\ DeltasDecode'
  BY <1>1, <1>2 DEF DeltaInv, InTurn, WireSound, LastOn, DeltasDecode
<1> QED BY <1>1, <1>2, <1>3 DEF DeltaInv, Tables, CallsSettled, Gone, OpenIsEntry, Calm

LEMMA SubgroupsStep ==
  ASSUME Serialized, DeltaInv, Tables, CallsSettled, OpenIsEntry, Next
  PROVE  DeltaInv' /\ Tables' /\ CallsSettled' /\ OpenIsEntry'
<1>1. OtherStep \/ \E i \in Objects : SendStep(i)
  BY DEF Next, Local, Application, OtherStep, SendStep
<1>2. DeltaInv'
  BY SendKeepsDeltas, OtherKeepsDeltas DEF Next, Local, Application
<1>3. TypeInv'
  BY <1>2 DEF DeltaInv
<1> QED BY <1>1, <1>2, <1>3, TablesKept, SendKeepsCalls, OtherKeepsCalls, SendKeepsEntry, OtherKeepsEntry

LEMMA SubgroupInvStep ==
  ASSUME Serialized, GroupsAscend, SubgroupInv, [Next]_vars
  PROVE  SubgroupInv'
<1>1. CASE UNCHANGED vars
  <2>1. UNCHANGED <<lastGroup, group, first, stream, pc, ending, faults>>
    BY <1>1 DEF vars, publication, transport, calls, others
  <2>2. GroupsPassed' /\ ClosedPassed' /\ OneLive' /\ FirstObjectOnce'
    BY <2>1 DEF SubgroupInv, GroupsPassed, ClosedPassed, OneLive, FirstObjectOnce, Calm, Live
  <2> QED BY <1>1, <2>2, SubgroupsFrame DEF SubgroupInv
<1>2. CASE Next
  <2>1. OtherStep \/ \E i \in Objects : SendStep(i)
    BY <1>2 DEF Next, Local, Application, OtherStep, SendStep
  <2>2. DeltaInv' /\ Tables' /\ CallsSettled' /\ OpenIsEntry'
    BY <1>2, SubgroupsStep DEF SubgroupInv
  <2>3. GroupsPassed' /\ ClosedPassed' /\ OneLive' /\ FirstObjectOnce'
    BY <2>1, SendKeepsGroups, SendKeepsClosed, SendKeepsLive, SendKeepsFirst, OtherKeepsGroups
       DEF SubgroupInv
  <2> QED BY <2>2, <2>3 DEF SubgroupInv
<1> QED BY <1>1, <1>2

LEMMA SubgroupInvariant ==
  ASSUME Serialized, GroupsAscend
  PROVE  Spec => []SubgroupInv
<1>1. Init => SubgroupInv
  <2> SUFFICES ASSUME Init
               PROVE  GroupsPassed /\ ClosedPassed /\ OneLive /\ FirstObjectOnce
    BY SubgroupsInitially DEF SubgroupInv
  <2>1. /\ lastGroup = None /\ \A s \in Streams : stream[s] = "none" /\ group[s] = None
        /\ \A j \in Objects : GroupOf[j] \in Nat
    BY ConstantTypes DEF Init
  <2>2. GroupsPassed
    BY <2>1 DEF GroupsPassed, None
  <2> QED BY <2>1, <2>2 DEF ClosedPassed, OneLive, FirstObjectOnce, Live
<1>2. SubgroupInv /\ [Next]_vars => SubgroupInv'
  BY SubgroupInvStep
<1> QED BY <1>1, <1>2, PTL DEF Spec

\* When the sends of a track wait for each other and follow its groups, the
\* objects of a subgroup do not span streams (openSubgroupWithObject,
\* closeVideoGOPStream): whatever the peer and the transport do, a second live
\* stream of a group takes a call that deletes an entry it does not know, or a
\* send that overlaps the end of the subscription.
THEOREM SubgroupsCorrect ==
  ASSUME Serialized, GroupsAscend
  PROVE  Spec => []OneStreamPerSubgroup
<1>1. SubgroupInv => OneStreamPerSubgroup
  BY OneLiveIsOneStream DEF SubgroupInv
<1> QED BY <1>1, SubgroupInvariant, PTL

\* And FIRST_OBJECT is on the earliest stream of a group only
\* (publication.lastStreamGroup), even when entries are clobbered.
THEOREM FirstObjectCorrect ==
  ASSUME Serialized, GroupsAscend
  PROVE  Spec => []FirstObjectOnce
<1>1. SubgroupInv => FirstObjectOnce
  BY DEF SubgroupInv
<1> QED BY <1>1, SubgroupInvariant, PTL

-----------------------------------------------------------------------------
(* What PUBLISH_DONE counts, when sends wait for each other.               *)

\* The streams the transport made.
Made == {s \in Streams : stream[s] \notin {"none", "creating", "refused"}}

\* streamsOpened counts them.
OpenedCounted == Calm => opened = Cardinality(Made)

\* After a PUBLISH_DONE that nothing overlapped, nothing is open or being sent,
\* and nothing will be.
DoneSettled == faults = {} /\ done >= 0 =>
  /\ entry = None /\ done = opened
  /\ \A i \in Objects : pc[i] \in {"idle", "done", "ending"}
  /\ ending # "no" \/ ~published \/ \E i \in Objects : pc[i] = "ending"

\* One more element of a set of streams counts one more.
LEMMA OneMore ==
  ASSUME NEW S \in SUBSET Streams, NEW s \in Streams \ S
  PROVE  Cardinality(S \cup {s}) = Cardinality(S) + 1
<1>1. MaxStreams \in Nat
  BY ConstantTypes
<1>2. IsFiniteSet(Streams)
  BY <1>1, FS_Interval DEF Streams
<1>3. IsFiniteSet(S)
  BY <1>2, FS_Subset
<1> QED BY <1>3, FS_AddElement

\* The count follows the streams.
LEMMA SendKeepsCount ==
  ASSUME Serialized, DeltaInv, Tables, CallsSettled, OpenedCounted, NEW i \in Objects, SendStep(i)
  PROVE  OpenedCounted'
<1> SUFFICES ASSUME Calm'
             PROVE  opened' = Cardinality(Made')
  BY DEF OpenedCounted
<1>1. TypeInv /\ opened = Cardinality(Made)
  BY SendEntry DEF OpenedCounted, Calm, DeltaInv
<1>2. CASE StreamCreated(i)
  <2> DEFINE s == at[i]
  <2>1. s \in Streams /\ stream[s] = "creating" /\ pc[i] = "creating"
    BY <1>1, <1>2 DEF StreamCreated, CallsSettled, TypeInv, CallsHaveStreams, Busy
  <2>2. \E v \in {"open", "discarded"} : stream' = [stream EXCEPT ![s] = v]
    BY <1>2 DEF StreamCreated
  <2>3. opened' = opened + 1
    BY <1>2 DEF StreamCreated, Late, Calm
  <2> HIDE DEF s
  <2>4. Made' = Made \cup {s} /\ s \in Streams \ Made
    BY <1>1, <2>1, <2>2 DEF Made, TypeInv, TypeOK
  <2>5. Cardinality(Made \cup {s}) = Cardinality(Made) + 1
    BY <2>4, OneMore DEF Made
  <2> QED BY <1>1, <2>3, <2>4, <2>5
<1>3. CASE ~StreamCreated(i)
  <2>1. opened' = opened
    BY <1>3 DEF SendStep, FilterEnds, SkipObject, SendFirst, SendNextGroup, SendNextObject,
                GroupClosed, StreamRefused, ObjectWritten, WriteFails, FilterEnded, publication
  <2>2. ASSUME NEW s \in Streams
        PROVE  stream'[s] \notin {"none", "creating", "refused"} <=>
               stream[s] \notin {"none", "creating", "refused"}
    <3>1. CASE Retired
      BY <3>1 DEF Retired, Past
    <3>2. CASE \E a \in Streams : Opens(i, a)
      BY <3>2 DEF Opens
    <3>3. CASE StreamRefused(i)
      <4>1. stream[at[i]] = "creating" /\ stream' = [stream EXCEPT ![at[i]] = "refused"]
        BY <3>3 DEF StreamRefused, CallsSettled
      <4> QED BY <1>1, <4>1 DEF TypeInv, TypeOK
    <3>4. pc[i] = "creating" => StreamRefused(i)
      BY <1>3 DEF SendStep, FilterEnds, SkipObject, SendFirst, SendNextGroup, SendNextObject, Wanted,
                  MaySend, GroupClosed, ObjectWritten, WriteFails, FilterEnded
    <3> QED BY <3>1, <3>2, <3>3, <3>4, SendEffects
  <2>3. Made' = Made
    BY <2>2 DEF Made
  <2> QED BY <1>1, <2>1, <2>3
<1> QED BY <1>2, <1>3

LEMMA OtherKeepsCount ==
  ASSUME DeltaInv, Tables, CallsSettled, OpenedCounted, OtherStep
  PROVE  OpenedCounted'
<1>1. opened' = opened /\ Made' = Made /\ faults \subseteq faults'
  <2>1. Retired /\ opened' = opened /\ faults \subseteq faults'
    BY OtherEffects, OtherEntry
  <2> QED BY <2>1 DEF Made, Retired, Past
<1> QED BY <1>1 DEF OpenedCounted, Calm

\* No send begins after it, and none is under way.
LEMMA SendKeepsDone ==
  ASSUME Serialized, DeltaInv, Tables, CallsSettled, DoneSettled, NEW i \in Objects, SendStep(i)
  PROVE  DoneSettled'
<1> SUFFICES ASSUME faults' = {}, done' >= 0
             PROVE  /\ entry' = None /\ done' = opened'
                    /\ \A j \in Objects : pc'[j] \in {"idle", "done", "ending"}
                    /\ ending' # "no" \/ ~published' \/ \E j \in Objects : pc'[j] = "ending"
  BY DEF DoneSettled
<1>1. /\ TypeInv /\ faults = {} /\ ending' = ending
      /\ \A j \in Objects \ {i} : pc'[j] = pc[j] /\ pc[j] \in {"idle", "done"}
  BY SendEntry, SendAlone DEF DeltaInv
<1>2. CASE FilterEnds(i)
  <2>1. /\ pc'[i] = "ending" /\ UNCHANGED <<entry, opened>>
        /\ entry = None
        /\ done' = done \/ done' = opened
    BY <1>1, <1>2 DEF FilterEnds, SendPublishDone, publication, TypeInv, TypeOK
  <2>2. done' = opened
    BY <1>1, <2>1 DEF DoneSettled
  <2> QED BY <1>1, <2>1, <2>2
<1>3. ASSUME ~FilterEnds(i)
      PROVE  /\ done' = done /\ entry = None /\ done = opened
             /\ pc[i] \in {"idle", "ending"}
             /\ pc[i] = "idle" => ending # "no" \/ ~published
  <2>1. done' = done
    BY <1>3 DEF SendStep, SkipObject, SendFirst, SendNextGroup, SendNextObject, GroupClosed,
                StreamCreated, StreamRefused, ObjectWritten, WriteFails, FilterEnded, others
  <2>2. /\ entry = None /\ done = opened
        /\ pc[i] \in {"idle", "done", "ending"}
        /\ ending # "no" \/ ~published \/ \E j \in Objects : pc[j] = "ending"
    BY <1>1, <2>1 DEF DoneSettled
  <2> QED BY <1>1, <2>1, <2>2, SendAlone
<1>4. CASE SkipObject(i)
  <2>1. pc[i] = "idle" /\ pc'[i] = "done" /\ UNCHANGED <<entry, opened, published>>
    BY <1>1, <1>4 DEF SkipObject, MaySend, Finish, publication, TypeInv, TypeOK
  <2>2. ~FilterEnds(i)
    BY <1>1, <1>4, <2>1 DEF FilterEnds, TypeInv, TypeOK
  <2> QED BY <1>1, <1>3, <2>1, <2>2
<1>5. CASE FilterEnded(i)
  <2>1. pc'[i] = "done" /\ ~published' /\ UNCHANGED <<entry, opened>> /\ pc[i] # "idle"
    BY <1>1, <1>5 DEF FilterEnded, Finish, TypeInv, TypeOK
  <2>2. ~FilterEnds(i)
    BY <2>1 DEF FilterEnds, MaySend
  <2> QED BY <1>1, <1>3, <2>1, <2>2
<1>6. ~SendFirst(i)
  <2> SUFFICES ASSUME SendFirst(i)
               PROVE  FALSE
    OBVIOUS
  <2>1. published /\ pc[i] = "idle" /\ Late \subseteq faults' /\ ~FilterEnds(i)
    BY DEF SendFirst, Wanted, MaySend, FilterEnds
  <2>2. ending # "no" \/ ~published
    BY <1>3, <2>1
  <2> QED BY <2>1, <2>2 DEF Late
<1>7. ~(SendNextGroup(i) \/ SendNextObject(i))
  <2> SUFFICES ASSUME SendNextGroup(i) \/ SendNextObject(i)
               PROVE  FALSE
    OBVIOUS
  <2>1. entry # None /\ ~FilterEnds(i)
    BY DEF SendNextGroup, SendNextObject, Wanted, FilterEnds
  <2> QED BY <1>3, <2>1
<1>8. CASE GroupClosed(i) \/ StreamCreated(i) \/ StreamRefused(i) \/ ObjectWritten(i) \/ WriteFails(i)
  <2>1. pc[i] \notin {"idle", "ending"}
    BY <1>8 DEF GroupClosed, StreamCreated, StreamRefused, ObjectWritten, WriteFails
  <2>2. ~FilterEnds(i)
    BY <2>1 DEF FilterEnds, MaySend
  <2> QED BY <1>3, <2>1, <2>2
<1> QED BY <1>2, <1>4, <1>5, <1>6, <1>7, <1>8 DEF SendStep

\* unpublish() sends it when nothing is under way, or it is a fault.
LEMMA OtherKeepsDone ==
  ASSUME DeltaInv, Tables, CallsSettled, DoneSettled, OtherStep
  PROVE  DoneSettled'
<1> SUFFICES ASSUME faults' = {}, done' >= 0
             PROVE  /\ entry' = None /\ done' = opened'
                    /\ \A j \in Objects : pc'[j] \in {"idle", "done", "ending"}
                    /\ ending' # "no" \/ ~published' \/ \E j \in Objects : pc'[j] = "ending"
  BY DEF DoneSettled
<1>1. faults = {} /\ UNCHANGED <<pc, opened>> /\ (entry' = entry \/ entry' = None)
      /\ (ending # "no" => ending' # "no")
  <2>1. faults \subseteq faults' /\ UNCHANGED <<pc, opened>> /\ (entry' = entry \/ entry' = None)
    BY OtherEntry, OtherEffects DEF Drops
  <2> QED BY <2>1, OtherEntry
<1>2. ASSUME NEW open, StartPublishDone(open), entry' = None
      PROVE  /\ done' = opened /\ ending' # "no"
             /\ \A j \in Objects : pc[j] \in {"idle", "done"}
  <2>1. done' = opened
    BY <1>1, <1>2 DEF StartPublishDone, SendPublishDone, DoneSettled
  <2>2. \A j \in Objects : pc[j] \in {"idle", "done"}
    BY <1>2 DEF StartPublishDone
  <2> QED BY <1>2, <2>1, <2>2 DEF StartPublishDone
<1>3. CASE LastGroupClosed
  <2>1. entry' = None /\ \E open : StartPublishDone(open)
    BY <1>3 DEF LastGroupClosed, DropEntry
  <2> QED BY <1>1, <1>2, <2>1
<1>4. CASE Unpublish /\ entry = None
  <2>1. entry' = None /\ StartPublishDone(FALSE)
    BY <1>4 DEF Unpublish
  <2> QED BY <1>1, <1>2, <2>1
<1>5. ASSUME done' = done, (~published => ~published')
      PROVE  /\ entry = None /\ done' = opened'
             /\ \A j \in Objects : pc'[j] \in {"idle", "done", "ending"}
             /\ ending' # "no" \/ ~published' \/ \E j \in Objects : pc'[j] = "ending"
  BY <1>1, <1>5 DEF DoneSettled
<1>6. CASE Unpublish /\ entry # None
  <2>1. done' = done /\ published' = published
    BY <1>6 DEF Unpublish, publication
  <2> QED BY <1>5, <1>6, <2>1
<1>7. CASE ~(LastGroupClosed \/ Unpublish)
  <2>1. done' = done /\ (~published => ~published')
    BY <1>7 DEF OtherStep, PublishDone, FinCommitted, ResetDone, FinTimesOut, PeerStops, PeerPauses,
                PeerResumes, PeerCancels, others, publication
  <2> QED BY <1>1, <1>5, <2>1
<1> QED BY <1>3, <1>4, <1>6, <1>7

\* The inductive invariant.
DoneInv ==
  /\ DeltaInv /\ Tables /\ CallsSettled /\ OpenIsEntry
  /\ OpenedCounted /\ DoneSettled

LEMMA DoneInvariant ==
  ASSUME Serialized
  PROVE  Spec => []DoneInv
<1>1. ASSUME Init
      PROVE  DoneInv
  <2>1. opened = 0 /\ done = -1 /\ Made = {}
    BY <1>1 DEF Init, Made
  <2>2. Cardinality({}) = 0
    BY FS_EmptySet
  <2>3. OpenedCounted
    BY <2>1, <2>2 DEF OpenedCounted
  <2>4. DoneSettled
    BY <2>1 DEF DoneSettled
  <2> QED BY <1>1, <2>3, <2>4, SubgroupsInitially DEF DoneInv
<1>2. ASSUME DoneInv, [Next]_vars
      PROVE  DoneInv'
  <2>1. CASE UNCHANGED vars
    <3>1. UNCHANGED <<published, opened, entry, stream, pc, ending, done, faults>>
      BY <2>1 DEF vars, publication, transport, calls, others
    <3>2. OpenedCounted' /\ DoneSettled'
      BY <1>2, <3>1 DEF DoneInv, OpenedCounted, Made, DoneSettled, Calm
    <3> QED BY <1>2, <2>1, <3>2, SubgroupsFrame DEF DoneInv
  <2>2. CASE Next
    <3>1. OtherStep \/ \E i \in Objects : SendStep(i)
      BY <2>2 DEF Next, Local, Application, OtherStep, SendStep
    <3>2. DeltaInv' /\ Tables' /\ CallsSettled' /\ OpenIsEntry'
      BY <1>2, <2>2, SubgroupsStep DEF DoneInv
    <3>3. OpenedCounted' /\ DoneSettled'
      BY <1>2, <3>1, SendKeepsCount, OtherKeepsCount, SendKeepsDone, OtherKeepsDone DEF DoneInv
    <3> QED BY <3>2, <3>3 DEF DoneInv
  <2> QED BY <1>2, <2>1, <2>2
<1> QED BY <1>1, <1>2, PTL DEF Spec

\* When no send overlaps the end (unpublish, endAtFilterEnd), the Stream Count of
\* PUBLISH_DONE (sendPublishDone) is the number of streams the transport ever
\* made for the track, and every one of them has ended once all is quiet.
THEOREM DoneCorrect ==
  ASSUME Serialized
  PROVE  Spec => []DoneIsFinal
<1>1. ASSUME DoneInv
      PROVE  DoneIsFinal
  <2> SUFFICES ASSUME done >= 0, Quiet, faults = {}
               PROVE  /\ Held = {}
                      /\ done = Cardinality({s \in Streams : stream[s] \notin {"none", "refused"}})
    BY DEF DoneIsFinal
  <2>1. entry = None /\ done = opened
    BY <1>1 DEF DoneInv, DoneSettled
  <2>2. \A s \in Streams : stream[s] \notin {"creating", "open", "closing"}
    <3>1. \A s \in Streams : stream[s] # "creating"
      BY <1>1 DEF DoneInv, CallsSettled, Quiet
    <3>2. \A s \in Streams : stream[s] # "open"
      BY <1>1, <2>1, ConstantTypes DEF DoneInv, OpenIsEntry, Calm
    <3> QED BY <3>1, <3>2 DEF Quiet
  <2>3. {s \in Streams : stream[s] \notin {"none", "refused"}} = Made
    BY <2>2 DEF Made
  <2>4. opened = Cardinality(Made)
    BY <1>1 DEF DoneInv, OpenedCounted, Calm
  <2> QED BY <2>1, <2>2, <2>3, <2>4 DEF Held
<1> QED BY <1>1, DoneInvariant, PTL

=============================================================================
