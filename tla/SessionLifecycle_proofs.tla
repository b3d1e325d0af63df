----------------------- MODULE SessionLifecycle_proofs -----------------------
(***************************************************************************)
(* Proofs about SessionLifecycle, for every policy of the auto-migrate     *)
(* loop and every bound: type correctness, that the calls of migrate()     *)
(* agree with what they wait for, that a connect() is always answered, and *)
(* that a session with its first connection accuses no conforming peer.    *)
(***************************************************************************)
EXTENDS SessionLifecycle, TLAPS

Requested == {"connect", "disconnect", "control"}
Reported  == {"connected", "error", "disconnected", "lost", "failed", "setup", "goaway"}

\* What is left of a nonempty sequence is a sequence of the same set, as are two of
\* them together.
LEMMA SequenceTypes ==
  ASSUME NEW T, NEW s \in Seq(T)
  PROVE  /\ s # <<>> => Tail(s) \in Seq(T) /\ Head(s) \in T
         /\ \A u \in Seq(T) : s \o u \in Seq(T)
OBVIOUS

\* The types of the variables, with the names used here.
PublicTyped ==
  /\ state \in {"none", "setup", "ready", "closing", "error"}
  /\ machine \in {"disconnected", "connecting", "setup_sent", "connected", "closing", "error"}
ControlTyped ==
  /\ seen \in BOOLEAN /\ garbled \in BOOLEAN /\ goaway \in BOOLEAN /\ handlers \in Nat
CallsTyped ==
  /\ waiter \in Setups \cup {"nobody"} /\ waits \subseteq Setups
LoopTyped ==
  /\ pending \in BOOLEAN /\ migrating \in BOOLEAN
  /\ pc \in [Migrations -> {"idle", "closing", "connecting", "linked", "setup"}]
  /\ auto \in {"idle", "scheduled", "trying", "waiting", "gaveup"}
  /\ attempts \in Nat /\ asked \in Nat
WorkerTyped ==
  /\ link \in {"none", "connecting", "up"} /\ hanging \in Nat /\ connects \in Nat
  /\ sent \subseteq {"setup", "goaway"}
Typed ==
  /\ PublicTyped /\ ControlTyped /\ CallsTyped /\ LoopTyped /\ WorkerTyped
  /\ held \in BOOLEAN /\ accused \in BOOLEAN /\ lost \in BOOLEAN
  /\ closing \subseteq Closers
  /\ toWorker \in Seq(Requested)
  /\ toMain \in Seq(Reported) /\ heard \in Nat

LEMMA TypedIsTypeOK == (Typed <=> TypeOK) /\ (Typed' <=> TypeOK')
<1>1. /\ {seen, garbled, goaway, pending, migrating, held, accused, lost} \subseteq BOOLEAN
         <=> /\ seen \in BOOLEAN /\ garbled \in BOOLEAN /\ goaway \in BOOLEAN
             /\ pending \in BOOLEAN /\ migrating \in BOOLEAN /\ held \in BOOLEAN
             /\ accused \in BOOLEAN /\ lost \in BOOLEAN
  BY Zenon
<1>2. {handlers, attempts, asked, hanging, connects, heard} \subseteq Nat
         <=> /\ handlers \in Nat /\ attempts \in Nat /\ asked \in Nat /\ hanging \in Nat
             /\ connects \in Nat /\ heard \in Nat
  BY Zenon
<1>3. {seen', garbled', goaway', pending', migrating', held', accused', lost'} \subseteq BOOLEAN
         <=> /\ seen' \in BOOLEAN /\ garbled' \in BOOLEAN /\ goaway' \in BOOLEAN
             /\ pending' \in BOOLEAN /\ migrating' \in BOOLEAN /\ held' \in BOOLEAN
             /\ accused' \in BOOLEAN /\ lost' \in BOOLEAN
  BY Zenon
<1>4. {handlers', attempts', asked', hanging', connects', heard'} \subseteq Nat
         <=> /\ handlers' \in Nat /\ attempts' \in Nat /\ asked' \in Nat /\ hanging' \in Nat
             /\ connects' \in Nat /\ heard' \in Nat
  BY Zenon
<1>5. Typed <=> TypeOK
  BY <1>1, <1>2, Zenon DEF Typed, TypeOK, PublicTyped, ControlTyped, CallsTyped, LoopTyped,
    WorkerTyped, Requested, Reported
<1>6. Typed' <=> TypeOK'
  BY <1>3, <1>4, Zenon DEF Typed, TypeOK, PublicTyped, ControlTyped, CallsTyped, LoopTyped,
    WorkerTyped, Requested, Reported
<1>7. QED
  BY <1>5, <1>6

\* What a step leaves alone keeps its type.
LEMMA Kept ==
  ASSUME Typed
  PROVE  /\ UNCHANGED public  => PublicTyped'
         /\ UNCHANGED control => ControlTyped'
         /\ UNCHANGED calls   => CallsTyped'
         /\ UNCHANGED loop    => LoopTyped'
         /\ UNCHANGED worker  => WorkerTyped'
<1>1. UNCHANGED public => PublicTyped'
  BY DEF Typed, PublicTyped, public
<1>2. UNCHANGED control => ControlTyped'
  BY DEF Typed, ControlTyped, control
<1>3. UNCHANGED calls => CallsTyped'
  BY DEF Typed, CallsTyped, calls
<1>4. UNCHANGED loop => LoopTyped'
  BY DEF Typed, LoopTyped, loop
<1>5. UNCHANGED worker => WorkerTyped'
  BY DEF Typed, WorkerTyped, worker
<1>6. QED
  BY <1>1, <1>2, <1>3, <1>4, <1>5

\* The state machine takes the state it is forced to.
LEMMA SetStateType ==
  ASSUME PublicTyped, NEW new \in {"none", "setup", "ready", "closing", "error"}, SetState(new)
  PROVE  PublicTyped'
BY DEF PublicTyped, SetState, Mapped

LEMMA SetupType ==
  ASSUME Typed, NEW c \in Setups, Setup(c)
  PROVE  /\ PublicTyped' /\ ControlTyped' /\ CallsTyped'
         /\ toWorker' \in Seq(Requested)
<1>1. PublicTyped'
  BY SetStateType DEF Setup, Typed
<1>2. /\ seen' = FALSE /\ garbled' = FALSE /\ goaway' = FALSE
      /\ handlers' = handlers + 1 /\ handlers \in Nat
  BY DEF Setup, Typed, ControlTyped
<1>6. handlers' \in Nat
  BY <1>2
<1>7. ControlTyped'
  BY <1>2, <1>6 DEF ControlTyped
<1>8. CallsTyped'
  BY DEF Setup, Typed, CallsTyped
<1>3. <<"control">> \in Seq(Requested)
  BY DEF Requested
<1>4. toWorker' \in Seq(Requested)
  BY <1>3, SequenceTypes DEF Setup, Post, Typed
<1>5. QED
  BY <1>1, <1>4, <1>7, <1>8

LEMMA FailedType ==
  ASSUME LoopTyped, NEW failing \in SUBSET Migrations, Failed(failing)
  PROVE  LoopTyped'
<1>1. migrating' \in BOOLEAN
  BY DEF Failed
<1>2. pc' \in [Migrations -> {"idle", "closing", "connecting", "linked", "setup"}]
  BY DEF Failed, LoopTyped
<1>3. auto' \in {"idle", "scheduled", "trying", "waiting", "gaveup"} /\ attempts' \in Nat
  BY DEF Failed, LoopTyped
<1>4. QED
  BY <1>1, <1>2, <1>3 DEF Failed, LoopTyped

LEMMA ReceiveType ==
  ASSUME Typed, NEW m, Receive(m)
  PROVE  toMain' \in Seq(Reported) /\ heard' \in Nat
<1>1. toMain \in Seq(Reported) /\ toMain # <<>> /\ heard \in Nat
  BY DEF Typed, Receive
<1>2. Tail(toMain) \in Seq(Reported)
  BY <1>1, SequenceTypes
<1>3. QED
  BY <1>1, <1>2 DEF Receive

LEMMA WorkerStepType ==
  ASSUME Typed, NEW m, NEW u \in Seq(Reported)
  PROVE  /\ Take(m) => toWorker' \in Seq(Requested)
         /\ Answer(u) => toMain' \in Seq(Reported)
<1>1. toWorker \in Seq(Requested) /\ toMain \in Seq(Reported)
  BY DEF Typed
<1>2. toWorker # <<>> => Tail(toWorker) \in Seq(Requested)
  BY <1>1, SequenceTypes
<1>3. toMain \o u \in Seq(Reported)
  BY <1>1, SequenceTypes
<1>4. QED
  BY <1>2, <1>3 DEF Take, Answer

LEMMA InitTyped == Init => TypeOK
<1> SUFFICES ASSUME Init PROVE Typed
  BY TypedIsTypeOK
<1>1. \A S : <<>> \in Seq(S)
  OBVIOUS
<1>2. PublicTyped /\ ControlTyped /\ CallsTyped /\ LoopTyped /\ WorkerTyped
  BY DEF Init, PublicTyped, ControlTyped, CallsTyped, LoopTyped, WorkerTyped
<1>3. QED
  BY <1>1, <1>2 DEF Init, Typed

\* A step keeps the types.
LEMMA StepTyped == TypeOK /\ [Next]_vars => TypeOK'
<1> SUFFICES ASSUME Typed, [Next]_vars PROVE Typed'
  BY TypedIsTypeOK
<1> USE DEF Typed
<1>1. CASE UNCHANGED vars
  BY <1>1, Kept DEF vars, queue
<1>3. CASE UserSetup
  <2>1. "user" \in Setups
    BY DEF Setups
  <2>2. QED
    BY <1>3, Kept, <2>1, SetupType DEF UserSetup, queue
<1>4. CASE Hold
  BY <1>4, Kept DEF Hold, queue
<1>5. ASSUME NEW c \in Closers, closing' = closing \cup {c} PROVE closing' \subseteq Closers
  BY <1>5
<1>12. CASE UserCloses
  <2>1. LoopTyped'
    BY <1>12 DEF UserCloses, LoopTyped
  <2>2. closing' \subseteq Closers
    BY <1>5, <1>12 DEF UserCloses, StartClose, Closers, Setups
  <2>3. QED
    BY <1>12, <2>1, <2>2, Kept DEF UserCloses, queue
<1>13. CASE UserMigrates
  <2>1. LoopTyped'
    <3>1. asked' \in Nat
      BY <1>13 DEF UserMigrates, LoopTyped
    <3>2. pc' \in [Migrations -> {"idle", "closing", "connecting", "linked", "setup"}]
      BY <1>13 DEF UserMigrates, StartMigration, LoopTyped
    <3>3. migrating' \in BOOLEAN /\ UNCHANGED <<pending, auto, attempts>>
      BY <1>13 DEF UserMigrates, StartMigration
    <3>4. QED
      BY <3>1, <3>2, <3>3 DEF LoopTyped
  <2>2. closing' \subseteq Closers
    BY <1>5, <1>13 DEF UserMigrates, StartMigration, StartClose, Closers, Setups, Migrations
  <2>3. QED
    BY <1>13, <2>1, <2>2, Kept DEF UserMigrates, queue
<1>14. CASE AutoMigrates
  <2>1. LoopTyped'
    <3>1. CASE pending
      BY <1>14, <3>1 DEF AutoMigrates, StartMigration, LoopTyped
    <3>2. CASE ~pending
      BY <1>14, <3>2 DEF AutoMigrates, LoopTyped
    <3>3. QED
      BY <3>1, <3>2
  <2>2. closing' \subseteq Closers
    BY <1>5, <1>14 DEF AutoMigrates, StartMigration, StartClose, Closers, Setups, Migrations
  <2>3. QED
    BY <1>14, <2>1, <2>2, Kept DEF AutoMigrates, queue
<1>6. ASSUME NEW c \in Setups, SetupTimesOut(c) PROVE Typed'
  <2>1. LoopTyped' /\ CallsTyped'
    BY <1>6, FailedType DEF SetupTimesOut, CallsTyped
  <2>2. QED
    BY Kept, <1>6, <2>1 DEF SetupTimesOut, queue
<1>7. ASSUME NEW c \in Closers, CloseEnds(c) PROVE Typed'
  <2>1. PublicTyped'
    BY <1>7 DEF CloseEnds, PublicTyped
  <2>2. LoopTyped'
    BY <1>7 DEF CloseEnds, LoopTyped
  <2>3. <<"disconnect", "connect">> \in Seq(Requested) /\ <<"disconnect">> \in Seq(Requested)
    BY DEF Requested
  <2>4. toWorker' \in Seq(Requested)
    <3>1. PICK u \in Seq(Requested) : toWorker' = toWorker \o u
      <4>1. CASE c \in Migrations
        BY <1>7, <2>3, <4>1 DEF CloseEnds, Post
      <4>2. CASE c \notin Migrations
        BY <1>7, <2>3, <4>2 DEF CloseEnds, Post
      <4>3. QED
        BY <4>1, <4>2
    <3>2. QED
      BY <3>1, SequenceTypes
  <2>5. QED
    <3>1. closing' \subseteq Closers /\ held' \in BOOLEAN
      BY <1>7 DEF CloseEnds
    <3>2. ControlTyped' /\ CallsTyped' /\ WorkerTyped'
      BY <1>7, Kept DEF CloseEnds
    <3>3. UNCHANGED <<toMain, heard, accused, lost>>
      BY <1>7 DEF CloseEnds, queue
    <3>4. QED
      BY <2>1, <2>2, <2>4, <3>1, <3>2, <3>3
<1>8. ASSUME NEW m \in Migrations, Linked(m) PROVE Typed'
  <2>1. m \in Setups /\ {m} \in SUBSET Migrations
    BY DEF Setups
  <2>2. CASE state = "none"
    <3>1. Setup(m) /\ LoopTyped'
      BY <1>8, <2>2 DEF Linked, LoopTyped
    <3>2. QED
      BY Kept, <1>8, <2>1, <3>1, SetupType DEF Linked, queue
  <2>3. CASE state # "none"
    BY Kept, <1>8, <2>1, <2>3, FailedType DEF Linked, queue
  <2>4. QED
    BY <2>2, <2>3
<1>9. CASE Reads
  <2>1. CASE ReceiveConnected
    <3>1. LoopTyped'
      BY <2>1 DEF ReceiveConnected, LoopTyped
    <3>2. QED
      BY Kept, <2>1, <3>1, ReceiveType DEF ReceiveConnected
  <2>2. CASE ReceiveError
    <3>1. PublicTyped'
      BY Kept, <2>2, SetStateType DEF ReceiveError
    <3>2. QED
      BY Kept, <2>2, <3>1, ReceiveType, FailedType DEF ReceiveError
  <2>3. CASE ReceiveClosed
    <3>1. PublicTyped'
      BY Kept, <2>3, SetStateType DEF ReceiveClosed
    <3>2. toMain' \in Seq(Reported) /\ heard' \in Nat
      BY <2>3, ReceiveType DEF ReceiveClosed
    <3>3. QED
      BY Kept, <2>3, <3>1, <3>2 DEF ReceiveClosed
  <2>4. CASE ReceiveSetup
    <3>1. toMain' \in Seq(Reported) /\ heard' \in Nat
      BY <2>4, ReceiveType DEF ReceiveSetup
    <3>2. WorkerTyped' /\ UNCHANGED <<held, toWorker>>
      BY Kept, <2>4 DEF ReceiveSetup
    <3>3. CASE handlers = 0
      BY Kept, <2>4, <3>1, <3>2, <3>3 DEF ReceiveSetup
    <3>4. CASE handlers # 0 /\ ~seen
      <4>1. AcceptSetup /\ UNCHANGED lost
        BY <2>4, <3>4 DEF ReceiveSetup
      <4>2. PublicTyped'
        BY <4>1, SetStateType DEF AcceptSetup
      <4>3. LoopTyped'
        BY Kept, <4>1 DEF AcceptSetup, LoopTyped, loop
      <4>4. ControlTyped' /\ CallsTyped'
        BY <4>1 DEF AcceptSetup, ControlTyped, CallsTyped
      <4>5. QED
        BY <3>1, <3>2, <4>1, <4>2, <4>3, <4>4 DEF AcceptSetup
    <3>5. CASE handlers # 0 /\ seen
      <4>1. /\ UNCHANGED <<public, seen, goaway, handlers, calls, loop, lost>>
            /\ garbled' = TRUE \/ garbled' = garbled
            /\ UNCHANGED <<closing, accused>> \/ Accuse
        BY <2>4, <3>5 DEF ReceiveSetup
      <4>2. ControlTyped' /\ closing' \subseteq Closers /\ accused' \in BOOLEAN
        BY <4>1 DEF ControlTyped, Accuse, StartClose, Closers
      <4>3. QED
        BY Kept, <3>1, <3>2, <4>1, <4>2
    <3>6. QED
      BY <3>3, <3>4, <3>5
  <2>5. CASE ReceiveGoAway
    <3>1. toMain' \in Seq(Reported) /\ heard' \in Nat
      BY <2>5, ReceiveType DEF ReceiveGoAway
    <3>2. PublicTyped'
      BY Kept, <2>5, SetStateType DEF ReceiveGoAway
    <3>3. UNCHANGED <<seen, garbled, handlers>> /\ (goaway' = goaway \/ goaway' = TRUE)
      BY <2>5 DEF ReceiveGoAway
    <3>6. ControlTyped'
      BY <3>3 DEF ControlTyped
    <3>7. /\ UNCHANGED <<migrating, pc, asked>> /\ (pending' = pending \/ pending' = TRUE)
          /\ auto' = auto \/ auto' = "scheduled"
          /\ attempts' = attempts \/ attempts' = 0
      BY <2>5 DEF ReceiveGoAway
    <3>8. LoopTyped'
      <4>1. pending' \in BOOLEAN
        BY <3>7, Zenon DEF LoopTyped
      <4>2. attempts' \in Nat
        BY <3>7 DEF LoopTyped
      <4>3. QED
        BY <3>7, <4>1, <4>2 DEF LoopTyped
    <3>4. closing' \subseteq Closers /\ accused' \in BOOLEAN
      BY <2>5 DEF ReceiveGoAway, Accuse, StartClose, Closers
    <3>5. QED
      BY Kept, <2>5, <3>1, <3>2, <3>4, <3>6, <3>8 DEF ReceiveGoAway
  <2>6. QED
    BY <1>9, <2>1, <2>2, <2>3, <2>4, <2>5 DEF Reads
<1>10. ASSUME Works \/ PeerCloses \/ \E m \in {"setup", "goaway"} : PeerSends(m) PROVE Typed'
  <2>1. toWorker' \in Seq(Requested)
    BY <1>10, WorkerStepType DEF Works, WorkerConnects, WorkerConnected, WorkerConnectFails,
      WorkerDisconnects, WorkerDisconnectEnds, WorkerSends, PeerCloses, PeerSends
  <2>2. \A u \in {<<"error">>, <<"connected">>, <<"disconnected", "error">>, <<"disconnected">>,
                  <<"setup">>, <<"goaway">>, <<"lost">>, <<"failed">>} : u \in Seq(Reported)
    <3>1. /\ "error" \in Reported /\ "connected" \in Reported /\ "disconnected" \in Reported
          /\ "setup" \in Reported /\ "goaway" \in Reported /\ "lost" \in Reported
          /\ "failed" \in Reported
      BY DEF Reported
    <3>2. \A a, b \in Reported : <<a>> \in Seq(Reported) /\ <<a, b>> \in Seq(Reported)
      OBVIOUS
    <3>3. QED
      BY <3>1, <3>2
  <2>3. ASSUME Disconnected PROVE toMain' \in Seq(Reported)
    <3>1. PICK u \in Seq(Reported) : Answer(u)
      <4>1. CASE link = "connecting"
        BY <2>2, <2>3, <4>1 DEF Disconnected
      <4>2. CASE link # "connecting"
        BY <2>2, <2>3, <4>2 DEF Disconnected
      <4>3. QED
        BY <4>1, <4>2
    <3>2. QED
      BY <3>1, WorkerStepType
  <2>4. WorkerTyped'
    <3>1. CASE WorkerConnects
      <4>1. CASE link # "none"
        BY <3>1, <4>1 DEF WorkerConnects, WorkerTyped, worker
      <4>2. CASE link = "none"
        BY <3>1, <4>2 DEF WorkerConnects, WorkerTyped
      <4>3. QED
        BY <4>1, <4>2
    <3>2. CASE WorkerConnected \/ WorkerConnectFails \/ WorkerSends \/ PeerCloses
      BY <3>2 DEF WorkerConnected, WorkerConnectFails, WorkerSends, PeerCloses, WorkerTyped, worker
    <3>3. CASE WorkerDisconnects
      <4>1. CASE Disconnected /\ UNCHANGED hanging
        BY <4>1 DEF Disconnected, WorkerTyped
      <4>2. CASE hanging' = hanging + 1 /\ UNCHANGED <<link, sent, connects>>
        BY <4>2 DEF WorkerTyped
      <4>3. QED
        BY <3>3, <4>1, <4>2 DEF WorkerDisconnects
    <3>4. CASE WorkerDisconnectEnds
      BY <3>4 DEF WorkerDisconnectEnds, Disconnected, WorkerTyped
    <3>5. ASSUME NEW m \in {"setup", "goaway"}, PeerSends(m) PROVE WorkerTyped'
      BY <3>5 DEF PeerSends, WorkerTyped
    <3>6. QED
      BY <1>10, <3>1, <3>2, <3>3, <3>4, <3>5 DEF Works
  <2>5. toMain' \in Seq(Reported)
    <3>1. CASE WorkerConnects
      BY <2>2, <3>1, WorkerStepType DEF WorkerConnects
    <3>2. CASE WorkerConnected \/ WorkerConnectFails \/ WorkerSends
      BY <2>2, <3>2, WorkerStepType DEF WorkerConnected, WorkerConnectFails, WorkerSends
    <3>3. CASE WorkerDisconnects \/ WorkerDisconnectEnds
      BY <2>3, <3>3 DEF WorkerDisconnects, WorkerDisconnectEnds
    <3>4. CASE PeerCloses
      BY <2>2, <3>4, WorkerStepType DEF PeerCloses
    <3>5. ASSUME NEW m \in {"setup", "goaway"}, PeerSends(m) PROVE toMain' \in Seq(Reported)
      BY <2>2, <3>5, WorkerStepType DEF PeerSends
    <3>6. QED
      BY <1>10, <3>1, <3>2, <3>3, <3>4, <3>5 DEF Works
  <2>6. UNCHANGED <<Session, heard>>
    BY <1>10 DEF Works, WorkerConnects, WorkerConnected, WorkerConnectFails,
      WorkerDisconnects, WorkerDisconnectEnds, WorkerSends, PeerCloses, PeerSends
  <2>7. QED
    BY Kept, <2>1, <2>4, <2>5, <2>6 DEF Session
<1>11. QED
  BY <1>1, <1>3, <1>4, <1>6, <1>7, <1>8, <1>9, <1>10, <1>12, <1>13, <1>14 DEF Next

\* The variables have their types in every state.
THEOREM TypeCorrect == Spec => []TypeOK
BY InitTyped, StepTyped, PTL DEF Spec

-----------------------------------------------------------------------------
(* The calls of migrate().                                                 *)

LEMMA StepMigrating == TypeOK /\ MigratingEnds /\ [Next]_vars => MigratingEnds'
<1> SUFFICES ASSUME Typed, MigratingEnds, [Next]_vars PROVE MigratingEnds'
  BY TypedIsTypeOK
<1> USE DEF MigratingEnds
<1>1. pc \in [Migrations -> {"idle", "closing", "connecting", "linked", "setup"}]
  BY DEF Typed, LoopTyped
<1>2. ASSUME UNCHANGED <<migrating, pc>> PROVE MigratingEnds'
  BY <1>2
<1>3. ASSUME NEW failing \in SUBSET Migrations, Failed(failing) PROVE MigratingEnds'
  <2>1. CASE failing = {}
    BY <1>1, <1>3, <2>1 DEF Failed
  <2>2. CASE failing # {}
    BY <1>3, <2>2 DEF Failed
  <2>3. QED
    BY <2>1, <2>2
<1>4. ASSUME NEW m \in Migrations, StartMigration(m) PROVE MigratingEnds'
  BY <1>1, <1>4 DEF StartMigration
<1>5. CASE UNCHANGED vars \/ UserSetup \/ Hold \/ UserCloses
  BY <1>2, <1>5 DEF vars, loop, UserSetup, Hold, UserCloses
<1>6. CASE UserMigrates
  BY <1>4, <1>6 DEF UserMigrates, Migrations
<1>7. CASE AutoMigrates
  BY <1>2, <1>4, <1>7 DEF AutoMigrates, Migrations
<1>8. ASSUME NEW c \in Setups, SetupTimesOut(c) PROVE MigratingEnds'
  BY <1>3, <1>8 DEF SetupTimesOut
<1>9. ASSUME NEW c \in Closers, CloseEnds(c) PROVE MigratingEnds'
  <2>1. CASE c \in Migrations
    BY <1>1, <1>9, <2>1 DEF CloseEnds
  <2>2. CASE c \notin Migrations
    BY <1>2, <1>9, <2>2 DEF CloseEnds
  <2>3. QED
    BY <2>1, <2>2
<1>10. ASSUME NEW m \in Migrations, Linked(m) PROVE MigratingEnds'
  <2>1. CASE state = "none"
    BY <1>1, <1>10, <2>1 DEF Linked
  <2>2. CASE state # "none"
    BY <1>3, <1>10, <2>2 DEF Linked
  <2>3. QED
    BY <2>1, <2>2
<1>11. CASE Reads
  <2>1. CASE ReceiveConnected
    BY <1>1, <2>1 DEF ReceiveConnected
  <2>2. CASE ReceiveError
    BY <1>3, <2>2 DEF ReceiveError
  <2>3. CASE ReceiveClosed \/ ReceiveGoAway
    BY <1>2, <2>3 DEF ReceiveClosed, ReceiveGoAway, loop
  <2>4. CASE ReceiveSetup
    BY <1>2, <2>4 DEF ReceiveSetup, AcceptSetup, loop
  <2>5. QED
    BY <1>11, <2>1, <2>2, <2>3, <2>4 DEF Reads
<1>12. CASE Works \/ PeerCloses \/ \E m \in {"setup", "goaway"} : PeerSends(m)
  <2>1. UNCHANGED Session
    BY <1>12 DEF Works, WorkerConnects, WorkerConnected, WorkerConnectFails,
      WorkerDisconnects, WorkerDisconnectEnds, WorkerSends, PeerCloses, PeerSends
  <2>2. QED
    BY <1>2, <2>1 DEF Session, loop
<1>13. QED
  BY <1>5, <1>6, <1>7, <1>8, <1>9, <1>10, <1>11, <1>12 DEF Next

\* The flag that makes the session pass over the closing of its connection is never
\* left set when no migrate() runs.
THEOREM MigratingAlwaysEnds == Spec => []MigratingEnds
<1>1. Init => MigratingEnds
  BY DEF Init, MigratingEnds
<1>2. QED
  BY <1>1, StepMigrating, TypeCorrect, PTL DEF Spec

LEMMA StepAgrees == TypeOK /\ PartnersAgree /\ [Next]_vars => PartnersAgree'
<1> SUFFICES ASSUME Typed, PartnersAgree, [Next]_vars PROVE PartnersAgree'
  BY TypedIsTypeOK
<1> USE DEF PartnersAgree
<1>1. pc \in [Migrations -> {"idle", "closing", "connecting", "linked", "setup"}]
  BY DEF Typed, LoopTyped
<1>2. "auto" \in Migrations /\ "manual" \in Migrations /\ "user" \notin Migrations
      /\ "accuse" \notin Migrations
  BY DEF Migrations
<1>3. ASSUME UNCHANGED <<auto, pc, waits, closing>> PROVE PartnersAgree'
  BY <1>3
<1>4. ASSUME NEW failing \in SUBSET Migrations, Failed(failing),
             \A m \in failing : pc[m] # "closing", waits' = waits \ failing,
             closing' = closing
      PROVE  PartnersAgree'
  <2>1. \A m \in Migrations : pc'[m] = IF m \in failing THEN "idle" ELSE pc[m]
    BY <1>4 DEF Failed
  <2>2. \A m \in Migrations :
          (pc'[m] = "setup" <=> m \in waits') /\ (pc'[m] = "closing" <=> m \in closing')
    BY <1>4, <2>1
  <2>3. auto' = "trying" <=> pc'["auto"] # "idle"
    <3>1. CASE "auto" \in failing
      BY <1>2, <1>4, <2>1, <3>1 DEF Failed
    <3>2. CASE "auto" \notin failing
      BY <1>2, <1>4, <2>1, <3>2 DEF Failed
    <3>3. QED
      BY <3>1, <3>2
  <2>4. QED
    BY <2>2, <2>3
<1>5. CASE UNCHANGED vars \/ Hold
  BY <1>3, <1>5 DEF vars, loop, calls, Hold
<1>6. CASE UserSetup
  BY <1>2, <1>6 DEF UserSetup, Setup, loop
<1>7. CASE UserCloses
  BY <1>2, <1>7 DEF UserCloses, StartClose, calls
<1>8. CASE UserMigrates
  <2>1. /\ pc["manual"] = "idle" /\ pc' = [pc EXCEPT !["manual"] = "closing"]
        /\ closing' = closing \cup {"manual"} /\ UNCHANGED <<auto, waits>>
    BY <1>8 DEF UserMigrates, StartMigration, StartClose, calls
  <2>2. QED
    BY <1>1, <1>2, <2>1
<1>9. CASE AutoMigrates
  <2>1. CASE pending
    <3>1. /\ auto # "trying" /\ pc' = [pc EXCEPT !["auto"] = "closing"] /\ auto' = "trying"
          /\ closing' = closing \cup {"auto"} /\ UNCHANGED waits
      BY <1>9, <2>1 DEF AutoMigrates, StartMigration, StartClose, calls
    <3>2. QED
      BY <1>1, <1>2, <3>1
  <2>2. CASE ~pending
    BY <1>9, <2>2 DEF AutoMigrates, calls
  <2>3. QED
    BY <2>1, <2>2
<1>10. ASSUME NEW c \in Setups, SetupTimesOut(c) PROVE PartnersAgree'
  <2>1. CASE c \in Migrations
    <3>1. {c} \cap Migrations = {c}
      BY <2>1
    <3>2. pc[c] = "setup" /\ waits' = waits \ {c} /\ Failed({c}) /\ closing' = closing
      BY <1>10, <2>1, <3>1 DEF SetupTimesOut
    <3>3. QED
      BY <1>4, <2>1, <3>2
  <2>2. CASE c \notin Migrations
    <3>1. Failed({}) /\ waits' = waits \ {c} /\ closing' = closing
      BY <1>10, <2>2 DEF SetupTimesOut
    <3>2. auto' = auto /\ pc' = pc
      BY <1>1, <3>1 DEF Failed
    <3>3. QED
      BY <2>2, <3>1, <3>2
  <2>3. QED
    BY <2>1, <2>2
<1>11. ASSUME NEW c \in Closers, CloseEnds(c) PROVE PartnersAgree'
  <2>1. closing' = closing \ {c} /\ c \in closing /\ UNCHANGED <<waits, auto>>
    BY <1>11 DEF CloseEnds, calls
  <2>2. CASE c \in Migrations
    <3>1. pc' = [pc EXCEPT ![c] = "connecting"] /\ pc[c] = "closing"
      BY <1>11, <2>1, <2>2 DEF CloseEnds
    <3>2. QED
      BY <1>1, <1>2, <2>1, <2>2, <3>1
  <2>3. CASE c \notin Migrations
    BY <1>11, <2>1, <2>3 DEF CloseEnds
  <2>4. QED
    BY <2>2, <2>3
<1>12. ASSUME NEW m \in Migrations, Linked(m) PROVE PartnersAgree'
  <2>1. pc[m] = "linked" /\ m \notin waits /\ UNCHANGED closing
    BY <1>12 DEF Linked
  <2>2. CASE state = "none"
    <3>1. pc' = [pc EXCEPT ![m] = "setup"] /\ waits' = waits \cup {m} /\ UNCHANGED auto
      BY <1>12, <2>2 DEF Linked, Setup
    <3>2. QED
      BY <1>1, <1>2, <2>1, <3>1
  <2>3. CASE state # "none"
    <3>1. Failed({m}) /\ waits' = waits \ {m}
      BY <1>12, <2>1, <2>3 DEF Linked, calls
    <3>2. QED
      BY <1>4, <2>1, <3>1
  <2>4. QED
    BY <2>2, <2>3
<1>13. CASE Reads
  <2>1. CASE ReceiveConnected
    BY <1>1, <1>2, <2>1 DEF ReceiveConnected, calls
  <2>2. CASE ReceiveError
    <3>1. DEFINE failing == {m \in Migrations : pc[m] = "connecting"}
    <3>2. Failed(failing) /\ waits' = waits \ failing /\ closing' = closing
      BY <2>2 DEF ReceiveError, calls
    <3>3. failing \in SUBSET Migrations /\ \A m \in failing : pc[m] # "closing"
      OBVIOUS
    <3>4. QED
      BY <1>4, <3>2, <3>3
  <2>3. CASE ReceiveClosed
    BY <1>3, <2>3 DEF ReceiveClosed, loop, calls
  <2>4. ASSUME Accuse \/ UNCHANGED closing, UNCHANGED <<pc, waits>>,
               auto' = auto \/ (auto # "trying" /\ auto' # "trying")
        PROVE  PartnersAgree'
    BY <1>2, <2>4 DEF Accuse, StartClose
  <2>5. CASE ReceiveGoAway
    BY <2>4, <2>5 DEF ReceiveGoAway, calls
  <2>6. CASE ReceiveSetup
    <3>1. CASE UNCHANGED <<calls, loop>> /\ (Accuse \/ UNCHANGED closing)
      BY <2>4, <3>1 DEF calls, loop
    <3>2. CASE AcceptSetup
      <4>1. waits' = waits \ {waiter} /\ UNCHANGED closing
        BY <3>2 DEF AcceptSetup
      <4>2. CASE waiter \in waits \cap Migrations
        <5>1. /\ pc' = [pc EXCEPT ![waiter] = "idle"]
              /\ auto' = IF waiter = "auto" THEN "idle" ELSE auto
          BY <3>2, <4>2 DEF AcceptSetup
        <5>2. QED
          BY <1>1, <1>2, <4>1, <4>2, <5>1
      <4>3. CASE waiter \notin waits \cap Migrations
        BY <3>2, <4>1, <4>3 DEF AcceptSetup, loop
      <4>4. QED
        BY <4>2, <4>3
    <3>3. QED
      BY <2>6, <3>1, <3>2 DEF ReceiveSetup
  <2>7. QED
    BY <1>13, <2>1, <2>2, <2>3, <2>5, <2>6 DEF Reads
<1>14. CASE Works \/ PeerCloses \/ \E m \in {"setup", "goaway"} : PeerSends(m)
  <2>1. UNCHANGED Session
    BY <1>14 DEF Works, WorkerConnects, WorkerConnected, WorkerConnectFails,
      WorkerDisconnects, WorkerDisconnectEnds, WorkerSends, PeerCloses, PeerSends
  <2>2. QED
    BY <1>3, <2>1 DEF Session, loop, calls
<1>15. QED
  BY <1>5, <1>6, <1>7, <1>8, <1>9, <1>10, <1>11, <1>12, <1>13, <1>14 DEF Next

\* The auto-migrate loop, its migrate() and the setup() of that migrate() agree on
\* who is under way, whichever message settled or rejected them.
THEOREM CallsAlwaysAgree == Spec => []CallsAgree
<1>1. Init => PartnersAgree
  BY DEF Init, PartnersAgree, Migrations
<1>2. Spec => []PartnersAgree
  BY <1>1, StepAgrees, TypeCorrect, PTL DEF Spec
<1>3. QED
  BY <1>2, MigratingAlwaysEnds, PTL DEF CallsAgree

-----------------------------------------------------------------------------
(* A connect() is answered.                                                *)

\* A message is in a queue.
Queued(m, s) == \E i \in 1 .. Len(s) : s[i] = m

LEMMA QueuedAppend ==
  ASSUME NEW T, NEW s \in Seq(T), NEW u \in Seq(T), NEW m
  PROVE  Queued(m, s \o u) <=> Queued(m, s) \/ Queued(m, u)
<1>1. \A i \in 1 .. Len(s) : (s \o u)[i] = s[i] /\ i \in 1 .. Len(s \o u)
  OBVIOUS
<1>2. \A i \in 1 .. Len(u) : (s \o u)[Len(s) + i] = u[i] /\ Len(s) + i \in 1 .. Len(s \o u)
  OBVIOUS
<1>3. ASSUME NEW i \in 1 .. Len(s \o u), (s \o u)[i] = m PROVE Queued(m, s) \/ Queued(m, u)
  <2>1. CASE i \in 1 .. Len(s)
    BY <1>1, <1>3, <2>1 DEF Queued
  <2>2. CASE i \notin 1 .. Len(s)
    <3>1. i - Len(s) \in 1 .. Len(u) /\ (s \o u)[i] = u[i - Len(s)]
      BY <2>2
    <3>2. QED
      BY <1>3, <3>1 DEF Queued
  <2>3. QED
    BY <2>1, <2>2
<1>4. QED
  BY <1>1, <1>2, <1>3 DEF Queued

LEMMA QueuedTail ==
  ASSUME NEW T, NEW s \in Seq(T), s # <<>>, NEW m
  PROVE  Queued(m, s) <=> Head(s) = m \/ Queued(m, Tail(s))
<1>1. Head(s) = s[1] /\ Len(s) > 0 /\ Len(Tail(s)) = Len(s) - 1
      /\ \A i \in 1 .. Len(s) - 1 : Tail(s)[i] = s[i + 1]
  OBVIOUS
<1>2. ASSUME NEW i \in 1 .. Len(s), s[i] = m PROVE Head(s) = m \/ Queued(m, Tail(s))
  <2>1. CASE i = 1
    BY <1>1, <1>2, <2>1
  <2>2. CASE i # 1
    <3>1. i - 1 \in 1 .. Len(Tail(s)) /\ Tail(s)[i - 1] = m
      BY <1>1, <1>2, <2>2
    <3>2. QED
      BY <3>1 DEF Queued
  <2>3. QED
    BY <2>1, <2>2
<1>3. ASSUME NEW i \in 1 .. Len(Tail(s)), Tail(s)[i] = m PROVE Queued(m, s)
  <2>1. i + 1 \in 1 .. Len(s) /\ s[i + 1] = m
    BY <1>1, <1>3
  <2>2. QED
    BY <2>1 DEF Queued
<1>4. QED
  BY <1>1, <1>2, <1>3 DEF Queued

LEMMA QueuedSingle ==
  ASSUME NEW m
  PROVE  /\ ~Queued(m, <<>>)
         /\ \A a : Queued(m, <<a>>) <=> a = m
         /\ \A a, b : Queued(m, <<a, b>>) <=> a = m \/ b = m
<1>1. \A a : <<a>>[1] = a /\ Len(<<a>>) = 1
  OBVIOUS
<1>2. \A a, b : <<a, b>>[1] = a /\ <<a, b>>[2] = b /\ Len(<<a, b>>) = 2
  OBVIOUS
<1>3. 1 .. 0 = {} /\ 1 .. 1 = {1} /\ 1 .. 2 = {1, 2} /\ Len(<<>>) = 0
  OBVIOUS
<1>4. QED
  BY <1>1, <1>2, <1>3 DEF Queued

\* What is posted to the worker and what it answers is queued behind the rest.
LEMMA PostQueues ==
  ASSUME Typed, NEW u \in Seq(Requested), Post(u), NEW m
  PROVE  Queued(m, toWorker') <=> Queued(m, toWorker) \/ Queued(m, u)
BY QueuedAppend DEF Typed, Post

LEMMA AnswerQueues ==
  ASSUME Typed, NEW u \in Seq(Reported), Answer(u), NEW m
  PROVE  Queued(m, toMain') <=> Queued(m, toMain) \/ Queued(m, u)
BY QueuedAppend DEF Typed, Answer

LEMMA TakeQueues ==
  ASSUME Typed, NEW n, Take(n), NEW m, m # n
  PROVE  Queued(m, toWorker') <=> Queued(m, toWorker)
BY QueuedTail DEF Typed, Take

LEMMA ReceiveQueues ==
  ASSUME Typed, NEW n, Receive(n), NEW m, m # n
  PROVE  Queued(m, toMain') <=> Queued(m, toMain)
<1>1. CASE heard + 1 < handlers
  BY <1>1 DEF Receive
<1>2. CASE ~(heard + 1 < handlers)
  <2>1. toMain # <<>> /\ Head(toMain) = n /\ toMain' = Tail(toMain)
    BY <1>2 DEF Receive
  <2>2. toMain \in Seq(Reported)
    BY DEF Typed
  <2>3. Queued(m, toMain) <=> Head(toMain) = m \/ Queued(m, Tail(toMain))
    BY <2>1, <2>2, QueuedTail
  <2>4. QED
    BY <2>1, <2>3
<1>3. QED
  BY <1>1, <1>2

Waiting == \E m \in Migrations : pc[m] = "connecting"

\* While a connect() waits, its request is under way, or the connection it asked
\* for, or an answer.
Debt ==
  Waiting => \/ Queued("connect", toWorker) \/ link = "connecting"
             \/ Queued("connected", toMain) \/ Queued("error", toMain)

\* The messages an answer is made of.
LEMMA AnswersTyped ==
  \A a, b \in Reported : <<a>> \in Seq(Reported) /\ <<a, b>> \in Seq(Reported)
OBVIOUS

LEMMA ReportedAre ==
  /\ "error" \in Reported /\ "connected" \in Reported /\ "disconnected" \in Reported
  /\ "setup" \in Reported /\ "goaway" \in Reported /\ "lost" \in Reported
  /\ "failed" \in Reported
BY DEF Reported

\* The end of a disconnect() answers the connect() it interrupts.
LEMMA DisconnectedAnswers ==
  ASSUME Typed, Disconnected
  PROVE  /\ link = "connecting" => Queued("error", toMain')
         /\ \A m : Queued(m, toMain) => Queued(m, toMain')
<1>1. CASE link = "connecting"
  <2>1. Answer(<<"disconnected", "error">>) /\ <<"disconnected", "error">> \in Seq(Reported)
    BY <1>1, AnswersTyped, ReportedAre DEF Disconnected
  <2>2. QED
    BY <2>1, AnswerQueues, QueuedSingle
<1>2. CASE link # "connecting"
  <2>1. Answer(<<"disconnected">>) /\ <<"disconnected">> \in Seq(Reported)
    BY <1>2, AnswersTyped, ReportedAre DEF Disconnected
  <2>2. QED
    BY <1>2, <2>1, AnswerQueues
<1>3. QED
  BY <1>1, <1>2

LEMMA StepDebt == TypeOK /\ Debt /\ [Next]_vars => Debt'
<1> SUFFICES ASSUME Typed, Debt, [Next]_vars PROVE Debt'
  BY TypedIsTypeOK
<1> DEFINE Answered == Queued("connected", toMain) \/ Queued("error", toMain)
<1>1. pc \in [Migrations -> {"idle", "closing", "connecting", "linked", "setup"}]
      /\ toWorker \in Seq(Requested) /\ toMain \in Seq(Reported)
  BY DEF Typed, LoopTyped
<1>2. ASSUME Waiting' => Waiting, Queued("connect", toWorker) => Queued("connect", toWorker'),
             UNCHANGED <<link, toMain>>
      PROVE  Debt'
  BY <1>2 DEF Debt, Waiting
<1>3. ASSUME NEW failing \in SUBSET Migrations, Failed(failing) PROVE Waiting' => Waiting
  BY <1>1, <1>3 DEF Failed, Waiting
<1>4. ASSUME NEW c \in Setups, Setup(c)
      PROVE  Queued("connect", toWorker) => Queued("connect", toWorker')
  <2>1. Post(<<"control">>) /\ <<"control">> \in Seq(Requested)
    BY <1>4 DEF Setup, Requested
  <2>2. QED
    BY <2>1, PostQueues
<1>5. CASE UNCHANGED vars \/ Hold \/ UserCloses
  BY <1>2, <1>5 DEF vars, loop, queue, worker, Hold, UserCloses, Waiting
<1>6. CASE UserSetup
  <2>1. Setup("user") /\ "user" \in Setups /\ UNCHANGED <<pc, link, toMain>>
    BY <1>6 DEF UserSetup, Setups, loop, queue, worker
  <2>2. QED
    BY <1>2, <1>4, <2>1 DEF Waiting
<1>7. CASE UserMigrates \/ AutoMigrates
  BY <1>1, <1>2, <1>7 DEF UserMigrates, AutoMigrates, StartMigration, Waiting, queue, worker
<1>8. ASSUME NEW c \in Setups, SetupTimesOut(c) PROVE Debt'
  BY <1>2, <1>3, <1>8 DEF SetupTimesOut, queue, worker
<1>9. ASSUME NEW c \in Closers, CloseEnds(c) PROVE Debt'
  <2>1. CASE c \in Migrations
    <3>1. Post(<<"disconnect", "connect">>) /\ <<"disconnect", "connect">> \in Seq(Requested)
      BY <1>9, <2>1 DEF CloseEnds, Requested
    <3>2. Queued("connect", toWorker')
      BY <3>1, PostQueues, QueuedSingle
    <3>3. QED
      BY <3>2 DEF Debt
  <2>2. CASE c \notin Migrations
    <3>1. /\ Post(<<"disconnect">>) /\ <<"disconnect">> \in Seq(Requested)
          /\ UNCHANGED <<pc, link, toMain>>
      BY <1>9, <2>2 DEF CloseEnds, Requested, queue, worker
    <3>2. QED
      BY <1>2, <3>1, PostQueues DEF Waiting
  <2>3. QED
    BY <2>1, <2>2
<1>10. ASSUME NEW m \in Migrations, Linked(m) PROVE Debt'
  <2>1. UNCHANGED <<link, toMain>>
    BY <1>10 DEF Linked, queue, worker
  <2>2. CASE state = "none"
    <3>1. Setup(m) /\ m \in Setups /\ pc' = [pc EXCEPT ![m] = "setup"]
      BY <1>10, <2>2 DEF Linked, Setups
    <3>2. Waiting' => Waiting
      BY <1>1, <3>1 DEF Waiting
    <3>3. QED
      BY <1>2, <1>4, <2>1, <3>1, <3>2
  <2>3. CASE state # "none"
    <3>1. Failed({m}) /\ UNCHANGED toWorker
      BY <1>10, <2>3 DEF Linked
    <3>2. QED
      BY <1>2, <1>3, <2>1, <3>1
  <2>4. QED
    BY <2>2, <2>3
<1>11. CASE Reads
  <2>1. CASE ReceiveConnected
    BY <2>1 DEF ReceiveConnected, Debt, Waiting
  <2>2. CASE ReceiveError
    BY <1>1, <2>2 DEF ReceiveError, Failed, Debt, Waiting
  <2>3. ASSUME NEW n, Receive(n), n \notin {"connected", "error"}, UNCHANGED <<toWorker, link>>,
               Waiting' => Waiting
        PROVE  Debt'
    <3>1. /\ Queued("connected", toMain') <=> Queued("connected", toMain)
          /\ Queued("error", toMain') <=> Queued("error", toMain)
      BY <2>3, ReceiveQueues
    <3>2. QED
      BY <2>3, <3>1 DEF Debt
  <2>4. CASE ReceiveClosed
    BY <2>3, <2>4 DEF ReceiveClosed, loop, worker, Waiting
  <2>5. CASE ReceiveGoAway
    BY <2>3, <2>5 DEF ReceiveGoAway, worker, Waiting
  <2>6. CASE ReceiveSetup
    <3>1. UNCHANGED loop \/ AcceptSetup
      BY <2>6 DEF ReceiveSetup
    <3>2. Waiting' => Waiting
      BY <1>1, <3>1 DEF AcceptSetup, loop, Waiting
    <3>3. QED
      BY <2>3, <2>6, <3>2 DEF ReceiveSetup, worker
  <2>7. QED
    BY <1>11, <2>1, <2>2, <2>4, <2>5, <2>6 DEF Reads
<1>12. CASE Works \/ PeerCloses \/ \E m \in {"setup", "goaway"} : PeerSends(m)
  <2>1. UNCHANGED Session
    BY <1>12 DEF Works, WorkerConnects, WorkerConnected, WorkerConnectFails,
      WorkerDisconnects, WorkerDisconnectEnds, WorkerSends, PeerCloses, PeerSends
  <2>2. Waiting' <=> Waiting
    BY <2>1 DEF Session, loop, Waiting
  <2>3. ASSUME NEW a \in Reported, Answer(<<a>>)
        PROVE  Queued(a, toMain') /\ \A m : Queued(m, toMain) => Queued(m, toMain')
    <3>1. <<a>> \in Seq(Reported)
      BY AnswersTyped
    <3>2. QED
      BY <2>3, <3>1, AnswerQueues, QueuedSingle
  <2>4. CASE WorkerConnects
    BY <2>3, <2>4, ReportedAre DEF WorkerConnects, Debt
  <2>5. CASE WorkerConnected \/ WorkerConnectFails
    BY <2>3, <2>5, ReportedAre DEF WorkerConnected, WorkerConnectFails, Debt
  <2>6. CASE WorkerDisconnects
    <3>1. Queued("connect", toWorker') <=> Queued("connect", toWorker)
      BY <2>6, TakeQueues DEF WorkerDisconnects
    <3>2. CASE Disconnected
      BY <2>2, <3>1, <3>2, DisconnectedAnswers DEF Debt
    <3>3. CASE UNCHANGED <<link, toMain>>
      BY <2>2, <3>1, <3>3 DEF Debt
    <3>4. QED
      BY <2>6, <3>2, <3>3 DEF WorkerDisconnects
  <2>7. CASE WorkerDisconnectEnds
    BY <2>2, <2>7, DisconnectedAnswers DEF WorkerDisconnectEnds, Debt
  <2>8. CASE WorkerSends
    <3>1. Queued("connect", toWorker') <=> Queued("connect", toWorker)
      BY <2>8, TakeQueues DEF WorkerSends
    <3>2. UNCHANGED link /\ (UNCHANGED toMain \/ Answer(<<"error">>))
      BY <2>8 DEF WorkerSends, worker
    <3>3. QED
      BY <2>2, <2>3, <3>1, <3>2, ReportedAre DEF Debt
  <2>9. CASE PeerCloses
    <3>1. PICK m \in {"lost", "failed"} : Answer(<<m>>)
      BY <2>9 DEF PeerCloses
    <3>2. link # "connecting" /\ UNCHANGED toWorker
      BY <2>9 DEF PeerCloses
    <3>3. QED
      BY <2>2, <2>3, <3>1, <3>2, ReportedAre DEF Debt
  <2>10. ASSUME NEW m \in {"setup", "goaway"}, PeerSends(m) PROVE Debt'
    <3>1. Answer(<<m>>) /\ UNCHANGED <<link, toWorker>>
      BY <2>10 DEF PeerSends
    <3>2. QED
      BY <2>2, <2>3, <3>1, ReportedAre DEF Debt
  <2>11. QED
    BY <1>12, <2>4, <2>5, <2>6, <2>7, <2>8, <2>9, <2>10 DEF Works
<1>13. QED
  BY <1>5, <1>6, <1>7, <1>8, <1>9, <1>10, <1>11, <1>12 DEF Next

\* A connect() that waits while nothing is on its way waits for a connection the
\* worker is making: the worker never owes an answer it will not give.
THEOREM ConnectAlwaysAnswered == Spec => []ConnectAnswered
<1>1. Init => Debt
  BY DEF Init, Debt, Waiting
<1>2. TypeOK /\ Debt => ConnectAnswered
  BY QueuedSingle DEF Debt, ConnectAnswered, Quiet, Waiting
<1>3. QED
  BY <1>1, <1>2, StepDebt, TypeCorrect, PTL DEF Spec

-----------------------------------------------------------------------------
(* The first connection.                                                   *)

\* Of two messages in a queue, every m stands before every n.
Before(m, n, s) == \A i, j \in 1 .. Len(s) : s[i] = m /\ s[j] = n => i < j
\* A message is there once at most.
AtMostOnce(m, s) == \A i, j \in 1 .. Len(s) : s[i] = m /\ s[j] = m => i = j

\* Order and number are kept by taking the first message, ...
LEMMA TailOrder ==
  ASSUME NEW T, NEW s \in Seq(T), s # <<>>, NEW m, NEW n
  PROVE  /\ Before(m, n, s) => Before(m, n, Tail(s))
         /\ AtMostOnce(m, s) => AtMostOnce(m, Tail(s))
         /\ AtMostOnce(m, s) /\ Head(s) = m => ~Queued(m, Tail(s))
         /\ Before(m, n, s) /\ Head(s) = n => ~Queued(m, s)
<1>1. /\ Head(s) = s[1] /\ Len(s) \in Nat /\ Len(s) > 0 /\ Len(Tail(s)) = Len(s) - 1
      /\ \A i \in 1 .. Len(s) - 1 : Tail(s)[i] = s[i + 1]
  OBVIOUS
<1>2. Before(m, n, s) => Before(m, n, Tail(s))
  BY <1>1 DEF Before
<1>3. AtMostOnce(m, s) => AtMostOnce(m, Tail(s))
  BY <1>1 DEF AtMostOnce
<1>4. ASSUME AtMostOnce(m, s), Head(s) = m, NEW i \in 1 .. Len(Tail(s)), Tail(s)[i] = m
      PROVE  FALSE
  <2>1. i + 1 \in 1 .. Len(s) /\ 1 \in 1 .. Len(s) /\ s[i + 1] = m /\ s[1] = m /\ i + 1 # 1
    BY <1>1, <1>4
  <2>2. QED
    BY <1>4, <2>1 DEF AtMostOnce
<1>5. ASSUME Before(m, n, s), Head(s) = n, NEW i \in 1 .. Len(s), s[i] = m
      PROVE  FALSE
  <2>1. 1 \in 1 .. Len(s) /\ s[1] = n /\ ~(i < 1)
    BY <1>1, <1>5
  <2>2. QED
    BY <1>5, <2>1 DEF Before
<1>6. QED
  BY <1>2, <1>3, <1>4, <1>5 DEF Queued

\* ... and by adding one.
LEMMA AppendOrder ==
  ASSUME NEW T, NEW s \in Seq(T), NEW a \in T, NEW m, NEW n, m # n
  PROVE  /\ Before(m, n, s) /\ (a = m => ~Queued(n, s)) => Before(m, n, s \o <<a>>)
         /\ AtMostOnce(m, s) /\ (a = m => ~Queued(m, s)) => AtMostOnce(m, s \o <<a>>)
<1> DEFINE u == s \o <<a>>
<1>1. /\ Len(s) \in Nat /\ Len(u) = Len(s) + 1 /\ u[Len(s) + 1] = a
      /\ \A i \in 1 .. Len(s) : u[i] = s[i]
  OBVIOUS
<1> HIDE DEF u
<1>2. ASSUME Before(m, n, s), a = m => ~Queued(n, s) PROVE Before(m, n, u)
  <2> SUFFICES ASSUME NEW i \in 1 .. Len(u), NEW j \in 1 .. Len(u), u[i] = m, u[j] = n
               PROVE  i < j
    BY DEF Before
  <2>1. CASE i = Len(s) + 1
    <3>1. a = m /\ j # i
      BY <1>1, <2>1
    <3>2. j \in 1 .. Len(s) /\ s[j] = n
      BY <1>1, <2>1, <3>1
    <3>3. QED
      BY <1>2, <3>1, <3>2 DEF Queued
  <2>2. CASE j = Len(s) + 1 /\ i # Len(s) + 1
    BY <1>1, <2>2
  <2>3. CASE i \in 1 .. Len(s) /\ j \in 1 .. Len(s)
    BY <1>1, <1>2, <2>3 DEF Before
  <2>4. QED
    BY <1>1, <2>1, <2>2, <2>3
<1>3. ASSUME AtMostOnce(m, s), a = m => ~Queued(m, s) PROVE AtMostOnce(m, u)
  <2> SUFFICES ASSUME NEW i \in 1 .. Len(u), NEW j \in 1 .. Len(u), u[i] = m, u[j] = m, i # j
               PROVE  FALSE
    BY DEF AtMostOnce
  <2>1. CASE i \in 1 .. Len(s) /\ j \in 1 .. Len(s)
    BY <1>1, <1>3, <2>1 DEF AtMostOnce
  <2>2. CASE i = Len(s) + 1
    <3>1. a = m /\ j \in 1 .. Len(s) /\ s[j] = m
      BY <1>1, <2>2
    <3>2. QED
      BY <1>3, <3>1 DEF Queued
  <2>3. CASE j = Len(s) + 1
    <3>1. a = m /\ i \in 1 .. Len(s) /\ s[i] = m
      BY <1>1, <2>3
    <3>2. QED
      BY <1>3, <3>1 DEF Queued
  <2>4. QED
    BY <1>1, <2>1, <2>2, <2>3
<1>4. QED
  BY <1>2, <1>3 DEF u

\* Other messages do not disturb them.
LEMMA AppendOther ==
  ASSUME NEW T, NEW s \in Seq(T), NEW u \in Seq(T), NEW m, NEW n, ~Queued(m, u)
  PROVE  /\ Before(m, n, s) => Before(m, n, s \o u)
         /\ AtMostOnce(m, s) => AtMostOnce(m, s \o u)
<1> DEFINE w == s \o u
<1>1. /\ Len(s) \in Nat /\ Len(u) \in Nat /\ Len(w) = Len(s) + Len(u)
      /\ \A i \in 1 .. Len(s) : w[i] = s[i]
  OBVIOUS
<1>2. \A i \in 1 .. Len(w) : i > Len(s) => w[i] = u[i - Len(s)] /\ i - Len(s) \in 1 .. Len(u)
  OBVIOUS
<1> HIDE DEF w
<1>3. \A i \in 1 .. Len(w) : w[i] = m => i \in 1 .. Len(s) /\ s[i] = m
  BY <1>1, <1>2 DEF Queued
<1>4. ASSUME Before(m, n, s), NEW i \in 1 .. Len(w), NEW j \in 1 .. Len(w), w[i] = m, w[j] = n
      PROVE  i < j
  <2>1. i \in 1 .. Len(s) /\ s[i] = m
    BY <1>3, <1>4
  <2>2. CASE j \in 1 .. Len(s)
    BY <1>1, <1>4, <2>1, <2>2 DEF Before
  <2>3. CASE j \notin 1 .. Len(s)
    BY <1>1, <2>1, <2>3
  <2>4. QED
    BY <2>2, <2>3
<1>5. AtMostOnce(m, s) => AtMostOnce(m, w)
  BY <1>3 DEF AtMostOnce
<1>6. Before(m, n, s) => Before(m, n, w)
  BY <1>4 DEF Before
<1>7. QED
  BY <1>5, <1>6 DEF w

\* SETUP and GOAWAY of a peer that keeps to the protocol.
Lined(q) == AtMostOnce("setup", q) /\ AtMostOnce("goaway", q) /\ Before("setup", "goaway", q)

LEMMA LinedKept ==
  ASSUME Typed, Lined(toMain)
  PROVE  /\ \A u \in Seq(Reported) : Answer(u) /\ ~Queued("setup", u) /\ ~Queued("goaway", u)
                                     => Lined(toMain')
         /\ Answer(<<"setup">>) /\ ~Queued("setup", toMain) /\ ~Queued("goaway", toMain)
              => Lined(toMain')
         /\ Answer(<<"goaway">>) /\ ~Queued("goaway", toMain) => Lined(toMain')
         /\ \A m : Receive(m) => Lined(toMain')
<1>1. toMain \in Seq(Reported) /\ "setup" \in Reported /\ "goaway" \in Reported
  BY ReportedAre DEF Typed
<1>2. ASSUME NEW u \in Seq(Reported), Answer(u), ~Queued("setup", u), ~Queued("goaway", u)
      PROVE  Lined(toMain')
  BY <1>1, <1>2, AppendOther DEF Answer, Lined
<1>3. ASSUME Answer(<<"setup">>), ~Queued("setup", toMain), ~Queued("goaway", toMain)
      PROVE  Lined(toMain')
  <2>1. /\ Before("setup", "goaway", toMain \o <<"setup">>)
        /\ AtMostOnce("setup", toMain \o <<"setup">>)
        /\ AtMostOnce("goaway", toMain \o <<"setup">>)
    BY <1>1, <1>3, AppendOrder DEF Lined
  <2>2. QED
    BY <1>3, <2>1 DEF Answer, Lined
<1>4. ASSUME Answer(<<"goaway">>), ~Queued("goaway", toMain) PROVE Lined(toMain')
  <2>1. /\ Before("setup", "goaway", toMain \o <<"goaway">>)
        /\ AtMostOnce("setup", toMain \o <<"goaway">>)
        /\ AtMostOnce("goaway", toMain \o <<"goaway">>)
    BY <1>1, <1>4, AppendOrder DEF Lined
  <2>2. QED
    BY <1>4, <2>1 DEF Answer, Lined
<1>5. ASSUME NEW m, Receive(m) PROVE Lined(toMain')
  <2>1. CASE heard + 1 < handlers
    BY <1>5, <2>1 DEF Receive
  <2>2. CASE ~(heard + 1 < handlers)
    <3>1. toMain # <<>> /\ toMain' = Tail(toMain)
      BY <1>5, <2>2 DEF Receive
    <3>2. Lined(Tail(toMain))
      BY <1>1, <3>1, TailOrder DEF Lined
    <3>3. QED
      BY <3>1, <3>2
  <2>3. QED
    BY <2>1, <2>2
<1>6. QED
  BY <1>2, <1>3, <1>4, <1>5

\* On the first connection each message of the peer is on its way or has been heeded,
\* in the order it was sent, by the one handler there is.
Heeded ==
  /\ handlers \in {0, 1} /\ (handlers = 0 => sent = {})
  /\ ~garbled /\ ~accused
  /\ seen => "setup" \in sent
  /\ goaway => "goaway" \in sent
  /\ "goaway" \in sent => "setup" \in sent
  /\ Queued("setup", toMain) <=> "setup" \in sent /\ ~seen
  /\ Queued("goaway", toMain) => "goaway" \in sent /\ ~goaway
  /\ Lined(toMain)

\* A second connection is being made, or has been.
Linking ==
  \/ link = "connecting" \/ Queued("connected", toMain)
  \/ \E m \in Migrations : pc[m] \in {"linked", "setup"}

First ==
  /\ connects > 0
  /\ Linking => connects > 1
  /\ connects = 1 => Heeded

LEMMA InitFirst == Init => First
<1> SUFFICES ASSUME Init PROVE First
  OBVIOUS
<1>1. /\ connects = 1 /\ toMain = <<>> /\ handlers = 0 /\ sent = {}
      /\ seen = FALSE /\ goaway = FALSE /\ garbled = FALSE /\ accused = FALSE /\ link = "up"
      /\ \A m \in Migrations : pc[m] = "idle"
  BY DEF Init
<1>2. Len(<<>>) = 0 /\ 1 .. 0 = {}
  OBVIOUS
<1>3. Lined(<<>>)
  BY <1>2 DEF Lined, AtMostOnce, Before
<1>4. ~Linking
  BY <1>1, QueuedSingle DEF Linking
<1>5. Heeded
  BY <1>1, <1>3, QueuedSingle DEF Heeded
<1>6. QED
  BY <1>1, <1>4, <1>5 DEF First

\* What is neither SETUP nor GOAWAY does not disturb the peer's messages.
LEMMA OtherAnswer ==
  ASSUME Typed, First, NEW u \in Seq(Reported), Answer(u),
         \A m \in {"setup", "goaway"} : ~Queued(m, u),
         Queued("connected", u) => Linking, link' = "connecting" => Linking,
         UNCHANGED <<pc, control, accused, sent, connects>>
  PROVE  First'
<1>1. \A m : Queued(m, toMain') <=> Queued(m, toMain) \/ Queued(m, u)
  BY AnswerQueues
<1>2. Linking' => Linking
  BY <1>1 DEF Linking
<1>3. ASSUME Heeded PROVE Heeded'
  <2>1. Lined(toMain')
    BY <1>3, LinedKept DEF Heeded
  <2>2. /\ Queued("setup", toMain') <=> Queued("setup", toMain)
        /\ Queued("goaway", toMain') <=> Queued("goaway", toMain)
    BY <1>1
  <2>3. QED
    BY <1>3, <2>1, <2>2 DEF Heeded, control
<1>4. QED
  BY <1>2, <1>3 DEF First

LEMMA OtherReceive ==
  ASSUME Typed, First, NEW n, n \notin {"setup", "goaway"}, Receive(n),
         \A m \in Migrations : pc'[m] \in {"linked", "setup"} => pc[m] \in {"linked", "setup"},
         UNCHANGED <<control, accused, worker>>
  PROVE  First'
<1>1. \A m \in {"setup", "goaway"} : Queued(m, toMain') <=> Queued(m, toMain)
  BY ReceiveQueues
<1>2. Queued("connected", toMain') => Queued("connected", toMain)
  <2>1. CASE n = "connected"
    <3>1. toMain # <<>> /\ Head(toMain) = n /\ toMain \in Seq(Reported)
      BY DEF Receive, Typed
    <3>2. QED
      BY <2>1, <3>1, QueuedTail
  <2>2. CASE n # "connected"
    BY <2>2, ReceiveQueues
  <2>3. QED
    BY <2>1, <2>2
<1>3. Linking' => Linking
  BY <1>2 DEF Linking, worker
<1>4. ASSUME Heeded PROVE Heeded'
  <2>1. Lined(toMain')
    BY <1>4, LinedKept DEF Heeded
  <2>2. QED
    BY <1>1, <1>4, <2>1 DEF Heeded, control, worker
<1>5. QED
  BY <1>3, <1>4 DEF First, worker

LEMMA StepFirst == ASSUME PromptSetup PROVE TypeOK /\ First /\ [Next]_vars => First'
<1> SUFFICES ASSUME Typed, First, [Next]_vars PROVE First'
  BY TypedIsTypeOK
<1>1. /\ pc \in [Migrations -> {"idle", "closing", "connecting", "linked", "setup"}]
      /\ toMain \in Seq(Reported) /\ connects \in Nat /\ heard \in Nat /\ handlers \in Nat
  BY DEF Typed, LoopTyped, WorkerTyped, ControlTyped
<1>2. ASSUME UNCHANGED <<control, accused, queue, worker>>,
             \A m \in Migrations : pc'[m] \in {"linked", "setup"} => pc[m] \in {"linked", "setup"}
      PROVE  First'
  <2>1. Linking' => Linking
    BY <1>2 DEF Linking, queue, worker
  <2>2. Heeded => Heeded'
    BY <1>2 DEF Heeded, control, queue, worker
  <2>3. QED
    BY <1>2, <2>1, <2>2 DEF First, worker
<1>3. ASSUME Linking, UNCHANGED connects PROVE First'
  BY <1>1, <1>3 DEF First
<1>4. ASSUME NEW failing \in SUBSET Migrations, Failed(failing)
      PROVE  \A m \in Migrations : pc'[m] \in {"linked", "setup"} => pc[m] \in {"linked", "setup"}
  BY <1>4 DEF Failed
<1>5. CASE UNCHANGED vars \/ Hold \/ UserCloses
  BY <1>2, <1>5 DEF vars, loop, Hold, UserCloses
<1>6. CASE UserMigrates \/ AutoMigrates
  BY <1>1, <1>2, <1>6 DEF UserMigrates, AutoMigrates, StartMigration
<1>7. ASSUME NEW c \in Setups, SetupTimesOut(c) PROVE First'
  BY <1>2, <1>4, <1>7 DEF SetupTimesOut
<1>8. ASSUME NEW c \in Closers, CloseEnds(c) PROVE First'
  <2>1. UNCHANGED pc \/ pc' = [pc EXCEPT ![c] = "connecting"]
    BY <1>8 DEF CloseEnds
  <2>2. QED
    BY <1>1, <1>2, <1>8, <2>1 DEF CloseEnds
<1>9. CASE UserSetup
  <2>1. /\ handlers = 0 /\ handlers' = handlers + 1
        /\ seen' = FALSE /\ goaway' = FALSE /\ garbled' = FALSE
        /\ UNCHANGED <<pc, toMain, link, sent, connects, accused>>
    BY <1>9 DEF UserSetup, Setup, loop, queue, worker
  <2>2. Linking' => Linking
    BY <2>1 DEF Linking
  <2>3. Heeded => Heeded'
    BY <2>1 DEF Heeded
  <2>4. QED
    BY <2>1, <2>2, <2>3 DEF First
<1>10. ASSUME NEW m \in Migrations, Linked(m) PROVE First'
  BY <1>3, <1>10 DEF Linked, Linking, worker
<1>11. CASE Reads
  <2>1. CASE ReceiveConnected
    <3>1. toMain # <<>> /\ Head(toMain) = "connected" /\ UNCHANGED connects
      BY <2>1 DEF ReceiveConnected, Receive, worker
    <3>2. Queued("connected", toMain)
      BY <1>1, <3>1, QueuedTail
    <3>3. QED
      BY <1>3, <3>1, <3>2 DEF Linking
  <2>2. CASE ReceiveError
    <3>1. DEFINE failing == {m \in Migrations : pc[m] = "connecting"}
    <3>2. failing \in SUBSET Migrations /\ Failed(failing)
      BY <2>2 DEF ReceiveError
    <3>3. QED
      BY <1>4, <2>2, <3>2, OtherReceive DEF ReceiveError
  <2>3. CASE ReceiveClosed
    BY <2>3, OtherReceive DEF ReceiveClosed, loop
  <2>4. CASE ReceiveSetup
    <3>1. toMain # <<>> /\ Head(toMain) = "setup" /\ UNCHANGED worker
      BY <2>4 DEF ReceiveSetup, Receive
    <3>2. Queued("setup", toMain)
      BY <1>1, <3>1, QueuedTail
    <3>3. ASSUME Linking' PROVE Linking
      <4>1. Queued("connected", toMain') => Queued("connected", toMain)
        BY <2>4, ReceiveQueues DEF ReceiveSetup
      <4>2. UNCHANGED loop \/ AcceptSetup
        BY <2>4 DEF ReceiveSetup
      <4>3. \A m \in Migrations : pc'[m] # "idle" => pc'[m] = pc[m]
        BY <1>1, <4>2 DEF AcceptSetup, loop
      <4>4. QED
        BY <3>1, <3>3, <4>1, <4>3 DEF Linking, worker
    <3>4. ASSUME Heeded PROVE Heeded'
      <4>1. handlers = 1 /\ ~seen /\ "setup" \in sent
        BY <3>2, <3>4 DEF Heeded
      <4>2. AcceptSetup
        BY <2>4, <4>1 DEF ReceiveSetup
      <4>3. ~Queued("setup", toMain')
        <5>1. toMain' = Tail(toMain)
          BY <1>1, <2>4, <4>1 DEF ReceiveSetup, Receive
        <5>2. AtMostOnce("setup", toMain)
          BY <3>4 DEF Heeded, Lined
        <5>3. QED
          BY <1>1, <3>1, <5>1, <5>2, TailOrder
      <4>4. Queued("goaway", toMain') <=> Queued("goaway", toMain)
        BY <2>4, ReceiveQueues DEF ReceiveSetup
      <4>5. Lined(toMain')
        BY <2>4, <3>4, LinedKept DEF ReceiveSetup, Heeded
      <4>6. QED
        BY <3>1, <3>4, <4>1, <4>2, <4>3, <4>4, <4>5 DEF AcceptSetup, Heeded, worker
    <3>5. QED
      BY <3>1, <3>3, <3>4 DEF First, worker
  <2>5. CASE ReceiveGoAway
    <3>1. toMain # <<>> /\ Head(toMain) = "goaway" /\ UNCHANGED <<worker, pc>>
      BY <2>5 DEF ReceiveGoAway, Receive
    <3>2. Queued("goaway", toMain)
      BY <1>1, <3>1, QueuedTail
    <3>3. ASSUME Linking' PROVE Linking
      <4>1. Queued("connected", toMain') => Queued("connected", toMain)
        BY <2>5, ReceiveQueues DEF ReceiveGoAway
      <4>2. QED
        BY <3>1, <3>3, <4>1 DEF Linking, worker
    <3>4. ASSUME Heeded PROVE Heeded'
      <4>1. ~Queued("setup", toMain)
        BY <1>1, <3>1, <3>4, TailOrder DEF Heeded, Lined
      <4>2. seen /\ ~goaway /\ ~garbled /\ "goaway" \in sent /\ handlers = 1
        BY <3>2, <3>4, <4>1 DEF Heeded
      <4>3. goaway' = TRUE /\ UNCHANGED <<accused, seen, garbled, handlers>>
        BY <2>5, <4>2 DEF ReceiveGoAway
      <4>4. ~Queued("goaway", toMain')
        <5>1. toMain' = Tail(toMain)
          BY <1>1, <2>5, <4>2 DEF ReceiveGoAway, Receive
        <5>2. AtMostOnce("goaway", toMain)
          BY <3>4 DEF Heeded, Lined
        <5>3. QED
          BY <1>1, <3>1, <5>1, <5>2, TailOrder
      <4>5. Queued("setup", toMain') <=> Queued("setup", toMain)
        BY <2>5, ReceiveQueues DEF ReceiveGoAway
      <4>6. Lined(toMain')
        BY <2>5, <3>4, LinedKept DEF ReceiveGoAway, Heeded
      <4>7. QED
        BY <3>1, <3>4, <4>2, <4>3, <4>4, <4>5, <4>6 DEF Heeded, worker
    <3>5. QED
      BY <3>1, <3>3, <3>4 DEF First, worker
  <2>6. QED
    BY <1>11, <2>1, <2>2, <2>3, <2>4, <2>5 DEF Reads
<1>12. CASE Works \/ PeerCloses \/ \E m \in {"setup", "goaway"} : PeerSends(m)
  <2>1. UNCHANGED Session
    BY <1>12 DEF Works, WorkerConnects, WorkerConnected, WorkerConnectFails,
      WorkerDisconnects, WorkerDisconnectEnds, WorkerSends, PeerCloses, PeerSends
  <2>2. UNCHANGED <<pc, control, accused>>
    BY <2>1 DEF Session, loop
  <2>3. ASSUME NEW a \in Reported \ {"setup", "goaway", "connected"}, Answer(<<a>>),
               link' = "connecting" => Linking, UNCHANGED <<sent, connects>>
        PROVE  First'
    <3>1. <<a>> \in Seq(Reported)
      BY AnswersTyped
    <3>2. QED
      BY <2>2, <2>3, <3>1, QueuedSingle, OtherAnswer
  <2>4. CASE WorkerConnects
    <3>1. CASE link # "none"
      BY <2>3, <2>4, <3>1, ReportedAre DEF WorkerConnects, Linking, worker
    <3>2. CASE link = "none"
      <4>1. connects' = connects + 1 /\ connects > 0
        BY <2>4, <3>2 DEF WorkerConnects, First
      <4>2. QED
        BY <1>1, <4>1 DEF First
    <3>3. QED
      BY <3>1, <3>2
  <2>5. CASE WorkerConnected
    BY <1>3, <2>5 DEF WorkerConnected, Linking
  <2>6. CASE WorkerConnectFails
    BY <1>3, <2>6 DEF WorkerConnectFails, Linking
  <2>7. ASSUME Disconnected PROVE First'
    <3>1. CASE link = "connecting"
      BY <1>3, <2>7, <3>1 DEF Disconnected, Linking
    <3>2. CASE link # "connecting"
      BY <2>3, <2>7, <3>2, ReportedAre DEF Disconnected
    <3>3. QED
      BY <3>1, <3>2
  <2>8. ASSUME UNCHANGED <<toMain, link, sent, connects>> PROVE First'
    <3>1. Linking' => Linking
      BY <2>2, <2>8 DEF Linking
    <3>2. Heeded => Heeded'
      BY <2>2, <2>8 DEF Heeded, control
    <3>3. QED
      BY <2>8, <3>1, <3>2 DEF First
  <2>9. CASE WorkerDisconnects \/ WorkerDisconnectEnds
    BY <2>7, <2>8, <2>9 DEF WorkerDisconnects, WorkerDisconnectEnds
  <2>10. CASE WorkerSends
    BY <2>3, <2>8, <2>10, ReportedAre DEF WorkerSends, worker, Linking
  <2>11. CASE PeerCloses
    BY <2>3, <2>11, ReportedAre DEF PeerCloses
  <2>12. CASE PeerSends("setup")
    <3>1. /\ Answer(<<"setup">>) /\ <<"setup">> \in Seq(Reported) /\ UNCHANGED <<link, connects>>
          /\ sent' = sent \cup {"setup"} /\ "setup" \notin sent /\ handlers > 0
      BY <2>12, AnswersTyped, ReportedAre DEF PeerSends
    <3>2. \A m : Queued(m, toMain') <=> Queued(m, toMain) \/ m = "setup"
      <4>1. \A m : Queued(m, <<"setup">>) <=> "setup" = m
        BY QueuedSingle
      <4>2. \A m : Queued(m, toMain') <=> Queued(m, toMain) \/ Queued(m, <<"setup">>)
        BY <3>1, AnswerQueues
      <4>3. QED
        BY <4>1, <4>2
    <3>3. Linking' => Linking
      BY <2>2, <3>1, <3>2 DEF Linking
    <3>4. ASSUME Heeded PROVE Heeded'
      <4>1. ~Queued("setup", toMain) /\ ~Queued("goaway", toMain) /\ ~seen
        BY <3>1, <3>4 DEF Heeded
      <4>2. Lined(toMain')
        BY <3>1, <3>4, <4>1, LinedKept DEF Heeded
      <4>3. Queued("setup", toMain') /\ ~Queued("goaway", toMain')
        BY <3>2, <4>1
      <4>4. QED
        BY <2>2, <3>1, <3>4, <4>1, <4>2, <4>3 DEF Heeded, control
    <3>5. QED
      BY <3>1, <3>3, <3>4 DEF First
  <2>13. CASE PeerSends("goaway")
    <3>1. /\ Answer(<<"goaway">>) /\ <<"goaway">> \in Seq(Reported)
          /\ UNCHANGED <<link, connects>> /\ sent' = sent \cup {"goaway"}
          /\ "goaway" \notin sent /\ "setup" \in sent
      BY <2>13, AnswersTyped, ReportedAre DEF PeerSends
    <3>2. \A m : Queued(m, toMain') <=> Queued(m, toMain) \/ m = "goaway"
      <4>1. \A m : Queued(m, <<"goaway">>) <=> "goaway" = m
        BY QueuedSingle
      <4>2. \A m : Queued(m, toMain') <=> Queued(m, toMain) \/ Queued(m, <<"goaway">>)
        BY <3>1, AnswerQueues
      <4>3. QED
        BY <4>1, <4>2
    <3>3. Linking' => Linking
      BY <2>2, <3>1, <3>2 DEF Linking
    <3>4. ASSUME Heeded PROVE Heeded'
      <4>1. ~Queued("goaway", toMain) /\ ~goaway
        BY <3>1, <3>4 DEF Heeded
      <4>2. Lined(toMain')
        BY <3>1, <3>4, <4>1, LinedKept DEF Heeded
      <4>3. Queued("setup", toMain') <=> Queued("setup", toMain)
        BY <3>2
      <4>4. QED
        BY <2>2, <3>1, <3>4, <4>1, <4>2, <4>3 DEF Heeded, control
    <3>5. QED
      BY <3>1, <3>3, <3>4 DEF First
  <2>14. QED
    BY <1>12, <2>4, <2>5, <2>6, <2>9, <2>10, <2>11, <2>12, <2>13 DEF Works
<1>13. QED
  BY <1>5, <1>6, <1>7, <1>8, <1>9, <1>10, <1>11, <1>12 DEF Next

\* A session that stays with its first connection, of an application that calls
\* setup() before the peer's SETUP arrives, never closes itself for a violation of a
\* peer that commits none, whatever is closed, lost or late.
THEOREM NotAccusedAtFirst == ASSUME PromptSetup PROVE Spec => []NeverAccusedAtFirst
<1>1. First => NeverAccusedAtFirst
  BY DEF First, Heeded, NeverAccusedAtFirst
<1>2. QED
  BY <1>1, InitFirst, StepFirst, TypeCorrect, PTL DEF Spec
=============================================================================
