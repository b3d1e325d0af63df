-------------------------- MODULE SessionLifecycle --------------------------
(***************************************************************************)
(* The life of a draft-18/22 MOQTSession in worker mode: setup(), goAway   *)
(* of the peer, close(), migrate() and the auto-migrate loop of            *)
(* packages/session/src/session.ts, the client of the transport worker     *)
(* (workers/transport-worker-api.ts) and the worker that owns the          *)
(* connection (workers/transport-worker.ts).  The session and the worker   *)
(* are two threads that post messages to each other, so a message of an    *)
(* old connection can still arrive when the session is closed, or has      *)
(* already asked for the next one.                                         *)
(*                                                                         *)
(* The peer keeps to the protocol: one SETUP and at most one GOAWAY on a   *)
(* connection.  close() suspends wherever it awaits; the continuation of   *)
(* an await that nothing else can precede (a microtask) runs before the    *)
(* next message is received.                                               *)
(***************************************************************************)
EXTENDS Integers, Sequences

CONSTANTS
  AutoMigrate,   \* workerConfig.autoMigrate
  MaxAttempts,   \* attempts the reconnect policy allows
  MaxConnects,   \* bound: the peer may close each of the first MaxConnects connections,
                 \* and sends GOAWAY on all of them but the last
  MaxCalls,      \* bound: calls of close() and migrate() by the application
  PromptSetup    \* the application calls setup() before the peer's SETUP arrives

ASSUME LifecycleAssumption ==
  /\ AutoMigrate \in BOOLEAN /\ PromptSetup \in BOOLEAN
  /\ MaxAttempts \in Nat \ {0} /\ MaxConnects \in Nat /\ MaxCalls \in Nat

\* The callers of migrate(), of setup() and of close().
Migrations == {"manual", "auto"}
Setups     == Migrations \cup {"user"}
Closers    == Setups \cup {"accuse"}

VARIABLES
  state,     \* _state of the session
  machine,   \* state of its ConnectionStateMachine
  seen,      \* peerSetupSeen
  garbled,   \* setupBuffer holds bytes that no message begins with
  goaway,    \* goAwayReceived
  handlers,  \* how many times the worker's events have been subscribed to
  pending,   \* _pendingMigrationUri is set
  held,      \* the session has publications or subscriptions
  waiter,    \* the setup() call that onSetupMessage will resolve
  waits,     \* setup() calls that have not settled
  closing,   \* close() calls in their teardown
  migrating, \* _migrating
  pc,        \* where each migrate() call is
  auto,      \* the auto-migrate loop
  attempts,  \* its failed attempts
  asked,     \* calls of close() and migrate() by the application
  toWorker, toMain, \* the messages between the threads
  heard,     \* handlers that have had the first message of toMain
  link,      \* the worker's transport
  hanging,   \* disconnect() calls of the worker that await their streams' close
  sent,      \* what the peer has sent on its control stream
  connects,  \* connections made
  accused,   \* history: the session closed itself for a protocol violation
  lost       \* history: a SETUP arrived before anybody listened

public  == <<state, machine>>
control == <<seen, garbled, goaway, handlers>>
calls   == <<waiter, waits>>
loop    == <<pending, migrating, pc, auto, attempts, asked>>
queue   == <<toMain, heard>>
worker  == <<link, hanging, sent, connects>>
vars    == <<public, control, held, calls, closing, loop, toWorker, queue, worker, accused, lost>>

TypeOK ==
  /\ state \in {"none", "setup", "ready", "closing", "error"}
  /\ machine \in {"disconnected", "connecting", "setup_sent", "connected", "closing", "error"}
  /\ {seen, garbled, goaway, pending, migrating, held, accused, lost} \subseteq BOOLEAN
  /\ {handlers, attempts, asked, hanging, connects, heard} \subseteq Nat
  /\ waiter \in Setups \cup {"nobody"} /\ waits \subseteq Setups
  /\ closing \subseteq Closers
  /\ pc \in [Migrations -> {"idle", "closing", "connecting", "linked", "setup"}]
  /\ auto \in {"idle", "scheduled", "trying", "waiting", "gaveup"}
  /\ toWorker \in Seq({"connect", "disconnect", "control"})
  /\ toMain \in Seq({"connected", "error", "disconnected", "lost", "failed", "setup", "goaway"})
  /\ link \in {"none", "connecting", "up"}
  /\ sent \subseteq {"setup", "goaway"}

\* connect() has been awaited; the application has not called setup() yet.
Init ==
  /\ state = "none" /\ machine = "disconnected"
  /\ seen = FALSE /\ garbled = FALSE /\ goaway = FALSE /\ handlers = 0
  /\ held = FALSE /\ waiter = "nobody" /\ waits = {} /\ closing = {}
  /\ pending = FALSE /\ migrating = FALSE /\ pc = [m \in Migrations |-> "idle"]
  /\ auto = "idle" /\ attempts = 0 /\ asked = 0
  /\ toWorker = <<>> /\ toMain = <<>> /\ heard = 0
  /\ link = "up" /\ hanging = 0 /\ sent = {} /\ connects = 1
  /\ accused = FALSE /\ lost = FALSE

-----------------------------------------------------------------------------
(* Parts of the session.                                                   *)

\* Mutant of Mapped: the names of the session are taken as they are.
MappedAsIs(s) == s

\* sessionStateToConnectionState
Mapped(s) ==
  CASE s = "none" -> "disconnected" [] s = "setup" -> "setup_sent"
    [] s = "ready" -> "connected" [] OTHER -> s

\* setState: the state machine follows, by force when its table refuses.
SetState(new) == state' = new /\ machine' = IF new = state THEN machine ELSE Mapped(new)

Post(ms) == toWorker' = toWorker \o ms

\* The beginning of a close().
StartClose(c) == closing' = closing \cup {c}

\* Continuations that nothing can precede: of an await that is settled at once.
Microtask ==
  \/ auto = "scheduled"
  \/ \E m \in Migrations : pc[m] = "linked"
  \/ closing # {} /\ ~held

\* The next message of the worker goes to each of the handlers in turn.
Receive(m) ==
  /\ toMain # <<>> /\ Head(toMain) = m
  /\ heard > 0 \/ ~Microtask
  /\ IF heard + 1 < handlers
     THEN heard' = heard + 1 /\ UNCHANGED toMain
     ELSE heard' = 0 /\ toMain' = Tail(toMain)

-----------------------------------------------------------------------------
(* setup() and close()                                                     *)

\* setup(): everything of the old connection is forgotten, the worker's events are
\* subscribed to (once more), and SETUP is sent.
Setup(c) ==
  /\ SetState("setup")
  /\ seen' = FALSE /\ garbled' = FALSE /\ goaway' = FALSE
  /\ handlers' = handlers + 1
  /\ waiter' = c /\ waits' = waits \cup {c}
  /\ Post(<<"control">>)

\* bound: the application sets the session up once, and closes or migrates it only
\* from then on.
UserSetup ==
  /\ state = "none" /\ handlers = 0
  /\ Setup("user")
  /\ UNCHANGED <<held, closing, loop, queue, worker, accused, lost>>

\* Mutant of Failed: the loop does not hear of it.
FailedUnheard(failing) ==
  /\ migrating' = (migrating /\ failing = {})
  /\ pc' = [m \in Migrations |-> IF m \in failing THEN "idle" ELSE pc[m]]
  /\ UNCHANGED <<pending, asked, attempts, auto>>

\* What the migrate() calls that fail leave: the loop waits for its next attempt,
\* or gives up when the policy allows no more.
Failed(failing) ==
  /\ migrating' = (migrating /\ failing = {})
  /\ pc' = [m \in Migrations |-> IF m \in failing THEN "idle" ELSE pc[m]]
  /\ IF "auto" \in failing
     THEN /\ attempts' = attempts + 1
          /\ auto' = IF attempts + 1 < MaxAttempts THEN "waiting" ELSE "gaveup"
     ELSE UNCHANGED <<attempts, auto>>
  /\ UNCHANGED <<pending, asked>>

\* Mutant of SetupTimesOut: the promise of a migrate() is not rejected.
SetupTimesOutUnheard(c) ==
  /\ c \in waits \ Migrations
  /\ waits' = waits \ {c}
  /\ UNCHANGED <<public, control, held, waiter, closing, loop, toWorker, queue, worker, accused,
                 lost>>

\* The 10 s of a setup() call are over; onSetupMessage stays.
SetupTimesOut(c) ==
  /\ c \in waits
  /\ waits' = waits \ {c}
  /\ Failed({c} \cap Migrations)
  /\ UNCHANGED <<public, control, held, waiter, closing, toWorker, queue, worker, accused, lost>>

\* The application subscribes or publishes.
Hold ==
  /\ state = "ready" /\ held' = TRUE
  /\ UNCHANGED <<public, control, calls, closing, loop, toWorker, queue, worker, accused, lost>>

UserCloses ==
  /\ state # "none" /\ asked < MaxCalls
  /\ asked' = asked + 1
  /\ StartClose("user")
  /\ UNCHANGED <<public, control, held, calls, pending, migrating, pc, auto, attempts, toWorker, queue, worker, accused, lost>>

\* The end of a close(): the managers are cleared, the worker is told, and the
\* state is assigned past setState.  A migrate() that awaited it connects at once.
CloseEnds(c) ==
  /\ c \in closing
  /\ closing' = closing \ {c} /\ held' = FALSE
  /\ state' = "none" /\ UNCHANGED machine
  /\ IF c \in Migrations
     THEN /\ Post(<<"disconnect", "connect">>)
          /\ pc' = [pc EXCEPT ![c] = "connecting"]
     ELSE Post(<<"disconnect">>) /\ UNCHANGED pc
  /\ UNCHANGED <<control, calls, pending, migrating, auto, attempts, asked, queue, worker,
                 accused, lost>>

-----------------------------------------------------------------------------
(* migrate() and the auto-migrate loop                                     *)

StartMigration(m) ==
  /\ migrating' = TRUE
  /\ pc' = [pc EXCEPT ![m] = "closing"]
  /\ StartClose(m)

UserMigrates ==
  /\ pc["manual"] = "idle" /\ asked < MaxCalls /\ state # "none"
  /\ asked' = asked + 1
  /\ StartMigration("manual")
  /\ UNCHANGED <<public, control, held, calls, pending, auto, attempts, toWorker, queue, worker,
                 accused, lost>>

\* An attempt of the loop, unless the URI it began with is no longer pending.
AutoMigrates ==
  /\ auto \in {"scheduled", "waiting"}
  /\ IF pending THEN auto' = "trying" /\ StartMigration("auto")
     ELSE auto' = "idle" /\ UNCHANGED <<migrating, pc, closing>>
  /\ UNCHANGED <<public, control, held, calls, pending, attempts, asked, toWorker, queue,
                 worker, accused, lost>>

\* The connection is there: migrate() calls setup(), which throws unless the
\* session is in state none.
Linked(m) ==
  /\ pc[m] = "linked"
  /\ IF state = "none"
     THEN /\ Setup(m) /\ pc' = [pc EXCEPT ![m] = "setup"]
          /\ UNCHANGED <<pending, migrating, auto, attempts, asked>>
     ELSE Failed({m}) /\ UNCHANGED <<public, control, calls, toWorker>>
  /\ UNCHANGED <<held, closing, queue, worker, accused, lost>>

-----------------------------------------------------------------------------
(* Messages of the worker.                                                 *)

\* 'connected' resolves every connect() that waits.
ReceiveConnected ==
  /\ Receive("connected")
  /\ pc' = [m \in Migrations |-> IF pc[m] = "connecting" THEN "linked" ELSE pc[m]]
  /\ UNCHANGED <<public, control, held, calls, closing, pending, migrating, auto, attempts,
                 asked, toWorker, worker, accused, lost>>

\* 'error' is an error of the session, and rejects every connect() that waits.
ReceiveError ==
  /\ Receive("error")
  /\ IF handlers > 0 THEN SetState("error") ELSE UNCHANGED public
  /\ Failed({m \in Migrations : pc[m] = "connecting"})
  /\ UNCHANGED <<control, held, calls, closing, toWorker, worker, accused, lost>>

\* handleTransportClosed: a close of our own and any close during a migration are
\* passed over; the peer's ends the session, or is an error.
ReceiveClosed ==
  /\ \/ Receive("disconnected") /\ UNCHANGED public
     \/ Receive("lost") /\ IF migrating THEN UNCHANGED public ELSE SetState("none")
     \/ Receive("failed") /\ IF migrating THEN UNCHANGED public ELSE SetState("error")
  /\ UNCHANGED <<control, held, calls, closing, loop, toWorker, worker, accused, lost>>

\* Mutant of AcceptSetup: peerSetupSeen is not set.
AcceptSetupUnseen ==
  /\ SetState("ready")
  /\ waits' = waits \ {waiter}
  /\ IF waiter \in waits \cap Migrations
     THEN /\ pending' = FALSE /\ migrating' = FALSE
          /\ pc' = [pc EXCEPT ![waiter] = "idle"]
          /\ auto' = IF waiter = "auto" THEN "idle" ELSE auto
          /\ UNCHANGED <<attempts, asked>>
     ELSE UNCHANGED loop
  /\ UNCHANGED <<seen, garbled, goaway, handlers, waiter, closing, accused>>

\* The peer's SETUP: the session is ready and the setup() that waits is resolved,
\* which ends a migrate().
AcceptSetup ==
  /\ seen' = TRUE /\ SetState("ready")
  /\ waits' = waits \ {waiter}
  /\ IF waiter \in waits \cap Migrations
     THEN /\ pending' = FALSE /\ migrating' = FALSE
          /\ pc' = [pc EXCEPT ![waiter] = "idle"]
          /\ auto' = IF waiter = "auto" THEN "idle" ELSE auto
          /\ UNCHANGED <<attempts, asked>>
     ELSE UNCHANGED loop
  /\ UNCHANGED <<garbled, goaway, handlers, waiter, closing, accused>>

\* The session closes itself for what it read.
Accuse == accused' = TRUE /\ StartClose("accuse")

ReceiveSetup ==
  /\ Receive("setup")
  /\ IF handlers = 0
     THEN lost' = TRUE /\ UNCHANGED <<public, control, calls, loop, closing, accused>>
     ELSE /\ IF ~seen THEN AcceptSetup
             \* its bytes again, read as a control message
             ELSE /\ (garbled' = TRUE /\ UNCHANGED <<closing, accused>>)
                     \/ (UNCHANGED garbled /\ Accuse)
                  /\ UNCHANGED <<public, seen, goaway, handlers, calls, loop>>
          /\ UNCHANGED lost
  /\ UNCHANGED <<held, toWorker, worker>>

\* GOAWAY: only one is acceptable.  The session is closing, and the loop begins
\* after the current task.
ReceiveGoAway ==
  /\ Receive("goaway")
  /\ IF garbled \/ ~seen THEN UNCHANGED <<public, goaway, pending, auto, attempts>>
                              /\ (Accuse \/ UNCHANGED <<closing, accused>>)
     ELSE IF goaway THEN Accuse /\ UNCHANGED <<public, goaway, pending, auto, attempts>>
     ELSE /\ goaway' = TRUE /\ pending' = TRUE
          /\ SetState("closing")
          /\ IF AutoMigrate /\ auto \in {"idle", "gaveup"}
             THEN auto' = "scheduled" /\ attempts' = 0 ELSE UNCHANGED <<auto, attempts>>
          /\ UNCHANGED <<closing, accused>>
  /\ UNCHANGED <<seen, garbled, handlers, held, calls, migrating, pc, asked, toWorker, worker,
                 lost>>

-----------------------------------------------------------------------------
(* The worker and the peer.                                                *)

Session == <<public, control, held, calls, closing, loop, accused, lost>>

Answer(ms) == toMain' = toMain \o ms
Take(m) == toWorker # <<>> /\ Head(toWorker) = m /\ toWorker' = Tail(toWorker)

\* Mutant of WorkerConnects: the refusal is not answered.
WorkerConnectsSilently ==
  /\ Take("connect")
  /\ IF link # "none" THEN UNCHANGED <<toMain, worker>>
     ELSE /\ link' = "connecting" /\ sent' = {} /\ connects' = connects + 1
          /\ UNCHANGED <<hanging, toMain>>
  /\ UNCHANGED <<Session, heard>>

\* connect(): refused while a transport is there, one that is closing included.
WorkerConnects ==
  /\ Take("connect")
  /\ IF link # "none" THEN Answer(<<"error">>) /\ UNCHANGED worker
     ELSE /\ link' = "connecting" /\ sent' = {} /\ connects' = connects + 1
          /\ UNCHANGED <<hanging, toMain>>
  /\ UNCHANGED <<Session, heard>>

WorkerConnected ==
  /\ link = "connecting" /\ link' = "up" /\ Answer(<<"connected">>)
  /\ UNCHANGED <<Session, heard, toWorker, hanging, sent, connects>>

WorkerConnectFails ==
  /\ link = "connecting" /\ link' = "none" /\ Answer(<<"error">>)
  /\ UNCHANGED <<Session, heard, toWorker, hanging, sent, connects>>

\* What is left to do of a disconnect(): the transport, whichever is there, is
\* closed and forgotten.  A connect() that waits for it fails.
Disconnected ==
  /\ link' = "none"
  /\ Answer(IF link = "connecting" THEN <<"disconnected", "error">> ELSE <<"disconnected">>)
  /\ UNCHANGED <<sent, connects>>

\* disconnect(): it awaits the close of the streams, if there are any (which streams
\* a connection has is left open here).
\* bound: one disconnect() awaits at a time.
WorkerDisconnects ==
  /\ Take("disconnect")
  /\ \/ Disconnected /\ UNCHANGED hanging
     \/ /\ link = "up" /\ hanging = 0
        /\ hanging' = hanging + 1 /\ UNCHANGED <<link, sent, connects, toMain>>
  /\ UNCHANGED <<Session, heard>>

WorkerDisconnectEnds ==
  /\ hanging > 0 /\ hanging' = hanging - 1
  /\ Disconnected
  /\ UNCHANGED <<Session, heard, toWorker>>

\* A message for the control stream, which is an error without a connection.
WorkerSends ==
  /\ Take("control")
  /\ IF link = "up" THEN UNCHANGED toMain ELSE Answer(<<"error">>)
  /\ UNCHANGED <<Session, heard, worker>>

PeerSends(m) ==
  /\ link = "up" /\ m \notin sent
  /\ m = "setup" => ~PromptSetup \/ handlers > 0
  /\ m = "goaway" => "setup" \in sent /\ connects < MaxConnects
  /\ sent' = sent \cup {m} /\ Answer(<<m>>)
  /\ UNCHANGED <<Session, heard, toWorker, link, hanging, connects>>

\* The peer closes the connection, without or with an error code, or it is lost.
PeerCloses ==
  /\ link = "up" /\ hanging = 0 /\ handlers > 0 /\ connects <= MaxConnects
  /\ link' = "none" /\ \E m \in {"lost", "failed"} : Answer(<<m>>)
  /\ UNCHANGED <<Session, heard, toWorker, hanging, sent, connects>>

-----------------------------------------------------------------------------
Reads ==
  ReceiveConnected \/ ReceiveError \/ ReceiveClosed \/ ReceiveSetup \/ ReceiveGoAway
Works ==
  \/ WorkerConnects \/ WorkerConnected \/ WorkerConnectFails \/ WorkerDisconnects
  \/ WorkerDisconnectEnds \/ WorkerSends

Next ==
  \/ UserSetup \/ Hold \/ UserCloses \/ UserMigrates \/ AutoMigrates
  \/ \E c \in Setups : SetupTimesOut(c)
  \/ \E c \in Closers : CloseEnds(c)
  \/ \E m \in Migrations : Linked(m)
  \/ Reads \/ Works \/ PeerCloses
  \/ \E m \in {"setup", "goaway"} : PeerSends(m)

Spec == Init /\ [][Next]_vars

\* Neither thread rests while it has something to run, the setup timer fires, and
\* the worker's connection is made or refused in the end.
MainThread ==
  \/ Reads \/ AutoMigrates
  \/ \E c \in Closers : CloseEnds(c)
  \/ \E m \in Migrations : Linked(m)

Fairness ==
  /\ WF_vars(MainThread)
  /\ WF_vars(Works)
  /\ WF_vars(\E c \in Setups : SetupTimesOut(c))

FairSpec == Spec /\ Fairness

-----------------------------------------------------------------------------
(* Properties.                                                             *)

Quiet == toMain = <<>> /\ toWorker = <<>> /\ ~Microtask /\ closing = {} /\ hanging = 0

\* A session that stays with its first connection never closes itself for a
\* violation of a peer that commits none, whatever is closed, lost or late.
NeverAccusedAtFirst == connects = 1 => ~accused

\* The flag that makes the session pass over the closing of its connection is never
\* left set when no migrate() runs.
MigratingEnds == migrating => \E m \in Migrations : pc[m] # "idle"

\* The auto-migrate loop, its migrate() and the setup() of that migrate() agree on
\* who is under way, whichever message settled or rejected them: none of them is
\* left waiting for another that has ended.
PartnersAgree ==
  /\ auto = "trying" <=> pc["auto"] # "idle"
  /\ \A m \in Migrations :
       (pc[m] = "setup" <=> m \in waits) /\ (pc[m] = "closing" <=> m \in closing)

\* The calls agree with one another and with the flag that tells of them.
CallsAgree == MigratingEnds /\ PartnersAgree

\* A connect() that waits while nothing is on its way waits for a connection the
\* worker is making: the worker never owes an answer it will not give.
ConnectAnswered ==
  Quiet /\ (\E m \in Migrations : pc[m] = "connecting") => link = "connecting"

\* Every attempt of the auto-migrate loop ends.
AttemptsEnd == auto = "trying" ~> auto # "trying"

\* "Every transition is mirrored into the ConnectionStateMachine."
MirrorAgrees == machine = Mapped(state)

\* Only a second message of the peer is taken for one: it sends one SETUP and one
\* GOAWAY at most, so the session never closes itself for a violation.
NeverAccused == ~accused

\* A session that rests in state ready, its idle timer running, has a connection.
ReadyIsLinked == Quiet /\ state = "ready" => link = "up"

\* No SETUP of the peer is lost before the session listens.
SetupHeard == ~lost
=============================================================================
