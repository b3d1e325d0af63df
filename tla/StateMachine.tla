---------------------------- MODULE StateMachine ----------------------------
(***************************************************************************)
(* The state machines of packages/core/src/connection/state-machine.ts, as *)
(* the abstract specification of what has such a state: a set of machines  *)
(* of one class, each of which stays where it is or takes a transition of  *)
(* the table of its class.                                                 *)
(***************************************************************************)
CONSTANTS
  Machines,  \* the objects that have a state machine
  Class      \* "connection", or "subscription" (also that of announcements)

VARIABLE state  \* state of each machine

ConnectionTransitions ==
  [disconnected |-> {"connecting"},
   connecting   |-> {"setup_sent", "error", "disconnected"},
   setup_sent   |-> {"connected", "error", "disconnected"},
   connected    |-> {"closing", "error", "disconnected"},
   closing      |-> {"disconnected", "error"},
   error        |-> {"disconnected"}]

SubscriptionTransitions ==
  [pending |-> {"active", "error", "ended"},
   active  |-> {"ended", "error"},
   ended   |-> {},
   error   |-> {}]

Transitions == IF Class = "connection" THEN ConnectionTransitions ELSE SubscriptionTransitions
Initial     == IF Class = "connection" THEN "disconnected" ELSE "pending"

Init == state = [m \in Machines |-> Initial]

\* canTransition: a target outside the table is refused.
CanTransition(from, to) == to \in Transitions[from]

\* Machines are independent; one step of the program may move several.
Next == /\ state' \in [Machines -> DOMAIN Transitions]
        /\ \A m \in Machines : state'[m] = state[m] \/ CanTransition(state[m], state'[m])

Spec == Init /\ [][Next]_state
=============================================================================
