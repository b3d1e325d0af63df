--------------------------- MODULE Playout_proofs ---------------------------
(***************************************************************************)
(* Proofs about Playout, for all groups, sizes and limits: type            *)
(* correctness, that frames come out in order, and that the decoder drops  *)
(* none of them as long as no group is late and no label is wrong.         *)
(***************************************************************************)
EXTENDS Playout, TLAPS, WellFoundedInduction

USE PlayoutAssumption DEF None

Statuses == {"none", "receiving", "active", "complete", "skipped"}

\* The least of a set of groups is one of them.
LEMMA FirstIsLeast ==
  ASSUME NEW S \in SUBSET Groups, S # {}
  PROVE  First(S) \in S /\ \A h \in S : First(S) <= h
<1>1. PICK g \in S : \A h \in S : ~ (<<h, g>> \in OpToRel(<, Nat))
  BY NatLessThanWellFounded, WFMin, S \subseteq Nat, Zenon
<1>2. \A h \in S : g <= h
  <2>1. SUFFICES ASSUME NEW h \in S, ~ g <= h PROVE FALSE
    OBVIOUS
  <2>2. h \in Nat /\ g \in Nat /\ h < g
    BY <2>1
  <2>3. <<h, g>> \in OpToRel(<, Nat)
    BY <2>2, Zenon DEF OpToRel
  <2>4. QED
    BY <1>1, <2>3
<1>3. QED
  BY <1>2 DEF First

-----------------------------------------------------------------------------
(* Types of the operations on a buffer.                                     *)

LEMMA BufferFields ==
  ASSUME NEW b \in Buffers
  PROVE  /\ b.active \in Groups \cup {-1} /\ b.active \in Int
         /\ b.status \in [Groups -> Statuses]
         /\ b.frames \in [Groups -> SUBSET Objects]
         /\ b.keyed \in SUBSET Groups /\ b.ended \in SUBSET Groups
         /\ b.next \in [Groups -> {-1} \cup Nat]
         /\ b.pending \in Groups \cup {-1} /\ b.pending \in Int
         /\ b.count \in 0 .. Grace
<1>1. b.active \in Groups \cup {-1} /\ b.pending \in Groups \cup {-1}
  BY DEF Buffers
<1>2. Groups \cup {-1} \subseteq Int
  OBVIOUS
<1>3. QED
  BY <1>1, <1>2 DEF Buffers, Statuses

LEMMA Counts == 0 \in 0 .. Grace /\ 1 \in 0 .. Grace
<1>1. Grace \in Nat \ {0}
  OBVIOUS
<1>2. QED
  BY <1>1

\* Only the states of the groups change, and which is active or pending.
Stage(b, c) ==
  /\ c \in Buffers
  /\ c.frames = b.frames /\ c.next = b.next /\ c.keyed = b.keyed /\ c.ended = b.ended

LEMMA LaterGroups ==
  ASSUME NEW b, NEW g
  PROVE  Later(b, g) \in SUBSET Groups
BY DEF Later, Waiting

LEMMA ActivateFields ==
  ASSUME NEW b \in Buffers, NEW g \in Groups
  PROVE  /\ Stage(b, Activate(b, g))
         /\ Activate(b, g).active = g
         /\ Activate(b, g).status = [b.status EXCEPT ![g] = "active"]
         /\ Activate(b, g).pending = b.pending
         /\ Activate(b, g).count = b.count
BY DEF Activate, Stage, Buffers

LEMMA CompleteFields ==
  ASSUME NEW b \in Buffers, NEW g \in Groups, NEW as \in {"complete", "skipped"}
  PROVE  /\ Stage(b, CompleteGroup(b, g, as))
         /\ CompleteGroup(b, g, as).active = b.active
         /\ CompleteGroup(b, g, as).pending = b.pending
         /\ CompleteGroup(b, g, as).status = [b.status EXCEPT ![g] = as]
BY DEF CompleteGroup, Stage, Buffers

\* The next group with a keyframe is made the active one, if there is one.
LEMMA PromoteFields ==
  ASSUME NEW b \in Buffers
  PROVE  /\ Stage(b, Promote(b))
         /\ Promote(b).pending = b.pending
         /\ Later(b, b.active) = {} => Promote(b) = b
         /\ Later(b, b.active) # {} =>
              /\ Promote(b).active \in Later(b, b.active)
              /\ \A h \in Later(b, b.active) : Promote(b).active <= h
              /\ Promote(b).status = [b.status EXCEPT ![Promote(b).active] = "active"]
<1>1. CASE Later(b, b.active) = {}
  BY <1>1 DEF Promote, Stage
<1>2. CASE Later(b, b.active) # {}
  <2> DEFINE g == First(Later(b, b.active))
  <2>1. g \in Later(b, b.active) /\ \A h \in Later(b, b.active) : g <= h
    BY <1>2, FirstIsLeast, LaterGroups
  <2>2. g \in Groups
    BY <2>1, LaterGroups
  <2>3. Promote(b) = Activate(b, g)
    BY <1>2 DEF Promote
  <2> HIDE DEF g
  <2>4. /\ Stage(b, Promote(b)) /\ Promote(b).active = g /\ Promote(b).pending = b.pending
        /\ Promote(b).status = [b.status EXCEPT ![g] = "active"]
    BY <2>2, <2>3, ActivateFields
  <2>5. QED
    BY <1>2, <2>1, <2>4
<1>3. QED
  BY <1>1, <1>2

\* The active group is left for the next, if there is one.
LEMMA LeaveStage ==
  ASSUME NEW b \in Buffers, NEW g \in Groups, NEW as \in {"complete", "skipped"}
  PROVE  LET c == Promote(CompleteGroup(b, g, as)) IN
         Stage(b, c) /\ c.pending = b.pending
<1> DEFINE d == CompleteGroup(b, g, as)
<1>1. Stage(b, d) /\ d.pending = b.pending
  BY CompleteFields
<1>2. d \in Buffers
  BY <1>1 DEF Stage
<1> HIDE DEF d
<1>3. Stage(d, Promote(d)) /\ Promote(d).pending = d.pending
  BY <1>2, PromoteFields
<1>4. QED
  BY <1>1, <1>3 DEF Stage, d

LEMMA ExecuteSkipFields ==
  ASSUME NEW b \in Buffers, b.pending \in Groups
  PROVE  /\ Stage(b, ExecuteSkip(b))
         /\ ExecuteSkip(b).active = b.pending
         /\ ExecuteSkip(b).pending = -1
         /\ ExecuteSkip(b).status =
              [g \in Groups |-> IF g = b.pending THEN "active"
                                ELSE IF g \in Waiting(b) /\ b.active <= g /\ g < b.pending
                                THEN "skipped" ELSE b.status[g]]
<1> DEFINE st == [g \in Groups |-> IF g = b.pending THEN "active"
                                   ELSE IF g \in Waiting(b) /\ b.active <= g /\ g < b.pending
                                   THEN "skipped" ELSE b.status[g]]
<1>1. ExecuteSkip(b) = [b EXCEPT !.status = st, !.active = b.pending, !.pending = -1, !.count = 0]
  BY BufferFields DEF ExecuteSkip, Buffers
<1>2. st \in [Groups -> Statuses]
  BY BufferFields DEF Statuses
<1> HIDE DEF st
<1>3. ExecuteSkip(b) \in Buffers
  BY <1>1, <1>2, Counts DEF Buffers, Statuses
<1>4. QED
  BY <1>1, <1>3 DEF Stage, Buffers, st

\* What a deadline may do: the active group is left, or nothing happens.
LEMMA HandledFields ==
  ASSUME NEW b \in Buffers, NEW due \in SUBSET Groups
  PROVE  /\ Stage(b, Handled(b, due))
         /\ Handled(b, due).pending = b.pending
         /\ \/ Handled(b, due) = b
            \/ /\ b.active \in Groups
               /\ \/ /\ b.frames[b.active] = {}
                     /\ Handled(b, due) = Promote(CompleteGroup(b, b.active, "complete"))
                  \/ /\ Later(b, b.active) # {}
                     /\ Handled(b, due) = Promote(CompleteGroup(b, b.active, "skipped"))
<1>1. \/ Handled(b, due) = b
      \/ /\ b.active \in Groups
         /\ \/ /\ b.frames[b.active] = {}
               /\ Handled(b, due) = Promote(CompleteGroup(b, b.active, "complete"))
            \/ /\ Later(b, b.active) # {}
               /\ Handled(b, due) = Promote(CompleteGroup(b, b.active, "skipped"))
  BY DEF Handled, HandleExpired
<1>2. b.active \in Groups =>
        \A as \in {"complete", "skipped"} :
          LET c == Promote(CompleteGroup(b, b.active, as)) IN
          Stage(b, c) /\ c.pending = b.pending
  BY LeaveStage
<1>3. Stage(b, b)
  BY DEF Stage
<1>4. QED
  BY <1>1, <1>2, <1>3

LEMMA UpdatedFields ==
  ASSUME NEW b \in Buffers, NEW due \in SUBSET Groups
  PROVE  /\ Stage(b, Updated(b, due))
         /\ Updated(b, due).active = Handled(b, due).active
         /\ Updated(b, due).pending = b.pending
         /\ Updated(b, due).status =
              [g \in Groups |-> IF g \in Waiting(b) \cap due /\ g < b.active THEN "complete"
                                ELSE Handled(b, due).status[g]]
<1> DEFINE c == Handled(b, due)
           st == [g \in Groups |-> IF g \in Waiting(b) \cap due /\ g < b.active THEN "complete"
                                   ELSE c.status[g]]
<1>1. c \in Buffers /\ Stage(b, c) /\ c.pending = b.pending
  BY HandledFields DEF Stage
<1>2. Updated(b, due) = [c EXCEPT !.status = st]
  BY <1>1 DEF Updated, Buffers
<1>3. st \in [Groups -> Statuses]
  BY <1>1, BufferFields DEF Statuses
<1> HIDE DEF c, st
<1>4. Updated(b, due) \in Buffers
  BY <1>1, <1>2, <1>3 DEF Buffers, Statuses
<1>5. QED
  BY <1>1, <1>2, <1>4 DEF Stage, Buffers, st, c

LEMMA StillDueGroups ==
  ASSUME NEW b, NEW due \in SUBSET Groups
  PROVE  StillDue(b, due) \in SUBSET Groups
BY DEF StillDue

LEMMA ReleasedFields ==
  ASSUME NEW b \in Buffers, b.active \in Groups,
         NEW ready \in SUBSET Objects, NEW upto \in Nat
  PROVE  /\ Released(b, ready, upto) \in Buffers
         /\ Released(b, ready, upto).active = b.active
         /\ Released(b, ready, upto).pending = b.pending
         /\ Released(b, ready, upto).status = b.status
         /\ Released(b, ready, upto).keyed = b.keyed
         /\ Released(b, ready, upto).frames =
              [b.frames EXCEPT ![b.active] = b.frames[b.active] \ ready]
         /\ Released(b, ready, upto).next = [b.next EXCEPT ![b.active] = upto + 1]
<1>1. Released(b, ready, upto) =
        [b EXCEPT !.frames = [b.frames EXCEPT ![b.active] = b.frames[b.active] \ ready],
                  !.next = [b.next EXCEPT ![b.active] = upto + 1]]
  BY BufferFields DEF Released, Buffers
<1>2. /\ [b.frames EXCEPT ![b.active] = b.frames[b.active] \ ready] \in [Groups -> SUBSET Objects]
      /\ [b.next EXCEPT ![b.active] = upto + 1] \in [Groups -> {-1} \cup Nat]
  BY BufferFields
<1>3. QED
  BY <1>1, <1>2 DEF Buffers

LEMMA CompletedFields ==
  ASSUME NEW b \in Buffers, b.active \in Groups
  PROVE  /\ Stage(b, Completed(b))
         /\ Completed(b).pending = b.pending
         /\ \/ Completed(b) = b
            \/ /\ b.frames[b.active] = {}
               /\ Completed(b) = Promote(CompleteGroup(b, b.active, "complete"))
<1>1. \/ Completed(b) = b
      \/ /\ b.frames[b.active] = {}
         /\ Completed(b) = Promote(CompleteGroup(b, b.active, "complete"))
  BY DEF Completed
<1>2. b.active \in Groups =>
        \A as \in {"complete", "skipped"} :
          LET c == Promote(CompleteGroup(b, b.active, as)) IN
          Stage(b, c) /\ c.pending = b.pending
  BY LeaveStage
<1>3. Stage(b, b)
  BY DEF Stage
<1>4. QED
  BY <1>1, <1>2, <1>3

\* A frame of a group is in the buffer, and some groups that were done are not.
Took(b, c, g, o, gone) ==
  /\ c.status = [h \in Groups |-> IF h = g /\ b.status[g] = "none" THEN "receiving"
                                 ELSE IF h \in gone THEN "none" ELSE b.status[h]]
  /\ c.frames = [h \in Groups |-> (IF h \in gone THEN {} ELSE b.frames[h])
                                 \cup (IF h = g THEN {o} ELSE {})]
  /\ c.keyed = (b.keyed \ gone) \cup (IF o = 0 THEN {g} ELSE {})
  /\ c.next = [h \in Groups |-> IF h \in gone THEN -1 ELSE b.next[h]]
  /\ b.status[g] \notin {"complete", "skipped"} => g \notin gone

\* A frame that is received makes room for its group, if it is new, by letting groups go
\* that are done.
LEMMA ReceivedFields ==
  ASSUME NEW b \in Buffers, NEW g \in Groups, NEW o \in Objects
  PROVE  /\ Received(b, g, o) \in Buffers
         /\ Received(b, g, o).active = b.active /\ Received(b, g, o).pending = b.pending
         /\ \E gone \in SUBSET Done(b) : Took(b, Received(b, g, o), g, o, gone)
<1> DEFINE n == [b EXCEPT !.status[g] = "receiving"]
           over == Cardinality(Waiting(n)) + Cardinality(Done(n)) - MaxGroups
           out == {h \in Done(n) : Cardinality({k \in Done(n) : k < h}) < over}
           gone == IF b.status[g] = "none" THEN out ELSE {}
           keep(f, default) == [h \in Groups |-> IF h \in gone THEN default ELSE f[h]]
           d == IF b.status[g] = "none" THEN Prune(n) ELSE b
<1>1. /\ n \in Buffers /\ n.status = [b.status EXCEPT ![g] = "receiving"]
      /\ n.active = b.active /\ n.pending = b.pending /\ n.frames = b.frames
      /\ n.next = b.next /\ n.keyed = b.keyed /\ n.ended = b.ended /\ n.count = b.count
  BY DEF Buffers
<1>2. gone \in SUBSET Done(b) /\ (b.status[g] \notin {"complete", "skipped"} => g \notin gone)
  BY <1>1, BufferFields DEF Done
<1>3. b.status[g] = "none" =>
        Prune(n) = [n EXCEPT !.status = keep(n.status, "none"), !.frames = keep(n.frames, {}),
                             !.next = keep(n.next, -1),
                             !.keyed = n.keyed \ gone, !.ended = n.ended \ gone]
  BY <1>1 DEF Prune, Buffers
<1> HIDE DEF n, out
<1>4. /\ keep(n.status, "none") \in [Groups -> Statuses]
      /\ keep(n.frames, {}) \in [Groups -> SUBSET Objects]
      /\ keep(n.next, -1) \in [Groups -> {-1} \cup Nat]
  BY <1>1, BufferFields DEF Statuses
<1>5. /\ d \in Buffers /\ d.active = b.active /\ d.pending = b.pending
      /\ d.status = [h \in Groups |-> IF h = g /\ b.status[g] = "none" THEN "receiving"
                                      ELSE IF h \in gone THEN "none" ELSE b.status[h]]
      /\ d.frames = keep(b.frames, {}) /\ d.next = keep(b.next, -1)
      /\ d.keyed = b.keyed \ gone
  <2>1. CASE b.status[g] = "none"
    <3> HIDE DEF gone, keep
    <3>1. d = [n EXCEPT !.status = keep(n.status, "none"), !.frames = keep(n.frames, {}),
                             !.next = keep(n.next, -1),
                             !.keyed = n.keyed \ gone, !.ended = n.ended \ gone]
      BY <1>3, <2>1
    <3>0. n.keyed \ gone \in SUBSET Groups /\ n.ended \ gone \in SUBSET Groups
      BY <1>1, BufferFields
    <3>2. /\ d \in Buffers /\ d.active = n.active /\ d.pending = n.pending
          /\ d.status = keep(n.status, "none")
          /\ d.frames = keep(n.frames, {}) /\ d.next = keep(n.next, -1)
          /\ d.keyed = n.keyed \ gone
      <4> DEFINE st == keep(n.status, "none")
                 fr == keep(n.frames, {})
                 nx == keep(n.next, -1)
      <4>1. /\ st \in [Groups -> Statuses] /\ fr \in [Groups -> SUBSET Objects]
            /\ nx \in [Groups -> {-1} \cup Nat]
        BY <1>4
      <4>2. d = [n EXCEPT !.status = st, !.frames = fr, !.next = nx,
                          !.keyed = n.keyed \ gone, !.ended = n.ended \ gone]
        BY <3>1
      <4> HIDE DEF d, st, fr, nx
      <4>3. /\ d \in Buffers /\ d.active = n.active /\ d.pending = n.pending
            /\ d.status = st /\ d.frames = fr /\ d.next = nx /\ d.keyed = n.keyed \ gone
        BY <1>1, <3>0, <4>1, <4>2 DEF Buffers, Statuses
      <4>4. QED
        BY <4>3 DEF st, fr, nx
    <3>3. keep(n.status, "none") =
             [h \in Groups |-> IF h = g /\ b.status[g] = "none" THEN "receiving"
                               ELSE IF h \in gone THEN "none" ELSE b.status[h]]
      BY <1>1, <1>2, <2>1, BufferFields DEF keep
    <3>4. QED
      BY <1>1, <3>2, <3>3
  <2>2. CASE b.status[g] # "none"
    BY <2>2, BufferFields DEF Buffers
  <2>3. QED
    BY <2>1, <2>2
<1> HIDE DEF gone
<1>6. Received(b, g, o) = [d EXCEPT !.frames[g] = d.frames[g] \cup {o},
                                    !.keyed = IF o = 0 THEN d.keyed \cup {g} ELSE d.keyed]
  BY <1>5 DEF Received, n, Buffers
<1> HIDE DEF d
<1>10. /\ [d.frames EXCEPT ![g] = d.frames[g] \cup {o}] \in [Groups -> SUBSET Objects]
       /\ (IF o = 0 THEN d.keyed \cup {g} ELSE d.keyed) \in SUBSET Groups
  BY <1>5, BufferFields
<1>7. /\ Received(b, g, o) \in Buffers
      /\ Received(b, g, o).active = d.active /\ Received(b, g, o).pending = d.pending
      /\ Received(b, g, o).status = d.status /\ Received(b, g, o).next = d.next
      /\ Received(b, g, o).frames = [d.frames EXCEPT ![g] = d.frames[g] \cup {o}]
      /\ Received(b, g, o).keyed = IF o = 0 THEN d.keyed \cup {g} ELSE d.keyed
  BY <1>5, <1>6, <1>10 DEF Buffers
<1>8. [d.frames EXCEPT ![g] = d.frames[g] \cup {o}] =
        [h \in Groups |-> (IF h \in gone THEN {} ELSE b.frames[h])
                          \cup (IF h = g THEN {o} ELSE {})]
  <2>1. \A h \in Groups : d.frames[h] = IF h \in gone THEN {} ELSE b.frames[h]
    BY <1>5
  <2>2. d.frames \in [Groups -> SUBSET Objects]
    BY <1>5, BufferFields
  <2>3. QED
    BY <2>1, <2>2
<1>9. Took(b, Received(b, g, o), g, o, gone)
  <2>1. Received(b, g, o).keyed = (b.keyed \ gone) \cup (IF o = 0 THEN {g} ELSE {})
    BY <1>5, <1>7
  <2>2. QED
    BY <1>2, <1>5, <1>7, <1>8, <2>1, Zenon DEF Took
<1>11. QED
  BY <1>2, <1>5, <1>7, <1>9

LEMMA ChosenFields ==
  ASSUME NEW b \in Buffers, NEW g \in Groups
  PROVE  /\ Stage(b, Chosen(b, g))
         /\ Chosen(b, g).pending = b.pending
         /\ b.active # -1 /\ ~ g < b.active => Chosen(b, g) = b
         /\ b.active = -1 => /\ Chosen(b, g).active = g
                             /\ Chosen(b, g).status = [b.status EXCEPT ![g] = "active"]
<1> DEFINE st == [h \in Groups |-> IF h = b.active /\ b.status[h] = "active" THEN "receiving"
                                   ELSE b.status[h]]
           n == [b EXCEPT !.status = st]
<1>1. st \in [Groups -> Statuses] /\ (b.active = -1 => st = b.status)
  <2>1. b.status \in [Groups -> Statuses] /\ -1 \notin Groups
    BY BufferFields
  <2>2. QED
    BY <2>1 DEF Statuses
<1>2. Chosen(b, g) = IF b.active = -1 \/ g < b.active THEN Activate(n, g) ELSE b
  BY DEF Chosen, Buffers
<1> HIDE DEF st
<1>3. /\ n \in Buffers /\ Stage(b, n) /\ n.pending = b.pending /\ n.status = st
      /\ n.active = b.active
  BY <1>1 DEF Buffers, Statuses, Stage
<1> HIDE DEF n
<1>4. CASE b.active = -1 \/ g < b.active
  <2>1. Chosen(b, g) = Activate(n, g)
    BY <1>2, <1>4
  <2>2. /\ Stage(n, Activate(n, g)) /\ Activate(n, g).active = g
        /\ Activate(n, g).status = [n.status EXCEPT ![g] = "active"]
        /\ Activate(n, g).pending = n.pending
    BY <1>3, ActivateFields
  <2>3. QED
    BY <1>1, <1>3, <1>4, <2>1, <2>2 DEF Stage
<1>5. CASE ~ (b.active = -1 \/ g < b.active)
  BY <1>2, <1>5 DEF Stage
<1>6. QED
  BY <1>4, <1>5

LEMMA NotedFields ==
  ASSUME NEW b \in Buffers, NEW g \in Groups
  PROVE  /\ Stage(b, Noted(b, g))
         /\ Noted(b, g).active = b.active /\ Noted(b, g).status = b.status
         /\ Noted(b, g).pending =
              IF skipToLatest /\ ~ g <= b.active /\ g \in b.keyed /\ g > b.pending
              THEN g ELSE b.pending
<1>1. 1 \in 0 .. Grace /\ (b.count < Grace => b.count + 1 \in 0 .. Grace)
  BY BufferFields
<1>2. QED
  BY <1>1 DEF Noted, Stage, Buffers

-----------------------------------------------------------------------------
(* What the groups of a buffer have to do with one another and with what    *)
(* has arrived, as long as no group has come late.                          *)

Lone(b) == \A g \in Groups : b.status[g] = "active" => g = b.active

\* A skip is forward to a group that can be played, and is not undone.
Aimed(b) ==
  /\ b.pending # -1 => skipToLatest
  /\ b.pending \in Waiting(b) \cap b.keyed => b.active <= b.pending
  /\ b.pending \in Done(b) => 0 \notin b.frames[b.pending]

\* No group that can be played is after the one to skip to.
Latest(b) == skipToLatest => \A h \in Later(b, b.active) : h <= b.pending

\* The active group is being played unless it is over; then its keyframe has come.
Headed(b, arr) ==
  /\ b.active \in Waiting(b) \cap b.keyed => b.status[b.active] = "active"
  /\ b.active # -1 /\ b.status[b.active] # "active" => <<b.active, 0>> \in arr
  /\ b.active = -1 => \A g \in Groups : b.status[g] = "none"

Stock(b, arr, g) ==
  /\ b.status[g] = "none" => g \notin b.keyed /\ b.frames[g] = {} /\ b.next[g] = -1
  /\ b.status[g] \in {"receiving", "active"} => b.frames[g] # {} \/ b.next[g] # -1
  /\ b.next[g] # -1 \/ g \in b.keyed => <<g, 0>> \in arr
  /\ 0 \in b.frames[g] => g \in b.keyed

Stocked(b, arr) == \A g \in Groups : Stock(b, arr, g)

Good(b, arr) == Lone(b) /\ Aimed(b) /\ Latest(b) /\ Headed(b, arr) /\ Stocked(b, arr)

\* The active group stays or makes way for a later one.
Onward(b, c) ==
  /\ b.active <= c.active
  /\ Plays(c) /\ c.active = b.active => Plays(b)

\* Membership, group by group.
LEMMA InLater ==
  ASSUME NEW b, NEW g, NEW h
  PROVE  h \in Later(b, g) <=> /\ h \in Groups /\ h > g /\ h \in b.keyed
                              /\ b.status[h] \in {"receiving", "active"}
BY DEF Later, Waiting

LEMMA InWaiting ==
  ASSUME NEW b, NEW h
  PROVE  /\ h \in Waiting(b) <=> h \in Groups /\ b.status[h] \in {"receiving", "active"}
         /\ h \in Done(b) <=> h \in Groups /\ b.status[h] \in {"complete", "skipped"}
BY DEF Waiting, Done

LEMMA GroupNumbers == Groups \subseteq Nat /\ -1 \notin Groups /\ \A g \in Groups : -1 < g
OBVIOUS

\* The active group can be left when another can be played, or when nothing of it is held.
LEMMA LeaveGood ==
  ASSUME NEW b \in Buffers, NEW arr, Good(b, arr), b.active \in Groups,
         NEW as \in {"complete", "skipped"},
         \/ Later(b, b.active) # {}
         \/ 0 \notin b.frames[b.active] /\ <<b.active, 0>> \in arr
  PROVE  LET c == Promote(CompleteGroup(b, b.active, as)) IN
         Stage(b, c) /\ Good(c, arr) /\ Onward(b, c)
<1> DEFINE d == CompleteGroup(b, b.active, as)
           c == Promote(d)
<1>a. /\ b.active \in Groups /\ b.active \in Nat /\ b.status \in [Groups -> Statuses]
      /\ b.pending \in Groups \cup {-1}
  BY BufferFields, GroupNumbers
<1>b. as \in {"complete", "skipped"} /\ as \notin {"none", "receiving", "active"}
  OBVIOUS
<1>1. /\ Stage(b, d) /\ d.active = b.active /\ d.pending = b.pending
      /\ \A h \in Groups : d.status[h] = IF h = b.active THEN as ELSE b.status[h]
  <2>1. /\ Stage(b, d) /\ d.active = b.active /\ d.pending = b.pending
    BY DEF CompleteGroup, Stage, Buffers
  <2>2. ASSUME NEW h \in Groups PROVE d.status[h] = IF h = b.active THEN as ELSE b.status[h]
    BY DEF CompleteGroup, Buffers
  <2>3. QED
    BY <2>1, <2>2
<1>2. Stage(b, c) /\ c.pending = b.pending
  BY LeaveStage
<1> HIDE DEF d
<1>3. /\ d \in Buffers /\ d.frames = b.frames /\ d.next = b.next /\ d.keyed = b.keyed
      /\ \A h \in Groups : d.status[h] = IF h = b.active THEN as ELSE b.status[h]
  BY <1>a, <1>1 DEF Stage
<1>4. Later(d, d.active) = Later(b, b.active)
  <2>1. \A h \in Groups : h \in Later(d, d.active) <=> h \in Later(b, b.active)
    <3>1. TAKE h \in Groups
    <3>2. h > d.active <=> h > b.active
      BY <1>1
    <3>3. h > b.active => d.status[h] = b.status[h]
      <4>1. h > b.active => h # b.active
        BY <1>a, GroupNumbers
      <4>2. QED
        BY <1>3, <4>1
    <3>4. QED
      BY <1>3, <3>2, <3>3, InLater
  <2>2. QED
    BY <2>1, LaterGroups
<1>5. CASE Later(b, b.active) = {}
  <2>1. c = d
    BY <1>3, <1>4, <1>5, PromoteFields
  <2>2. Lone(d) /\ Latest(d)
    BY <1>a, <1>b, <1>1, <1>3, <1>4, <1>5 DEF Good, Lone, Latest
  <2>3. Aimed(d)
    <3>1. ASSUME b.pending \in Waiting(d) \cap d.keyed
          PROVE  b.pending \in Waiting(b) \cap b.keyed
      <4>1. b.pending \in Groups /\ d.status[b.pending] \in {"receiving", "active"}
        BY <3>1, InWaiting
      <4>2. d.status[b.pending] = b.status[b.pending]
        BY <1>b, <1>3, <4>1
      <4>3. QED
        BY <1>3, <3>1, <4>1, <4>2, InWaiting
    <3>2. ASSUME b.pending \in Done(d), b.pending # b.active PROVE b.pending \in Done(b)
      <4>1. b.pending \in Groups /\ d.status[b.pending] \in {"complete", "skipped"}
        BY <3>2, InWaiting
      <4>2. d.status[b.pending] = b.status[b.pending]
        BY <1>3, <3>2, <4>1
      <4>3. QED
        BY <4>1, <4>2, InWaiting
    <3>3. QED
      BY <1>1, <1>3, <1>5, <3>1, <3>2 DEF Good, Aimed
  <2>4. Headed(d, arr)
    <3>0. d.status[d.active] = as /\ <<d.active, 0>> \in arr
      BY <1>a, <1>1, <1>5
    <3>1. d.active \notin Waiting(d) /\ d.active # -1 /\ <<d.active, 0>> \in arr
      <4>1. d.active # -1
        BY <1>a, <1>1
      <4>2. QED
        BY <1>b, <3>0, <4>1, InWaiting
    <3>2. QED
      BY <3>1 DEF Headed
  <2>5. Stocked(d, arr)
    <3>1. ASSUME NEW g \in Groups PROVE Stock(d, arr, g)
      <4>1. Stock(b, arr, g) /\ d.status[g] \in {as, b.status[g]}
        BY <1>3 DEF Good, Stocked
      <4>2. QED
        BY <1>b, <1>3, <4>1 DEF Stock
    <3>2. QED
      BY <3>1 DEF Stocked
  <2>6. Onward(b, d)
    <3>1. d.status[d.active] = as
      BY <1>a, <1>1
    <3>2. ~ Plays(d)
      BY <1>b, <3>1 DEF Plays
    <3>3. b.active <= d.active
      BY <1>a, <1>1
    <3>4. QED
      BY <3>2, <3>3 DEF Onward
  <2>7. QED
    BY <1>2, <2>1, <2>2, <2>3, <2>4, <2>5, <2>6 DEF Good, d
<1>6. CASE Later(b, b.active) # {}
  <2>1. /\ c.active \in Later(b, b.active)
        /\ \A h \in Later(b, b.active) : c.active <= h
        /\ c.status = [d.status EXCEPT ![c.active] = "active"]
    BY <1>1, <1>3, <1>4, <1>6, PromoteFields
  <2>2. c.frames = b.frames /\ c.next = b.next /\ c.keyed = b.keyed /\ c.pending = b.pending
    BY <1>2 DEF Stage
  <2> HIDE DEF c
  <2>3. /\ c.active \in Groups /\ c.active \in Nat /\ c.active > b.active /\ c.active \in b.keyed
        /\ b.status[c.active] \in {"receiving", "active"}
    BY <2>1, InLater, GroupNumbers
  <2>4. d.status \in [Groups -> Statuses]
    BY <1>3, BufferFields
  <2>5. \A g \in Groups : c.status[g] = IF g = c.active THEN "active"
                                      ELSE IF g = b.active THEN as ELSE b.status[g]
    BY <1>a, <1>3, <2>1, <2>3, <2>4
  <2>6. Lone(c)
    BY <1>b, <2>5 DEF Good, Lone
  <2>7. b.pending # b.active
    BY <1>a, <2>1, <2>3 DEF Good, Aimed, Latest
  <2>8. Aimed(c)
    <3>1. b.pending \in Waiting(c) \cap c.keyed => c.active <= b.pending
      <4>1. SUFFICES ASSUME b.pending \in Groups, b.pending \in b.keyed, b.pending # c.active,
                            c.status[b.pending] \in {"receiving", "active"}
                     PROVE  c.active <= b.pending
        BY <2>2, <2>3, InWaiting
      <4>2. b.status[b.pending] \in {"receiving", "active"}
        BY <2>5, <2>7, <4>1
      <4>3. b.active <= b.pending
        BY <4>1, <4>2, InWaiting DEF Good, Aimed
      <4>4. b.pending \in Later(b, b.active)
        <5>1. b.pending > b.active
          <6>1. b.pending \in Nat
            BY <4>1, GroupNumbers
          <6>2. QED
            BY <1>a, <2>7, <4>3, <6>1
        <5>2. QED
          BY <4>1, <4>2, <5>1, InLater
      <4>5. QED
        BY <2>1, <4>4
    <3>2. ASSUME b.pending \in Done(c) PROVE 0 \notin c.frames[b.pending]
      <4>1. b.pending \in Groups /\ c.status[b.pending] \in {"complete", "skipped"}
        BY <3>2, InWaiting
      <4>2. c.status[b.pending] = b.status[b.pending]
        BY <2>5, <2>7, <4>1
      <4>3. b.pending \in Done(b)
        BY <4>1, <4>2, InWaiting
      <4>4. QED
        BY <2>2, <4>3 DEF Good, Aimed
    <3>3. QED
      BY <2>2, <3>1, <3>2 DEF Good, Aimed
  <2>9. Latest(c)
    <3>1. \A h \in Later(c, c.active) : h \in Later(b, b.active)
      <4>1. TAKE h \in Later(c, c.active)
      <4>2. /\ h \in Groups /\ h \in Nat /\ h > c.active /\ h \in b.keyed
            /\ c.status[h] \in {"receiving", "active"}
        BY <2>2, InLater, GroupNumbers
      <4>0. h > b.active /\ h # b.active /\ h # c.active
        BY <1>a, <2>3, <4>2
      <4>3. h # b.active /\ h > b.active /\ b.status[h] = c.status[h]
        BY <2>5, <4>0, <4>2
      <4>4. QED
        BY <4>2, <4>3, InLater
    <3>2. QED
      BY <2>2, <3>1 DEF Good, Latest
  <2>10. Headed(c, arr)
    BY <2>3, <2>5, GroupNumbers DEF Headed
  <2>11. Stocked(c, arr)
    <3>1. ASSUME NEW g \in Groups PROVE Stock(c, arr, g)
      <4>1. /\ Stock(b, arr, g) /\ c.status[g] \in {as, "active", b.status[g]}
            /\ c.status[g] = "active" => b.status[g] \in {"receiving", "active"}
        BY <1>b, <2>3, <2>5 DEF Good, Stocked
      <4>2. QED
        BY <1>b, <2>2, <4>1 DEF Stock
    <3>2. QED
      BY <3>1 DEF Stocked
  <2>12. Onward(b, c)
    BY <1>a, <2>3 DEF Onward
  <2>13. QED
    BY <1>2, <2>6, <2>8, <2>9, <2>10, <2>11, <2>12 DEF Good, c, d
<1>7. QED
  BY <1>5, <1>6 DEF d

LEMMA OnwardRefl ==
  ASSUME NEW b \in Buffers
  PROVE  Stage(b, b) /\ Onward(b, b)
<1>1. b.active <= b.active
  BY BufferFields
<1>2. QED
  BY <1>1 DEF Onward, Stage

LEMMA OnwardTrans ==
  ASSUME NEW b \in Buffers, NEW c, NEW d, Stage(b, c), Stage(c, d), Onward(b, c), Onward(c, d)
  PROVE  Stage(b, d) /\ Onward(b, d)
<1>1. b.active \in Int /\ c.active \in Int /\ d.active \in Int
  BY BufferFields DEF Stage
<1>2. Stage(b, d)
  BY DEF Stage
<1>3. b.active <= d.active /\ (d.active = b.active => c.active = b.active)
  BY <1>1 DEF Onward
<1>4. QED
  BY <1>2, <1>3 DEF Onward

\* When nothing is played the next group is chosen.
LEMMA PromoteGood ==
  ASSUME NEW b \in Buffers, NEW arr, Good(b, arr), ~ Plays(b)
  PROVE  Stage(b, Promote(b)) /\ Good(Promote(b), arr) /\ Onward(b, Promote(b))
<1> DEFINE c == Promote(b)
<1>a. b.active \in Int /\ b.active \in Groups \cup {-1} /\ b.status \in [Groups -> Statuses]
  BY BufferFields
<1>1. CASE Later(b, b.active) = {}
  BY <1>1, OnwardRefl, PromoteFields
<1>2. CASE Later(b, b.active) # {}
  <2>1. /\ c.active \in Later(b, b.active)
        /\ \A h \in Later(b, b.active) : c.active <= h
        /\ c.status = [b.status EXCEPT ![c.active] = "active"]
        /\ Stage(b, c) /\ c.pending = b.pending
    BY <1>2, PromoteFields
  <2>2. c.frames = b.frames /\ c.next = b.next /\ c.keyed = b.keyed
    BY <2>1 DEF Stage
  <2> HIDE DEF c
  <2>3. /\ c.active \in Groups /\ c.active \in Nat /\ c.active > b.active /\ c.active \in b.keyed
        /\ b.status[c.active] \in {"receiving", "active"}
    BY <2>1, InLater, GroupNumbers
  <2>4. b.active # -1
    BY <2>3 DEF Good, Headed
  <2>5. \A g \in Groups : c.status[g] = IF g = c.active THEN "active" ELSE b.status[g]
    BY <1>a, <2>1, <2>3
  <2>6. \A g \in Groups : b.status[g] # "active"
    BY <2>4 DEF Good, Lone, Plays
  <2>7. Lone(c)
    BY <2>5, <2>6 DEF Lone
  <2>8. Aimed(c)
    <3>1. b.pending \in Waiting(c) \cap c.keyed => c.active <= b.pending
      <4>1. SUFFICES ASSUME b.pending \in Groups, b.pending \in b.keyed, b.pending # c.active,
                            c.status[b.pending] \in {"receiving", "active"}
                     PROVE  c.active <= b.pending
        BY <2>2, <2>3, InWaiting
      <4>2. b.status[b.pending] \in {"receiving", "active"}
        BY <2>5, <4>1
      <4>3. b.active <= b.pending
        BY <4>1, <4>2, InWaiting DEF Good, Aimed
      <4>4. b.pending # b.active
        BY <2>6, <4>1, <4>2, InWaiting DEF Good, Headed
      <4>5. b.pending > b.active
        <5>1. b.pending \in Nat
          BY <4>1, GroupNumbers
        <5>2. QED
          BY <1>a, <4>3, <4>4, <5>1
      <4>6. b.pending \in Later(b, b.active)
        BY <4>1, <4>2, <4>5, InLater
      <4>7. QED
        BY <2>1, <4>6
    <3>2. b.pending \in Done(c) => b.pending \in Done(b)
      BY <2>5, InWaiting
    <3>3. QED
      BY <2>1, <2>2, <3>1, <3>2 DEF Good, Aimed
  <2>9. Latest(c)
    <3>1. \A h \in Later(c, c.active) : h \in Later(b, b.active)
      <4>1. TAKE h \in Later(c, c.active)
      <4>2. /\ h \in Groups /\ h \in Nat /\ h > c.active /\ h \in b.keyed
            /\ c.status[h] \in {"receiving", "active"}
        BY <2>2, InLater, GroupNumbers
      <4>3. h > b.active /\ h # c.active
        BY <1>a, <2>3, <4>2
      <4>4. b.status[h] = c.status[h]
        BY <2>5, <4>2, <4>3
      <4>5. QED
        BY <4>2, <4>3, <4>4, InLater
    <3>2. QED
      BY <2>1, <3>1 DEF Good, Latest
  <2>10. Headed(c, arr)
    BY <2>3, <2>5, GroupNumbers DEF Headed
  <2>11. Stocked(c, arr)
    <3>1. ASSUME NEW g \in Groups PROVE Stock(c, arr, g)
      <4>1. /\ Stock(b, arr, g) /\ c.status[g] \in {"active", b.status[g]}
            /\ c.status[g] = "active" => b.status[g] \in {"receiving", "active"}
        BY <2>3, <2>5 DEF Good, Stocked
      <4>2. QED
        BY <2>2, <4>1 DEF Stock
    <3>2. QED
      BY <3>1 DEF Stocked
  <2>12. Onward(b, c)
    BY <1>a, <2>3 DEF Onward
  <2>13. QED
    BY <2>1, <2>7, <2>8, <2>9, <2>10, <2>11, <2>12 DEF Good, c
<1>3. QED
  BY <1>1, <1>2

\* When nothing is held of the active group its keyframe has come.
LEMMA EmptyHasCome ==
  ASSUME NEW b \in Buffers, NEW arr, Good(b, arr), b.active \in Groups,
         b.frames[b.active] = {}
  PROVE  0 \notin b.frames[b.active] /\ <<b.active, 0>> \in arr
<1>1. CASE b.status[b.active] # "active"
  BY <1>1, GroupNumbers DEF Good, Headed
<1>2. CASE b.status[b.active] = "active"
  <2>1. Stock(b, arr, b.active)
    BY DEF Good, Stocked
  <2>2. QED
    BY <1>2, <2>1 DEF Stock
<1>3. QED
  BY <1>1, <1>2

LEMMA HandledGood ==
  ASSUME NEW b \in Buffers, NEW arr, Good(b, arr), NEW due \in SUBSET Groups
  PROVE  LET c == Handled(b, due) IN Stage(b, c) /\ Good(c, arr) /\ Onward(b, c)
<1>1. CASE Handled(b, due) = b
  BY <1>1, OnwardRefl
<1>2. CASE /\ b.active \in Groups /\ b.frames[b.active] = {}
           /\ Handled(b, due) = Promote(CompleteGroup(b, b.active, "complete"))
  BY <1>2, EmptyHasCome, LeaveGood
<1>3. CASE /\ b.active \in Groups /\ Later(b, b.active) # {}
           /\ Handled(b, due) = Promote(CompleteGroup(b, b.active, "skipped"))
  BY <1>3, LeaveGood
<1>4. QED
  BY <1>1, <1>2, <1>3, HandledFields

LEMMA CompletedGood ==
  ASSUME NEW b \in Buffers, NEW arr, Good(b, arr), b.active \in Groups
  PROVE  LET c == Completed(b) IN Stage(b, c) /\ Good(c, arr) /\ Onward(b, c)
<1>1. CASE Completed(b) = b
  BY <1>1, OnwardRefl
<1>2. CASE /\ b.frames[b.active] = {}
           /\ Completed(b) = Promote(CompleteGroup(b, b.active, "complete"))
  BY <1>2, EmptyHasCome, LeaveGood
<1>3. QED
  BY <1>1, <1>2, CompletedFields

\* Groups before the active one may be over at any time.
LEMMA UpdatedGood ==
  ASSUME NEW b \in Buffers, NEW arr, Good(b, arr), NEW due \in SUBSET Groups
  PROVE  LET c == Updated(b, due) IN Stage(b, c) /\ Good(c, arr) /\ Onward(b, c)
<1> DEFINE h == Handled(b, due)
           c == Updated(b, due)
           S == {g \in Waiting(b) \cap due : g < b.active}
<1>1. Stage(b, h) /\ Good(h, arr) /\ Onward(b, h) /\ h.pending = b.pending
  BY HandledGood, HandledFields
<1>2. /\ Stage(b, c) /\ c.active = h.active /\ c.pending = h.pending
      /\ c.status = [g \in Groups |-> IF g \in Waiting(b) \cap due /\ g < b.active
                                      THEN "complete" ELSE h.status[g]]
  BY <1>1, UpdatedFields
<1> HIDE DEF h, c
<1>a. b.active \in Int /\ h.active \in Int /\ b.active <= h.active
  BY <1>1, BufferFields DEF Stage, Onward
<1>3. /\ c.frames = h.frames /\ c.next = h.next /\ c.keyed = h.keyed
      /\ \A g \in Groups : c.status[g] = IF g \in S THEN "complete" ELSE h.status[g]
  BY <1>1, <1>2 DEF Stage
<1>4. \A g \in S : g \in Groups /\ g < h.active /\ g # h.active
  <2>1. TAKE g \in S
  <2>2. g \in Groups /\ g \in Nat /\ g < b.active
    BY InWaiting, GroupNumbers
  <2>3. QED
    BY <1>a, <2>2
<1> HIDE DEF S
<1>5. Lone(c)
  BY <1>1, <1>2, <1>3 DEF Good, Lone
<1>6. Aimed(c)
  <2>1. ASSUME h.pending \in Waiting(c) \cap c.keyed
        PROVE  h.pending \in Waiting(h) \cap h.keyed
    <3>1. h.pending \in Groups /\ c.status[h.pending] \in {"receiving", "active"}
      BY <2>1, InWaiting
    <3>2. c.status[h.pending] = h.status[h.pending]
      BY <1>3, <3>1
    <3>3. QED
      BY <1>3, <2>1, <3>1, <3>2, InWaiting
  <2>2. h.pending \in Done(c) => 0 \notin h.frames[h.pending]
    <3>1. SUFFICES ASSUME h.pending \in S PROVE 0 \notin h.frames[h.pending]
      <4>1. ASSUME h.pending \in Done(c), h.pending \notin S PROVE h.pending \in Done(h)
        <5>1. h.pending \in Groups /\ c.status[h.pending] \in {"complete", "skipped"}
          BY <4>1, InWaiting
        <5>2. c.status[h.pending] = h.status[h.pending]
          BY <1>3, <4>1, <5>1
        <5>3. QED
          BY <5>1, <5>2, InWaiting
      <4>2. QED
        BY <1>1, <4>1 DEF Good, Aimed
    <3>2. h.pending \in Groups /\ ~ h.active <= h.pending
      <4>1. h.pending \in Nat /\ h.pending < h.active
        BY <1>4, <3>1, GroupNumbers
      <4>2. QED
        BY <1>a, <1>4, <3>1, <4>1
    <3>3. h.pending \notin Waiting(h) \cap h.keyed
      BY <1>1, <3>2 DEF Good, Aimed
    <3>4. Stock(h, arr, h.pending)
      BY <1>1, <3>2 DEF Good, Stocked
    <3>5. h.status[h.pending] \in Statuses
      BY <1>1, <3>2, BufferFields DEF Stage
    <3>6. QED
      BY <1>1, <3>2, <3>3, <3>4, <3>5, InWaiting DEF Good, Aimed, Stock, Statuses
  <2>3. QED
    BY <1>1, <1>2, <1>3, <2>1, <2>2 DEF Good, Aimed
<1>7. Latest(c)
  <2>1. \A g \in Later(c, c.active) : g \in Later(h, h.active)
    <3>1. TAKE g \in Later(c, c.active)
    <3>2. /\ g \in Groups /\ g > h.active /\ g \in h.keyed
          /\ c.status[g] \in {"receiving", "active"}
      BY <1>2, <1>3, InLater
    <3>3. h.status[g] = c.status[g]
      BY <1>3, <3>2
    <3>4. QED
      BY <3>2, <3>3, InLater
  <2>2. QED
    BY <1>1, <1>2, <2>1 DEF Good, Latest
<1>8. h.active \in Groups => c.status[h.active] = h.status[h.active]
  BY <1>3, <1>4
<1>9. Headed(c, arr)
  <2>1. c.active \in Groups \cup {-1}
    BY <1>2, BufferFields DEF Stage
  <2>2. CASE c.active = -1
    BY <1>1, <1>2, <1>3, <1>4, <1>a, <2>2, GroupNumbers, InWaiting DEF Good, Headed
  <2>3. CASE c.active \in Groups
    <3>1. c.active = h.active /\ h.active # -1 /\ c.status[c.active] = h.status[h.active]
      BY <1>2, <1>8, <2>3, GroupNumbers
    <3>2. c.active \in Waiting(c) \cap c.keyed <=> h.active \in Waiting(h) \cap h.keyed
      BY <1>3, <3>1, InWaiting
    <3>3. QED
      BY <1>1, <3>1, <3>2 DEF Good, Headed
  <2>4. QED
    BY <2>1, <2>2, <2>3
<1>10. Stocked(c, arr)
  <2>1. ASSUME NEW g \in Groups PROVE Stock(c, arr, g)
    <3>1. Stock(h, arr, g) /\ c.status[g] \in {"complete", h.status[g]}
      BY <1>1, <1>3 DEF Good, Stocked
    <3>2. QED
      BY <1>3, <3>1 DEF Stock
  <2>2. QED
    BY <2>1 DEF Stocked
<1>11. Onward(b, c)
  <2>1. Plays(c) => Plays(h)
    <3>1. c.active \in Groups \cup {-1}
      BY <1>2, BufferFields DEF Stage
    <3>2. QED
      BY <1>2, <1>8, <3>1 DEF Plays
  <2>2. QED
    BY <1>1, <1>2, <2>1 DEF Onward
<1>12. QED
  BY <1>2, <1>5, <1>6, <1>7, <1>9, <1>10, <1>11 DEF Good, c

\* The group that is skipped to has not been left, and comes after the one that is played.
LEMMA ExecuteSkipGood ==
  ASSUME NEW b \in Buffers, NEW arr, Good(b, arr), CanSkip(b)
  PROVE  LET c == ExecuteSkip(b) IN Stage(b, c) /\ Good(c, arr) /\ Onward(b, c)
<1> DEFINE p == b.pending
           c == ExecuteSkip(b)
<1>a. /\ p \in Groups /\ p \in Nat /\ p \in b.keyed /\ 0 \in b.frames[p] /\ skipToLatest
      /\ b.active \in Int /\ b.active \in Groups \cup {-1}
  BY BufferFields, GroupNumbers DEF CanSkip
<1>1. /\ Stage(b, c) /\ c.active = p /\ c.pending = -1
      /\ c.status = [g \in Groups |-> IF g = p THEN "active"
                                      ELSE IF g \in Waiting(b) /\ b.active <= g /\ g < p
                                      THEN "skipped" ELSE b.status[g]]
  BY <1>a, ExecuteSkipFields
<1> HIDE DEF c
<1>2. /\ c.frames = b.frames /\ c.next = b.next /\ c.keyed = b.keyed
      /\ \A g \in Groups : c.status[g] = IF g = p THEN "active"
                                      ELSE IF g \in Waiting(b) /\ b.active <= g /\ g < p
                                      THEN "skipped" ELSE b.status[g]
  BY <1>1 DEF Stage
<1>3. p \in Waiting(b)
  <2>1. p \notin Done(b)
    BY <1>a DEF Good, Aimed
  <2>2. Stock(b, arr, p) /\ b.status[p] \in Statuses
    BY <1>a, BufferFields DEF Good, Stocked
  <2>3. QED
    BY <1>a, <2>1, <2>2, InWaiting DEF Stock, Statuses
<1>4. b.active <= p
  BY <1>a, <1>3 DEF Good, Aimed
<1> HIDE DEF p
<1>5. Lone(c)
  <2>1. ASSUME NEW g \in Groups, c.status[g] = "active", g # p PROVE FALSE
    <3>1. b.status[g] = "active" /\ ~ (g \in Waiting(b) /\ b.active <= g /\ g < p)
      BY <1>2, <2>1
    <3>2. g = b.active /\ g \in Waiting(b) /\ g \in Nat
      BY <3>1, InWaiting, GroupNumbers DEF Good, Lone
    <3>3. QED
      BY <1>a, <1>4, <2>1, <3>1, <3>2
  <2>2. QED
    BY <1>1, <2>1 DEF Lone
<1>6. Aimed(c)
  BY <1>1, InWaiting, GroupNumbers DEF Aimed
<1>7. Latest(c)
  <2>1. ASSUME NEW h \in Later(c, p) PROVE FALSE
    <3>1. /\ h \in Groups /\ h \in Nat /\ h > p /\ h \in b.keyed
          /\ c.status[h] \in {"receiving", "active"}
      BY <1>2, <2>1, InLater, GroupNumbers
    <3>2. h > b.active /\ ~ h <= p /\ h # p
      BY <1>a, <1>4, <3>1
    <3>3. b.status[h] \in {"receiving", "active"}
      BY <1>2, <3>1, <3>2
    <3>4. h \in Later(b, b.active)
      BY <3>1, <3>2, <3>3, InLater
    <3>5. QED
      BY <1>a, <3>2, <3>4 DEF Good, Latest, p
  <2>2. QED
    BY <1>1, <2>1 DEF Latest
<1>8. Headed(c, arr)
  BY <1>a, <1>1, <1>2, GroupNumbers DEF Headed
<1>9. Stocked(c, arr)
  <2>1. ASSUME NEW g \in Groups PROVE Stock(c, arr, g)
    <3>1. /\ Stock(b, arr, g) /\ c.status[g] \in {"skipped", "active", b.status[g]}
          /\ c.status[g] = "active" => b.status[g] \in {"receiving", "active"}
      BY <1>2, <1>3, InWaiting DEF Good, Stocked
    <3>2. QED
      BY <1>2, <3>1 DEF Stock
  <2>2. QED
    BY <2>1 DEF Stocked
<1>10. Onward(b, c)
  <2>1. p = b.active => Plays(b)
    BY <1>a, <1>3, GroupNumbers DEF Good, Headed, Plays
  <2>2. QED
    BY <1>1, <1>4, <2>1 DEF Onward
<1>11. QED
  BY <1>1, <1>5, <1>6, <1>7, <1>8, <1>9, <1>10 DEF Good, c

\* What the variables hold of a frame has arrived, and no group is past its end.
Held(b, arr) ==
  \A g \in Groups :
    /\ \A o \in b.frames[g] : <<g, o>> \in arr
    /\ b.next[g] <= LastOf[g] + 1

\* Frames come out of the active group, the first of them its keyframe.
LEMMA ReleasedGood ==
  ASSUME NEW b \in Buffers, NEW arr, Good(b, arr), Held(b, arr), b.active \in Groups,
         NEW ready \in SUBSET b.frames[b.active], NEW upto \in Nat,
         0 \in ready \/ b.next[b.active] # -1
  PROVE  Good(Released(b, ready, upto), arr)
<1> DEFINE r == Released(b, ready, upto)
<1>0. ready \in SUBSET Objects
  BY BufferFields
<1>1. /\ r.active = b.active /\ r.pending = b.pending /\ r.status = b.status /\ r.keyed = b.keyed
      /\ r.frames = [b.frames EXCEPT ![b.active] = b.frames[b.active] \ ready]
      /\ r.next = [b.next EXCEPT ![b.active] = upto + 1]
  BY <1>0, ReleasedFields
<1> HIDE DEF r
<1>2. \A h \in Groups : /\ r.frames[h] \subseteq b.frames[h]
                        /\ h # b.active => r.frames[h] = b.frames[h] /\ r.next[h] = b.next[h]
  BY <1>1, BufferFields
<1>3. r.next[b.active] = upto + 1 /\ upto + 1 # -1
  BY <1>1, BufferFields
<1>4. <<b.active, 0>> \in arr
  <2>1. Stock(b, arr, b.active)
    BY DEF Good, Stocked
  <2>2. CASE 0 \in ready
    BY <2>2 DEF Held
  <2>3. CASE b.next[b.active] # -1
    BY <2>1, <2>3 DEF Stock
  <2>4. QED
    BY <2>2, <2>3
<1>5. Lone(r)
  BY <1>1 DEF Good, Lone
<1>6. Waiting(r) = Waiting(b) /\ Done(r) = Done(b)
  BY <1>1 DEF Waiting, Done
<1>7. Aimed(r)
  <2>1. b.pending \in Done(b) => 0 \notin r.frames[b.pending]
    BY <1>2, InWaiting DEF Good, Aimed
  <2>2. QED
    BY <1>1, <1>6, <2>1 DEF Good, Aimed
<1>8. Latest(r)
  BY <1>1, <1>6 DEF Good, Latest, Later
<1>9. Headed(r, arr)
  BY <1>1, <1>6 DEF Good, Headed
<1>10. Stocked(r, arr)
  <2>1. ASSUME NEW g \in Groups PROVE Stock(r, arr, g)
    <3>1. Stock(b, arr, g)
      BY DEF Good, Stocked
    <3>2. CASE g = b.active
      <4>1. 0 \in r.frames[g] => 0 \in b.frames[g]
        BY <1>2
      <4>2. b.status[g] # "none"
        BY <3>1, <3>2 DEF Stock
      <4>3. QED
        BY <1>1, <1>3, <1>4, <3>1, <3>2, <4>1, <4>2 DEF Stock
    <3>3. CASE g # b.active
      BY <1>1, <1>2, <3>1, <3>3 DEF Stock
    <3>4. QED
      BY <3>2, <3>3
  <2>2. QED
    BY <2>1 DEF Stocked
<1>11. QED
  BY <1>5, <1>7, <1>8, <1>9, <1>10 DEF Good, r

\* Nothing has begun that had not, and what is played goes on or makes way.
Carried(b, c) ==
  /\ b.active <= c.active
  /\ \A h \in Groups : c.next[h] \in {-1, b.next[h]}
  /\ Plays(c) /\ c.active = b.active => Plays(b) /\ c.next[b.active] = b.next[b.active]

LEMMA OnwardCarried ==
  ASSUME NEW b \in Buffers, NEW c, Stage(b, c), Onward(b, c)
  PROVE  Carried(b, c)
BY DEF Stage, Onward, Carried

\* A frame that is no earlier than the active group, and what it does to the pending skip.
LEMMA AddedGood ==
  ASSUME NEW b \in Buffers, NEW arr, Good(b, arr), NEW g \in Groups, NEW o \in Objects,
         <<g, o>> \notin arr, g \notin Done(b), ~ (b.active # -1 /\ g < b.active)
  PROVE  LET n == Noted(Chosen(Received(b, g, o), g), g) IN
         Good(n, arr \cup {<<g, o>>}) /\ Carried(b, n)
<1> DEFINE r == Received(b, g, o)
           c == Chosen(r, g)
           n == Noted(c, g)
           now == arr \cup {<<g, o>>}
<1>a. /\ b.active \in Groups \cup {-1} /\ b.active \in Int /\ g \in Nat /\ g # -1
      /\ b.status \in [Groups -> Statuses] /\ b.next \in [Groups -> {-1} \cup Nat]
      /\ b.status[g] \in {"none", "receiving", "active"}
      /\ b.pending \in Groups \cup {-1} /\ b.pending \in Int
  BY BufferFields, GroupNumbers, InWaiting DEF Statuses
<1>1. /\ r \in Buffers /\ r.active = b.active /\ r.pending = b.pending
      /\ \E gone \in SUBSET Done(b) : Took(b, r, g, o, gone)
  BY ReceivedFields
<1>2. PICK gone \in SUBSET Done(b) : Took(b, r, g, o, gone)
  BY <1>1
<1> HIDE DEF r
<1>3. /\ Stage(r, c) /\ c.pending = b.pending
      /\ b.active # -1 => c = r
      /\ b.active = -1 => c.active = g /\ c.status = [r.status EXCEPT ![g] = "active"]
  <2>1. b.active # -1 => ~ g < r.active
    BY <1>1
  <2>2. r \in Buffers /\ r.active = b.active /\ r.pending = b.pending
    BY <1>1
  <2>3. Stage(r, c) /\ c.pending = r.pending
    BY <2>2, ChosenFields
  <2>4. r.active # -1 /\ ~ g < r.active => c = r
    BY <2>2, ChosenFields
  <2>5. r.active = -1 => c.active = g /\ c.status = [r.status EXCEPT ![g] = "active"]
    BY <2>2, ChosenFields
  <2>6. QED
    BY <2>1, <2>2, <2>3, <2>4, <2>5
<1> HIDE DEF c
<1>4. /\ Stage(c, n) /\ n.active = c.active /\ n.status = c.status
      /\ n.pending = IF skipToLatest /\ ~ g <= c.active /\ g \in c.keyed /\ g > c.pending
                     THEN g ELSE c.pending
  <2>1. c \in Buffers
    BY <1>3 DEF Stage
  <2>2. QED
    BY <2>1, NotedFields
<1> HIDE DEF n
<1>5. /\ n.active = IF b.active = -1 THEN g ELSE b.active
      /\ n.active \in Groups /\ n.active \in Nat /\ b.active <= n.active /\ n.active <= g
  <2>1. CASE b.active = -1
    BY <1>a, <1>3, <1>4, <2>1
  <2>2. CASE b.active # -1
    <3>1. n.active = b.active /\ b.active \in Nat
      BY <1>a, <1>1, <1>3, <1>4, <2>2, GroupNumbers
    <3>2. QED
      BY <1>a, <2>2, <3>1
  <2>3. QED
    BY <2>1, <2>2
<1>6. /\ n.frames = r.frames /\ n.next = r.next /\ n.keyed = r.keyed
  BY <1>3, <1>4 DEF Stage
<1>7. \A h \in Groups :
        /\ h \in gone => b.status[h] \in {"complete", "skipped"} /\ h # g
        /\ n.next[h] = IF h \in gone THEN -1 ELSE b.next[h]
        /\ n.frames[h] = (IF h \in gone THEN {} ELSE b.frames[h]) \cup (IF h = g THEN {o} ELSE {})
        /\ h \in n.keyed <=> (h \in b.keyed /\ h \notin gone) \/ (h = g /\ o = 0)
  BY <1>a, <1>2, <1>6, InWaiting DEF Took
\* The state of each group: that of the frame is received or active.
<1>8. \A h \in Groups :
        n.status[h] = IF h = g THEN IF b.active = -1 \/ b.status[g] = "active" THEN "active"
                                                                          ELSE "receiving"
                      ELSE IF h \in gone THEN "none" ELSE b.status[h]
  <2>1. \A h \in Groups : r.status[h] = IF h = g /\ b.status[g] = "none" THEN "receiving"
                                        ELSE IF h \in gone THEN "none" ELSE b.status[h]
    BY <1>2 DEF Took
  <2>2. b.active = -1 => \A h \in Groups : n.status[h] = IF h = g THEN "active" ELSE r.status[h]
    <3>1. r.status \in [Groups -> Statuses]
      BY <1>1, BufferFields
    <3>2. QED
      BY <1>3, <1>4, <3>1
  <2>3. b.active # -1 => n.status = r.status
    BY <1>3, <1>4
  <2>4. QED
    BY <1>a, <1>7, <2>1, <2>2, <2>3
<1>9. b.active = -1 => \A h \in Groups : b.status[h] = "none"
  BY DEF Good, Headed
<1>10. Lone(n)
  <2>1. ASSUME NEW h \in Groups, n.status[h] = "active" PROVE h = n.active
    <3>1. CASE b.active = -1
      BY <1>5, <1>8, <1>9, <2>1, <3>1
    <3>2. CASE b.active # -1
      BY <1>5, <1>8, <2>1, <3>2 DEF Good, Lone
    <3>3. QED
      BY <3>1, <3>2
  <2>2. QED
    BY <2>1 DEF Lone
\* Only the group of the frame can have become one that can be played.
<1>11. \A h \in Groups : h # g /\ n.status[h] \in {"receiving", "active"} /\ h \in n.keyed
          => b.status[h] = n.status[h] /\ h \in b.keyed
  BY <1>7, <1>8
<1>12. \A h \in Groups : n.status[h] \in {"complete", "skipped"} =>
          h # g /\ b.status[h] = n.status[h] /\ n.frames[h] = b.frames[h]
  BY <1>7, <1>8
<1>13. n.pending \in {b.pending, g} /\ (n.pending # b.pending => skipToLatest)
  BY <1>3, <1>4
<1>14. Aimed(n)
  <2>1. n.pending \in Waiting(n) \cap n.keyed => n.active <= n.pending
    <3>1. SUFFICES ASSUME n.pending \in Groups, n.pending # g, n.pending \in n.keyed,
                          n.status[n.pending] \in {"receiving", "active"}
                   PROVE  n.active <= n.pending
      BY <1>5, InWaiting
    <3>2. n.pending = b.pending /\ b.pending \in Waiting(b) \cap b.keyed
      BY <1>11, <1>13, <3>1, InWaiting
    <3>3. b.active # -1
      BY <1>9, <3>2, InWaiting
    <3>4. QED
      BY <1>5, <3>2, <3>3 DEF Good, Aimed
  <2>2. ASSUME n.pending \in Done(n) PROVE 0 \notin n.frames[n.pending]
    <3>1. n.pending \in Groups /\ n.status[n.pending] \in {"complete", "skipped"}
      BY <2>2, InWaiting
    <3>2. /\ n.pending # g /\ n.frames[n.pending] = b.frames[n.pending]
          /\ b.status[n.pending] \in {"complete", "skipped"}
      BY <1>12, <3>1
    <3>3. n.pending = b.pending /\ b.pending \in Done(b)
      BY <1>13, <3>1, <3>2, InWaiting
    <3>4. QED
      BY <3>2, <3>3 DEF Good, Aimed
  <2>3. n.pending # -1 => skipToLatest
    BY <1>13 DEF Good, Aimed
  <2>4. QED
    BY <2>1, <2>2, <2>3 DEF Aimed
<1>15. Latest(n)
  <2>1. SUFFICES ASSUME skipToLatest, NEW h \in Later(n, n.active) PROVE h <= n.pending
    BY DEF Latest
  <2>2. /\ h \in Groups /\ h \in Nat /\ h > n.active /\ h \in n.keyed
        /\ n.status[h] \in {"receiving", "active"}
    BY <2>1, InLater, GroupNumbers
  <2>3. n.pending = IF ~ g <= n.active /\ g \in n.keyed /\ g > b.pending THEN g ELSE b.pending
    BY <1>3, <1>4, <1>6, <2>1 DEF Stage
  <2>4. CASE h = g
    BY <1>5, <1>a, <2>2, <2>3, <2>4
  <2>5. CASE h # g
    <3>1. b.status[h] \in {"receiving", "active"} /\ h \in b.keyed
      BY <1>11, <2>2, <2>5
    <3>2. b.active # -1
      BY <1>9, <2>2, <3>1
    <3>3. h \in Later(b, b.active)
      BY <1>5, <2>2, <3>1, <3>2, InLater
    <3>4. h <= b.pending
      BY <2>1, <3>3 DEF Good, Latest
    <3>5. QED
      BY <1>a, <2>2, <2>3, <3>4
  <2>6. QED
    BY <2>4, <2>5
<1>16. Headed(n, now)
  <2>1. CASE b.active = -1
    BY <1>5, <1>8, <2>1, GroupNumbers DEF Headed
  <2>2. CASE b.active # -1
    <3>1. n.active = b.active /\ b.active \in Groups /\ n.active # -1
      BY <1>a, <1>5, <2>2
    <3>2. n.status[b.active] # "active" => b.status[b.active] # "active" /\ <<b.active, 0>> \in arr
      BY <1>7, <1>8, <2>2, <3>1 DEF Good, Headed
    <3>3. n.active \in Waiting(n) \cap n.keyed => n.status[n.active] = "active"
      <4>1. SUFFICES ASSUME n.status[b.active] = "receiving", b.active \in n.keyed
                     PROVE  FALSE
        BY <3>1, InWaiting
      <4>2. <<b.active, 0>> \in arr /\ b.status[b.active] # "active"
        BY <3>2, <4>1
      <4>3. b.active \in b.keyed /\ b.active \notin gone
        BY <1>7, <3>1, <4>1, <4>2
      <4>4. b.status[b.active] \notin {"receiving", "active"}
        BY <3>1, <4>2, <4>3, InWaiting DEF Good, Headed
      <4>5. b.active = g /\ b.status[g] = "none"
        BY <1>a, <1>8, <3>1, <4>1, <4>3, <4>4
      <4>6. Stock(b, arr, g)
        BY DEF Good, Stocked
      <4>7. QED
        BY <4>3, <4>5, <4>6 DEF Stock
    <3>4. QED
      BY <3>1, <3>2, <3>3 DEF Headed
  <2>3. QED
    BY <2>1, <2>2
<1>17. Stocked(n, now)
  <2>1. ASSUME NEW h \in Groups PROVE Stock(n, now, h)
    <3>1. Stock(b, arr, h)
      BY DEF Good, Stocked
    <3>2. CASE h = g
      <4>1. /\ n.status[g] # "none" /\ n.next[g] = b.next[g] /\ o \in n.frames[g]
            /\ n.frames[g] = b.frames[g] \cup {o}
            /\ g \in n.keyed <=> g \in b.keyed \/ o = 0
        BY <1>7, <1>8
      <4>2. QED
        BY <3>1, <3>2, <4>1 DEF Stock
    <3>3. CASE h # g /\ h \in gone
      <4>1. n.status[h] = "none" /\ n.next[h] = -1 /\ n.frames[h] = {} /\ h \notin n.keyed
        BY <1>7, <1>8, <3>3
      <4>2. QED
        BY <4>1 DEF Stock
    <3>4. CASE h # g /\ h \notin gone
      <4>1. /\ n.status[h] = b.status[h] /\ n.next[h] = b.next[h] /\ n.frames[h] = b.frames[h]
            /\ h \in n.keyed <=> h \in b.keyed
        BY <1>7, <1>8, <3>4
      <4>2. QED
        BY <3>1, <4>1 DEF Stock
    <3>5. QED
      BY <3>2, <3>3, <3>4
  <2>2. QED
    BY <2>1 DEF Stocked
<1>18. Carried(b, n)
  <2>1. \A h \in Groups : n.next[h] \in {-1, b.next[h]}
    BY <1>7
  <2>2. ASSUME Plays(n), n.active = b.active
        PROVE  Plays(b) /\ n.next[b.active] = b.next[b.active]
    <3>1. b.active \in Groups /\ b.active # -1 /\ n.status[b.active] = "active"
      BY <1>5, <2>2, GroupNumbers DEF Plays
    <3>2. b.status[b.active] = "active" /\ b.active \notin gone
      BY <1>7, <1>8, <3>1
    <3>3. QED
      BY <1>7, <3>1, <3>2 DEF Plays
  <2>3. QED
    BY <1>5, <2>1, <2>2 DEF Carried
<1>19. QED
  BY <1>10, <1>14, <1>15, <1>16, <1>17, <1>18 DEF Good, n, c, r

-----------------------------------------------------------------------------
(* Types.                                                                   *)

LEMMA FrameParts ==
  ASSUME NEW f \in Frames
  PROVE  f[1] \in Groups /\ f[2] \in Nat /\ f[2] <= LastOf[f[1]]
<1>1. f[1] \in Groups /\ f[2] \in Objects /\ f[2] <= LastOf[f[1]]
  BY DEF Frames
<1>2. PICK g \in Groups : f[2] \in 0 .. LastOf[g]
  BY <1>1 DEF Objects
<1>3. QED
  BY <1>1, <1>2

LEMMA ObjectNumbers == Objects \subseteq Nat
BY DEF Objects

LEMMA StageHeld ==
  ASSUME NEW b, NEW c, NEW arr, Stage(b, c), Held(b, arr)
  PROVE  Held(c, arr)
BY DEF Stage, Held

\* TypeOK but for the status of the active group.
Typed ==
  /\ skipToLatest \in BOOLEAN /\ dropped \in BOOLEAN
  /\ buffer \in Buffers
  /\ current \in Groups \cup {-1}
  /\ arrived \in SUBSET Frames /\ last \in arrived \cup {Nothing}
  /\ faults \in SUBSET {"late", "label"}
  /\ Held(buffer, arrived)

LEMMA TypedIsTypeOK == TypeOK <=> Typed /\ (Lone(buffer) \/ "late" \in faults)
BY DEF TypeOK, Typed, Held, Lone

LEMMA InitTyped == Init => Typed
<1> SUFFICES ASSUME Init PROVE Typed
  OBVIOUS
<1>1. Empty \in Buffers
  BY Counts DEF Empty, Buffers
<1>2. Held(Empty, {})
  <2>1. \A g \in Groups : LastOf[g] \in Nat
    OBVIOUS
  <2>2. QED
    BY <2>1 DEF Held, Empty
<1>3. QED
  BY <1>1, <1>2 DEF Init, Typed

LEMMA ReceivedHeld ==
  ASSUME NEW b \in Buffers, NEW arr, Held(b, arr), NEW g \in Groups, NEW o \in Objects
  PROVE  Held(Received(b, g, o), arr \cup {<<g, o>>})
<1> DEFINE c == Received(b, g, o)
<1>1. PICK gone \in SUBSET Done(b) : Took(b, c, g, o, gone)
  BY ReceivedFields
<1> HIDE DEF c
<1>2. ASSUME NEW h \in Groups, NEW p \in c.frames[h] PROVE <<h, p>> \in arr \cup {<<g, o>>}
  BY <1>1, <1>2 DEF Took, Held
<1>3. ASSUME NEW h \in Groups PROVE c.next[h] <= LastOf[h] + 1
  <2>1. c.next[h] \in {-1, b.next[h]} /\ b.next[h] <= LastOf[h] + 1 /\ LastOf[h] \in Nat
    BY <1>1 DEF Took, Held
  <2>2. QED
    BY <2>1
<1>4. QED
  BY <1>2, <1>3 DEF Held, c

LEMMA AddFrameTyped ==
  ASSUME Typed, NEW g \in Groups, NEW o \in Objects, NEW ripe \in BOOLEAN, AddFrame(g, o, ripe)
  PROVE  Typed'
<1>1. <<g, o>> \in Frames
  BY DEF AddFrame, Frames
<1>2. /\ arrived' = arrived \cup {<<g, o>>} /\ arrived' \in SUBSET Frames
      /\ last' = last /\ last' \in arrived' \cup {Nothing}
      /\ skipToLatest' = skipToLatest /\ dropped' = dropped /\ current' = current
  BY <1>1 DEF AddFrame, Typed
<1>3. CASE UNCHANGED <<buffer, faults>>
  <2>1. Held(buffer, arrived')
    BY <1>2 DEF Typed, Held
  <2>2. QED
    BY <1>2, <1>3, <2>1 DEF Typed
<1>4. CASE ~ UNCHANGED <<buffer, faults>>
  <2>1. PICK b \in {Chosen(Received(buffer, g, o), g)} : \E n \in {Noted(b, g)} :
           /\ ripe => CanSkip(n)
           /\ buffer' = IF ripe THEN ExecuteSkip(n) ELSE n
           /\ faults' = faults \cup
                (IF buffer.active # -1 /\ g < buffer.active THEN {"late"} ELSE {})
    BY <1>4 DEF AddFrame
  <2>2. PICK n \in {Noted(b, g)} :
           /\ ripe => CanSkip(n)
           /\ buffer' = IF ripe THEN ExecuteSkip(n) ELSE n
           /\ faults' = faults \cup
                (IF buffer.active # -1 /\ g < buffer.active THEN {"late"} ELSE {})
    BY <2>1
  <2>3. /\ Received(buffer, g, o) \in Buffers
        /\ Held(Received(buffer, g, o), arrived')
    BY <1>2, ReceivedFields, ReceivedHeld DEF Typed
  <2>4. Stage(Received(buffer, g, o), b)
    <3>1. Stage(Received(buffer, g, o), Chosen(Received(buffer, g, o), g))
      BY <2>3, ChosenFields, Zenon
    <3>2. b = Chosen(Received(buffer, g, o), g)
      OBVIOUS
    <3>3. QED
      BY <3>1, <3>2
  <2>5. b \in Buffers /\ Held(b, arrived')
    BY <2>3, <2>4, StageHeld DEF Stage
  <2>6. Stage(b, n)
    BY <2>5, NotedFields
  <2>7. n \in Buffers /\ Held(n, arrived')
    BY <2>5, <2>6, StageHeld DEF Stage
  <2>8. CanSkip(n) => Stage(n, ExecuteSkip(n))
    <3>1. CanSkip(n) => n.pending \in Groups
      BY <2>7, BufferFields DEF CanSkip
    <3>2. QED
      BY <2>7, <3>1, ExecuteSkipFields
  <2>9. buffer' \in Buffers /\ Held(buffer', arrived')
    BY <2>2, <2>7, <2>8, StageHeld DEF Stage
  <2>10. faults' \in SUBSET {"late", "label"}
    BY <2>2 DEF Typed
  <2>11. Held(buffer, arrived)'
    BY <2>9 DEF Held
  <2>12. QED
    BY <1>2, <2>9, <2>10, <2>11 DEF Typed, Buffers, Objects
<1>5. QED
  BY <1>3, <1>4

LEMMA MarkTyped ==
  ASSUME Typed, NEW g \in Groups, MarkGroupComplete(g)
  PROVE  Typed'
<1> DEFINE b == [buffer EXCEPT !.ended = @ \cup {g}]
<1>1. b \in Buffers /\ b.frames = buffer.frames /\ b.next = buffer.next /\ b.active = buffer.active
  BY DEF Typed, Buffers
<1>2. Held(b, arrived)
  BY <1>1 DEF Typed, Held
<1>3. \/ buffer' = b
      \/ g = b.active /\ buffer' = Promote(CompleteGroup(b, g, "complete"))
  BY DEF MarkGroupComplete
<1> HIDE DEF b
<1>4. buffer' \in Buffers /\ Held(buffer', arrived)
  BY <1>1, <1>2, <1>3, LeaveStage, StageHeld DEF Stage
<1>5. /\ skipToLatest' = skipToLatest /\ current' = current /\ arrived' = arrived
      /\ last' = last /\ dropped' = dropped /\ faults' = faults
  BY DEF MarkGroupComplete, history
<1>6. QED
  BY <1>4, <1>5 DEF Typed, Held, Buffers, Objects

\* The stages of a poll up to the group that is chosen: what each leaves as it was, and
\* that each keeps the groups good.
Kept(b, c, arr) == Stage(b, c) /\ (Good(b, arr) => Good(c, arr) /\ Onward(b, c))

LEMMA KeptTrans ==
  ASSUME NEW b \in Buffers, NEW c, NEW d, NEW arr, Kept(b, c, arr), Kept(c, d, arr)
  PROVE  Kept(b, d, arr)
<1>1. Stage(b, d)
  BY DEF Kept, Stage
<1>2. ASSUME Good(b, arr) PROVE Good(d, arr) /\ Onward(b, d)
  BY <1>2, OnwardTrans DEF Kept
<1>3. QED
  BY <1>1, <1>2 DEF Kept

LEMMA SkippedKept ==
  ASSUME NEW b \in Buffers, NEW arr, NEW ripe \in BOOLEAN, ripe => CanSkip(b)
  PROVE  Kept(b, IF ripe THEN ExecuteSkip(b) ELSE b, arr)
<1>1. CASE ripe
  <2>1. b.pending \in Groups
    BY <1>1, BufferFields DEF CanSkip
  <2>2. QED
    BY <1>1, <2>1, ExecuteSkipFields, ExecuteSkipGood DEF Kept
<1>2. CASE ~ ripe
  BY <1>2, OnwardRefl DEF Kept
<1>3. QED
  BY <1>1, <1>2

LEMMA HandledKept ==
  ASSUME NEW b \in Buffers, NEW arr, NEW due \in SUBSET Groups
  PROVE  Kept(b, Handled(b, due), arr)
BY HandledFields, HandledGood DEF Kept

LEMMA UpdatedKept ==
  ASSUME NEW b \in Buffers, NEW arr, NEW due \in SUBSET Groups
  PROVE  Kept(b, Updated(b, due), arr)
BY UpdatedFields, UpdatedGood DEF Kept

LEMMA ChosenKept ==
  ASSUME NEW b \in Buffers, NEW arr
  PROVE  Kept(b, IF Plays(b) THEN b ELSE Promote(b), arr)
<1>1. CASE Plays(b)
  BY <1>1, OnwardRefl DEF Kept
<1>2. CASE ~ Plays(b)
  BY <1>2, PromoteFields, PromoteGood DEF Kept
<1>3. QED
  BY <1>1, <1>2

LEMMA CompletedKept ==
  ASSUME NEW b \in Buffers, NEW arr, b.active \in Groups
  PROVE  Kept(b, Completed(b), arr)
BY CompletedFields, CompletedGood DEF Kept

\* What a poll does with the group that is chosen, and what it is.
Effect(all, ticked, chosen, can, upto, ready) ==
  /\ all => ready = can
  /\ buffer' = IF Plays(chosen) THEN Completed(Released(chosen, ready, upto)) ELSE chosen
  /\ current' = Decoded(ticked.active, ready)
  /\ last' = IF upto = -1 THEN last ELSE <<chosen.active, upto>>
  /\ dropped' = (dropped \/ (ready \ {0} # {} /\ current' # ticked.active))
  /\ faults' = faults \cup
       (IF upto # -1 /\ ticked.active # chosen.active THEN {"label"} ELSE {})

PollOutcome(all, ticked, chosen, can, upto, ready) ==
  /\ Kept(buffer, ticked, arrived) /\ Kept(ticked, chosen, arrived)
  /\ upto \in can \cup {-1} /\ ready = {o \in can : o <= upto}
  /\ ~ Plays(chosen) => can = {}
  /\ Plays(chosen) =>
       /\ can \in SUBSET chosen.frames[chosen.active]
       /\ can # {} => chosen.next[chosen.active] # -1 \/ 0 \in can
       /\ \A o \in can : chosen.next[chosen.active] <= o
  /\ Effect(all, ticked, chosen, can, upto, ready)
  /\ skipToLatest' = skipToLatest /\ arrived' = arrived

\* The frames that can come out of a group that is being played.
LEMMA ReadyFrames ==
  ASSUME NEW b \in Buffers, b.active \in Groups, NEW patient
  PROVE  /\ Ready(b, patient) \in SUBSET b.frames[b.active]
         /\ Ready(b, patient) # {} => b.next[b.active] # -1 \/ 0 \in Ready(b, patient)
         /\ \A o \in Ready(b, patient) : b.next[b.active] <= o
<1> DEFINE held == b.frames[b.active]
           start == IF b.next[b.active] = -1 THEN 0 ELSE b.next[b.active]
<1>1. held \in SUBSET Nat /\ start \in Nat /\ b.next[b.active] <= start
  <2>1. b.next[b.active] = -1 \/ b.next[b.active] \in Nat
    BY BufferFields
  <2>2. start \in Nat /\ b.next[b.active] <= start
    BY <2>1
  <2>3. b.frames[b.active] \in SUBSET Objects
    BY BufferFields
  <2>4. QED
    BY <2>2, <2>3, ObjectNumbers
<1>2. Ready(b, patient) =
        {o \in held : /\ start <= o
                      /\ start .. o \subseteq held \/ (~ patient /\ start .. o \cap {0} \subseteq held)}
  BY DEF Ready
<1>3. \A o \in Ready(b, patient) : o \in held /\ o \in Nat /\ start <= o
  BY <1>1, <1>2
<1>4. ASSUME NEW o \in Ready(b, patient), b.next[b.active] = -1
      PROVE  0 \in Ready(b, patient)
  <2>1. start = 0 /\ 0 \in 0 .. o
    BY <1>3, <1>4
  <2>2. 0 \in held
    BY <1>2, <1>4, <2>1
  <2>3. 0 .. 0 \subseteq held
    BY <2>2
  <2>4. QED
    BY <1>2, <2>1, <2>2, <2>3
<1>5. QED
  <2>1. \A o \in Ready(b, patient) : b.next[b.active] <= o
    <3>1. TAKE o \in Ready(b, patient)
    <3>2. b.next[b.active] \in Int
      BY BufferFields
    <3>3. QED
      BY <1>1, <1>3, <3>2
  <2>2. QED
    BY <1>3, <1>4, <2>1

LEMMA PollHasOutcome ==
  ASSUME Typed, NEW ripe \in BOOLEAN, NEW due \in SUBSET Watched(buffer), NEW pressing, NEW all,
         Poll(ripe, due, pressing, all)
  PROVE  \E ticked, chosen, can, upto, ready :
           chosen \in Buffers /\ PollOutcome(all, ticked, chosen, can, upto, ready)
<1>0. due \in SUBSET Groups /\ buffer \in Buffers
  BY DEF Watched, Waiting, Done, Typed
<1>p1. PICK skipped \in {IF ripe THEN ExecuteSkip(buffer) ELSE buffer} :
         \E ticked \in {Handled(skipped, due)} :
         \E left \in {StillDue(skipped, due)} :
         \E updated \in {Updated(ticked, left)} :
         \E chosen \in {IF Plays(updated) THEN updated ELSE Promote(updated)} :
         \E can \in {IF Plays(chosen)
                 THEN Ready(chosen, ~pressing /\ updated.active \notin StillDue(ticked, left))
                 ELSE {}} :
         \E upto \in can \cup {-1} :
         \E ready \in {{o \in can : o <= upto}} :
           Effect(all, ticked, chosen, can, upto, ready)
  <2>1. PICK skipped \in {IF ripe THEN ExecuteSkip(buffer) ELSE buffer} :
     \E ticked \in {Handled(skipped, due)}, left \in {StillDue(skipped, due)} :
     \E updated \in {Updated(ticked, left)} :
     \E chosen \in {IF Plays(updated) THEN updated ELSE Promote(updated)} :
     \E can \in {IF Plays(chosen)
                THEN Ready(chosen, ~pressing /\ updated.active \notin StillDue(ticked, left))
                ELSE {}} :
     \E upto \in can \cup {-1} : \E ready \in {{o \in can : o <= upto}} :
       Effect(all, ticked, chosen, can, upto, ready)
    BY DEF Poll, Effect
  <2>2. QED
    BY <2>1
<1>p2. PICK ticked \in {Handled(skipped, due)} :
         \E left \in {StillDue(skipped, due)} :
         \E updated \in {Updated(ticked, left)} :
         \E chosen \in {IF Plays(updated) THEN updated ELSE Promote(updated)} :
         \E can \in {IF Plays(chosen)
                 THEN Ready(chosen, ~pressing /\ updated.active \notin StillDue(ticked, left))
                 ELSE {}} :
         \E upto \in can \cup {-1} :
         \E ready \in {{o \in can : o <= upto}} :
           Effect(all, ticked, chosen, can, upto, ready)
  BY <1>p1
<1>p3. PICK left \in {StillDue(skipped, due)} :
         \E updated \in {Updated(ticked, left)} :
         \E chosen \in {IF Plays(updated) THEN updated ELSE Promote(updated)} :
         \E can \in {IF Plays(chosen)
                 THEN Ready(chosen, ~pressing /\ updated.active \notin StillDue(ticked, left))
                 ELSE {}} :
         \E upto \in can \cup {-1} :
         \E ready \in {{o \in can : o <= upto}} :
           Effect(all, ticked, chosen, can, upto, ready)
  BY <1>p2
<1>p4. PICK updated \in {Updated(ticked, left)} :
         \E chosen \in {IF Plays(updated) THEN updated ELSE Promote(updated)} :
         \E can \in {IF Plays(chosen)
                 THEN Ready(chosen, ~pressing /\ updated.active \notin StillDue(ticked, left))
                 ELSE {}} :
         \E upto \in can \cup {-1} :
         \E ready \in {{o \in can : o <= upto}} :
           Effect(all, ticked, chosen, can, upto, ready)
  BY <1>p3
<1>p5. PICK chosen \in {IF Plays(updated) THEN updated ELSE Promote(updated)} :
         \E can \in {IF Plays(chosen)
                 THEN Ready(chosen, ~pressing /\ updated.active \notin StillDue(ticked, left))
                 ELSE {}} :
         \E upto \in can \cup {-1} :
         \E ready \in {{o \in can : o <= upto}} :
           Effect(all, ticked, chosen, can, upto, ready)
  BY <1>p4
<1>p6. PICK can \in {IF Plays(chosen)
          THEN Ready(chosen, ~pressing /\ updated.active \notin StillDue(ticked, left))
          ELSE {}} :
         \E upto \in can \cup {-1} :
         \E ready \in {{o \in can : o <= upto}} :
           Effect(all, ticked, chosen, can, upto, ready)
  BY <1>p5
<1>p7. PICK upto \in can \cup {-1} :
         \E ready \in {{o \in can : o <= upto}} :
           Effect(all, ticked, chosen, can, upto, ready)
  BY <1>p6
<1>p8. PICK ready \in {{o \in can : o <= upto}} :
           Effect(all, ticked, chosen, can, upto, ready)
  BY <1>p7
<1>3. Kept(buffer, skipped, arrived)
  <2>1. ripe => CanSkip(buffer)
    BY DEF Poll
  <2>2. QED
    BY <1>0, <2>1, SkippedKept
<1>4. skipped \in Buffers /\ Kept(skipped, ticked, arrived)
  BY <1>0, <1>3, HandledKept DEF Kept, Stage
<1>5. ticked \in Buffers /\ left \in SUBSET Groups
  BY <1>0, <1>4, StillDueGroups DEF Kept, Stage
<1>6. Kept(ticked, updated, arrived)
  BY <1>5, UpdatedKept
<1>7. updated \in Buffers /\ Kept(updated, chosen, arrived)
  BY <1>6, ChosenKept DEF Kept, Stage
<1>8. chosen \in Buffers /\ Kept(buffer, ticked, arrived) /\ Kept(ticked, chosen, arrived)
  BY <1>0, <1>3, <1>4, <1>5, <1>6, <1>7, KeptTrans DEF Kept, Stage
<1>9. Plays(chosen) =>
       /\ can \in SUBSET chosen.frames[chosen.active]
       /\ can # {} => chosen.next[chosen.active] # -1 \/ 0 \in can
       /\ \A o \in can : chosen.next[chosen.active] <= o
  <2>1. Plays(chosen) => chosen.active \in Groups
    BY <1>8, BufferFields DEF Plays
  <2>2. QED
    BY <1>8, <2>1, ReadyFrames
<1>10. skipToLatest' = skipToLatest /\ arrived' = arrived /\ (~ Plays(chosen) => can = {})
  BY DEF Poll
<1>11. PollOutcome(all, ticked, chosen, can, upto, ready)
  BY <1>p8, <1>8, <1>9, <1>10 DEF PollOutcome
<1>12. QED
  BY <1>8, <1>11

\* What came out of the group that is chosen is of it, and had arrived.
LEMMA OutOfChosen ==
  ASSUME NEW c \in Buffers, NEW arr \in SUBSET Frames, Held(c, arr), Plays(c),
         NEW can \in SUBSET c.frames[c.active], NEW upto \in can
  PROVE  /\ c.active \in Groups /\ upto \in Nat /\ <<c.active, upto>> \in arr
         /\ upto <= LastOf[c.active]
         /\ c.active # -1
<1>1. c.active \in Groups /\ c.active # -1
  BY BufferFields DEF Plays
<1>2. <<c.active, upto>> \in arr /\ upto \in Objects
  BY <1>1, BufferFields DEF Held
<1>3. <<c.active, upto>> \in Frames
  BY <1>2
<1>4. <<c.active, upto>>[2] <= LastOf[<<c.active, upto>>[1]]
  BY <1>3, FrameParts
<1>5. QED
  BY <1>1, <1>2, <1>4, ObjectNumbers

LEMMA ReleasedHeld ==
  ASSUME NEW c \in Buffers, NEW arr \in SUBSET Frames, Held(c, arr), Plays(c),
         NEW can \in SUBSET c.frames[c.active], NEW upto \in can \cup {-1},
         NEW ready \in SUBSET can
  PROVE  Released(c, ready, upto) \in Buffers /\ Held(Released(c, ready, upto), arr)
         /\ Released(c, ready, upto).active = c.active
<1> DEFINE r == Released(c, ready, upto)
<1>1. CASE upto = -1
  BY <1>1 DEF Released
<1>2. CASE upto # -1
  <2>1. /\ c.active \in Groups /\ upto \in Nat /\ upto <= LastOf[c.active]
    BY <1>2, OutOfChosen
  <2>2. ready \in SUBSET Objects
    BY <2>1, BufferFields
  <2>3. /\ r \in Buffers /\ r.active = c.active
        /\ r.frames = [c.frames EXCEPT ![c.active] = c.frames[c.active] \ ready]
        /\ r.next = [c.next EXCEPT ![c.active] = upto + 1]
    BY <2>1, <2>2, ReleasedFields
  <2> HIDE DEF r
  <2>4. ASSUME NEW g \in Groups
        PROVE  r.frames[g] \subseteq c.frames[g] /\ r.next[g] <= LastOf[g] + 1
    <3>1. r.frames[g] \subseteq c.frames[g]
      BY <2>3, BufferFields
    <3>2. c.next[g] <= LastOf[g] + 1 /\ LastOf[g] \in Nat
      BY DEF Held
    <3>3. r.next[g] = IF g = c.active THEN upto + 1 ELSE c.next[g]
      BY <2>3, BufferFields
    <3>4. QED
      BY <2>1, <3>1, <3>2, <3>3
  <2>5. QED
    BY <2>3, <2>4 DEF Held, r
<1>3. QED
  BY <1>1, <1>2

LEMMA PollTyped ==
  ASSUME Typed, NEW ripe \in BOOLEAN, NEW due \in SUBSET Watched(buffer), NEW pressing, NEW all,
         Poll(ripe, due, pressing, all)
  PROVE  Typed'
<1>1. PICK ticked, chosen, can, upto, ready :
        chosen \in Buffers /\ PollOutcome(all, ticked, chosen, can, upto, ready)
  BY PollHasOutcome
<1>2. /\ ticked \in Buffers /\ chosen \in Buffers /\ Held(chosen, arrived)
      /\ arrived \in SUBSET Frames
  <2>1. ticked \in Buffers /\ chosen \in Buffers /\ Held(buffer, arrived)
    BY <1>1 DEF PollOutcome, Kept, Stage, Typed
  <2>2. Held(ticked, arrived) /\ Stage(ticked, chosen)
    BY <1>1, <2>1, StageHeld DEF PollOutcome, Kept
  <2>3. QED
    BY <2>1, <2>2, StageHeld DEF Typed
<1>3. upto \in can \cup {-1} /\ ready \in SUBSET can /\ (~ Plays(chosen) => can = {})
      /\ (Plays(chosen) => can \in SUBSET chosen.frames[chosen.active])
      /\ skipToLatest' = skipToLatest /\ arrived' = arrived
  BY <1>1 DEF PollOutcome
<1>4. Effect(all, ticked, chosen, can, upto, ready)
  BY <1>1 DEF PollOutcome
<1>5. upto # -1 => <<chosen.active, upto>> \in arrived
  BY <1>2, <1>3, OutOfChosen
<1>6. buffer' \in Buffers /\ Held(buffer', arrived)
  <2>1. CASE ~ Plays(chosen)
    BY <1>2, <1>4, <2>1 DEF Effect
  <2>2. CASE Plays(chosen)
    <3>1. /\ Released(chosen, ready, upto) \in Buffers
          /\ Held(Released(chosen, ready, upto), arrived)
          /\ Released(chosen, ready, upto).active = chosen.active
      BY <1>2, <1>3, <2>2, ReleasedHeld
    <3>2. chosen.active \in Groups
      BY <1>2, <2>2, BufferFields DEF Plays
    <3>3. Stage(Released(chosen, ready, upto), Completed(Released(chosen, ready, upto)))
      BY <3>1, <3>2, CompletedFields
    <3>4. buffer' = Completed(Released(chosen, ready, upto))
      BY <1>4, <2>2 DEF Effect
    <3>5. QED
      BY <3>1, <3>3, <3>4, StageHeld DEF Stage
  <2>3. QED
    BY <2>1, <2>2
<1>7. current' \in Groups \cup {-1}
  <2>1. ticked.active \in Groups \cup {-1}
    BY <1>2, BufferFields
  <2>2. QED
    BY <1>4, <2>1 DEF Effect, Decoded, Typed
<1>8. last' \in arrived \cup {Nothing} /\ faults' \in SUBSET {"late", "label"}
  BY <1>4, <1>5 DEF Effect, Typed
<1>9. dropped' \in BOOLEAN
  BY <1>4 DEF Effect, Typed
<1>10. Held(buffer, arrived)'
  BY <1>3, <1>6 DEF Held
<1>11. QED
  BY <1>3, <1>6, <1>7, <1>8, <1>9, <1>10 DEF Typed, Buffers, Objects

LEMMA ResetTyped ==
  ASSUME Typed, Reset
  PROVE  Typed'
<1>1. Empty \in Buffers
  BY Counts DEF Empty, Buffers
<1>2. Held(Empty, {})
  <2>1. \A g \in Groups : LastOf[g] \in Nat
    OBVIOUS
  <2>2. QED
    BY <2>1 DEF Held, Empty
<1>3. Held(buffer, arrived)'
  BY <1>2 DEF Reset, Held
<1>4. QED
  BY <1>1, <1>3 DEF Reset, Typed, Buffers, Objects

LEMMA StepTyped ==
  ASSUME Typed, [Next]_vars
  PROVE  Typed'
<1>1. CASE UNCHANGED vars
  BY <1>1 DEF vars, history, Typed, Held, Buffers, Objects
<1>2. CASE Reset
  BY <1>2, ResetTyped
<1>3. ASSUME NEW g \in Groups, NEW o \in Objects, NEW ripe \in BOOLEAN, AddFrame(g, o, ripe)
      PROVE  Typed'
  BY <1>3, AddFrameTyped
<1>4. ASSUME NEW g \in Groups, MarkGroupComplete(g) PROVE Typed'
  BY <1>4, MarkTyped
<1>5. ASSUME NEW ripe \in BOOLEAN, NEW pressing \in BOOLEAN, NEW due \in SUBSET Watched(buffer),
             Poll(ripe, due, pressing, FALSE)
      PROVE  Typed'
  BY <1>5, PollTyped
<1>6. QED
  BY <1>1, <1>2, <1>3, <1>4, <1>5 DEF Next


-----------------------------------------------------------------------------
(* The order of what comes out, and the decoder.                            *)

\* How the frames that came out, the last of them l, stand to the active group, and how
\* the group cur of the decoder does.
Ordered(b, l) ==
  /\ \A h \in Groups : b.next[h] # -1 => h <= b.active
  /\ l # Nothing => /\ l[1] <= b.active
                    /\ l[1] = b.active /\ Plays(b) => b.next[b.active] = l[2] + 1

Follows(b, cur) == Plays(b) /\ b.next[b.active] # -1 => cur = b.active

\* The inductive invariant beside Typed.
Sound ==
  "late" \notin faults =>
    /\ Good(buffer, arrived) /\ Ordered(buffer, last)
    /\ faults = {} => ~ dropped /\ Follows(buffer, current)

LEMMA CarriedOrdered ==
  ASSUME NEW b \in Buffers, NEW c \in Buffers, Carried(b, c),
         NEW l, l # Nothing => l[1] \in Groups, Ordered(b, l), NEW cur
  PROVE  Ordered(c, l) /\ (Follows(b, cur) => Follows(c, cur))
<1>1. b.active \in Int /\ c.active \in Int /\ b.active <= c.active /\ Groups \subseteq Nat
      /\ (c.active # -1 => c.active \in Groups)
  BY BufferFields DEF Carried
<1>2. ASSUME NEW h \in Groups, c.next[h] # -1 PROVE b.next[h] # -1 /\ h <= b.active /\ h <= c.active
  <2>1. b.next[h] # -1
    BY <1>2 DEF Carried
  <2>2. h <= b.active /\ h \in Int
    BY <1>2, <2>1 DEF Ordered
  <2>3. QED
    BY <1>1, <2>1, <2>2
<1>3. ASSUME l # Nothing
      PROVE  /\ l[1] <= c.active
             /\ l[1] = c.active /\ Plays(c) => c.next[c.active] = l[2] + 1
  <2>1. l[1] <= b.active /\ l[1] \in Int
    <3>1. l[1] \in Groups
      BY <1>3
    <3>2. l[1] <= b.active
      BY <1>3 DEF Ordered
    <3>3. b.active \in Int /\ l[1] \in Nat
      BY <3>1, BufferFields, GroupNumbers, Zenon
    <3>4. QED
      BY <3>2, <3>3
  <2>2. l[1] <= c.active /\ (l[1] = c.active => c.active = b.active)
    BY <1>1, <2>1
  <2>3. ASSUME l[1] = c.active, Plays(c) PROVE c.next[c.active] = l[2] + 1
    <3>1. c.active = b.active /\ Plays(b) /\ c.next[b.active] = b.next[b.active]
      BY <2>2, <2>3 DEF Carried
    <3>2. b.next[b.active] = l[2] + 1
      BY <1>3, <2>3, <3>1 DEF Ordered
    <3>3. QED
      BY <3>1, <3>2
  <2>4. QED
    BY <2>2, <2>3
<1>4. ASSUME Follows(b, cur), Plays(c), c.next[c.active] # -1 PROVE cur = c.active
  <2>1. c.active \in Groups
    BY <1>1, <1>4 DEF Plays
  <2>2. c.active <= b.active
    BY <1>2, <1>4, <2>1
  <2>3. c.active = b.active
    BY <1>1, <2>2
  <2>4. Plays(b) /\ b.next[b.active] # -1
    BY <1>4, <2>3 DEF Carried
  <2>5. QED
    BY <1>4, <2>3, <2>4 DEF Follows
<1>5. QED
  BY <1>2, <1>3, <1>4 DEF Ordered, Follows

\* What has arrived only grows.
LEMMA GoodGrows ==
  ASSUME NEW b, NEW arr, NEW now, arr \subseteq now, Good(b, arr)
  PROVE  Good(b, now)
<1>1. Headed(b, now)
  BY DEF Good, Headed
<1>2. ASSUME NEW g \in Groups PROVE Stock(b, now, g)
  BY DEF Good, Stocked, Stock
<1>3. QED
  BY <1>1, <1>2 DEF Good, Stocked

LEMMA LastGroup == Typed /\ last # Nothing => last[1] \in Groups /\ last[2] \in Nat
BY FrameParts DEF Typed

LEMMA AddFrameSound ==
  ASSUME Typed, Sound, NEW g \in Groups, NEW o \in Objects, NEW ripe \in BOOLEAN,
         AddFrame(g, o, ripe)
  PROVE  Sound'
<1>1. /\ arrived' = arrived \cup {<<g, o>>} /\ <<g, o>> \notin arrived
      /\ last' = last /\ dropped' = dropped /\ current' = current /\ skipToLatest' = skipToLatest
      /\ faults \subseteq faults'
  BY DEF AddFrame
<1>2. SUFFICES ASSUME "late" \notin faults'
               PROVE  /\ Good(buffer, arrived)' /\ Ordered(buffer, last)'
                      /\ faults' = {} => ~ dropped' /\ Follows(buffer, current)'
  BY DEF Sound
<1>3. /\ Good(buffer, arrived) /\ Ordered(buffer, last) /\ buffer \in Buffers
      /\ faults' = {} => ~ dropped /\ Follows(buffer, current)
      /\ last # Nothing => last[1] \in Groups
  BY <1>1, <1>2, LastGroup DEF Sound, Typed
<1>4. CASE buffer' = buffer
  <2>1. Good(buffer, arrived')
    BY <1>1, <1>3, GoodGrows
  <2>2. QED
    BY <1>1, <1>3, <1>4, <2>1
       DEF Good, Lone, Aimed, Latest, Later, Waiting, Done, Headed, Stocked, Stock,
           Ordered, Follows, Plays
<1>5. CASE buffer' # buffer
  <2>1. PICK b \in {Chosen(Received(buffer, g, o), g)} : \E n \in {Noted(b, g)} :
           /\ ripe => CanSkip(n)
           /\ buffer' = IF ripe THEN ExecuteSkip(n) ELSE n
           /\ faults' = faults \cup
                (IF buffer.active # -1 /\ g < buffer.active THEN {"late"} ELSE {})
           /\ g \notin Done(buffer)
    BY <1>5 DEF AddFrame
  <2>2. PICK n \in {Noted(b, g)} :
           /\ ripe => CanSkip(n)
           /\ buffer' = IF ripe THEN ExecuteSkip(n) ELSE n
           /\ faults' = faults \cup
                (IF buffer.active # -1 /\ g < buffer.active THEN {"late"} ELSE {})
           /\ g \notin Done(buffer)
    BY <2>1
  <2>3. ~ (buffer.active # -1 /\ g < buffer.active)
    BY <1>2, <2>2
  <2>4. Good(n, arrived') /\ Carried(buffer, n)
    BY <1>1, <1>3, <2>2, <2>3, AddedGood
  <2>5. n \in Buffers
    <3>1. Received(buffer, g, o) \in Buffers
      BY <1>3, ReceivedFields
    <3>2. b \in Buffers
      BY <3>1, ChosenFields DEF Stage
    <3>3. QED
      BY <3>2, NotedFields DEF Stage
  <2>6. Ordered(n, last) /\ (Follows(buffer, current) => Follows(n, current))
    BY <1>3, <2>4, <2>5, CarriedOrdered
  <2>7. CASE ripe
    <3>1. CanSkip(n) /\ buffer' = ExecuteSkip(n)
      BY <2>2, <2>7
    <3>2. Stage(n, buffer') /\ Good(buffer', arrived') /\ Onward(n, buffer')
      BY <2>4, <2>5, <3>1, ExecuteSkipGood
    <3>3. Carried(n, buffer') /\ buffer' \in Buffers
      BY <2>5, <3>2, OnwardCarried DEF Stage
    <3>4. Ordered(buffer', last) /\ (Follows(n, current) => Follows(buffer', current))
      BY <1>3, <2>5, <2>6, <3>3, CarriedOrdered
    <3>5. QED
      BY <1>1, <1>3, <2>6, <3>2, <3>4
         DEF Good, Lone, Aimed, Latest, Later, Waiting, Done, Headed, Stocked, Stock,
             Ordered, Follows, Plays
  <2>8. CASE ~ ripe
    BY <1>1, <1>3, <2>2, <2>4, <2>6, <2>8
       DEF Good, Lone, Aimed, Latest, Later, Waiting, Done, Headed, Stocked, Stock,
           Ordered, Follows, Plays
  <2>9. QED
    BY <2>7, <2>8
<1>6. QED
  BY <1>4, <1>5


LEMMA MarkSound ==
  ASSUME Typed, Sound, NEW g \in Groups, MarkGroupComplete(g)
  PROVE  Sound'
<1>1. /\ arrived' = arrived /\ last' = last /\ dropped' = dropped /\ current' = current
      /\ skipToLatest' = skipToLatest /\ faults' = faults
  BY DEF MarkGroupComplete, history
<1>2. SUFFICES ASSUME "late" \notin faults
               PROVE  /\ Good(buffer, arrived)' /\ Ordered(buffer, last)'
                      /\ Follows(buffer, current) => Follows(buffer, current)'
  BY <1>1 DEF Sound
<1>3. /\ Good(buffer, arrived) /\ Ordered(buffer, last) /\ buffer \in Buffers
      /\ last # Nothing => last[1] \in Groups
  BY <1>2, LastGroup DEF Sound, Typed
<1> DEFINE b == [buffer EXCEPT !.ended = @ \cup {g}]
<1>4. /\ b \in Buffers /\ b.active = buffer.active /\ b.status = buffer.status
      /\ b.frames = buffer.frames /\ b.keyed = buffer.keyed /\ b.next = buffer.next
      /\ b.pending = buffer.pending
  BY <1>3 DEF Buffers
<1>5. \/ buffer' = b
      \/ /\ g = b.active /\ b.frames[g] = {}
         /\ buffer' = Promote(CompleteGroup(b, g, "complete"))
  BY DEF MarkGroupComplete
<1> HIDE DEF b
<1>6. Good(b, arrived) /\ Ordered(b, last) /\ (Follows(buffer, current) => Follows(b, current))
  BY <1>3, <1>4
     DEF Good, Lone, Aimed, Latest, Later, Waiting, Done, Headed, Stocked, Stock,
         Ordered, Follows, Plays
<1>7. /\ Good(buffer', arrived) /\ Ordered(buffer', last)
      /\ Follows(b, current) => Follows(buffer', current)
  <2>1. CASE buffer' = b
    BY <1>6, <2>1
  <2>2. CASE /\ g = b.active /\ b.frames[g] = {}
             /\ buffer' = Promote(CompleteGroup(b, g, "complete"))
    <3>1. 0 \notin b.frames[b.active] /\ <<b.active, 0>> \in arrived /\ b.active \in Groups
      BY <1>4, <1>6, <2>2, EmptyHasCome
    <3>2. Stage(b, buffer') /\ Good(buffer', arrived) /\ Onward(b, buffer')
      BY <1>4, <1>6, <2>2, <3>1, LeaveGood
    <3>3. Carried(b, buffer') /\ buffer' \in Buffers
      BY <1>4, <3>2, OnwardCarried DEF Stage
    <3>4. QED
      BY <1>3, <1>4, <1>6, <3>2, <3>3, CarriedOrdered
  <2>3. QED
    BY <1>5, <2>1, <2>2
<1>8. QED
  BY <1>1, <1>6, <1>7
     DEF Good, Lone, Aimed, Latest, Later, Waiting, Done, Headed, Stocked, Stock,
         Ordered, Follows, Plays

\* The group that is chosen is as good as the buffer was.
LEMMA ChosenSound ==
  ASSUME Typed, Sound, "late" \notin faults, NEW ticked, NEW chosen \in Buffers,
         Kept(buffer, ticked, arrived), Kept(ticked, chosen, arrived)
  PROVE  /\ Good(chosen, arrived) /\ Ordered(chosen, last)
         /\ Follows(buffer, current) => Follows(chosen, current)
<1>1. /\ Good(buffer, arrived) /\ Ordered(buffer, last) /\ buffer \in Buffers
      /\ last # Nothing => last[1] \in Groups
  BY LastGroup DEF Sound, Typed
<1>2. Kept(buffer, chosen, arrived)
  BY <1>1, KeptTrans
<1>3. Good(chosen, arrived) /\ Carried(buffer, chosen)
  BY <1>1, <1>2, OnwardCarried DEF Kept
<1>4. QED
  BY <1>1, <1>3, CarriedOrdered

\* Frames come out of the group that is chosen.
LEMMA ReleasedOrdered ==
  ASSUME NEW c \in Buffers, c.active \in Groups, Plays(c), NEW l, Ordered(c, l),
         NEW ready \in SUBSET Objects, NEW upto \in Nat
  PROVE  /\ Ordered(Released(c, ready, upto), <<c.active, upto>>)
         /\ Follows(Released(c, ready, upto), c.active)
<1> DEFINE r == Released(c, ready, upto)
<1>1. /\ r.active = c.active /\ r.next = [c.next EXCEPT ![c.active] = upto + 1]
  <2>1. /\ r \in Buffers /\ r.active = c.active
        /\ r.frames = [c.frames EXCEPT ![c.active] = c.frames[c.active] \ ready]
        /\ r.next = [c.next EXCEPT ![c.active] = upto + 1]
    BY ReleasedFields
  <2>2. QED
    BY <2>1
<1> HIDE DEF r
<1>2. r.next[c.active] = upto + 1 /\ c.active <= c.active
  BY <1>1, BufferFields
<1>3. ASSUME NEW h \in Groups, r.next[h] # -1 PROVE h <= c.active
  <2>1. h # c.active => r.next[h] = c.next[h]
    BY <1>1, BufferFields
  <2>2. QED
    BY <1>2, <1>3, <2>1 DEF Ordered
<1>4. QED
  BY <1>1, <1>2, <1>3 DEF Ordered, Follows, r

LEMMA PollSound ==
  ASSUME Typed, Sound, NEW ripe \in BOOLEAN, NEW due \in SUBSET Watched(buffer), NEW pressing,
         NEW all, Poll(ripe, due, pressing, all)
  PROVE  Sound'
<1>1. PICK ticked, chosen, can, upto, ready :
        chosen \in Buffers /\ PollOutcome(all, ticked, chosen, can, upto, ready)
  BY PollHasOutcome
<1>2. /\ upto \in can \cup {-1} /\ ready = {o \in can : o <= upto}
      /\ ~ Plays(chosen) => can = {}
      /\ Plays(chosen) =>
           /\ can \in SUBSET chosen.frames[chosen.active]
           /\ can # {} => chosen.next[chosen.active] # -1 \/ 0 \in can
      /\ skipToLatest' = skipToLatest /\ arrived' = arrived
  BY <1>1 DEF PollOutcome
<1>3. /\ buffer' = IF Plays(chosen) THEN Completed(Released(chosen, ready, upto)) ELSE chosen
      /\ current' = Decoded(ticked.active, ready)
      /\ last' = IF upto = -1 THEN last ELSE <<chosen.active, upto>>
      /\ dropped' = (dropped \/ (ready \ {0} # {} /\ current' # ticked.active))
      /\ faults' = faults \cup
           (IF upto # -1 /\ ticked.active # chosen.active THEN {"label"} ELSE {})
  BY <1>1 DEF PollOutcome, Effect
<1>4. SUFFICES ASSUME "late" \notin faults'
               PROVE  /\ Good(buffer', arrived) /\ Ordered(buffer', last')
                      /\ faults' = {} => ~ dropped' /\ Follows(buffer', current')
  BY <1>2 DEF Sound, Good, Lone, Aimed, Latest, Later, Waiting, Done, Headed, Stocked, Stock,
         Ordered, Follows, Plays
<1>5. /\ "late" \notin faults /\ Good(chosen, arrived) /\ Ordered(chosen, last)
      /\ faults' = {} => ~ dropped /\ Follows(chosen, current)
  <2>1. "late" \notin faults /\ (faults' = {} => faults = {})
    BY <1>3, <1>4
  <2>2. Kept(buffer, ticked, arrived) /\ Kept(ticked, chosen, arrived)
    BY <1>1 DEF PollOutcome
  <2>3. QED
    BY <1>1, <2>1, <2>2, ChosenSound DEF Sound
<1>6. /\ Held(chosen, arrived) /\ arrived \in SUBSET Frames
      /\ last # Nothing => last[1] \in Groups
  <2>1. buffer \in Buffers /\ Held(buffer, arrived)
    BY DEF Typed
  <2>2. Held(ticked, arrived) /\ Stage(ticked, chosen)
    BY <1>1, <2>1, StageHeld DEF PollOutcome, Kept
  <2>3. QED
    BY <2>1, <2>2, StageHeld, LastGroup DEF Typed
<1>7. Plays(chosen) => chosen.active \in Groups /\ can \in SUBSET Nat
  <2>1. Plays(chosen) => chosen.active \in Groups
    BY <1>1, BufferFields DEF Plays
  <2>2. QED
    BY <1>1, <1>2, <2>1, BufferFields, ObjectNumbers
<1>8. ASSUME Plays(chosen), NEW r \in Buffers, r.active = chosen.active, NEW l,
             l # Nothing => l[1] \in Groups, Good(r, arrived), Ordered(r, l),
             buffer' = Completed(r)
      PROVE  /\ Good(buffer', arrived) /\ Ordered(buffer', l)
             /\ \A cur : Follows(r, cur) => Follows(buffer', cur)
  <2>1. r.active \in Groups
    BY <1>7, <1>8
  <2>2. Stage(r, buffer') /\ Good(buffer', arrived) /\ Onward(r, buffer')
    BY <1>8, <2>1, CompletedGood
  <2>3. Carried(r, buffer') /\ buffer' \in Buffers
    BY <1>8, <2>2, OnwardCarried DEF Stage
  <2>4. QED
    BY <1>8, <2>2, <2>3, CarriedOrdered
<1>9. CASE upto = -1
  <2>1. ready = {} /\ last' = last /\ current' = current /\ (dropped' = dropped)
    <3>1. \A o \in can : ~ o <= -1
      BY <1>2, <1>7
    <3>2. ready = {}
      BY <1>2, <1>9, <3>1
    <3>3. dropped' = dropped
      BY <1>3, <3>2 DEF Typed
    <3>4. QED
      BY <1>3, <1>9, <3>2, <3>3 DEF Decoded
  <2>2. CASE ~ Plays(chosen)
    BY <1>3, <1>5, <2>1, <2>2
  <2>3. CASE Plays(chosen)
    <3>1. buffer' = Completed(chosen)
      BY <1>3, <1>9, <2>3 DEF Released
    <3>2. /\ Good(buffer', arrived) /\ Ordered(buffer', last)
          /\ Follows(chosen, current) => Follows(buffer', current)
      BY <1>1, <1>5, <1>6, <1>8, <2>3, <3>1
    <3>3. QED
      BY <1>5, <2>1, <3>2
  <2>4. QED
    BY <2>2, <2>3
<1>10. CASE upto # -1
  <2> DEFINE r == Released(chosen, ready, upto)
  <2>1. /\ upto \in can /\ Plays(chosen) /\ chosen.active \in Groups /\ upto \in Nat
        /\ upto \in ready /\ buffer' = Completed(r) /\ last' = <<chosen.active, upto>>
    BY <1>2, <1>3, <1>7, <1>10
  <2>2. 0 \in ready \/ chosen.next[chosen.active] # -1
    <3>1. 0 \in can => 0 \in ready
      BY <1>2, <2>1
    <3>2. QED
      BY <1>2, <2>1, <3>1
  <2>3. ready \in SUBSET chosen.frames[chosen.active] /\ ready \in SUBSET Objects
    BY <1>1, <1>2, <2>1, BufferFields
  <2>4. r \in Buffers /\ r.active = chosen.active /\ Good(r, arrived)
    <3>1. /\ r \in Buffers /\ r.active = chosen.active
          /\ r.frames = [chosen.frames EXCEPT
                            ![chosen.active] = chosen.frames[chosen.active] \ ready]
          /\ r.next = [chosen.next EXCEPT ![chosen.active] = upto + 1]
      BY <1>1, <2>1, <2>3, ReleasedFields
    <3>2. Good(r, arrived)
      BY <1>1, <1>5, <1>6, <2>1, <2>2, <2>3, ReleasedGood
    <3>3. QED
      BY <3>1, <3>2
  <2>5. Ordered(r, last') /\ Follows(r, chosen.active)
    BY <1>1, <1>5, <2>1, <2>3, ReleasedOrdered
  <2>6. last' # Nothing => last'[1] \in Groups
    BY <2>1
  <2> HIDE DEF r
  <2>7. /\ Good(buffer', arrived) /\ Ordered(buffer', last')
        /\ Follows(buffer', chosen.active)
    BY <1>8, <2>1, <2>4, <2>5, <2>6
  <2>8. ASSUME faults' = {} PROVE ~ dropped' /\ current' = chosen.active
    <3>1. ticked.active = chosen.active /\ ~ dropped /\ Follows(chosen, current)
      BY <1>3, <1>5, <1>10, <2>8
    <3>2. current' = chosen.active
      <4>1. CASE 0 \in ready
        BY <1>3, <3>1, <4>1 DEF Decoded
      <4>2. CASE 0 \notin ready
        BY <1>3, <2>1, <2>2, <3>1, <4>2 DEF Decoded, Follows
      <4>3. QED
        BY <4>1, <4>2
    <3>3. QED
      BY <1>3, <3>1, <3>2
  <2>9. QED
    BY <2>7, <2>8
<1>11. QED
  BY <1>9, <1>10


\* A buffer in which nothing is.
LEMMA EmptyGood ==
  Good(Empty, {}) /\ Ordered(Empty, Nothing) /\ \A cur : Follows(Empty, cur)
<1>1. /\ Empty.active = -1 /\ Empty.pending = -1 /\ Empty.keyed = {}
      /\ \A g \in Groups : /\ Empty.status[g] = "none" /\ Empty.frames[g] = {}
                           /\ Empty.next[g] = -1
  BY DEF Empty
<1>2. -1 \notin Groups
  BY GroupNumbers
<1>3. Later(Empty, -1) = {} /\ Waiting(Empty) = {} /\ Done(Empty) = {}
  BY <1>1 DEF Later, Waiting, Done
<1>4. \A g \in Groups : Stock(Empty, {}, g)
  BY <1>1 DEF Stock
<1>5. QED
  BY <1>1, <1>2, <1>3, <1>4 DEF Good, Lone, Aimed, Latest, Headed, Stocked, Ordered, Follows, Plays

LEMMA InitSound == Init => Sound
BY EmptyGood DEF Init, Sound

LEMMA ResetSound ==
  ASSUME Reset
  PROVE  Sound'
<1>1. /\ buffer' = Empty /\ arrived' = {} /\ last' = Nothing /\ ~ dropped'
      /\ skipToLatest' = skipToLatest
  BY DEF Reset
<1>2. Good(Empty, {}) /\ Ordered(Empty, Nothing) /\ Follows(Empty, current')
  BY EmptyGood
<1>3. QED
  BY <1>1, <1>2
     DEF Sound, Good, Lone, Aimed, Latest, Later, Waiting, Done, Headed, Stocked, Stock,
         Ordered, Follows, Plays

LEMMA StepSound ==
  ASSUME Typed, Sound, [Next]_vars
  PROVE  Sound'
<1>1. CASE UNCHANGED vars
  BY <1>1 DEF vars, history, Sound, Good, Lone, Aimed, Latest, Later, Waiting, Done, Headed,
              Stocked, Stock, Ordered, Follows, Plays
<1>2. CASE Reset
  BY <1>2, ResetSound
<1>3. ASSUME NEW g \in Groups, NEW o \in Objects, NEW ripe \in BOOLEAN, AddFrame(g, o, ripe)
      PROVE  Sound'
  BY <1>3, AddFrameSound
<1>4. ASSUME NEW g \in Groups, MarkGroupComplete(g) PROVE Sound'
  BY <1>4, MarkSound
<1>5. ASSUME NEW ripe \in BOOLEAN, NEW pressing \in BOOLEAN, NEW due \in SUBSET Watched(buffer),
             Poll(ripe, due, pressing, FALSE)
      PROVE  Sound'
  BY <1>5, PollSound
<1>6. QED
  BY <1>1, <1>2, <1>3, <1>4, <1>5 DEF Next

\* What InOrder says of a step.
InOrderStep ==
  last' \notin {last, Nothing} =>
    /\ buffer.next[last'[1]] = -1 => 0 \in buffer.frames[last'[1]]
    /\ Before(last, last') \/ "late" \in faults

LEMMA PollInOrder ==
  ASSUME Typed, Sound, NEW ripe \in BOOLEAN, NEW due \in SUBSET Watched(buffer), NEW pressing,
         NEW all, Poll(ripe, due, pressing, all)
  PROVE  InOrderStep
<1>1. PICK ticked, chosen, can, upto, ready :
        chosen \in Buffers /\ PollOutcome(all, ticked, chosen, can, upto, ready)
  BY PollHasOutcome
<1>2. SUFFICES ASSUME last' # last, last' # Nothing
               PROVE  /\ buffer.next[last'[1]] = -1 => 0 \in buffer.frames[last'[1]]
                      /\ Before(last, last') \/ "late" \in faults
  BY DEF InOrderStep
<1>3. /\ last' = <<chosen.active, upto>> /\ upto \in can /\ Plays(chosen)
      /\ can \in SUBSET chosen.frames[chosen.active]
      /\ chosen.next[chosen.active] # -1 \/ 0 \in can
      /\ chosen.next[chosen.active] <= upto
  BY <1>1, <1>2 DEF PollOutcome, Effect
<1>4. /\ Kept(buffer, ticked, arrived) /\ Kept(ticked, chosen, arrived)
      /\ chosen.frames = buffer.frames /\ chosen.next = buffer.next
  BY <1>1 DEF PollOutcome, Kept, Stage
<1>5. chosen.active \in Groups /\ chosen.active \in Nat /\ upto \in Nat
  BY <1>1, <1>3, BufferFields, GroupNumbers, ObjectNumbers DEF Plays
<1>6. buffer.next[last'[1]] = -1 => 0 \in buffer.frames[last'[1]]
  BY <1>3, <1>4
<1>7. ASSUME "late" \notin faults PROVE Before(last, last')
  <2>1. Ordered(chosen, last)
    BY <1>1, <1>4, <1>7, ChosenSound
  <2>2. CASE last = Nothing
    BY <1>3, <1>5, <2>2 DEF Nothing, Before
  <2>3. CASE last # Nothing
    <3>1. last[1] \in Groups /\ last[1] \in Nat /\ last[2] \in Nat
      BY <2>3, LastGroup, GroupNumbers
    <3>2. last[1] <= chosen.active
      BY <2>1, <2>3 DEF Ordered
    <3>3. last[1] = chosen.active => last[2] < upto
      BY <1>3, <1>5, <2>1, <2>3, <3>1 DEF Ordered
    <3>4. QED
      BY <1>3, <1>5, <3>1, <3>2, <3>3 DEF Before
  <2>4. QED
    BY <2>2, <2>3
<1>8. QED
  BY <1>6, <1>7

LEMMA StepInOrder ==
  ASSUME Typed, Sound, [Next]_vars
  PROVE  InOrderStep
<1>1. CASE UNCHANGED vars
  BY <1>1 DEF vars, history, InOrderStep
<1>2. CASE Reset
  BY <1>2 DEF Reset, InOrderStep
<1>3. ASSUME NEW g \in Groups, NEW o \in Objects, NEW ripe \in BOOLEAN, AddFrame(g, o, ripe)
      PROVE  InOrderStep
  BY <1>3 DEF AddFrame, InOrderStep
<1>4. ASSUME NEW g \in Groups, MarkGroupComplete(g) PROVE InOrderStep
  BY <1>4 DEF MarkGroupComplete, history, InOrderStep
<1>5. ASSUME NEW ripe \in BOOLEAN, NEW pressing \in BOOLEAN, NEW due \in SUBSET Watched(buffer),
             Poll(ripe, due, pressing, FALSE)
      PROVE  InOrderStep
  BY <1>5, PollInOrder
<1>6. QED
  BY <1>1, <1>2, <1>3, <1>4, <1>5 DEF Next

-----------------------------------------------------------------------------
(* The theorems.                                                            *)

LEMMA Invariant == Spec => [](Typed /\ Sound)
<1>1. Init => Typed /\ Sound
  BY InitTyped, InitSound
<1>2. Typed /\ Sound /\ [Next]_vars => (Typed /\ Sound)'
  BY StepTyped, StepSound
<1>3. QED
  BY <1>1, <1>2, PTL DEF Spec

\* Every frame of the buffer has arrived, no group is past its end, and only the group that
\* policy and buffer take for the active one is marked active, unless a group was late:
\* activateGroup() and executeSkipToLatest() of live-release-policy.ts.
THEOREM TypeCorrect == Spec => []TypeOK
<1>1. Typed /\ Sound => TypeOK
  BY TypedIsTypeOK DEF Sound, Good
<1>2. QED
  BY <1>1, Invariant, PTL

\* Whatever arrives when, expires or is skipped, the frames come out of the buffer in the
\* order of groups and objects, each group from its keyframe on, unless a group was late:
\* getReadyFrames() of playout-buffer.ts.
THEOREM OrderKept == Spec => InOrder
<1>1. Typed /\ Sound /\ [Next]_vars => InOrderStep
  BY StepInOrder
<1>2. InOrderStep =>
        (last' \notin {last, Nothing} =>
           /\ buffer.next[last'[1]] = None => 0 \in buffer.frames[last'[1]]
           /\ Before(last, last') \/ "late" \in faults)
  BY DEF InOrderStep
<1>3. QED
  BY <1>1, <1>2, Invariant, PTL DEF Spec, InOrder

\* The decoder drops no frame that comes out, as long as no group is late and no poll tells
\* it a group the frames are not of: processBuffers() of subscribe-pipeline.ts and decode()
\* of video-decoder.ts.
THEOREM DecoderKeepsUp == Spec => []DecoderFollows
<1>1. Sound => DecoderFollows
  BY DEF Sound, DecoderFollows
<1>2. QED
  BY <1>1, Invariant, PTL
=============================================================================
