------------------------------ MODULE Playout -------------------------------
(***************************************************************************)
(* The playout of a live video track: the PlayoutBuffer of                 *)
(* packages/media/src/pipeline/playout-buffer.ts with its                  *)
(* LiveReleasePolicy (live-release-policy.ts), polled by processBuffers of *)
(* subscribe-pipeline.ts, which hands what is ready to the H264Decoder     *)
(* (webcodecs/video-decoder.ts).  Frames arrive in any order, each once;   *)
(* object 0 of a group is its keyframe.                                    *)
(*                                                                         *)
(* Each poll finds the deadlines of any groups past, and any number of the *)
(* frames past the jitter delay and within the batch; a poll is short, so  *)
(* nothing passes while it runs.  The stages of a step are named by \E over *)
(* one value.                                                              *)
(* Limits of frames per group and what is rendered are left out, and the   *)
(* options are those of video: allowPartialGroupDecode, skipOnlyToKeyframe.*)
(***************************************************************************)
EXTENDS Integers, FiniteSets

CONSTANTS
  Groups,    \* the Group IDs that arrive
  LastOf,    \* the last Object ID of each
  MaxGroups, \* maxGroups of the buffer
  Grace      \* skipGraceFrames

None == -1

ASSUME PlayoutAssumption ==
  /\ Groups \subseteq Nat \ {0} /\ IsFiniteSet(Groups) /\ Groups # {}
  /\ LastOf \in [Groups -> Nat]
  /\ {MaxGroups, Grace} \subseteq Nat \ {0}

VARIABLES
  skipToLatest, \* the option skipToLatestGroup
  buffer,       \* the groups of the buffer and the state of its policy
  current,      \* currentGroupId of the decoder, None until it has a keyframe
  arrived,      \* history: the frames that have arrived
  last,         \* history: the last frame that came out
  dropped,      \* history: the decoder dropped one of them
  faults        \* history: a group came late, a label was wrong

history == <<arrived, last, dropped, faults>>
vars    == <<skipToLatest, buffer, current, history>>

Objects == UNION {0 .. LastOf[g] : g \in Groups}
Frames  == {f \in Groups \X Objects : f[2] <= LastOf[f[1]]}
Nothing == <<None, None>>
Before(f, h) == f[1] < h[1] \/ (f[1] = h[1] /\ f[2] < h[2])

\* A status of "none" is a group the buffer does not have.
Buffers ==
  [active  : Groups \cup {None},                            \* activeGroupId
   status  : [Groups -> {"none", "receiving", "active", "complete", "skipped"}],
   frames  : [Groups -> SUBSET Objects],                    \* frames held
   keyed   : SUBSET Groups,                                 \* hasKeyframe
   next    : [Groups -> {None} \cup Nat],                 \* outputObjectId
   ended   : SUBSET Groups,                                 \* endOfGroupReceived
   pending : Groups \cup {None},                            \* pendingSkipGroupId
   count   : 0 .. Grace]                                    \* pendingSkipFrameCount

TypeOK ==
  /\ skipToLatest \in BOOLEAN /\ dropped \in BOOLEAN
  /\ buffer \in Buffers
  /\ current \in Groups \cup {None}
  /\ arrived \subseteq Frames /\ last \in arrived \cup {Nothing}
  /\ faults \subseteq {"late", "label"}
  /\ \A g \in Groups :
       /\ \A o \in buffer.frames[g] : <<g, o>> \in arrived
       /\ buffer.next[g] <= LastOf[g] + 1
       /\ buffer.status[g] = "active" => g = buffer.active \/ "late" \in faults

Empty ==
  [active |-> None, status |-> [g \in Groups |-> "none"], frames |-> [g \in Groups |-> {}],
   keyed |-> {}, next |-> [g \in Groups |-> None], ended |-> {}, pending |-> None, count |-> 0]

Init ==
  /\ skipToLatest \in BOOLEAN
  /\ buffer = Empty /\ current = None
  /\ arrived = {} /\ last = Nothing /\ dropped = FALSE /\ faults = {}

-----------------------------------------------------------------------------
(* The groups of a buffer.                                                  *)

Waiting(b) == {g \in Groups : b.status[g] \in {"receiving", "active"}}
Done(b)    == {g \in Groups : b.status[g] \in {"complete", "skipped"}}

\* The groups findNextKeyframeGroup chooses the first of.
Later(b, g) == {h \in Waiting(b) \cap b.keyed : h > g}

First(S) == CHOOSE g \in S : \A h \in S : g <= h

Activate(b, g) == [b EXCEPT !.active = g, !.status[g] = "active"]

\* promoteToNextGroup, and the same written out elsewhere
Promote(b) ==
  IF Later(b, b.active) = {} THEN b ELSE Activate(b, First(Later(b, b.active)))

\* completeGroup
CompleteGroup(b, g, as) == [b EXCEPT !.status[g] = as]

\* pruneOldGroups: of the groups that are done the oldest go until the rest fit.
Prune(b) ==
  LET over == Cardinality(Waiting(b)) + Cardinality(Done(b)) - MaxGroups
      gone == {g \in Done(b) : Cardinality({h \in Done(b) : h < g}) < over}
      keep(f, default) == [g \in Groups |-> IF g \in gone THEN default ELSE f[g]]
  IN [b EXCEPT !.status = keep(@, "none"), !.frames = keep(@, {}), !.next = keep(@, None),
               !.keyed = @ \ gone, !.ended = @ \ gone]

\* The pending skip can be executed when its group's keyframe is there, and is ripe
\* (past the jitter delay) in the actions below.
CanSkip(b) ==
  /\ skipToLatest /\ b.pending # None
  /\ b.pending \in b.keyed /\ 0 \in b.frames[b.pending]

\* Mutant of ExecuteSkip: the group that was active is not among those that are skipped.
ExecuteSkipPast(b) ==
  LET passed == {g \in Waiting(b) : b.active < g /\ g < b.pending} IN
  [b EXCEPT !.status = [g \in Groups |-> IF g = b.pending THEN "active"
                                         ELSE IF g \in passed THEN "skipped" ELSE @[g]],
            !.active = b.pending, !.pending = None, !.count = 0]

\* executeSkipToLatest
ExecuteSkip(b) ==
  LET passed == {g \in Waiting(b) : b.active <= g /\ g < b.pending} IN
  [b EXCEPT !.status = [g \in Groups |-> IF g = b.pending THEN "active"
                                         ELSE IF g \in passed THEN "skipped" ELSE @[g]],
            !.active = b.pending, !.pending = None, !.count = 0]

-----------------------------------------------------------------------------
(* Arrivals.                                                                *)

\* addFrame up to the policy: a group that is new makes room for itself, one that is
\* done takes no frames.
Received(b, g, o) ==
  LET c == IF b.status[g] = "none" THEN Prune([b EXCEPT !.status[g] = "receiving"]) ELSE b IN
  [c EXCEPT !.frames[g] = @ \cup {o}, !.keyed = IF o = 0 THEN @ \cup {g} ELSE @]

\* The first group is activated, and a group before the active one too.
Chosen(b, g) ==
  IF b.active = None \/ g < b.active
  THEN Activate([b EXCEPT !.status = [h \in Groups |->
                    IF h = b.active /\ @[h] = "active" THEN "receiving" ELSE @[h]]], g)
  ELSE b

\* The skip to the latest group counts the frames of the group it is to.
Noted(b, g) ==
  IF ~skipToLatest \/ g <= b.active \/ g \notin b.keyed THEN b
  ELSE IF g > b.pending THEN [b EXCEPT !.pending = g, !.count = 1]
  ELSE IF g = b.pending THEN [b EXCEPT !.count = IF @ < Grace THEN @ + 1 ELSE @]
  ELSE b

\* addFrame
AddFrame(g, o, ripe) ==
  /\ o <= LastOf[g] /\ <<g, o>> \notin arrived
  /\ arrived' = arrived \cup {<<g, o>>}
  /\ \/ /\ g \in Done(buffer) /\ ~ripe
        /\ UNCHANGED <<buffer, faults>>
     \/ /\ g \notin Done(buffer)
        /\ \E b \in {Chosen(Received(buffer, g, o), g)} : \E noted \in {Noted(b, g)} :
             /\ ripe => /\ noted.count >= Grace /\ g > b.active /\ g \in b.keyed
                        /\ CanSkip(noted)
             /\ buffer' = IF ripe THEN ExecuteSkip(noted) ELSE noted
             /\ faults' = faults \cup
                  (IF buffer.active # None /\ g < buffer.active THEN {"late"} ELSE {})
  /\ UNCHANGED <<skipToLatest, current, last, dropped>>

\* markGroupComplete: nothing is kept of a group that is not there.
MarkGroupComplete(g) ==
  LET b == [buffer EXCEPT !.ended = @ \cup {g}] IN
  /\ g \in (Waiting(buffer) \cup Done(buffer)) \ buffer.ended
  /\ buffer' = IF g = b.active /\ b.frames[g] = {} /\ b.next[g] # None
               THEN Promote(CompleteGroup(b, g, "complete"))
               ELSE b
  /\ UNCHANGED <<skipToLatest, current, history>>

-----------------------------------------------------------------------------
(* Polls.                                                                   *)

Started(b, g) == g \in b.keyed /\ b.next[g] # None

\* Mutant of HandleExpired: it waits for the frames that are held of any group.
HandleExpiredPatient(b) ==
  LET g == b.active IN
  IF g \in b.ended /\ b.frames[g] = {} THEN Promote(CompleteGroup(b, g, "complete"))
  ELSE IF Later(b, g) # {} /\ b.frames[g] = {}
  THEN Promote(CompleteGroup(b, g, "skipped"))
  ELSE b

\* handleExpiredDeadline for the active group: it is over, or skipped for a later one,
\* unless some of it is out and some still held; else its deadline is extended.
HandleExpired(b) ==
  LET g == b.active IN
  IF g \in b.ended /\ b.frames[g] = {} THEN Promote(CompleteGroup(b, g, "complete"))
  ELSE IF Later(b, g) # {} /\ ~(Started(b, g) /\ b.frames[g] # {})
  THEN Promote(CompleteGroup(b, g, "skipped"))
  ELSE b

\* Of the groups that are due, tick() and updateGroupStates() handle the active one.
Handled(b, due) == IF b.active \in due THEN HandleExpired(b) ELSE b

\* A deadline that was extended has not passed.
StillDue(b, due) == IF Handled(b, due) = b THEN due \ {b.active} ELSE due

\* updateGroupStates: the older groups that are due are over.
Updated(b, due) ==
  [Handled(b, due) EXCEPT !.status = [g \in Groups |->
     IF g \in Waiting(b) \cap due /\ g < b.active THEN "complete" ELSE @[g]]]

\* The active group is being played.
Plays(b) == b.active # None /\ b.status[b.active] = "active"

\* Mutant of Ready: a missing keyframe is passed over like any frame.
ReadyHeadless(b, patient) ==
  LET start == IF b.next[b.active] = None THEN 0 ELSE b.next[b.active]
      held == b.frames[b.active] IN
  {o \in held : start <= o /\ (start .. o \subseteq held \/ ~patient)}

\* What can come out of the active group: from where it is, in order, over gaps only
\* under pressure (shouldWaitForMissingFrame), and not without its keyframe.
Ready(b, patient) ==
  LET start == IF b.next[b.active] = None THEN 0 ELSE b.next[b.active]
      held == b.frames[b.active] IN
  {o \in held : /\ start <= o
                /\ start .. o \subseteq held \/ (~patient /\ start .. o \cap {0} \subseteq held)}

\* The frames up to one come out.
Released(b, ready, upto) ==
  IF upto = None THEN b
  ELSE [b EXCEPT !.frames[b.active] = @ \ ready, !.next[b.active] = upto + 1]

\* checkGroupCompletion: nothing is left of the group, and it ended or another waits.
Completed(b) ==
  LET g == b.active IN
  IF b.frames[g] = {} /\ b.next[g] # None /\ (g \in b.ended \/ Later(b, g) # {})
  THEN Promote(CompleteGroup(b, g, "complete"))
  ELSE b

\* Mutant of Decoded: of a group that comes to be the current one only the keyframe counts.
DecodedByKey(label, ready) == IF ready = {0} THEN label ELSE current

\* H264Decoder.decode: a keyframe makes its group the current one, of any other group no
\* frame is decoded.
Decoded(label, ready) == IF 0 \in ready THEN label ELSE current

\* The groups whose deadlines a poll looks at.
Watched(b) == Waiting(b) \cup (Done(b) \cap {b.active})

\* processBuffers: tick(), getReadyFrames() and the decoder, stage by stage.  due are the
\* groups whose deadline has passed; pressing says that the deadline a missing frame is
\* waited for is near, which is that of the group that was active before one was promoted;
\* all is whether all of the frames are past the jitter delay.  The decoder is told the
\* group that was active before getReadyFrames() chose one.
Poll(ripe, due, pressing, all) ==
  /\ ripe => CanSkip(buffer)
  /\ \E skipped \in {IF ripe THEN ExecuteSkip(buffer) ELSE buffer} :
     \E ticked \in {Handled(skipped, due)}, left \in {StillDue(skipped, due)} :
     \E updated \in {Updated(ticked, left)} :
     \E chosen \in {IF Plays(updated) THEN updated ELSE Promote(updated)} :
     \E can \in {IF Plays(chosen)
                THEN Ready(chosen, ~pressing /\ updated.active \notin StillDue(ticked, left))
                ELSE {}} :
     \E upto \in can \cup {None} : \E ready \in {{o \in can : o <= upto}} :
       /\ all => ready = can
       /\ buffer' = IF Plays(chosen) THEN Completed(Released(chosen, ready, upto)) ELSE chosen
       /\ current' = Decoded(ticked.active, ready)
       /\ last' = IF upto = None THEN last ELSE <<chosen.active, upto>>
       /\ dropped' = (dropped \/ (ready \ {0} # {} /\ current' # ticked.active))
       /\ faults' = faults \cup
            (IF upto # None /\ ticked.active # chosen.active THEN {"label"} ELSE {})
  /\ UNCHANGED <<skipToLatest, arrived>>

\* reset() of the pipeline: the buffer, its policy and the decoder begin anew, and what
\* came before can come again.
Reset ==
  /\ buffer # Empty
  /\ buffer' = Empty /\ current' = None
  /\ arrived' = {} /\ last' = Nothing /\ dropped' = FALSE /\ faults' = {}
  /\ UNCHANGED skipToLatest

-----------------------------------------------------------------------------
Next ==
  \/ Reset
  \/ \E g \in Groups, o \in Objects, ripe \in BOOLEAN : AddFrame(g, o, ripe)
  \/ \E g \in Groups : MarkGroupComplete(g)
  \/ \E ripe, pressing \in BOOLEAN, due \in SUBSET Watched(buffer) :
       Poll(ripe, due, pressing, FALSE)

Spec == Init /\ [][Next]_vars

\* A poll late enough for all that is held and all deadlines, and one just before a deadline.
LatePoll   == \E ripe \in BOOLEAN : /\ ripe = CanSkip(buffer)
                                    /\ Poll(ripe, Watched(buffer), FALSE, TRUE)
TimelyPoll == Poll(FALSE, {}, TRUE, TRUE)

\* The timer polls for ever, and the jitter delay and the deadlines pass.
FairSpec == Spec /\ WF_vars(LatePoll)

\* Moreover a poll falls just before a deadline again and again.
PunctualSpec == FairSpec /\ SF_vars(TimelyPoll)

-----------------------------------------------------------------------------
(* Properties.                                                              *)

\* Frames come out in the order of groups and objects and each group from its keyframe on,
\* however they arrive and whatever is skipped, expires or is pruned; only a group that
\* comes when a later one is played breaks the order, by itself or because a group that
\* was left can then be skipped to.
InOrder ==
  [][last' \notin {last, Nothing} =>
       /\ buffer.next[last'[1]] = None => 0 \in buffer.frames[last'[1]]
       /\ Before(last, last') \/ "late" \in faults]_vars

\* The decoder follows the playout: no frame that comes out is dropped for want of the
\* keyframe of its group, unless frames had a wrong label, or the order was broken.
DecoderFollows == dropped => faults # {}

\* The next frame of the active group is missing, and there are others.
HeldUp(b, g) == Started(b, g) /\ b.frames[g] # {} /\ b.next[g] \notin b.frames[g]

\* When a later group can be played, the active one is left in the end, unless one of its
\* frames is missing: neither deadlines that are extended, nor a lost END_OF_GROUP, nor a
\* group without a keyframe holds playback up.
Progress ==
  \A g \in Groups :
    (buffer.active = g /\ Later(buffer, g) # {}) ~> (buffer.active # g \/ HeldUp(buffer, g))

\* "Better than infinite freeze!" (packages/media/docs/group-arbiter.md:432): the active
\* group is left in the end when a later one can be played.  The code waits for ever with a
\* frame that came after its gap was passed over.
NoFreeze ==
  \A g \in Groups : (buffer.active = g /\ Later(buffer, g) # {}) ~> buffer.active # g

\* "All returned frames are from this group" (packages/media/src/workers/
\* codec-decode-worker.ts:853): the group that is active before getReadyFrames() is the one
\* the frames are of.  A poll that promotes a group gives its frames the group before.
LabelsRight == "label" \notin faults

\* "Number of frames to wait before skipping to latest group" (live-release-policy.ts:60):
\* tick() executes a pending skip whatever the count.
GraceKept ==
  [][buffer.pending # None /\ buffer'.pending = None =>
       buffer.count >= Grace \/ buffer' = Empty]_vars

\* A group that was skipped or is over is never played again.
NoneRevived ==
  [][\A g \in Done(buffer) : buffer'.status[g] # "active"]_vars
=============================================================================
