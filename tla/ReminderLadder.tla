---------------------------- MODULE ReminderLadder ----------------------------
(***************************************************************************)
(* The reminder ladder of one review: the tick that sends what is due      *)
(* (server/src/reminders/tick.ts), the recovery of claims whose sender     *)
(* died (stalled.ts), the re-plan everything shares (schedule.ts), and the *)
(* other things that re-plan: a verdict or a reopening                     *)
(* (ReviewService.updateStatus), a park a poll found (park.ts), a snooze   *)
(* (snooze.ts). The store is a durable one: claim and abandonClaim are one *)
(* conditional statement each, cancelScheduledForReview a read and a       *)
(* write.                                                                  *)
(*                                                                         *)
(* The policy is the number of nudges an open review asks for in all; its  *)
(* rungs and their cadence are data this module does not need. A scheduled *)
(* row falls due at any time, and a claim outlives its lease at any time   *)
(* its sender is gone, or, without PromptSends, while it is still at work. *)
(***************************************************************************)
EXTENDS Integers, FiniteSets

CONSTANTS
  Reminders,    \* the ids reminder rows are given
  Clocks,       \* the deployment's clocks: two replicas have two
  Handlers,     \* the requests, gestures and polls that re-plan
  Gestures,     \* what those do: a subset of GestureKinds
  Nudges,       \* how many nudges the policy asks for
  MaxGestures,  \* bound: how many of them happen
  MaxCrashes,   \* bound: how many passes die
  PromptSends,  \* whether a live delivery always ends within CLAIM_LEASE_MS
  CrashMidPlan  \* whether a pass may also die while it re-plans

GestureKinds == {"resolve", "reopen", "park", "snooze"}

ASSUME RemindersFinite == IsFiniteSet(Reminders)
ASSUME BoundsAreNat == Nudges \in Nat /\ MaxGestures \in Nat /\ MaxCrashes \in Nat
ASSUME ActorsDiffer == Clocks \cap Handlers = {}
ASSUME GesturesAreKinds == Gestures \subseteq GestureKinds

VARIABLES
  open,      \* whether the review has no verdict yet
  status,    \* each reminder's status; "given_up" is `failed' by abandonClaim
  due,       \* the reminders whose dueAt has passed
  stale,     \* the claims older than the lease
  posts,     \* how often each reminder was posted
  pc,        \* where each actor is
  todo,      \* the rows of a pass's batch it has not come to yet
  row,       \* the reminder an actor is delivering
  dropping,  \* the scheduled rows a cancel has read
  home,      \* where an actor goes on after a re-plan
  asks,      \* what the actor read: the review open, then a nudge wanted
  gestures,  \* how many gestures happened
  crashes    \* how many passes died

store == <<open, status, due, stale, posts>>
actors == <<pc, todo, row, dropping, home, asks>>
bounds == <<gestures, crashes>>
vars == <<store, actors, bounds>>

Actors == Clocks \cup Handlers
NoReminder == "no reminder"

InStatus(st) == {i \in Reminders : status[i] = st}

Delivering == {"claimed", "read", "posted", "refused"}
Planning == {"replanning", "planning", "cancelling", "writing", "creating"}

-----------------------------------------------------------------------------
Init ==
  /\ open = TRUE
  \* ReviewService.open planned the first one.
  /\ \E first \in Reminders :
       status = [i \in Reminders |-> IF i = first THEN "scheduled" ELSE "none"]
  /\ due = {} /\ stale = {}
  /\ posts = [i \in Reminders |-> 0]
  /\ pc = [a \in Actors |-> "idle"]
  /\ todo = [a \in Actors |-> {}]
  /\ row = [a \in Actors |-> NoReminder]
  /\ dropping = [a \in Actors |-> {}]
  /\ home = [a \in Actors |-> "idle"]
  /\ asks = [a \in Actors |-> FALSE]
  /\ gestures = 0 /\ crashes = 0

Goto(a, from, to) == pc[a] = from /\ pc' = [pc EXCEPT ![a] = to]
SetStatus(i, st) == status' = [status EXCEPT ![i] = st]

-----------------------------------------------------------------------------
(* A pass of a clock: recover first, then send what is due. *)

\* recoverStalledClaims lists the claims past their lease.
StartPass(c) ==
  /\ Goto(c, "idle", "recovering")
  /\ todo' = [todo EXCEPT ![c] = InStatus("sending") \cap stale]
  /\ UNCHANGED <<store, row, dropping, home, asks, bounds>>

\* MUTANT: the give-up is not conditional on the row still being `sending'.
GiveUpAnyway(c) ==
  \E i \in todo[c] :
    /\ Goto(c, "recovering", "replanning")
    /\ todo' = [todo EXCEPT ![c] = @ \ {i}]
    /\ home' = [home EXCEPT ![c] = "recovering"]
    /\ SetStatus(i, "given_up")
    /\ UNCHANGED <<open, due, stale, posts, row, dropping, asks, bounds>>

\* MUTANT: given up on, and the ladder left where it was.
GiveUpOnly(c) ==
  \E i \in todo[c] :
    /\ pc[c] = "recovering"
    /\ todo' = [todo EXCEPT ![c] = @ \ {i}]
    /\ SetStatus(i, IF status[i] = "sending" THEN "given_up" ELSE status[i])
    /\ UNCHANGED <<open, due, stale, posts, row, dropping, home, asks, bounds, pc>>

\* giveUp: the claim is abandoned if nobody else got there first, and then
\* the ladder re-planned.
GiveUp(c) ==
  \E i \in todo[c] :
    /\ pc[c] = "recovering"
    /\ todo' = [todo EXCEPT ![c] = @ \ {i}]
    /\ IF status[i] = "sending"
         THEN /\ SetStatus(i, "given_up")
              /\ Goto(c, "recovering", "replanning")
              /\ home' = [home EXCEPT ![c] = "recovering"]
         ELSE UNCHANGED <<status, pc, home>>
    /\ UNCHANGED <<open, due, stale, posts, row, dropping, asks, bounds>>

ListDue(c) ==
  /\ todo[c] = {}
  /\ Goto(c, "recovering", "delivering")
  /\ todo' = [todo EXCEPT ![c] = InStatus("scheduled") \cap due]
  /\ UNCHANGED <<store, row, dropping, home, asks, bounds>>

\* MUTANT: the claim is taken from the batch that was read, unchecked.
ClaimUnchecked(c) ==
  \E i \in todo[c] :
    /\ Goto(c, "delivering", "claimed")
    /\ todo' = [todo EXCEPT ![c] = @ \ {i}]
    /\ SetStatus(i, "sending")
    /\ row' = [row EXCEPT ![c] = i]
    /\ UNCHANGED <<open, due, stale, posts, dropping, home, asks, bounds>>

\* MUTANT: a claimed row has a status no other part knows.
ClaimUnknown(c) ==
  \E i \in todo[c] :
    /\ Goto(c, "delivering", "claimed")
    /\ todo' = [todo EXCEPT ![c] = @ \ {i}]
    /\ SetStatus(i, "claimed")
    /\ row' = [row EXCEPT ![c] = i]
    /\ UNCHANGED <<open, due, stale, posts, dropping, home, asks, bounds>>

\* claim: one conditional statement, so one pass takes the row.
Claim(c) ==
  \E i \in todo[c] :
    /\ pc[c] = "delivering"
    /\ todo' = [todo EXCEPT ![c] = @ \ {i}]
    /\ IF status[i] = "scheduled"
         THEN /\ Goto(c, "delivering", "claimed")
              /\ SetStatus(i, "sending")
              /\ row' = [row EXCEPT ![c] = i]
         ELSE UNCHANGED <<status, pc, row>>
    /\ UNCHANGED <<open, due, stale, posts, dropping, home, asks, bounds>>

\* The review as it stands when the delivery starts; its status is not looked at.
ReadReview(c) ==
  /\ Goto(c, "claimed", "read")
  /\ asks' = [asks EXCEPT ![c] = open]
  /\ UNCHANGED <<store, todo, row, dropping, home, bounds>>

\* sendReminder, answered, or refused, or lost after it took effect. A missing
\* chat or target is a refusal that never left.
Post(c) ==
  /\ \E answer \in {"posted", "refused"}, landed \in BOOLEAN :
       /\ answer = "posted" => landed
       /\ Goto(c, "read", answer)
       /\ posts' = [posts EXCEPT ![row[c]] = IF landed THEN @ + 1 ELSE @]
  /\ UNCHANGED <<open, status, due, stale, todo, row, dropping, home, asks, bounds>>

\* fail: recorded on the row, and nothing is planned after it.
Fail(c) ==
  /\ Goto(c, "refused", "delivering")
  /\ SetStatus(row[c], "failed")
  /\ row' = [row EXCEPT ![c] = NoReminder]
  /\ UNCHANGED <<open, due, stale, posts, todo, dropping, home, asks, bounds>>

\* MUTANT: sent, and the next one never planned.
MarkSentOnly(c) ==
  /\ Goto(c, "posted", "delivering")
  /\ SetStatus(row[c], "sent")
  /\ row' = [row EXCEPT ![c] = NoReminder]
  /\ UNCHANGED <<open, due, stale, posts, todo, dropping, home, asks, bounds>>

\* markSent, which re-plans with the review the delivery read.
MarkSent(c) ==
  /\ Goto(c, "posted", "planning")
  /\ SetStatus(row[c], "sent")
  /\ row' = [row EXCEPT ![c] = NoReminder]
  /\ home' = [home EXCEPT ![c] = "delivering"]
  /\ UNCHANGED <<open, due, stale, posts, todo, dropping, asks, bounds>>

EndPass(c) ==
  /\ todo[c] = {}
  /\ Goto(c, "delivering", "idle")
  /\ UNCHANGED <<store, todo, row, dropping, home, asks, bounds>>

\* A pass dies. Its claim stays behind.
Crash(c) ==
  /\ crashes < MaxCrashes
  /\ crashes' = crashes + 1
  /\ pc[c] \in Delivering \cup (IF CrashMidPlan THEN Planning ELSE {})
  /\ pc' = [pc EXCEPT ![c] = "idle"]
  /\ todo' = [todo EXCEPT ![c] = {}]
  /\ row' = [row EXCEPT ![c] = NoReminder]
  /\ dropping' = [dropping EXCEPT ![c] = {}]
  /\ asks' = [asks EXCEPT ![c] = FALSE]
  /\ UNCHANGED <<store, home, gestures>>

-----------------------------------------------------------------------------
(* scheduleNextReminder, and the ways into it. *)

\* A caller that reads the review for itself: giveUp and replanForPark.
RereadReview(a) ==
  /\ Goto(a, "replanning", "planning")
  /\ asks' = [asks EXCEPT ![a] = open]
  /\ UNCHANGED <<store, todo, row, dropping, home, bounds>>

\* The reminders read, which together with the review is all planNextReminder
\* goes on.
ReadLadder(a) ==
  /\ Goto(a, "planning", "cancelling")
  /\ asks' = [asks EXCEPT ![a] = @ /\ Cardinality(InStatus("sent")) < Nudges]
  /\ UNCHANGED <<store, todo, row, dropping, home, bounds>>

\* cancelScheduledForReview: the read ...
ReadScheduled(a) ==
  /\ Goto(a, "cancelling", "writing")
  /\ dropping' = [dropping EXCEPT ![a] = InStatus("scheduled")]
  /\ UNCHANGED <<store, todo, row, home, asks, bounds>>

\* ... and the write, of the rows as they were read.
WriteCancelled(a) ==
  /\ Goto(a, "writing", "creating")
  /\ status' = [i \in Reminders |-> IF i \in dropping[a] THEN "cancelled" ELSE status[i]]
  /\ dropping' = [dropping EXCEPT ![a] = {}]
  /\ UNCHANGED <<open, due, stale, posts, todo, row, home, asks, bounds>>

\* The one nudge the policy asks for, or none.
CreateNext(a) ==
  /\ Goto(a, "creating", home[a])
  /\ IF asks[a]
       THEN \E i \in InStatus("none") : SetStatus(i, "scheduled")
       ELSE UNCHANGED status
  /\ asks' = [asks EXCEPT ![a] = FALSE]
  /\ UNCHANGED <<open, due, stale, posts, todo, row, dropping, home, bounds>>

-----------------------------------------------------------------------------
(* What else re-plans. *)

Gesture(h, kind) ==
  /\ kind \in Gestures
  /\ gestures < MaxGestures
  /\ gestures' = gestures + 1
  /\ UNCHANGED <<status, due, stale, posts, todo, row, dropping, home, crashes>>

\* updateStatus to a verdict: the row, then the outstanding schedule dropped.
Resolve(h) ==
  /\ Gesture(h, "resolve")
  /\ open' = FALSE
  /\ Goto(h, "idle", "cancelling")
  /\ asks' = [asks EXCEPT ![h] = FALSE]

\* updateStatus back to an open status, re-planned from the row it wrote.
Reopen(h) ==
  /\ Gesture(h, "reopen")
  /\ open' = TRUE
  /\ Goto(h, "idle", "planning")
  /\ asks' = [asks EXCEPT ![h] = TRUE]

\* A poll that found a park started or over.
Park(h) ==
  /\ Gesture(h, "park")
  /\ Goto(h, "idle", "replanning")
  /\ UNCHANGED <<open, asks>>

\* A snooze replaces the outstanding row by one due later, whatever the policy
\* would plan.
Snooze(h) ==
  /\ Gesture(h, "snooze")
  /\ Goto(h, "idle", "cancelling")
  /\ asks' = [asks EXCEPT ![h] = TRUE]
  /\ UNCHANGED open

-----------------------------------------------------------------------------
(* Time. *)

ComesDue(i) ==
  /\ status[i] = "scheduled" /\ i \notin due
  /\ due' = due \cup {i}
  /\ UNCHANGED <<open, status, stale, posts, actors, bounds>>

LeaseRunsOut(i) ==
  /\ status[i] = "sending" /\ i \notin stale
  /\ PromptSends => \A c \in Clocks : row[c] # i
  /\ stale' = stale \cup {i}
  /\ UNCHANGED <<open, status, due, posts, actors, bounds>>

-----------------------------------------------------------------------------
Replan(a) ==
  \/ RereadReview(a) \/ ReadLadder(a) \/ ReadScheduled(a)
  \/ WriteCancelled(a) \/ CreateNext(a)

Pass(c) ==
  \/ StartPass(c) \/ GiveUp(c) \/ ListDue(c) \/ Claim(c) \/ ReadReview(c)
  \/ Post(c) \/ Fail(c) \/ MarkSent(c) \/ EndPass(c)

Next ==
  \/ \E a \in Actors : Replan(a)
  \/ \E c \in Clocks : Pass(c) \/ Crash(c)
  \/ \E h \in Handlers : Resolve(h) \/ Reopen(h) \/ Park(h) \/ Snooze(h)
  \/ \E i \in Reminders : ComesDue(i) \/ LeaseRunsOut(i)

Spec == Init /\ [][Next]_vars

\* A clock that is running finishes its pass and starts the next one; a row
\* falls due and a lease runs out. Nothing makes anybody gesture.
Fairness ==
  /\ \A c \in Clocks : WF_vars(Pass(c) \/ Replan(c))
  /\ \A i \in Reminders : WF_vars(ComesDue(i)) /\ WF_vars(LeaseRunsOut(i))

FairSpec == Spec /\ Fairness

-----------------------------------------------------------------------------
(* Properties. *)

Statuses == {"none", "scheduled", "sending", "sent", "failed", "given_up", "cancelled"}

\* The variables keep their types.
TypeOK ==
  /\ open \in BOOLEAN
  /\ status \in [Reminders -> Statuses]
  /\ due \subseteq Reminders /\ stale \subseteq Reminders
  /\ posts \in [Reminders -> Nat]
  /\ pc \in [Actors -> {"idle", "recovering", "delivering"} \cup Delivering \cup Planning]
  /\ todo \in [Actors -> SUBSET Reminders]
  /\ row \in [Actors -> Reminders \cup {NoReminder}]
  /\ dropping \in [Actors -> SUBSET Reminders]
  /\ home \in [Actors -> {"idle", "recovering", "delivering"}]
  /\ asks \in [Actors -> BOOLEAN]
  /\ gestures \in 0 .. MaxGestures /\ crashes \in 0 .. MaxCrashes

\* tick.ts:267-273: whatever the passes, gestures and crashes beside it, no row
\* is posted twice.
PostedOnce == \A i \in Reminders : posts[i] <= 1

InHand == InStatus("scheduled") \cup InStatus("sending")

\* What NudgeLadder is told: of the one row in hand, of whether it reached the
\* chat, and of what became of the others.
Hand ==
  IF Cardinality(InHand) > 1 THEN "too many"
  ELSE IF InStatus("sending") # {} THEN "claimed"
  ELSE IF InStatus("scheduled") # {} THEN "planned" ELSE "none"
HandPosted == \E i \in InStatus("sending") : posts[i] > 0
SentCount == Cardinality(InStatus("sent"))
Refused == InStatus("failed") # {}

Sequential == INSTANCE NudgeLadder WITH
  hand <- Hand, posted <- HandPosted, sent <- SentCount, stopped <- Refused

\* tick.ts:246-252, stalled.ts:15-31 and policy.ts:250-252: the passes of two
\* clocks and the recovery of what a dead one held come to one sequential
\* ladder, whose nudges are claimed, posted once and recorded one at a time.
LadderIsSequential == Sequential!Spec

\* schedule.ts:9-12 and stalled.ts:15-20: while nobody is re-planning it, the
\* ladder of an open review with nudges left has one in hand, or stands at a
\* post that was refused.
LadderHeld ==
  open /\ SentCount < Nudges /\ (\A a \in Actors : pc[a] \notin Planning)
    => InHand # {} \/ Refused

\* stalled.ts:27-31: a review nobody touches is chased until the policy has
\* nothing left to ask, or a post is refused.
ChasedToTheEnd ==
  <>(SentCount = Nudges \/ Refused)

\* schedule.ts:14-15, "the outstanding schedule is always a single row".
SingleRow == Cardinality(InStatus("scheduled")) <= 1

\* policy.ts:78, a verdict stops the clock: once whoever recorded it is done,
\* nothing is left scheduled for a resolved review.
ResolvedIsQuiet ==
  ~open /\ (\A a \in Actors : pc[a] \notin Planning \cup Delivering)
    => InStatus("scheduled") = {}
=============================================================================
