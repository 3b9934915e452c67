---------------------------- MODULE ReminderCadence ----------------------------
(***************************************************************************)
(* When a review's next nudge is due, and who hears it: the policy of      *)
(* reminders/src/policy.ts, asked again by scheduleNextReminder whenever a *)
(* nudge goes out, an assignment, a status or a park moves the ladder, and *)
(* the snooze that goes around it (server/src/reminders/snooze.ts).        *)
(*                                                                         *)
(* ReminderLadder has the rows, the clocks and what may happen beside a    *)
(* send; here there is one clock, and a send or a gesture is one step. A   *)
(* wait in force is Scaled(wait): twice the cadence multiplier keeps the   *)
(* half of a high priority an integer, so waits are given in even numbers. *)
(***************************************************************************)
EXTENDS Integers

CONSTANTS
  Reviewers,                             \* who may be put on the review
  UnassignedAfter, PendingAfter, PendingRepeat, EscalateAfterDue,
  ParkedAfter,                           \* the policy's waits
  MaxPending,                            \* and how many reminders it spends
  Deadlines,                             \* the review's dueAt, or NoTime
  Pauses,                                \* how long a snooze may last
  MaxTime, MaxChanges                    \* bounds

ASSUME WaitsAreNat ==
  {UnassignedAfter, PendingAfter, PendingRepeat, EscalateAfterDue, ParkedAfter} \subseteq Nat

NoTime == -1
Times == Nat \cup {NoTime}

ASSUME DeadlinesAreTimes == Deadlines \subseteq Times
ASSUME PausesAreNat == Pauses \subseteq Nat
ASSUME MaxTimeIsNat == MaxTime \in Nat

Nobody == "nobody"
Channel == "slack_channel"
Kinds == {"unassigned", "pending", "escalation", "ai_review_parked"}
NoRow == [kind |-> "none", to |-> Nobody, dueAt |-> NoTime, snoozedUntil |-> NoTime]

VARIABLES
  now,
  review,    \* whether it is resolved, its priority, deadline and assignment
  parkedAt,  \* when its AI review last parked, NoTime while none is parked
  nudge,     \* the scheduled reminder
  sentAt,    \* when each kind was last sent
  pendings,  \* how many `pending' ones were
  pauseEnd,  \* history: when the latest snooze ends; a verdict is its end
  refused,   \* history: the last nudge was refused, and nothing planned since
  changes

cadenceVars == <<now, review, parkedAt, nudge, sentAt, pendings, pauseEnd, refused, changes>>

-----------------------------------------------------------------------------
(* The policy. *)

DoubledMultiplier(priority) ==
  CASE priority = "high" -> 1 [] priority = "normal" -> 2 [] priority = "low" -> 4

Scaled(rv, wait) == (wait * DoubledMultiplier(rv.priority)) \div 2

Candidate(kind, to, dueAt) == [kind |-> kind, to |-> to, dueAt |-> dueAt, snoozedUntil |-> NoTime]

\* The reviewer's own DM, or the channel while nobody owns the review.
AudienceFor(rv) == IF rv.assignee = Nobody THEN Channel ELSE rv.assignee

PlanEscalation(rv, sent) ==
  IF rv.dueAt = NoTime \/ sent["escalation"] # NoTime THEN NoRow
  ELSE Candidate("escalation", Channel, rv.dueAt + EscalateAfterDue)

\* Once per park.
PlanAiReviewParked(rv, sent, parked) ==
  IF parked = NoTime \/ sent["ai_review_parked"] >= parked THEN NoRow
  ELSE Candidate("ai_review_parked", AudienceFor(rv), parked + Scaled(rv, ParkedAfter))

NextPendingReminderAt(rv, sent) ==
  IF sent["pending"] # NoTime
    THEN sent["pending"] + Scaled(rv, PendingRepeat)
    ELSE rv.assignedAt + Scaled(rv, PendingAfter)

PlanNudge(rv, sent, count) ==
  IF rv.assignee = Nobody
    THEN IF sent["unassigned"] # NoTime THEN NoRow
         ELSE Candidate("unassigned", Channel, Scaled(rv, UnassignedAfter))
    ELSE IF count >= MaxPending THEN NoRow
         ELSE Candidate("pending", rv.assignee, NextPendingReminderAt(rv, sent))

\* In the order that settles a tie.
Candidates(rv, sent, count, parked) ==
  <<PlanEscalation(rv, sent), PlanAiReviewParked(rv, sent, parked), PlanNudge(rv, sent, count)>>

\* MUTANT: a precedence between kinds, and not the clock.
FirstCandidate(candidates) ==
  LET found == {i \in 1 .. 3 : candidates[i] # NoRow}
  IN IF found = {} THEN NoRow
     ELSE candidates[CHOOSE i \in found : \A j \in found : i <= j]

Earliest(candidates) ==
  LET found == {i \in 1 .. 3 : candidates[i] # NoRow}
      before(i, j) == \/ candidates[i].dueAt < candidates[j].dueAt
                      \/ candidates[i].dueAt = candidates[j].dueAt /\ i <= j
  IN IF found = {} THEN NoRow
     ELSE candidates[CHOOSE i \in found : \A j \in found : before(i, j)]

\* The rung that won, held back by a pause that outlasts it.
Deferred(candidate, until) ==
  IF candidate = NoRow \/ until <= candidate.dueAt THEN candidate
  ELSE [candidate EXCEPT !.dueAt = until, !.snoozedUntil = until]

PlanNextReminder(rv, sent, count, parked, outstanding) ==
  IF rv.resolved THEN NoRow
  ELSE Deferred(Earliest(Candidates(rv, sent, count, parked)), outstanding.snoozedUntil)

-----------------------------------------------------------------------------
CadenceInit ==
  /\ now = 0
  /\ review \in [resolved : {FALSE}, priority : {"high", "normal", "low"}, dueAt : Deadlines,
                 assignee : {Nobody}, assignedAt : {NoTime}]
  /\ parkedAt = NoTime
  /\ sentAt = [k \in Kinds |-> NoTime]
  /\ pendings = 0
  /\ nudge = PlanNextReminder(review, sentAt, pendings, parkedAt, NoRow)
  /\ pauseEnd = NoTime /\ refused = FALSE /\ changes = 0

\* scheduleNextReminder: what is outstanding is dropped, and the one nudge the
\* policy asks for written, with the pause the dropped row carried.
ScheduleNextReminder ==
  /\ nudge' = PlanNextReminder(review', sentAt', pendings', parkedAt', nudge)
  /\ refused' = FALSE

Change ==
  /\ changes < MaxChanges
  /\ changes' = changes + 1
  /\ UNCHANGED <<now, sentAt, pendings>>

\* MUTANT: an assignment leaves the ladder as it was planned.
AssignOnly(r) ==
  /\ Change
  /\ r # review.assignee
  /\ review' = [review EXCEPT !.assignee = r,
                              !.assignedAt = IF @ = NoTime THEN now ELSE @]
  /\ UNCHANGED <<parkedAt, nudge, pauseEnd, refused>>

\* A claim, an assignment or a reroll.
Assign(r) ==
  /\ Change
  /\ r # review.assignee
  /\ review' = [review EXCEPT !.assignee = r,
                              !.assignedAt = IF @ = NoTime THEN now ELSE @]
  /\ UNCHANGED <<parkedAt, pauseEnd>>
  /\ ScheduleNextReminder

\* updateStatus: a verdict drops the outstanding row, anything else re-plans.
UpdateStatus(resolved) ==
  /\ Change
  /\ review' = [review EXCEPT !.resolved = resolved]
  /\ pauseEnd' = IF resolved THEN NoTime ELSE pauseEnd
  /\ UNCHANGED parkedAt
  /\ ScheduleNextReminder

\* A poll that found the AI review parked, or its park over.
FoundPark(parks) ==
  /\ Change
  /\ parks \/ parkedAt # NoTime
  /\ parkedAt' = IF parks THEN now ELSE NoTime
  /\ UNCHANGED <<review, pauseEnd>>
  /\ ScheduleNextReminder

PlannedTarget ==
  IF review.assignee = Nobody THEN Candidate("unassigned", Channel, NoTime)
  ELSE Candidate("pending", review.assignee, NoTime)

\* snoozeReview: the outstanding row's kind and target, or those the policy
\* would chase, due when the pause ends. The review's status is not looked at.
SnoozeReview(hours) ==
  /\ Change
  /\ nudge' = [(IF nudge = NoRow THEN PlannedTarget ELSE nudge)
              EXCEPT !.dueAt = now + hours, !.snoozedUntil = now + hours]
  /\ pauseEnd' = now + hours
  /\ refused' = FALSE
  /\ UNCHANGED <<review, parkedAt>>

\* The tick: the due row goes out, and the one after it is planned.
Deliver ==
  /\ nudge # NoRow /\ nudge.dueAt <= now
  /\ sentAt' = [sentAt EXCEPT ![nudge.kind] = now]
  /\ pendings' = IF nudge.kind = "pending" THEN pendings + 1 ELSE pendings
  /\ nudge' = PlanNextReminder(review, sentAt', pendings', parkedAt, NoRow)
  /\ refused' = FALSE
  /\ UNCHANGED <<now, review, parkedAt, pauseEnd, changes>>

\* A post that is refused is recorded on its row, and nothing planned after it.
Refuse ==
  /\ nudge # NoRow /\ nudge.dueAt <= now
  /\ nudge' = NoRow
  /\ refused' = TRUE
  /\ UNCHANGED <<now, review, parkedAt, sentAt, pendings, pauseEnd, changes>>

TimePasses ==
  /\ now < MaxTime
  /\ now' = now + 1
  /\ UNCHANGED <<review, parkedAt, nudge, sentAt, pendings, pauseEnd, refused, changes>>

CadenceNext ==
  \/ \E r \in Reviewers : Assign(r)
  \/ \E resolved \in BOOLEAN : UpdateStatus(resolved)
  \/ \E parks \in BOOLEAN : FoundPark(parks)
  \/ \E hours \in Pauses : SnoozeReview(hours)
  \/ Deliver \/ Refuse \/ TimePasses

CadenceSpec == CadenceInit /\ [][CadenceNext]_cadenceVars

-----------------------------------------------------------------------------
(* Properties. *)

\* policy.ts:245-252 and 303-306: every rung of an open review is heard in its
\* own time. Whatever was sent, assigned, parked, reopened and snoozed before,
\* the one scheduled row is due no later than any rung the policy has left, or
\* than the end of the pause somebody asked for.
NoRungSilenced ==
  ~review.resolved /\ ~refused =>
    \A i \in 1 .. 3 :
      LET rung == Candidates(review, sentAt, pendings, parkedAt)[i]
      IN rung # NoRow => nudge # NoRow /\ (nudge.dueAt <= rung.dueAt \/ nudge.dueAt <= pauseEnd)

\* policy.ts:157-166 and snooze.ts:55-58: only the escalation widens the
\* audience. Through hand-overs and snoozes the nudge that is scheduled is
\* addressed to whoever holds the review now, or to the channel while nobody
\* does.
AudienceFits ==
  nudge # NoRow =>
    /\ nudge.to = IF nudge.kind = "escalation" THEN Channel ELSE AudienceFor(review)
    /\ nudge.kind = "unassigned" => review.assignee = Nobody

\* snooze.ts:31-36, "Push the next nudge for a review out": nothing is sent
\* before the pause ends. (The pause is forgotten by a re-plan whose rung
\* comes due after it, and a later one may plan a rung before it ends.)
SnoozeHolds == [][Deliver => now >= pauseEnd]_cadenceVars
=============================================================================
