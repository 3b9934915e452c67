----------------------------- MODULE AiReviewPark -----------------------------
(***************************************************************************)
(* How a delegated review that parks on its findings comes to be           *)
(* announced: AiReviewService.poll and write (the row), park.ts (the edge, *)
(* the re-plan, and the stamps put back when it fails), reconcile.ts       *)
(* (which of two pictures of a review is the newer), and planAiReviewParked *)
(* of the reminders package.                                               *)
(*                                                                         *)
(* ONE open review and its AI reviews, each filed and still in flight. A   *)
(* poller is a pass of the clock with one run in hand, or a read of the    *)
(* board with all of them: it asks cat-factory, writes each answer on its  *)
(* row, and re-plans the ladder once for the parks that began or ended.    *)
(* A curator acts in cat-factory, which calls nothing back, or dismisses a *)
(* finding from the board, whose request writes cat-factory's answer over  *)
(* the row without asking which of the two is the newer picture.           *)
(*                                                                         *)
(* A curation is what reconcile.ts compares: the posting passes and the    *)
(* challenge on the one finding somebody disputes, which nobody dismisses. *)
(* Its heartbeat is null, which decides nothing. parkedAt is `none',       *)
(* `news' (later than the last nudge about a park) or `announced'; the     *)
(* ladder compares nothing else.                                           *)
(***************************************************************************)
EXTENDS Integers, FiniteSets

CONSTANTS
  Runs,        \* the AI reviews of the review
  Pollers,     \* the reads, clock passes and dismissals at work at once
  Apart,       \* whether others run between the read and the write of a row or of the ladder
  StampsBack,  \* whether a re-plan fails, too, that has an older stamp to put back
  MaxPasses,   \* bound: the posting passes of a run
  MaxFailures  \* bound: the re-plans that fail

ASSUME RunsFinite == IsFiniteSet(Runs) /\ IsFiniteSet(Pollers)
ASSUME RunsAreSome == Runs # {}
ASSUME KnobsAreBoolean == Apart \in BOOLEAN /\ StampsBack \in BOOLEAN
ASSUME BoundsAreNat == MaxPasses \in Nat /\ MaxFailures \in Nat

VARIABLES
  phase,      \* each run in cat-factory
  curation,   \* the decision it carries there
  told,       \* whether a nudge went out about the park it is in
  shown,      \* whether the answer to a dismissal brought that park to light
  row,        \* each run's row
  nudge,      \* whether the ladder's scheduled row is the parked one
  pc,         \* where each poller is
  todo,       \* the runs it has not polled yet
  report,     \* cat-factory's answer
  patch,      \* the row it is about to write
  edges,      \* the parks that began or ended on its polls
  wants,      \* whether its re-plan found a park to announce
  failures    \* how many re-plans failed

upstream == <<phase, curation, told, shown>>
polling == <<pc, todo, report, patch, edges, wants>>
vars == <<upstream, row, nudge, polling, failures>>

Phases == {"working", "parked", "posting", "challenging", "over"}
Parked == "awaiting_selection"

NoDecision == [passes |-> 0, challenge |-> "none"]
NoReport ==
  [run |-> CHOOSE r \in Runs : TRUE, status |-> "running", bare |-> TRUE, curation |-> NoDecision]
NewRow == [status |-> "running", stamp |-> "none", curation |-> NoDecision]

InFlight == {r \in Runs : row[r].status \in {"running", Parked}}

Init ==
  /\ phase = [r \in Runs |-> "working"]
  /\ curation = [r \in Runs |-> NoDecision]
  /\ told = [r \in Runs |-> FALSE] /\ shown = [r \in Runs |-> FALSE]
  /\ row = [r \in Runs |-> NewRow]
  /\ nudge = FALSE
  /\ pc = [p \in Pollers |-> "idle"]
  /\ todo = [p \in Pollers |-> {}]
  /\ report = [p \in Pollers |-> NoReport]
  /\ patch = [p \in Pollers |-> NewRow]
  /\ edges = [p \in Pollers |-> {}]
  /\ wants = [p \in Pollers |-> FALSE]
  /\ failures = 0

Goto(p, from, to) == pc[p] = from /\ pc' = [pc EXCEPT ![p] = to]

\* Nobody else stands between a read and the write it belongs to.
Free(p) == Apart \/ \A q \in Pollers \ {p} : pc[q] \notin {"writing", "rewriting", "dismissed"}

-----------------------------------------------------------------------------
(* The decisions. *)

\* supersedes: the row holds a later picture of the review than the report.
Supersedes(held, reported) ==
  IF held.passes # reported.passes
    THEN held.passes > reported.passes
    ELSE held.challenge # "none" /\ reported.challenge = "none"

\* MUTANT: the report is written through.
CurationReported(rep, held) == IF rep.bare THEN held ELSE rep.curation

\* curationFor. A bare report carries no decision: the run is at work, or over.
CurationFor(rep, held) ==
  IF rep.bare \/ Supersedes(held, rep.curation) THEN held ELSE rep.curation

\* MUTANT: a park no poll saw leave is the park that was there.
StampedOnEdge(cur, status, held) ==
  status = Parked /\ (cur.status # Parked \/ cur.stamp = "none")

\* MUTANT: the stamp moves every time the clock looks.
StampedAlways(cur, status, now) == status = Parked

\* parkedAtFor: the park is news, or has news that no poll saw it leave for.
Stamped(cur, status, now) ==
  /\ status = Parked
  /\ \/ cur.status # Parked \/ cur.stamp = "none"
     \/ now.passes > cur.curation.passes
     \/ now.challenge = "settled" /\ cur.curation.challenge # "settled"

ParkedAt(cur, status, now) ==
  CASE status # Parked -> "none"
    [] Stamped(cur, status, now) -> "news"
    [] OTHER -> cur.stamp

\* planAiReviewParked, over the latest park of them all.
IsNews(r) == row[r].status = Parked /\ row[r].stamp = "news"
News == \E r \in Runs : IsNews(r)

-----------------------------------------------------------------------------
(* A poller. *)

\* refresh or sweepOne takes one run, listByReview all; a settled one is not polled.
Start(p, rs) ==
  /\ rs # {} /\ rs \subseteq InFlight
  /\ Goto(p, "idle", "polling")
  /\ todo' = [todo EXCEPT ![p] = rs]
  /\ UNCHANGED <<upstream, row, nudge, report, patch, edges, wants, failures>>

\* MUTANT: cat-factory's word for where a run is, taken over unmapped.
AnswerUnmapped(r) ==
  [run |-> r, bare |-> phase[r] \in {"working", "over"}, curation |-> curation[r],
   status |-> phase[r]]

\* getStatus: the run, and what it is parked on. Only a run that has parked
\* once, and is not over, carries a decision.
Answer(r) ==
  [run |-> r, bare |-> phase[r] \in {"working", "over"}, curation |-> curation[r],
   status |-> CASE phase[r] = "parked" -> Parked
                [] phase[r] = "over" -> "settled"
                [] OTHER -> "running"]

GetStatus(p, r) ==
  /\ r \in todo[p]
  /\ Goto(p, "polling", "answered")
  /\ todo' = [todo EXCEPT ![p] = @ \ {r}]
  /\ report' = [report EXCEPT ![p] = Answer(r)]
  /\ UNCHANGED <<upstream, row, nudge, patch, edges, wants, failures>>

\* pollRefused: the reason is recorded, the status left alone.
PollRefused(p, r) ==
  /\ pc[p] = "polling" /\ r \in todo[p]
  /\ todo' = [todo EXCEPT ![p] = @ \ {r}]
  /\ UNCHANGED <<upstream, row, nudge, pc, report, patch, edges, wants, failures>>

\* MUTANT: no report is too late.
LateNever(p) == FALSE

\* A settled row refuses a report that is in flight.
Late(p) == report[p].status # "settled" /\ report[p].run \notin InFlight

Discard(p) ==
  /\ Free(p) /\ Late(p)
  /\ Goto(p, "answered", "polling")
  /\ report' = [report EXCEPT ![p] = NoReport]
  /\ UNCHANGED <<upstream, row, nudge, todo, patch, edges, wants, failures>>

\* write: the row read as it stands now, the patch, and the stamp's time.
ReadRow(p) ==
  LET rep == report[p]
      cur == row[rep.run]
      now == CurationFor(rep, cur.curation)
      cleared == rep.status # Parked /\ cur.stamp # "none"
      stamped == Stamped(cur, rep.status, now)
  IN
  /\ Free(p) /\ ~Late(p)
  /\ Goto(p, "answered", "writing")
  /\ patch' = [patch EXCEPT ![p] =
       [status |-> rep.status, curation |-> now, stamp |-> ParkedAt(cur, rep.status, now)]]
  /\ edges' = [edges EXCEPT ![p] =
       IF stamped \/ cleared THEN @ \cup {[run |-> rep.run, previous |-> cur.stamp]} ELSE @]
  /\ UNCHANGED <<upstream, row, nudge, todo, report, wants, failures>>

WriteRow(p) ==
  /\ Goto(p, "writing", "polling")
  /\ row' = [row EXCEPT ![report[p].run] = patch[p]]
  /\ report' = [report EXCEPT ![p] = NoReport]
  /\ patch' = [patch EXCEPT ![p] = NewRow]
  /\ UNCHANGED <<upstream, nudge, todo, edges, wants, failures>>

\* MUTANT: nothing is re-planned behind a poll.
EndPollsUnplanned(p) ==
  /\ todo[p] = {}
  /\ Goto(p, "polling", "idle")
  /\ edges' = [edges EXCEPT ![p] = {}]
  /\ UNCHANGED <<upstream, row, nudge, todo, report, patch, wants, failures>>

\* The polls have landed: one re-plan if any of them moved a park.
EndPolls(p) ==
  /\ todo[p] = {}
  /\ Goto(p, "polling", IF edges[p] = {} THEN "idle" ELSE "replanning")
  /\ UNCHANGED <<upstream, row, nudge, todo, report, patch, edges, wants, failures>>

\* scheduleNextReminder: what was sent, and the runs.
ReadLadder(p) ==
  /\ Free(p)
  /\ Goto(p, "replanning", "rewriting")
  /\ wants' = [wants EXCEPT ![p] = News]
  /\ UNCHANGED <<upstream, row, nudge, todo, report, patch, edges, failures>>

\* The outstanding row cancelled, and the one the policy asks for created.
Rewrite(p) ==
  /\ Goto(p, "rewriting", "idle")
  /\ nudge' = wants[p]
  /\ wants' = [wants EXCEPT ![p] = FALSE]
  /\ edges' = [edges EXCEPT ![p] = {}]
  /\ UNCHANGED <<upstream, row, todo, report, patch, failures>>

\* The store refuses a read, or the cancel, or the create behind it.
ReplanFails(p) ==
  /\ failures < MaxFailures
  /\ failures' = failures + 1
  /\ StampsBack \/ \A e \in edges[p] : e.previous = "none"
  /\ Goto(p, "rewriting", "restoring")
  /\ nudge' \in {nudge, FALSE}
  /\ wants' = [wants EXCEPT ![p] = FALSE]
  /\ UNCHANGED <<upstream, row, todo, report, patch, edges>>

\* MUTANT: the stamps are left as the polls wrote them.
UnstampNothing(p) ==
  /\ Goto(p, "restoring", "idle")
  /\ edges' = [edges EXCEPT ![p] = {}]
  /\ UNCHANGED <<upstream, row, nudge, todo, report, patch, wants, failures>>

\* unstamp: each stamp put back as it was before the poll.
Unstamp(p) ==
  \E e \in edges[p] :
    /\ Free(p)
    /\ Goto(p, "restoring", IF edges[p] = {e} THEN "idle" ELSE "restoring")
    /\ row' = [row EXCEPT ![e.run].stamp = e.previous]
    /\ edges' = [edges EXCEPT ![p] = @ \ {e}]
    /\ UNCHANGED <<upstream, nudge, todo, report, patch, wants, failures>>

-----------------------------------------------------------------------------
(* A dismissal. *)

\* dismissFinding: of a finding the row shows, taken by cat-factory from a parked
\* review only, and answered with the decision it leaves.
DismissFinding(p, r) ==
  /\ row[r].status = Parked \/ row[r].curation # NoDecision
  /\ phase[r] = "parked"
  /\ Free(p)
  /\ Goto(p, "idle", "dismissed")
  /\ report' = [report EXCEPT ![p] = Answer(r)]
  /\ UNCHANGED <<upstream, row, nudge, todo, patch, edges, wants, failures>>

\* The answer is the row's curation from now on, and what the curator is shown.
WriteDismissed(p) ==
  LET rep == report[p] IN
  /\ Goto(p, "dismissed", "idle")
  /\ row' = [row EXCEPT ![rep.run].curation = rep.curation]
  /\ shown' = [shown EXCEPT ![rep.run] =
       @ \/ (rep = Answer(rep.run) /\ rep.curation # row[rep.run].curation)]
  /\ report' = [report EXCEPT ![p] = NoReport]
  /\ UNCHANGED <<phase, curation, told, nudge, todo, patch, edges, wants, failures>>

-----------------------------------------------------------------------------
(* The clock's nudge. *)

Announced(stamp) == IF stamp = "news" THEN "announced" ELSE stamp

\* It falls due and goes out, which makes every stamp older than it. It waits a
\* quarter of an hour, the clock comes round every minute and a poll takes
\* seconds: it finds no poll half done, no answer that is out of date, and the
\* parks it is about as they were.
Send ==
  /\ nudge
  /\ \A p \in Pollers :
       /\ pc[p] # "writing" /\ edges[p] = {}
       /\ pc[p] = "answered" => report[p] = Answer(report[p].run)
  /\ \A r \in Runs : IsNews(r) => phase[r] = "parked" /\ row[r].curation = curation[r]
  /\ nudge' = FALSE
  /\ told' = [r \in Runs |-> told[r] \/ IsNews(r)]
  /\ row' = [r \in Runs |-> [row[r] EXCEPT !.stamp = Announced(@)]]
  /\ UNCHANGED <<phase, curation, shown, polling, failures>>

-----------------------------------------------------------------------------
(* cat-factory, and the curator. *)

Enter(r, from, to) ==
  /\ phase[r] \in from
  /\ phase' = [phase EXCEPT ![r] = to]
  /\ told' = [told EXCEPT ![r] = FALSE] /\ shown' = [shown EXCEPT ![r] = FALSE]
  /\ UNCHANGED <<row, nudge, polling, failures>>

Park(r) == Enter(r, {"working", "posting"}, "parked") /\ UNCHANGED curation

Post(r) ==
  /\ curation[r].passes < MaxPasses
  /\ Enter(r, {"parked"}, "posting")
  /\ curation' = [curation EXCEPT ![r].passes = @ + 1]

Challenge(r) ==
  /\ curation[r].challenge = "none"
  /\ Enter(r, {"parked"}, "challenging")
  /\ curation' = [curation EXCEPT ![r].challenge = "investigating"]

Verdict(r) ==
  /\ Enter(r, {"challenging"}, "parked")
  /\ curation' = [curation EXCEPT ![r].challenge = "settled"]

End(r) == Enter(r, Phases \ {"over"}, "over") /\ UNCHANGED curation

-----------------------------------------------------------------------------
Poll(p) ==
  \/ \E r \in Runs : GetStatus(p, r) \/ PollRefused(p, r)
  \/ Discard(p) \/ ReadRow(p) \/ WriteRow(p) \/ EndPolls(p)
  \/ ReadLadder(p) \/ Rewrite(p) \/ ReplanFails(p) \/ Unstamp(p)

Next ==
  \/ \E p \in Pollers : Poll(p) \/ Start(p, InFlight) \/ WriteDismissed(p)
  \/ \E p \in Pollers, r \in Runs : Start(p, {r}) \/ DismissFinding(p, r)
  \/ Send
  \/ \E r \in Runs : Park(r) \/ Post(r) \/ Challenge(r) \/ Verdict(r) \/ End(r)

Spec == Init /\ [][Next]_vars

\* A poll ends. The clock comes round to every run in flight, least recently
\* polled first, and cat-factory answers about it sooner or later. A nudge that
\* is planned goes out. Nothing makes cat-factory or a curator do anything.
Fairness ==
  /\ \A p \in Pollers : SF_vars(Poll(p)) /\ WF_vars(WriteDismissed(p))
  /\ \A r \in Runs : SF_vars(\E p \in Pollers : Start(p, {r}))
  /\ \A r \in Runs : SF_vars(\E p \in Pollers : GetStatus(p, r))
  /\ SF_vars(Send)

FairSpec == Spec /\ Fairness

-----------------------------------------------------------------------------
(* Properties. *)

Curations == [passes : 0 .. MaxPasses, challenge : {"none", "investigating", "settled"}]
Stamps == {"none", "news", "announced"}
Rows == [status : {"running", Parked, "settled"}, stamp : Stamps, curation : Curations]

\* The variables keep their types.
TypeOK ==
  /\ phase \in [Runs -> Phases] /\ curation \in [Runs -> Curations]
  /\ told \in [Runs -> BOOLEAN] /\ shown \in [Runs -> BOOLEAN] /\ row \in [Runs -> Rows]
  /\ nudge \in BOOLEAN
  /\ pc \in [Pollers -> {"idle", "polling", "answered", "writing", "replanning",
                         "rewriting", "restoring", "dismissed"}]
  /\ todo \in [Pollers -> SUBSET Runs]
  /\ report \in [Pollers -> [run : Runs, status : {"running", Parked, "settled"},
                             bare : BOOLEAN, curation : Curations]]
  /\ patch \in [Pollers -> Rows]
  /\ edges \in [Pollers -> SUBSET [run : Runs, previous : Stamps]]
  /\ wants \in [Pollers -> BOOLEAN]
  /\ failures \in 0 .. MaxFailures

Quiet == \A p \in Pollers : pc[p] = "idle"

\* park.ts:17-23: a stamp stands on a row only if the nudge has been put in
\* step with it, whichever of the re-plans in between failed.
NewsPlanned == Quiet /\ News => nudge

\* policy.ts:203-208, "planned ONCE PER PARK": a park somebody was told about is
\* not news again, though its polls overlap.
AnnouncedOnce ==
  \A r \in Runs :
    told[r] /\ phase[r] = "parked" /\ row[r].status = Parked => row[r].stamp # "news"

\* reconcile.ts:27-32: whatever order the polls land in, a row never goes back to
\* a curation with fewer posting passes, or without the challenge it had.
CurationKept ==
  [][\A r \in Runs :
       /\ row'[r].curation.passes >= row[r].curation.passes
       /\ row[r].curation.challenge # "none" => row'[r].curation.challenge # "none"]_vars

\* park.ts:17-23 and AiReviewService.ts:163-168: a run that is waiting for a
\* person is announced, though polls overlap, are refused, and re-plans fail; or
\* the person who dismisses a finding is shown a park nobody knew of.
ParkAnnounced ==
  \A r \in Runs : phase[r] = "parked" ~> told[r] \/ shown[r] \/ phase[r] # "parked"

\* park.ts:78-87: a re-park that no poll saw leave is news to the ladder, too.
ReparkNudged ==
  \A r \in Runs : phase[r] = "parked" ~> told[r] \/ phase[r] # "parked"

\* AiReviewService.ts:310-316: a settled row stays settled, whatever slower answer
\* of another poll is still on its way.
SettledForGood ==
  [][\A r \in Runs : row[r].status = "settled" => row'[r].status = "settled"]_vars

\* park.ts:161-168: with the stamp back, "the next poll finds the edge again", so
\* no nudge is left scheduled about a review that is not parked.
CuratedIsQuiet ==
  Quiet /\ nudge /\ InFlight = {} => FALSE
=============================================================================
