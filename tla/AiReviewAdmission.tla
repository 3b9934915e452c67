-------------------------- MODULE AiReviewAdmission --------------------------
(***************************************************************************)
(* Whether one more AI review may be filed on a review, and what happens   *)
(* to the row of one that is: reviewers/src/aiAdmission.ts (the rule),     *)
(* AiReviewService.request (the request), admission.ts (the read in front  *)
(* of the insert and the one behind it), filing.ts with                    *)
(* CatFactoryAiReviewGateway.fileAndStart (the two calls to cat-factory),  *)
(* and orphans.ts (the clock writing off a row nobody finished).           *)
(*                                                                         *)
(* ONE review: the rule never reads another review's runs. A request is a  *)
(* process of its own, whichever surface it came from, and every await of  *)
(* it is a point where others run.                                         *)
(*                                                                         *)
(* `age[r]' stands for `now - requestedAt', saturating at Hour: no rule    *)
(* tells two larger ages apart. `taskId[r]' says whether catFactoryTaskId  *)
(* is set. A poll's read and write of the row are one step here; the       *)
(* interleavings inside it are the subject of AiReviewPark.                *)
(***************************************************************************)
EXTENDS Integers, FiniteSets

CONSTANTS
  Requests,       \* the requests for an AI review of the one review
  HourlyLimit,    \* AI_REVIEW_HOURLY_LIMIT
  FilingTimeout,  \* AI_REVIEW_FILING_TIMEOUT_MS
  Hour,           \* HOUR_MS
  PromptFiling    \* whether a request always ends within FilingTimeout

ASSUME RequestsFinite == IsFiniteSet(Requests)
ASSUME LimitsAreNat == HourlyLimit \in Nat /\ FilingTimeout \in Nat \ {0} /\ Hour \in Nat
ASSUME PromptFilingIsBoolean == PromptFiling \in BOOLEAN

VARIABLES
  pc,          \* where each request is
  status,      \* the run row's status, "none" before the row is written
  taskId,      \* whether the row names a cat-factory task
  age,         \* how long ago the row was written
  upstream,    \* the request's task in cat-factory
  writingOff   \* rows a sweep has re-read and is about to write off

vars == <<pc, status, taskId, age, upstream, writingOff>>

InFlightStatuses == {"requested", "running", "awaiting_selection"}
SettledStatuses == {"completed", "failed", "cancelled"}

\* The places of a request that has written its row and not yet ended.
Filing == {"confirmed", "created", "started", "failing"}
Owning == Filing \cup {"inserted", "giving_way"}

-----------------------------------------------------------------------------
(* The rule. *)

\* MUTANT: the ceiling on a filed run is forgotten.
InFlightForever(r) ==
  status[r] \in InFlightStatuses /\ (taskId[r] \/ age[r] < FilingTimeout)

InFlight(r) ==
  /\ status[r] \in InFlightStatuses
  /\ age[r] < IF taskId[r] THEN Hour ELSE FilingTimeout

\* The runs that count towards the hourly limit: the filed ones.
FiledThisHour(rs) == {r \in rs : taskId[r] /\ age[r] < Hour}

\* MUTANT: one more than the limit.
AdmissibleOffByOne(rs) ==
  /\ \A r \in rs : ~InFlight(r)
  /\ Cardinality(FiledThisHour(rs)) <= HourlyLimit

Admissible(rs) ==
  /\ \A r \in rs : ~InFlight(r)
  /\ Cardinality(FiledThisHour(rs)) < HourlyLimit

-----------------------------------------------------------------------------
Init ==
  /\ pc = [r \in Requests |-> "idle"]
  /\ status = [r \in Requests |-> "none"]
  /\ taskId = [r \in Requests |-> FALSE]
  /\ age = [r \in Requests |-> 0]
  /\ upstream = [r \in Requests |-> "none"]
  /\ writingOff = {}

Goto(r, from, to) == pc[r] = from /\ pc' = [pc EXCEPT ![r] = to]

\* admitAiReview passes: nothing is written yet.
Admit(r) ==
  /\ Admissible(Requests)
  /\ Goto(r, "idle", "admitted")
  /\ UNCHANGED <<status, taskId, age, upstream, writingOff>>

\* admitAiReview refuses, or the acting person's credential does not open.
Refuse(r) ==
  /\ \/ Goto(r, "idle", "ended") /\ ~Admissible(Requests)
     \/ Goto(r, "admitted", "ended")
  /\ UNCHANGED <<status, taskId, age, upstream, writingOff>>

\* The row, written before any call goes out.
Insert(r) ==
  /\ Goto(r, "admitted", "inserted")
  /\ status' = [status EXCEPT ![r] = "requested"]
  /\ UNCHANGED <<taskId, age, upstream, writingOff>>

\* MUTANT: what was decided before the insert is trusted.
ConfirmUnread(r) ==
  /\ Goto(r, "inserted", "confirmed")
  /\ UNCHANGED <<status, taskId, age, upstream, writingOff>>

\* confirmAiReviewAdmission: the other rows are read again behind the insert.
Confirm(r) ==
  /\ Goto(r, "inserted",
          IF Admissible(Requests \ {r}) THEN "confirmed" ELSE "giving_way")
  /\ UNCHANGED <<status, taskId, age, upstream, writingOff>>

\* MUTANT: a row that gave way has a status no other part knows.
GiveWayUnknown(r) ==
  /\ Goto(r, "giving_way", "ended")
  /\ status' = [status EXCEPT ![r] = "gave_way"]
  /\ UNCHANGED <<taskId, age, upstream, writingOff>>

\* The row of a request that met another one is written off.
GiveWay(r) ==
  /\ Goto(r, "giving_way", "ended")
  /\ status' = [status EXCEPT ![r] = "failed"]
  /\ UNCHANGED <<taskId, age, upstream, writingOff>>

\* tasks.create, with an answer.
CreateTask(r) ==
  /\ Goto(r, "confirmed", "created")
  /\ upstream' = [upstream EXCEPT ![r] = "created"]
  /\ UNCHANGED <<status, taskId, age, writingOff>>

\* tasks.start, with an answer.
StartTask(r) ==
  /\ Goto(r, "created", "started")
  /\ upstream' = [upstream EXCEPT ![r] = "running"]
  /\ UNCHANGED <<status, taskId, age, writingOff>>

\* Either call refused, or the placement it needs: cat-factory did nothing.
CallRefused(r) ==
  /\ \/ Goto(r, "confirmed", "failing")
     \/ Goto(r, "created", "failing")
  /\ UNCHANGED <<status, taskId, age, upstream, writingOff>>

\* Either call took effect and its answer never came: the deadline passed.
AnswerLost(r) ==
  /\ \/ /\ Goto(r, "confirmed", "failing")
        /\ upstream' = [upstream EXCEPT ![r] = "created"]
     \/ /\ Goto(r, "created", "failing")
        /\ upstream' = [upstream EXCEPT ![r] = "running"]
  /\ UNCHANGED <<status, taskId, age, writingOff>>

\* The task is recorded on the row, whatever the row says by now.
Record(r) ==
  /\ Goto(r, "started", "ended")
  /\ status' = [status EXCEPT ![r] = "running"]
  /\ taskId' = [taskId EXCEPT ![r] = TRUE]
  /\ UNCHANGED <<age, upstream, writingOff>>

\* The failure of a call is recorded on the row, and no task is.
FailFiling(r) ==
  /\ Goto(r, "failing", "ended")
  /\ status' = [status EXCEPT ![r] = "failed"]
  /\ UNCHANGED <<taskId, age, upstream, writingOff>>

\* The process of a request dies between two of its steps.
Crash(r) ==
  /\ pc[r] \in Owning \cup {"admitted"}
  /\ pc' = [pc EXCEPT ![r] = "ended"]
  /\ UNCHANGED <<status, taskId, age, upstream, writingOff>>

-----------------------------------------------------------------------------
(* The clock, its sweep and its polls. *)

\* The part of abandonIfOrphaned that reads a row back before writing it off.
StillUnacknowledged(r) == status[r] = "requested" /\ ~taskId[r]

\* MUTANT: no grace period.
SweepReadAtOnce(r) ==
  /\ StillUnacknowledged(r)
  /\ writingOff' = writingOff \cup {r}
  /\ UNCHANGED <<pc, status, taskId, age, upstream>>

\* MUTANT: a run with no task is skipped rather than written off.
SweepReadPollable(r) ==
  /\ status[r] = "requested" /\ taskId[r] /\ age[r] >= FilingTimeout
  /\ writingOff' = writingOff \cup {r}
  /\ UNCHANGED <<pc, status, taskId, age, upstream>>

SweepRead(r) ==
  /\ age[r] >= FilingTimeout
  /\ StillUnacknowledged(r)
  /\ writingOff' = writingOff \cup {r}
  /\ UNCHANGED <<pc, status, taskId, age, upstream>>

SweepWrite(r) ==
  /\ r \in writingOff
  /\ writingOff' = writingOff \ {r}
  /\ status' = [status EXCEPT ![r] = "failed"]
  /\ UNCHANGED <<pc, taskId, age, upstream>>

\* A report written back. An in-flight one may be older than cat-factory's
\* state, and is also what a task whose run is not built yet answers.
Poll(r) ==
  /\ taskId[r] /\ status[r] \in InFlightStatuses
  /\ \E reported \in {"running", "awaiting_selection"}
                       \cup (IF upstream[r] = "over" THEN SettledStatuses ELSE {}) :
       status' = [status EXCEPT ![r] = reported]
  /\ UNCHANGED <<pc, taskId, age, upstream, writingOff>>

\* cat-factory ends the run.
Finish(r) ==
  /\ upstream[r] = "running"
  /\ upstream' = [upstream EXCEPT ![r] = "over"]
  /\ UNCHANGED <<pc, status, taskId, age, writingOff>>

Older(r) == IF status[r] = "none" \/ age[r] >= Hour THEN age[r] ELSE age[r] + 1

\* Time passes. Under PromptFiling no request is still open when its row
\* reaches the filing timeout.
Tick ==
  /\ PromptFiling => \A r \in Requests : pc[r] \in Owning => age[r] + 1 < FilingTimeout
  /\ age' = [r \in Requests |-> Older(r)]
  /\ UNCHANGED <<pc, status, taskId, upstream, writingOff>>

-----------------------------------------------------------------------------
\* A request running to its end.
Serve(r) ==
  \/ Admit(r) \/ Refuse(r) \/ Insert(r) \/ Confirm(r) \/ GiveWay(r)
  \/ CreateTask(r) \/ StartTask(r) \/ CallRefused(r) \/ AnswerLost(r)
  \/ Record(r) \/ FailFiling(r)

Next ==
  \/ \E r \in Requests :
       Serve(r) \/ Crash(r) \/ SweepRead(r) \/ SweepWrite(r) \/ Poll(r) \/ Finish(r)
  \/ Tick

Spec == Init /\ [][Next]_vars

\* A request that has written its row ends, the clock advances and every tick
\* of it walks the rows in flight. Nothing makes anybody ask for a review, and
\* nothing makes cat-factory answer.
Fairness ==
  /\ \A r \in Requests :
       /\ WF_vars(pc[r] \in Owning /\ Serve(r))
       /\ WF_vars(SweepRead(r) /\ r \notin writingOff)
       /\ WF_vars(SweepWrite(r))
  /\ WF_vars(Tick /\ \E r \in Requests : age[r] < Older(r))

FairSpec == Spec /\ Fairness

-----------------------------------------------------------------------------
(* Properties. *)

\* The variables keep their types.
TypeOK ==
  /\ pc \in [Requests -> Owning \cup {"idle", "admitted", "ended"}]
  /\ status \in [Requests -> InFlightStatuses \cup SettledStatuses \cup {"none"}]
  /\ taskId \in [Requests -> BOOLEAN]
  /\ age \in [Requests -> 0 .. Hour]
  /\ upstream \in [Requests -> {"none", "created", "running", "over"}]
  /\ writingOff \subseteq Requests

\* A request that is calling cat-factory, or has.
Reached(r) == pc[r] \in Filing \/ upstream[r] # "none"

\* admission.ts:26-29, "at most one reaches cat-factory": of the requests that
\* got past the second read, at most one has a row in flight at any moment.
OneInFlight ==
  \A r, s \in Requests :
    Reached(r) /\ Reached(s) /\ InFlight(r) /\ InFlight(s) => r = s

\* aiAdmission.ts:15-17: no more than the limit were filed in the last hour,
\* at any moment, and not only when one of them was admitted.
FiledWithinLimit == Cardinality(FiledThisHour(Requests)) <= HourlyLimit

\* orphans.ts:29-32: a filed run is not written off. The re-read keeps the sweep
\* off one that landed meanwhile, and "even then" the request's own update
\* "lands after this one and wins".
FiledNotWrittenOff ==
  [][\A r \in Requests :
       taskId'[r] /\ status[r] \in InFlightStatuses /\ status'[r] \in SettledStatuses
         => upstream[r] = "over"]_vars

\* aiAdmission.ts:23-28: no run blocks a review for good, whatever cat-factory
\* or a dead process left of it.
NeverBlockedForGood == []<>Admissible(Requests)

\* orphans.ts:21-27: a row no request will finish does not stay `requested'.
OrphansWrittenOff ==
  \A r \in Requests : status[r] = "requested" ~> status[r] # "requested"

\* README.md:87-88, of the billed jobs rather than of the rows: one run in
\* flight per review. A job counts as long as a filed row would.
OneBilledJob ==
  \A r, s \in Requests :
    upstream[r] = "running" /\ upstream[s] = "running"
      /\ age[r] < Hour /\ age[s] < Hour => r = s
-----------------------------------------------------------------------------
(* The inductive invariant behind OneInFlight and FiledWithinLimit. *)

\* What each place of a request says of its row and of its task.
Sound(r) ==
  /\ pc[r] \in {"idle", "admitted"} =>
       /\ status[r] = "none" /\ ~taskId[r] /\ age[r] = 0
       /\ upstream[r] = "none" /\ r \notin writingOff
  /\ pc[r] \in Owning =>
       status[r] = "requested" /\ ~taskId[r] /\ age[r] < FilingTimeout /\ r \notin writingOff
  /\ pc[r] \in {"inserted", "giving_way", "confirmed"} => upstream[r] = "none"
  /\ pc[r] = "started" => upstream[r] # "none"
  /\ taskId[r] => pc[r] = "ended" /\ upstream[r] # "none" /\ r \notin writingOff

\* A request that is calling cat-factory has room left for its run.
RoomForFiling ==
  \A r \in Requests :
    pc[r] \in Filing => Cardinality(FiledThisHour(Requests)) < HourlyLimit

IInv ==
  /\ TypeOK
  /\ \A r \in Requests : Sound(r)
  /\ OneInFlight
  /\ RoomForFiling
  /\ FiledWithinLimit
=============================================================================
