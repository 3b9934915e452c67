------------------------------ MODULE RiskApproval ------------------------------
(***************************************************************************)
(* The risk assessment of one pull request, from `pending' to the approval *)
(* given on the host with nobody looking, and what takes that approval     *)
(* back: RiskAssessmentService (the row, its revision and its drivers),    *)
(* advance.ts (the next step for a scored pull request), hostApproval.ts,  *)
(* and the planApproval rule of the risk package.                          *)
(*                                                                         *)
(* The policy assesses and approves; RequireAiReview says whether it asks  *)
(* for an AI review first. What a score or a blocker says is a choice: any *)
(* scored pull request may be held. Heads only move forward.               *)
(*                                                                         *)
(* A driver is a deferred step or a clock tick with one row in hand. An    *)
(* intake is one delivery of `new commits', or one person's request for    *)
(* another assessment. Every await of either is a point where others run.  *)
(***************************************************************************)
EXTENDS Integers, FiniteSets, Sequences

CONSTANTS
  Drivers, Intakes,
  Hosts,            \* the hosts the pull request may be on: "github", "gitlab"
  RequireAiReview,  \* the policy's requireAiReview
  MaxAttempts,      \* MAX_ATTEMPTS
  PromptSteps,      \* whether a live step always ends within DRIVE_LEASE_MS
  IntakesAlone,     \* whether nothing runs between the steps of an intake
  Failures,         \* whether calls fail: refused, or taking effect and not answered
  AdvanceThrows,    \* whether the reads of advance fail, too
  MaxHeads, MaxRequests, MaxRuns, MaxApprovals, MaxCrashes  \* bounds

ASSUME AttemptsArePositive == MaxAttempts \in Nat \ {0}
ASSUME ActorsFinite == IsFiniteSet(Drivers) /\ IsFiniteSet(Intakes)
ASSUME ActorsDiffer == Drivers \cap Intakes = {}
ASSUME HostsAreKnown == Hosts \subseteq {"github", "gitlab"}
ASSUME BoundsAreNat ==
  /\ MaxHeads \in Nat \ {0}
  /\ MaxRequests \in Nat /\ MaxRuns \in Nat /\ MaxApprovals \in Nat /\ MaxCrashes \in Nat

VARIABLES
  site,       \* the host it is on
  head,       \* the pull request's head, on the host
  approvals,  \* our account's approvals that stand on the host
  given,      \* how many were given
  lost,       \* history: those that stand and that the host was not reached about,
              \* or whose driver died with them
  board,      \* the board row's status
  runs,       \* the AI reviews filed on the pull request, oldest first
  row,        \* the assessment row
  starts,     \* how often the assessment was started
  announced,  \* the head as it was at the last start
  pc,         \* where each actor is
  held,       \* the row as an actor read or wrote it last
  next,       \* the row a driver is about to write
  seen,       \* what a driver read of the host: the head, and the AI review's judgement
  wasOpen,    \* whether an intake read the board row as not approved
  requests, crashes

host == <<site, head, approvals, given, lost>>
store == <<board, runs, row, starts, announced>>
actors == <<pc, held, next, seen, wasOpen>>
vars == <<host, store, actors, requests, crashes>>

Actors == Drivers \cup Intakes
InFlight == {"pending", "awaiting_ai_review"}
Held == {"within_policy", "requires_review"}
NoApproval == 0     \* null: no approval, or one the host gives no id
NoRun == 0

\* GitHub gives an approval an id, GitLab keeps one per account.
Names == site = "github"

\* `files' is the head the files that were scored belong to; `start' stands for
\* requestedAt, which orders a row against the runs filed.
FreshRow(rev, n) ==
  [status |-> "pending", head |-> 0, files |-> 0, run |-> NoRun,
   approval |-> NoApproval, attempts |-> 0, start |-> n, revision |-> rev]

\* A driver that has read nothing of the host yet.
NotSeen == [head |-> 0, review |-> "none"]

Init ==
  /\ site \in Hosts
  /\ head = 1 /\ approvals = {} /\ given = 0 /\ lost = {}
  /\ board = "open" /\ runs = <<>>
  /\ row = FreshRow(1, 1) /\ starts = 1 /\ announced = 1
  /\ pc = [a \in Actors |-> "idle"]
  /\ held = [a \in Actors |-> FreshRow(1, 1)] /\ next = [d \in Drivers |-> FreshRow(1, 1)]
  /\ seen = [d \in Drivers |-> NotSeen]
  /\ wasOpen = [i \in Intakes |-> TRUE]
  /\ requests = 0 /\ crashes = 0

Goto(a, from, to) == pc[a] = from /\ pc' = [pc EXCEPT ![a] = to]

\* A driver that is through, or dead: what it read goes with it.
Leave(d) ==
  /\ pc' = [pc EXCEPT ![d] = "idle"]
  /\ held' = [held EXCEPT ![d] = FreshRow(1, 1)]
  /\ next' = [next EXCEPT ![d] = FreshRow(1, 1)]
  /\ seen' = [seen EXCEPT ![d] = NotSeen]

\* ids.next(), for a revision: one nobody holds.
NewRevision ==
  CHOOSE n \in 1 .. Cardinality(Actors) + 2 :
    n # row.revision /\ \A a \in Actors : pc[a] # "idle" => held[a].revision # n

-----------------------------------------------------------------------------
(* What a driver does to the row. *)

\* Another driver that is at work on the row as it stands.
Driven(d) == \E e \in Drivers \ {d} : pc[e] # "idle" /\ held[e].revision = row.revision

Busy(i) == pc[i] \notin {"idle", "delivered"}
Alone == IntakesAlone => \A i \in Intakes : ~Busy(i)

\* drive, and sweepInFlight past the lease: the row is read, to be claimed.
Drive(d) ==
  /\ row.status \in InFlight
  /\ PromptSteps => ~Driven(d)
  /\ Goto(d, "idle", "claiming")
  /\ held' = [held EXCEPT ![d] = row]
  /\ next' = [next EXCEPT ![d] = row]
  /\ seen' = [seen EXCEPT ![d] = NotSeen]
  /\ UNCHANGED <<host, store, wasOpen, requests, crashes>>

\* Where a driver goes once its write landed, and where once it was refused.
AfterSave(d) ==
  CASE pc[d] = "claiming" -> IF next[d].status = "pending" THEN "reading" ELSE "judging"
    [] pc[d] = "scored" -> "advancing"
    [] pc[d] = "saving" -> IF next[d].status = "approved" THEN "settling" ELSE "idle"

Landed(d) ==
  IF AfterSave(d) = "idle" THEN Leave(d)
  ELSE /\ pc' = [pc EXCEPT ![d] = AfterSave(d)]
       /\ held' = [held EXCEPT ![d] = row']
       /\ UNCHANGED <<next, seen>>

Refused(d) ==
  IF pc[d] = "saving" /\ next[d].status = "approved"
    THEN pc' = [pc EXCEPT ![d] = "retracting"] /\ UNCHANGED <<held, next, seen>>
    ELSE Leave(d)

\* MUTANT: a plain write.
SaveAnyway(d) ==
  /\ pc[d] \in {"claiming", "scored", "saving"}
  /\ row' = [next[d] EXCEPT !.revision = NewRevision]
  /\ Landed(d)
  /\ UNCHANGED <<host, board, runs, starts, announced, wasOpen, requests, crashes>>

\* save: a check and set on the revision the row was read at.
Save(d) ==
  /\ pc[d] \in {"claiming", "scored", "saving"}
  /\ IF row.revision = held[d].revision
       THEN row' = [next[d] EXCEPT !.revision = NewRevision] /\ Landed(d)
       ELSE Refused(d) /\ UNCHANGED row
  /\ UNCHANGED <<host, board, runs, starts, announced, wasOpen, requests, crashes>>

\* A row to be written, from wherever the driver is.
Write(d, from, to, r) ==
  /\ Goto(d, from, to)
  /\ next' = [next EXCEPT ![d] = r]
  /\ UNCHANGED <<host, store, held, wasOpen, requests, crashes>>

\* pullRequestStatus: open, or closed before it was assessed.
ReadPull(d) ==
  \/ /\ Goto(d, "reading", "scoring")
     /\ seen' = [seen EXCEPT ![d].head = head]
     /\ UNCHANGED <<host, store, held, next, wasOpen, requests, crashes>>
  \/ /\ Failures
     /\ Write(d, "reading", "saving", [held[d] EXCEPT !.status = "failed"])
     /\ UNCHANGED seen

\* MUTANT: a scored row has a status of its own.
ScoreStatus(d) ==
  /\ \E scored \in {seen[d].head, head} :
       Write(d, "scoring", "scored",
             [held[d] EXCEPT !.head = scored, !.files = head, !.status = "scored"])
  /\ UNCHANGED seen

\* scorePullRequest. The heuristic keeps the head that was read and reads the
\* files there are now; cat-factory answers both itself.
Score(d) ==
  /\ \E scored \in {seen[d].head, head} :
       Write(d, "scoring", "scored",
             [held[d] EXCEPT !.head = scored, !.files = head, !.run = NoRun,
                             !.attempts = IF @ < MaxAttempts THEN @ + 1 ELSE @])
  /\ UNCHANGED seen

\* judgeAiReview, and the pull request read again if the review has settled.
Judge(d) ==
  \/ /\ pc[d] = "judging" /\ Leave(d)
     /\ runs[held[d].run].status = "working"
     /\ UNCHANGED <<host, store, wasOpen, requests, crashes>>
  \/ /\ Goto(d, "judging", "advancing")
     /\ runs[held[d].run].status # "working"
     /\ seen' = [seen EXCEPT ![d] = [head |-> head, review |-> runs[held[d].run].status]]
     /\ UNCHANGED <<host, store, held, next, wasOpen, requests, crashes>>

\* A step past its score: it holds a revision newer than the one it claimed.
Scored(d) == pc[d] = "advancing" /\ seen[d].review = "none"

\* MUTANT: tried for ever.
StepFailsForever(d) ==
  /\ Failures
  /\ pc[d] \in {"reading", "scoring", "judging"}
  /\ Write(d, pc[d], "saving", held[d])
  /\ UNCHANGED seen

\* A step that throws: recorded, and given up on at the last attempt. The write
\* goes against the revision the step claimed, so behind a score it is refused.
StepFails(d) ==
  /\ Failures
  /\ \/ pc[d] \in {"reading", "scoring", "judging"}
     \/ AdvanceThrows /\ pc[d] = "advancing" /\ ~Scored(d)
  /\ LET tried == held[d].attempts + 1 IN
       Write(d, pc[d], "saving",
             IF tried >= MaxAttempts
               THEN [held[d] EXCEPT !.status = "failed", !.attempts = MaxAttempts]
               ELSE [held[d] EXCEPT !.attempts = tried])
  /\ UNCHANGED seen

StepFailsScored(d) ==
  /\ Failures /\ AdvanceThrows
  /\ Scored(d) /\ Leave(d)
  /\ UNCHANGED <<host, store, wasOpen, requests, crashes>>

-----------------------------------------------------------------------------
(* advance: the next step for a pull request that has a verdict. *)

SameHead(d) == seen[d].head = held[d].head

\* Over the policy, or blocked, or an AI review that does not vouch for it.
Hold(d) ==
  /\ \E status \in Held : Write(d, "advancing", "saving", [held[d] EXCEPT !.status = status])
  /\ UNCHANGED seen

Reassess(d) ==
  /\ ~SameHead(d)
  /\ Write(d, "advancing", "saving", [held[d] EXCEPT !.status = "pending"])
  /\ UNCHANGED seen

\* adoptableRun: the newest of those filed since the assessment was requested.
Adoptable(d) ==
  {k \in DOMAIN runs : runs[k].start >= held[d].start /\ runs[k].status # "failed"}

Awaiting(d, k) == [held[d] EXCEPT !.status = "awaiting_ai_review", !.run = k]

AdoptRun(d) ==
  /\ RequireAiReview /\ SameHead(d) /\ seen[d].review = "none"
  /\ \E k \in Adoptable(d) :
       /\ \A l \in Adoptable(d) : l <= k
       /\ Write(d, "advancing", "saving", Awaiting(d, k))
  /\ UNCHANGED seen

\* None to adopt, so one is requested. One that is refused holds the row: Hold.
RequestRun(d) ==
  /\ RequireAiReview /\ SameHead(d) /\ seen[d].review = "none"
  /\ Adoptable(d) = {} /\ Len(runs) < MaxRuns
  /\ Goto(d, "advancing", "saving")
  /\ runs' = Append(runs, [head |-> head, start |-> starts, status |-> "working"])
  /\ next' = [next EXCEPT ![d] = Awaiting(d, Len(runs) + 1)]
  /\ UNCHANGED <<host, board, row, starts, announced, held, seen, wasOpen, requests, crashes>>

\* MUTANT: the head is not compared with the one that was assessed.
ApproveAnyHead(d) ==
  /\ RequireAiReview => seen[d].review = "clean"
  /\ Goto(d, "advancing", "posting")
  /\ UNCHANGED <<host, store, held, next, seen, wasOpen, requests, crashes>>

\* planApproval says approve, and the host's head is compared once more.
Approve(d) ==
  /\ SameHead(d)
  /\ RequireAiReview => seen[d].review = "clean"
  /\ head = held[d].head
  /\ Goto(d, "advancing", "posting")
  /\ UNCHANGED <<host, store, held, next, seen, wasOpen, requests, crashes>>

\* A ConflictError: GitHub's head is compared before the call, GitLab's in it.
Moved(d) ==
  /\ head # held[d].head
  /\ \/ /\ pc[d] = "advancing" /\ SameHead(d)
        /\ RequireAiReview => seen[d].review = "clean"
     \/ ~Names /\ pc[d] = "posting"
  /\ Write(d, pc[d], "saving", [held[d] EXCEPT !.status = "pending"])
  /\ UNCHANGED seen

NewApproval(d) ==
  [id |-> IF Names THEN given + 1 ELSE NoApproval, head |-> held[d].head,
   files |-> held[d].files,
   reviewed |-> IF held[d].run = NoRun THEN 0 ELSE runs[held[d].run].head]

\* The approval lands, pinned to the head that was assessed. The answer may be
\* lost, which reads as a refusal.
Post(d) ==
  /\ given < MaxApprovals
  /\ Names \/ head = held[d].head
  /\ Goto(d, "posting", "saving")
  /\ given' = given + 1
  /\ approvals' = (IF Names THEN approvals ELSE {}) \cup {NewApproval(d)}
  /\ \E answered \in (IF Failures THEN BOOLEAN ELSE {TRUE}) :
       /\ next' = [next EXCEPT ![d] =
            IF answered THEN [held[d] EXCEPT !.status = "approved", !.approval = NewApproval(d).id]
                        ELSE [held[d] EXCEPT !.status = "within_policy"]]
       /\ lost' = (lost \cap approvals') \cup (IF answered THEN {} ELSE {NewApproval(d)})
  /\ UNCHANGED <<site, head, store, held, seen, wasOpen, requests, crashes>>

PostRefused(d) ==
  /\ Failures
  /\ Write(d, "posting", "saving", [held[d] EXCEPT !.status = "within_policy"])
  /\ UNCHANGED seen

\* settleApproval: the board row marked, best effort.
Settle(d) ==
  /\ pc[d] = "settling" /\ Leave(d)
  /\ \E marked \in (IF Failures THEN BOOLEAN ELSE {TRUE}) :
       board' = IF marked THEN "approved" ELSE board
  /\ UNCHANGED <<host, runs, row, starts, announced, wasOpen, requests, crashes>>

\* MUTANT: the refused write is left at that.
RetractNever(d) ==
  /\ pc[d] = "retracting" /\ Leave(d)
  /\ UNCHANGED <<host, store, wasOpen, requests, crashes>>

\* retract: the row is read, and an approval somebody else recorded at the same
\* head is left alone.
Retract(d) ==
  /\ IF row.status = "approved" /\ row.head = held[d].head
       THEN pc[d] = "retracting" /\ Leave(d)
       ELSE Goto(d, "retracting", "taking_back") /\ UNCHANGED <<held, next, seen>>
  /\ UNCHANGED <<host, store, wasOpen, requests, crashes>>

\* MUTANT: the id is not looked at.
WithdrawnAll(id) == {}

\* withdrawApproval: by id, or the account's one approval. Best effort.
Withdrawn(id) ==
  IF Names THEN {a \in approvals : a.id # id} ELSE {}

Withdraw(id) ==
  /\ \/ approvals' = Withdrawn(id) /\ lost' = lost \cap approvals'
     \/ /\ Failures
        /\ lost' = lost \cup (approvals \ Withdrawn(id))
        /\ UNCHANGED approvals
  /\ UNCHANGED <<site, head, given>>

TakeBack(d) ==
  /\ pc[d] = "taking_back" /\ Leave(d)
  /\ Withdraw(next[d].approval)
  /\ UNCHANGED <<store, wasOpen, requests, crashes>>

\* A driver dies between two of its steps, with all it knew of them: of an
\* approval it has posted, too, that no row records.
Unrecorded(d) ==
  IF pc[d] \in {"saving", "retracting", "taking_back"} /\ next[d].status = "approved"
    THEN {a \in approvals : a.id = next[d].approval /\ a.head = next[d].head} ELSE {}

Crash(d) ==
  /\ crashes < MaxCrashes
  /\ crashes' = crashes + 1
  /\ pc[d] # "idle" /\ Leave(d)
  /\ lost' = lost \cup Unrecorded(d)
  /\ UNCHANGED <<site, head, approvals, given, store, wasOpen, requests>>

-----------------------------------------------------------------------------
(* An intake. *)

\* onNewCommits is handed the review as it was read.
ReadReview(i) ==
  /\ Goto(i, "delivered", "received")
  /\ wasOpen' = [wasOpen EXCEPT ![i] = (board # "approved")]
  /\ UNCHANGED <<host, store, held, next, seen, requests, crashes>>

ReadHeld(i) ==
  /\ Goto(i, "received", IF row.status = "approved" THEN "withdrawing" ELSE "starting")
  /\ held' = [held EXCEPT ![i] = row]
  /\ UNCHANGED <<host, store, next, seen, wasOpen, requests, crashes>>

WithdrawHeld(i) ==
  /\ Goto(i, "withdrawing", "reopening")
  /\ Withdraw(held[i].approval)
  /\ UNCHANGED <<store, held, next, seen, wasOpen, requests, crashes>>

\* The board row back on the clock, if it was read as approved.
Reopen(i) ==
  /\ Goto(i, "reopening", "recording")
  /\ board' = IF wasOpen[i] THEN board ELSE "open"
  /\ UNCHANGED <<host, runs, row, starts, announced, held, next, seen, wasOpen, requests, crashes>>

RecordWithdrawal(i) ==
  /\ Goto(i, "recording", "starting")
  /\ row' = IF row.revision = held[i].revision
              THEN [held[i] EXCEPT !.status = "requires_review", !.approval = NoApproval,
                                   !.revision = NewRevision]
              ELSE row
  /\ UNCHANGED <<host, board, runs, starts, announced, held, next, seen, wasOpen, requests, crashes>>

\* start: the row put, whatever it is by now.
Start(i) ==
  /\ Goto(i, "starting", "idle")
  /\ row' = FreshRow(NewRevision, starts + 1)
  /\ starts' = starts + 1
  /\ announced' = head
  /\ UNCHANGED <<host, board, runs, held, next, seen, wasOpen, requests, crashes>>

\* request: a person asks for another assessment.
Request(i) ==
  /\ requests < MaxRequests
  /\ requests' = requests + 1
  /\ row.status \notin InFlight
  /\ Goto(i, "idle", "starting")
  /\ UNCHANGED <<host, store, held, next, seen, wasOpen, crashes>>

-----------------------------------------------------------------------------
(* The pull request's author, and cat-factory. *)

\* A push, and the delivery it sets off.
Push ==
  /\ head < MaxHeads
  /\ head' = head + 1
  /\ \E i \in Intakes : Goto(i, "idle", "delivered")
  /\ UNCHANGED <<site, approvals, given, lost, store, held, next, seen, wasOpen, requests, crashes>>

\* An AI review asked for by a person or filed as the pull request became ready.
FileRun ==
  /\ Len(runs) < MaxRuns
  /\ runs' = Append(runs, [head |-> head, start |-> starts, status |-> "working"])
  /\ UNCHANGED <<host, board, row, starts, announced, actors, requests, crashes>>

FinishRun ==
  /\ \E k \in DOMAIN runs :
       /\ runs[k].status = "working"
       /\ \E status \in {"clean", "blocked", "failed"} :
            runs' = [runs EXCEPT ![k].status = status]
  /\ UNCHANGED <<host, board, row, starts, announced, actors, requests, crashes>>

-----------------------------------------------------------------------------
Step(d) ==
  \/ Save(d) \/ ReadPull(d) \/ Score(d) \/ Judge(d)
  \/ StepFails(d) \/ StepFailsScored(d)
  \/ Hold(d) \/ Reassess(d) \/ AdoptRun(d) \/ RequestRun(d) \/ Approve(d) \/ Moved(d)
  \/ Post(d) \/ PostRefused(d) \/ Settle(d) \/ Retract(d) \/ TakeBack(d)

Take(i) ==
  /\ IntakesAlone => \A j \in Intakes \ {i} : ~Busy(j)
  /\ \/ ReadReview(i) \/ ReadHeld(i) \/ WithdrawHeld(i) \/ Reopen(i)
     \/ RecordWithdrawal(i) \/ Start(i)

Next ==
  \/ \E i \in Intakes : Take(i) \/ (Alone /\ Request(i))
  \/ \E d \in Drivers : Alone /\ (Drive(d) \/ Step(d) \/ Crash(d))
  \/ Alone /\ (Push \/ FileRun \/ FinishRun)

Spec == Init /\ [][Next]_vars

\* A row in flight is driven, by its deferred step or by the clock; a step and
\* an intake that are alive end; a filed AI review ends. Nobody has to push.
Fairness ==
  /\ \A d \in Drivers : WF_vars(Alone /\ Step(d)) /\ WF_vars(Alone /\ Drive(d))
  /\ \A i \in Intakes : WF_vars(Take(i))
  /\ WF_vars(Alone /\ FinishRun)

FairSpec == Spec /\ Fairness

-----------------------------------------------------------------------------
(* Properties. *)

Rows ==
  [status : InFlight \cup Held \cup {"approved", "failed"}, head : 0 .. MaxHeads,
   files : 0 .. MaxHeads, run : Nat, approval : Nat, attempts : 0 .. MaxAttempts,
   start : Nat, revision : Nat]

DriverPlaces ==
  {"idle", "claiming", "reading", "scoring", "scored", "judging", "advancing", "posting",
   "saving", "settling", "retracting", "taking_back"}

IntakePlaces ==
  {"idle", "delivered", "received", "withdrawing", "reopening", "recording", "starting"}

\* The variables keep their types.
TypeOK ==
  /\ site \in Hosts
  /\ head \in 1 .. MaxHeads /\ given \in 0 .. MaxApprovals
  /\ approvals \subseteq [id : Nat, head : 1 .. MaxHeads, files : 1 .. MaxHeads, reviewed : 0 .. MaxHeads]
  /\ lost \subseteq approvals
  /\ board \in {"open", "approved"}
  /\ runs \in Seq([head : 1 .. MaxHeads, start : Nat,
                  status : {"working", "clean", "blocked", "failed"}])
  /\ row \in Rows /\ starts \in Nat /\ announced \in 1 .. MaxHeads
  /\ pc \in [Actors -> DriverPlaces \cup IntakePlaces]
  /\ held \in [Actors -> Rows] /\ next \in [Drivers -> Rows]
  /\ seen \in [Drivers -> [head : 0 .. MaxHeads,
                           review : {"none", "clean", "blocked", "failed"}]]
  /\ wasOpen \in [Intakes -> BOOLEAN]
  /\ requests \in 0 .. MaxRequests /\ crashes \in 0 .. MaxCrashes

\* approval.ts:57-59 of the GitHub adapter, "approving code nobody assessed is the
\* one outcome this must never have": an approval is pinned to the very head
\* whose files were scored, though the two are read at different times.
ApprovedAsAssessed == \A a \in approvals : a.files = a.head

\* RiskAssessmentService.ts:60-63: a step whose row was restarted under it writes
\* nothing, so a verdict on the row is never about a head older than the last
\* start knew.
VerdictNotStale == row.head # 0 => row.head >= announced

Quiet == \A a \in Actors : pc[a] = "idle"

\* docs/risk-policy.md:139-144 and 158-162: once everybody is done, no approval
\* of an older head stands, whether its row was approved when the new commits
\* arrived, in flight, or approving: none but those the host was not reached
\* about, and those whose driver died before it wrote the row.
OldHeadWithdrawn == Quiet => \A a \in approvals \ lost : a.head = head

\* RiskAssessmentService.ts:274-278: taking an approval back leaves alone the one
\* a row that says `approved' is about, where the host tells approvals apart.
RecordedApprovalStands ==
  Names /\ Quiet /\ row.status = "approved" =>
    \E a \in approvals : a.id = row.approval /\ a.head = row.head

\* docs/risk-policy.md:155-156: an assessment does not stay in flight, unless
\* steps go on failing behind their score, which counts for nothing.
Settles ==
  \/ []<><<\E d \in Drivers : StepFailsScored(d)>>_vars
  \/ row.status \in InFlight ~> row.status \notin InFlight

\* README.md:139-141, "only after an AI review that vouches for it": of the head
\* that is approved.
ReviewedAsApproved == RequireAiReview => \A a \in approvals : a.reviewed = a.head

\* RiskAssessmentService.ts:110-114: the review goes back on the clock, and stays
\* there until the new head is approved.
BoardBackOnClock == Quiet /\ row.status # "approved" => board = "open"
=============================================================================
