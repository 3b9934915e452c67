------------------------------ MODULE ReviewBoard ------------------------------
(***************************************************************************)
(* Who is on the hook for a review, kept in three places: the review's row *)
(* and its reviewers' load (ReviewService), the commitments people made    *)
(* for the same pull request (AttentionService's promise, commit and       *)
(* release), and the review requests the host holds                        *)
(* (integrations/reviewRequests.ts).                                       *)
(*                                                                         *)
(* Every statement and every call to the host is a step of its own, and a  *)
(* handler works on the review as it read it. The selection is any         *)
(* reviewer not excluded, or nobody; everybody has an account on the host. *)
(* The re-plan every write ends in is ReminderLadder's.                    *)
(*                                                                         *)
(* Nothing in the code keeps the gestures on one review apart, or anybody  *)
(* off one that has its verdict. Two histories record where that happened, *)
(* for the properties to say what is left: `crossed' the reviews whose     *)
(* gestures overlapped, `drifted' the people on a row that was written out *)
(* of step with its load.                                                  *)
(***************************************************************************)
EXTENDS Integers, FiniteSets

CONSTANTS
  Reviews,          \* the tracked reviews
  Reviewers,        \* the directory's reviewers
  Handlers,         \* requests, deliveries and clicks being handled
  MaxGestures,      \* bound: how many of them there are
  MaxHostFailures   \* bound: how many calls to the host fail

ASSUME BoundsAreNat == MaxGestures \in Nat /\ MaxHostFailures \in Nat
ASSUME BoardIsFinite == IsFiniteSet(Reviews) /\ IsFiniteSet(Handlers)

\* `in_review' goes the way of `assigned', and `changes_requested' of
\* `approved': nothing here tells them apart.
Statuses == {"open", "assigned", "approved", "closed"}
IsTerminal(status) == status \in {"approved", "closed"}

VARIABLES
  review,      \* each review's status and who is assigned
  load,        \* each reviewer's outstandingReviews
  commitment,  \* a person's promise on a review: its row's id and whether it
               \* holds a request on the host
  pending,     \* whom the host is waiting on, for each review
  handler,     \* what each handler is doing, and what it read
  gestures,    \* how many gestures began
  failures,    \* how many calls to the host failed
  unasked,     \* history: the requests the host was not reached for
  leftOver,    \* history: the withdrawals it was not reached for
  crossed,     \* history: the reviews whose gestures overlapped
  drifted      \* history: those whose load a write out of step may put off

history == <<failures, unasked, leftOver>>
races == <<crossed, drifted>>
rows == <<review, load, commitment>>
vars == <<rows, pending, handler, gestures, history, races>>

NoCommitment == [id |-> 0, requested |-> FALSE]
Idle ==
  [at |-> "idle", on |-> {}, read |-> [status |-> "open", assigned |-> {}],
   next |-> "open", assign |-> {}, release |-> {}, moves |-> {}, row |-> NoCommitment]

Init ==
  /\ review = [v \in Reviews |-> [status |-> "open", assigned |-> {}]]
  /\ load = [r \in Reviewers |-> 0]
  /\ commitment = [v \in Reviews |-> [r \in Reviewers |-> NoCommitment]]
  /\ pending = [v \in Reviews |-> {}]
  /\ handler = [h \in Handlers |-> Idle]
  /\ gestures = 0 /\ failures = 0 /\ unasked = {} /\ leftOver = {}
  /\ crossed = {} /\ drifted = {}

Busy(v) == \E h \in Handlers : v \in handler[h].on
Now(h, change) == handler' = [handler EXCEPT ![h] = change]
Done(h) == Now(h, Idle)
At(h, place) == handler[h].at = place

\* A gesture on v finds another under way, or not.
Cross(v) ==
  /\ crossed' = IF Busy(v) THEN crossed \cup {v} ELSE crossed
  /\ UNCHANGED drifted

\* A handler takes up a gesture on review v, and reads its row.
Begin(h, v, gesture) ==
  /\ At(h, "idle")
  /\ gestures < MaxGestures
  /\ gestures' = gestures + 1
  /\ Now(h, [gesture EXCEPT !.on = {v}, !.read = review[v]])
  /\ Cross(v)
  /\ UNCHANGED <<rows, pending, history>>

-----------------------------------------------------------------------------
(* The load. *)

\* MUTANT: moved on every write of a terminal status.
MovesOnWrite(read, next) ==
  {<<r, IF IsTerminal(next) THEN -1 ELSE 1>> : r \in read.assigned}

\* moveOutstanding: on the transition between the status that was READ and
\* the one written.
MovesOnTransition(read, next) ==
  IF IsTerminal(read.status) = IsTerminal(next) THEN {}
  ELSE {<<r, IF IsTerminal(read.status) THEN 1 ELSE -1>> : r \in read.assigned}

\* adjustOutstanding: one statement, and never below zero.
AdjustOutstanding(h) ==
  /\ At(h, "moving")
  /\ \E move \in handler[h].moves :
       /\ load' = [load EXCEPT ![move[1]] = IF @ + move[2] < 0 THEN 0 ELSE @ + move[2]]
       /\ Now(h, [handler[h] EXCEPT !.moves = @ \ {move}])
  /\ UNCHANGED <<review, commitment, pending, gestures, history, races>>

\* A row is written out of step with its load: over another than was read,
\* ahead of the load an earlier write moves, or to put somebody on a review
\* that has its verdict.
OutOfStep(h, v) ==
  \/ handler[h].read # review[v]
  \/ \E g \in Handlers \ {h} : v \in handler[g].on /\ handler[g].moves # {}
  \/ At(h, "recording") /\ IsTerminal(handler[h].read.status)

Drift(h) ==
  /\ \E v \in handler[h].on :
       drifted' = IF OutOfStep(h, v)
                    THEN drifted \cup review[v].assigned \cup review'[v].assigned
                           \cup {move[1] : move \in handler'[h].moves}
                    ELSE drifted
  /\ UNCHANGED crossed

-----------------------------------------------------------------------------
(* A status written from the board, a webhook or an assessment. *)

UpdateStatus(h, v) ==
  \E next \in Statuses : Begin(h, v, [Idle EXCEPT !.at = "updating", !.next = next])

WriteStatus(h) ==
  /\ At(h, "updating")
  /\ \E v \in handler[h].on :
       review' = [review EXCEPT ![v].status = handler[h].next]
  /\ Now(h, [handler[h] EXCEPT
               !.at = "moving",
               !.moves = MovesOnTransition(handler[h].read, handler[h].next)])
  /\ Drift(h)
  /\ UNCHANGED <<load, commitment, pending, gestures, history>>

-----------------------------------------------------------------------------
(* Reviewers put on a review and taken off it. *)

Assigning(assign, release) ==
  [Idle EXCEPT !.at = "recording", !.assign = assign, !.release = release]

\* claim: one named person, unless they already hold it.
Claim(h, v, r) ==
  /\ r \notin review[v].assigned
  /\ Begin(h, v, Assigning({r}, {}))

\* handOver without a release: whoever holds it is not picked again.
Assign(h, v) ==
  /\ \E selected \in (SUBSET (Reviewers \ review[v].assigned)) \ {{}} :
       Begin(h, v, Assigning(selected, {}))

\* reroll: the holders come off as one other person goes on, and keep it when
\* there is nobody.
Reroll(h, v) ==
  /\ review[v].assigned # {}
  /\ \E r \in Reviewers \ review[v].assigned :
       Begin(h, v, Assigning({r}, review[v].assigned))

\* recordAssignment: the row written whole from the review that was read, then
\* the load of those released and of those assigned.
RecordAssignment(h) ==
  /\ At(h, "recording")
  /\ LET me == handler[h]
         released == me.read.assigned \cap me.release
     IN /\ \E v \in me.on :
             review' = [review EXCEPT ![v] =
               [status |-> IF me.read.status = "open" THEN "assigned" ELSE me.read.status,
                assigned |-> (me.read.assigned \ released) \cup me.assign]]
        /\ Now(h, [me EXCEPT
                     !.at = "moving",
                     !.moves = {<<r, -1>> : r \in released} \cup {<<r, 1>> : r \in me.assign}])
  /\ Drift(h)
  /\ UNCHANGED <<load, commitment, pending, gestures, history>>

\* The load moved: a status is done, an assignment goes on to the host.
Moved(h) ==
  /\ At(h, "moving") /\ handler[h].moves = {}
  /\ IF handler[h].assign = {}
       THEN Done(h)
       ELSE Now(h, [handler[h] EXCEPT
                      !.at = IF handler[h].release = {} THEN "requesting" ELSE "withdrawals"])
  /\ UNCHANGED <<rows, pending, gestures, history, races>>

\* MUTANT: a release withdraws the request whoever else relies on it.
WithdrawAll(h) ==
  /\ At(h, "withdrawals")
  /\ Now(h, [handler[h] EXCEPT !.at = "withdrawing"])
  /\ UNCHANGED <<rows, pending, gestures, history, races>>

\* MUTANT: a commitment keeps the request, and does not take it over.
SpareCommitted(h) ==
  /\ At(h, "withdrawals")
  /\ \E v \in handler[h].on :
       Now(h, [handler[h] EXCEPT !.at = "withdrawing",
                                 !.release = {r \in @ : commitment[v][r] = NoCommitment}])
  /\ UNCHANGED <<rows, pending, gestures, history, races>>

\* boardWithdrawals: somebody released who also committed keeps the request,
\* and their commitment takes it over.
BoardWithdrawals(h) ==
  /\ At(h, "withdrawals")
  /\ \E v \in handler[h].on :
       LET committed == {r \in handler[h].release : commitment[v][r] # NoCommitment}
       IN /\ commitment' = [commitment EXCEPT ![v] =
               [r \in Reviewers |-> IF r \in committed
                                      THEN [@[r] EXCEPT !.requested = TRUE] ELSE @[r]]]
          /\ Now(h, [handler[h] EXCEPT !.at = "withdrawing", !.release = @ \ committed])
  /\ UNCHANGED <<review, load, pending, gestures, history, races>>

\* mirrorAssignment: the withdrawal first; a failure of it ends the mirroring.
MirrorWithdraw(h) ==
  /\ At(h, "withdrawing")
  /\ \E v \in handler[h].on :
       LET withdraw == handler[h].release \ handler[h].assign
       IN /\ pending' = [pending EXCEPT ![v] = @ \ withdraw]
          /\ leftOver' = leftOver \ ({v} \X withdraw)
  /\ Now(h, [handler[h] EXCEPT !.at = "requesting"])
  /\ UNCHANGED <<rows, gestures, failures, unasked, races>>

MirrorRequest(h) ==
  /\ At(h, "requesting")
  /\ \E v \in handler[h].on :
       /\ pending' = [pending EXCEPT ![v] = @ \cup handler[h].assign]
       /\ unasked' = unasked \ ({v} \X handler[h].assign)
  /\ Done(h)
  /\ UNCHANGED <<rows, gestures, failures, leftOver, races>>

-----------------------------------------------------------------------------
(* Commitments. *)

\* recordCommitment: the unique key decides which click wrote the row. It is
\* written before the host is asked who it waits on.
Commit(h, v, r) ==
  /\ commitment[v][r] = NoCommitment
  /\ At(h, "idle") /\ gestures < MaxGestures
  /\ gestures' = gestures + 1
  /\ LET made == [id |-> gestures', requested |-> FALSE]
     IN /\ commitment' = [commitment EXCEPT ![v][r] = made]
        /\ Now(h, [Idle EXCEPT !.at = "asking", !.on = {v}, !.assign = {r}, !.row = made])
  /\ Cross(v)
  /\ UNCHANGED <<review, load, pending, history>>

\* pendingReviewers: a host already waiting on them is not asked again.
Asked(h) ==
  /\ At(h, "asking")
  /\ \E v \in handler[h].on :
       IF handler[h].assign \subseteq pending[v]
         THEN Done(h)
         ELSE Now(h, [handler[h] EXCEPT !.at = "claiming"])
  /\ UNCHANGED <<rows, pending, gestures, history, races>>

\* setRequestedHandle: an update, so a row released since stays gone.
SetRequested(h, v, requested) ==
  commitment' = [commitment EXCEPT ![v] =
    [r \in Reviewers |-> IF r \in handler[h].assign /\ @[r].id = handler[h].row.id
                           THEN [@[r] EXCEPT !.requested = requested] ELSE @[r]]]

StillMade(h, v) == \E r \in handler[h].assign : commitment[v][r].id = handler[h].row.id

\* The request is claimed before it goes out, if the row is still there.
ClaimRequest(h) ==
  /\ At(h, "claiming")
  /\ \E v \in handler[h].on :
       /\ SetRequested(h, v, TRUE)
       /\ IF StillMade(h, v) THEN Now(h, [handler[h] EXCEPT !.at = "requesting"]) ELSE Done(h)
  /\ UNCHANGED <<review, load, pending, gestures, history, races>>

\* A request that did not land is dropped from the row.
DropClaim(h) ==
  /\ At(h, "dropping")
  /\ \E v \in handler[h].on : SetRequested(h, v, FALSE)
  /\ Done(h)
  /\ UNCHANGED <<review, load, pending, gestures, history, races>>

\* release: the commitment read, to see whose it is ...
Release(h, v, r) ==
  /\ commitment[v][r] # NoCommitment
  /\ Begin(h, v, [Idle EXCEPT !.at = "releasing", !.release = {r}, !.row = commitment[v][r]])

\* ... deleted by its id ...
Delete(h) ==
  /\ At(h, "releasing")
  /\ \E v \in handler[h].on :
       commitment' = [commitment EXCEPT ![v] =
         [r \in Reviewers |-> IF r \in handler[h].release /\ @[r].id = handler[h].row.id
                                THEN NoCommitment ELSE @[r]]]
  /\ IF handler[h].row.requested
       THEN Now(h, [handler[h] EXCEPT !.at = "checking"])
       ELSE Done(h)
  /\ UNCHANGED <<review, load, pending, gestures, history, races>>

\* ... and its request kept by a board assignment that names the same person.
CheckBoard(h) ==
  /\ At(h, "checking")
  /\ \E v \in handler[h].on :
       IF ~IsTerminal(review[v].status) /\ handler[h].release \subseteq review[v].assigned
         THEN Done(h)
         ELSE Now(h, [handler[h] EXCEPT !.at = "taking back"])
  /\ UNCHANGED <<rows, pending, gestures, history, races>>

\* Taken back from the host, if it is still waiting.
TakeBack(h) ==
  /\ At(h, "taking back")
  /\ \E v \in handler[h].on :
       /\ pending' = [pending EXCEPT ![v] = @ \ handler[h].release]
       /\ leftOver' = leftOver \ ({v} \X handler[h].release)
  /\ Done(h)
  /\ UNCHANGED <<rows, gestures, failures, unasked, races>>

-----------------------------------------------------------------------------
\* onHost: a call that fails is logged, and what the caller gives up is its
\* request, its withdrawal or both.
HostFails(h) ==
  /\ failures < MaxHostFailures
  /\ failures' = failures + 1
  /\ At(h, "withdrawing") \/ At(h, "requesting") \/ At(h, "asking") \/ At(h, "taking back")
  /\ IF At(h, "requesting") /\ handler[h].row # NoCommitment
       THEN Now(h, [handler[h] EXCEPT !.at = "dropping"])
       ELSE Done(h)
  /\ unasked' = unasked \cup handler[h].on \X handler[h].assign
  /\ leftOver' = IF At(h, "requesting") THEN leftOver
                 ELSE leftOver \cup handler[h].on \X handler[h].release
  /\ UNCHANGED <<rows, pending, gestures, races>>

Next ==
  \E h \in Handlers :
    \/ \E v \in Reviews : UpdateStatus(h, v) \/ Assign(h, v) \/ Reroll(h, v)
    \/ \E v \in Reviews, r \in Reviewers : Claim(h, v, r) \/ Commit(h, v, r) \/ Release(h, v, r)
    \/ WriteStatus(h) \/ AdjustOutstanding(h)
    \/ RecordAssignment(h) \/ Moved(h)
    \/ BoardWithdrawals(h) \/ MirrorWithdraw(h) \/ MirrorRequest(h)
    \/ Asked(h) \/ ClaimRequest(h) \/ DropClaim(h)
    \/ Delete(h) \/ CheckBoard(h) \/ TakeBack(h)
    \/ HostFails(h)

Spec == Init /\ [][Next]_vars

-----------------------------------------------------------------------------
(* Properties. *)

\* The variables keep their types.
TypeOK ==
  /\ review \in [Reviews -> [status : Statuses, assigned : SUBSET Reviewers]]
  /\ load \in [Reviewers -> Nat]
  /\ commitment \in [Reviews -> [Reviewers -> [id : 0 .. MaxGestures, requested : BOOLEAN]]]
  /\ pending \in [Reviews -> SUBSET Reviewers]
  /\ \A h \in Handlers : Cardinality(handler[h].on) <= 1
  /\ gestures \in 0 .. MaxGestures /\ failures \in 0 .. MaxHostFailures
  /\ unasked \subseteq Reviews \X Reviewers /\ leftOver \subseteq Reviews \X Reviewers
  /\ crossed \subseteq Reviews /\ drifted \subseteq Reviewers

Held(r) == {v \in Reviews : r \in review[v].assigned /\ ~IsTerminal(review[v].status)}
OnTheWay(r, delta) == {h \in Handlers : <<r, delta>> \in handler[h].moves}

\* contracts/src/reviewers.ts:76, "Reviews currently assigned and not yet
\* resolved", and ReviewService.ts:332-338: whatever was assigned, rerolled,
\* resolved, replayed and reopened, however the gestures overlap, a reviewer's
\* load is the reviews they hold, up to the moves still on their way, unless
\* one of their rows was written out of step with it.
LoadIsHeld ==
  \A r \in Reviewers \ drifted :
    load[r] + Cardinality(OnTheWay(r, 1)) - Cardinality(OnTheWay(r, -1)) = Cardinality(Held(r))

\* reviewRequests.ts:157-161: once the handlers are through with a review,
\* whoever still promises it is requested on the host, however often the board
\* handed it on, unless the host was not reached to ask, or gestures on that
\* review overlapped.
PromiseKeepsRequest ==
  \A v \in Reviews \ crossed, r \in Reviewers :
    ~Busy(v) /\ commitment[v][r] # NoCommitment /\ <<v, r>> \notin unasked => r \in pending[v]

\* reviewRequests.ts:74-76 and 105-110: every request we made is backed by an
\* assignment, or by a commitment whose release takes it back, unless the host
\* was not reached to withdraw it, or gestures on that review overlapped.
NoStrayRequest ==
  \A v \in Reviews \ crossed, r \in Reviewers :
    ~Busy(v) /\ r \in pending[v] /\ <<v, r>> \notin leftOver
      => r \in review[v].assigned \/ commitment[v][r].requested
=============================================================================
