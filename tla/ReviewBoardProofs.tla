--------------------------- MODULE ReviewBoardProofs ---------------------------
(***************************************************************************)
(* The three records of who is on the hook agree: a promise keeps its      *)
(* request, no request is stray, and a reviewer's load is what they hold.  *)
(* The first two are said of the reviews whose gestures have not           *)
(* overlapped, the load of the people whose rows were all written in step. *)
(***************************************************************************)
EXTENDS ReviewBoard, FiniteSetTheorems, TLAPS

-----------------------------------------------------------------------------
(* What a handler is doing. *)

Places ==
  {"idle", "updating", "recording", "moving", "withdrawals", "withdrawing", "requesting",
   "asking", "claiming", "dropping", "releasing", "checking", "taking back"}
Rows == [status : Statuses, assigned : SUBSET Reviewers]
Commitments == [id : 0 .. MaxGestures, requested : BOOLEAN]
Deltas == {-1, 1}
Jobs ==
  [at : Places, on : SUBSET Reviews, read : Rows, next : Statuses, assign : SUBSET Reviewers,
   release : SUBSET Reviewers, moves : SUBSET (Reviewers \X Deltas), row : Commitments]

\* A handler that is not idle works on one review.
OnOne(j) == IF j.at = "idle" THEN j.on = {} ELSE \E v \in Reviews : j.on = {v}

TypeInv ==
  /\ review \in [Reviews -> Rows]
  /\ load \in [Reviewers -> Int]
  /\ commitment \in [Reviews -> [Reviewers -> Commitments]]
  /\ pending \in [Reviews -> SUBSET Reviewers]
  /\ handler \in [Handlers -> Jobs]
  /\ \A h \in Handlers : OnOne(handler[h])
  /\ gestures \in 0 .. MaxGestures /\ failures \in 0 .. MaxHostFailures
  /\ unasked \subseteq Reviews \X Reviewers /\ leftOver \subseteq Reviews \X Reviewers

\* Every job starts from the idle one.
LEMMA IdleIs == Idle \in Jobs /\ OnOne(Idle) /\ NoCommitment \in Commitments
BY BoundsAreNat DEF Idle, Jobs, OnOne, NoCommitment, Commitments, Places, Rows, Statuses, Deltas

\* A gesture begins as a job of its kind, on the row as it is.
LEMMA BeginIs ==
  ASSUME TypeInv, NEW h \in Handlers, NEW v \in Reviews, NEW gesture \in Jobs,
         gesture.at # "idle", Begin(h, v, gesture)
  PROVE  TypeInv'
<1> DEFINE j == [gesture EXCEPT !.on = {v}, !.read = review[v]]
<1>1. review[v] \in Rows
  BY DEF TypeInv
<1>2. j \in Jobs
  BY <1>1 DEF Jobs
<1>3. OnOne(j)
  BY DEF OnOne, Jobs
<1>4. handler' = [handler EXCEPT ![h] = j]
  BY DEF Begin, Now
<1> HIDE DEF j
<1>5. handler' \in [Handlers -> Jobs] /\ \A g \in Handlers : OnOne(handler'[g])
  BY <1>2, <1>3, <1>4 DEF TypeInv
<1> QED
  BY <1>5, BoundsAreNat DEF TypeInv, Begin, rows, history

\* A handler goes on with a job of its own review, or is done.
LEMMA NowIs ==
  ASSUME TypeInv, NEW h \in Handlers, NEW j \in Jobs, OnOne(j), Now(h, j)
  PROVE  handler' \in [Handlers -> Jobs] /\ \A g \in Handlers : OnOne(handler'[g])
BY DEF TypeInv, Now

\* A handler that is done is idle.
LEMMA DoneIs ==
  ASSUME TypeInv, NEW h \in Handlers, Done(h)
  PROVE  handler' \in [Handlers -> Jobs] /\ \A g \in Handlers : OnOne(handler'[g])
BY IdleIs, NowIs DEF Done

\* Every step keeps the types.
LEMMA TypeStep == TypeInv /\ [Next]_vars => TypeInv'
<1> SUFFICES ASSUME TypeInv, [Next]_vars PROVE TypeInv'
  OBVIOUS
<1> USE DEF Places, Deltas
<1>1. CASE UNCHANGED vars
  BY <1>1 DEF vars, rows, history, TypeInv
<1>2. ASSUME NEW h \in Handlers, NEW v \in Reviews,
             UpdateStatus(h, v) \/ Assign(h, v) \/ Reroll(h, v)
      PROVE  TypeInv'
  <2>1. CASE UpdateStatus(h, v)
    <3>1. PICK next \in Statuses : Begin(h, v, [Idle EXCEPT !.at = "updating", !.next = next])
      BY <2>1 DEF UpdateStatus
    <3>2. [Idle EXCEPT !.at = "updating", !.next = next] \in Jobs
      BY IdleIs DEF Jobs
    <3> QED
      BY <3>1, <3>2, BeginIs DEF Idle
  <2>2. ASSUME NEW assign \in SUBSET Reviewers, NEW release \in SUBSET Reviewers,
               Begin(h, v, Assigning(assign, release))
        PROVE  TypeInv'
    <3>1. Assigning(assign, release) \in Jobs /\ Assigning(assign, release).at # "idle"
      BY IdleIs DEF Jobs, Assigning, Idle
    <3> QED
      BY <2>2, <3>1, BeginIs
  <2>3. CASE Assign(h, v)
    BY <2>3, <2>2 DEF Assign
  <2>4. CASE Reroll(h, v)
    <3>1. review[v].assigned \in SUBSET Reviewers
      BY DEF TypeInv, Rows
    <3> QED
      BY <2>4, <2>2, <3>1 DEF Reroll
  <2> QED
    BY <1>2, <2>1, <2>3, <2>4
<1>3. ASSUME NEW h \in Handlers, NEW v \in Reviews, NEW r \in Reviewers,
             Claim(h, v, r) \/ Commit(h, v, r) \/ Release(h, v, r)
      PROVE  TypeInv'
  <2>1. CASE Claim(h, v, r)
    <3>1. Assigning({r}, {}) \in Jobs /\ Assigning({r}, {}).at # "idle"
      BY IdleIs DEF Jobs, Assigning, Idle
    <3> QED
      BY <2>1, <3>1, BeginIs DEF Claim
  <2>2. CASE Commit(h, v, r)
    <3> DEFINE made == [id |-> gestures + 1, requested |-> FALSE]
               j == [Idle EXCEPT !.at = "asking", !.on = {v}, !.assign = {r}, !.row = made]
    <3>1. gestures + 1 \in 0 .. MaxGestures /\ made \in Commitments
      BY <2>2, BoundsAreNat DEF Commit, TypeInv, Commitments
    <3>2. commitment' = [commitment EXCEPT ![v][r] = made] /\ Now(h, j)
      BY <2>2 DEF Commit
    <3>3. j \in Jobs /\ OnOne(j)
      BY <3>1, IdleIs DEF Jobs, OnOne, Idle
    <3> HIDE DEF made, j
    <3>4. commitment' \in [Reviews -> [Reviewers -> Commitments]]
      BY <3>1, <3>2 DEF TypeInv
    <3> QED
      BY <2>2, <3>1, <3>2, <3>3, <3>4, NowIs DEF Commit, TypeInv, history
  <2>3. CASE Release(h, v, r)
    <3> DEFINE j == [Idle EXCEPT !.at = "releasing", !.release = {r}, !.row = commitment[v][r]]
    <3>1. commitment[v][r] \in Commitments
      BY DEF TypeInv
    <3>2. j \in Jobs /\ j.at # "idle"
      BY <3>1, IdleIs DEF Jobs, Idle
    <3> QED
      BY <2>3, <3>2, BeginIs DEF Release
  <2> QED
    BY <1>3, <2>1, <2>2, <2>3
<1>4. ASSUME NEW h \in Handlers,
             \/ WriteStatus(h) \/ AdjustOutstanding(h) \/ RecordAssignment(h) \/ Moved(h)
             \/ BoardWithdrawals(h) \/ MirrorWithdraw(h) \/ MirrorRequest(h)
             \/ Asked(h) \/ ClaimRequest(h) \/ DropClaim(h)
             \/ Delete(h) \/ CheckBoard(h) \/ TakeBack(h) \/ HostFails(h)
      PROVE  TypeInv'
  <2> DEFINE me == handler[h]
  <2>1. me \in Jobs /\ OnOne(me)
    BY DEF TypeInv
  <2>2. me.release \subseteq Reviewers /\ me.assign \subseteq Reviewers
    BY <2>1 DEF Jobs
  <2>3. \A v \in me.on : v \in Reviews /\ review[v] \in Rows
    BY <2>1 DEF Jobs, TypeInv
  <2>4. CASE WriteStatus(h)
    <3> DEFINE moves == MovesOnTransition(me.read, me.next)
               j == [me EXCEPT !.at = "moving", !.moves = moves]
    <3>1. moves \in SUBSET (Reviewers \X Deltas) /\ me.next \in Statuses /\ me.at = "updating"
      <4>1. me.read \in Rows /\ me.next \in Statuses /\ me.at = "updating"
        BY <2>1, <2>4 DEF Jobs, WriteStatus, At
      <4>2. me.read.assigned \subseteq Reviewers
        BY <4>1 DEF Rows
      <4> HIDE DEF me
      <4>3. moves \in SUBSET (Reviewers \X Deltas)
        BY <4>2 DEF MovesOnTransition
      <4> QED
        BY <4>1, <4>3
    <3> HIDE DEF moves
    <3>2. j \in Jobs /\ OnOne(j)
      BY <2>1, <3>1 DEF Jobs, OnOne
    <3>3. review' \in [Reviews -> Rows]
      BY <2>4, <2>3, <3>1 DEF WriteStatus, TypeInv, Rows
    <3> HIDE DEF j
    <3> QED
      BY <2>4, <3>2, <3>3, NowIs DEF WriteStatus, TypeInv, history, j, moves
  <2>5. CASE AdjustOutstanding(h)
    <3>1. PICK move \in me.moves :
            /\ load' = [load EXCEPT ![move[1]] = IF @ + move[2] < 0 THEN 0 ELSE @ + move[2]]
            /\ Now(h, [me EXCEPT !.moves = me.moves \ {move}])
      BY <2>5 DEF AdjustOutstanding
    <3>2. move[1] \in Reviewers /\ move[2] \in Int
      <4>1. me.moves \in SUBSET (Reviewers \X Deltas)
        BY <2>1 DEF Jobs
      <4>2. move \in Reviewers \X Deltas
        BY <4>1, <3>1
      <4> QED
        BY <4>2
    <3> DEFINE j == [me EXCEPT !.moves = me.moves \ {move}]
    <3>3. j \in Jobs /\ OnOne(j)
      BY <2>1, <2>5 DEF Jobs, OnOne, AdjustOutstanding, At
    <3>4. load' \in [Reviewers -> Int]
      BY <3>1, <3>2 DEF TypeInv
    <3> QED
      BY <2>5, <3>1, <3>3, <3>4, NowIs DEF AdjustOutstanding, TypeInv, history
  <2>6. CASE RecordAssignment(h)
    <3> DEFINE released == me.read.assigned \cap me.release
               moves == {<<r, -1>> : r \in released} \cup {<<r, 1>> : r \in me.assign}
               j == [me EXCEPT !.at = "moving", !.moves = moves]
               next == [status |-> IF me.read.status = "open" THEN "assigned"
                                   ELSE me.read.status,
                        assigned |-> (me.read.assigned \ released) \cup me.assign]
    <3>1. moves \in SUBSET (Reviewers \X Deltas) /\ me.at = "recording"
      BY <2>2, <2>6 DEF RecordAssignment, At
    <3>2. Now(h, j) /\ \E v \in me.on : review' = [review EXCEPT ![v] = next]
      BY <2>6 DEF RecordAssignment
    <3>3. next \in Rows
      BY <2>1, <2>2 DEF Jobs, Rows, Statuses
    <3> HIDE DEF moves, next
    <3>4. j \in Jobs /\ OnOne(j)
      BY <2>1, <3>1 DEF Jobs, OnOne
    <3>5. review' \in [Reviews -> Rows]
      BY <3>2, <3>3 DEF TypeInv
    <3> HIDE DEF j
    <3> QED
      BY <2>6, <3>2, <3>4, <3>5, NowIs DEF RecordAssignment, TypeInv, history
  <2>7. CASE Moved(h)
    <3> DEFINE j == [me EXCEPT !.at = IF me.release = {} THEN "requesting" ELSE "withdrawals"]
    <3>1. j \in Jobs /\ OnOne(j)
      BY <2>1, <2>7 DEF Jobs, OnOne, Moved, At
    <3> QED
      BY <2>7, <3>1, NowIs, DoneIs DEF Moved, TypeInv, rows, history
  <2>8. CASE BoardWithdrawals(h)
    <3>1. PICK v \in me.on :
            LET committed == {r \in me.release : commitment[v][r] # NoCommitment}
            IN /\ commitment' = [commitment EXCEPT ![v] =
                    [r \in Reviewers |->
                       IF r \in committed THEN [commitment[v][r] EXCEPT !.requested = TRUE]
                       ELSE commitment[v][r]]]
               /\ Now(h, [me EXCEPT !.at = "withdrawing", !.release = me.release \ committed])
      BY <2>8 DEF BoardWithdrawals
    <3> DEFINE committed == {r \in me.release : commitment[v][r] # NoCommitment}
               j == [me EXCEPT !.at = "withdrawing", !.release = me.release \ committed]
    <3>2. j \in Jobs /\ OnOne(j)
      BY <2>1, <2>8 DEF Jobs, OnOne, BoardWithdrawals, At
    <3>3. \A r \in Reviewers : commitment[v][r] \in Commitments
      BY <2>3 DEF TypeInv
    <3>4. commitment' \in [Reviews -> [Reviewers -> Commitments]]
      BY <3>1, <3>3 DEF TypeInv, Commitments
    <3> QED
      BY <2>8, <3>1, <3>2, <3>4, NowIs DEF BoardWithdrawals, TypeInv, history
  <2>9. CASE MirrorWithdraw(h)
    <3> DEFINE j == [me EXCEPT !.at = "requesting"]
    <3>1. j \in Jobs /\ OnOne(j)
      BY <2>1, <2>9 DEF Jobs, OnOne, MirrorWithdraw, At
    <3> QED
      BY <2>9, <2>3, <3>1, NowIs DEF MirrorWithdraw, TypeInv, rows
  <2>10. CASE MirrorRequest(h)
    BY <2>10, <2>2, <2>3, DoneIs DEF MirrorRequest, TypeInv, rows
  <2>11. CASE Asked(h)
    <3> DEFINE j == [me EXCEPT !.at = "claiming"]
    <3>1. j \in Jobs /\ OnOne(j)
      BY <2>1, <2>11 DEF Jobs, OnOne, Asked, At
    <3> QED
      BY <2>11, <3>1, NowIs, DoneIs DEF Asked, TypeInv, rows, history
  <2>12. ASSUME NEW v \in Reviews, NEW requested \in BOOLEAN, SetRequested(h, v, requested)
         PROVE  commitment' \in [Reviews -> [Reviewers -> Commitments]]
    <3>1. \A r \in Reviewers : commitment[v][r] \in Commitments
      BY DEF TypeInv
    <3> QED
      BY <2>12, <3>1 DEF TypeInv, Commitments, SetRequested
  <2>13. CASE ClaimRequest(h)
    <3> DEFINE j == [me EXCEPT !.at = "requesting"]
    <3>1. j \in Jobs /\ OnOne(j)
      BY <2>1, <2>13 DEF Jobs, OnOne, ClaimRequest, At
    <3>2. handler' \in [Handlers -> Jobs] /\ \A g \in Handlers : OnOne(handler'[g])
      BY <2>13, <3>1, NowIs, DoneIs DEF ClaimRequest
    <3>3. commitment' \in [Reviews -> [Reviewers -> Commitments]]
      BY <2>13, <2>12, <2>3 DEF ClaimRequest
    <3> QED
      BY <2>13, <3>2, <3>3 DEF ClaimRequest, TypeInv, history
  <2>14. CASE DropClaim(h)
    <3>1. commitment' \in [Reviews -> [Reviewers -> Commitments]]
      BY <2>14, <2>12, <2>3 DEF DropClaim
    <3> QED
      BY <2>14, <3>1, DoneIs DEF DropClaim, TypeInv, history
  <2>15. CASE Delete(h)
    <3> DEFINE j == [me EXCEPT !.at = "checking"]
    <3>1. j \in Jobs /\ OnOne(j)
      BY <2>1, <2>15 DEF Jobs, OnOne, Delete, At
    <3>2. handler' \in [Handlers -> Jobs] /\ \A g \in Handlers : OnOne(handler'[g])
      BY <2>15, <3>1, NowIs, DoneIs DEF Delete
    <3>3. PICK v \in me.on :
            commitment' = [commitment EXCEPT ![v] =
              [r \in Reviewers |-> IF r \in me.release /\ commitment[v][r].id = me.row.id
                                     THEN NoCommitment ELSE commitment[v][r]]]
      BY <2>15 DEF Delete
    <3>4. \A r \in Reviewers : commitment[v][r] \in Commitments
      BY <2>3 DEF TypeInv
    <3>5. commitment' \in [Reviews -> [Reviewers -> Commitments]]
      BY <3>3, <3>4, IdleIs DEF TypeInv
    <3> QED
      BY <2>15, <3>2, <3>5 DEF Delete, TypeInv, history
  <2>16. CASE CheckBoard(h)
    <3> DEFINE j == [me EXCEPT !.at = "taking back"]
    <3>1. j \in Jobs /\ OnOne(j)
      BY <2>1, <2>16 DEF Jobs, OnOne, CheckBoard, At
    <3> QED
      BY <2>16, <3>1, NowIs, DoneIs DEF CheckBoard, TypeInv, rows, history
  <2>17. CASE TakeBack(h)
    BY <2>17, <2>2, <2>3, DoneIs DEF TakeBack, TypeInv, rows
  <2>18. CASE HostFails(h)
    <3> DEFINE j == [me EXCEPT !.at = "dropping"]
    <3>1. j \in Jobs /\ OnOne(j)
      BY <2>1, <2>18 DEF Jobs, OnOne, HostFails, At
    <3>2. handler' \in [Handlers -> Jobs] /\ \A g \in Handlers : OnOne(handler'[g])
      BY <2>18, <3>1, NowIs, DoneIs DEF HostFails
    <3>3. me.on \subseteq Reviews
      BY <2>3
    <3>4. unasked' \subseteq Reviews \X Reviewers /\ leftOver' \subseteq Reviews \X Reviewers
      BY <2>18, <2>2, <3>3 DEF HostFails, TypeInv
    <3>5. failures' \in 0 .. MaxHostFailures
      <4>1. failures < MaxHostFailures /\ failures' = failures + 1
        BY <2>18 DEF HostFails
      <4>2. failures \in 0 .. MaxHostFailures
        BY DEF TypeInv
      <4> QED
        BY <4>1, <4>2, BoundsAreNat
    <3>6. UNCHANGED <<review, load, commitment, pending, gestures>>
      BY <2>18 DEF HostFails, rows
    <3> QED
      BY <3>2, <3>4, <3>5, <3>6 DEF TypeInv
  <2> QED
    BY <1>4, <2>4, <2>5, <2>6, <2>7, <2>8, <2>9, <2>10, <2>11, <2>13, <2>14, <2>15,
       <2>16, <2>17, <2>18
<1> QED
  BY <1>1, <1>2, <1>3, <1>4 DEF Next

\* The row, the promises, the requests and the handlers keep their types.
THEOREM BoardIsTyped == Spec => []TypeInv
<1>1. Init => TypeInv
  <2> SUFFICES ASSUME Init PROVE TypeInv
    OBVIOUS
  <2>1. handler \in [Handlers -> Jobs] /\ \A h \in Handlers : OnOne(handler[h])
    BY IdleIs DEF Init
  <2>2. commitment \in [Reviews -> [Reviewers -> Commitments]]
    BY IdleIs DEF Init
  <2> QED
    BY <2>1, <2>2, BoundsAreNat DEF Init, TypeInv, Rows, Statuses
<1> QED
  BY <1>1, TypeStep, PTL DEF Spec

-----------------------------------------------------------------------------
(* The requests on the host. Between its statements a handler owes the     *)
(* host a request for those it assigned or who committed, or a withdrawal  *)
(* for those it released; what it owes, and what it has read, is said of   *)
(* every place it can be at.                                               *)

ToAsk(j) == IF j.at \in {"asking", "claiming", "requesting"} THEN j.assign ELSE {}
ToWithdraw(j) ==
  IF j.at \in {"moving", "withdrawals", "withdrawing", "checking", "taking back"}
    THEN j.release ELSE {}

Committing(j) ==
  j.at \in {"asking", "claiming", "dropping"} \/ (j.at = "requesting" /\ j.row # NoCommitment)

\* An assignment of the board, on the review as it read it.
BoardJob(j, v) ==
  /\ j.at \in {"updating", "recording"} => j.read = review[v]
  /\ j.at = "updating" => j.assign = {} /\ j.release = {}
  /\ j.at = "recording" => j.assign # {}
  /\ j.at \in {"updating", "recording", "moving", "withdrawals", "withdrawing"} =>
       j.assign \cap j.release = {} /\ j.row = NoCommitment
  /\ j.at \in {"moving", "withdrawals", "withdrawing", "requesting"} /\ ~Committing(j) =>
       j.assign \subseteq review[v].assigned
  /\ j.at = "moving" /\ j.assign = {} => j.release = {}
  /\ j.at = "withdrawing" => \A r \in j.release : commitment[v][r] = NoCommitment

\* A commitment being made is one person's, and still in its row.
CommitJob(j, v) ==
  Committing(j) =>
    /\ j.release = {} /\ j.row.id > 0
    /\ \E r \in Reviewers :
         /\ j.assign = {r} /\ commitment[v][r].id = j.row.id
         /\ j.at # "asking" => r \notin pending[v]
         /\ j.at = "requesting" => commitment[v][r].requested
         /\ j.at = "dropping" => <<v, r>> \in unasked

\* A commitment being released is as it was read, and then is gone.
ReleaseJob(j, v) ==
  j.at \in {"releasing", "checking", "taking back"} =>
    /\ j.assign = {} /\ j.row # NoCommitment
    /\ \A r \in j.release :
         commitment[v][r] = IF j.at = "releasing" THEN j.row ELSE NoCommitment

Doing(j, v) == BoardJob(j, v) /\ CommitJob(j, v) /\ ReleaseJob(j, v)

PromiseKept(v, r) ==
  commitment[v][r] # NoCommitment /\ <<v, r>> \notin unasked => r \in pending[v]
Backed(v, r) ==
  r \in pending[v] /\ <<v, r>> \notin leftOver
    => r \in review[v].assigned \/ commitment[v][r].requested

OneEach ==
  \A g \in Handlers, h \in Handlers :
    g # h => handler[g].on \cap handler[h].on \subseteq crossed

RequestsInv ==
  /\ OneEach
  /\ \A h \in Handlers : \A v \in handler[h].on \ crossed : Doing(handler[h], v)
  /\ \A v \in Reviews \ crossed, r \in Reviewers :
       /\ (\A h \in Handlers : v \in handler[h].on => r \notin ToAsk(handler[h]))
            => PromiseKept(v, r)
       /\ (\A h \in Handlers : v \in handler[h].on => r \notin ToWithdraw(handler[h]))
            => Backed(v, r)

\* What RequestsInv says of the review that one handler works on.
Settled(h, v) ==
  /\ v \in handler[h].on => Doing(handler[h], v)
  /\ \A r \in Reviewers :
       /\ r \notin ToAsk(handler[h]) => PromiseKept(v, r)
       /\ r \notin ToWithdraw(handler[h]) => Backed(v, r)

\* A step of one handler leaves the other reviews, and their handlers, alone.
Alone(h, v) ==
  /\ v \notin crossed
  /\ \A g \in Handlers \ {h} : v \notin handler[g].on /\ handler'[g] = handler[g]
  /\ handler[h].on \subseteq {v}
  /\ handler'[h].on = {v} \/ handler'[h] = Idle
  /\ \A w \in Reviews \ {v} :
       /\ review'[w] = review[w] /\ commitment'[w] = commitment[w] /\ pending'[w] = pending[w]
       /\ \A r \in Reviewers : <<w, r>> \in unasked' <=> <<w, r>> \in unasked
       /\ \A r \in Reviewers : <<w, r>> \in leftOver' <=> <<w, r>> \in leftOver

\* So it is enough to look at the review the step is about.
LEMMA AloneKeeps ==
  ASSUME TypeInv, TypeInv', RequestsInv, NEW h \in Handlers, NEW v \in Reviews,
         Alone(h, v), Settled(h, v)', crossed' = crossed
  PROVE  RequestsInv'
<1> USE DEF Alone
<1>1. OneEach'
  BY DEF RequestsInv, OneEach, Idle
<1>2. ASSUME NEW w \in Reviews, w # v, NEW j, Doing(j, w)
      PROVE  Doing(j, w)'
  BY <1>2 DEF Doing, BoardJob, CommitJob, ReleaseJob
<1>3. ASSUME NEW g \in Handlers, NEW w \in handler'[g].on \ crossed
      PROVE  Doing(handler[g], w)'
  <2>1. CASE g = h
    BY <1>3, <2>1 DEF Settled, Idle
  <2>2. CASE g # h
    <3>1. w \in Reviews /\ w # v /\ handler'[g] = handler[g] /\ w \in handler[g].on
      BY <1>3, <2>2 DEF TypeInv, Jobs
    <3>2. Doing(handler[g], w)
      BY <3>1 DEF RequestsInv
    <3>3. PICK j : j = handler[g]
      OBVIOUS
    <3>4. Doing(j, w)'
      BY <1>2, <3>1, <3>2, <3>3
    <3> QED
      BY <3>1, <3>3, <3>4
  <2> QED
    BY <2>1, <2>2
<1>4. ASSUME NEW w \in Reviews \ crossed, NEW r \in Reviewers
      PROVE  /\ (\A g \in Handlers : w \in handler'[g].on => r \notin ToAsk(handler'[g]))
                  => PromiseKept(w, r)'
             /\ (\A g \in Handlers : w \in handler'[g].on => r \notin ToWithdraw(handler'[g]))
                  => Backed(w, r)'
  <2>1. CASE w = v
    <3>1. ToAsk(Idle) = {} /\ ToWithdraw(Idle) = {}
      BY DEF ToAsk, ToWithdraw, Idle
    <3> QED
      BY <1>4, <2>1, <3>1 DEF Settled
  <2>2. CASE w # v
    <3>1. \A g \in Handlers : w \in handler'[g].on \/ w \in handler[g].on
                                => handler'[g] = handler[g]
      BY <2>2 DEF Idle
    <3>2. \A g \in Handlers : w \in handler[g].on => g # h
      BY <2>2
    <3>3. PromiseKept(w, r) => PromiseKept(w, r)'
      BY <2>2, <1>4 DEF PromiseKept
    <3>4. Backed(w, r) => Backed(w, r)'
      BY <2>2, <1>4 DEF Backed
    <3> QED
      BY <1>4, <3>1, <3>2, <3>3, <3>4 DEF RequestsInv
  <2> QED
    BY <2>1, <2>2
<1> QED
  BY <1>1, <1>3, <1>4 DEF RequestsInv

\* A handler at work has its review to itself, unless it is crossed.
LEMMA AtWork ==
  ASSUME TypeInv, RequestsInv, NEW h \in Handlers, handler[h].at # "idle",
         handler[h].on \cap crossed = {}
  PROVE  \E v \in Reviews :
           /\ handler[h].on = {v} /\ v \notin crossed /\ Settled(h, v)
           /\ \A g \in Handlers \ {h} : v \notin handler[g].on
<1>1. PICK v \in Reviews : handler[h].on = {v} /\ v \notin crossed
  BY DEF TypeInv, OnOne
<1>2. \A g \in Handlers \ {h} : v \notin handler[g].on
  BY <1>1 DEF RequestsInv, OneEach
<1>3. Settled(h, v)
  BY <1>1, <1>2 DEF RequestsInv, Settled
<1> QED
  BY <1>1, <1>2, <1>3

\* A gesture that begins finds its review with everything in order.
LEMMA BeginKeeps ==
  ASSUME TypeInv, TypeInv', RequestsInv, NEW h \in Handlers, NEW v \in Reviews, v \notin crossed',
         NEW gesture \in Jobs, gesture.at \in {"updating", "recording", "releasing"},
         Begin(h, v, gesture), Doing(handler[h], v)'
  PROVE  RequestsInv'
<1>1. handler[h] \in Jobs /\ handler[h].at = "idle" /\ handler[h].on = {}
  BY DEF Begin, At, TypeInv, OnOne
<1>2. (\A g \in Handlers : v \notin handler[g].on) /\ crossed' = crossed
  BY DEF Begin, Busy, Cross
<1>3. handler' = [handler EXCEPT ![h] = [gesture EXCEPT !.on = {v}, !.read = review[v]]]
  BY DEF Begin, Now
<1>4. /\ \A g \in Handlers \ {h} : handler'[g] = handler[g]
      /\ handler'[h].on = {v} /\ handler'[h].at = gesture.at
  BY <1>3 DEF TypeInv, Jobs
<1>5. UNCHANGED <<review, commitment, pending, unasked, leftOver>>
  BY DEF Begin, rows, history
<1>6. Alone(h, v) /\ crossed' = crossed
  BY <1>1, <1>2, <1>4, <1>5 DEF Alone
<1>7. \A r \in Reviewers : PromiseKept(v, r)' /\ Backed(v, r)'
  BY <1>2, <1>5 DEF RequestsInv, PromiseKept, Backed
<1>8. Settled(h, v)'
  BY <1>7 DEF Settled
<1> QED
  BY <1>6, <1>8, AloneKeeps

\* An idle handler owes nothing.
LEMMA IdleOwesNothing ==
  /\ ToAsk(Idle) = {} /\ ToWithdraw(Idle) = {} /\ Idle.on = {}
  /\ Idle.row = NoCommitment /\ Idle.assign = {} /\ Idle.release = {}
BY DEF ToAsk, ToWithdraw, Idle

\* The gestures that begin.
LEMMA GesturesKeep ==
  ASSUME TypeInv, TypeInv', RequestsInv, NEW h \in Handlers, NEW v \in Reviews, v \notin crossed',
         UpdateStatus(h, v) \/ Assign(h, v) \/ Reroll(h, v)
           \/ \E r \in Reviewers : Claim(h, v, r) \/ Release(h, v, r)
  PROVE  RequestsInv'
<1> USE DEF Places, Committing
<1>1. CASE UpdateStatus(h, v)
  <2>1. PICK next \in Statuses : Begin(h, v, [Idle EXCEPT !.at = "updating", !.next = next])
    BY <1>1 DEF UpdateStatus
  <2> DEFINE gesture == [Idle EXCEPT !.at = "updating", !.next = next]
  <2>2. gesture \in Jobs /\ gesture.at = "updating"
    BY IdleIs DEF Jobs, Idle
  <2>3. handler' = [handler EXCEPT ![h] = [gesture EXCEPT !.on = {v}, !.read = review[v]]]
        /\ review' = review
    BY <2>1 DEF Begin, Now, rows
  <2>4. handler'[h] = [Idle EXCEPT !.at = "updating", !.next = next, !.on = {v},
                                   !.read = review'[v]]
    BY <2>2, <2>3 DEF TypeInv, Idle
  <2>5. Doing(handler[h], v)'
    BY <2>4 DEF Doing, BoardJob, CommitJob, ReleaseJob, Idle
  <2> HIDE DEF gesture
  <2> QED
    BY <2>1, <2>2, <2>5, BeginKeeps DEF gesture
<1>2. ASSUME NEW assign \in SUBSET Reviewers, NEW release \in SUBSET Reviewers,
             assign # {}, assign \cap release = {},
             Begin(h, v, Assigning(assign, release))
      PROVE  RequestsInv'
  <2> DEFINE gesture == Assigning(assign, release)
  <2>2. gesture \in Jobs /\ gesture.at = "recording"
    BY IdleIs DEF Jobs, Idle, Assigning
  <2>3. handler' = [handler EXCEPT ![h] = [gesture EXCEPT !.on = {v}, !.read = review[v]]]
        /\ review' = review
    BY <1>2 DEF Begin, Now, rows
  <2>4. handler'[h] = [Idle EXCEPT !.at = "recording", !.assign = assign,
                                   !.release = release, !.on = {v}, !.read = review'[v]]
    BY <2>2, <2>3 DEF TypeInv, Idle, Assigning
  <2>5. Doing(handler[h], v)'
    BY <2>4, <1>2 DEF Doing, BoardJob, CommitJob, ReleaseJob, Idle
  <2> HIDE DEF gesture
  <2> QED
    BY <1>2, <2>2, <2>5, BeginKeeps DEF gesture
<1>3. CASE Assign(h, v)
  BY <1>3, <1>2 DEF Assign
<1>4. CASE Reroll(h, v)
  <2>1. review[v].assigned \in SUBSET Reviewers
    BY DEF TypeInv, Rows
  <2> QED
    BY <1>4, <1>2, <2>1 DEF Reroll
<1>5. ASSUME NEW r \in Reviewers, Claim(h, v, r)
      PROVE  RequestsInv'
  BY <1>5, <1>2 DEF Claim
<1>6. ASSUME NEW r \in Reviewers, Release(h, v, r)
      PROVE  RequestsInv'
  <2>1. PICK c : c = commitment[v][r]
    OBVIOUS
  <2>2. c \in Commitments /\ c # NoCommitment
    <3>1. commitment[v][r] \in Commitments
      BY DEF TypeInv
    <3>2. commitment[v][r] # NoCommitment
      BY <1>6 DEF Release
    <3> QED
      BY <2>1, <3>1, <3>2
  <2> DEFINE gesture == [Idle EXCEPT !.at = "releasing", !.release = {r}, !.row = c]
  <2>3. gesture \in Jobs /\ gesture.at = "releasing"
    BY <2>2, IdleIs DEF Jobs, Idle
  <2>4. Begin(h, v, gesture)
    BY <1>6, <2>1 DEF Release
  <2>5. handler' = [handler EXCEPT ![h] = [gesture EXCEPT !.on = {v}, !.read = review[v]]]
        /\ review' = review /\ commitment' = commitment
    BY <2>4 DEF Begin, Now, rows
  <2>6. handler'[h] = [Idle EXCEPT !.at = "releasing", !.release = {r}, !.row = c,
                                   !.on = {v}, !.read = review'[v]]
    BY <2>3, <2>5 DEF TypeInv, Idle
  <2>7. Doing(handler[h], v)'
    <3>1. /\ handler'[h].at = "releasing" /\ handler'[h].assign = {}
          /\ handler'[h].release = {r} /\ handler'[h].row = c
      BY <2>6 DEF Idle
    <3>2. commitment'[v][r] = c
      BY <2>1, <2>5
    <3> QED
      BY <2>2, <3>1, <3>2 DEF Doing, BoardJob, CommitJob, ReleaseJob
  <2> HIDE DEF gesture
  <2> QED
    BY <2>4, <2>3, <2>7, BeginKeeps
<1> QED
  BY <1>1, <1>3, <1>4, <1>5, <1>6

\* A commitment is made: until it is asked about, its request is owed.
LEMMA CommitKeeps ==
  ASSUME TypeInv, TypeInv', RequestsInv, NEW h \in Handlers, NEW v \in Reviews, v \notin crossed',
         NEW r \in Reviewers, Commit(h, v, r)
  PROVE  RequestsInv'
<1>1. PICK made : made = [id |-> gestures + 1, requested |-> FALSE]
  OBVIOUS
<1> DEFINE j == [Idle EXCEPT !.at = "asking", !.on = {v}, !.assign = {r}, !.row = made]
<1>2. /\ commitment[v][r] = NoCommitment /\ ~Busy(v)
      /\ commitment' = [commitment EXCEPT ![v][r] = made]
      /\ handler' = [handler EXCEPT ![h] = j] /\ At(h, "idle")
      /\ UNCHANGED <<review, pending, unasked, leftOver, crossed>>
  BY <1>1 DEF Commit, Now, history, Cross
<1>3. /\ handler'[h] = j /\ handler[h].on = {}
      /\ \A g \in Handlers \ {h} : v \notin handler[g].on /\ handler'[g] = handler[g]
  BY <1>2 DEF TypeInv, Busy, At, OnOne
<1>4. /\ \A w \in Reviews \ {v} : commitment'[w] = commitment[w]
      /\ \A p \in Reviewers \ {r} : commitment'[v][p] = commitment[v][p]
      /\ commitment'[v][r] = made
  BY <1>2 DEF TypeInv
<1>5. Alone(h, v) /\ crossed' = crossed
  <2>1. j.on = {v}
    BY DEF Idle
  <2> QED
    BY <1>2, <1>3, <1>4, <2>1 DEF Alone
<1>6. made.id > 0 /\ made.requested = FALSE
  BY <1>1 DEF TypeInv
<1>7. /\ handler'[h].at = "asking" /\ handler'[h].assign = {r} /\ handler'[h].row = made
      /\ handler'[h].release = {}
  BY <1>3 DEF Idle
<1>8. Doing(handler[h], v)'
  BY <1>4, <1>6, <1>7 DEF Doing, BoardJob, CommitJob, ReleaseJob, Committing
<1>9. \A p \in Reviewers : PromiseKept(v, p) /\ Backed(v, p)
  <2>1. \A g \in Handlers : v \notin handler[g].on
    BY <1>2 DEF Busy
  <2> QED
    BY <1>2, <2>1 DEF RequestsInv
<1>10. \A p \in Reviewers : p # r => PromiseKept(v, p)'
  BY <1>2, <1>4, <1>9 DEF PromiseKept
<1>11. \A p \in Reviewers : Backed(v, p)'
  BY <1>2, <1>4, <1>9 DEF Backed, NoCommitment
<1>12. Settled(h, v)'
  BY <1>7, <1>8, <1>10, <1>11 DEF Settled, ToAsk
<1> QED
  BY <1>5, <1>12, AloneKeeps

\* The handler that takes a step, before and after it.
LEMMA NowAt ==
  ASSUME TypeInv, NEW h \in Handlers, NEW j, Now(h, j)
  PROVE  handler'[h] = j /\ \A g \in Handlers \ {h} : handler'[g] = handler[g]
BY DEF TypeInv, Now

\* The board's own steps: the row written, the load moved, and the host told.
LEMMA BoardKeeps ==
  ASSUME TypeInv, TypeInv', RequestsInv, NEW h \in Handlers,
         handler[h].on \cap crossed = {}, crossed' = crossed,
         WriteStatus(h) \/ AdjustOutstanding(h) \/ RecordAssignment(h) \/ Moved(h)
  PROVE  RequestsInv'
<1> DEFINE me == handler[h]
<1>1. me \in Jobs /\ me.at \in {"updating", "recording", "moving"} /\ me.at # "idle"
  BY DEF TypeInv, WriteStatus, AdjustOutstanding, RecordAssignment, Moved, At
<1>2. PICK v \in Reviews :
        /\ me.on = {v} /\ v \notin crossed /\ Settled(h, v)
        /\ \A g \in Handlers \ {h} : v \notin handler[g].on
  BY <1>1, AtWork
<1>3. BoardJob(me, v) /\ review[v] \in Rows
  BY <1>2 DEF Settled, Doing, TypeInv
<1>4. ASSUME handler'[h].on = {v} \/ handler'[h] = Idle,
             \A g \in Handlers \ {h} : handler'[g] = handler[g],
             UNCHANGED <<commitment, pending, unasked, leftOver>>,
             \A w \in Reviews \ {v} : review'[w] = review[w],
             Settled(h, v)'
      PROVE  RequestsInv'
  <2>1. Alone(h, v)
    BY <1>2, <1>4 DEF Alone
  <2> QED
    BY <1>4, <2>1, AloneKeeps
<1>5. CASE WriteStatus(h)
  <2>1. /\ handler'[h].at = "moving" /\ handler'[h].assign = {} /\ handler'[h].release = {}
        /\ handler'[h].row = NoCommitment /\ handler'[h].on = {v}
    <3>1. me.at = "updating" /\ me.assign = {} /\ me.release = {} /\ me.row = NoCommitment
      BY <1>3, <1>5 DEF BoardJob, WriteStatus, At
    <3>2. handler'[h] = [me EXCEPT !.at = "moving",
                                   !.moves = MovesOnTransition(me.read, me.next)]
      BY <1>5, NowAt DEF WriteStatus
    <3> QED
      BY <1>1, <1>2, <3>1, <3>2 DEF Jobs
  <2>2. /\ \A w \in Reviews \ {v} : review'[w] = review[w]
        /\ review'[v].assigned = review[v].assigned
    BY <1>2, <1>3, <1>5 DEF WriteStatus, TypeInv, Rows
  <2>3. UNCHANGED <<commitment, pending, unasked, leftOver>>
    BY <1>5 DEF WriteStatus, history
  <2>4. Doing(handler[h], v)'
    BY <2>1 DEF Doing, BoardJob, CommitJob, ReleaseJob, Committing
  <2>5. ToAsk(me) = {} /\ ToWithdraw(me) = {}
    BY <1>5 DEF ToAsk, ToWithdraw, WriteStatus, At
  <2>6. \A r \in Reviewers : PromiseKept(v, r)' /\ Backed(v, r)'
    BY <1>2, <2>2, <2>3, <2>5 DEF Settled, PromiseKept, Backed
  <2>7. Settled(h, v)'
    BY <2>4, <2>6 DEF Settled
  <2>8. \A g \in Handlers \ {h} : handler'[g] = handler[g]
    BY <1>5, NowAt DEF WriteStatus
  <2> QED
    BY <1>4, <2>1, <2>2, <2>3, <2>7, <2>8
<1>6. CASE AdjustOutstanding(h)
  <2>1. PICK move : Now(h, [me EXCEPT !.moves = me.moves \ {move}])
    BY <1>6 DEF AdjustOutstanding
  <2>2. /\ handler'[h].at = me.at /\ handler'[h].assign = me.assign
        /\ handler'[h].release = me.release /\ handler'[h].row = me.row
        /\ handler'[h].on = {v} /\ me.at = "moving"
    BY <1>1, <1>2, <1>6, <2>1, NowAt DEF Jobs, AdjustOutstanding, At
  <2>3. UNCHANGED <<review, commitment, pending, unasked, leftOver>>
    BY <1>6 DEF AdjustOutstanding, history
  <2>4. Settled(h, v)'
    BY <1>2, <2>2, <2>3 DEF Settled, Doing, BoardJob, CommitJob, ReleaseJob, Committing,
       PromiseKept, Backed, ToAsk, ToWithdraw
  <2>5. \A g \in Handlers \ {h} : handler'[g] = handler[g]
    BY <2>1, NowAt
  <2> QED
    BY <1>4, <2>2, <2>3, <2>4, <2>5
<1>7. CASE RecordAssignment(h)
  <2>1. /\ me.at = "recording" /\ me.read = review[v] /\ me.assign # {}
        /\ me.assign \cap me.release = {} /\ me.row = NoCommitment
    BY <1>3, <1>7 DEF BoardJob, RecordAssignment, At
  <2>2. /\ handler'[h].at = "moving" /\ handler'[h].assign = me.assign
        /\ handler'[h].release = me.release /\ handler'[h].row = NoCommitment
        /\ handler'[h].on = {v}
    <3> DEFINE moves == {<<r, -1>> : r \in me.read.assigned \cap me.release}
                          \cup {<<r, 1>> : r \in me.assign}
    <3>1. handler'[h] = [me EXCEPT !.at = "moving", !.moves = moves]
      BY <1>7, NowAt DEF RecordAssignment
    <3> HIDE DEF moves
    <3> QED
      BY <1>1, <1>2, <2>1, <3>1 DEF Jobs
  <2>3. /\ \A w \in Reviews \ {v} : review'[w] = review[w]
        /\ review'[v].assigned =
             (review[v].assigned \ (review[v].assigned \cap me.release)) \cup me.assign
    BY <1>2, <1>7, <2>1 DEF RecordAssignment, TypeInv
  <2>4. UNCHANGED <<commitment, pending, unasked, leftOver>>
    BY <1>7 DEF RecordAssignment, history
  <2>5. Doing(handler[h], v)'
    BY <2>1, <2>2, <2>3 DEF Doing, BoardJob, CommitJob, ReleaseJob, Committing
  <2>6. ToAsk(me) = {} /\ ToWithdraw(me) = {} /\ ToWithdraw(handler'[h]) = me.release
    BY <2>1, <2>2 DEF ToAsk, ToWithdraw
  <2>7. \A r \in Reviewers : PromiseKept(v, r)'
    BY <1>2, <2>4, <2>6 DEF Settled, PromiseKept
  <2>8. \A r \in Reviewers : r \notin me.release => Backed(v, r)'
    BY <1>2, <2>3, <2>4, <2>6 DEF Settled, Backed
  <2>9. Settled(h, v)'
    BY <2>5, <2>6, <2>7, <2>8 DEF Settled
  <2>10. \A g \in Handlers \ {h} : handler'[g] = handler[g]
    BY <1>7, NowAt DEF RecordAssignment
  <2> QED
    BY <1>4, <2>2, <2>3, <2>4, <2>9, <2>10
<1>8. CASE Moved(h)
  <2>1. me.at = "moving" /\ me.row = NoCommitment
    BY <1>3, <1>8 DEF BoardJob, Moved, At
  <2>2. UNCHANGED <<review, commitment, pending, unasked, leftOver>>
    BY <1>8 DEF Moved, rows, history
  <2>3. \A g \in Handlers \ {h} : handler'[g] = handler[g]
    BY <1>8, NowAt DEF Moved, Done
  <2>4. \A r \in Reviewers : PromiseKept(v, r)' /\ (r \notin me.release => Backed(v, r)')
    BY <1>2, <2>1, <2>2 DEF Settled, PromiseKept, Backed, ToAsk, ToWithdraw
  <2>5. CASE me.assign = {}
    <3>1. handler'[h] = Idle
      BY <1>8, <2>5, NowAt DEF Moved, Done
    <3>2. me.release = {}
      BY <1>3, <2>1, <2>5 DEF BoardJob
    <3>3. Settled(h, v)'
      BY <3>1, <3>2, <2>4, IdleOwesNothing DEF Settled
    <3> QED
      BY <1>4, <2>2, <2>3, <3>1, <3>3
  <2>6. CASE me.assign # {}
    <3>1. /\ handler'[h].at = IF me.release = {} THEN "requesting" ELSE "withdrawals"
          /\ handler'[h].assign = me.assign /\ handler'[h].release = me.release
          /\ handler'[h].row = NoCommitment /\ handler'[h].on = {v}
      BY <1>1, <1>2, <1>8, <2>1, <2>6, NowAt DEF Moved, Jobs
    <3>2. me.assign \subseteq review[v].assigned /\ me.assign \cap me.release = {}
      BY <1>3, <2>1 DEF BoardJob, Committing
    <3>3. Doing(handler[h], v)'
      BY <2>2, <3>1, <3>2 DEF Doing, BoardJob, CommitJob, ReleaseJob, Committing
    <3>4. \A r \in Reviewers : r \notin ToWithdraw(handler'[h]) => r \notin me.release
      BY <3>1 DEF ToWithdraw
    <3>5. Settled(h, v)'
      BY <2>4, <3>3, <3>4 DEF Settled
    <3> QED
      BY <1>4, <2>2, <2>3, <3>1, <3>5
  <2> QED
    BY <2>5, <2>6
<1> QED
  BY <1>5, <1>6, <1>7, <1>8

\* The host is told of an assignment: the withdrawals, then the requests.
LEMMA MirrorKeeps ==
  ASSUME TypeInv, TypeInv', RequestsInv, NEW h \in Handlers,
         handler[h].on \cap crossed = {}, crossed' = crossed,
         BoardWithdrawals(h) \/ MirrorWithdraw(h) \/ MirrorRequest(h)
  PROVE  RequestsInv'
<1> DEFINE me == handler[h]
<1>1. me \in Jobs /\ me.at \in {"withdrawals", "withdrawing", "requesting"} /\ me.at # "idle"
  BY DEF TypeInv, BoardWithdrawals, MirrorWithdraw, MirrorRequest, At
<1>2. PICK v \in Reviews :
        /\ me.on = {v} /\ v \notin crossed /\ Settled(h, v)
        /\ \A g \in Handlers \ {h} : v \notin handler[g].on
  BY <1>1, AtWork
<1>3. Doing(me, v)
  BY <1>2 DEF Settled
<1>4. \A r \in Reviewers : commitment[v][r] \in Commitments
  BY DEF TypeInv
<1>5. CASE BoardWithdrawals(h)
  <2>1. PICK w \in me.on :
          LET committed == {r \in me.release : commitment[w][r] # NoCommitment}
          IN /\ commitment' = [commitment EXCEPT ![w] =
                  [r \in Reviewers |->
                     IF r \in committed THEN [commitment[w][r] EXCEPT !.requested = TRUE]
                     ELSE commitment[w][r]]]
             /\ Now(h, [me EXCEPT !.at = "withdrawing", !.release = me.release \ committed])
    BY <1>5 DEF BoardWithdrawals
  <2>2. PICK committed : committed = {r \in me.release : commitment[v][r] # NoCommitment}
    OBVIOUS
  <2>3. w = v
    BY <1>2
  <2>4. /\ commitment' = [commitment EXCEPT ![v] =
             [r \in Reviewers |->
                IF r \in committed THEN [commitment[v][r] EXCEPT !.requested = TRUE]
                ELSE commitment[v][r]]]
        /\ Now(h, [me EXCEPT !.at = "withdrawing", !.release = me.release \ committed])
    BY <2>1, <2>2, <2>3
  <2>5. /\ \A u \in Reviews \ {v} : commitment'[u] = commitment[u]
        /\ \A r \in Reviewers :
             /\ r \in committed => commitment'[v][r].requested
             /\ r \notin committed => commitment'[v][r] = commitment[v][r]
             /\ commitment'[v][r] # NoCommitment => commitment[v][r] # NoCommitment
    BY <1>4, <2>2, <2>4 DEF TypeInv, Commitments
  <2>6. UNCHANGED <<review, pending, unasked, leftOver>> /\ me.at = "withdrawals"
    BY <1>5 DEF BoardWithdrawals, history, At
  <2>7. /\ handler'[h].at = "withdrawing" /\ handler'[h].assign = me.assign
        /\ handler'[h].release = me.release \ committed /\ handler'[h].row = me.row
        /\ handler'[h].on = {v} /\ \A g \in Handlers \ {h} : handler'[g] = handler[g]
    <3>1. /\ handler'[h] = [me EXCEPT !.at = "withdrawing", !.release = me.release \ committed]
          /\ \A g \in Handlers \ {h} : handler'[g] = handler[g]
      BY <2>4, NowAt
    <3> QED
      BY <1>1, <1>2, <3>1 DEF Jobs
  <2>8. Alone(h, v)
    BY <1>2, <2>5, <2>6, <2>7 DEF Alone
  <2>9. Doing(handler[h], v)'
    <3>1. \A r \in me.release \ committed : commitment'[v][r] = NoCommitment
      BY <1>1, <2>2, <2>5 DEF Jobs
    <3>2. me.assign \cap me.release = {} /\ me.row = NoCommitment
          /\ me.assign \subseteq review[v].assigned
      BY <1>3, <2>6 DEF Doing, BoardJob, Committing
    <3> QED
      BY <2>6, <2>7, <3>1, <3>2 DEF Doing, BoardJob, CommitJob, ReleaseJob, Committing
  <2>10. \A r \in Reviewers : PromiseKept(v, r) /\ (r \notin me.release => Backed(v, r))
    BY <1>2, <2>6 DEF Settled, ToAsk, ToWithdraw
  <2>11. \A r \in Reviewers : PromiseKept(v, r)'
    BY <2>5, <2>6, <2>10 DEF PromiseKept
  <2>12. \A r \in Reviewers : r \notin me.release \ committed => Backed(v, r)'
    BY <2>5, <2>6, <2>10 DEF Backed
  <2>13. Settled(h, v)'
    BY <2>7, <2>9, <2>11, <2>12 DEF Settled, ToWithdraw
  <2> QED
    BY <2>8, <2>13, AloneKeeps
<1>6. CASE MirrorWithdraw(h)
  <2>1. /\ me.at = "withdrawing" /\ me.assign \cap me.release = {} /\ me.row = NoCommitment
        /\ me.assign \subseteq review[v].assigned
        /\ \A r \in me.release : commitment[v][r] = NoCommitment
    BY <1>3, <1>6 DEF Doing, BoardJob, Committing, MirrorWithdraw, At
  <2>2. /\ handler'[h].at = "requesting" /\ handler'[h].assign = me.assign
        /\ handler'[h].row = NoCommitment
        /\ handler'[h].on = {v} /\ \A g \in Handlers \ {h} : handler'[g] = handler[g]
    BY <1>1, <1>2, <1>6, <2>1, NowAt DEF MirrorWithdraw, Jobs
  <2>3. /\ pending' = [pending EXCEPT ![v] = pending[v] \ me.release]
        /\ leftOver' = leftOver \ ({v} \X me.release)
        /\ UNCHANGED <<review, commitment, unasked>>
    BY <1>2, <1>6, <2>1 DEF MirrorWithdraw, rows
  <2>4. /\ \A u \in Reviews \ {v} : pending'[u] = pending[u]
        /\ pending'[v] = pending[v] \ me.release
    BY <2>3 DEF TypeInv
  <2>5. Alone(h, v)
    BY <1>2, <2>2, <2>3, <2>4 DEF Alone
  <2>6. Doing(handler[h], v)'
    BY <2>1, <2>2, <2>3 DEF Doing, BoardJob, CommitJob, ReleaseJob, Committing
  <2>7. \A r \in Reviewers : PromiseKept(v, r)' /\ Backed(v, r)'
    BY <1>2, <2>1, <2>3, <2>4 DEF Settled, ToAsk, ToWithdraw, PromiseKept, Backed
  <2>8. Settled(h, v)'
    BY <2>6, <2>7 DEF Settled
  <2> QED
    BY <2>5, <2>8, AloneKeeps
<1>7. CASE MirrorRequest(h)
  <2>1. me.at = "requesting"
    BY <1>7 DEF MirrorRequest, At
  <2>2. handler'[h] = Idle /\ \A g \in Handlers \ {h} : handler'[g] = handler[g]
    BY <1>7, NowAt DEF MirrorRequest, Done
  <2>3. /\ pending' = [pending EXCEPT ![v] = pending[v] \cup me.assign]
        /\ unasked' = unasked \ ({v} \X me.assign)
        /\ UNCHANGED <<review, commitment, leftOver>>
    BY <1>2, <1>7 DEF MirrorRequest, rows
  <2>4. /\ \A u \in Reviews \ {v} : pending'[u] = pending[u]
        /\ pending'[v] = pending[v] \cup me.assign
    BY <2>3 DEF TypeInv
  <2>5. Alone(h, v)
    BY <1>2, <2>2, <2>3, <2>4 DEF Alone
  <2>6. \A r \in me.assign : r \in review[v].assigned \/ commitment[v][r].requested
    BY <1>3, <2>1 DEF Doing, BoardJob, CommitJob, Committing
  <2>7. \A r \in Reviewers : PromiseKept(v, r)'
    BY <1>2, <2>1, <2>3, <2>4 DEF Settled, ToAsk, PromiseKept
  <2>8. \A r \in Reviewers : Backed(v, r)'
    BY <1>2, <2>1, <2>3, <2>4, <2>6 DEF Settled, ToWithdraw, Backed
  <2>9. Settled(h, v)'
    BY <2>2, <2>7, <2>8, IdleOwesNothing DEF Settled
  <2> QED
    BY <2>5, <2>9, AloneKeeps
<1> QED
  BY <1>5, <1>6, <1>7

\* A commitment's request is claimed, asked for, or dropped again.
LEMMA ClaimKeeps ==
  ASSUME TypeInv, TypeInv', RequestsInv, NEW h \in Handlers,
         handler[h].on \cap crossed = {}, crossed' = crossed,
         Asked(h) \/ ClaimRequest(h) \/ DropClaim(h)
  PROVE  RequestsInv'
<1> DEFINE me == handler[h]
<1>1. /\ me \in Jobs /\ me.at \in {"asking", "claiming", "dropping"} /\ me.at # "idle"
      /\ Committing(me)
  BY DEF TypeInv, Asked, ClaimRequest, DropClaim, At, Committing
<1>2. PICK v \in Reviews :
        /\ me.on = {v} /\ v \notin crossed /\ Settled(h, v)
        /\ \A g \in Handlers \ {h} : v \notin handler[g].on
  BY <1>1, AtWork
<1>3. me.release = {} /\ me.row.id > 0 /\ me.row # NoCommitment
  BY <1>1, <1>2 DEF Settled, Doing, CommitJob, NoCommitment
<1>4. PICK r \in Reviewers :
        /\ me.assign = {r} /\ commitment[v][r].id = me.row.id
        /\ me.at # "asking" => r \notin pending[v]
        /\ me.at = "dropping" => <<v, r>> \in unasked
  BY <1>1, <1>2 DEF Settled, Doing, CommitJob
<1>5. \A p \in Reviewers : Backed(v, p) /\ (p \notin ToAsk(me) => PromiseKept(v, p))
  BY <1>1, <1>2 DEF Settled, ToWithdraw
<1>6. CASE Asked(h)
  <2>1. UNCHANGED <<review, commitment, pending, unasked, leftOver>> /\ me.at = "asking"
    BY <1>6 DEF Asked, rows, history, At
  <2>2. \A p \in Reviewers : Backed(v, p)' /\ (p # r => PromiseKept(v, p)')
    BY <1>4, <1>5, <2>1 DEF Backed, PromiseKept, ToAsk
  <2>3. CASE r \in pending[v]
    <3>1. handler'[h] = Idle /\ \A g \in Handlers \ {h} : handler'[g] = handler[g]
      BY <1>2, <1>4, <1>6, <2>3, NowAt DEF Asked, Done
    <3>2. PromiseKept(v, r)'
      BY <2>1, <2>3 DEF PromiseKept
    <3>3. Alone(h, v)
      BY <1>2, <2>1, <3>1 DEF Alone
    <3>4. Settled(h, v)'
      BY <2>2, <3>1, <3>2, IdleOwesNothing DEF Settled
    <3> QED
      BY <3>3, <3>4, AloneKeeps
  <2>4. CASE r \notin pending[v]
    <3>1. /\ handler'[h].at = "claiming" /\ handler'[h].assign = {r}
          /\ handler'[h].release = {} /\ handler'[h].row = me.row /\ handler'[h].on = {v}
          /\ \A g \in Handlers \ {h} : handler'[g] = handler[g]
      <4>1. Now(h, [me EXCEPT !.at = "claiming"])
        BY <1>2, <1>4, <1>6, <2>4 DEF Asked
      <4> QED
        BY <1>1, <1>2, <1>3, <1>4, <4>1, NowAt DEF Jobs
    <3>2. Alone(h, v)
      BY <1>2, <2>1, <3>1 DEF Alone
    <3>3. Doing(handler[h], v)'
      BY <1>3, <1>4, <2>1, <2>4, <3>1 DEF Doing, BoardJob, CommitJob, ReleaseJob, Committing
    <3>4. Settled(h, v)'
      BY <2>2, <3>1, <3>3 DEF Settled, ToAsk
    <3> QED
      BY <3>2, <3>4, AloneKeeps
  <2> QED
    BY <2>3, <2>4
<1>7. ASSUME NEW flag \in BOOLEAN, SetRequested(h, v, flag)
      PROVE  /\ \A w \in Reviews \ {v} : commitment'[w] = commitment[w]
             /\ \A p \in Reviewers \ {r} : commitment'[v][p] = commitment[v][p]
             /\ commitment'[v][r].id = me.row.id /\ commitment'[v][r].requested = flag
             /\ commitment'[v][r] # NoCommitment
  <2>1. commitment[v][r] \in Commitments
    BY DEF TypeInv
  <2>2. commitment' = [commitment EXCEPT ![v] =
          [p \in Reviewers |-> IF p \in {r} /\ commitment[v][p].id = me.row.id
                                 THEN [commitment[v][p] EXCEPT !.requested = flag]
                                 ELSE commitment[v][p]]]
    BY <1>4, <1>7 DEF SetRequested
  <2>3. commitment'[v][r] = [commitment[v][r] EXCEPT !.requested = flag]
    BY <1>4, <2>2 DEF TypeInv
  <2>4. /\ commitment'[v][r].id = me.row.id /\ commitment'[v][r].requested = flag
        /\ commitment'[v][r] # NoCommitment
    BY <1>3, <1>4, <2>1, <2>3 DEF Commitments, NoCommitment
  <2>5. /\ \A w \in Reviews \ {v} : commitment'[w] = commitment[w]
        /\ \A p \in Reviewers \ {r} : commitment'[v][p] = commitment[v][p]
    BY <2>2 DEF TypeInv
  <2> QED
    BY <2>4, <2>5
<1>8. CASE ClaimRequest(h)
  <2>1. SetRequested(h, v, TRUE) /\ me.at = "claiming"
        /\ UNCHANGED <<review, pending, unasked, leftOver>>
    BY <1>2, <1>8 DEF ClaimRequest, At, history
  <2>2. StillMade(h, v)
    BY <1>4 DEF StillMade
  <2>3. /\ handler'[h].at = "requesting" /\ handler'[h].assign = {r}
        /\ handler'[h].release = {} /\ handler'[h].row = me.row /\ handler'[h].on = {v}
        /\ \A g \in Handlers \ {h} : handler'[g] = handler[g]
    <3>1. Now(h, [me EXCEPT !.at = "requesting"])
      BY <1>2, <1>8, <2>2 DEF ClaimRequest
    <3> QED
      BY <1>1, <1>2, <1>3, <1>4, <3>1, NowAt DEF Jobs
  <2>4. Alone(h, v)
    BY <1>2, <1>7, <2>1, <2>3 DEF Alone
  <2>5. Doing(handler[h], v)'
    BY <1>3, <1>4, <1>7, <2>1, <2>3 DEF Doing, BoardJob, CommitJob, ReleaseJob, Committing
  <2>6. \A p \in Reviewers : p # r => PromiseKept(v, p)'
    BY <1>4, <1>5, <1>7, <2>1 DEF ToAsk, PromiseKept
  <2>7. \A p \in Reviewers : Backed(v, p)'
    BY <1>4, <1>5, <1>7, <2>1 DEF Backed
  <2>8. Settled(h, v)'
    BY <2>3, <2>5, <2>6, <2>7 DEF Settled, ToAsk
  <2> QED
    BY <2>4, <2>8, AloneKeeps
<1>9. CASE DropClaim(h)
  <2>1. SetRequested(h, v, FALSE) /\ me.at = "dropping"
        /\ UNCHANGED <<review, pending, unasked, leftOver>>
    BY <1>2, <1>9 DEF DropClaim, At, history
  <2>2. handler'[h] = Idle /\ \A g \in Handlers \ {h} : handler'[g] = handler[g]
    BY <1>9, NowAt DEF DropClaim, Done
  <2>3. Alone(h, v)
    BY <1>2, <1>7, <2>1, <2>2 DEF Alone
  <2>4. \A p \in Reviewers : PromiseKept(v, p)'
    BY <1>4, <1>5, <1>7, <2>1 DEF ToAsk, PromiseKept
  <2>5. \A p \in Reviewers : Backed(v, p)'
    BY <1>4, <1>5, <1>7, <2>1 DEF Backed
  <2>6. Settled(h, v)'
    BY <2>2, <2>4, <2>5, IdleOwesNothing DEF Settled
  <2> QED
    BY <2>3, <2>6, AloneKeeps
<1> QED
  BY <1>6, <1>8, <1>9

\* A commitment is deleted, and its request kept by the board or taken back.
LEMMA ReleaseKeeps ==
  ASSUME TypeInv, TypeInv', RequestsInv, NEW h \in Handlers,
         handler[h].on \cap crossed = {}, crossed' = crossed,
         Delete(h) \/ CheckBoard(h) \/ TakeBack(h)
  PROVE  RequestsInv'
<1> DEFINE me == handler[h]
<1>1. me \in Jobs /\ me.at \in {"releasing", "checking", "taking back"} /\ me.at # "idle"
  BY DEF TypeInv, Delete, CheckBoard, TakeBack, At
<1>2. PICK v \in Reviews :
        /\ me.on = {v} /\ v \notin crossed /\ Settled(h, v)
        /\ \A g \in Handlers \ {h} : v \notin handler[g].on
  BY <1>1, AtWork
<1>3. /\ me.assign = {} /\ me.row # NoCommitment /\ me.release \subseteq Reviewers
      /\ \A r \in me.release :
           commitment[v][r] = IF me.at = "releasing" THEN me.row ELSE NoCommitment
  BY <1>1, <1>2 DEF Settled, Doing, ReleaseJob, Jobs
<1>4. \A p \in Reviewers : PromiseKept(v, p) /\ (p \notin ToWithdraw(me) => Backed(v, p))
  BY <1>1, <1>2 DEF Settled, ToAsk
<1>5. CASE Delete(h)
  <2>1. UNCHANGED <<review, pending, unasked, leftOver>> /\ me.at = "releasing"
    BY <1>5 DEF Delete, history, At
  <2>2. commitment' = [commitment EXCEPT ![v] =
          [r \in Reviewers |-> IF r \in me.release /\ commitment[v][r].id = me.row.id
                                 THEN NoCommitment ELSE commitment[v][r]]]
    BY <1>2, <1>5 DEF Delete
  <2>3. /\ \A w \in Reviews \ {v} : commitment'[w] = commitment[w]
        /\ \A p \in Reviewers :
             commitment'[v][p] = IF p \in me.release THEN NoCommitment ELSE commitment[v][p]
    BY <1>3, <2>1, <2>2 DEF TypeInv
  <2>4. \A p \in Reviewers : PromiseKept(v, p)' /\ (p \notin me.release => Backed(v, p)')
    BY <1>4, <2>1, <2>3 DEF PromiseKept, Backed, ToWithdraw
  <2>5. CASE ~me.row.requested
    <3>1. handler'[h] = Idle /\ \A g \in Handlers \ {h} : handler'[g] = handler[g]
      BY <1>5, <2>5, NowAt DEF Delete, Done
    <3>2. Alone(h, v)
      BY <1>2, <2>1, <2>3, <3>1 DEF Alone
    <3>3. \A p \in me.release : Backed(v, p)'
      BY <1>3, <1>4, <2>1, <2>3, <2>5 DEF Backed, ToWithdraw
    <3>4. Settled(h, v)'
      BY <2>4, <3>1, <3>3, IdleOwesNothing DEF Settled
    <3> QED
      BY <3>2, <3>4, AloneKeeps
  <2>6. CASE me.row.requested
    <3>1. /\ handler'[h].at = "checking" /\ handler'[h].assign = {}
          /\ handler'[h].release = me.release /\ handler'[h].row = me.row
          /\ handler'[h].on = {v} /\ \A g \in Handlers \ {h} : handler'[g] = handler[g]
      <4>1. Now(h, [me EXCEPT !.at = "checking"])
        BY <1>5, <2>6 DEF Delete
      <4>2. /\ handler'[h] = [me EXCEPT !.at = "checking"]
            /\ \A g \in Handlers \ {h} : handler'[g] = handler[g]
        BY <4>1, NowAt
      <4> QED
        BY <1>1, <1>2, <1>3, <4>2 DEF Jobs
    <3>2. Alone(h, v)
      BY <1>2, <2>1, <2>3, <3>1 DEF Alone
    <3>3. Doing(handler[h], v)'
      BY <1>3, <2>3, <3>1 DEF Doing, BoardJob, CommitJob, ReleaseJob, Committing
    <3>4. Settled(h, v)'
      BY <2>4, <3>1, <3>3 DEF Settled, ToWithdraw
    <3> QED
      BY <3>2, <3>4, AloneKeeps
  <2> QED
    BY <2>5, <2>6
<1>6. CASE CheckBoard(h)
  <2>1. UNCHANGED <<review, commitment, pending, unasked, leftOver>> /\ me.at = "checking"
    BY <1>6 DEF CheckBoard, rows, history, At
  <2>2. \A p \in Reviewers : PromiseKept(v, p)' /\ (p \notin me.release => Backed(v, p)')
    BY <1>4, <2>1 DEF PromiseKept, Backed, ToWithdraw
  <2>3. \/ handler'[h] = Idle /\ me.release \subseteq review[v].assigned
        \/ handler'[h] = [me EXCEPT !.at = "taking back"]
    BY <1>2, <1>6, NowAt DEF CheckBoard, Done
  <2>4. \A g \in Handlers \ {h} : handler'[g] = handler[g]
    BY <1>6, NowAt DEF CheckBoard, Done
  <2>5. CASE handler'[h] = Idle /\ me.release \subseteq review[v].assigned
    <3>1. Alone(h, v)
      BY <1>2, <2>1, <2>4, <2>5 DEF Alone
    <3>2. \A p \in me.release : Backed(v, p)'
      BY <2>1, <2>5 DEF Backed
    <3>3. Settled(h, v)'
      BY <2>2, <2>5, <3>2, IdleOwesNothing DEF Settled
    <3> QED
      BY <3>1, <3>3, AloneKeeps
  <2>6. CASE handler'[h] = [me EXCEPT !.at = "taking back"]
    <3>1. /\ handler'[h].at = "taking back" /\ handler'[h].assign = {}
          /\ handler'[h].release = me.release /\ handler'[h].row = me.row
          /\ handler'[h].on = {v}
      BY <1>1, <1>2, <1>3, <2>6 DEF Jobs
    <3>2. Alone(h, v)
      BY <1>2, <2>1, <2>4, <3>1 DEF Alone
    <3>3. Doing(handler[h], v)'
      BY <1>3, <2>1, <3>1 DEF Doing, BoardJob, CommitJob, ReleaseJob, Committing
    <3>4. Settled(h, v)'
      BY <2>2, <3>1, <3>3 DEF Settled, ToWithdraw
    <3> QED
      BY <3>2, <3>4, AloneKeeps
  <2> QED
    BY <2>3, <2>5, <2>6
<1>7. CASE TakeBack(h)
  <2>1. handler'[h] = Idle /\ \A g \in Handlers \ {h} : handler'[g] = handler[g]
    BY <1>7, NowAt DEF TakeBack, Done
  <2>2. /\ pending' = [pending EXCEPT ![v] = pending[v] \ me.release]
        /\ leftOver' = leftOver \ ({v} \X me.release) /\ me.at = "taking back"
        /\ UNCHANGED <<review, commitment, unasked>>
    BY <1>2, <1>7 DEF TakeBack, rows, At
  <2>3. /\ \A w \in Reviews \ {v} : pending'[w] = pending[w]
        /\ pending'[v] = pending[v] \ me.release
    BY <2>2 DEF TypeInv
  <2>4. Alone(h, v)
    BY <1>2, <2>1, <2>2, <2>3 DEF Alone
  <2>5. \A p \in Reviewers : PromiseKept(v, p)' /\ Backed(v, p)'
    BY <1>3, <1>4, <2>2, <2>3 DEF PromiseKept, Backed, ToWithdraw
  <2>6. Settled(h, v)'
    BY <2>1, <2>5, IdleOwesNothing DEF Settled
  <2> QED
    BY <2>4, <2>6, AloneKeeps
<1> QED
  BY <1>5, <1>6, <1>7

\* A call to the host fails: what was owed is on record as not done.
LEMMA FailureKeeps ==
  ASSUME TypeInv, TypeInv', RequestsInv, NEW h \in Handlers, HostFails(h),
         handler[h].on \cap crossed = {}, crossed' = crossed
  PROVE  RequestsInv'
<1> DEFINE me == handler[h]
<1>1. me \in Jobs /\ me.at \in {"withdrawing", "requesting", "asking", "taking back"}
      /\ me.at # "idle"
  BY DEF TypeInv, HostFails, At
<1>2. PICK v \in Reviews :
        /\ me.on = {v} /\ v \notin crossed /\ Settled(h, v)
        /\ \A g \in Handlers \ {h} : v \notin handler[g].on
  BY <1>1, AtWork
<1>3. /\ UNCHANGED <<review, commitment, pending>>
      /\ unasked' = unasked \cup ({v} \X me.assign)
      /\ leftOver' = IF me.at = "requesting" THEN leftOver
                     ELSE leftOver \cup ({v} \X me.release)
  BY <1>2 DEF HostFails, rows, At
<1>4. \A p \in Reviewers :
        /\ p \notin ToAsk(me) => PromiseKept(v, p)
        /\ p \notin ToWithdraw(me) => Backed(v, p)
  BY <1>2 DEF Settled
<1>5. \A p \in Reviewers : PromiseKept(v, p)'
  BY <1>3, <1>4 DEF PromiseKept, ToAsk
<1>6. \A p \in Reviewers : Backed(v, p)'
  BY <1>3, <1>4 DEF Backed, ToWithdraw
<1>7. CASE me.at = "requesting" /\ me.row # NoCommitment
  <2>1. handler' = [handler EXCEPT ![h] = [me EXCEPT !.at = "dropping"]]
    BY <1>7 DEF HostFails, At, Now
  <2>2. /\ handler'[h] = [me EXCEPT !.at = "dropping"]
        /\ \A g \in Handlers \ {h} : handler'[g] = handler[g]
    BY <2>1 DEF TypeInv
  <2>3. /\ handler'[h].at = "dropping" /\ handler'[h].assign = me.assign
        /\ handler'[h].release = me.release /\ handler'[h].row = me.row
        /\ handler'[h].on = {v}
    BY <1>1, <1>2, <2>2 DEF Jobs
  <2>4. Alone(h, v)
    BY <1>2, <1>3, <2>2, <2>3 DEF Alone
  <2>5. CommitJob(me, v) /\ Committing(me)
    BY <1>2, <1>7 DEF Settled, Doing, Committing
  <2>6. Doing(handler[h], v)'
    BY <1>3, <1>7, <2>3, <2>5 DEF Doing, BoardJob, CommitJob, ReleaseJob, Committing
  <2>7. Settled(h, v)'
    BY <1>5, <1>6, <2>6 DEF Settled
  <2> QED
    BY <2>4, <2>7, AloneKeeps
<1>8. CASE ~(me.at = "requesting" /\ me.row # NoCommitment)
  <2>1. Done(h)
    BY <1>8 DEF HostFails, At
  <2>2. handler'[h] = Idle /\ \A g \in Handlers \ {h} : handler'[g] = handler[g]
    BY <2>1, NowAt DEF Done
  <2>3. Alone(h, v)
    BY <1>2, <1>3, <2>2 DEF Alone
  <2>4. Settled(h, v)'
    BY <1>5, <1>6, <2>2, IdleOwesNothing DEF Settled
  <2> QED
    BY <2>3, <2>4, AloneKeeps
<1> QED
  BY <1>7, <1>8

\* Every step of a handler is about one review, and leaves what the others'
\* handlers do and owe alone.
Aside(h, v) ==
  /\ \A g \in Handlers \ {h} : handler'[g] = handler[g]
  /\ handler[h].on \subseteq {v} /\ handler'[h].on \subseteq {v}
  /\ \A w \in Reviews \ {v} :
       /\ review'[w] = review[w] /\ commitment'[w] = commitment[w] /\ pending'[w] = pending[w]
       /\ \A r \in Reviewers : <<w, r>> \in unasked' <=> <<w, r>> \in unasked
       /\ \A r \in Reviewers : <<w, r>> \in leftOver' <=> <<w, r>> \in leftOver

LEMMA BeginsAside ==
  ASSUME TypeInv, NEW h \in Handlers, NEW v \in Reviews,
         UpdateStatus(h, v) \/ Assign(h, v) \/ Reroll(h, v)
           \/ \E r \in Reviewers : Claim(h, v, r) \/ Commit(h, v, r) \/ Release(h, v, r)
  PROVE  Aside(h, v) /\ crossed' = IF Busy(v) THEN crossed \cup {v} ELSE crossed
<1>1. handler[h].on = {} /\ Cross(v) /\ UNCHANGED <<review, pending, unasked, leftOver>>
  BY DEF UpdateStatus, Assign, Reroll, Claim, Commit, Release, Begin, At, TypeInv, OnOne,
     rows, history
<1>2. \A w \in Reviews \ {v} : commitment'[w] = commitment[w]
  <2>1. commitment' = commitment
          \/ \E r \in Reviewers : \E made : commitment' = [commitment EXCEPT ![v][r] = made]
    BY DEF UpdateStatus, Assign, Reroll, Claim, Commit, Release, Begin, rows
  <2> QED
    BY <2>1 DEF TypeInv
<1>3. \E j : Now(h, j) /\ j.on = {v}
  <2>1. ASSUME NEW gesture, NEW j, j = [gesture EXCEPT !.on = {v}, !.read = review[v]],
               gesture \in Jobs
        PROVE  j.on = {v}
    BY <2>1 DEF Jobs
  <2>2. ASSUME NEW gesture \in Jobs, Begin(h, v, gesture)
        PROVE  \E j : Now(h, j) /\ j.on = {v}
    BY <2>1, <2>2 DEF Begin
  <2>3. \A next \in Statuses : [Idle EXCEPT !.at = "updating", !.next = next] \in Jobs
    BY IdleIs DEF Jobs, Idle, Places
  <2>4. \A assign \in SUBSET Reviewers, release \in SUBSET Reviewers :
          Assigning(assign, release) \in Jobs
    BY IdleIs DEF Jobs, Idle, Assigning, Places
  <2>5. \A r \in Reviewers :
          [Idle EXCEPT !.at = "releasing", !.release = {r}, !.row = commitment[v][r]] \in Jobs
    <3>1. \A r \in Reviewers : commitment[v][r] \in Commitments
      BY DEF TypeInv
    <3> QED
      BY <3>1, IdleIs DEF Jobs, Idle, Places
  <2>6. review[v].assigned \in SUBSET Reviewers
    BY DEF TypeInv, Rows
  <2>7. ASSUME NEW r \in Reviewers, Commit(h, v, r)
        PROVE  \E j : Now(h, j) /\ j.on = {v}
    <3>1. PICK made : Now(h, [Idle EXCEPT !.at = "asking", !.on = {v}, !.assign = {r},
                                          !.row = made])
      BY <2>7 DEF Commit
    <3> DEFINE j == [Idle EXCEPT !.at = "asking", !.on = {v}, !.assign = {r}, !.row = made]
    <3>2. j.on = {v}
      BY DEF Idle
    <3> HIDE DEF j
    <3> QED
      BY <3>1, <3>2 DEF j
  <2>8. CASE UpdateStatus(h, v)
    BY <2>2, <2>3, <2>8 DEF UpdateStatus
  <2>9. CASE Assign(h, v) \/ Reroll(h, v) \/ \E r \in Reviewers : Claim(h, v, r)
    <3>1. \E assign \in SUBSET Reviewers, release \in SUBSET Reviewers :
            Begin(h, v, Assigning(assign, release))
      BY <2>6, <2>9 DEF Assign, Reroll, Claim
    <3> QED
      BY <2>2, <2>4, <3>1
  <2>10. CASE \E r \in Reviewers : Release(h, v, r)
    BY <2>2, <2>5, <2>10 DEF Release
  <2> QED
    BY <2>7, <2>8, <2>9, <2>10
<1>4. handler'[h].on = {v} /\ \A g \in Handlers \ {h} : handler'[g] = handler[g]
  BY <1>3, NowAt
<1> QED
  BY <1>1, <1>2, <1>4 DEF Aside, Cross

Working(h) ==
  \/ WriteStatus(h) \/ AdjustOutstanding(h) \/ RecordAssignment(h) \/ Moved(h)
  \/ BoardWithdrawals(h) \/ MirrorWithdraw(h) \/ MirrorRequest(h)
  \/ Asked(h) \/ ClaimRequest(h) \/ DropClaim(h)
  \/ Delete(h) \/ CheckBoard(h) \/ TakeBack(h) \/ HostFails(h)

\* A handler at work goes on with its review, or is done with it.
LEMMA GoesOn ==
  ASSUME TypeInv, NEW h \in Handlers, Working(h)
  PROVE  /\ handler[h].at # "idle"
         /\ handler'[h].on = handler[h].on \/ handler'[h].on = {}
         /\ \A g \in Handlers \ {h} : handler'[g] = handler[g]
<1> DEFINE me == handler[h]
<1>1. me \in Jobs
  BY DEF TypeInv
<1> HIDE DEF me
<1>2. \A place, release, moves :
        /\ [me EXCEPT !.at = place].on = me.on
        /\ [me EXCEPT !.moves = moves].on = me.on
        /\ [me EXCEPT !.at = place, !.moves = moves].on = me.on
        /\ [me EXCEPT !.at = place, !.release = release].on = me.on
  BY <1>1 DEF Jobs
<1>3. Idle.on = {}
  BY DEF Idle
<1>4. \E j : Now(h, j) /\ (j.on = me.on \/ j.on = {})
  <2>1. CASE Moved(h)
    BY <1>2, <1>3, <2>1 DEF Moved, Done, me
  <2>2. CASE Asked(h)
    BY <1>2, <1>3, <2>2 DEF Asked, Done, me
  <2>3. CASE ClaimRequest(h)
    BY <1>2, <1>3, <2>3 DEF ClaimRequest, Done, me
  <2>4. CASE Delete(h)
    BY <1>2, <1>3, <2>4 DEF Delete, Done, me
  <2>5. CASE CheckBoard(h)
    BY <1>2, <1>3, <2>5 DEF CheckBoard, Done, me
  <2>6. CASE HostFails(h)
    BY <1>2, <1>3, <2>6 DEF HostFails, Done, me
  <2>7. CASE MirrorRequest(h) \/ DropClaim(h) \/ TakeBack(h)
    BY <1>3, <2>7 DEF MirrorRequest, DropClaim, TakeBack, Done
  <2>8. CASE WriteStatus(h)
    <3>1. PICK moves : Now(h, [me EXCEPT !.at = "moving", !.moves = moves])
      BY <2>8 DEF WriteStatus, me
    <3> QED
      BY <1>2, <3>1
  <2>9. CASE AdjustOutstanding(h)
    BY <1>2, <2>9 DEF AdjustOutstanding, me
  <2>10. CASE RecordAssignment(h)
    <3> DEFINE released == handler[h].read.assigned \cap handler[h].release
               moves == {<<r, -1>> : r \in released} \cup {<<r, 1>> : r \in handler[h].assign}
    <3>1. Now(h, [handler[h] EXCEPT !.at = "moving", !.moves = moves])
      BY <2>10 DEF RecordAssignment
    <3> HIDE DEF moves
    <3>2. Now(h, [me EXCEPT !.at = "moving", !.moves = moves])
      BY <3>1 DEF me
    <3> QED
      BY <1>2, <3>2
  <2>11. CASE BoardWithdrawals(h)
    <3>1. PICK release : Now(h, [me EXCEPT !.at = "withdrawing", !.release = release])
      BY <2>11 DEF BoardWithdrawals, me
    <3> QED
      BY <1>2, <3>1
  <2>12. CASE MirrorWithdraw(h)
    BY <1>2, <2>12 DEF MirrorWithdraw, me
  <2> QED
    BY <2>1, <2>2, <2>3, <2>4, <2>5, <2>6, <2>7, <2>8, <2>9, <2>10, <2>11, <2>12 DEF Working
<1>5. me.at # "idle"
  BY DEF Working, WriteStatus, AdjustOutstanding, RecordAssignment, Moved, BoardWithdrawals,
     MirrorWithdraw, MirrorRequest, Asked, ClaimRequest, DropClaim, Delete, CheckBoard,
     TakeBack, HostFails, At, me
<1> QED
  BY <1>4, <1>5, NowAt DEF me

LEMMA WorkAside ==
  ASSUME TypeInv, NEW h \in Handlers, NEW v \in Reviews, handler[h].on = {v}, Working(h)
  PROVE  Aside(h, v) /\ crossed' = crossed
<1>1. handler'[h].on \subseteq {v} /\ \A g \in Handlers \ {h} : handler'[g] = handler[g]
  BY GoesOn
<1>2. crossed' = crossed
  BY DEF Working, WriteStatus, AdjustOutstanding, RecordAssignment, Moved, BoardWithdrawals,
     MirrorWithdraw, MirrorRequest, Asked, ClaimRequest, DropClaim, Delete, CheckBoard,
     TakeBack, HostFails, Drift, races
<1>3. \A w \in Reviews \ {v} : review'[w] = review[w]
  <2>1. review' = review \/ \E next : review' = [review EXCEPT ![v].status = next]
          \/ \E row : review' = [review EXCEPT ![v] = row]
    BY DEF Working, WriteStatus, AdjustOutstanding, RecordAssignment, Moved, BoardWithdrawals,
       MirrorWithdraw, MirrorRequest, Asked, ClaimRequest, DropClaim, Delete, CheckBoard,
       TakeBack, HostFails, rows
  <2> QED
    BY <2>1 DEF TypeInv
<1>4. \A w \in Reviews \ {v} : commitment'[w] = commitment[w]
  <2>1. commitment' = commitment \/ \E row : commitment' = [commitment EXCEPT ![v] = row]
    BY DEF Working, WriteStatus, AdjustOutstanding, RecordAssignment, Moved, BoardWithdrawals,
       MirrorWithdraw, MirrorRequest, Asked, ClaimRequest, DropClaim, Delete, CheckBoard,
       TakeBack, HostFails, rows, SetRequested
  <2> QED
    BY <2>1 DEF TypeInv
<1>5. \A w \in Reviews \ {v} : pending'[w] = pending[w]
  <2>1. pending' = pending \/ \E all : pending' = [pending EXCEPT ![v] = all]
    BY DEF Working, WriteStatus, AdjustOutstanding, RecordAssignment, Moved, BoardWithdrawals,
       MirrorWithdraw, MirrorRequest, Asked, ClaimRequest, DropClaim, Delete, CheckBoard,
       TakeBack, HostFails
  <2> QED
    BY <2>1 DEF TypeInv
<1>6. /\ unasked' \ ({v} \X Reviewers) = unasked \ ({v} \X Reviewers)
      /\ leftOver' \ ({v} \X Reviewers) = leftOver \ ({v} \X Reviewers)
  <2>1. handler[h].assign \subseteq Reviewers /\ handler[h].release \subseteq Reviewers
    BY DEF TypeInv, Jobs
  <2>2. /\ \/ unasked' = unasked
           \/ unasked' = unasked \ ({v} \X handler[h].assign)
           \/ unasked' = unasked \cup ({v} \X handler[h].assign)
        /\ \/ leftOver' = leftOver
           \/ leftOver' = leftOver \ ({v} \X handler[h].release)
           \/ leftOver' = leftOver \ ({v} \X (handler[h].release \ handler[h].assign))
           \/ leftOver' = leftOver \cup ({v} \X handler[h].release)
    BY DEF Working, WriteStatus, AdjustOutstanding, RecordAssignment, Moved, BoardWithdrawals,
       MirrorWithdraw, MirrorRequest, Asked, ClaimRequest, DropClaim, Delete, CheckBoard,
       TakeBack, HostFails, history
  <2> QED
    BY <2>1, <2>2
<1>7. \A w \in Reviews \ {v}, r \in Reviewers :
        /\ <<w, r>> \in unasked' <=> <<w, r>> \in unasked
        /\ <<w, r>> \in leftOver' <=> <<w, r>> \in leftOver
  BY <1>6
<1> QED
  BY <1>1, <1>2, <1>3, <1>4, <1>5, <1>7 DEF Aside

\* A step about a crossed review is nothing to the others.
LEMMA CrossedKeeps ==
  ASSUME TypeInv, TypeInv', RequestsInv, NEW h \in Handlers, NEW v \in Reviews, Aside(h, v),
         v \in crossed', crossed' = crossed \/ crossed' = crossed \cup {v}
  PROVE  RequestsInv'
<1>1. OneEach'
  BY DEF Aside, RequestsInv, OneEach
<1>2. ASSUME NEW w \in Reviews, w # v, NEW j, Doing(j, w)
      PROVE  Doing(j, w)'
  BY <1>2 DEF Aside, Doing, BoardJob, CommitJob, ReleaseJob
<1>3. ASSUME NEW g \in Handlers, NEW w \in handler'[g].on \ crossed'
      PROVE  Doing(handler[g], w)'
  <2>1. w \in Reviews /\ w # v /\ w \notin crossed
    BY <1>3 DEF TypeInv, Jobs
  <2>2. handler'[g] = handler[g]
    BY <1>3, <2>1 DEF Aside
  <2>3. PICK j : j = handler[g]
    OBVIOUS
  <2>4. Doing(j, w)'
    BY <1>2, <1>3, <2>1, <2>2, <2>3 DEF RequestsInv
  <2> QED
    BY <2>2, <2>3, <2>4
<1>4. ASSUME NEW w \in Reviews \ crossed', NEW r \in Reviewers
      PROVE  /\ (\A g \in Handlers : w \in handler'[g].on => r \notin ToAsk(handler'[g]))
                  => PromiseKept(w, r)'
             /\ (\A g \in Handlers : w \in handler'[g].on => r \notin ToWithdraw(handler'[g]))
                  => Backed(w, r)'
  <2>1. w \in Reviews \ crossed /\ w # v
    OBVIOUS
  <2>2. \A g \in Handlers : w \in handler'[g].on \/ w \in handler[g].on
                              => handler'[g] = handler[g]
    BY <2>1 DEF Aside
  <2>3. (PromiseKept(w, r) => PromiseKept(w, r)') /\ (Backed(w, r) => Backed(w, r)')
    BY <2>1 DEF Aside, PromiseKept, Backed
  <2> QED
    BY <2>1, <2>2, <2>3 DEF RequestsInv
<1> QED
  BY <1>1, <1>3, <1>4 DEF RequestsInv

\* Every step keeps what is owed to the host on the way.
LEMMA RequestsStep == TypeInv /\ RequestsInv /\ [Next]_vars => RequestsInv'
<1> SUFFICES ASSUME TypeInv, RequestsInv, [Next]_vars PROVE RequestsInv'
  OBVIOUS
<1>1. TypeInv'
  BY TypeStep
<1>2. CASE UNCHANGED vars
  <2>1. UNCHANGED <<review, commitment, pending, handler, unasked, leftOver, crossed>>
    BY <1>2 DEF vars, rows, history, races
  <2>2. OneEach' /\ \A v, r : (PromiseKept(v, r) => PromiseKept(v, r)')
                           /\ (Backed(v, r) => Backed(v, r)')
    BY <2>1 DEF RequestsInv, OneEach, PromiseKept, Backed
  <2>3. ASSUME NEW h \in Handlers, NEW v \in handler[h].on, Doing(handler[h], v)
        PROVE  Doing(handler[h], v)'
    <3>1. BoardJob(handler[h], v)'
      BY <2>1, <2>3 DEF Doing, BoardJob, Committing
    <3>2. CommitJob(handler[h], v)'
      BY <2>1, <2>3 DEF Doing, CommitJob, Committing
    <3>3. ReleaseJob(handler[h], v)'
      BY <2>1, <2>3 DEF Doing, ReleaseJob
    <3> QED
      BY <3>1, <3>2, <3>3 DEF Doing
  <2> QED
    BY <2>1, <2>2, <2>3 DEF RequestsInv
<1>3. ASSUME NEW h \in Handlers, NEW v \in Reviews,
             UpdateStatus(h, v) \/ Assign(h, v) \/ Reroll(h, v)
               \/ \E r \in Reviewers : Claim(h, v, r) \/ Commit(h, v, r) \/ Release(h, v, r)
      PROVE  RequestsInv'
  <2>1. Aside(h, v) /\ (crossed' = crossed \/ crossed' = crossed \cup {v})
    BY <1>3, BeginsAside
  <2>2. CASE v \in crossed'
    BY <1>1, <2>1, <2>2, CrossedKeeps
  <2>3. CASE v \notin crossed'
    BY <1>1, <1>3, <2>3, GesturesKeep, CommitKeeps
  <2> QED
    BY <2>2, <2>3
<1>4. ASSUME NEW h \in Handlers, Working(h)
      PROVE  RequestsInv'
  <2>1. PICK v \in Reviews : handler[h].on = {v}
    BY <1>4, GoesOn DEF TypeInv, OnOne
  <2>2. Aside(h, v) /\ crossed' = crossed
    BY <1>4, <2>1, WorkAside
  <2>3. CASE v \in crossed
    BY <1>1, <2>2, <2>3, CrossedKeeps
  <2>4. CASE v \notin crossed
    <3>1. handler[h].on \cap crossed = {}
      BY <2>1, <2>4
    <3> QED
      BY <1>1, <1>4, <2>2, <3>1, BoardKeeps, MirrorKeeps, ClaimKeeps, ReleaseKeeps,
         FailureKeeps DEF Working
  <2> QED
    BY <2>3, <2>4
<1> QED
  BY <1>2, <1>3, <1>4 DEF Next, Working

\* Nobody promised anything yet, and the host waits on nobody.
LEMMA RequestsInit == Init => RequestsInv
<1> SUFFICES ASSUME Init PROVE RequestsInv
  OBVIOUS
<1>1. \A h \in Handlers : handler[h] = Idle
  BY DEF Init
<1>2. \A v \in Reviews, r \in Reviewers : PromiseKept(v, r) /\ Backed(v, r)
  BY DEF Init, PromiseKept, Backed
<1> QED
  BY <1>1, <1>2, IdleOwesNothing DEF RequestsInv, OneEach

\* What is owed on the way is kept at every state of the specification.
LEMMA RequestsHold == Spec => [](TypeInv /\ RequestsInv)
<1>1. Init => RequestsInv
  BY RequestsInit
<1> QED
  BY <1>1, BoardIsTyped, RequestsStep, PTL DEF Spec

\* Nobody promised a review and was left off the host's list of who is waited
\* on, unless gestures on it overlapped: reviewRequests.ts:157-161.
THEOREM PromisesReachTheHost == Spec => []PromiseKeepsRequest
<1>1. TypeInv /\ RequestsInv => PromiseKeepsRequest
  BY DEF RequestsInv, PromiseKeepsRequest, PromiseKept, Busy
<1> QED
  BY <1>1, RequestsHold, PTL

\* And the host waits on nobody the board and the promises have let go, unless
\* gestures on the review overlapped: reviewRequests.ts:74-76 and 105-110.
THEOREM RequestsAreBacked == Spec => []NoStrayRequest
<1>1. TypeInv /\ RequestsInv => NoStrayRequest
  BY DEF RequestsInv, NoStrayRequest, Backed, Busy
<1> QED
  BY <1>1, RequestsHold, PTL

-----------------------------------------------------------------------------
(* The load. *)

\* The load a handler still has to move.
MovesJob(j, v) ==
  /\ j.at # "moving" => j.moves = {}
  /\ j.at = "recording" => j.assign \cap j.read.assigned = {} /\ j.assign \cap j.release = {}
  /\ \A r \in Reviewers \ drifted : <<r, 1>> \in j.moves => v \in Held(r)

Balanced(r) ==
  load[r] + Cardinality(OnTheWay(r, 1)) - Cardinality(OnTheWay(r, -1)) = Cardinality(Held(r))

\* No two handlers bring the same person up for the same review.
UpOnce(r) ==
  \A g, h \in Handlers :
    g # h /\ <<r, 1>> \in handler[g].moves /\ <<r, 1>> \in handler[h].moves
      => handler[g].on \cap handler[h].on = {}

LoadInv ==
  /\ \A h \in Handlers : \A v \in handler[h].on : MovesJob(handler[h], v)
  /\ \A h \in Handlers : handler[h].at = "idle" => handler[h].moves = {}
  /\ \A r \in Reviewers \ drifted : Balanced(r) /\ UpOnce(r)

\* The handlers and the reviews can be counted.
LEMMA CountsAreNat ==
  ASSUME NEW r
  PROVE  /\ IsFiniteSet(Held(r)) /\ Cardinality(Held(r)) \in Nat
         /\ \A d : IsFiniteSet(OnTheWay(r, d)) /\ Cardinality(OnTheWay(r, d)) \in Nat
<1>1. Held(r) \in SUBSET Reviews /\ \A d : OnTheWay(r, d) \in SUBSET Handlers
  BY DEF Held, OnTheWay
<1>2. \A S \in SUBSET Reviews : IsFiniteSet(S)
  BY BoardIsFinite, FS_Subset
<1>3. \A S \in SUBSET Handlers : IsFiniteSet(S)
  BY BoardIsFinite, FS_Subset
<1> QED
  BY <1>1, <1>2, <1>3, FS_CardinalityType

\* Each load still to go up is that of a review held, so what goes down is
\* there: the floor of adjustOutstanding is never reached.
LEMMA LoadIsThere ==
  ASSUME TypeInv, LoadInv, NEW r \in Reviewers \ drifted
  PROVE  load[r] \in Int /\ load[r] >= Cardinality(OnTheWay(r, -1))
<1> DEFINE f == [h \in OnTheWay(r, 1) |-> CHOOSE v \in Reviews : v \in handler[h].on]
<1>1. ASSUME NEW h \in OnTheWay(r, 1)
      PROVE  f[h] \in handler[h].on /\ f[h] \in Held(r) /\ h \in Handlers
  <2>1. h \in Handlers /\ <<r, 1>> \in handler[h].moves
    BY DEF OnTheWay
  <2>2. handler[h].at # "idle"
    BY <2>1 DEF LoadInv
  <2>3. \E v \in Reviews : v \in handler[h].on
    BY <2>1, <2>2 DEF TypeInv, OnOne
  <2>4. f[h] \in handler[h].on
    BY <2>3
  <2> HIDE DEF f
  <2>5. MovesJob(handler[h], f[h])
    BY <2>1, <2>4 DEF LoadInv
  <2> QED
    BY <2>1, <2>4, <2>5 DEF MovesJob
<1>2. f \in [OnTheWay(r, 1) -> Held(r)]
  BY <1>1
<1>3. \A g, h \in OnTheWay(r, 1) : f[g] = f[h] => g = h
  <2> HIDE DEF f
  <2> QED
    BY <1>1 DEF LoadInv, UpOnce, OnTheWay
<1>4. f \in Injection(OnTheWay(r, 1), Held(r))
  <2> HIDE DEF f
  <2> QED
    BY <1>2, <1>3 DEF Injection, IsInjective
<1>5. Cardinality(OnTheWay(r, 1)) <= Cardinality(Held(r))
  BY <1>4, CountsAreNat, FS_Injection
<1>6. load[r] \in Int /\ Balanced(r)
  BY DEF TypeInv, LoadInv
<1> QED
  BY <1>5, <1>6, CountsAreNat DEF Balanced

\* A handler that writes a review's row sets out to move the load of exactly
\* those for whom that changes what they hold.
LEMMA WriteBalances ==
  ASSUME TypeInv, TypeInv', LoadInv, NEW h \in Handlers, NEW v \in Reviews,
         NEW r \in Reviewers \ drifted, load' = load, handler[h].moves = {},
         \A g \in Handlers \ {h} : handler'[g] = handler[g],
         \A w \in Reviews \ {v} : review'[w] = review[w],
         <<r, 1>> \in handler'[h].moves <=> v \in Held(r)' /\ v \notin Held(r),
         <<r, -1>> \in handler'[h].moves <=> v \in Held(r) /\ v \notin Held(r)'
  PROVE  Balanced(r)'
<1>1. \A d \in Deltas :
        OnTheWay(r, d)' = IF <<r, d>> \in handler'[h].moves THEN OnTheWay(r, d) \cup {h}
                          ELSE OnTheWay(r, d)
  BY DEF OnTheWay, Deltas
<1>2. \A d : h \notin OnTheWay(r, d)
  BY DEF OnTheWay
<1>3. Held(r)' = IF v \in Held(r)' THEN Held(r) \cup {v} ELSE Held(r) \ {v}
  BY DEF Held
<1>4. /\ IsFiniteSet(Held(r)) /\ Cardinality(Held(r)) \in Nat
      /\ \A d : IsFiniteSet(OnTheWay(r, d)) /\ Cardinality(OnTheWay(r, d)) \in Nat
  BY CountsAreNat
<1>5. \A d : Cardinality(OnTheWay(r, d) \cup {h}) = Cardinality(OnTheWay(r, d)) + 1
  BY <1>2, <1>4, FS_AddElement
<1>6. load[r] \in Int /\ Balanced(r) /\ -1 \in Deltas /\ 1 \in Deltas
  BY DEF TypeInv, LoadInv, Deltas
<1>7. CASE v \in Held(r)' /\ v \notin Held(r)
  <2>1. Cardinality(Held(r)') = Cardinality(Held(r)) + 1
    BY <1>3, <1>4, <1>7, FS_AddElement
  <2>2. OnTheWay(r, 1)' = OnTheWay(r, 1) \cup {h} /\ OnTheWay(r, -1)' = OnTheWay(r, -1)
    BY <1>1, <1>6, <1>7
  <2> QED
    BY <1>4, <1>5, <1>6, <2>1, <2>2 DEF Balanced
<1>8. CASE v \in Held(r) /\ v \notin Held(r)'
  <2>1. Cardinality(Held(r)') = Cardinality(Held(r)) - 1
    BY <1>3, <1>4, <1>8, FS_RemoveElement
  <2>2. OnTheWay(r, 1)' = OnTheWay(r, 1) /\ OnTheWay(r, -1)' = OnTheWay(r, -1) \cup {h}
    BY <1>1, <1>6, <1>8
  <2> QED
    BY <1>4, <1>5, <1>6, <2>1, <2>2 DEF Balanced
<1>9. CASE v \in Held(r) <=> v \in Held(r)'
  <2>1. Held(r)' = Held(r)
    BY <1>3, <1>9
  <2>2. OnTheWay(r, 1)' = OnTheWay(r, 1) /\ OnTheWay(r, -1)' = OnTheWay(r, -1)
    BY <1>1, <1>6, <1>9
  <2> QED
    BY <1>6, <2>1, <2>2 DEF Balanced
<1> QED
  BY <1>7, <1>8, <1>9

\* A step that has no load to move leaves the load where it is.
LEMMA QuietKeeps ==
  ASSUME TypeInv, TypeInv', LoadInv, NEW h \in Handlers, UNCHANGED <<review, load, drifted>>,
         \A g \in Handlers \ {h} : handler'[g] = handler[g],
         handler[h].moves = {}, handler'[h].moves = {},
         handler'[h].at = "recording" =>
           /\ handler'[h].assign \cap handler'[h].read.assigned = {}
           /\ handler'[h].assign \cap handler'[h].release = {}
  PROVE  LoadInv'
<1>1. \A r : Held(r)' = Held(r)
  BY DEF Held
<1>2. \A r, d : OnTheWay(r, d)' = OnTheWay(r, d)
  BY DEF OnTheWay
<1>3. \A r \in Reviewers \ drifted : Balanced(r)'
  BY <1>1, <1>2 DEF LoadInv, Balanced
<1>6. \A r \in Reviewers \ drifted : UpOnce(r)'
  BY DEF LoadInv, UpOnce
<1>4. ASSUME NEW g \in Handlers, NEW v \in handler'[g].on
      PROVE  MovesJob(handler[g], v)'
  BY <1>1, <1>4 DEF LoadInv, MovesJob
<1>5. \A g \in Handlers : handler'[g].at = "idle" => handler'[g].moves = {}
  BY DEF LoadInv
<1> QED
  BY <1>3, <1>4, <1>5, <1>6 DEF LoadInv

\* The gestures that begin have no load to move yet, and an assignment is of
\* people who are not on the review.
LEMMA BeginsQuiet ==
  ASSUME TypeInv, TypeInv', LoadInv, NEW h \in Handlers, NEW v \in Reviews, NEW j,
         At(h, "idle"), handler' = [handler EXCEPT ![h] = j], UNCHANGED <<review, load, drifted>>,
         j.moves = {}, j.on = {v},
         j.at = "recording" => j.assign \cap j.read.assigned = {} /\ j.assign \cap j.release = {}
  PROVE  LoadInv'
<1>1. handler[h].moves = {}
  BY DEF LoadInv, At
<1>2. handler'[h] = j /\ \A g \in Handlers \ {h} : handler'[g] = handler[g]
  BY DEF TypeInv
<1> QED
  BY <1>1, <1>2, QuietKeeps

\* The gestures, one by one.
LEMMA GesturesAreQuiet ==
  ASSUME TypeInv, TypeInv', LoadInv, NEW h \in Handlers, NEW v \in Reviews,
         UpdateStatus(h, v) \/ Assign(h, v) \/ Reroll(h, v)
           \/ \E r \in Reviewers : Claim(h, v, r) \/ Commit(h, v, r) \/ Release(h, v, r)
  PROVE  LoadInv'
<1>1. ASSUME NEW gesture \in Jobs, gesture.moves = {}, Begin(h, v, gesture),
             gesture.at = "recording" =>
               /\ gesture.assign \cap review[v].assigned = {}
               /\ gesture.assign \cap gesture.release = {}
      PROVE  LoadInv'
  <2> DEFINE j == [gesture EXCEPT !.on = {v}, !.read = review[v]]
  <2>1. /\ j.moves = {} /\ j.on = {v} /\ j.at = gesture.at /\ j.read = review[v]
        /\ j.assign = gesture.assign /\ j.release = gesture.release
    BY <1>1 DEF Jobs
  <2>2. At(h, "idle") /\ handler' = [handler EXCEPT ![h] = j] /\ UNCHANGED <<review, load, drifted>>
    BY <1>1 DEF Begin, Now, rows, Cross
  <2> HIDE DEF j
  <2> QED
    BY <1>1, <2>1, <2>2, BeginsQuiet
<1>2. CASE UpdateStatus(h, v)
  <2>1. PICK next \in Statuses : Begin(h, v, [Idle EXCEPT !.at = "updating", !.next = next])
    BY <1>2 DEF UpdateStatus
  <2>2. [Idle EXCEPT !.at = "updating", !.next = next] \in Jobs
    BY IdleIs DEF Jobs, Idle, Places
  <2> QED
    BY <1>1, <2>1, <2>2 DEF Idle
<1>3. ASSUME NEW assign \in SUBSET Reviewers, NEW release \in SUBSET Reviewers,
             assign \cap review[v].assigned = {}, assign \cap release = {},
             Begin(h, v, Assigning(assign, release))
      PROVE  LoadInv'
  <2>1. Assigning(assign, release) \in Jobs
    BY IdleIs DEF Jobs, Idle, Places, Assigning
  <2>2. /\ Assigning(assign, release).moves = {} /\ Assigning(assign, release).assign = assign
        /\ Assigning(assign, release).release = release
    BY DEF Assigning, Idle
  <2> QED
    BY <1>1, <1>3, <2>1, <2>2
<1>4. CASE Assign(h, v)
  <2>1. PICK selected \in (SUBSET (Reviewers \ review[v].assigned)) \ {{}} :
          Begin(h, v, Assigning(selected, {}))
    BY <1>4 DEF Assign
  <2>2. selected \in SUBSET Reviewers /\ selected \cap review[v].assigned = {}
    BY <2>1
  <2> QED
    BY <1>3, <1>4, <2>1, <2>2 DEF Assign
<1>5. CASE Reroll(h, v)
  <2>1. review[v].assigned \in SUBSET Reviewers
    BY DEF TypeInv, Rows
  <2> QED
    BY <1>3, <1>5, <2>1 DEF Reroll
<1>6. ASSUME NEW r \in Reviewers, Claim(h, v, r)
      PROVE  LoadInv'
  BY <1>3, <1>6 DEF Claim
<1>7. ASSUME NEW r \in Reviewers, Commit(h, v, r)
      PROVE  LoadInv'
  <2>1. PICK made : made = [id |-> gestures + 1, requested |-> FALSE]
    OBVIOUS
  <2> DEFINE j == [Idle EXCEPT !.at = "asking", !.on = {v}, !.assign = {r}, !.row = made]
  <2>2. At(h, "idle") /\ handler' = [handler EXCEPT ![h] = j] /\ UNCHANGED <<review, load, drifted>>
    BY <1>7, <2>1 DEF Commit, Now, Cross
  <2>3. j.moves = {} /\ j.on = {v} /\ j.at # "recording"
    BY DEF Idle
  <2> HIDE DEF j
  <2> QED
    BY <2>2, <2>3, BeginsQuiet
<1>8. ASSUME NEW r \in Reviewers, Release(h, v, r)
      PROVE  LoadInv'
  <2>1. PICK c \in Commitments :
          Begin(h, v, [Idle EXCEPT !.at = "releasing", !.release = {r}, !.row = c])
    BY <1>8 DEF Release, TypeInv
  <2> DEFINE gesture == [Idle EXCEPT !.at = "releasing", !.release = {r}, !.row = c]
  <2>2. gesture \in Jobs /\ gesture.moves = {} /\ gesture.at # "recording"
    BY IdleIs DEF Jobs, Idle, Places
  <2> HIDE DEF gesture
  <2> QED
    BY <1>1, <2>1, <2>2 DEF gesture
<1> QED
  BY <1>2, <1>4, <1>5, <1>6, <1>7, <1>8

\* Nothing that is done with the host moves the load.
LEMMA HostIsQuiet ==
  ASSUME TypeInv, TypeInv', LoadInv, NEW h \in Handlers,
         \/ Moved(h) \/ BoardWithdrawals(h) \/ MirrorWithdraw(h) \/ MirrorRequest(h)
         \/ Asked(h) \/ ClaimRequest(h) \/ DropClaim(h)
         \/ Delete(h) \/ CheckBoard(h) \/ TakeBack(h) \/ HostFails(h)
  PROVE  LoadInv'
<1> DEFINE me == handler[h]
<1>1. me \in Jobs
  BY DEF TypeInv
<1>2. me.moves = {} /\ UNCHANGED <<review, load, drifted>>
  <2>1. CASE Moved(h)
    BY <2>1 DEF Moved, rows, races
  <2>2. CASE ~Moved(h)
    <3>1. me.at # "moving" /\ me.at # "idle"
      BY <2>2 DEF BoardWithdrawals, MirrorWithdraw, MirrorRequest, Asked, ClaimRequest,
         DropClaim, Delete, CheckBoard, TakeBack, HostFails, At
    <3>2. PICK v \in Reviews : me.on = {v}
      BY <3>1 DEF TypeInv, OnOne
    <3>3. me.moves = {}
      BY <3>1, <3>2 DEF LoadInv, MovesJob
    <3>4. UNCHANGED <<review, load, drifted>>
      BY <2>2 DEF BoardWithdrawals, MirrorWithdraw, MirrorRequest, Asked, ClaimRequest,
         DropClaim, Delete, CheckBoard, TakeBack, HostFails, rows, races
    <3> QED
      BY <3>3, <3>4
  <2> QED
    BY <2>1, <2>2
<1>3. \E j : Now(h, j) /\ j.moves = {} /\ j.at # "recording"
  <2>1. Idle.moves = {} /\ Idle.at # "recording"
    BY DEF Idle
  <2>2. ASSUME NEW place, place # "recording", Now(h, [me EXCEPT !.at = place])
        PROVE  \E j : Now(h, j) /\ j.moves = {} /\ j.at # "recording"
    <3>1. PICK j : j = [me EXCEPT !.at = place]
      OBVIOUS
    <3>2. j.moves = {} /\ j.at # "recording"
      BY <1>1, <1>2, <2>2, <3>1 DEF Jobs
    <3> QED
      BY <2>2, <3>1, <3>2
  <2>3. ASSUME NEW left, Now(h, [me EXCEPT !.at = "withdrawing", !.release = left])
        PROVE  \E j : Now(h, j) /\ j.moves = {} /\ j.at # "recording"
    <3>1. PICK j : j = [me EXCEPT !.at = "withdrawing", !.release = left]
      OBVIOUS
    <3>2. j.moves = {} /\ j.at # "recording"
      BY <1>1, <1>2, <3>1 DEF Jobs
    <3> QED
      BY <2>3, <3>1, <3>2
  <2>4. CASE Now(h, Idle)
    BY <2>1, <2>4
  <2>5. CASE Moved(h)
    <3>1. \/ Now(h, Idle)
          \/ Now(h, [me EXCEPT !.at = IF me.release = {} THEN "requesting" ELSE "withdrawals"])
      BY <2>5 DEF Moved, Done
    <3> QED
      BY <2>2, <2>4, <3>1
  <2>6. CASE BoardWithdrawals(h)
    BY <2>3, <2>6 DEF BoardWithdrawals
  <2>7. CASE MirrorWithdraw(h)
    BY <2>2, <2>7 DEF MirrorWithdraw
  <2>8. CASE Asked(h)
    BY <2>2, <2>4, <2>8 DEF Asked, Done
  <2>9. CASE ClaimRequest(h)
    BY <2>2, <2>4, <2>9 DEF ClaimRequest, Done
  <2>10. CASE Delete(h)
    BY <2>2, <2>4, <2>10 DEF Delete, Done
  <2>11. CASE CheckBoard(h)
    BY <2>2, <2>4, <2>11 DEF CheckBoard, Done
  <2>12. CASE HostFails(h)
    BY <2>2, <2>4, <2>12 DEF HostFails, Done
  <2>13. CASE MirrorRequest(h) \/ DropClaim(h) \/ TakeBack(h)
    BY <2>4, <2>13 DEF MirrorRequest, DropClaim, TakeBack, Done
  <2> QED
    BY <2>5, <2>6, <2>7, <2>8, <2>9, <2>10, <2>11, <2>12, <2>13
<1>4. handler'[h].moves = {} /\ handler'[h].at # "recording"
      /\ \A g \in Handlers \ {h} : handler'[g] = handler[g]
  BY <1>3, NowAt
<1> QED
  BY <1>2, <1>4, QuietKeeps

\* The load moves by one of the moves on their way, which is no longer.
LEMMA AdjustBalances ==
  ASSUME TypeInv, TypeInv', LoadInv, NEW h \in Handlers, AdjustOutstanding(h)
  PROVE  LoadInv'
<1> DEFINE me == handler[h]
<1>1. PICK move \in me.moves :
        /\ load' = [load EXCEPT ![move[1]] = IF @ + move[2] < 0 THEN 0 ELSE @ + move[2]]
        /\ Now(h, [me EXCEPT !.moves = me.moves \ {move}])
  BY DEF AdjustOutstanding
<1>2. me \in Jobs /\ me.at = "moving" /\ review' = review /\ drifted' = drifted
  BY DEF AdjustOutstanding, At, TypeInv, races
<1>3. PICK p \in Reviewers, delta \in Deltas : move = <<p, delta>>
  <2>1. me.moves \in SUBSET (Reviewers \X Deltas)
    BY <1>2 DEF Jobs
  <2> QED
    BY <1>1, <2>1
<1>4. /\ handler'[h].moves = me.moves \ {move} /\ handler'[h].at = "moving"
      /\ handler'[h].on = me.on
      /\ \A g \in Handlers \ {h} : handler'[g] = handler[g]
  <2>1. /\ handler'[h] = [me EXCEPT !.moves = me.moves \ {move}]
        /\ \A g \in Handlers \ {h} : handler'[g] = handler[g]
    BY <1>1, NowAt
  <2> QED
    BY <1>2, <2>1 DEF Jobs
<1>5. \A r : Held(r)' = Held(r)
  BY <1>2 DEF Held
<1>6. /\ OnTheWay(p, delta)' = OnTheWay(p, delta) \ {h} /\ h \in OnTheWay(p, delta)
      /\ \A r, d : <<r, d>> # move => OnTheWay(r, d)' = OnTheWay(r, d)
  BY <1>1, <1>3, <1>4 DEF OnTheWay
<1>7. Cardinality(OnTheWay(p, delta)') = Cardinality(OnTheWay(p, delta)) - 1
      /\ Cardinality(OnTheWay(p, delta)) >= 1
  <2>1. IsFiniteSet(OnTheWay(p, delta)) /\ IsFiniteSet(OnTheWay(p, delta)')
        /\ Cardinality(OnTheWay(p, delta)) \in Nat
    <3>1. IsFiniteSet(OnTheWay(p, delta)) /\ Cardinality(OnTheWay(p, delta)) \in Nat
      BY CountsAreNat
    <3>2. IsFiniteSet(OnTheWay(p, delta) \ {h})
      BY <3>1, FS_RemoveElement
    <3> QED
      BY <1>6, <3>1, <3>2
  <2>2. Cardinality(OnTheWay(p, delta)') \in Nat
    BY <2>1, FS_CardinalityType
  <2> QED
    BY <1>6, <2>1, <2>2, FS_RemoveElement
<1>8. load[p] \in Int /\ (p \notin drifted => load[p] >= Cardinality(OnTheWay(p, -1)))
      /\ \A d : Cardinality(OnTheWay(p, d)) \in Nat
  BY LoadIsThere, CountsAreNat DEF TypeInv
<1>9. /\ p \notin drifted => load'[p] = load[p] + delta
      /\ \A r \in Reviewers \ {p} : load'[r] = load[r]
  <2>1. p \notin drifted => load[p] + delta >= 0
    BY <1>7, <1>8 DEF Deltas
  <2>2. load' = [load EXCEPT ![p] = IF load[p] + delta < 0 THEN 0 ELSE load[p] + delta]
    BY <1>1, <1>3
  <2> QED
    BY <1>8, <2>1, <2>2 DEF TypeInv, Deltas
<1>10. ASSUME NEW r \in Reviewers \ drifted PROVE Balanced(r)'
  <2>1. Balanced(r) /\ load[r] \in Int /\ Cardinality(Held(r)) \in Nat
        /\ Cardinality(OnTheWay(r, 1)) \in Nat /\ Cardinality(OnTheWay(r, -1)) \in Nat
    BY CountsAreNat DEF LoadInv, TypeInv
  <2>2. CASE r # p
    <3>1. OnTheWay(r, 1)' = OnTheWay(r, 1) /\ OnTheWay(r, -1)' = OnTheWay(r, -1)
      BY <1>3, <1>6, <2>2
    <3> QED
      BY <1>5, <1>9, <2>1, <2>2, <3>1 DEF Balanced
  <2>3. CASE r = p /\ delta = 1
    <3>1. OnTheWay(r, -1)' = OnTheWay(r, -1)
      BY <1>3, <1>6, <2>3
    <3> QED
      BY <1>5, <1>7, <1>9, <2>1, <2>3, <3>1 DEF Balanced
  <2>4. CASE r = p /\ delta = -1
    <3>1. OnTheWay(r, 1)' = OnTheWay(r, 1)
      BY <1>3, <1>6, <2>4
    <3> QED
      BY <1>5, <1>7, <1>9, <2>1, <2>4, <3>1 DEF Balanced
  <2> QED
    BY <2>2, <2>3, <2>4 DEF Deltas
<1>11. ASSUME NEW g \in Handlers, NEW v \in handler'[g].on
       PROVE  MovesJob(handler[g], v)'
  <2>1. v \in handler[g].on
    BY <1>4, <1>11
  <2>2. MovesJob(handler[g], v)
    BY <2>1 DEF LoadInv
  <2>3. CASE g = h
    BY <1>2, <1>4, <1>5, <2>2, <2>3 DEF MovesJob
  <2>4. CASE g # h
    BY <1>2, <1>4, <1>5, <2>2, <2>4 DEF MovesJob
  <2> QED
    BY <2>3, <2>4
<1>12. \A g \in Handlers : handler'[g].at = "idle" => handler'[g].moves = {}
  BY <1>4 DEF LoadInv
<1>13. ASSUME NEW r \in Reviewers \ drifted PROVE UpOnce(r)'
  <2>1. \A g \in Handlers : /\ handler'[g].on = handler[g].on
                            /\ handler'[g].moves \subseteq handler[g].moves
    BY <1>4
  <2> QED
    BY <2>1 DEF LoadInv, UpOnce
<1> QED
  BY <1>2, <1>10, <1>11, <1>12, <1>13 DEF LoadInv

\* The row is written, by a status or an assignment.
LEMMA RowBalances ==
  ASSUME TypeInv, TypeInv', LoadInv, NEW h \in Handlers, WriteStatus(h) \/ RecordAssignment(h)
  PROVE  LoadInv'
<1> DEFINE me == handler[h]
<1>1. me \in Jobs /\ me.at \in {"updating", "recording"} /\ me.at # "idle"
      /\ load' = load /\ Drift(h)
  BY DEF TypeInv, WriteStatus, RecordAssignment, At
<1>2. PICK v \in Reviews : me.on = {v}
  BY <1>1 DEF TypeInv, OnOne
<1>3. MovesJob(me, v) /\ review[v] \in Rows /\ me.moves = {}
  BY <1>1, <1>2 DEF TypeInv, LoadInv, MovesJob
<1>4. ASSUME NEW moves \in SUBSET (Reviewers \X Deltas),
             Now(h, [me EXCEPT !.at = "moving", !.moves = moves]),
             \A w \in Reviews \ {v} : review'[w] = review[w],
             ~OutOfStep(h, v) =>
               \A r \in Reviewers :
                 /\ <<r, 1>> \in moves <=> v \in Held(r)' /\ v \notin Held(r)
                 /\ <<r, -1>> \in moves <=> v \in Held(r) /\ v \notin Held(r)'
      PROVE  LoadInv'
  <2>1. /\ handler'[h] = [me EXCEPT !.at = "moving", !.moves = moves]
        /\ \A g \in Handlers \ {h} : handler'[g] = handler[g]
    BY <1>4, NowAt
  <2>2. handler'[h].moves = moves /\ handler'[h].at = "moving" /\ handler'[h].on = {v}
    BY <1>1, <1>2, <2>1 DEF Jobs
  <2>3. /\ ~OutOfStep(h, v) => drifted' = drifted
        /\ OutOfStep(h, v) =>
             drifted' = drifted \cup review[v].assigned \cup review'[v].assigned
                          \cup {move[1] : move \in moves}
    BY <1>1, <1>2, <2>2 DEF Drift
  <2>4. ASSUME NEW r \in Reviewers \ drifted'
        PROVE  /\ r \notin drifted
               /\ <<r, 1>> \in moves <=> v \in Held(r)' /\ v \notin Held(r)
               /\ <<r, -1>> \in moves <=> v \in Held(r) /\ v \notin Held(r)'
    <3>1. CASE OutOfStep(h, v)
      <4>1. /\ r \notin drifted /\ r \notin review[v].assigned /\ r \notin review'[v].assigned
            /\ r \notin {move[1] : move \in moves}
        BY <2>3, <2>4, <3>1
      <4>2. v \notin Held(r) /\ v \notin Held(r)'
        BY <4>1 DEF Held
      <4>3. \A d : <<r, d>> \notin moves
        BY <4>1
      <4> QED
        BY <4>1, <4>2, <4>3
    <3>2. CASE ~OutOfStep(h, v)
      BY <1>4, <2>3, <2>4, <3>2
    <3> QED
      BY <3>1, <3>2
  <2>5. ASSUME NEW r \in Reviewers \ drifted' PROVE Balanced(r)'
    BY <1>1, <1>3, <1>4, <2>1, <2>2, <2>4, <2>5, WriteBalances
  \* A person another handler is moving for this review was put out of step.
  <2>6. ASSUME NEW r \in Reviewers \ drifted', NEW g \in Handlers \ {h},
               <<r, 1>> \in handler[g].moves, v \in handler[g].on
        PROVE  FALSE
    <3>1. OutOfStep(h, v)
      BY <2>6 DEF OutOfStep
    <3>2. r \notin drifted /\ r \notin review[v].assigned
      BY <2>3, <2>6, <3>1
    <3>3. v \in Held(r)
      BY <2>6, <3>2 DEF LoadInv, MovesJob
    <3> QED
      BY <3>2, <3>3 DEF Held
  <2>7. ASSUME NEW g \in Handlers, NEW w \in handler'[g].on
        PROVE  MovesJob(handler[g], w)'
    <3>1. CASE g = h
      BY <2>2, <2>4, <2>7, <3>1 DEF MovesJob
    <3>2. CASE g # h
      <4>1. w \in handler[g].on /\ w \in Reviews /\ handler'[g] = handler[g]
        BY <2>1, <2>7, <3>2 DEF TypeInv, Jobs
      <4>2. MovesJob(handler[g], w)
        BY <4>1 DEF LoadInv
      <4>3. ASSUME NEW r \in Reviewers \ drifted', <<r, 1>> \in handler[g].moves
            PROVE  w \in Held(r)'
        <5>1. w # v
          BY <2>6, <3>2, <4>1, <4>3
        <5>2. w \in Held(r)
          BY <2>4, <4>2, <4>3 DEF MovesJob
        <5> QED
          BY <1>4, <4>1, <5>1, <5>2 DEF Held
      <4> QED
        BY <4>1, <4>2, <4>3 DEF MovesJob
    <3> QED
      BY <3>1, <3>2
  <2>8. ASSUME NEW r \in Reviewers \ drifted' PROVE UpOnce(r)'
    <3>1. \A f, g \in Handlers \ {h} :
            f # g /\ <<r, 1>> \in handler'[f].moves /\ <<r, 1>> \in handler'[g].moves
              => handler'[f].on \cap handler'[g].on = {}
      BY <2>1, <2>4 DEF LoadInv, UpOnce
    <3>2. \A g \in Handlers \ {h} :
            <<r, 1>> \in handler'[g].moves => handler'[g].on \cap handler'[h].on = {}
      BY <2>1, <2>2, <2>6
    <3> QED
      BY <3>1, <3>2 DEF UpOnce
  <2>9. \A g \in Handlers : handler'[g].at = "idle" => handler'[g].moves = {}
    BY <2>1, <2>2 DEF LoadInv
  <2> QED
    BY <2>5, <2>7, <2>8, <2>9 DEF LoadInv
<1>5. CASE WriteStatus(h)
  <2> DEFINE read == me.read
  <2>1. PICK moves : moves = MovesOnTransition(read, me.next)
    OBVIOUS
  <2>2. Now(h, [me EXCEPT !.at = "moving", !.moves = moves])
    BY <1>5, <2>1 DEF WriteStatus
  <2>3. /\ \A w \in Reviews \ {v} : review'[w] = review[w]
        /\ review'[v].status = me.next /\ review'[v].assigned = review[v].assigned
    BY <1>2, <1>3, <1>5 DEF WriteStatus, TypeInv, Rows
  <2>4. read.assigned \subseteq Reviewers
    BY <1>1 DEF Rows, Jobs
  <2> HIDE DEF read
  <2>5. moves \in SUBSET (Reviewers \X Deltas)
    BY <2>1, <2>4 DEF MovesOnTransition, Deltas
  <2>6. \A r \in Reviewers :
          /\ <<r, 1>> \in moves <=> IsTerminal(read.status) /\ ~IsTerminal(me.next)
                                      /\ r \in read.assigned
          /\ <<r, -1>> \in moves <=> ~IsTerminal(read.status) /\ IsTerminal(me.next)
                                       /\ r \in read.assigned
    <3>1. CASE IsTerminal(read.status) = IsTerminal(me.next)
      BY <2>1, <3>1 DEF MovesOnTransition
    <3>2. CASE IsTerminal(read.status) /\ ~IsTerminal(me.next)
      <4>1. moves = {<<r, 1>> : r \in read.assigned}
        BY <2>1, <3>2 DEF MovesOnTransition
      <4> QED
        BY <3>2, <4>1
    <3>3. CASE ~IsTerminal(read.status) /\ IsTerminal(me.next)
      <4>1. moves = {<<r, -1>> : r \in read.assigned}
        BY <2>1, <3>3 DEF MovesOnTransition
      <4> QED
        BY <3>3, <4>1
    <3>4. IsTerminal(read.status) \in BOOLEAN /\ IsTerminal(me.next) \in BOOLEAN
      BY DEF IsTerminal
    <3> QED
      BY <3>1, <3>2, <3>3, <3>4
  <2>7. ~OutOfStep(h, v) =>
          \A r \in Reviewers :
            /\ <<r, 1>> \in moves <=> v \in Held(r)' /\ v \notin Held(r)
            /\ <<r, -1>> \in moves <=> v \in Held(r) /\ v \notin Held(r)'
    <3>1. ~OutOfStep(h, v) => read = review[v]
      BY DEF OutOfStep, read
    <3> QED
      BY <2>3, <2>6, <3>1 DEF Held
  <2> QED
    BY <1>4, <2>2, <2>3, <2>5, <2>7
<1>6. CASE RecordAssignment(h)
  <2> DEFINE released == me.read.assigned \cap me.release
  <2>1. PICK moves : moves = {<<r, -1>> : r \in released} \cup {<<r, 1>> : r \in me.assign}
    OBVIOUS
  <2>2. Now(h, [me EXCEPT !.at = "moving", !.moves = moves])
    BY <1>6, <2>1 DEF RecordAssignment
  <2>3. me.at = "recording" /\ me.assign \cap me.read.assigned = {}
        /\ me.assign \cap me.release = {}
    BY <1>3, <1>6 DEF RecordAssignment, At, MovesJob
  <2>4. /\ \A w \in Reviews \ {v} : review'[w] = review[w]
        /\ review'[v] = [status |-> IF me.read.status = "open" THEN "assigned"
                                    ELSE me.read.status,
                         assigned |-> (me.read.assigned \ released) \cup me.assign]
    BY <1>2, <1>6 DEF RecordAssignment, TypeInv
  <2>5. me.read.assigned \subseteq Reviewers /\ me.assign \subseteq Reviewers
    BY <1>1 DEF Rows, Jobs
  <2>6. moves \in SUBSET (Reviewers \X Deltas)
    BY <2>1, <2>5 DEF Deltas
  <2>7. \A r \in Reviewers :
          /\ <<r, 1>> \in moves <=> r \in me.assign
          /\ <<r, -1>> \in moves <=> r \in released
    BY <2>1
  <2>8. ASSUME ~OutOfStep(h, v), NEW r \in Reviewers
        PROVE  /\ <<r, 1>> \in moves <=> v \in Held(r)' /\ v \notin Held(r)
               /\ <<r, -1>> \in moves <=> v \in Held(r) /\ v \notin Held(r)'
    <3>1. me.read = review[v] /\ ~IsTerminal(review[v].status)
      BY <2>3, <2>8 DEF OutOfStep, At
    <3>2. ~IsTerminal(review'[v].status)
      BY <2>4, <3>1 DEF IsTerminal
    <3>3. /\ v \in Held(r)' <=> r \in review'[v].assigned
          /\ v \in Held(r) <=> r \in review[v].assigned
      BY <3>1, <3>2 DEF Held
    <3>4. review'[v].assigned = (review[v].assigned \ released) \cup me.assign
      BY <2>4, <3>1
    <3> QED
      BY <2>3, <2>7, <3>1, <3>3, <3>4
  <2> QED
    BY <1>4, <2>2, <2>4, <2>6, <2>8
<1> QED
  BY <1>5, <1>6

\* Every step keeps the balance.
LEMMA LoadStep == TypeInv /\ LoadInv /\ [Next]_vars => LoadInv'
<1> SUFFICES ASSUME TypeInv, LoadInv, [Next]_vars PROVE LoadInv'
  OBVIOUS
<1>1. TypeInv'
  BY TypeStep
<1>2. CASE UNCHANGED vars
  <2>1. UNCHANGED <<review, load, handler, drifted>>
    BY <1>2 DEF vars, rows, races
  <2>2. \A r, d : Held(r)' = Held(r) /\ OnTheWay(r, d)' = OnTheWay(r, d)
    BY <2>1 DEF Held, OnTheWay
  <2> QED
    BY <2>1, <2>2 DEF LoadInv, Balanced, UpOnce, MovesJob
<1>3. CASE Next
  BY <1>1, <1>3, GesturesAreQuiet, HostIsQuiet, AdjustBalances, RowBalances DEF Next
<1> QED
  BY <1>2, <1>3

\* Whatever is assigned, rerolled, resolved, replayed and reopened, and however
\* the gestures overlap, a reviewer's load is the reviews they hold, up to what
\* is on its way: nothing puts it off but a row they are on written out of step
\* with it (OutOfStep). contracts/src/reviewers.ts:76, ReviewService.ts:332-338.
THEOREM LoadIsWhatIsHeld == Spec => []LoadIsHeld
<1>1. Init => LoadInv
  <2> SUFFICES ASSUME Init PROVE LoadInv
    OBVIOUS
  <2>1. \A h \in Handlers : handler[h] = Idle /\ Idle.on = {} /\ Idle.moves = {}
    BY DEF Init, Idle
  <2>2. ASSUME NEW r \in Reviewers PROVE Balanced(r)
    <3>1. Held(r) = {} /\ OnTheWay(r, 1) = {} /\ OnTheWay(r, -1) = {} /\ load[r] = 0
      BY <2>1 DEF Init, Held, OnTheWay
    <3> QED
      BY <3>1, FS_EmptySet DEF Balanced
  <2> QED
    BY <2>1, <2>2 DEF LoadInv, UpOnce
<1>2. LoadInv => LoadIsHeld
  BY DEF LoadInv, LoadIsHeld, Balanced
<1> QED
  BY <1>1, <1>2, BoardIsTyped, LoadStep, PTL DEF Spec
=============================================================================
