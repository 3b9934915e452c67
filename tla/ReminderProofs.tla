--------------------------- MODULE ReminderProofs ---------------------------
(***************************************************************************)
(* The ladder: no nudge is posted twice, whatever the passes, gestures,    *)
(* crashes and expired leases beside it; and, for a review nobody else     *)
(* touches, the clocks together are one sequential ladder that is never    *)
(* left without its next nudge.                                            *)
(*                                                                         *)
(* The cadence: no rung of an open review is silenced, and every nudge is  *)
(* addressed to whoever holds the review, for any waits, deadlines, pauses *)
(* and number of gestures.                                                 *)
(***************************************************************************)
EXTENDS ReminderLadder, ReminderCadence, FiniteSetTheorems, TLAPS

USE DEF Goto, SetStatus

\* The variables of a re-plan, of a delivery and of a gesture keep their types.
LEMMA TypeStep == TypeOK /\ [Next]_vars => TypeOK'
<1> SUFFICES ASSUME TypeOK, [Next]_vars PROVE TypeOK'
  OBVIOUS
<1> USE BoundsAreNat DEF TypeOK, Statuses, Delivering, Planning, InStatus, Actors
<1>1. ASSUME NEW a \in Actors, Replan(a) PROVE TypeOK'
  <2>1. CASE RereadReview(a) \/ ReadScheduled(a)
    BY <2>1 DEF RereadReview, ReadScheduled, store, bounds
  <2>2. CASE ReadLadder(a)
    BY <2>2 DEF ReadLadder, store, bounds
  <2>3. CASE WriteCancelled(a)
    BY <2>3 DEF WriteCancelled, bounds
  <2>4. CASE CreateNext(a)
    BY <2>4 DEF CreateNext, bounds
  <2> QED
    BY <1>1, <2>1, <2>2, <2>3, <2>4 DEF Replan
<1>2. ASSUME NEW c \in Clocks, Pass(c) PROVE TypeOK'
  <2>1. CASE StartPass(c) \/ ListDue(c) \/ ReadReview(c) \/ EndPass(c)
    BY <2>1 DEF StartPass, ListDue, ReadReview, EndPass, store, bounds
  <2>2. CASE GiveUp(c) \/ Claim(c)
    BY <2>2 DEF GiveUp, Claim, bounds
  <2>3. CASE Post(c)
    <3>1. PICK landed \in BOOLEAN :
            posts' = [posts EXCEPT ![row[c]] = IF landed THEN @ + 1 ELSE @]
      BY <2>3 DEF Post
    <3>2. \A i \in Reminders : posts'[i] = posts[i] \/ posts'[i] = posts[i] + 1
      BY <3>1
    <3>3. posts' \in [Reminders -> Nat]
      <4>1. DOMAIN posts' = Reminders
        BY <3>1
      <4>2. posts' = [i \in Reminders |-> posts'[i]]
        BY <3>1, <4>1
      <4> QED
        BY <3>2, <4>2
    <3> QED
      BY <2>3, <3>3 DEF Post, bounds
  <2>4. CASE Fail(c) \/ MarkSent(c)
    BY <2>4 DEF Fail, MarkSent, bounds
  <2> QED
    BY <1>2, <2>1, <2>2, <2>3, <2>4 DEF Pass
<1>3. ASSUME NEW c \in Clocks, Crash(c) PROVE TypeOK'
  BY <1>3 DEF Crash, store
<1>4. ASSUME NEW h \in Handlers, Resolve(h) \/ Reopen(h) \/ Park(h) \/ Snooze(h)
      PROVE  TypeOK'
  <2> h \in Actors
    OBVIOUS
  <2>1. gestures' \in 0 .. MaxGestures
    BY <1>4 DEF Resolve, Reopen, Park, Snooze, Gesture
  <2>2. /\ pc' \in [Actors -> {"idle", "recovering", "delivering"} \cup Delivering \cup Planning]
        /\ asks' \in [Actors -> BOOLEAN]
        /\ open' \in BOOLEAN
    BY <1>4 DEF Resolve, Reopen, Park, Snooze, Gesture
  <2> QED
    BY <1>4, <2>1, <2>2 DEF Resolve, Reopen, Park, Snooze, Gesture
<1>5. ASSUME NEW i \in Reminders, ComesDue(i) \/ LeaseRunsOut(i) PROVE TypeOK'
  BY <1>5 DEF ComesDue, LeaseRunsOut, actors, bounds
<1>6. CASE UNCHANGED vars
  BY <1>6 DEF vars, store, actors, bounds
<1> QED
  BY <1>1, <1>2, <1>3, <1>4, <1>5, <1>6 DEF Next

\* Every state of the reminder rows and of the actors on them is well typed.
THEOREM TypeCorrect == Spec => []TypeOK
<1>1. Init => TypeOK
  BY BoundsAreNat DEF Init, TypeOK, Statuses, Delivering, Planning
<1> QED
  BY <1>1, TypeStep, PTL DEF Spec

-----------------------------------------------------------------------------
(* One claim, one post. A row leaves `scheduled' once and never comes back,  *)
(* so whoever made it leave is the only clock that will post it.             *)

\* A clock at work on a row is the only one, and posts only what nobody has.
Delivery(c) ==
  pc[c] \in Delivering =>
    /\ row[c] \in Reminders
    /\ status[row[c]] \notin {"none", "scheduled"}
    /\ pc[c] \in {"claimed", "read"} => posts[row[c]] = 0
    /\ \A d \in Clocks \ {c} : pc[d] \in Delivering => row[d] # row[c]

\* What nobody has claimed yet nobody has posted.
Unclaimed == \A i \in Reminders : status[i] \in {"none", "scheduled"} => posts[i] = 0

ClaimsInv == TypeOK /\ PostedOnce /\ Unclaimed /\ \A c \in Clocks : Delivery(c)

\* Every step keeps the claims apart.
LEMMA ClaimsStep == ClaimsInv /\ [Next]_vars => ClaimsInv'
<1> SUFFICES ASSUME ClaimsInv, [Next]_vars PROVE ClaimsInv'
  OBVIOUS
<1>t. TypeOK /\ TypeOK'
  BY TypeStep DEF ClaimsInv
<1> SUFFICES PostedOnce' /\ Unclaimed' /\ \A c \in Clocks : Delivery(c)'
  BY <1>t DEF ClaimsInv
<1> USE <1>t DEF ClaimsInv, PostedOnce, Unclaimed, Delivery, TypeOK, Delivering, Actors
<1>1. ASSUME NEW a \in Actors, Replan(a)
      PROVE  PostedOnce' /\ Unclaimed' /\ \A c \in Clocks : Delivery(c)'
  <2>1. CASE RereadReview(a) \/ ReadLadder(a) \/ ReadScheduled(a)
    BY <2>1 DEF RereadReview, ReadLadder, ReadScheduled, store, bounds
  <2>2. CASE WriteCancelled(a)
    BY <2>2 DEF WriteCancelled
  <2>3. CASE CreateNext(a)
    BY <2>3 DEF CreateNext, InStatus
  <2> QED
    BY <1>1, <2>1, <2>2, <2>3 DEF Replan
<1>2. ASSUME NEW c \in Clocks, Pass(c)
      PROVE  PostedOnce' /\ Unclaimed' /\ \A d \in Clocks : Delivery(d)'
  <2>1. CASE StartPass(c) \/ ListDue(c) \/ ReadReview(c) \/ EndPass(c)
    BY <2>1 DEF StartPass, ListDue, ReadReview, EndPass, store, bounds
  <2>2. CASE GiveUp(c)
    BY <2>2 DEF GiveUp, InStatus
  <2>3. CASE Claim(c)
    BY <2>3 DEF Claim, InStatus
  <2>4. CASE Post(c)
    BY <2>4 DEF Post
  <2>5. CASE Fail(c) \/ MarkSent(c)
    BY <2>5 DEF Fail, MarkSent
  <2> QED
    BY <1>2, <2>1, <2>2, <2>3, <2>4, <2>5 DEF Pass
<1>3. ASSUME NEW c \in Clocks, Crash(c)
      PROVE  PostedOnce' /\ Unclaimed' /\ \A d \in Clocks : Delivery(d)'
  BY <1>3 DEF Crash, store
<1>4. ASSUME NEW h \in Handlers, Resolve(h) \/ Reopen(h) \/ Park(h) \/ Snooze(h)
      PROVE  PostedOnce' /\ Unclaimed' /\ \A c \in Clocks : Delivery(c)'
  BY <1>4 DEF Resolve, Reopen, Park, Snooze, Gesture
<1>5. ASSUME NEW i \in Reminders, ComesDue(i) \/ LeaseRunsOut(i)
      PROVE  PostedOnce' /\ Unclaimed' /\ \A c \in Clocks : Delivery(c)'
  BY <1>5 DEF ComesDue, LeaseRunsOut, actors
<1>6. CASE UNCHANGED vars
  BY <1>6 DEF vars, store, actors
<1> QED
  BY <1>1, <1>2, <1>3, <1>4, <1>5, <1>6 DEF Next

\* tick.ts:267-273: two clocks reading one batch, a pass that outlives its
\* lease, a crash or a gesture between any two steps: no row is posted twice.
THEOREM NeverPostedTwice == Spec => []PostedOnce
<1>1. Init => ClaimsInv
  BY BoundsAreNat DEF Init, ClaimsInv, TypeOK, Statuses, Delivering, Planning, PostedOnce,
     Unclaimed, Delivery, Actors
<1>2. ClaimsInv => PostedOnce
  BY DEF ClaimsInv
<1> QED
  BY <1>1, <1>2, ClaimsStep, PTL DEF Spec

-----------------------------------------------------------------------------
(* The clocks by themselves: no gesture beside them, a delivery that ends    *)
(* inside its lease, and no death in the middle of a re-plan. There is then  *)
(* one thing that carries the ladder on: a row in hand, or a clock that is   *)
(* about to plan the next one.                                               *)

Alone == Handlers = {} /\ PromptSends /\ ~CrashMidPlan

OneInHand == \A i, j \in InHand : i = j

OnePlanner == \A c, d \in Clocks : pc[c] \in Planning /\ pc[d] \in Planning => c = d

\* A clock plans once the last row is out of its hands, and never past a refusal.
PlansInTurn ==
  /\ Refused => InHand = {}
  /\ \A c \in Clocks : pc[c] \in Planning => InHand = {} /\ ~Refused

\* Only claims go stale, and none whose sender is alive.
DeadClaims ==
  /\ \A i \in stale : status[i] \notin {"none", "scheduled"}
  /\ \A c \in Clocks : pc[c] \in Delivering => row[c] \notin stale

\* What a clock holds and what it has read is still so.
AtWork(c) ==
  /\ pc[c] \in Delivering => row[c] \in Reminders /\ status[row[c]] = "sending"
  /\ pc[c] = "posted" => posts[row[c]] > 0
  /\ dropping[c] = {}
  /\ pc[c] = "recovering" \/ (pc[c] \in Planning /\ home[c] = "recovering")
       => todo[c] \subseteq stale
  /\ pc[c] \in {"read", "posted", "refused", "planning"} => asks[c]
  /\ pc[c] \in {"cancelling", "writing", "creating"} => (asks[c] <=> SentCount < Nudges)

LadderInv ==
  /\ ClaimsInv
  /\ open /\ OneInHand /\ OnePlanner /\ PlansInTurn /\ DeadClaims
  /\ \A c \in Clocks : AtWork(c)
  /\ LadderHeld

\* Which rows are in hand, row by row.
LEMMA InHandIs ==
  \A i \in Reminders : i \in InHand <=> status[i] = "scheduled" \/ status[i] = "sending"
BY DEF InHand, InStatus

\* While nobody's status changes, the same rows are in hand, sent and refused.
LEMMA SameRows ==
  ASSUME status' = status
  PROVE  InHand' = InHand /\ SentCount' = SentCount /\ Refused' = Refused
BY DEF InHand, InStatus, SentCount, Refused

\* The conjuncts a step can disturb.
Rest == open /\ OneInHand /\ OnePlanner /\ PlansInTurn /\ DeadClaims
        /\ (\A c \in Clocks : AtWork(c)) /\ LadderHeld

\* The steps of a re-plan: its clock is the only one, and nothing is in hand.
LEMMA ReplanStep ==
  ASSUME Alone, LadderInv, TypeOK', NEW a \in Clocks, Replan(a)
  PROVE  Rest'
<1> USE DEF Alone, LadderInv, ClaimsInv, TypeOK, Rest, OneInHand, OnePlanner, PlansInTurn,
        DeadClaims, AtWork, LadderHeld, Delivering, Planning, Actors
<1>1. CASE RereadReview(a)
  BY <1>1, SameRows DEF RereadReview, store, bounds
<1>2. CASE ReadLadder(a)
  <2>1. asks' = [asks EXCEPT ![a] = SentCount < Nudges]
    <3>1. asks[a] = TRUE
      BY <1>2 DEF ReadLadder
    <3>2. asks' = [asks EXCEPT ![a] = TRUE /\ Cardinality(InStatus("sent")) < Nudges]
      BY <1>2, <3>1 DEF ReadLadder
    <3>3. (TRUE /\ Cardinality(InStatus("sent")) < Nudges) = (SentCount < Nudges)
      BY DEF SentCount
    <3> QED
      BY <3>2, <3>3
  <2>2. /\ SentCount' = SentCount /\ InHand' = InHand /\ Refused' = Refused
        /\ \A c \in Clocks \ {a} : asks'[c] = asks[c] /\ pc'[c] = pc[c]
    BY <1>2, <2>1, SameRows DEF ReadLadder, store
  <2>3. asks'[a] = (SentCount' < Nudges) /\ pc'[a] = "cancelling"
    BY <1>2, <2>1, <2>2 DEF ReadLadder
  <2>4. \A c \in Clocks : AtWork(c)'
    BY <1>2, <2>2, <2>3 DEF ReadLadder, store
  <2> HIDE DEF AtWork
  <2> QED
    BY <1>2, <2>2, <2>4 DEF ReadLadder, store
<1>3. CASE ReadScheduled(a)
  <2>1. InStatus("scheduled") = {}
    BY <1>3 DEF ReadScheduled, InHand
  <2> QED
    BY <1>3, <2>1, SameRows DEF ReadScheduled, store, bounds
<1>4. CASE WriteCancelled(a)
  <2>1. status' = status
    BY <1>4 DEF WriteCancelled
  <2> QED
    BY <1>4, <2>1, SameRows DEF WriteCancelled, bounds
<1>5. CASE CreateNext(a) /\ ~asks[a]
  BY <1>5, SameRows DEF CreateNext, bounds
<1>6. CASE CreateNext(a) /\ asks[a]
  <2>1. PICK i \in Reminders : status[i] = "none" /\ status' = [status EXCEPT ![i] = "scheduled"]
    BY <1>6 DEF CreateNext, InStatus
  <2>2. InHand = {} /\ InHand' = {i}
    BY <1>6, <2>1 DEF CreateNext, InHand, InStatus
  <2>3. SentCount' = SentCount /\ Refused' = Refused
    <3>1. InStatus("sent")' = InStatus("sent") /\ InStatus("failed")' = InStatus("failed")
      BY <2>1 DEF InStatus
    <3> QED
      BY <3>1 DEF SentCount, Refused
  <2> QED
    BY <1>6, <2>1, <2>2, <2>3 DEF CreateNext, bounds
<1> QED
  BY <1>1, <1>2, <1>3, <1>4, <1>5, <1>6 DEF Replan

\* The steps of a pass: a delivery lets go of its row and starts to plan, or a
\* refusal ends the ladder.
LEMMA PassStep ==
  ASSUME Alone, LadderInv, TypeOK', NEW c \in Clocks, Pass(c)
  PROVE  Rest'
<1> USE DEF Alone, LadderInv, ClaimsInv, TypeOK, Rest, OneInHand, OnePlanner, PlansInTurn,
        DeadClaims, AtWork, LadderHeld, Delivering, Planning, Actors
<1>1. CASE StartPass(c) \/ ListDue(c) \/ EndPass(c)
  <2>1. CASE StartPass(c)
    BY <2>1, SameRows DEF StartPass, store, bounds
  <2>2. CASE ListDue(c)
    BY <2>2, SameRows DEF ListDue, store, bounds
  <2>3. CASE EndPass(c)
    BY <2>3, SameRows DEF EndPass, store, bounds
  <2> QED
    BY <1>1, <2>1, <2>2, <2>3
<1>2. CASE GiveUp(c)
  <2>1. PICK i \in todo[c] :
          /\ todo' = [todo EXCEPT ![c] = @ \ {i}]
          /\ IF status[i] = "sending"
               THEN /\ status' = [status EXCEPT ![i] = "given_up"]
                    /\ pc' = [pc EXCEPT ![c] = "replanning"]
                    /\ home' = [home EXCEPT ![c] = "recovering"]
               ELSE UNCHANGED <<status, pc, home>>
    BY <1>2 DEF GiveUp
  <2>2. pc[c] = "recovering" /\ UNCHANGED <<open, due, stale, posts, row, dropping, asks>>
    BY <1>2 DEF GiveUp, bounds
  <2>3. i \in Reminders /\ i \in stale
    BY <2>1, <2>2
  <2>4. CASE status[i] # "sending"
    BY <2>1, <2>2, <2>4, SameRows
  <2>5. CASE status[i] = "sending"
    <3>1. InHand = {i} /\ InHand' = {}
      BY <2>1, <2>3, <2>5 DEF InHand, InStatus
    <3>2. SentCount' = SentCount /\ Refused' = Refused
      <4>1. InStatus("sent")' = InStatus("sent") /\ InStatus("failed")' = InStatus("failed")
        BY <2>1, <2>3, <2>5 DEF InStatus
      <4> QED
        BY <4>1 DEF SentCount, Refused
    <3>3. \A d \in Clocks : pc[d] \notin Delivering /\ pc[d] \notin Planning
      BY <2>3, <2>5, <3>1, InHandIs
    <3> QED
      BY <2>1, <2>2, <2>3, <2>5, <3>1, <3>2, <3>3
  <2> QED
    BY <2>4, <2>5
<1>3. CASE Claim(c)
  <2>1. PICK i \in todo[c] :
          /\ todo' = [todo EXCEPT ![c] = @ \ {i}]
          /\ IF status[i] = "scheduled"
               THEN /\ status' = [status EXCEPT ![i] = "sending"]
                    /\ pc' = [pc EXCEPT ![c] = "claimed"]
                    /\ row' = [row EXCEPT ![c] = i]
               ELSE UNCHANGED <<status, pc, row>>
    BY <1>3 DEF Claim
  <2>2. pc[c] = "delivering" /\ UNCHANGED <<open, due, stale, posts, dropping, home, asks>>
    BY <1>3 DEF Claim, bounds
  <2>3. i \in Reminders
    BY <2>1
  <2>4. CASE status[i] # "scheduled"
    BY <2>1, <2>2, <2>4, SameRows
  <2>5. CASE status[i] = "scheduled"
    <3>1. InHand = {i} /\ InHand' = {i}
      BY <2>1, <2>3, <2>5 DEF InHand, InStatus
    <3>2. SentCount' = SentCount /\ Refused' = Refused
      <4>1. InStatus("sent")' = InStatus("sent") /\ InStatus("failed")' = InStatus("failed")
        BY <2>1, <2>3, <2>5 DEF InStatus
      <4> QED
        BY <4>1 DEF SentCount, Refused
    <3> QED
      BY <2>1, <2>2, <2>3, <2>5, <3>1, <3>2
  <2> QED
    BY <2>4, <2>5
<1>4. CASE ReadReview(c)
  BY <1>4, SameRows DEF ReadReview, store, bounds
<1>5. CASE Post(c)
  <2>1. PICK answer \in {"posted", "refused"}, landed \in BOOLEAN :
          /\ answer = "posted" => landed
          /\ pc[c] = "read" /\ pc' = [pc EXCEPT ![c] = answer]
          /\ posts' = [posts EXCEPT ![row[c]] = IF landed THEN @ + 1 ELSE @]
    BY <1>5 DEF Post
  <2>2. UNCHANGED <<open, status, due, stale, todo, row, dropping, home, asks>>
    BY <1>5 DEF Post
  <2>3. \A d \in Clocks \ {c} : pc'[d] = "posted" => posts'[row[d]] > 0
    BY <2>1, <2>2 DEF Delivery
  <2>4. pc'[c] = "posted" => posts'[row[c]] > 0
    BY <2>1, <2>2 DEF Delivery
  <2> QED
    BY <2>1, <2>2, <2>3, <2>4, SameRows
<1>6. CASE Fail(c)
  <2> DEFINE i == row[c]
  <2>1. i \in Reminders /\ status[i] = "sending" /\ status' = [status EXCEPT ![i] = "failed"]
    BY <1>6 DEF Fail
  <2>2. InHand = {i} /\ InHand' = {}
    BY <2>1 DEF InHand, InStatus
  <2>3. SentCount' = SentCount /\ Refused'
    <3>1. InStatus("sent")' = InStatus("sent") /\ i \in InStatus("failed")'
      BY <2>1 DEF InStatus
    <3> QED
      BY <3>1 DEF SentCount, Refused
  <2>4. \A d \in Clocks \ {c} : pc[d] \notin Delivering /\ pc[d] \notin Planning
    BY <1>6, <2>1, <2>2, InHandIs DEF Fail, Delivery
  <2> QED
    BY <1>6, <2>1, <2>2, <2>3, <2>4 DEF Fail, bounds
<1>7. CASE MarkSent(c)
  <2> DEFINE i == row[c]
  <2>1. i \in Reminders /\ status[i] = "sending" /\ status' = [status EXCEPT ![i] = "sent"]
    BY <1>7 DEF MarkSent
  <2>2. InHand = {i} /\ InHand' = {}
    BY <2>1 DEF InHand, InStatus
  <2>3. Refused' = Refused
    <3>1. InStatus("failed")' = InStatus("failed")
      BY <2>1 DEF InStatus
    <3> QED
      BY <3>1 DEF Refused
  <2>4. \A d \in Clocks \ {c} : pc[d] \notin Delivering /\ pc[d] \notin Planning
    BY <1>7, <2>1, <2>2, InHandIs DEF MarkSent, Delivery
  <2> QED
    BY <1>7, <2>1, <2>2, <2>3, <2>4 DEF MarkSent, bounds
<1> QED
  BY <1>1, <1>2, <1>3, <1>4, <1>5, <1>6, <1>7 DEF Pass

\* Every step keeps the ladder in one pair of hands.
LEMMA LadderStep == ASSUME Alone PROVE LadderInv /\ [Next]_vars => LadderInv'
<1> SUFFICES ASSUME LadderInv, [Next]_vars PROVE LadderInv'
  OBVIOUS
<1>c. ClaimsInv' /\ TypeOK /\ TypeOK'
  BY ClaimsStep, TypeStep DEF LadderInv, ClaimsInv
<1> SUFFICES Rest'
  BY <1>c DEF LadderInv, Rest
<1> USE DEF Alone
<1>1. ASSUME NEW a \in Actors, Replan(a) PROVE Rest'
  BY <1>1, <1>c, ReplanStep DEF Actors
<1>2. ASSUME NEW c \in Clocks, Pass(c) PROVE Rest'
  BY <1>2, <1>c, PassStep
<1> USE <1>c DEF LadderInv, ClaimsInv, TypeOK, Rest, OneInHand, OnePlanner, PlansInTurn,
        DeadClaims, AtWork, LadderHeld, Delivering, Planning, Actors
<1>3. ASSUME NEW c \in Clocks, Crash(c) PROVE Rest'
  BY <1>3, SameRows DEF Crash, store
<1>4. ASSUME NEW i \in Reminders, ComesDue(i) PROVE Rest'
  BY <1>4, SameRows DEF ComesDue, actors, bounds
<1>5. ASSUME NEW i \in Reminders, LeaseRunsOut(i) PROVE Rest'
  BY <1>5, SameRows DEF LeaseRunsOut, actors, bounds
<1>6. CASE UNCHANGED vars
  BY <1>6, SameRows DEF vars, store, actors
<1> QED
  BY <1>1, <1>2, <1>3, <1>4, <1>5, <1>6 DEF Next

\* The first row planned is the one in hand.
LEMMA LadderInit == ASSUME Alone PROVE Init => LadderInv
<1> SUFFICES ASSUME Init PROVE LadderInv
  OBVIOUS
<1>1. PICK first \in Reminders :
        status = [i \in Reminders |-> IF i = first THEN "scheduled" ELSE "none"]
  BY DEF Init
<1>2. InHand = {first}
  BY <1>1 DEF InHand, InStatus
<1>3. ~Refused
  BY <1>1 DEF Refused, InStatus
<1> QED
  BY <1>1, <1>2, <1>3, BoundsAreNat DEF Init, LadderInv, ClaimsInv, TypeOK, Statuses, Delivering,
     Planning, PostedOnce, Unclaimed, Delivery, Actors, OneInHand, OnePlanner, PlansInTurn,
     DeadClaims, AtWork, LadderHeld

\* schedule.ts:9-12 and stalled.ts:15-20: with any number of clocks, rows and
\* nudges, and whichever of them dies with a claim in hand, an open review with
\* nudges left has one in hand whenever nobody is re-planning it, or stands at
\* a post that was refused.
THEOREM LadderNeverDropped == ASSUME Alone PROVE Spec => []LadderHeld
<1>1. LadderInv => LadderHeld
  BY DEF LadderInv
<1> QED
  BY <1>1, LadderInit, LadderStep, PTL DEF Spec

-----------------------------------------------------------------------------
(* The clocks implement the one sequential ladder of NudgeLadder. *)

\* What NudgeLadder is told while one row at most is in hand.
LEMMA HandIs ==
  TypeOK /\ OneInHand =>
    /\ InStatus("sending") # {} => Hand = "claimed"
    /\ InStatus("scheduled") # {} => Hand = "planned"
    /\ InHand = {} => Hand = "none"
<1> SUFFICES ASSUME TypeOK, OneInHand
             PROVE  /\ InStatus("sending") # {} => Hand = "claimed"
                    /\ InStatus("scheduled") # {} => Hand = "planned"
                    /\ InHand = {} => Hand = "none"
  OBVIOUS
<1>1. InHand = {} \/ \E i \in Reminders : InHand = {i}
  BY DEF OneInHand, InHand, InStatus
<1>2. ~(Cardinality(InHand) > 1)
  BY <1>1, FS_EmptySet, FS_Singleton
<1>3. InStatus("sending") = {} \/ InStatus("scheduled") = {}
  BY DEF OneInHand, InHand, InStatus
<1> QED
  BY <1>2, <1>3 DEF Hand, InHand

\* A step that leaves the rows and their posts alone stutters.
LEMMA Stutter ==
  ASSUME status' = status, posts' = posts
  PROVE  UNCHANGED Sequential!vars
BY SameRows DEF Sequential!vars, Hand, HandPosted, InStatus

\* Every step of the clocks is a step of the sequential ladder, or none.
LEMMA SequentialStep ==
  ASSUME Alone, LadderInv, LadderInv', [Next]_vars
  PROVE  [Sequential!Next]_Sequential!vars
<1> DEFINE Goal == [Sequential!Next]_Sequential!vars
<1>t. TypeOK /\ TypeOK' /\ OneInHand /\ OneInHand'
  BY DEF LadderInv, ClaimsInv
<1>h. /\ InStatus("sending") # {} => Hand = "claimed"
      /\ InStatus("scheduled") # {} => Hand = "planned"
      /\ InHand = {} => Hand = "none"
  BY <1>t, HandIs
<1>i. (/\ InStatus("sending") # {} => Hand = "claimed"
       /\ InStatus("scheduled") # {} => Hand = "planned"
       /\ InHand = {} => Hand = "none")'
  BY <1>t, HandIs, PTL
<1>1. ASSUME status' = status, posts' = posts PROVE Goal
  BY <1>1, Stutter
<1> USE <1>t DEF TypeOK, LadderInv, PlansInTurn, AtWork, ClaimsInv, Unclaimed, Delivery,
        Delivering, Planning, Alone, Actors
<1>2. ASSUME NEW a \in Clocks, CreateNext(a) PROVE Goal
  <2>1. CASE asks[a]
    <3>1. PICK i \in Reminders :
            status[i] = "none" /\ status' = [status EXCEPT ![i] = "scheduled"]
      BY <1>2, <2>1 DEF CreateNext, InStatus
    <3>2. InHand = {} /\ ~Refused /\ SentCount < Nudges
      BY <1>2, <2>1 DEF CreateNext
    <3>3. /\ InStatus("sending")' = {} /\ InStatus("sending") = {}
          /\ InStatus("sent")' = InStatus("sent") /\ InStatus("failed")' = InStatus("failed")
          /\ i \in InStatus("scheduled")'
      BY <3>1, <3>2 DEF InHand, InStatus
    <3>4. Hand = "none" /\ Hand' = "planned" /\ HandPosted = FALSE /\ HandPosted' = FALSE
      BY <1>h, <1>i, <3>2, <3>3 DEF HandPosted
    <3>5. SentCount' = SentCount /\ Refused' = Refused
      BY <3>3 DEF SentCount, Refused
    <3> QED
      BY <3>2, <3>4, <3>5 DEF Sequential!Next, Sequential!Plan
  <2>2. CASE ~asks[a]
    BY <1>1, <1>2, <2>2 DEF CreateNext
  <2> QED
    BY <2>1, <2>2
<1>3. ASSUME NEW a \in Clocks, Replan(a), ~CreateNext(a) PROVE Goal
  BY <1>1, <1>3 DEF Replan, RereadReview, ReadLadder, ReadScheduled, WriteCancelled, store
<1>4. ASSUME NEW c \in Clocks, GiveUp(c) PROVE Goal
  <2>1. PICK i \in Reminders :
          IF status[i] = "sending" THEN status' = [status EXCEPT ![i] = "given_up"]
                                   ELSE status' = status
    BY <1>4 DEF GiveUp
  <2>2. posts' = posts
    BY <1>4 DEF GiveUp
  <2>3. CASE status[i] # "sending"
    BY <1>1, <2>1, <2>2, <2>3
  <2>4. CASE status[i] = "sending"
    <3>1. InHand' = {} /\ i \in InStatus("sending")
      BY <2>1, <2>4 DEF OneInHand, InHand, InStatus
    <3>2. InStatus("sent")' = InStatus("sent") /\ InStatus("failed")' = InStatus("failed")
      BY <2>1, <2>4 DEF InStatus
    <3>3. Hand = "claimed" /\ Hand' = "none" /\ HandPosted' = FALSE
      BY <1>h, <1>i, <3>1 DEF HandPosted, InHand
    <3>4. SentCount' = SentCount /\ Refused' = Refused
      BY <3>2 DEF SentCount, Refused
    <3> QED
      BY <3>3, <3>4 DEF Sequential!Next, Sequential!Abandon, Sequential!LetGo
  <2> QED
    BY <2>3, <2>4
<1>5. ASSUME NEW c \in Clocks, Claim(c) PROVE Goal
  <2>1. PICK i \in Reminders :
          IF status[i] = "scheduled" THEN status' = [status EXCEPT ![i] = "sending"]
                                     ELSE status' = status
    BY <1>5 DEF Claim
  <2>2. posts' = posts
    BY <1>5 DEF Claim
  <2>3. CASE status[i] # "scheduled"
    BY <1>1, <2>1, <2>2, <2>3
  <2>4. CASE status[i] = "scheduled"
    <3>1. /\ i \in InStatus("scheduled") /\ InStatus("sending") = {}
          /\ InStatus("sending")' = {i} /\ posts'[i] = 0
      BY <2>1, <2>2, <2>4 DEF OneInHand, InHand, InStatus
    <3>2. InStatus("sent")' = InStatus("sent") /\ InStatus("failed")' = InStatus("failed")
      BY <2>1, <2>4 DEF InStatus
    <3>3. Hand = "planned" /\ Hand' = "claimed"
      BY <1>h, <1>i, <3>1
    <3>5. ~HandPosted /\ ~HandPosted'
      BY <3>1 DEF HandPosted
    <3>4. SentCount' = SentCount /\ Refused' = Refused
      BY <3>2 DEF SentCount, Refused
    <3> QED
      BY <3>3, <3>4, <3>5 DEF Sequential!Next, Sequential!Claim, HandPosted
  <2> QED
    BY <2>3, <2>4
<1>6. ASSUME NEW c \in Clocks, Post(c) PROVE Goal
  <2> DEFINE i == row[c]
  <2>1. /\ i \in Reminders /\ status[i] = "sending" /\ posts[i] = 0 /\ status' = status
        /\ posts' = posts \/ posts' = [posts EXCEPT ![i] = 1]
    <3>1. PICK landed \in BOOLEAN :
            posts' = [posts EXCEPT ![i] = IF landed THEN @ + 1 ELSE @]
      BY <1>6 DEF Post
    <3>2. i \in Reminders /\ status[i] = "sending" /\ posts[i] = 0 /\ status' = status
      BY <1>6 DEF Post
    <3>3. CASE landed
      BY <3>1, <3>2, <3>3
    <3>4. CASE ~landed
      BY <3>1, <3>2, <3>4
    <3> QED
      BY <3>2, <3>3, <3>4
  <2>2. CASE posts' = posts
    BY <1>1, <2>1, <2>2
  <2>3. CASE posts' = [posts EXCEPT ![i] = 1]
    <3>1. InStatus("sending") = {i} /\ InStatus("sending")' = {i}
      BY <2>1 DEF OneInHand, InHand, InStatus
    <3>2. Hand = "claimed" /\ Hand' = "claimed"
      BY <1>h, <1>i, <3>1
    <3>3. ~HandPosted
      BY <2>1, <3>1 DEF HandPosted
    <3>4. posts'[i] > 0
      BY <2>1, <2>3
    <3>5. HandPosted'
      BY <3>1, <3>4 DEF HandPosted
    <3> QED
      BY <2>1, <3>2, <3>3, <3>5, SameRows DEF Sequential!Next, Sequential!Post, HandPosted
  <2> QED
    BY <2>1, <2>2, <2>3
<1>7. ASSUME NEW c \in Clocks, Fail(c) PROVE Goal
  <2> DEFINE i == row[c]
  <2>1. i \in Reminders /\ status[i] = "sending" /\ status' = [status EXCEPT ![i] = "failed"]
    BY <1>7 DEF Fail
  <2>2. /\ i \in InStatus("sending") /\ InHand' = {}
        /\ InStatus("sent")' = InStatus("sent") /\ i \in InStatus("failed")'
    BY <2>1 DEF OneInHand, InHand, InStatus
  <2>3. Hand = "claimed" /\ Hand' = "none" /\ HandPosted' = FALSE
    BY <1>h, <1>i, <2>2 DEF HandPosted, InHand
  <2>4. SentCount' = SentCount /\ Refused' = TRUE
    BY <2>2 DEF SentCount, Refused
  <2> QED
    BY <2>3, <2>4 DEF Sequential!Next, Sequential!Refuse, Sequential!LetGo
<1>8. ASSUME NEW c \in Clocks, MarkSent(c) PROVE Goal
  <2> DEFINE i == row[c]
  <2>1. /\ i \in Reminders /\ status[i] = "sending" /\ status' = [status EXCEPT ![i] = "sent"]
        /\ posts[i] > 0
    BY <1>8 DEF MarkSent
  <2>2. /\ i \in InStatus("sending") /\ InHand' = {}
        /\ InStatus("sent")' = InStatus("sent") \cup {i} /\ i \notin InStatus("sent")
        /\ InStatus("failed")' = InStatus("failed")
    BY <2>1 DEF OneInHand, InHand, InStatus
  <2>3. Hand = "claimed" /\ Hand' = "none" /\ HandPosted = TRUE /\ HandPosted' = FALSE
    BY <1>h, <1>i, <2>1, <2>2 DEF HandPosted, InHand
  <2>4. IsFiniteSet(InStatus("sent"))
    BY RemindersFinite, FS_Subset DEF InStatus
  <2>5. SentCount' = SentCount + 1 /\ Refused' = Refused
    BY <2>2, <2>4, FS_AddElement DEF SentCount, Refused
  <2> QED
    BY <2>3, <2>5 DEF Sequential!Next, Sequential!Settle, Sequential!LetGo
<1>9. ASSUME NEW c \in Clocks,
             StartPass(c) \/ ListDue(c) \/ ReadReview(c) \/ EndPass(c) \/ Crash(c)
      PROVE  Goal
  BY <1>1, <1>9 DEF StartPass, ListDue, ReadReview, EndPass, Crash, store
<1>10. ASSUME NEW i \in Reminders, ComesDue(i) \/ LeaseRunsOut(i) PROVE Goal
  BY <1>1, <1>10 DEF ComesDue, LeaseRunsOut
<1>11. CASE UNCHANGED vars
  BY <1>1, <1>11 DEF vars, store
<1> QED
  BY <1>2, <1>3, <1>4, <1>5, <1>6, <1>7, <1>8, <1>9, <1>10, <1>11 DEF Next, Pass

\* tick.ts:246-252, stalled.ts:15-31 and policy.ts:250-252: any number of
\* clocks that overlap, die with a claim in hand and recover each other's
\* claims send the nudges one sequential sender would.
THEOREM ClocksAreOneLadder == ASSUME Alone PROVE Spec => LadderIsSequential
<1>1. Init => Sequential!Init
  <2> SUFFICES ASSUME Init PROVE Sequential!Init
    OBVIOUS
  <2>1. PICK first \in Reminders :
          status = [i \in Reminders |-> IF i = first THEN "scheduled" ELSE "none"]
    BY DEF Init
  <2>2. /\ InStatus("scheduled") = {first} /\ InStatus("sending") = {}
        /\ InStatus("sent") = {} /\ InStatus("failed") = {}
    BY <2>1 DEF InStatus
  <2>3. TypeOK /\ OneInHand
    BY LadderInit DEF LadderInv, ClaimsInv
  <2>4. Hand = "planned" /\ HandPosted = FALSE /\ SentCount = 0 /\ Refused = FALSE
    BY <2>2, <2>3, HandIs, FS_EmptySet DEF HandPosted, SentCount, Refused
  <2> QED
    BY <2>4 DEF Sequential!Init
<1> QED
  BY <1>1, LadderInit, LadderStep, SequentialStep, PTL
     DEF Spec, LadderIsSequential, Sequential!Spec

-----------------------------------------------------------------------------
(* The cadence: what the policy is asked about, and what it answers. *)

Audiences == Reviewers \cup {Nobody, Channel}
Rows == [kind : Kinds \cup {"none"}, to : Audiences, dueAt : Times, snoozedUntil : Times]
Sent == [Kinds -> Times]
ReviewRows ==
  [resolved : BOOLEAN, priority : {"high", "normal", "low"}, dueAt : Times,
   assignee : Reviewers \cup {Nobody}, assignedAt : Times]

\* A review somebody holds was assigned at some time.
Askable(rv) == rv \in ReviewRows /\ (rv.assignee # Nobody => rv.assignedAt \in Nat)

Fits(rv, c) ==
  /\ c.to = IF c.kind = "escalation" THEN Channel ELSE AudienceFor(rv)
  /\ c.kind = "unassigned" => rv.assignee = Nobody

\* A rung: none, or one with a time of its own for whom it concerns.
Rung(rv, c) ==
  \/ c = NoRow
  \/ /\ c \in Rows /\ c.kind \in Kinds /\ c.dueAt \in Nat /\ c.snoozedUntil = NoTime
     /\ Fits(rv, c)

\* The scheduled row, whichever gesture left it there.
Scheduled(rv, c) == c \in Rows /\ (c # NoRow => c.kind \in Kinds /\ Fits(rv, c))

CadenceInv ==
  /\ now \in Nat /\ Askable(review) /\ parkedAt \in Times
  /\ sentAt \in Sent /\ pendings \in Nat /\ pauseEnd \in Times
  /\ Scheduled(review, nudge)
  /\ nudge.snoozedUntil <= pauseEnd
  /\ NoRungSilenced

-----------------------------------------------------------------------------
(* The policy. *)

\* No row is the row that is none.
LEMMA NoRowIs ==
  NoRow \in Rows /\ NoRow.kind = "none" /\ NoRow.snoozedUntil = NoTime /\ "none" \notin Kinds
BY DEF NoRow, Rows, Audiences, Times, Kinds

\* A candidate is a row of its kind.
LEMMA CandidateIs ==
  ASSUME NEW kind \in Kinds, NEW to \in Audiences, NEW dueAt \in Nat
  PROVE  LET c == Candidate(kind, to, dueAt) IN
         /\ c \in Rows /\ c.kind = kind /\ c.to = to /\ c.dueAt = dueAt
         /\ c.snoozedUntil = NoTime
BY DEF Candidate, Rows, Times

\* A wait in force is a time.
LEMMA ScaledIs ==
  ASSUME NEW rv \in ReviewRows, NEW wait \in Nat
  PROVE  Scaled(rv, wait) \in Nat
<1>1. rv.priority \in {"high", "normal", "low"}
  BY DEF ReviewRows
<1>2. DoubledMultiplier(rv.priority) \in {1, 2, 4}
  BY <1>1 DEF DoubledMultiplier
<1> DEFINE d == DoubledMultiplier(rv.priority)
<1>3. (wait * 1) \div 2 \in Nat /\ (wait * 2) \div 2 \in Nat /\ (wait * 4) \div 2 \in Nat
  OBVIOUS
<1> HIDE DEF d
<1>4. (wait * d) \div 2 \in Nat
  BY <1>2, <1>3 DEF d
<1> QED
  BY <1>4 DEF Scaled, d

\* Every rung has its time and its audience.
LEMMA RungsAre ==
  ASSUME NEW rv, Askable(rv), NEW sent \in Sent, NEW count \in Nat, NEW parked \in Times
  PROVE  /\ Rung(rv, PlanEscalation(rv, sent))
         /\ Rung(rv, PlanAiReviewParked(rv, sent, parked))
         /\ Rung(rv, PlanNudge(rv, sent, count))
<1>1. /\ rv \in ReviewRows /\ rv.assignee \in Audiences /\ Channel \in Audiences
      /\ rv.dueAt \in Times /\ (rv.assignee # Nobody => rv.assignedAt \in Nat)
      /\ AudienceFor(rv) \in Audiences
  BY DEF Askable, ReviewRows, Audiences, AudienceFor
<1>2. /\ UnassignedAfter \in Nat /\ PendingAfter \in Nat /\ PendingRepeat \in Nat
      /\ EscalateAfterDue \in Nat /\ ParkedAfter \in Nat
  BY WaitsAreNat
<1>3. \A wait \in Nat : Scaled(rv, wait) \in Nat
  BY <1>1, ScaledIs
<1>4. \A k \in Kinds : sent[k] \in Times
  BY DEF Sent
<1>5. Rung(rv, PlanEscalation(rv, sent))
  <2>1. rv.dueAt # NoTime => rv.dueAt + EscalateAfterDue \in Nat
    BY <1>1, <1>2 DEF Times
  <2>2. CASE rv.dueAt = NoTime \/ sent["escalation"] # NoTime
    BY <2>2 DEF PlanEscalation, Rung
  <2>3. CASE ~(rv.dueAt = NoTime \/ sent["escalation"] # NoTime)
    <3> DEFINE c == Candidate("escalation", Channel, rv.dueAt + EscalateAfterDue)
    <3>1. c \in Rows /\ c.kind = "escalation" /\ c.to = Channel /\ c.dueAt \in Nat
          /\ c.snoozedUntil = NoTime
      BY <1>1, <2>1, <2>3, CandidateIs DEF Kinds
    <3> HIDE DEF c
    <3>2. Rung(rv, c)
      BY <3>1 DEF Rung, Fits, Kinds
    <3> QED
      BY <2>3, <3>2 DEF PlanEscalation, c
  <2> QED
    BY <2>2, <2>3
<1>6. Rung(rv, PlanAiReviewParked(rv, sent, parked))
  <2>1. CASE parked = NoTime \/ sent["ai_review_parked"] >= parked
    BY <2>1 DEF PlanAiReviewParked, Rung
  <2>2. CASE ~(parked = NoTime \/ sent["ai_review_parked"] >= parked)
    <3> DEFINE nextAt == parked + Scaled(rv, ParkedAfter)
               c == Candidate("ai_review_parked", AudienceFor(rv), nextAt)
    <3>1. nextAt \in Nat
      BY <1>2, <1>3, <2>2 DEF Times
    <3> HIDE DEF nextAt
    <3>2. c \in Rows /\ c.kind = "ai_review_parked" /\ c.to = AudienceFor(rv) /\ c.dueAt \in Nat
          /\ c.snoozedUntil = NoTime
      BY <1>1, <3>1, CandidateIs DEF Kinds
    <3> HIDE DEF c
    <3>3. Rung(rv, c)
      BY <3>2 DEF Rung, Fits, Kinds
    <3> QED
      BY <2>2, <3>3 DEF PlanAiReviewParked, c, nextAt
  <2> QED
    BY <2>1, <2>2
<1>7. Rung(rv, PlanNudge(rv, sent, count))
  <2>1. CASE rv.assignee = Nobody
    <3> DEFINE nextAt == Scaled(rv, UnassignedAfter)
               c == Candidate("unassigned", Channel, nextAt)
    <3>1. nextAt \in Nat
      BY <1>2, <1>3
    <3> HIDE DEF nextAt
    <3>2. c \in Rows /\ c.kind = "unassigned" /\ c.to = Channel /\ c.dueAt \in Nat
          /\ c.snoozedUntil = NoTime
      BY <1>1, <3>1, CandidateIs DEF Kinds
    <3> HIDE DEF c
    <3>3. Rung(rv, c)
      BY <2>1, <3>2 DEF Rung, Fits, Kinds, AudienceFor
    <3>4. PlanNudge(rv, sent, count) \in {NoRow, c}
      BY <2>1 DEF PlanNudge, c, nextAt
    <3> QED
      BY <3>3, <3>4 DEF Rung
  <2>2. CASE rv.assignee # Nobody
    <3> DEFINE nextAt == NextPendingReminderAt(rv, sent)
               c == Candidate("pending", rv.assignee, nextAt)
    <3>1. nextAt \in Nat
      <4>1. sent["pending"] \in Times /\ Scaled(rv, PendingRepeat) \in Nat
            /\ Scaled(rv, PendingAfter) \in Nat
        BY <1>2, <1>3, <1>4 DEF Kinds
      <4> QED
        BY <1>1, <2>2, <4>1 DEF NextPendingReminderAt, Times
    <3> HIDE DEF nextAt
    <3>2. c \in Rows /\ c.kind = "pending" /\ c.to = rv.assignee /\ c.dueAt \in Nat
          /\ c.snoozedUntil = NoTime
      BY <1>1, <3>1, CandidateIs DEF Kinds
    <3> HIDE DEF c
    <3>3. Rung(rv, c)
      BY <2>2, <3>2 DEF Rung, Fits, Kinds, AudienceFor
    <3>4. PlanNudge(rv, sent, count) \in {NoRow, c}
      BY <2>2 DEF PlanNudge, c, nextAt
    <3> QED
      BY <3>3, <3>4 DEF Rung
  <2> QED
    BY <2>1, <2>2
<1> QED
  BY <1>5, <1>6, <1>7

\* The earliest of three rungs is one of them, and due no later than any.
LEMMA EarliestIs ==
  ASSUME NEW rv, NEW s, DOMAIN s = 1 .. 3, \A i \in 1 .. 3 : Rung(rv, s[i])
  PROVE  /\ Rung(rv, Earliest(s))
         /\ \A i \in 1 .. 3 : s[i] # NoRow => Earliest(s) # NoRow /\ Earliest(s).dueAt <= s[i].dueAt
<1> DEFINE found == {i \in 1 .. 3 : s[i] # NoRow}
           before(i, j) == \/ s[i].dueAt < s[j].dueAt
                           \/ s[i].dueAt = s[j].dueAt /\ i <= j
<1>1. CASE found = {}
  BY <1>1 DEF Earliest, Rung
<1>2. CASE found # {}
  <2>1. \A i \in found : s[i].dueAt \in Nat /\ i \in {1, 2, 3}
    BY DEF Rung
  <2>2. \E i \in found : \A j \in found : before(i, j)
    BY <1>2, <2>1, Z3
  <2>3. PICK i \in found : Earliest(s) = s[i] /\ \A j \in found : before(i, j)
    BY <1>2, <2>2 DEF Earliest
  <2>4. Earliest(s) # NoRow /\ Rung(rv, Earliest(s))
    BY <2>3
  <2>5. \A j \in found : s[i].dueAt <= s[j].dueAt
    BY <2>1, <2>3
  <2> QED
    BY <2>3, <2>4, <2>5
<1> QED
  BY <1>1, <1>2

\* The policy's one nudge: none for a resolved review; else it is due no later than
\* any rung, or when the pause of the row it replaces ends.
LEMMA PlanIs ==
  ASSUME NEW rv, Askable(rv), NEW sent \in Sent, NEW count \in Nat, NEW parked \in Times,
         NEW outstanding \in Rows
  PROVE  LET p == PlanNextReminder(rv, sent, count, parked, outstanding) IN
         /\ Scheduled(rv, p)
         /\ p.snoozedUntil \in {NoTime, outstanding.snoozedUntil}
         /\ rv.resolved => p = NoRow
         /\ ~rv.resolved =>
              \A i \in 1 .. 3 :
                LET rung == Candidates(rv, sent, count, parked)[i]
                IN rung # NoRow => p # NoRow /\ (p.dueAt <= rung.dueAt \/ p.dueAt <= outstanding.snoozedUntil)
<1> DEFINE s == Candidates(rv, sent, count, parked)
           e == Earliest(s)
           until == outstanding.snoozedUntil
           p == PlanNextReminder(rv, sent, count, parked, outstanding)
<1>1. DOMAIN s = 1 .. 3 /\ \A i \in 1 .. 3 : Rung(rv, s[i])
  <2>1. DOMAIN s = 1 .. 3
    BY DEF Candidates
  <2>2. /\ s[1] = PlanEscalation(rv, sent) /\ s[2] = PlanAiReviewParked(rv, sent, parked)
        /\ s[3] = PlanNudge(rv, sent, count)
    BY DEF Candidates
  <2> HIDE DEF s
  <2> QED
    BY <2>1, <2>2, RungsAre
<1> HIDE DEF s
<1>2. Rung(rv, e) /\ \A i \in 1 .. 3 : s[i] # NoRow => e # NoRow /\ e.dueAt <= s[i].dueAt
  BY <1>1, EarliestIs
<1>3. until \in Times
  BY DEF Rows
<1>4. p = IF rv.resolved THEN NoRow ELSE Deferred(e, until)
  BY DEF PlanNextReminder, s
<1> HIDE DEF e, until, p
<1>5. CASE rv.resolved \/ e = NoRow
  <2>1. p = NoRow
    BY <1>4, <1>5 DEF Deferred
  <2>2. Scheduled(rv, p) /\ p.snoozedUntil = NoTime
    BY <2>1, NoRowIs DEF Scheduled
  <2> QED
    BY <1>2, <1>5, <2>1, <2>2 DEF s, p
<1>6. CASE ~rv.resolved /\ e # NoRow /\ until <= e.dueAt
  <2>1. p = e
    BY <1>4, <1>6 DEF Deferred
  <2>2. Scheduled(rv, p) /\ p.snoozedUntil = NoTime
    BY <1>2, <1>6, <2>1 DEF Rung, Scheduled
  <2>3. \A i \in 1 .. 3 : s[i] # NoRow => p # NoRow /\ p.dueAt <= s[i].dueAt
    BY <1>2, <2>1
  <2> QED
    BY <1>6, <2>2, <2>3 DEF s, p
<1>7. CASE ~rv.resolved /\ e # NoRow /\ ~(until <= e.dueAt)
  <2>1. e \in Rows /\ e.kind \in Kinds /\ Fits(rv, e)
    BY <1>2, <1>7 DEF Rung
  <2>2. p = [e EXCEPT !.dueAt = until, !.snoozedUntil = until]
    BY <1>4, <1>7 DEF Deferred
  <2>3. p \in Rows /\ p.kind = e.kind /\ p.to = e.to /\ p.dueAt = until /\ p.snoozedUntil = until
    BY <1>3, <2>1, <2>2 DEF Rows
  <2>4. Scheduled(rv, p) /\ p # NoRow
    BY <2>1, <2>3, NoRowIs DEF Scheduled, Fits
  <2>5. p.dueAt <= until
    BY <1>3, <2>3 DEF Times
  <2>6. p.snoozedUntil \in {NoTime, outstanding.snoozedUntil} /\ until = outstanding.snoozedUntil
    BY <2>3 DEF until
  <2>7. \A i \in 1 .. 3 : s[i] # NoRow => p # NoRow /\ p.dueAt <= outstanding.snoozedUntil
    BY <2>4, <2>5, <2>6
  <2> QED
    BY <1>7, <2>4, <2>6, <2>7 DEF s, p
<1> QED
  BY <1>5, <1>6, <1>7

-----------------------------------------------------------------------------
(* Every step keeps the nudge in step with the policy. *)

\* Whatever a gesture changes, the re-plan behind it leaves the right row.
LEMMA CadenceReplan ==
  ASSUME Askable(review'), sentAt' \in Sent, pendings' \in Nat, parkedAt' \in Times,
         now' \in Nat, pauseEnd' \in Times, NEW outstanding \in Rows,
         ~review'.resolved => outstanding.snoozedUntil <= pauseEnd',
         nudge' = PlanNextReminder(review', sentAt', pendings', parkedAt', outstanding)
  PROVE  CadenceInv'
<1>1. PICK rv, sent, count, parked :
         rv = review' /\ sent = sentAt' /\ count = pendings' /\ parked = parkedAt'
  OBVIOUS
<1> DEFINE p == PlanNextReminder(rv, sent, count, parked, outstanding)
<1>2. Askable(rv) /\ sent \in Sent /\ count \in Nat /\ parked \in Times
  BY <1>1
<1>3. /\ Scheduled(rv, p)
      /\ p.snoozedUntil \in {NoTime, outstanding.snoozedUntil}
      /\ (rv.resolved => p = NoRow)
      /\ (~rv.resolved =>
            \A i \in 1 .. 3 :
              LET rung == Candidates(rv, sent, count, parked)[i]
              IN rung # NoRow => p # NoRow /\ (p.dueAt <= rung.dueAt \/ p.dueAt <= outstanding.snoozedUntil))
  BY <1>2, PlanIs
<1>4. nudge' = p
  BY <1>1
<1> HIDE DEF p
<1>5. outstanding.snoozedUntil \in Times /\ p.dueAt \in Times
  BY <1>3 DEF Rows, Scheduled
<1>6. p.snoozedUntil <= pauseEnd'
  <2>1. CASE rv.resolved
    <3>1. p.snoozedUntil = NoTime
      BY <1>3, <2>1, NoRowIs
    <3> QED
      BY <3>1 DEF Times, NoTime
  <2>2. CASE ~rv.resolved
    BY <1>1, <1>3, <2>2 DEF Times, NoTime
  <2> QED
    BY <2>1, <2>2
<1>7. NoRungSilenced'
  <2> SUFFICES ASSUME ~rv.resolved, NEW i \in 1 .. 3,
                      Candidates(rv, sent, count, parked)[i] # NoRow
               PROVE  LET rung == Candidates(rv, sent, count, parked)[i]
                      IN p # NoRow /\ (p.dueAt <= rung.dueAt \/ p.dueAt <= pauseEnd')
    BY <1>1, <1>4 DEF NoRungSilenced
  <2> DEFINE rung == Candidates(rv, sent, count, parked)[i]
  <2>1. p # NoRow /\ (p.dueAt <= rung.dueAt \/ p.dueAt <= outstanding.snoozedUntil)
    BY <1>3
  <2>2. outstanding.snoozedUntil <= pauseEnd'
    BY <1>1
  <2> HIDE DEF rung
  <2>3. p.dueAt <= rung.dueAt \/ p.dueAt <= pauseEnd'
    BY <1>5, <2>1, <2>2 DEF Times, NoTime
  <2> QED
    BY <2>1, <2>3 DEF rung
<1> QED
  BY <1>1, <1>3, <1>4, <1>6, <1>7 DEF CadenceInv

\* A new assignment, verdict or park.
LEMMA GestureStep ==
  ASSUME CadenceInv,
         \/ \E r \in Reviewers : Assign(r)
         \/ \E resolved \in BOOLEAN : UpdateStatus(resolved)
         \/ \E parks \in BOOLEAN : FoundPark(parks)
  PROVE  CadenceInv'
<1>1. /\ sentAt' \in Sent /\ pendings' \in Nat /\ now' \in Nat /\ nudge \in Rows
      /\ nudge.snoozedUntil <= pauseEnd
      /\ nudge' = PlanNextReminder(review', sentAt', pendings', parkedAt', nudge)
  BY DEF CadenceInv, Scheduled, Assign, UpdateStatus, FoundPark, Change, ScheduleNextReminder
<1>2. CASE \E r \in Reviewers : Assign(r)
  <2>1. PICK r \in Reviewers : Assign(r)
    BY <1>2
  <2>2. Askable(review')
    BY <2>1 DEF CadenceInv, Assign, Askable, ReviewRows, Times
  <2>3. parkedAt' \in Times /\ pauseEnd' = pauseEnd /\ pauseEnd \in Times
    BY <2>1 DEF Assign, CadenceInv
  <2> QED
    BY <1>1, <2>2, <2>3, CadenceReplan
<1>3. CASE \E resolved \in BOOLEAN : UpdateStatus(resolved)
  <2>1. PICK resolved \in BOOLEAN : UpdateStatus(resolved)
    BY <1>3
  <2>2. Askable(review') /\ review'.resolved = resolved
    BY <2>1 DEF CadenceInv, UpdateStatus, Askable, ReviewRows
  <2>3. parkedAt' \in Times /\ pauseEnd' \in Times /\ (~resolved => pauseEnd' = pauseEnd)
    BY <2>1 DEF UpdateStatus, CadenceInv, Times
  <2> QED
    BY <1>1, <2>2, <2>3, CadenceReplan
<1>4. CASE \E parks \in BOOLEAN : FoundPark(parks)
  <2>1. Askable(review') /\ parkedAt' \in Times /\ pauseEnd' = pauseEnd /\ pauseEnd \in Times
    BY <1>4 DEF CadenceInv, FoundPark, Times
  <2> QED
    BY <1>1, <2>1, CadenceReplan
<1> QED
  BY <1>2, <1>3, <1>4

\* A pause holds the row back, and is when it is due.
LEMMA SnoozeStep ==
  ASSUME CadenceInv, NEW hours \in Pauses, SnoozeReview(hours)
  PROVE  CadenceInv'
<1> DEFINE kept == IF nudge = NoRow THEN PlannedTarget ELSE nudge
           until == now + hours
<1>1. until \in Nat
  BY PausesAreNat DEF CadenceInv
<1>2. kept \in Rows /\ kept.kind \in Kinds /\ Fits(review, kept)
  <2>1. CASE nudge # NoRow
    BY <2>1 DEF CadenceInv, Scheduled
  <2>2. CASE nudge = NoRow
    BY <2>2 DEF CadenceInv, PlannedTarget, Candidate, Rows, Kinds, Fits, Audiences, AudienceFor,
                Askable, ReviewRows, Times
  <2> QED
    BY <2>1, <2>2
<1>3. nudge' = [kept EXCEPT !.dueAt = until, !.snoozedUntil = until] /\ pauseEnd' = until
      /\ UNCHANGED <<review, parkedAt, now, sentAt, pendings>>
  BY DEF SnoozeReview, Change
<1> HIDE DEF kept, until
<1>4. /\ nudge' \in Rows /\ nudge'.kind = kept.kind /\ nudge'.to = kept.to /\ nudge'.dueAt = until
      /\ nudge'.snoozedUntil = until
  BY <1>1, <1>2, <1>3 DEF Rows, Times
<1>5. Scheduled(review, nudge')
  BY <1>2, <1>4 DEF Scheduled, Fits
<1>6. nudge' # NoRow /\ nudge'.dueAt <= pauseEnd' /\ nudge'.snoozedUntil <= pauseEnd'
  <2>1. nudge' # NoRow
    BY <1>2, <1>4, NoRowIs
  <2>2. until <= until
    BY <1>1
  <2> QED
    BY <1>3, <1>4, <2>1, <2>2
<1>7. NoRungSilenced'
  BY <1>3, <1>6 DEF NoRungSilenced
<1> QED
  BY <1>1, <1>3, <1>5, <1>6, <1>7 DEF CadenceInv, Times

\* The due row goes out, or is refused.
LEMMA DeliverStep ==
  ASSUME CadenceInv, Deliver \/ Refuse
  PROVE  CadenceInv'
<1>1. CASE Deliver
  <2>1. sentAt' \in Sent /\ pendings' \in Nat
    <3>1. sentAt' = [sentAt EXCEPT ![nudge.kind] = now] /\ now \in Times /\ sentAt \in [Kinds -> Times]
      BY <1>1 DEF CadenceInv, Deliver, Sent, Times
    <3>2. sentAt' \in [Kinds -> Times]
      BY <3>1
    <3> QED
      BY <1>1, <3>2 DEF CadenceInv, Deliver, Sent
  <2>2. /\ Askable(review') /\ parkedAt' \in Times /\ now' \in Nat /\ pauseEnd' \in Times
        /\ nudge' = PlanNextReminder(review', sentAt', pendings', parkedAt', NoRow)
    BY <1>1 DEF CadenceInv, Deliver
  <2>3. NoRow \in Rows /\ NoRow.snoozedUntil <= pauseEnd'
    BY <2>2, NoRowIs DEF Times, NoTime
  <2> QED
    BY <2>1, <2>2, <2>3, CadenceReplan
<1>2. CASE Refuse
  <2>1. nudge' = NoRow /\ refused' /\ UNCHANGED <<now, review, parkedAt, sentAt, pendings, pauseEnd>>
    BY <1>2 DEF Refuse
  <2>2. NoRow.snoozedUntil <= pauseEnd
    BY NoRowIs DEF CadenceInv, Times, NoTime
  <2>3. Scheduled(review, NoRow)
    BY NoRowIs DEF Scheduled
  <2>4. NoRungSilenced'
    BY <2>1 DEF NoRungSilenced
  <2> QED
    BY <2>1, <2>2, <2>3, <2>4 DEF CadenceInv
<1> QED
  BY <1>1, <1>2

\* The first nudge is the policy's.
LEMMA CadenceStarts ==
  ASSUME CadenceInit PROVE CadenceInv
<1>1. /\ Askable(review) /\ parkedAt \in Times /\ pauseEnd \in Times /\ sentAt \in Sent
      /\ pendings \in Nat /\ now \in Nat
  BY DeadlinesAreTimes DEF CadenceInit, Askable, ReviewRows, Times, Sent
<1> DEFINE p == PlanNextReminder(review, sentAt, pendings, parkedAt, NoRow)
<1>2. NoRow \in Rows /\ NoRow.snoozedUntil = NoTime
  BY NoRowIs
<1>3. /\ Scheduled(review, p) /\ p.snoozedUntil = NoTime
      /\ (~review.resolved =>
            \A i \in 1 .. 3 :
              LET rung == Candidates(review, sentAt, pendings, parkedAt)[i]
              IN rung # NoRow => p # NoRow /\ (p.dueAt <= rung.dueAt \/ p.dueAt <= NoTime))
  BY <1>1, <1>2, PlanIs
<1>4. nudge = p /\ pauseEnd = NoTime
  BY DEF CadenceInit
<1> HIDE DEF p
<1>5. NoRungSilenced
  BY <1>3, <1>4 DEF NoRungSilenced
<1> QED
  BY <1>1, <1>3, <1>4, <1>5 DEF CadenceInv, NoTime

\* In every state the scheduled row is the policy's.
LEMMA AlwaysInCadence ==
  CadenceSpec => []CadenceInv
<1>1. CadenceInv /\ [CadenceNext]_cadenceVars => CadenceInv'
  <2> SUFFICES ASSUME CadenceInv, [CadenceNext]_cadenceVars PROVE CadenceInv'
    OBVIOUS
  <2>1. CASE UNCHANGED cadenceVars \/ TimePasses
    <3>1. /\ now' \in Nat
          /\ UNCHANGED <<review, parkedAt, nudge, sentAt, pendings, pauseEnd, refused>>
      BY <2>1 DEF cadenceVars, TimePasses, CadenceInv
    <3>2. NoRungSilenced'
      BY <3>1 DEF CadenceInv, NoRungSilenced
    <3> QED
      BY <3>1, <3>2 DEF CadenceInv
  <2>2. CASE \E hours \in Pauses : SnoozeReview(hours)
    BY <2>2, SnoozeStep
  <2>3. CASE Deliver \/ Refuse
    BY <2>3, DeliverStep
  <2> QED
    BY <2>1, <2>2, <2>3, GestureStep DEF CadenceNext
<1> QED
  BY <1>1, CadenceStarts, PTL DEF CadenceSpec

-----------------------------------------------------------------------------
(* The theorems. *)

\* Every rung of an open review is heard in its own time: the one row there is, is
\* due no later than any rung the policy has left, or than the end of a pause.
THEOREM EveryRungHeard ==
  CadenceSpec => []NoRungSilenced
<1>1. CadenceInv => NoRungSilenced
  BY DEF CadenceInv
<1> QED
  BY <1>1, AlwaysInCadence, PTL

\* A nudge goes to whoever holds the review now; only the escalation goes wider.
THEOREM NudgeReachesTheHolder ==
  CadenceSpec => []AudienceFits
<1>1. CadenceInv => AudienceFits
  BY DEF CadenceInv, Scheduled, Fits, AudienceFits
<1> QED
  BY <1>1, AlwaysInCadence, PTL
=============================================================================
