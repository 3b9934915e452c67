--------------------------- MODULE AiReviewParkProofs ---------------------------
(***************************************************************************)
(* What a row of an AI review knows only grows, a settled one stays so,    *)
(* and a park is announced once: for any number of runs, pollers, passes   *)
(* and failures, when nothing runs between the read and the write of a     *)
(* row. That a park's news is planned holds besides when no re-plan fails, *)
(* or the review has one run and no older stamp is put back.               *)
(***************************************************************************)
EXTENDS AiReviewPark, TLAPS

-----------------------------------------------------------------------------
(* Pictures of a run's curation, each taken of one that only grows. *)

Rank(challenge) ==
  CASE challenge = "none" -> 0 [] challenge = "investigating" -> 1 [] OTHER -> 2

\* Picture c is no later than picture d.
NoLater(c, d) == c.passes <= d.passes /\ Rank(c.challenge) <= Rank(d.challenge)
Ordered(c, d) == NoLater(c, d) \/ NoLater(d, c)

PicturesInv ==
  /\ TypeOK
  /\ \A r \in Runs : NoLater(row[r].curation, curation[r])
  /\ \A p \in Pollers :
       /\ NoLater(report[p].curation, curation[report[p].run])
       /\ Ordered(row[report[p].run].curation, report[p].curation)
  /\ \A p \in Pollers, q \in Pollers :
       report[p].run = report[q].run => Ordered(report[p].curation, report[q].curation)

-----------------------------------------------------------------------------
(* What a poller holds, when nobody stands between its read and its write. *)

Holding == {"writing", "rewriting", "dismissed"}

Now(p) == CurationFor(report[p], row[report[p].run].curation)
Patch(p) ==
  [status |-> report[p].status, curation |-> Now(p),
   stamp |-> ParkedAt(row[report[p].run], report[p].status, Now(p))]

\* What it is about to write is what the row it read still asks for.
Sound(p) ==
  /\ pc[p] = "writing" => patch[p] = Patch(p) /\ ~Late(p)
  /\ pc[p] = "dismissed" => NoLater(row[report[p].run].curation, report[p].curation)

HandsInv ==
  /\ PicturesInv
  /\ \A p \in Pollers, q \in Pollers : pc[p] \in Holding /\ pc[q] \in Holding => p = q
  /\ \A p \in Pollers : Sound(p)

-----------------------------------------------------------------------------
(* A park somebody was told about. *)

\* The row and every answer still on its way show the park as it is.
Known(r) ==
  /\ phase[r] = "parked"
  /\ row[r] = [status |-> Parked, stamp |-> "announced", curation |-> curation[r]]
  /\ \A p \in Pollers :
       /\ pc[p] \in {"answered", "writing"} /\ report[p].run = r => report[p] = Answer(r)
       /\ \A e \in edges[p] : e.run # r

ToldInv == HandsInv /\ \A r \in Runs : told[r] => Known(r)

-----------------------------------------------------------------------------
(* The news that is on its way to the ladder. *)

InHand(p, r) == \E e \in edges[p] : e.run = r

\* A poller that moved a park has it in hand until the ladder is re-planned.
Keeps(p) ==
  /\ pc[p] \in {"idle", "dismissed"} => edges[p] = {}
  /\ pc[p] \in {"replanning", "rewriting"} => edges[p] # {}
  /\ pc[p] = "writing" /\ Stamped(row[report[p].run], report[p].status, Now(p))
       => InHand(p, report[p].run)
  /\ pc[p] = "rewriting" /\ News => wants[p]
  /\ pc[p] = "restoring" => \A e \in edges[p] : e.previous = "none"

PlannedInv ==
  /\ HandsInv
  /\ \A p \in Pollers : Keeps(p)
  /\ \A r \in Runs : IsNews(r) => nudge \/ \E p \in Pollers : InHand(p, r)

\* A curation counts its passes, and its challenge goes one way.
LEMMA CurationIs ==
  ASSUME NEW c \in Curations
  PROVE  /\ c.passes \in Nat /\ c.passes <= MaxPasses
         /\ c.challenge \in {"none", "investigating", "settled"}
         /\ c = [passes |-> c.passes, challenge |-> c.challenge]
         /\ Rank(c.challenge) \in {0, 1, 2}
         /\ Rank(c.challenge) = 0 <=> c.challenge = "none"
         /\ Rank(c.challenge) = 2 <=> c.challenge = "settled"
<1>1. c.passes \in 0 .. MaxPasses /\ c.challenge \in {"none", "investigating", "settled"}
  BY DEF Curations
<1>2. c = [passes |-> c.passes, challenge |-> c.challenge]
  BY DEF Curations
<1>3. /\ Rank(c.challenge) \in {0, 1, 2}
      /\ Rank(c.challenge) = 0 <=> c.challenge = "none"
      /\ Rank(c.challenge) = 2 <=> c.challenge = "settled"
  BY <1>1 DEF Rank
<1> QED
  BY <1>1, <1>2, <1>3, BoundsAreNat

-----------------------------------------------------------------------------
(* Types. *)

Reports ==
  [run : Runs, status : {"running", Parked, "settled"}, bare : BOOLEAN, curation : Curations]
Edges == [run : Runs, previous : Stamps]

\* What is there before anything was reported or decided.
LEMMA NothingYet ==
  /\ NoDecision \in Curations /\ NewRow \in Rows /\ NoReport \in Reports
  /\ NoReport.curation = NoDecision /\ NoReport.run \in Runs
<1>1. NoDecision \in Curations
  BY BoundsAreNat DEF NoDecision, Curations
<1>2. (CHOOSE r \in Runs : TRUE) \in Runs
  BY RunsAreSome
<1> QED
  BY <1>1, <1>2 DEF NewRow, Rows, NoReport, Reports, Stamps

\* cat-factory's answer shows the run as it is.
LEMMA AnswerIs ==
  ASSUME TypeOK, NEW r \in Runs
  PROVE  /\ Answer(r) \in Reports /\ Answer(r).run = r /\ Answer(r).curation = curation[r]
         /\ phase[r] = "parked" => Answer(r).status = Parked /\ ~Answer(r).bare
<1>1. phase[r] \in Phases /\ curation[r] \in Curations
  BY DEF TypeOK
<1> DEFINE status == CASE phase[r] = "parked" -> Parked [] phase[r] = "over" -> "settled"
                       [] OTHER -> "running"
<1>2. status \in {"running", Parked, "settled"} /\ (phase[r] = "parked" => status = Parked)
  BY DEF Parked
<1>3. PICK b \in BOOLEAN : b = (phase[r] \in {"working", "over"})
  <2>1. CASE phase[r] \in {"working", "over"}
    <3>1. TRUE = (phase[r] \in {"working", "over"})
      BY <2>1
    <3> QED
      BY <3>1
  <2>2. CASE phase[r] \notin {"working", "over"}
    <3>1. FALSE = (phase[r] \in {"working", "over"})
      BY <2>2
    <3> QED
      BY <3>1
  <2> QED
    BY <2>1, <2>2
<1>4. Answer(r) = [run |-> r, bare |-> b, curation |-> curation[r], status |-> status]
  BY <1>3 DEF Answer
<1>5. phase[r] = "parked" => ~b
  BY <1>3
<1> HIDE DEF status
<1>6. Answer(r) \in Reports
  BY <1>1, <1>2, <1>4 DEF Reports
<1> QED
  BY <1>2, <1>4, <1>5, <1>6

\* A row is patched with a row.
LEMMA PatchIs ==
  ASSUME TypeOK, NEW p \in Pollers
  PROVE  /\ Patch(p) \in Rows /\ report[p] \in Reports
         /\ row[report[p].run] \in Rows /\ report[p].run \in Runs
         /\ Now(p) \in {report[p].curation, row[report[p].run].curation}
<1>1. report[p] \in Reports
  BY DEF TypeOK, Reports
<1>2. row[report[p].run] \in Rows /\ report[p].run \in Runs
  BY <1>1 DEF TypeOK, Reports
<1>3. Now(p) \in {report[p].curation, row[report[p].run].curation}
  BY DEF Now, CurationFor
<1>4. Now(p) \in Curations
  BY <1>1, <1>2, <1>3 DEF Reports, Rows
<1>5. ParkedAt(row[report[p].run], report[p].status, Now(p)) \in Stamps
  BY <1>2 DEF ParkedAt, Stamps, Rows
<1> QED
  BY <1>1, <1>2, <1>3, <1>4, <1>5 DEF Patch, Rows, Reports

\* The poller that takes a step, and the others.
Others(p) ==
  \A q \in Pollers \ {p} :
    /\ pc'[q] = pc[q] /\ report'[q] = report[q] /\ patch'[q] = patch[q]
    /\ edges'[q] = edges[q] /\ wants'[q] = wants[q]

Acts(p) ==
  Poll(p) \/ (\E rs \in SUBSET Runs : Start(p, rs)) \/ WriteDismissed(p)
    \/ \E r \in Runs : DismissFinding(p, r)

\* A step of one poller is its own.
LEMMA ActsAlone ==
  ASSUME TypeOK, NEW p \in Pollers, Acts(p)
  PROVE  Others(p)
<1> USE DEF TypeOK, Others, Goto
<1>1. CASE \E r \in Runs : GetStatus(p, r) \/ PollRefused(p, r)
  BY <1>1 DEF GetStatus, PollRefused
<1>2. CASE Discard(p) \/ EndPolls(p)
  BY <1>2 DEF Discard, EndPolls
<1>3. CASE ReadRow(p)
  BY <1>3 DEF ReadRow
<1>4. CASE WriteRow(p)
  BY <1>4 DEF WriteRow
<1>5. CASE ReadLadder(p) \/ Rewrite(p)
  BY <1>5 DEF ReadLadder, Rewrite
<1>6. CASE ReplanFails(p)
  BY <1>6 DEF ReplanFails
<1>7. CASE Unstamp(p)
  BY <1>7 DEF Unstamp
<1>8. CASE \E rs \in SUBSET Runs : Start(p, rs)
  BY <1>8 DEF Start
<1>9. CASE WriteDismissed(p) \/ \E r \in Runs : DismissFinding(p, r)
  BY <1>9 DEF WriteDismissed, DismissFinding
<1> QED
  BY <1>1, <1>2, <1>3, <1>4, <1>5, <1>6, <1>7, <1>8, <1>9 DEF Acts, Poll

\* What cat-factory and a curator do.
Outside(r) == Park(r) \/ Post(r) \/ Challenge(r) \/ Verdict(r) \/ End(r)

\* Every step is a poller's, the nudge, or theirs.
LEMMA StepsAre ==
  ASSUME TypeOK, Next
  PROVE  (\E p \in Pollers : Acts(p)) \/ Send \/ \E r \in Runs : Outside(r)
<1>1. InFlight \in SUBSET Runs /\ \A r \in Runs : {r} \in SUBSET Runs
  BY DEF InFlight
<1> QED
  BY <1>1 DEF Next, Acts, Outside

\* A poller's step keeps the types.
LEMMA ActsTyped ==
  ASSUME TypeOK, NEW p \in Pollers, Acts(p)
  PROVE  TypeOK'
<1> USE DEF Goto, upstream, polling
<1>t. /\ report \in [Pollers -> Reports] /\ edges \in [Pollers -> SUBSET Edges]
      /\ patch \in [Pollers -> Rows] /\ row \in [Runs -> Rows]
  BY DEF TypeOK, Reports, Edges
<1>1. CASE \E r \in Runs : GetStatus(p, r)
  <2>1. PICK r \in Runs : GetStatus(p, r)
    BY <1>1
  <2>2. PICK x \in Reports : x = Answer(r)
    BY AnswerIs
  <2>3. report' \in [Pollers -> Reports]
    BY <1>t, <2>1, <2>2 DEF GetStatus
  <2> QED
    BY <2>1, <2>3 DEF GetStatus, TypeOK, Reports
<1>2. CASE \E r \in Runs : PollRefused(p, r)
  BY <1>2 DEF PollRefused, TypeOK
<1>3. CASE Discard(p)
  <2>1. report' \in [Pollers -> Reports]
    BY <1>t, <1>3, NothingYet DEF Discard
  <2> QED
    BY <1>3, <2>1 DEF Discard, TypeOK, Reports
<1>4. CASE ReadRow(p)
  <2>1. Patch(p) \in Rows /\ report[p].run \in Runs /\ row[report[p].run] \in Rows
    BY PatchIs
  <2>2. patch' = [patch EXCEPT ![p] = Patch(p)]
    BY <1>4 DEF ReadRow, Patch, Now
  <2>3. patch' \in [Pollers -> Rows]
    BY <1>t, <2>1, <2>2
  <2>4. [run |-> report[p].run, previous |-> row[report[p].run].stamp] \in Edges
    BY <2>1 DEF Rows, Edges
  <2>5. edges' \in [Pollers -> SUBSET Edges]
    BY <1>t, <1>4, <2>4 DEF ReadRow
  <2>6. UNCHANGED <<upstream, row, nudge, todo, report, wants, failures>>
        /\ pc' = [pc EXCEPT ![p] = "writing"]
    BY <1>4 DEF ReadRow
  <2> QED
    BY <2>3, <2>5, <2>6 DEF TypeOK, Edges
<1>5. CASE WriteRow(p)
  <2>1. row' \in [Runs -> Rows]
    BY <1>t, <1>5 DEF WriteRow
  <2>2. report' \in [Pollers -> Reports] /\ patch' \in [Pollers -> Rows]
    BY <1>t, <1>5, NothingYet DEF WriteRow
  <2> QED
    BY <1>5, <2>1, <2>2 DEF WriteRow, TypeOK, Reports
<1>6. CASE EndPolls(p)
  BY <1>6 DEF EndPolls, TypeOK
<1>7. CASE ReadLadder(p)
  <2>1. News \in BOOLEAN
    BY DEF News
  <2> QED
    BY <1>7, <2>1 DEF ReadLadder, TypeOK
<1>8. CASE Rewrite(p)
  BY <1>8 DEF Rewrite, TypeOK
<1>9. CASE ReplanFails(p)
  <2>1. failures' \in 0 .. MaxFailures
    BY <1>9, BoundsAreNat DEF ReplanFails, TypeOK
  <2> QED
    BY <1>9, <2>1 DEF ReplanFails, TypeOK
<1>10. CASE Unstamp(p)
  <2>1. PICK e \in edges[p] :
          /\ row' = [row EXCEPT ![e.run].stamp = e.previous]
          /\ edges' = [edges EXCEPT ![p] = edges[p] \ {e}]
          /\ pc' = [pc EXCEPT ![p] = IF edges[p] = {e} THEN "idle" ELSE "restoring"]
    BY <1>10 DEF Unstamp
  <2>2. e \in Edges
    BY <1>t
  <2>3. row' \in [Runs -> Rows]
    BY <1>t, <2>1, <2>2 DEF Rows, Edges
  <2>4. edges' \in [Pollers -> SUBSET Edges]
    BY <1>t, <2>1
  <2>5. UNCHANGED <<upstream, nudge, todo, report, patch, wants, failures>>
    BY <1>10 DEF Unstamp
  <2> QED
    BY <2>1, <2>3, <2>4, <2>5 DEF TypeOK, Edges
<1>11. CASE \E rs \in SUBSET Runs : Start(p, rs)
  BY <1>11 DEF Start, TypeOK
<1>12. CASE WriteDismissed(p)
  <2>1. report[p] \in Reports
    BY <1>t
  <2>2. row' \in [Runs -> Rows]
    BY <1>t, <1>12, <2>1 DEF WriteDismissed, Rows, Reports
  <2>3. report' \in [Pollers -> Reports]
    BY <1>t, <1>12, NothingYet DEF WriteDismissed
  <2>4. shown' \in [Runs -> BOOLEAN]
    <3>1. PICK b \in BOOLEAN :
            b = (report[p] = Answer(report[p].run)
                   /\ report[p].curation # row[report[p].run].curation)
      OBVIOUS
    <3>2. shown' = [shown EXCEPT ![report[p].run] = shown[report[p].run] \/ b]
      BY <1>12, <3>1 DEF WriteDismissed
    <3>3. shown \in [Runs -> BOOLEAN]
      BY DEF TypeOK
    <3> QED
      BY <3>2, <3>3
  <2>5. UNCHANGED <<phase, curation, told, nudge, todo, patch, edges, wants, failures>>
        /\ pc' = [pc EXCEPT ![p] = "idle"]
    BY <1>12 DEF WriteDismissed
  <2> QED
    BY <2>2, <2>3, <2>4, <2>5 DEF TypeOK, Reports
<1>13. CASE \E r \in Runs : DismissFinding(p, r)
  <2>1. PICK r \in Runs : DismissFinding(p, r)
    BY <1>13
  <2>2. PICK x \in Reports : x = Answer(r)
    BY AnswerIs
  <2>3. report' \in [Pollers -> Reports]
    BY <1>t, <2>1, <2>2 DEF DismissFinding
  <2> QED
    BY <2>1, <2>3 DEF DismissFinding, TypeOK, Reports
<1> QED
  BY <1>1, <1>2, <1>3, <1>4, <1>5, <1>6, <1>7, <1>8, <1>9, <1>10, <1>11, <1>12, <1>13
     DEF Acts, Poll

\* The nudge leaves every row as it is but for its stamp.
LEMMA SendIs ==
  ASSUME TypeOK, Send
  PROVE  /\ TypeOK'
         /\ UNCHANGED <<phase, curation, polling, failures>> /\ nudge' = FALSE
         /\ \A r \in Runs :
              /\ row'[r] = [row[r] EXCEPT !.stamp = Announced(row[r].stamp)]
              /\ row'[r].status = row[r].status /\ row'[r].curation = row[r].curation
              /\ row'[r].stamp = Announced(row[r].stamp)
              /\ told'[r] <=> told[r] \/ IsNews(r)
<1>1. \A r \in Runs : row[r] \in Rows /\ Announced(row[r].stamp) \in Stamps
  BY DEF TypeOK, Rows, Announced, Stamps
<1>2. row' = [r \in Runs |-> [row[r] EXCEPT !.stamp = Announced(row[r].stamp)]]
  BY DEF Send
<1>3. \A r \in Runs : row'[r] \in Rows /\ row'[r].status = row[r].status
                      /\ row'[r].curation = row[r].curation
                      /\ row'[r].stamp = Announced(row[r].stamp)
  BY <1>1, <1>2 DEF Rows
<1>4. row' \in [Runs -> Rows]
  BY <1>2, <1>3
<1>5. UNCHANGED <<phase, curation, shown, polling, failures>> /\ nudge' = FALSE
      /\ told' = [r \in Runs |-> told[r] \/ IsNews(r)]
  BY DEF Send
<1>6. told' \in [Runs -> BOOLEAN]
  BY <1>5
<1>7. TypeOK'
  BY <1>4, <1>5, <1>6 DEF TypeOK, polling
<1> QED
  BY <1>2, <1>3, <1>5, <1>7

\* A run's curation only grows, and nothing of the pollers' or the rows moves.
LEMMA OutsideIs ==
  ASSUME TypeOK, NEW r \in Runs, Outside(r)
  PROVE  /\ TypeOK' /\ UNCHANGED <<row, nudge, polling, failures>>
         /\ told' = [told EXCEPT ![r] = FALSE] /\ phase[r] # "over"
         /\ \A s \in Runs \ {r} : phase'[s] = phase[s] /\ curation'[s] = curation[s]
         /\ NoLater(curation[r], curation'[r])
<1>1. curation[r] \in Curations
  BY DEF TypeOK
<1>2. ASSUME NEW from \in SUBSET Phases, NEW to \in Phases, Enter(r, from, to), "over" \notin from
      PROVE  /\ phase' \in [Runs -> Phases] /\ UNCHANGED <<row, nudge, polling, failures>>
             /\ told' \in [Runs -> BOOLEAN] /\ shown' \in [Runs -> BOOLEAN]
             /\ told' = [told EXCEPT ![r] = FALSE] /\ phase[r] # "over"
             /\ \A s \in Runs \ {r} : phase'[s] = phase[s]
  BY <1>2 DEF Enter, TypeOK
<1> DEFINE Unmoved ==
      /\ UNCHANGED <<row, nudge, polling, failures>> /\ phase' \in [Runs -> Phases]
      /\ told' \in [Runs -> BOOLEAN] /\ shown' \in [Runs -> BOOLEAN]
      /\ told' = [told EXCEPT ![r] = FALSE] /\ phase[r] # "over"
      /\ \A s \in Runs \ {r} : phase'[s] = phase[s]
<1>3. Unmoved
  BY <1>2 DEF Outside, Park, Post, Challenge, Verdict, End, Phases
<1>4. \/ curation' = curation
      \/ /\ curation[r].passes < MaxPasses
         /\ curation' = [curation EXCEPT ![r].passes = curation[r].passes + 1]
      \/ curation[r].challenge = "none"
         /\ curation' = [curation EXCEPT ![r].challenge = "investigating"]
      \/ curation' = [curation EXCEPT ![r].challenge = "settled"]
  BY DEF Outside, Park, Post, Challenge, Verdict, End
<1>5. /\ curation' \in [Runs -> Curations] /\ NoLater(curation[r], curation'[r])
      /\ \A s \in Runs \ {r} : curation'[s] = curation[s]
  <2>c. curation \in [Runs -> Curations]
    BY DEF TypeOK
  <2>1. CASE curation' = curation
    BY <1>1, <2>1, <2>c, CurationIs DEF NoLater
  <2>2. CASE /\ curation[r].passes < MaxPasses
             /\ curation' = [curation EXCEPT ![r].passes = curation[r].passes + 1]
    <3> DEFINE c == [curation[r] EXCEPT !.passes = curation[r].passes + 1]
    <3>1. curation[r].passes + 1 \in 0 .. MaxPasses
      BY <1>1, <2>2, CurationIs, BoundsAreNat
    <3>2. c \in Curations
      BY <1>1, <3>1 DEF Curations
    <3>3. NoLater(curation[r], c)
      BY <1>1, CurationIs DEF NoLater, Curations
    <3>4. curation' = [curation EXCEPT ![r] = c]
      BY <2>2
    <3> QED
      BY <2>c, <3>2, <3>3, <3>4
  <2>3. CASE curation[r].challenge = "none"
             /\ curation' = [curation EXCEPT ![r].challenge = "investigating"]
    <3> DEFINE c == [curation[r] EXCEPT !.challenge = "investigating"]
    <3>2. c \in Curations /\ c.challenge = "investigating" /\ c.passes = curation[r].passes
      BY <1>1 DEF Curations
    <3>3. NoLater(curation[r], c)
      BY <1>1, <3>2, <2>3, CurationIs DEF NoLater, Rank
    <3>4. curation' = [curation EXCEPT ![r] = c]
      BY <2>3
    <3> QED
      BY <2>c, <3>2, <3>3, <3>4
  <2>4. CASE curation' = [curation EXCEPT ![r].challenge = "settled"]
    <3> DEFINE c == [curation[r] EXCEPT !.challenge = "settled"]
    <3>2. c \in Curations /\ c.challenge = "settled" /\ c.passes = curation[r].passes
      BY <1>1 DEF Curations
    <3>3. NoLater(curation[r], c)
      BY <1>1, <3>2, CurationIs DEF NoLater, Rank
    <3>4. curation' = [curation EXCEPT ![r] = c]
      BY <2>4
    <3> QED
      BY <2>c, <3>2, <3>3, <3>4
  <2> QED
    BY <1>4, <2>1, <2>2, <2>3, <2>4
<1>6. TypeOK'
  BY <1>3, <1>5 DEF TypeOK, polling
<1> HIDE DEF Unmoved
<1> QED
  BY <1>3, <1>5, <1>6 DEF Unmoved

\* Every step keeps the types.
LEMMA TypeStep == TypeOK /\ [Next]_vars => TypeOK'
<1> SUFFICES ASSUME TypeOK, [Next]_vars PROVE TypeOK'
  OBVIOUS
<1>1. CASE UNCHANGED vars
  BY <1>1 DEF vars, upstream, polling, TypeOK
<1>2. CASE Next
  BY <1>2, StepsAre, ActsTyped, SendIs, OutsideIs
<1> QED
  BY <1>1, <1>2

\* A run's rows, its polls and its ladder keep their types.
LEMMA TypeInit == Init => TypeOK
<1> SUFFICES ASSUME Init PROVE TypeOK
  OBVIOUS
<1>1. /\ report \in [Pollers -> Reports] /\ patch \in [Pollers -> Rows]
      /\ row \in [Runs -> Rows] /\ curation \in [Runs -> Curations]
  BY NothingYet DEF Init
<1>2. phase \in [Runs -> Phases] /\ told \in [Runs -> BOOLEAN] /\ shown \in [Runs -> BOOLEAN]
  BY DEF Init, Phases
<1>3. /\ todo \in [Pollers -> SUBSET Runs] /\ wants \in [Pollers -> BOOLEAN]
      /\ edges \in [Pollers -> SUBSET [run : Runs, previous : Stamps]]
  BY DEF Init
<1>4. nudge \in BOOLEAN /\ failures \in 0 .. MaxFailures
  <2>1. nudge = FALSE /\ failures = 0
    BY DEF Init
  <2>2. 0 \in 0 .. MaxFailures
    BY BoundsAreNat
  <2> QED
    BY <2>1, <2>2, Zenon
<1>5. pc \in [Pollers -> {"idle", "polling", "answered", "writing", "replanning",
                         "rewriting", "restoring", "dismissed"}]
  BY DEF Init
<1> QED
  BY <1>1, <1>2, <1>3, <1>4, <1>5 DEF TypeOK, Reports

\* The variables keep their types, in every state.
THEOREM TypeCorrect == Spec => []TypeOK
BY TypeInit, TypeStep, PTL DEF Spec

-----------------------------------------------------------------------------
(* What a poller's step moves. *)

\* A row is left alone, patched by the poll of it, given the curation of a
\* dismissal, or given its older stamp back.
RowMoves(p, r) ==
  \/ row'[r] = row[r]
  \/ pc[p] = "writing" /\ report[p].run = r /\ row'[r] = Patch(p) /\ ~Late(p)
  \/ /\ pc[p] = "dismissed" /\ report[p].run = r
     /\ row'[r] = [row[r] EXCEPT !.curation = report[p].curation]
  \/ /\ pc[p] = "restoring"
     /\ \E e \in edges[p] : e.run = r /\ row'[r] = [row[r] EXCEPT !.stamp = e.previous]

\* A report is kept, dropped, or an answer.
ReportMoves(p) ==
  /\ report'[p] \in {report[p], NoReport} \/ \E r \in Runs : report'[p] = Answer(r)
  /\ pc'[p] = "answered" => \E r \in Runs : report'[p] = Answer(r)
  /\ pc'[p] = "dismissed" => \E r \in Runs : report'[p] = Answer(r)
  /\ pc'[p] = "writing" => ReadRow(p)

\* A step that reads to write, or writes, finds nobody between the two.
Moves(p) ==
  /\ UNCHANGED <<phase, curation, told>>
  /\ row' = row \/ pc[p] \in Holding \/ Free(p)
  /\ pc'[p] \in Holding => Free(p) /\ row' = row
  /\ edges'[p] \subseteq edges[p] \/ ReadRow(p)
  /\ ReportMoves(p)
  /\ \A r \in Runs : RowMoves(p, r)

\* A poller's step moves a row by what it holds, and its report by what it asks.
LEMMA ActsMove ==
  ASSUME TypeOK, NEW p \in Pollers, Acts(p), Sound(p)
  PROVE  Moves(p)
<1> USE DEF Goto, upstream, Holding, Moves, ReportMoves, RowMoves
<1>t. /\ pc \in [Pollers -> {"idle", "polling", "answered", "writing", "replanning",
                         "rewriting", "restoring", "dismissed"}]
      /\ report \in [Pollers -> Reports] /\ edges \in [Pollers -> SUBSET Edges]
      /\ row \in [Runs -> Rows]
  BY DEF TypeOK, Reports, Edges
<1>1. CASE \E r \in Runs : GetStatus(p, r)
  <2>1. PICK r \in Runs : GetStatus(p, r)
    BY <1>1
  <2>2. PICK x \in Reports : x = Answer(r)
    BY AnswerIs
  <2>3. pc'[p] = "answered" /\ report'[p] = Answer(r)
    BY <1>t, <2>1, <2>2 DEF GetStatus
  <2>4. UNCHANGED <<phase, curation, told, row, edges>>
    BY <2>1 DEF GetStatus
  <2> QED
    BY <2>3, <2>4
<1>2. CASE \E r \in Runs : PollRefused(p, r)
  BY <1>t, <1>2 DEF PollRefused
<1>3. CASE Discard(p)
  BY <1>t, <1>3 DEF Discard
<1>4. CASE ReadRow(p)
  <2>1. pc'[p] = "writing" /\ UNCHANGED <<phase, curation, told, row, report>> /\ Free(p)
    BY <1>t, <1>4 DEF ReadRow
  <2> QED
    BY <1>4, <2>1
<1>5. CASE WriteRow(p)
  <2>1. /\ pc[p] = "writing" /\ pc'[p] = "polling" /\ report'[p] = NoReport
        /\ UNCHANGED <<phase, curation, told, edges>>
        /\ row' = [row EXCEPT ![report[p].run] = patch[p]]
    BY <1>t, <1>5 DEF WriteRow
  <2>2. patch[p] = Patch(p) /\ ~Late(p)
    BY <2>1 DEF Sound
  <2>3. ASSUME NEW r \in Runs PROVE RowMoves(p, r)
    <3>1. CASE r = report[p].run
      BY <1>t, <2>1, <2>2, <3>1
    <3>2. CASE r # report[p].run
      BY <1>t, <2>1, <3>2
    <3> QED
      BY <3>1, <3>2
  <2> QED
    BY <2>1, <2>3
<1>6. CASE EndPolls(p)
  BY <1>t, <1>6 DEF EndPolls
<1>7. CASE ReadLadder(p)
  BY <1>t, <1>7 DEF ReadLadder
<1>8. CASE Rewrite(p)
  BY <1>t, <1>8 DEF Rewrite
<1>9. CASE ReplanFails(p)
  BY <1>t, <1>9 DEF ReplanFails
<1>10. CASE Unstamp(p)
  <2>1. PICK e \in edges[p] :
          /\ Free(p) /\ pc[p] = "restoring"
          /\ row' = [row EXCEPT ![e.run].stamp = e.previous]
          /\ edges' = [edges EXCEPT ![p] = edges[p] \ {e}]
          /\ pc' = [pc EXCEPT ![p] = IF edges[p] = {e} THEN "idle" ELSE "restoring"]
    BY <1>10 DEF Unstamp
  <2>2. UNCHANGED <<phase, curation, told, report>>
    BY <1>10 DEF Unstamp
  <2>3. edges'[p] \subseteq edges[p] /\ pc'[p] \in {"idle", "restoring"}
    BY <1>t, <2>1
  <2>4. ASSUME NEW r \in Runs PROVE RowMoves(p, r)
    <3>1. CASE r = e.run
      BY <1>t, <2>1, <3>1
    <3>2. CASE r # e.run
      BY <1>t, <2>1, <3>2
    <3> QED
      BY <3>1, <3>2
  <2> QED
    BY <2>1, <2>2, <2>3, <2>4
<1>11. CASE \E rs \in SUBSET Runs : Start(p, rs)
  BY <1>t, <1>11 DEF Start
<1>12. CASE WriteDismissed(p)
  <2>1. /\ pc[p] = "dismissed" /\ pc'[p] = "idle" /\ report'[p] = NoReport
        /\ UNCHANGED <<phase, curation, told, edges>>
        /\ row' = [row EXCEPT ![report[p].run].curation = report[p].curation]
    BY <1>t, <1>12 DEF WriteDismissed
  <2>3. ASSUME NEW r \in Runs PROVE RowMoves(p, r)
    <3>1. CASE r = report[p].run
      BY <1>t, <2>1, <3>1
    <3>2. CASE r # report[p].run
      BY <1>t, <2>1, <3>2
    <3> QED
      BY <3>1, <3>2
  <2> QED
    BY <2>1, <2>3
<1>13. CASE \E r \in Runs : DismissFinding(p, r)
  <2>1. PICK r \in Runs : DismissFinding(p, r)
    BY <1>13
  <2>2. PICK x \in Reports : x = Answer(r)
    BY AnswerIs
  <2>3. pc'[p] = "dismissed" /\ report'[p] = Answer(r) /\ Free(p)
    BY <1>t, <2>1, <2>2 DEF DismissFinding
  <2>4. UNCHANGED <<phase, curation, told, row, edges>>
    BY <2>1 DEF DismissFinding
  <2> QED
    BY <2>3, <2>4
<1> QED
  BY <1>1, <1>2, <1>3, <1>4, <1>5, <1>6, <1>7, <1>8, <1>9, <1>10, <1>11, <1>12, <1>13
     DEF Acts, Poll

-----------------------------------------------------------------------------
(* The pictures are pictures of one curation. *)

\* NoLater orders the curations, and nothing is earlier than no decision.
LEMMA Pictures ==
  /\ \A c \in Curations : NoLater(c, c) /\ NoLater(NoDecision, c)
  /\ \A c, d, e \in Curations : NoLater(c, d) /\ NoLater(d, e) => NoLater(c, e)
  /\ \A c, d \in Curations : NoLater(c, d) /\ NoLater(d, c) => c = d
<1>1. ASSUME NEW c \in Curations PROVE NoLater(c, c) /\ NoLater(NoDecision, c)
  <2>1. NoDecision.passes = 0 /\ Rank(NoDecision.challenge) = 0
    BY DEF NoDecision, Rank
  <2> QED
    BY <2>1, CurationIs DEF NoLater
<1>2. ASSUME NEW c \in Curations, NEW d \in Curations, NEW e \in Curations,
             NoLater(c, d), NoLater(d, e)
      PROVE  NoLater(c, e)
  <2>1. /\ c.passes \in Nat /\ d.passes \in Nat /\ e.passes \in Nat
        /\ Rank(c.challenge) \in Nat /\ Rank(d.challenge) \in Nat /\ Rank(e.challenge) \in Nat
    BY CurationIs
  <2> QED
    BY <1>2, <2>1 DEF NoLater
<1>3. ASSUME NEW c \in Curations, NEW d \in Curations, NoLater(c, d), NoLater(d, c)
      PROVE  c = d
  <2>1. c.passes \in Nat /\ d.passes \in Nat
        /\ Rank(c.challenge) \in {0, 1, 2} /\ Rank(d.challenge) \in {0, 1, 2}
    BY CurationIs
  <2>2. c.passes = d.passes /\ Rank(c.challenge) = Rank(d.challenge)
    BY <1>3, <2>1 DEF NoLater
  <2>3. c.challenge = d.challenge
    BY <2>2, CurationIs DEF Rank
  <2> QED
    BY <2>2, <2>3, CurationIs
<1> QED
  BY <1>1, <1>2, <1>3

\* What keeps the pictures in order: a curation grows, a row takes a reported
\* one, and a report is dropped or shows the run as it is.
PicturesMove ==
  /\ \A r \in Runs : NoLater(curation[r], curation'[r])
  /\ \A r \in Runs :
       \/ row'[r].curation = row[r].curation
       \/ \E p \in Pollers : report[p].run = r /\ row'[r].curation = report[p].curation
  /\ \A p \in Pollers :
       \/ report'[p] = report[p]
       \/ report'[p].curation \in {NoDecision, curation'[report'[p].run]}

\* Every picture stays one of the same growing curation.
LEMMA PicturesKept ==
  ASSUME PicturesInv, TypeOK', PicturesMove
  PROVE  PicturesInv'
<1>t. /\ \A r \in Runs : /\ row[r].curation \in Curations /\ row'[r].curation \in Curations
                          /\ curation[r] \in Curations /\ curation'[r] \in Curations
      /\ \A p \in Pollers : /\ report[p].run \in Runs /\ report'[p].run \in Runs
                             /\ report[p].curation \in Curations
                             /\ report'[p].curation \in Curations
  BY DEF PicturesInv, TypeOK, Rows
<1>1. ASSUME NEW r \in Runs PROVE NoLater(row'[r].curation, curation'[r])
  <2>1. NoLater(row'[r].curation, curation[r])
    BY <1>t DEF PicturesInv, PicturesMove
  <2>2. NoLater(curation[r], curation'[r])
    BY DEF PicturesMove
  <2> QED
    BY <1>t, <2>1, <2>2, Pictures
<1>2. ASSUME NEW p \in Pollers
      PROVE  NoLater(report'[p].curation, curation'[report'[p].run])
  <2>1. CASE report'[p] = report[p]
    <3>1. NoLater(report[p].curation, curation[report[p].run])
      BY DEF PicturesInv
    <3>2. NoLater(curation[report[p].run], curation'[report[p].run])
      BY <1>t DEF PicturesMove
    <3> QED
      BY <1>t, <2>1, <3>1, <3>2, Pictures
  <2>2. CASE report'[p].curation \in {NoDecision, curation'[report'[p].run]}
    BY <1>t, <2>2, Pictures
  <2> QED
    BY <2>1, <2>2 DEF PicturesMove
<1>3. ASSUME NEW p \in Pollers
      PROVE  Ordered(row'[report'[p].run].curation, report'[p].curation)
  <2>1. CASE report'[p] = report[p]
    <3>1. CASE row'[report[p].run].curation = row[report[p].run].curation
      BY <2>1, <3>1 DEF PicturesInv
    <3>2. CASE \E q \in Pollers : report[q].run = report[p].run
                                 /\ row'[report[p].run].curation = report[q].curation
      BY <2>1, <3>2 DEF PicturesInv
    <3> QED
      BY <1>t, <3>1, <3>2 DEF PicturesMove
  <2>2. CASE report'[p].curation = NoDecision
    BY <1>t, <2>2, Pictures DEF Ordered
  <2>3. CASE report'[p].curation = curation'[report'[p].run]
    BY <1>t, <1>1, <2>3 DEF Ordered
  <2> QED
    BY <2>1, <2>2, <2>3 DEF PicturesMove
<1>4. ASSUME NEW p \in Pollers, NEW q \in Pollers, report'[p].run = report'[q].run
      PROVE  Ordered(report'[p].curation, report'[q].curation)
  <2>1. CASE report'[p] = report[p] /\ report'[q] = report[q]
    BY <1>4, <2>1 DEF PicturesInv
  <2>2. CASE report'[p].curation = NoDecision \/ report'[q].curation = NoDecision
    BY <1>t, <2>2, Pictures DEF Ordered
  <2>3. CASE \/ report'[p].curation = curation'[report'[p].run]
             \/ report'[q].curation = curation'[report'[q].run]
    BY <1>4, <1>2, <2>3 DEF Ordered
  <2> QED
    BY <2>1, <2>2, <2>3 DEF PicturesMove
<1> QED
  BY <1>1, <1>2, <1>3, <1>4 DEF PicturesInv

\* A poller's step moves the pictures by those rules.
LEMMA ActsPicture ==
  ASSUME TypeOK, NEW p \in Pollers, Acts(p), Sound(p)
  PROVE  PicturesMove
<1>1. Moves(p) /\ Others(p)
  BY ActsMove, ActsAlone
<1>2. \A r \in Runs : NoLater(curation[r], curation'[r])
  BY <1>1, Pictures DEF Moves, TypeOK
<1>3. ASSUME NEW r \in Runs
      PROVE  \/ row'[r].curation = row[r].curation
             \/ report[p].run = r /\ row'[r].curation = report[p].curation
  <2>0. row[r] \in Rows
    BY DEF TypeOK
  <2>1. RowMoves(p, r)
    BY <1>1 DEF Moves
  <2>2. CASE row'[r] = row[r]
    BY <2>2
  <2>3. CASE report[p].run = r /\ row'[r] = Patch(p)
    BY <2>3, PatchIs DEF Patch
  <2>4. CASE report[p].run = r /\ row'[r] = [row[r] EXCEPT !.curation = report[p].curation]
    BY <2>0, <2>4 DEF Rows
  <2>5. CASE \E e \in edges[p] : row'[r] = [row[r] EXCEPT !.stamp = e.previous]
    BY <2>0, <2>5 DEF Rows
  <2> QED
    BY <2>1, <2>2, <2>3, <2>4, <2>5 DEF RowMoves
<1>4. ASSUME NEW q \in Pollers
      PROVE  \/ report'[q] = report[q]
             \/ report'[q].curation \in {NoDecision, curation'[report'[q].run]}
  <2>1. CASE q # p
    BY <1>1, <2>1 DEF Others
  <2>2. CASE q = p
    <3>1. CASE report'[p] = NoReport
      BY <2>2, <3>1, NothingYet
    <3>2. CASE \E r \in Runs : report'[p] = Answer(r)
      BY <1>1, <2>2, <3>2, AnswerIs DEF Moves
    <3> QED
      BY <1>1, <2>2, <3>1, <3>2 DEF Moves, ReportMoves
  <2> QED
    BY <2>1, <2>2
<1> QED
  BY <1>2, <1>3, <1>4 DEF PicturesMove

\* A row's picture of a review is one of its curation, in every state.
LEMMA PicturesStep ==
  ASSUME PicturesInv, \A p \in Pollers : Sound(p), [Next]_vars
  PROVE  PicturesInv'
<1>0. TypeOK /\ TypeOK'
  BY TypeStep DEF PicturesInv
<1>1. CASE UNCHANGED vars
  BY <1>1 DEF vars, upstream, polling, PicturesInv, TypeOK
<1>2. CASE \E p \in Pollers : Acts(p)
  BY <1>0, <1>2, ActsPicture, PicturesKept
<1>3. CASE Send
  <2>1. \A r \in Runs : row'[r].curation = row[r].curation /\ curation'[r] = curation[r]
                        /\ curation[r] \in Curations
    BY <1>0, <1>3, SendIs DEF TypeOK
  <2>2. report' = report
    BY <1>0, <1>3, SendIs DEF polling
  <2>3. PicturesMove
    BY <2>1, <2>2, Pictures DEF PicturesMove
  <2> QED
    BY <1>0, <2>3, PicturesKept
<1>4. CASE \E r \in Runs : Outside(r)
  <2>1. PICK r \in Runs : Outside(r)
    BY <1>4
  <2>2. \A s \in Runs : NoLater(curation[s], curation'[s])
    <3> TAKE s \in Runs
    <3>1. CASE s = r
      BY <1>0, <2>1, <3>1, OutsideIs
    <3>2. CASE s # r
      <4>1. curation'[s] = curation[s] /\ curation[s] \in Curations
        BY <1>0, <2>1, <3>2, OutsideIs DEF TypeOK
      <4> QED
        BY <4>1, Pictures
    <3> QED
      BY <3>1, <3>2
  <2>3. report' = report /\ row' = row
    BY <1>0, <2>1, OutsideIs DEF polling
  <2>4. PicturesMove
    BY <2>2, <2>3 DEF PicturesMove
  <2> QED
    BY <1>0, <2>4, PicturesKept
<1> QED
  BY <1>0, <1>1, <1>2, <1>3, <1>4, StepsAre

-----------------------------------------------------------------------------
(* Nobody stands between a read and the write it belongs to. *)

\* A poller may read only when nobody else holds anything.
LEMMA FreeIs ==
  ASSUME ~Apart, NEW p \in Pollers, Free(p)
  PROVE  \A q \in Pollers \ {p} : pc[q] \notin Holding
BY DEF Free, Holding

\* At the start nobody holds anything, and nothing is known.
LEMMA HandsInit == Init => HandsInv
<1> SUFFICES ASSUME Init PROVE HandsInv
  OBVIOUS
<1>1. TypeOK
  BY TypeInit
<1>2. \A r \in Runs : row[r].curation = NoDecision /\ curation[r] = NoDecision
  BY DEF Init, NewRow
<1>3. \A p \in Pollers : report[p].curation = NoDecision /\ report[p].run \in Runs /\ pc[p] = "idle"
  BY NothingYet DEF Init
<1>4. PicturesInv
  BY <1>1, <1>2, <1>3, Pictures, NothingYet DEF PicturesInv, Ordered
<1> QED
  BY <1>3, <1>4 DEF HandsInv, Holding, Sound

\* What a poller is about to write stays what the row asks for.
LEMMA HandsStep ==
  ASSUME ~Apart, HandsInv, [Next]_vars
  PROVE  HandsInv'
<1>0. TypeOK /\ PicturesInv /\ PicturesInv' /\ \A p \in Pollers : Sound(p)
  BY PicturesStep DEF HandsInv, PicturesInv
<1>1. CASE UNCHANGED vars
  <2>1. UNCHANGED <<pc, report, patch, row>>
    BY <1>1 DEF vars, polling
  <2>2. \A p \in Pollers : Sound(p)'
    BY <1>0, <2>1 DEF Sound, Patch, Now, Late, InFlight
  <2> QED
    BY <1>0, <2>1, <2>2 DEF HandsInv
<1>2. CASE \E p \in Pollers : Acts(p)
  <2>1. PICK p \in Pollers : Acts(p)
    BY <1>2
  <2>2. Moves(p) /\ Others(p)
    BY <1>0, <2>1, ActsMove, ActsAlone
  <2>3. pc'[p] \in Holding => \A q \in Pollers \ {p} : pc'[q] \notin Holding
    BY <2>2, FreeIs DEF Moves, Others
  <2>4. \A q \in Pollers, u \in Pollers : pc'[q] \in Holding /\ pc'[u] \in Holding => q = u
    BY <2>2, <2>3 DEF Others, HandsInv
  <2>5. ASSUME NEW q \in Pollers, q # p PROVE Sound(q)'
    <3>1. pc'[q] = pc[q] /\ report'[q] = report[q] /\ patch'[q] = patch[q] /\ Sound(q)
      BY <1>0, <2>2, <2>5 DEF Others
    <3>2. CASE pc[q] \in Holding
      <4>1. row' = row
        BY <2>1, <2>2, <2>5, <3>2, FreeIs DEF Moves, HandsInv
      <4> QED
        BY <3>1, <4>1 DEF Sound, Patch, Now, Late, InFlight
    <3>3. CASE pc[q] \notin Holding
      BY <3>1, <3>3 DEF Sound, Holding
    <3> QED
      BY <3>2, <3>3
  <2>6. Sound(p)'
    <3>1. CASE pc'[p] = "writing"
      <4>1. ReadRow(p)
        BY <2>2, <3>1 DEF Moves, ReportMoves
      <4>2. patch'[p] = Patch(p) /\ ~Late(p) /\ row' = row /\ report' = report
        BY <1>0, <4>1 DEF ReadRow, Patch, Now, TypeOK
      <4> QED
        BY <3>1, <4>2 DEF Sound, Patch, Now, Late, InFlight
    <3>2. CASE pc'[p] = "dismissed"
      <4>1. PICK r \in Runs : report'[p] = Answer(r)
        BY <2>2, <3>2 DEF Moves, ReportMoves
      <4>2. report'[p].run = r /\ report'[p].curation = curation[r] /\ row' = row
        BY <1>0, <2>2, <3>2, <4>1, AnswerIs DEF Moves, Holding
      <4>3. NoLater(row[r].curation, curation[r])
        BY <1>0 DEF PicturesInv
      <4> QED
        BY <3>2, <4>2, <4>3 DEF Sound
    <3> QED
      BY <3>1, <3>2 DEF Sound
  <2> QED
    BY <1>0, <2>4, <2>5, <2>6 DEF HandsInv
<1>3. CASE Send
  <2>1. /\ pc' = pc /\ report' = report /\ patch' = patch
        /\ \A p \in Pollers : pc[p] # "writing"
        /\ \A r \in Runs : row'[r].curation = row[r].curation
    BY <1>0, <1>3, SendIs DEF Send, polling
  <2>2. \A p \in Pollers : report[p].run \in Runs
    BY <1>0, PatchIs
  <2>3. \A p \in Pollers : Sound(p)'
    BY <1>0, <2>1, <2>2 DEF Sound
  <2> QED
    BY <1>0, <2>1, <2>3 DEF HandsInv
<1>4. CASE \E r \in Runs : Outside(r)
  <2>1. UNCHANGED <<pc, report, patch, row>>
    BY <1>0, <1>4, OutsideIs DEF polling
  <2>2. \A p \in Pollers : Sound(p)'
    BY <1>0, <2>1 DEF Sound, Patch, Now, Late, InFlight
  <2> QED
    BY <1>0, <2>1, <2>2 DEF HandsInv
<1> QED
  BY <1>0, <1>1, <1>2, <1>3, <1>4, StepsAre

\* In every state a poller's hand is what the row it read still asks for.
LEMMA HandsAlways == ASSUME ~Apart PROVE Spec => []HandsInv
<1>1. HandsInv /\ [Next]_vars => HandsInv'
  BY HandsStep
<1> QED
  BY <1>1, HandsInit, PTL DEF Spec

-----------------------------------------------------------------------------
(* What a row knows only grows. *)

\* A report that is not superseded is not behind the row.
LEMMA NotBehind ==
  ASSUME NEW held \in Curations, NEW reported \in Curations, Ordered(held, reported),
         ~Supersedes(held, reported)
  PROVE  /\ reported.passes >= held.passes
         /\ held.challenge # "none" => reported.challenge # "none"
<1>1. /\ held.passes \in Nat /\ reported.passes \in Nat
      /\ Rank(held.challenge) \in {0, 1, 2} /\ Rank(reported.challenge) \in {0, 1, 2}
      /\ Rank(held.challenge) = 0 <=> held.challenge = "none"
      /\ Rank(reported.challenge) = 0 <=> reported.challenge = "none"
  BY CurationIs
<1>2. CASE NoLater(held, reported)
  BY <1>1, <1>2 DEF NoLater
<1>3. CASE NoLater(reported, held)
  <2>1. held.passes = reported.passes
    BY <1>1, <1>3 DEF NoLater, Supersedes
  <2> QED
    BY <1>1, <2>1 DEF Supersedes
<1> QED
  BY <1>2, <1>3 DEF Ordered

Grows(held, taken) ==
  taken.passes >= held.passes /\ (held.challenge # "none" => taken.challenge # "none")

\* A step leaves a row with a curation that is not behind the one it had, and a
\* settled row settled.
LEMMA RowsGrow ==
  ASSUME HandsInv, [Next]_vars, NEW r \in Runs
  PROVE  /\ Grows(row[r].curation, row'[r].curation)
         /\ row[r].status = "settled" => row'[r].status = "settled"
<1> DEFINE held == row[r].curation
<1>0. /\ TypeOK /\ row[r] \in Rows /\ held \in Curations /\ \A p \in Pollers : Sound(p)
  BY DEF HandsInv, PicturesInv, TypeOK, Rows
<1>1. Grows(held, held)
  BY <1>0, CurationIs DEF Grows
<1>2. ASSUME NEW p \in Pollers, Acts(p)
      PROVE  /\ Grows(held, row'[r].curation)
             /\ row[r].status = "settled" => row'[r].status = "settled"
  <2>0. /\ report[p] \in Reports /\ report[p].curation \in Curations
        /\ Ordered(row[report[p].run].curation, report[p].curation)
    BY <1>0, PatchIs DEF HandsInv, PicturesInv, Reports
  <2>1. RowMoves(p, r)
    BY <1>0, <1>2, ActsMove DEF Moves
  <2>2. CASE row'[r] = row[r]
    BY <1>1, <2>2
  <2>3. CASE report[p].run = r /\ row'[r] = Patch(p) /\ ~Late(p)
    <3>1. row'[r].curation = Now(p) /\ row'[r].status = report[p].status
      BY <2>3 DEF Patch
    <3>2. Grows(held, Now(p))
      <4>1. CASE report[p].bare \/ Supersedes(held, report[p].curation)
        BY <1>1, <2>3, <4>1 DEF Now, CurationFor
      <4>2. CASE ~(report[p].bare \/ Supersedes(held, report[p].curation))
        <5>1. Now(p) = report[p].curation
          BY <2>3, <4>2 DEF Now, CurationFor
        <5> QED
          BY <1>0, <2>0, <2>3, <4>2, <5>1, NotBehind DEF Grows
      <4> QED
        BY <4>1, <4>2
    <3>3. row[r].status = "settled" => report[p].status = "settled"
      BY <2>3 DEF Late, InFlight, Parked
    <3> QED
      BY <3>1, <3>2, <3>3
  <2>4. CASE /\ pc[p] = "dismissed" /\ report[p].run = r
             /\ row'[r] = [row[r] EXCEPT !.curation = report[p].curation]
    <3>1. row'[r].curation = report[p].curation /\ row'[r].status = row[r].status
      BY <1>0, <2>4 DEF Rows
    <3>2. NoLater(held, report[p].curation)
      BY <1>0, <2>4 DEF Sound
    <3>3. Grows(held, report[p].curation)
      <4>1. /\ held.passes \in Nat /\ report[p].curation.passes \in Nat
            /\ Rank(held.challenge) \in {0, 1, 2}
            /\ Rank(report[p].curation.challenge) \in {0, 1, 2}
            /\ Rank(held.challenge) = 0 <=> held.challenge = "none"
            /\ Rank(report[p].curation.challenge) = 0 <=> report[p].curation.challenge = "none"
        BY <1>0, <2>0, CurationIs
      <4> QED
        BY <3>2, <4>1 DEF NoLater, Grows
    <3> QED
      BY <3>1, <3>3
  <2>5. CASE \E e \in edges[p] : row'[r] = [row[r] EXCEPT !.stamp = e.previous]
    <3>1. row'[r].curation = held /\ row'[r].status = row[r].status
      BY <1>0, <2>5 DEF Rows
    <3> QED
      BY <1>1, <3>1
  <2> QED
    BY <2>1, <2>2, <2>3, <2>4, <2>5 DEF RowMoves
<1>3. CASE Send
  BY <1>0, <1>1, <1>3, SendIs
<1>4. CASE row' = row
  BY <1>1, <1>4
<1>5. (\E p \in Pollers : Acts(p)) \/ Send \/ row' = row
  <2>1. CASE UNCHANGED vars
    BY <2>1 DEF vars
  <2>2. CASE Next
    BY <1>0, <2>2, StepsAre, OutsideIs
  <2> QED
    BY <2>1, <2>2
<1> QED
  BY <1>2, <1>3, <1>4, <1>5

\* reconcile.ts:27-32: whatever order the polls land in, a row never goes back to
\* fewer posting passes or loses its challenge, when a row is read and written
\* with nothing in between.
THEOREM RowsOnlyGrow == ASSUME ~Apart PROVE Spec => CurationKept
<1>1. ASSUME HandsInv, [Next]_vars
      PROVE  \A r \in Runs :
               /\ row'[r].curation.passes >= row[r].curation.passes
               /\ row[r].curation.challenge # "none" => row'[r].curation.challenge # "none"
  BY <1>1, RowsGrow DEF Grows
<1> QED
  BY <1>1, HandsAlways, PTL DEF Spec, CurationKept

\* AiReviewService.ts:310-316: a settled row stays settled, whatever slower answer
\* is on its way, when a row is read and written with nothing in between.
THEOREM SettledStaysSettled == ASSUME ~Apart PROVE Spec => SettledForGood
<1>1. ASSUME HandsInv, [Next]_vars
      PROVE  \A r \in Runs : row[r].status = "settled" => row'[r].status = "settled"
  BY <1>1, RowsGrow
<1> QED
  BY <1>1, HandsAlways, PTL DEF Spec, SettledForGood

-----------------------------------------------------------------------------
(* A park somebody was told about is not news again. *)

\* A park that is known asks for the row it has: no stamp, and nothing cleared.
LEMMA KnownPatch ==
  ASSUME TypeOK, NEW p \in Pollers, NEW r \in Runs, Known(r), report[p] = Answer(r)
  PROVE  /\ Patch(p) = row[r] /\ report[p].run = r /\ report[p].status = Parked
         /\ ~Stamped(row[r], report[p].status, Now(p))
<1>1. /\ report[p].run = r /\ report[p].curation = curation[r] /\ report[p].status = Parked
      /\ curation[r] \in Curations
  BY AnswerIs DEF Known, TypeOK
<1>2. row[r] = [status |-> Parked, stamp |-> "announced", curation |-> curation[r]]
  BY DEF Known
<1>3. row[r].status = Parked /\ row[r].stamp = "announced" /\ row[r].curation = curation[r]
  BY <1>2
<1>4. Now(p) = curation[r]
  BY <1>1, <1>3 DEF Now, CurationFor
<1>5. ~(curation[r].passes > curation[r].passes)
  BY <1>1, CurationIs
<1>6. ~Stamped(row[r], Parked, curation[r])
  BY <1>3, <1>5 DEF Stamped
<1>7. ParkedAt(row[r], Parked, curation[r]) = "announced"
  BY <1>3, <1>6 DEF ParkedAt
<1> QED
  BY <1>1, <1>2, <1>4, <1>6, <1>7 DEF Patch

\* A poller leaves a known park known.
LEMMA ActsKnow ==
  ASSUME HandsInv, NEW p \in Pollers, Acts(p), NEW r \in Runs, Known(r)
  PROVE  Known(r)'
<1>0. TypeOK /\ Sound(p) /\ Moves(p) /\ Others(p) /\ row[r] \in Rows
  BY ActsMove, ActsAlone DEF HandsInv, PicturesInv, TypeOK
<1>1. row'[r] = row[r]
  <2>1. CASE pc[p] = "writing" /\ report[p].run = r /\ row'[r] = Patch(p)
    BY <1>0, <2>1, KnownPatch DEF Known
  <2>2. CASE /\ pc[p] = "dismissed" /\ report[p].run = r
             /\ row'[r] = [row[r] EXCEPT !.curation = report[p].curation]
    <3>1. NoLater(row[r].curation, report[p].curation)
          /\ NoLater(report[p].curation, curation[r])
      BY <1>0, <2>2 DEF Sound, HandsInv, PicturesInv
    <3>2. row[r].curation = curation[r] /\ curation[r] \in Curations
          /\ report[p].curation \in Curations
      BY <1>0, PatchIs DEF Known, TypeOK, Reports
    <3>3. report[p].curation = row[r].curation
      BY <3>1, <3>2, Pictures
    <3> QED
      BY <1>0, <2>2, <3>3 DEF Rows
  <2>3. \A e \in edges[p] : e.run # r
    BY DEF Known
  <2> QED
    BY <1>0, <2>1, <2>2, <2>3 DEF Moves, RowMoves
<1>2. phase'[r] = phase[r] /\ curation'[r] = curation[r] /\ Answer(r)' = Answer(r)
  BY <1>0 DEF Moves, Answer
<1>3. ASSUME NEW q \in Pollers, q # p
      PROVE  /\ pc'[q] \in {"answered", "writing"} /\ report'[q].run = r
                  => report'[q] = Answer(r)
             /\ \A e \in edges'[q] : e.run # r
  BY <1>0, <1>3 DEF Others, Known
<1>4. pc'[p] \in {"answered", "writing"} /\ report'[p].run = r => report'[p] = Answer(r)
  <2>1. CASE pc'[p] = "answered"
    <3>1. PICK s \in Runs : report'[p] = Answer(s)
      BY <1>0, <2>1 DEF Moves, ReportMoves
    <3>2. report'[p].run = s
      BY <1>0, <3>1, AnswerIs
    <3> QED
      BY <3>1, <3>2
  <2>2. CASE pc'[p] = "writing"
    <3>1. ReadRow(p)
      BY <1>0, <2>2 DEF Moves, ReportMoves
    <3>2. pc[p] = "answered" /\ report' = report
      BY <3>1 DEF ReadRow, Goto
    <3> QED
      BY <3>2 DEF Known
  <2> QED
    BY <2>1, <2>2
<1>5. \A e \in edges'[p] : e.run # r
  <2>1. CASE edges'[p] \subseteq edges[p]
    BY <2>1 DEF Known
  <2>2. CASE ReadRow(p)
    <3>1. CASE report[p].run = r
      <4>1. report[p] = Answer(r)
        BY <2>2, <3>1 DEF ReadRow, Goto, Known
      <4>2. report[p].status = Parked /\ ~Stamped(row[r], report[p].status, Now(p))
        BY <1>0, <4>1, KnownPatch
      <4>3. edges' = [edges EXCEPT ![p] = edges[p]]
        BY <2>2, <3>1, <4>2 DEF ReadRow, Now
      <4> QED
        BY <1>0, <4>3 DEF Known, TypeOK
    <3>2. CASE report[p].run # r
      <4> DEFINE edge == [run |-> report[p].run, previous |-> row[report[p].run].stamp]
      <4>1. edges'[p] \subseteq edges[p] \cup {edge}
        BY <1>0, <2>2 DEF ReadRow, TypeOK
      <4>2. edge.run # r
        BY <3>2
      <4> HIDE DEF edge
      <4> QED
        BY <4>1, <4>2 DEF Known
    <3> QED
      BY <3>1, <3>2
  <2> QED
    BY <1>0, <2>1, <2>2 DEF Moves
<1>6. row'[r] = [status |-> Parked, stamp |-> "announced", curation |-> curation'[r]]
  BY <1>1, <1>2 DEF Known
<1>7. phase'[r] = "parked"
  BY <1>2 DEF Known
<1> QED
  BY <1>2, <1>3, <1>4, <1>5, <1>6, <1>7 DEF Known

\* The nudge makes the parks it is about known, and leaves the known ones so.
LEMMA SendKnows ==
  ASSUME HandsInv, Send, NEW r \in Runs, Known(r) \/ IsNews(r)
  PROVE  Known(r)'
<1>0. TypeOK /\ row[r] \in Rows
  BY DEF HandsInv, PicturesInv, TypeOK
<1>1. /\ UNCHANGED <<phase, curation, pc, report, edges>>
      /\ row'[r] = [row[r] EXCEPT !.stamp = Announced(row[r].stamp)]
  BY <1>0, SendIs DEF polling
<1>2. phase[r] = "parked" /\ row[r].status = Parked /\ row[r].curation = curation[r]
      /\ row[r].stamp \in {"news", "announced"}
  BY DEF Send, Known, IsNews
<1>3. row'[r] = [status |-> Parked, stamp |-> "announced", curation |-> curation[r]]
  BY <1>0, <1>1, <1>2 DEF Announced, Rows
<1>4. \A p \in Pollers : /\ pc[p] \in {"answered", "writing"} => report[p] = Answer(report[p].run)
                         /\ edges[p] = {}
  BY DEF Send
<1>5. Answer(r)' = Answer(r)
  BY <1>1 DEF Answer
<1>6. \A p \in Pollers :
        /\ pc'[p] \in {"answered", "writing"} /\ report'[p].run = r => report'[p] = Answer(r)
        /\ \A e \in edges'[p] : e.run # r
  BY <1>1, <1>4
<1> QED
  BY <1>1, <1>2, <1>3, <1>5, <1>6 DEF Known

\* What somebody was told about stays known, until the run moves on.
LEMMA ToldStep ==
  ASSUME ~Apart, ToldInv, [Next]_vars
  PROVE  ToldInv'
<1>0. HandsInv /\ HandsInv' /\ TypeOK
  BY HandsStep DEF ToldInv, HandsInv, PicturesInv
<1>1. ASSUME NEW r \in Runs, told'[r] PROVE Known(r)'
  <2>1. CASE UNCHANGED vars
    <3>1. UNCHANGED <<phase, curation, told, row, pc, report, edges>>
      BY <2>1 DEF vars, upstream, polling
    <3> QED
      BY <1>1, <3>1 DEF ToldInv, Known, Answer
  <2>2. CASE \E p \in Pollers : Acts(p)
    <3>1. PICK p \in Pollers : Acts(p)
      BY <2>2
    <3>2. told' = told
      BY <1>0, <3>1, ActsMove DEF Moves, HandsInv
    <3> QED
      BY <1>0, <1>1, <3>1, <3>2, ActsKnow DEF ToldInv
  <2>3. CASE Send
    BY <1>0, <1>1, <2>3, SendIs, SendKnows DEF ToldInv
  <2>4. CASE \E s \in Runs : Outside(s)
    <3>1. PICK s \in Runs : Outside(s)
      BY <2>4
    <3>2. UNCHANGED <<row, pc, report, edges>> /\ told' = [told EXCEPT ![s] = FALSE]
      BY <1>0, <3>1, OutsideIs DEF polling
    <3>3. told \in [Runs -> BOOLEAN]
      BY <1>0 DEF TypeOK
    <3>4. r # s /\ told[r]
      BY <1>1, <3>2, <3>3
    <3>5. phase'[r] = phase[r] /\ curation'[r] = curation[r]
      BY <1>0, <3>1, <3>4, OutsideIs
    <3> QED
      BY <3>2, <3>4, <3>5 DEF ToldInv, Known, Answer
  <2> QED
    BY <1>0, <2>1, <2>2, <2>3, <2>4, StepsAre
<1> QED
  BY <1>0, <1>1 DEF ToldInv

\* policy.ts:203-208, "planned ONCE PER PARK": a park somebody was told about is
\* not news again, though its polls overlap, when a row is read and written with
\* nothing in between.
THEOREM ToldOncePerPark == ASSUME ~Apart PROVE Spec => []AnnouncedOnce
<1>1. Init => ToldInv
  BY HandsInit DEF Init, ToldInv
<1>2. ToldInv /\ [Next]_vars => ToldInv'
  BY ToldStep
<1>3. ToldInv => AnnouncedOnce
  <2> SUFFICES ASSUME ToldInv PROVE AnnouncedOnce
    OBVIOUS
  <2>1. ASSUME NEW r \in Runs, told[r] PROVE row[r].stamp = "announced"
    <3>1. row[r] = [status |-> Parked, stamp |-> "announced", curation |-> curation[r]]
      BY <2>1 DEF ToldInv, Known
    <3> QED
      BY <3>1
  <2> QED
    BY <2>1 DEF AnnouncedOnce
<1> QED
  BY <1>1, <1>2, <1>3, PTL DEF Spec

-----------------------------------------------------------------------------
(* The news is planned for. *)

\* A poller that takes no step, and whose row stays while it holds it, keeps its word.
LEMMA OthersKeep ==
  ASSUME TypeOK, NEW q \in Pollers, Keeps(q),
         pc'[q] = pc[q], report'[q] = report[q], edges'[q] = edges[q], wants'[q] = wants[q],
         pc[q] \in Holding => row' = row
  PROVE  Keeps(q)'
<1>1. pc[q] = "writing" => Now(q)' = Now(q) /\ row' = row
  BY DEF Holding, Now
<1>2. pc[q] = "rewriting" => News' = News
  BY DEF Holding, News, IsNews
<1>3. InHand(q, report[q].run)' = InHand(q, report[q].run)
  BY DEF InHand
<1> QED
  BY <1>1, <1>2, <1>3 DEF Keeps

\* A poller's own step keeps its word.
LEMMA ActorKeeps ==
  ASSUME TypeOK, ~StampsBack, NEW p \in Pollers, Acts(p), Keeps(p)
  PROVE  Keeps(p)'
<1> USE DEF Goto
<1>t. /\ pc \in [Pollers -> {"idle", "polling", "answered", "writing", "replanning",
                         "rewriting", "restoring", "dismissed"}]
      /\ edges \in [Pollers -> SUBSET Edges] /\ wants \in [Pollers -> BOOLEAN]
      /\ Parked # "none"
  BY DEF TypeOK, Edges, Parked
<1>1. CASE \E r \in Runs : GetStatus(p, r) \/ PollRefused(p, r)
  <2>1. pc'[p] \in {"answered", "polling"}
    BY <1>t, <1>1 DEF GetStatus, PollRefused
  <2> QED
    BY <2>1 DEF Keeps
<1>2. CASE Discard(p) \/ WriteRow(p)
  <2>1. pc'[p] = "polling"
    BY <1>t, <1>2 DEF Discard, WriteRow
  <2> QED
    BY <2>1 DEF Keeps
<1>3. CASE ReadRow(p)
  <2>1. pc'[p] = "writing" /\ row' = row /\ report' = report
    BY <1>t, <1>3 DEF ReadRow
  <2>2. Now(p)' = Now(p)
    BY <2>1 DEF Now
  <2>3. ASSUME Stamped(row[report[p].run], report[p].status, Now(p))
        PROVE  InHand(p, report[p].run)'
    <3> DEFINE edge == [run |-> report[p].run, previous |-> row[report[p].run].stamp]
    <3>1. edges' = [edges EXCEPT ![p] = edges[p] \cup {edge}]
      BY <1>3, <2>3 DEF ReadRow, Now
    <3>2. edge \in edges'[p] /\ edge.run = report[p].run
      BY <1>t, <3>1
    <3> QED
      BY <2>1, <3>2 DEF InHand
  <2> QED
    BY <2>1, <2>2, <2>3 DEF Keeps
<1>4. CASE EndPolls(p)
  <2>1. pc'[p] = (IF edges[p] = {} THEN "idle" ELSE "replanning") /\ edges' = edges
    BY <1>t, <1>4 DEF EndPolls
  <2> QED
    BY <2>1 DEF Keeps
<1>5. CASE ReadLadder(p)
  <2>1. pc[p] = "replanning" /\ pc'[p] = "rewriting" /\ edges' = edges /\ row' = row
    BY <1>t, <1>5 DEF ReadLadder
  <2>2. News' = News /\ edges[p] # {}
    BY <2>1 DEF News, IsNews, Keeps
  <2>3. News => wants'[p]
    BY <1>t, <1>5 DEF ReadLadder
  <2> QED
    BY <2>1, <2>2, <2>3 DEF Keeps
<1>6. CASE Rewrite(p)
  <2>1. pc'[p] = "idle" /\ edges'[p] = {}
    BY <1>t, <1>6 DEF Rewrite
  <2> QED
    BY <2>1 DEF Keeps
<1>7. CASE ReplanFails(p)
  <2>1. pc'[p] = "restoring" /\ edges' = edges /\ \A e \in edges[p] : e.previous = "none"
    BY <1>t, <1>7 DEF ReplanFails
  <2> QED
    BY <2>1 DEF Keeps
<1>8. CASE Unstamp(p)
  <2>1. PICK e \in edges[p] :
          /\ pc[p] = "restoring"
          /\ edges' = [edges EXCEPT ![p] = edges[p] \ {e}]
          /\ pc' = [pc EXCEPT ![p] = IF edges[p] = {e} THEN "idle" ELSE "restoring"]
    BY <1>8 DEF Unstamp
  <2>2. edges'[p] = edges[p] \ {e} /\ pc'[p] = IF edges[p] = {e} THEN "idle" ELSE "restoring"
    BY <1>t, <2>1
  <2>3. \A x \in edges[p] : x.previous = "none"
    BY <2>1 DEF Keeps
  <2> QED
    BY <2>2, <2>3 DEF Keeps
<1>9. CASE \E rs \in SUBSET Runs : Start(p, rs)
  <2>1. pc'[p] = "polling"
    BY <1>t, <1>9 DEF Start
  <2> QED
    BY <2>1 DEF Keeps
<1>10. CASE WriteDismissed(p) \/ \E r \in Runs : DismissFinding(p, r)
  <2>1. pc[p] \in {"idle", "dismissed"} /\ pc'[p] \in {"idle", "dismissed"} /\ edges' = edges
    BY <1>t, <1>10 DEF WriteDismissed, DismissFinding
  <2> QED
    BY <2>1 DEF Keeps
<1> QED
  BY <1>1, <1>2, <1>3, <1>4, <1>5, <1>6, <1>7, <1>8, <1>9, <1>10 DEF Acts, Poll

\* A row that becomes news was, or its poller has the park in hand.
LEMMA NewsIsHeld ==
  ASSUME TypeOK, NEW p \in Pollers, Acts(p), Keeps(p), Sound(p), NEW r \in Runs, IsNews(r)'
  PROVE  IsNews(r) \/ (pc[p] = "writing" /\ InHand(p, r))
<1>0. RowMoves(p, r) /\ row[r] \in Rows
  BY ActsMove DEF Moves, TypeOK
<1>1. CASE row'[r] = row[r]
  BY <1>1 DEF IsNews
<1>2. CASE pc[p] = "writing" /\ report[p].run = r /\ row'[r] = Patch(p)
  <2>1. report[p].status = Parked /\ ParkedAt(row[r], Parked, Now(p)) = "news"
    BY <1>2 DEF IsNews, Patch
  <2>2. CASE Stamped(row[r], Parked, Now(p))
    BY <1>2, <2>1, <2>2 DEF Keeps
  <2>3. CASE ~Stamped(row[r], Parked, Now(p))
    BY <2>1, <2>3 DEF ParkedAt, Stamped, IsNews
  <2> QED
    BY <2>2, <2>3
<1>3. CASE row'[r] = [row[r] EXCEPT !.curation = report[p].curation]
  BY <1>0, <1>3 DEF IsNews, Rows
<1>4. CASE \E e \in edges[p] : row'[r] = [row[r] EXCEPT !.stamp = e.previous]
           /\ pc[p] = "restoring"
  BY <1>0, <1>4 DEF IsNews, Rows, Keeps
<1> QED
  BY <1>0, <1>1, <1>2, <1>3, <1>4 DEF RowMoves

\* But for a re-plan, its failure and the stamps put back, a poller's step leaves
\* the nudge alone and drops no park.
LEMMA ActsHold ==
  ASSUME TypeOK, NEW p \in Pollers, Acts(p)
  PROVE  \/ Rewrite(p) \/ ReplanFails(p) \/ Unstamp(p)
         \/ nudge' = nudge /\ \A q \in Pollers : edges[q] \subseteq edges'[q]
<1>t. edges \in [Pollers -> SUBSET Edges]
  BY DEF TypeOK, Edges
<1>1. CASE \E r \in Runs : GetStatus(p, r) \/ PollRefused(p, r)
  BY <1>1 DEF GetStatus, PollRefused
<1>2. CASE Discard(p) \/ WriteRow(p) \/ EndPolls(p) \/ ReadLadder(p)
  BY <1>2 DEF Discard, WriteRow, EndPolls, ReadLadder
<1>3. CASE ReadRow(p)
  <2>1. nudge' = nudge
    BY <1>3 DEF ReadRow
  <2>2. edges[p] \subseteq edges'[p]
    BY <1>t, <1>3 DEF ReadRow
  <2>3. \A q \in Pollers \ {p} : edges'[q] = edges[q]
    BY <1>t, <1>3 DEF ReadRow
  <2> QED
    BY <2>1, <2>2, <2>3
<1>4. CASE \E rs \in SUBSET Runs : Start(p, rs)
  BY <1>4 DEF Start
<1>5. CASE WriteDismissed(p) \/ \E r \in Runs : DismissFinding(p, r)
  BY <1>5 DEF WriteDismissed, DismissFinding
<1> QED
  BY <1>1, <1>2, <1>3, <1>4, <1>5 DEF Acts, Poll

\* A re-plan that fails after the cancel has every park in hand: it cannot fail,
\* or there is one run.
OneRunOrNoFailure == MaxFailures = 0 \/ \A r \in Runs, s \in Runs : r = s

\* News stays planned for, or in a poller's hand, through a poller's step.
LEMMA ActsPlan ==
  ASSUME ~StampsBack, OneRunOrNoFailure, PlannedInv,
         NEW p \in Pollers, Acts(p), NEW r \in Runs, IsNews(r)'
  PROVE  nudge' \/ \E q \in Pollers : InHand(q, r)'
<1>0. /\ TypeOK /\ Keeps(p) /\ edges \in [Pollers -> SUBSET Edges]
      /\ IsNews(r) \/ (pc[p] = "writing" /\ InHand(p, r))
  BY NewsIsHeld DEF PlannedInv, HandsInv, PicturesInv, TypeOK, Edges
<1>1. CASE Rewrite(p)
  <2>1. pc[p] = "rewriting" /\ nudge' = wants[p]
    BY <1>1 DEF Rewrite, Goto
  <2>2. News
    BY <1>0, <2>1 DEF News
  <2> QED
    BY <1>0, <2>1, <2>2 DEF Keeps
<1>2. CASE ReplanFails(p)
  <2>1. pc[p] = "rewriting" /\ edges' = edges /\ failures < MaxFailures
    BY <1>2 DEF ReplanFails, Goto
  <2>2. MaxFailures # 0
    BY <1>0, <2>1 DEF TypeOK
  <2>3. PICK e \in edges[p] : TRUE
    BY <1>0, <2>1 DEF Keeps
  <2>4. e.run \in Runs
    BY <1>0, <2>3 DEF Edges
  <2>5. e.run = r
    BY <2>2, <2>4 DEF OneRunOrNoFailure
  <2> QED
    BY <2>1, <2>3, <2>5 DEF InHand
<1>3. CASE Unstamp(p)
  <2>1. PICK e \in edges[p] :
          /\ pc[p] = "restoring"
          /\ row' = [row EXCEPT ![e.run].stamp = e.previous]
          /\ edges' = [edges EXCEPT ![p] = edges[p] \ {e}]
    BY <1>3 DEF Unstamp, Goto
  <2>2. nudge' = nudge
    BY <1>3 DEF Unstamp
  <2>3. e.run \in Runs /\ e.previous = "none" /\ row \in [Runs -> Rows]
    BY <1>0, <2>1 DEF Edges, Keeps, TypeOK
  <2>4. r # e.run
    BY <2>1, <2>3 DEF IsNews, Rows
  <2>5. ASSUME NEW q \in Pollers, InHand(q, r) PROVE InHand(q, r)'
    <3>1. PICK x \in edges[q] : x.run = r
      BY <2>5 DEF InHand
    <3>2. x \in edges'[q]
      BY <1>0, <2>1, <2>4, <3>1
    <3> QED
      BY <3>1, <3>2 DEF InHand
  <2>6. IsNews(r)
    BY <1>0, <2>1
  <2> QED
    BY <2>2, <2>5, <2>6 DEF PlannedInv
<1>4. CASE nudge' = nudge /\ \A q \in Pollers : edges[q] \subseteq edges'[q]
  <2>1. nudge \/ \E q \in Pollers : InHand(q, r)
    BY <1>0 DEF PlannedInv
  <2>2. ASSUME NEW q \in Pollers, InHand(q, r) PROVE InHand(q, r)'
    BY <1>4, <2>2 DEF InHand
  <2> QED
    BY <1>4, <2>1, <2>2
<1> QED
  BY <1>0, <1>1, <1>2, <1>3, <1>4, ActsHold

\* News stays planned for, or in a poller's hand.
LEMMA PlannedStep ==
  ASSUME ~Apart, ~StampsBack, OneRunOrNoFailure, PlannedInv, [Next]_vars
  PROVE  PlannedInv'
<1>0. /\ HandsInv /\ HandsInv' /\ TypeOK /\ TypeOK'
      /\ \A p \in Pollers : Sound(p) /\ Keeps(p)
      /\ \A r \in Runs : IsNews(r) => nudge \/ \E p \in Pollers : InHand(p, r)
  BY HandsStep DEF PlannedInv, HandsInv, PicturesInv
<1>1. CASE UNCHANGED <<row, nudge, polling>>
  <2>1. UNCHANGED <<row, nudge, pc, report, edges, wants>>
    BY <1>1 DEF polling
  <2>2. \A p \in Pollers : Keeps(p)'
    BY <1>0, <2>1, OthersKeep
  <2>3. \A r \in Runs : IsNews(r)' = IsNews(r) /\ \A p \in Pollers : InHand(p, r)' = InHand(p, r)
    BY <2>1 DEF IsNews, InHand
  <2> QED
    BY <1>0, <2>1, <2>2, <2>3 DEF PlannedInv
<1>2. CASE \E p \in Pollers : Acts(p)
  <2>1. PICK p \in Pollers : Acts(p)
    BY <1>2
  <2>2. Moves(p) /\ Others(p)
    BY <1>0, <2>1, ActsMove, ActsAlone
  <2>3. ASSUME NEW q \in Pollers \ {p} PROVE Keeps(q)'
    <3>1. pc[q] \in Holding => row' = row
      BY <2>2, FreeIs DEF Moves, HandsInv, PlannedInv
    <3> QED
      BY <1>0, <2>2, <3>1, OthersKeep DEF Others
  <2>4. Keeps(p)'
    BY <1>0, <2>1, ActorKeeps
  <2>5. \A r \in Runs : IsNews(r)' => nudge' \/ \E q \in Pollers : InHand(q, r)'
    BY <2>1, ActsPlan
  <2> QED
    BY <1>0, <2>3, <2>4, <2>5 DEF PlannedInv
<1>3. CASE Send
  <2>1. /\ UNCHANGED <<pc, edges, wants>>
        /\ \A p \in Pollers : pc[p] # "writing" /\ edges[p] = {}
        /\ \A r \in Runs : row'[r].stamp = Announced(row[r].stamp)
    BY <1>0, <1>3, SendIs DEF Send, polling
  <2>2. \A r \in Runs : ~IsNews(r)'
    BY <2>1 DEF IsNews, Announced
  <2>3. ~News'
    BY <2>2 DEF News
  <2>4. \A p \in Pollers : Keeps(p)'
    BY <1>0, <2>1, <2>3 DEF Keeps
  <2> QED
    BY <1>0, <2>2, <2>4 DEF PlannedInv
<1>4. CASE \E r \in Runs : Outside(r)
  BY <1>0, <1>1, <1>4, OutsideIs
<1>5. CASE UNCHANGED vars
  BY <1>1, <1>5 DEF vars
<1> QED
  BY <1>0, <1>2, <1>3, <1>4, <1>5, StepsAre

\* At the start there is no news, and nobody has a park in hand.
LEMMA PlannedInit == Init => PlannedInv
<1> SUFFICES ASSUME Init PROVE PlannedInv
  OBVIOUS
<1>1. HandsInv
  BY HandsInit
<1>2. \A p \in Pollers : pc[p] = "idle" /\ edges[p] = {}
  BY DEF Init
<1>3. \A p \in Pollers : Keeps(p)
  BY <1>2 DEF Keeps
<1>4. \A r \in Runs : row[r].stamp = "none"
  BY DEF Init, NewRow
<1> QED
  BY <1>1, <1>3, <1>4 DEF PlannedInv, IsNews

\* park.ts:17-23: a stamp stands on a row only if the nudge has been put in step
\* with it, whichever of the re-plans in between failed, when a row is read and
\* written with nothing in between, no older stamp is put back, and the review
\* has one run or no re-plan fails.
THEOREM NewsAlwaysPlanned ==
  ASSUME ~Apart, ~StampsBack, OneRunOrNoFailure
  PROVE  Spec => []NewsPlanned
<1>1. PlannedInv /\ [Next]_vars => PlannedInv'
  BY PlannedStep
<1>2. PlannedInv => NewsPlanned
  BY DEF PlannedInv, NewsPlanned, Quiet, News, Keeps, InHand
<1> QED
  BY <1>1, <1>2, PlannedInit, PTL DEF Spec
=============================================================================
