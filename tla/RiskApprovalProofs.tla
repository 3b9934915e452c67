------------------------- MODULE RiskApprovalProofs -------------------------
(***************************************************************************)
(* What is approved is what was assessed, no verdict is about a head older *)
(* than the last start knew, and the approval that a row records stands:   *)
(* with any number of drivers, intakes, runs and attempts, leases that run *)
(* out under a live step, calls that fail and drivers that die. Under the  *)
(* conditions named where it is proved, none of an older head stands.      *)
(***************************************************************************)
EXTENDS RiskApproval, FiniteSetTheorems, SequenceTheorems, TLAPS

-----------------------------------------------------------------------------
(* A row, and what the driver that holds it may count on. *)

\* The files of a row were read no earlier than its head; the AI review it waits
\* for is one that was filed.
SoundAt(r, newest, filed) ==
  /\ r \in Rows
  /\ r.head <= r.files /\ r.files <= newest
  /\ r.run <= filed
  /\ r.status = "awaiting_ai_review" => r.run # NoRun

RowSound(r) == SoundAt(r, head, Len(runs))

\* Where a driver is says what its row says.
DriverSound(d) ==
  /\ RowSound(next[d])
  /\ seen[d].head <= head
  /\ pc[d] = "claiming" => next[d].status \in InFlight
  /\ pc[d] \in {"reading", "scoring"} => held[d].status = "pending"
  /\ pc[d] = "judging" => held[d].status = "awaiting_ai_review"
  /\ pc[d] = "posting" => held[d].files = held[d].head /\ held[d].head # 0

AssessedInv ==
  /\ TypeOK /\ ApprovedAsAssessed
  /\ RowSound(row)
  /\ \A a \in Actors : RowSound(held[a])
  /\ \A d \in Drivers : DriverSound(d)

-----------------------------------------------------------------------------
(* A revision tells one start from another. *)

\* A verdict that is not older than the last start.
Fresh(r) == r.head # 0 => r.head >= announced

\* The places where a driver is to write what it was told to.
Writing == {"claiming", "scored", "saving"}

\* A driver that holds the row as it stands read it after the last start.
DriverFresh(d) ==
  pc[d] # "idle" /\ held[d].revision = row.revision =>
    /\ Fresh(held[d])
    /\ pc[d] \in Writing => Fresh(next[d])
    /\ pc[d] = "scoring" => seen[d].head >= announced

\* The same of an intake that has read the row.
IntakeFresh(i) ==
  pc[i] \in {"withdrawing", "reopening", "recording"} /\ held[i].revision = row.revision =>
    Fresh(held[i])

FreshInv ==
  /\ AssessedInv
  /\ announced <= head
  /\ VerdictNotStale
  /\ \A d \in Drivers : DriverFresh(d)
  /\ \A i \in Intakes : IntakeFresh(i)

-----------------------------------------------------------------------------
(* The operators of the row. *)

\* ids.next(): there is always a revision that nobody at work holds.
LEMMA RevisionIsNew ==
  ASSUME TypeOK
  PROVE  /\ NewRevision \in Nat /\ NewRevision # row.revision
         /\ \A a \in Actors : pc[a] # "idle" => held[a].revision # NewRevision
<1> DEFINE N == Cardinality(Actors)
           T == {held[a].revision : a \in Actors}
           U == T \cup {row.revision}
<1>1. IsFiniteSet(Actors) /\ N \in Nat
  BY ActorsFinite, FS_Union, FS_CardinalityType DEF Actors
<1>2. IsFiniteSet(T) /\ Cardinality(T) <= N
  <2>1. [a \in Actors |-> held[a].revision] \in Surjection(Actors, T)
    BY DEF Surjection
  <2> QED
    BY <1>1, <2>1, FS_Surjection
<1>3. IsFiniteSet(U) /\ Cardinality(U) \in Nat /\ Cardinality(U) <= N + 1
  <2> HIDE DEF N, T
  <2>1. Cardinality(T) \in Nat
    BY <1>2, FS_CardinalityType
  <2>2. IsFiniteSet(U) /\ (Cardinality(U) = Cardinality(T) \/ Cardinality(U) = Cardinality(T) + 1)
    BY <1>2, FS_AddElement
  <2> QED
    BY <1>1, <1>2, <2>1, <2>2
<1>4. Cardinality(1 .. N + 2) = N + 2
  BY <1>1, FS_Interval
<1>5. PICK n \in 1 .. N + 2 : n \notin U
  <2> HIDE DEF N, U
  <2>1. ASSUME 1 .. N + 2 \subseteq U PROVE FALSE
    <3>1. Cardinality(1 .. N + 2) <= Cardinality(U)
      BY <1>3, <2>1, FS_Subset
    <3> QED
      BY <1>1, <1>3, <1>4, <3>1
  <2> QED
    BY <2>1
<1>6. n # row.revision /\ \A a \in Actors : pc[a] # "idle" => held[a].revision # n
  BY <1>5
<1> QED
  BY <1>1, <1>6 DEF NewRevision

\* A fresh row is sound, a sound row stays so as the head moves and reviews are
\* filed, and what a driver writes on a sound row leaves it sound.
LEMMA RowsStaySound ==
  ASSUME NEW newest \in Nat, NEW filed \in Nat
  PROVE  /\ \A rev, n \in Nat : SoundAt(FreshRow(rev, n), newest, filed)
         /\ \A r : SoundAt(r, newest, filed) =>
              /\ \A m, k \in Nat : newest <= m /\ filed <= k => SoundAt(r, m, k)
              /\ \A rev \in Nat : SoundAt([r EXCEPT !.revision = rev], newest, filed)
              /\ \A st \in InFlight \cup Held \cup {"failed"} :
                   st # "awaiting_ai_review" => SoundAt([r EXCEPT !.status = st], newest, filed)
              /\ \A k \in 1 .. filed :
                   SoundAt([r EXCEPT !.status = "awaiting_ai_review", !.run = k], newest, filed)
              /\ \A id \in Nat :
                   SoundAt([r EXCEPT !.status = "approved", !.approval = id], newest, filed)
<1> USE BoundsAreNat, AttemptsArePositive
        DEF SoundAt, Rows, FreshRow, InFlight, Held, NoRun, NoApproval
<1>1. \A rev, n \in Nat : SoundAt(FreshRow(rev, n), newest, filed)
  OBVIOUS
<1>2. ASSUME NEW r, SoundAt(r, newest, filed)
      PROVE  /\ \A m, k \in Nat : newest <= m /\ filed <= k => SoundAt(r, m, k)
             /\ \A rev \in Nat : SoundAt([r EXCEPT !.revision = rev], newest, filed)
             /\ \A st \in InFlight \cup Held \cup {"failed"} :
                  st # "awaiting_ai_review" => SoundAt([r EXCEPT !.status = st], newest, filed)
             /\ \A k \in 1 .. filed :
                  SoundAt([r EXCEPT !.status = "awaiting_ai_review", !.run = k], newest, filed)
             /\ \A id \in Nat :
                  SoundAt([r EXCEPT !.status = "approved", !.approval = id], newest, filed)
  <2>1. \A m, k \in Nat : newest <= m /\ filed <= k => SoundAt(r, m, k)
    BY <1>2
  <2>2. \A rev \in Nat : SoundAt([r EXCEPT !.revision = rev], newest, filed)
    BY <1>2
  <2>3. \A st \in InFlight \cup Held \cup {"failed"} :
          st # "awaiting_ai_review" => SoundAt([r EXCEPT !.status = st], newest, filed)
    BY <1>2
  <2>4. \A k \in 1 .. filed :
          SoundAt([r EXCEPT !.status = "awaiting_ai_review", !.run = k], newest, filed)
    <3> SUFFICES ASSUME NEW k \in 1 .. filed
                 PROVE  SoundAt([r EXCEPT !.status = "awaiting_ai_review", !.run = k],
                                newest, filed)
      OBVIOUS
    <3> DEFINE w == [r EXCEPT !.status = "awaiting_ai_review", !.run = k]
    <3>0. k \in Nat /\ r \in Rows
      BY <1>2
    <3>1. w \in Rows
      BY <3>0
    <3>2. w.head = r.head /\ w.files = r.files /\ w.run = k /\ k # NoRun
      BY <1>2
    <3> QED
      BY <1>2, <3>1, <3>2
  <2>5. \A id \in Nat : SoundAt([r EXCEPT !.status = "approved", !.approval = id], newest, filed)
    BY <1>2
  <2> QED
    BY <2>1, <2>2, <2>3, <2>4, <2>5
<1> QED
  BY <1>1, <1>2

-----------------------------------------------------------------------------
(* The steps of a driver. *)

\* A driver that writes a sound row down, to save it.
LEMMA WriteStep ==
  ASSUME AssessedInv, NEW d \in Drivers, NEW from, NEW to \in {"saving", "scored"},
         NEW r, RowSound(r), Write(d, from, to, r), seen' = seen
  PROVE  AssessedInv'
<1> USE DEF AssessedInv, TypeOK, DriverSound, RowSound, Actors, Write, Goto, host, store
<1>1. r \in Rows
  BY DEF SoundAt
<1>2. TypeOK'
  BY <1>1 DEF DriverPlaces
<1>3. ApprovedAsAssessed' /\ RowSound(row)' /\ \A a \in Actors : RowSound(held[a])'
  BY DEF ApprovedAsAssessed
<1>4. \A e \in Drivers : DriverSound(e)'
  OBVIOUS
<1> QED
  BY <1>2, <1>3, <1>4

\* A driver that leaves knows nothing any more.
LEMMA LeaveStep ==
  ASSUME AssessedInv, NEW d \in Drivers, Leave(d),
         UNCHANGED <<site, head, given, runs, starts, announced, wasOpen, requests>>,
         SoundAt(row', head, Len(runs)),
         approvals' \subseteq approvals, lost' \subseteq approvals',
         board' \in {"open", "approved"}, crashes' \in 0 .. MaxCrashes
  PROVE  AssessedInv'
<1> USE DEF AssessedInv, TypeOK, DriverSound, RowSound, Actors, Leave
<1>1. head \in Nat /\ Len(runs) \in Nat
  BY LenProperties, BoundsAreNat
<1>a. SoundAt(FreshRow(1, 1), head, Len(runs))
  BY <1>1, RowsStaySound
<1>2. RowSound(FreshRow(1, 1)) /\ FreshRow(1, 1) \in Rows
  BY <1>a DEF SoundAt
<1>3. NotSeen \in [head : 0 .. MaxHeads, review : {"none", "clean", "blocked", "failed"}]
      /\ NotSeen.head <= head
  BY <1>1, BoundsAreNat DEF NotSeen
<1>4. TypeOK'
  BY <1>2, <1>3 DEF DriverPlaces, SoundAt
<1>5. ApprovedAsAssessed' /\ RowSound(row)' /\ \A a \in Actors : RowSound(held[a])'
  BY <1>2 DEF ApprovedAsAssessed
<1>6. \A e \in Drivers : DriverSound(e)'
  BY <1>2, <1>3
<1> QED
  BY <1>4, <1>5, <1>6

Seen == [head : 0 .. MaxHeads, review : {"none", "clean", "blocked", "failed"}]

\* A step that only moves on, or looks at the host.
LEMMA LookStep ==
  ASSUME AssessedInv, NEW d \in Drivers, NEW to \in DriverPlaces,
         pc' = [pc EXCEPT ![d] = to],
         to = "scoring" => held[d].status = "pending",
         to = "posting" => held[d].files = held[d].head /\ held[d].head # 0,
         to \notin {"claiming", "reading", "judging"},
         UNCHANGED <<host, store, held, next, wasOpen, requests, crashes>>,
         NEW s \in Seen, s.head <= head, seen' = [seen EXCEPT ![d] = s]
  PROVE  AssessedInv'
<1> USE DEF AssessedInv, TypeOK, DriverSound, RowSound, Actors, host, store
<1>1. seen' \in [Drivers -> Seen]
  BY DEF Seen
<1>2. \A e \in Drivers : seen'[e].head <= head
  OBVIOUS
<1>3. TypeOK'
  BY <1>1 DEF DriverPlaces, Seen
<1>4. ApprovedAsAssessed' /\ RowSound(row)' /\ \A a \in Actors : RowSound(held[a])'
  BY DEF ApprovedAsAssessed
<1>5. \A e \in Drivers : DriverSound(e)'
  BY <1>2
<1> QED
  BY <1>3, <1>4, <1>5

\* The save of what a driver was to write, landed or refused.
LEMMA SaveStep ==
  ASSUME AssessedInv, NEW d \in Drivers, Save(d)
  PROVE  AssessedInv'
<1> USE DEF AssessedInv, Actors, DriverSound
<1>1. head \in Nat /\ Len(runs) \in Nat /\ NewRevision \in Nat
  BY LenProperties, BoundsAreNat, RevisionIsNew DEF TypeOK
<1> DEFINE w == [next[d] EXCEPT !.revision = NewRevision]
<1>2. RowSound(w)
  BY <1>1, RowsStaySound DEF RowSound
<1>3. CASE Refused(d) /\ UNCHANGED row
  <2>1. CASE Leave(d)
    BY <1>3, <2>1, LeaveStep DEF Save, host, TypeOK, RowSound
  <2>2. CASE pc' = [pc EXCEPT ![d] = "retracting"] /\ UNCHANGED <<held, next, seen>>
    <3>1. seen[d] \in Seen /\ seen[d].head <= head /\ seen' = [seen EXCEPT ![d] = seen[d]]
      BY <2>2 DEF TypeOK, Seen
    <3> QED
      BY <1>3, <2>2, <3>1, LookStep DEF Save, host, store, DriverPlaces
  <2> QED
    BY <1>3, <2>1, <2>2 DEF Refused
<1>4. CASE row' = w /\ Landed(d)
  <2>1. CASE Leave(d)
    BY <1>2, <1>4, <2>1, LeaveStep DEF Save, host, TypeOK, RowSound
  <2>2. CASE ~Leave(d)
    <3> DEFINE to == AfterSave(d)
    <3>1. /\ pc' = [pc EXCEPT ![d] = to] /\ held' = [held EXCEPT ![d] = w]
          /\ UNCHANGED <<next, seen>>
      BY <1>4, <2>2 DEF Landed
    <3>2. UNCHANGED <<host, board, runs, starts, announced, wasOpen, requests, crashes>>
      BY DEF Save
    <3>3. /\ pc[d] = "claiming" => to = IF next[d].status = "pending" THEN "reading" ELSE "judging"
          /\ pc[d] = "scored" => to = "advancing"
          /\ pc[d] = "saving" => to = "settling" \/ to = "idle"
      BY DEF AfterSave
    <3>4. w \in Rows /\ w.status = next[d].status
      BY <1>2 DEF RowSound, SoundAt, Rows
    <3>5. to \in DriverPlaces /\ to \notin {"claiming", "scoring", "posting"}
      BY <3>3 DEF DriverPlaces, Save
    <3>6. to = "reading" => w.status = "pending"
      BY <3>3, <3>4 DEF Save
    <3>7. to = "judging" => w.status = "awaiting_ai_review"
      BY <3>3, <3>4 DEF InFlight, Save
    <3> HIDE DEF w, to
    <3>8. TypeOK'
      BY <1>4, <3>1, <3>2, <3>4, <3>5 DEF TypeOK, host
    <3>9. ApprovedAsAssessed' /\ RowSound(row)' /\ \A a \in Actors : RowSound(held[a])'
      BY <1>2, <1>4, <3>1, <3>2 DEF ApprovedAsAssessed, RowSound, TypeOK, host
    <3>10. \A e \in Drivers : DriverSound(e)'
      BY <3>1, <3>2, <3>5, <3>6, <3>7 DEF TypeOK, RowSound, host
    <3> QED
      BY <3>8, <3>9, <3>10
  <2> QED
    BY <2>1, <2>2
<1> QED
  BY <1>3, <1>4 DEF Save

\* A driver takes the row in hand.
LEMMA DriveStep ==
  ASSUME AssessedInv, NEW d \in Drivers, Drive(d)
  PROVE  AssessedInv'
<1> USE DEF AssessedInv, TypeOK, DriverSound, RowSound, Actors, Drive, Goto, host, store
<1>1. seen' = [seen EXCEPT ![d] = NotSeen] /\ NotSeen \in Seen /\ NotSeen.head <= head
  BY BoundsAreNat DEF NotSeen, Seen
<1>2. TypeOK'
  BY <1>1 DEF DriverPlaces, Seen
<1>3. ApprovedAsAssessed' /\ RowSound(row)' /\ \A a \in Actors : RowSound(held[a])'
  BY DEF ApprovedAsAssessed
<1>4. \A e \in Drivers : DriverSound(e)'
  BY <1>1
<1> QED
  BY <1>2, <1>3, <1>4

\* The reads of the host, and what is scored of it.
LEMMA ReadStep ==
  ASSUME AssessedInv, NEW d \in Drivers, ReadPull(d) \/ Score(d) \/ Judge(d)
  PROVE  AssessedInv'
<1>1. /\ head \in 1 .. MaxHeads /\ head \in Nat /\ Len(runs) \in Nat
      /\ RowSound(held[d]) /\ DriverSound(d) /\ seen[d] \in Seen /\ held[d] \in Rows
  BY LenProperties, BoundsAreNat DEF AssessedInv, Actors, Seen, TypeOK
<1>2. CASE ReadPull(d) /\ pc'[d] = "scoring"
  <2>1. pc[d] = "reading" /\ pc' = [pc EXCEPT ![d] = "scoring"]
    BY <1>2 DEF ReadPull, Write, Goto, AssessedInv, TypeOK, Actors
  <2>2. /\ seen' = [seen EXCEPT ![d] = [seen[d] EXCEPT !.head = head]]
        /\ UNCHANGED <<host, store, held, next, wasOpen, requests, crashes>>
    BY <1>2, <2>1 DEF ReadPull, Write, Goto, AssessedInv, TypeOK, Actors
  <2>3. [seen[d] EXCEPT !.head = head] \in Seen /\ [seen[d] EXCEPT !.head = head].head <= head
    BY <1>1 DEF Seen
  <2> QED
    BY <1>1, <2>1, <2>2, <2>3, LookStep DEF DriverPlaces, DriverSound
<1>3. CASE ReadPull(d) /\ pc'[d] # "scoring"
  <2>1. Write(d, "reading", "saving", [held[d] EXCEPT !.status = "failed"]) /\ seen' = seen
    BY <1>3 DEF ReadPull, Write, Goto, AssessedInv, TypeOK, Actors
  <2>2. RowSound([held[d] EXCEPT !.status = "failed"])
    BY <1>1, RowsStaySound DEF RowSound
  <2> QED
    BY <2>1, <2>2, WriteStep
<1>4. CASE Score(d)
  <2>1. PICK scored \in {seen[d].head, head} :
          Write(d, "scoring", "scored",
                [held[d] EXCEPT !.head = scored, !.files = head, !.run = NoRun,
                                !.attempts = IF @ < MaxAttempts THEN @ + 1 ELSE @])
    BY <1>4 DEF Score
  <2>2. scored \in 0 .. MaxHeads /\ scored <= head
    BY <1>1, <2>1 DEF Seen, DriverSound
  <2> DEFINE tries == IF held[d].attempts < MaxAttempts THEN held[d].attempts + 1
                      ELSE held[d].attempts
             w == [held[d] EXCEPT !.head = scored, !.files = head, !.run = NoRun,
                                  !.attempts = tries]
  <2>3. tries \in 0 .. MaxAttempts
    <3>1. held[d].attempts \in 0 .. MaxAttempts
      BY <1>1 DEF Rows
    <3> QED
      BY <3>1, AttemptsArePositive
  <2>4. w \in Rows
    <3>1. held[d] \in Rows /\ scored \in 0 .. MaxHeads /\ head \in 0 .. MaxHeads /\ NoRun \in Nat
      BY <1>1, <2>2, BoundsAreNat DEF NoRun
    <3> HIDE DEF tries
    <3> QED
      BY <2>3, <3>1 DEF Rows
  <2>5. /\ w.head = scored /\ w.files = head /\ w.run = NoRun /\ w.status = held[d].status
    BY <1>1 DEF Rows
  <2>6. held[d].status = "pending"
    BY <1>1, <2>1 DEF DriverSound, Write, Goto
  <2>7. RowSound(w)
    BY <1>1, <2>2, <2>4, <2>5, <2>6 DEF RowSound, SoundAt, NoRun
  <2> QED
    BY <1>4, <2>1, <2>7, WriteStep DEF Score
<1>5. CASE Judge(d) /\ Leave(d) /\ UNCHANGED <<host, store, wasOpen, requests, crashes>>
  BY <1>5, LeaveStep DEF AssessedInv, TypeOK, RowSound, host, store
<1>6. CASE Goto(d, "judging", "advancing") /\ Judge(d)
           /\ seen' = [seen EXCEPT ![d] = [head |-> head, review |-> runs[held[d].run].status]]
           /\ runs[held[d].run].status # "working"
           /\ UNCHANGED <<host, store, held, next, wasOpen, requests, crashes>>
  <2>1. held[d].run \in 1 .. Len(runs)
    BY <1>1, <1>6 DEF Goto, DriverSound, RowSound, SoundAt, Rows, NoRun
  <2>2. runs[held[d].run] \in [head : 1 .. MaxHeads, start : Nat,
                               status : {"working", "clean", "blocked", "failed"}]
    BY <2>1, ElementOfSeq DEF AssessedInv, TypeOK
  <2> DEFINE sn == [head |-> head, review |-> runs[held[d].run].status]
  <2>3. sn \in Seen /\ sn.head <= head
    BY <1>1, <1>6, <2>2, BoundsAreNat DEF Seen
  <2>4. /\ pc' = [pc EXCEPT ![d] = "advancing"] /\ seen' = [seen EXCEPT ![d] = sn]
        /\ UNCHANGED <<host, store, held, next, wasOpen, requests, crashes>>
    BY <1>6 DEF Goto
  <2> HIDE DEF sn
  <2> QED
    BY <1>1, <2>3, <2>4, LookStep DEF DriverPlaces
<1> QED
  BY <1>2, <1>3, <1>4, <1>5, <1>6 DEF Judge

\* What a driver decides on, short of calling the host.
LEMMA DecideStep ==
  ASSUME AssessedInv, NEW d \in Drivers,
         StepFails(d) \/ Hold(d) \/ Reassess(d) \/ AdoptRun(d) \/ Moved(d) \/ PostRefused(d)
  PROVE  AssessedInv'
<1>1. /\ head \in Nat /\ Len(runs) \in Nat /\ DOMAIN runs = 1 .. Len(runs)
      /\ RowSound(held[d]) /\ held[d] \in Rows
  BY LenProperties, BoundsAreNat DEF AssessedInv, Actors, TypeOK
<1>2. \A st \in InFlight \cup Held \cup {"failed"} :
        st # "awaiting_ai_review" => RowSound([held[d] EXCEPT !.status = st])
  BY <1>1, RowsStaySound DEF RowSound
<1>3. CASE StepFails(d)
  <2> DEFINE tried == held[d].attempts + 1
             w == IF tried >= MaxAttempts
                    THEN [held[d] EXCEPT !.status = "failed", !.attempts = MaxAttempts]
                    ELSE [held[d] EXCEPT !.attempts = tried]
  <2>1. PICK from : Write(d, from, "saving", w) /\ seen' = seen
    BY <1>3 DEF StepFails
  <2>2. ASSUME tried >= MaxAttempts PROVE RowSound(w)
    <3>1. MaxAttempts \in 0 .. MaxAttempts
      BY AttemptsArePositive
    <3>2. [held[d] EXCEPT !.status = "failed", !.attempts = MaxAttempts] \in Rows
      BY <1>1, <3>1 DEF Rows
    <3> QED
      BY <1>1, <2>2, <3>2 DEF RowSound, SoundAt, Rows
  <2>3. ASSUME ~(tried >= MaxAttempts) PROVE RowSound(w)
    <3>1. tried \in 0 .. MaxAttempts
      BY <1>1, <2>3, AttemptsArePositive DEF Rows
    <3>2. [held[d] EXCEPT !.attempts = tried] \in Rows
      BY <1>1, <3>1 DEF Rows
    <3> QED
      BY <1>1, <2>3, <3>2 DEF RowSound, SoundAt, Rows
  <2>4. RowSound(w)
    BY <2>2, <2>3
  <2> HIDE DEF w
  <2> QED
    BY <2>1, <2>4, WriteStep
<1>4. CASE Hold(d)
  <2>1. PICK st \in Held : Write(d, "advancing", "saving", [held[d] EXCEPT !.status = st])
    BY <1>4 DEF Hold
  <2> QED
    BY <1>2, <1>4, <2>1, WriteStep DEF Hold, Held
<1>5. CASE Reassess(d) \/ Moved(d)
  <2>1. PICK from : Write(d, from, "saving", [held[d] EXCEPT !.status = "pending"])
                    /\ seen' = seen
    BY <1>5 DEF Reassess, Moved
  <2>2. RowSound([held[d] EXCEPT !.status = "pending"])
    BY <1>2 DEF InFlight
  <2> QED
    BY <2>1, <2>2, WriteStep
<1>6. CASE AdoptRun(d)
  <2>1. PICK k \in Adoptable(d) : Write(d, "advancing", "saving", Awaiting(d, k))
    BY <1>6 DEF AdoptRun
  <2>2. k \in 1 .. Len(runs)
    BY <1>1 DEF Adoptable
  <2>3. RowSound(Awaiting(d, k))
    BY <1>1, <2>2, RowsStaySound DEF RowSound, Awaiting
  <2> QED
    BY <1>6, <2>1, <2>3, WriteStep DEF AdoptRun
<1>7. CASE PostRefused(d)
  <2>1. RowSound([held[d] EXCEPT !.status = "within_policy"])
    BY <1>2 DEF Held
  <2> QED
    BY <1>7, <2>1, WriteStep DEF PostRefused
<1> QED
  BY <1>3, <1>4, <1>5, <1>6, <1>7

\* An AI review is filed, by the driver or beside it.
LEMMA FiledStep ==
  ASSUME AssessedInv,
         NEW status \in {"working", "clean", "blocked", "failed"},
         runs' = Append(runs, [head |-> head, start |-> starts, status |-> status]),
         UNCHANGED <<host, board, row, starts, announced, held, seen, wasOpen, requests, crashes>>,
         \/ UNCHANGED <<pc, next>>
         \/ \E d \in Drivers : /\ pc' = [pc EXCEPT ![d] = "saving"]
                              /\ next' = [next EXCEPT ![d] = Awaiting(d, Len(runs) + 1)]
  PROVE  AssessedInv'
<1> USE DEF AssessedInv, Actors
<1>1. head \in Nat /\ Len(runs) \in Nat
  BY LenProperties, BoundsAreNat DEF TypeOK
<1> DEFINE run == [head |-> head, start |-> starts, status |-> status]
           Run == [head : 1 .. MaxHeads, start : Nat,
                   status : {"working", "clean", "blocked", "failed"}]
<1>2. run \in Run
  BY DEF TypeOK
<1>3. runs' \in Seq(Run) /\ Len(runs') = Len(runs) + 1
  BY <1>2, AppendProperties DEF TypeOK
<1>4. \A r : RowSound(r) => SoundAt(r, head, Len(runs'))
  <2>1. Len(runs') \in Nat /\ head <= head /\ Len(runs) <= Len(runs')
    BY <1>1, <1>3
  <2> QED
    BY <1>1, <2>1, RowsStaySound DEF RowSound
<1>5. \A d \in Drivers : SoundAt(Awaiting(d, Len(runs) + 1), head, Len(runs'))
  <2> SUFFICES ASSUME NEW d \in Drivers
               PROVE  SoundAt(Awaiting(d, Len(runs) + 1), head, Len(runs'))
    OBVIOUS
  <2>1. SoundAt(held[d], head, Len(runs')) /\ Len(runs) + 1 \in 1 .. Len(runs')
    BY <1>1, <1>3, <1>4
  <2>2. Len(runs') \in Nat
    BY <1>1, <1>3
  <2> QED
    BY <1>1, <2>1, <2>2, RowsStaySound DEF Awaiting
<1>6. \A d \in Drivers : SoundAt(next'[d], head, Len(runs'))
  BY <1>4, <1>5 DEF DriverSound, TypeOK
<1>7. \A d \in Drivers : next'[d] \in Rows
  BY <1>6 DEF SoundAt
<1>8. TypeOK'
  <2>1. next' \in [Drivers -> Rows]
    BY <1>7 DEF TypeOK
  <2>2. pc' \in [Actors -> DriverPlaces \cup IntakePlaces]
    BY DEF TypeOK, DriverPlaces
  <2> QED
    BY <1>3, <2>1, <2>2 DEF TypeOK, host
<1>9. ApprovedAsAssessed' /\ RowSound(row)' /\ \A a \in Actors : RowSound(held[a])'
  BY <1>4 DEF ApprovedAsAssessed, RowSound, host
<1>10. \A d \in Drivers : DriverSound(d)'
  BY <1>6 DEF DriverSound, RowSound, host, TypeOK
<1> QED
  BY <1>8, <1>9, <1>10

\* The approval is pinned to the head whose files were scored.
LEMMA PostStep ==
  ASSUME AssessedInv, NEW d \in Drivers, Post(d)
  PROVE  AssessedInv'
<1> USE DEF AssessedInv, Actors
<1>1. /\ head \in Nat /\ Len(runs) \in Nat /\ given \in Nat
      /\ RowSound(held[d]) /\ held[d] \in Rows /\ pc[d] = "posting"
      /\ held[d].files = held[d].head /\ held[d].head # 0
  BY LenProperties, BoundsAreNat DEF TypeOK, Post, Goto, DriverSound
<1> DEFINE a == NewApproval(d)
           Approval == [id : Nat, head : 1 .. MaxHeads, files : 1 .. MaxHeads,
                        reviewed : 0 .. MaxHeads]
<1>2. a \in Approval /\ a.files = a.head /\ a.id \in Nat
  <2>1. held[d].head \in 1 .. MaxHeads
    BY <1>1, BoundsAreNat DEF Rows
  <2>2. (IF Names THEN given + 1 ELSE NoApproval) \in Nat
    BY <1>1 DEF NoApproval
  <2>3. (IF held[d].run = NoRun THEN 0 ELSE runs[held[d].run].head) \in 0 .. MaxHeads
    <3>1. CASE held[d].run = NoRun
      BY <3>1, BoundsAreNat
    <3>2. CASE held[d].run # NoRun
      <4>1. held[d].run \in 1 .. Len(runs)
        <5>1. held[d].run \in Nat /\ held[d].run <= Len(runs) /\ held[d].run # 0
          BY <1>1, <3>2 DEF RowSound, SoundAt, Rows, NoRun
        <5> QED
          BY <1>1, <5>1
      <4>2. runs[held[d].run] \in [head : 1 .. MaxHeads, start : Nat,
                                   status : {"working", "clean", "blocked", "failed"}]
        BY <4>1, ElementOfSeq DEF TypeOK
      <4> QED
        BY <3>2, <4>2, BoundsAreNat
    <3> QED
      BY <3>1, <3>2
  <2> QED
    BY <1>1, <2>1, <2>2, <2>3 DEF NewApproval
<1> HIDE DEF a
<1>3. /\ approvals' \subseteq approvals \cup {a} /\ lost' \subseteq approvals'
      /\ given' = given + 1 /\ given < MaxApprovals
      /\ UNCHANGED <<site, head, store, held, seen, wasOpen, requests, crashes>>
      /\ pc' = [pc EXCEPT ![d] = "saving"]
  BY DEF Post, Goto, a
<1>4. \E w : RowSound(w) /\ next' = [next EXCEPT ![d] = w]
  <2>1. PICK answered \in BOOLEAN :
          next' = [next EXCEPT ![d] =
            IF answered THEN [held[d] EXCEPT !.status = "approved", !.approval = a.id]
                        ELSE [held[d] EXCEPT !.status = "within_policy"]]
    BY DEF Post, a
  <2>2. RowSound([held[d] EXCEPT !.status = "approved", !.approval = a.id])
    BY <1>1, <1>2, RowsStaySound DEF RowSound
  <2>3. RowSound([held[d] EXCEPT !.status = "within_policy"])
    BY <1>1, RowsStaySound DEF RowSound, Held
  <2> QED
    BY <2>1, <2>2, <2>3
<1>5. PICK w : RowSound(w) /\ next' = [next EXCEPT ![d] = w]
  BY <1>4
<1>6. TypeOK'
  <2>1. next' \in [Drivers -> Rows]
    BY <1>5 DEF RowSound, SoundAt, TypeOK
  <2>2. approvals' \subseteq Approval /\ given' \in 0 .. MaxApprovals
    BY <1>1, <1>2, <1>3, BoundsAreNat DEF TypeOK
  <2> QED
    BY <1>3, <2>1, <2>2 DEF TypeOK, DriverPlaces, store
<1>7. ApprovedAsAssessed' /\ RowSound(row)' /\ \A b \in Actors : RowSound(held[b])'
  BY <1>2, <1>3 DEF ApprovedAsAssessed, RowSound, store
<1>8. \A e \in Drivers : DriverSound(e)'
  BY <1>3, <1>5 DEF DriverSound, RowSound, store, TypeOK
<1> QED
  BY <1>6, <1>7, <1>8

\* The calls to the host, what becomes of an approval, and a driver's end.
LEMMA HostStep ==
  ASSUME AssessedInv, NEW d \in Drivers,
         \/ Approve(d) \/ Settle(d) \/ Retract(d) \/ TakeBack(d)
         \/ StepFailsScored(d) \/ Crash(d)
  PROVE  AssessedInv'
<1>1. /\ head \in 1 .. MaxHeads /\ head \in Nat /\ RowSound(held[d]) /\ held[d] \in Rows
      /\ seen[d] \in Seen /\ seen[d].head <= head /\ seen \in [Drivers -> Seen]
  BY BoundsAreNat DEF AssessedInv, Actors, Seen, TypeOK, DriverSound
<1>2. CASE Approve(d)
  <2>1. held[d].files = held[d].head /\ held[d].head # 0
    BY <1>1, <1>2 DEF Approve, RowSound, SoundAt, Rows
  <2>2. seen' = [seen EXCEPT ![d] = seen[d]]
    BY <1>1, <1>2 DEF Approve
  <2> QED
    BY <1>1, <1>2, <2>1, <2>2, LookStep DEF Approve, Goto, DriverPlaces
<1>3. CASE Retract(d) /\ ~Leave(d)
  <2>1. seen' = [seen EXCEPT ![d] = seen[d]]
    BY <1>1, <1>3 DEF Retract
  <2> QED
    BY <1>1, <1>3, <2>1, LookStep DEF Retract, Goto, DriverPlaces
<1>4. CASE Retract(d) /\ Leave(d)
  BY <1>4, LeaveStep DEF Retract, AssessedInv, TypeOK, RowSound, host, store
<1>5. CASE StepFailsScored(d)
  BY <1>5, LeaveStep DEF StepFailsScored, AssessedInv, TypeOK, RowSound, host, store
<1>6. CASE Settle(d)
  BY <1>6, LeaveStep DEF Settle, AssessedInv, TypeOK, RowSound, host
<1>7. CASE TakeBack(d)
  BY <1>7, LeaveStep DEF TakeBack, Withdraw, Withdrawn, AssessedInv, TypeOK, RowSound, store
<1>8. CASE Crash(d)
  <2>1. crashes' \in 0 .. MaxCrashes /\ lost' \subseteq approvals
    BY <1>8, BoundsAreNat DEF Crash, Unrecorded, AssessedInv, TypeOK
  <2> QED
    BY <1>8, <2>1, LeaveStep DEF Crash, AssessedInv, TypeOK, RowSound, store
<1> QED
  BY <1>2, <1>3, <1>4, <1>5, <1>6, <1>7, <1>8

-----------------------------------------------------------------------------
(* The steps of an intake, of the author and of cat-factory. *)

\* An intake reads the row, withdraws what it says, and starts it over.
LEMMA IntakeStep ==
  ASSUME AssessedInv, NEW i \in Intakes, Take(i) \/ Request(i)
  PROVE  AssessedInv'
<1>1. /\ head \in Nat /\ Len(runs) \in Nat /\ NewRevision \in Nat /\ i \notin Drivers
      /\ RowSound(row) /\ RowSound(held[i]) /\ starts + 1 \in Nat
  BY LenProperties, BoundsAreNat, RevisionIsNew, ActorsDiffer DEF AssessedInv, Actors, TypeOK
<1> USE DEF AssessedInv, Actors, Goto
<1>2. CASE ReadReview(i)
  <2>1. TypeOK'
    BY <1>2 DEF ReadReview, TypeOK, host, store, IntakePlaces
  <2> QED
    BY <1>1, <1>2, <2>1
       DEF ReadReview, host, store, TypeOK, ApprovedAsAssessed, RowSound, DriverSound
<1>r. CASE Reopen(i)
  <2>1. TypeOK'
    BY <1>r DEF Reopen, TypeOK, host, IntakePlaces
  <2> QED
    BY <1>1, <1>r, <2>1 DEF Reopen, host, TypeOK, ApprovedAsAssessed, RowSound, DriverSound
<1>q. CASE Request(i)
  <2>1. TypeOK'
    BY <1>q, BoundsAreNat DEF Request, TypeOK, host, store, IntakePlaces
  <2> QED
    BY <1>1, <1>q, <2>1
       DEF Request, host, store, TypeOK, ApprovedAsAssessed, RowSound, DriverSound
<1>3. CASE ReadHeld(i)
  <2>1. TypeOK'
    BY <1>3 DEF ReadHeld, TypeOK, host, store, IntakePlaces
  <2> QED
    BY <1>1, <1>3, <2>1 DEF ReadHeld, host, store, TypeOK, ApprovedAsAssessed, RowSound, DriverSound
<1>4. CASE WithdrawHeld(i)
  <2>1. approvals' \subseteq approvals /\ lost' \subseteq approvals' /\ UNCHANGED <<site, head, given>>
    BY <1>4 DEF WithdrawHeld, Withdraw, Withdrawn, TypeOK
  <2>2. TypeOK'
    BY <1>4, <2>1 DEF WithdrawHeld, TypeOK, store, IntakePlaces
  <2> QED
    BY <1>1, <1>4, <2>1, <2>2
       DEF WithdrawHeld, store, TypeOK, ApprovedAsAssessed, RowSound, DriverSound
<1>5. CASE RecordWithdrawal(i)
  <2> DEFINE w == [held[i] EXCEPT !.status = "requires_review", !.approval = NoApproval,
                                  !.revision = NewRevision]
  <2>1. w \in Rows /\ RowSound(w)
    <3>1. held[i] \in Rows
      BY <1>1 DEF RowSound, SoundAt
    <3>2. w \in Rows
      BY <1>1, <3>1 DEF Rows, Held, NoApproval
    <3> QED
      BY <1>1, <3>1, <3>2 DEF RowSound, SoundAt, Rows
  <2>2. row' = w \/ row' = row
    BY <1>5 DEF RecordWithdrawal
  <2> HIDE DEF w
  <2>3. TypeOK'
    BY <1>5, <2>1, <2>2 DEF RecordWithdrawal, TypeOK, host, IntakePlaces
  <2> QED
    BY <1>1, <1>5, <2>1, <2>2, <2>3
       DEF RecordWithdrawal, host, TypeOK, ApprovedAsAssessed, RowSound, DriverSound
<1>6. CASE Start(i)
  <2>1. SoundAt(row', head, Len(runs))
    BY <1>1, <1>6, RowsStaySound DEF Start
  <2>2. TypeOK'
    BY <1>6, <2>1 DEF Start, TypeOK, host, IntakePlaces, SoundAt
  <2> QED
    BY <1>1, <1>6, <2>1, <2>2 DEF Start, host, TypeOK, ApprovedAsAssessed, RowSound, DriverSound
<1> QED
  BY <1>2, <1>r, <1>q, <1>3, <1>4, <1>5, <1>6 DEF Take

\* A push moves the head on, and an AI review that was filed ends.
LEMMA AuthorStep ==
  ASSUME AssessedInv, Push \/ FinishRun
  PROVE  AssessedInv'
<1>1. head \in Nat /\ Len(runs) \in Nat /\ DOMAIN runs = 1 .. Len(runs)
  BY LenProperties, BoundsAreNat DEF AssessedInv, TypeOK
<1> USE DEF AssessedInv, Actors
<1>2. CASE Push
  <2>1. PICK i \in Intakes : pc[i] = "idle" /\ pc' = [pc EXCEPT ![i] = "delivered"]
    BY <1>2 DEF Push, Goto
  <2>2. /\ head' = head + 1 /\ head < MaxHeads
        /\ UNCHANGED <<site, approvals, given, lost, store, held, next, seen, wasOpen,
                       requests, crashes>>
    BY <1>2 DEF Push
  <2>3. \A r : RowSound(r) => SoundAt(r, head', Len(runs))
    <3>1. head' \in Nat /\ head <= head' /\ Len(runs) <= Len(runs)
      BY <1>1, <2>2
    <3> QED
      BY <1>1, <3>1, RowsStaySound DEF RowSound
  <2>4. TypeOK'
    BY <2>1, <2>2, BoundsAreNat DEF TypeOK, IntakePlaces, store
  <2>5. ApprovedAsAssessed' /\ RowSound(row)' /\ \A a \in Actors : RowSound(held[a])'
    BY <2>2, <2>3 DEF ApprovedAsAssessed, RowSound, store
  <2>6. \A d \in Drivers : DriverSound(d)'
    <3> SUFFICES ASSUME NEW d \in Drivers PROVE DriverSound(d)'
      OBVIOUS
    <3>1. SoundAt(next'[d], head', Len(runs'))
      BY <2>2, <2>3 DEF DriverSound, store
    <3>2. seen[d].head \in 0 .. MaxHeads /\ seen'[d].head <= head'
      BY <1>1, <2>2, BoundsAreNat DEF TypeOK, DriverSound
    <3>3. pc'[d] = pc[d] \/ pc'[d] = "delivered"
      BY <2>1 DEF TypeOK
    <3> QED
      BY <2>2, <3>1, <3>2, <3>3 DEF DriverSound, RowSound
  <2> QED
    BY <2>4, <2>5, <2>6
<1>3. CASE FinishRun
  <2> DEFINE Run == [head : 1 .. MaxHeads, start : Nat,
                     status : {"working", "clean", "blocked", "failed"}]
  <2>1. PICK k \in 1 .. Len(runs), status \in {"clean", "blocked", "failed"} :
          runs' = [runs EXCEPT ![k].status = status]
    BY <1>1, <1>3 DEF FinishRun
  <2> DEFINE run == [runs[k] EXCEPT !.status = status]
  <2>a. runs[k] \in Run
    BY ElementOfSeq DEF TypeOK
  <2>2. run \in Run /\ runs' = [runs EXCEPT ![k] = run]
    BY <2>1, <2>a
  <2> HIDE DEF run
  <2>3. runs' \in Seq(Run) /\ Len(runs') = Len(runs)
    BY <2>2, ExceptSeq DEF TypeOK
  <2>4. UNCHANGED <<host, board, row, starts, announced, actors, requests, crashes>>
    BY <1>3 DEF FinishRun
  <2> QED
    BY <2>3, <2>4 DEF TypeOK, host, actors, ApprovedAsAssessed, RowSound, DriverSound
<1> QED
  BY <1>2, <1>3

\* Every step leaves what was assessed, and what was approved of it, sound.
LEMMA AssessedStep == AssessedInv /\ [Next]_vars => AssessedInv'
<1> SUFFICES ASSUME AssessedInv, [Next]_vars PROVE AssessedInv'
  OBVIOUS
<1>1. ASSUME NEW i \in Intakes, Take(i) \/ Request(i) PROVE AssessedInv'
  BY <1>1, IntakeStep
<1>2. ASSUME NEW d \in Drivers, Drive(d) \/ Step(d) \/ Crash(d) PROVE AssessedInv'
  <2>1. CASE RequestRun(d)
    BY <2>1, FiledStep DEF RequestRun, Goto
  <2> QED
    BY <1>2, <2>1, DriveStep, SaveStep, ReadStep, DecideStep, PostStep, HostStep DEF Step
<1>3. CASE Push \/ FinishRun
  BY <1>3, AuthorStep
<1>4. CASE FileRun
  BY <1>4, FiledStep DEF FileRun, actors
<1>5. CASE UNCHANGED vars
  BY <1>5 DEF vars, host, store, actors, AssessedInv, TypeOK, ApprovedAsAssessed, RowSound, DriverSound
<1> QED
  BY <1>1, <1>2, <1>3, <1>4, <1>5 DEF Next

\* Nothing was scored yet.
LEMMA AssessedInit == Init => AssessedInv
<1> SUFFICES ASSUME Init PROVE AssessedInv
  OBVIOUS
<1>1. Len(runs) = 0 /\ runs \in Seq([head : 1 .. MaxHeads, start : Nat,
                                    status : {"working", "clean", "blocked", "failed"}])
  BY EmptySeq DEF Init
<1>2. SoundAt(FreshRow(1, 1), 1, 0)
  BY RowsStaySound
<1>3. FreshRow(1, 1) \in Rows
  BY <1>2 DEF SoundAt
<1>4. TypeOK
  BY <1>1, <1>3, BoundsAreNat DEF Init, TypeOK, DriverPlaces, NotSeen
<1>5. ApprovedAsAssessed /\ RowSound(row) /\ \A a \in Actors : RowSound(held[a])
  BY <1>1, <1>2 DEF Init, ApprovedAsAssessed, RowSound
<1>6. \A d \in Drivers : DriverSound(d)
  BY <1>1, <1>2 DEF Init, DriverSound, RowSound, NotSeen, Actors
<1> QED
  BY <1>4, <1>5, <1>6 DEF AssessedInv

\* The assessment, its drivers and the host keep their types.
THEOREM TypeCorrect == Spec => []TypeOK
<1>1. AssessedInv => TypeOK
  BY DEF AssessedInv
<1> QED
  BY <1>1, AssessedInit, AssessedStep, PTL DEF Spec

\* approval.ts:57-59 of the GitHub adapter: whatever is pushed between the read
\* of the head, the read of the files and the call to the host, and whoever
\* else drives the row, an approval stands on the very head that was scored.
THEOREM OnlyAssessedApproved == Spec => []ApprovedAsAssessed
<1>1. AssessedInv => ApprovedAsAssessed
  BY DEF AssessedInv
<1> QED
  BY <1>1, AssessedInit, AssessedStep, PTL DEF Spec

-----------------------------------------------------------------------------
(* A revision tells one start from another. *)

\* What is not a driver's or an intake's own, and stays as it is.
Kept == row' = row /\ announced' = announced /\ head' = head

\* A driver's step that leaves the row alone: what it is to write, and what it
\* has seen, is no older than what it held.
LEMMA FreshAlone ==
  ASSUME FreshInv, AssessedInv', NEW d \in Drivers, Kept,
         \A a \in Actors \ {d} : pc'[a] = pc[a] /\ held'[a] = held[a],
         \A e \in Drivers \ {d} : next'[e] = next[e] /\ seen'[e] = seen[e],
         DriverFresh(d)'
  PROVE  FreshInv'
<1> USE ActorsDiffer DEF Kept, FreshInv, Actors
<1>1. announced' <= head' /\ VerdictNotStale'
  BY DEF VerdictNotStale
<1>2. \A e \in Drivers : DriverFresh(e)'
  BY DEF DriverFresh, Fresh
<1>3. \A i \in Intakes : IntakeFresh(i)'
  BY DEF IntakeFresh, Fresh
<1> QED
  BY <1>1, <1>2, <1>3

\* The row is written under a revision nobody at work holds.
LEMMA FreshSave ==
  ASSUME FreshInv, AssessedInv', NEW d \in Drivers, Save(d)
  PROVE  FreshInv'
<1>1. /\ TypeOK /\ NewRevision # row.revision
      /\ \A a \in Actors : pc[a] # "idle" => held[a].revision # NewRevision
  BY RevisionIsNew DEF FreshInv, AssessedInv
<1>2. CASE Refused(d) /\ UNCHANGED row
  <2>1. pc[d] # "idle" /\ UNCHANGED <<announced, head>>
    BY DEF Save, host
  <2>2. /\ \A a \in Actors \ {d} : pc'[a] = pc[a] /\ held'[a] = held[a]
        /\ \A e \in Drivers \ {d} : next'[e] = next[e] /\ seen'[e] = seen[e]
    BY <1>1, <1>2 DEF Refused, Leave, TypeOK
  <2>3. DriverFresh(d)'
    BY <1>1, <1>2, <2>1 DEF Refused, Leave, TypeOK, Actors, DriverFresh, FreshInv, Fresh, Writing
  <2> QED
    BY <1>2, <2>1, <2>2, <2>3, FreshAlone DEF Kept
<1>3. CASE row.revision = held[d].revision /\ Landed(d)
           /\ row' = [next[d] EXCEPT !.revision = NewRevision]
  <2>1. /\ UNCHANGED <<head, announced>> /\ pc[d] \in Writing /\ pc[d] # "idle"
        /\ Fresh(next[d])
    BY <1>3 DEF Save, host, FreshInv, DriverFresh, Writing
  <2>2. next[d] \in Rows /\ row'.head = next[d].head /\ row'.revision = NewRevision
    BY <1>1, <1>3 DEF TypeOK, Rows
  <2>3. announced' <= head' /\ VerdictNotStale'
    BY <2>1, <2>2 DEF FreshInv, VerdictNotStale, Fresh
  <2>4. \A a \in Actors \ {d} : pc'[a] = pc[a] /\ held'[a] = held[a]
    BY <1>1, <1>3 DEF Landed, Leave, TypeOK
  <2>5. \A e \in Drivers \ {d} : DriverFresh(e)'
    BY <1>1, <2>2, <2>4 DEF DriverFresh, Actors
  <2>6. \A i \in Intakes : IntakeFresh(i)'
    BY <1>1, <2>2, <2>4, ActorsDiffer DEF IntakeFresh, Actors
  <2>7. DriverFresh(d)'
    <3>1. CASE Leave(d)
      BY <1>1, <3>1 DEF Leave, DriverFresh, TypeOK, Actors
    <3>2. CASE ~Leave(d)
      BY <1>1, <1>3, <2>1, <2>2, <3>2
         DEF Landed, AfterSave, DriverFresh, TypeOK, Actors, Writing, Fresh
    <3> QED
      BY <3>1, <3>2
  <2> QED
    BY <2>3, <2>5, <2>6, <2>7 DEF FreshInv
<1> QED
  BY <1>2, <1>3 DEF Save

\* Every other step of a driver.
LEMMA FreshDriver ==
  ASSUME FreshInv, AssessedInv', NEW d \in Drivers, Drive(d) \/ Step(d) \/ Crash(d), ~Save(d)
  PROVE  FreshInv'
<1>t. TypeOK /\ d \in Actors /\ held[d] \in Rows /\ row \in Rows
  BY DEF FreshInv, AssessedInv, TypeOK, Actors
<1> DEFINE Others ==
             /\ Kept
             /\ \A a \in Actors \ {d} : pc'[a] = pc[a] /\ held'[a] = held[a]
             /\ \A e \in Drivers \ {d} : next'[e] = next[e] /\ seen'[e] = seen[e]
           Goal == Others /\ DriverFresh(d)'
<1> SUFFICES Goal
  BY FreshAlone
<1>1. ASSUME Leave(d), Kept PROVE Goal
  BY <1>t, <1>1 DEF Leave, TypeOK, DriverFresh, Actors
<1>2. ASSUME NEW from \in DriverPlaces \ {"idle"}, NEW to \in {"saving", "scored"}, NEW r,
             Write(d, from, to, r), seen' = seen,
             r.head = held[d].head
      PROVE  Goal
  BY <1>t, <1>2
     DEF Write, Goto, TypeOK, host, store, Kept, DriverFresh, FreshInv, Fresh, Writing, DriverPlaces
<1>3. CASE Drive(d)
  BY <1>t, <1>3 DEF Drive, Goto, TypeOK, host, store, Kept, DriverFresh, FreshInv, Fresh,
     VerdictNotStale, Writing
<1>4. CASE ReadPull(d)
  <2>1. CASE Write(d, "reading", "saving", [held[d] EXCEPT !.status = "failed"]) /\ UNCHANGED seen
    <3>1. [held[d] EXCEPT !.status = "failed"].head = held[d].head
      BY <1>t DEF Rows
    <3> QED
      BY <1>2, <2>1, <3>1 DEF DriverPlaces
  <2>2. CASE /\ Goto(d, "reading", "scoring")
             /\ seen' = [seen EXCEPT ![d].head = head]
             /\ UNCHANGED <<host, store, held, next, wasOpen, requests, crashes>>
    BY <1>t, <2>2
       DEF Goto, TypeOK, host, store, Kept, DriverFresh, FreshInv, Fresh, Writing
  <2> QED
    BY <1>4, <2>1, <2>2 DEF ReadPull
<1>5. CASE Score(d)
  <2>1. PICK scored \in {seen[d].head, head} :
          Write(d, "scoring", "scored",
                [held[d] EXCEPT !.head = scored, !.files = head, !.run = NoRun,
                                !.attempts = IF @ < MaxAttempts THEN @ + 1 ELSE @])
    BY <1>5 DEF Score
  <2> DEFINE w == [held[d] EXCEPT !.head = scored, !.files = head, !.run = NoRun,
                                  !.attempts = IF @ < MaxAttempts THEN @ + 1 ELSE @]
  <2>2. w.head = scored
    BY <1>t DEF Rows
  <2>3. pc[d] = "scoring" /\ (held[d].revision = row.revision => scored >= announced)
    BY <1>t, <2>1 DEF Write, Goto, FreshInv, DriverFresh, AssessedInv, TypeOK
  <2> HIDE DEF w
  <2> QED
    BY <1>t, <1>5, <2>1, <2>2, <2>3
       DEF Score, w, Write, Goto, TypeOK, host, store, Kept, DriverFresh, FreshInv, Fresh, Writing
<1>6. CASE Judge(d) \/ StepFailsScored(d) \/ Retract(d) \/ TakeBack(d) \/ Settle(d) \/ Crash(d)
  <2>1. Kept
    BY <1>6 DEF Judge, StepFailsScored, Retract, TakeBack, Settle, Crash, Withdraw, Kept, host, store
  <2>2. CASE Leave(d)
    BY <1>1, <2>1, <2>2
  <2>3. CASE ~Leave(d) /\ Judge(d)
    BY <1>t, <2>1, <2>3 DEF Judge, Goto, TypeOK, DriverFresh, Writing, FreshInv, Fresh, Kept
  <2>4. CASE ~Leave(d) /\ Retract(d)
    BY <1>t, <2>1, <2>4 DEF Retract, Goto, TypeOK, DriverFresh, Writing, FreshInv, Fresh, Kept
  <2> QED
    BY <1>6, <2>2, <2>3, <2>4 DEF StepFailsScored, TakeBack, Settle, Crash
<1>7. CASE StepFails(d)
  <2> DEFINE tried == held[d].attempts + 1
             w == IF tried >= MaxAttempts
                    THEN [held[d] EXCEPT !.status = "failed", !.attempts = MaxAttempts]
                    ELSE [held[d] EXCEPT !.attempts = tried]
  <2>1. Write(d, pc[d], "saving", w) /\ seen' = seen /\ pc[d] \in DriverPlaces \ {"idle"}
    BY <1>7 DEF StepFails, DriverPlaces
  <2>2. w.head = held[d].head
    BY <1>t DEF Rows
  <2> HIDE DEF w
  <2> QED
    BY <1>2, <2>1, <2>2
<1>8. CASE Hold(d) \/ Reassess(d) \/ Moved(d) \/ PostRefused(d)
  <2>1. PICK st \in InFlight \cup Held, from \in DriverPlaces \ {"idle"} :
          Write(d, from, "saving", [held[d] EXCEPT !.status = st]) /\ seen' = seen
    BY <1>8 DEF Hold, Reassess, Moved, PostRefused, DriverPlaces, InFlight, Held
  <2>2. [held[d] EXCEPT !.status = st].head = held[d].head
    BY <1>t DEF Rows
  <2> QED
    BY <1>2, <2>1, <2>2
<1>9. \A k : Awaiting(d, k).head = held[d].head
  BY <1>t DEF Awaiting, Rows
<1>10. CASE AdoptRun(d)
  <2>1. PICK k : Write(d, "advancing", "saving", Awaiting(d, k)) /\ seen' = seen
    BY <1>10 DEF AdoptRun
  <2> QED
    BY <1>2, <1>9, <2>1 DEF DriverPlaces
<1>11. CASE RequestRun(d)
  BY <1>t, <1>9, <1>11
     DEF RequestRun, Goto, TypeOK, host, Kept, DriverFresh, FreshInv, Fresh, Writing
<1>12. CASE Approve(d)
  BY <1>t, <1>12
     DEF Approve, Goto, TypeOK, host, store, Kept, DriverFresh, FreshInv, Fresh, Writing
<1>13. CASE Post(d)
  <2>1. PICK w : next' = [next EXCEPT ![d] = w] /\ w.head = held[d].head
    <3>1. \A id : [held[d] EXCEPT !.status = "approved", !.approval = id].head = held[d].head
      BY <1>t DEF Rows
    <3>2. [held[d] EXCEPT !.status = "within_policy"].head = held[d].head
      BY <1>t DEF Rows
    <3> QED
      BY <1>13, <3>1, <3>2 DEF Post
  <2> QED
    BY <1>t, <1>13, <2>1 DEF Post, Goto, TypeOK, store, Kept, DriverFresh, FreshInv, Fresh, Writing
<1> QED
  BY <1>3, <1>4, <1>5, <1>6, <1>7, <1>8, <1>10, <1>11, <1>12, <1>13 DEF Step

\* An intake starts the row over under a revision nobody at work holds.
LEMMA FreshIntake ==
  ASSUME FreshInv, AssessedInv', NEW i \in Intakes, Take(i) \/ Request(i)
  PROVE  FreshInv'
<1>a. TypeOK /\ TypeOK'
  BY DEF FreshInv, AssessedInv
<1>1. /\ TypeOK /\ TypeOK' /\ NewRevision # row.revision /\ i \notin Drivers
      /\ \A a \in Actors : pc[a] # "idle" => held[a].revision # NewRevision
      /\ held[i] \in Rows /\ head \in Nat
  <2>1. held[i] \in Rows /\ head \in Nat
    BY <1>a, BoundsAreNat DEF TypeOK, Actors
  <2> QED
    BY <1>a, <2>1, RevisionIsNew, ActorsDiffer
<1> USE DEF Goto, Actors
<1>2. CASE ReadReview(i) \/ WithdrawHeld(i) \/ Reopen(i) \/ Request(i) \/ ReadHeld(i)
  <2>1. UNCHANGED <<row, announced, head, next, seen>>
    BY <1>2 DEF ReadReview, WithdrawHeld, Withdraw, Reopen, Request, ReadHeld, host, store
  <2>2. \A d \in Drivers : pc'[d] = pc[d] /\ held'[d] = held[d]
    BY <1>1, <1>2 DEF ReadReview, WithdrawHeld, Reopen, Request, ReadHeld, TypeOK
  <2>3. \A j \in Intakes : IntakeFresh(j)'
    BY <1>1, <1>2, <2>1
       DEF ReadReview, WithdrawHeld, Reopen, Request, ReadHeld, TypeOK, IntakeFresh, FreshInv,
           Fresh, VerdictNotStale
  <2> QED
    BY <2>1, <2>2, <2>3 DEF FreshInv, VerdictNotStale, DriverFresh, Fresh
<1>3. CASE RecordWithdrawal(i) /\ row' = row
  BY <1>1, <1>3
     DEF RecordWithdrawal, host, TypeOK, FreshInv, VerdictNotStale, DriverFresh, IntakeFresh, Fresh
<1>4. CASE RecordWithdrawal(i) /\ row' # row
  <2> DEFINE w == [held[i] EXCEPT !.status = "requires_review", !.approval = NoApproval,
                                  !.revision = NewRevision]
  <2>1. row' = w /\ pc[i] = "recording" /\ held[i].revision = row.revision
    BY <1>4 DEF RecordWithdrawal
  <2>2. w.head = held[i].head /\ w.revision = NewRevision
    BY <1>1 DEF Rows
  <2>3. UNCHANGED <<announced, head, held, next, seen>> /\ pc' = [pc EXCEPT ![i] = "starting"]
    BY <1>4 DEF RecordWithdrawal, host
  <2>4. VerdictNotStale'
    BY <2>1, <2>2, <2>3 DEF FreshInv, VerdictNotStale, IntakeFresh, Fresh
  <2> HIDE DEF w
  <2> QED
    BY <1>1, <2>1, <2>2, <2>3, <2>4 DEF FreshInv, DriverFresh, IntakeFresh, TypeOK
<1>5. CASE Start(i)
  <2>1. row'.head = 0 /\ row'.revision = NewRevision /\ announced' = head /\ head' = head
    BY <1>5 DEF Start, FreshRow, host
  <2>2. UNCHANGED <<held, next, seen>> /\ pc' = [pc EXCEPT ![i] = "idle"]
    BY <1>5 DEF Start
  <2> QED
    BY <1>1, <2>1, <2>2 DEF FreshInv, VerdictNotStale, DriverFresh, IntakeFresh, TypeOK
<1> QED
  BY <1>2, <1>3, <1>4, <1>5 DEF Take

\* Every step leaves the row no older than its last start.
LEMMA FreshStep == FreshInv /\ [Next]_vars => FreshInv'
<1> SUFFICES ASSUME FreshInv, [Next]_vars PROVE FreshInv'
  OBVIOUS
<1>a. AssessedInv' /\ TypeOK
  BY AssessedStep DEF FreshInv, AssessedInv
<1>1. AssessedInv' /\ TypeOK /\ head \in Nat /\ announced \in Nat
  BY <1>a, BoundsAreNat DEF TypeOK
<1>2. ASSUME NEW i \in Intakes, Take(i) \/ Request(i) PROVE FreshInv'
  BY <1>1, <1>2, FreshIntake
<1>3. ASSUME NEW d \in Drivers, Drive(d) \/ Step(d) \/ Crash(d) PROVE FreshInv'
  BY <1>1, <1>3, FreshSave, FreshDriver
<1>4. CASE Push
  <2>1. /\ UNCHANGED <<row, announced, held, next, seen>> /\ head' = head + 1
        /\ \E i \in Intakes : pc' = [pc EXCEPT ![i] = "delivered"]
    BY <1>4 DEF Push, store, Goto
  <2> QED
    BY <1>1, <2>1, ActorsDiffer
       DEF FreshInv, VerdictNotStale, DriverFresh, IntakeFresh, Fresh, TypeOK, Actors
<1>5. CASE FileRun \/ FinishRun \/ UNCHANGED vars
  BY <1>1, <1>5 DEF FileRun, FinishRun, vars, host, store, actors,
     FreshInv, VerdictNotStale, DriverFresh, IntakeFresh, Fresh
<1> QED
  BY <1>2, <1>3, <1>4, <1>5 DEF Next

\* RiskAssessmentService.ts:60-63: whatever restarts the row under a driver,
\* however late the driver's answer comes and whichever lease runs out under
\* it, the verdict on the row is never about a head older than the one the
\* last start was told of.
THEOREM NoStaleVerdict == Spec => []VerdictNotStale
<1>1. Init => FreshInv
  BY AssessedInit DEF Init, FreshInv, VerdictNotStale, DriverFresh, IntakeFresh, FreshRow, Actors
<1>2. FreshInv => VerdictNotStale
  BY DEF FreshInv
<1> QED
  BY <1>1, <1>2, FreshStep, PTL DEF Spec

-----------------------------------------------------------------------------
(* An approval that is recorded stands, where the host names approvals. *)

\* A row says `approved' and carries the approval's name, or neither.
Carries(r) ==
  /\ r.approval \in 0 .. given
  /\ r.status = "approved" <=> r.approval # NoApproval

Stands(r) == \E a \in approvals : a.id = r.approval /\ a.head = r.head

\* A driver that has given an approval which is on no row, and may take it back.
Carrying(d) ==
  pc[d] \in {"saving", "retracting", "taking_back"} /\ next[d].status = "approved"

\* An intake that takes back the approval of the row it has read.
Withdrawing(i) == pc[i] \in {"withdrawing", "reopening", "recording"}

DriverRecords(d) ==
  /\ Carries(held[d]) /\ Carries(next[d])
  /\ pc[d] # "settling" => held[d].status # "approved"
  /\ pc[d] \in {"claiming", "scored"} => next[d].status # "approved"
  /\ Carrying(d) => next[d].approval # row.approval
  /\ pc[d] = "saving" /\ next[d].status = "approved" => Stands(next[d])

\* The row an intake read is the only one that may carry its approval.
IntakeRecords(i) ==
  Withdrawing(i) =>
    /\ held[i].status = "approved" /\ Carries(held[i])
    /\ row.approval = held[i].approval => row = held[i]

\* The row's approval stands, or the intake that withdrew it is yet to say so.
RowRecords ==
  /\ Carries(row)
  /\ row.status = "approved" =>
       \/ Stands(row)
       \/ \E i \in Intakes : pc[i] \in {"reopening", "recording"} /\ held[i] = row

\* No two actors are about to take the same approval back.
OwnApprovals ==
  /\ \A d, e \in Drivers :
       d # e /\ Carrying(d) /\ Carrying(e) => next[d].approval # next[e].approval
  /\ \A d \in Drivers, i \in Intakes :
       Carrying(d) /\ Withdrawing(i) => next[d].approval # held[i].approval

Recorded ==
  /\ RowRecords /\ OwnApprovals
  /\ \A d \in Drivers : DriverRecords(d)
  /\ \A i \in Intakes : IntakeRecords(i)

RecordsInv == AssessedInv /\ (Names => Recorded)

\* What an actor's step may leave as it was: the row, the approvals that stand,
\* and whatever is another's.
OthersKeep(d) ==
  /\ row' = row
  /\ approvals \subseteq approvals' /\ given <= given'
  /\ \A a \in Actors \ {d} : pc'[a] = pc[a] /\ held'[a] = held[a]
  /\ \A e \in Drivers \ {d} : next'[e] = next[e]

\* A driver's step that neither writes the row nor takes an approval back: what
\* it may carry then is what it carried, or a new approval.
LEMMA RecordsAlone ==
  ASSUME Recorded, TypeOK, TypeOK', NEW d \in Drivers, OthersKeep(d), DriverRecords(d)',
         Carrying(d)' =>
           \/ Carrying(d) /\ next'[d] = next[d]
           \/ given < next'[d].approval
  PROVE  Recorded'
<1> USE ActorsDiffer DEF OthersKeep, Actors, Recorded
<1>1. given \in Nat /\ given' \in Nat /\ \A r : Stands(r) => Stands(r)'
  BY BoundsAreNat DEF TypeOK, Stands
<1>2. \A r : Carries(r) => Carries(r)' /\ r.approval <= given
  BY <1>1 DEF Carries
<1>3. \A e \in Drivers \ {d} : Carrying(e)' <=> Carrying(e)
  BY DEF Carrying
<1>4. \A i \in Intakes :
        pc'[i] = pc[i] /\ held'[i] = held[i] /\ (Withdrawing(i)' <=> Withdrawing(i))
  BY DEF Withdrawing
<1>5. RowRecords'
  BY <1>1, <1>2, <1>4 DEF RowRecords
<1>6. \A e \in Drivers : DriverRecords(e)'
  <2> SUFFICES ASSUME NEW e \in Drivers \ {d} PROVE DriverRecords(e)'
    OBVIOUS
  <2>1. DriverRecords(e) /\ held'[e] = held[e] /\ next'[e] = next[e] /\ pc'[e] = pc[e]
    OBVIOUS
  <2> QED
    BY <1>1, <1>2, <1>3, <2>1 DEF DriverRecords
<1>7. \A i \in Intakes : IntakeRecords(i)'
  BY <1>2, <1>4 DEF IntakeRecords
<1>8. \A e \in Drivers : Carries(next[e])
  BY DEF DriverRecords
<1>9. \A i \in Intakes : Withdrawing(i) => Carries(held[i])
  BY DEF IntakeRecords
<1>10. \A e \in Drivers : next[e].approval \in Nat /\ next'[e].approval \in Nat
  BY DEF TypeOK, Rows
<1>11. \A i \in Intakes : held[i].approval \in Nat
  BY DEF TypeOK, Rows
<1>12. ASSUME NEW e \in Drivers \ {d}, Carrying(d)', Carrying(e)'
       PROVE  next'[d].approval # next'[e].approval
  BY <1>1, <1>2, <1>3, <1>8, <1>10, <1>12 DEF OwnApprovals
<1>13. ASSUME NEW i \in Intakes, Carrying(d)', Withdrawing(i)'
       PROVE  next'[d].approval # held'[i].approval
  BY <1>1, <1>2, <1>4, <1>9, <1>10, <1>11, <1>13 DEF OwnApprovals
<1>14. OwnApprovals'
  <2>1. \A e, f \in Drivers :
          e # f /\ Carrying(e)' /\ Carrying(f)' => next'[e].approval # next'[f].approval
    BY <1>3, <1>12 DEF OwnApprovals
  <2>2. \A e \in Drivers, i \in Intakes :
          Carrying(e)' /\ Withdrawing(i)' => next'[e].approval # held'[i].approval
    BY <1>3, <1>4, <1>13 DEF OwnApprovals
  <2> QED
    BY <2>1, <2>2 DEF OwnApprovals
<1> QED
  BY <1>5, <1>6, <1>7, <1>14

\* An approval that is taken back is the only one to go.
LEMMA OthersStand ==
  ASSUME NEW id, Names, Withdraw(id)
  PROVE  \A r : Stands(r) /\ r.approval # id => Stands(r)'
BY DEF Withdraw, Withdrawn, Stands

\* A driver that takes its approval back leaves every other one.
LEMMA RecordsTakeBack ==
  ASSUME Recorded, Names, TypeOK, NEW d \in Drivers, TakeBack(d)
  PROVE  Recorded'
<1> USE ActorsDiffer DEF Actors, Recorded
<1> DEFINE id == next[d].approval
<1>1. /\ pc[d] = "taking_back" /\ UNCHANGED <<row, given>>
      /\ \A a \in Actors \ {d} : pc'[a] = pc[a] /\ held'[a] = held[a]
      /\ \A e \in Drivers \ {d} : next'[e] = next[e]
      /\ pc'[d] = "idle" /\ held'[d] = FreshRow(1, 1) /\ next'[d] = FreshRow(1, 1)
  BY DEF TakeBack, Leave, Withdraw, store, TypeOK
<1>2. \A r : Stands(r) /\ r.approval # id => Stands(r)'
  BY OthersStand DEF TakeBack
<1>3. Carries(next[d]) /\ (Carrying(d) <=> next[d].status = "approved")
  BY <1>1 DEF DriverRecords, Carrying
<1>4. \A r : Carries(r)' <=> Carries(r)
  BY <1>1 DEF Carries
<1>5. Carries(FreshRow(1, 1)) /\ FreshRow(1, 1).status = "pending"
  BY BoundsAreNat DEF Carries, FreshRow, NoApproval, TypeOK
<1>6. RowRecords'
  <2>1. row.status = "approved" => row.approval # id
    BY <1>3 DEF RowRecords, DriverRecords, Carries
  <2> QED
    BY <1>1, <1>2, <1>4, <2>1 DEF RowRecords
<1>7. \A e \in Drivers : DriverRecords(e)'
  <2>1. DriverRecords(d)'
    BY <1>1, <1>4, <1>5 DEF DriverRecords, Carrying
  <2>2. ASSUME NEW e \in Drivers \ {d} PROVE DriverRecords(e)'
    <3>1. DriverRecords(e) /\ held'[e] = held[e] /\ next'[e] = next[e] /\ pc'[e] = pc[e]
      BY <1>1
    <3>2. pc[e] = "saving" /\ next[e].status = "approved" => next[e].approval # id
      BY <1>3, <3>1 DEF OwnApprovals, Carrying, DriverRecords, Carries
    <3> QED
      BY <1>1, <1>2, <1>4, <3>1, <3>2 DEF DriverRecords, Carrying
  <2> QED
    BY <2>1, <2>2
<1>8. OwnApprovals' /\ \A i \in Intakes : IntakeRecords(i)'
  BY <1>1, <1>4, <1>5 DEF OwnApprovals, IntakeRecords, Withdrawing, Carrying
<1> QED
  BY <1>6, <1>7, <1>8

\* The row that is written carries an approval of the driver's own, or none.
LEMMA RecordsSave ==
  ASSUME Recorded, TypeOK, TypeOK', NEW d \in Drivers, Save(d)
  PROVE  Recorded'
<1> USE ActorsDiffer DEF Actors
<1>0. /\ UNCHANGED <<approvals, given>> /\ pc[d] \in {"claiming", "scored", "saving"}
      /\ DriverRecords(d) /\ Carries(FreshRow(1, 1)) /\ FreshRow(1, 1).status = "pending"
  BY BoundsAreNat DEF Save, host, Recorded, Carries, FreshRow, NoApproval, TypeOK
<1>1. CASE Refused(d) /\ UNCHANGED row
  <2>0. given \in Nat /\ given <= given' /\ approvals \subseteq approvals'
    BY <1>0, BoundsAreNat DEF TypeOK
  <2>1. OthersKeep(d)
    BY <1>1, <2>0 DEF OthersKeep, Refused, Leave, TypeOK
  <2>2. CASE Leave(d)
    <3>1. pc'[d] = "idle" /\ held'[d] = FreshRow(1, 1) /\ next'[d] = FreshRow(1, 1)
      BY <2>2 DEF Leave, TypeOK
    <3> QED
      BY <1>0, <2>1, <3>1, RecordsAlone DEF DriverRecords, Carrying, Carries
  <2>3. CASE ~Leave(d)
    <3>1. /\ pc[d] = "saving" /\ next[d].status = "approved" /\ pc'[d] = "retracting"
          /\ UNCHANGED <<held, next, row>>
      BY <1>1, <2>3 DEF Refused, TypeOK
    <3> QED
      BY <1>0, <2>1, <3>1, RecordsAlone DEF DriverRecords, Carrying, Carries
  <2> QED
    BY <2>2, <2>3
<1>2. CASE row' = [next[d] EXCEPT !.revision = NewRevision] /\ Landed(d)
  <2>1. /\ row'.status = next[d].status /\ row'.approval = next[d].approval
        /\ row'.head = next[d].head
    BY <1>2 DEF TypeOK, Rows
  <2>2. /\ \A a \in Actors \ {d} : pc'[a] = pc[a] /\ held'[a] = held[a]
        /\ \A e \in Drivers \ {d} : next'[e] = next[e]
    BY <1>2 DEF Landed, Leave, TypeOK
  <2>3. \/ pc'[d] = "idle" /\ held'[d] = FreshRow(1, 1) /\ next'[d] = FreshRow(1, 1)
        \/ /\ pc'[d] \in {"reading", "judging", "advancing", "settling"}
           /\ next[d].status = "approved" => pc'[d] = "settling"
           /\ held'[d] = row' /\ next'[d] = next[d]
    BY <1>0, <1>2 DEF Landed, Leave, AfterSave, TypeOK, DriverRecords
  <2>4. (\A r : Carries(r)' <=> Carries(r)) /\ (\A r : Stands(r)' <=> Stands(r))
    BY <1>0 DEF Carries, Stands
  <2>5. Carries(next[d]) /\ Carries(row')
    BY <1>0, <2>1 DEF DriverRecords, Carries
  <2>6. next[d].status = "approved" => Carrying(d) /\ Stands(next[d]) /\ Stands(row')
    BY <1>0, <2>1 DEF DriverRecords, Carrying, Stands
  <2>7. RowRecords'
    BY <2>1, <2>4, <2>5, <2>6 DEF RowRecords
  <2>8. \A e \in Drivers : DriverRecords(e)'
    <3>1. DriverRecords(d)'
      BY <1>0, <2>3, <2>4, <2>5, <2>1 DEF DriverRecords, Carrying
    <3>2. ASSUME NEW e \in Drivers \ {d} PROVE DriverRecords(e)'
      <4>1. DriverRecords(e) /\ held'[e] = held[e] /\ next'[e] = next[e] /\ pc'[e] = pc[e]
        BY <2>2 DEF Recorded
      <4>2. Carrying(e) => next[e].approval # row'.approval
        BY <2>1, <2>5, <2>6, <4>1 DEF Recorded, OwnApprovals, DriverRecords, Carries, Carrying
      <4> QED
        BY <2>4, <4>1, <4>2 DEF DriverRecords, Carrying
    <3> QED
      BY <3>1, <3>2
  <2>9. \A i \in Intakes : IntakeRecords(i)'
    <3> SUFFICES ASSUME NEW i \in Intakes, Withdrawing(i)' PROVE IntakeRecords(i)'
      BY DEF IntakeRecords
    <3>1. pc'[i] = pc[i] /\ held'[i] = held[i] /\ Withdrawing(i)
      BY <2>2 DEF Withdrawing
    <3>2. held[i].status = "approved" /\ Carries(held[i])
      BY <3>1 DEF Recorded, IntakeRecords
    <3>3. row'.approval # held[i].approval
      BY <2>1, <2>5, <2>6, <3>1, <3>2 DEF Recorded, OwnApprovals, Carries
    <3> QED
      BY <2>4, <3>1, <3>2, <3>3 DEF IntakeRecords
  <2>10. OwnApprovals'
    <3>1. ~Carrying(d)' /\ \A e \in Drivers \ {d} : Carrying(e)' <=> Carrying(e)
      BY <2>2, <2>3 DEF Carrying
    <3>2. \A i \in Intakes : held'[i] = held[i] /\ (Withdrawing(i)' <=> Withdrawing(i))
      BY <2>2 DEF Withdrawing
    <3> QED
      BY <2>2, <3>1, <3>2 DEF Recorded, OwnApprovals
  <2> QED
    BY <2>7, <2>8, <2>9, <2>10 DEF Recorded
<1> QED
  BY <1>1, <1>2 DEF Save

\* A new approval has a name no row and no actor knows.
LEMMA RecordsPost ==
  ASSUME Recorded, Names, TypeOK, TypeOK', NEW d \in Drivers, Post(d)
  PROVE  Recorded'
<1> DEFINE a == NewApproval(d)
<1>1. /\ pc[d] = "posting" /\ pc' = [pc EXCEPT ![d] = "saving"]
      /\ given' = given + 1 /\ approvals' = approvals \cup {a}
      /\ UNCHANGED <<row, held>>
  BY DEF Post, Goto, store
<1>2. given \in Nat /\ a.id = given + 1 /\ a.head = held[d].head
  BY BoundsAreNat DEF TypeOK, NewApproval
<1>3. OthersKeep(d) /\ pc'[d] = "saving" /\ pc'[d] # "claiming"
  BY <1>1, <1>2 DEF OthersKeep, Post, TypeOK, Actors
<1>4. DriverRecords(d) /\ held[d] \in Rows /\ row.approval <= given /\ row.approval \in Nat
  BY DEF Recorded, TypeOK, Actors, RowRecords, Carries, Rows
<1>5. held[d].status # "approved" /\ held[d].approval = NoApproval /\ Carries(held[d])
  BY <1>1, <1>4 DEF DriverRecords, Carries
<1> HIDE DEF a
<1>6. PICK w : /\ next'[d] = w
               /\ \/ w = [held[d] EXCEPT !.status = "approved", !.approval = a.id]
                  \/ w = [held[d] EXCEPT !.status = "within_policy"]
  BY DEF Post, TypeOK, a
<1>7. \/ w.status = "approved" /\ w.approval = given + 1 /\ w.head = a.head
      \/ w.status = "within_policy" /\ w.approval = NoApproval
  BY <1>2, <1>4, <1>5, <1>6 DEF Rows
<1>8. Carries(held[d])' /\ Carries(next[d])'
  BY <1>1, <1>2, <1>5, <1>6, <1>7 DEF Carries, NoApproval
<1>9. w.status = "approved" => Stands(next[d])' /\ given < next'[d].approval
  BY <1>1, <1>2, <1>6, <1>7 DEF Stands
<1>10. w.status = "approved" => w.approval # row.approval
  BY <1>2, <1>4, <1>7
<1>11. row' = row /\ held' = held /\ next'[d] = w
  BY <1>1, <1>6
<1>12. DriverRecords(d)'
  BY <1>3, <1>5, <1>8, <1>9, <1>10, <1>11 DEF DriverRecords, Carrying
<1> QED
  BY <1>3, <1>6, <1>9, <1>12, RecordsAlone DEF Carrying

\* Every other step of a driver.
LEMMA RecordsDriver ==
  ASSUME Recorded, Names, TypeOK, TypeOK', NEW d \in Drivers,
         Drive(d) \/ Step(d) \/ Crash(d)
  PROVE  Recorded'
<1>t. /\ d \in Actors /\ held[d] \in Rows /\ next[d] \in Rows /\ row \in Rows
      /\ given \in Nat /\ DriverRecords(d)
      /\ Carries(FreshRow(1, 1)) /\ FreshRow(1, 1).status = "pending"
  BY BoundsAreNat DEF TypeOK, Actors, Recorded, Carries, FreshRow, NoApproval
<1> DEFINE Still == row' = row /\ approvals' = approvals /\ given' = given
<1>1. ASSUME Leave(d), Still PROVE Recorded'
  <2>1. pc'[d] = "idle" /\ held'[d] = FreshRow(1, 1) /\ next'[d] = FreshRow(1, 1)
    BY <1>t, <1>1 DEF Leave, TypeOK
  <2>2. OthersKeep(d)
    BY <1>t, <1>1 DEF OthersKeep, Leave, TypeOK
  <2> QED
    BY <1>t, <1>1, <2>1, <2>2, RecordsAlone DEF DriverRecords, Carrying, Carries
<1>2. ASSUME NEW from \in DriverPlaces \ {"idle", "settling"},
             NEW to \in {"saving", "scored"}, NEW r,
             Write(d, from, to, r), r.status # "approved", r.approval = held[d].approval
      PROVE  Recorded'
  <2>1. pc[d] = from /\ pc'[d] = to /\ held'[d] = held[d] /\ next'[d] = r /\ Still
    BY <1>t, <1>2 DEF Write, Goto, TypeOK, host, store
  <2>2. OthersKeep(d)
    BY <1>t, <1>2, <2>1 DEF OthersKeep, Write, Goto, TypeOK
  <2>3. Carries(held[d]) /\ held[d].status # "approved" /\ Carries(r)
    BY <1>t, <1>2, <2>1 DEF DriverRecords, Carries
  <2> QED
    BY <1>2, <1>t, <2>1, <2>2, <2>3, RecordsAlone DEF DriverRecords, Carrying, Carries
<1>3. CASE Drive(d)
  <2>1. /\ pc'[d] = "claiming" /\ held'[d] = row /\ next'[d] = row /\ Still
        /\ row.status # "approved" /\ Carries(row)
    BY <1>t, <1>3 DEF Drive, Goto, TypeOK, host, store, InFlight, Recorded, RowRecords
  <2>2. OthersKeep(d)
    BY <1>t, <1>3, <2>1 DEF OthersKeep, Drive, Goto, TypeOK
  <2> QED
    BY <1>t, <2>1, <2>2, RecordsAlone DEF DriverRecords, Carrying, Carries
<1>4. ASSUME NEW to \in {"scoring", "advancing", "posting", "taking_back"},
             pc[d] \notin {"idle", "settling"}, to = "taking_back" => pc[d] = "retracting",
             pc' = [pc EXCEPT ![d] = to], UNCHANGED <<held, next>>, Still
      PROVE  Recorded'
  <2>1. pc'[d] = to /\ held'[d] = held[d] /\ next'[d] = next[d]
    BY <1>t, <1>4 DEF TypeOK
  <2>2. OthersKeep(d)
    BY <1>t, <1>4 DEF OthersKeep, TypeOK
  <2> QED
    BY <1>t, <1>4, <2>1, <2>2, RecordsAlone DEF DriverRecords, Carrying, Carries
<1>5. \A st : [held[d] EXCEPT !.status = st].status = st
              /\ [held[d] EXCEPT !.status = st].approval = held[d].approval
  BY <1>t DEF Rows
<1>6. CASE ReadPull(d)
  <2>1. CASE Write(d, "reading", "saving", [held[d] EXCEPT !.status = "failed"])
    BY <1>2, <1>5, <2>1 DEF DriverPlaces
  <2>2. CASE Goto(d, "reading", "scoring") /\ UNCHANGED <<host, store, held, next>>
    BY <1>4, <2>2 DEF Goto, host, store
  <2> QED
    BY <1>6, <2>1, <2>2 DEF ReadPull
<1>7. CASE Score(d)
  <2>1. PICK scored \in {seen[d].head, head} :
          Write(d, "scoring", "scored",
                [held[d] EXCEPT !.head = scored, !.files = head, !.run = NoRun,
                                !.attempts = IF @ < MaxAttempts THEN @ + 1 ELSE @])
    BY <1>7 DEF Score
  <2> DEFINE w == [held[d] EXCEPT !.head = scored, !.files = head, !.run = NoRun,
                                  !.attempts = IF @ < MaxAttempts THEN @ + 1 ELSE @]
  <2>2. w.status = held[d].status /\ w.approval = held[d].approval
    BY <1>t DEF Rows
  <2>3. held[d].status # "approved"
    BY <1>t, <2>1 DEF Write, Goto, DriverRecords
  <2> HIDE DEF w
  <2> QED
    BY <1>2, <2>1, <2>2, <2>3 DEF w, DriverPlaces
<1>8. CASE Judge(d) \/ StepFailsScored(d) \/ Retract(d) \/ Settle(d) \/ Crash(d)
  <2>1. Still
    BY <1>8 DEF Judge, StepFailsScored, Retract, Settle, Crash, host, store
  <2>2. CASE Leave(d)
    BY <1>1, <2>1, <2>2
  <2>3. CASE ~Leave(d)
    BY <1>4, <1>8, <2>1, <2>3
       DEF Judge, StepFailsScored, Retract, Settle, Crash, Goto
  <2> QED
    BY <2>2, <2>3
<1>9. CASE StepFails(d)
  <2> DEFINE tried == held[d].attempts + 1
             w == IF tried >= MaxAttempts
                    THEN [held[d] EXCEPT !.status = "failed", !.attempts = MaxAttempts]
                    ELSE [held[d] EXCEPT !.attempts = tried]
  <2>1. Write(d, pc[d], "saving", w) /\ pc[d] \in DriverPlaces \ {"idle", "settling"}
    BY <1>9 DEF StepFails, DriverPlaces
  <2>2. (w.status = "failed" \/ w.status = held[d].status) /\ w.approval = held[d].approval
    BY <1>t DEF Rows
  <2>3. held[d].status # "approved"
    BY <1>t, <2>1 DEF DriverRecords
  <2> HIDE DEF w
  <2> QED
    BY <1>2, <2>1, <2>2, <2>3
<1>10. CASE Hold(d) \/ Reassess(d) \/ Moved(d) \/ PostRefused(d)
  <2>1. PICK st \in InFlight \cup Held, from \in {"advancing", "posting"} :
          Write(d, from, "saving", [held[d] EXCEPT !.status = st])
    BY <1>10 DEF Hold, Reassess, Moved, PostRefused, InFlight, Held
  <2>2. from \in DriverPlaces \ {"idle", "settling"} /\ st # "approved"
    BY DEF DriverPlaces, InFlight, Held
  <2> QED
    BY <1>2, <1>5, <2>1, <2>2
<1>11. \A k : Awaiting(d, k).status = "awaiting_ai_review"
              /\ Awaiting(d, k).approval = held[d].approval
  BY <1>t DEF Awaiting, Rows
<1>12. CASE AdoptRun(d)
  <2>1. PICK k : Write(d, "advancing", "saving", Awaiting(d, k))
    BY <1>12 DEF AdoptRun
  <2> QED
    BY <1>2, <1>11, <2>1 DEF DriverPlaces
<1>13. CASE RequestRun(d)
  <2> DEFINE r == Awaiting(d, Len(runs) + 1)
  <2>1. /\ pc[d] = "advancing" /\ pc'[d] = "saving" /\ held'[d] = held[d] /\ next'[d] = r /\ Still
    BY <1>t, <1>13 DEF RequestRun, Goto, TypeOK, host
  <2>2. OthersKeep(d)
    BY <1>t, <1>13, <2>1 DEF OthersKeep, RequestRun, Goto, TypeOK
  <2>3. Carries(held[d]) /\ held[d].status # "approved" /\ Carries(r) /\ r.status # "approved"
    BY <1>t, <1>11, <2>1 DEF DriverRecords, Carries
  <2> HIDE DEF r
  <2> QED
    BY <1>t, <2>1, <2>2, <2>3, RecordsAlone DEF DriverRecords, Carrying, Carries
<1>14. CASE Approve(d)
  BY <1>4, <1>14 DEF Approve, Goto, host, store
<1> QED
  BY <1>3, <1>6, <1>7, <1>8, <1>9, <1>10, <1>12, <1>13, <1>14,
     RecordsSave, RecordsTakeBack, RecordsPost DEF Step

\* An intake takes back the approval of the row it has read, and says so if the
\* row is still that one.
LEMMA RecordsIntake ==
  ASSUME Recorded, Names, TypeOK, TypeOK', NEW i \in Intakes, Take(i) \/ Request(i)
  PROVE  Recorded'
<1> USE ActorsDiffer DEF Actors
<1>1. /\ given' = given /\ next' = next
      /\ \A d \in Drivers : pc'[d] = pc[d] /\ held'[d] = held[d]
      /\ \A j \in Intakes \ {i} : pc'[j] = pc[j] /\ held'[j] = held[j]
  BY DEF Take, ReadReview, ReadHeld, WithdrawHeld, Reopen, RecordWithdrawal, Start, Request,
         Goto, Withdraw, host, TypeOK
<1>2. /\ \A r : Carries(r)' <=> Carries(r)
      /\ \A d \in Drivers : Carrying(d)' <=> Carrying(d)
      /\ \A j \in Intakes \ {i} : Withdrawing(j)' <=> Withdrawing(j)
  BY <1>1 DEF Carries, Carrying, Withdrawing
<1>3. /\ RowRecords /\ OwnApprovals /\ IntakeRecords(i) /\ Carries(row)
      /\ \A d \in Drivers : DriverRecords(d)
  BY DEF Recorded, RowRecords
<1>4. CASE WithdrawHeld(i)
  <2> DEFINE id == held[i].approval
  <2>1. /\ Withdraw(id) /\ UNCHANGED <<row, held>>
        /\ Withdrawing(i) /\ pc'[i] = "reopening"
    BY <1>4 DEF WithdrawHeld, Goto, store, Withdrawing, TypeOK
  <2>2. \A r : Stands(r) /\ r.approval # id => Stands(r)'
    BY <2>1, OthersStand
  <2>3. RowRecords'
    <3>1. CASE row.approval = id
      BY <1>2, <1>3, <2>1, <3>1 DEF RowRecords, IntakeRecords
    <3>2. CASE row.approval # id
      <4>1. ASSUME NEW j \in Intakes, pc[j] \in {"reopening", "recording"}
            PROVE  pc'[j] \in {"reopening", "recording"}
        BY <1>1, <2>1, <4>1
      <4> QED
        BY <1>2, <1>3, <2>1, <2>2, <3>2, <4>1 DEF RowRecords
    <3> QED
      BY <3>1, <3>2
  <2>4. \A d \in Drivers : DriverRecords(d)'
    <3>1. \A d \in Drivers : Carrying(d) => next[d].approval # id
      BY <1>3, <2>1 DEF OwnApprovals
    <3> QED
      BY <1>1, <1>2, <1>3, <2>1, <2>2, <3>1 DEF DriverRecords, Carrying
  <2>5. \A j \in Intakes : Withdrawing(j)' => Withdrawing(j)
    BY <1>2, <2>1
  <2>6. OwnApprovals'
    BY <1>1, <1>2, <1>3, <2>1, <2>5 DEF OwnApprovals
  <2>7. \A j \in Intakes : IntakeRecords(j)'
    BY <1>2, <2>1, <2>5 DEF Recorded, IntakeRecords
  <2> QED
    BY <2>3, <2>4, <2>6, <2>7 DEF Recorded
<1>5. CASE ReadHeld(i)
  <2>1. /\ UNCHANGED <<row, approvals>> /\ held'[i] = row
        /\ pc[i] = "received" /\ (Withdrawing(i)' => row.status = "approved")
        /\ pc'[i] \notin {"reopening", "recording"}
    BY <1>5 DEF ReadHeld, Goto, store, host, Withdrawing, TypeOK
  <2>2. \A r : Stands(r)' <=> Stands(r)
    BY <2>1 DEF Stands
  <2>3. RowRecords'
    BY <1>1, <1>2, <1>3, <2>1, <2>2 DEF RowRecords
  <2>4. \A d \in Drivers : DriverRecords(d)'
    BY <1>1, <1>2, <1>3, <2>1, <2>2 DEF DriverRecords
  <2>5. OwnApprovals'
    <3>1. \A d \in Drivers : Carrying(d) => next[d].approval # row.approval
      BY <1>3 DEF DriverRecords
    <3>2. \A d \in Drivers, j \in Intakes :
            Carrying(d)' /\ Withdrawing(j)' => next'[d].approval # held'[j].approval
      BY <1>1, <1>2, <1>3, <2>1, <3>1 DEF OwnApprovals
    <3> QED
      BY <1>1, <1>2, <1>3, <3>2 DEF OwnApprovals
  <2>6. \A j \in Intakes : IntakeRecords(j)'
    BY <1>1, <1>2, <1>3, <2>1 DEF Recorded, IntakeRecords
  <2> QED
    BY <2>3, <2>4, <2>5, <2>6 DEF Recorded
<1>6. CASE ReadReview(i) \/ Reopen(i) \/ Request(i) \/ (RecordWithdrawal(i) /\ row' = row)
  <2>1. /\ UNCHANGED <<row, approvals, held>> /\ (Withdrawing(i)' => Withdrawing(i))
        /\ \/ pc[i] \in {"reopening", "recording"} => pc'[i] \in {"reopening", "recording"}
           \/ pc[i] = "recording" /\ row.revision # held[i].revision
           \/ row.status # "approved"
    <3>1. CASE ReadReview(i) \/ Reopen(i) \/ Request(i)
      BY <3>1 DEF ReadReview, Reopen, Request, Goto, store, host, Withdrawing, TypeOK
    <3>2. CASE RecordWithdrawal(i) /\ row' = row
      <4>1. /\ UNCHANGED <<row, approvals, held>> /\ pc[i] = "recording" /\ pc'[i] = "starting"
        BY <3>2 DEF RecordWithdrawal, Goto, host, TypeOK
      <4>2. CASE row.revision = held[i].revision
        <5>1. row' = [held[i] EXCEPT !.status = "requires_review", !.approval = NoApproval,
                                     !.revision = NewRevision]
          BY <3>2, <4>2 DEF RecordWithdrawal
        <5>2. row'.status = "requires_review"
          BY <5>1 DEF TypeOK, Rows
        <5> QED
          BY <4>1, <5>2 DEF Withdrawing
      <4> QED
        BY <4>1, <4>2 DEF Withdrawing
    <3> QED
      BY <1>6, <3>1, <3>2
  <2>2. \A r : Stands(r)' <=> Stands(r)
    BY <2>1 DEF Stands
  <2>3. RowRecords'
    BY <1>1, <1>2, <1>3, <2>1, <2>2 DEF RowRecords
  <2>4. \A d \in Drivers : DriverRecords(d)'
    BY <1>1, <1>2, <1>3, <2>1, <2>2 DEF DriverRecords
  <2>5. \A j \in Intakes : Withdrawing(j)' => Withdrawing(j)
    BY <1>2, <2>1
  <2>6. OwnApprovals' /\ \A j \in Intakes : IntakeRecords(j)'
    BY <1>1, <1>2, <1>3, <2>1, <2>5 DEF Recorded, OwnApprovals, IntakeRecords
  <2> QED
    BY <2>3, <2>4, <2>6 DEF Recorded
<1>7. CASE row'.status # "approved" /\ row'.approval = NoApproval /\ ~Withdrawing(i)'
           /\ UNCHANGED <<approvals, held>>
  <2>1. \A r : Carries(r) /\ r.status = "approved" => r.approval # NoApproval
    BY DEF Carries
  <2>2. RowRecords'
    BY <1>7, BoundsAreNat DEF RowRecords, Carries, NoApproval, TypeOK
  <2>3. \A d \in Drivers : DriverRecords(d)'
    <3>1. \A r : Stands(r)' <=> Stands(r)
      BY <1>7 DEF Stands
    <3>2. \A d \in Drivers : Carrying(d) => next[d].approval # NoApproval
      BY <1>3, <2>1 DEF DriverRecords, Carrying
    <3> QED
      BY <1>1, <1>2, <1>3, <1>7, <3>1, <3>2 DEF DriverRecords
  <2>4. OwnApprovals'
    BY <1>1, <1>2, <1>3, <1>7 DEF OwnApprovals
  <2>5. \A j \in Intakes : IntakeRecords(j)'
    BY <1>1, <1>2, <1>7, <2>1 DEF Recorded, IntakeRecords
  <2> QED
    BY <2>2, <2>3, <2>4, <2>5 DEF Recorded
<1>8. CASE RecordWithdrawal(i) /\ row' # row
  <2>1. row' = [held[i] EXCEPT !.status = "requires_review", !.approval = NoApproval,
                               !.revision = NewRevision]
    BY <1>8 DEF RecordWithdrawal
  <2>2. row'.status = "requires_review" /\ row'.approval = NoApproval
    BY <2>1 DEF TypeOK, Rows
  <2>3. UNCHANGED <<approvals, held>> /\ pc'[i] = "starting"
    BY <1>8 DEF RecordWithdrawal, Goto, host, TypeOK
  <2> QED
    BY <1>7, <2>2, <2>3 DEF Withdrawing
<1>9. CASE Start(i)
  <2>1. row'.status = "pending" /\ row'.approval = NoApproval
    BY <1>9 DEF Start, FreshRow
  <2>2. UNCHANGED <<approvals, held>> /\ pc'[i] = "idle"
    BY <1>9 DEF Start, Goto, host, TypeOK
  <2> QED
    BY <1>7, <2>1, <2>2 DEF Withdrawing
<1> QED
  BY <1>4, <1>5, <1>6, <1>8, <1>9 DEF Take

\* Every step leaves the recorded approval standing, or an intake about to say
\* that it does not.
LEMMA RecordsStep == RecordsInv /\ [Next]_vars => RecordsInv'
<1> SUFFICES ASSUME RecordsInv, [Next]_vars PROVE RecordsInv'
  OBVIOUS
<1>1. AssessedInv' /\ TypeOK /\ TypeOK'
  BY AssessedStep DEF RecordsInv, AssessedInv
<1>2. site' = site
  <2>1. ASSUME NEW i \in Intakes, Take(i) \/ Request(i) PROVE site' = site
    BY <2>1 DEF Take, Request, ReadReview, ReadHeld, WithdrawHeld, Withdraw, Reopen,
       RecordWithdrawal, Start, host
  <2>2. ASSUME NEW d \in Drivers, Drive(d) \/ Step(d) \/ Crash(d) PROVE site' = site
    <3>1. CASE Drive(d) \/ Crash(d) \/ Save(d) \/ ReadPull(d) \/ Score(d) \/ Judge(d)
      BY <3>1 DEF Drive, Crash, Save, ReadPull, Score, Judge, Write, host
    <3>2. CASE StepFails(d) \/ StepFailsScored(d) \/ Hold(d) \/ Reassess(d) \/ AdoptRun(d)
      BY <3>2 DEF StepFails, StepFailsScored, Hold, Reassess, AdoptRun, Write, host
    <3>3. CASE RequestRun(d) \/ Approve(d) \/ Moved(d) \/ Post(d) \/ PostRefused(d)
      BY <3>3 DEF RequestRun, Approve, Moved, Post, PostRefused, Write, host
    <3>4. CASE Settle(d) \/ Retract(d) \/ TakeBack(d)
      BY <3>4 DEF Settle, Retract, TakeBack, Withdraw, host
    <3> QED
      BY <2>2, <3>1, <3>2, <3>3, <3>4 DEF Step
  <2>3. CASE Push \/ FileRun \/ FinishRun \/ UNCHANGED vars
    BY <2>3 DEF Push, FileRun, FinishRun, vars, host
  <2> QED
    BY <2>1, <2>2, <2>3 DEF Next
<1> SUFFICES ASSUME Names PROVE Recorded'
  BY <1>1, <1>2 DEF RecordsInv, Names
<1>3. Recorded
  BY DEF RecordsInv
<1>4. ASSUME NEW i \in Intakes, Take(i) \/ Request(i) PROVE Recorded'
  BY <1>1, <1>3, <1>4, RecordsIntake
<1>5. ASSUME NEW d \in Drivers, Drive(d) \/ Step(d) \/ Crash(d) PROVE Recorded'
  BY <1>1, <1>3, <1>5, RecordsDriver
<1>6. ASSUME UNCHANGED <<approvals, given, row, held, next>>,
             \A d \in Drivers : pc'[d] = pc[d],
             \A i \in Intakes : pc'[i] = pc[i] \/ (pc[i] = "idle" /\ pc'[i] = "delivered")
      PROVE  Recorded'
  <2>1. (\A r : Carries(r)' <=> Carries(r)) /\ (\A r : Stands(r)' <=> Stands(r))
    BY <1>6 DEF Carries, Stands
  <2>2. /\ \A i \in Intakes : Withdrawing(i)' <=> Withdrawing(i)
        /\ \A d \in Drivers : Carrying(d)' <=> Carrying(d)
    BY <1>6 DEF Withdrawing, Carrying
  <2>3. RowRecords' /\ OwnApprovals'
    BY <1>3, <1>6, <2>1, <2>2 DEF Recorded, RowRecords, OwnApprovals
  <2>4. (\A d \in Drivers : DriverRecords(d)') /\ (\A i \in Intakes : IntakeRecords(i)')
    BY <1>3, <1>6, <2>1, <2>2 DEF Recorded, DriverRecords, IntakeRecords
  <2> QED
    BY <2>3, <2>4 DEF Recorded
<1>7. CASE Push
  BY <1>1, <1>6, <1>7, ActorsDiffer DEF Push, Goto, store, TypeOK, Actors
<1>8. CASE FileRun \/ FinishRun \/ UNCHANGED vars
  BY <1>6, <1>8 DEF FileRun, FinishRun, vars, host, store, actors
<1> QED
  BY <1>4, <1>5, <1>7, <1>8 DEF Next

\* RiskAssessmentService.ts:274-278: whichever intakes and drivers take an
\* approval back, and whatever fails as they do, the one a row at rest records
\* still stands on the row's own head, where the host tells approvals apart.
THEOREM RecordedStands == Spec => []RecordedApprovalStands
<1>1. Init => RecordsInv
  <2> SUFFICES ASSUME Init PROVE Recorded
    BY AssessedInit DEF RecordsInv
  <2>1. Carries(FreshRow(1, 1)) /\ FreshRow(1, 1).status = "pending"
    BY DEF Init, Carries, FreshRow, NoApproval
  <2>2. /\ row = FreshRow(1, 1) /\ \A a \in Actors : pc[a] = "idle" /\ held[a] = FreshRow(1, 1)
        /\ \A d \in Drivers : next[d] = FreshRow(1, 1)
    BY DEF Init
  <2> QED
    BY <2>1, <2>2 DEF Recorded, RowRecords, OwnApprovals, DriverRecords, IntakeRecords,
       Carrying, Withdrawing, Actors
<1>2. RecordsInv => RecordedApprovalStands
  BY DEF RecordsInv, Recorded, RowRecords, Stands, RecordedApprovalStands, Quiet, Actors
<1> QED
  BY <1>1, <1>2, RecordsStep, PTL DEF Spec

-----------------------------------------------------------------------------
(* An approval of an older head comes down. *)

\* One step or tick is alive at a time; or none outlives its lease, and the pull
\* request is pushed to no more than once.
SoleDriver == \A d, e \in Drivers : d = e
OnePush == PromptSteps /\ MaxHeads <= 2

\* Nothing comes between the steps of an intake, and nobody has an approved row
\* assessed again.
Answerable == IntakesAlone /\ MaxRequests = 0 /\ (SoleDriver \/ OnePush)

\* An approval is on the row, or in the hands of a driver that has yet to record
\* it or to take it back.
OnRow(a) == row.status = "approved" /\ a.id = row.approval /\ a.head = row.head
InHands(d, a) == Carrying(d) /\ a.id = next[d].approval /\ a.head = next[d].head

\* No push can make it an approval of an older head.
OfLastHead(a) == a.head = head /\ head = MaxHeads

\* A row about the head there is, or new commits that are to be told of.
Coming == \E i \in Intakes : pc[i] # "idle"
Current(r) == r.head = head \/ Coming

\* A driver whose row is the stored one.
AtWork(d) == pc[d] # "idle" /\ held[d].revision = row.revision
Approving(d) == pc[d] = "posting" \/ (pc[d] = "saving" /\ Carrying(d))

DriverAnswers(d) ==
  /\ pc[d] \in {"claiming", "scored"} => next[d].status # "approved"
  /\ pc[d] \notin {"idle", "settling"} => held[d].status # "approved"
  /\ AtWork(d) => held[d] = row
  /\ Carrying(d) => next[d].head = held[d].head
  /\ AtWork(d) /\ Approving(d) => Current(held[d])

\* An intake handles the row as it stands, and an approved one ends with its approval.
IntakeAnswers(i) ==
  /\ Withdrawing(i) => held[i] = row /\ row.status = "approved"
  /\ pc[i] = "starting" => row.status # "approved"
  /\ pc[i] \in {"reopening", "recording"} => \A a \in approvals \ lost : ~OnRow(a)

Answered ==
  /\ \A a \in approvals \ lost : OnRow(a) \/ (\E d \in Drivers : InHands(d, a)) \/ OfLastHead(a)
  /\ row.status = "approved" => Current(row)
  /\ \A d \in Drivers : DriverAnswers(d)
  /\ \A i \in Intakes : IntakeAnswers(i)
  /\ \A i, j \in Intakes : Busy(i) /\ Busy(j) => i = j

\* A driver by itself finds nobody else's approval on the row.
Sole == \A d \in Drivers : pc[d] \notin {"idle", "settling"} => row.status # "approved"

\* With one push, a write is refused to nobody before the push was taken in.
Pushed ==
  /\ starts # 0
  /\ Coming => head = MaxHeads
  /\ starts # 1 => announced = MaxHeads
  /\ \A d \in Drivers : pc[d] = "retracting" => starts # 1
  /\ starts = 1 /\ (\A i \in Intakes : pc[i] # "starting") =>
       \A d \in Drivers : pc[d] # "idle" => AtWork(d)
  /\ \A d, e \in Drivers : AtWork(d) /\ AtWork(e) => d = e

WithdrawnInv ==
  /\ FreshInv /\ Answered
  /\ SoleDriver => Sole
  /\ OnePush => Pushed

\* Nobody but d moves, and no intake is at work.
OnlyDriver(d) ==
  /\ \A i \in Intakes : ~Busy(i)
  /\ UNCHANGED <<head, starts, announced>>
  /\ \A a \in Actors \ {d} : pc'[a] = pc[a] /\ held'[a] = held[a]
  /\ \A e \in Drivers \ {d} : next'[e] = next[e]

\* A driver goes away, goes on with what it holds, or takes up the row.
GoesOn(d) ==
  \/ pc'[d] = "idle"
  \/ /\ pc[d] \notin {"idle", "settling"} /\ pc'[d] # "settling" /\ held'[d] = held[d]
     /\ pc'[d] = "retracting" => pc[d] = "retracting" \/ row.revision # held[d].revision
  \/ /\ pc[d] = "idle" /\ pc'[d] = "claiming" /\ held'[d] = row
     /\ row.status # "approved" /\ (PromptSteps => ~Driven(d))

\* Whatever approval is not d's any more is gone, given up, or of the last head.
Parts(d) ==
  \A a \in approvals' \ lost' :
    (a \in approvals \ lost /\ ~InHands(d, a)) \/ InHands(d, a)' \/ OfLastHead(a)

\* A driver's step that leaves the row alone.
LEMMA AnswersAlone ==
  ASSUME WithdrawnInv, FreshInv', NEW d \in Drivers, OnlyDriver(d), row' = row,
         GoesOn(d), DriverAnswers(d)', Parts(d)
  PROVE  WithdrawnInv'
<1> USE ActorsDiffer DEF Actors
<1>1. \A e \in Drivers \ {d} : pc'[e] = pc[e] /\ held'[e] = held[e] /\ next'[e] = next[e]
  BY DEF OnlyDriver
<1>2. \A i \in Intakes : pc'[i] = pc[i] /\ held'[i] = held[i] /\ ~Busy(i) /\ ~Busy(i)'
  BY DEF OnlyDriver, Busy
<1>3. /\ Coming' <=> Coming
      /\ \A r : Current(r)' <=> Current(r)
      /\ \A a : OnRow(a)' <=> OnRow(a)
  BY <1>2 DEF Coming, Current, OnRow, OnlyDriver
<1>4. \A e \in Drivers \ {d} :
        /\ Carrying(e)' <=> Carrying(e)
        /\ \A a : InHands(e, a)' <=> InHands(e, a)
        /\ AtWork(e)' <=> AtWork(e)
        /\ Approving(e)' <=> Approving(e)
  BY <1>1 DEF Carrying, InHands, AtWork, Approving
<1>5. \A e \in Drivers : DriverAnswers(e)'
  <2> SUFFICES ASSUME NEW e \in Drivers \ {d} PROVE DriverAnswers(e)'
    OBVIOUS
  <2>1. DriverAnswers(e)
    BY DEF WithdrawnInv, Answered
  <2>2. Current(held[e])' <=> Current(held[e])
    BY <1>1, <1>3 DEF Current, OnlyDriver
  <2> QED
    BY <1>1, <1>4, <2>1, <2>2 DEF DriverAnswers
<1>6. \A i \in Intakes : IntakeAnswers(i)'
  BY <1>2 DEF IntakeAnswers, Withdrawing, Busy
<1>7. \A a \in approvals' \ lost' :
        OnRow(a)' \/ (\E e \in Drivers : InHands(e, a)') \/ OfLastHead(a)'
  BY <1>3, <1>4 DEF WithdrawnInv, Answered, Parts, OfLastHead, OnlyDriver
<1>8. row'.status = "approved" => Current(row)'
  BY <1>3 DEF WithdrawnInv, Answered, Current
<1>9. Answered'
  BY <1>2, <1>5, <1>6, <1>7, <1>8 DEF Answered
<1>10. ASSUME SoleDriver PROVE Sole'
  BY <1>1, <1>10 DEF WithdrawnInv, Sole, GoesOn
<1>11. ASSUME OnePush PROVE Pushed'
  <2>1. Pushed /\ PromptSteps /\ UNCHANGED <<head, starts, announced>>
    BY <1>11 DEF WithdrawnInv, OnePush, OnlyDriver
  <2>2. \A i \in Intakes : pc[i] # "starting" /\ pc'[i] # "starting"
    BY <1>2 DEF Busy
  <2>3. AtWork(d)' =>
          \/ AtWork(d)
          \/ pc[d] = "idle" /\ \A e \in Drivers \ {d} : ~AtWork(e)
    BY <2>1 DEF GoesOn, AtWork, Driven
  <2>4. starts = 1 /\ pc'[d] # "idle" => AtWork(d)'
    BY <2>1, <2>2 DEF Pushed, GoesOn, AtWork
  <2>5. pc'[d] = "retracting" => starts # 1
    BY <2>1, <2>2 DEF Pushed, GoesOn, AtWork
  <2>6. \A e \in Drivers : pc'[e] = "retracting" => starts' # 1
    BY <1>1, <2>1, <2>5 DEF Pushed
  <2>7. starts' = 1 => \A e \in Drivers : pc'[e] # "idle" => AtWork(e)'
    BY <1>1, <1>4, <2>1, <2>2, <2>4 DEF Pushed
  <2>8. \A e, f \in Drivers : AtWork(e)' /\ AtWork(f)' => e = f
    BY <1>4, <2>1, <2>3 DEF Pushed
  <2> QED
    BY <1>3, <2>1, <2>6, <2>7, <2>8 DEF Pushed
<1> QED
  BY <1>9, <1>10, <1>11 DEF WithdrawnInv, SoleDriver, OnePush

\* The row is written by the one driver that is at work on it.
LEMMA AnswersSave ==
  ASSUME WithdrawnInv, FreshInv', NEW d \in Drivers, \A i \in Intakes : ~Busy(i), Save(d)
  PROVE  WithdrawnInv'
<1> USE ActorsDiffer DEF Actors
<1>1. /\ TypeOK /\ UNCHANGED <<approvals, lost, head, starts, announced>>
      /\ pc[d] \in {"claiming", "scored", "saving"} /\ DriverAnswers(d)
      /\ NewRevision # row.revision
      /\ \A a \in Actors : pc[a] # "idle" => held[a].revision # NewRevision
  <2>1. TypeOK
    BY DEF WithdrawnInv, FreshInv, AssessedInv
  <2> QED
    BY <2>1, RevisionIsNew DEF Save, host, WithdrawnInv, Answered
<1>2. CASE row.revision # held[d].revision /\ Refused(d) /\ UNCHANGED row
  <2>1. OnlyDriver(d)
    BY <1>1, <1>2 DEF OnlyDriver, Refused, Leave, TypeOK
  <2>2. CASE Leave(d)
    <3>1. pc'[d] = "idle" /\ ~Carrying(d)
      BY <1>1, <1>2, <2>2 DEF Leave, TypeOK, Carrying, Refused
    <3>2. DriverAnswers(d)' /\ GoesOn(d) /\ Parts(d)
      BY <1>1, <3>1 DEF DriverAnswers, AtWork, Carrying, GoesOn, Parts, InHands
    <3> QED
      BY <1>2, <2>1, <3>2, AnswersAlone
  <2>3. CASE ~Leave(d)
    <3>1. /\ pc[d] = "saving" /\ next[d].status = "approved" /\ pc'[d] = "retracting"
          /\ held' = held /\ next' = next
      BY <1>1, <1>2, <2>3 DEF Refused, TypeOK
    <3>2. DriverAnswers(d)' /\ GoesOn(d)
      BY <1>1, <1>2, <3>1 DEF DriverAnswers, AtWork, Carrying, Approving, GoesOn
    <3>3. Parts(d)
      BY <1>1, <3>1 DEF Parts, InHands, Carrying
    <3> QED
      BY <1>2, <2>1, <3>2, <3>3, AnswersAlone
  <2> QED
    BY <2>2, <2>3
<1>3. CASE row.revision = held[d].revision /\ Landed(d)
           /\ row' = [next[d] EXCEPT !.revision = NewRevision]
  <2>1. /\ row'.status = next[d].status /\ row'.approval = next[d].approval
        /\ row'.head = next[d].head /\ row'.revision = NewRevision
    BY <1>1, <1>3 DEF TypeOK, Rows
  <2>2. /\ \A a \in Actors \ {d} : pc'[a] = pc[a] /\ held'[a] = held[a]
        /\ \A e \in Drivers \ {d} : next'[e] = next[e]
    BY <1>1, <1>3 DEF Landed, Leave, TypeOK
  <2>3. \/ pc'[d] = "idle"
        \/ /\ pc'[d] \in {"reading", "judging", "advancing", "settling"} /\ held'[d] = row'
           /\ next[d].status = "approved" => pc'[d] = "settling"
    BY <1>1, <1>3 DEF Landed, Leave, AfterSave, TypeOK, DriverAnswers
  <2>4. AtWork(d) /\ held[d] = row /\ row.status # "approved"
    BY <1>1, <1>3 DEF AtWork, DriverAnswers
  <2>5. next[d].status = "approved" => pc[d] = "saving" /\ pc'[d] = "settling"
    BY <1>1, <1>3 DEF DriverAnswers, Landed, AfterSave, TypeOK
  <2>6. next[d].status = "approved" => Carrying(d) /\ Approving(d) /\ Current(next[d])
    BY <1>1, <2>4, <2>5 DEF Carrying, Approving, DriverAnswers, Current
  <2>7. \A i \in Intakes : pc'[i] = pc[i] /\ held'[i] = held[i] /\ ~Busy(i) /\ ~Busy(i)'
    BY <2>2 DEF Busy
  <2>8. (Coming' <=> Coming) /\ \A r : Current(r)' <=> Current(r)
    BY <1>1, <2>7 DEF Coming, Current
  <2>9. row'.status = "approved" => Current(row)'
    BY <1>1, <2>1, <2>6, <2>8 DEF Current
  <2>10. \A e \in Drivers \ {d} : ~AtWork(e)' /\ \A a : InHands(e, a) => InHands(e, a)'
    BY <1>1, <2>1, <2>2 DEF AtWork, InHands, Carrying
  <2>11. \A a \in approvals' \ lost' :
           OnRow(a)' \/ (\E e \in Drivers : InHands(e, a)') \/ OfLastHead(a)'
    <3> SUFFICES ASSUME NEW a \in approvals \ lost, ~OfLastHead(a)'
                 PROVE  OnRow(a)' \/ \E e \in Drivers : InHands(e, a)'
      BY <1>1
    <3>1. PICK e \in Drivers : InHands(e, a)
      BY <1>1, <2>4 DEF WithdrawnInv, Answered, OnRow, OfLastHead
    <3>2. CASE e = d
      BY <1>1, <2>1, <3>1, <3>2 DEF InHands, Carrying, OnRow
    <3> QED
      BY <2>10, <3>1, <3>2
  <2>12. DriverAnswers(d)'
    BY <2>1, <2>3, <2>5 DEF DriverAnswers, AtWork, Carrying, Approving
  <2>13. \A e \in Drivers \ {d} : DriverAnswers(e)'
    <3> SUFFICES ASSUME NEW e \in Drivers \ {d} PROVE DriverAnswers(e)'
      OBVIOUS
    <3>1. /\ DriverAnswers(e) /\ ~AtWork(e)'
          /\ pc'[e] = pc[e] /\ held'[e] = held[e] /\ next'[e] = next[e]
      BY <2>2, <2>10 DEF WithdrawnInv, Answered
    <3> QED
      BY <3>1 DEF DriverAnswers, Carrying
  <2>14. \A i \in Intakes : IntakeAnswers(i)'
    BY <2>7 DEF IntakeAnswers, Withdrawing, Busy
  <2>15. Answered'
    BY <2>7, <2>9, <2>11, <2>12, <2>13, <2>14 DEF Answered
  <2>16. ASSUME SoleDriver PROVE Sole'
    BY <2>1, <2>3, <2>5, <2>16 DEF Sole, SoleDriver
  <2>17. ASSUME OnePush PROVE Pushed'
    <3>1. Pushed /\ \A i \in Intakes : pc[i] # "starting"
      BY <2>7, <2>17 DEF WithdrawnInv, Busy
    <3>2. \A e \in Drivers : pc'[e] = "retracting" => starts' # 1
      BY <1>1, <2>2, <2>3, <3>1 DEF Pushed
    <3>3. starts' = 1 => \A e \in Drivers : pc'[e] # "idle" => AtWork(e)'
      BY <1>1, <2>2, <2>3, <2>4, <3>1 DEF Pushed, AtWork
    <3>4. \A e, f \in Drivers : AtWork(e)' /\ AtWork(f)' => e = f
      BY <2>10
    <3> QED
      BY <1>1, <2>8, <3>1, <3>2, <3>3, <3>4 DEF Pushed
  <2> QED
    BY <2>15, <2>16, <2>17 DEF WithdrawnInv, SoleDriver, OnePush
<1> QED
  BY <1>2, <1>3 DEF Save

\* An approval that is posted is in its driver's hands.
LEMMA AnswersPost ==
  ASSUME WithdrawnInv, FreshInv', NEW d \in Drivers, \A i \in Intakes : ~Busy(i), Post(d)
  PROVE  WithdrawnInv'
<1> USE ActorsDiffer DEF Actors
<1>1. /\ TypeOK /\ held[d] \in Rows /\ DriverAnswers(d)
      /\ pc[d] = "posting" /\ pc' = [pc EXCEPT ![d] = "saving"]
      /\ UNCHANGED <<head, row, starts, announced, held>>
  BY DEF WithdrawnInv, FreshInv, AssessedInv, Answered, TypeOK, Post, Goto, store
<1> DEFINE a == NewApproval(d)
<1>2. a.head = held[d].head
  BY DEF NewApproval
<1> HIDE DEF a
<1>3. PICK answered \in BOOLEAN :
        /\ next' = [next EXCEPT ![d] =
             IF answered THEN [held[d] EXCEPT !.status = "approved", !.approval = a.id]
                         ELSE [held[d] EXCEPT !.status = "within_policy"]]
        /\ lost' = (lost \cap approvals') \cup (IF answered THEN {} ELSE {a})
  BY DEF Post, a
<1>4. approvals' \subseteq approvals \cup {a}
  BY DEF Post, a
<1>5. /\ answered => /\ next'[d].status = "approved" /\ next'[d].approval = a.id
                     /\ next'[d].head = held[d].head
      /\ ~answered => next'[d].status = "within_policy"
  BY <1>1, <1>3 DEF TypeOK, Rows
<1>6. OnlyDriver(d) /\ pc'[d] = "saving"
  BY <1>1, <1>3 DEF OnlyDriver, TypeOK
<1>7. (Coming' <=> Coming) /\ (Current(held[d])' <=> Current(held[d]))
  <2>1. \A i \in Intakes : pc'[i] = pc[i]
    BY <1>6 DEF OnlyDriver
  <2> QED
    BY <1>1, <2>1 DEF Coming, Current
<1>8. DriverAnswers(d)'
  BY <1>1, <1>5, <1>6, <1>7 DEF DriverAnswers, Carrying, AtWork, Approving
<1>9. Parts(d)
  <2> SUFFICES ASSUME NEW b \in approvals' \ lost'
               PROVE  (b \in approvals \ lost /\ ~InHands(d, b)) \/ InHands(d, b)'
    BY DEF Parts
  <2>1. CASE b = a
    BY <1>2, <1>3, <1>5, <1>6, <2>1 DEF InHands, Carrying
  <2>2. CASE b # a
    BY <1>1, <1>3, <1>4, <2>2 DEF InHands, Carrying
  <2> QED
    BY <2>1, <2>2
<1>10. GoesOn(d)
  BY <1>1, <1>6 DEF GoesOn
<1> QED
  BY <1>1, <1>6, <1>8, <1>9, <1>10, AnswersAlone

\* An approval that a driver leaves behind is taken back, lost with the driver,
\* or of the last head.
LEMMA AnswersLeave ==
  ASSUME WithdrawnInv, FreshInv', Answerable, NEW d \in Drivers,
         \A i \in Intakes : ~Busy(i), Leave(d),
         Retract(d) \/ TakeBack(d) \/ Crash(d) \/ Judge(d) \/ Settle(d) \/ StepFailsScored(d)
  PROVE  WithdrawnInv'
<1> USE ActorsDiffer DEF Actors
<1>1. TypeOK /\ DriverAnswers(d) /\ VerdictNotStale
  BY DEF WithdrawnInv, FreshInv, AssessedInv, Answered
<1>2. UNCHANGED <<head, row, starts, announced>>
  BY DEF Retract, TakeBack, Crash, Judge, Settle, StepFailsScored, Withdraw, host, store
<1>3. OnlyDriver(d) /\ pc'[d] = "idle"
  BY <1>1, <1>2 DEF OnlyDriver, Leave, TypeOK
<1>4. GoesOn(d) /\ DriverAnswers(d)'
  BY <1>3 DEF GoesOn, DriverAnswers, AtWork, Carrying
<1>5. CASE Judge(d) \/ Settle(d) \/ StepFailsScored(d)
  <2>1. pc[d] \in {"judging", "settling", "advancing"} /\ UNCHANGED <<approvals, lost>>
    BY <1>5 DEF Judge, Settle, StepFailsScored, Scored, host, Goto
  <2> QED
    BY <1>2, <1>3, <1>4, <2>1, AnswersAlone DEF Parts, InHands, Carrying
<1>6. CASE Crash(d)
  <2>1. approvals' = approvals /\ lost' = lost \cup Unrecorded(d)
    BY <1>6 DEF Crash
  <2>2. \A a \in approvals : InHands(d, a) => a \in Unrecorded(d)
    BY DEF InHands, Carrying, Unrecorded
  <2> QED
    BY <1>2, <1>3, <1>4, <2>1, <2>2, AnswersAlone DEF Parts
<1>7. CASE TakeBack(d)
  <2>1. \A a \in approvals' \ lost' : a \in approvals \ lost /\ a.id # next[d].approval
    BY <1>7 DEF TakeBack, Withdraw, Withdrawn
  <2> QED
    BY <1>2, <1>3, <1>4, <2>1, AnswersAlone DEF Parts, InHands
<1>8. CASE Retract(d)
  <2>1. pc[d] = "retracting" /\ row.status = "approved" /\ row.head = held[d].head
        /\ UNCHANGED <<approvals, lost>>
    <3>1. ~Goto(d, "retracting", "taking_back")
      BY <1>1, <1>3 DEF Goto, TypeOK
    <3> QED
      BY <1>8, <3>1 DEF Retract, host
  <2>2. ASSUME NEW a \in approvals, InHands(d, a) PROVE OfLastHead(a)
    <3>1. a.head = row.head /\ a.head \in 1 .. MaxHeads
      BY <1>1, <2>1, <2>2 DEF InHands, DriverAnswers, TypeOK
    <3>2. ~SoleDriver
      BY <2>1 DEF WithdrawnInv, Sole
    <3>3. announced = MaxHeads
      BY <2>1, <3>2 DEF WithdrawnInv, Answerable, Pushed
    <3>4. MaxHeads \in Nat /\ announced <= head /\ head \in 1 .. MaxHeads
      BY <1>1, BoundsAreNat DEF WithdrawnInv, FreshInv, TypeOK
    <3> QED
      BY <1>1, <3>1, <3>3, <3>4 DEF VerdictNotStale, OfLastHead
  <2> QED
    BY <1>2, <1>3, <1>4, <2>1, <2>2, AnswersAlone DEF Parts
<1> QED
  BY <1>5, <1>6, <1>7, <1>8

\* Every other step of a driver.
LEMMA AnswersDriver ==
  ASSUME WithdrawnInv, FreshInv', Answerable, NEW d \in Drivers,
         \A i \in Intakes : ~Busy(i), Drive(d) \/ Step(d) \/ Crash(d)
  PROVE  WithdrawnInv'
<1> USE ActorsDiffer DEF Actors
<1>t. TypeOK /\ DriverAnswers(d) /\ held[d] \in Rows
  BY DEF WithdrawnInv, FreshInv, AssessedInv, Answered, TypeOK
<1>1. ASSUME NEW to \in {"scoring", "advancing", "posting", "taking_back"},
             pc[d] \notin {"idle", "settling"}, to = "taking_back" <=> pc[d] = "retracting",
             pc[d] # "saving", pc[d] # "taking_back", to = "posting" => held[d].head = head,
             pc' = [pc EXCEPT ![d] = to], UNCHANGED <<held, next>>,
             UNCHANGED <<row, head, starts, announced, approvals, lost>>
      PROVE  WithdrawnInv'
  <2>1. OnlyDriver(d) /\ pc'[d] = to
    BY <1>t, <1>1 DEF OnlyDriver, TypeOK
  <2>2. GoesOn(d)
    BY <1>1, <2>1 DEF GoesOn
  <2>3. Carrying(d)' <=> Carrying(d)
    BY <1>1, <2>1 DEF Carrying
  <2>4. Approving(d)' => held'[d].head = head'
    BY <1>1, <2>1 DEF Approving
  <2>5. DriverAnswers(d)'
    BY <1>t, <1>1, <2>1, <2>3, <2>4 DEF DriverAnswers, AtWork, Current
  <2>6. Parts(d)
    BY <1>1, <2>3 DEF Parts, InHands
  <2> QED
    BY <1>1, <2>1, <2>2, <2>5, <2>6, AnswersAlone
<1>2. ASSUME pc[d] \in {"reading", "scoring", "judging", "advancing", "posting"},
             pc'[d] \in {"saving", "scored"}, OnlyDriver(d), next'[d].status # "approved",
             UNCHANGED <<row, approvals, lost, held>>
      PROVE  WithdrawnInv'
  <2>1. GoesOn(d) /\ ~Carrying(d) /\ ~Carrying(d)'
    BY <1>2 DEF GoesOn, Carrying
  <2>2. DriverAnswers(d)'
    BY <1>t, <1>2, <2>1 DEF DriverAnswers, AtWork, Approving
  <2>3. Parts(d)
    BY <1>2, <2>1 DEF Parts, InHands
  <2> QED
    BY <1>2, <2>1, <2>2, <2>3, AnswersAlone
<1>3. ASSUME NEW from \in {"reading", "scoring", "judging", "advancing", "posting"},
             NEW to \in {"saving", "scored"}, NEW r, Write(d, from, to, r), r.status # "approved"
      PROVE  WithdrawnInv'
  <2>1. /\ pc[d] = from /\ pc'[d] = to /\ next'[d] = r /\ OnlyDriver(d)
        /\ UNCHANGED <<row, approvals, lost, held>>
    BY <1>t, <1>3 DEF Write, Goto, host, store, OnlyDriver, TypeOK
  <2> QED
    BY <1>2, <1>3, <2>1
<1>4. pc[d] \notin {"idle", "settling"} => held[d].status # "approved"
  BY <1>t DEF DriverAnswers
<1>5. \A st : [held[d] EXCEPT !.status = st].status = st
  BY <1>t DEF Rows
<1>6. CASE Drive(d)
  <2>1. /\ OnlyDriver(d) /\ pc[d] = "idle" /\ pc'[d] = "claiming"
        /\ held'[d] = row /\ next'[d] = row /\ row.status \in InFlight
        /\ UNCHANGED <<row, approvals, lost>> /\ (PromptSteps => ~Driven(d))
    BY <1>t, <1>6 DEF Drive, Goto, OnlyDriver, TypeOK, host, store
  <2>2. GoesOn(d) /\ ~Carrying(d) /\ ~Carrying(d)'
    BY <2>1 DEF GoesOn, Carrying, InFlight
  <2>3. DriverAnswers(d)' /\ Parts(d)
    BY <2>1, <2>2 DEF DriverAnswers, AtWork, Approving, Parts, InHands, InFlight
  <2> QED
    BY <2>1, <2>2, <2>3, AnswersAlone
<1>7. CASE ReadPull(d)
  <2>1. CASE Write(d, "reading", "saving", [held[d] EXCEPT !.status = "failed"])
    <3> DEFINE w == [held[d] EXCEPT !.status = "failed"]
    <3>1. w.status = "failed"
      BY <1>5
    <3> HIDE DEF w
    <3>2. Write(d, "reading", "saving", w)
      BY <2>1 DEF w
    <3> QED
      BY <1>3, <3>1, <3>2
  <2>2. CASE Goto(d, "reading", "scoring") /\ UNCHANGED <<host, store, held, next>>
    BY <1>1, <2>2 DEF Goto, host, store
  <2> QED
    BY <1>7, <2>1, <2>2 DEF ReadPull
<1>8. CASE Score(d)
  <2>1. PICK scored \in {seen[d].head, head} :
          Write(d, "scoring", "scored",
                [held[d] EXCEPT !.head = scored, !.files = head, !.run = NoRun,
                                !.attempts = IF @ < MaxAttempts THEN @ + 1 ELSE @])
    BY <1>8 DEF Score
  <2> DEFINE w == [held[d] EXCEPT !.head = scored, !.files = head, !.run = NoRun,
                                  !.attempts = IF @ < MaxAttempts THEN @ + 1 ELSE @]
  <2>2. w.status = held[d].status /\ pc[d] = "scoring"
    BY <1>t, <2>1 DEF Rows, Write, Goto
  <2> HIDE DEF w
  <2> QED
    BY <1>3, <1>4, <2>1, <2>2 DEF w
<1>9. CASE StepFails(d)
  <2> DEFINE tried == held[d].attempts + 1
             w == IF tried >= MaxAttempts
                    THEN [held[d] EXCEPT !.status = "failed", !.attempts = MaxAttempts]
                    ELSE [held[d] EXCEPT !.attempts = tried]
  <2>1. Write(d, pc[d], "saving", w) /\ pc[d] \in {"reading", "scoring", "judging", "advancing"}
    BY <1>9 DEF StepFails
  <2>2. w.status = "failed" \/ w.status = held[d].status
    BY <1>t DEF Rows
  <2> HIDE DEF w
  <2> QED
    BY <1>3, <1>4, <2>1, <2>2
<1>10. CASE Hold(d) \/ Reassess(d) \/ Moved(d) \/ PostRefused(d)
  <2>1. PICK st \in InFlight \cup Held, from \in {"advancing", "posting"} :
          Write(d, from, "saving", [held[d] EXCEPT !.status = st])
    BY <1>10 DEF Hold, Reassess, Moved, PostRefused, InFlight, Held
  <2> DEFINE w == [held[d] EXCEPT !.status = st]
  <2>2. w.status # "approved"
    BY <1>5 DEF InFlight, Held
  <2> HIDE DEF w
  <2>3. Write(d, from, "saving", w)
    BY <2>1 DEF w
  <2> QED
    BY <1>3, <2>2, <2>3
<1>11. \A k : Awaiting(d, k).status = "awaiting_ai_review"
  BY <1>t DEF Awaiting, Rows
<1>12. CASE AdoptRun(d)
  <2>1. PICK k : Write(d, "advancing", "saving", Awaiting(d, k))
    BY <1>12 DEF AdoptRun
  <2> QED
    BY <1>3, <1>11, <2>1
<1>13. CASE RequestRun(d)
  <2>1. /\ pc[d] = "advancing" /\ pc'[d] = "saving" /\ OnlyDriver(d)
        /\ next'[d] = Awaiting(d, Len(runs) + 1)
        /\ UNCHANGED <<row, approvals, lost, held>>
    BY <1>t, <1>13 DEF RequestRun, Goto, host, OnlyDriver, TypeOK
  <2> QED
    BY <1>2, <1>11, <2>1
<1>14. CASE Approve(d)
  BY <1>1, <1>14 DEF Approve, Goto, host, store
<1>15. CASE Judge(d) /\ ~Leave(d)
  BY <1>1, <1>15 DEF Judge, Goto, host, store
<1>16. CASE Retract(d) /\ ~Leave(d)
  BY <1>1, <1>16 DEF Retract, Goto, host, store
<1>17. CASE TakeBack(d) \/ Crash(d) \/ Settle(d) \/ StepFailsScored(d)
  <2>1. Leave(d)
    BY <1>17 DEF TakeBack, Crash, Settle, StepFailsScored
  <2> QED
    BY <1>17, <2>1, AnswersLeave
<1>18. CASE (Judge(d) \/ Retract(d)) /\ Leave(d)
  BY <1>18, AnswersLeave
<1> QED
  BY <1>6, <1>7, <1>8, <1>9, <1>10, <1>12, <1>13, <1>14, <1>15, <1>16, <1>17, <1>18,
     AnswersSave, AnswersPost DEF Step

\* What an intake leaves to the drivers and to the other intakes.
OnlyIntake(i) ==
  /\ \A a \in Actors \ {i} : pc'[a] = pc[a] /\ held'[a] = held[a]
  /\ next' = next /\ head' = head

\* An intake that leaves the row alone: the new commits it tells of are not told yet.
LEMMA AnswersReading ==
  ASSUME WithdrawnInv, FreshInv', NEW i \in Intakes, OnlyIntake(i),
         \A j \in Intakes \ {i} : ~Busy(j), pc'[i] # "idle", pc[i] # "starting", pc[i] # "idle",
         UNCHANGED <<row, starts, announced>>,
         approvals' \ lost' \subseteq approvals \ lost, IntakeAnswers(i)'
  PROVE  WithdrawnInv'
<1> USE ActorsDiffer DEF Actors
<1>1. Coming /\ Coming'
  BY DEF Coming
<1>2. \A e \in Drivers : pc'[e] = pc[e] /\ held'[e] = held[e] /\ next'[e] = next[e]
  BY DEF OnlyIntake
<1>3. \A j \in Intakes \ {i} : pc'[j] = pc[j] /\ held'[j] = held[j] /\ ~Busy(j) /\ ~Busy(j)'
  BY DEF OnlyIntake, Busy
<1>4. \A e \in Drivers : DriverAnswers(e)'
  <2> SUFFICES ASSUME NEW e \in Drivers PROVE DriverAnswers(e)'
    OBVIOUS
  <2>1. DriverAnswers(e)
    BY DEF WithdrawnInv, Answered
  <2> QED
    BY <1>1, <1>2, <2>1 DEF DriverAnswers, AtWork, Approving, Carrying, Current
<1>5. \A j \in Intakes : IntakeAnswers(j)'
  BY <1>3 DEF IntakeAnswers, Withdrawing, Busy
<1>6. \A a \in approvals' \ lost' :
        OnRow(a)' \/ (\E e \in Drivers : InHands(e, a)') \/ OfLastHead(a)'
  BY <1>2 DEF WithdrawnInv, Answered, OnRow, InHands, Carrying, OfLastHead, OnlyIntake
<1>7. Answered'
  BY <1>1, <1>3, <1>4, <1>5, <1>6 DEF Answered, Current
<1>8. ASSUME SoleDriver PROVE Sole'
  BY <1>2, <1>8 DEF WithdrawnInv, Sole
<1>9. ASSUME OnePush PROVE Pushed'
  BY <1>1, <1>2, <1>3, <1>9 DEF WithdrawnInv, Pushed, AtWork, OnlyIntake
<1> QED
  BY <1>7, <1>8, <1>9 DEF WithdrawnInv, SoleDriver, OnePush

\* An intake that writes the row: no approval goes with the row that was there.
LEMMA AnswersWriting ==
  ASSUME WithdrawnInv, FreshInv', NEW i \in Intakes, OnlyIntake(i),
         \A j \in Intakes \ {i} : ~Busy(j), ~Withdrawing(i)', pc[i] # "idle",
         row'.status # "approved", row'.revision = NewRevision,
         UNCHANGED <<approvals, lost>>, \A a \in approvals \ lost : ~OnRow(a),
         \/ UNCHANGED <<starts, announced>> /\ pc'[i] = "starting"
         \/ starts' = starts + 1 /\ announced' = head
  PROVE  WithdrawnInv'
<1> USE ActorsDiffer DEF Actors
<1>1. TypeOK /\ starts \in Nat
  BY DEF WithdrawnInv, FreshInv, AssessedInv, TypeOK
<1>2. /\ Coming
      /\ \A e \in Drivers : pc'[e] = pc[e] /\ held'[e] = held[e] /\ next'[e] = next[e]
  BY DEF Coming, OnlyIntake
<1>3. \A j \in Intakes \ {i} : pc'[j] = pc[j] /\ held'[j] = held[j] /\ ~Busy(j) /\ ~Busy(j)'
  BY DEF OnlyIntake, Busy
<1>4. \A e \in Drivers : ~AtWork(e)'
  BY <1>1, <1>2, RevisionIsNew DEF AtWork
<1>5. \A e \in Drivers : DriverAnswers(e)'
  <2> SUFFICES ASSUME NEW e \in Drivers PROVE DriverAnswers(e)'
    OBVIOUS
  <2>1. DriverAnswers(e)
    BY DEF WithdrawnInv, Answered
  <2> QED
    BY <1>2, <1>4, <2>1 DEF DriverAnswers, Carrying
<1>6. \A j \in Intakes : IntakeAnswers(j)'
  BY <1>3 DEF IntakeAnswers, Withdrawing, Busy
<1>7. \A a \in approvals' \ lost' :
        OnRow(a)' \/ (\E e \in Drivers : InHands(e, a)') \/ OfLastHead(a)'
  BY <1>2 DEF WithdrawnInv, Answered, InHands, Carrying, OfLastHead, OnlyIntake
<1>8. Answered'
  BY <1>3, <1>5, <1>6, <1>7 DEF Answered
<1>9. Sole'
  BY DEF Sole
<1>10. ASSUME OnePush PROVE Pushed'
  BY <1>1, <1>2, <1>4, <1>10 DEF WithdrawnInv, Pushed, OnlyIntake
<1> QED
  BY <1>8, <1>9, <1>10 DEF WithdrawnInv, SoleDriver, OnePush

\* An intake takes the approval of the row down before it starts the row over.
LEMMA AnswersIntake ==
  ASSUME WithdrawnInv, FreshInv', Answerable, NEW i \in Intakes, Take(i)
  PROVE  WithdrawnInv'
<1> USE ActorsDiffer DEF Actors
<1>1. /\ TypeOK /\ IntakeAnswers(i) /\ held[i] \in Rows
      /\ \A j \in Intakes \ {i} : ~Busy(j)
  BY DEF WithdrawnInv, FreshInv, AssessedInv, Answered, TypeOK, Take, Answerable
<1>2. CASE ReadReview(i)
  <2>1. /\ OnlyIntake(i) /\ pc[i] = "delivered" /\ pc'[i] = "received"
        /\ UNCHANGED <<row, starts, announced, approvals, lost>>
    BY <1>1, <1>2 DEF ReadReview, Goto, OnlyIntake, TypeOK, host, store
  <2>2. IntakeAnswers(i)'
    BY <2>1 DEF IntakeAnswers, Withdrawing
  <2> QED
    BY <1>1, <2>1, <2>2, AnswersReading
<1>3. CASE ReadHeld(i)
  <2>1. /\ OnlyIntake(i) /\ pc[i] = "received" /\ held'[i] = row
        /\ pc'[i] = IF row.status = "approved" THEN "withdrawing" ELSE "starting"
        /\ UNCHANGED <<row, starts, announced, approvals, lost>>
    BY <1>1, <1>3 DEF ReadHeld, Goto, OnlyIntake, TypeOK, host, store
  <2>2. IntakeAnswers(i)'
    BY <2>1 DEF IntakeAnswers, Withdrawing
  <2> QED
    BY <1>1, <2>1, <2>2, AnswersReading
<1>4. CASE WithdrawHeld(i)
  <2>1. /\ OnlyIntake(i) /\ pc[i] = "withdrawing" /\ held'[i] = held[i] /\ pc'[i] = "reopening"
        /\ UNCHANGED <<row, starts, announced>>
    BY <1>1, <1>4 DEF WithdrawHeld, Withdraw, Goto, OnlyIntake, TypeOK, store
  <2>2. held[i] = row /\ row.status = "approved"
    BY <1>1, <2>1 DEF IntakeAnswers, Withdrawing
  <2>3. \A a \in approvals' \ lost' : a \in approvals \ lost /\ a.id # row.approval
    BY <1>4, <2>2 DEF WithdrawHeld, Withdraw, Withdrawn
  <2>4. IntakeAnswers(i)'
    BY <2>1, <2>2, <2>3 DEF IntakeAnswers, Withdrawing, OnRow
  <2> QED
    BY <1>1, <2>1, <2>3, <2>4, AnswersReading
<1>5. CASE Reopen(i)
  <2>1. /\ OnlyIntake(i) /\ pc[i] = "reopening" /\ held'[i] = held[i] /\ pc'[i] = "recording"
        /\ UNCHANGED <<row, starts, announced, approvals, lost>>
    BY <1>1, <1>5 DEF Reopen, Goto, OnlyIntake, TypeOK, host
  <2>2. IntakeAnswers(i)'
    BY <1>1, <2>1 DEF IntakeAnswers, Withdrawing, OnRow
  <2> QED
    BY <1>1, <2>1, <2>2, AnswersReading
<1>6. CASE RecordWithdrawal(i)
  <2>1. /\ OnlyIntake(i) /\ pc[i] = "recording" /\ pc'[i] = "starting"
        /\ UNCHANGED <<starts, announced, approvals, lost>>
    BY <1>1, <1>6 DEF RecordWithdrawal, Goto, OnlyIntake, TypeOK, host
  <2>2. held[i] = row /\ \A a \in approvals \ lost : ~OnRow(a)
    BY <1>1, <2>1 DEF IntakeAnswers, Withdrawing
  <2>3. row' = [held[i] EXCEPT !.status = "requires_review", !.approval = NoApproval,
                               !.revision = NewRevision]
    BY <1>6, <2>2 DEF RecordWithdrawal
  <2>4. row'.status = "requires_review" /\ row'.revision = NewRevision
    BY <1>1, <2>3 DEF Rows
  <2> QED
    BY <1>1, <2>1, <2>2, <2>4, AnswersWriting DEF Withdrawing
<1>7. CASE Start(i)
  <2>1. /\ OnlyIntake(i) /\ pc[i] = "starting" /\ pc'[i] = "idle"
        /\ starts' = starts + 1 /\ announced' = head /\ UNCHANGED <<approvals, lost>>
        /\ row'.status = "pending" /\ row'.revision = NewRevision
    BY <1>1, <1>7 DEF Start, FreshRow, Goto, OnlyIntake, TypeOK, host
  <2>2. \A a \in approvals \ lost : ~OnRow(a)
    BY <1>1, <2>1 DEF IntakeAnswers, OnRow
  <2> QED
    BY <1>1, <2>1, <2>2, AnswersWriting DEF Withdrawing
<1> QED
  BY <1>2, <1>3, <1>4, <1>5, <1>6, <1>7 DEF Take

\* A push makes the head another one, and has that told.
LEMMA AnswersPush ==
  ASSUME WithdrawnInv, FreshInv', \A i \in Intakes : ~Busy(i), Push
  PROVE  WithdrawnInv'
<1> USE ActorsDiffer DEF Actors
<1>1. TypeOK /\ head \in Nat /\ head >= 1 /\ MaxHeads \in Nat
  BY BoundsAreNat DEF WithdrawnInv, FreshInv, AssessedInv, TypeOK
<1>2. PICK i \in Intakes : pc' = [pc EXCEPT ![i] = "delivered"]
  BY DEF Push, Goto
<1>3. UNCHANGED <<row, starts, announced, approvals, lost, held, next>> /\ Coming'
  BY <1>1, <1>2 DEF Push, store, Coming, TypeOK
<1>4. /\ \A e \in Drivers : pc'[e] = pc[e]
      /\ \A j \in Intakes : (pc'[j] = pc[j] \/ pc'[j] = "delivered") /\ ~Busy(j) /\ ~Busy(j)'
  BY <1>1, <1>2 DEF TypeOK, Busy
<1>5. \A e \in Drivers : DriverAnswers(e)'
  <2> SUFFICES ASSUME NEW e \in Drivers PROVE DriverAnswers(e)'
    OBVIOUS
  <2>1. DriverAnswers(e)
    BY DEF WithdrawnInv, Answered
  <2> QED
    BY <1>3, <1>4, <2>1 DEF DriverAnswers, AtWork, Approving, Carrying, Current
<1>6. \A j \in Intakes : IntakeAnswers(j)'
  BY <1>4 DEF IntakeAnswers, Withdrawing, Busy
<1>7. \A a \in approvals' \ lost' :
        OnRow(a)' \/ (\E e \in Drivers : InHands(e, a)') \/ OfLastHead(a)'
  BY <1>1, <1>3, <1>4 DEF WithdrawnInv, Answered, OnRow, InHands, Carrying, OfLastHead, Push
<1>8. Answered'
  BY <1>3, <1>4, <1>5, <1>6, <1>7 DEF Answered, Current
<1>9. ASSUME SoleDriver PROVE Sole'
  BY <1>3, <1>4, <1>9 DEF WithdrawnInv, Sole
<1>10. ASSUME OnePush PROVE Pushed'
  <2>1. Pushed /\ head' = MaxHeads
    BY <1>1, <1>10 DEF WithdrawnInv, OnePush, Push
  <2>2. \A e \in Drivers : AtWork(e)' <=> AtWork(e)
    BY <1>3, <1>4 DEF AtWork
  <2>3. \A j \in Intakes : pc[j] # "starting"
    BY <1>4 DEF Busy
  <2> QED
    BY <1>3, <1>4, <2>1, <2>2, <2>3 DEF Pushed
<1> QED
  BY <1>8, <1>9, <1>10 DEF WithdrawnInv, SoleDriver, OnePush

\* Every step leaves each approval with somebody who answers for it.
LEMMA AnswersStep == Answerable /\ WithdrawnInv /\ [Next]_vars => WithdrawnInv'
<1> SUFFICES ASSUME Answerable, WithdrawnInv, [Next]_vars PROVE WithdrawnInv'
  OBVIOUS
<1>1. FreshInv'
  BY FreshStep DEF WithdrawnInv
<1>2. Alone => \A i \in Intakes : ~Busy(i)
  BY DEF Alone, Answerable
<1>3. ASSUME NEW i \in Intakes, Take(i) PROVE WithdrawnInv'
  BY <1>1, <1>3, AnswersIntake
<1>4. ASSUME NEW i \in Intakes, Request(i) PROVE FALSE
  BY <1>4 DEF Request, Answerable, WithdrawnInv, FreshInv, AssessedInv, TypeOK
<1>5. ASSUME NEW d \in Drivers, Alone, Drive(d) \/ Step(d) \/ Crash(d) PROVE WithdrawnInv'
  BY <1>1, <1>2, <1>5, AnswersDriver
<1>6. CASE Alone /\ Push
  BY <1>1, <1>2, <1>6, AnswersPush
<1>7. CASE FileRun \/ FinishRun \/ UNCHANGED vars
  <2>1. UNCHANGED <<row, head, starts, announced, approvals, lost, pc, held, next>>
    BY <1>7 DEF FileRun, FinishRun, vars, host, store, actors
  <2>2. /\ \A d \in Drivers : DriverAnswers(d)' <=> DriverAnswers(d)
        /\ \A i \in Intakes : IntakeAnswers(i)' <=> IntakeAnswers(i)
    BY <2>1 DEF DriverAnswers, IntakeAnswers, AtWork, Approving, Carrying, Current, Coming,
       Withdrawing, OnRow
  <2>3. Answered'
    BY <2>1, <2>2 DEF WithdrawnInv, Answered, OnRow, InHands, Carrying, Current, Coming, Busy,
       OfLastHead
  <2>4. (SoleDriver => Sole') /\ (OnePush => Pushed')
    BY <2>1 DEF WithdrawnInv, Sole, Pushed, AtWork, Coming
  <2> QED
    BY <1>1, <2>3, <2>4 DEF WithdrawnInv, SoleDriver, OnePush
<1> QED
  BY <1>3, <1>4, <1>5, <1>6, <1>7 DEF Next

\* docs/risk-policy.md:139-144: once everybody is done, no approval of an older
\* head stands but those the host was not reached about and those that went with
\* their driver: if intakes are taken one at a time, nobody has an approved row
\* assessed again, and one driver is alive at a time or there is one push.
THEOREM OldHeadTakenDown == Answerable => (Spec => []OldHeadWithdrawn)
<1> SUFFICES ASSUME Answerable PROVE Spec => []OldHeadWithdrawn
  OBVIOUS
<1>1. Init => WithdrawnInv
  <2> SUFFICES ASSUME Init PROVE WithdrawnInv
    OBVIOUS
  <2>1. FreshInv
    BY AssessedInit DEF Init, FreshInv, VerdictNotStale, DriverFresh, IntakeFresh, FreshRow, Actors
  <2>2. /\ row.status = "pending" /\ approvals = {} /\ starts = 1
        /\ \A a \in Actors : pc[a] = "idle"
    BY DEF Init, FreshRow
  <2>3. Answered
    BY <2>2 DEF Answered, DriverAnswers, IntakeAnswers, AtWork, Carrying, Withdrawing, Busy, Actors
  <2>4. Sole /\ Pushed
    BY <2>2 DEF Sole, Pushed, Coming, AtWork, Actors
  <2> QED
    BY <2>1, <2>3, <2>4 DEF WithdrawnInv
<1>2. WithdrawnInv => OldHeadWithdrawn
  <2> SUFFICES ASSUME WithdrawnInv, Quiet, NEW a \in approvals \ lost PROVE a.head = head
    BY DEF OldHeadWithdrawn
  <2>1. ~Coming /\ \A d \in Drivers : ~InHands(d, a)
    BY DEF Quiet, Actors, Coming, InHands, Carrying
  <2>2. CASE OnRow(a)
    BY <2>1, <2>2 DEF WithdrawnInv, Answered, OnRow, Current
  <2>3. CASE OfLastHead(a)
    BY <2>3 DEF OfLastHead
  <2> QED
    BY <2>1, <2>2, <2>3 DEF WithdrawnInv, Answered
<1>3. WithdrawnInv /\ [Next]_vars => WithdrawnInv'
  BY AnswersStep
<1> QED
  BY <1>1, <1>2, <1>3, PTL DEF Spec
=============================================================================
