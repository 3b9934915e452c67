------------------------- MODULE AttentionStreamProofs -------------------------
(***************************************************************************)
(* An ask the page has seen closed stays off its list, and a settled page  *)
(* shows what the store holds of every ask it may be held to: for any      *)
(* number of asks, writers, fetches, writes and faults.                    *)
(***************************************************************************)
EXTENDS AttentionStream, FiniteSetTheorems, SequenceTheorems, WellFoundedInduction, TLAPS

-----------------------------------------------------------------------------
(* What is on its way is a version of a row, and of an ask that its stamps   *)
(* order the ledger knows of none that was not written.                      *)

Versions == [ask : Asks, status : Statuses, at : Nat, ver : Nat]
Ledgers == [Asks -> [at : Nat, closed : BOOLEAN]]
Jobs == {IdleJob} \cup [at : {"stamped", "written"}, row : Versions]
Fetching == [at : {"sent", "answered"}, answer : SUBSET Versions, queue : Seq(Versions),
             lost : SUBSET Asks]

StreamTyped ==
  /\ row \in [Asks -> Versions] /\ \A a \in Asks : row[a].ask = a
  /\ job \in [Writers -> Jobs]
  /\ wire \subseteq Versions /\ pipe \in Seq(Versions)
  /\ missed \in [Asks -> Nat]
  /\ listed \subseteq Asks /\ seen \in Ledgers
  /\ fetch \in [Fetches -> {NoFetch} \cup Fetching]
  /\ raced \in Fetches \cup {None}
  /\ raced # None => fetch[raced] # NoFetch

\* An earlier version of an ask. Nothing comes after a closing one, and only a
\* closing one may bear the stamp of the one before it.
Before(r, s) ==
  /\ r.ver < s.ver /\ r.status # "over"
  /\ r.at < s.at \/ (r.at = s.at /\ s.status = "over")

\* A copy of an ask that stands as s: that or an earlier version.
CopyOf(r, s) == r = s \/ Before(r, s)

\* Of any ask, a copy is no newer than the row; and a copy in this sense, if its
\* stamps order it.
Copy(r) ==
  /\ r.ver <= row[r.ask].ver
  /\ r.ask \in unordered \/ CopyOf(r, row[r.ask])

Live == {f \in Fetches : fetch[f] # NoFetch}

CopiesInv ==
  /\ StreamTyped
  /\ \A w \in Writers : job[w].at = "written" => Copy(job[w].row)
  /\ \A r \in wire : Copy(r)
  /\ \A i \in DOMAIN pipe : Copy(pipe[i])
  /\ \A f \in Live :
       /\ \A r \in fetch[f].answer : Copy(r)
       /\ \A i \in DOMAIN fetch[f].queue : Copy(fetch[f].queue[i])

\* A ledger entry for an ask that stands as r: nothing newer, and closed only if
\* r is the closing version.
UpTo(entry, r) ==
  entry.at <= r.at /\ (entry.closed => entry.at = r.at /\ r.status = "over")

\* A fetch answers with one copy of an ask, and only of an open one.
OneOfEach(answer) ==
  /\ answer \subseteq Versions
  /\ \A r \in answer : ListedFor(r)
  /\ \A r, s \in answer : r.ask = s.ask => r = s

LedgerInv ==
  /\ CopiesInv
  /\ \A a \in Asks \ unordered : UpTo(seen[a], row[a]) /\ (seen[a].closed => a \notin listed)
  /\ \A f \in Live : OneOfEach(fetch[f].answer)

-----------------------------------------------------------------------------
(* Where the newest version of an ask is. *)

\* Its event is still to come.
Underway(a) ==
  \/ \E w \in Writers : job[w].at = "written" /\ job[w].row = row[a]
  \/ row[a] \in wire
  \/ \E i \in DOMAIN pipe : pipe[i] = row[a]

\* The page has applied it.
Newest(entry, r) == entry = [at |-> r.at, closed |-> r.status = "over"]
Heard(a) == Newest(seen[a], row[a])

\* It is to come, or was heard, or went astray.
Accounted(a) ==
  /\ missed[a] <= row[a].ver
  /\ Underway(a) \/ Heard(a) \/ missed[a] = row[a].ver

\* What a fetch found of an ask is the row as it stands.
FoundOf(a, answer) == {r \in answer : r.ask = a}
Exact(a, answer) == FoundOf(a, answer) = IF ListedFor(row[a]) THEN {row[a]} ELSE {}

\* A fetch that was answered will show the row, or its event is to come, or is
\* known to be missing from the queue.
WillShow(f, a) ==
  \/ Underway(a) \/ Exact(a, fetch[f].answer)
  \/ \E i \in DOMAIN fetch[f].queue : fetch[f].queue[i] = row[a]
  \/ a \in fetch[f].lost

\* With no fetch to wait for, the page shows the row or its event is to come.
Showing(a) == Underway(a) \/ (a \in listed <=> ListedFor(row[a]))

ShownInv ==
  /\ LedgerInv
  /\ \A a \in Asks \ unordered :
       /\ Accounted(a)
       /\ \A f \in Live : fetch[f].at = "answered" => WillShow(f, a)
       /\ raced = None /\ ~failed /\ a \notin doubt => Showing(a)

-----------------------------------------------------------------------------
(* Events applied one by one. *)

Views == [seen : Ledgers, list : SUBSET Asks]

\* What holds at nought and passes on from each number to the next.
LEMMA Climbs ==
  ASSUME NEW m \in Nat, NEW S \in SUBSET (0 .. m), 0 \in S,
         \A n \in S : n < m => n + 1 \in S
  PROVE  S = 0 .. m
<1> SUFFICES ASSUME 0 .. m \ S # {} PROVE FALSE
  OBVIOUS
<1>1. PICK least \in 0 .. m \ S : \A n \in 0 .. m \ S : ~(<<n, least>> \in OpToRel(<, Nat))
  <2>1. 0 .. m \ S \subseteq Nat
    OBVIOUS
  <2> QED
    BY <2>1, NatLessThanWellFounded, WFMin
<1>2. least # 0 /\ least - 1 \in 0 .. m /\ least - 1 < least
  OBVIOUS
<1>3. least - 1 \in S
  <2>1. least \in Nat /\ least - 1 \in Nat
    BY <1>2
  <2>2. <<least - 1, least>> \in OpToRel(<, Nat)
    BY <1>2, <2>1 DEF OpToRel
  <2> QED
    BY <1>1, <1>2, <2>2
<1> QED
  BY <1>2, <1>3

\* The views that applying some events goes through.
Through(view, events, m, g) ==
  g = [n \in 0 .. m |-> IF n = 0 THEN view ELSE Apply(g[n - 1], events[n])]

\* Applying some events goes through such views and ends with the last of them.
LEMMA GoesThrough ==
  ASSUME NEW view, NEW events, Len(events) \in Nat
  PROVE  \E g : Through(view, events, Len(events), g) /\ ApplyAll(view, events) = g[Len(events)]
<1> DEFINE S == {m \in 0 .. Len(events) : \E g : Through(view, events, m, g)}
<1>1. 0 \in S
  <2>1. Through(view, events, 0, [n \in 0 .. 0 |-> view])
    BY DEF Through
  <2> QED
    BY <2>1
<1>2. ASSUME NEW m \in S, m < Len(events) PROVE m + 1 \in S
  <2>1. PICK g : Through(view, events, m, g)
    BY <1>2
  <2> DEFINE h == [n \in 0 .. m + 1 |-> IF n = m + 1 THEN Apply(g[m], events[m + 1]) ELSE g[n]]
  <2>2. m \in Nat
    OBVIOUS
  <2>3. ASSUME NEW n \in 0 .. m + 1
        PROVE  h[n] = IF n = 0 THEN view ELSE Apply(h[n - 1], events[n])
    BY <2>1, <2>2 DEF Through
  <2>4. Through(view, events, m + 1, h)
    BY <2>2, <2>3 DEF Through
  <2> QED
    BY <1>2, <2>2, <2>4
<1>3. S = 0 .. Len(events)
  BY <1>1, <1>2, Climbs
<1>4. \E g : Through(view, events, Len(events), g)
  BY <1>3
<1> DEFINE after == CHOOSE g : Through(view, events, Len(events), g)
<1>5. Through(view, events, Len(events), after)
  BY <1>4
<1>6. ApplyAll(view, events) = after[Len(events)]
  BY DEF ApplyAll, Through
<1> QED
  BY <1>5, <1>6

\* What every event passes on from one view to the next holds at the end.
LEMMA ApplyAllKeeps ==
  ASSUME NEW events, Len(events) \in Nat,
         NEW Good \in [0 .. Len(events) -> SUBSET Views],
         NEW view \in Good[0],
         \A n \in 1 .. Len(events) : \A v \in Good[n - 1] : Apply(v, events[n]) \in Good[n]
  PROVE  ApplyAll(view, events) \in Good[Len(events)]
<1>1. PICK g : Through(view, events, Len(events), g) /\ ApplyAll(view, events) = g[Len(events)]
  BY GoesThrough
<1> DEFINE S == {n \in 0 .. Len(events) : g[n] \in Good[n]}
<1>2. 0 \in S
  BY <1>1 DEF Through
<1>3. ASSUME NEW n \in S, n < Len(events) PROVE n + 1 \in S
  <2>1. g[n + 1] = Apply(g[n], events[n + 1])
    BY <1>1, <1>3 DEF Through
  <2> QED
    BY <1>3, <2>1
<1>4. S = 0 .. Len(events)
  BY <1>2, <1>3, Climbs
<1> QED
  BY <1>1, <1>4

-----------------------------------------------------------------------------
(* One page and one ask: what an event and a fetch do to it.                 *)

\* Of an ask that stands as r, the page knows nothing newer.
Sound(view, a, r) ==
  UpTo(view.seen[a], r) /\ (view.seen[a].closed => a \notin view.list)

Shows(view, a, r) == a \in view.list <=> ListedFor(r)

\* The statuses that are on the list are none that closes an ask.
LEMMA ListedIsOpen ==
  ASSUME NEW r \in Versions, ListedFor(r)
  PROVE  r.status # "over"
BY DEF ListedFor

\* An event of any ask leaves a view a view.
LEMMA ApplyTyped ==
  ASSUME NEW view \in Views, NEW e \in Versions
  PROVE  /\ Apply(view, e) \in Views
         /\ Stale(view.seen, e) => Apply(view, e) = view
         /\ ~Stale(view.seen, e) => \E entry \in [at : Nat, closed : BOOLEAN] :
              /\ entry.at = e.at /\ (entry.closed <=> e.status = "over")
              /\ entry = [at |-> e.at, closed |-> e.status = "over"]
              /\ Apply(view, e).seen = [view.seen EXCEPT ![e.ask] = entry]
              /\ Apply(view, e).list
                   = IF ListedFor(e) THEN view.list \cup {e.ask} ELSE view.list \ {e.ask}
<1> USE DEF Versions, Views, Ledgers
<1> DEFINE after == Apply(view, e)
<1>1. PICK closing \in BOOLEAN : closing = (e.status = "over")
  <2>1. CASE e.status = "over"
    <3>1. TRUE = (e.status = "over")
      BY <2>1
    <3> QED
      BY <3>1
  <2>2. CASE e.status # "over"
    <3>1. FALSE = (e.status = "over")
      BY <2>2
    <3> QED
      BY <3>1
  <2> QED
    BY <2>1, <2>2
<1> DEFINE entry == [at |-> e.at, closed |-> closing]
<1>2. entry \in [at : Nat, closed : BOOLEAN] /\ entry.at = e.at /\ (entry.closed <=> e.status = "over")
  BY <1>1
<1>3. Remember(view.seen, e) =
        IF Stale(view.seen, e) THEN view.seen ELSE [view.seen EXCEPT ![e.ask] = entry]
  BY <1>1 DEF Remember
<1>4. CASE Stale(view.seen, e)
  BY <1>4 DEF Apply
<1>5. CASE ~Stale(view.seen, e)
  <2>1. /\ after.seen = [view.seen EXCEPT ![e.ask] = entry]
        /\ after.list = IF ListedFor(e) THEN view.list \cup {e.ask} ELSE view.list \ {e.ask}
    BY <1>3, <1>5 DEF Apply
  <2>2. after = [seen |-> after.seen, list |-> after.list]
    BY <1>5 DEF Apply
  <2>3. after.seen \in Ledgers /\ after.list \in SUBSET Asks
    BY <1>2, <2>1
  <2>4. entry = [at |-> e.at, closed |-> e.status = "over"]
    BY <1>1
  <2> HIDE DEF after, entry
  <2>5. after \in Views
    BY <2>2, <2>3
  <2> QED
    BY <1>2, <1>5, <2>1, <2>4, <2>5 DEF after
<1> QED
  BY <1>4, <1>5

\* An event that is a copy of an ask leaves the page with nothing newer; what
\* it knew of the newest version stays, and the newest version is shown.
LEMMA ApplyCopy ==
  ASSUME NEW view \in Views, NEW a \in Asks, NEW r \in Versions, r.ask = a, Sound(view, a, r),
         NEW e \in Versions, e.ask = a => CopyOf(e, r)
  PROVE  LET after == Apply(view, e) IN
         /\ after \in Views /\ Sound(after, a, r)
         /\ Newest(view.seen[a], r) => Newest(after.seen[a], r)
         /\ e = r => Newest(after.seen[a], r) /\ Shows(after, a, r)
         /\ Shows(view, a, r) /\ (Newest(view.seen[a], r) \/ e.ask # a) => Shows(after, a, r)
<1> USE DEF Versions, Views, Ledgers, Sound, UpTo, Newest, Shows, CopyOf, Before
<1> DEFINE after == Apply(view, e)
           closes == e.status = "over"
<1>1. after \in Views
  BY ApplyTyped
<1>3. CASE Stale(view.seen, e)
  <2>1. after = view
    BY <1>3, ApplyTyped
  <2>2. e # r
    BY <1>3 DEF Stale
  <2> QED
    BY <2>1, <2>2
<1>4. CASE ~Stale(view.seen, e)
  <2>1. PICK entry \in [at : Nat, closed : BOOLEAN] :
          /\ entry.at = e.at /\ (entry.closed <=> closes)
          /\ entry = [at |-> e.at, closed |-> e.status = "over"]
          /\ after.seen = [view.seen EXCEPT ![e.ask] = entry]
          /\ after.list = IF ListedFor(e) THEN view.list \cup {e.ask} ELSE view.list \ {e.ask}
    BY <1>4, ApplyTyped
  <2>2. after \in Views
    BY <1>1
  <2>3. CASE e.ask # a
    <3>1. after.seen[a] = view.seen[a] /\ (a \in after.list <=> a \in view.list)
      BY <2>1, <2>3
    <3>2. e # r
      BY <2>3
    <3> QED
      BY <2>2, <2>3, <3>1, <3>2
  <2>4. CASE e.ask = a
    <3>1. after.seen[a] = entry /\ (a \in after.list <=> ListedFor(e))
      BY <2>1, <2>4
    <3>2. CASE e = r
      <4>1. Newest(after.seen[a], r)
        BY <2>1, <3>1, <3>2
      <4>2. Shows(after, a, r) /\ UpTo(after.seen[a], r)
        BY <2>1, <3>1, <3>2
      <4>3. after.seen[a].closed => a \notin after.list
        BY <2>1, <3>1, ListedIsOpen
      <4> QED
        BY <2>2, <3>2, <4>1, <4>2, <4>3
    <3>3. CASE e # r
      <4>1. Before(e, r) /\ ~closes
        BY <2>4, <3>3
      <4>2. ~Newest(view.seen[a], r)
        <5>1. ASSUME Newest(view.seen[a], r) PROVE FALSE
          <6>1. view.seen[a].at = r.at /\ (r.status = "over" => view.seen[a].closed)
            BY <5>1
          <6> QED
            BY <1>4, <2>4, <4>1, <6>1 DEF Stale
        <5> QED
          BY <5>1
      <4>3. UpTo(after.seen[a], r) /\ ~after.seen[a].closed
        BY <2>1, <3>1, <4>1
      <4> QED
        BY <2>2, <2>4, <3>3, <4>2, <4>3
    <3> QED
      BY <3>2, <3>3
  <2> QED
    BY <2>3, <2>4
<1> QED
  BY <1>3, <1>4

\* The view a fetch leaves before the events that arrived meanwhile are applied.
Base(ledger, answer) ==
  [list |-> {r.ask : r \in {q \in answer : ListedFor(q) /\ ~Stale(ledger, q)}},
   seen |-> [a \in Asks |->
               IF \E r \in answer : r.ask = a
               THEN Remember(ledger, CHOOSE r \in answer : r.ask = a)[a] ELSE ledger[a]]]

\* A ledger that remembers a version knows that version, or one no older.
LEMMA Remembers ==
  ASSUME NEW ledger \in Ledgers, NEW e \in Versions, e.status # "over"
  PROVE  /\ Remember(ledger, e) \in Ledgers
         /\ Stale(ledger, e) => Remember(ledger, e) = ledger
         /\ ~Stale(ledger, e) => Remember(ledger, e)[e.ask] = [at |-> e.at, closed |-> FALSE]
<1>1. e.ask \in Asks /\ e.at \in Nat /\ FALSE = (e.status = "over")
  BY DEF Versions
<1>2. [at |-> e.at, closed |-> FALSE] \in [at : Nat, closed : BOOLEAN]
  BY <1>1
<1>3. Remember(ledger, e) = IF Stale(ledger, e) THEN ledger
                            ELSE [ledger EXCEPT ![e.ask] = [at |-> e.at, closed |-> FALSE]]
  BY <1>1 DEF Remember
<1> QED
  BY <1>1, <1>2, <1>3 DEF Ledgers

\* What a fetch found makes a view.
LEMMA BaseTyped ==
  ASSUME NEW ledger \in Ledgers, NEW answer, OneOfEach(answer)
  PROVE  Base(ledger, answer) \in Views
<1> DEFINE base == Base(ledger, answer)
           pick(b) == CHOOSE e \in answer : e.ask = b
<1>1. ASSUME NEW b \in Asks, \E e \in answer : e.ask = b
      PROVE  /\ pick(b) \in answer /\ pick(b).ask = b
             /\ \A e \in answer : e.ask = b => e = pick(b)
             /\ pick(b) \in Versions /\ pick(b).status # "over"
  <2>1. pick(b) \in answer /\ pick(b).ask = b
    BY <1>1
  <2> QED
    BY <2>1, ListedIsOpen DEF OneOfEach
<1>2. base.list \in SUBSET Asks
  BY DEF Base, OneOfEach, Versions
<1>3. base.seen \in Ledgers
  <2> SUFFICES ASSUME NEW b \in Asks PROVE base.seen[b] \in [at : Nat, closed : BOOLEAN]
    BY DEF Base, Ledgers
  <2>1. CASE \E e \in answer : e.ask = b
    <3>1. Remember(ledger, pick(b)) \in Ledgers
      BY <1>1, <2>1, Remembers
    <3>2. base.seen[b] = Remember(ledger, pick(b))[b]
      BY <2>1 DEF Base
    <3> QED
      BY <3>1, <3>2 DEF Ledgers
  <2>2. CASE ~ \E e \in answer : e.ask = b
    BY <2>2 DEF Base, Ledgers
  <2> QED
    BY <2>1, <2>2
<1> QED
  BY <1>2, <1>3 DEF Base, Views

\* What a fetch found leaves the page with nothing newer than the row, and shows
\* the row if that is what it found.
LEMMA BaseIs ==
  ASSUME NEW ledger \in Ledgers, NEW answer, OneOfEach(answer),
         NEW a \in Asks, NEW r \in Versions, r.ask = a, UpTo(ledger[a], r),
         \A e \in answer : e.ask = a => CopyOf(e, r)
  PROVE  LET base == Base(ledger, answer) IN
         /\ base \in Views /\ Sound(base, a, r)
         /\ Newest(ledger[a], r) => Newest(base.seen[a], r)
         /\ FoundOf(a, answer) = (IF ListedFor(r) THEN {r} ELSE {}) => Shows(base, a, r)
<1> DEFINE base == Base(ledger, answer)
           pick(b) == CHOOSE e \in answer : e.ask = b
<1>1. ASSUME NEW b \in Asks, \E e \in answer : e.ask = b
      PROVE  /\ pick(b) \in answer /\ pick(b).ask = b
             /\ \A e \in answer : e.ask = b => e = pick(b)
             /\ pick(b) \in Versions /\ pick(b).status # "over"
  <2>1. pick(b) \in answer /\ pick(b).ask = b
    BY <1>1
  <2> QED
    BY <2>1, ListedIsOpen DEF OneOfEach
<1>4. base \in Views
  BY BaseTyped
<1>5. CASE ~ \E e \in answer : e.ask = a
  <2>1. base.seen[a] = ledger[a] /\ a \notin base.list
    BY <1>5 DEF Base
  <2>2. FoundOf(a, answer) = {}
    BY <1>5 DEF FoundOf
  <2> QED
    BY <1>4, <2>1, <2>2 DEF Sound, Shows
<1>6. CASE \E e \in answer : e.ask = a
  <2> DEFINE e == pick(a)
  <2>1. /\ e \in answer /\ e.ask = a /\ e \in Versions /\ e.status # "over"
        /\ FoundOf(a, answer) = {e} /\ CopyOf(e, r) /\ ListedFor(e)
    BY <1>1, <1>6 DEF FoundOf, OneOfEach
  <2>2. base.seen[a] = Remember(ledger, e)[a] /\ (a \in base.list <=> ~Stale(ledger, e))
    BY <1>1, <1>6, <2>1 DEF Base, OneOfEach
  <2> HIDE DEF e
  <2>3. CASE Stale(ledger, e)
    <3>1. base.seen[a] = ledger[a] /\ a \notin base.list
      BY <2>1, <2>2, <2>3, Remembers
    <3>2. e # r
      BY <2>1, <2>3 DEF Stale, UpTo, Versions, Ledgers
    <3>3. FoundOf(a, answer) # (IF ListedFor(r) THEN {r} ELSE {})
      BY <2>1, <3>2
    <3> QED
      BY <1>4, <3>1, <3>3 DEF Sound
  <2>4. CASE ~Stale(ledger, e)
    <3>1. base.seen[a] = [at |-> e.at, closed |-> FALSE] /\ a \in base.list
      BY <2>1, <2>2, <2>4, Remembers
    <3>2. e.at <= r.at
      BY <2>1 DEF CopyOf, Before, Versions
    <3>3. Sound(base, a, r)
      BY <3>1, <3>2 DEF Sound, UpTo
    <3>4. Newest(ledger[a], r) => e = r
      BY <2>1, <2>4 DEF Newest, Stale, CopyOf, Before, Versions, Ledgers
    <3>5. e = r => Newest(base.seen[a], r)
      <4>1. e = r => FALSE = (r.status = "over")
        BY <2>1
      <4> QED
        BY <3>1, <4>1 DEF Newest
    <3>6. FoundOf(a, answer) = (IF ListedFor(r) THEN {r} ELSE {}) => Shows(base, a, r)
      BY <2>1, <3>1 DEF Shows
    <3> QED
      BY <1>4, <3>3, <3>4, <3>5, <3>6
  <2> QED
    BY <2>3, <2>4
<1> QED
  BY <1>5, <1>6

\* What a fetch ends with is a view.
LEMMA MergedTyped ==
  ASSUME NEW ledger \in Ledgers, NEW answer, OneOfEach(answer), NEW queue \in Seq(Versions)
  PROVE  Merged(ledger, answer, queue) \in Views
<1> DEFINE base == Base(ledger, answer)
           Good == [n \in 0 .. Len(queue) |-> Views]
<1>1. Merged(ledger, answer, queue) = ApplyAll(base, queue)
  BY DEF Merged, Base
<1>2. base \in Views
  BY BaseTyped
<1> HIDE DEF base
<1>3. Len(queue) \in Nat /\ Good \in [0 .. Len(queue) -> SUBSET Views] /\ base \in Good[0]
  BY <1>2
<1>4. ASSUME NEW n \in 1 .. Len(queue), NEW v \in Good[n - 1]
      PROVE  Apply(v, queue[n]) \in Good[n]
  <2>1. queue[n] \in Versions /\ v \in Views /\ Good[n] = Views
    OBVIOUS
  <2> QED
    BY <2>1, ApplyTyped
<1> HIDE DEF Good
<1>5. ApplyAll(base, queue) \in Good[Len(queue)]
  BY <1>3, <1>4, ApplyAllKeeps
<1> QED
  BY <1>1, <1>3, <1>5 DEF Good

\* The view once a fetch has ended: nothing newer than the row; and the row
\* itself, if its event arrived meanwhile, or if the fetch found the row and
\* nothing older can be applied after it.
LEMMA MergedIs ==
  ASSUME NEW ledger \in Ledgers, NEW answer, OneOfEach(answer), NEW queue \in Seq(Versions),
         NEW a \in Asks, NEW r \in Versions, r.ask = a, UpTo(ledger[a], r),
         \A e \in answer : e.ask = a => CopyOf(e, r),
         \A i \in DOMAIN queue : queue[i].ask = a => CopyOf(queue[i], r)
  PROVE  LET view == Merged(ledger, answer, queue) IN
         /\ view \in Views /\ Sound(view, a, r)
         /\ Newest(ledger[a], r) => Newest(view.seen[a], r)
         /\ (\E i \in DOMAIN queue : queue[i] = r) => Newest(view.seen[a], r) /\ Shows(view, a, r)
         /\ FoundOf(a, answer) = (IF ListedFor(r) THEN {r} ELSE {})
            /\ (Newest(ledger[a], r) \/ \A i \in DOMAIN queue : queue[i].ask = a => queue[i] = r)
              => Shows(view, a, r)
<1> DEFINE view == Merged(ledger, answer, queue)
           base == Base(ledger, answer)
           Fine == {v \in Views : Sound(v, a, r)}
<1>1. view = ApplyAll(base, queue)
  BY DEF Merged, Base
<1>2. base \in Fine
  BY BaseIs
<1>3. Len(queue) \in Nat /\ \A i \in 1 .. Len(queue) : i \in DOMAIN queue /\ queue[i] \in Versions
  OBVIOUS
<1> HIDE DEF view, base
<1>4. ASSUME NEW v \in Fine, NEW i \in 1 .. Len(queue)
      PROVE  /\ Apply(v, queue[i]) \in Fine
             /\ Newest(v.seen[a], r) => Newest(Apply(v, queue[i]).seen[a], r)
             /\ queue[i] = r => /\ Newest(Apply(v, queue[i]).seen[a], r)
                                /\ Shows(Apply(v, queue[i]), a, r)
             /\ Shows(v, a, r) /\ (Newest(v.seen[a], r) \/ queue[i].ask # a)
                  => Shows(Apply(v, queue[i]), a, r)
  BY <1>3, ApplyCopy
<1>5. view \in Fine
  <2> DEFINE Good == [n \in 0 .. Len(queue) |-> Fine]
  <2>1. Good \in [0 .. Len(queue) -> SUBSET Views]
    OBVIOUS
  <2>2. \A n \in 1 .. Len(queue) : \A v \in Good[n - 1] : Apply(v, queue[n]) \in Good[n]
    BY <1>4
  <2>3. base \in Good[0]
    BY <1>2, <1>3
  <2> HIDE DEF Good
  <2>4. view \in Good[Len(queue)]
    BY <1>1, <1>3, <2>1, <2>2, <2>3, ApplyAllKeeps
  <2> QED
    BY <1>3, <2>4 DEF Good
<1>6. ASSUME Newest(ledger[a], r) PROVE Newest(view.seen[a], r)
  <2> DEFINE Known == {v \in Fine : Newest(v.seen[a], r)}
             Good == [n \in 0 .. Len(queue) |-> Known]
  <2>1. Good \in [0 .. Len(queue) -> SUBSET Views]
    OBVIOUS
  <2>2. \A n \in 1 .. Len(queue) : \A v \in Good[n - 1] : Apply(v, queue[n]) \in Good[n]
    BY <1>4
  <2>3. base \in Good[0]
    BY <1>2, <1>3, <1>6, BaseIs DEF base
  <2> HIDE DEF Good
  <2>4. view \in Good[Len(queue)]
    BY <1>1, <1>3, <2>1, <2>2, <2>3, ApplyAllKeeps
  <2> QED
    BY <1>3, <2>4 DEF Good
<1>7. ASSUME NEW i \in DOMAIN queue, queue[i] = r
      PROVE  Newest(view.seen[a], r) /\ Shows(view, a, r)
  <2> DEFINE Shown == {v \in Fine : Newest(v.seen[a], r) /\ Shows(v, a, r)}
             Good == [n \in 0 .. Len(queue) |-> IF n < i THEN Fine ELSE Shown]
  <2>1. Good \in [0 .. Len(queue) -> SUBSET Views]
    OBVIOUS
  <2>2. ASSUME NEW n \in 1 .. Len(queue), NEW v \in Good[n - 1] PROVE Apply(v, queue[n]) \in Good[n]
    <3>1. i \in 1 .. Len(queue) /\ n - 1 \in 0 .. Len(queue) /\ n \in 0 .. Len(queue)
      BY <1>3
    <3>2. CASE n < i
      BY <1>4, <2>2, <3>1, <3>2
    <3>3. CASE n = i
      BY <1>4, <1>7, <2>2, <3>1, <3>3
    <3>4. CASE i < n
      BY <1>4, <2>2, <3>1, <3>4
    <3> QED
      BY <3>1, <3>2, <3>3, <3>4
  <2>3. base \in Good[0]
    BY <1>2, <1>3
  <2> HIDE DEF Good
  <2>4. view \in Good[Len(queue)]
    BY <1>1, <1>3, <2>1, <2>2, <2>3, ApplyAllKeeps
  <2> QED
    BY <1>3, <2>4 DEF Good
<1>8. ASSUME FoundOf(a, answer) = (IF ListedFor(r) THEN {r} ELSE {}), Newest(ledger[a], r)
      PROVE  Shows(view, a, r)
  <2> DEFINE Shown == {v \in Fine : Newest(v.seen[a], r) /\ Shows(v, a, r)}
             Good == [n \in 0 .. Len(queue) |-> Shown]
  <2>1. Good \in [0 .. Len(queue) -> SUBSET Views]
    OBVIOUS
  <2>2. \A n \in 1 .. Len(queue) : \A v \in Good[n - 1] : Apply(v, queue[n]) \in Good[n]
    BY <1>4
  <2>3. base \in Good[0]
    BY <1>2, <1>3, <1>8, BaseIs DEF base
  <2> HIDE DEF Good
  <2>4. view \in Good[Len(queue)]
    BY <1>1, <1>3, <2>1, <2>2, <2>3, ApplyAllKeeps
  <2> QED
    BY <1>3, <2>4 DEF Good
<1>9. ASSUME FoundOf(a, answer) = (IF ListedFor(r) THEN {r} ELSE {}),
             \A i \in DOMAIN queue : queue[i].ask = a => queue[i] = r
      PROVE  Shows(view, a, r)
  <2> DEFINE Shown == {v \in Fine : Shows(v, a, r)}
             Good == [n \in 0 .. Len(queue) |-> Shown]
  <2>1. Good \in [0 .. Len(queue) -> SUBSET Views]
    OBVIOUS
  <2>2. \A n \in 1 .. Len(queue) : \A v \in Good[n - 1] : Apply(v, queue[n]) \in Good[n]
    BY <1>3, <1>4, <1>9
  <2>3. base \in Good[0]
    BY <1>2, <1>3, <1>9, BaseIs DEF base
  <2> HIDE DEF Good
  <2>4. view \in Good[Len(queue)]
    BY <1>1, <1>3, <2>1, <2>2, <2>3, ApplyAllKeeps
  <2> QED
    BY <1>3, <2>4 DEF Good
<1> QED
  BY <1>5, <1>6, <1>7, <1>8, <1>9 DEF view

-----------------------------------------------------------------------------
(* What the steps do to the rows, to what was missed and to the fetches.     *)

\* A copy of an ask remains one when its row moves on, and what the ledger knows
\* stays no newer than the row.
LEMMA CopyStays ==
  ASSUME NEW r \in Versions, NEW s \in Versions, CopyOf(r, s)
  PROVE  /\ \A e \in Versions : CopyOf(e, r) => CopyOf(e, s)
         /\ \A entry \in [at : Nat, closed : BOOLEAN] : UpTo(entry, r) => UpTo(entry, s)
BY DEF Versions, CopyOf, Before, UpTo

\* A bounded set of numbers has a greatest.
LEMMA Greatest ==
  ASSUME NEW S \in SUBSET Nat, S # {}, NEW bound \in Nat, \A n \in S : n <= bound
  PROVE  Max(S) \in S /\ \A n \in S : n <= Max(S)
<1> DEFINE below == {k \in Nat : bound - k \in S}
<1>1. below # {}
  <2>1. PICK n \in S : TRUE
    OBVIOUS
  <2>2. n \in Nat /\ bound - n \in Nat /\ bound - (bound - n) = n
    BY <2>1
  <2> QED
    BY <2>1, <2>2
<1>2. PICK least \in below : \A k \in below : ~(<<k, least>> \in OpToRel(<, Nat))
  BY <1>1, NatLessThanWellFounded, WFMin
<1>3. \A k \in below : ~(k < least)
  BY <1>2 DEF OpToRel
<1>4. ASSUME NEW n \in S PROVE bound - least >= n
  <2>1. n \in Nat /\ bound - n \in below
    BY <1>4
  <2>2. ~(bound - n < least) /\ least \in Nat
    BY <1>3, <2>1
  <2> QED
    BY <2>1, <2>2
<1>5. bound - least \in S
  OBVIOUS
<1>6. \E x \in S : \A n \in S : x >= n
  BY <1>4, <1>5
<1>7. Max(S) \in S /\ \A n \in S : Max(S) >= n
  BY <1>6 DEF Max
<1> QED
  BY <1>7

\* What is missed of an ask grows to the newest of the events that went astray.
LEMMA MissedIs ==
  ASSUME StreamTyped, NEW events \in SUBSET Versions, \A e \in events : Copy(e), GoAstray(events)
  PROVE  /\ missed' \in [Asks -> Nat]
         /\ \A a \in Asks :
              /\ missed[a] <= missed'[a]
              /\ missed'[a] = missed[a] \/ \E e \in events : e.ask = a /\ missed'[a] = e.ver
         /\ \A e \in events : e.ver <= missed'[e.ask]
<1> DEFINE known(a) == {missed[a]} \cup {r.ver : r \in {e \in events : e.ask = a}}
<1>1. ASSUME NEW a \in Asks
      PROVE  Max(known(a)) \in known(a) /\ \A n \in known(a) : n <= Max(known(a))
  <2>1. missed[a] \in Nat /\ row[a].ver \in Nat /\ \A e \in events : e.ver \in Nat
    BY DEF StreamTyped, Versions
  <2>2. \A e \in events : e.ask = a => e.ver <= row[a].ver
    BY DEF Copy
  <2> DEFINE bound == missed[a] + row[a].ver
  <2>3. known(a) \in SUBSET Nat /\ known(a) # {} /\ bound \in Nat
    <3>1. \A r \in {e \in events : e.ask = a} : r.ver \in Nat
      BY <2>1
    <3>2. \A n \in known(a) : n \in Nat
      BY <2>1, <3>1
    <3>3. missed[a] \in known(a)
      OBVIOUS
    <3> HIDE DEF known
    <3> QED
      BY <2>1, <3>2, <3>3
  <2>4. \A n \in known(a) : n <= bound
    BY <2>1, <2>2
  <2> HIDE DEF known, bound
  <2> QED
    BY <2>3, <2>4, Greatest
<1>2. missed' = [a \in Asks |-> Max(known(a))]
  BY DEF GoAstray
<1>3. missed \in [Asks -> Nat] /\ \A e \in events : e.ask \in Asks /\ e.ver \in Nat
  BY DEF StreamTyped, Versions
<1>4. ASSUME NEW a \in Asks
      PROVE  /\ missed'[a] \in Nat /\ missed[a] <= missed'[a]
             /\ missed'[a] = missed[a] \/ \E e \in events : e.ask = a /\ missed'[a] = e.ver
             /\ \A e \in events : e.ask = a => e.ver <= missed'[a]
  <2>1. missed'[a] \in known(a) /\ \A n \in known(a) : n <= missed'[a]
    <3> HIDE DEF known
    <3> QED
      BY <1>1, <1>2
  <2>2. missed'[a] \in Nat
    BY <1>3, <2>1
  <2> QED
    BY <2>1, <2>2
<1> QED
  BY <1>2, <1>3, <1>4

\* A fetch that is sent has found nothing and has nothing to apply.
LEMMA SentIs ==
  /\ Sent \in Fetching /\ Sent # NoFetch /\ Sent.at = "sent"
  /\ Sent.answer = {} /\ Sent.queue = <<>> /\ OneOfEach(Sent.answer)
BY EmptySeq DEF Sent, Fetching, NoFetch, OneOfEach

\* A fetch whose queue will not hold some events is as it was otherwise.
LEMMA UnqueuedIs ==
  ASSUME StreamTyped, NEW fetches \in SUBSET Fetches, NEW events \in SUBSET Versions
  PROVE  LET now == Unqueued(fetches, events) IN
         /\ now \in [Fetches -> {NoFetch} \cup Fetching]
         /\ \A f \in Fetches : now[f] = NoFetch <=> fetch[f] = NoFetch
         /\ \A f \in Live :
              /\ now[f].at = fetch[f].at /\ now[f].answer = fetch[f].answer
              /\ now[f].queue = fetch[f].queue /\ fetch[f].lost \subseteq now[f].lost
              /\ f \in fetches /\ fetch[f].at = "answered" => AsksOf(events) \subseteq now[f].lost
<1> DEFINE now == Unqueued(fetches, events)
<1>1. AsksOf(events) \subseteq Asks
  BY DEF AsksOf, Versions
<1>2. ASSUME NEW f \in Fetches
      PROVE  /\ now[f] \in {NoFetch} \cup Fetching /\ (now[f] = NoFetch <=> fetch[f] = NoFetch)
             /\ f \in Live =>
                  /\ now[f].at = fetch[f].at /\ now[f].answer = fetch[f].answer
                  /\ now[f].queue = fetch[f].queue /\ fetch[f].lost \subseteq now[f].lost
                  /\ f \in fetches /\ fetch[f].at = "answered"
                       => AsksOf(events) \subseteq now[f].lost
  <2>1. CASE f \in fetches /\ fetch[f].at = "answered"
    <3> DEFINE one == [fetch[f] EXCEPT !.lost = @ \cup AsksOf(events)]
    <3>1. fetch[f] \in Fetching
      BY <2>1 DEF StreamTyped, NoFetch
    <3>2. /\ one \in Fetching /\ one.at = fetch[f].at /\ one.answer = fetch[f].answer
          /\ one.queue = fetch[f].queue /\ one.lost = fetch[f].lost \cup AsksOf(events)
      BY <1>1, <3>1 DEF Fetching
    <3>3. now[f] = one
      BY <2>1 DEF Unqueued
    <3>4. one # NoFetch /\ fetch[f] # NoFetch
      <4> HIDE DEF one
      <4> QED
        BY <3>1, <3>2, <2>1 DEF NoFetch
    <3> HIDE DEF one, now
    <3> QED
      BY <3>2, <3>3, <3>4
  <2>2. CASE ~(f \in fetches /\ fetch[f].at = "answered")
    <3>1. now[f] = fetch[f]
      BY <2>2 DEF Unqueued
    <3> HIDE DEF now
    <3> QED
      BY <2>2, <3>1 DEF StreamTyped
  <2> QED
    BY <2>1, <2>2
<1>3. now \in [Fetches -> {NoFetch} \cup Fetching]
  BY <1>2 DEF Unqueued
<1> HIDE DEF now
<1>4. Live \subseteq Fetches
  BY DEF Live
<1> QED
  BY <1>2, <1>3, <1>4 DEF now

\* What goes astray leaves every fetch as it was but for what it knows to miss.
LEMMA AstrayIs ==
  ASSUME StreamTyped, NEW events \in SUBSET Versions, GoAstray(events)
  PROVE  /\ fetch' \in [Fetches -> {NoFetch} \cup Fetching] /\ Live' = Live
         /\ \A f \in Fetches : fetch'[f] = NoFetch <=> fetch[f] = NoFetch
         /\ \A f \in Live :
              /\ fetch'[f].at = fetch[f].at /\ fetch'[f].answer = fetch[f].answer
              /\ fetch'[f].queue = fetch[f].queue /\ fetch[f].lost \subseteq fetch'[f].lost
              /\ fetch[f].at = "answered" => AsksOf(events) \subseteq fetch'[f].lost
<1>1. fetch' = Unqueued(Fetches, events)
  BY DEF GoAstray
<1>2. Live \subseteq Fetches
  BY DEF Live
<1>3. /\ fetch' \in [Fetches -> {NoFetch} \cup Fetching]
      /\ \A f \in Fetches : fetch'[f] = NoFetch <=> fetch[f] = NoFetch
      /\ \A f \in Live :
           /\ fetch'[f].at = fetch[f].at /\ fetch'[f].answer = fetch[f].answer
           /\ fetch'[f].queue = fetch[f].queue /\ fetch[f].lost \subseteq fetch'[f].lost
           /\ f \in Fetches /\ fetch[f].at = "answered" => AsksOf(events) \subseteq fetch'[f].lost
  BY <1>1, UnqueuedIs
<1>4. Live' = Live
  BY <1>3 DEF Live
<1> QED
  BY <1>2, <1>3, <1>4

\* The row moves on by one version, stamped after the one before it.
Moves(w, b, new) ==
  /\ new.ask = b /\ new.ver = row[b].ver + 1
  /\ Before(row[b], new) \/ b \in unordered'
  /\ row' = [row EXCEPT ![b] = new]
  /\ job' = [job EXCEPT ![w] = [at |-> "written", row |-> new]]

\* A version with another number.
LEMMA Renumbered ==
  ASSUME NEW r \in Versions, NEW ver \in Nat
  PROVE  LET new == [r EXCEPT !.ver = ver] IN
         /\ new \in Versions /\ new.ask = r.ask /\ new.status = r.status
         /\ new.at = r.at /\ new.ver = ver
BY DEF Versions

\* A write comes to nothing, or the row moves on.
LEMMA WriteIs ==
  ASSUME StreamTyped, NEW w \in Writers, Write(w)
  PROVE  /\ unordered \subseteq unordered'
         /\ \/ row' = row /\ job' = [job EXCEPT ![w] = IdleJob]
            \/ \E b \in Asks, new \in Versions : Moves(w, b, new)
<1> DEFINE r == job[w].row
<1>1. r \in Versions
  <2>1. job[w] \in Jobs /\ job[w].at = "stamped"
    BY DEF Write, StreamTyped
  <2> QED
    BY <2>1 DEF Jobs, IdleJob
<1>2. CASE ~Follows(row[r.ask].status, r.status)
  BY <1>2 DEF Write
<1>3. CASE Follows(row[r.ask].status, r.status)
  <2> DEFINE b == r.ask
             new == [r EXCEPT !.ver = row[b].ver + 1]
  <2>1. /\ row' = [row EXCEPT ![b] = new]
        /\ job' = [job EXCEPT ![w] = [at |-> "written", row |-> row'[b]]]
        /\ unordered' = IF InTurn(r) THEN unordered ELSE unordered \cup {b}
    BY <1>3 DEF Write
  <2>2. b \in Asks /\ row[b] \in Versions /\ row[b].ver \in Nat /\ row[b].ver + 1 \in Nat
    BY <1>1 DEF StreamTyped, Versions
  <2>3. /\ new \in Versions /\ new.ask = b /\ new.status = r.status
        /\ new.at = r.at /\ new.ver = row[b].ver + 1
    BY <1>1, <2>2, Renumbered
  <2>4. row[b].status # "over"
    BY <1>3 DEF Follows
  <2> HIDE DEF new
  <2>5. row' = [row EXCEPT ![b] = new] /\ row'[b] = new
    BY <2>1, <2>2 DEF StreamTyped
  <2>6. InTurn(r) => Before(row[b], new)
    BY <1>1, <2>2, <2>3, <2>4 DEF Before, InTurn, Versions
  <2>7. Moves(w, b, new) /\ unordered \subseteq unordered'
    BY <2>1, <2>3, <2>5, <2>6 DEF Moves
  <2> HIDE DEF b
  <2> QED
    BY <2>2, <2>3, <2>7
<1> QED
  BY <1>2, <1>3

-----------------------------------------------------------------------------
(* The ledger knows of nothing newer than the row: what leaves rows and       *)
(* ledger alone first, then one lemma for each other step.                    *)

\* A page that has fetched nothing knows of nothing.
LEMMA LedgerInit == Init => LedgerInv
<1> SUFFICES ASSUME Init PROVE LedgerInv
  OBVIOUS
<1>1. \A a \in Asks : Unraised(a) \in Versions /\ Unraised(a).ask = a
  BY DEF Unraised, Versions, Statuses
<1>2. row \in [Asks -> Versions] /\ \A a \in Asks : row[a] = Unraised(a)
  BY <1>1 DEF Init
<1>3. /\ raced \in Fetches /\ raced # None
      /\ fetch = [f \in Fetches |-> IF f = raced THEN Sent ELSE NoFetch]
  BY FetchesAssumption DEF Init, AnyOf
<1>4. fetch \in [Fetches -> {NoFetch} \cup Fetching] /\ fetch[raced] # NoFetch
  BY <1>3, SentIs
<1>5. seen \in Ledgers /\ \A a \in Asks : seen[a] = [at |-> 0, closed |-> FALSE]
  BY DEF Init, Ledgers, Unseen
<1>6. StreamTyped
  <2>1. job \in [Writers -> Jobs] /\ missed \in [Asks -> Nat]
    BY DEF Init, Jobs
  <2>2. pipe \in Seq(Versions) /\ wire \subseteq Versions /\ listed \subseteq Asks
    BY EmptySeq DEF Init
  <2> QED
    BY <1>1, <1>2, <1>3, <1>4, <1>5, <2>1, <2>2 DEF StreamTyped
<1>7. \A f \in Live : fetch[f].answer = {} /\ fetch[f].queue = <<>>
  BY <1>3 DEF Live, Sent
<1>8. CopiesInv
  <2>1. \A w \in Writers : job[w].at # "written"
    BY DEF Init, IdleJob
  <2>2. wire = {} /\ DOMAIN pipe = {}
    BY DEF Init
  <2> QED
    BY <1>6, <1>7, <2>1, <2>2 DEF CopiesInv
<1> QED
  BY <1>2, <1>5, <1>7, <1>8 DEF LedgerInv, UpTo, OneOfEach, Unraised

\* A step that leaves rows and ledger alone, and puts nothing on its way that is
\* no copy, leaves the ledger with nothing newer.
LEMMA LedgerKeeps ==
  ASSUME LedgerInv, StreamTyped', UNCHANGED <<row, listed, seen>>, unordered \subseteq unordered',
         \A v \in Writers : job'[v].at = "written" => job'[v] = job[v],
         \A r \in wire' : Copy(r),
         \A i \in DOMAIN pipe' : Copy(pipe'[i]),
         \A f \in Live' :
           \/ f \in Live /\ fetch'[f].answer = fetch[f].answer /\ fetch'[f].queue = fetch[f].queue
           \/ fetch'[f] = Sent
  PROVE  LedgerInv'
<1>1. \A r : Copy(r) => Copy(r)'
  BY DEF Copy
<1>2. (\A v \in Writers : job[v].at = "written" => Copy(job[v].row))'
  <2> SUFFICES ASSUME NEW v \in Writers, job'[v].at = "written" PROVE Copy(job[v].row)'
    OBVIOUS
  <2>1. job'[v] = job[v] /\ Copy(job[v].row)
    BY DEF LedgerInv, CopiesInv
  <2> QED
    BY <2>1 DEF Copy
<1>3. (\A r \in wire : Copy(r))' /\ (\A i \in DOMAIN pipe : Copy(pipe[i]))'
  BY DEF Copy
<1>4. (\A f \in Live : /\ \A r \in fetch[f].answer : Copy(r)
                       /\ \A i \in DOMAIN fetch[f].queue : Copy(fetch[f].queue[i]))'
  <2> SUFFICES ASSUME NEW f \in Live'
               PROVE  /\ \A r \in fetch'[f].answer : Copy(r)'
                      /\ \A i \in DOMAIN fetch'[f].queue : Copy(fetch[f].queue[i])'
    OBVIOUS
  <2>1. CASE fetch'[f] = Sent
    BY <2>1, SentIs
  <2>2. CASE f \in Live /\ fetch'[f].answer = fetch[f].answer /\ fetch'[f].queue = fetch[f].queue
    BY <1>1, <2>2 DEF LedgerInv, CopiesInv, Copy
  <2> QED
    BY <2>1, <2>2
<1>5. CopiesInv'
  BY <1>2, <1>3, <1>4 DEF CopiesInv
<1>6. (\A f \in Live : OneOfEach(fetch[f].answer))'
  BY SentIs DEF LedgerInv, OneOfEach, ListedFor
<1>7. (\A a \in Asks \ unordered : UpTo(seen[a], row[a]) /\ (seen[a].closed => a \notin listed))'
  BY DEF LedgerInv, UpTo
<1> QED
  BY <1>5, <1>6, <1>7 DEF LedgerInv

\* A handler taking its stamp writes nothing.
LEMMA LedgerTakeStamp ==
  ASSUME LedgerInv, NEW w \in Writers, NEW a \in Asks, NEW next \in Statuses, TakeStamp(w, a, next)
  PROVE  LedgerInv'
<1>1. PICK at \in Stamps :
        job' = [job EXCEPT ![w] = [at |-> "stamped", row |->
                  [ask |-> a, status |-> next, at |-> at, ver |-> 0]]]
  BY DEF TakeStamp
<1> DEFINE r == [ask |-> a, status |-> next, at |-> at, ver |-> 0]
<1>2. r \in Versions
  BY StampsAssumption DEF Versions
<1> HIDE DEF r
<1>3. [at |-> "stamped", row |-> r] \in Jobs
  BY <1>2 DEF Jobs
<1>4. UNCHANGED <<row, wire, stream, page, history>>
  BY DEF TakeStamp
<1>5. job' = [job EXCEPT ![w] = [at |-> "stamped", row |-> r]]
  BY <1>1 DEF r
<1>6. StreamTyped'
  BY <1>3, <1>4, <1>5 DEF LedgerInv, CopiesInv, StreamTyped, stream, page, history
<1>7. \A v \in Writers : job'[v].at = "written" => job'[v] = job[v]
  BY <1>5 DEF LedgerInv, CopiesInv, StreamTyped
<1> QED
  BY <1>4, <1>6, <1>7, LedgerKeeps DEF LedgerInv, CopiesInv, Live, stream, page, history

\* A write moves one row on, and what was a copy of it remains one, unless it
\* was stamped out of turn.
LEMMA LedgerWrite ==
  ASSUME LedgerInv, NEW w \in Writers, Write(w)
  PROVE  LedgerInv'
<1>1. UNCHANGED <<wire, stream, page, missed>>
  BY DEF Write
<1>2. StreamTyped /\ unordered \subseteq unordered'
  BY WriteIs DEF LedgerInv, CopiesInv
<1>3. CASE row' = row /\ job' = [job EXCEPT ![w] = IdleJob]
  <2>1. StreamTyped'
    BY <1>1, <1>2, <1>3 DEF StreamTyped, stream, page, Jobs
  <2>2. \A v \in Writers : job'[v].at = "written" => job'[v] = job[v]
    BY <1>2, <1>3 DEF StreamTyped, IdleJob
  <2> QED
    BY <1>1, <1>2, <1>3, <2>1, <2>2, LedgerKeeps DEF LedgerInv, CopiesInv, Live, stream, page
<1>4. CASE \E b \in Asks, new \in Versions : Moves(w, b, new)
  <2>1. PICK b \in Asks, new \in Versions : Moves(w, b, new)
    BY <1>4
  <2>2. /\ row' = [row EXCEPT ![b] = new] /\ new.ask = b /\ new.ver = row[b].ver + 1
        /\ CopyOf(row[b], new) \/ b \in unordered'
        /\ job' = [job EXCEPT ![w] = [at |-> "written", row |-> new]]
    BY <2>1 DEF Moves, CopyOf
  <2>3. [at |-> "written", row |-> new] \in Jobs
    BY DEF Jobs
  <2>4. StreamTyped'
    BY <1>1, <1>2, <2>2, <2>3 DEF StreamTyped, stream, page
  <2>5. /\ \A e \in Versions : Copy(e) => Copy(e)'
        /\ \A a \in Asks \ unordered' : \A entry \in [at : Nat, closed : BOOLEAN] :
             UpTo(entry, row[a]) => UpTo(entry, row'[a])
    <3>1. /\ row[b] \in Versions /\ row[b].ver \in Nat /\ new.ver = row[b].ver + 1
          /\ \A a \in Asks : row'[a] = IF a = b THEN new ELSE row[a]
      BY <1>2, <2>2 DEF StreamTyped, Versions
    <3>2. \A e \in Versions : e.ask \in Asks /\ e.ver \in Nat
      BY DEF Versions
    <3>3. ASSUME NEW e \in Versions, Copy(e) PROVE Copy(e)'
      <4>1. CASE e.ask # b
        BY <1>2, <3>1, <3>2, <3>3, <4>1 DEF Copy
      <4>2. CASE e.ask = b
        <5>1. e.ver <= row'[b].ver
          BY <3>1, <3>2, <3>3, <4>2 DEF Copy
        <5>2. e.ask \in unordered' \/ CopyOf(e, new)
          BY <1>2, <2>2, <3>1, <3>3, <4>2, CopyStays DEF Copy
        <5> QED
          BY <3>1, <4>2, <5>1, <5>2 DEF Copy
      <4> QED
        BY <4>1, <4>2
    <3>4. ASSUME NEW a \in Asks \ unordered', NEW entry \in [at : Nat, closed : BOOLEAN],
                 UpTo(entry, row[a])
          PROVE  UpTo(entry, row'[a])
      BY <2>2, <3>1, <3>4, CopyStays
    <3> QED
      BY <3>3, <3>4
  <2>7. Copy(new)'
    <3>1. row'[b] = new /\ new.ver \in Nat
      BY <1>2, <2>2 DEF StreamTyped, Versions
    <3> QED
      BY <2>2, <3>1 DEF Copy, CopyOf
  <2>8. (\A v \in Writers : job[v].at = "written" => Copy(job[v].row))'
    <3> SUFFICES ASSUME NEW v \in Writers, job'[v].at = "written" PROVE Copy(job[v].row)'
      OBVIOUS
    <3>1. CASE v = w
      <4>1. job'[v].row = new
        BY <1>2, <2>2, <3>1 DEF StreamTyped
      <4> QED
        BY <2>7, <4>1 DEF Copy
    <3>2. CASE v # w
      <4>1. job'[v] = job[v] /\ job[v] \in Jobs
        BY <1>2, <2>2, <3>2 DEF StreamTyped
      <4>2. job[v].row \in Versions /\ Copy(job[v].row)
        BY <4>1 DEF LedgerInv, CopiesInv, Jobs, IdleJob
      <4> QED
        BY <2>5, <4>1, <4>2 DEF Copy
    <3> QED
      BY <3>1, <3>2
  <2>9. (\A r \in wire : Copy(r))'
    BY <1>1, <1>2, <2>5 DEF LedgerInv, CopiesInv, StreamTyped
  <2>10. (\A i \in DOMAIN pipe : Copy(pipe[i]))'
    <3>1. \A i \in DOMAIN pipe : pipe[i] \in Versions /\ Copy(pipe[i])
      BY <1>2 DEF StreamTyped, LedgerInv, CopiesInv
    <3>2. pipe' = pipe
      BY <1>1 DEF stream
    <3> QED
      BY <2>5, <3>1, <3>2 DEF Copy
  <2>11. (\A f \in Live : /\ \A r \in fetch[f].answer : Copy(r)
                          /\ \A i \in DOMAIN fetch[f].queue : Copy(fetch[f].queue[i]))'
    <3>1. \A f \in Live : fetch[f] \in Fetching
      BY <1>2 DEF StreamTyped, Live
    <3>2. \A f \in Live : /\ fetch[f].answer \subseteq Versions
                          /\ \A i \in DOMAIN fetch[f].queue : fetch[f].queue[i] \in Versions
      BY <3>1 DEF Fetching
    <3>3. Live' = Live /\ fetch' = fetch
      BY <1>1 DEF page, Live
    <3> QED
      BY <2>5, <3>2, <3>3 DEF LedgerInv, CopiesInv, Copy
  <2>12. CopiesInv'
    BY <2>4, <2>8, <2>9, <2>10, <2>11 DEF CopiesInv
  <2>13. (\A a \in Asks \ unordered :
            UpTo(seen[a], row[a]) /\ (seen[a].closed => a \notin listed))'
    BY <1>1, <1>2, <2>5 DEF LedgerInv, StreamTyped, Ledgers, page
  <2> QED
    BY <1>1, <2>12, <2>13 DEF LedgerInv, OneOfEach, ListedFor, Live, page
<1> QED
  BY <1>2, <1>3, <1>4, WriteIs DEF LedgerInv, CopiesInv

\* What goes astray leaves the ledger alone.
LEMMA LedgerAstray ==
  ASSUME LedgerInv, NEW events \in SUBSET Versions, \A e \in events : Copy(e), GoAstray(events),
         UNCHANGED <<row, listed, seen, raced>>,
         job' \in [Writers -> Jobs], \A v \in Writers : job'[v].at = "written" => job'[v] = job[v],
         wire' \subseteq wire, pipe' \in {pipe, <<>>}
  PROVE  LedgerInv'
<1>1. StreamTyped
  BY DEF LedgerInv, CopiesInv
<1>2. missed' \in [Asks -> Nat]
  BY <1>1, MissedIs
<1>3. /\ fetch' \in [Fetches -> {NoFetch} \cup Fetching] /\ Live' = Live
      /\ \A f \in Fetches : fetch'[f] = NoFetch <=> fetch[f] = NoFetch
      /\ \A f \in Live :
           fetch'[f].answer = fetch[f].answer /\ fetch'[f].queue = fetch[f].queue
  BY <1>1, AstrayIs
<1>4. pipe' \in Seq(Versions) /\ DOMAIN pipe' \subseteq DOMAIN pipe
      /\ \A i \in DOMAIN pipe' : pipe'[i] = pipe[i]
  <2>1. pipe \in Seq(Versions)
    BY <1>1 DEF StreamTyped
  <2>2. CASE pipe' = pipe
    BY <2>1, <2>2
  <2>3. CASE pipe' = <<>>
    BY <2>3, EmptySeq
  <2> QED
    BY <2>2, <2>3
<1>5. StreamTyped'
  <2>1. raced' # None => fetch'[raced'] # NoFetch
    BY <1>1, <1>3 DEF StreamTyped
  <2> QED
    BY <1>1, <1>2, <1>3, <1>4, <2>1 DEF StreamTyped
<1>6. unordered' = unordered
  BY DEF GoAstray
<1>7. (\A r \in wire' : Copy(r)) /\ \A i \in DOMAIN pipe' : Copy(pipe'[i])
  BY <1>4 DEF LedgerInv, CopiesInv
<1> QED
  BY <1>3, <1>5, <1>6, <1>7, LedgerKeeps

\* What is published is the copy the handler wrote, whether it gets through or not.
LEMMA LedgerPublish ==
  ASSUME LedgerInv, NEW w \in Writers, Publish(w)
  PROVE  LedgerInv'
<1>1. StreamTyped /\ CopiesInv
  BY DEF LedgerInv, CopiesInv
<1> DEFINE r == job[w].row
<1>2. r \in Versions /\ Copy(r)
  BY <1>1 DEF Publish, CopiesInv, StreamTyped, Jobs, IdleJob
<1>3. UNCHANGED <<row, stream, listed, seen, raced>>
      /\ (\/ wire' = wire \cup {r} /\ UNCHANGED <<fetch, history>>
          \/ GoAstray({r}) /\ wire' = wire)
  BY DEF Publish
<1>4. job' \in [Writers -> Jobs] /\ \A v \in Writers : job'[v].at = "written" => job'[v] = job[v]
  BY <1>1 DEF Publish, StreamTyped, Jobs, IdleJob
<1> HIDE DEF r
<1>5. CASE wire' = wire \cup {r} /\ UNCHANGED <<fetch, history>>
  <2>1. StreamTyped'
    BY <1>1, <1>2, <1>3, <1>4, <1>5 DEF StreamTyped, stream, history
  <2>2. (\A e \in wire' : Copy(e)) /\ \A i \in DOMAIN pipe' : Copy(pipe'[i])
    BY <1>1, <1>2, <1>3, <1>5 DEF CopiesInv, stream
  <2> QED
    BY <1>3, <1>4, <1>5, <2>1, <2>2, LedgerKeeps DEF Live, history
<1>6. CASE GoAstray({r}) /\ wire' = wire
  BY <1>2, <1>3, <1>4, <1>6, LedgerAstray DEF stream
<1> QED
  BY <1>3, <1>5, <1>6

\* Going to the page or past it, an event stays a copy of its ask.
LEMMA LedgerBroadcast ==
  ASSUME LedgerInv, NEW r \in wire, Broadcast(r)
  PROVE  LedgerInv'
<1>1. StreamTyped /\ CopiesInv /\ r \in Versions /\ Copy(r)
  BY DEF LedgerInv, CopiesInv, StreamTyped
<1>2. UNCHANGED <<row, job, listed, seen, raced>> /\ wire' \subseteq wire
      /\ (\/ pipe' = Append(pipe, r) /\ UNCHANGED <<fetch, history>>
          \/ GoAstray({r}) /\ pipe' = pipe)
  BY DEF Broadcast
<1>3. CASE pipe' = Append(pipe, r) /\ UNCHANGED <<fetch, history>>
  <2>1. pipe' \in Seq(Versions) /\ \A i \in DOMAIN pipe' : Copy(pipe'[i])
    BY <1>1, <1>3 DEF StreamTyped, CopiesInv
  <2>2. StreamTyped'
    BY <1>1, <1>2, <1>3, <2>1 DEF StreamTyped, history
  <2>3. \A e \in wire' : Copy(e)
    BY <1>1, <1>2 DEF CopiesInv
  <2> QED
    BY <1>2, <1>3, <2>1, <2>2, <2>3, LedgerKeeps DEF Live, history
<1>4. CASE GoAstray({r}) /\ pipe' = pipe
  BY <1>1, <1>2, <1>4, LedgerAstray DEF StreamTyped
<1> QED
  BY <1>2, <1>3, <1>4

\* A stream that is subscribed, lost or asked for again carries what it carried.
LEMMA LedgerStream ==
  ASSUME LedgerInv, Subscribe \/ LoseSubscription \/ Reconnect
  PROVE  LedgerInv'
<1>1. StreamTyped /\ CopiesInv
  BY DEF LedgerInv, CopiesInv
<1>2. UNCHANGED <<store, pipe, page, history>>
  BY DEF Subscribe, LoseSubscription, Reconnect
<1>3. StreamTyped'
  BY <1>1, <1>2 DEF StreamTyped, store, page, history
<1> QED
  BY <1>1, <1>2, <1>3, LedgerKeeps DEF CopiesInv, Live, store, page, history

\* What a stream that ends was carrying goes astray.
LEMMA LedgerDrop ==
  ASSUME LedgerInv, Drop
  PROVE  LedgerInv'
<1>1. StreamTyped /\ CopiesInv
  BY DEF LedgerInv, CopiesInv
<1> DEFINE events == {pipe[i] : i \in DOMAIN pipe}
<1>2. UNCHANGED <<store, listed, seen, raced>> /\ pipe' = <<>> /\ GoAstray(events)
  BY DEF Drop
<1>3. events \in SUBSET Versions /\ \A e \in events : Copy(e)
  BY <1>1 DEF StreamTyped, CopiesInv
<1> HIDE DEF events
<1> QED
  BY <1>1, <1>2, <1>3, LedgerAstray DEF StreamTyped, store

\* A refresh sends one more fetch, and it takes the events from there on.
LEMMA RefreshIs ==
  ASSUME StreamTyped, Refresh
  PROVE  /\ raced' \in Fetches /\ raced' # None /\ raced' \notin Live
         /\ fetch' = [fetch EXCEPT ![raced'] = Sent]
         /\ fetch' \in [Fetches -> {NoFetch} \cup Fetching] /\ fetch'[raced'] = Sent
         /\ \A f \in Live' : (f \in Live /\ fetch'[f] = fetch[f]) \/ fetch'[f] = Sent
<1> DEFINE free == {f \in Fetches : fetch[f] = NoFetch}
<1>1. free # {} /\ raced' = AnyOf(free) /\ fetch' = [fetch EXCEPT ![raced'] = Sent]
  BY DEF Refresh
<1>2. raced' \in free
  BY <1>1 DEF AnyOf
<1>3. raced' \in Fetches /\ raced' # None /\ raced' \notin Live
  BY <1>2, FetchesAssumption DEF Live
<1> QED
  BY <1>1, <1>3, SentIs DEF StreamTyped, Live

\* The page goes on with what it knows, and may ask again.
LEMMA LedgerRefresh ==
  ASSUME LedgerInv, Opened \/ Reload
  PROVE  LedgerInv'
<1>1. StreamTyped /\ CopiesInv
  BY DEF LedgerInv, CopiesInv
<1>2. /\ UNCHANGED <<store, sub, pipe, missed, unordered, listed, seen>>
      /\ UNCHANGED <<fetch, raced>> \/ Refresh
  BY DEF Opened, Reload, stream, history
<1>3. /\ fetch' \in [Fetches -> {NoFetch} \cup Fetching] /\ raced' \in Fetches \cup {None}
      /\ raced' # None => fetch'[raced'] # NoFetch
      /\ \A f \in Live' : (f \in Live /\ fetch'[f] = fetch[f]) \/ fetch'[f] = Sent
  <2>1. CASE UNCHANGED <<fetch, raced>>
    BY <1>1, <2>1 DEF StreamTyped, Live
  <2>2. CASE Refresh
    BY <1>1, <2>2, RefreshIs, SentIs
  <2> QED
    BY <1>2, <2>1, <2>2
<1>4. StreamTyped'
  BY <1>1, <1>2, <1>3 DEF StreamTyped, store
<1> QED
  BY <1>1, <1>2, <1>3, <1>4, LedgerKeeps DEF CopiesInv, store

\* The ledger forgets one ask; of the others it knows what it knew.
LEMMA LedgerForget ==
  ASSUME LedgerInv, NEW a \in Asks, Forget(a)
  PROVE  LedgerInv'
<1>1. StreamTyped /\ CopiesInv
  BY DEF LedgerInv, CopiesInv
<1>2. /\ UNCHANGED <<store, pipe, listed, fetch, raced, missed>>
      /\ seen' = [seen EXCEPT ![a] = Unseen] /\ unordered' = unordered \cup {a}
  BY DEF Forget, stream
<1>3. Unseen \in [at : Nat, closed : BOOLEAN]
  BY DEF Unseen
<1>4. seen' \in Ledgers
  BY <1>1, <1>2, <1>3 DEF StreamTyped, Ledgers
<1>5. StreamTyped'
  BY <1>1, <1>2, <1>4 DEF StreamTyped, store
<1>6. CopiesInv'
  BY <1>1, <1>2, <1>5 DEF CopiesInv, Copy, Live, store
<1>7. (\A b \in Asks \ unordered : UpTo(seen[b], row[b]) /\ (seen[b].closed => b \notin listed))'
  <2> SUFFICES ASSUME NEW b \in Asks \ unordered'
               PROVE  UpTo(seen'[b], row'[b]) /\ (seen'[b].closed => b \notin listed')
    OBVIOUS
  <2>1. b \in Asks \ unordered /\ seen'[b] = seen[b]
    BY <1>1, <1>2 DEF StreamTyped, Ledgers
  <2> QED
    BY <1>2, <2>1 DEF LedgerInv, UpTo, store
<1> QED
  BY <1>2, <1>6, <1>7 DEF LedgerInv, OneOfEach, ListedFor, Live

\* What the store answers with: each listed ask as it stands.
LEMMA AnswerIs ==
  ASSUME StreamTyped, NEW f \in Fetches, Answer(f)
  PROVE  LET found == {row[a] : a \in StoreList} IN
         /\ f \in Live /\ fetch[f] \in Fetching /\ Live' = Live
         /\ fetch' = [fetch EXCEPT ![f] =
              [at |-> "answered", answer |-> found, queue |-> fetch[f].queue,
               lost |-> fetch[f].lost]]
         /\ fetch' \in [Fetches -> {NoFetch} \cup Fetching]
         /\ OneOfEach(found) /\ (\A r \in found : r = row[r.ask])
         /\ \A a \in Asks : Exact(a, found)
<1> DEFINE found == {row[a] : a \in StoreList}
<1>1. fetch[f] \in Fetching /\ f \in Live
  BY DEF Answer, StreamTyped, NoFetch, Live
<1>2. OneOfEach(found) /\ \A r \in found : r = row[r.ask]
  BY DEF OneOfEach, StoreList, StreamTyped
<1>3. \A a \in Asks : Exact(a, found)
  BY DEF Exact, FoundOf, StoreList, StreamTyped
<1> HIDE DEF found
<1> DEFINE answered == [at |-> "answered", answer |-> found, queue |-> fetch[f].queue,
                        lost |-> fetch[f].lost]
<1>4. answered \in Fetching
  BY <1>1, <1>2 DEF Fetching, OneOfEach
<1>5. [fetch[f] EXCEPT !.at = "answered", !.answer = found] = answered
  <2> DEFINE now == [fetch[f] EXCEPT !.at = "answered", !.answer = found]
  <2>1. now \in Fetching
    BY <1>1, <1>2 DEF Fetching, OneOfEach
  <2>2. now.at = "answered" /\ now.answer = found /\ now.queue = fetch[f].queue
        /\ now.lost = fetch[f].lost
    BY <1>1 DEF Fetching
  <2> HIDE DEF now
  <2>3. now = [at |-> now.at, answer |-> now.answer, queue |-> now.queue, lost |-> now.lost]
    BY <2>1 DEF Fetching
  <2>4. now = answered
    BY <2>2, <2>3
  <2> QED
    BY <2>4 DEF now
<1>6. fetch' = [fetch EXCEPT ![f] = answered]
  BY <1>5 DEF Answer, StreamTyped, found
<1>7. answered # NoFetch
  BY DEF NoFetch
<1>8. fetch' \in [Fetches -> {NoFetch} \cup Fetching] /\ Live' = Live
  <2> HIDE DEF answered
  <2> QED
    BY <1>1, <1>4, <1>6, <1>7 DEF StreamTyped, Live
<1> QED
  BY <1>1, <1>2, <1>3, <1>6, <1>8 DEF found

\* The store's answer is made of copies.
LEMMA LedgerAnswer ==
  ASSUME LedgerInv, NEW f \in Fetches, Answer(f)
  PROVE  LedgerInv'
<1>1. StreamTyped /\ CopiesInv
  BY DEF LedgerInv, CopiesInv
<1>2. UNCHANGED <<store, stream, listed, seen, raced, failed, history>>
  BY DEF Answer
<1> DEFINE found == {row[a] : a \in StoreList}
           answered == [at |-> "answered", answer |-> found, queue |-> fetch[f].queue,
                        lost |-> fetch[f].lost]
<1>3. /\ f \in Live /\ Live' = Live
      /\ fetch' = [fetch EXCEPT ![f] = answered]
      /\ fetch' \in [Fetches -> {NoFetch} \cup Fetching]
      /\ OneOfEach(found) /\ \A r \in found : r = row[r.ask]
  BY <1>1, AnswerIs
<1>4. answered.answer = found /\ answered.queue = fetch[f].queue
  OBVIOUS
<1> HIDE DEF found, answered
<1>5. \A g \in Live : /\ g \in Fetches
                      /\ g # f => fetch'[g] = fetch[g]
                      /\ g = f => fetch'[g] = answered
  BY <1>1, <1>3 DEF StreamTyped, Live
<1>6. raced' # None => fetch'[raced'] # NoFetch
  BY <1>1, <1>2, <1>3 DEF StreamTyped, Live
<1>7. StreamTyped'
  BY <1>1, <1>2, <1>3, <1>6 DEF StreamTyped, store, stream, history
<1>8. (\A g \in Live : /\ \A r \in fetch[g].answer : Copy(r)
                       /\ \A i \in DOMAIN fetch[g].queue : Copy(fetch[g].queue[i]))'
  <2>1. \A r \in found : r.ver <= row[r.ask].ver /\ r = row[r.ask]
    BY <1>3 DEF OneOfEach, Versions
  <2>2. \A r \in found : Copy(r)
    BY <2>1 DEF Copy, CopyOf
  <2>3. \A r : Copy(r) => Copy(r)'
    BY <1>2 DEF Copy, store, history
  <2>4. \A g \in Live' : /\ \A r \in fetch'[g].answer : Copy(r)
                         /\ \A i \in DOMAIN fetch'[g].queue : Copy(fetch'[g].queue[i])
    BY <1>1, <1>3, <1>4, <1>5, <2>2 DEF CopiesInv
  <2> QED
    BY <2>3, <2>4 DEF Copy
<1>9. CopiesInv'
  <2>1. UNCHANGED <<row, job, wire, pipe, unordered>>
    BY <1>2 DEF store, stream, history
  <2> QED
    BY <1>1, <1>7, <1>8, <2>1 DEF CopiesInv, Copy
<1>10. (\A g \in Live : OneOfEach(fetch[g].answer))'
  BY <1>3, <1>4, <1>5 DEF LedgerInv
<1> QED
  BY <1>2, <1>9, <1>10 DEF LedgerInv, UpTo, store, history

\* What the page knows of an ask once a fetch has ended.
LEMMA FetchedIs ==
  ASSUME LedgerInv, NEW f \in Fetches, Fetched(f), NEW a \in Asks \ unordered
  PROVE  /\ UpTo(seen'[a], row[a]) /\ (seen'[a].closed => a \notin listed')
         /\ Heard(a) => Newest(seen'[a], row[a])
         /\ (\E i \in DOMAIN fetch[f].queue : fetch[f].queue[i] = row[a])
              => Newest(seen'[a], row[a]) /\ (a \in listed' <=> ListedFor(row[a]))
         /\ Exact(a, fetch[f].answer)
            /\ (Heard(a) \/ \A i \in DOMAIN fetch[f].queue :
                              fetch[f].queue[i].ask = a => fetch[f].queue[i] = row[a])
              => (a \in listed' <=> ListedFor(row[a]))
<1> DEFINE answer == fetch[f].answer
           queue == fetch[f].queue
           view == Merged(seen, answer, queue)
<1>1. f \in Live /\ fetch[f] \in Fetching
  BY DEF Fetched, LedgerInv, CopiesInv, StreamTyped, Live, NoFetch
<1>2. queue \in Seq(Versions) /\ OneOfEach(answer)
  BY <1>1 DEF Fetching, LedgerInv
<1>3. seen \in Ledgers /\ row[a] \in Versions /\ row[a].ask = a /\ UpTo(seen[a], row[a])
  BY DEF LedgerInv, CopiesInv, StreamTyped
<1>4. /\ \A e \in answer : e.ask = a => CopyOf(e, row[a])
      /\ \A i \in DOMAIN queue : queue[i].ask = a => CopyOf(queue[i], row[a])
  BY <1>1 DEF LedgerInv, CopiesInv, Copy
<1>5. seen' = view.seen /\ listed' = view.list
  BY DEF Fetched
<1> HIDE DEF answer, queue
<1>6. /\ view \in Views /\ Sound(view, a, row[a])
      /\ Newest(seen[a], row[a]) => Newest(view.seen[a], row[a])
      /\ (\E i \in DOMAIN queue : queue[i] = row[a])
           => Newest(view.seen[a], row[a]) /\ Shows(view, a, row[a])
      /\ FoundOf(a, answer) = (IF ListedFor(row[a]) THEN {row[a]} ELSE {})
         /\ (Newest(seen[a], row[a]) \/ \A i \in DOMAIN queue : queue[i].ask = a => queue[i] = row[a])
           => Shows(view, a, row[a])
  BY <1>2, <1>3, <1>4, MergedIs
<1>7. (\E i \in DOMAIN fetch[f].queue : fetch[f].queue[i] = row[a])
        => Newest(seen'[a], row[a]) /\ (a \in listed' <=> ListedFor(row[a]))
  BY <1>5, <1>6 DEF Shows, queue
<1>8. Exact(a, fetch[f].answer)
      /\ (Heard(a) \/ \A i \in DOMAIN fetch[f].queue :
                        fetch[f].queue[i].ask = a => fetch[f].queue[i] = row[a])
        => (a \in listed' <=> ListedFor(row[a]))
  BY <1>5, <1>6 DEF Shows, queue, answer, Exact, Heard
<1> QED
  BY <1>1, <1>5, <1>6, <1>7, <1>8 DEF Views, Sound, Heard

\* A fetch that ends, with an answer or without one, is gone.
Ends(f) == fetch' = [fetch EXCEPT ![f] = NoFetch] /\ raced' = None

\* The fetches that go on are as they were.
LEMMA EndsIs ==
  ASSUME StreamTyped, NEW f \in Fetches, Ends(f)
  PROVE  /\ fetch' \in [Fetches -> {NoFetch} \cup Fetching]
         /\ Live' = Live \ {f} /\ \A g \in Live' : fetch'[g] = fetch[g]
BY DEF Ends, StreamTyped, Live

\* A fetch that ends leaves the page with nothing newer than the rows.
LEMMA LedgerFetchEnds ==
  ASSUME LedgerInv, NEW f \in Fetches, Fetched(f) \/ FetchFails(f)
  PROVE  LedgerInv'
<1>1. StreamTyped /\ CopiesInv
  BY DEF LedgerInv, CopiesInv
<1>2. UNCHANGED <<store, stream, missed, unordered>> /\ raced' = None /\ Ends(f)
  BY DEF Fetched, FetchFails, Ends, history
<1>3. f \in Live /\ seen' \in Ledgers /\ listed' \subseteq Asks
  <2>1. CASE Fetched(f)
    <3>1. f \in Live /\ fetch[f] \in Fetching
      BY <1>1, <2>1 DEF Fetched, StreamTyped, Live, NoFetch
    <3>2. fetch[f].queue \in Seq(Versions) /\ OneOfEach(fetch[f].answer) /\ seen \in Ledgers
      BY <1>1, <3>1 DEF Fetching, LedgerInv, StreamTyped
    <3>3. Merged(seen, fetch[f].answer, fetch[f].queue) \in Views
      BY <3>2, MergedTyped
    <3> QED
      BY <2>1, <3>1, <3>3 DEF Fetched, Views
  <2>2. CASE FetchFails(f)
    BY <1>1, <2>2 DEF FetchFails, StreamTyped, Live
  <2> QED
    BY <2>1, <2>2
<1>4. (\A a \in Asks \ unordered : UpTo(seen[a], row[a]) /\ (seen[a].closed => a \notin listed))'
  <2>1. CASE Fetched(f)
    BY <1>2, <2>1, FetchedIs DEF store
  <2>2. CASE FetchFails(f)
    BY <1>2, <2>2 DEF FetchFails, LedgerInv, store
  <2> QED
    BY <2>1, <2>2
<1>5. /\ fetch' \in [Fetches -> {NoFetch} \cup Fetching]
      /\ Live' = Live \ {f} /\ \A g \in Live' : fetch'[g] = fetch[g]
  BY <1>1, <1>2, EndsIs
<1>6. StreamTyped'
  BY <1>1, <1>2, <1>3, <1>5 DEF StreamTyped, store, stream
<1>7. (\A g \in Live : /\ \A r \in fetch[g].answer : Copy(r)
                       /\ \A i \in DOMAIN fetch[g].queue : Copy(fetch[g].queue[i]))'
  BY <1>1, <1>2, <1>5 DEF CopiesInv, Copy, store
<1>8. CopiesInv'
  BY <1>1, <1>2, <1>6, <1>7 DEF CopiesInv, Copy, store, stream
<1>9. (\A g \in Live : OneOfEach(fetch[g].answer))'
  BY <1>5 DEF LedgerInv
<1> QED
  BY <1>4, <1>8, <1>9 DEF LedgerInv

\* What the page knows of an ask once it has received an event.
LEMMA ReceiveIs ==
  ASSUME LedgerInv, Receive
  PROVE  LET e == Head(pipe) IN
         /\ e \in Versions /\ Copy(e) /\ 1 \in DOMAIN pipe /\ e = pipe[1]
         /\ seen' \in Ledgers /\ listed' \subseteq Asks
         /\ Stale(seen, e) => seen' = seen /\ listed' = listed
         /\ \A a \in Asks \ unordered :
              /\ UpTo(seen'[a], row[a]) /\ (seen'[a].closed => a \notin listed')
              /\ Heard(a) => Newest(seen'[a], row[a])
              /\ e = row[a] => Newest(seen'[a], row[a]) /\ (a \in listed' <=> ListedFor(row[a]))
              /\ (a \in listed <=> ListedFor(row[a])) /\ (Heard(a) \/ e.ask # a)
                   => (a \in listed' <=> ListedFor(row[a]))
<1> DEFINE e == Head(pipe)
           view == [list |-> listed, seen |-> seen]
           after == Apply(view, e)
<1>1. e \in Versions /\ Copy(e) /\ 1 \in DOMAIN pipe /\ e = pipe[1]
  BY DEF Receive, LedgerInv, CopiesInv, StreamTyped
<1>2. view \in Views /\ view.seen = seen /\ view.list = listed
  BY DEF Views, LedgerInv, CopiesInv, StreamTyped
<1>3. seen' = after.seen /\ listed' = after.list
  BY DEF Receive
<1> HIDE DEF e, view
<1>4. after \in Views /\ (Stale(seen, e) => after = view)
  BY <1>1, <1>2, ApplyTyped
<1>5. ASSUME NEW a \in Asks \ unordered
      PROVE  /\ UpTo(after.seen[a], row[a]) /\ (after.seen[a].closed => a \notin after.list)
             /\ Newest(seen[a], row[a]) => Newest(after.seen[a], row[a])
             /\ e = row[a] => Newest(after.seen[a], row[a]) /\ (a \in after.list <=> ListedFor(row[a]))
             /\ (a \in listed <=> ListedFor(row[a])) /\ (Newest(seen[a], row[a]) \/ e.ask # a)
                  => (a \in after.list <=> ListedFor(row[a]))
  <2>1. row[a] \in Versions /\ row[a].ask = a
    BY DEF LedgerInv, CopiesInv, StreamTyped
  <2>2. Sound(view, a, row[a])
    BY <1>2 DEF Sound, LedgerInv
  <2>3. e.ask = a => CopyOf(e, row[a])
    BY <1>1 DEF Copy
  <2>4. /\ Sound(after, a, row[a])
        /\ Newest(view.seen[a], row[a]) => Newest(after.seen[a], row[a])
        /\ e = row[a] => Newest(after.seen[a], row[a]) /\ Shows(after, a, row[a])
        /\ Shows(view, a, row[a]) /\ (Newest(view.seen[a], row[a]) \/ e.ask # a)
             => Shows(after, a, row[a])
    BY <1>1, <1>2, <2>1, <2>2, <2>3, ApplyCopy
  <2> HIDE DEF after
  <2> QED
    BY <1>2, <2>4 DEF Sound, Shows
<1> HIDE DEF after
<1> QED
  BY <1>1, <1>2, <1>3, <1>4, <1>5 DEF Views, Heard, e

\* What becomes of the events and of the fetches: the one that takes them has one
\* more to apply, the others that were answered know to miss it.
LEMMA ReceiveMoves ==
  ASSUME StreamTyped, Receive
  PROVE  /\ pipe' \in Seq(Versions) /\ Len(pipe') = Len(pipe) - 1
         /\ \A i \in DOMAIN pipe' : i + 1 \in DOMAIN pipe /\ pipe'[i] = pipe[i + 1]
         /\ \A i \in DOMAIN pipe : i = 1 \/ (i - 1 \in DOMAIN pipe' /\ pipe'[i - 1] = pipe[i])
         /\ fetch' \in [Fetches -> {NoFetch} \cup Fetching] /\ Live' = Live
         /\ \A f \in Live :
              /\ fetch'[f].at = fetch[f].at /\ fetch'[f].answer = fetch[f].answer
              /\ fetch'[f].queue
                   = IF f = raced THEN Append(fetch[f].queue, Head(pipe)) ELSE fetch[f].queue
              /\ fetch[f].lost \subseteq fetch'[f].lost
              /\ f # raced /\ fetch[f].at = "answered" => Head(pipe).ask \in fetch'[f].lost
<1> DEFINE e == Head(pipe)
           others == Unqueued(Fetches \ {raced}, {e})
<1>1. /\ pipe \in Seq(Versions) /\ pipe # <<>> /\ pipe' = Tail(pipe) /\ e \in Versions
  BY DEF Receive, StreamTyped
<1>2. /\ pipe' \in Seq(Versions) /\ Len(pipe') = Len(pipe) - 1
      /\ \A i \in DOMAIN pipe' : i + 1 \in DOMAIN pipe /\ pipe'[i] = pipe[i + 1]
      /\ \A i \in DOMAIN pipe : i = 1 \/ (i - 1 \in DOMAIN pipe' /\ pipe'[i - 1] = pipe[i])
  BY <1>1
<1>3. /\ others \in [Fetches -> {NoFetch} \cup Fetching]
      /\ \A f \in Fetches : others[f] = NoFetch <=> fetch[f] = NoFetch
      /\ \A f \in Live :
           /\ others[f].at = fetch[f].at /\ others[f].answer = fetch[f].answer
           /\ others[f].queue = fetch[f].queue /\ fetch[f].lost \subseteq others[f].lost
           /\ f # raced /\ fetch[f].at = "answered" => e.ask \in others[f].lost
  <2>1. /\ others \in [Fetches -> {NoFetch} \cup Fetching]
        /\ \A f \in Fetches : others[f] = NoFetch <=> fetch[f] = NoFetch
        /\ \A f \in Live :
             /\ others[f].at = fetch[f].at /\ others[f].answer = fetch[f].answer
             /\ others[f].queue = fetch[f].queue /\ fetch[f].lost \subseteq others[f].lost
             /\ f \in Fetches \ {raced} /\ fetch[f].at = "answered"
                  => AsksOf({e}) \subseteq others[f].lost
    BY <1>1, UnqueuedIs
  <2>2. Live \subseteq Fetches /\ e.ask \in AsksOf({e})
    BY DEF Live, AsksOf
  <2> HIDE DEF e, others
  <2> QED
    BY <2>1, <2>2
<1>4. fetch' = IF raced = None THEN others ELSE [others EXCEPT ![raced].queue = Append(@, e)]
  BY DEF Receive
<1> HIDE DEF others, e
<1>5. CASE raced = None
  <2>1. fetch' = others /\ raced \notin Fetches
    BY <1>4, <1>5, FetchesAssumption
  <2>2. Live \subseteq Fetches /\ Live' = Live
    BY <1>3, <2>1 DEF Live
  <2> QED
    BY <1>2, <1>3, <2>1, <2>2 DEF e
<1>6. CASE raced # None
  <2> DEFINE queue == Append(fetch[raced].queue, e)
             now == [others[raced] EXCEPT !.queue = queue]
  <2>1. raced \in Fetches /\ fetch[raced] \in Fetching /\ fetch[raced] # NoFetch
    BY <1>6 DEF StreamTyped
  <2>2. /\ raced \in Live /\ others[raced] \in Fetching /\ others[raced].queue = fetch[raced].queue
    BY <1>3, <2>1 DEF Live
  <2>3. queue \in Seq(Versions)
    BY <1>1, <2>1 DEF Fetching
  <2>4. fetch' = [others EXCEPT ![raced] = now]
    BY <1>3, <1>4, <1>6, <2>2
  <2> HIDE DEF queue
  <2>5. /\ now \in Fetching /\ now.at = others[raced].at /\ now.answer = others[raced].answer
        /\ now.queue = queue /\ now.lost = others[raced].lost /\ now # NoFetch
    BY <2>2, <2>3 DEF Fetching, NoFetch
  <2> HIDE DEF now
  <2>6. fetch' \in [Fetches -> {NoFetch} \cup Fetching] /\ fetch'[raced] = now
        /\ \A f \in Fetches : f # raced => fetch'[f] = others[f]
    BY <1>3, <2>1, <2>4, <2>5
  <2>7. Live' = Live
    BY <1>3, <2>1, <2>5, <2>6 DEF Live
  <2>8. ASSUME NEW f \in Live
        PROVE  /\ fetch'[f].at = fetch[f].at /\ fetch'[f].answer = fetch[f].answer
               /\ fetch'[f].queue = IF f = raced THEN queue ELSE fetch[f].queue
               /\ fetch[f].lost \subseteq fetch'[f].lost
               /\ f # raced /\ fetch[f].at = "answered" => e.ask \in fetch'[f].lost
    <3>1. f \in Fetches
      BY DEF Live
    <3>2. CASE f = raced
      BY <1>3, <2>5, <2>6, <3>2
    <3>3. CASE f # raced
      BY <1>3, <2>6, <3>1, <3>3
    <3> QED
      BY <3>2, <3>3
  <2>9. \A f \in Live : f = raced => queue = Append(fetch[f].queue, e)
    BY DEF queue
  <2> HIDE DEF now
  <2> QED
    BY <1>2, <2>6, <2>7, <2>8, <2>9 DEF e
<1> QED
  BY <1>5, <1>6

\* An event taken from the stream and put on a fetch's queue stays a copy.
LEMMA LedgerReceive ==
  ASSUME LedgerInv, Receive
  PROVE  LedgerInv'
<1>1. StreamTyped /\ CopiesInv
  BY DEF LedgerInv, CopiesInv
<1>2. UNCHANGED <<store, sub, missed, unordered, conn, attached, raced, failed>>
  BY DEF Receive
<1> DEFINE e == Head(pipe)
<1>3. /\ e \in Versions /\ Copy(e) /\ seen' \in Ledgers /\ listed' \subseteq Asks
      /\ \A a \in Asks \ unordered :
           UpTo(seen'[a], row[a]) /\ (seen'[a].closed => a \notin listed')
  BY ReceiveIs
<1>4. /\ pipe' \in Seq(Versions) /\ fetch' \in [Fetches -> {NoFetch} \cup Fetching] /\ Live' = Live
      /\ \A i \in DOMAIN pipe' : i + 1 \in DOMAIN pipe /\ pipe'[i] = pipe[i + 1]
      /\ \A f \in Live : fetch'[f].answer = fetch[f].answer
      /\ \A f \in Live : \/ fetch'[f].queue = fetch[f].queue
                         \/ fetch'[f].queue = Append(fetch[f].queue, e)
  BY <1>1, ReceiveMoves
<1> HIDE DEF e
<1>5. raced' # None => fetch'[raced'] # NoFetch
  BY <1>1, <1>2, <1>4 DEF StreamTyped, Live
<1>6. StreamTyped'
  BY <1>1, <1>2, <1>3, <1>4, <1>5 DEF StreamTyped, store
<1>7. (\A i \in DOMAIN pipe : Copy(pipe[i]))'
  BY <1>1, <1>2, <1>4 DEF CopiesInv, Copy, store
<1>8. (\A f \in Live : /\ \A r \in fetch[f].answer : Copy(r)
                       /\ \A i \in DOMAIN fetch[f].queue : Copy(fetch[f].queue[i]))'
  <2>1. \A r : Copy(r) => Copy(r)'
    BY <1>2 DEF Copy, store
  <2>2. ASSUME NEW f \in Live
        PROVE  /\ \A r \in fetch'[f].answer : Copy(r)
               /\ \A i \in DOMAIN fetch'[f].queue : Copy(fetch'[f].queue[i])
    <3>1. /\ \A r \in fetch[f].answer : Copy(r)
          /\ \A i \in DOMAIN fetch[f].queue : Copy(fetch[f].queue[i])
      BY <1>1 DEF CopiesInv
    <3>2. fetch[f].queue \in Seq(Versions) /\ fetch'[f].answer = fetch[f].answer
      BY <1>1, <1>4 DEF StreamTyped, Live, Fetching
    <3>3. CASE fetch'[f].queue = fetch[f].queue
      BY <3>1, <3>2, <3>3
    <3>4. CASE fetch'[f].queue = Append(fetch[f].queue, e)
      <4>1. \A i \in DOMAIN fetch'[f].queue :
              \/ fetch'[f].queue[i] = e
              \/ i \in DOMAIN fetch[f].queue /\ fetch'[f].queue[i] = fetch[f].queue[i]
        BY <1>3, <3>2, <3>4
      <4> QED
        BY <1>3, <3>1, <3>2, <4>1
    <3> QED
      BY <1>4, <3>3, <3>4
  <2> QED
    BY <1>4, <2>1, <2>2 DEF Copy
<1>9. CopiesInv'
  BY <1>1, <1>2, <1>6, <1>7, <1>8 DEF CopiesInv, Copy, store
<1>10. (\A f \in Live : OneOfEach(fetch[f].answer))'
  <2>1. \A f \in Live' : OneOfEach(fetch[f].answer) /\ fetch'[f].answer = fetch[f].answer
    BY <1>4 DEF LedgerInv
  <2>2. \A f \in Live' : OneOfEach(fetch'[f].answer)
    BY <2>1
  <2> QED
    BY <2>2 DEF OneOfEach, ListedFor
<1> QED
  BY <1>2, <1>3, <1>9, <1>10 DEF LedgerInv, UpTo, store

\* Every step leaves the ledger with nothing newer than the rows.
LEMMA LedgerNext ==
  ASSUME LedgerInv, [Next]_vars
  PROVE  LedgerInv'
<1>1. CASE \E w \in Writers, a \in Asks, s \in Statuses : TakeStamp(w, a, s)
  BY <1>1, LedgerTakeStamp
<1>2. CASE Writing
  BY <1>2, LedgerWrite, LedgerPublish DEF Writing
<1>3. CASE Fanning
  BY <1>3, LedgerBroadcast DEF Fanning
<1>4. CASE Paging
  BY <1>4, LedgerStream, LedgerRefresh, LedgerReceive, LedgerAnswer, LedgerFetchEnds DEF Paging
<1>5. CASE Faults
  BY <1>5, LedgerStream, LedgerDrop, LedgerRefresh, LedgerFetchEnds, LedgerForget DEF Faults
<1>6. CASE UNCHANGED vars
  <2>1. UNCHANGED <<row, job, wire, pipe, missed, unordered, listed, seen, fetch, raced>>
    BY <1>6 DEF vars, store, stream, page, history
  <2>2. StreamTyped'
    BY <2>1 DEF LedgerInv, CopiesInv, StreamTyped
  <2> QED
    BY <2>1, <2>2, LedgerKeeps DEF LedgerInv, CopiesInv, Live
<1> QED
  BY <1>1, <1>2, <1>3, <1>4, <1>5, <1>6 DEF Next

\* Of every ask that its stamps order and its ledger holds, the page knows nothing
\* newer than the row, and one it has as closed is closed and off its list.
THEOREM LedgerSound == Spec => []LedgerInv
<1>1. LedgerInv /\ [Next]_vars => LedgerInv'
  BY LedgerNext
<1> QED
  BY <1>1, LedgerInit, PTL DEF Spec

\* What the page has as closed is the closing version of the row.
LEMMA ClosedIsHeard ==
  ASSUME LedgerInv, NEW a \in Asks \ unordered, seen[a].closed
  PROVE  Heard(a) /\ row[a].status = "over" /\ a \notin listed
<1>1. row[a].status = "over" /\ seen[a].at = row[a].at /\ a \notin listed
  BY DEF LedgerInv, UpTo
<1>2. seen[a] \in [at : Nat, closed : BOOLEAN] /\ TRUE = (row[a].status = "over")
  BY <1>1 DEF LedgerInv, CopiesInv, StreamTyped, Ledgers
<1>3. seen[a] = [at |-> seen[a].at, closed |-> seen[a].closed] /\ TRUE = seen[a].closed
  BY <1>2
<1> QED
  BY <1>1, <1>2, <1>3 DEF Heard, Newest

\* No step makes an ask one that its stamps order, or that the ledger holds.
LEMMA StaysUnordered ==
  ASSUME LedgerInv, Next
  PROVE  unordered \subseteq unordered'
<1>1. CASE \E w \in Writers : Write(w)
  BY <1>1, WriteIs DEF LedgerInv, CopiesInv
<1>2. CASE \E w \in Writers : Publish(w)
  BY <1>2 DEF Publish, GoAstray, history
<1>3. CASE Fanning
  BY <1>3 DEF Fanning, Broadcast, GoAstray, history
<1>4. CASE \E w \in Writers, b \in Asks, s \in Statuses : TakeStamp(w, b, s)
  BY <1>4 DEF TakeStamp, history
<1>5. CASE Subscribe \/ Reconnect \/ LoseSubscription \/ Drop
  BY <1>5 DEF Subscribe, Reconnect, LoseSubscription, Drop, GoAstray, history
<1>6. CASE Opened \/ Reload \/ Receive
  BY <1>6 DEF Opened, Reload, Receive, history
<1>7. CASE \E f \in Fetches : Answer(f) \/ Fetched(f) \/ FetchFails(f)
  BY <1>7 DEF Answer, Fetched, FetchFails, history
<1>8. CASE \E a \in Asks : Forget(a)
  BY <1>8 DEF Forget
<1> QED
  BY <1>1, <1>2, <1>3, <1>4, <1>5, <1>6, <1>7, <1>8 DEF Next, Writing, Paging, Faults

\* A closed ask is closed after any step, and not on the list.
LEMMA ClosedStep ==
  ASSUME LedgerInv, Next, NEW a \in Asks \ unordered', seen[a].closed
  PROVE  seen'[a].closed /\ a \notin listed'
<1>1. a \in Asks \ unordered /\ Heard(a) /\ row[a].status = "over" /\ a \notin listed
  BY StaysUnordered, ClosedIsHeard
<1>2. Newest(seen'[a], row[a]) => seen'[a].closed
  <2>1. ASSUME Newest(seen'[a], row[a]) PROVE seen'[a].closed
    <3>1. seen'[a] = [at |-> row[a].at, closed |-> row[a].status = "over"]
      BY <2>1 DEF Newest
    <3>2. seen'[a].closed = (row[a].status = "over")
      BY <3>1
    <3> QED
      BY <1>1, <3>2, Zenon
  <2> QED
    BY <2>1
<1>3. CASE UNCHANGED <<seen, listed>>
  BY <1>1, <1>3
<1>4. ASSUME NEW f \in Fetches, Fetched(f) PROVE seen'[a].closed /\ a \notin listed'
  BY <1>1, <1>2, <1>4, FetchedIs
<1>5. ASSUME NEW f \in Fetches, FetchFails(f) PROVE seen'[a].closed /\ a \notin listed'
  BY <1>1, <1>5 DEF FetchFails
<1>6. CASE Receive
  BY <1>1, <1>2, <1>6, ReceiveIs
<1>7. CASE \E w \in Writers, b \in Asks, s \in Statuses : TakeStamp(w, b, s)
  BY <1>3, <1>7 DEF TakeStamp, page
<1>8. CASE Writing
  BY <1>3, <1>8 DEF Writing, Write, Publish, page
<1>9. CASE Fanning
  BY <1>3, <1>9 DEF Fanning, Broadcast
<1>10. CASE Subscribe \/ Reconnect \/ LoseSubscription \/ Drop
  BY <1>3, <1>10 DEF Subscribe, Reconnect, LoseSubscription, Drop, page
<1>11. CASE Opened \/ Reload \/ \E f \in Fetches : Answer(f)
  BY <1>3, <1>11 DEF Opened, Reload, Answer
<1>12. ASSUME NEW b \in Asks, Forget(b) PROVE seen'[a].closed /\ a \notin listed'
  <2>1. seen' = [seen EXCEPT ![b] = Unseen] /\ unordered' = unordered \cup {b} /\ listed' = listed
    BY <1>12 DEF Forget
  <2>2. seen'[a] = seen[a]
    BY <2>1 DEF LedgerInv, CopiesInv, StreamTyped, Ledgers
  <2> QED
    BY <1>1, <2>1, <2>2
<1> QED
  BY <1>4, <1>5, <1>6, <1>7, <1>8, <1>9, <1>10, <1>11, <1>12 DEF Next, Paging, Faults

\* An ask the page has seen closed stays closed and off its list, whatever
\* arrives late, answers of fetches included (attentionOrder.ts): if its stamps
\* order it and the ledger has not pushed it out.
THEOREM ClosedStays == Spec => ClosedStaysOff
<1>1. LedgerInv /\ [Next]_vars =>
        [\A a \in Asks \ unordered' :
           seen[a].closed => seen'[a].closed /\ a \notin listed']_vars
  BY ClosedStep
<1> QED
  BY <1>1, LedgerSound, PTL DEF Spec, ClosedStaysOff

-----------------------------------------------------------------------------
(* The newest version of an ask is not lost on the page without trace: every *)
(* event that goes astray, or that no queue holds, is known to history.      *)

\* A page that comes up has missed nothing yet, and waits for its first fetch.
LEMMA ShownInit == Init => ShownInv
<1> SUFFICES ASSUME Init PROVE ShownInv
  OBVIOUS
<1>1. LedgerInv
  BY LedgerInit
<1>2. raced # None /\ fetch = [f \in Fetches |-> IF f = raced THEN Sent ELSE NoFetch]
  BY FetchesAssumption DEF Init, AnyOf
<1>3. \A f \in Live : fetch[f].at # "answered"
  BY <1>2, SentIs DEF Live
<1>4. ASSUME NEW a \in Asks PROVE Accounted(a)
  <2>1. missed[a] = 0 /\ row[a].ver = 0
    BY DEF Init, Unraised
  <2> QED
    BY <2>1 DEF Accounted
<1> QED
  BY <1>1, <1>2, <1>3, <1>4 DEF ShownInv

\* A step that leaves the page as it is, and either leaves an ask as it is with
\* its event no further off, or makes a version whose event is to come.
LEMMA ShownKeeps ==
  ASSUME ShownInv, LedgerInv', UNCHANGED <<missed, listed, seen, fetch, raced, failed, doubt>>,
         unordered \subseteq unordered',
         \A a \in Asks \ unordered' :
           /\ missed[a] <= row'[a].ver
           /\ Underway(a)' \/ (row'[a] = row[a] /\ (Underway(a) => Underway(a)'))
  PROVE  ShownInv'
<1> SUFFICES ASSUME NEW a \in Asks \ unordered'
             PROVE  /\ Accounted(a)'
                    /\ (\A f \in Live : fetch[f].at = "answered" => WillShow(f, a))'
                    /\ (raced = None /\ ~failed /\ a \notin doubt => Showing(a))'
  BY DEF ShownInv
<1>1. /\ Accounted(a)
      /\ \A f \in Live : fetch[f].at = "answered" => WillShow(f, a)
      /\ raced = None /\ ~failed /\ a \notin doubt => Showing(a)
  BY DEF ShownInv
<1>2. CASE Underway(a)'
  BY <1>2 DEF Accounted, WillShow, Showing
<1>3. CASE row'[a] = row[a] /\ (Underway(a) => Underway(a)')
  BY <1>1, <1>3 DEF Accounted, Heard, Newest, WillShow, Showing, Exact, FoundOf, ListedFor, Live
<1> QED
  BY <1>2, <1>3

\* A step that leaves the rows and the page as they are, and loses no event.
LEMMA ShownStill ==
  ASSUME ShownInv, LedgerInv', UNCHANGED <<row, missed, listed, seen, fetch, raced, failed, doubt>>,
         unordered \subseteq unordered', \A a \in Asks : Underway(a) => Underway(a)'
  PROVE  ShownInv'
<1>1. \A a \in Asks \ unordered' : missed[a] <= row'[a].ver
  BY DEF ShownInv, Accounted
<1> QED
  BY <1>1, ShownKeeps

\* What goes astray is known to: what was missed of its ask, the fetches that
\* were answered, and the doubt about what the page shows.
LEMMA ShownAstray ==
  ASSUME ShownInv, LedgerInv', NEW events \in SUBSET Versions, \A e \in events : Copy(e),
         GoAstray(events), UNCHANGED <<row, listed, seen, raced, failed>>,
         \A a \in Asks : Underway(a) => Underway(a)' \/ row[a] \in events
  PROVE  ShownInv'
<1>1. LedgerInv /\ StreamTyped
  BY DEF ShownInv, LedgerInv, CopiesInv
<1>2. /\ missed' \in [Asks -> Nat]
      /\ \A a \in Asks :
           /\ missed[a] <= missed'[a]
           /\ missed'[a] = missed[a] \/ \E e \in events : e.ask = a /\ missed'[a] = e.ver
      /\ \A e \in events : e.ver <= missed'[e.ask]
  BY <1>1, MissedIs
<1>3. /\ Live' = Live
      /\ \A f \in Live :
           /\ fetch'[f].at = fetch[f].at /\ fetch'[f].answer = fetch[f].answer
           /\ fetch'[f].queue = fetch[f].queue /\ fetch[f].lost \subseteq fetch'[f].lost
           /\ fetch[f].at = "answered" => AsksOf(events) \subseteq fetch'[f].lost
  BY <1>1, AstrayIs
<1>4. doubt' = doubt \cup AsksOf({r \in events : ~Stale(seen, r)}) /\ unordered' = unordered
  BY DEF GoAstray
<1> SUFFICES ASSUME NEW a \in Asks \ unordered
             PROVE  /\ Accounted(a)'
                    /\ (\A f \in Live : fetch[f].at = "answered" => WillShow(f, a))'
                    /\ (raced = None /\ ~failed /\ a \notin doubt => Showing(a))'
  BY <1>4 DEF ShownInv
<1>5. /\ Accounted(a)
      /\ \A f \in Live : fetch[f].at = "answered" => WillShow(f, a)
      /\ raced = None /\ ~failed /\ a \notin doubt => Showing(a)
  BY DEF ShownInv
<1>6. /\ row[a] \in Versions /\ row[a].ask = a /\ row[a].ver \in Nat /\ missed[a] \in Nat
      /\ missed'[a] \in Nat
  BY <1>1, <1>2 DEF StreamTyped, Versions
<1>7. missed'[a] <= row[a].ver
  <2>1. \A e \in events : e.ask = a => e.ver <= row[a].ver
    BY DEF Copy
  <2> QED
    BY <1>2, <1>5, <2>1 DEF Accounted
<1>8. CASE row[a] \in events
  <2>1. missed'[a] = row[a].ver
    BY <1>2, <1>6, <1>7, <1>8
  <2>2. a \in AsksOf(events)
    BY <1>6, <1>8 DEF AsksOf
  <2>3. ~Stale(seen, row[a])
    <3>1. UpTo(seen[a], row[a]) /\ seen[a] \in [at : Nat, closed : BOOLEAN]
      BY <1>1 DEF LedgerInv, StreamTyped, Ledgers
    <3> QED
      BY <1>6, <3>1 DEF UpTo, Stale, Versions
  <2>4. a \in doubt'
    <3>1. a \in AsksOf({r \in events : ~Stale(seen, r)})
      BY <1>6, <1>8, <2>3 DEF AsksOf
    <3> QED
      BY <1>4, <3>1
  <2>5. Accounted(a)'
    BY <1>7, <2>1 DEF Accounted
  <2>6. (\A f \in Live : fetch[f].at = "answered" => WillShow(f, a))'
    BY <1>3, <2>2 DEF WillShow
  <2> QED
    BY <2>4, <2>5, <2>6
<1>9. CASE row[a] \notin events
  <2>1. Underway(a) => Underway(a)'
    BY <1>9
  <2>2. Heard(a) <=> Heard(a)'
    BY DEF Heard
  <2>3. missed[a] = row[a].ver => missed'[a] = row[a].ver
    BY <1>2, <1>6, <1>7
  <2>4. Accounted(a)'
    BY <1>5, <1>7, <2>1, <2>2, <2>3 DEF Accounted
  <2>5. ASSUME NEW f \in Live', fetch'[f].at = "answered" PROVE WillShow(f, a)'
    <3>1. WillShow(f, a) /\ fetch'[f].answer = fetch[f].answer
          /\ fetch'[f].queue = fetch[f].queue /\ fetch[f].lost \subseteq fetch'[f].lost
      BY <1>3, <1>5, <2>5
    <3>2. Exact(a, fetch[f].answer) => Exact(a, fetch[f].answer)'
      BY <3>1 DEF Exact, FoundOf, ListedFor
    <3> QED
      BY <2>1, <3>1, <3>2 DEF WillShow
  <2>6. (raced = None /\ ~failed /\ a \notin doubt => Showing(a))'
    BY <1>4, <1>5, <2>1 DEF Showing, ListedFor
  <2> QED
    BY <2>4, <2>5, <2>6
<1> QED
  BY <1>8, <1>9

\* A handler that takes its stamp, writes, publishes.
LEMMA ShownWriters ==
  ASSUME ShownInv, NEW w \in Writers,
         Write(w) \/ Publish(w) \/ \E a \in Asks, s \in Statuses : TakeStamp(w, a, s)
  PROVE  ShownInv'
<1>1. LedgerInv' /\ StreamTyped /\ CopiesInv
  <2>1. LedgerInv
    BY DEF ShownInv
  <2> QED
    BY <2>1, LedgerTakeStamp, LedgerWrite, LedgerPublish DEF LedgerInv, CopiesInv
<1>2. row \in [Asks -> Versions] /\ job \in [Writers -> Jobs] /\ missed \in [Asks -> Nat]
  BY <1>1 DEF StreamTyped
<1>3. ASSUME NEW a \in Asks, NEW s \in Statuses, TakeStamp(w, a, s) PROVE ShownInv'
  <2>1. UNCHANGED <<row, wire, pipe, missed, listed, seen, fetch, raced, failed, doubt, unordered>>
    BY <1>3 DEF TakeStamp, stream, page, history
  <2>2. \A v \in Writers : job[v].at = "written" => job'[v] = job[v]
    BY <1>2, <1>3 DEF TakeStamp, IdleJob
  <2>3. \A b \in Asks : Underway(b) => Underway(b)'
    BY <2>1, <2>2 DEF Underway
  <2> QED
    BY <1>1, <2>1, <2>3, ShownStill
<1>4. CASE Publish(w)
  <2> DEFINE r == job[w].row
  <2>1. r \in Versions /\ Copy(r)
    BY <1>1, <1>4 DEF Publish, CopiesInv, StreamTyped, Jobs, IdleJob
  <2>2. /\ UNCHANGED <<row, pipe, listed, seen, raced, failed>>
        /\ \/ wire' = wire \cup {r} /\ UNCHANGED <<fetch, history>>
           \/ GoAstray({r}) /\ wire' = wire
        /\ \A v \in Writers : v # w => job'[v] = job[v]
    BY <1>2, <1>4 DEF Publish, stream
  <2>3. CASE wire' = wire \cup {r} /\ UNCHANGED <<fetch, history>>
    <3>1. \A b \in Asks : Underway(b) => Underway(b)'
      BY <2>2, <2>3 DEF Underway
    <3> QED
      BY <1>1, <2>2, <2>3, <3>1, ShownStill DEF history
  <2>4. CASE GoAstray({r}) /\ wire' = wire
    <3>1. \A b \in Asks : Underway(b) => Underway(b)' \/ row[b] \in {r}
      BY <2>2, <2>4 DEF Underway
    <3>2. {r} \in SUBSET Versions /\ \A e \in {r} : Copy(e)
      BY <2>1
    <3> HIDE DEF r
    <3> QED
      BY <1>1, <2>2, <2>4, <3>1, <3>2, ShownAstray
  <2> QED
    BY <2>2, <2>3, <2>4
<1>5. CASE Write(w)
  <2>1. /\ UNCHANGED <<wire, pipe, missed, listed, seen, fetch, raced, failed, doubt>>
        /\ job[w].at = "stamped" /\ unordered \subseteq unordered'
    BY <1>1, <1>5, WriteIs DEF Write, stream, page
  <2>2. CASE row' = row /\ job' = [job EXCEPT ![w] = IdleJob]
    <3>1. \A v \in Writers : job[v].at = "written" => job'[v] = job[v]
      BY <1>2, <2>1, <2>2
    <3>2. \A b \in Asks : Underway(b) => Underway(b)'
      BY <2>1, <2>2, <3>1 DEF Underway
    <3> QED
      BY <1>1, <2>1, <2>2, <3>2, ShownStill
  <2>3. CASE \E b \in Asks, new \in Versions : Moves(w, b, new)
    <3>1. PICK b \in Asks, new \in Versions : Moves(w, b, new)
      BY <2>3
    <3>2. /\ row' = [row EXCEPT ![b] = new] /\ new.ver = row[b].ver + 1
          /\ job' = [job EXCEPT ![w] = [at |-> "written", row |-> new]]
      BY <3>1 DEF Moves
    <3>3. ASSUME NEW a \in Asks \ unordered'
          PROVE  /\ missed[a] <= row'[a].ver
                 /\ Underway(a)' \/ (row'[a] = row[a] /\ (Underway(a) => Underway(a)'))
      <4>1. missed[a] <= row[a].ver /\ missed[a] \in Nat /\ row[a].ver \in Nat
        BY <1>2, <2>1 DEF ShownInv, Accounted, Versions
      <4>2. CASE a = b
        <5>1. row'[a] = new /\ job'[w].at = "written" /\ job'[w].row = new
          BY <1>2, <3>2, <4>2
        <5>2. Underway(a)'
          BY <5>1 DEF Underway
        <5> QED
          BY <3>2, <4>1, <4>2, <5>1, <5>2
      <4>3. CASE a # b
        <5>1. row'[a] = row[a]
          BY <1>2, <3>2, <4>3
        <5>2. \A v \in Writers : job[v].at = "written" => job'[v] = job[v]
          BY <1>2, <2>1, <3>2
        <5>3. Underway(a) => Underway(a)'
          BY <2>1, <5>1, <5>2 DEF Underway
        <5> QED
          BY <4>1, <5>1, <5>3
      <4> QED
        BY <4>2, <4>3
    <3> QED
      BY <1>1, <2>1, <3>3, ShownKeeps
  <2> QED
    BY <1>1, <1>5, <2>2, <2>3, WriteIs
<1> QED
  BY <1>3, <1>4, <1>5

\* An event goes to the page that is subscribed, and astray otherwise.
LEMMA ShownBroadcast ==
  ASSUME ShownInv, NEW r \in wire, Broadcast(r)
  PROVE  ShownInv'
<1>1. LedgerInv' /\ StreamTyped /\ r \in Versions /\ Copy(r)
  <2>1. LedgerInv
    BY DEF ShownInv
  <2> QED
    BY <2>1, LedgerBroadcast DEF LedgerInv, CopiesInv, StreamTyped
<1>2. /\ UNCHANGED <<row, job, listed, seen, raced, failed>> /\ wire' = wire \ {r}
      /\ \/ pipe' = Append(pipe, r) /\ UNCHANGED <<fetch, history>>
         \/ GoAstray({r}) /\ pipe' = pipe
  BY DEF Broadcast
<1>3. CASE pipe' = Append(pipe, r) /\ UNCHANGED <<fetch, history>>
  <2>1. /\ \A i \in DOMAIN pipe : i \in DOMAIN pipe' /\ pipe'[i] = pipe[i]
        /\ Len(pipe) + 1 \in DOMAIN pipe' /\ pipe'[Len(pipe) + 1] = r
    BY <1>1, <1>3 DEF StreamTyped
  <2>2. \A a \in Asks : Underway(a) => Underway(a)'
    BY <1>2, <2>1 DEF Underway
  <2> QED
    BY <1>1, <1>2, <1>3, <2>2, ShownStill DEF history
<1>4. CASE GoAstray({r}) /\ pipe' = pipe
  <2>1. \A a \in Asks : Underway(a) => Underway(a)' \/ row[a] \in {r}
    BY <1>2, <1>4 DEF Underway
  <2>2. {r} \in SUBSET Versions /\ \A e \in {r} : Copy(e)
    BY <1>1
  <2> QED
    BY <1>1, <1>2, <1>4, <2>1, <2>2, ShownAstray
<1> QED
  BY <1>2, <1>3, <1>4

\* A stream that is subscribed, lost or asked for again carries what it carried.
LEMMA ShownStream ==
  ASSUME ShownInv, Subscribe \/ LoseSubscription \/ Reconnect
  PROVE  ShownInv'
<1>1. LedgerInv'
  BY LedgerStream DEF ShownInv
<1>2. UNCHANGED <<row, job, wire, pipe, missed, listed, seen, fetch, raced, failed, doubt, unordered>>
  BY DEF Subscribe, LoseSubscription, Reconnect, store, page, history
<1>3. \A a \in Asks : Underway(a) => Underway(a)'
  BY <1>2 DEF Underway
<1> QED
  BY <1>1, <1>2, <1>3, ShownStill

\* What a stream that ends was carrying goes astray.
LEMMA ShownDrop ==
  ASSUME ShownInv, Drop
  PROVE  ShownInv'
<1>1. LedgerInv' /\ StreamTyped /\ CopiesInv
  BY LedgerDrop DEF ShownInv, LedgerInv, CopiesInv
<1> DEFINE events == {pipe[i] : i \in DOMAIN pipe}
<1>2. UNCHANGED <<row, job, wire, listed, seen, raced, failed>> /\ GoAstray(events)
  BY DEF Drop, store
<1>3. events \in SUBSET Versions /\ \A e \in events : Copy(e)
  BY <1>1 DEF StreamTyped, CopiesInv
<1>4. \A a \in Asks : Underway(a) => Underway(a)' \/ row[a] \in events
  BY <1>2 DEF Underway
<1> HIDE DEF events
<1> QED
  BY <1>1, <1>2, <1>3, <1>4, ShownAstray

\* A page that asks for the list again waits for the answer.
LEMMA ShownRefresh ==
  ASSUME ShownInv, Opened \/ Reload
  PROVE  ShownInv'
<1>1. LedgerInv' /\ StreamTyped
  BY LedgerRefresh DEF ShownInv, LedgerInv, CopiesInv
<1>2. /\ UNCHANGED <<row, job, wire, pipe, missed, listed, seen, failed, unordered>>
      /\ UNCHANGED <<fetch, raced, doubt>> \/ Refresh
  BY DEF Opened, Reload, store, stream, history
<1>3. \A a \in Asks : Underway(a) <=> Underway(a)'
  BY <1>2 DEF Underway
<1>4. CASE UNCHANGED <<fetch, raced, doubt>>
  BY <1>1, <1>2, <1>3, <1>4, ShownStill
<1>5. CASE Refresh
  <2>1. raced' # None /\ \A f \in Live' : (f \in Live /\ fetch'[f] = fetch[f]) \/ fetch'[f] = Sent
    BY <1>1, <1>5, RefreshIs
  <2>2. \A a \in Asks \ unordered : Accounted(a)'
    BY <1>2, <1>3 DEF ShownInv, Accounted, Heard
  <2>3. ASSUME NEW a \in Asks \ unordered, NEW f \in Live', fetch'[f].at = "answered"
        PROVE  WillShow(f, a)'
    <3>1. f \in Live /\ fetch'[f] = fetch[f] /\ WillShow(f, a)
      BY <2>1, <2>3, SentIs DEF ShownInv
    <3>2. Exact(a, fetch[f].answer) => Exact(a, fetch[f].answer)'
      BY <1>2, <3>1 DEF Exact, FoundOf, ListedFor
    <3> QED
      BY <1>2, <1>3, <3>1, <3>2 DEF WillShow
  <2> QED
    BY <1>1, <1>2, <2>1, <2>2, <2>3 DEF ShownInv
<1> QED
  BY <1>2, <1>4, <1>5

\* The ledger forgets an ask, of which the page is then held to nothing.
LEMMA ShownForget ==
  ASSUME ShownInv, NEW b \in Asks, Forget(b)
  PROVE  ShownInv'
<1>1. LedgerInv' /\ StreamTyped
  BY LedgerForget DEF ShownInv, LedgerInv, CopiesInv
<1>2. /\ UNCHANGED <<row, job, wire, pipe, listed, fetch, raced, failed, missed, doubt>>
      /\ seen' = [seen EXCEPT ![b] = Unseen] /\ unordered' = unordered \cup {b}
  BY DEF Forget, store, stream
<1> SUFFICES ASSUME NEW a \in Asks \ unordered'
             PROVE  /\ Accounted(a)'
                    /\ (\A f \in Live : fetch[f].at = "answered" => WillShow(f, a))'
                    /\ (raced = None /\ ~failed /\ a \notin doubt => Showing(a))'
  BY <1>1 DEF ShownInv
<1>3. /\ Accounted(a)
      /\ \A f \in Live : fetch[f].at = "answered" => WillShow(f, a)
      /\ raced = None /\ ~failed /\ a \notin doubt => Showing(a)
  BY <1>2 DEF ShownInv
<1>4. seen'[a] = seen[a]
  BY <1>1, <1>2 DEF StreamTyped, Ledgers
<1>5. (Underway(a) <=> Underway(a)') /\ (Heard(a) <=> Heard(a)')
  BY <1>2, <1>4 DEF Underway, Heard
<1>6. \A f : Exact(a, fetch[f].answer) <=> Exact(a, fetch[f].answer)'
  BY <1>2 DEF Exact, FoundOf, ListedFor
<1> QED
  BY <1>2, <1>3, <1>5, <1>6 DEF Accounted, WillShow, Showing, ListedFor, Live

\* Whatever the store answers with is what the rows are.
LEMMA ShownAnswer ==
  ASSUME ShownInv, NEW f \in Fetches, Answer(f)
  PROVE  ShownInv'
<1>1. LedgerInv' /\ StreamTyped
  BY LedgerAnswer DEF ShownInv, LedgerInv, CopiesInv
<1>2. UNCHANGED <<row, job, wire, pipe, missed, listed, seen, raced, failed, doubt, unordered>>
  BY DEF Answer, store, stream, history
<1> DEFINE found == {row[a] : a \in StoreList}
           answered == [at |-> "answered", answer |-> found, queue |-> fetch[f].queue,
                        lost |-> fetch[f].lost]
<1>3. /\ Live' = Live /\ fetch' = [fetch EXCEPT ![f] = answered]
      /\ \A a \in Asks : Exact(a, found)
  BY <1>1, AnswerIs
<1>4. answered.answer = found
  OBVIOUS
<1> HIDE DEF found, answered
<1>5. Live \subseteq Fetches /\ fetch'[f].answer = found
      /\ \A g \in Live : g # f => fetch'[g] = fetch[g]
  BY <1>1, <1>3, <1>4 DEF StreamTyped, Live
<1>6. \A a \in Asks : (Underway(a) <=> Underway(a)') /\ (Heard(a) <=> Heard(a)')
  BY <1>2 DEF Underway, Heard
<1>7. \A a \in Asks \ unordered :
        /\ Accounted(a)'
        /\ (raced = None /\ ~failed /\ a \notin doubt => Showing(a))'
  BY <1>2, <1>6 DEF ShownInv, Accounted, Showing, ListedFor
<1>8. ASSUME NEW a \in Asks \ unordered, NEW g \in Live', fetch'[g].at = "answered"
      PROVE  WillShow(g, a)'
  <2>1. CASE g = f
    <3>1. Exact(a, fetch[g].answer)'
      BY <1>2, <1>3, <1>5, <2>1 DEF Exact, FoundOf, ListedFor
    <3> QED
      BY <3>1 DEF WillShow
  <2>2. CASE g # f
    <3>1. fetch'[g] = fetch[g] /\ WillShow(g, a)
      BY <1>3, <1>5, <1>8, <2>2 DEF ShownInv
    <3>2. Exact(a, fetch[g].answer) => Exact(a, fetch[g].answer)'
      BY <1>2, <3>1 DEF Exact, FoundOf, ListedFor
    <3> QED
      BY <1>2, <1>6, <3>1, <3>2 DEF WillShow
  <2> QED
    BY <2>1, <2>2
<1> QED
  BY <1>1, <1>2, <1>7, <1>8 DEF ShownInv

\* The answer of a fetch shows each ask it covers whose event is not to come.
LEMMA ShownFetched ==
  ASSUME ShownInv, NEW f \in Fetches, Fetched(f)
  PROVE  ShownInv'
<1>1. LedgerInv /\ StreamTyped /\ LedgerInv'
  BY LedgerFetchEnds DEF ShownInv, LedgerInv, CopiesInv
<1>2. /\ UNCHANGED <<row, job, wire, pipe, missed, unordered>>
      /\ failed' = FALSE /\ Ends(f) /\ fetch[f].at = "answered"
      /\ doubt' = {a \in Asks : ~Covers(f, a)}
  BY DEF Fetched, store, stream, Ends
<1>3. f \in Live /\ fetch[f] \in Fetching
  BY <1>1, <1>2 DEF StreamTyped, Live, NoFetch
<1>4. Live' = Live \ {f} /\ \A g \in Live' : fetch'[g] = fetch[g]
  BY <1>1, <1>2, EndsIs
<1> SUFFICES ASSUME NEW a \in Asks \ unordered
             PROVE  /\ Accounted(a)'
                    /\ (\A g \in Live : fetch[g].at = "answered" => WillShow(g, a))'
                    /\ (raced = None /\ ~failed /\ a \notin doubt => Showing(a))'
  BY <1>1, <1>2 DEF ShownInv
<1>5. (Underway(a) <=> Underway(a)') /\ (Heard(a) => Heard(a)')
  BY <1>1, <1>2, FetchedIs DEF Underway, Heard, Newest
<1>6. Accounted(a) /\ Accounted(a)'
  BY <1>2, <1>5 DEF ShownInv, Accounted
<1>7. ASSUME NEW g \in Live', fetch'[g].at = "answered" PROVE WillShow(g, a)'
  <2>1. fetch'[g] = fetch[g] /\ WillShow(g, a)
    BY <1>4, <1>7 DEF ShownInv
  <2>2. Exact(a, fetch[g].answer) => Exact(a, fetch[g].answer)'
    BY <1>2, <2>1 DEF Exact, FoundOf, ListedFor
  <2> QED
    BY <1>2, <1>5, <2>1, <2>2 DEF WillShow
<1>8. ASSUME a \notin doubt', ~Underway(a)
      PROVE  a \in listed' <=> ListedFor(row[a])
  <2>1. /\ a \notin fetch[f].lost
        /\ \A i \in DOMAIN fetch[f].queue :
             fetch[f].queue[i].ask = a => fetch[f].queue[i].ver >= missed[a]
    BY <1>2, <1>8 DEF Covers
  <2>2. \/ Exact(a, fetch[f].answer)
        \/ \E i \in DOMAIN fetch[f].queue : fetch[f].queue[i] = row[a]
    BY <1>2, <1>3, <1>8, <2>1 DEF ShownInv, WillShow
  <2>3. CASE \E i \in DOMAIN fetch[f].queue : fetch[f].queue[i] = row[a]
    BY <1>1, <2>3, FetchedIs
  <2>4. CASE Exact(a, fetch[f].answer) /\ Heard(a)
    BY <1>1, <2>4, FetchedIs
  <2>5. CASE Exact(a, fetch[f].answer) /\ missed[a] = row[a].ver
    <3>1. ASSUME NEW i \in DOMAIN fetch[f].queue, fetch[f].queue[i].ask = a
          PROVE  fetch[f].queue[i] = row[a]
      <4> DEFINE e == fetch[f].queue[i]
      <4>1. e.ver >= row[a].ver
        BY <2>1, <2>5, <3>1
      <4>2. e = row[a] \/ Before(e, row[a])
        BY <1>1, <1>3, <3>1 DEF LedgerInv, CopiesInv, Copy, CopyOf
      <4>3. row[a] \in Versions /\ e \in Versions
        BY <1>1, <1>3 DEF StreamTyped, Fetching
      <4> HIDE DEF e
      <4>4. e = row[a]
        BY <4>1, <4>2, <4>3 DEF Before, Versions
      <4> QED
        BY <4>4 DEF e
    <3> QED
      BY <1>1, <2>5, <3>1, FetchedIs
  <2>6. Heard(a) \/ missed[a] = row[a].ver
    BY <1>6, <1>8 DEF Accounted
  <2> QED
    BY <2>2, <2>3, <2>4, <2>5, <2>6
<1>9. (raced = None /\ ~failed /\ a \notin doubt => Showing(a))'
  BY <1>2, <1>5, <1>8 DEF Showing, ListedFor
<1> QED
  BY <1>6, <1>7, <1>9

\* A fetch that fails leaves a page that says so.
LEMMA ShownFetchFails ==
  ASSUME ShownInv, NEW f \in Fetches, FetchFails(f)
  PROVE  ShownInv'
<1>1. LedgerInv' /\ StreamTyped
  BY LedgerFetchEnds DEF ShownInv, LedgerInv, CopiesInv
<1>2. /\ UNCHANGED <<row, job, wire, pipe, missed, seen, unordered>>
      /\ failed' = TRUE /\ Ends(f)
  BY DEF FetchFails, store, stream, history, Ends
<1>3. Live' = Live \ {f} /\ \A g \in Live' : fetch'[g] = fetch[g]
  BY <1>1, <1>2, EndsIs
<1>4. \A a \in Asks : (Underway(a) <=> Underway(a)') /\ (Heard(a) <=> Heard(a)')
  BY <1>2 DEF Underway, Heard
<1>5. \A a \in Asks \ unordered : Accounted(a)'
  BY <1>2, <1>4 DEF ShownInv, Accounted
<1>6. ASSUME NEW a \in Asks \ unordered, NEW g \in Live', fetch'[g].at = "answered"
      PROVE  WillShow(g, a)'
  <2>1. fetch'[g] = fetch[g] /\ WillShow(g, a)
    BY <1>3, <1>6 DEF ShownInv
  <2>2. Exact(a, fetch[g].answer) => Exact(a, fetch[g].answer)'
    BY <1>2, <2>1 DEF Exact, FoundOf, ListedFor
  <2> QED
    BY <1>2, <1>4, <2>1, <2>2 DEF WillShow
<1> QED
  BY <1>1, <1>2, <1>5, <1>6 DEF ShownInv

\* An event that is received is shown, or found older than what the page shows,
\* or known to be a straggler; the fetches under way will apply it or miss it.
LEMMA ShownReceive ==
  ASSUME ShownInv, Receive
  PROVE  ShownInv'
<1>1. LedgerInv /\ StreamTyped /\ LedgerInv'
  BY LedgerReceive DEF ShownInv, LedgerInv, CopiesInv
<1> DEFINE e == Head(pipe)
<1>2. /\ UNCHANGED <<row, job, wire, missed, raced, failed, unordered>>
      /\ doubt' = IF e.ver < missed[e.ask] /\ ~Stale(seen, e) THEN doubt \cup {e.ask} ELSE doubt
  BY DEF Receive, store
<1>3. /\ e \in Versions /\ Copy(e) /\ 1 \in DOMAIN pipe /\ e = pipe[1]
      /\ Stale(seen, e) => listed' = listed
      /\ \A a \in Asks \ unordered :
           /\ Heard(a) => Newest(seen'[a], row[a])
           /\ e = row[a] => Newest(seen'[a], row[a]) /\ (a \in listed' <=> ListedFor(row[a]))
           /\ (a \in listed <=> ListedFor(row[a])) /\ (Heard(a) \/ e.ask # a)
                => (a \in listed' <=> ListedFor(row[a]))
  BY <1>1, ReceiveIs
<1>4. /\ \A i \in DOMAIN pipe : i = 1 \/ (i - 1 \in DOMAIN pipe' /\ pipe'[i - 1] = pipe[i])
      /\ Live' = Live
      /\ \A f \in Live :
           /\ fetch'[f].at = fetch[f].at /\ fetch'[f].answer = fetch[f].answer
           /\ fetch'[f].queue = IF f = raced THEN Append(fetch[f].queue, e) ELSE fetch[f].queue
           /\ fetch[f].lost \subseteq fetch'[f].lost
           /\ f # raced /\ fetch[f].at = "answered" => e.ask \in fetch'[f].lost
  BY <1>1, ReceiveMoves
<1> HIDE DEF e
<1> SUFFICES ASSUME NEW a \in Asks \ unordered
             PROVE  /\ Accounted(a)'
                    /\ (\A f \in Live : fetch[f].at = "answered" => WillShow(f, a))'
                    /\ (raced = None /\ ~failed /\ a \notin doubt => Showing(a))'
  BY <1>1, <1>2 DEF ShownInv
<1>5. /\ Accounted(a) /\ row[a] \in Versions /\ row[a].ask = a
      /\ \A f \in Live : fetch[f].at = "answered" => WillShow(f, a)
      /\ raced = None /\ ~failed /\ a \notin doubt => Showing(a)
  BY <1>1 DEF ShownInv, StreamTyped
<1>6. Underway(a) => Underway(a)' \/ e = row[a]
  BY <1>2, <1>3, <1>4 DEF Underway
<1>7. Accounted(a)'
  <2>1. Heard(a) \/ e = row[a] => Heard(a)'
    BY <1>2, <1>3 DEF Heard
  <2> QED
    BY <1>2, <1>5, <1>6, <2>1 DEF Accounted
<1>8. ASSUME NEW f \in Live', fetch'[f].at = "answered" PROVE WillShow(f, a)'
  <2> DEFINE queue == fetch[f].queue
             n == Len(queue) + 1
  <2>1. /\ f \in Live /\ fetch[f].at = "answered" /\ WillShow(f, a)
        /\ fetch'[f].answer = fetch[f].answer /\ fetch[f].lost \subseteq fetch'[f].lost
    BY <1>4, <1>5, <1>8
  <2>2. queue \in Seq(Versions)
    BY <1>1, <2>1 DEF StreamTyped, Live, Fetching
  <2>3. /\ \A i \in DOMAIN queue :
             i \in DOMAIN fetch'[f].queue /\ fetch'[f].queue[i] = queue[i]
        /\ f = raced => n \in DOMAIN fetch'[f].queue /\ fetch'[f].queue[n] = e
    <3>1. e \in Versions /\ fetch'[f].queue = IF f = raced THEN Append(queue, e) ELSE queue
      BY <1>3, <1>4, <2>1
    <3> HIDE DEF queue
    <3>2. CASE f = raced
      BY <2>2, <3>1, <3>2
    <3>3. CASE f # raced
      BY <3>1, <3>3
    <3> QED
      BY <3>2, <3>3
  <2>4. f # raced => e.ask \in fetch'[f].lost
    BY <1>4, <2>1
  <2>5. Exact(a, fetch[f].answer) => Exact(a, fetch[f].answer)'
    BY <1>2, <2>1 DEF Exact, FoundOf, ListedFor
  <2>6. \/ Underway(a) \/ Exact(a, fetch[f].answer)
        \/ \E i \in DOMAIN queue : queue[i] = row[a]
        \/ a \in fetch[f].lost
    BY <2>1 DEF WillShow
  <2> HIDE DEF queue, n
  <2>7. CASE e = row[a]
    <3>1. CASE f = raced
      BY <1>2, <2>3, <2>7, <3>1 DEF WillShow
    <3>2. CASE f # raced
      BY <1>5, <2>4, <2>7, <3>2 DEF WillShow
    <3> QED
      BY <3>1, <3>2
  <2>8. CASE e # row[a]
    BY <1>2, <1>6, <2>1, <2>3, <2>5, <2>6, <2>8 DEF WillShow
  <2> QED
    BY <2>7, <2>8
<1>9. ASSUME raced = None, ~failed, a \notin doubt', ~Underway(a)'
      PROVE  a \in listed' <=> ListedFor(row[a])
  <2>1. CASE e = row[a]
    BY <1>3, <2>1
  <2>2. CASE e # row[a]
    <3>1. ~Underway(a)
      BY <1>6, <1>9, <2>2
    <3>2. a \in listed <=> ListedFor(row[a])
      BY <1>2, <1>5, <1>9, <3>1 DEF Showing
    <3>3. CASE Heard(a) \/ e.ask # a
      BY <1>3, <3>2, <3>3
    <3>4. CASE Stale(seen, e)
      BY <1>3, <3>2, <3>4
    <3>5. CASE e.ask = a /\ ~Heard(a) /\ ~Stale(seen, e)
      <4>1. missed[a] = row[a].ver
        BY <1>5, <3>1, <3>5 DEF Accounted
      <4>2. Before(e, row[a])
        BY <1>3, <2>2, <3>5 DEF Copy, CopyOf
      <4>3. e.ver < missed[a]
        BY <4>1, <4>2 DEF Before
      <4>4. a \in doubt'
        BY <1>2, <3>5, <4>3
      <4> QED
        BY <1>9, <4>4
    <3> QED
      BY <3>3, <3>4, <3>5
  <2> QED
    BY <2>1, <2>2
<1>10. (raced = None /\ ~failed /\ a \notin doubt => Showing(a))'
  BY <1>2, <1>9 DEF Showing, ListedFor
<1> QED
  BY <1>7, <1>8, <1>10

\* Every step keeps what the page shows, is still to hear, or is not held to.
LEMMA ShownNext ==
  ASSUME ShownInv, [Next]_vars
  PROVE  ShownInv'
<1>1. CASE \E w \in Writers, a \in Asks, s \in Statuses : TakeStamp(w, a, s)
  BY <1>1, ShownWriters
<1>2. CASE Writing
  BY <1>2, ShownWriters DEF Writing
<1>3. CASE Fanning
  BY <1>3, ShownBroadcast DEF Fanning
<1>4. CASE Paging
  BY <1>4, ShownStream, ShownRefresh, ShownReceive, ShownAnswer, ShownFetched DEF Paging
<1>5. CASE Faults
  BY <1>5, ShownStream, ShownDrop, ShownRefresh, ShownFetchFails, ShownForget DEF Faults
<1>6. CASE UNCHANGED vars
  <2>1. UNCHANGED <<row, job, wire, pipe, missed, listed, seen, fetch, raced, failed, doubt,
                    unordered>>
    BY <1>6 DEF vars, store, stream, page, history
  <2>2. LedgerInv'
    BY <1>6, LedgerNext DEF ShownInv
  <2>3. \A a \in Asks : Underway(a) => Underway(a)'
    BY <2>1 DEF Underway
  <2> QED
    BY <2>1, <2>2, <2>3, ShownStill
<1> QED
  BY <1>1, <1>2, <1>3, <1>4, <1>5, <1>6 DEF Next

\* On a page with nothing on its way to it, no event is to come and no fetch
\* awaited: it shows each row it may be held to.
LEMMA SettledIsShown == ShownInv => SettledShowsStore
<1> SUFFICES ASSUME ShownInv, Settled, NEW a \in Sure PROVE a \in listed <=> ListedFor(row[a])
  BY DEF SettledShowsStore, ShowsStore
<1>1. ~Underway(a)
  BY DEF Settled, Underway, IdleJob
<1>2. raced = None
  BY DEF Settled, ShownInv, LedgerInv, CopiesInv, StreamTyped
<1> QED
  BY <1>1, <1>2 DEF ShownInv, Showing, Settled, Sure

\* A live page with nothing on its way to it shows what the store holds of every
\* ask it may be held to, whichever events were lost and however fetches overlap.
THEOREM SettledShows == Spec => []SettledShowsStore
<1>1. ShownInv /\ [Next]_vars => ShownInv'
  BY ShownNext
<1> QED
  BY <1>1, ShownInit, SettledIsShown, PTL DEF Spec
=============================================================================
