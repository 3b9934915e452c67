-------------------------- MODULE AttentionAskProofs --------------------------
(***************************************************************************)
(* An ask closes with its last commitment, is sent to nobody twice, keeps  *)
(* asking while it is short, and leaves no button on an answered message   *)
(* its updates reach: for any directory, ranking and number of handlers.   *)
(***************************************************************************)
EXTENDS AttentionAsk, FiniteSetTheorems, WellFoundedInduction, TLAPS

-----------------------------------------------------------------------------
(* What a handler holds is what the ask has come to. *)

Jobs ==
  [at : Steps, who : People \cup {Nobody}, before : Nat, candidates : Seq(People),
   byName : BOOLEAN, left : Asks, due : SUBSET People, short : BOOLEAN,
   asked : SUBSET People, landed : SUBSET People]

TypeInv ==
  /\ ask \in Asks /\ promised \subseteq People /\ job \in [Tabs -> Jobs]
  /\ dm \in [People -> {"none", "asking", "answered", "closed"}]
  /\ posts \in [People -> Nat] /\ told \in Nat /\ missed \subseteq People
  /\ clicks \in 0 .. MaxClicks

JobSound(t) ==
  /\ job[t].at \in {"promise", "commit", "decline"} => job[t].who \in People
  /\ job[t].at = "commit" => job[t].who \in promised
  /\ job[t].at = "decline" /\ ask.keepAsking => job[t].candidates = Ranked
  /\ job[t].at # "idle" => ask.status # "unraised"
  /\ job[t].at # "tell" => job[t].due = {} /\ job[t].asked = {} /\ job[t].landed = {}

AskInv ==
  /\ TypeInv
  /\ Cardinality(ask.recipients) <= MaxRecipients
  /\ ask.status = "open" => Cardinality(ask.commitments) < ask.needed
  /\ ask.status = "unraised" => ask = NoAsk
  /\ ask.keepAsking => ask.recipients # {}
  /\ ask.commitments \subseteq promised
  /\ \A t \in Tabs : JobSound(t)

\* A message on its way to somebody, or with them, is to a recipient, and the only one.
Sent(p) ==
  /\ posts[p] <= 1
  /\ posts[p] = 1 => p \in ask.recipients
  /\ \A t \in Tabs : p \in job[t].asked =>
       /\ p \in ask.recipients /\ posts[p] = 0
       /\ \A u \in Tabs \ {t} : p \notin job[u].asked

AskedInv == AskInv /\ \A p \in People : Sent(p)

\* A recorded message that offers its buttons too long is to be updated, to one
\* that has none, or one whose update went astray.
Delivered(p) ==
  /\ p \in ask.deliveries => posts[p] = 1
  /\ \A t \in Tabs :
       /\ p \in job[t].landed => posts[p] = 1
       /\ p \in job[t].due => Message(job[t].left, p) # "asking"
  /\ p \in ask.deliveries \ missed /\ dm[p] = "asking" /\ Message(ask, p) # "asking"
       => \E t \in Tabs : p \in job[t].due

DeliveriesInv == AskedInv /\ \A p \in People : Delivered(p)

-----------------------------------------------------------------------------
(* Counting people, and places in a sequence. *)

\* The least of some numbers.
LEMMA LeastNat ==
  ASSUME NEW S \in SUBSET Nat, S # {}
  PROVE  \E m \in S : \A n \in S : m <= n
<1>1. PICK m \in S : \A n \in S : ~(<<n, m>> \in OpToRel(<, Nat))
  BY NatLessThanWellFounded, WFMin
<1>2. \A n \in S : ~(n < m)
  BY <1>1 DEF OpToRel
<1> QED
  BY <1>2

\* The greatest of some numbers that are bounded.
LEMMA GreatestNat ==
  ASSUME NEW S \in SUBSET Nat, S # {}, NEW b \in Nat, \A n \in S : n <= b
  PROVE  \E m \in S : \A n \in S : n <= m
<1> DEFINE T == {d \in Nat : b - d \in S}
<1>1. T \in SUBSET Nat /\ T # {}
  <2>1. PICK n \in S : TRUE
    OBVIOUS
  <2>2. b - n \in Nat /\ b - (b - n) = n
    BY <2>1
  <2> QED
    BY <2>1, <2>2
<1>2. PICK d \in T : \A e \in T : d <= e
  <2> HIDE DEF T
  <2> QED
    BY <1>1, LeastNat
<1>3. ASSUME NEW n \in S PROVE n <= b - d
  <2>1. b - n \in Nat /\ b - (b - n) = n
    BY <1>3
  <2>2. b - n \in T
    BY <1>3, <2>1
  <2> QED
    BY <1>2, <2>1, <2>2
<1> QED
  BY <1>2, <1>3

\* People are few enough to count.
LEMMA PeopleAreFew ==
  ASSUME NEW S \in SUBSET People
  PROVE  IsFiniteSet(S) /\ Cardinality(S) \in Nat
BY PeopleAssumption, FS_Subset, FS_CardinalityType

\* Fewer people count no more.
LEMMA FewerPeople ==
  ASSUME NEW S \in SUBSET People, NEW T \in SUBSET S
  PROVE  Cardinality(T) <= Cardinality(S)
BY PeopleAreFew, FS_Subset

\* People who are apart add up.
LEMMA ApartAdd ==
  ASSUME NEW S \in SUBSET People, NEW T \in SUBSET People, S \cap T = {}
  PROVE  Cardinality(S \cup T) = Cardinality(S) + Cardinality(T)
<1>1. IsFiniteSet(S) /\ IsFiniteSet(T) /\ Cardinality(S) \in Nat /\ Cardinality(T) \in Nat
  BY PeopleAreFew
<1>2. Cardinality(S \cup T) = Cardinality(S) + Cardinality(T) - Cardinality(S \cap T)
  BY <1>1, FS_Union
<1> QED
  BY <1>1, <1>2, FS_EmptySet

-----------------------------------------------------------------------------
(* The people an ask goes on to. *)

Places(a, candidates, count) ==
  {j \in Fresh(a, candidates) :
     Cardinality({k \in Fresh(a, candidates) : k < j}) < Room(a, count)}

\* How many more an ask may name is a number.
LEMMA RoomIs ==
  ASSUME NEW a \in Asks, NEW count \in Nat, Cardinality(a.recipients) <= MaxRecipients
  PROVE  /\ Room(a, count) \in Nat /\ Room(a, count) <= count
         /\ Cardinality(a.recipients) + Room(a, count) <= MaxRecipients
         /\ Room(a, count) \in {count, MaxRecipients - Cardinality(a.recipients)}
<1>1. Cardinality(a.recipients) \in Nat /\ MaxRecipients \in Nat
  BY PeopleAreFew, MaxRecipientsAssumption DEF Asks
<1> QED
  BY <1>1 DEF Room

\* The first so many places of a ranking are no more than so many, and all there
\* are when they are fewer.
LEMMA PlacesFill ==
  ASSUME NEW a \in Asks, NEW candidates \in Seq(People), NEW count \in Nat,
         Cardinality(a.recipients) <= MaxRecipients
  PROVE  LET places == Places(a, candidates, count) IN
         /\ IsFiniteSet(places) /\ Cardinality(places) \in Nat
         /\ Cardinality(places) <= Room(a, count)
         /\ places # Fresh(a, candidates) => Cardinality(places) = Room(a, count)
<1> DEFINE F == Fresh(a, candidates)
           room == Room(a, count)
           J == Places(a, candidates, count)
           below(j) == {k \in F : k < j}
<1>1. room \in Nat /\ Len(candidates) \in Nat /\ F \subseteq 1 .. Len(candidates)
  BY RoomIs DEF Fresh
<1>f. IsFiniteSet(F) /\ F \in SUBSET Nat /\ \A i \in F : i <= Len(candidates)
  <2> HIDE DEF F
  <2>1. IsFiniteSet(1 .. Len(candidates))
    BY <1>1, FS_Interval
  <2>2. IsFiniteSet(F)
    BY <1>1, <2>1, FS_Subset
  <2>3. \A i \in F : i \in Nat /\ i <= Len(candidates)
    BY <1>1
  <2> QED
    BY <2>2, <2>3
<1>2. \A S \in SUBSET F : IsFiniteSet(S) /\ Cardinality(S) \in Nat
  <2> HIDE DEF F
  <2> QED
    BY <1>f, FS_Subset, FS_CardinalityType
<1>3. J \subseteq F /\ \A j \in F : j \in J <=> Cardinality(below(j)) < room
  BY DEF Places
<1> HIDE DEF F, room, J
<1>4. Cardinality(J) <= room
  <2>1. CASE J = {}
    BY <1>1, <2>1, FS_EmptySet
  <2>2. CASE J # {}
    <3>0. J \in SUBSET Nat /\ \A n \in J : n <= Len(candidates)
      BY <1>f, <1>3
    <3>1. PICK m \in J : \A n \in J : n <= m
      BY <1>1, <3>0, <2>2, GreatestNat
    <3>2. J \ {m} \subseteq below(m) /\ below(m) \subseteq F
      BY <1>1, <1>3, <3>1
    <3>3. IsFiniteSet(J) /\ IsFiniteSet(below(m)) /\ Cardinality(J) \in Nat
          /\ Cardinality(below(m)) \in Nat
      BY <1>2, <1>3, <3>2
    <3>4. Cardinality(J \ {m}) <= Cardinality(below(m)) /\ Cardinality(J \ {m}) = Cardinality(J) - 1
      BY <3>1, <3>2, <3>3, FS_Subset, FS_RemoveElement
    <3>5. Cardinality(below(m)) < room
      BY <1>3, <3>1
    <3> HIDE DEF below
    <3> QED
      BY <1>1, <3>3, <3>4, <3>5
  <2> QED
    BY <2>1, <2>2
<1>5. ASSUME J # F PROVE Cardinality(J) >= room
  <2>1. F \ J # {} /\ F \ J \in SUBSET Nat
    BY <1>f, <1>3, <1>5
  <2>2. PICK m \in F \ J : \A n \in F \ J : m <= n
    BY <2>1, LeastNat
  <2>3. below(m) \subseteq J
    <3>1. \A k \in F : k \in Nat
      BY <1>f
    <3>2. \A k \in F : k < m => k \in J
      BY <2>2, <3>1
    <3> QED
      BY <3>2
  <2>4. Cardinality(below(m)) <= Cardinality(J)
    BY <1>2, <1>3, <2>3, FS_Subset
  <2>5. ~(Cardinality(below(m)) < room)
    BY <1>3, <2>2
  <2>6. Cardinality(below(m)) \in Nat /\ Cardinality(J) \in Nat
    BY <1>2, <1>3, <2>3
  <2> HIDE DEF below
  <2> QED
    BY <1>1, <2>4, <2>5, <2>6
<1>6. IsFiniteSet(J) /\ Cardinality(J) \in Nat
  BY <1>2, <1>3
<1> QED
  BY <1>1, <1>4, <1>5, <1>6 DEF F, room, J

\* Whom an ask goes on to it has not been to, and it names no more than it may.
LEMMA NextAreNew ==
  ASSUME NEW a \in Asks, NEW candidates \in Seq(People), NEW count \in Nat,
         Cardinality(a.recipients) <= MaxRecipients
  PROVE  LET asked == NextToAsk(a, candidates, count) IN
         /\ asked \in SUBSET People /\ asked \cap Taken(a) = {}
         /\ Cardinality(asked) <= Room(a, count)
         /\ Cardinality(a.recipients \cup asked) <= MaxRecipients
         /\ a.status # "open" => asked = {}
<1> DEFINE asked == NextToAsk(a, candidates, count)
           J == Places(a, candidates, count)
<1>1. asked = IF a.status # "open" THEN {} ELSE {candidates[i] : i \in J}
  BY DEF NextToAsk, Places
<1>2. J \subseteq Fresh(a, candidates) /\ Fresh(a, candidates) \subseteq 1 .. Len(candidates)
  BY DEF Places, Fresh
<1>3. asked \in SUBSET People /\ asked \cap Taken(a) = {}
  BY <1>1, <1>2 DEF Fresh
<1>4. Cardinality(asked) <= Room(a, count)
  <2>1. CASE a.status # "open"
    BY <1>1, <2>1, RoomIs, FS_EmptySet
  <2>2. CASE a.status = "open"
    <3>1. [i \in J |-> candidates[i]] \in Surjection(J, asked)
      BY <1>1, <2>2 DEF Surjection
    <3>2. Cardinality(asked) <= Cardinality(J)
      BY <3>1, PlacesFill, FS_Surjection
    <3>3. Cardinality(asked) \in Nat /\ Cardinality(J) \in Nat /\ Room(a, count) \in Nat
      BY <1>3, PeopleAreFew, PlacesFill, RoomIs
    <3> QED
      BY <3>2, <3>3, PlacesFill
  <2> QED
    BY <2>1, <2>2
<1>5. Cardinality(a.recipients \cup asked) <= MaxRecipients
  <2>1. a.recipients \in SUBSET People /\ a.recipients \cap asked = {}
    BY <1>3 DEF Asks, Taken
  <2> HIDE DEF asked
  <2>2. Cardinality(a.recipients \cup asked) = Cardinality(a.recipients) + Cardinality(asked)
    BY <1>3, <2>1, ApartAdd
  <2>3. Cardinality(asked) \in Nat /\ Cardinality(a.recipients) \in Nat /\ MaxRecipients \in Nat
    BY <1>3, <2>1, PeopleAreFew, MaxRecipientsAssumption
  <2> QED
    BY <1>4, <2>2, <2>3, RoomIs
<1> QED
  BY <1>1, <1>3, <1>4, <1>5

\* An open ask that goes on through a ranking has been to all of it, or names as
\* many as it may.
LEMMA NextAreEnough ==
  ASSUME NEW a \in Asks, NEW count \in Nat, a.status = "open",
         Cardinality(a.recipients) <= MaxRecipients
  PROVE  \/ \A i \in DOMAIN Ranked : Ranked[i] \in Taken(a) \cup NextToAsk(a, Ranked, count)
         \/ Cardinality(NextToAsk(a, Ranked, count)) = Room(a, count)
<1> DEFINE asked == NextToAsk(a, Ranked, count)
           J == Places(a, Ranked, count)
<1>1. asked = {Ranked[i] : i \in J} /\ J \subseteq Fresh(a, Ranked) /\ Ranked \in Seq(People)
  BY RankedAssumption DEF NextToAsk, Places
<1>2. CASE J = Fresh(a, Ranked)
  BY <1>1, <1>2 DEF Fresh
<1>3. CASE J # Fresh(a, Ranked)
  <2>1. [i \in J |-> Ranked[i]] \in Surjection(J, asked)
    BY <1>1 DEF Surjection
  <2>2. [i \in J |-> Ranked[i]] \in Injection(J, asked)
    <3>1. J \subseteq 1 .. Len(Ranked)
      BY <1>1 DEF Fresh
    <3> QED
      BY <1>1, <3>1, RankedAssumption DEF Injection, IsInjective
  <2>3. Cardinality(asked) = Cardinality(J)
    BY <2>1, <2>2, PlacesFill, <1>1, FS_Surjection
  <2> QED
    BY <1>1, <1>3, <2>3, PlacesFill
<1> QED
  BY <1>2, <1>3

-----------------------------------------------------------------------------
(* What becomes of an ask, and of a handler. *)

\* How short an ask is, is a number.
LEMMA ShortfallIs ==
  ASSUME NEW a \in Asks PROVE Outstanding(a) \in Nat /\ Shortfall(a) \in Nat
<1>1. Cardinality(a.commitments) \in Nat /\ a.needed \in Nat
  BY PeopleAreFew DEF Asks
<1>2. Outstanding(a) \in Nat
  BY <1>1 DEF Outstanding
<1>3. Pending(a) \in SUBSET People
  BY DEF Pending, Asks
<1>4. Cardinality(Pending(a)) \in Nat
  BY <1>3, PeopleAreFew
<1> QED
  BY <1>2, <1>4 DEF Shortfall

\* One more commitment leaves an open ask short of its mass, or resolves it.
LEMMA CommitmentIs ==
  ASSUME NEW a \in Asks, NEW p \in People
  PROVE  LET c == CommitmentChange(a, p) IN
         /\ c \in Asks /\ c.needed = a.needed /\ c.keepAsking = a.keepAsking
         /\ c.recipients = a.recipients /\ c.commitments = a.commitments \cup {p}
         /\ c.declines = a.declines \ {p} /\ c.deliveries = a.deliveries
         /\ IF a.status # "open" THEN c.status = a.status ELSE c.status \in {"open", "resolved"}
         /\ c.status = "open" => Cardinality(c.commitments) < c.needed
<1> DEFINE with == [a EXCEPT !.commitments = @ \cup {p}, !.declines = @ \ {p}]
           status == IF with.status = "open" /\ Outstanding(with) = 0 THEN "resolved"
                     ELSE with.status
<1>1. CommitmentChange(a, p) = [with EXCEPT !.status = status]
  BY DEF CommitmentChange
<1>2. with \in Asks /\ with.commitments = a.commitments \cup {p} /\ with.status = a.status
      /\ with.needed = a.needed /\ with.keepAsking = a.keepAsking
      /\ with.recipients = a.recipients /\ with.declines = a.declines \ {p}
      /\ with.deliveries = a.deliveries
  BY DEF Asks
<1>3. Cardinality(with.commitments) \in Nat /\ with.needed \in Nat
  BY <1>2, PeopleAreFew DEF Asks
<1>4. status = "open" => Cardinality(with.commitments) < with.needed
  BY <1>3 DEF Outstanding
<1>5. status \in Statuses
      /\ (IF a.status # "open" THEN status = a.status ELSE status \in {"open", "resolved"})
  BY <1>2 DEF Statuses, Asks
<1> HIDE DEF with, status
<1>6. [with EXCEPT !.status = status] \in Asks
  BY <1>2, <1>5 DEF Asks
<1> QED
  BY <1>1, <1>2, <1>4, <1>5, <1>6 DEF Asks

\* A decline leaves what there was, and whom it goes on to.
LEMMA DeclineIs ==
  ASSUME NEW a \in Asks, NEW p \in People, NEW candidates \in Seq(People),
         Cardinality(a.recipients) <= MaxRecipients
  PROVE  LET d == DeclineChange(a, p, candidates)
             asked == DeclineAsks(a, p, candidates) IN
         /\ asked \in SUBSET People /\ asked \cap Taken(a) = {} /\ p \notin asked
         /\ a.status # "open" => asked = {}
         /\ d \in Asks /\ d.status = a.status /\ d.needed = a.needed
         /\ d.keepAsking = a.keepAsking /\ d.recipients = a.recipients \cup asked
         /\ d.commitments = a.commitments /\ d.declines = a.declines \cup {p}
         /\ d.deliveries = a.deliveries
         /\ Cardinality(d.recipients) <= MaxRecipients
<1> DEFINE declined == [a EXCEPT !.declines = @ \cup {p}]
           asked == DeclineAsks(a, p, candidates)
<1>1. declined \in Asks /\ declined.recipients = a.recipients /\ declined.status = a.status
      /\ Taken(declined) = Taken(a) \cup {p}
  BY DEF Asks, Taken
<1>2. asked = IF a.keepAsking THEN NextToAsk(declined, candidates, Shortfall(declined)) ELSE {}
  BY DEF DeclineAsks
<1> HIDE DEF declined
<1>3. Shortfall(declined) \in Nat
  BY <1>1, ShortfallIs
<1>4. /\ asked \in SUBSET People /\ asked \cap Taken(a) = {} /\ p \notin asked
      /\ Cardinality(a.recipients \cup asked) <= MaxRecipients
      /\ a.status # "open" => asked = {}
  <2>1. CASE ~a.keepAsking
    BY <1>2, <2>1
  <2>2. CASE a.keepAsking
    <3>1. asked = NextToAsk(declined, candidates, Shortfall(declined))
      BY <1>2, <2>2
    <3> HIDE DEF asked
    <3> QED
      BY <1>1, <1>3, <3>1, NextAreNew
  <2> QED
    BY <2>1, <2>2
<1>5. DeclineChange(a, p, candidates) =
        [a EXCEPT !.declines = @ \cup {p}, !.recipients = @ \cup asked]
  BY DEF DeclineChange
<1> HIDE DEF asked
<1>6. LET d == [a EXCEPT !.declines = @ \cup {p}, !.recipients = @ \cup asked] IN
      /\ d \in Asks /\ d.status = a.status /\ d.needed = a.needed
      /\ d.keepAsking = a.keepAsking /\ d.recipients = a.recipients \cup asked
      /\ d.commitments = a.commitments /\ d.declines = a.declines \cup {p}
      /\ d.deliveries = a.deliveries
  BY <1>4 DEF Asks
<1>7. asked = DeclineAsks(a, p, candidates)
  BY DEF asked
<1> QED
  BY <1>4, <1>5, <1>6, <1>7

\* How many more to ask is a number.
LEMMA AskCountIs ==
  ASSUME NEW a \in Asks, NEW candidates \in Seq(People), NEW named \in BOOLEAN
  PROVE  AskCount(a, named, candidates) \in Nat
BY ShortfallIs DEF AskCount

\* People put in some order are a ranking of them.
LEMMA InOrderIs ==
  ASSUME NEW S \in SUBSET People PROVE InOrder(S) \in Seq(People)
<1>1. Cardinality(S) \in Nat /\ ExistsBijection(1 .. Cardinality(S), S)
  BY PeopleAreFew, FS_CardinalityType
<1>2. PICK s \in [1 .. Cardinality(S) -> S] : S = {s[i] : i \in DOMAIN s}
  BY <1>1 DEF ExistsBijection, Bijection, Surjection
<1>3. InOrder(S) \in [1 .. Cardinality(S) -> S]
  BY <1>2 DEF InOrder
<1> QED
  BY <1>1, <1>3

\* A handler that has nothing to do holds nothing.
LEMMA IdleIs ==
  /\ Idle \in Jobs /\ NoAsk \in Asks /\ Cardinality(NoAsk.recipients) = 0
  /\ Idle.at = "idle" /\ Idle.due = {} /\ Idle.asked = {} /\ Idle.landed = {}
<1>1. NoAsk \in Asks
  BY DEF NoAsk, Asks, Statuses
<1> QED
  BY <1>1, FS_EmptySet DEF Idle, Jobs, Steps, NoAsk

\* A handler goes on with what it has left, and is done when that is nothing.
LEMMA ContinueIs ==
  ASSUME NEW j \in Jobs
  PROVE  LET c == Continue(j) IN
         /\ c \in Jobs /\ c \in {j, Idle}
         /\ c.due = j.due /\ c.asked = j.asked /\ c.landed = j.landed
BY IdleIs DEF Continue, Jobs

\* One whose change is written sends what it owes, of the ask it left: the messages
\* that changed and the new ones, and to the requester or not.
Sends(j, left, due, asked) ==
  /\ j \in Jobs /\ j.at \in {"idle", "tell"}
  /\ j.due = due /\ j.asked = asked /\ j.landed = {}
  /\ j.at = "idle" => due = {} /\ asked = {}
  /\ due # {} => j.left = left
Sending(left, due, asked) ==
  Continue([Idle EXCEPT !.at = "tell", !.left = left, !.due = due, !.short = FALSE,
                        !.asked = asked])
SendingToo(left, due, asked) ==
  Continue([Idle EXCEPT !.at = "tell", !.left = left, !.due = due, !.short = TRUE,
                        !.asked = asked])

LEMMA SendingIs ==
  ASSUME NEW left \in Asks, NEW due \in SUBSET People, NEW asked \in SUBSET People
  PROVE  /\ Sends(Sending(left, due, asked), left, due, asked)
         /\ Sends(SendingToo(left, due, asked), left, due, asked)
<1> DEFINE j == [Idle EXCEPT !.at = "tell", !.left = left, !.due = due, !.short = FALSE,
                             !.asked = asked]
           k == [Idle EXCEPT !.at = "tell", !.left = left, !.due = due, !.short = TRUE,
                             !.asked = asked]
<1>1. /\ j \in Jobs /\ j.at = "tell" /\ j.left = left /\ j.due = due /\ j.asked = asked
      /\ j.landed = {}
  BY IdleIs DEF Idle, Jobs, Steps
<1>2. /\ k \in Jobs /\ k.at = "tell" /\ k.left = left /\ k.due = due /\ k.asked = asked
      /\ k.landed = {}
  BY IdleIs DEF Idle, Jobs, Steps
<1>3. Sending(left, due, asked) = Continue(j) /\ SendingToo(left, due, asked) = Continue(k)
  BY DEF Sending, SendingToo
<1> HIDE DEF j, k
<1>4. /\ Continue(j) = j \/ (Continue(j) = Idle /\ j.due = {} /\ j.asked = {})
      /\ Continue(k) = k \/ (Continue(k) = Idle /\ k.due = {} /\ k.asked = {})
  BY <1>1, <1>2 DEF Continue
<1> QED
  BY <1>1, <1>2, <1>3, <1>4, IdleIs DEF Sends

\* A handler that has read the ask holds what it read.
LEMMA StartingIs ==
  ASSUME ask \in Asks, NEW at \in Steps, NEW who \in People \cup {Nobody},
         NEW candidates \in Seq(People)
  PROVE  LET j == Starting(at, who, candidates) IN
         /\ j \in Jobs /\ j.at = at /\ j.who = who /\ j.candidates = candidates
         /\ j.due = {} /\ j.asked = {} /\ j.landed = {}
<1>1. Shortfall(ask) \in Nat
  BY ShortfallIs
<1>2. Idle \in Jobs
  BY IdleIs
<1> DEFINE j == [Idle EXCEPT !.at = at, !.who = who, !.before = Shortfall(ask),
                             !.candidates = candidates]
<1>3. Starting(at, who, candidates) = j
  BY DEF Starting
<1>4. j \in Jobs /\ j.at = at /\ j.who = who /\ j.candidates = candidates /\ j.due = Idle.due
      /\ j.asked = Idle.asked /\ j.landed = Idle.landed
  BY <1>1, <1>2 DEF Jobs
<1> HIDE DEF j
<1> QED
  BY <1>3, <1>4, IdleIs DEF Jobs

-----------------------------------------------------------------------------
(* The steps of a handler. *)

Step(t) == RaiseOrAdd(t) \/ Answer(t) \/ Change(t) \/ Send(t) \/ Die(t)

\* What a handler's step leaves: the others, and what the ask has come to.
Leaves(t) ==
  /\ \A u \in Tabs \ {t} : job'[u] = job[u]
  /\ promised \subseteq promised'
  /\ ask.status # "unraised" =>
       ask'.status # "unraised" /\ ask'.keepAsking = ask.keepAsking /\ ask'.needed = ask.needed
  /\ ask.status \in {"resolved", "cancelled"} => ask'.status = ask.status
  /\ ask.commitments \subseteq ask'.commitments /\ ask.recipients \subseteq ask'.recipients

\* A new value for one handler leaves the others.
LEMMA JobIs ==
  ASSUME job \in [Tabs -> Jobs], NEW t \in Tabs, NEW j \in Jobs, job' = [job EXCEPT ![t] = j]
  PROVE  /\ job' \in [Tabs -> Jobs] /\ job'[t] = j
         /\ \A u \in Tabs \ {t} : job'[u] = job[u]
OBVIOUS

\* The first three ways to start a handler.
LEMMA RaiseStep ==
  ASSUME AskInv, NEW t \in Tabs, NEW named \in SUBSET People, NEW needed \in Needs,
         NEW keeps \in BOOLEAN, Raise(t, named, needed, keeps)
  PROVE  AskInv' /\ Leaves(t)
<1> USE DEF TypeInv
<1> DEFINE keepAsking == keeps /\ named # {}
<1>k. keepAsking \in BOOLEAN /\ needed \in Nat \ {0} /\ (keepAsking => named # {})
  BY NeedsAssumption
<1>n. NoAsk \in Asks /\ ask = NoAsk /\ ~Running(t)
  BY IdleIs DEF Raise, AskInv, Start
<1>e. ask' = [NoAsk EXCEPT !.status = "open", !.needed = needed, !.recipients = named,
                           !.keepAsking = keepAsking]
  BY DEF Raise
<1> HIDE DEF keepAsking
<1>1. /\ ask' \in Asks /\ ask'.status = "open" /\ ask'.needed = needed /\ ask'.recipients = named
      /\ ask'.commitments = NoAsk.commitments /\ ask'.keepAsking = keepAsking
  BY <1>k, <1>n, <1>e DEF Asks, Statuses
<1> DEFINE none == {}
           next == Sending(ask', none, named)
<1>2. none \in SUBSET People
  OBVIOUS
<1>3. job' = [job EXCEPT ![t] = next] /\ clicks < MaxClicks /\ clicks' = clicks + 1
  BY DEF Raise, Start, Telling, Sending
<1> HIDE DEF none
<1>s. Sends(next, ask', none, named)
  BY <1>1, <1>2, SendingIs
<1> HIDE DEF next
<1>4. job' \in [Tabs -> Jobs] /\ job'[t] = next /\ \A u \in Tabs \ {t} : job'[u] = job[u]
  BY <1>3, <1>s, JobIs DEF AskInv, Sends
<1>5. TypeInv'
  <2>1. clicks' \in 0 .. MaxClicks
    BY <1>3, MaxClicksAssumption DEF AskInv
  <2> QED
    BY <1>1, <1>4, <2>1 DEF AskInv, Raise
<1>6. ASSUME NEW u \in Tabs PROVE JobSound(u)'
  <2>1. CASE u = t
    BY <1>1, <1>s, <1>4, <2>1 DEF JobSound, Sends, none
  <2>2. CASE u # t
    <3>1. job[u].at = "idle" /\ job'[u] = job[u] /\ JobSound(u)
      BY <1>n, <1>4, <2>2, IdleIs DEF AskInv, JobSound, NoAsk
    <3> QED
      BY <3>1 DEF JobSound
  <2> QED
    BY <2>1, <2>2
<1>7. /\ Cardinality(ask'.recipients) <= MaxRecipients /\ Cardinality(ask'.commitments) = 0
      /\ ask'.commitments = {} /\ ask.recipients = {} /\ ask.commitments = {}
  BY <1>1, <1>n, FS_EmptySet DEF Raise, NoAsk
<1> QED
  BY <1>k, <1>n, <1>1, <1>4, <1>5, <1>6, <1>7 DEF AskInv, Leaves, NoAsk, Raise

\* A handler that starts by reading the ask leaves it as it was.
LEMMA StartStep ==
  ASSUME AskInv, NEW t \in Tabs, NEW j \in Jobs, Start(t, j),
         UNCHANGED <<ask, promised, dm, posts, told, missed>>,
         ask.status = "open",
         j.at \in {"promise", "decline"} => j.who \in People,
         j.at \notin {"commit", "tell"},
         j.at = "decline" /\ ask.keepAsking => j.candidates = Ranked,
         j.due = {}, j.asked = {}, j.landed = {}
  PROVE  AskInv' /\ Leaves(t) /\ job'[t] = j /\ ~Running(t)
<1> USE DEF TypeInv
<1>1. job' \in [Tabs -> Jobs] /\ job'[t] = j /\ \A u \in Tabs \ {t} : job'[u] = job[u]
  BY JobIs DEF AskInv, Start
<1>2. TypeInv'
  BY <1>1, MaxClicksAssumption DEF AskInv, Start
<1>3. \A u \in Tabs : JobSound(u)'
  BY <1>1 DEF AskInv, JobSound
<1> QED
  BY <1>1, <1>2, <1>3 DEF AskInv, Leaves, Start

\* Asking on reads a ranking, or puts the names in an order.
LEMMA AskMoreReadStep ==
  ASSUME AskInv, NEW t \in Tabs, NEW named \in SUBSET People, AskMoreRead(t, named)
  PROVE  AskInv' /\ Leaves(t) /\ job'[t].asked = {} /\ job'[t].due = {} /\ job'[t].landed = {}
         /\ ~Running(t)
<1> DEFINE candidates == IF named = {} THEN Ranked ELSE InOrder(named \ Taken(ask))
           s == Starting("askMore", Nobody, candidates)
           byName == named # {}
<1>1. candidates \in Seq(People) /\ byName \in BOOLEAN
  BY RankedAssumption, InOrderIs
<1>2. ask \in Asks /\ "askMore" \in Steps /\ Nobody \in People \cup {Nobody}
  BY DEF AskInv, TypeInv, Steps
<1>3. Start(t, [s EXCEPT !.byName = byName]) /\ ask.status = "open"
      /\ UNCHANGED <<ask, promised, dm, posts, told, missed>>
  BY DEF AskMoreRead
<1> HIDE DEF candidates, byName
<1>4. s \in Jobs /\ s.at = "askMore" /\ s.due = {} /\ s.asked = {} /\ s.landed = {}
  BY <1>1, <1>2, StartingIs, Z3
<1> HIDE DEF s
<1> DEFINE j == [s EXCEPT !.byName = byName]
<1>5. j \in Jobs /\ j.at = "askMore" /\ j.due = {} /\ j.asked = {} /\ j.landed = {}
  BY <1>1, <1>4 DEF Jobs
<1>6. Start(t, j)
  BY <1>3
<1> HIDE DEF j
<1> QED
  BY <1>3, <1>5, <1>6, StartStep

\* So does every answer that starts.
LEMMA AnswerStep ==
  ASSUME AskInv, NEW t \in Tabs, Answer(t)
  PROVE  AskInv' /\ Leaves(t) /\ job'[t].asked = {} /\ job'[t].due = {} /\ job'[t].landed = {}
         /\ ~Running(t) /\ UNCHANGED <<ask, promised, dm, posts, told, missed>>
<1> DEFINE none == <<>>
<1>1. ask \in Asks /\ none \in Seq(People)
  BY DEF AskInv, TypeInv
<1>2. ASSUME NEW p \in People, CommitRead(t, p)
      PROVE  \E j \in Jobs : /\ Start(t, j) /\ j.at = "promise" /\ j.who = p
                             /\ j.due = {} /\ j.asked = {} /\ j.landed = {}
  <2>1. "promise" \in Steps /\ p \in People \cup {Nobody} /\ Start(t, Starting("promise", p, none))
    BY <1>2 DEF CommitRead, Steps
  <2> HIDE DEF none
  <2> QED
    BY <1>1, <2>1, StartingIs
<1>3. ASSUME NEW p \in People, DeclineRead(t, p)
      PROVE  \E j \in Jobs : /\ Start(t, j) /\ j.at = "decline" /\ j.who = p
                             /\ ask.keepAsking => j.candidates = Ranked
                             /\ j.due = {} /\ j.asked = {} /\ j.landed = {}
  <2> DEFINE c == IF ask.keepAsking THEN Ranked ELSE <<>>
  <2>1. c \in Seq(People) /\ (ask.keepAsking => c = Ranked)
    BY <1>1, RankedAssumption
  <2>2. "decline" \in Steps /\ p \in People \cup {Nobody} /\ Start(t, Starting("decline", p, c))
    BY <1>3 DEF DeclineRead, Steps
  <2> HIDE DEF c
  <2> QED
    BY <1>1, <2>1, <2>2, StartingIs
<1>4. ASSUME CancelRead(t)
      PROVE  \E j \in Jobs : /\ Start(t, j) /\ j.at = "cancel"
                             /\ j.due = {} /\ j.asked = {} /\ j.landed = {}
  <2>1. /\ "cancel" \in Steps /\ Nobody \in People \cup {Nobody}
        /\ Start(t, Starting("cancel", Nobody, none))
    BY <1>4 DEF CancelRead, Steps
  <2> HIDE DEF none
  <2> QED
    BY <1>1, <2>1, StartingIs
<1>5. ask.status = "open" /\ UNCHANGED <<ask, promised, dm, posts, told, missed>>
  BY DEF Answer, CommitRead, DeclineRead, MayDecline, CancelRead
<1>6. PICK j \in Jobs :
         /\ Start(t, j) /\ j.at \notin {"commit", "tell"}
         /\ j.at \in {"promise", "decline"} => j.who \in People
         /\ j.at = "decline" /\ ask.keepAsking => j.candidates = Ranked
         /\ j.due = {} /\ j.asked = {} /\ j.landed = {}
  <2>1. CASE \E p \in People : CommitRead(t, p)
    BY <1>2, <2>1
  <2>2. CASE \E p \in People : DeclineRead(t, p)
    BY <1>3, <2>2
  <2>3. CASE CancelRead(t)
    BY <1>4, <2>3
  <2> QED
    BY <2>1, <2>2, <2>3 DEF Answer
<1> QED
  BY <1>5, <1>6, StartStep

\* What a step asks of the messages to somebody: one is posted by the handler that
\* has it to post, and one to post is to somebody just added.
Posts(t, p) ==
  \/ /\ posts'[p] = posts[p]
     /\ p \in job'[t].asked => p \in job[t].asked \/ (p \notin ask.recipients /\ p \in ask'.recipients)
  \/ p \in job[t].asked /\ posts'[p] = posts[p] + 1 /\ p \notin job'[t].asked

\* A recorded message that comes to offer its buttons too long is one the handler
\* is to update, to one that has none; an update goes astray until another lands.
Updates(t, p) ==
  /\ p \in ask'.deliveries => p \in ask.deliveries \/ p \in job[t].landed
  /\ p \in job'[t].landed => p \in job[t].landed \/ posts'[p] = posts[p] + 1
  /\ p \in job'[t].due => Message(job'[t].left, p) # "asking"
  /\ p \in job[t].due => p \in job'[t].due \/ dm'[p] # "asking" \/ p \in missed'
  /\ p \in missed => p \in missed' \/ dm'[p] # "asking"
  /\ /\ p \in ask'.deliveries /\ dm'[p] = "asking" /\ Message(ask', p) # "asking"
     /\ p \notin ask.deliveries \/ dm[p] # "asking" \/ Message(ask, p) = "asking"
     => p \in job'[t].due

Kept(t) == AskInv' /\ Leaves(t) /\ \A p \in People : Posts(t, p) /\ Updates(t, p)

\* A step of a handler at work, from what it makes of the ask and of the handler.
LEMMA WriteStep ==
  ASSUME AskInv, NEW t \in Tabs, NEW j \in Jobs, job[t].at # "idle",
         job' = [job EXCEPT ![t] = j], clicks' = clicks, told' \in Nat,
         dm' \in [People -> {"none", "asking", "answered", "closed"}],
         posts' \in [People -> Nat], missed' \subseteq People,
         promised' \subseteq People, promised \subseteq promised',
         ask' \in Asks, Cardinality(ask'.recipients) <= MaxRecipients,
         ask'.status = "open" => Cardinality(ask'.commitments) < ask'.needed,
         ask'.status # "unraised", ask'.keepAsking = ask.keepAsking, ask'.needed = ask.needed,
         ask.status \in {"resolved", "cancelled"} => ask'.status = ask.status,
         ask.commitments \subseteq ask'.commitments, ask'.commitments \subseteq promised',
         ask.recipients \subseteq ask'.recipients,
         j.at \in {"promise", "commit", "decline"} => j.who \in People,
         j.at = "commit" => j.who \in promised',
         j.at = "decline" /\ ask.keepAsking => j.candidates = Ranked,
         j.at # "tell" => j.due = {} /\ j.asked = {} /\ j.landed = {}
  PROVE  AskInv' /\ Leaves(t) /\ job'[t] = j
<1>1. job' \in [Tabs -> Jobs] /\ job'[t] = j /\ \A u \in Tabs \ {t} : job'[u] = job[u]
  BY JobIs DEF AskInv, TypeInv
<1>2. TypeInv'
  BY <1>1 DEF AskInv, TypeInv
<1>3. ASSUME NEW u \in Tabs PROVE JobSound(u)'
  <2>1. CASE u = t
    BY <1>1, <2>1 DEF JobSound
  <2>2. CASE u # t
    BY <1>1, <2>2 DEF AskInv, JobSound
  <2> QED
    BY <2>1, <2>2
<1>4. Leaves(t)
  BY <1>1 DEF Leaves
<1>5. ask'.keepAsking => ask'.recipients # {}
  BY DEF AskInv
<1> QED
  BY <1>1, <1>2, <1>3, <1>4, <1>5 DEF AskInv

\* A step that changes the ask, and then sends what it owes.
LEMMA ChangeStep ==
  ASSUME AskInv, NEW t \in Tabs, NEW j, NEW due \in SUBSET People, NEW asked \in SUBSET People,
         Sends(j, ask', due, asked), job[t].at # "idle", job[t].due = {},
         job' = [job EXCEPT ![t] = j], UNCHANGED <<promised, dm, posts, told, missed, clicks>>,
         ask' \in Asks, Cardinality(ask'.recipients) <= MaxRecipients,
         ask'.status = "open" => Cardinality(ask'.commitments) < ask'.needed,
         ask'.status # "unraised", ask'.keepAsking = ask.keepAsking, ask'.needed = ask.needed,
         ask.status \in {"resolved", "cancelled"} => ask'.status = ask.status,
         ask.commitments \subseteq ask'.commitments, ask'.commitments \subseteq promised,
         ask.recipients \subseteq ask'.recipients,
         asked \cap ask.recipients = {}, asked \subseteq ask'.recipients,
         ask'.deliveries \subseteq ask.deliveries \cup job[t].landed,
         \A p \in due : Message(ask', p) # "asking",
         \A p \in ask'.deliveries :
           Message(ask', p) # "asking" /\ (p \notin ask.deliveries \/ Message(ask, p) = "asking")
             => p \in due
  PROVE  Kept(t)
<1>1. /\ j \in Jobs /\ j.at \in {"idle", "tell"} /\ j.due = due /\ j.asked = asked
      /\ j.landed = {} /\ (j.at = "idle" => due = {} /\ asked = {})
      /\ (due # {} => j.left = ask')
  BY DEF Sends
<1>2. AskInv' /\ Leaves(t) /\ job'[t] = j
  <2>1. /\ promised' \subseteq People /\ promised \subseteq promised' /\ told' \in Nat
        /\ dm' \in [People -> {"none", "asking", "answered", "closed"}]
        /\ posts' \in [People -> Nat] /\ ask'.commitments \subseteq promised'
        /\ missed' \subseteq People
    BY DEF AskInv, TypeInv
  <2>2. j.at # "tell" => j.due = {} /\ j.asked = {} /\ j.landed = {}
    BY <1>1
  <2>3. j.at \notin {"promise", "commit", "decline"}
    BY <1>1
  <2> QED
    BY <1>1, <2>1, <2>2, <2>3, WriteStep
<1>3. ASSUME NEW p \in People PROVE Posts(t, p) /\ Updates(t, p)
  <2>1. Posts(t, p)
    BY <1>1, <1>2 DEF Posts
  <2>2. Updates(t, p)
    BY <1>1, <1>2 DEF Updates
  <2> QED
    BY <2>1, <2>2
<1> QED
  BY <1>2, <1>3 DEF Kept

\* A handler that ends early, before it owes anybody a change.
LEMMA DropStep ==
  ASSUME AskInv, NEW t \in Tabs, job[t].at # "idle", job[t].due = {},
         job' = [job EXCEPT ![t] = Idle], UNCHANGED <<ask, promised, dm, posts, told, missed, clicks>>
  PROVE  Kept(t)
<1>1. Idle \in Jobs /\ Idle.at = "idle" /\ Idle.due = {} /\ Idle.asked = {} /\ Idle.landed = {}
  BY IdleIs
<1>2. ask.status # "unraised"
  BY DEF AskInv, JobSound
<1>3. AskInv' /\ Leaves(t) /\ job'[t] = Idle
  <2> DEFINE j == Idle
  <2>1. /\ j \in Jobs /\ j.at = "idle" /\ job' = [job EXCEPT ![t] = j]
        /\ j.due = {} /\ j.asked = {} /\ j.landed = {}
    BY <1>1
  <2> HIDE DEF j
  <2>2. AskInv' /\ Leaves(t) /\ job'[t] = j
    BY <1>2, <2>1, WriteStep DEF AskInv, TypeInv
  <2> QED
    BY <2>2 DEF j
<1>4. ASSUME NEW p \in People PROVE Posts(t, p) /\ Updates(t, p)
  <2>1. p \notin job'[t].asked /\ p \notin job'[t].due /\ p \notin job'[t].landed
    BY <1>1, <1>3
  <2> QED
    BY <2>1 DEF Posts, Updates
<1> QED
  BY <1>3, <1>4 DEF Kept

\* Starting changes no message: it has nothing to send yet, or its own first ones.
LEMMA StartsAreKept ==
  ASSUME AskInv, NEW t \in Tabs, RaiseOrAdd(t) \/ Answer(t)
  PROVE  Kept(t)
<1>1. ASSUME NEW named \in SUBSET People, NEW needed \in Needs, NEW keeps \in BOOLEAN,
             Raise(t, named, needed, keeps)
      PROVE  Kept(t)
  <2> DEFINE none == {}
             next == Sending(ask', none, named)
  <2>1. AskInv' /\ Leaves(t)
    BY <1>1, RaiseStep
  <2>2. /\ ask = NoAsk /\ ask'.recipients = named /\ ask'.deliveries = {}
        /\ dm' = dm /\ posts' = posts /\ missed' = missed /\ none \in SUBSET People
        /\ job' = [job EXCEPT ![t] = next]
    BY <1>1 DEF AskInv, Raise, NoAsk, Start, Telling, Sending
  <2>3. ask' \in Asks /\ job \in [Tabs -> Jobs]
    BY <2>1 DEF AskInv, TypeInv
  <2> HIDE DEF none
  <2>4. Sends(next, ask', none, named)
    BY <2>2, <2>3, SendingIs
  <2>5. job[t].due = {} /\ job[t].landed = {}
    BY <1>1 DEF Raise, Start, Running, AskInv, JobSound
  <2> HIDE DEF next
  <2>6. job'[t] = next
    BY <2>2, <2>3
  <2>7. ASSUME NEW p \in People PROVE Posts(t, p) /\ Updates(t, p)
    BY <2>2, <2>4, <2>5, <2>6 DEF Posts, Updates, Sends, NoAsk, none
  <2> QED
    BY <2>1, <2>7 DEF Kept
<1>2. ASSUME \/ Answer(t) \/ \E named \in SUBSET People : AskMoreRead(t, named)
      PROVE  Kept(t)
  <2>1. /\ AskInv' /\ Leaves(t) /\ job'[t].asked = {} /\ job'[t].due = {}
        /\ job'[t].landed = {} /\ ~Running(t)
    BY <1>2, AnswerStep, AskMoreReadStep
  <2>2. UNCHANGED <<ask, dm, posts, missed>>
    BY <1>2, AnswerStep DEF AskMoreRead
  <2>3. job[t].due = {} /\ job[t].landed = {}
    BY <2>1 DEF Running, AskInv, JobSound
  <2>4. ASSUME NEW p \in People PROVE Posts(t, p) /\ Updates(t, p)
    BY <2>1, <2>2, <2>3 DEF Posts, Updates
  <2> QED
    BY <2>1, <2>4 DEF Kept
<1> QED
  BY <1>1, <1>2 DEF RaiseOrAdd

\* The commitment row of their own.
LEMMA PromiseStep ==
  ASSUME AskInv, NEW t \in Tabs, Promise(t)
  PROVE  Kept(t)
<1> DEFINE j == [job[t] EXCEPT !.at = "commit"]
<1>1. job[t] \in Jobs /\ job[t].who \in People /\ job[t].at = "promise"
  BY DEF Promise, AskInv, TypeInv, JobSound
<1>2. /\ j \in Jobs /\ j.at = "commit" /\ j.who = job[t].who /\ j.due = job[t].due
      /\ j.asked = job[t].asked /\ j.landed = job[t].landed
  BY <1>1 DEF Jobs, Steps
<1>3. job' = [job EXCEPT ![t] = j]
  BY DEF Promise
<1>4. job[t].due = {} /\ job[t].asked = {} /\ job[t].landed = {} /\ ask.status # "unraised"
  BY <1>1 DEF AskInv, JobSound
<1> HIDE DEF j
<1>5. AskInv' /\ Leaves(t) /\ job'[t] = j
  <2>1. /\ clicks' = clicks /\ told' \in Nat /\ posts' \in [People -> Nat]
        /\ missed' \subseteq People
        /\ dm' \in [People -> {"none", "asking", "answered", "closed"}]
        /\ promised' \subseteq People /\ promised \subseteq promised' /\ j.who \in promised'
        /\ ask' = ask
    BY <1>1, <1>2 DEF Promise, AskInv, TypeInv
  <2>2. /\ ask.commitments \subseteq promised' /\ ask \in Asks
        /\ Cardinality(ask.recipients) <= MaxRecipients
        /\ ask.status = "open" => Cardinality(ask.commitments) < ask.needed
    BY <2>1 DEF AskInv, TypeInv
  <2>3. j.at # "tell"
    BY <1>2
  <2> QED
    BY <1>1, <1>2, <1>3, <1>4, <2>1, <2>2, <2>3, WriteStep
<1>6. ASSUME NEW p \in People PROVE Posts(t, p) /\ Updates(t, p)
  BY <1>2, <1>4, <1>5 DEF Posts, Updates, Promise
<1> QED
  BY <1>5, <1>6 DEF Kept

\* A message offers its buttons while the ask is open and its person has not answered.
LEMMA MessageIs ==
  ASSUME NEW a \in Asks, NEW p \in People
  PROVE  /\ Message(a, p) = "asking" <=> a.status = "open" /\ p \notin a.commitments \cup a.declines
BY DEF Message

\* A commitment, on the ask as stored.
LEMMA CommitStep ==
  ASSUME AskInv, NEW t \in Tabs, Commit(t)
  PROVE  Kept(t)
<1> DEFINE p == job[t].who
           c == CommitmentChange(ask, p)
           due == IF ask'.status = "resolved" /\ ask.status = "open"
                  THEN ask'.deliveries ELSE ask'.deliveries \cap {p}
           none == {}
           next == Sending(ask', due, none)
<1>1. /\ p \in People /\ p \in promised /\ job[t].due = {} /\ ask.status # "unraised"
      /\ ask \in Asks /\ Cardinality(ask.recipients) <= MaxRecipients
      /\ ask.commitments \subseteq promised
  BY DEF Commit, AskInv, TypeInv, JobSound
<1>2. CASE p \in ask.commitments
  <2>1. job' = [job EXCEPT ![t] = Idle] /\ ask' = ask
    BY <1>2 DEF Commit
  <2> QED
    BY <1>1, <2>1, DropStep DEF Commit
<1>3. CASE p \notin ask.commitments
  <2>1. ask' = c /\ job' = [job EXCEPT ![t] = next]
    BY <1>3 DEF Commit, Telling, Sending
  <2>2. /\ c \in Asks /\ c.needed = ask.needed /\ c.keepAsking = ask.keepAsking
        /\ c.recipients = ask.recipients /\ c.commitments = ask.commitments \cup {p}
        /\ c.declines = ask.declines \ {p} /\ c.deliveries = ask.deliveries
        /\ (IF ask.status # "open" THEN c.status = ask.status ELSE c.status \in {"open", "resolved"})
        /\ (c.status = "open" => Cardinality(c.commitments) < c.needed)
    BY <1>1, CommitmentIs
  <2> HIDE DEF c
  <2>3. due \in SUBSET People /\ none \in SUBSET People
    BY <2>1, <2>2 DEF Asks
  <2>4. \A q \in due : Message(ask', q) # "asking"
    BY <1>1, <2>1, <2>2, <2>3, MessageIs
  <2>5. \A q \in ask'.deliveries :
          Message(ask', q) # "asking" /\ (q \notin ask.deliveries \/ Message(ask, q) = "asking")
            => q \in due
    BY <1>1, <2>1, <2>2, MessageIs DEF Asks
  <2> HIDE DEF due, none
  <2>6. Sends(next, ask', due, none)
    BY <2>1, <2>2, <2>3, SendingIs
  <2> HIDE DEF next
  <2>7. none \cap ask.recipients = {} /\ none \subseteq ask'.recipients
    BY DEF none
  <2>8. job[t].at # "idle" /\ UNCHANGED <<promised, dm, posts, told, missed, clicks>>
    BY DEF Commit
  <2> QED
    BY <1>1, <2>1, <2>2, <2>3, <2>4, <2>5, <2>6, <2>7, <2>8, ChangeStep
<1> QED
  BY <1>2, <1>3

\* A decline, refused again on the ask as stored.
LEMMA DeclineStep ==
  ASSUME AskInv, NEW t \in Tabs, Decline(t)
  PROVE  Kept(t)
<1> DEFINE p == job[t].who
           candidates == job[t].candidates
           d == DeclineChange(ask, p, candidates)
           asked == DeclineAsks(ask, p, candidates)
           due == ask'.deliveries \cap {p}
<1>1. /\ p \in People /\ candidates \in Seq(People) /\ job[t].due = {}
      /\ ask.status # "unraised" /\ ask \in Asks /\ Cardinality(ask.recipients) <= MaxRecipients
      /\ ask.commitments \subseteq promised
  BY DEF Decline, AskInv, TypeInv, JobSound, Jobs
<1>2. CASE ~MayDecline(p)
  <2>1. job' = [job EXCEPT ![t] = Idle] /\ ask' = ask
    BY <1>2 DEF Decline
  <2> QED
    BY <1>1, <2>1, DropStep DEF Decline
<1>3. CASE MayDecline(p)
  <2>1. ask' = d
    BY <1>3 DEF Decline
  <2>2. PICK j : /\ job' = [job EXCEPT ![t] = j]
                 /\ j \in {Sending(ask', due, asked), SendingToo(ask', due, asked)}
    <3>1. CASE Shortfall(ask') > job[t].before
      BY <1>3, <3>1 DEF Decline, Telling, SendingToo
    <3>2. CASE ~(Shortfall(ask') > job[t].before)
      <4> DEFINE short == Shortfall(ask') > job[t].before
      <4>1. job' = [job EXCEPT ![t] = Telling(job[t], due, short, asked)]
        BY <1>3 DEF Decline
      <4>2. short = FALSE
        BY <3>2
      <4> HIDE DEF short, due, asked
      <4>3. job' = [job EXCEPT ![t] = Telling(job[t], due, FALSE, asked)]
        BY <4>1, <4>2
      <4> QED
        BY <4>3 DEF Telling, Sending
    <3> QED
      BY <3>1, <3>2
  <2>3. /\ asked \in SUBSET People /\ asked \cap Taken(ask) = {} /\ p \notin asked
        /\ d \in Asks /\ d.status = ask.status /\ d.needed = ask.needed
        /\ d.keepAsking = ask.keepAsking /\ d.recipients = ask.recipients \cup asked
        /\ d.commitments = ask.commitments /\ d.declines = ask.declines \cup {p}
        /\ d.deliveries = ask.deliveries /\ Cardinality(d.recipients) <= MaxRecipients
    <3> HIDE DEF p, candidates, d, asked
    <3>1. d = DeclineChange(ask, p, candidates) /\ asked = DeclineAsks(ask, p, candidates)
      BY DEF d, asked
    <3> QED
      BY <1>1, <3>1, DeclineIs
  <2> HIDE DEF d, asked
  <2>4. due \in SUBSET People /\ \A q \in due : Message(ask', q) # "asking"
    BY <1>1, <2>1, <2>3, MessageIs DEF Asks
  <2>5. \A q \in ask'.deliveries :
          Message(ask', q) # "asking" /\ (q \notin ask.deliveries \/ Message(ask, q) = "asking")
            => q \in due
    BY <1>1, <2>1, <2>3, MessageIs DEF Asks
  <2> HIDE DEF due
  <2>6. Sends(j, ask', due, asked)
    BY <2>1, <2>2, <2>3, <2>4, SendingIs
  <2>7. asked \cap ask.recipients = {} /\ asked \subseteq ask'.recipients
    BY <2>1, <2>3 DEF Taken
  <2>8. job[t].at # "idle" /\ UNCHANGED <<promised, dm, posts, told, missed, clicks>>
    BY DEF Decline
  <2>9. ask'.status = "open" => Cardinality(ask'.commitments) < ask'.needed
    BY <2>1, <2>3 DEF AskInv
  <2> QED
    BY <1>1, <2>1, <2>2, <2>3, <2>4, <2>5, <2>6, <2>7, <2>8, <2>9, ChangeStep
<1> QED
  BY <1>2, <1>3

\* The people asked on, worked out from the ask as stored.
LEMMA AskMoreStep ==
  ASSUME AskInv, NEW t \in Tabs, AskMore(t)
  PROVE  Kept(t)
<1> DEFINE candidates == job[t].candidates
           count == AskCount(ask, job[t].byName, candidates)
           asked == NextToAsk(ask, candidates, count)
           none == {}
           next == Sending(ask', none, asked)
<1>1. /\ candidates \in Seq(People) /\ job[t].due = {} /\ job[t].byName \in BOOLEAN
      /\ ask.status # "unraised" /\ ask \in Asks /\ Cardinality(ask.recipients) <= MaxRecipients
      /\ ask.commitments \subseteq promised
  BY DEF AskMore, AskInv, TypeInv, JobSound, Jobs
<1>2. CASE ask.status # "open"
  <2>1. job' = [job EXCEPT ![t] = Idle] /\ ask' = ask
    BY <1>2 DEF AskMore
  <2> QED
    BY <1>1, <2>1, DropStep DEF AskMore
<1>3. CASE ask.status = "open"
  <2>1. ask' = [ask EXCEPT !.recipients = @ \cup asked] /\ job' = [job EXCEPT ![t] = next]
    BY <1>3 DEF AskMore, Telling, Sending
  <2>2. count \in Nat
    BY <1>1, AskCountIs DEF AskCount
  <2>3. /\ asked \in SUBSET People /\ asked \cap Taken(ask) = {}
        /\ Cardinality(ask.recipients \cup asked) <= MaxRecipients
    <3> HIDE DEF candidates, count
    <3> QED
      BY <1>1, <2>2, NextAreNew
  <2> HIDE DEF asked
  <2>4. /\ ask' \in Asks /\ ask'.recipients = ask.recipients \cup asked
        /\ ask'.status = ask.status /\ ask'.needed = ask.needed
        /\ ask'.keepAsking = ask.keepAsking /\ ask'.commitments = ask.commitments
        /\ ask'.declines = ask.declines /\ ask'.deliveries = ask.deliveries
    BY <1>1, <2>1, <2>3 DEF Asks
  <2>5. none \in SUBSET People /\ \A q \in none : Message(ask', q) # "asking"
    OBVIOUS
  <2>6. \A q \in ask'.deliveries :
          Message(ask', q) # "asking" /\ (q \notin ask.deliveries \/ Message(ask, q) = "asking")
            => q \in none
    BY <1>1, <2>4, MessageIs DEF Asks
  <2> HIDE DEF none
  <2>7. Sends(next, ask', none, asked)
    BY <2>3, <2>4, <2>5, SendingIs
  <2> HIDE DEF next
  <2>8. asked \cap ask.recipients = {} /\ asked \subseteq ask'.recipients
    BY <2>3, <2>4 DEF Taken
  <2>9. job[t].at # "idle" /\ UNCHANGED <<promised, dm, posts, told, missed, clicks>>
    BY DEF AskMore
  <2>10. ask'.status = "open" => Cardinality(ask'.commitments) < ask'.needed
    BY <2>4 DEF AskInv
  <2> QED
    BY <1>1, <2>1, <2>3, <2>4, <2>5, <2>6, <2>7, <2>8, <2>9, <2>10, ChangeStep
<1> QED
  BY <1>2, <1>3

\* The requester withdrawing changes everybody's message.
LEMMA CancelStep ==
  ASSUME AskInv, NEW t \in Tabs, Cancel(t)
  PROVE  Kept(t)
<1> DEFINE due == ask'.deliveries
           none == {}
           next == Sending(ask', due, none)
<1>1. /\ job[t].due = {} /\ ask.status # "unraised" /\ ask \in Asks
      /\ Cardinality(ask.recipients) <= MaxRecipients /\ ask.commitments \subseteq promised
  BY DEF Cancel, AskInv, TypeInv, JobSound
<1>2. CASE ask.status # "open"
  <2>1. job' = [job EXCEPT ![t] = Idle] /\ ask' = ask
    BY <1>2 DEF Cancel
  <2> QED
    BY <1>1, <2>1, DropStep DEF Cancel
<1>3. CASE ask.status = "open"
  <2>1. ask' = [ask EXCEPT !.status = "cancelled"] /\ job' = [job EXCEPT ![t] = next]
    BY <1>3 DEF Cancel, Telling, Sending
  <2>2. /\ ask' \in Asks /\ ask'.recipients = ask.recipients /\ ask'.status = "cancelled"
        /\ ask'.needed = ask.needed /\ ask'.keepAsking = ask.keepAsking
        /\ ask'.commitments = ask.commitments /\ ask'.deliveries = ask.deliveries
    BY <1>1, <2>1 DEF Asks, Statuses
  <2>3. /\ due \in SUBSET People /\ none \in SUBSET People
        /\ \A q \in due : Message(ask', q) # "asking"
    BY <2>2, MessageIs DEF Asks
  <2>4. \A q \in ask'.deliveries :
          Message(ask', q) # "asking" /\ (q \notin ask.deliveries \/ Message(ask, q) = "asking")
            => q \in due
    OBVIOUS
  <2> HIDE DEF due, none
  <2>5. Sends(next, ask', due, none)
    BY <2>2, <2>3, SendingIs
  <2> HIDE DEF next
  <2>6. none \cap ask.recipients = {} /\ none \subseteq ask'.recipients
    BY DEF none
  <2>7. job[t].at # "idle" /\ UNCHANGED <<promised, dm, posts, told, missed, clicks>>
    BY DEF Cancel
  <2> QED
    BY <1>1, <1>3, <2>1, <2>2, <2>3, <2>4, <2>5, <2>6, <2>7, ChangeStep
<1> QED
  BY <1>2, <1>3

\* Those that write the ask, or do not get to.
LEMMA ChangesAreKept ==
  ASSUME AskInv, NEW t \in Tabs, Change(t)
  PROVE  Kept(t)
<1>1. ASSUME GiveUp(t) PROVE Kept(t)
  <2>1. job[t].due = {}
    BY <1>1 DEF GiveUp, AskInv, JobSound
  <2> QED
    BY <1>1, <2>1, DropStep DEF GiveUp
<1> QED
  BY <1>1, PromiseStep, CommitStep, DeclineStep, AskMoreStep, CancelStep DEF Change

\* A step of a handler that is sending, which leaves the ask as it was.
LEMMA SendStep ==
  ASSUME AskInv, NEW t \in Tabs, NEW j \in Jobs, job[t].at = "tell", j.at \in {"idle", "tell"},
         j.at = "idle" => j.due = {} /\ j.asked = {} /\ j.landed = {},
         job' = [job EXCEPT ![t] = j], UNCHANGED <<ask, promised, clicks>>, told' \in Nat,
         dm' \in [People -> {"none", "asking", "answered", "closed"}],
         posts' \in [People -> Nat], missed' \subseteq People
  PROVE  AskInv' /\ Leaves(t) /\ job'[t] = j
<1>1. /\ ask.status # "unraised" /\ ask \in Asks /\ ask.commitments \subseteq promised
      /\ promised \subseteq People
  BY DEF AskInv, TypeInv, JobSound
<1>2. j.at \notin {"promise", "commit", "decline"}
      /\ (j.at # "tell" => j.due = {} /\ j.asked = {} /\ j.landed = {})
  OBVIOUS
<1> QED
  BY <1>1, <1>2, WriteStep DEF AskInv

\* One that was going on with less to send.
LEMMA LessToSend ==
  ASSUME AskInv, NEW t \in Tabs, job[t].at = "tell", NEW j \in Jobs, j.at = "tell",
         job' = [job EXCEPT ![t] = Continue(j)], UNCHANGED <<ask, promised, clicks>>, told' \in Nat,
         dm' \in [People -> {"none", "asking", "answered", "closed"}],
         posts' \in [People -> Nat], missed' \subseteq People
  PROVE  /\ AskInv' /\ Leaves(t)
         /\ job'[t].due = j.due /\ job'[t].asked = j.asked /\ job'[t].landed = j.landed
         /\ j.due # {} => job'[t].left = j.left
<1> DEFINE c == Continue(j)
<1>1. c \in Jobs /\ c \in {j, Idle} /\ c.due = j.due /\ c.asked = j.asked /\ c.landed = j.landed
  BY ContinueIs
<1>2. /\ Idle.at = "idle" /\ Idle.due = {} /\ Idle.asked = {} /\ Idle.landed = {}
  BY IdleIs
<1>3. job' = [job EXCEPT ![t] = c]
  OBVIOUS
<1> HIDE DEF c
<1>4. c.at \in {"idle", "tell"} /\ (c.at = "idle" => c.due = {} /\ c.asked = {} /\ c.landed = {})
  BY <1>1, <1>2
<1>5. AskInv' /\ Leaves(t) /\ job'[t] = c
  BY <1>1, <1>3, <1>4, SendStep
<1>6. j.due # {} => c.left = j.left
  BY <1>1, <1>2
<1> QED
  BY <1>1, <1>5, <1>6

\* A message is brought up to date, or its update goes astray.
LEMMA UpdateDmStep ==
  ASSUME DeliveriesInv, NEW t \in Tabs, NEW q \in People, UpdateDm(t, q)
  PROVE  Kept(t)
<1> DEFINE j == [job[t] EXCEPT !.due = @ \ {q}]
<1>1. AskInv /\ job \in [Tabs -> Jobs] /\ job[t] \in Jobs /\ told \in Nat /\ posts \in [People -> Nat]
      /\ dm \in [People -> {"none", "asking", "answered", "closed"}]
  BY DEF DeliveriesInv, AskedInv, AskInv, TypeInv
<1>2. /\ j \in Jobs /\ j.at = "tell" /\ j.due = job[t].due \ {q} /\ j.asked = job[t].asked
      /\ j.landed = job[t].landed /\ j.left = job[t].left
  BY <1>1 DEF UpdateDm, Jobs
<1>3. job' = [job EXCEPT ![t] = Continue(j)]
  BY DEF UpdateDm
<1> HIDE DEF j
<1>4. Message(job[t].left, q) \in {"answered", "closed"}
  BY DEF DeliveriesInv, Delivered, UpdateDm, Message
<1>5. /\ dm' \in [People -> {"none", "asking", "answered", "closed"}]
      /\ \A p \in People \ {q} : dm'[p] = dm[p] /\ (p \in missed => p \in missed')
      /\ \/ dm'[q] # "asking"
         \/ q \in missed' /\ dm'[q] = dm[q]
      /\ missed' \subseteq People
  <2>1. missed \subseteq People
    BY DEF DeliveriesInv, AskedInv, AskInv, TypeInv
  <2>2. CASE dm' = [dm EXCEPT ![q] = Message(job[t].left, q)] /\ missed' = missed \ {q}
    BY <1>1, <1>4, <2>1, <2>2
  <2>3. CASE missed' = missed \cup {q} /\ dm' = dm
    BY <1>1, <2>1, <2>3
  <2> QED
    BY <2>2, <2>3 DEF UpdateDm
<1>6. /\ AskInv' /\ Leaves(t)
      /\ job'[t].due = j.due /\ job'[t].asked = j.asked /\ job'[t].landed = j.landed
      /\ (j.due # {} => job'[t].left = j.left)
  <2>1. job[t].at = "tell" /\ UNCHANGED <<ask, promised, clicks>>
    BY DEF UpdateDm
  <2>2. told' \in Nat /\ posts' \in [People -> Nat]
    BY <1>1 DEF UpdateDm
  <2> QED
    BY <1>1, <1>2, <1>3, <1>5, <2>1, <2>2, LessToSend
<1>7. ASSUME NEW p \in People PROVE Posts(t, p) /\ Updates(t, p)
  <2>1. Posts(t, p)
    BY <1>2, <1>6 DEF Posts, UpdateDm
  <2>2. p \in job'[t].due => Message(job'[t].left, p) # "asking"
    BY <1>2, <1>6 DEF DeliveriesInv, Delivered
  <2>3. /\ p \in job[t].due => p \in job'[t].due \/ dm'[p] # "asking" \/ p \in missed'
        /\ p \in missed => p \in missed' \/ dm'[p] # "asking"
    BY <1>2, <1>5, <1>6
  <2>4. ask' = ask /\ (dm'[p] = dm[p] \/ dm'[p] # "asking")
    BY <1>5 DEF UpdateDm
  <2>5. /\ p \in ask'.deliveries /\ dm'[p] = "asking" /\ Message(ask', p) # "asking"
        /\ p \notin ask.deliveries \/ dm[p] # "asking" \/ Message(ask, p) = "asking"
        => p \in job'[t].due
    BY <2>4
  <2> QED
    BY <1>2, <1>6, <2>1, <2>2, <2>3, <2>4, <2>5 DEF Updates
<1> QED
  BY <1>6, <1>7 DEF Kept

\* The requester is told.
LEMMA TellShortStep ==
  ASSUME AskInv, NEW t \in Tabs, TellShort(t)
  PROVE  Kept(t)
<1> DEFINE j == [job[t] EXCEPT !.short = FALSE]
<1>1. /\ job \in [Tabs -> Jobs] /\ job[t] \in Jobs /\ job[t].at = "tell" /\ told' \in Nat
      /\ posts' \in [People -> Nat] /\ dm' \in [People -> {"none", "asking", "answered", "closed"}]
      /\ missed' \subseteq People
  BY DEF AskInv, TypeInv, TellShort
<1>2. /\ j \in Jobs /\ j.at = "tell" /\ j.due = job[t].due /\ j.asked = job[t].asked
      /\ j.landed = job[t].landed
  BY <1>1 DEF Jobs
<1>3. job' = [job EXCEPT ![t] = Continue(j)]
  BY DEF TellShort
<1> HIDE DEF j
<1>4. /\ AskInv' /\ Leaves(t)
      /\ job'[t].due = j.due /\ job'[t].asked = j.asked /\ job'[t].landed = j.landed
  BY <1>1, <1>2, <1>3, LessToSend DEF TellShort
<1>5. ASSUME NEW p \in People PROVE Posts(t, p) /\ Updates(t, p)
  BY <1>2, <1>4 DEF Posts, Updates, TellShort
<1> QED
  BY <1>4, <1>5 DEF Kept

\* A message is posted, or refused by the chat.
LEMMA PostDmStep ==
  ASSUME DeliveriesInv, NEW t \in Tabs, NEW q \in People, PostDm(t, q)
  PROVE  Kept(t)
<1>1. AskInv /\ job \in [Tabs -> Jobs] /\ job[t] \in Jobs /\ told \in Nat /\ posts \in [People -> Nat]
      /\ dm \in [People -> {"none", "asking", "answered", "closed"}]
  BY DEF DeliveriesInv, AskedInv, AskInv, TypeInv
<1>2. /\ job[t].at = "tell" /\ job[t].due = {} /\ q \in job[t].asked
      /\ UNCHANGED <<ask, promised, told, missed, clicks>> /\ missed' \subseteq People
  BY DEF PostDm, DeliveriesInv, AskedInv, AskInv, TypeInv
<1>3. CASE /\ dm' = [dm EXCEPT ![q] = Message(job[t].left, q)]
           /\ posts' = [posts EXCEPT ![q] = @ + 1]
           /\ job' = [job EXCEPT ![t].asked = @ \ {q}, ![t].landed = @ \cup {q}]
  <2> DEFINE j == [job[t] EXCEPT !.asked = @ \ {q}, !.landed = @ \cup {q}]
  <2>1. /\ j \in Jobs /\ j.at = "tell" /\ j.due = {} /\ j.asked = job[t].asked \ {q}
        /\ j.landed = job[t].landed \cup {q}
    BY <1>1, <1>2 DEF Jobs
  <2>2. job' = [job EXCEPT ![t] = j]
    BY <1>1, <1>3
  <2> HIDE DEF j
  <2>3. /\ posts' \in [People -> Nat] /\ posts'[q] = posts[q] + 1
        /\ \A p \in People \ {q} : posts'[p] = posts[p] /\ dm'[p] = dm[p]
    BY <1>1, <1>3
  <2>4. dm' \in [People -> {"none", "asking", "answered", "closed"}]
    <3>1. Message(job[t].left, q) \in {"asking", "answered", "closed"}
      BY DEF Message
    <3> QED
      BY <1>1, <1>3, <3>1
  <2>5. AskInv' /\ Leaves(t) /\ job'[t] = j
    BY <1>1, <1>2, <2>1, <2>2, <2>3, <2>4, SendStep
  <2>6. q \notin ask.deliveries
    BY <1>2 DEF DeliveriesInv, AskedInv, Sent, Delivered
  <2>7. ASSUME NEW p \in People PROVE Posts(t, p) /\ Updates(t, p)
    BY <1>2, <2>1, <2>3, <2>5, <2>6 DEF Posts, Updates
  <2> QED
    BY <2>5, <2>7 DEF Kept
<1>4. CASE job' = [job EXCEPT ![t] = Continue([job[t] EXCEPT !.asked = @ \ {q}])] /\ UNCHANGED <<dm, posts>>
  <2> DEFINE j == [job[t] EXCEPT !.asked = @ \ {q}]
  <2>1. /\ j \in Jobs /\ j.at = "tell" /\ j.due = {} /\ j.asked = job[t].asked \ {q}
        /\ j.landed = job[t].landed
    BY <1>1, <1>2 DEF Jobs
  <2>2. job' = [job EXCEPT ![t] = Continue(j)]
    BY <1>4
  <2> HIDE DEF j
  <2>3. /\ UNCHANGED <<ask, promised, clicks>> /\ told' \in Nat /\ missed' \subseteq People
        /\ dm' \in [People -> {"none", "asking", "answered", "closed"}]
        /\ posts' \in [People -> Nat]
    BY <1>1, <1>2, <1>4
  <2>4. /\ AskInv' /\ Leaves(t)
        /\ job'[t].due = j.due /\ job'[t].asked = j.asked /\ job'[t].landed = j.landed
    BY ONLY <1>1, <1>2, <2>1, <2>2, <2>3, LessToSend
  <2>5. ASSUME NEW p \in People PROVE Posts(t, p) /\ Updates(t, p)
    BY <1>2, <1>4, <2>1, <2>4 DEF Posts, Updates
  <2> QED
    BY <2>4, <2>5 DEF Kept
<1> QED
  BY <1>3, <1>4 DEF PostDm

\* The messages that went out are recorded.
LEMMA RecordStep ==
  ASSUME AskInv, NEW t \in Tabs, Record(t)
  PROVE  Kept(t)
<1> DEFINE due == {p \in job[t].landed : Message(ask', p) # "asking"}
           none == {}
           next == Sending(ask', due, none)
<1>1. /\ job[t].at = "tell" /\ job[t].due = {} /\ job[t].landed \in SUBSET People
      /\ ask.status # "unraised" /\ ask \in Asks /\ Cardinality(ask.recipients) <= MaxRecipients
      /\ ask.commitments \subseteq promised
  BY DEF Record, AskInv, TypeInv, JobSound, Jobs
<1>2. CASE job' = [job EXCEPT ![t] = Idle] /\ UNCHANGED ask
  BY <1>1, <1>2, DropStep DEF Record
<1>3. CASE /\ ask' = [ask EXCEPT !.deliveries = @ \cup job[t].landed]
           /\ job' = [job EXCEPT ![t] = Telling(@, due, FALSE, none)]
  <2>1. job' = [job EXCEPT ![t] = next]
    BY <1>3 DEF Telling, Sending
  <2>2. /\ ask' \in Asks /\ ask'.recipients = ask.recipients /\ ask'.status = ask.status
        /\ ask'.needed = ask.needed /\ ask'.keepAsking = ask.keepAsking
        /\ ask'.commitments = ask.commitments /\ ask'.declines = ask.declines
        /\ ask'.deliveries = ask.deliveries \cup job[t].landed
    BY <1>1, <1>3 DEF Asks
  <2>3. due \in SUBSET People /\ none \in SUBSET People /\ \A q \in due : Message(ask', q) # "asking"
    BY <1>1
  <2>4. \A q \in ask'.deliveries :
          Message(ask', q) # "asking" /\ (q \notin ask.deliveries \/ Message(ask, q) = "asking")
            => q \in due
    BY <1>1, <2>2, MessageIs DEF Asks
  <2> HIDE DEF due, none
  <2>5. Sends(next, ask', due, none)
    BY <2>2, <2>3, SendingIs
  <2> HIDE DEF next
  <2>6. none \cap ask.recipients = {} /\ none \subseteq ask'.recipients
    BY DEF none
  <2>7. job[t].at # "idle" /\ UNCHANGED <<promised, dm, posts, told, missed, clicks>>
    BY DEF Record
  <2>8. ask'.status = "open" => Cardinality(ask'.commitments) < ask'.needed
    BY <2>2 DEF AskInv
  <2> QED
    BY <1>1, <2>1, <2>2, <2>3, <2>4, <2>5, <2>6, <2>7, <2>8, ChangeStep
<1> QED
  BY <1>2, <1>3 DEF Record

\* The process of a handler dies: the updates it had still to make go astray.
LEMMA DieStep ==
  ASSUME AskInv, NEW t \in Tabs, Die(t)
  PROVE  Kept(t)
<1> DEFINE j == Idle
<1>1. /\ j \in Jobs /\ j.at = "idle" /\ j.due = {} /\ j.asked = {} /\ j.landed = {}
      /\ job' = [job EXCEPT ![t] = j] /\ job[t].at # "idle"
      /\ missed' = missed \cup job[t].due /\ UNCHANGED <<ask, promised, dm, posts, told, clicks>>
  BY IdleIs DEF Die, Running
<1> HIDE DEF j
<1>2. job[t].due \in SUBSET People /\ missed' \subseteq People /\ ask.status # "unraised"
  BY <1>1 DEF AskInv, TypeInv, JobSound, Jobs
<1>3. AskInv' /\ Leaves(t) /\ job'[t] = j
  BY <1>1, <1>2, WriteStep DEF AskInv, TypeInv
<1>4. ASSUME NEW p \in People PROVE Posts(t, p) /\ Updates(t, p)
  BY <1>1, <1>3 DEF Posts, Updates
<1> QED
  BY <1>3, <1>4 DEF Kept

\* Every step is kept.
LEMMA EveryStepIsKept ==
  ASSUME DeliveriesInv, NEW t \in Tabs, Step(t)
  PROVE  Kept(t)
<1>1. AskInv
  BY DEF DeliveriesInv, AskedInv
<1>2. CASE RaiseOrAdd(t) \/ Answer(t)
  BY <1>1, <1>2, StartsAreKept
<1>3. CASE Change(t)
  BY <1>1, <1>3, ChangesAreKept
<1>4. CASE Send(t)
  BY <1>1, <1>4, UpdateDmStep, TellShortStep, PostDmStep, RecordStep DEF Send
<1>5. CASE Die(t)
  BY <1>1, <1>5, DieStep
<1> QED
  BY <1>2, <1>3, <1>4, <1>5 DEF Step

-----------------------------------------------------------------------------
(* What every step keeps. *)

\* A message is posted once: one to post is to somebody who had none, and whom no
\* other handler is to post one to.
LEMMA AskedStep ==
  ASSUME DeliveriesInv, NEW t \in Tabs, Kept(t)
  PROVE  AskedInv'
<1> USE DEF DeliveriesInv, AskedInv
<1>1. posts \in [People -> Nat] /\ posts' \in [People -> Nat]
      /\ ask.recipients \subseteq ask'.recipients
      /\ \A u \in Tabs \ {t} : job'[u] = job[u]
  BY DEF Kept, AskInv, TypeInv, Leaves
<1>2. ASSUME NEW p \in People PROVE Sent(p)'
  <2>1. CASE /\ posts'[p] = posts[p]
             /\ p \in job'[t].asked =>
                  p \in job[t].asked \/ (p \notin ask.recipients /\ p \in ask'.recipients)
    <3>1. Sent(p) /\ posts[p] \in Nat
      BY <1>1
    <3>2. p \notin ask.recipients => posts[p] = 0 /\ \A u \in Tabs : p \notin job[u].asked
      BY <3>1 DEF Sent
    <3>3. ASSUME NEW u \in Tabs, p \in job'[u].asked
          PROVE  /\ p \in ask'.recipients /\ posts'[p] = 0
                 /\ \A v \in Tabs \ {u} : p \notin job'[v].asked
      BY <1>1, <2>1, <3>1, <3>2, <3>3 DEF Sent
    <3>4. posts'[p] <= 1 /\ (posts'[p] = 1 => p \in ask'.recipients)
      BY <1>1, <2>1, <3>1 DEF Sent
    <3> QED
      BY <3>3, <3>4 DEF Sent
  <2>2. CASE p \in job[t].asked /\ posts'[p] = posts[p] + 1 /\ p \notin job'[t].asked
    <3>1. /\ posts[p] = 0 /\ p \in ask.recipients
          /\ \A u \in Tabs \ {t} : p \notin job[u].asked
      BY <2>2 DEF Sent
    <3> QED
      BY <1>1, <2>2, <3>1 DEF Sent
  <2> QED
    BY <2>1, <2>2 DEF Kept, Posts
<1> QED
  BY <1>2 DEF Kept

\* And so do the recorded messages keep a handler that will update them.
LEMMA DeliveriesStep ==
  ASSUME DeliveriesInv, NEW t \in Tabs, Kept(t)
  PROVE  DeliveriesInv'
<1>1. AskedInv'
  BY AskedStep
<1>2. /\ posts \in [People -> Nat] /\ posts' \in [People -> Nat]
      /\ \A u \in Tabs \ {t} : job'[u] = job[u]
  BY DEF DeliveriesInv, AskedInv, Kept, AskInv, TypeInv, Leaves
<1>3. ASSUME NEW p \in People PROVE Delivered(p)'
  <2>1. Delivered(p) /\ Updates(t, p)
    BY DEF DeliveriesInv, Kept
  <2>2. posts'[p] \in {posts[p], posts[p] + 1} /\ posts'[p] <= 1 /\ posts[p] \in Nat
    BY <1>1, <1>2 DEF Kept, Posts, AskedInv, Sent
  <2>3. posts[p] = 1 => posts'[p] = 1
    BY <2>2
  <2>4. p \in ask'.deliveries => posts'[p] = 1
    BY <2>1, <2>3 DEF Delivered, Updates
  <2>5. posts'[p] = posts[p] + 1 => posts'[p] = 1
    BY <2>2
  <2>6. ASSUME NEW u \in Tabs
        PROVE  /\ p \in job'[u].landed => posts'[p] = 1
               /\ p \in job'[u].due => Message(job'[u].left, p) # "asking"
    BY <1>2, <2>1, <2>3, <2>5 DEF Delivered, Updates
  <2>7. ASSUME p \in ask'.deliveries \ missed', dm'[p] = "asking", Message(ask', p) # "asking"
        PROVE  \E u \in Tabs : p \in job'[u].due
    <3>1. CASE p \notin ask.deliveries \/ dm[p] # "asking" \/ Message(ask, p) = "asking"
      BY <2>1, <2>7, <3>1 DEF Updates
    <3>2. CASE p \in ask.deliveries /\ dm[p] = "asking" /\ Message(ask, p) # "asking"
      <4>0. p \notin missed
        BY <2>1, <2>7 DEF Updates
      <4>1. PICK u \in Tabs : p \in job[u].due
        BY <2>1, <3>2, <4>0 DEF Delivered
      <4>2. p \in job'[u].due
        BY <1>2, <2>1, <2>7, <4>1 DEF Updates
      <4> QED
        BY <4>2
    <3> QED
      BY <3>1, <3>2
  <2> QED
    BY <2>4, <2>6, <2>7 DEF Delivered
<1> QED
  BY <1>1, <1>3 DEF DeliveriesInv

\* Nothing changes.
LEMMA StutterStep ==
  ASSUME DeliveriesInv, UNCHANGED vars
  PROVE  DeliveriesInv'
<1>1. AskInv'
  <2>1. TypeInv' /\ \A t \in Tabs : JobSound(t)'
    BY DEF vars, DeliveriesInv, AskedInv, AskInv, TypeInv, JobSound
  <2> QED
    BY <2>1 DEF vars, DeliveriesInv, AskedInv, AskInv
<1>2. \A p \in People : Sent(p)' /\ Delivered(p)'
  BY DEF vars, DeliveriesInv, AskedInv, Sent, Delivered
<1> QED
  BY <1>1, <1>2 DEF DeliveriesInv, AskedInv

\* The first state, where nothing was asked.
LEMMA DeliveriesInit ==
  ASSUME Init PROVE DeliveriesInv
<1>1. Idle \in Jobs /\ NoAsk \in Asks /\ Cardinality(NoAsk.recipients) = 0
      /\ Idle.at = "idle" /\ Idle.due = {} /\ Idle.asked = {} /\ Idle.landed = {}
  BY IdleIs
<1>2. job \in [Tabs -> Jobs] /\ \A t \in Tabs : job[t] = Idle
  BY <1>1 DEF Init
<1>3. TypeInv
  BY <1>1, <1>2, MaxClicksAssumption DEF Init, TypeInv
<1>4. \A t \in Tabs : JobSound(t)
  BY <1>1, <1>2 DEF JobSound
<1>5. AskInv
  BY <1>1, <1>3, <1>4, MaxRecipientsAssumption DEF Init, AskInv, NoAsk
<1>6. \A p \in People : Sent(p) /\ Delivered(p)
  BY <1>1, <1>2 DEF Init, Sent, Delivered, NoAsk
<1> QED
  BY <1>5, <1>6 DEF DeliveriesInv, AskedInv

\* The messages are in order in every state.
LEMMA AlwaysDelivered ==
  Spec => []DeliveriesInv
<1>1. DeliveriesInv /\ [Next]_vars => DeliveriesInv'
  <2> SUFFICES ASSUME DeliveriesInv, [Next]_vars PROVE DeliveriesInv'
    OBVIOUS
  <2>1. CASE UNCHANGED vars
    BY <2>1, StutterStep
  <2>2. CASE Next
    <3>1. PICK t \in Tabs : Step(t)
      BY <2>2 DEF Next, Step
    <3> QED
      BY <3>1, EveryStepIsKept, DeliveriesStep
  <2> QED
    BY <2>1, <2>2
<1> QED
  BY <1>1, DeliveriesInit, PTL DEF Spec

-----------------------------------------------------------------------------
(* The theorems. *)

\* The variables keep their types.
THEOREM TypeCorrect ==
  Spec => []TypeOK
<1>1. DeliveriesInv => TypeOK
  <2> SUFFICES ASSUME TypeInv PROVE TypeOK
    BY DEF DeliveriesInv, AskedInv, AskInv
  <2>1. ASSUME NEW t \in Tabs
        PROVE  /\ job[t].at \in Steps /\ job[t].who \in People \cup {Nobody}
               /\ job[t].before \in Nat /\ job[t].left \in Asks
               /\ {job[t].candidates[i] : i \in DOMAIN job[t].candidates} \subseteq People
               /\ UNION {job[t].due, job[t].asked, job[t].landed} \subseteq People
               /\ job[t].byName \in BOOLEAN /\ job[t].short \in BOOLEAN
    <3>1. job[t] \in Jobs
      BY DEF TypeInv
    <3>2. PICK j \in Jobs : j = job[t]
      BY <3>1
    <3>3. j.candidates \in Seq(People) /\ j.due \subseteq People /\ j.asked \subseteq People
          /\ j.landed \subseteq People
      BY DEF Jobs
    <3>4. /\ j.at \in Steps /\ j.who \in People \cup {Nobody}
          /\ j.before \in Nat /\ j.left \in Asks
          /\ j.byName \in BOOLEAN /\ j.short \in BOOLEAN
      BY DEF Jobs
    <3>5. {j.candidates[i] : i \in DOMAIN j.candidates} \subseteq People
      BY <3>3
    <3>6. UNION {j.due, j.asked, j.landed} \subseteq People
      BY <3>3
    <3> QED
      BY <3>2, <3>4, <3>5, <3>6
  <2> QED
    BY <2>1 DEF TypeInv, TypeOK
<1> QED
  BY <1>1, AlwaysDelivered, PTL

\* An open ask never has the reviewers it needs: the commitment that completes it
\* resolves it, whichever handlers' answers land together.
THEOREM ResolvedByTheLast ==
  Spec => []SatisfiedIsClosed
<1>1. DeliveriesInv => SatisfiedIsClosed
  <2> SUFFICES ASSUME AskInv, ask.status = "open" PROVE Outstanding(ask) > 0
    BY DEF DeliveriesInv, AskedInv, SatisfiedIsClosed
  <2>1. Cardinality(ask.commitments) \in Nat /\ ask.needed \in Nat
        /\ Cardinality(ask.commitments) < ask.needed
    BY PeopleAreFew DEF AskInv, TypeInv, Asks
  <2> QED
    BY <2>1 DEF Outstanding
<1> QED
  BY <1>1, AlwaysDelivered, PTL

\* Nobody is sent the ask twice.
THEOREM NobodyAskedTwice ==
  Spec => []AskedOnce
<1>1. DeliveriesInv => AskedOnce
  BY DEF DeliveriesInv, AskedInv, Sent, AskedOnce
<1> QED
  BY <1>1, AlwaysDelivered, PTL

\* Once nothing is under way, no recorded message whose last update reached it
\* offers its buttons to somebody who has answered, or on an ask that is over.
THEOREM NoStaleButtons ==
  Spec => []NoButtonsWhenOver
<1>1. DeliveriesInv => NoButtonsWhenOver
  <2> SUFFICES ASSUME DeliveriesInv, Quiet, NEW p \in ask.deliveries \ missed, dm[p] = "asking",
                      Message(ask, p) # "asking"
               PROVE  FALSE
    BY DEF NoButtonsWhenOver
  <2>1. p \in People
    BY DEF DeliveriesInv, AskedInv, AskInv, TypeInv, Asks
  <2>2. PICK t \in Tabs : p \in job[t].due
    BY <2>1 DEF DeliveriesInv, Delivered
  <2>3. job[t].at = "idle" /\ JobSound(t)
    BY DEF Quiet, Running, DeliveriesInv, AskedInv, AskInv
  <2> QED
    BY <2>2, <2>3 DEF JobSound
<1> QED
  BY <1>1, AlwaysDelivered, PTL

\* An ask that is over stays as it ended, and no answer takes another's commitment
\* away, or counts one without a commitment row of its own.
THEOREM AnswersAreFinal ==
  Spec => AnswersStand
<1>1. DeliveriesInv /\ [Next]_vars =>
        [/\ ask.status \in {"resolved", "cancelled"} => ask'.status = ask.status
         /\ ask.commitments \subseteq ask'.commitments
         /\ ask'.commitments \subseteq promised]_vars
  <2> SUFFICES ASSUME DeliveriesInv, Next
               PROVE  /\ ask.status \in {"resolved", "cancelled"} => ask'.status = ask.status
                      /\ ask.commitments \subseteq ask'.commitments
                      /\ ask'.commitments \subseteq promised
    OBVIOUS
  <2>1. PICK t \in Tabs : Step(t)
    BY DEF Next, Step
  <2>2. Kept(t)
    BY <2>1, EveryStepIsKept
  <2>3. ask'.commitments \subseteq promised' /\ ask.commitments \subseteq promised
    BY <2>2 DEF Kept, DeliveriesInv, AskedInv, AskInv
  <2>4. promised' = promised \/ ask' = ask
    BY <2>1 DEF Step, RaiseOrAdd, Raise, AskMoreRead, Answer, CommitRead, DeclineRead, CancelRead,
                Change, Promise, Commit, Decline, AskMore, Cancel, GiveUp, Send, UpdateDm,
                TellShort, PostDm, Record, Die
  <2> QED
    BY <2>2, <2>3, <2>4 DEF Kept, Leaves
<1> QED
  BY <1>1, AlwaysDelivered, PTL DEF Spec, AnswersStand

-----------------------------------------------------------------------------
(* An ask that keeps asking. *)

\* An ask is short when those on it and those it may still hear from are too few.
LEMMA ShortIs ==
  ASSUME NEW a \in Asks
  PROVE  /\ Shortfall(a) > 0 <=>
               a.recipients # {} /\ Cardinality(a.commitments) + Cardinality(Pending(a)) < a.needed
         /\ Shortfall(a) > 0 =>
               Shortfall(a) = a.needed - Cardinality(a.commitments) - Cardinality(Pending(a))
<1>1. Cardinality(a.commitments) \in Nat /\ a.needed \in Nat
  BY PeopleAreFew DEF Asks
<1>2. Cardinality(Pending(a)) \in Nat
  BY PeopleAreFew DEF Pending, Asks
<1> QED
  BY <1>1, <1>2 DEF Shortfall, Outstanding

\* Nothing new: an ask short no longer than before, and with nobody fewer on it.
LEMMA NoShorter ==
  ASSUME AskInv, KeepsAsking, ask' \in Asks, ask.status = "open",
         ask'.keepAsking = ask.keepAsking, ask'.needed = ask.needed,
         ask.recipients \subseteq ask'.recipients, Taken(ask) \subseteq Taken(ask'),
         Cardinality(ask'.recipients) <= MaxRecipients,
         Cardinality(ask.commitments) + Cardinality(Pending(ask))
           <= Cardinality(ask'.commitments) + Cardinality(Pending(ask'))
  PROVE  KeepsAsking'
<1> SUFFICES ASSUME ask'.status = "open", ask'.keepAsking, Shortfall(ask') > 0
             PROVE  \/ Cardinality(ask'.recipients) = MaxRecipients
                    \/ \A i \in DOMAIN Ranked : Ranked[i] \in Taken(ask')
  BY DEF KeepsAsking
<1>1. ask \in Asks /\ ask.recipients # {}
  BY DEF AskInv, TypeInv
<1>2. \A a \in Asks : /\ Cardinality(a.commitments) \in Nat /\ a.needed \in Nat
                       /\ Cardinality(Pending(a)) \in Nat /\ Cardinality(a.recipients) \in Nat
  BY PeopleAreFew DEF Pending, Asks
<1>3. Shortfall(ask) > 0
  BY <1>1, <1>2, ShortIs
<1>4. CASE \A i \in DOMAIN Ranked : Ranked[i] \in Taken(ask)
  BY <1>4
<1>5. CASE Cardinality(ask.recipients) = MaxRecipients
  <2>1. Cardinality(ask.recipients) <= Cardinality(ask'.recipients)
    BY FewerPeople DEF Asks
  <2> QED
    BY <1>1, <1>2, <1>5, <2>1, MaxRecipientsAssumption
<1> QED
  BY <1>3, <1>4, <1>5 DEF KeepsAsking

\* A broadcast does not keep asking; a named ask starts with as many as it needs.
LEMMA RaiseKeepsAsking ==
  ASSUME AskInv, NEW t \in Tabs, NEW named \in SUBSET People, NEW needed \in Needs,
         NEW keeps \in BOOLEAN, Raise(t, named, needed, keeps), ask' \in Asks
  PROVE  KeepsAsking'
<1>1. /\ ask'.needed = needed /\ ask'.recipients = named /\ ask'.commitments = {}
      /\ ask'.declines = {} /\ (named = {} \/ Cardinality(named) >= needed)
  BY DEF Raise, NoAsk
<1>2. Pending(ask') = named /\ Cardinality(ask'.commitments) = 0
  BY <1>1, FS_EmptySet DEF Pending
<1>3. needed \in Nat /\ Cardinality(named) \in Nat
  BY NeedsAssumption, PeopleAreFew
<1>4. ~(Shortfall(ask') > 0)
  <2>1. Shortfall(ask') > 0 =>
          ask'.recipients # {} /\ Cardinality(ask'.commitments) + Cardinality(Pending(ask')) < ask'.needed
    BY ShortIs
  <2>2. Cardinality(Pending(ask')) = Cardinality(named)
    BY <1>2
  <2> QED
    BY <1>1, <1>2, <1>3, <2>1, <2>2
<1> QED
  BY <1>4 DEF KeepsAsking

\* A commitment is one more on the ask, and at most one fewer to hear from.
LEMMA CommitKeepsAsking ==
  ASSUME AskInv, KeepsAsking, NEW t \in Tabs, Commit(t), AskInv'
  PROVE  KeepsAsking'
<1> DEFINE p == job[t].who
<1>1. p \in People /\ ask \in Asks /\ ask' \in Asks
  BY DEF Commit, AskInv, TypeInv, JobSound
<1>2. CASE ask' = ask
  BY <1>2 DEF KeepsAsking
<1>3. CASE ask' = CommitmentChange(ask, p) /\ p \notin ask.commitments
  <2> HIDE DEF p
  <2>1. /\ ask'.needed = ask.needed /\ ask'.keepAsking = ask.keepAsking
        /\ ask'.recipients = ask.recipients /\ ask'.commitments = ask.commitments \cup {p}
        /\ ask'.declines = ask.declines \ {p}
        /\ (ask.status # "open" => ask'.status = ask.status)
    BY <1>1, <1>3, CommitmentIs
  <2>2. CASE ask.status # "open"
    BY <2>1, <2>2 DEF KeepsAsking
  <2>3. CASE ask.status = "open"
    <3>1. Pending(ask') = Pending(ask) \ {p} /\ Pending(ask) \in SUBSET People
      BY <1>1, <2>1 DEF Pending, Asks
    <3>2. /\ IsFiniteSet(Pending(ask)) /\ Cardinality(Pending(ask)) \in Nat
          /\ IsFiniteSet(ask.commitments) /\ Cardinality(ask.commitments) \in Nat
      BY <1>1, <3>1, PeopleAreFew DEF Asks
    <3>3. Cardinality(ask'.commitments) = Cardinality(ask.commitments) + 1
      <4>1. ask'.commitments = ask.commitments \cup {p} /\ p \notin ask.commitments
        BY <1>3, <2>1
      <4> QED
        BY <3>2, <4>1, FS_AddElement
    <3>4. Cardinality(Pending(ask')) \in {Cardinality(Pending(ask)), Cardinality(Pending(ask)) - 1}
      BY <3>1, <3>2, FS_RemoveElement
    <3>5. Taken(ask) \subseteq Taken(ask') /\ ask.recipients \subseteq ask'.recipients
      BY <2>1 DEF Taken
    <3>6. Cardinality(ask.commitments) + Cardinality(Pending(ask))
            <= Cardinality(ask'.commitments) + Cardinality(Pending(ask'))
      BY <3>2, <3>3, <3>4
    <3> QED
      BY <1>1, <2>1, <2>3, <3>5, <3>6, NoShorter DEF AskInv
  <2> QED
    BY <2>2, <2>3
<1> QED
  BY <1>2, <1>3 DEF Commit

\* A decline asks as many as it leaves the ask short, or all there are, or as many
\* as it has room for.
LEMMA DeclineKeepsAsking ==
  ASSUME AskInv, KeepsAsking, NEW t \in Tabs, Decline(t), AskInv'
  PROVE  KeepsAsking'
<1> DEFINE p == job[t].who
<1>1. /\ p \in People /\ ask \in Asks /\ ask' \in Asks
      /\ Cardinality(ask.recipients) <= MaxRecipients
      /\ (ask.keepAsking => job[t].candidates = Ranked)
  BY DEF Decline, AskInv, TypeInv, JobSound
<1>2. CASE ask' = ask
  BY <1>2 DEF KeepsAsking
<1>3. CASE ask' = DeclineChange(ask, p, job[t].candidates) /\ MayDecline(p)
  <2> SUFFICES ASSUME ask'.keepAsking, Shortfall(ask') > 0
               PROVE  \/ Cardinality(ask'.recipients) = MaxRecipients
                      \/ \A i \in DOMAIN Ranked : Ranked[i] \in Taken(ask')
    BY DEF KeepsAsking
  <2> DEFINE declined == [ask EXCEPT !.declines = @ \cup {p}]
             s == Shortfall(declined)
             asked == NextToAsk(declined, Ranked, s)
  <2>1. /\ declined \in Asks /\ declined.recipients = ask.recipients /\ declined.status = ask.status
        /\ declined.commitments = ask.commitments /\ declined.declines = ask.declines \cup {p}
        /\ declined.needed = ask.needed
    BY <1>1 DEF Asks
  <2>2. ask'.keepAsking = ask.keepAsking
    BY <1>1, <1>3 DEF DeclineChange, Asks
  <2>3. ask' = [ask EXCEPT !.declines = @ \cup {p}, !.recipients = @ \cup asked]
    BY <1>1, <1>3, <2>2 DEF DeclineChange, DeclineAsks
  <2> HIDE DEF declined
  <2>4. s \in Nat
    BY <2>1, ShortfallIs
  <2>5. asked \in SUBSET People /\ asked \cap Taken(declined) = {}
    <3>1. Ranked \in Seq(People)
      BY RankedAssumption
    <3> HIDE DEF s
    <3> QED
      BY <1>1, <2>1, <2>4, <3>1, NextAreNew
  <2>6. \/ \A i \in DOMAIN Ranked : Ranked[i] \in Taken(declined) \cup asked
        \/ Cardinality(asked) = Room(declined, s)
    <3> HIDE DEF s
    <3> QED
      BY <1>1, <1>3, <2>1, <2>4, NextAreEnough DEF MayDecline
  <2>7. Room(declined, s) \in {s, MaxRecipients - Cardinality(ask.recipients)}
    <3> HIDE DEF s
    <3> QED
      BY <1>1, <2>1, <2>4, RoomIs
  <2>h. s = Shortfall(declined)
    OBVIOUS
  <2> HIDE DEF s, asked
  <2>8. /\ ask'.recipients = ask.recipients \cup asked /\ ask'.declines = declined.declines
        /\ ask'.commitments = ask.commitments /\ ask'.needed = ask.needed
    BY <1>1, <2>1, <2>3 DEF Asks
  <2>9. Taken(ask') = Taken(declined) \cup asked
    BY <2>1, <2>8 DEF Taken
  <2>10. ask.recipients \in SUBSET People /\ ask.recipients \cap asked = {}
    BY <1>1, <2>1, <2>5 DEF Asks, Taken
  <2>11. Cardinality(ask'.recipients) = Cardinality(ask.recipients) + Cardinality(asked)
    BY <2>5, <2>8, <2>10, ApartAdd
  <2>12. /\ Pending(ask') = Pending(declined) \cup asked /\ Pending(declined) \cap asked = {}
         /\ Pending(declined) \in SUBSET People
    BY <1>1, <2>1, <2>5, <2>8 DEF Pending, Taken, Asks
  <2>13. Cardinality(Pending(ask')) = Cardinality(Pending(declined)) + Cardinality(asked)
    BY <2>5, <2>12, ApartAdd
  <2>14. /\ Cardinality(asked) \in Nat /\ Cardinality(Pending(declined)) \in Nat
         /\ Cardinality(ask.recipients) \in Nat /\ Cardinality(ask.commitments) \in Nat
         /\ ask.needed \in Nat /\ MaxRecipients \in Nat
    BY <1>1, <2>5, <2>10, <2>12, PeopleAreFew, MaxRecipientsAssumption DEF Asks
  <2>15. CASE \A i \in DOMAIN Ranked : Ranked[i] \in Taken(declined) \cup asked
    BY <2>9, <2>15
  <2>16. CASE Cardinality(asked) = MaxRecipients - Cardinality(ask.recipients)
    BY <2>11, <2>14, <2>16
  <2>17. CASE Cardinality(asked) = s
    <3>1. Cardinality(ask.commitments) + Cardinality(Pending(declined)) + Cardinality(asked)
            < ask.needed
      BY <1>1, <2>8, <2>13, <2>14, ShortIs
    <3>2. ask.recipients # {}
      BY <2>2 DEF AskInv
    <3>3. s > 0 /\ s = ask.needed - Cardinality(ask.commitments) - Cardinality(Pending(declined))
      BY <2>1, <2>14, <2>h, <3>1, <3>2, ShortIs
    <3> QED
      BY <2>14, <2>17, <3>1, <3>3
  <2> QED
    BY <2>6, <2>7, <2>15, <2>16, <2>17
<1> QED
  BY <1>2, <1>3 DEF Decline

\* Asking on leaves more people to hear from.
LEMMA AskMoreKeepsAsking ==
  ASSUME AskInv, KeepsAsking, NEW t \in Tabs, AskMore(t), AskInv'
  PROVE  KeepsAsking'
<1> DEFINE candidates == job[t].candidates
           count == AskCount(ask, job[t].byName, candidates)
           asked == NextToAsk(ask, candidates, count)
<1>1. /\ candidates \in Seq(People) /\ job[t].byName \in BOOLEAN
      /\ ask \in Asks /\ ask' \in Asks /\ Cardinality(ask.recipients) <= MaxRecipients
  BY DEF AskMore, AskInv, TypeInv, Jobs
<1>2. CASE ask' = ask
  BY <1>2 DEF KeepsAsking
<1>3. CASE ask' = [ask EXCEPT !.recipients = @ \cup asked] /\ ask.status = "open"
  <2>1. count \in Nat
    BY <1>1, AskCountIs DEF AskCount
  <2>2. asked \in SUBSET People /\ asked \cap Taken(ask) = {}
    <3> HIDE DEF candidates, count
    <3> QED
      BY <1>1, <2>1, NextAreNew
  <2> HIDE DEF asked
  <2>3. /\ ask'.recipients = ask.recipients \cup asked /\ ask'.commitments = ask.commitments
        /\ ask'.declines = ask.declines /\ ask'.needed = ask.needed
        /\ ask'.keepAsking = ask.keepAsking
    BY <1>1, <1>3 DEF Asks
  <2>4. Pending(ask') \in SUBSET People /\ Pending(ask) \in SUBSET Pending(ask')
    BY <1>1, <2>2, <2>3 DEF Pending, Taken, Asks
  <2>5. Cardinality(Pending(ask)) <= Cardinality(Pending(ask'))
    BY <2>4, FewerPeople
  <2>6. /\ Cardinality(Pending(ask)) \in Nat /\ Cardinality(Pending(ask')) \in Nat
        /\ Cardinality(ask.commitments) \in Nat
    BY <1>1, <2>4, PeopleAreFew DEF Asks
  <2>7. Taken(ask) \subseteq Taken(ask')
    BY <2>3 DEF Taken
  <2>8. Cardinality(ask.commitments) + Cardinality(Pending(ask))
          <= Cardinality(ask'.commitments) + Cardinality(Pending(ask'))
    BY <2>3, <2>5, <2>6
  <2> QED
    BY <1>1, <1>3, <2>3, <2>7, <2>8, NoShorter DEF AskInv
<1> QED
  BY <1>2, <1>3 DEF AskMore

\* The other steps leave who was asked and who answered.
LEMMA StepKeepsAsking ==
  ASSUME DeliveriesInv, KeepsAsking, NEW t \in Tabs, Step(t)
  PROVE  KeepsAsking'
<1>1. AskInv /\ AskInv' /\ ask \in Asks /\ ask' \in Asks
  BY EveryStepIsKept DEF Kept, DeliveriesInv, AskedInv, AskInv, TypeInv
<1>2. CASE ask' = ask
  BY <1>2 DEF KeepsAsking
<1>3. CASE ask'.status # "open"
  BY <1>3 DEF KeepsAsking
<1>4. ASSUME Record(t) PROVE KeepsAsking'
  <2>1. CASE ask' = [ask EXCEPT !.deliveries = @ \cup job[t].landed]
    <3>1. /\ ask'.recipients = ask.recipients /\ ask'.commitments = ask.commitments
          /\ ask'.declines = ask.declines /\ ask'.needed = ask.needed
          /\ ask'.keepAsking = ask.keepAsking /\ ask'.status = ask.status
      BY <1>1, <2>1 DEF Asks
    <3>2. Shortfall(ask') = Shortfall(ask) /\ Taken(ask') = Taken(ask)
      BY <3>1 DEF Shortfall, Outstanding, Pending, Taken
    <3> QED
      BY <3>1, <3>2 DEF KeepsAsking
  <2> QED
    BY <1>2, <1>4, <2>1 DEF Record
<1>5. CASE RaiseOrAdd(t)
  BY <1>1, <1>2, <1>5, RaiseKeepsAsking DEF RaiseOrAdd, AskMoreRead
<1>6. CASE Answer(t)
  BY <1>2, <1>6 DEF Answer, CommitRead, DeclineRead, CancelRead
<1>7. CASE Change(t)
  <2>1. CASE Promise(t) \/ GiveUp(t)
    BY <1>2, <2>1 DEF Promise, GiveUp
  <2>2. CASE Cancel(t)
    <3>1. ask' = ask \/ ask' = [ask EXCEPT !.status = "cancelled"]
      BY <2>2 DEF Cancel
    <3> QED
      BY <1>1, <1>2, <1>3, <3>1 DEF Asks
  <2> QED
    BY <1>1, <1>7, <2>1, <2>2, CommitKeepsAsking, DeclineKeepsAsking, AskMoreKeepsAsking DEF Change
<1>8. CASE Send(t)
  BY <1>2, <1>4, <1>8 DEF Send, UpdateDm, PostDm, TellShort
<1>9. CASE Die(t)
  BY <1>2, <1>9 DEF Die
<1> QED
  BY <1>5, <1>6, <1>7, <1>8, <1>9 DEF Step

\* An open ask that keeps asking is short only when all the ranking has been asked,
\* or the ask is full, whichever declines land together.
THEOREM NeverStopsShort ==
  Spec => []KeepsAsking
<1>1. Init => KeepsAsking
  BY DEF Init, NoAsk, KeepsAsking
<1>2. DeliveriesInv /\ KeepsAsking /\ [Next]_vars => KeepsAsking'
  <2> SUFFICES ASSUME DeliveriesInv, KeepsAsking, [Next]_vars PROVE KeepsAsking'
    OBVIOUS
  <2>1. CASE UNCHANGED vars
    BY <2>1 DEF vars, KeepsAsking
  <2>2. CASE Next
    <3>1. PICK t \in Tabs : Step(t)
      BY <2>2 DEF Next, Step
    <3> QED
      BY <3>1, StepKeepsAsking
  <2> QED
    BY <2>1, <2>2
<1> QED
  BY <1>1, <1>2, AlwaysDelivered, PTL DEF Spec
=============================================================================
