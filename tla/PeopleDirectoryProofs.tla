------------------------ MODULE PeopleDirectoryProofs ------------------------
(***************************************************************************)
(* One account of a host for a row, one person for an account, and an      *)
(* admin in every org that has anybody: for any number of accounts, names  *)
(* and requests, and however the requests interleave.                      *)
(***************************************************************************)
EXTENDS PeopleDirectory, FiniteSetTheorems, TLAPS

-----------------------------------------------------------------------------
(* What a request holds is what the stores say. *)

Listings == UNION {[ps -> Rows] : ps \in SUBSET People}

Works ==
  [account : Accounts \cup {NoAccount}, name : Names \cup {NoName}, trusted : BOOLEAN,
   listed : Listings, adopted : People \cup {Nobody}, established : BOOLEAN,
   role : {"admin", "member"}, person : People \cup {Nobody}, row : Rows]

TypeInv == TypeOK /\ directory \in Listings /\ work \in [Handlers -> Works]

\* An id that nothing but this request knows.
Mine(h) ==
  /\ work[h].person > MaxRegistered
  /\ work[h].person \notin DOMAIN directory
  /\ \A a \in Accounts : link[a] # work[h].person
  /\ \A k \in Handlers \ {h} : work[k].person # work[h].person

WorkSound(h) ==
  /\ pc[h] = "idle" => work[h] = NoWork
  /\ pc[h] # "idle" => work[h].account \in Accounts /\ work[h].name \in Names
  /\ OnItsWay(h) /\ work[h].account \notin moved => work[h].name = name[work[h].account]
  /\ DOMAIN work[h].listed \subseteq DOMAIN directory
  /\ work[h].adopted # Nobody => work[h].adopted \in DOMAIN work[h].listed
  /\ pc[h] = "linking" =>
       /\ work[h].person # Nobody
       /\ IF work[h].adopted # Nobody THEN work[h].person = work[h].adopted ELSE Mine(h)
  /\ pc[h] \in {"refreshing", "updating", "writing", "losing", "creating"} =>
       /\ work[h].person = link[work[h].account] /\ work[h].person # Nobody
       /\ work[h].adopted \in {Nobody, work[h].person}
  /\ pc[h] \in {"updating", "writing"} => work[h].person \in DOMAIN directory
  /\ pc[h] \in {"listing", "matching", "refreshing", "losing", "creating"} =>
       work[h].adopted = Nobody
  /\ pc[h] = "creating" => work[h].person > MaxRegistered

\* A linked account is that of a row, or of a person nobody has registered.
LinkSound(a) == link[a] # Nobody => link[a] \in DOMAIN directory \/ link[a] > MaxRegistered

AnswerSound(a) == answers[a] \cap People \subseteq {link[a]}

RowSound(p) == p > MaxRegistered => \E a \in Accounts : link[a] = p

DirectoryInv ==
  /\ TypeInv /\ NamesOneEach(name)
  /\ \A h \in Handlers : WorkSound(h)
  /\ \A a \in Accounts : LinkSound(a) /\ AnswerSound(a)
  /\ \A p \in DOMAIN directory : RowSound(p)

\* The claim of an account is never left without its row, unless a request of it
\* is still to write that.
Promised(a) ==
  link[a] # Nobody =>
    link[a] \in DOMAIN directory \/ \E h \in Handlers : MidClaim(h) /\ work[h].account = a

-----------------------------------------------------------------------------
(* The handle of a host nobody has signed in from on a row never changes. *)

Agreed(p, g) ==
  /\ \A h \in Handlers :
       /\ p \in DOMAIN work[h].listed =>
            work[h].listed[p].handles[g] = directory[p].handles[g]
       /\ work[h].person = p
            /\ (pc[h] = "writing" \/ (pc[h] = "updating" /\ work[h].adopted = Nobody))
            => work[h].row.handles[g] = directory[p].handles[g]
       /\ work[h].adopted = p /\ pc[h] \in {"admitting", "linking"} /\ HostOf[work[h].account] = g
            => directory[p].handles[g] = work[h].name
  /\ p > MaxRegistered => directory[p].handles[g] = NoName

\* Whoever is about to take a row of somebody of its host is its account, unless
\* one of the two took another name.
Taking(h) ==
  pc[h] \in {"admitting", "linking"} /\ work[h].adopted # Nobody
    /\ work[h].account \notin moved =>
    \A b \in Accounts \ moved :
      link[b] = work[h].adopted /\ HostOf[b] = HostOf[work[h].account] => b = work[h].account

\* Two requests about to take one row, for one host, came by it under one name.
Alike(h, k) ==
  /\ pc[h] \in {"admitting", "linking"} /\ pc[k] \in {"admitting", "linking"}
  /\ work[h].adopted # Nobody /\ work[h].adopted = work[k].adopted
  /\ HostOf[work[h].account] = HostOf[work[k].account]
  => work[h].name = work[k].name

HandlesInv ==
  /\ DirectoryInv /\ OneAccountPerHost
  /\ \A p \in DOMAIN directory, g \in Hosts : ~Linked(p, g) => Agreed(p, g)
  /\ \A h \in Handlers : Taking(h)
  /\ \A h, k \in Handlers : Alike(h, k)

-----------------------------------------------------------------------------
(* A row registered for a name is found by every request of that name. *)

\* Those who are registered were registered before anybody listed them.
Registered(h) ==
  pc[h] \in {"matching", "admitting", "linking"} =>
    \A p \in DOMAIN directory : p <= MaxRegistered => p \in DOMAIN work[h].listed

\* A name on a host nobody has signed in from is on one row.
Distinct ==
  \A p, q \in DOMAIN directory, g \in Hosts :
    p # q /\ ~Linked(p, g) /\ ~Linked(q, g) /\ directory[p].handles[g] = directory[q].handles[g]
      => directory[p].handles[g] = NoName

\* There is no row that the name a request has would let it take.
NoneLeft(h) ==
  \A p \in DOMAIN directory :
    ~Linked(p, HostOf[work[h].account]) =>
      directory[p].handles[HostOf[work[h].account]] # work[h].name

Passed(h) == pc[h] \in {"admitting", "linking"} /\ work[h].adopted = Nobody => NoneLeft(h)

Overtaken(h) ==
  moved = {} /\ OnItsWay(h) /\ link[work[h].account] # Nobody => NoneLeft(h)

ChoiceInv ==
  /\ HandlesInv /\ Distinct
  /\ \A h \in Handlers : Registered(h) /\ Passed(h) /\ Overtaken(h)

-----------------------------------------------------------------------------
(* An admin who is linked, and whom nobody is about to write down as a member. *)

Cap(h) ==
  pc[h] \in {"linking", "updating", "writing"} /\ work[h].adopted # Nobody
    /\ work[h].listed[work[h].adopted].role # work[h].role

SafeAdmin(p) ==
  /\ p \in DOMAIN directory /\ directory[p].role = "admin" /\ IsLinked(p)
  /\ \A h \in Handlers :
       /\ Cap(h) => work[h].adopted # p
       /\ pc[h] = "creating" /\ work[h].person = p => work[h].role = "admin"
       /\ pc[h] = "writing" /\ work[h].person = p => work[h].row.role = "admin"

\* Nobody has come in as an admin yet, and those who are registered are as they were.
Unclaimed ==
  /\ \E p \in DOMAIN directory : directory[p].role = "admin"
  /\ \A p \in DOMAIN directory : IsLinked(p) => directory[p].role = "member"
  /\ \A h \in Handlers :
       /\ ~Cap(h)
       /\ \A p \in DOMAIN work[h].listed : work[h].listed[p].role = directory[p].role
       /\ pc[h] \in {"matching", "admitting", "linking", "losing", "creating"}
            => DOMAIN work[h].listed # {}
       /\ pc[h] = "linking" /\ work[h].adopted = Nobody => work[h].role = "member"
       /\ pc[h] \in {"losing", "creating"} => work[h].role = "member"
       /\ pc[h] = "writing" => work[h].row.role = "member"

\* The first to come found the org.
Founding ==
  /\ DOMAIN directory = {}
  /\ \A h \in Handlers :
       /\ DOMAIN work[h].listed = {}
       /\ pc[h] \in {"linking", "losing", "creating"} => work[h].role = "admin"

\* A row that was linked when it was found is linked.
Established(h) ==
  pc[h] = "admitting" /\ work[h].adopted # Nobody /\ work[h].established
    => IsLinked(work[h].adopted)

\* The update of an adoption is there to cap it.
Capping(h) == pc[h] \in {"updating", "writing"} /\ work[h].adopted # Nobody => Cap(h)

OrgInv ==
  /\ ChoiceInv
  /\ \A h \in Handlers : Established(h) /\ Capping(h)
  /\ (crossed \/ moved # {} \/ Founding \/ Unclaimed \/ \E p \in DOMAIN directory : SafeAdmin(p))

-----------------------------------------------------------------------------
(* The operators of the stores. *)

\* ids.next(): there is always an id that nobody uses.
LEMMA NewPersonIsNew ==
  ASSUME DirectoryInv
  PROVE  /\ NewPerson \in People /\ NewPerson > MaxRegistered /\ NewPerson # Nobody
         /\ NewPerson \notin DOMAIN directory
         /\ \A a \in Accounts : link[a] # NewPerson
         /\ \A h \in Handlers : work[h].person # NewPerson
<1> DEFINE A == Cardinality(Accounts)
           H == Cardinality(Handlers)
           L == {link[a] : a \in Accounts}
           W == {work[h].person : h \in Handlers}
           M == MaxRegistered
           Pool == M + 1 .. M + A + H + 1
<1>1. A \in Nat /\ H \in Nat /\ M \in Nat
  BY ActorsFinite, BoundsAreNat, FS_CardinalityType
<1>2. IsFiniteSet(L) /\ Cardinality(L) <= A
  <2>1. [a \in Accounts |-> link[a]] \in Surjection(Accounts, L)
    BY DEF Surjection
  <2> QED
    BY <2>1, ActorsFinite, FS_Surjection
<1>3. IsFiniteSet(W) /\ Cardinality(W) <= H
  <2>1. [h \in Handlers |-> work[h].person] \in Surjection(Handlers, W)
    BY DEF Surjection
  <2> QED
    BY <2>1, ActorsFinite, FS_Surjection
<1>4. IsFiniteSet(L \cup W) /\ Cardinality(L \cup W) <= A + H
  <2> HIDE DEF L, W, A, H
  <2>1. /\ IsFiniteSet(L \cup W) /\ IsFiniteSet(L \cap W)
        /\ Cardinality(L \cup W) = Cardinality(L) + Cardinality(W) - Cardinality(L \cap W)
    BY <1>2, <1>3, FS_Union, FS_Intersection
  <2>2. Cardinality(L) \in Nat /\ Cardinality(W) \in Nat /\ Cardinality(L \cap W) \in Nat
    BY <1>2, <1>3, <2>1, FS_CardinalityType
  <2> QED
    BY <1>1, <1>2, <1>3, <2>1, <2>2
<1>5. Cardinality(Pool) = A + H + 1
  <2> HIDE DEF A, H, M
  <2>1. M + 1 \in Int /\ M + A + H + 1 \in Int /\ ~(M + 1 > M + A + H + 1)
    BY <1>1
  <2> QED
    BY <1>1, <2>1, FS_Interval
<1>6. PICK n \in Pool : n \notin L \cup W
  <2>1. ASSUME Pool \subseteq L \cup W PROVE FALSE
    <3> HIDE DEF Pool, L, W, A, H
    <3>1. Cardinality(Pool) <= Cardinality(L \cup W) /\ Cardinality(L \cup W) \in Nat
      BY <1>4, <2>1, FS_Subset, FS_CardinalityType
    <3> QED
      BY <1>1, <1>4, <1>5, <3>1
  <2> QED
    BY <2>1
<1>7. n \in People \ 1 .. MaxRegistered /\ n > MaxRegistered
  BY <1>1 DEF People
<1>8. n \notin DOMAIN directory
  BY <1>6, <1>7 DEF DirectoryInv, RowSound
<1>9. /\ NewPerson \in People \ 1 .. MaxRegistered /\ NewPerson \notin DOMAIN directory
      /\ \A a \in Accounts : link[a] # NewPerson
      /\ \A h \in Handlers : work[h].person # NewPerson
  BY <1>6, <1>7, <1>8 DEF NewPerson
<1> QED
  BY <1>1, <1>9 DEF People, Nobody

\* A listing is a row for each of some people.
LEMMA ListingsAre ==
  /\ \A d \in Listings : DOMAIN d \subseteq People /\ \A p \in DOMAIN d : d[p] \in Rows
  /\ \A ps \in SUBSET People : \A d \in [ps -> Rows] : d \in Listings
BY DEF Listings

\* A row put is there, and nothing else is lost or changed.
LEMMA PutIs ==
  ASSUME directory \in Listings, NEW p \in People, NEW row \in Rows
  PROVE  /\ Put(p, row) \in Listings /\ DOMAIN Put(p, row) = DOMAIN directory \cup {p}
         /\ Put(p, row)[p] = row
         /\ \A q \in DOMAIN directory \ {p} : Put(p, row)[q] = directory[q]
<1>1. Put(p, row) \in [DOMAIN directory \cup {p} -> Rows]
  BY ListingsAre DEF Put
<1>2. DOMAIN directory \cup {p} \in SUBSET People
  BY ListingsAre
<1> QED
  BY <1>1, <1>2, ListingsAre DEF Put

-----------------------------------------------------------------------------
(* The steps of a request. *)

\* The row a request creates is one.
LEMMA RowsAre ==
  /\ NO_VCS_HANDLES \in [Hosts -> Names \cup {NoName}]
  /\ NoWork \in Works /\ NoWork.person = Nobody /\ NoWork.adopted = Nobody
  /\ DOMAIN NoWork.listed = {} /\ DOMAIN NoWork.listed \subseteq People
<1>1. NO_VCS_HANDLES \in [Hosts -> Names \cup {NoName}]
  BY DEF NO_VCS_HANDLES
<1>2. DOMAIN (<<>>) = {} /\ <<>> = [p \in {} |-> Row(NO_VCS_HANDLES, "member")]
  OBVIOUS
<1>3. <<>> \in [{} -> Rows]
  BY <1>2
<1>4. <<>> \in Listings
  BY <1>3, ListingsAre
<1>5. Row(NO_VCS_HANDLES, "member") \in Rows
  BY <1>1 DEF Rows, Row
<1> QED
  BY <1>1, <1>2, <1>4, <1>5 DEF NoWork, Works

\* What a request does to the stores and to what it holds is typed.
LEMMA TypeStep == DirectoryInv /\ [Next]_vars => TypeInv'
<1> SUFFICES ASSUME DirectoryInv, [Next]_vars PROVE TypeInv'
  OBVIOUS
<1> USE BoundsAreNat, HostsOfAccounts
    DEF DirectoryInv, TypeInv, TypeOK, Places, Goto, Gesture, Unchanged
<1>w. \A h \in Handlers : WorkSound(h) /\ work[h] \in Works
  OBVIOUS
<1>1. ASSUME NEW h \in Handlers, Serve(h) PROVE TypeInv'
  <2>1. CASE Resolve(h)
    <3>1. PICK a \in Accounts, trusted \in BOOLEAN :
            work' = [work EXCEPT ![h] = [NoWork EXCEPT !.account = a, !.name = name[a],
                                           !.trusted = trusted, !.person = link[a]]]
      BY <2>1 DEF Resolve
    <3>2. [NoWork EXCEPT !.account = a, !.name = name[a], !.trusted = trusted,
             !.person = link[a]] \in Works
      BY RowsAre DEF Works
    <3>3. work' \in [Handlers -> Works]
      BY <3>1, <3>2
    <3>4. pc' \in [Handlers -> Places] /\ gestures' \in 0 .. MaxGestures
      BY <2>1 DEF Resolve
    <3> QED
      BY <2>1, <3>3, <3>4 DEF Resolve, stores, history
  <2>2. CASE List(h)
    <3>1. [work[h] EXCEPT !.listed = directory] \in Works
      BY <1>w DEF Works
    <3>2. work' = [work EXCEPT ![h] = [work[h] EXCEPT !.listed = directory]]
      BY <2>2 DEF List
    <3> QED
      BY <2>2, <3>1, <3>2 DEF List, stores, history
  <2>3. CASE Match(h)
    <3>1. ASSUME NEW p \in Matching(work[h])
          PROVE  [work[h] EXCEPT !.adopted = p, !.established = IsLinked(p)] \in Works
      <4>1. p \in People
        BY <1>w, ListingsAre DEF Matching, Works
      <4>2. IsLinked(p) \in BOOLEAN
        BY DEF IsLinked
      <4> HIDE DEF IsLinked
      <4> QED
        BY <1>w, <4>1, <4>2 DEF Works
    <3>2. work' = work
          \/ \E p \in Matching(work[h]) :
               work' = [work EXCEPT ![h] = [work[h] EXCEPT !.adopted = p,
                                                          !.established = IsLinked(p)]]
      BY <2>3 DEF Match
    <3>3. work' \in [Handlers -> Works]
      BY <3>1, <3>2
    <3> QED
      BY <2>3, <3>3 DEF Match, stores, history
  <2>4. CASE Admit(h)
    <3>1. NewPerson \in People
      BY NewPersonIsNew
    <3>2. DecidedRole(work[h]) \in {"admin", "member"}
      BY DEF DecidedRole
    <3> DEFINE P == IF work[h].adopted # Nobody THEN work[h].adopted ELSE NewPerson
    <3>3. P \in People
      BY <1>w, <3>1 DEF Works
    <3> HIDE DEF P
    <3>4. [work[h] EXCEPT !.role = DecidedRole(work[h]), !.person = P] \in Works
      BY <1>w, <3>2, <3>3 DEF Works
    <3>5. work' = [work EXCEPT ![h] = [work[h] EXCEPT !.role = DecidedRole(work[h]),
                                                     !.person = P]]
      BY <2>4 DEF Admit, P
    <3>6. crossed' \in BOOLEAN
      BY <2>4, Zenon DEF Admit
    <3> QED
      BY <2>4, <3>4, <3>5, <3>6 DEF Admit, stores
  <2>5. CASE Refuse(h)
    BY <2>5, <1>w, RowsAre DEF Refuse, Reply, stores, history, WorkSound
  <2>6. CASE ClaimedElsewhere(h)
    BY <2>6, <1>w, RowsAre DEF ClaimedElsewhere, Reply, stores, history, WorkSound
  <2>7. CASE Link(h)
    <3>1. work[h].account \in Accounts /\ work[h].person \in People
      BY <1>w, <2>7 DEF Link, WorkSound, Works
    <3>2. Claim(h) \in People
      BY <3>1 DEF Claim
    <3>3. link' \in [Accounts -> People \cup {Nobody}]
      BY <2>7, <3>2 DEF Link
    <3>4. [work[h] EXCEPT !.person = Claim(h), !.adopted = Nobody] \in Works
      BY <1>w, <3>2 DEF Works
    <3>5. \/ work' = work /\ answers' = answers
          \/ /\ answers' = answers
             /\ work' = [work EXCEPT ![h] = [work[h] EXCEPT !.person = Claim(h),
                                                           !.adopted = Nobody]]
          \/ /\ work' = [work EXCEPT ![h] = NoWork]
             /\ answers' = [answers EXCEPT ![work[h].account] = @ \cup {work[h].person}]
      BY <2>7 DEF Link, Reply
    <3>6. work' \in [Handlers -> Works]
          /\ answers' \in [Accounts -> SUBSET (People \cup {Refused, Missing})]
      BY <3>1, <3>4, <3>5, RowsAre
    <3>7. pc' \in [Handlers -> Places]
      BY <2>7 DEF Link, Reply
    <3> QED
      BY <2>7, <3>3, <3>6, <3>7 DEF Link, history
  <2>8. CASE Create(h)
    <3>1. /\ work[h].account \in Accounts /\ work[h].person \in People
          /\ work[h].name \in Names /\ work[h].role \in {"admin", "member"}
      BY <1>w, <2>8 DEF Create, WorkSound, Works
    <3>2. Row([NO_VCS_HANDLES EXCEPT ![HostOf[work[h].account]] = work[h].name], work[h].role)
            \in Rows
      BY <3>1, RowsAre DEF Row, Rows
    <3>3. directory' \in Listings /\ DOMAIN directory' \subseteq People
          /\ \A p \in DOMAIN directory' : directory'[p] \in Rows
      BY <2>8, <3>1, <3>2, PutIs, ListingsAre DEF Create
    <3> QED
      BY <2>8, <3>1, <3>3, RowsAre DEF Create, Reply, history
  <2>9. CASE WriteRow(h)
    <3>1. work[h].account \in Accounts /\ work[h].person \in People /\ work[h].row \in Rows
      BY <1>w, <2>9 DEF WriteRow, WorkSound, Works
    <3>2. directory' \in Listings /\ DOMAIN directory' \subseteq People
          /\ \A p \in DOMAIN directory' : directory'[p] \in Rows
      BY <2>9, <3>1, PutIs, ListingsAre DEF WriteRow
    <3> QED
      BY <2>9, <3>1, <3>2, RowsAre DEF WriteRow, Reply, history
  <2>10. CASE Refresh(h)
    <3>1. work[h].account \in Accounts /\ work[h].person \in People /\ work[h].name \in Names
      <4>1. pc[h] = "refreshing" /\ work[h] \in Works /\ WorkSound(h)
        BY <1>w, <2>10 DEF Refresh
      <4> QED
        BY <4>1 DEF WorkSound, Works
    <3>2. ASSUME work[h].person \in DOMAIN directory
          PROVE  [work[h] EXCEPT !.row.handles =
                    [directory[work[h].person].handles EXCEPT ![HostOf[work[h].account]] =
                       work[h].name]] \in Works
      <4> DEFINE H == [directory[work[h].person].handles EXCEPT
                         ![HostOf[work[h].account]] = work[h].name]
      <4>1. directory[work[h].person] \in Rows
        BY <3>2
      <4>2. H \in [Hosts -> Names \cup {NoName}]
        BY <3>1, <4>1 DEF Rows
      <4> HIDE DEF H
      <4>3. [work[h].row EXCEPT !.handles = H] \in Rows
        BY <1>w, <4>2 DEF Works, Rows
      <4>4. [work[h] EXCEPT !.row.handles = H] \in Works
        BY <1>w, <4>3 DEF Works
      <4> QED
        BY <4>4 DEF H
    <3>3. work' \in [Handlers -> Works]
      BY <2>10, <3>2, RowsAre DEF Refresh, Reply
    <3> QED
      BY <2>10, <3>1, <3>3 DEF Refresh, Reply, stores, history
  <2>11. CASE ReadRow(h)
    <3>1. work[h].person \in DOMAIN directory /\ directory[work[h].person] \in Rows
      BY <2>11 DEF ReadRow
    <3> DEFINE R == IF work[h].adopted = Nobody
                      THEN Row(work[h].row.handles, directory[work[h].person].role)
                      ELSE Row(directory[work[h].person].handles, work[h].role)
    <3>2. R \in Rows
      BY <1>w, <3>1 DEF Works, Rows, Row
    <3>3. work' = [work EXCEPT ![h] = [work[h] EXCEPT !.row = R]]
      BY <2>11 DEF ReadRow
    <3> HIDE DEF R
    <3>4. [work[h] EXCEPT !.row = R] \in Works
      BY <1>w, <3>2 DEF Works
    <3>5. work' \in [Handlers -> Works]
      BY <3>3, <3>4
    <3> QED
      BY <2>11, <3>5 DEF ReadRow, stores, history
  <2> QED
    BY <1>1, <2>1, <2>2, <2>3, <2>4, <2>5, <2>6, <2>7, <2>8, <2>9, <2>10, <2>11 DEF Serve
<1>2. ASSUME NEW h \in Handlers, Crash(h) PROVE TypeInv'
  <2>1. work[h].account \in Accounts
    BY <1>2, <1>w DEF Crash, WorkSound
  <2> QED
    BY <1>2, <2>1, RowsAre DEF Crash, stores
<1>3. ASSUME NEW a \in Accounts, Rename(a) PROVE TypeInv'
  <2>1. moved' \subseteq Accounts
    BY <1>3 DEF Rename
  <2> QED
    BY <1>3, <2>1 DEF Rename, stores
<1>4. CASE UNCHANGED vars
  BY <1>4 DEF vars, stores, history
<1> QED
  BY <1>1, <1>2, <1>3, <1>4 DEF Next
-----------------------------------------------------------------------------
(* What a step of one request leaves of the stores, and of the others. *)

\* Rows and links are never lost, links never change hands, and the one person
\* a request may add is its own.
Footprint(h) ==
  /\ name' = name /\ moved' = moved
  /\ \A k \in Handlers \ {h} : pc'[k] = pc[k] /\ work'[k] = work[k]
  /\ DOMAIN directory \subseteq DOMAIN directory'
  /\ DOMAIN directory' \subseteq DOMAIN directory \cup {work[h].person}
  /\ \A a \in Accounts :
       /\ link[a] # Nobody => link'[a] = link[a]
       /\ link'[a] \in {link[a], work[h].person}
  /\ \/ work'[h].person \in {work[h].person, Nobody, NewPerson} \cup DOMAIN directory
     \/ \E a \in Accounts : work'[h].person = link[a]

\* Every step of a request has that footprint.
LEMMA ServeFootprint ==
  ASSUME DirectoryInv, NEW h \in Handlers, Serve(h) \/ Crash(h)
  PROVE  Footprint(h)
<1> USE DEF Footprint, Goto, Unchanged, Reply, stores, history
<1>1. /\ directory \in Listings /\ work \in [Handlers -> Works]
      /\ pc \in [Handlers -> Places] /\ link \in [Accounts -> People \cup {Nobody}]
  BY DEF DirectoryInv, TypeInv, TypeOK
<1>2. work[h] \in Works /\ WorkSound(h)
  BY <1>1 DEF DirectoryInv
<1>3. NoWork.person = Nobody
  BY RowsAre
<1>4. CASE Resolve(h)
  <2>1. PICK a \in Accounts, trusted \in BOOLEAN :
          work' = [work EXCEPT ![h] = [NoWork EXCEPT !.account = a, !.name = name[a],
                                         !.trusted = trusted, !.person = link[a]]]
    BY <1>4 DEF Resolve
  <2>2. work'[h].person = link[a]
    BY <1>1, <2>1 DEF NoWork
  <2> QED
    BY <1>1, <1>4, <2>1, <2>2 DEF Resolve
<1>5. CASE List(h)
  BY <1>1, <1>2, <1>5 DEF List, Works
<1>6. CASE Match(h)
  <2>1. PICK p, e : work' = [work EXCEPT ![h].adopted = p, ![h].established = e]
                    \/ work' = work
    BY <1>6 DEF Match
  <2>2. /\ work'[h].person = work[h].person
        /\ \A k \in Handlers \ {h} : work'[k] = work[k]
    BY <1>1, <1>2, <2>1 DEF Works
  <2>3. /\ name' = name /\ moved' = moved /\ \A k \in Handlers \ {h} : pc'[k] = pc[k]
        /\ UNCHANGED <<directory, link>>
    BY <1>1, <1>6 DEF Match
  <2> QED
    BY <2>2, <2>3
<1>7. CASE Admit(h)
  <2>1. work'[h].person = IF work[h].adopted # Nobody THEN work[h].adopted ELSE NewPerson
    BY <1>1, <1>2, <1>7 DEF Admit, Works
  <2>2. work[h].adopted # Nobody => work[h].adopted \in DOMAIN directory
    BY <1>2 DEF WorkSound
  <2> QED
    BY <1>1, <1>7, <2>1, <2>2 DEF Admit
<1>8. CASE Refuse(h) \/ ClaimedElsewhere(h)
  BY <1>1, <1>2, <1>3, <1>8 DEF Refuse, ClaimedElsewhere
<1>9. CASE Link(h)
  <2>1. Claim(h) = work[h].person \/ \E a \in Accounts : Claim(h) = link[a]
    BY <1>2, <1>9 DEF Link, Claim, WorkSound
  <2>2. \/ work' = work \/ work' = [work EXCEPT ![h] = NoWork]
        \/ work' = [work EXCEPT ![h] = [work[h] EXCEPT !.person = Claim(h), !.adopted = Nobody]]
    BY <1>9 DEF Link
  <2>3. work'[h].person \in {work[h].person, Nobody, Claim(h)}
        /\ \A k \in Handlers \ {h} : work'[k] = work[k]
    <3>1. CASE work' = work
      BY <3>1
    <3>2. CASE work' = [work EXCEPT ![h] = NoWork]
      BY <1>1, <1>3, <3>2
    <3>3. CASE work' = [work EXCEPT ![h] = [work[h] EXCEPT !.person = Claim(h),
                                                           !.adopted = Nobody]]
      <4> HIDE DEF Claim
      <4>1. [work[h] EXCEPT !.person = Claim(h), !.adopted = Nobody].person = Claim(h)
        BY <1>2 DEF Works
      <4> QED
        BY <1>1, <3>3, <4>1
    <3> QED
      BY <2>2, <3>1, <3>2, <3>3
  <2>4. \A a \in Accounts : /\ link[a] # Nobody => link'[a] = link[a]
                            /\ link'[a] \in {link[a], work[h].person}
    BY <1>1, <1>2, <1>9 DEF Link, Claim, WorkSound
  <2>5. \A k \in Handlers \ {h} : pc'[k] = pc[k]
    BY <1>1, <1>9 DEF Link
  <2>6. name' = name /\ moved' = moved /\ directory' = directory
    BY <1>9 DEF Link
  <2> QED
    BY <2>1, <2>3, <2>4, <2>5, <2>6
<1>10. CASE Create(h) \/ WriteRow(h)
  <2>1. DOMAIN directory' = DOMAIN directory \cup {work[h].person}
    BY <1>10 DEF Create, WriteRow, Put
  <2> QED
    BY <1>1, <1>3, <1>10, <2>1 DEF Create, WriteRow
<1>11. CASE Refresh(h) \/ ReadRow(h)
  <2>1. UNCHANGED <<stores, name, moved>>
    BY <1>11 DEF Refresh, ReadRow
  <2>2. (\E r : work' = [work EXCEPT ![h].row = r]) \/ work' = [work EXCEPT ![h] = NoWork]
        \/ \E r : work' = [work EXCEPT ![h].row.handles = r]
    BY <1>11 DEF Refresh, ReadRow
  <2>3. /\ work'[h].person \in {work[h].person, Nobody}
        /\ \A k \in Handlers \ {h} : work'[k] = work[k]
    BY <1>1, <1>2, <1>3, <2>2 DEF Works
  <2>4. \A k \in Handlers \ {h} : pc'[k] = pc[k]
    BY <1>1, <1>11 DEF Refresh, ReadRow
  <2> QED
    BY <1>1, <2>1, <2>3, <2>4
<1>12. CASE Crash(h)
  BY <1>1, <1>3, <1>12 DEF Crash
<1> QED
  BY <1>4, <1>5, <1>6, <1>7, <1>8, <1>9, <1>10, <1>11, <1>12 DEF Serve

\* So what the others hold stays what the stores say.
LEMMA OthersSound ==
  ASSUME DirectoryInv, NEW h \in Handlers, Footprint(h), NEW k \in Handlers \ {h}
  PROVE  WorkSound(k)'
<1>1. WorkSound(k) /\ k \in Handlers /\ work[h] \in Works /\ work[k] \in Works
  BY DEF DirectoryInv, TypeInv
<1>2. /\ pc'[k] = pc[k] /\ work'[k] = work[k] /\ name' = name /\ moved' = moved
      /\ DOMAIN directory \subseteq DOMAIN directory'
      /\ \A a \in Accounts : link[a] # Nobody => link'[a] = link[a]
  BY DEF Footprint
<1>3. ASSUME pc[k] = "linking", work[k].adopted = Nobody PROVE Mine(k)'
  <2>1. Mine(k) /\ work[k].person # Nobody
    BY <1>1, <1>3 DEF WorkSound
  <2>2. work[h].person # work[k].person
    BY <2>1 DEF Mine
  <2>3. work'[h].person # work[k].person
    BY <2>1, <2>2, NewPersonIsNew DEF Mine, Footprint
  <2> QED
    BY <1>2, <2>1, <2>2, <2>3 DEF Mine, Footprint
<1> QED
  BY <1>1, <1>2, <1>3 DEF WorkSound, OnItsWay, Nobody
\* And what it holds itself: every place it goes to is reached with what is
\* asked of it there.
LEMMA OwnSound ==
  ASSUME DirectoryInv, NEW h \in Handlers, Serve(h) \/ Crash(h)
  PROVE  WorkSound(h)'
<1> USE DEF Goto, Unchanged, Reply, stores, history, WorkSound, OnItsWay
<1>1. /\ directory \in Listings /\ work \in [Handlers -> Works] /\ name \in [Accounts -> Names]
      /\ pc \in [Handlers -> Places] /\ link \in [Accounts -> People \cup {Nobody}]
  BY DEF DirectoryInv, TypeInv, TypeOK
<1>2. work[h] \in Works /\ WorkSound(h)
  BY <1>1 DEF DirectoryInv
<1>3. NoWork.person = Nobody /\ NoWork.adopted = Nobody /\ DOMAIN NoWork.listed = {}
  BY RowsAre
<1>4. ASSUME pc'[h] = "idle", work'[h] = NoWork PROVE WorkSound(h)'
  BY <1>3, <1>4
<1>5. CASE Resolve(h)
  <2>1. PICK a \in Accounts, trusted \in BOOLEAN :
          /\ Goto(h, "idle", IF link[a] = Nobody THEN "listing" ELSE "refreshing")
          /\ work' = [work EXCEPT ![h] = [NoWork EXCEPT !.account = a, !.name = name[a],
                                            !.trusted = trusted, !.person = link[a]]]
    BY <1>5 DEF Resolve
  <2>2. /\ work'[h].account = a /\ work'[h].name = name[a] /\ work'[h].person = link[a]
        /\ work'[h].adopted = Nobody /\ DOMAIN work'[h].listed = {}
    BY <1>1, <1>3, <2>1 DEF NoWork
  <2>3. name' = name /\ link' = link /\ directory' = directory
    BY <1>5 DEF Resolve
  <2>4. pc'[h] \in {"listing", "refreshing"} /\ (pc'[h] = "refreshing" => link[a] # Nobody)
    BY <1>1, <2>1
  <2> QED
    BY <1>1, <2>2, <2>3, <2>4
<1>6. CASE List(h)
  <2>1. work'[h] = [work[h] EXCEPT !.listed = directory]
    BY <1>1, <1>6 DEF List
  <2> QED
    BY <1>1, <1>2, <1>6, <2>1 DEF List, Works
<1>7. CASE Match(h)
  <2>1. \/ work'[h] = work[h]
        \/ \E p \in Matching(work[h]) :
             work'[h] = [work[h] EXCEPT !.adopted = p, !.established = IsLinked(p)]
    BY <1>1, <1>7 DEF Match
  <2>2. /\ work'[h].account = work[h].account /\ work'[h].name = work[h].name
        /\ work'[h].listed = work[h].listed
        /\ work'[h].adopted # Nobody => work'[h].adopted \in DOMAIN work[h].listed
    BY <1>2, <2>1 DEF Works, Matching
  <2> QED
    BY <1>1, <1>2, <1>7, <2>2 DEF Match
<1>8. CASE Admit(h)
  <2> DEFINE P == IF work[h].adopted # Nobody THEN work[h].adopted ELSE NewPerson
  <2>1. work'[h] = [work[h] EXCEPT !.role = DecidedRole(work[h]), !.person = P]
    BY <1>1, <1>8 DEF Admit
  <2> HIDE DEF P
  <2>2. /\ work'[h].account = work[h].account /\ work'[h].name = work[h].name
        /\ work'[h].listed = work[h].listed /\ work'[h].adopted = work[h].adopted
        /\ work'[h].person = P
    BY <1>2, <2>1 DEF Works
  <2>3. P # Nobody /\ (work[h].adopted = Nobody => Mine(h)')
    <3>1. \A k \in Handlers \ {h} : work'[k] = work[k]
      BY <1>1, <1>8 DEF Admit
    <3>2. directory' = directory /\ link' = link
      BY <1>8 DEF Admit
    <3> QED
      BY <2>2, <3>1, <3>2, NewPersonIsNew DEF P, Mine
  <2> QED
    BY <1>1, <1>2, <1>8, <2>2, <2>3 DEF Admit, P
<1>9. CASE Refuse(h)
  BY <1>1, <1>4, <1>9 DEF Refuse
<1>10. CASE Link(h)
  <2> DEFINE w == work[h]
             a == work[h].account
  <2>1. a \in Accounts /\ w.person # Nobody /\ w.name \in Names /\ pc[h] = "linking"
    BY <1>2, <1>10 DEF Link
  <2>2. link'[a] = Claim(h) /\ Claim(h) # Nobody /\ name' = name /\ directory' = directory
    BY <1>1, <1>10, <2>1 DEF Link, Claim
  <2>3. CASE pc'[h] = "idle"
    BY <1>1, <1>4, <1>10, <2>3 DEF Link
  <2>4. CASE pc'[h] # "idle" /\ Claim(h) = w.person
    <3>1. work' = work /\ pc'[h] \in {"updating", "creating"}
          /\ (pc'[h] = "creating" <=> w.adopted = Nobody)
      BY <1>1, <1>10, <2>4 DEF Link
    <3>2. w.person > MaxRegistered \/ w.adopted = w.person
      BY <1>2, <2>1 DEF Mine
    <3> QED
      BY <1>2, <2>1, <2>2, <2>4, <3>1, <3>2
  <2>5. CASE pc'[h] # "idle" /\ Claim(h) # w.person
    <3>1. pc'[h] = "losing"
          /\ work'[h] = [work[h] EXCEPT !.person = Claim(h), !.adopted = Nobody]
      BY <1>1, <1>10, <2>5 DEF Link
    <3> HIDE DEF Claim
    <3>2. /\ work'[h].account = w.account /\ work'[h].name = w.name /\ work'[h].listed = w.listed
          /\ work'[h].adopted = Nobody /\ work'[h].person = Claim(h)
      BY <1>2, <3>1 DEF Works
    <3> QED
      BY <1>2, <2>1, <2>2, <3>1, <3>2
  <2> QED
    BY <2>3, <2>4, <2>5
<1>11. CASE ClaimedElsewhere(h)
  <2>1. pc[h] = "losing" /\ work[h].account \in Accounts
        /\ work[h].person = link[work[h].account] /\ work[h].person # Nobody
    BY <1>2, <1>11 DEF ClaimedElsewhere
  <2>2. work[h].person \in DOMAIN directory \/ work[h].person > MaxRegistered
    BY <2>1 DEF DirectoryInv, LinkSound
  <2> QED
    BY <1>1, <1>2, <1>4, <1>11, <2>1, <2>2 DEF ClaimedElsewhere
<1>12. CASE Create(h) \/ WriteRow(h)
  BY <1>1, <1>4, <1>12 DEF Create, WriteRow
<1>13. CASE Refresh(h)
  <2>1. CASE pc'[h] = "idle"
    BY <1>1, <1>4, <1>13, <2>1 DEF Refresh
  <2>2. CASE pc'[h] # "idle"
    <3> DEFINE H == [directory[work[h].person].handles EXCEPT
                       ![HostOf[work[h].account]] = work[h].name]
    <3>1. pc[h] = "refreshing" /\ pc'[h] = "updating" /\ work[h].person \in DOMAIN directory
          /\ work'[h] = [work[h] EXCEPT !.row.handles = H]
      BY <1>1, <1>13, <2>2 DEF Refresh
    <3> HIDE DEF H
    <3>2. /\ work'[h].account = work[h].account /\ work'[h].name = work[h].name
          /\ work'[h].listed = work[h].listed /\ work'[h].adopted = work[h].adopted
          /\ work'[h].person = work[h].person
      BY <1>2, <3>1 DEF Works
    <3> QED
      BY <1>2, <1>13, <3>1, <3>2 DEF Refresh
  <2> QED
    BY <2>1, <2>2
<1>14. CASE ReadRow(h)
  <2>1. \E R : work'[h] = [work[h] EXCEPT !.row = R]
    BY <1>1, <1>14 DEF ReadRow
  <2>2. /\ work'[h].account = work[h].account /\ work'[h].name = work[h].name
        /\ work'[h].listed = work[h].listed /\ work'[h].adopted = work[h].adopted
        /\ work'[h].person = work[h].person
    BY <1>2, <2>1 DEF Works
  <2> QED
    BY <1>1, <1>2, <1>14, <2>2 DEF ReadRow
<1>15. CASE Crash(h)
  BY <1>1, <1>4, <1>15 DEF Crash
<1> QED
  BY <1>5, <1>6, <1>7, <1>8, <1>9, <1>10, <1>11, <1>12, <1>13, <1>14, <1>15 DEF Serve

\* A link is of a row or of a new person, an answer is the link, and a row a
\* sign-in made is of somebody linked.
LEMMA StoresSound ==
  ASSUME DirectoryInv, NEW h \in Handlers, Serve(h) \/ Crash(h), Footprint(h)
  PROVE  /\ \A a \in Accounts : LinkSound(a)' /\ AnswerSound(a)'
         /\ \A p \in DOMAIN directory' : RowSound(p)'
<1> USE DEF Goto, Unchanged, Reply, stores, history
<1>1. /\ link \in [Accounts -> People \cup {Nobody}] /\ pc \in [Handlers -> Places]
      /\ answers \in [Accounts -> SUBSET (People \cup {Refused, Missing})]
      /\ work[h] \in Works /\ WorkSound(h)
  BY DEF DirectoryInv, TypeInv, TypeOK
<1>2. ASSUME NEW a \in Accounts PROVE LinkSound(a)'
  <2>1. LinkSound(a)
    BY DEF DirectoryInv
  <2>2. link'[a] = link[a] \/ (pc[h] = "linking" /\ link'[a] = work[h].person)
    <3>1. CASE Link(h)
      BY <3>1 DEF Link, Footprint
    <3>2. CASE ~Link(h)
      BY <3>2 DEF Serve, Resolve, List, Match, Admit, Refuse, ClaimedElsewhere, Create,
                  Refresh, ReadRow, WriteRow, Crash
    <3> QED
      BY <3>1, <3>2
  <2>3. pc[h] = "linking" => work[h].person \in DOMAIN directory
                             \/ work[h].person > MaxRegistered
    BY <1>1 DEF WorkSound, Mine
  <2> QED
    BY <2>1, <2>2, <2>3 DEF LinkSound, Footprint
<1>3. ASSUME NEW a \in Accounts PROVE AnswerSound(a)'
  <2>1. AnswerSound(a) /\ (link[a] # Nobody => link'[a] = link[a])
        /\ answers[a] \subseteq People \cup {Refused, Missing}
    BY <1>1 DEF DirectoryInv, Footprint
  <2>2. Nobody \notin People /\ Refused \notin People /\ Missing \notin People
    BY FS_CardinalityType, ActorsFinite, BoundsAreNat DEF People, Nobody, Refused, Missing
  <2>3. answers'[a] \subseteq answers[a] \cup {Refused, Missing, link'[a]}
    <3>1. CASE Link(h)
      <4>1. link'[work[h].account] = Claim(h) /\ work[h].account \in Accounts
        BY <1>1, <3>1 DEF Link, WorkSound
      <4> QED
        BY <1>1, <3>1, <4>1 DEF Link
    <3>2. CASE Refuse(h)
      BY <1>1, <3>2 DEF Refuse
    <3>3. CASE ClaimedElsewhere(h) \/ Create(h) \/ Refresh(h) \/ WriteRow(h)
      <4>1. CASE ClaimedElsewhere(h)
        BY <1>1, <4>1 DEF ClaimedElsewhere, WorkSound
      <4>2. CASE Create(h)
        BY <1>1, <4>2 DEF Create, WorkSound
      <4>3. CASE Refresh(h)
        <5>1. answers' = answers \/ Reply(h, work[h].person) \/ Reply(h, Missing)
          BY <4>3 DEF Refresh
        <5>2. link' = link
          BY <4>3 DEF Refresh
        <5>3. pc[h] = "refreshing"
          BY <1>1, <4>3 DEF Refresh
        <5>4. work[h].person = link[work[h].account] /\ work[h].account \in Accounts
          BY <1>1, <5>3 DEF WorkSound
        <5> QED
          BY <1>1, <5>1, <5>2, <5>4
      <4>4. CASE WriteRow(h)
        BY <1>1, <4>4 DEF WriteRow, WorkSound
      <4> QED
        BY <3>3, <4>1, <4>2, <4>3, <4>4
    <3>4. CASE Resolve(h) \/ List(h) \/ Match(h) \/ Admit(h) \/ ReadRow(h) \/ Crash(h)
      BY <3>4 DEF Resolve, List, Match, Admit, ReadRow, Crash
    <3> QED
      BY <3>1, <3>2, <3>3, <3>4 DEF Serve
  <2> QED
    BY <2>1, <2>2, <2>3 DEF AnswerSound
<1>4. ASSUME NEW p \in DOMAIN directory' PROVE RowSound(p)'
  <2>1. \A a \in Accounts : link[a] # Nobody => link'[a] = link[a]
    BY DEF Footprint
  <2>2. MaxRegistered \in Nat /\ Nobody = 0
    BY BoundsAreNat DEF Nobody
  <2>3. CASE p \in DOMAIN directory
    BY <2>1, <2>2, <2>3 DEF DirectoryInv, RowSound
  <2>4. CASE p \notin DOMAIN directory
    <3>1. p = work[h].person /\ (Create(h) \/ WriteRow(h))
      <4>1. p = work[h].person /\ directory' # directory
        BY <2>4 DEF Footprint
      <4> QED
        BY <4>1 DEF Serve, Resolve, List, Match, Admit, Refuse, ClaimedElsewhere, Link,
                    Refresh, ReadRow, Crash
    <3>2. work[h].account \in Accounts /\ p = link[work[h].account]
          /\ link[work[h].account] # Nobody
      BY <1>1, <3>1 DEF Create, WriteRow, WorkSound
    <3> QED
      BY <2>1, <3>2 DEF RowSound
  <2> QED
    BY <2>3, <2>4
<1> QED
  BY <1>2, <1>3, <1>4

\* A request holds nothing when it starts, and the rows there are were registered.
LEMMA DirectoryInit == Init => DirectoryInv
<1> SUFFICES ASSUME Init PROVE DirectoryInv
  OBVIOUS
<1> USE BoundsAreNat DEF Init
<1>1. directory \in Directories /\ name \in [Accounts -> Names] /\ NamesOneEach(name)
  OBVIOUS
<1>2. PICK n \in 0 .. MaxRegistered : directory \in [1 .. n -> Rows]
  BY <1>1 DEF Directories
<1>3. 1 .. n \in SUBSET People /\ 1 .. n \subseteq 1 .. MaxRegistered
  <2>1. Cardinality(Accounts) \in Nat /\ Cardinality(Handlers) \in Nat
    BY ActorsFinite, FS_CardinalityType
  <2> QED
    BY <2>1 DEF People
<1>4. directory \in Listings /\ DOMAIN directory \subseteq 1 .. MaxRegistered
  BY <1>2, <1>3, ListingsAre
<1>5. work \in [Handlers -> Works] /\ \A h \in Handlers : pc[h] = "idle" /\ work[h] = NoWork
  BY RowsAre
<1>6. TypeInv
  <2>1. moved \subseteq Accounts /\ stranded \subseteq Accounts /\ gestures \in 0 .. MaxGestures
    OBVIOUS
  <2>2. crossed \in BOOLEAN
    BY Zenon
  <2> QED
    BY <1>1, <1>4, <1>5, <2>1, <2>2, ListingsAre DEF TypeInv, TypeOK, Places
<1>7. \A h \in Handlers : WorkSound(h)
  BY <1>5, RowsAre DEF WorkSound, OnItsWay
<1>8. \A p \in DOMAIN directory : RowSound(p)
  BY <1>4 DEF RowSound
<1> QED
  BY <1>1, <1>6, <1>7, <1>8 DEF DirectoryInv, LinkSound, AnswerSound

\* No step leaves a request, a link, an answer or a row that the stores deny.
LEMMA DirectoryStep == DirectoryInv /\ [Next]_vars => DirectoryInv'
<1> SUFFICES ASSUME DirectoryInv, [Next]_vars PROVE DirectoryInv'
  OBVIOUS
<1>1. TypeInv'
  BY TypeStep
<1>2. ASSUME NEW h \in Handlers, Serve(h) \/ Crash(h) PROVE DirectoryInv'
  <2>1. Footprint(h)
    BY <1>2, ServeFootprint
  <2>2. \A k \in Handlers : WorkSound(k)'
    BY <1>2, <2>1, OwnSound, OthersSound
  <2>3. NamesOneEach(name)'
    BY <2>1 DEF DirectoryInv, Footprint, NamesOneEach
  <2> QED
    BY <1>1, <1>2, <2>1, <2>2, <2>3, StoresSound DEF DirectoryInv
<1>3. ASSUME NEW a \in Accounts, Rename(a) PROVE DirectoryInv'
  <2>1. /\ UNCHANGED <<directory, link, pc, work, answers>> /\ NamesOneEach(name)'
        /\ moved \subseteq moved'
        /\ \A h \in Handlers : OnItsWay(h) /\ work[h].account = a => a \in moved'
        /\ \A b \in Accounts \ {a} : name'[b] = name[b]
    BY <1>3 DEF Rename, stores, NamesOneEach, DirectoryInv, TypeInv, TypeOK
  <2>2. ASSUME NEW h \in Handlers PROVE WorkSound(h)'
    <3>1. WorkSound(h) /\ (OnItsWay(h)' <=> OnItsWay(h)) /\ (OnItsWay(h) => pc[h] # "idle")
      BY <2>1 DEF DirectoryInv, OnItsWay
    <3> QED
      BY <2>1, <3>1 DEF WorkSound, Mine
  <2> QED
    BY <1>1, <2>1, <2>2 DEF DirectoryInv, LinkSound, AnswerSound, RowSound
<1>4. CASE UNCHANGED vars
  BY <1>1, <1>4 DEF vars, stores, history, DirectoryInv, WorkSound, OnItsWay, Mine, LinkSound,
                    AnswerSound, RowSound, NamesOneEach
<1> QED
  BY <1>2, <1>3, <1>4 DEF Next

\* The variables keep their types, whoever signs in and however often.
THEOREM TypeCorrect == Spec => []TypeOK
<1>1. DirectoryInv => TypeOK
  BY DEF DirectoryInv, TypeInv
<1> QED
  BY <1>1, DirectoryInit, DirectoryStep, PTL DEF Spec

-----------------------------------------------------------------------------
(* Where a request is, and how it got there. *)

\* What a request holds where it is now, and what it had to do to get there.
Arrived(h) ==
  /\ pc'[h] \in {"idle", "listing", "refreshing"} =>
       DOMAIN work'[h].listed = {} /\ work'[h].adopted = Nobody
  /\ pc'[h] = "matching" =>
       List(h) /\ work'[h].listed = directory /\ work'[h].adopted = Nobody
  /\ pc'[h] = "admitting" =>
       /\ Match(h) /\ work'[h].listed = work[h].listed
       /\ work'[h].adopted # Nobody => (work'[h].established <=> IsLinked(work'[h].adopted))
  /\ pc'[h] = "linking" =>
       /\ Admit(h) /\ work'[h].listed = work[h].listed /\ work'[h].adopted = work[h].adopted
       /\ work'[h].role = DecidedRole(work[h])
  /\ pc'[h] = "losing" =>
       /\ Link(h) /\ Claim(h) # work[h].person /\ work'[h].adopted = Nobody
       /\ work'[h].listed = work[h].listed /\ work'[h].role = work[h].role
  /\ pc'[h] = "creating" =>
       /\ work'[h] = work[h]
       /\ \/ Link(h) /\ Claim(h) = work[h].person /\ work[h].adopted = Nobody
          \/ ClaimedElsewhere(h) /\ pc[h] = "losing" /\ work[h].person \notin DOMAIN directory
  /\ pc'[h] = "updating" =>
       \/ /\ Link(h) /\ work'[h] = work[h] /\ work[h].adopted # Nobody
          /\ work[h].listed[work[h].adopted].role # work[h].role
       \/ Refresh(h) /\ work'[h].adopted = Nobody /\ work'[h].listed = work[h].listed
  /\ pc'[h] = "writing" =>
       /\ ReadRow(h) /\ work[h].person \in DOMAIN directory /\ work'[h].person = work[h].person
       /\ work'[h].listed = work[h].listed /\ work'[h].adopted = work[h].adopted
       /\ work'[h].role = work[h].role
       /\ work'[h].row.role = IF work[h].adopted = Nobody THEN directory[work[h].person].role
                              ELSE work[h].role

\* It got there so.
LEMMA ServeArrives ==
  ASSUME DirectoryInv, NEW h \in Handlers, Serve(h) \/ Crash(h)
  PROVE  Arrived(h)
<1> USE DEF Goto, Unchanged, Reply, stores, history
<1>1. /\ work \in [Handlers -> Works] /\ pc \in [Handlers -> Places]
      /\ work[h] \in Works /\ WorkSound(h)
  BY DEF DirectoryInv, TypeInv, TypeOK
<1>2. NoWork.adopted = Nobody /\ DOMAIN NoWork.listed = {}
  BY RowsAre
<1>3. ASSUME pc'[h] = "idle", work'[h] = NoWork PROVE Arrived(h)
  BY <1>2, <1>3 DEF Arrived
<1>4. CASE Resolve(h)
  <2>1. PICK a \in Accounts, trusted \in BOOLEAN :
          /\ Goto(h, "idle", IF link[a] = Nobody THEN "listing" ELSE "refreshing")
          /\ work' = [work EXCEPT ![h] = [NoWork EXCEPT !.account = a, !.name = name[a],
                                            !.trusted = trusted, !.person = link[a]]]
    BY <1>4 DEF Resolve
  <2>2. work'[h].adopted = Nobody /\ DOMAIN work'[h].listed = {}
    BY <1>1, <1>2, <2>1 DEF NoWork
  <2> QED
    BY <1>1, <2>1, <2>2 DEF Arrived
<1>5. CASE List(h)
  <2>1. work'[h] = [work[h] EXCEPT !.listed = directory]
    BY <1>1, <1>5 DEF List
  <2>2. work'[h].listed = directory /\ work'[h].adopted = work[h].adopted
    BY <1>1, <2>1 DEF Works
  <2> QED
    BY <1>1, <1>5, <2>2 DEF Arrived, List, WorkSound
<1>6. CASE Match(h)
  <2>1. \/ work'[h] = work[h]
        \/ \E q \in Matching(work[h]) :
             work'[h] = [work[h] EXCEPT !.adopted = q, !.established = IsLinked(q)]
    BY <1>1, <1>6 DEF Match
  <2>2. work[h].adopted = Nobody /\ pc'[h] = "admitting"
    BY <1>1, <1>6 DEF Match, WorkSound
  <2>3. work'[h].listed = work[h].listed
        /\ (work'[h].adopted # Nobody => (work'[h].established <=> IsLinked(work'[h].adopted)))
    <3>1. CASE work'[h] = work[h]
      BY <2>2, <3>1
    <3>2. ASSUME NEW q, work'[h] = [work[h] EXCEPT !.adopted = q, !.established = IsLinked(q)]
          PROVE  /\ work'[h].listed = work[h].listed
                 /\ work'[h].adopted = q /\ work'[h].established = IsLinked(q)
      BY <1>1, <3>2 DEF Works
    <3> QED
      BY <2>1, <3>1, <3>2
  <2> QED
    BY <1>6, <2>2, <2>3 DEF Arrived
<1>7. CASE Admit(h)
  <2> DEFINE P == IF work[h].adopted # Nobody THEN work[h].adopted ELSE NewPerson
  <2>1. work'[h] = [work[h] EXCEPT !.role = DecidedRole(work[h]), !.person = P]
    BY <1>1, <1>7 DEF Admit
  <2> HIDE DEF P
  <2>2. /\ work'[h].listed = work[h].listed /\ work'[h].adopted = work[h].adopted
        /\ work'[h].role = DecidedRole(work[h])
    BY <1>1, <2>1 DEF Works
  <2> QED
    BY <1>1, <1>7, <2>2 DEF Arrived, Admit
<1>8. CASE Link(h)
  <2>1. CASE pc'[h] = "idle"
    BY <1>1, <1>3, <1>8, <2>1 DEF Link
  <2>2. CASE pc'[h] \in {"updating", "creating"}
    BY <1>1, <1>8, <2>2 DEF Link, Arrived
  <2>3. CASE pc'[h] = "losing"
    <3>1. work'[h] = [work[h] EXCEPT !.person = Claim(h), !.adopted = Nobody]
          /\ Claim(h) # work[h].person
      BY <1>1, <1>8, <2>3 DEF Link
    <3> HIDE DEF Claim
    <3>2. /\ work'[h].listed = work[h].listed /\ work'[h].adopted = Nobody
          /\ work'[h].role = work[h].role
      BY <1>1, <3>1 DEF Works
    <3> QED
      BY <1>8, <2>3, <3>1, <3>2 DEF Arrived
  <2> QED
    BY <1>1, <1>8, <2>1, <2>2, <2>3 DEF Link
<1>9. CASE ClaimedElsewhere(h)
  <2>1. CASE pc'[h] = "idle"
    BY <1>1, <1>3, <1>9, <2>1 DEF ClaimedElsewhere
  <2>2. CASE pc'[h] # "idle"
    BY <1>1, <1>9, <2>2 DEF ClaimedElsewhere, Arrived
  <2> QED
    BY <2>1, <2>2
<1>10. CASE Refresh(h)
  <2>1. CASE pc'[h] = "idle"
    BY <1>1, <1>3, <1>10, <2>1 DEF Refresh
  <2>2. CASE pc'[h] # "idle"
    <3> DEFINE H == [directory[work[h].person].handles EXCEPT
                       ![HostOf[work[h].account]] = work[h].name]
    <3>1. pc'[h] = "updating" /\ work'[h] = [work[h] EXCEPT !.row.handles = H]
          /\ work[h].adopted = Nobody
      BY <1>1, <1>10, <2>2 DEF Refresh, WorkSound
    <3> HIDE DEF H
    <3>2. work'[h].listed = work[h].listed /\ work'[h].adopted = work[h].adopted
      BY <1>1, <3>1 DEF Works
    <3> QED
      BY <1>10, <3>1, <3>2 DEF Arrived
  <2> QED
    BY <2>1, <2>2
<1>11. CASE ReadRow(h)
  <2> DEFINE R == IF work[h].adopted = Nobody
                    THEN Row(work[h].row.handles, directory[work[h].person].role)
                    ELSE Row(directory[work[h].person].handles, work[h].role)
  <2>1. work'[h] = [work[h] EXCEPT !.row = R] /\ pc'[h] = "writing"
        /\ work[h].person \in DOMAIN directory
    BY <1>1, <1>11 DEF ReadRow
  <2>2. R.role = IF work[h].adopted = Nobody THEN directory[work[h].person].role ELSE work[h].role
    BY DEF Row
  <2> HIDE DEF R
  <2>3. /\ work'[h].listed = work[h].listed /\ work'[h].person = work[h].person
        /\ work'[h].adopted = work[h].adopted /\ work'[h].role = work[h].role
        /\ work'[h].row = R
    BY <1>1, <2>1 DEF Works
  <2> QED
    BY <1>11, <2>1, <2>2, <2>3 DEF Arrived
<1>12. CASE Refuse(h) \/ Create(h) \/ WriteRow(h) \/ Crash(h)
  BY <1>1, <1>3, <1>12 DEF Refuse, Create, WriteRow, Crash
<1> QED
  BY <1>4, <1>5, <1>6, <1>7, <1>8, <1>9, <1>10, <1>11, <1>12 DEF Serve

\* What a request decides, it decides for the account and of the listing it has.
LEMMA DecidingKeeps ==
  ASSUME DirectoryInv, NEW h \in Handlers, Match(h) \/ Admit(h)
  PROVE  /\ work'[h].account = work[h].account /\ work'[h].name = work[h].name
         /\ work'[h].listed = work[h].listed /\ directory' = directory /\ link' = link
         /\ pc[h] \in {"matching", "admitting"} /\ pc'[h] \in {"admitting", "linking"}
<1>1. work \in [Handlers -> Works] /\ work[h] \in Works /\ pc \in [Handlers -> Places]
  BY DEF DirectoryInv, TypeInv, TypeOK
<1>2. CASE Match(h)
  <2>1. \/ work'[h] = work[h]
        \/ \E q \in Matching(work[h]) :
             work'[h] = [work[h] EXCEPT !.adopted = q, !.established = IsLinked(q)]
    BY <1>1, <1>2 DEF Match
  <2> QED
    BY <1>1, <1>2, <2>1 DEF Match, Goto, stores, Works
<1>3. CASE Admit(h)
  <2> DEFINE P == IF work[h].adopted # Nobody THEN work[h].adopted ELSE NewPerson
  <2>1. work'[h] = [work[h] EXCEPT !.role = DecidedRole(work[h]), !.person = P]
    BY <1>1, <1>3 DEF Admit
  <2> HIDE DEF P
  <2> QED
    BY <1>1, <1>3, <2>1 DEF Admit, Goto, stores, Works
<1> QED
  BY <1>2, <1>3

-----------------------------------------------------------------------------
(* One person for an account. *)

PromisedInv == DirectoryInv /\ \A a \in Accounts \ stranded : Promised(a)

\* A request that is not taken away between a claim and its row writes the row.
LEMMA PromisedStep == PromisedInv /\ [Next]_vars => PromisedInv'
<1> SUFFICES ASSUME PromisedInv, [Next]_vars PROVE PromisedInv'
  OBVIOUS
<1> USE DEF Goto, Unchanged, Reply, stores, history
<1>1. DirectoryInv /\ DirectoryInv'
  BY DirectoryStep DEF PromisedInv
<1>2. /\ pc \in [Handlers -> Places] /\ work \in [Handlers -> Works]
      /\ link \in [Accounts -> People \cup {Nobody}]
  BY <1>1 DEF DirectoryInv, TypeInv, TypeOK
<1>3. ASSUME NEW h \in Handlers, Serve(h) \/ Crash(h), NEW a \in Accounts, a \notin stranded'
      PROVE  Promised(a)'
  <2>0. a \notin stranded
    BY <1>3 DEF Serve, Resolve, List, Match, Admit, Refuse, Link, ClaimedElsewhere, Create,
                Refresh, ReadRow, WriteRow, Crash
  <2>1. Footprint(h) /\ WorkSound(h) /\ Promised(a)
    BY <1>1, <1>3, <2>0, ServeFootprint DEF PromisedInv, DirectoryInv
  <2>2. CASE link[a] = Nobody /\ link'[a] # Nobody
    <3>1. Link(h) /\ a = work[h].account
      <4>1. link' # link
        BY <2>2
      <4>2. Link(h)
        BY <1>3, <4>1 DEF Serve, Resolve, List, Match, Admit, Refuse, ClaimedElsewhere, Create,
                          Refresh, ReadRow, WriteRow, Crash
      <4> QED
        BY <2>2, <4>2, <1>2 DEF Link
    <3>2. link'[a] = work[h].person /\ Claim(h) = work[h].person
      BY <1>2, <2>2, <3>1 DEF Link, Claim
    <3>3. CASE work[h].adopted # Nobody
      BY <2>1, <3>1, <3>2, <3>3 DEF Link, WorkSound, Promised
    <3>4. CASE work[h].adopted = Nobody
      <4>1. pc'[h] = "creating" /\ work' = work
        BY <1>2, <3>1, <3>2, <3>4 DEF Link
      <4> QED
        BY <3>1, <4>1 DEF Promised, MidClaim
    <3> QED
      BY <3>3, <3>4
  <2>3. CASE link[a] # Nobody
    <3>1. link'[a] = link[a]
      BY <2>1, <2>3 DEF Footprint
    <3>2. CASE link[a] \in DOMAIN directory
      BY <2>1, <3>1, <3>2 DEF Footprint, Promised
    <3>3. CASE link[a] \notin DOMAIN directory
      <4>1. PICK k \in Handlers : MidClaim(k) /\ work[k].account = a
        BY <2>1, <2>3, <3>3 DEF Promised
      <4>2. CASE k # h
        BY <2>1, <3>1, <4>1, <4>2 DEF Footprint, Promised, MidClaim
      <4>3. CASE k = h
        <5>1. ClaimedElsewhere(h) \/ Create(h)
          BY <1>3, <4>1, <4>3 DEF MidClaim, Serve, Resolve, List, Match, Admit, Refuse, Link,
                                  Refresh, ReadRow, WriteRow, Crash
        <5>2. CASE ClaimedElsewhere(h)
          <6>1. work[h].person = link[a]
            BY <2>1, <4>1, <4>3, <5>2 DEF ClaimedElsewhere, WorkSound
          <6> QED
            BY <1>2, <3>1, <3>3, <4>1, <4>3, <5>2, <6>1 DEF ClaimedElsewhere, Promised, MidClaim
        <5>3. CASE Create(h)
          <6>1. work[h].person = link[a]
            BY <2>1, <4>1, <4>3, <5>3 DEF Create, WorkSound
          <6> QED
            BY <3>1, <5>3, <6>1 DEF Create, Put, Promised
        <5> QED
          BY <5>1, <5>2, <5>3
      <4> QED
        BY <4>2, <4>3
    <3> QED
      BY <3>2, <3>3
  <2> QED
    BY <2>2, <2>3 DEF Promised
<1>4. ASSUME NEW a \in Accounts, Rename(a), NEW b \in Accounts, b \notin stranded'
      PROVE  Promised(b)'
  BY <1>4 DEF Rename, PromisedInv, Promised, MidClaim
<1>5. CASE UNCHANGED vars
  BY <1>1, <1>5 DEF vars, PromisedInv, Promised, MidClaim
<1> QED
  BY <1>1, <1>3, <1>4, <1>5 DEF Next, PromisedInv

\* PeopleService.ts:118-127: one person comes of the first requests of an
\* account, and when nothing is under way the row of each claim is there that no
\* request died on.
THEOREM OnePersonForAnAccount == Spec => []OnePersonEach
<1>1. PromisedInv => OnePersonEach
  <2> SUFFICES ASSUME PromisedInv PROVE OnePersonEach
    OBVIOUS
  <2>1. \A a \in Accounts : answers[a] \cap People \subseteq {link[a]}
    BY DEF PromisedInv, DirectoryInv, AnswerSound
  <2>2. ASSUME NEW p \in DOMAIN directory, p > MaxRegistered PROVE IsLinked(p)
    <3>1. PICK a \in Accounts : link[a] = p
      BY <2>2 DEF PromisedInv, DirectoryInv, RowSound
    <3> QED
      BY <3>1, HostsOfAccounts DEF IsLinked, Linked, Hosts
  <2>3. Quiet => \A a \in Accounts \ stranded : link[a] # Nobody => link[a] \in DOMAIN directory
    BY DEF PromisedInv, Promised, Quiet, MidClaim
  <2> QED
    BY <2>1, <2>2, <2>3 DEF OnePersonEach
<1>2. Init => PromisedInv
  BY DirectoryInit DEF PromisedInv, Promised, Init
<1> QED
  BY <1>1, <1>2, PromisedStep, PTL DEF Spec

-----------------------------------------------------------------------------
(* One account of a host for a row. *)

\* What a request says of the handle a row has on a host, apart from whether it
\* agrees with the directory.
SaysHandle(h, p, g, handle) ==
  /\ p \in DOMAIN work[h].listed => work[h].listed[p].handles[g] = handle
  /\ work[h].person = p /\ (pc[h] = "writing" \/ (pc[h] = "updating" /\ work[h].adopted = Nobody))
       => work[h].row.handles[g] = handle
  /\ work[h].adopted = p /\ pc[h] \in {"admitting", "linking"} /\ HostOf[work[h].account] = g
       => handle = work[h].name

\* A step of a request leaves the handle a row has on a host nobody is linked
\* from, and whatever the request then holds of it.
LEMMA HandleStands ==
  ASSUME HandlesInv, NEW h \in Handlers, Serve(h) \/ Crash(h),
         NEW p \in DOMAIN directory, NEW g \in Hosts, ~Linked(p, g)
  PROVE  /\ directory'[p].handles[g] = directory[p].handles[g]
         /\ SaysHandle(h, p, g, directory[p].handles[g])'
<1> USE DEF Goto, Unchanged, Reply, stores, history
<1> DEFINE handle == directory[p].handles[g]
<1>1. /\ directory \in Listings /\ work \in [Handlers -> Works]
      /\ pc \in [Handlers -> Places] /\ link \in [Accounts -> People \cup {Nobody}]
      /\ work[h] \in Works /\ WorkSound(h) /\ Agreed(p, g) /\ SaysHandle(h, p, g, handle)
      /\ p # Nobody /\ p \in People
  <2>1. DirectoryInv /\ Agreed(p, g)
    BY DEF HandlesInv
  <2>2. directory \in Listings /\ p \in People /\ p # Nobody
    BY <2>1, ListingsAre, BoundsAreNat DEF DirectoryInv, TypeInv, People, Nobody
  <2> QED
    BY <2>1, <2>2 DEF DirectoryInv, TypeInv, TypeOK, Agreed, SaysHandle
<1>2. work[h].account \in Accounts /\ work[h].person = link[work[h].account]
        /\ work[h].person = p => HostOf[work[h].account] # g
  BY DEF Linked
<1>3. NoWork.person = Nobody /\ NoWork.adopted = Nobody /\ DOMAIN NoWork.listed = {}
  BY RowsAre
<1>4. ASSUME pc'[h] = "idle", work'[h] = NoWork, directory' = directory
      PROVE  directory'[p].handles[g] = handle /\ SaysHandle(h, p, g, directory[p].handles[g])'
  BY <1>1, <1>3, <1>4 DEF SaysHandle
<1> DEFINE Goal == directory'[p].handles[g] = handle /\ SaysHandle(h, p, g, directory[p].handles[g])'
<1> SUFFICES Goal
  OBVIOUS
<1>5. CASE Resolve(h)
  <2>1. PICK a \in Accounts, trusted \in BOOLEAN :
          /\ Goto(h, "idle", IF link[a] = Nobody THEN "listing" ELSE "refreshing")
          /\ work' = [work EXCEPT ![h] = [NoWork EXCEPT !.account = a, !.name = name[a],
                                            !.trusted = trusted, !.person = link[a]]]
    BY <1>5 DEF Resolve
  <2>2. work'[h].adopted = Nobody /\ DOMAIN work'[h].listed = {}
    BY <1>1, <1>3, <2>1 DEF NoWork
  <2> QED
    BY <1>1, <1>5, <2>1, <2>2 DEF Resolve, SaysHandle
<1>6. CASE List(h)
  <2>1. work'[h] = [work[h] EXCEPT !.listed = directory]
    BY <1>1, <1>6 DEF List
  <2>2. work'[h].listed = directory /\ work'[h].adopted = work[h].adopted
    BY <1>1, <2>1 DEF Works
  <2> QED
    BY <1>1, <1>6, <2>2 DEF List, SaysHandle, WorkSound
<1>7. CASE Match(h)
  <2>1. \/ work'[h] = work[h]
        \/ \E q \in Matching(work[h]) :
             work'[h] = [work[h] EXCEPT !.adopted = q, !.established = IsLinked(q)]
    BY <1>1, <1>7 DEF Match
  <2>2. /\ work'[h].account = work[h].account /\ work'[h].name = work[h].name
        /\ work'[h].listed = work[h].listed
        /\ work'[h].adopted = work[h].adopted \/ work'[h].adopted \in Matching(work[h])
    BY <1>1, <2>1 DEF Works
  <2>3. pc'[h] = "admitting" /\ work[h].adopted = Nobody /\ directory' = directory
    BY <1>1, <1>7 DEF Match, WorkSound
  <2>4. p \in Matching(work[h]) /\ HostOf[work[h].account] = g => handle = work[h].name
    BY <1>1 DEF Matching, SaysHandle
  <2> QED
    BY <1>1, <2>2, <2>3, <2>4 DEF SaysHandle
<1>8. CASE Admit(h)
  <2> DEFINE P == IF work[h].adopted # Nobody THEN work[h].adopted ELSE NewPerson
  <2>1. work'[h] = [work[h] EXCEPT !.role = DecidedRole(work[h]), !.person = P]
    BY <1>1, <1>8 DEF Admit
  <2> HIDE DEF P
  <2>2. /\ work'[h].account = work[h].account /\ work'[h].name = work[h].name
        /\ work'[h].listed = work[h].listed /\ work'[h].adopted = work[h].adopted
    BY <1>1, <2>1 DEF Works
  <2> QED
    BY <1>1, <1>8, <2>2 DEF Admit, SaysHandle
<1>9. CASE Refuse(h)
  BY <1>1, <1>4, <1>9 DEF Refuse
<1>10. CASE Link(h)
  <2>1. CASE pc'[h] = "idle"
    BY <1>1, <1>4, <1>10, <2>1 DEF Link
  <2>2. CASE pc'[h] = "updating"
    <3>1. work' = work /\ work[h].adopted # Nobody /\ directory' = directory
      BY <1>1, <1>10, <2>2 DEF Link
    <3> QED
      BY <1>1, <2>2, <3>1 DEF SaysHandle
  <2>3. CASE pc'[h] \in {"creating", "losing"}
    <3>1. work' = work \/ work'[h] = [work[h] EXCEPT !.person = Claim(h), !.adopted = Nobody]
      BY <1>1, <1>10, <2>3 DEF Link
    <3> HIDE DEF Claim
    <3>2. work'[h].listed = work[h].listed
      BY <1>1, <3>1 DEF Works
    <3>3. directory' = directory
      BY <1>10 DEF Link
    <3> QED
      BY <1>1, <2>3, <3>2, <3>3 DEF SaysHandle
  <2> QED
    BY <1>1, <1>10, <2>1, <2>2, <2>3 DEF Link
<1>11. CASE ClaimedElsewhere(h)
  <2>1. CASE pc'[h] = "idle"
    BY <1>1, <1>4, <1>11, <2>1 DEF ClaimedElsewhere
  <2>2. CASE pc'[h] # "idle"
    BY <1>1, <1>11, <2>2 DEF ClaimedElsewhere, SaysHandle
  <2> QED
    BY <2>1, <2>2
<1>12. CASE Create(h)
  <2> DEFINE row == Row([NO_VCS_HANDLES EXCEPT ![HostOf[work[h].account]] = work[h].name],
                        work[h].role)
  <2>1. work[h].account \in Accounts /\ work[h].person = link[work[h].account]
        /\ work[h].person > MaxRegistered
    BY <1>1, <1>12 DEF Create, WorkSound
  <2>2. directory'[p].handles[g] = handle
    <3>1. directory'[p] = IF p = work[h].person THEN row ELSE directory[p]
      BY <1>12 DEF Create, Put
    <3>2. CASE p = work[h].person
      <4>1. HostOf[work[h].account] # g /\ handle = NoName
        BY <1>1, <1>2, <2>1, <3>2 DEF Agreed
      <4>2. row.handles[g] = NoName
        BY <4>1 DEF Row, NO_VCS_HANDLES
      <4> QED
        BY <3>1, <3>2, <4>1, <4>2
    <3> QED
      BY <3>1, <3>2
  <2> QED
    BY <1>1, <1>3, <1>12, <2>2 DEF Create, SaysHandle
<1>13. CASE Refresh(h)
  <2>1. CASE pc'[h] = "idle"
    BY <1>1, <1>4, <1>13, <2>1 DEF Refresh
  <2>2. CASE pc'[h] # "idle"
    <3> DEFINE H == [directory[work[h].person].handles EXCEPT
                       ![HostOf[work[h].account]] = work[h].name]
    <3>1. pc[h] = "refreshing" /\ pc'[h] = "updating" /\ work[h].person \in DOMAIN directory
          /\ work'[h] = [work[h] EXCEPT !.row.handles = H] /\ directory' = directory
      BY <1>1, <1>13, <2>2 DEF Refresh
    <3>2. work[h].account \in Accounts /\ work[h].person = link[work[h].account]
      BY <1>1, <3>1 DEF WorkSound
    <3>3. work[h].person = p => H[g] = handle
      <4>1. directory[p].handles \in [Hosts -> Names \cup {NoName}]
        BY <1>1, ListingsAre DEF Rows
      <4> QED
        BY <1>2, <3>2, <4>1
    <3> HIDE DEF H
    <3>4. /\ work'[h].listed = work[h].listed /\ work'[h].person = work[h].person
          /\ work'[h].row.handles = H
      BY <1>1, <3>1 DEF Works, Rows
    <3> QED
      BY <1>1, <3>1, <3>3, <3>4 DEF SaysHandle
  <2> QED
    BY <2>1, <2>2
<1>14. CASE ReadRow(h)
  <2> DEFINE R == IF work[h].adopted = Nobody
                    THEN Row(work[h].row.handles, directory[work[h].person].role)
                    ELSE Row(directory[work[h].person].handles, work[h].role)
  <2>1. work'[h] = [work[h] EXCEPT !.row = R] /\ pc[h] = "updating" /\ pc'[h] = "writing"
        /\ directory' = directory
    BY <1>1, <1>14 DEF ReadRow
  <2>2. work[h].person = p => R.handles[g] = handle
    BY <1>1, <2>1 DEF Row, SaysHandle
  <2> HIDE DEF R
  <2>3. /\ work'[h].listed = work[h].listed /\ work'[h].person = work[h].person
        /\ work'[h].row = R
    BY <1>1, <2>1 DEF Works
  <2> QED
    BY <1>1, <2>1, <2>2, <2>3 DEF SaysHandle
<1>15. CASE WriteRow(h)
  <2>1. directory'[p].handles[g] = handle
    BY <1>1, <1>15 DEF WriteRow, Put, SaysHandle
  <2> QED
    BY <1>1, <1>3, <1>15, <2>1 DEF WriteRow, SaysHandle
<1>16. CASE Crash(h)
  BY <1>1, <1>4, <1>16 DEF Crash
<1> QED
  BY <1>5, <1>6, <1>7, <1>8, <1>9, <1>10, <1>11, <1>12, <1>13, <1>14, <1>15, <1>16 DEF Serve

\* The handle of a host nobody has signed in from stands on every row, and a
\* row a step has just made has it empty.
LEMMA AgreedStep ==
  ASSUME HandlesInv, NEW h \in Handlers, Serve(h) \/ Crash(h),
         NEW p \in DOMAIN directory', NEW g \in Hosts, ~Linked(p, g)'
  PROVE  Agreed(p, g)'
<1>1. DirectoryInv /\ DirectoryInv' /\ Footprint(h)
  BY DirectoryStep, ServeFootprint DEF HandlesInv, Next
<1>2. \A b \in Accounts : link[b] # Nobody => link'[b] = link[b]
  BY <1>1 DEF Footprint
<1>3. /\ work' \in [Handlers -> Works] /\ Nobody \notin DOMAIN directory'
      /\ MaxRegistered \in Nat
  BY <1>1, BoundsAreNat, ListingsAre DEF DirectoryInv, TypeInv, People, Nobody
<1>4. CASE p \in DOMAIN directory
  <2>1. p # Nobody
    BY <1>3
  <2>2. ~Linked(p, g)
    BY <1>2, <2>1 DEF Linked
  <2>3. Agreed(p, g)
    BY <1>4, <2>2 DEF HandlesInv
  <2>4. directory'[p].handles[g] = directory[p].handles[g]
        /\ SaysHandle(h, p, g, directory[p].handles[g])'
    BY <1>4, <2>2, HandleStands
  <2>5. \A k \in Handlers \ {h} : pc'[k] = pc[k] /\ work'[k] = work[k]
    BY <1>1 DEF Footprint
  <2> QED
    BY <2>3, <2>4, <2>5 DEF Agreed, SaysHandle
<1>5. CASE p \notin DOMAIN directory
  <2>1. p = work[h].person /\ WorkSound(h) /\ work[h] \in Works
    BY <1>1, <1>5 DEF Footprint, DirectoryInv, TypeInv
  <2>2. Create(h)
    <3>1. directory' # directory
      BY <1>5
    <3>2. ~WriteRow(h)
      BY <1>5, <2>1 DEF WriteRow, WorkSound
    <3> QED
      BY <3>1, <3>2 DEF Serve, Resolve, List, Match, Admit, Refuse, ClaimedElsewhere, Link,
                        Refresh, ReadRow, Crash, stores
  <2>3. work[h].account \in Accounts /\ p = link[work[h].account] /\ p > MaxRegistered
    BY <2>1, <2>2 DEF Create, WorkSound
  <2>4. HostOf[work[h].account] # g
    <3>1. link'[work[h].account] = p
      BY <2>2, <2>3 DEF Create
    <3> QED
      BY <2>3, <3>1 DEF Linked
  <2>5. directory'[p].handles[g] = NoName
    <3>1. directory'[p].handles = [NO_VCS_HANDLES EXCEPT ![HostOf[work[h].account]] = work[h].name]
      BY <2>1, <2>2 DEF Create, Put, Row
    <3> QED
      BY <2>4, <3>1 DEF NO_VCS_HANDLES
  <2>6. work'[h] = NoWork /\ pc'[h] = "idle"
    BY <1>1, <2>2 DEF Create, Reply, DirectoryInv, TypeInv, TypeOK
  <2>7. ASSUME NEW k \in Handlers \ {h}
        PROVE  p \notin DOMAIN work'[k].listed /\ work'[k].adopted # p
               /\ ~(work'[k].person = p /\ pc'[k] \in {"updating", "writing"})
    BY <1>1, <1>3, <1>5, <2>7 DEF DirectoryInv, WorkSound, Footprint
  <2>8. p \notin DOMAIN work'[h].listed /\ work'[h].adopted # p
    BY <1>3, <2>6, RowsAre
  <2> QED
    BY <2>5, <2>6, <2>7, <2>8 DEF Agreed
<1> QED
  BY <1>4, <1>5

\* Requests come by a row under the name it has, until somebody signs in to it.
LEMMA AlikeStep ==
  ASSUME HandlesInv, NEW h \in Handlers, Serve(h) \/ Crash(h), NEW k \in Handlers, k # h
  PROVE  Alike(h, k)'
<1> SUFFICES ASSUME pc'[h] \in {"admitting", "linking"}, pc'[k] \in {"admitting", "linking"},
                    work'[h].adopted # Nobody, work'[h].adopted = work'[k].adopted,
                    HostOf[work'[h].account] = HostOf[work'[k].account]
             PROVE  work'[h].name = work'[k].name
  BY DEF Alike
<1> PICK p, g : p = work'[h].adopted /\ g = HostOf[work'[h].account]
  OBVIOUS
<1>1. /\ DirectoryInv /\ DirectoryInv' /\ Footprint(h) /\ Arrived(h) /\ Alike(h, k)
      /\ pc'[k] = pc[k] /\ work'[k] = work[k] /\ WorkSound(h) /\ WorkSound(h)'
      /\ work[h] \in Works
  BY ServeFootprint, ServeArrives, DirectoryStep
  DEF HandlesInv, Next, Footprint, DirectoryInv, TypeInv
<1>2. CASE pc'[h] = "linking"
  <2>1. Admit(h) /\ pc[h] = "admitting" /\ work'[h].adopted = work[h].adopted
    BY <1>1, <1>2 DEF Arrived, Admit, Goto
  <2>2. work'[h].account = work[h].account /\ work'[h].name = work[h].name
    BY <1>1, <2>1, DecidingKeeps
  <2> QED
    BY <1>1, <2>1, <2>2 DEF Alike
<1>3. CASE pc'[h] = "admitting"
  <2>1. Match(h) /\ pc[h] = "matching" /\ work[h].adopted = Nobody
    BY <1>1, <1>3 DEF Arrived, Match, Goto, WorkSound
  <2>2. work'[h].account = work[h].account /\ link' = link
    BY <1>1, <2>1, DecidingKeeps
  <2>3. ~Linked(p, g)
    <3>1. PICK q : /\ ~Linked(q, HostOf[work[h].account])
                   /\ work'[h] = [work[h] EXCEPT !.adopted = q, !.established = IsLinked(q)]
      BY <1>1, <2>1 DEF Match, DirectoryInv, TypeInv
    <3> QED
      BY <1>1, <2>2, <3>1 DEF Works
  <2>4. ~Linked(p, g)'
    BY <2>2, <2>3 DEF Linked
  <2>5. p \in DOMAIN directory' /\ g \in Hosts
    <3>1. work'[h].account \in Accounts
      BY <1>1, <1>3 DEF WorkSound
    <3> QED
      BY <1>1, <3>1, HostsOfAccounts DEF WorkSound, Hosts
  <2>6. Agreed(p, g)'
    BY <2>4, <2>5, AgreedStep
  <2> QED
    BY <2>6 DEF Agreed
<1> QED
  BY <1>2, <1>3

\* Two requests about to take one row, on its handle of one host, are of one
\* account, if neither account took another name.
LEMMA TakingStep ==
  ASSUME HandlesInv, NEW h \in Handlers, Serve(h) \/ Crash(h), NEW k \in Handlers
  PROVE  Taking(k)'
<1> SUFFICES ASSUME pc'[k] \in {"admitting", "linking"}, work'[k].adopted # Nobody,
                    work'[k].account \notin moved',
                    NEW b \in Accounts, b \notin moved', link'[b] = work'[k].adopted,
                    HostOf[b] = HostOf[work'[k].account]
             PROVE  b = work'[k].account
  BY DEF Taking
<1> USE DEF Goto, Unchanged, Reply, stores, history
<1>1. DirectoryInv /\ Footprint(h) /\ Taking(k) /\ Taking(h) /\ Alike(h, k) /\ moved' = moved
  BY ServeFootprint DEF HandlesInv, Footprint
<1>2. /\ work \in [Handlers -> Works] /\ pc \in [Handlers -> Places]
      /\ link \in [Accounts -> People \cup {Nobody}] /\ WorkSound(k) /\ WorkSound(h)
      /\ work[k] \in Works /\ work[h] \in Works
  BY <1>1 DEF DirectoryInv, TypeInv, TypeOK
<1>3. CASE k = h
  <2>1. Match(h) \/ Admit(h)
    BY <1>2, <1>3 DEF Serve, Resolve, List, Refuse, ClaimedElsewhere, Link, Create, Refresh,
                      ReadRow, WriteRow, Crash
  <2>2. link' = link
    BY <2>1 DEF Match, Admit
  <2>3. CASE Match(h)
    <3>1. work'[h] = work[h]
          \/ \E q \in Matching(work[h]) :
               /\ ~Linked(q, HostOf[work[h].account])
               /\ work'[h] = [work[h] EXCEPT !.adopted = q, !.established = IsLinked(q)]
      BY <1>2, <2>3 DEF Match
    <3>2. work[h].adopted = Nobody
      BY <1>2, <2>3 DEF Match, WorkSound
    <3>3. work'[h].account = work[h].account
          /\ ~Linked(work'[h].adopted, HostOf[work[h].account])
      BY <1>2, <1>3, <3>1, <3>2 DEF Works
    <3> QED
      BY <1>3, <2>2, <3>3 DEF Linked
  <2>4. CASE Admit(h)
    <3> DEFINE P == IF work[h].adopted # Nobody THEN work[h].adopted ELSE NewPerson
    <3>1. work'[h] = [work[h] EXCEPT !.role = DecidedRole(work[h]), !.person = P]
      BY <1>2, <2>4 DEF Admit
    <3> HIDE DEF P
    <3>2. work'[h].account = work[h].account /\ work'[h].adopted = work[h].adopted
      BY <1>2, <3>1 DEF Works
    <3>3. pc[h] = "admitting"
      BY <2>4 DEF Admit
    <3> QED
      BY <1>1, <1>3, <2>2, <3>2, <3>3 DEF Taking
  <2> QED
    BY <2>1, <2>3, <2>4
<1>4. CASE k # h
  <2>1. pc'[k] = pc[k] /\ work'[k] = work[k]
    BY <1>1, <1>4 DEF Footprint
  <2>2. CASE link[b] # Nobody
    BY <1>1, <2>1, <2>2 DEF Taking, Footprint
  <2>3. CASE link[b] = Nobody
    <3> DEFINE p == work[k].adopted
               g == HostOf[b]
    <3>1. Link(h)
      <4>1. link' # link
        BY <2>1, <2>3
      <4> QED
        BY <4>1 DEF Serve, Resolve, List, Match, Admit, Refuse, ClaimedElsewhere, Create,
                    Refresh, ReadRow, WriteRow, Crash
    <3>2. b = work[h].account /\ p = work[h].person
      BY <1>2, <2>1, <2>3, <3>1 DEF Link, Claim
    <3>3. p \in DOMAIN directory
      BY <1>2, <2>1 DEF WorkSound
    <3>4. work[h].adopted = p
      BY <1>2, <3>1, <3>2, <3>3 DEF Link, WorkSound, Mine
    <3>5. work[h].name = work[k].name
      BY <1>1, <2>1, <3>1, <3>2, <3>4 DEF Alike, Link
    <3>6. /\ work[h].name = name[b] /\ work[k].name = name[work[k].account]
          /\ work[k].account \in Accounts
      BY <1>1, <1>2, <2>1, <3>1, <3>2 DEF WorkSound, Link, OnItsWay
    <3> QED
      BY <1>1, <2>1, <3>5, <3>6 DEF DirectoryInv, NamesOneEach
  <2> QED
    BY <2>2, <2>3
<1> QED
  BY <1>3, <1>4

\* So a row is never taken by a second account of a host.
LEMMA HandlesStep == HandlesInv /\ [Next]_vars => HandlesInv'
<1> SUFFICES ASSUME HandlesInv, [Next]_vars PROVE HandlesInv'
  OBVIOUS
<1>1. DirectoryInv /\ DirectoryInv'
  BY DirectoryStep DEF HandlesInv
<1>2. ASSUME NEW h \in Handlers, Serve(h) \/ Crash(h) PROVE HandlesInv'
  <2>1. \A p \in DOMAIN directory', g \in Hosts : ~Linked(p, g)' => Agreed(p, g)'
    BY <1>2, AgreedStep
  <2>2. \A k \in Handlers : Taking(k)'
    BY <1>2, TakingStep
  <2>3. OneAccountPerHost'
    <3> SUFFICES ASSUME NEW a \in Accounts, NEW b \in Accounts, a \notin moved', b \notin moved',
                        link'[a] # Nobody, link'[a] = link'[b], HostOf[a] = HostOf[b], a # b
                 PROVE  FALSE
      BY DEF OneAccountPerHost
    <3>0. a \notin moved /\ b \notin moved
      BY <1>1, <1>2, ServeFootprint DEF Footprint
    <3>1. Footprint(h) /\ WorkSound(h) /\ Taking(h) /\ OneAccountPerHost
          /\ pc \in [Handlers -> Places] /\ link \in [Accounts -> People \cup {Nobody}]
      BY <1>1, <1>2, ServeFootprint DEF HandlesInv, DirectoryInv, TypeInv, TypeOK
    <3>2. link' # link
      BY <3>0, <3>1 DEF OneAccountPerHost
    <3>3. Link(h)
      BY <1>2, <3>2 DEF Serve, Resolve, List, Match, Admit, Refuse, ClaimedElsewhere, Create,
                        Refresh, ReadRow, WriteRow, Crash, stores
    <3>4. PICK c \in {a, b}, d \in {a, b} :
            /\ c # d /\ c = work[h].account /\ link[c] = Nobody /\ link[d] # Nobody
            /\ link'[c] = work[h].person /\ link[d] = work[h].person
      <4>1. \A e \in Accounts \ {work[h].account} : link'[e] = link[e]
        BY <3>1, <3>3 DEF Link
      <4>2. work[h].account \in {a, b} /\ link[work[h].account] = Nobody
        BY <3>0, <3>1, <4>1 DEF OneAccountPerHost, Footprint
      <4>3. link'[work[h].account] = work[h].person
        BY <3>1, <3>3, <4>2 DEF Link, Claim
      <4> QED
        BY <4>1, <4>2, <4>3
    <3>5. work[h].adopted # Nobody /\ work[h].adopted = work[h].person /\ pc[h] = "linking"
      BY <3>1, <3>3, <3>4 DEF Link, Goto, Reply, WorkSound, Mine
    <3> QED
      BY <3>0, <3>1, <3>4, <3>5 DEF Taking
  <2>4. ASSUME NEW j \in Handlers, NEW k \in Handlers PROVE Alike(j, k)'
    <3>1. CASE j = h /\ k # h
      BY <1>2, <3>1, AlikeStep
    <3>2. CASE j # h /\ k = h
      <4>1. Alike(h, j)'
        BY <1>2, <3>2, AlikeStep
      <4> QED
        BY <3>2, <4>1 DEF Alike
    <3>3. CASE j # h /\ k # h
      BY <1>1, <1>2, <3>3, ServeFootprint DEF HandlesInv, Alike, Footprint
    <3>4. CASE j = k
      BY <3>4 DEF Alike
    <3> QED
      BY <3>1, <3>2, <3>3, <3>4
  <2> QED
    BY <1>1, <2>1, <2>2, <2>3, <2>4 DEF HandlesInv
<1>3. ASSUME UNCHANGED <<directory, link, pc, work>>, moved \subseteq moved' PROVE HandlesInv'
  BY <1>1, <1>3 DEF HandlesInv, OneAccountPerHost, Linked, Agreed, Taking, Alike
<1>4. ASSUME NEW a \in Accounts, Rename(a) PROVE HandlesInv'
  BY <1>3, <1>4 DEF Rename, stores
<1>5. CASE UNCHANGED vars
  BY <1>3, <1>5 DEF vars, stores, history
<1> QED
  BY <1>2, <1>4, <1>5 DEF Next

\* Nobody is linked, and nothing is held, at the start.
LEMMA HandlesInit == Init => HandlesInv
<1> SUFFICES ASSUME Init PROVE HandlesInv
  OBVIOUS
<1>1. DirectoryInv /\ \A a \in Accounts : link[a] = Nobody
  BY DirectoryInit DEF Init
<1>2. \A h \in Handlers : pc[h] = "idle" /\ work[h] = NoWork
  BY DEF Init
<1>3. ASSUME NEW p \in DOMAIN directory, NEW g \in Hosts PROVE Agreed(p, g)
  <2>1. p # Nobody /\ p \in People /\ ~(p > MaxRegistered)
    BY <1>1, BoundsAreNat
    DEF DirectoryInv, TypeInv, TypeOK, RowSound, People, Nobody
  <2> QED
    BY <1>2, <2>1, RowsAre DEF Agreed
<1>4. \A h \in Handlers : Taking(h) /\ \A k \in Handlers : Alike(h, k)
  BY <1>2 DEF Taking, Alike
<1> QED
  BY <1>1, <1>3, <1>4 DEF HandlesInv, OneAccountPerHost

\* PeopleService.ts:153-158: of two accounts of one host that share a row, one took
\* another name while a request of it was on its way to its claim.
THEOREM NameNeverInherited == Spec => []OneAccountPerHost
<1>1. HandlesInv => OneAccountPerHost
  BY DEF HandlesInv
<1> QED
  BY <1>1, HandlesInit, HandlesStep, PTL DEF Spec

-----------------------------------------------------------------------------
(* A row registered for a name is found by every request of that name. *)

\* The rows a step makes are of people nobody registered, and a handle on a host
\* nobody is linked from is empty or was there before.
LEMMA HandlesAfter ==
  ASSUME HandlesInv, NEW h \in Handlers, Serve(h) \/ Crash(h), NEW p \in DOMAIN directory'
  PROVE  /\ p \in DOMAIN directory \/ p > MaxRegistered
         /\ \A g \in Hosts : ~Linked(p, g)' =>
              \/ directory'[p].handles[g] = NoName
              \/ /\ p \in DOMAIN directory /\ ~Linked(p, g)
                 /\ directory'[p].handles[g] = directory[p].handles[g]
<1>1. DirectoryInv /\ DirectoryInv' /\ Footprint(h) /\ WorkSound(h)
  BY DirectoryStep, ServeFootprint DEF HandlesInv, DirectoryInv, Next
<1>2. p \in DOMAIN directory \/ p > MaxRegistered
  <2> SUFFICES ASSUME p \notin DOMAIN directory PROVE p > MaxRegistered
    OBVIOUS
  <2>1. p = work[h].person /\ directory' # directory
    BY <1>1 DEF Footprint
  <2>2. Create(h) \/ WriteRow(h)
    BY <2>1 DEF Serve, Resolve, List, Match, Admit, Refuse, ClaimedElsewhere, Link, Refresh,
                ReadRow, Crash, stores
  <2> QED
    BY <1>1, <2>1, <2>2 DEF Create, WriteRow, WorkSound
<1>3. ASSUME NEW g \in Hosts, ~Linked(p, g)', p \notin DOMAIN directory
      PROVE  directory'[p].handles[g] = NoName
  BY <1>2, <1>3, AgreedStep DEF Agreed
<1>4. ASSUME NEW g \in Hosts, ~Linked(p, g)', p \in DOMAIN directory
      PROVE  ~Linked(p, g) /\ directory'[p].handles[g] = directory[p].handles[g]
  <2>1. p # Nobody
    BY <1>1, BoundsAreNat, ListingsAre DEF DirectoryInv, TypeInv, People, Nobody
  <2>2. ~Linked(p, g)
    BY <1>1, <1>4, <2>1 DEF Linked, Footprint
  <2> QED
    BY <1>4, <2>2, HandleStands
<1> QED
  BY <1>2, <1>3, <1>4

\* A request that no row is left for has none left after a step either.
LEMMA NoneLeftStands ==
  ASSUME HandlesInv, NEW h \in Handlers, Serve(h) \/ Crash(h), NEW k \in Handlers,
         pc[k] # "idle", work'[k].account = work[k].account, work'[k].name = work[k].name,
         NoneLeft(k)
  PROVE  NoneLeft(k)'
<1>1. WorkSound(k) /\ name \in [Accounts -> Names]
  BY DEF HandlesInv, DirectoryInv, TypeInv, TypeOK
<1>2. work[k].account \in Accounts /\ work[k].name \in Names /\ work[k].name # NoName
  BY <1>1, NamesAreNotNull DEF WorkSound, NoName
<1>3. HostOf[work[k].account] \in Hosts
  BY <1>2, HostsOfAccounts DEF Hosts
<1> QED
  BY <1>2, <1>3, HandlesAfter DEF NoneLeft

\* Every listing has the rows that were registered.
LEMMA RegisteredStep ==
  ASSUME ChoiceInv, NEW h \in Handlers, Serve(h) \/ Crash(h), NEW k \in Handlers
  PROVE  Registered(k)'
<1>1. HandlesInv /\ DirectoryInv /\ Footprint(h) /\ Registered(k)
      /\ work \in [Handlers -> Works] /\ pc \in [Handlers -> Places]
  BY ServeFootprint DEF ChoiceInv, HandlesInv, DirectoryInv, TypeInv, TypeOK
<1>2. ASSUME NEW p \in DOMAIN directory', p <= MaxRegistered PROVE p \in DOMAIN directory
  <2>1. p \in Int /\ MaxRegistered \in Int
    <3>1. p \in People
      BY <1>1, DirectoryStep, ListingsAre DEF Next, HandlesInv, DirectoryInv, TypeInv
    <3> QED
      BY <3>1, BoundsAreNat DEF People
  <2> QED
    BY <1>1, <1>2, <2>1, HandlesAfter
<1>3. CASE k # h
  BY <1>1, <1>2, <1>3 DEF Footprint, Registered
<1>4. CASE k = h /\ pc'[h] \in {"matching", "admitting", "linking"}
  <2> USE DEF Goto, Reply
  <2>1. CASE List(h)
    <3>1. work'[h] = [work[h] EXCEPT !.listed = directory]
      BY <1>1, <2>1 DEF List
    <3>2. work'[h].listed = directory /\ directory' = directory
      BY <1>1, <2>1, <3>1 DEF List, Works, stores
    <3> QED
      BY <1>4, <3>2 DEF Registered
  <2>2. CASE Match(h) \/ Admit(h)
    <3>1. pc[h] \in {"matching", "admitting"}
      BY <2>2 DEF Match, Admit
    <3>2. work'[h].listed = work[h].listed
      BY <1>1, <2>2, DecidingKeeps
    <3> QED
      BY <1>1, <1>2, <1>4, <3>1, <3>2 DEF Registered
  <2>3. List(h) \/ Match(h) \/ Admit(h)
    BY <1>1, <1>4 DEF Serve, Resolve, Refuse, ClaimedElsewhere, Link, Create, Refresh, ReadRow,
                      WriteRow, Crash
  <2> QED
    BY <2>1, <2>2, <2>3
<1> QED
  BY <1>3, <1>4 DEF Registered

\* A request that takes no row has none to take: it looked at all of them.
LEMMA PassedStep ==
  ASSUME ChoiceInv, NEW h \in Handlers, Serve(h) \/ Crash(h), NEW k \in Handlers
  PROVE  Passed(k)'
<1> SUFFICES ASSUME pc'[k] \in {"admitting", "linking"}, work'[k].adopted = Nobody
             PROVE  NoneLeft(k)'
  BY DEF Passed
<1>1. /\ HandlesInv /\ DirectoryInv /\ Footprint(h) /\ Passed(k) /\ Registered(k) /\ WorkSound(k)
      /\ work \in [Handlers -> Works] /\ pc \in [Handlers -> Places]
      /\ link \in [Accounts -> People \cup {Nobody}] /\ name \in [Accounts -> Names]
  BY ServeFootprint DEF ChoiceInv, HandlesInv, DirectoryInv, TypeInv, TypeOK
<1>2. CASE k # h
  BY <1>1, <1>2, NoneLeftStands DEF Footprint, Passed
<1>3. CASE k = h
  <2>1. Match(h) \/ Admit(h)
    BY <1>1, <1>3 DEF Serve, Resolve, List, Refuse, ClaimedElsewhere, Link, Create, Refresh,
                      ReadRow, WriteRow, Crash, Goto, Reply
  <2>2. /\ work'[h].account = work[h].account /\ work'[h].name = work[h].name
        /\ pc[h] \in {"matching", "admitting"} /\ directory' = directory /\ link' = link
    BY <1>1, <2>1, DecidingKeeps
  <2>3. CASE Admit(h)
    <3> DEFINE P == IF work[h].adopted # Nobody THEN work[h].adopted ELSE NewPerson
    <3>1. work'[h] = [work[h] EXCEPT !.role = DecidedRole(work[h]), !.person = P]
          /\ pc[h] = "admitting"
      BY <1>1, <2>3 DEF Admit, Goto
    <3> HIDE DEF P
    <3>2. work'[h].adopted = work[h].adopted
      BY <1>1, <3>1 DEF Works
    <3> QED
      BY <1>1, <1>3, <2>2, <3>1, <3>2, NoneLeftStands DEF Passed
  <2>4. CASE Match(h)
    <3> DEFINE a == work[h].account
               g == HostOf[work[h].account]
    <3>1. a \in Accounts /\ work[h].name \in Names /\ work[h].name # NoName /\ g \in Hosts
      BY <1>1, <1>3, <2>2, HostsOfAccounts, NamesAreNotNull DEF WorkSound, Hosts, NoName
    <3>2. {p \in Matching(work[h]) : ~Linked(p, g)} = {}
      <4>1. ASSUME NEW p \in Matching(work[h]),
                   work'[h] = [work[h] EXCEPT !.adopted = p, !.established = IsLinked(p)]
            PROVE  FALSE
        <5>1. work'[h].adopted = p
          BY <1>1, <4>1 DEF Works
        <5>2. p # Nobody
          BY <1>1, <1>3, ListingsAre, BoundsAreNat DEF Matching, Works, People, Nobody
        <5> QED
          BY <1>3, <5>1, <5>2
      <4> QED
        BY <1>1, <2>4, <4>1 DEF Match
    <3>3. ASSUME NEW p \in DOMAIN directory, ~Linked(p, g), directory[p].handles[g] = work[h].name
          PROVE  FALSE
      <4>1. Agreed(p, g) /\ p \in Int /\ MaxRegistered \in Int
        <5>1. p \in People
          BY <1>1, ListingsAre DEF DirectoryInv, TypeInv
        <5> QED
          BY <1>1, <3>1, <3>3, <5>1, BoundsAreNat DEF HandlesInv, People
      <4>2. p <= MaxRegistered
        BY <3>1, <3>3, <4>1 DEF Agreed
      <4>3. p \in DOMAIN work[h].listed
        BY <1>1, <1>3, <2>2, <4>2 DEF Registered
      <4>4. p \in Matching(work[h])
        BY <3>3, <4>1, <4>3 DEF Agreed, Matching
      <4> QED
        BY <3>2, <3>3, <4>4
    <3> QED
      BY <1>3, <2>2, <3>3 DEF NoneLeft, Linked
  <2> QED
    BY <2>1, <2>3, <2>4
<1> QED
  BY <1>2, <1>3

\* Nor has one whose account was claimed meanwhile: the claim took the row there was.
LEMMA OvertakenStep ==
  ASSUME ChoiceInv, NEW h \in Handlers, Serve(h) \/ Crash(h), NEW k \in Handlers
  PROVE  Overtaken(k)'
<1> SUFFICES ASSUME moved' = {}, pc'[k] \in {"listing", "matching", "admitting", "linking"},
                    link'[work'[k].account] # Nobody
             PROVE  NoneLeft(k)'
  BY DEF Overtaken, OnItsWay
<1>1. /\ HandlesInv /\ DirectoryInv /\ Footprint(h) /\ Passed(h) /\ Overtaken(k) /\ Distinct
      /\ WorkSound(k) /\ WorkSound(h) /\ Taking(h) /\ moved = {}
      /\ work \in [Handlers -> Works] /\ pc \in [Handlers -> Places]
      /\ link \in [Accounts -> People \cup {Nobody}] /\ name \in [Accounts -> Names]
  BY ServeFootprint DEF ChoiceInv, HandlesInv, DirectoryInv, TypeInv, TypeOK, Footprint
<1>2. CASE k = h
  <2>1. Resolve(h) \/ List(h) \/ Match(h) \/ Admit(h)
    BY <1>1, <1>2 DEF Serve, Refuse, ClaimedElsewhere, Link, Create, Refresh, ReadRow, WriteRow,
                      Crash, Goto, Reply
  <2>2. CASE Resolve(h)
    <3>1. PICK a \in Accounts, trusted \in BOOLEAN :
            /\ Goto(h, "idle", IF link[a] = Nobody THEN "listing" ELSE "refreshing")
            /\ work' = [work EXCEPT ![h] = [NoWork EXCEPT !.account = a, !.name = name[a],
                                              !.trusted = trusted, !.person = link[a]]]
      BY <2>2 DEF Resolve
    <3>2. work'[h].account = a /\ link' = link
      BY <1>1, <2>2, <3>1 DEF NoWork, Resolve, stores
    <3> QED
      BY <1>1, <1>2, <3>1, <3>2 DEF Goto
  <2>3. CASE List(h) \/ Match(h) \/ Admit(h)
    <3>1. /\ work'[h].account = work[h].account /\ work'[h].name = work[h].name
          /\ link' = link /\ pc[h] \in {"listing", "matching", "admitting"}
      <4>1. CASE List(h)
        <5>1. work'[h] = [work[h] EXCEPT !.listed = directory]
          BY <1>1, <4>1 DEF List
        <5> QED
          BY <1>1, <4>1, <5>1 DEF List, Works, stores, Goto
      <4> QED
        BY <1>1, <2>3, <4>1, DecidingKeeps
    <3> QED
      BY <1>1, <1>2, <3>1, NoneLeftStands DEF Overtaken, OnItsWay
  <2> QED
    BY <2>1, <2>2, <2>3
<1>3. CASE k # h
  <2>1. pc'[k] = pc[k] /\ work'[k] = work[k]
    BY <1>1, <1>3 DEF Footprint
  <2> DEFINE a == work[k].account
             g == HostOf[work[k].account]
  <2>2. CASE link[a] # Nobody
    BY <1>1, <2>1, <2>2, NoneLeftStands DEF Overtaken, OnItsWay
  <2>3. CASE link[a] = Nobody
    <3>1. Link(h)
      <4>1. link' # link
        BY <2>1, <2>3
      <4> QED
        BY <4>1 DEF Serve, Resolve, List, Match, Admit, Refuse, ClaimedElsewhere, Create,
                    Refresh, ReadRow, WriteRow, Crash, stores
    <3>2. a = work[h].account /\ link'[a] = work[h].person /\ a \in Accounts
      BY <1>1, <2>1, <2>3, <3>1 DEF Link, Claim, WorkSound
    <3>3. work[h].name = work[k].name /\ work[h].name \in Names /\ work[h].name # NoName
          /\ g \in Hosts /\ pc[h] = "linking"
      <4>1. pc[h] = "linking" /\ pc[k] # "idle"
        BY <2>1, <3>1 DEF Link
      <4>2. work[h].name = name[a] /\ work[k].name = name[a]
        BY <1>1, <2>1, <3>2, <4>1 DEF WorkSound, OnItsWay
      <4>3. g \in Hosts
        BY <3>2, HostsOfAccounts DEF Hosts
      <4> QED
        BY <1>1, <3>2, <4>1, <4>2, <4>3, NamesAreNotNull DEF NoName
    <3>4. directory' = directory
      BY <3>1 DEF Link
    <3>5. ASSUME NEW p \in DOMAIN directory, ~Linked(p, g)', directory[p].handles[g] = work[k].name
          PROVE  FALSE
      <4>1. p # Nobody
        BY <1>1, ListingsAre, BoundsAreNat DEF DirectoryInv, TypeInv, People, Nobody
      <4>2. ~Linked(p, g) /\ p # work[h].person
        <5>1. \A b \in Accounts : link'[b] = p => HostOf[b] # g
          BY <2>1, <3>5 DEF Linked
        <5>2. \A b \in Accounts : link[b] # Nobody => link'[b] = link[b]
          BY <1>1 DEF Footprint
        <5> QED
          BY <3>2, <4>1, <5>1, <5>2 DEF Linked
      <4>3. CASE work[h].adopted = Nobody
        BY <1>1, <3>2, <3>3, <3>5, <4>2, <4>3 DEF Passed, NoneLeft
      <4>4. CASE work[h].adopted # Nobody
        <5>1. work[h].person = work[h].adopted /\ work[h].person \in DOMAIN directory
          BY <1>1, <3>3, <4>4 DEF WorkSound
        <5>2. ~Linked(work[h].person, g)
          BY <1>1, <2>3, <3>2, <3>3, <4>4, <5>1 DEF Linked, Taking
        <5>3. directory[work[h].person].handles[g] = work[h].name
          BY <1>1, <3>2, <3>3, <4>4, <5>1, <5>2 DEF HandlesInv, Agreed
        <5> QED
          BY <1>1, <3>3, <3>5, <4>2, <5>1, <5>2, <5>3 DEF Distinct
      <4> QED
        BY <4>3, <4>4
    <3> QED
      BY <2>1, <3>4, <3>5 DEF NoneLeft
  <2> QED
    BY <2>2, <2>3
<1> QED
  BY <1>2, <1>3

\* A step of a request keeps one row for a name, and every request of the name to it.
LEMMA ChoiceStep == ChoiceInv /\ [Next]_vars => ChoiceInv'
<1> SUFFICES ASSUME ChoiceInv, [Next]_vars PROVE ChoiceInv'
  OBVIOUS
<1>1. HandlesInv /\ HandlesInv'
  BY HandlesStep DEF ChoiceInv
<1>2. ASSUME NEW h \in Handlers, Serve(h) \/ Crash(h) PROVE ChoiceInv'
  <2>1. Distinct'
    BY <1>1, <1>2, HandlesAfter DEF Distinct, ChoiceInv
  <2> QED
    BY <1>1, <1>2, <2>1, RegisteredStep, PassedStep, OvertakenStep DEF ChoiceInv
<1>3. ASSUME UNCHANGED <<directory, link, pc, work>>, moved \subseteq moved' PROVE ChoiceInv'
  BY <1>1, <1>3 DEF ChoiceInv, Distinct, Registered, Passed, Overtaken, OnItsWay, NoneLeft, Linked
<1>4. ASSUME NEW a \in Accounts, Rename(a) PROVE ChoiceInv'
  BY <1>3, <1>4 DEF Rename, stores
<1>5. CASE UNCHANGED vars
  BY <1>3, <1>5 DEF vars, stores, history
<1> QED
  BY <1>2, <1>4, <1>5 DEF Next

\* Whoever finds the account claimed by another request was not taking a row.
LEMMA LosersTakeNothing ==
  ASSUME ChoiceInv, moved = {}, NEW h \in Handlers, pc[h] = "linking", Claim(h) # work[h].person
  PROVE  work[h].adopted = Nobody
<1> DEFINE a == work[h].account
           g == HostOf[work[h].account]
           p == work[h].adopted
<1> SUFFICES ASSUME p # Nobody PROVE FALSE
  OBVIOUS
<1>1. HandlesInv /\ WorkSound(h) /\ Taking(h) /\ Overtaken(h)
  BY DEF ChoiceInv, HandlesInv, DirectoryInv
<1>2. link[a] # Nobody /\ link[a] # p /\ a \in Accounts /\ p \in DOMAIN directory
  BY <1>1 DEF Claim, WorkSound
<1>3. g \in Hosts /\ ~Linked(p, g)
  BY <1>1, <1>2, HostsOfAccounts DEF Linked, Taking, Hosts
<1>4. directory[p].handles[g] = work[h].name
  BY <1>1, <1>2, <1>3 DEF HandlesInv, Agreed
<1> QED
  BY <1>1, <1>2, <1>3, <1>4 DEF Overtaken, OnItsWay, NoneLeft

-----------------------------------------------------------------------------
(* An admin who is linked. *)

\* A row that was linked when it was found still is; and only a decision makes an
\* adoption write.
LEMMA ReadsStand ==
  ASSUME OrgInv, NEW h \in Handlers, Serve(h) \/ Crash(h), NEW k \in Handlers
  PROVE  Established(k)' /\ Capping(k)'
<1>1. /\ DirectoryInv /\ Footprint(h) /\ Arrived(h) /\ WorkSound(h) /\ WorkSound(k)
      /\ Established(k) /\ Capping(k) /\ pc \in [Handlers -> Places]
      /\ link \in [Accounts -> People \cup {Nobody}]
  BY ServeFootprint, ServeArrives
  DEF OrgInv, ChoiceInv, HandlesInv, DirectoryInv, TypeInv, TypeOK
<1>2. CASE k # h
  <2>1. pc'[k] = pc[k] /\ work'[k] = work[k]
    BY <1>1, <1>2 DEF Footprint
  <2>2. Capping(k)'
    BY <1>1, <2>1 DEF Capping, Cap
  <2>3. work[k].adopted # Nobody /\ IsLinked(work[k].adopted) => IsLinked(work[k].adopted)'
    BY <1>1, <2>1 DEF Footprint, IsLinked, Linked
  <2> QED
    BY <1>1, <2>1, <2>2, <2>3 DEF Established
<1>3. CASE k = h
  <2>1. Established(h)'
    <3> SUFFICES ASSUME pc'[h] = "admitting", work'[h].adopted # Nobody
                 PROVE  (work[h].established => IsLinked(work[h].adopted))'
      BY DEF Established
    <3>1. Match(h) /\ (work'[h].established <=> IsLinked(work'[h].adopted))
      BY <1>1 DEF Arrived
    <3>2. link' = link
      BY <3>1 DEF Match, stores
    <3> QED
      BY <3>1, <3>2 DEF IsLinked, Linked
  <2>2. Capping(h)'
    <3>1. pc[h] = "updating" \/ ~ReadRow(h)
      BY DEF ReadRow, Goto
    <3> QED
      BY <1>1, <1>3, <3>1 DEF Arrived, Capping, Cap
  <2> QED
    BY <1>3, <2>1, <2>2
<1> QED
  BY <1>2, <1>3

\* A row is capped by a decision, and only when somebody is an admin who is linked
\* and, unless two requests crossed, not the one whose row it is.
LEMMA CapStep ==
  ASSUME OrgInv, NEW h \in Handlers, Serve(h) \/ Crash(h), Cap(h)'
  PROVE  /\ work'[h].adopted = work[h].adopted /\ work'[h].listed = work[h].listed
         /\ \/ Cap(h)
            \/ HasLinkedAdmin(work[h].listed) /\ (crossed' \/ ~IsLinked(work[h].adopted))
<1>1. /\ DirectoryInv /\ Arrived(h) /\ WorkSound(h) /\ Established(h) /\ Capping(h)
      /\ work[h] \in Works
  BY ServeArrives DEF OrgInv, ChoiceInv, HandlesInv, DirectoryInv, TypeInv
<1>2. CASE pc'[h] = "linking"
  <2>1. /\ pc[h] = "admitting" /\ work'[h].listed = work[h].listed
        /\ work'[h].adopted = work[h].adopted /\ work'[h].role = DecidedRole(work[h])
        /\ work[h].adopted # Nobody /\ work[h].listed[work[h].adopted].role # DecidedRole(work[h])
    BY <1>1, <1>2 DEF Arrived, Admit, Goto, Cap
  <2>2. work[h].listed[work[h].adopted].role \in {"admin", "member"}
        /\ DOMAIN work[h].listed # {}
    <3>1. work[h].adopted \in DOMAIN work[h].listed /\ work[h].listed \in Listings
      BY <1>1, <2>1 DEF WorkSound, Works
    <3> QED
      BY <3>1, ListingsAre DEF Rows
  <2>3. ~work[h].established /\ HasLinkedAdmin(work[h].listed)
    BY <2>1, <2>2 DEF DecidedRole
  <2>4. crossed' \/ ~IsLinked(work[h].adopted)
    <3>1. crossed' = (crossed \/ Crossing(work[h]))
      BY <1>1, <1>2 DEF Arrived, Admit
    <3> QED
      BY <2>1, <2>3, <3>1, Zenon DEF Crossing
  <2> QED
    BY <2>1, <2>3, <2>4
<1>3. CASE pc'[h] = "updating"
  <2>1. pc[h] = "linking" /\ work'[h] = work[h]
    BY <1>1, <1>3 DEF Arrived, Link, Cap
  <2> QED
    BY <1>3, <2>1 DEF Cap
<1>4. CASE pc'[h] = "writing"
  BY <1>1, <1>4 DEF Arrived, Cap, Capping, ReadRow, Goto
<1> QED
  BY <1>2, <1>3, <1>4 DEF Cap

\* An admin who is linked, and whom nobody is about to write down, stays one.
LEMMA SafeStays ==
  ASSUME OrgInv, NEW h \in Handlers, Serve(h) \/ Crash(h), ~crossed', NEW p, SafeAdmin(p)
  PROVE  SafeAdmin(p)'
<1>1. /\ DirectoryInv /\ Footprint(h) /\ Arrived(h) /\ WorkSound(h) /\ Capping(h)
      /\ link \in [Accounts -> People \cup {Nobody}] /\ directory \in Listings
      /\ work[h] \in Works
  BY ServeFootprint, ServeArrives DEF OrgInv, ChoiceInv, HandlesInv, DirectoryInv, TypeInv, TypeOK
<1>2. p # Nobody /\ p \in DOMAIN directory'
  BY <1>1, ListingsAre, BoundsAreNat DEF SafeAdmin, People, Nobody, Footprint
<1>3. IsLinked(p)'
  BY <1>1, <1>2 DEF SafeAdmin, IsLinked, Linked, Footprint
<1>4. directory'[p].role = "admin"
  <2>1. CASE Create(h)
    <3>1. p = work[h].person => work[h].role = "admin"
      BY <2>1 DEF SafeAdmin, Create
    <3> QED
      BY <2>1, <3>1 DEF Create, Put, Row, SafeAdmin
  <2>2. CASE WriteRow(h)
    <3>1. p = work[h].person => work[h].row.role = "admin"
      BY <2>2 DEF SafeAdmin, WriteRow
    <3> QED
      BY <2>2, <3>1 DEF WriteRow, Put, SafeAdmin
  <2>3. CASE ~Create(h) /\ ~WriteRow(h)
    <3>1. directory' = directory
      BY <2>3 DEF Serve, Resolve, List, Match, Admit, Refuse, ClaimedElsewhere, Link, Refresh,
                  ReadRow, Crash, stores
    <3> QED
      BY <3>1 DEF SafeAdmin
  <2> QED
    BY <2>1, <2>2, <2>3
<1>5. ASSUME NEW k \in Handlers
      PROVE  /\ Cap(k)' => work'[k].adopted # p
             /\ pc'[k] = "creating" /\ work'[k].person = p => work'[k].role = "admin"
             /\ pc'[k] = "writing" /\ work'[k].person = p => work'[k].row.role = "admin"
  <2>1. CASE k # h
    <3>1. pc'[k] = pc[k] /\ work'[k] = work[k]
      BY <1>1, <2>1 DEF Footprint
    <3> QED
      BY <3>1 DEF SafeAdmin, Cap
  <2>2. CASE k = h
    <3>1. Cap(h)' => work'[h].adopted # p
      BY CapStep DEF SafeAdmin
    <3>2. ASSUME pc'[h] = "creating", work'[h].person = p PROVE FALSE
      <4>1. Link(h) /\ work[h].adopted = Nobody /\ pc[h] = "linking" /\ work[h].person = p
        BY <1>1, <3>2 DEF Arrived, SafeAdmin, Link, Goto, Reply
      <4> QED
        BY <1>1, <4>1 DEF WorkSound, Mine, SafeAdmin
    <3>3. ASSUME pc'[h] = "writing", work'[h].person = p PROVE work'[h].row.role = "admin"
      <4>1. /\ pc[h] = "updating" /\ work[h].person = p
            /\ work'[h].row.role = IF work[h].adopted = Nobody THEN directory[p].role
                                   ELSE work[h].role
        BY <1>1, <3>3 DEF Arrived, ReadRow, Goto
      <4>2. work[h].adopted = Nobody
        BY <1>1, <4>1 DEF WorkSound, Capping, SafeAdmin
      <4> QED
        BY <4>1, <4>2 DEF SafeAdmin
    <3> QED
      BY <2>2, <3>1, <3>2, <3>3
  <2> QED
    BY <2>1, <2>2
<1> QED
  BY <1>2, <1>3, <1>4, <1>5 DEF SafeAdmin

\* The first to write their row found the org, as an admin.
LEMMA FoundingStep ==
  ASSUME OrgInv, NEW h \in Handlers, Serve(h) \/ Crash(h), Founding
  PROVE  Founding' \/ \E p \in DOMAIN directory' : SafeAdmin(p)'
<1>1. /\ DirectoryInv /\ DirectoryInv' /\ Footprint(h) /\ Arrived(h) /\ WorkSound(h)
      /\ pc \in [Handlers -> Places] /\ pc' \in [Handlers -> Places]
      /\ work \in [Handlers -> Works]
  BY ServeFootprint, ServeArrives, DirectoryStep
  DEF OrgInv, ChoiceInv, HandlesInv, DirectoryInv, TypeInv, TypeOK, Next
<1>2. CASE Create(h)
  <2> PICK p : p = work[h].person
    OBVIOUS
  <2>1. /\ DOMAIN directory' = {p} /\ directory'[p].role = "admin"
        /\ pc'[h] = "idle" /\ work'[h] = NoWork
        /\ work[h].account \in Accounts /\ p = link[work[h].account] /\ link' = link
    BY <1>1, <1>2 DEF Create, Put, Row, Founding, Reply, WorkSound
  <2>2. IsLinked(p)'
    BY <2>1, HostsOfAccounts DEF IsLinked, Linked, Hosts
  <2>3. ASSUME NEW k \in Handlers \ {h}
        PROVE  /\ ~Cap(k)' /\ pc'[k] # "writing"
               /\ pc'[k] = "creating" => work'[k].role = "admin"
    <3>1. pc'[k] = pc[k] /\ work'[k] = work[k] /\ WorkSound(k) /\ DOMAIN work[k].listed = {}
          /\ DOMAIN directory = {}
      BY <1>1 DEF Footprint, DirectoryInv, Founding
    <3> QED
      BY <3>1 DEF WorkSound, Cap, Founding
  <2>4. ~Cap(h)'
    BY <2>1 DEF Cap
  <2> QED
    BY <2>1, <2>2, <2>3, <2>4 DEF SafeAdmin
<1>3. CASE ~Create(h)
  <2>1. directory' = directory
    BY <1>1, <1>3
    DEF Serve, Resolve, List, Match, Admit, Refuse, ClaimedElsewhere, Link, Refresh, ReadRow,
        WriteRow, Crash, stores, Founding, WorkSound
  <2>2. ASSUME NEW k \in Handlers
        PROVE  /\ DOMAIN work'[k].listed = {}
               /\ pc'[k] \in {"linking", "losing", "creating"} => work'[k].role = "admin"
    <3>1. CASE k # h
      BY <1>1, <3>1 DEF Footprint, Founding
    <3>2. CASE k = h
      <4>1. DOMAIN work[h].listed = {} /\ DOMAIN directory = {}
        BY DEF Founding
      <4>2. DOMAIN work'[h].listed = {}
        BY <1>1, <2>1, <4>1 DEF DirectoryInv, WorkSound
      <4>3. DecidedRole(work[h]) = "admin"
        BY <4>1 DEF DecidedRole
      <4>4. pc'[h] \in {"losing", "creating"} => pc[h] \in {"linking", "losing"}
        BY <1>1 DEF Arrived, Link, Goto, Reply
      <4> QED
        BY <1>1, <3>2, <4>2, <4>3, <4>4 DEF Arrived, Founding
    <3> QED
      BY <3>1, <3>2
  <2> QED
    BY <2>1, <2>2 DEF Founding
<1> QED
  BY <1>2, <1>3

\* A registered admin signs in and is one who is linked, or nobody has yet.
LEMMA UnclaimedStep ==
  ASSUME OrgInv, moved = {}, NEW h \in Handlers, Serve(h) \/ Crash(h), Unclaimed
  PROVE  Unclaimed' \/ \E p \in DOMAIN directory' : SafeAdmin(p)'
<1>1. /\ DirectoryInv /\ DirectoryInv' /\ Footprint(h) /\ Arrived(h) /\ WorkSound(h) /\ Capping(h)
      /\ pc \in [Handlers -> Places] /\ link \in [Accounts -> People \cup {Nobody}]
      /\ work[h] \in Works /\ directory \in Listings
  BY ServeFootprint, ServeArrives, DirectoryStep
  DEF OrgInv, ChoiceInv, HandlesInv, DirectoryInv, TypeInv, TypeOK, Next
<1>2. \A a \in Accounts : link[a] # Nobody => IsLinked(link[a])
  BY HostsOfAccounts DEF IsLinked, Linked, Hosts
\* A request that writes, writes a member's row over a member's, or a new one.
<1>3. \A p \in DOMAIN directory' :
         IF p \in DOMAIN directory THEN directory'[p].role = directory[p].role
         ELSE directory'[p].role = "member"
  <2>1. CASE Create(h) \/ WriteRow(h)
    <3>1. PICK row : /\ row.role = "member" /\ directory' = Put(work[h].person, row)
      BY <2>1 DEF Create, WriteRow, Row, Unclaimed
    <3>2. IsLinked(work[h].person)
      BY <1>1, <1>2, <2>1 DEF Create, WriteRow, WorkSound
    <3> QED
      BY <3>1, <3>2 DEF Put, Unclaimed
  <2>2. CASE ~Create(h) /\ ~WriteRow(h)
    <3>1. directory' = directory
      BY <2>2 DEF Serve, Resolve, List, Match, Admit, Refuse, ClaimedElsewhere, Link, Refresh,
                  ReadRow, Crash, stores
    <3> QED
      BY <3>1
  <2> QED
    BY <2>1, <2>2
\* What it holds keeps to what there is.
<1>4. ASSUME NEW k \in Handlers
      PROVE  /\ ~Cap(k)'
             /\ \A p \in DOMAIN work'[k].listed : work'[k].listed[p].role = directory'[p].role
             /\ pc'[k] \in {"matching", "admitting", "linking", "losing", "creating"}
                  => DOMAIN work'[k].listed # {}
             /\ pc'[k] = "linking" /\ work'[k].adopted = Nobody => work'[k].role = "member"
             /\ pc'[k] \in {"losing", "creating"} => work'[k].role = "member"
             /\ pc'[k] = "writing" => work'[k].row.role = "member"
  <2>1. CASE k # h
    <3>1. pc'[k] = pc[k] /\ work'[k] = work[k] /\ WorkSound(k)
      BY <1>1, <2>1 DEF Footprint, DirectoryInv
    <3>2. \A p \in DOMAIN work'[k].listed : work'[k].listed[p].role = directory'[p].role
      BY <1>1, <1>3, <3>1 DEF Unclaimed, WorkSound, Footprint
    <3> QED
      BY <3>1, <3>2 DEF Unclaimed, Cap
  <2>2. CASE k = h
    <3>1. ~Cap(h)'
      <4>1. ~HasLinkedAdmin(work[h].listed)
        BY <1>1 DEF HasLinkedAdmin, Unclaimed, WorkSound
      <4> QED
        BY <4>1, CapStep DEF Unclaimed
    <3>2. work'[h].listed = work[h].listed \/ DOMAIN work'[h].listed = {}
          \/ work'[h].listed = directory
      BY <1>1, <2>2 DEF Arrived, DirectoryInv, TypeInv, TypeOK, Places
    <3>3. \A p \in DOMAIN work'[h].listed : work'[h].listed[p].role = directory'[p].role
      BY <1>1, <1>3, <3>2 DEF Unclaimed, WorkSound, Footprint
    <3>4. pc'[h] \in {"matching", "admitting", "linking", "losing", "creating"}
                  => DOMAIN work'[h].listed # {}
      <4>1. pc'[h] \in {"admitting", "linking", "losing", "creating"} =>
              pc[h] \in {"matching", "admitting", "linking", "losing"}
              /\ work'[h].listed = work[h].listed
        BY <1>1 DEF Arrived, Match, Admit, Link, Goto, Reply
      <4> QED
        BY <1>1, <4>1 DEF Arrived, Unclaimed
    <3>5. pc'[h] = "linking" /\ work'[h].adopted = Nobody => work'[h].role = "member"
      <4>1. ASSUME pc'[h] = "linking", work'[h].adopted = Nobody PROVE work'[h].role = "member"
        <5>1. pc[h] = "admitting" /\ work[h].adopted = Nobody /\ work'[h].role = DecidedRole(work[h])
          BY <1>1, <4>1 DEF Arrived, Admit, Goto
        <5> QED
          BY <5>1 DEF DecidedRole, Unclaimed
      <4> QED
        BY <4>1
    <3>6. pc'[h] \in {"losing", "creating"} => work'[h].role = "member"
      <4>1. pc'[h] \in {"losing", "creating"} =>
              /\ work'[h].role = work[h].role
              /\ pc[h] = "losing" \/ (pc[h] = "linking" /\ work[h].adopted = Nobody)
        BY <1>1, LosersTakeNothing DEF Arrived, Link, Goto, Reply, OrgInv
      <4> QED
        BY <4>1 DEF Unclaimed
    <3>7. pc'[h] = "writing" => work'[h].row.role = "member"
      <4>1. ASSUME pc'[h] = "writing" PROVE work'[h].row.role = "member"
        <5>1. /\ pc[h] = "updating" /\ work[h].person \in DOMAIN directory
              /\ work'[h].row.role = IF work[h].adopted = Nobody
                                       THEN directory[work[h].person].role ELSE work[h].role
          BY <1>1, <4>1 DEF Arrived, ReadRow, Goto
        <5>2. work[h].adopted = Nobody
          BY <1>1, <5>1 DEF Capping, Unclaimed
        <5>3. IsLinked(work[h].person)
          BY <1>1, <1>2, <5>1 DEF WorkSound
        <5> QED
          BY <5>1, <5>2, <5>3 DEF Unclaimed
      <4> QED
        BY <4>1
    <3> QED
      BY <2>2, <3>1, <3>3, <3>4, <3>5, <3>6, <3>7
  <2> QED
    BY <2>1, <2>2
\* Whoever is linked was, or is whom it has just linked.
<1>5. CASE \A p \in DOMAIN directory' : IsLinked(p)' => directory'[p].role = "member"
  <2>1. \E p \in DOMAIN directory' : directory'[p].role = "admin"
    BY <1>1, <1>3 DEF Unclaimed, Footprint
  <2> QED
    BY <1>4, <1>5, <2>1 DEF Unclaimed
<1>6. ASSUME NEW p \in DOMAIN directory', IsLinked(p)', directory'[p].role # "member"
      PROVE  SafeAdmin(p)'
  <2>1. p \in DOMAIN directory /\ directory'[p].role = "admin"
    <3>1. directory' \in Listings
      BY <1>1 DEF DirectoryInv, TypeInv
    <3> QED
      BY <1>3, <1>6, <3>1, ListingsAre DEF Rows
  <2>2. ~IsLinked(p) /\ p # Nobody
    <3>1. directory[p].role = "admin"
      BY <1>3, <2>1
    <3> QED
      BY <1>1, <2>1, <3>1, ListingsAre, BoundsAreNat DEF Unclaimed, People, Nobody
  <2>3. \A a \in Accounts : link[a] # p
    BY <1>2, <2>2
  <2>4. PICK a \in Accounts : link'[a] = p
    BY <1>6 DEF IsLinked, Linked
  <2>5. Link(h)
    <3>1. link' # link
      BY <2>3, <2>4
    <3> QED
      BY <3>1 DEF Serve, Resolve, List, Match, Admit, Refuse, ClaimedElsewhere, Create, Refresh,
                  ReadRow, WriteRow, Crash, stores
  <2>6. ASSUME NEW k \in Handlers, work'[k].person = p
        PROVE  pc'[k] \notin {"creating", "writing"}
    <3>1. CASE k # h
      BY <1>1, <2>3, <2>6, <3>1 DEF Footprint, DirectoryInv, WorkSound
    <3>2. CASE k = h
      <4>1. pc'[h] # "writing"
        BY <1>1, <2>5 DEF Arrived, ReadRow, Link, Goto, Reply
      <4>2. ASSUME pc'[h] = "creating" PROVE FALSE
        <5>1. Mine(h) /\ work[h].person = p
          BY <1>1, <2>5, <2>6, <3>2, <4>2 DEF Arrived, WorkSound, Link, ClaimedElsewhere, Goto, Reply
        <5> QED
          BY <2>1, <5>1 DEF Mine
      <4> QED
        BY <3>2, <4>1, <4>2
    <3> QED
      BY <3>1, <3>2
  <2> QED
    BY <1>4, <1>6, <2>1, <2>6 DEF SafeAdmin
<1> QED
  BY <1>5, <1>6

\* A step leaves the org founding, unclaimed, or with an admin who is linked,
\* until two requests cross or a name moves under one.
LEMMA OrgStep == OrgInv /\ [Next]_vars => OrgInv'
<1> SUFFICES ASSUME OrgInv, [Next]_vars PROVE OrgInv'
  OBVIOUS
<1>1. ChoiceInv /\ ChoiceInv'
  BY ChoiceStep DEF OrgInv
<1>2. ASSUME NEW h \in Handlers, Serve(h) \/ Crash(h) PROVE OrgInv'
  <2>1. \A k \in Handlers : Established(k)' /\ Capping(k)'
    BY <1>2, ReadsStand
  <2>2. moved' = moved /\ (crossed => crossed')
    <3>1. moved' = moved
      BY <1>1, <1>2, ServeFootprint DEF ChoiceInv, HandlesInv, Footprint
    <3>2. crossed' = crossed \/ \E h1 \in Handlers : crossed' = (crossed \/ Crossing(work[h1]))
      BY <1>2 DEF Serve, Resolve, List, Match, Admit, Refuse, Link, ClaimedElsewhere, Create,
                  Refresh, ReadRow, WriteRow, Crash, Unchanged, history
    <3>3. crossed => crossed'
      BY <3>2, Zenon
    <3> QED
      BY <3>1, <3>3, Zenon
  <2>3. CASE crossed' \/ moved' # {}
    BY <1>1, <2>1, <2>3 DEF OrgInv
  <2>4. CASE ~crossed' /\ moved' = {}
    <3>1. Founding \/ Unclaimed \/ \E p \in DOMAIN directory : SafeAdmin(p)
      BY <2>2, <2>4 DEF OrgInv
    <3>2. ASSUME NEW p \in DOMAIN directory, SafeAdmin(p)
          PROVE  p \in DOMAIN directory' /\ SafeAdmin(p)'
      BY <1>2, <2>4, <3>2, SafeStays DEF SafeAdmin
    <3>3. (Founding \/ Unclaimed \/ \E p \in DOMAIN directory : SafeAdmin(p))'
      BY <1>2, <2>2, <2>4, <3>1, <3>2, FoundingStep, UnclaimedStep
    <3> QED
      BY <1>1, <2>1, <3>3 DEF OrgInv
  <2> QED
    BY <2>3, <2>4
<1>3. ASSUME UNCHANGED <<directory, link, pc, work, crossed>>, moved \subseteq moved' PROVE OrgInv'
  <2>1. \A h \in Handlers : Established(h)' /\ Capping(h)'
    BY <1>3 DEF OrgInv, Established, Capping, Cap, IsLinked, Linked
  <2>2. \A h \in Handlers : Cap(h)' <=> Cap(h)
    BY <1>3 DEF Cap
  <2>3. \A p : IsLinked(p)' <=> IsLinked(p)
    BY <1>3 DEF IsLinked, Linked
  <2>4. Founding => Founding'
    BY <1>3 DEF Founding
  <2>5. Unclaimed => Unclaimed'
    BY <1>3, <2>2, <2>3 DEF Unclaimed
  <2>6. \A p : SafeAdmin(p) => SafeAdmin(p)'
    BY <1>3, <2>2, <2>3 DEF SafeAdmin
  <2>7. (crossed \/ moved # {} \/ Founding \/ Unclaimed
            \/ \E p \in DOMAIN directory : SafeAdmin(p))'
    BY <1>3, <2>4, <2>5, <2>6 DEF OrgInv
  <2> QED
    BY <1>1, <2>1, <2>7 DEF OrgInv
<1>4. ASSUME NEW a \in Accounts, Rename(a) PROVE OrgInv'
  BY <1>3, <1>4 DEF Rename, stores
<1>5. CASE UNCHANGED vars
  BY <1>3, <1>5 DEF vars, stores, history
<1> QED
  BY <1>2, <1>4, <1>5 DEF Next

\* An org nobody is in is founded by the first to come; one with people has the
\* admin who registered them.
LEMMA OrgInit == Init => OrgInv
<1> SUFFICES ASSUME Init PROVE OrgInv
  OBVIOUS
<1>1. HandlesInv /\ \A a \in Accounts : link[a] = Nobody
  BY HandlesInit DEF Init
<1>2. \A h \in Handlers : pc[h] = "idle" /\ work[h] = NoWork
  BY DEF Init
<1>3. \A p \in DOMAIN directory : p # Nobody
  BY <1>1, ListingsAre, BoundsAreNat DEF HandlesInv, DirectoryInv, TypeInv, People, Nobody
<1>4. directory \in Directories
  BY DEF Init
<1>5. Distinct
  BY <1>4 DEF Directories, Distinct
<1>6. ChoiceInv
  BY <1>1, <1>2, <1>5 DEF ChoiceInv, Registered, Passed, Overtaken, OnItsWay
<1>7. \A h \in Handlers : Established(h) /\ Capping(h) /\ ~Cap(h)
  BY <1>2 DEF Established, Capping, Cap
<1>8. \A p \in DOMAIN directory : ~IsLinked(p)
  BY <1>1, <1>3 DEF IsLinked, Linked
<1>9. \A h \in Handlers : DOMAIN work[h].listed = {}
  BY <1>2, RowsAre
<1>10. Founding \/ Unclaimed
  <2>1. CASE DOMAIN directory = {}
    BY <1>2, <1>9, <2>1 DEF Founding
  <2>2. CASE DOMAIN directory # {}
    <3>1. \E p \in DOMAIN directory : directory[p].role = "admin"
      BY <1>4, <2>2 DEF Directories
    <3> QED
      BY <1>2, <1>7, <1>8, <1>9, <3>1 DEF Unclaimed
  <2> QED
    BY <2>1, <2>2
<1> QED
  BY <1>6, <1>7, <1>10 DEF OrgInv

\* docs/orgs.md:192-200: however many people sign in at one time, an org loses its
\* last admin only to two requests that crossed, or to a name that moved under one.
THEOREM OrgNeverWithoutAdmin == Spec => []OrgKeepsAdmin
<1>1. OrgInv => OrgKeepsAdmin
  BY DEF OrgInv, OrgKeepsAdmin, OrgHasAdmin, Founding, Unclaimed, SafeAdmin
<1> QED
  BY <1>1, OrgInit, OrgStep, PTL DEF Spec
=============================================================================
