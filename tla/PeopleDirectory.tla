---------------------------- MODULE PeopleDirectory ----------------------------
(***************************************************************************)
(* The person behind a host account: PeopleService, the enrolment decision *)
(* of the reviewers package, and the two stores they share, the directory  *)
(* of people and the claims of accounts on them.                           *)
(*                                                                         *)
(* A request names an account, by its stable subject and by the name it    *)
(* has on the host at that moment, and is answered with a person. It runs  *)
(* on a GET, and one page load sends three of them. Every await is a point *)
(* where others run, and where the process may die.                        *)
(***************************************************************************)
EXTENDS Integers, FiniteSets

CONSTANTS
  Accounts,       \* host accounts, by subject
  HostOf,         \* the host of each
  Names,          \* the names there are, on any host
  Handlers,       \* requests being handled at one time
  MaxRegistered,  \* how many people an admin may have registered beforehand
  MaxGestures     \* bound on requests, renames and deaths together

ASSUME HostsOfAccounts == HostOf \in [Accounts -> {"github", "gitlab"}]
ASSUME ActorsFinite == IsFiniteSet(Accounts) /\ IsFiniteSet(Handlers)
ASSUME NamesAreNotNull == "none" \notin Names
ASSUME BoundsAreNat == MaxRegistered \in Nat /\ MaxGestures \in Nat

VARIABLES
  name,       \* the name an account has on its host
  enrolment,  \* the org's: "invite" or "open"
  directory,  \* the rows of the people there are
  link,       \* whose account it is: the claims, by account
  pc, work,   \* where each request is, and what it holds
  answers,    \* history: what the requests of an account were answered
  moved,      \* history: accounts that took another name with a request on its way to its claim
  crossed,    \* history: whether the second read of a request alone found the row it may take linked
  stranded,   \* history: accounts a request of which died between its claim and its row
  gestures    \* requests, renames and deaths so far

stores == <<directory, link>>
history == <<moved, crossed, stranded>>
vars == <<name, enrolment, stores, pc, work, answers, history, gestures>>

Hosts == {"github", "gitlab"}
\* As many ids as may be in use at once, and one to spare.
People == 1 .. MaxRegistered + Cardinality(Accounts) + Cardinality(Handlers) + 1
Nobody == 0
Refused == -1   \* a ForbiddenError
Missing == -2   \* a NotFoundError: there is no such person
NoName == "none"    \* null: no handle on that host
NoAccount == "none"

NO_VCS_HANDLES == [h \in Hosts |-> NoName]
Rows == [handles : [Hosts -> Names \cup {NoName}], role : {"admin", "member"}]
Row(handles, role) == [handles |-> handles, role |-> role]

\* What a request holds: the account and its name, whether another authority
\* vouches for it, and of its reads the directory, the row it may take, the role
\* decided and the row to be written.
NoWork ==
  [account |-> NoAccount, name |-> NoName, trusted |-> FALSE,
   listed |-> <<>>, adopted |-> Nobody, established |-> FALSE,
   role |-> "member", person |-> Nobody, row |-> Row(NO_VCS_HANDLES, "member")]

\* People an admin registered: an org that is not empty was founded by
\* somebody, so one of them is an admin.
Directories ==
  {d \in UNION {[1 .. n -> Rows] : n \in 0 .. MaxRegistered} :
     /\ DOMAIN d # {} => \E p \in DOMAIN d : d[p].role = "admin"
     /\ \A p \in DOMAIN d : d[p].handles # NO_VCS_HANDLES
     /\ \A p, q \in DOMAIN d, h \in Hosts :
          p # q /\ d[p].handles[h] = d[q].handles[h] => d[p].handles[h] = NoName}

\* No two accounts of one host have one name.
NamesOneEach(n) ==
  \A a, b \in Accounts : a # b /\ HostOf[a] = HostOf[b] => n[a] # n[b]

Init ==
  /\ name \in {n \in [Accounts -> Names] : NamesOneEach(n)}
  /\ enrolment \in {"invite", "open"}
  /\ directory \in Directories
  /\ link = [a \in Accounts |-> Nobody]
  /\ pc = [h \in Handlers |-> "idle"] /\ work = [h \in Handlers |-> NoWork]
  /\ answers = [a \in Accounts |-> {}]
  /\ moved = {} /\ crossed = FALSE /\ stranded = {}
  /\ gestures = 0

-----------------------------------------------------------------------------
(* The stores, and the decision. *)

Linked(p, host) == \E a \in Accounts : link[a] = p /\ HostOf[a] = host
IsLinked(p) == \E host \in Hosts : Linked(p, host)

HasLinkedAdmin(listed) == \E p \in DOMAIN listed : listed[p].role = "admin" /\ IsLinked(p)

\* ids.next(): nobody's.
NewPerson ==
  CHOOSE p \in People \ 1 .. MaxRegistered :
    /\ p \notin DOMAIN directory
    /\ \A a \in Accounts : link[a] # p
    /\ \A h \in Handlers : work[h].person # p

Put(p, row) == [q \in DOMAIN directory \cup {p} |-> IF q = p THEN row ELSE directory[q]]

\* MUTANT: a second account is capped like a stranger.
DecidedRoleCapped(w) ==
  IF \/ DOMAIN w.listed = {}
     \/ /\ w.adopted # Nobody /\ w.listed[w.adopted].role = "admin"
        /\ ~HasLinkedAdmin(w.listed)
    THEN "admin" ELSE "member"

\* decideEnrolment: who is admitted, and as what.
Admitted(w) ==
  DOMAIN w.listed = {} \/ w.adopted # Nobody \/ w.trusted \/ enrolment = "open"

DecidedRole(w) ==
  IF \/ DOMAIN w.listed = {}
     \/ /\ w.adopted # Nobody /\ w.listed[w.adopted].role = "admin"
        /\ w.established \/ ~HasLinkedAdmin(w.listed)
    THEN "admin" ELSE "member"

-----------------------------------------------------------------------------
(* A request. *)

Gesture == gestures < MaxGestures /\ gestures' = gestures + 1

Goto(h, from, to) == pc[h] = from /\ pc' = [pc EXCEPT ![h] = to]

Unchanged == UNCHANGED <<name, enrolment, history, gestures>>

\* The request is through: it was answered with a person, or refused.
Reply(h, answer) ==
  /\ pc' = [pc EXCEPT ![h] = "idle"]
  /\ work' = [work EXCEPT ![h] = NoWork]
  /\ answers' = [answers EXCEPT ![work[h].account] = @ \cup {answer}]

\* resolve: an account already linked is not asked about again.
Resolve(h) ==
  /\ Gesture
  /\ \E a \in Accounts, trusted \in BOOLEAN :
       /\ Goto(h, "idle", IF link[a] = Nobody THEN "listing" ELSE "refreshing")
       /\ work' = [work EXCEPT ![h] = [NoWork EXCEPT !.account = a, !.name = name[a],
                                         !.trusted = trusted, !.person = link[a]]]
  /\ UNCHANGED <<name, enrolment, stores, answers, history>>

List(h) ==
  /\ Goto(h, "listing", "matching")
  /\ work' = [work EXCEPT ![h].listed = directory]
  /\ Unchanged /\ UNCHANGED <<stores, answers>>

Matching(w) == {p \in DOMAIN w.listed : w.listed[p].handles[HostOf[w.account]] = w.name}

\* MUTANT: whoever has the name may take the row.
MatchLinked(h) ==
  /\ Goto(h, "matching", "admitting")
  /\ \/ \E p \in Matching(work[h]) :
          work' = [work EXCEPT ![h].adopted = p, ![h].established = IsLinked(p)]
     \/ Matching(work[h]) = {} /\ UNCHANGED work
  /\ Unchanged /\ UNCHANGED <<stores, answers>>

\* adoptable: a row registered for the name, and not linked on this host. Links
\* are never taken back, so those passed over are as linked by the last read.
Match(h) ==
  /\ Goto(h, "matching", "admitting")
  /\ LET free == {p \in Matching(work[h]) : ~Linked(p, HostOf[work[h].account])} IN
       \/ \E p \in free :
            work' = [work EXCEPT ![h].adopted = p, ![h].established = IsLinked(p)]
       \/ free = {} /\ UNCHANGED work
  /\ Unchanged /\ UNCHANGED <<stores, answers>>

\* The row it may take was not linked when it was found, and is by now.
Crossing(w) == w.adopted # Nobody /\ ~w.established /\ IsLinked(w.adopted)

Admit(h) ==
  /\ Admitted(work[h])
  /\ Goto(h, "admitting", "linking")
  /\ work' = [work EXCEPT
       ![h].role = DecidedRole(work[h]),
       ![h].person = IF work[h].adopted # Nobody THEN work[h].adopted ELSE NewPerson]
  /\ crossed' = (crossed \/ Crossing(work[h]))
  /\ UNCHANGED <<name, enrolment, stores, answers, moved, stranded, gestures>>

Refuse(h) ==
  /\ ~Admitted(work[h])
  /\ pc[h] = "admitting" /\ Reply(h, Refused)
  /\ Unchanged /\ UNCHANGED stores

\* MUTANT: the last to land owns the account.
ClaimAnyway(h) == work[h].person

\* The store's link: the first to land owns the account, the others are told.
Claim(h) ==
  IF link[work[h].account] = Nobody THEN work[h].person ELSE link[work[h].account]

Link(h) ==
  /\ pc[h] = "linking"
  /\ link' = [link EXCEPT ![work[h].account] = Claim(h)]
  /\ LET w == work[h]
         mine == Claim(h) = w.person IN
       \/ /\ mine /\ w.adopted # Nobody /\ w.listed[w.adopted].role = w.role
          /\ Reply(h, w.person)
       \/ /\ mine /\ w.adopted # Nobody /\ w.listed[w.adopted].role # w.role
          /\ Goto(h, "linking", "updating")
          /\ UNCHANGED <<work, answers>>
       \/ /\ mine /\ w.adopted = Nobody
          /\ Goto(h, "linking", "creating")
          /\ UNCHANGED <<work, answers>>
       \/ /\ ~mine
          /\ Goto(h, "linking", "losing")
          /\ work' = [work EXCEPT ![h].person = Claim(h), ![h].adopted = Nobody]
          /\ UNCHANGED answers
  /\ Unchanged /\ UNCHANGED directory

\* claimedElsewhere: the row of whoever won, or the row the winner has not
\* written yet.
ClaimedElsewhere(h) ==
  /\ \/ /\ work[h].person \in DOMAIN directory
        /\ pc[h] = "losing" /\ Reply(h, work[h].person)
     \/ /\ work[h].person \notin DOMAIN directory
        /\ Goto(h, "losing", "creating")
        /\ UNCHANGED <<work, answers>>
  /\ Unchanged /\ UNCHANGED stores

Create(h) ==
  /\ pc[h] = "creating"
  /\ directory' = Put(work[h].person,
       Row([NO_VCS_HANDLES EXCEPT ![HostOf[work[h].account]] = work[h].name], work[h].role))
  /\ Reply(h, work[h].person)
  /\ Unchanged /\ UNCHANGED link

\* refresh: the row of a linked account, its handle brought up to date.
Refresh(h) ==
  /\ \/ /\ work[h].person \in DOMAIN directory
        /\ LET handles == directory[work[h].person].handles IN
             \/ /\ handles[HostOf[work[h].account]] = work[h].name
                /\ pc[h] = "refreshing" /\ Reply(h, work[h].person)
             \/ /\ handles[HostOf[work[h].account]] # work[h].name
                /\ Goto(h, "refreshing", "updating")
                /\ work' = [work EXCEPT ![h].row.handles =
                              [handles EXCEPT ![HostOf[work[h].account]] = work[h].name]]
                /\ UNCHANGED answers
     \/ /\ work[h].person \notin DOMAIN directory
        /\ pc[h] = "refreshing" /\ Reply(h, Missing)
  /\ Unchanged /\ UNCHANGED stores

\* The store's update: the row is read, the patch set in it, and the whole row
\* written. A refresh patches the handles, an adoption the role.
ReadRow(h) ==
  /\ work[h].person \in DOMAIN directory
  /\ Goto(h, "updating", "writing")
  /\ work' = [work EXCEPT ![h].row =
       IF work[h].adopted = Nobody THEN Row(@.handles, directory[work[h].person].role)
       ELSE Row(directory[work[h].person].handles, work[h].role)]
  /\ Unchanged /\ UNCHANGED <<stores, answers>>

WriteRow(h) ==
  /\ pc[h] = "writing"
  /\ directory' = Put(work[h].person, work[h].row)
  /\ Reply(h, work[h].person)
  /\ Unchanged /\ UNCHANGED link

-----------------------------------------------------------------------------
(* What happens around the requests. *)

\* Between the claim of an account and the row it points at.
MidClaim(h) == pc[h] \in {"losing", "creating"}

\* The process of a request dies, or a store refuses its next call.
Crash(h) ==
  /\ Gesture
  /\ pc[h] # "idle"
  /\ pc' = [pc EXCEPT ![h] = "idle"] /\ work' = [work EXCEPT ![h] = NoWork]
  /\ stranded' = IF MidClaim(h) THEN stranded \cup {work[h].account} ELSE stranded
  /\ UNCHANGED <<name, enrolment, stores, answers, moved, crossed>>

\* A first request on its way to its claim.
OnItsWay(h) == pc[h] \in {"listing", "matching", "admitting", "linking"}

\* Somebody takes another name on the host, one nobody has there any more. The
\* requests on their way keep the old one.
Rename(a) ==
  /\ Gesture
  /\ \E n \in Names \ {name[a]} : name' = [name EXCEPT ![a] = n]
  /\ NamesOneEach(name')
  /\ moved' = IF \E h \in Handlers : OnItsWay(h) /\ work[h].account = a
                THEN moved \cup {a} ELSE moved
  /\ UNCHANGED <<enrolment, stores, pc, work, answers, crossed, stranded>>

Serve(h) ==
  \/ Resolve(h) \/ List(h) \/ Match(h) \/ Admit(h) \/ Refuse(h) \/ Link(h)
  \/ ClaimedElsewhere(h) \/ Create(h) \/ Refresh(h) \/ ReadRow(h) \/ WriteRow(h)

Next ==
  \/ \E h \in Handlers : Serve(h) \/ Crash(h)
  \/ \E a \in Accounts : Rename(a)

Spec == Init /\ [][Next]_vars

-----------------------------------------------------------------------------
(* Properties. *)

Places ==
  {"idle", "listing", "matching", "admitting", "linking", "losing", "creating",
   "refreshing", "updating", "writing"}

\* The variables keep their types.
TypeOK ==
  /\ name \in [Accounts -> Names] /\ enrolment \in {"invite", "open"}
  /\ DOMAIN directory \subseteq People /\ \A p \in DOMAIN directory : directory[p] \in Rows
  /\ link \in [Accounts -> People \cup {Nobody}]
  /\ pc \in [Handlers -> Places]
  /\ answers \in [Accounts -> SUBSET (People \cup {Refused, Missing})]
  /\ moved \subseteq Accounts /\ stranded \subseteq Accounts /\ crossed \in BOOLEAN
  /\ gestures \in 0 .. MaxGestures

Quiet == \A h \in Handlers : pc[h] = "idle"

\* PeopleService.ts:118-127: however many first requests of an account race,
\* one person comes of it. They are answered with that person or not at all, no
\* row stands that no account names, and once they are through the row is there,
\* unless one of them died after its claim.
OnePersonEach ==
  /\ \A a \in Accounts : answers[a] \cap People \subseteq {link[a]}
  /\ \A p \in DOMAIN directory : p > MaxRegistered => IsLinked(p)
  /\ Quiet => \A a \in Accounts \ stranded : link[a] # Nobody => link[a] \in DOMAIN directory

\* docs/orgs.md:192-200, "an org with a board, a directory and a Configuration
\* screen nobody on the deployment could open, and no route that could fix it":
\* no sign-in, first or second, of one account or two, takes the last admin away.
OrgHasAdmin == DOMAIN directory # {} => \E p \in DOMAIN directory : directory[p].role = "admin"

\* What the code keeps of it: an org loses its last admin only to a request that
\* counted the row it was about to take among the admins who had signed in, or to
\* an account whose requests came to the directory under two names.
OrgKeepsAdmin == ~crossed /\ moved = {} => OrgHasAdmin

\* PeopleService.ts:153-158: whoever holds a name today does not inherit the row
\* of the account that proved itself against it, however names move: of two
\* accounts of one host with one row, one changed its name in mid request.
OneAccountPerHost ==
  \A a, b \in Accounts \ moved :
    link[a] # Nobody /\ link[a] = link[b] /\ HostOf[a] = HostOf[b] => a = b

\* docs/orgs.md:211, "a registered handle does not confer `admin' twice": when
\* all is quiet one admin at most came in by signing in.
AdminOnce ==
  Quiet =>
    \A p, q \in DOMAIN directory :
      directory[p].role = "admin" /\ IsLinked(p) /\ directory[q].role = "admin" /\ IsLinked(q)
        => p = q

\* PeopleService.ts:246-248: no request is answered with a person there is no row of.
NoneMissing == \A a \in Accounts : Missing \notin answers[a]
=============================================================================
