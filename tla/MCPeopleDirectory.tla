---------------------------- MODULE MCPeopleDirectory ----------------------------
(* Small instances of PeopleDirectory for TLC. *)
EXTENDS PeopleDirectory, TLC

CONSTANTS a1, a2, b1, ada, bob, eve, h1, h2

\* Two accounts on one host and one on the other.
ThreeAccounts == {a1, a2, b1}
HostOfThree == a1 :> "github" @@ a2 :> "github" @@ b1 :> "gitlab"
ThreeNames == {ada, bob, eve}
TwoNames == {ada, bob}
OneHandler == {h1}
TwoHandlers == {h1, h2}

\* Handlers, names, and the two accounts of one host are interchangeable.
Symmetry == Permutations(Handlers) \cup Permutations(Names) \cup Permutations({a1, a2})

\* What of its reads a request may still use where it stands, and of the answers
\* the people: the rest tells no two futures apart.
ListedView(w, host) ==
  [p \in DOMAIN w.listed |-> <<w.listed[p].role, w.listed[p].handles[host]>>]
WorkView(h) ==
  LET w == work[h]
      may == w.trusted \/ enrolment = "open"
  IN
  CASE pc[h] = "idle" -> <<>>
    [] pc[h] = "listing" -> <<w.account, w.name, may>>
    [] pc[h] = "matching" -> <<w.account, w.name, may, ListedView(w, HostOf[w.account])>>
    [] pc[h] = "admitting" ->
         <<w.account, w.name, may, w.adopted, w.established, DOMAIN w.listed,
           {p \in DOMAIN w.listed : w.listed[p].role = "admin"}>>
    [] pc[h] = "linking" ->
         <<w.account, w.name, w.role, w.person, w.adopted,
           IF w.adopted = Nobody THEN w.role ELSE w.listed[w.adopted].role>>
    [] pc[h] \in {"losing", "creating"} -> <<w.account, w.name, w.role, w.person>>
    [] pc[h] = "refreshing" -> <<w.account, w.name, w.person>>
    [] pc[h] \in {"updating", "writing"} -> <<w.account, w.person, w.adopted, w.role, w.row>>

View ==
  <<name, enrolment, stores, pc, [h \in Handlers |-> WorkView(h)],
    [a \in Accounts |-> answers[a] \cap People], history, gestures>>
=============================================================================
