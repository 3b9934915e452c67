---------------------------- MODULE MCRiskApproval ----------------------------
(* Small instances of RiskApproval for TLC. *)
EXTENDS RiskApproval, TLC

CONSTANTS d1, d2, i1, i2

OneDriver == {d1}
TwoDrivers == {d1, d2}
OneIntake == {i1}
TwoIntakes == {i1, i2}
GitHub == {"github"}
BothHosts == {"github", "gitlab"}

\* Drivers and intakes are interchangeable: for the safety runs only.
ActorSymmetry == Permutations(Drivers) \cup Permutations(Intakes)

\* What of an actor's memory it may still use, and of a revision whether it is
\* the row's: for the largest safety run only.
Current(r) == [r EXCEPT !.revision = IF @ = row.revision THEN 1 ELSE 0]
HeldView(a) ==
  IF pc[a] \in {"idle", "delivered", "received", "starting"} THEN <<>> ELSE Current(held[a])
NextView(d) ==
  IF pc[d] \in {"claiming", "scored", "saving", "retracting", "taking_back"}
    THEN [next[d] EXCEPT !.revision = 0] ELSE <<>>
SeenView(d) == IF pc[d] \in {"scoring", "advancing"} THEN seen[d] ELSE <<>>
WasOpenView(i) == pc[i] \in {"received", "withdrawing", "reopening"} /\ wasOpen[i]

View ==
  <<site, head, approvals, given, board, runs, Current(row), starts, announced, pc, requests, crashes,
    [a \in Actors |-> HeldView(a)], [d \in Drivers |-> NextView(d)],
    [d \in Drivers |-> SeenView(d)], [i \in Intakes |-> WasOpenView(i)]>>
=============================================================================
