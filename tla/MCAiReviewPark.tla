----------------------------- MODULE MCAiReviewPark -----------------------------
(* Small instances of AiReviewPark for TLC. *)
EXTENDS AiReviewPark, TLC

CONSTANTS r1, r2, p1, p2

OneRun == {r1}
TwoRuns == {r1, r2}
OnePoller == {p1}
TwoPollers == {p1, p2}
=============================================================================
