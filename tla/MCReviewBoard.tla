----------------------------- MODULE MCReviewBoard -----------------------------
(* Small instances of ReviewBoard for TLC. *)
EXTENDS ReviewBoard, TLC

CONSTANTS payments, billing, ann, bo, left, right

MCReviews == {payments, billing}
OneReview == {payments}
MCReviewers == {ann, bo}
MCHandlers == {left, right}
OneHandler == {left}

BoardSymmetry == Permutations(Reviews) \cup Permutations(Reviewers) \cup Permutations(Handlers)
=============================================================================
