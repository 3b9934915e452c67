------------------------- MODULE MCAiReviewAdmission -------------------------
(* Small instances of AiReviewAdmission for TLC. *)
EXTENDS AiReviewAdmission, TLC

CONSTANTS r1, r2, r3, r4

ThreeRequests == {r1, r2, r3}
FourRequests == {r1, r2, r3, r4}

\* Requests are interchangeable: for the safety run only.
RequestSymmetry == Permutations(Requests)
=============================================================================
