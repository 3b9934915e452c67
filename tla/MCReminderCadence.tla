--------------------------- MODULE MCReminderCadence ---------------------------
(* A small instance of ReminderCadence for TLC. *)
EXTENDS ReminderCadence, TLC

CONSTANTS ann, bo

MCReviewers == {ann, bo}
MCDeadlines == {NoTime, 1}

ReviewerSymmetry == Permutations(Reviewers)
=============================================================================
