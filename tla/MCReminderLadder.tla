---------------------------- MODULE MCReminderLadder ----------------------------
(* Small instances of ReminderLadder for TLC. *)
EXTENDS ReminderLadder, TLC

CONSTANTS m1, m2, m3, m4, m5, c1, c2, h1

ThreeReminders == {m1, m2, m3}
FourReminders == {m1, m2, m3, m4}
FiveReminders == {m1, m2, m3, m4, m5}
OneClock == {c1}
TwoClocks == {c1, c2}
OneHandler == {h1}
NoActors == {}
NoGestures == {}
AllGestures == GestureKinds
VerdictsOnly == {"resolve"}

\* Rows and actors are interchangeable: for the safety runs only.
LadderSymmetry == Permutations(Reminders) \cup Permutations(Clocks) \cup Permutations(Handlers)
=============================================================================
