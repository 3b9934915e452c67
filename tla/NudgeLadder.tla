------------------------------ MODULE NudgeLadder ------------------------------
(***************************************************************************)
(* What the clocks promise about one review nobody else touches: one nudge *)
(* after another, as if a single sender worked the ladder and never died   *)
(* between two of its steps. ReminderLadder's clocks implement it.         *)
(***************************************************************************)
EXTENDS Integers

CONSTANT Nudges  \* how many nudges the policy asks for

VARIABLES
  hand,    \* the one nudge there is: planned, claimed, or none
  posted,  \* whether the claimed one reached the chat
  sent,    \* how many nudges are recorded as sent
  stopped  \* whether one was refused, which ends the ladder

vars == <<hand, posted, sent, stopped>>

Init == hand = "planned" /\ posted = FALSE /\ sent = 0 /\ stopped = FALSE

Claim ==
  /\ hand = "planned" /\ hand' = "claimed"
  /\ UNCHANGED <<posted, sent, stopped>>

\* At most once for a claim.
Post ==
  /\ hand = "claimed" /\ ~posted
  /\ posted' = TRUE
  /\ UNCHANGED <<hand, sent, stopped>>

LetGo == hand = "claimed" /\ hand' = "none" /\ posted' = FALSE

\* Nothing is recorded as sent that did not go out.
Settle == LetGo /\ posted /\ sent' = sent + 1 /\ UNCHANGED stopped

Refuse == LetGo /\ stopped' = TRUE /\ UNCHANGED sent

\* Its sender died, and whether it went out is not known.
Abandon == LetGo /\ UNCHANGED <<sent, stopped>>

\* The next one only when there is none, and never past a refusal.
Plan ==
  /\ hand = "none" /\ hand' = "planned"
  /\ sent < Nudges /\ ~stopped
  /\ UNCHANGED <<posted, sent, stopped>>

Next == Claim \/ Post \/ Settle \/ Refuse \/ Abandon \/ Plan

Spec == Init /\ [][Next]_vars
=============================================================================
