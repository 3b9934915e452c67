--------------------------- MODULE MCAttentionAsk ---------------------------
(* Three people, ranked in the order of their names, and two handlers. *)
EXTENDS AttentionAsk, TLC

CONSTANTS ann, bo, cy, left, right
MCPeople == {ann, bo, cy}
MCRanked == <<ann, bo, cy>>
MCTabs == {left, right}
TabSymmetry == Permutations(MCTabs)
=============================================================================
