-------------------------- MODULE MCAttentionStream --------------------------
(* One page, the asks on it, and the handlers that write them. *)
EXTENDS AttentionStream, TLC

CONSTANTS pay, left, right, first, second
MCAsks == {pay}
MCWriters == {left, right}
MCFetches == {first, second}
=============================================================================
