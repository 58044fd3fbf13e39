----------------------------- MODULE MCNodeExit -----------------------------
(* NodeExit with two changes and two writers; they are alike.              *)
EXTENDS NodeExit, TLC

CONSTANTS u1, u2, w1, w2

MCUpdates == {u1, u2}
MCWriters == {w1, w2}
OneWriter == {w1}
NoEdits == {}

Alike == Permutations(MCUpdates) \cup Permutations(MCWriters)
=============================================================================
