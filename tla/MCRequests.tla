----------------------------- MODULE MCRequests -----------------------------
(* Two overlapping cycles of the first message, one of the second. *)
EXTENDS Requests, TLC
CONSTANTS c1, c2, c3, o1, s1, s2, k1, k2
TwoThenOne == [c \in Cycles |-> IF c = c3 THEN 2 ELSE 1]
AllOne == [c \in Cycles |-> 1]
OneEach == [c \in Cycles |-> IF c = c2 THEN 2 ELSE 1]

\* Cycles of one message are alike, and so are the sellers, and the ticks.
AlikeCycles == Permutations({c1, c2})
AlikeDesks == Permutations({s1, s2}) \cup Permutations({k1, k2})
=============================================================================
