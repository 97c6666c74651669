---------------------------- MODULE MCRoundTrip ----------------------------
(* Small instances of RoundTrip for TLC. *)
EXTENDS RoundTrip, TLC

\* A Location in the clear, posted to in either version.
Clear == [secure |-> FALSE, address |-> "a", offer |-> "Agreed"]
ClearH2c == [Clear EXCEPT !.offer = "PriorKnowledge"]

Both == {Clear, ClearH2c}
One == {Clear}

Symmetry == Permutations(Senders) \cup Permutations(Links)
=============================================================================
