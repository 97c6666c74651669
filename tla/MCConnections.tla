--------------------------- MODULE MCConnections ---------------------------
(* Small instances of Connections for TLC. *)
EXTENDS Connections, TLC

\* One endpoint over TLS, asked by a technology that offers HTTP/1.1 alone
\* and by one that agrees: the same address under two keys.
Tls == [secure |-> TRUE, address |-> "a", offer |-> "Agreed"]
Signed == [Tls EXCEPT !.offer = "Http11"]

\* The same in the clear, known to speak HTTP/2 and not.
Clear == [Tls EXCEPT !.secure = FALSE]
ClearH2c == [Clear EXCEPT !.offer = "PriorKnowledge"]

Both == {Tls, Signed}
One == {Tls}
EveryOffer == {Tls, Signed, Clear, ClearH2c}

Symmetry == Permutations(Senders) \cup Permutations(Links)
=============================================================================
