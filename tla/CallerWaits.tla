---------------------------- MODULE CallerWaits ----------------------------
(***************************************************************************)
(* What a Receive Location promises the callers connected to it, apart    *)
(* from how it is kept: on one connection requests are taken one at a     *)
(* time, each is answered before the next is taken, answers come in the   *)
(* order of their requests, and a caller whose request was taken is       *)
(* answered or let go.  Inbound implements it.                            *)
(***************************************************************************)
EXTENDS Naturals

CONSTANT Callers  \* the connections callers make

VARIABLES
    asked,  \* asked[c]: requests taken off c's connection
    told,   \* told[c]: answers written on it, the n-th to the n-th request
    open    \* open[c]: answers still reach the caller on this connection

vars == <<asked, told, open>>

Init ==
    /\ asked = [c \in Callers |-> 0]
    /\ told = [c \in Callers |-> 0]
    /\ open = [c \in Callers |-> TRUE]

\* A request is taken only where nothing is owed.  One taken off a
\* connection already let go is owed nothing: its caller sends it again.
Take(c) ==
    /\ open[c] => asked[c] = told[c]
    /\ asked' = [asked EXCEPT ![c] = @ + 1]
    /\ UNCHANGED <<told, open>>

\* The one request owed an answer is told, and the connection may end there.
Tell(c) ==
    /\ open[c]
    /\ asked[c] = told[c] + 1
    /\ told' = [told EXCEPT ![c] = @ + 1]
    /\ \/ UNCHANGED open
       \/ open' = [open EXCEPT ![c] = FALSE]
    /\ UNCHANGED asked

\* The connection is let go, its caller told nothing more; a request read
\* as it is let go is taken with it.
LetGo(c) ==
    /\ open[c]
    /\ open' = [open EXCEPT ![c] = FALSE]
    /\ \/ UNCHANGED asked
       \/ asked[c] = told[c] /\ asked' = [asked EXCEPT ![c] = @ + 1]
    /\ UNCHANGED told

Next == \E c \in Callers : Take(c) \/ Tell(c) \/ LetGo(c)

\* An owed caller is not left waiting.
Owed(c) == open[c] /\ asked[c] > told[c]

Settle(c) == Owed(c) /\ (Tell(c) \/ LetGo(c))

SafeSpec == Init /\ [][Next]_vars

Spec == SafeSpec /\ \A c \in Callers : WF_vars(Settle(c))
=============================================================================
