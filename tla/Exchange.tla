------------------------------ MODULE Exchange ------------------------------
(***************************************************************************)
(* What Connections::exchange (src/src/endpoint.rs) promises the threads   *)
(* that send, apart from the connections it keeps: a thread asks one       *)
(* request at a time; the far end acts on a request at most twice, and     *)
(* perhaps on one already given up; a thread is told an answer only to a   *)
(* request the far end acted on - or what the far end said unasked - and   *)
(* every exchange ends.  Connections implements it.                        *)
(***************************************************************************)
EXTENDS Naturals

CONSTANTS
    Senders,  \* the threads that send
    MaxAsks   \* bound: requests a thread sends

VARIABLES
    asked,  \* asked[s]: requests s has begun
    told,   \* how the last ended: "never", "asking", "answer", "stray", "failed"
    acted   \* acted[s][n]: times the far end acted on the n-th request of s

vars == <<asked, told, acted>>

Init ==
    /\ asked = [s \in Senders |-> 0]
    /\ told = [s \in Senders |-> "never"]
    /\ acted = [s \in Senders |-> [n \in 1..MaxAsks |-> 0]]

Ask(s) ==
    /\ told[s] # "asking" /\ asked[s] < MaxAsks
    /\ asked' = [asked EXCEPT ![s] = @ + 1]
    /\ told' = [told EXCEPT ![s] = "asking"]
    /\ UNCHANGED acted

Act(s, n) ==
    /\ n <= asked[s] /\ acted[s][n] < 2
    /\ acted' = [acted EXCEPT ![s][n] = @ + 1]
    /\ UNCHANGED <<asked, told>>

Answer(s) ==
    /\ told[s] = "asking" /\ acted[s][asked[s]] > 0
    /\ told' = [told EXCEPT ![s] = "answer"]
    /\ UNCHANGED <<asked, acted>>

\* No answer to what was asked: none came, or what came was said unasked.
Miss(s) ==
    /\ told[s] = "asking"
    /\ \E how \in {"stray", "failed"} : told' = [told EXCEPT ![s] = how]
    /\ UNCHANGED <<asked, acted>>

Next == \E s \in Senders : \/ Ask(s) \/ Answer(s) \/ Miss(s)
                           \/ \E n \in 1..MaxAsks : Act(s, n)

SafeSpec == Init /\ [][Next]_vars

Spec == SafeSpec /\ \A s \in Senders : WF_vars(Answer(s) \/ Miss(s))
=============================================================================
