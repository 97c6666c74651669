----------------------------- MODULE RoundTrip -----------------------------
(***************************************************************************)
(* A sender and a Receive Location, both of this crate, at the two ends of *)
(* the same connections: threads post through Connections                  *)
(* (src/src/endpoint.rs), an Inbound (src/src/inbound.rs) takes what they  *)
(* post and answers the verdicts.  Every step is a step of the one, of the *)
(* other, or of both: a connection opened is a caller connected, a request *)
(* written is one sent.  The sides hold nothing in common but the sockets, *)
(* and a close takes its time to be seen.                                  *)
(*                                                                         *)
(* Connections assumes next to nothing of a far end.  Here the far end is  *)
(* Inbound, and what Connections keeps of one is read off Inbound's state; *)
(* that Inbound never steps outside what was assumed is a property.        *)
(***************************************************************************)
EXTENDS Naturals, Sequences, FiniteSets

CONSTANTS
    Senders, Targets, MaxAsks,  \* as in Connections
    Links, NoLink,              \* the connections, each a caller of the Location
    SenderTimesOut,             \* whether the sender has a timeout set
    LocationTimesOut            \* whether the Location has

ASSUME LinksAssumption == NoLink \notin Links
ASSUME SendersAssumption == IsFiniteSet(Senders) /\ Senders # {}
ASSUME BoundAssumption == MaxAsks \in Nat \ {0}
ASSUME TimeoutAssumption ==
    SenderTimesOut \in BOOLEAN /\ LocationTimesOut \in BOOLEAN

VARIABLES
    \* the sender, as Connections
    phase, to, on, fresh, asked, got, side, key, tls, open,
    \* the Location, as Inbound
    version, sent, closing, tail, down, answers, bound, place, speaking, read,
    taken, more, busy, locked, turning, stage, replies,
    \* the sockets
    log,   \* log[l]: the requests written on l, in order
    heard  \* heard[l]: the answers read off it

senderVars == <<phase, to, on, fresh, asked, got, side, key, tls, open>>
locationVars == <<version, sent, closing, tail, down, answers, bound, place,
                  speaking, read, taken, more, busy, locked, turning, stage,
                  replies>>
vars == <<senderVars, locationVars, log, heard>>

\* A connection carries at most every request there is.
Location == INSTANCE Inbound WITH
    Callers <- Links, NoCaller <- NoLink, TimesOut <- LocationTimesOut,
    MaxRequests <- MaxAsks * Cardinality(Senders)

----------------------------------------------------------------------------
\* What Connections keeps of a far end, read off the Location.

Up(l) == Location!Open(l)
Ours(l) == side[l] \in {"held", "kept"}

Written(l) == {log[l][n] : n \in taken[l] + 1..sent[l]}
InHand(l) == {log[l][r.n] : r \in {q \in replies : q.caller = l /\ ~q.written}}

\* The answers on l not read yet: the last says close where it was followed
\* by a shutdown.
Unheard(l) ==
    [i \in 1..Len(answers[l]) - heard[l] |->
        [kind |-> "answer", ask |-> log[l][answers[l][heard[l] + i]],
         keep |-> speaking[l] # "spent"]]

TimesActed(a) ==
    Cardinality({l \in Links : \E n \in 1..taken[l] : log[l][n] = a})

VersionAgreed ==
    [l \in Links |-> IF side[l] = "unopened" THEN 1 ELSE version[l]]
Far == [l \in Links |-> Ours(l) /\ Up(l)]
Coming == [l \in Links |-> IF Up(l) THEN Written(l) ELSE {}]
Doing == [l \in Links |-> IF Ours(l) /\ Up(l) THEN InHand(l) ELSE {}]
Back == [l \in Links |-> IF Ours(l) THEN Unheard(l) ELSE <<>>]
Acted == [s \in Senders |-> [n \in 1..MaxAsks |-> TimesActed(<<s, n>>)]]

Sender == INSTANCE Connections WITH
    TimesOut <- SenderTimesOut, HasTls <- FALSE,
    version <- VersionAgreed, goingAway <- [l \in Links |-> FALSE],
    far <- Far, away <- [l \in Links |-> FALSE],
    coming <- Coming, doing <- Doing, back <- Back, acted <- Acted

ASSUME TargetsAssumption == Sender!TargetAssumption

Init ==
    /\ Location!Init
    /\ log = [l \in Links |-> <<>>]
    /\ heard = [l \in Links |-> 0]
    /\ Sender!Init

----------------------------------------------------------------------------
\* The sender's steps, and what each is on the socket.

Take(s, t) ==
    /\ UNCHANGED <<locationVars, log, heard>>
    /\ Sender!Take(s, t) \/ Sender!TakeNone(s, t)

Open(s) ==
    \E l \in Links :
        /\ Location!Connect(l)
        /\ UNCHANGED <<log, heard>>
        /\ Sender!Open(s)
        /\ on'[s] = l

OpenFails(s) ==
    /\ UNCHANGED <<locationVars, log, heard>>
    /\ Sender!OpenFails(s)

\* The request written: sent, or lost on a connection the Location let go.
\* A sender that keeps connections never says `Connection: close`.
Ask(s) ==
    LET l == on[s] IN
    /\ phase[s] = "asking"
    /\ IF Location!OnLine(l)
       THEN /\ UNCHANGED closing /\ Location!Send(l)
            /\ log' = [log EXCEPT ![l] = Append(@, <<s, asked[s]>>)]
       ELSE UNCHANGED <<locationVars, log>>
    /\ UNCHANGED <<heard, side>>
    /\ Sender!Ask(s)

Told(s) ==
    /\ phase[s] = "awaiting"
    /\ UNCHANGED <<locationVars, log>>
    /\ heard' = [heard EXCEPT ![on[s]] = @ + 1]
    /\ Sender!Told(s)

Fails(s) ==
    /\ UNCHANGED <<locationVars, log, heard>>
    /\ Sender!Fails(s)

\* The close of the sender's side reaches the Location.
HangUp(l) ==
    /\ side[l] = "closed"
    /\ Location!HangUp(l)
    /\ UNCHANGED <<senderVars, log, heard>>

----------------------------------------------------------------------------
\* The Location's own steps: it binds, polls, reads and answers.

Receives(l) ==
    /\ Location!Accept(l) \/ Location!Turn(l) \/ Location!TurnOnPoke(l)
        \/ Location!Takes(l)
    /\ UNCHANGED <<senderVars, log, heard>>

Bind == Location!Bind /\ UNCHANGED <<senderVars, log, heard>>

Settles(r) ==
    /\ Location!Answers(r) \/ Location!Dropped(r)
    /\ UNCHANGED <<senderVars, log, heard>>

Exchanges(s) == Open(s) \/ OpenFails(s) \/ Ask(s) \/ Told(s) \/ Fails(s)

Next ==
    \/ \E s \in Senders : (\E t \in Targets : Take(s, t)) \/ Exchanges(s)
    \/ \E l \in Links : HangUp(l) \/ Receives(l)
    \/ Bind
    \/ \E r \in replies : Settles(r)

SafeSpec == Init /\ [][Next]_vars

\* As each side has it alone, and a close is seen in the end.
Spec ==
    /\ SafeSpec
    /\ WF_vars(Bind)
    /\ \A s \in Senders : WF_vars(Exchanges(s))
    /\ \A l \in Links :
        /\ WF_vars(HangUp(l))
        /\ SF_vars(Location!Accept(l) /\ Receives(l))
        /\ SF_vars((Location!Turn(l) \/ Location!TurnOnPoke(l)) /\ Receives(l))
        /\ WF_vars(Location!Takes(l) /\ Receives(l))
        /\ WF_vars(\E r \in replies : r.caller = l /\ Settles(r))

----------------------------------------------------------------------------
\* Properties.

\* What Connections assumes of a far end holds of a Receive Location: every
\* step of the two is one Connections allows, so whatever holds of a sender
\* whose far ends do as they like holds of one that posts to a Location.
FarEndAsAssumed == Sender!SafeSpec

\* A Location tells a sender the verdict on what it asked and nothing else:
\* no other's, none it gave up, and never a word said unasked, which
\* Connections has to reckon with (lib.rs:233-239).
OnlyOwnVerdict == \A s \in Senders : got[s] \in {"none", "own"}

\* One connection carries every request of a thread while both ends keep it:
\* there are never more than there were threads to send (lib.rs:453,
\* inbound.rs "one connection carried every request").
OneConnectionEach ==
    LET opened == {l \in Links : side[l] # "unopened"}
        posting == {s \in Senders : asked[s] > 0}
    IN  (\A l \in opened : Ours(l) /\ Up(l)) =>
            \A k \in {key[l] : l \in opened} :
                Cardinality({l \in opened : key[l] = k}) <= Cardinality(posting)

\* A post ends without a timeout at either end: each request is taken and
\* answered, or its connection let go where the sender sees it, whichever
\* of the kept connections the one receiving thread turns to.
EveryPostEnds ==
    \A s \in Senders :
        phase[s] \in {"opening", "asking", "awaiting"} ~>
            phase[s] \in {"told", "failed"}
=============================================================================
