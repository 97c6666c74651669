------------------------------ MODULE ServeOne ------------------------------
(***************************************************************************)
(* A far end that serves one request a connection (src/src/server.rs):     *)
(* server::serve_one in a loop on one listener, for clients that keep      *)
(* their connections.  Over HTTP/2 the close at the end waits for the      *)
(* client to let go, so a client must learn before its answer that the     *)
(* connection carries no other request; over HTTP/1.1 the answer goes out  *)
(* as the session wrote it, keeping the connection or not, and the         *)
(* connection is dropped after it either way.                              *)
(*                                                                         *)
(* External: the codecs of net::http (an answer that names no Connection   *)
(* says `close`) and net::http2, the session that answers, the listener,   *)
(* and the clients - a sender as in endpoint.rs, which keeps a connection  *)
(* only where it is usable, or one that connects and may say nothing.  A   *)
(* close a client has not seen yet is one that comes later.                *)
(***************************************************************************)
EXTENDS Naturals, Sequences

CONSTANTS
    Clients,   \* those that connect, one connection each at a time
    Mute,      \* those among them that may say nothing on it
    NoClient,  \* none is served
    MaxAsks,   \* bound: requests a client sends
    Slow       \* those whose silence outlasts the timeout on the reads: none
               \* where none is set

ASSUME MuteAssumption == Mute \subseteq Clients
ASSUME NoClientAssumption == NoClient \notin Clients
ASSUME BoundAssumption == MaxAsks \in Nat
ASSUME SlowAssumption == Slow \subseteq Clients

VARIABLES
    \* a client and its connection
    version,  \* 1 or 2, by prior knowledge
    asked,    \* requests sent
    waiting,  \* for the answer to the last
    holds,    \* the client has the connection open
    away,     \* it read a GOAWAY on it
    kept,     \* it read an HTTP/1.1 answer on it that said keep-alive
    line,     \* at the far end: "none", "queued", "served" or "closed"
    unread,   \* requests written on it the far end did not read
    wire,     \* what the far end wrote on it the client did not read
    \* the far end
    serving,  \* whose connection is served
    step      \* "accepting", "reading", "answering", "closing" or "dropping"

clientVars == <<version, asked, waiting, holds, away, kept>>
vars == <<clientVars, line, unread, wire, serving, step>>

TypeOK ==
    /\ version \in [Clients -> {1, 2}]
    /\ asked \in [Clients -> 0..MaxAsks]
    /\ waiting \in [Clients -> BOOLEAN]
    /\ holds \in [Clients -> BOOLEAN]
    /\ away \in [Clients -> BOOLEAN]
    /\ kept \in [Clients -> BOOLEAN]
    /\ line \in [Clients -> {"none", "queued", "served", "closed"}]
    /\ unread \in [Clients -> 0..1]
    /\ wire \in [Clients -> Seq({"goaway", "answer", "keeps"})]
    /\ serving \in Clients \cup {NoClient}
    /\ step \in {"accepting", "reading", "answering", "closing", "dropping"}

Init ==
    /\ version \in [Clients -> {1, 2}]
    /\ asked = [c \in Clients |-> 0]
    /\ waiting = [c \in Clients |-> FALSE]
    /\ holds = [c \in Clients |-> FALSE]
    /\ away = [c \in Clients |-> FALSE]
    /\ kept = [c \in Clients |-> FALSE]
    /\ line = [c \in Clients |-> "none"]
    /\ unread = [c \in Clients |-> 0]
    /\ wire = [c \in Clients |-> <<>>]
    /\ serving = NoClient
    /\ step = "accepting"

----------------------------------------------------------------------------
\* The clients.

\* Mutant of Asks: a connection is taken for a second request at once.
AsksWhileWaiting(c) ==
    /\ asked[c] < MaxAsks
    /\ asked' = [asked EXCEPT ![c] = @ + 1]

\* A connection is taken for one request at a time.
Asks(c) ==
    /\ ~waiting[c] /\ asked[c] < MaxAsks
    /\ asked' = [asked EXCEPT ![c] = @ + 1]

\* The connection is kept and, as far as the client knows, usable.
Usable(c) == holds[c] /\ ~away[c] /\ line[c] # "closed"

\* The connection kept, or a new one waiting to be accepted.
Connects(c) ==
    /\ holds' = [holds EXCEPT ![c] = TRUE]
    /\ away' = [away EXCEPT ![c] = FALSE]
    /\ kept' = [kept EXCEPT ![c] = Usable(c) /\ @]
    /\ line' = [line EXCEPT ![c] = IF Usable(c) THEN @ ELSE "queued"]
    /\ wire' = [wire EXCEPT ![c] = IF Usable(c) THEN @ ELSE <<>>]
    /\ UNCHANGED <<version, serving, step>>

\* A request, its own connection let go before another takes its place.
Ask(c) ==
    /\ Asks(c) /\ (Usable(c) \/ line[c] \in {"none", "closed"})
    /\ Connects(c)
    /\ waiting' = [waiting EXCEPT ![c] = TRUE]
    /\ unread' = [unread EXCEPT ![c] = @ + 1]

\* A connection on which nothing is said, kept open or hung up.
ConnectMute(c) ==
    /\ c \in Mute
    /\ Asks(c) /\ line[c] \in {"none", "closed"}
    /\ Connects(c)
    /\ UNCHANGED <<waiting, unread>>

HangUp(c) ==
    /\ c \in Mute /\ holds[c] /\ ~waiting[c]
    /\ holds' = [holds EXCEPT ![c] = FALSE]
    /\ UNCHANGED <<version, asked, waiting, away, kept, line, unread, wire,
                   serving, step>>

\* A GOAWAY read on the way to the answer.
ReadGoAway(c) ==
    /\ waiting[c] /\ wire[c] # <<>> /\ Head(wire[c]) = "goaway"
    /\ away' = [away EXCEPT ![c] = TRUE]
    /\ wire' = [wire EXCEPT ![c] = Tail(@)]
    /\ UNCHANGED <<version, asked, waiting, holds, kept, line, unread, serving,
                   step>>

\* The answer read, the connection is kept where it is usable: over HTTP/1.1
\* where the answer said so, over HTTP/2 where no GOAWAY was read.
ReadAnswer(c) ==
    /\ waiting[c] /\ wire[c] # <<>> /\ Head(wire[c]) \in {"answer", "keeps"}
    /\ waiting' = [waiting EXCEPT ![c] = FALSE]
    /\ kept' = [kept EXCEPT ![c] = Head(wire[c]) = "keeps"]
    /\ holds' = [holds EXCEPT ![c] = IF version[c] = 2 THEN ~away[c] ELSE kept'[c]]
    /\ wire' = [wire EXCEPT ![c] = Tail(@)]
    /\ UNCHANGED <<version, asked, away, line, unread, serving, step>>

\* The far end closed before it answered: the exchange failed.  What a
\* sender sends again is asked again.
ReadEnd(c) ==
    /\ waiting[c] /\ wire[c] = <<>> /\ line[c] = "closed"
    /\ waiting' = [waiting EXCEPT ![c] = FALSE]
    /\ holds' = [holds EXCEPT ![c] = FALSE]
    /\ unread' = [unread EXCEPT ![c] = 0]
    /\ UNCHANGED <<version, asked, away, kept, line, wire, serving, step>>

----------------------------------------------------------------------------
\* The far end (serve_one_from, answer_on).

Accept(c) ==
    /\ step = "accepting" /\ line[c] = "queued"
    /\ line' = [line EXCEPT ![c] = "served"]
    /\ serving' = c
    /\ step' = "reading"
    /\ UNCHANGED <<clientVars, unread, wire>>

\* The connection is dropped, and the next served.
Ended ==
    /\ line' = [line EXCEPT ![serving] = "closed"]
    /\ serving' = NoClient
    /\ step' = "accepting"

\* Mutant of SaidFirst: the client is not told ahead of its answer.
SaidFirstNothing(c) == <<>>

\* What is written ahead of the answer: GOAWAY, over HTTP/2.
SaidFirst(c) == IF version[c] = 2 THEN <<"goaway">> ELSE <<>>

\* The one request is read, and an HTTP/2 client told it is the only one.
Read ==
    /\ step = "reading" /\ unread[serving] = 1
    /\ unread' = [unread EXCEPT ![serving] = 0]
    /\ wire' = [wire EXCEPT ![serving] = @ \o SaidFirst(serving)]
    /\ step' = "answering"
    /\ UNCHANGED <<clientVars, line, serving>>

\* Mutant of Gone: what stopped sending is waited for.
GoneNoTimeout == ~holds[serving]

\* The client let go, or took longer than the timeout.
Gone == ~holds[serving] \/ serving \in Slow

\* A connection that sent no request, or stopped inside it.
ReadFails ==
    /\ step = "reading" /\ Gone
    /\ Ended
    /\ UNCHANGED <<clientVars, unread, wire>>

\* What an answer says: over HTTP/1.1, to keep the connection or not.
Says(c) == IF version[c] = 2 THEN {"answer"} ELSE {"answer", "keeps"}

\* The answer is written.
Answer ==
    /\ step = "answering"
    /\ \E word \in Says(serving) :
            wire' = [wire EXCEPT ![serving] = Append(@, word)]
    /\ step' = IF version[serving] = 2 THEN "closing" ELSE "dropping"
    /\ UNCHANGED <<clientVars, line, unread, serving>>

\* An HTTP/1.1 connection is dropped, whatever its answer said.
Drop ==
    /\ step = "dropping"
    /\ Ended
    /\ UNCHANGED <<clientVars, unread, wire>>

\* Server::close returns once the client let go, or after the timeout.
Close ==
    /\ step = "closing" /\ Gone
    /\ Ended
    /\ UNCHANGED <<clientVars, unread, wire>>

----------------------------------------------------------------------------
Reads(c) == ReadGoAway(c) \/ ReadAnswer(c) \/ ReadEnd(c)

Serves == Read \/ ReadFails \/ Answer \/ Drop \/ Close

Next ==
    \/ \E c \in Clients : \/ Ask(c) \/ ConnectMute(c) \/ HangUp(c)
                          \/ Reads(c) \/ Accept(c)
    \/ Serves

\* The loop goes on serving, a listener hands out what is queued in turn,
\* and a client that waits for its answer reads it.  No client asks.
Spec ==
    /\ Init /\ [][Next]_vars
    /\ WF_vars(Serves)
    /\ \A c \in Clients : SF_vars(Accept(c)) /\ WF_vars(Reads(c))

----------------------------------------------------------------------------
\* Properties.

\* The far end reads no other request on the connection.
Spent(c) ==
    line[c] = "closed" \/ (serving = c /\ step \in {"closing", "dropping"})

\* A request is on a connection that carries no other only where its answer
\* is there, or where the client was told, over HTTP/1.1, that the connection
\* is kept; that one is lost unread, and finds nothing there to take for its
\* answer.  Over HTTP/2, and after an answer that closes, a client learns
\* before it could ask again that its connection is spent (server.rs:223-226).
NoneStranded ==
    \A c \in Clients \ Slow : waiting[c] /\ Spent(c) =>
        IF unread[c] = 0 THEN wire[c] # <<>> ELSE kept[c] /\ wire[c] = <<>>

\* Every request is answered, or its connection ended: the close of one
\* connection never waits for a client that waits for the far end, nor for
\* one that says nothing where there is a timeout.
EveryAskEnds == \A c \in Clients : waiting[c] ~> ~waiting[c]
=============================================================================
