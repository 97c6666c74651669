---------------------------- MODULE Connections ----------------------------
(***************************************************************************)
(* The connections a sender keeps (src/src/endpoint.rs): threads that send *)
(* take a kept connection for one request each, or open one, and put it    *)
(* back; one that fails on reuse is replaced and its request sent again.   *)
(* Far ends answer, close, restart, say GOAWAY and speak unasked whenever  *)
(* they like, against any step of any thread.                              *)
(*                                                                         *)
(* What the code takes from elsewhere is modelled from its use here and    *)
(* from the README's account of it: transport::Pool, transport::pool's     *)
(* `quiet` and `alive`, the clients of net::http and net::http2, and the   *)
(* far end.                                                                *)
(***************************************************************************)
EXTENDS Naturals, Sequences, FiniteSets

CONSTANTS
    Senders,   \* the threads that send through one Connections
    Targets,   \* what they send to: an endpoint, and what is offered there
    Links,     \* the connections that can be opened, each once
    NoLink,    \* a thread holds none
    MaxAsks,   \* bound: requests a thread sends
    TimesOut,  \* whether a timeout is set
    HasTls     \* whether the `tls` feature is compiled in

VARIABLES
    \* the threads
    phase,    \* "idle", "opening", "asking", "awaiting", "told" or "failed"
    to,       \* the target of the request
    on,       \* the link held for it
    fresh,    \* that link was opened for it
    asked,    \* requests begun
    got,      \* what the last told was: "own", "other", "idle" or "late"
    \* this side of a link
    side,     \* "unopened", "held", "kept" or "closed"
    key,      \* where it is found in the pool
    tls,      \* it is guarded by TLS
    version,  \* 1 or 2, agreed as it opened
    open,     \* Speaking::Http11: the last answer left it open
    goingAway,  \* Speaking::Http2: a GOAWAY was read
    \* the far end of a link
    far,      \* neither side has closed: what is written reaches the other
    away,     \* it said GOAWAY
    coming,   \* the requests written and not read by it
    doing,    \* the requests acted on and not answered
    back,     \* what it wrote and this side did not read
    acted     \* times a request was acted on

senderVars == <<phase, to, on, fresh, asked, got>>
sideVars == <<side, key, tls, version, open, goingAway>>
farVars == <<far, away, coming, doing, back, acted>>
vars == <<senderVars, sideVars, farVars>>

\* The n-th request of a thread.
Asks == Senders \X (1..MaxAsks)

\* What a far end writes: the answer to a request, and whether it keeps the
\* connection; a GOAWAY; octets nobody asked for, that found the connection
\* idle in the pool or came too late to be seen there.
Messages == [kind : {"answer"}, ask : Asks, keep : BOOLEAN]
                \cup [kind : {"goaway", "idle", "late"}]

\* Mutant of Key: connections are found by address and offer alone.
KeyNoScheme(t) == <<t.address, t.offer>>

\* Mutant of Key: connections are found by their endpoint alone.
KeyNoOffer(t) == <<t.secure, t.address>>

\* Connections::exchange: (endpoint.secure(), endpoint.address(), offer).
Key(t) == <<t.secure, t.address, t.offer>>

\* What a connection to t may speak: over TLS what ALPN agrees of what was
\* offered; in the clear what is known beforehand.
Versions(t) ==
    IF t.secure THEN IF t.offer = "Http11" THEN {1} ELSE {1, 2}
    ELSE IF t.offer = "PriorKnowledge" THEN {2} ELSE {1}

Keys == {Key(t) : t \in Targets}
NoKey == <<>>
NoTarget == [offer |-> "none"]

ASSUME LinkAssumption == NoLink \notin Links
ASSUME SendersAssumption == IsFiniteSet(Senders)
ASSUME BoundAssumption == MaxAsks \in Nat
ASSUME TimeoutAssumption == TimesOut \in BOOLEAN
ASSUME TlsAssumption == HasTls \in BOOLEAN
ASSUME TargetAssumption ==
    Targets \subseteq [secure : BOOLEAN, address : STRING,
                       offer : {"Http11", "Agreed", "PriorKnowledge"}]

TypeOK ==
    /\ phase \in [Senders -> {"idle", "opening", "asking", "awaiting",
                              "told", "failed"}]
    /\ to \in [Senders -> Targets \cup {NoTarget}]
    /\ on \in [Senders -> Links \cup {NoLink}]
    /\ fresh \in [Senders -> BOOLEAN]
    /\ asked \in [Senders -> 0..MaxAsks]
    /\ got \in [Senders -> {"none", "own", "other", "idle", "late"}]
    /\ side \in [Links -> {"unopened", "held", "kept", "closed"}]
    /\ key \in [Links -> Keys \cup {NoKey}]
    /\ tls \in [Links -> BOOLEAN]
    /\ version \in [Links -> {1, 2}]
    /\ open \in [Links -> BOOLEAN]
    /\ goingAway \in [Links -> BOOLEAN]
    /\ far \in [Links -> BOOLEAN]
    /\ away \in [Links -> BOOLEAN]
    /\ coming \in [Links -> SUBSET Asks]
    /\ doing \in [Links -> SUBSET Asks]
    /\ back \in [Links -> Seq(Messages)]
    /\ acted \in [Senders -> [1..MaxAsks -> 0..2]]

Init ==
    /\ phase = [s \in Senders |-> "idle"]
    /\ to = [s \in Senders |-> NoTarget]
    /\ on = [s \in Senders |-> NoLink]
    /\ fresh = [s \in Senders |-> FALSE]
    /\ asked = [s \in Senders |-> 0]
    /\ got = [s \in Senders |-> "none"]
    /\ side = [l \in Links |-> "unopened"]
    /\ key = [l \in Links |-> NoKey]
    /\ tls = [l \in Links |-> FALSE]
    /\ version = [l \in Links |-> 1]
    /\ open = [l \in Links |-> FALSE]
    /\ goingAway = [l \in Links |-> FALSE]
    /\ far = [l \in Links |-> FALSE]
    /\ away = [l \in Links |-> FALSE]
    /\ coming = [l \in Links |-> {}]
    /\ doing = [l \in Links |-> {}]
    /\ back = [l \in Links |-> <<>>]
    /\ acted = [s \in Senders |-> [n \in 1..MaxAsks |-> 0]]

----------------------------------------------------------------------------
\* The pool (Connections::exchange, Kept::usable, transport::Pool).

\* Mutant of Fit: HTTP/1.1 asks no more than HTTP/2 does.
FitAlive(l, left, unread) ==
    /\ IF version[l] = 1 THEN left ELSE ~goingAway[l]
    /\ far[l] \/ unread # <<>>

\* Kept::usable.  HTTP/1.1: the last answer left it open, and its socket is
\* quiet - nothing to read, not even its end.  HTTP/2: no GOAWAY was read,
\* and it is alive - not closed, as far as what is unread does not hide it.
Fit(l, left, unread) ==
    IF version[l] = 1 THEN left /\ far[l] /\ unread = <<>>
    ELSE ~goingAway[l] /\ (far[l] \/ unread # <<>>)

Usable(l) == Fit(l, open[l], back[l])

KeptTo(t) == {l \in Links : side[l] = "kept" /\ key[l] = Key(t)}

Dead(S) == {l \in S : ~Usable(l)}

\* The links of S are dropped, their sockets closed: nothing of them is left
\* but the requests the far end may yet read.
Closed(S) == [l \in Links |-> IF l \in S THEN "closed" ELSE side[l]]
Reached(S) == [l \in Links |-> far[l] /\ l \notin S]
Forget(S) ==
    /\ goingAway' = [l \in Links |-> goingAway[l] /\ l \notin S]
    /\ doing' = [l \in Links |-> IF l \in S THEN {} ELSE doing[l]]
    /\ back' = [l \in Links |-> IF l \in S THEN <<>> ELSE back[l]]

Begins(s, t) ==
    /\ phase[s] \in {"idle", "told", "failed"} /\ asked[s] < MaxAsks
    /\ asked' = [asked EXCEPT ![s] = @ + 1]
    /\ to' = [to EXCEPT ![s] = t]
    /\ got' = [got EXCEPT ![s] = "none"]

\* A kept connection that is usable is taken; those found not to be on the
\* way to it are closed.
Take(s, t) ==
    /\ Begins(s, t)
    /\ \E l \in KeptTo(t) \ Dead(KeptTo(t)), passed \in SUBSET Dead(KeptTo(t)) :
        /\ side' = [Closed(passed) EXCEPT ![l] = "held"]
        /\ far' = Reached(passed) /\ Forget(passed)
        /\ on' = [on EXCEPT ![s] = l]
    /\ fresh' = [fresh EXCEPT ![s] = FALSE]
    /\ phase' = [phase EXCEPT ![s] = "asking"]
    /\ UNCHANGED <<key, tls, version, open, away, coming, acted>>

\* Mutant of TakeNone: a kept one is not looked for.
TakeNoneEver(s, t) ==
    /\ Begins(s, t)
    /\ side' = Closed(Dead(KeptTo(t)))
    /\ far' = Reached(Dead(KeptTo(t))) /\ Forget(Dead(KeptTo(t)))
    /\ phase' = [phase EXCEPT ![s] = "opening"]
    /\ UNCHANGED <<on, fresh, key, tls, version, open, away, coming, acted>>

\* None kept is usable: one is to be opened.
TakeNone(s, t) ==
    /\ Begins(s, t)
    /\ KeptTo(t) = Dead(KeptTo(t))
    /\ side' = Closed(KeptTo(t))
    /\ far' = Reached(KeptTo(t)) /\ Forget(KeptTo(t))
    /\ phase' = [phase EXCEPT ![s] = "opening"]
    /\ UNCHANGED <<on, fresh, key, tls, version, open, away, coming, acted>>

\* Every kept connection that is not usable is closed before another opens.
Swept == Dead({l \in Links : side[l] = "kept"})

\* `kept`: connected and handshaken, in the version the far end agrees to.
Open(s) ==
    /\ phase[s] = "opening" /\ (to[s].secure => HasTls)
    /\ \E l \in Links, v \in Versions(to[s]) :
        /\ side[l] = "unopened"
        /\ side' = [Closed(Swept) EXCEPT ![l] = "held"]
        /\ key' = [key EXCEPT ![l] = Key(to[s])]
        /\ tls' = [tls EXCEPT ![l] = to[s].secure]
        /\ version' = [version EXCEPT ![l] = v]
        /\ open' = [open EXCEPT ![l] = TRUE]
        /\ far' = [Reached(Swept) EXCEPT ![l] = TRUE]
        /\ on' = [on EXCEPT ![s] = l]
    /\ Forget(Swept)
    /\ fresh' = [fresh EXCEPT ![s] = TRUE]
    /\ phase' = [phase EXCEPT ![s] = "asking"]
    /\ UNCHANGED <<to, asked, got, away, coming, acted>>

\* The far end could not be reached, the handshake failed, or TLS is asked
\* for and not compiled in.
OpenFails(s) ==
    /\ phase[s] = "opening"
    /\ side' = Closed(Swept)
    /\ far' = Reached(Swept) /\ Forget(Swept)
    /\ phase' = [phase EXCEPT ![s] = "failed"]
    /\ UNCHANGED <<to, on, fresh, asked, got, key, tls, version, open, away,
                   coming, acted>>

----------------------------------------------------------------------------
\* One exchange (exchange_on, net::http::exchange_kept, Client::send).

\* The request is written; to a far end that closed it is lost.
Ask(s) ==
    LET l == on[s] IN
    /\ phase[s] = "asking"
    /\ coming' = IF far[l] THEN [coming EXCEPT ![l] = @ \cup {<<s, asked[s]>>}]
                           ELSE coming
    /\ phase' = [phase EXCEPT ![s] = "awaiting"]
    /\ UNCHANGED <<to, on, fresh, asked, got, sideVars, far, away, doing, back,
                   acted>>

Awaits(s) == phase[s] = "awaiting" /\ back[on[s]] # <<>>

\* HTTP/2: a GOAWAY read on the way to the answer.
ReadGoAway(s) ==
    LET l == on[s] IN
    /\ Awaits(s) /\ Head(back[l]).kind = "goaway"
    /\ goingAway' = [goingAway EXCEPT ![l] = TRUE]
    /\ back' = [back EXCEPT ![l] = Tail(@)]
    /\ UNCHANGED <<senderVars, side, key, tls, version, open, far, away, coming,
                   doing, acted>>

\* What an answer read off a link is to the thread that reads it.
Heard(s, m) ==
    IF m.kind # "answer" THEN m.kind
    ELSE IF m.ask = <<s, asked[s]>> THEN "own" ELSE "other"

\* An answer is read; HTTP/1.1 notes whether it left the connection open,
\* what was said unasked being said to close it.  The connection is put
\* back, or dropped at once where it is seen to be unusable.
Told(s) ==
    LET l == on[s]
        m == Head(back[l])
        left == version[l] = 2 \/ (m.kind = "answer" /\ m.keep)
    IN  /\ Awaits(s) /\ m.kind # "goaway"
        /\ got' = [got EXCEPT ![s] = Heard(s, m)]
        /\ open' = [open EXCEPT ![l] = left]
        /\ \/ /\ side' = [side EXCEPT ![l] = "kept"]
              /\ back' = [back EXCEPT ![l] = Tail(@)]
              /\ UNCHANGED <<goingAway, doing, far>>
           \/ /\ ~Fit(l, left, Tail(back[l]))
              /\ side' = Closed({l})
              /\ far' = Reached({l}) /\ Forget({l})
        /\ on' = [on EXCEPT ![s] = NoLink]
        /\ phase' = [phase EXCEPT ![s] = "told"]
        /\ UNCHANGED <<to, fresh, asked, key, tls, version, away, coming, acted>>

\* Mutant of Broken: reads have no timeout.
BrokenUntimed(s) ==
    LET l == on[s] IN
    /\ phase[s] = "awaiting"
    /\ \/ ~far[l] /\ back[l] = <<>>
       \/ goingAway[l] /\ coming[l] # {}

\* Nothing more can come, or it took longer than the timeout.
Broken(s) ==
    LET l == on[s] IN
    /\ phase[s] = "awaiting"
    /\ \/ ~far[l] /\ back[l] = <<>>
       \/ goingAway[l] /\ coming[l] # {}
       \/ TimesOut

\* Mutant of Fails: the connection that failed is put back.
FailsPutBack(s) ==
    /\ Broken(s)
    /\ side' = [side EXCEPT ![on[s]] = "kept"]
    /\ on' = [on EXCEPT ![s] = NoLink]
    /\ phase' = [phase EXCEPT ![s] = IF fresh[s] THEN "failed" ELSE "opening"]
    /\ UNCHANGED <<to, fresh, asked, got, key, tls, version, open, goingAway,
                   farVars>>

\* Mutant of Fails: a new connection that failed is replaced too.
FailsForever(s) ==
    /\ Broken(s)
    /\ side' = Closed({on[s]})
    /\ far' = Reached({on[s]}) /\ Forget({on[s]})
    /\ on' = [on EXCEPT ![s] = NoLink]
    /\ phase' = [phase EXCEPT ![s] = "opening"]
    /\ UNCHANGED <<to, fresh, asked, got, key, tls, version, open, away, coming,
                   acted>>

\* The exchange fails and its connection is closed.  On reuse the request
\* goes again, on a new one; on a new one the failure is the caller's.
Fails(s) ==
    /\ Broken(s)
    /\ side' = Closed({on[s]})
    /\ far' = Reached({on[s]}) /\ Forget({on[s]})
    /\ on' = [on EXCEPT ![s] = NoLink]
    /\ phase' = [phase EXCEPT ![s] = IF fresh[s] THEN "failed" ELSE "opening"]
    /\ UNCHANGED <<to, fresh, asked, got, key, tls, version, open, away, coming,
                   acted>>

----------------------------------------------------------------------------
\* The far end of a link.

\* It acts on a request it read, on HTTP/2 none after its GOAWAY.  What this
\* side gave up it may act on all the same, its answer reaching nobody.
Act(l) ==
    /\ ~away[l]
    /\ \E a \in coming[l] :
        /\ coming' = [coming EXCEPT ![l] = @ \ {a}]
        /\ doing' = IF far[l] THEN [doing EXCEPT ![l] = @ \cup {a}] ELSE doing
        /\ acted' = [acted EXCEPT ![a[1]][a[2]] = @ + 1]
    /\ UNCHANGED <<senderVars, sideVars, far, away, back>>

\* It answers, and on HTTP/1.1 may say it closes, and close.
Answer(l) ==
    /\ far[l]
    /\ \E a \in doing[l], keep \in BOOLEAN :
        /\ version[l] = 2 => keep
        /\ doing' = [doing EXCEPT ![l] = @ \ {a}]
        /\ back' = [back EXCEPT ![l] =
                        Append(@, [kind |-> "answer", ask |-> a, keep |-> keep])]
        /\ far' = [far EXCEPT ![l] = keep]
    /\ UNCHANGED <<senderVars, sideVars, away, coming, acted>>

GoAway(l) ==
    /\ far[l] /\ version[l] = 2 /\ ~away[l]
    /\ away' = [away EXCEPT ![l] = TRUE]
    /\ back' = [back EXCEPT ![l] = Append(@, [kind |-> "goaway"])]
    /\ UNCHANGED <<senderVars, sideVars, far, coming, doing, acted>>

\* HTTP/1.1: it gives up on a connection it has no request from, says so
\* and closes.
SpeakUnasked(l) ==
    /\ far[l] /\ version[l] = 1 /\ doing[l] = {}
    /\ far' = [far EXCEPT ![l] = FALSE]
    /\ coming' = [coming EXCEPT ![l] = {}]
    /\ back' = [back EXCEPT ![l] =
            Append(@, [kind |-> IF side[l] = "kept" THEN "idle" ELSE "late"])]
    /\ UNCHANGED <<senderVars, sideVars, away, doing, acted>>

\* An idle timeout, a restart, a broken network: what it wrote still comes,
\* or is lost with the connection; a request it had begun to act on is done,
\* its answer unwritten.
Close(l) ==
    /\ far[l] \/ coming[l] # {}
    /\ far' = [far EXCEPT ![l] = FALSE]
    /\ coming' = [coming EXCEPT ![l] = {}]
    /\ doing' = [doing EXCEPT ![l] = {}]
    /\ \/ UNCHANGED back
       \/ back' = [back EXCEPT ![l] = <<>>]
    /\ \/ UNCHANGED acted
       \/ \E a \in coming[l] : ~away[l] /\ acted' = [acted EXCEPT ![a[1]][a[2]] = @ + 1]
    /\ UNCHANGED <<senderVars, sideVars, away>>

----------------------------------------------------------------------------
Exchanges(s) ==
    \/ Open(s) \/ OpenFails(s) \/ Ask(s) \/ ReadGoAway(s) \/ Told(s) \/ Fails(s)

FarEnd(l) == Act(l) \/ Answer(l) \/ GoAway(l) \/ SpeakUnasked(l) \/ Close(l)

Next ==
    \/ \E s \in Senders :
        \/ \E t \in Targets : Take(s, t) \/ TakeNone(s, t)
        \/ Exchanges(s)
    \/ \E l \in Links : FarEnd(l)

SafeSpec == Init /\ [][Next]_vars

\* A thread that began an exchange goes on with it; a far end is not held
\* to anything.
Spec == SafeSpec /\ \A s \in Senders : WF_vars(Exchanges(s))

----------------------------------------------------------------------------
\* Properties.

\* A thread is never told another's answer, nor a late one of its own, nor
\* what the far end said to the connection while it was idle: what is left
\* over of one exchange never reaches the next.
AnswerIsOwn == \A s \in Senders : got[s] \in {"none", "own", "late"}

\* A kept connection that may be used again carries nothing of an earlier
\* exchange, in either direction.
NothingPending ==
    \A l \in Links : side[l] = "kept" /\ Usable(l) =>
        /\ coming[l] = {} /\ doing[l] = {}
        /\ \A i \in 1..Len(back[l]) : back[l][i].kind = "goaway"

\* Requests on several threads each have a connection, and no more are ever
\* open under a key - a scheme, an address and an offer - than there are
\* threads: a connection that died, a resend, a put back while another opens
\* leave none behind.
Bounded ==
    \A k \in Keys :
        Cardinality({l \in Links : side[l] \in {"held", "kept"} /\ key[l] = k})
            <= Cardinality(Senders)

\* A request goes only on a connection that speaks a version it offered,
\* whoever opened it.
VersionOffered ==
    \A s \in Senders : on[s] # NoLink => version[on[s]] \in Versions(to[s])

\* What is posted to https:// goes guarded or not at all, and what is posted
\* to http:// is not taken for guarded: a connection opened for the one is
\* never found for the other, though both name one address (endpoint.rs:8-10).
NeverInTheClear ==
    \A s \in Senders : on[s] # NoLink => tls[on[s]] = to[s].secure

\* What Connections::opened is said to count: one connection per endpoint
\* while the far end keeps them, however many requests (endpoint.rs:196).
\* It is what one thread sees; threads that send at once open one each.
OneOpenedPerEndpoint ==
    LET opened == {l \in Links : side[l] # "unopened"}
    IN  (\A l \in opened : far[l] /\ ~away[l]) =>
            \A l, m \in opened : key[l] = key[m] => l = m

\* Connections keeps the promise of Exchange.
Outcome(s) ==
    CASE phase[s] = "idle" -> "never"
      [] phase[s] \in {"opening", "asking", "awaiting"} -> "asking"
      [] phase[s] = "failed" -> "failed"
      [] phase[s] = "told" -> IF got[s] = "own" THEN "answer" ELSE "stray"

Promise == INSTANCE Exchange WITH told <- [s \in Senders |-> Outcome(s)]

ImplementsExchange == Promise!Spec
ImplementsExchangeSafely == Promise!SafeSpec
=============================================================================
