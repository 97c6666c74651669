------------------------------ MODULE Custody ------------------------------
(***************************************************************************)
(* A Stream from the runtime that sends it to the custody of the one that  *)
(* receives it: HttpTransport::post and EventWire::carry send it through   *)
(* Connections (here by the promise of Exchange), a Receive Location hands *)
(* it to the receive cycle and answers the verdict's status                *)
(* (server::status), the sender judges that status (status::judge), and    *)
(* the runtime sends again what is retryable.  Connections break, replies  *)
(* are dropped and Locations restart between any two steps.                *)
(*                                                                         *)
(* External: the runtimes - what retries, what gives verdicts, what writes *)
(* the ledger - and whether the far end honors the Idempotency-Key.        *)
(***************************************************************************)
EXTENDS Naturals, Status

CONSTANTS
    Posted,     \* the Streams a Send Location posts, each a Journey
    Forwarded,  \* the events forwarded to a Party
    Hooked,     \* those among them whose Party has a webhook configured
    MaxSends,   \* bound: how often the runtime sends one
    Honors      \* whether the far end honors the Idempotency-Key

ASSUME DisjointAssumption == Posted \cap Forwarded = {}
ASSUME HookedAssumption == Hooked \subseteq Forwarded
ASSUME BoundAssumption == MaxSends \in Nat
ASSUME HonorsAssumption == Honors \in BOOLEAN

VARIABLES
    \* the wire, as Exchange has it: a Stream's sends, how the last ended,
    \* how often each reached the far end
    asked, told, acted,
    outcome,  \* of the last send: one of Outcomes
    cycle,    \* what arrived and is in the receive cycle
    ledger,   \* how often a Stream was taken into custody
    given,    \* the verdicts given on a Stream
    said,     \* the statuses answered to each send
    known     \* the outcomes a far end that honors keys remembers

wireVars == <<asked, told, acted>>
vars == <<wireVars, outcome, cycle, ledger, given, said, known>>

Streams == Posted \cup Forwarded

Wire == INSTANCE Exchange WITH Senders <- Streams, MaxAsks <- MaxSends

\* A send of a Stream, and one of its arrivals: it may be sent twice.
Sends == Streams \X (1..MaxSends)
Arrivals == Streams \X (1..MaxSends) \X (1..2)

\* Mutant of Key: a key for every send.
KeyPerSend(j, n) == IF j \in Posted THEN {<<j, n>>} ELSE {}

\* Mutant of Key: drawn for the send to come.
KeyOfNext(j, n) == IF j \in Posted THEN {<<j, n + 1>>} ELSE {}

\* The key a send carries, if any: the Journey's, on every send of it.
Key(j, n) == IF j \in Posted THEN {<<j, 1>>} ELSE {}

TypeOK ==
    /\ asked \in [Streams -> 0..MaxSends]
    /\ told \in [Streams -> {"never", "asking", "answer", "stray", "failed"}]
    /\ acted \in [Streams -> [1..MaxSends -> 0..2]]
    /\ outcome \in [Streams -> Outcomes]
    /\ cycle \in SUBSET Arrivals
    /\ ledger \in [Streams -> 0..2 * MaxSends]
    /\ given \in [Streams -> SUBSET Verdicts]
    /\ said \in [Sends -> SUBSET Statuses]
    /\ known \in SUBSET (Sends \X Statuses)

Init ==
    /\ Wire!Init
    /\ outcome = [j \in Streams |-> "unsent"]
    /\ cycle = {}
    /\ ledger = [j \in Streams |-> 0]
    /\ given = [j \in Streams |-> {}]
    /\ said = [d \in Sends |-> {}]
    /\ known = {}

----------------------------------------------------------------------------
\* The sender (HttpTransport::post, EventWire::carry and their runtime).

Due(j) == outcome[j] \in {"unsent", "retry"}

\* HttpTransport::post begins its exchange; so does EventWire::carry, where
\* a webhook is configured.
Send(j) ==
    /\ Due(j) /\ j \in Posted \cup Hooked
    /\ Wire!Ask(j)
    /\ outcome' = [outcome EXCEPT ![j] = "sending"]
    /\ UNCHANGED <<cycle, ledger, given, said, known>>

\* It fails before the exchange: the Stream cannot be gathered, the target
\* is no URL, the secret cannot be read.
SendUnsent(j) ==
    /\ Due(j) /\ j \in Posted
    /\ \E how \in Failure : outcome' = [outcome EXCEPT ![j] = how]
    /\ UNCHANGED <<wireVars, cycle, ledger, given, said, known>>

\* EventWire::carry: no webhook is configured for the Party.
CarryUnhooked(j) ==
    /\ Due(j) /\ j \in Forwarded \ Hooked
    /\ outcome' = [outcome EXCEPT ![j] = "failed"]
    /\ UNCHANGED <<wireVars, cycle, ledger, given, said, known>>

\* The exchange ends with a status, which is judged.
Judged(j) ==
    /\ Wire!Answer(j)
    /\ \E s \in said[<<j, asked[j]>>] : outcome' = [outcome EXCEPT ![j] = judge(s)]
    /\ UNCHANGED <<cycle, ledger, given, said, known>>

\* The exchange ends with what was said unasked, judged all the same, or
\* with a failure of its own: of the socket, of what came back, or of a
\* connection that could not be made (https without the tls feature).
Missed(j) ==
    /\ Wire!Miss(j)
    /\ \E how \in IF told'[j] = "stray" THEN {judge(STRAY)} ELSE Failure :
            outcome' = [outcome EXCEPT ![j] = how]
    /\ UNCHANGED <<cycle, ledger, given, said, known>>

----------------------------------------------------------------------------
\* The receiver (HttpTransport::receive_up_to, server::verdict).

\* A request is taken and its Stream goes into the receive cycle, its
\* caller waiting.
Arrive(j, n) ==
    /\ Wire!Act(j, n)
    /\ cycle' = cycle \cup {<<j, n, acted[j][n] + 1>>}
    /\ UNCHANGED <<outcome, ledger, given, said, known>>

\* What a far end that honors keys remembers of this one.
Remembered(j, n) == {k \in known : Honors /\ k[1] \in Key(j, n)}

\* An arrival's acknowledgement is given, once, or let go with it.
Acknowledged(a) == cycle' = cycle \ {a}

\* The answer is written, or the caller's connection broke before it.
Answered(j, n, s) ==
    \/ said' = [said EXCEPT ![<<j, n>>] = @ \cup {s}]
    \/ UNCHANGED said

\* The receive cycle ends in a verdict, which the acknowledgement answers.
\* A failure is no outcome to remember: nothing was done.
Conclude(a, v) ==
    LET j == a[1]
        n == a[2]
    IN  /\ Remembered(j, n) = {}
        /\ Acknowledged(a)
        /\ given' = [given EXCEPT ![j] = @ \cup {v}]
        /\ ledger' = IF v = "Accepted" THEN [ledger EXCEPT ![j] = @ + 1]
                                       ELSE ledger
        /\ known' = IF Honors /\ v # "Failed"
                    THEN known \cup {<<k, status(v)>> : k \in Key(j, n)}
                    ELSE known
        /\ Answered(j, n, status(v))
        /\ UNCHANGED <<wireVars, outcome>>

\* A repeated one is answered with the first one's outcome.
Repeat(a) ==
    LET j == a[1]
        n == a[2]
    IN  /\ Acknowledged(a)
        /\ \E k \in Remembered(j, n) : Answered(j, n, k[2])
        /\ UNCHANGED <<wireVars, outcome, ledger, given, known>>

\* The Reply is dropped unanswered, no verdict given: a restart.
LetGo(a) ==
    /\ Acknowledged(a)
    /\ UNCHANGED <<wireVars, outcome, ledger, given, said, known>>

----------------------------------------------------------------------------
Next ==
    \/ \E j \in Streams :
        \/ Send(j) \/ SendUnsent(j) \/ CarryUnhooked(j)
        \/ Judged(j) \/ Missed(j)
        \/ \E n \in 1..MaxSends : Arrive(j, n)
    \/ \E a \in cycle :
        \/ \E v \in Verdicts : Conclude(a, v)
        \/ Repeat(a)
        \/ LetGo(a)

Spec == Init /\ [][Next]_vars

----------------------------------------------------------------------------
\* Properties.

\* What a sender holds for sent is in custody: no broken connection, resend
\* or restart makes a 2xx of a Stream nobody took (README, "202": the Stream
\* is in Xmip's custody).
SentIsInCustody == \A j \in Streams : outcome[j] = "sent" => ledger[j] > 0

\* A status gives a Stream up only where the receive cycle refused that
\* Stream: not a verdict that failed, an answer repeated to a later send, or
\* what a server said as it closed an idle connection.  What else gives one
\* up is a failure permanent in itself (server::status, status::retryable).
RefusedOnlyByVerdict ==
    \A j \in Streams : outcome[j] = "refused" => given[j] \cap Refusals # {}

\* To a far end that honors the key, a Journey's Stream is taken once
\* however often it is sent, and one a status gave up was not taken.  One
\* given up for a failure may have been: its answer was lost.
TakenOnce ==
    Honors => \A j \in Posted :
        /\ ledger[j] <= 1
        /\ outcome[j] = "refused" => ledger[j] = 0
=============================================================================
