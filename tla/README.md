# xmip-core-transport-http, in TLA+

A verification development beside the crate: modules that model what it does
between threads, connections and runtimes, TLC configurations that check them
on small instances, and proofs that hold for every instance. Paths like
`inbound.rs` are the crate's `src/` files.

## The system

| Component | State it keeps | Operations | Hard because |
| --- | --- | --- | --- |
| **Receive Location** (`inbound.rs`) | the listener; per connection: its line (version, buffer or HTTP/2 server, `more`), a busy mark, the one `Reply` held by the runtime | `next` (poll, accept, turn), `Reply::answer`, a `Reply` dropped | one thread takes turns while any thread answers; callers pipeline, stall, garble and hang up; an answer locks the line a turn locks |
| **Connections** (`endpoint.rs`) | the pool: kept connections by (scheme, address, offer); per connection: version, whether the last answer left it open, GOAWAY read | `exchange`: take or open, write, read, put back or close; resend once on reuse | far ends close, restart, say GOAWAY and speak unasked against any step; threads share the pool |
| **serve_one** (`server.rs`) | none between calls; one connection at a time | accept, read one request, GOAWAY, answer, close | the close waits for the client, the client keeps connections, others are queued |
| **Custody** (`lib.rs`, `server.rs`, `status.rs`) | none of its own; the runtimes' | `post`, `receive_up_to`, `status`, `judge` | a resend, a lost answer or a restart between any two steps |
| **Event wire** (`event_wire.rs`) | each Party's webhook, Connections | `to`, `carry`, `carried` | an event given up lets the next overtake it; no key; a request is written by one end and read by another, in two modes and two versions |
| **Basic authentication** (`basic.rs`, `server::Sender`) | none: the vault is read at each request | `basic`, the arrival's headers | the vault is rotated and the far end retires passwords while requests are on the way |
| **Location's address** (`lib.rs`) | the listener bound | `configured`, `bind`, `listening`, `post` | an address is read by two readers, each with its own defaults |
| **Deduplication key** (`lib.rs`) | none | `idempotency_key` | every character comes back out, or two keys are one |
| Sender's origin, settings, fixture | none | copying fields | no decision of this crate reads them |

How they meet: `HttpTransport::post` and `EventWire::carry` call
`Connections::exchange` and judge the answer; `HttpTransport::receive_up_to`
calls `Inbound::next` and puts the `Reply` into the arrival's acknowledgement,
so the runtime's verdict becomes the status the sender judges. Caller and
Location, sender and far end share only a socket.

What makes each correct:

- Receive Location: answers in the order of requests, none swallowed; at most
  one request owed on a connection; nothing read is stranded; nothing after
  the last is taken; a caller whose request was taken is told or let go.
- Connections: nobody is told another's answer, or what was said while the
  connection was idle; a version is spoken only if offered; a request is acted
  on at most twice; every exchange ends; connections under one key do not pile
  up.
- serve_one: no request written where it will not be read, but after an HTTP/1.1
  answer that said keep-alive; no waiting in a circle.
- Custody: sent means in custody; given up for a status means refused; with a
  key honored, taken once.
- Event wire: none of a Party's events passed over for a status; each read back
  as published.
- Basic: presented on every request as the vault held it when the request was
  built, and nothing presented in its place when it held nothing.
- Address: what is posted to a Location's own URL reaches it and no other, or is
  refused rather than met in the clear.
- A sender and a Location together: the Location is a far end as Connections
  assumes one, each post gets its own verdict, and every post ends.

The `serving`, `pool` and `answer` parts of the transport capability, the codecs
of `net`, TLS and the runtimes are other repositories. They are modelled from
how `src/` uses them, and the pool also from the account the crate's README gives
of it ("Connected once, not per request"). PROJECT.json marks them external.

## The modules

| Module | Models | Implements |
| --- | --- | --- |
| `CallerWaits` | what a Receive Location promises its callers | |
| `Inbound` | `inbound.rs` whole | `CallerWaits` (`ImplementsPromise`) |
| `InboundProofs` | theorems about Inbound | |
| `Exchange` | what `Connections::exchange` promises a sender | |
| `Connections` | `endpoint.rs` whole, its pool and its far ends | `Exchange` (`ImplementsExchange`) |
| `ConnectionsProofs` | theorems about Connections | |
| `RoundTrip` | `Connections` and `Inbound` at the two ends of the same connections (INSTANCE of both) | `Connections`, its far ends being Inbound (`FarEndAsAssumed`) |
| `RoundTripProofs` | theorems about RoundTrip, over `InboundProofs` and `ConnectionsProofs` (INSTANCE of both) | |
| `Status` | `status` and `judge`: the numbers between the two ends | |
| `Custody` | `post`, `receive_up_to`, `carry`, over `Exchange` (INSTANCE Wire) and `Status` | |
| `CustodyProofs` | theorems about Custody | |
| `Requests` | headers as written at one end and read at the other, in either version | |
| `EventWire` | `event_wire.rs` whole, over `Exchange`, `Status`, `Requests` | |
| `EventWireProofs` | theorems about EventWire | |
| `IdempotencyKey` | `idempotency_key`, and the reading of its value | |
| `SecuredSend` | `basic`, the request `post` builds and the arrival, over `Exchange`, `Status`, `Requests`, `IdempotencyKey` | |
| `SecuredSendProofs` | theorems about SecuredSend, and about a key of any length | |
| `Locations` | `configured`, `bind`, `listening`, and where a post goes | |
| `LocationsProofs` | theorems about Locations | |
| `ServeOne` | `serve_one` in a loop, against clients that keep connections | |
| `ServeOneProofs` | theorems about ServeOne | |
| `MC*` | instances of each for TLC | |

### Inbound

Requests of a connection are counted rather than carried: the socket keeps
their order, so `sent` >= `read` >= `taken` says which are on the wire, in the
buffer (or finished in the HTTP/2 server), and handed to `hear`. `tail` is
what follows the last whole request: nothing, part of another, octets no codec
reads, or the end. `place` is where the connection is (on the listener, kept,
gone), `speaking`, `more`, `busy` are the code's, `locked` is the line mutex as
the receiving thread holds it. `replies` holds every `Reply` not yet consumed.

`Caller::turn` is four kinds of step: `Turn` (or `TurnOnPoke`) locks the line
and tells the version; `ReadRequest` / `ReadFrame` read a request and hand it
to `hear` - which leaves it waiting, answers it now (the lock let go first) or
finds the socket cannot be held; `ReadNothing` and `ReadEnds` end a turn that
took none. `Written` is the function `written`, one step because it holds the
mutex; `Released` is the end of the `Answer` hold after it, a step of its own
because the poll may look in between. `Dropped` is a Reply let go unanswered.

### Connections and Exchange

A thread's exchange is `Take` or `TakeNone`/`Open`, `Ask`, `ReadGoAway`*, then
`Told` or `Fails`; `Fails` on a reused connection opens another. A link has
two sides: what this side knows, and what the far end is doing with it, so that
"looked quiet" and "has closed since" can both be true. `Fit` is
`Kept::usable`. A target says whether it is to be guarded, its address and the
offer; `tls` is whether a link was handshaken, and `HasTls` whether the feature
that can is compiled in (not, in RoundTrip: a Location listens in the clear).
Exchange keeps of all this the requests asked, how the last ended, and how often
each was acted on.

### RoundTrip

The variables are those of Connections' own side and all of Inbound's; what
Connections keeps of a far end (`far`, `coming`, `doing`, `back`, `acted`) is
read off Inbound's, with `log` saying which request is the n-th on a link and
`heard` how many answers were read. A step of one that is on the socket is a
step of both: `Open` is Inbound's `Connect`, `Ask` its `Send`, a link closed is a
`HangUp` to come. That everything Inbound does is something Connections allows
a far end is not built in: it is the property `FarEndAsAssumed`.

### Custody

The wire is Exchange's state and actions; each arrival (`Act` of the wire) goes
through a receive cycle that ends in a verdict, a repeat answered from memory
(where keys are honored), or nothing at all. Statuses and the judgment are
the code's numbers and thresholds.

A send that ends with no status keeps its error's own retryability: `Failure` is
both, because which errors are permanent is decided where they are made (the
socket's kind, a target that is no URL, https in a build without tls,
`endpoint.rs:253-262`), mostly outside this crate. It may fail before the exchange
(`SendUnsent`: the gathering, the target, the secret) or in it (`Missed`), here as
in EventWire and SecuredSend. So a send is given up in one of two ways that the
outcome tells apart: `"refused"` for a status, `"failed"` for a permanent failure.

### EventWire

`published` is what the binding of xmip-core-event wrote, in structured or binary
mode; `request` and `carried` are the code's. `carries` remembers which event
the n-th exchange of a Party was for, so that one that arrives late is the one
sent then. The Forwarder goes on to the next event once `carry` says carried,
refused for good or failed for good, and only then; `dropped` is history, the
events it left behind for a permanent failure.

### SecuredSend and IdempotencyKey

`posted` holds the headers of each request as `post` built them, the key and the
password read then; `vault` and `admitted` change at any step. `owed` is history:
what the vault held as the last send began, as long as the far end went on
admitting it. A password is told apart from others and from the unset one by its
name, so base64 is left out. A key is a sequence of characters; `idempotency_key`
folds over it as the code's loop does, and `Reading` is the parser of RFC 8941
(section 4.2.5), which fails on a character that is not `Printable` (%x20-7E). The
code writes such a character as it is, so a key that has one reads as malformed:
never cut short and never another key, but honored by nobody. A Journey's key is a
UUID. Whether `net::http` writes such a value at all is outside this crate.

### Locations

`entered` is the address an operator gave, `opened` the `HttpTransport` made of it,
`bound` the listener. `Bind` fills in the port `configured` fills in, `Address` the
one net::Endpoint does. `post` is the last post and where it got.

### ServeOne

`line`, `unread` and `wire` are a client's connection as the far end has it, as
written by the client and as written by the far end; the far end's `step` is
where `answer_on` stands. Over HTTP/1.1 the answer carries whatever Connection header
the session gave it (`event_wire.rs:211-239` serves keep-alive), and then the
connection is dropped: two steps, `Answer` and `Drop`. In between a client that read
keep-alive (`kept`) may ask again on it; nobody reads that request, and its client
reads the end.

## The runs

| Run | Bounds | Shows |
| --- | --- | --- |
| `inbound_safety` | 2 connections, 2 requests each | the safety of Inbound; two are enough for a turn on one while the other is answered, and for a request pipelined behind one owed |
| `inbound_live` | 2 connections, 1 request each | CallerWaits implemented, liveness included; a stalled caller does not starve another, one that hangs up is let go |
| `connections_safety` | 2 threads, 1 endpoint, 3 links, 2 requests each | answers never mixed up; three links let one be resent while another is kept and a third is held |
| `connections_promise` | 1 thread, 1 address under 4 schemes and offers, 3 links, 2 requests | Exchange implemented; versions as offered and nothing guarded in the clear: two requests are one under one key and one under another, with the first's connection kept |
| `connections_opened` | 2 threads, 1 endpoint | **violated**: what `Connections::opened` is documented to count |
| `round_trip` | 2 threads, 2 links, 2 requests each, both sides' timeouts | a Location is a far end as assumed; own verdicts; one connection a thread. Two links let one be let go and another opened |
| `round_trip_live` | 2 threads, both versions, 2 links, 1 request each, no timeouts | every post ends with nobody's timeout to end it |
| `custody` | a keyed Stream sent up to 3 times, each arriving up to twice, an event with no webhook | custody once, and a status gives up only what was refused: a third send after two that were lost in different ways |
| `event_wire` | 1 Party, 2 events, 4 sends | order and reading back; four sends let each event be sent again |
| `secured_send` | 1 Stream, 2 passwords, 4 awkward keys, 2 sends | a rotation on either side of each send, an arrival after its send was given up; keys that differ in what is escaped alone, and one with a tab |
| `locations` | 2 Locations with every pair of addresses on one host, ports 80 and 443 and none | the defaults of both readers, both ways round |
| `serve_one` | 2 clients that keep connections and one that may say nothing on its, 3 connections or requests each | no circle of waiting, a timeout only for the one that says nothing, and a request lost on a spent connection only after a keep-alive; three so that a client keeps, is sent away, and comes back |

Every property of a passing run has a mutant: a definition changed as a bug
would change it, which TLC finds violating the property (`mutants` in PROJECT.json;
the mutated forms are in the modules, beside what they mutate).

Deadlock is not checked: connections are used once and requests are bounded, so
every instance comes to rest.

Bounds: `MaxRequests`, `MaxAsks`, `MaxSends` cap counters in guards, `Links` is
the number of connections that can ever be opened. Symmetry is used only in the
runs that check no liveness.

### Fairness

- Inbound: the runtime calls `next` again and again (`Bind`, `Accept`, a turn:
  strong, because a connection is ready only between the turns of others), a
  turn begun is read on (weak: the thread has nothing else to do, and `timeout`
  is set, `TimesOut`), and a Reply is settled (weak: the runtime gives a
  verdict or drops it). Nothing is assumed of callers.
- Connections: a thread goes on with its exchange (weak), with a timeout. Nothing
  is assumed of far ends. Without the timeout an exchange need not end
  (mutant `BrokenUntimed`).
- RoundTrip: as each side has it alone, without the timeouts of either, and the
  close of one end is seen at the other (`HangUp`, weak: the system's sockets).
  With a timeout that a post ends would be no news.
- ServeOne: the loop goes on, queued connections are accepted in turn (strong per
  client), a client that waits reads what comes. No client has to ask or to
  hang up. `Slow` are the clients the timeout may strike: only the one that may say nothing, so
  that what holds of the others owes nothing to it.

## What is proved

By TLAPS, for every value of the constants that meets the assumptions the
modules state of them: any set of callers, threads, clients, Streams, Parties
or links, any targets, keys and passwords, any bound on requests, timeouts set
or not. The assumptions are what makes a value one of its kind (a `NoCaller` is
no caller, a bound is a number, a key is a sequence of strings, `TimesOut` is a
Boolean), and that the threads are finitely many (`SendersAssumption`), which
only the promise and the bound on connections use. RoundTrip has at least one
thread and one request, since Inbound's bound is their product. Each inductive
invariant was checked by TLC on the module's run before it was proved.

### Inbound (`InboundProofs`)

- `Invariant`: `IInv` is inductive. None of the safety properties is by itself:
  that answers come in order needs to know that the one Reply held is to the
  last request taken (`ReplyInv`), that a connection neither busy nor let go
  owes nothing (`OrderInv`), that a turn runs only on a connection that is not
  busy and the lock is the turn's alone (`TurnInv`), and that the line speaks
  what the caller opened with (`SpeakInv`); that nothing follows the last, that
  after it the connection is not kept except by the turn answering it
  (`LastInv`). `CountInv` orders the counters.
- `TypeCorrect`, `AnsweredInOrder`, `NoVerdictSwallowed`, `BusyAsHeld`,
  `NoneAfterLast`: consequences of `IInv`.
- `NoneStranded`: `NothingStranded`, with an invariant of its own for
  what `more` says.
- `KeepsPromise`: every step of Inbound is a step of CallerWaits or a stutter
  (`SafeSpec => ImplementsPromiseSafely`), action by action under `IInv`.

### Connections (`ConnectionsProofs`)

- `Invariant`. That a thread is told its own answer (`TellsItsOwn`, `AnswerIsOwn`)
  is not inductive: a word said while a link was idle, or an answer nobody read,
  would be told to the next. It takes that a held link has one holder (`HoldInv`),
  that a link carries the one request of its holder, in one place - on its way,
  acted on or answered - and none when it is kept (`CarryInv`), that a far end which
  spoke unasked said nothing after it and reads no more (`SaidInv`), that nothing
  is under way on a link this side gave up (`SideInv`).
- `CarriesNothing` (`NothingPending`) follows from `CarryInv`;
  `SpeaksWhatIsOffered` and `NotInTheClear` (`VersionOffered`, `NeverInTheClear`)
  from `KeyInv`: what a link is found by tells the scheme and the offer it was
  opened for.
- `TypeCorrect` (`TypeOK`) and `KeepsPromise` (`SafeSpec => ImplementsExchangeSafely`):
  that a request is acted on at most twice takes a budget. The times it was acted
  on, the links it is on its way on and the writes its thread has left (`Left`) are
  two at most together (`TwiceInv`); that an answer was acted on, that what is being
  done or answered was (`ActedInv`).
- `NoMoreThanThreads` (`Bounded`): the connections held or kept under a key and
  the threads about to open one for it are no more than the threads that ever
  posted (`BoundInv`), because a thread that is to open one has closed every one
  kept under the key: what is left is held, each by another thread.

### RoundTrip (`RoundTripProofs`)

What is proved of each side alone is used as it stands: the two modules of proofs
are instantiated for the two sides, and a step of RoundTrip is shown to be a step of
each or to leave it alone (`CallerSame`, `PollSame` and the others that end in
`Same`; `JointStep`). Only what joins the two is new.

- `Invariant`: `JInv` is both sides' `IInv` and three parts of its own. `LogInv`: what
  is on the socket was written by a thread, each request once, and what was read
  was answered. `CallerInv`: the sender is a caller that writes whole requests, never
  says close, and hangs up only on what it closed; a connection is new, and queued,
  at both ends or neither. `WayInv`: one request is on its way at most, and none on a
  line that is down, so that no answer is left behind one.
- `FarEndIsAssumed` (`FarEndAsAssumed`): what Connections keeps of a far end is read
  off the Location, and each step of the Location's is `Act`, `Answer` or `Close` of that
  far end, or nothing the sender sees. There are four effects behind its dozen
  actions: `Stirs` (a connection comes or goes), `HearsAs` (a request is taken, or its
  connection let go instead), `WritesTo` (an answer, the last or not) and `EndsFor` (a
  Reply ends with nothing written). `Act` takes that the request was acted on at no
  other connection, so that it is counted once more (`ActedSame`, `OneChanged`); `Answer`
  that an answer is the first and only one unread (`NoneBack`); and `Close` that whoever
  let the connection go owes nothing that can still be told.
- `OnlyOwn` (`OnlyOwnVerdict`): a Location says nothing unasked, so the words that
  Connections has to reckon with (`"late"`, `"idle"`) never come: part of `JInv`.
- `OneEachKept` (`OneConnectionEach`): by the bound of `NoMoreThanThreads`.
- `LocationKeepsPromise`, `SenderKeepsPromise`: the promises of `CallerWaits` and
  `Exchange` hold of the two together, since each side's steps are its own module's.

### Custody (`CustodyProofs`)

- `Invariant`: a status means something - 202 that the ledger has the Stream, a
  refusal that one was given - wherever it is: said, or remembered
  under the key (`MeantInv`). A far end that honors the key remembers one outcome,
  answers that or a failure, and takes the Stream by it alone (`RememberInv`).
- `Custody202` (`SentIsInCustody`), `RefusedByVerdict` (`RefusedOnlyByVerdict`),
  `TakesOnce` (`TakenOnce`). `TypeCorrect` (`TypeOK`) bounds the ledger by the
  arrivals that are over, a count of pairs (`CountInv`).

### ServeOne (`ServeOneProofs`)

- `Invariant`: `WireOf` says, for each client and each step of `answer_on`, what is
  on its connection in either direction; GOAWAY ahead of the answer is what keeps a
  client that is through from the connection that is closing, and a request that is
  on one being dropped is of a client that was told keep-alive. `TypeCorrect`
  (`TypeOK`), `StrandsNone` (`NoneStranded`).

### EventWire (`EventWireProofs`)

- `PassesNoneOver` (`NonePassedOver`): by `Invariant`, the n-th exchange carried the
  event at the head as it began (`CarriesInv`), and the head moves on only
  from an event that arrived or failed for good (`ForwardInv`).
- `ReadsAsPublished` (`ReadBackAsPublished`): what arrived is the request of what was
  published, as it comes in one version or the other (`ReadInv`). That headers say
  one value once under a name, or nothing (`Says`), is kept by writing them one after
  another, by the way to the other end and by the filter of `carried` (`JoinSays`,
  `CameSays`, `ChosenSays`). `SelectSeq` is unknown to the provers, so the filter is
  written as what it selects (`Chosen`: the headers at given places, in their order);
  that there is an order of those places, and that it runs through each once, is
  `Enumerated`.

### SecuredSend and IdempotencyKey (`SecuredSendProofs`)

- `ReadsBack`: the value of a key of any length, over any characters, reads back as
  that key if all of them are printable, and is malformed if not. It is an induction over the key, and the library's induction theorems
  take an operator, which no prover here can instantiate; the proofs go by the least
  place where the claim fails instead (`Least`, from the library's theorem that a
  well-founded relation has minimal elements). First that the function
  `FoldLeft` chooses exists and runs along the sequence (`FoldExists`,
  `WriteRuns`, `ReadRuns`), so that one more character is one more step
  (`WriteOneMore`, `ReadOneMore`); then that a reader of what was written so far is
  inside the string with exactly those characters, or failed at one that is not
  printable (`WrittenReads`).
- `KeyArrivesWhole` (`KeyReadsBack`), `NeverAnonymous` (`PresentsAPassword`): by
  `Invariant`, what arrived is a request that was posted, in one version or the other
  (`CameInv`), and each says the Journey's key and a password the vault held (`PostedInv`).
- `GivenUpByRightOnly` (`IdentifiedIfAdmitted`): where a send is owed an identity the
  last request says that password, it is still admitted, and no status said to it
  is one that refuses (`OwedInv`).

### Locations (`LocationsProofs`)

- `ReadersAgree` (`AddressesMeet`) and `MetGuardedOrNot` (`NeverMetInTheClear`), action
  properties, from `Invariant`: where a Location listens it is the place its address
  names, nobody else listens there, and the address is not `https://` (`ListensAsEntered`);
  `Somewhere` is the lemma that the two readers agree.

### Only model-checked

- Every liveness property, and the fairness part of the two refinements:
  `EveryRequestTaken`, `HungUpLetGo`, `EveryAskEnds`, `EveryPostEnds`,
  `ImplementsPromise`, `ImplementsExchange` (liveness under fairness and ENABLED are
  out of the prover's reach).

Every invariant and every action property of the passing runs is a theorem.

## Where code and text disagree

`Connections::opened` (`endpoint.rs:196`) is documented as one per endpoint
while the far end keeps them. Threads that send at once open one each, as the
crate's README says (and different offers to one endpoint too, by `Key`). Run
`connections_opened`.

## What is not modelled, and why

- A late word on a connection that looked quiet (408 on the way while the
  request is written) is told as the answer: `Connections` shows it cannot be
  excluded (`"late"`), Custody shows what becomes of it.
- A far end that answers a repeated key 409 Conflict: judged permanent by
  `retryable`; what other makers' servers answer is not in this repository.
- How long a write may take while the poll wants the same line's mutex: the
  order in which `Serving` asks is another repository's.
- A password retired at the far end while requests that present it are on the way:
  they are answered 401, which is judged permanent. `IdentifiedIfAdmitted` says
  exactly when this cannot happen; that it can otherwise is the far end's doing.
- `HasTls` FALSE with a target to be guarded: one guard of `Open`, with no state.
- The peer, method, target and query of `server::Sender`: copied from the request
  field by field, and read by no decision of this crate.
- The settings' reader: another repository's. What is set appears as `TimesOut`
  and as the offer of a target or webhook.
- Dead connections under keys nothing is posted to again (`endpoint.rs:333-338`): that
  opening a connection closes every unusable one kept, whatever its key, is the pool's.
  Connections has it as an assumption (`Swept`), and no property says it again;
  `Bounded` is of one key.
- Which failures are permanent: the errors of the socket, of `net` and of the vault say
  so themselves, and here every failure may be either.
- Base64; origins and the texts of errors: formatting.
- `server::accept_one`, `impl Loopback` (`lib.rs`), `fixture.rs` and the fixtures of the tests: far ends for
  tests, which Connections' far ends include.

## Plan

Every component is modelled but for what is listed above, and every safety property
the runs check is proved, but for the one that is violated. What is left is what
the provers cannot do: the liveness properties stay with TLC on the instances above,
until a prover takes fairness and ENABLED.
