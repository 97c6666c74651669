----------------------------- MODULE EventWire -----------------------------
(***************************************************************************)
(* The event capability's webhook (src/src/event_wire.rs): each Party's    *)
(* events are posted to the webhook configured for it, one at a time, sent *)
(* again while their failures are retryable, and read back off the request *)
(* by the Xmip that takes it.  The exchange is Exchange's: an event may    *)
(* arrive twice, and after its exchange was given up.                      *)
(*                                                                         *)
(* External: the Forwarder of xmip-core-event, which carries a Party's     *)
(* events in order and goes on to the next once one is carried or given    *)
(* up; the binding, which wrote what is carried; the webhook.              *)
(***************************************************************************)
EXTENDS Naturals, Status, Requests

CONSTANTS
    Parties,    \* whose events are forwarded, each by a thread
    Urls,       \* the URLs a webhook is configured at
    Tokens,     \* the bearer tokens presented
    MaxEvents,  \* bound: events of a Party
    MaxSends    \* bound: how often anything of a Party's is carried

VARIABLES
    webhooks,   \* EventWire::webhooks
    published,  \* published[p][k]: the k-th event of p, as the binding wrote it
    head,       \* head[p]: the event forwarded now
    outcome,    \* of the last send: one of Outcomes
    dropped,    \* the events, by Party and place, given up for a failure
    carries,    \* carries[p]: the events sent, one for each exchange
    asked, told, acted,  \* the wire, as Exchange has it
    arrived,    \* the requests that reached a webhook
    said        \* said[p]: the statuses answered to the exchange under way

wireVars == <<asked, told, acted>>
vars ==
    <<webhooks, published, head, outcome, dropped, carries, wireVars, arrived, said>>

Wire == INSTANCE Exchange WITH Senders <- Parties, MaxAsks <- MaxSends

Sends == 1..MaxSends
NoWebhook == [path |-> NoValue]

\* Webhook: its endpoint, the identity presented there, whether HTTP/2 is
\* known to be spoken in the clear.
Webhooks ==
    {[secure |-> url.secure, authority |-> url.authority, path |-> url.path,
      authorization |-> IF token = NoValue THEN NoValue ELSE "Bearer " \o token,
      h2c |-> h2c] : url \in Urls, token \in Tokens \cup {NoValue}, h2c \in BOOLEAN}

ASSUME UrlAssumption ==
    Urls \subseteq [secure : BOOLEAN, authority : STRING, path : STRING]
ASSUME BoundAssumption == MaxEvents \in Nat /\ MaxSends \in Nat

\* A Carried, as the binding writes the k-th event: in structured mode all
\* of it is the body; in binary mode its attributes are `ce-` headers, and
\* its data is of some media type or of none.
Media == {"application/cloudevents+json", "application/json", NoValue}

Written(media, k) ==
    [content_type |-> media,
     headers |-> IF media = "application/cloudevents+json" THEN <<>>
                 ELSE Header("ce-id", "e"),
     body |-> k]

\* Webhook::request.
request(webhook, c) ==
    [path |-> webhook.path,
     headers |-> Header("Host", webhook.authority)
                    \o Header("Content-Type", c.content_type)
                    \o c.headers
                    \o Header("Authorization", webhook.authorization),
     body |-> c.body]

\* Mutant of carried: the content type is looked for as it is written.
carriedAsWritten(r) ==
    [content_type |-> header_value(r.headers, "content-type"),
     headers |-> Chosen(r.headers, {i \in DOMAIN r.headers :
                                     r.headers[i][1] # "Content-Type"}),
     body |-> r.body]

\* event_wire::carried.
carried(r) ==
    [content_type |-> header_value(r.headers, "content-type"),
     headers |-> Chosen(r.headers, DOMAIN r.headers
                                     \ Named(r.headers, "content-type")),
     body |-> r.body]

\* What a connection to a webhook may speak: Offer::agreed(h2c), and ALPN.
Speaks(webhook) ==
    IF webhook.secure THEN {1, 2} ELSE IF webhook.h2c THEN {2} ELSE {1}

Init ==
    /\ webhooks \in [Parties -> Webhooks \cup {NoWebhook}]
    /\ published \in [Parties -> {[k \in 1..MaxEvents |-> Written(media, k)] :
                                    media \in Media}]
    /\ head = [p \in Parties |-> 1]
    /\ outcome = [p \in Parties |-> "unsent"]
    /\ dropped = {}
    /\ carries = [p \in Parties |-> <<>>]
    /\ Wire!Init
    /\ arrived = {}
    /\ said = [p \in Parties |-> {}]

----------------------------------------------------------------------------
\* The sender (EventWire::carry, and the Forwarder that calls it).

Due(p) == head[p] <= MaxEvents /\ outcome[p] # "sending"

\* carry begins: the event is posted to its Party's webhook.
Carry(p) ==
    /\ Due(p) /\ webhooks[p] # NoWebhook
    /\ Wire!Ask(p)
    /\ carries' = [carries EXCEPT ![p] = Append(@, head[p])]
    /\ outcome' = [outcome EXCEPT ![p] = "sending"]
    /\ said' = [said EXCEPT ![p] = {}]
    /\ UNCHANGED <<webhooks, published, head, dropped, arrived>>

\* What the Forwarder does of how it ended: the next event, or this again.
Ends(p, how) ==
    /\ outcome' = [outcome EXCEPT ![p] = how]
    /\ head' = IF how = "retry" THEN head ELSE [head EXCEPT ![p] = @ + 1]
    /\ dropped' = IF how = "failed" THEN dropped \cup {<<p, head[p]>>} ELSE dropped

\* No webhook is configured for the Party: a permanent failure.
CarryUnhooked(p) ==
    /\ Due(p) /\ webhooks[p] = NoWebhook
    /\ Ends(p, "failed")
    /\ UNCHANGED <<webhooks, published, carries, wireVars, arrived, said>>

\* The exchange ends with a status, judged.
Judged(p) ==
    /\ Wire!Answer(p)
    /\ \E s \in said[p] : Ends(p, judge(s))
    /\ UNCHANGED <<webhooks, published, carries, arrived, said>>

\* It ends with what was said unasked, judged all the same, or with a
\* failure, which keeps its own retryability.
Missed(p) ==
    /\ Wire!Miss(p)
    /\ \E how \in IF told'[p] = "stray" THEN {judge(STRAY)} ELSE Failure :
            Ends(p, how)
    /\ UNCHANGED <<webhooks, published, carries, arrived, said>>

----------------------------------------------------------------------------
\* The webhook: it takes an event, refuses it, cannot take it yet, or does
\* not answer; what was given up nobody waits for.

Answers == {202, 404, 503}

Arrives(p, n) ==
    /\ Wire!Act(p, n)
    /\ \E version \in Speaks(webhooks[p]) :
        LET r == request(webhooks[p], published[p][carries[p][n]])
        IN  arrived' = arrived \cup
                {[of |-> <<p, carries[p][n]>>,
                  request |-> [r EXCEPT !.headers = Came(@, version)]]}
    /\ \/ UNCHANGED said
       \/ /\ n = asked[p] /\ told[p] = "asking"
          /\ \E s \in Answers : said' = [said EXCEPT ![p] = @ \cup {s}]
    /\ UNCHANGED <<webhooks, published, head, outcome, dropped, carries>>

Next ==
    \E p \in Parties :
        \/ Carry(p) \/ CarryUnhooked(p) \/ Judged(p) \/ Missed(p)
        \/ \E n \in Sends : Arrives(p, n)

Spec == Init /\ [][Next]_vars

----------------------------------------------------------------------------
\* Properties.

\* No event is passed over for a status: when a later one of its Party's
\* arrives, it has arrived, or its own exchange failed for good.  What a
\* server says of an event before it, of an earlier attempt, or as it closes
\* an idle connection never costs an event, though requests are lost, come
\* twice, and come after they were given up (event_wire.rs:16-20).
NonePassedOver ==
    \A a \in arrived : \A k \in 1..a.of[2] :
        \/ <<a.of[1], k>> \in dropped
        \/ \E b \in arrived : b.of = <<a.of[1], k>>

\* What is read off a request is the event that was published, in either
\* mode and version: its content type, under whatever name it comes, and
\* none of it among the attributes; its attributes, none lost or added; its
\* body (tests/event_wire.rs, "arrives_as_the_same_event").
ReadBackAsPublished ==
    \A a \in arrived :
        LET was == published[a.of[1]][a.of[2]]
            read == carried(a.request)
        IN  /\ read.content_type = was.content_type
            /\ header_value(read.headers, "content-type") = NoValue
            /\ Chosen(read.headers, Named(read.headers, "ce-id")) = was.headers
            /\ read.body = was.body
=============================================================================
