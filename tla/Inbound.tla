------------------------------ MODULE Inbound ------------------------------
(***************************************************************************)
(* A Receive Location's kept connections (src/src/inbound.rs): one thread  *)
(* receives (Inbound::next), taking a turn on a connection that is ready   *)
(* and not busy; a request that carries a Stream leaves a Reply with the   *)
(* runtime, which answers it - or lets it go - from any thread after the   *)
(* receive cycle.  Requests of one connection are numbered 1, 2, ... in    *)
(* the order their last octet was sent; TCP keeps that order, so a count   *)
(* says which of them are on the socket, read, taken.                      *)
(*                                                                         *)
(* What the code takes from elsewhere is modelled from its use here: the   *)
(* poll of transport::serving::Serving, the hold of transport::answer      *)
(* (busy until answered, shut where dropped), the codecs of net::http and  *)
(* net::http2, and the caller at the other end of the socket.              *)
(***************************************************************************)
EXTENDS Naturals, Sequences, FiniteSets

CONSTANTS
    Callers,      \* the connections callers make, each used once
    NoCaller,     \* no turn is on
    MaxRequests,  \* bound: requests a caller sends on one connection
    TimesOut      \* whether the Location's `timeout` is set

ASSUME CallersAssumption == NoCaller \notin Callers
ASSUME BoundAssumption == MaxRequests \in Nat \ {0}
ASSUME TimeoutAssumption == TimesOut \in BOOLEAN

VARIABLES
    \* the caller and the socket
    version,   \* 1 or 2: HTTP/1.1, or HTTP/2 by its preface
    sent,      \* whole requests sent
    closing,   \* the requests that say `Connection: close`
    tail,      \* what follows them: "quiet", "part", "junk" or "end"
    down,      \* nothing written reaches the caller any more
    answers,   \* the requests answered, in the order written
    \* the Receive Location
    bound,     \* the listener is bound
    place,     \* "away", "queued" on the listener, "kept" or "gone"
    speaking,  \* Line::speaking: "unheard", "one", "two" or "spent"
    read,      \* requests whole in this side's buffer or HTTP/2 server
    taken,     \* requests taken, handed to `hear`
    more,      \* Line::more
    busy,      \* Caller::busy
    locked,    \* the lines whose mutex the receiving thread holds
    turning,   \* whose turn is on
    stage,     \* "polling", "reading" or "answering"
    \* the runtime
    replies    \* every Reply not yet consumed

callerVars == <<version, sent, closing, tail>>
lineVars == <<speaking, read, taken, more>>
turnVars == <<locked, turning, stage>>
vars == <<callerVars, down, answers, bound, place, lineVars, busy, turnVars,
          replies>>

Requests == 1..MaxRequests
NoStream == 0  \* Reply::stream is None: HTTP/1.1

\* A Reply: `now` where the turn itself answers it (Heard::Answered);
\* `written` from the answer on the wire until the hold on the line ends.
Reply == [caller : Callers, n : Requests, stream : Requests \cup {NoStream},
          last : BOOLEAN, now : BOOLEAN, written : BOOLEAN]

TypeOK ==
    /\ version \in [Callers -> {1, 2}]
    /\ sent \in [Callers -> 0..MaxRequests]
    /\ closing \in [Callers -> SUBSET Requests]
    /\ tail \in [Callers -> {"quiet", "part", "junk", "end"}]
    /\ down \in [Callers -> BOOLEAN]
    /\ answers \in [Callers -> Seq(Requests)]
    /\ bound \in BOOLEAN
    /\ place \in [Callers -> {"away", "queued", "kept", "gone"}]
    /\ speaking \in [Callers -> {"unheard", "one", "two", "spent"}]
    /\ read \in [Callers -> 0..MaxRequests]
    /\ taken \in [Callers -> 0..MaxRequests]
    /\ more \in [Callers -> BOOLEAN]
    /\ busy \in [Callers -> BOOLEAN]
    /\ locked \in SUBSET Callers
    /\ turning \in Callers \cup {NoCaller}
    /\ stage \in {"polling", "reading", "answering"}
    /\ replies \in SUBSET Reply

Init ==
    /\ version \in [Callers -> {1, 2}]
    /\ sent = [c \in Callers |-> 0]
    /\ closing = [c \in Callers |-> {}]
    /\ tail = [c \in Callers |-> "quiet"]
    /\ down = [c \in Callers |-> FALSE]
    /\ answers = [c \in Callers |-> <<>>]
    /\ bound = FALSE
    /\ place = [c \in Callers |-> "away"]
    /\ speaking = [c \in Callers |-> "unheard"]
    /\ read = [c \in Callers |-> 0]
    /\ taken = [c \in Callers |-> 0]
    /\ more = [c \in Callers |-> FALSE]
    /\ busy = [c \in Callers |-> FALSE]
    /\ locked = {}
    /\ turning = NoCaller
    /\ stage = "polling"
    /\ replies = {}

----------------------------------------------------------------------------
\* The caller: it may pipeline, stall inside a request, send what no codec
\* reads, and hang up between requests or inside one.

Connect(c) ==
    /\ bound /\ place[c] = "away"
    /\ place' = [place EXCEPT ![c] = "queued"]
    /\ UNCHANGED <<callerVars, down, answers, bound, lineVars, busy, turnVars,
                   replies>>

OnLine(c) == place[c] \in {"queued", "kept"} /\ ~down[c]

\* A whole request, all at once or the rest of one begun.
Send(c) ==
    /\ OnLine(c) /\ tail[c] \in {"quiet", "part"} /\ sent[c] < MaxRequests
    /\ sent' = [sent EXCEPT ![c] = @ + 1]
    /\ tail' = [tail EXCEPT ![c] = "quiet"]
    /\ \/ UNCHANGED closing
       \/ closing' = [closing EXCEPT ![c] = @ \cup {sent[c] + 1}]
    /\ UNCHANGED <<version, down, answers, bound, place, lineVars, busy,
                   turnVars, replies>>

Begin(c) ==
    /\ OnLine(c) /\ tail[c] = "quiet" /\ sent[c] < MaxRequests
    /\ tail' = [tail EXCEPT ![c] = "part"]
    /\ UNCHANGED <<version, sent, closing, down, answers, bound, place,
                   lineVars, busy, turnVars, replies>>

\* Octets no codec reads, or the end of the stream inside a request.
Garble(c) ==
    /\ OnLine(c) /\ tail[c] \in {"quiet", "part"}
    /\ tail' = [tail EXCEPT ![c] = "junk"]
    /\ UNCHANGED <<version, sent, closing, down, answers, bound, place,
                   lineVars, busy, turnVars, replies>>

HangUp(c) ==
    /\ OnLine(c) /\ tail[c] = "quiet"
    /\ tail' = [tail EXCEPT ![c] = "end"]
    /\ UNCHANGED <<version, sent, closing, down, answers, bound, place,
                   lineVars, busy, turnVars, replies>>

----------------------------------------------------------------------------
\* The listener and the poll (Inbound::bound, Inbound::next, Serving).

Bind ==
    /\ ~bound
    /\ bound' = TRUE
    /\ UNCHANGED <<callerVars, down, answers, place, lineVars, busy, turnVars,
                   replies>>

\* Caller::new on a connection accepted; where its socket cannot be cloned
\* it is dropped.
Accept(c) ==
    /\ stage = "polling" /\ place[c] = "queued"
    /\ \E to \in {"kept", "gone"} : place' = [place EXCEPT ![c] = to]
    /\ UNCHANGED <<callerVars, down, answers, bound, lineVars, busy, turnVars,
                   replies>>

\* Mutant of Waiting: what HTTP/2 finished is not asked for.
WaitingOneOnly(c) == speaking[c] = "one" /\ read[c] > taken[c]

\* Open::waiting: something is here already, where no readiness can see it.
Waiting(c) ==
    \/ speaking[c] = "one" /\ read[c] > taken[c]
    \/ speaking[c] = "two" /\ more[c]

\* The socket has something to read: octets, or the end.
Readable(c) == read[c] < sent[c] \/ tail[c] # "quiet" \/ down[c]

\* Mutant of Ready: the poll does not ask whether the connection is busy.
ReadyThoughBusy(c) == place[c] = "kept" /\ (Waiting(c) \/ Readable(c))

Ready(c) == place[c] = "kept" /\ ~busy[c] /\ (Waiting(c) \/ Readable(c))

\* The connection is dropped from what is kept and the turn, if any, ends.
LetGo(c) ==
    /\ place' = [place EXCEPT ![c] = "gone"]
    /\ locked' = locked \ {c}
    /\ turning' = NoCaller
    /\ stage' = "polling"

\* The turn ends and the connection stays.
KeepOn(c) ==
    /\ locked' = locked \ {c}
    /\ turning' = NoCaller
    /\ stage' = "polling"
    /\ UNCHANGED place

\* A caller that connected and hung up without a word.
Poked(c) == speaking[c] = "unheard" /\ sent[c] = 0 /\ tail[c] = "end"

\* Caller::turn begins: the line is locked, the version told where it is not.
Turn(c) ==
    /\ stage = "polling" /\ Ready(c) /\ ~Poked(c)
    /\ locked' = locked \cup {c}
    /\ turning' = c
    /\ stage' = "reading"
    /\ speaking' = [speaking EXCEPT ![c] =
                        IF @ # "unheard" THEN @
                        ELSE IF version[c] = 2 THEN "two" ELSE "one"]
    /\ UNCHANGED <<callerVars, down, answers, bound, place, read, taken, more,
                   busy, replies>>

TurnOnPoke(c) ==
    /\ stage = "polling" /\ Ready(c) /\ Poked(c)
    /\ speaking' = [speaking EXCEPT ![c] = "spent"]
    /\ LetGo(c)
    /\ UNCHANGED <<callerVars, down, answers, bound, read, taken, more, busy,
                   replies>>

Reading(c) == stage = "reading" /\ turning = c

\* Whether the n-th request is its caller's last: HTTP/1.1's header alone.
Last(c, n) == speaking[c] = "one" /\ n \in closing[c]

\* Mutant of ReplyTo: the request before it is remembered.
ReplyToPrevious(c, now) ==
    [caller |-> c, n |-> taken[c], stream |-> NoStream,
     last |-> Last(c, taken[c]), now |-> now, written |-> FALSE]

\* Mutant of ReplyTo: the HTTP/2 stream is not remembered.
ReplyToNoStream(c, now) ==
    [caller |-> c, n |-> taken[c] + 1, stream |-> NoStream,
     last |-> Last(c, taken[c] + 1), now |-> now, written |-> FALSE]

\* The Reply to the request taken now on c.
ReplyTo(c, now) ==
    LET n == taken[c] + 1
    IN  [caller |-> c, n |-> n,
         stream |-> IF speaking[c] = "two" THEN n ELSE NoStream,
         last |-> Last(c, n), now |-> now, written |-> FALSE]

\* Mutant of HearWaiting: Turn::Taken for the last request too.
HearWaitingKept(c) ==
    /\ replies' = replies \cup {ReplyTo(c, FALSE)}
    /\ busy' = [busy EXCEPT ![c] = TRUE]
    /\ KeepOn(c)

\* A request read is handed to `hear` and its Reply holds the connection
\* busy (Caller::reply); Turn::Last lets the connection go from what is kept.
HearWaiting(c) ==
    /\ replies' = replies \cup {ReplyTo(c, FALSE)}
    /\ busy' = [busy EXCEPT ![c] = TRUE]
    /\ IF Last(c, taken[c] + 1) THEN LetGo(c) ELSE KeepOn(c)

\* Mutant of HearAnswered: the line is not let go before it is answered on.
HearAnsweredLocked(c) ==
    /\ replies' = replies \cup {ReplyTo(c, TRUE)}
    /\ busy' = [busy EXCEPT ![c] = TRUE]
    /\ stage' = "answering"
    /\ UNCHANGED <<locked, turning, place>>

\* Answered now: the line is let go first, for the answer locks it again.
HearAnswered(c) ==
    /\ replies' = replies \cup {ReplyTo(c, TRUE)}
    /\ busy' = [busy EXCEPT ![c] = TRUE]
    /\ locked' = locked \ {c}
    /\ stage' = "answering"
    /\ UNCHANGED <<turning, place>>

\* The socket could not be held for an answer: an error after `hear`.
HearUnheld(c) ==
    /\ LetGo(c)
    /\ UNCHANGED <<replies, busy>>

Hear(c) ==
    /\ taken' = [taken EXCEPT ![c] = @ + 1]
    /\ HearWaiting(c) \/ HearAnswered(c) \/ HearUnheld(c)

\* HTTP/1.1: the request buffered, or a read that brings it - and perhaps
\* those pipelined behind it - into the buffer.
ReadRequest(c) ==
    /\ Reading(c) /\ speaking[c] = "one" /\ taken[c] < sent[c]
    /\ \E upto \in IF read[c] > taken[c] THEN {read[c]}
                                         ELSE taken[c] + 1..sent[c] :
            read' = [read EXCEPT ![c] = upto]
    /\ Hear(c)
    /\ UNCHANGED <<callerVars, down, answers, bound, speaking, more>>

\* HTTP/2: a request finished already, or one a read finishes now - and
\* perhaps others, which wait under `more`.
ReadFrame(c) ==
    /\ Reading(c) /\ speaking[c] = "two"
    /\ IF more[c] THEN taken[c] < read[c] /\ UNCHANGED read
       ELSE \E upto \in read[c] + 1..sent[c] :
                read' = [read EXCEPT ![c] = upto]
    /\ more' = [more EXCEPT ![c] = TRUE]
    /\ Hear(c)
    /\ UNCHANGED <<callerVars, down, answers, bound, speaking>>

\* HTTP/2, Turn::Nothing: none finished is left, or a frame finished none.
ReadNothing(c) ==
    /\ Reading(c) /\ speaking[c] = "two"
    /\ \/ more[c] /\ taken[c] = read[c] /\ UNCHANGED tail
       \/ /\ ~more[c] /\ read[c] = sent[c] /\ tail[c] = "part"
          /\ tail' = [tail EXCEPT ![c] = "quiet"]
    /\ more' = [more EXCEPT ![c] = FALSE]
    /\ KeepOn(c)
    /\ UNCHANGED <<version, sent, closing, down, answers, bound, speaking,
                   read, taken, busy, replies>>

\* Nothing whole is here, and a read goes to the socket.
Drained(c) == read[c] = taken[c] /\ (speaking[c] = "two" => ~more[c])

\* Mutant of Stalled: a caller that stalls is waited for.
StalledForGood(c) == FALSE

\* A caller stalls inside a request longer than the timeout.
Stalled(c) ==
    Drained(c) /\ read[c] = sent[c] /\ tail[c] = "part" /\ TimesOut

\* Mutant of ReadEnds: the end of what a caller sends is not read.
ReadEndsUnseen(c) ==
    /\ Reading(c)
    /\ \/ speaking[c] = "spent"
       \/ Drained(c) /\ down[c]
       \/ Drained(c) /\ read[c] = sent[c] /\ tail[c] = "junk"
       \/ Stalled(c)
    /\ LetGo(c)
    /\ UNCHANGED <<callerVars, down, answers, bound, lineVars, busy, replies>>

\* Turn::Closed, or an error: the end, octets that are no request, a caller
\* that stalls inside one longer than the timeout.
ReadEnds(c) ==
    /\ Reading(c)
    /\ \/ speaking[c] = "spent"
       \/ Drained(c) /\ down[c]
       \/ Drained(c) /\ read[c] = sent[c] /\ tail[c] \in {"junk", "end"}
       \/ Stalled(c)
    /\ LetGo(c)
    /\ UNCHANGED <<callerVars, down, answers, bound, lineVars, busy, replies>>

----------------------------------------------------------------------------
\* The Reply (Reply::answer, `written`, transport::answer::Answer).

\* What `written` does where the line speaks the version the request came in.
Matched(r) ==
    \/ speaking[r.caller] = "one" /\ r.stream = NoStream
    \/ speaking[r.caller] = "two" /\ r.stream # NoStream

\* Only an HTTP/1.1 answer closes: its request said so, or its header does.
Closes(r, header) == speaking[r.caller] = "one" /\ (r.last \/ header)

\* `written`, the line locked throughout; `header` is whether the response
\* says `Connection: close`.  Unmatched, it returns Ok and writes nothing.
Written(r, header) ==
    LET c == r.caller IN
    /\ ~r.written /\ c \notin locked
    /\ Matched(r) => ~down[c]
    /\ answers' = IF Matched(r) THEN [answers EXCEPT ![c] = Append(@, r.n)]
                                ELSE answers
    /\ IF Matched(r) /\ Closes(r, header)
       THEN /\ speaking' = [speaking EXCEPT ![c] = "spent"]
            /\ down' = [down EXCEPT ![c] = TRUE]
       ELSE UNCHANGED <<speaking, down>>
    /\ replies' = (replies \ {r}) \cup {[r EXCEPT !.written = TRUE]}
    /\ UNCHANGED <<callerVars, bound, place, read, taken, more, busy, turnVars>>

\* The hold ends, and with it the turn that answered: Turn::Last or Taken.
Released(r) ==
    /\ r.written
    /\ replies' = replies \ {r}
    /\ busy' = [busy EXCEPT ![r.caller] = FALSE]
    /\ IF ~r.now THEN UNCHANGED <<place, turnVars>>
       ELSE IF r.last THEN LetGo(r.caller) ELSE KeepOn(r.caller)
    /\ UNCHANGED <<callerVars, down, answers, bound, lineVars>>

\* The connection broke before the answer was written: the hold ends, and a
\* turn that was answering fails.
WriteFails(r) ==
    LET c == r.caller IN
    /\ ~r.written /\ c \notin locked /\ Matched(r)
    /\ down[c] \/ tail[c] \in {"junk", "end"}
    /\ down' = [down EXCEPT ![c] = TRUE]
    /\ replies' = replies \ {r}
    /\ busy' = [busy EXCEPT ![c] = FALSE]
    /\ IF r.now THEN LetGo(c) ELSE UNCHANGED <<place, turnVars>>
    /\ UNCHANGED <<callerVars, answers, bound, lineVars>>

\* Mutant of Dropped: let go unanswered, the connection is not shut.
DroppedUnshut(r) ==
    /\ ~r.now /\ ~r.written
    /\ replies' = replies \ {r}
    /\ busy' = [busy EXCEPT ![r.caller] = FALSE]
    /\ UNCHANGED <<callerVars, down, answers, bound, place, lineVars, turnVars>>

\* A Reply let go unanswered shuts the connection.
Dropped(r) ==
    /\ ~r.now /\ ~r.written
    /\ down' = [down EXCEPT ![r.caller] = TRUE]
    /\ replies' = replies \ {r}
    /\ busy' = [busy EXCEPT ![r.caller] = FALSE]
    /\ UNCHANGED <<callerVars, answers, bound, place, lineVars, turnVars>>

----------------------------------------------------------------------------
Takes(c) == ReadRequest(c) \/ ReadFrame(c) \/ ReadNothing(c) \/ ReadEnds(c)

Answers(r) ==
    \/ \E header \in BOOLEAN : Written(r, header)
    \/ Released(r)
    \/ WriteFails(r)

Next ==
    \/ Bind
    \/ \E c \in Callers :
        \/ Connect(c) \/ Send(c) \/ Begin(c) \/ Garble(c) \/ HangUp(c)
        \/ Accept(c) \/ Turn(c) \/ TurnOnPoke(c) \/ Takes(c)
    \/ \E r \in replies : Answers(r) \/ Dropped(r)

SafeSpec == Init /\ [][Next]_vars

\* One runtime thread settles the one Reply of a connection.
Settles(c) == \E r \in replies : r.caller = c /\ (Answers(r) \/ Dropped(r))

\* The Location goes on receiving, a turn begun is read on, a connection
\* ready again and again is at last served, and a verdict is given for each
\* Stream taken.  A caller is not held to anything.
Fairness ==
    /\ WF_vars(Bind)
    /\ \A c \in Callers :
        /\ SF_vars(Accept(c))
        /\ SF_vars(Turn(c) \/ TurnOnPoke(c))
        /\ WF_vars(Takes(c))
        /\ WF_vars(Settles(c))

Spec == SafeSpec /\ Fairness

----------------------------------------------------------------------------
\* Properties.

\* Whoever waits is answered in the order of asking: on one connection the
\* answers written are those of requests 1, 2, ..., none skipped, repeated or
\* overtaken, whatever threads write them - HTTP/1.1 has only the order to
\* tell which answer is whose (inbound.rs, "takes no next request").
AnswersInOrder ==
    \A c \in Callers : \A i \in 1..Len(answers[c]) : answers[c][i] = i

\* No verdict is swallowed: while a Reply is to be answered its line still
\* speaks the version the request came in, so `written` never reaches its
\* last arm, which says Ok and writes nothing.
NoAnswerSwallowed ==
    \A r \in replies : ~r.written => Matched(r)

\* A connection is busy exactly while one Reply of it is held, and there is
\* never a second: the runtime's threads and the poll agree on who has it.
BusyWhileHeld ==
    \A c \in Callers :
        LET held == {r \in replies : r.caller = c}
        IN  /\ busy[c] <=> held # {}
            /\ \A r, s \in held : r = s

\* A request that a read brought whole is never stranded: while it is not
\* taken the connection says it is waiting, so the poll comes back to it
\* without another octet from the caller (`more`, inbound.rs:213).
NothingStranded ==
    \A c \in Callers :
        speaking[c] \in {"one", "two"} /\ read[c] > taken[c]
            /\ place[c] = "kept" => Waiting(c)

\* A request that says it is the caller's last is the last taken: one
\* pipelined behind it is never handed to `hear`, answered or not.
LastIsLast ==
    \A c \in Callers : version[c] = 1 =>
        \A n \in closing[c] : taken[c] <= n

\* An answer can still reach the caller: the connection is not shut, and
\* the Location or a Reply has hold of it.
Open(c) ==
    ~down[c] /\ (place[c] # "gone" \/ \E r \in replies : r.caller = c)

\* The Receive Location keeps the promise of CallerWaits.
Promise == INSTANCE CallerWaits WITH
    asked <- taken,
    told <- [c \in Callers |-> Len(answers[c])],
    open <- [c \in Callers |-> Open(c)]

ImplementsPromise == Promise!Spec
ImplementsPromiseSafely == Promise!SafeSpec

\* A request sent whole is taken or its connection let go: neither a turn
\* that waits on another caller nor a verdict that is long in coming leaves
\* it unread for good (with `timeout` set).
EveryRequestTaken ==
    \A c \in Callers : \A n \in Requests :
        sent[c] >= n ~> (taken[c] >= n \/ down[c] \/ place[c] = "gone")

\* A caller that hung up is let go, its socket closed, whatever it sent
\* before and whoever else is served: those that come and go do not pile up
\* among the connections kept (inbound.rs:305).
HungUpLetGo == \A c \in Callers : tail[c] = "end" ~> place[c] = "gone"
=============================================================================
