-------------------------- MODULE RoundTripProofs --------------------------
(***************************************************************************)
(* Proofs about RoundTrip, for any threads, connections and targets, and   *)
(* any bound on requests: a Receive Location is a far end as Connections   *)
(* assumes it, so what is proved of each side alone holds of the two.      *)
(*                                                                         *)
(* What is known of each side is cited from its own proofs: a step of the  *)
(* two is a step of each, or leaves it as it is.  What is proved here is   *)
(* the glue, that a connection is at both ends what it is at one.          *)
(***************************************************************************)
EXTENDS RoundTrip, SequenceTheorems, FiniteSetTheorems, TLAPS

LocationP == INSTANCE InboundProofs WITH
    Callers <- Links, NoCaller <- NoLink, TimesOut <- LocationTimesOut,
    MaxRequests <- MaxAsks * Cardinality(Senders)

SenderP == INSTANCE ConnectionsProofs WITH
    TimesOut <- SenderTimesOut, HasTls <- FALSE,
    version <- VersionAgreed, goingAway <- [l \in Links |-> FALSE],
    far <- Far, away <- [l \in Links |-> FALSE],
    coming <- Coming, doing <- Doing, back <- Back, acted <- Acted

Asks == Senders \X (1..MaxAsks)

\* What is on the socket was written by a thread, once; a thread about to
\* write did not write it there before; what was read was answered.
LogInv ==
    /\ log \in [Links -> Seq(Asks)]
    /\ heard \in [Links -> Nat]
    /\ IsFiniteSet({l \in Links : log[l] # <<>>})
    /\ \A l \in Links :
        /\ Len(log[l]) = sent[l]
        /\ \A i, j \in 1..Len(log[l]) : log[l][i] = log[l][j] => i = j
        /\ \A i \in 1..Len(log[l]) : log[l][i][2] <= asked[log[l][i][1]]
        /\ heard[l] <= Len(answers[l]) /\ Len(answers[l]) <= taken[l]
    /\ \A s \in Senders : phase[s] = "asking" =>
        \A i \in 1..Len(log[on[s]]) : log[on[s]][i] # <<s, asked[s]>>

\* The sender is a caller that writes whole requests, never the last, and
\* hangs up where it closed: a connection is new, and is let go, at both ends.
CallerInv ==
    \A l \in Links :
        /\ closing[l] = {} /\ tail[l] \in {"quiet", "end"}
        /\ tail[l] = "end" => side[l] = "closed"
        /\ side[l] = "unopened" <=> place[l] = "away"
        /\ place[l] = "away" => sent[l] = 0 /\ ~down[l]
        /\ place[l] = "queued" => taken[l] = 0

\* One request at a time is on its way, and none where nothing comes back;
\* a Reply's connection is kept, and open until it is answered.
WayInv ==
    /\ \A l \in Links :
        /\ sent[l] <= taken[l] + 1
        /\ down[l] => sent[l] = taken[l]
        /\ speaking[l] = "spent" => down[l] \/ place[l] = "gone"
    /\ \A r \in replies :
        /\ place[r.caller] = "kept" /\ ~r.last
        /\ ~r.written => ~down[r.caller] /\ sent[r.caller] = taken[r.caller]

\* The joint invariant: each side's, and what joins them.
JInv ==
    /\ LocationP!IInv /\ SenderP!IInv /\ LogInv /\ CallerInv /\ WayInv
    /\ OnlyOwnVerdict

----------------------------------------------------------------------------
\* What is assumed of the constants is what each side's proofs assume.
LEMMA BoundPositive == MaxAsks * Cardinality(Senders) \in Nat \ {0}
<1>1. Cardinality(Senders) \in Nat /\ Cardinality(Senders) # 0
  BY SendersAssumption, FS_CardinalityType, FS_EmptySet
<1>2. \A m, n \in Nat \ {0} : m * n \in Nat \ {0}
  OBVIOUS
<1>3. QED
  BY <1>1, <1>2, BoundAssumption

\* Inbound's: callers are finite, they send a bounded number, and time runs out.
LEMMA LocationAssumptions ==
  /\ LocationP!CallersAssumption /\ LocationP!BoundAssumption
  /\ LocationP!TimeoutAssumption
BY BoundPositive, LinksAssumption, TimeoutAssumption
   DEF LocationP!CallersAssumption, LocationP!BoundAssumption,
       LocationP!TimeoutAssumption

\* Connections': threads and links are finite, and so is what each thread asks.
LEMMA SenderAssumptions ==
  /\ SenderP!LinkAssumption /\ SenderP!SendersAssumption
  /\ SenderP!BoundAssumption /\ SenderP!TimeoutAssumption
  /\ SenderP!TlsAssumption /\ SenderP!TargetAssumption
<1>1. SenderP!LinkAssumption
  BY LinksAssumption DEF SenderP!LinkAssumption
<1>0. SenderP!SendersAssumption
  BY SendersAssumption
     DEF SenderP!SendersAssumption, IsFiniteSet, SenderP!IsFiniteSet
<1>2. SenderP!BoundAssumption
  BY BoundAssumption DEF SenderP!BoundAssumption
<1>3. SenderP!TimeoutAssumption
  BY TimeoutAssumption DEF SenderP!TimeoutAssumption
<1>4. SenderP!TlsAssumption
  BY DEF SenderP!TlsAssumption
<1>5. SenderP!TargetAssumption
  BY TargetsAssumption DEF Sender!TargetAssumption, SenderP!TargetAssumption
<1>6. QED
  BY <1>0, <1>1, <1>2, <1>3, <1>4, <1>5

\* So each side's invariant is kept by each side's steps.
LEMMA LocationKeeps ==
  ASSUME LocationP!IInv, [LocationP!Next]_(LocationP!vars)
  PROVE  LocationP!IInv'
BY LocationAssumptions, LocationP!Inductive

\* The sender's invariant is kept by the sender's steps.
LEMMA SenderKeeps ==
  ASSUME SenderP!IInv, [SenderP!Next]_(SenderP!vars)
  PROVE  SenderP!IInv'
BY SenderAssumptions, SenderP!Inductive

\* The steps of RoundTrip are those the proofs are about.
LEMMA CallerSame ==
  ASSUME NEW l \in Links
  PROVE  /\ Location!Connect(l) => LocationP!Connect(l)
         /\ Location!Send(l) => LocationP!Send(l)
         /\ Location!HangUp(l) => LocationP!HangUp(l)
         /\ Location!OnLine(l) = LocationP!OnLine(l)
         /\ Location!Open(l) = LocationP!Open(l)
BY DEF Location!Connect, Location!Send, Location!HangUp, Location!OnLine,
       Location!callerVars, Location!lineVars, Location!turnVars, Location!Open,
       LocationP!Connect, LocationP!Send, LocationP!HangUp, LocationP!OnLine,
       LocationP!callerVars, LocationP!lineVars, LocationP!turnVars,
       LocationP!Open

\* Binding the port is the same step in both.
LEMMA BindSame == Location!Bind => LocationP!Bind
BY DEF Location!Bind, Location!callerVars, Location!lineVars, Location!turnVars,
       LocationP!Bind, LocationP!callerVars, LocationP!lineVars,
       LocationP!turnVars

\* So is the poll's: accepting a caller and taking a connection's turn.
LEMMA PollSame ==
  ASSUME NEW l \in Links
  PROVE  /\ Location!Accept(l) => LocationP!Accept(l)
         /\ Location!Turn(l) => LocationP!Turn(l)
         /\ Location!TurnOnPoke(l) => LocationP!TurnOnPoke(l)
BY DEF Location!Accept, Location!Turn, Location!TurnOnPoke, Location!Ready,
       Location!Waiting, Location!Readable, Location!Poked,
       Location!LetGo, Location!callerVars, Location!lineVars, Location!turnVars,
       LocationP!Accept, LocationP!Turn, LocationP!TurnOnPoke, LocationP!Ready,
       LocationP!Waiting, LocationP!Readable, LocationP!Poked,
       LocationP!LetGo, LocationP!callerVars, LocationP!lineVars,
       LocationP!turnVars

\* What is counted there is counted here.
LEMMA CardinalitySame ==
  ASSUME NEW S PROVE SenderP!Cardinality(S) = Cardinality(S)
BY DEF Cardinality, SenderP!Cardinality

\* So is what the Location does with a request it has read.
LEMMA HearSame ==
  ASSUME NEW l \in Links, Location!Hear(l) PROVE LocationP!Hear(l)
BY DEF Location!Hear, Location!HearWaiting, Location!HearAnswered,
       Location!HearUnheld, Location!ReplyTo, Location!Last, Location!NoStream,
       Location!LetGo, Location!KeepOn,
       LocationP!Hear, LocationP!HearWaiting, LocationP!HearAnswered,
       LocationP!HearUnheld, LocationP!ReplyTo, LocationP!Last,
       LocationP!NoStream, LocationP!LetGo, LocationP!KeepOn

\* So is each outcome of a read: a request, a frame of one, nothing, the end.
LEMMA TakesSame ==
  ASSUME NEW l \in Links, Location!Takes(l) PROVE LocationP!Takes(l)
<1>1. CASE Location!ReadRequest(l)
  <2>1. LocationP!ReadRequest(l)
    BY <1>1, HearSame DEF Location!ReadRequest, Location!Reading,
       Location!callerVars, LocationP!ReadRequest, LocationP!Reading,
       LocationP!callerVars
  <2>2. QED
    BY <2>1 DEF LocationP!Takes
<1>2. CASE Location!ReadFrame(l)
  <2>1. LocationP!ReadFrame(l)
    BY <1>2, HearSame DEF Location!ReadFrame, Location!Reading,
       Location!callerVars, LocationP!ReadFrame, LocationP!Reading,
       LocationP!callerVars
  <2>2. QED
    BY <2>1 DEF LocationP!Takes
<1>3. CASE Location!ReadNothing(l)
  <2>1. LocationP!ReadNothing(l)
    BY <1>3 DEF Location!ReadNothing, Location!Reading, Location!KeepOn,
       LocationP!ReadNothing, LocationP!Reading, LocationP!KeepOn
  <2>2. QED
    BY <2>1 DEF LocationP!Takes
<1>4. CASE Location!ReadEnds(l)
  <2>1. LocationP!ReadEnds(l)
    BY <1>4 DEF Location!ReadEnds, Location!Reading, Location!Drained,
       Location!Stalled, Location!LetGo, Location!callerVars, Location!lineVars,
       LocationP!ReadEnds, LocationP!Reading, LocationP!Drained,
       LocationP!Stalled, LocationP!LetGo, LocationP!callerVars,
       LocationP!lineVars
  <2>2. QED
    BY <2>1 DEF LocationP!Takes
<1>5. QED
  BY <1>1, <1>2, <1>3, <1>4 DEF Location!Takes

\* So is each way a Reply is settled: written, released, failed or dropped.
LEMMA SettlesSame ==
  ASSUME NEW r
  PROVE  /\ Location!Answers(r) => LocationP!Answers(r)
         /\ Location!Dropped(r) => LocationP!Dropped(r)
<1>1. ASSUME NEW header \in BOOLEAN, Location!Written(r, header)
      PROVE  LocationP!Written(r, header)
  BY <1>1 DEF Location!Written, Location!Matched, Location!Closes,
     Location!NoStream, Location!callerVars, Location!turnVars,
     LocationP!Written, LocationP!Matched, LocationP!Closes,
     LocationP!NoStream, LocationP!callerVars, LocationP!turnVars
<1>2. Location!Released(r) => LocationP!Released(r)
  BY DEF Location!Released, Location!LetGo, Location!KeepOn,
     Location!callerVars, Location!lineVars, Location!turnVars,
     LocationP!Released, LocationP!LetGo, LocationP!KeepOn,
     LocationP!callerVars, LocationP!lineVars, LocationP!turnVars
<1>3. Location!WriteFails(r) => LocationP!WriteFails(r)
  BY DEF Location!WriteFails, Location!Matched, Location!NoStream,
     Location!LetGo, Location!callerVars, Location!lineVars, Location!turnVars,
     LocationP!WriteFails, LocationP!Matched, LocationP!NoStream,
     LocationP!LetGo, LocationP!callerVars, LocationP!lineVars,
     LocationP!turnVars
<1>4. Location!Dropped(r) => LocationP!Dropped(r)
  BY DEF Location!Dropped, Location!callerVars, Location!lineVars,
     Location!turnVars, LocationP!Dropped, LocationP!callerVars,
     LocationP!lineVars, LocationP!turnVars
<1>5. QED
  BY <1>1, <1>2, <1>3, <1>4 DEF Location!Answers, LocationP!Answers

\* So is a thread's taking a connection that is kept, or finding none to take.
LEMMA BeginSame ==
  ASSUME NEW s \in Senders, NEW t \in Targets
  PROVE  /\ Sender!Take(s, t) => SenderP!Take(s, t)
         /\ Sender!TakeNone(s, t) => SenderP!TakeNone(s, t)
BY DEF Sender!Take, Sender!TakeNone, Sender!Begins, Sender!KeptTo, Sender!Dead,
       Sender!Usable, Sender!Fit, Sender!Key, Sender!Closed, Sender!Reached,
       Sender!Forget,
       SenderP!Take, SenderP!TakeNone, SenderP!Begins, SenderP!KeptTo,
       SenderP!Dead, SenderP!Usable, SenderP!Fit, SenderP!Key, SenderP!Closed,
       SenderP!Reached, SenderP!Forget

\* So is the rest of a thread's exchange, from opening to what it is told.
LEMMA ExchangesSame ==
  ASSUME NEW s \in Senders
  PROVE  /\ Sender!Open(s) => SenderP!Open(s)
         /\ Sender!OpenFails(s) => SenderP!OpenFails(s)
         /\ Sender!Ask(s) => SenderP!Ask(s)
         /\ Sender!Told(s) => SenderP!Told(s)
         /\ Sender!Fails(s) => SenderP!Fails(s)
<1>1. Sender!Open(s) => SenderP!Open(s)
  BY DEF Sender!Open, Sender!Swept, Sender!Dead, Sender!Usable, Sender!Fit,
     Sender!Versions, Sender!Key, Sender!Closed, Sender!Reached, Sender!Forget,
     SenderP!Open, SenderP!Swept, SenderP!Dead, SenderP!Usable, SenderP!Fit,
     SenderP!Versions, SenderP!Key, SenderP!Closed, SenderP!Reached,
     SenderP!Forget
<1>2. Sender!OpenFails(s) => SenderP!OpenFails(s)
  BY DEF Sender!OpenFails, Sender!Swept, Sender!Dead, Sender!Usable, Sender!Fit,
     Sender!Closed, Sender!Reached, Sender!Forget,
     SenderP!OpenFails, SenderP!Swept, SenderP!Dead, SenderP!Usable,
     SenderP!Fit, SenderP!Closed, SenderP!Reached, SenderP!Forget
<1>3. Sender!Ask(s) => SenderP!Ask(s)
  BY DEF Sender!Ask, Sender!sideVars, SenderP!Ask, SenderP!sideVars
<1>4. Sender!Told(s) => SenderP!Told(s)
  BY DEF Sender!Told, Sender!Awaits, Sender!Heard, Sender!Fit, Sender!Closed,
     Sender!Reached, Sender!Forget,
     SenderP!Told, SenderP!Awaits, SenderP!Heard, SenderP!Fit, SenderP!Closed,
     SenderP!Reached, SenderP!Forget
<1>5. Sender!Fails(s) => SenderP!Fails(s)
  BY DEF Sender!Fails, Sender!Broken, Sender!Closed, Sender!Reached,
     Sender!Forget, SenderP!Fails, SenderP!Broken, SenderP!Closed,
     SenderP!Reached, SenderP!Forget
<1>6. QED
  BY <1>1, <1>2, <1>3, <1>4, <1>5

\* So is what the sender assumes its far end does.
LEMMA FarEndSame ==
  ASSUME NEW l \in Links
  PROVE  /\ Sender!Act(l) => SenderP!FarEnd(l)
         /\ Sender!Answer(l) => SenderP!FarEnd(l)
         /\ Sender!Close(l) => SenderP!FarEnd(l)
BY DEF Sender!Act, Sender!Answer, Sender!Close, Sender!senderVars,
       Sender!sideVars, SenderP!Act, SenderP!Answer, SenderP!Close,
       SenderP!senderVars, SenderP!sideVars, SenderP!FarEnd

----------------------------------------------------------------------------
\* What a step of the Location's does at its end of a connection.

\* Nobody waits for an answer on l.
Unowed(l) == \A r \in replies : r.caller # l

\* Types, of what both sides need of the Location's state.
LEMMA LocationTyped ==
  ASSUME LocationP!IInv
  PROVE  /\ version \in [Links -> {1, 2}]
         /\ sent \in [Links -> Nat] /\ taken \in [Links -> Nat]
         /\ read \in [Links -> Nat]
         /\ tail \in [Links -> {"quiet", "part", "junk", "end"}]
         /\ down \in [Links -> BOOLEAN] /\ busy \in [Links -> BOOLEAN]
         /\ answers \in [Links -> Seq(Nat)]
         /\ place \in [Links -> {"away", "queued", "kept", "gone"}]
         /\ speaking \in [Links -> {"unheard", "one", "two", "spent"}]
         /\ \A l \in Links : taken[l] <= sent[l]
         /\ replies \in SUBSET LocationP!Reply
<1>1. /\ version \in [Links -> {1, 2}]
      /\ tail \in [Links -> {"quiet", "part", "junk", "end"}]
      /\ down \in [Links -> BOOLEAN] /\ busy \in [Links -> BOOLEAN]
      /\ place \in [Links -> {"away", "queued", "kept", "gone"}]
      /\ speaking \in [Links -> {"unheard", "one", "two", "spent"}]
      /\ replies \in SUBSET LocationP!Reply
  BY DEF LocationP!IInv, LocationP!TypeOK
<1> DEFINE M == MaxAsks * Cardinality(Senders)
<1>2. M \in Nat
  BY BoundPositive
<1>3. /\ sent \in [Links -> 0..M] /\ taken \in [Links -> 0..M]
      /\ read \in [Links -> 0..M] /\ answers \in [Links -> Seq(1..M)]
  BY DEF LocationP!IInv, LocationP!TypeOK, LocationP!Requests
<1> HIDE DEF M
<1>4. /\ sent \in [Links -> Nat] /\ taken \in [Links -> Nat]
      /\ read \in [Links -> Nat]
  BY <1>2, <1>3
<1>5. answers \in [Links -> Seq(Nat)]
  <2>1. Seq(1..M) \subseteq Seq(Nat)
    BY <1>2, SeqMonotonic
  <2>2. QED
    BY <1>3, <2>1
<1>6. \A l \in Links : taken[l] <= sent[l]
  BY <1>4 DEF LocationP!IInv, LocationP!CountInv
<1>7. QED
  BY <1>1, <1>4, <1>5, <1>6

\* What a Reply is, and that a connection has one.
LEMMA ReplyTells ==
  ASSUME LocationP!IInv, WayInv, NEW r \in replies
  PROVE  /\ r.caller \in Links /\ r \in LocationP!Reply
         /\ r.n = taken[r.caller] /\ place[r.caller] = "kept" /\ ~r.last
         /\ \A q \in replies : q.caller = r.caller => q = r
         /\ ~r.written => /\ ~down[r.caller]
                          /\ sent[r.caller] = taken[r.caller]
                          /\ taken[r.caller] = Len(answers[r.caller]) + 1
<1>1. r \in LocationP!Reply /\ r.caller \in Links
  BY LocationTyped DEF LocationP!Reply
<1>2. \A q \in replies : q.caller = r.caller => q = r
  BY <1>1 DEF LocationP!IInv, LocationP!BusyWhileHeld
<1>3. /\ r.n = taken[r.caller] /\ place[r.caller] = "kept" /\ ~r.last
      /\ ~r.written => ~down[r.caller] /\ sent[r.caller] = taken[r.caller]
  BY DEF LocationP!IInv, LocationP!ReplyInv, WayInv
<1>4. ~r.written => taken[r.caller] = Len(answers[r.caller]) + 1
  BY <1>1, <1>3 DEF LocationP!IInv, LocationP!OrderInv
<1>5. QED
  BY <1>1, <1>2, <1>3, <1>4

\* A step that takes and answers nothing: a connection comes or goes.
Stirs(l) ==
    /\ UNCHANGED <<version, sent, closing, taken, answers, down, replies>>
    /\ \A m \in Links \ {l} :
        place'[m] = place[m] /\ speaking'[m] = speaking[m] /\ tail'[m] = tail[m]
    /\ tail'[l] = tail[l] \/ (tail'[l] = "end" /\ side[l] = "closed")
    /\ \/ speaking'[l] = "spent" <=> speaking[l] = "spent"
       \/ side[l] = "closed" /\ place'[l] = "gone"
    /\ \/ place'[l] = place[l]
       \/ place[l] = "queued" /\ place'[l] \in {"kept", "gone"}
       \/ /\ place[l] = "kept" /\ place'[l] = "gone" /\ Unowed(l)
          /\ down[l] \/ (side[l] = "closed" /\ sent[l] = taken[l])

\* That is what a caller's leaving, the poll and a read of nothing come to.
LEMMA StirsTells ==
  ASSUME LocationP!IInv, CallerInv, WayInv, NEW l \in Links,
         \/ LocationP!HangUp(l) /\ side[l] = "closed"
         \/ LocationP!Accept(l) \/ LocationP!Turn(l) \/ LocationP!TurnOnPoke(l)
         \/ LocationP!ReadNothing(l) \/ LocationP!ReadEnds(l)
  PROVE  Stirs(l)
<1>1. /\ tail \in [Links -> {"quiet", "part", "junk", "end"}]
      /\ place \in [Links -> {"away", "queued", "kept", "gone"}]
      /\ speaking \in [Links -> {"unheard", "one", "two", "spent"}]
      /\ read \in [Links -> Nat] /\ sent \in [Links -> Nat]
      /\ taken \in [Links -> Nat] /\ taken[l] <= sent[l]
  BY LocationTyped
<1>2. tail[l] \in {"quiet", "end"} /\ (tail[l] = "end" => side[l] = "closed")
  BY DEF CallerInv
<1>3. ~busy[l] => Unowed(l)
  BY DEF LocationP!IInv, LocationP!BusyWhileHeld, Unowed
<1>4. CASE LocationP!HangUp(l) /\ side[l] = "closed"
  BY <1>1, <1>4 DEF LocationP!HangUp, LocationP!lineVars, Stirs
<1>5. CASE LocationP!Accept(l)
  <2>1. /\ UNCHANGED <<version, sent, closing, tail, taken, answers, down,
                       replies, speaking>>
        /\ place[l] = "queued"
        /\ \E to_ \in {"kept", "gone"} : place' = [place EXCEPT ![l] = to_]
    BY <1>5 DEF LocationP!Accept, LocationP!callerVars, LocationP!lineVars
  <2>2. QED
    BY <1>1, <2>1 DEF Stirs
<1>6. CASE LocationP!Turn(l)
  <2>1. /\ UNCHANGED <<version, sent, closing, tail, taken, answers, down,
                       replies, place>>
        /\ speaking' = [speaking EXCEPT ![l] =
                IF @ # "unheard" THEN @
                ELSE IF version[l] = 2 THEN "two" ELSE "one"]
    BY <1>6 DEF LocationP!Turn, LocationP!callerVars
  <2>2. QED
    BY <1>1, <2>1 DEF Stirs
<1>7. CASE LocationP!TurnOnPoke(l)
  <2>1. ~busy[l] /\ place[l] = "kept" /\ sent[l] = 0 /\ tail[l] = "end"
    BY <1>7 DEF LocationP!TurnOnPoke, LocationP!Ready, LocationP!Poked
  <2>2. /\ UNCHANGED <<version, sent, closing, tail, taken, answers, down, replies>>
        /\ place' = [place EXCEPT ![l] = "gone"]
        /\ speaking' = [speaking EXCEPT ![l] = "spent"]
    BY <1>7 DEF LocationP!TurnOnPoke, LocationP!LetGo, LocationP!callerVars
  <2>3. QED
    BY <1>1, <1>2, <1>3, <2>1, <2>2 DEF Stirs
<1>8. CASE LocationP!ReadNothing(l)
  <2>1. /\ UNCHANGED <<version, sent, closing, taken, answers, down, replies,
                       speaking, place>>
        /\ tail' = tail \/ tail[l] = "part"
    BY <1>8 DEF LocationP!ReadNothing, LocationP!KeepOn
  <2>2. QED
    BY <1>2, <2>1 DEF Stirs
<1>9. CASE LocationP!ReadEnds(l)
  <2>1. ~busy[l] /\ place[l] = "kept"
    BY <1>9 DEF LocationP!ReadEnds, LocationP!Reading, LocationP!IInv,
       LocationP!TurnInv
  <2>2. /\ UNCHANGED <<version, sent, closing, tail, taken, answers, down,
                       replies, speaking>>
        /\ place' = [place EXCEPT ![l] = "gone"]
    BY <1>9 DEF LocationP!ReadEnds, LocationP!LetGo, LocationP!callerVars,
       LocationP!lineVars
  <2>3. down[l] \/ (side[l] = "closed" /\ sent[l] = taken[l])
    <3>1. CASE speaking[l] = "spent"
      BY <2>1, <3>1 DEF WayInv
    <3>2. CASE read[l] = taken[l] /\ read[l] = sent[l] /\ tail[l] \in {"junk", "end"}
      BY <1>2, <3>2
    <3>3. QED
      BY <1>2, <1>9, <3>1, <3>2 DEF LocationP!ReadEnds, LocationP!Drained,
         LocationP!Stalled
  <2>4. QED
    BY <1>1, <1>3, <2>1, <2>2, <2>3 DEF Stirs
<1>10. QED
  BY <1>4, <1>5, <1>6, <1>7, <1>8, <1>9

\* A step that takes the one request on its way: its Reply holds the
\* connection, or the connection could not be held and is let go.
HearsAs(l, kept) ==
    /\ UNCHANGED <<version, sent, closing, tail, answers, down, speaking>>
    /\ place[l] = "kept" /\ ~down[l] /\ Unowed(l) /\ sent[l] = taken[l] + 1
    /\ taken' = [taken EXCEPT ![l] = @ + 1]
    /\ IF kept
       THEN /\ place' = place
            /\ \E q : /\ replies' = replies \cup {q}
                      /\ q.caller = l /\ q.n = taken[l] + 1
                      /\ q.written = FALSE /\ q.last = FALSE
       ELSE place' = [place EXCEPT ![l] = "gone"] /\ replies' = replies

\* That is what reading a request comes to, whole or from its last frame.
LEMMA HearsTells ==
  ASSUME LocationP!IInv, CallerInv, WayInv, NEW l \in Links,
         LocationP!ReadRequest(l) \/ LocationP!ReadFrame(l)
  PROVE  \E kept \in BOOLEAN : HearsAs(l, kept)
<1>1. /\ read \in [Links -> Nat] /\ sent \in [Links -> Nat]
      /\ taken \in [Links -> Nat] /\ taken[l] <= read[l] /\ read[l] <= sent[l]
  BY LocationTyped DEF LocationP!IInv, LocationP!CountInv
<1>2. /\ UNCHANGED <<version, sent, closing, tail, answers, down, speaking>>
      /\ LocationP!Hear(l) /\ LocationP!Reading(l)
  BY DEF LocationP!ReadRequest, LocationP!ReadFrame, LocationP!callerVars
<1>3. taken[l] < sent[l]
  <2>1. CASE LocationP!ReadRequest(l)
    BY <2>1 DEF LocationP!ReadRequest
  <2>2. CASE LocationP!ReadFrame(l)
    BY <1>1, <2>2 DEF LocationP!ReadFrame
  <2>3. QED
    BY <2>1, <2>2
<1>4. ~busy[l] /\ place[l] = "kept" /\ Unowed(l)
  BY <1>2 DEF LocationP!Reading, LocationP!IInv, LocationP!TurnInv,
     LocationP!BusyWhileHeld, Unowed
<1>5. ~down[l] /\ sent[l] = taken[l] + 1
  BY <1>1, <1>3 DEF WayInv
<1>6. LocationP!Last(l, taken[l] + 1) = FALSE
  BY DEF LocationP!Last, CallerInv
<1>7. taken' = [taken EXCEPT ![l] = @ + 1]
  BY <1>2 DEF LocationP!Hear
<1>8. CASE LocationP!HearUnheld(l)
  <2>1. place' = [place EXCEPT ![l] = "gone"] /\ replies' = replies
    BY <1>8 DEF LocationP!HearUnheld, LocationP!LetGo
  <2>2. HearsAs(l, FALSE)
    BY <1>2, <1>4, <1>5, <1>7, <2>1 DEF HearsAs
  <2>3. QED
    BY <2>2
<1>9. ASSUME NEW now \in BOOLEAN, place' = place,
             replies' = replies \cup {LocationP!ReplyTo(l, now)}
      PROVE  HearsAs(l, TRUE)
  <2> DEFINE q == LocationP!ReplyTo(l, now)
  <2>1. /\ q.caller = l /\ q.n = taken[l] + 1
        /\ q.written = FALSE /\ q.last = FALSE
    BY <1>6 DEF LocationP!ReplyTo
  <2> HIDE DEF q
  <2>2. \E p : /\ replies' = replies \cup {p}
               /\ p.caller = l /\ p.n = taken[l] + 1
               /\ p.written = FALSE /\ p.last = FALSE
    BY <1>9, <2>1 DEF q
  <2>3. QED
    BY <1>2, <1>4, <1>5, <1>7, <1>9, <2>2 DEF HearsAs
<1>10. CASE LocationP!HearWaiting(l)
  <2>1. place' = place /\ replies' = replies \cup {LocationP!ReplyTo(l, FALSE)}
    BY <1>6, <1>10 DEF LocationP!HearWaiting, LocationP!KeepOn
  <2>2. QED
    BY <1>9, <2>1
<1>11. CASE LocationP!HearAnswered(l)
  <2>1. place' = place /\ replies' = replies \cup {LocationP!ReplyTo(l, TRUE)}
    BY <1>11 DEF LocationP!HearAnswered
  <2>2. QED
    BY <1>9, <2>1
<1>12. QED
  BY <1>2, <1>8, <1>10, <1>11 DEF LocationP!Hear

\* A step that writes an answer, and perhaps shuts the connection behind it.
WritesTo(r, l) ==
    /\ r \in replies /\ r.caller = l /\ ~r.written
    /\ UNCHANGED <<version, sent, closing, tail, place, taken>>
    /\ answers' = [answers EXCEPT ![l] = Append(@, taken[l])]
    /\ \E w : /\ replies' = (replies \ {r}) \cup {w}
              /\ w.caller = l /\ w.written = TRUE /\ w.last = FALSE
    /\ \/ UNCHANGED <<speaking, down>>
       \/ /\ speaking' = [speaking EXCEPT ![l] = "spent"]
          /\ down' = [down EXCEPT ![l] = TRUE] /\ version[l] = 1

\* That is what writing an answer comes to.
LEMMA WritesTells ==
  ASSUME LocationP!IInv, CallerInv, WayInv, NEW r \in replies,
         NEW header \in BOOLEAN, LocationP!Written(r, header)
  PROVE  WritesTo(r, r.caller)
<1> DEFINE w == [r EXCEPT !.written = TRUE]
<1>1. /\ r \in LocationP!Reply /\ r.caller \in Links
      /\ r.n = taken[r.caller] /\ ~r.last
  BY ReplyTells
<1>2. w.caller = r.caller /\ w.written = TRUE /\ w.last = FALSE
  BY <1>1 DEF LocationP!Reply
<1>3. ~r.written /\ LocationP!Matched(r)
  BY DEF LocationP!Written, LocationP!IInv, LocationP!NoAnswerSwallowed
<1>4. /\ UNCHANGED <<version, sent, closing, tail, place, taken>>
      /\ answers' = [answers EXCEPT ![r.caller] = Append(@, taken[r.caller])]
      /\ replies' = (replies \ {r}) \cup {w}
  BY <1>1, <1>3 DEF LocationP!Written, LocationP!callerVars
<1>5. \/ UNCHANGED <<speaking, down>>
      \/ /\ speaking' = [speaking EXCEPT ![r.caller] = "spent"]
         /\ down' = [down EXCEPT ![r.caller] = TRUE] /\ version[r.caller] = 1
  <2>1. speaking[r.caller] = "one" => version[r.caller] = 1
    BY <1>1 DEF LocationP!IInv, LocationP!SpeakInv
  <2>2. QED
    BY <2>1 DEF LocationP!Written, LocationP!Closes
<1> HIDE DEF w
<1>6. QED
  BY <1>2, <1>3, <1>4, <1>5 DEF WritesTo

\* A step that ends a Reply: written, or the connection is shut, and let go
\* only where the sender closed it.
EndsFor(r, l) ==
    /\ r \in replies /\ r.caller = l /\ replies' = replies \ {r}
    /\ UNCHANGED <<version, sent, closing, tail, taken, answers, speaking>>
    /\ \/ r.written /\ UNCHANGED <<down, place>>
       \/ /\ ~r.written /\ down' = [down EXCEPT ![l] = TRUE]
          /\ \/ place' = place
             \/ place' = [place EXCEPT ![l] = "gone"] /\ side[l] = "closed"

\* That is what the other ends of a Reply come to: nothing is written.
LEMMA EndsTells ==
  ASSUME LocationP!IInv, CallerInv, WayInv, NEW r \in replies,
         LocationP!Released(r) \/ LocationP!WriteFails(r) \/ LocationP!Dropped(r)
  PROVE  EndsFor(r, r.caller)
<1>1. /\ r.caller \in Links /\ ~r.last
      /\ ~r.written => ~down[r.caller]
  BY ReplyTells
<1>2. CASE LocationP!Released(r)
  <2>1. r.written /\ UNCHANGED <<down, place>> /\ replies' = replies \ {r}
    BY <1>1, <1>2 DEF LocationP!Released, LocationP!turnVars, LocationP!KeepOn
  <2>2. UNCHANGED <<version, sent, closing, tail, taken, answers, speaking>>
    BY <1>2 DEF LocationP!Released, LocationP!callerVars, LocationP!lineVars
  <2>3. QED
    BY <2>1, <2>2 DEF EndsFor
<1>3. CASE LocationP!WriteFails(r)
  <2>1. ~r.written /\ down' = [down EXCEPT ![r.caller] = TRUE]
        /\ replies' = replies \ {r}
    BY <1>3 DEF LocationP!WriteFails
  <2>2. side[r.caller] = "closed"
    BY <1>1, <1>3, <2>1 DEF LocationP!WriteFails, CallerInv
  <2>3. \/ place' = place
        \/ place' = [place EXCEPT ![r.caller] = "gone"]
    BY <1>3 DEF LocationP!WriteFails, LocationP!LetGo
  <2>4. UNCHANGED <<version, sent, closing, tail, taken, answers, speaking>>
    BY <1>3 DEF LocationP!WriteFails, LocationP!callerVars, LocationP!lineVars
  <2>5. QED
    BY <2>1, <2>2, <2>3, <2>4 DEF EndsFor
<1>4. CASE LocationP!Dropped(r)
  <2>1. /\ ~r.written /\ down' = [down EXCEPT ![r.caller] = TRUE]
        /\ place' = place /\ replies' = replies \ {r}
    BY <1>4 DEF LocationP!Dropped
  <2>2. UNCHANGED <<version, sent, closing, tail, taken, answers, speaking>>
    BY <1>4 DEF LocationP!Dropped, LocationP!callerVars, LocationP!lineVars
  <2>3. QED
    BY <2>1, <2>2 DEF EndsFor
<1>5. QED
  BY <1>2, <1>3, <1>4

----------------------------------------------------------------------------
\* The glue is kept.

\* By a step of the Location's on one connection.
LEMMA LogKept ==
  ASSUME LogInv, UNCHANGED <<senderVars, log, heard, sent>>,
         \A l \in Links :
            heard[l] <= Len(answers'[l]) /\ Len(answers'[l]) <= taken'[l]
  PROVE  LogInv'
<1>1. UNCHANGED <<phase, on, asked, log, heard, sent>>
  BY DEF senderVars
<1>2. QED
  BY <1>1 DEF LogInv

\* Such a step keeps what joins the two sides.
LEMMA StirsGlue ==
  ASSUME LocationP!IInv, LogInv, CallerInv, WayInv, NEW l \in Links, Stirs(l),
         UNCHANGED <<senderVars, log, heard>>
  PROVE  LogInv' /\ CallerInv' /\ WayInv'
<1>1. UNCHANGED <<version, sent, closing, taken, answers, down, replies, side>>
  BY DEF Stirs, senderVars
<1>2. LogInv'
  BY <1>1, LogKept DEF LogInv
<1>3. CallerInv'
  <2>1. ASSUME NEW m \in Links
        PROVE  /\ tail'[m] = tail[m] \/ (tail'[m] = "end" /\ side[m] = "closed")
               /\ place'[m] = "away" <=> place[m] = "away"
               /\ place'[m] = "queued" => place[m] = "queued"
    BY LocationTyped DEF Stirs
  <2>2. QED
    BY <1>1, <2>1 DEF CallerInv
<1>4. WayInv'
  <2>1. \A r \in replies' : /\ place'[r.caller] = "kept" /\ ~r.last
                            /\ ~r.written => /\ ~down'[r.caller]
                                             /\ sent'[r.caller] = taken'[r.caller]
    <3>1. SUFFICES ASSUME NEW r \in replies PROVE place'[r.caller] = "kept"
      BY <1>1 DEF WayInv
    <3>2. r.caller \in Links /\ place[r.caller] = "kept"
      BY ReplyTells
    <3>3. QED
      BY <3>2 DEF Stirs, Unowed
  <2>2. ASSUME NEW m \in Links, speaking'[m] = "spent"
        PROVE  down'[m] \/ place'[m] = "gone"
    <3>1. speaking[m] = "spent" => down[m] \/ place[m] = "gone"
      BY DEF WayInv
    <3>2. place[m] = "gone" => place'[m] = "gone"
      BY DEF Stirs
    <3>3. down'[m] = down[m]
      BY <1>1
    <3>4. speaking[m] = "spent" \/ place'[m] = "gone"
      BY <2>2 DEF Stirs
    <3>5. QED
      BY <3>1, <3>2, <3>3, <3>4
  <2>3. QED
    BY <1>1, <2>1, <2>2 DEF WayInv
<1>5. QED
  BY <1>2, <1>3, <1>4

\* Taking a request keeps it: what was on its way has arrived.
LEMMA HearsGlue ==
  ASSUME LocationP!IInv, LogInv, CallerInv, WayInv, NEW l \in Links,
         NEW kept \in BOOLEAN, HearsAs(l, kept),
         UNCHANGED <<senderVars, log, heard>>
  PROVE  LogInv' /\ CallerInv' /\ WayInv'
<1>1. /\ UNCHANGED <<version, sent, closing, tail, answers, down, speaking, side>>
      /\ place[l] = "kept" /\ ~down[l] /\ Unowed(l) /\ sent[l] = taken[l] + 1
      /\ taken' = [taken EXCEPT ![l] = @ + 1]
      /\ place' = place \/ place' = [place EXCEPT ![l] = "gone"]
  BY DEF HearsAs, senderVars
<1>2. /\ taken \in [Links -> Nat] /\ sent \in [Links -> Nat]
      /\ place \in [Links -> {"away", "queued", "kept", "gone"}]
      /\ answers \in [Links -> Seq(Nat)]
  BY LocationTyped
<1>3. LogInv'
  <2>1. \A m \in Links :
            heard[m] <= Len(answers'[m]) /\ Len(answers'[m]) <= taken'[m]
    <3>1. SUFFICES ASSUME NEW m \in Links
                   PROVE  heard[m] <= Len(answers[m]) /\ Len(answers[m]) <= taken'[m]
      BY <1>1
    <3>2. /\ heard[m] <= Len(answers[m]) /\ Len(answers[m]) <= taken[m]
          /\ Len(answers[m]) \in Nat
      BY <1>2, LenProperties DEF LogInv
    <3>3. taken[m] \in Nat /\ taken'[m] \in {taken[m], taken[m] + 1}
      BY <1>1, <1>2
    <3>4. QED
      BY <3>2, <3>3
  <2>2. QED
    BY <1>1, <2>1, LogKept
<1>4. CallerInv'
  <2>1. \A m \in Links : /\ place'[m] = "away" <=> place[m] = "away"
                         /\ place'[m] = "queued" => /\ place[m] = "queued"
                                                    /\ taken'[m] = taken[m]
    BY <1>1, <1>2
  <2>2. QED
    BY <1>1, <2>1 DEF CallerInv
<1>5. WayInv'
  <2>1. \A m \in Links : /\ sent'[m] <= taken'[m] + 1
                         /\ down'[m] => sent'[m] = taken'[m]
    BY <1>1, <1>2 DEF WayInv
  <2>2. \A m \in Links : speaking'[m] = "spent" => down'[m] \/ place'[m] = "gone"
    BY <1>1, <1>2 DEF WayInv
  <2>3. ASSUME NEW r \in replies'
        PROVE  /\ place'[r.caller] = "kept" /\ ~r.last
               /\ ~r.written => /\ ~down'[r.caller]
                                /\ sent'[r.caller] = taken'[r.caller]
    <3>1. CASE r \in replies
      <4>1. /\ r.caller \in Links /\ r.caller # l /\ place[r.caller] = "kept"
            /\ ~r.last /\ (~r.written => /\ ~down[r.caller]
                                         /\ sent[r.caller] = taken[r.caller])
        BY <1>1, <3>1, ReplyTells DEF Unowed
      <4>2. QED
        BY <1>1, <1>2, <4>1
    <3>2. CASE r \notin replies
      <4>1. /\ place' = place /\ r.caller = l /\ r.written = FALSE
            /\ r.last = FALSE
        BY <2>3, <3>2 DEF HearsAs
      <4>2. QED
        BY <1>1, <1>2, <4>1
    <3>3. QED
      BY <3>1, <3>2
  <2>4. QED
    BY <2>1, <2>2, <2>3 DEF WayInv
<1>6. QED
  BY <1>3, <1>4, <1>5

\* Writing an answer keeps it: answers and takings are one for one again.
LEMMA WritesGlue ==
  ASSUME LocationP!IInv, LogInv, CallerInv, WayInv, NEW l \in Links,
         NEW r \in replies, WritesTo(r, l), UNCHANGED <<senderVars, log, heard>>
  PROVE  LogInv' /\ CallerInv' /\ WayInv'
<1>1. /\ UNCHANGED <<version, sent, closing, tail, place, taken, side>>
      /\ answers' = [answers EXCEPT ![l] = Append(@, taken[l])]
      /\ r.caller = l /\ ~r.written
      /\ speaking' = speaking \/ speaking' = [speaking EXCEPT ![l] = "spent"]
      /\ down' = down \/ down' = [down EXCEPT ![l] = TRUE]
      /\ speaking' = speaking \/ down' = [down EXCEPT ![l] = TRUE]
  BY DEF WritesTo, senderVars
<1>2. /\ taken \in [Links -> Nat] /\ sent \in [Links -> Nat]
      /\ down \in [Links -> BOOLEAN] /\ answers \in [Links -> Seq(Nat)]
      /\ speaking \in [Links -> {"unheard", "one", "two", "spent"}]
  BY LocationTyped
<1>3. /\ place[l] = "kept" /\ ~down[l] /\ sent[l] = taken[l]
      /\ taken[l] = Len(answers[l]) + 1
      /\ \A q \in replies : q.caller = l => q = r
  BY <1>1, ReplyTells
<1>4. LogInv'
  <2>1. ASSUME NEW m \in Links
        PROVE  heard[m] <= Len(answers'[m]) /\ Len(answers'[m]) <= taken'[m]
    <3>1. /\ heard[m] <= Len(answers[m]) /\ Len(answers[m]) <= taken[m]
          /\ Len(answers[m]) \in Nat /\ heard[m] \in Nat
      BY <1>2, LenProperties DEF LogInv
    <3>2. CASE m = l
      <4>1. Len(Append(answers[l], taken[l])) = Len(answers[l]) + 1
        BY <1>2, AppendProperties
      <4>2. answers'[l] = Append(answers[l], taken[l])
        BY <1>1, <1>2
      <4>3. QED
        BY <1>1, <1>3, <3>1, <3>2, <4>1, <4>2
    <3>3. CASE m # l
      BY <1>1, <1>2, <3>1, <3>3
    <3>4. QED
      BY <3>2, <3>3
  <2>2. QED
    BY <1>1, <2>1, LogKept
<1>5. CallerInv'
  <2>1. \A m \in Links : down'[m] => down[m] \/ place[m] = "kept"
    BY <1>1, <1>2, <1>3
  <2>2. QED
    BY <1>1, <2>1 DEF CallerInv
<1>6. WayInv'
  <2>1. ASSUME NEW m \in Links
        PROVE  /\ sent'[m] <= taken'[m] + 1
               /\ down'[m] => sent'[m] = taken'[m]
    <3>1. sent[m] <= taken[m] + 1 /\ (down[m] => sent[m] = taken[m])
      BY DEF WayInv
    <3>2. down'[m] => down[m] \/ m = l
      BY <1>1, <1>2
    <3>3. QED
      BY <1>1, <1>3, <3>1, <3>2
  <2>2. ASSUME NEW m \in Links
        PROVE  speaking'[m] = "spent" => down'[m] \/ place'[m] = "gone"
    <3>1. speaking[m] = "spent" => down[m] \/ place[m] = "gone"
      BY DEF WayInv
    <3>2. CASE m = l
      BY <1>1, <1>2, <3>1, <3>2
    <3>3. CASE m # l
      BY <1>1, <1>2, <3>1, <3>3
    <3>4. QED
      BY <3>2, <3>3
  <2>3. ASSUME NEW q \in replies'
        PROVE  /\ place'[q.caller] = "kept" /\ ~q.last
               /\ ~q.written => /\ ~down'[q.caller]
                                /\ sent'[q.caller] = taken'[q.caller]
    <3>1. CASE q \in replies /\ q # r
      <4>1. /\ q.caller \in Links /\ q.caller # l /\ place[q.caller] = "kept"
            /\ ~q.last /\ (~q.written => /\ ~down[q.caller]
                                         /\ sent[q.caller] = taken[q.caller])
        BY <1>3, <3>1, ReplyTells
      <4>2. QED
        BY <1>1, <1>2, <4>1
    <3>2. CASE q \notin replies \/ q = r
      <4>1. q.caller = l /\ q.last = FALSE /\ (q = r \/ q.written = TRUE)
        BY <1>1, <1>3, <2>3, <3>2, ReplyTells DEF WritesTo
      <4>2. q.written = TRUE
        BY <2>3, <3>2, <4>1 DEF WritesTo
      <4>3. QED
        BY <1>1, <1>3, <4>1, <4>2
    <3>3. QED
      BY <3>1, <3>2
  <2>4. QED
    BY <2>1, <2>2, <2>3 DEF WayInv
<1>7. QED
  BY <1>4, <1>5, <1>6

\* So does a Reply's end: one that writes nothing leaves its line down.
LEMMA EndsGlue ==
  ASSUME LocationP!IInv, LogInv, CallerInv, WayInv, NEW l \in Links,
         NEW r \in replies, EndsFor(r, l), UNCHANGED <<senderVars, log, heard>>
  PROVE  LogInv' /\ CallerInv' /\ WayInv'
<1>1. /\ UNCHANGED <<version, sent, closing, tail, taken, answers, speaking, side>>
      /\ r.caller = l /\ replies' = replies \ {r}
      /\ down' = down \/ (~r.written /\ down' = [down EXCEPT ![l] = TRUE])
      /\ place' = place \/ place' = [place EXCEPT ![l] = "gone"]
  BY DEF EndsFor, senderVars
<1>2. /\ place \in [Links -> {"away", "queued", "kept", "gone"}]
      /\ down \in [Links -> BOOLEAN]
  BY LocationTyped
<1>3. /\ place[l] = "kept" /\ (~r.written => sent[l] = taken[l])
      /\ \A q \in replies : q.caller = l => q = r
  BY <1>1, ReplyTells
<1>4. LogInv'
  BY <1>1, LogKept DEF LogInv
<1>5. CallerInv'
  <2>1. \A m \in Links : /\ down'[m] => down[m] \/ place[m] = "kept"
                         /\ place'[m] = "away" <=> place[m] = "away"
                         /\ place'[m] = "queued" <=> place[m] = "queued"
    BY <1>1, <1>2, <1>3
  <2>2. QED
    BY <1>1, <2>1 DEF CallerInv
<1>6. WayInv'
  <2>1. ASSUME NEW m \in Links
        PROVE  /\ sent'[m] <= taken'[m] + 1
               /\ down'[m] => sent'[m] = taken'[m]
    <3>1. sent[m] <= taken[m] + 1 /\ (down[m] => sent[m] = taken[m])
      BY DEF WayInv
    <3>2. down'[m] => down[m] \/ m = l
      BY <1>1, <1>2
    <3>3. QED
      BY <1>1, <1>3, <3>1, <3>2
  <2>2. ASSUME NEW m \in Links
        PROVE  speaking'[m] = "spent" => down'[m] \/ place'[m] = "gone"
    <3>1. speaking[m] = "spent" => down[m] \/ place[m] = "gone"
      BY DEF WayInv
    <3>2. CASE m = l
      BY <1>1, <1>2, <3>1, <3>2
    <3>3. CASE m # l
      BY <1>1, <1>2, <3>1, <3>3
    <3>4. QED
      BY <3>2, <3>3
  <2>3. ASSUME NEW q \in replies'
        PROVE  /\ place'[q.caller] = "kept" /\ ~q.last
               /\ ~q.written => /\ ~down'[q.caller]
                                /\ sent'[q.caller] = taken'[q.caller]
    <3>1. /\ q.caller \in Links /\ q.caller # l /\ place[q.caller] = "kept"
          /\ ~q.last /\ (~q.written => /\ ~down[q.caller]
                                       /\ sent[q.caller] = taken[q.caller])
      BY <1>1, <1>3, ReplyTells
    <3>2. QED
      BY <1>1, <1>2, <3>1
  <2>4. QED
    BY <2>1, <2>2, <2>3 DEF WayInv
<1>7. QED
  BY <1>4, <1>5, <1>6

\* What both sides need of the threads: their types, and what they hold.
LEMMA SenderTyped ==
  ASSUME SenderP!IInv
  PROVE  /\ phase \in [Senders -> {"idle", "opening", "asking", "awaiting",
                                   "told", "failed"}]
         /\ on \in [Senders -> Links \cup {NoLink}]
         /\ asked \in [Senders -> Nat]
         /\ side \in [Links -> {"unopened", "held", "kept", "closed"}]
         /\ Back \in [Links -> Seq(SenderP!Messages)]
         /\ \A s \in Senders : phase[s] \in {"asking", "awaiting"} =>
                on[s] \in Links /\ side[on[s]] = "held" /\ asked[s] \in 1..MaxAsks
BY BoundAssumption, LinksAssumption
   DEF SenderP!IInv, SenderP!Typing, SenderP!HoldInv

\* A thread's step that writes nothing: what it closes stays closed, what it
\* asks is new.
LEMMA ThreadGlue ==
  ASSUME LogInv, CallerInv, WayInv, UNCHANGED <<locationVars, log>>,
         \A l \in Links : /\ side'[l] = "unopened" <=> side[l] = "unopened"
                          /\ side[l] = "closed" => side'[l] = "closed",
         \A u \in Senders : asked[u] \in Nat /\ asked'[u] \in {asked[u], asked[u] + 1},
         heard' \in [Links -> Nat], \A l \in Links : heard'[l] <= Len(answers[l]),
         \A u \in Senders : phase'[u] = "asking" =>
            \/ phase[u] = "asking" /\ on'[u] = on[u] /\ asked'[u] = asked[u]
            \/ asked'[u] = asked[u] + 1 /\ on'[u] \in Links
  PROVE  LogInv' /\ CallerInv' /\ WayInv'
<1>1. /\ UNCHANGED <<version, sent, closing, tail, down, answers, place,
                     speaking, taken, replies>>
      /\ log' = log
  BY DEF locationVars
<1>2. CallerInv' /\ WayInv'
  BY <1>1 DEF CallerInv, WayInv
<1>3. ASSUME NEW l \in Links, NEW i \in 1..Len(log[l])
      PROVE  /\ log[l][i] \in Asks /\ log[l][i][1] \in Senders
             /\ log[l][i][2] <= asked[log[l][i][1]] /\ log[l][i][2] \in Nat
  <2>1. log[l] \in Seq(Asks)
    BY DEF LogInv
  <2>2. log[l][i] \in Asks
    BY <2>1, LenProperties
  <2>3. QED
    BY <2>2, BoundAssumption DEF LogInv, Asks
<1>4. ASSUME NEW l \in Links, NEW i \in 1..Len(log[l])
      PROVE  log[l][i][2] <= asked'[log[l][i][1]]
  <2>1. PICK u \in Senders : u = log[l][i][1]
    BY <1>3
  <2>2. log[l][i][2] <= asked[u] /\ log[l][i][2] \in Nat
    BY <1>3, <2>1
  <2>3. log[l][i][2] <= asked'[u]
    BY <2>2
  <2>4. QED
    BY <2>1, <2>3
<1>5. ASSUME NEW u \in Senders, phase'[u] = "asking",
             NEW i \in 1..Len(log[on'[u]])
      PROVE  log[on'[u]][i] # <<u, asked'[u]>>
  <2>1. CASE phase[u] = "asking" /\ on'[u] = on[u] /\ asked'[u] = asked[u]
    <3>1. \A j \in 1..Len(log[on[u]]) : log[on[u]][j] # <<u, asked[u]>>
      BY <2>1 DEF LogInv
    <3>2. on'[u] = on[u] /\ asked'[u] = asked[u]
      BY <2>1
    <3>3. QED
      BY <3>1, <3>2
  <2>2. CASE asked'[u] = asked[u] + 1 /\ on'[u] \in Links
    <3>1. PICK e \in Asks : e = log[on'[u]][i]
      BY <1>3, <2>2
    <3>2. e[2] <= asked[e[1]] /\ e[2] \in Nat
      BY <1>3, <2>2, <3>1
    <3>3. e # <<u, asked'[u]>>
      BY <2>2, <3>2
    <3>4. QED
      BY <3>1, <3>3
  <2>3. QED
    BY <1>5, <2>1, <2>2
<1>6. LogInv'
  BY <1>1, <1>4, <1>5 DEF LogInv
<1>7. QED
  BY <1>2, <1>6

\* So does a thread's beginning an exchange.
LEMMA BeginGlue ==
  ASSUME SenderP!IInv, LogInv, CallerInv, WayInv, NEW s \in Senders,
         NEW t \in Targets, Take(s, t)
  PROVE  LogInv' /\ CallerInv' /\ WayInv'
<1>1. UNCHANGED <<locationVars, log, heard>>
  BY DEF Take
<1>2. /\ phase \in [Senders -> {"idle", "opening", "asking", "awaiting",
                                "told", "failed"}]
      /\ on \in [Senders -> Links \cup {NoLink}]
      /\ asked \in [Senders -> Nat]
      /\ side \in [Links -> {"unopened", "held", "kept", "closed"}]
  BY SenderTyped
<1>3. asked' = [asked EXCEPT ![s] = @ + 1]
  BY DEF Take, Sender!Take, Sender!TakeNone, Sender!Begins
<1>4. \A l \in Links : /\ side'[l] = "unopened" <=> side[l] = "unopened"
                       /\ side[l] = "closed" => side'[l] = "closed"
  <2>1. CASE Sender!Take(s, t)
    <3>1. PICK l \in Links, S \in SUBSET Links :
            /\ side[l] = "kept" /\ \A m \in S : side[m] = "kept"
            /\ side' = [Sender!Closed(S) EXCEPT ![l] = "held"]
      BY <2>1 DEF Sender!Take, Sender!KeptTo, Sender!Dead
    <3>2. QED
      BY <1>2, <3>1 DEF Sender!Closed
  <2>2. CASE Sender!TakeNone(s, t)
    BY <1>2, <2>2 DEF Sender!TakeNone, Sender!KeptTo, Sender!Closed
  <2>3. QED
    BY <2>1, <2>2 DEF Take
<1>5. ASSUME NEW u \in Senders, phase'[u] = "asking"
      PROVE  \/ phase[u] = "asking" /\ on'[u] = on[u] /\ asked'[u] = asked[u]
             \/ asked'[u] = asked[u] + 1 /\ on'[u] \in Links
  <2>1. CASE Sender!Take(s, t)
    <3>1. /\ \E l \in Links : on' = [on EXCEPT ![s] = l]
          /\ phase' = [phase EXCEPT ![s] = "asking"]
      BY <2>1 DEF Sender!Take, Sender!KeptTo
    <3>2. QED
      BY <1>2, <1>3, <1>5, <3>1
  <2>2. CASE Sender!TakeNone(s, t)
    <3>1. on' = on /\ phase' = [phase EXCEPT ![s] = "opening"]
      BY <2>2 DEF Sender!TakeNone
    <3>2. QED
      BY <1>2, <1>3, <1>5, <3>1
  <2>3. QED
    BY <2>1, <2>2 DEF Take
<1>6. heard' \in [Links -> Nat] /\ \A l \in Links : heard'[l] <= Len(answers[l])
  BY <1>1 DEF LogInv
<1>7. \A u \in Senders : asked[u] \in Nat /\ asked'[u] \in {asked[u], asked[u] + 1}
  BY <1>2, <1>3
<1>8. QED
  BY <1>1, <1>4, <1>5, <1>6, <1>7, ThreadGlue

\* So does a thread's end of one: what it heard is what was answered.
LEMMA EndGlue ==
  ASSUME LocationP!IInv, SenderP!IInv, LogInv, CallerInv, WayInv,
         NEW s \in Senders, OpenFails(s) \/ Told(s) \/ Fails(s)
  PROVE  LogInv' /\ CallerInv' /\ WayInv'
<1>1. UNCHANGED <<locationVars, log>>
  BY DEF OpenFails, Told, Fails
<1>2. /\ phase \in [Senders -> {"idle", "opening", "asking", "awaiting",
                                "told", "failed"}]
      /\ on \in [Senders -> Links \cup {NoLink}]
      /\ asked \in [Senders -> Nat] /\ answers \in [Links -> Seq(Nat)]
      /\ side \in [Links -> {"unopened", "held", "kept", "closed"}]
  BY SenderTyped, LocationTyped
<1>3. /\ asked' = asked /\ on' \in {on, [on EXCEPT ![s] = NoLink]}
      /\ \E p \in {"failed", "told", "opening"} : phase' = [phase EXCEPT ![s] = p]
  BY DEF OpenFails, Told, Fails, Sender!OpenFails, Sender!Told, Sender!Fails
<1>4. ASSUME phase[s] = "awaiting" PROVE on[s] \in Links /\ side[on[s]] = "held"
  BY <1>4, SenderTyped
<1>5. \A l \in Links : /\ side'[l] = "unopened" <=> side[l] = "unopened"
                       /\ side[l] = "closed" => side'[l] = "closed"
  <2>1. CASE OpenFails(s)
    <3>1. side' = Sender!Closed(Sender!Swept)
      BY <2>1 DEF OpenFails, Sender!OpenFails
    <3>2. QED
      BY <3>1 DEF Sender!Closed, Sender!Swept, Sender!Dead
  <2>2. CASE Told(s) \/ Fails(s)
    <3>1. on[s] \in Links /\ side[on[s]] = "held"
      BY <2>2, <1>4 DEF Told, Fails, Sender!Fails, Sender!Broken
    <3>2. \/ side' = Sender!Closed({on[s]})
          \/ side' = [side EXCEPT ![on[s]] = "kept"]
      BY <2>2 DEF Told, Fails, Sender!Told, Sender!Fails
    <3>3. QED
      BY <1>2, <3>1, <3>2 DEF Sender!Closed
  <2>3. QED
    BY <2>1, <2>2
<1>6. heard' \in [Links -> Nat] /\ \A l \in Links : heard'[l] <= Len(answers[l])
  <2>1. CASE Told(s)
    <3>1. PICK l \in Links : l = on[s] /\ side[l] = "held"
      BY <2>1, <1>4 DEF Told
    <3>2. heard' = [heard EXCEPT ![l] = @ + 1] /\ Back[l] # <<>>
      BY <2>1, <3>1 DEF Told, Sender!Told, Sender!Awaits
    <3>3. Back[l] = Unheard(l)
      BY <3>1 DEF Back, Ours
    <3>4. heard[l] \in Nat /\ Len(answers[l]) \in Nat /\ heard[l] <= Len(answers[l])
      BY <1>2, LenProperties DEF LogInv
    <3>5. heard[l] # Len(answers[l])
      <4>1. SUFFICES ASSUME heard[l] = Len(answers[l]) PROVE Back[l] = <<>>
        BY <3>2
      <4>2. DOMAIN Back[l] = 1..0
        BY <3>3, <3>4, <4>1 DEF Unheard
      <4>3. Back[l] \in Seq(SenderP!Messages)
        BY SenderTyped
      <4>4. QED
        BY <4>2, <4>3, EmptySeq, LenProperties
    <3>6. QED
      BY <3>2, <3>4, <3>5 DEF LogInv
  <2>2. CASE OpenFails(s) \/ Fails(s)
    BY <2>2 DEF OpenFails, Fails, LogInv
  <2>3. QED
    BY <2>1, <2>2
<1>7. \A u \in Senders :
        /\ asked[u] \in Nat /\ asked'[u] \in {asked[u], asked[u] + 1}
        /\ phase'[u] = "asking" =>
                phase[u] = "asking" /\ on'[u] = on[u] /\ asked'[u] = asked[u]
  BY <1>2, <1>3
<1>8. QED
  BY <1>1, <1>5, <1>6, <1>7, ThreadGlue

\* A connection opened is new at both ends.
LEMMA OpenGlue ==
  ASSUME LocationP!IInv, SenderP!IInv, LogInv, CallerInv, WayInv,
         NEW s \in Senders, Open(s)
  PROVE  LogInv' /\ CallerInv' /\ WayInv'
<1>1. PICK l \in Links :
        /\ LocationP!Connect(l) /\ UNCHANGED <<log, heard>>
        /\ Sender!Open(s) /\ on'[s] = l
  BY CallerSame DEF Open
<1>2. /\ phase \in [Senders -> {"idle", "opening", "asking", "awaiting",
                                "told", "failed"}]
      /\ on \in [Senders -> Links \cup {NoLink}]
      /\ side \in [Links -> {"unopened", "held", "kept", "closed"}]
      /\ place \in [Links -> {"away", "queued", "kept", "gone"}]
  BY SenderTyped, LocationTyped
<1>3. /\ UNCHANGED <<version, sent, closing, tail, down, answers, speaking,
                     taken, replies>>
      /\ place[l] = "away" /\ place' = [place EXCEPT ![l] = "queued"]
  BY <1>1 DEF LocationP!Connect, LocationP!callerVars, LocationP!lineVars
<1>4. /\ phase' = [phase EXCEPT ![s] = "asking"] /\ asked' = asked
      /\ on' = [on EXCEPT ![s] = l]
      /\ side' = [Sender!Closed(Sender!Swept) EXCEPT ![l] = "held"]
  <2>1. PICK m \in Links :
          /\ on' = [on EXCEPT ![s] = m]
          /\ side' = [Sender!Closed(Sender!Swept) EXCEPT ![m] = "held"]
    BY <1>1 DEF Sender!Open
  <2>2. m = l
    BY <1>1, <1>2, <2>1
  <2>3. QED
    BY <1>1, <2>1, <2>2 DEF Sender!Open
<1>5. side[l] = "unopened" /\ sent[l] = 0 /\ ~down[l] /\ taken[l] = 0
      /\ Len(log[l]) = 0
  <2>1. sent[l] \in Nat /\ taken[l] \in Nat /\ taken[l] <= sent[l]
    BY LocationTyped
  <2>2. QED
    BY <1>3, <2>1 DEF CallerInv, LogInv
<1>6. CallerInv'
  <2>1. \A m \in Links \ {l} : /\ side'[m] = "unopened" <=> side[m] = "unopened"
                               /\ side[m] = "closed" => side'[m] = "closed"
                               /\ place'[m] = place[m]
    BY <1>2, <1>3, <1>4 DEF Sender!Closed, Sender!Swept, Sender!Dead
  <2>2. side'[l] = "held" /\ place'[l] = "queued"
    BY <1>2, <1>3, <1>4 DEF Sender!Closed
  <2>3. tail[l] # "end"
    BY <1>5 DEF CallerInv
  <2>4. QED
    BY <1>3, <1>5, <2>1, <2>2, <2>3 DEF CallerInv
<1>7. WayInv'
  <2>1. \A r \in replies : r.caller \in Links /\ place[r.caller] = "kept"
    BY ReplyTells
  <2>2. \A m \in Links : place[m] \in {"kept", "gone"} => place'[m] = place[m]
    BY <1>2, <1>3
  <2>3. QED
    BY <1>3, <2>1, <2>2 DEF WayInv
<1>8. LogInv'
  <2>1. ASSUME NEW u \in Senders, phase'[u] = "asking",
               NEW i \in 1..Len(log[on'[u]])
        PROVE  log[on'[u]][i] # <<u, asked[u]>>
    <3>1. u # s
      BY <1>1, <1>5, <2>1
    <3>2. phase[u] = "asking" /\ on'[u] = on[u]
      BY <1>2, <1>4, <2>1, <3>1
    <3>3. \A j \in 1..Len(log[on[u]]) : log[on[u]][j] # <<u, asked[u]>>
      BY <3>2 DEF LogInv
    <3>4. QED
      BY <3>2, <3>3
  <2>2. QED
    BY <1>1, <1>3, <1>4, <2>1 DEF LogInv
<1>9. QED
  BY <1>6, <1>7, <1>8

\* A thread writes where nothing is under way: what it writes is the one
\* request on its way.
LEMMA AskFinds ==
  ASSUME LocationP!IInv, SenderP!IInv, LogInv, CallerInv, WayInv,
         NEW s \in Senders, phase[s] = "asking", NEW l \in Links, l = on[s],
         Location!OnLine(l)
  PROVE  /\ sent[l] = taken[l] /\ \A r \in replies : r.caller = l => r.written
         /\ place[l] \in {"queued", "kept"} /\ ~down[l]
<1>1. place[l] \in {"queued", "kept"} /\ ~down[l]
  BY DEF Location!OnLine
<1>2. Up(l)
  BY <1>1 DEF Up, Location!Open
<1>3. side[l] = "held" /\ Ours(l)
  BY SenderTyped DEF Ours
<1>4. SenderP!Quiet(l)
  BY DEF SenderP!IInv, SenderP!CarryInv
<1>5. Written(l) = {} /\ InHand(l) = {}
  BY <1>2, <1>3, <1>4 DEF SenderP!Quiet, Coming, Doing
<1>6. sent[l] \in Nat /\ taken[l] \in Nat /\ taken[l] <= sent[l]
  BY LocationTyped
<1>7. sent[l] = taken[l]
  <2>1. SUFFICES ASSUME sent[l] # taken[l] PROVE Written(l) # {}
    BY <1>5
  <2>2. taken[l] + 1 \in taken[l] + 1..sent[l]
    BY <1>6, <2>1
  <2>3. log[l][taken[l] + 1] \in Written(l)
    BY <2>2 DEF Written
  <2>4. QED
    BY <2>3
<1>8. ASSUME NEW r \in replies, r.caller = l, ~r.written PROVE FALSE
  <2>1. log[l][r.n] \in InHand(l)
    BY <1>8 DEF InHand
  <2>2. QED
    BY <1>5, <2>1
<1>9. QED
  BY <1>1, <1>7, <1>8

\* The request is written once, where the log ends.
LEMMA AskLogs ==
  ASSUME LocationP!IInv, SenderP!IInv, LogInv,
         NEW s \in Senders, NEW l \in Links, l = on[s], phase[s] = "asking",
         UNCHANGED <<asked, on, heard, answers, taken>>,
         phase' = [phase EXCEPT ![s] = "awaiting"],
         sent' = [sent EXCEPT ![l] = @ + 1],
         log' = [log EXCEPT ![l] = Append(@, <<s, asked[s]>>)]
  PROVE  LogInv'
<1> DEFINE a == <<s, asked[s]>>
           n == Len(log[l])
<1>1. /\ phase \in [Senders -> {"idle", "opening", "asking", "awaiting",
                                "told", "failed"}]
      /\ asked \in [Senders -> Nat] /\ asked[s] \in 1..MaxAsks
      /\ sent \in [Links -> Nat]
  BY SenderTyped, LocationTyped
<1>2. a \in Asks
  BY <1>1 DEF Asks
<1>3. log \in [Links -> Seq(Asks)] /\ n \in Nat
  BY LenProperties DEF LogInv
<1>4. /\ log'[l] = Append(log[l], a) /\ \A m \in Links \ {l} : log'[m] = log[m]
      /\ Append(log[l], a) \in Seq(Asks) /\ Len(log'[l]) = n + 1
      /\ log'[l][n + 1] = a /\ \A i \in 1..n : log'[l][i] = log[l][i]
  BY <1>2, <1>3, AppendProperties
<1>5. \A i \in 1..n + 1 : i = n + 1 \/ i \in 1..n
  BY <1>3
<1>6. \A i \in 1..n : log[l][i] # a
  BY DEF LogInv
<1> HIDE DEF a, n
<1>7. log' \in [Links -> Seq(Asks)]
  BY <1>3, <1>4
<1>8. IsFiniteSet({m \in Links : log'[m] # <<>>})
  <2>1. IsFiniteSet({m \in Links : log[m] # <<>>} \cup {l})
    BY FS_AddElement DEF LogInv
  <2>2. {m \in Links : log'[m] # <<>>} \subseteq {m \in Links : log[m] # <<>>} \cup {l}
    BY <1>4
  <2>3. QED
    BY <2>1, <2>2, FS_Subset
<1>9. ASSUME NEW m \in Links
      PROVE  Len(log'[m]) = sent'[m]
  BY <1>1, <1>3, <1>4 DEF LogInv, n
<1>10. ASSUME NEW m \in Links, NEW i \in 1..Len(log'[m]), NEW j \in 1..Len(log'[m]),
              log'[m][i] = log'[m][j]
       PROVE  i = j
  <2>1. CASE m # l
    BY <1>4, <1>10, <2>1 DEF LogInv
  <2>2. CASE m = l
    <3>1. \A p, q \in 1..n : log[l][p] = log[l][q] => p = q
      BY DEF LogInv, n
    <3>2. i \in 1..n + 1 /\ j \in 1..n + 1
      BY <1>4, <2>2
    <3>3. QED
      BY <1>4, <1>5, <1>6, <1>10, <2>2, <3>1, <3>2
  <2>3. QED
    BY <2>1, <2>2
<1>11. ASSUME NEW m \in Links, NEW i \in 1..Len(log'[m])
       PROVE  log'[m][i][2] <= asked[log'[m][i][1]]
  <2>1. CASE m # l
    BY <1>4, <2>1 DEF LogInv
  <2>2. CASE m = l
    <3>1. \A p \in 1..n : log[l][p][2] <= asked[log[l][p][1]]
      BY DEF LogInv, n
    <3>2. i \in 1..n + 1
      BY <1>4, <2>2
    <3>3. a[1] = s /\ a[2] = asked[s] /\ asked[s] <= asked[s]
      BY <1>1 DEF a
    <3>4. QED
      BY <1>4, <1>5, <2>2, <3>1, <3>2, <3>3
  <2>3. QED
    BY <2>1, <2>2
<1>12. ASSUME NEW u \in Senders, phase'[u] = "asking",
              NEW i \in 1..Len(log'[on[u]])
       PROVE  log'[on[u]][i] # <<u, asked[u]>>
  <2>1. u # s /\ phase[u] = "asking" /\ on[u] \in Links
    BY <1>1, <1>12, SenderTyped
  <2>2. \A j \in 1..Len(log[on[u]]) : log[on[u]][j] # <<u, asked[u]>>
    BY <2>1 DEF LogInv
  <2>3. CASE on[u] # l
    BY <1>4, <2>1, <2>2, <2>3
  <2>4. CASE on[u] = l
    <3>1. \A j \in 1..n : log[l][j] # <<u, asked[u]>>
      BY <2>2, <2>4 DEF n
    <3>2. a # <<u, asked[u]>> /\ i \in 1..n + 1
      BY <1>4, <2>1, <2>4 DEF a
    <3>3. QED
      BY <1>4, <1>5, <2>4, <3>1, <3>2
  <2>5. QED
    BY <2>3, <2>4
<1>13. /\ heard' \in [Links -> Nat]
       /\ \A m \in Links :
            heard'[m] <= Len(answers'[m]) /\ Len(answers'[m]) <= taken'[m]
  BY DEF LogInv
<1>14. on' = on /\ asked' = asked
  OBVIOUS
<1>15. \A m \in Links :
        /\ Len(log'[m]) = sent'[m]
        /\ \A i, j \in 1..Len(log'[m]) : log'[m][i] = log'[m][j] => i = j
        /\ \A i \in 1..Len(log'[m]) : log'[m][i][2] <= asked'[log'[m][i][1]]
        /\ heard'[m] <= Len(answers'[m]) /\ Len(answers'[m]) <= taken'[m]
  BY <1>9, <1>10, <1>11, <1>13, <1>14
<1>16. \A u \in Senders : phase'[u] = "asking" =>
        \A i \in 1..Len(log'[on'[u]]) : log'[on'[u]][i] # <<u, asked'[u]>>
  BY <1>12, <1>14
<1>17. QED
  BY <1>7, <1>8, <1>13, <1>15, <1>16 DEF LogInv

\* What is written is under way, and alone.
LEMMA AskGlue ==
  ASSUME LocationP!IInv, SenderP!IInv, LogInv, CallerInv, WayInv,
         NEW s \in Senders, Ask(s)
  PROVE  LogInv' /\ CallerInv' /\ WayInv'
<1>1. /\ phase[s] = "asking" /\ UNCHANGED <<heard, side, asked, on>>
      /\ phase' = [phase EXCEPT ![s] = "awaiting"]
  BY DEF Ask, Sender!Ask
<1>2. PICK l \in Links : l = on[s]
  BY <1>1, SenderTyped
<1>3. /\ phase \in [Senders -> {"idle", "opening", "asking", "awaiting",
                                "told", "failed"}]
      /\ asked \in [Senders -> Nat]
      /\ sent \in [Links -> Nat] /\ taken \in [Links -> Nat]
      /\ tail \in [Links -> {"quiet", "part", "junk", "end"}]
  BY SenderTyped, LocationTyped
<1>4. CASE ~Location!OnLine(l)
  <2>1. UNCHANGED <<locationVars, log>>
    BY <1>2, <1>4 DEF Ask
  <2>2. heard' \in [Links -> Nat] /\ \A m \in Links : heard'[m] <= Len(answers[m])
    BY <1>1 DEF LogInv
  <2>3. \A u \in Senders : phase'[u] = "asking" =>
            phase[u] = "asking" /\ on'[u] = on[u] /\ asked'[u] = asked[u]
    BY <1>1, <1>3
  <2>4. \A u \in Senders : asked[u] \in Nat /\ asked'[u] \in {asked[u], asked[u] + 1}
    BY <1>1, <1>3
  <2>5. QED
    BY <1>1, <2>1, <2>2, <2>3, <2>4, ThreadGlue
<1>5. CASE Location!OnLine(l)
  <2>1. /\ UNCHANGED <<version, closing, down, answers, place, speaking, taken,
                       replies>>
        /\ sent' = [sent EXCEPT ![l] = @ + 1] /\ tail' = [tail EXCEPT ![l] = "quiet"]
        /\ log' = [log EXCEPT ![l] = Append(@, <<s, asked[s]>>)]
        /\ tail[l] \in {"quiet", "part"}
    BY <1>2, <1>5 DEF Ask, Location!Send, Location!lineVars, Location!turnVars
  <2>2. /\ sent[l] = taken[l] /\ \A r \in replies : r.caller = l => r.written
        /\ place[l] \in {"queued", "kept"} /\ ~down[l]
    BY <1>1, <1>2, <1>5, AskFinds
  <2>3. LogInv'
    BY <1>1, <1>2, <2>1, AskLogs
  <2>4. CallerInv'
    <3>1. ASSUME NEW m \in Links
          PROVE  /\ tail'[m] = tail[m]
                 /\ place[m] = "away" => sent'[m] = sent[m]
      BY <1>3, <2>1, <2>2 DEF CallerInv
    <3>2. QED
      BY <1>1, <2>1, <3>1 DEF CallerInv
  <2>5. WayInv'
    <3>1. ASSUME NEW m \in Links
          PROVE  /\ sent'[m] <= taken[m] + 1
                 /\ down[m] => sent'[m] = taken[m]
      BY <1>3, <2>1, <2>2 DEF WayInv
    <3>2. ASSUME NEW r \in replies, ~r.written
          PROVE  sent'[r.caller] = taken[r.caller]
      <4>1. r.caller \in Links /\ r.caller # l /\ sent[r.caller] = taken[r.caller]
        BY <2>2, <3>2, ReplyTells
      <4>2. QED
        BY <2>1, <4>1
    <3>3. QED
      BY <2>1, <3>1, <3>2 DEF WayInv
  <2>6. QED
    BY <2>3, <2>4, <2>5
<1>6. QED
  BY <1>4, <1>5

----------------------------------------------------------------------------
\* What the sender sees of a step of the Location's.

\* The Location has hold of a connection until it is gone: a Reply's is kept.
UpUntilGone == \A l \in Links : Up(l) <=> ~down[l] /\ place[l] # "gone"

\* Nothing but its line and its place says whether a connection is up.
LEMMA UpIs == WayInv => UpUntilGone
BY DEF WayInv, UpUntilGone, Up, Location!Open

\* A connection looks as it did.
Alike(m) ==
    /\ Far'[m] = Far[m] /\ Coming'[m] = Coming[m]
    /\ Doing'[m] = Doing[m] /\ Back'[m] = Back[m]

\* What is on its way back changes only with an answer, or a line that is spent.
LEMMA BackAlike ==
  ASSUME NEW m \in Links, UNCHANGED <<senderVars, log, heard>>,
         answers'[m] = answers[m],
         Ours(m) => (speaking'[m] = "spent" <=> speaking[m] = "spent")
  PROVE  Back'[m] = Back[m]
<1>1. side' = side /\ log' = log /\ heard' = heard
  BY DEF senderVars
<1>2. Ours(m)' <=> Ours(m)
  BY <1>1 DEF Ours
<1>3. CASE Ours(m)
  <2>1. Unheard(m)' = Unheard(m)
    BY <1>1, <1>3 DEF Unheard
  <2>2. QED
    BY <1>2, <1>3, <2>1 DEF Back
<1>4. CASE ~Ours(m)
  BY <1>2, <1>4 DEF Back
<1>5. QED
  BY <1>3, <1>4

\* A connection looks as it did when the Location's counts of it have not moved.
LEMMA AlikeTells ==
  ASSUME NEW m \in Links, Up(m)' <=> Up(m),
         UNCHANGED <<senderVars, log, heard>>,
         taken'[m] = taken[m], sent'[m] = sent[m], answers'[m] = answers[m],
         Ours(m) => InHand(m)' = InHand(m),
         Ours(m) => (speaking'[m] = "spent" <=> speaking[m] = "spent")
  PROVE  Alike(m)
<1>1. side' = side /\ log' = log /\ heard' = heard
  BY DEF senderVars
<1>2. Ours(m)' <=> Ours(m)
  BY <1>1 DEF Ours
<1>3. Far'[m] = Far[m]
  BY <1>2 DEF Far
<1>4. Coming'[m] = Coming[m]
  BY <1>1 DEF Coming, Written
<1>5. Doing'[m] = Doing[m]
  BY <1>2 DEF Doing
<1>6. Back'[m] = Back[m]
  BY BackAlike
<1>7. QED
  BY <1>3, <1>4, <1>5, <1>6 DEF Alike

\* What the Location does on one connection is not seen on another.
LEMMA ElsewhereAlike ==
  ASSUME WayInv, WayInv', NEW l \in Links, NEW m \in Links \ {l},
         UNCHANGED <<senderVars, log, heard>>,
         taken'[m] = taken[m], sent'[m] = sent[m], answers'[m] = answers[m],
         down'[m] = down[m], place'[m] = place[m], speaking'[m] = speaking[m],
         \A q \in replies \cup replies' :
            q.caller # l => q \in replies /\ q \in replies'
  PROVE  Alike(m)
<1>1. UpUntilGone /\ UpUntilGone'
  BY UpIs, PTL
<1>2. Up(m)' <=> Up(m)
  BY <1>1 DEF UpUntilGone
<1>3. InHand(m)' = InHand(m)
  BY DEF InHand
<1>4. QED
  BY <1>2, <1>3, AlikeTells

\* A view that changed on one connection.
LEMMA OneChanged ==
  ASSUME NEW l \in Links, \A m \in Links \ {l} : Alike(m)
  PROVE  /\ Far' = [Far EXCEPT ![l] = Far'[l]]
         /\ Coming' = [Coming EXCEPT ![l] = Coming'[l]]
         /\ Doing' = [Doing EXCEPT ![l] = Doing'[l]]
         /\ Back' = [Back EXCEPT ![l] = Back'[l]]
<1>1. ASSUME NEW f, NEW g, f = [m \in Links |-> f[m]], g = [m \in Links |-> g[m]],
             \A m \in Links \ {l} : g[m] = f[m]
      PROVE  g = [f EXCEPT ![l] = g[l]]
  BY <1>1
<1>2. Far = [m \in Links |-> Far[m]] /\ Far' = [m \in Links |-> Far'[m]]
  BY DEF Far
<1>3. Coming = [m \in Links |-> Coming[m]] /\ Coming' = [m \in Links |-> Coming'[m]]
  BY DEF Coming
<1>4. Doing = [m \in Links |-> Doing[m]] /\ Doing' = [m \in Links |-> Doing'[m]]
  BY DEF Doing
<1>5. Back = [m \in Links |-> Back[m]] /\ Back' = [m \in Links |-> Back'[m]]
  BY DEF Back
<1>6. \A m \in Links \ {l} : Far'[m] = Far[m] /\ Coming'[m] = Coming[m]
                             /\ Doing'[m] = Doing[m] /\ Back'[m] = Back[m]
  BY DEF Alike
<1>7. Far' = [Far EXCEPT ![l] = Far'[l]]
  BY <1>1, <1>2, <1>6
<1>8. Coming' = [Coming EXCEPT ![l] = Coming'[l]]
  BY <1>1, <1>3, <1>6
<1>9. Doing' = [Doing EXCEPT ![l] = Doing'[l]]
  BY <1>1, <1>4, <1>6
<1>10. Back' = [Back EXCEPT ![l] = Back'[l]]
  BY <1>1, <1>5, <1>6
<1>11. QED
  BY <1>7, <1>8, <1>9, <1>10

\* A step the sender does not see.
LEMMA Unseen ==
  ASSUME NEW l \in Links, \A m \in Links : Alike(m), Acted' = Acted,
         UNCHANGED <<senderVars, version>>
  PROVE  UNCHANGED Sender!vars
<1>1. Far' = Far /\ Coming' = Coming /\ Doing' = Doing /\ Back' = Back
  <2>1. /\ Far' = [Far EXCEPT ![l] = Far'[l]]
        /\ Coming' = [Coming EXCEPT ![l] = Coming'[l]]
        /\ Doing' = [Doing EXCEPT ![l] = Doing'[l]]
        /\ Back' = [Back EXCEPT ![l] = Back'[l]]
    BY OneChanged
  <2>2. Far'[l] = Far[l] /\ Coming'[l] = Coming[l]
        /\ Doing'[l] = Doing[l] /\ Back'[l] = Back[l]
    BY DEF Alike
  <2>3. /\ Far = [m \in Links |-> Far[m]] /\ Coming = [m \in Links |-> Coming[m]]
        /\ Doing = [m \in Links |-> Doing[m]] /\ Back = [m \in Links |-> Back[m]]
    BY DEF Far, Coming, Doing, Back
  <2>4. QED
    BY <2>1, <2>2, <2>3
<1>2. VersionAgreed' = VersionAgreed
  BY DEF VersionAgreed, senderVars
<1>3. QED
  BY <1>1, <1>2 DEF Sender!vars, Sender!senderVars, Sender!sideVars,
     Sender!farVars, senderVars

\* One the sender sees, if at all, as a connection that broke: what was said
\* on it still comes, and a request read last may have been acted on.
LEMMA SeenClosed ==
  ASSUME NEW l \in Links, \A m \in Links \ {l} : Alike(m),
         UNCHANGED <<senderVars, version>>,
         ~Far'[l], Coming'[l] = {}, Doing'[l] = {}, Back'[l] = Back[l],
         \/ Acted' = Acted
         \/ \E a \in Coming[l] : Acted' = [Acted EXCEPT ![a[1]][a[2]] = @ + 1]
  PROVE  Sender!Close(l) \/ UNCHANGED Sender!vars
<1>1. VersionAgreed' = VersionAgreed
  BY DEF VersionAgreed, senderVars
<1>2. Far[l] \in BOOLEAN /\ Far'[l] \in BOOLEAN /\ (~Far[l] => Doing[l] = {})
  BY DEF Far, Doing, Ours, Up, Location!Open
<1>3. CASE Far[l] \/ Coming[l] # {}
  <2>1. /\ Far' = [Far EXCEPT ![l] = FALSE]
        /\ Coming' = [Coming EXCEPT ![l] = {}]
        /\ Doing' = [Doing EXCEPT ![l] = {}]
        /\ Back' = [Back EXCEPT ![l] = Back[l]]
    <3>1. Far'[l] = FALSE
      BY <1>2
    <3>2. QED
      BY <3>1, OneChanged
  <2>2. Back' = Back
    BY <2>1 DEF Back
  <2>3. Sender!Close(l)
    BY <1>1, <1>3, <2>1, <2>2 DEF Sender!Close, Sender!senderVars,
       Sender!sideVars, senderVars
  <2>4. QED
    BY <2>3
<1>4. CASE ~Far[l] /\ Coming[l] = {}
  <2>1. Alike(l)
    BY <1>2, <1>4 DEF Alike
  <2>2. \A m \in Links : Alike(m)
    BY <2>1
  <2>3. Acted' = Acted
    BY <1>4
  <2>4. QED
    BY <2>2, <2>3, Unseen
<1>5. QED
  BY <1>3, <1>4

\* What the Location took is what was acted on.
LEMMA ActedSame ==
  ASSUME UNCHANGED <<log, taken>> PROVE Acted' = Acted
BY DEF Acted, TimesActed

\* A connection that came is not seen; one that went is, where it was up.
LEMMA StirsSeen ==
  ASSUME WayInv, WayInv', NEW l \in Links, Stirs(l),
         UNCHANGED <<senderVars, log, heard>>
  PROVE  Sender!Close(l) \/ UNCHANGED Sender!vars
<1>1. /\ UNCHANGED <<version, sent, taken, answers, down, replies, side>>
      /\ \A m \in Links \ {l} : place'[m] = place[m] /\ speaking'[m] = speaking[m]
  BY DEF Stirs, senderVars
<1>2. \A m \in Links \ {l} : Alike(m)
  BY <1>1, ElsewhereAlike
<1>3. UpUntilGone /\ UpUntilGone'
  BY UpIs, PTL
<1>4. Ours(l) => (speaking'[l] = "spent" <=> speaking[l] = "spent")
  BY DEF Stirs, Ours
<1>5. Acted' = Acted
  BY <1>1, ActedSame
<1>6. CASE Up(l)' <=> Up(l)
  <2>1. InHand(l)' = InHand(l)
    BY <1>1 DEF InHand
  <2>2. Alike(l)
    BY <1>1, <1>4, <1>6, <2>1, AlikeTells
  <2>3. \A m \in Links : Alike(m)
    BY <1>2, <2>2
  <2>4. QED
    BY <1>1, <1>5, <2>3, Unseen
<1>7. CASE ~(Up(l)' <=> Up(l))
  <2>1. ~Up(l)'
    BY <1>1, <1>3, <1>7 DEF UpUntilGone, Stirs
  <2>2. ~Far'[l] /\ Coming'[l] = {} /\ Doing'[l] = {}
    BY <2>1 DEF Far, Coming, Doing
  <2>3. Back'[l] = Back[l]
    BY <1>1, <1>4, BackAlike
  <2>4. QED
    BY <1>1, <1>2, <1>5, <2>2, <2>3, SeenClosed
<1>8. QED
  BY <1>6, <1>7

\* A Reply that ends is not seen, but where it shuts the connection.
LEMMA EndsSeen ==
  ASSUME WayInv, WayInv', NEW l \in Links, NEW r \in replies, EndsFor(r, l),
         LocationP!IInv, UNCHANGED <<senderVars, log, heard>>
  PROVE  Sender!Close(l) \/ UNCHANGED Sender!vars
<1>1. /\ UNCHANGED <<version, sent, taken, answers, speaking, side>>
      /\ r.caller = l /\ replies' = replies \ {r}
      /\ \/ r.written /\ UNCHANGED <<down, place>>
         \/ ~r.written /\ down' = [down EXCEPT ![l] = TRUE]
      /\ place' = place \/ place' = [place EXCEPT ![l] = "gone"]
  BY DEF EndsFor, senderVars
<1>2. /\ down \in [Links -> BOOLEAN]
      /\ place \in [Links -> {"away", "queued", "kept", "gone"}]
  BY LocationTyped
<1>3. ASSUME NEW m \in Links \ {l} PROVE Alike(m)
  <2>1. down'[m] = down[m] /\ place'[m] = place[m]
    BY <1>1, <1>2
  <2>2. QED
    BY <1>1, <2>1, ElsewhereAlike
<1>4. UpUntilGone /\ UpUntilGone'
  BY UpIs, PTL
<1>5. Acted' = Acted
  BY <1>1, ActedSame
<1>6. CASE r.written /\ UNCHANGED <<down, place>>
  <2>1. InHand(l)' = InHand(l)
    BY <1>1, <1>6 DEF InHand
  <2>2. Up(l)' <=> Up(l)
    BY <1>4, <1>6 DEF UpUntilGone
  <2>3. Alike(l)
    BY <1>1, <2>1, <2>2, AlikeTells
  <2>4. \A m \in Links : Alike(m)
    BY <1>3, <2>3
  <2>5. QED
    BY <1>1, <1>5, <2>4, Unseen
<1>7. CASE down' = [down EXCEPT ![l] = TRUE]
  <2>1. ~Up(l)'
    BY <1>2, <1>4, <1>7 DEF UpUntilGone
  <2>2. ~Far'[l] /\ Coming'[l] = {} /\ Doing'[l] = {}
    BY <2>1 DEF Far, Coming, Doing
  <2>3. Back'[l] = Back[l]
    BY <1>1, BackAlike
  <2>4. QED
    BY <1>1, <1>3, <1>5, <2>2, <2>3, SeenClosed
<1>8. QED
  BY <1>1, <1>6, <1>7

\* One request more is taken, and counted once: a connection carries none twice.
LEMMA HearsActed ==
  ASSUME LocationP!IInv, LogInv, NEW l \in Links, NEW a \in Asks,
         log' = log, taken' = [taken EXCEPT ![l] = @ + 1],
         sent[l] = taken[l] + 1, a = log[l][sent[l]]
  PROVE  Acted' = [Acted EXCEPT ![a[1]][a[2]] = @ + 1]
<1> DEFINE Of(b) == {m \in Links : \E n \in 1..taken[m] : log[m][n] = b}
           Next_(b) == {m \in Links : \E n \in 1..taken'[m] : log[m][n] = b}
<1>1. taken \in [Links -> Nat] /\ sent \in [Links -> Nat]
      /\ \A m \in Links : taken[m] <= sent[m]
  BY LocationTyped
<1>2. taken'[l] = taken[l] + 1 /\ \A m \in Links \ {l} : taken'[m] = taken[m]
  BY <1>1
<1>3. \A n : n \in 1..taken[l] + 1 <=> n \in 1..taken[l] \/ n = taken[l] + 1
  BY <1>1
<1>4. ASSUME NEW b, b # a PROVE Next_(b) = Of(b)
  BY <1>2, <1>3, <1>4
<1>5. Next_(a) = Of(a) \cup {l}
  BY <1>2, <1>3
<1>6. l \notin Of(a)
  <2>1. SUFFICES ASSUME NEW n \in 1..taken[l], log[l][n] = a PROVE FALSE
    OBVIOUS
  <2>2. n \in 1..Len(log[l]) /\ sent[l] \in 1..Len(log[l]) /\ n # sent[l]
    BY <1>1 DEF LogInv
  <2>3. QED
    BY <2>1, <2>2 DEF LogInv
<1>7. IsFiniteSet(Of(a))
  <2>1. ASSUME NEW m \in Of(a) PROVE log[m] # <<>>
    <3>1. PICK n \in 1..taken[m] : log[m][n] = a
      BY <2>1
    <3>2. Len(log[m]) \in Nat /\ Len(log[m]) >= 1 /\ log[m] \in Seq(Asks)
      BY <1>1, <3>1 DEF LogInv
    <3>3. QED
      BY <3>2, EmptySeq
  <2>2. Of(a) \subseteq {m \in Links : log[m] # <<>>}
    BY <2>1
  <2>3. QED
    BY <2>2, FS_Subset DEF LogInv
<1>8. Cardinality(Next_(a)) = Cardinality(Of(a)) + 1
  BY <1>5, <1>6, <1>7, FS_AddElement
<1>9. Acted = [s \in Senders |-> [n \in 1..MaxAsks |-> Cardinality(Of(<<s, n>>))]]
  BY DEF Acted, TimesActed
<1>10. Acted' = [s \in Senders |-> [n \in 1..MaxAsks |-> Cardinality(Next_(<<s, n>>))]]
  BY DEF Acted, TimesActed
<1> HIDE DEF Of, Next_
<1>11. PICK t \in Senders, k \in 1..MaxAsks : a = <<t, k>>
  BY DEF Asks
<1>12. Acted' = [Acted EXCEPT ![t] = [Acted[t] EXCEPT ![k] = @ + 1]]
  <2>1. ASSUME NEW s \in Senders, s # t PROVE Acted'[s] = Acted[s]
    <3>1. \A n \in 1..MaxAsks : Next_(<<s, n>>) = Of(<<s, n>>)
      BY <1>4, <1>11, <2>1
    <3>2. QED
      BY <1>9, <1>10, <3>1
  <2>2. Acted'[t] = [Acted[t] EXCEPT ![k] = @ + 1]
    <3>1. \A n \in (1..MaxAsks) \ {k} : Next_(<<t, n>>) = Of(<<t, n>>)
      BY <1>4, <1>11
    <3>2. Acted'[t] = [n \in 1..MaxAsks |-> Cardinality(Next_(<<t, n>>))]
      BY <1>10
    <3>3. Acted[t] = [n \in 1..MaxAsks |-> Cardinality(Of(<<t, n>>))]
      BY <1>9
    <3>4. Acted'[t][k] = Acted[t][k] + 1
      BY <1>8, <1>11, <3>2, <3>3
    <3>5. \A n \in 1..MaxAsks : n # k => Acted'[t][n] = Acted[t][n]
      BY <3>1, <3>2, <3>3
    <3>6. /\ Acted'[t] = [n \in 1..MaxAsks |-> Acted'[t][n]]
          /\ Acted[t] = [n \in 1..MaxAsks |-> Acted[t][n]]
      BY <3>2, <3>3
    <3>7. ASSUME NEW f, NEW g, f = [n \in 1..MaxAsks |-> f[n]],
                 g = [n \in 1..MaxAsks |-> g[n]], g[k] = f[k] + 1,
                 \A n \in 1..MaxAsks : n # k => g[n] = f[n]
          PROVE  g = [f EXCEPT ![k] = @ + 1]
      BY <3>7
    <3>8. QED
      BY <3>4, <3>5, <3>6, <3>7
  <2>3. /\ Acted' = [s \in Senders |-> Acted'[s]]
        /\ Acted = [s \in Senders |-> Acted[s]]
    BY <1>9, <1>10
  <2>4. ASSUME NEW f, NEW g, f = [s \in Senders |-> f[s]],
               g = [s \in Senders |-> g[s]],
               \A s \in Senders : s # t => g[s] = f[s]
        PROVE  g = [f EXCEPT ![t] = g[t]]
    BY <2>4
  <2>5. Acted' = [Acted EXCEPT ![t] = Acted'[t]]
    BY <2>1, <2>3, <2>4
  <2>6. QED
    BY <2>2, <2>5
<1>13. a[1] = t /\ a[2] = k
  BY <1>11
<1>14. [Acted EXCEPT ![t] = [Acted[t] EXCEPT ![k] = @ + 1]]
        = [Acted EXCEPT ![a[1]][a[2]] = @ + 1]
  BY <1>13
<1>15. QED
  BY <1>12, <1>14

\* The Location that takes a request acts on it, as far ends do; where it
\* could not hold the connection for an answer, it closes with it begun.
LEMMA HearsSeen ==
  ASSUME LocationP!IInv, LogInv, WayInv, WayInv', NEW l \in Links,
         NEW kept \in BOOLEAN, HearsAs(l, kept),
         UNCHANGED <<senderVars, log, heard>>
  PROVE  Sender!Act(l) \/ Sender!Close(l) \/ UNCHANGED Sender!vars
<1>1. /\ UNCHANGED <<version, sent, answers, down, speaking, side>>
      /\ place[l] = "kept" /\ ~down[l] /\ Unowed(l) /\ sent[l] = taken[l] + 1
      /\ taken' = [taken EXCEPT ![l] = @ + 1]
      /\ place' = place \/ place' = [place EXCEPT ![l] = "gone"]
      /\ \A q \in replies \cup replies' :
            q.caller # l => q \in replies /\ q \in replies'
  BY DEF HearsAs, senderVars
<1>2. /\ taken \in [Links -> Nat] /\ sent \in [Links -> Nat]
      /\ place \in [Links -> {"away", "queued", "kept", "gone"}]
      /\ down \in [Links -> BOOLEAN]
  BY LocationTyped
<1>3. PICK a \in Asks : a = log[l][sent[l]]
  <2>1. sent[l] \in 1..Len(log[l]) /\ log[l] \in Seq(Asks)
    BY <1>1, <1>2 DEF LogInv
  <2>2. QED
    BY <2>1, LenProperties
<1>4. UpUntilGone /\ UpUntilGone'
  BY UpIs, PTL
<1>5. Up(l)
  BY <1>1, <1>4 DEF UpUntilGone
<1>6. ASSUME NEW m \in Links \ {l} PROVE Alike(m)
  <2>1. taken'[m] = taken[m] /\ place'[m] = place[m]
    BY <1>1, <1>2
  <2>2. QED
    BY <1>1, <2>1, ElsewhereAlike
<1>7. Back'[l] = Back[l]
  BY <1>1, BackAlike
<1>8. Coming[l] = {a} /\ Doing[l] = {}
  <2>1. taken[l] + 1..sent[l] = {sent[l]}
    BY <1>1, <1>2
  <2>2. Written(l) = {a}
    BY <1>3, <2>1 DEF Written
  <2>3. InHand(l) = {}
    BY <1>1 DEF InHand, Unowed
  <2>4. QED
    BY <1>5, <2>2, <2>3 DEF Coming, Doing
<1>9. Acted' = [Acted EXCEPT ![a[1]][a[2]] = @ + 1]
  BY <1>1, <1>3, HearsActed
<1>10. CASE kept
  <2>1. Up(l)'
    BY <1>1, <1>4, <1>10 DEF UpUntilGone, HearsAs
  <2>2. Coming'[l] = {}
    <3>1. taken'[l] + 1..sent'[l] = {}
      BY <1>1, <1>2
    <3>2. Written(l)' = {}
      BY <3>1 DEF Written
    <3>3. QED
      BY <2>1, <3>2 DEF Coming
  <2>3. InHand(l)' = {a}
    <3>1. PICK q : /\ replies' = replies \cup {q}
                   /\ q.caller = l /\ q.n = taken[l] + 1 /\ q.written = FALSE
      BY <1>10 DEF HearsAs
    <3>2. {p \in replies' : p.caller = l /\ ~p.written} = {q}
      BY <1>1, <3>1 DEF Unowed
    <3>3. InHand(l)' = {log[l][q.n]}
      BY <3>2 DEF InHand
    <3>4. QED
      BY <1>1, <1>3, <3>1, <3>3
  <2>4. Ours(l)' <=> Ours(l)
    BY <1>1 DEF Ours
  <2>5. Far'[l] = Far[l] /\ Doing'[l] = IF Far[l] THEN {a} ELSE {}
    BY <1>5, <2>1, <2>3, <2>4 DEF Far, Doing
  <2>6. /\ Far' = [Far EXCEPT ![l] = Far[l]]
        /\ Coming' = [Coming EXCEPT ![l] = {}]
        /\ Doing' = [Doing EXCEPT ![l] = IF Far[l] THEN {a} ELSE {}]
        /\ Back' = [Back EXCEPT ![l] = Back[l]]
    BY <1>6, <1>7, <2>2, <2>5, OneChanged
  <2>7. /\ Far' = Far /\ Back' = Back
        /\ Coming' = [Coming EXCEPT ![l] = @ \ {a}]
        /\ Doing' = IF Far[l] THEN [Doing EXCEPT ![l] = @ \cup {a}] ELSE Doing
    <3>1. /\ Far = [m \in Links |-> Far[m]] /\ Back = [m \in Links |-> Back[m]]
          /\ Coming = [m \in Links |-> Coming[m]]
          /\ Doing = [m \in Links |-> Doing[m]]
      BY DEF Far, Back, Coming, Doing
    <3>2. QED
      BY <1>8, <2>6, <3>1
  <2>8. VersionAgreed' = VersionAgreed
    BY <1>1 DEF VersionAgreed
  <2>9. Sender!Act(l)
    BY <1>8, <1>9, <2>7, <2>8 DEF Sender!Act, Sender!senderVars,
       Sender!sideVars, senderVars
  <2>10. QED
    BY <2>9
<1>11. CASE ~kept
  <2>1. ~Up(l)'
    BY <1>2, <1>4, <1>11 DEF UpUntilGone, HearsAs
  <2>2. ~Far'[l] /\ Coming'[l] = {} /\ Doing'[l] = {}
    BY <2>1 DEF Far, Coming, Doing
  <2>3. QED
    BY <1>1, <1>6, <1>7, <1>8, <1>9, <2>2, SeenClosed
<1>12. QED
  BY <1>10, <1>11

\* Nothing comes back on a connection whose request is being acted on.
LEMMA NoneBack ==
  ASSUME SenderP!IInv, NEW l \in Links, Ours(l), NEW a \in Doing[l]
  PROVE  Back[l] = <<>>
<1>1. side[l] # "kept"
  BY DEF SenderP!IInv, SenderP!CarryInv, SenderP!Quiet
<1>2. PICK s \in Senders : on[s] = l
  BY <1>1 DEF Ours, SenderP!IInv, SenderP!HoldInv
<1>3. phase[s] \in {"asking", "awaiting"}
  BY <1>2, LinksAssumption DEF SenderP!IInv, SenderP!HoldInv
<1>4. SenderP!Carries(l, <<s, asked[s]>>)
  BY <1>2, <1>3 DEF SenderP!IInv, SenderP!CarryInv, SenderP!Quiet
<1>5. \A i \in 1..Len(Back[l]) : Back[l][i].kind # "answer"
  BY <1>4 DEF SenderP!Carries
<1>6. Back[l] = Unheard(l)
  BY DEF Back
<1>7. Back[l] \in Seq(SenderP!Messages) /\ Len(Back[l]) \in Nat
  BY SenderTyped, LenProperties
<1>8. Len(Back[l]) = 0
  <2>1. SUFFICES ASSUME Len(Back[l]) # 0 PROVE FALSE
    OBVIOUS
  <2>2. 1 \in 1..Len(Back[l]) /\ 1 \in DOMAIN Back[l]
    BY <1>7, <2>1, LenProperties
  <2>3. Back[l][1].kind = "answer"
    BY <1>6, <2>2 DEF Unheard
  <2>4. QED
    BY <1>5, <2>2, <2>3
<1>9. QED
  BY <1>7, <1>8, EmptySeq

\* An answer is all there is to hear, and says whether it is the last.
LEMMA WritesHeard ==
  ASSUME LocationP!IInv, SenderP!IInv, LogInv, NEW l \in Links, Ours(l),
         Back[l] = <<>>, NEW a, a = log[l][taken[l]],
         UNCHANGED <<log, heard, side>>,
         answers' = [answers EXCEPT ![l] = Append(@, taken[l])]
  PROVE  Back'[l] = Append(Back[l], [kind |-> "answer", ask |-> a,
                                     keep |-> speaking'[l] # "spent"])
<1> DEFINE m == [kind |-> "answer", ask |-> a, keep |-> speaking'[l] # "spent"]
           n == Len(answers[l])
<1>1. answers \in [Links -> Seq(Nat)] /\ taken \in [Links -> Nat]
  BY LocationTyped
<1>2. n \in Nat /\ heard[l] \in Nat /\ heard[l] <= n
  BY <1>1, LenProperties DEF LogInv
<1>3. heard[l] = n
  <2>1. DOMAIN Back[l] = 1..n - heard[l]
    BY DEF Back, Unheard
  <2>2. DOMAIN Back[l] = 1..0
    BY EmptySeq, LenProperties
  <2>3. 1 \notin 1..0
    OBVIOUS
  <2>4. 1 \notin 1..n - heard[l]
    BY <2>1, <2>2, <2>3
  <2>5. QED
    BY <1>2, <2>4
<1>4. /\ answers'[l] = Append(answers[l], taken[l])
      /\ Len(answers'[l]) = n + 1 /\ answers'[l][n + 1] = taken[l]
  BY <1>1, AppendProperties
<1>5. Back'[l] = Unheard(l)'
  BY DEF Back, Ours
<1>6. Unheard(l)' = [i \in 1..1 |-> m]
  <2>1. Len(answers'[l]) - heard'[l] = 1
    BY <1>2, <1>3, <1>4
  <2>2. Unheard(l)' = [i \in 1..1 |->
            [kind |-> "answer", ask |-> log[l][answers'[l][heard[l] + i]],
             keep |-> speaking'[l] # "spent"]]
    BY <2>1 DEF Unheard
  <2>3. \A i \in 1..1 : log[l][answers'[l][heard[l] + i]] = a
    BY <1>2, <1>3, <1>4
  <2>4. QED
    BY <2>2, <2>3
<1> HIDE DEF m
<1>7. [i \in 1..1 |-> m] = Append(<<>>, m)
  <2>1. <<>> \in Seq({m}) /\ Len(<<>>) = 0
    BY EmptySeq
  <2>2. Append(<<>>, m) \in Seq({m}) /\ Len(Append(<<>>, m)) = 1
        /\ Append(<<>>, m)[1] = m
    BY <2>1, AppendProperties
  <2>3. Append(<<>>, m) = [i \in 1..1 |-> Append(<<>>, m)[i]]
    BY <2>2, LenProperties
  <2>4. QED
    BY <2>2, <2>3
<1>8. QED
  BY <1>5, <1>6, <1>7 DEF m

\* The Location that writes an answer answers as far ends do, where the
\* sender still has the connection.
LEMMA WritesSeen ==
  ASSUME LocationP!IInv, SenderP!IInv, LogInv, WayInv, WayInv', NEW l \in Links,
         NEW r \in replies, WritesTo(r, l), UNCHANGED <<senderVars, log, heard>>
  PROVE  Sender!Answer(l) \/ UNCHANGED Sender!vars
<1>1. /\ UNCHANGED <<version, sent, place, taken, side>>
      /\ answers' = [answers EXCEPT ![l] = Append(@, taken[l])]
      /\ r.caller = l /\ ~r.written
      /\ \E w : /\ replies' = (replies \ {r}) \cup {w}
                /\ w.caller = l /\ w.written = TRUE
      /\ \/ UNCHANGED <<speaking, down>>
         \/ /\ speaking' = [speaking EXCEPT ![l] = "spent"]
            /\ down' = [down EXCEPT ![l] = TRUE] /\ version[l] = 1
  BY DEF WritesTo, senderVars
<1>2. /\ taken \in [Links -> Nat] /\ sent \in [Links -> Nat]
      /\ down \in [Links -> BOOLEAN] /\ answers \in [Links -> Seq(Nat)]
      /\ speaking \in [Links -> {"unheard", "one", "two", "spent"}]
  BY LocationTyped
<1>3. /\ place[l] = "kept" /\ ~down[l] /\ sent[l] = taken[l] /\ r.n = taken[l]
      /\ \A q \in replies : q.caller = l => q = r
  BY <1>1, ReplyTells
<1>4. UpUntilGone /\ UpUntilGone'
  BY UpIs, PTL
<1>5. Up(l) /\ (Up(l)' <=> ~down'[l])
  BY <1>1, <1>3, <1>4 DEF UpUntilGone
<1>6. ASSUME NEW m \in Links \ {l} PROVE Alike(m)
  <2>1. answers'[m] = answers[m] /\ down'[m] = down[m] /\ speaking'[m] = speaking[m]
    BY <1>1, <1>2
  <2>2. QED
    BY <1>1, <2>1, ElsewhereAlike
<1>7. Coming[l] = {} /\ Coming'[l] = {}
  <2>1. taken[l] + 1..sent[l] = {} /\ taken'[l] + 1..sent'[l] = {}
    BY <1>1, <1>2, <1>3
  <2>2. Written(l) = {} /\ Written(l)' = {}
    BY <2>1 DEF Written
  <2>3. QED
    BY <2>2 DEF Coming
<1>8. Acted' = Acted
  BY <1>1, ActedSame
<1>9. CASE ~Ours(l)
  <2>1. ~Ours(l)'
    BY <1>1, <1>9 DEF Ours
  <2>2. Alike(l)
    BY <1>7, <1>9, <2>1 DEF Alike, Far, Doing, Back
  <2>3. \A m \in Links : Alike(m)
    BY <1>6, <2>2
  <2>4. QED
    BY <1>1, <1>8, <2>3, Unseen
<1>10. CASE Ours(l)
  <2> DEFINE a == log[l][taken[l]]
             keep == speaking'[l] # "spent"
  <2>1. InHand(l) = {a}
    <3>1. {q \in replies : q.caller = l /\ ~q.written} = {r}
      BY <1>1, <1>3
    <3>2. InHand(l) = {log[l][r.n]}
      BY <3>1 DEF InHand
    <3>3. QED
      BY <1>3, <3>2
  <2>2. InHand(l)' = {}
    <3>1. {q \in replies' : q.caller = l /\ ~q.written} = {}
      BY <1>1, <1>3
    <3>2. QED
      BY <3>1 DEF InHand
  <2>3. Ours(l)'
    BY <1>1, <1>10 DEF Ours
  <2>4. Far[l] = TRUE /\ Doing[l] = {a} /\ Doing'[l] = {}
    BY <1>5, <1>10, <2>1, <2>2 DEF Far, Doing
  <2>5. Far'[l] = keep /\ keep \in BOOLEAN /\ (version[l] = 2 => keep)
    <3>1. CASE UNCHANGED <<speaking, down>>
      <4>1. speaking[l] # "spent"
        BY <1>3 DEF WayInv
      <4>2. QED
        BY <1>3, <1>5, <2>3, <3>1, <4>1 DEF Far
    <3>2. CASE /\ speaking' = [speaking EXCEPT ![l] = "spent"]
               /\ down' = [down EXCEPT ![l] = TRUE] /\ version[l] = 1
      <4>1. speaking'[l] = "spent" /\ down'[l]
        BY <1>2, <3>2
      <4>2. QED
        BY <1>5, <3>2, <4>1 DEF Far
    <3>3. QED
      BY <1>1, <3>1, <3>2
  <2>6. Back'[l] = Append(Back[l], [kind |-> "answer", ask |-> a, keep |-> keep])
    <3>1. Back[l] = <<>>
      BY <1>10, <2>4, NoneBack
    <3>2. QED
      BY <1>1, <1>10, <3>1, WritesHeard
  <2>7. VersionAgreed' = VersionAgreed /\ (VersionAgreed[l] = 2 => keep)
    BY <1>1, <2>5 DEF VersionAgreed
  <2> HIDE DEF a, keep
  <2>8. /\ Far' = [Far EXCEPT ![l] = keep]
        /\ Coming' = [Coming EXCEPT ![l] = {}]
        /\ Doing' = [Doing EXCEPT ![l] = {}]
        /\ Back' = [Back EXCEPT ![l] =
                Append(@, [kind |-> "answer", ask |-> a, keep |-> keep])]
    <3>1. Back = [m \in Links |-> Back[m]]
      BY DEF Back
    <3>2. /\ Far' = [Far EXCEPT ![l] = Far'[l]]
          /\ Coming' = [Coming EXCEPT ![l] = Coming'[l]]
          /\ Doing' = [Doing EXCEPT ![l] = Doing'[l]]
          /\ Back' = [Back EXCEPT ![l] = Back'[l]]
      BY <1>6, OneChanged
    <3>3. QED
      BY <1>7, <2>4, <2>5, <2>6, <3>1, <3>2
  <2>9. Coming' = Coming /\ Doing' = [Doing EXCEPT ![l] = @ \ {a}]
    <3>1. /\ Coming = [m \in Links |-> Coming[m]]
          /\ Doing = [m \in Links |-> Doing[m]]
      BY DEF Coming, Doing
    <3>2. QED
      BY <1>7, <2>4, <2>8, <3>1
  <2>10. Sender!Answer(l)
    BY <1>8, <2>4, <2>5, <2>7, <2>8, <2>9 DEF Sender!Answer, Sender!senderVars,
       Sender!sideVars, senderVars
  <2>11. QED
    BY <2>10
<1>11. QED
  BY <1>9, <1>10

----------------------------------------------------------------------------
\* A step of the two is a step of each.

\* They start as each starts.
LEMMA JInit == Init => JInv
<1> SUFFICES ASSUME Init PROVE JInv
  OBVIOUS
<1>1. LocationP!Init
  BY DEF Init, Location!Init, LocationP!Init
<1>2. SenderP!Init
  BY DEF Init, Sender!Init, SenderP!Init, Sender!NoTarget, SenderP!NoTarget,
     Sender!NoKey, SenderP!NoKey
<1>3. LocationP!IInv /\ SenderP!IInv
  BY <1>1, <1>2, LocationAssumptions, SenderAssumptions,
     LocationP!InitInductive, SenderP!InitInductive
<1>4. /\ phase = [s \in Senders |-> "idle"] /\ got = [s \in Senders |-> "none"]
      /\ side = [l \in Links |-> "unopened"]
  BY DEF Init, Sender!Init
<1>5. /\ sent = [l \in Links |-> 0] /\ closing = [l \in Links |-> {}]
      /\ tail = [l \in Links |-> "quiet"] /\ down = [l \in Links |-> FALSE]
      /\ answers = [l \in Links |-> <<>>] /\ place = [l \in Links |-> "away"]
      /\ speaking = [l \in Links |-> "unheard"]
      /\ taken = [l \in Links |-> 0] /\ replies = {}
  BY DEF Init, Location!Init
<1>6. log = [l \in Links |-> <<>>] /\ heard = [l \in Links |-> 0]
  BY DEF Init
<1>7. LogInv
  <2>1. \A l \in Links : log[l] = <<>> /\ answers[l] = <<>>
    BY <1>5, <1>6
  <2>2. log \in [Links -> Seq(Asks)] /\ heard \in [Links -> Nat]
    BY <1>6, EmptySeq
  <2>3. IsFiniteSet({l \in Links : log[l] # <<>>})
    <3>1. {l \in Links : log[l] # <<>>} = {}
      BY <2>1
    <3>2. QED
      BY <3>1, FS_EmptySet
  <2>4. Len(<<>>) = 0
    BY EmptySeq
  <2>5. QED
    BY <1>4, <1>5, <1>6, <2>1, <2>2, <2>3, <2>4 DEF LogInv
<1>8. CallerInv /\ WayInv /\ OnlyOwnVerdict
  BY <1>4, <1>5 DEF CallerInv, WayInv, OnlyOwnVerdict
<1>9. QED
  BY <1>3, <1>7, <1>8 DEF JInv

\* What the Location does is a step of a far end, or nothing to the sender.
LEMMA FarSteps ==
  ASSUME NEW l \in Links,
         \/ Sender!Act(l) \/ Sender!Answer(l) \/ Sender!Close(l)
         \/ UNCHANGED Sender!vars
  PROVE  [Sender!Next]_(Sender!vars) /\ [SenderP!Next]_(SenderP!vars)
<1>1. CASE Sender!Act(l) \/ Sender!Answer(l) \/ Sender!Close(l)
  <2>1. Sender!FarEnd(l) /\ SenderP!FarEnd(l)
    BY <1>1, FarEndSame DEF Sender!FarEnd
  <2>2. Sender!Next /\ SenderP!Next
    BY <2>1 DEF Sender!Next, SenderP!Next
  <2>3. QED
    BY <2>2
<1>2. CASE UNCHANGED Sender!vars
  <2>1. UNCHANGED SenderP!vars
    BY <1>2 DEF Sender!vars, Sender!senderVars, Sender!sideVars, Sender!farVars,
       SenderP!vars, SenderP!senderVars, SenderP!sideVars, SenderP!farVars
  <2>2. QED
    BY <1>2, <2>1
<1>3. QED
  BY <1>1, <1>2

\* What a thread does is a step of a sender's.
LEMMA ThreadSteps ==
  ASSUME NEW s \in Senders,
         \/ \E t \in Targets : Sender!Take(s, t) \/ Sender!TakeNone(s, t)
         \/ Sender!Open(s) \/ Sender!OpenFails(s) \/ Sender!Ask(s)
         \/ Sender!Told(s) \/ Sender!Fails(s)
  PROVE  [Sender!Next]_(Sender!vars) /\ [SenderP!Next]_(SenderP!vars)
<1>1. CASE \E t \in Targets : Sender!Take(s, t) \/ Sender!TakeNone(s, t)
  <2>1. \E t \in Targets : SenderP!Take(s, t) \/ SenderP!TakeNone(s, t)
    BY <1>1, BeginSame
  <2>2. Sender!Next /\ SenderP!Next
    BY <1>1, <2>1 DEF Sender!Next, SenderP!Next
  <2>3. QED
    BY <2>2
<1>2. CASE \/ Sender!Open(s) \/ Sender!OpenFails(s) \/ Sender!Ask(s)
           \/ Sender!Told(s) \/ Sender!Fails(s)
  <2>1. Sender!Exchanges(s) /\ SenderP!Exchanges(s)
    BY <1>2, ExchangesSame DEF Sender!Exchanges, SenderP!Exchanges
  <2>2. Sender!Next /\ SenderP!Next
    BY <2>1 DEF Sender!Next, SenderP!Next
  <2>3. QED
    BY <2>2
<1>3. QED
  BY <1>1, <1>2

\* The Location's steps, and the sender's close that reaches it.
Locations == \/ \E l \in Links : HangUp(l) \/ Receives(l)
             \/ Bind
             \/ \E r \in replies : Settles(r)

\* Each of them is one of Inbound's, and moves nothing of the sender's.
LEMMA LocationSteps ==
  ASSUME Locations
  PROVE  /\ LocationP!Next /\ UNCHANGED <<senderVars, log, heard>>
         /\ \/ \E l \in Links :
                \/ LocationP!HangUp(l) /\ side[l] = "closed"
                \/ LocationP!Accept(l) \/ LocationP!Turn(l)
                \/ LocationP!TurnOnPoke(l) \/ LocationP!Takes(l)
            \/ LocationP!Bind
            \/ \E r \in replies : LocationP!Answers(r) \/ LocationP!Dropped(r)
<1>1. CASE Bind
  BY <1>1, BindSame DEF Bind, LocationP!Next
<1>2. ASSUME NEW l \in Links, HangUp(l)
      PROVE  LocationP!HangUp(l) /\ side[l] = "closed"
             /\ UNCHANGED <<senderVars, log, heard>>
  BY <1>2, CallerSame DEF HangUp
<1>3. ASSUME NEW l \in Links, Receives(l)
      PROVE  /\ \/ LocationP!Accept(l) \/ LocationP!Turn(l)
                \/ LocationP!TurnOnPoke(l) \/ LocationP!Takes(l)
             /\ UNCHANGED <<senderVars, log, heard>>
  BY <1>3, PollSame, TakesSame DEF Receives
<1>4. ASSUME NEW r \in replies, Settles(r)
      PROVE  /\ LocationP!Answers(r) \/ LocationP!Dropped(r)
             /\ UNCHANGED <<senderVars, log, heard>>
  BY <1>4, SettlesSame DEF Settles
<1>5. QED
  BY <1>1, <1>2, <1>3, <1>4 DEF Locations, LocationP!Next

\* They keep the glue, and the sender sees a far end.
LEMMA LocationJoint ==
  ASSUME JInv, Locations
  PROVE  /\ LogInv' /\ CallerInv' /\ WayInv' /\ OnlyOwnVerdict'
         /\ [LocationP!Next]_(LocationP!vars)
         /\ [Sender!Next]_(Sender!vars) /\ [SenderP!Next]_(SenderP!vars)
<1>1. /\ LocationP!IInv /\ SenderP!IInv /\ LogInv /\ CallerInv /\ WayInv
      /\ OnlyOwnVerdict
  BY DEF JInv
<1>2. LocationP!Next /\ UNCHANGED <<senderVars, log, heard>>
  BY LocationSteps
<1>3. OnlyOwnVerdict'
  BY <1>1, <1>2 DEF senderVars, OnlyOwnVerdict
<1>4. ASSUME NEW l \in Links,
             \/ LocationP!HangUp(l) /\ side[l] = "closed"
             \/ LocationP!Accept(l) \/ LocationP!Turn(l)
             \/ LocationP!TurnOnPoke(l) \/ LocationP!ReadNothing(l)
             \/ LocationP!ReadEnds(l)
      PROVE  /\ LogInv' /\ CallerInv' /\ WayInv'
             /\ [Sender!Next]_(Sender!vars) /\ [SenderP!Next]_(SenderP!vars)
  <2>1. Stirs(l)
    BY <1>1, <1>4, StirsTells
  <2>2. LogInv' /\ CallerInv' /\ WayInv'
    BY <1>1, <1>2, <2>1, StirsGlue
  <2>3. Sender!Close(l) \/ UNCHANGED Sender!vars
    BY <1>1, <1>2, <2>1, <2>2, StirsSeen
  <2>4. QED
    BY <2>2, <2>3, FarSteps
<1>5. ASSUME NEW l \in Links, LocationP!ReadRequest(l) \/ LocationP!ReadFrame(l)
      PROVE  /\ LogInv' /\ CallerInv' /\ WayInv'
             /\ [Sender!Next]_(Sender!vars) /\ [SenderP!Next]_(SenderP!vars)
  <2>1. PICK kept \in BOOLEAN : HearsAs(l, kept)
    BY <1>1, <1>5, HearsTells
  <2>2. LogInv' /\ CallerInv' /\ WayInv'
    BY <1>1, <1>2, <2>1, HearsGlue
  <2>3. Sender!Act(l) \/ Sender!Close(l) \/ UNCHANGED Sender!vars
    BY <1>1, <1>2, <2>1, <2>2, HearsSeen
  <2>4. QED
    BY <2>2, <2>3, FarSteps
<1>6. ASSUME NEW r \in replies, LocationP!Answers(r) \/ LocationP!Dropped(r)
      PROVE  /\ LogInv' /\ CallerInv' /\ WayInv'
             /\ [Sender!Next]_(Sender!vars) /\ [SenderP!Next]_(SenderP!vars)
  <2>1. PICK l \in Links : l = r.caller
    BY <1>1, ReplyTells
  <2>2. CASE \E header \in BOOLEAN : LocationP!Written(r, header)
    <3>1. WritesTo(r, l)
      BY <1>1, <2>1, <2>2, WritesTells
    <3>2. LogInv' /\ CallerInv' /\ WayInv'
      BY <1>1, <1>2, <3>1, WritesGlue
    <3>3. Sender!Answer(l) \/ UNCHANGED Sender!vars
      BY <1>1, <1>2, <3>1, <3>2, WritesSeen
    <3>4. QED
      BY <3>2, <3>3, FarSteps
  <2>3. CASE LocationP!Released(r) \/ LocationP!WriteFails(r) \/ LocationP!Dropped(r)
    <3>1. EndsFor(r, l)
      BY <1>1, <2>1, <2>3, EndsTells
    <3>2. LogInv' /\ CallerInv' /\ WayInv'
      BY <1>1, <1>2, <3>1, EndsGlue
    <3>3. Sender!Close(l) \/ UNCHANGED Sender!vars
      BY <1>1, <1>2, <3>1, <3>2, EndsSeen
    <3>4. QED
      BY <3>2, <3>3, FarSteps
  <2>4. QED
    BY <1>6, <2>2, <2>3 DEF LocationP!Answers
<1>7. ASSUME LocationP!Bind
      PROVE  /\ LogInv' /\ CallerInv' /\ WayInv'
             /\ [Sender!Next]_(Sender!vars) /\ [SenderP!Next]_(SenderP!vars)
  <2>1. UNCHANGED <<version, sent, closing, tail, down, answers, place,
                    speaking, taken, replies>>
    BY <1>7 DEF LocationP!Bind, LocationP!callerVars, LocationP!lineVars
  <2>2. LogInv'
    BY <1>1, <1>2, <2>1, LogKept DEF LogInv
  <2>3. CallerInv' /\ WayInv'
    BY <1>1, <1>2, <2>1 DEF senderVars, CallerInv, WayInv
  <2>4. UNCHANGED Sender!vars
    BY <1>2, <2>1 DEF Sender!vars, Sender!senderVars, Sender!sideVars,
       Sender!farVars, senderVars, VersionAgreed, Far, Coming, Doing, Back,
       Acted, Ours, Up, Location!Open, Written, InHand, Unheard, TimesActed
  <2>5. UNCHANGED SenderP!vars
    BY <2>4 DEF Sender!vars, Sender!senderVars, Sender!sideVars, Sender!farVars,
       SenderP!vars, SenderP!senderVars, SenderP!sideVars, SenderP!farVars
  <2>6. QED
    BY <2>2, <2>3, <2>4, <2>5
<1>8. /\ LogInv' /\ CallerInv' /\ WayInv'
      /\ [Sender!Next]_(Sender!vars) /\ [SenderP!Next]_(SenderP!vars)
  BY LocationSteps, <1>4, <1>5, <1>6, <1>7 DEF LocationP!Takes
<1>9. QED
  BY <1>2, <1>3, <1>8

\* A thread's steps: the Location sees a caller, and the thread is told its
\* own verdict, there being nothing else to hear.
Threads == \E s \in Senders : (\E t \in Targets : Take(s, t)) \/ Exchanges(s)

\* What a thread is told is its own request's verdict: only an answer can be
\* heard, and one that is not its own is ruled out by the sender's invariant.
LEMMA ThreadHears ==
  ASSUME SenderP!IInv, SenderP!IInv', OnlyOwnVerdict, NEW s \in Senders, Told(s)
  PROVE  OnlyOwnVerdict'
<1>1. phase[s] = "awaiting" /\ on[s] \in Links /\ side[on[s]] = "held"
  BY SenderTyped DEF Told
<1>2. PICK l \in Links : l = on[s] /\ side[l] = "held"
  BY <1>1
<1>3. Back[l] \in Seq(SenderP!Messages) /\ Back[l] # <<>>
  BY <1>2, SenderTyped DEF Told, Sender!Told, Sender!Awaits
<1>4. Head(Back[l]).kind = "answer"
  <2>1. Head(Back[l]) = Back[l][1] /\ 1 \in DOMAIN Back[l]
    BY <1>3, EmptySeq, LenProperties
  <2>2. Back[l] = Unheard(l)
    BY <1>2 DEF Back, Ours
  <2>3. QED
    BY <2>1, <2>2 DEF Unheard
<1>5. got' = [got EXCEPT ![s] = Sender!Heard(s, Head(Back[l]))]
  BY <1>2 DEF Told, Sender!Told
<1>6. Sender!Heard(s, Head(Back[l])) \in {"own", "other"}
  BY <1>4 DEF Sender!Heard
<1>7. \A u \in Senders : got'[u] \in {"none", "own", "late"}
  BY DEF SenderP!IInv, SenderP!AnswerIsOwn
<1>8. got \in [Senders -> {"none", "own", "other", "idle", "late"}]
  BY DEF SenderP!IInv, SenderP!Typing
<1>9. QED
  BY <1>5, <1>6, <1>7, <1>8 DEF OnlyOwnVerdict

\* Every step of a thread keeps the joint invariant but for the sides' own, and
\* is a step of the sender's and a step or a stutter of the Location's.
LEMMA ThreadJoint ==
  ASSUME JInv, Threads
  PROVE  /\ LogInv' /\ CallerInv' /\ WayInv' /\ OnlyOwnVerdict'
         /\ [LocationP!Next]_(LocationP!vars)
         /\ [Sender!Next]_(Sender!vars) /\ [SenderP!Next]_(SenderP!vars)
<1>1. /\ LocationP!IInv /\ SenderP!IInv /\ LogInv /\ CallerInv /\ WayInv
      /\ OnlyOwnVerdict
  BY DEF JInv
<1>2. PICK s \in Senders : (\E t \in Targets : Take(s, t)) \/ Exchanges(s)
  BY DEF Threads
<1>3. [Sender!Next]_(Sender!vars) /\ [SenderP!Next]_(SenderP!vars)
  BY <1>2, ThreadSteps DEF Take, Exchanges, Open, OpenFails, Ask, Told, Fails
<1>4. SenderP!IInv'
  BY <1>1, <1>3, SenderKeeps
<1>5. LogInv' /\ CallerInv' /\ WayInv'
  BY <1>1, <1>2, BeginGlue, OpenGlue, EndGlue, AskGlue DEF Exchanges
<1>6. OnlyOwnVerdict'
  <2>1. CASE Told(s)
    BY <1>1, <1>4, <2>1, ThreadHears
  <2>2. CASE \E t \in Targets : Take(s, t)
    <3>1. got' = [got EXCEPT ![s] = "none"]
      BY <2>2 DEF Take, Sender!Take, Sender!TakeNone, Sender!Begins
    <3>2. got \in [Senders -> {"none", "own", "other", "idle", "late"}]
      BY <1>1 DEF SenderP!IInv, SenderP!Typing
    <3>3. QED
      BY <1>1, <3>1, <3>2 DEF OnlyOwnVerdict
  <2>3. CASE Open(s) \/ OpenFails(s) \/ Ask(s) \/ Fails(s)
    <3>1. got' = got
      BY <2>3 DEF Open, OpenFails, Ask, Fails, Sender!Open, Sender!OpenFails,
         Sender!Ask, Sender!Fails
    <3>2. QED
      BY <1>1, <3>1 DEF OnlyOwnVerdict
  <2>4. QED
    BY <1>2, <2>1, <2>2, <2>3 DEF Exchanges
<1>7. [LocationP!Next]_(LocationP!vars)
  <2>1. \/ UNCHANGED locationVars
        \/ \E l \in Links : LocationP!Connect(l) \/ LocationP!Send(l)
    <3>1. CASE Open(s)
      BY <3>1, CallerSame DEF Open
    <3>2. CASE Ask(s)
      <4>1. on[s] \in Links
        BY <1>1, <3>2, SenderTyped DEF Ask
      <4>2. QED
        BY <3>2, <4>1, CallerSame DEF Ask
    <3>3. CASE \/ \E t \in Targets : Take(s, t)
               \/ OpenFails(s) \/ Told(s) \/ Fails(s)
      BY <3>3 DEF Take, OpenFails, Told, Fails
    <3>4. QED
      BY <1>2, <3>1, <3>2, <3>3 DEF Exchanges
  <2>2. UNCHANGED locationVars => UNCHANGED LocationP!vars
    BY DEF locationVars, LocationP!vars, LocationP!callerVars,
       LocationP!lineVars, LocationP!turnVars
  <2>3. QED
    BY <2>1, <2>2 DEF LocationP!Next
<1>8. QED
  BY <1>3, <1>5, <1>6, <1>7

\* Every step is of the one or of the other.
LEMMA JointStep ==
  ASSUME JInv, [Next]_vars
  PROVE  JInv' /\ [Sender!Next]_(Sender!vars) /\ [SenderP!Next]_(SenderP!vars)
                /\ [LocationP!Next]_(LocationP!vars)
<1>1. CASE Threads \/ Locations
  <2>1. /\ LogInv' /\ CallerInv' /\ WayInv' /\ OnlyOwnVerdict'
        /\ [LocationP!Next]_(LocationP!vars)
        /\ [Sender!Next]_(Sender!vars) /\ [SenderP!Next]_(SenderP!vars)
    BY <1>1, ThreadJoint, LocationJoint
  <2>2. LocationP!IInv' /\ SenderP!IInv'
    BY <2>1, LocationKeeps, SenderKeeps DEF JInv
  <2>3. QED
    BY <2>1, <2>2 DEF JInv
<1>2. CASE UNCHANGED vars
  <2>1. UNCHANGED <<senderVars, locationVars, log, heard>>
    BY <1>2 DEF vars
  <2>2. /\ UNCHANGED <<phase, to, on, fresh, asked, got, side, key, tls, open>>
        /\ UNCHANGED <<version, sent, closing, tail, down, answers, bound, place,
                       speaking, read, taken, more, busy, locked, turning, stage,
                       replies>>
    BY <2>1 DEF senderVars, locationVars
  <2>3. UNCHANGED LocationP!vars
    BY <2>2 DEF LocationP!vars, LocationP!callerVars, LocationP!lineVars,
       LocationP!turnVars
  <2>4. UNCHANGED Sender!vars
    BY <2>1, <2>2 DEF Sender!vars, Sender!senderVars, Sender!sideVars,
       Sender!farVars, VersionAgreed, Far, Coming, Doing, Back,
       Acted, Ours, Up, Location!Open, Written, InHand, Unheard, TimesActed
  <2>5. UNCHANGED SenderP!vars
    BY <2>4 DEF Sender!vars, Sender!senderVars, Sender!sideVars, Sender!farVars,
       SenderP!vars, SenderP!senderVars, SenderP!sideVars, SenderP!farVars
  <2>6. LocationP!IInv' /\ SenderP!IInv'
    BY <2>3, <2>5, LocationKeeps, SenderKeeps DEF JInv
  <2>7. LogInv' /\ CallerInv' /\ WayInv' /\ OnlyOwnVerdict'
    BY <2>1, <2>2 DEF JInv, LogInv, CallerInv, WayInv, OnlyOwnVerdict
  <2>8. QED
    BY <2>3, <2>4, <2>5, <2>6, <2>7 DEF JInv
<1>3. QED
  BY <1>1, <1>2 DEF Next, Threads, Locations

----------------------------------------------------------------------------
\* The theorems.

\* JInv holds in every reachable state.
THEOREM Invariant == SafeSpec => []JInv
<1>1. JInv /\ [Next]_vars => JInv'
  BY JointStep
<1>2. QED
  BY JInit, <1>1, PTL DEF SafeSpec

\* A Receive Location is a far end as Connections assumes it: every step of
\* the two, seen from the sender, is one Connections allows (endpoint.rs
\* against inbound.rs).
THEOREM FarEndIsAssumed == SafeSpec => FarEndAsAssumed
<1>1. JInv /\ [Next]_vars => [Sender!Next]_(Sender!vars)
  BY JointStep
<1>2. Init => Sender!Init
  BY DEF Init
<1>3. QED
  BY <1>1, <1>2, Invariant, PTL DEF SafeSpec, FarEndAsAssumed, Sender!SafeSpec

\* A thread that posts to a Location is told the verdict on what it asked,
\* or nothing.
THEOREM OnlyOwn == SafeSpec => []OnlyOwnVerdict
<1>1. JInv => OnlyOwnVerdict
  BY DEF JInv
<1>2. QED
  BY <1>1, Invariant, PTL

\* A connection kept at both ends is found in the pool: those opened to an
\* endpoint are no more than the threads that posted.
LEMMA OneEach ==
  ASSUME SenderP!IInv, SenderP!BoundInv
  PROVE  OneConnectionEach
<1> DEFINE opened == {l \in Links : side[l] # "unopened"}
           posting == {s \in Senders : asked[s] > 0}
<1> SUFFICES ASSUME \A l \in opened : Ours(l), NEW k \in {key[l] : l \in opened}
             PROVE  Cardinality({l \in opened : key[l] = k}) <= Cardinality(posting)
  BY DEF OneConnectionEach
<1>1. PICK l \in Links : Ours(l) /\ k = key[l]
  OBVIOUS
<1>2. k \in SenderP!Keys
  <2>1. PICK t \in Targets : key[l] = SenderP!Key(t)
    BY <1>1 DEF Ours, SenderP!IInv, SenderP!KeyInv
  <2>2. QED
    BY <1>1, <2>1 DEF SenderP!Keys
<1>3. {m \in opened : key[m] = k} = SenderP!To(k)
  BY DEF Ours, SenderP!To
<1>4. posting = SenderP!Posting
  BY DEF SenderP!Posting
<1>5. Cardinality(SenderP!To(k)) + Cardinality(SenderP!Opening(k))
        <= Cardinality(SenderP!Posting)
  BY <1>2, CardinalitySame DEF SenderP!BoundInv, SenderP!BoundAt
<1>6. Cardinality(SenderP!Opening(k)) \in Nat
  <2>1. SenderP!Opening(k) \in SUBSET Senders
    BY DEF SenderP!Opening
  <2>2. QED
    BY <2>1, SendersAssumption, FS_Subset, FS_CardinalityType
<1>7. Cardinality(SenderP!To(k)) \in Nat
  <2>1. IsFiniteSet(SenderP!To(k))
    BY <1>2 DEF SenderP!BoundInv, SenderP!BoundAt, IsFiniteSet, SenderP!IsFiniteSet
  <2>2. QED
    BY <2>1, FS_CardinalityType
<1>8. Cardinality(SenderP!Posting) \in Nat
  <2>1. SenderP!Posting \in SUBSET Senders
    BY DEF SenderP!Posting
  <2>2. QED
    BY <2>1, SendersAssumption, FS_Subset, FS_CardinalityType
<1>9. Cardinality(SenderP!To(k)) <= Cardinality(SenderP!Posting)
  BY <1>5, <1>6, <1>7, <1>8
<1>10. QED
  BY <1>3, <1>4, <1>9

\* One connection carries every request of a thread while both ends keep it.
THEOREM OneEachKept == SafeSpec => []OneConnectionEach
<1>1. Init => SenderP!BoundInv
  <2>1. Init => SenderP!Init
    BY DEF Init, Sender!Init, SenderP!Init, Sender!NoTarget, SenderP!NoTarget,
       Sender!NoKey, SenderP!NoKey
  <2>2. QED
    BY <2>1, SenderAssumptions, SenderP!BoundInit
<1>2. JInv /\ SenderP!BoundInv /\ [Next]_vars => SenderP!BoundInv'
  <2> SUFFICES ASSUME JInv, SenderP!BoundInv, [Next]_vars PROVE SenderP!BoundInv'
    OBVIOUS
  <2>1. SenderP!IInv /\ [SenderP!Next]_(SenderP!vars)
    BY JointStep DEF JInv
  <2>2. QED
    BY <2>1, SenderAssumptions, SenderP!BoundInductive
<1>3. JInv /\ SenderP!BoundInv => OneConnectionEach
  BY OneEach DEF JInv
<1>4. QED
  BY <1>1, <1>2, <1>3, Invariant, PTL DEF SafeSpec

\* The Location that is posted to keeps its promise to callers: what it took
\* it answers in the order of asking, and once (CallerWaits).
THEOREM LocationKeepsPromise == SafeSpec => LocationP!ImplementsPromiseSafely
<1>1. JInv /\ [Next]_vars => [LocationP!Next]_(LocationP!vars)
  BY JointStep
<1>2. Init => LocationP!Init
  BY DEF Init, Location!Init, LocationP!Init
<1>3. LocationP!SafeSpec => LocationP!ImplementsPromiseSafely
  BY LocationAssumptions, LocationP!KeepsPromise
<1>4. QED
  BY <1>1, <1>2, <1>3, Invariant, PTL DEF SafeSpec, LocationP!SafeSpec

\* The threads that post to a Location are told as Exchange promises: an
\* answer only to what the Location took, which it took at most twice.
THEOREM SenderKeepsPromise == SafeSpec => SenderP!ImplementsExchangeSafely
<1>1. JInv /\ [Next]_vars => [SenderP!Next]_(SenderP!vars)
  BY JointStep
<1>2. Init => SenderP!Init
  BY DEF Init, Sender!Init, SenderP!Init, Sender!NoTarget, SenderP!NoTarget,
     Sender!NoKey, SenderP!NoKey
<1>3. SenderP!SafeSpec => SenderP!ImplementsExchangeSafely
  BY SenderAssumptions, SenderP!KeepsPromise
<1>4. QED
  BY <1>1, <1>2, <1>3, Invariant, PTL DEF SafeSpec, SenderP!SafeSpec
=============================================================================
