------------------------- MODULE ConnectionsProofs -------------------------
(***************************************************************************)
(* Proofs about Connections, for any threads, targets and links, and any   *)
(* bound on requests: whose connections are, what is on them, and what may *)
(* be spoken on them; then what takes counting, of the times a request is  *)
(* written and of the connections to an endpoint: that Connections         *)
(* implements Exchange, and keeps no more connections than threads that    *)
(* post (safety; that every exchange ends rests on fairness and is         *)
(* model-checked).                                                         *)
(***************************************************************************)
EXTENDS Connections, SequenceTheorems, FiniteSetTheorems, TLAPS

\* TypeOK, but for how often a far end may act on one request: that takes a
\* count of the times it is sent (TwiceInv).
Typing ==
    /\ phase \in [Senders -> {"idle", "opening", "asking", "awaiting",
                              "told", "failed"}]
    /\ to \in [Senders -> Targets \cup {NoTarget}]
    /\ on \in [Senders -> Links \cup {NoLink}]
    /\ fresh \in [Senders -> BOOLEAN]
    /\ asked \in [Senders -> 0..MaxAsks]
    /\ got \in [Senders -> {"none", "own", "other", "idle", "late"}]
    /\ side \in [Links -> {"unopened", "held", "kept", "closed"}]
    /\ key \in [Links -> Keys \cup {NoKey}]
    /\ tls \in [Links -> BOOLEAN]
    /\ version \in [Links -> {1, 2}]
    /\ open \in [Links -> BOOLEAN]
    /\ goingAway \in [Links -> BOOLEAN]
    /\ far \in [Links -> BOOLEAN]
    /\ away \in [Links -> BOOLEAN]
    /\ coming \in [Links -> SUBSET Asks]
    /\ doing \in [Links -> SUBSET Asks]
    /\ back \in [Links -> Seq(Messages)]
    /\ acted \in [Senders -> [1..MaxAsks -> Nat]]

\* A thread holds a connection from the time it is taken or opened to the
\* end of the exchange, and no other thread holds it.
HoldInv ==
    /\ \A s \in Senders :
        /\ on[s] # NoLink <=> phase[s] \in {"asking", "awaiting"}
        /\ on[s] # NoLink => side[on[s]] = "held"
        /\ phase[s] \in {"opening", "asking", "awaiting"} =>
                to[s] \in Targets /\ asked[s] \in 1..MaxAsks
    /\ \A s, u \in Senders : on[s] = on[u] => on[s] = NoLink \/ s = u
    /\ \A l \in Links : side[l] = "held" => \E s \in Senders : on[s] = l

\* A connection is found by what it was opened for, and speaks it.
KeyInv ==
    /\ \A s \in Senders : on[s] # NoLink => key[on[s]] = Key(to[s])
    /\ \A l \in Links : side[l] \in {"held", "kept"} =>
        \E t \in Targets :
            key[l] = Key(t) /\ version[l] \in Versions(t) /\ tls[l] = t.secure

\* Nothing is under way on a connection this side does not have, but for
\* requests the far end may yet read on one that was closed.
SideInv ==
    \A l \in Links :
        /\ side[l] \notin {"held", "kept"} =>
            ~far[l] /\ doing[l] = {} /\ back[l] = <<>>
        /\ side[l] = "unopened" => coming[l] = {}

\* What comes back is said in the version spoken; a far end that spoke
\* unasked said nothing after it, and has no request left.
SaidAt(l) ==
    \A i \in 1..Len(back[l]) :
        /\ back[l][i].kind = "goaway" => version[l] = 2
        /\ back[l][i].kind \in {"idle", "late"} =>
            /\ version[l] = 1 /\ i = Len(back[l])
            /\ ~far[l] /\ coming[l] = {} /\ doing[l] = {}

SaidInv == \A l \in Links : SaidAt(l)

\* No request is on the link, in either direction.
Quiet(l) ==
    /\ coming[l] = {} /\ doing[l] = {}
    /\ \A i \in 1..Len(back[l]) : back[l][i].kind # "answer"

\* A link carries the one request of the thread that holds it, and that in
\* one place: on its way, acted on, or answered.
Carries(l, a) ==
    /\ coming[l] \subseteq {a} /\ doing[l] \subseteq {a}
    /\ coming[l] = {} \/ doing[l] = {}
    /\ \A i \in 1..Len(back[l]) : back[l][i].kind = "answer" =>
        /\ back[l][i].ask = a /\ coming[l] = {} /\ doing[l] = {}
        /\ \A j \in 1..Len(back[l]) : back[l][j].kind = "answer" => i = j

\* Nothing on it was said while it was idle.
Unidle(l) == \A i \in 1..Len(back[l]) : back[l][i].kind # "idle"

CarryInv ==
    /\ \A l \in Links : side[l] = "kept" => Quiet(l)
    /\ \A s \in Senders, l \in Links : on[s] = l =>
        /\ phase[s] = "asking" => Quiet(l)
        /\ phase[s] = "awaiting" => Carries(l, <<s, asked[s]>>)
        /\ Unidle(l)

IInv ==
    /\ Typing /\ HoldInv /\ KeyInv /\ SideInv /\ SaidInv /\ CarryInv
    /\ AnswerIsOwn

USE LinkAssumption, BoundAssumption, TimeoutAssumption, TlsAssumption

----------------------------------------------------------------------------
\* What a key tells of the target it is found by: its scheme and its offer,
\* and with them the versions it may speak.
LEMMA KeyTells ==
  ASSUME NEW t \in Targets, NEW u \in Targets, Key(t) = Key(u)
  PROVE  t.secure = u.secure /\ Versions(t) = Versions(u)
BY DEF Key, Versions

\* There are two versions to speak.
LEMMA VersionsKnown ==
  ASSUME NEW t PROVE Versions(t) \subseteq {1, 2}
BY DEF Versions

\* Connections starts in IInv.
LEMMA InitInductive == Init => IInv
<1> SUFFICES ASSUME Init PROVE IInv
  OBVIOUS
<1>1. Typing
  <2>1. <<>> \in Seq(Messages)
    BY EmptySeq
  <2>2. back \in [Links -> Seq(Messages)]
    BY <2>1 DEF Init
  <2>3. acted \in [Senders -> [1..MaxAsks -> Nat]]
    BY DEF Init
  <2>4. QED
    BY <2>2, <2>3 DEF Init, Typing
<1>2. HoldInv /\ KeyInv /\ SideInv
  BY DEF Init, HoldInv, KeyInv, SideInv
<1>3. SaidInv /\ CarryInv /\ AnswerIsOwn
  BY DEF Init, SaidInv, SaidAt, CarryInv, AnswerIsOwn, Quiet
<1>4. QED
  BY <1>1, <1>2, <1>3 DEF IInv

\* Acting once more on a request leaves the counts typed.
LEMMA ActedTyped ==
  ASSUME NEW f \in [Senders -> [1..MaxAsks -> Nat]],
         NEW s \in Senders, NEW n \in 1..MaxAsks
  PROVE  [f EXCEPT ![s][n] = @ + 1] \in [Senders -> [1..MaxAsks -> Nat]]
<1> DEFINE g == [f[s] EXCEPT ![n] = @ + 1]
<1>1. g \in [1..MaxAsks -> Nat]
  OBVIOUS
<1>2. [f EXCEPT ![s][n] = @ + 1] = [f EXCEPT ![s] = g]
  OBVIOUS
<1>3. QED
  BY <1>1, <1>2

----------------------------------------------------------------------------
\* The threads' steps.

\* Dropping links leaves them typed.
LEMMA DropTyped ==
  ASSUME Typing, NEW S \in SUBSET Links, Forget(S)
  PROVE  /\ Closed(S) \in [Links -> {"unopened", "held", "kept", "closed"}]
         /\ Reached(S) \in [Links -> BOOLEAN]
         /\ goingAway' \in [Links -> BOOLEAN]
         /\ doing' \in [Links -> SUBSET Asks]
         /\ back' \in [Links -> Seq(Messages)]
<1>1. <<>> \in Seq(Messages)
  BY EmptySeq
<1>2. QED
  BY <1>1 DEF Typing, Closed, Reached, Forget

\* Typing is kept as an exchange begins ...
LEMMA BeginTyped ==
  ASSUME Typing, NEW s \in Senders, NEW t \in Targets,
         Take(s, t) \/ TakeNone(s, t)
  PROVE  Typing'
<1>1. /\ asked' \in [Senders -> 0..MaxAsks]
      /\ to' \in [Senders -> Targets \cup {NoTarget}]
      /\ got' \in [Senders -> {"none", "own", "other", "idle", "late"}]
  <2>1. Begins(s, t)
    BY DEF Take, TakeNone
  <2>2. asked[s] + 1 \in 0..MaxAsks
    BY <2>1 DEF Typing, Begins
  <2>3. QED
    BY <2>1, <2>2 DEF Typing, Begins
<1>2. CASE Take(s, t)
  <2>1. PICK l \in KeptTo(t) \ Dead(KeptTo(t)),
             passed \in SUBSET Dead(KeptTo(t)) :
          /\ side' = [Closed(passed) EXCEPT ![l] = "held"]
          /\ far' = Reached(passed) /\ Forget(passed)
          /\ on' = [on EXCEPT ![s] = l]
    BY <1>2 DEF Take
  <2>2. l \in Links /\ passed \in SUBSET Links
    BY DEF KeptTo, Dead
  <2>3. QED
    BY <1>1, <1>2, <2>1, <2>2, DropTyped DEF Typing, Take
<1>3. CASE TakeNone(s, t)
  <2>1. KeptTo(t) \in SUBSET Links
    BY DEF KeptTo
  <2>2. QED
    BY <1>1, <1>3, <2>1, DropTyped DEF Typing, TakeNone
<1>4. QED
  BY <1>2, <1>3

\* ... as a connection is opened or cannot be ...
LEMMA OpenTyped ==
  ASSUME Typing, HoldInv, NEW s \in Senders, Open(s) \/ OpenFails(s)
  PROVE  Typing'
<1>1. Swept \in SUBSET Links
  BY DEF Swept, Dead
<1>2. CASE Open(s)
  <2>1. PICK l \in Links, v \in Versions(to[s]) :
          /\ side' = [Closed(Swept) EXCEPT ![l] = "held"]
          /\ key' = [key EXCEPT ![l] = Key(to[s])]
          /\ tls' = [tls EXCEPT ![l] = to[s].secure]
          /\ version' = [version EXCEPT ![l] = v]
          /\ open' = [open EXCEPT ![l] = TRUE]
          /\ far' = [Reached(Swept) EXCEPT ![l] = TRUE]
          /\ on' = [on EXCEPT ![s] = l]
    BY <1>2 DEF Open
  <2>2. to[s] \in Targets
    BY <1>2 DEF HoldInv, Open
  <2>3. to[s].secure \in BOOLEAN /\ Key(to[s]) \in Keys /\ v \in {1, 2}
    BY <2>2, TargetAssumption, VersionsKnown DEF Keys
  <2>4. QED
    BY <1>1, <1>2, <2>1, <2>3, DropTyped DEF Typing, Open
<1>3. CASE OpenFails(s)
  BY <1>1, <1>3, DropTyped DEF Typing, OpenFails
<1>4. QED
  BY <1>2, <1>3

\* ... by the exchange itself ...
LEMMA ExchangeTyped ==
  ASSUME Typing, HoldInv, NEW s \in Senders,
         Ask(s) \/ ReadGoAway(s) \/ Told(s) \/ Fails(s)
  PROVE  Typing'
<1> DEFINE l == on[s]
<1>1. l \in Links /\ asked[s] \in 1..MaxAsks
  BY DEF Typing, HoldInv, Ask, ReadGoAway, Told, Awaits, Fails, Broken
<1>2. CASE Ask(s)
  <2>1. <<s, asked[s]>> \in Asks
    BY <1>1 DEF Asks
  <2>2. coming' \in [Links -> SUBSET Asks]
    BY <1>1, <1>2, <2>1 DEF Typing, Ask
  <2>3. QED
    BY <1>2, <2>2 DEF Typing, Ask, sideVars
<1>3. CASE ReadGoAway(s)
  <2>1. back' \in [Links -> Seq(Messages)]
    BY <1>1, <1>3, HeadTailProperties DEF Typing, ReadGoAway, Awaits
  <2>2. QED
    BY <1>3, <2>1 DEF Typing, ReadGoAway, senderVars
<1>4. CASE Told(s)
  <2> DEFINE m == Head(back[l])
  <2>1. back[l] \in Seq(Messages) /\ back[l] # <<>>
    BY <1>1, <1>4 DEF Typing, Told, Awaits
  <2>2. m \in Messages /\ Tail(back[l]) \in Seq(Messages)
    BY <2>1, HeadTailProperties
  <2>3. Heard(s, m) \in {"own", "other", "idle", "late"}
    <3>1. m.kind \in {"answer", "idle", "late"}
      BY <1>4, <2>2 DEF Told, Messages
    <3>2. QED
      BY <3>1 DEF Heard
  <2>4. got' \in [Senders -> {"none", "own", "other", "idle", "late"}]
    BY <1>4, <2>3 DEF Typing, Told
  <2>5. open' \in [Links -> BOOLEAN]
    <3> DEFINE left == version[l] = 2 \/ (m.kind = "answer" /\ m.keep)
    <3>1. left \in BOOLEAN
      BY <2>2 DEF Messages
    <3>2. open' = [open EXCEPT ![l] = left]
      BY <1>4 DEF Told
    <3>3. QED
      BY <1>1, <3>1, <3>2 DEF Typing
  <2>6. /\ side' \in [Links -> {"unopened", "held", "kept", "closed"}]
        /\ far' \in [Links -> BOOLEAN]
        /\ goingAway' \in [Links -> BOOLEAN]
        /\ doing' \in [Links -> SUBSET Asks]
        /\ back' \in [Links -> Seq(Messages)]
    <3>1. CASE /\ side' = [side EXCEPT ![l] = "kept"]
               /\ back' = [back EXCEPT ![l] = Tail(@)]
               /\ UNCHANGED <<goingAway, doing, far>>
      BY <1>1, <2>2, <3>1 DEF Typing
    <3>2. CASE side' = Closed({l}) /\ far' = Reached({l}) /\ Forget({l})
      BY <1>1, <3>2, DropTyped
    <3>3. QED
      BY <1>4, <3>1, <3>2 DEF Told
  <2>7. QED
    BY <1>4, <2>4, <2>5, <2>6 DEF Typing, Told
<1>5. CASE Fails(s)
  BY <1>1, <1>5, DropTyped DEF Typing, Fails
<1>6. QED
  BY <1>2, <1>3, <1>4, <1>5

\* ... and by what a far end does.
LEMMA FarEndTyped ==
  ASSUME Typing, NEW l \in Links, FarEnd(l)
  PROVE  Typing'
<1>1. CASE Act(l)
  <2>1. PICK a \in coming[l] :
          /\ coming' = [coming EXCEPT ![l] = @ \ {a}]
          /\ doing' = IF far[l] THEN [doing EXCEPT ![l] = @ \cup {a}] ELSE doing
          /\ acted' = [acted EXCEPT ![a[1]][a[2]] = @ + 1]
    BY <1>1 DEF Act
  <2>2. a \in Asks /\ a[1] \in Senders /\ a[2] \in 1..MaxAsks
    BY DEF Typing, Asks
  <2>3. acted' \in [Senders -> [1..MaxAsks -> Nat]]
    BY <2>1, <2>2, ActedTyped DEF Typing
  <2>4. /\ coming' \in [Links -> SUBSET Asks]
        /\ doing' \in [Links -> SUBSET Asks]
    BY <2>1, <2>2 DEF Typing
  <2>5. QED
    BY <1>1, <2>3, <2>4 DEF Typing, Act, senderVars, sideVars
<1>2. CASE Answer(l)
  <2>1. PICK a \in doing[l], keep \in BOOLEAN :
          /\ doing' = [doing EXCEPT ![l] = @ \ {a}]
          /\ back' = [back EXCEPT ![l] =
                Append(@, [kind |-> "answer", ask |-> a, keep |-> keep])]
          /\ far' = [far EXCEPT ![l] = keep]
    BY <1>2 DEF Answer
  <2>2. [kind |-> "answer", ask |-> a, keep |-> keep] \in Messages
    BY DEF Typing, Messages
  <2>3. back' \in [Links -> Seq(Messages)]
    BY <2>1, <2>2, AppendProperties DEF Typing
  <2>4. /\ doing' \in [Links -> SUBSET Asks]
        /\ far' \in [Links -> BOOLEAN]
    BY <2>1 DEF Typing
  <2>5. QED
    BY <1>2, <2>3, <2>4 DEF Typing, Answer, senderVars, sideVars
<1>3. CASE GoAway(l)
  <2>1. [kind |-> "goaway"] \in Messages
    BY DEF Messages
  <2>2. back' \in [Links -> Seq(Messages)]
    BY <1>3, <2>1, AppendProperties DEF Typing, GoAway
  <2>3. QED
    BY <1>3, <2>2 DEF Typing, GoAway, senderVars, sideVars
<1>4. CASE SpeakUnasked(l)
  <2>1. [kind |-> IF side[l] = "kept" THEN "idle" ELSE "late"] \in Messages
    BY DEF Messages
  <2>2. back' \in [Links -> Seq(Messages)]
    BY <1>4, <2>1, AppendProperties DEF Typing, SpeakUnasked
  <2>3. QED
    BY <1>4, <2>2 DEF Typing, SpeakUnasked, senderVars, sideVars
<1>5. CASE Close(l)
  <2>1. <<>> \in Seq(Messages)
    BY EmptySeq
  <2>2. back' \in [Links -> Seq(Messages)]
    BY <1>5, <2>1 DEF Typing, Close
  <2>3. acted' \in [Senders -> [1..MaxAsks -> Nat]]
    <3>1. ASSUME NEW a \in coming[l],
                 acted' = [acted EXCEPT ![a[1]][a[2]] = @ + 1]
          PROVE  acted' \in [Senders -> [1..MaxAsks -> Nat]]
      <4>1. a[1] \in Senders /\ a[2] \in 1..MaxAsks
        BY DEF Typing, Asks
      <4>2. QED
        BY <3>1, <4>1, ActedTyped DEF Typing
    <3>2. QED
      BY <1>5, <3>1 DEF Typing, Close
  <2>4. QED
    BY <1>5, <2>2, <2>3 DEF Typing, Close, senderVars, sideVars
<1>6. QED
  BY <1>1, <1>2, <1>3, <1>4, <1>5 DEF FarEnd

----------------------------------------------------------------------------
\* What is dropped, and what stays.

\* Of a set of links that is let go, each is forgotten and nothing else is
\* touched.
LEMMA DropTells ==
  ASSUME Typing, NEW S \in SUBSET Links, Forget(S), NEW l \in Links
  PROVE  /\ l \in S => /\ Closed(S)[l] = "closed" /\ ~Reached(S)[l]
                       /\ doing'[l] = {} /\ back'[l] = <<>>
         /\ l \notin S => /\ Closed(S)[l] = side[l] /\ Reached(S)[l] = far[l]
                          /\ doing'[l] = doing[l] /\ back'[l] = back[l]
BY DEF Typing, Closed, Reached, Forget

\* On a link that stays as it is, whoever has it, or is dropped, what was
\* said still keeps to the version, and nothing is under way unheld.
Stays(l) ==
    /\ far'[l] = far[l] /\ doing'[l] = doing[l] /\ back'[l] = back[l]
    /\ coming'[l] = coming[l] /\ version'[l] = version[l]
    /\ side'[l] \in {side[l], "held", "kept"}

Dropped(l) ==
    /\ ~far'[l] /\ doing'[l] = {} /\ back'[l] = <<>>
    /\ coming'[l] = coming[l] /\ version'[l] = version[l]
    /\ side'[l] = "closed"

\* What a link carries and who holds it, where links only stay or are
\* dropped.
LEMMA StaysOrDropped ==
  ASSUME SideInv, SaidInv, \A l \in Links : Stays(l) \/ Dropped(l)
  PROVE  SideInv' /\ SaidInv'
BY DEF SideInv, SaidInv, SaidAt, Stays, Dropped

\* So is it with what the link of a thread that takes no step carries.
LEMMA OthersCarry ==
  ASSUME CarryInv, NEW s \in Senders, NEW l \in Links, on[s] = l, Stays(l),
         phase'[s] = phase[s], asked'[s] = asked[s]
  PROVE  /\ phase'[s] = "asking" => Quiet(l)'
         /\ phase'[s] = "awaiting" => Carries(l, <<s, asked[s]>>)'
         /\ Unidle(l)'
<1>1. /\ phase[s] = "asking" => Quiet(l)
      /\ phase[s] = "awaiting" => Carries(l, <<s, asked[s]>>)
      /\ Unidle(l)
  BY DEF CarryInv
<1>2. phase[s] = "asking" => Quiet(l)'
  BY <1>1 DEF Quiet, Stays
<1>3. phase[s] = "awaiting" => Carries(l, <<s, asked[s]>>)'
  BY <1>1 DEF Carries, Stays
<1>4. Unidle(l)'
  BY <1>1 DEF Unidle, Stays
<1>5. QED
  BY <1>2, <1>3, <1>4

\* The other threads.
Untouched(s) ==
    \A u \in Senders \ {s} :
        /\ phase'[u] = phase[u] /\ to'[u] = to[u] /\ asked'[u] = asked[u]
        /\ got'[u] = got[u] /\ on'[u] = on[u]

\* Taking a kept connection.
LEMMA TakeInductive ==
  ASSUME IInv, NEW s \in Senders, NEW t \in Targets, Take(s, t)
  PROVE  IInv'
<1> USE DEF IInv
<1>1. PICK l \in KeptTo(t) \ Dead(KeptTo(t)),
           passed \in SUBSET Dead(KeptTo(t)) :
        /\ side' = [Closed(passed) EXCEPT ![l] = "held"]
        /\ far' = Reached(passed) /\ Forget(passed)
        /\ on' = [on EXCEPT ![s] = l]
  BY DEF Take
<1>2. /\ l \in Links /\ side[l] = "kept" /\ key[l] = Key(t) /\ Usable(l)
      /\ l \notin passed /\ passed \in SUBSET Links
      /\ \A m \in passed : side[m] = "kept"
  BY DEF KeptTo, Dead
<1>3. /\ phase'[s] = "asking" /\ to'[s] = t /\ asked'[s] = asked[s] + 1
      /\ got'[s] = "none" /\ on'[s] = l /\ on[s] = NoLink
      /\ asked[s] \in 0..MaxAsks /\ asked[s] < MaxAsks
      /\ Untouched(s)
  <2>1. /\ phase' = [phase EXCEPT ![s] = "asking"] /\ Begins(s, t)
    BY DEF Take
  <2>2. phase[s] \in {"idle", "told", "failed"}
    BY <2>1 DEF Begins
  <2>3. on[s] = NoLink
    BY <2>2 DEF HoldInv
  <2>4. asked[s] \in 0..MaxAsks
    BY DEF Typing
  <2>5. QED
    BY <1>1, <2>1, <2>3, <2>4 DEF Begins, Typing, Untouched
<1>4. /\ key' = key /\ tls' = tls /\ version' = version /\ open' = open
      /\ coming' = coming
  BY DEF Take
<1>5. \A m \in passed : Dropped(m)
  BY <1>1, <1>2, <1>4, DropTells DEF Dropped, Closed
<1>6. Stays(l) /\ side'[l] = "held"
  BY <1>1, <1>2, <1>4, DropTells DEF Stays, Closed
<1>7. \A m \in Links \ (passed \cup {l}) : Stays(m) /\ side'[m] = side[m]
  BY <1>1, <1>2, <1>4, DropTells DEF Stays, Closed
<1>8. \A u \in Senders : on[u] # NoLink =>
        on[u] \in Links /\ on[u] # l /\ on[u] \notin passed
  BY <1>2 DEF HoldInv, Typing
<1>9. Typing'
  BY BeginTyped
<1>10. HoldInv'
  <2>1. \A u \in Senders :
          /\ on'[u] # NoLink <=> phase'[u] \in {"asking", "awaiting"}
          /\ on'[u] # NoLink => side'[on'[u]] = "held"
          /\ phase'[u] \in {"opening", "asking", "awaiting"} =>
                to'[u] \in Targets /\ asked'[u] \in 1..MaxAsks
    BY <1>2, <1>3, <1>6, <1>7, <1>8 DEF HoldInv, Untouched
  <2>2. \A u, w \in Senders : on'[u] = on'[w] => on'[u] = NoLink \/ u = w
    BY <1>3, <1>8 DEF HoldInv, Untouched
  <2>3. \A m \in Links : side'[m] = "held" => \E u \in Senders : on'[u] = m
    <3>1. SUFFICES ASSUME NEW m \in Links, m # l, side'[m] = "held"
                   PROVE  \E u \in Senders : on'[u] = m
      BY <1>3
    <3>2. side[m] = "held"
      BY <1>5, <1>7, <3>1 DEF Dropped
    <3>3. PICK u \in Senders : on[u] = m
      BY <3>1, <3>2 DEF HoldInv
    <3>4. on'[u] = m
      BY <1>3, <3>3 DEF Untouched
    <3>5. QED
      BY <3>4
  <2>4. QED
    BY <2>1, <2>2, <2>3 DEF HoldInv
<1>11. KeyInv'
  <2>1. \A u \in Senders : on'[u] # NoLink => key'[on'[u]] = Key(to'[u])
    BY <1>2, <1>3, <1>4 DEF KeyInv, Untouched
  <2>2. \A m \in Links : side'[m] \in {"held", "kept"} =>
                            side[m] \in {"held", "kept"}
    BY <1>2, <1>5, <1>7 DEF Dropped
  <2>3. QED
    BY <1>4, <2>1, <2>2 DEF KeyInv
<1>12. SideInv' /\ SaidInv'
  BY <1>5, <1>6, <1>7, StaysOrDropped
<1>13. CarryInv'
  <2>1. \A m \in Links : side'[m] = "kept" => Quiet(m)'
    BY <1>5, <1>6, <1>7 DEF CarryInv, Quiet, Stays, Dropped
  <2>2. Quiet(l)'
    BY <1>2, <1>6 DEF CarryInv, Quiet, Stays
  <2>3. Unidle(l)'
    <3>1. Unidle(l)
      BY <1>2 DEF SaidInv, SaidAt, Unidle, Usable, Fit, Typing
    <3>2. QED
      BY <1>6, <3>1 DEF Unidle, Stays
  <2>4. ASSUME NEW u \in Senders \ {s}, NEW m \in Links, on'[u] = m
        PROVE  /\ phase'[u] = "asking" => Quiet(m)'
               /\ phase'[u] = "awaiting" => Carries(m, <<u, asked[u]>>)'
               /\ Unidle(m)'
    <3>1. on[u] = m /\ m \notin passed \cup {l}
      BY <1>3, <1>8, <2>4, LinkAssumption DEF Untouched
    <3>2. QED
      BY <1>3, <1>7, <3>1, OthersCarry DEF Untouched
  <2>5. QED
    BY <1>3, <2>1, <2>2, <2>3, <2>4 DEF CarryInv
<1>14. AnswerIsOwn'
  BY <1>3 DEF AnswerIsOwn, Untouched
<1>15. QED
  BY <1>9, <1>10, <1>11, <1>12, <1>13, <1>14

\* A thread that is left without a connection, others having been dropped:
\* kept ones, or its own.
LEMMA LeaveInductive ==
  ASSUME IInv, Typing', NEW s \in Senders, NEW S \in SUBSET Links,
         \A l \in S : Dropped(l) /\ (side[l] = "kept" \/ l = on[s]),
         \A l \in Links \ S : Stays(l) /\ side'[l] = side[l],
         key' = key, tls' = tls, on[s] \in S \cup {NoLink}, Untouched(s),
         on'[s] = NoLink, phase'[s] \in {"opening", "failed", "told"},
         phase'[s] = "opening" => to'[s] \in Targets /\ asked'[s] \in 1..MaxAsks,
         got'[s] \in {"none", "own", "late"}
  PROVE  IInv'
<1> USE DEF IInv
<1>1. \A u \in Senders \ {s} : on[u] # NoLink => on[u] \in Links \ S
  BY DEF HoldInv, Typing
<1>2. HoldInv'
  <2>1. \A u \in Senders :
          /\ on'[u] # NoLink <=> phase'[u] \in {"asking", "awaiting"}
          /\ on'[u] # NoLink => side'[on'[u]] = "held"
          /\ phase'[u] \in {"opening", "asking", "awaiting"} =>
                to'[u] \in Targets /\ asked'[u] \in 1..MaxAsks
    BY <1>1 DEF HoldInv, Untouched
  <2>2. \A u, w \in Senders : on'[u] = on'[w] => on'[u] = NoLink \/ u = w
    BY DEF HoldInv, Untouched
  <2>3. \A l \in Links : side'[l] = "held" => \E u \in Senders : on'[u] = l
    <3>1. SUFFICES ASSUME NEW l \in Links, side'[l] = "held"
                   PROVE  \E u \in Senders : on'[u] = l
      OBVIOUS
    <3>2. l \notin S /\ side[l] = "held"
      BY <3>1 DEF Dropped
    <3>3. PICK u \in Senders : on[u] = l
      BY <3>2 DEF HoldInv
    <3>4. on'[u] = l
      BY <3>2, <3>3 DEF Untouched
    <3>5. QED
      BY <3>4
  <2>4. QED
    BY <2>1, <2>2, <2>3 DEF HoldInv
<1>3. KeyInv'
  <2>1. \A u \in Senders : on'[u] # NoLink => key'[on'[u]] = Key(to'[u])
    BY DEF KeyInv, Untouched
  <2>2. ASSUME NEW l \in Links, side'[l] \in {"held", "kept"}
        PROVE  version'[l] = version[l] /\ side[l] \in {"held", "kept"}
    BY <2>2 DEF Dropped, Stays
  <2>3. QED
    BY <2>1, <2>2 DEF KeyInv
<1>4. SideInv' /\ SaidInv'
  BY StaysOrDropped
<1>5. CarryInv'
  <2>1. \A l \in Links : side'[l] = "kept" => Quiet(l)'
    BY DEF CarryInv, Quiet, Stays, Dropped
  <2>2. ASSUME NEW u \in Senders, NEW l \in Links, on'[u] = l
        PROVE  /\ phase'[u] = "asking" => Quiet(l)'
               /\ phase'[u] = "awaiting" => Carries(l, <<u, asked[u]>>)'
               /\ Unidle(l)'
    <3>1. u # s /\ on[u] = l /\ l \in Links \ S
      BY <1>1, <2>2, LinkAssumption DEF Untouched
    <3>2. QED
      BY <3>1, OthersCarry DEF Untouched
  <2>3. QED
    BY <2>1, <2>2 DEF CarryInv
<1>6. AnswerIsOwn'
  BY DEF AnswerIsOwn, Untouched
<1>7. QED
  BY <1>2, <1>3, <1>4, <1>5, <1>6

\* Links that are dropped are Dropped, and the others stay.
LEMMA DropsThem ==
  ASSUME Typing, NEW S \in SUBSET Links, side' = Closed(S), far' = Reached(S),
         Forget(S), coming' = coming, version' = version
  PROVE  /\ \A l \in S : Dropped(l)
         /\ \A l \in Links \ S : Stays(l) /\ side'[l] = side[l]
BY DropTells DEF Dropped, Stays

\* Finding none kept that is usable, and failing to open one.
LEMMA NoneInductive ==
  ASSUME IInv, NEW s \in Senders,
         OpenFails(s) \/ \E t \in Targets : TakeNone(s, t)
  PROVE  IInv'
<1> USE DEF IInv
<1>1. ASSUME NEW t \in Targets, TakeNone(s, t)
      PROVE  IInv'
  <2>1. Begins(s, t) /\ on' = on /\ phase' = [phase EXCEPT ![s] = "opening"]
    BY <1>1 DEF TakeNone
  <2>2. /\ on[s] = NoLink /\ asked'[s] \in 1..MaxAsks /\ to'[s] = t
        /\ got'[s] = "none" /\ phase'[s] = "opening"
    <3>1. asked[s] \in 0..MaxAsks /\ asked[s] < MaxAsks
      BY <2>1 DEF Begins, Typing
    <3>2. on[s] = NoLink
      BY <2>1 DEF Begins, HoldInv
    <3>3. asked'[s] = asked[s] + 1
      BY <2>1 DEF Begins, Typing
    <3>4. to'[s] = t /\ got'[s] = "none" /\ phase'[s] = "opening"
      BY <2>1 DEF Begins, Typing
    <3>5. QED
      BY <3>1, <3>2, <3>3, <3>4
  <2>3. Untouched(s)
    BY <2>1 DEF Untouched, Begins, Typing
  <2>4. KeptTo(t) \in SUBSET Links /\ \A l \in KeptTo(t) : side[l] = "kept"
    BY DEF KeptTo
  <2>5. /\ \A l \in KeptTo(t) : Dropped(l)
        /\ \A l \in Links \ KeptTo(t) : Stays(l) /\ side'[l] = side[l]
    BY <1>1, <2>4, DropsThem DEF TakeNone
  <2>6. Typing'
    BY <1>1, BeginTyped
  <2>7. key' = key /\ tls' = tls
    BY <1>1 DEF TakeNone
  <2>8. QED
    BY <2>1, <2>2, <2>3, <2>4, <2>5, <2>6, <2>7, LeaveInductive
<1>2. CASE OpenFails(s)
  <2>1. /\ on[s] = NoLink /\ on' = on /\ phase'[s] = "failed" /\ Untouched(s)
    <3>1. on[s] = NoLink
      BY <1>2 DEF OpenFails, HoldInv
    <3>2. QED
      BY <1>2, <3>1 DEF OpenFails, Typing, Untouched
  <2>2. Swept \in SUBSET Links /\ \A l \in Swept : side[l] = "kept"
    BY DEF Swept, Dead
  <2>3. /\ \A l \in Swept : Dropped(l)
        /\ \A l \in Links \ Swept : Stays(l) /\ side'[l] = side[l]
    BY <1>2, <2>2, DropsThem DEF OpenFails
  <2>4. Typing'
    BY <1>2, OpenTyped
  <2>5. got'[s] \in {"none", "own", "late"} /\ key' = key /\ tls' = tls
    BY <1>2 DEF OpenFails, AnswerIsOwn
  <2>6. QED
    BY <2>1, <2>2, <2>3, <2>4, <2>5, LeaveInductive
<1>3. QED
  BY <1>1, <1>2

\* An exchange that fails.
LEMMA FailsInductive ==
  ASSUME IInv, NEW s \in Senders, Fails(s)
  PROVE  IInv'
<1> USE DEF IInv
<1> DEFINE l == on[s]
<1>1. phase[s] = "awaiting" /\ l \in Links
  BY DEF Fails, Broken, Typing, HoldInv
<1>2. /\ to[s] \in Targets /\ asked[s] \in 1..MaxAsks
      /\ to'[s] = to[s] /\ asked'[s] = asked[s]
  BY <1>1 DEF Fails, HoldInv
<1>3. /\ on'[s] = NoLink /\ phase'[s] \in {"opening", "failed"}
      /\ got'[s] \in {"none", "own", "late"} /\ key' = key /\ tls' = tls
  BY DEF Fails, Typing, AnswerIsOwn
<1>4. Untouched(s)
  BY DEF Untouched, Fails, Typing
<1>5. /\ Dropped(l)
      /\ \A m \in Links \ {l} : Stays(m) /\ side'[m] = side[m]
  BY <1>1, DropsThem DEF Fails
<1>6. Typing'
  BY ExchangeTyped
<1>7. /\ \A m \in {l} : Dropped(m) /\ (side[m] = "kept" \/ m = on[s])
      /\ on[s] \in {l} \cup {NoLink} /\ {l} \in SUBSET Links
  BY <1>1, <1>5
<1>8. QED
  BY <1>2, <1>3, <1>4, <1>5, <1>6, <1>7, LeaveInductive

\* Opening a connection.
LEMMA OpenInductive ==
  ASSUME IInv, NEW s \in Senders, Open(s)
  PROVE  IInv'
<1> USE DEF IInv
<1>1. PICK l \in Links, v \in Versions(to[s]) :
        /\ side[l] = "unopened"
        /\ side' = [Closed(Swept) EXCEPT ![l] = "held"]
        /\ key' = [key EXCEPT ![l] = Key(to[s])]
        /\ tls' = [tls EXCEPT ![l] = to[s].secure]
        /\ version' = [version EXCEPT ![l] = v]
        /\ far' = [Reached(Swept) EXCEPT ![l] = TRUE]
        /\ on' = [on EXCEPT ![s] = l]
  BY DEF Open
<1>2. /\ Swept \in SUBSET Links /\ l \notin Swept
      /\ \A m \in Swept : side[m] = "kept"
  BY <1>1 DEF Swept, Dead
<1>3. /\ to[s] \in Targets /\ asked[s] \in 1..MaxAsks /\ on[s] = NoLink
  BY DEF Open, HoldInv
<1>4. /\ phase'[s] = "asking" /\ to' = to /\ asked' = asked /\ got' = got
      /\ on'[s] = l /\ coming' = coming
  BY <1>1 DEF Open, Typing
<1>5. Untouched(s)
  BY <1>1 DEF Open, Typing, Untouched
<1>6. /\ side'[l] = "held" /\ key'[l] = Key(to[s]) /\ tls'[l] = to[s].secure
      /\ version'[l] = v
  BY <1>1 DEF Typing, Closed
<1>7. doing'[l] = {} /\ back'[l] = <<>> /\ coming'[l] = {}
  BY <1>1, <1>2, <1>4, DropTells DEF Open, SideInv
<1>8. \A m \in Links \ {l} : /\ key'[m] = key[m] /\ tls'[m] = tls[m]
                             /\ version'[m] = version[m]
  BY <1>1 DEF Typing
<1>9. \A m \in Swept : Dropped(m)
  BY <1>1, <1>2, <1>4, <1>8, DropTells DEF Dropped, Open, Closed, Reached
<1>10. \A m \in Links \ (Swept \cup {l}) : Stays(m) /\ side'[m] = side[m]
  <2>1. ASSUME NEW m \in Links, m \notin Swept \cup {l}
        PROVE  Stays(m) /\ side'[m] = side[m]
    <3>1. /\ Closed(Swept)[m] = side[m] /\ Reached(Swept)[m] = far[m]
          /\ doing'[m] = doing[m] /\ back'[m] = back[m]
      BY <1>2, <2>1, DropTells DEF Open
    <3>2. side'[m] = side[m] /\ far'[m] = far[m]
      BY <1>1, <2>1, <3>1 DEF Closed, Reached
    <3>3. QED
      BY <1>4, <1>8, <2>1, <3>1, <3>2 DEF Stays
  <2>2. QED
    BY <2>1
<1>11. \A u \in Senders : on[u] # NoLink =>
        on[u] \in Links \ (Swept \cup {l})
  BY <1>1, <1>2 DEF HoldInv, Typing
<1>12. Typing'
  BY OpenTyped
<1>13. HoldInv'
  <2>1. \A u \in Senders :
          /\ on'[u] # NoLink <=> phase'[u] \in {"asking", "awaiting"}
          /\ on'[u] # NoLink => side'[on'[u]] = "held"
          /\ phase'[u] \in {"opening", "asking", "awaiting"} =>
                to'[u] \in Targets /\ asked'[u] \in 1..MaxAsks
    BY <1>3, <1>4, <1>5, <1>6, <1>10, <1>11 DEF HoldInv, Untouched
  <2>2. \A u, w \in Senders : on'[u] = on'[w] => on'[u] = NoLink \/ u = w
    BY <1>4, <1>5, <1>11 DEF HoldInv, Untouched
  <2>3. \A m \in Links : side'[m] = "held" => \E u \in Senders : on'[u] = m
    <3>1. SUFFICES ASSUME NEW m \in Links, m # l, side'[m] = "held"
                   PROVE  \E u \in Senders : on'[u] = m
      BY <1>4
    <3>2. side[m] = "held"
      BY <1>9, <1>10, <3>1 DEF Dropped
    <3>3. PICK u \in Senders : on[u] = m
      BY <3>1, <3>2 DEF HoldInv
    <3>4. on'[u] = m
      BY <1>3, <1>5, <3>3 DEF Untouched
    <3>5. QED
      BY <3>4
  <2>4. QED
    BY <2>1, <2>2, <2>3 DEF HoldInv
<1>14. KeyInv'
  <2>1. \A u \in Senders : on'[u] # NoLink => key'[on'[u]] = Key(to'[u])
    BY <1>4, <1>5, <1>6, <1>8, <1>11 DEF KeyInv, Untouched
  <2>2. ASSUME NEW m \in Links, side'[m] \in {"held", "kept"}
        PROVE  \E t \in Targets :
                key'[m] = Key(t) /\ version'[m] \in Versions(t)
                    /\ tls'[m] = t.secure
    <3>1. CASE m = l
      BY <1>3, <1>6, <3>1
    <3>2. CASE m # l
      <4>1. side[m] \in {"held", "kept"}
        BY <1>9, <1>10, <2>2, <3>2 DEF Dropped
      <4>2. QED
        BY <1>8, <3>2, <4>1 DEF KeyInv
    <3>3. QED
      BY <3>1, <3>2
  <2>3. QED
    BY <2>1, <2>2 DEF KeyInv
<1>15. SideInv'
  BY <1>6, <1>9, <1>10 DEF SideInv, Stays, Dropped
<1>16. SaidInv'
  <2>1. ASSUME NEW m \in Links
        PROVE  SaidAt(m)'
    <3>1. CASE m \in Swept \cup {l}
      BY <1>7, <1>9, <3>1 DEF Dropped, SaidAt
    <3>2. CASE m \notin Swept \cup {l}
      BY <1>10, <3>2 DEF SaidInv, SaidAt, Stays
    <3>3. QED
      BY <3>1, <3>2
  <2>2. QED
    BY <2>1 DEF SaidInv
<1>17. CarryInv'
  <2>1. \A m \in Links : side'[m] = "kept" => Quiet(m)'
    BY <1>6, <1>9, <1>10 DEF CarryInv, Quiet, Stays, Dropped
  <2>2. Quiet(l)' /\ Unidle(l)'
    BY <1>7 DEF Quiet, Unidle
  <2>3. ASSUME NEW u \in Senders \ {s}, NEW m \in Links, on'[u] = m
        PROVE  /\ phase'[u] = "asking" => Quiet(m)'
               /\ phase'[u] = "awaiting" => Carries(m, <<u, asked[u]>>)'
               /\ Unidle(m)'
    <3>1. on[u] = m /\ m \notin Swept \cup {l}
      BY <1>5, <1>11, <2>3, LinkAssumption DEF Untouched
    <3>2. QED
      BY <1>5, <1>10, <3>1, OthersCarry DEF Untouched
  <2>4. QED
    BY <1>4, <2>1, <2>2, <2>3 DEF CarryInv
<1>18. AnswerIsOwn'
  BY <1>4 DEF AnswerIsOwn
<1>19. QED
  BY <1>12, <1>13, <1>14, <1>15, <1>16, <1>17, <1>18

\* Steps that leave to whom each link belongs alone.
LEMMA OwnersSame ==
  ASSUME Typing, HoldInv, KeyInv,
         UNCHANGED <<on, to, asked, side, key, tls, version>>,
         \/ UNCHANGED phase
         \/ \E s \in Senders : /\ phase[s] \in {"asking", "awaiting"}
                               /\ phase' = [phase EXCEPT ![s] = "awaiting"]
  PROVE  HoldInv' /\ KeyInv'
<1>1. KeyInv'
  BY DEF KeyInv
<1>2. \A s \in Senders :
          /\ on[s] # NoLink <=> phase'[s] \in {"asking", "awaiting"}
          /\ phase'[s] \in {"opening", "asking", "awaiting"} =>
                to[s] \in Targets /\ asked[s] \in 1..MaxAsks
  BY DEF HoldInv, Typing
<1>3. HoldInv'
  BY <1>2 DEF HoldInv
<1>4. QED
  BY <1>1, <1>3

\* Writing a request.
LEMMA AskInductive ==
  ASSUME IInv, NEW s \in Senders, Ask(s)
  PROVE  IInv'
<1> USE DEF IInv
<1> DEFINE l == on[s]
<1>1. /\ l \in Links /\ asked[s] \in 1..MaxAsks /\ side[l] = "held"
      /\ phase[s] = "asking"
  BY DEF Ask, Typing, HoldInv
<1>2. /\ phase' = [phase EXCEPT ![s] = "awaiting"]
      /\ UNCHANGED <<to, on, asked, got, side, key, tls, version, far, doing,
                     back>>
  BY DEF Ask, sideVars
<1>3. \A m \in Links \ {l} : coming'[m] = coming[m]
  BY <1>1 DEF Ask, Typing
<1>4. /\ coming'[l] \subseteq coming[l] \cup {<<s, asked[s]>>}
      /\ ~far[l] => coming'[l] = coming[l]
  BY <1>1 DEF Ask, Typing
<1>5. Typing'
  BY ExchangeTyped
<1>6. HoldInv' /\ KeyInv'
  BY <1>1, <1>2, OwnersSame
<1>7. SideInv'
  BY <1>1, <1>2, <1>3 DEF SideInv
<1>8. SaidInv'
  <2>1. \A m \in Links : ~far[m] /\ coming[m] = {} => coming'[m] = {}
    BY <1>3, <1>4
  <2>2. QED
    BY <1>2, <2>1 DEF SaidInv, SaidAt
<1>9. CarryInv'
  <2>1. \A m \in Links : side'[m] = "kept" => Quiet(m)'
    BY <1>1, <1>2, <1>3 DEF CarryInv, Quiet
  <2>2. Carries(l, <<s, asked[s]>>)' /\ Unidle(l)'
    <3>1. Quiet(l) /\ Unidle(l)
      BY <1>1 DEF CarryInv
    <3>2. coming'[l] \subseteq {<<s, asked[s]>>}
      BY <1>4, <3>1 DEF Quiet
    <3>3. QED
      BY <1>2, <3>1, <3>2 DEF Quiet, Carries, Unidle
  <2>3. ASSUME NEW u \in Senders \ {s}, NEW m \in Links, on'[u] = m
        PROVE  /\ phase'[u] = "asking" => Quiet(m)'
               /\ phase'[u] = "awaiting" => Carries(m, <<u, asked[u]>>)'
               /\ Unidle(m)'
    <3>1. on[u] = m /\ m # l
      BY <1>1, <1>2, <2>3, LinkAssumption DEF HoldInv
    <3>2. Stays(m) /\ phase'[u] = phase[u] /\ asked'[u] = asked[u]
      BY <1>2, <1>3, <3>1 DEF Stays, Typing
    <3>3. QED
      BY <3>1, <3>2, OthersCarry
  <2>4. QED
    BY <1>1, <1>2, <2>1, <2>2, <2>3 DEF CarryInv, Typing
<1>10. AnswerIsOwn'
  BY <1>2 DEF AnswerIsOwn
<1>11. QED
  BY <1>5, <1>6, <1>7, <1>8, <1>9, <1>10

----------------------------------------------------------------------------
\* What a link carries.

\* What a read takes off a link, and what a far end adds to it.
LEMMA ReadTells ==
  ASSUME Typing, NEW l \in Links, back[l] # <<>>,
         back' = [back EXCEPT ![l] = Tail(@)]
  PROVE  /\ 1 \in 1..Len(back[l]) /\ Head(back[l]) = back[l][1]
         /\ Len(back'[l]) = Len(back[l]) - 1
         /\ \A i \in 1..Len(back'[l]) :
                i + 1 \in 1..Len(back[l]) /\ back'[l][i] = back[l][i + 1]
         /\ \A m \in Links \ {l} : back'[m] = back[m]
<1>1. back[l] \in Seq(Messages) /\ back'[l] = Tail(back[l])
  BY DEF Typing
<1>2. Len(back[l]) \in Nat \ {0} /\ Head(back[l]) = back[l][1]
  BY <1>1, EmptySeq
<1>3. /\ Len(back'[l]) = Len(back[l]) - 1
      /\ \A i \in 1..Len(back'[l]) : back'[l][i] = back[l][i + 1]
  BY <1>1, HeadTailProperties
<1>4. \A m \in Links \ {l} : back'[m] = back[m]
  BY DEF Typing
<1>5. QED
  BY <1>2, <1>3, <1>4

\* A word said comes after those said before it on the link, on no other.
LEMMA SaysTells ==
  ASSUME Typing, NEW l \in Links, NEW m \in Messages,
         back' = [back EXCEPT ![l] = Append(@, m)]
  PROVE  /\ Len(back[l]) \in Nat /\ Len(back'[l]) = Len(back[l]) + 1
         /\ \A i \in 1..Len(back'[l]) :
                \/ i \in 1..Len(back[l]) /\ back'[l][i] = back[l][i]
                \/ i = Len(back'[l]) /\ back'[l][i] = m
         /\ \A k \in Links \ {l} : back'[k] = back[k]
<1>1. back[l] \in Seq(Messages) /\ back'[l] = Append(back[l], m)
  BY DEF Typing
<1>2. /\ Len(back'[l]) = Len(back[l]) + 1 /\ Len(back[l]) \in Nat
      /\ \A i \in 1..Len(back[l]) : back'[l][i] = back[l][i]
      /\ back'[l][Len(back[l]) + 1] = m
  BY <1>1, AppendProperties, LenProperties
<1>3. \A k \in Links \ {l} : back'[k] = back[k]
  BY DEF Typing
<1>4. QED
  BY <1>2, <1>3

\* A step on one link, which no thread takes up or leaves by it.
LEMMA OnLink ==
  ASSUME IInv, Typing', NEW l \in Links,
         UNCHANGED <<senderVars, side, key, tls, version>>,
         \A m \in Links \ {l} : Stays(m),
         /\ side[l] \notin {"held", "kept"} =>
                ~far'[l] /\ doing'[l] = {} /\ back'[l] = <<>>
         /\ side[l] = "unopened" => coming'[l] = {},
         SaidAt(l)', Quiet(l) => Quiet(l)',
         \A a \in Asks : Carries(l, a) => Carries(l, a)',
         side[l] = "held" /\ Unidle(l) => Unidle(l)'
  PROVE  IInv'
<1> USE DEF IInv
<1>1. UNCHANGED <<phase, to, on, fresh, asked, got>>
  BY DEF senderVars
<1>2. HoldInv' /\ KeyInv'
  BY <1>1, OwnersSame
<1>3. SideInv'
  BY DEF SideInv, Stays
<1>4. SaidInv'
  BY DEF SaidInv, SaidAt, Stays
<1>5. CarryInv'
  <2>1. \A m \in Links : side'[m] = "kept" => Quiet(m)'
    <3>1. SUFFICES ASSUME NEW m \in Links, m # l, side[m] = "kept"
                   PROVE  Quiet(m)'
      BY DEF CarryInv
    <3>2. QED
      BY <3>1 DEF CarryInv, Quiet, Stays
  <2>2. ASSUME NEW u \in Senders, NEW m \in Links, on'[u] = m
        PROVE  /\ phase'[u] = "asking" => Quiet(m)'
               /\ phase'[u] = "awaiting" => Carries(m, <<u, asked[u]>>)'
               /\ Unidle(m)'
    <3>1. CASE m = l
      <4>1. side[l] = "held" /\ Unidle(l)
        <5>1. on[u] = l /\ on[u] # NoLink
          BY <1>1, <2>2, <3>1
        <5>2. QED
          BY <5>1 DEF HoldInv, CarryInv
      <4>2. phase[u] = "asking" => Quiet(l)
        BY <1>1, <2>2, <3>1 DEF CarryInv
      <4>3. ASSUME phase[u] = "awaiting" PROVE Carries(l, <<u, asked[u]>>)'
        <5>1. Carries(l, <<u, asked[u]>>)
          BY <1>1, <2>2, <3>1, <4>3 DEF CarryInv
        <5>2. PICK a \in Asks : a = <<u, asked[u]>>
          BY <4>3 DEF HoldInv, Asks
        <5>3. Carries(l, a)'
          BY <5>1, <5>2
        <5>4. a = <<u, asked'[u]>>
          BY <1>1, <5>2
        <5>5. QED
          BY <5>3, <5>4 DEF Carries
      <4>4. QED
        BY <1>1, <3>1, <4>1, <4>2, <4>3
    <3>2. CASE m # l
      BY <1>1, <2>2, <3>2, OthersCarry
    <3>3. QED
      BY <3>1, <3>2
  <2>3. QED
    BY <2>1, <2>2 DEF CarryInv
<1>6. AnswerIsOwn'
  BY <1>1 DEF AnswerIsOwn
<1>7. QED
  BY <1>2, <1>3, <1>4, <1>5, <1>6

\* A GOAWAY is read on the way to the answer.
LEMMA ReadGoAwayInductive ==
  ASSUME IInv, NEW s \in Senders, ReadGoAway(s)
  PROVE  IInv'
<1> USE DEF IInv
<1>1. PICK l \in Links : l = on[s] /\ side[l] = "held" /\ back[l] # <<>>
  BY DEF ReadGoAway, Awaits, Typing, HoldInv
<1>2. /\ UNCHANGED <<senderVars, side, key, tls, version, far, coming, doing>>
      /\ back' = [back EXCEPT ![l] = Tail(@)]
  BY <1>1 DEF ReadGoAway
<1>3. /\ Len(back'[l]) = Len(back[l]) - 1
      /\ \A i \in 1..Len(back'[l]) :
                i + 1 \in 1..Len(back[l]) /\ back'[l][i] = back[l][i + 1]
      /\ \A m \in Links \ {l} : back'[m] = back[m]
  BY <1>1, <1>2, ReadTells
<1>4. Typing'
  BY ExchangeTyped
<1>5. Len(back[l]) \in Nat /\ Len(back'[l]) \in Nat
  BY <1>1, <1>4, LenProperties DEF Typing
<1>6. \A m \in Links \ {l} : Stays(m)
  BY <1>2, <1>3 DEF Stays
<1>7. SaidAt(l)'
  BY <1>1, <1>2, <1>3, <1>5 DEF SaidInv, SaidAt
<1>8. Quiet(l) => Quiet(l)'
  BY <1>2, <1>3 DEF Quiet
<1>9. \A a \in Asks : Carries(l, a) => Carries(l, a)'
  BY <1>2, <1>3, <1>5 DEF Carries
<1>10. Unidle(l) => Unidle(l)'
  BY <1>3 DEF Unidle
<1>11. QED
  BY <1>1, <1>2, <1>4, <1>6, <1>7, <1>8, <1>9, <1>10, OnLink

\* What a thread that awaits its answer reads, but for a GOAWAY: its answer
\* or, on HTTP/1.1, the end; and then its link is quiet.
LEMMA ReadIsOwn ==
  ASSUME IInv, NEW s \in Senders, NEW l \in Links, on[s] = l,
         phase[s] = "awaiting", back[l] # <<>>, back[l][1].kind # "goaway",
         1 \in 1..Len(back[l])
  PROVE  /\ Heard(s, back[l][1]) \in {"own", "late"}
         /\ coming[l] = {} /\ doing[l] = {}
         /\ \A i \in 2..Len(back[l]) : back[l][i].kind # "answer"
<1> USE DEF IInv
<1>1. Carries(l, <<s, asked[s]>>) /\ Unidle(l) /\ SaidAt(l)
  BY DEF CarryInv, SaidInv
<1>2. back[l] \in Seq(Messages) /\ Len(back[l]) \in Nat
  BY LenProperties DEF Typing
<1>3. back[l][1].kind \in {"answer", "late"}
  <2>1. back[l][1] \in Messages
    BY <1>2, ElementOfSeq
  <2>2. back[l][1].kind \in {"answer", "goaway", "idle", "late"}
    BY <2>1 DEF Messages
  <2>3. QED
    BY <1>1, <2>2 DEF Unidle
<1>4. CASE back[l][1].kind = "answer"
  <2>1. back[l][1].ask = <<s, asked[s]>> /\ coming[l] = {} /\ doing[l] = {}
    BY <1>1, <1>4 DEF Carries
  <2>2. \A i \in 2..Len(back[l]) : back[l][i].kind # "answer"
    BY <1>1, <1>2, <1>4 DEF Carries
  <2>3. Heard(s, back[l][1]) = "own"
    BY <1>4, <2>1 DEF Heard
  <2>4. QED
    BY <2>1, <2>2, <2>3
<1>5. CASE back[l][1].kind = "late"
  BY <1>1, <1>2, <1>5 DEF SaidAt, Heard
<1>6. QED
  BY <1>3, <1>4, <1>5

\* An answer, or the end, is told, and the connection put back or dropped.
LEMMA ToldInductive ==
  ASSUME IInv, NEW s \in Senders, Told(s)
  PROVE  IInv'
<1> USE DEF IInv
<1>1. PICK l \in Links : /\ l = on[s] /\ side[l] = "held" /\ back[l] # <<>>
                         /\ phase[s] = "awaiting"
  BY DEF Told, Awaits, Typing, HoldInv
<1>2. /\ Head(back[l]).kind # "goaway"
      /\ got' = [got EXCEPT ![s] = Heard(s, Head(back[l]))]
      /\ on' = [on EXCEPT ![s] = NoLink] /\ phase' = [phase EXCEPT ![s] = "told"]
      /\ UNCHANGED <<to, fresh, asked, key, tls, version, away, coming, acted>>
  BY <1>1 DEF Told
<1>3. 1 \in 1..Len(back[l]) /\ Head(back[l]) = back[l][1]
  BY <1>1, EmptySeq DEF Typing
<1>4. /\ Heard(s, back[l][1]) \in {"own", "late"}
      /\ coming[l] = {} /\ doing[l] = {}
      /\ \A i \in 2..Len(back[l]) : back[l][i].kind # "answer"
  BY <1>1, <1>2, <1>3, ReadIsOwn
<1>5. /\ on'[s] = NoLink /\ phase'[s] = "told"
      /\ got'[s] \in {"none", "own", "late"} /\ Untouched(s)
  BY <1>2, <1>3, <1>4 DEF Typing, Untouched
<1>6. Typing'
  BY ExchangeTyped
<1>7. CASE side' = Closed({l}) /\ far' = Reached({l}) /\ Forget({l})
  <2>1. /\ Dropped(l)
        /\ \A m \in Links \ {l} : Stays(m) /\ side'[m] = side[m]
    BY <1>1, <1>2, <1>7, DropsThem
  <2>2. /\ \A m \in {l} : Dropped(m) /\ (side[m] = "kept" \/ m = on[s])
        /\ on[s] \in {l} \cup {NoLink} /\ {l} \in SUBSET Links
    BY <1>1, <2>1
  <2>3. QED
    BY <1>2, <1>5, <1>6, <2>1, <2>2, LeaveInductive
<1>8. CASE /\ side' = [side EXCEPT ![l] = "kept"]
           /\ back' = [back EXCEPT ![l] = Tail(@)]
           /\ UNCHANGED <<goingAway, doing, far>>
  <2>1. /\ Len(back'[l]) = Len(back[l]) - 1
        /\ \A i \in 1..Len(back'[l]) :
                i + 1 \in 1..Len(back[l]) /\ back'[l][i] = back[l][i + 1]
        /\ \A m \in Links \ {l} : back'[m] = back[m]
    BY <1>1, <1>8, ReadTells
  <2>2. Len(back[l]) \in Nat /\ Len(back'[l]) \in Nat
    BY <1>6, LenProperties DEF Typing
  <2>3. /\ \A m \in Links \ {l} : Stays(m) /\ side'[m] = side[m]
        /\ side'[l] = "kept"
    BY <1>2, <1>8, <2>1 DEF Stays, Typing
  <2>4. \A i \in 1..Len(back'[l]) : back'[l][i].kind # "answer"
    <3>1. SUFFICES ASSUME NEW i \in 1..Len(back'[l])
                   PROVE  back'[l][i].kind # "answer"
      OBVIOUS
    <3>2. i + 1 \in 2..Len(back[l])
      BY <2>1, <2>2
    <3>3. QED
      BY <1>4, <2>1, <3>2
  <2>5. \A u \in Senders \ {s} : on[u] # NoLink => on[u] \in Links \ {l}
    BY <1>1 DEF HoldInv, Typing
  <2>6. HoldInv'
    <3>1. \A u \in Senders :
          /\ on'[u] # NoLink <=> phase'[u] \in {"asking", "awaiting"}
          /\ on'[u] # NoLink => side'[on'[u]] = "held"
          /\ phase'[u] \in {"opening", "asking", "awaiting"} =>
                to'[u] \in Targets /\ asked'[u] \in 1..MaxAsks
      BY <1>5, <2>3, <2>5 DEF HoldInv, Untouched
    <3>2. \A u, w \in Senders : on'[u] = on'[w] => on'[u] = NoLink \/ u = w
      BY <1>5 DEF HoldInv, Untouched
    <3>3. ASSUME NEW m \in Links, side'[m] = "held"
          PROVE  \E u \in Senders : on'[u] = m
      <4>1. m # l /\ side[m] = "held"
        BY <2>3, <3>3
      <4>2. PICK u \in Senders : on[u] = m
        BY <4>1 DEF HoldInv
      <4>3. on'[u] = m
        BY <1>1, <1>5, <4>1, <4>2 DEF Untouched
      <4>4. QED
        BY <4>3
    <3>4. QED
      BY <3>1, <3>2, <3>3 DEF HoldInv
  <2>7. KeyInv'
    <3>1. \A u \in Senders : on'[u] # NoLink => key'[on'[u]] = Key(to'[u])
      BY <1>2, <1>5 DEF KeyInv, Untouched
    <3>2. \A m \in Links : side'[m] \in {"held", "kept"} =>
                              side[m] \in {"held", "kept"}
      BY <1>1, <2>3
    <3>3. QED
      BY <1>2, <3>1, <3>2 DEF KeyInv
  <2>8. SideInv'
    BY <1>1, <1>2, <1>8, <2>3 DEF SideInv, Stays
  <2>9. SaidInv'
    <3>1. SaidAt(l)'
      BY <1>2, <1>8, <2>1, <2>2 DEF SaidInv, SaidAt
    <3>2. QED
      BY <2>3, <3>1 DEF SaidInv, SaidAt, Stays
  <2>10. CarryInv'
    <3>1. ASSUME NEW m \in Links, side'[m] = "kept" PROVE Quiet(m)'
      <4>1. CASE m = l
        BY <1>2, <1>4, <1>8, <2>4, <4>1 DEF Quiet
      <4>2. CASE m # l
        BY <2>3, <3>1, <4>2 DEF CarryInv, Quiet, Stays
      <4>3. QED
        BY <4>1, <4>2
    <3>2. ASSUME NEW u \in Senders, NEW m \in Links, on'[u] = m
          PROVE  /\ phase'[u] = "asking" => Quiet(m)'
                 /\ phase'[u] = "awaiting" => Carries(m, <<u, asked[u]>>)'
                 /\ Unidle(m)'
      <4>1. u # s /\ on[u] = m /\ m \in Links \ {l}
        BY <1>5, <2>5, <3>2, LinkAssumption DEF Untouched
      <4>2. QED
        BY <1>5, <2>3, <4>1, OthersCarry DEF Untouched
    <3>3. QED
      BY <3>1, <3>2 DEF CarryInv
  <2>11. AnswerIsOwn'
    BY <1>5 DEF AnswerIsOwn, Untouched
  <2>12. QED
    BY <1>6, <2>6, <2>7, <2>8, <2>9, <2>10, <2>11
<1>9. QED
  BY <1>1, <1>7, <1>8 DEF Told

\* The far end's steps.
LEMMA FarEndInductive ==
  ASSUME IInv, NEW l \in Links, FarEnd(l)
  PROVE  IInv'
<1> USE DEF IInv
<1>1. Typing'
  BY FarEndTyped
<1>2. UNCHANGED <<senderVars, side, key, tls, version>>
  BY DEF FarEnd, Act, Answer, GoAway, SpeakUnasked, Close, sideVars
<1>3. SaidAt(l) /\ (far[l] => side[l] \in {"held", "kept"})
  BY DEF SaidInv, SideInv
<1>4. back[l] \in Seq(Messages) /\ Len(back[l]) \in Nat
  BY LenProperties DEF Typing
<1>5. CASE Act(l)
  <2>1. PICK a \in coming[l] :
          /\ coming' = [coming EXCEPT ![l] = @ \ {a}]
          /\ doing' = IF far[l] THEN [doing EXCEPT ![l] = @ \cup {a}] ELSE doing
    BY <1>5 DEF Act
  <2>2. /\ coming'[l] = coming[l] \ {a}
        /\ doing'[l] = IF far[l] THEN doing[l] \cup {a} ELSE doing[l]
        /\ far' = far /\ back' = back
    BY <1>5, <2>1 DEF Act, Typing
  <2>3. \A m \in Links \ {l} : Stays(m)
    BY <1>2, <2>1, <2>2 DEF Stays, Typing
  <2>4. SaidAt(l)'
    BY <1>2, <1>3, <2>2 DEF SaidAt
  <2>5. /\ ~Quiet(l)
        /\ \A b \in Asks : Carries(l, b) => Carries(l, b)'
        /\ Unidle(l) => Unidle(l)'
    BY <2>2 DEF Quiet, Carries, Unidle
  <2>6. /\ side[l] \notin {"held", "kept"} =>
              ~far'[l] /\ doing'[l] = {} /\ back'[l] = <<>>
        /\ side[l] = "unopened" => coming'[l] = {}
    BY <1>3, <2>2 DEF SideInv
  <2>7. QED
    BY <1>1, <1>2, <2>3, <2>4, <2>5, <2>6, OnLink
<1>6. CASE Answer(l)
  <2>1. PICK a \in doing[l], keep \in BOOLEAN :
          /\ doing' = [doing EXCEPT ![l] = @ \ {a}]
          /\ back' = [back EXCEPT ![l] =
                Append(@, [kind |-> "answer", ask |-> a, keep |-> keep])]
          /\ far' = [far EXCEPT ![l] = keep]
    BY <1>6 DEF Answer
  <2> DEFINE said == [kind |-> "answer", ask |-> a, keep |-> keep]
  <2>2. said \in Messages /\ said.kind = "answer" /\ said.ask = a
    BY DEF Typing, Messages
  <2>3. /\ Len(back'[l]) = Len(back[l]) + 1
        /\ \A i \in 1..Len(back'[l]) :
                \/ i \in 1..Len(back[l]) /\ back'[l][i] = back[l][i]
                \/ i = Len(back'[l]) /\ back'[l][i] = said
        /\ \A k \in Links \ {l} : back'[k] = back[k]
    BY <2>1, <2>2, SaysTells
  <2>4. /\ doing'[l] = doing[l] \ {a} /\ coming' = coming
        /\ far[l] /\ side[l] \in {"held", "kept"}
    BY <1>3, <1>6, <2>1 DEF Answer, Typing
  <2>5. \A m \in Links \ {l} : Stays(m)
    BY <1>2, <2>1, <2>3, <2>4 DEF Stays, Typing
  <2> HIDE DEF said
  <2>6. SaidAt(l)'
    <3>1. \A i \in 1..Len(back[l]) : back[l][i].kind \notin {"idle", "late"}
      BY <1>3, <2>4 DEF SaidAt
    <3>2. QED
      BY <1>2, <1>3, <2>2, <2>3, <3>1 DEF SaidAt
  <2>7. ~Quiet(l)
    BY DEF Quiet
  <2>8. ASSUME NEW b \in Asks, Carries(l, b)
        PROVE  Carries(l, b)'
    <3>1. /\ a = b /\ coming[l] = {} /\ doing'[l] = {}
          /\ \A i \in 1..Len(back[l]) : back[l][i].kind # "answer"
      BY <2>4, <2>8 DEF Carries
    <3>2. \A i \in 1..Len(back'[l]) : back'[l][i].kind = "answer" =>
              i = Len(back'[l]) /\ back'[l][i].ask = b
      BY <2>2, <2>3, <3>1
    <3>3. QED
      BY <2>4, <3>1, <3>2 DEF Carries
  <2>9. Unidle(l) => Unidle(l)'
    BY <2>2, <2>3 DEF Unidle
  <2>10. QED
    BY <1>1, <1>2, <2>4, <2>5, <2>6, <2>7, <2>8, <2>9, OnLink
<1>7. CASE GoAway(l)
  <2> DEFINE said == [kind |-> "goaway"]
  <2>1. said \in Messages /\ said.kind = "goaway"
    BY DEF Messages
  <2>2. /\ Len(back'[l]) = Len(back[l]) + 1
        /\ \A i \in 1..Len(back'[l]) :
                \/ i \in 1..Len(back[l]) /\ back'[l][i] = back[l][i]
                \/ i = Len(back'[l]) /\ back'[l][i] = said
        /\ \A k \in Links \ {l} : back'[k] = back[k]
    <3>1. back' = [back EXCEPT ![l] = Append(@, said)]
      BY <1>7 DEF GoAway
    <3>2. said \in Messages /\ Typing
      BY <2>1 DEF IInv
    <3> HIDE DEF said
    <3>3. QED
      BY <3>1, <3>2, SaysTells, Zenon
  <2>3. /\ far[l] /\ version[l] = 2 /\ far' = far /\ coming' = coming
        /\ doing' = doing /\ side[l] \in {"held", "kept"}
    BY <1>3, <1>7 DEF GoAway
  <2> HIDE DEF said
  <2>4. \A m \in Links \ {l} : Stays(m)
    BY <1>2, <2>2, <2>3 DEF Stays
  <2>5. SaidAt(l)'
    <3>1. \A i \in 1..Len(back[l]) : back[l][i].kind \notin {"idle", "late"}
      BY <1>3, <2>3 DEF SaidAt
    <3>2. QED
      BY <1>2, <2>1, <2>2, <2>3, <3>1 DEF SaidAt
  <2>6. Quiet(l) => Quiet(l)'
    BY <2>1, <2>2, <2>3 DEF Quiet
  <2>7. ASSUME NEW b \in Asks, Carries(l, b)
        PROVE  Carries(l, b)'
    <3>1. /\ coming'[l] \subseteq coming[l] /\ doing'[l] = doing[l]
          /\ coming'[l] \subseteq {b} /\ doing'[l] \subseteq {b}
          /\ coming'[l] = {} \/ doing'[l] = {}
      BY <2>3, <2>7 DEF Carries
    <3>2. ASSUME NEW i \in 1..Len(back'[l]), back'[l][i].kind = "answer"
          PROVE  i \in 1..Len(back[l]) /\ back'[l][i] = back[l][i]
      BY <2>1, <2>2, <3>2
    <3>3. \A i \in 1..Len(back'[l]) : back'[l][i].kind = "answer" =>
            /\ back'[l][i].ask = b /\ coming'[l] = {} /\ doing'[l] = {}
            /\ \A j \in 1..Len(back'[l]) : back'[l][j].kind = "answer" => i = j
      BY <2>7, <3>1, <3>2 DEF Carries
    <3>4. QED
      BY <3>1, <3>3 DEF Carries
  <2>8. Unidle(l) => Unidle(l)'
    BY <2>1, <2>2 DEF Unidle
  <2>9. QED
    BY <1>1, <1>2, <2>3, <2>4, <2>5, <2>6, <2>7, <2>8, OnLink
<1>8. CASE SpeakUnasked(l)
  <2> DEFINE said == [kind |-> IF side[l] = "kept" THEN "idle" ELSE "late"]
  <2>1. /\ said \in Messages /\ said.kind \in {"idle", "late"}
        /\ side[l] = "held" => said.kind = "late"
    BY DEF Messages
  <2>2. /\ Len(back'[l]) = Len(back[l]) + 1
        /\ \A i \in 1..Len(back'[l]) :
                \/ i \in 1..Len(back[l]) /\ back'[l][i] = back[l][i]
                \/ i = Len(back'[l]) /\ back'[l][i] = said
        /\ \A k \in Links \ {l} : back'[k] = back[k]
    <3>1. back' = [back EXCEPT ![l] = Append(@, said)]
      BY <1>8 DEF SpeakUnasked
    <3>2. said \in Messages /\ Typing
      BY <2>1 DEF IInv
    <3> HIDE DEF said
    <3>3. QED
      BY <3>1, <3>2, SaysTells, Zenon
  <2>3. /\ far[l] /\ version[l] = 1 /\ doing[l] = {} /\ ~far'[l]
        /\ coming'[l] = {} /\ doing' = doing /\ side[l] \in {"held", "kept"}
    BY <1>3, <1>8 DEF SpeakUnasked, Typing
  <2>4. \A m \in Links \ {l} : Stays(m)
    BY <1>2, <1>8, <2>2 DEF Stays, SpeakUnasked, Typing
  <2> HIDE DEF said
  <2>5. SaidAt(l)'
    <3>1. \A i \in 1..Len(back[l]) :
              back[l][i].kind \notin {"idle", "late", "goaway"}
      BY <1>3, <2>3 DEF SaidAt
    <3>2. QED
      BY <1>2, <2>1, <2>2, <2>3, <3>1 DEF SaidAt
  <2>6. Quiet(l) => Quiet(l)'
    BY <2>1, <2>2, <2>3 DEF Quiet
  <2>7. ASSUME NEW b \in Asks, Carries(l, b)
        PROVE  Carries(l, b)'
    <3>1. /\ coming'[l] \subseteq coming[l] /\ doing'[l] = doing[l]
          /\ coming'[l] \subseteq {b} /\ doing'[l] \subseteq {b}
          /\ coming'[l] = {} \/ doing'[l] = {}
      BY <2>3, <2>7 DEF Carries
    <3>2. ASSUME NEW i \in 1..Len(back'[l]), back'[l][i].kind = "answer"
          PROVE  i \in 1..Len(back[l]) /\ back'[l][i] = back[l][i]
      BY <2>1, <2>2, <3>2
    <3>3. \A i \in 1..Len(back'[l]) : back'[l][i].kind = "answer" =>
            /\ back'[l][i].ask = b /\ coming'[l] = {} /\ doing'[l] = {}
            /\ \A j \in 1..Len(back'[l]) : back'[l][j].kind = "answer" => i = j
      BY <2>7, <3>1, <3>2 DEF Carries
    <3>4. QED
      BY <3>1, <3>3 DEF Carries
  <2>8. side[l] = "held" /\ Unidle(l) => Unidle(l)'
    BY <2>1, <2>2 DEF Unidle
  <2>9. QED
    BY <1>1, <1>2, <2>3, <2>4, <2>5, <2>6, <2>7, <2>8, OnLink
<1>9. CASE Close(l)
  <2>1. /\ ~far'[l] /\ coming'[l] = {} /\ doing'[l] = {}
        /\ back'[l] = back[l] \/ back'[l] = <<>>
    BY <1>9 DEF Close, Typing
  <2>2. \A m \in Links \ {l} : Stays(m)
    BY <1>2, <1>9 DEF Stays, Close, Typing
  <2>3. SaidAt(l)'
    BY <1>2, <1>3, <2>1 DEF SaidAt
  <2>4. /\ Quiet(l) => Quiet(l)'
        /\ \A b \in Asks : Carries(l, b) => Carries(l, b)'
        /\ Unidle(l) => Unidle(l)'
    BY <2>1 DEF Quiet, Carries, Unidle
  <2>5. side[l] \notin {"held", "kept"} => back'[l] = <<>>
    BY <2>1 DEF SideInv
  <2>6. QED
    BY <1>1, <1>2, <2>1, <2>2, <2>3, <2>4, <2>5, OnLink
<1>10. QED
  BY <1>5, <1>6, <1>7, <1>8, <1>9 DEF FarEnd

----------------------------------------------------------------------------
\* The theorems.

\* Every step of Connections keeps its inductive invariant.
THEOREM Inductive == IInv /\ [Next]_vars => IInv'
<1> SUFFICES ASSUME IInv, [Next]_vars PROVE IInv'
  OBVIOUS
<1>1. ASSUME NEW s \in Senders, NEW t \in Targets, Take(s, t) \/ TakeNone(s, t)
      PROVE  IInv'
  BY <1>1, TakeInductive, NoneInductive
<1>2. ASSUME NEW s \in Senders, Exchanges(s)
      PROVE  IInv'
  BY <1>2, OpenInductive, NoneInductive, AskInductive, ReadGoAwayInductive,
     ToldInductive, FailsInductive DEF Exchanges
<1>3. ASSUME NEW l \in Links, FarEnd(l)
      PROVE  IInv'
  BY <1>3, FarEndInductive
<1>4. CASE UNCHANGED vars
  <2>1. /\ UNCHANGED <<phase, to, on, fresh, asked, got>>
        /\ UNCHANGED <<side, key, tls, version, open, goingAway>>
        /\ UNCHANGED <<far, away, coming, doing, back, acted>>
    BY <1>4 DEF vars, senderVars, sideVars, farVars
  <2>2. Typing' /\ AnswerIsOwn'
    BY <2>1 DEF IInv, Typing, AnswerIsOwn
  <2>3. HoldInv' /\ KeyInv'
    BY <2>1, OwnersSame DEF IInv
  <2>4. SideInv' /\ SaidInv'
    BY <2>1 DEF IInv, SideInv, SaidInv, SaidAt
  <2>5. CarryInv'
    <3>1. \A l \in Links : Quiet(l)' = Quiet(l) /\ Unidle(l)' = Unidle(l)
      BY <2>1 DEF Quiet, Unidle
    <3>2. \A l \in Links, s \in Senders :
            Carries(l, <<s, asked[s]>>)' = Carries(l, <<s, asked[s]>>)
      BY <2>1 DEF Carries
    <3>3. QED
      BY <2>1, <3>1, <3>2 DEF IInv, CarryInv
  <2>6. QED
    BY <2>2, <2>3, <2>4, <2>5 DEF IInv
<1>5. QED
  BY <1>1, <1>2, <1>3, <1>4 DEF Next

\* It holds of every behavior.
THEOREM Invariant == SafeSpec => []IInv
BY InitInductive, Inductive, PTL DEF SafeSpec

\* A thread is told nobody else's answer and nothing said while its
\* connection was idle, however exchanges fail, are sent again and overlap
\* (Connections::exchange, exchange_on).
THEOREM TellsItsOwn == SafeSpec => []AnswerIsOwn
BY Invariant, PTL DEF IInv

\* What is kept and would be taken again carries nothing of an earlier
\* exchange (Kept::usable).
THEOREM CarriesNothing == SafeSpec => []NothingPending
<1>1. IInv => NothingPending
  <2> SUFFICES ASSUME IInv, NEW l \in Links, side[l] = "kept", Usable(l)
               PROVE  /\ coming[l] = {} /\ doing[l] = {}
                      /\ \A i \in 1..Len(back[l]) : back[l][i].kind = "goaway"
    BY DEF NothingPending
  <2>1. Quiet(l) /\ SaidAt(l)
    BY DEF IInv, CarryInv, SaidInv
  <2>2. back[l] \in Seq(Messages) /\ version[l] \in {1, 2}
    BY DEF IInv, Typing
  <2>3. \A i \in 1..Len(back[l]) :
            back[l][i].kind \in {"answer", "goaway", "idle", "late"}
    BY <2>2, ElementOfSeq DEF Messages
  <2>4. QED
    BY <2>1, <2>2, <2>3 DEF Quiet, SaidAt, Usable, Fit
<1>2. QED
  BY <1>1, Invariant, PTL

\* A request goes on a connection that speaks a version it offered, whoever
\* opened it and for whichever target (Connections::exchange's key).
THEOREM SpeaksWhatIsOffered == SafeSpec => []VersionOffered
<1>1. IInv => VersionOffered
  <2> SUFFICES ASSUME IInv, NEW s \in Senders, on[s] # NoLink
               PROVE  version[on[s]] \in Versions(to[s])
    BY DEF VersionOffered
  <2>1. /\ on[s] \in Links /\ to[s] \in Targets /\ side[on[s]] = "held"
        /\ key[on[s]] = Key(to[s])
    BY DEF IInv, Typing, HoldInv, KeyInv
  <2>2. PICK t \in Targets : key[on[s]] = Key(t) /\ version[on[s]] \in Versions(t)
    BY <2>1 DEF IInv, KeyInv
  <2>3. QED
    BY <2>1, <2>2, KeyTells
<1>2. QED
  BY <1>1, Invariant, PTL

\* What is posted to https:// goes guarded or not at all, and what is posted
\* to http:// goes on no guarded connection, though both name one address.
THEOREM NotInTheClear == SafeSpec => []NeverInTheClear
<1>1. IInv => NeverInTheClear
  <2> SUFFICES ASSUME IInv, NEW s \in Senders, on[s] # NoLink
               PROVE  tls[on[s]] = to[s].secure
    BY DEF NeverInTheClear
  <2>1. /\ on[s] \in Links /\ to[s] \in Targets /\ side[on[s]] = "held"
        /\ key[on[s]] = Key(to[s])
    BY DEF IInv, Typing, HoldInv, KeyInv
  <2>2. PICK t \in Targets : key[on[s]] = Key(t) /\ tls[on[s]] = t.secure
    BY <2>1 DEF IInv, KeyInv
  <2>3. QED
    BY <2>1, <2>2, KeyTells
<1>2. QED
  BY <1>1, Invariant, PTL

----------------------------------------------------------------------------
\* What is being answered, or was, was acted on.
ActedInv ==
    \A l \in Links :
        /\ \A a \in doing[l] : acted[a[1]][a[2]] > 0
        /\ \A i \in 1..Len(back[l]) : back[l][i].kind = "answer" =>
                acted[back[l][i].ask[1]][back[l][i].ask[2]] > 0

\* Where a request of a thread is on its way to a far end.
Copies(s, n) == {l \in Links : <<s, n>> \in coming[l]}

\* How often a thread may yet write its request: on the connection it took,
\* and once more on one it opens.
Left(s) ==
    CASE phase[s] = "opening" -> 1
      [] phase[s] = "asking" -> IF fresh[s] THEN 1 ELSE 2
      [] phase[s] = "awaiting" -> IF fresh[s] THEN 0 ELSE 1
      [] phase[s] \in {"idle", "told", "failed"} -> 0

LeftOf(s, n) == IF n = asked[s] THEN Left(s) ELSE 0

\* A request is acted on, on its way and yet to be written at most twice.
Budget(s, n) ==
    /\ IsFiniteSet(Copies(s, n))
    /\ acted[s][n] + Cardinality(Copies(s, n)) + LeftOf(s, n) <= 2
    /\ n > asked[s] => acted[s][n] = 0 /\ Copies(s, n) = {}

TwiceInv == \A s \in Senders : \A n \in 1..MaxAsks : Budget(s, n)

\* The connections to an endpoint, and who opens another.
To(k) == {l \in Links : side[l] \in {"held", "kept"} /\ key[l] = k}
Opening(k) == {s \in Senders : phase[s] = "opening" /\ Key(to[s]) = k}

\* The threads that posted something: none else has a connection.
Posting == {s \in Senders : asked[s] > 0}

BoundAt(k) ==
    /\ IsFiniteSet(To(k))
    /\ Cardinality(To(k)) + Cardinality(Opening(k)) <= Cardinality(Posting)

BoundInv == \A k \in Keys : BoundAt(k)

----------------------------------------------------------------------------
\* What is answered was acted on.

\* A thread's step acts on nothing, and only takes off what is on a link.
LEMMA ThreadsTake ==
  ASSUME Typing, HoldInv, NEW s \in Senders,
         Exchanges(s) \/ \E t \in Targets : Take(s, t) \/ TakeNone(s, t)
  PROVE  /\ acted' = acted
         /\ \A l \in Links :
                /\ doing'[l] \subseteq doing[l]
                /\ \/ back'[l] \in {back[l], <<>>}
                   \/ back[l] # <<>> /\ back'[l] = Tail(back[l])
<1>1. acted' = acted
  BY DEF Exchanges, Take, TakeNone, Open, OpenFails, Ask, ReadGoAway, Told, Fails
<1>2. ASSUME NEW S \in SUBSET Links, Forget(S)
      PROVE  \A l \in Links : /\ doing'[l] \subseteq doing[l]
                              /\ back'[l] \in {back[l], <<>>}
  BY <1>2 DEF Forget
<1>3. CASE \E t \in Targets : Take(s, t) \/ TakeNone(s, t)
  <2>1. PICK S \in SUBSET Links : Forget(S)
    BY <1>3 DEF Take, TakeNone, KeptTo, Dead
  <2>2. QED
    BY <1>1, <1>2, <2>1
<1>4. CASE Open(s) \/ OpenFails(s)
  <2>1. Forget(Swept) /\ Swept \in SUBSET Links
    BY <1>4 DEF Open, OpenFails, Swept, Dead
  <2>2. QED
    BY <1>1, <1>2, <2>1
<1>5. CASE Ask(s)
  BY <1>1, <1>5 DEF Ask
<1>6. CASE ReadGoAway(s) \/ Told(s)
  <2>1. on[s] \in Links /\ back[on[s]] # <<>>
    BY <1>6 DEF ReadGoAway, Told, Awaits, HoldInv, Typing
  <2>2. CASE Forget({on[s]})
    BY <1>1, <1>2, <2>1, <2>2
  <2>3. CASE back' = [back EXCEPT ![on[s]] = Tail(@)] /\ doing' = doing
    BY <1>1, <2>1, <2>3 DEF Typing
  <2>4. QED
    BY <1>6, <2>2, <2>3 DEF ReadGoAway, Told
<1>7. CASE Fails(s)
  <2>1. on[s] \in Links /\ Forget({on[s]})
    BY <1>7 DEF Fails, Broken, HoldInv, Typing
  <2>2. QED
    BY <1>1, <1>2, <2>1
<1>8. QED
  BY <1>3, <1>4, <1>5, <1>6, <1>7 DEF Exchanges

\* No thread's step adds an answer to a link or takes an action back.
LEMMA ThreadsActed ==
  ASSUME IInv, ActedInv, NEW s \in Senders,
         Exchanges(s) \/ \E t \in Targets : Take(s, t) \/ TakeNone(s, t)
  PROVE  ActedInv'
<1>1. acted' = acted /\ \A l \in Links : doing'[l] \subseteq doing[l]
  BY ThreadsTake DEF IInv
<1>2. ASSUME NEW l \in Links, NEW i \in 1..Len(back'[l]),
             back'[l][i].kind = "answer"
      PROVE  acted'[back'[l][i].ask[1]][back'[l][i].ask[2]] > 0
  <2>1. back[l] \in Seq(Messages)
    BY DEF IInv, Typing
  <2>2. CASE back'[l] = back[l]
    BY <1>1, <1>2, <2>2 DEF ActedInv
  <2>3. CASE back'[l] = <<>>
    BY <1>2, <2>3
  <2>4. CASE back[l] # <<>> /\ back'[l] = Tail(back[l])
    <3>1. i + 1 \in 1..Len(back[l]) /\ back'[l][i] = back[l][i + 1]
      BY <2>1, <2>4, HeadTailProperties, LenProperties
    <3>2. QED
      BY <1>1, <1>2, <3>1 DEF ActedInv
  <2>5. QED
    BY <2>2, <2>3, <2>4, ThreadsTake DEF IInv
<1>3. QED
  BY <1>1, <1>2 DEF ActedInv

\* A far end that acts on a request once more.
Acts(a) == acted' = [acted EXCEPT ![a[1]][a[2]] = @ + 1]

\* One request is acted on once more, and no other.
LEMMA ActsTells ==
  ASSUME Typing, NEW a \in Asks, Acts(a)
  PROVE  /\ acted'[a[1]][a[2]] = acted[a[1]][a[2]] + 1
         /\ acted[a[1]][a[2]] \in Nat
         /\ \A s \in Senders : \A n \in 1..MaxAsks :
                <<s, n>> # a => acted'[s][n] = acted[s][n]
<1>1. PICK s \in Senders, n \in 1..MaxAsks : a = <<s, n>>
  BY DEF Asks
<1>2. acted' = [acted EXCEPT ![s] = [acted[s] EXCEPT ![n] = @ + 1]]
  BY <1>1 DEF Acts
<1>3. /\ acted'[s] = [acted[s] EXCEPT ![n] = @ + 1]
      /\ \A u \in Senders \ {s} : acted'[u] = acted[u]
      /\ acted[s] \in [1..MaxAsks -> Nat]
  BY <1>2 DEF Typing
<1>4. /\ acted'[s][n] = acted[s][n] + 1 /\ acted[s][n] \in Nat
      /\ \A k \in 1..MaxAsks : k # n => acted'[s][k] = acted[s][k]
  BY <1>3
<1>5. QED
  BY <1>1, <1>3, <1>4

\* What was acted on stays so.
LEMMA ActsGrow ==
  ASSUME Typing, acted' = acted \/ \E a \in Asks : Acts(a)
  PROVE  \A a \in Asks : acted[a[1]][a[2]] > 0 => acted'[a[1]][a[2]] > 0
<1>1. CASE acted' = acted
  BY <1>1
<1>2. ASSUME NEW b \in Asks, Acts(b), NEW a \in Asks, acted[a[1]][a[2]] > 0
      PROVE  acted'[a[1]][a[2]] > 0
  <2>1. CASE a = b
    BY <1>2, <2>1, ActsTells
  <2>2. CASE a # b
    BY <1>2, <2>2, ActsTells DEF Asks
  <2>3. QED
    BY <2>1, <2>2
<1>3. QED
  BY <1>1, <1>2

\* A far end answers only what it acted on.
LEMMA FarEndActed ==
  ASSUME IInv, ActedInv, NEW l \in Links, FarEnd(l)
  PROVE  ActedInv'
<1>1. /\ Typing /\ doing \in [Links -> SUBSET Asks]
      /\ back \in [Links -> Seq(Messages)]
  BY DEF IInv, Typing
<1>2. acted' = acted \/ \E a \in Asks : Acts(a)
  BY <1>1 DEF FarEnd, Act, Answer, GoAway, SpeakUnasked, Close, Acts, Typing
<1>3. \A m \in Links, a \in Asks : a \in doing[m] => acted'[a[1]][a[2]] > 0
  BY <1>1, <1>2, ActsGrow DEF ActedInv
<1>4. \A m \in Links : \A i \in 1..Len(back[m]) : back[m][i].kind = "answer" =>
            acted'[back[m][i].ask[1]][back[m][i].ask[2]] > 0
  <2>1. \A m \in Links : \A i \in 1..Len(back[m]) :
            back[m][i].kind = "answer" => back[m][i].ask \in Asks
    BY <1>1, ElementOfSeq DEF Messages
  <2>2. QED
    BY <1>1, <1>2, <2>1, ActsGrow DEF ActedInv
<1>5. CASE Act(l)
  <2>1. PICK a \in Asks :
          /\ Acts(a) /\ back' = back
          /\ doing' = IF far[l] THEN [doing EXCEPT ![l] = @ \cup {a}] ELSE doing
    BY <1>5 DEF Act, Acts, IInv, Typing
  <2>2. acted'[a[1]][a[2]] > 0
    <3>1. /\ acted'[a[1]][a[2]] = acted[a[1]][a[2]] + 1
          /\ acted[a[1]][a[2]] \in Nat
      BY <1>1, <2>1, ActsTells, Zenon
    <3>2. QED
      BY <3>1
  <2>3. \A m \in Links : doing'[m] \subseteq doing[m] \cup {a}
    BY <1>1, <2>1
  <2>4. QED
    BY <1>1, <1>3, <1>4, <2>1, <2>2, <2>3 DEF ActedInv
<1>6. CASE Answer(l) \/ GoAway(l) \/ SpeakUnasked(l)
  <2>1. \A m \in Links : doing'[m] \subseteq doing[m]
    <3>1. CASE doing' = doing
      BY <3>1
    <3>2. CASE Answer(l)
      <4>1. PICK a \in doing[l] : doing' = [doing EXCEPT ![l] = @ \ {a}]
        BY <3>2 DEF Answer
      <4>2. QED
        BY <1>1, <4>1
    <3>3. GoAway(l) \/ SpeakUnasked(l) => doing' = doing
      BY DEF GoAway, SpeakUnasked
    <3>4. QED
      BY <1>6, <3>1, <3>2, <3>3
  <2>2. PICK m \in Messages :
          /\ back' = [back EXCEPT ![l] = Append(@, m)]
          /\ m.kind = "answer" => m.ask \in doing[l]
    <3>1. CASE Answer(l)
      <4>1. PICK a \in doing[l], keep \in BOOLEAN :
              back' = [back EXCEPT ![l] =
                Append(@, [kind |-> "answer", ask |-> a, keep |-> keep])]
        BY <3>1 DEF Answer
      <4>2. [kind |-> "answer", ask |-> a, keep |-> keep] \in Messages
        BY <1>1 DEF Messages
      <4>3. QED
        BY <4>1, <4>2
    <3>2. CASE GoAway(l)
      <4>1. [kind |-> "goaway"] \in Messages
        BY DEF Messages
      <4>2. QED
        BY <3>2, <4>1 DEF GoAway
    <3>3. CASE SpeakUnasked(l)
      <4>1. [kind |-> "idle"] \in Messages /\ [kind |-> "late"] \in Messages
        BY DEF Messages
      <4>2. QED
        BY <3>3, <4>1 DEF SpeakUnasked
    <3>4. QED
      BY <1>6, <3>1, <3>2, <3>3
  <2>3. /\ \A i \in 1..Len(back'[l]) :
                \/ i \in 1..Len(back[l]) /\ back'[l][i] = back[l][i]
                \/ back'[l][i] = m
        /\ \A k \in Links \ {l} : back'[k] = back[k]
    BY <1>1, <2>2, SaysTells
  <2>4. m.kind = "answer" => acted'[m.ask[1]][m.ask[2]] > 0
    BY <1>1, <1>3, <2>2
  <2>5. \A k \in Links : \A a \in doing'[k] : acted'[a[1]][a[2]] > 0
    BY <1>1, <1>3, <2>1
  <2>6. \A i \in 1..Len(back'[l]) : back'[l][i].kind = "answer" =>
            acted'[back'[l][i].ask[1]][back'[l][i].ask[2]] > 0
    BY <1>4, <2>3, <2>4
  <2>7. \A k \in Links \ {l} :
            \A i \in 1..Len(back'[k]) : back'[k][i].kind = "answer" =>
                acted'[back'[k][i].ask[1]][back'[k][i].ask[2]] > 0
    BY <1>4, <2>3
  <2>8. QED
    BY <2>5, <2>6, <2>7 DEF ActedInv
<1>7. CASE Close(l)
  <2>1. /\ doing' = [doing EXCEPT ![l] = {}]
        /\ back' = back \/ back' = [back EXCEPT ![l] = <<>>]
    BY <1>7 DEF Close
  <2>2. \A k \in Links : doing'[k] \subseteq doing[k]
    BY <1>1, <2>1
  <2>3. \A k \in Links : \A a \in doing'[k] : acted'[a[1]][a[2]] > 0
    BY <1>1, <1>3, <2>2
  <2>4. \A k \in Links : back'[k] = back[k] \/ back'[k] = <<>>
    BY <1>1, <2>1
  <2>5. \A k \in Links :
            \A i \in 1..Len(back'[k]) : back'[k][i].kind = "answer" =>
                acted'[back'[k][i].ask[1]][back'[k][i].ask[2]] > 0
    <3>1. Len(<<>>) = 0
      OBVIOUS
    <3>2. ASSUME NEW k \in Links, NEW i \in 1..Len(back'[k]),
                 back'[k][i].kind = "answer"
          PROVE  acted'[back'[k][i].ask[1]][back'[k][i].ask[2]] > 0
      <4>1. back'[k] = back[k]
        BY <2>4, <3>1, <3>2
      <4>2. QED
        BY <1>4, <3>2, <4>1
    <3>3. QED
      BY <3>2
  <2>6. QED
    BY <2>3, <2>5 DEF ActedInv
<1>8. QED
  BY <1>5, <1>6, <1>7 DEF FarEnd

----------------------------------------------------------------------------
\* A request is written at most twice.

\* At most two writes are left of any request.
LEMMA LeftTyped ==
  ASSUME Typing, NEW s \in Senders
  PROVE  Left(s) \in 0..2 /\ \A n \in 1..MaxAsks : LeftOf(s, n) \in 0..2
BY DEF Typing, Left, LeftOf

\* The counters are numbers.
LEMMA CountsTyped ==
  ASSUME Typing, NEW s \in Senders, NEW n \in 1..MaxAsks
  PROVE  acted[s][n] \in Nat /\ asked[s] \in Nat
<1>1. /\ acted \in [Senders -> [1..MaxAsks -> Nat]]
      /\ asked \in [Senders -> 0..MaxAsks]
  BY DEF Typing
<1>2. acted[s] \in [1..MaxAsks -> Nat] /\ asked[s] \in 0..MaxAsks
  BY <1>1
<1>3. QED
  BY <1>2, BoundAssumption

\* A step after which no more is on its way, and no more may be written but
\* of a request just begun.
LEMMA WritesNone ==
  ASSUME Typing, Typing', TwiceInv, NEW s \in Senders,
         coming' = coming, acted' = acted,
         \A u \in Senders \ {s} : asked'[u] = asked[u] /\ Left(u)' = Left(u),
         \/ asked'[s] = asked[s] /\ Left(s)' <= Left(s)
         \/ asked'[s] = asked[s] + 1
  PROVE  TwiceInv'
<1> SUFFICES ASSUME NEW u \in Senders, NEW n \in 1..MaxAsks
             PROVE  Budget(u, n)'
  BY DEF TwiceInv
<1>1. /\ IsFiniteSet(Copies(u, n))
      /\ acted[u][n] + Cardinality(Copies(u, n)) + LeftOf(u, n) <= 2
      /\ n > asked[u] => acted[u][n] = 0 /\ Copies(u, n) = {}
  BY DEF TwiceInv, Budget
<1>2. Copies(u, n)' = Copies(u, n)
  BY DEF Copies
<1>3. /\ Cardinality(Copies(u, n)) \in Nat /\ acted[u][n] \in Nat
      /\ LeftOf(u, n) \in 0..2 /\ Left(u) \in 0..2 /\ Left(u)' \in 0..2
      /\ asked[u] \in Nat
  <2>1. Cardinality(Copies(u, n)) \in Nat
    BY <1>1, FS_CardinalityType
  <2>2. LeftOf(u, n) \in 0..2 /\ Left(u) \in 0..2
    BY LeftTyped
  <2>3. Left(u)' \in 0..2
    BY DEF Typing, Left
  <2>4. acted[u][n] \in Nat /\ asked[u] \in Nat
    BY CountsTyped
  <2>5. QED
    BY <2>1, <2>2, <2>3, <2>4
<1>4. CASE asked'[u] = asked[u] /\ Left(u)' <= Left(u)
  <2>1. LeftOf(u, n)' <= LeftOf(u, n) /\ LeftOf(u, n)' \in 0..2
    BY <1>3, <1>4 DEF LeftOf
  <2>2. QED
    BY <1>1, <1>2, <1>3, <1>4, <2>1 DEF Budget
<1>5. CASE asked'[u] = asked[u] + 1
  <2>1. LeftOf(u, n)' = IF n = asked[u] + 1 THEN Left(u)' ELSE 0
    BY <1>5 DEF LeftOf
  <2>2. CASE n = asked[u] + 1
    <3>1. acted[u][n] = 0 /\ Copies(u, n) = {}
      BY <1>1, <1>3, <2>2
    <3>2. Cardinality(Copies(u, n)) = 0
      BY <3>1, FS_EmptySet
    <3>3. QED
      BY <1>1, <1>2, <1>3, <1>5, <2>1, <2>2, <3>1, <3>2 DEF Budget
  <2>3. CASE n # asked[u] + 1
    BY <1>1, <1>2, <1>3, <1>5, <2>1, <2>3 DEF Budget
  <2>4. QED
    BY <2>2, <2>3
<1>6. QED
  BY <1>3, <1>4, <1>5

\* A thread's own step leaves what the others may write.
LEMMA OthersLeft ==
  ASSUME Typing, NEW s \in Senders,
         Exchanges(s) \/ \E t \in Targets : Take(s, t) \/ TakeNone(s, t)
  PROVE  \A u \in Senders \ {s} : asked'[u] = asked[u] /\ Left(u)' = Left(u)
<1>1. \A u \in Senders \ {s} : /\ asked'[u] = asked[u] /\ phase'[u] = phase[u]
                               /\ fresh'[u] = fresh[u]
  <2>1. CASE \E t \in Targets : Take(s, t) \/ TakeNone(s, t)
    BY <2>1 DEF Take, TakeNone, Begins, Typing
  <2>2. CASE Open(s) \/ OpenFails(s) \/ Ask(s)
    BY <2>2 DEF Open, OpenFails, Ask, Typing
  <2>3. CASE ReadGoAway(s) \/ Told(s) \/ Fails(s)
    BY <2>3 DEF ReadGoAway, Told, Fails, Typing, senderVars
  <2>4. QED
    BY <2>1, <2>2, <2>3 DEF Exchanges
<1>2. QED
  BY <1>1 DEF Left

\* A thread's step spends what is left to write, never more.
LEMMA ThreadsTwice ==
  ASSUME IInv, IInv', TwiceInv, NEW s \in Senders,
         Exchanges(s) \/ \E t \in Targets : Take(s, t) \/ TakeNone(s, t)
  PROVE  TwiceInv'
<1>1. Typing /\ Typing' /\ HoldInv
  BY DEF IInv
<1>2. \A u \in Senders \ {s} : asked'[u] = asked[u] /\ Left(u)' = Left(u)
  BY <1>1, OthersLeft
<1>3. acted' = acted
  BY <1>1, ThreadsTake
<1>4. phase \in [Senders -> {"idle", "opening", "asking", "awaiting",
                             "told", "failed"}]
  BY <1>1 DEF Typing
<1>5. CASE \E t \in Targets : Take(s, t) \/ TakeNone(s, t)
  <2>1. asked'[s] = asked[s] + 1 /\ coming' = coming
    BY <1>1, <1>5 DEF Take, TakeNone, Begins, Typing
  <2>2. QED
    BY <1>1, <1>2, <1>3, <2>1, WritesNone
<1>6. CASE Open(s) \/ OpenFails(s)
  <2>1. asked' = asked /\ coming' = coming
    BY <1>6 DEF Open, OpenFails
  <2>2. \/ phase'[s] = "asking" /\ fresh'[s] = TRUE
        \/ phase'[s] = "failed"
    BY <1>1, <1>6 DEF Open, OpenFails, Typing
  <2>3. Left(s) = 1 /\ Left(s)' <= 1
    BY <1>6, <2>2 DEF Open, OpenFails, Left
  <2>4. QED
    BY <1>1, <1>2, <1>3, <2>1, <2>3, WritesNone
<1>7. CASE ReadGoAway(s)
  <2>1. asked' = asked /\ coming' = coming /\ Left(s)' = Left(s)
    BY <1>7 DEF ReadGoAway, senderVars, Left
  <2>2. QED
    BY <1>1, <1>2, <1>3, <2>1, LeftTyped, WritesNone
<1>8. CASE Told(s) \/ Fails(s)
  <2>1. /\ asked' = asked /\ coming' = coming /\ fresh' = fresh
        /\ phase[s] = "awaiting"
    BY <1>8 DEF Told, Awaits, Fails, Broken
  <2>2. \/ phase'[s] \in {"told", "failed"}
        \/ phase'[s] = "opening" /\ ~fresh[s]
    BY <1>4, <1>8 DEF Told, Fails
  <2>3. Left(s)' <= Left(s)
    BY <2>1, <2>2 DEF Left
  <2>4. QED
    BY <1>1, <1>2, <1>3, <2>1, <2>3, WritesNone
<1>9. CASE Ask(s)
  <2>1. PICK l \in Links, a \in Asks :
            /\ l = on[s] /\ a = <<s, asked[s]>>
            /\ \/ coming' = coming
               \/ coming' = [coming EXCEPT ![l] = @ \cup {a}]
    <3>1. on[s] \in Links /\ <<s, asked[s]>> \in Asks
      BY <1>1, <1>9 DEF Ask, HoldInv, Typing, Asks
    <3>2. QED
      BY <1>9, <3>1 DEF Ask
  <2>2. asked' = asked /\ fresh' = fresh
    BY <1>9 DEF Ask
  <2>3. Left(s)' = Left(s) - 1
    BY <1>4, <1>9 DEF Ask, Left
  <2>4. CASE coming' = coming
    BY <1>1, <1>2, <1>3, <2>2, <2>3, <2>4, LeftTyped, WritesNone
  <2>5. CASE coming' = [coming EXCEPT ![l] = @ \cup {a}]
    <3>1. \A u \in Senders, n \in 1..MaxAsks :
             Copies(u, n)' = IF <<u, n>> = a THEN Copies(u, n) \cup {l}
                             ELSE Copies(u, n)
      <4>1. SUFFICES ASSUME NEW u \in Senders, NEW n \in 1..MaxAsks
                     PROVE  Copies(u, n)' = IF <<u, n>> = a
                                            THEN Copies(u, n) \cup {l}
                                            ELSE Copies(u, n)
        OBVIOUS
      <4>2. \A m \in Links : coming'[m] = IF m = l THEN coming[m] \cup {a}
                                           ELSE coming[m]
        BY <1>1, <2>5 DEF Typing
      <4>3. QED
        BY <4>2 DEF Copies
    <3>2. ASSUME NEW u \in Senders, NEW n \in 1..MaxAsks
          PROVE  Budget(u, n)'
      <4>1. /\ IsFiniteSet(Copies(u, n))
            /\ acted[u][n] + Cardinality(Copies(u, n)) + LeftOf(u, n) <= 2
            /\ n > asked[u] => acted[u][n] = 0 /\ Copies(u, n) = {}
        BY DEF TwiceInv, Budget
      <4>2. acted[u][n] \in Nat /\ LeftOf(u, n) \in 0..2
            /\ Left(s) \in 0..2 /\ Cardinality(Copies(u, n)) \in Nat
        <5>1. acted[u][n] \in Nat
          BY <1>1, CountsTyped
        <5>2. LeftOf(u, n) \in 0..2 /\ Left(s) \in 0..2
          BY <1>1, LeftTyped
        <5>3. QED
          BY <4>1, <5>1, <5>2, FS_CardinalityType
      <4>3. CASE <<u, n>> = a
        <5>1. u = s /\ n = asked[s]
          BY <2>1, <4>3
        <5>2. LeftOf(u, n)' = LeftOf(u, n) - 1
          BY <2>2, <2>3, <5>1 DEF LeftOf
        <5>3. /\ IsFiniteSet(Copies(u, n)')
              /\ Cardinality(Copies(u, n)') <= Cardinality(Copies(u, n)) + 1
              /\ Cardinality(Copies(u, n)') \in Nat
          <6>1. Copies(u, n)' = Copies(u, n) \cup {l}
            BY <3>1, <4>3
          <6>2. /\ IsFiniteSet(Copies(u, n) \cup {l})
                /\ Cardinality(Copies(u, n) \cup {l})
                        <= Cardinality(Copies(u, n)) + 1
            <7>1. /\ IsFiniteSet(Copies(u, n) \cup {l})
                  /\ Cardinality(Copies(u, n) \cup {l}) =
                        IF l \in Copies(u, n) THEN Cardinality(Copies(u, n))
                        ELSE Cardinality(Copies(u, n)) + 1
              BY <4>1, FS_AddElement
            <7>2. QED
              BY <4>2, <7>1
          <6>3. QED
            BY <6>1, <6>2, FS_CardinalityType
        <5>4. ~(n > asked'[u])
          BY <1>1, <2>2, <5>1 DEF Typing
        <5>5. QED
          BY <1>3, <4>1, <4>2, <5>2, <5>3, <5>4 DEF Budget
      <4>4. CASE <<u, n>> # a
        <5>1. LeftOf(u, n)' = LeftOf(u, n)
          <6>1. CASE u = s
            BY <2>1, <2>2, <4>4, <6>1 DEF LeftOf
          <6>2. CASE u # s
            BY <1>2, <6>2 DEF LeftOf
          <6>3. QED
            BY <6>1, <6>2
        <5>2. Copies(u, n)' = Copies(u, n)
          BY <3>1, <4>4
        <5>3. QED
          BY <1>3, <2>2, <4>1, <5>1, <5>2 DEF Budget
      <4>5. QED
        BY <4>3, <4>4
    <3>3. QED
      BY <3>2 DEF TwiceInv
  <2>6. QED
    BY <2>1, <2>4, <2>5
<1>10. QED
  BY <1>5, <1>6, <1>7, <1>8, <1>9 DEF Exchanges

\* A far end acts on what it read, and reads it once.
LEMMA FarEndTwice ==
  ASSUME IInv, TwiceInv, NEW l \in Links, FarEnd(l)
  PROVE  TwiceInv'
<1>1. Typing
  BY DEF IInv
<1>2. asked' = asked /\ phase' = phase /\ fresh' = fresh
  BY DEF FarEnd, Act, Answer, GoAway, SpeakUnasked, Close, senderVars
<1>3. /\ \A m \in Links : coming'[m] \subseteq coming[m]
      /\ \/ acted' = acted
         \/ \E a \in Asks : a \in coming[l] /\ a \notin coming'[l] /\ Acts(a)
  <2>1. CASE Act(l)
    <3>1. PICK a \in coming[l] :
            Acts(a) /\ coming' = [coming EXCEPT ![l] = @ \ {a}]
      BY <2>1 DEF Act, Acts
    <3>2. a \in Asks /\ coming'[l] = coming[l] \ {a}
      BY <1>1, <3>1 DEF Typing
    <3>3. \A m \in Links : coming'[m] \subseteq coming[m]
      BY <1>1, <3>1 DEF Typing
    <3>4. QED
      BY <3>1, <3>2, <3>3
  <2>2. CASE Close(l)
    BY <1>1, <2>2 DEF Close, Acts, Typing
  <2>3. CASE Answer(l) \/ GoAway(l) \/ SpeakUnasked(l)
    <3>1. /\ coming' = coming \/ coming' = [coming EXCEPT ![l] = {}]
          /\ acted' = acted
      BY <2>3 DEF Answer, GoAway, SpeakUnasked
    <3>2. \A m \in Links : coming'[m] \subseteq coming[m]
      BY <1>1, <3>1 DEF Typing
    <3>3. QED
      BY <3>1, <3>2
  <2>4. QED
    BY <2>1, <2>2, <2>3 DEF FarEnd
<1> SUFFICES ASSUME NEW s \in Senders, NEW n \in 1..MaxAsks
             PROVE  Budget(s, n)'
  BY DEF TwiceInv
<1>4. /\ IsFiniteSet(Copies(s, n))
      /\ acted[s][n] + Cardinality(Copies(s, n)) + LeftOf(s, n) <= 2
      /\ n > asked[s] => acted[s][n] = 0 /\ Copies(s, n) = {}
  BY DEF TwiceInv, Budget
<1>5. /\ acted[s][n] \in Nat /\ LeftOf(s, n) \in 0..2
      /\ Cardinality(Copies(s, n)) \in Nat
  <2>1. acted[s][n] \in Nat /\ LeftOf(s, n) \in 0..2
    BY <1>1, LeftTyped, CountsTyped
  <2>2. QED
    BY <1>4, <2>1, FS_CardinalityType
<1>6. LeftOf(s, n)' = LeftOf(s, n)
  BY <1>2 DEF LeftOf, Left
<1>7. Copies(s, n)' \in SUBSET Copies(s, n)
  BY <1>3 DEF Copies
<1>8. /\ IsFiniteSet(Copies(s, n)') /\ Cardinality(Copies(s, n)') \in Nat
      /\ Cardinality(Copies(s, n)') <= Cardinality(Copies(s, n))
  BY <1>4, <1>7, FS_Subset, FS_CardinalityType
<1>9. CASE acted'[s][n] = acted[s][n]
  BY <1>2, <1>4, <1>5, <1>6, <1>7, <1>8, <1>9 DEF Budget
<1>10. ASSUME NEW a \in Asks, a \in coming[l], a \notin coming'[l], Acts(a)
       PROVE  Budget(s, n)'
  <2>1. CASE a = <<s, n>>
    <3>1. acted'[s][n] = acted[s][n] + 1
      BY <1>1, <1>10, <2>1, ActsTells
    <3>2. l \in Copies(s, n) /\ l \notin Copies(s, n)'
      BY <1>10, <2>1 DEF Copies
    <3>3. Cardinality(Copies(s, n)') # Cardinality(Copies(s, n))
      BY <1>4, <1>7, <3>2, FS_Subset
    <3>4. ~(n > asked'[s])
      BY <1>2, <1>4, <3>2
    <3>5. QED
      BY <1>4, <1>5, <1>6, <1>8, <3>1, <3>3, <3>4 DEF Budget
  <2>2. CASE a # <<s, n>>
    BY <1>1, <1>9, <1>10, <2>2, ActsTells
  <2>3. QED
    BY <2>1, <2>2
<1>11. QED
  BY <1>3, <1>9, <1>10

----------------------------------------------------------------------------
\* The theorems.

CInv == IInv /\ ActedInv /\ TwiceInv

\* Nothing has been asked, written or acted on at first.
LEMMA InitCounts == Init => ActedInv /\ TwiceInv
<1> SUFFICES ASSUME Init PROVE ActedInv /\ TwiceInv
  OBVIOUS
<1>1. ActedInv
  BY DEF Init, ActedInv
<1>2. ASSUME NEW s \in Senders, NEW n \in 1..MaxAsks
      PROVE  Budget(s, n)
  <2>1. Copies(s, n) = {}
    BY DEF Init, Copies
  <2>2. Left(s) = 0 /\ acted[s][n] = 0
    BY DEF Init, Left
  <2>3. LeftOf(s, n) = 0
    BY <2>2 DEF LeftOf
  <2>4. QED
    BY <2>1, <2>2, <2>3, FS_EmptySet DEF Budget
<1>3. QED
  BY <1>1, <1>2 DEF TwiceInv

\* What is being answered was acted on, and no step writes a request a
\* third time.
LEMMA CountsInductive == CInv /\ [Next]_vars => CInv'
<1> SUFFICES ASSUME CInv, [Next]_vars PROVE CInv'
  OBVIOUS
<1>1. IInv'
  BY Inductive DEF CInv
<1>2. ASSUME NEW s \in Senders,
             Exchanges(s) \/ \E t \in Targets : Take(s, t) \/ TakeNone(s, t)
      PROVE  CInv'
  BY <1>1, <1>2, ThreadsActed, ThreadsTwice DEF CInv
<1>3. ASSUME NEW l \in Links, FarEnd(l)
      PROVE  CInv'
  BY <1>1, <1>3, FarEndActed, FarEndTwice DEF CInv
<1>4. CASE UNCHANGED vars
  <2>1. /\ UNCHANGED <<phase, to, on, fresh, asked, got>>
        /\ UNCHANGED <<far, away, coming, doing, back, acted>>
    BY <1>4 DEF vars, senderVars, farVars
  <2>2. ActedInv'
    BY <2>1 DEF CInv, ActedInv
  <2>3. TwiceInv'
    <3>1. ASSUME NEW s \in Senders, NEW n \in 1..MaxAsks
          PROVE  Budget(s, n)'
      <4>1. Copies(s, n)' = Copies(s, n) /\ LeftOf(s, n)' = LeftOf(s, n)
        BY <2>1 DEF Copies, LeftOf, Left
      <4>2. Budget(s, n)
        BY DEF CInv, TwiceInv
      <4>3. QED
        BY <2>1, <4>1, <4>2 DEF Budget
    <3>2. QED
      BY <3>1 DEF TwiceInv
  <2>4. QED
    BY <1>1, <2>2, <2>3 DEF CInv
<1>5. QED
  BY <1>2, <1>3, <1>4 DEF Next

\* What is answered was acted on, and a request is written at most twice.
THEOREM CountsInvariant == SafeSpec => []CInv
<1>1. Init => CInv
  BY InitInductive, InitCounts DEF CInv
<1>2. QED
  BY <1>1, CountsInductive, PTL DEF SafeSpec

\* Every variable keeps its type: with it, a far end acts on no request more
\* than twice, the first time and on the one resend (exchange).
THEOREM TypeCorrect == SafeSpec => []TypeOK
<1>1. CInv => TypeOK
  <2> SUFFICES ASSUME CInv PROVE TypeOK
    OBVIOUS
  <2>1. acted \in [Senders -> [1..MaxAsks -> Nat]]
    BY DEF CInv, IInv, Typing
  <2>2. ASSUME NEW s \in Senders, NEW n \in 1..MaxAsks
        PROVE  acted[s][n] \in 0..2
    <3>1. Budget(s, n)
      BY DEF CInv, TwiceInv
    <3>2. Cardinality(Copies(s, n)) \in Nat
      BY <3>1, FS_CardinalityType DEF Budget
    <3>3. acted[s][n] \in Nat /\ LeftOf(s, n) \in 0..2
      BY CountsTyped, LeftTyped DEF CInv, IInv
    <3>4. QED
      BY <3>1, <3>2, <3>3 DEF Budget
  <2>3. acted \in [Senders -> [1..MaxAsks -> 0..2]]
    BY <2>1, <2>2
  <2>4. QED
    BY <2>3 DEF CInv, IInv, Typing, TypeOK
<1>2. QED
  BY <1>1, CountsInvariant, PTL

----------------------------------------------------------------------------
\* Each step is a step of Exchange, or none.

\* A step by which no thread's exchange begins or ends, and nothing is acted on.
LEMMA Unspoken ==
  ASSUME UNCHANGED <<asked, acted>>,
         \A s \in Senders : Outcome(s)' = Outcome(s)
  PROVE  UNCHANGED Promise!vars
BY DEF Promise!vars

\* What a thread's step does to the outcomes.
Ends(s, how) ==
    /\ Outcome(s) = "asking" /\ Outcome(s)' = how
    /\ \A u \in Senders \ {s} : Outcome(u)' = Outcome(u)

\* An exchange that ends is, in the promise, one variable changed at one
\* thread.
LEMMA EndsTells ==
  ASSUME NEW s \in Senders, NEW how, Ends(s, how)
  PROVE  /\ [u \in Senders |-> Outcome(u)][s] = "asking"
         /\ [u \in Senders |-> Outcome(u)]'
                = [[u \in Senders |-> Outcome(u)] EXCEPT ![s] = how]
BY DEF Ends

\* One that ends with no answer of its own is a Miss of the promise.
LEMMA Missed ==
  ASSUME NEW s \in Senders, NEW how \in {"stray", "failed"}, Ends(s, how),
         UNCHANGED <<asked, acted>>
  PROVE  Promise!Next
<1>1. Promise!Miss(s)
  BY EndsTells DEF Promise!Miss
<1>2. QED
  BY <1>1 DEF Promise!Next

\* Beginning an exchange.
LEMMA BeginsOne ==
  ASSUME CInv, NEW s \in Senders, NEW t \in Targets, Take(s, t) \/ TakeNone(s, t)
  PROVE  Promise!Next
<1>1. phase \in [Senders -> {"idle", "opening", "asking", "awaiting",
                             "told", "failed"}]
  BY DEF CInv, IInv, Typing
<1>2. /\ Begins(s, t) /\ acted' = acted
      /\ phase' \in {[phase EXCEPT ![s] = "asking"],
                     [phase EXCEPT ![s] = "opening"]}
  BY DEF Take, TakeNone
<1>3. Outcome(s) # "asking" /\ Outcome(s)' = "asking"
  BY <1>1, <1>2 DEF Begins, Outcome
<1>4. \A u \in Senders \ {s} : Outcome(u)' = Outcome(u)
  BY <1>1, <1>2 DEF Begins, Outcome, CInv, IInv, Typing
<1>5. [u \in Senders |-> Outcome(u)]'
          = [[u \in Senders |-> Outcome(u)] EXCEPT ![s] = "asking"]
  BY <1>3, <1>4
<1>6. Promise!Ask(s)
  BY <1>2, <1>3, <1>5 DEF Promise!Ask, Begins
<1>7. QED
  BY <1>6 DEF Promise!Next

\* Going on with it, to its end.
LEMMA ExchangesOne ==
  ASSUME CInv, NEW s \in Senders, Exchanges(s)
  PROVE  [Promise!Next]_(Promise!vars)
<1>1. /\ Typing /\ HoldInv
      /\ phase \in [Senders -> {"idle", "opening", "asking", "awaiting",
                                "told", "failed"}]
  BY DEF CInv, IInv, Typing
<1>2. asked' = asked /\ acted' = acted
  BY DEF Exchanges, Open, OpenFails, Ask, ReadGoAway, Told, Fails, senderVars
<1>3. CASE Open(s) \/ Ask(s) \/ ReadGoAway(s)
  <2>1. \/ phase' = phase
        \/ /\ phase[s] \in {"opening", "asking"}
           /\ \/ phase' = [phase EXCEPT ![s] = "asking"]
              \/ phase' = [phase EXCEPT ![s] = "awaiting"]
    BY <1>3 DEF Open, Ask, ReadGoAway, senderVars
  <2>2. got' = got
    BY <1>3 DEF Open, Ask, ReadGoAway, senderVars
  <2>3. \A u \in Senders : Outcome(u)' = Outcome(u)
    BY <1>1, <2>1, <2>2 DEF Outcome
  <2>4. QED
    BY <1>2, <2>3, Unspoken
<1>4. CASE OpenFails(s) \/ Fails(s)
  <2>1. /\ phase[s] \in {"opening", "awaiting"} /\ got' = got
        /\ \/ phase' = [phase EXCEPT ![s] = "failed"]
           \/ phase' = [phase EXCEPT ![s] = "opening"]
    BY <1>4 DEF OpenFails, Fails, Broken
  <2>2. CASE phase' = [phase EXCEPT ![s] = "failed"]
    <3>1. Ends(s, "failed")
      BY <1>1, <2>1, <2>2 DEF Ends, Outcome
    <3>2. QED
      BY <1>2, <3>1, Missed
  <2>3. CASE phase' = [phase EXCEPT ![s] = "opening"]
    <3>1. \A u \in Senders : Outcome(u)' = Outcome(u)
      BY <1>1, <2>1, <2>3 DEF Outcome
    <3>2. QED
      BY <1>2, <3>1, Unspoken
  <2>4. QED
    BY <2>1, <2>2, <2>3
<1>5. CASE Told(s)
  <2>1. PICK l \in Links : /\ l = on[s] /\ back[l] # <<>>
                           /\ phase[s] = "awaiting"
    BY <1>1, <1>5 DEF Told, Awaits, HoldInv, Typing
  <2>2. 1 \in 1..Len(back[l]) /\ Head(back[l]) = back[l][1]
    BY <1>1, <2>1, EmptySeq DEF Typing
  <2>3. /\ back[l][1].kind # "goaway"
        /\ got' = [got EXCEPT ![s] = Heard(s, back[l][1])]
        /\ phase' = [phase EXCEPT ![s] = "told"]
    BY <1>5, <2>1, <2>2 DEF Told
  <2>4. Heard(s, back[l][1]) \in {"own", "late"}
    BY <2>1, <2>2, <2>3, ReadIsOwn DEF CInv
  <2>5. got \in [Senders -> {"none", "own", "other", "idle", "late"}]
    BY <1>1 DEF Typing
  <2>6. CASE Heard(s, back[l][1]) = "own"
    <3>1. Ends(s, "answer")
      BY <1>1, <2>1, <2>3, <2>5, <2>6 DEF Ends, Outcome
    <3>2. back[l][1].kind = "answer" /\ back[l][1].ask = <<s, asked[s]>>
      <4>1. back[l][1] \in Messages
        BY <1>1, <2>2, ElementOfSeq DEF Typing
      <4>2. back[l][1].kind # "own"
        BY <4>1 DEF Messages
      <4>3. QED
        BY <2>6, <4>2 DEF Heard
    <3>3. acted[s][asked[s]] > 0
      BY <2>2, <3>2 DEF CInv, ActedInv
    <3>4. Promise!Answer(s)
      BY <1>2, <3>1, <3>3, EndsTells DEF Promise!Answer
    <3>5. QED
      BY <3>4 DEF Promise!Next
  <2>7. CASE Heard(s, back[l][1]) = "late"
    <3>1. Ends(s, "stray")
      BY <1>1, <2>1, <2>3, <2>5, <2>7 DEF Ends, Outcome
    <3>2. QED
      BY <1>2, <3>1, Missed
  <2>8. QED
    BY <2>4, <2>6, <2>7
<1>6. QED
  BY <1>3, <1>4, <1>5 DEF Exchanges

\* The far end acting, on a request begun and not acted on twice.
LEMMA FarEndOne ==
  ASSUME CInv, NEW l \in Links, FarEnd(l)
  PROVE  [Promise!Next]_(Promise!vars)
<1>1. Typing
  BY DEF CInv, IInv
<1>2. UNCHANGED <<phase, got, asked>>
  BY DEF FarEnd, Act, Answer, GoAway, SpeakUnasked, Close, senderVars
<1>3. \A s \in Senders : Outcome(s)' = Outcome(s)
  BY <1>2 DEF Outcome
<1>4. [s \in Senders |-> Outcome(s)]' = [s \in Senders |-> Outcome(s)]
  BY <1>3
<1>5. acted' = acted \/ \E a \in Asks : a \in coming[l] /\ Acts(a)
  BY <1>1 DEF FarEnd, Act, Answer, GoAway, SpeakUnasked, Close, Acts, Typing
<1>6. ASSUME NEW a \in Asks, a \in coming[l], Acts(a)
      PROVE  Promise!Next
  <2>1. PICK s \in Senders, n \in 1..MaxAsks : a = <<s, n>>
    BY DEF Asks
  <2>2. Budget(s, n) /\ l \in Copies(s, n)
    BY <1>6, <2>1 DEF CInv, TwiceInv, Copies
  <2>3. Cardinality(Copies(s, n)) \in Nat \ {0}
    BY <2>2, FS_EmptySet, FS_CardinalityType DEF Budget
  <2>4. acted[s][n] \in Nat /\ asked[s] \in Nat /\ LeftOf(s, n) \in 0..2
    BY <1>1, CountsTyped, LeftTyped
  <2>5. acted[s][n] < 2 /\ n <= asked[s]
    BY <2>2, <2>3, <2>4 DEF Budget
  <2>6. acted' = [acted EXCEPT ![s][n] = @ + 1]
    BY <1>6, <2>1 DEF Acts
  <2>7. Promise!Act(s, n)
    BY <1>2, <1>4, <2>5, <2>6 DEF Promise!Act
  <2>8. QED
    BY <2>7 DEF Promise!Next
<1>7. QED
  BY <1>2, <1>3, <1>5, <1>6, Unspoken

\* However the far ends fail, Connections asks one request of a thread at a
\* time, has it acted on at most twice, and tells a thread an answer only to
\* what was acted on: the safety part of ImplementsExchange.
THEOREM KeepsPromise == SafeSpec => ImplementsExchangeSafely
<1>1. Init => Promise!Init
  <2> SUFFICES ASSUME Init PROVE Promise!Init
    OBVIOUS
  <2>1. \A s \in Senders : Outcome(s) = "never"
    BY DEF Init, Outcome
  <2>2. QED
    BY <2>1 DEF Init, Promise!Init
<1>2. CInv /\ [Next]_vars => [Promise!Next]_(Promise!vars)
  <2> SUFFICES ASSUME CInv, [Next]_vars PROVE [Promise!Next]_(Promise!vars)
    OBVIOUS
  <2>1. CASE UNCHANGED vars
    <3>1. UNCHANGED <<asked, acted, phase, got>>
      BY <2>1 DEF vars, senderVars, farVars
    <3>2. \A s \in Senders : Outcome(s)' = Outcome(s)
      BY <3>1 DEF Outcome
    <3>3. QED
      BY <3>1, <3>2, Unspoken
  <2>2. QED
    BY <2>1, BeginsOne, ExchangesOne, FarEndOne DEF Next
<1>3. QED
  BY <1>1, <1>2, CountsInvariant, PTL
     DEF SafeSpec, ImplementsExchangeSafely, Promise!SafeSpec

----------------------------------------------------------------------------
\* No more connections to an endpoint than threads.

\* What the bound says of one key, in numbers that can be compared; in a
\* step no thread that posted is one that did not.
LEMMA BoundTells ==
  ASSUME Typing, BoundInv, NEW k \in Keys
  PROVE  /\ BoundAt(k) /\ IsFiniteSet(Opening(k))
         /\ Cardinality(To(k)) \in Nat /\ Cardinality(Opening(k)) \in Nat
         /\ Cardinality(Posting) \in Nat
         /\ [Next]_vars => Cardinality(Posting)' \in Nat
                            /\ Cardinality(Posting) <= Cardinality(Posting)'
<1>1. BoundAt(k)
  BY DEF BoundInv
<1>2. Opening(k) \in SUBSET Senders
  BY DEF Opening
<1>3. IsFiniteSet(Opening(k))
  BY <1>2, SendersAssumption, FS_Subset
<1>4. Cardinality(To(k)) \in Nat
  BY <1>1, FS_CardinalityType DEF BoundAt
<1>5. Cardinality(Opening(k)) \in Nat
  BY <1>3, FS_CardinalityType
<1>6. IsFiniteSet(Posting) /\ IsFiniteSet(Posting')
  <2>1. Posting \in SUBSET Senders /\ Posting' \in SUBSET Senders
    BY DEF Posting
  <2>2. QED
    BY <2>1, SendersAssumption, FS_Subset
<1>7. [Next]_vars => Posting \subseteq Posting'
  <2> SUFFICES ASSUME [Next]_vars, NEW u \in Senders, asked[u] > 0
               PROVE  asked'[u] > 0
    BY DEF Posting
  <2>1. ASSUME NEW s \in Senders, NEW t \in Targets, Take(s, t) \/ TakeNone(s, t)
        PROVE  asked'[u] > 0
    <3>1. asked' = [asked EXCEPT ![s] = @ + 1]
      BY <2>1 DEF Take, TakeNone, Begins
    <3>2. asked \in [Senders -> 0..MaxAsks]
      BY DEF Typing
    <3>3. QED
      BY <3>1, <3>2
  <2>2. CASE asked' = asked
    BY <2>2
  <2>3. QED
    BY <2>1, <2>2 DEF Next, vars, senderVars, Exchanges, Open, OpenFails, Ask,
       ReadGoAway, Told, Fails, FarEnd, Act, Answer, GoAway, SpeakUnasked, Close
<1>8. /\ Cardinality(Posting) \in Nat /\ Cardinality(Posting') \in Nat
      /\ [Next]_vars => Cardinality(Posting) <= Cardinality(Posting')
  BY <1>6, <1>7, FS_Subset, FS_CardinalityType
<1>9. QED
  BY <1>1, <1>3, <1>4, <1>5, <1>8

\* None is opened, and nobody comes to open one.
LEMMA BoundLess ==
  ASSUME Typing, BoundInv, [Next]_vars, NEW k \in Keys,
         To(k)' \subseteq To(k), Opening(k)' \subseteq Opening(k)
  PROVE  BoundAt(k)'
<1>1. /\ BoundAt(k) /\ IsFiniteSet(Opening(k))
      /\ Cardinality(To(k)) \in Nat /\ Cardinality(Opening(k)) \in Nat
      /\ Cardinality(Posting) \in Nat /\ Cardinality(Posting)' \in Nat
      /\ Cardinality(Posting) <= Cardinality(Posting)'
  BY BoundTells
<1>2. /\ IsFiniteSet(To(k)') /\ Cardinality(To(k)') <= Cardinality(To(k))
      /\ Cardinality(To(k)') \in Nat
  BY <1>1, FS_Subset, FS_CardinalityType DEF BoundAt
<1>3. /\ Cardinality(Opening(k)') <= Cardinality(Opening(k))
      /\ Cardinality(Opening(k)') \in Nat
  BY <1>1, FS_Subset, FS_CardinalityType
<1>4. QED
  BY <1>1, <1>2, <1>3 DEF BoundAt

\* Losing one here for one there.
LEMMA OneForOne ==
  ASSUME NEW X, NEW Y, NEW x \in X, NEW y, IsFiniteSet(X), IsFiniteSet(Y),
         NEW V \in SUBSET (X \ {x}), NEW W \in SUBSET (Y \cup {y}),
         Cardinality(X) \in Nat, Cardinality(Y) \in Nat
  PROVE  /\ IsFiniteSet(V) /\ IsFiniteSet(W)
         /\ Cardinality(V) \in Nat /\ Cardinality(W) \in Nat
         /\ Cardinality(V) + Cardinality(W) <= Cardinality(X) + Cardinality(Y)
<1>1. IsFiniteSet(X \ {x}) /\ Cardinality(X \ {x}) = Cardinality(X) - 1
  BY FS_RemoveElement
<1>2. /\ IsFiniteSet(Y \cup {y})
      /\ Cardinality(Y \cup {y}) = IF y \in Y THEN Cardinality(Y)
                                   ELSE Cardinality(Y) + 1
  BY FS_AddElement
<1>3. IsFiniteSet(V) /\ Cardinality(V) <= Cardinality(X) - 1
  BY <1>1, FS_Subset
<1>4. IsFiniteSet(W) /\ Cardinality(W) <= Cardinality(Y \cup {y})
  BY <1>2, FS_Subset
<1>5. Cardinality(V) \in Nat /\ Cardinality(W) \in Nat
  BY <1>3, <1>4, FS_CardinalityType
<1>6. QED
  BY <1>2, <1>3, <1>4, <1>5

\* One that was to be opened is, or one that was held is to be opened anew.
LEMMA BoundSwap ==
  ASSUME Typing, BoundInv, [Next]_vars, NEW k \in Keys, NEW l, NEW s,
         \/ /\ s \in Opening(k) /\ Opening(k)' \subseteq Opening(k) \ {s}
            /\ To(k)' \subseteq To(k) \cup {l}
         \/ /\ l \in To(k) /\ To(k)' \subseteq To(k) \ {l}
            /\ Opening(k)' \subseteq Opening(k) \cup {s}
  PROVE  BoundAt(k)'
<1>1. /\ BoundAt(k) /\ IsFiniteSet(Opening(k)) /\ IsFiniteSet(To(k))
      /\ Cardinality(To(k)) \in Nat /\ Cardinality(Opening(k)) \in Nat
      /\ Cardinality(Posting) \in Nat /\ Cardinality(Posting)' \in Nat
      /\ Cardinality(Posting) <= Cardinality(Posting)'
  BY BoundTells DEF BoundAt
<1>2. /\ IsFiniteSet(To(k)')
      /\ Cardinality(To(k)') \in Nat /\ Cardinality(Opening(k)') \in Nat
      /\ Cardinality(To(k)') + Cardinality(Opening(k)')
            <= Cardinality(To(k)) + Cardinality(Opening(k))
  <2>1. CASE /\ s \in Opening(k) /\ Opening(k)' \subseteq Opening(k) \ {s}
             /\ To(k)' \subseteq To(k) \cup {l}
    <3>1. /\ Opening(k)' \in SUBSET (Opening(k) \ {s})
          /\ To(k)' \in SUBSET (To(k) \cup {l})
      BY <2>1
    <3>2. /\ IsFiniteSet(Opening(k)') /\ IsFiniteSet(To(k)')
          /\ Cardinality(Opening(k)') \in Nat /\ Cardinality(To(k)') \in Nat
          /\ Cardinality(Opening(k)') + Cardinality(To(k)')
                <= Cardinality(Opening(k)) + Cardinality(To(k))
      BY <1>1, <2>1, <3>1, OneForOne, Zenon
    <3>3. QED
      BY <1>1, <3>2
  <2>2. CASE /\ l \in To(k) /\ To(k)' \subseteq To(k) \ {l}
             /\ Opening(k)' \subseteq Opening(k) \cup {s}
    <3>1. /\ To(k)' \in SUBSET (To(k) \ {l})
          /\ Opening(k)' \in SUBSET (Opening(k) \cup {s})
      BY <2>2
    <3>2. /\ IsFiniteSet(To(k)') /\ IsFiniteSet(Opening(k)')
          /\ Cardinality(To(k)') \in Nat /\ Cardinality(Opening(k)') \in Nat
          /\ Cardinality(To(k)') + Cardinality(Opening(k)')
                <= Cardinality(To(k)) + Cardinality(Opening(k))
      BY <1>1, <2>2, <3>1, OneForOne, Zenon
    <3>3. QED
      BY <1>1, <3>2
  <2>3. QED
    BY <2>1, <2>2
<1>3. QED
  BY <1>1, <1>2 DEF BoundAt

\* None kept is usable: those that remain are held, each by a thread of its
\* own, and the one that is to open another holds none.
LEMMA BoundNone ==
  ASSUME IInv, BoundInv, NEW s \in Senders, NEW t \in Targets, TakeNone(s, t),
         NEW k \in Keys
  PROVE  BoundAt(k)'
<1>1. /\ Typing /\ HoldInv
      /\ side \in [Links -> {"unopened", "held", "kept", "closed"}]
      /\ phase \in [Senders -> {"idle", "opening", "asking", "awaiting",
                                "told", "failed"}]
      /\ to \in [Senders -> Targets \cup {NoTarget}]
  BY DEF IInv, Typing
<1>2. /\ phase' = [phase EXCEPT ![s] = "opening"] /\ to' = [to EXCEPT ![s] = t]
      /\ on' = on /\ key' = key /\ side' = Closed(KeptTo(t))
      /\ asked' = [asked EXCEPT ![s] = @ + 1]
      /\ phase[s] \in {"idle", "told", "failed"}
  BY DEF TakeNone, Begins
<1>3. To(k)' \subseteq To(k)
  BY <1>1, <1>2 DEF To, Closed
<1>4. CASE k # Key(t)
  <2>1. Opening(k)' \subseteq Opening(k)
    BY <1>1, <1>2, <1>4 DEF Opening
  <2>2. QED
    BY <1>1, <1>3, <2>1, BoundLess DEF Next
<1>5. CASE k = Key(t)
  <2>1. \A l \in To(k)' : l \in Links /\ side[l] = "held"
    BY <1>1, <1>2, <1>5 DEF To, Closed, KeptTo
  <2>2. \A l \in To(k)' : \E u \in Senders : on[u] = l
    BY <1>1, <2>1 DEF HoldInv
  <2> DEFINE Holder == [l \in To(k)' |-> CHOOSE u \in Senders : on[u] = l]
  <2>3. \A l \in To(k)' : Holder[l] \in Senders /\ on[Holder[l]] = l
    BY <2>2
  <2>4. \A l \in To(k)' : Holder[l] \in Posting' \ Opening(k)'
    <3>1. SUFFICES ASSUME NEW l \in To(k)'
                   PROVE  Holder[l] \in Posting' \ Opening(k)'
      OBVIOUS
    <3>2. PICK u \in Senders : u = Holder[l] /\ on[u] = l
      BY <2>3
    <3>3. on[u] # NoLink
      BY <2>1, <3>2, LinkAssumption
    <3>4. phase[u] \in {"asking", "awaiting"} /\ asked[u] \in 1..MaxAsks
      BY <1>1, <3>3 DEF HoldInv
    <3>5. phase'[u] # "opening"
      BY <1>1, <1>2, <3>4
    <3>6. u \notin Opening(k)'
      BY <3>5 DEF Opening
    <3>7. u \in Posting'
      BY <1>1, <1>2, <3>4 DEF Posting, Typing
    <3>8. QED
      BY <3>2, <3>6, <3>7
  <2>5. Holder \in Injection(To(k)', Posting' \ Opening(k)')
    <3>1. Holder \in [To(k)' -> Posting' \ Opening(k)']
      BY <2>4
    <3>2. \A l, m \in To(k)' : Holder[l] = Holder[m] => l = m
      BY <2>3
    <3> HIDE DEF Holder
    <3>3. QED
      BY <3>1, <3>2 DEF Injection, IsInjective
  <2>6. /\ IsFiniteSet(Posting') /\ IsFiniteSet(Opening(k)')
        /\ IsFiniteSet(Posting' \ Opening(k)')
        /\ Cardinality(Posting' \ Opening(k)')
              = Cardinality(Posting') - Cardinality(Opening(k)')
    <3>1. Opening(k)' \in SUBSET Posting'
      <4>1. ASSUME NEW u \in Opening(k)' PROVE u \in Posting'
        <5>1. u \in Senders /\ phase'[u] = "opening"
          BY DEF Opening
        <5>2. u = s \/ phase[u] = "opening"
          BY <1>1, <1>2, <5>1
        <5>3. asked'[u] > 0
          BY <1>1, <1>2, <5>1, <5>2 DEF HoldInv, Typing
        <5>4. QED
          BY <5>1, <5>3 DEF Posting
      <4>2. QED
        BY <4>1
    <3>2. Posting' \cap Opening(k)' = Opening(k)'
      BY <3>1
    <3>3. IsFiniteSet(Posting') /\ IsFiniteSet(Opening(k)')
      <4>1. Posting' \in SUBSET Senders
        BY DEF Posting
      <4>2. QED
        BY <3>1, <4>1, SendersAssumption, FS_Subset
    <3>4. /\ IsFiniteSet(Posting' \ Opening(k)')
          /\ Cardinality(Posting' \ Opening(k)') = Cardinality(Posting')
                - Cardinality(Posting' \cap Opening(k)')
      BY <3>3, FS_Difference
    <3>5. QED
      BY <3>1, <3>2, <3>3, <3>4
  <2>7. /\ IsFiniteSet(To(k)')
        /\ Cardinality(To(k)') <= Cardinality(Posting' \ Opening(k)')
    BY <2>5, <2>6, FS_Injection
  <2>8. /\ Cardinality(To(k)') \in Nat /\ Cardinality(Opening(k)') \in Nat
        /\ Cardinality(Posting') \in Nat
    BY <2>6, <2>7, FS_CardinalityType
  <2>9. QED
    BY <2>6, <2>7, <2>8 DEF BoundAt
<1>6. QED
  BY <1>4, <1>5

\* A thread's step keeps the bound: what it opens, it opened for itself.
LEMMA ThreadsBound ==
  ASSUME IInv, BoundInv, NEW s \in Senders,
         Exchanges(s) \/ \E t \in Targets : Take(s, t) \/ TakeNone(s, t),
         NEW k \in Keys
  PROVE  BoundAt(k)'
<1>1. /\ Typing /\ HoldInv /\ KeyInv
      /\ side \in [Links -> {"unopened", "held", "kept", "closed"}]
      /\ key \in [Links -> Keys \cup {NoKey}]
      /\ on \in [Senders -> Links \cup {NoLink}]
      /\ phase \in [Senders -> {"idle", "opening", "asking", "awaiting",
                                "told", "failed"}]
      /\ to \in [Senders -> Targets \cup {NoTarget}] /\ [Next]_vars
  BY DEF IInv, Typing, Next
<1>2. ASSUME NEW t \in Targets, Take(s, t)
      PROVE  BoundAt(k)'
  <2>1. PICK l \in KeptTo(t), passed \in SUBSET Dead(KeptTo(t)) :
            side' = [Closed(passed) EXCEPT ![l] = "held"]
    BY <1>2 DEF Take
  <2>2. To(k)' \subseteq To(k)
    BY <1>1, <1>2, <2>1 DEF Take, To, Closed, KeptTo
  <2>3. Opening(k)' \subseteq Opening(k)
    BY <1>1, <1>2 DEF Take, Begins, Opening
  <2>4. QED
    BY <1>1, <2>2, <2>3, BoundLess
<1>3. CASE Open(s)
  <2>1. PICK l \in Links :
          /\ side' = [Closed(Swept) EXCEPT ![l] = "held"]
          /\ key' = [key EXCEPT ![l] = Key(to[s])]
    BY <1>3 DEF Open
  <2>2. /\ phase[s] = "opening" /\ phase' = [phase EXCEPT ![s] = "asking"]
        /\ to' = to
    BY <1>3 DEF Open
  <2>3. Opening(k)' \subseteq Opening(k) \ {s}
    BY <1>1, <2>2 DEF Opening
  <2>4. CASE k = Key(to[s])
    <3>1. To(k)' \subseteq To(k) \cup {l}
      BY <1>1, <2>1 DEF To, Closed
    <3>2. s \in Opening(k)
      BY <2>2, <2>4 DEF Opening
    <3>3. QED
      BY <1>1, <2>3, <3>1, <3>2, BoundSwap
  <2>5. CASE k # Key(to[s])
    <3>1. To(k)' \subseteq To(k)
      BY <1>1, <2>1, <2>5 DEF To, Closed
    <3>2. QED
      BY <1>1, <2>3, <3>1, BoundLess
  <2>6. QED
    BY <2>4, <2>5
<1>4. CASE OpenFails(s)
  <2>1. To(k)' \subseteq To(k)
    BY <1>4 DEF OpenFails, To, Closed
  <2>2. Opening(k)' \subseteq Opening(k)
    BY <1>1, <1>4 DEF OpenFails, Opening
  <2>3. QED
    BY <1>1, <2>1, <2>2, BoundLess
<1>5. CASE Ask(s) \/ ReadGoAway(s)
  <2>1. To(k)' \subseteq To(k)
    BY <1>5 DEF Ask, ReadGoAway, To, sideVars
  <2>2. Opening(k)' \subseteq Opening(k)
    BY <1>1, <1>5 DEF Ask, ReadGoAway, Opening, senderVars
  <2>3. QED
    BY <1>1, <2>1, <2>2, BoundLess
<1>6. CASE Told(s)
  <2>1. on[s] \in Links /\ side[on[s]] = "held"
    BY <1>1, <1>6 DEF Told, Awaits, HoldInv
  <2>2. \/ side' = [side EXCEPT ![on[s]] = "kept"]
        \/ side' = Closed({on[s]})
    BY <1>6 DEF Told
  <2>3. To(k)' \subseteq To(k)
    BY <1>1, <1>6, <2>1, <2>2 DEF Told, To, Closed
  <2>4. Opening(k)' \subseteq Opening(k)
    BY <1>1, <1>6 DEF Told, Opening
  <2>5. QED
    BY <1>1, <2>3, <2>4, BoundLess
<1>7. CASE Fails(s)
  <2>1. PICK l \in Links : /\ l = on[s] /\ side[l] = "held"
                           /\ key[l] = Key(to[s])
    BY <1>1, <1>7 DEF Fails, Broken, HoldInv, KeyInv
  <2>2. /\ side' = Closed({l}) /\ key' = key /\ to' = to
        /\ \/ phase' = [phase EXCEPT ![s] = "failed"]
           \/ phase' = [phase EXCEPT ![s] = "opening"]
    BY <1>7, <2>1 DEF Fails
  <2>3. To(k)' \subseteq To(k) \ {l}
    BY <2>2 DEF To, Closed
  <2>4. CASE k = Key(to[s])
    <3>1. Opening(k)' \subseteq Opening(k) \cup {s}
      BY <1>1, <2>2 DEF Opening
    <3>2. l \in To(k)
      BY <2>1, <2>4 DEF To
    <3>3. QED
      BY <1>1, <2>3, <3>1, <3>2, BoundSwap
  <2>5. CASE k # Key(to[s])
    <3>1. Opening(k)' \subseteq Opening(k)
      BY <1>1, <2>2, <2>5 DEF Opening
    <3>2. QED
      BY <1>1, <2>3, <3>1, BoundLess
  <2>6. QED
    BY <2>4, <2>5
<1>8. QED
  BY <1>2, <1>3, <1>4, <1>5, <1>6, <1>7, BoundNone DEF Exchanges

\* Nobody has a connection at first, and every step keeps the bound.
LEMMA BoundInit == Init => BoundInv
<1> SUFFICES ASSUME Init, NEW k \in Keys PROVE BoundAt(k)
  BY DEF BoundInv
<1>1. To(k) = {} /\ Opening(k) = {}
  BY DEF Init, To, Opening
<1>2. Cardinality(Posting) \in Nat
  <2>1. Posting \in SUBSET Senders
    BY DEF Posting
  <2>2. QED
    BY <2>1, SendersAssumption, FS_Subset, FS_CardinalityType
<1>3. QED
  BY <1>1, <1>2, FS_EmptySet DEF BoundAt

\* Every step keeps the bound: an open turns a thread that is opening into one
\* that holds, and a failed exchange, an end and a sweep only close.
LEMMA BoundInductive == IInv /\ BoundInv /\ [Next]_vars => BoundInv'
<1> SUFFICES ASSUME IInv, BoundInv, [Next]_vars, NEW k \in Keys
             PROVE  BoundAt(k)'
  BY DEF BoundInv
<1>1. ASSUME NEW s \in Senders,
             Exchanges(s) \/ \E t \in Targets : Take(s, t) \/ TakeNone(s, t)
      PROVE  BoundAt(k)'
  BY <1>1, ThreadsBound
<1>2. CASE UNCHANGED vars \/ \E l \in Links : FarEnd(l)
  <2>1. UNCHANGED <<phase, to, side, key>>
    BY <1>2 DEF vars, senderVars, sideVars, FarEnd, Act, Answer, GoAway,
       SpeakUnasked, Close
  <2>2. To(k)' \subseteq To(k) /\ Opening(k)' \subseteq Opening(k)
    BY <2>1 DEF To, Opening
  <2>3. QED
    BY <2>2, BoundLess DEF IInv
<1>3. QED
  BY <1>1, <1>2 DEF Next

\* However many requests the threads send, and whatever their far ends do,
\* no more connections are open to an endpoint than there are threads, nor
\* than threads that posted (Connections::exchange, transport::Pool).
THEOREM NoMoreThanThreads == SafeSpec => []Bounded
<1>1. IInv /\ BoundInv => Bounded
  <2> SUFFICES ASSUME IInv, BoundInv, NEW k \in Keys
               PROVE  Cardinality(To(k)) <= Cardinality(Senders)
    BY DEF Bounded, To
  <2>1. Cardinality(Posting) <= Cardinality(Senders)
    <3>1. Posting \in SUBSET Senders
      BY DEF Posting
    <3>2. QED
      BY <3>1, SendersAssumption, FS_Subset
  <2>2. Cardinality(Senders) \in Nat
    BY SendersAssumption, FS_CardinalityType
  <2>3. QED
    BY <2>1, <2>2, BoundTells DEF BoundAt, IInv
<1>2. QED
  BY <1>1, BoundInit, BoundInductive, Invariant, PTL DEF SafeSpec
=============================================================================
