--------------------------- MODULE InboundProofs ---------------------------
(***************************************************************************)
(* Proofs about Inbound, for any set of callers and any bound on requests: *)
(* what it answers and to whom, and that it implements CallerWaits.        *)
(***************************************************************************)
EXTENDS Inbound, TLAPS

\* What is here was sent, what was taken is here.
CountInv ==
    \A c \in Callers :
        /\ taken[c] <= read[c] /\ read[c] <= sent[c]
        /\ \A n \in closing[c] : n <= sent[c]

\* The receiving thread locks only the line it reads; what it reads is kept
\* and owes nobody; what it answers itself is the reply of its turn.
TurnInv ==
    /\ turning = NoCaller <=> stage = "polling"
    /\ locked = IF stage = "reading" THEN {turning} ELSE {}
    /\ stage # "polling" => place[turning] = "kept"
    /\ stage = "reading" => ~busy[turning]
    /\ \A r \in replies : r.now => stage = "answering" /\ turning = r.caller

\* The version is the caller's once told.
SpeakInv ==
    \A c \in Callers :
        /\ speaking[c] = "one" => version[c] = 1
        /\ speaking[c] = "two" => version[c] = 2

\* A reply is to the request last taken, and remembers what it said.
ReplyInv ==
    \A r \in replies :
        /\ r.n = taken[r.caller]
        /\ version[r.caller] = 1 => (r.last <=> r.n \in closing[r.caller])

\* While answers reach the caller, every request taken has been answered
\* but the one whose reply is held.
OrderInv ==
    \A c \in Callers : ~down[c] =>
        /\ \A r \in replies : r.caller = c =>
                taken[c] = IF r.written THEN Len(answers[c])
                                        ELSE Len(answers[c]) + 1
        /\ ~busy[c] /\ place[c] # "gone" => taken[c] = Len(answers[c])

\* After the last request its connection is no longer kept, but for the
\* turn that is answering it.
LastInv ==
    \A c \in Callers : version[c] = 1 /\ taken[c] \in closing[c] =>
        \/ place[c] = "gone"
        \/ \E r \in replies : r.caller = c /\ r.now

IInv ==
    /\ TypeOK /\ CountInv /\ TurnInv /\ BusyWhileHeld /\ SpeakInv
    /\ NoAnswerSwallowed /\ ReplyInv /\ OrderInv /\ AnswersInOrder
    /\ LastInv /\ LastIsLast

USE CallersAssumption, BoundAssumption, TimeoutAssumption

----------------------------------------------------------------------------
\* Inbound starts in IInv.
LEMMA InitInductive == Init => IInv
<1> SUFFICES ASSUME Init PROVE IInv
  OBVIOUS
<1>1. TypeOK
  <2>1. <<>> \in Seq(Requests)
    OBVIOUS
  <2>2. answers \in [Callers -> Seq(Requests)]
    BY <2>1 DEF Init
  <2>3. /\ sent \in [Callers -> 0..MaxRequests]
        /\ read \in [Callers -> 0..MaxRequests]
        /\ taken \in [Callers -> 0..MaxRequests]
        /\ closing \in [Callers -> SUBSET Requests]
    BY DEF Init
  <2>4. QED
    BY <2>2, <2>3 DEF Init, TypeOK
<1>2. CountInv /\ TurnInv /\ BusyWhileHeld
  BY DEF Init, CountInv, TurnInv, BusyWhileHeld
<1>3. SpeakInv /\ NoAnswerSwallowed /\ ReplyInv
  BY DEF Init, SpeakInv, NoAnswerSwallowed, ReplyInv
<1>4. OrderInv /\ AnswersInOrder
  BY DEF Init, OrderInv, AnswersInOrder
<1>5. LastInv /\ LastIsLast
  BY DEF Init, LastInv, LastIsLast
<1>6. QED
  BY <1>1, <1>2, <1>3, <1>4, <1>5 DEF IInv

\* What the caller does leaves IInv true: it only adds behind what is sent.
LEMMA CallerInductive ==
  ASSUME IInv, NEW c \in Callers,
         Connect(c) \/ Send(c) \/ Begin(c) \/ Garble(c) \/ HangUp(c)
  PROVE  IInv'
<1>1. CASE Connect(c)
  <2>1. TypeOK'
    BY <1>1 DEF Connect, callerVars, lineVars, turnVars, IInv, TypeOK
  <2>2. CountInv' /\ TurnInv'
    BY <1>1 DEF Connect, callerVars, lineVars, turnVars, IInv, TypeOK,
       CountInv, TurnInv
  <2>3. BusyWhileHeld' /\ SpeakInv'
    BY <1>1 DEF Connect, callerVars, lineVars, turnVars, IInv, TypeOK,
       BusyWhileHeld, SpeakInv
  <2>4. NoAnswerSwallowed' /\ ReplyInv'
    BY <1>1 DEF Connect, callerVars, lineVars, turnVars, IInv, TypeOK,
       Reply, NoAnswerSwallowed, Matched, ReplyInv
  <2>5. OrderInv' /\ AnswersInOrder'
    BY <1>1 DEF Connect, callerVars, lineVars, turnVars, IInv, TypeOK,
       Reply, OrderInv, AnswersInOrder
  <2>6. LastInv' /\ LastIsLast'
    BY <1>1 DEF Connect, callerVars, lineVars, turnVars, IInv, TypeOK,
       LastInv, LastIsLast
  <2>7. QED
    BY <2>1, <2>2, <2>3, <2>4, <2>5, <2>6 DEF IInv
<1>2. CASE Send(c)
  <2> USE DEF Send, OnLine, lineVars, turnVars
  <2>1. sent[c] + 1 \in Requests /\ taken[c] < sent[c] + 1
    BY <1>2 DEF IInv, TypeOK, CountInv, Requests
  <2>2. /\ closing' \in [Callers -> SUBSET Requests]
        /\ \A d \in Callers : closing[d] \subseteq closing'[d]
        /\ \A d \in Callers : \A n \in closing'[d] :
              n \in closing[d] \/ (d = c /\ n = sent[c] + 1)
    <3>1. CASE UNCHANGED closing
      BY <3>1 DEF IInv, TypeOK
    <3>2. CASE closing' = [closing EXCEPT ![c] = @ \cup {sent[c] + 1}]
      BY <3>2, <2>1 DEF IInv, TypeOK
    <3>3. QED
      BY <1>2, <3>1, <3>2
  <2>3. TypeOK'
    <3>1. sent' \in [Callers -> 0..MaxRequests]
      BY <1>2, <2>1 DEF IInv, TypeOK, Requests
    <3>2. tail' \in [Callers -> {"quiet", "part", "junk", "end"}]
      BY <1>2 DEF IInv, TypeOK
    <3>3. UNCHANGED <<version, down, answers, bound, place, speaking, read,
                      taken, more, busy, locked, turning, stage, replies>>
      BY <1>2
    <3>4. QED
      BY <2>2, <3>1, <3>2, <3>3 DEF IInv, TypeOK
  <2>4. CountInv'
    <3>1. /\ sent \in [Callers -> Nat] /\ read \in [Callers -> Nat]
          /\ \A d \in Callers : closing[d] \subseteq Nat
      BY DEF IInv, TypeOK, Requests
    <3>2. sent' = [sent EXCEPT ![c] = @ + 1] /\ UNCHANGED <<read, taken>>
      BY <1>2
    <3>3. ASSUME NEW d \in Callers
          PROVE  /\ taken'[d] <= read'[d] /\ read'[d] <= sent'[d]
                 /\ \A n \in closing'[d] : n <= sent'[d]
      <4>1. /\ taken[d] <= read[d] /\ read[d] <= sent[d]
            /\ \A n \in closing[d] : n <= sent[d]
        BY DEF IInv, CountInv
      <4>2. \A n \in closing'[d] : n \in closing[d] \/ (d = c /\ n = sent[c] + 1)
        BY <2>2
      <4>3. sent'[d] = IF d = c THEN sent[d] + 1 ELSE sent[d]
        BY <3>1, <3>2
      <4>4. QED
        BY <3>1, <3>2, <4>1, <4>2, <4>3
    <3>4. QED
      BY <3>3 DEF CountInv
  <2>5. TurnInv' /\ BusyWhileHeld' /\ SpeakInv'
    BY <1>2 DEF IInv, TurnInv, BusyWhileHeld, SpeakInv
  <2>6. NoAnswerSwallowed' /\ OrderInv' /\ AnswersInOrder'
    BY <1>2 DEF IInv, NoAnswerSwallowed, Matched, OrderInv, AnswersInOrder
  <2>7. ReplyInv'
    BY <1>2, <2>1, <2>2 DEF IInv, TypeOK, Reply, Requests, ReplyInv
  <2>8. LastInv' /\ LastIsLast'
    <3>1. \A d \in Callers : taken[d] \in closing'[d] => taken[d] \in closing[d]
      <4>1. taken[c] # sent[c] + 1
        BY <2>1 DEF IInv, TypeOK
      <4>2. QED
        BY <2>2, <4>1
    <3>2. \A n \in closing'[c] : n \in closing[c] \/ taken[c] <= n
      BY <2>1, <2>2 DEF IInv, TypeOK
    <3>3. LastInv'
      BY <1>2, <3>1 DEF IInv, LastInv
    <3>4. LastIsLast'
      BY <1>2, <2>2, <3>2 DEF IInv, LastIsLast
    <3>5. QED
      BY <3>3, <3>4
  <2>9. QED
    BY <2>3, <2>4, <2>5, <2>6, <2>7, <2>8 DEF IInv
<1>3. CASE Begin(c) \/ Garble(c) \/ HangUp(c)
  <2> DEFINE Rest == UNCHANGED <<version, sent, closing, down, answers, bound,
                                 place, lineVars, busy, turnVars, replies>>
  <2>1. /\ \E t \in {"part", "junk", "end"} : tail' = [tail EXCEPT ![c] = t]
        /\ Rest
    BY <1>3 DEF Begin, Garble, HangUp
  <2>2. TypeOK'
    BY <2>1 DEF lineVars, turnVars, IInv, TypeOK
  <2>3. CountInv' /\ TurnInv'
    BY <2>1 DEF lineVars, turnVars, IInv, TypeOK, CountInv, TurnInv
  <2>4. BusyWhileHeld' /\ SpeakInv'
    BY <2>1 DEF lineVars, turnVars, IInv, TypeOK, BusyWhileHeld, SpeakInv
  <2>5. NoAnswerSwallowed' /\ ReplyInv'
    BY <2>1 DEF lineVars, turnVars, IInv, TypeOK, Reply, NoAnswerSwallowed,
       Matched, ReplyInv
  <2>6. OrderInv' /\ AnswersInOrder'
    BY <2>1 DEF lineVars, turnVars, IInv, TypeOK, Reply, OrderInv,
       AnswersInOrder
  <2>7. LastInv' /\ LastIsLast'
    BY <2>1 DEF lineVars, turnVars, IInv, TypeOK, LastInv, LastIsLast
  <2>8. QED
    BY <2>2, <2>3, <2>4, <2>5, <2>6, <2>7 DEF IInv
<1>4. QED
  BY <1>1, <1>2, <1>3

\* The listener, the poll and the ends of a turn that takes nothing.
LEMMA PollInductive ==
  ASSUME IInv,
         \/ Bind
         \/ \E c \in Callers : \/ Accept(c) \/ Turn(c) \/ TurnOnPoke(c)
                              \/ ReadNothing(c) \/ ReadEnds(c)
  PROVE  IInv'
<1>1. CASE Bind
  <2>1. TypeOK'
    BY <1>1 DEF Bind, callerVars, lineVars, turnVars, IInv, TypeOK
  <2>2. CountInv' /\ TurnInv'
    BY <1>1 DEF Bind, callerVars, lineVars, turnVars, IInv, TypeOK,
       CountInv, TurnInv
  <2>3. BusyWhileHeld' /\ SpeakInv'
    BY <1>1 DEF Bind, callerVars, lineVars, turnVars, IInv, TypeOK,
       BusyWhileHeld, SpeakInv
  <2>4. NoAnswerSwallowed' /\ ReplyInv'
    BY <1>1 DEF Bind, callerVars, lineVars, turnVars, IInv, TypeOK, Reply,
       NoAnswerSwallowed, Matched, ReplyInv
  <2>5. OrderInv' /\ AnswersInOrder'
    BY <1>1 DEF Bind, callerVars, lineVars, turnVars, IInv, TypeOK, Reply,
       OrderInv, AnswersInOrder
  <2>6. LastInv' /\ LastIsLast'
    BY <1>1 DEF Bind, callerVars, lineVars, turnVars, IInv, TypeOK, LastInv,
       LastIsLast
  <2>7. QED
    BY <2>1, <2>2, <2>3, <2>4, <2>5, <2>6 DEF IInv
<1>2. ASSUME NEW c \in Callers, Accept(c) PROVE IInv'
  <2>1. TypeOK'
    BY <1>2 DEF Accept, callerVars, lineVars, turnVars, IInv, TypeOK
  <2>2. CountInv' /\ TurnInv'
    BY <1>2 DEF Accept, callerVars, lineVars, turnVars, IInv, TypeOK,
       CountInv, TurnInv
  <2>3. BusyWhileHeld' /\ SpeakInv'
    BY <1>2 DEF Accept, callerVars, lineVars, turnVars, IInv, TypeOK,
       BusyWhileHeld, SpeakInv
  <2>4. NoAnswerSwallowed' /\ ReplyInv'
    BY <1>2 DEF Accept, callerVars, lineVars, turnVars, IInv, TypeOK, Reply,
       NoAnswerSwallowed, Matched, ReplyInv
  <2>5. OrderInv' /\ AnswersInOrder'
    BY <1>2 DEF Accept, callerVars, lineVars, turnVars, IInv, TypeOK, Reply,
       OrderInv, AnswersInOrder
  <2>6. LastInv' /\ LastIsLast'
    BY <1>2 DEF Accept, callerVars, lineVars, turnVars, IInv, TypeOK,
       LastInv, LastIsLast
  <2>7. QED
    BY <2>1, <2>2, <2>3, <2>4, <2>5, <2>6 DEF IInv
<1>3. ASSUME NEW c \in Callers, Turn(c) PROVE IInv'
  <2>1. TypeOK'
    BY <1>3 DEF Turn, Ready, callerVars, IInv, TypeOK
  <2>2. CountInv' /\ TurnInv'
    BY <1>3 DEF Turn, Ready, callerVars, IInv, TypeOK, CountInv, TurnInv
  <2>3. BusyWhileHeld' /\ SpeakInv'
    <3>1. BusyWhileHeld'
      BY <1>3 DEF Turn, IInv, BusyWhileHeld
    <3>2. \A d \in Callers : speaking'[d] = speaking[d]
              \/ speaking'[d] = IF version[d] = 2 THEN "two" ELSE "one"
      BY <1>3 DEF Turn, IInv, TypeOK
    <3>3. SpeakInv'
      BY <1>3, <3>2 DEF Turn, callerVars, IInv, TypeOK, SpeakInv
    <3>4. QED
      BY <3>1, <3>3
  <2>4. NoAnswerSwallowed' /\ ReplyInv'
    BY <1>3 DEF Turn, Ready, callerVars, IInv, TypeOK, Reply,
       NoAnswerSwallowed, Matched, ReplyInv
  <2>5. OrderInv' /\ AnswersInOrder'
    BY <1>3 DEF Turn, Ready, callerVars, IInv, TypeOK, Reply, OrderInv,
       AnswersInOrder
  <2>6. LastInv' /\ LastIsLast'
    BY <1>3 DEF Turn, Ready, callerVars, IInv, TypeOK, LastInv, LastIsLast
  <2>7. QED
    BY <2>1, <2>2, <2>3, <2>4, <2>5, <2>6 DEF IInv
<1>4. ASSUME NEW c \in Callers, TurnOnPoke(c) PROVE IInv'
  <2>1. TypeOK'
    BY <1>4 DEF TurnOnPoke, Ready, LetGo, callerVars, IInv, TypeOK
  <2>2. CountInv' /\ TurnInv'
    BY <1>4 DEF TurnOnPoke, Ready, LetGo, callerVars, IInv, TypeOK,
       CountInv, TurnInv
  <2>3. BusyWhileHeld' /\ SpeakInv'
    BY <1>4 DEF TurnOnPoke, Ready, LetGo, callerVars, IInv, TypeOK,
       BusyWhileHeld, SpeakInv
  <2>4. NoAnswerSwallowed' /\ ReplyInv'
    BY <1>4 DEF TurnOnPoke, Poked, Ready, LetGo, callerVars, IInv, TypeOK,
       Reply, BusyWhileHeld, NoAnswerSwallowed, Matched, ReplyInv
  <2>5. OrderInv' /\ AnswersInOrder'
    BY <1>4 DEF TurnOnPoke, Ready, LetGo, callerVars, IInv, TypeOK, Reply,
       OrderInv, AnswersInOrder
  <2>6. LastInv' /\ LastIsLast'
    BY <1>4 DEF TurnOnPoke, Ready, LetGo, callerVars, IInv, TypeOK, LastInv,
       LastIsLast
  <2>7. QED
    BY <2>1, <2>2, <2>3, <2>4, <2>5, <2>6 DEF IInv
<1>5. ASSUME NEW c \in Callers, ReadNothing(c) PROVE IInv'
  <2>1. TypeOK'
    <3>1. tail' \in [Callers -> {"quiet", "part", "junk", "end"}]
      <4>1. CASE tail' = [tail EXCEPT ![c] = "quiet"]
        BY <4>1 DEF IInv, TypeOK
      <4>2. CASE UNCHANGED tail
        BY <4>2 DEF IInv, TypeOK
      <4>3. QED
        BY <1>5, <4>1, <4>2 DEF ReadNothing
    <3>2. QED
      BY <1>5, <3>1 DEF ReadNothing, Reading, KeepOn, IInv, TypeOK
  <2>2. CountInv' /\ TurnInv'
    BY <1>5 DEF ReadNothing, Reading, KeepOn, IInv, TypeOK, CountInv,
       TurnInv
  <2>3. BusyWhileHeld' /\ SpeakInv'
    BY <1>5 DEF ReadNothing, Reading, KeepOn, IInv, TypeOK, BusyWhileHeld,
       SpeakInv
  <2>4. NoAnswerSwallowed' /\ ReplyInv'
    BY <1>5 DEF ReadNothing, Reading, KeepOn, IInv, TypeOK, Reply,
       NoAnswerSwallowed, Matched, ReplyInv
  <2>5. OrderInv' /\ AnswersInOrder'
    BY <1>5 DEF ReadNothing, Reading, KeepOn, IInv, TypeOK, Reply, OrderInv,
       AnswersInOrder
  <2>6. LastInv' /\ LastIsLast'
    BY <1>5 DEF ReadNothing, Reading, KeepOn, IInv, TypeOK, LastInv,
       LastIsLast
  <2>7. QED
    BY <2>1, <2>2, <2>3, <2>4, <2>5, <2>6 DEF IInv
<1>6. ASSUME NEW c \in Callers, ReadEnds(c) PROVE IInv'
  <2>1. TypeOK'
    BY <1>6 DEF ReadEnds, Reading, LetGo, callerVars, lineVars, IInv, TypeOK
  <2>2. CountInv' /\ TurnInv'
    BY <1>6 DEF ReadEnds, Reading, LetGo, callerVars, lineVars, IInv,
       TypeOK, CountInv, TurnInv
  <2>3. BusyWhileHeld' /\ SpeakInv'
    BY <1>6 DEF ReadEnds, Reading, LetGo, callerVars, lineVars, IInv,
       TypeOK, BusyWhileHeld, SpeakInv
  <2>4. NoAnswerSwallowed' /\ ReplyInv'
    BY <1>6 DEF ReadEnds, Reading, LetGo, callerVars, lineVars, IInv,
       TypeOK, Reply, NoAnswerSwallowed, Matched, ReplyInv
  <2>5. OrderInv' /\ AnswersInOrder'
    BY <1>6 DEF ReadEnds, Reading, LetGo, callerVars, lineVars, IInv,
       TypeOK, Reply, OrderInv, AnswersInOrder
  <2>6. LastInv' /\ LastIsLast'
    BY <1>6 DEF ReadEnds, Reading, LetGo, callerVars, lineVars, IInv,
       TypeOK, LastInv, LastIsLast
  <2>7. QED
    BY <2>1, <2>2, <2>3, <2>4, <2>5, <2>6 DEF IInv
<1>7. QED
  BY <1>1, <1>2, <1>3, <1>4, <1>5, <1>6

----------------------------------------------------------------------------
\* r is a Reply to the request taken now on c.
IsReplyTo(r, c, now) ==
    /\ r \in Reply /\ r.caller = c /\ r.n = taken[c] + 1
    /\ r.now = now /\ r.written = FALSE
    /\ version[c] = 1 => (r.last <=> taken[c] + 1 \in closing[c])
    /\ speaking[c] = "one" <=> r.stream = NoStream

\* The Reply made for the request taken now fits the line it is held on.
LEMMA ReplyToFits ==
  ASSUME IInv, NEW c \in Callers,
         speaking[c] \in {"one", "two"}, taken[c] < sent[c]
  PROVE  \A now \in BOOLEAN : IsReplyTo(ReplyTo(c, now), c, now)
<1> TAKE now \in BOOLEAN
<1>1. taken[c] + 1 \in Requests
  BY DEF IInv, TypeOK, Requests
<1>2. Last(c, taken[c] + 1) \in BOOLEAN
  BY DEF Last
<1>3. speaking[c] = "two" => version[c] = 2
  BY DEF IInv, SpeakInv
<1>4. speaking[c] = "one" => version[c] = 1
  BY DEF IInv, SpeakInv
<1> DEFINE s == IF speaking[c] = "two" THEN taken[c] + 1 ELSE NoStream
<1>5. s \in Requests \cup {NoStream}
  BY <1>1
<1>6. speaking[c] = "one" <=> s = NoStream
  BY <1>1 DEF NoStream, Requests
<1>7. ReplyTo(c, now) = [caller |-> c, n |-> taken[c] + 1, stream |-> s,
                         last |-> Last(c, taken[c] + 1), now |-> now,
                         written |-> FALSE]
  BY DEF ReplyTo
<1> HIDE DEF s
<1>8. ReplyTo(c, now) \in Reply
  BY <1>1, <1>2, <1>5, <1>7 DEF Reply
<1>9. version[c] = 1 => (Last(c, taken[c] + 1) <=> taken[c] + 1 \in closing[c])
  BY <1>3 DEF Last
<1>10. QED
  BY <1>6, <1>7, <1>8, <1>9 DEF IsReplyTo

\* A request taken: its Reply is the one of its line, the line is no longer
\* one that owes nobody, and where the request is the last the line is let
\* go or its turn is answering.
LEMMA TakeInductive ==
  ASSUME IInv, NEW c \in Callers, NEW upto \in 0..MaxRequests,
         Reading(c), speaking[c] \in {"one", "two"},
         taken[c] < upto, read[c] <= upto, upto <= sent[c],
         read' = [read EXCEPT ![c] = upto],
         more' \in [Callers -> BOOLEAN],
         Hear(c),
         UNCHANGED <<callerVars, down, answers, bound, speaking>>
  PROVE  IInv'
<1> USE DEF callerVars
<1>1. /\ stage = "reading" /\ turning = c /\ locked = {c}
      /\ place[c] = "kept" /\ ~busy[c]
      /\ \A r \in replies : r.caller # c /\ ~r.now
  BY DEF Reading, IInv, TypeOK, TurnInv, BusyWhileHeld
<1>2. taken[c] + 1 \in Requests /\ taken[c] < sent[c]
  BY DEF IInv, TypeOK, Requests
<1>3. /\ taken' = [taken EXCEPT ![c] = @ + 1]
      /\ taken' \in [Callers -> 0..MaxRequests]
      /\ read' \in [Callers -> 0..MaxRequests]
  BY <1>2 DEF Hear, IInv, TypeOK, Requests
<1>4. CountInv'
  BY <1>3 DEF IInv, TypeOK, CountInv
<1>5. SpeakInv' /\ AnswersInOrder'
  BY DEF IInv, SpeakInv, AnswersInOrder
<1>6. LastIsLast'
  <2>1. version[c] = 1 => taken[c] \notin closing[c]
    BY <1>1 DEF IInv, LastInv
  <2>2. version[c] = 1 => \A n \in closing[c] : taken[c] + 1 <= n
    BY <2>1 DEF IInv, LastIsLast, TypeOK, Requests
  <2>3. QED
    BY <1>3, <2>2 DEF IInv, LastIsLast, TypeOK
<1>7. \A now \in BOOLEAN : IsReplyTo(ReplyTo(c, now), c, now)
  BY <1>2, ReplyToFits
<1>8. ASSUME NEW now \in BOOLEAN,
             replies' = replies \cup {ReplyTo(c, now)},
             busy' = [busy EXCEPT ![c] = TRUE],
             place' \in {place, [place EXCEPT ![c] = "gone"]}
      PROVE  /\ replies' \in SUBSET Reply
             /\ BusyWhileHeld' /\ NoAnswerSwallowed' /\ ReplyInv' /\ OrderInv'
  <2> DEFINE r0 == ReplyTo(c, now)
  <2>1. /\ r0 \in Reply /\ r0.caller = c /\ r0.n = taken[c] + 1
        /\ r0.written = FALSE
        /\ version[c] = 1 => (r0.last <=> taken[c] + 1 \in closing[c])
        /\ speaking[c] = "one" <=> r0.stream = NoStream
    BY <1>7 DEF IsReplyTo
  <2>2. replies' = replies \cup {r0}
    BY <1>8
  <2> HIDE DEF r0
  <2>3. replies' \in SUBSET Reply
    BY <2>1, <2>2 DEF IInv, TypeOK
  <2>4. BusyWhileHeld'
    BY <1>1, <1>8, <2>1, <2>2 DEF IInv, TypeOK, BusyWhileHeld
  <2>5. NoAnswerSwallowed'
    BY <2>1, <2>2 DEF IInv, NoAnswerSwallowed, Matched
  <2>6. ReplyInv'
    BY <1>1, <1>3, <2>1, <2>2 DEF IInv, TypeOK, ReplyInv, Reply
  <2>7. OrderInv'
    <3>1. ~down[c] => taken[c] = Len(answers[c])
      BY <1>1 DEF IInv, OrderInv
    <3>2. \A d \in Callers : ~down[d] =>
             \A r \in replies' : r.caller = d =>
                taken'[d] = IF r.written THEN Len(answers[d])
                                         ELSE Len(answers[d]) + 1
      BY <1>1, <1>3, <2>1, <2>2, <3>1 DEF IInv, TypeOK, OrderInv
    <3>3. \A d \in Callers : ~down[d] /\ ~busy'[d] /\ place'[d] # "gone" =>
             taken'[d] = Len(answers[d])
      BY <1>3, <1>8 DEF IInv, TypeOK, OrderInv
    <3>4. QED
      BY <3>2, <3>3 DEF OrderInv
  <2>8. QED
    BY <2>3, <2>4, <2>5, <2>6, <2>7
<1>9. CASE HearWaiting(c)
  <2>1. /\ replies' = replies \cup {ReplyTo(c, FALSE)}
        /\ busy' = [busy EXCEPT ![c] = TRUE]
        /\ place' \in {place, [place EXCEPT ![c] = "gone"]}
        /\ locked' = {} /\ turning' = NoCaller /\ stage' = "polling"
        /\ Last(c, taken[c] + 1) => place' = [place EXCEPT ![c] = "gone"]
    BY <1>1, <1>9 DEF HearWaiting, LetGo, KeepOn
  <2>2. /\ replies' \in SUBSET Reply
        /\ BusyWhileHeld' /\ NoAnswerSwallowed' /\ ReplyInv' /\ OrderInv'
    BY <1>8, <2>1
  <2>3. TypeOK'
    BY <1>3, <2>1, <2>2 DEF IInv, TypeOK
  <2>4. TurnInv'
    <3>1. ReplyTo(c, FALSE).now = FALSE
      BY <1>7 DEF IsReplyTo
    <3>2. QED
      BY <1>1, <2>1, <3>1 DEF TurnInv
  <2>5. LastInv'
    <3>1. version[c] = 1 /\ taken[c] + 1 \in closing[c] => place'[c] = "gone"
      BY <2>1 DEF Last, IInv, TypeOK, SpeakInv
    <3>2. ASSUME NEW d \in Callers \ {c}, version[d] = 1, taken[d] \in closing[d]
          PROVE  place'[d] = "gone" \/ \E r \in replies' : r.caller = d /\ r.now
      <4>1. place[d] = "gone" \/ \E r \in replies : r.caller = d /\ r.now
        BY <3>2 DEF IInv, LastInv
      <4>2. place[d] = "gone" => place'[d] = "gone"
        BY <2>1 DEF IInv, TypeOK
      <4>3. QED
        BY <2>1, <4>1, <4>2
    <3>3. /\ taken'[c] = taken[c] + 1
          /\ \A d \in Callers \ {c} : taken'[d] = taken[d]
      BY <1>3 DEF IInv, TypeOK
    <3>4. QED
      BY <3>1, <3>2, <3>3 DEF LastInv
  <2>6. QED
    BY <1>4, <1>5, <1>6, <2>2, <2>3, <2>4, <2>5 DEF IInv
<1>10. CASE HearAnswered(c)
  <2>1. /\ replies' = replies \cup {ReplyTo(c, TRUE)}
        /\ busy' = [busy EXCEPT ![c] = TRUE]
        /\ place' = place
        /\ locked' = {} /\ turning' = c /\ stage' = "answering"
    BY <1>1, <1>10 DEF HearAnswered
  <2>2. /\ replies' \in SUBSET Reply
        /\ BusyWhileHeld' /\ NoAnswerSwallowed' /\ ReplyInv' /\ OrderInv'
    BY <1>8, <2>1
  <2>3. TypeOK'
    BY <1>3, <2>1, <2>2 DEF IInv, TypeOK
  <2>4. ReplyTo(c, TRUE).now = TRUE /\ ReplyTo(c, TRUE).caller = c
    BY <1>7 DEF IsReplyTo
  <2>5. TurnInv'
    BY <1>1, <2>1, <2>4 DEF TurnInv
  <2>6. LastInv'
    BY <1>1, <1>3, <2>1, <2>4 DEF IInv, TypeOK, LastInv
  <2>7. QED
    BY <1>4, <1>5, <1>6, <2>2, <2>3, <2>5, <2>6 DEF IInv
<1>11. CASE HearUnheld(c)
  <2>1. /\ UNCHANGED <<replies, busy>>
        /\ place' = [place EXCEPT ![c] = "gone"]
        /\ locked' = {} /\ turning' = NoCaller /\ stage' = "polling"
    BY <1>1, <1>11 DEF HearUnheld, LetGo
  <2>2. TypeOK'
    BY <1>3, <2>1 DEF IInv, TypeOK
  <2>3. TurnInv' /\ BusyWhileHeld' /\ NoAnswerSwallowed'
    BY <1>1, <2>1 DEF IInv, TurnInv, BusyWhileHeld, NoAnswerSwallowed, Matched
  <2>4. ReplyInv' /\ OrderInv' /\ LastInv'
    BY <1>1, <1>3, <2>1
    DEF IInv, TypeOK, Reply, ReplyInv, OrderInv, LastInv
  <2>5. QED
    BY <1>4, <1>5, <1>6, <2>2, <2>3, <2>4 DEF IInv
<1>12. QED
  BY <1>9, <1>10, <1>11 DEF Hear

----------------------------------------------------------------------------
\* The one reply of a connection, and the turn of one that is answered now.
LEMMA OneReply ==
  ASSUME IInv, NEW r \in replies
  PROVE  /\ r \in Reply /\ r.caller \in Callers /\ busy[r.caller]
         /\ \A s \in replies : s.caller = r.caller => s = r
         /\ \A s \in replies : s.now /\ r.now => s = r
         /\ r.now => /\ stage = "answering" /\ turning = r.caller
                     /\ place[r.caller] = "kept"
<1>1. r \in Reply /\ r.caller \in Callers
  BY DEF IInv, TypeOK, Reply
<1>2. busy[r.caller] /\ \A s \in replies : s.caller = r.caller => s = r
  BY <1>1 DEF IInv, BusyWhileHeld
<1>3. \A s \in replies : s.now => stage = "answering" /\ turning = s.caller
  BY DEF IInv, TurnInv
<1>4. r.now => place[r.caller] = "kept"
  BY <1>3 DEF IInv, TurnInv
<1>5. QED
  BY <1>1, <1>2, <1>3, <1>4

\* An answer written is that of the request its reply remembers, the next
\* in order.
LEMMA WrittenInductive ==
  ASSUME IInv, NEW r \in replies, NEW header \in BOOLEAN, Written(r, header)
  PROVE  IInv'
<1> DEFINE c == r.caller
           w == [r EXCEPT !.written = TRUE]
<1>1. /\ r \in Reply /\ c \in Callers /\ busy[c]
      /\ \A s \in replies : s.caller = c => s = r
  BY OneReply
<1>2. /\ w \in Reply /\ w.caller = c /\ w.n = r.n /\ w.last = r.last
      /\ w.now = r.now /\ w.written = TRUE /\ r.n \in Requests
  BY <1>1 DEF Reply
<1>3. ~r.written /\ Matched(r) /\ ~down[c]
  BY DEF Written, IInv, NoAnswerSwallowed
<1>4. /\ answers' = [answers EXCEPT ![c] = Append(@, r.n)]
      /\ replies' = (replies \ {r}) \cup {w}
      /\ \/ UNCHANGED <<speaking, down>>
         \/ /\ speaking' = [speaking EXCEPT ![c] = "spent"]
            /\ down' = [down EXCEPT ![c] = TRUE]
      /\ UNCHANGED <<callerVars, bound, place, read, taken, more, busy, turnVars>>
  BY <1>3 DEF Written
<1> HIDE DEF c, w
<1>5. r.n = taken[c] /\ taken[c] = Len(answers[c]) + 1
  BY <1>1, <1>3 DEF IInv, ReplyInv, OrderInv, c
<1>6. /\ answers[c] \in Seq(Requests)
      /\ Append(answers[c], r.n) \in Seq(Requests)
      /\ Len(Append(answers[c], r.n)) = Len(answers[c]) + 1
      /\ Append(answers[c], r.n)[Len(answers[c]) + 1] = r.n
      /\ \A i \in 1..Len(answers[c]) : Append(answers[c], r.n)[i] = answers[c][i]
  BY <1>1, <1>2 DEF IInv, TypeOK
<1>7. /\ answers' \in [Callers -> Seq(Requests)]
      /\ answers'[c] = Append(answers[c], r.n)
      /\ \A d \in Callers \ {c} : answers'[d] = answers[d]
  BY <1>1, <1>4, <1>6 DEF IInv, TypeOK
<1>8. /\ speaking' \in [Callers -> {"unheard", "one", "two", "spent"}]
      /\ down' \in [Callers -> BOOLEAN]
      /\ \A d \in Callers : speaking'[d] = speaking[d]
                            \/ (d = c /\ speaking'[d] = "spent")
      /\ \A d \in Callers : down'[d] = down[d] \/ (d = c /\ down'[d])
  <2>1. speaking \in [Callers -> {"unheard", "one", "two", "spent"}]
    BY DEF IInv, TypeOK
  <2>2. down \in [Callers -> BOOLEAN]
    BY DEF IInv, TypeOK
  <2>3. CASE UNCHANGED <<speaking, down>>
    BY <2>1, <2>2, <2>3
  <2>4. CASE /\ speaking' = [speaking EXCEPT ![c] = "spent"]
             /\ down' = [down EXCEPT ![c] = TRUE]
    BY <1>1, <2>1, <2>2, <2>4
  <2>5. QED
    BY <1>4, <2>3, <2>4
<1>9. TypeOK'
  BY <1>2, <1>4, <1>7, <1>8 DEF IInv, TypeOK, callerVars, turnVars
<1>10. CountInv' /\ LastIsLast'
  BY <1>4 DEF IInv, CountInv, LastIsLast, callerVars
<1>11. TurnInv'
  BY <1>1, <1>2, <1>4 DEF IInv, TurnInv, turnVars, c
<1>12. BusyWhileHeld'
  BY <1>1, <1>2, <1>4 DEF IInv, BusyWhileHeld
<1>13. SpeakInv'
  BY <1>4, <1>8 DEF IInv, SpeakInv, callerVars
<1>14. NoAnswerSwallowed'
  <2>1. \A s \in replies' : ~s.written =>
           s \in replies /\ s.caller \in Callers /\ s.caller # c
    BY <1>1, <1>2, <1>4 DEF IInv, TypeOK, Reply
  <2>2. \A s \in replies' : ~s.written => speaking'[s.caller] = speaking[s.caller]
    BY <1>8, <2>1
  <2>3. QED
    BY <2>1, <2>2 DEF IInv, NoAnswerSwallowed, Matched
<1>15. ReplyInv'
  BY <1>1, <1>2, <1>4 DEF IInv, ReplyInv, callerVars, c
<1>16. OrderInv'
  <2>1. taken'[c] = Len(answers'[c]) /\ busy'[c]
    BY <1>1, <1>4, <1>5, <1>6, <1>7
  <2>2. \A s \in replies' : s.caller = c => s = w
    BY <1>1, <1>4
  <2>3. QED
    BY <1>2, <1>4, <1>7, <1>8, <2>1, <2>2 DEF IInv, OrderInv
<1>17. AnswersInOrder'
  <2>1. \A i \in 1..Len(answers'[c]) : answers'[c][i] = i
    <3>1. Len(answers'[c]) = Len(answers[c]) + 1 /\ Len(answers[c]) \in Nat
      BY <1>6, <1>7
    <3>2. \A i \in 1..Len(answers[c]) : answers[c][i] = i
      BY <1>1 DEF IInv, AnswersInOrder
    <3>3. \A i \in 1..Len(answers'[c]) :
             i \in 1..Len(answers[c]) \/ i = Len(answers[c]) + 1
      BY <3>1
    <3>4. QED
      BY <1>5, <1>6, <1>7, <3>2, <3>3
  <2>2. QED
    BY <1>7, <2>1 DEF IInv, AnswersInOrder
<1>18. LastInv'
  BY <1>1, <1>2, <1>4 DEF IInv, LastInv, callerVars, c
<1>19. QED
  BY <1>9, <1>10, <1>11, <1>12, <1>13, <1>14, <1>15, <1>16, <1>17, <1>18
  DEF IInv

\* A hold that ends - answered, failed or let go - leaves its connection
\* answered in full or down, and after the last request no longer kept.
LEMMA HoldEndsInductive ==
  ASSUME IInv, NEW r \in replies,
         Released(r) \/ WriteFails(r) \/ Dropped(r)
  PROVE  IInv'
<1> DEFINE c == r.caller
<1>1. /\ r \in Reply /\ c \in Callers /\ busy[c]
      /\ \A s \in replies : s.caller = c => s = r
      /\ \A s \in replies : s.now /\ r.now => s = r
      /\ r.now => stage = "answering" /\ turning = c /\ place[c] = "kept"
  BY OneReply
<1>2. /\ replies' = replies \ {r}
      /\ busy' = [busy EXCEPT ![c] = FALSE]
      /\ UNCHANGED <<callerVars, answers, bound, lineVars>>
      /\ (down' = down /\ r.written) \/ down' = [down EXCEPT ![c] = TRUE]
  BY DEF Released, WriteFails, Dropped
<1>3. \/ ~r.now /\ UNCHANGED <<place, turnVars>>
      \/ r.now /\ LetGo(c)
      \/ r.now /\ ~r.last /\ r.written /\ KeepOn(c)
  BY <1>1 DEF Released, WriteFails, Dropped, Reply
<1>4. /\ r.now => locked' = {} /\ turning' = NoCaller /\ stage' = "polling"
      /\ ~r.now => UNCHANGED <<place, turnVars>>
      /\ place' \in {place, [place EXCEPT ![c] = "gone"]}
      /\ r.now => place'[c] = "gone" \/ ~r.last
  <2>1. r.now => locked = {}
    BY <1>1 DEF IInv, TurnInv
  <2>2. QED
    BY <1>1, <1>3, <2>1 DEF LetGo, KeepOn, IInv, TypeOK
<1> HIDE DEF c
<1>5. \A d \in Callers : down'[d] = down[d] \/ (d = c /\ down'[d])
  BY <1>1, <1>2 DEF IInv, TypeOK
<1>6. TypeOK'
  <2>1. /\ replies' \in SUBSET Reply
        /\ busy' \in [Callers -> BOOLEAN] /\ down' \in [Callers -> BOOLEAN]
    BY <1>1, <1>2 DEF IInv, TypeOK
  <2>2. /\ place' \in [Callers -> {"away", "queued", "kept", "gone"}]
        /\ locked' \in SUBSET Callers /\ turning' \in Callers \cup {NoCaller}
        /\ stage' \in {"polling", "reading", "answering"}
    <3>1. place' \in [Callers -> {"away", "queued", "kept", "gone"}]
      BY <1>4 DEF IInv, TypeOK
    <3>2. QED
      BY <1>4, <3>1 DEF IInv, TypeOK, turnVars
  <2>3. QED
    BY <1>2, <2>1, <2>2 DEF IInv, TypeOK, callerVars, lineVars
<1>7. CountInv' /\ SpeakInv' /\ AnswersInOrder' /\ LastIsLast'
  BY <1>2
  DEF IInv, CountInv, SpeakInv, AnswersInOrder, LastIsLast, callerVars,
      lineVars
<1>8. BusyWhileHeld'
  <2>1. ~busy'[c] /\ \A d \in Callers \ {c} : busy'[d] = busy[d]
    BY <1>1, <1>2 DEF IInv, TypeOK
  <2>2. \A d \in Callers \ {c} :
           {s \in replies' : s.caller = d} = {s \in replies : s.caller = d}
    BY <1>2 DEF c
  <2>3. {s \in replies' : s.caller = c} = {}
    BY <1>1, <1>2
  <2>4. QED
    BY <2>1, <2>2, <2>3 DEF IInv, BusyWhileHeld
<1>9. NoAnswerSwallowed' /\ ReplyInv'
  BY <1>2
  DEF IInv, NoAnswerSwallowed, Matched, ReplyInv, callerVars, lineVars
<1>10. TurnInv'
  <2>1. CASE r.now
    BY <2>1, <1>1, <1>2, <1>4 DEF IInv, TurnInv
  <2>2. CASE ~r.now
    BY <2>2, <1>1, <1>2, <1>4 DEF IInv, TypeOK, TurnInv, turnVars
  <2>3. QED
    BY <2>1, <2>2
<1>11. OrderInv'
  <2>1. ~down'[c] => taken[c] = Len(answers[c])
    BY <1>1, <1>2 DEF IInv, TypeOK, OrderInv, c
  <2>2. \A d \in Callers : place'[d] # "gone" => place[d] # "gone"
    BY <1>1, <1>4 DEF IInv, TypeOK
  <2>3. \A d \in Callers \ {c} : busy'[d] = busy[d]
    BY <1>1, <1>2 DEF IInv, TypeOK
  <2>4. QED
    BY <1>1, <1>2, <1>5, <2>1, <2>2, <2>3
    DEF IInv, TypeOK, OrderInv, lineVars
<1>12. LastInv'
  <2>1. version[c] = 1 /\ taken[c] \in closing[c] => place'[c] = "gone"
    <3>1. CASE r.now
      BY <3>1, <1>1, <1>4 DEF IInv, ReplyInv, Reply, c
    <3>2. CASE ~r.now
      BY <3>2, <1>1, <1>4 DEF IInv, LastInv
    <3>3. QED
      BY <3>1, <3>2
  <2>2. \A d \in Callers : place[d] = "gone" => place'[d] = "gone"
    BY <1>1, <1>4 DEF IInv, TypeOK
  <2>3. QED
    BY <1>1, <1>2, <2>1, <2>2
    DEF IInv, LastInv, callerVars, lineVars, c
<1>13. QED
  BY <1>6, <1>7, <1>8, <1>9, <1>10, <1>11, <1>12 DEF IInv

----------------------------------------------------------------------------
\* Every step leaves IInv true.
LEMMA Inductive == IInv /\ [Next]_vars => IInv'
<1> SUFFICES ASSUME IInv, [Next]_vars PROVE IInv'
  OBVIOUS
<1>1. CASE Bind \/ \E c \in Callers : \/ Accept(c) \/ Turn(c) \/ TurnOnPoke(c)
                                    \/ ReadNothing(c) \/ ReadEnds(c)
  BY <1>1, PollInductive
<1>2. ASSUME NEW c \in Callers,
             Connect(c) \/ Send(c) \/ Begin(c) \/ Garble(c) \/ HangUp(c)
      PROVE  IInv'
  BY <1>2, CallerInductive
<1>3. ASSUME NEW c \in Callers, ReadRequest(c) PROVE IInv'
  <2>1. PICK upto \in IF read[c] > taken[c] THEN {read[c]}
                                            ELSE taken[c] + 1..sent[c] :
           read' = [read EXCEPT ![c] = upto]
    BY <1>3 DEF ReadRequest
  <2>2. /\ upto \in 0..MaxRequests /\ taken[c] < upto /\ read[c] <= upto
        /\ upto <= sent[c]
    BY <1>3, <2>1 DEF IInv, TypeOK, CountInv
  <2>3. more' \in [Callers -> BOOLEAN]
    BY <1>3 DEF ReadRequest, IInv, TypeOK
  <2>4. QED
    BY <1>3, <2>1, <2>2, <2>3, TakeInductive DEF ReadRequest
<1>4. ASSUME NEW c \in Callers, ReadFrame(c) PROVE IInv'
  <2>1. PICK upto \in 0..MaxRequests :
           /\ read' = [read EXCEPT ![c] = upto]
           /\ taken[c] < upto /\ read[c] <= upto /\ upto <= sent[c]
    <3>1. CASE more[c]
      <4>1. taken[c] < read[c] /\ read' = read
        BY <1>4, <3>1 DEF ReadFrame
      <4>2. read' = [read EXCEPT ![c] = read[c]]
        BY <4>1 DEF IInv, TypeOK
      <4>3. /\ read[c] \in 0..MaxRequests /\ read[c] <= read[c]
            /\ read[c] <= sent[c] /\ taken[c] < read[c]
        BY <4>1 DEF IInv, TypeOK, CountInv
      <4>4. QED
        BY <4>2, <4>3, Zenon
    <3>2. CASE ~more[c]
      <4>1. PICK upto \in read[c] + 1..sent[c] : read' = [read EXCEPT ![c] = upto]
        BY <1>4, <3>2 DEF ReadFrame
      <4>2. /\ upto \in 0..MaxRequests /\ taken[c] < upto /\ read[c] <= upto
            /\ upto <= sent[c]
        BY <4>1 DEF IInv, TypeOK, CountInv
      <4>3. QED
        BY <4>1, <4>2
    <3>3. QED
      BY <3>1, <3>2
  <2>2. more' \in [Callers -> BOOLEAN]
    BY <1>4 DEF ReadFrame, IInv, TypeOK
  <2>3. QED
    BY <1>4, <2>1, <2>2, TakeInductive DEF ReadFrame
<1>5. ASSUME NEW r \in replies, Answers(r) \/ Dropped(r) PROVE IInv'
  BY <1>5, WrittenInductive, HoldEndsInductive DEF Answers
<1>6. CASE UNCHANGED vars
  BY <1>6
  DEF vars, callerVars, lineVars, turnVars, IInv, TypeOK, CountInv, TurnInv,
      BusyWhileHeld, SpeakInv, NoAnswerSwallowed, Matched, ReplyInv, OrderInv,
      AnswersInOrder, LastInv, LastIsLast
<1>7. QED
  BY <1>1, <1>2, <1>3, <1>4, <1>5, <1>6 DEF Next, Takes

\* IInv holds of every state the Receive Location reaches.
THEOREM Invariant == SafeSpec => []IInv
  BY InitInductive, Inductive, PTL DEF SafeSpec

\* Every variable keeps its type, whoever interleaves.
THEOREM TypeCorrect == SafeSpec => []TypeOK
<1>1. IInv => TypeOK
  BY DEF IInv
<1>2. QED
  BY <1>1, Invariant, PTL

\* On every connection the answers are written in the order of the requests,
\* none skipped or repeated.
THEOREM AnsweredInOrder == SafeSpec => []AnswersInOrder
<1>1. IInv => AnswersInOrder
  BY DEF IInv
<1>2. QED
  BY <1>1, Invariant, PTL

\* `written` never reaches its last arm: no verdict says Ok unwritten.
THEOREM NoVerdictSwallowed == SafeSpec => []NoAnswerSwallowed
<1>1. IInv => NoAnswerSwallowed
  BY DEF IInv
<1>2. QED
  BY <1>1, Invariant, PTL

\* A connection is busy exactly while its one Reply is held.
THEOREM BusyAsHeld == SafeSpec => []BusyWhileHeld
<1>1. IInv => BusyWhileHeld
  BY DEF IInv
<1>2. QED
  BY <1>1, Invariant, PTL

\* No request is taken after one that says it is the last.
THEOREM NoneAfterLast == SafeSpec => []LastIsLast
<1>1. IInv => LastIsLast
  BY DEF IInv
<1>2. QED
  BY <1>1, Invariant, PTL

----------------------------------------------------------------------------
\* What is not heard yet has read nothing; what is not kept yet is unheard;
\* and no finished HTTP/2 request of a kept connection is stranded.
StrandInv ==
    /\ \A c \in Callers :
        /\ speaking[c] = "unheard" => read[c] = 0
        /\ place[c] \in {"away", "queued"} => speaking[c] = "unheard"
    /\ NothingStranded

\* StrandInv is preserved where IInv holds.
LEMMA StrandInductive == IInv /\ StrandInv /\ [Next]_vars => StrandInv'
<1> SUFFICES ASSUME IInv, StrandInv, [Next]_vars PROVE StrandInv'
  OBVIOUS
<1> USE DEF StrandInv, NothingStranded, Waiting
<1>1. /\ speaking \in [Callers -> {"unheard", "one", "two", "spent"}]
      /\ place \in [Callers -> {"away", "queued", "kept", "gone"}]
      /\ more \in [Callers -> BOOLEAN]
      /\ read \in [Callers -> 0..MaxRequests]
      /\ taken \in [Callers -> 0..MaxRequests]
  BY DEF IInv, TypeOK
<1>2. CASE \/ Bind
           \/ \E c \in Callers : Send(c) \/ Begin(c) \/ Garble(c) \/ HangUp(c)
           \/ UNCHANGED vars
  <2>1. UNCHANGED <<place, lineVars>>
    BY <1>2 DEF Bind, Send, Begin, Garble, HangUp, vars
  <2>2. QED
    BY <2>1 DEF lineVars
<1>3. ASSUME NEW c \in Callers, Connect(c) \/ Accept(c) PROVE StrandInv'
  <2>1. /\ UNCHANGED lineVars /\ speaking[c] = "unheard"
        /\ \E to \in {"queued", "kept", "gone"} : place' = [place EXCEPT ![c] = to]
    BY <1>3 DEF Connect, Accept
  <2>2. QED
    BY <1>1, <2>1 DEF lineVars
<1>4. ASSUME NEW c \in Callers, Turn(c) PROVE StrandInv'
  <2>1. /\ UNCHANGED <<place, read, taken, more>> /\ place[c] = "kept"
        /\ \E v \in {"one", "two"} :
              speaking' = [speaking EXCEPT ![c] = IF @ # "unheard" THEN @ ELSE v]
    BY <1>4 DEF Turn, Ready
  <2>2. read[c] = 0 => ~(read[c] > taken[c])
    BY <1>1
  <2>3. QED
    BY <1>1, <2>1, <2>2
<1>5. ASSUME NEW c \in Callers, TurnOnPoke(c) PROVE StrandInv'
  <2>1. /\ UNCHANGED <<read, taken, more>>
        /\ place' = [place EXCEPT ![c] = "gone"]
        /\ speaking' = [speaking EXCEPT ![c] = "spent"]
    BY <1>5 DEF TurnOnPoke, LetGo
  <2>2. QED
    BY <1>1, <2>1
<1>6. ASSUME NEW c \in Callers, ReadRequest(c) \/ ReadFrame(c) PROVE StrandInv'
  <2>1. /\ speaking' = speaking /\ speaking[c] \in {"one", "two"}
        /\ more' = more \/ more' = [more EXCEPT ![c] = TRUE]
        /\ speaking[c] = "two" => more' = [more EXCEPT ![c] = TRUE]
    BY <1>6 DEF ReadRequest, ReadFrame
  <2>2. \A d \in Callers \ {c} : read'[d] = read[d] /\ taken'[d] = taken[d]
    BY <1>1, <1>6 DEF ReadRequest, ReadFrame, Hear
  <2>3. \A d \in Callers : place'[d] \in {place[d], "gone"}
    BY <1>1, <1>6 DEF ReadRequest, ReadFrame, Hear, HearWaiting, HearAnswered,
                      HearUnheld, LetGo, KeepOn
  <2>4. \A d \in Callers \ {c} : more'[d] = more[d]
    BY <1>1, <2>1
  <2>5. speaking[c] = "two" => more'[c]
    BY <1>1, <2>1
  <2>6. ASSUME NEW d \in Callers PROVE
           /\ speaking'[d] = "unheard" => read'[d] = 0
           /\ place'[d] \in {"away", "queued"} => speaking'[d] = "unheard"
    BY <2>1, <2>2, <2>3
  <2>7. NothingStranded'
    BY <2>1, <2>2, <2>3, <2>4, <2>5
  <2>8. QED
    BY <2>6, <2>7
<1>7. ASSUME NEW c \in Callers, ReadNothing(c) PROVE StrandInv'
  <2>1. /\ UNCHANGED <<place, speaking, read, taken>>
        /\ more' = [more EXCEPT ![c] = FALSE]
        /\ speaking[c] = "two" /\ (taken[c] = read[c] \/ ~more[c])
    BY <1>7 DEF ReadNothing, Reading, KeepOn
  <2>2. place[c] = "kept" => ~(read[c] > taken[c])
    BY <1>1, <2>1
  <2>3. QED
    BY <1>1, <2>1, <2>2
<1>8. ASSUME NEW c \in Callers, ReadEnds(c) PROVE StrandInv'
  <2>1. UNCHANGED lineVars /\ place' = [place EXCEPT ![c] = "gone"]
    BY <1>8 DEF ReadEnds, LetGo
  <2>2. QED
    BY <1>1, <2>1 DEF lineVars
<1>9. ASSUME NEW r \in replies, NEW header \in BOOLEAN, Written(r, header)
      PROVE  StrandInv'
  <2>1. r.caller \in Callers
    BY OneReply
  <2>2. /\ UNCHANGED <<read, taken, more, place>>
        /\ speaking[r.caller] \in {"one", "two"}
        /\ speaking' \in {speaking, [speaking EXCEPT ![r.caller] = "spent"]}
    BY <1>9 DEF Written, IInv, NoAnswerSwallowed, Matched
  <2>3. QED
    BY <1>1, <2>1, <2>2
<1>10. ASSUME NEW r \in replies, Released(r) \/ WriteFails(r) \/ Dropped(r)
       PROVE  StrandInv'
  <2>1. r.caller \in Callers
    BY OneReply
  <2>2. /\ UNCHANGED lineVars
        /\ place' \in {place, [place EXCEPT ![r.caller] = "gone"]}
    BY <1>10 DEF Released, WriteFails, Dropped, LetGo, KeepOn
  <2>3. QED
    BY <1>1, <2>1, <2>2 DEF lineVars
<1>11. QED
  BY <1>2, <1>3, <1>4, <1>5, <1>6, <1>7, <1>8, <1>9, <1>10
  DEF Next, Takes, Answers

\* A request read whole and not taken is one the poll comes back for.
THEOREM NoneStranded == SafeSpec => []NothingStranded
<1>1. Init => StrandInv
  BY DEF Init, StrandInv, NothingStranded, Waiting
<1>2. StrandInv => NothingStranded
  BY DEF StrandInv
<1>3. QED
  BY <1>1, <1>2, Invariant, StrandInductive, PTL DEF SafeSpec

----------------------------------------------------------------------------
\* Inbound implements CallerWaits, step by step (safety; the promise that an
\* owed caller is settled rests on fairness and is model-checked).

\* What a step may leave of the promise untouched: nobody is taken or told.
LEMMA Unspoken ==
  ASSUME NEW c \in Callers, UNCHANGED <<taken, answers>>,
         \A d \in Callers \ {c} : Open(d)' = Open(d),
         Open(c) \in BOOLEAN, Open(c)' \in BOOLEAN, Open(c)' => Open(c)
  PROVE  [Promise!Next]_(Promise!vars)
<1>1. CASE Open(c)' = Open(c)
  <2>1. [d \in Callers |-> Open(d)]' = [d \in Callers |-> Open(d)]
    BY <1>1
  <2>2. QED
    BY <2>1 DEF Promise!vars
<1>2. CASE Open(c) /\ ~Open(c)'
  <2>1. [d \in Callers |-> Open(d)]'
            = [[d \in Callers |-> Open(d)] EXCEPT ![c] = FALSE]
    BY <1>2
  <2>2. Promise!LetGo(c)
    BY <1>2, <2>1 DEF Promise!LetGo
  <2>3. QED
    BY <2>2 DEF Promise!Next
<1>3. QED
  BY <1>1, <1>2

\* A request taken where nothing is owed, or where nobody is told any more.
LEMMA Taken ==
  ASSUME IInv, NEW c \in Callers, Reading(c), Hear(c), UNCHANGED <<answers, down>>
  PROVE  Promise!Next
<1>1. /\ place[c] = "kept" /\ ~busy[c] /\ stage = "reading" /\ turning = c
      /\ \A r \in replies : r.caller # c
  BY DEF Reading, IInv, TypeOK, TurnInv, BusyWhileHeld
<1>2. /\ Open(c) => taken[c] = Len(answers[c])
      /\ taken' = [taken EXCEPT ![c] = @ + 1]
  BY <1>1 DEF Open, IInv, OrderInv, Hear
<1>3. [d \in Callers |-> Len(answers[d])]' = [d \in Callers |-> Len(answers[d])]
  OBVIOUS
<1>4. ASSUME NEW now \in BOOLEAN, replies' = replies \cup {ReplyTo(c, now)},
             place' \in {place, [place EXCEPT ![c] = "gone"]}
      PROVE  Promise!Take(c)
  <2>1. ReplyTo(c, now).caller = c
    BY DEF ReplyTo
  <2>2. \A d \in Callers : Open(d)' = Open(d)
    BY <1>1, <1>4, <2>1 DEF Open, IInv, TypeOK
  <2>3. [d \in Callers |-> Open(d)]' = [d \in Callers |-> Open(d)]
    BY <2>2
  <2>4. QED
    BY <1>2, <1>3, <2>3 DEF Promise!Take
<1>5. CASE HearWaiting(c)
  BY <1>4, <1>5 DEF HearWaiting, LetGo, KeepOn, Promise!Next
<1>6. CASE HearAnswered(c)
  BY <1>4, <1>6 DEF HearAnswered, Promise!Next
<1>7. CASE HearUnheld(c)
  <2>1. replies' = replies /\ place' = [place EXCEPT ![c] = "gone"]
    BY <1>7 DEF HearUnheld, LetGo
  <2>2. Open(c)' = FALSE /\ \A d \in Callers \ {c} : Open(d)' = Open(d)
    BY <1>1, <2>1 DEF Open, IInv, TypeOK
  <2>3. CASE Open(c)
    <3>1. [d \in Callers |-> Open(d)]'
              = [[d \in Callers |-> Open(d)] EXCEPT ![c] = FALSE]
      BY <2>2, <2>3
    <3>2. Promise!LetGo(c)
      BY <1>2, <1>3, <2>3, <3>1 DEF Promise!LetGo
    <3>3. QED
      BY <3>2 DEF Promise!Next
  <2>4. CASE ~Open(c)
    <3>1. Open(c)' = Open(c)
      BY <2>2, <2>4 DEF Open
    <3>2. [d \in Callers |-> Open(d)]' = [d \in Callers |-> Open(d)]
      BY <2>2, <3>1
    <3>3. Promise!Take(c)
      BY <1>2, <1>3, <2>4, <3>2 DEF Promise!Take
    <3>4. QED
      BY <3>3 DEF Promise!Next
  <2>5. QED
    BY <2>3, <2>4
<1>8. QED
  BY <1>5, <1>6, <1>7 DEF Hear

\* An answer written tells the one caller that is owed one.
LEMMA Told ==
  ASSUME IInv, NEW r \in replies, NEW header \in BOOLEAN, Written(r, header)
  PROVE  Promise!Next
<1> DEFINE c == r.caller
           w == [r EXCEPT !.written = TRUE]
<1>1. r \in Reply /\ c \in Callers /\ w.caller = c
  BY OneReply DEF Reply
<1>2. /\ ~r.written /\ Matched(r) /\ ~down[c]
      /\ answers' = [answers EXCEPT ![c] = Append(@, r.n)]
      /\ down' = down \/ down' = [down EXCEPT ![c] = TRUE]
      /\ replies' = (replies \ {r}) \cup {w}
      /\ UNCHANGED <<place, taken>>
  BY DEF Written, IInv, NoAnswerSwallowed
<1>3. Open(c) /\ taken[c] = Len(answers[c]) + 1
  BY <1>1, <1>2 DEF Open, IInv, OrderInv, c
<1>4. [d \in Callers |-> Len(answers[d])]'
          = [[d \in Callers |-> Len(answers[d])] EXCEPT ![c] = @ + 1]
  <2>1. answers[c] \in Seq(Requests) /\ r.n \in Requests
    BY <1>1 DEF IInv, TypeOK, Reply
  <2>2. Len(answers'[c]) = Len(answers[c]) + 1
    BY <1>1, <1>2, <2>1 DEF IInv, TypeOK
  <2>3. \A d \in Callers \ {c} : answers'[d] = answers[d]
    BY <1>1, <1>2 DEF IInv, TypeOK
  <2>4. QED
    BY <1>1, <2>2, <2>3
<1> HIDE DEF c, w
<1>5. \A d \in Callers \ {c} : Open(d)' = Open(d)
  <2>1. \A d \in Callers \ {c} :
           (\E s \in replies' : s.caller = d) <=> (\E s \in replies : s.caller = d)
    BY <1>1, <1>2 DEF c
  <2>2. \A d \in Callers \ {c} : down'[d] = down[d]
    BY <1>1, <1>2 DEF IInv, TypeOK
  <2>3. QED
    BY <1>2, <2>1, <2>2 DEF Open
<1>6. Open(c)' = ~down'[c]
  <2>1. w \in replies'
    BY <1>2
  <2>2. QED
    BY <1>1, <1>2, <2>1 DEF Open, IInv, TypeOK
<1>7. \/ [d \in Callers |-> Open(d)]' = [d \in Callers |-> Open(d)]
      \/ [d \in Callers |-> Open(d)]'
              = [[d \in Callers |-> Open(d)] EXCEPT ![c] = FALSE]
  <2>1. CASE down'[c]
    <3>1. Open(c)' = FALSE
      BY <1>6, <2>1
    <3>2. QED
      BY <1>1, <1>5, <3>1
  <2>2. CASE ~down'[c]
    <3>1. Open(c)' = Open(c)
      BY <1>3, <1>6, <2>2 DEF Open
    <3>2. QED
      BY <1>5, <3>1
  <2>3. QED
    BY <2>1, <2>2
<1>8. Promise!Tell(c)
  BY <1>1, <1>2, <1>3, <1>4, <1>7 DEF Promise!Tell
<1>9. QED
  BY <1>1, <1>8 DEF Promise!Next

\* Every step of Inbound is one of CallerWaits, or none.
LEMMA StepMaps == IInv /\ [Next]_vars => [Promise!Next]_(Promise!vars)
<1> SUFFICES ASSUME IInv, [Next]_vars PROVE [Promise!Next]_(Promise!vars)
  OBVIOUS
<1>1. \A c \in Callers : Open(c) \in BOOLEAN /\ Open(c)' \in BOOLEAN
  BY DEF Open
<1>2. CASE \/ Bind \/ UNCHANGED vars
           \/ \E c \in Callers : \/ Send(c) \/ Begin(c) \/ Garble(c)
                                \/ HangUp(c) \/ Turn(c) \/ ReadNothing(c)
  <2>1. UNCHANGED <<taken, answers, down, place, replies>>
    BY <1>2 DEF Bind, vars, Send, Begin, Garble, HangUp, Turn, ReadNothing,
                KeepOn, callerVars, lineVars, turnVars
  <2>2. \A d \in Callers : Open(d)' = Open(d)
    BY <2>1 DEF Open
  <2>3. [d \in Callers |-> Open(d)]' = [d \in Callers |-> Open(d)]
    BY <2>2
  <2>4. QED
    BY <2>1, <2>3 DEF Promise!vars
<1>3. ASSUME NEW c \in Callers,
             Connect(c) \/ Accept(c) \/ TurnOnPoke(c) \/ ReadEnds(c)
      PROVE  [Promise!Next]_(Promise!vars)
  <2>1. /\ UNCHANGED <<taken, answers, down, replies>>
        /\ \A d \in Callers \ {c} : place'[d] = place[d]
        /\ place[c] = "gone" => place'[c] = "gone"
    BY <1>3 DEF Connect, Accept, TurnOnPoke, Ready, ReadEnds, LetGo, lineVars,
                IInv, TypeOK
  <2>2. (\A d \in Callers \ {c} : Open(d)' = Open(d)) /\ (Open(c)' => Open(c))
    BY <2>1 DEF Open
  <2>3. QED
    BY <1>1, <2>1, <2>2, Unspoken
<1>4. ASSUME NEW c \in Callers, ReadRequest(c) \/ ReadFrame(c)
      PROVE  Promise!Next
  BY <1>4, Taken DEF ReadRequest, ReadFrame
<1>5. ASSUME NEW r \in replies, NEW header \in BOOLEAN, Written(r, header)
      PROVE  Promise!Next
  BY <1>5, Told
<1>6. ASSUME NEW r \in replies, Released(r) \/ WriteFails(r) \/ Dropped(r)
      PROVE  [Promise!Next]_(Promise!vars)
  <2> DEFINE c == r.caller
  <2>1. c \in Callers
    BY OneReply
  <2>2. /\ UNCHANGED <<taken, answers>> /\ replies' = replies \ {r}
        /\ \A d \in Callers \ {c} : down'[d] = down[d]
        /\ down[c] => down'[c]
        /\ \A d \in Callers \ {c} : place'[d] = place[d]
        /\ place[c] = "gone" => place'[c] = "gone"
    BY <1>6, <2>1 DEF Released, WriteFails, Dropped, LetGo, KeepOn, lineVars,
                      IInv, TypeOK
  <2>3. \A d \in Callers \ {c} :
           (\E s \in replies' : s.caller = d) <=> (\E s \in replies : s.caller = d)
    BY <2>2
  <2>4. (\A d \in Callers \ {c} : Open(d)' = Open(d)) /\ (Open(c)' => Open(c))
    BY <2>1, <2>2, <2>3 DEF Open, IInv, TypeOK
  <2>5. QED
    BY <1>1, <2>1, <2>2, <2>4, Unspoken
<1>7. QED
  BY <1>2, <1>3, <1>4, <1>5, <1>6 DEF Next, Takes, Answers

\* The Receive Location implements the promise made to callers: one request
\* at a time, each answered before the next is taken, in order.
THEOREM KeepsPromise == SafeSpec => ImplementsPromiseSafely
<1>1. Init => Promise!Init
  <2> SUFFICES ASSUME Init PROVE Promise!Init
    OBVIOUS
  <2>1. [c \in Callers |-> Len(answers[c])] = [c \in Callers |-> 0]
    BY DEF Init
  <2>2. [c \in Callers |-> Open(c)] = [c \in Callers |-> TRUE]
    BY DEF Init, Open
  <2>3. QED
    BY <2>1, <2>2 DEF Init, Promise!Init
<1>2. QED
  BY <1>1, Invariant, StepMaps, PTL
  DEF SafeSpec, ImplementsPromiseSafely, Promise!SafeSpec
=============================================================================
