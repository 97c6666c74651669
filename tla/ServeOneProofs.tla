--------------------------- MODULE ServeOneProofs ---------------------------
(***************************************************************************)
(* Proofs about ServeOne, for any clients, slow and mute ones among them,  *)
(* and any number of requests: a client of a far end that serves one       *)
(* request a connection has a request on one that carries no other only    *)
(* after an HTTP/1.1 answer that said the connection is kept.              *)
(***************************************************************************)
EXTENDS ServeOne, SequenceTheorems, TLAPS

\* The connection served is one, only an HTTP/2 one is closed by waiting for
\* its client, and only an HTTP/1.1 one is dropped.
ServingInv ==
    /\ \A c \in Clients : line[c] = "served" <=> serving = c
    /\ step = "accepting" <=> serving = NoClient
    /\ step = "closing" => version[serving] = 2
    /\ step = "dropping" => version[serving] = 1

\* A client that waits holds its connection, and what is held was opened.
HeldInv ==
    \A c \in Clients : /\ waiting[c] => holds[c]
                       /\ holds[c] => line[c] # "none"

\* What the far end may have written to a client whose request it read, as
\* far as the client has not read it: GOAWAY before the answer, over HTTP/2.
Written(c) ==
    IF version[c] = 2 /\ ~away[c]
    THEN {IF Spent(c) THEN <<"goaway", "answer">> ELSE <<"goaway">>}
    ELSE IF Spent(c) THEN {<<word>> : word \in Says(c)} ELSE {<<>>}

\* A client that waits for nothing has nothing on its connection, and none
\* to use where the far end ends it, but for an HTTP/1.1 one it was told is
\* kept; a request not read is on a connection that will read it, but for one
\* told so, or for a client the far end did not wait for; and one that was
\* read is answered, or will be.
WireOf(c) ==
    /\ ~waiting[c] =>
        /\ unread[c] = 0 /\ wire[c] = <<>>
        /\ serving = c => step # "answering"
        /\ serving = c /\ step = "closing" => ~holds[c] \/ away[c]
        /\ serving = c /\ step = "dropping" => ~holds[c] \/ kept[c]
    /\ waiting[c] /\ unread[c] = 1 =>
        /\ wire[c] = <<>> /\ ~away[c]
        /\ serving = c => step = "reading" \/ (step = "dropping" /\ kept[c])
        /\ line[c] = "closed" => c \in Slow \/ kept[c]
    /\ waiting[c] /\ unread[c] = 0 =>
        /\ line[c] \in {"served", "closed"}
        /\ serving = c => step # "reading"
        /\ wire[c] \in Written(c)

WireInv == \A c \in Clients : WireOf(c)

IInv == TypeOK /\ ServingInv /\ HeldInv /\ WireInv

----------------------------------------------------------------------------
\* What is written is read in its order.
LEMMA Words ==
  /\ Head(<<"goaway", "answer">>) = "goaway"
  /\ Tail(<<"goaway", "answer">>) = <<"answer">>
  /\ \A w \in {"goaway", "answer", "keeps"} :
        /\ Head(<<w>>) = w /\ Tail(<<w>>) = <<>>
        /\ Append(<<>>, w) = <<w>>
        /\ <<w>> # <<>>
        /\ <<w>> \in Seq({"goaway", "answer", "keeps"})
  /\ Append(<<"goaway">>, "answer") = <<"goaway", "answer">>
  /\ <<>> \o <<"goaway">> = <<"goaway">>
  /\ <<>> \o <<>> = <<>>
  /\ <<"goaway", "answer">> # <<>>
  /\ <<"goaway", "answer">> \in Seq({"goaway", "answer", "keeps"})
  /\ <<>> \in Seq({"goaway", "answer", "keeps"})
<1> DEFINE All == {"goaway", "answer", "keeps"}
<1>1. <<>> \o <<"goaway">> = <<"goaway">> /\ <<>> \o <<>> = <<>>
  <2>1. <<"goaway">> \in Seq(All)
    OBVIOUS
  <2>2. <<>> \in Seq(All)
    BY EmptySeq
  <2>3. QED
    BY <2>1, <2>2, ConcatEmptySeq
<1>2. Append(<<"goaway">>, "answer") = <<"goaway", "answer">>
  <2> DEFINE s == Append(<<"goaway">>, "answer")
             t == <<"goaway", "answer">>
  <2>1. <<"goaway">> \in Seq(All)
    OBVIOUS
  <2>2. /\ s \in Seq(All) /\ Len(s) = 2
        /\ s[1] = "goaway" /\ s[2] = "answer"
    BY <2>1, AppendProperties
  <2>3. /\ t \in Seq(All) /\ Len(t) = 2
        /\ t[1] = "goaway" /\ t[2] = "answer"
    OBVIOUS
  <2>4. \A i \in 1..Len(s) : s[i] = t[i]
    BY <2>2, <2>3
  <2> HIDE DEF s, t
  <2>5. s = t
    BY <2>2, <2>3, <2>4, SeqEqual
  <2>6. QED
    BY <2>5 DEF s, t
<1>3. /\ Head(<<"goaway", "answer">>) = "goaway"
      /\ Tail(<<"goaway", "answer">>) = <<"answer">>
      /\ <<"goaway", "answer">> # <<>>
  OBVIOUS
<1>4. ASSUME NEW w \in All
      PROVE  /\ Head(<<w>>) = w /\ Tail(<<w>>) = <<>>
             /\ Append(<<>>, w) = <<w>>
             /\ <<w>> # <<>>
             /\ <<w>> \in Seq(All)
  OBVIOUS
<1>5. <<"goaway", "answer">> \in Seq(All) /\ <<>> \in Seq(All)
  OBVIOUS
<1>6. QED
  BY <1>1, <1>2, <1>3, <1>4, <1>5

\* What an answer says is one of the words.
LEMMA SaysWords ==
  ASSUME NEW c, NEW word \in Says(c)
  PROVE  /\ word \in {"answer", "keeps"}
         /\ version[c] = 2 => word = "answer"
BY DEF Says

\* Nothing of a client's is disturbed by what is done to another's.
LEMMA Frame ==
  ASSUME NEW u, WireOf(u), waiting[u] \in BOOLEAN, waiting'[u] = waiting[u],
         version'[u] = version[u], unread'[u] = unread[u], wire'[u] = wire[u],
         holds'[u] = holds[u], away'[u] = away[u], kept'[u] = kept[u],
         line'[u] = line[u],
         serving' = u <=> serving = u, serving = u => step' = step
  PROVE  WireOf(u)'
BY DEF WireOf, Written, Spent, Says

----------------------------------------------------------------------------
\* The clients' steps.

\* A client asks, on the connection it keeps or on another.
LEMMA AskInductive ==
  ASSUME IInv, NEW c \in Clients, Ask(c) \/ ConnectMute(c)
  PROVE  IInv'
<1> USE DEF IInv
<1>1. /\ ~waiting[c] /\ unread[c] = 0 /\ wire[c] = <<>>
      /\ asked[c] < MaxAsks /\ asked' = [asked EXCEPT ![c] = @ + 1]
      /\ holds' = [holds EXCEPT ![c] = TRUE]
      /\ away' = [away EXCEPT ![c] = FALSE]
      /\ kept' = [kept EXCEPT ![c] = Usable(c) /\ @]
      /\ line' = [line EXCEPT ![c] = IF Usable(c) THEN @ ELSE "queued"]
      /\ wire' = [wire EXCEPT ![c] = IF Usable(c) THEN @ ELSE <<>>]
      /\ UNCHANGED <<version, serving, step>>
      /\ Usable(c) \/ line[c] \in {"none", "closed"}
  BY DEF Ask, ConnectMute, Asks, Connects, WireInv, WireOf
<1>2. \/ /\ waiting' = [waiting EXCEPT ![c] = TRUE]
         /\ unread' = [unread EXCEPT ![c] = 1]
      \/ waiting' = waiting /\ unread' = unread
  <2>1. CASE Ask(c)
    BY <1>1, <2>1 DEF Ask, TypeOK
  <2>2. CASE ConnectMute(c)
    BY <2>2 DEF ConnectMute
  <2>3. QED
    BY <2>1, <2>2
<1>3. asked' \in [Clients -> 0..MaxAsks]
  BY <1>1, BoundAssumption DEF TypeOK
<1>4. wire' = wire
  BY <1>1 DEF TypeOK
<1>5. TypeOK'
  <2>1. line' \in [Clients -> {"none", "queued", "served", "closed"}]
    BY <1>1 DEF TypeOK
  <2>2. /\ waiting' \in [Clients -> BOOLEAN] /\ unread' \in [Clients -> 0..1]
    <3>1. CASE /\ waiting' = [waiting EXCEPT ![c] = TRUE]
               /\ unread' = [unread EXCEPT ![c] = 1]
      <4>1. waiting' \in [Clients -> BOOLEAN]
        BY <3>1 DEF TypeOK
      <4>2. unread' \in [Clients -> 0..1]
        BY <3>1 DEF TypeOK
      <4>3. QED
        BY <4>1, <4>2
    <3>2. CASE waiting' = waiting /\ unread' = unread
      BY <3>2 DEF TypeOK
    <3>3. QED
      BY <1>2, <3>1, <3>2
  <2>3. /\ holds' \in [Clients -> BOOLEAN] /\ away' \in [Clients -> BOOLEAN]
        /\ kept' \in [Clients -> BOOLEAN]
    BY <1>1 DEF TypeOK, Usable
  <2>4. QED
    BY <1>1, <1>3, <1>4, <2>1, <2>2, <2>3 DEF TypeOK
<1>6. line'[c] = "served" <=> line[c] = "served"
  BY <1>1 DEF TypeOK
<1>7. ServingInv'
  BY <1>1, <1>6 DEF ServingInv, TypeOK
<1>8. HeldInv'
  <2>1. ASSUME NEW u \in Clients
        PROVE  (waiting'[u] => holds'[u]) /\ (holds'[u] => line'[u] # "none")
    <3>1. CASE u = c
      BY <1>1, <3>1 DEF HeldInv, TypeOK, Usable
    <3>2. CASE u # c
      <4>1. /\ waiting'[u] = waiting[u] /\ holds'[u] = holds[u]
            /\ line'[u] = line[u]
        BY <1>1, <1>2, <3>2 DEF TypeOK
      <4>2. QED
        BY <4>1 DEF HeldInv
    <3>3. QED
      BY <3>1, <3>2
  <2>2. QED
    BY <2>1 DEF HeldInv
<1>9. ASSUME NEW u \in Clients PROVE WireOf(u)'
  <2>1. CASE u # c
    BY <1>1, <1>2, <1>4, <2>1, Frame DEF TypeOK, WireInv
  <2>2. CASE u = c
    <3>1. serving = c => step = "reading" \/ (step = "dropping" /\ kept'[c])
      <4>1. CASE serving = c
        <5>1. line[c] = "served"
          BY <4>1 DEF ServingInv
        <5>2. Usable(c)
          BY <1>1, <5>1
        <5>3. step = "reading" \/ (step = "dropping" /\ kept[c])
          BY <1>1, <4>1, <5>2, NoClientAssumption
             DEF Usable, WireInv, WireOf, ServingInv, TypeOK
        <5>4. QED
          BY <1>1, <5>2, <5>3 DEF TypeOK
      <4>2. QED
        BY <4>1
    <3>2. line'[c] # "closed"
      BY <1>1 DEF Usable, TypeOK
    <3>3. wire'[c] = <<>> /\ unread'[c] \in 0..1 /\ waiting'[c] \in BOOLEAN
      BY <1>1, <1>4, <1>5 DEF TypeOK
    <3>4. ~waiting'[c] => unread'[c] = 0
      BY <1>1, <1>2 DEF TypeOK
    <3>5. waiting'[c] => unread'[c] = 1
      BY <1>1, <1>2 DEF TypeOK
    <3>6. ~away'[c]
      BY <1>1 DEF TypeOK
    <3>7. QED
      BY <1>1, <2>2, <3>1, <3>2, <3>3, <3>4, <3>5, <3>6 DEF WireOf
  <2>3. QED
    BY <2>1, <2>2
<1>10. QED
  BY <1>5, <1>7, <1>8, <1>9 DEF WireInv

\* A client lets its connection go.
LEMMA HangUpInductive ==
  ASSUME IInv, NEW c \in Clients, HangUp(c)
  PROVE  IInv'
<1> USE DEF IInv
<1>1. /\ ~waiting[c] /\ holds' = [holds EXCEPT ![c] = FALSE]
      /\ UNCHANGED <<version, asked, waiting, away, kept, line, unread, wire,
                     serving, step>>
  BY DEF HangUp
<1>2. TypeOK' /\ ServingInv' /\ HeldInv'
  BY <1>1 DEF TypeOK, ServingInv, HeldInv
<1>3. ASSUME NEW u \in Clients PROVE WireOf(u)'
  <2>1. CASE u # c
    BY <1>1, <2>1, Frame DEF TypeOK, WireInv
  <2>2. CASE u = c
    BY <1>1, <2>2 DEF TypeOK, WireInv, WireOf
  <2>3. QED
    BY <2>1, <2>2
<1>4. QED
  BY <1>2, <1>3 DEF WireInv

\* What a client reads was written to it after its request was read, or
\* there was nothing to read and its request is on a closed connection.
LEMMA ReadsInductive ==
  ASSUME IInv, NEW c \in Clients, Reads(c)
  PROVE  IInv'
<1> USE DEF IInv
<1>1. /\ waiting[c] /\ WireOf(c) /\ unread[c] \in 0..1 /\ c # NoClient
      /\ UNCHANGED <<version, asked, line, serving, step>>
  BY NoClientAssumption
     DEF Reads, ReadGoAway, ReadAnswer, ReadEnd, TypeOK, WireInv
<1>2. CASE ReadGoAway(c)
  <2>1. /\ wire[c] # <<>> /\ Head(wire[c]) = "goaway"
        /\ away' = [away EXCEPT ![c] = TRUE]
        /\ wire' = [wire EXCEPT ![c] = Tail(wire[c])]
        /\ UNCHANGED <<waiting, holds, kept, unread>>
    BY <1>2 DEF ReadGoAway
  <2>2. unread[c] = 0 /\ wire[c] \in Written(c)
    BY <1>1, <2>1 DEF WireOf
  <2>3. version[c] = 2 /\ ~away[c]
    BY <2>1, <2>2, Words, SaysWords DEF Written
  <2>4. Tail(wire[c]) = IF Spent(c) THEN <<"answer">> ELSE <<>>
    BY <2>2, <2>3, Words DEF Written
  <2>5. Tail(wire[c]) \in Written(c)'
    BY <1>1, <2>1, <2>3, <2>4 DEF Written, Spent, Says, TypeOK
  <2>6. TypeOK'
    BY <1>1, <2>1, <2>4, Words DEF TypeOK
  <2>7. ServingInv' /\ HeldInv'
    BY <1>1, <2>1 DEF ServingInv, HeldInv
  <2>8. ASSUME NEW u \in Clients PROVE WireOf(u)'
    <3>1. CASE u # c
      BY <1>1, <2>1, <3>1, Frame DEF TypeOK, WireInv
    <3>2. CASE u = c
      <4>1. wire'[c] \in Written(c)'
        BY <2>1, <2>5 DEF TypeOK
      <4>2. QED
        BY <1>1, <2>1, <2>2, <3>2, <4>1 DEF WireOf
    <3>3. QED
      BY <3>1, <3>2
  <2>9. QED
    BY <2>6, <2>7, <2>8 DEF WireInv
<1>3. CASE ReadAnswer(c)
  <2>1. /\ wire[c] # <<>> /\ Head(wire[c]) \in {"answer", "keeps"}
        /\ waiting' = [waiting EXCEPT ![c] = FALSE]
        /\ kept' = [kept EXCEPT ![c] = Head(wire[c]) = "keeps"]
        /\ holds' = [holds EXCEPT
             ![c] = IF version[c] = 2 THEN ~away[c] ELSE kept'[c]]
        /\ wire' = [wire EXCEPT ![c] = Tail(wire[c])]
        /\ UNCHANGED <<away, unread>>
    BY <1>3 DEF ReadAnswer
  <2>2. unread[c] = 0 /\ wire[c] \in Written(c)
    BY <1>1, <2>1 DEF WireOf
  <2>3. ~(version[c] = 2 /\ ~away[c]) /\ Spent(c) /\ Tail(wire[c]) = <<>>
    BY <2>1, <2>2, Words, SaysWords DEF Written
  <2>4. version[c] \in {1, 2} /\ kept'[c] \in BOOLEAN
    BY <2>1 DEF TypeOK
  <2>5. TypeOK'
    <3>1. kept' \in [Clients -> BOOLEAN] /\ holds' \in [Clients -> BOOLEAN]
      BY <2>1, <2>4 DEF TypeOK
    <3>2. wire' \in [Clients -> Seq({"goaway", "answer", "keeps"})]
      BY <2>1, <2>3, Words DEF TypeOK
    <3>3. QED
      BY <1>1, <2>1, <3>1, <3>2 DEF TypeOK
  <2>6. line[c] # "none"
    BY <1>1 DEF HeldInv
  <2>7. ServingInv' /\ HeldInv'
    BY <1>1, <2>1, <2>6 DEF ServingInv, HeldInv, TypeOK
  <2>8. ASSUME NEW u \in Clients PROVE WireOf(u)'
    <3>1. CASE u # c
      BY <1>1, <2>1, <3>1, Frame DEF TypeOK, WireInv
    <3>2. CASE u = c
      <4>1. /\ wire'[c] = <<>> /\ ~waiting'[c]
            /\ holds'[c] => IF version[c] = 2 THEN ~away[c] ELSE kept'[c]
        BY <2>1, <2>3 DEF TypeOK
      <4>2. serving = c => step \in {"closing", "dropping"}
        BY <2>3 DEF Spent, ServingInv
      <4>3. /\ serving = c /\ step = "closing" => ~holds'[c] \/ away[c]
            /\ serving = c /\ step = "dropping" => ~holds'[c] \/ kept'[c]
        BY <2>3, <2>4, <4>1 DEF ServingInv
      <4>4. QED
        BY <1>1, <2>1, <2>2, <3>2, <4>1, <4>2, <4>3 DEF WireOf
    <3>3. QED
      BY <3>1, <3>2
  <2>9. QED
    BY <2>5, <2>7, <2>8 DEF WireInv
<1>4. CASE ReadEnd(c)
  <2>1. /\ wire[c] = <<>> /\ line[c] = "closed"
        /\ waiting' = [waiting EXCEPT ![c] = FALSE]
        /\ holds' = [holds EXCEPT ![c] = FALSE]
        /\ unread' = [unread EXCEPT ![c] = 0]
        /\ UNCHANGED <<away, kept, wire>>
    BY <1>4 DEF ReadEnd
  <2>2. TypeOK'
    BY <1>1, <2>1 DEF TypeOK
  <2>3. ServingInv' /\ HeldInv' /\ serving # c
    BY <1>1, <2>1 DEF ServingInv, HeldInv, TypeOK
  <2>4. ASSUME NEW u \in Clients PROVE WireOf(u)'
    <3>1. CASE u # c
      BY <1>1, <2>1, <3>1, Frame DEF TypeOK, WireInv
    <3>2. CASE u = c
      <4>1. wire'[c] = <<>> /\ ~waiting'[c] /\ unread'[c] = 0
        BY <2>1 DEF TypeOK
      <4>2. QED
        BY <1>1, <2>3, <3>2, <4>1 DEF WireOf
    <3>3. QED
      BY <3>1, <3>2
  <2>5. QED
    BY <2>2, <2>3, <2>4 DEF WireInv
<1>5. QED
  BY <1>2, <1>3, <1>4 DEF Reads

----------------------------------------------------------------------------
\* The far end's steps.

\* A connection that is dropped is no longer served, and its client told all
\* it will be.
LEMMA EndedInductive ==
  ASSUME IInv, NEW c \in Clients, serving = c, Ended,
         UNCHANGED <<version, asked, waiting, holds, away, kept, unread>>,
         TypeOK', WireOf(c)',
         \A u \in Clients : u # c => wire'[u] = wire[u]
  PROVE  IInv'
<1> USE DEF IInv
<1>1. /\ line' = [line EXCEPT ![c] = "closed"] /\ serving' = NoClient
      /\ step' = "accepting"
  BY DEF Ended
<1>2. ServingInv' /\ HeldInv'
  BY <1>1, NoClientAssumption DEF TypeOK, ServingInv, HeldInv
<1>3. ASSUME NEW u \in Clients, u # c PROVE WireOf(u)'
  BY <1>1, <1>3, NoClientAssumption, Frame DEF TypeOK, WireInv
<1>4. QED
  BY <1>2, <1>3 DEF WireInv

\* The far end accepts the next connection.
LEMMA AcceptInductive ==
  ASSUME IInv, NEW c \in Clients, Accept(c)
  PROVE  IInv'
<1> USE DEF IInv
<1>1. /\ step = "accepting" /\ line[c] = "queued" /\ serving = NoClient
      /\ line' = [line EXCEPT ![c] = "served"] /\ serving' = c
      /\ step' = "reading"
      /\ UNCHANGED <<version, asked, waiting, holds, away, kept, unread, wire>>
  BY DEF Accept, clientVars, ServingInv
<1>2. TypeOK'
  BY <1>1 DEF TypeOK
<1>3. ServingInv' /\ HeldInv'
  BY <1>1, NoClientAssumption DEF TypeOK, ServingInv, HeldInv
<1>4. ASSUME NEW u \in Clients PROVE WireOf(u)'
  <2>1. CASE u # c
    BY <1>1, <2>1, NoClientAssumption, Frame DEF TypeOK, WireInv
  <2>2. CASE u = c
    <3>1. line'[c] = "served"
      BY <1>1 DEF TypeOK
    <3>2. waiting[c] => unread[c] = 1
      <4>1. unread[c] \in 0..1 /\ WireOf(c)
        BY DEF WireInv, TypeOK
      <4>2. QED
        BY <1>1, <4>1 DEF WireOf
    <3>3. QED
      BY <1>1, <2>2, <3>1, <3>2 DEF WireInv, WireOf
  <2>3. QED
    BY <2>1, <2>2
<1>5. QED
  BY <1>2, <1>3, <1>4 DEF WireInv

\* It reads the request, and says what goes ahead of the answer.
LEMMA ReadInductive ==
  ASSUME IInv, Read
  PROVE  IInv'
<1> USE DEF IInv
<1>1. PICK c \in Clients : c = serving
  BY NoClientAssumption DEF Read, ServingInv, TypeOK
<1>2. /\ unread[c] = 1 /\ line[c] = "served"
      /\ unread' = [unread EXCEPT ![c] = 0]
      /\ wire' = [wire EXCEPT ![c] = @ \o SaidFirst(c)]
      /\ step = "reading" /\ step' = "answering"
      /\ UNCHANGED <<version, asked, waiting, holds, away, kept, line, serving>>
  BY <1>1 DEF Read, clientVars, ServingInv
<1>3. waiting[c] /\ wire[c] = <<>>
  BY <1>1, <1>2 DEF WireInv, WireOf, TypeOK
<1>4. wire' = [wire EXCEPT ![c] = SaidFirst(c)]
  <2>1. <<>> \o SaidFirst(c) = SaidFirst(c)
    BY Words DEF SaidFirst
  <2>2. QED
    BY <1>2, <1>3, <2>1 DEF TypeOK
<1>5. TypeOK'
  <2>1. SaidFirst(c) \in Seq({"goaway", "answer", "keeps"})
    BY Words DEF SaidFirst
  <2>2. QED
    BY <1>2, <1>4, <2>1 DEF TypeOK
<1>6. ServingInv' /\ HeldInv'
  BY <1>1, <1>2, NoClientAssumption DEF TypeOK, ServingInv, HeldInv
<1>7. ASSUME NEW u \in Clients PROVE WireOf(u)'
  <2>1. CASE u # c
    BY <1>1, <1>2, <1>4, <2>1, Frame DEF TypeOK, WireInv
  <2>2. CASE u = c
    <3>1. ~Spent(c)'
      BY <1>2 DEF Spent
    <3>2. ~away[c]
      BY <1>1, <1>2, <1>3 DEF WireInv, WireOf
    <3>3. wire'[c] \in Written(c)'
      BY <1>2, <1>4, <3>1, <3>2 DEF Written, SaidFirst, TypeOK
    <3>4. unread'[c] = 0
      BY <1>2 DEF TypeOK
    <3>5. QED
      BY <1>1, <1>2, <1>3, <2>2, <3>3, <3>4 DEF WireOf
  <2>3. QED
    BY <2>1, <2>2
<1>8. QED
  BY <1>5, <1>6, <1>7 DEF WireInv

\* It writes the answer, on a connection it reads no further.
LEMMA AnswerInductive ==
  ASSUME IInv, Answer
  PROVE  IInv'
<1> USE DEF IInv
<1>1. PICK c \in Clients : c = serving
  BY NoClientAssumption DEF Answer, ServingInv, TypeOK
<1>2. PICK word \in Says(c) : wire' = [wire EXCEPT ![c] = Append(@, word)]
  BY <1>1 DEF Answer
<1>3. /\ step = "answering" /\ line[c] = "served"
      /\ step' = IF version[c] = 2 THEN "closing" ELSE "dropping"
      /\ UNCHANGED <<version, asked, waiting, holds, away, kept, line, unread,
                     serving>>
  BY <1>1 DEF Answer, clientVars, ServingInv
<1>4. waiting[c] /\ unread[c] = 0 /\ wire[c] \in Written(c) /\ ~Spent(c)
  BY <1>1, <1>3 DEF WireInv, WireOf, TypeOK, Spent
<1>5. Spent(c)'
  BY <1>1, <1>3 DEF Spent
<1>6. word \in {"answer", "keeps"} /\ (version[c] = 2 => word = "answer")
  BY <1>2, SaysWords
<1>7. Append(wire[c], word) \in Written(c)'
  <2>1. CASE version[c] = 2 /\ ~away[c]
    BY <1>3, <1>4, <1>5, <1>6, <2>1, Words DEF Written
  <2>2. CASE ~(version[c] = 2 /\ ~away[c])
    <3>1. wire[c] = <<>>
      BY <1>4, <2>2 DEF Written
    <3>2. Append(wire[c], word) = <<word>>
      BY <1>6, <3>1, Words
    <3>3. Written(c)' = {<<w>> : w \in Says(c)}
      BY <1>3, <1>5, <2>2 DEF Written, Says
    <3>4. QED
      BY <1>2, <3>2, <3>3
  <2>3. QED
    BY <2>1, <2>2
<1>8. wire'[c] \in Written(c)'
  BY <1>2, <1>7 DEF TypeOK
<1>9. TypeOK'
  <2>1. wire' \in [Clients -> Seq({"goaway", "answer", "keeps"})]
    <3>1. Append(wire[c], word) \in Seq({"goaway", "answer", "keeps"})
      BY <1>6, AppendProperties DEF TypeOK
    <3>2. QED
      BY <1>2, <3>1 DEF TypeOK
  <2>2. QED
    BY <1>1, <1>3, <2>1 DEF TypeOK
<1>10. ServingInv' /\ HeldInv'
  BY <1>1, <1>3, NoClientAssumption DEF TypeOK, ServingInv, HeldInv
<1>11. ASSUME NEW u \in Clients PROVE WireOf(u)'
  <2>1. CASE u # c
    BY <1>1, <1>2, <1>3, <2>1, Frame DEF TypeOK, WireInv
  <2>2. CASE u = c
    BY <1>1, <1>3, <1>4, <1>8, <2>2 DEF WireOf
  <2>3. QED
    BY <2>1, <2>2
<1>12. QED
  BY <1>9, <1>10, <1>11 DEF WireInv

\* A connection is dropped, read or closed no further, only where its client
\* waits for nothing on it but what it was told it may ask, or took longer
\* than the timeout, or has its answer.
LEMMA GoneInductive ==
  ASSUME IInv, ReadFails \/ Drop \/ Close
  PROVE  IInv'
<1> USE DEF IInv
<1>1. PICK c \in Clients : c = serving
  BY NoClientAssumption DEF ReadFails, Drop, Close, ServingInv, TypeOK
<1>2. /\ step \in {"reading", "dropping", "closing"}
      /\ step = "dropping" \/ ~holds[c] \/ c \in Slow
      /\ Ended /\ line[c] = "served"
      /\ UNCHANGED <<version, asked, waiting, holds, away, kept, unread, wire>>
  BY <1>1 DEF ReadFails, Drop, Close, Gone, clientVars, ServingInv
<1>3. TypeOK'
  BY <1>1, <1>2 DEF Ended, TypeOK
<1>4. /\ line'[c] = "closed" /\ serving' # c /\ Spent(c)'
  BY <1>1, <1>2, NoClientAssumption DEF Ended, TypeOK, Spent
<1>5. waiting[c] => step = "dropping" \/ c \in Slow
  BY <1>2 DEF HeldInv
<1>6. waiting[c] /\ unread[c] = 1 => c \in Slow \/ kept[c]
  BY <1>1, <1>5 DEF WireInv, WireOf
<1>7. waiting[c] /\ unread[c] = 0 => Spent(c)
  BY <1>1, <1>2 DEF WireInv, WireOf, Spent
<1>8. waiting[c] /\ unread[c] = 0 => wire'[c] \in Written(c)'
  BY <1>2, <1>4, <1>7 DEF WireInv, WireOf, Written, Says
<1>9. WireOf(c)'
  BY <1>2, <1>4, <1>6, <1>8 DEF WireInv, WireOf, TypeOK
<1>10. QED
  BY <1>1, <1>2, <1>3, <1>9, EndedInductive

----------------------------------------------------------------------------
\* The theorems.

\* ServeOne starts in IInv.
LEMMA InitInductive == Init => IInv
<1> SUFFICES ASSUME Init PROVE IInv
  OBVIOUS
<1>1. TypeOK
  BY BoundAssumption, Words DEF Init, TypeOK
<1>2. ServingInv /\ HeldInv
  BY NoClientAssumption DEF Init, ServingInv, HeldInv
<1>3. WireInv
  BY DEF Init, WireInv, WireOf
<1>4. QED
  BY <1>1, <1>2, <1>3 DEF IInv

\* Where each request is, and what was written of it, whoever does what.
THEOREM Invariant == Spec => []IInv
<1>1. IInv /\ [Next]_vars => IInv'
  <2> SUFFICES ASSUME IInv, [Next]_vars PROVE IInv'
    OBVIOUS
  <2>1. CASE Next
    BY <2>1, AskInductive, HangUpInductive, ReadsInductive, AcceptInductive,
       ReadInductive, AnswerInductive, GoneInductive DEF Next, Serves
  <2>2. CASE UNCHANGED vars
    <3>1. UNCHANGED <<version, asked, waiting, holds, away, kept, line, unread,
                      wire, serving, step>>
      BY <2>2 DEF vars, clientVars
    <3>2. TypeOK' /\ ServingInv' /\ HeldInv'
      BY <3>1 DEF IInv, TypeOK, ServingInv, HeldInv
    <3>3. WireInv'
      BY <3>1, Frame DEF IInv, TypeOK, WireInv
    <3>4. QED
      BY <3>2, <3>3 DEF IInv
  <2>3. QED
    BY <2>1, <2>2
<1>2. QED
  BY <1>1, InitInductive, PTL DEF Spec

\* Every variable keeps its type: no connection ever holds two requests.
THEOREM TypeCorrect == Spec => []TypeOK
BY Invariant, PTL DEF IInv

\* A request is on a connection that carries no other only where its answer
\* is there or an HTTP/1.1 answer said the connection is kept; over HTTP/2 what
\* a client was told before its answer keeps it from there (server::answer_on).
THEOREM StrandsNone == Spec => []NoneStranded
<1>1. IInv => NoneStranded
  <2> SUFFICES ASSUME IInv, NEW c \in Clients \ Slow, waiting[c], Spent(c)
               PROVE  IF unread[c] = 0 THEN wire[c] # <<>>
                                       ELSE kept[c] /\ wire[c] = <<>>
    BY DEF NoneStranded
  <2>1. WireOf(c) /\ unread[c] \in 0..1
    BY DEF IInv, WireInv, TypeOK
  <2>2. CASE unread[c] = 0
    <3>1. wire[c] \in Written(c)
      BY <2>1, <2>2 DEF WireOf
    <3>2. wire[c] # <<>>
      BY <3>1, Words, SaysWords DEF Written
    <3>3. QED
      BY <2>2, <3>2
  <2>3. CASE unread[c] = 1
    BY <2>1, <2>3 DEF WireOf, Spent
  <2>4. QED
    BY <2>1, <2>2, <2>3
<1>2. QED
  BY <1>1, Invariant, PTL
=============================================================================
