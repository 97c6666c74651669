-------------------------- MODULE EventWireProofs --------------------------
(***************************************************************************)
(* Proofs about EventWire, for any Parties, webhooks, tokens, and bounds   *)
(* on events and sends: no event is passed over but where its own exchange *)
(* failed for good, and what is read off a request is the event that was   *)
(* published.                                                              *)
(***************************************************************************)
EXTENDS EventWire, SequenceTheorems, FunctionTheorems, FiniteSetTheorems, TLAPS

Typing ==
    /\ head \in [Parties -> Nat \ {0}]
    /\ carries \in [Parties -> Seq(1..MaxEvents)]
    /\ asked \in [Parties -> Nat]
    /\ told \in [Parties -> {"never", "asking", "answer", "stray", "failed"}]
    /\ outcome \in [Parties -> Outcomes]
    /\ said \in [Parties -> SUBSET Answers]
    /\ \A a \in arrived : a.of \in Parties \X (1..MaxEvents)

Arrived(p, k) == \E b \in arrived : b.of = <<p, k>>

\* Each exchange carries the event that was forwarded as it began, the last
\* one the event forwarded still where it has not ended; none is begun for a
\* Party without a webhook.
CarriesInv ==
    \A p \in Parties :
        /\ Len(carries[p]) = asked[p]
        /\ \A n \in 1..asked[p] : carries[p][n] <= head[p]
        /\ told[p] = "asking" => asked[p] > 0 /\ carries[p][asked[p]] = head[p]
        /\ webhooks[p] = NoWebhook => asked[p] = 0

\* The Forwarder goes on only from an event that arrived or failed for good,
\* and nothing is said of one that did not arrive.
ForwardInv ==
    \A p \in Parties : webhooks[p] # NoWebhook =>
        /\ \A k \in 1..head[p] - 1 : Arrived(p, k) \/ <<p, k>> \in dropped
        /\ told[p] = "asking" /\ said[p] # {} => Arrived(p, head[p])

\* What arrived was forwarded.
ArrivedInv ==
    \A a \in arrived : /\ webhooks[a.of[1]] # NoWebhook
                       /\ a.of[2] <= head[a.of[1]]

IInv == Typing /\ CarriesInv /\ ForwardInv /\ ArrivedInv

----------------------------------------------------------------------------
\* The sender's steps.

\* The Forwarder has the head of its queue carried once more.
LEMMA CarryInductive ==
  ASSUME IInv, NEW p \in Parties, Carry(p)
  PROVE  IInv'
<1> USE DEF IInv
<1>1. /\ head[p] <= MaxEvents /\ webhooks[p] # NoWebhook
      /\ asked' = [asked EXCEPT ![p] = @ + 1]
      /\ told' = [told EXCEPT ![p] = "asking"]
      /\ carries' = [carries EXCEPT ![p] = Append(@, head[p])]
      /\ outcome' = [outcome EXCEPT ![p] = "sending"]
      /\ said' = [said EXCEPT ![p] = {}]
      /\ UNCHANGED <<webhooks, head, dropped, arrived>>
  BY DEF Carry, Due, Wire!Ask
<1>2. head[p] \in 1..MaxEvents
  BY <1>1, BoundAssumption DEF Typing
<1>3. /\ carries'[p] \in Seq(1..MaxEvents) /\ Len(carries'[p]) = asked[p] + 1
      /\ \A n \in 1..asked[p] : carries'[p][n] = carries[p][n]
      /\ carries'[p][asked[p] + 1] = head[p]
  BY <1>1, <1>2, AppendProperties DEF Typing, CarriesInv
<1>4. Typing'
  BY <1>1, <1>3 DEF Typing, Outcomes
<1>5. CarriesInv'
  <2>1. ASSUME NEW q \in Parties
        PROVE  /\ Len(carries'[q]) = asked'[q]
               /\ \A n \in 1..asked'[q] : carries'[q][n] <= head[q]
               /\ told'[q] = "asking" =>
                    asked'[q] > 0 /\ carries'[q][asked'[q]] = head[q]
               /\ webhooks[q] = NoWebhook => asked'[q] = 0
    <3>1. CASE q = p
      <4>1. asked'[p] = asked[p] + 1 /\ asked[p] \in Nat /\ head[p] \in Nat
        BY <1>1 DEF Typing
      <4>2. ASSUME NEW n \in 1..asked'[p] PROVE carries'[p][n] <= head[p]
        <5>1. CASE n = asked[p] + 1
          BY <1>3, <4>1, <5>1
        <5>2. CASE n # asked[p] + 1
          <6>1. n \in 1..asked[p]
            BY <4>1, <5>2
          <6>2. QED
            BY <1>3, <6>1 DEF CarriesInv
        <5>3. QED
          BY <5>1, <5>2
      <4>3. QED
        BY <1>1, <1>3, <3>1, <4>1, <4>2
    <3>2. CASE q # p
      <4>1. /\ asked'[q] = asked[q] /\ told'[q] = told[q]
            /\ carries'[q] = carries[q]
        BY <1>1, <3>2 DEF Typing
      <4>2. QED
        BY <4>1 DEF CarriesInv
    <3>3. QED
      BY <3>1, <3>2
  <2>2. QED
    BY <1>1, <2>1 DEF CarriesInv
<1>6. ForwardInv'
  <2>1. \A q \in Parties : said'[q] # {} => q # p /\ said'[q] = said[q]
    BY <1>1 DEF Typing
  <2>2. \A q \in Parties : q # p => told'[q] = told[q]
    BY <1>1 DEF Typing
  <2>3. QED
    BY <1>1, <2>1, <2>2 DEF ForwardInv, Arrived
<1>7. ArrivedInv'
  BY <1>1 DEF ArrivedInv
<1>8. QED
  BY <1>4, <1>5, <1>6, <1>7

\* An exchange ends; the Forwarder goes on from an event that arrived, that
\* failed for good, or that has nowhere to go.
LEMMA EndsInductive ==
  ASSUME IInv, NEW p \in Parties,
         CarryUnhooked(p) \/ Judged(p) \/ Missed(p)
  PROVE  IInv'
<1> USE DEF IInv
<1>1. /\ UNCHANGED <<webhooks, carries, asked, arrived, said>>
      /\ head' = head \/ head' = [head EXCEPT ![p] = @ + 1]
      /\ outcome' \in [Parties -> Outcomes]
      /\ dropped \subseteq dropped'
      /\ told' \in [Parties -> {"never", "asking", "answer", "stray", "failed"}]
      /\ told'[p] # "asking"
      /\ \A q \in Parties \ {p} : told'[q] = told[q]
      /\ head' # head => \/ webhooks[p] = NoWebhook
                         \/ Arrived(p, head[p])
                         \/ <<p, head[p]>> \in dropped'
  <2>1. CASE CarryUnhooked(p)
    <3>1. told[p] # "asking"
      BY <2>1 DEF CarryUnhooked, CarriesInv
    <3>2. QED
      BY <2>1, <3>1 DEF CarryUnhooked, Ends, wireVars, Typing, Outcomes
  <2>2. CASE Judged(p)
    <3>1. PICK s \in said[p] : Ends(p, judge(s))
      BY <2>2 DEF Judged
    <3>2. judge(s) \in {"sent", "retry", "refused"}
      BY DEF judge
    <3>3. told[p] = "asking" /\ told' = [told EXCEPT ![p] = "answer"]
          /\ UNCHANGED <<webhooks, carries, asked, arrived, said>>
      BY <2>2 DEF Judged, Wire!Answer
    <3>4. webhooks[p] # NoWebhook => Arrived(p, head[p])
      BY <3>1, <3>3 DEF ForwardInv
    <3>5. QED
      BY <3>1, <3>2, <3>3, <3>4 DEF Ends, Typing, Outcomes
  <2>3. CASE Missed(p)
    <3>1. judge(STRAY) = "retry"
      BY DEF judge, STRAY, retryable
    <3>2. Ends(p, "retry") \/ Ends(p, "failed")
      BY <2>3, <3>1 DEF Missed, Failure
    <3>3. PICK how \in {"stray", "failed"} : told' = [told EXCEPT ![p] = how]
      BY <2>3 DEF Missed, Wire!Miss
    <3>4. UNCHANGED <<webhooks, carries, asked, arrived, said>>
      BY <2>3 DEF Missed, Wire!Miss
    <3>5. QED
      BY <3>2, <3>3, <3>4 DEF Ends, Typing, Outcomes
  <2>4. QED
    BY <2>1, <2>2, <2>3
<1>2. /\ head' \in [Parties -> Nat \ {0}]
      /\ \A q \in Parties : head'[q] >= head[q]
      /\ \A q \in Parties \ {p} : head'[q] = head[q]
      /\ head'[p] = head[p] \/ (head'[p] = head[p] + 1 /\ head' # head)
  <2>1. CASE head' = head
    BY <2>1 DEF Typing
  <2>2. CASE head' = [head EXCEPT ![p] = @ + 1]
    <3>1. head[p] \in Nat \ {0} /\ head[p] + 1 \in Nat \ {0}
      BY DEF Typing
    <3>2. /\ head' \in [Parties -> Nat \ {0}]
          /\ head'[p] = head[p] + 1
          /\ \A q \in Parties \ {p} : head'[q] = head[q]
      BY <2>2, <3>1 DEF Typing
    <3>3. ASSUME NEW q \in Parties PROVE head'[q] >= head[q]
      <4>1. head[q] \in Nat
        BY DEF Typing
      <4>2. CASE q = p
        BY <3>2, <4>1, <4>2
      <4>3. CASE q # p
        BY <3>2, <4>1, <4>3
      <4>4. QED
        BY <4>2, <4>3
    <3>4. head' # head
      BY <3>1, <3>2
    <3>5. QED
      BY <3>2, <3>3, <3>4
  <2>3. QED
    BY <1>1, <2>1, <2>2
<1>3. Typing'
  BY <1>1, <1>2 DEF Typing
<1>4. CarriesInv'
  <2>1. ASSUME NEW q \in Parties, NEW n \in 1..asked[q]
        PROVE  carries[q][n] <= head'[q]
    <3>1. carries[q] \in Seq(1..MaxEvents) /\ n \in 1..Len(carries[q])
      BY DEF Typing, CarriesInv
    <3>2. carries[q][n] \in 1..MaxEvents
      BY <3>1, ElementOfSeq
    <3>3. carries[q][n] \in Nat /\ head[q] \in Nat /\ head'[q] \in Nat
      BY <1>2, <3>2, BoundAssumption DEF Typing
    <3>4. QED
      BY <1>2, <3>3 DEF CarriesInv
  <2>2. QED
    BY <1>1, <1>2, <2>1 DEF CarriesInv
<1>5. ForwardInv'
  <2>1. ASSUME NEW q \in Parties, webhooks[q] # NoWebhook,
               NEW k \in 1..head'[q] - 1
        PROVE  Arrived(q, k) \/ <<q, k>> \in dropped'
    <3>1. CASE k \in 1..head[q] - 1
      BY <1>1, <2>1, <3>1 DEF ForwardInv
    <3>2. CASE k \notin 1..head[q] - 1
      <4>1. q = p /\ k = head[p] /\ head' # head
        BY <1>2, <3>2 DEF Typing
      <4>2. QED
        BY <1>1, <2>1, <4>1
    <3>3. QED
      BY <3>1, <3>2
  <2>2. ASSUME NEW q \in Parties, webhooks[q] # NoWebhook,
               told'[q] = "asking", said[q] # {}
        PROVE  Arrived(q, head'[q])
    BY <1>1, <1>2, <2>2 DEF ForwardInv
  <2>3. \A q, k : Arrived(q, k)' = Arrived(q, k)
    BY <1>1 DEF Arrived
  <2>4. QED
    BY <1>1, <2>1, <2>2, <2>3 DEF ForwardInv
<1>6. ArrivedInv'
  <2>1. ASSUME NEW a \in arrived
        PROVE  webhooks[a.of[1]] # NoWebhook /\ a.of[2] <= head'[a.of[1]]
    <3>1. PICK q \in Parties, k \in 1..MaxEvents : q = a.of[1] /\ k = a.of[2]
      BY DEF Typing
    <3>2. k <= head[q] /\ head[q] \in Nat /\ head'[q] \in Nat /\ k \in Nat
      BY <1>2, <3>1, BoundAssumption DEF ArrivedInv, Typing
    <3>3. QED
      BY <1>2, <3>1, <3>2 DEF ArrivedInv
  <2>2. QED
    BY <1>1, <2>1 DEF ArrivedInv
<1>7. QED
  BY <1>3, <1>4, <1>5, <1>6

----------------------------------------------------------------------------
\* The webhook's.

\* An event arrives, again or after it was given up, and may be answered.
LEMMA ArrivesInductive ==
  ASSUME IInv, NEW p \in Parties, NEW n \in Sends, Arrives(p, n)
  PROVE  IInv'
<1> USE DEF IInv
<1>1. /\ n <= asked[p]
      /\ UNCHANGED <<asked, told, webhooks, head, outcome, dropped, carries>>
      /\ \/ said' = said
         \/ /\ n = asked[p] /\ told[p] = "asking"
            /\ \E s \in Answers : said' = [said EXCEPT ![p] = @ \cup {s}]
  BY DEF Arrives, Wire!Act
<1>2. n \in 1..asked[p] /\ asked[p] > 0
  BY <1>1, BoundAssumption DEF Sends, Typing
<1>3. PICK m \in 1..MaxEvents : m = carries[p][n] /\ m <= head[p]
  BY <1>2, ElementOfSeq DEF Typing, CarriesInv
<1>4. PICK r : arrived' = arrived \cup {r} /\ r.of = <<p, m>>
  <2>1. PICK version \in Speaks(webhooks[p]) :
          arrived' = arrived \cup
            {[of |-> <<p, m>>,
              request |-> [request(webhooks[p], published[p][m])
                                EXCEPT !.headers = Came(@, version)]]}
    BY <1>3 DEF Arrives
  <2> DEFINE came == [of |-> <<p, m>>,
                      request |-> [request(webhooks[p], published[p][m])
                                      EXCEPT !.headers = Came(@, version)]]
  <2>2. came.of = <<p, m>>
    OBVIOUS
  <2>3. arrived' = arrived \cup {came}
    BY <2>1
  <2> HIDE DEF came
  <2>4. QED
    BY <2>2, <2>3
<1>5. Typing'
  <2>1. said' \in [Parties -> SUBSET Answers]
    <3>1. CASE said' = said
      BY <3>1 DEF Typing
    <3>2. ASSUME NEW s \in Answers, said' = [said EXCEPT ![p] = @ \cup {s}]
          PROVE  said' \in [Parties -> SUBSET Answers]
      BY <3>2 DEF Typing
    <3>3. QED
      BY <1>1, <3>1, <3>2
  <2>2. ASSUME NEW a \in arrived' PROVE a.of \in Parties \X (1..MaxEvents)
    <3>1. CASE a \in arrived
      BY <3>1 DEF Typing
    <3>2. CASE a = r
      BY <1>4, <3>2
    <3>3. QED
      BY <1>4, <2>2, <3>1, <3>2
  <2>3. QED
    BY <1>1, <2>1, <2>2 DEF Typing
<1>6. CarriesInv'
  BY <1>1 DEF CarriesInv
<1>7. ForwardInv'
  <2>1. ASSUME NEW q, NEW k, Arrived(q, k)
        PROVE  \E b \in arrived' : b.of = <<q, k>>
    BY <1>4, <2>1 DEF Arrived
  <2>2. ASSUME NEW q \in Parties, webhooks[q] # NoWebhook, told[q] = "asking",
               said'[q] # {}
        PROVE  \E b \in arrived' : b.of = <<q, head[q]>>
    <3>1. CASE said'[q] = said[q]
      <4>1. Arrived(q, head[q])
        BY <2>2, <3>1 DEF ForwardInv
      <4>2. QED
        BY <2>1, <4>1
    <3>2. CASE said'[q] # said[q]
      <4>1. q = p /\ n = asked[p] /\ told[p] = "asking"
        BY <1>1, <3>2 DEF Typing
      <4>2. m = head[p]
        BY <1>3, <4>1 DEF CarriesInv
      <4>3. QED
        BY <1>4, <4>1, <4>2
    <3>3. QED
      BY <3>1, <3>2
  <2>3. ASSUME NEW q \in Parties, webhooks[q] # NoWebhook,
               NEW k \in 1..head[q] - 1
        PROVE  <<q, k>> \in dropped \/ \E b \in arrived' : b.of = <<q, k>>
    <3>1. Arrived(q, k) \/ <<q, k>> \in dropped
      BY <2>3 DEF ForwardInv
    <3>2. QED
      BY <2>1, <3>1
  <2>4. UNCHANGED <<webhooks, head, dropped, told>>
    BY <1>1
  <2>5. QED
    BY <2>2, <2>3, <2>4 DEF ForwardInv, Arrived
<1>8. ArrivedInv'
  <2>1. webhooks[p] # NoWebhook
    BY <1>2 DEF CarriesInv
  <2>2. QED
    BY <1>1, <1>3, <1>4, <2>1 DEF ArrivedInv
<1>9. QED
  BY <1>5, <1>6, <1>7, <1>8

----------------------------------------------------------------------------
\* Choosing among headers.

\* A set of places has one increasing enumeration at least, and each runs
\* through all of it, once.
LEMMA Enumerated ==
  ASSUME NEW N \in Nat, NEW of \in SUBSET (1..N)
  PROVE  /\ Cardinality(of) \in Nat
         /\ \E f \in [1..Cardinality(of) -> of] :
                \A i, j \in 1..Cardinality(of) : i < j => f[i] < f[j]
<1> DEFINE n == Cardinality(of)
           upto(i) == {k \in of : k <= i}
           rank == [i \in of |-> Cardinality(upto(i))]
           f == [m \in 1..n |-> CHOOSE i \in of : rank[i] = m]
<1>0. \A k \in of : k \in Nat
  OBVIOUS
<1>1. IsFiniteSet(of) /\ n \in Nat
  <2>1. IsFiniteSet(1..N)
    BY FS_Interval
  <2>2. IsFiniteSet(of)
    BY <2>1, FS_Subset
  <2>3. QED
    BY <2>2, FS_CardinalityType
<1>2. ASSUME NEW i \in of
      PROVE  /\ IsFiniteSet(upto(i)) /\ rank[i] \in 1..n
  <2>1. IsFiniteSet(upto(i)) /\ Cardinality(upto(i)) <= n
    BY <1>1, FS_Subset
  <2>2. Cardinality(upto(i)) \in Nat
    BY <2>1, FS_CardinalityType
  <2>3. upto(i) # {}
    <3>1. i \in upto(i)
      OBVIOUS
    <3>2. QED
      BY <3>1
  <2>4. Cardinality(upto(i)) # 0
    BY <2>1, <2>3, FS_EmptySet
  <2>5. QED
    BY <1>1, <2>1, <2>2, <2>4
<1>3. ASSUME NEW i \in of, NEW j \in of, i < j PROVE rank[i] < rank[j]
  <2>0. i \in Nat /\ j \in Nat
    BY <1>0
  <2>1. upto(i) \in SUBSET upto(j)
    <3>1. ASSUME NEW k \in of, k <= i PROVE k <= j
      <4>1. k \in Nat
        BY <1>0
      <4>2. QED
        BY <1>3, <2>0, <3>1, <4>1
    <3>2. QED
      BY <3>1
  <2>2. j \in upto(j) /\ j \notin upto(i)
    BY <1>3, <2>0
  <2>3. Cardinality(upto(i)) <= Cardinality(upto(j))
        /\ Cardinality(upto(i)) # Cardinality(upto(j))
    BY <1>2, <2>1, <2>2, FS_Subset
  <2>4. rank[i] \in Nat /\ rank[j] \in Nat
    BY <1>2
  <2>5. QED
    BY <2>3, <2>4
<1> HIDE DEF upto
<1>4. \A m \in 1..n : \E i \in of : rank[i] = m
  <2>1. rank \in [of -> 1..n]
    BY <1>2
  <2>2. \A i, j \in of : rank[i] = rank[j] => i = j
    BY <1>2, <1>3
  <2>3. rank \in Injection(of, 1..n)
    BY <2>1, <2>2, Zenon DEF Injection, IsInjective
  <2>4. IsFiniteSet(1..n) /\ Cardinality(1..n) = n
    BY <1>1, FS_Interval
  <2>5. rank \in Surjection(of, 1..n)
    BY <2>3, <2>4, FS_Injection
  <2>6. QED
    BY <2>5 DEF Surjection
<1>5. \A m \in 1..n : f[m] \in of /\ rank[f[m]] = m
  BY <1>4
<1>6. f \in [1..n -> of]
  BY <1>5
<1> HIDE DEF f, rank
<1>7. ASSUME NEW i \in 1..n, NEW j \in 1..n, i < j PROVE f[i] < f[j]
  <2>0. i \in Nat /\ j \in Nat
    BY <1>1
  <2>1. /\ f[i] \in of /\ f[j] \in of /\ rank[f[i]] = i /\ rank[f[j]] = j
        /\ f[i] \in Nat /\ f[j] \in Nat
    <3>1. f[i] \in of /\ rank[f[i]] = i
      BY <1>5
    <3>2. f[j] \in of /\ rank[f[j]] = j
      BY <1>5
    <3>3. QED
      BY <1>0, <3>1, <3>2
  <2>2. ~(f[j] < f[i])
    <3>1. f[j] < f[i] => rank[f[j]] < rank[f[i]]
      BY <1>3, <2>1
    <3>2. QED
      BY <1>7, <2>0, <2>1, <3>1
  <2>3. f[i] # f[j]
    BY <1>7, <2>0, <2>1
  <2>4. QED
    BY <2>1, <2>2, <2>3
<1>8. QED
  BY <1>1, <1>6, <1>7

\* From where among h, at of, each of those chosen is.
Places(f, h, of) ==
    LET c == Chosen(h, of)
    IN  /\ f \in [DOMAIN c -> of]
        /\ \A i \in DOMAIN c : c[i] = h[f[i]]
        /\ \A i, j \in DOMAIN c : f[i] = f[j] => i = j
        /\ \A k \in of : \E i \in DOMAIN c : f[i] = k

\* So what is chosen is a sequence of the headers at those places, each at
\* one place of its own.
LEMMA ChosenAre ==
  ASSUME NEW S, NEW h \in Seq(S), NEW of \in SUBSET DOMAIN h
  PROVE  /\ Chosen(h, of) \in Seq(S)
         /\ \E f : Places(f, h, of)
         /\ Len(Chosen(h, of)) = Cardinality(of)
<1> DEFINE n == Cardinality(of)
           Increases(f) == \A i, j \in 1..n : i < j => f[i] < f[j]
           f == CHOOSE g \in [1..n -> of] : Increases(g)
           c == Chosen(h, of)
<1>1. /\ DOMAIN h = 1..Len(h) /\ Len(h) \in Nat
      /\ \A i \in DOMAIN h : h[i] \in S
  BY ElementOfSeq
<1>2. n \in Nat /\ \E g \in [1..n -> of] : Increases(g)
  BY <1>1, Enumerated
<1>3. f \in [1..n -> of] /\ Increases(f)
  BY <1>2
<1>4. c = [i \in 1..n |-> h[f[i]]]
  BY DEF Chosen
<1> HIDE DEF f, c
<1>5. c \in Seq(S)
  <2>1. \A i \in 1..n : h[f[i]] \in S
    BY <1>1, <1>3
  <2>2. QED
    BY <1>2, <1>4, <2>1
<1>6. Len(c) = n /\ DOMAIN c = 1..n
  BY <1>2, <1>4
<1>7. ASSUME NEW i \in 1..n, NEW j \in 1..n, f[i] = f[j] PROVE i = j
  <2>1. f[i] \in Nat
    BY <1>1, <1>3
  <2>2. ~(f[i] < f[j]) /\ ~(f[j] < f[i])
    BY <1>7, <2>1
  <2>3. QED
    BY <1>2, <1>3, <2>2
<1>8. \A k \in of : \E i \in 1..n : f[i] = k
  <2>1. f \in Injection(1..n, of)
    BY <1>3, <1>7, Zenon DEF Injection, IsInjective
  <2>2. IsFiniteSet(of) /\ Cardinality(1..n) = n
    <3>1. IsFiniteSet(1..Len(h)) /\ Cardinality(1..n) = n
      BY <1>1, <1>2, FS_Interval
    <3>2. QED
      BY <1>1, <3>1, FS_Subset
  <2>3. f \in Surjection(1..n, of)
    BY <2>1, <2>2, FS_Injection
  <2>4. QED
    BY <2>3 DEF Surjection
<1>9. QED
  <2>1. Places(f, h, of)
    BY <1>3, <1>4, <1>6, <1>7, <1>8 DEF c, Places
  <2>2. QED
    BY <1>5, <1>6, <2>1 DEF c

----------------------------------------------------------------------------
\* The names of this wire's headers, in either version.
Names == {"Host", "host", "Content-Type", "content-type", "Authorization",
          "authorization", "ce-id"}

\* What headers say under a name: nothing, or one value once.
Says(h, name, value) ==
    IF value = NoValue THEN Named(h, name) = {}
    ELSE \E i \in DOMAIN h : Named(h, name) = {i} /\ h[i][2] = value

\* A name in lower case stays as it is.
LEMMA LowerCaseTwice == \A name : LowerCase(LowerCase(name)) = LowerCase(name)
BY DEF LowerCase

\* One header says its value under its name and nothing under another.
LEMMA HeaderSays ==
  ASSUME NEW V, NEW name \in Names, NEW value \in V, NEW other
  PROVE  /\ Header(name, value) \in Seq(Names \X V)
         /\ Says(Header(name, value), other,
                 IF LowerCase(name) = LowerCase(other) THEN value ELSE NoValue)
<1> DEFINE h == Header(name, value)
<1>1. CASE value = NoValue
  <2>1. h = <<>> /\ DOMAIN h = {}
    BY <1>1 DEF Header
  <2>2. h \in Seq(Names \X V)
    BY <2>1
  <2>3. Named(h, other) = {}
    BY <2>1 DEF Named
  <2>4. QED
    BY <1>1, <2>2, <2>3 DEF Says
<1>2. CASE value # NoValue
  <2> DEFINE pair == <<name, value>>
  <2>1. /\ pair \in Names \X V /\ pair[1] = name /\ pair[2] = value
        /\ h = <<pair>>
    BY <1>2 DEF Header
  <2> HIDE DEF h, pair
  <2>2. h \in Seq(Names \X V) /\ Len(h) = 1 /\ h[1] = pair
    BY <2>1
  <2>0. DOMAIN h = {1}
    <3>1. DOMAIN h = 1..1
      BY <2>2, LenProperties
    <3>2. QED
      BY <3>1
  <2>3. Named(h, other) = IF LowerCase(name) = LowerCase(other) THEN {1} ELSE {}
    <3>1. LowerCase(h[1][1]) = LowerCase(name)
      BY <2>1, <2>2
    <3>2. \A i : i \in Named(h, other) <=>
                    i = 1 /\ LowerCase(name) = LowerCase(other)
      BY <2>0, <3>1, Zenon DEF Named
    <3>3. QED
      BY <3>2
  <2>4. Says(h, other,
             IF LowerCase(name) = LowerCase(other) THEN value ELSE NoValue)
    BY <1>2, <2>0, <2>1, <2>2, <2>3 DEF Says
  <2>5. QED
    BY <2>2, <2>4 DEF h
<1>3. QED
  BY <1>1, <1>2

\* Headers one after another are named as they were, the later ones farther on.
LEMMA JoinNames ==
  ASSUME NEW S, NEW g \in Seq(S), NEW h \in Seq(S), NEW name
  PROVE  /\ g \o h \in Seq(S)
         /\ Named(g \o h, name) =
                Named(g, name) \cup {Len(g) + i : i \in Named(h, name)}
<1>1. /\ g \o h \in Seq(S) /\ Len(g) \in Nat /\ Len(h) \in Nat
      /\ DOMAIN g = 1..Len(g) /\ DOMAIN h = 1..Len(h)
      /\ DOMAIN (g \o h) = 1..Len(g) + Len(h)
      /\ \A i \in 1..Len(g) : (g \o h)[i] = g[i]
      /\ \A i \in 1..Len(h) : (g \o h)[Len(g) + i] = h[i]
  <2>1. /\ g \o h \in Seq(S) /\ Len(g) \in Nat /\ Len(h) \in Nat
        /\ DOMAIN g = 1..Len(g) /\ DOMAIN h = 1..Len(h)
        /\ Len(g \o h) = Len(g) + Len(h)
    BY ConcatProperties, LenProperties
  <2>2. DOMAIN (g \o h) = 1..Len(g) + Len(h)
    BY <2>1, LenProperties
  <2>3. ASSUME NEW i \in 1..Len(g) PROVE (g \o h)[i] = g[i]
    BY <2>1, ConcatProperties
  <2>4. ASSUME NEW i \in 1..Len(h) PROVE (g \o h)[Len(g) + i] = h[i]
    BY <2>1, ConcatProperties
  <2>5. QED
    BY <2>1, <2>2, <2>3, <2>4
<1> DEFINE m == Len(g)
           c == g \o h
<1> HIDE DEF m, c
<1>2. /\ m \in Nat /\ Len(h) \in Nat
      /\ DOMAIN g = 1..m /\ DOMAIN h = 1..Len(h) /\ DOMAIN c = 1..m + Len(h)
      /\ \A i \in 1..m : c[i] = g[i]
      /\ \A i \in 1..Len(h) : c[m + i] = h[i]
  BY <1>1 DEF m, c
<1>3. ASSUME NEW k \in Named(c, name)
      PROVE  k \in Named(g, name) \cup {m + i : i \in Named(h, name)}
  <2>1. k \in 1..m + Len(h) /\ LowerCase(c[k][1]) = LowerCase(name)
    BY <1>2 DEF Named
  <2>2. CASE k \in 1..m
    BY <1>2, <2>1, <2>2 DEF Named
  <2>3. CASE k \notin 1..m
    <3>1. k - m \in 1..Len(h) /\ m + (k - m) = k
      BY <1>2, <2>1, <2>3
    <3>2. k - m \in Named(h, name)
      BY <1>2, <2>1, <3>1 DEF Named
    <3>3. QED
      BY <3>1, <3>2
  <2>4. QED
    BY <2>2, <2>3
<1>4. ASSUME NEW k \in Named(g, name) PROVE k \in Named(c, name)
  <2>1. k \in 1..m /\ k \in 1..m + Len(h)
    BY <1>2 DEF Named
  <2>2. QED
    BY <1>2, <2>1 DEF Named
<1>5. ASSUME NEW i \in Named(h, name) PROVE m + i \in Named(c, name)
  <2>1. i \in 1..Len(h) /\ m + i \in 1..m + Len(h)
    BY <1>2 DEF Named
  <2>2. QED
    BY <1>2, <2>1 DEF Named
<1>6. Named(c, name) = Named(g, name) \cup {m + i : i \in Named(h, name)}
  BY <1>3, <1>4, <1>5
<1>7. QED
  BY <1>1, <1>6 DEF m, c

\* So they say what either says, where the other says nothing.
LEMMA JoinSays ==
  ASSUME NEW S, NEW g \in Seq(S), NEW h \in Seq(S), NEW name, NEW value,
         \/ Says(g, name, NoValue) /\ Says(h, name, value)
         \/ Says(g, name, value) /\ Says(h, name, NoValue)
  PROVE  Says(g \o h, name, value)
<1> DEFINE c == g \o h
<1>1. /\ Named(c, name) = Named(g, name) \cup {Len(g) + i : i \in Named(h, name)}
      /\ Len(g) \in Nat
  BY JoinNames
<1>2. CASE value = NoValue
  BY <1>1, <1>2 DEF Says
<1>3. CASE value # NoValue /\ Says(g, name, NoValue) /\ Says(h, name, value)
  <2>1. PICK i \in DOMAIN h : Named(h, name) = {i} /\ h[i][2] = value
    BY <1>3 DEF Says
  <2>2. Named(g, name) = {}
    BY <1>3 DEF Says
  <2>3. Named(c, name) = {Len(g) + i}
    BY <1>1, <2>1, <2>2
  <2>4. i \in 1..Len(h) /\ Len(g) + i \in DOMAIN c
    BY <2>1, <2>3 DEF Named
  <2>5. c[Len(g) + i] = h[i]
    BY <2>4, ConcatProperties
  <2>6. QED
    BY <1>3, <2>1, <2>3, <2>4, <2>5 DEF Says
<1>4. CASE value # NoValue /\ Says(g, name, value) /\ Says(h, name, NoValue)
  <2>1. PICK i \in DOMAIN g : Named(g, name) = {i} /\ g[i][2] = value
    BY <1>4 DEF Says
  <2>2. Named(h, name) = {}
    BY <1>4 DEF Says
  <2>3. Named(c, name) = {i}
    BY <1>1, <2>1, <2>2
  <2>4. i \in 1..Len(g) /\ i \in DOMAIN c
    BY <2>1, <2>3 DEF Named
  <2>5. c[i] = g[i]
    BY <2>4, ConcatProperties
  <2>6. QED
    BY <1>4, <2>1, <2>3, <2>4, <2>5 DEF Says
<1>5. QED
  BY <1>2, <1>3, <1>4

\* They say it still as the other end reads them, in either version.
LEMMA CameSays ==
  ASSUME NEW V, NEW h \in Seq(Names \X V), NEW version, NEW name, NEW value,
         Says(h, name, value)
  PROVE  Says(Came(h, version), name, value)
<1> DEFINE c == Came(h, version)
<1>1. CASE version = 1
  BY <1>1 DEF Came
<1>2. CASE version # 1
  <2>1. c = [i \in DOMAIN h |-> <<LowerCase(h[i][1]), h[i][2]>>]
    BY <1>2 DEF Came
  <2> HIDE DEF c
  <2>2. DOMAIN c = DOMAIN h
        /\ \A i \in DOMAIN h : /\ LowerCase(c[i][1]) = LowerCase(h[i][1])
                               /\ c[i][2] = h[i][2]
    BY <2>1, LowerCaseTwice
  <2>3. Named(c, name) = Named(h, name)
    BY <2>2 DEF Named
  <2>4. Says(c, name, value)
    BY <2>2, <2>3 DEF Says
  <2>5. QED
    BY <2>4 DEF c
<1>3. QED
  BY <1>1, <1>2

\* header_value reads what they say.
LEMMA ReadSays ==
  ASSUME NEW S, NEW h \in Seq(S), NEW name, NEW value, Says(h, name, value)
  PROVE  header_value(h, name) = value
<1>1. CASE value = NoValue
  BY <1>1 DEF Says, header_value
<1>2. CASE value # NoValue
  <2>1. PICK i \in DOMAIN h : Named(h, name) = {i} /\ h[i][2] = value
    BY <1>2 DEF Says
  <2>2. i \in Nat
    BY <2>1, LenProperties
  <2>3. (CHOOSE j \in {i} : \A k \in {i} : j <= k) = i
    BY <2>2
  <2>4. QED
    BY <2>1, <2>3 DEF header_value
<1>3. QED
  BY <1>1, <1>2

\* Headers without those of one name say nothing under it, and under another
\* what they said.
LEMMA ChosenSays ==
  ASSUME NEW S, NEW h \in Seq(S), NEW other, NEW name, NEW value,
         Says(h, name, value), LowerCase(name) # LowerCase(other)
  PROVE  LET c == Chosen(h, DOMAIN h \ Named(h, other))
         IN  Says(c, other, NoValue) /\ Says(c, name, value)
<1> DEFINE of == DOMAIN h \ Named(h, other)
           c == Chosen(h, of)
<1>1. of \in SUBSET DOMAIN h
  OBVIOUS
<1>givent. PICK f : Places(f, h, of)
  BY <1>1, ChosenAre
<1>2. /\ f \in [DOMAIN c -> of]
      /\ \A i \in DOMAIN c : c[i] = h[f[i]]
      /\ \A i, j \in DOMAIN c : f[i] = f[j] => i = j
      /\ \A k \in of : \E i \in DOMAIN c : f[i] = k
  BY <1>givent DEF Places
<1> HIDE DEF c
<1>3. ASSUME NEW k \in DOMAIN c, NEW any
      PROVE  k \in Named(c, any) <=> f[k] \in Named(h, any)
  <2>1. c[k] = h[f[k]] /\ f[k] \in DOMAIN h
    BY <1>2
  <2>2. QED
    BY <2>1 DEF Named
<1>4. \A any : Named(c, any) \subseteq DOMAIN c
  BY DEF Named
<1>5. Says(c, other, NoValue)
  <2>1. ASSUME NEW k \in DOMAIN c PROVE k \notin Named(c, other)
    BY <1>2, <1>3
  <2>2. QED
    BY <1>4, <2>1 DEF Says
<1>6. CASE value = NoValue
  <2>1. Named(h, name) = {}
    BY <1>6 DEF Says
  <2>2. Named(c, name) = {}
    BY <1>3, <1>4, <2>1
  <2>3. Says(c, name, value)
    BY <1>6, <2>2 DEF Says
  <2>4. QED
    BY <1>5, <2>3 DEF c
<1>7. CASE value # NoValue
  <2>1. PICK i \in DOMAIN h : Named(h, name) = {i} /\ h[i][2] = value
    BY <1>7 DEF Says
  <2>2. i \in of
    <3>1. LowerCase(h[i][1]) = LowerCase(name)
      BY <2>1 DEF Named
    <3>2. QED
      BY <3>1 DEF Named
  <2>3. PICK j \in DOMAIN c : f[j] = i
    BY <1>2, <2>2
  <2>4. \A k \in DOMAIN c : k \in Named(c, name) <=> k = j
    BY <1>2, <1>3, <2>1, <2>3
  <2>5. Named(c, name) = {j}
    BY <1>4, <2>3, <2>4
  <2>6. c[j] = h[i]
    BY <1>2, <2>3
  <2>7. Says(c, name, value)
    BY <1>7, <2>1, <2>5, <2>6 DEF Says
  <2>8. QED
    BY <1>5, <2>7 DEF c
<1>8. QED
  BY <1>6, <1>7

\* Those of a name alone are the one that says its value, or none.
LEMMA ChosenOne ==
  ASSUME NEW S, NEW h \in Seq(S), NEW name, NEW value, Says(h, name, value)
  PROVE  IF value = NoValue THEN Chosen(h, Named(h, name)) = <<>>
         ELSE \E i \in Named(h, name) :
                /\ i \in DOMAIN h /\ h[i][2] = value
                /\ Chosen(h, Named(h, name)) = <<h[i]>>
<1> DEFINE of == Named(h, name)
           c == Chosen(h, of)
<1>1. of \in SUBSET DOMAIN h
  BY DEF Named
<1>2. c \in Seq(S) /\ Len(c) = Cardinality(of)
  BY <1>1, ChosenAre
<1>givent. PICK f : Places(f, h, of)
  BY <1>1, ChosenAre
<1>0. /\ f \in [DOMAIN c -> of]
      /\ \A i \in DOMAIN c : c[i] = h[f[i]]
      /\ \A i, j \in DOMAIN c : f[i] = f[j] => i = j
      /\ \A k \in of : \E i \in DOMAIN c : f[i] = k
  BY <1>givent DEF Places
<1> HIDE DEF c
<1>3. CASE value = NoValue
  <2>1. of = {} /\ Cardinality({}) = 0
    BY <1>3, FS_EmptySet DEF Says
  <2>2. c = <<>>
    BY <1>2, <2>1, EmptySeq
  <2>3. QED
    BY <1>3, <2>2 DEF c
<1>4. CASE value # NoValue
  <2>1. PICK i \in DOMAIN h : of = {i} /\ h[i][2] = value
    BY <1>4 DEF Says
  <2>2. Cardinality({i}) = 1
    BY FS_Singleton
  <2> HIDE DEF of
  <2>3. Len(c) = 1 /\ 1 \in DOMAIN c
    BY <1>2, <2>1, <2>2, LenProperties
  <2>4. c[1] = h[i] /\ h[i] \in S
    <3>1. f[1] = i
      BY <1>0, <2>1, <2>3
    <3>2. QED
      BY <1>0, <2>1, <2>3, <3>1, ElementOfSeq
  <2>5. c = <<h[i]>>
    <3> DEFINE one == <<h[i]>>
    <3>1. one \in Seq(S) /\ Len(one) = 1 /\ one[1] = h[i]
      BY <2>4
    <3> HIDE DEF one
    <3>2. \A k \in 1..Len(c) : c[k] = one[k]
      BY <2>3, <2>4, <3>1
    <3>3. c = one
      BY <1>2, <2>3, <3>1, <3>2, SeqEqual
    <3>4. QED
      BY <3>3 DEF one
  <2>6. QED
    BY <1>4, <2>1, <2>5 DEF c, of
<1>5. QED
  BY <1>3, <1>4

----------------------------------------------------------------------------
\* An event's request, and what is read off it.

\* The names this wire writes, in lower case.
LEMMA LowerCases ==
  /\ LowerCase("Host") = "host" /\ LowerCase("Authorization") = "authorization"
  /\ LowerCase("Content-Type") = "content-type"
  /\ LowerCase("content-type") = "content-type" /\ LowerCase("ce-id") = "ce-id"
BY DEF LowerCase

\* A name in lower case is a name, and none but its own is "ce-id".
LEMMA LowerCaseNames ==
  ASSUME NEW name \in Names
  PROVE  /\ LowerCase(name) \in Names
         /\ LowerCase(name) = "ce-id" => name = "ce-id"
BY DEF LowerCase, Names

\* What the binding writes as attributes of an event published as media.
Attributes(media) == IF media = "application/cloudevents+json" THEN NoValue
                     ELSE "e"

\* Its request says its content type once, where it has one, and its
\* attributes once, where they are headers.
LEMMA RequestSays ==
  ASSUME NEW webhook, NEW media \in Media, NEW k
  PROVE  \E V : LET h == request(webhook, Written(media, k)).headers
                IN  /\ h \in Seq(Names \X V)
                    /\ Says(h, "content-type", media)
                    /\ Says(h, "ce-id", Attributes(media))
<1> DEFINE V == {webhook.authority, media, "e", webhook.authorization}
           S == Names \X V
           host == Header("Host", webhook.authority)
           type == Header("Content-Type", media)
           ce == Written(media, k).headers
           pass == Header("Authorization", webhook.authorization)
<1>0. ASSUME NEW name \in Names, NEW value \in V
      PROVE  Header(name, value) \in Seq(S)
  <2> HIDE DEF V
  <2>1. QED
    BY HeaderSays
<1>given. /\ {"Host", "Content-Type", "Authorization", "ce-id"} \subseteq Names
          /\ webhook.authority \in V /\ media \in V /\ "e" \in V
          /\ webhook.authorization \in V
  BY DEF Names
<1>1. host \in Seq(S) /\ Says(host, "content-type", NoValue)
      /\ Says(host, "ce-id", NoValue)
  <2>1. host \in Seq(S)
    BY <1>0, <1>given
  <2>2. \A other : Says(host, other, IF LowerCase("Host") = LowerCase(other)
                                  THEN webhook.authority ELSE NoValue)
    BY <1>given, HeaderSays
  <2> HIDE DEF host
  <2>3. QED
    BY <2>1, <2>2, LowerCases
<1>2. type \in Seq(S) /\ Says(type, "content-type", media)
      /\ Says(type, "ce-id", NoValue)
  <2>1. type \in Seq(S)
    BY <1>0, <1>given
  <2>2. \A other : Says(type, other, IF LowerCase("Content-Type") = LowerCase(other)
                                  THEN media ELSE NoValue)
    BY <1>given, HeaderSays
  <2> HIDE DEF type
  <2>3. QED
    BY <2>1, <2>2, LowerCases
<1>3. pass \in Seq(S) /\ Says(pass, "content-type", NoValue)
      /\ Says(pass, "ce-id", NoValue)
  <2>1. pass \in Seq(S)
    BY <1>0, <1>given
  <2>2. \A other : Says(pass, other, IF LowerCase("Authorization") = LowerCase(other)
                                  THEN webhook.authorization ELSE NoValue)
    BY <1>given, HeaderSays
  <2> HIDE DEF pass
  <2>3. QED
    BY <2>1, <2>2, LowerCases
<1>4. ce \in Seq(S) /\ Says(ce, "content-type", NoValue)
      /\ Says(ce, "ce-id", Attributes(media))
  <2>1. CASE media = "application/cloudevents+json"
    <3>1. ce = <<>> /\ Attributes(media) = NoValue
      BY <2>1 DEF Written, Attributes
    <3>2. Named(ce, "content-type") = {} /\ Named(ce, "ce-id") = {}
      <4>1. DOMAIN ce = {}
        BY <3>1
      <4>2. QED
        BY <4>1 DEF Named
    <3>3. ce \in Seq(S)
      BY <3>1
    <3>4. QED
      BY <3>1, <3>2, <3>3 DEF Says
  <2>2. CASE media # "application/cloudevents+json"
    <3>1. ce = Header("ce-id", "e") /\ Attributes(media) = "e"
      BY <2>2 DEF Written, Attributes
    <3>2. QED
      <4>1. ce \in Seq(S)
        BY <1>0, <1>given, <3>1
      <4>2. \A other : Says(ce, other, IF LowerCase("ce-id") = LowerCase(other)
                                       THEN "e" ELSE NoValue)
        BY <1>given, <3>1, HeaderSays
      <4> HIDE DEF ce
      <4>3. QED
        BY <3>1, <4>1, <4>2, LowerCases
  <2>3. QED
    BY <2>1, <2>2
<1>5. request(webhook, Written(media, k)).headers = host \o type \o ce \o pass
  BY DEF request, Written
<1> HIDE DEF host, type, ce, pass
<1>6. /\ host \o type \in Seq(S)
      /\ Says(host \o type, "content-type", media)
      /\ Says(host \o type, "ce-id", NoValue)
  BY <1>1, <1>2, JoinNames, JoinSays
<1>7. /\ host \o type \o ce \in Seq(S)
      /\ Says(host \o type \o ce, "content-type", media)
      /\ Says(host \o type \o ce, "ce-id", Attributes(media))
  <2> DEFINE first == host \o type
  <2>1. /\ first \in Seq(S) /\ Says(first, "content-type", media)
        /\ Says(first, "ce-id", NoValue)
    BY <1>6
  <2> HIDE DEF first
  <2>2. /\ first \o ce \in Seq(S) /\ Says(first \o ce, "content-type", media)
        /\ Says(first \o ce, "ce-id", Attributes(media))
    BY <1>4, <2>1, JoinNames, JoinSays
  <2>3. QED
    BY <2>2 DEF first
<1>8. LET h == host \o type \o ce \o pass
      IN  /\ h \in Seq(S) /\ Says(h, "content-type", media)
          /\ Says(h, "ce-id", Attributes(media))
  <2> DEFINE first == host \o type \o ce
  <2>1. /\ first \in Seq(S) /\ Says(first, "content-type", media)
        /\ Says(first, "ce-id", Attributes(media))
    BY <1>7
  <2> HIDE DEF first
  <2>2. /\ first \o pass \in Seq(S) /\ Says(first \o pass, "content-type", media)
        /\ Says(first \o pass, "ce-id", Attributes(media))
    BY <1>3, <2>1, JoinNames, JoinSays
  <2>3. QED
    BY <2>2 DEF first
<1>9. QED
  BY <1>5, <1>8 DEF S

\* Headers stay headers as the other end reads them.
LEMMA CameTyped ==
  ASSUME NEW V, NEW h \in Seq(Names \X V), NEW version
  PROVE  Came(h, version) \in Seq(Names \X V)
<1>1. CASE version = 1
  BY <1>1 DEF Came
<1>2. CASE version # 1
  <2>1. \A i \in DOMAIN h : <<LowerCase(h[i][1]), h[i][2]>> \in Names \X V
    <3>1. ASSUME NEW i \in DOMAIN h PROVE h[i] \in Names \X V
      BY ElementOfSeq, LenProperties
    <3>2. QED
      BY <3>1, LowerCaseNames
  <2>2. DOMAIN h = 1..Len(h) /\ Len(h) \in Nat
    BY LenProperties
  <2>3. QED
    BY <1>2, <2>1, <2>2 DEF Came
<1>3. QED
  BY <1>1, <1>2

\* carried reads off headers what they say: the content type, and apart from
\* it the attributes.
LEMMA CarriedReads ==
  ASSUME NEW V, NEW r, r.headers \in Seq(Names \X V), NEW media, NEW ce,
         Says(r.headers, "content-type", media), Says(r.headers, "ce-id", ce)
  PROVE  LET read == carried(r)
         IN  /\ read.content_type = media
             /\ header_value(read.headers, "content-type") = NoValue
             /\ Chosen(read.headers, Named(read.headers, "ce-id")) =
                    IF ce = NoValue THEN <<>> ELSE <<<<"ce-id", ce>>>>
<1> DEFINE h == r.headers
           g == Chosen(h, DOMAIN h \ Named(h, "content-type"))
<1>1. carried(r).headers = g /\ carried(r).content_type = media
  BY ReadSays DEF carried
<1>2. g \in Seq(Names \X V)
  BY ChosenAre
<1>3. Says(g, "content-type", NoValue) /\ Says(g, "ce-id", ce)
  BY ChosenSays, LowerCases
<1> HIDE DEF g
<1>4. header_value(g, "content-type") = NoValue
  BY <1>2, <1>3, ReadSays
<1>5. CASE ce = NoValue
  BY <1>1, <1>2, <1>3, <1>4, <1>5, ChosenOne
<1>6. CASE ce # NoValue
  <2>1. PICK i \in Named(g, "ce-id") :
          /\ i \in DOMAIN g /\ g[i][2] = ce
          /\ Chosen(g, Named(g, "ce-id")) = <<g[i]>>
    BY <1>2, <1>3, <1>6, ChosenOne
  <2>2. g[i] \in Names \X V
    BY <1>2, <2>1, ElementOfSeq, LenProperties
  <2>3. LowerCase(g[i][1]) = "ce-id"
    BY <2>1, LowerCases DEF Named
  <2>4. g[i] = <<"ce-id", ce>>
    <3>1. g[i] = <<g[i][1], g[i][2]>> /\ g[i][1] \in Names
      BY <2>2
    <3>2. g[i][1] = "ce-id"
      BY <2>3, <3>1, LowerCaseNames
    <3>3. QED
      BY <2>1, <3>1, <3>2
  <2>5. QED
    BY <1>1, <1>4, <1>6, <2>1, <2>4
<1>7. QED
  BY <1>5, <1>6

\* An arrival is the request for event k of p, as it comes in a version.
Comes(a, p, k, version) ==
    a.request = [request(webhooks[p], published[p][k])
                    EXCEPT !.headers = Came(@, version)]

\* An event was published as the binding writes one, and what arrived is its
\* request.
ReadInv ==
    /\ \A p \in Parties : \A k \in 1..MaxEvents :
          \E media \in Media : published[p][k] = Written(media, k)
    /\ \A a \in arrived : \E version \in {1, 2} :
          Comes(a, a.of[1], a.of[2], version)

\* Nothing that arrives later changes that, and what arrives is so.
LEMMA ReadInductive == ReadInv /\ [Next]_vars => ReadInv'
<1> SUFFICES ASSUME ReadInv, [Next]_vars PROVE ReadInv'
  OBVIOUS
<1>1. CASE UNCHANGED <<webhooks, published, arrived>>
  <2>1. \A a, p, k, version : Comes(a, p, k, version)' = Comes(a, p, k, version)
    BY <1>1 DEF Comes
  <2>2. QED
    BY <1>1, <2>1 DEF ReadInv
<1>2. ASSUME NEW p \in Parties, NEW n \in Sends, Arrives(p, n) PROVE ReadInv'
  <2>1. UNCHANGED <<webhooks, published>>
    BY <1>2 DEF Arrives
  <2>2. PICK version \in Speaks(webhooks[p]) :
          arrived' = arrived \cup
            {[of |-> <<p, carries[p][n]>>,
              request |-> [request(webhooks[p], published[p][carries[p][n]])
                              EXCEPT !.headers = Came(@, version)]]}
    BY <1>2 DEF Arrives
  <2>3. version \in {1, 2}
    BY DEF Speaks
  <2>4. PICK b : /\ arrived' = arrived \cup {b} /\ b.of = <<p, carries[p][n]>>
                 /\ Comes(b, p, carries[p][n], version)
    <3> DEFINE b == [of |-> <<p, carries[p][n]>>,
                     request |-> [request(webhooks[p], published[p][carries[p][n]])
                                     EXCEPT !.headers = Came(@, version)]]
    <3>1. b.of = <<p, carries[p][n]>> /\ Comes(b, p, carries[p][n], version)
      BY DEF Comes
    <3>2. arrived' = arrived \cup {b}
      BY <2>2
    <3> HIDE DEF b
    <3>3. QED
      BY <3>1, <3>2
  <2>5. ASSUME NEW a \in arrived'
        PROVE  \E v \in {1, 2} : Comes(a, a.of[1], a.of[2], v)
    <3>1. CASE a \in arrived
      BY <3>1 DEF ReadInv
    <3>2. CASE a = b
      <4>1. a.of[1] = p /\ a.of[2] = carries[p][n]
        BY <2>4, <3>2
      <4>2. QED
        BY <2>3, <2>4, <3>2, <4>1
    <3>3. QED
      BY <2>4, <2>5, <3>1, <3>2
  <2>6. \A a, q, k, v : Comes(a, q, k, v)' = Comes(a, q, k, v)
    BY <2>1 DEF Comes
  <2>7. QED
    BY <2>1, <2>5, <2>6 DEF ReadInv
<1>3. CASE Next
  <2>1. PICK p \in Parties :
          \/ Carry(p) \/ CarryUnhooked(p) \/ Judged(p) \/ Missed(p)
          \/ \E n \in Sends : Arrives(p, n)
    BY <1>3 DEF Next
  <2>2. CASE Carry(p) \/ CarryUnhooked(p) \/ Judged(p) \/ Missed(p)
    <3>1. UNCHANGED <<webhooks, published, arrived>>
      BY <2>2 DEF Carry, CarryUnhooked, Judged, Missed
    <3>2. QED
      BY <1>1, <3>1
  <2>3. QED
    BY <1>2, <2>1, <2>2
<1>4. QED
  BY <1>1, <1>3 DEF vars

\* The events are published so, and none has arrived.
LEMMA ReadInit == Init => ReadInv
<1> SUFFICES ASSUME Init PROVE ReadInv
  OBVIOUS
<1>1. /\ arrived = {}
      /\ published \in [Parties -> {[k \in 1..MaxEvents |-> Written(media, k)] :
                                      media \in Media}]
  BY DEF Init
<1>2. ASSUME NEW p \in Parties, NEW k \in 1..MaxEvents
      PROVE  \E media \in Media : published[p][k] = Written(media, k)
  <2>1. PICK media \in Media :
          published[p] = [j \in 1..MaxEvents |-> Written(media, j)]
    BY <1>1
  <2>2. QED
    BY <2>1
<1>3. QED
  BY <1>1, <1>2 DEF ReadInv

----------------------------------------------------------------------------
\* The theorems.

\* The event wire starts in IInv.
LEMMA InitInductive == Init => IInv
<1> SUFFICES ASSUME Init PROVE IInv
  OBVIOUS
<1>1. Typing
  BY EmptySeq DEF Init, Wire!Init, Typing, Outcomes
<1>2. CarriesInv
  <2>1. \A p \in Parties : /\ carries[p] = <<>> /\ Len(<<>>) = 0
                           /\ asked[p] = 0 /\ told[p] = "never"
    BY EmptySeq DEF Init, Wire!Init
  <2>2. QED
    BY <2>1 DEF CarriesInv
<1>3. ForwardInv /\ ArrivedInv
  BY DEF Init, Wire!Init, ForwardInv, ArrivedInv
<1>4. QED
  BY <1>1, <1>2, <1>3 DEF IInv

\* What was carried, what arrived, and what was said of it.
THEOREM Invariant == Spec => []IInv
<1>1. IInv /\ [Next]_vars => IInv'
  <2> SUFFICES ASSUME IInv, [Next]_vars PROVE IInv'
    OBVIOUS
  <2>1. CASE Next
    BY <2>1, CarryInductive, EndsInductive, ArrivesInductive DEF Next
  <2>2. CASE UNCHANGED vars
    BY <2>2 DEF vars, wireVars, IInv, Typing, CarriesInv, ForwardInv,
       ArrivedInv, Arrived
  <2>3. QED
    BY <2>1, <2>2
<1>2. QED
  BY <1>1, InitInductive, PTL DEF Spec

\* No event is passed over for a status (EventWire::carry, status::judge):
\* those before one that arrived have arrived, or their own exchange failed
\* for good.
THEOREM PassesNoneOver == Spec => []NonePassedOver
<1>1. IInv => NonePassedOver
  <2> SUFFICES ASSUME IInv, NEW a \in arrived, NEW k \in 1..a.of[2]
               PROVE  \/ <<a.of[1], k>> \in dropped
                      \/ \E b \in arrived : b.of = <<a.of[1], k>>
    BY DEF NonePassedOver
  <2>1. PICK p \in Parties, m \in 1..MaxEvents : a.of = <<p, m>>
    <3>1. a.of \in Parties \X (1..MaxEvents)
      BY DEF IInv, Typing
    <3>2. QED
      BY <3>1
  <2>2. webhooks[p] # NoWebhook /\ m <= head[p] /\ head[p] \in Nat
    BY <2>1 DEF IInv, Typing, ArrivedInv
  <2>3. CASE k = m
    BY <2>1, <2>3
  <2>4. CASE k # m
    <3>1. k \in 1..head[p] - 1
      BY <2>1, <2>2, <2>4, BoundAssumption
    <3>2. QED
      BY <2>1, <2>2, <3>1 DEF IInv, ForwardInv, Arrived
  <2>5. QED
    BY <2>3, <2>4
<1>2. QED
  BY <1>1, Invariant, PTL

\* What was published is what is read back (request, carried): the content
\* type, in either mode and version, the attributes with none lost or added,
\* and the body.
THEOREM ReadsAsPublished == Spec => []ReadBackAsPublished
<1>1. IInv /\ ReadInv => ReadBackAsPublished
  <2> SUFFICES ASSUME IInv, ReadInv, NEW a \in arrived
               PROVE  LET was == published[a.of[1]][a.of[2]]
                          read == carried(a.request)
                      IN  /\ read.content_type = was.content_type
                          /\ header_value(read.headers, "content-type") = NoValue
                          /\ Chosen(read.headers, Named(read.headers, "ce-id")) =
                                was.headers
                          /\ read.body = was.body
    BY DEF ReadBackAsPublished
  <2>1. PICK p \in Parties, k \in 1..MaxEvents : a.of = <<p, k>>
    <3>1. a.of \in Parties \X (1..MaxEvents)
      BY DEF IInv, Typing
    <3>2. QED
      BY <3>1
  <2>2. PICK media \in Media : published[p][k] = Written(media, k)
    BY DEF ReadInv
  <2>3. PICK version \in {1, 2} :
          a.request = [request(webhooks[p], Written(media, k))
                          EXCEPT !.headers = Came(@, version)]
    <3>1. PICK version \in {1, 2} : Comes(a, a.of[1], a.of[2], version)
      BY DEF ReadInv
    <3>2. a.of[1] = p /\ a.of[2] = k
      BY <2>1
    <3>3. Comes(a, p, k, version)
      BY <3>1, <3>2
    <3>4. QED
      BY <2>2, <3>3 DEF Comes
  <2>4. /\ a.request.headers =
              Came(request(webhooks[p], Written(media, k)).headers, version)
        /\ a.request.body = k
    BY <2>3 DEF request, Written
  <2>5. PICK V : LET h == request(webhooks[p], Written(media, k)).headers
                 IN  /\ h \in Seq(Names \X V)
                     /\ Says(h, "content-type", media)
                     /\ Says(h, "ce-id", Attributes(media))
    BY RequestSays
  <2>6. /\ a.request.headers \in Seq(Names \X V)
        /\ Says(a.request.headers, "content-type", media)
        /\ Says(a.request.headers, "ce-id", Attributes(media))
    BY <2>4, <2>5, CameTyped, CameSays
  <2>7. LET read == carried(a.request)
        IN  /\ read.content_type = media
            /\ header_value(read.headers, "content-type") = NoValue
            /\ Chosen(read.headers, Named(read.headers, "ce-id")) =
                  IF Attributes(media) = NoValue THEN <<>>
                  ELSE <<<<"ce-id", Attributes(media)>>>>
    BY <2>6, CarriedReads
  <2>8. /\ Written(media, k).content_type = media
        /\ Written(media, k).headers = IF Attributes(media) = NoValue THEN <<>>
                                       ELSE <<<<"ce-id", Attributes(media)>>>>
        /\ Written(media, k).body = k
    BY DEF Written, Attributes, Header, NoValue
  <2>9. carried(a.request).body = k
    BY <2>4 DEF carried
  <2>10. QED
    BY <2>1, <2>2, <2>7, <2>8, <2>9
<1>2. QED
  BY <1>1, Invariant, ReadInit, ReadInductive, PTL DEF Spec
=============================================================================
