--------------------------- MODULE CustodyProofs ---------------------------
(***************************************************************************)
(* Proofs about Custody, for any Streams, any bound on sends, and far ends *)
(* that honor the Idempotency-Key or do not: what a sender makes of an     *)
(* answer is what became of its Stream.                                    *)
(***************************************************************************)
EXTENDS Custody, FiniteSetTheorems, TLAPS

\* TypeOK, but for how often a Stream is taken: that takes a count of its
\* arrivals.
Typing ==
    /\ asked \in [Streams -> 0..MaxSends]
    /\ told \in [Streams -> {"never", "asking", "answer", "stray", "failed"}]
    /\ acted \in [Streams -> [1..MaxSends -> 0..2]]
    /\ outcome \in [Streams -> Outcomes]
    /\ cycle \in SUBSET Arrivals
    /\ ledger \in [Streams -> Nat]
    /\ given \in [Streams -> SUBSET Verdicts]
    /\ said \in [Sends -> SUBSET Statuses]
    /\ known \in SUBSET (Sends \X Statuses)

\* The arrivals of a Stream whose receive cycle is over.
Over(j) == {p \in (1..MaxSends) \X (1..2) :
                p[2] <= acted[j][p[1]] /\ <<j, p[1], p[2]>> \notin cycle}

\* A send that waits was begun, what is in the receive cycle arrived, and a
\* Stream is taken at most once for each arrival.
CountInv ==
    /\ \A j \in Streams : told[j] = "asking" => asked[j] \in 1..MaxSends
    /\ \A a \in cycle : a[3] <= acted[a[1]][a[2]]
    /\ \A j \in Streams : ledger[j] <= Cardinality(Over(j))

\* The statuses that refuse, and what each status answered says of its
\* Stream.
RefusedCodes == {refused(why) : why \in Refusals}

Means(j, s) ==
    /\ s = ACCEPTED => ledger[j] > 0
    /\ s \in RefusedCodes => given[j] \cap Refusals # {}

MeantInv ==
    /\ \A d \in Sends : \A s \in said[d] : Means(d[1], s)
    /\ \A k \in known : /\ k[1][1] \in Posted /\ k[1][2] = 1
                        /\ k[2] \in {ACCEPTED} \cup RefusedCodes
                        /\ Means(k[1][1], k[2])

\* A far end that honors the key remembers one outcome of a Journey, what it
\* answers is that outcome or a failure, and the Stream is taken by it alone.
RememberInv ==
    Honors =>
        /\ \A k, m \in known : k[1] = m[1] => k = m
        /\ \A d \in Sends : d[1] \in Posted => \A s \in said[d] :
                s # FAILED => <<<<d[1], 1>>, s>> \in known
        /\ \A j \in Posted :
            /\ ledger[j] <= 1
            /\ ledger[j] = 1 => <<<<j, 1>>, ACCEPTED>> \in known
            /\ outcome[j] = "refused" =>
                \E s \in RefusedCodes : <<<<j, 1>>, s>> \in known

IInv ==
    /\ Typing /\ CountInv /\ MeantInv /\ RememberInv
    /\ SentIsInCustody /\ RefusedOnlyByVerdict

----------------------------------------------------------------------------
\* What the statuses are, and what the sender makes of them.

\* Every status there is, as a number.
LEMMA Codes ==
  /\ ACCEPTED = 202 /\ FAILED = 503 /\ STRAY = 408
  /\ RefusedCodes = {401, 403, 422}
  /\ Statuses = {202, 401, 403, 422, 503, 408}
<1>1. ACCEPTED = 202 /\ FAILED = 503 /\ STRAY = 408
  BY DEF ACCEPTED, FAILED, STRAY
<1>2. /\ refused("Unidentified") = 401 /\ refused("Forbidden") = 403
      /\ refused("Unacceptable") = 422
  BY DEF refused
<1>3. RefusedCodes = {401, 403, 422}
  BY <1>2 DEF RefusedCodes, Refusals
<1>4. /\ status("Accepted") = 202 /\ status("Failed") = 503
      /\ status("Unidentified") = 401 /\ status("Forbidden") = 403
      /\ status("Unacceptable") = 422
  BY <1>1, <1>2 DEF status, Refusals
<1>5. Statuses = {202, 401, 403, 422, 503, 408}
  BY <1>1, <1>4 DEF Statuses, Verdicts, Refusals
<1>6. QED
  BY <1>1, <1>3, <1>5

\* A sender takes a Stream for sent or for refused by those statuses alone.
LEMMA JudgeTells ==
  ASSUME NEW s \in Statuses
  PROVE  /\ judge(s) \in {"sent", "retry", "refused"}
         /\ judge(s) = "sent" => s = ACCEPTED
         /\ judge(s) = "refused" => s \in RefusedCodes
         /\ judge(STRAY) = "retry"
<1>1. s \in {202, 401, 403, 422, 503, 408}
  BY Codes
<1>2. /\ judge(202) = "sent" /\ judge(503) = "retry" /\ judge(408) = "retry"
      /\ judge(401) = "refused" /\ judge(403) = "refused"
      /\ judge(422) = "refused"
  BY DEF judge, retryable
<1>3. QED
  BY <1>1, <1>2, Codes

\* A verdict is answered with a status of its own kind.
LEMMA StatusTells ==
  ASSUME NEW v \in Verdicts
  PROVE  /\ status(v) \in Statuses
         /\ v = "Accepted" => status(v) = ACCEPTED
         /\ v = "Failed" => status(v) = FAILED
         /\ v \in Refusals => status(v) \in RefusedCodes
         /\ ACCEPTED \notin RefusedCodes /\ FAILED \notin RefusedCodes
         /\ ACCEPTED # FAILED
         /\ v = "Accepted" \/ v = "Failed" \/ v \in Refusals
         /\ "Accepted" \notin Refusals /\ "Failed" \notin Refusals
<1>1. status(v) \in Statuses
  BY DEF Statuses
<1>2. /\ v = "Accepted" => status(v) = ACCEPTED
      /\ v = "Failed" => status(v) = FAILED
  BY DEF status, Refusals
<1>3. v \in Refusals => status(v) \in RefusedCodes
  BY DEF status, RefusedCodes, Refusals
<1>4. QED
  BY <1>1, <1>2, <1>3, Codes DEF Verdicts, Refusals

----------------------------------------------------------------------------
\* Counting arrivals.

\* There are at most two for each send.
LEMMA PairsFinite ==
  /\ IsFiniteSet((1..MaxSends) \X (1..2))
  /\ Cardinality((1..MaxSends) \X (1..2)) = 2 * MaxSends
<1>1. 1 \in Int /\ 2 \in Int /\ MaxSends \in Int /\ MaxSends >= 0
  BY BoundAssumption
<1>2. /\ IsFiniteSet(1..MaxSends) /\ IsFiniteSet(1..2)
      /\ Cardinality(1..MaxSends) = IF 1 > MaxSends THEN 0 ELSE MaxSends - 1 + 1
      /\ Cardinality(1..2) = IF 1 > 2 THEN 0 ELSE 2 - 1 + 1
  BY <1>1, FS_Interval
<1>3. Cardinality(1..MaxSends) = MaxSends /\ Cardinality(1..2) = 2
  BY <1>1, <1>2
<1>4. /\ IsFiniteSet((1..MaxSends) \X (1..2))
      /\ Cardinality((1..MaxSends) \X (1..2))
            = Cardinality(1..MaxSends) * Cardinality(1..2)
  BY <1>2, FS_Product
<1>5. QED
  BY <1>1, <1>3, <1>4

\* The arrivals of a Stream that are over can be counted ...
LEMMA OverFinite ==
  ASSUME NEW j
  PROVE  /\ IsFiniteSet(Over(j)) /\ Cardinality(Over(j)) \in Nat
         /\ Cardinality(Over(j)) <= 2 * MaxSends
<1>1. Over(j) \in SUBSET ((1..MaxSends) \X (1..2))
  BY DEF Over
<1>2. /\ IsFiniteSet(Over(j))
      /\ Cardinality(Over(j)) <= Cardinality((1..MaxSends) \X (1..2))
  BY <1>1, PairsFinite, FS_Subset
<1>3. QED
  BY <1>2, PairsFinite, FS_CardinalityType

\* ... after a step too ...
LEMMA OverTyped ==
  ASSUME NEW j
  PROVE  IsFiniteSet(Over(j)') /\ Cardinality(Over(j)') \in Nat
<1>1. Over(j)' \in SUBSET ((1..MaxSends) \X (1..2))
  BY DEF Over
<1>2. IsFiniteSet(Over(j)')
  BY <1>1, PairsFinite, FS_Subset
<1>3. QED
  BY <1>2, FS_CardinalityType

\* ... and if none is taken away there are no fewer.
LEMMA MoreOver ==
  ASSUME NEW j, Over(j) \subseteq Over(j)'
  PROVE  Cardinality(Over(j)) <= Cardinality(Over(j)')
BY OverTyped, FS_Subset

----------------------------------------------------------------------------
\* The sender's steps.

SenderStep(j) ==
    Send(j) \/ SendUnsent(j) \/ CarryUnhooked(j) \/ Judged(j) \/ Missed(j)

\* A sender sends, or makes something of what it was told.
LEMMA SenderInductive ==
  ASSUME IInv, NEW j \in Streams, SenderStep(j)
  PROVE  IInv'
<1> USE DEF IInv
<1>1. UNCHANGED <<acted, cycle, ledger, given, said, known>>
  BY DEF SenderStep, Send, SendUnsent, CarryUnhooked, Judged, Missed, wireVars,
     Wire!Ask, Wire!Answer, Wire!Miss
<1>2. /\ asked' \in [Streams -> 0..MaxSends]
      /\ told' \in [Streams -> {"never", "asking", "answer", "stray", "failed"}]
  <2>1. CASE Send(j)
    <3>1. asked[j] + 1 \in 0..MaxSends
      BY <2>1, BoundAssumption DEF Send, Wire!Ask, Typing
    <3>2. QED
      BY <2>1, <3>1 DEF Send, Wire!Ask, Typing
  <2>2. CASE SendUnsent(j) \/ CarryUnhooked(j)
    BY <2>2 DEF SendUnsent, CarryUnhooked, wireVars, Typing
  <2>3. CASE Judged(j)
    BY <2>3 DEF Judged, Wire!Answer, Typing
  <2>4. CASE Missed(j)
    BY <2>4 DEF Missed, Wire!Miss, Typing
  <2>5. QED
    BY <2>1, <2>2, <2>3, <2>4 DEF SenderStep
<1>3. PICK how \in Outcomes :
        /\ outcome' = [outcome EXCEPT ![j] = how]
        /\ how = "refused" =>
            \E d \in Sends, s \in RefusedCodes : d[1] = j /\ s \in said[d]
        /\ how = "sent" => \E d \in Sends : d[1] = j /\ ACCEPTED \in said[d]
  <2>1. CASE Send(j)
    BY <2>1 DEF Send, Outcomes
  <2>2. CASE SendUnsent(j) \/ CarryUnhooked(j)
    BY <2>2 DEF SendUnsent, CarryUnhooked, Failure, Outcomes
  <2>3. CASE Judged(j)
    <3>1. PICK d \in Sends : d = <<j, asked[j]>>
      BY <2>3 DEF Judged, Wire!Answer, CountInv, Sends
    <3>2. PICK s \in said[d] : outcome' = [outcome EXCEPT ![j] = judge(s)]
      BY <2>3, <3>1 DEF Judged
    <3>3. s \in Statuses
      BY DEF Typing
    <3>4. judge(s) \in Outcomes
      BY <3>3, JudgeTells DEF Outcomes
    <3>5. QED
      BY <3>1, <3>2, <3>3, <3>4, JudgeTells
  <2>4. CASE Missed(j)
    <3>1. judge(STRAY) = "retry"
      BY Codes, JudgeTells
    <3>2. PICK how \in Failure : outcome' = [outcome EXCEPT ![j] = how]
      BY <2>4, <3>1 DEF Missed, Failure
    <3>3. QED
      BY <3>2 DEF Failure, Outcomes
  <2>5. QED
    BY <2>1, <2>2, <2>3, <2>4 DEF SenderStep
<1>4. Typing'
  BY <1>1, <1>2, <1>3 DEF Typing
<1>5. CountInv'
  <2>1. ASSUME NEW u \in Streams, told'[u] = "asking"
        PROVE  asked'[u] \in 1..MaxSends
    <3>1. CASE Send(j)
      <4>1. asked' = [asked EXCEPT ![j] = @ + 1] /\ asked[j] < MaxSends
            /\ told' = [told EXCEPT ![j] = "asking"]
        BY <3>1 DEF Send, Wire!Ask
      <4>2. CASE u = j
        BY <4>1, <4>2, BoundAssumption DEF Typing
      <4>3. CASE u # j
        BY <2>1, <4>1, <4>3 DEF Typing, CountInv
      <4>4. QED
        BY <4>2, <4>3
    <3>2. CASE SendUnsent(j) \/ CarryUnhooked(j)
      BY <2>1, <3>2 DEF SendUnsent, CarryUnhooked, wireVars, CountInv
    <3>3. CASE Judged(j)
      BY <2>1, <3>3 DEF Judged, Wire!Answer, CountInv, Typing
    <3>4. CASE Missed(j)
      BY <2>1, <3>4 DEF Missed, Wire!Miss, CountInv, Typing
    <3>5. QED
      BY <3>1, <3>2, <3>3, <3>4 DEF SenderStep
  <2>2. \A u : Over(u)' = Over(u)
    BY <1>1 DEF Over
  <2>3. QED
    BY <1>1, <2>1, <2>2 DEF CountInv
<1>6. MeantInv'
  BY <1>1 DEF MeantInv, Means
<1>7. RememberInv'
  <2>1. ASSUME Honors, j \in Posted, how = "refused"
        PROVE  \E s \in RefusedCodes : <<<<j, 1>>, s>> \in known
    <3>1. PICK d \in Sends, s \in RefusedCodes : d[1] = j /\ s \in said[d]
      BY <1>3, <2>1
    <3>2. s # FAILED
      BY Codes
    <3>3. QED
      BY <2>1, <3>1, <3>2 DEF RememberInv
  <2>2. ASSUME Honors, NEW u \in Posted, outcome'[u] = "refused"
        PROVE  \E s \in RefusedCodes : <<<<u, 1>>, s>> \in known
    <3>1. CASE u = j
      BY <1>3, <2>1, <2>2, <3>1 DEF Typing
    <3>2. CASE u # j
      <4>1. u \in Streams /\ outcome[u] = "refused"
        BY <1>3, <2>2, <3>2 DEF Typing, Streams
      <4>2. QED
        BY <2>2, <4>1 DEF RememberInv
    <3>3. QED
      BY <3>1, <3>2
  <2>3. QED
    BY <1>1, <2>2 DEF RememberInv
<1>8. SentIsInCustody'
  <2>1. how = "sent" => ledger[j] > 0
    BY <1>3 DEF MeantInv, Means
  <2>2. QED
    BY <1>1, <1>3, <2>1 DEF SentIsInCustody, Typing
<1>9. RefusedOnlyByVerdict'
  <2>1. how = "refused" => given[j] \cap Refusals # {}
    BY <1>3 DEF MeantInv, Means
  <2>2. QED
    BY <1>1, <1>3, <2>1 DEF RefusedOnlyByVerdict, Typing
<1>10. QED
  BY <1>4, <1>5, <1>6, <1>7, <1>8, <1>9

----------------------------------------------------------------------------
\* The receiver's steps.

\* An arrival is in its receive cycle: none is over by it.
LEMMA ArriveInductive ==
  ASSUME IInv, NEW j \in Streams, NEW n \in 1..MaxSends, Arrive(j, n)
  PROVE  IInv'
<1> USE DEF IInv
<1>1. /\ UNCHANGED <<asked, told, outcome, ledger, given, said, known>>
      /\ acted' = [acted EXCEPT ![j][n] = @ + 1] /\ acted[j][n] < 2
      /\ cycle' = cycle \cup {<<j, n, acted[j][n] + 1>>}
  BY DEF Arrive, Wire!Act
<1>2. acted[j] \in [1..MaxSends -> 0..2] /\ acted[j][n] \in 0..1
  <2>1. acted[j] \in [1..MaxSends -> 0..2]
    BY DEF Typing
  <2>2. acted[j][n] \in 0..2
    BY <2>1
  <2>3. QED
    BY <1>1, <2>1, <2>2
<1>3. acted' = [acted EXCEPT ![j] = [acted[j] EXCEPT ![n] = @ + 1]]
  BY <1>1
<1>4. /\ acted' \in [Streams -> [1..MaxSends -> 0..2]]
      /\ acted'[j][n] = acted[j][n] + 1
      /\ \A u \in Streams : \A m \in 1..MaxSends :
            <<u, m>> # <<j, n>> => acted'[u][m] = acted[u][m]
  <2>1. [acted[j] EXCEPT ![n] = @ + 1] \in [1..MaxSends -> 0..2]
    BY <1>2
  <2>2. /\ acted'[j] = [acted[j] EXCEPT ![n] = @ + 1]
        /\ \A u \in Streams \ {j} : acted'[u] = acted[u]
    BY <1>3 DEF Typing
  <2>3. \A m \in 1..MaxSends : m # n => acted'[j][m] = acted[j][m]
    BY <1>2, <2>2
  <2>4. QED
    BY <1>2, <1>3, <2>1, <2>2, <2>3 DEF Typing
<1>5. Typing'
  <2>1. <<j, n, acted[j][n] + 1>> \in Arrivals
    BY <1>2 DEF Arrivals
  <2>2. cycle' \in SUBSET Arrivals
    BY <1>1, <2>1 DEF Typing
  <2>3. QED
    BY <1>1, <1>4, <2>2 DEF Typing
<1>6. CountInv'
  <2>1. ASSUME NEW a \in cycle' PROVE a[3] <= acted'[a[1]][a[2]]
    <3>1. CASE a = <<j, n, acted[j][n] + 1>>
      BY <1>2, <1>4, <3>1
    <3>2. CASE a \in cycle
      <4>1. /\ a[1] \in Streams /\ a[2] \in 1..MaxSends /\ a[3] \in 1..2
            /\ a[3] <= acted[a[1]][a[2]]
        BY <3>2 DEF Typing, CountInv, Arrivals
      <4>2. CASE <<a[1], a[2]>> = <<j, n>>
        BY <1>2, <1>4, <4>1, <4>2
      <4>3. CASE <<a[1], a[2]>> # <<j, n>>
        BY <1>4, <4>1, <4>3
      <4>4. QED
        BY <4>2, <4>3
    <3>3. QED
      BY <1>1, <3>1, <3>2
  <2>2. ASSUME NEW u \in Streams PROVE Over(u) \subseteq Over(u)'
    <3>1. SUFFICES ASSUME NEW p \in Over(u) PROVE p \in Over(u)'
      OBVIOUS
    <3>2. /\ p \in (1..MaxSends) \X (1..2) /\ p[2] <= acted[u][p[1]]
          /\ <<u, p[1], p[2]>> \notin cycle
      BY DEF Over
    <3>3. p[1] \in 1..MaxSends /\ p[2] \in 1..2
      BY <3>2
    <3>4. p[2] <= acted'[u][p[1]]
      <4>1. CASE <<u, p[1]>> = <<j, n>>
        BY <1>2, <1>4, <3>2, <3>3, <4>1
      <4>2. CASE <<u, p[1]>> # <<j, n>>
        BY <1>4, <3>2, <3>3, <4>2
      <4>3. QED
        BY <4>1, <4>2
    <3>5. <<u, p[1], p[2]>> # <<j, n, acted[j][n] + 1>>
      BY <1>2, <3>2, <3>3
    <3>6. QED
      BY <1>1, <3>2, <3>4, <3>5 DEF Over
  <2>3. ASSUME NEW u \in Streams PROVE ledger'[u] <= Cardinality(Over(u)')
    <3>1. Cardinality(Over(u)) <= Cardinality(Over(u)')
      BY <2>2, MoreOver
    <3>2. /\ ledger[u] <= Cardinality(Over(u)) /\ ledger[u] \in Nat
          /\ Cardinality(Over(u)) \in Nat /\ Cardinality(Over(u)') \in Nat
      BY OverFinite, OverTyped DEF CountInv, Typing
    <3>3. QED
      BY <1>1, <3>1, <3>2
  <2>4. QED
    BY <1>1, <2>1, <2>3 DEF CountInv
<1>7. MeantInv' /\ RememberInv'
  BY <1>1 DEF MeantInv, Means, RememberInv
<1>8. SentIsInCustody' /\ RefusedOnlyByVerdict'
  BY <1>1 DEF SentIsInCustody, RefusedOnlyByVerdict
<1>9. QED
  BY <1>5, <1>6, <1>7, <1>8

\* An arrival's receive cycle ends: one more is over.
LEMMA AcknowledgedCounts ==
  ASSUME IInv, NEW a \in cycle, Acknowledged(a), UNCHANGED wireVars,
         \/ ledger' = ledger
         \/ ledger' = [ledger EXCEPT ![a[1]] = @ + 1]
  PROVE  CountInv' /\ cycle' \in SUBSET Arrivals
<1> USE DEF IInv
<1>1. /\ cycle' = cycle \ {a} /\ asked' = asked /\ told' = told
      /\ acted' = acted /\ cycle' \in SUBSET Arrivals
  BY DEF Acknowledged, wireVars, Typing
<1>2. /\ a[1] \in Streams /\ a[2] \in 1..MaxSends /\ a[3] \in 1..2
      /\ a = <<a[1], a[2], a[3]>> /\ a[3] <= acted[a[1]][a[2]]
  BY DEF Typing, Arrivals, CountInv
<1>3. ASSUME NEW u \in Streams
      PROVE  /\ ledger[u] <= Cardinality(Over(u)) /\ ledger[u] \in Nat
             /\ Cardinality(Over(u)) \in Nat /\ Cardinality(Over(u)') \in Nat
             /\ Over(u) \subseteq Over(u)'
             /\ Cardinality(Over(u)) <= Cardinality(Over(u)')
  <2>1. Over(u) \subseteq Over(u)'
    BY <1>1 DEF Over
  <2>2. QED
    BY <2>1, OverFinite, OverTyped, MoreOver DEF CountInv, Typing
<1>4. Cardinality(Over(a[1])) + 1 <= Cardinality(Over(a[1])')
  <2>1. <<a[2], a[3]>> \notin Over(a[1]) /\ <<a[2], a[3]>> \in Over(a[1])'
    BY <1>1, <1>2 DEF Over
  <2>2. Over(a[1]) \in SUBSET Over(a[1])' /\ Over(a[1]) # Over(a[1])'
    BY <1>2, <1>3, <2>1
  <2>3. Cardinality(Over(a[1])) # Cardinality(Over(a[1])')
    BY <2>2, OverTyped, FS_Subset
  <2>4. QED
    BY <1>2, <1>3, <2>3
<1>5. ASSUME NEW u \in Streams PROVE ledger'[u] <= Cardinality(Over(u)')
  <2>1. CASE ledger' = ledger
    BY <1>3, <2>1
  <2>2. CASE ledger' = [ledger EXCEPT ![a[1]] = @ + 1]
    BY <1>2, <1>3, <1>4, <2>2 DEF Typing
  <2>3. QED
    BY <2>1, <2>2
<1>6. QED
  BY <1>1, <1>5 DEF CountInv

\* What is said of a Stream goes on being so.
LEMMA MeansMore ==
  ASSUME NEW j, NEW s, Means(j, s), ledger'[j] >= ledger[j], ledger[j] \in Nat,
         ledger'[j] \in Nat, given[j] \subseteq given'[j]
  PROVE  Means(j, s)'
BY DEF Means

\* An answer adds a status to what was said to one send, or is lost.
LEMMA AnsweredTells ==
  ASSUME said \in [Sends -> SUBSET Statuses], NEW j, NEW n, <<j, n>> \in Sends,
         NEW s \in Statuses, Answered(j, n, s)
  PROVE  /\ said' \in [Sends -> SUBSET Statuses]
         /\ \A d \in Sends : \A x \in said'[d] :
                x \in said[d] \/ (d = <<j, n>> /\ x = s)
<1>1. CASE said' = said
  BY <1>1
<1>2. CASE said' # said
  <2> DEFINE d0 == <<j, n>>
  <2>1. said' = [said EXCEPT ![d0] = @ \cup {s}]
    BY <1>2 DEF Answered
  <2> HIDE DEF d0
  <2>2. d0 \in Sends
    BY DEF d0
  <2>3. said[d0] \cup {s} \in SUBSET Statuses
    BY <2>2
  <2>4. said' \in [Sends -> SUBSET Statuses]
    BY <2>1, <2>2, <2>3
  <2>5. ASSUME NEW d \in Sends, NEW x \in said'[d]
        PROVE  x \in said[d] \/ (d = d0 /\ x = s)
    BY <2>1, <2>2, <2>5
  <2>6. QED
    BY <2>4, <2>5 DEF d0
<1>3. QED
  BY <1>1, <1>2

\* The receive cycle ends in a verdict.
LEMMA ConcludeInductive ==
  ASSUME IInv, NEW a \in cycle, NEW v \in Verdicts, Conclude(a, v)
  PROVE  IInv'
<1> USE DEF IInv
<1>1. PICK j \in Streams, n \in 1..MaxSends : j = a[1] /\ n = a[2]
  BY DEF Typing, Arrivals
<1>2. /\ Acknowledged(a) /\ UNCHANGED wireVars /\ outcome' = outcome
      /\ Remembered(j, n) = {}
      /\ given' = [given EXCEPT ![j] = @ \cup {v}]
      /\ ledger' = IF v = "Accepted" THEN [ledger EXCEPT ![j] = @ + 1]
                   ELSE ledger
      /\ known' = IF Honors /\ v # "Failed"
                  THEN known \cup {<<k, status(v)>> : k \in Key(j, n)}
                  ELSE known
      /\ Answered(j, n, status(v))
  BY <1>1 DEF Conclude
<1>3. <<j, n>> \in Sends /\ <<j, 1>> \in Sends
  BY BoundAssumption DEF Sends
<1>4. Key(j, n) = IF j \in Posted THEN {<<j, 1>>} ELSE {}
  BY DEF Key
<1>5. /\ ledger' \in [Streams -> Nat] /\ given' \in [Streams -> SUBSET Verdicts]
      /\ \A u \in Streams : /\ ledger[u] \in Nat /\ ledger'[u] \in Nat
                            /\ ledger'[u] >= ledger[u]
                            /\ given[u] \subseteq given'[u]
                            /\ u # j => ledger'[u] = ledger[u]
      /\ v = "Accepted" => ledger'[j] = ledger[j] + 1
      /\ v # "Accepted" => ledger' = ledger
      /\ v \in given'[j]
  BY <1>2 DEF Typing
<1>6. /\ said' \in [Sends -> SUBSET Statuses]
      /\ \A d \in Sends : \A s \in said'[d] :
            s \in said[d] \/ (d = <<j, n>> /\ s = status(v))
  <2>1. status(v) \in Statuses
    BY StatusTells
  <2>2. said \in [Sends -> SUBSET Statuses]
    BY DEF Typing
  <2>3. QED
    BY <1>2, <1>3, <2>1, <2>2, AnsweredTells
<1>7. /\ known \subseteq known'
      /\ \A k \in known' : \/ k \in known
                           \/ /\ k = <<<<j, 1>>, status(v)>> /\ j \in Posted
                              /\ Honors /\ v # "Failed"
      /\ Honors /\ v # "Failed" /\ j \in Posted =>
            <<<<j, 1>>, status(v)>> \in known'
  BY <1>2, <1>4
<1>8. Typing'
  <2>1. known' \in SUBSET (Sends \X Statuses)
    <3>1. ASSUME NEW k \in known' PROVE k \in Sends \X Statuses
      <4>1. CASE k \in known
        BY <4>1 DEF Typing
      <4>2. CASE k = <<<<j, 1>>, status(v)>>
        BY <1>3, <4>2, StatusTells
      <4>3. QED
        BY <1>7, <3>1, <4>1, <4>2
    <3>2. QED
      BY <3>1
  <2>2. cycle' \in SUBSET Arrivals
    BY <1>2 DEF Acknowledged, Typing
  <2>3. QED
    BY <1>2, <1>5, <1>6, <2>1, <2>2 DEF Typing, wireVars
<1>9. CountInv'
  BY <1>1, <1>2, AcknowledgedCounts
<1>10. Means(j, status(v))'
  <2>1. status(v) = ACCEPTED => v = "Accepted"
    BY StatusTells
  <2>2. status(v) \in RefusedCodes => v \in Refusals
    BY StatusTells
  <2>3. QED
    BY <1>5, <2>1, <2>2 DEF Means
<1>11. MeantInv'
  <2>1. ASSUME NEW d \in Sends, NEW s \in said'[d]
        PROVE  Means(d[1], s)'
    <3>1. PICK u \in Streams : d[1] = u
      BY DEF Sends
    <3>2. CASE s \in said[d]
      <4>1. Means(u, s)
        BY <3>1, <3>2 DEF MeantInv
      <4>2. Means(u, s)'
        BY <1>5, <4>1, MeansMore
      <4>3. QED
        BY <3>1, <4>2
    <3>3. CASE d = <<j, n>> /\ s = status(v)
      BY <1>10, <3>3
    <3>4. QED
      BY <1>6, <2>1, <3>2, <3>3
  <2>2. ASSUME NEW k \in known'
        PROVE  /\ k[1][1] \in Posted /\ k[1][2] = 1
               /\ k[2] \in {ACCEPTED} \cup RefusedCodes
               /\ Means(k[1][1], k[2])'
    <3>1. CASE k \in known
      <4>1. PICK u \in Streams, s \in Statuses : u = k[1][1] /\ s = k[2]
        BY <3>1 DEF Typing, Sends
      <4>2. Means(u, s)
        BY <3>1, <4>1 DEF MeantInv
      <4>3. Means(u, s)'
        BY <1>5, <4>2, MeansMore
      <4>4. QED
        BY <3>1, <4>1, <4>3 DEF MeantInv
    <3>2. CASE /\ k = <<<<j, 1>>, status(v)>> /\ j \in Posted /\ v # "Failed"
      BY <1>10, <3>2, StatusTells
    <3>3. QED
      BY <1>7, <2>2, <3>1, <3>2
  <2>3. QED
    BY <2>1, <2>2 DEF MeantInv
<1>12. RememberInv'
  <2> SUFFICES ASSUME Honors PROVE RememberInv'
    BY DEF RememberInv
  <2>1. j \in Posted => \A k \in known : k[1] # <<j, 1>>
    BY <1>2, <1>4 DEF Remembered
  <2>2. \A k, m \in known' : k[1] = m[1] => k = m
    BY <1>7, <2>1 DEF RememberInv
  <2>3. ASSUME NEW d \in Sends, d[1] \in Posted, NEW s \in said'[d], s # FAILED
        PROVE  <<<<d[1], 1>>, s>> \in known'
    <3>1. CASE s \in said[d]
      BY <1>7, <2>3, <3>1 DEF RememberInv
    <3>2. CASE d = <<j, n>> /\ s = status(v)
      BY <1>7, <2>3, <3>2, StatusTells
    <3>3. QED
      BY <1>6, <2>3, <3>1, <3>2
  <2>4. ASSUME NEW u \in Posted
        PROVE  /\ ledger'[u] <= 1
               /\ ledger'[u] = 1 => <<<<u, 1>>, ACCEPTED>> \in known'
               /\ outcome'[u] = "refused" =>
                    \E s \in RefusedCodes : <<<<u, 1>>, s>> \in known'
    <3>1. u \in Streams /\ ledger[u] \in Nat
      BY DEF Streams, Typing
    <3>2. /\ ledger[u] <= 1
          /\ ledger[u] = 1 => <<<<u, 1>>, ACCEPTED>> \in known
          /\ outcome[u] = "refused" =>
                \E s \in RefusedCodes : <<<<u, 1>>, s>> \in known
      BY DEF RememberInv
    <3>3. CASE u = j /\ v = "Accepted"
      <4>1. ledger[u] = 0
        BY <2>1, <3>1, <3>2, <3>3
      <4>2. ledger'[u] = 1
        BY <1>5, <3>3, <4>1
      <4>3. <<<<u, 1>>, ACCEPTED>> \in known'
        <5>1. status(v) = ACCEPTED
          BY <3>3, StatusTells
        <5>2. QED
          BY <1>7, <3>3, <5>1
      <4>4. outcome'[u] = outcome[u]
        BY <1>2
      <4>5. ASSUME NEW s, <<<<u, 1>>, s>> \in known
            PROVE  <<<<u, 1>>, s>> \in known'
        BY <1>7, <4>5
      <4>6. ledger'[u] <= 1
        BY <4>2
      <4>7. outcome'[u] = "refused" =>
                \E s \in RefusedCodes : <<<<u, 1>>, s>> \in known'
        BY <3>2, <4>4, <4>5, Zenon
      <4>8. QED
        BY <4>3, <4>6, <4>7
    <3>4. CASE ~(u = j /\ v = "Accepted")
      BY <1>2, <1>5, <1>7, <3>1, <3>2, <3>4
    <3>5. QED
      BY <3>3, <3>4
  <2>5. QED
    BY <2>2, <2>3, <2>4 DEF RememberInv
<1>13. SentIsInCustody'
  BY <1>2, <1>5 DEF SentIsInCustody
<1>14. RefusedOnlyByVerdict'
  BY <1>2, <1>5 DEF RefusedOnlyByVerdict
<1>15. QED
  BY <1>8, <1>9, <1>11, <1>12, <1>13, <1>14

\* A repeated one is answered with what is remembered, or let go.
LEMMA RepeatInductive ==
  ASSUME IInv, NEW a \in cycle, Repeat(a) \/ LetGo(a)
  PROVE  IInv'
<1> USE DEF IInv
<1>1. PICK j \in Streams, n \in 1..MaxSends : j = a[1] /\ n = a[2]
  BY DEF Typing, Arrivals
<1>2. /\ Acknowledged(a) /\ UNCHANGED wireVars
      /\ UNCHANGED <<outcome, ledger, given, known>>
      /\ said' = said \/ \E k \in Remembered(j, n) : Answered(j, n, k[2])
  BY <1>1 DEF Repeat, LetGo
<1>3. <<j, n>> \in Sends
  BY DEF Sends
<1>4. /\ said' \in [Sends -> SUBSET Statuses]
      /\ \A d \in Sends : \A s \in said'[d] :
            \/ s \in said[d]
            \/ d = <<j, n>> /\ j \in Posted /\ <<<<j, 1>>, s>> \in known
  <2>1. CASE said' = said
    BY <2>1 DEF Typing
  <2>2. ASSUME NEW k \in Remembered(j, n), Answered(j, n, k[2])
        PROVE  /\ said' \in [Sends -> SUBSET Statuses]
               /\ \A d \in Sends : \A s \in said'[d] :
                    \/ s \in said[d]
                    \/ d = <<j, n>> /\ j \in Posted /\ <<<<j, 1>>, s>> \in known
    <3>1. k \in known /\ k[1] \in Key(j, n)
      BY DEF Remembered
    <3>2. k[1] = <<j, 1>> /\ j \in Posted /\ k = <<<<j, 1>>, k[2]>>
          /\ k[2] \in Statuses
      BY <3>1 DEF Key, Typing
    <3>3. said \in [Sends -> SUBSET Statuses]
      BY DEF Typing
    <3>4. /\ said' \in [Sends -> SUBSET Statuses]
          /\ \A d \in Sends : \A x \in said'[d] :
                x \in said[d] \/ (d = <<j, n>> /\ x = k[2])
      BY <1>3, <2>2, <3>2, <3>3, AnsweredTells
    <3>5. QED
      BY <3>1, <3>2, <3>4
  <2>3. QED
    BY <1>2, <2>1, <2>2
<1>5. Typing'
  BY <1>2, <1>4 DEF Typing, Acknowledged, wireVars
<1>6. CountInv'
  BY <1>2, AcknowledgedCounts
<1>7. MeantInv'
  <2>1. ASSUME NEW d \in Sends, NEW s \in said'[d]
        PROVE  Means(d[1], s)
    <3>1. CASE s \in said[d]
      BY <3>1 DEF MeantInv
    <3>2. CASE d = <<j, n>> /\ <<<<j, 1>>, s>> \in known
      BY <3>2 DEF MeantInv
    <3>3. QED
      BY <1>4, <2>1, <3>1, <3>2
  <2>2. QED
    BY <1>2, <2>1 DEF MeantInv, Means
<1>8. RememberInv'
  <2> SUFFICES ASSUME Honors PROVE RememberInv'
    BY DEF RememberInv
  <2>1. \A k, m \in known' : k[1] = m[1] => k = m
    BY <1>2 DEF RememberInv
  <2>2. ASSUME NEW d \in Sends, d[1] \in Posted, NEW s \in said'[d], s # FAILED
        PROVE  <<<<d[1], 1>>, s>> \in known'
    <3>1. CASE s \in said[d]
      BY <1>2, <2>2, <3>1 DEF RememberInv
    <3>2. CASE d = <<j, n>> /\ <<<<j, 1>>, s>> \in known
      BY <1>2, <3>2
    <3>3. QED
      BY <1>4, <2>2, <3>1, <3>2
  <2>3. ASSUME NEW u \in Posted
        PROVE  /\ ledger'[u] <= 1
               /\ ledger'[u] = 1 => <<<<u, 1>>, ACCEPTED>> \in known'
               /\ outcome'[u] = "refused" =>
                    \E s \in RefusedCodes : <<<<u, 1>>, s>> \in known'
    BY <1>2 DEF RememberInv
  <2>4. QED
    BY <2>1, <2>2, <2>3 DEF RememberInv
<1>9. SentIsInCustody' /\ RefusedOnlyByVerdict'
  BY <1>2 DEF SentIsInCustody, RefusedOnlyByVerdict
<1>10. QED
  BY <1>5, <1>6, <1>7, <1>8, <1>9

----------------------------------------------------------------------------
\* The theorems.

\* Custody starts in IInv.
LEMMA InitInductive == Init => IInv
<1> SUFFICES ASSUME Init PROVE IInv
  OBVIOUS
<1>1. Typing
  BY BoundAssumption DEF Init, Wire!Init, Typing, Outcomes
<1>2. CountInv
  <2>1. \A j \in Streams : ledger[j] = 0 /\ Cardinality(Over(j)) \in Nat
    BY OverFinite DEF Init
  <2>2. QED
    BY <2>1 DEF Init, Wire!Init, CountInv
<1>3. MeantInv /\ RememberInv
  BY DEF Init, MeantInv, RememberInv, Streams
<1>4. SentIsInCustody /\ RefusedOnlyByVerdict
  BY DEF Init, SentIsInCustody, RefusedOnlyByVerdict
<1>5. QED
  BY <1>1, <1>2, <1>3, <1>4 DEF IInv

\* What the statuses say of a Stream is what became of it.
THEOREM Invariant == Spec => []IInv
<1>1. IInv /\ [Next]_vars => IInv'
  <2> SUFFICES ASSUME IInv, [Next]_vars PROVE IInv'
    OBVIOUS
  <2>1. CASE Next
    BY <2>1, SenderInductive, ArriveInductive, ConcludeInductive,
       RepeatInductive DEF Next, SenderStep
  <2>2. CASE UNCHANGED vars
    <3>1. UNCHANGED <<asked, told, acted, outcome, cycle, ledger, given, said,
                      known>>
      BY <2>2 DEF vars, wireVars
    <3>2. CountInv'
      <4>1. \A u : Over(u)' = Over(u)
        BY <3>1 DEF Over
      <4>2. QED
        BY <3>1, <4>1 DEF IInv, CountInv
    <3>3. QED
      BY <3>1, <3>2 DEF IInv, Typing, MeantInv, Means, RememberInv,
         SentIsInCustody, RefusedOnlyByVerdict
  <2>3. QED
    BY <2>1, <2>2
<1>2. QED
  BY <1>1, InitInductive, PTL DEF Spec

\* Every variable keeps its type: with it, a Stream is taken at most twice
\* for each time it is sent.
THEOREM TypeCorrect == Spec => []TypeOK
<1>1. IInv => TypeOK
  <2> SUFFICES ASSUME IInv PROVE TypeOK
    OBVIOUS
  <2>1. \A j \in Streams : ledger[j] \in 0..2 * MaxSends
    BY OverFinite, BoundAssumption DEF IInv, CountInv, Typing
  <2>2. ledger \in [Streams -> 0..2 * MaxSends]
    BY <2>1 DEF IInv, Typing
  <2>3. QED
    BY <2>2 DEF IInv, Typing, TypeOK
<1>2. QED
  BY <1>1, Invariant, PTL

\* What a sender holds for sent is in the far end's custody (server::status,
\* status::judge).
THEOREM Custody202 == Spec => []SentIsInCustody
BY Invariant, PTL DEF IInv

\* No Stream is given up for a status but a refusal of its own.
THEOREM RefusedByVerdict == Spec => []RefusedOnlyByVerdict
BY Invariant, PTL DEF IInv

\* A far end that honors the key takes a Journey's Stream once, and never
\* one that a status made its sender give up.
THEOREM TakesOnce == Spec => []TakenOnce
<1>1. IInv => TakenOnce
  <2> SUFFICES ASSUME IInv, Honors, NEW j \in Posted
               PROVE  /\ ledger[j] <= 1
                      /\ outcome[j] = "refused" => ledger[j] = 0
    BY DEF TakenOnce
  <2>1. /\ ledger[j] <= 1 /\ ledger[j] \in Nat
        /\ ledger[j] = 1 => <<<<j, 1>>, ACCEPTED>> \in known
    BY DEF IInv, RememberInv, Typing, Streams
  <2>2. ASSUME outcome[j] = "refused" PROVE ledger[j] # 1
    <3>1. PICK s \in RefusedCodes : <<<<j, 1>>, s>> \in known
      BY <2>2 DEF IInv, RememberInv
    <3>2. s # ACCEPTED
      BY Codes
    <3>3. \A k, m \in known : k[1] = m[1] => k = m
      BY DEF IInv, RememberInv
    <3>4. <<<<j, 1>>, ACCEPTED>> \notin known
      BY <3>1, <3>2, <3>3
    <3>5. QED
      BY <2>1, <3>4
  <2>3. QED
    BY <2>1, <2>2
<1>2. QED
  BY <1>1, Invariant, PTL
=============================================================================
