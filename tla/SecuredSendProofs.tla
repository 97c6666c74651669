------------------------- MODULE SecuredSendProofs -------------------------
(***************************************************************************)
(* Proofs about SecuredSend, for any Streams, passwords, user and keys:    *)
(* no status gives a Stream up for a password the far end admits, nothing  *)
(* goes out without one, and every key is read back whole or not at all -  *)
(* which takes what the two folds of IdempotencyKey compute, for a key of  *)
(* any length.                                                             *)
(***************************************************************************)
EXTENDS SecuredSend, SequenceTheorems, WellFoundedInduction, TLAPS

----------------------------------------------------------------------------
\* Induction, by least numbers: what FoldLeft computes is its operator
\* applied along the sequence.

\* A set of numbers has a least one.
LEMMA Least ==
  ASSUME NEW T \in SUBSET Nat, T # {}
  PROVE  \E m \in T : \A k \in T : m <= k
<1> DEFINE R == {ab \in Nat \X Nat : ab[1] < ab[2]}
<1>1. IsWellFoundedOn(OpToRel(<, Nat), Nat)
  BY NatLessThanWellFounded
<1>2. R = OpToRel(<, Nat)
  BY DEF OpToRel
<1>3. IsWellFoundedOn(R, Nat)
  BY <1>1, <1>2
<1>4. \A k, m \in Nat : <<k, m>> \notin R => m <= k
  OBVIOUS
<1> HIDE DEF R
<1>5. PICK m \in T : \A k \in T : <<k, m>> \notin R
  BY <1>3, WFMin
<1>6. QED
  BY <1>4, <1>5

\* A set of places in a sequence has a last one.
LEMMA Greatest ==
  ASSUME NEW n \in Nat, NEW s \in SUBSET (1..n), s # {}
  PROVE  Max(s) \in s /\ \A k \in s : k <= Max(s)
<1> DEFINE T == {m \in Nat : \A k \in s : k <= m}
<1>1. n \in T
  OBVIOUS
<1>2. PICK m \in T : \A k \in T : m <= k
  BY <1>1, Least
<1>3. m \in s
  <2>1. SUFFICES ASSUME m \notin s PROVE FALSE
    OBVIOUS
  <2>2. PICK x \in s : TRUE
    OBVIOUS
  <2>3. m > 0 /\ m - 1 \in Nat
    BY <1>2, <2>2
  <2>4. m - 1 \in T
    BY <1>2, <2>1, <2>3
  <2>5. QED
    BY <1>2, <2>3, <2>4
<1>4. \A k \in s : m >= k
  BY <1>2
<1>5. Max(s) \in s /\ \A y \in s : Max(s) >= y
  BY <1>3, <1>4, Zenon DEF Max
<1>6. PICK x \in s : x = Max(s)
  BY <1>5
<1>7. ASSUME NEW k \in s PROVE k <= x
  BY <1>5, <1>6
<1>8. QED
  BY <1>6, <1>7, Zenon

\* Up to a place of a sequence, the last one is that place.
LEMMA GreatestPlace ==
  ASSUME NEW i \in Nat \ {0}
  PROVE  Max(1..i) = i /\ (1..i) \ {Max(1..i)} = 1..i - 1 /\ 1..i # {}
<1> DEFINE s == 1..i
<1>1. s \in SUBSET (1..i) /\ i \in s /\ s # {} /\ i \in Nat
  OBVIOUS
<1>2. s \ {i} = 1..i - 1
  OBVIOUS
<1>3. \A m \in s : i <= m => m = i
  OBVIOUS
<1> HIDE DEF s
<1>4. Max(s) \in s /\ \A k \in s : k <= Max(s)
  BY <1>1, Greatest, Zenon
<1>5. Max(s) = i
  BY <1>1, <1>3, <1>4, Zenon
<1>6. QED
  BY <1>1, <1>2, <1>5 DEF s

\* What a fold computes on each set of places, where G is its step.
Folds(it, G, base, seq, n) ==
    \A s \in SUBSET (1..n) :
        it[s] = IF s = {} THEN base ELSE G[<<it[s \ {Max(s)}], seq[Max(s)]>>]

\* The function FoldLeft chooses, over the sets of places of a sequence,
\* exists.
LEMMA FoldExists ==
  ASSUME NEW S, NEW C, NEW base \in S, NEW G \in [S \X C -> S],
         NEW seq \in Seq(C)
  PROVE  \E it \in [SUBSET (1..Len(seq)) -> S] :
            Folds(it, G, base, seq, Len(seq))
<1> DEFINE P(n) == \E it \in [SUBSET (1..n) -> S] : Folds(it, G, base, seq, n)
           T == {n \in 0..Len(seq) : ~P(n)}
<1>1. Len(seq) \in Nat
  OBVIOUS
<1>2. P(0)
  <2> DEFINE it == [s \in SUBSET (1..0) |-> base]
  <2>1. it \in [SUBSET (1..0) -> S]
    OBVIOUS
  <2>2. \A s \in SUBSET (1..0) : s = {}
    OBVIOUS
  <2>3. Folds(it, G, base, seq, 0)
    BY <2>2 DEF Folds
  <2>4. QED
    BY <2>1, <2>3
<1>3. ASSUME NEW n \in 0..Len(seq), n # 0, P(n - 1)
      PROVE  P(n)
  <2>1. n \in Nat /\ n - 1 \in Nat /\ n \in 1..Len(seq) /\ seq[n] \in C
    BY <1>1, <1>3, ElementOfSeq
  <2>2. PICK was \in [SUBSET (1..n - 1) -> S] :
            Folds(was, G, base, seq, n - 1)
    BY <1>3
  <2> DEFINE it == [s \in SUBSET (1..n) |->
                        IF n \in s THEN G[<<was[s \ {n}], seq[n]>>] ELSE was[s]]
  <2>3. \A s \in SUBSET (1..n) : /\ n \in s => s \ {n} \in SUBSET (1..n - 1)
                                 /\ n \notin s => s \in SUBSET (1..n - 1)
    BY <2>1
  <2>4. it \in [SUBSET (1..n) -> S]
    <3>1. ASSUME NEW s \in SUBSET (1..n)
          PROVE  (IF n \in s THEN G[<<was[s \ {n}], seq[n]>>] ELSE was[s]) \in S
      BY <2>1, <2>3
    <3>2. QED
      BY <3>1
  <2>5. ASSUME NEW s \in SUBSET (1..n)
        PROVE  it[s] = IF s = {} THEN base
                       ELSE G[<<it[s \ {Max(s)}], seq[Max(s)]>>]
    <3>1. CASE n \in s
      <4>1. Max(s) = n
        <5>1. Max(s) \in s /\ n <= Max(s)
          BY <2>1, <3>1, Greatest, Zenon
        <5>2. \A m \in s : n <= m => m = n
          BY <2>1
        <5>3. QED
          BY <5>1, <5>2, Zenon
      <4>2. s \ {n} \in SUBSET (1..n) /\ n \notin s \ {n}
        OBVIOUS
      <4>3. it[s \ {n}] = was[s \ {n}]
        BY <4>2
      <4>4. it[s] = G[<<was[s \ {n}], seq[n]>>]
        BY <3>1
      <4>5. QED
        BY <3>1, <4>1, <4>3, <4>4
    <3>2. CASE n \notin s
      <4>1. s \in SUBSET (1..n - 1) /\ it[s] = was[s]
        BY <2>3, <3>2
      <4>2. s # {} => it[s \ {Max(s)}] = was[s \ {Max(s)}]
        BY <3>2
      <4>3. QED
        BY <2>2, <4>1, <4>2 DEF Folds
    <3>3. QED
      BY <3>1, <3>2
  <2>6. Folds(it, G, base, seq, n)
    BY <2>5 DEF Folds
  <2>7. QED
    BY <2>4, <2>6
<1> HIDE DEF P
<1>4. T = {}
  <2>1. SUFFICES ASSUME T # {} PROVE FALSE
    OBVIOUS
  <2>2. T \in SUBSET Nat
    BY <1>1
  <2>3. PICK m \in T : \A k \in T : m <= k
    BY <2>1, <2>2, Least
  <2>4. m # 0 /\ m \in 0..Len(seq) /\ m - 1 \in 0..Len(seq) /\ m - 1 \notin T
    BY <1>1, <1>2, <2>3
  <2>5. QED
    BY <1>3, <2>3, <2>4
<1>5. P(Len(seq))
  BY <1>1, <1>4
<1>6. QED
  BY <1>5 DEF P

\* The values a fold goes through along a sequence, G its step.
Runs(q, S, G, base, seq) ==
    /\ q \in [0..Len(seq) -> S] /\ q[0] = base
    /\ \A i \in 1..Len(seq) : q[i] = G[<<q[i - 1], seq[i]>>]

\* A function computed place by place from the one before stays where it
\* starts.
LEMMA Along ==
  ASSUME NEW S, NEW C, NEW base \in S, NEW G \in [S \X C -> S],
         NEW seq \in Seq(C), NEW q, q = [i \in 0..Len(seq) |-> q[i]],
         q[0] = base,
         \A i \in 1..Len(seq) : q[i - 1] \in S =>
                                    q[i] = G[<<q[i - 1], seq[i]>>]
  PROVE  Runs(q, S, G, base, seq)
<1> DEFINE T == {i \in 0..Len(seq) : q[i] \notin S}
<1>1. Len(seq) \in Nat /\ \A i \in 1..Len(seq) : seq[i] \in C
  BY ElementOfSeq
<1>2. T = {}
  <2>1. SUFFICES ASSUME T # {} PROVE FALSE
    OBVIOUS
  <2>2. PICK m \in T : \A k \in T : m <= k
    <3>1. T \in SUBSET Nat
      BY <1>1
    <3>2. QED
      BY <2>1, <3>1, Least
  <2>3. m # 0 /\ m \in 1..Len(seq) /\ m - 1 \in 0..Len(seq) /\ m - 1 \notin T
    BY <1>1, <2>2
  <2>4. q[m] = G[<<q[m - 1], seq[m]>>] /\ q[m - 1] \in S
    BY <2>3
  <2>5. QED
    BY <1>1, <2>2, <2>3, <2>4
<1>3. \A i \in 1..Len(seq) : i - 1 \in 0..Len(seq)
  BY <1>1
<1>4. \A i \in 0..Len(seq) : q[i] \in S
  BY <1>2
<1>5. q \in [0..Len(seq) -> S]
  BY <1>4
<1>6. QED
  BY <1>3, <1>4, <1>5 DEF Runs

\* One element more is one step more.
LEMMA OneMore ==
  ASSUME NEW S, NEW C, NEW base, NEW G, NEW seq \in Seq(C), NEW c \in C,
         NEW q, Runs(q, S, G, base, seq),
         NEW r, Runs(r, S, G, base, Append(seq, c))
  PROVE  r[Len(Append(seq, c))] = G[<<q[Len(seq)], c>>]
<1> DEFINE more == Append(seq, c)
           T == {i \in 0..Len(seq) : q[i] # r[i]}
<1>1. /\ Len(seq) \in Nat /\ Len(more) = Len(seq) + 1
      /\ \A i \in 1..Len(seq) : more[i] = seq[i]
      /\ more[Len(seq) + 1] = c
  BY AppendProperties
<1>2. /\ q[0] = base /\ \A i \in 1..Len(seq) : q[i] = G[<<q[i - 1], seq[i]>>]
  BY DEF Runs
<1>3. /\ r[0] = base /\ \A i \in 1..Len(more) : r[i] = G[<<r[i - 1], more[i]>>]
  BY DEF Runs
<1> HIDE DEF more
<1>4. T = {}
  <2>1. SUFFICES ASSUME T # {} PROVE FALSE
    OBVIOUS
  <2>2. PICK m \in T : \A k \in T : m <= k
    <3>1. T \in SUBSET Nat
      BY <1>1
    <3>2. QED
      BY <2>1, <3>1, Least
  <2>3. /\ m # 0 /\ m \in 1..Len(seq) /\ m \in 1..Len(more)
        /\ m - 1 \in 0..Len(seq) /\ m - 1 \notin T
    BY <1>1, <1>2, <1>3, <2>2
  <2>4. q[m - 1] = r[m - 1] /\ more[m] = seq[m]
    BY <1>1, <2>3
  <2>5. QED
    BY <1>2, <1>3, <2>2, <2>3, <2>4
<1>5. q[Len(seq)] = r[Len(seq)]
  BY <1>1, <1>4
<1>6. Len(more) \in 1..Len(more) /\ Len(more) - 1 = Len(seq)
  BY <1>1
<1>7. r[Len(more)] = G[<<r[Len(seq)], c>>]
  BY <1>1, <1>3, <1>6
<1>8. QED
  BY <1>5, <1>7 DEF more

----------------------------------------------------------------------------
\* The value of a deduplication key, and the reading of it.

\* What is written and read, character by character of a set A.
Write(A) == [d \in Seq(A) \X A |-> Pushed(d[1], d[2])]

Readings(A) ==
    [at : {"before", "string", "escape", "done", "malformed"}, key : Seq(A)]
ReadFrom(A) == [d \in Readings(A) \X A |-> ReadOn(d[1], d[2])]

\* What is pushed on a value is a value ...
LEMMA WriteTyped ==
  ASSUME NEW A, Backslash \in A
  PROVE  Write(A) \in [Seq(A) \X A -> Seq(A)]
<1> SUFFICES ASSUME NEW value \in Seq(A), NEW c \in A
             PROVE  Pushed(value, c) \in Seq(A)
  BY DEF Write
<1>1. <<Backslash, c>> \in Seq(A) /\ <<c>> \in Seq(A)
  OBVIOUS
<1>2. QED
  BY <1>1, ConcatProperties DEF Pushed

\* ... and what a reader makes of a character is a reading.
LEMMA ReadTyped ==
  ASSUME NEW A
  PROVE  ReadFrom(A) \in [Readings(A) \X A -> Readings(A)]
<1> SUFFICES ASSUME NEW r \in Readings(A), NEW c \in A
             PROVE  ReadOn(r, c) \in Readings(A)
  BY DEF ReadFrom
<1>1. r.key \in Seq(A) /\ Append(r.key, c) \in Seq(A) /\ <<>> \in Seq(A)
  BY AppendProperties, EmptySeq DEF Readings
<1>2. QED
  BY <1>1 DEF ReadOn, Readings, Malformed

\* FoldLeft takes either along a sequence.
LEMMA WriteRuns ==
  ASSUME NEW A, Backslash \in A, NEW base \in Seq(A), NEW seq \in Seq(A)
  PROVE  \E q : /\ Runs(q, Seq(A), Write(A), base, seq)
                /\ FoldLeft(Pushed, base, seq) = q[Len(seq)]
<1> DEFINE n == Len(seq)
           step(f, s) == IF s = {} THEN base
                         ELSE Pushed(f[s \ {Max(s)}], seq[Max(s)])
           it == CHOOSE f : f = [s \in SUBSET DOMAIN seq |-> step(f, s)]
<1>1. DOMAIN seq = 1..n /\ n \in Nat /\ \A i \in 1..n : seq[i] \in A
  BY ElementOfSeq
<1>2. Write(A) \in [Seq(A) \X A -> Seq(A)]
  BY WriteTyped
<1>3. FoldLeft(Pushed, base, seq) = it[DOMAIN seq]
  BY DEF FoldLeft, MapThenFoldSet
<1>4. PICK f \in [SUBSET (1..n) -> Seq(A)] : Folds(f, Write(A), base, seq, n)
  BY <1>2, FoldExists
<1>5. ASSUME NEW s \in SUBSET (1..n) PROVE f[s] = step(f, s)
  <2>1. CASE s = {}
    BY <1>4, <2>1 DEF Folds
  <2>2. CASE s # {}
    <3>1. Max(s) \in s
      BY <1>1, <2>2, Greatest, Zenon
    <3>2. f[s \ {Max(s)}] \in Seq(A) /\ seq[Max(s)] \in A
      BY <1>1, <1>4, <3>1
    <3>3. f[s] = Write(A)[<<f[s \ {Max(s)}], seq[Max(s)]>>]
      BY <1>4, <2>2 DEF Folds
    <3>4. QED
      BY <2>2, <3>2, <3>3 DEF Write
  <2>3. QED
    BY <2>1, <2>2
<1>6. f = [s \in SUBSET DOMAIN seq |-> step(f, s)]
  BY <1>1, <1>4, <1>5
<1>7. it = [s \in SUBSET DOMAIN seq |-> step(it, s)]
  <2> HIDE DEF step
  <2>1. QED
    BY <1>6
<1> HIDE DEF it
<1> DEFINE q == [i \in 0..n |-> it[1..i]]
<1>8. q[0] = base
  <2>1. 1..0 = {} /\ 0 \in 0..n /\ {} \in SUBSET (1..n)
    BY <1>1
  <2>2. q[0] = it[{}]
    BY <2>1
  <2>3. it[{}] = step(it, {})
    BY <1>1, <1>7, <2>1
  <2>4. QED
    BY <2>2, <2>3
<1>9. ASSUME NEW i \in 1..n, q[i - 1] \in Seq(A)
      PROVE  q[i] = Write(A)[<<q[i - 1], seq[i]>>]
  <2>1. i \in 0..n /\ i - 1 \in 0..n /\ i \in Nat \ {0}
        /\ 1..i \in SUBSET (1..n)
    BY <1>1
  <2>2. it[1..i] = step(it, 1..i)
    BY <1>1, <1>7, <2>1
  <2>3. it[1..i] = Pushed(it[1..i - 1], seq[i])
    BY <2>1, <2>2, GreatestPlace
  <2>4. q[i] = Pushed(q[i - 1], seq[i])
    BY <2>1, <2>3
  <2> HIDE DEF q
  <2>5. QED
    BY <1>1, <1>9, <2>4 DEF Write
<1>10. Runs(q, Seq(A), Write(A), base, seq)
  <2>1. q = [i \in 0..Len(seq) |-> q[i]]
    OBVIOUS
  <2> HIDE DEF q
  <2>2. QED
    BY <1>2, <1>8, <1>9, <2>1, Along
<1>11. QED
  BY <1>1, <1>3, <1>10

\* So is the reading of a value its characters read in turn.
LEMMA ReadRuns ==
  ASSUME NEW A, NEW base \in Readings(A), NEW seq \in Seq(A)
  PROVE  \E q : /\ Runs(q, Readings(A), ReadFrom(A), base, seq)
                /\ FoldLeft(ReadOn, base, seq) = q[Len(seq)]
<1> DEFINE n == Len(seq)
           step(f, s) == IF s = {} THEN base
                         ELSE ReadOn(f[s \ {Max(s)}], seq[Max(s)])
           it == CHOOSE f : f = [s \in SUBSET DOMAIN seq |-> step(f, s)]
<1>1. DOMAIN seq = 1..n /\ n \in Nat /\ \A i \in 1..n : seq[i] \in A
  BY ElementOfSeq
<1>2. ReadFrom(A) \in [Readings(A) \X A -> Readings(A)]
  BY ReadTyped
<1>3. FoldLeft(ReadOn, base, seq) = it[DOMAIN seq]
  BY DEF FoldLeft, MapThenFoldSet
<1>4. PICK f \in [SUBSET (1..n) -> Readings(A)] : Folds(f, ReadFrom(A), base, seq, n)
  BY <1>2, FoldExists
<1>5. ASSUME NEW s \in SUBSET (1..n) PROVE f[s] = step(f, s)
  <2>1. CASE s = {}
    BY <1>4, <2>1 DEF Folds
  <2>2. CASE s # {}
    <3>1. Max(s) \in s
      BY <1>1, <2>2, Greatest, Zenon
    <3>2. f[s \ {Max(s)}] \in Readings(A) /\ seq[Max(s)] \in A
      BY <1>1, <1>4, <3>1
    <3>3. f[s] = ReadFrom(A)[<<f[s \ {Max(s)}], seq[Max(s)]>>]
      BY <1>4, <2>2 DEF Folds
    <3>4. QED
      BY <2>2, <3>2, <3>3 DEF ReadFrom
  <2>3. QED
    BY <2>1, <2>2
<1>6. f = [s \in SUBSET DOMAIN seq |-> step(f, s)]
  BY <1>1, <1>4, <1>5
<1>7. it = [s \in SUBSET DOMAIN seq |-> step(it, s)]
  <2> HIDE DEF step
  <2>1. QED
    BY <1>6
<1> HIDE DEF it
<1> DEFINE q == [i \in 0..n |-> it[1..i]]
<1>8. q[0] = base
  <2>1. 1..0 = {} /\ 0 \in 0..n /\ {} \in SUBSET (1..n)
    BY <1>1
  <2>2. q[0] = it[{}]
    BY <2>1
  <2>3. it[{}] = step(it, {})
    BY <1>1, <1>7, <2>1
  <2>4. QED
    BY <2>2, <2>3
<1>9. ASSUME NEW i \in 1..n, q[i - 1] \in Readings(A)
      PROVE  q[i] = ReadFrom(A)[<<q[i - 1], seq[i]>>]
  <2>1. i \in 0..n /\ i - 1 \in 0..n /\ i \in Nat \ {0}
        /\ 1..i \in SUBSET (1..n)
    BY <1>1
  <2>2. it[1..i] = step(it, 1..i)
    BY <1>1, <1>7, <2>1
  <2>3. it[1..i] = ReadOn(it[1..i - 1], seq[i])
    BY <2>1, <2>2, GreatestPlace
  <2>4. q[i] = ReadOn(q[i - 1], seq[i])
    BY <2>1, <2>3
  <2> HIDE DEF q
  <2>5. QED
    BY <1>1, <1>9, <2>4 DEF ReadFrom
<1>10. Runs(q, Readings(A), ReadFrom(A), base, seq)
  <2>1. q = [i \in 0..Len(seq) |-> q[i]]
    OBVIOUS
  <2> HIDE DEF q
  <2>2. QED
    BY <1>2, <1>8, <1>9, <2>1, Along
<1>11. QED
  BY <1>1, <1>3, <1>10

\* The value of a key but for the quote that ends it, as it is written.
Written(k) == FoldLeft(Pushed, <<Quote>>, k)

\* The value of a key with one more character has it pushed at the end.
LEMMA WriteOneMore ==
  ASSUME NEW A, Quote \in A, Backslash \in A, NEW seq \in Seq(A), NEW c \in A
  PROVE  /\ Written(seq) \in Seq(A)
         /\ Written(Append(seq, c)) = Pushed(Written(seq), c)
         /\ Written(<<>>) = <<Quote>>
<1> DEFINE base == <<Quote>>
<1>0. base \in Seq(A) /\ \A k : Written(k) = FoldLeft(Pushed, base, k)
  BY DEF Written
<1> HIDE DEF base
<1>1. Write(A) \in [Seq(A) \X A -> Seq(A)]
  BY WriteTyped
<1>2. PICK q : /\ Runs(q, Seq(A), Write(A), base, seq)
               /\ FoldLeft(Pushed, base, seq) = q[Len(seq)]
  BY <1>0, WriteRuns
<1>3. Append(seq, c) \in Seq(A)
  BY AppendProperties
<1>4. PICK r : /\ Runs(r, Seq(A), Write(A), base, Append(seq, c))
               /\ FoldLeft(Pushed, base, Append(seq, c)) = r[Len(Append(seq, c))]
  BY <1>0, <1>3, WriteRuns
<1>5. r[Len(Append(seq, c))] = Write(A)[<<q[Len(seq)], c>>]
  <2> DEFINE S == Seq(A)
             G == Write(A)
  <2>1. Runs(q, S, G, base, seq) /\ Runs(r, S, G, base, Append(seq, c))
    BY <1>2, <1>4
  <2> HIDE DEF S, G
  <2>2. r[Len(Append(seq, c))] = G[<<q[Len(seq)], c>>]
    BY <2>1, OneMore
  <2>3. QED
    BY <2>2 DEF G
<1>6. q[Len(seq)] \in Seq(A)
  <2>1. Len(seq) \in 0..Len(seq)
    OBVIOUS
  <2>2. QED
    BY <1>2, <2>1 DEF Runs
<1>7. FoldLeft(Pushed, base, <<>>) = base
  <2>1. <<>> \in Seq(A) /\ Len(<<>>) = 0
    BY EmptySeq
  <2>2. QED
    <3>1. PICK w : /\ Runs(w, Seq(A), Write(A), base, <<>>)
                   /\ FoldLeft(Pushed, base, <<>>) = w[Len(<<>>)]
      BY <1>0, <2>1, WriteRuns, Zenon
    <3>2. QED
      BY <2>1, <3>1 DEF Runs
<1>8. Write(A)[<<q[Len(seq)], c>>] = Pushed(q[Len(seq)], c)
  BY <1>6 DEF Write
<1>9. QED
  BY <1>0, <1>2, <1>4, <1>5, <1>6, <1>7, <1>8 DEF base

\* A value with one more character is read with it read last.
LEMMA ReadOneMore ==
  ASSUME NEW A, NEW seq \in Seq(A), NEW c \in A
  PROVE  /\ Reading(Append(seq, c)) = ReadOn(Reading(seq), c)
         /\ Reading(<<>>) = [at |-> "before", key |-> <<>>]
<1> DEFINE base == [at |-> "before", key |-> <<>>]
<1>1. ReadFrom(A) \in [Readings(A) \X A -> Readings(A)]
  BY ReadTyped
<1>2. base \in Readings(A) /\ \A v : Reading(v) = FoldLeft(ReadOn, base, v)
  BY EmptySeq DEF Readings, Reading
<1> HIDE DEF base
<1>3. PICK q : /\ Runs(q, Readings(A), ReadFrom(A), base, seq)
               /\ FoldLeft(ReadOn, base, seq) = q[Len(seq)]
  BY <1>2, ReadRuns
<1>4. Append(seq, c) \in Seq(A)
  BY AppendProperties
<1>5. PICK r : /\ Runs(r, Readings(A), ReadFrom(A), base, Append(seq, c))
               /\ FoldLeft(ReadOn, base, Append(seq, c)) = r[Len(Append(seq, c))]
  BY <1>2, <1>4, ReadRuns
<1>6. r[Len(Append(seq, c))] = ReadFrom(A)[<<q[Len(seq)], c>>]
  <2> DEFINE S == Readings(A)
             G == ReadFrom(A)
  <2>1. Runs(q, S, G, base, seq) /\ Runs(r, S, G, base, Append(seq, c))
    BY <1>3, <1>5
  <2> HIDE DEF S, G
  <2>2. r[Len(Append(seq, c))] = G[<<q[Len(seq)], c>>]
    BY <2>1, OneMore
  <2>3. QED
    BY <2>2 DEF G
<1>7. q[Len(seq)] \in Readings(A)
  <2>1. Len(seq) \in 0..Len(seq)
    OBVIOUS
  <2>2. QED
    BY <1>3, <2>1 DEF Runs
<1>8. FoldLeft(ReadOn, base, <<>>) = base
  <2>1. <<>> \in Seq(A) /\ Len(<<>>) = 0
    BY EmptySeq
  <2>2. PICK w : /\ Runs(w, Readings(A), ReadFrom(A), base, <<>>)
                 /\ FoldLeft(ReadOn, base, <<>>) = w[Len(<<>>)]
    BY <1>2, <2>1, ReadRuns, Zenon
  <2>3. QED
    BY <2>1, <2>2 DEF Runs
<1>9. ReadFrom(A)[<<q[Len(seq)], c>>] = ReadOn(q[Len(seq)], c)
  BY <1>7 DEF ReadFrom
<1>10. QED
  BY <1>2, <1>3, <1>5, <1>6, <1>8, <1>9 DEF base

\* One character more is one more to be printable.
LEMMA PrintableMore ==
  ASSUME NEW A, NEW seq \in Seq(A), NEW c \in A
  PROVE  AllPrintable(Append(seq, c)) <=> AllPrintable(seq) /\ c \in Printable
<1> DEFINE more == Append(seq, c)
<1>1. /\ DOMAIN seq = 1..Len(seq) /\ Len(seq) \in Nat
      /\ DOMAIN more = 1..Len(seq) + 1
      /\ \A i \in 1..Len(seq) : more[i] = seq[i]
      /\ more[Len(seq) + 1] = c
  BY AppendProperties
<1> HIDE DEF more
<1>2. \A i \in 1..Len(seq) + 1 : i \in 1..Len(seq) \/ i = Len(seq) + 1
  BY <1>1
<1>3. 1..Len(seq) \subseteq 1..Len(seq) + 1 /\ Len(seq) + 1 \in 1..Len(seq) + 1
  BY <1>1
<1>4. AllPrintable(more) <=> AllPrintable(seq) /\ c \in Printable
  BY <1>1, <1>2, <1>3 DEF AllPrintable
<1>5. QED
  BY <1>4 DEF more

\* The value as far as it is written reads as a string that goes on, of the
\* characters written, where they all are printable.
LEMMA WrittenReads ==
  ASSUME NEW A, Quote \in A, Backslash \in A, NEW k \in Seq(A)
  PROVE  /\ Written(k) \in Seq(A)
         /\ Reading(Written(k)) = IF AllPrintable(k)
                                  THEN [at |-> "string", key |-> k]
                                  ELSE Malformed
<1> DEFINE Reads(j) == Reading(Written(j)) =
                            IF AllPrintable(j)
                            THEN [at |-> "string", key |-> j] ELSE Malformed
           T == {n \in Nat : \E j \in Seq(A) : Len(j) = n /\ ~Reads(j)}
<1>1. <<Quote>> \in Seq(A) /\ <<>> \in Seq(A)
  OBVIOUS
<1>2. ASSUME NEW j \in Seq(A), NEW c \in A
      PROVE  Written(j) \in Seq(A) /\ Written(Append(j, c)) = Pushed(Written(j), c)
  BY <1>1, WriteOneMore
<1>3. Written(<<>>) = <<Quote>>
  BY <1>1, WriteOneMore
<1>4. \A v \in Seq(A), c \in A :
            Reading(Append(v, c)) = ReadOn(Reading(v), c)
  BY ReadOneMore
<1>5. Reads(<<>>)
  <2>1. <<Quote>> = Append(<<>>, Quote)
    OBVIOUS
  <2>2. Reading(<<Quote>>) = ReadOn([at |-> "before", key |-> <<>>], Quote)
    BY <1>1, <2>1, ReadOneMore
  <2>3. AllPrintable(<<>>)
    BY DEF AllPrintable
  <2>4. QED
    BY <1>3, <2>2, <2>3 DEF ReadOn
<1>6. ASSUME NEW j \in Seq(A), NEW c \in A, Reads(j) PROVE Reads(Append(j, c))
  <2> DEFINE v == Written(j)
  <2>1. v \in Seq(A) /\ Written(Append(j, c)) = Pushed(v, c)
    BY <1>2
  <2>2. Reading(v) = IF AllPrintable(j) THEN [at |-> "string", key |-> j]
                                        ELSE Malformed
    BY <1>6
  <2>3. AllPrintable(Append(j, c)) <=> AllPrintable(j) /\ c \in Printable
    BY PrintableMore
  <2>4. \A x : ReadOn(Malformed, x) = Malformed
    BY DEF ReadOn, Malformed
  <2> HIDE DEF v
  <2>5. CASE Escaped(c)
    <3>1. c = Quote \/ c = Backslash
      BY <2>5 DEF Escaped
    <3>2. Pushed(v, c) = Append(Append(v, Backslash), c)
      <4>1. Append(v, Backslash) \in Seq(A)
        BY <2>1, AppendProperties
      <4>2. Pushed(v, c) = v \o <<Backslash, c>>
        BY <2>5 DEF Pushed
      <4>3. v \o <<Backslash, c>> \in Seq(A)
            /\ Len(v \o <<Backslash, c>>) = Len(v) + 2
            /\ \A i \in 1..Len(v) : (v \o <<Backslash, c>>)[i] = v[i]
            /\ (v \o <<Backslash, c>>)[Len(v) + 1] = Backslash
            /\ (v \o <<Backslash, c>>)[Len(v) + 2] = c
        BY <2>1
      <4>4. QED
        BY <2>1, <4>1, <4>2, <4>3, AppendProperties, SeqEqual
    <3>3. Reading(Pushed(v, c)) = ReadOn(ReadOn(Reading(v), Backslash), c)
      <4>1. Append(v, Backslash) \in Seq(A)
        BY <2>1, AppendProperties
      <4>2. QED
        BY <1>4, <2>1, <3>2, <4>1
    <3>4. ReadOn([at |-> "string", key |-> j], Backslash) =
            [at |-> "escape", key |-> j]
      BY DEF ReadOn, Quote, Backslash
    <3>5. ReadOn([at |-> "escape", key |-> j], c) =
            [at |-> "string", key |-> Append(j, c)]
      BY <3>1 DEF ReadOn
    <3>6. c \in Printable
      BY <3>1, PrintableAssumption
    <3>7. CASE AllPrintable(j)
      <4>1. Reading(Pushed(v, c)) = [at |-> "string", key |-> Append(j, c)]
        BY <2>2, <3>3, <3>4, <3>5, <3>7
      <4>2. QED
        BY <2>1, <2>3, <3>6, <3>7, <4>1
    <3>8. CASE ~AllPrintable(j)
      <4>1. Reading(Pushed(v, c)) = Malformed
        BY <2>2, <2>4, <3>3, <3>8
      <4>2. QED
        BY <2>1, <2>3, <3>8, <4>1
    <3>9. QED
      BY <3>7, <3>8
  <2>6. CASE ~Escaped(c)
    <3>1. c # Quote /\ c # Backslash
      BY <2>6 DEF Escaped
    <3>2. Pushed(v, c) = Append(v, c)
      BY <2>1, <2>6, AppendIsConcat DEF Pushed
    <3>3. Reading(Pushed(v, c)) = ReadOn(Reading(v), c)
      BY <1>4, <2>1, <3>2
    <3>4. ReadOn([at |-> "string", key |-> j], c) =
            IF c \in Printable THEN [at |-> "string", key |-> Append(j, c)]
                               ELSE Malformed
      <4>1. ASSUME c \in Printable
            PROVE  ReadOn([at |-> "string", key |-> j], c) =
                        [at |-> "string", key |-> Append(j, c)]
        <5>1. c \in Printable \ {Quote, Backslash}
          BY <3>1, <4>1
        <5>2. QED
          BY <3>1, <5>1 DEF ReadOn
      <4>2. ASSUME c \notin Printable
            PROVE  ReadOn([at |-> "string", key |-> j], c) = Malformed
        BY <3>1, <4>2 DEF ReadOn
      <4>3. QED
        BY <4>1, <4>2
    <3>5. CASE AllPrintable(j)
      <4>1. Reading(Pushed(v, c)) =
                IF c \in Printable THEN [at |-> "string", key |-> Append(j, c)]
                                   ELSE Malformed
        BY <2>2, <3>3, <3>4, <3>5
      <4>2. QED
        BY <2>1, <2>3, <3>5, <4>1
    <3>6. CASE ~AllPrintable(j)
      <4>1. Reading(Pushed(v, c)) = Malformed
        BY <2>2, <2>4, <3>3, <3>6
      <4>2. QED
        BY <2>1, <2>3, <3>6, <4>1
    <3>7. QED
      BY <3>5, <3>6
  <2>7. QED
    BY <2>5, <2>6
<1> HIDE DEF Reads
<1>7. T = {}
  <2>1. SUFFICES ASSUME T # {} PROVE FALSE
    OBVIOUS
  <2>2. PICK m \in T : \A n \in T : m <= n
    <3>1. T \in SUBSET Nat
      OBVIOUS
    <3>2. QED
      BY <2>1, <3>1, Least
  <2>3. PICK j \in Seq(A) : Len(j) = m /\ ~Reads(j)
    BY <2>2
  <2>4. j # <<>>
    BY <1>5, <2>3
  <2>5. PICK i \in Seq(A), c \in A : j = Append(i, c)
    BY <2>4, SequenceEmptyOrAppend
  <2>6. Len(j) = Len(i) + 1 /\ Len(i) \in Nat
    BY <2>5, AppendProperties
  <2>7. ~Reads(i)
    BY <1>6, <2>3, <2>5
  <2>8. Len(i) \in T
    BY <2>6, <2>7
  <2>9. QED
    BY <2>2, <2>3, <2>6, <2>8
<1>8. Reads(k)
  <2>1. Len(k) \in Nat
    OBVIOUS
  <2>2. QED
    BY <1>7, <2>1
<1>9. QED
  BY <1>2, <1>8 DEF Reads

\* A key of any length is read back whole where all of it is printable,
\* whatever of it is escaped, and else is malformed (idempotency_key).
THEOREM ReadsBack ==
  ASSUME NEW A, Quote \in A, Backslash \in A, NEW k \in Seq(A)
  PROVE  Reading(idempotency_key(k)) =
            IF AllPrintable(k) THEN [at |-> "done", key |-> k] ELSE Malformed
<1> DEFINE v == Written(k)
<1>1. v \in Seq(A) /\ Reading(v) = IF AllPrintable(k)
                                   THEN [at |-> "string", key |-> k]
                                   ELSE Malformed
  BY WrittenReads
<1>2. idempotency_key(k) = Append(v, Quote)
  BY DEF idempotency_key, Written
<1> HIDE DEF v
<1>3. Reading(Append(v, Quote)) = ReadOn(Reading(v), Quote)
  BY <1>1, ReadOneMore
<1>4. ReadOn([at |-> "string", key |-> k], Quote) = [at |-> "done", key |-> k]
  BY DEF ReadOn, Quote, Backslash
<1>5. ReadOn(Malformed, Quote) = Malformed
  BY DEF ReadOn, Malformed
<1>6. QED
  BY <1>1, <1>2, <1>3, <1>4, <1>5

----------------------------------------------------------------------------
\* What a request of a Stream says, and what of it is read.

\* The headers of a request with deduplication key k and password w.
Posted(k, w) ==
    Header("Host", "a") \o Header("Content-Type", "application/octet-stream")
        \o <<<<"Idempotency-Key", idempotency_key(k)>>>>
        \o Header("Authorization", Basic(w))

\* A sequence and one more element, told by their places.
LEMMA Extended ==
  ASSUME NEW S, NEW s \in Seq(S), NEW e \in S, NEW t \in Seq(S),
         Len(t) = Len(s) + 1, \A i \in 1..Len(s) : t[i] = s[i],
         t[Len(s) + 1] = e
  PROVE  s \o <<e>> = t
<1> DEFINE u == Append(s, e)
<1>1. /\ u = s \o <<e>> /\ u \in Seq(S) /\ Len(u) = Len(s) + 1
      /\ \A i \in 1..Len(s) : u[i] = s[i]
      /\ u[Len(s) + 1] = e
  BY AppendIsConcat, AppendProperties
<1> HIDE DEF u
<1>2. \A i \in 1..Len(u) : u[i] = t[i]
  <2>1. ASSUME NEW i \in 1..Len(u) PROVE u[i] = t[i]
    <3>1. i \in 1..Len(s) \/ i = Len(s) + 1
      BY <1>1
    <3>2. QED
      BY <1>1, <3>1
  <2>2. QED
    BY <2>1
<1>3. u = t
  BY <1>1, <1>2, SeqEqual
<1>4. QED
  BY <1>1, <1>3

\* The headers of a request, one by one.
LEMMA PostedHeaders ==
  ASSUME NEW k, NEW w
  PROVE  Posted(k, w) =
            IF Basic(w) = NoValue
            THEN <<<<"Host", "a">>, <<"Content-Type", "application/octet-stream">>,
                   <<"Idempotency-Key", idempotency_key(k)>>>>
            ELSE <<<<"Host", "a">>, <<"Content-Type", "application/octet-stream">>,
                   <<"Idempotency-Key", idempotency_key(k)>>,
                   <<"Authorization", Basic(w)>>>>
<1> DEFINE h1 == <<"Host", "a">>
           h2 == <<"Content-Type", "application/octet-stream">>
           h3 == <<"Idempotency-Key", idempotency_key(k)>>
           h4 == <<"Authorization", Basic(w)>>
           S == {h1, h2, h3, h4}
<1>1. /\ Header("Host", "a") = <<h1>>
      /\ Header("Content-Type", "application/octet-stream") = <<h2>>
      /\ Header("Authorization", Basic(w)) =
            IF Basic(w) = NoValue THEN <<>> ELSE <<h4>>
  BY DEF Header, NoValue
<1> HIDE DEF h1, h2, h3, h4
<1>2. /\ <<h1>> \in Seq(S) /\ <<h2>> \in Seq(S) /\ <<h3>> \in Seq(S)
      /\ <<h4>> \in Seq(S) /\ <<>> \in Seq(S)
  OBVIOUS
<1> DEFINE two == <<h1, h2>>
           three == <<h1, h2, h3>>
           four == <<h1, h2, h3, h4>>
<1>a. /\ two \in Seq(S) /\ three \in Seq(S) /\ four \in Seq(S)
      /\ Len(<<h1>>) = 1 /\ Len(two) = 2 /\ Len(three) = 3 /\ Len(four) = 4
  OBVIOUS
<1>b. /\ <<h1>>[1] = h1 /\ two[1] = h1 /\ two[2] = h2
      /\ three[1] = h1 /\ three[2] = h2 /\ three[3] = h3
      /\ four[1] = h1 /\ four[2] = h2 /\ four[3] = h3 /\ four[4] = h4
  OBVIOUS
<1>c. h1 \in S /\ h2 \in S /\ h3 \in S /\ h4 \in S
  OBVIOUS
<1> DEFINE one == <<h1>>
<1>d. one \in Seq(S) /\ Len(one) = 1 /\ one[1] = h1
  BY <1>2, <1>a, <1>b
<1> HIDE DEF one, two, three, four, S
<1>3. one \o <<h2>> = two
  <2>1. /\ \A i \in 1..Len(one) : two[i] = one[i]
       /\ Len(two) = Len(one) + 1 /\ two[Len(one) + 1] = h2
    BY <1>a, <1>b, <1>d
  <2>2. QED
    BY <1>a, <1>c, <1>d, <2>1, Extended
<1>4. two \o <<h3>> = three
  <2>1. /\ \A i \in 1..Len(two) : three[i] = two[i]
       /\ Len(three) = Len(two) + 1 /\ three[Len(two) + 1] = h3
    BY <1>a, <1>b
  <2>2. QED
    BY <1>a, <1>c, <1>d, <2>1, Extended
<1>5. three \o <<h4>> = four /\ three \o <<>> = three
  <2>1. three \o <<h4>> = four
    <3>1. /\ \A i \in 1..Len(three) : four[i] = three[i]
         /\ Len(four) = Len(three) + 1 /\ four[Len(three) + 1] = h4
      BY <1>a, <1>b
    <3>2. QED
      BY <1>a, <1>c, <1>d, <3>1, Extended
  <2>2. three \o <<>> = three
    BY <1>a, ConcatEmptySeq
  <2>3. QED
    BY <2>1, <2>2
<1>6. Posted(k, w) = IF Basic(w) = NoValue THEN <<h1, h2, h3>>
                                           ELSE <<h1, h2, h3, h4>>
  <2>1. Posted(k, w) = one \o <<h2>> \o <<h3>> \o
                        (IF Basic(w) = NoValue THEN <<>> ELSE <<h4>>)
    BY <1>1 DEF Posted, h3, one
  <2>2. QED
    BY <1>3, <1>4, <1>5, <2>1 DEF three, four
<1>7. QED
  BY <1>6 DEF h1, h2, h3, h4

\* The one header of a name is the one found, and none is found of another.
LEMMA OneOfName ==
  ASSUME NEW p, NEW name, NEW i \in DOMAIN p, DOMAIN p \subseteq Nat,
         \A n \in DOMAIN p : LowerCase(p[n][1]) = LowerCase(name) <=> n = i
  PROVE  header_value(p, name) = p[i][2]
<1> DEFINE of == {n \in DOMAIN p : LowerCase(p[n][1]) = LowerCase(name)}
<1>1. of = {i} /\ i \in Nat
  OBVIOUS
<1>2. (CHOOSE n \in of : \A m \in of : n <= m) = i
  BY <1>1
<1>3. of # {}
  BY <1>1
<1>4. header_value(p, name) =
        IF of = {} THEN NoValue
        ELSE p[CHOOSE n \in of : \A m \in of : n <= m][2]
  BY DEF header_value, Named
<1> HIDE DEF of
<1>5. QED
  BY <1>2, <1>3, <1>4

\* A header that no name matches has no value.
LEMMA NoneOfName ==
  ASSUME NEW p, NEW name,
         \A n \in DOMAIN p : LowerCase(p[n][1]) # LowerCase(name)
  PROVE  header_value(p, name) = NoValue
BY DEF header_value, Named

\* The names a request uses, as they are compared.
LEMMA LowerCases ==
  /\ LowerCase("Host") = "host" /\ LowerCase("host") = "host"
  /\ LowerCase("Content-Type") = "content-type"
  /\ LowerCase("content-type") = "content-type"
  /\ LowerCase("Authorization") = "authorization"
  /\ LowerCase("authorization") = "authorization"
  /\ LowerCase("Idempotency-Key") = "idempotency-key"
  /\ LowerCase("idempotency-key") = "idempotency-key"
BY DEF LowerCase

\* The password and the key a request was given are those read of it, in
\* either version.
LEMMA CameReads ==
  ASSUME NEW k, NEW w, NEW version \in {1, 2}
  PROVE  /\ header_value(Came(Posted(k, w), version), "authorization") = Basic(w)
         /\ header_value(Came(Posted(k, w), version), "idempotency-key") =
                idempotency_key(k)
<1> DEFINE p == Posted(k, w)
           c == Came(p, version)
           last == IF Basic(w) = NoValue THEN 3 ELSE 4
<1>1. /\ DOMAIN p = 1..last
      /\ p[1] = <<"Host", "a">>
      /\ p[2] = <<"Content-Type", "application/octet-stream">>
      /\ p[3] = <<"Idempotency-Key", idempotency_key(k)>>
      /\ last = 4 => p[4] = <<"Authorization", Basic(w)>>
  <2> HIDE DEF p
  <2>1. CASE Basic(w) = NoValue
    <3>1. p = <<<<"Host", "a">>, <<"Content-Type", "application/octet-stream">>,
                <<"Idempotency-Key", idempotency_key(k)>>>>
      BY <2>1, PostedHeaders DEF p
    <3>2. QED
      BY <2>1, <3>1
  <2>2. CASE Basic(w) # NoValue
    <3>1. p = <<<<"Host", "a">>, <<"Content-Type", "application/octet-stream">>,
                <<"Idempotency-Key", idempotency_key(k)>>,
                <<"Authorization", Basic(w)>>>>
      BY <2>2, PostedHeaders DEF p
    <3>2. QED
      BY <2>2, <3>1
  <2>3. QED
    BY <2>1, <2>2
<1>2. last \in {3, 4} /\ (last = 3 => Basic(w) = NoValue)
  OBVIOUS
<1> HIDE DEF p, last
<1>3. /\ DOMAIN c = 1..last
      /\ \A i \in 1..last : LowerCase(c[i][1]) = LowerCase(p[i][1])
                            /\ c[i][2] = p[i][2]
  <2>1. CASE version = 1
    BY <1>1, <2>1 DEF Came
  <2>2. CASE version = 2
    <3>1. c = [i \in 1..last |-> <<LowerCase(p[i][1]), p[i][2]>>]
      BY <1>1, <2>2 DEF Came
    <3>2. \A i \in 1..last : LowerCase(LowerCase(p[i][1])) = LowerCase(p[i][1])
      BY <1>1, <1>2, LowerCases
    <3> HIDE DEF c
    <3>3. QED
      BY <3>1, <3>2
  <2>3. QED
    BY <2>1, <2>2
<1> HIDE DEF c
<1>4. /\ LowerCase(c[1][1]) = "host" /\ LowerCase(c[2][1]) = "content-type"
      /\ LowerCase(c[3][1]) = "idempotency-key"
      /\ last = 4 => LowerCase(c[4][1]) = "authorization"
  BY <1>1, <1>2, <1>3, LowerCases
<1>5. /\ c[3][2] = idempotency_key(k)
      /\ last = 4 => c[4][2] = Basic(w)
  BY <1>1, <1>2, <1>3
<1>6. header_value(c, "idempotency-key") = idempotency_key(k)
  <2>1. \A n \in DOMAIN c : LowerCase(c[n][1]) = LowerCase("idempotency-key")
                                <=> n = 3
    BY <1>2, <1>3, <1>4, LowerCases
  <2>2. 3 \in DOMAIN c /\ DOMAIN c \subseteq Nat
    BY <1>2, <1>3
  <2>3. QED
    BY <1>5, <2>1, <2>2, OneOfName
<1>7. header_value(c, "authorization") = Basic(w)
  <2>1. CASE last = 3
    <3>1. \A n \in DOMAIN c : LowerCase(c[n][1]) # LowerCase("authorization")
      BY <1>3, <1>4, <2>1, LowerCases
    <3>2. QED
      BY <1>2, <2>1, <3>1, NoneOfName
  <2>2. CASE last = 4
    <3>1. \A n \in DOMAIN c : LowerCase(c[n][1]) = LowerCase("authorization")
                                <=> n = 4
      BY <1>3, <1>4, <2>2, LowerCases
    <3>2. 4 \in DOMAIN c /\ DOMAIN c \subseteq Nat
      BY <1>3, <2>2
    <3>3. QED
      BY <1>5, <2>2, <3>1, <3>2, OneOfName
  <2>3. QED
    BY <1>2, <2>1, <2>2
<1>8. QED
  BY <1>6, <1>7 DEF c, p

----------------------------------------------------------------------------
\* The inductive invariant.

Typing ==
    /\ key \in [Streams -> Keys]
    /\ vault \in Passwords \cup {Unset}
    /\ asked \in [Streams -> Nat]
    /\ told \in [Streams -> {"never", "asking", "answer", "stray", "failed"}]
    /\ outcome \in [Streams -> Outcomes]
    /\ said \in [Streams -> SUBSET Statuses]
    /\ owed \in [Streams -> Passwords \cup {Unset}]
    /\ posted = [j \in Streams |-> posted[j]]

\* Every request of a Stream says its Journey's key and a password.
Requested(j) == {Posted(key[j], w) : w \in Passwords}

PostedInv ==
    \A j \in Streams :
        posted[j] \in Seq(Requested(j)) /\ Len(posted[j]) = asked[j]

\* What arrived is a request that was sent.
CameInv ==
    \A a \in cycle :
        \E j \in Streams, version \in {1, 2} : \E n \in 1..asked[j] :
            a.of = <<j, n>> /\ a.headers = Came(posted[j][n], version)

\* The password a sender is owed for is admitted, the last request said it,
\* and no answer to that request refuses.
OwedInv ==
    \A j \in Streams : owed[j] # Unset =>
        /\ owed[j] \in admitted
        /\ asked[j] > 0
        /\ posted[j][asked[j]] = Posted(key[j], owed[j])
        /\ \A s \in said[j] : judge(s) # "refused"

IInv == Typing /\ PostedInv /\ CameInv /\ OwedInv /\ IdentifiedIfAdmitted

----------------------------------------------------------------------------
\* The sender's steps.

\* A request is built of the password read, and one that was sent stays.
LEMMA SendInductive ==
  ASSUME IInv, NEW j \in Streams, Send(j)
  PROVE  IInv'
<1> USE DEF IInv
<1>1. /\ vault # Unset /\ vault \in Passwords
      /\ asked' = [asked EXCEPT ![j] = @ + 1]
      /\ told' = [told EXCEPT ![j] = "asking"]
      /\ outcome' = [outcome EXCEPT ![j] = "sending"]
      /\ said' = [said EXCEPT ![j] = {}]
      /\ owed' = [owed EXCEPT ![j] = IF vault \in admitted THEN vault ELSE Unset]
      /\ UNCHANGED <<key, vault, first, admitted, cycle>>
  BY DEF Send, Readable, Wire!Ask, Typing
<1>2. posted' = [posted EXCEPT ![j] = Append(@, Posted(key[j], vault))]
  BY DEF Send, Posted, presented
<1>3. Posted(key[j], vault) \in Requested(j)
  BY <1>1 DEF Requested
<1>4. /\ posted'[j] \in Seq(Requested(j)) /\ Len(posted'[j]) = asked[j] + 1
      /\ \A n \in 1..asked[j] : posted'[j][n] = posted[j][n]
      /\ posted'[j][asked[j] + 1] = Posted(key[j], vault)
  <2>1. posted[j] \in Seq(Requested(j)) /\ Len(posted[j]) = asked[j]
    BY DEF PostedInv
  <2>2. posted'[j] = Append(posted[j], Posted(key[j], vault))
    BY <1>2 DEF Typing
  <2>3. QED
    BY <1>3, <2>1, <2>2, AppendProperties
<1>5. /\ asked'[j] = asked[j] + 1 /\ asked[j] \in Nat
      /\ \A u \in Streams \ {j} : /\ asked'[u] = asked[u]
                                  /\ posted'[u] = posted[u]
                                  /\ said'[u] = said[u] /\ owed'[u] = owed[u]
      /\ said'[j] = {}
      /\ owed'[j] = IF vault \in admitted THEN vault ELSE Unset
  BY <1>1, <1>2 DEF Typing
<1>6. Typing'
  <2>1. /\ asked' \in [Streams -> Nat]
        /\ told' \in [Streams -> {"never", "asking", "answer", "stray", "failed"}]
    BY <1>1 DEF Typing
  <2>2. /\ outcome' \in [Streams -> Outcomes]
        /\ said' \in [Streams -> SUBSET Statuses]
    BY <1>1 DEF Typing, Outcomes
  <2>3. owed' \in [Streams -> Passwords \cup {Unset}]
    BY <1>1 DEF Typing
  <2>4. posted' = [u \in Streams |-> posted'[u]]
    BY <1>2 DEF Typing
  <2>5. QED
    BY <1>1, <2>1, <2>2, <2>3, <2>4 DEF Typing
<1>7. PostedInv'
  <2>1. ASSUME NEW u \in Streams
        PROVE  posted'[u] \in Seq(Requested(u)) /\ Len(posted'[u]) = asked'[u]
    <3>1. CASE u = j
      BY <1>4, <1>5, <3>1
    <3>2. CASE u # j
      BY <1>5, <3>2 DEF PostedInv
    <3>3. QED
      BY <3>1, <3>2
  <2>2. QED
    BY <1>1, <2>1 DEF PostedInv, Requested
<1>8. CameInv'
  <2>1. ASSUME NEW a \in cycle
        PROVE  \E u \in Streams, version \in {1, 2} : \E n \in 1..asked'[u] :
                  a.of = <<u, n>> /\ a.headers = Came(posted'[u][n], version)
    <3>0. PICK u \in Streams, version \in {1, 2} : \E n \in 1..asked[u] :
                  a.of = <<u, n>> /\ a.headers = Came(posted[u][n], version)
      BY DEF CameInv
    <3>1. PICK n \in 1..asked[u] :
                  a.of = <<u, n>> /\ a.headers = Came(posted[u][n], version)
      BY <3>0
    <3>2. n \in 1..asked'[u] /\ posted'[u][n] = posted[u][n]
      BY <1>4, <1>5
    <3>3. QED
      BY <3>1, <3>2
  <2>2. QED
    BY <1>1, <2>1 DEF CameInv
<1>9. OwedInv'
  BY <1>1, <1>4, <1>5 DEF OwedInv
<1>10. IdentifiedIfAdmitted'
  BY <1>1, <1>5 DEF IdentifiedIfAdmitted, Typing
<1>11. QED
  BY <1>6, <1>7, <1>8, <1>9, <1>10

\* A send that ends refused was answered so.
LEMMA EndsInductive ==
  ASSUME IInv, NEW j \in Streams, SendUnreadable(j) \/ Judged(j) \/ Missed(j)
  PROVE  IInv'
<1> USE DEF IInv
<1>1. /\ UNCHANGED <<key, vault, first, admitted, asked, posted, cycle, said>>
      /\ told' \in [Streams -> {"never", "asking", "answer", "stray", "failed"}]
  BY DEF SendUnreadable, Judged, Missed, wireVars, Wire!Answer, Wire!Miss, Typing
<1>2. /\ owed' = owed \/ owed' = [owed EXCEPT ![j] = Unset]
      /\ \E how \in Outcomes :
            /\ outcome' = [outcome EXCEPT ![j] = how]
            /\ how = "refused" => owed'[j] = Unset
  <2>1. CASE SendUnreadable(j)
    BY <2>1 DEF SendUnreadable, Failure, Outcomes
  <2>2. CASE Judged(j)
    <3>1. PICK s \in said[j] : outcome' = [outcome EXCEPT ![j] = judge(s)]
      BY <2>2 DEF Judged, Ends
    <3>2. judge(s) \in {"sent", "retry", "refused"} /\ owed' = owed
      BY <2>2 DEF judge, Judged
    <3>3. judge(s) = "refused" => owed[j] = Unset
      BY DEF OwedInv
    <3>4. judge(s) \in Outcomes
      BY <3>2 DEF Outcomes
    <3>5. QED
      BY <3>1, <3>2, <3>3, <3>4
  <2>3. CASE Missed(j)
    <3>1. judge(STRAY) = "retry"
      BY DEF judge, STRAY, retryable
    <3>2. /\ owed' = owed
          /\ \E how \in Failure : outcome' = [outcome EXCEPT ![j] = how]
      BY <2>3, <3>1 DEF Missed, Ends, Failure
    <3>3. QED
      BY <3>2 DEF Failure, Outcomes
  <2>4. QED
    BY <2>1, <2>2, <2>3
<1>3. \A u \in Streams : owed'[u] = owed[u] \/ owed'[u] = Unset
  BY <1>2 DEF Typing
<1>4. Typing'
  BY <1>1, <1>2 DEF Typing
<1>5. PostedInv' /\ CameInv'
  <2>1. PostedInv'
    BY <1>1 DEF PostedInv, Requested
  <2>2. CameInv'
    BY <1>1 DEF CameInv
  <2>3. QED
    BY <2>1, <2>2
<1>6. OwedInv'
  BY <1>1, <1>3 DEF OwedInv
<1>7. IdentifiedIfAdmitted'
  BY <1>2 DEF IdentifiedIfAdmitted, Typing
<1>8. QED
  BY <1>4, <1>5, <1>6, <1>7

----------------------------------------------------------------------------
\* The receiver's steps, and the passwords'.

\* A request arrives as it was posted, in either version.
LEMMA ArrivesInductive ==
  ASSUME IInv, NEW j \in Streams, NEW n \in 1..MaxSends, Arrives(j, n)
  PROVE  IInv'
<1> USE DEF IInv
<1>1. /\ n \in 1..asked[j]
      /\ UNCHANGED <<key, vault, first, admitted, asked, told, posted, outcome,
                     said, owed>>
  BY BoundAssumption DEF Arrives, Wire!Act, Typing
<1>2. PICK version \in {1, 2} :
        cycle' = cycle \cup {[of |-> <<j, n>>, time |-> acted'[j][n],
                              headers |-> Came(posted[j][n], version)]}
  BY DEF Arrives
<1>3. Typing' /\ PostedInv' /\ OwedInv' /\ IdentifiedIfAdmitted'
  <2>1. Typing'
    BY <1>1 DEF Typing
  <2>2. PostedInv'
    BY <1>1 DEF PostedInv, Requested
  <2>3. OwedInv'
    BY <1>1 DEF OwedInv
  <2>4. IdentifiedIfAdmitted'
    BY <1>1 DEF IdentifiedIfAdmitted
  <2>5. QED
    BY <2>1, <2>2, <2>3, <2>4
<1>4. CameInv'
  <2>1. ASSUME NEW a \in cycle'
        PROVE  \E u \in Streams, v \in {1, 2} : \E m \in 1..asked[u] :
                  a.of = <<u, m>> /\ a.headers = Came(posted[u][m], v)
    <3>1. CASE a \in cycle
      BY <3>1 DEF CameInv
    <3>2. CASE a = [of |-> <<j, n>>, time |-> acted'[j][n],
                    headers |-> Came(posted[j][n], version)]
      <4>1. a.of = <<j, n>> /\ a.headers = Came(posted[j][n], version)
        BY <3>2
      <4>2. QED
        BY <1>1, <4>1
    <3>3. QED
      BY <1>2, <2>1, <3>1, <3>2
  <2>2. QED
    BY <1>1, <2>1 DEF CameInv
<1>5. QED
  BY <1>3, <1>4

\* The verdict on the request under way does not refuse a password admitted.
LEMMA ConcludeInductive ==
  ASSUME IInv, NEW a \in cycle, Conclude(a)
  PROVE  IInv'
<1> USE DEF IInv
<1>1. PICK j \in Streams, version \in {1, 2} : \E n \in 1..asked[j] :
            a.of = <<j, n>> /\ a.headers = Came(posted[j][n], version)
  BY DEF CameInv
<1>2. PICK n \in 1..asked[j] :
            a.of = <<j, n>> /\ a.headers = Came(posted[j][n], version)
  BY <1>1
<1>3. /\ cycle' = cycle \ {a}
      /\ UNCHANGED <<key, vault, first, admitted, asked, told, acted, posted,
                     outcome, owed>>
  BY DEF Conclude, wireVars
<1>4. \/ said' = said
      \/ /\ n = asked[j]
         /\ \E v \in Verdict(a) : said' = [said EXCEPT ![j] = @ \cup {status(v)}]
  BY <1>2 DEF Conclude
<1>5. \A v \in Verdict(a) : v \in Verdicts /\ status(v) \in Statuses
  BY DEF Verdict, Verdicts, Refusals, Statuses
<1>6. Typing'
  <2>1. said' \in [Streams -> SUBSET Statuses]
    <3>1. CASE said' = said
      BY <3>1 DEF Typing
    <3>2. ASSUME NEW v \in Verdict(a),
                 said' = [said EXCEPT ![j] = @ \cup {status(v)}]
          PROVE  said' \in [Streams -> SUBSET Statuses]
      BY <1>5, <3>2 DEF Typing
    <3>3. QED
      BY <1>4, <3>1, <3>2
  <2>2. QED
    BY <1>3, <2>1 DEF Typing
<1>7. PostedInv' /\ CameInv' /\ IdentifiedIfAdmitted'
  <2>1. PostedInv'
    BY <1>3 DEF PostedInv, Requested
  <2>2. CameInv'
    BY <1>3 DEF CameInv
  <2>3. IdentifiedIfAdmitted'
    BY <1>3 DEF IdentifiedIfAdmitted
  <2>4. QED
    BY <2>1, <2>2, <2>3
<1>8. ASSUME n = asked[j], owed[j] # Unset, NEW v \in Verdict(a)
      PROVE  judge(status(v)) # "refused"
  <2>1. header_value(a.headers, "authorization") = Basic(owed[j])
        /\ owed[j] \in admitted
    BY <1>2, <1>8, CameReads DEF OwedInv
  <2>2. v = "Accepted" \/ v = "Failed"
    BY <2>1 DEF Verdict
  <2>3. status("Accepted") = 202 /\ status("Failed") = 503
    BY DEF status, ACCEPTED, FAILED, Refusals
  <2>4. judge(202) = "sent" /\ judge(503) = "retry"
    BY DEF judge, retryable
  <2>5. QED
    BY <2>2, <2>3, <2>4
<1>9. OwedInv'
  <2>1. ASSUME NEW u \in Streams, owed[u] # Unset, NEW s \in said'[u]
        PROVE  judge(s) # "refused"
    <3>1. CASE s \in said[u]
      BY <2>1, <3>1 DEF OwedInv
    <3>2. CASE s \notin said[u]
      <4>1. u = j /\ n = asked[j] /\ \E v \in Verdict(a) : s = status(v)
        BY <1>4, <2>1, <3>2 DEF Typing
      <4>2. QED
        BY <1>8, <2>1, <4>1
    <3>3. QED
      BY <3>1, <3>2
  <2>2. QED
    BY <1>3, <2>1 DEF OwedInv
<1>10. QED
  BY <1>6, <1>7, <1>9

\* The passwords change at either end, and what was sent stays as it was.
LEMMA RotatesInductive ==
  ASSUME IInv,
         (\E w \in Passwords \cup {Unset} : Rotate(w)) \/
         (\E W \in SUBSET Passwords : Admit(W))
  PROVE  IInv'
<1> USE DEF IInv
<1>1. CASE \E w \in Passwords \cup {Unset} : Rotate(w)
  <2>1. /\ vault' \in Passwords \cup {Unset}
        /\ UNCHANGED <<key, first, admitted, asked, told, acted, posted, outcome,
                       cycle, said, owed>>
    BY <1>1 DEF Rotate, wireVars
  <2>2. Typing'
    BY <2>1 DEF Typing
  <2>3. PostedInv'
    BY <2>1 DEF PostedInv, Requested
  <2>4. CameInv'
    BY <2>1 DEF CameInv
  <2>5. OwedInv'
    BY <2>1 DEF OwedInv
  <2>6. IdentifiedIfAdmitted'
    BY <2>1 DEF IdentifiedIfAdmitted
  <2>7. QED
    BY <2>2, <2>3, <2>4, <2>5, <2>6
<1>2. CASE \E W \in SUBSET Passwords : Admit(W)
  <2>1. PICK W \in SUBSET Passwords :
          /\ admitted' = W
          /\ owed' = [j \in Streams |-> IF owed[j] \in W THEN owed[j] ELSE Unset]
          /\ UNCHANGED <<key, vault, first, asked, told, acted, posted, outcome,
                         cycle, said>>
    BY <1>2 DEF Admit, wireVars
  <2>2. Typing'
    BY <2>1 DEF Typing
  <2>3. PostedInv' /\ CameInv'
    <3>1. PostedInv'
      BY <2>1 DEF PostedInv, Requested
    <3>2. CameInv'
      BY <2>1 DEF CameInv
    <3>3. QED
      BY <3>1, <3>2
  <2>4. \A j \in Streams : owed'[j] # Unset => owed'[j] = owed[j] /\ owed[j] \in W
    BY <2>1
  <2>5. OwedInv' /\ IdentifiedIfAdmitted'
    BY <2>1, <2>4 DEF OwedInv, IdentifiedIfAdmitted
  <2>6. QED
    BY <2>2, <2>3, <2>5
<1>3. QED
  BY <1>1, <1>2

----------------------------------------------------------------------------
\* The theorems.

\* SecuredSend starts in IInv.
LEMMA InitInductive == Init => IInv
<1> SUFFICES ASSUME Init PROVE IInv
  OBVIOUS
<1>1. Typing
  BY DEF Init, Wire!Init, Typing, Outcomes
<1>2. PostedInv
  <2>1. \A j \in Streams : posted[j] = <<>> /\ asked[j] = 0 /\ Len(<<>>) = 0
    BY EmptySeq DEF Init, Wire!Init
  <2>2. \A j \in Streams : <<>> \in Seq(Requested(j))
    BY EmptySeq
  <2>3. QED
    BY <2>1, <2>2 DEF PostedInv
<1>3. CameInv /\ OwedInv /\ IdentifiedIfAdmitted
  BY DEF Init, CameInv, OwedInv, IdentifiedIfAdmitted
<1>4. QED
  BY <1>1, <1>2, <1>3 DEF IInv

\* What each request says, and of which password the answers to it can be.
THEOREM Invariant == Spec => []IInv
<1>1. IInv /\ [Next]_vars => IInv'
  <2> SUFFICES ASSUME IInv, [Next]_vars PROVE IInv'
    OBVIOUS
  <2>1. CASE Next
    BY <2>1, SendInductive, EndsInductive, ArrivesInductive, ConcludeInductive,
       RotatesInductive DEF Next
  <2>2. CASE UNCHANGED vars
    <3>1. UNCHANGED <<key, vault, first, admitted, asked, told, acted, posted,
                      outcome, cycle, said, owed>>
      BY <2>2 DEF vars, wireVars
    <3>2. Typing'
      BY <3>1 DEF IInv, Typing
    <3>3. PostedInv'
      BY <3>1 DEF IInv, PostedInv, Requested
    <3>4. CameInv'
      BY <3>1 DEF IInv, CameInv
    <3>5. OwedInv' /\ IdentifiedIfAdmitted'
      BY <3>1 DEF IInv, OwedInv, IdentifiedIfAdmitted
    <3>6. QED
      BY <3>2, <3>3, <3>4, <3>5 DEF IInv
  <2>3. QED
    BY <2>1, <2>2
<1>2. QED
  BY <1>1, InitInductive, PTL DEF Spec

\* No status gives a Stream up while the far end admits what the vault held
\* as its send began (basic::basic, read at each request).
THEOREM GivenUpByRightOnly == Spec => []IdentifiedIfAdmitted
BY Invariant, PTL DEF IInv

\* What a request that arrived says of its key and its password.
LEMMA SaysOnArrival ==
  ASSUME IInv, NEW a \in cycle
  PROVE  \E j \in Streams, w \in Passwords :
            /\ a.of[1] = j
            /\ header_value(a.headers, "authorization") = Basic(w)
            /\ header_value(a.headers, "idempotency-key") = idempotency_key(key[j])
<1> USE DEF IInv
<1>1. PICK j \in Streams, version \in {1, 2} : \E n \in 1..asked[j] :
            a.of = <<j, n>> /\ a.headers = Came(posted[j][n], version)
  BY DEF CameInv
<1>2. PICK n \in 1..asked[j] :
            a.of = <<j, n>> /\ a.headers = Came(posted[j][n], version)
  BY <1>1
<1>3. posted[j][n] \in Requested(j)
  BY ElementOfSeq DEF PostedInv
<1>4. PICK w \in Passwords : posted[j][n] = Posted(key[j], w)
  BY <1>3 DEF Requested
<1>5. QED
  BY <1>2, <1>4, CameReads

\* Nothing goes out without a password of the secret's (basic::basic).
THEOREM NeverAnonymous == Spec => []PresentsAPassword
<1>1. IInv => PresentsAPassword
  BY SaysOnArrival DEF PresentsAPassword
<1>2. QED
  BY <1>1, Invariant, PTL

\* What a server that honors the key reads is the Journey's, for a key of
\* any length and on every attempt, or nothing where not all of the key is
\* printable (idempotency_key).
THEOREM KeyArrivesWhole == Spec => []KeyReadsBack
<1>1. IInv => KeyReadsBack
  <2> SUFFICES ASSUME IInv, NEW a \in cycle
               PROVE  Reading(header_value(a.headers, "idempotency-key")) =
                        IF AllPrintable(key[a.of[1]])
                        THEN [at |-> "done", key |-> key[a.of[1]]]
                        ELSE Malformed
    BY DEF KeyReadsBack
  <2>1. PICK j \in Streams : /\ a.of[1] = j
                             /\ header_value(a.headers, "idempotency-key") =
                                    idempotency_key(key[j])
    BY SaysOnArrival
  <2>2. key[j] \in Seq(STRING)
    BY KeyAssumption DEF IInv, Typing
  <2> DEFINE A == STRING \cup {Quote, Backslash}
             k == key[j]
  <2>3. Quote \in A /\ Backslash \in A /\ STRING \subseteq A
    OBVIOUS
  <2>4. Reading(idempotency_key(k)) =
            IF AllPrintable(k) THEN [at |-> "done", key |-> k] ELSE Malformed
    <3>1. k \in Seq(STRING)
      BY <2>2
    <3> HIDE DEF A, k
    <3>2. k \in Seq(A)
      BY <2>3, <3>1, SeqMonotonic
    <3>3. QED
      BY <2>3, <3>2, ReadsBack
  <2>5. QED
    BY <2>1, <2>4
<1>2. QED
  BY <1>1, Invariant, PTL
=============================================================================
