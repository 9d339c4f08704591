----------------------------- MODULE QueueLemmas -----------------------------
(* What the proofs need of the queues of waiters in the models: sequences   *)
(* without repetition that grow by Append and shrink by Tail and RemoveAt.  *)
EXTENDS Integers, SequencesExt, SequenceTheorems, TLAPS

\* x waits in the queue s.
InQueue(x, s) == \E i \in 1 .. Len(s) : s[i] = x

\* x waits in it before y.
Ahead(x, y, s) == \E i, j \in 1 .. Len(s) : i < j /\ s[i] = x /\ s[j] = y

\* A queue of members of S, each in one place.
IsQueue(s, S) == s \in Seq(S) /\ IsInjective(s)

\* Being without repetition, place by place.
LEMMA QueuePlaces ==
  ASSUME NEW S, NEW s \in Seq(S)
  PROVE  IsInjective(s) <=> \A i, j \in 1 .. Len(s) : s[i] = s[j] => i = j
  BY LenProperties DEF IsInjective

\* The empty queue.
LEMMA EmptyQueue ==
  ASSUME NEW S
  PROVE  /\ IsQueue(<< >>, S)
         /\ \A x : ~InQueue(x, << >>)
         /\ \A x, y : ~Ahead(x, y, << >>)
  <1>1. << >> \in Seq(S) /\ Len(<< >>) = 0 /\ 1 .. 0 = {}
    BY EmptySeq
  <1>2. QED
    BY <1>1, QueuePlaces DEF IsQueue, InQueue, Ahead

\* x joins the queue at its end.
LEMMA JoinQueue ==
  ASSUME NEW S, NEW s, IsQueue(s, S), NEW x \in S
  PROVE  /\ Append(s, x) \in Seq(S)
         /\ ~InQueue(x, s) => IsQueue(Append(s, x), S)
         /\ \A y : InQueue(y, Append(s, x)) <=> InQueue(y, s) \/ y = x
         /\ \A y, z : Ahead(y, z, Append(s, x)) <=> Ahead(y, z, s) \/ (InQueue(y, s) /\ z = x)
  <1> DEFINE t == Append(s, x)
  <1>1. s \in Seq(S) /\ Len(s) \in Nat
    BY LenProperties DEF IsQueue
  <1>2. /\ t \in Seq(S) /\ Len(t) = Len(s) + 1
        /\ \A i \in 1 .. Len(s) : t[i] = s[i]
        /\ t[Len(s) + 1] = x
    BY <1>1, AppendProperties
  <1> HIDE DEF t
  <1>3. \A i : i \in 1 .. Len(t) <=> i \in 1 .. Len(s) \/ i = Len(s) + 1
    BY <1>1, <1>2
  <1>4. \A y : InQueue(y, t) <=> InQueue(y, s) \/ y = x
    BY <1>2, <1>3 DEF InQueue
  <1>5. ASSUME ~InQueue(x, s) PROVE IsQueue(t, S)
    <2>1. \A i, j \in 1 .. Len(s) : s[i] = s[j] => i = j
      BY <1>1, QueuePlaces DEF IsQueue
    <2>2. \A i \in 1 .. Len(s) : t[i] # x
      BY <1>2, <1>5 DEF InQueue
    <2>3. \A i, j \in 1 .. Len(t) : t[i] = t[j] => i = j
      BY <1>2, <1>3, <2>1, <2>2
    <2>4. QED
      BY <1>2, <2>3, QueuePlaces DEF IsQueue
  <1>6. ASSUME NEW y, NEW z
        PROVE  Ahead(y, z, t) <=> Ahead(y, z, s) \/ (InQueue(y, s) /\ z = x)
    <2>1. ASSUME Ahead(y, z, t) PROVE Ahead(y, z, s) \/ (InQueue(y, s) /\ z = x)
      <3>1. PICK i, j \in 1 .. Len(t) : i < j /\ t[i] = y /\ t[j] = z
        BY <2>1 DEF Ahead
      <3>2. i \in 1 .. Len(s)
        BY <1>1, <1>2, <3>1
      <3>3. QED
        BY <1>2, <1>3, <3>1, <3>2 DEF Ahead, InQueue
    <2>2. ASSUME Ahead(y, z, s) PROVE Ahead(y, z, t)
      BY <1>2, <1>3, <2>2 DEF Ahead
    <2>3. ASSUME InQueue(y, s), z = x PROVE Ahead(y, z, t)
      <3>1. PICK i \in 1 .. Len(s) : s[i] = y
        BY <2>3 DEF InQueue
      <3>2. i < Len(s) + 1 /\ t[i] = y /\ t[Len(s) + 1] = z
        BY <1>1, <1>2, <2>3, <3>1
      <3>3. QED
        BY <1>3, <3>1, <3>2 DEF Ahead
    <2>4. QED
      BY <2>1, <2>2, <2>3
  <1>7. QED
    BY <1>2, <1>4, <1>5, <1>6 DEF t

\* A part of a queue, its places renamed by a growing map into it, is a queue
\* with the same order.
LEMMA Subqueue ==
  ASSUME NEW S, NEW s, IsQueue(s, S), NEW t \in Seq(S),
         NEW place \in [1 .. Len(t) -> 1 .. Len(s)],
         \A i, j \in 1 .. Len(t) : i < j => place[i] < place[j],
         \A i \in 1 .. Len(t) : t[i] = s[place[i]]
  PROVE  /\ IsQueue(t, S)
         /\ \A x : InQueue(x, t) => InQueue(x, s)
         /\ \A x, y : Ahead(x, y, t) => Ahead(x, y, s)
  <1>1. Len(s) \in Nat /\ Len(t) \in Nat /\ s \in Seq(S)
    BY LenProperties DEF IsQueue
  <1>2. \A i, j \in 1 .. Len(s) : s[i] = s[j] => i = j
    BY <1>1, QueuePlaces DEF IsQueue
  <1>3. \A i, j \in 1 .. Len(t) : place[i] = place[j] => i = j
    <2>1. ASSUME NEW i \in 1 .. Len(t), NEW j \in 1 .. Len(t), place[i] = place[j], i # j
          PROVE  FALSE
      <3>1. i < j \/ j < i
        BY <1>1, <2>1
      <3>2. place[i] \in Int /\ place[j] \in Int
        BY <1>1
      <3>3. QED
        BY <2>1, <3>1, <3>2
    <2>2. QED
      BY <2>1
  <1>4. \A i, j \in 1 .. Len(t) : t[i] = t[j] => i = j
    BY <1>2, <1>3
  <1>5. IsQueue(t, S)
    BY <1>4, QueuePlaces DEF IsQueue
  <1>6. ASSUME NEW x, InQueue(x, t) PROVE InQueue(x, s)
    <2>1. PICK i \in 1 .. Len(t) : t[i] = x
      BY <1>6 DEF InQueue
    <2>2. place[i] \in 1 .. Len(s) /\ s[place[i]] = x
      BY <2>1
    <2>3. QED
      BY <2>2 DEF InQueue
  <1>7. ASSUME NEW x, NEW y, Ahead(x, y, t) PROVE Ahead(x, y, s)
    <2>1. PICK i, j \in 1 .. Len(t) : i < j /\ t[i] = x /\ t[j] = y
      BY <1>7 DEF Ahead
    <2>2. /\ place[i] \in 1 .. Len(s) /\ place[j] \in 1 .. Len(s)
          /\ place[i] < place[j] /\ s[place[i]] = x /\ s[place[j]] = y
      BY <2>1
    <2>3. QED
      BY <2>2 DEF Ahead
  <1>8. QED
    BY <1>5, <1>6, <1>7

\* The first of the queue is served.
LEMMA ServeQueue ==
  ASSUME NEW S, NEW s, IsQueue(s, S), s # << >>
  PROVE  /\ Head(s) \in S /\ InQueue(Head(s), s)
         /\ IsQueue(Tail(s), S)
         /\ \A x : InQueue(x, Tail(s)) <=> InQueue(x, s) /\ x # Head(s)
         /\ \A x, y : Ahead(x, y, Tail(s)) => Ahead(x, y, s)
         /\ \A x : InQueue(x, s) /\ x # Head(s) => Ahead(Head(s), x, s)
  <1> DEFINE t == Tail(s)
  <1>1. s \in Seq(S) /\ Len(s) \in Nat \ {0} /\ Head(s) = s[1] /\ s[1] \in S
    BY EmptySeq, ElementOfSeq DEF IsQueue
  <1>2. /\ t \in Seq(S) /\ Len(t) = Len(s) - 1
        /\ \A i \in 1 .. Len(t) : t[i] = s[i + 1]
    BY <1>1, HeadTailProperties
  <1> HIDE DEF t
  <1>3. \A i, j \in 1 .. Len(s) : s[i] = s[j] => i = j
    BY <1>1, QueuePlaces DEF IsQueue
  <1> DEFINE place == [i \in 1 .. Len(t) |-> i + 1]
  <1>4. place \in [1 .. Len(t) -> 1 .. Len(s)]
    BY <1>1, <1>2
  <1>5. /\ IsQueue(t, S)
        /\ \A x : InQueue(x, t) => InQueue(x, s)
        /\ \A x, y : Ahead(x, y, t) => Ahead(x, y, s)
    <2>1. \A i, j \in 1 .. Len(t) : i < j => place[i] < place[j]
      BY <1>1, <1>2
    <2>2. \A i \in 1 .. Len(t) : t[i] = s[place[i]]
      BY <1>2
    <2> HIDE DEF place
    <2>3. QED
      BY <1>2, <1>4, <2>1, <2>2, Subqueue
  <1>6. ASSUME NEW i \in 1 .. Len(s), i # 1
        PROVE  i - 1 \in 1 .. Len(t) /\ t[i - 1] = s[i]
    <2>1. i - 1 \in 1 .. Len(t) /\ (i - 1) + 1 = i
      BY <1>1, <1>2, <1>6
    <2>2. QED
      BY <1>2, <2>1
  <1>7. ASSUME NEW x, InQueue(x, s), x # Head(s)
        PROVE  InQueue(x, t) /\ Ahead(Head(s), x, s)
    <2>1. PICK i \in 1 .. Len(s) : s[i] = x
      BY <1>7 DEF InQueue
    <2>2. i # 1 /\ 1 < i /\ 1 \in 1 .. Len(s)
      BY <1>1, <1>7, <2>1
    <2>3. QED
      BY <1>1, <1>6, <2>1, <2>2 DEF InQueue, Ahead
  <1>8. ~InQueue(Head(s), t)
    <2>1. ASSUME NEW i \in 1 .. Len(t), t[i] = s[1] PROVE FALSE
      <3>1. i + 1 \in 1 .. Len(s) /\ 1 \in 1 .. Len(s) /\ i + 1 # 1 /\ s[i + 1] = s[1]
        BY <1>1, <1>2, <2>1
      <3>2. QED
        BY <1>3, <3>1
    <2>2. QED
      BY <1>1, <2>1 DEF InQueue
  <1>9. InQueue(Head(s), s)
    BY <1>1 DEF InQueue
  <1>10. QED
    BY <1>1, <1>5, <1>7, <1>8, <1>9 DEF t

\* Element i is taken out of a sequence: the ones behind it move up.
LEMMA RemoveAtProperties ==
  ASSUME NEW S, NEW s \in Seq(S), NEW i \in 1 .. Len(s)
  PROVE  /\ RemoveAt(s, i) \in Seq(S)
         /\ Len(RemoveAt(s, i)) = Len(s) - 1
         /\ \A j \in 1 .. Len(s) - 1 :
              RemoveAt(s, i)[j] = IF j < i THEN s[j] ELSE s[j + 1]
  <1> DEFINE front == SubSeq(s, 1, i - 1)
             back  == SubSeq(s, i + 1, Len(s))
             rest  == front \o back
  <1>1. Len(s) \in Nat /\ i \in Nat /\ i >= 1 /\ i <= Len(s)
    BY LenProperties
  <1>2. /\ front \in Seq(S) /\ Len(front) = i - 1
        /\ \A j \in 1 .. i - 1 : front[j] = s[j]
    <2>1. \A j \in 1 .. i - 1 : s[j] \in S
      BY <1>1, ElementOfSeq
    <2>2. QED
      BY <1>1, <2>1, SubSeqProperties
  <1>3. /\ back \in Seq(S) /\ Len(back) = Len(s) - i
        /\ \A j \in 1 .. Len(s) - i : back[j] = s[i + j]
    <2>1. \A j \in i + 1 .. Len(s) : s[j] \in S
      BY <1>1, ElementOfSeq
    <2>2. QED
      BY <1>1, <2>1, SubSeqProperties
  <1>4. RemoveAt(s, i) = rest
    BY DEF RemoveAt
  <1> HIDE DEF front, back
  <1>5. /\ rest \in Seq(S)
        /\ Len(rest) = Len(front) + Len(back)
        /\ \A j \in 1 .. Len(front) + Len(back) :
             rest[j] = IF j <= Len(front) THEN front[j] ELSE back[j - Len(front)]
    BY <1>2, <1>3, ConcatProperties
  <1> HIDE DEF rest
  <1>6. Len(front) + Len(back) = Len(s) - 1
    BY <1>1, <1>2, <1>3
  <1>7. ASSUME NEW j \in 1 .. Len(s) - 1
        PROVE  rest[j] = IF j < i THEN s[j] ELSE s[j + 1]
    <2>1. rest[j] = IF j <= i - 1 THEN front[j] ELSE back[j - (i - 1)]
      BY <1>2, <1>5, <1>6
    <2>2. CASE j < i
      <3>1. j <= i - 1 /\ j \in 1 .. i - 1
        BY <1>1, <2>2
      <3>2. QED
        BY <1>2, <2>1, <2>2, <3>1
    <2>3. CASE ~(j < i)
      <3>1. ~(j <= i - 1) /\ j - (i - 1) \in 1 .. Len(s) - i /\ i + (j - (i - 1)) = j + 1
        BY <1>1, <2>3
      <3>2. QED
        BY <1>3, <2>1, <2>3, <3>1
    <2>4. QED
      BY <2>2, <2>3
  <1>8. QED
    BY <1>4, <1>5, <1>6, <1>7

\* Somebody leaves the queue from wherever he waits.
LEMMA LeaveQueue ==
  ASSUME NEW S, NEW s, IsQueue(s, S), NEW i \in 1 .. Len(s)
  PROVE  /\ IsQueue(RemoveAt(s, i), S)
         /\ \A x : InQueue(x, RemoveAt(s, i)) <=> InQueue(x, s) /\ x # s[i]
         /\ \A x, y : Ahead(x, y, RemoveAt(s, i)) => Ahead(x, y, s)
  <1> DEFINE t == RemoveAt(s, i)
  <1>1. s \in Seq(S) /\ Len(s) \in Nat /\ i \in Nat /\ i >= 1 /\ i <= Len(s)
    BY LenProperties DEF IsQueue
  <1>2. /\ t \in Seq(S) /\ Len(t) = Len(s) - 1
        /\ \A j \in 1 .. Len(s) - 1 : t[j] = IF j < i THEN s[j] ELSE s[j + 1]
    BY <1>1, RemoveAtProperties
  <1> HIDE DEF t
  <1>3. \A j, k \in 1 .. Len(s) : s[j] = s[k] => j = k
    BY <1>1, QueuePlaces DEF IsQueue
  <1> DEFINE place == [j \in 1 .. Len(t) |-> IF j < i THEN j ELSE j + 1]
  <1>4. place \in [1 .. Len(t) -> 1 .. Len(s)]
    BY <1>1, <1>2
  <1>5. \A j \in 1 .. Len(t) : t[j] = s[place[j]] /\ place[j] # i
    BY <1>1, <1>2
  <1>6. /\ IsQueue(t, S)
        /\ \A x : InQueue(x, t) => InQueue(x, s)
        /\ \A x, y : Ahead(x, y, t) => Ahead(x, y, s)
    <2>1. \A j, k \in 1 .. Len(t) : j < k => place[j] < place[k]
      BY <1>1, <1>2
    <2> HIDE DEF place
    <2>2. QED
      BY <1>2, <1>4, <1>5, <2>1, Subqueue
  <1>7. ~InQueue(s[i], t)
    BY <1>3, <1>4, <1>5 DEF InQueue
  <1>8. ASSUME NEW x, InQueue(x, s), x # s[i] PROVE InQueue(x, t)
    <2>1. PICK j \in 1 .. Len(s) : s[j] = x
      BY <1>8 DEF InQueue
    <2>2. CASE j < i
      <3>1. j \in 1 .. Len(s) - 1 /\ t[j] = s[j]
        BY <1>1, <1>2, <2>2
      <3>2. QED
        BY <1>2, <2>1, <3>1 DEF InQueue
    <2>3. CASE i < j
      <3>1. j - 1 \in 1 .. Len(s) - 1 /\ ~(j - 1 < i) /\ (j - 1) + 1 = j
        BY <1>1, <2>3
      <3>2. t[j - 1] = s[j]
        BY <1>2, <3>1
      <3>3. QED
        BY <1>2, <2>1, <3>1, <3>2 DEF InQueue
    <2>4. j # i
      BY <1>8, <2>1
    <2>5. QED
      BY <1>1, <2>2, <2>3, <2>4
  <1>9. QED
    BY <1>6, <1>7, <1>8 DEF t

=============================================================================
