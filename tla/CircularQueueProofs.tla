------------------------ MODULE CircularQueueProofs ------------------------
(***************************************************************************)
(* The ring of circular_queue<T> stands for a sequence: what push(), pop() *)
(* and front() do to head, tail and the array is Append, Tail and Head,    *)
(* for every capacity.                                                     *)
(***************************************************************************)
EXTENDS CircularQueue, SequenceTheorems, TLAPS

(* The rings the operations can produce. *)
IsRing(q, S) ==
    /\ q \in [head : -1..(max - 1), tail : -1..(max - 1), arr : [0..(max - 1) -> S]]
    /\ q.head = -1 <=> q.tail = -1

-----------------------------------------------------------------------------
(* The remainder, once round the ring. *)
LEMMA OnceRound ==
    /\ \A n \in 0..(max - 1) : n % max = n
    /\ \A n \in max..(2 * max - 1) : n % max = n - max
<1>1. max \in Nat \ {0}
  BY CapacityAssumption
<1>2. ASSUME NEW n \in 0..(max - 1)
      PROVE  n % max = n
  BY <1>1, Z3
<1>3. ASSUME NEW n \in max..(2 * max - 1)
      PROVE  n % max = n - max
  BY <1>1, Z3
<1> QED
  BY <1>2, <1>3

(* head, tail and the slots of a ring that is not empty, without the       *)
(* remainder.                                                              *)
LEMMA Slots ==
    ASSUME NEW S, NEW q, IsRing(q, S), q.head # -1
    PROVE  /\ q.head \in 0..(max - 1) /\ q.tail \in 0..(max - 1)
           /\ q.arr \in [0..(max - 1) -> S]
           /\ Size(q) = IF q.head <= q.tail THEN q.tail - q.head + 1
                                            ELSE q.tail - q.head + max + 1
           /\ Size(q) \in 1..max
           /\ \A i \in 1..max : (q.head + i - 1) % max =
                 IF q.head + i <= max THEN q.head + i - 1 ELSE q.head + i - 1 - max
           /\ (q.tail + 1) % max = IF q.tail + 1 < max THEN q.tail + 1 ELSE 0
           /\ (q.head + 1) % max = IF q.head + 1 < max THEN q.head + 1 ELSE 0
<1>0. max \in Nat \ {0}
  BY CapacityAssumption
<1>1. /\ q.head \in 0..(max - 1) /\ q.tail \in 0..(max - 1)
      /\ q.arr \in [0..(max - 1) -> S]
  BY <1>0 DEF IsRing
<1>2. /\ q.head <= q.tail => q.tail - q.head + max \in max..(2 * max - 1)
      /\ ~(q.head <= q.tail) => q.tail - q.head + max \in 0..(max - 1)
  BY <1>0, <1>1
<1>3. (q.tail - q.head + max) % max = IF q.head <= q.tail THEN q.tail - q.head
                                            ELSE q.tail - q.head + max
  BY <1>0, <1>1, <1>2, OnceRound
<1>4. /\ Size(q) = IF q.head <= q.tail THEN q.tail - q.head + 1
                                            ELSE q.tail - q.head + max + 1
      /\ Size(q) \in 1..max
  <2>1. Size(q) = ((q.tail - q.head + max) % max) + 1
    BY DEF Size
  <2> HIDE DEF Size
  <2>2. Size(q) = IF q.head <= q.tail THEN q.tail - q.head + 1
                                      ELSE q.tail - q.head + max + 1
    BY <1>0, <1>1, <1>3, <2>1
  <2> QED
    BY <1>0, <1>1, <2>2
<1>5. ASSUME NEW i \in 1..max
      PROVE  (q.head + i - 1) % max =
                 IF q.head + i <= max THEN q.head + i - 1 ELSE q.head + i - 1 - max
  <2> DEFINE n == q.head + i - 1
  <2>1. CASE q.head + i <= max
    <3>1. n \in 0..(max - 1)
      BY <1>0, <1>1, <2>1
    <3> HIDE DEF n
    <3>2. n % max = n
      BY <3>1, OnceRound
    <3> QED
      BY <2>1, <3>2 DEF n
  <2>2. CASE ~(q.head + i <= max)
    <3>1. n \in max..(2 * max - 1)
      BY <1>0, <1>1, <2>2
    <3> HIDE DEF n
    <3>2. n % max = n - max
      BY <3>1, OnceRound
    <3>3. (q.head + i - 1) % max = q.head + i - 1 - max
      <4>1. n - max = q.head + i - 1 - max
        BY <1>0, <1>1 DEF n
      <4> QED
        BY <3>2, <4>1, Zenon DEF n
    <3> QED
      BY <2>2, <3>3, Zenon
  <2> QED
    BY <2>1, <2>2
<1>6. ASSUME NEW n \in 0..(max - 1)
      PROVE  (n + 1) % max = IF n + 1 < max THEN n + 1 ELSE 0
  <2>1. CASE n + 1 < max
    <3>1. n + 1 \in 0..(max - 1)
      BY <1>0, <2>1
    <3> QED
      BY <2>1, <3>1, OnceRound
  <2>2. CASE ~(n + 1 < max)
    <3>1. n + 1 \in max..(2 * max - 1) /\ n + 1 = max
      BY <1>0, <2>2
    <3> QED
      BY <1>0, <2>2, <3>1, OnceRound
  <2> QED
    BY <2>1, <2>2
<1> QED
  BY <1>1, <1>4, <1>5, <1>6

(* A ring stands for a sequence of Size(q) elements, at most max of them. *)
LEMMA ContentsIsSeq ==
    ASSUME NEW S, NEW q, IsRing(q, S)
    PROVE  /\ Contents(q) \in Seq(S)
           /\ Len(Contents(q)) = Size(q)
           /\ Size(q) \in 0..max
           /\ isEmpty(q) <=> Contents(q) = <<>>
           /\ isEmpty(q) <=> Size(q) = 0
           /\ isEmpty(q) <=> q.head = -1
<1>0. max \in Nat \ {0}
  BY CapacityAssumption
<1>1. isEmpty(q) <=> q.head = -1
  BY DEF IsRing, isEmpty
<1>2. CASE q.head = -1
  <2>1. Size(q) = 0
    BY <1>2 DEF Size
  <2>2. Contents(q) = [i \in 1..0 |-> q.arr[(q.head + i - 1) % max]]
    BY <2>1 DEF Contents
  <2>3. Contents(q) = <<>>
    BY <2>2
  <2> QED
    BY <1>0, <1>1, <1>2, <2>1, <2>3, EmptySeq
<1>3. CASE q.head # -1
  <2>1. Size(q) \in 1..max
    BY <1>3, Slots
  <2>2. \A i \in 1..Size(q) : q.arr[(q.head + i - 1) % max] \in S
    <3> SUFFICES ASSUME NEW i \in 1..Size(q)
                 PROVE  q.arr[(q.head + i - 1) % max] \in S
      OBVIOUS
    <3>1. i \in 1..max
      BY <1>0, <2>1
    <3>2. /\ (q.head + i - 1) % max =
                 IF q.head + i <= max THEN q.head + i - 1 ELSE q.head + i - 1 - max
          /\ q.head \in 0..(max - 1) /\ q.arr \in [0..(max - 1) -> S]
      BY <1>3, <3>1, Slots
    <3>3. (q.head + i - 1) % max \in 0..(max - 1)
      <4> DEFINE k == (q.head + i - 1) % max
                 h == q.head
      <4>1. k = (IF h + i <= max THEN h + i - 1 ELSE h + i - 1 - max) /\ h \in 0..(max - 1)
        BY <3>2
      <4> HIDE DEF k, h
      <4>2. k \in 0..(max - 1)
        BY <1>0, <3>1, <4>1
      <4> QED
        BY <4>2 DEF k
    <3> QED
      BY <3>2, <3>3
  <2>3. Size(q) \in Nat
    BY <1>0, <2>1
  <2>4. Contents(q) \in Seq(S) /\ Len(Contents(q)) = Size(q)
    <3>1. Contents(q) \in [1..Size(q) -> S]
      BY <2>2 DEF Contents
    <3> QED
      BY <2>3, <3>1, ElementOfSeq, LenProperties
  <2>5. Contents(q) # <<>>
    BY <2>1, <2>4, EmptySeq, <1>0
  <2> QED
    BY <1>0, <1>1, <1>3, <2>1, <2>4, <2>5
<1> QED
  BY <1>2, <1>3

(* front() is the head of the sequence. *)
LEMMA FrontIsHead ==
    ASSUME NEW S, NEW q, IsRing(q, S), ~isEmpty(q)
    PROVE  front(q) = Head(Contents(q)) /\ front(q) \in S
<1>0. max \in Nat \ {0} /\ q.head # -1
  BY CapacityAssumption, ContentsIsSeq
<1>1. 1 \in 1..max /\ q.head \in 0..(max - 1) /\ Size(q) \in 1..max
  BY <1>0, Slots
<1>2. (q.head + 1 - 1) % max = IF q.head + 1 <= max THEN q.head + 1 - 1
                                                    ELSE q.head + 1 - 1 - max
  BY <1>0, <1>1, Slots
<1>3. (q.head + 1 - 1) % max = q.head
  BY <1>0, <1>1, <1>2
<1>4. Contents(q)[1] = q.arr[(q.head + 1 - 1) % max]
  BY <1>0, <1>1 DEF Contents
<1>5. Contents(q) \in Seq(S) /\ Len(Contents(q)) = Size(q)
  BY ContentsIsSeq
<1>6. Head(Contents(q)) = Contents(q)[1]
  BY <1>0, <1>1, <1>5
<1>7. q.arr[q.head] \in S
  BY <1>0, <1>1, Slots
<1> QED
  BY <1>3, <1>4, <1>6, <1>7 DEF front

(* The i-th element of the sequence, without the remainder. *)
Slot(q, i) == IF q.head + i <= max THEN q.head + i - 1 ELSE q.head + i - 1 - max

LEMMA ContentsBySlot ==
    ASSUME NEW S, NEW q, IsRing(q, S), NEW i \in 1..Size(q)
    PROVE  Contents(q)[i] = q.arr[Slot(q, i)] /\ Slot(q, i) \in 0..(max - 1)
<1>0. max \in Nat \ {0}
  BY CapacityAssumption
<1>1. q.head # -1
  BY <1>0 DEF Size
<1>2. i \in 1..max /\ q.head \in 0..(max - 1)
  BY <1>0, <1>1, Slots
<1>3. (q.head + i - 1) % max = Slot(q, i)
  BY <1>1, <1>2, Slots DEF Slot
<1>4. Contents(q)[i] = q.arr[(q.head + i - 1) % max]
  BY DEF Contents
<1>5. Slot(q, i) \in 0..(max - 1)
  BY <1>0, <1>2 DEF Slot
<1> QED
  BY <1>3, <1>4, <1>5

(* push() on a ring that is not full appends. *)
LEMMA PushAppends ==
    ASSUME NEW S, NEW q, IsRing(q, S), NEW x \in S, ~isFull(q)
    PROVE  /\ IsRing(Pushed(q, x), S)
           /\ Contents(Pushed(q, x)) = Append(Contents(q), x)
           /\ Len(Contents(q)) < max
           /\ Size(Pushed(q, x)) = Size(q) + 1
<1>0. max \in Nat \ {0}
  BY CapacityAssumption
<1> DEFINE p == Pushed(q, x)
           tail == (q.tail + 1) % max
<1>1. p = [head |-> IF q.head = -1 THEN 0 ELSE q.head, tail |-> tail,
           arr |-> [q.arr EXCEPT ![tail] = x]]
  BY DEF Pushed
<1>2. q.arr \in [0..(max - 1) -> S] /\ q.head \in -1..(max - 1)
  BY DEF IsRing
<1>3. tail = IF q.head = -1 THEN 0 ELSE IF q.tail + 1 < max THEN q.tail + 1 ELSE 0
  <2>1. CASE q.head = -1
    <3>1. q.tail + 1 = 0 /\ 0 \in 0..(max - 1)
      BY <1>0, <2>1 DEF IsRing
    <3> QED
      BY <2>1, <3>1, OnceRound
  <2>2. CASE q.head # -1
    BY <2>2, Slots
  <2> QED
    BY <2>1, <2>2
<1>4. tail # q.head
  BY DEF isFull
<1> HIDE DEF tail
<1>5. tail \in 0..(max - 1)
  <2>1. CASE q.head = -1
    BY <1>0, <1>3, <2>1
  <2>2. CASE q.head # -1
    <3>1. q.tail \in 0..(max - 1)
      BY <2>2, Slots
    <3> QED
      BY <1>0, <1>3, <2>2, <3>1
  <2> QED
    BY <2>1, <2>2
<1>6. /\ p.head = (IF q.head = -1 THEN 0 ELSE q.head) /\ p.tail = tail
      /\ p.arr = [q.arr EXCEPT ![tail] = x]
      /\ p.head \in 0..(max - 1)
  BY <1>0, <1>1, <1>2
<1>7. IsRing(p, S) /\ p.head # -1
  <2>1. p.arr \in [0..(max - 1) -> S]
    BY <1>2, <1>5, <1>6
  <2>2. p \in [head : -1..(max - 1), tail : -1..(max - 1), arr : [0..(max - 1) -> S]]
    BY <1>0, <1>1, <1>5, <1>6, <2>1
  <2> QED
    BY <1>0, <1>5, <1>6, <2>2 DEF IsRing
<1> HIDE DEF p
<1>8. Size(p) = Size(q) + 1 /\ Size(q) \in 0..(max - 1)
  <2>1. Size(p) = IF p.head <= p.tail THEN p.tail - p.head + 1
                                      ELSE p.tail - p.head + max + 1
    BY <1>7, Slots
  <2>2. CASE q.head = -1
    BY <1>0, <1>3, <1>6, <2>1, <2>2 DEF Size
  <2>3. CASE q.head # -1
    <3>1. /\ Size(q) = IF q.head <= q.tail THEN q.tail - q.head + 1
                                           ELSE q.tail - q.head + max + 1
          /\ q.head \in 0..(max - 1) /\ q.tail \in 0..(max - 1)
      BY <2>3, Slots
    <3>2. p.head = q.head /\ p.tail = tail
      BY <1>6, <2>3
    <3>3. CASE q.tail + 1 < max
      <4>1. tail = q.tail + 1
        BY <1>3, <2>3, <3>3
      <4>2. q.head <= q.tail <=> q.head <= tail
        BY <1>0, <1>4, <3>1, <4>1
      <4> QED
        BY <1>0, <1>4, <2>1, <3>1, <3>2, <3>3, <4>1, <4>2
    <3>4. CASE ~(q.tail + 1 < max)
      <4>1. tail = 0 /\ q.tail = max - 1 /\ q.head <= q.tail /\ ~(q.head <= tail)
        BY <1>0, <1>3, <1>4, <2>3, <3>1, <3>4
      <4> QED
        BY <1>0, <2>1, <3>1, <3>2, <4>1
    <3> QED
      BY <3>3, <3>4
  <2> QED
    BY <2>2, <2>3
<1>9. ASSUME NEW i \in 1..Size(q)
      PROVE  Contents(p)[i] = Contents(q)[i]
  <2>1. q.head # -1
    BY <1>0 DEF Size
  <2>2. /\ Size(q) = IF q.head <= q.tail THEN q.tail - q.head + 1
                                         ELSE q.tail - q.head + max + 1
        /\ q.head \in 0..(max - 1) /\ q.tail \in 0..(max - 1)
    BY <2>1, Slots
  <2>3. Slot(q, i) # tail /\ Slot(p, i) = Slot(q, i)
    BY <1>0, <1>3, <1>4, <1>6, <2>1, <2>2 DEF Slot
  <2>4. i \in 1..Size(p)
    BY <1>8
  <2>5. Contents(p)[i] = p.arr[Slot(q, i)]
    BY <1>7, <2>3, <2>4, ContentsBySlot
  <2>6. Contents(q)[i] = q.arr[Slot(q, i)] /\ Slot(q, i) \in 0..(max - 1)
    BY ContentsBySlot
  <2> QED
    BY <1>2, <1>6, <2>3, <2>5, <2>6
<1>10. Contents(p)[Size(p)] = x
  <2>1. Size(p) = IF p.head <= p.tail THEN p.tail - p.head + 1
                                      ELSE p.tail - p.head + max + 1
    BY <1>7, Slots
  <2>2. Slot(p, Size(p)) = tail
    BY <1>0, <1>5, <1>6, <2>1 DEF Slot
  <2>3. Size(p) \in 1..Size(p)
    BY <1>8
  <2>4. Contents(p)[Size(p)] = p.arr[tail]
    BY <1>7, <2>2, <2>3, ContentsBySlot
  <2> QED
    BY <1>2, <1>5, <1>6, <2>4
<1>11. /\ Contents(q) \in Seq(S) /\ Len(Contents(q)) = Size(q)
       /\ Contents(p) \in Seq(S) /\ Len(Contents(p)) = Size(p)
  BY <1>7, ContentsIsSeq
<1>12. Contents(p) = Append(Contents(q), x)
  <2> DEFINE s == Contents(p)
             w == Contents(q)
  <2>1. /\ Append(w, x) \in Seq(S)
        /\ Len(Append(w, x)) = Len(w) + 1
        /\ \A i \in 1..Len(w) : Append(w, x)[i] = w[i]
        /\ Append(w, x)[Len(w) + 1] = x
    BY <1>11, AppendProperties
  <2>2. Len(s) = Len(Append(w, x)) /\ Len(w) \in Nat
    BY <1>8, <1>11, <2>1
  <2>3. \A i \in 1..Len(s) : s[i] = Append(w, x)[i]
    BY <1>8, <1>9, <1>10, <1>11, <2>1, <2>2
  <2> HIDE DEF s, w
  <2>4. s = Append(w, x)
    BY <1>11, <2>1, <2>2, <2>3, SeqEqual DEF s
  <2> QED
    BY <2>4 DEF s, w
<1> QED
  BY <1>0, <1>7, <1>8, <1>11, <1>12 DEF p

(* push() on a full ring changes nothing. *)
LEMMA PushOnFull ==
    ASSUME NEW q, NEW x, isFull(q)
    PROVE  Pushed(q, x) = q
BY DEF Pushed

(* pop() on a ring that is not empty removes the first element. *)
LEMMA PopIsTail ==
    ASSUME NEW S, NEW q, IsRing(q, S), ~isEmpty(q)
    PROVE  /\ IsRing(Popped(q), S)
           /\ Contents(Popped(q)) = Tail(Contents(q))
           /\ Size(Popped(q)) = Size(q) - 1
<1>0. max \in Nat \ {0} /\ q.head # -1
  BY CapacityAssumption, ContentsIsSeq
<1>1. /\ Size(q) = IF q.head <= q.tail THEN q.tail - q.head + 1
                                       ELSE q.tail - q.head + max + 1
      /\ q.head \in 0..(max - 1) /\ q.tail \in 0..(max - 1)
      /\ q.arr \in [0..(max - 1) -> S]
      /\ (q.head + 1) % max = IF q.head + 1 < max THEN q.head + 1 ELSE 0
      /\ Size(q) \in 1..max
  BY <1>0, Slots
<1> DEFINE p == Popped(q)
<1>2. IsRing(p, S) /\ Size(p) = Size(q) - 1
      /\ \A i \in 1..Size(p) : Contents(p)[i] = Contents(q)[i + 1]
  <2>1. CASE q.head = q.tail
    <3>1. p = [q EXCEPT !.head = -1, !.tail = -1]
      BY <1>0, <2>1 DEF Popped
    <3>2. IsRing(p, S) /\ p.head = -1
      <4>1. q \in [head : -1..(max - 1), tail : -1..(max - 1), arr : [0..(max - 1) -> S]]
        BY DEF IsRing
      <4>2. -1 \in -1..(max - 1)
        BY <1>0
      <4> QED
        BY <3>1, <4>1, <4>2 DEF IsRing
    <3>3. Size(p) = 0 /\ Size(q) = 1
      BY <1>0, <1>1, <2>1, <3>2 DEF Size
    <3> QED
      BY <3>2, <3>3
  <2>2. CASE q.head # q.tail
    <3> DEFINE h == (q.head + 1) % max
    <3>1. p = [q EXCEPT !.head = h]
      BY <1>0, <2>2 DEF Popped
    <3>2. h = IF q.head + 1 < max THEN q.head + 1 ELSE 0
      BY <1>1
    <3> HIDE DEF h
    <3>3. h \in 0..(max - 1)
      BY <1>0, <1>1, <3>2
    <3>4. p.head = h /\ p.tail = q.tail /\ p.arr = q.arr
      BY <3>1 DEF IsRing
    <3>5. IsRing(p, S) /\ p.head # -1
      BY <1>0, <1>1, <3>1, <3>3, <3>4 DEF IsRing
    <3> HIDE DEF p
    <3>6. Size(p) = IF h <= q.tail THEN q.tail - h + 1 ELSE q.tail - h + max + 1
      BY <3>4, <3>5, Slots
    <3>7. Size(p) = Size(q) - 1
      <4>1. CASE q.head + 1 < max
        <5>1. h = q.head + 1 /\ (h <= q.tail <=> q.head <= q.tail)
          BY <1>0, <1>1, <2>2, <3>2, <4>1
        <5>2. q.tail \in Int /\ q.head \in Int
          BY <1>1
        <5>3. CASE q.head <= q.tail
          <6>1. Size(q) = q.tail - q.head + 1 /\ Size(p) = q.tail - h + 1
            BY <1>1, <3>6, <5>1, <5>3
          <6> QED
            BY <5>1, <5>2, <6>1
        <5>4. CASE ~(q.head <= q.tail)
          <6>1. /\ Size(q) = q.tail - q.head + max + 1
                /\ Size(p) = q.tail - h + max + 1
            BY <1>1, <3>6, <5>1, <5>4
          <6> QED
            BY <1>0, <5>1, <5>2, <6>1
        <5> QED
          BY <5>3, <5>4
      <4>2. CASE ~(q.head + 1 < max)
        <5>1. h = 0 /\ q.head = max - 1 /\ h <= q.tail /\ ~(q.head <= q.tail)
          BY <1>0, <1>1, <2>2, <3>2, <4>2
        <5>2. Size(q) = q.tail - q.head + max + 1 /\ Size(p) = q.tail - h + 1
          BY <1>1, <3>6, <5>1
        <5>3. q.tail \in Int
          BY <1>1
        <5> QED
          BY <1>0, <5>1, <5>2, <5>3
      <4> QED
        BY <4>1, <4>2
    <3>8. ASSUME NEW i \in 1..Size(p)
          PROVE  Contents(p)[i] = Contents(q)[i + 1]
      <4>1. i + 1 \in 1..Size(q) /\ i \in 1..(max - 1)
        BY <1>0, <1>1, <3>7
      <4>2. Slot(p, i) = Slot(q, i + 1)
        <5>1. CASE q.head + 1 < max
          <6>1. p.head = q.head + 1 /\ q.head \in Nat
            BY <1>0, <1>1, <3>2, <3>4, <5>1
          <6>2. p.head + i <= max <=> q.head + (i + 1) <= max
            BY <1>0, <4>1, <6>1
          <6>3. /\ p.head + i - 1 = q.head + (i + 1) - 1
                /\ p.head + i - 1 - max = q.head + (i + 1) - 1 - max
            BY <1>0, <4>1, <6>1
          <6> QED
            BY <6>2, <6>3 DEF Slot
        <5>2. CASE ~(q.head + 1 < max)
          <6>1. p.head = 0 /\ q.head = max - 1
            <7>1. q.head \in 0..(max - 1)
              BY <1>1
            <7>2. h = 0 /\ q.head = max - 1
              BY <1>0, <3>2, <5>2, <7>1
            <7> QED
              BY <3>4, <7>2
          <6> QED
            BY <1>0, <4>1, <6>1 DEF Slot
        <5> QED
          BY <5>1, <5>2
      <4>3. Contents(p)[i] = p.arr[Slot(p, i)]
        BY <3>5, ContentsBySlot
      <4>4. Contents(q)[i + 1] = q.arr[Slot(q, i + 1)]
        BY <4>1, ContentsBySlot
      <4> QED
        BY <3>4, <4>2, <4>3, <4>4
    <3> QED
      BY <3>5, <3>7, <3>8
  <2> QED
    BY <2>1, <2>2
<1> HIDE DEF p
<1>3. /\ Contents(q) \in Seq(S) /\ Len(Contents(q)) = Size(q) /\ Contents(q) # <<>>
      /\ Contents(p) \in Seq(S) /\ Len(Contents(p)) = Size(p)
  BY <1>2, ContentsIsSeq
<1>4. Contents(p) = Tail(Contents(q))
  <2> DEFINE s == Contents(p)
             w == Contents(q)
  <2>1. /\ Tail(w) \in Seq(S)
        /\ Len(Tail(w)) = Len(w) - 1
        /\ \A i \in 1..Len(Tail(w)) : Tail(w)[i] = w[i + 1]
    BY <1>3, HeadTailProperties
  <2>2. Len(s) = Len(Tail(w))
    BY <1>2, <1>3, <2>1
  <2>3. \A i \in 1..Len(s) : s[i] = Tail(w)[i]
    BY <1>2, <1>3, <2>1, <2>2
  <2> HIDE DEF s, w
  <2>4. s = Tail(w)
    BY <1>3, <2>1, <2>2, <2>3, SeqEqual DEF s
  <2> QED
    BY <2>4 DEF s, w
<1> QED
  BY <1>2, <1>4 DEF p

(* A new ring is empty. *)
LEMMA EmptyRingIsRing ==
    ASSUME NEW S, Default \in S
    PROVE  IsRing(EmptyRing, S) /\ isEmpty(EmptyRing) /\ Contents(EmptyRing) = <<>>
           /\ Size(EmptyRing) = 0
<1>1. IsRing(EmptyRing, S) /\ isEmpty(EmptyRing)
  BY CapacityAssumption DEF EmptyRing, IsRing, isEmpty
<1> QED
  BY <1>1, ContentsIsSeq

=============================================================================
