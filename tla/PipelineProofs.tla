--------------------------- MODULE PipelineProofs ---------------------------
(***************************************************************************)
(* Proofs about the worker pool's pipeline, for every capacity of the      *)
(* ring and any number of workers and requests.                            *)
(***************************************************************************)
EXTENDS Pipeline, CircularQueueProofs, FiniteSetTheorems

-----------------------------------------------------------------------------
(* Sequences without repetition, as the queue and the deliveries are. *)
Distinct(s) == \A i, j \in 1..Len(s) : s[i] = s[j] => i = j

LEMMA RangeOfAppend ==
    ASSUME NEW S, NEW s \in Seq(S), NEW x \in S
    PROVE  /\ Range(Append(s, x)) = Range(s) \union {x}
           /\ Distinct(s) /\ x \notin Range(s) => Distinct(Append(s, x))
<1> DEFINE a == Append(s, x)
<1>1. /\ a \in Seq(S) /\ Len(a) = Len(s) + 1 /\ Len(s) \in Nat
      /\ \A i \in 1..Len(s) : a[i] = s[i]
      /\ a[Len(s) + 1] = x
      /\ DOMAIN a = 1..Len(a) /\ DOMAIN s = 1..Len(s)
  BY AppendProperties, LenProperties
<1> HIDE DEF a
<1>2. \A i \in 1..Len(a) : i \in 1..Len(s) \/ i = Len(s) + 1
  BY <1>1
<1>3. \A i \in 1..Len(s) : i \in 1..Len(a)
  BY <1>1
<1>4. Len(s) + 1 \in 1..Len(a)
  BY <1>1
<1>5. Range(a) = Range(s) \union {x}
  BY <1>1, <1>2, <1>3, <1>4 DEF Range
<1>6. ASSUME Distinct(s), x \notin Range(s)
      PROVE  Distinct(a)
  <2>1. \A i \in 1..Len(s) : s[i] # x
    BY <1>1, <1>6 DEF Range
  <2> QED
    BY <1>1, <1>2, <1>6, <2>1 DEF Distinct
<1> QED
  BY <1>5, <1>6 DEF a

LEMMA RangeOfTail ==
    ASSUME NEW S, NEW s \in Seq(S), s # <<>>
    PROVE  /\ Head(s) \in S /\ Tail(s) \in Seq(S)
           /\ Range(s) = Range(Tail(s)) \union {Head(s)}
           /\ Distinct(s) => Distinct(Tail(s)) /\ Head(s) \notin Range(Tail(s))
<1> DEFINE t == Tail(s)
<1>1. /\ Head(s) \in S /\ t \in Seq(S) /\ Len(t) = Len(s) - 1
      /\ \A i \in 1..Len(t) : t[i] = s[i + 1]
      /\ Len(s) \in Nat /\ Len(t) \in Nat
      /\ DOMAIN t = 1..Len(t) /\ DOMAIN s = 1..Len(s)
  BY HeadTailProperties, LenProperties
<1>2. Head(s) = s[1]
  OBVIOUS
<1> HIDE DEF t
<1>3. \A i \in 1..Len(s) : i = 1 \/ i - 1 \in 1..Len(t)
  BY <1>1
<1>4. \A i \in 1..Len(t) : i + 1 \in 1..Len(s) /\ i + 1 # 1
  BY <1>1
<1>5. 1 \in 1..Len(s)
  BY <1>1
<1>6. Range(s) = Range(t) \union {s[1]}
  <2>1. ASSUME NEW i \in 1..Len(s), i # 1
        PROVE  s[i] \in Range(t)
    <3>1. i - 1 \in 1..Len(t) /\ s[(i - 1) + 1] = s[i]
      BY <1>1, <1>3, <2>1
    <3> QED
      BY <1>1, <3>1 DEF Range
  <2>2. ASSUME NEW i \in 1..Len(t)
        PROVE  t[i] \in Range(s)
    BY <1>1, <1>4 DEF Range
  <2> QED
    BY <1>1, <1>5, <2>1, <2>2 DEF Range
<1>7. ASSUME Distinct(s)
      PROVE  Distinct(t) /\ s[1] \notin Range(t)
  <2>1. s[1] \notin Range(t)
    BY <1>1, <1>4, <1>5, <1>7 DEF Distinct, Range
  <2>2. ASSUME NEW i \in 1..Len(t), NEW j \in 1..Len(t), t[i] = t[j]
        PROVE  i = j
    <3>1. i + 1 = j + 1
      BY <1>1, <1>4, <1>7, <2>2 DEF Distinct
    <3> QED
      BY <3>1
  <2> QED
    BY <2>1, <2>2 DEF Distinct
<1> QED
  BY <1>1, <1>2, <1>6, <1>7 DEF t

-----------------------------------------------------------------------------
Busy == {c \in Consumers : wpc[c] = "busy"}
Awake == {c \in Consumers : wpc[c] \notin {"waiting", "exited"}}

(* A request is in one place: in the ring once, or handed out once. *)
OnePlace ==
    /\ Range(Contents(queue_)) \subseteq sent
    /\ Distinct(Contents(queue_))
    /\ Range(delivered) \subseteq sent
    /\ Range(Contents(queue_)) \intersect Range(delivered) = {}
    /\ IsFiniteSet(Range(delivered))
    /\ Cardinality(Range(delivered)) = Len(delivered)

(* The invariant of RequestQueue. *)
RQInv == RQTypeOK /\ OnePlace /\ NoLostWakeup /\ DrainedBeforeExit

(* Every request handed out is in a worker's hands or was answered. *)
Accounted ==
    /\ responses \in Nat
    /\ drained \in Nat
    /\ Len(delivered) = drained + responses + Cardinality(Busy)

MainTypeOK ==
    /\ program \in {"server", "stress"}
    /\ main \in IF program = "server" THEN {"event loop"}
                ELSE {"joining", "draining", "waiting", "woken", "done"}
    /\ main = "done" => drained = Cardinality(Items)

PInv == RQInv /\ Accounted /\ MainTypeOK

-----------------------------------------------------------------------------
Slotted == Items \union {Default}

LEMMA RingOfItems == 
    RQTypeOK <=> /\ IsRing(queue_, Slotted)
                 /\ shuttingDown_ \in BOOLEAN
                 /\ wpc \in [Consumers -> {"enter", "waiting", "woken", "busy", "exited"}]
                 /\ accepted \subseteq sent
                 /\ sent \subseteq Items
                 /\ delivered \in Seq(Items)
BY DEF RQTypeOK, IsRing, Slotted

(* Sets of workers can be counted. *)
LEMMA CountedWorkers ==
    /\ IsFiniteSet(Busy) /\ Cardinality(Busy) \in Nat
    /\ IsFiniteSet(Awake) /\ Cardinality(Awake) \in Nat
    /\ IsFiniteSet(Awake') /\ Cardinality(Awake') \in Nat
    /\ IsFiniteSet(Busy') /\ Cardinality(Busy') \in Nat
<1>1. /\ Busy \subseteq Consumers /\ Awake \subseteq Consumers
      /\ Busy' \subseteq Consumers /\ Awake' \subseteq Consumers
  BY DEF Busy, Awake
<1> QED
  BY <1>1, ConsumersAssumption, FS_Subset, FS_CardinalityType

LEMMA InitPInv == PInit => PInv
<1> SUFFICES ASSUME PInit
             PROVE  PInv
  OBVIOUS
<1>1. queue_ = EmptyRing /\ wpc = [c \in Consumers |-> "enter"] /\ sent = {}
      /\ accepted = {} /\ delivered = <<>> /\ shuttingDown_ = FALSE
  BY DEF PInit, RQInit
<1>2. /\ IsRing(queue_, Slotted) /\ Contents(queue_) = <<>>
  BY <1>1, EmptyRingIsRing DEF Slotted
<1>3. RQTypeOK
  <2>1. /\ wpc \in [Consumers -> {"enter", "waiting", "woken", "busy", "exited"}]
        /\ accepted \subseteq sent /\ sent \subseteq Items
    BY <1>1
  <2>2. delivered \in Seq(Items)
    BY <1>1, EmptySeq
  <2>3. shuttingDown_ \in BOOLEAN
    BY <1>1
  <2> QED
    BY <1>2, <2>1, <2>2, <2>3, RingOfItems
<1>4. OnePlace
  <2>1. Range(<<>>) = {}
    BY DEF Range
  <2> QED
    BY <1>1, <1>2, <2>1, FS_EmptySet DEF OnePlace, Distinct
<1>5. NoLostWakeup /\ DrainedBeforeExit
  BY <1>1 DEF NoLostWakeup, DrainedBeforeExit, Waiting
<1>6. Accounted
  <2>1. Busy = {}
    BY <1>1 DEF Busy
  <2>2. Len(delivered) = 0 /\ Cardinality(Busy) = 0 /\ responses = 0 /\ drained = 0
    BY <1>1, <2>1, FS_EmptySet DEF PInit
  <2> QED
    BY <2>2 DEF Accounted
<1>7. MainTypeOK
  BY DEF PInit, MainTypeOK
<1> QED
  BY <1>3, <1>4, <1>5, <1>6, <1>7 DEF PInv, RQInv

WorkerPlaces == {"enter", "waiting", "woken", "busy", "exited"}

(* pthread_cond_signal: if workers still sleep afterwards, one more than   *)
(* before is awake.                                                        *)
LEMMA SignalWakesOne ==
    ASSUME wpc \in [Consumers -> WorkerPlaces], Signal
    PROVE  /\ wpc' \in [Consumers -> WorkerPlaces]
           /\ Busy' = Busy
           /\ \A c \in Consumers : wpc'[c] = "exited" <=> wpc[c] = "exited"
           /\ Waiting' # {} => /\ Waiting # {}
                               /\ Cardinality(Awake') = Cardinality(Awake) + 1
<1>1. CASE Waiting = {}
  <2>1. wpc' = wpc
    BY <1>1 DEF Signal
  <2> QED
    BY <1>1, <2>1 DEF Busy, Waiting
<1>2. CASE Waiting # {}
  <2>1. PICK c \in Waiting : wpc' = [wpc EXCEPT ![c] = "woken"]
    BY <1>2 DEF Signal
  <2>2. c \in Consumers /\ wpc[c] = "waiting"
    BY <2>1 DEF Waiting
  <2>3. wpc' \in [Consumers -> WorkerPlaces]
    BY <2>1, <2>2 DEF WorkerPlaces
  <2>4. /\ Busy' = Busy
        /\ \A d \in Consumers : wpc'[d] = "exited" <=> wpc[d] = "exited"
    BY <2>1, <2>2 DEF Busy
  <2>5. Awake' = Awake \union {c} /\ c \notin Awake
    BY <2>1, <2>2 DEF Awake
  <2>6. Cardinality(Awake') = Cardinality(Awake) + 1
    BY <2>5, CountedWorkers, FS_AddElement
  <2> QED
    BY <1>2, <2>3, <2>4, <2>6
<1> QED
  BY <1>1, <1>2

(* The ring after push(): the request is appended, or dropped when full. *)
LEMMA RingAfterPush ==
    ASSUME RQTypeOK, NEW x \in Items, queue_' = Pushed(queue_, x)
    PROVE  /\ IsRing(queue_', Slotted)
           /\ Size(queue_) \in Nat /\ Size(queue_') \in Nat
           /\ Size(queue_') <= Size(queue_) + 1
           /\ \/ Contents(queue_') = Contents(queue_)
              \/ /\ Contents(queue_') = Append(Contents(queue_), x)
                 /\ Len(Contents(queue_)) < max
<1>1. IsRing(queue_, Slotted) /\ x \in Slotted
  BY RingOfItems DEF Slotted
<1>2. Size(queue_) \in Nat
  BY <1>1, ContentsIsSeq, CapacityAssumption
<1>3. CASE isFull(queue_)
  <2>1. queue_' = queue_
    BY <1>3, PushOnFull
  <2> QED
    BY <1>1, <1>2, <2>1
<1>4. CASE ~isFull(queue_)
  <2>1. /\ IsRing(Pushed(queue_, x), Slotted)
        /\ Contents(Pushed(queue_, x)) = Append(Contents(queue_), x)
        /\ Len(Contents(queue_)) < max
        /\ Size(Pushed(queue_, x)) = Size(queue_) + 1
    BY <1>1, <1>4, PushAppends
  <2> QED
    BY <1>2, <2>1
<1> QED
  BY <1>3, <1>4

(* push() *)
LEMMA PushKeepsInv ==
    ASSUME RQInv, NEW x \in Items, Push(x)
    PROVE  RQInv' /\ Busy' = Busy /\ delivered' = delivered
<1>1. /\ x \notin sent /\ sent' = sent \union {x}
      /\ UNCHANGED <<shuttingDown_, delivered>>
  BY DEF Push
<1>2. /\ IsRing(queue_, Slotted) /\ wpc \in [Consumers -> WorkerPlaces]
      /\ sent \subseteq Items /\ delivered \in Seq(Items) /\ shuttingDown_ \in BOOLEAN
      /\ accepted \subseteq sent
  BY RingOfItems DEF RQInv, WorkerPlaces
<1>3. CASE shuttingDown_ /\ UNCHANGED <<queue_, wpc, accepted>>
  <2>1. RQTypeOK'
    BY <1>1, <1>3 DEF RQInv, RQTypeOK
  <2>2. OnePlace'
    BY <1>1, <1>3 DEF RQInv, OnePlace
  <2>3. NoLostWakeup' /\ DrainedBeforeExit'
    BY <1>1, <1>3 DEF RQInv, NoLostWakeup, DrainedBeforeExit, Waiting
  <2>4. Busy' = Busy
    BY <1>3 DEF Busy
  <2> QED
    BY <1>1, <2>1, <2>2, <2>3, <2>4 DEF RQInv
<1>4. CASE /\ ~shuttingDown_ /\ queue_' = Pushed(queue_, x) /\ Signal
           /\ accepted' = accepted \union {x}
  <2>1. /\ IsRing(queue_', Slotted)
        /\ Size(queue_) \in Nat /\ Size(queue_') \in Nat
        /\ Size(queue_') <= Size(queue_) + 1
        /\ \/ Contents(queue_') = Contents(queue_)
           \/ Contents(queue_') = Append(Contents(queue_), x)
    BY <1>4, RingAfterPush DEF RQInv
  <2>2. RQTypeOK'
    <3>1. /\ wpc' \in [Consumers -> {"enter", "waiting", "woken", "busy", "exited"}]
          /\ accepted' \subseteq sent' /\ sent' \subseteq Items
      BY <1>1, <1>2, <1>4, SignalWakesOne DEF WorkerPlaces
    <3>2. shuttingDown_' \in BOOLEAN /\ delivered' \in Seq(Items)
      BY <1>1, <1>2
    <3> QED
      BY <2>1, <3>1, <3>2 DEF RQTypeOK, IsRing, Slotted
  <2>3. OnePlace'
    <3>1. CASE Contents(queue_') = Contents(queue_)
      BY <1>1, <3>1 DEF RQInv, OnePlace
    <3>2. CASE Contents(queue_') = Append(Contents(queue_), x)
      <4>1. Contents(queue_) \in Seq(Slotted) /\ x \in Slotted
        BY <1>2, ContentsIsSeq DEF Slotted
      <4>2. /\ x \notin Range(Contents(queue_)) /\ x \notin Range(delivered)
            /\ Distinct(Contents(queue_))
        BY <1>1 DEF RQInv, OnePlace
      <4>3. /\ Range(Contents(queue_')) = Range(Contents(queue_)) \union {x}
            /\ Distinct(Contents(queue_'))
        BY <3>2, <4>1, <4>2, RangeOfAppend
      <4> QED
        BY <1>1, <4>2, <4>3 DEF RQInv, OnePlace
    <3> QED
      BY <2>1, <3>1, <3>2
  <2>4. NoLostWakeup'
    <3> SUFFICES ASSUME Waiting' # {}
                 PROVE  Size(queue_') <= Cardinality(Awake')
      BY DEF NoLostWakeup, Awake
    <3>1. Waiting # {} /\ Cardinality(Awake') = Cardinality(Awake) + 1
      BY <1>2, <1>4, SignalWakesOne
    <3>2. Size(queue_) <= Cardinality(Awake)
      BY <3>1 DEF RQInv, NoLostWakeup, Awake
    <3> QED
      BY <2>1, <3>1, <3>2, CountedWorkers
  <2>5. DrainedBeforeExit'
    BY <1>2, <1>4, SignalWakesOne DEF RQInv, DrainedBeforeExit
  <2>6. Busy' = Busy
    BY <1>2, <1>4, SignalWakesOne
  <2> QED
    BY <1>1, <2>2, <2>3, <2>4, <2>5, <2>6 DEF RQInv
<1> QED
  BY <1>3, <1>4 DEF Push

(* A worker's move that leaves the queue and the deliveries alone. *)
LEMMA MoveKeepsRQInv ==
    ASSUME RQInv, UNCHANGED <<queue_, sent, accepted, delivered>>,
           wpc' \in [Consumers -> WorkerPlaces],
           shuttingDown_' \in BOOLEAN, shuttingDown_ => shuttingDown_',
           NoLostWakeup', DrainedBeforeExit'
    PROVE  RQInv'
<1>1. RQTypeOK'
  BY DEF RQInv, RQTypeOK, WorkerPlaces
<1>2. OnePlace'
  BY DEF RQInv, OnePlace
<1> QED
  BY <1>1, <1>2 DEF RQInv

(* pop() hands a request out to a worker that was not busy, or hands out   *)
(* nothing.                                                                *)
LEMMA PopKeepsInv ==
    ASSUME RQInv, NEW c \in Consumers, Pop(c)
    PROVE  /\ RQInv'
           /\ Len(delivered') - Cardinality(Busy') = Len(delivered) - Cardinality(Busy)
<1>1. /\ wpc[c] \in {"enter", "woken"}
      /\ UNCHANGED <<shuttingDown_, sent, accepted>>
  BY DEF Pop
<1>2. /\ IsRing(queue_, Slotted) /\ wpc \in [Consumers -> WorkerPlaces]
      /\ sent \subseteq Items /\ delivered \in Seq(Items) /\ shuttingDown_ \in BOOLEAN
  BY RingOfItems DEF RQInv, WorkerPlaces
<1>3. ASSUME NEW place \in {"waiting", "exited"}, isEmpty(queue_),
             place = "exited" => shuttingDown_,
             wpc' = [wpc EXCEPT ![c] = place], UNCHANGED <<queue_, delivered>>
      PROVE  RQInv' /\ Busy' = Busy
  <2>1. wpc' \in [Consumers -> WorkerPlaces]
    BY <1>2, <1>3 DEF WorkerPlaces
  <2>2. NoLostWakeup'
    <3>1. Size(queue_') = 0
      BY <1>2, <1>3, ContentsIsSeq
    <3>2. Cardinality(Awake') \in Nat
      BY CountedWorkers
    <3> QED
      BY <3>1, <3>2 DEF NoLostWakeup, Awake
  <2>3. DrainedBeforeExit'
    BY <1>1, <1>2, <1>3 DEF RQInv, DrainedBeforeExit, isEmpty
  <2>4. Busy' = Busy
    BY <1>1, <1>2, <1>3 DEF Busy
  <2> QED
    BY <1>1, <1>2, <1>3, <2>1, <2>2, <2>3, <2>4, MoveKeepsRQInv
<1>4. CASE /\ ~isEmpty(queue_)
           /\ delivered' = Append(delivered, front(queue_))
           /\ queue_' = Popped(queue_)
           /\ wpc' = [wpc EXCEPT ![c] = "busy"]
  <2> DEFINE w == Contents(queue_)
             x == front(queue_)
  <2>1. w \in Seq(Slotted) /\ w # <<>> /\ x = Head(w) /\ Size(queue_) \in Nat
    BY <1>2, <1>4, ContentsIsSeq, FrontIsHead, CapacityAssumption
  <2>2. /\ IsRing(queue_', Slotted) /\ Contents(queue_') = Tail(w)
        /\ Size(queue_') = Size(queue_) - 1
    BY <1>2, <1>4, PopIsTail
  <2> HIDE DEF w, x
  <2>3. OnePlace
    BY DEF RQInv
  <2>4. /\ Distinct(w) /\ Range(w) \subseteq sent
        /\ Range(w) \intersect Range(delivered) = {}
    BY <2>3 DEF OnePlace, w
  <2>5. /\ Range(w) = Range(Tail(w)) \union {x}
        /\ Distinct(Tail(w)) /\ x \notin Range(Tail(w))
    BY <2>1, <2>4, RangeOfTail
  <2>6. x \in Items /\ x \in sent /\ x \notin Range(delivered)
    BY <1>2, <2>4, <2>5
  <2>7. /\ delivered' = Append(delivered, x)
        /\ Range(delivered') = Range(delivered) \union {x}
        /\ delivered' \in Seq(Items) /\ Len(delivered') = Len(delivered) + 1
        /\ Len(delivered) \in Nat
    BY <1>2, <1>4, <2>6, RangeOfAppend, AppendProperties, LenProperties DEF x
  <2>8. OnePlace'
    <3>1. /\ IsFiniteSet(Range(delivered'))
          /\ Cardinality(Range(delivered')) = Len(delivered')
      <4>1. /\ IsFiniteSet(Range(delivered))
            /\ Cardinality(Range(delivered)) = Len(delivered)
        BY <2>3 DEF OnePlace
      <4>2. /\ IsFiniteSet(Range(delivered) \union {x})
            /\ Cardinality(Range(delivered) \union {x}) =
                   Cardinality(Range(delivered)) + 1
        BY <2>6, <4>1, FS_AddElement
      <4> QED
        BY <2>7, <4>1, <4>2
    <3>2. /\ Range(Contents(queue_')) \subseteq sent'
          /\ Distinct(Contents(queue_'))
          /\ Range(delivered') \subseteq sent'
          /\ Range(Contents(queue_')) \intersect Range(delivered') = {}
      BY <1>1, <2>2, <2>3, <2>4, <2>5, <2>6, <2>7 DEF OnePlace
    <3> QED
      BY <3>1, <3>2 DEF OnePlace
  <2>9. wpc' \in [Consumers -> WorkerPlaces]
    BY <1>2, <1>4 DEF WorkerPlaces
  <2>10. RQTypeOK'
    <3>1. shuttingDown_' \in BOOLEAN
      BY <1>1, <1>2
    <3>2. accepted' \subseteq sent' /\ sent' \subseteq Items
      BY <1>1 DEF RQInv, RQTypeOK
    <3> QED
      BY <2>2, <2>7, <2>9, <3>1, <3>2 DEF RQTypeOK, IsRing, Slotted, WorkerPlaces
  <2>11. NoLostWakeup'
    <3>1. Waiting' = Waiting /\ Awake' = Awake
      BY <1>1, <1>2, <1>4 DEF Waiting, Awake
    <3>2. Waiting # {} => Size(queue_) <= Cardinality(Awake)
      BY DEF RQInv, NoLostWakeup, Awake
    <3>3. Waiting' # {} => Size(queue_') <= Cardinality(Awake')
      BY <2>1, <2>2, <3>1, <3>2, CountedWorkers
    <3> QED
      BY <3>3 DEF NoLostWakeup, Awake
  <2>12. DrainedBeforeExit'
    BY <1>1, <1>2, <1>4 DEF RQInv, DrainedBeforeExit
  <2>13. Busy' = Busy \union {c} /\ c \notin Busy
    BY <1>1, <1>2, <1>4 DEF Busy
  <2>14. Cardinality(Busy') = Cardinality(Busy) + 1 /\ Cardinality(Busy) \in Nat
    BY <2>13, CountedWorkers, FS_AddElement
  <2>15. Len(delivered') - Cardinality(Busy') = Len(delivered) - Cardinality(Busy)
    BY <2>7, <2>14
  <2> QED
    BY <2>8, <2>10, <2>11, <2>12, <2>15 DEF RQInv
<1>5. CASE /\ isEmpty(queue_) /\ ~shuttingDown_
           /\ wpc' = [wpc EXCEPT ![c] = "waiting"] /\ UNCHANGED <<queue_, delivered>>
  BY <1>3, <1>5
<1>6. CASE /\ isEmpty(queue_) /\ shuttingDown_
           /\ wpc' = [wpc EXCEPT ![c] = "exited"] /\ UNCHANGED <<queue_, delivered>>
  BY <1>3, <1>6
<1> QED
  BY <1>4, <1>5, <1>6 DEF Pop

(* The worker's next turn, and a wakeup nobody asked for. *)
LEMMA WorkerMoveKeepsInv ==
    ASSUME RQInv, NEW c \in Consumers, Finish(c) \/ SpuriousWakeup(c)
    PROVE  /\ RQInv' /\ delivered' = delivered
           /\ Finish(c) => Cardinality(Busy') = Cardinality(Busy) - 1
           /\ SpuriousWakeup(c) => Busy' = Busy
<1>1. UNCHANGED <<queue_, shuttingDown_, sent, accepted, delivered>>
  BY DEF Finish, SpuriousWakeup, queueVars
<1>2. PICK place \in {"enter", "woken"} :
           /\ wpc' = [wpc EXCEPT ![c] = place]
           /\ wpc[c] \in {"busy", "waiting"}
  BY DEF Finish, SpuriousWakeup
<1>3. /\ wpc \in [Consumers -> WorkerPlaces] /\ shuttingDown_ \in BOOLEAN
      /\ IsRing(queue_, Slotted)
  BY RingOfItems DEF RQInv, WorkerPlaces
<1>4. wpc' \in [Consumers -> WorkerPlaces]
  BY <1>2, <1>3 DEF WorkerPlaces
<1>5. NoLostWakeup'
  <2>1. Awake \subseteq Awake' /\ Waiting' \subseteq Waiting
    BY <1>2, <1>3 DEF Awake, Waiting
  <2>2. Cardinality(Awake) <= Cardinality(Awake')
    BY <2>1, CountedWorkers, FS_Subset
  <2>3. Size(queue_) \in Nat
    BY <1>3, ContentsIsSeq, CapacityAssumption
  <2>4. Waiting # {} => Size(queue_) <= Cardinality(Awake)
    BY DEF RQInv, NoLostWakeup, Awake
  <2>5. Waiting' # {} => Size(queue_') <= Cardinality(Awake')
    BY <1>1, <2>1, <2>2, <2>3, <2>4, CountedWorkers
  <2> QED
    BY <2>5 DEF NoLostWakeup, Awake
<1>6. DrainedBeforeExit'
  BY <1>1, <1>2, <1>3 DEF RQInv, DrainedBeforeExit
<1>7. RQInv'
  BY <1>1, <1>3, <1>4, <1>5, <1>6, MoveKeepsRQInv
<1>8. ASSUME Finish(c)
      PROVE  Cardinality(Busy') = Cardinality(Busy) - 1
  <2>1. Busy' = Busy \ {c} /\ c \in Busy
    BY <1>3, <1>8 DEF Finish, Busy
  <2> QED
    BY <2>1, CountedWorkers, FS_RemoveElement
<1>9. ASSUME SpuriousWakeup(c)
      PROVE  Busy' = Busy
  BY <1>3, <1>9 DEF SpuriousWakeup, Busy
<1> QED
  BY <1>1, <1>7, <1>8, <1>9

(* shutdown() and notifyAll(): nobody sleeps afterwards. *)
LEMMA BroadcastKeepsInv ==
    ASSUME RQInv, Shutdown \/ NotifyAll
    PROVE  RQInv' /\ delivered' = delivered /\ Busy' = Busy
<1>1. /\ UNCHANGED <<queue_, sent, accepted, delivered>> /\ Broadcast
      /\ shuttingDown_' \in {TRUE, shuttingDown_}
  BY DEF Shutdown, NotifyAll, queueVars
<1>2. wpc \in [Consumers -> WorkerPlaces] /\ shuttingDown_ \in BOOLEAN
  BY RingOfItems DEF RQInv, WorkerPlaces
<1>3. /\ wpc' \in [Consumers -> WorkerPlaces]
      /\ \A c \in Consumers : wpc'[c] = IF wpc[c] = "waiting" THEN "woken" ELSE wpc[c]
  BY <1>1, <1>2 DEF Broadcast, WorkerPlaces
<1>4. Waiting' = {} /\ Busy' = Busy
  BY <1>3 DEF Waiting, Busy
<1>5. NoLostWakeup'
  BY <1>4 DEF NoLostWakeup
<1>6. shuttingDown_' \in BOOLEAN /\ (shuttingDown_ => shuttingDown_')
  BY <1>1, <1>2
<1>7. DrainedBeforeExit'
  <2>1. DrainedBeforeExit
    BY DEF RQInv
  <2> QED
    BY <1>1, <1>3, <1>6, <2>1 DEF DrainedBeforeExit, isEmpty
<1> QED
  BY <1>1, <1>3, <1>4, <1>5, <1>6, <1>7, MoveKeepsRQInv

-----------------------------------------------------------------------------
(* Steps that leave mainVars alone. *)
LEMMA QueueStepKeepsPInv ==
    ASSUME PInv, RQInv', UNCHANGED mainVars,
           Len(delivered') - Cardinality(Busy') = Len(delivered) - Cardinality(Busy)
    PROVE  PInv'
<1>1. UNCHANGED <<program, responses, main, drained>>
  BY DEF mainVars
<1>2. /\ Len(delivered) \in Nat /\ Len(delivered') \in Nat
      /\ Cardinality(Busy) \in Nat /\ Cardinality(Busy') \in Nat
  <2>1. delivered \in Seq(Items) /\ delivered' \in Seq(Items)
    BY DEF PInv, RQInv, RQTypeOK
  <2> QED
    BY <2>1, CountedWorkers, LenProperties
<1>3. Accounted'
  BY <1>1, <1>2 DEF PInv, Accounted
<1>4. MainTypeOK'
  BY <1>1 DEF PInv, MainTypeOK
<1> QED
  BY <1>3, <1>4 DEF PInv

(* Steps of main, which leave the request queue alone. *)
LEMMA MainStepKeepsPInv ==
    ASSUME PInv, UNCHANGED rqVars, program' = program, MainTypeOK',
           responses' \in Nat, drained' \in Nat,
           drained' + responses' = drained + responses
    PROVE  PInv'
<1>1. UNCHANGED <<queue_, shuttingDown_, wpc, sent, accepted, delivered>>
  BY DEF rqVars, queueVars
<1>2. RQInv'
  <2>1. RQTypeOK' /\ OnePlace'
    BY <1>1 DEF PInv, RQInv, RQTypeOK, OnePlace
  <2>2. NoLostWakeup' /\ DrainedBeforeExit'
    BY <1>1 DEF PInv, RQInv, NoLostWakeup, DrainedBeforeExit, Waiting
  <2> QED
    BY <2>1, <2>2 DEF RQInv
<1>3. Busy' = Busy
  BY <1>1 DEF Busy
<1>4. Accounted'
  BY <1>1, <1>3, CountedWorkers DEF PInv, Accounted
<1> QED
  BY <1>2, <1>4 DEF PInv

(* The worker's answer: one hand fewer is full, one response more is       *)
(* there.                                                                  *)
LEMMA RespondKeepsPInv ==
    ASSUME PInv, NEW c \in Consumers, Respond(c)
    PROVE  PInv'
<1>1. Finish(c) /\ PushResponse
  BY DEF Respond
<1>2. RQInv' /\ delivered' = delivered /\ Cardinality(Busy') = Cardinality(Busy) - 1
  BY <1>1, WorkerMoveKeepsInv DEF PInv
<1>3. Accounted'
  BY <1>1, <1>2, CountedWorkers DEF PushResponse, PInv, Accounted
<1>4. MainTypeOK'
  <2>1. MainTypeOK /\ UNCHANGED <<program, drained>>
        /\ main' = IF main = "waiting" THEN "woken" ELSE main
    BY <1>1 DEF PushResponse, PInv
  <2> QED
    BY <2>1 DEF MainTypeOK
<1> QED
  BY <1>2, <1>3, <1>4 DEF PInv

(* Every step keeps the invariant. *)
LEMMA NextPInv == PInv /\ [PNext]_pVars => PInv'
<1> SUFFICES ASSUME PInv, [PNext]_pVars
             PROVE  PInv'
  OBVIOUS
<1>0. RQInv /\ Accounted /\ MainTypeOK
  BY DEF PInv
<1>1. ASSUME NEW x \in Items, Submit(x)
      PROVE  PInv'
  <2>1. RQInv' /\ Busy' = Busy /\ delivered' = delivered /\ UNCHANGED mainVars
    BY <1>0, <1>1, PushKeepsInv DEF Submit
  <2> QED
    BY <2>1, QueueStepKeepsPInv
<1>2. ASSUME NEW c \in Consumers, Take(c)
      PROVE  PInv'
  BY <1>0, <1>2, PopKeepsInv, QueueStepKeepsPInv DEF Take
<1>3. ASSUME NEW c \in Consumers, Respond(c)
      PROVE  PInv'
  BY <1>3, RespondKeepsPInv
<1>4. ASSUME NEW c \in Consumers, SpuriousWakeup(c), UNCHANGED mainVars
      PROVE  PInv'
  <2>1. RQInv' /\ Busy' = Busy /\ delivered' = delivered
    BY <1>0, <1>4, WorkerMoveKeepsInv
  <2> QED
    BY <1>4, <2>1, QueueStepKeepsPInv
<1>5. CASE ProducersJoined
  <2>1. /\ UNCHANGED rqVars /\ UNCHANGED <<program, responses, drained>>
        /\ main = "joining" /\ main' = "draining"
    BY <1>5 DEF ProducersJoined
  <2>2. MainTypeOK'
    BY <1>0, <2>1 DEF MainTypeOK
  <2> QED
    BY <1>0, <2>1, <2>2, MainStepKeepsPInv DEF Accounted
<1>6. CASE Drain
  <2>0. /\ UNCHANGED rqVars /\ program' = program /\ main \in {"draining", "woken"}
        /\ responses \in Nat /\ drained \in Nat
    BY <1>0, <1>6 DEF Drain, Accounted
  <2>1. CASE main' = "waiting" /\ UNCHANGED <<responses, drained>>
    <3>1. MainTypeOK'
      BY <1>0, <2>0, <2>1 DEF MainTypeOK
    <3> QED
      BY <2>0, <2>1, <3>1, MainStepKeepsPInv
  <2>2. CASE /\ responses > 0 /\ responses' = responses - 1 /\ drained' = drained + 1
             /\ main' = IF drained' = Cardinality(Items) THEN "done" ELSE "draining"
    <3>1. MainTypeOK'
      BY <1>0, <2>0, <2>2 DEF MainTypeOK
    <3>2. /\ responses' \in Nat /\ drained' \in Nat
          /\ drained' + responses' = drained + responses
      BY <2>0, <2>2
    <3> QED
      BY <2>0, <3>1, <3>2, MainStepKeepsPInv
  <2> QED
    BY <1>6, <2>1, <2>2 DEF Drain
<1>7. CASE MainWakesUnsignalled
  <2>1. /\ UNCHANGED rqVars /\ UNCHANGED <<program, responses, drained>>
        /\ main = "waiting" /\ main' = "woken"
    BY <1>7 DEF MainWakesUnsignalled
  <2>2. MainTypeOK'
    BY <1>0, <2>1 DEF MainTypeOK
  <2> QED
    BY <1>0, <2>1, <2>2, MainStepKeepsPInv DEF Accounted
<1>8. CASE DestroyPool \/ (NotifyAll /\ UNCHANGED mainVars)
  <2>1. (Shutdown \/ NotifyAll) /\ UNCHANGED mainVars
    BY <1>8 DEF DestroyPool
  <2>2. RQInv' /\ delivered' = delivered /\ Busy' = Busy
    BY <1>0, <2>1, BroadcastKeepsInv
  <2> QED
    BY <2>1, <2>2, QueueStepKeepsPInv
<1>9. CASE UNCHANGED pVars
  <2>1. UNCHANGED rqVars /\ UNCHANGED <<program, responses, main, drained>>
    BY <1>9 DEF pVars, mainVars
  <2>2. MainTypeOK'
    BY <1>0, <2>1 DEF MainTypeOK
  <2> QED
    BY <1>0, <2>1, <2>2, MainStepKeepsPInv DEF Accounted
<1> QED
  BY <1>1, <1>2, <1>3, <1>4, <1>5, <1>6, <1>7, <1>8, <1>9 DEF PNext

(* The inductive invariant holds in every reachable state. *)
THEOREM PInvHolds == PSpec => []PInv
BY InitPInv, NextPInv, PTL DEF PSpec

-----------------------------------------------------------------------------
(* No request is handed out twice, so that there are at most as many       *)
(* deliveries as requests.                                                 *)
LEMMA DeliveriesAreBounded ==
    ASSUME PInv
    PROVE  /\ Len(delivered) <= Cardinality(Items)
           /\ Len(delivered) \in Nat /\ Cardinality(Items) \in Nat
           /\ Range(delivered) \subseteq Items
           /\ Len(delivered) = Cardinality(Items) => Range(delivered) = Items
<1>1. Range(delivered) \subseteq Items /\ delivered \in Seq(Items)
      /\ Cardinality(Range(delivered)) = Len(delivered)
  BY DEF PInv, RQInv, OnePlace, RQTypeOK
<1>2. /\ Cardinality(Range(delivered)) <= Cardinality(Items)
      /\ Cardinality(Items) \in Nat
      /\ Cardinality(Range(delivered)) = Cardinality(Items) => Range(delivered) = Items
  BY <1>1, ItemsAssumption, FS_Subset, FS_CardinalityType
<1> QED
  BY <1>1, <1>2, LenProperties

(* The pipeline keeps its types: the ring's indexes stay in the array and  *)
(* are reset together, and no request is answered that was not sent.       *)
THEOREM PipelineTypes == PSpec => []PTypeOK
<1>1. PInv => PTypeOK
  <2> SUFFICES ASSUME PInv
               PROVE  PTypeOK
    OBVIOUS
  <2>1. Len(delivered) = drained + responses + Cardinality(Busy)
        /\ drained \in Nat /\ responses \in Nat
    BY DEF PInv, Accounted
  <2>2. responses \in 0..Cardinality(Items) /\ drained \in 0..Cardinality(Items)
    BY <2>1, DeliveriesAreBounded, CountedWorkers
  <2> QED
    BY <2>2 DEF PInv, RQInv, MainTypeOK, PTypeOK
<1> QED
  BY <1>1, PInvHolds, PTL

(* push() signals one waiter whatever the queue held before, and that is   *)
(* enough: while a worker sleeps, one is awake for every queued request.   *)
THEOREM NoWakeupIsLost == PSpec => []NoLostWakeup
<1>1. PInv => NoLostWakeup
  BY DEF PInv, RQInv
<1> QED
  BY <1>1, PInvHolds, PTL

(* A worker leaves its loop only when the queue is shut down and drained,  *)
(* and then no request is ever left behind.                                *)
THEOREM WorkersDrainBeforeExit == PSpec => []DrainedBeforeExit
<1>1. PInv => DrainedBeforeExit
  BY DEF PInv, RQInv
<1> QED
  BY <1>1, PInvHolds, PTL

(* One response taken per request is a sound way for stress_test to wait:  *)
(* after the last one nothing is queued or in a worker's hands.            *)
THEOREM StressTestCountsRight == PSpec => []DrainedMeansProcessed
<1>1. PInv => DrainedMeansProcessed
  <2> SUFFICES ASSUME PInv, main = "done"
               PROVE  /\ Range(delivered) = Items
                      /\ isEmpty(queue_)
                      /\ \A c \in Consumers : wpc[c] # "busy"
    BY DEF DrainedMeansProcessed
  <2>1. /\ Len(delivered) = drained + responses + Cardinality(Busy)
        /\ responses \in Nat /\ drained = Cardinality(Items)
    BY DEF PInv, Accounted, MainTypeOK
  <2>2. Len(delivered) = Cardinality(Items) /\ Cardinality(Busy) = 0
    BY <2>1, DeliveriesAreBounded, CountedWorkers
  <2>3. Range(delivered) = Items
    BY <2>2, DeliveriesAreBounded
  <2>4. Busy = {}
    BY <2>2, CountedWorkers, FS_EmptySet
  <2>5. isEmpty(queue_)
    <3> DEFINE w == Contents(queue_)
    <3>1. Range(w) = {}
      BY <2>3 DEF PInv, RQInv, OnePlace, RQTypeOK
    <3>2. IsRing(queue_, Slotted)
      BY RingOfItems DEF PInv, RQInv
    <3>3. w \in Seq(Slotted) /\ (isEmpty(queue_) <=> w = <<>>)
      BY <3>2, ContentsIsSeq
    <3> HIDE DEF w
    <3>4. w = <<>>
      <4>1. w # <<>> => Range(w) = Range(Tail(w)) \union {Head(w)}
        BY <3>3, RangeOfTail
      <4> QED
        BY <3>1, <4>1
    <3> QED
      BY <3>3, <3>4
  <2> QED
    BY <2>3, <2>4, <2>5 DEF Busy
<1> QED
  BY <1>1, PInvHolds, PTL

-----------------------------------------------------------------------------
(* Every step of the pipeline is a step of the closable bounded FIFO, or   *)
(* leaves it alone: a push on a full ring does.                            *)
LEMMA StepRefinesFifo == PInv /\ [PNext]_pVars => [Fifo!FifoNext]_(Fifo!fifoVars)
<1> SUFFICES ASSUME PInv, [PNext]_pVars
             PROVE  \/ Fifo!FifoNext
                    \/ UNCHANGED <<Contents(queue_), shuttingDown_, delivered>>
  BY DEF Fifo!fifoVars
<1>0. RQTypeOK /\ IsRing(queue_, Slotted)
  BY RingOfItems DEF PInv, RQInv
<1>1. ASSUME NEW x \in Items, Submit(x)
      PROVE  \/ Fifo!FifoNext
             \/ UNCHANGED <<Contents(queue_), shuttingDown_, delivered>>
  <2>1. Push(x)
    BY <1>1 DEF Submit
  <2>2. CASE UNCHANGED queue_
    BY <2>1, <2>2 DEF Push
  <2>3. CASE ~shuttingDown_ /\ queue_' = Pushed(queue_, x)
    <3>1. \/ Contents(queue_') = Contents(queue_)
          \/ /\ Contents(queue_') = Append(Contents(queue_), x)
             /\ Len(Contents(queue_)) < max
      BY <1>0, <2>3, RingAfterPush
    <3>2. UNCHANGED <<shuttingDown_, delivered>>
      BY <2>1 DEF Push
    <3>3. CASE Contents(queue_') = Contents(queue_)
      BY <3>2, <3>3
    <3>4. CASE /\ Contents(queue_') = Append(Contents(queue_), x)
               /\ Len(Contents(queue_)) < max
      BY <2>3, <3>2, <3>4 DEF Fifo!FifoNext, Fifo!Enqueue
    <3> QED
      BY <3>1, <3>3, <3>4
  <2> QED
    BY <2>1, <2>2, <2>3 DEF Push
<1>2. ASSUME NEW c \in Consumers, Take(c)
      PROVE  \/ Fifo!FifoNext
             \/ UNCHANGED <<Contents(queue_), shuttingDown_, delivered>>
  <2>1. Pop(c) /\ UNCHANGED shuttingDown_
    BY <1>2 DEF Take, Pop
  <2>2. CASE UNCHANGED <<queue_, delivered>>
    BY <2>1, <2>2
  <2>3. CASE /\ ~isEmpty(queue_) /\ queue_' = Popped(queue_)
             /\ delivered' = Append(delivered, front(queue_))
    <3>1. /\ Contents(queue_) # <<>>
          /\ front(queue_) = Head(Contents(queue_))
          /\ Contents(queue_') = Tail(Contents(queue_))
      BY <1>0, <2>3, ContentsIsSeq, FrontIsHead, PopIsTail
    <3> QED
      BY <2>1, <2>3, <3>1 DEF Fifo!FifoNext, Fifo!Dequeue
  <2> QED
    BY <2>1, <2>2, <2>3 DEF Pop
<1>3. CASE DestroyPool
  BY <1>3 DEF DestroyPool, Shutdown, Fifo!FifoNext, Fifo!Close
<1>4. ASSUME NEW c \in Consumers, Respond(c) \/ SpuriousWakeup(c)
      PROVE  UNCHANGED <<queue_, shuttingDown_, delivered>>
  BY <1>4 DEF Respond, Finish, SpuriousWakeup, queueVars
<1>5. CASE ProducersJoined \/ Drain \/ MainWakesUnsignalled \/ NotifyAll
  BY <1>5 DEF ProducersJoined, Drain, MainWakesUnsignalled, NotifyAll, rqVars, queueVars
<1>6. CASE UNCHANGED pVars
  BY <1>6 DEF pVars, rqVars, queueVars
<1> QED
  BY <1>1, <1>2, <1>3, <1>4, <1>5, <1>6 DEF PNext

(* The ring, the mutex and the condition variable of RequestQueue          *)
(* implement a closable bounded FIFO, for every capacity and every number  *)
(* of workers: requests come out in the order they went in, each once,     *)
(* and those inside at shutdown() still come out.                          *)
THEOREM QueueRefinesFifo == PSpec => RefinesFifo
<1>1. PInit => Fifo!FifoInit
  <2> SUFFICES ASSUME PInit
               PROVE  Fifo!FifoInit
    OBVIOUS
  <2>1. Contents(queue_) = <<>> /\ shuttingDown_ = FALSE /\ delivered = <<>>
    BY EmptyRingIsRing DEF PInit, RQInit, Slotted
  <2> QED
    BY <2>1 DEF Fifo!FifoInit
<1> QED
  BY <1>1, StepRefinesFifo, PInvHolds, PTL
  DEF PSpec, RefinesFifo, Fifo!FifoSpec
=============================================================================
